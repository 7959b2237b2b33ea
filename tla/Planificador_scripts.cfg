CONSTANTS
    e1 = e1
    e2 = e2
    e3 = e3
    k1 = k1
    k2 = k2
    Fd = {e1, e2}
    Key = {k1}
    NoEsi = NoEsi
    Freed = Freed
    Ghost = Ghost
    Algorithm = "SJFCD"
    ConfigKeys <- NoConfigKeys
    Commands = {"pausar"}
    Failures = {}
    MaxArrivals = 2
    MaxCommands = 1
    MaxLines = 4
SPECIFICATION FairSpec
CHECK_DEADLOCK FALSE
INVARIANTS OneExecuting StoreReleases NeverCrashes
PROPERTIES EveryScriptEnds
