CONSTANTS
    e1 = e1
    e2 = e2
    e3 = e3
    k1 = k1
    k2 = k2
    Fd = {e1, e2, e3}
    Key = {k1}
    NoEsi = NoEsi
    Freed = Freed
    Ghost = Ghost
    Algorithm = "FIFO"
    ConfigKeys <- OneConfigKey
    Commands = {"desbloquear", "pausar"}
    Failures = {"law"}
    MaxArrivals = 3
    MaxCommands = 2
    MaxLines = 3
SPECIFICATION Spec
SYMMETRY Symmetry
CHECK_DEADLOCK FALSE
INVARIANTS OneQueue BlockedIffExpecting NoLostWakeup Alternate OneOwner
PROPERTIES ImplementsKeyLocks
