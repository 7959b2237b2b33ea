CONSTANTS
    e1 = e1
    e2 = e2
    e3 = e3
    k1 = k1
    k2 = k2
    Fd = {e1, e2, e3}
    Key = {k1}
    NoEsi = NoEsi
    Freed = Freed
    Ghost = Ghost
    Algorithm = "SJFCD"
    ConfigKeys <- NoConfigKeys
    Commands = {}
    Failures = {}
    MaxArrivals = 3
    MaxCommands = 0
    MaxLines = 2
SPECIFICATION Spec
SYMMETRY Symmetry
CHECK_DEADLOCK FALSE
INVARIANTS OneQueue
