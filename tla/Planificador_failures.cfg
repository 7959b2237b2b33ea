CONSTANTS
    e1 = e1
    e2 = e2
    e3 = e3
    k1 = k1
    k2 = k2
    Fd = {e1, e2}
    Key = {k1}
    NoEsi = NoEsi
    Freed = Freed
    Ghost = Ghost
    Algorithm = "FIFO"
    ConfigKeys <- NoConfigKeys
    Commands = {"kill", "bloquear"}
    Failures = {"law", "cut", "handshake"}
    MaxArrivals = 3
    MaxCommands = 1
    MaxLines = 2
SPECIFICATION Spec
SYMMETRY Symmetry
CHECK_DEADLOCK FALSE
INVARIANTS InControl OwnersAlive
