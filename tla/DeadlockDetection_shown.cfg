CONSTANTS
    k1 = k1
    k2 = k2
    k3 = k3
    Key = {k1, k2, k3}
    ConfigKeys = {}
    MaxEsi = 3
    Commands = {"bloquear", "desbloquear"}
    None = None
SPECIFICATION FairSpec
\* a NULL dereference ends the scheduler
CHECK_DEADLOCK FALSE
INVARIANTS TypeOK ShowsTheDeadlocks OneNumberEach CrashesOnlyOnNoEsi
PROPERTIES EndsIfHarmless
