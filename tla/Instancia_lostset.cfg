CONSTANTS
    k1 = k1
    k2 = k2
    k3 = k3
    k4 = k4
    Key = {k1, k2, k3}
    None = None
    TotalEntries = 4
    EntrySize = 2
    SizesOf <- Growing
    Algorithms = {"C", "L", "B"}
    Persist = FALSE
    MaxRequests = 4
    MaxKills = 0
SPECIFICATION Spec
\* the coordinator may stop sending requests
CHECK_DEADLOCK FALSE
INVARIANTS AcknowledgedSet
