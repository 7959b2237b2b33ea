CONSTANTS
    k1 = k1
    k2 = k2
    k3 = k3
    k4 = k4
    Key = {k1, k2, k3}
    None = None
    TotalEntries = 4
    EntrySize = 2
    SizesOf <- SmallOrLarge
    Algorithms = {"C"}
    Persist = TRUE
    MaxRequests = 5
    MaxKills = 0
SPECIFICATION Spec
INVARIANTS FilesOwn
