CONSTANTS
    k1 = k1
    k2 = k2
    k3 = k3
    k4 = k4
    Key = {k1, k2, k3}
    None = None
    TotalEntries = 4
    EntrySize = 2
    SizesOf <- Growing
    Algorithms = {"C", "L", "B"}
    Persist = TRUE
    MaxRequests = 5
    MaxKills = 1
SPECIFICATION Spec
SYMMETRY Symmetry
INVARIANTS TypeOK EntriesDisjoint EntriesCounted ValuesIntact
PROPERTIES CompactionPacks EnoughForCompacted
