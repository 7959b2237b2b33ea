CONSTANTS
    A = A
    B = B
    a1 = a1
    a2 = a2
    b1 = b1
    k1 = k1
    k2 = k2
    e1 = e1
    Name = {A, B}
    Process = {a1, a2, b1}
    NameOf <- Three
    Key = {k1}
    Esi = {e1}
    Letter <- Letters
    Distributions = {"LSU"}
    Failures = {"space", "compact", "replace", "confirm"}
    MaxSocket = 3
    MaxKills = 1
    DISCONNECTED = DISCONNECTED
    None = None
SPECIFICATION FairSpec
INVARIANTS TypeOK InOnePlace TriedOnce 
PROPERTIES NotDisplaced LostByConfirmation SentenceAnswered
CHECK_DEADLOCK FALSE
