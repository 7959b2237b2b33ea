CONSTANTS
    t1 = t1
    t2 = t2
    Thread = {t1, t2}
    Status = Status
    MaxInFlight = 1
    MaxSentences = 1
    MaxStatus = 1
SPECIFICATION FairSpec
CHECK_DEADLOCK FALSE
PROPERTIES StatusShown
