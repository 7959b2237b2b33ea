CONSTANTS
    t1 = t1
    t2 = t2
    Thread = {t1, t2}
    Status = Status
    MaxInFlight = 1
    MaxSentences = 4
    MaxStatus = 2
SPECIFICATION FairSpec
CHECK_DEADLOCK FALSE
INVARIANTS TypeOK AnswerReachesAsker SlotIsKept OneToken OwnerAnswered InStep
PROPERTIES SentenceEnds
