CONSTANTS
    Cmds = {c1, c2}
    Polls = {p1, p2}
    MaxLen = 1
    MaxFaults = 2
SPECIFICATION FairSpec
INVARIANTS
    FetchedOnceInOrder
    AbandonedExpires
    AnsweredIsPollable
    LogIsEarned
PROPERTY IssuedIsFetched
CHECK_DEADLOCK FALSE
