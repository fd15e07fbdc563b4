CONSTANTS
    Reports = {r1, r2, r3}
    MaxLen = 1
    BatchSize = 2
    Fallbacks = {TRUE, FALSE}
    Writers = {"sync", "async"}
    WriteFaults = TRUE
    MaxFaults = 1
SPECIFICATION FairSpec
INVARIANTS
    EachReportOnce
    QueueBounded
    ListInOrder
PROPERTY EveryReportStored
CHECK_DEADLOCK FALSE
