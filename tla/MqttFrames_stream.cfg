SPECIFICATION FairSpec
CONSTANTS
    Base = 4
    MaxDigits = 3
    Devices = {1, 2}
    Clients <- MCClients
    MaxPings = 1
    MaxChanges = 1
    TopicLists <- MCTopicLists
    MinIdle = 2
    MaxIdle = 10
    ConfiguredIdle = 0
    DefaultIdle = 3
INVARIANTS
    OnlyOwnTopics
    ConnectUnderstood
    BytesConserved
    CutAtFrames
    LivelyStaysConnected
PROPERTY FramesArrive
CHECK_DEADLOCK FALSE
