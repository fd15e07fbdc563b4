SPECIFICATION FairSpec
CONSTANTS
    Devices = {d1}
    Owners = {o1}
    Links = {k1, k2}
    Consoles = {u1}
    Calls = {s1}
    NoClient = NoClient
    NoOwner = NoOwner
    NoDevice = NoDevice
    MaxPushes = 1
    Cap = 1
    StoreFaults = TRUE
INVARIANTS
    HubIsConsistent
PROPERTIES
    OfflineNoticeIsDue
    RegistrySpec
    LeaversEnd
CHECK_DEADLOCK FALSE
