SPECIFICATION FairSpec
CONSTANTS
    Devices = {d1}
    Users = {u1}
    Conns = {c1, c2}
    MaxTokens = 2
    NoConn = NoConn
    Nobody = Nobody
    MaxReports = 1
    StoreFaults = TRUE
INVARIANTS
    TokenIsBacked
    RegistryMatchesBridges
PROPERTY
    RegistrySpec ClosedIsReleased
CHECK_DEADLOCK FALSE
