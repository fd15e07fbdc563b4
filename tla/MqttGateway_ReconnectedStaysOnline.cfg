SPECIFICATION Spec
CONSTANTS
    Devices = {d1}
    Users = {}
    Conns = {c1, c2}
    MaxTokens = 1
    NoConn = NoConn
    Nobody = Nobody
    MaxReports = 0
    StoreFaults = FALSE
INVARIANT
    ReconnectedStaysOnline
CHECK_DEADLOCK FALSE
