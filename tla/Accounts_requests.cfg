SPECIFICATION AccountSpec
CONSTANTS
    r1 = r1
    r2 = r2
    r3 = r3
    r4 = r4
    k1 = k1
    k2 = k2
    Requests = {r1, r2, r3, r4}
    Keys = {k1, k2}
    MaxLogins = 1
    MaxFaults = 1
INVARIANTS
    FirmChangeStays
    LeftTokenIsExplained
SYMMETRY AccountSymmetry
CHECK_DEADLOCK FALSE
