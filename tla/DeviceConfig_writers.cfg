CONSTANTS
    Requests = {r1, r2, r3}
    Parts = {k1, k2}
    NoRequest = NoRequest
    MaxDeletes = 1
    Faults = TRUE
SPECIFICATION Spec
SYMMETRY ConfigSymmetry
INVARIANTS
    VersionsCountWrites
    LatestIsQueued
    ReportedNotAhead
CHECK_DEADLOCK FALSE
