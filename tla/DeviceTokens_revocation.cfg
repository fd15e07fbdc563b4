SPECIFICATION Spec
CONSTANTS
    c1 = c1
    c2 = c2
    Calls = {c1, c2}
    MaxTokens = 1
    AuthTTL = 2
    KnownTTL = 2
    CopyTTL = 1
    Debounce = 1
    Inactive = 4
    Slow = 1
    MaxFaults = 1
INVARIANTS
    RevokedIsRefused
    ListedWasSilent
    DeletedIsForgotten
SYMMETRY CallSymmetry
