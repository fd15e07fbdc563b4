SPECIFICATION EitherSpec
CONSTANTS
    Things = {"t1", "t2"}
    Handlers = {h1, h2}
    MaxCalls = 5
    Creates <- MCCreates
    Patches <- MCPatches
    Texts = {"n1", "n2", "t1", "u", "laser"}
    Params = {"gpio"}
    Numbers = {0, 1, 2}
    Words = {"on", "off"}
    Null = Null
    Malformed = Malformed
    Braces = Braces
    None = None
    NoRow = NoRow
    NoList = NoList
    w1 = w1
    Ids = {"s1", "s2"}
    Forms <- MCForms
    Strings = {"on", "off"}
    Reports <- MCReports
    Workers = {w1}
    MaxChanges = 3
    MaxFaults = 1
    NoCopy = NoCopy
INVARIANTS
    StoredIsSound
    LastSentIsKept
    ApplyIsComplete
    MisfitIsExplained
PROPERTY ViewsComeRight
CHECK_DEADLOCK FALSE
