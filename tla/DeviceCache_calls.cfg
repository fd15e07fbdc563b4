SPECIFICATION CacheFairSpec
CONSTANTS
    Instances = {i1, i2}
    Readers = {r1, r2}
    Writers = {w1}
    Kinds = {"row", "defs"}
    NoEntry = NoEntry
    Nowhere = Nowhere
    MaxFaults = 1
 
PROPERTY CachesConverge
CHECK_DEADLOCK FALSE
