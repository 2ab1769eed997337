SPECIFICATION Spec
CONSTANTS
    Keys = {k1}
    Writers = {w1}
    Syncs = {s1}
    NoKey = NoKey
    Faults = {}
    MaxFaults = 0
    MaxWrites = 3
CHECK_DEADLOCK FALSE
PROPERTIES
    RawStorageIsAppendOnly
