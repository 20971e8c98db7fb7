CONSTANTS
    Nil = Nil
    k1 = k1
    Keys <- MCKeys
    Vals = {"x"}
    MaxOut = 1
    NOps = 2
    MaxTime = 2
    DistinctTimes = FALSE
    Histories <- MCHistories
    EventHistories <- MCNoEvents
    NEvOps = 0
    W = 2
SPECIFICATION Spec
PROPERTY RefinesLinSpec
CHECK_DEADLOCK FALSE
