CONSTANTS
    Nil = Nil
    k1 = k1
    Keys <- MCKeys
    Vals = {"x", "y"}
    MaxOut = 2
    NOps = 3
    MaxTime = 6
    DistinctTimes = TRUE
    Histories <- MCHistories
    EventHistories <- MCEventHistories
    NEvOps = 2
    W = 2
SPECIFICATION Spec
INVARIANT ListMatchesLinearized
INVARIANT CacheLookupExact
PROPERTY RefinesLinSpec
CHECK_DEADLOCK FALSE
