CONSTANTS
    Nil = Nil
    k1 = k1
    k2 = k2
    Keys <- MCKeys
    Vals = {"x"}
    MaxOut = 1
    NOps = 3
    MaxTime = 6
    DistinctTimes = TRUE
    AllowEmpty = FALSE
    Timeouts = {FALSE, TRUE}
    Histories <- MCHistories
    EventHistories <- MCNoEvents
    NEvOps = 0
SPECIFICATION Spec
INVARIANT ReturnedVerdict
INVARIANT RejectSound
PROPERTY CheckReturns
CHECK_DEADLOCK FALSE
