\* CheckEvents with KvModel: Event histories of two operations over two
\* keys, no timeout.
CONSTANTS
    Nil = Nil
    k1 = k1
    k2 = k2
    Keys <- MCKeys
    Vals = {"x"}
    MaxOut = 1
    NOps = 0
    NEvOps = 2
    MaxTime = 2
    DistinctTimes = FALSE
    AllowEmpty = FALSE
    Timeouts = {FALSE}
    Histories <- MCNoEvents
    EventHistories <- MCEventHistories
SPECIFICATION Spec
INVARIANT ReturnedVerdict
CHECK_DEADLOCK FALSE
