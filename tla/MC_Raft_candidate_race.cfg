\* The Run goroutine's unlocked read of rf.state, with vote replies that may
\* arrive after the election timer has fired (no BoundedElectionDelay).
CONSTANTS
    s1 = s1
    s2 = s2
    s3 = s3
    Nil = Nil
    Server <- MCServer
    MaxInFlight = 4
    MaxTerm = 2
    MaxIndex = 0
    Snapshots = FALSE
    LossyNetwork = TRUE
    BoundedElectionDelay = FALSE
    BoundedHeartbeatRTT = TRUE
    MaxRestarts = 0
SYMMETRY Symmetry
SPECIFICATION Spec
CONSTRAINT InFlightBound
VIEW StateView
INVARIANT ElectionSafety
CHECK_DEADLOCK FALSE
