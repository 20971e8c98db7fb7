\* Elections: three replicas, terms up to 2, no client commands, a lossy
\* network with up to four messages in flight.
CONSTANTS
    s1 = s1
    s2 = s2
    s3 = s3
    Nil = Nil
    Server <- MCServer
    MaxInFlight = 4
    MaxTerm = 2
    MaxIndex = 0
    Snapshots = FALSE
    LossyNetwork = TRUE
    BoundedElectionDelay = TRUE
    BoundedHeartbeatRTT = TRUE
    MaxRestarts = 0
SYMMETRY Symmetry
SPECIFICATION Spec
CONSTRAINT InFlightBound
VIEW StateView
INVARIANT ElectionSafety
CHECK_DEADLOCK FALSE
