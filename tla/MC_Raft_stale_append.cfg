\* AppendEntries requests of one leader overtaking each other: the next
\* heartbeat may leave before the previous one is answered (no
\* BoundedHeartbeatRTT); the network reorders but does not lose.
CONSTANTS
    s1 = s1
    s2 = s2
    s3 = s3
    Nil = Nil
    Server <- MCServer
    MaxInFlight = 3
    MaxTerm = 1
    MaxIndex = 1
    Snapshots = FALSE
    LossyNetwork = FALSE
    BoundedElectionDelay = TRUE
    BoundedHeartbeatRTT = FALSE
    MaxRestarts = 0
SYMMETRY Symmetry
SPECIFICATION Spec
CONSTRAINT InFlightBound
VIEW StateView
INVARIANT CommitWithinLog
CHECK_DEADLOCK FALSE
