\* Snapshots across crashes: two replicas, terms up to 2, logs up to 2
\* entries, the KV server asking for snapshots, a lossy network with two
\* messages in flight, and one crash and Make from the persister.
CONSTANTS
    s1 = s1
    s2 = s2
    s3 = s3
    Nil = Nil
    Server <- MCServer2
    MaxInFlight = 2
    MaxTerm = 2
    MaxIndex = 2
    Snapshots = TRUE
    LossyNetwork = TRUE
    BoundedElectionDelay = TRUE
    BoundedHeartbeatRTT = TRUE
    MaxRestarts = 1
SYMMETRY Symmetry
SPECIFICATION Spec
CONSTRAINT InFlightBound
VIEW StateView
INVARIANT TypeOK
INVARIANT AppliedInOrder
INVARIANT SnapshotCovered
CHECK_DEADLOCK FALSE
