\* Replication: three replicas, terms up to 3, logs up to 1 entry, a
\* network that reorders but does not lose, up to two messages in flight,
\* one campaign at a time.
CONSTANTS
    s1 = s1
    s2 = s2
    s3 = s3
    Nil = Nil
    Server <- MCServer
    MaxInFlight = 2
    MaxTerm = 3
    MaxIndex = 1
    Snapshots = FALSE
    LossyNetwork = FALSE
    BoundedElectionDelay = TRUE
    BoundedHeartbeatRTT = TRUE
    MaxRestarts = 0
SYMMETRY Symmetry
SPECIFICATION Spec
CONSTRAINT InFlightBound
CONSTRAINT OneCampaign
VIEW StateView
INVARIANT StateMachineSafety
INVARIANT CommitWithinLog
PROPERTY CommitMonotone
CHECK_DEADLOCK FALSE
