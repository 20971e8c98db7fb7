\* Crash and restart during elections: the election scope of
\* MC_Raft_election.cfg, and one replica may crash and be made again from
\* its persister.
CONSTANTS
    s1 = s1
    s2 = s2
    s3 = s3
    Nil = Nil
    Server <- MCServer
    MaxInFlight = 4
    MaxTerm = 2
    MaxIndex = 0
    Snapshots = FALSE
    LossyNetwork = TRUE
    BoundedElectionDelay = TRUE
    BoundedHeartbeatRTT = TRUE
    MaxRestarts = 1
SYMMETRY Symmetry
SPECIFICATION Spec
CONSTRAINT InFlightBound
VIEW StateView
INVARIANT ElectionSafety
CHECK_DEADLOCK FALSE
