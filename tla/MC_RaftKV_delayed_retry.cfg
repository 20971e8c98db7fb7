\* A request delivered after its Call gave up: one clerk with two requests,
\* two replicas, a log of up to four entries.
CONSTANTS
    c1 = c1
    c2 = c2
    Nil = Nil
    Client <- MCClientOne
    NServers = 2
    MaxReq = 2
    MaxLog = 4
    MaxInFlight = 3
    Snapshots = FALSE
    DelayedRequests = TRUE
SPECIFICATION Spec
CONSTRAINT InFlightBound
INVARIANT AppliedExactlyOnce
