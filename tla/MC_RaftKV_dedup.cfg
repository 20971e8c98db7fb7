\* Clerk retries and the dedup table: two clerks with one request each, two
\* replicas, a log of up to two entries (room for a request and its retry),
\* snapshots, at most two handlers and RPCs at once, no request delivered
\* after its Call gave up.
CONSTANTS
    c1 = c1
    c2 = c2
    Nil = Nil
    Client <- MCClient
    NServers = 2
    MaxReq = 1
    MaxLog = 2
    MaxInFlight = 2
    Snapshots = TRUE
    DelayedRequests = FALSE
SYMMETRY Symmetry
SPECIFICATION Spec
CONSTRAINT InFlightBound
INVARIANT AppliedExactlyOnce
INVARIANT ResultMatchesLog
