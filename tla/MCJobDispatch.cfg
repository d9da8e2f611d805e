\* One job, two requests, one reconnection, one restart of either process.
CONSTANTS
    Jobs = {j1}
    Conns <- MCConns
    DEFAULT_CONCURRENCY = 1
    MaxWaiting = 3
    MaxConns = 2
    MaxRequests = 2
    MaxRestarts = 1
    None = None
SPECIFICATION FairSpec
INVARIANT TypeOK
INVARIANT RunningIsShown
INVARIANT ActiveIsWorkedOn
PROPERTY ActiveJobEnds
\* The connections and requests are bounded: in the end nothing is left to do.
CHECK_DEADLOCK FALSE
