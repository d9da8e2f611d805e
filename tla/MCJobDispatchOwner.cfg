\* One connection, no faults: three requests are enough.
CONSTANTS
    Jobs = {j1}
    Conns <- MCConns
    DEFAULT_CONCURRENCY = 1
    MaxWaiting = 3
    MaxConns = 1
    MaxRequests = 3
    MaxRestarts = 0
    None = None
SPECIFICATION Spec
INVARIANT RunningJobIsOwned
CHECK_DEADLOCK FALSE
