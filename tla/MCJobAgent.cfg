\* Three jobs for two slots, requests over two connections.
CONSTANTS
    Jobs = {j1, j2, j3}
    Conns = {c1, c2}
    DEFAULT_CONCURRENCY = 2
    MaxWaiting = 3
    None = None
SPECIFICATION FairAgentSpec
INVARIANT OneExecution
PROPERTY QueuedJobLeavesQueue
