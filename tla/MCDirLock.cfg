\* Four runs, three processes on two hosts, two of which may die.
CONSTANTS
    r1 = r1
    r2 = r2
    r3 = r3
    r4 = r4
    p1 = p1
    p2 = p2
    p3 = p3
    Runs = {r1, r2, r3, r4}
    Processes = {p1, p2, p3}
    ProcessOf <- MCProcessOf
    HostOf <- MCHostOf
    STALE_LOCK_AGE = 2
    LongRuns = TRUE
    Crashable = {p1, p3}
    None = None
SPECIFICATION FairSpec
INVARIANT TypeOK
INVARIANT OverlapNeedsTakeover
PROPERTY ReleaseRemovesOwnLock
PROPERTY WrittenDeadLockIsReclaimed
