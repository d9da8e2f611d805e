\* Three processes of one host, runs shorter than the stale age, one crash.
CONSTANTS
    r1 = r1
    r2 = r2
    r3 = r3
    r4 = r4
    p1 = p1
    p2 = p2
    p3 = p3
    Runs = {r1, r3, r4}
    Processes = {p1, p2, p3}
    ProcessOf <- MCOneRunEach
    HostOf <- MCOneHost
    STALE_LOCK_AGE = 2
    LongRuns = FALSE
    Crashable = {p1}
    None = None
SPECIFICATION Spec
INVARIANT MutualExclusion
