SPECIFICATION FairSpec
CONSTANTS
    p1 = p1
    p2 = p2
    None = None
    Paths = {p1, p2}
    MaxClock = 3
    MaxFaults = 2
    MaxRuns = 3
    MaxCalls = 4
    MaxUploads = 3
    Cases <- MCCases
INVARIANTS
    RemoteTypeOK
    VersionsSurvive
    CompletedRunConverges
PROPERTIES
    EverythingEnds
    ImplementsDelivery
    DeletesFollowTheUser
CHECK_DEADLOCK FALSE
