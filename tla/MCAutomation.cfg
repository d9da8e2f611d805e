SPECIFICATION FairSpec
CONSTANTS
    here = here
    there = there
    tpl = tpl
    x = x
    y = y
    j1 = j1
    j2 = j2
    j3 = j3
    j4 = j4
    None = None
    Deleted = Deleted
    Devices = {here, there}
    Here = here
    Templates = {tpl}
    Paths = {x, y}
    Jobs = {j1, j2, j3, j4}
    Settings <- MCSettings
    Every = 2
    CronMinutes = {1, 3}
    MaxTime = 3
    MaxConns = 2
    Cases <- MCCases
INVARIANTS
    AutomationTypeOK
    CollectionIsServed
    WatchersFollowJobs
PROPERTIES
    ChangesAreSynced
    ScheduleIsKept
CHECK_DEADLOCK FALSE
