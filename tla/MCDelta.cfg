\* Two user edits, one retry; see MCCases.
CONSTANTS
    Bytes = {0, 1, 3}
    BlockSize = 2
    maxDataRun = 2
    CheckMod = 3
    Files <- MCFiles
    Edits <- MCEdits
    Cases <- MCCases
    Retries = 1
    MaxClock = 3
    None = None
    Torn = Torn
SPECIFICATION FairSpec
INVARIANT DeltaTypeOK
INVARIANT ScanIsExact
PROPERTY InstalledIsWhole
PROPERTY CatchesUp
\* The job rests when there is nothing to copy.
CHECK_DEADLOCK FALSE
