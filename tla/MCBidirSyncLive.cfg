\* Every fault once, three user edits, runs started for ever.
CONSTANTS
    Paths = {a, b}
    None = None
    MaxClock = 3
    MaxFaults = 1
    MTIME_TOLERANCE = 0
    HOUR = 10
    ConflictStrategy = "newer-wins"
    Encrypted = FALSE
    Faults = {"transfer", "verify", "delete", "backup", "cancel", "crash"}
SPECIFICATION FairSpec
PROPERTY EventuallyInSync
