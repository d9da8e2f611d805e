\* An encrypted two-way job, as the two-way preset makes it; no fault at all.
CONSTANTS
    Paths = {a, b}
    None = None
    MaxClock = 2
    MaxFaults = 0
    MTIME_TOLERANCE = 0
    HOUR = 10
    ConflictStrategy = "newer-wins"
    Encrypted = TRUE
    Faults = {}
SPECIFICATION Spec
PROPERTY QuietRunIsNoop
