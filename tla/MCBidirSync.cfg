\* Newer-wins, plain files, every fault; four user edits over two paths.
CONSTANTS
    Paths = {a, b}
    None = None
    MaxClock = 4
    MaxFaults = 1
    MTIME_TOLERANCE = 0
    HOUR = 10
    ConflictStrategy = "newer-wins"
    Encrypted = FALSE
    Faults = {"transfer", "verify", "delete", "backup", "cancel", "crash"}
SPECIFICATION Spec
SYMMETRY PathSymmetry
INVARIANT TypeOK
INVARIANT UnsyncedEditsSurvive
INVARIANT LosersAreBackedUp
INVARIANT CompletedRunConverges
PROPERTY DeletesFollowTheUser
PROPERTY QuietRunIsNoop
