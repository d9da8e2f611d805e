SPECIFICATION Spec
CONSTANTS
 p1=p1
 p2=p2
 Paths={p1,p2}
 None=None
 MaxClock=2
 MaxFaults=2
 MaxRuns=2
 Kept=1
 MaxRequests=2
 Cases <- MCCases
 Edits <- MCEdits
SYMMETRY Symmetry
CHECK_DEADLOCK FALSE
INVARIANTS RollbackTypeOK OverwrittenIsKept QuietRunIsNoop RollbackRestores RollbacksKeepApart
PROPERTIES QuietRunDelivers DeletesFollowSource RollbackWaitsForRun
