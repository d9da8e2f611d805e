---------------------------- MODULE MCRollback ----------------------------
(* Two paths; every import maps both to one new name. *)
EXTENDS Rollback, TLC
CONSTANTS p1, p2

Sync(policy, encrypted) == [mode |-> "sync", policy |-> policy, encrypted |-> encrypted,
                            importTo |-> [p \in Paths |-> p]]
Imports == {[mode |-> "import", policy |-> "backup", encrypted |-> FALSE,
             importTo |-> [p \in Paths |-> q]] : q \in Paths}
Plain    == {Sync("mirror", FALSE), Sync("backup-with-deletes", FALSE)}
Everyone == Plain \cup {Sync("backup", FALSE), Sync("backup-with-deletes", TRUE)} \cup Imports

Bound(e, f, b, r, q) ==
    [edits |-> e, faults |-> f, breaks |-> b, runs |-> r, requests |-> q]

MCCases ==
         [job : {Sync("backup-with-deletes", FALSE)},
           budget : {Bound(2, 0, 0, 1, 0), Bound(1, 0, 0, 2, 0)}]
    \cup [job : Everyone, budget : {Bound(0, 1, 0, 2, 0), Bound(1, 1, 0, 1, 0)}]
    \cup [job : Plain, budget : {Bound(1, 1, 1, 1, 1), Bound(0, 0, 0, 2, 2),
                                 Bound(0, 1, 1, 1, 2)}]
    \cup [job : {Sync("mirror", FALSE)},
           budget : {Bound(0, 2, 0, 1, 1), Bound(0, 1, 0, 2, 1)}]
    \cup [job : {Sync("backup", FALSE)}, budget : {Bound(0, 0, 1, 2, 2)}]

MCEdits == {[size |-> 1, old |-> FALSE], [size |-> 2, old |-> TRUE]}
Symmetry == Permutations(Paths)
===========================================================================
