----------------------------- MODULE MCBidirSync -----------------------------
(* Model values for the two-way engine: two paths, so that a file can be     *)
(* renamed, edits further apart than the mtime tolerance.                    *)
EXTENDS BidirSync, TLC

PathSymmetry == Permutations(Paths)
=============================================================================
