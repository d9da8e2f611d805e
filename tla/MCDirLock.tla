------------------------------ MODULE MCDirLock ------------------------------
(* Three agent processes, two of them on one host; two runs in the first.    *)
EXTENDS DirLock

CONSTANTS r1, r2, r3, r4, p1, p2, p3

MCProcessOf == [r \in {r1, r2, r3, r4} |->
                    CASE r \in {r1, r2} -> p1 [] r = r3 -> p2 [] r = r4 -> p3]
MCOneRunEach == [r \in {r1, r3, r4} |->
                    CASE r = r1 -> p1 [] r = r3 -> p2 [] r = r4 -> p3]
MCOneHost == [p \in {p1, p2, p3} |-> "local"]
MCHostOf == [p \in {p1, p2, p3} |-> IF p = p3 THEN "remote" ELSE "local"]
=============================================================================
