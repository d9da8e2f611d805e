------------------------------- MODULE MCDelta -------------------------------
(* Blocks of two bytes, a checksum modulo three that takes 0 for 3.          *)
EXTENDS DeltaTransfer, TLC

UpTo(n) == BoundedSeq(Bytes, n)

MCFiles == UpTo(4)
MCEdits == {<<0, 1, 3>>, <<3, 1, 0, 1>>}

Budget(b) == b @@ [e \in Events |-> 0]
Case(old, new, m, b) == [src |-> [data |-> new, mtimeMs |-> 1],
                         dst |-> [data |-> old, mtimeMs |-> 0], mode |-> m, budget |-> Budget(b)]

\* Every pair of small files undisturbed, a few with everything that may happen.
MCCases ==
         {Case(old, new, "delta", <<>>) : old \in MCFiles, new \in MCFiles}
    \cup {Case(old, new, "auto", <<>>) : old \in UpTo(2), new \in UpTo(3)}
    \cup {Case(<<0, 1, 1>>, <<0, 1, 3, 1>>, m, b) : m \in {"auto", "delta"},
             b \in {[edits |-> 2, faults |-> 1, crashes |-> 1],
                    [edits |-> 2, faults |-> 1, restores |-> 1],
                    [edits |-> 1, faults |-> 1, crashes |-> 1, restores |-> 1]}}
=============================================================================
