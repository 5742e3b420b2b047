--------------------------- MODULE MCAutoRestore ---------------------------
(* Instances of AutoRestore: a sender with three snapshots, whose clock may *)
(* have put two backups in a loop, and a target with snapshots of its own.  *)
EXTENDS AutoRestore

S(g, n, t) == [guid |-> g, name |-> n, time |-> t]
B(b, s, raw, repl) == [base |-> b, source |-> s, raw |-> raw, repl |-> repl, recorded |-> TRUE]
Unrecorded(b) == [b EXCEPT !.recorded = FALSE]
a1 == S(1, "a1", 1)
a2 == S(2, "a2", 2)
a3 == S(3, "a3", 3)

Straight == {B(a1, NoSnapshot, FALSE, FALSE), B(a2, a1, FALSE, FALSE),
             B(a2, NoSnapshot, TRUE, FALSE), B(a3, a2, FALSE, FALSE), B(a3, a2, FALSE, TRUE)}
Loop == {B(a1, a3, FALSE, FALSE), B(a1, NoSnapshot, FALSE, FALSE), B(a2, a1, FALSE, FALSE),
         B(a3, a2, FALSE, FALSE), B(a2, a3, FALSE, FALSE)}
\* a2 was destroyed and taken again, and older versions wrote manifests without guids.
again == S(4, "a2", 3)
Retaken == {B(a1, NoSnapshot, FALSE, FALSE), B(a2, a1, FALSE, FALSE), Unrecorded(B(a2, a1, FALSE, FALSE)),
            B(again, NoSnapshot, FALSE, FALSE), B(a3, a2, FALSE, TRUE)}
MCArchives == {Straight, Loop, Retaken}
\* The sender's own, one of the second of a1, one named a3 that is older, a twin of a2.
MCLocal == {a1, a2, S(11, "t", 1), S(12, "a3", 0), S(13, "a2", 2)}
\* One of the target, and one that a2 would pass for.
MCTaken == {S(14, "u", 2), S(15, "a2", 2)}

O(a, f, d, o) == [auto |-> a, force |-> f, allowDestroy |-> d, origin |-> o]
MCOptions == {O(TRUE, FALSE, FALSE, NoSnapshot), O(TRUE, TRUE, FALSE, NoSnapshot),
              O(TRUE, TRUE, TRUE, NoSnapshot), O(FALSE, TRUE, FALSE, NoSnapshot),
              O(TRUE, FALSE, FALSE, a1)}
=============================================================================
