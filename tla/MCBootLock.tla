----------------------------- MODULE MCBootLock -----------------------------
(* Instances of BootLock: runs of two processes that may all try at the     *)
(* same time, through kills and restarts.                                   *)
EXTENDS BootLock, TLC

Limit(r, k, b) == [run |-> r, kill |-> k, reboot |-> b]
MCLimits == {Limit(4, 2, 2)}
\* Nothing is killed and nothing restarts.
MCQuiet == {Limit(3, 0, 0)}

\* Processes and pids differ by name only.
Alike == Permutations(Proc) \cup Permutations(Pid)
=============================================================================
