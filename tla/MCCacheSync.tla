---------------------------- MODULE MCCacheSync ----------------------------
(* Instances of CacheSync: readers beside sends that lose power, readers    *)
(* beside sends that are killed while the cache is cleaned, and sends that  *)
(* are killed while the set is deleted and the cache cleaned.               *)
EXTENDS CacheSync

Budget(a, r, k, l, d, c) ==
    [what \in Bounded |-> CASE what = "attempt" -> a [] what = "read" -> r [] what = "kill" -> k
                            [] what = "loss" -> l [] what = "delete" -> d [] what = "clean" -> c]
MCBudgets == {Budget(4, 3, 0, 3, 0, 0), Budget(4, 2, 3, 0, 0, 2), Budget(4, 0, 3, 0, 2, 2)}
\* A kill and a power loss after it; a reader and a set that is deleted.
MCKillThenLoss == {Budget(3, 0, 1, 1, 0, 0)}
MCReaderAndDeletion == {Budget(2, 1, 0, 0, 1, 0)}
=============================================================================
