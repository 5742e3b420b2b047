---------------------------- MODULE Publication ----------------------------
(***************************************************************************)
(* What `zfsbackup send` promises of one backup set, without goroutines:   *)
(* volumes are stored at the destinations in any order, the manifest       *)
(* appears at the destinations one after the other and only when the whole *)
(* set is at all of them, nothing is written behind it, and the run        *)
(* returns nil only when it is at the last.  A failure may end the run at  *)
(* any point.                                                              *)
(***************************************************************************)
EXTENDS Naturals

VARIABLES
    total,       \* the volumes of the set
    stored,      \* stored[d]: the volumes whole at destination d
    published,   \* the destinations that hold the manifest
    result       \* what Backup returned: "none" yet, "nil" or "error"

vars == <<total, stored, published, result>>
Destinations == DOMAIN stored

Init ==
    /\ total \in Nat \ {0}
    /\ Destinations # {} /\ Destinations \subseteq Nat
    /\ stored = [d \in Destinations |-> {}]
    /\ published = {}
    /\ result = "none"

Store(d, v) ==
    /\ result = "none" /\ published = {}
    /\ stored' = [stored EXCEPT ![d] = @ \cup {v}]
    /\ UNCHANGED <<total, published, result>>

Publish(d) ==
    /\ result = "none" /\ d \notin published
    /\ \A e \in Destinations : stored[e] = 1..total
    /\ \A e \in Destinations : e < d => e \in published
    /\ published' = published \cup {d}
    /\ UNCHANGED <<total, stored, result>>

Return ==
    /\ result = "none"
    /\ result' \in {"error"} \cup (IF published = Destinations THEN {"nil"} ELSE {})
    /\ UNCHANGED <<total, stored, published>>

Next == \/ \E d \in Destinations : Publish(d) \/ \E v \in 1..total : Store(d, v)
        \/ Return

Spec == Init /\ [][Next]_vars
=============================================================================
