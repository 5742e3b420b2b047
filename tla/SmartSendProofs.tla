--------------------------- MODULE SmartSendProofs ---------------------------
(***************************************************************************)
(* What smart sends keep, whatever the planner decides from what it read   *)
(* without the lock, however many runs plan and send, and whatever is      *)
(* taken and pruned meanwhile:                                             *)
(*  - no published set is spoilt (Inv);                                    *)
(*  - every backup's chain reaches a full, where nothing is deleted        *)
(*    (Chains), from what the planner's operators compute on the lists     *)
(*    they are given;                                                      *)
(*  - steady sends go on: no run refuses for a reason the next one would   *)
(*    meet again, and none finds nothing to send while something is        *)
(*    (Progress).                                                          *)
(* Facts about a list of any length are proved from a least place at which *)
(* they would fail (Least).                                                *)
(***************************************************************************)
EXTENDS SmartSend, FiniteSetTheorems, WellFoundedInduction, TLAPS

-----------------------------------------------------------------------------
(* Numbers.                                                                *)

\* A set of numbers has a least one.
LEMMA Least ==
    ASSUME NEW S \in SUBSET Nat, S # {}
    PROVE  Min(S) \in S /\ \A y \in S : Min(S) <= y
<1>1. PICK x \in S : \A y \in S : ~(<<y, x>> \in OpToRel(<, Nat))
  BY NatLessThanWellFounded, WFMin
<1>2. \A y \in S : ~(y < x)
  BY <1>1 DEF OpToRel
<1>3. \E m \in S : \A y \in S : m <= y
  BY <1>2
<1> QED BY <1>3 DEF Min

-----------------------------------------------------------------------------
(* Sets and destinations.                                                  *)

\* To be the same set is an equivalence: it compares snapshots.
LEMMA SameSets ==
    /\ \A a : sameSet(a, a)
    /\ \A a, b : sameSet(a, b) => sameSet(b, a)
    /\ \A a, b, c : sameSet(a, b) /\ sameSet(b, c) => sameSet(a, c)
BY DEF sameSet, Same

\* The first destination of some is one of them.
LEMMA FirstOf ==
    ASSUME Shape, NEW S \in SUBSET Dests, S # {}
    PROVE  Min(S) \in S
<1>1. S \in SUBSET Nat
  <2>1. scenario.dests \in Nat
    BY SmartAssumption DEF Shape
  <2> QED BY <2>1 DEF Dests
<1> QED BY <1>1, Least

\* There is a destination.
LEMMA SomeDestination ==
    ASSUME Shape
    PROVE  Dests # {}
<1>1. scenario.dests \in Nat \ {0}
  BY SmartAssumption DEF Shape
<1> QED BY <1>1 DEF Dests

\* At first.
LEMMA InitInv == Init => Inv
<1> SUFFICES ASSUME Init PROVE Inv
  OBVIOUS
<1>1. /\ scenario \in Scenarios /\ dest = [d \in Dests |-> {}] /\ vols = [d \in Dests |-> {}]
      /\ run = [r \in Runner |-> NoRun]
  BY DEF Init
<1>2. NoRun.pc = "idle"
  BY DEF NoRun
<1>3. Shape
  BY <1>1 DEF Shape
<1>4. SendsLocked /\ UploadsNew /\ PublishesBeside
  BY <1>1, <1>2 DEF SendsLocked, UploadsNew, PublishesBeside, Sending
<1>5. SetsDiffer /\ PublishedIntact
  BY <1>1 DEF SetsDiffer, PublishedIntact
<1> QED BY <1>3, <1>4, <1>5 DEF Inv

-----------------------------------------------------------------------------
(* Steps that leave the destinations as they are.                          *)

\* The runs that send go on with what they have.
LEMMA PlanningInv ==
    ASSUME Inv, scenario' = scenario, dest' = dest, vols' = vols, DOMAIN run' = Runner,
           \A r \in Runner : /\ DOMAIN run'[r] = DOMAIN NoRun
                             /\ (run'[r] = run[r] /\ (lock' = lock \/ ~Sending(r)))
                                \/ run'[r].pc \notin {"locked", "upload", "publish"}
    PROVE  Inv'
<1>1. Dests' = Dests /\ NoRun' = NoRun
  BY DEF Dests, NoRun
<1>2. Shape'
  BY <1>1 DEF Inv, Shape
<1>3. SendsLocked'
  BY DEF Inv, SendsLocked, Sending
<1>4. SetsDiffer' /\ PublishedIntact'
  BY <1>1 DEF Inv, SetsDiffer, PublishedIntact, verifyVolumesAt
<1>5. UploadsNew'
  BY <1>1 DEF Inv, UploadsNew, Have, verifyVolumesAt
<1>6. PublishesBeside'
  BY <1>1 DEF Inv, PublishesBeside, verifyVolumesAt
<1> QED BY <1>2, <1>3, <1>4, <1>5, <1>6 DEF Inv

\* Steps of the pool.
LEMMA PoolInv ==
    ASSUME Inv, scenario' = scenario, UNCHANGED <<dest, vols, run, lock>>
    PROVE  Inv'
<1>1. DOMAIN run' = Runner /\ \A r \in Runner : run'[r] = run[r] /\ DOMAIN run'[r] = DOMAIN NoRun
  BY DEF Inv, Shape
<1> QED BY <1>1, PlanningInv

\* A step of a run changes that run.
LEMMA SetFacts ==
    ASSUME Inv, NEW r \in Runner, NEW new, Set(r, new)
    PROVE  DOMAIN run' = Runner /\ run'[r] = new /\ \A q \in Runner : DOMAIN run[q] = DOMAIN NoRun /\ (q # r => run'[q] = run[q])
BY DEF Inv, Shape, Set

\* A run that does not send, or no longer.
LEMMA NotSendingInv ==
    ASSUME Inv, scenario' = scenario, dest' = dest, vols' = vols, NEW r \in Runner, NEW new, Set(r, new),
           DOMAIN new = DOMAIN NoRun, new.pc \notin {"locked", "upload", "publish"},
           lock' = lock \/ lock = r
    PROVE  Inv'
<1>1. DOMAIN run' = Runner /\ run'[r] = new /\ \A q \in Runner : DOMAIN run[q] = DOMAIN NoRun /\ (q # r => run'[q] = run[q])
  BY SetFacts
<1>2. \A q \in Runner : q # r => lock' = lock \/ ~Sending(q)
  BY DEF Inv, SendsLocked
<1> QED BY <1>1, <1>2, PlanningInv

\* A run that ends.
LEMMA ReturnInv ==
    ASSUME Inv, scenario' = scenario, dest' = dest, vols' = vols, NEW r \in Runner, Sending(r), ReturnBackup(r)
    PROVE  Inv'
<1>1. lock = r
  BY DEF Inv, SendsLocked
<1>2. Set(r, NoRun) /\ NoRun.pc = "idle"
  BY DEF ReturnBackup, NoRun
<1> QED BY <1>1, <1>2, NotSendingInv

\* ListPool.
LEMMA ListPoolInv == ASSUME Inv, scenario' = scenario, NEW r \in Runner, NEW j, ListPool(r, j) PROVE Inv'
<1> DEFINE new == [NoRun EXCEPT !.pc = "list", !.job = j, !.listed = pool]
<1>1. Set(r, new) /\ UNCHANGED <<dest, vols, lock>>
  BY DEF ListPool
<1>2. DOMAIN new = DOMAIN NoRun /\ new.pc = "list"
  BY DEF NoRun
<1> HIDE DEF new
<1> QED BY <1>1, <1>2, NotSendingInv

\* ListDest.
LEMMA ListDestInv == ASSUME Inv, scenario' = scenario, NEW r \in Runner, ListDest(r) PROVE Inv'
<1> DEFINE new == [run[r] EXCEPT !.seen = Append(@, getBackupsForTarget(Len(run[r].seen) + 1))]
<1>1. Set(r, new) /\ run[r].pc = "list" /\ UNCHANGED <<dest, vols, lock>>
  BY DEF ListDest
<1>2. DOMAIN run[r] = DOMAIN NoRun
  BY DEF Inv, Shape
<1>3. DOMAIN new = DOMAIN NoRun /\ new.pc = "list"
  BY <1>1, <1>2 DEF NoRun
<1> HIDE DEF new
<1> QED BY <1>1, <1>3, NotSendingInv

\* Decide.
LEMMA DecideInv == ASSUME Inv, scenario' = scenario, NEW r \in Runner, Decide(r) PROVE Inv'
<1> DEFINE me == run[r]
           p  == planSmartAt(now, me.job, me.listed, me.seen, PartialSetCompletable(me.job, me.seen))
           new == [me EXCEPT !.pc = "planned", !.plan = p, !.listed = <<>>, !.seen = <<>>]
<1> HIDE DEF p
<1>1. (Set(r, NoRun) \/ Set(r, new)) /\ UNCHANGED <<dest, vols, lock>>
  BY DEF Decide, p
<1>2. DOMAIN run[r] = DOMAIN NoRun
  BY DEF Inv, Shape
<1>3. DOMAIN new = DOMAIN NoRun /\ new.pc = "planned" /\ NoRun.pc = "idle"
  BY <1>2 DEF NoRun
<1> HIDE DEF new
<1> QED BY <1>1, <1>3, NotSendingInv

-----------------------------------------------------------------------------
(* Under the lock.                                                         *)

\* A run that sends: the others do not, and what it is about to do is as it should be.
LEMMA SendingInv ==
    ASSUME Inv, scenario' = scenario, NEW r \in Runner, NEW new, Set(r, new), DOMAIN new = DOMAIN NoRun, lock' = r,
           \A q \in Runner \ {r} : ~Sending(q),
           DOMAIN dest' = Dests, DOMAIN vols' = Dests, SetsDiffer', PublishedIntact',
           new.pc = "upload" => /\ new.todo \subseteq Dests /\ new.todo # {}
                                /\ \A d \in Dests : \A m \in dest'[d] : ~sameSet(m, new.set)
                                /\ \A d \in Dests \ new.todo : \E v \in vols'[d] : sameSet(v, new.set) /\ v.att = new.set.att,
           new.pc = "publish" => /\ new.todo \subseteq Dests /\ new.todo # {}
                                 /\ \A d \in new.todo : \A m \in dest'[d] : ~sameSet(m, new.set)
                                 /\ \A d \in new.todo : \E v \in vols'[d] : sameSet(v, new.set) /\ v.att = new.set.att
    PROVE  Inv'
<1>1. Dests' = Dests /\ NoRun' = NoRun
  BY DEF Dests, NoRun
<1>2. DOMAIN run' = Runner /\ run'[r] = new /\ \A q \in Runner : DOMAIN run[q] = DOMAIN NoRun /\ (q # r => run'[q] = run[q])
  BY SetFacts
<1>3. Shape'
  BY <1>1, <1>2 DEF Inv, Shape
<1>4. SendsLocked'
  BY <1>2 DEF SendsLocked, Sending
<1>5. UploadsNew'
  BY <1>1, <1>2 DEF UploadsNew, Have, verifyVolumesAt, Sending
<1>6. PublishesBeside'
  BY <1>1, <1>2 DEF PublishesBeside, verifyVolumesAt, Sending
<1> QED BY <1>3, <1>4, <1>5, <1>6 DEF Inv

\* What stays so when nothing changes at the destinations.
LEMMA Unchanged ==
    ASSUME Inv, scenario' = scenario, dest' = dest, vols' = vols
    PROVE  DOMAIN dest' = Dests /\ DOMAIN vols' = Dests /\ SetsDiffer' /\ PublishedIntact'
<1>1. Dests' = Dests
  BY DEF Dests
<1> QED BY <1>1 DEF Inv, Shape, SetsDiffer, PublishedIntact, verifyVolumesAt

\* TryLock: only one takes the lock.
LEMMA TryLockInv == ASSUME Inv, scenario' = scenario, NEW r \in Runner, TryLock(r) PROVE Inv'
<1> DEFINE new == [run[r] EXCEPT !.pc = "locked"]
<1>0. DOMAIN run[r] = DOMAIN NoRun
  BY DEF Inv, Shape
<1>1. DOMAIN new = DOMAIN NoRun /\ new.pc = "locked" /\ NoRun.pc = "idle"
  BY <1>0 DEF NoRun
<1>2. CASE lock = NoRunner
  <2>1. Set(r, new) /\ lock' = r /\ dest' = dest /\ vols' = vols
    BY <1>2 DEF TryLock
  <2>2. \A q \in Runner : ~Sending(q)
    BY <1>2, SmartAssumption DEF Inv, SendsLocked
  <2> HIDE DEF new
  <2> QED BY <1>1, <2>1, <2>2, Unchanged, SendingInv
<1>3. CASE lock # NoRunner
  <2>1. Set(r, NoRun) /\ lock' = lock /\ dest' = dest /\ vols' = vols
    BY <1>3 DEF TryLock
  <2> QED BY <1>1, <2>1, NotSendingInv
<1> QED BY <1>2, <1>3

\* The lock is this run's.
LEMMA Alone ==
    ASSUME Inv, NEW r \in Runner, Sending(r)
    PROVE  lock = r /\ (\A q \in Runner \ {r} : ~Sending(q)) /\ DOMAIN run[r] = DOMAIN NoRun
BY DEF Inv, SendsLocked, Shape

\* SendSet: the set is at no destination.
LEMMA SendSetInv == ASSUME Inv, scenario' = scenario, NEW r \in Runner, SendSet(r) PROVE Inv'
<1> DEFINE set == SetOf(run[r])
           new == [run[r] EXCEPT !.pc = "upload", !.set = set, !.todo = Dests]
<1>1. Sending(r) /\ Have(set) = {} /\ dest' = dest /\ vols' = vols
  BY DEF SendSet, Sending
<1>2. lock = r /\ (\A q \in Runner \ {r} : ~Sending(q)) /\ DOMAIN run[r] = DOMAIN NoRun
  BY <1>1, Alone
<1>3. ReturnBackup(r) \/ (Set(r, new) /\ lock' = lock)
  BY DEF SendSet
<1> HIDE DEF set
<1>4. DOMAIN new = DOMAIN NoRun /\ new.pc = "upload" /\ new.set = set /\ new.todo = Dests
  BY <1>2 DEF NoRun
<1> HIDE DEF new
<1>5. \A d \in Dests : \A m \in dest[d] : ~sameSet(m, set)
  BY <1>1 DEF Have
<1>6. Dests # {}
  BY SomeDestination DEF Inv
<1>7. CASE ReturnBackup(r)
  BY <1>1, <1>7, ReturnInv
<1>8. CASE Set(r, new) /\ lock' = lock
  <2>1. DOMAIN dest' = Dests /\ DOMAIN vols' = Dests /\ SetsDiffer' /\ PublishedIntact'
    BY <1>1, Unchanged
  <2> QED BY <1>1, <1>2, <1>4, <1>5, <1>6, <1>8, <2>1, SendingInv
<1> QED BY <1>3, <1>7, <1>8

\* CompleteOrRefuse: the manifest goes where its volumes are.
LEMMA CompleteOrRefuseInv == ASSUME Inv, scenario' = scenario, NEW r \in Runner, CompleteOrRefuse(r) PROVE Inv'
<1> DEFINE set == SetOf(run[r])
           have == Have(set)
           missing == Dests \ have
           from == CHOOSE m \in dest[Min(have)] : sameSet(m, set)
           new == [run[r] EXCEPT !.pc = "publish", !.set = from, !.todo = missing]
<1>1. Sending(r) /\ have # {} /\ dest' = dest /\ vols' = vols
  BY DEF CompleteOrRefuse, Sending
<1>2. lock = r /\ (\A q \in Runner \ {r} : ~Sending(q)) /\ DOMAIN run[r] = DOMAIN NoRun
  BY <1>1, Alone
<1>3. \/ ReturnBackup(r)
      \/ Set(r, new) /\ lock' = lock /\ missing # {} /\ \A d \in missing : verifyVolumesAt(d, from)
  BY DEF CompleteOrRefuse
<1> HIDE DEF set
<1>4. have = {d \in Dests : \E m \in dest[d] : sameSet(m, set)}
  BY DEF Have
<1> HIDE DEF have
<1>5. Min(have) \in have
  BY <1>1, <1>4, FirstOf DEF Inv
<1>6. \E m \in dest[Min(have)] : sameSet(m, set)
  BY <1>4, <1>5
<1>7. sameSet(from, set)
  BY <1>6
<1> HIDE DEF from
<1>8. \A d \in missing : \A m \in dest[d] : ~sameSet(m, from)
  BY <1>4, <1>7, SameSets
<1> HIDE DEF missing
<1>9. DOMAIN new = DOMAIN NoRun /\ new.pc = "publish" /\ new.set = from /\ new.todo = missing
  BY <1>2 DEF NoRun
<1> HIDE DEF new
<1>10. CASE ReturnBackup(r)
  BY <1>1, <1>10, ReturnInv
<1>11. CASE Set(r, new) /\ lock' = lock /\ missing # {} /\ \A d \in missing : verifyVolumesAt(d, from)
  <2>1. DOMAIN dest' = Dests /\ DOMAIN vols' = Dests /\ SetsDiffer' /\ PublishedIntact'
    BY <1>1, Unchanged
  <2>2. missing \subseteq Dests
    BY DEF missing
  <2>3. \A d \in missing : \E v \in vols'[d] : sameSet(v, from) /\ v.att = from.att
    BY <1>1, <1>11 DEF verifyVolumesAt
  <2> QED BY <1>1, <1>2, <1>8, <1>9, <1>11, <2>1, <2>2, <2>3, SendingInv
<1> QED BY <1>3, <1>10, <1>11

\* UploadVolumes: over no published volumes.
LEMMA UploadVolumesInv == ASSUME Inv, scenario' = scenario, NEW r \in Runner, UploadVolumes(r) PROVE Inv'
<1> DEFINE me == run[r]
           set == me.set
           d == Min(me.todo)
           new == IF me.todo # {d} THEN [me EXCEPT !.todo = @ \ {d}]
                  ELSE [me EXCEPT !.pc = "publish", !.todo = Dests]
<1>1. /\ me.pc = "upload" /\ vols' = [vols EXCEPT ![d] = {v \in @ : ~sameSet(v, set)} \cup {set}]
      /\ Set(r, new) /\ dest' = dest /\ lock' = lock
  BY DEF UploadVolumes
<1>2. lock = r /\ (\A q \in Runner \ {r} : ~Sending(q)) /\ DOMAIN run[r] = DOMAIN NoRun
  BY <1>1, Alone DEF Sending
<1>3. /\ me.todo \subseteq Dests /\ me.todo # {} /\ Have(set) = {}
      /\ \A e \in Dests \ me.todo : verifyVolumesAt(e, set)
  BY <1>1 DEF Inv, UploadsNew
<1>4. d \in me.todo /\ d \in Dests
  BY <1>3, FirstOf DEF Inv
<1>5. DOMAIN new = DOMAIN NoRun /\ new.set = set
  BY <1>2 DEF NoRun
<1>6. me.todo # {d} => new.pc = "upload" /\ new.todo = me.todo \ {d}
  BY <1>1, <1>2 DEF NoRun
<1>7. me.todo = {d} => new.pc = "publish" /\ new.todo = Dests
  BY <1>2 DEF NoRun
<1> HIDE DEF new, d
<1>8. DOMAIN vols = Dests /\ DOMAIN dest = Dests /\ Dests' = Dests
  BY DEF Inv, Shape, Dests
<1>9. /\ DOMAIN vols' = Dests /\ vols'[d] = {v \in vols[d] : ~sameSet(v, set)} \cup {set}
      /\ \A e \in Dests \ {d} : vols'[e] = vols[e]
  BY <1>1, <1>4, <1>8
<1>10. \A e \in Dests : \A m \in dest[e] : ~sameSet(m, set)
  BY <1>3 DEF Have
<1>11. \A e \in (Dests \ me.todo) \cup {d} : \E v \in vols'[e] : sameSet(v, set) /\ v.att = set.att
  BY <1>3, <1>4, <1>9, SameSets DEF verifyVolumesAt
<1>12. PublishedIntact'
  <2> SUFFICES ASSUME NEW e \in Dests, NEW m \in dest[e] PROVE \E v \in vols'[e] : sameSet(v, m) /\ v.att = m.att
    BY <1>1, <1>8 DEF PublishedIntact, verifyVolumesAt
  <2>1. PICK v \in vols[e] : sameSet(v, m) /\ v.att = m.att
    BY DEF Inv, PublishedIntact, verifyVolumesAt
  <2>2. ~sameSet(v, set)
    BY <1>10, <2>1, SameSets
  <2> QED BY <1>9, <2>1, <2>2
<1>13. SetsDiffer'
  BY <1>1, <1>8 DEF Inv, SetsDiffer
<1>14. DOMAIN dest' = Dests /\ lock' = r
  BY <1>1, <1>2, <1>8
<1>15. CASE me.todo # {d}
  <2>1. /\ new.todo \subseteq Dests /\ new.todo # {}
        /\ \A e \in Dests : \A m \in dest'[e] : ~sameSet(m, new.set)
        /\ \A e \in Dests \ new.todo : \E v \in vols'[e] : sameSet(v, new.set) /\ v.att = new.set.att
    BY <1>1, <1>3, <1>4, <1>5, <1>6, <1>10, <1>11, <1>15
  <2> QED BY <1>1, <1>2, <1>5, <1>6, <1>9, <1>12, <1>13, <1>14, <1>15, <2>1, SendingInv
<1>16. CASE me.todo = {d}
  <2>1. /\ new.todo \subseteq Dests /\ new.todo # {}
        /\ \A e \in new.todo : \A m \in dest'[e] : ~sameSet(m, new.set)
        /\ \A e \in new.todo : \E v \in vols'[e] : sameSet(v, new.set) /\ v.att = new.set.att
    BY <1>1, <1>3, <1>4, <1>5, <1>7, <1>10, <1>11, <1>16
  <2> QED BY <1>1, <1>2, <1>5, <1>7, <1>9, <1>12, <1>13, <1>14, <1>16, <2>1, SendingInv
<1> QED BY <1>15, <1>16

\* PublishManifest: beside its volumes.
LEMMA PublishManifestInv == ASSUME Inv, scenario' = scenario, NEW r \in Runner, PublishManifest(r) PROVE Inv'
<1> DEFINE me == run[r]
           set == me.set
           d == Min(me.todo)
           new == IF me.todo # {d} THEN [me EXCEPT !.todo = @ \ {d}] ELSE NoRun
<1>1. /\ me.pc = "publish" /\ dest' = [dest EXCEPT ![d] = @ \cup {set}] /\ vols' = vols
      /\ Set(r, new) /\ lock' = IF me.todo # {d} THEN lock ELSE NoRunner
  BY DEF PublishManifest, ReturnBackup
<1>2. lock = r /\ (\A q \in Runner \ {r} : ~Sending(q)) /\ DOMAIN run[r] = DOMAIN NoRun
  BY <1>1, Alone DEF Sending
<1>3. /\ me.todo \subseteq Dests /\ me.todo # {}
      /\ \A e \in me.todo : verifyVolumesAt(e, set) /\ \A m \in dest[e] : ~sameSet(m, set)
  BY <1>1 DEF Inv, PublishesBeside
<1>4. d \in me.todo /\ d \in Dests
  BY <1>3, FirstOf DEF Inv
<1>5. DOMAIN new = DOMAIN NoRun
  BY <1>2 DEF NoRun
<1>6. me.todo # {d} => new.pc = "publish" /\ new.todo = me.todo \ {d} /\ new.set = set
  BY <1>1, <1>2 DEF NoRun
<1>7. me.todo = {d} => new.pc = "idle"
  BY DEF NoRun
<1> HIDE DEF new, d
<1>8. DOMAIN vols = Dests /\ DOMAIN dest = Dests /\ Dests' = Dests /\ NoRun' = NoRun
  BY DEF Inv, Shape, Dests, NoRun
<1>9. DOMAIN dest' = Dests /\ dest'[d] = dest[d] \cup {set} /\ \A e \in Dests \ {d} : dest'[e] = dest[e]
  BY <1>1, <1>4, <1>8
<1>10. SetsDiffer'
  <2> SUFFICES ASSUME NEW e \in Dests, NEW m \in dest'[e], NEW n \in dest'[e], sameSet(m, n) PROVE m = n
    BY <1>8 DEF SetsDiffer
  <2>1. m \in dest[e] /\ n \in dest[e] => m = n
    BY DEF Inv, SetsDiffer
  <2> QED BY <1>3, <1>4, <1>9, <2>1, SameSets
<1>11. PublishedIntact'
  <2> SUFFICES ASSUME NEW e \in Dests, NEW m \in dest'[e] PROVE verifyVolumesAt(e, m)
    BY <1>1, <1>8 DEF PublishedIntact, verifyVolumesAt
  <2>1. m \in dest[e] => verifyVolumesAt(e, m)
    BY DEF Inv, PublishedIntact
  <2> QED BY <1>3, <1>4, <1>9, <2>1
<1>12. CASE me.todo # {d}
  <2>1. /\ new.todo \subseteq Dests /\ new.todo # {}
        /\ \A e \in new.todo : \A m \in dest'[e] : ~sameSet(m, new.set)
        /\ \A e \in new.todo : \E v \in vols'[e] : sameSet(v, new.set) /\ v.att = new.set.att
    BY <1>1, <1>3, <1>4, <1>6, <1>9, <1>12 DEF verifyVolumesAt
  <2> QED BY <1>1, <1>2, <1>5, <1>6, <1>8, <1>9, <1>10, <1>11, <1>12, <2>1, SendingInv
<1>13. CASE me.todo = {d}
  <2>1. DOMAIN run' = Runner /\ run'[r] = new /\ \A q \in Runner : DOMAIN run[q] = DOMAIN NoRun /\ (q # r => run'[q] = run[q])
    BY <1>1, SetFacts
  <2>2. \A q \in Runner : ~Sending(q)'
    BY <1>2, <1>7, <1>13, <2>1 DEF Sending
  <2>3. Shape'
    BY <1>1, <1>5, <1>8, <1>9, <2>1 DEF Inv, Shape
  <2>4. SendsLocked' /\ UploadsNew' /\ PublishesBeside'
    BY <2>2 DEF SendsLocked, UploadsNew, PublishesBeside, Sending
  <2> QED BY <1>10, <1>11, <2>3, <2>4 DEF Inv
<1> QED BY <1>12, <1>13

\* A deleted set takes its own manifest and volumes with it, and no others.
LEMMA DeleteSetInv ==
    ASSUME Inv, scenario' = scenario, NEW d \in Dests, NEW m \in dest[d], DeleteSet(d, m)
    PROVE  Inv'
<1>1. /\ lock = NoRunner /\ dest' = [dest EXCEPT ![d] = @ \ {m}]
      /\ vols' = [vols EXCEPT ![d] = {v \in @ : ~sameSet(v, m)}]
      /\ run' = [r \in Runner |-> [run[r] EXCEPT !.stale = run[r].pc # "idle"]]
  BY DEF DeleteSet
<1>2. DOMAIN vols = Dests /\ DOMAIN dest = Dests /\ Dests' = Dests /\ NoRun' = NoRun /\ \A r \in Runner : DOMAIN run[r] = DOMAIN NoRun
  BY DEF Inv, Shape, Dests, NoRun
<1>3. \A r \in Runner : ~Sending(r)
  BY <1>1, SmartAssumption DEF Inv, SendsLocked
<1>4. \A r \in Runner : DOMAIN run'[r] = DOMAIN NoRun /\ run'[r].pc = run[r].pc
  <2> SUFFICES ASSUME NEW r \in Runner PROVE DOMAIN run'[r] = DOMAIN NoRun /\ run'[r].pc = run[r].pc
    OBVIOUS
  <2>1. run'[r] = [run[r] EXCEPT !.stale = run[r].pc # "idle"]
    BY <1>1
  <2> QED BY <1>2, <2>1 DEF NoRun
<1>5. Shape'
  BY <1>1, <1>2, <1>4 DEF Inv, Shape
<1>6. SendsLocked' /\ UploadsNew' /\ PublishesBeside'
  BY <1>3, <1>4 DEF SendsLocked, UploadsNew, PublishesBeside, Sending
<1>7. /\ dest'[d] = dest[d] \ {m} /\ (\A e \in Dests \ {d} : dest'[e] = dest[e])
      /\ vols'[d] = {v \in vols[d] : ~sameSet(v, m)} /\ (\A e \in Dests \ {d} : vols'[e] = vols[e])
  BY <1>1, <1>2
<1>8. SetsDiffer'
  BY <1>2, <1>7 DEF Inv, SetsDiffer
<1>9. PublishedIntact'
  <2> SUFFICES ASSUME NEW e \in Dests, NEW n \in dest'[e] PROVE \E v \in vols'[e] : sameSet(v, n) /\ v.att = n.att
    BY <1>2 DEF PublishedIntact, verifyVolumesAt
  <2>1. n \in dest[e] /\ (e = d => n # m)
    BY <1>7
  <2>2. PICK v \in vols[e] : sameSet(v, n) /\ v.att = n.att
    BY <2>1 DEF Inv, PublishedIntact, verifyVolumesAt
  <2>3. e = d => ~sameSet(v, m)
    BY <2>1, <2>2, SameSets DEF Inv, SetsDiffer
  <2> QED BY <1>7, <2>2, <2>3
<1> QED BY <1>5, <1>6, <1>8, <1>9 DEF Inv

-----------------------------------------------------------------------------
(* Every step, and the theorems.                                           *)

\* Every step.
LEMMA NextInv == Inv /\ [Next]_vars => Inv'
<1> SUFFICES ASSUME Inv, [Next]_vars PROVE Inv'
  OBVIOUS
<1>0. scenario' = scenario
  BY DEF Next, vars
<1>1. ASSUME NEW ks, NEW step, TakeSnapshots(ks, step) PROVE Inv'
  BY <1>0, <1>1, PoolInv DEF TakeSnapshots
<1>2. ASSUME NEW k, WrongClock(k) PROVE Inv'
  BY <1>0, <1>2, PoolInv DEF WrongClock
<1>3. ASSUME NEW i, Bookmark(i) PROVE Inv'
  BY <1>0, <1>3, PoolInv DEF Bookmark
<1>4. ASSUME NEW i, Prune(i) PROVE Inv'
  BY <1>0, <1>4, PoolInv DEF Prune
<1>5. ASSUME NEW d \in Dests, NEW m \in dest[d], DeleteSet(d, m) PROVE Inv'
  BY <1>0, <1>5, DeleteSetInv
<1>6. ASSUME NEW r \in Runner, NEW j, ListPool(r, j) PROVE Inv'
  BY <1>0, <1>6, ListPoolInv
<1>7. ASSUME NEW r \in Runner, ListDest(r) PROVE Inv'
  BY <1>0, <1>7, ListDestInv
<1>8. ASSUME NEW r \in Runner, Decide(r) PROVE Inv'
  BY <1>0, <1>8, DecideInv
<1>9. ASSUME NEW r \in Runner, TryLock(r) PROVE Inv'
  BY <1>0, <1>9, TryLockInv
<1>10. ASSUME NEW r \in Runner, SendSet(r) PROVE Inv'
  BY <1>0, <1>10, SendSetInv
<1>11. ASSUME NEW r \in Runner, CompleteOrRefuse(r) PROVE Inv'
  BY <1>0, <1>11, CompleteOrRefuseInv
<1>12. ASSUME NEW r \in Runner, UploadVolumes(r) PROVE Inv'
  BY <1>0, <1>12, UploadVolumesInv
<1>13. ASSUME NEW r \in Runner, PublishManifest(r) PROVE Inv'
  BY <1>0, <1>13, PublishManifestInv
<1>14. ASSUME NEW r \in Runner, FailRun(r) PROVE Inv'
  BY <1>0, <1>14, ReturnInv DEF FailRun, Sending
<1>15. CASE UNCHANGED vars
  BY <1>0, <1>15, PoolInv DEF vars
<1> QED BY <1>1, <1>2, <1>3, <1>4, <1>5, <1>6, <1>7, <1>8, <1>9, <1>10, <1>11, <1>12, <1>13, <1>14, <1>15
        DEF Next, Advance

\* The inductive invariant of smart sends: who sends holds the dataset's lock, and under
\* it uploads volumes only of a set no destination has (refuseExistingSet), and a manifest
\* only beside its own volumes.
THEOREM Invariance == Spec => []Inv
<1> QED BY InitInv, NextInv, PTL DEF Spec

\* No run of Backup overwrites the volumes of a published set, and none copies a manifest
\* (copyManifest) beside other volumes, for any number of runs, destinations and jobs:
\* whatever the planner made of what it had read before the lock.
THEOREM PublishedSetsStayIntact == Spec => []PublishedIntact
<1>1. Inv => PublishedIntact
  BY DEF Inv
<1> QED BY <1>1, Invariance, PTL

\* No manifest is uploaded over another: objects are named after the set (ManifestObjectName),
\* so a second manifest of it at a destination would replace the first.
THEOREM OneManifestPerSet == Spec => []SetsDiffer
<1>1. Inv => SetsDiffer
  BY DEF Inv
<1> QED BY <1>1, Invariance, PTL

-----------------------------------------------------------------------------
(* Sorting.                                                                *)

\* The order of the kinds tells them apart.
LEMMA Ranked ==
    ASSUME NEW k
    PROVE  KindRank(k) \in Nat /\ \A l : (k \in Kinds \cup {"none"} /\ l \in Kinds \cup {"none"} /\ KindRank(k) = KindRank(l)) => k = l
<1>0. KindOrder \in Seq(Kinds) /\ "none" \notin Kinds
  BY SmartAssumption DEF NoSnapshot
<1>1. \A x \in Kinds : KindRank(x) \in DOMAIN KindOrder /\ KindOrder[KindRank(x)] = x
  BY DEF KindRank, Kinds, ToSet
<1>2. DOMAIN KindOrder \subseteq Nat \ {0}
  BY <1>0
<1>3. \A x : x \notin Kinds => KindRank(x) = 0
  BY DEF KindRank
<1> QED BY <1>0, <1>1, <1>2, <1>3

\* What the sort compares.
LEMMA Keys ==
    ASSUME NEW m \in Backups
    PROVE  /\ m.base \in Snapshots /\ m.source \in Snapshots \cup {NoSnapshot}
           /\ m.base.time \in Nat /\ m.source.time \in Nat
           /\ m.base.kind \in Kinds /\ m.source.kind \in Kinds \cup {"none"}
           /\ m.raw \in BOOLEAN /\ m.att \in Nat
BY DEF Backups, Snapshots, NoSnapshot

\* The order of a list: strict, and total on backups of different sets.
LEMMA BeforeIsOrder ==
    ASSUME NEW a \in Backups, NEW b \in Backups, NEW c \in Backups
    PROVE  /\ ~Before(a, a)
           /\ Before(a, b) /\ Before(b, c) => Before(a, c)
           /\ Before(a, b) \/ Before(b, a) \/ sameSet(a, b)
<1> DEFINE R(s) == KindRank(s.kind)
<1>1. \A m \in {a, b, c} : R(m.base) \in Nat /\ R(m.source) \in Nat /\ m.base.time \in Nat /\ m.source.time \in Nat
  BY Keys, Ranked
<1>2. \A m, n \in {a, b, c} : /\ R(m.base) = R(n.base) <=> m.base.kind = n.base.kind
                              /\ R(m.source) = R(n.source) <=> m.source.kind = n.source.kind
  BY Keys, Ranked
<1>3. \A m, n \in {a, b, c} : Named(m, n) <=>
         \/ R(m.base) < R(n.base)
         \/ R(m.base) = R(n.base) /\ m.base.time < n.base.time
         \/ R(m.base) = R(n.base) /\ m.base.time = n.base.time /\ R(m.source) < R(n.source)
         \/ R(m.base) = R(n.base) /\ m.base.time = n.base.time /\ R(m.source) = R(n.source) /\ m.source.time < n.source.time
  BY <1>1, <1>2 DEF Named, Precedes, Same
<1>4. \A m, n \in {a, b, c} : sameSet(m, n) <=>
         R(m.base) = R(n.base) /\ m.base.time = n.base.time /\ R(m.source) = R(n.source) /\ m.source.time = n.source.time
  BY <1>2 DEF sameSet, Same
<1> HIDE DEF R
<1>5. ~Before(a, a)
  BY <1>1, <1>3 DEF Before, Newer
<1>6. Before(a, b) /\ Before(b, c) => Before(a, c)
  BY <1>1, <1>3 DEF Before, Newer
<1>7. Before(a, b) \/ Before(b, a) \/ sameSet(a, b)
  BY <1>1, <1>3, <1>4 DEF Before, Newer
<1> QED BY <1>5, <1>6, <1>7

\* One manifest of each set, as a destination has them.
Manifests(M) == M \in SUBSET Backups /\ IsFiniteSet(M) /\ \A a, b \in M : sameSet(a, b) => a = b

\* How many of M come before m in the list.
Rank(M, m) == Cardinality({x \in M : Before(x, m)})

\* Ranks count up along the order.
LEMMA RankOrder ==
    ASSUME NEW M, Manifests(M)
    PROVE  /\ Cardinality(M) \in Nat
           /\ \A m \in M : Rank(M, m) \in 0..(Cardinality(M) - 1)
           /\ \A a, b \in M : Before(a, b) => Rank(M, a) < Rank(M, b)
           /\ \A a, b \in M : a = b \/ Before(a, b) \/ Before(b, a)
<1>1. M \in SUBSET Backups /\ IsFiniteSet(M) /\ \A a, b \in M : sameSet(a, b) => a = b
  BY DEF Manifests
<1>2. \A a, b \in M : a = b \/ Before(a, b) \/ Before(b, a)
  BY <1>1, BeforeIsOrder
<1>3. Cardinality(M) \in Nat
  BY <1>1, FS_CardinalityType
<1>4. ASSUME NEW m \in M PROVE Rank(M, m) \in 0..(Cardinality(M) - 1)
  <2> DEFINE P == {x \in M : Before(x, m)}
  <2>1. P \in SUBSET (M \ {m})
    BY <1>1, BeforeIsOrder
  <2>2. IsFiniteSet(M \ {m}) /\ Cardinality(M \ {m}) = Cardinality(M) - 1
    BY <1>1, FS_RemoveElement
  <2> HIDE DEF P
  <2>3. IsFiniteSet(P) /\ Cardinality(P) <= Cardinality(M) - 1 /\ Cardinality(P) \in Nat
    BY <2>1, <2>2, FS_Subset, FS_CardinalityType
  <2> QED BY <1>3, <2>3 DEF P, Rank
<1>5. ASSUME NEW a \in M, NEW b \in M, Before(a, b) PROVE Rank(M, a) < Rank(M, b)
  <2> DEFINE P == {x \in M : Before(x, a)}
             Q == {x \in M : Before(x, b)}
  <2>1. P \in SUBSET Q /\ a \in Q /\ a \notin P
    BY <1>1, <1>5, BeforeIsOrder
  <2>2. Q \in SUBSET M
    OBVIOUS
  <2> HIDE DEF P, Q
  <2>3. IsFiniteSet(Q)
    BY <1>1, <2>2, FS_Subset
  <2>4. IsFiniteSet(P) /\ Cardinality(P) <= Cardinality(Q) /\ Cardinality(P) # Cardinality(Q)
    BY <2>1, <2>3, FS_Subset
  <2>5. Cardinality(P) \in Nat /\ Cardinality(Q) \in Nat
    BY <2>3, <2>4, FS_CardinalityType
  <2>6. Cardinality(P) < Cardinality(Q)
    BY <2>4, <2>5
  <2> QED BY <2>6 DEF P, Q, Rank
<1> QED BY <1>2, <1>3, <1>4, <1>5

\* The sort is a permutation: each rank is some backup's.
LEMMA RankOnto ==
    ASSUME NEW M, Manifests(M), NEW n \in 1..Cardinality(M)
    PROVE  \E m \in M : Rank(M, m) = n - 1
<1> DEFINE c == Cardinality(M)
           K == 0..(c - 1)
           f == [m \in M |-> Rank(M, m)]
<1>0. IsFiniteSet(M)
  BY DEF Manifests
<1>1. c \in Nat
  BY RankOrder
<1>2. \A m \in M : Rank(M, m) \in K
  BY RankOrder
<1>3. \A a, b \in M : Rank(M, a) = Rank(M, b) => a = b
  <2> SUFFICES ASSUME NEW a \in M, NEW b \in M, Rank(M, a) = Rank(M, b) PROVE a = b
    OBVIOUS
  <2>1. Rank(M, a) \in Int /\ Rank(M, b) \in Int
    BY <1>1, <1>2
  <2>2. ~Before(a, b) /\ ~Before(b, a)
    BY <2>1, RankOrder
  <2> QED BY <2>2, RankOrder
<1>4. f \in Injection(M, K)
  BY <1>2, <1>3 DEF Injection, IsInjective
<1> HIDE DEF c
<1>5. c >= 1
  BY <1>1 DEF c
<1>6. IsFiniteSet(K) /\ Cardinality(K) = c
  <2>1. 0 \in Int /\ c - 1 \in Int
    BY <1>1
  <2>2. IsFiniteSet(0..(c-1)) /\ Cardinality(0..(c-1)) = IF 0 > c - 1 THEN 0 ELSE (c - 1) - 0 + 1
    BY <2>1, FS_Interval
  <2> QED BY <1>1, <1>5, <2>2
<1> HIDE DEF K, f
<1>7. f \in Surjection(M, K)
  BY <1>4, <1>6, FS_Injection DEF c
<1>8. n - 1 \in K
  BY <1>1 DEF K, c
<1>9. \E m \in M : f[m] = n - 1
  BY <1>7, <1>8 DEF Surjection
<1> QED BY <1>9 DEF f

\* What a destination lists is what it has, each set once, in order.
LEMMA SortedList ==
    ASSUME NEW M, Manifests(M)
    PROVE  LET s == sortBackupsNewestFirst(M)
           IN /\ s \in Seq(M) /\ Len(s) = Cardinality(M) /\ ToSet(s) = M
              /\ \A i, j \in DOMAIN s : i < j => Before(s[i], s[j])
              /\ \A i, j \in DOMAIN s : s[i] = s[j] => i = j
              /\ \A m \in M : Rank(M, m) + 1 \in DOMAIN s /\ s[Rank(M, m) + 1] = m
<1> DEFINE c == Cardinality(M)
           s == [n \in 1..c |-> CHOOSE m \in M : Rank(M, m) = n - 1]
<1>1. sortBackupsNewestFirst(M) = s
  BY DEF sortBackupsNewestFirst, Rank
<1>2. c \in Nat
  BY RankOrder
<1>3. \A n \in 1..c : s[n] \in M /\ Rank(M, s[n]) = n - 1
  <2> SUFFICES ASSUME NEW n \in 1..c PROVE s[n] \in M /\ Rank(M, s[n]) = n - 1
    OBVIOUS
  <2>1. \E m \in M : Rank(M, m) = n - 1
    BY RankOnto
  <2> QED BY <2>1
<1>4. DOMAIN s = 1..c
  OBVIOUS
<1>5. s \in [1..c -> M]
  BY <1>3
<1> HIDE DEF c, s
<1>6. s \in Seq(M) /\ Len(s) = c
  BY <1>2, <1>5
<1>7. \A m \in M : Rank(M, m) \in Nat /\ Rank(M, m) + 1 \in 1..c
  BY <1>2, RankOrder DEF c
<1>8. \A a, b \in M : Rank(M, a) < Rank(M, b) => Before(a, b)
  <2> SUFFICES ASSUME NEW a \in M, NEW b \in M, Rank(M, a) < Rank(M, b) PROVE Before(a, b)
    OBVIOUS
  <2>1. ~(Rank(M, b) < Rank(M, a)) /\ Rank(M, a) # Rank(M, b)
    BY <1>7
  <2> QED BY <2>1, RankOrder
<1>9. \A a, b \in M : Rank(M, a) = Rank(M, b) => a = b
  <2> SUFFICES ASSUME NEW a \in M, NEW b \in M, Rank(M, a) = Rank(M, b) PROVE a = b
    OBVIOUS
  <2>1. ~(Rank(M, b) < Rank(M, a)) /\ ~(Rank(M, a) < Rank(M, b))
    BY <1>7
  <2> QED BY <2>1, RankOrder
<1>13. \A m \in M : s[Rank(M, m) + 1] = m
  BY <1>3, <1>7, <1>9
<1>10. ToSet(s) = M
  <2>2. M \subseteq ToSet(s)
    BY <1>4, <1>7, <1>13 DEF ToSet
  <2>3. ToSet(s) \subseteq M
    BY <1>3, <1>4 DEF ToSet
  <2> QED BY <2>2, <2>3
<1>11. \A i, j \in DOMAIN s : i < j => Before(s[i], s[j])
  <2> SUFFICES ASSUME NEW i \in 1..c, NEW j \in 1..c, i < j PROVE Before(s[i], s[j])
    BY <1>4
  <2>1. Rank(M, s[i]) < Rank(M, s[j])
    BY <1>2, <1>3
  <2> QED BY <1>3, <1>8, <2>1
<1>12. \A i, j \in DOMAIN s : s[i] = s[j] => i = j
  BY <1>2, <1>3, <1>4
<1> QED BY <1>1, <1>4, <1>6, <1>7, <1>10, <1>11, <1>12, <1>13 DEF c

-----------------------------------------------------------------------------
(* Chains.                                                                 *)

\* The chain as far as its k-th link.
LinksTo(backups, m, k, g) == g = [n \in 0..k |-> IF n = 0 THEN m ELSE Onto(backups, g[n - 1])]

\* There is one of any length: a shortest length without one cannot be.
LEMMA LinksExist ==
    ASSUME NEW backups, NEW m, NEW k \in Nat
    PROVE  \E g : LinksTo(backups, m, k, g)
<1> DEFINE S == {i \in Nat : ~\E g : LinksTo(backups, m, i, g)}
<1> SUFFICES ASSUME S # {} PROVE FALSE
  OBVIOUS
<1>1. Min(S) \in S /\ \A y \in S : Min(S) <= y
  <2>1. S \in SUBSET Nat
    OBVIOUS
  <2> HIDE DEF S
  <2> QED BY <2>1, Least
<1> DEFINE i == Min(S)
<1>2. i \in Nat /\ ~\E g : LinksTo(backups, m, i, g)
  BY <1>1
<1>3. i # 0 => \E g : LinksTo(backups, m, i - 1, g)
  <2>1. i # 0 => i - 1 \in Nat /\ ~(i <= i - 1)
    BY <1>2
  <2> QED BY <1>1, <2>1
<1> HIDE DEF i, S
<1>4. i # 0
  <2> DEFINE g == [n \in 0..0 |-> m]
  <2>1. g = [n \in 0..0 |-> IF n = 0 THEN m ELSE Onto(backups, g[n - 1])]
    OBVIOUS
  <2>2. LinksTo(backups, m, 0, g)
    BY <2>1 DEF LinksTo
  <2> QED BY <1>2, <2>2
<1>5. PICK g : LinksTo(backups, m, i - 1, g)
  BY <1>3, <1>4
<1> DEFINE h == [n \in 0..i |-> IF n < i THEN g[n] ELSE Onto(backups, g[i - 1])]
<1>6. DOMAIN g = 0..(i - 1) /\ \A n \in 0..(i - 1) : g[n] = IF n = 0 THEN m ELSE Onto(backups, g[n - 1])
  <2>1. g = [n \in 0..(i - 1) |-> IF n = 0 THEN m ELSE Onto(backups, g[n - 1])]
    BY <1>5 DEF LinksTo
  <2> DEFINE e(n) == IF n = 0 THEN m ELSE Onto(backups, g[n - 1])
  <2>2. g = [n \in 0..(i - 1) |-> e(n)]
    BY <2>1
  <2> HIDE DEF e
  <2>3. DOMAIN g = 0..(i - 1) /\ \A n \in 0..(i - 1) : g[n] = e(n)
    BY <2>2
  <2> QED BY <2>3 DEF e
<1>7. \A n \in 0..i : h[n] = IF n = 0 THEN m ELSE Onto(backups, h[n - 1])
  <2> SUFFICES ASSUME NEW n \in 0..i PROVE h[n] = IF n = 0 THEN m ELSE Onto(backups, h[n - 1])
    OBVIOUS
  <2>1. n # 0 => n - 1 \in 0..i /\ n - 1 < i /\ h[n - 1] = g[n - 1]
    BY <1>2
  <2>2. CASE n < i
    <3>1. n \in 0..(i - 1) /\ h[n] = g[n]
      BY <1>2, <2>2
    <3> QED BY <1>6, <2>1, <3>1
  <2>3. CASE n = i
    BY <1>2, <1>4, <2>1, <2>3
  <2> QED BY <1>2, <2>2, <2>3
<1>8. h = [n \in 0..i |-> IF n = 0 THEN m ELSE Onto(backups, h[n - 1])]
  BY <1>7
<1> HIDE DEF h
<1>9. LinksTo(backups, m, i, h)
  BY <1>8 DEF LinksTo
<1> QED BY <1>2, <1>9

\* The links one by one.
LinksUp(backups, m, k, g) == g[0] = m /\ \A n \in 0..k : n # 0 => g[n] = Onto(backups, g[n - 1])

\* A chain so far, as a function, has those links.
LEMMA LinksFacts ==
    ASSUME NEW backups, NEW m, NEW k \in Nat, NEW g, LinksTo(backups, m, k, g)
    PROVE  LinksUp(backups, m, k, g)
<1> DEFINE e(n) == IF n = 0 THEN m ELSE Onto(backups, g[n - 1])
<1>1. g = [n \in 0..k |-> e(n)]
  BY DEF LinksTo
<1> HIDE DEF e
<1>2. DOMAIN g = 0..k /\ \A n \in 0..k : g[n] = e(n)
  BY <1>1
<1>3. 0 \in 0..k
  OBVIOUS
<1> QED BY <1>2, <1>3 DEF e, LinksUp

\* A longer chain starts with the shorter one.
LEMMA LinksAgree ==
    ASSUME NEW backups, NEW m, NEW k \in Nat, NEW l \in Nat, k <= l,
           NEW g, LinksTo(backups, m, k, g), NEW h, LinksTo(backups, m, l, h)
    PROVE  \A n \in 0..k : g[n] = h[n]
<1>1. LinksUp(backups, m, k, g)
  BY LinksFacts
<1>2. LinksUp(backups, m, l, h)
  BY LinksFacts
<1> DEFINE S == {n \in 0..k : g[n] # h[n]}
<1> SUFFICES ASSUME S # {} PROVE FALSE
  OBVIOUS
<1>3. S \in SUBSET Nat
  OBVIOUS
<1> DEFINE i == Min(S)
<1>4. i \in S /\ \A y \in S : i <= y
  <2> HIDE DEF S
  <2> QED BY <1>3, Least
<1>5. i \in 0..k /\ g[i] # h[i]
  BY <1>4
<1>6. i # 0
  BY <1>1, <1>2, <1>5 DEF LinksUp
<1>7. i - 1 \in 0..k /\ i - 1 \notin S
  <2>1. i \in Nat /\ i - 1 \in 0..k /\ ~(i <= i - 1)
    BY <1>5, <1>6
  <2> QED BY <1>4, <2>1
<1>8. g[i - 1] = h[i - 1]
  BY <1>7
<1> HIDE DEF i, S
<1>9. g[i] = Onto(backups, g[i - 1]) /\ h[i] = Onto(backups, h[i - 1])
  BY <1>1, <1>2, <1>5, <1>6 DEF LinksUp
<1> QED BY <1>5, <1>8, <1>9

\* chainFrom is well defined: each link is the parent of the one before it.
LEMMA ChainLinks ==
    ASSUME NEW backups, NEW m
    PROVE  /\ chainFrom(backups, m)[0] = m
           /\ \A n \in Nat : chainFrom(backups, m)[n + 1] = Onto(backups, chainFrom(backups, m)[n])
<1> DEFINE G(k) == CHOOSE g : LinksTo(backups, m, k, g)
           f == [n \in Nat |-> G(n)[n]]
<1>1. \A k \in Nat : LinksTo(backups, m, k, G(k))
  <2> SUFFICES ASSUME NEW k \in Nat PROVE LinksTo(backups, m, k, G(k))
    OBVIOUS
  <2>1. \E g : LinksTo(backups, m, k, g)
    BY LinksExist
  <2> QED BY <2>1
<1> HIDE DEF G
<1>2. f[0] = m
  <2>1. LinksUp(backups, m, 0, G(0))
    BY <1>1, LinksFacts
  <2> QED BY <2>1 DEF LinksUp
<1>3. ASSUME NEW n \in Nat PROVE f[n + 1] = Onto(backups, f[n])
  <2>1. n + 1 \in Nat /\ n + 1 # 0 /\ n + 1 \in 0..(n + 1) /\ n <= n + 1 /\ n \in 0..n /\ (n + 1) - 1 = n
    OBVIOUS
  <2>2. G(n + 1)[n + 1] = Onto(backups, G(n + 1)[n])
    <3>1. LinksTo(backups, m, n + 1, G(n + 1))
      BY <1>1, <2>1
    <3>2. LinksUp(backups, m, n + 1, G(n + 1))
      BY <2>1, <3>1, LinksFacts
    <3> QED BY <2>1, <3>2 DEF LinksUp
  <2>3. G(n)[n] = G(n + 1)[n]
    <3>1. LinksTo(backups, m, n, G(n)) /\ LinksTo(backups, m, n + 1, G(n + 1))
      BY <1>1, <2>1
    <3> QED BY <2>1, <3>1, LinksAgree
  <2> QED BY <2>1, <2>2, <2>3
<1>4. \A n \in Nat : f[n] = IF n = 0 THEN m ELSE Onto(backups, f[n - 1])
  <2> SUFFICES ASSUME NEW n \in Nat PROVE f[n] = IF n = 0 THEN m ELSE Onto(backups, f[n - 1])
    OBVIOUS
  <2> HIDE DEF f
  <2>1. CASE n = 0
    BY <1>2, <2>1
  <2>2. CASE n # 0
    <3>1. n - 1 \in Nat /\ (n - 1) + 1 = n
      BY <2>2
    <3>2. f[(n - 1) + 1] = Onto(backups, f[n - 1])
      BY <1>3, <3>1
    <3> QED BY <2>2, <3>1, <3>2
  <2> QED BY <2>1, <2>2
<1>5. f = [n \in Nat |-> IF n = 0 THEN m ELSE Onto(backups, f[n - 1])]
  BY <1>4
<1> HIDE DEF f
<1> DEFINE Is(l) == l = [n \in Nat |-> IF n = 0 THEN m ELSE Onto(backups, l[n - 1])]
           c == chainFrom(backups, m)
<1>6. c = CHOOSE l : Is(l)
  BY DEF chainFrom
<1>7. Is(f)
  BY <1>5
<1> HIDE DEF Is, c
<1>8. Is(c)
  BY <1>6, <1>7
<1> DEFINE e(n) == IF n = 0 THEN m ELSE Onto(backups, c[n - 1])
<1>9. c = [n \in Nat |-> e(n)]
  BY <1>8 DEF Is
<1> HIDE DEF e
<1>10. \A n \in Nat : c[n] = e(n)
  BY <1>9
<1>11. c[0] = m
  BY <1>10 DEF e
<1>12. \A n \in Nat : c[n + 1] = Onto(backups, c[n])
  <2> SUFFICES ASSUME NEW n \in Nat PROVE c[n + 1] = Onto(backups, c[n])
    OBVIOUS
  <2>1. n + 1 \in Nat /\ n + 1 # 0 /\ (n + 1) - 1 = n
    OBVIOUS
  <2>2. c[n + 1] = e(n + 1)
    BY <1>10, <2>1
  <2> QED BY <2>1, <2>2 DEF e
<1> QED BY <1>11, <1>12 DEF c

-----------------------------------------------------------------------------
(* Lists of backups.                                                       *)

\* The date of a backup is its base's, that of a snapshot its own.
LEMMA DatedBackup ==
    ASSUME NEW m \in Backups
    PROVE  Dated(m) = m.base.time /\ Dated(m) \in Nat
<1>1. "base" \in DOMAIN m
  BY DEF Backups
<1> QED BY <1>1, Keys DEF Dated

\* The same of a snapshot.
LEMMA DatedSnapshot ==
    ASSUME NEW s \in Snapshots
    PROVE  Dated(s) = s.time /\ Dated(s) \in Nat
<1>1. DOMAIN s = {"kind", "time", "bookmark"} /\ s.time \in Nat
  BY DEF Snapshots
<1>2. "base" \notin DOMAIN s
  BY <1>1
<1> QED BY <1>1, <1>2 DEF Dated

\* A snapshot that was taken is not NoSnapshot.
LEMMA TakenSnapshot ==
    ASSUME NEW s \in Snapshots
    PROVE  s # NoSnapshot /\ ~Same(s, NoSnapshot) /\ s.kind \in Kinds /\ s.time \in Nat /\ s.bookmark \in BOOLEAN
BY SmartAssumption DEF Snapshots, NoSnapshot, Same

\* FirstAt gives the one at the least index.
LEMMA FirstIsOne ==
    ASSUME NEW seq, NEW I \in SUBSET Nat, NEW none, I # {}
    PROVE  Min(I) \in I /\ FirstAt(seq, I, none) = seq[Min(I)] /\ \A i \in I : Min(I) <= i
BY Least DEF FirstAt

\* A parent is a backup of the source, and missing only when there is none.
LEMMA ParentFound ==
    ASSUME NEW b \in Seq(Backups), NEW s
    PROVE  \/ /\ \A i \in DOMAIN b : ~Same(b[i].base, s)
              /\ parentOf(b, s) = NoBackup
           \/ \E i \in DOMAIN b : parentOf(b, s) = b[i] /\ Same(b[i].base, s)
<1> DEFINE of == {i \in DOMAIN b : Same(b[i].base, s)}
           fulls == {i \in of : IsFull(b[i])}
           I == IF fulls # {} THEN fulls ELSE of
<1>1. parentOf(b, s) = FirstAt(b, I, NoBackup)
  BY DEF parentOf
<1>2. I \in SUBSET of /\ (of # {} => I # {})
  OBVIOUS
<1>3. of \in SUBSET Nat /\ \A i \in of : i \in DOMAIN b /\ Same(b[i].base, s)
  <2>1. DOMAIN b \in SUBSET Nat
    OBVIOUS
  <2> QED BY <2>1
<1>4. of = {} => \A i \in DOMAIN b : ~Same(b[i].base, s)
  OBVIOUS
<1> HIDE DEF of, I
<1>5. CASE of = {}
  BY <1>1, <1>2, <1>4, <1>5 DEF FirstAt
<1>6. CASE of # {}
  <2>1. I \in SUBSET Nat /\ I # {}
    BY <1>2, <1>3, <1>6
  <2>2. Min(I) \in I /\ FirstAt(b, I, NoBackup) = b[Min(I)]
    BY <2>1, FirstIsOne
  <2> QED BY <1>1, <1>2, <1>3, <2>2
<1> QED BY <1>5, <1>6

\* A backup that was made is not NoBackup.
LEMMA NoBackupIsNone ==
    ASSUME NEW m \in Backups
    PROVE  m # NoBackup
<1>1. m.base # NoSnapshot
  BY Keys, TakenSnapshot
<1> QED BY <1>1 DEF NoBackup

\* Each backup of a list is a full, or its source is older and has a backup in the list.
Unbroken(b) ==
    \A i \in DOMAIN b :
        ~IsFull(b[i]) => After(b[i].base, b[i].source) /\ \E j \in DOMAIN b : Same(b[j].base, b[i].source)

\* In a list that is newest first a parent comes after its child.
LEMMA ParentIsLater ==
    ASSUME NEW b \in Seq(Backups), NewestFirst(b), Unbroken(b), NEW k \in DOMAIN b, ~IsFull(b[k])
    PROVE  \E l \in DOMAIN b : l > k /\ Onto(b, b[k]) = b[l] /\ Same(b[l].base, b[k].source)
<1>1. After(b[k].base, b[k].source) /\ \E j \in DOMAIN b : Same(b[j].base, b[k].source)
  BY DEF Unbroken
<1>2. PICK l \in DOMAIN b : parentOf(b, b[k].source) = b[l] /\ Same(b[l].base, b[k].source)
  BY <1>1, ParentFound
<1>3. b[l] \in Backups /\ b[k] \in Backups
  OBVIOUS
<1>4. Onto(b, b[k]) = b[l]
  BY <1>2, <1>3, NoBackupIsNone DEF Onto
<1>5. b[l].base.time < b[k].base.time
  BY <1>1, <1>2, <1>3, Keys DEF After, Same
<1>6. Dated(b[l]) < Dated(b[k]) /\ Dated(b[l]) \in Nat /\ Dated(b[k]) \in Nat
  BY <1>3, <1>5, DatedBackup
<1>7. ~(l < k) /\ l # k
  BY <1>6 DEF NewestFirst
<1>8. k \in Nat /\ l \in Nat
  OBVIOUS
<1> QED BY <1>2, <1>4, <1>7, <1>8

\* So its chain ends in a full, and before the list does.
LEMMA FullReached ==
    ASSUME NEW b \in Seq(Backups), NewestFirst(b), Unbroken(b), NEW i \in DOMAIN b
    PROVE  IsFull(chainFrom(b, b[i])[Len(b)]) /\ \A n \in Nat : chainFrom(b, b[i])[n] \in ToSet(b)
<1> DEFINE c == chainFrom(b, b[i])
<1>1. c[0] = b[i] /\ \A n \in Nat : c[n + 1] = Onto(b, c[n])
  <2>1. PICK m : m = b[i]
    OBVIOUS
  <2>2. chainFrom(b, m)[0] = m /\ \A n \in Nat : chainFrom(b, m)[n + 1] = Onto(b, chainFrom(b, m)[n])
    BY ChainLinks
  <2> QED BY <2>1, <2>2
<1>0. DOMAIN b = 1..Len(b) /\ Len(b) \in Nat /\ i \in Nat /\ i > 0
  OBVIOUS
<1> DEFINE P(n) == \E k \in DOMAIN b : c[n] = b[k] /\ (IsFull(b[k]) \/ k >= i + n)
<1> HIDE DEF c
<1>2. P(0)
  BY <1>0, <1>1
<1>3. ASSUME NEW n \in Nat, P(n) PROVE P(n + 1)
  <2>1. PICK k \in DOMAIN b : c[n] = b[k] /\ (IsFull(b[k]) \/ k >= i + n)
    BY <1>3
  <2>2. c[n + 1] = Onto(b, b[k])
    BY <1>1, <2>1
  <2>3. CASE IsFull(b[k])
    BY <2>2, <2>3 DEF Onto
  <2>4. CASE ~IsFull(b[k])
    <3>1. PICK l \in DOMAIN b : l > k /\ Onto(b, b[k]) = b[l]
      BY <2>4, ParentIsLater
    <3>2. l >= i + (n + 1)
      <4>1. l \in Nat /\ k \in Nat /\ k >= i + n
        BY <1>0, <2>1, <2>4
      <4> QED BY <1>0, <3>1, <4>1
    <3> QED BY <2>2, <3>1, <3>2
  <2> QED BY <2>3, <2>4
<1>4. \A n \in Nat : P(n)
  <2> DEFINE S == {n \in Nat : ~P(n)}
  <2> HIDE DEF P
  <2> SUFFICES ASSUME S # {} PROVE FALSE
    OBVIOUS
  <2>1. S \in SUBSET Nat
    OBVIOUS
  <2> DEFINE x == Min(S)
  <2>2. x \in S /\ \A y \in S : x <= y
    <3> HIDE DEF S
    <3> QED BY <2>1, Least
  <2>3. x \in Nat /\ ~P(x)
    BY <2>2
  <2>4. x # 0
    BY <1>2, <2>3
  <2>5. x - 1 \in Nat /\ ~(x <= x - 1) /\ (x - 1) + 1 = x
    BY <2>3, <2>4
  <2>6. P(x - 1)
    BY <2>2, <2>5
  <2> HIDE DEF x
  <2>7. P((x - 1) + 1)
    BY <1>3, <2>5, <2>6
  <2> QED BY <2>3, <2>5, <2>7
<1>5. \A n \in Nat : c[n] \in ToSet(b)
  BY <1>4 DEF ToSet
<1>6. IsFull(c[Len(b)])
  <2>1. PICK k \in DOMAIN b : c[Len(b)] = b[k] /\ (IsFull(b[k]) \/ k >= i + Len(b))
    BY <1>0, <1>4
  <2> QED BY <1>0, <2>1
<1> QED BY <1>5, <1>6 DEF c

\* And no link of the list is broken.
LEMMA NoBrokenLink ==
    ASSUME NEW b \in Seq(Backups), NewestFirst(b), Unbroken(b)
    PROVE  brokenLink(b) = NoSnapshot
<1>1. CASE b = <<>>
  BY <1>1 DEF brokenLink
<1>2. CASE b # <<>>
  <2>1. 1 \in DOMAIN b
    BY <1>2
  <2>2. IsFull(chainFrom(b, b[1])[Len(b)])
    BY <2>1, FullReached
  <2> QED BY <2>2 DEF brokenLink
<1> QED BY <1>1, <1>2

\* The backups of a destination, when every incremental's source has one beside it.
LEMMA SortedChains ==
    ASSUME NEW M, Manifests(M), Linked(M)
    PROVE  LET s == sortBackupsNewestFirst(M)
           IN s \in Seq(Backups) /\ NewestFirst(s) /\ (Kept => Unbroken(s))
<1> DEFINE s == sortBackupsNewestFirst(M)
<1> HIDE DEF s
<1>1. s \in Seq(M) /\ ToSet(s) = M /\ \A i, j \in DOMAIN s : i < j => Before(s[i], s[j])
  BY SortedList DEF s
<1>2. M \in SUBSET Backups
  BY DEF Manifests
<1>3. s \in Seq(Backups)
  BY <1>1, <1>2
<1>4. NewestFirst(s)
  <2> SUFFICES ASSUME NEW i \in DOMAIN s, NEW j \in DOMAIN s, i < j PROVE Dated(s[j]) <= Dated(s[i])
    BY DEF NewestFirst
  <2>1. Before(s[i], s[j]) /\ s[i] \in Backups /\ s[j] \in Backups
    BY <1>1, <1>3
  <2>2. s[j].base.time <= s[i].base.time
    BY <2>1, Keys DEF Before, Newer
  <2> QED BY <2>1, <2>2, DatedBackup
<1>5. ASSUME Kept PROVE Unbroken(s)
  BY <1>1, <1>5 DEF Linked, Unbroken, ToSet
<1> QED BY <1>3, <1>4, <1>5 DEF s

-----------------------------------------------------------------------------
(* Wrong dates.                                                            *)

\* The places of a list that dropFutureDated takes for wrongly dated.
Future(t, seq) == {i \in DOMAIN seq : Dated(seq[i]) > t + futureSlack}

\* Part of a list is a list.
LEMMA DropTyped ==
    ASSUME NEW T, NEW seq \in Seq(T), NEW t
    PROVE  /\ dropFutureDated(t, seq) \in Seq(T)
           /\ Cardinality(Future(t, seq)) \in Nat
           /\ Len(dropFutureDated(t, seq)) = IF Cardinality(Future(t, seq)) <= Len(seq)
                                             THEN Len(seq) - Cardinality(Future(t, seq)) ELSE 0
           /\ \A i \in DOMAIN dropFutureDated(t, seq) :
                 /\ Cardinality(Future(t, seq)) + i \in DOMAIN seq
                 /\ dropFutureDated(t, seq)[i] = seq[Cardinality(Future(t, seq)) + i]
<1> DEFINE F == Future(t, seq)
           k == Cardinality(F)
<1>1. IsFiniteSet(1..Len(seq)) /\ F \in SUBSET (1..Len(seq))
  BY FS_Interval DEF Future
<1>2. k \in Nat
  BY <1>1, FS_Subset, FS_CardinalityType
<1>3. dropFutureDated(t, seq) = SubSeq(seq, k + 1, Len(seq))
  BY DEF dropFutureDated, Future
<1> HIDE DEF k
<1> QED BY <1>2, <1>3 DEF k

\* The numbers to n are n numbers.
LEMMA CountTo ==
    ASSUME NEW n \in Nat
    PROVE  IsFiniteSet(1..n) /\ Cardinality(1..n) = n
<1>1. 1 \in Int /\ n \in Int
  OBVIOUS
<1>2. IsFiniteSet(1..n) /\ Cardinality(1..n) = IF 1 > n THEN 0 ELSE n - 1 + 1
  BY <1>1, FS_Interval
<1> QED BY <1>2

\* In a list that is newest first, those after some time come first.
LEMMA LaterFirst ==
    ASSUME NEW T, \A x \in T : Dated(x) \in Nat, NEW seq \in Seq(T), NewestFirst(seq), NEW h \in Nat,
           NEW E, E = {i \in DOMAIN seq : Dated(seq[i]) > h}
    PROVE  E = 1..Cardinality(E) /\ Cardinality(E) \in 0..Len(seq)
<1>e. PICK F : F = E
  OBVIOUS
<1> DEFINE n == Len(seq)
           G == {i \in 1..(n + 1) : i \notin F}
           x == Min(G)
<1>0. n \in Nat
  OBVIOUS
<1>1. F \in SUBSET (1..n) /\ \A i, j \in 1..n : i < j /\ j \in F => i \in F
  <2>1. \A i \in 1..n : Dated(seq[i]) \in Nat
    OBVIOUS
  <2>2. \A i, j \in 1..n : i < j => Dated(seq[j]) <= Dated(seq[i])
    BY DEF NewestFirst
  <2> QED BY <1>0, <1>e, <2>1, <2>2
<1> HIDE DEF n
<1>2. n + 1 \in G
  BY <1>0, <1>1
<1>3. x \in G /\ \A y \in G : x <= y
  <2>1. G \in SUBSET Nat /\ G # {}
    BY <1>0, <1>2
  <2> HIDE DEF G
  <2> QED BY <2>1, Least
<1>4. x \in 1..(n + 1) /\ x \notin F /\ \A y \in 1..(n + 1) : y \notin F => x <= y
  BY <1>3
<1> HIDE DEF x, G
<1>5. F = 1..(x - 1)
  <2>1. ASSUME NEW i \in F PROVE i \in 1..(x - 1)
    BY <1>0, <1>1, <1>4
  <2>2. ASSUME NEW i \in 1..(x - 1) PROVE i \in F
    BY <1>0, <1>1, <1>4
  <2> QED BY <2>1, <2>2
<1>6. Cardinality(F) = x - 1
  <2>1. PICK y \in Nat : y = x - 1
    BY <1>0, <1>4
  <2>3. Cardinality(1..y) = y
    BY <2>1, CountTo
  <2> QED BY <1>5, <2>1, <2>3
<1>7. PICK c : c = Cardinality(F)
  OBVIOUS
<1>8. F = 1..c /\ c \in 0..n
  BY <1>0, <1>4, <1>5, <1>6, <1>7
<1> QED BY <1>e, <1>7, <1>8 DEF n

\* A list that is newest first loses its first ones, and exactly the wrongly dated.
LEMMA DropNewest ==
    ASSUME NEW T, \A x \in T : Dated(x) \in Nat, NEW seq \in Seq(T), NewestFirst(seq), NEW t \in Nat
    PROVE  /\ Future(t, seq) = 1..Cardinality(Future(t, seq))
           /\ Cardinality(Future(t, seq)) \in 0..Len(seq)
<1>1. PICK F : F = {i \in DOMAIN seq : Dated(seq[i]) > t + futureSlack}
  OBVIOUS
<1>2. PICK h \in Nat : h = t + futureSlack
  BY DEF futureSlack, Hour
<1>3. F = 1..Cardinality(F) /\ Cardinality(F) \in 0..Len(seq)
  BY <1>1, <1>2, LaterFirst
<1> QED BY <1>1, <1>3 DEF Future

\* What dropFutureDated leaves of a list that is newest first.
LEMMA NotFuture ==
    ASSUME NEW T, \A x \in T : Dated(x) \in Nat, NEW seq \in Seq(T), NewestFirst(seq), NEW t \in Nat
    PROVE  /\ NewestFirst(dropFutureDated(t, seq))
           /\ ToSet(dropFutureDated(t, seq)) = {x \in ToSet(seq) : Dated(x) <= t + futureSlack}
<1> DEFINE F == Future(t, seq)
           k == Cardinality(F)
           d == dropFutureDated(t, seq)
<1>1. F = 1..k /\ k \in 0..Len(seq)
  BY DropNewest
<1>2. d \in Seq(T) /\ Len(d) = Len(seq) - k /\ \A i \in DOMAIN d : k + i \in DOMAIN seq /\ d[i] = seq[k + i]
  BY <1>1, DropTyped
<1>3. \A i \in DOMAIN seq : i > k <=> Dated(seq[i]) <= t + futureSlack
  <2>1. \A i \in DOMAIN seq : i \in F <=> Dated(seq[i]) > t + futureSlack
    BY DEF Future
  <2>2. \A i \in DOMAIN seq : Dated(seq[i]) \in Nat /\ i \in Nat /\ i > 0
    OBVIOUS
  <2>3. t + futureSlack \in Nat
    BY DEF futureSlack, Hour
  <2> HIDE DEF F, k
  <2> QED BY <1>1, <2>1, <2>2, <2>3
<1> HIDE DEF k, d, F
<1>4. NewestFirst(d)
  <2> SUFFICES ASSUME NEW i \in DOMAIN d, NEW j \in DOMAIN d, i < j PROVE Dated(d[j]) <= Dated(d[i])
    BY DEF NewestFirst
  <2>1. k + i \in DOMAIN seq /\ k + j \in DOMAIN seq /\ d[i] = seq[k + i] /\ d[j] = seq[k + j]
    BY <1>2
  <2>2. k + i < k + j
    BY <1>1, <1>2
  <2> QED BY <2>1, <2>2 DEF NewestFirst
<1>5. ASSUME NEW x \in ToSet(d) PROVE x \in ToSet(seq) /\ Dated(x) <= t + futureSlack
  <2>1. PICK i \in DOMAIN d : x = d[i]
    BY DEF ToSet
  <2>2. k + i \in DOMAIN seq /\ x = seq[k + i] /\ k + i > k
    BY <1>1, <1>2, <2>1
  <2> QED BY <1>3, <2>2 DEF ToSet
<1>6. ASSUME NEW x \in ToSet(seq), Dated(x) <= t + futureSlack PROVE x \in ToSet(d)
  <2>1. PICK j \in DOMAIN seq : x = seq[j]
    BY DEF ToSet
  <2>2. j > k /\ j \in 1..Len(seq)
    BY <1>3, <1>6, <2>1
  <2>3. j - k \in 1..Len(d) /\ k + (j - k) = j
    BY <1>1, <1>2, <2>2
  <2>4. j - k \in DOMAIN d
    BY <1>2, <2>3
  <2>5. d[j - k] = x
    BY <1>2, <2>1, <2>3, <2>4
  <2> QED BY <2>4, <2>5 DEF ToSet
<1> QED BY <1>4, <1>5, <1>6 DEF d

\* Nothing is lost of a list without wrong dates.
LEMMA NothingDropped ==
    ASSUME NEW T, NEW seq \in Seq(T), NEW t, Future(t, seq) = {}
    PROVE  dropFutureDated(t, seq) = seq
<1>1. Cardinality(Future(t, seq)) = 0
  BY FS_EmptySet
<1> DEFINE d == dropFutureDated(t, seq)
<1>2. d \in Seq(T) /\ Len(d) = Len(seq) /\ \A i \in DOMAIN d : d[i] = seq[0 + i]
  <2>1. d \in Seq(T) /\ Len(d) = (IF 0 <= Len(seq) THEN Len(seq) - 0 ELSE 0)
    BY <1>1, DropTyped
  <2>2. \A i \in DOMAIN d : d[i] = seq[0 + i]
    BY <1>1, DropTyped
  <2> HIDE DEF d
  <2> QED BY <2>1, <2>2
<1> HIDE DEF d
<1>3. DOMAIN d = 1..Len(seq) /\ \A i \in 1..Len(seq) : d[i] = seq[i]
  BY <1>2
<1>4. d = seq
  <2>1. d = [i \in DOMAIN d |-> d[i]] /\ seq = [i \in DOMAIN seq |-> seq[i]] /\ DOMAIN seq = 1..Len(seq)
    BY <1>2
  <2> QED BY <1>3, <2>1
<1> QED BY <1>4 DEF d

\* Chains stay whole: a source is older than what was made from it.
LEMMA DropUnbroken ==
    ASSUME NEW b \in Seq(Backups), NewestFirst(b), Unbroken(b), NEW t \in Nat
    PROVE  Unbroken(dropFutureDated(t, b))
<1> DEFINE d == dropFutureDated(t, b)
<1>0. \A x \in Backups : Dated(x) \in Nat
  BY DatedBackup
<1>1. ToSet(d) = {x \in ToSet(b) : Dated(x) <= t + futureSlack}
  BY <1>0, NotFuture
<1>2. t + futureSlack \in Nat
  BY DEF futureSlack, Hour
<1> HIDE DEF d
<1> SUFFICES ASSUME NEW i \in DOMAIN d, ~IsFull(d[i])
             PROVE  After(d[i].base, d[i].source) /\ \E j \in DOMAIN d : Same(d[j].base, d[i].source)
  BY DEF Unbroken, d
<1>3. d[i] \in ToSet(b) /\ Dated(d[i]) <= t + futureSlack
  BY <1>1 DEF ToSet
<1>4. PICK k \in DOMAIN b : d[i] = b[k]
  BY <1>3 DEF ToSet
<1>5. After(b[k].base, b[k].source) /\ \E j \in DOMAIN b : Same(b[j].base, b[k].source)
  BY <1>4 DEF Unbroken
<1>6. PICK j \in DOMAIN b : Same(b[j].base, b[k].source)
  BY <1>5
<1>7. b[j] \in Backups /\ b[k] \in Backups
  OBVIOUS
<1>8. Dated(b[j]) <= t + futureSlack
  <2>1. b[j].base.time < b[k].base.time
    BY <1>5, <1>6, <1>7, Keys DEF After, Same
  <2> QED BY <1>2, <1>3, <1>4, <1>7, <2>1, DatedBackup
<1>9. b[j] \in ToSet(d)
  BY <1>1, <1>8 DEF ToSet
<1> QED BY <1>4, <1>5, <1>6, <1>9 DEF ToSet

-----------------------------------------------------------------------------
(* What the planner finds in lists.                                        *)

\* The newest snapshot of some kinds is one of the pool, or there is none.
LEMMA NewestMatching ==
    ASSUME NEW p \in Seq(Snapshots), NEW kinds
    PROVE  \/ /\ newestMatchingSnapshot(p, kinds) = NoSnapshot
              /\ \A i \in DOMAIN p : ~snapshotMatches(p[i], kinds)
           \/ \E i \in DOMAIN p :
                 /\ newestMatchingSnapshot(p, kinds) = p[i] /\ p[i] \in Snapshots /\ snapshotMatches(p[i], kinds)
                 /\ \A j \in DOMAIN p : snapshotMatches(p[j], kinds) => i <= j
<1> DEFINE I == {i \in DOMAIN p : snapshotMatches(p[i], kinds)}
<1>1. newestMatchingSnapshot(p, kinds) = FirstAt(p, I, NoSnapshot)
  BY DEF newestMatchingSnapshot
<1>2. I \in SUBSET Nat /\ \A i \in I : i \in DOMAIN p /\ snapshotMatches(p[i], kinds) /\ p[i] \in Snapshots
  <2>1. DOMAIN p \in SUBSET Nat
    OBVIOUS
  <2> QED BY <2>1
<1>3. \A j \in DOMAIN p : snapshotMatches(p[j], kinds) => j \in I
  OBVIOUS
<1> HIDE DEF I
<1>4. CASE I = {}
  BY <1>1, <1>3, <1>4 DEF FirstAt
<1>5. CASE I # {}
  <2>1. Min(I) \in I /\ FirstAt(p, I, NoSnapshot) = p[Min(I)] /\ \A i \in I : Min(I) <= i
    BY <1>2, <1>5, FirstIsOne
  <2> QED BY <1>1, <1>2, <1>3, <2>1
<1> QED BY <1>4, <1>5

\* What is found on the pool is the snapshot that was looked for.
LEMMA FoundOnPool ==
    ASSUME NEW p \in Seq(Snapshots), NEW s \in Snapshots \cup {NoSnapshot}, onPool(s, p) # NoSnapshot
    PROVE  s \in Snapshots /\ onPool(s, p) \in Snapshots /\ Same(onPool(s, p), s)
<1> DEFINE found == {t \in ToSet(p) : Same(t, s)}
           b == \A t \in found : t.bookmark
<1>1. found # {} /\ onPool(s, p) = [s EXCEPT !.bookmark = b]
  BY DEF onPool
<1>2. PICK t \in ToSet(p) : Same(t, s)
  BY <1>1
<1>3. t \in Snapshots
  BY <1>2 DEF ToSet
<1>4. s \in Snapshots
  BY <1>2, <1>3, TakenSnapshot
<1>5. b \in BOOLEAN
  OBVIOUS
<1> HIDE DEF b
<1>6. [s EXCEPT !.bookmark = b] \in Snapshots /\ Same([s EXCEPT !.bookmark = b], s)
  BY <1>4, <1>5 DEF Snapshots, Same
<1> QED BY <1>1, <1>4, <1>6

\* The last backup of a list is its first.
LEMMA LastBase ==
    ASSUME NEW b \in Seq(Backups)
    PROVE  /\ b = <<>> => NewestBase(b, DOMAIN b) = NoSnapshot
           /\ b # <<>> => NewestBase(b, DOMAIN b) = b[1].base /\ b[1] \in Backups /\ 1 \in DOMAIN b
           /\ NewestBase(b, DOMAIN b) \in Snapshots \cup {NoSnapshot}
<1>1. CASE b = <<>>
  <2>1. DOMAIN b = {}
    BY <1>1
  <2> QED BY <1>1, <2>1 DEF NewestBase, FirstAt, NoBackup
<1>2. CASE b # <<>>
  <2>1. 1 \in DOMAIN b /\ DOMAIN b \in SUBSET Nat /\ \A i \in DOMAIN b : 1 <= i
    BY <1>2
  <2> DEFINE I == DOMAIN b
  <2> HIDE DEF I
  <2>2. I \in SUBSET Nat /\ 1 \in I /\ \A i \in I : 1 <= i
    BY <2>1 DEF I
  <2>3. Min(I) \in I /\ FirstAt(b, I, NoBackup) = b[Min(I)] /\ \A i \in I : Min(I) <= i
    BY <2>2, FirstIsOne
  <2>4. Min(I) = 1
    <3>1. PICK x : x = Min(I)
      OBVIOUS
    <3>2. x \in Nat /\ x <= 1 /\ 1 <= x
      BY <2>2, <2>3, <3>1
    <3> QED BY <3>1, <3>2
  <2>5. NewestBase(b, DOMAIN b) = b[1].base
    <3>1. FirstAt(b, DOMAIN b, NoBackup) = b[1]
      BY <2>3, <2>4 DEF I
    <3> QED BY <3>1 DEF NewestBase
  <2>6. b[1] \in Backups
    BY <2>1
  <2> QED BY <1>2, <2>1, <2>5, <2>6, Keys
<1> QED BY <1>1, <1>2

\* Of some lists one is the longest.
LEMMA LongestExists ==
    ASSUME NEW D \in Seq(Seq(Backups)), D # <<>>
    PROVE  \E i \in DOMAIN D : \A j \in DOMAIN D : Len(D[j]) <= Len(D[i])
<1> DEFINE n == Len(D)
           P(k) == \E i \in 1..k : \A j \in 1..k : Len(D[j]) <= Len(D[i])
           S == {k \in 1..n : ~P(k)}
<1>0. n \in Nat /\ n # 0 /\ DOMAIN D = 1..n /\ \A i \in 1..n : Len(D[i]) \in Nat
  OBVIOUS
<1> SUFFICES P(n)
  BY <1>0
<1> HIDE DEF n
<1> HIDE DEF P
<1> SUFFICES ASSUME S # {} PROVE FALSE
  BY <1>0
<1> DEFINE x == Min(S)
<1>1. x \in S /\ \A y \in S : x <= y
  <2>1. S \in SUBSET Nat
    BY <1>0
  <2> HIDE DEF S
  <2> QED BY <2>1, Least
<1>2. x \in 1..n /\ ~P(x)
  BY <1>1
<1>3. \A k \in 1..n : k < x => P(k)
  <2> SUFFICES ASSUME NEW k \in 1..n, k < x, ~P(k) PROVE FALSE
    OBVIOUS
  <2>1. k \in S
    OBVIOUS
  <2>2. x <= k
    BY <1>1, <2>1
  <2> HIDE DEF x
  <2> QED BY <1>0, <1>2, <2>2
<1> HIDE DEF x, S
<1>4. x # 1
  <2>1. P(1)
    BY <1>0 DEF P
  <2> QED BY <1>2, <2>1
<1>5. x - 1 \in 1..n /\ x - 1 < x /\ x \in Nat
  BY <1>0, <1>2, <1>4
<1>6. PICK i \in 1..(x - 1) : \A j \in 1..(x - 1) : Len(D[j]) <= Len(D[i])
  BY <1>3, <1>5 DEF P
<1>7. i \in 1..x /\ i \in 1..n /\ \A j \in 1..x : j \in 1..n /\ (j = x \/ j \in 1..(x - 1))
  BY <1>0, <1>2, <1>5
<1>8. CASE Len(D[x]) <= Len(D[i])
  BY <1>2, <1>6, <1>7, <1>8 DEF P
<1>9. CASE Len(D[i]) <= Len(D[x])
  <2>1. \A j \in 1..x : Len(D[j]) <= Len(D[x])
    BY <1>0, <1>2, <1>6, <1>7, <1>9
  <2>2. x \in 1..x
    BY <1>2, <1>5
  <2> QED BY <1>2, <2>1, <2>2 DEF P
<1>10. Len(D[x]) \in Nat /\ Len(D[i]) \in Nat
  BY <1>0, <1>2, <1>7
<1> QED BY <1>8, <1>9, <1>10

\* A partial set is the newest of some list, and what the others lack.
LEMMA PartialLeads ==
    ASSUME NEW D \in Seq(Seq(Backups)), D # <<>>, partialSet(D) # NoBackup
    PROVE  \E l \in DOMAIN D :
              /\ D[l] # <<>> /\ partialSet(D) = D[l][1]
              /\ \A i \in DOMAIN D : sameSets(D[i], D[l]) \/ sameSets(D[i], Tail(D[l]))
              /\ \E i \in DOMAIN D : ~sameSets(D[i], D[l])
<1> DEFINE longest == {i \in DOMAIN D : \A j \in DOMAIN D : Len(D[j]) <= Len(D[i])}
           l == Min(longest)
<1>1. longest \in SUBSET Nat /\ longest # {}
  <2>1. DOMAIN D \in SUBSET Nat
    OBVIOUS
  <2>2. longest # {}
    BY LongestExists
  <2> QED BY <2>1, <2>2
<1>2. l \in longest
  <2> HIDE DEF longest
  <2> QED BY <1>1, Least
<1>3. l \in DOMAIN D
  BY <1>2
<1> DEFINE leader == D[l]
           behind == {i \in DOMAIN D : ~sameSets(D[i], leader)}
<1>4. partialSet(D) = IF leader = <<>> \/ behind = {} \/ \E i \in behind : ~sameSets(D[i], Tail(leader))
                      THEN NoBackup ELSE leader[1]
  BY DEF partialSet
<1> HIDE DEF l
<1> QED BY <1>3, <1>4

-----------------------------------------------------------------------------
(* What the planner decides.                                               *)

\* The base of the newest backup of a list, or NoSnapshot.
LastOf(b) == NewestBase(b, DOMAIN b)

\* What a plan may be made from: snapshots, and at least one list of backups.
Readable(P, D) == P \in Seq(Snapshots) /\ D \in Seq(Seq(Backups)) /\ D # <<>>

\* A plan for a set that no list has yet: of a snapshot of the pool, and newer than the last
\* backup of some list, unless it is the first full or an explicit one.
NewBase(job, P, D, base) ==
    /\ base \in ToSet(P) /\ ~base.bookmark
    /\ \/ job.mode = "full"
       \/ \A i \in DOMAIN D[1] : ~IsFull(D[1][i])
       \/ \E i \in DOMAIN D : After(base, LastOf(D[i]))

\* An incremental for it continues the last backup of every list.
Continues(D, base, source) ==
    /\ source \in Snapshots /\ After(base, source)
    /\ \A i \in DOMAIN D : LastOf(D[i]) \in Snapshots /\ Same(LastOf(D[i]), source)

\* A plan that sends nothing, or a full or an incremental as above.
Planned(job, P, D, p) ==
    \/ p.action \in {"noop", "error"}
    \/ p.action = "full" /\ NewBase(job, P, D, p.base)
    \/ p.action = "incremental" /\ NewBase(job, P, D, p.base) /\ Continues(D, p.base, p.source)

\* A candidate is a snapshot of the pool and no bookmark.
LEMMA MatchingIsNew ==
    ASSUME NEW P \in Seq(Snapshots), NEW kinds, newestMatchingSnapshot(P, kinds) # NoSnapshot
    PROVE  LET base == newestMatchingSnapshot(P, kinds)
           IN base \in ToSet(P) /\ ~base.bookmark /\ base \in Snapshots
<1>1. PICK i \in DOMAIN P : newestMatchingSnapshot(P, kinds) = P[i] /\ P[i] \in Snapshots /\ snapshotMatches(P[i], kinds)
  BY NewestMatching
<1> QED BY <1>1 DEF ToSet, snapshotMatches

\* What the cases of a decision are.
LEMMA Actions ==
    ASSUME NEW b, NEW s, NEW why
    PROVE  /\ Full(b, s, why).action = "full" /\ Full(b, s, why).base = b
           /\ Incremental(b, s, why).action = "incremental" /\ Incremental(b, s, why).base = b
           /\ Incremental(b, s, why).source = s
           /\ Noop(s, why).action = "noop" /\ Error(why).action = "error"
BY DEF Full, Incremental, Noop, Error, Decision

\* The decisions, one by one.
LEMMA CasesPlanned ==
    ASSUME NEW job, NEW P, NEW D, NEW b, NEW s, NEW why
    PROVE  /\ Planned(job, P, D, Error(why)) /\ Planned(job, P, D, Noop(s, why))
           /\ NewBase(job, P, D, b) => Planned(job, P, D, Full(b, s, why))
           /\ NewBase(job, P, D, b) /\ Continues(D, b, s) => Planned(job, P, D, Incremental(b, s, why))
<1>1. Planned(job, P, D, Error(why)) /\ Planned(job, P, D, Noop(s, why))
  BY Actions DEF Planned
<1>2. ASSUME NewBase(job, P, D, b) PROVE Planned(job, P, D, Full(b, s, why))
  BY <1>2, Actions DEF Planned
<1>3. ASSUME NewBase(job, P, D, b), Continues(D, b, s) PROVE Planned(job, P, D, Incremental(b, s, why))
  BY <1>3, Actions DEF Planned
<1> QED BY <1>1, <1>2, <1>3

\* --full.
LEMMA ExplicitFullPlanned ==
    ASSUME NEW job, NEW P, NEW D, Readable(P, D), job.mode = "full"
    PROVE  Planned(job, P, D, planExplicitFull(job, P, D))
<1> DEFINE base == newestMatchingSnapshot(P, job.fullKinds)
           p == planExplicitFull(job, P, D)
<1>1. \/ p = Error("no full candidate") \/ p = Noop(NoSnapshot, "already backed up") \/ p = Error("out of sync")
      \/ base # NoSnapshot /\ p = Full(base, NoSnapshot, "explicit full")
  BY DEF planExplicitFull
<1>2. P \in Seq(Snapshots)
  BY DEF Readable
<1>3. base # NoSnapshot => NewBase(job, P, D, base)
  BY <1>2, MatchingIsNew DEF NewBase
<1> HIDE DEF base, p
<1>4. Planned(job, P, D, p)
  BY <1>1, <1>3, CasesPlanned
<1> QED BY <1>4 DEF p

\* The last backups of the lists.
LEMMA LastTyped ==
    ASSUME NEW P, NEW D, Readable(P, D)
    PROVE  1 \in DOMAIN D /\ \A i \in DOMAIN D : D[i] \in Seq(Backups) /\ LastOf(D[i]) \in Snapshots \cup {NoSnapshot}
<1>1. 1 \in DOMAIN D /\ \A i \in DOMAIN D : D[i] \in Seq(Backups)
  BY DEF Readable
<1> QED BY <1>1, LastBase DEF LastOf

\* What is the same as a snapshot that was taken was taken.
LEMMA SameAsTaken ==
    ASSUME NEW s \in Snapshots \cup {NoSnapshot}, NEW t \in Snapshots, Same(s, t)
    PROVE  s \in Snapshots
BY TakenSnapshot DEF Same, NoSnapshot

\* --increment.
LEMMA ExplicitIncrementalPlanned ==
    ASSUME NEW job, NEW P, NEW D, Readable(P, D), \A i \in DOMAIN D : Same(LastOf(D[i]), LastOf(D[1]))
    PROVE  Planned(job, P, D, planExplicitIncremental(job, P, D, LastOf(D[1])))
<1> DEFINE base == newestMatchingSnapshot(P, job.incrKinds)
           last == LastOf(D[1])
           p == planExplicitIncremental(job, P, D, last)
<1>1. \/ \E why : p = Error(why) \/ p = Noop(NoSnapshot, why)
      \/ base # NoSnapshot /\ last # NoSnapshot /\ After(base, last) /\ p = Incremental(base, last, "explicit incremental")
  BY DEF planExplicitIncremental
<1>2. P \in Seq(Snapshots)
  BY DEF Readable
<1>3. 1 \in DOMAIN D /\ last \in Snapshots \cup {NoSnapshot}
  BY LastTyped
<1>4. ASSUME base # NoSnapshot, last # NoSnapshot, After(base, last)
      PROVE  NewBase(job, P, D, base) /\ Continues(D, base, last)
  <2>1. last \in Snapshots
    BY <1>3, <1>4
  <2>2. \A i \in DOMAIN D : LastOf(D[i]) \in Snapshots /\ Same(LastOf(D[i]), last)
    <3> HIDE DEF last
    <3>1. \A i \in DOMAIN D : LastOf(D[i]) \in Snapshots \cup {NoSnapshot} /\ Same(LastOf(D[i]), last)
      BY LastTyped DEF last
    <3> QED BY <2>1, <3>1, SameAsTaken
  <2>3. base \in ToSet(P) /\ ~base.bookmark
    BY <1>2, <1>4, MatchingIsNew
  <2> QED BY <1>3, <1>4, <2>1, <2>2, <2>3 DEF NewBase, Continues
<1> HIDE DEF base, p, last
<1>5. Planned(job, P, D, p)
  BY <1>1, <1>4, CasesPlanned
<1> QED BY <1>5 DEF p, last

\* An incremental of --fullIfOlderThan, or the full that replaces it.
LEMMA IncrementalPlanned ==
    ASSUME NEW job, NEW P, NEW D, Readable(P, D), NEW last, last = [i \in DOMAIN D |-> LastOf(D[i])]
    PROVE  Planned(job, P, D, planIncremental(job, P, D, last, newestMatchingSnapshot(P, job.fullKinds)))
<1> DEFINE base == newestMatchingSnapshot(P, job.incrKinds)
           fullBase == newestMatchingSnapshot(P, job.fullKinds)
           source == onPool(last[1], P)
           p == planIncremental(job, P, D, last, fullBase)
<1>1. \/ \E why, s : p = Error(why) \/ p = Noop(s, why)
      \/ fullBase # NoSnapshot /\ After(fullBase, last[1]) /\ p = Full(fullBase, last[1], "source pruned")
      \/ /\ base # NoSnapshot /\ (\A i \in DOMAIN last : Same(last[i], last[1])) /\ After(base, last[1])
         /\ ~Pruned(source, job) /\ p = Incremental(base, source, "newer candidate")
  BY DEF planIncremental
<1>2. P \in Seq(Snapshots)
  BY DEF Readable
<1>3. 1 \in DOMAIN D /\ last[1] = LastOf(D[1]) /\ last[1] \in Snapshots \cup {NoSnapshot}
  BY LastTyped
<1>4. ASSUME fullBase # NoSnapshot, After(fullBase, last[1]) PROVE NewBase(job, P, D, fullBase)
  <2>1. fullBase \in ToSet(P) /\ ~fullBase.bookmark
    BY <1>2, <1>4, MatchingIsNew
  <2> QED BY <1>3, <1>4, <2>1 DEF NewBase
<1>5. ASSUME base # NoSnapshot, \A i \in DOMAIN last : Same(last[i], last[1]), After(base, last[1]), ~Pruned(source, job)
      PROVE  NewBase(job, P, D, base) /\ Continues(D, base, source)
  <2>1. base \in ToSet(P) /\ ~base.bookmark
    BY <1>2, <1>5, MatchingIsNew
  <2>2. source # NoSnapshot
    BY <1>5 DEF Pruned
  <2>3. last[1] \in Snapshots /\ source \in Snapshots /\ Same(source, last[1])
    BY <1>2, <1>3, <2>2, FoundOnPool
  <2> HIDE DEF source, base
  <2>4. \A i \in DOMAIN D : LastOf(D[i]) \in Snapshots \cup {NoSnapshot} /\ Same(LastOf(D[i]), last[1])
    BY <1>5, LastTyped
  <2>5. \A i \in DOMAIN D : LastOf(D[i]) \in Snapshots
    BY <2>3, <2>4, SameAsTaken
  <2>6. \A i \in DOMAIN D : Same(LastOf(D[i]), source)
    BY <2>3, <2>4 DEF Same
  <2>7. After(base, source)
    BY <1>5, <2>3 DEF After, Same
  <2> QED BY <1>3, <1>5, <2>1, <2>3, <2>5, <2>6, <2>7 DEF NewBase, Continues
<1> HIDE DEF base, p, source, fullBase
<1>6. Planned(job, P, D, p)
  BY <1>1, <1>4, <1>5, CasesPlanned
<1> QED BY <1>6 DEF p, fullBase
\* Without a last full there is no full.
LEMMA NoLastFull ==
    ASSUME NEW b \in Seq(Backups), NewestBase(b, {i \in DOMAIN b : IsFull(b[i])}) = NoSnapshot
    PROVE  \A i \in DOMAIN b : ~IsFull(b[i])
<1> DEFINE I == {i \in DOMAIN b : IsFull(b[i])}
<1> SUFFICES ASSUME I # {} PROVE FALSE
  OBVIOUS
<1>1. I \in SUBSET Nat /\ \A i \in I : b[i] \in Backups
  <2>1. DOMAIN b \in SUBSET Nat
    OBVIOUS
  <2> QED BY <2>1
<1> HIDE DEF I
<1>2. Min(I) \in I /\ FirstAt(b, I, NoBackup) = b[Min(I)]
  BY <1>1, FirstIsOne
<1>3. NewestBase(b, I) = b[Min(I)].base
  BY <1>2 DEF NewestBase
<1>4. b[Min(I)].base # NoSnapshot
  BY <1>1, <1>2, Keys, TakenSnapshot
<1> QED BY <1>3, <1>4 DEF I

\* --fullIfOlderThan.
LEMMA WindowPlanned ==
    ASSUME NEW job, NEW P, NEW D, Readable(P, D), NEW last, last = [i \in DOMAIN D |-> LastOf(D[i])], NEW lastFull,
           lastFull = NewestBase(D[1], {i \in DOMAIN D[1] : IsFull(D[1][i])})
    PROVE  Planned(job, P, D, planWindow(job, P, D, lastFull, last))
<1> DEFINE fullBase == newestMatchingSnapshot(P, job.fullKinds)
           p == planWindow(job, P, D, lastFull, last)
           q == planIncremental(job, P, D, last, fullBase)
<1>1. \/ \E why, s : p = Error(why) \/ p = Noop(s, why)
      \/ lastFull = NoSnapshot /\ fullBase # NoSnapshot /\ p = Full(fullBase, NoSnapshot, "no previous full")
      \/ NewerThanBehind(fullBase, last) /\ \E why, s : p = Full(fullBase, s, why)
      \/ p = q
  BY DEF planWindow
<1>2. P \in Seq(Snapshots) /\ 1 \in DOMAIN D /\ D[1] \in Seq(Backups)
  BY LastTyped DEF Readable
<1>3. ASSUME fullBase # NoSnapshot PROVE fullBase \in ToSet(P) /\ ~fullBase.bookmark
  BY <1>2, <1>3, MatchingIsNew
<1>4. ASSUME lastFull = NoSnapshot, fullBase # NoSnapshot PROVE NewBase(job, P, D, fullBase)
  <2>1. \A i \in DOMAIN D[1] : ~IsFull(D[1][i])
    BY <1>2, <1>4, NoLastFull
  <2> QED BY <1>3, <1>4, <2>1 DEF NewBase
<1>5. ASSUME NewerThanBehind(fullBase, last) PROVE NewBase(job, P, D, fullBase)
  <2>1. fullBase # NoSnapshot /\ \E i \in DOMAIN last : After(fullBase, last[i])
    BY <1>5 DEF NewerThanBehind
  <2> HIDE DEF fullBase
  <2>2. \E i \in DOMAIN D : After(fullBase, LastOf(D[i]))
    BY <2>1
  <2> QED BY <1>3, <2>1, <2>2 DEF NewBase
<1>6. Planned(job, P, D, q)
  BY IncrementalPlanned
<1> HIDE DEF p, q, fullBase
<1>7. Planned(job, P, D, p)
  BY <1>1, <1>4, <1>5, <1>6, CasesPlanned
<1> QED BY <1>7 DEF p

\* Either a partial set is completed, or the plan is for a new one.
Decided(job, P, D, completable, p) ==
    \/ job.mode # "full" /\ completable /\ partialSet(D) # NoBackup /\ p = planPartial(partialSet(D))
    \/ /\ Planned(job, P, D, p)
       /\ job.mode # "full" /\ completable /\ partialSet(D) # NoBackup => p = Error("no snapshots")

\* Whichever the job.
LEMMA SmartPlanned ==
    ASSUME NEW job, NEW P, NEW D, Readable(P, D), NEW completable,
           job.mode \in {"full", "increment", "window"}
    PROVE  Decided(job, P, D, completable, planSmart(job, P, D, completable))
<1> DEFINE Fulls(m) == {i \in DOMAIN m : IsFull(m[i])}
           last == [i \in DOMAIN D |-> LastOf(D[i])]
           lastFull == [i \in DOMAIN D |-> NewestBase(D[i], Fulls(D[i]))]
           comparable == IF job.mode = "window" THEN lastFull ELSE last
           p == planSmart(job, P, D, completable)
<1>1. last = [i \in DOMAIN D |-> NewestBase(D[i], DOMAIN D[i])]
  BY DEF LastOf
<1>2. \/ p = Error("no snapshots") \/ p = Error("last backup in future") \/ p = Error("out of sync")
      \/ job.mode = "full" /\ p = planExplicitFull(job, P, D)
      \/ job.mode # "full" /\ partialSet(D) # NoBackup /\ completable /\ p = planPartial(partialSet(D))
      \/ /\ job.mode = "increment" /\ \A i \in DOMAIN D : Same(comparable[i], comparable[1])
         /\ p = planExplicitIncremental(job, P, D, last[1])
      \/ job.mode = "window" /\ p = planWindow(job, P, D, lastFull[1], last)
  BY <1>1 DEF planSmart
<1>3. job.mode # "full" /\ partialSet(D) # NoBackup /\ completable => p = Error("no snapshots") \/ p = planPartial(partialSet(D))
  BY DEF planSmart
<1>4. 1 \in DOMAIN D /\ last[1] = LastOf(D[1]) /\ lastFull[1] = NewestBase(D[1], Fulls(D[1]))
  BY LastTyped
<1>5. ASSUME job.mode = "increment", \A i \in DOMAIN D : Same(comparable[i], comparable[1])
      PROVE  Planned(job, P, D, planExplicitIncremental(job, P, D, last[1]))
  <2>1. \A i \in DOMAIN D : Same(LastOf(D[i]), LastOf(D[1]))
    BY <1>4, <1>5
  <2>2. Planned(job, P, D, planExplicitIncremental(job, P, D, LastOf(D[1])))
    BY <2>1, ExplicitIncrementalPlanned
  <2> QED BY <1>4, <2>2
<1>6. Planned(job, P, D, planWindow(job, P, D, lastFull[1], last))
  <2> DEFINE l == last
             f == lastFull[1]
  <2>1. f = NewestBase(D[1], {i \in DOMAIN D[1] : IsFull(D[1][i])})
    BY <1>4
  <2>2. l = [i \in DOMAIN D |-> LastOf(D[i])]
    OBVIOUS
  <2> HIDE DEF l, f
  <2>3. Planned(job, P, D, planWindow(job, P, D, f, l))
    BY <2>1, <2>2, WindowPlanned
  <2> QED BY <2>3 DEF l, f
<1>7. job.mode = "full" => Planned(job, P, D, planExplicitFull(job, P, D))
  BY ExplicitFullPlanned
<1> HIDE DEF p, last, lastFull, comparable
<1>8. \/ job.mode # "full" /\ completable /\ partialSet(D) # NoBackup /\ p = planPartial(partialSet(D))
      \/ Planned(job, P, D, p)
  BY <1>2, <1>5, <1>6, <1>7, CasesPlanned
<1>9. Decided(job, P, D, completable, p)
  BY <1>3, <1>8 DEF Decided
<1> QED BY <1>9 DEF p

\* Every incremental of a list goes forward in time.
Forward(b) == \A i \in DOMAIN b : ~IsFull(b[i]) => After(b[i].base, b[i].source)

\* The set to send goes forward in time, and continues a backup of every list whose chains
\* are whole.
Sendable(D, p) ==
    /\ p.action \in {"full", "incremental"} /\ p.base \in Snapshots
    /\ p.action = "incremental" =>
           /\ p.source \in Snapshots /\ After(p.base, p.source)
           /\ (\A i \in DOMAIN D : Unbroken(D[i])) =>
                 \A i \in DOMAIN D : \E j \in DOMAIN D[i] : Same(D[i][j].base, p.source)

\* Completing a partial set: the newest of a list, whose source is older and so in the tails
\* that the other lists are.
LEMMA PartialSendable ==
    ASSUME NEW P, NEW D, Readable(P, D), \A i \in DOMAIN D : NewestFirst(D[i]) /\ Forward(D[i]), partialSet(D) # NoBackup
    PROVE  Sendable(D, planPartial(partialSet(D)))
<1> DEFINE x == partialSet(D)
           p == planPartial(x)
<1>1. D \in Seq(Seq(Backups)) /\ D # <<>>
  BY DEF Readable
<1>2. PICK l \in DOMAIN D : /\ D[l] # <<>> /\ x = D[l][1]
                           /\ \A i \in DOMAIN D : sameSets(D[i], D[l]) \/ sameSets(D[i], Tail(D[l]))
  BY <1>1, PartialLeads
<1> DEFINE b == D[l]
<1>3. b \in Seq(Backups) /\ 1 \in DOMAIN b /\ b[1] \in Backups
  BY <1>1, <1>2
<1>4. NewestFirst(b) /\ Forward(b)
  OBVIOUS
<1>5. x \in Backups /\ x = b[1]
  BY <1>2, <1>3
<1> HIDE DEF x
<1>6. IsFull(x) => p.action = "full" /\ p.base = x.base
  BY DEF planPartial, Full, Decision
<1>7. ~IsFull(x) => p.action = "incremental" /\ p.base = x.base /\ p.source = x.source
  BY DEF planPartial, Incremental, Decision
<1> HIDE DEF p
<1>8. ASSUME ~IsFull(x) PROVE x.source \in Snapshots /\ After(x.base, x.source)
  <2>1. x.source \in Snapshots
    BY <1>5, <1>8, Keys DEF IsFull, Same
  <2>2. After(x.base, x.source)
    BY <1>3, <1>4, <1>5, <1>8 DEF Forward
  <2> QED BY <2>1, <2>2
<1>9. ASSUME ~IsFull(x), \A i \in DOMAIN D : Unbroken(D[i]), NEW i \in DOMAIN D
      PROVE  \E j \in DOMAIN D[i] : Same(D[i][j].base, x.source)
  <2>1. PICK k \in DOMAIN b : k > 1 /\ Same(b[k].base, x.source)
    <3>1. Unbroken(b)
      BY <1>9
    <3> HIDE DEF b
    <3> QED BY <1>3, <1>4, <1>5, <1>9, <3>1, ParentIsLater
  <2> HIDE DEF b
  <2>2. CASE sameSets(D[i], b)
    <3>1. k \in DOMAIN D[i] /\ sameSet(D[i][k], b[k])
      <4>1. Len(D[i]) = Len(b) /\ D[i] \in Seq(Backups) /\ \A j \in DOMAIN D[i] : sameSet(D[i][j], b[j])
        BY <1>1, <2>2 DEF sameSets
      <4> QED BY <1>3, <4>1
    <3> QED BY <2>1, <3>1 DEF sameSet, Same
  <2>3. CASE sameSets(D[i], Tail(b))
    <3>1. k - 1 \in DOMAIN D[i] /\ sameSet(D[i][k - 1], b[k])
      <4>1. Len(D[i]) = Len(Tail(b)) /\ D[i] \in Seq(Backups) /\ \A j \in DOMAIN D[i] : sameSet(D[i][j], Tail(b)[j])
        BY <1>1, <2>3 DEF sameSets
      <4>2. b # <<>> /\ Len(b) \in Nat /\ k \in 1..Len(b) /\ DOMAIN D[i] = 1..Len(D[i])
        BY <1>3, <4>1
      <4>3. Len(Tail(b)) = Len(b) - 1 /\ \A j \in 1..(Len(b) - 1) : Tail(b)[j] = b[j + 1]
        BY <1>3, <4>2
      <4>4. k - 1 \in 1..(Len(b) - 1) /\ (k - 1) + 1 = k
        BY <2>1, <4>2
      <4>5. k - 1 \in DOMAIN D[i] /\ Tail(b)[k - 1] = b[k]
        BY <4>1, <4>2, <4>3, <4>4
      <4> QED BY <4>1, <4>5
    <3> QED BY <2>1, <3>1 DEF sameSet, Same
  <2> QED BY <1>2, <2>2, <2>3 DEF b
<1>10. Sendable(D, p)
  BY <1>5, <1>6, <1>7, <1>8, <1>9, Keys DEF Sendable
<1> QED BY <1>10 DEF p, x

\* A plan for a new set: its source is the last backup of every list.
LEMMA NewSendable ==
    ASSUME NEW job, NEW P, NEW D, Readable(P, D), NEW p, Planned(job, P, D, p), p.action \notin {"noop", "error"}
    PROVE  Sendable(D, p)
<1>1. NewBase(job, P, D, p.base) /\ p.action \in {"full", "incremental"}
      /\ (p.action = "incremental" => Continues(D, p.base, p.source))
  BY DEF Planned
<1>2. p.base \in Snapshots
  BY <1>1 DEF NewBase, Readable, ToSet
<1>3. ASSUME p.action = "incremental", NEW i \in DOMAIN D
      PROVE  \E j \in DOMAIN D[i] : Same(D[i][j].base, p.source)
  <2>1. LastOf(D[i]) \in Snapshots /\ Same(LastOf(D[i]), p.source)
    BY <1>1, <1>3 DEF Continues
  <2>2. D[i] \in Seq(Backups)
    BY LastTyped
  <2>3. D[i] # <<>>
    BY <2>1, <2>2, LastBase, TakenSnapshot DEF LastOf
  <2>4. LastOf(D[i]) = D[i][1].base /\ 1 \in DOMAIN D[i]
    BY <2>2, <2>3, LastBase DEF LastOf
  <2> QED BY <2>1, <2>4
<1> QED BY <1>1, <1>2, <1>3 DEF Sendable, Continues

\* The lists without wrong dates.
Dropped(t, seen) == [i \in DOMAIN seen |-> dropFutureDated(t, seen[i])]

\* They are lists still.
LEMMA DroppedReadable ==
    ASSUME NEW listed, NEW seen, Readable(listed, seen), NEW t
    PROVE  /\ Readable(dropFutureDated(t, listed), Dropped(t, seen))
           /\ DOMAIN Dropped(t, seen) = DOMAIN seen
           /\ \A i \in DOMAIN seen : Dropped(t, seen)[i] = dropFutureDated(t, seen[i]) /\ seen[i] \in Seq(Backups)
<1>1. listed \in Seq(Snapshots) /\ seen \in Seq(Seq(Backups)) /\ seen # <<>>
  BY DEF Readable
<1>2. dropFutureDated(t, listed) \in Seq(Snapshots)
  BY <1>1, DropTyped
<1>3. \A i \in DOMAIN seen : seen[i] \in Seq(Backups)
  BY <1>1
<1>4. \A i \in DOMAIN seen : dropFutureDated(t, seen[i]) \in Seq(Backups)
  BY <1>3, DropTyped
<1>5. DOMAIN seen = 1..Len(seen) /\ Len(seen) \in Nat /\ Len(seen) # 0
  BY <1>1
<1>6. Dropped(t, seen) \in [1..Len(seen) -> Seq(Backups)]
  BY <1>4, <1>5 DEF Dropped
<1>7. Dropped(t, seen) \in Seq(Seq(Backups)) /\ Dropped(t, seen) # <<>>
  BY <1>5, <1>6
<1> QED BY <1>2, <1>3, <1>7 DEF Readable, Dropped

\* The planner's promise: what planSmartAt decides to send from any lists it may read can be sent.
LEMMA PlanAtSendable ==
    ASSUME NEW job, job.mode \in {"full", "increment", "window"}, NEW listed, NEW seen, Readable(listed, seen),
           NEW t \in Nat, NEW c, \A i \in DOMAIN seen : NewestFirst(seen[i]) /\ Forward(seen[i]),
           NEW p, p = planSmartAt(t, job, listed, seen, c), p.action \notin {"noop", "error"}
    PROVE  Sendable(seen, p)
<1> DEFINE P == dropFutureDated(t, listed)
           D == Dropped(t, seen)
<1>1. Readable(P, D) /\ DOMAIN D = DOMAIN seen /\ \A i \in DOMAIN seen : D[i] = dropFutureDated(t, seen[i]) /\ seen[i] \in Seq(Backups)
  BY DroppedReadable
<1>2. p = planSmart(job, P, D, c)
  BY DEF planSmartAt, Dropped
<1> HIDE DEF P, D
<1>0. \A x \in Backups : Dated(x) \in Nat
  BY DatedBackup
<1>3. ASSUME NEW i \in DOMAIN seen
      PROVE  /\ NewestFirst(D[i]) /\ Forward(D[i])
             /\ \A j \in DOMAIN D[i] : \E k \in DOMAIN seen[i] : D[i][j] = seen[i][k]
             /\ Unbroken(seen[i]) => Unbroken(D[i])
  <2>1. NewestFirst(D[i])
    BY <1>0, <1>1, NotFuture
  <2>2. \A j \in DOMAIN D[i] : \E k \in DOMAIN seen[i] : D[i][j] = seen[i][k]
    BY <1>1, DropTyped
  <2>3. Forward(D[i])
    BY <2>2 DEF Forward
  <2>4. Unbroken(seen[i]) => Unbroken(D[i])
    BY <1>1, DropUnbroken
  <2> QED BY <2>1, <2>2, <2>3, <2>4
<1>4. Sendable(D, p)
  <2>1. \A i \in DOMAIN D : NewestFirst(D[i]) /\ Forward(D[i])
    BY <1>1, <1>3
  <2>2. CASE partialSet(D) # NoBackup /\ p = planPartial(partialSet(D))
    BY <1>1, <2>1, <2>2, PartialSendable
  <2>3. CASE Planned(job, P, D, p)
    BY <1>1, <2>3, NewSendable
  <2>4. \/ partialSet(D) # NoBackup /\ p = planPartial(partialSet(D))
        \/ Planned(job, P, D, p)
    <3>1. Decided(job, P, D, c, planSmart(job, P, D, c))
      BY <1>1, SmartPlanned
    <3> QED BY <1>2, <3>1 DEF Decided
  <2> QED BY <2>2, <2>3, <2>4
<1>5. ASSUME p.action = "incremental", \A i \in DOMAIN seen : Unbroken(seen[i]), NEW i \in DOMAIN seen
      PROVE  \E k \in DOMAIN seen[i] : Same(seen[i][k].base, p.source)
  <2>1. \A d \in DOMAIN D : Unbroken(D[d])
    BY <1>1, <1>3, <1>5
  <2>2. PICK j \in DOMAIN D[i] : Same(D[i][j].base, p.source)
    BY <1>1, <1>4, <1>5, <2>1 DEF Sendable
  <2> QED BY <1>3, <2>2
<1> QED BY <1>4, <1>5 DEF Sendable

-----------------------------------------------------------------------------
(* Chains: the steps of the pool.                                          *)

\* The invariant of the chains, with the one about sets it rests on.
Whole == Inv /\ Typed /\ Chains

\* What every scenario is assumed to be.
LEMMA JobFacts ==
    ASSUME Shape
    PROVE  /\ scenario.dests \in Nat \ {0} /\ scenario.overlap \in Nat \ {0} /\ scenario.max.time \in Nat \ {0}
           /\ \A j \in scenario.jobs : j.mode \in {"full", "increment", "window"} /\ j.raw \in BOOLEAN
           /\ \A b \in scenario.batches : b \in Seq(Kinds) /\ b # <<>>
           /\ scenario.steps \subseteq Nat \ {0}
BY SmartAssumption DEF Shape

\* A run that is idle knows nothing.
LEMMA IdleRun ==
    ASSUME NEW me, me.pc = "idle"
    PROVE  TypedRun(me) /\ LinkedRun(me)
BY DEF TypedRun, LinkedRun

\* A run that has ended is idle.
LEMMA NoRunIdle == NoRun.pc = "idle"
BY DEF NoRun

\* At first.
LEMMA InitWhole == Init => Typed /\ Chains
<1> SUFFICES ASSUME Init PROVE Typed /\ Chains
  OBVIOUS
<1>0. Shape
  BY InitInv DEF Inv
<1>1. /\ now = 1 /\ pool = <<>> /\ dest = [d \in Dests |-> {}] /\ run = [r \in Runner |-> NoRun] /\ count = [c \in Counters |-> 0]
  BY DEF Init
<1>2. \A r \in Runner : TypedRun(run[r]) /\ LinkedRun(run[r])
  BY <1>1, NoRunIdle, IdleRun
<1>3. now \in 1..scenario.max.time
  BY <1>0, <1>1, JobFacts
<1>4. count \in [Counters -> Nat] /\ pool \in Seq(Snapshots)
  BY <1>1
<1>5. \A d \in Dests : IsFiniteSet(dest[d]) /\ dest[d] \subseteq Backups /\ Linked(dest[d])
  BY <1>1, FS_EmptySet DEF Linked
<1> QED BY <1>2, <1>3, <1>4, <1>5 DEF Typed, Chains

\* What a run knows stays so while nothing is lost at a destination.
LEMMA RunKept ==
    ASSUME scenario' = scenario, scenario.dests \in Nat, NEW me
    PROVE  /\ TypedRun(me) => TypedRun(me)'
           /\ (\A d \in Dests : dest[d] \subseteq dest'[d]) /\ TypedRun(me) /\ LinkedRun(me) => LinkedRun(me)'
<1>1. Dests' = Dests /\ Kept' = Kept
  BY DEF Dests, Kept
<1>2. \A M : Linked(M)' = Linked(M)
  BY <1>1 DEF Linked
<1>3. TypedRun(me) => TypedRun(me)'
  BY DEF TypedRun
<1>4. ASSUME \A d \in Dests : dest[d] \subseteq dest'[d], LinkedRun(me), TypedRun(me) PROVE LinkedRun(me)'
  <2>1. \A base, source : LinkedEverywhere(base, source) => LinkedEverywhere(base, source)'
    BY <1>1, <1>4 DEF LinkedEverywhere
  <2>2. me.pc = "list" => \A d \in DOMAIN me.seen : d \in Dests
    <3>1. me.pc = "list" => me.seen \in Seq(Seq(Backups)) /\ Len(me.seen) <= scenario.dests
      BY <1>4 DEF TypedRun
    <3>2. \A s \in Seq(Seq(Backups)) : Len(s) <= scenario.dests => \A d \in DOMAIN s : d \in Dests
      BY DEF Dests
    <3> QED BY <3>1, <3>2
  <2> QED BY <1>1, <1>2, <1>4, <2>1, <2>2 DEF LinkedRun
<1> QED BY <1>3, <1>4

\* A step that loses nothing at a destination.
LEMMA GrowthWhole ==
    ASSUME Whole, scenario' = scenario, now' \in 1..scenario.max.time, count' \in [Counters -> Nat],
           pool' \in Seq(Snapshots),
           \A d \in Dests : /\ dest[d] \subseteq dest'[d] /\ IsFiniteSet(dest'[d]) /\ dest'[d] \subseteq Backups
                            /\ Linked(dest'[d]),
           \A r \in Runner : run'[r] = run[r] \/ (TypedRun(run'[r]) /\ LinkedRun(run'[r]))
    PROVE  Typed' /\ Chains'
<1>0. scenario.dests \in Nat
  BY JobFacts DEF Whole, Inv
<1>1. Dests' = Dests /\ Kept' = Kept
  BY DEF Dests, Kept
<1>2. \A M : Linked(M)' = Linked(M)
  BY <1>1 DEF Linked
<1>3. \A r \in Runner : TypedRun(run[r]) /\ LinkedRun(run[r])
  BY DEF Whole, Typed, Chains
<1>4. \A r \in Runner : TypedRun(run[r])' /\ LinkedRun(run[r])'
  <2> SUFFICES ASSUME NEW r \in Runner PROVE TypedRun(run[r])' /\ LinkedRun(run[r])'
    OBVIOUS
  <2>1. PICK me : me = run'[r]
    OBVIOUS
  <2>2. TypedRun(me) /\ LinkedRun(me)
    BY <1>3, <2>1
  <2>3. TypedRun(me)' /\ LinkedRun(me)'
    BY <1>0, <2>2, RunKept
  <2> QED BY <2>1, <2>3
<1>6. Typed'
  BY <1>1, <1>4 DEF Typed
<1>7. Chains'
  <2>1. \A d \in Dests : Linked(dest[d])'
    BY <1>2
  <2> QED BY <1>1, <1>4, <2>1 DEF Chains
<1> QED BY <1>6, <1>7

\* A step that leaves the destinations as they are.
LEMMA PlanningWhole ==
    ASSUME Whole, scenario' = scenario, dest' = dest, now' \in 1..scenario.max.time, count' \in [Counters -> Nat],
           pool' \in Seq(Snapshots),
           \A r \in Runner : run'[r] = run[r] \/ (TypedRun(run'[r]) /\ LinkedRun(run'[r]))
    PROVE  Typed' /\ Chains'
<1>1. \A d \in Dests : IsFiniteSet(dest[d]) /\ dest[d] \subseteq Backups /\ Linked(dest[d])
  BY DEF Whole, Typed, Chains
<1>2. \A d \in Dests : /\ dest[d] \subseteq dest'[d] /\ IsFiniteSet(dest'[d]) /\ dest'[d] \subseteq Backups
                       /\ Linked(dest'[d])
  BY <1>1
<1> QED BY <1>2, GrowthWhole

\* A step of a run that leaves the pool and the destinations as they are.
LEMMA RunWhole ==
    ASSUME Whole, scenario' = scenario, UNCHANGED <<dest, now, pool>>, count' \in [Counters -> Nat],
           NEW r \in Runner, NEW new, Set(r, new), TypedRun(new), LinkedRun(new)
    PROVE  Typed' /\ Chains'
<1>1. run'[r] = new /\ \A q \in Runner : q # r => run'[q] = run[q]
  BY SetFacts DEF Whole
<1>2. now \in 1..scenario.max.time /\ pool \in Seq(Snapshots)
  BY DEF Whole, Typed
<1> QED BY <1>1, <1>2, PlanningWhole

\* Two lists one after the other.
LEMMA Joined ==
    ASSUME NEW T, NEW A \in Seq(T), NEW B \in Seq(T)
    PROVE  /\ A \o B \in Seq(T)
           /\ ToSet(A \o B) = ToSet(A) \cup ToSet(B)
           /\ /\ NewestFirst(A) /\ NewestFirst(B) /\ \A x \in ToSet(A), y \in ToSet(B) : Dated(y) <= Dated(x)
              => NewestFirst(A \o B)
<1> DEFINE C == A \o B
           a == Len(A)
           b == Len(B)
<1>0. a \in Nat /\ b \in Nat /\ DOMAIN A = 1..a /\ DOMAIN B = 1..b
  OBVIOUS
<1>1. C \in Seq(T) /\ DOMAIN C = 1..(a + b)
  OBVIOUS
<1>2. (\A i \in 1..a : C[i] = A[i]) /\ (\A i \in 1..b : C[a + i] = B[i])
  OBVIOUS
<1>3. \A i \in 1..(a + b) : i \in 1..a \/ (i - a \in 1..b /\ a + (i - a) = i)
  BY <1>0
<1>4. \A i \in 1..b : a + i \in 1..(a + b)
  BY <1>0
<1>5. \A i \in 1..a : i \in 1..(a + b)
  BY <1>0
<1> HIDE DEF C, a, b
<1>6. ToSet(C) = ToSet(A) \cup ToSet(B)
  <2>1. ASSUME NEW x \in ToSet(C) PROVE x \in ToSet(A) \cup ToSet(B)
    <3>1. PICK i \in 1..(a + b) : x = C[i]
      BY <1>1 DEF ToSet
    <3>2. CASE i \in 1..a
      BY <1>0, <1>2, <3>1, <3>2 DEF ToSet
    <3>3. CASE i - a \in 1..b /\ a + (i - a) = i
      <4>1. PICK k \in 1..b : a + k = i
        BY <3>3
      <4>2. x = B[k]
        BY <1>2, <3>1, <4>1
      <4> QED BY <1>0, <4>1, <4>2 DEF ToSet
    <3> QED BY <1>3, <3>2, <3>3
  <2>2. ASSUME NEW x \in ToSet(A) PROVE x \in ToSet(C)
    BY <1>0, <1>1, <1>2, <1>5 DEF ToSet
  <2>3. ASSUME NEW x \in ToSet(B) PROVE x \in ToSet(C)
    <3>1. PICK k \in 1..b : x = B[k]
      BY <1>0 DEF ToSet
    <3>2. C[a + k] = x /\ a + k \in DOMAIN C
      BY <1>1, <1>2, <1>4, <3>1
    <3> QED BY <3>2 DEF ToSet
  <2> QED BY <2>1, <2>2, <2>3
<1>7. ASSUME NewestFirst(A), NewestFirst(B), \A x \in ToSet(A), y \in ToSet(B) : Dated(y) <= Dated(x)
      PROVE  NewestFirst(C)
  <2> SUFFICES ASSUME NEW i \in 1..(a + b), NEW j \in 1..(a + b), i < j PROVE Dated(C[j]) <= Dated(C[i])
    BY <1>1 DEF NewestFirst
  <2>1. CASE i \in 1..a /\ j \in 1..a
    BY <1>0, <1>2, <1>7, <2>1 DEF NewestFirst
  <2>2. CASE i \in 1..a /\ j \notin 1..a
    <3>1. PICK k \in 1..b : a + k = j
      BY <1>3, <2>2
    <3>2. C[j] = B[k] /\ C[i] = A[i]
      BY <1>2, <2>2, <3>1
    <3>3. B[k] \in ToSet(B) /\ A[i] \in ToSet(A)
      BY <1>0, <2>2 DEF ToSet
    <3> QED BY <1>7, <3>2, <3>3
  <2>3. CASE i \notin 1..a
    <3>1. j \notin 1..a
      BY <1>0, <2>3
    <3>2. PICK k \in 1..b : a + k = i
      BY <1>3, <2>3
    <3>3. PICK l \in 1..b : a + l = j
      BY <1>3, <3>1
    <3>4. k < l
      BY <1>0, <3>2, <3>3
    <3>5. C[i] = B[k] /\ C[j] = B[l]
      BY <1>2, <3>2, <3>3
    <3> QED BY <1>0, <1>7, <3>4, <3>5 DEF NewestFirst
  <2> QED BY <2>1, <2>2, <2>3
<1> QED BY <1>1, <1>6, <1>7 DEF C

\* Part of a list.
LEMMA Part ==
    ASSUME NEW T, NEW p \in Seq(T), NEW a \in Nat, NEW c \in Nat, 1 <= a, c <= Len(p)
    PROVE  /\ SubSeq(p, a, c) \in Seq(T)
           /\ \A x : x \in ToSet(SubSeq(p, a, c)) <=> \E i \in DOMAIN p : a <= i /\ i <= c /\ x = p[i]
           /\ NewestFirst(p) => NewestFirst(SubSeq(p, a, c))
<1> DEFINE S == SubSeq(p, a, c)
           n == Len(S)
<1>1. S \in Seq(T) /\ n \in Nat /\ DOMAIN S = 1..n /\ DOMAIN p = 1..Len(p) /\ Len(p) \in Nat
  OBVIOUS
<1>2. n = IF a <= c THEN c - a + 1 ELSE 0
  OBVIOUS
<1>3. \A i \in 1..n : S[i] = p[a + i - 1]
  OBVIOUS
<1> HIDE DEF n
<1>4. \A i \in 1..n : a + i - 1 \in DOMAIN p /\ a <= a + i - 1 /\ a + i - 1 <= c
  BY <1>1, <1>2
<1>5. \A i \in DOMAIN p : a <= i /\ i <= c => i - a + 1 \in 1..n /\ a + (i - a + 1) - 1 = i
  BY <1>1, <1>2
<1> HIDE DEF S
<1>6. ASSUME NEW x PROVE x \in ToSet(S) <=> \E i \in DOMAIN p : a <= i /\ i <= c /\ x = p[i]
  <2>1. ASSUME NEW k \in 1..n, x = S[k] PROVE \E i \in DOMAIN p : a <= i /\ i <= c /\ x = p[i]
    BY <1>3, <1>4, <2>1
  <2>2. ASSUME NEW i \in DOMAIN p, a <= i, i <= c, x = p[i] PROVE x \in ToSet(S)
    <3>1. PICK k \in 1..n : a + k - 1 = i
      BY <1>5, <2>2
    <3>2. x = S[k]
      BY <1>3, <2>2, <3>1
    <3> QED BY <1>1, <3>2 DEF ToSet
  <2> QED BY <1>1, <2>1, <2>2 DEF ToSet
<1>7. ASSUME NewestFirst(p) PROVE NewestFirst(S)
  <2> SUFFICES ASSUME NEW i \in 1..n, NEW j \in 1..n, i < j PROVE Dated(S[j]) <= Dated(S[i])
    BY <1>1 DEF NewestFirst
  <2>1. PICK k \in DOMAIN p : k = a + i - 1
    BY <1>4
  <2>2. PICK l \in DOMAIN p : l = a + j - 1
    BY <1>4
  <2>3. k < l
    BY <1>1, <2>1, <2>2
  <2>4. S[i] = p[k] /\ S[j] = p[l]
    BY <1>3, <2>1, <2>2
  <2> QED BY <1>7, <2>3, <2>4 DEF NewestFirst
<1> QED BY <1>1, <1>6, <1>7 DEF S

\* The later snapshots of a list come first.
LEMMA LaterSnapshots ==
    ASSUME NEW p \in Seq(Snapshots), NewestFirst(p), NEW h \in Nat
    PROVE  LET F == {i \in DOMAIN p : Dated(p[i]) > h} IN F = 1..Cardinality(F)
<1>1. PICK F : F = {i \in DOMAIN p : Dated(p[i]) > h}
  OBVIOUS
<1>2. \A x \in Snapshots : Dated(x) \in Nat
  BY DatedSnapshot
<1>3. F = 1..Cardinality(F)
  BY <1>1, <1>2, LaterFirst, SMTT(30)
<1> QED BY <1>1, <1>3

\* Snapshots of one time go in before those that are not newer.
LEMMA InsertFacts ==
    ASSUME NEW p \in Seq(Snapshots), NEW ss \in Seq(Snapshots), ss # <<>>, \A i \in DOMAIN ss : ss[i].time = ss[1].time
    PROVE  /\ Insert(p, ss) \in Seq(Snapshots)
           /\ ToSet(Insert(p, ss)) = ToSet(p) \cup ToSet(ss)
           /\ NewestFirst(p) => NewestFirst(Insert(p, ss))
<1> DEFINE h == ss[1].time
           F == {i \in DOMAIN p : p[i].time > h}
           k == Cardinality(F)
           n == Len(p)
           A == SubSeq(p, 1, k)
           C == SubSeq(p, k + 1, n)
<1>1. Insert(p, ss) = A \o ss \o C
  BY DEF Insert
<1>2. h \in Nat /\ n \in Nat /\ DOMAIN p = 1..n
  <2>1. 1 \in DOMAIN ss
    OBVIOUS
  <2>2. ss[1] \in Snapshots
    BY <2>1
  <2> QED BY <2>2, TakenSnapshot
<1>3. F \in SUBSET (1..n) /\ IsFiniteSet(1..n) /\ Cardinality(1..n) = n
  BY <1>2, CountTo
<1>4. k \in Nat /\ k <= n
  BY <1>2, <1>3, FS_Subset, FS_CardinalityType
<1>5. \A i \in DOMAIN p : Dated(p[i]) = p[i].time /\ p[i].time \in Nat
  BY DatedSnapshot
<1>6. \A i \in DOMAIN ss : Dated(ss[i]) = h
  BY DatedSnapshot
<1> HIDE DEF h, F, k
<1>7. /\ A \in Seq(Snapshots) /\ C \in Seq(Snapshots)
      /\ \A x : x \in ToSet(A) <=> \E i \in DOMAIN p : 1 <= i /\ i <= k /\ x = p[i]
      /\ \A x : x \in ToSet(C) <=> \E i \in DOMAIN p : k + 1 <= i /\ i <= n /\ x = p[i]
      /\ NewestFirst(p) => NewestFirst(A) /\ NewestFirst(C)
  <2>1. PICK l \in Nat : l = k + 1
    BY <1>4
  <2>2. 1 <= l /\ 1 <= 1 /\ n <= n
    BY <1>2, <1>4, <2>1
  <2>3. /\ A \in Seq(Snapshots) /\ (NewestFirst(p) => NewestFirst(A))
        /\ \A x : x \in ToSet(A) <=> \E i \in DOMAIN p : 1 <= i /\ i <= k /\ x = p[i]
    BY <1>2, <1>4, <2>2, Part
  <2>4. /\ SubSeq(p, l, n) \in Seq(Snapshots) /\ (NewestFirst(p) => NewestFirst(SubSeq(p, l, n)))
        /\ \A x : x \in ToSet(SubSeq(p, l, n)) <=> \E i \in DOMAIN p : l <= i /\ i <= n /\ x = p[i]
    BY <1>2, <2>2, Part
  <2> QED BY <2>1, <2>3, <2>4
<1> HIDE DEF A, C
<1>8. ToSet(A) \cup ToSet(C) = ToSet(p)
  <2>1. \A i \in DOMAIN p : (1 <= i /\ i <= k) \/ (k + 1 <= i /\ i <= n)
    BY <1>2, <1>4
  <2> QED BY <1>7, <2>1 DEF ToSet
<1> DEFINE B == A \o ss
<1>9. B \in Seq(Snapshots) /\ ToSet(B) = ToSet(A) \cup ToSet(ss)
  BY <1>7, Joined
<1>10. B \o C \in Seq(Snapshots) /\ ToSet(B \o C) = ToSet(B) \cup ToSet(C)
  <2> HIDE DEF B
  <2> QED BY <1>7, <1>9, Joined
<1>11. ASSUME NewestFirst(p) PROVE NewestFirst(B \o C)
  <2>1. F = 1..k
    <3>1. F = {i \in DOMAIN p : Dated(p[i]) > h}
      BY <1>5 DEF F
    <3>2. LET G == {i \in DOMAIN p : Dated(p[i]) > h} IN G = 1..Cardinality(G)
      BY <1>2, <1>11, LaterSnapshots
    <3>3. F = 1..Cardinality(F)
      BY <3>1, <3>2
    <3> QED BY <3>3 DEF k
  <2>2. \A x \in ToSet(A) : Dated(x) > h /\ Dated(x) \in Nat
    <3> SUFFICES ASSUME NEW x \in ToSet(A) PROVE Dated(x) > h /\ Dated(x) \in Nat
      OBVIOUS
    <3>1. PICK i \in DOMAIN p : 1 <= i /\ i <= k /\ x = p[i]
      BY <1>7
    <3>2. i \in F
      BY <1>2, <1>4, <2>1, <3>1
    <3> QED BY <1>5, <3>1, <3>2 DEF F
  <2>3. \A x \in ToSet(C) : Dated(x) <= h /\ Dated(x) \in Nat
    <3> SUFFICES ASSUME NEW x \in ToSet(C) PROVE Dated(x) <= h /\ Dated(x) \in Nat
      OBVIOUS
    <3>1. PICK i \in DOMAIN p : k + 1 <= i /\ i <= n /\ x = p[i]
      BY <1>7
    <3>2. i \notin F
      BY <1>2, <1>4, <2>1, <3>1
    <3>3. ~(p[i].time > h)
      BY <3>2 DEF F
    <3> QED BY <1>2, <1>5, <3>1, <3>3
  <2>4. \A x \in ToSet(ss) : Dated(x) = h
    BY <1>6 DEF ToSet
  <2>5. NewestFirst(ss)
    BY <1>2, <1>6 DEF NewestFirst
  <2>6. NewestFirst(B)
    <3>1. \A x \in ToSet(A), y \in ToSet(ss) : Dated(y) <= Dated(x)
      BY <1>2, <2>2, <2>4
    <3> QED BY <1>7, <1>11, <2>5, <3>1, Joined
  <2>7. \A x \in ToSet(B), y \in ToSet(C) : Dated(y) <= Dated(x)
    <3>1. \A x \in ToSet(B) : x \in ToSet(A) \/ x \in ToSet(ss)
      BY <1>9
    <3> QED BY <1>2, <2>2, <2>3, <2>4, <3>1
  <2> HIDE DEF B
  <2> QED BY <1>7, <1>9, <1>11, <2>6, <2>7, Joined
<1> QED BY <1>1, <1>8, <1>9, <1>10, <1>11

\* A snapshot and its bookmark are of one time.
LEMMA BookmarkFacts ==
    ASSUME NEW p \in Seq(Snapshots), NEW i \in DOMAIN p, NEW e \in Snapshots, e.time = p[i].time
    PROVE  /\ InsertAt(p, i, e) \in Seq(Snapshots)
           /\ ToSet(InsertAt(p, i, e)) = ToSet(p) \cup {e}
           /\ NewestFirst(p) => NewestFirst(InsertAt(p, i, e))
<1> DEFINE n == Len(p)
           k == i - 1
           A == SubSeq(p, 1, k)
           C == SubSeq(p, i, n)
           B == A \o <<e>>
<1>1. InsertAt(p, i, e) = B \o C
  BY DEF InsertAt
<1>2. n \in Nat /\ DOMAIN p = 1..n /\ i \in Nat /\ k \in Nat /\ k <= n /\ 1 <= i /\ 1 <= 1 /\ n <= n
  OBVIOUS
<1>3. \A j \in DOMAIN p : Dated(p[j]) = p[j].time /\ p[j].time \in Nat
  BY DatedSnapshot
<1>4. Dated(e) = p[i].time
  BY DatedSnapshot
<1>5. <<e>> \in Seq(Snapshots) /\ ToSet(<<e>>) = {e} /\ NewestFirst(<<e>>)
  BY DEF ToSet, NewestFirst
<1> HIDE DEF k, n
<1>6. /\ A \in Seq(Snapshots) /\ (NewestFirst(p) => NewestFirst(A))
      /\ \A x : x \in ToSet(A) <=> \E j \in DOMAIN p : 1 <= j /\ j <= k /\ x = p[j]
  BY <1>2, Part DEF n
<1>7. /\ C \in Seq(Snapshots) /\ (NewestFirst(p) => NewestFirst(C))
      /\ \A x : x \in ToSet(C) <=> \E j \in DOMAIN p : i <= j /\ j <= n /\ x = p[j]
  BY <1>2, Part DEF n
<1> HIDE DEF A, C
<1>8. ToSet(A) \cup ToSet(C) = ToSet(p)
  <2>1. \A j \in DOMAIN p : (1 <= j /\ j <= k) \/ (i <= j /\ j <= n)
    BY <1>2 DEF k
  <2> QED BY <1>6, <1>7, <2>1 DEF ToSet
<1>9. B \in Seq(Snapshots) /\ ToSet(B) = ToSet(A) \cup {e}
  <2>1. PICK E : E = <<e>>
    OBVIOUS
  <2>2. A \o E \in Seq(Snapshots) /\ ToSet(A \o E) = ToSet(A) \cup ToSet(E)
    <3>1. E \in Seq(Snapshots)
      BY <1>5, <2>1
    <3> QED BY <1>6, <3>1, Joined
  <2> QED BY <1>5, <2>1, <2>2
<1>10. B \o C \in Seq(Snapshots) /\ ToSet(B \o C) = ToSet(B) \cup ToSet(C)
  <2> HIDE DEF B
  <2> QED BY <1>7, <1>9, Joined
<1>11. ASSUME NewestFirst(p) PROVE NewestFirst(B \o C)
  <2>1. \A x \in ToSet(A) : p[i].time <= Dated(x) /\ Dated(x) \in Nat
    <3> SUFFICES ASSUME NEW x \in ToSet(A) PROVE p[i].time <= Dated(x) /\ Dated(x) \in Nat
      OBVIOUS
    <3>1. PICK j \in DOMAIN p : 1 <= j /\ j <= k /\ x = p[j]
      BY <1>6
    <3>2. j < i
      BY <1>2, <3>1 DEF k
    <3> QED BY <1>3, <1>11, <3>1, <3>2 DEF NewestFirst
  <2>2. \A x \in ToSet(C) : Dated(x) <= p[i].time /\ Dated(x) \in Nat
    <3> SUFFICES ASSUME NEW x \in ToSet(C) PROVE Dated(x) <= p[i].time /\ Dated(x) \in Nat
      OBVIOUS
    <3>1. PICK j \in DOMAIN p : i <= j /\ j <= n /\ x = p[j]
      BY <1>7
    <3>2. j = i \/ i < j
      BY <1>2, <3>1
    <3> QED BY <1>3, <1>11, <3>1, <3>2 DEF NewestFirst
  <2>3. NewestFirst(B)
    <3>1. \A x \in ToSet(A), y \in ToSet(<<e>>) : Dated(y) <= Dated(x)
      BY <1>4, <1>5, <2>1
    <3> QED BY <1>5, <1>6, <1>11, <3>1, Joined
  <2>4. \A x \in ToSet(B), y \in ToSet(C) : Dated(y) <= Dated(x)
    <3>1. \A x \in ToSet(B) : x \in ToSet(A) \/ x = e
      BY <1>9
    <3>2. p[i].time \in Nat
      BY <1>3
    <3> HIDE DEF B
    <3> QED BY <1>4, <2>1, <2>2, <3>1, <3>2
  <2> HIDE DEF B
  <2> QED BY <1>7, <1>9, <1>11, <2>3, <2>4, Joined
<1> QED BY <1>1, <1>8, <1>9, <1>10, <1>11

\* Removing one of a list.
LEMMA PruneFacts ==
    ASSUME NEW p \in Seq(Snapshots), NEW i \in DOMAIN p
    PROVE  /\ RemoveAt(p, i) \in Seq(Snapshots)
           /\ ToSet(RemoveAt(p, i)) \subseteq ToSet(p)
           /\ \A x \in ToSet(p) : x # p[i] => x \in ToSet(RemoveAt(p, i))
           /\ NewestFirst(p) => NewestFirst(RemoveAt(p, i))
<1> DEFINE n == Len(p)
           k == i - 1
           l == i + 1
           A == SubSeq(p, 1, k)
           C == SubSeq(p, l, n)
<1>1. RemoveAt(p, i) = A \o C
  BY DEF RemoveAt
<1>2. n \in Nat /\ DOMAIN p = 1..n /\ i \in Nat /\ k \in Nat /\ k <= n /\ l \in Nat /\ 1 <= l /\ 1 <= 1 /\ n <= n
  OBVIOUS
<1>3. \A j \in DOMAIN p : Dated(p[j]) = p[j].time /\ p[j].time \in Nat
  BY DatedSnapshot
<1> HIDE DEF k, n, l
<1>6. /\ A \in Seq(Snapshots) /\ (NewestFirst(p) => NewestFirst(A))
      /\ \A x : x \in ToSet(A) <=> \E j \in DOMAIN p : 1 <= j /\ j <= k /\ x = p[j]
  BY <1>2, Part DEF n
<1>7. /\ C \in Seq(Snapshots) /\ (NewestFirst(p) => NewestFirst(C))
      /\ \A x : x \in ToSet(C) <=> \E j \in DOMAIN p : l <= j /\ j <= n /\ x = p[j]
  BY <1>2, Part DEF n
<1> HIDE DEF A, C
<1>8. \A j \in DOMAIN p : j = i \/ (1 <= j /\ j <= k) \/ (l <= j /\ j <= n)
  BY <1>2 DEF k, l
<1>9. ToSet(A) \cup ToSet(C) \subseteq ToSet(p)
  BY <1>6, <1>7 DEF ToSet
<1>10. \A x \in ToSet(p) : x # p[i] => x \in ToSet(A) \cup ToSet(C)
  BY <1>6, <1>7, <1>8 DEF ToSet
<1>11. A \o C \in Seq(Snapshots) /\ ToSet(A \o C) = ToSet(A) \cup ToSet(C)
  BY <1>6, <1>7, Joined
<1>12. ASSUME NewestFirst(p) PROVE NewestFirst(A \o C)
  <2>1. \A x \in ToSet(A), y \in ToSet(C) : Dated(y) <= Dated(x)
    <3> SUFFICES ASSUME NEW x \in ToSet(A), NEW y \in ToSet(C) PROVE Dated(y) <= Dated(x)
      OBVIOUS
    <3>1. PICK j \in DOMAIN p : 1 <= j /\ j <= k /\ x = p[j]
      BY <1>6
    <3>2. PICK m \in DOMAIN p : l <= m /\ m <= n /\ y = p[m]
      BY <1>7
    <3>3. j < m
      BY <1>2, <3>1, <3>2 DEF k, l
    <3> QED BY <1>12, <3>1, <3>2, <3>3 DEF NewestFirst
  <2> QED BY <1>6, <1>7, <1>12, <2>1, Joined
<1> QED BY <1>1, <1>9, <1>10, <1>11, <1>12

\* Counters stay numbers.
LEMMA BumpTyped ==
    ASSUME Typed, NEW c \in Counters, Bump(c)
    PROVE  count' \in [Counters -> Nat]
BY DEF Typed, Bump

\* The pool's steps.
LEMMA TakeSnapshotsWhole ==
    ASSUME Whole, scenario' = scenario, NEW ks \in scenario.batches, NEW step \in scenario.steps, TakeSnapshots(ks, step)
    PROVE  /\ Typed' /\ Chains'
           /\ now' \in Nat /\ now < now' /\ UNCHANGED <<dest, vols, run>>
           /\ ToSet(pool) \subseteq ToSet(pool') /\ (\A s \in ToSet(pool') \ ToSet(pool) : s.time = now')
           /\ (NewestFirst(pool) => NewestFirst(pool'))
<1> DEFINE ss == [i \in DOMAIN ks |-> Snap(ks[i], now')]
<1>1. /\ now + step <= scenario.max.time /\ now' = now + step /\ pool' = Insert(pool, ss)
      /\ UNCHANGED <<dest, vols, run, count>>
  BY DEF TakeSnapshots
<1>2. ks \in Seq(Kinds) /\ ks # <<>> /\ step \in Nat \ {0} /\ scenario.max.time \in Nat
  BY JobFacts DEF Whole, Inv
<1>3. now \in 1..scenario.max.time /\ count \in [Counters -> Nat] /\ pool \in Seq(Snapshots)
  BY DEF Whole, Typed
<1>4. now' \in 1..scenario.max.time /\ now' \in Nat /\ now < now'
  BY <1>1, <1>2, <1>3
<1>5. \A i \in DOMAIN ks : Snap(ks[i], now') \in Snapshots /\ Snap(ks[i], now').time = now'
  BY <1>2, <1>4 DEF Snap, Snapshots
<1>6. DOMAIN ks = 1..Len(ks) /\ Len(ks) \in Nat /\ 1 \in DOMAIN ks
  BY <1>2
<1>7. ss \in [1..Len(ks) -> Snapshots] /\ \A i \in DOMAIN ss : ss[i].time = now'
  BY <1>5, <1>6
<1>8. ss \in Seq(Snapshots) /\ ss # <<>> /\ \A i \in DOMAIN ss : ss[i].time = ss[1].time
  BY <1>6, <1>7
<1>9. \A s \in ToSet(ss) : s.time = now'
  BY <1>7 DEF ToSet
<1> HIDE DEF ss
<1>10. pool' \in Seq(Snapshots) /\ ToSet(pool') = ToSet(pool) \cup ToSet(ss) /\ (NewestFirst(pool) => NewestFirst(pool'))
  BY <1>1, <1>3, <1>8, InsertFacts
<1>11. Typed' /\ Chains'
  BY <1>1, <1>3, <1>4, <1>10, PlanningWhole
<1> QED BY <1>1, <1>4, <1>9, <1>10, <1>11

\* A wrong clock adds one snapshot, far ahead.
LEMMA WrongClockWhole ==
    ASSUME Whole, scenario' = scenario, NEW k \in Kinds, WrongClock(k)
    PROVE  /\ Typed' /\ Chains'
           /\ UNCHANGED <<now, dest, vols, run>>
           /\ ToSet(pool) \subseteq ToSet(pool')
           /\ \A s \in ToSet(pool') \ ToSet(pool) : s.time = scenario.max.time + futureSlack + 1
           /\ (NewestFirst(pool) => NewestFirst(pool'))
<1> DEFINE t == scenario.max.time + futureSlack + 1
           ss == <<Snap(k, t)>>
<1>1. Bump("wrong") /\ pool' = Insert(pool, ss) /\ UNCHANGED <<now, dest, vols, run>>
  BY DEF WrongClock
<1>2. t \in Nat
  BY JobFacts DEF Whole, Inv, futureSlack, Hour
<1>3. now \in 1..scenario.max.time /\ pool \in Seq(Snapshots)
  BY DEF Whole, Typed
<1>4. count' \in [Counters -> Nat]
  BY <1>1, BumpTyped DEF Whole, Counters
<1> HIDE DEF t
<1>5. Snap(k, t) \in Snapshots /\ Snap(k, t).time = t
  BY <1>2 DEF Snap, Snapshots
<1>6. ss \in Seq(Snapshots) /\ ss # <<>> /\ (\A i \in DOMAIN ss : ss[i].time = ss[1].time) /\ ToSet(ss) = {Snap(k, t)}
  BY <1>5 DEF ToSet
<1> HIDE DEF ss
<1>7. pool' \in Seq(Snapshots) /\ ToSet(pool') = ToSet(pool) \cup ToSet(ss) /\ (NewestFirst(pool) => NewestFirst(pool'))
  BY <1>1, <1>3, <1>6, InsertFacts
<1>8. Typed' /\ Chains'
  BY <1>1, <1>3, <1>4, <1>7, PlanningWhole
<1>9. \A s \in ToSet(pool') \ ToSet(pool) : s.time = t
  BY <1>5, <1>6, <1>7
<1> QED BY <1>1, <1>7, <1>8, <1>9 DEF t

\* A bookmark has the time of a snapshot that is there.
LEMMA BookmarkWhole ==
    ASSUME Whole, scenario' = scenario, NEW i \in DOMAIN pool, Bookmark(i)
    PROVE  /\ Typed' /\ Chains'
           /\ UNCHANGED <<now, dest, vols, run>>
           /\ ToSet(pool) \subseteq ToSet(pool')
           /\ \A s \in ToSet(pool') : \E t \in ToSet(pool) : s.time = t.time
           /\ (NewestFirst(pool) => NewestFirst(pool'))
<1> DEFINE e == [pool[i] EXCEPT !.bookmark = TRUE]
<1>1. Bump("bookmarks") /\ pool' = InsertAt(pool, i, e) /\ UNCHANGED <<now, dest, vols, run>>
  BY DEF Bookmark
<1>3. now \in 1..scenario.max.time /\ pool \in Seq(Snapshots)
  BY DEF Whole, Typed
<1>4. count' \in [Counters -> Nat]
  BY <1>1, BumpTyped DEF Whole, Counters
<1>5. pool[i] \in Snapshots
  BY <1>3
<1>6. e \in Snapshots /\ e.time = pool[i].time
  BY <1>5 DEF Snapshots
<1> HIDE DEF e
<1>7. pool' \in Seq(Snapshots) /\ ToSet(pool') = ToSet(pool) \cup {e} /\ (NewestFirst(pool) => NewestFirst(pool'))
  BY <1>1, <1>3, <1>6, BookmarkFacts
<1>8. Typed' /\ Chains'
  BY <1>1, <1>3, <1>4, <1>7, PlanningWhole
<1>9. \A s \in ToSet(pool') : \E t \in ToSet(pool) : s.time = t.time
  <2>1. pool[i] \in ToSet(pool)
    BY DEF ToSet
  <2> QED BY <1>6, <1>7, <2>1
<1> QED BY <1>1, <1>7, <1>8, <1>9

\* What is pruned has a newer one of its kind.
LEMMA PruneWhole ==
    ASSUME Whole, scenario' = scenario, NEW i \in DOMAIN pool, Prune(i)
    PROVE  /\ Typed' /\ Chains'
           /\ UNCHANGED <<now, dest, vols, run>>
           /\ ToSet(pool') \subseteq ToSet(pool)
           /\ \A s \in ToSet(pool) : s \in ToSet(pool') \/ \E t \in ToSet(pool') : s.time <= t.time /\ t.time <= now
           /\ (NewestFirst(pool) => NewestFirst(pool'))
<1>1. /\ Bump("prunes") /\ pool' = RemoveAt(pool, i) /\ UNCHANGED <<now, dest, vols, run>>
      /\ \E s \in ToSet(pool) : s.kind = pool[i].kind /\ After(s, pool[i]) /\ s.time <= now
  BY DEF Prune
<1>3. now \in 1..scenario.max.time /\ pool \in Seq(Snapshots)
  BY DEF Whole, Typed
<1>4. count' \in [Counters -> Nat]
  BY <1>1, BumpTyped DEF Whole, Counters
<1>7. /\ pool' \in Seq(Snapshots) /\ ToSet(pool') \subseteq ToSet(pool) /\ (NewestFirst(pool) => NewestFirst(pool'))
      /\ \A x \in ToSet(pool) : x # pool[i] => x \in ToSet(pool')
  BY <1>1, <1>3, PruneFacts
<1>8. Typed' /\ Chains'
  BY <1>1, <1>3, <1>4, <1>7, PlanningWhole
<1>9. PICK t \in ToSet(pool) : After(t, pool[i]) /\ t.time <= now
  BY <1>1
<1>10. t.time \in Nat /\ pool[i].time \in Nat
  BY <1>3, TakenSnapshot DEF ToSet
<1>11. t # pool[i] /\ pool[i].time <= t.time
  BY <1>9, <1>10 DEF After
<1> QED BY <1>1, <1>7, <1>8, <1>9, <1>11

-----------------------------------------------------------------------------
(* Chains: the steps of a run.                                             *)

\* What the invariant says of a destination and of a run.
LEMMA WholeFacts ==
    ASSUME Whole
    PROVE  /\ scenario.dests \in Nat \ {0} /\ count \in [Counters -> Nat] /\ now \in Nat
           /\ \A d \in Dests : Manifests(dest[d]) /\ Linked(dest[d])
           /\ \A r \in Runner : TypedRun(run[r]) /\ LinkedRun(run[r]) /\ DOMAIN run[r] = DOMAIN NoRun
<1>1. scenario.dests \in Nat \ {0} /\ scenario.max.time \in Nat
  BY JobFacts DEF Whole, Inv
<1>2. count \in [Counters -> Nat] /\ now \in Nat
  BY <1>1 DEF Whole, Typed
<1>3. \A d \in Dests : IsFiniteSet(dest[d]) /\ dest[d] \subseteq Backups /\ Linked(dest[d])
  BY DEF Whole, Typed, Chains
<1>4. \A d \in Dests : \A m, n \in dest[d] : sameSet(m, n) => m = n
  BY DEF Whole, Inv, SetsDiffer
<1>5. \A d \in Dests : Manifests(dest[d])
  BY <1>3, <1>4 DEF Manifests
<1>6. \A r \in Runner : TypedRun(run[r]) /\ LinkedRun(run[r])
  BY DEF Whole, Typed, Chains
<1>7. \A r \in Runner : DOMAIN run[r] = DOMAIN NoRun
  BY DEF Whole, Inv, Shape
<1> QED BY <1>1, <1>2, <1>3, <1>5, <1>6, <1>7

\* A run that ends.
LEMMA ReturnWhole ==
    ASSUME Whole, scenario' = scenario, UNCHANGED <<dest, now, pool>>, count' \in [Counters -> Nat],
           NEW r \in Runner, Set(r, NoRun)
    PROVE  Typed' /\ Chains'
BY NoRunIdle, IdleRun, RunWhole

\* One lemma for each step of a run; ListPool.
LEMMA ListPoolWhole ==
    ASSUME Whole, scenario' = scenario, NEW r \in Runner, NEW j \in scenario.jobs, ListPool(r, j)
    PROVE  Typed' /\ Chains'
<1> DEFINE new == [NoRun EXCEPT !.pc = "list", !.job = j, !.listed = pool]
<1>1. Set(r, new) /\ UNCHANGED <<dest, now, pool, count>>
  BY DEF ListPool
<1>2. new.pc = "list" /\ new.job = j /\ new.listed = pool /\ new.seen = <<>>
  BY DEF NoRun
<1>3. pool \in Seq(Snapshots) /\ count \in [Counters -> Nat]
  BY DEF Whole, Typed
<1>4. scenario.dests \in Nat
  BY WholeFacts
<1> HIDE DEF new
<1>5. TypedRun(new)
  BY <1>2, <1>3, <1>4 DEF TypedRun
<1>6. LinkedRun(new)
  BY <1>2 DEF LinkedRun
<1> QED BY <1>1, <1>3, <1>5, <1>6, RunWhole

\* One more list after those read so far.
LEMMA OneMore ==
    ASSUME NEW seen \in Seq(Seq(Backups)), NEW b \in Seq(Backups), NEW d, d = Len(seen) + 1
    PROVE  /\ Append(seen, b) \in Seq(Seq(Backups)) /\ Len(Append(seen, b)) = d
           /\ DOMAIN Append(seen, b) = DOMAIN seen \cup {d} /\ d \notin DOMAIN seen
           /\ \A e \in DOMAIN seen : Append(seen, b)[e] = seen[e]
           /\ Append(seen, b)[d] = b
OBVIOUS

\* ListDest: what is listed is in order, and linked as the destination is.
LEMMA ListDestWhole ==
    ASSUME Whole, scenario' = scenario, NEW r \in Runner, ListDest(r)
    PROVE  Typed' /\ Chains'
<1> DEFINE d == Len(run[r].seen) + 1
           b == getBackupsForTarget(d)
           new == [run[r] EXCEPT !.seen = Append(@, b)]
<1>1. run[r].pc = "list" /\ d \in Dests /\ Set(r, new) /\ UNCHANGED <<dest, now, pool, count>>
  BY DEF ListDest
<1>2. TypedRun(run[r]) /\ LinkedRun(run[r]) /\ DOMAIN run[r] = DOMAIN NoRun /\ count \in [Counters -> Nat] /\ scenario.dests \in Nat
  BY WholeFacts
<1>3. new.pc = "list" /\ new.job = run[r].job /\ new.listed = run[r].listed /\ new.seen = Append(run[r].seen, b)
  BY <1>1, <1>2 DEF NoRun
<1>4. Manifests(dest[d]) /\ Linked(dest[d])
  BY <1>1, WholeFacts
<1>5. b \in Seq(Backups) /\ NewestFirst(b) /\ ToSet(b) = dest[d]
  <2>1. b = sortBackupsNewestFirst(dest[d])
    BY DEF getBackupsForTarget
  <2> HIDE DEF d, b
  <2>2. sortBackupsNewestFirst(dest[d]) \in Seq(Backups) /\ NewestFirst(sortBackupsNewestFirst(dest[d]))
    BY <1>4, SortedChains
  <2>3. ToSet(sortBackupsNewestFirst(dest[d])) = dest[d]
    BY <1>4, SortedList
  <2> QED BY <2>1, <2>2, <2>3
<1> DEFINE seen == run[r].seen
<1>6. run[r].job \in scenario.jobs /\ run[r].listed \in Seq(Snapshots) /\ seen \in Seq(Seq(Backups))
  BY <1>1, <1>2 DEF TypedRun
<1> HIDE DEF new, b
<1>7. /\ Append(seen, b) \in Seq(Seq(Backups)) /\ Len(Append(seen, b)) <= scenario.dests
      /\ DOMAIN Append(seen, b) = DOMAIN seen \cup {d} /\ d \notin DOMAIN seen
      /\ \A e \in DOMAIN seen : Append(seen, b)[e] = seen[e]
      /\ Append(seen, b)[d] = b
  <2>1. b \in Seq(Backups) /\ seen \in Seq(Seq(Backups)) /\ d = Len(seen) + 1
    BY <1>5, <1>6
  <2>2. d <= scenario.dests
    BY <1>1, <1>2 DEF Dests
  <2> HIDE DEF seen, d
  <2> QED BY <2>1, <2>2, OneMore
<1>8. TypedRun(new)
  BY <1>3, <1>6, <1>7 DEF TypedRun
<1>9. \A e \in DOMAIN seen : NewestFirst(seen[e]) /\ Linked(ToSet(seen[e])) /\ (Kept => ToSet(seen[e]) \subseteq dest[e])
  BY <1>1, <1>2 DEF LinkedRun
<1> DEFINE after == Append(seen, b)
<1> HIDE DEF seen, d, after
<1>10. \A e \in DOMAIN after : NewestFirst(after[e]) /\ Linked(ToSet(after[e])) /\ (Kept => ToSet(after[e]) \subseteq dest[e])
  BY <1>4, <1>5, <1>7, <1>9 DEF after
<1>11. LinkedRun(new)
  BY <1>3, <1>10 DEF LinkedRun, after, seen
<1> QED BY <1>1, <1>2, <1>8, <1>11, RunWhole

\* The same of a list as of the set of its backups.
LEMMA LinkedLists ==
    ASSUME NEW b, Linked(ToSet(b))
    PROVE  Forward(b) /\ (Kept => Unbroken(b))
<1>1. \A i \in DOMAIN b : b[i] \in ToSet(b)
  BY DEF ToSet
<1>2. Forward(b)
  BY <1>1 DEF Linked, Forward
<1>3. ASSUME Kept PROVE Unbroken(b)
  <2> SUFFICES ASSUME NEW i \in DOMAIN b, ~IsFull(b[i])
               PROVE  After(b[i].base, b[i].source) /\ \E j \in DOMAIN b : Same(b[j].base, b[i].source)
    BY DEF Unbroken
  <2>1. After(b[i].base, b[i].source) /\ \E x \in ToSet(b) : Same(x.base, b[i].source)
    BY <1>1, <1>3 DEF Linked
  <2> QED BY <2>1 DEF ToSet
<1> QED BY <1>2, <1>3

\* Decide: the planner's promise.
LEMMA DecideWhole ==
    ASSUME Whole, scenario' = scenario, NEW r \in Runner, Decide(r)
    PROVE  Typed' /\ Chains'
<1> DEFINE me == run[r]
           p  == planSmartAt(now, me.job, me.listed, me.seen, PartialSetCompletable(me.job, me.seen))
           new == [me EXCEPT !.pc = "planned", !.plan = p, !.listed = <<>>, !.seen = <<>>]
<1> HIDE DEF p
<1>1. me.pc = "list" /\ Len(me.seen) = scenario.dests /\ UNCHANGED <<dest, now, pool, count>>
      /\ (Set(r, NoRun) \/ (p.action \notin {"noop", "error"} /\ Set(r, new)))
  BY DEF Decide, p
<1>2. TypedRun(me) /\ LinkedRun(me) /\ DOMAIN me = DOMAIN NoRun /\ count \in [Counters -> Nat] /\ scenario.dests \in Nat \ {0} /\ now \in Nat
  BY WholeFacts
<1>3. CASE Set(r, NoRun)
  BY <1>1, <1>2, <1>3, ReturnWhole
<1>4. CASE p.action \notin {"noop", "error"} /\ Set(r, new)
  <2>1. new.pc = "planned" /\ new.job = me.job /\ new.plan = p
    BY <1>2 DEF NoRun
  <2>2. me.job \in scenario.jobs /\ me.listed \in Seq(Snapshots) /\ me.seen \in Seq(Seq(Backups))
    BY <1>1, <1>2 DEF TypedRun
  <2>3. me.job.mode \in {"full", "increment", "window"}
    BY <2>2, JobFacts DEF Whole, Inv
  <2>4. Readable(me.listed, me.seen) /\ DOMAIN me.seen = Dests
    BY <1>1, <1>2, <2>2 DEF Readable, Dests
  <2>5. \A d \in Dests : NewestFirst(me.seen[d]) /\ Linked(ToSet(me.seen[d])) /\ (Kept => ToSet(me.seen[d]) \subseteq dest[d])
    BY <1>1, <1>2, <2>4 DEF LinkedRun
  <2>6. \A d \in DOMAIN me.seen : NewestFirst(me.seen[d]) /\ Forward(me.seen[d])
    BY <2>4, <2>5, LinkedLists
  <2>7. Kept => \A d \in DOMAIN me.seen : Unbroken(me.seen[d])
    BY <2>4, <2>5, LinkedLists
  <2> HIDE DEF new
  <2>8. Sendable(me.seen, p)
    <3>1. PICK c : c = PartialSetCompletable(me.job, me.seen)
      OBVIOUS
    <3>2. PICK job : job = me.job
      OBVIOUS
    <3>3. p = planSmartAt(now, job, me.listed, me.seen, c)
      BY <3>1, <3>2 DEF p
    <3> QED BY <1>2, <1>4, <2>3, <2>4, <2>6, <3>2, <3>3, PlanAtSendable
  <2>9. TypedRun(new)
    BY <2>1, <2>2, <2>8 DEF TypedRun, Sendable
  <2>10. ASSUME p.action = "incremental" PROVE LinkedEverywhere(p.base, p.source)
    <3>1. After(p.base, p.source)
      BY <2>8, <2>10 DEF Sendable
    <3>2. ASSUME Kept, NEW d \in Dests PROVE \E x \in dest[d] : Same(x.base, p.source)
      <4>1. PICK j \in DOMAIN me.seen[d] : Same(me.seen[d][j].base, p.source)
        BY <2>4, <2>7, <2>8, <2>10, <3>2 DEF Sendable
      <4>2. me.seen[d][j] \in dest[d]
        BY <2>5, <3>2 DEF ToSet
      <4> QED BY <4>1, <4>2
    <3> QED BY <3>1, <3>2 DEF LinkedEverywhere
  <2>11. LinkedRun(new)
    BY <2>1, <2>10 DEF LinkedRun
  <2> QED BY <1>1, <1>2, <1>4, <2>9, <2>11, RunWhole
<1> QED BY <1>1, <1>3, <1>4

\* TryLock: the plan is kept.
LEMMA TryLockWhole ==
    ASSUME Whole, scenario' = scenario, NEW r \in Runner, TryLock(r)
    PROVE  Typed' /\ Chains'
<1> DEFINE new == [run[r] EXCEPT !.pc = "locked"]
<1>1. run[r].pc = "planned" /\ (Set(r, NoRun) \/ Set(r, new)) /\ UNCHANGED <<dest, now, pool, count>>
  BY DEF TryLock
<1>2. TypedRun(run[r]) /\ LinkedRun(run[r]) /\ DOMAIN run[r] = DOMAIN NoRun /\ count \in [Counters -> Nat]
  BY WholeFacts
<1>3. new.pc = "locked" /\ new.job = run[r].job /\ new.plan = run[r].plan
  BY <1>2 DEF NoRun
<1> HIDE DEF new
<1>4. TypedRun(new)
  BY <1>1, <1>2, <1>3 DEF TypedRun
<1>5. LinkedRun(new)
  BY <1>1, <1>2, <1>3 DEF LinkedRun
<1> QED BY <1>1, <1>2, <1>4, <1>5, ReturnWhole, RunWhole

\* The set of a plan.
LEMMA SetOfPlan ==
    ASSUME Whole, NEW r \in Runner, run[r].pc \in {"planned", "locked"}
    PROVE  LET me == run[r]
               set == SetOf(me)
           IN /\ set \in Backups /\ set.base = me.plan.base /\ set.raw = me.job.raw
              /\ IsFull(set) <=> me.plan.action = "full"
              /\ me.plan.action = "incremental" => set.source = me.plan.source
              /\ ~IsFull(set) => LinkedEverywhere(set.base, set.source)
<1> DEFINE me == run[r]
           set == SetOf(me)
<1>1. TypedRun(me) /\ LinkedRun(me) /\ count \in [Counters -> Nat]
  BY WholeFacts
<1>2. /\ me.job \in scenario.jobs /\ me.plan.action \in {"full", "incremental"} /\ me.plan.base \in Snapshots
      /\ me.plan.action = "incremental" => me.plan.source \in Snapshots
  BY <1>1 DEF TypedRun
<1>3. me.job.raw \in BOOLEAN
  BY <1>2, JobFacts DEF Whole, Inv
<1>4. count["sends"] + 1 \in Nat
  BY <1>1 DEF Counters
<1>5. /\ set.base = me.plan.base /\ set.raw = me.job.raw /\ set.att = count["sends"] + 1
      /\ set.source = IF me.plan.action = "incremental" THEN me.plan.source ELSE NoSnapshot
  BY DEF SetOf
<1>6. set \in Backups
  BY <1>2, <1>3, <1>4 DEF SetOf, Backups
<1>7. me.plan.action = "incremental" => LinkedEverywhere(me.plan.base, me.plan.source)
  BY <1>1 DEF LinkedRun
<1> HIDE DEF set
<1>8. IsFull(set) <=> me.plan.action = "full"
  <2>1. me.plan.action = "full" => IsFull(set)
    BY <1>5 DEF IsFull, Same
  <2>2. me.plan.action = "incremental" => ~IsFull(set)
    BY <1>2, <1>5, TakenSnapshot DEF IsFull
  <2> QED BY <1>2, <2>1, <2>2
<1>9. ~IsFull(set) => LinkedEverywhere(set.base, set.source)
  BY <1>2, <1>5, <1>7, <1>8
<1> QED BY <1>2, <1>5, <1>6, <1>8, <1>9 DEF set

\* A run that sends knows its set.
LEMMA SendingWhole ==
    ASSUME Whole, NEW new, new.pc \in {"upload", "publish"}, new.job \in scenario.jobs, new.set \in Backups,
           ~IsFull(new.set) => LinkedEverywhere(new.set.base, new.set.source)
    PROVE  TypedRun(new) /\ LinkedRun(new)
BY DEF TypedRun, LinkedRun

\* SendSet: the set is the plan's.
LEMMA SendSetWhole ==
    ASSUME Whole, scenario' = scenario, NEW r \in Runner, SendSet(r)
    PROVE  Typed' /\ Chains'
<1> DEFINE me == run[r]
           set == SetOf(me)
           new == [me EXCEPT !.pc = "upload", !.set = set, !.todo = Dests]
<1>1. me.pc = "locked" /\ UNCHANGED <<dest, now, pool>>
      /\ ((Set(r, NoRun) /\ count' = count) \/ (Set(r, new) /\ Bump("sends")))
  BY DEF SendSet, ReturnBackup
<1>2. TypedRun(me) /\ DOMAIN me = DOMAIN NoRun /\ count \in [Counters -> Nat]
  BY WholeFacts
<1>3. set \in Backups /\ (~IsFull(set) => LinkedEverywhere(set.base, set.source))
  BY <1>1, SetOfPlan
<1> HIDE DEF set
<1>4. new.pc = "upload" /\ new.job = me.job /\ new.set = set
  BY <1>2 DEF NoRun
<1>5. me.job \in scenario.jobs
  BY <1>1, <1>2 DEF TypedRun
<1> HIDE DEF new
<1>6. TypedRun(new) /\ LinkedRun(new)
  BY <1>3, <1>4, <1>5, SendingWhole
<1>7. CASE Set(r, NoRun) /\ count' = count
  BY <1>1, <1>2, <1>7, ReturnWhole
<1>8. CASE Set(r, new) /\ Bump("sends")
  <2>1. count' \in [Counters -> Nat]
    BY <1>8, BumpTyped DEF Whole, Counters
  <2> QED BY <1>1, <1>6, <1>8, <2>1, RunWhole
<1> QED BY <1>1, <1>7, <1>8

\* One set's other manifest is linked as it is.
LEMMA SameSetLinked ==
    ASSUME NEW a \in Backups, NEW b \in Backups, sameSet(a, b), ~IsFull(b) => LinkedEverywhere(b.base, b.source)
    PROVE  ~IsFull(a) => LinkedEverywhere(a.base, a.source)
<1>1. /\ a.base.time = b.base.time /\ a.source.time = b.source.time
      /\ a.source.kind = b.source.kind
  BY DEF sameSet, Same
<1>2. IsFull(a) <=> IsFull(b)
  BY <1>1 DEF IsFull, Same
<1>3. After(a.base, a.source) <=> After(b.base, b.source)
  BY <1>1 DEF After
<1>4. \A s : Same(s, a.source) <=> Same(s, b.source)
  BY <1>1 DEF Same
<1> QED BY <1>2, <1>3, <1>4 DEF LinkedEverywhere

\* CompleteOrRefuse: the set is the one a destination has.
LEMMA CompleteOrRefuseWhole ==
    ASSUME Whole, scenario' = scenario, NEW r \in Runner, CompleteOrRefuse(r)
    PROVE  Typed' /\ Chains'
<1> DEFINE me == run[r]
           set == SetOf(me)
           have == Have(set)
           from == CHOOSE m \in dest[Min(have)] : sameSet(m, set)
           missing == Dests \ have
           new == [me EXCEPT !.pc = "publish", !.set = from, !.todo = missing]
<1>1. me.pc = "locked" /\ have # {} /\ UNCHANGED <<dest, now, pool, count>> /\ (Set(r, NoRun) \/ Set(r, new))
  BY DEF CompleteOrRefuse, ReturnBackup
<1>2. TypedRun(me) /\ DOMAIN me = DOMAIN NoRun /\ count \in [Counters -> Nat]
  BY WholeFacts
<1>3. set \in Backups /\ (~IsFull(set) => LinkedEverywhere(set.base, set.source))
  BY <1>1, SetOfPlan
<1> HIDE DEF set
<1>4. have = {d \in Dests : \E m \in dest[d] : sameSet(m, set)}
  BY DEF Have
<1> HIDE DEF have
<1>5. Min(have) \in have
  BY <1>1, <1>4, FirstOf DEF Whole, Inv
<1>6. from \in dest[Min(have)] /\ sameSet(from, set) /\ Min(have) \in Dests
  BY <1>4, <1>5
<1> HIDE DEF from
<1>7. from \in Backups
  BY <1>6 DEF Whole, Typed
<1>8. ~IsFull(from) => LinkedEverywhere(from.base, from.source)
  BY <1>3, <1>6, <1>7, SameSetLinked
<1> HIDE DEF missing
<1>9. new.pc = "publish" /\ new.job = me.job /\ new.set = from
  BY <1>2 DEF NoRun
<1>10. me.job \in scenario.jobs
  BY <1>1, <1>2 DEF TypedRun
<1> HIDE DEF new
<1>11. TypedRun(new) /\ LinkedRun(new)
  BY <1>7, <1>8, <1>9, <1>10, SendingWhole
<1> QED BY <1>1, <1>2, <1>11, ReturnWhole, RunWhole

\* UploadVolumes.
LEMMA UploadVolumesWhole ==
    ASSUME Whole, scenario' = scenario, NEW r \in Runner, UploadVolumes(r)
    PROVE  Typed' /\ Chains'
<1> DEFINE me == run[r]
           d == Min(me.todo)
           new == IF me.todo # {d} THEN [me EXCEPT !.todo = @ \ {d}]
                  ELSE [me EXCEPT !.pc = "publish", !.todo = Dests]
<1>1. me.pc = "upload" /\ Set(r, new) /\ UNCHANGED <<dest, now, pool, count>>
  BY DEF UploadVolumes
<1>2. TypedRun(me) /\ LinkedRun(me) /\ DOMAIN me = DOMAIN NoRun /\ count \in [Counters -> Nat]
  BY WholeFacts
<1> HIDE DEF d
<1>3. new.pc \in {"upload", "publish"} /\ new.job = me.job /\ new.set = me.set
  BY <1>1, <1>2 DEF NoRun
<1>4. me.job \in scenario.jobs /\ me.set \in Backups
  BY <1>1, <1>2 DEF TypedRun
<1>5. ~IsFull(me.set) => LinkedEverywhere(me.set.base, me.set.source)
  BY <1>1, <1>2 DEF LinkedRun
<1> HIDE DEF new
<1>6. TypedRun(new) /\ LinkedRun(new)
  BY <1>3, <1>4, <1>5, SendingWhole
<1> QED BY <1>1, <1>2, <1>6, RunWhole

\* PublishManifest: what the set continues is at this destination, whatever was published since the plan.
LEMMA PublishManifestWhole ==
    ASSUME Whole, scenario' = scenario, NEW r \in Runner, PublishManifest(r)
    PROVE  Typed' /\ Chains'
<1> DEFINE me == run[r]
           set == me.set
           d == Min(me.todo)
           new == [me EXCEPT !.todo = @ \ {d}]
<1>1. /\ me.pc = "publish" /\ dest' = [dest EXCEPT ![d] = @ \cup {set}] /\ UNCHANGED <<now, pool, count>>
      /\ (Set(r, NoRun) \/ Set(r, new))
  BY DEF PublishManifest, ReturnBackup
<1>2. TypedRun(me) /\ LinkedRun(me) /\ DOMAIN me = DOMAIN NoRun /\ count \in [Counters -> Nat]
  BY WholeFacts
<1>3. me.todo \subseteq Dests /\ me.todo # {}
  BY <1>1 DEF Whole, Inv, PublishesBeside
<1>4. d \in Dests
  BY <1>3, FirstOf DEF Whole, Inv
<1> HIDE DEF d
<1>5. new.pc = "publish" /\ new.job = me.job /\ new.set = set
  BY <1>1, <1>2 DEF NoRun
<1>6. me.job \in scenario.jobs /\ set \in Backups
  BY <1>1, <1>2 DEF TypedRun
<1>7. ~IsFull(set) => LinkedEverywhere(set.base, set.source)
  BY <1>1, <1>2 DEF LinkedRun
<1> HIDE DEF new
<1>8. TypedRun(new) /\ LinkedRun(new)
  BY <1>5, <1>6, <1>7, SendingWhole
<1>9. \A e \in Dests : IsFiniteSet(dest[e]) /\ dest[e] \subseteq Backups /\ Linked(dest[e])
  BY DEF Whole, Typed, Chains
<1>10. DOMAIN dest = Dests
  BY DEF Whole, Inv, Shape
<1>11. dest'[d] = dest[d] \cup {set} /\ \A e \in Dests : e # d => dest'[e] = dest[e]
  BY <1>1, <1>4, <1>10
<1>12. IsFiniteSet(dest[d] \cup {set})
  BY <1>4, <1>9, FS_AddElement
<1>13. Linked(dest[d] \cup {set})
  <2> SUFFICES ASSUME NEW m \in dest[d] \cup {set}, ~IsFull(m)
               PROVE  After(m.base, m.source) /\ (Kept => \E x \in dest[d] \cup {set} : Same(x.base, m.source))
    BY DEF Linked
  <2>1. CASE m \in dest[d]
    BY <1>4, <1>9, <2>1 DEF Linked
  <2>2. CASE m = set
    BY <1>4, <1>7, <2>2 DEF LinkedEverywhere
  <2> QED BY <2>1, <2>2
<1>14. \A e \in Dests : /\ dest[e] \subseteq dest'[e] /\ IsFiniteSet(dest'[e]) /\ dest'[e] \subseteq Backups
                        /\ Linked(dest'[e])
  <2> SUFFICES ASSUME NEW e \in Dests
               PROVE  /\ dest[e] \subseteq dest'[e] /\ IsFiniteSet(dest'[e]) /\ dest'[e] \subseteq Backups
                      /\ Linked(dest'[e])
    OBVIOUS
  <2>1. CASE e = d
    BY <1>6, <1>9, <1>11, <1>12, <1>13, <2>1
  <2>2. CASE e # d
    BY <1>9, <1>11, <2>2
  <2> QED BY <2>1, <2>2
<1>15. run'[r] \in {NoRun, new} /\ \A q \in Runner : q # r => run'[q] = run[q]
  BY <1>1, SetFacts DEF Whole
<1>16. \A q \in Runner : run'[q] = run[q] \/ (TypedRun(run'[q]) /\ LinkedRun(run'[q]))
  BY <1>8, <1>15, NoRunIdle, IdleRun
<1>17. now \in 1..scenario.max.time /\ pool \in Seq(Snapshots)
  BY DEF Whole, Typed
<1> QED BY <1>1, <1>2, <1>14, <1>16, <1>17, GrowthWhole

\* FailRun.
LEMMA FailRunWhole ==
    ASSUME Whole, scenario' = scenario, NEW r \in Runner, FailRun(r)
    PROVE  Typed' /\ Chains'
<1>1. Set(r, NoRun) /\ Bump("fails") /\ UNCHANGED <<dest, now, pool>>
  BY DEF FailRun, ReturnBackup
<1>2. count' \in [Counters -> Nat]
  BY <1>1, BumpTyped DEF Whole, Counters
<1> QED BY <1>1, <1>2, ReturnWhole

\* A deletion: nothing is claimed of what is left but that time goes forward.
LEMMA DeleteSetWhole ==
    ASSUME Whole, scenario' = scenario, NEW d \in Dests, NEW m \in dest[d], DeleteSet(d, m)
    PROVE  Typed' /\ Chains' /\ ~Kept
<1>1. /\ Bump("deletes") /\ dest' = [dest EXCEPT ![d] = @ \ {m}]
      /\ run' = [r \in Runner |-> [run[r] EXCEPT !.stale = run[r].pc # "idle"]]
      /\ UNCHANGED <<now, pool>>
  BY DEF DeleteSet
<1>2. count' \in [Counters -> Nat] /\ count["deletes"] \in Nat /\ count["deletes"] < scenario.max["deletes"]
  BY <1>1, BumpTyped DEF Whole, Counters, Bump, Typed
<1>3. ~Kept
  BY <1>2 DEF Kept
<1>4. Dests' = Dests /\ ~Kept' /\ DOMAIN dest = Dests
  BY <1>3 DEF Dests, Kept, Whole, Inv, Shape
<1>5. \A e \in Dests : dest'[e] \subseteq dest[e]
  BY <1>1, <1>4
<1>6. \A e \in Dests : IsFiniteSet(dest[e]) /\ dest[e] \subseteq Backups /\ Linked(dest[e])
  BY DEF Whole, Typed, Chains
<1>7. \A e \in Dests : IsFiniteSet(dest'[e]) /\ dest'[e] \subseteq Backups
  BY <1>5, <1>6, FS_Subset
<1>8. \A e \in Dests : Linked(dest[e])'
  BY <1>3, <1>4, <1>5, <1>6 DEF Linked
<1>9. ASSUME NEW r \in Runner PROVE TypedRun(run[r])' /\ LinkedRun(run[r])'
  <2>1. TypedRun(run[r]) /\ LinkedRun(run[r]) /\ DOMAIN run[r] = DOMAIN NoRun
    BY WholeFacts
  <2>2. run'[r] = [run[r] EXCEPT !.stale = run[r].pc # "idle"]
    BY <1>1
  <2>3. /\ run'[r].pc = run[r].pc /\ run'[r].job = run[r].job /\ run'[r].listed = run[r].listed /\ run'[r].seen = run[r].seen
        /\ run'[r].plan = run[r].plan /\ run'[r].set = run[r].set
    BY <2>1, <2>2 DEF NoRun
  <2>4. TypedRun(run[r])'
    BY <2>1, <2>3 DEF TypedRun
  <2>5. \A M : Linked(M)' = Linked(M)
    BY <1>3, <1>4 DEF Linked
  <2>6. \A base, source : LinkedEverywhere(base, source)' = LinkedEverywhere(base, source)
    BY <1>3, <1>4 DEF LinkedEverywhere
  <2>7. LinkedRun(run[r])'
    BY <1>3, <1>4, <2>1, <2>3, <2>5, <2>6 DEF LinkedRun
  <2> QED BY <2>4, <2>7
<1>10. now' \in 1..scenario'.max.time /\ pool' \in Seq(Snapshots)
  BY <1>1 DEF Whole, Typed
<1>11. Typed'
  BY <1>2, <1>4, <1>7, <1>9, <1>10 DEF Typed
<1>12. Chains'
  BY <1>4, <1>8, <1>9 DEF Chains
<1> QED BY <1>3, <1>11, <1>12

-----------------------------------------------------------------------------
(* What a run that lists the destinations sees.                            *)

\* Without its first, a sorted list is the sorted list of the rest.
LEMMA SortedRest ==
    ASSUME NEW M, Manifests(M), NEW x \in M, \A m \in M : m = x \/ Before(x, m)
    PROVE  LET s == sortBackupsNewestFirst(M)
               t == sortBackupsNewestFirst(M \ {x})
           IN /\ s # <<>> /\ s[1] = x /\ Len(s) = Len(t) + 1
              /\ \A n \in DOMAIN t : s[n + 1] = t[n]
              /\ Manifests(M \ {x})
<1> DEFINE N == M \ {x}
           s == sortBackupsNewestFirst(M)
           t == sortBackupsNewestFirst(N)
<1>1. M \in SUBSET Backups /\ IsFiniteSet(M) /\ \A a, b \in M : sameSet(a, b) => a = b
  BY DEF Manifests
<1>2. IsFiniteSet(N) /\ Cardinality(N) = Cardinality(M) - 1
  BY <1>1, FS_RemoveElement
<1>3. Manifests(N)
  BY <1>1, <1>2 DEF Manifests
<1> HIDE DEF s, t
<1>4. /\ s \in Seq(M) /\ Len(s) = Cardinality(M) /\ ToSet(s) = M
      /\ \A i, j \in DOMAIN s : s[i] = s[j] => i = j
      /\ \A m \in M : Rank(M, m) + 1 \in DOMAIN s /\ s[Rank(M, m) + 1] = m
  BY SortedList DEF s
<1> HIDE DEF N
<1>5. /\ t \in Seq(N) /\ Len(t) = Cardinality(N) /\ ToSet(t) = N
      /\ \A i, j \in DOMAIN t : t[i] = t[j] => i = j
      /\ \A m \in N : Rank(N, m) + 1 \in DOMAIN t /\ t[Rank(N, m) + 1] = m
  BY <1>3, SortedList DEF t
<1>6. Cardinality(M) \in Nat
  BY <1>1, FS_CardinalityType
<1>7. N \in SUBSET M /\ x \notin N /\ M = N \cup {x}
  BY DEF N
<1>8. Rank(M, x) = 0
  <2>1. \A m \in M : ~Before(m, x)
    BY <1>1, BeforeIsOrder
  <2>2. {y \in M : Before(y, x)} = {}
    BY <2>1
  <2> QED BY <2>2, FS_EmptySet DEF Rank
<1>9. ASSUME NEW m \in N PROVE Rank(M, m) = Rank(N, m) + 1
  <2> DEFINE A == {y \in N : Before(y, m)}
  <2>1. Before(x, m)
    BY <1>7
  <2>2. {y \in M : Before(y, m)} = A \cup {x}
    BY <1>7, <2>1
  <2>3. IsFiniteSet(A) /\ x \notin A
    BY <1>2, <1>7, FS_Subset
  <2>4. Cardinality(A \cup {x}) = Cardinality(A) + 1
    BY <2>3, FS_AddElement
  <2>5. Rank(N, m) = Cardinality(A) /\ Rank(M, m) = Cardinality(A \cup {x})
    BY <2>2 DEF Rank
  <2> QED BY <2>4, <2>5
<1>10. s # <<>> /\ s[1] = x
  BY <1>4, <1>8
<1>11. Len(s) = Len(t) + 1
  BY <1>2, <1>4, <1>5, <1>6
<1>12. ASSUME NEW n \in DOMAIN t PROVE s[n + 1] = t[n]
  <2>1. PICK m \in N : m = t[n]
    BY <1>5 DEF ToSet
  <2>2. Rank(N, m) + 1 = n
    BY <1>5, <2>1
  <2>3. Rank(M, m) = n
    BY <1>9, <2>2
  <2>4. s[Rank(M, m) + 1] = m
    BY <1>4, <1>7
  <2> QED BY <2>1, <2>3, <2>4
<1> QED BY <1>3, <1>10, <1>11, <1>12 DEF s, t, N

\* What is newer comes first.
LEMMA NewerIsBefore ==
    ASSUME NEW a \in Backups, NEW b \in Backups, After(a.base, b.base)
    PROVE  Before(a, b)
BY Keys DEF Before, Newer, After

\* What a run that lists the destinations now sees.
Sees(seen) ==
    /\ seen \in Seq(Seq(Backups)) /\ DOMAIN seen = Dests
    /\ \A d \in Dests : seen[d] = sortBackupsNewestFirst(dest[d])

\* Each list has what its destination has, newest first.
LEMMA SeesLists ==
    ASSUME Whole, NEW seen, Sees(seen), NEW d \in Dests
    PROVE  /\ seen[d] \in Seq(Backups) /\ ToSet(seen[d]) = dest[d] /\ NewestFirst(seen[d]) /\ (Kept => Unbroken(seen[d]))
           /\ Len(seen[d]) = Cardinality(dest[d]) /\ Cardinality(dest[d]) \in Nat
           /\ \A i, j \in DOMAIN seen[d] : seen[d][i] = seen[d][j] => i = j
           /\ \A i, j \in DOMAIN seen[d] : i < j => Before(seen[d][i], seen[d][j])
<1>1. seen[d] = sortBackupsNewestFirst(dest[d])
  BY DEF Sees
<1>2. Manifests(dest[d]) /\ Linked(dest[d])
  BY WholeFacts
<1> DEFINE s == sortBackupsNewestFirst(dest[d])
<1>3. s \in Seq(Backups) /\ NewestFirst(s) /\ (Kept => Unbroken(s))
  BY <1>2, SortedChains
<1>4. /\ ToSet(s) = dest[d] /\ Len(s) = Cardinality(dest[d])
      /\ \A i, j \in DOMAIN s : s[i] = s[j] => i = j
      /\ \A i, j \in DOMAIN s : i < j => Before(s[i], s[j])
  BY <1>2, SortedList
<1>5. Cardinality(dest[d]) \in Nat
  BY <1>2, FS_CardinalityType DEF Manifests
<1> HIDE DEF s
<1> QED BY <1>1, <1>3, <1>4, <1>5 DEF s

\* Destinations that differ, differ by the newest set: the planner finds it, and its volumes.
LEMMA Apart ==
    ASSUME Whole, InStep, NEW seen, Sees(seen), NEW d \in Dests, NEW e \in Dests, NEW x \in dest[d], x \notin dest[e]
    PROVE  partialSet(seen) = x /\ Newest(x) /\ \A j : PartialSetCompletable(j, seen)
<1>1. /\ Newest(x) /\ \A a \in Dests : x \in dest[a] \/ verifyVolumesAt(a, x)
  BY DEF InStep
<1>2. \A a \in Dests : \A y \in dest[a] : y = x \/ (After(x.base, y.base) /\ \A b \in Dests : y \in dest[b])
  <2> SUFFICES ASSUME NEW a \in Dests, NEW y \in dest[a], y # x
               PROVE  After(x.base, y.base) /\ \A b \in Dests : y \in dest[b]
    OBVIOUS
  <2>1. ~sameSet(y, x)
    BY DEF InStep, sameSet, Same
  <2> QED BY <1>1, <2>1 DEF Newest
<1>3. \A a \in Dests : IF x \in dest[a] THEN dest[a] \ {x} = dest[e] ELSE dest[a] = dest[e]
  <2> SUFFICES ASSUME NEW a \in Dests PROVE IF x \in dest[a] THEN dest[a] \ {x} = dest[e] ELSE dest[a] = dest[e]
    OBVIOUS
  <2>1. \A y \in dest[a] : y = x \/ y \in dest[e]
    BY <1>2
  <2>2. \A y \in dest[e] : y # x /\ y \in dest[a]
    BY <1>2
  <2> QED BY <2>1, <2>2
<1>4. \A a \in Dests : seen[a] = sortBackupsNewestFirst(dest[a]) /\ seen[a] \in Seq(Backups)
  BY SeesLists DEF Sees
<1> DEFINE t == seen[e]
           c == Len(t)
<1>5. c \in Nat /\ t \in Seq(Backups)
  BY <1>4
<1>6. ASSUME NEW a \in Dests, x \in dest[a]
      PROVE  /\ seen[a] # <<>> /\ seen[a][1] = x /\ Len(seen[a]) = c + 1 /\ \A n \in DOMAIN t : seen[a][n + 1] = t[n]
  <2>1. Manifests(dest[a])
    BY WholeFacts
  <2>2. \A m \in dest[a] : m = x \/ Before(x, m)
    <3>1. dest[a] \subseteq Backups
      BY <2>1 DEF Manifests
    <3> QED BY <1>2, <1>6, <3>1, NewerIsBefore
  <2>3. dest[a] \ {x} = dest[e]
    BY <1>3, <1>6
  <2>4. PICK M : M = dest[a]
    OBVIOUS
  <2>5. LET s == sortBackupsNewestFirst(M)
            u == sortBackupsNewestFirst(M \ {x})
        IN s # <<>> /\ s[1] = x /\ Len(s) = Len(u) + 1 /\ \A n \in DOMAIN u : s[n + 1] = u[n]
    BY <1>6, <2>1, <2>2, <2>4, SortedRest, SMTT(30)
  <2>6. sortBackupsNewestFirst(M) = seen[a] /\ sortBackupsNewestFirst(M \ {x}) = t
    BY <1>4, <2>3, <2>4
  <2> HIDE DEF t
  <2> QED BY <2>5, <2>6
<1>7. ASSUME NEW a \in Dests, x \notin dest[a] PROVE seen[a] = t
  <2>1. dest[a] = dest[e]
    BY <1>3, <1>7
  <2> QED BY <1>4, <2>1
<1>8. \A m : sameSet(m, m)
  BY SameSets
<1>9. DOMAIN seen = Dests
  BY DEF Sees
<1> HIDE DEF t, c
<1> DEFINE longest == {i \in DOMAIN seen : \A j \in DOMAIN seen : Len(seen[j]) <= Len(seen[i])}
           leader == seen[Min(longest)]
           behind == {i \in DOMAIN seen : ~sameSets(seen[i], leader)}
<1>10. \A a \in Dests : Len(seen[a]) = IF x \in dest[a] THEN c + 1 ELSE c
  BY <1>6, <1>7 DEF c
<1>11. longest = {a \in Dests : x \in dest[a]}
  BY <1>5, <1>9, <1>10
<1>12. longest # {} /\ longest \in SUBSET Dests
  BY <1>11
<1>13. Min(longest) \in longest
  <2> HIDE DEF longest
  <2> QED BY <1>12, FirstOf DEF Whole, Inv
<1>14. Min(longest) \in Dests /\ x \in dest[Min(longest)]
  BY <1>11, <1>13
<1>15. leader # <<>> /\ leader[1] = x /\ Len(leader) = c + 1 /\ (\A n \in DOMAIN t : leader[n + 1] = t[n]) /\ leader \in Seq(Backups)
  BY <1>4, <1>6, <1>14
<1>16. partialSet(seen) = IF leader = <<>> \/ behind = {} \/ \E i \in behind : ~sameSets(seen[i], Tail(leader))
                          THEN NoBackup ELSE leader[1]
  BY DEF partialSet
<1> HIDE DEF leader, longest
<1>17. e \in behind
  <2>1. Len(seen[e]) # Len(leader)
    BY <1>5, <1>15 DEF t, c
  <2> QED BY <1>9, <2>1 DEF sameSets
<1>18. \A i \in behind : x \notin dest[i]
  <2> SUFFICES ASSUME NEW i \in Dests, x \in dest[i] PROVE sameSets(seen[i], leader)
    BY <1>9
  <2>1. i \in longest
    BY <1>11
  <2>2. dest[i] = dest[Min(longest)]
    <3>1. dest[i] \ {x} = dest[e] /\ dest[Min(longest)] \ {x} = dest[e]
      BY <1>3, <1>14
    <3> QED BY <1>14, <3>1
  <2>3. seen[i] = leader
    BY <1>4, <1>14, <2>2 DEF leader
  <2> QED BY <1>8, <2>3 DEF sameSets
<1>19. sameSets(t, Tail(leader))
  <2>1. Len(Tail(leader)) = c /\ \A n \in 1..c : Tail(leader)[n] = leader[n + 1]
    BY <1>5, <1>15
  <2>2. DOMAIN t = 1..c /\ Len(t) = c
    BY <1>5 DEF c
  <2> QED BY <1>8, <1>15, <2>1, <2>2 DEF sameSets
<1>20. partialSet(seen) = x
  <2>1. \A i \in behind : sameSets(seen[i], Tail(leader))
    BY <1>7, <1>9, <1>18, <1>19
  <2> HIDE DEF behind
  <2> QED BY <1>15, <1>16, <1>17, <2>1
<1>21. x # NoBackup
  <2>1. x \in Backups
    BY DEF Whole, Typed
  <2> QED BY <2>1, NoBackupIsNone
<1>22. partialVolumesPresent(x, seen)
  <2> SUFFICES ASSUME NEW a \in Dests
               PROVE  \/ seen[a] # <<>> /\ sameSet(seen[a][1], x)
                      \/ \E v \in vols[a] : sameSet(v, x)
    BY DEF partialVolumesPresent
  <2>1. CASE x \in dest[a]
    BY <1>6, <1>8, <2>1
  <2>2. CASE x \notin dest[a]
    BY <1>1, <2>2 DEF verifyVolumesAt
  <2> QED BY <2>1, <2>2
<1> QED BY <1>1, <1>20, <1>21, <1>22 DEF PartialSetCompletable

-----------------------------------------------------------------------------
(* What steady sends plan.                                                 *)

\* No wrong clock dated a backup, and the pool has gone on at least as far.
Sane == \A d \in Dests : \A x \in dest[d] : Passed(x.base) /\ ~x.base.bookmark

\* A list of the pool, and what has been seen of it since.
Lists(listed) ==
    /\ listed \in Seq(Snapshots) /\ Datable(listed)
    /\ \A s \in ToSet(listed) : s.time <= now => Passed(s)

\* The times are numbers.
LEMMA Times ==
    ASSUME Whole
    PROVE  now \in Nat /\ scenario.max.time \in Nat /\ now <= scenario.max.time /\ futureSlack \in Nat
<1>1. scenario.max.time \in Nat
  BY JobFacts DEF Whole, Inv
<1>2. now \in 1..scenario.max.time
  BY DEF Whole, Typed
<1> QED BY <1>1, <1>2 DEF futureSlack, Hour

\* What planning keeps of the pool is what no wrong clock dated.
LEMMA PoolNow ==
    ASSUME Whole, NEW listed \in Seq(Snapshots), Datable(listed)
    PROVE  LET P == dropFutureDated(now, listed)
           IN P \in Seq(Snapshots) /\ NewestFirst(P) /\ ToSet(P) = {s \in ToSet(listed) : s.time <= now}
<1> DEFINE P == dropFutureDated(now, listed)
<1>1. \A x \in Snapshots : Dated(x) \in Nat /\ Dated(x) = x.time
  BY DatedSnapshot
<1>2. NewestFirst(listed) /\ \A s \in ToSet(listed) : s.time <= now \/ s.time > scenario.max.time + futureSlack
  BY DEF Datable
<1>3. now \in Nat /\ scenario.max.time \in Nat /\ now <= scenario.max.time /\ futureSlack \in Nat
  BY Times
<1>4. P \in Seq(Snapshots)
  BY DropTyped
<1>5. NewestFirst(P) /\ ToSet(P) = {s \in ToSet(listed) : Dated(s) <= now + futureSlack}
  BY <1>1, <1>2, <1>3, NotFuture
<1>6. \A s \in ToSet(listed) : Dated(s) <= now + futureSlack <=> s.time <= now
  <2> SUFFICES ASSUME NEW s \in ToSet(listed) PROVE Dated(s) <= now + futureSlack <=> s.time <= now
    OBVIOUS
  <2>1. s \in Snapshots
    BY DEF ToSet
  <2>2. Dated(s) = s.time /\ s.time \in Nat
    BY <1>1, <2>1
  <2>3. s.time <= now \/ s.time > scenario.max.time + futureSlack
    BY <1>2
  <2> QED BY <1>3, <2>2, <2>3
<1> HIDE DEF P
<1>7. ToSet(P) = {s \in ToSet(listed) : s.time <= now}
  BY <1>5, <1>6
<1> QED BY <1>4, <1>5, <1>7 DEF P

\* Of the backups nothing is dropped.
LEMMA DestsNow ==
    ASSUME Whole, Sane, NEW seen, Sees(seen)
    PROVE  Dropped(now, seen) = seen
<1>1. seen \in Seq(Seq(Backups)) /\ DOMAIN seen = Dests
  BY DEF Sees
<1>2. ASSUME NEW d \in Dests PROVE dropFutureDated(now, seen[d]) = seen[d]
  <2>1. seen[d] \in Seq(Backups) /\ ToSet(seen[d]) = dest[d]
    BY SeesLists
  <2>2. \A i \in DOMAIN seen[d] : seen[d][i] \in Backups /\ seen[d][i].base.time <= now
    <3>1. \A i \in DOMAIN seen[d] : seen[d][i] \in dest[d]
      BY <2>1 DEF ToSet
    <3> QED BY <2>1, <3>1 DEF Sane, Passed
  <2>3. \A i \in DOMAIN seen[d] : ~(Dated(seen[d][i]) > now + futureSlack)
    <3>1. now \in Nat /\ futureSlack \in Nat
      BY Times
    <3> QED BY <2>2, <3>1, DatedBackup
  <2>4. Future(now, seen[d]) = {}
    BY <2>3 DEF Future
  <2>5. PICK b : b = seen[d]
    OBVIOUS
  <2>6. dropFutureDated(now, b) = b
    BY <2>1, <2>4, <2>5, NothingDropped
  <2> QED BY <2>5, <2>6
<1>3. Dropped(now, seen) = [d \in Dests |-> seen[d]]
  BY <1>1, <1>2 DEF Dropped
<1>4. seen = [d \in Dests |-> seen[d]]
  BY <1>1
<1> QED BY <1>3, <1>4

\* Every destination has the same.
InStepEqual == \A d, e \in Dests : dest[d] = dest[e]

\* Destinations that are alike look alike, and there is nothing to complete.
LEMMA Alike ==
    ASSUME Whole, InStepEqual, NEW seen, Sees(seen)
    PROVE  (\A d, e \in Dests : seen[d] = seen[e]) /\ partialSet(seen) = NoBackup
<1>1. seen \in Seq(Seq(Backups)) /\ DOMAIN seen = Dests /\ \A d \in Dests : seen[d] = sortBackupsNewestFirst(dest[d])
  BY DEF Sees
<1>2. \A d, e \in Dests : seen[d] = seen[e]
  BY <1>1 DEF InStepEqual
<1>3. seen # <<>>
  <2>1. Dests # {}
    BY SomeDestination DEF Whole, Inv
  <2> QED BY <1>1, <2>1
<1>4. ASSUME partialSet(seen) # NoBackup PROVE FALSE
  <2>1. PICK l \in DOMAIN seen : \E i \in DOMAIN seen : ~sameSets(seen[i], seen[l])
    BY <1>1, <1>3, <1>4, PartialLeads
  <2>2. PICK i \in DOMAIN seen : ~sameSets(seen[i], seen[l])
    BY <2>1
  <2>3. seen[i] = seen[l]
    BY <1>1, <1>2
  <2> QED BY <2>2, <2>3, SameSets DEF sameSets
<1> QED BY <1>2, <1>4

\* Destinations that are not alike differ by some backup.
LEMMA ApartOrAlike ==
    ASSUME Whole
    PROVE  InStepEqual \/ \E d, e \in Dests : \E x \in dest[d] : x \notin dest[e]
BY DEF InStepEqual

\* The first of a list is at least as new as the others.
LEMMA FirstIsNewest ==
    ASSUME NEW b \in Seq(Backups), NewestFirst(b), NEW i \in DOMAIN b
    PROVE  b # <<>> /\ LastOf(b) = b[1].base /\ b[i].base.time <= b[1].base.time /\ b[1].base.time \in Nat /\ b[i].base.time \in Nat
<1>1. b # <<>> /\ 1 \in DOMAIN b /\ i \in Nat /\ 1 <= i /\ b[1] \in Backups /\ b[i] \in Backups
  OBVIOUS
<1>2. LastOf(b) = b[1].base
  BY <1>1, LastBase DEF LastOf
<1>3. Dated(b[i]) <= Dated(b[1])
  <2>1. CASE i = 1
    BY <1>1, <2>1, DatedBackup
  <2>2. CASE i # 1
    BY <1>1, <2>2 DEF NewestFirst
  <2> QED BY <2>1, <2>2
<1> QED BY <1>1, <1>2, <1>3, DatedBackup

\* A set's newest-ness does not depend on which send of it.
LEMMA SameSetNewest ==
    ASSUME NEW a, NEW b, sameSet(a, b), Newest(b)
    PROVE  Newest(a)
<1>1. a.base.time = b.base.time
  BY DEF sameSet, Same
<1>2. \A x : sameSet(x, b) => sameSet(x, a)
  BY SameSets
<1> QED BY <1>1, <1>2 DEF Newest, After

\* Completing a partial set names that set.
LEMMA PartialPlan ==
    ASSUME NEW x
    PROVE  /\ planPartial(x).base = x.base
           /\ IsFull(x) => planPartial(x).action = "full"
           /\ ~IsFull(x) => planPartial(x).action = "incremental" /\ planPartial(x).source = x.source
BY DEF planPartial, Full, Incremental, Decision

\* So what the planner decides to send is the newest set, of a snapshot the pool has passed.
LEMMA SteadyPlan ==
    ASSUME Whole, Steady, InStep, Sane, NEW listed, Lists(listed), NEW seen, Sees(seen), NEW job \in scenario.jobs,
           NEW p, p = planSmartAt(now, job, listed, seen, PartialSetCompletable(job, seen)),
           p.action \notin {"noop", "error"}, NEW set, set.base = p.base,
           set.source = IF p.action = "incremental" THEN p.source ELSE NoSnapshot
    PROVE  Newest(set) /\ Passed(p.base) /\ ~p.base.bookmark
<1> DEFINE P == dropFutureDated(now, listed)
           c == PartialSetCompletable(job, seen)
<1>1. job.mode \in {"increment", "window"}
  BY JobFacts DEF Whole, Inv, Steady
<1>2. P \in Seq(Snapshots) /\ ToSet(P) = {s \in ToSet(listed) : s.time <= now}
  BY PoolNow DEF Lists
<1>3. seen \in Seq(Seq(Backups)) /\ DOMAIN seen = Dests
  BY DEF Sees
<1>4. Readable(P, seen) /\ 1 \in Dests
  <2>1. 1 \in Dests
    BY WholeFacts DEF Dests
  <2> QED BY <1>2, <1>3, <2>1 DEF Readable
<1>5. Dropped(now, seen) = seen
  BY DestsNow
<1>6. p = planSmart(job, P, seen, c)
  BY <1>5 DEF planSmartAt, Dropped
<1> HIDE DEF P, c
<1>7. Decided(job, P, seen, c, p)
  BY <1>1, <1>4, <1>6, SmartPlanned
<1>8. ASSUME NEW d \in Dests, NEW e \in Dests, NEW x \in dest[d], x \notin dest[e]
      PROVE  Newest(set) /\ Passed(p.base) /\ ~p.base.bookmark
  <2>1. partialSet(seen) = x /\ Newest(x) /\ c
    BY <1>8, Apart DEF c
  <2>2. x \in Backups /\ x # NoBackup
    <3>1. x \in Backups
      BY DEF Whole, Typed
    <3> QED BY <3>1, NoBackupIsNone
  <2>3. p = planPartial(x)
    <3>1. p # Error("no snapshots")
      <4>1. Error("no snapshots").action = "error"
        BY DEF Error, Decision
      <4> QED BY <4>1
    <3> QED BY <1>1, <1>7, <2>1, <2>2, <3>1 DEF Decided
  <2>4. IsFull(x) => p.action = "full" /\ p.base = x.base
    BY <2>3, PartialPlan
  <2>5. ~IsFull(x) => p.action = "incremental" /\ p.base = x.base /\ p.source = x.source
    BY <2>3, PartialPlan
  <2>6. p.base = x.base
    BY <2>4, <2>5
  <2>7. sameSet(set, x)
    <3>1. Same(set.base, x.base)
      BY <2>6 DEF Same
    <3>2. Same(set.source, x.source)
      BY <2>4, <2>5 DEF IsFull, Same
    <3> QED BY <3>1, <3>2 DEF sameSet
  <2>8. Newest(set)
    BY <2>1, <2>7, SameSetNewest
  <2>9. Passed(x.base) /\ ~x.base.bookmark
    BY DEF Sane
  <2> QED BY <2>6, <2>8, <2>9
<1>9. ASSUME InStepEqual
      PROVE  Newest(set) /\ Passed(p.base) /\ ~p.base.bookmark
  <2>1. (\A d, e \in Dests : seen[d] = seen[e]) /\ partialSet(seen) = NoBackup
    BY <1>9, Alike
  <2>2. NewBase(job, P, seen, p.base)
    BY <1>7, <2>1 DEF Decided, Planned
  <2>3. p.base \in ToSet(P) /\ ~p.base.bookmark
    BY <2>2 DEF NewBase
  <2>4. Passed(p.base)
    BY <1>2, <2>3 DEF Lists
  <2>5. \A d \in Dests : /\ seen[d] \in Seq(Backups) /\ ToSet(seen[d]) = dest[d] /\ NewestFirst(seen[d]) /\ Unbroken(seen[d])
    BY SeesLists DEF Steady, Undisturbed, Kept
  <2>6. p.base.time \in Nat
    <3>1. p.base \in Snapshots
      BY <1>2, <2>3 DEF ToSet
    <3> QED BY <3>1, TakenSnapshot
  <2>7. ASSUME NEW d \in Dests, NEW x \in dest[d] PROVE After(p.base, x.base)
    <3>1. PICK i \in DOMAIN seen[d] : x = seen[d][i]
      BY <2>5 DEF ToSet
    <3>2. /\ seen[d] # <<>> /\ LastOf(seen[d]) = seen[d][1].base /\ seen[d][i].base.time <= seen[d][1].base.time
          /\ seen[d][1].base.time \in Nat /\ seen[d][i].base.time \in Nat
      BY <2>5, FirstIsNewest
    <3>3. ~\A k \in DOMAIN seen[1] : ~IsFull(seen[1][k])
      <4>1. seen[1] = seen[d]
        BY <1>4, <2>1
      <4>2. IsFull(chainFrom(seen[d], seen[d][i])[Len(seen[d])]) /\ \A n \in Nat : chainFrom(seen[d], seen[d][i])[n] \in ToSet(seen[d])
        <5>1. PICK b : b = seen[d]
          OBVIOUS
        <5>2. IsFull(chainFrom(b, b[i])[Len(b)]) /\ \A n \in Nat : chainFrom(b, b[i])[n] \in ToSet(b)
          BY <2>5, <5>1, FullReached
        <5> QED BY <5>1, <5>2
      <4>3. PICK m \in ToSet(seen[d]) : IsFull(m)
        <5>1. Len(seen[d]) \in Nat
          BY <2>5
        <5> QED BY <4>2, <5>1
      <4> QED BY <4>1, <4>3 DEF ToSet
    <3>4. PICK k \in Dests : After(p.base, LastOf(seen[k]))
      BY <1>1, <1>3, <2>2, <3>3 DEF NewBase
    <3>5. seen[k] = seen[d]
      BY <2>1
    <3>6. After(p.base, seen[d][1].base)
      BY <3>2, <3>4, <3>5
    <3> QED BY <2>6, <3>1, <3>2, <3>6 DEF After
  <2>8. Newest(set)
    BY <1>9, <2>7 DEF Newest, InStepEqual, After
  <2> QED BY <2>3, <2>4, <2>8
<1> QED BY <1>8, <1>9, ApartOrAlike

-----------------------------------------------------------------------------
(* Chains: every step, and the theorems.                                   *)

\* Nothing happens.
LEMMA SameWhole ==
    ASSUME Whole, scenario' = scenario, UNCHANGED <<dest, now, pool, run, count>>
    PROVE  Typed' /\ Chains'
<1>1. now \in 1..scenario.max.time /\ pool \in Seq(Snapshots) /\ count \in [Counters -> Nat]
  BY DEF Whole, Typed
<1>2. \A r \in Runner : run'[r] = run[r]
  OBVIOUS
<1> QED BY <1>1, <1>2, PlanningWhole

\* Every step.
LEMMA NextWhole == Whole /\ [Next]_vars => Whole'
<1> SUFFICES ASSUME Whole, [Next]_vars PROVE Typed' /\ Chains'
  BY NextInv DEF Whole
<1>0. scenario' = scenario
  BY DEF Next, vars
<1>1. ASSUME NEW ks \in scenario.batches, NEW step \in scenario.steps, TakeSnapshots(ks, step) PROVE Typed' /\ Chains'
  BY <1>0, <1>1, TakeSnapshotsWhole
<1>2. ASSUME NEW k \in Kinds, WrongClock(k) PROVE Typed' /\ Chains'
  BY <1>0, <1>2, WrongClockWhole
<1>3. ASSUME NEW i \in DOMAIN pool, Bookmark(i) PROVE Typed' /\ Chains'
  BY <1>0, <1>3, BookmarkWhole
<1>4. ASSUME NEW i \in DOMAIN pool, Prune(i) PROVE Typed' /\ Chains'
  BY <1>0, <1>4, PruneWhole
<1>5. ASSUME NEW d \in Dests, NEW m \in dest[d], DeleteSet(d, m) PROVE Typed' /\ Chains'
  BY <1>0, <1>5, DeleteSetWhole
<1>6. ASSUME NEW r \in Runner, NEW j \in scenario.jobs, ListPool(r, j) PROVE Typed' /\ Chains'
  BY <1>0, <1>6, ListPoolWhole
<1>7. ASSUME NEW r \in Runner, ListDest(r) PROVE Typed' /\ Chains'
  BY <1>0, <1>7, ListDestWhole
<1>8. ASSUME NEW r \in Runner, Decide(r) PROVE Typed' /\ Chains'
  BY <1>0, <1>8, DecideWhole
<1>9. ASSUME NEW r \in Runner, TryLock(r) PROVE Typed' /\ Chains'
  BY <1>0, <1>9, TryLockWhole
<1>10. ASSUME NEW r \in Runner, SendSet(r) PROVE Typed' /\ Chains'
  BY <1>0, <1>10, SendSetWhole
<1>11. ASSUME NEW r \in Runner, CompleteOrRefuse(r) PROVE Typed' /\ Chains'
  BY <1>0, <1>11, CompleteOrRefuseWhole
<1>12. ASSUME NEW r \in Runner, UploadVolumes(r) PROVE Typed' /\ Chains'
  BY <1>0, <1>12, UploadVolumesWhole
<1>13. ASSUME NEW r \in Runner, PublishManifest(r) PROVE Typed' /\ Chains'
  BY <1>0, <1>13, PublishManifestWhole
<1>14. ASSUME NEW r \in Runner, FailRun(r) PROVE Typed' /\ Chains'
  BY <1>0, <1>14, FailRunWhole
<1>15. CASE UNCHANGED vars
  BY <1>0, <1>15, SameWhole DEF vars
<1> QED BY <1>1, <1>2, <1>3, <1>4, <1>5, <1>6, <1>7, <1>8, <1>9, <1>10, <1>11, <1>12, <1>13, <1>14, <1>15
        DEF Next, Advance

\* The inductive invariant of the chains: an incremental that is published, planned or being
\* sent is newer than its source (planWindow and planIncremental compare dates only), and,
\* where nothing is deleted, the source has a backup at every destination.
THEOREM ChainInvariance == Spec => []Whole
<1>1. Init => Whole
  BY InitInv, InitWhole DEF Whole
<1> QED BY <1>1, NextWhole, PTL DEF Spec

\* The invariant gives it: the chain of a list that is unbroken ends in a full.
LEMMA WholeRestores == Whole => EveryBackupRestores
<1> SUFFICES ASSUME Whole, Kept, NEW d \in Dests, NEW m \in dest[d]
             PROVE  IsFull(ChainOf(dest[d], m)[Cardinality(dest[d])])
  BY DEF EveryBackupRestores
<1>1. Manifests(dest[d]) /\ Linked(dest[d])
  BY WholeFacts
<1>2. PICK b : b = sortBackupsNewestFirst(dest[d])
  OBVIOUS
<1>3. b \in Seq(Backups) /\ NewestFirst(b) /\ Unbroken(b)
  BY <1>1, <1>2, SortedChains
<1>4. ToSet(b) = dest[d] /\ Len(b) = Cardinality(dest[d])
  BY <1>1, <1>2, SortedList
<1>5. PICK i \in DOMAIN b : m = b[i]
  BY <1>4 DEF ToSet
<1>6. IsFull(chainFrom(b, b[i])[Len(b)])
  BY <1>3, <1>5, FullReached
<1> QED BY <1>2, <1>4, <1>5, <1>6 DEF ChainOf

\* Where nothing is deleted every backup at every destination restores from that destination
\* alone: selectSmartSnapshots decided on lists it had read without the lock, runs overlap,
\* manifest uploads fail at some destinations and are completed later, and still no send
\* leaves an incremental without its chain to a full.  For any number of runs, destinations,
\* jobs and snapshots.
THEOREM BackupsRestore == Spec => []EveryBackupRestores
<1> QED BY ChainInvariance, WholeRestores, PTL

-----------------------------------------------------------------------------
(* Steady sends: the steps of the pool.                                    *)

\* What Progress says of steady sends.
Going ==
    /\ InStep /\ Sane
    /\ \A q, r \in Runner : run[q].pc # "idle" /\ run[r].pc # "idle" => q = r
    /\ \A r \in Runner : AheadRun(run[r])

\* Progress in those parts.
LEMMA ProgressParts ==
    Progress <=> /\ Datable(pool) /\ \A r \in Runner : run[r].pc = "list" => Datable(run[r].listed)
                 /\ Steady => Going
BY DEF Progress, Going, Sane

\* The scenario settles what is steady.
LEMMA SameScenario ==
    ASSUME scenario' = scenario
    PROVE  Dests' = Dests /\ Steady' = Steady /\ Kept' = Kept
BY DEF Dests, Steady, Undisturbed, Kept

\* A run that is idle is at no set.
LEMMA IdleAhead ==
    ASSUME NEW me, me.pc = "idle"
    PROVE  AheadRun(me)
BY DEF AheadRun

\* At first.
LEMMA InitProgress == Init => Progress
<1> SUFFICES ASSUME Init PROVE Progress
  OBVIOUS
<1>1. pool = <<>> /\ dest = [d \in Dests |-> {}] /\ run = [r \in Runner |-> NoRun]
  BY DEF Init
<1>2. \A r \in Runner : run[r].pc = "idle"
  BY <1>1, NoRunIdle
<1>3. Datable(pool)
  BY <1>1 DEF Datable, NewestFirst, ToSet
<1>4. InStep /\ Sane
  BY <1>1 DEF InStep, Sane
<1>5. \A r \in Runner : AheadRun(run[r])
  BY <1>2, IdleAhead
<1>6. Going
  BY <1>2, <1>4, <1>5 DEF Going
<1> QED BY <1>2, <1>3, <1>6, ProgressParts

\* A list stays as datable as time goes on.
LEMMA DatableKept ==
    ASSUME scenario' = scenario, now \in Nat, now' \in Nat, now <= now', NEW seq \in Seq(Snapshots), Datable(seq)
    PROVE  Datable(seq)'
<1>1. \A s \in ToSet(seq) : s.time \in Nat
  BY TakenSnapshot DEF ToSet
<1>2. \A s \in ToSet(seq) : s.time <= now => s.time <= now'
  BY <1>1
<1> QED BY <1>2 DEF Datable, NewestFirst

\* What a run has in hand while nothing changes at the destinations.
LEMMA AheadKept ==
    ASSUME scenario' = scenario, dest' = dest, \A s \in Snapshots : Passed(s) => Passed(s)',
           NEW me, TypedRun(me), AheadRun(me),
           me.pc = "list" => \A s \in ToSet(me.listed) : s.time <= now' => s.time <= now
    PROVE  AheadRun(me)'
<1>1. Dests' = Dests
  BY SameScenario
<1>2. \A x : Newest(x)' <=> Newest(x)
  BY <1>1 DEF Newest
<1>3. \A d : getBackupsForTarget(d)' = getBackupsForTarget(d)
  BY DEF getBackupsForTarget
<1>4. PICK a : a = SetOf(me)'
  OBVIOUS
<1>5. PICK b : b = SetOf(me)
  OBVIOUS
<1>6. a.base = b.base /\ a.source = b.source
  BY <1>4, <1>5 DEF SetOf
<1>7. sameSet(a, b)
  BY <1>6 DEF sameSet, Same
<1>8. Newest(b) => Newest(a)'
  BY <1>2, <1>7, SameSetNewest
<1>9. me.pc = "list" => /\ \A d \in DOMAIN me.seen : me.seen[d] = getBackupsForTarget(d)'
                        /\ \A s \in ToSet(me.listed) : s.time <= now' => Passed(s)'
  <2>1. me.pc = "list" => \A s \in ToSet(me.listed) : s \in Snapshots
    BY DEF TypedRun, ToSet
  <2> QED BY <1>3, <2>1 DEF AheadRun
<1>10. me.pc \in {"planned", "locked"} => Newest(a)' /\ Passed(me.plan.base)' /\ ~me.plan.base.bookmark
  BY <1>5, <1>8 DEF AheadRun, TypedRun
<1>11. me.pc \in {"upload", "publish"} => Newest(me.set)' /\ Passed(me.set.base)' /\ ~me.set.base.bookmark
  <2>1. me.pc \in {"upload", "publish"} => me.set.base \in Snapshots
    BY DEF TypedRun, Backups
  <2> QED BY <1>2, <2>1 DEF AheadRun
<1>12. me.pc = "publish" => \A d \in Dests \ me.todo : me.set \in dest[d]
  BY DEF AheadRun
<1>13. me.pc \in {"planned", "locked"} => Newest(SetOf(me))'
  BY <1>4, <1>10
<1> QED BY <1>1, <1>9, <1>10, <1>11, <1>12, <1>13 DEF AheadRun

\* The pool's steps.
LEMMA PoolProgress ==
    ASSUME Whole, Progress, scenario' = scenario, UNCHANGED <<dest, vols, run>>, now' \in Nat, now <= now',
           now' <= scenario.max.time, Datable(pool)', \A s \in Snapshots : Passed(s) => Passed(s)'
    PROVE  Progress'
<1>1. Dests' = Dests /\ Steady' = Steady
  BY SameScenario
<1>2. now \in Nat /\ scenario.max.time \in Nat /\ futureSlack \in Nat
  BY Times
<1>3. \A r \in Runner : run[r].pc = "list" => run[r].listed \in Seq(Snapshots) /\ Datable(run[r].listed)
  BY WholeFacts, ProgressParts DEF TypedRun
<1>4. ASSUME NEW r \in Runner, run[r].pc = "list"
      PROVE  Datable(run[r].listed)' /\ \A s \in ToSet(run[r].listed) : s.time <= now' => s.time <= now
  <2>1. PICK seq \in Seq(Snapshots) : seq = run[r].listed
    BY <1>3, <1>4
  <2>2. Datable(seq)
    BY <1>3, <1>4, <2>1
  <2>3. Datable(seq)'
    BY <1>2, <2>2, DatableKept
  <2>4. \A s \in ToSet(seq) : s.time \in Nat /\ (s.time <= now \/ s.time > scenario.max.time + futureSlack)
    BY <2>2, TakenSnapshot DEF ToSet, Datable
  <2>5. \A s \in ToSet(seq) : s.time <= now' => s.time <= now
    BY <1>2, <2>4
  <2> QED BY <2>1, <2>3, <2>5
<1>5. ASSUME Steady PROVE Going'
  <2>1. Going
    BY <1>5, ProgressParts
  <2>2. InStep'
    BY <1>1, <2>1 DEF Going, InStep, Newest, verifyVolumesAt
  <2>3. Sane'
    <3>1. \A d \in Dests : \A x \in dest[d] : x.base \in Snapshots
      BY DEF Whole, Typed, Backups
    <3> QED BY <1>1, <2>1, <3>1 DEF Going, Sane
  <2>4. ASSUME NEW r \in Runner PROVE AheadRun(run[r])'
    <3>1. PICK me : me = run[r]
      OBVIOUS
    <3>2. AheadRun(me) /\ TypedRun(me) /\ (me.pc = "list" => \A s \in ToSet(me.listed) : s.time <= now' => s.time <= now)
      BY <1>4, <2>1, <3>1, WholeFacts DEF Going
    <3>3. AheadRun(me)'
      BY <3>2, AheadKept
    <3> QED BY <3>1, <3>3
  <2>5. \A q, r \in Runner : run'[q].pc # "idle" /\ run'[r].pc # "idle" => q = r
    BY <2>1 DEF Going
  <2> QED BY <2>2, <2>3, <2>4, <2>5 DEF Going
<1>6. (\A r \in Runner : run[r].pc = "list" => Datable(run[r].listed))'
  BY <1>4
<1>7. Datable(pool)' /\ (\A r \in Runner : run[r].pc = "list" => Datable(run[r].listed))' /\ (Steady' => Going')
  BY <1>1, <1>5, <1>6
<1> QED BY <1>7 DEF Progress, Going, Sane

\* A step of a run that leaves the pool, the clock and the destinations as they are.
LEMMA RunProgress ==
    ASSUME Whole, Progress, Typed', scenario' = scenario, UNCHANGED <<dest, vols, now, pool>>,
           NEW r \in Runner, NEW new, Set(r, new), new.pc = "list" => Datable(new.listed),
           Steady => AheadRun(new) /\ \A q \in Runner \ {r} : run[q].pc = "idle"
    PROVE  Progress'
<1>1. Dests' = Dests /\ Steady' = Steady
  BY SameScenario
<1>2. run'[r] = new /\ \A q \in Runner : q # r => run'[q] = run[q]
  BY SetFacts DEF Whole
<1>3. \A seq : Datable(seq)' <=> Datable(seq)
  BY DEF Datable, NewestFirst
<1>4. \A s : Passed(s) => Passed(s)'
  BY DEF Passed
<1>5. \A q \in Runner : run'[q].pc = "list" => Datable(run'[q].listed)
  BY <1>2, ProgressParts
<1>6. ASSUME Steady PROVE Going'
  <2>1. Going
    BY <1>6, ProgressParts
  <2>2. InStep'
    BY <1>1, <2>1 DEF Going, InStep, Newest, verifyVolumesAt
  <2>3. Sane'
    BY <1>1, <1>4, <2>1 DEF Going, Sane
  <2>4. ASSUME NEW q \in Runner PROVE AheadRun(run[q])'
    <3>1. PICK me : me = run'[q]
      OBVIOUS
    <3>2. AheadRun(me)
      BY <1>2, <1>6, <2>1, <3>1 DEF Going
    <3>3. TypedRun(run[q])'
      BY DEF Typed
    <3>4. TypedRun(me)
      BY <3>1, <3>3 DEF TypedRun
    <3>5. AheadRun(me)'
      BY <1>4, <3>2, <3>4, AheadKept
    <3> QED BY <3>1, <3>5
  <2>5. \A p, q \in Runner : run'[p].pc # "idle" /\ run'[q].pc # "idle" => p = q
    BY <1>2, <1>6
  <2> QED BY <2>2, <2>3, <2>4, <2>5 DEF Going
<1>7. Datable(pool)' /\ (\A q \in Runner : run[q].pc = "list" => Datable(run[q].listed))' /\ (Steady' => Going')
  BY <1>1, <1>3, <1>5, <1>6, ProgressParts
<1> QED BY <1>7 DEF Progress, Going, Sane

\* Steady, a run that is not idle is the only one.
LEMMA OthersIdle ==
    ASSUME Progress, Steady, NEW r \in Runner, run[r].pc # "idle"
    PROVE  (\A q \in Runner \ {r} : run[q].pc = "idle") /\ AheadRun(run[r]) /\ InStep /\ Sane
BY ProgressParts DEF Going

\* A run that ends.
LEMMA ReturnProgress ==
    ASSUME Whole, Progress, Typed', scenario' = scenario, UNCHANGED <<dest, vols, now, pool>>,
           NEW r \in Runner, run[r].pc # "idle", Set(r, NoRun)
    PROVE  Progress'
<1>1. NoRun.pc = "idle" /\ AheadRun(NoRun)
  BY NoRunIdle, IdleAhead
<1>2. Steady => \A q \in Runner \ {r} : run[q].pc = "idle"
  BY OthersIdle
<1> HIDE DEF NoRun
<1> QED BY <1>1, <1>2, RunProgress

\* New snapshots are newer, and pass what was.
LEMMA TakeSnapshotsProgress ==
    ASSUME Whole, Progress, scenario' = scenario, NEW ks \in scenario.batches, NEW step \in scenario.steps, TakeSnapshots(ks, step)
    PROVE  Progress'
<1>1. /\ Typed' /\ now' \in Nat /\ now < now' /\ UNCHANGED <<dest, vols, run>>
      /\ ToSet(pool) \subseteq ToSet(pool') /\ (\A s \in ToSet(pool') \ ToSet(pool) : s.time = now')
      /\ (NewestFirst(pool) => NewestFirst(pool'))
  BY TakeSnapshotsWhole
<1>2. now' <= scenario.max.time
  BY DEF TakeSnapshots
<1>3. now \in Nat /\ scenario.max.time \in Nat /\ pool \in Seq(Snapshots) /\ Datable(pool)
  BY Times, ProgressParts DEF Whole, Typed
<1>4. Datable(pool)'
  <2>1. Datable(pool)' <=> NewestFirst(pool') /\ \A s \in ToSet(pool') : s.time <= now' \/ s.time > scenario.max.time + futureSlack
    BY DEF Datable, NewestFirst
  <2>2. \A s \in ToSet(pool) : s.time \in Nat /\ (s.time <= now \/ s.time > scenario.max.time + futureSlack)
    BY <1>3, TakenSnapshot DEF ToSet, Datable
  <2>3. \A s \in ToSet(pool') : s.time <= now' \/ s.time > scenario.max.time + futureSlack
    BY <1>1, <1>3, <2>2
  <2> QED BY <1>1, <1>3, <2>1, <2>3 DEF Datable
<1>5. \A s \in Snapshots : Passed(s) => Passed(s)'
  <2> SUFFICES ASSUME NEW s \in Snapshots, Passed(s) PROVE Passed(s)'
    OBVIOUS
  <2>1. PICK t \in ToSet(pool) : s.time <= t.time /\ t.time <= now
    BY DEF Passed
  <2>2. t.time \in Nat
    BY <1>3, TakenSnapshot DEF ToSet
  <2>3. t \in ToSet(pool') /\ t.time <= now'
    BY <1>1, <1>3, <2>1, <2>2
  <2>4. s.time <= now'
    BY <1>1, <1>3, TakenSnapshot DEF Passed
  <2> QED BY <2>1, <2>3, <2>4 DEF Passed
<1> QED BY <1>1, <1>2, <1>3, <1>4, <1>5, PoolProgress

\* A wrong clock is wrong by more than the slack.
LEMMA WrongClockProgress ==
    ASSUME Whole, Progress, scenario' = scenario, NEW k \in Kinds, WrongClock(k)
    PROVE  Progress'
<1>1. /\ UNCHANGED <<now, dest, vols, run>>
      /\ ToSet(pool) \subseteq ToSet(pool')
      /\ \A s \in ToSet(pool') \ ToSet(pool) : s.time = scenario.max.time + futureSlack + 1
      /\ (NewestFirst(pool) => NewestFirst(pool'))
  BY WrongClockWhole
<1>2. now \in Nat /\ scenario.max.time \in Nat /\ now <= scenario.max.time /\ futureSlack \in Nat /\ Datable(pool)
  BY Times, ProgressParts
<1>3. Datable(pool)'
  <2>1. Datable(pool)' <=> NewestFirst(pool') /\ \A s \in ToSet(pool') : s.time <= now \/ s.time > scenario.max.time + futureSlack
    BY <1>1 DEF Datable, NewestFirst
  <2> QED BY <1>1, <1>2, <2>1 DEF Datable
<1>4. \A s \in Snapshots : Passed(s) => Passed(s)'
  BY <1>1 DEF Passed
<1> QED BY <1>1, <1>2, <1>3, <1>4, PoolProgress

\* A bookmark is as old as its snapshot.
LEMMA BookmarkProgress ==
    ASSUME Whole, Progress, scenario' = scenario, NEW i \in DOMAIN pool, Bookmark(i)
    PROVE  Progress'
<1>1. /\ UNCHANGED <<now, dest, vols, run>>
      /\ ToSet(pool) \subseteq ToSet(pool')
      /\ \A s \in ToSet(pool') : \E t \in ToSet(pool) : s.time = t.time
      /\ (NewestFirst(pool) => NewestFirst(pool'))
  BY BookmarkWhole
<1>2. now \in Nat /\ now <= scenario.max.time /\ Datable(pool)
  BY Times, ProgressParts
<1>3. Datable(pool)'
  <2>1. Datable(pool)' <=> NewestFirst(pool') /\ \A s \in ToSet(pool') : s.time <= now \/ s.time > scenario.max.time + futureSlack
    BY <1>1 DEF Datable, NewestFirst
  <2> QED BY <1>1, <1>2, <2>1 DEF Datable
<1>4. \A s \in Snapshots : Passed(s) => Passed(s)'
  BY <1>1 DEF Passed
<1> QED BY <1>1, <1>2, <1>3, <1>4, PoolProgress

\* What is pruned has been passed by a newer one.
LEMMA PruneProgress ==
    ASSUME Whole, Progress, scenario' = scenario, NEW i \in DOMAIN pool, Prune(i)
    PROVE  Progress'
<1>1. /\ Typed' /\ UNCHANGED <<now, dest, vols, run>>
      /\ ToSet(pool') \subseteq ToSet(pool)
      /\ \A s \in ToSet(pool) : s \in ToSet(pool') \/ \E t \in ToSet(pool') : s.time <= t.time /\ t.time <= now
      /\ (NewestFirst(pool) => NewestFirst(pool'))
  BY PruneWhole
<1>2. now \in Nat /\ now <= scenario.max.time /\ Datable(pool) /\ pool \in Seq(Snapshots)
  BY Times, ProgressParts DEF Whole, Typed
<1>3. Datable(pool)'
  <2>1. Datable(pool)' <=> NewestFirst(pool') /\ \A s \in ToSet(pool') : s.time <= now \/ s.time > scenario.max.time + futureSlack
    BY <1>1 DEF Datable, NewestFirst
  <2> QED BY <1>1, <1>2, <2>1 DEF Datable
<1>4. \A s \in Snapshots : Passed(s) => Passed(s)'
  <2> SUFFICES ASSUME NEW s \in Snapshots, Passed(s) PROVE Passed(s)'
    OBVIOUS
  <2>1. PICK t \in ToSet(pool) : s.time <= t.time /\ t.time <= now
    BY DEF Passed
  <2>2. CASE t \in ToSet(pool')
    BY <1>1, <2>1, <2>2 DEF Passed
  <2>3. CASE \E u \in ToSet(pool') : t.time <= u.time /\ u.time <= now
    <3>1. PICK u \in ToSet(pool') : t.time <= u.time /\ u.time <= now
      BY <2>3
    <3>2. t \in Snapshots /\ u \in Snapshots
      <4>1. u \in ToSet(pool)
        BY <1>1
      <4> QED BY <1>2, <4>1 DEF ToSet
    <3>3. t.time \in Nat /\ u.time \in Nat /\ s.time \in Nat
      BY <3>2, TakenSnapshot
    <3>4. s.time <= u.time
      BY <2>1, <3>1, <3>3
    <3> QED BY <1>1, <2>1, <3>1, <3>4 DEF Passed
  <2> QED BY <1>1, <2>2, <2>3
<1> QED BY <1>1, <1>2, <1>3, <1>4, PoolProgress

-----------------------------------------------------------------------------
(* Steady sends: the steps of a run.                                       *)

\* ListPool: what is listed is the pool.
LEMMA ListPoolProgress ==
    ASSUME Whole, Progress, Typed', scenario' = scenario, NEW r \in Runner, NEW j \in scenario.jobs, ListPool(r, j)
    PROVE  Progress'
<1> DEFINE new == [NoRun EXCEPT !.pc = "list", !.job = j, !.listed = pool]
           busy == {q \in Runner : run[q].pc # "idle"}
<1>1. run[r].pc = "idle" /\ Cardinality(busy) < scenario.overlap /\ Set(r, new) /\ UNCHANGED <<dest, vols, now, pool>>
  BY DEF ListPool
<1>2. new.pc = "list" /\ new.listed = pool /\ new.seen = <<>>
  BY DEF NoRun
<1> HIDE DEF new
<1>3. Datable(pool)
  BY ProgressParts
<1>4. AheadRun(new)
  <2>1. pool \in Seq(Snapshots)
    BY DEF Whole, Typed
  <2>2. \A s \in ToSet(pool) : s.time \in Nat
    BY <2>1, TakenSnapshot DEF ToSet
  <2>3. \A s \in ToSet(pool) : s.time <= now => Passed(s)
    BY <2>2 DEF Passed
  <2> QED BY <1>2, <2>3 DEF AheadRun
<1>5. ASSUME Steady PROVE \A q \in Runner \ {r} : run[q].pc = "idle"
  <2>1. scenario.overlap = 1
    BY <1>5 DEF Steady, Undisturbed
  <2>2. IsFiniteSet(busy)
    BY SmartAssumption, FS_Subset
  <2>3. Cardinality(busy) \in Nat
    BY <2>2, FS_CardinalityType
  <2>4. Cardinality(busy) = 0
    BY <1>1, <2>1, <2>3
  <2>5. busy = {}
    BY <2>2, <2>4, FS_EmptySet
  <2> QED BY <2>5
<1> QED BY <1>1, <1>2, <1>3, <1>4, <1>5, RunProgress

\* ListDest: what is listed is the destination, and stays so, as no other run sends.
LEMMA ListDestProgress ==
    ASSUME Whole, Progress, Typed', scenario' = scenario, NEW r \in Runner, ListDest(r)
    PROVE  Progress'
<1> DEFINE d == Len(run[r].seen) + 1
           b == getBackupsForTarget(d)
           new == [run[r] EXCEPT !.seen = Append(@, b)]
<1>1. run[r].pc = "list" /\ Set(r, new) /\ UNCHANGED <<dest, vols, now, pool>>
  BY DEF ListDest
<1>2. TypedRun(run[r]) /\ DOMAIN run[r] = DOMAIN NoRun
  BY WholeFacts
<1>3. new.pc = "list" /\ new.listed = run[r].listed /\ new.seen = Append(run[r].seen, b)
  BY <1>1, <1>2 DEF NoRun
<1> DEFINE seen == run[r].seen
           after == Append(seen, b)
<1>4. seen \in Seq(Seq(Backups))
  BY <1>1, <1>2 DEF TypedRun
<1> HIDE DEF new, b
<1>5. DOMAIN after = DOMAIN seen \cup {d} /\ (\A e \in DOMAIN seen : after[e] = seen[e]) /\ after[d] = b
  <2> HIDE DEF seen
  <2>1. d = Len(seen) + 1
    BY DEF seen
  <2> HIDE DEF d
  <2> QED BY <1>4, <2>1, SMTT(30)
<1>6. Datable(new.listed)
  BY <1>1, <1>3, ProgressParts
<1>7. ASSUME Steady PROVE AheadRun(new) /\ \A q \in Runner \ {r} : run[q].pc = "idle"
  <2>1. (\A q \in Runner \ {r} : run[q].pc = "idle") /\ AheadRun(run[r])
    BY <1>1, <1>7, OthersIdle
  <2>2. (\A e \in DOMAIN seen : seen[e] = getBackupsForTarget(e)) /\ \A s \in ToSet(run[r].listed) : s.time <= now => Passed(s)
    BY <1>1, <2>1 DEF AheadRun
  <2> HIDE DEF after, d, seen
  <2>3. \A e \in DOMAIN after : after[e] = getBackupsForTarget(e)
    BY <1>5, <2>2 DEF b
  <2>4. new.seen = after
    BY <1>3 DEF after, seen
  <2> QED BY <1>3, <2>1, <2>2, <2>3, <2>4 DEF AheadRun
<1> QED BY <1>1, <1>6, <1>7, RunProgress

\* Decide: SteadyPlan.
LEMMA DecideProgress ==
    ASSUME Whole, Progress, Typed', scenario' = scenario, NEW r \in Runner, Decide(r)
    PROVE  Progress'
<1> DEFINE me == run[r]
           p  == planSmartAt(now, me.job, me.listed, me.seen, PartialSetCompletable(me.job, me.seen))
           new == [me EXCEPT !.pc = "planned", !.plan = p, !.listed = <<>>, !.seen = <<>>]
<1> HIDE DEF p
<1>1. me.pc = "list" /\ Len(me.seen) = scenario.dests /\ UNCHANGED <<dest, vols, now, pool>>
      /\ (Set(r, NoRun) \/ (p.action \notin {"noop", "error"} /\ Set(r, new)))
  BY DEF Decide, p
<1>2. TypedRun(me) /\ DOMAIN me = DOMAIN NoRun /\ scenario.dests \in Nat \ {0}
  BY WholeFacts
<1>3. CASE Set(r, NoRun)
  BY <1>1, <1>3, ReturnProgress
<1>4. CASE p.action \notin {"noop", "error"} /\ Set(r, new)
  <2>1. new.pc = "planned" /\ new.job = me.job /\ new.plan = p
    BY <1>2 DEF NoRun
  <2> HIDE DEF new
  <2>2. me.job \in scenario.jobs /\ me.listed \in Seq(Snapshots) /\ me.seen \in Seq(Seq(Backups)) /\ Datable(me.listed)
    BY <1>1, <1>2, ProgressParts DEF TypedRun
  <2>3. DOMAIN me.seen = Dests
    BY <1>1, <1>2, <2>2 DEF Dests
  <2>4. ASSUME Steady PROVE AheadRun(new) /\ \A q \in Runner \ {r} : run[q].pc = "idle"
    <3>1. (\A q \in Runner \ {r} : run[q].pc = "idle") /\ AheadRun(me) /\ InStep /\ Sane
      BY <1>1, <2>4, OthersIdle
    <3>2. (\A e \in DOMAIN me.seen : me.seen[e] = getBackupsForTarget(e)) /\ \A s \in ToSet(me.listed) : s.time <= now => Passed(s)
      BY <1>1, <3>1 DEF AheadRun
    <3>3. Lists(me.listed)
      BY <2>2, <3>2 DEF Lists
    <3>4. Sees(me.seen)
      BY <2>2, <2>3, <3>2 DEF Sees, getBackupsForTarget
    <3>5. PICK listed : listed = me.listed
      OBVIOUS
    <3>6. PICK seen : seen = me.seen
      OBVIOUS
    <3>7. PICK job \in scenario.jobs : job = me.job
      BY <2>2
    <3>8. PICK q : q = p
      OBVIOUS
    <3>9. PICK set : set = SetOf(new)
      OBVIOUS
    <3>10. q = planSmartAt(now, job, listed, seen, PartialSetCompletable(job, seen))
      BY <3>5, <3>6, <3>7, <3>8 DEF p
    <3>11. set.base = q.base /\ set.source = IF q.action = "incremental" THEN q.source ELSE NoSnapshot
      BY <2>1, <3>8, <3>9 DEF SetOf
    <3>12. q.action \notin {"noop", "error"}
      BY <1>4, <3>8
    <3>13. Newest(set) /\ Passed(q.base) /\ ~q.base.bookmark
      BY <2>4, <3>1, <3>3, <3>4, <3>5, <3>6, <3>10, <3>11, <3>12, SteadyPlan
    <3>14. AheadRun(new)
      BY <2>1, <3>8, <3>9, <3>13 DEF AheadRun
    <3> QED BY <3>1, <3>14
  <2> QED BY <1>1, <1>4, <2>1, <2>4, RunProgress
<1> QED BY <1>1, <1>3, <1>4

\* TryLock: the plan is kept.
LEMMA TryLockProgress ==
    ASSUME Whole, Progress, Typed', scenario' = scenario, NEW r \in Runner, TryLock(r)
    PROVE  Progress'
<1> DEFINE new == [run[r] EXCEPT !.pc = "locked"]
<1>1. run[r].pc = "planned" /\ (Set(r, NoRun) \/ Set(r, new)) /\ UNCHANGED <<dest, vols, now, pool>>
  BY DEF TryLock
<1>2. DOMAIN run[r] = DOMAIN NoRun
  BY WholeFacts
<1>3. new.pc = "locked" /\ new.job = run[r].job /\ new.plan = run[r].plan
  BY <1>2 DEF NoRun
<1> HIDE DEF new
<1>4. SetOf(new) = SetOf(run[r])
  BY <1>3 DEF SetOf
<1>5. ASSUME Steady PROVE AheadRun(new) /\ \A q \in Runner \ {r} : run[q].pc = "idle"
  <2>1. (\A q \in Runner \ {r} : run[q].pc = "idle") /\ AheadRun(run[r])
    BY <1>1, <1>5, OthersIdle
  <2>2. Newest(SetOf(new)) /\ Passed(new.plan.base) /\ ~new.plan.base.bookmark
    BY <1>1, <1>3, <1>4, <2>1 DEF AheadRun
  <2> QED BY <1>3, <2>1, <2>2 DEF AheadRun
<1> QED BY <1>1, <1>3, <1>5, ReturnProgress, RunProgress

\* SendSet: the set is the plan's.
LEMMA SendSetProgress ==
    ASSUME Whole, Progress, Typed', scenario' = scenario, NEW r \in Runner, SendSet(r)
    PROVE  Progress'
<1> DEFINE me == run[r]
           set == SetOf(me)
           new == [me EXCEPT !.pc = "upload", !.set = set, !.todo = Dests]
<1>1. me.pc = "locked" /\ UNCHANGED <<dest, vols, now, pool>> /\ (Set(r, NoRun) \/ Set(r, new))
  BY DEF SendSet, ReturnBackup
<1>2. DOMAIN me = DOMAIN NoRun
  BY WholeFacts
<1>3. set.base = me.plan.base
  BY DEF SetOf
<1> HIDE DEF set
<1>4. new.pc = "upload" /\ new.set = set
  BY <1>2 DEF NoRun
<1> HIDE DEF new
<1>5. ASSUME Steady PROVE AheadRun(new) /\ \A q \in Runner \ {r} : run[q].pc = "idle"
  <2>1. (\A q \in Runner \ {r} : run[q].pc = "idle") /\ AheadRun(me)
    BY <1>1, <1>5, OthersIdle
  <2>2. Newest(set) /\ Passed(set.base) /\ ~set.base.bookmark
    BY <1>1, <1>3, <2>1 DEF AheadRun, set
  <2> QED BY <1>4, <2>1, <2>2 DEF AheadRun
<1> QED BY <1>1, <1>4, <1>5, ReturnProgress, RunProgress

\* CompleteOrRefuse: the set is at the destinations that are not to come.
LEMMA CompleteOrRefuseProgress ==
    ASSUME Whole, Progress, Typed', scenario' = scenario, NEW r \in Runner, CompleteOrRefuse(r)
    PROVE  Progress'
<1> DEFINE me == run[r]
           set == SetOf(me)
           have == Have(set)
           from == CHOOSE m \in dest[Min(have)] : sameSet(m, set)
           missing == Dests \ have
           new == [me EXCEPT !.pc = "publish", !.set = from, !.todo = missing]
<1>1. me.pc = "locked" /\ have # {} /\ UNCHANGED <<dest, vols, now, pool>> /\ (Set(r, NoRun) \/ Set(r, new))
  BY DEF CompleteOrRefuse, ReturnBackup
<1>2. DOMAIN me = DOMAIN NoRun
  BY WholeFacts
<1> HIDE DEF set
<1>3. have = {d \in Dests : \E m \in dest[d] : sameSet(m, set)}
  BY DEF Have
<1> HIDE DEF have
<1>4. Min(have) \in have
  BY <1>1, <1>3, FirstOf DEF Whole, Inv
<1>5. from \in dest[Min(have)] /\ sameSet(from, set) /\ Min(have) \in Dests
  BY <1>3, <1>4
<1> HIDE DEF from
<1> HIDE DEF missing
<1>6. new.pc = "publish" /\ new.set = from /\ new.todo = missing
  BY <1>2 DEF NoRun
<1> HIDE DEF new
<1>7. ASSUME Steady PROVE AheadRun(new) /\ \A q \in Runner \ {r} : run[q].pc = "idle"
  <2>1. (\A q \in Runner \ {r} : run[q].pc = "idle") /\ AheadRun(me) /\ InStep /\ Sane
    BY <1>1, <1>7, OthersIdle
  <2>2. Newest(set)
    BY <1>1, <2>1 DEF AheadRun, set
  <2>3. Newest(from)
    BY <1>5, <2>2, SameSetNewest
  <2>4. Passed(from.base) /\ ~from.base.bookmark
    BY <1>5, <2>1 DEF Sane
  <2>5. ASSUME NEW d \in Dests \ missing PROVE from \in dest[d]
    <3>1. PICK m \in dest[d] : sameSet(m, set)
      BY <1>3 DEF missing
    <3>2. m.base.time = from.base.time
      BY <1>5, <3>1 DEF sameSet, Same
    <3>3. m = from
      BY <1>5, <2>1, <3>2 DEF InStep
    <3> QED BY <3>3
  <2> QED BY <1>6, <2>1, <2>3, <2>4, <2>5 DEF AheadRun
<1> QED BY <1>1, <1>6, <1>7, ReturnProgress, RunProgress

\* FailRun: a set of which some manifests are missing stays the newest.
LEMMA FailRunProgress ==
    ASSUME Whole, Progress, Typed', scenario' = scenario, NEW r \in Runner, FailRun(r)
    PROVE  Progress'
<1>1. Set(r, NoRun) /\ run[r].pc # "idle" /\ UNCHANGED <<dest, vols, now, pool>>
  BY DEF FailRun, ReturnBackup
<1> QED BY <1>1, ReturnProgress

\* A step of the only run, whatever it does to the destinations.
LEMMA SteadyStep ==
    ASSUME Whole, Progress, scenario' = scenario, UNCHANGED <<now, pool>>,
           NEW r \in Runner, NEW new, Set(r, new), new.pc # "list", run[r].pc # "idle",
           Steady => InStep' /\ Sane' /\ AheadRun(new)'
    PROVE  Progress'
<1>1. Dests' = Dests /\ Steady' = Steady
  BY SameScenario
<1>2. run'[r] = new /\ \A q \in Runner : q # r => run'[q] = run[q]
  BY SetFacts DEF Whole
<1>3. \A seq : Datable(seq)' <=> Datable(seq)
  BY DEF Datable, NewestFirst
<1>4. \A q \in Runner : run'[q].pc = "list" => Datable(run'[q].listed)
  BY <1>2, ProgressParts
<1>5. ASSUME Steady PROVE Going'
  <2>1. \A q \in Runner \ {r} : run[q].pc = "idle"
    BY <1>5, OthersIdle
  <2>2. ASSUME NEW q \in Runner PROVE AheadRun(run[q])'
    <3>1. CASE q = r
      BY <1>2, <1>5, <3>1
    <3>2. CASE q # r
      <4>1. run'[q].pc = "idle"
        BY <1>2, <2>1, <3>2
      <4> QED BY <4>1 DEF AheadRun
    <3> QED BY <3>1, <3>2
  <2>3. \A p, q \in Runner : run'[p].pc # "idle" /\ run'[q].pc # "idle" => p = q
    BY <1>2, <2>1
  <2> QED BY <1>5, <2>2, <2>3 DEF Going
<1>6. Datable(pool)' /\ (\A q \in Runner : run[q].pc = "list" => Datable(run[q].listed))' /\ (Steady' => Going')
  BY <1>1, <1>3, <1>4, <1>5, ProgressParts
<1> QED BY <1>6 DEF Progress, Going, Sane

\* UploadVolumes: no destination has the set, so no published volumes change.
LEMMA UploadVolumesProgress ==
    ASSUME Whole, Progress, scenario' = scenario, NEW r \in Runner, UploadVolumes(r)
    PROVE  Progress'
<1>0. PICK me : me = run[r]
  OBVIOUS
<1> DEFINE set == me.set
           d == Min(me.todo)
<1>a. PICK new : new = IF me.todo # {d} THEN [me EXCEPT !.todo = @ \ {d}]
                       ELSE [me EXCEPT !.pc = "publish", !.todo = Dests]
  OBVIOUS
<1>1. /\ me.pc = "upload" /\ Set(r, new) /\ UNCHANGED <<dest, now, pool>>
      /\ vols' = [vols EXCEPT ![d] = {v \in @ : ~sameSet(v, set)} \cup {set}]
  BY <1>0, <1>a DEF UploadVolumes
<1>2. DOMAIN me = DOMAIN NoRun /\ DOMAIN vols = Dests
  BY <1>0 DEF Whole, Inv, Shape
<1> HIDE DEF d
<1>3. new.pc = "upload" \/ (new.pc = "publish" /\ new.todo = Dests)
  BY <1>1, <1>2, <1>a DEF NoRun
<1>4. new.set = set
  BY <1>2, <1>a DEF NoRun
<1>5. Dests' = Dests
  BY SameScenario
<1>6. \A e \in Dests : \A m \in dest[e] : ~sameSet(m, set)
  BY <1>0, <1>1 DEF Whole, Inv, UploadsNew, Have
<1>7. ASSUME Steady PROVE InStep' /\ Sane' /\ AheadRun(new)'
  <2>1. AheadRun(me) /\ InStep /\ Sane
    BY <1>0, <1>1, <1>7, OthersIdle
  <2>2. \A x : Newest(x)' <=> Newest(x)
    BY <1>1, <1>5 DEF Newest
  <2>3. \A s : Passed(s)' <=> Passed(s)
    BY <1>1 DEF Passed
  <2>4. Newest(set) /\ Passed(set.base) /\ ~set.base.bookmark
    BY <1>1, <2>1 DEF AheadRun
  <2>5. AheadRun(new)'
    BY <1>3, <1>4, <1>5, <2>2, <2>3, <2>4 DEF AheadRun
  <2>6. Sane'
    BY <1>1, <1>5, <2>1, <2>3 DEF Sane
  <2>7. ASSUME NEW a \in Dests, NEW x \in dest[a], NEW e \in Dests, verifyVolumesAt(e, x) PROVE verifyVolumesAt(e, x)'
    <3>1. PICK v \in vols[e] : sameSet(v, x) /\ v.att = x.att
      BY <2>7 DEF verifyVolumesAt
    <3>2. ~sameSet(v, set)
      BY <1>6, <3>1, SameSets
    <3>3. v \in vols'[e]
      BY <1>1, <1>2, <3>2
    <3> QED BY <3>1, <3>3 DEF verifyVolumesAt
  <2>8. InStep'
    BY <1>1, <1>5, <2>1, <2>2, <2>7 DEF InStep
  <2> QED BY <2>5, <2>6, <2>8
<1> QED BY <1>0, <1>1, <1>3, <1>7, SteadyStep

\* PublishManifest: the newest set, where its volumes are everywhere.
LEMMA PublishManifestProgress ==
    ASSUME Whole, Progress, scenario' = scenario, NEW r \in Runner, PublishManifest(r)
    PROVE  Progress'
<1>0. PICK me : me = run[r]
  OBVIOUS
<1> DEFINE set == me.set
           d == Min(me.todo)
           more == [me EXCEPT !.todo = @ \ {d}]
<1>a. PICK new : new = IF me.todo # {d} THEN more ELSE NoRun
  OBVIOUS
<1>1. /\ me.pc = "publish" /\ dest' = [dest EXCEPT ![d] = @ \cup {set}] /\ UNCHANGED <<now, pool, vols>>
      /\ Set(r, new)
  BY <1>0, <1>a DEF PublishManifest, ReturnBackup
<1>2. TypedRun(me) /\ DOMAIN me = DOMAIN NoRun /\ DOMAIN dest = Dests
  BY <1>0, WholeFacts DEF Whole, Inv, Shape
<1>3. /\ me.todo \subseteq Dests /\ me.todo # {}
      /\ \A e \in me.todo : verifyVolumesAt(e, set) /\ \A m \in dest[e] : ~sameSet(m, set)
  BY <1>0, <1>1 DEF Whole, Inv, PublishesBeside
<1>4. d \in me.todo /\ d \in Dests
  BY <1>3, FirstOf DEF Whole, Inv
<1> HIDE DEF d
<1>5. more.pc = "publish" /\ more.set = set /\ more.todo = me.todo \ {d}
  BY <1>1, <1>2 DEF NoRun
<1>6. new.pc = "idle" \/ (new.pc = "publish" /\ new.set = set /\ new.todo = me.todo \ {d})
  BY <1>5, <1>a, NoRunIdle
<1> HIDE DEF more
<1>7. Dests' = Dests
  BY SameScenario
<1>8. dest'[d] = dest[d] \cup {set} /\ \A e \in Dests : e # d => dest'[e] = dest[e]
  BY <1>1, <1>2, <1>4
<1>9. ASSUME Steady PROVE InStep' /\ Sane' /\ AheadRun(new)'
  <2>1. AheadRun(me) /\ InStep /\ Sane
    BY <1>0, <1>1, <1>9, OthersIdle
  <2>2. /\ Newest(set) /\ Passed(set.base) /\ ~set.base.bookmark
        /\ \A e \in Dests \ me.todo : set \in dest[e]
    BY <1>1, <2>1 DEF AheadRun
  <2>3. \A s : Passed(s)' <=> Passed(s)
    BY <1>1 DEF Passed
  <2>4. Sane'
    BY <1>7, <1>8, <2>1, <2>2, <2>3 DEF Sane
  <2>5. \A e \in Dests : \A y \in dest[e] : sameSet(y, set) => y = set
    <3> SUFFICES ASSUME NEW e \in Dests, NEW y \in dest[e], sameSet(y, set) PROVE y = set
      OBVIOUS
    <3>1. e \notin me.todo
      BY <1>3
    <3>2. set \in dest[e]
      BY <2>2, <3>1
    <3> QED BY <3>2 DEF Whole, Inv, SetsDiffer
  <2>6. \A e \in Dests : \A y \in dest[e] : y = set \/ (After(set.base, y.base) /\ \A a \in Dests : y \in dest[a])
    BY <2>2, <2>5 DEF Newest
  <2>7. \A e \in Dests : dest[e] \subseteq dest'[e] /\ \A y \in dest'[e] : y = set \/ y \in dest[e]
    BY <1>8
  <2>8. \A e \in Dests : \A y \in dest'[e] : y = set \/ (After(set.base, y.base) /\ \A a \in Dests : y \in dest'[a])
    BY <2>6, <2>7
  <2>9. \A m : sameSet(m, m)
    BY SameSets
  <2>10. Newest(set)'
    <3>1. \A e \in Dests : \A y \in dest'[e] : (sameSet(y, set) \/ After(set.base, y.base)) /\ \A a \in Dests : y \in dest'[a] \/ sameSet(y, set)
      BY <2>8, <2>9
    <3>2. PICK s : s = set
      OBVIOUS
    <3>3. Newest(s)'
      BY <1>7, <3>1, <3>2 DEF Newest
    <3> QED BY <3>2, <3>3
  <2>11. ASSUME NEW a \in Dests, NEW e \in Dests, NEW x \in dest'[a]
         PROVE  (\A y \in dest'[e] : x = y \/ x.base.time # y.base.time) /\ (x \in dest'[e] \/ (verifyVolumesAt(e, x)' /\ Newest(x)'))
    <3>1. \A y \in dest'[e] : x = y \/ x.base.time # y.base.time
      <4> SUFFICES ASSUME NEW y \in dest'[e], x # y PROVE x.base.time # y.base.time
        OBVIOUS
      <4>1. x.base.time \in Nat /\ y.base.time \in Nat /\ set.base.time \in Nat
        <5>1. x \in Backups /\ y \in Backups /\ set \in Backups
          BY <1>1, <1>2, <2>7 DEF TypedRun, Whole, Typed
        <5> QED BY <5>1, DatedBackup
      <4>2. x \in dest[a] /\ y \in dest[e] => x.base.time # y.base.time
        BY <2>1 DEF InStep
      <4>3. (x = set => After(set.base, y.base)) /\ (y = set => After(set.base, x.base))
        BY <2>8
      <4> QED BY <2>7, <4>1, <4>2, <4>3 DEF After
    <3>2. x \in dest'[e] \/ (x = set /\ e \in me.todo)
      BY <2>2, <2>7, <2>8
    <3>3. e \in me.todo => verifyVolumesAt(e, set)'
      BY <1>1, <1>3 DEF verifyVolumesAt
    <3> QED BY <2>10, <3>1, <3>2, <3>3
  <2>12. InStep'
    BY <1>7, <2>11 DEF InStep
  <2>13. AheadRun(new)'
    <3>1. \A e \in Dests \ (me.todo \ {d}) : set \in dest'[e]
      BY <1>8, <2>2, <2>7
    <3> QED BY <1>6, <1>7, <2>2, <2>3, <2>10, <3>1 DEF AheadRun
  <2> QED BY <2>4, <2>12, <2>13
<1> QED BY <1>0, <1>1, <1>6, <1>9, SteadyStep

\* Steady, nothing is deleted.
LEMMA DeleteSetProgress ==
    ASSUME Whole, Progress, scenario' = scenario, NEW d \in Dests, NEW m \in dest[d], DeleteSet(d, m)
    PROVE  Progress'
<1>1. ~Kept
  BY DeleteSetWhole
<1>2. ~Steady'
  BY <1>1, SameScenario DEF Steady, Undisturbed, Kept
<1>3. run' = [r \in Runner |-> [run[r] EXCEPT !.stale = run[r].pc # "idle"]] /\ UNCHANGED <<now, pool>>
  BY DEF DeleteSet
<1>4. \A seq : Datable(seq)' <=> Datable(seq)
  BY <1>3 DEF Datable, NewestFirst
<1>5. ASSUME NEW r \in Runner PROVE run'[r].pc = run[r].pc /\ run'[r].listed = run[r].listed
  <2>1. DOMAIN run[r] = DOMAIN NoRun
    BY WholeFacts
  <2>2. run'[r] = [run[r] EXCEPT !.stale = run[r].pc # "idle"]
    BY <1>3
  <2> QED BY <2>1, <2>2 DEF NoRun
<1>6. Datable(pool)' /\ (\A q \in Runner : run[q].pc = "list" => Datable(run[q].listed))'
  BY <1>3, <1>4, <1>5, ProgressParts
<1> QED BY <1>2, <1>6 DEF Progress

\* Nothing happens.
LEMMA SameProgress ==
    ASSUME Whole, Progress, UNCHANGED vars
    PROVE  Progress'
<1>1. scenario' = scenario /\ UNCHANGED <<dest, vols, run>> /\ now' = now /\ pool' = pool
  BY DEF vars
<1>2. now \in Nat /\ now <= scenario.max.time
  BY Times
<1>3. Datable(pool)' /\ \A s \in Snapshots : Passed(s) => Passed(s)'
  BY <1>1, ProgressParts DEF Datable, NewestFirst, Passed
<1> QED BY <1>1, <1>2, <1>3, PoolProgress

\* Every step.
LEMMA NextProgress == Whole /\ Progress /\ [Next]_vars => Progress'
<1> SUFFICES ASSUME Whole, Progress, [Next]_vars PROVE Progress'
  OBVIOUS
<1>0. scenario' = scenario /\ Typed'
  BY NextWhole DEF Next, vars, Whole
<1>1. ASSUME NEW ks \in scenario.batches, NEW step \in scenario.steps, TakeSnapshots(ks, step) PROVE Progress'
  BY <1>0, <1>1, TakeSnapshotsProgress
<1>2. ASSUME NEW k \in Kinds, WrongClock(k) PROVE Progress'
  BY <1>0, <1>2, WrongClockProgress
<1>3. ASSUME NEW i \in DOMAIN pool, Bookmark(i) PROVE Progress'
  BY <1>0, <1>3, BookmarkProgress
<1>4. ASSUME NEW i \in DOMAIN pool, Prune(i) PROVE Progress'
  BY <1>0, <1>4, PruneProgress
<1>5. ASSUME NEW d \in Dests, NEW m \in dest[d], DeleteSet(d, m) PROVE Progress'
  BY <1>0, <1>5, DeleteSetProgress
<1>6. ASSUME NEW r \in Runner, NEW j \in scenario.jobs, ListPool(r, j) PROVE Progress'
  BY <1>0, <1>6, ListPoolProgress
<1>7. ASSUME NEW r \in Runner, ListDest(r) PROVE Progress'
  BY <1>0, <1>7, ListDestProgress
<1>8. ASSUME NEW r \in Runner, Decide(r) PROVE Progress'
  BY <1>0, <1>8, DecideProgress
<1>9. ASSUME NEW r \in Runner, TryLock(r) PROVE Progress'
  BY <1>0, <1>9, TryLockProgress
<1>10. ASSUME NEW r \in Runner, SendSet(r) PROVE Progress'
  BY <1>0, <1>10, SendSetProgress
<1>11. ASSUME NEW r \in Runner, CompleteOrRefuse(r) PROVE Progress'
  BY <1>0, <1>11, CompleteOrRefuseProgress
<1>12. ASSUME NEW r \in Runner, UploadVolumes(r) PROVE Progress'
  BY <1>0, <1>12, UploadVolumesProgress
<1>13. ASSUME NEW r \in Runner, PublishManifest(r) PROVE Progress'
  BY <1>0, <1>13, PublishManifestProgress
<1>14. ASSUME NEW r \in Runner, FailRun(r) PROVE Progress'
  BY <1>0, <1>14, FailRunProgress
<1>15. CASE UNCHANGED vars
  BY <1>15, SameProgress
<1> QED BY <1>1, <1>2, <1>3, <1>4, <1>5, <1>6, <1>7, <1>8, <1>9, <1>10, <1>11, <1>12, <1>13, <1>14, <1>15
        DEF Next, Advance

\* The inductive invariant of steady sends, one at a time and with no --full among them:
\* destinations differ by the newest set only, whose volumes (uploaded everywhere before the
\* first manifest) are where its manifest is missing, and what a run has decided to send is
\* newer than all there is.
THEOREM ProgressInvariance == Spec => [](Whole /\ Progress)
<1>1. Init => Progress
  BY InitProgress
<1>2. Spec => []Progress
  BY <1>1, ChainInvariance, NextProgress, PTL DEF Spec
<1> QED BY <1>2, ChainInvariance, PTL

-----------------------------------------------------------------------------
(* Decisions that are neither stuck nor idle.                              *)

\* The refusals that a later run of the same job meets again.
Stuck == {"out of sync", "last backups differ", "broken chain", "last backup in future"}

\* A decision that neither refuses to go on nor leaves something unsent.
Settled(job, P, D, p) ==
    LET last == LastOf(D[1])
    IN /\ p.reason \notin Stuck
       /\ p.action = "noop" =>
             \/ ~After(newestMatchingSnapshot(P, job.incrKinds), last)
             \/ Pruned(onPool(last, P), job) /\ ~After(newestMatchingSnapshot(P, job.fullKinds), last)

\* What the decisions are.
LEMMA Reasons ==
    ASSUME NEW b, NEW s, NEW why
    PROVE  /\ Full(b, s, why).reason = why /\ Incremental(b, s, why).reason = why
           /\ Noop(s, why).reason = why /\ Error(why).reason = why
           /\ Full(b, s, why).action = "full" /\ Incremental(b, s, why).action = "incremental"
           /\ Noop(s, why).action = "noop" /\ Error(why).action = "error"
BY DEF Full, Incremental, Noop, Error, Decision

\* What is no refusal and plans something.
LEMMA SentSettled ==
    ASSUME NEW job, NEW P, NEW D, NEW p, p.reason \notin Stuck, p.action # "noop"
    PROVE  Settled(job, P, D, p)
BY DEF Settled

\* Completing a partial set.
LEMMA PartialSettled ==
    ASSUME NEW job, NEW P, NEW D, NEW x
    PROVE  Settled(job, P, D, planPartial(x))
<1>1. planPartial(x).reason = "complete partial" /\ planPartial(x).action # "noop"
  BY DEF planPartial, Full, Incremental, Decision
<1> QED BY <1>1, SentSettled DEF Stuck

\* Other refusals, and sends.
LEMMA OtherSettled ==
    ASSUME NEW job, NEW P, NEW D, NEW b, NEW s, NEW why, why \notin Stuck
    PROVE  /\ Settled(job, P, D, Error(why)) /\ Settled(job, P, D, Full(b, s, why))
           /\ Settled(job, P, D, Incremental(b, s, why))
<1>1. /\ Error(why).reason = why /\ Error(why).action # "noop"
      /\ Full(b, s, why).reason = why /\ Full(b, s, why).action # "noop"
      /\ Incremental(b, s, why).reason = why /\ Incremental(b, s, why).action # "noop"
  BY Reasons
<1> QED BY <1>1, SentSettled

\* Nothing to send.
LEMMA NoopSettled ==
    ASSUME NEW job, NEW P, NEW D, NEW s, NEW why, why \notin Stuck,
           \/ ~After(newestMatchingSnapshot(P, job.incrKinds), LastOf(D[1]))
           \/ Pruned(onPool(LastOf(D[1]), P), job) /\ ~After(newestMatchingSnapshot(P, job.fullKinds), LastOf(D[1]))
    PROVE  Settled(job, P, D, Noop(s, why))
BY Reasons DEF Settled

\* --increment, chains unbroken.
LEMMA ExplicitIncrementalSettled ==
    ASSUME NEW job, NEW P, NEW D, firstBrokenChain(D) = NoSnapshot
    PROVE  Settled(job, P, D, planExplicitIncremental(job, P, D, LastOf(D[1])))
<1> DEFINE base == newestMatchingSnapshot(P, job.incrKinds)
           last == LastOf(D[1])
           p == planExplicitIncremental(job, P, D, last)
<1>1. \/ p = Error("no incremental candidate") \/ p = Error("nothing to increment from") \/ p = Error("mixed chain")
      \/ ~After(base, last) /\ p = Noop(NoSnapshot, "nothing newer")
      \/ p = Incremental(base, last, "explicit incremental")
  BY DEF planExplicitIncremental
<1> HIDE DEF p
<1>2. Settled(job, P, D, p)
  <2>1. {"no incremental candidate", "nothing to increment from", "mixed chain", "nothing newer", "explicit incremental"} \cap Stuck = {}
    BY DEF Stuck
  <2> QED BY <1>1, <2>1, OtherSettled, NoopSettled
<1> QED BY <1>2 DEF p

\* An incremental of --fullIfOlderThan, the last backups alike.
LEMMA IncrementalSettled ==
    ASSUME NEW job, NEW P, NEW D, NEW last, last[1] = LastOf(D[1]), \A i \in DOMAIN last : Same(last[i], last[1]),
           NEW fullBase, fullBase = newestMatchingSnapshot(P, job.fullKinds)
    PROVE  Settled(job, P, D, planIncremental(job, P, D, last, fullBase))
<1> DEFINE base == newestMatchingSnapshot(P, job.incrKinds)
           source == onPool(last[1], P)
           p == planIncremental(job, P, D, last, fullBase)
<1>1. \/ p = Error("no incremental candidate") \/ p = Error("no full candidate") \/ p = Error("mixed chain")
      \/ ~After(base, last[1]) /\ p = Noop(NoSnapshot, "nothing newer")
      \/ Pruned(source, job) /\ ~After(fullBase, last[1]) /\ p = Noop(last[1], "source pruned")
      \/ p = Full(fullBase, last[1], "source pruned")
      \/ p = Incremental(base, source, "newer candidate")
  BY DEF planIncremental
<1> HIDE DEF p
<1>2. Settled(job, P, D, p)
  <2>1. {"no incremental candidate", "no full candidate", "mixed chain", "nothing newer", "source pruned", "newer candidate"} \cap Stuck = {}
    BY DEF Stuck
  <2> QED BY <1>1, <2>1, OtherSettled, NoopSettled
<1> QED BY <1>2 DEF p

\* --fullIfOlderThan.
LEMMA WindowSettled ==
    ASSUME NEW job, NEW P, NEW D, NEW last, last[1] = LastOf(D[1]), \A i \in DOMAIN last : Same(last[i], last[1]),
           NEW lastFull, firstBrokenChain(D) = NoSnapshot
    PROVE  Settled(job, P, D, planWindow(job, P, D, lastFull, last))
<1> DEFINE fullBase == newestMatchingSnapshot(P, job.fullKinds)
           p == planWindow(job, P, D, lastFull, last)
           q == planIncremental(job, P, D, last, fullBase)
<1>1. \/ p = Error("no full candidate") \/ p = Full(fullBase, NoSnapshot, "no previous full")
      \/ p = Full(fullBase, NoSnapshot, "window elapsed")
      \/ p = q
  BY DEF planWindow
<1>2. Settled(job, P, D, q)
  BY IncrementalSettled
<1> HIDE DEF p, q
<1>3. Settled(job, P, D, p)
  <2>1. {"no full candidate", "no previous full", "window elapsed"} \cap Stuck = {}
    BY DEF Stuck
  <2> QED BY <1>1, <1>2, <2>1, OtherSettled
<1> QED BY <1>3 DEF p

\* Lists that are alike, of unbroken chains, and no newer than the pool.
Comparable(P, D) ==
    /\ \A i \in DOMAIN D : D[i] = D[1]
    /\ firstBrokenChain(D) = NoSnapshot
    /\ P # <<>> => \A i \in DOMAIN D : LastOf(D[i]) # NoSnapshot => ~After(LastOf(D[i]), P[1])

\* Whichever the job, when a partial set can be completed or the destinations are alike.
LEMMA SmartSettled ==
    ASSUME NEW job, NEW P, NEW D, D \in Seq(Seq(Backups)), D # <<>>, NEW completable, job.mode \in {"increment", "window"},
           partialSet(D) # NoBackup => completable,
           partialSet(D) = NoBackup => Comparable(P, D)
    PROVE  Settled(job, P, D, planSmart(job, P, D, completable))
<1> DEFINE Fulls(m) == {i \in DOMAIN m : IsFull(m[i])}
           last == [i \in DOMAIN D |-> LastOf(D[i])]
           lastFull == [i \in DOMAIN D |-> NewestBase(D[i], Fulls(D[i]))]
           comparable == IF job.mode = "window" THEN lastFull ELSE last
           p == planSmart(job, P, D, completable)
<1>1. last = [i \in DOMAIN D |-> NewestBase(D[i], DOMAIN D[i])]
  BY DEF LastOf
<1>2. 1 \in DOMAIN D
  OBVIOUS
<1>3. CASE partialSet(D) # NoBackup
  <2>1. p = Error("no snapshots") \/ p = planPartial(partialSet(D))
    BY <1>3 DEF planSmart
  <2> HIDE DEF p
  <2>2. Settled(job, P, D, p)
    BY <2>1, PartialSettled, OtherSettled DEF Stuck
  <2> QED BY <2>2 DEF p
<1>4. CASE partialSet(D) = NoBackup
  <2>1. \A i \in DOMAIN D : last[i] = last[1] /\ lastFull[i] = lastFull[1]
    BY <1>2, <1>4 DEF Comparable
  <2>2. \A i \in DOMAIN D : Same(comparable[i], comparable[1])
    BY <2>1 DEF Same
  <2>3. P # <<>> => checkLastBackupsOnPool(P, last)
    BY <1>4 DEF Comparable, checkLastBackupsOnPool
  <2>4. \/ p = Error("no snapshots")
        \/ p = planExplicitIncremental(job, P, D, last[1])
        \/ p = planWindow(job, P, D, lastFull[1], last)
    BY <1>1, <1>4, <2>2, <2>3 DEF planSmart
  <2>5. last[1] = LastOf(D[1]) /\ \A i \in DOMAIN last : Same(last[i], last[1])
    BY <1>2, <2>1 DEF Same
  <2> HIDE DEF last, lastFull, p
  <2>6. Settled(job, P, D, planExplicitIncremental(job, P, D, last[1]))
    BY <1>4, <2>5, ExplicitIncrementalSettled DEF Comparable
  <2>7. PICK f : f = lastFull[1]
    OBVIOUS
  <2>8. Settled(job, P, D, planWindow(job, P, D, f, last))
    BY <1>4, <2>5, WindowSettled DEF Comparable
  <2>9. Settled(job, P, D, p)
    BY <2>4, <2>6, <2>7, <2>8, OtherSettled DEF Stuck
  <2> QED BY <2>9 DEF p
<1> QED BY <1>3, <1>4

-----------------------------------------------------------------------------
(* Steady sends: the theorems.                                             *)

\* What a run that read everything now would see.
SeenNow == [d \in Dests |-> getBackupsForTarget(d)]

\* That is what the destinations have.
LEMMA SeesNow ==
    ASSUME Whole
    PROVE  Sees(SeenNow)
<1>1. scenario.dests \in Nat /\ \A d \in Dests : Manifests(dest[d]) /\ Linked(dest[d])
  BY WholeFacts
<1>2. \A d \in Dests : sortBackupsNewestFirst(dest[d]) \in Seq(Backups)
  BY <1>1, SortedChains
<1>3. SeenNow = [d \in 1..scenario.dests |-> sortBackupsNewestFirst(dest[d])]
  BY DEF SeenNow, Dests, getBackupsForTarget
<1>4. SeenNow \in [1..scenario.dests -> Seq(Backups)]
  BY <1>2, <1>3 DEF Dests
<1> QED BY <1>1, <1>3, <1>4 DEF Sees, Dests

\* Steady sends stay settled: destinations that differ, differ by a set the planner completes
\* (Apart), and ones that are alike give it nothing to refuse.
LEMMA SteadySettled ==
    ASSUME Whole, Progress, Steady, NEW job \in scenario.jobs
    PROVE  /\ Settled(job, dropFutureDated(now, pool), SeenNow, PlanNow(job))
           /\ PlanNow(job).action = "noop" => InStepEqual
<1> DEFINE P == dropFutureDated(now, pool)
<1>1. PICK seen : seen = SeenNow
  OBVIOUS
<1>2. Sees(seen)
  BY <1>1, SeesNow
<1>3. PICK c : c = PartialSetCompletable(job, seen)
  OBVIOUS
<1>4. InStep /\ Sane
  BY ProgressParts DEF Going
<1>5. Dropped(now, seen) = seen
  BY <1>2, <1>4, DestsNow
<1>6. PlanNow(job) = planSmart(job, P, seen, c)
  BY <1>1, <1>3, <1>5 DEF PlanNow, SeenNow, planSmartAt, Dropped
<1>7. pool \in Seq(Snapshots) /\ Datable(pool)
  BY ProgressParts DEF Whole, Typed
<1>8. P \in Seq(Snapshots) /\ NewestFirst(P) /\ ToSet(P) = {s \in ToSet(pool) : s.time <= now}
  BY <1>7, PoolNow
<1> HIDE DEF P
<1>9. seen \in Seq(Seq(Backups)) /\ DOMAIN seen = Dests /\ seen # <<>>
  <2>1. 1 \in Dests
    BY WholeFacts DEF Dests
  <2> QED BY <1>2, <2>1 DEF Sees
<1>10. job.mode \in {"increment", "window"}
  BY JobFacts DEF Whole, Inv, Steady
<1>11. CASE \E d, e \in Dests : \E x \in dest[d] : x \notin dest[e]
  <2>1. PICK d \in Dests, e \in Dests : \E x \in dest[d] : x \notin dest[e]
    BY <1>11
  <2>2. PICK x \in dest[d] : x \notin dest[e]
    BY <2>1
  <2>3. partialSet(seen) = x /\ c
    BY <1>2, <1>3, <1>4, <2>2, Apart
  <2>4. x # NoBackup
    <3>1. x \in Backups
      BY DEF Whole, Typed
    <3> QED BY <3>1, NoBackupIsNone
  <2>5. PICK p : p = planSmart(job, P, seen, c)
    OBVIOUS
  <2>6. p = Error("no snapshots") \/ p = planPartial(x)
    BY <1>10, <2>3, <2>4, <2>5 DEF planSmart
  <2>7. Settled(job, P, seen, p)
    BY <2>6, PartialSettled, OtherSettled DEF Stuck
  <2>8. p.action # "noop"
    <3>1. planPartial(x).action # "noop"
      BY DEF planPartial, Full, Incremental, Decision
    <3>2. Error("no snapshots").action # "noop"
      BY DEF Error, Decision
    <3> QED BY <2>6, <3>1, <3>2
  <2> QED BY <1>1, <1>6, <2>5, <2>7, <2>8 DEF P
<1>12. CASE InStepEqual
  <2>1. (\A d, e \in Dests : seen[d] = seen[e]) /\ partialSet(seen) = NoBackup
    BY <1>2, <1>12, Alike
  <2>2. \A d \in Dests : /\ seen[d] \in Seq(Backups) /\ ToSet(seen[d]) = dest[d] /\ NewestFirst(seen[d]) /\ Unbroken(seen[d])
    BY <1>2, SeesLists DEF Steady, Undisturbed, Kept
  <2>3. firstBrokenChain(seen) = NoSnapshot
    <3>1. \A d \in DOMAIN seen : brokenLink(seen[d]) = NoSnapshot
      BY <1>9, <2>2, NoBrokenLink
    <3>2. {i \in DOMAIN seen : [j \in DOMAIN seen |-> brokenLink(seen[j])][i] # NoSnapshot} = {}
      BY <3>1
    <3> QED BY <3>2 DEF firstBrokenChain, FirstAt
  <2>4. ASSUME P # <<>>, NEW d \in DOMAIN seen, LastOf(seen[d]) # NoSnapshot PROVE ~After(LastOf(seen[d]), P[1])
    <3>1. seen[d] # <<>> /\ LastOf(seen[d]) = seen[d][1].base /\ seen[d][1] \in Backups /\ 1 \in DOMAIN seen[d]
      BY <1>9, <2>2, <2>4, LastBase DEF LastOf
    <3>2. seen[d][1] \in dest[d]
      BY <1>9, <2>2, <3>1 DEF ToSet
    <3>3. Passed(seen[d][1].base)
      BY <1>4, <1>9, <3>2 DEF Sane
    <3>4. PICK t \in ToSet(pool) : seen[d][1].base.time <= t.time /\ t.time <= now
      BY <3>3 DEF Passed
    <3>5. t \in ToSet(P)
      BY <1>8, <3>4
    <3>6. PICK i \in DOMAIN P : t = P[i]
      BY <3>5 DEF ToSet
    <3>7. P[1] \in Snapshots /\ P[i] \in Snapshots /\ i \in Nat /\ 1 <= i /\ 1 \in DOMAIN P
      BY <1>8, <3>6
    <3>8. Dated(P[i]) <= Dated(P[1])
      <4>1. CASE i = 1
        BY <3>7, <4>1, DatedSnapshot
      <4>2. CASE i # 1
        BY <1>8, <3>7, <4>2 DEF NewestFirst
      <4> QED BY <4>1, <4>2
    <3>9. P[i].time <= P[1].time /\ P[i].time \in Nat /\ P[1].time \in Nat
      BY <3>7, <3>8, DatedSnapshot
    <3>10. seen[d][1].base.time \in Nat
      BY <3>1, Keys
    <3> QED BY <3>1, <3>4, <3>6, <3>9, <3>10 DEF After
  <2>5. \A d \in DOMAIN seen : seen[d] = seen[1]
    BY <1>9, <2>1
  <2>6. Comparable(P, seen)
    BY <2>3, <2>4, <2>5 DEF Comparable
  <2>7. Settled(job, P, seen, planSmart(job, P, seen, c))
    BY <1>9, <1>10, <2>1, <2>6, SmartSettled
  <2> QED BY <1>1, <1>6, <1>12, <2>7 DEF P
<1> QED BY <1>11, <1>12, ApartOrAlike

\* So the planner refuses for none of those reasons.
LEMMA ProgressNeverStuck == Whole /\ Progress => NeverStuck
<1> SUFFICES ASSUME Whole, Progress, Steady, NEW j \in scenario.jobs PROVE PlanNow(j).reason \notin Stuck
  BY DEF NeverStuck, Stuck
<1>1. PICK p : p = PlanNow(j)
  OBVIOUS
<1>2. Settled(j, dropFutureDated(now, pool), SeenNow, p)
  BY <1>1, SteadySettled
<1> QED BY <1>1, <1>2 DEF Settled

\* A manifest upload that failed at some destinations, or a process that died between two of
\* them, leaves what the next run's planSmart completes (PartialSetCompletable), or refuses
\* for a reason that passes: never "out of sync", "last backups differ", "broken chain" or
\* "last backup in future".
THEOREM DestinationsNeverStuck == Spec => []NeverStuck
<1> QED BY ProgressInvariance, ProgressNeverStuck, PTL

\* Only PublishManifest adds to a destination.
LEMMA OnlyPublishes ==
    ASSUME Whole, [Next]_vars, NEW d \in Dests, NEW m \in dest'[d] \ dest[d]
    PROVE  \E r \in Runner : /\ PublishManifest(r) /\ run[r].pc = "publish" /\ m = run[r].set /\ d = Min(run[r].todo)
                            /\ dest'[d] = dest[d] \cup {m}
<1>1. PICK r \in Runner : PublishManifest(r)
  <2>1. dest' # dest
    OBVIOUS
  <2>2. ASSUME NEW e \in Dests, NEW n \in dest[e], DeleteSet(e, n) PROVE FALSE
    <3>1. dest' = [dest EXCEPT ![e] = @ \ {n}] /\ DOMAIN dest = Dests
      BY <2>2 DEF DeleteSet, Whole, Inv, Shape
    <3> QED BY <3>1
  <2>3. ASSUME NEW q \in Runner, Advance(q) PROVE PublishManifest(q)
    BY <2>1, <2>3 DEF Advance, ListDest, Decide, TryLock, SendSet, CompleteOrRefuse, UploadVolumes
  <2>4. ~\E q \in Runner : FailRun(q)
    BY <2>1 DEF FailRun
  <2>5. ~\E q \in Runner, j \in scenario.jobs : ListPool(q, j)
    BY <2>1 DEF ListPool
  <2>6. ~\E ks \in scenario.batches, s \in scenario.steps : TakeSnapshots(ks, s)
    BY <2>1 DEF TakeSnapshots
  <2>7. ~\E k \in Kinds : WrongClock(k)
    BY <2>1 DEF WrongClock
  <2>8. ~\E i \in DOMAIN pool : Bookmark(i) \/ Prune(i)
    BY <2>1 DEF Bookmark, Prune
  <2>9. ~UNCHANGED vars
    BY <2>1 DEF vars
  <2> QED BY <2>2, <2>3, <2>4, <2>5, <2>6, <2>7, <2>8, <2>9 DEF Next
<1>2. /\ run[r].pc = "publish" /\ dest' = [dest EXCEPT ![Min(run[r].todo)] = @ \cup {run[r].set}]
      /\ DOMAIN dest = Dests
  BY <1>1 DEF PublishManifest, Whole, Inv, Shape
<1>3. d = Min(run[r].todo) /\ m = run[r].set /\ dest'[d] = dest[d] \cup {m}
  BY <1>2
<1> QED BY <1>1, <1>2, <1>3

\* The step.
LEMMA PublishNewest ==
    ASSUME Whole, Progress, [Next]_vars, Steady, NEW d \in Dests, NEW m \in dest'[d] \ dest[d], NEW x \in dest[d]
    PROVE  x.base.time <= m.base.time
<1>1. PICK r \in Runner : run[r].pc = "publish" /\ m = run[r].set
  BY OnlyPublishes
<1> DEFINE me == run[r]
<1>2. me.pc = "publish" /\ m = me.set
  BY <1>1
<1>4. AheadRun(me) /\ TypedRun(me)
  BY <1>2, OthersIdle, WholeFacts
<1>5. Newest(m) /\ m \in Backups
  BY <1>2, <1>4 DEF AheadRun, TypedRun
<1>6. sameSet(x, m) \/ After(m.base, x.base)
  BY <1>5 DEF Newest
<1>7. x \in Backups
  BY DEF Whole, Typed
<1>8. x.base.time \in Nat /\ m.base.time \in Nat
  BY <1>5, <1>7, Keys
<1> QED BY <1>6, <1>8 DEF sameSet, Same, After

\* A full that planWindow chose is not older than any backup at the destination it is published
\* at, so the next incremental continues it and no full is left unused.
THEOREM FullsStartNewChains == Spec => FullStartsNewChain
<1>1. Whole /\ Progress /\ [Next]_vars =>
      [\A d \in Dests : \A m \in dest'[d] \ dest[d] :
          Steady /\ IsFull(m) => \A x \in dest[d] : x.base.time <= m.base.time]_vars
  BY PublishNewest
<1> QED BY <1>1, ProgressInvariance, PTL DEF Spec, FullStartsNewChain

\* The newest of a kind that no wrong clock dated is the first that planning keeps.
LEMMA NewestOfPool ==
    ASSUME Whole, Datable(pool), NEW kinds
    PROVE  NewestOf(kinds) = newestMatchingSnapshot(dropFutureDated(now, pool), kinds)
<1> DEFINE P == dropFutureDated(now, pool)
           k == Cardinality(Future(now, pool))
           I == {i \in DOMAIN pool : snapshotMatches(pool[i], kinds) /\ pool[i].time <= now}
           J == {i \in DOMAIN P : snapshotMatches(P[i], kinds)}
<1>1. pool \in Seq(Snapshots) /\ NewestFirst(pool)
  BY DEF Whole, Typed, Datable
<1>2. now \in Nat /\ scenario.max.time \in Nat /\ now <= scenario.max.time /\ futureSlack \in Nat
  BY Times
<1>3. \A x \in Snapshots : Dated(x) \in Nat /\ Dated(x) = x.time
  BY DatedSnapshot
<1>4. /\ P \in Seq(Snapshots) /\ k \in Nat
      /\ Len(P) = IF k <= Len(pool) THEN Len(pool) - k ELSE 0
      /\ \A i \in DOMAIN P : k + i \in DOMAIN pool /\ P[i] = pool[k + i]
  BY <1>1, DropTyped
<1>5. Future(now, pool) = 1..k /\ k \in 0..Len(pool)
  BY <1>1, <1>2, <1>3, DropNewest
<1>6. \A i \in DOMAIN pool : pool[i].time <= now <=> i > k
  <2> SUFFICES ASSUME NEW i \in DOMAIN pool PROVE pool[i].time <= now <=> i > k
    OBVIOUS
  <2>1. pool[i] \in Snapshots /\ pool[i] \in ToSet(pool) /\ i \in Nat /\ 1 <= i
    BY <1>1 DEF ToSet
  <2>2. pool[i].time <= now \/ pool[i].time > scenario.max.time + futureSlack
    BY <2>1 DEF Datable
  <2>3. pool[i].time \in Nat /\ Dated(pool[i]) = pool[i].time
    BY <1>3, <2>1
  <2>4. i \in Future(now, pool) <=> pool[i].time > now + futureSlack
    BY <2>3 DEF Future
  <2>5. pool[i].time > now + futureSlack <=> ~(pool[i].time <= now)
    BY <1>2, <2>2, <2>3
  <2> HIDE DEF k
  <2>6. i \in 1..k <=> ~(i > k)
    BY <1>4, <2>1
  <2> QED BY <1>5, <2>4, <2>5, <2>6
<1> HIDE DEF k, P
<1>7. \A i : i \in J <=> i \in Nat /\ k + i \in I
  <2> SUFFICES ASSUME NEW i PROVE i \in J <=> i \in Nat /\ k + i \in I
    OBVIOUS
  <2>1. i \in DOMAIN P <=> i \in Nat /\ k + i \in DOMAIN pool /\ k + i > k
    BY <1>1, <1>4, <1>5
  <2> QED BY <1>4, <1>6, <2>1
<1>8. \A i \in I : i - k \in J
  <2> SUFFICES ASSUME NEW i \in I PROVE i - k \in J
    OBVIOUS
  <2>1. i \in Nat /\ i > k
    BY <1>1, <1>6
  <2>2. i - k \in Nat /\ k + (i - k) = i
    BY <1>4, <2>1
  <2> QED BY <1>7, <2>2
<1>9. I \in SUBSET Nat /\ J \in SUBSET Nat
  BY <1>1, <1>7
<1>10. NewestOf(kinds) = FirstAt(pool, I, NoSnapshot) /\ newestMatchingSnapshot(P, kinds) = FirstAt(P, J, NoSnapshot)
  BY DEF NewestOf, newestMatchingSnapshot
<1>11. \A j \in J : P[j] = pool[k + j]
  BY <1>4
<1> HIDE DEF I, J
<1>12. CASE I = {}
  <2>1. J = {}
    BY <1>7, <1>12
  <2> QED BY <1>10, <1>12, <2>1 DEF FirstAt, P
<1>13. CASE I # {}
  <2>1. Min(I) \in I /\ FirstAt(pool, I, NoSnapshot) = pool[Min(I)] /\ \A i \in I : Min(I) <= i
    BY <1>9, <1>13, FirstIsOne
  <2>2. J # {}
    BY <1>8, <1>13
  <2>3. Min(J) \in J /\ FirstAt(P, J, NoSnapshot) = P[Min(J)] /\ \A i \in J : Min(J) <= i
    BY <1>9, <2>2, FirstIsOne
  <2>4. PICK a \in I : a = Min(I)
    BY <2>1
  <2>5. PICK b \in J : b = Min(J)
    BY <2>3
  <2>6. a \in Nat /\ b \in Nat /\ a <= k + b /\ b <= a - k
    BY <1>7, <1>8, <1>9, <2>1, <2>3, <2>4, <2>5
  <2>7. a = k + b
    BY <1>4, <2>6
  <2>8. P[b] = pool[a]
    BY <1>11, <2>7
  <2> QED BY <1>10, <2>1, <2>3, <2>4, <2>5, <2>8 DEF P
<1> QED BY <1>12, <1>13

\* The newest backup is the first of the sorted list.
LEMMA NewestOfDest ==
    ASSUME Whole, InStep, Sane, NEW d \in Dests
    PROVE  NewestAt(d) = LastOf(SeenNow[d]) /\ LastOf(SeenNow[d]).time <= now
<1>1. PICK seen : seen = SeenNow
  OBVIOUS
<1>2. Sees(seen)
  BY <1>1, SeesNow
<1> DEFINE b == seen[d]
           M == dest[d]
<1>3. /\ b \in Seq(Backups) /\ ToSet(b) = M /\ NewestFirst(b)
  BY <1>2, SeesLists
<1>4. \A m \in M : m \in Backups /\ m.base.time <= now /\ \A x \in M : x = m \/ x.base.time # m.base.time
  BY DEF Whole, Typed, Sane, Passed, InStep
<1>5. now \in Nat
  BY Times
<1> HIDE DEF b, M
<1> DEFINE sane == {m \in dest[d] : m.base.time <= now}
<1>6. NewestAt(d) = IF sane = {} THEN NoSnapshot ELSE NewestBackup(sane).base
  BY DEF NewestAt
<1>7. sane = M
  BY <1>4 DEF M
<1> HIDE DEF sane
<1>8. CASE M = {}
  <2>1. b = <<>>
    <3> SUFFICES ASSUME b # <<>> PROVE FALSE
      OBVIOUS
    <3>1. 1 \in DOMAIN b
      BY <1>3
    <3> QED BY <1>3, <1>8, <3>1 DEF ToSet
  <2>2. LastOf(b) = NoSnapshot
    BY <1>3, <2>1, LastBase DEF LastOf
  <2> QED BY <1>1, <1>5, <1>6, <1>7, <1>8, <2>2 DEF b, NoSnapshot
<1>9. CASE M # {}
  <2>1. b # <<>> /\ 1 \in DOMAIN b
    BY <1>3, <1>9 DEF ToSet
  <2>2. PICK s \in M : s = b[1]
    BY <1>3, <2>1 DEF ToSet
  <2>3. LastOf(b) = s.base
    BY <1>3, <2>1, <2>2, LastBase DEF LastOf
  <2>4. \A m \in M : m.base.time \in Nat /\ s.base.time \in Nat /\ m.base.time <= s.base.time
    <3> SUFFICES ASSUME NEW m \in M PROVE m.base.time \in Nat /\ s.base.time \in Nat /\ m.base.time <= s.base.time
      OBVIOUS
    <3>1. PICK i \in DOMAIN b : m = b[i]
      BY <1>3 DEF ToSet
    <3> QED BY <1>3, <2>2, <3>1, FirstIsNewest
  <2>5. \A m \in M : m = s \/ m.base.time < s.base.time
    BY <1>4, <2>4
  <2>6. \A x \in M : ~Newer(x, s)
    BY <2>4, <2>5 DEF Newer
  <2>7. \A m \in M : (\A x \in M : ~Newer(x, m)) => m = s
    BY <2>4, <2>5 DEF Newer
  <2>8. NewestBackup(M) = s
    BY <2>6, <2>7 DEF NewestBackup
  <2> QED BY <1>1, <1>4, <1>6, <1>7, <1>9, <2>3, <2>8 DEF b
<1> QED BY <1>8, <1>9

\* What is not in the future is on the pool where planning looks for it.
LEMMA OnPoolNow ==
    ASSUME Whole, Datable(pool), NEW s, s.time <= now
    PROVE  onPool(s, dropFutureDated(now, pool)) = onPool(s, pool)
<1> DEFINE P == dropFutureDated(now, pool)
<1>1. pool \in Seq(Snapshots)
  BY DEF Whole, Typed
<1>2. ToSet(P) = {t \in ToSet(pool) : t.time <= now}
  BY <1>1, PoolNow
<1> HIDE DEF P
<1>3. {t \in ToSet(P) : Same(t, s)} = {t \in ToSet(pool) : Same(t, s)}
  BY <1>2 DEF Same
<1> QED BY <1>3 DEF onPool, P

\* The planner's reasons to send nothing, as the destinations and the pool stand.
LEMMA ProgressCaughtUp == Whole /\ Progress => NothingToSendMeansCaughtUp
<1> SUFFICES ASSUME Whole, Progress, Steady, NEW j \in scenario.jobs, PlanNow(j).action = "noop"
             PROVE  LET base  == NewestOf(j.incrKinds)
                        last  == NewestAt(1)
                        waits == /\ \/ onPool(last, pool) = NoSnapshot
                                    \/ onPool(last, pool).bookmark /\ j.needsSnapshot
                                 /\ ~After(NewestOf(j.fullKinds), last)
                    IN /\ \A d \in Dests : NewestAt(d) = last
                       /\ base # NoSnapshot => waits \/ ~After(base, last)
  BY DEF NothingToSendMeansCaughtUp
<1> DEFINE P == dropFutureDated(now, pool)
           last == LastOf(SeenNow[1])
<1>1. PICK p : p = PlanNow(j)
  OBVIOUS
<1>2. Settled(j, P, SeenNow, p) /\ InStepEqual
  BY <1>1, SteadySettled
<1>3. InStep /\ Sane /\ Datable(pool)
  BY ProgressParts DEF Going
<1>4. 1 \in Dests
  BY WholeFacts DEF Dests
<1>5. NewestAt(1) = last /\ last.time <= now
  BY <1>3, <1>4, NewestOfDest
<1>6. NewestOf(j.incrKinds) = newestMatchingSnapshot(P, j.incrKinds) /\ NewestOf(j.fullKinds) = newestMatchingSnapshot(P, j.fullKinds)
  BY <1>3, NewestOfPool
<1> HIDE DEF last
<1>7. onPool(last, P) = onPool(last, pool)
  BY <1>3, <1>5, OnPoolNow
<1> HIDE DEF P
<1>8. \/ ~After(newestMatchingSnapshot(P, j.incrKinds), last)
      \/ Pruned(onPool(last, P), j) /\ ~After(newestMatchingSnapshot(P, j.fullKinds), last)
  BY <1>1, <1>2 DEF Settled, last
<1>9. \A d \in Dests : NewestAt(d) = NewestAt(1)
  <2>1. \A d \in Dests : NewestAt(d) = LastOf(SeenNow[d])
    BY <1>3, NewestOfDest
  <2>2. \A d \in Dests : SeenNow[d] = SeenNow[1]
    BY <1>2, <1>4 DEF InStepEqual, SeenNow, getBackupsForTarget
  <2> QED BY <1>4, <2>1, <2>2
<1> QED BY <1>5, <1>6, <1>7, <1>8, <1>9 DEF Pruned

\* When planSmart finds nothing to send, every destination has the same newest backup, and
\* no candidate is newer than it, save one that waits for the next full candidate because
\* the incremental's source was pruned: a wrong clock's snapshot (dropFutureDated) or a
\* failed upload never makes runs end with exit 0 and nothing sent.
THEOREM NothingToSendIsCaughtUp == Spec => []NothingToSendMeansCaughtUp
<1> QED BY ProgressInvariance, ProgressCaughtUp, PTL

-----------------------------------------------------------------------------
(* Stream kinds.                                                           *)

\* A run's part of it.
KindRun(me) == FitsRun(me) /\ (me.pc \in {"upload", "publish"} => OfJob(me.set))

\* What the run found under the lock: refuseMixedChain looks at the first backup of the source.
LEMMA SentFits ==
    ASSUME Whole, NEW set \in Backups, refuseMixedChain(set), NEW d \in Dests
    PROVE  KindFits(dest[d], set)
<1> SUFFICES ASSUME ~IsFull(set), NEW x \in dest[d], Same(x.base, set.source),
                    \A y \in dest[d] : Same(y.base, set.source) => ~Before(y, x)
             PROVE  x.raw = set.raw
  BY DEF KindFits
<1>1. PICK b : b = getBackupsForTarget(d)
  OBVIOUS
<1>2. PICK of : of = {i \in DOMAIN b : Same(b[i].base, set.source)}
  OBVIOUS
<1>3. of = {} \/ b[Min(of)].raw = set.raw
  BY <1>1, <1>2 DEF refuseMixedChain
<1>4. Manifests(dest[d])
  BY WholeFacts
<1>5. /\ b \in Seq(dest[d]) /\ ToSet(b) = dest[d]
      /\ \A i, j \in DOMAIN b : i < j => Before(b[i], b[j])
  <2>1. b = sortBackupsNewestFirst(dest[d])
    BY <1>1 DEF getBackupsForTarget
  <2> QED BY <1>4, <2>1, SortedList
<1>6. PICK i \in DOMAIN b : x = b[i]
  BY <1>5 DEF ToSet
<1>7. i \in of /\ of \in SUBSET Nat
  BY <1>2, <1>5, <1>6
<1>8. Min(of) \in of /\ Min(of) <= i
  BY <1>7, Least
<1>9. PICK j : j = Min(of)
  OBVIOUS
<1>10. j \in DOMAIN b /\ Same(b[j].base, set.source) /\ j <= i /\ b[j] \in dest[d]
  BY <1>2, <1>5, <1>8, <1>9
<1>11. ~(j < i)
  BY <1>5, <1>6, <1>10
<1>12. j = i
  BY <1>5, <1>6, <1>10, <1>11
<1> QED BY <1>3, <1>6, <1>7, <1>9, <1>12

\* A set is not of its own source.
LEMMA NotItsSource ==
    ASSUME NEW m \in Backups, NEW n \in Backups, After(m.base, n.source)
    PROVE  ~Same(m.base, n.source)
<1>1. m.base.time \in Nat /\ n.source.time \in Nat
  BY Keys
<1> QED BY <1>1 DEF After, Same

\* A backup that is not of the source changes nothing.
LEMMA FitsMore ==
    ASSUME NEW M, NEW m, KindFits(M, m), NEW set, ~IsFull(m) => ~Same(set.base, m.source)
    PROVE  KindFits(M \cup {set}, m)
BY DEF KindFits

\* In a list of all of them the parent is the backup that KindFits speaks of.
LEMMA ParentFits ==
    ASSUME NEW M, Manifests(M), NEW set \in M, KindFits(M, set), ~IsFull(set) => After(set.base, set.source)
    PROVE  ChainOf(M, set)[1].raw = set.raw
<1>1. PICK b : b = sortBackupsNewestFirst(M)
  OBVIOUS
<1>2. /\ b \in Seq(M) /\ ToSet(b) = M
      /\ \A i, j \in DOMAIN b : i < j => Before(b[i], b[j])
  BY <1>1, SortedList
<1>3. M \in SUBSET Backups
  BY DEF Manifests
<1>4. ChainOf(M, set)[1] = Onto(b, set)
  <2>1. chainFrom(b, set)[0] = set /\ chainFrom(b, set)[0 + 1] = Onto(b, chainFrom(b, set)[0])
    BY ChainLinks
  <2>2. 0 + 1 = 1
    OBVIOUS
  <2> QED BY <1>1, <2>1, <2>2 DEF ChainOf
<1>5. CASE IsFull(set)
  BY <1>4, <1>5 DEF Onto
<1>6. CASE ~IsFull(set)
  <2>1. PICK of : of = {i \in DOMAIN b : Same(b[i].base, set.source)}
    OBVIOUS
  <2>2. PICK fulls : fulls = {i \in of : IsFull(b[i])}
    OBVIOUS
  <2>3. PICK I : I = IF fulls # {} THEN fulls ELSE of
    OBVIOUS
  <2>4. parentOf(b, set.source) = FirstAt(b, I, NoBackup)
    BY <2>1, <2>2, <2>3 DEF parentOf
  <2>5. CASE I = {}
    BY <1>4, <2>4, <2>5 DEF Onto, FirstAt
  <2>6. CASE I # {}
    <3>1. I \in SUBSET Nat /\ I \subseteq of
      BY <1>2, <2>1, <2>2, <2>3
    <3>2. PICK k : k = Min(I)
      OBVIOUS
    <3>3. k \in I /\ \A i \in I : k <= i
      BY <2>6, <3>1, <3>2, Least
    <3>4. k \in DOMAIN b /\ Same(b[k].base, set.source) /\ b[k] \in M
      BY <1>2, <2>1, <3>1, <3>3
    <3>5. parentOf(b, set.source) = b[k]
      BY <2>4, <2>6, <3>2 DEF FirstAt
    <3>6. ASSUME NEW y \in M, Same(y.base, set.source), Before(y, b[k]) PROVE FALSE
      <4>1. PICK l \in DOMAIN b : y = b[l]
        BY <1>2 DEF ToSet
      <4>2. l \in of
        BY <2>1, <3>6, <4>1
      <4>3. l < k
        <5>1. ~(k < l)
          <6> SUFFICES ASSUME k < l PROVE FALSE
            OBVIOUS
          <6>1. Before(b[k], y)
            BY <1>2, <3>4, <4>1
          <6> QED BY <1>3, <3>4, <3>6, <6>1, BeforeIsOrder
        <5>2. k # l
          BY <1>3, <3>4, <3>6, <4>1, BeforeIsOrder
        <5> QED BY <1>2, <3>4, <5>1, <5>2
      <4>4. l \notin I
        BY <1>2, <3>3, <3>4, <4>3
      <4>5. IsFull(b[k]) /\ ~IsFull(y)
        BY <2>2, <2>3, <3>3, <4>1, <4>2, <4>4
      <4>6. y.base.time = b[k].base.time
        BY <3>4, <3>6 DEF Same
      <4>7. b[k].base.time \in Nat
        BY <1>3, <3>4, Keys
      <4>8. Newer(b[k], y) /\ ~Newer(y, b[k])
        BY <4>5, <4>6, <4>7 DEF Newer
      <4> QED BY <3>6, <4>8 DEF Before
    <3>7. b[k].raw = set.raw
      BY <1>6, <3>4, <3>6 DEF KindFits
    <3>8. b[k] # NoBackup
      BY <1>3, <3>4, NoBackupIsNone
    <3> QED BY <1>4, <1>6, <3>5, <3>7, <3>8 DEF Onto
  <2> QED BY <2>5, <2>6
<1> QED BY <1>5, <1>6

\* The invariant, by destination and by run.
LEMMA StreamKindsParts ==
    StreamKinds <=> /\ Steady => \A d \in Dests : \A m \in dest[d] : KindFits(dest[d], m)
                    /\ \A d \in Dests : \A m \in dest[d] : OfJob(m)
                    /\ \A r \in Runner : KindRun(run[r])
BY DEF StreamKinds, KindRun

\* A run that is not sending has no set.
LEMMA NotSendingKind ==
    ASSUME NEW me, me.pc \notin {"upload", "publish"}
    PROVE  KindRun(me)
BY DEF KindRun, FitsRun

\* At first.
LEMMA InitStreamKinds == Init => StreamKinds
<1> SUFFICES ASSUME Init PROVE StreamKinds
  OBVIOUS
<1>1. dest = [d \in Dests |-> {}] /\ run = [r \in Runner |-> NoRun]
  BY DEF Init
<1>2. \A r \in Runner : KindRun(run[r])
  BY <1>1, NoRunIdle, NotSendingKind
<1> QED BY <1>1, <1>2, StreamKindsParts

\* A step of a run that leaves the destinations as they are.
LEMMA RunStreamKinds ==
    ASSUME Whole, StreamKinds, scenario' = scenario, dest' = dest, NEW r \in Runner, NEW new, Set(r, new), KindRun(new)
    PROVE  StreamKinds'
<1>1. Dests' = Dests /\ Steady' = Steady
  BY SameScenario
<1>2. run'[r] = new /\ \A q \in Runner : q # r => run'[q] = run[q]
  BY SetFacts DEF Whole
<1>3. \A me : KindRun(me) => KindRun(me)'
  BY <1>1 DEF KindRun, FitsRun, Vouched, OfJob
<1>4. ASSUME NEW q \in Runner PROVE KindRun(run[q])'
  <2>1. PICK me : me = run'[q]
    OBVIOUS
  <2>2. KindRun(me)
    BY <1>2, <2>1, StreamKindsParts
  <2>3. KindRun(me)'
    BY <1>3, <2>2
  <2> QED BY <2>1, <2>3
<1>5. \A m : OfJob(m) => OfJob(m)'
  BY DEF OfJob
<1>6. /\ Steady => \A d \in Dests : \A m \in dest[d] : KindFits(dest[d], m)
      /\ \A d \in Dests : \A m \in dest[d] : OfJob(m)
  BY StreamKindsParts
<1>7. (\A d \in Dests : \A m \in dest[d] : OfJob(m))'
  BY <1>1, <1>5, <1>6
<1>8. (\A q \in Runner : KindRun(run[q]))'
  BY <1>4
<1>9. (Steady => \A d \in Dests : \A m \in dest[d] : KindFits(dest[d], m))'
  BY <1>1, <1>6
<1> QED BY <1>7, <1>8, <1>9 DEF StreamKinds, KindRun

\* A step of the pool, or none.
LEMMA PoolStreamKinds ==
    ASSUME StreamKinds, UNCHANGED <<scenario, dest, run>>
    PROVE  StreamKinds'
<1>1. Dests' = Dests /\ Steady' = Steady
  BY SameScenario
<1>2. \A me : KindRun(me) => KindRun(me)'
  BY <1>1 DEF KindRun, FitsRun, Vouched, OfJob
<1>3. ASSUME NEW q \in Runner PROVE KindRun(run[q])'
  <2>1. PICK me : me = run[q]
    OBVIOUS
  <2>2. KindRun(me)'
    BY <1>2, <2>1, StreamKindsParts
  <2> QED BY <2>1, <2>2
<1>4. \A m : OfJob(m) => OfJob(m)'
  BY DEF OfJob
<1>5. /\ Steady => \A d \in Dests : \A m \in dest[d] : KindFits(dest[d], m)
      /\ \A d \in Dests : \A m \in dest[d] : OfJob(m)
  BY StreamKindsParts
<1>6. (\A d \in Dests : \A m \in dest[d] : OfJob(m))'
  BY <1>1, <1>4, <1>5
<1>7. (\A q \in Runner : KindRun(run[q]))'
  BY <1>3
<1>8. (Steady => \A d \in Dests : \A m \in dest[d] : KindFits(dest[d], m))'
  BY <1>1, <1>5
<1> QED BY <1>6, <1>7, <1>8 DEF StreamKinds, KindRun

\* A set is deleted while nothing sends.
LEMMA DeleteSetStreamKinds ==
    ASSUME Whole, StreamKinds, scenario' = scenario, NEW d \in Dests, NEW m \in dest[d], DeleteSet(d, m)
    PROVE  StreamKinds'
<1>1. ~Kept
  BY DeleteSetWhole
<1>2. ~Steady' /\ Dests' = Dests
  BY <1>1, SameScenario DEF Steady, Undisturbed, Kept
<1>3. /\ run' = [r \in Runner |-> [run[r] EXCEPT !.stale = run[r].pc # "idle"]] /\ lock = NoRunner
      /\ dest' = [dest EXCEPT ![d] = @ \ {m}] /\ DOMAIN dest = Dests
  BY DEF DeleteSet, Whole, Inv, Shape
<1>4. ASSUME NEW r \in Runner PROVE run'[r].pc \notin {"upload", "publish"}
  <2>1. DOMAIN run[r] = DOMAIN NoRun /\ run'[r] = [run[r] EXCEPT !.stale = run[r].pc # "idle"]
    BY <1>3, WholeFacts
  <2>2. run'[r].pc = run[r].pc
    BY <2>1 DEF NoRun
  <2>3. ~Sending(r)
    BY <1>3, SmartAssumption DEF Whole, Inv, SendsLocked
  <2> QED BY <2>2, <2>3 DEF Sending
<1>5. \A e \in Dests : dest'[e] \subseteq dest[e]
  BY <1>3
<1>6. \A e \in Dests : \A n \in dest[e] : OfJob(n)
  BY StreamKindsParts
<1>7. \A n : OfJob(n) => OfJob(n)'
  BY DEF OfJob
<1>8. (\A e \in Dests : \A n \in dest[e] : OfJob(n))'
  BY <1>2, <1>5, <1>6, <1>7
<1> QED BY <1>2, <1>4, <1>8 DEF StreamKinds, FitsRun

\* SendSet: refuseMixedChain.
LEMMA SendSetStreamKinds ==
    ASSUME Whole, StreamKinds, scenario' = scenario, NEW r \in Runner, SendSet(r)
    PROVE  StreamKinds'
<1> DEFINE me == run[r]
           set == SetOf(me)
           new == [me EXCEPT !.pc = "upload", !.set = set, !.todo = Dests]
<1>1. me.pc = "locked" /\ dest' = dest /\ (Set(r, NoRun) \/ (Set(r, new) /\ refuseMixedChain(set)))
  BY DEF SendSet, ReturnBackup
<1>2. TypedRun(me) /\ DOMAIN me = DOMAIN NoRun
  BY WholeFacts
<1>3. set \in Backups /\ set.raw = me.job.raw
  BY <1>1, SetOfPlan
<1> HIDE DEF set
<1>4. new.pc = "upload" /\ new.set = set
  BY <1>2 DEF NoRun
<1>5. me.job \in scenario.jobs
  BY <1>1, <1>2 DEF TypedRun
<1> HIDE DEF new
<1>6. KindRun(NoRun)
  BY NoRunIdle, NotSendingKind
<1>7. refuseMixedChain(set) => KindRun(new)
  <2>1. refuseMixedChain(set) => \A d \in Dests : KindFits(dest[d], set)
    BY <1>3, SentFits
  <2>2. OfJob(set)
    BY <1>3, <1>5 DEF OfJob
  <2> QED BY <1>4, <2>1, <2>2 DEF KindRun, FitsRun
<1> QED BY <1>1, <1>6, <1>7, RunStreamKinds

\* A copied manifest: at the destinations in step it continues what it continues where it is.
LEMMA CopiedFits ==
    ASSUME Whole, Progress, StreamKinds, Steady, NEW r \in Runner, run[r].pc = "locked",
           NEW e \in Dests, NEW from \in dest[e], sameSet(from, SetOf(run[r])),
           NEW d \in Dests, \A m \in dest[d] : ~sameSet(m, SetOf(run[r]))
    PROVE  KindFits(dest[d], from)
<1>1. Newest(SetOf(run[r]))
  <2>1. AheadRun(run[r])
    BY OthersIdle
  <2> QED BY <2>1 DEF AheadRun
<1>2. PICK set : set = SetOf(run[r])
  OBVIOUS
<1>3. \A x \in dest[e] : x \in dest[d] \/ sameSet(x, set)
  BY <1>1, <1>2 DEF Newest
<1>4. \A x \in dest[d] : x \in dest[e]
  BY <1>1, <1>2 DEF Newest
<1>5. \A x \in dest[e] : sameSet(x, set) => x = from
  <2>1. \A x \in dest[e] : sameSet(x, from) => x = from
    BY DEF Whole, Inv, SetsDiffer
  <2>2. \A x : sameSet(x, set) => sameSet(x, from)
    BY <1>2, SameSets
  <2> QED BY <2>1, <2>2
<1>6. KindFits(dest[e], from)
  BY StreamKindsParts
<1>7. ~IsFull(from) => ~Same(from.base, from.source)
  <2>1. Linked(dest[e]) /\ from \in Backups
    BY WholeFacts DEF Whole, Typed
  <2>2. ~IsFull(from) => After(from.base, from.source)
    BY <2>1 DEF Linked
  <2> QED BY <2>1, <2>2, NotItsSource
<1> SUFFICES ASSUME ~IsFull(from), NEW x \in dest[d], Same(x.base, from.source),
                    \A y \in dest[d] : Same(y.base, from.source) => ~Before(y, x)
             PROVE  x.raw = from.raw
  BY DEF KindFits
<1>8. x \in dest[e]
  BY <1>4
<1>9. \A y \in dest[e] : Same(y.base, from.source) => ~Before(y, x)
  BY <1>3, <1>5, <1>7
<1> QED BY <1>6, <1>8, <1>9 DEF KindFits

\* CompleteOrRefuse: a set is completed at a second destination.
LEMMA CompleteOrRefuseStreamKinds ==
    ASSUME Whole, Progress, StreamKinds, scenario' = scenario, NEW r \in Runner, CompleteOrRefuse(r)
    PROVE  StreamKinds'
<1> DEFINE me == run[r]
           set == SetOf(me)
           have == Have(set)
           from == CHOOSE m \in dest[Min(have)] : sameSet(m, set)
           missing == Dests \ have
           new == [me EXCEPT !.pc = "publish", !.set = from, !.todo = missing]
<1>1. me.pc = "locked" /\ have # {} /\ dest' = dest
      /\ (Set(r, NoRun) \/ (Set(r, new) /\ missing # {} /\ Completes(me)))
  BY DEF CompleteOrRefuse, ReturnBackup
<1>2. DOMAIN me = DOMAIN NoRun
  BY WholeFacts
<1> HIDE DEF set
<1>4. have = {d \in Dests : \E m \in dest[d] : sameSet(m, set)}
  BY DEF Have
<1> HIDE DEF have
<1>5. Min(have) \in have
  BY <1>1, <1>4, FirstOf DEF Whole, Inv
<1>6. from \in dest[Min(have)] /\ sameSet(from, set) /\ Min(have) \in Dests
  BY <1>4, <1>5
<1> HIDE DEF from
<1>7. \A d \in missing : d \in Dests /\ \A m \in dest[d] : ~sameSet(m, set)
  BY <1>4
<1>8. scenario.dests = 1 => missing = {}
  <2>1. scenario.dests = 1 => Dests = {1}
    BY DEF Dests
  <2> QED BY <1>5, <1>6, <2>1
<1> HIDE DEF missing
<1>9. new.pc = "publish" /\ new.job = me.job /\ new.plan = me.plan /\ new.set = from /\ new.todo = missing
  BY <1>2 DEF NoRun
<1> HIDE DEF new
<1>10. OfJob(from)
  BY <1>6, StreamKindsParts
<1>11. ASSUME missing # {}, Completes(me) PROVE KindRun(new)
  <2>1. Completes(new)
    BY <1>9, <1>11 DEF Completes
  <2>2. ASSUME Vouched(new), NEW d \in missing PROVE KindFits(dest[d], from)
    <3>1. Steady
      BY <1>8, <1>11, <2>1, <2>2 DEF Vouched
    <3> QED BY <1>1, <1>6, <1>7, <3>1, CopiedFits DEF set
  <2> QED BY <1>9, <1>10, <2>2 DEF KindRun, FitsRun
<1>12. KindRun(NoRun)
  BY NoRunIdle, NotSendingKind
<1> QED BY <1>1, <1>11, <1>12, RunStreamKinds

\* UploadVolumes: the set is the same.
LEMMA UploadVolumesStreamKinds ==
    ASSUME Whole, StreamKinds, scenario' = scenario, NEW r \in Runner, UploadVolumes(r)
    PROVE  StreamKinds'
<1> DEFINE me == run[r]
           d == Min(me.todo)
           new == IF me.todo # {d} THEN [me EXCEPT !.todo = @ \ {d}]
                  ELSE [me EXCEPT !.pc = "publish", !.todo = Dests]
<1>1. me.pc = "upload" /\ Set(r, new) /\ dest' = dest
  BY DEF UploadVolumes
<1>2. DOMAIN me = DOMAIN NoRun
  BY WholeFacts
<1> HIDE DEF d
<1>3. /\ new.job = me.job /\ new.plan = me.plan /\ new.set = me.set
      /\ new.pc = "upload" \/ (new.pc = "publish" /\ new.todo = Dests)
  BY <1>1, <1>2 DEF NoRun
<1>4. KindRun(me)
  BY StreamKindsParts
<1> HIDE DEF new
<1>5. KindRun(new)
  <2>1. Vouched(new) => Vouched(me)
    BY <1>3 DEF Vouched, Completes
  <2> QED BY <1>1, <1>3, <1>4, <2>1 DEF KindRun, FitsRun
<1> QED BY <1>1, <1>5, RunStreamKinds

\* PublishManifest: what is there continues what it did.
LEMMA PublishManifestStreamKinds ==
    ASSUME Whole, Progress, StreamKinds, scenario' = scenario, NEW r \in Runner, PublishManifest(r)
    PROVE  StreamKinds'
<1> DEFINE me == run[r]
           set == me.set
           d == Min(me.todo)
           new == [me EXCEPT !.todo = @ \ {d}]
<1>1. /\ me.pc = "publish" /\ dest' = [dest EXCEPT ![d] = @ \cup {set}]
      /\ (Set(r, NoRun) \/ Set(r, new))
  BY DEF PublishManifest, ReturnBackup
<1>2. TypedRun(me) /\ LinkedRun(me) /\ DOMAIN me = DOMAIN NoRun
  BY WholeFacts
<1>3. me.todo \subseteq Dests /\ me.todo # {} /\ \A e \in me.todo : \A m \in dest[e] : ~sameSet(m, set)
  BY <1>1 DEF Whole, Inv, PublishesBeside
<1>4. d \in me.todo /\ d \in Dests
  BY <1>3, FirstOf DEF Whole, Inv
<1> HIDE DEF d
<1>5. new.pc = "publish" /\ new.job = me.job /\ new.plan = me.plan /\ new.set = set /\ new.todo = me.todo \ {d}
  BY <1>1, <1>2 DEF NoRun
<1>6. set \in Backups /\ (~IsFull(set) => After(set.base, set.source))
  BY <1>1, <1>2 DEF TypedRun, LinkedRun, LinkedEverywhere
<1> HIDE DEF new
<1>7. DOMAIN dest = Dests /\ Dests' = Dests /\ Steady' = Steady
  BY SameScenario DEF Whole, Inv, Shape
<1>8. dest'[d] = dest[d] \cup {set} /\ \A e \in Dests : e # d => dest'[e] = dest[e]
  BY <1>1, <1>4, <1>7
<1>9. KindRun(me)
  BY StreamKindsParts
<1>10. \A q \in Runner \ {r} : ~Sending(q)
  BY <1>1, Alone DEF Whole, Sending
<1>11. run'[r] \in {NoRun, new} /\ \A q \in Runner : q # r => run'[q] = run[q]
  BY <1>1, SetFacts DEF Whole
<1>12. \A m : OfJob(m) => OfJob(m)'
  BY DEF OfJob
<1>13. OfJob(set)
  BY <1>1, <1>9 DEF KindRun
<1>14. (\A e \in Dests : \A m \in dest[e] : OfJob(m))'
  <2>1. \A e \in Dests : \A m \in dest[e] : OfJob(m)
    BY StreamKindsParts
  <2> QED BY <1>7, <1>8, <1>12, <1>13, <2>1
<1>15. ASSUME NEW q \in Runner PROVE FitsRun(run[q])' /\ (run[q].pc \in {"upload", "publish"} => OfJob(run[q].set))'
  <2>1. CASE run'[q].pc \notin {"upload", "publish"}
    BY <2>1 DEF FitsRun
  <2>2. CASE run'[q].pc \in {"upload", "publish"}
    <3>1. q = r
      <4>1. q # r => run'[q].pc = run[q].pc /\ ~Sending(q)
        BY <1>10, <1>11
      <4> QED BY <2>2, <4>1 DEF Sending
    <3>2. run'[q] = new
      BY <1>11, <2>2, <3>1, NoRunIdle
    <3>3. ASSUME Vouched(run[q])', NEW e \in new.todo PROVE KindFits(dest'[e], set)
      <4>1. Vouched(me)
        BY <1>5, <1>7, <3>2, <3>3 DEF Vouched, Completes
      <4>2. e \in me.todo /\ e # d /\ e \in Dests
        BY <1>3, <1>5, <3>3
      <4>3. KindFits(dest[e], set)
        BY <1>1, <1>9, <4>1, <4>2 DEF KindRun, FitsRun
      <4> QED BY <1>8, <4>2, <4>3
    <3>4. FitsRun(run[q])'
      BY <1>5, <3>2, <3>3 DEF FitsRun
    <3> QED BY <1>5, <1>12, <1>13, <3>2, <3>4
  <2> QED BY <2>1, <2>2
<1>16. ASSUME Steady, NEW e \in Dests, NEW m \in dest'[e] PROVE KindFits(dest'[e], m)
  <2>1. \A n \in dest[e] : KindFits(dest[e], n)
    BY <1>16, StreamKindsParts
  <2>2. CASE e # d
    BY <1>8, <2>1, <2>2
  <2>3. CASE e = d
    <3>1. KindFits(dest[d], m) /\ m \in Backups /\ (~IsFull(m) => After(m.base, m.source))
      <4>1. CASE m = set
        <5>1. Vouched(me)
          BY <1>16 DEF Vouched
        <5> QED BY <1>1, <1>4, <1>6, <1>9, <4>1, <5>1 DEF KindRun, FitsRun
      <4>2. CASE m \in dest[d]
        <5>1. dest[d] \subseteq Backups /\ Linked(dest[d])
          BY <1>4 DEF Whole, Typed, Chains
        <5> QED BY <2>1, <2>3, <4>2, <5>1 DEF Linked
      <4> QED BY <1>8, <2>3, <4>1, <4>2
    <3>2. ~IsFull(m) => ~Same(set.base, m.source)
      <4>1. m = set \/ After(set.base, m.base)
        <5>1. Newest(set)
          <6>1. AheadRun(me)
            BY <1>1, <1>16, OthersIdle
          <6> QED BY <1>1, <6>1 DEF AheadRun
        <5>2. m \in dest[d] => ~sameSet(m, set)
          BY <1>3, <1>4
        <5> QED BY <1>4, <1>8, <2>3, <5>1, <5>2 DEF Newest
      <4>2. /\ set.base.time \in Nat /\ m.base.time \in Nat /\ m.source.time \in Nat
        BY <1>6, <3>1, Keys
      <4>3. ~IsFull(m) => After(set.base, m.source)
        BY <3>1, <4>1, <4>2 DEF After
      <4> QED BY <1>6, <3>1, <4>3, NotItsSource
    <3> QED BY <1>8, <2>3, <3>1, <3>2, FitsMore
  <2> QED BY <2>2, <2>3
<1>17. (Steady => \A e \in Dests : \A m \in dest[e] : KindFits(dest[e], m))'
  BY <1>7, <1>16
<1> QED BY <1>14, <1>15, <1>17 DEF StreamKinds

\* Every step.
LEMMA NextStreamKinds == Whole /\ Progress /\ StreamKinds /\ [Next]_vars => StreamKinds'
<1> SUFFICES ASSUME Whole, Progress, StreamKinds, [Next]_vars PROVE StreamKinds'
  OBVIOUS
<1>0. scenario' = scenario /\ KindRun(NoRun)
  BY NoRunIdle, NotSendingKind DEF Next, vars
<1>1. ASSUME NEW ks, NEW step, TakeSnapshots(ks, step) PROVE StreamKinds'
  BY <1>0, <1>1, PoolStreamKinds DEF TakeSnapshots
<1>2. ASSUME NEW k, WrongClock(k) PROVE StreamKinds'
  BY <1>0, <1>2, PoolStreamKinds DEF WrongClock
<1>3. ASSUME NEW i, Bookmark(i) PROVE StreamKinds'
  BY <1>0, <1>3, PoolStreamKinds DEF Bookmark
<1>4. ASSUME NEW i, Prune(i) PROVE StreamKinds'
  BY <1>0, <1>4, PoolStreamKinds DEF Prune
<1>5. ASSUME NEW d \in Dests, NEW m \in dest[d], DeleteSet(d, m) PROVE StreamKinds'
  BY <1>0, <1>5, DeleteSetStreamKinds
<1>6. ASSUME NEW r \in Runner, NEW j, ListPool(r, j) PROVE StreamKinds'
  <2>1. PICK new : new = [NoRun EXCEPT !.pc = "list", !.job = j, !.listed = pool]
    OBVIOUS
  <2>2. new.pc = "list"
    BY <2>1 DEF NoRun
  <2>3. Set(r, new) /\ dest' = dest
    BY <1>6, <2>1 DEF ListPool
  <2> QED BY <1>0, <2>2, <2>3, NotSendingKind, RunStreamKinds
<1>7. ASSUME NEW r \in Runner, ListDest(r) PROVE StreamKinds'
  <2>1. PICK b : b = getBackupsForTarget(Len(run[r].seen) + 1)
    OBVIOUS
  <2>2. PICK new : new = [run[r] EXCEPT !.seen = Append(@, b)]
    OBVIOUS
  <2>3. run[r].pc = "list" /\ Set(r, new) /\ dest' = dest
    BY <1>7, <2>1, <2>2 DEF ListDest
  <2>4. DOMAIN run[r] = DOMAIN NoRun
    BY WholeFacts
  <2>5. new.pc = "list"
    BY <2>2, <2>3, <2>4 DEF NoRun
  <2> QED BY <1>0, <2>3, <2>5, NotSendingKind, RunStreamKinds
<1>8. ASSUME NEW r \in Runner, Decide(r) PROVE StreamKinds'
  <2>1. DOMAIN run[r] = DOMAIN NoRun
    BY WholeFacts
  <2>2. PICK p : dest' = dest /\ \/ Set(r, NoRun)
                                 \/ Set(r, [run[r] EXCEPT !.pc = "planned", !.plan = p, !.listed = <<>>, !.seen = <<>>])
    BY <1>8 DEF Decide
  <2>3. PICK new : new = [run[r] EXCEPT !.pc = "planned", !.plan = p, !.listed = <<>>, !.seen = <<>>]
    OBVIOUS
  <2>4. new.pc = "planned"
    BY <2>1, <2>3 DEF NoRun
  <2>5. Set(r, NoRun) \/ Set(r, new)
    BY <2>2, <2>3
  <2> QED BY <1>0, <2>2, <2>4, <2>5, NotSendingKind, RunStreamKinds
<1>9. ASSUME NEW r \in Runner, TryLock(r) PROVE StreamKinds'
  <2>1. DOMAIN run[r] = DOMAIN NoRun
    BY WholeFacts
  <2>2. PICK new : new = [run[r] EXCEPT !.pc = "locked"]
    OBVIOUS
  <2>3. new.pc = "locked"
    BY <2>1, <2>2 DEF NoRun
  <2>4. dest' = dest /\ (Set(r, NoRun) \/ Set(r, new))
    BY <1>9, <2>2 DEF TryLock
  <2> QED BY <1>0, <2>3, <2>4, NotSendingKind, RunStreamKinds
<1>10. ASSUME NEW r \in Runner, SendSet(r) PROVE StreamKinds'
  BY <1>0, <1>10, SendSetStreamKinds
<1>11. ASSUME NEW r \in Runner, CompleteOrRefuse(r) PROVE StreamKinds'
  BY <1>0, <1>11, CompleteOrRefuseStreamKinds
<1>12. ASSUME NEW r \in Runner, UploadVolumes(r) PROVE StreamKinds'
  BY <1>0, <1>12, UploadVolumesStreamKinds
<1>13. ASSUME NEW r \in Runner, PublishManifest(r) PROVE StreamKinds'
  BY <1>0, <1>13, PublishManifestStreamKinds
<1>14. ASSUME NEW r \in Runner, FailRun(r) PROVE StreamKinds'
  <2>1. Set(r, NoRun) /\ dest' = dest
    BY <1>14 DEF FailRun, ReturnBackup
  <2> QED BY <1>0, <2>1, RunStreamKinds
<1>15. CASE UNCHANGED vars
  BY <1>0, <1>15, PoolStreamKinds DEF vars
<1> QED BY <1>1, <1>2, <1>3, <1>4, <1>5, <1>6, <1>7, <1>8, <1>9, <1>10, <1>11, <1>12, <1>13, <1>14, <1>15
        DEF Next, Advance

\* What a run publishes, and what its chain continues.
LEMMA PublishedKind ==
    ASSUME Whole, Whole', StreamKinds, [Next]_vars, NEW d \in Dests, NEW r \in Runner, Publishes(r, d),
           Vouched(run[r]) \/ \A j, k \in scenario.jobs : j.raw = k.raw
    PROVE  ChainOf(dest'[d], run[r].set)[1].raw = run[r].set.raw
<1> DEFINE set == run[r].set
<1>1. run[r].pc = "publish" /\ set \in dest'[d] \ dest[d]
  BY DEF Publishes
<1>2. PICK q \in Runner : /\ run[q].pc = "publish" /\ set = run[q].set /\ d = Min(run[q].todo)
                          /\ dest'[d] = dest[d] \cup {set}
  <2>1. PICK m : m = set
    OBVIOUS
  <2> HIDE DEF set
  <2>2. m \in dest'[d] \ dest[d]
    BY <1>1, <2>1
  <2>3. PICK q \in Runner : run[q].pc = "publish" /\ m = run[q].set /\ d = Min(run[q].todo) /\ dest'[d] = dest[d] \cup {m}
    BY <2>2, OnlyPublishes
  <2> QED BY <2>1, <2>3
<1>3. q = r
  BY <1>1, <1>2, Alone DEF Whole, Sending
<1>4. d \in run[r].todo
  <2>1. run[r].todo \subseteq Dests /\ run[r].todo # {}
    BY <1>1 DEF Whole, Inv, PublishesBeside
  <2> QED BY <1>2, <1>3, <2>1, FirstOf DEF Whole, Inv
<1>5. set \in Backups /\ (~IsFull(set) => After(set.base, set.source))
  <2>1. TypedRun(run[r]) /\ LinkedRun(run[r])
    BY WholeFacts
  <2> QED BY <1>1, <2>1 DEF TypedRun, LinkedRun, LinkedEverywhere
<1>6. KindRun(run[r])
  BY StreamKindsParts
<1>7. KindFits(dest[d], set)
  <2>1. CASE Vouched(run[r])
    BY <1>1, <1>4, <1>6, <2>1 DEF KindRun, FitsRun
  <2>2. CASE \A j, k \in scenario.jobs : j.raw = k.raw
    <3>1. OfJob(set) /\ \A m \in dest[d] : OfJob(m)
      BY <1>1, <1>6, StreamKindsParts DEF KindRun
    <3> QED BY <2>2, <3>1 DEF KindFits, OfJob
  <2> QED BY <2>1, <2>2
<1>8. KindFits(dest'[d], set)
  BY <1>2, <1>5, <1>7, NotItsSource, FitsMore
<1>9. Manifests(dest'[d])
  <2>1. scenario' = scenario
    BY DEF Next, vars
  <2>2. d \in Dests'
    BY <2>1, SameScenario
  <2> QED BY <2>2 DEF Manifests, Whole, Typed, Inv, SetsDiffer
<1>10. PICK M : M = dest'[d]
  OBVIOUS
<1> HIDE DEF set
<1>11. ChainOf(M, set)[1].raw = set.raw
  BY <1>1, <1>5, <1>8, <1>9, <1>10, ParentFits
<1> QED BY <1>10, <1>11 DEF set

\* The inductive invariant of stream kinds: what a run of Backup sends or, steady or at one
\* destination, completes continues a backup of its own --raw setting wherever its manifest is
\* still to go, and so does, steady, what is published.
THEOREM StreamKindInvariance == Spec => [](Whole /\ Progress /\ StreamKinds)
<1>1. Whole /\ Progress /\ [Next]_vars => Whole' /\ Progress'
  BY NextWhole, NextProgress
<1> QED BY InitStreamKinds, NextStreamKinds, ProgressInvariance, PTL DEF Spec

\* What a run sends, and does not complete, continues its own kind.
SentContinues(r, d) ==
    Publishes(r, d) /\ ~Completes(run[r]) => ChainOf(dest'[d], run[r].set)[1].raw = run[r].set.raw

\* No incremental that a run sends continues, where it is published, a backup of the other
\* stream kind: refuseMixedChain checks once, before the volumes are uploaded, and the lock
\* keeps the answer true until the last manifest is.  Whatever is deleted and planned meanwhile.
THEOREM SentKeepsStreamKind == Spec => [][\A d \in Dests, r \in Runner : SentContinues(r, d)]_vars
<1>1. Whole /\ Whole' /\ StreamKinds /\ [Next]_vars => [\A d \in Dests, r \in Runner : SentContinues(r, d)]_vars
  BY PublishedKind DEF SentContinues, Vouched
<1> QED BY <1>1, StreamKindInvariance, PTL DEF Spec

\* The step of the property.
PublishedRestores(r, d) ==
    Publishes(r, d) =>
        LET M    == dest'[d]
            link == ChainOf(M, run[r].set)
        IN /\ run[r].stale \/ IsFull(link[Cardinality(M)])
           /\ link[1].raw = run[r].set.raw

\* Every such step.
LEMMA PublishedRestoresStep ==
    ASSUME Whole, Whole', EveryBackupRestores', StreamKinds, [Next]_vars, Kept, Unmixed,
           NEW d \in Dests, NEW r \in Runner, Publishes(r, d)
    PROVE  PublishedRestores(r, d)
<1>1. scenario' = scenario
  BY DEF Next, vars
<1>2. Kept' /\ Dests' = Dests
  BY <1>1, SameScenario
<1>3. run[r].set \in dest'[d]
  BY DEF Publishes
<1>4. IsFull(ChainOf(dest'[d], run[r].set)[Cardinality(dest'[d])])
  BY <1>2, <1>3 DEF EveryBackupRestores
<1>5. ChainOf(dest'[d], run[r].set)[1].raw = run[r].set.raw
  BY PublishedKind DEF Unmixed, Vouched
<1> QED BY <1>4, <1>5 DEF PublishedRestores

\* Where nothing is deleted, and sends go to one destination, or are steady, or all have one
\* --raw setting, an incremental restores from each destination its manifest is published at:
\* its chain reaches a full there and continues a backup of its own kind, for any number of
\* overlapping runs that planned without the lock.  planSmart completes a partial set without
\* comparing kinds, so a --full of the other kind, sent in between, is not excluded otherwise.
THEOREM PublishedRestore == Spec /\ Kept /\ Unmixed => PublishedIncrementalsRestore
<1>1. Whole /\ Whole' /\ EveryBackupRestores' /\ StreamKinds /\ [Next]_vars /\ Kept /\ Unmixed =>
      [\A d \in Dests, r \in Runner : PublishedRestores(r, d)]_vars
  BY PublishedRestoresStep DEF PublishedRestores
<1>2. Kept /\ Unmixed /\ [Next]_vars => (Kept /\ Unmixed)'
  BY DEF Next, vars, Kept, Unmixed, Steady, Undisturbed
<1>3. [][\A d \in Dests, r \in Runner : PublishedRestores(r, d)]_vars => PublishedIncrementalsRestore
  BY DEF PublishedRestores, PublishedIncrementalsRestore
<1> QED BY <1>1, <1>2, <1>3, StreamKindInvariance, BackupsRestore, PTL DEF Spec
=============================================================================
