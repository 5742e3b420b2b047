----------------------------- MODULE CleanProofs -----------------------------
(***************************************************************************)
(* clean deletes no volume of a whole set, finds every volume no manifest  *)
(* lists, and keeps what a send can resume from: for any sets, datasets,   *)
(* number of volumes, options, and sends, cleans and failures in any       *)
(* number and order.                                                       *)
(***************************************************************************)
EXTENDS Clean, TLAPS

\* A job is a prefix and a set, and every set can be sent by this job.
LEMMA JobFacts ==
    /\ \A j \in Jobs : j[1] \in Prefix /\ j[2] \in Set /\ j = <<j[1], j[2]>> /\ ds[j[2]] \in Dataset
    /\ \A s \in Set : <<"ours", s>> \in Jobs /\ ds[s] \in Dataset
    /\ \A s \in OtherSets : <<"other", s>> \in Jobs
    /\ \A j \in Jobs : (j[1] = "ours" => j = <<"ours", j[2]>>)
                       /\ (j[1] = "other" => j = <<"other", j[2]>> /\ j[2] \in OtherSets)
BY CleanAssumption DEF Jobs, Prefix

\* A send is not NoSend, and has a job and a count.
LEMMA SendFacts ==
    ASSUME Inv, NEW d \in Dataset, sender[d] # NoSend
    PROVE  /\ sender[d] \in [set : Jobs, sent : Nat]
           /\ sender[d].set \in Jobs /\ sender[d].sent \in Nat
           /\ lock[d] = "send" /\ ds[sender[d].set[2]] = d
           /\ sender[d].set \in left.jobs /\ manifest[sender[d].set] = 0
           /\ 1..sender[d].sent \subseteq objects[sender[d].set[2]]
           /\ sender[d].set[2] \in Set
<1>1. sender[d] \in [set : Jobs, sent : Nat]
  BY DEF Inv, TypeOK
<1> QED BY <1>1, JobFacts DEF Inv, SendsLocked

\* What clean has locked no send has, and the lock of a send is not clean's.
LEMMA LockFacts ==
    ASSUME Inv, NEW d \in Dataset, lock[d] \in {"free", "send"}
    PROVE  d \notin locked
BY DEF Inv, CleanLocked

\* Counting a step leaves the jobs of the scenario.
LEMMA CountFacts ==
    ASSUME Inv, NEW what \in {"send", "clean", "damage", "failure"}, Count(what)
    PROVE  left' \in ScenarioType /\ left'.jobs = left.jobs
BY DEF Inv, TypeOK, Count, ScenarioType

LEMMA InitInv == Init => Inv
<1> SUFFICES ASSUME Init PROVE Inv
  OBVIOUS
<1> PICK n \in [Prefix -> {0, 1, NumVolumes}] :
          /\ manifest = Before(n)
          /\ cache = [j \in Jobs |-> IF j[1] = "ours" THEN Before(n)[j] ELSE 0]
          /\ objects = [s \in Set |-> UNION {1..Before(n)[j] : j \in {k \in Jobs : k[2] = s}}]
  BY DEF Init
<1>1. \A j \in Jobs : manifest[j] \in 0..NumVolumes /\ Before(n)[j] = manifest[j]
  <2>1. {0, 1, NumVolumes} \subseteq 0..NumVolumes
    BY CleanAssumption
  <2>2. ASSUME NEW j \in Jobs PROVE n[j[1]] \in {0, 1, NumVolumes}
    BY JobFacts
  <2>3. ASSUME NEW j \in Jobs PROVE manifest[j] \in {0, 1, NumVolumes}
    BY <2>2 DEF Before
  <2> QED BY <2>1, <2>3
<1>2. \A j \in Jobs : cache[j] \in {0, manifest[j]} /\ (j[1] = "other" => cache[j] = 0)
  BY <1>1 DEF Prefix
<1>3. \A j \in Jobs : 1..manifest[j] \subseteq objects[j[2]]
  BY <1>1, JobFacts
<1>4. \A d \in Dataset : sender[d] = NoSend
  BY DEF Init
<1>5. cpc = "idle" /\ locked = {} /\ deletes = {} /\ localDeletes = {} /\ view = NoView
      /\ left \in Scenarios /\ opt \in left.options
  BY DEF Init
<1>6. TypeOK
  <2>1. objects \in [Set -> SUBSET Num]
    BY <1>1, CleanAssumption DEF Num
  <2>2. manifest \in [Jobs -> Nat]
    BY <1>1, CleanAssumption DEF Before
  <2>3. cache \in [Jobs -> Nat]
    BY <1>1, CleanAssumption DEF Before
  <2>4. left \in ScenarioType /\ opt \in Options
    BY <1>5, CleanAssumption DEF ScenarioType
  <2>5. view \in ViewType
    BY <1>5 DEF NoView, ViewType
  <2> QED BY <1>5, <2>1, <2>2, <2>3, <2>4, <2>5 DEF Init, TypeOK
<1>7. SendsLocked /\ CleanLocked
  BY <1>4, <1>5 DEF SendsLocked, CleanLocked
<1>8. CacheAgrees
  BY <1>2 DEF CacheAgrees
<1>9. OursWhole /\ CachedWhole
  BY <1>2, <1>3 DEF OursWhole, CachedWhole
<1>10. OthersWhole
  <2>1. ASSUME Sparing, opt.force, NEW j \in Jobs PROVE manifest[j] = 0
    BY <2>1, JobFacts DEF Sparing, Before
  <2> QED BY <1>3, <2>1 DEF OthersWhole
<1>11. ManifestsRead /\ ObjectsRead /\ ContentsRead /\ DeletesUnlisted /\ DeletesTheRest
  BY <1>5 DEF ManifestsRead, ObjectsRead, ContentsRead, DeletesUnlisted, DeletesTheRest, Reading
<1> QED BY <1>6, <1>7, <1>8, <1>9, <1>10, <1>11 DEF Inv

-----------------------------------------------------------------------------
(* Sends, and a loss at the destination: they touch one dataset, which     *)
(* clean has not locked.                                                   *)

\* What a step on dataset d may touch.
Beside(d) ==
    /\ d \notin locked /\ UNCHANGED clean /\ left' \in ScenarioType /\ left'.jobs = left.jobs
    /\ \A j \in Jobs : ds[j[2]] # d => /\ manifest'[j] = manifest[j] /\ cache'[j] = cache[j]
                                       /\ j \in broken' <=> j \in broken
    /\ \A s \in Set : ds[s] # d => objects'[s] = objects[s]
    /\ \A e \in Dataset \ {d} : lock'[e] = lock[e] /\ sender'[e] = sender[e]

\* clean judges by what it read, its options, and the datasets that were busy.
LEMMA JudgedAlike ==
    ASSUME UNCHANGED <<view, opt, busy>>
    PROVE  /\ decodedManifests' = decodedManifests /\ Forced' = Forced
           /\ DropLocal' = DropLocal /\ AtDestination' = AtDestination
           /\ datasets(view)' = datasets(view)
           /\ \A s, i : keep(s, i)' <=> keep(s, i)
<1>1. AtDestination' = AtDestination /\ DropLocal' = DropLocal
  BY DEF AtDestination, DropLocal
<1>2. Forced' = Forced /\ decodedManifests' = decodedManifests
  BY <1>1 DEF Forced, Missing, decodedManifests
<1>3. \A s, i : keep(s, i)' <=> keep(s, i)
  BY <1>2 DEF keep, Lists
<1> QED BY <1>1, <1>2, <1>3 DEF datasets

LEMMA BesideSparing == ASSUME NEW d, Beside(d) PROVE Sparing' = Sparing
BY DEF Beside, Sparing, clean

\* What clean read and planned is about the datasets it locked.
LEMMA BesideClean ==
    ASSUME Inv, NEW d \in Dataset, Beside(d)
    PROVE  /\ CleanLocked' /\ ManifestsRead' /\ ObjectsRead' /\ ContentsRead'
           /\ DeletesUnlisted' /\ DeletesTheRest'
<1>1. UNCHANGED <<cpc, opt, round, locked, busy, view, deletes, localDeletes>>
  BY DEF Beside, clean
<1>2. \A j \in Jobs : ds[j[2]] \in locked =>
         manifest'[j] = manifest[j] /\ cache'[j] = cache[j] /\ (j \in broken' <=> j \in broken)
  BY DEF Beside
<1>3. \A s \in Set : ds[s] \in locked => objects'[s] = objects[s]
  BY DEF Beside
<1>4. CleanLocked'
  <2>1. \A e \in locked : e \in Dataset /\ e # d
    BY DEF Beside, Inv, TypeOK
  <2> QED BY <1>1, <2>1 DEF Beside, Inv, CleanLocked
<1>5. ManifestsRead'
  BY <1>1, <1>2, JobFacts DEF Inv, ManifestsRead
<1>6. ObjectsRead'
  BY <1>1, <1>2, <1>3, JobFacts DEF Inv, ObjectsRead
<1>7. ContentsRead'
  BY <1>1, <1>2, JudgedAlike DEF Inv, ContentsRead
<1>8. DeletesUnlisted'
  <2> SUFFICES ASSUME cpc = "delete", NEW v \in deletes
               PROVE  /\ ds[v[1]] \in locked
                      /\ v[2] # 0 => \A j \in Jobs \ broken' : j[2] = v[1] =>
                           /\ j[1] = "ours" \/ Sparing' => manifest'[j] < v[2]
                           /\ ~opt.local \/ j[1] = "other" => cache'[j] < v[2]
    BY <1>1 DEF DeletesUnlisted
  <2>1. ds[v[1]] \in locked
    BY DEF Inv, DeletesUnlisted
  <2>2. ASSUME NEW j \in Jobs \ broken', j[2] = v[1]
        PROVE  j \in Jobs \ broken /\ manifest'[j] = manifest[j] /\ cache'[j] = cache[j]
    BY <1>2, <2>1, <2>2
  <2> QED BY <2>1, <2>2, BesideSparing DEF Inv, DeletesUnlisted
<1>9. DeletesTheRest'
  <2> SUFFICES ASSUME cpc = "delete" PROVE DeletesTheRest'
    BY <1>1 DEF DeletesTheRest
  <2>1. \A s \in Set : ds[s] \in locked' \cap datasets(view)' =>
            \A i \in objects'[s] : <<s, i>> \in deletes' \/ keep(s, i)' \/ s \in view'.other
    BY <1>1, <1>3, JudgedAlike DEF Inv, DeletesTheRest
  <2>2. \A s \in view'.other : ds[s] \in locked' => manifest'[<<"other", s>>] > 0
    <3>1. \A s \in view.other : <<"other", s>> \in Jobs /\ <<"other", s>>[2] = s
      BY JobFacts DEF Inv, TypeOK, ViewType
    <3>2. \A s \in view.other : ds[s] \in locked => manifest'[<<"other", s>>] = manifest[<<"other", s>>]
      BY <1>2, <3>1
    <3> QED BY <1>1, <3>2 DEF Inv, DeletesTheRest
  <2>3. \A j \in decodedManifests' \ Forced' : ds[j[2]] \in locked' => cache'[j] = view'.content[j]
    <3>1. decodedManifests \subseteq Jobs
      BY JobFacts DEF decodedManifests, AtDestination, Inv, TypeOK, ViewType
    <3> QED BY <1>1, <1>2, <3>1, JudgedAlike DEF Inv, DeletesTheRest
  <2>4. localDeletes' \subseteq DropLocal' \cup Forced' /\ DropLocal' \cap AtDestination' = {}
        /\ datasets(view)' \subseteq locked' \cup busy'
    BY <1>1, JudgedAlike DEF Inv, DeletesTheRest
  <2> QED BY <2>1, <2>2, <2>3, <2>4 DEF DeletesTheRest
<1> QED BY <1>4, <1>5, <1>6, <1>7, <1>8, <1>9

\* The sends of the other datasets go on.
LEMMA BesideSends ==
    ASSUME Inv, NEW d \in Dataset, Beside(d),
           sender'[d] # NoSend =>
               /\ lock'[d] = "send" /\ ds[sender'[d].set[2]] = d
               /\ sender'[d].set \in left.jobs /\ manifest'[sender'[d].set] = 0
               /\ 1..sender'[d].sent \subseteq objects'[sender'[d].set[2]]
    PROVE  SendsLocked'
<1> SUFFICES ASSUME NEW e \in Dataset, sender'[e] # NoSend
             PROVE  /\ lock'[e] = "send" /\ ds[sender'[e].set[2]] = e
                    /\ sender'[e].set \in left'.jobs /\ manifest'[sender'[e].set] = 0
                    /\ 1..sender'[e].sent \subseteq objects'[sender'[e].set[2]]
  BY DEF SendsLocked
<1>1. left'.jobs = left.jobs
  BY DEF Beside
<1>2. CASE e = d
  BY <1>1, <1>2
<1>3. CASE e # d
  <2>1. sender'[e] = sender[e] /\ lock'[e] = lock[e]
    BY <1>3 DEF Beside
  <2>2. sender[e].set \in Jobs /\ sender[e].set[2] \in Set /\ ds[sender[e].set[2]] = e
    BY <2>1, SendFacts
  <2>3. manifest'[sender[e].set] = manifest[sender[e].set]
        /\ objects'[sender[e].set[2]] = objects[sender[e].set[2]]
    BY <1>3, <2>2 DEF Beside
  <2> QED BY <1>1, <2>1, <2>3, SendFacts
<1> QED BY <1>2, <1>3


\* A send starts, on a free dataset, from the volumes of its cached manifest that are there.
LEMMA StartSendInv ==
    ASSUME Inv, NEW j \in Jobs, NEW resume \in BOOLEAN, StartSend(j, resume) PROVE Inv'
<1> DEFINE d == ds[j[2]]
           kept == IF resume /\ 1..cache[j] \subseteq objects[j[2]] THEN cache[j] ELSE 0
<1>1. /\ j \in left.jobs /\ lock[d] = "free" /\ manifest[j] = 0 /\ Count("send")
      /\ lock' = [lock EXCEPT ![d] = "send"]
      /\ sender' = [sender EXCEPT ![d] = [set |-> j, sent |-> kept]]
      /\ cache' = [cache EXCEPT ![j] = kept] /\ broken' = broken \ {j}
      /\ UNCHANGED <<objects, manifest, clean>>
  BY DEF StartSend
<1>2. d \in Dataset /\ j[2] \in Set
  BY JobFacts
<1>3. kept \in Nat /\ 1..kept \subseteq objects[j[2]]
  BY DEF Inv, TypeOK
<1> HIDE DEF d, kept
<1>4. left' \in ScenarioType /\ left'.jobs = left.jobs
  BY <1>1, CountFacts
<1>5. lock'[d] = "send" /\ sender'[d] = [set |-> j, sent |-> kept] /\ cache'[j] = kept
      /\ (\A e \in Dataset \ {d} : lock'[e] = lock[e] /\ sender'[e] = sender[e])
      /\ (\A k \in Jobs \ {j} : cache'[k] = cache[k])
  BY <1>1, <1>2 DEF Inv, TypeOK
<1>6. Beside(d)
  <2>1. d \notin locked
    BY <1>1, <1>2, LockFacts
  <2> QED BY <1>1, <1>4, <1>5, <2>1 DEF Beside, d
<1>7. TypeOK'
  <2>1. sender' \in [Dataset -> [set : Jobs, sent : Nat] \cup {NoSend}]
    BY <1>1, <1>3 DEF Inv, TypeOK
  <2>2. cache' \in [Jobs -> Nat] /\ lock' \in [Dataset -> {"free", "send", "clean"}]
    BY <1>1, <1>3 DEF Inv, TypeOK
  <2> QED BY <1>1, <1>4, <2>1, <2>2 DEF Inv, TypeOK, clean
<1>8. SendsLocked'
  BY <1>1, <1>2, <1>3, <1>5, <1>6, BesideSends DEF d
<1>9. CacheAgrees'
  BY <1>1, <1>5 DEF Inv, CacheAgrees
<1>10. OursWhole'
  BY <1>1 DEF Inv, OursWhole
<1>11. OthersWhole'
  <2>1. Sparing' = Sparing /\ opt' = opt
    BY <1>1, <1>6, BesideSparing DEF clean
  <2> QED BY <1>1, <2>1 DEF Inv, OthersWhole
<1>12. CachedWhole'
  <2> SUFFICES ASSUME NEW k \in Jobs \ broken', ~opt.local \/ k[1] = "other"
               PROVE  1..cache'[k] \subseteq objects[k[2]]
    BY <1>1 DEF CachedWhole, clean
  <2>1. CASE k = j
    BY <1>3, <1>5, <2>1
  <2>2. CASE k # j
    BY <1>1, <1>5, <2>2 DEF Inv, CachedWhole
  <2> QED BY <2>1, <2>2
<1> QED BY <1>2, <1>6, <1>7, <1>8, <1>9, <1>10, <1>11, <1>12, BesideClean DEF Inv

\* A volume arrives.
LEMMA UploadInv == ASSUME Inv, NEW d \in Dataset, Upload(d) PROVE Inv'
<1> DEFINE w == sender[d]
           s == w.set[2]
<1>1. /\ w # NoSend /\ w.sent = cache[w.set] /\ w.sent < NumVolumes
      /\ objects' = [objects EXCEPT ![s] = @ \cup {w.sent + 1}]
      /\ sender' = [sender EXCEPT ![d].sent = @ + 1]
      /\ UNCHANGED <<manifest, cache, lock, broken, clean, left>>
  BY DEF Upload
<1>2. w \in [set : Jobs, sent : Nat] /\ w.set \in Jobs /\ w.sent \in Nat /\ s \in Set
      /\ lock[d] = "send" /\ ds[s] = d /\ w.set \in left.jobs /\ manifest[w.set] = 0
      /\ 1..w.sent \subseteq objects[s]
  BY <1>1, SendFacts
<1> HIDE DEF s
<1>3. objects'[s] = objects[s] \cup {w.sent + 1}
      /\ (\A t \in Set \ {s} : objects'[t] = objects[t])
  BY <1>1, <1>2 DEF Inv, TypeOK
<1>4. \A t \in Set : objects[t] \subseteq objects'[t]
  BY <1>3
<1>5. sender'[d] = [set |-> w.set, sent |-> w.sent + 1]
      /\ (\A e \in Dataset \ {d} : sender'[e] = sender[e])
  BY <1>1, <1>2 DEF Inv, TypeOK
<1>6. Beside(d)
  <2>1. d \notin locked
    BY <1>2, LockFacts
  <2>2. left \in ScenarioType
    BY DEF Inv, TypeOK
  <2> QED BY <1>1, <1>2, <1>3, <1>5, <2>1, <2>2 DEF Beside
<1>7. TypeOK'
  <2>1. sender' \in [Dataset -> [set : Jobs, sent : Nat] \cup {NoSend}]
    BY <1>1, <1>2, <1>5 DEF Inv, TypeOK
  <2>2. w.sent + 1 \in Num
    BY <1>1, <1>2, CleanAssumption DEF Num
  <2>3. objects' \in [Set -> SUBSET Num]
    BY <1>1, <2>2 DEF Inv, TypeOK
  <2> QED BY <1>1, <2>1, <2>3 DEF Inv, TypeOK, clean
<1>8. SendsLocked'
  <2>1. 1..(w.sent + 1) \subseteq objects'[s]
    BY <1>2, <1>3
  <2>2. w.set[2] = s
    BY DEF s
  <2> QED BY <1>1, <1>2, <1>5, <1>6, <2>1, <2>2, BesideSends
<1>9. CacheAgrees'
  BY <1>1 DEF Inv, CacheAgrees
<1>10. OursWhole'
  BY <1>1, <1>4, JobFacts DEF Inv, OursWhole
<1>11. OthersWhole'
  <2>1. Sparing' = Sparing /\ opt' = opt
    BY <1>1, <1>6, BesideSparing DEF clean
  <2> QED BY <1>1, <1>4, <2>1, JobFacts DEF Inv, OthersWhole
<1>12. CachedWhole'
  BY <1>1, <1>4, JobFacts DEF Inv, CachedWhole, clean
<1> QED BY <1>6, <1>7, <1>8, <1>9, <1>10, <1>11, <1>12, BesideClean DEF Inv

\* saveManifest: the cached manifest lists what was sent.
LEMMA SaveInv == ASSUME Inv, NEW d \in Dataset, Save(d) PROVE Inv'
<1> DEFINE w == sender[d]
<1>1. /\ w # NoSend
      /\ cache' = [cache EXCEPT ![w.set] = w.sent]
      /\ UNCHANGED <<objects, manifest, sender, broken, lock, clean, left>>
  BY DEF Save, sends
<1>2. w.set \in Jobs /\ w.sent \in Nat
      /\ lock[d] = "send" /\ ds[w.set[2]] = d /\ w.set \in left.jobs /\ manifest[w.set] = 0
      /\ 1..w.sent \subseteq objects[w.set[2]]
  BY <1>1, SendFacts
<1>3. cache'[w.set] = w.sent /\ (\A k \in Jobs \ {w.set} : cache'[k] = cache[k])
  BY <1>1, <1>2 DEF Inv, TypeOK
<1>4. Beside(d)
  <2>1. d \notin locked
    BY <1>2, LockFacts
  <2>2. left \in ScenarioType
    BY DEF Inv, TypeOK
  <2> QED BY <1>1, <1>2, <1>3, <2>1, <2>2 DEF Beside
<1>5. TypeOK'
  BY <1>1, <1>2 DEF Inv, TypeOK, clean
<1>6. SendsLocked'
  BY <1>1, <1>2, <1>4, BesideSends
<1>7. CacheAgrees'
  BY <1>1, <1>2, <1>3 DEF Inv, CacheAgrees
<1>8. OursWhole'
  BY <1>1 DEF Inv, OursWhole
<1>9. OthersWhole'
  <2>1. Sparing' = Sparing /\ opt' = opt
    BY <1>1, <1>4, BesideSparing DEF clean
  <2> QED BY <1>1, <2>1 DEF Inv, OthersWhole
<1>10. CachedWhole'
  BY <1>1, <1>2, <1>3 DEF Inv, CachedWhole, clean
<1> QED BY <1>4, <1>5, <1>6, <1>7, <1>8, <1>9, <1>10, BesideClean DEF Inv

\* The final manifest arrives.
LEMMA PublishInv == ASSUME Inv, NEW d \in Dataset, Publish(d) PROVE Inv'
<1> DEFINE w == sender[d]
<1>1. /\ w # NoSend /\ w.sent = cache[w.set] /\ w.sent > 0
      /\ manifest' = [manifest EXCEPT ![w.set] = w.sent]
      /\ lock' = [lock EXCEPT ![d] = "free"] /\ sender' = [sender EXCEPT ![d] = NoSend]
      /\ UNCHANGED <<objects, cache, broken, clean, left>>
  BY DEF Publish, EndSend
<1>2. w.set \in Jobs /\ w.sent \in Nat
      /\ lock[d] = "send" /\ ds[w.set[2]] = d /\ w.set \in left.jobs /\ manifest[w.set] = 0
      /\ 1..w.sent \subseteq objects[w.set[2]]
  BY <1>1, SendFacts
<1>3. manifest'[w.set] = w.sent /\ (\A k \in Jobs \ {w.set} : manifest'[k] = manifest[k])
      /\ sender'[d] = NoSend
      /\ (\A e \in Dataset \ {d} : lock'[e] = lock[e] /\ sender'[e] = sender[e])
  BY <1>1, <1>2 DEF Inv, TypeOK
<1>4. Beside(d)
  <2>1. d \notin locked
    BY <1>2, LockFacts
  <2>2. left \in ScenarioType
    BY DEF Inv, TypeOK
  <2> QED BY <1>1, <1>2, <1>3, <2>1, <2>2 DEF Beside
<1>5. TypeOK'
  <2>1. manifest' \in [Jobs -> Nat]
    BY <1>1, <1>2 DEF Inv, TypeOK
  <2>2. sender' \in [Dataset -> [set : Jobs, sent : Nat] \cup {NoSend}]
    BY <1>1 DEF Inv, TypeOK
  <2>3. lock' \in [Dataset -> {"free", "send", "clean"}]
    BY <1>1 DEF Inv, TypeOK
  <2> QED BY <1>1, <2>1, <2>2, <2>3 DEF Inv, TypeOK, clean
<1>6. SendsLocked'
  BY <1>3, <1>4, BesideSends
<1>7. CacheAgrees'
  BY <1>1, <1>2, <1>3 DEF Inv, CacheAgrees
<1>8. OursWhole'
  BY <1>1, <1>2, <1>3 DEF Inv, OursWhole
<1>9. OthersWhole'
  <2>1. Sparing' = Sparing /\ opt' = opt
    BY <1>1, <1>4, BesideSparing DEF clean
  <2>2. Sparing /\ opt.force => w.set[1] = "ours"
    BY <1>2 DEF Sparing
  <2> QED BY <1>1, <1>2, <1>3, <2>1, <2>2 DEF Inv, OthersWhole
<1>10. CachedWhole'
  BY <1>1 DEF Inv, CachedWhole, clean
<1> QED BY <1>4, <1>5, <1>6, <1>7, <1>8, <1>9, <1>10, BesideClean DEF Inv

\* A send ends early.
LEMMA StopSendInv == ASSUME Inv, NEW d \in Dataset, StopSend(d) PROVE Inv'
<1>1. /\ sender[d] # NoSend /\ Count("failure")
      /\ lock' = [lock EXCEPT ![d] = "free"] /\ sender' = [sender EXCEPT ![d] = NoSend]
      /\ UNCHANGED <<objects, manifest, cache, broken, clean>>
  BY DEF StopSend, EndSend
<1>2. lock[d] = "send"
  BY <1>1, SendFacts
<1>3. sender'[d] = NoSend /\ (\A e \in Dataset \ {d} : lock'[e] = lock[e] /\ sender'[e] = sender[e])
  BY <1>1 DEF Inv, TypeOK
<1>4. left' \in ScenarioType /\ left'.jobs = left.jobs
  BY <1>1, CountFacts
<1>5. Beside(d)
  <2>1. d \notin locked
    BY <1>2, LockFacts
  <2> QED BY <1>1, <1>3, <1>4, <2>1 DEF Beside
<1>6. TypeOK'
  <2>1. sender' \in [Dataset -> [set : Jobs, sent : Nat] \cup {NoSend}]
    BY <1>1 DEF Inv, TypeOK
  <2>2. lock' \in [Dataset -> {"free", "send", "clean"}]
    BY <1>1 DEF Inv, TypeOK
  <2> QED BY <1>1, <1>4, <2>1, <2>2 DEF Inv, TypeOK, clean
<1>7. SendsLocked'
  BY <1>3, <1>5, BesideSends
<1>8. CacheAgrees' /\ OursWhole' /\ CachedWhole'
  BY <1>1 DEF Inv, CacheAgrees, OursWhole, CachedWhole, clean
<1>9. OthersWhole'
  <2>1. Sparing' = Sparing /\ opt' = opt
    BY <1>1, <1>5, BesideSparing DEF clean
  <2> QED BY <1>1, <2>1 DEF Inv, OthersWhole
<1> QED BY <1>5, <1>6, <1>7, <1>8, <1>9, BesideClean DEF Inv

\* A volume is lost: the sets that list it are broken from then on.
LEMMA DamageInv == ASSUME Inv, NEW s \in Set, NEW i \in Num, Damage(s, i) PROVE Inv'
<1> DEFINE d == ds[s]
           hurt == {j \in Jobs : j[2] = s /\ (manifest[j] >= i \/ cache[j] >= i)}
<1>1. /\ Count("damage") /\ lock[d] = "free"
      /\ objects' = [objects EXCEPT ![s] = @ \ {i}]
      /\ broken' = broken \cup hurt
      /\ UNCHANGED <<manifest, cache, lock, sender, clean>>
  BY DEF Damage
<1>2. d \in Dataset /\ i \in Nat
  BY JobFacts, CleanAssumption DEF Num
<1>3. left' \in ScenarioType /\ left'.jobs = left.jobs
  BY <1>1, CountFacts
<1>4. objects'[s] = objects[s] \ {i} /\ (\A t \in Set \ {s} : objects'[t] = objects[t])
  BY <1>1 DEF Inv, TypeOK
<1>5. hurt \subseteq Jobs /\ \A j \in hurt : j[2] = s
  OBVIOUS
<1>6. ASSUME NEW j \in Jobs \ broken'
      PROVE  /\ j \notin broken
             /\ \A n \in {manifest[j], cache[j]} :
                   1..n \subseteq objects[j[2]] => 1..n \subseteq objects'[j[2]]
  <2>1. j \notin broken
    BY <1>1, <1>6
  <2>2. CASE j[2] # s
    BY <1>4, <2>1, <2>2, JobFacts
  <2>3. CASE j[2] = s
    <3>1. ~(manifest[j] >= i) /\ ~(cache[j] >= i)
      BY <1>1, <1>6, <2>3
    <3>2. manifest[j] \in Nat /\ cache[j] \in Nat
      BY DEF Inv, TypeOK
    <3>3. i \notin 1..manifest[j] /\ i \notin 1..cache[j]
      BY <1>2, <3>1, <3>2
    <3> QED BY <1>4, <2>1, <2>3, <3>3
  <2> QED BY <2>2, <2>3
<1>7. Beside(d)
  <2>1. d \notin locked
    BY <1>1, <1>2, LockFacts
  <2>2. \A j \in Jobs : ds[j[2]] # d => (j \in broken' <=> j \in broken)
    BY <1>1, <1>5
  <2> QED BY <1>1, <1>3, <1>4, <2>1, <2>2 DEF Beside
<1> HIDE DEF d, hurt
<1>8. TypeOK'
  <2>1. objects' \in [Set -> SUBSET Num]
    BY <1>1 DEF Inv, TypeOK
  <2>2. broken' \subseteq Jobs
    BY <1>1, <1>5 DEF Inv, TypeOK
  <2> QED BY <1>1, <1>3, <2>1, <2>2 DEF Inv, TypeOK, clean
<1>9. SendsLocked'
  <2>1. sender'[d] = NoSend
    BY <1>1, <1>2, SendFacts
  <2> QED BY <1>2, <1>7, <2>1, BesideSends
<1>10. CacheAgrees'
  BY <1>1 DEF Inv, CacheAgrees
<1>11. OursWhole'
  BY <1>1, <1>6 DEF Inv, OursWhole
<1>12. OthersWhole'
  <2>1. Sparing' = Sparing /\ opt' = opt
    BY <1>1, <1>7, BesideSparing DEF clean
  <2> QED BY <1>1, <1>6, <2>1 DEF Inv, OthersWhole
<1>13. CachedWhole'
  BY <1>1, <1>6 DEF Inv, CachedWhole, clean
<1> QED BY <1>2, <1>7, <1>8, <1>9, <1>10, <1>11, <1>12, <1>13, BesideClean DEF Inv


-----------------------------------------------------------------------------
(* clean reads.                                                            *)

\* The datasets of what was read.
LEMMA DatasetsFacts ==
    ASSUME NEW v \in ViewType
    PROVE  /\ datasets(v) \subseteq Dataset
           /\ \A s \in v.ours : ds[s] \in datasets(v)
           /\ \A j \in v.localOnly : j[1] = "ours" => ds[j[2]] \in datasets(v)
<1>1. v.ours \subseteq Set /\ v.localOnly \subseteq Jobs
  BY DEF ViewType
<1>2. {ds[s] : s \in v.ours} \subseteq Dataset
  BY <1>1, JobFacts
<1>3. {ds[j[2]] : j \in {k \in v.localOnly : k[1] = "ours"}} \subseteq Dataset
  BY <1>1, JobFacts
<1> QED BY <1>2, <1>3 DEF datasets

\* A step of clean that deletes nothing leaves the sends and what is published.
LEMMA SendsStay ==
    ASSUME Inv, UNCHANGED <<objects, manifest, sender, broken, opt>>, left'.jobs = left.jobs,
           \A d \in Dataset : lock[d] = "send" => lock'[d] = "send"
    PROVE  SendsLocked' /\ OursWhole' /\ OthersWhole'
<1>1. SendsLocked'
  BY SendFacts DEF SendsLocked
<1>2. OursWhole'
  BY DEF Inv, OursWhole
<1>3. Sparing' = Sparing
  BY DEF Sparing
<1>4. OthersWhole'
  BY <1>3 DEF Inv, OthersWhole
<1> QED BY <1>1, <1>2, <1>4

LEMMA StartCleanInv == ASSUME Inv, StartClean PROVE Inv'
<1>1. /\ cpc = "idle" /\ Count("clean") /\ cpc' = "sync"
      /\ UNCHANGED <<objects, cache, manifest, sender, broken, lock, opt, locked, busy, view, deletes, localDeletes>>
  BY DEF StartClean, sends
<1>2. left' \in ScenarioType /\ left'.jobs = left.jobs
  BY <1>1, CountFacts
<1>3. TypeOK'
  BY <1>1, <1>2 DEF Inv, TypeOK
<1>4. SendsLocked' /\ OursWhole' /\ OthersWhole'
  BY <1>1, <1>2, SendsStay
<1>5. CleanLocked'
  BY <1>1 DEF Inv, CleanLocked
<1>6. CacheAgrees' /\ CachedWhole'
  BY <1>1 DEF Inv, CacheAgrees, CachedWhole
<1>7. ManifestsRead' /\ ObjectsRead' /\ ContentsRead' /\ DeletesUnlisted' /\ DeletesTheRest'
  BY <1>1 DEF ManifestsRead, ObjectsRead, ContentsRead, DeletesUnlisted, DeletesTheRest, Reading
<1> QED BY <1>3, <1>4, <1>5, <1>6, <1>7 DEF Inv

\* clean ends, with whatever it has left undone, and gives its locks back.
LEMMA EndCleanInv ==
    ASSUME Inv, EndClean, UNCHANGED <<objects, cache, manifest, sender, broken, opt>>,
           left' \in ScenarioType, left'.jobs = left.jobs
    PROVE  Inv'
<1>1. /\ cpc' = "idle" /\ locked' = {} /\ busy' = {} /\ view' = NoView
      /\ deletes' = {} /\ localDeletes' = {}
      /\ lock' = [d \in Dataset |-> IF d \in locked THEN "free" ELSE lock[d]]
  BY DEF EndClean, ReleaseLocks
<1>2. view' \in ViewType
  BY <1>1 DEF NoView, ViewType
<1>3. TypeOK'
  <2>1. lock' \in [Dataset -> {"free", "send", "clean"}]
    BY <1>1 DEF Inv, TypeOK
  <2> QED BY <1>1, <1>2, <2>1 DEF Inv, TypeOK, ViewType
<1>4. \A d \in Dataset : lock[d] = "send" => lock'[d] = "send"
  BY <1>1 DEF Inv, CleanLocked
<1>5. SendsLocked' /\ OursWhole' /\ OthersWhole'
  BY <1>4, SendsStay
<1>6. CleanLocked'
  BY <1>1 DEF CleanLocked
<1>7. CacheAgrees' /\ CachedWhole'
  BY DEF Inv, CacheAgrees, CachedWhole
<1>8. ManifestsRead' /\ ObjectsRead' /\ ContentsRead' /\ DeletesUnlisted' /\ DeletesTheRest'
  BY <1>1 DEF ManifestsRead, ObjectsRead, ContentsRead, DeletesUnlisted, DeletesTheRest, Reading
<1> QED BY <1>3, <1>5, <1>6, <1>7, <1>8 DEF Inv

\* syncCache: what is downloaded is the published manifest.
LEMMA SyncInv == ASSUME Inv, Sync PROVE Inv'
<1> DEFINE ours == {s \in Set : manifest[<<"ours", s>>] > 0}
<1>1. /\ cpc = "sync" /\ cpc' = "list"
      /\ cache' = [j \in Jobs |-> IF j[1] = "ours" /\ j[2] \in ours /\ cache[j] = 0 THEN manifest[j]
                                  ELSE cache[j]]
      /\ view' = [NoView EXCEPT !.ours = ours,
                  !.localOnly = {j \in Jobs : cache'[j] > 0 /\ ~(j[1] = "ours" /\ j[2] \in ours)}]
      /\ UNCHANGED <<objects, manifest, sender, broken, lock, opt, locked, busy, deletes, localDeletes, left>>
  BY DEF Sync, sends
<1>2. manifest \in [Jobs -> Nat] /\ cache \in [Jobs -> Nat] /\ cache' \in [Jobs -> Nat]
  BY <1>1 DEF Inv, TypeOK
<1>3. \A j \in Jobs : cache'[j] = cache[j] \/ (j[1] = "ours" /\ j[2] \in ours /\ cache'[j] = manifest[j])
  BY <1>1
<1>4. \A s \in Set : s \in ours => cache'[<<"ours", s>>] = manifest[<<"ours", s>>]
  <2> SUFFICES ASSUME NEW s \in Set, s \in ours PROVE cache'[<<"ours", s>>] = manifest[<<"ours", s>>]
    OBVIOUS
  <2>1. <<"ours", s>> \in Jobs /\ manifest[<<"ours", s>>] > 0
    BY JobFacts
  <2>2. CASE cache[<<"ours", s>>] = 0
    BY <1>1, <2>1, <2>2
  <2>3. CASE cache[<<"ours", s>>] # 0
    BY <1>1, <1>2, <2>1, <2>3 DEF Inv, CacheAgrees
  <2> QED BY <2>2, <2>3
<1>5. view'.ours = ours
      /\ view'.localOnly = {j \in Jobs : cache'[j] > 0 /\ ~(j[1] = "ours" /\ j[2] \in ours)}
      /\ view' \in ViewType
  BY <1>1 DEF NoView, ViewType
<1>6. TypeOK'
  BY <1>1, <1>2, <1>5 DEF Inv, TypeOK, ViewType, Reading
<1>7. SendsLocked' /\ OursWhole' /\ OthersWhole'
  BY <1>1, SendsStay
<1>8. CleanLocked'
  BY <1>1 DEF Inv, CleanLocked
<1>9. CacheAgrees'
  BY <1>1, <1>3 DEF Inv, CacheAgrees
<1>10. CachedWhole'
  BY <1>1, <1>3 DEF Inv, CachedWhole, OursWhole
<1>11. ManifestsRead'
  <2>1. \A s \in Set : (s \in view'.ours <=> manifest[<<"ours", s>>] > 0)
                       /\ (s \in view'.ours => cache'[<<"ours", s>>] = manifest[<<"ours", s>>])
    BY <1>4, <1>5
  <2>2. \A j \in Jobs : cache'[j] > 0 => j \in view'.localOnly \/ (j[1] = "ours" /\ j[2] \in view'.ours)
    BY <1>5
  <2>3. \A s \in view'.ours : <<"ours", s>> \notin view'.localOnly
    BY <1>5
  <2> QED BY <1>1, <2>1, <2>2, <2>3 DEF ManifestsRead
<1>12. ObjectsRead' /\ ContentsRead' /\ DeletesUnlisted' /\ DeletesTheRest'
  BY <1>1 DEF ObjectsRead, ContentsRead, DeletesUnlisted, DeletesTheRest
<1> QED BY <1>6, <1>7, <1>8, <1>9, <1>10, <1>11, <1>12 DEF Inv

\* backend.List.
LEMMA ListObjectsInv == ASSUME Inv, ListObjects PROVE Inv'
<1>1. /\ cpc = "list" /\ cpc' = "decode"
      /\ view' = [view EXCEPT !.objects = objects,
                              !.other = {s \in OtherSets : manifest[<<"other", s>>] > 0}]
      /\ UNCHANGED <<objects, cache, manifest, sender, broken, lock, opt, locked, busy, deletes, localDeletes, left>>
  BY DEF ListObjects, sends
<1>2. view \in ViewType /\ objects \in [Set -> SUBSET Num]
  BY DEF Inv, TypeOK, ViewType
<1>3. view' \in ViewType /\ view'.ours = view.ours /\ view'.localOnly = view.localOnly
      /\ view'.objects = objects /\ view'.other = {s \in OtherSets : manifest[<<"other", s>>] > 0}
  BY <1>1, <1>2 DEF ViewType
<1>4. TypeOK'
  BY <1>1, <1>3 DEF Inv, TypeOK, ViewType, Reading
<1>5. SendsLocked' /\ OursWhole' /\ OthersWhole'
  BY <1>1, SendsStay
<1>6. CleanLocked' /\ CacheAgrees' /\ CachedWhole'
  BY <1>1 DEF Inv, CleanLocked, CacheAgrees, CachedWhole
<1>7. ManifestsRead'
  BY <1>1, <1>3 DEF Inv, ManifestsRead, Reading
<1>8. ObjectsRead'
  <2>1. \A s \in Set : \A j \in Jobs : j = <<"other", s>> => (s \in view'.other <=> manifest[j] > 0)
    BY <1>3, JobFacts
  <2> QED BY <1>1, <1>3, <2>1 DEF ObjectsRead
<1>9. ContentsRead' /\ DeletesUnlisted' /\ DeletesTheRest'
  BY <1>1 DEF ContentsRead, DeletesUnlisted, DeletesTheRest
<1> QED BY <1>4, <1>5, <1>6, <1>7, <1>8, <1>9 DEF Inv

\* The manifests are read; datasets that are new in them are locked for another round.
LEMMA DecodeInv == ASSUME Inv, Decode PROVE Inv'
<1> DEFINE known == [view EXCEPT !.content = [j \in Jobs |-> cache[j]]]
           new   == datasets(known) \ (locked \cup busy)
           free  == {d \in new : lock[d] = "free"}
<1>1. cpc = "decode" /\ UNCHANGED <<objects, cache, manifest, sender, broken, opt, left>>
  BY DEF Decode, sends
<1>2. CASE EndClean
  <2>1. left' \in ScenarioType
    BY <1>1 DEF Inv, TypeOK
  <2> QED BY <1>1, <1>2, <2>1, EndCleanInv
<1>3. CASE /\ view' = known
           /\ lock' = [d \in Dataset |-> IF d \in free THEN "clean" ELSE lock[d]]
           /\ locked' = locked \cup free /\ busy' = busy \cup (new \ free)
           /\ cpc' = IF ReadsAgain(new) THEN "sync" ELSE "judge"
           /\ UNCHANGED <<deletes, localDeletes>>
  <2>1. view \in ViewType /\ cache \in [Jobs -> Nat]
    BY DEF Inv, TypeOK, ViewType
  <2>2. known \in ViewType /\ known.ours = view.ours /\ known.localOnly = view.localOnly
        /\ known.objects = view.objects /\ known.other = view.other
        /\ known.content = [j \in Jobs |-> cache[j]]
    BY <2>1 DEF ViewType
  <2> HIDE DEF known
  <2>3. new \subseteq Dataset /\ free \subseteq new
    BY <2>2, DatasetsFacts
  <2>4. new \cap (locked \cup busy) = {} /\ \A d \in free : lock[d] = "free"
    OBVIOUS
  <2>5. new = {} => datasets(known) \subseteq locked \cup busy
    OBVIOUS
  <2> HIDE DEF new, free
  <2>6. TypeOK'
    <3>1. lock' \in [Dataset -> {"free", "send", "clean"}]
      BY <1>3 DEF Inv, TypeOK
    <3>2. cpc' \in {"sync", "judge"}
      BY <1>3
    <3>3. locked' \subseteq Dataset /\ busy' \subseteq Dataset
      BY <1>3, <2>3 DEF Inv, TypeOK
    <3> QED BY <1>1, <1>3, <2>2, <3>1, <3>2, <3>3 DEF Inv, TypeOK, ViewType, Reading
  <2>7. SendsLocked' /\ OursWhole' /\ OthersWhole'
    <3>1. \A d \in Dataset : lock[d] = "send" => lock'[d] = "send"
      BY <1>3, <2>4
    <3> QED BY <1>1, <3>1, SendsStay
  <2>8. CleanLocked'
    <3>1. \A d \in locked' : lock'[d] = "clean" /\ d \notin busy'
      BY <1>3, <2>3, <2>4 DEF Inv, TypeOK, CleanLocked
    <3> QED BY <1>1, <1>3, <3>1 DEF Inv, CleanLocked
  <2>9. CacheAgrees' /\ CachedWhole'
    BY <1>1 DEF Inv, CacheAgrees, CachedWhole
  <2>10. cpc' = "judge" => new = {} /\ locked' = locked /\ busy' = busy
    BY <1>3, <2>3 DEF ReadsAgain
  <2>11. ManifestsRead'
    <3>1. cpc' \in Reading => cpc' = "judge"
      BY <1>3 DEF Reading
    <3> QED BY <1>1, <1>3, <2>2, <2>10, <3>1 DEF Inv, ManifestsRead, Reading
  <2>12. ObjectsRead'
    <3>1. cpc' \in {"decode", "judge"} => cpc' = "judge"
      BY <1>3
    <3> QED BY <1>1, <1>3, <2>2, <2>10, <3>1 DEF Inv, ObjectsRead
  <2>13. ContentsRead'
    <3>1. cpc' = "judge" => datasets(view)' \subseteq locked' \cup busy'
      BY <1>3, <2>5, <2>10 DEF datasets
    <3> QED BY <1>1, <1>3, <2>2, <3>1 DEF ContentsRead
  <2>14. DeletesUnlisted' /\ DeletesTheRest'
    <3>1. cpc' # "delete"
      BY <1>3
    <3> QED BY <3>1 DEF DeletesUnlisted, DeletesTheRest
  <2> QED BY <2>6, <2>7, <2>8, <2>9, <2>11, <2>12, <2>13, <2>14 DEF Inv
<1> QED BY <1>2, <1>3 DEF Decode


-----------------------------------------------------------------------------
(* clean decides.                                                          *)

\* The manifests clean judges by, and the ones it deletes.
LEMMA DecodedFacts ==
    ASSUME Inv
    PROVE  /\ view \in ViewType
           /\ AtDestination \subseteq Jobs /\ decodedManifests \subseteq Jobs
           /\ \A j \in AtDestination : j[1] = "ours" /\ j[2] \in view.ours
           /\ \A j \in DropLocal : j \in view.localOnly /\ j[1] = "ours" /\ opt.local /\ ds[j[2]] \notin busy
           /\ \A j \in Forced : j \in AtDestination /\ opt.force /\ ds[j[2]] \notin busy /\ Missing(j)
           /\ \A j \in DropLocal \cup Forced : ds[j[2]] \in datasets(view)
<1>1. view \in ViewType
  BY DEF Inv, TypeOK, ViewType
<1>2. view.ours \subseteq Set /\ view.localOnly \subseteq Jobs
  BY <1>1 DEF ViewType
<1>3. AtDestination \subseteq Jobs /\ \A j \in AtDestination : j[1] = "ours" /\ j[2] \in view.ours
  BY <1>2, JobFacts DEF AtDestination
<1>4. decodedManifests \subseteq Jobs
  BY <1>2, <1>3 DEF decodedManifests
<1> QED BY <1>1, <1>3, <1>4, DatasetsFacts DEF DropLocal, Forced

\* A whole set of this job has no volume missing, so --force leaves it.
LEMMA WholeNotForced ==
    ASSUME Inv, cpc = "judge", NEW j \in Forced
    PROVE  j \in broken
<1>1. j \in Jobs /\ j \in AtDestination /\ j[1] = "ours" /\ j[2] \in view.ours /\ j[2] \in Set
      /\ j = <<"ours", j[2]>>
  BY DecodedFacts, JobFacts
<1>2. ds[j[2]] \in locked
  BY DecodedFacts DEF Inv, ContentsRead
<1>3. view.content[j] = cache[j] /\ view.objects[j[2]] = objects[j[2]]
  BY <1>1, <1>2 DEF Inv, ContentsRead, ObjectsRead
<1>4. cache[j] = manifest[j]
  BY <1>1, <1>2 DEF Inv, ManifestsRead, Reading
<1>5. PICK i \in 1..manifest[j] : i \notin objects[j[2]]
  BY <1>3, <1>4, DecodedFacts DEF Missing
<1> QED BY <1>1, <1>5 DEF Inv, OursWhole

\* A volume that a whole set or a cached manifest lists is no candidate or is kept.
LEMMA ListedIsKept ==
    ASSUME Inv, cpc = "judge", NEW s \in Set, NEW i \in Num, candidate(s, i),
           NEW j \in Jobs \ broken, j[2] = s,
           \/ (j[1] = "ours" \/ Sparing) /\ manifest[j] >= i
           \/ (~opt.local \/ j[1] = "other") /\ cache[j] >= i
    PROVE  keep(s, i)
<1>1. ds[s] \in locked /\ ds[s] \notin busy
  BY DEF candidate, Inv, ContentsRead
<1>2. view.content[j] = cache[j] /\ j \notin Forced
  BY <1>1, WholeNotForced DEF Inv, ContentsRead
<1>3. i \in Nat /\ i > 0 /\ manifest[j] \in Nat /\ cache[j] \in Nat
  BY CleanAssumption DEF Num, Inv, TypeOK
<1>4. CASE j \in decodedManifests /\ cache[j] >= i
  BY <1>1, <1>2, <1>4 DEF keep, Lists
<1>5. CASE j[1] = "ours" /\ s \in view.ours
  <2>1. j = <<"ours", s>>
    BY <1>5, JobFacts
  <2>2. cache[j] = manifest[j]
    BY <1>1, <1>5, <2>1 DEF Inv, ManifestsRead, Reading
  <2>3. j \in decodedManifests
    BY <1>5, <2>1 DEF decodedManifests, AtDestination
  <2> QED BY <1>4, <2>2, <2>3
<1>6. CASE ~(j[1] = "ours" /\ s \in view.ours) /\ (~opt.local \/ j[1] = "other") /\ cache[j] >= i
  <2>1. j \in view.localOnly
    BY <1>1, <1>3, <1>6 DEF Inv, ManifestsRead, Reading
  <2>2. j \notin DropLocal
    BY <1>6, DecodedFacts
  <2> QED BY <1>4, <1>6, <2>1, <2>2 DEF decodedManifests
<1>7. CASE j[1] = "ours" /\ manifest[j] >= i
  <2>1. j = <<"ours", s>> /\ s \in view.ours
    BY <1>1, <1>3, <1>7, JobFacts DEF Inv, ManifestsRead, Reading
  <2> QED BY <1>5, <1>7, <2>1
<1>8. CASE j[1] = "other" /\ Sparing /\ manifest[j] >= i
  <2>1. j = <<"other", s>>
    BY <1>8, JobFacts
  <2>2. s \in view.other
    BY <1>1, <1>3, <1>8, <2>1 DEF Inv, ObjectsRead
  <2>3. PICK k \in decodedManifests : Lists(k, s, i)
    BY <2>2 DEF candidate, named
  <2>4. ~opt.force
    BY <1>3, <1>8 DEF Inv, OthersWhole
  <2>5. k \notin Forced
    BY <2>4, DecodedFacts
  <2>6. ds[k[2]] \notin busy
    BY <1>1, <2>3 DEF Lists
  <2> QED BY <2>3, <2>5, <2>6 DEF keep
<1>9. j[1] \in {"ours", "other"}
  BY JobFacts DEF Prefix
<1> QED BY <1>5, <1>6, <1>7, <1>8, <1>9

LEMMA JudgeInv == ASSUME Inv, Judge PROVE Inv'
<1> DEFINE unlisted == {v \in Volumes : candidate(v[1], v[2]) /\ ~keep(v[1], v[2])}
           forced == {<<j[2], 0>> : j \in Forced}
<1>1. cpc = "judge" /\ UNCHANGED <<objects, cache, manifest, sender, broken, opt, left>>
  BY DEF Judge, sends
<1>2. CASE EndClean
  <2>1. left' \in ScenarioType
    BY <1>1 DEF Inv, TypeOK
  <2> QED BY <1>1, <1>2, <2>1, EndCleanInv
<1>3. CASE /\ deletes' = unlisted \cup forced
           /\ localDeletes' = DropLocal \cup Forced
           /\ cpc' = "delete"
           /\ UNCHANGED <<lock, locked, busy, view>>
  <2>1. \A v \in unlisted : v[1] \in Set /\ v[2] \in Num /\ v = <<v[1], v[2]>>
                            /\ candidate(v[1], v[2]) /\ ~keep(v[1], v[2])
    BY DEF Volumes
  <2>2. \A v \in forced : v[1] \in Set /\ v[2] = 0 /\ v = <<v[1], 0>> /\ ds[v[1]] \in locked
    <3>1. \A j \in Forced : j[2] \in Set /\ ds[j[2]] \in locked
      BY <1>1, DecodedFacts, JobFacts DEF Inv, ContentsRead
    <3> QED BY <3>1
  <2>3. TypeOK'
    <3>1. deletes' \subseteq Set \X (Num \cup {0})
      BY <1>3, <2>1, <2>2
    <3>2. localDeletes' \subseteq Jobs
      BY <1>3, DecodedFacts DEF ViewType
    <3> HIDE DEF unlisted, forced
    <3> QED BY <1>1, <1>3, <3>1, <3>2 DEF Inv, TypeOK
  <2>4. \A v \in unlisted : \A j \in Jobs \ broken : j[2] = v[1] =>
            /\ j[1] = "ours" \/ Sparing => manifest[j] < v[2]
            /\ ~opt.local \/ j[1] = "other" => cache[j] < v[2]
    <3> SUFFICES ASSUME NEW v \in unlisted, NEW j \in Jobs \ broken, j[2] = v[1]
                 PROVE  /\ j[1] = "ours" \/ Sparing => manifest[j] < v[2]
                        /\ ~opt.local \/ j[1] = "other" => cache[j] < v[2]
      OBVIOUS
    <3>1. v[2] \in Nat /\ manifest[j] \in Nat /\ cache[j] \in Nat
      BY <2>1, CleanAssumption DEF Num, Inv, TypeOK
    <3>2. v[1] \in Set /\ v[2] \in Num /\ candidate(v[1], v[2]) /\ ~keep(v[1], v[2])
      BY <2>1
    <3> HIDE DEF unlisted, forced
    <3>3. j[1] = "ours" \/ Sparing => ~(manifest[j] >= v[2])
      BY <1>1, <3>2, ListedIsKept
    <3>4. ~opt.local \/ j[1] = "other" => ~(cache[j] >= v[2])
      BY <1>1, <3>2, ListedIsKept
    <3> QED BY <3>1, <3>3, <3>4
  <2>5. \A s \in Set : ds[s] \in locked \cap datasets(view) =>
            \A i \in objects[s] : <<s, i>> \in unlisted \/ keep(s, i) \/ s \in view.other
    <3> SUFFICES ASSUME NEW s \in Set, ds[s] \in locked \cap datasets(view), NEW i \in objects[s],
                        ~keep(s, i), s \notin view.other
                 PROVE  <<s, i>> \in unlisted
      OBVIOUS
    <3>1. i \in view.objects[s] /\ i \in Num
      BY <1>1 DEF Inv, ObjectsRead, TypeOK
    <3>2. candidate(s, i)
      BY <3>1 DEF candidate, Inv, CleanLocked
    <3>3. <<s, i>> \in Volumes
      BY <3>1 DEF Volumes
    <3> QED BY <3>2, <3>3
  <2> HIDE DEF unlisted, forced
  <2>6. SendsLocked' /\ OursWhole' /\ OthersWhole'
    BY <1>1, <1>3, SendsStay
  <2>7. CleanLocked' /\ CacheAgrees' /\ CachedWhole'
    BY <1>1, <1>3 DEF Inv, CleanLocked, CacheAgrees, CachedWhole
  <2>8. ManifestsRead' /\ ObjectsRead' /\ ContentsRead'
    BY <1>3 DEF ManifestsRead, ObjectsRead, ContentsRead, Reading
  <2>9. Sparing' = Sparing
    BY <1>1 DEF Sparing
  <2>10. DeletesUnlisted'
    <3>1. \A v \in deletes' : ds[v[1]] \in locked
      <4>1. \A v \in unlisted : ds[v[1]] \in locked
        BY <1>1, <2>1 DEF candidate, Inv, ContentsRead
      <4> QED BY <1>3, <2>2, <4>1
    <3>2. \A v \in deletes' : v[2] # 0 => v \in unlisted
      BY <1>3, <2>2
    <3> QED BY <1>1, <1>3, <2>4, <2>9, <3>1, <3>2 DEF DeletesUnlisted
  <2>11. DeletesTheRest'
    <3>1. \A s \in Set : ds[s] \in locked' \cap datasets(view)' =>
             \A i \in objects'[s] : <<s, i>> \in deletes' \/ keep(s, i)' \/ s \in view'.other
      BY <1>1, <1>3, <2>5, JudgedAlike
    <3>2. \A s \in view.other : ds[s] \in locked => manifest[<<"other", s>>] > 0
      <4>1. view.other \subseteq OtherSets
        BY DEF Inv, TypeOK, ViewType
      <4> QED BY <1>1, <4>1, JobFacts, CleanAssumption DEF Inv, ObjectsRead
    <3>3. \A j \in decodedManifests \ Forced : ds[j[2]] \in locked => cache[j] = view.content[j]
      BY <1>1, DecodedFacts DEF Inv, ContentsRead
    <3>4. DropLocal \cap AtDestination = {}
      BY <1>1, DecodedFacts, JobFacts DEF Inv, ManifestsRead, Reading
    <3>5. datasets(view)' \subseteq locked' \cup busy'
      BY <1>1, <1>3, JudgedAlike DEF Inv, ContentsRead
    <3> QED BY <1>1, <1>3, <3>1, <3>2, <3>3, <3>4, <3>5, JudgedAlike DEF DeletesTheRest
  <2> QED BY <2>3, <2>6, <2>7, <2>8, <2>10, <2>11 DEF Inv
<1> QED BY <1>2, <1>3 DEF Judge


-----------------------------------------------------------------------------
(* clean deletes.                                                          *)

\* A volume, which no whole set lists, or the manifest of a forced set.
LEMMA DeleteInv == ASSUME Inv, NEW v \in deletes, Delete(v) PROVE Inv'
<1> DEFINE s == v[1]
<1>1. /\ cpc = "delete" /\ deletes' = deletes \ {v}
      /\ UNCHANGED <<cache, lock, sender, broken, cpc, opt, locked, busy, view, localDeletes, left>>
  BY DEF Delete
<1>2. s \in Set /\ v[2] \in Num \cup {0} /\ v = <<s, v[2]>> /\ ds[s] \in locked
  BY <1>1 DEF Inv, TypeOK, DeletesUnlisted
<1>3. \A n \in Num : n \in Nat /\ n > 0
  BY CleanAssumption DEF Num
<1>4. CleanLocked'
  BY <1>1 DEF Inv, CleanLocked
<1>5. ManifestsRead' /\ ObjectsRead' /\ ContentsRead'
  BY <1>1 DEF ManifestsRead, ObjectsRead, ContentsRead, Reading
<1>6. Sparing' = Sparing
  BY <1>1 DEF Sparing
<1>7. CASE v[2] = 0
  <2> DEFINE o == <<"ours", s>>
  <2>1. manifest' = [manifest EXCEPT ![o] = 0] /\ UNCHANGED objects
    BY <1>7 DEF Delete
  <2>2. o \in Jobs /\ o[1] = "ours" /\ o[2] = s
    BY <1>2, JobFacts
  <2>3. \A j \in Jobs : manifest[j] \in Nat /\ manifest'[j] \in {0, manifest[j]}
                        /\ (j[1] = "other" => manifest'[j] = manifest[j])
    BY <2>1, <2>2 DEF Inv, TypeOK
  <2> HIDE DEF o, s
  <2>4. TypeOK'
    <3>1. manifest' \in [Jobs -> Nat]
      BY <2>1 DEF Inv, TypeOK
    <3> QED BY <1>1, <2>1, <3>1 DEF Inv, TypeOK
  <2>5. SendsLocked'
    BY <1>1, <2>1, <2>3, SendFacts DEF SendsLocked
  <2>6. CacheAgrees' /\ OursWhole' /\ OthersWhole' /\ CachedWhole'
    <3>1. CacheAgrees' /\ CachedWhole'
      BY <1>1, <2>1, <2>3 DEF Inv, CacheAgrees, CachedWhole
    <3>2. OursWhole'
      BY <1>1, <2>1, <2>3 DEF Inv, OursWhole
    <3>3. OthersWhole'
      BY <1>1, <1>6, <2>1, <2>3 DEF Inv, OthersWhole
    <3> QED BY <3>1, <3>2, <3>3
  <2>7. DeletesUnlisted'
    <3> SUFFICES ASSUME NEW u \in deletes'
                 PROVE  /\ ds[u[1]] \in locked
                        /\ u[2] # 0 => \A j \in Jobs \ broken : j[2] = u[1] =>
                             /\ j[1] = "ours" \/ Sparing => manifest'[j] < u[2]
                             /\ ~opt.local \/ j[1] = "other" => cache[j] < u[2]
      BY <1>1, <1>6 DEF DeletesUnlisted
    <3>1. u \in deletes /\ u[2] \in Num \cup {0}
      BY <1>1 DEF Inv, TypeOK
    <3> QED BY <1>1, <1>3, <2>3, <3>1 DEF Inv, DeletesUnlisted
  <2>8. DeletesTheRest'
    <3>1. \A t \in Set : ds[t] \in locked' \cap datasets(view)' =>
             \A i \in objects'[t] : <<t, i>> \in deletes' \/ keep(t, i)' \/ t \in view'.other
      <4>1. \A t \in Set : \A i \in objects[t] : i \in Num /\ <<t, i>> # v
        BY <1>2, <1>3, <1>7 DEF Inv, TypeOK
      <4> QED BY <1>1, <2>1, <4>1, JudgedAlike DEF Inv, DeletesTheRest
    <3>2. \A t \in view.other : ds[t] \in locked => manifest'[<<"other", t>>] > 0
      <4>1. \A t \in view.other : <<"other", t>> \in Jobs /\ <<"other", t>>[1] = "other"
        BY JobFacts DEF Inv, TypeOK, ViewType
      <4> QED BY <1>1, <2>3, <4>1 DEF Inv, DeletesTheRest
    <3> QED BY <1>1, <3>1, <3>2, JudgedAlike DEF Inv, DeletesTheRest
  <2> QED BY <1>4, <1>5, <2>4, <2>5, <2>6, <2>7, <2>8 DEF Inv
<1>8. CASE v[2] # 0
  <2> DEFINE i == v[2]
  <2>1. objects' = [objects EXCEPT ![s] = @ \ {i}] /\ UNCHANGED manifest
    BY <1>8 DEF Delete
  <2>2. objects'[s] = objects[s] \ {i} /\ (\A t \in Set \ {s} : objects'[t] = objects[t])
        /\ i \in Num /\ i \in Nat
    BY <1>2, <1>3, <1>8, <2>1 DEF Inv, TypeOK
  <2>3. ASSUME NEW j \in Jobs \ broken, NEW n \in Nat, 1..n \subseteq objects[j[2]],
               j[2] = s => n < i
        PROVE  1..n \subseteq objects'[j[2]]
    <3>1. CASE j[2] = s
      BY <2>2, <2>3, <3>1
    <3>2. CASE j[2] # s
      BY <2>2, <2>3, <3>2, JobFacts
    <3> QED BY <3>1, <3>2
  <2>4. \A j \in Jobs \ broken : j[2] = s =>
            /\ j[1] = "ours" \/ Sparing => manifest[j] < i
            /\ ~opt.local \/ j[1] = "other" => cache[j] < i
    BY <1>1, <1>8 DEF Inv, DeletesUnlisted
  <2>5. \A j \in Jobs : manifest[j] \in Nat /\ cache[j] \in Nat
    BY DEF Inv, TypeOK
  <2> HIDE DEF s, i
  <2>6. TypeOK'
    <3>1. objects' \in [Set -> SUBSET Num]
      BY <2>1 DEF Inv, TypeOK
    <3> QED BY <1>1, <2>1, <3>1 DEF Inv, TypeOK
  <2>7. SendsLocked'
    <3>1. ASSUME NEW d \in Dataset, sender[d] # NoSend
          PROVE  objects'[sender[d].set[2]] = objects[sender[d].set[2]]
      <4>1. sender[d].set[2] # s
        BY <1>2, <3>1, SendFacts DEF Inv, CleanLocked
      <4> QED BY <2>2, <3>1, <4>1, SendFacts
    <3> QED BY <1>1, <2>1, <3>1, SendFacts DEF SendsLocked
  <2>8. CacheAgrees'
    BY <1>1, <2>1 DEF Inv, CacheAgrees
  <2>9. OursWhole'
    BY <1>1, <2>1, <2>3, <2>4, <2>5 DEF Inv, OursWhole
  <2>10. OthersWhole'
    BY <1>1, <1>6, <2>1, <2>3, <2>4, <2>5 DEF Inv, OthersWhole
  <2>11. CachedWhole'
    BY <1>1, <2>1, <2>3, <2>4, <2>5 DEF Inv, CachedWhole
  <2>12. DeletesUnlisted'
    BY <1>1, <1>6, <2>1 DEF Inv, DeletesUnlisted
  <2>13. DeletesTheRest'
    <3>1. \A t \in Set : ds[t] \in locked' \cap datasets(view)' =>
             \A k \in objects'[t] : <<t, k>> \in deletes' \/ keep(t, k)' \/ t \in view'.other
      <4>1. \A t \in Set : \A k \in objects'[t] : k \in objects[t] /\ <<t, k>> # v
        BY <1>2, <2>2 DEF i
      <4> QED BY <1>1, <4>1, JudgedAlike DEF Inv, DeletesTheRest
    <3> QED BY <1>1, <2>1, <3>1, JudgedAlike DEF Inv, DeletesTheRest
  <2> QED BY <1>4, <1>5, <2>6, <2>7, <2>8, <2>9, <2>10, <2>11, <2>12, <2>13 DEF Inv
<1> QED BY <1>7, <1>8

\* A cached manifest, after everything else.
LEMMA DeleteLocalInv == ASSUME Inv, NEW j \in localDeletes, DeleteLocal(j) PROVE Inv'
<1>1. /\ cpc = "delete" /\ deletes = {}
      /\ cache' = [cache EXCEPT ![j] = 0] /\ localDeletes' = localDeletes \ {j}
      /\ UNCHANGED <<objects, manifest, sender, broken, lock, cpc, opt, locked, busy, view, deletes, left>>
  BY DEF DeleteLocal, AllDeleted, sends
<1>2. j \in Jobs
  BY DEF Inv, TypeOK
<1>3. cache'[j] = 0 /\ \A k \in Jobs \ {j} : cache'[k] = cache[k]
  BY <1>1, <1>2 DEF Inv, TypeOK
<1>4. TypeOK'
  BY <1>1 DEF Inv, TypeOK
<1>5. SendsLocked' /\ OursWhole' /\ OthersWhole'
  BY <1>1, SendsStay
<1>6. CleanLocked'
  BY <1>1 DEF Inv, CleanLocked
<1>7. CacheAgrees' /\ CachedWhole'
  BY <1>1, <1>2, <1>3 DEF Inv, CacheAgrees, CachedWhole
<1>8. ManifestsRead' /\ ObjectsRead' /\ ContentsRead' /\ DeletesUnlisted'
  BY <1>1 DEF ManifestsRead, ObjectsRead, ContentsRead, DeletesUnlisted, Reading
<1>9. DeletesTheRest'
  <2>1. j \notin decodedManifests \ Forced
    <3>1. CASE j \in Forced
      BY <3>1
    <3>2. CASE j \in DropLocal
      BY <1>1, <3>2 DEF Inv, DeletesTheRest, decodedManifests
    <3> QED BY <1>1, <3>1, <3>2 DEF Inv, DeletesTheRest
  <2>2. \A k \in decodedManifests \ Forced : ds[k[2]] \in locked => cache'[k] = view.content[k]
    BY <1>1, <1>3, <2>1, DecodedFacts DEF Inv, DeletesTheRest
  <2>3. \A t \in Set : ds[t] \in locked' \cap datasets(view)' =>
           \A i \in objects'[t] : <<t, i>> \in deletes' \/ keep(t, i)' \/ t \in view'.other
    BY <1>1, JudgedAlike DEF Inv, DeletesTheRest
  <2> QED BY <1>1, <2>2, <2>3, JudgedAlike DEF Inv, DeletesTheRest
<1> QED BY <1>4, <1>5, <1>6, <1>7, <1>8, <1>9 DEF Inv

LEMMA DoneInv == ASSUME Inv, Done PROVE Inv'
<1>1. EndClean /\ UNCHANGED <<objects, cache, manifest, sender, broken, opt, left>>
  BY DEF Done, sends
<1>2. left' \in ScenarioType /\ left'.jobs = left.jobs
  BY <1>1 DEF Inv, TypeOK
<1> QED BY <1>1, <1>2, EndCleanInv

LEMMA StopCleanInv == ASSUME Inv, StopClean PROVE Inv'
<1>1. EndClean /\ Count("failure") /\ UNCHANGED <<objects, cache, manifest, sender, broken, opt>>
  BY DEF StopClean, sends
<1>2. left' \in ScenarioType /\ left'.jobs = left.jobs
  BY <1>1, CountFacts
<1> QED BY <1>1, <1>2, EndCleanInv

-----------------------------------------------------------------------------
LEMMA StutterInv == ASSUME Inv, UNCHANGED vars PROVE Inv'
<1>1. UNCHANGED <<objects, manifest, cache, lock, sender, broken, cpc, opt, round, locked, busy, view,
                  deletes, localDeletes, left>>
  BY DEF vars
<1>2. TypeOK' /\ CleanLocked' /\ CacheAgrees' /\ CachedWhole'
  BY <1>1 DEF Inv, TypeOK, CleanLocked, CacheAgrees, CachedWhole
<1>3. SendsLocked' /\ OursWhole' /\ OthersWhole'
  BY <1>1, SendsStay
<1>4. ManifestsRead' /\ ObjectsRead' /\ ContentsRead'
  BY <1>1, JudgedAlike DEF Inv, ManifestsRead, ObjectsRead, ContentsRead
<1>5. Sparing' = Sparing
  BY <1>1 DEF Sparing
<1>6. DeletesUnlisted'
  BY <1>1, <1>5 DEF Inv, DeletesUnlisted
<1>7. DeletesTheRest'
  <2>1. \A s \in Set : ds[s] \in locked' \cap datasets(view)' =>
           \A i \in objects'[s] : cpc = "delete" => <<s, i>> \in deletes' \/ keep(s, i)' \/ s \in view'.other
    BY <1>1, JudgedAlike DEF Inv, DeletesTheRest
  <2> QED BY <1>1, <2>1, JudgedAlike DEF Inv, DeletesTheRest
<1> QED BY <1>2, <1>3, <1>4, <1>6, <1>7 DEF Inv

LEMMA StepInv == Inv /\ [Next]_vars => Inv'
<1> SUFFICES ASSUME Inv, [Next]_vars PROVE Inv'
  OBVIOUS
<1>1. ASSUME NEW j \in Jobs, NEW resume \in BOOLEAN, StartSend(j, resume) PROVE Inv'
  BY <1>1, StartSendInv
<1>2. ASSUME NEW d \in Dataset, Upload(d) \/ Save(d) \/ Publish(d) \/ StopSend(d) PROVE Inv'
  BY <1>2, UploadInv, SaveInv, PublishInv, StopSendInv
<1>3. ASSUME NEW s \in Set, NEW i \in Num, Damage(s, i) PROVE Inv'
  BY <1>3, DamageInv
<1>4. CASE StartClean \/ Sync \/ ListObjects \/ Decode \/ Judge
  BY <1>4, StartCleanInv, SyncInv, ListObjectsInv, DecodeInv, JudgeInv
<1>5. ASSUME NEW v \in deletes, Delete(v) PROVE Inv'
  BY <1>5, DeleteInv
<1>6. ASSUME NEW j \in localDeletes, DeleteLocal(j) PROVE Inv'
  BY <1>6, DeleteLocalInv
<1>7. CASE Done \/ StopClean
  BY <1>7, DoneInv, StopCleanInv
<1>8. CASE UNCHANGED vars
  BY <1>8, StutterInv
<1> QED BY <1>1, <1>2, <1>3, <1>4, <1>5, <1>6, <1>7, <1>8 DEF Next

\* The command line and the jobs of a history do not change.
LEMMA SparingStays == Inv /\ Sparing /\ [Next]_vars => Sparing'
<1> SUFFICES ASSUME Inv, Sparing, [Next]_vars PROVE opt' = opt /\ left'.jobs = left.jobs
  BY DEF Sparing
<1>1. ASSUME NEW j \in Jobs, NEW resume \in BOOLEAN, StartSend(j, resume)
      PROVE  opt' = opt /\ left'.jobs = left.jobs
  BY <1>1, CountFacts DEF StartSend, clean
<1>2. ASSUME NEW d \in Dataset, Upload(d) \/ Save(d) \/ Publish(d) \/ StopSend(d)
      PROVE  opt' = opt /\ left'.jobs = left.jobs
  BY <1>2, CountFacts DEF Upload, Save, Publish, StopSend, EndSend, clean
<1>3. ASSUME NEW s \in Set, NEW i \in Num, Damage(s, i) PROVE opt' = opt /\ left'.jobs = left.jobs
  BY <1>3, CountFacts DEF Damage, clean
<1>4. CASE StartClean \/ StopClean
  BY <1>4, CountFacts DEF StartClean, StopClean
<1>5. CASE Sync \/ ListObjects \/ Decode \/ Judge \/ Done
  BY <1>5 DEF Sync, ListObjects, Decode, Judge, Done
<1>6. ASSUME NEW v \in deletes, Delete(v) PROVE opt' = opt /\ left'.jobs = left.jobs
  BY <1>6 DEF Delete
<1>7. ASSUME NEW j \in localDeletes, DeleteLocal(j) PROVE opt' = opt /\ left'.jobs = left.jobs
  BY <1>7 DEF DeleteLocal
<1>8. CASE UNCHANGED vars
  BY <1>8 DEF vars
<1> QED BY <1>1, <1>2, <1>3, <1>4, <1>5, <1>6, <1>7, <1>8 DEF Next

\* The inductive invariant of clean beside sends.
THEOREM Invariance == Spec => []Inv
BY InitInv, StepInv, PTL DEF Spec

\* clean deletes no volume that a whole published set lists, of this job or another
\* (clean.go), unless --force runs where another job sends the same sets.
THEOREM PublishedSetsStayWhole == Spec /\ Sparing => []PublishedStaysWhole
<1>1. Inv /\ Sparing => PublishedStaysWhole
  BY JobFacts DEF Inv, OursWhole, OthersWhole, PublishedStaysWhole, Prefix
<1>2. Spec /\ Sparing => []Sparing
  BY Invariance, SparingStays, PTL DEF Spec
<1> QED BY <1>1, <1>2, Invariance, PTL

\* What a running or an interrupted send has uploaded stays, so --resume can continue from
\* its cached manifest; only --cleanLocal takes it, and only from this job.
THEOREM UnfinishedSendsStay == Spec => []UnfinishedStaysResumable
<1>1. Inv => UnfinishedStaysResumable
  BY DEF Inv, SendsLocked, CachedWhole, UnfinishedStaysResumable
<1> QED BY <1>1, Invariance, PTL

\* A clean that ends well leaves no volume of a dataset it judged that nothing lists.
THEOREM CleansThoroughly == Spec => []CleanIsThorough
<1>1. ASSUME Inv, AllDeleted, localDeletes = {}, NEW s \in Set, ds[s] \in locked \cap datasets(view),
             NEW i \in objects[s]
      PROVE  \E j \in Jobs : j[2] = s /\ (manifest[j] >= i \/ cache[j] >= i \/ (j[1] = "other" /\ manifest[j] > 0))
  <2>1. keep(s, i) \/ s \in view.other
    BY <1>1 DEF AllDeleted, Inv, DeletesTheRest
  <2>2. CASE keep(s, i)
    <3>1. PICK j \in decodedManifests \ Forced : Lists(j, s, i)
      BY <2>2 DEF keep
    <3>2. j \in Jobs /\ j[2] = s /\ view.content[j] >= i
      BY <1>1, <3>1, DecodedFacts DEF Lists
    <3>3. cache[j] = view.content[j]
      BY <1>1, <3>1, <3>2 DEF AllDeleted, Inv, DeletesTheRest
    <3> QED BY <3>2, <3>3
  <2>3. CASE s \in view.other
    <3>1. s \in OtherSets
      BY <1>1, <2>3 DEF Inv, TypeOK, ViewType
    <3>2. <<"other", s>> \in Jobs /\ manifest[<<"other", s>>] > 0
      BY <1>1, <2>3, <3>1, JobFacts DEF AllDeleted, Inv, DeletesTheRest
    <3> QED BY <3>2
  <2> QED BY <2>1, <2>2, <2>3
<1>2. Inv => CleanIsThorough
  BY <1>1 DEF CleanIsThorough
<1> QED BY <1>2, Invariance, PTL

\* A cached manifest goes only when no volume is left that only it lists ("a local manifest is
\* how a later clean finds volumes a failed delete left behind").
THEOREM LocalManifestsGoLast == Spec => LocalManifestLast
<1> DEFINE Last == \A j \in localDeletes \ localDeletes' : \A i \in 1..cache[j] :
                     cpc' # "idle" => i \notin objects[j[2]] \/ keep(j[2], i) \/ j[2] \in view.other
<1>1. ASSUME Inv, [Next]_vars PROVE Last
  <2>1. ASSUME NEW k \in localDeletes, DeleteLocal(k) PROVE Last
    <3>1. cpc = "delete" /\ deletes = {} /\ localDeletes' = localDeletes \ {k}
      BY <2>1 DEF DeleteLocal, AllDeleted
    <3>2. k \in DropLocal \cup Forced /\ k \in Jobs
      BY <1>1, <2>1, <3>1 DEF Inv, DeletesTheRest, TypeOK
    <3>3. ds[k[2]] \in locked \cap datasets(view) /\ k[2] \in Set
      BY <1>1, <3>1, <3>2, DecodedFacts, JobFacts DEF Inv, DeletesTheRest
    <3>4. \A i \in objects[k[2]] : keep(k[2], i) \/ k[2] \in view.other
      BY <1>1, <3>1, <3>3 DEF Inv, DeletesTheRest
    <3> QED BY <3>1, <3>4
  <2>2. CASE UNCHANGED localDeletes \/ cpc' = "idle" \/ localDeletes = {}
    BY <2>2
  <2>3. CASE cpc # "delete"
    <3>1. localDeletes = {}
      BY <1>1, <2>3 DEF Inv, CleanLocked
    <3> QED BY <2>2, <3>1
  <2>4. CASE cpc = "delete"
    <3>1. ASSUME NEW j \in Jobs, NEW resume \in BOOLEAN, StartSend(j, resume) PROVE UNCHANGED localDeletes
      BY <3>1 DEF StartSend, clean
    <3>2. ASSUME NEW d \in Dataset, Upload(d) \/ Save(d) \/ Publish(d) \/ StopSend(d)
          PROVE  UNCHANGED localDeletes
      BY <3>2 DEF Upload, Save, Publish, StopSend, EndSend, clean
    <3>3. ASSUME NEW s \in Set, NEW i \in Num, Damage(s, i) PROVE UNCHANGED localDeletes
      BY <3>3 DEF Damage, clean
    <3>4. ~StartClean /\ ~Sync /\ ~ListObjects /\ ~Decode /\ ~Judge
      BY <2>4 DEF StartClean, Sync, ListObjects, Decode, Judge
    <3>5. ASSUME NEW v \in deletes, Delete(v) PROVE UNCHANGED localDeletes
      BY <3>5 DEF Delete
    <3>6. CASE Done \/ StopClean
      BY <2>2, <3>6 DEF Done, StopClean, EndClean
    <3>7. CASE UNCHANGED vars
      BY <2>2, <3>7 DEF vars
    <3> HIDE DEF Last
    <3> QED BY <1>1, <2>1, <2>2, <3>1, <3>2, <3>3, <3>4, <3>5, <3>6, <3>7 DEF Next
  <2> QED BY <2>3, <2>4
<1>2. Inv /\ [Next]_vars => [Last]_vars
  BY <1>1
<1> QED BY <1>2, Invariance, PTL DEF Spec, LocalManifestLast
=============================================================================
