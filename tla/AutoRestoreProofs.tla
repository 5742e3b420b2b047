-------------------------- MODULE AutoRestoreProofs --------------------------
(***************************************************************************)
(* What receive may destroy of the target unasked, and what its success    *)
(* means: for any manifests at the destination, any target, any snapshots  *)
(* taken of it meanwhile, and any failures.                                *)
(***************************************************************************)
EXTENDS AutoRestore, FiniteSetTheorems, TLAPS

-----------------------------------------------------------------------------
(* Snapshots and backups.                                                  *)

LEMMA BackupFacts ==
    ASSUME NEW b \in Backups
    PROVE  /\ b.base \in Snapshot /\ b.base \in Bases /\ b.base \in Known /\ b.base \notin Taken
           /\ b.source # NoSnapshot => b.source \in Snapshot /\ b.source \in Known /\ b.source \notin Taken
           /\ b.source \in Snapshot \cup {NoSnapshot} /\ b.repl \in BOOLEAN
<1>1. b \in [base : Snapshot, source : Snapshot \cup {NoSnapshot},
             raw : BOOLEAN, repl : BOOLEAN, recorded : BOOLEAN]
  BY RestoreAssumption
<1>2. b.base \in Bases /\ (b.source # NoSnapshot => b.source \in Sent) /\ b.base \in Sent
  BY DEF Bases, Sent
<1> QED BY <1>1, <1>2, RestoreAssumption DEF Known

LEMMA KnownFacts ==
    /\ Known \subseteq Snapshot /\ Taken \subseteq Known /\ LocalSnaps \subseteq Known
    /\ Taken \cap LocalSnaps = {} /\ Bases \subseteq Known /\ Taken \cap Bases = {}
    /\ \A s, t \in Known : s.guid = t.guid => s = t
<1>1. Bases \subseteq Snapshot
  BY BackupFacts DEF Bases
<1>2. Sent \subseteq Snapshot
  BY <1>1, BackupFacts DEF Sent
<1> QED BY <1>2, RestoreAssumption DEF Known, Sent

\* A snapshot is its guid, name and time.
LEMMA SameSnapshot ==
    ASSUME NEW s \in Snapshot, NEW t \in Snapshot, s.guid = t.guid, Same(s, t)
    PROVE  s = t
BY DEF Snapshot, Same

LEMMA SetOf ==
    ASSUME NEW S, NEW q \in Seq(S)
    PROVE  /\ ToSet(q) = {q[i] : i \in 1..Len(q)} /\ ToSet(q) \subseteq S /\ DOMAIN q = 1..Len(q)
           /\ Len(q) \in Nat /\ (q = <<>> <=> Len(q) = 0)
           /\ q # <<>> => Last(q) \in ToSet(q) /\ Last(q) \in S /\ q[1] \in ToSet(q)
BY DEF ToSet, Last

LEMMA SetOfNone == ToSet(<<>>) = {}
BY DEF ToSet

LEMMA SetOfAppend ==
    ASSUME NEW S, NEW q \in Seq(S), NEW x \in S
    PROVE  /\ Append(q, x) \in Seq(S) /\ Len(Append(q, x)) = Len(q) + 1
           /\ ToSet(Append(q, x)) = ToSet(q) \cup {x} /\ Last(Append(q, x)) = x
           /\ \A i \in 1..Len(q) : Append(q, x)[i] = q[i]
           /\ Append(q, x)[Len(q) + 1] = x
<1>1. Append(q, x) \in Seq(S) /\ Len(Append(q, x)) = Len(q) + 1 /\ Len(q) \in Nat
      /\ (\A i \in 1..Len(q) : Append(q, x)[i] = q[i]) /\ Append(q, x)[Len(q) + 1] = x
  OBVIOUS
<1>2. 1..(Len(q) + 1) = 1..Len(q) \cup {Len(q) + 1}
  BY <1>1
<1>3. ToSet(Append(q, x)) = {Append(q, x)[i] : i \in 1..(Len(q) + 1)} /\ ToSet(q) = {q[i] : i \in 1..Len(q)}
  BY <1>1, SetOf
<1>4. ToSet(Append(q, x)) = ToSet(q) \cup {x}
  <2> DEFINE a == Append(q, x)
             n == Len(q)
  <2>1. /\ n \in Nat /\ (\A i \in 1..n : a[i] = q[i]) /\ a[n + 1] = x /\ 1..(n + 1) = 1..n \cup {n + 1}
        /\ ToSet(a) = {a[i] : i \in 1..(n + 1)} /\ ToSet(q) = {q[i] : i \in 1..n}
    BY <1>1, <1>2, <1>3
  <2> HIDE DEF a, n
  <2>2. ToSet(a) = ToSet(q) \cup {x}
    BY <2>1
  <2> QED BY <2>2 DEF a
<1> QED BY <1>1, <1>4 DEF Last

LEMMA SetOfFront ==
    ASSUME NEW S, NEW q \in Seq(S), q # <<>>
    PROVE  /\ Front(q) \in Seq(S) /\ Len(Front(q)) = Len(q) - 1 /\ Len(q) > 0
           /\ \A i \in 1..(Len(q) - 1) : Front(q)[i] = q[i]
           /\ ToSet(Front(q)) \subseteq ToSet(q)
<1>1. Len(q) \in Nat /\ Len(q) > 0
  OBVIOUS
<1>2. Front(q) \in Seq(S) /\ Len(Front(q)) = Len(q) - 1 /\ \A i \in 1..(Len(q) - 1) : Front(q)[i] = q[i]
  <2> DEFINE n == Len(q) - 1
  <2>1. n \in 0..Len(q)
    BY <1>1
  <2>2. Front(q) = SubSeq(q, 1, n)
    BY DEF Front
  <2> HIDE DEF n
  <2>3. Front(q) \in Seq(S) /\ Len(Front(q)) = n /\ \A i \in 1..n : Front(q)[i] = q[i]
    BY <1>1, <2>1, <2>2
  <2> QED BY <2>3 DEF n
<1>3. ToSet(Front(q)) = {Front(q)[i] : i \in 1..(Len(q) - 1)} /\ ToSet(q) = {q[i] : i \in 1..Len(q)}
  BY <1>2, SetOf
<1>4. 1..(Len(q) - 1) \subseteq 1..Len(q)
  BY <1>1
<1> QED BY <1>1, <1>2, <1>3, <1>4

\* A chain without repetitions is no longer than there are backups.
LEMMA ChainBound ==
    ASSUME Inv, pc \in Running
    PROVE  Len(chain) <= Cardinality(Backups)
<1>1. chain \in Seq(Backups) /\ IsInjective(chain)
  BY DEF Inv, TypeOK, Linked
<1>2. chain \in Injection(1..Len(chain), Backups)
  BY <1>1 DEF Injection, IsInjective
<1>3. Cardinality(1..Len(chain)) <= Cardinality(Backups)
  BY <1>2, FS_Injection, RestoreAssumption
<1>4. Cardinality(1..Len(chain)) = Len(chain)
  <2> DEFINE n == Len(chain)
  <2>1. n \in Nat /\ n \in Int /\ 1 \in Int
    BY <1>1
  <2> HIDE DEF n
  <2>2. Cardinality(1..n) = IF 1 > n THEN 0 ELSE n - 1 + 1
    BY <2>1, FS_Interval
  <2>3. Cardinality(1..n) = n
    BY <2>1, <2>2
  <2> QED BY <2>3 DEF n
<1> QED BY <1>3, <1>4

-----------------------------------------------------------------------------
(* The beginning, and the ends.                                            *)

LEMMA InitInv == Init => Inv
<1> SUFFICES ASSUME Init PROVE Inv
  OBVIOUS
<1>1. /\ local \in Targets /\ opt \in Options /\ pc = "start" /\ listed = <<>> /\ seen = "there"
      /\ job = NoBackup /\ chain = <<>> /\ received = {} /\ lost = {}
  BY DEF Init
<1>2. Sorted(local) /\ local \in Seq(Known)
  <2>1. PICK n \in 0..MaxLocal : local \in [1..n -> LocalSnaps]
    BY <1>1 DEF Targets
  <2>2. local \in Seq(LocalSnaps)
    <3>0. MaxLocal \in Nat
      BY RestoreAssumption, Zenon
    <3>1. n \in Nat
      BY <3>0
    <3> QED BY <2>1, <3>1
  <2> QED BY <1>1, <2>2, KnownFacts DEF Targets
<1>3. archive \subseteq Backups
  BY DEF Init, Backups
<1>4. exists \in BOOLEAN /\ below \in BOOLEAN /\ ((local # <<>> \/ below) => exists)
  BY DEF Init
<1>5. TypeOK
  BY <1>1, <1>2, <1>3, <1>4 DEF TypeOK, Running
<1>6. TargetSound
  <2>1. \A i, j \in DOMAIN local : i \in Int /\ j \in Int
    BY <1>2
  <2>2. \A i, j \in DOMAIN local : local[i].name = local[j].name => i = j
    BY <1>2, <2>1 DEF Sorted
  <2> QED BY <1>1, <1>2, <1>4, <2>2 DEF TargetSound
<1>7. ListedStill /\ Linked /\ HeadIsAsked /\ OnceIsEnough
  BY <1>1 DEF ListedStill, Linked, HeadIsAsked, OnceIsEnough, Running
<1> QED BY <1>5, <1>6, <1>7 DEF Inv

\* A restore that stops leaves things as they are.
LEMMA StopInv ==
    ASSUME Inv, pc' = "failed", UNCHANGED <<archive, want, opt, local, exists, below, received, lost, listed, seen, job, chain>>
    PROVE  Inv'
<1>1. TypeOK'
  BY DEF Inv, TypeOK
<1>2. TargetSound'
  BY DEF Inv, TargetSound, Sorted
<1>3. ListedStill' /\ Linked' /\ HeadIsAsked' /\ OnceIsEnough'
  BY DEF ListedStill, Linked, HeadIsAsked, OnceIsEnough, Running
<1> QED BY <1>1, <1>2, <1>3 DEF Inv

LEMMA FailInv == ASSUME Inv, Fail PROVE Inv'
BY StopInv DEF Fail, world, target

LEMMA RefuseStepInv == ASSUME Inv, NEW how, RefuseStep(how) PROVE Inv'
BY StopInv DEF RefuseStep, world, target

LEMMA InterruptedInv == ASSUME Inv, Interrupted PROVE Inv'
BY StopInv DEF Interrupted, world, target

LEMMA FinishInv == ASSUME Inv, Finish PROVE Inv'
<1>1. pc = "receive" /\ chain = <<>> /\ pc' = "done"
      /\ UNCHANGED <<archive, want, opt, local, exists, below, received, lost, listed, seen, job, chain>>
  BY DEF Finish, world, target
<1>2. TypeOK'
  BY <1>1 DEF Inv, TypeOK
<1>3. TargetSound'
  BY <1>1 DEF Inv, TargetSound, Sorted
<1>4. ListedStill' /\ Linked' /\ OnceIsEnough'
  BY <1>1 DEF ListedStill, Linked, OnceIsEnough, Running
<1>5. HeadIsAsked'
  BY <1>1 DEF Inv, HeadIsAsked, Found, Restored, Asked, NameAsked, latest, Running
<1> QED BY <1>2, <1>3, <1>4, <1>5 DEF Inv

\* The backup that is chosen is one of those that match.
LEMMA Applying ==
    ASSUME NEW matches, matches # {}, NEW snaps
    PROVE  backupThatApplies(matches, snaps) \in matches
<1> DEFINE reach == {b \in matches : ReachesLocal(b, snaps)}
           fulls == {b \in matches : IsFull(b)}
<1>1. reach # {} => (CHOOSE b \in reach : TRUE) \in matches
  <2>1. reach # {} => (CHOOSE b \in reach : TRUE) \in reach
    OBVIOUS
  <2> QED BY <2>1
<1>2. fulls # {} => (CHOOSE b \in fulls : TRUE) \in matches
  <2>1. fulls # {} => (CHOOSE b \in fulls : TRUE) \in fulls
    OBVIOUS
  <2> QED BY <2>1
<1>3. (CHOOSE b \in matches : TRUE) \in matches
  OBVIOUS
<1>4. backupThatApplies(matches, snaps) = IF reach # {} THEN CHOOSE b \in reach : TRUE
                                          ELSE IF fulls # {} THEN CHOOSE b \in fulls : TRUE
                                          ELSE CHOOSE b \in matches : TRUE
  BY DEF backupThatApplies
<1> HIDE DEF reach, fulls
<1> QED BY <1>1, <1>2, <1>3, <1>4

LEMMA StartInv == ASSUME Inv, NEW how \in {"there", "missing", "error"}, Start(how) PROVE Inv'
<1> DEFINE snaps == Listing(how)
           matches == {b \in archive : Asked(b)}
<1>1. CASE Fail
  BY <1>1, FailInv
<1>2. CASE ~Fail
  <2>1. /\ pc = "start" /\ opt.auto /\ matches # {} /\ Listable(how)
        /\ job' = backupThatApplies(matches, sourcesOf(snaps))
        /\ pc' = "walk" /\ listed' = snaps /\ seen' = how
        /\ UNCHANGED <<archive, want, opt, local, exists, below, received, lost, chain>>
    BY <1>2 DEF Start, world, target
  <2>2. job' \in matches
    BY <2>1, Applying
  <2>3. job' \in archive /\ Asked(job')
    BY <2>2
  <2> HIDE DEF matches
  <2>4. snaps = IF how = "there" THEN local ELSE <<>>
    BY DEF Listing
  <2>5. local \in Seq(Known) /\ received = {} /\ archive \subseteq Backups
    BY <2>1 DEF Inv, TypeOK, TargetSound
  <2>6. TypeOK'
    <3>1. snaps \in Seq(Known)
      BY <2>4, <2>5
    <3>2. job' \in Backups
      BY <2>3, <2>5
    <3> HIDE DEF snaps
    <3> QED BY <2>1, <3>1, <3>2 DEF Inv, TypeOK, Running
  <2>7. TargetSound'
    BY <2>1, <2>5 DEF Inv, TargetSound, Sorted
  <2>8. ListedStill'
    <3>1. (how = "missing" => ~exists) /\ (how = "there" => exists)
      BY <2>1 DEF Listable
    <3> QED BY <2>1, <2>4, <3>1 DEF ListedStill
  <2>9. chain' = <<>> /\ chain = <<>>
    BY <2>1 DEF Inv, Linked
  <2>10. Linked'
    <3>1. IsInjective(<<>>) /\ ToSet(<<>>) = {} /\ Len(<<>>) = 0
      BY SetOfNone DEF IsInjective
    <3>2. /\ job' \in archive' /\ ToSet(chain') \subseteq archive' /\ IsInjective(chain')
          /\ 1..(Len(chain') - 1) = {} /\ 1..Len(chain') = {}
      <4>1. job' \in archive'
        BY <2>1, <2>3
      <4>2. ToSet(chain') \subseteq archive' /\ IsInjective(chain')
        BY <2>9, <3>1, Zenon
      <4>3. 1..(Len(chain') - 1) = {} /\ 1..Len(chain') = {}
        BY <2>9
      <4> QED BY <4>1, <4>2, <4>3
    <3> QED BY <2>1, <2>9, <3>2 DEF Linked
  <2>11. HeadIsAsked'
    BY <2>1, <2>3, <2>9 DEF HeadIsAsked, Asked, NameAsked, latest
  <2>12. OnceIsEnough'
    BY <2>1 DEF OnceIsEnough
  <2> QED BY <2>6, <2>7, <2>8, <2>10, <2>11, <2>12 DEF Inv
<1> QED BY <1>1, <1>2

LEMMA StartExplicitInv == ASSUME Inv, NEW b \in Backups, StartExplicit(b) PROVE Inv'
<1>1. CASE Fail
  BY <1>1, FailInv
<1>2. CASE ~Fail
  <2>1. /\ pc = "start" /\ ~opt.auto /\ b \in archive /\ chain' = <<b>> /\ job' = b /\ pc' = "receive"
        /\ UNCHANGED <<archive, want, opt, local, exists, below, received, lost, listed, seen>>
    BY <1>2 DEF StartExplicit, world, target
  <2>2. received = {}
    BY <2>1 DEF Inv, TargetSound
  <2>3. TypeOK'
    BY <2>1 DEF Inv, TypeOK, Running
  <2>4. TargetSound'
    BY <2>1, <2>2 DEF Inv, TargetSound, Sorted
  <2>5. ListedStill' /\ HeadIsAsked' /\ OnceIsEnough'
    BY <2>1 DEF ListedStill, HeadIsAsked, OnceIsEnough
  <2>6. Linked'
    <3>1. Len(<<b>>) = 1 /\ DOMAIN <<b>> = {1} /\ <<b>>[1] = b
      OBVIOUS
    <3>2. IsInjective(<<b>>) /\ ToSet(<<b>>) = {b}
      BY <3>1 DEF IsInjective, ToSet
    <3>3. ToSet(chain') \subseteq archive' /\ IsInjective(chain')
      BY <2>1, <3>2, Zenon
    <3>4. 1..(Len(chain') - 1) = {}
      BY <2>1, <3>1
    <3> QED BY <2>1, <2>2, <3>3, <3>4 DEF Linked
  <2> QED BY <2>3, <2>4, <2>5, <2>6 DEF Inv
<1> QED BY <1>1, <1>2

-----------------------------------------------------------------------------
(* The walk and the check.                                                 *)

LEMMA Parents ==
    ASSUME NEW b, parentSnap(b) # NoBackup
    PROVE  parentSnap(b) \in archive /\ Same(parentSnap(b).base, b.source) /\ ~IsFull(b)
<1> DEFINE of == {p \in archive : Same(p.base, b.source)}
<1>1. ~IsFull(b) /\ of # {}
  BY DEF parentSnap
<1>2. parentSnap(b) = IF \E p \in of : IsFull(p) THEN CHOOSE p \in of : IsFull(p) ELSE CHOOSE p \in of : TRUE
  BY <1>1 DEF parentSnap
<1>3. parentSnap(b) \in of
  <2> HIDE DEF of
  <2> QED BY <1>1, <1>2
<1> QED BY <1>1, <1>3

\* A snapshot with the name and the time of a backup's, and no other guid than the manifest
\* records, is the backup's as far as the manifest tells.
LEMMA Identified ==
    ASSUME Inv, NEW b \in Backups, NEW t \in ToSet(local), Same(b.base, t), ~GUIDDiffers(b)
    PROVE  Restored(b)
<1>1. t \in Known
  BY SetOf DEF Inv, TypeOK
<1>2. t.name = b.base.name /\ (b.recorded => t.guid = b.base.guid)
  BY DEF GUIDDiffers, Same
<1>3. b.recorded => t = b.base
  BY <1>1, <1>2, BackupFacts, KnownFacts
<1> QED BY <1>3 DEF Restored, Same

LEMMA WalkInv == ASSUME Inv, Walk PROVE Inv'
<1>0. /\ pc = "walk" /\ opt.auto /\ job \in archive /\ job \in Backups /\ chain \in Seq(Backups) /\ received = {}
      /\ ToSet(chain) \subseteq archive /\ IsInjective(chain)
  BY DEF Walk, Inv, Linked, TargetSound, TypeOK, Running
<1>1. CASE Fail
  BY <1>1, FailInv
<1>2. CASE ~Fail /\ isIn(job.base, listed)
  <2>1. /\ ~GUIDDiffers(job) /\ pc' = "check"
        /\ UNCHANGED <<archive, want, opt, local, exists, below, received, lost, listed, seen, job, chain>>
    BY <1>2 DEF Walk, world, target
  <2>2. chain = <<>>
    BY <1>0, <1>2 DEF Inv, Linked, Running
  <2>3. PICK t \in ToSet(listed) : Same(job.base, t)
    BY <1>2 DEF isIn
  <2>4. t \in ToSet(local)
    BY <1>0, <2>3, SetOfNone DEF Inv, TypeOK, ListedStill, Running
  <2>5. Restored(job)
    BY <1>0, <2>1, <2>3, <2>4, Identified
  <2>6. TypeOK'
    BY <2>1 DEF Inv, TypeOK, Running
  <2>7. TargetSound'
    BY <1>0, <2>1 DEF Inv, TargetSound, Sorted
  <2>8. ListedStill'
    BY <1>0, <2>1 DEF Inv, ListedStill, Running
  <2>9. Linked'
    BY <1>0, <2>1, <2>2 DEF Inv, Linked, Running, isIn
  <2>10. HeadIsAsked'
    <3>1. Asked(job)
      BY <1>0, <2>2 DEF Inv, HeadIsAsked
    <3>2. Found'
      BY <1>0, <2>1, <2>5, <3>1 DEF Found, Restored, Asked, NameAsked, latest
    <3> QED BY <2>1, <2>2, <3>2 DEF HeadIsAsked
  <2>11. OnceIsEnough'
    BY <2>1 DEF OnceIsEnough
  <2> QED BY <2>6, <2>7, <2>8, <2>9, <2>10, <2>11 DEF Inv
<1>3. CASE ~Fail /\ ~isIn(job.base, listed)
  <2> DEFINE stop == IsFull(job) \/ isIn(job.source, sourcesOf(listed))
             parent == parentSnap(job)
  <2>1. /\ ~InChain(job) /\ (stop \/ parent # NoBackup) /\ chain' = Longer(job)
        /\ (stop => pc' = "check" /\ job' = job) /\ (~stop => job' = parent /\ pc' = pc)
        /\ UNCHANGED <<archive, want, opt, local, exists, below, received, lost, listed, seen>>
    BY <1>3 DEF Walk, world, target
  <2>2. chain' = Append(chain, job) /\ job \notin ToSet(chain)
    BY <1>0, <2>1, ChainBound DEF Longer, InChain, Running
  <2>3. /\ chain' \in Seq(Backups) /\ Len(chain') = Len(chain) + 1 /\ ToSet(chain') = ToSet(chain) \cup {job}
        /\ Last(chain') = job /\ (\A i \in 1..Len(chain) : chain'[i] = chain[i]) /\ chain'[Len(chain) + 1] = job
        /\ Len(chain) \in Nat
    BY <1>0, <2>2, SetOfAppend, SetOf
  <2>4. ~stop => /\ job' \in archive /\ Same(job'.base, job.source) /\ ~IsFull(job)
                 /\ ~isIn(job'.base, listed)
    <3> SUFFICES ASSUME ~stop PROVE /\ job' \in archive /\ Same(job'.base, job.source) /\ ~IsFull(job)
                                    /\ ~isIn(job'.base, listed)
      OBVIOUS
    <3>1. job' = parentSnap(job) /\ parentSnap(job) # NoBackup
      BY <2>1
    <3>2. job' \in archive /\ Same(job'.base, job.source) /\ ~IsFull(job)
      BY <3>1, Parents
    <3>3. ~isIn(job.source, listed)
      <4>1. ToSet(listed) \subseteq ToSet(sourcesOf(listed))
        <5>1. listed \in Seq(Known \cup {opt.origin})
          BY DEF Inv, TypeOK
        <5> QED BY <5>1, SetOfAppend DEF sourcesOf
      <4> QED BY <4>1 DEF isIn
    <3> QED BY <3>2, <3>3 DEF isIn, Same
  <2>5. pc' \in {"walk", "check"} /\ (pc' = "check" <=> stop) /\ (stop => job' = job)
    BY <1>0, <2>1
  <2> HIDE DEF stop, parent
  <2>6. TypeOK'
    <3>1. job' \in Backups
      BY <1>0, <2>4, <2>5 DEF Inv, TypeOK
    <3> QED BY <2>1, <2>3, <2>5, <3>1 DEF Inv, TypeOK, Running
  <2>7. TargetSound'
    BY <1>0, <2>1 DEF Inv, TargetSound, Sorted
  <2>8. ListedStill'
    BY <1>0, <2>1, <2>5 DEF Inv, ListedStill, Running
  <2>9. Linked'
    <3>1. IsInjective(chain')
      <4>1. DOMAIN chain' = 1..(Len(chain) + 1) /\ DOMAIN chain = 1..Len(chain)
        BY <1>0, <2>3
      <4>2. \A i \in 1..Len(chain) : chain[i] # job
        BY <1>0, <2>2, <4>1 DEF ToSet
      <4>3. \A i \in 1..(Len(chain) + 1) : i \in 1..Len(chain) \/ i = Len(chain) + 1
        BY <2>3
      <4>4. \A i, j \in 1..Len(chain) : chain[i] = chain[j] => i = j
        BY <1>0, <4>1 DEF IsInjective
      <4>5. \A i, j \in 1..(Len(chain) + 1) : chain'[i] = chain'[j] => i = j
        BY <2>3, <4>2, <4>3, <4>4
      <4> QED BY <4>1, <4>5 DEF IsInjective
    <3>2. \A i \in 1..(Len(chain') - 1) : ~IsFull(chain'[i]) /\ Same(chain'[i + 1].base, chain'[i].source)
      <4> SUFFICES ASSUME NEW i \in 1..Len(chain)
                   PROVE  ~IsFull(chain'[i]) /\ Same(chain'[i + 1].base, chain'[i].source)
        BY <2>3
      <4>1. chain'[i] = chain[i] /\ chain # <<>>
        BY <1>0, <2>3
      <4>2. CASE i = Len(chain)
        <5>1. chain'[i + 1] = job /\ chain[i] = Last(chain)
          BY <2>3, <4>2 DEF Last
        <5> QED BY <1>0, <4>1, <5>1 DEF Inv, Linked, Running
      <4>3. CASE i # Len(chain)
        <5>1. i \in 1..(Len(chain) - 1) /\ i + 1 \in 1..Len(chain)
          BY <2>3, <4>3
        <5>2. chain'[i + 1] = chain[i + 1]
          BY <2>3, <5>1
        <5>3. ~IsFull(chain[i]) /\ Same(chain[i + 1].base, chain[i].source)
          BY <1>0, <5>1 DEF Inv, Linked, Running
        <5> QED BY <4>1, <5>2, <5>3
      <4> QED BY <4>2, <4>3
    <3>3. \A i \in 1..Len(chain') : ~isIn(chain'[i].base, listed)
      <4>1. \A i \in 1..Len(chain) : ~isIn(chain[i].base, listed)
        BY <1>0 DEF Inv, Linked, Running
      <4>2. \A i \in 1..Len(chain') : i \in 1..Len(chain) \/ i = Len(chain) + 1
        BY <2>3
      <4> QED BY <1>3, <2>3, <4>1, <4>2
    <3>4. job' \in archive' /\ ToSet(chain') \subseteq archive'
      BY <1>0, <2>1, <2>3, <2>4, <2>5
    <3>5. pc' = "walk" => ~IsFull(Last(chain')) /\ Same(job'.base, Last(chain').source) /\ ~isIn(job'.base, listed)
      BY <2>3, <2>4, <2>5
    <3>6. pc' = "check" => Last(chain') = job'
      BY <2>3, <2>5
    <3> QED BY <1>0, <2>1, <2>5, <3>1, <3>2, <3>3, <3>4, <3>5, <3>6 DEF Linked, isIn
  <2>10. HeadIsAsked'
    <3>1. chain' # <<>>
      BY <2>3
    <3>2. Asked(chain'[1])
      <4>1. CASE chain = <<>>
        BY <1>0, <2>3, <4>1 DEF Inv, HeadIsAsked
      <4>2. CASE chain # <<>>
        <5>1. 1 \in 1..Len(chain)
          BY <1>0, <4>2
        <5> QED BY <1>0, <2>3, <4>2, <5>1 DEF Inv, HeadIsAsked, Running
      <4> QED BY <4>1, <4>2
    <3> QED BY <2>1, <2>5, <3>1, <3>2 DEF HeadIsAsked, Asked, NameAsked, latest
  <2>11. OnceIsEnough'
    BY <2>5 DEF OnceIsEnough
  <2> QED BY <2>6, <2>7, <2>8, <2>9, <2>10, <2>11 DEF Inv
<1> QED BY <1>1, <1>2, <1>3

LEMMA CheckChainInv == ASSUME Inv, CheckChain PROVE Inv'
<1>1. CASE Fail
  BY <1>1, FailInv
<1>2. CASE ~Fail
  <2>1. /\ pc = "check" /\ pc' = "receive" /\ ~refuseUnlistedTarget(seen) /\ ~refuseDestroy(chain, listed, seen = "there")
        /\ UNCHANGED <<archive, want, opt, local, exists, below, received, lost, listed, seen, job, chain>>
    BY <1>2 DEF CheckChain, world, target
  <2>2. received = {}
    BY <2>1 DEF Inv, TargetSound
  <2>3. TypeOK'
    BY <2>1 DEF Inv, TypeOK, Running
  <2>4. TargetSound'
    BY <2>1, <2>2 DEF Inv, TargetSound, Sorted
  <2>5. ListedStill'
    BY <2>1 DEF Inv, ListedStill, Running
  <2>6. Linked'
    BY <2>1, <2>2 DEF Inv, Linked, Running, isIn
  <2>7. HeadIsAsked'
    BY <2>1 DEF Inv, HeadIsAsked, Found, Restored, Asked, NameAsked, latest, Running
  <2>8. OnceIsEnough'
    <3>1. ~refuseDestroy(chain, listed, seen = "there")'
      BY <2>1 DEF refuseDestroy, snapshotsNotOlder, replicationLoss
    <3>2. chain # <<>> => Last(chain) = job
      BY <2>1 DEF Inv, Linked, Running
    <3>3. Guarded => seen # "error"
      BY <2>1 DEF refuseUnlistedTarget, Guarded
    <3> QED BY <2>1, <2>2, <3>1, <3>2, <3>3 DEF OnceIsEnough, BeforeFirst, AfterFirst, Guarded
  <2> QED BY <2>3, <2>4, <2>5, <2>6, <2>7, <2>8 DEF Inv
<1> QED BY <1>1, <1>2

-----------------------------------------------------------------------------
(* A snapshot is taken of the target.                                      *)

LEMMA SnapshotTargetInv == ASSUME Inv, NEW s \in Taken, SnapshotTarget(s) PROVE Inv'
<1>1. /\ exists /\ local' = Append(local, s) /\ \A t \in ToSet(local) : t.name # s.name /\ t.time <= s.time
      /\ UNCHANGED <<archive, want, opt, exists, below, received, lost, listed, seen, job, chain, pc>>
  BY DEF SnapshotTarget, world
<1>2. local \in Seq(Known) /\ s \in Known /\ s \notin LocalSnaps /\ s \notin Bases
  BY KnownFacts DEF Inv, TypeOK
<1>3. /\ local' \in Seq(Known) /\ Len(local') = Len(local) + 1 /\ ToSet(local') = ToSet(local) \cup {s}
      /\ (\A i \in 1..Len(local) : local'[i] = local[i]) /\ local'[Len(local) + 1] = s /\ Len(local) \in Nat
      /\ DOMAIN local' = 1..(Len(local) + 1) /\ DOMAIN local = 1..Len(local)
  BY <1>1, <1>2, SetOfAppend, SetOf
<1>4. \A i \in DOMAIN local' : i \in Nat /\ ((i \in DOMAIN local /\ local'[i] = local[i] /\ local[i] \in ToSet(local) /\ i <= Len(local))
                                \/ (i = Len(local) + 1 /\ local'[i] = s))
  BY <1>3 DEF ToSet
<1>5. TypeOK'
  BY <1>1, <1>3 DEF Inv, TypeOK
<1>6. TargetSound'
  <2>1. \A i, j \in DOMAIN local : local[i].name = local[j].name => i = j
    BY DEF Inv, TargetSound
  <2>2. \A i, j \in DOMAIN local' : local'[i].name = local'[j].name => i = j
    BY <1>1, <1>4, <2>1
  <2>3. received = {} => Sorted(local)'
    <3> SUFFICES ASSUME received = {} PROVE Sorted(local)'
      OBVIOUS
    <3>1. \A i, j \in DOMAIN local : i < j => local[i].time <= local[j].time /\ local[i].name # local[j].name
      BY DEF Inv, TargetSound, Sorted
    <3>2. \A i, j \in DOMAIN local' : i < j => i \in DOMAIN local
      BY <1>3, <1>4
    <3>3. \A i, j \in DOMAIN local' : i < j => local'[i].time <= local'[j].time
      BY <1>1, <1>4, <3>1, <3>2
    <3>4. \A i, j \in DOMAIN local' : i < j => local'[i].name # local'[j].name
      BY <1>1, <1>4, <3>1, <3>2
    <3> QED BY <3>3, <3>4 DEF Sorted
  <2> QED BY <1>1, <2>2, <2>3 DEF Inv, TargetSound
<1>7. ListedStill'
  BY <1>1, <1>3 DEF Inv, ListedStill
<1>8. Linked'
  BY <1>1 DEF Inv, Linked, isIn
<1>9. HeadIsAsked'
  BY <1>1, <1>3 DEF Inv, HeadIsAsked, Found, Restored, Asked, NameAsked, latest
<1>10. OnceIsEnough'
  <2> SUFFICES ASSUME pc = "receive", opt.auto, Guarded PROVE seen # "error" /\ BeforeFirst' /\ AfterFirst'
    BY <1>1 DEF OnceIsEnough, Guarded
  <2>1. seen # "error" /\ BeforeFirst /\ AfterFirst
    BY DEF Inv, OnceIsEnough
  <2>2. BeforeFirst'
    <3>1. TwinSource => TwinSource'
      BY <1>1, <1>3 DEF TwinSource
    <3> QED BY <1>1, <2>1, <3>1 DEF BeforeFirst, refuseDestroy, snapshotsNotOlder, replicationLoss
  <2>3. AfterFirst'
    <3> SUFFICES ASSUME received # {} PROVE AfterFirst'
      BY <1>1 DEF AfterFirst
    <3>1. s \notin received /\ s \notin Had
      BY <1>2 DEF Inv, TypeOK, Had
    <3>2. Had' = Had /\ BringsReplication' = BringsReplication
      BY <1>1 DEF Had, BringsReplication
    <3>3. \A i, j \in DOMAIN local' : local'[i] \in Had /\ local'[j] \in received => i < j
      BY <1>4, <2>1, <3>1 DEF AfterFirst
    <3> QED BY <1>1, <1>3, <2>1, <3>1, <3>2, <3>3 DEF AfterFirst
  <2> QED BY <2>1, <2>2, <2>3
<1> QED BY <1>5, <1>6, <1>7, <1>8, <1>9, <1>10 DEF Inv

-----------------------------------------------------------------------------
(* One backup of the chain.                                                *)

\* What is left of the chain behind its oldest backup.
LEMMA RestOfChain ==
    ASSUME Inv, pc = "receive", chain # <<>>
    PROVE  /\ Last(chain) \in Backups /\ Last(chain) \in ToSet(chain) /\ Last(chain) \in archive
           /\ job \in archive /\ job \in Backups /\ chain \in Seq(Backups)
           /\ Front(chain) \in Seq(Backups) /\ ToSet(Front(chain)) \subseteq ToSet(chain) /\ IsInjective(Front(chain))
           /\ \A i \in 1..(Len(Front(chain)) - 1) : /\ ~IsFull(Front(chain)[i])
                                                   /\ Same(Front(chain)[i + 1].base, Front(chain)[i].source)
           /\ opt.auto => \A i \in 1..Len(Front(chain)) : ~isIn(Front(chain)[i].base, listed)
           /\ opt.auto => ~isIn(Last(chain).base, listed)
           /\ Front(chain) # <<>> => /\ ~IsFull(Last(Front(chain)))
                                    /\ Same(Last(chain).base, Last(Front(chain)).source)
                                    /\ Front(chain)[1] = chain[1]
           /\ Front(chain) = <<>> => Last(chain) = chain[1]
<1> DEFINE f == Front(chain)
<1>1. chain \in Seq(Backups) /\ job \in archive /\ archive \subseteq Backups /\ ToSet(chain) \subseteq archive
  BY DEF Inv, TypeOK, Linked, Running
<1>2. Last(chain) \in ToSet(chain) /\ Len(chain) \in Nat /\ DOMAIN chain = 1..Len(chain)
  BY <1>1, SetOf
<1>3. /\ f \in Seq(Backups) /\ Len(f) = Len(chain) - 1 /\ Len(chain) > 0
      /\ (\A i \in 1..(Len(chain) - 1) : f[i] = chain[i]) /\ ToSet(f) \subseteq ToSet(chain)
  BY <1>1, SetOfFront
<1> HIDE DEF f
<1>4. DOMAIN f = 1..(Len(chain) - 1) /\ Len(f) \in Nat
  BY <1>3
<1>5. \A i \in 1..(Len(chain) - 1) : i \in 1..Len(chain) /\ i + 1 \in 1..Len(chain)
  BY <1>2, <1>3
<1>6. IsInjective(f)
  BY <1>2, <1>3, <1>4, <1>5 DEF Inv, Linked, Running, IsInjective
<1>7. \A i \in 1..(Len(chain) - 1) : ~IsFull(chain[i]) /\ Same(chain[i + 1].base, chain[i].source)
  BY DEF Inv, Linked, Running
<1>8. \A i \in 1..(Len(f) - 1) : ~IsFull(f[i]) /\ Same(f[i + 1].base, f[i].source)
  <2> SUFFICES ASSUME NEW i \in 1..(Len(f) - 1) PROVE ~IsFull(f[i]) /\ Same(f[i + 1].base, f[i].source)
    OBVIOUS
  <2>1. i \in 1..(Len(chain) - 1) /\ i + 1 \in 1..(Len(chain) - 1)
    BY <1>3, <1>4
  <2> QED BY <1>3, <1>7, <2>1
<1>9. opt.auto => \A i \in 1..Len(chain) : ~isIn(chain[i].base, listed)
  BY DEF Inv, Linked, Running
<1>10. opt.auto => \A i \in 1..Len(f) : ~isIn(f[i].base, listed)
  BY <1>3, <1>5, <1>9
<1>11. opt.auto => ~isIn(Last(chain).base, listed)
  BY <1>2, <1>3, <1>9 DEF Last
<1>12. f # <<>> => ~IsFull(Last(f)) /\ Same(Last(chain).base, Last(f).source) /\ f[1] = chain[1]
  <2> SUFFICES ASSUME f # <<>> PROVE ~IsFull(Last(f)) /\ Same(Last(chain).base, Last(f).source) /\ f[1] = chain[1]
    OBVIOUS
  <2>1. Len(chain) - 1 \in 1..(Len(chain) - 1) /\ 1 \in 1..(Len(chain) - 1) /\ (Len(chain) - 1) + 1 = Len(chain)
    BY <1>2, <1>3, <1>4
  <2>2. Last(f) = chain[Len(chain) - 1]
    BY <1>3, <2>1 DEF Last
  <2> QED BY <1>3, <1>7, <2>1, <2>2 DEF Last
<1>13. f = <<>> => Last(chain) = chain[1]
  <2>1. f = <<>> => Len(f) = 0
    OBVIOUS
  <2>2. Len(f) = 0 => Len(chain) = 1
    <3> DEFINE k == Len(chain)
               n == Len(f)
    <3>1. k \in Nat /\ n = k - 1
      BY <1>2, <1>3
    <3> HIDE DEF k, n
    <3>2. n = 0 => k = 1
      BY <3>1
    <3> QED BY <3>2 DEF k, n
  <2> QED BY <2>1, <2>2 DEF Last
<1> QED BY <1>1, <1>2, <1>3, <1>6, <1>8, <1>10, <1>11, <1>12, <1>13 DEF f

\* Of the chain, what a step that uses up its oldest backup keeps.
LEMMA StepLinked ==
    ASSUME Inv, pc = "receive", chain # <<>>, chain' = Front(chain), UNCHANGED <<archive, opt, listed, job, pc>>
    PROVE  Linked'
<1>1. /\ job \in archive /\ ToSet(Front(chain)) \subseteq ToSet(chain) /\ IsInjective(Front(chain))
      /\ (\A i \in 1..(Len(Front(chain)) - 1) : /\ ~IsFull(Front(chain)[i])
                                                /\ Same(Front(chain)[i + 1].base, Front(chain)[i].source))
      /\ (opt.auto => \A i \in 1..Len(Front(chain)) : ~isIn(Front(chain)[i].base, listed))
  BY RestOfChain
<1>2. ToSet(chain) \subseteq archive
  BY DEF Inv, Linked, Running
<1>3. ~opt.auto => Front(chain) = <<>>
  <2> SUFFICES ASSUME ~opt.auto PROVE Front(chain) = <<>>
    OBVIOUS
  <2>1. chain = <<job>> /\ chain \in Seq(Backups)
    BY DEF Inv, Linked, TypeOK, Running
  <2>2. Len(chain) = 1 /\ Front(chain) \in Seq(Backups) /\ Len(Front(chain)) = Len(chain) - 1
    BY <2>1, SetOfFront
  <2> QED BY <2>2
<1>4. ToSet(chain') \subseteq archive' /\ IsInjective(chain') /\ job' \in archive'
  BY <1>1, <1>2
<1>5. \A i \in 1..(Len(chain') - 1) : ~IsFull(chain'[i]) /\ Same(chain'[i + 1].base, chain'[i].source)
  BY <1>1
<1>6. opt'.auto => \A i \in 1..Len(chain') : ~isIn(chain'[i].base, listed')
  BY <1>1
<1>7. ~opt'.auto => chain' = <<>>
  BY <1>3
<1> QED BY <1>4, <1>5, <1>6, <1>7 DEF Linked, isIn

\* And the backup asked for is still its head, or is on the target.
LEMMA StepAsked ==
    ASSUME Inv, pc = "receive", chain # <<>>, chain' = Front(chain), UNCHANGED <<archive, want, opt, pc>>,
           NEW b, b = Last(chain), Restored(b)'
    PROVE  HeadIsAsked'
<1> SUFFICES ASSUME opt.auto PROVE HeadIsAsked'
  BY DEF HeadIsAsked
<1>0. PICK h : h = chain[1]
  OBVIOUS
<1>1. Asked(h)
  BY <1>0 DEF Inv, HeadIsAsked, Running
<1>2. b \in archive /\ (chain' # <<>> => chain'[1] = h) /\ (chain' = <<>> => b = h)
  BY <1>0, RestOfChain
<1>3. Asked(h)'
  BY <1>1 DEF Asked, NameAsked, latest
<1>4. chain' = <<>> => Found'
  BY <1>2, <1>3 DEF Found
<1> QED BY <1>2, <1>3, <1>4 DEF HeadIsAsked, Asked

\* Under the guard, the target has what was listed, taken or received.
LEMMA TargetKnown ==
    ASSUME Inv, pc = "receive", opt.auto, Guarded
    PROVE  ToSet(local) \subseteq ToSet(listed) \cup Taken \cup received
<1>1. seen # "error" /\ AfterFirst
  BY DEF Inv, OnceIsEnough
<1>2. received = {} => ToSet(local) \subseteq ToSet(listed) \cup Taken
  <2>1. seen = "missing" /\ received = {} => local = <<>>
    BY DEF Inv, ListedStill, TargetSound, Running
  <2>2. seen = "there" /\ received = {} => ToSet(local) \subseteq ToSet(listed) \cup Taken
    BY DEF Inv, ListedStill, Running
  <2>3. seen \in {"there", "missing", "error"}
    BY DEF Inv, TypeOK
  <2> QED BY <1>1, <2>1, <2>2, <2>3, SetOfNone
<1>3. received # {} => ToSet(local) \subseteq ToSet(listed) \cup Taken \cup received
  BY <1>1 DEF AfterFirst
<1> QED BY <1>2, <1>3

\* Then what passes for the snapshot of a backup of the chain was received or taken since.
LEMMA HeldIsNew ==
    ASSUME Inv, pc = "receive", opt.auto, Guarded, chain # <<>>,
           NEW t \in ToSet(local), Same(Last(chain).base, t)
    PROVE  t \in received \cup Taken
<1> DEFINE b == Last(chain)
<1>1. ~isIn(b.base, listed)
  BY RestOfChain
<1> HIDE DEF b
<1>2. t \notin ToSet(listed)
  BY <1>1 DEF isIn, b
<1> QED BY <1>2, TargetKnown

LEMMA AlreadyThereInv == ASSUME Inv, NEW how, AlreadyThere(how) PROVE Inv'
<1>1. /\ pc = "receive" /\ chain # <<>> /\ Held(Last(chain), Listing(how)) /\ ~Refused(Last(chain), how)
      /\ chain' = Front(chain)
      /\ UNCHANGED <<archive, want, opt, local, exists, below, received, lost, listed, seen, job, pc>>
  BY DEF AlreadyThere, Stepping, world, target
<1>2. /\ Last(chain) \in Backups /\ chain' \in Seq(Backups) /\ ToSet(chain') \subseteq ToSet(chain)
      /\ (chain' # <<>> => ~IsFull(Last(chain')) /\ Same(Last(chain).base, Last(chain').source))
  BY <1>1, RestOfChain
<1>3. PICK t \in ToSet(local) : Same(Last(chain).base, t)
  <2>1. PICK t \in ToSet(Listing(how)) : Same(Last(chain).base, t)
    BY <1>1 DEF Held, isIn
  <2>2. t \in ToSet(local)
    BY <2>1, SetOfNone DEF Listing
  <2> QED BY <2>1, <2>2
<1>3a. PICK b : b = Last(chain)
  OBVIOUS
<1>3b. Restored(b)'
  <2>1. ~GUIDDiffers(b)
    BY <1>1, <1>3a DEF Refused
  <2>2. Restored(b)
    BY <1>2, <1>3, <1>3a, <2>1, Identified
  <2> QED BY <1>1, <2>2 DEF Restored
<1>4. TypeOK'
  BY <1>1, <1>2 DEF Inv, TypeOK
<1>5. TargetSound'
  BY <1>1 DEF Inv, TargetSound, Sorted
<1>6. ListedStill'
  BY <1>1 DEF Inv, ListedStill
<1>7. Linked'
  BY <1>1, StepLinked
<1>8. HeadIsAsked'
  BY <1>1, <1>3a, <1>3b, StepAsked
<1>9. OnceIsEnough'
  <2> SUFFICES ASSUME opt.auto, Guarded PROVE seen # "error" /\ BeforeFirst' /\ AfterFirst'
    BY <1>1 DEF OnceIsEnough, Guarded
  <2>1. t \in (received \cup Taken) \cap ToSet(local)
    BY <1>1, <1>3, HeldIsNew
  <2>2. seen # "error" /\ AfterFirst
    BY <1>1 DEF Inv, OnceIsEnough
  <2>3. BringsReplication' => BringsReplication
    BY <1>2 DEF BringsReplication
  <2>4. Had' = Had
    BY <1>1 DEF Had
  <2>5. chain' # <<>> => ~IsFull(Last(chain')) /\ Same(t, Last(chain').source)
    BY <1>2, <1>3 DEF Same
  <2>6. AfterFirst'
    BY <1>1, <2>1, <2>2, <2>3, <2>4, <2>5 DEF AfterFirst
  <2>7. BeforeFirst'
    BY <1>1, <2>1, <2>5 DEF BeforeFirst, TwinSource
  <2> QED BY <1>1, <2>2, <2>6, <2>7
<1> QED BY <1>4, <1>5, <1>6, <1>7, <1>8, <1>9 DEF Inv

-----------------------------------------------------------------------------
(* The receive of one backup.                                              *)

\* zfs finds the source of an incremental by its guid: it is the source itself.
LEMMA SourcePlace ==
    ASSUME Inv, NEW b \in Backups, ~IsFull(b), sourceAt(b) > 0
    PROVE  sourceAt(b) \in 1..Len(local) /\ local[sourceAt(b)] = b.source
<1> DEFINE I == {i \in 1..Len(local) : local[i].guid = b.source.guid}
<1>1. local \in Seq(Known) /\ b.source \in Known
  BY BackupFacts DEF Inv, TypeOK, IsFull
<1>2. \A i \in I : local[i] = b.source /\ i \in DOMAIN local /\ i \in Int
  BY <1>1, KnownFacts
<1>3. \A i, j \in I : i = j
  BY <1>2 DEF Inv, TargetSound
<1>4. sourceAt(b) = IF I = {} THEN 0 ELSE Min(I)
  BY DEF sourceAt, SelectInSeq
<1> HIDE DEF I
<1>5. I # {} /\ sourceAt(b) = Min(I)
  BY <1>4
<1>6. PICK m \in I : \A k \in I : k = m /\ m <= k
  BY <1>2, <1>3, <1>5
<1>7. Min(I) \in I
  BY <1>6 DEF Min
<1> QED BY <1>2, <1>5, <1>7 DEF I

\* r is what an incremental of s makes of the snapshots q of the target: old, which is n
\* of the first m, in their order, and the new one behind them.
Incremented(q, s, m, n, order, old, r) ==
    /\ q \in Seq(Known) /\ s \in Known /\ m \in 1..Len(q) /\ n \in Nat /\ order \in [1..n -> 1..m]
    /\ \A x, y \in 1..n : x < y => order[x] < order[y]
    /\ \A i, j \in DOMAIN q : q[i].name = q[j].name => i = j
    /\ \A k \in 1..m : q[k].name # s.name
    /\ old \in Seq(Known) /\ Len(old) = n /\ \A x \in 1..n : old[x] = q[order[x]]
    /\ r = Append(old, s)

LEMMA IncrementalTarget ==
    ASSUME NEW q, NEW s, NEW m, NEW n, NEW order, NEW old, NEW r, Incremented(q, s, m, n, order, old, r)
    PROVE  /\ r \in Seq(Known) /\ r # <<>> /\ s \in ToSet(r) /\ ToSet(r) \subseteq ToSet(q) \cup {s}
           /\ \A x, y \in DOMAIN r : r[x].name = r[y].name => x = y
           /\ \A x, y \in DOMAIN r : r[x] # s =>
                IF r[y] = s THEN x < y
                ELSE \E k, l \in DOMAIN q : r[x] = q[k] /\ r[y] = q[l] /\ (k < l => x < y)
<1>0. /\ q \in Seq(Known) /\ s \in Known /\ m \in 1..Len(q) /\ n \in Nat /\ order \in [1..n -> 1..m]
      /\ (\A x, y \in 1..n : x < y => order[x] < order[y])
      /\ (\A i, j \in DOMAIN q : q[i].name = q[j].name => i = j)
      /\ (\A k \in 1..m : q[k].name # s.name)
      /\ old \in Seq(Known) /\ Len(old) = n /\ (\A x \in 1..n : old[x] = q[order[x]])
  BY DEF Incremented
<1> USE <1>0
<1>1. DOMAIN q = 1..Len(q) /\ Len(q) \in Nat
  BY SetOf
<1>2. \A x \in 1..n : order[x] \in 1..m /\ order[x] \in DOMAIN q /\ order[x] \in Int
  BY <1>1
<1>3. /\ r \in Seq(Known) /\ Len(r) = n + 1 /\ ToSet(r) = ToSet(old) \cup {s}
      /\ (\A x \in 1..n : r[x] = old[x]) /\ r[n + 1] = s
  <2>1. r = Append(old, s)
    BY DEF Incremented
  <2> QED BY <2>1, SetOfAppend
<1>4. DOMAIN r = 1..(n + 1) /\ r # <<>>
  BY <1>3
<1>5. \A x \in DOMAIN r : x \in Nat /\ (x = n + 1 \/ (x \in 1..n /\ x < n + 1))
  BY <1>4
<1>6. \A x \in 1..n : r[x] = q[order[x]] /\ r[x].name # s.name /\ r[x] \in ToSet(q)
  BY <1>2, <1>3 DEF ToSet
<1>7. \A x, y \in 1..n : order[x] < order[y] => x < y
  <2> SUFFICES ASSUME NEW x \in 1..n, NEW y \in 1..n, order[x] < order[y] PROVE x < y
    OBVIOUS
  <2>1. order[x] \in Int /\ order[y] \in Int /\ (y < x => order[y] < order[x])
    BY <1>2
  <2> QED BY <2>1
<1>8. \A x, y \in 1..n : order[x] = order[y] => x = y
  <2> SUFFICES ASSUME NEW x \in 1..n, NEW y \in 1..n, order[x] = order[y] PROVE x = y
    OBVIOUS
  <2>1. order[x] \in Int /\ (y < x => order[y] < order[x]) /\ (x < y => order[x] < order[y])
    BY <1>2
  <2> QED BY <2>1
<1>9. ToSet(r) \subseteq ToSet(q) \cup {s}
  <2>1. ToSet(r) = {r[x] : x \in DOMAIN r}
    BY DEF ToSet
  <2> QED BY <2>1, <1>3, <1>5, <1>6
<1>10. \A x, y \in DOMAIN r : r[x].name = r[y].name => x = y
  <2> SUFFICES ASSUME NEW x \in DOMAIN r, NEW y \in DOMAIN r, r[x].name = r[y].name PROVE x = y
    OBVIOUS
  <2>1. CASE x \in 1..n /\ y \in 1..n
    <3>1. q[order[x]].name = q[order[y]].name
      BY <1>6, <2>1
    <3>2. order[x] = order[y]
      BY <1>2, <2>1, <3>1
    <3> QED BY <1>8, <2>1, <3>2
  <2> QED BY <1>3, <1>5, <1>6, <2>1
<1>11. ASSUME NEW x \in DOMAIN r, NEW y \in DOMAIN r, r[x] # s
       PROVE  IF r[y] = s THEN x < y
              ELSE \E k, l \in DOMAIN q : r[x] = q[k] /\ r[y] = q[l] /\ (k < l => x < y)
  <2>1. x \in 1..n /\ x < n + 1
    BY <1>3, <1>5, <1>11
  <2>2. CASE y = n + 1
    BY <1>3, <2>1, <2>2
  <2>3. CASE y \in 1..n
    <3>1. r[y] # s
      BY <1>6, <2>3
    <3>2. /\ order[x] \in DOMAIN q /\ order[y] \in DOMAIN q /\ r[x] = q[order[x]]
          /\ r[y] = q[order[y]] /\ (order[x] < order[y] => x < y)
      BY <1>2, <1>6, <1>7, <2>1, <2>3
    <3> QED BY <3>1, <3>2
  <2> QED BY <1>5, <2>2, <2>3
<1>12. s \in ToSet(r)
  BY <1>3
<1> QED BY <1>3, <1>4, <1>9, <1>10, <1>11, <1>12

\* zfs takes no stream from a snapshot that only passes for the source: it has another guid.
LEMMA TwinApplies ==
    ASSUME Inv, pc = "receive", chain # <<>>, Applies(Last(chain))
    PROVE  ~TwinSource
<1> DEFINE b == Last(chain)
<1> SUFFICES ASSUME ~IsFull(b), NEW t \in ToSet(local) \cap Taken, Same(t, b.source) PROVE FALSE
  BY DEF TwinSource
<1>1. b \in Backups
  BY RestOfChain
<1>2. PICK k \in DOMAIN local : t = local[k]
  BY DEF ToSet
<1>3. exists
  <2>1. local # <<>>
    BY <1>2
  <2> QED BY <2>1 DEF Inv, TargetSound
<1>4. sourceAt(b) > 0
  BY <1>3 DEF Applies, Clones
<1> HIDE DEF b
<1>5. sourceAt(b) \in 1..Len(local) /\ local[sourceAt(b)] = b.source
  BY <1>1, <1>4, SourcePlace
<1>6. DOMAIN local = 1..Len(local)
  BY SetOf DEF Inv, TypeOK
<1>7. k = sourceAt(b)
  BY <1>2, <1>5, <1>6 DEF Inv, TargetSound, Same
<1> QED BY <1>1, <1>2, <1>5, <1>7, BackupFacts DEF IsFull

\* What a step is checked against before anything was received: all that the target has
\* but the snapshots taken since the run listed it.
LEMMA CheckedFirst ==
    ASSUME Inv, pc = "receive", chain # <<>>, Guarded, received = {}, NEW how, Listable(how),
           ~Held(Last(chain), Listing(how)), ~Refused(Last(chain), how), Applies(Last(chain))
    PROVE  /\ Last(chain) = job
           /\ \E snaps \in {local, listed} :
                /\ ~refuseDestroy(chain, snaps, exists)
                /\ ToSet(local) \subseteq ToSet(snaps) \cup Taken
                /\ local = <<>> => snaps = <<>>
<1>1. ~exists => local = <<>>
  BY DEF Inv, TargetSound
<1>2. exists \in BOOLEAN /\ listed \in Seq(Known) /\ local \in Seq(Known)
  BY DEF Inv, TypeOK
<1>3. CASE ~opt.auto
  <2>1. chain = <<job>>
    BY <1>3 DEF Inv, Linked, Running
  <2>2. Last(chain) = job
    BY <2>1 DEF Last
  <2>3. how # "error" /\ ~refuseDestroy(<<job>>, Listing(how), how = "there")
    BY <1>3, <2>2 DEF Refused, refuseUnlistedTarget, Guarded
  <2>4. how = (IF exists THEN "there" ELSE "missing")
    BY <2>3 DEF Listable
  <2>5. Listing(how) = local
    BY <1>1, <2>4 DEF Listing
  <2>6. (how = "there") = exists
    BY <1>2, <2>4
  <2>7. ~refuseDestroy(chain, local, exists)
    BY <2>1, <2>3, <2>5, <2>6
  <2> QED BY <2>2, <2>7
<1>4. CASE opt.auto
  <2>1. Last(chain) = job /\ ~refuseDestroy(chain, listed, seen = "there") /\ seen # "error"
    BY <1>4, TwinApplies DEF Inv, OnceIsEnough, BeforeFirst
  <2>2. seen \in {"there", "missing"}
    BY <2>1 DEF Inv, TypeOK
  <2>3. /\ seen = "there" => exists /\ ToSet(listed) \subseteq ToSet(local)
        /\ seen = "missing" => ~exists /\ listed = <<>>
    BY <1>4 DEF Inv, ListedStill, Running
  <2>4. (seen = "there") = exists
    BY <1>2, <2>2, <2>3
  <2>5. ToSet(local) \subseteq ToSet(listed) \cup Taken
    BY <1>4, TargetKnown
  <2>6. local = <<>> => listed = <<>>
    <3>1. local = <<>> /\ seen = "there" => ToSet(listed) = {}
      BY <2>3, SetOfNone
    <3>2. ToSet(listed) = {} => listed = <<>>
      BY <1>2, SetOf
    <3> QED BY <2>2, <2>3, <3>1, <3>2
  <2>7. ~refuseDestroy(chain, listed, exists)
    BY <2>1, <2>4
  <2> QED BY <2>1, <2>5, <2>6, <2>7
<1> QED BY <1>3, <1>4

\* Without --allowDestroy a full stream, or a clone, only makes a new dataset.
LEMMA NewOnlyWhereNothingIs ==
    ASSUME Inv, pc = "receive", chain # <<>>, ~opt.allowDestroy, NEW how, Listable(how),
           ~Held(Last(chain), Listing(how)), ~Refused(Last(chain), how),
           IsFull(Last(chain)) \/ Clones(Last(chain)), Applies(Last(chain))
    PROVE  ~exists
<1> SUFFICES ASSUME exists PROVE FALSE
  OBVIOUS
<1>1. IsFull(Last(chain)) /\ local = <<>> /\ opt.force
  BY DEF Clones, Applies
<1>2. Guarded
  BY <1>1 DEF Guarded
<1>3. received = {}
  <2>1. ~opt.auto => received = {}
    BY DEF Inv, Linked, Running
  <2>2. opt.auto => AfterFirst
    BY <1>2 DEF Inv, OnceIsEnough
  <2> QED BY <1>1, <2>1, <2>2 DEF AfterFirst
<1>4. ~refuseDestroy(chain, <<>>, exists)
  BY <1>1, <1>2, <1>3, CheckedFirst
<1> QED BY <1>1, <1>2, <1>4 DEF refuseDestroy, Guarded, IsFull

\* Without it, what the checks leave for a forced incremental to destroy is not the
\* target's: nothing of it is behind the source, and a replication stream finds nothing
\* but the source of the chain.
LEMMA ForcedSpares ==
    ASSUME Inv, pc = "receive", chain # <<>>, Guarded, NEW how, Listable(how),
           ~Held(Last(chain), Listing(how)), ~Refused(Last(chain), how),
           Applies(Last(chain)), ~IsFull(Last(chain)), sourceAt(Last(chain)) > 0
    PROVE  /\ \A j \in DOMAIN local : j > sourceAt(Last(chain)) => local[j] \notin Had
           /\ BringsReplication => ~below /\ \A j \in DOMAIN local : local[j] \in Had => local[j] = job.source
<1> DEFINE b == Last(chain)
           i == sourceAt(b)
<1>1. b \in Backups /\ b \in ToSet(chain)
  BY RestOfChain
<1>2. i \in 1..Len(local) /\ local[i] = b.source
  BY <1>1, SourcePlace
<1>3. local \in Seq(Known) /\ DOMAIN local = 1..Len(local) /\ Len(local) \in Nat /\ local # <<>>
  <2>1. local \in Seq(Known)
    BY DEF Inv, TypeOK
  <2> QED BY <1>2, <2>1, SetOf
<1>4. \A x, y \in DOMAIN local : local[x].name = local[y].name => x = y
  BY DEF Inv, TargetSound
<1>5. exists
  BY <1>3 DEF Inv, TargetSound
<1>6. CASE received = {}
  <2>1. b = job /\ \E snaps \in {local, listed} : /\ ~refuseDestroy(chain, snaps, exists)
                                              /\ ToSet(local) \subseteq ToSet(snaps) \cup Taken
    BY <1>6, CheckedFirst
  <2>2. PICK snaps \in {local, listed} : /\ ~refuseDestroy(chain, snaps, exists)
                                        /\ ToSet(local) \subseteq ToSet(snaps) \cup Taken
    BY <2>1
  <2>3. b.source # NoSnapshot /\ ~snapshotsNotOlder(snaps, b.source)
    BY <2>2 DEF refuseDestroy, Guarded, IsFull
  <2>4. BringsReplication => ~replicationLoss(snaps, b.source)
    BY <2>2 DEF refuseDestroy, Guarded, BringsReplication
  <2> HIDE DEF i
  <2>5. \A j \in DOMAIN local : local[j] \in Had /\ j # i => local[j] \in ToSet(snaps) /\ local[j].name # b.source.name
    <3> SUFFICES ASSUME NEW j \in DOMAIN local, local[j] \in Had, j # i
                 PROVE  local[j] \in ToSet(snaps) /\ local[j].name # b.source.name
      OBVIOUS
    <3>1. local[j] \in ToSet(local) /\ local[j] \notin Taken
      BY KnownFacts DEF Had, ToSet
    <3>2. local[j].name # b.source.name
      BY <1>2, <1>3, <1>4
    <3> QED BY <2>2, <3>1, <3>2
  <2>5a. b.source.time \in Int /\ i \in Int
    <3>1. b.source \in Snapshot
      BY <1>1, <2>3, BackupFacts
    <3> QED BY <1>2, <3>1 DEF Snapshot
  <2>5b. \A j \in DOMAIN local : local[j].time \in Int /\ j \in Int
    <3>1. \A j \in DOMAIN local : local[j] \in Snapshot
      BY <1>3, KnownFacts
    <3> QED BY <1>3, <3>1 DEF Snapshot
  <2>6. \A j \in DOMAIN local : j > i => local[j] \notin Had
    <3> SUFFICES ASSUME NEW j \in DOMAIN local, j > i, local[j] \in Had PROVE FALSE
      OBVIOUS
    <3>0. j # i
      BY <2>5a, <2>5b
    <3>1. ~(local[j].time >= b.source.time)
      BY <2>3, <2>5, <3>0 DEF snapshotsNotOlder
    <3>2. Sorted(local)
      BY <1>6 DEF Inv, TargetSound
    <3>3. local[i].time <= local[j].time
      BY <1>2, <1>3, <3>2, <2>5a, <2>5b DEF Sorted
    <3> QED BY <1>2, <3>1, <3>3, <2>5a, <2>5b
  <2>7. BringsReplication => ~below /\ \A j \in DOMAIN local : local[j] \in Had => local[j] = job.source
    <3> SUFFICES ASSUME BringsReplication
                 PROVE  ~below /\ \A j \in DOMAIN local : local[j] \in Had => local[j] = job.source
      OBVIOUS
    <3>1. ~below
      BY <1>5, <2>4 DEF replicationLoss
    <3>2. \A j \in DOMAIN local : local[j] \in Had => j = i
      <4> SUFFICES ASSUME NEW j \in DOMAIN local, local[j] \in Had, j # i PROVE FALSE
        OBVIOUS
      <4>1. ~(local[j].time >= b.source.time)
        BY <2>3, <2>5 DEF snapshotsNotOlder
      <4>2. ~(local[j].time < b.source.time)
        BY <2>3, <2>4, <2>5 DEF replicationLoss
      <4> QED BY <4>1, <4>2, <2>5a, <2>5b
    <3> QED BY <1>2, <2>1, <3>1, <3>2
  <2> QED BY <2>6, <2>7 DEF i
<1>7. CASE received # {}
  <2>1. opt.auto
    BY <1>7 DEF Inv, Linked, Running
  <2>2. AfterFirst
    BY <2>1 DEF Inv, OnceIsEnough
  <2>3. PICK s \in (received \cup Taken) \cap ToSet(local) : Same(s, b.source)
    BY <1>7, <2>2 DEF AfterFirst
  <2>4. PICK k \in DOMAIN local : s = local[k]
    BY <2>3 DEF ToSet
  <2>5. k = i
    BY <1>2, <1>3, <1>4, <2>3, <2>4 DEF Same
  <2>6. local[i] \in received
    BY <1>1, <1>2, <2>3, <2>4, <2>5, BackupFacts DEF IsFull
  <2> HIDE DEF i
  <2>7. \A j \in DOMAIN local : j > i => local[j] \notin Had
    <3>1. \A j \in DOMAIN local : local[j] \in Had => j < i
      BY <1>2, <1>3, <1>7, <2>2, <2>6 DEF AfterFirst
    <3> QED BY <1>2, <1>3, <3>1
  <2>8. BringsReplication => ~below /\ \A j \in DOMAIN local : local[j] \in Had => local[j] = job.source
    BY <1>7, <2>2 DEF AfterFirst, ToSet
  <2> QED BY <2>7, <2>8 DEF i
<1> QED BY <1>6, <1>7

\* A received backup: what is left to show of the target.
LEMMA ReceivedInv ==
    ASSUME Inv, pc = "receive", chain # <<>>, chain' = Front(chain), received' = received \cup {Last(chain).base},
           UNCHANGED <<archive, want, opt, listed, seen, job, pc>>,
           local' \in Seq(Known), exists', exists' \in BOOLEAN, below' \in BOOLEAN, Last(chain).base \in ToSet(local'),
           \A x, y \in DOMAIN local' : local'[x].name = local'[y].name => x = y,
           opt.auto /\ Guarded => AfterFirst'
    PROVE  Inv'
<1>1. Last(chain) \in Backups /\ chain' \in Seq(Backups) /\ Last(chain).base \in Bases
  BY RestOfChain, BackupFacts
<1>2. TypeOK'
  BY <1>1 DEF Inv, TypeOK
<1>3. TargetSound'
  <2>1. received' # {} /\ pc' \notin {"start", "walk", "check"}
    OBVIOUS
  <2> QED BY <2>1 DEF TargetSound
<1>4. ListedStill'
  <2>1. received' # {}
    OBVIOUS
  <2> QED BY <2>1 DEF Inv, ListedStill
<1>5. Linked'
  BY StepLinked
<1>6. HeadIsAsked'
  <2>1. PICK b : b = Last(chain)
    OBVIOUS
  <2>2. Restored(b)'
    BY <2>1 DEF Restored, Same
  <2> QED BY <2>1, <2>2, StepAsked
<1>7. OnceIsEnough'
  <2>1. received' # {} /\ Guarded' = Guarded
    BY DEF Guarded
  <2> QED BY <2>1 DEF Inv, OnceIsEnough, BeforeFirst
<1> QED BY <1>2, <1>3, <1>4, <1>5, <1>6, <1>7 DEF Inv

LEMMA ReceiveNewInv ==
    ASSUME Inv, pc = "receive", chain # <<>>, chain' = Front(chain), received' = received \cup {Last(chain).base},
           UNCHANGED <<archive, want, opt, listed, seen, job, pc>>, NEW how, Listable(how),
           ~Held(Last(chain), Listing(how)), ~Refused(Last(chain), how),
           IsFull(Last(chain)) \/ Clones(Last(chain)), Applies(Last(chain)), zfsReceiveNew(Last(chain))
    PROVE  Inv' /\ Spared
<1> DEFINE b == Last(chain)
<1>1. /\ b \in Backups
      /\ (chain' # <<>> => ~IsFull(Last(chain')) /\ Same(b.base, Last(chain').source))
  BY RestOfChain
<1>2. b.base \in Known
  BY <1>1, BackupFacts
<1>3. ~opt.allowDestroy => ~exists
  BY NewOnlyWhereNothingIs
<1>4. local' = <<b.base>> /\ exists' = TRUE /\ below' = below /\ lost' = IF exists THEN lost \cup {AllData} ELSE lost
  BY DEF zfsReceiveNew
<1> HIDE DEF b
<1>5. local' \in Seq(Known) /\ DOMAIN local' = {1} /\ local'[1] = b.base
  BY <1>2, <1>4
<1>6. ToSet(local') = {b.base}
  BY <1>5 DEF ToSet
<1>7. below \in BOOLEAN /\ exists \in BOOLEAN
  BY DEF Inv, TypeOK
<1>8. Spared
  BY <1>3, <1>4, <1>7 DEF Spared
<1>9. opt.auto /\ Guarded => AfterFirst'
  <2> SUFFICES ASSUME opt.auto, Guarded PROVE AfterFirst'
    OBVIOUS
  <2>1. ~below'
    BY <1>3, <1>4 DEF Inv, TargetSound, Guarded
  <2>2. b.base \in received' /\ b.base \notin Had'
    BY DEF Had, b
  <2>3. ToSet(local') \subseteq received' /\ ToSet(local') \cap Had' = {} /\ b.base \in received' \cap ToSet(local')
    BY <1>6, <2>2
  <2>4. \A i, j \in DOMAIN local' : ~(local'[i] \in Had')
    BY <1>5, <2>2
  <2> QED BY <1>1, <2>1, <2>3, <2>4 DEF AfterFirst
<1>10. \A x, y \in DOMAIN local' : local'[x].name = local'[y].name => x = y
  BY <1>5
<1> QED BY <1>4, <1>5, <1>6, <1>7, <1>8, <1>9, <1>10, ReceivedInv DEF b

LEMMA ReceiveIncrementalInv ==
    ASSUME Inv, pc = "receive", chain # <<>>, chain' = Front(chain), received' = received \cup {Last(chain).base},
           UNCHANGED <<archive, want, opt, listed, seen, job, pc>>, NEW how, Listable(how),
           ~Held(Last(chain), Listing(how)), ~Refused(Last(chain), how),
           ~IsFull(Last(chain)), ~Clones(Last(chain)), Applies(Last(chain)), zfsReceiveIncremental(Last(chain))
    PROVE  Inv' /\ Spared
<1> DEFINE b == Last(chain)
           m == sourceAt(b)
           destroys == b.repl /\ opt.force
<1>1. /\ b \in Backups /\ b \in ToSet(chain) /\ ToSet(chain') \subseteq ToSet(chain)
      /\ (chain' # <<>> => ~IsFull(Last(chain')) /\ Same(b.base, Last(chain').source))
  BY RestOfChain
<1>2. b.base \in Known /\ b.repl \in BOOLEAN
  BY <1>1, BackupFacts
<1>3. m > 0 /\ (opt.force \/ m = Len(local)) /\ \A k \in 1..m : local[k].name # b.base.name
  BY DEF Applies
<1>4. m \in 1..Len(local)
  BY <1>1, <1>3, SourcePlace
<1> DEFINE Made(stay, order) ==
          /\ m \in stay /\ (destroys \/ stay = 1..m)
          /\ \A x, y \in DOMAIN order : x < y => order[x] < order[y]
          /\ local' = Append([x \in DOMAIN order |-> local[order[x]]], b.base)
          /\ below' \in (IF destroys THEN {FALSE, below} ELSE {below})
          /\ lost' = lost \cup ({local[j] : j \in DOMAIN local \ stay} \ received)
                          \cup (IF below # below' THEN {Children} ELSE {})
          /\ UNCHANGED exists
<1>4a. PICK stay \in SUBSET (1..m) : \E order \in [1..Cardinality(stay) -> stay] : Made(stay, order)
  BY DEF zfsReceiveIncremental
<1>5. PICK order \in [1..Cardinality(stay) -> stay] : Made(stay, order)
  BY <1>4a
<1>6. local \in Seq(Known) /\ DOMAIN local = 1..Len(local) /\ Len(local) \in Nat /\ local # <<>>
  <2>1. local \in Seq(Known)
    BY DEF Inv, TypeOK
  <2> QED BY <1>4, <2>1, SetOf
<1>7. exists /\ exists \in BOOLEAN /\ below \in BOOLEAN
  BY <1>6 DEF Inv, TargetSound, TypeOK
<1>8. below' \in BOOLEAN /\ (~below => ~below')
  BY <1>5, <1>7
<1>9. /\ local' \in Seq(Known) /\ b.base \in ToSet(local') /\ ToSet(local') \subseteq ToSet(local) \cup {b.base}
      /\ \A x, y \in DOMAIN local' : local'[x].name = local'[y].name => x = y
      /\ \A x, y \in DOMAIN local' : local'[x] # b.base =>
            IF local'[y] = b.base THEN x < y
            ELSE \E k, l \in DOMAIN local : local'[x] = local[k] /\ local'[y] = local[l] /\ (k < l => x < y)
  <2> DEFINE n == Cardinality(stay)
             old == [x \in 1..n |-> local[order[x]]]
             s == b.base
             q == local
             r == local'
  <2> HIDE DEF b, m, destroys
  <2>1. n \in Nat
    <3>1. m \in Int
      BY <1>4
    <3>2. IsFiniteSet(1..m)
      BY <3>1, FS_Interval
    <3>3. IsFiniteSet(stay)
      BY <3>2, FS_Subset
    <3> QED BY <3>3, FS_CardinalityType
  <2>2. order \in [1..n -> 1..m] /\ DOMAIN order = 1..n
    OBVIOUS
  <2>3. \A x, y \in 1..n : x < y => order[x] < order[y]
    BY <1>5, <2>2
  <2>4. r = Append(old, s)
    BY <1>5, <2>2
  <2>5. \A i, j \in DOMAIN q : q[i].name = q[j].name => i = j
    BY DEF Inv, TargetSound
  <2>6. q \in Seq(Known) /\ s \in Known /\ m \in 1..Len(q) /\ \A k \in 1..m : q[k].name # s.name
    BY <1>2, <1>3, <1>4, <1>6
  <2> HIDE DEF n, s, q, r
  <2>7. old \in Seq(Known) /\ Len(old) = n /\ \A x \in 1..n : old[x] = q[order[x]]
    <3>1. old = [x \in 1..n |-> q[order[x]]]
      BY DEF q
    <3> HIDE DEF old
    <3>2. 1..m \subseteq 1..Len(q)
      BY <1>6, <2>6 DEF q
    <3>3. \A x \in 1..n : order[x] \in 1..Len(q)
      BY <2>2, <3>2, Zenon
    <3>4. \A x \in 1..n : q[order[x]] \in Known
      BY <2>6, <3>3
    <3> QED BY <2>1, <3>1, <3>4
  <2> HIDE DEF old
  <2>8. /\ r \in Seq(Known) /\ s \in ToSet(r) /\ ToSet(r) \subseteq ToSet(q) \cup {s}
        /\ \A x, y \in DOMAIN r : r[x].name = r[y].name => x = y
        /\ \A x, y \in DOMAIN r : r[x] # s =>
             IF r[y] = s THEN x < y
             ELSE \E k, l \in DOMAIN q : r[x] = q[k] /\ r[y] = q[l] /\ (k < l => x < y)
    <3>1. Incremented(q, s, m, n, order, old, r)
      BY <2>1, <2>2, <2>3, <2>4, <2>5, <2>6, <2>7 DEF Incremented
    <3> QED BY <3>1, IncrementalTarget
  <2> QED BY <2>8 DEF q, r, s
<1>10. Guarded => /\ \A j \in DOMAIN local : j > m => local[j] \notin Had
                  /\ BringsReplication => ~below /\ \A j \in DOMAIN local : local[j] \in Had => local[j] = job.source
  BY <1>3, ForcedSpares
<1>11. b.repl => BringsReplication
  BY <1>1 DEF BringsReplication
<1>11a. local[m] = b.source /\ \A j \in DOMAIN local \ stay : local[j] # b.source
  <2>1. local[m] = b.source
    BY <1>1, <1>3, SourcePlace
  <2>2. \A k, l \in DOMAIN local : local[k].name = local[l].name => k = l
    BY DEF Inv, TargetSound
  <2>3. m \in stay /\ m \in DOMAIN local
    BY <1>4, <1>5, <1>6
  <2> HIDE DEF b, m
  <2> QED BY <2>1, <2>2, <2>3
<1> HIDE DEF b, m
<1>12. ~opt.allowDestroy =>
          below' = below /\ \A j \in DOMAIN local \ stay : local[j] \in Had => local[j] = job.source /\ b.repl
  <2> SUFFICES ASSUME ~opt.allowDestroy
               PROVE  /\ below' = below
                      /\ \A j \in DOMAIN local \ stay : local[j] \in Had => local[j] = job.source /\ b.repl
    OBVIOUS
  <2>1. CASE ~opt.force
    <3>1. stay = DOMAIN local /\ below' = below
      BY <1>3, <1>5, <1>6, <2>1
    <3> QED BY <3>1
  <2>2. CASE opt.force /\ b.repl
    <3>1. ~below /\ \A j \in DOMAIN local : local[j] \in Had => local[j] = job.source
      BY <1>10, <1>11, <2>2 DEF Guarded
    <3>2. ~below'
      BY <1>8, <3>1
    <3>3. below' = below
      BY <1>7, <1>8, <3>1, <3>2
    <3> QED BY <2>2, <3>1, <3>3
  <2>3. CASE opt.force /\ ~b.repl
    <3>1. stay = 1..m /\ below' = below
      BY <1>5, <2>3
    <3>2. \A j \in DOMAIN local \ stay : j > m
      BY <1>4, <1>6, <3>1
    <3> QED BY <1>10, <2>3, <3>1, <3>2 DEF Guarded
  <2> QED BY <1>2, <2>1, <2>2, <2>3
<1>13. Spared
  <2> SUFFICES ASSUME ~opt.allowDestroy, NEW x \in (lost' \ lost) \cap Original PROVE SourceOfChain(x)
    BY DEF Spared
  <2>1. lost' = lost \cup ({local[j] : j \in DOMAIN local \ stay} \ received)
    BY <1>5, <1>12
  <2>2. PICK j \in DOMAIN local \ stay : x = local[j] /\ x \notin received
    BY <2>1
  <2>3. x \in Snapshot
    BY <1>6, <2>2, KnownFacts
  <2>4. AllData \notin Snapshot /\ Children \notin Snapshot
    BY DEF AllData, Children, Snapshot
  <2>5. x \in Had
    BY <2>2, <2>3, <2>4 DEF Original, Had
  <2>6. x = job.source /\ b.repl /\ x # b.source
    BY <1>11a, <1>12, <2>2, <2>5
  <2> QED BY <2>6 DEF SourceOfChain, b
<1>14. opt.auto /\ Guarded => AfterFirst'
  <2> SUFFICES ASSUME opt.auto, Guarded PROVE AfterFirst'
    OBVIOUS
  <2>1. ToSet(local) \subseteq ToSet(listed) \cup Taken \cup received
    BY TargetKnown
  <2>2. b.base \in received' /\ received \subseteq received' /\ received' = received \cup {b.base}
    BY DEF b
  <2>3. ToSet(local') \subseteq ToSet(listed) \cup Taken \cup received'
    BY <1>9, <2>1, <2>2
  <2>4. Had' \subseteq Had /\ b.base \notin Had'
    BY <2>2 DEF Had
  <2>5. \A k, l \in DOMAIN local : local[k] \in Had /\ local[l] \in received => k < l
    BY DEF Inv, OnceIsEnough, AfterFirst
  <2>6. ASSUME NEW x \in DOMAIN local', NEW y \in DOMAIN local', local'[x] \in Had', local'[y] \in received'
        PROVE  x < y
    <3>1. local'[x] # b.base /\ local'[x] \in Had
      BY <2>4, <2>6
    <3>2. CASE local'[y] = b.base
      BY <1>9, <3>1, <3>2
    <3>3. CASE local'[y] # b.base
      <4>1. local'[y] \in received
        BY <2>2, <2>6, <3>3
      <4>2. PICK k \in DOMAIN local, l \in DOMAIN local : local'[x] = local[k] /\ local'[y] = local[l] /\ (k < l => x < y)
        BY <1>9, <3>1, <3>3
      <4> QED BY <2>5, <3>1, <4>1, <4>2
    <3> QED BY <3>2, <3>3
  <2>7. BringsReplication' => BringsReplication
    BY <1>1 DEF BringsReplication
  <2>8. BringsReplication => ~below' /\ ToSet(local') \cap Had' \subseteq {job.source}
    <3>1. BringsReplication => ~below' /\ ToSet(local) \cap Had \subseteq {job.source}
      BY <1>8, <1>10 DEF ToSet
    <3> QED BY <1>9, <2>4, <3>1
  <2>9. b.base \in received' \cap ToSet(local')
    BY <1>9, <2>2
  <2> QED BY <1>1, <2>3, <2>6, <2>7, <2>8, <2>9 DEF AfterFirst
<1>15. exists'
  BY <1>5, <1>7
<1> QED BY <1>5, <1>7, <1>8, <1>9, <1>13, <1>14, <1>15, ReceivedInv DEF b

LEMMA ReceiveInv == ASSUME Inv, NEW how, Receive(how) PROVE Inv' /\ Spared
<1>1. /\ pc = "receive" /\ chain # <<>> /\ Listable(how)
      /\ ~Held(Last(chain), Listing(how)) /\ ~Refused(Last(chain), how)
  BY DEF Receive, Stepping
<1>2. CASE ~Applies(Last(chain))
  BY <1>2, StopInv DEF Receive, world, target, Spared
<1>3. CASE Applies(Last(chain))
  <2>1. /\ zfsReceive(Last(chain)) /\ received' = received \cup {Last(chain).base} /\ chain' = Front(chain)
        /\ UNCHANGED <<archive, want, opt, listed, seen, job, pc>>
    BY <1>3 DEF Receive, world
  <2>2. CASE IsFull(Last(chain)) \/ Clones(Last(chain))
    <3>1. zfsReceiveNew(Last(chain))
      BY <2>1, <2>2 DEF zfsReceive
    <3> QED BY <1>1, <1>3, <2>1, <2>2, <3>1, ReceiveNewInv
  <2>3. CASE ~(IsFull(Last(chain)) \/ Clones(Last(chain)))
    <3>1. zfsReceiveIncremental(Last(chain))
      BY <2>1, <2>3 DEF zfsReceive
    <3> QED BY <1>1, <1>3, <2>1, <2>3, <3>1, ReceiveIncrementalInv
  <2> QED BY <2>2, <2>3
<1> QED BY <1>2, <1>3

-----------------------------------------------------------------------------
(* Every step, and the theorems.                                           *)

LEMMA StutterInv == ASSUME Inv, UNCHANGED vars PROVE Inv'
<1> USE DEF vars
<1>1. TypeOK'
  BY DEF Inv, TypeOK
<1>2. TargetSound'
  BY DEF Inv, TargetSound, Sorted
<1>3. ListedStill'
  BY DEF Inv, ListedStill
<1>4. Linked'
  BY DEF Inv, Linked, isIn
<1>5. HeadIsAsked'
  BY DEF Inv, HeadIsAsked, Found, Restored, Asked, NameAsked, latest
<1>6. OnceIsEnough'
  BY DEF Inv, OnceIsEnough, BeforeFirst, AfterFirst, TwinSource, Guarded, BringsReplication, Had,
         refuseDestroy, snapshotsNotOlder, replicationLoss
<1> QED BY <1>1, <1>2, <1>3, <1>4, <1>5, <1>6 DEF Inv

LEMMA NextInv == Inv /\ [Next]_vars => Inv'
<1> SUFFICES ASSUME Inv, [Next]_vars PROVE Inv'
  OBVIOUS
<1>1. ASSUME NEW how \in {"there", "missing", "error"}, Start(how) PROVE Inv'
  BY <1>1, StartInv
<1>2. ASSUME NEW how \in {"there", "missing", "error"}, AlreadyThere(how) PROVE Inv'
  BY <1>2, AlreadyThereInv
<1>3. ASSUME NEW how \in {"there", "missing", "error"}, Receive(how) PROVE Inv'
  BY <1>3, ReceiveInv
<1>4. ASSUME NEW how \in {"there", "missing", "error"}, RefuseStep(how) PROVE Inv'
  BY <1>4, RefuseStepInv
<1>5. ASSUME NEW b \in Backups, StartExplicit(b) PROVE Inv'
  BY <1>5, StartExplicitInv
<1>6. CASE Walk
  BY <1>6, WalkInv
<1>7. CASE CheckChain
  BY <1>7, CheckChainInv
<1>8. CASE Finish
  BY <1>8, FinishInv
<1>9. CASE Interrupted
  BY <1>9, InterruptedInv
<1>10. ASSUME NEW s \in Taken, SnapshotTarget(s) PROVE Inv'
  BY <1>10, SnapshotTargetInv
<1>11. CASE UNCHANGED vars
  BY <1>11, StutterInv
<1> QED BY <1>1, <1>2, <1>3, <1>4, <1>5, <1>6, <1>7, <1>8, <1>9, <1>10, <1>11 DEF Next, Step, Terminated

\* The inductive invariant of a restore, explicit or --auto: what was listed stays true
\* until the first receive, the chain is linked and without a loop, and what the one check
\* of --auto established before the first receive holds in all of them.
THEOREM Invariance == Spec => []Inv
<1> QED BY InitInv, NextInv, PTL DEF Spec

\* Only a receive destroys anything.
LEMMA NextSpares == Inv /\ [Next]_vars => [Spared]_vars
<1> SUFFICES ASSUME Inv, [Next]_vars PROVE Spared
  OBVIOUS
<1>1. ASSUME NEW how \in {"there", "missing", "error"}, Receive(how) PROVE Spared
  BY <1>1, ReceiveInv
<1>2. ASSUME NEW how \in {"there", "missing", "error"}, Start(how) \/ AlreadyThere(how) \/ RefuseStep(how)
      PROVE  lost' = lost
  BY <1>2 DEF Start, AlreadyThere, RefuseStep, Fail, target
<1>3. ASSUME NEW b \in Backups, StartExplicit(b) PROVE lost' = lost
  BY <1>3 DEF StartExplicit, Fail, target
<1>4. CASE Walk \/ CheckChain \/ Finish
  <2>1. lost' = lost
    BY <1>4 DEF Walk, CheckChain, Finish, Fail, target
  <2> QED BY <2>1 DEF Spared
<1>5. ASSUME NEW s \in Taken, SnapshotTarget(s) PROVE lost' = lost
  BY <1>5 DEF SnapshotTarget
<1>6. CASE Interrupted \/ UNCHANGED vars
  <2>1. lost' = lost
    BY <1>6 DEF Interrupted, target, vars
  <2> QED BY <2>1 DEF Spared
<1>7. lost' = lost => Spared
  BY DEF Spared
<1> QED BY <1>1, <1>2, <1>3, <1>4, <1>5, <1>6, <1>7 DEF Next, Step, Terminated

\* What refuseDestroy and refuseUnlistedTarget are worth: without --allowDestroy no receive
\* of a run destroys a snapshot the target had, a dataset below it or the data of a target
\* without snapshots, whatever the chain, the times of the snapshots, the failures and the
\* snapshots taken meanwhile; but for the snapshot the chain started from, which a later
\* --replication step may destroy.
THEOREM OnlyTheSourceIsUnasked == Spec => DestroysOnlyAsked
<1> QED BY Invariance, NextSpares, PTL DEF Spec, DestroysOnlyAsked

\* A receive --auto that reports success leaves the snapshot of a backup asked for on the
\* target, whether it was there before (refuseOtherGUID) or came with the chain: of one with
\* the name given, or else with the name of the latest; the very one if the manifest has its
\* guid, one of its name and time if not.
THEOREM RestoredIsWhatWasAsked == Spec => []RestoredIsAsked
<1>1. Inv => RestoredIsAsked
  BY DEF Inv, HeadIsAsked, Found, RestoredIsAsked
<1> QED BY <1>1, Invariance, PTL

\* Where no two snapshots that were backed up have the latest one's name, and the manifests
\* record guids, it is the latest itself.
LatestIfUnambiguous ==
    /\ pc = "done" /\ opt.auto /\ want = ""
    /\ \A b \in archive : b.base.name = latest.base.name => b.base = latest.base /\ b.recorded
    => latest.base \in ToSet(local)

\* A receive --auto without a snapshot name then restores the newest snapshot backed up: the
\* choice by name alone errs only where a name was used again.
THEOREM LatestIsTheLatest == Spec => []LatestIfUnambiguous
<1>1. Inv => LatestIfUnambiguous
  <2> SUFFICES ASSUME Inv, pc = "done", opt.auto, want = "",
                      \A b \in archive : b.base.name = latest.base.name => b.base = latest.base /\ b.recorded
               PROVE  latest.base \in ToSet(local)
    BY DEF LatestIfUnambiguous
  <2>1. PICK b \in archive : Asked(b) /\ Restored(b)
    BY DEF Inv, HeadIsAsked, Found
  <2>2. b.base = latest.base /\ b.recorded
    BY <2>1 DEF Asked, NameAsked
  <2> QED BY <2>1, <2>2 DEF Restored
<1> QED BY <1>1, Invariance, PTL

\* A chain as it is built and used up: no longer than there are backups, each of the
\* source of the one before it.
ChainSound ==
    pc \in Running => /\ Len(chain) <= Cardinality(Backups)
                     /\ \A i \in 1..(Len(chain) - 1) : Same(chain[i + 1].base, chain[i].source)

\* The walk of receive --auto repeats no backup, even where the parent links of the
\* manifests form a loop, and every link of the chain fits.
THEOREM ChainIsSound == Spec => []ChainSound
<1>1. Inv => ChainSound
  <2> SUFFICES ASSUME Inv, pc \in Running PROVE ChainSound
    BY DEF ChainSound
  <2>1. Len(chain) <= Cardinality(Backups)
    BY ChainBound
  <2>2. \A i \in 1..(Len(chain) - 1) : Same(chain[i + 1].base, chain[i].source)
    BY DEF Inv, Linked
  <2> QED BY <2>1, <2>2 DEF ChainSound
<1> QED BY <1>1, Invariance, PTL
=============================================================================
