-------------------------- MODULE BackupSetProofs --------------------------
(***************************************************************************)
(* Machine-checked proofs about BackupSet, for every set of destinations,  *)
(* jobs and streams, every stream length, buffer and number of attempts.   *)
(***************************************************************************)
EXTENDS BackupSet, FiniteSetTheorems, TLAPS

\* A command line's list of destinations is a non-empty sequence without
\* repetitions.
LEMMA OrdersType ==
    ASSUME NEW ds \in Orders
    PROVE  ds \in Seq(Dest) /\ Len(ds) > 0 /\ IsInjective(ds)
<1>1. PICK n \in 1..Cardinality(Dest) : ds \in [1..n -> Dest]
  BY DEF Orders
<1>2. n \in Nat /\ n > 0
  BY <1>1, FS_CardinalityType, DestAssumption DEF DestAssumption
<1>3. IsInjective(ds)
  BY DEF Orders
<1> QED
  BY <1>1, <1>2, <1>3

\* An action that ends the run leaves only durable state to account for.
\* The part of the invariant that is about durable state, when a step leaves
\* the durable state alone.
LEMMA DurableSame ==
    ASSUME Inv, UNCHANGED durable
    PROVE  CacheSound' /\ PublishedMatches' /\ ManifestsGood'
<1> USE DEF Inv, durable
<1>1. CacheSound'
  BY DEF CacheSound, CachedVolumes, Readable
<1>2. PublishedMatches'
  BY DEF PublishedMatches, verifyVolumesAt
<1>3. ManifestsGood'
  BY DEF ManifestsGood
<1> QED
  BY <1>1, <1>2, <1>3

\* A step that ends the run has only the durable state to account for.
LEMMA EndRunInv ==
    ASSUME TypeOK, EndRun,
           object' \in [Dest -> [Num -> Volume \cup {None, Truncated}]],
           manifest' \in [Dest -> Manifest \cup {None, Truncated}],
           cache' \in [Dest -> Manifest \cup {None, Truncated}],
           CacheSound', PublishedMatches', ManifestsGood'
    PROVE  Inv'
<1> USE BoundAssumption DEF BoundAssumption, EndRun
<1>1. TypeOK'
  BY DEF TypeOK, PC, Mode, UploadState
<1>2. RunShape' /\ Unpublished' /\ VolumesThere' /\ LineThere' /\ CacheOfRun' /\ PiecesGood'
  BY DEF RunShape, Unpublished, VolumesThere, LineThere, CacheOfRun, PiecesGood
<1> QED
  BY <1>1, <1>2 DEF Inv

\* ... and nothing at all when it leaves the durable state alone.
LEMMA StopInv ==
    ASSUME Inv, EndRun, UNCHANGED durable
    PROVE  Inv'
<1>1. CacheSound' /\ PublishedMatches' /\ ManifestsGood'
  BY DurableSame
<1> QED
  BY <1>1, EndRunInv DEF Inv, TypeOK, durable

\* Before the first send every destination and every cache is empty.
LEMMA InitInv == Init => Inv
<1> SUFFICES ASSUME Init PROVE Inv
  OBVIOUS
<1> USE BoundAssumption, NoneAssumption
    DEF BoundAssumption, NoneAssumption, Init, NoRun
<1>1. TypeOK
  BY DEF TypeOK, PC, Mode, UploadState
<1>2. CacheSound /\ PublishedMatches /\ ManifestsGood
  BY DEF CacheSound, PublishedMatches, ManifestsGood, CachedVolumes, Readable
<1>3. RunShape /\ Unpublished /\ VolumesThere /\ LineThere /\ CacheOfRun /\ PiecesGood
  BY DEF RunShape, Unpublished, VolumesThere, LineThere, CacheOfRun, PiecesGood
<1> QED
  BY <1>1, <1>2, <1>3 DEF Inv

-----------------------------------------------------------------------------
(* One lemma per action.                                                   *)

\* A new run starts with nothing kept and nothing recorded.
LEMMA TryLockInv ==
    ASSUME Inv, NEW ds \in Orders, NEW m \in Mode, NEW j \in Job \cup {None},
           TryLock(ds, m, j)
    PROVE  Inv'
<1> USE DEF Inv, TryLock
<1>1. TypeOK'
  BY OrdersType DEF TypeOK, PC, durable
<1>2. CacheSound' /\ PublishedMatches' /\ ManifestsGood'
  BY DurableSame
<1>3. RunShape' /\ LineThere'
  BY OrdersType DEF RunShape, LineThere
<1>4. Unpublished' /\ VolumesThere' /\ CacheOfRun' /\ PiecesGood'
  BY DEF Unpublished, VolumesThere, CacheOfRun, PiecesGood
<1> QED
  BY <1>1, <1>2, <1>3, <1>4

\* refuseExistingSet goes on only when no destination of the run has the
\* manifest; Unpublished holds from here to the first manifest upload.
LEMMA NewSetInv == ASSUME Inv, NewSet PROVE Inv'
<1> USE DEF Inv, NewSet
<1>1. TypeOK'
  BY DEF TypeOK, PC, Mode, durable
<1>2. CacheSound' /\ PublishedMatches' /\ ManifestsGood'
  BY DurableSame
<1>3. RunShape' /\ LineThere'
  BY DEF TypeOK, RunShape, LineThere
<1>4. Unpublished'
  BY DEF TypeOK, Unpublished, Have, durable
<1>5. VolumesThere' /\ CacheOfRun' /\ PiecesGood'
  BY DEF VolumesThere, CacheOfRun, PiecesGood
<1> QED
  BY <1>1, <1>2, <1>3, <1>4, <1>5

\* A refusal leaves everything as it was.
LEMMA RefuseSetInv == ASSUME Inv, RefuseSet PROVE Inv'
BY StopInv DEF RefuseSet

\* copyManifest: the manifest it spreads is a published one, and the volumes
\* were compared, by SHA-256, at each destination it goes to.
LEMMA CopyManifestInv ==
    ASSUME Inv, NEW first \in DOMAIN dests, CopyManifest(first)
    PROVE  Inv'
<1> DEFINE m == manifest[dests[first]]
<1>1. CASE EndRun
  BY <1>1, StopInv DEF CopyManifest
<1>2. CASE ~EndRun
  <2> USE DEF Inv
  <2>1. /\ m # Truncated
        /\ \A i \in Missing : verifyVolumesAt(dests[i], m)
        /\ pc = "refuse" /\ pc' = "complete"
        /\ step' = 1
        /\ job' = m.job /\ vols' = m.vols /\ kind' = m.kind
        /\ UNCHANGED <<durable, dests, mode, stream, volNum, cut, line, upload, att>>
        /\ first \in Have /\ Missing # {}
    BY <1>2 DEF CopyManifest
  <2>2. PICK ts \in Orders : InOrder(ts, Missing) /\ targets' = ts
    BY <1>2 DEF CopyManifest
  <2>3. ts \in Seq(Dest) /\ Len(ts) > 0 /\ IsInjective(ts)
    BY <2>2, OrdersType
  <2>5. m \in Manifest
    BY <2>1 DEF TypeOK, Have
  <2>6. GoodManifest(m) /\ m.kind = "final"
    BY <2>5 DEF ManifestsGood, TypeOK
  <2>7. ASSUME NEW i \in 1..Len(ts)
        PROVE  ts[i] \in Dest /\ manifest[ts[i]] = None /\ verifyVolumesAt(ts[i], m)
    <3>1. PICK k \in Missing : ts[i] = dests[k]
      BY <2>2, <2>3 DEF InOrder, Range
    <3> QED
      BY <3>1, <2>1 DEF Missing, Have, TypeOK
  <2>8. TypeOK'
    BY <2>1, <2>2, <2>3, <2>5 DEF TypeOK, PC, durable, Manifest
  <2>9. CacheSound' /\ PublishedMatches' /\ ManifestsGood'
    BY <2>1, DurableSame
  <2>10. RunShape' /\ LineThere'
    BY <2>1, <2>2, <2>3, <2>5, <2>6 DEF RunShape, LineThere, Manifest
  <2>11. Unpublished'
    <3>1. \A i \in 1..Len(ts) : manifest'[ts[i]] = None
      BY <2>1, <2>7 DEF durable
    <3> QED
      BY <2>1, <2>2, <2>3, <3>1 DEF Unpublished, RunShape, TypeOK, UploadState
  <2>12. VolumesThere'
    BY <2>1, <2>2, <2>7 DEF VolumesThere, verifyVolumesAt, durable
  <2>13. CacheOfRun' /\ PiecesGood'
    <3>1. JobInfo' = m
      BY <2>1, <2>5 DEF JobInfo, Manifest
    <3> QED
      BY <2>1, <2>6, <3>1 DEF CacheOfRun, PiecesGood
  <2> QED
    BY <2>8, <2>9, <2>10, <2>11, <2>12, <2>13
<1> QED
  BY <1>1, <1>2

\* A resume without a usable cache goes on like a fresh attempt.
LEMMA ResumeNothingInv == ASSUME Inv, ResumeNothing PROVE Inv'
<1> USE DEF Inv, ResumeNothing
<1>1. TypeOK'
  BY DEF TypeOK, PC, durable
<1>2. CacheSound' /\ PublishedMatches' /\ ManifestsGood'
  BY DurableSame
<1>3. RunShape' /\ LineThere'
  BY DEF TypeOK, RunShape, LineThere
<1>4. Unpublished' /\ CacheOfRun'
  BY DEF TypeOK, Unpublished, CacheOfRun, durable
<1>5. VolumesThere' /\ PiecesGood'
  BY DEF VolumesThere, PiecesGood
<1> QED
  BY <1>1, <1>2, <1>3, <1>4, <1>5

\* A resume of another stream ends the run before it touched anything.
LEMMA ResumeMismatchInv == ASSUME Inv, ResumeMismatch PROVE Inv'
BY StopInv DEF ResumeMismatch

\* tryResume: a kept volume is in the cache of every destination of the run, so
\* each cache vouches for its own copy, and verifiedVolumes saw that copy there.
LEMMA ResumeKeptInv ==
    ASSUME Inv, NEW keep \in Num, ResumeKept(keep)
    PROVE  Inv'
<1> DEFINE m    == cache[dests[1]]
           kept == {x \in m.vols : x.num <= keep}
<1> USE DEF Inv
<1>1. /\ pc = "resume" /\ Readable(m) /\ m.job = job /\ job # None
      /\ CanKeep(keep)
      /\ vols' = kept /\ step' = 1 /\ volNum' = keep + 1
      /\ UNCHANGED <<durable, att, dests, mode, job, stream, cut, line, upload>>
  BY DEF ResumeKept, sameStream
<1>2. Len(dests) > 0 /\ dests[1] \in Dest /\ IsInjective(dests)
  BY <1>1 DEF RunShape, TypeOK
<1>3. m \in Manifest /\ GoodManifest(m) /\ kept \subseteq m.vols
  BY <1>1, <1>2 DEF TypeOK, ManifestsGood, Readable
<1>4. CachedVolumes(dests[1]) = m.vols
  BY <1>1 DEF CachedVolumes, Readable
<1>5. \A i \in 1..Len(dests) : \A x \in kept : object[dests[i]][x.num] = x
  <2> SUFFICES ASSUME NEW i \in 1..Len(dests), NEW x \in kept
               PROVE  object[dests[i]][x.num] = x
    OBVIOUS
  <2>1. x \in CachedVolumes(dests[i])
    <3>1. CASE i = 1
      BY <3>1, <1>4
    <3>2. CASE i # 1
      <4>1. i \in 2..Len(dests)
        BY <3>2, <1>2 DEF TypeOK
      <4>2. cachedAtEveryDestination(m.vols, keep)
        BY <1>1, <1>4 DEF CanKeep
      <4> QED
        BY <4>1, <4>2 DEF cachedAtEveryDestination
    <3> QED
      BY <3>1, <3>2
  <2>2. dests[i] \in Dest
    BY DEF TypeOK
  <2>3. x.num \in Num /\ object[dests[i]][x.num] \in {None, x}
    BY <2>1, <2>2 DEF CacheSound
  <2>4. object[dests[i]][x.num] # None
    BY <1>1, <2>3 DEF CanKeep, verifiedVolumes, Range, Num, MaxVolumes, TypeOK
  <2> QED
    BY <2>3, <2>4
<1>6. Coherent(kept) /\ \A x \in kept : x.str.job = job
  BY <1>1, <1>3 DEF GoodManifest, Coherent
<1>7. Numbers(kept) = 1..keep
  <2>1. \A x \in kept : x.num \in 1..keep
    BY <1>3 DEF GoodManifest, Coherent, Num, MaxVolumes
  <2>2. \A n \in 1..keep : \E x \in m.vols : x.num = n
    BY <1>1, <1>4 DEF CanKeep, verifiedVolumes
  <2> QED
    BY <2>1, <2>2 DEF Numbers, Num, MaxVolumes
<1>8. CacheSound' /\ PublishedMatches' /\ ManifestsGood'
  BY <1>1, DurableSame
<1>9. CASE m.kind = "final" /\ kept = m.vols
  <2>1. pc' = "complete" /\ targets' = dests /\ kind' = "final"
    BY <1>9 DEF ResumeKept
  <2>2. TypeOK'
    BY <1>1, <1>3, <2>1 DEF TypeOK, PC, Num, MaxVolumes, Manifest, durable
  <2>3. RunShape' /\ LineThere'
    BY <1>1, <1>2, <2>1 DEF RunShape, LineThere, TypeOK
  <2>4. Unpublished'
    BY <1>1, <1>2, <2>1 DEF Unpublished, RunShape, TypeOK, UploadState, durable
  <2>5. VolumesThere'
    BY <1>1, <1>5, <2>1 DEF VolumesThere, durable
  <2>6. CacheOfRun' /\ PiecesGood'
    <3>1. JobInfo' = m
      BY <1>1, <1>3, <1>9, <2>1 DEF JobInfo, Manifest
    <3> QED
      BY <1>3, <2>1, <3>1 DEF CacheOfRun, PiecesGood
  <2> QED
    BY <1>8, <2>2, <2>3, <2>4, <2>5, <2>6
<1>10. CASE ~(m.kind = "final" /\ kept = m.vols)
  <2>1. pc' = "keep" /\ UNCHANGED <<targets, kind>>
    BY <1>10 DEF ResumeKept
  <2>2. TypeOK'
    BY <1>1, <1>3, <2>1 DEF TypeOK, PC, Num, MaxVolumes, Manifest, durable
  <2>3. RunShape' /\ LineThere'
    BY <1>1, <1>2, <2>1 DEF RunShape, LineThere, TypeOK
  <2>4. Unpublished' /\ CacheOfRun'
    BY <1>1, <1>2, <2>1 DEF Unpublished, CacheOfRun, TypeOK, durable
  <2>5. VolumesThere'
    BY <1>1, <1>5, <2>1 DEF VolumesThere, durable
  <2>6. PiecesGood'
    <3>1. line' = {}
      BY <1>1 DEF RunShape
    <3>2. Pieces' = kept
      BY <1>1, <3>1 DEF Pieces
    <3> QED
      BY <1>1, <1>6, <1>7, <2>1, <3>2, BoundAssumption
      DEF PiecesGood, Num, MaxVolumes, BoundAssumption
  <2> QED
    BY <1>8, <2>2, <2>3, <2>4, <2>5, <2>6
<1> QED
  BY <1>9, <1>10

\* discardPartialManifests: when it is done, the run's caches are empty.
LEMMA DiscardInv == ASSUME Inv, DiscardPartialManifest PROVE Inv'
<1> USE BoundAssumption, NoneAssumption
    DEF Inv, DiscardPartialManifest, BoundAssumption, NoneAssumption
<1>1. TypeOK'
  BY DEF TypeOK, RunShape, PC
<1>2. CacheSound'
  BY DEF TypeOK, CacheSound, CachedVolumes, Readable
<1>3. PublishedMatches'
  BY DEF PublishedMatches, verifyVolumesAt
<1>4. ManifestsGood'
  BY DEF TypeOK, ManifestsGood
<1>5. RunShape' /\ LineThere'
  BY DEF TypeOK, RunShape, LineThere
<1>6. Unpublished' /\ VolumesThere'
  BY DEF TypeOK, RunShape, Unpublished, VolumesThere
<1>7. CacheOfRun'
  BY DEF TypeOK, RunShape, CacheOfRun, CachedVolumes, Readable
<1>8. PiecesGood'
  BY DEF RunShape, PiecesGood, Pieces, Coherent, Numbers
<1> QED
  BY <1>1, <1>2, <1>3, <1>4, <1>5, <1>6, <1>7, <1>8

\* sendStream after the skip: what was kept is a piece of this very stream.
LEMMA StartStreamInv ==
    ASSUME Inv, NEW s \in Stream, StartStream(s)
    PROVE  Inv'
<1> DEFINE last == LastKept
<1>1. CASE EndRun
  BY <1>1, StopInv DEF StartStream
<1>2. CASE ~EndRun
  <2> USE BoundAssumption DEF Inv, BoundAssumption
  <2>1. /\ pc = "start" /\ pc' = "send" /\ s.job = job /\ stream' = s
        /\ att < MaxAttempts /\ att' = att + 1
        /\ vols = {} \/ last.str = s
        /\ cut' = IF vols = {} THEN 0 ELSE last.hi
        /\ UNCHANGED <<durable, dests, mode, job, vols, kind, volNum, line, step,
                       targets, upload>>
    BY <1>2 DEF StartStream, SkippedBytesMatch
  <2>2. line = {} /\ Pieces = vols /\ Pieces' = vols
    BY <2>1 DEF RunShape, Pieces
  <2>3. /\ Coherent(vols) /\ volNum \in 1..(StreamLen + 1)
        /\ Numbers(vols) = 1..(volNum - 1)
        /\ \A x \in vols : x.str.job = job
    BY <2>1, <2>2 DEF PiecesGood
  <2>4. vols = {} => volNum = 1
    BY <2>3 DEF Numbers
  <2>5. vols # {} => last \in vols /\ last.num = volNum - 1
    <3>1. ASSUME vols # {} PROVE \E x \in vols : x.num = volNum - 1
      <4>1. PICK y \in vols : y.num \in 1..(volNum - 1)
        BY <3>1, <2>3 DEF Numbers
      <4>2. volNum - 1 \in Numbers(vols)
        BY <4>1, <2>3
      <4> QED
        BY <4>2 DEF Numbers
    <3> QED
      BY <3>1 DEF LastKept
  <2>6. vols # {} => last.hi \in 0..StreamLen /\ volNum > 1
    BY <2>3, <2>5, SMTT(30) DEF Coherent, TypeOK, Num, MaxVolumes, Volume
  <2>7. \A x \in vols : x.str = s /\ (x.num = volNum - 1 => x.hi = cut')
    BY <2>1, <2>3, <2>5 DEF Coherent
  <2>8. TypeOK'
    BY <2>1, <2>6 DEF TypeOK, PC, durable
  <2>9. CacheSound' /\ PublishedMatches' /\ ManifestsGood'
    BY <2>1, DurableSame
  <2>10. RunShape' /\ LineThere'
    BY <2>1, <2>2 DEF RunShape, LineThere, TypeOK, Stream, NoneAssumption
  <2>11. Unpublished' /\ CacheOfRun' /\ VolumesThere'
    BY <2>1 DEF Unpublished, CacheOfRun, CachedVolumes, Readable, VolumesThere, durable
  <2>12. PiecesGood'
    BY <2>1, <2>2, <2>3, <2>4, <2>6, <2>7 DEF PiecesGood
  <2> QED
    BY <2>8, <2>9, <2>10, <2>11, <2>12
<1> QED
  BY <1>1, <1>2

\* The volumes of the line with one entry more.
LEMMA VolumesOfMore ==
    ASSUME NEW L, NEW e
    PROVE  {f.vol : f \in L \cup {e}} = {f.vol : f \in L} \cup {e.vol}
OBVIOUS

\* Adding a volume adds its number.
LEMMA NumbersOfMore ==
    ASSUME NEW S, NEW v
    PROVE  Numbers(S \cup {v}) = Numbers(S) \cup {v.num}
BY DEF Numbers

\* 1..n is 1..(n-1) and n.
LEMMA IntervalOfMore ==
    ASSUME NEW n \in Nat \ {0}
    PROVE  1..n = (1..(n - 1)) \cup {n}
OBVIOUS

\* The splitter: a new number, from where the last volume ended.
LEMMA CutVolumeInv ==
    ASSUME Inv, NEW hi \in 1..StreamLen, CutVolume(hi)
    PROVE  Inv'
<1> DEFINE v == [num |-> volNum, att |-> att, str |-> stream, lo |-> cut, hi |-> hi]
           e == [vol |-> v, pos |-> 1, upload |-> "waiting"]
<1> USE BoundAssumption DEF Inv, BoundAssumption
<1>1. /\ pc = "send" /\ cut < hi
      /\ line' = line \cup {e} /\ volNum' = volNum + 1 /\ cut' = hi
      /\ UNCHANGED <<durable, pc, att, dests, mode, job, vols, kind, stream, step,
                     targets, upload>>
  BY DEF CutVolume, MoreToCut
<1>2. /\ Coherent(Pieces) /\ volNum \in 1..(StreamLen + 1)
      /\ Numbers(Pieces) = 1..(volNum - 1)
      /\ \A x \in Pieces : x.str = stream /\ (x.num = volNum - 1 => x.hi = cut)
      /\ volNum = 1 => cut = 0
      /\ stream.job = job /\ stream \in Stream
  BY <1>1 DEF PiecesGood, RunShape
<1>3. volNum - 1 <= cut
  <2>1. CASE volNum = 1
    BY <2>1 DEF TypeOK
  <2>2. CASE volNum # 1
    <3>1. PICK x \in Pieces : x.num = volNum - 1
      BY <2>2, <1>2 DEF Numbers
    <3> QED
      BY <3>1, <1>2 DEF Coherent
  <2> QED
    BY <2>1, <2>2
<1>4. v \in Volume /\ v.num \in Num /\ volNum <= hi
  BY <1>1, <1>2, <1>3 DEF Volume, TypeOK, Num, MaxVolumes
<1>5. e \in InFlight
  BY <1>4 DEF InFlight, UploadState
<1>6. Pieces' = Pieces \cup {v}
  <2>1. {f.vol : f \in line \cup {e}} = {f.vol : f \in line} \cup {e.vol}
    BY VolumesOfMore
  <2>2. e.vol = v
    OBVIOUS
  <2> QED
    BY <1>1, <2>1, <2>2 DEF Pieces
<1>7. \A x \in Pieces : x.num \in 1..(volNum - 1)
  BY <1>2 DEF Numbers
<1>8. TypeOK'
  BY <1>1, <1>2, <1>5 DEF TypeOK, durable
<1>9. CacheSound' /\ PublishedMatches' /\ ManifestsGood'
  BY <1>1, DurableSame
<1>10. RunShape' /\ Unpublished' /\ VolumesThere' /\ CacheOfRun'
  BY <1>1 DEF RunShape, Unpublished, VolumesThere, CacheOfRun, CachedVolumes, Readable, durable
<1>11. LineThere'
  <2>1. \A x \in vols : x.num # volNum
    BY <1>2, <1>7 DEF Pieces
  <2>2. \A f \in line : f.vol.num # volNum
    BY <1>2, <1>7 DEF Pieces
  <2>3. Len(dests) \in Nat
    BY DEF TypeOK
  <2> QED
    BY <1>1, <2>1, <2>2, <2>3 DEF LineThere, Numbers, durable
<1>12. PiecesGood'
  <2>1. Coherent(Pieces \cup {v})
    <3>1. ASSUME NEW x \in Pieces
          PROVE  /\ x.num < volNum /\ x.num \in Nat
                 /\ x.str = v.str /\ (volNum = x.num + 1 => v.lo = x.hi)
      BY <1>2, <1>7
    <3>2. v.num = 1 => v.lo = 0
      BY <1>2
    <3> QED
      BY <1>2, <1>4, <3>1, <3>2 DEF Coherent
  <2>2. Numbers(Pieces \cup {v}) = 1..volNum
    <3>1. Numbers(Pieces \cup {v}) = Numbers(Pieces) \cup {volNum}
      BY NumbersOfMore
    <3>2. 1..volNum = (1..(volNum - 1)) \cup {volNum}
      BY <1>2, IntervalOfMore
    <3> QED
      BY <1>2, <3>1, <3>2
  <2>3. \A x \in Pieces \cup {v} : x.str = stream /\ (x.num = volNum => x.hi = hi)
    BY <1>2, <1>7
  <2>4. volNum + 1 \in 1..(StreamLen + 1) /\ volNum + 1 # 1
    BY <1>2, <1>4
  <2> QED
    BY <1>1, <1>2, <1>6, <2>1, <2>2, <2>3, <2>4 DEF PiecesGood
<1> QED
  BY <1>8, <1>9, <1>10, <1>11, <1>12

\* Whatever an upload step does to the one object it writes, it disturbs neither
\* the volumes recorded, nor what any cache lists, nor a published set.
LEMMA UploadFrame ==
    ASSUME Inv, pc = "send", NEW e \in line, e.pos <= Len(dests),
           UNCHANGED <<manifest, cache, dests, vols>>,
           \A d \in Dest, n \in Num :
              d # dests[e.pos] \/ n # e.vol.num => object'[d][n] = object[d][n]
    PROVE  /\ CacheSound' /\ PublishedMatches' /\ ManifestsGood'
           /\ \A i \in 1..Len(dests) : \A x \in vols : object'[dests[i]][x.num] = x
           /\ \A f \in line : \A i \in 1..(f.pos - 1) :
                 f # e \/ i # e.pos => object'[dests[i]][f.vol.num] = f.vol
<1> USE DEF Inv
<1>1. e.pos \in 1..Len(dests) /\ dests[e.pos] \in Dest
  BY DEF TypeOK, InFlight
<1>2. IsInjective(dests) /\ DOMAIN dests = 1..Len(dests) /\ Len(dests) \in Nat
  BY DEF RunShape, TypeOK
<1>3. \A x \in Pieces : x.num \in Num
  BY DEF PiecesGood, Coherent
<1>4. \A x \in vols : x.num # e.vol.num /\ x.num \in Num
  BY <1>3 DEF LineThere, Numbers, Pieces
<1>5. \A i \in 1..Len(dests) : \A x \in vols : object'[dests[i]][x.num] = x
  <2> SUFFICES ASSUME NEW i \in 1..Len(dests), NEW x \in vols
               PROVE  object'[dests[i]][x.num] = x
    OBVIOUS
  <2>1. object[dests[i]][x.num] = x
    BY DEF VolumesThere
  <2>2. dests[i] \in Dest
    BY DEF TypeOK
  <2> QED
    BY <2>1, <2>2, <1>4
<1>6. CacheSound'
  <2> SUFFICES ASSUME NEW d \in Dest, NEW x \in CachedVolumes(d)
               PROVE  x.num \in Num /\ object'[d][x.num] \in {None, x}
    BY DEF CacheSound, CachedVolumes, Readable
  <2>1. x.num \in Num /\ object[d][x.num] \in {None, x}
    BY DEF CacheSound
  <2>2. CASE d = dests[e.pos]
    <3>1. x \in vols
      BY <1>1, <2>2 DEF CacheOfRun
    <3> QED
      BY <2>1, <3>1, <1>4
  <2>3. CASE d # dests[e.pos]
    BY <2>1, <2>3
  <2> QED
    BY <2>2, <2>3
<1>7. PublishedMatches'
  <2> SUFFICES ASSUME NEW d \in Dest, manifest[d] \in Manifest,
                      NEW x \in manifest[d].vols
               PROVE  x.num \in Num /\ object'[d][x.num] = x
    BY DEF PublishedMatches, verifyVolumesAt
  <2>1. x.num \in Num /\ object[d][x.num] = x
    BY DEF PublishedMatches, verifyVolumesAt
  <2>2. d # dests[e.pos]
    BY <1>1, NoneAssumption DEF Unpublished, NoneAssumption
  <2> QED
    BY <2>1, <2>2
<1>8. ManifestsGood'
  BY DEF ManifestsGood
<1>9. ASSUME NEW f \in line, NEW i \in 1..(f.pos - 1), f # e \/ i # e.pos
      PROVE  object'[dests[i]][f.vol.num] = f.vol
  <2>1. object[dests[i]][f.vol.num] = f.vol
    BY DEF LineThere
  <2>2. i \in 1..Len(dests) /\ dests[i] \in Dest
    BY <1>2 DEF LineThere, TypeOK
  <2>3. f.vol.num \in Num
    BY <1>3 DEF Pieces
  <2>4. f.vol.num # e.vol.num \/ dests[i] # dests[e.pos]
    BY <1>1, <1>2, <1>9, <2>2 DEF LineThere, IsInjective
  <2> QED
    BY <2>1, <2>2, <2>3, <2>4
<1> QED
  BY <1>5, <1>6, <1>7, <1>8, <1>9

\* The rest of the invariant, when one entry of the line is replaced by another
\* of the same volume.
LEMMA LineFrame ==
    ASSUME Inv, pc = "send", NEW e \in line, NEW g \in InFlight, g.vol = e.vol,
           line' = (line \ {e}) \cup {g},
           UNCHANGED <<manifest, cache, pc, att, dests, mode, job, vols, kind,
                       stream, volNum, cut, step, targets, upload>>
    PROVE  RunShape' /\ Unpublished' /\ CacheOfRun' /\ PiecesGood'
<1> USE DEF Inv
<1>1. Pieces' = Pieces
  <2>1. {f.vol : f \in line'} = {f.vol : f \in line}
    OBVIOUS
  <2> QED
    BY <2>1 DEF Pieces
<1>2. PiecesGood'
  BY <1>1 DEF PiecesGood
<1>3. RunShape' /\ Unpublished' /\ CacheOfRun'
  BY DEF RunShape, Unpublished, CacheOfRun, CachedVolumes, Readable
<1> QED
  BY <1>2, <1>3

\* What is said of the volumes in flight, when one of them moves on.
LEMMA LineThereFrame ==
    ASSUME Inv, NEW e \in line, NEW g, g.vol = e.vol,
           line' = (line \ {e}) \cup {g},
           UNCHANGED <<dests, vols>>,
           g.pos \in 1..(Len(dests) + 1),
           g.upload = "uploading" => g.pos <= Len(dests),
           \A i \in 1..(g.pos - 1) : object'[dests[i]][g.vol.num] = g.vol,
           \A f \in line \ {e} : \A i \in 1..(f.pos - 1) :
              object'[dests[i]][f.vol.num] = f.vol
    PROVE  LineThere'
BY DEF Inv, LineThere

\* The beginning of an upload may destroy only the object it replaces, which
\* no cache and no manifest lists.
LEMMA StartUploadInv ==
    ASSUME Inv, NEW e \in line, StartUpload(e)
    PROVE  Inv'
<1> DEFINE g == [e EXCEPT !.upload = "uploading"]
<1> USE DEF Inv, StartUpload
<1>1. e \in InFlight /\ e.pos \in 1..Len(dests) /\ e.vol.num \in Num
  BY DEF TypeOK, InFlight, PiecesGood, Pieces, Coherent
<1>2. g \in InFlight /\ g.vol = e.vol /\ g.pos = e.pos
  BY <1>1 DEF InFlight, UploadState
<1>3. TypeOK'
  BY <1>1, <1>2 DEF TypeOK
<1>4. \A d \in Dest, n \in Num :
        d # dests[e.pos] \/ n # e.vol.num => object'[d][n] = object[d][n]
  BY <1>1 DEF TypeOK
<1>5. /\ CacheSound' /\ PublishedMatches' /\ ManifestsGood'
      /\ \A i \in 1..Len(dests) : \A x \in vols : object'[dests[i]][x.num] = x
      /\ \A f \in line : \A i \in 1..(f.pos - 1) :
            f # e \/ i # e.pos => object'[dests[i]][f.vol.num] = f.vol
  BY <1>1, <1>4, UploadFrame
<1>6. RunShape' /\ Unpublished' /\ CacheOfRun' /\ PiecesGood'
  BY <1>1, <1>2, LineFrame
<1>7. VolumesThere'
  BY <1>5 DEF VolumesThere
<1>8. LineThere'
  <2>1. \A i \in 1..(g.pos - 1) : object'[dests[i]][g.vol.num] = g.vol
    BY <1>1, <1>2, <1>5
  <2>2. /\ g.pos \in 1..(Len(dests) + 1) /\ g.pos <= Len(dests)
        /\ g.vol.num \notin Numbers(vols)
    BY <1>1, <1>2 DEF LineThere, TypeOK
  <2> QED
    BY <1>1, <1>2, <1>5, <2>1, <2>2, LineThereFrame, ZenonT(30)
<1> QED
  BY <1>3, <1>5, <1>6, <1>7, <1>8

\* A failed upload leaves that object missing, and nothing else.
LEMMA FailUploadInv ==
    ASSUME Inv, NEW e \in line, FailUpload(e)
    PROVE  Inv'
<1> DEFINE g == [e EXCEPT !.upload = "waiting"]
<1> USE DEF Inv, FailUpload
<1>1. e \in InFlight /\ e.pos \in 1..Len(dests) /\ e.vol.num \in Num
  BY DEF TypeOK, InFlight, PiecesGood, Pieces, Coherent, LineThere
<1>2. g \in InFlight /\ g.vol = e.vol /\ g.pos = e.pos /\ g.upload = "waiting"
  BY <1>1 DEF InFlight, UploadState
<1>3. TypeOK'
  BY <1>1, <1>2 DEF TypeOK
<1>4. \A d \in Dest, n \in Num :
        d # dests[e.pos] \/ n # e.vol.num => object'[d][n] = object[d][n]
  BY <1>1 DEF TypeOK
<1>5. /\ CacheSound' /\ PublishedMatches' /\ ManifestsGood'
      /\ \A i \in 1..Len(dests) : \A x \in vols : object'[dests[i]][x.num] = x
      /\ \A f \in line : \A i \in 1..(f.pos - 1) :
            f # e \/ i # e.pos => object'[dests[i]][f.vol.num] = f.vol
  BY <1>1, <1>4, UploadFrame
<1>6. RunShape' /\ Unpublished' /\ CacheOfRun' /\ PiecesGood'
  BY <1>1, <1>2, LineFrame
<1>7. VolumesThere'
  BY <1>5 DEF VolumesThere
<1>8. LineThere'
  <2>1. \A i \in 1..(g.pos - 1) : object'[dests[i]][g.vol.num] = g.vol
    BY <1>1, <1>2, <1>5
  <2>2. /\ g.pos \in 1..(Len(dests) + 1) /\ g.pos <= Len(dests)
        /\ g.vol.num \notin Numbers(vols)
    BY <1>1, <1>2 DEF LineThere, TypeOK
  <2>3. \A f \in line \ {e} : \A i \in 1..(f.pos - 1) :
           object'[dests[i]][f.vol.num] = f.vol
    BY <1>5
  <2>4. line' = (line \ {e}) \cup {g} /\ UNCHANGED <<dests, vols>>
    OBVIOUS
  <2> HIDE DEF g, FailUpload, Inv
  <2> QED
    BY <1>2, <2>1, <2>2, <2>3, <2>4, LineThereFrame
<1> QED
  BY <1>3, <1>5, <1>6, <1>7, <1>8

\* A finished upload puts a volume where the line says it is.
LEMMA FinishUploadInv ==
    ASSUME Inv, NEW e \in line, FinishUpload(e)
    PROVE  Inv'
<1> DEFINE g == [vol |-> e.vol, pos |-> e.pos + 1, upload |-> "waiting"]
<1> USE DEF Inv, FinishUpload
<1>1. e \in InFlight /\ e.pos \in 1..Len(dests) /\ e.vol.num \in Num /\ e.vol \in Volume
  BY DEF TypeOK, InFlight, PiecesGood, Pieces, Coherent, LineThere
<1>2. g \in InFlight /\ g.vol = e.vol /\ g.pos = e.pos + 1 /\ g.upload = "waiting"
  BY <1>1 DEF InFlight, UploadState
<1>3. TypeOK'
  BY <1>1, <1>2 DEF TypeOK
<1>4. \A d \in Dest, n \in Num :
        d # dests[e.pos] \/ n # e.vol.num => object'[d][n] = object[d][n]
  BY <1>1 DEF TypeOK
<1>5. /\ CacheSound' /\ PublishedMatches' /\ ManifestsGood'
      /\ \A i \in 1..Len(dests) : \A x \in vols : object'[dests[i]][x.num] = x
      /\ \A f \in line : \A i \in 1..(f.pos - 1) :
            f # e \/ i # e.pos => object'[dests[i]][f.vol.num] = f.vol
  BY <1>1, <1>4, UploadFrame
<1>6. object'[dests[e.pos]][e.vol.num] = e.vol
  BY <1>1 DEF TypeOK
<1>7. RunShape' /\ Unpublished' /\ CacheOfRun' /\ PiecesGood'
  BY <1>1, <1>2, LineFrame
<1>8. VolumesThere'
  BY <1>5 DEF VolumesThere
<1>9. LineThere'
  <2>1. \A i \in 1..(g.pos - 1) : object'[dests[i]][g.vol.num] = g.vol
    BY <1>1, <1>2, <1>5, <1>6
  <2>2. g.pos \in 1..(Len(dests) + 1) /\ g.vol.num \notin Numbers(vols)
    BY <1>1, <1>2 DEF LineThere, TypeOK
  <2> QED
    BY <1>1, <1>2, <1>5, <2>1, <2>2, LineThereFrame, SMTT(30)
<1> QED
  BY <1>3, <1>5, <1>7, <1>8, <1>9

\* The collector records only what every destination has.
LEMMA CollectVolumeInv ==
    ASSUME Inv, NEW e \in line, CollectVolume(e)
    PROVE  Inv'
<1> USE DEF Inv, CollectVolume, UploadedEverywhere
<1>1. e \in InFlight /\ e.vol \in Volume /\ Len(dests) > 0 /\ Len(dests) \in Nat
  BY DEF TypeOK, InFlight, RunShape
<1>2. Pieces' = Pieces
  <2>1. Pieces' = (vols \cup {e.vol}) \cup {f.vol : f \in line \ {e}}
    BY DEF Pieces
  <2>2. {f.vol : f \in line} = {f.vol : f \in line \ {e}} \cup {e.vol}
    OBVIOUS
  <2> QED
    BY <2>1, <2>2 DEF Pieces
<1>3. TypeOK'
  BY <1>1 DEF TypeOK, durable
<1>4. CacheSound' /\ PublishedMatches' /\ ManifestsGood'
  BY DurableSame
<1>5. RunShape' /\ Unpublished' /\ CacheOfRun'
  BY <1>1 DEF RunShape, Unpublished, CacheOfRun, CachedVolumes, Readable, durable
<1>6. VolumesThere'
  <2>1. \A i \in 1..Len(dests) : object[dests[i]][e.vol.num] = e.vol
    BY <1>1 DEF LineThere
  <2> QED
    BY <2>1 DEF VolumesThere, durable
<1>7. LineThere'
  <2>1. Numbers(vols') = Numbers(vols) \cup {e.vol.num}
    BY NumbersOfMore
  <2> QED
    BY <2>1 DEF LineThere, durable
<1>8. PiecesGood'
  BY <1>2 DEF PiecesGood
<1> QED
  BY <1>3, <1>4, <1>5, <1>6, <1>7, <1>8

\* pending.zero: the whole stream is recorded.
LEMMA FinalizeInv == ASSUME Inv, FinalizeManifest PROVE Inv'
<1> USE DEF Inv, FinalizeManifest
<1>1. TypeOK'
  BY DEF TypeOK, PC, durable
<1>2. CacheSound' /\ PublishedMatches' /\ ManifestsGood'
  BY DurableSame
<1>3. RunShape' /\ LineThere'
  BY DEF TypeOK, RunShape, LineThere
<1>4. Unpublished' /\ VolumesThere' /\ CacheOfRun'
  BY DEF Unpublished, VolumesThere, CacheOfRun, durable
<1>5. PiecesGood'
  BY DEF PiecesGood, Pieces
<1> QED
  BY <1>1, <1>2, <1>3, <1>4, <1>5

\* A run that finished its stream has all of it in the volumes it recorded.
LEMMA FinalIsGood ==
    ASSUME Inv, pc \in {"keep", "send", "final", "publish", "complete", "cachefile"}
    PROVE  JobInfo \in Manifest /\ GoodManifest(JobInfo)
<1> USE BoundAssumption DEF Inv, BoundAssumption
<1>1. JobInfo \in Manifest /\ JobInfo.vols = vols /\ JobInfo.job = job /\ JobInfo.kind = kind
  BY DEF JobInfo, Manifest, TypeOK, RunShape
<1>2. CASE pc \in {"complete", "cachefile"}
  BY <1>1, <1>2 DEF PiecesGood
<1>3. CASE pc \in {"keep", "send", "final", "publish"}
  <2>1. Coherent(vols) /\ \A x \in vols : x.str.job = job
    BY <1>3 DEF PiecesGood, Coherent, Pieces
  <2>2. ASSUME kind = "final" PROVE Whole(vols)
    <3>1. pc \in {"final", "publish"} /\ line = {} /\ Pieces = vols
      BY <1>3, <2>2 DEF RunShape, Pieces
    <3>2. /\ volNum \in 1..(StreamLen + 1) /\ Numbers(vols) = 1..(volNum - 1)
          /\ volNum # 1
          /\ \A x \in vols : x.num = volNum - 1 => x.hi = StreamLen
      BY <3>1 DEF PiecesGood
    <3> QED
      BY <3>2 DEF Whole, Num, MaxVolumes
  <2> QED
    BY <1>1, <2>1, <2>2 DEF GoodManifest
<1> QED
  BY <1>2, <1>3

\* saveManifest: the cache it replaces now lists volumes that are there.
LEMMA SaveManifestInv == ASSUME Inv, SaveManifest PROVE Inv'
<1> USE DEF Inv
<1>1. /\ pc \in {"keep", "send", "final"} /\ step \in 1..Len(dests)
      /\ dests[step] \in Dest /\ cache' = [cache EXCEPT ![dests[step]] = JobInfo]
      /\ UNCHANGED <<object, manifest, att, dests, mode, job, vols, kind, stream,
                     volNum, cut, line, upload>>
  BY DEF SaveManifest, RunShape, TypeOK
<1>2. JobInfo \in Manifest /\ GoodManifest(JobInfo) /\ JobInfo.vols = vols
  BY <1>1, FinalIsGood DEF JobInfo
<1>3. Readable(JobInfo)
  BY <1>2, NoneAssumption DEF NoneAssumption, Readable
<1>4. \A d \in Dest : CachedVolumes(d)' = IF d = dests[step] THEN vols ELSE CachedVolumes(d)
  BY <1>1, <1>2, <1>3 DEF CachedVolumes, Readable, TypeOK
<1>5. \A x \in vols : x.num \in Num
  BY <1>1 DEF PiecesGood, Coherent, Pieces
<1>6. TypeOK'
  BY <1>1, <1>2 DEF SaveManifest, TypeOK, PC
<1>7. CacheSound'
  BY <1>1, <1>4, <1>5 DEF CacheSound, VolumesThere
<1>8. PublishedMatches'
  BY <1>1 DEF PublishedMatches, verifyVolumesAt
<1>9. ManifestsGood'
  BY <1>1, <1>2 DEF ManifestsGood, TypeOK
<1>10. RunShape' /\ LineThere'
  BY <1>1 DEF SaveManifest, RunShape, LineThere, TypeOK
<1>11. Unpublished' /\ VolumesThere'
  BY <1>1
  DEF SaveManifest, RunShape, Unpublished, VolumesThere, TypeOK, UploadState
<1>12. CacheOfRun'
  <2>1. \A i \in 1..Len(dests) : dests[i] \in Dest
    BY DEF TypeOK
  <2>2. CASE pc = "keep"
    <3>1. \A i \in 1..step : CachedVolumes(dests[i])' \subseteq vols
      BY <1>1, <1>4, <2>1, <2>2 DEF CacheOfRun
    <3>2. CASE step < Len(dests)
      BY <1>1, <2>2, <3>1, <3>2 DEF SaveManifest, CacheOfRun, CachedVolumes, Readable
    <3>3. CASE ~(step < Len(dests))
      <4>1. step = Len(dests) /\ pc' = "start"
        BY <1>1, <2>2, <3>3 DEF SaveManifest, TypeOK
      <4> QED
        BY <1>1, <3>1, <4>1 DEF CacheOfRun, CachedVolumes, Readable
    <3> QED
      BY <3>2, <3>3
  <2>3. CASE pc = "send"
    <3>1. \A i \in 1..Len(dests) : CachedVolumes(dests[i])' \subseteq vols
      BY <1>1, <1>4, <2>1, <2>3 DEF CacheOfRun
    <3>2. pc' = "send"
      BY <2>3 DEF SaveManifest
    <3> QED
      BY <1>1, <3>1, <3>2 DEF CacheOfRun, CachedVolumes, Readable
  <2>4. CASE pc = "final"
    <3>1. pc' \in {"final", "publish"}
      BY <2>4 DEF SaveManifest
    <3> QED
      BY <3>1 DEF CacheOfRun
  <2> QED
    BY <1>1, <2>2, <2>3, <2>4
<1>13. PiecesGood'
  <2>1. Pieces' = Pieces
    BY <1>1 DEF Pieces
  <2> QED
    BY <1>1, <2>1 DEF SaveManifest, RunShape, PiecesGood
<1> QED
  BY <1>6, <1>7, <1>8, <1>9, <1>10, <1>11, <1>12, <1>13

\* The targets are distinct destinations.
LEMMA LaterTarget ==
    ASSUME TypeOK, IsInjective(targets), step \in 1..Len(targets),
           NEW i \in (step + 1)..Len(targets)
    PROVE  targets[i] # targets[step] /\ targets[i] \in Dest
<1>1. i \in 1..Len(targets) /\ i # step /\ DOMAIN targets = 1..Len(targets)
  BY DEF TypeOK
<1> QED
  BY <1>1, SMTT(30) DEF IsInjective, TypeOK

\* A manifest upload touches only a destination that has no readable manifest.
LEMMA StartManifestInv == ASSUME Inv, StartManifest PROVE Inv'
<1> DEFINE d == targets[step]
<1> USE NoneAssumption DEF Inv, NoneAssumption
<1>1. /\ pc \in {"publish", "complete"} /\ step \in 1..Len(targets) /\ d \in Dest
      /\ IsInjective(targets) /\ DOMAIN targets = 1..Len(targets) /\ Len(targets) \in Nat
      /\ manifest[d] = None
  BY DEF StartManifest, RunShape, TypeOK, Unpublished
<1>2. /\ upload' = "uploading"
      /\ manifest' = IF d \in Atomic THEN manifest
                     ELSE [manifest EXCEPT ![d] = Truncated]
      /\ UNCHANGED <<object, cache, pc, att, dests, mode, job, vols, kind, stream,
                     volNum, cut, line, step, targets>>
  BY DEF StartManifest
<1>3. TypeOK'
  BY <1>1, <1>2 DEF TypeOK, UploadState
<1>4. /\ manifest'[d] = IF d \in Atomic THEN None ELSE Truncated
      /\ \A c \in Dest \ {d} : manifest'[c] = manifest[c]
  BY <1>1, <1>2 DEF TypeOK
<1>5. CacheSound' /\ PublishedMatches' /\ ManifestsGood'
  BY <1>2, <1>4 DEF CacheSound, CachedVolumes, Readable, PublishedMatches, verifyVolumesAt, ManifestsGood
<1>6. RunShape' /\ LineThere'
  BY <1>1, <1>2 DEF RunShape, LineThere
<1>7. Unpublished'
  <2>1. \A i \in (step + 1)..Len(targets) : manifest'[targets[i]] = None
    <3> SUFFICES ASSUME NEW i \in (step + 1)..Len(targets)
                 PROVE  manifest'[targets[i]] = None
      OBVIOUS
    <3>1. targets[i] # d /\ targets[i] \in Dest
      BY <1>1, LaterTarget
    <3>2. manifest[targets[i]] = None
      BY <1>1 DEF Unpublished
    <3> QED
      BY <1>4, <3>1, <3>2
  <2> QED
    BY <1>1, <1>2, <1>4, <2>1 DEF Unpublished
<1>8. VolumesThere' /\ CacheOfRun'
  BY <1>1, <1>2 DEF VolumesThere, CacheOfRun
<1>9. PiecesGood'
  <2>1. Pieces' = Pieces /\ JobInfo' = JobInfo
    BY <1>2 DEF Pieces, JobInfo
  <2> QED
    BY <1>2, <2>1 DEF PiecesGood
<1> QED
  BY <1>3, <1>5, <1>6, <1>7, <1>8, <1>9

\* The manifest that lands lists what its destination has.
LEMMA FinishManifestInv == ASSUME Inv, FinishManifest PROVE Inv'
<1> DEFINE d == targets[step]
<1> USE NoneAssumption DEF Inv, NoneAssumption
<1>1. /\ pc \in {"publish", "complete"} /\ step \in 1..Len(targets) /\ d \in Dest
      /\ IsInjective(targets) /\ DOMAIN targets = 1..Len(targets) /\ Len(targets) \in Nat
      /\ kind = "final"
  BY DEF FinishManifest, RunShape, TypeOK
<1>2. manifest' = [manifest EXCEPT ![d] = JobInfo] /\ UNCHANGED <<object, cache>>
  BY DEF FinishManifest
<1>3. JobInfo \in Manifest /\ GoodManifest(JobInfo) /\ JobInfo.vols = vols
      /\ JobInfo.kind = "final"
  BY <1>1, FinalIsGood DEF JobInfo
<1>4. /\ manifest' \in [Dest -> Manifest \cup {None, Truncated}]
      /\ manifest'[d] = JobInfo /\ \A c \in Dest \ {d} : manifest'[c] = manifest[c]
  BY <1>1, <1>2, <1>3 DEF TypeOK
<1>5. \A x \in vols : x.num \in Num /\ object[d][x.num] = x
  BY <1>1, <1>3 DEF VolumesThere, GoodManifest, Coherent
<1>6. CacheSound' /\ ManifestsGood'
  BY <1>2, <1>3, <1>4 DEF CacheSound, CachedVolumes, Readable, ManifestsGood
<1>7. PublishedMatches'
  BY <1>2, <1>3, <1>4, <1>5 DEF PublishedMatches, verifyVolumesAt
<1>8. CASE EndRun
  BY <1>2, <1>4, <1>6, <1>7, <1>8, EndRunInv DEF TypeOK
<1>9. CASE ~EndRun
  <2>1. /\ upload' = "waiting"
        /\ \/ pc = "publish" /\ step < Len(targets) /\ step' = step + 1 /\ pc' = pc
           \/ pc = "complete" /\ step' = step /\ pc' = "cachefile"
        /\ UNCHANGED <<att, dests, mode, job, vols, kind, stream, volNum, cut, line,
                       targets>>
    BY <1>9 DEF FinishManifest
  <2>2. TypeOK'
    BY <1>2, <1>4, <2>1 DEF TypeOK, PC, UploadState
  <2>3. RunShape' /\ LineThere'
    BY <1>1, <1>2, <2>1 DEF RunShape, LineThere
  <2>4. Unpublished'
    <3>1. \A i \in (step + 1)..Len(targets) : manifest'[targets[i]] = None
      <4> SUFFICES ASSUME NEW i \in (step + 1)..Len(targets)
                   PROVE  manifest'[targets[i]] = None
        OBVIOUS
      <4>1. targets[i] # d /\ targets[i] \in Dest
        BY <1>1, LaterTarget
      <4>2. manifest[targets[i]] = None
        BY <1>1 DEF Unpublished
      <4> QED
        BY <1>4, <4>1, <4>2
    <3> QED
      BY <1>1, <2>1, <3>1 DEF Unpublished
  <2>5. VolumesThere' /\ CacheOfRun'
    BY <1>1, <1>2, <2>1 DEF VolumesThere, CacheOfRun
  <2>6. PiecesGood'
    <3>1. Pieces' = Pieces /\ JobInfo' = JobInfo
      BY <2>1 DEF Pieces, JobInfo
    <3> QED
      BY <1>3, <2>1, <3>1 DEF PiecesGood
  <2> QED
    BY <1>6, <1>7, <2>2, <2>3, <2>4, <2>5, <2>6
<1> QED
  BY <1>8, <1>9

\* A failed manifest upload leaves no manifest behind.
LEMMA FailManifestInv == ASSUME Inv, FailManifest PROVE Inv'
<1> DEFINE d == targets[step]
<1> USE NoneAssumption DEF Inv, NoneAssumption
<1>1. /\ pc \in {"publish", "complete"} /\ step \in 1..Len(targets) /\ d \in Dest
      /\ IsInjective(targets) /\ DOMAIN targets = 1..Len(targets) /\ Len(targets) \in Nat
      /\ manifest[d] = IF d \in Atomic THEN None ELSE Truncated
  BY DEF FailManifest, RunShape, TypeOK, Unpublished
<1>2. /\ manifest' = IF d \in Atomic THEN manifest ELSE [manifest EXCEPT ![d] = None]
      /\ UNCHANGED <<object, cache>>
  BY DEF FailManifest
<1>3. /\ manifest' \in [Dest -> Manifest \cup {None, Truncated}]
      /\ manifest'[d] = None /\ \A c \in Dest \ {d} : manifest'[c] = manifest[c]
  BY <1>1, <1>2 DEF TypeOK
<1>4. CacheSound' /\ PublishedMatches' /\ ManifestsGood'
  BY <1>2, <1>3 DEF CacheSound, CachedVolumes, Readable, PublishedMatches, verifyVolumesAt, ManifestsGood
<1>5. CASE EndRun
  BY <1>2, <1>3, <1>4, <1>5, EndRunInv DEF TypeOK
<1>6. CASE ~EndRun
  <2>1. /\ pc = "publish" /\ upload' = "waiting"
        /\ UNCHANGED <<pc, att, dests, mode, job, vols, kind, stream, volNum, cut,
                       line, step, targets>>
    BY <1>6 DEF FailManifest
  <2>2. TypeOK'
    BY <1>2, <1>3, <2>1 DEF TypeOK, UploadState
  <2>3. RunShape' /\ LineThere'
    BY <1>1, <1>2, <2>1 DEF RunShape, LineThere
  <2>4. Unpublished'
    <3>1. \A i \in (step + 1)..Len(targets) : manifest'[targets[i]] = None
      <4> SUFFICES ASSUME NEW i \in (step + 1)..Len(targets)
                   PROVE  manifest'[targets[i]] = None
        OBVIOUS
      <4>1. targets[i] # d /\ targets[i] \in Dest
        BY <1>1, LaterTarget
      <4>2. manifest[targets[i]] = None
        BY <1>1 DEF Unpublished
      <4> QED
        BY <1>3, <4>1, <4>2
    <3> QED
      BY <1>1, <1>3, <2>1, <3>1 DEF Unpublished
  <2>5. VolumesThere' /\ CacheOfRun'
    BY <1>1, <1>2, <2>1 DEF VolumesThere, CacheOfRun
  <2>6. PiecesGood'
    <3>1. Pieces' = Pieces
      BY <2>1 DEF Pieces
    <3> QED
      BY <2>1, <3>1 DEF PiecesGood
  <2> QED
    BY <1>4, <2>2, <2>3, <2>4, <2>5, <2>6
<1> QED
  BY <1>5, <1>6

\* uploadManifest caches, for the destination it just completed, what is there.
LEMMA CacheFileInv == ASSUME Inv, CacheFile PROVE Inv'
<1> DEFINE d == targets[step]
<1> USE NoneAssumption DEF Inv, NoneAssumption
<1>1. /\ pc = "cachefile" /\ step \in 1..Len(targets) /\ d \in Dest
      /\ IsInjective(targets) /\ Len(targets) \in Nat
      /\ cache' = [cache EXCEPT ![d] = JobInfo] /\ UNCHANGED <<object, manifest>>
  BY DEF CacheFile, RunShape, TypeOK
<1>2. JobInfo \in Manifest /\ GoodManifest(JobInfo) /\ JobInfo.vols = vols
      /\ Readable(JobInfo)
  BY <1>1, FinalIsGood DEF JobInfo, Readable
<1>3. /\ cache' \in [Dest -> Manifest \cup {None, Truncated}]
      /\ cache'[d] = JobInfo /\ \A c \in Dest \ {d} : cache'[c] = cache[c]
  BY <1>1, <1>2 DEF TypeOK
<1>4. \A x \in vols : x.num \in Num /\ object[d][x.num] = x
  BY <1>1, <1>2 DEF VolumesThere, GoodManifest, Coherent
<1>5. CacheSound'
  BY <1>1, <1>2, <1>3, <1>4 DEF CacheSound, CachedVolumes, Readable
<1>6. PublishedMatches' /\ ManifestsGood'
  BY <1>1, <1>2, <1>3 DEF PublishedMatches, verifyVolumesAt, ManifestsGood
<1>7. CASE EndRun
  BY <1>1, <1>3, <1>5, <1>6, <1>7, EndRunInv DEF TypeOK
<1>8. CASE ~EndRun
  <2>1. /\ step < Len(targets) /\ pc' = "complete" /\ step' = step + 1
        /\ UNCHANGED <<att, dests, mode, job, vols, kind, stream, volNum, cut, line,
                       targets, upload>>
    BY <1>8 DEF CacheFile
  <2>2. TypeOK'
    BY <1>1, <1>3, <2>1 DEF TypeOK, PC
  <2>3. RunShape' /\ LineThere'
    BY <1>1, <2>1 DEF RunShape, LineThere
  <2>4. Unpublished' /\ VolumesThere' /\ CacheOfRun'
    BY <1>1, <2>1
    DEF Unpublished, VolumesThere, CacheOfRun, RunShape, TypeOK, UploadState
  <2>5. PiecesGood'
    <3>1. JobInfo' = JobInfo
      BY <2>1 DEF JobInfo
    <3> QED
      BY <1>2, <2>1, <3>1 DEF PiecesGood
  <2> QED
    BY <1>5, <1>6, <2>2, <2>3, <2>4, <2>5
<1> QED
  BY <1>7, <1>8

\* A run may stop anywhere.
LEMMA StopRunInv == ASSUME Inv, StopRun PROVE Inv'
BY StopInv DEF StopRun

\* Between runs: a manifest goes before the volumes it lists, and a cache may
\* list volumes that are gone.
LEMMA DeleteManifestInv ==
    ASSUME Inv, NEW d \in Dest, DeleteManifest(d)
    PROVE  Inv'
<1> USE NoneAssumption DEF Inv, DeleteManifest, run, NoneAssumption
<1>1. TypeOK'
  BY DEF TypeOK
<1>2. CacheSound' /\ PublishedMatches' /\ ManifestsGood'
  BY DEF TypeOK, CacheSound, CachedVolumes, Readable, PublishedMatches, verifyVolumesAt, ManifestsGood
<1>3. RunShape' /\ LineThere'
  BY DEF RunShape, LineThere
<1>4. Unpublished' /\ VolumesThere' /\ CacheOfRun' /\ PiecesGood'
  BY DEF Unpublished, VolumesThere, CacheOfRun, PiecesGood
<1> QED
  BY <1>1, <1>2, <1>3, <1>4

\* A volume goes only where no manifest lists it.
LEMMA DeleteVolumeInv ==
    ASSUME Inv, NEW d \in Dest, NEW n \in Num, DeleteVolume(d, n)
    PROVE  Inv'
<1> USE NoneAssumption DEF Inv, DeleteVolume, run, NoneAssumption
<1>1. TypeOK'
  BY DEF TypeOK
<1>2. CacheSound' /\ ManifestsGood'
  BY DEF TypeOK, CacheSound, CachedVolumes, Readable, ManifestsGood
<1>3. PublishedMatches'
  BY DEF TypeOK, PublishedMatches, verifyVolumesAt
<1>4. RunShape' /\ LineThere'
  BY DEF RunShape, LineThere
<1>5. Unpublished' /\ VolumesThere' /\ CacheOfRun' /\ PiecesGood'
  BY DEF Unpublished, VolumesThere, CacheOfRun, PiecesGood
<1> QED
  BY <1>1, <1>2, <1>3, <1>4, <1>5

\* A cache that is lost or damaged vouches for nothing.
LEMMA LoseCacheInv ==
    ASSUME Inv, NEW d \in Dest, NEW c \in {None, Truncated}, LoseCache(d, c)
    PROVE  Inv'
<1> USE NoneAssumption DEF Inv, LoseCache, run, NoneAssumption
<1>1. TypeOK'
  BY DEF TypeOK
<1>2. CacheSound' /\ PublishedMatches' /\ ManifestsGood'
  BY DEF TypeOK, CacheSound, CachedVolumes, Readable, PublishedMatches, verifyVolumesAt, ManifestsGood
<1>3. RunShape' /\ LineThere'
  BY DEF RunShape, LineThere
<1>4. Unpublished' /\ VolumesThere' /\ CacheOfRun' /\ PiecesGood'
  BY DEF Unpublished, VolumesThere, CacheOfRun, PiecesGood
<1> QED
  BY <1>1, <1>2, <1>3, <1>4

\* Nothing happens.
LEMMA StutterInv == ASSUME Inv, UNCHANGED vars PROVE Inv'
<1> USE DEF Inv, vars, durable, run
<1>1. TypeOK'
  BY DEF TypeOK
<1>2. CacheSound' /\ PublishedMatches' /\ ManifestsGood'
  BY DurableSame
<1>3. RunShape' /\ LineThere' /\ Unpublished'
  BY DEF RunShape, LineThere, Unpublished
<1>4. VolumesThere' /\ CacheOfRun'
  BY DEF VolumesThere, CacheOfRun, CachedVolumes, Readable
<1>5. PiecesGood'
  BY DEF PiecesGood, Pieces, JobInfo
<1> QED
  BY <1>1, <1>2, <1>3, <1>4, <1>5

\* Every step of every run, and every step between runs, preserves Inv.
LEMMA NextInv == ASSUME Inv, [Next]_vars PROVE Inv'
<1>1. CASE UNCHANGED vars
  BY <1>1, StutterInv
<1>2. CASE Next
  BY <1>2, TryLockInv, NewSetInv, RefuseSetInv, CopyManifestInv, ResumeNothingInv,
     ResumeMismatchInv, ResumeKeptInv, DiscardInv, StartStreamInv, CutVolumeInv,
     StartUploadInv, FinishUploadInv, FailUploadInv, CollectVolumeInv, FinalizeInv,
     SaveManifestInv, StartManifestInv, FinishManifestInv, FailManifestInv,
     CacheFileInv, StopRunInv, DeleteManifestInv, DeleteVolumeInv, LoseCacheInv
  DEF Next
<1> QED
  BY <1>1, <1>2

-----------------------------------------------------------------------------
(* The theorems.                                                           *)

\* Inv is an invariant of the runs of Backup() and what happens between them.
THEOREM Invariance == Spec => []Inv
<1>1. Init => Inv
  BY InitInv
<1>2. Inv /\ [Next]_vars => Inv'
  BY NextInv
<1> QED
  BY <1>1, <1>2, PTL DEF Spec

\* Type correctness.
THEOREM TypeCorrect == Spec => []TypeOK
<1>1. Inv => TypeOK
  BY DEF Inv
<1> QED
  BY <1>1, Invariance, PTL

\* What tryResume relies on: the cache is never wrong about an object that is
\* still at the destination, however the runs before it ended.
THEOREM CacheIsSound == Spec => []CacheSound
<1>1. Inv => CacheSound
  BY DEF Inv
<1> QED
  BY <1>1, Invariance, PTL

\* Every manifest at a destination, whichever of the three ways it got there
\* (the pipeline, a resume's uploadManifest, copyManifest), lists volumes that
\* are at that destination exactly as recorded.
THEOREM PublishedSetsMatch == Spec => []PublishedMatches
<1>1. Inv => PublishedMatches
  BY DEF Inv
<1> QED
  BY <1>1, Invariance, PTL

\* Every published set is the whole of one zfs send stream, in order and
\* without a gap, even when several attempts contributed volumes to it.
THEOREM PublishedSetsAreWhole == Spec => []PublishedIsOneStream
<1>1. ASSUME Inv PROVE PublishedIsOneStream
  <2> SUFFICES ASSUME NEW d \in Dest, manifest[d] \in Manifest
               PROVE  LET m == manifest[d]
                      IN  /\ m.kind = "final"
                          /\ \E s \in Stream : s.job = m.job /\ \A x \in m.vols : x.str = s
                          /\ \E last \in Num :
                               /\ Numbers(m.vols) = 1..last
                               /\ \A x \in m.vols :
                                    /\ x.num = 1 => x.lo = 0
                                    /\ \A y \in m.vols : y.num = x.num + 1 => y.lo = x.hi
                                    /\ x.num = last => x.hi = StreamLen
    BY DEF PublishedIsOneStream
  <2> DEFINE m == manifest[d]
  <2>1. GoodManifest(m) /\ m.kind = "final"
    BY <1>1 DEF Inv, ManifestsGood
  <2>2. PICK last \in Num : /\ Numbers(m.vols) = 1..last
                            /\ \A x \in m.vols : x.num = last => x.hi = StreamLen
    BY <2>1 DEF GoodManifest, Whole
  <2>3. PICK z \in m.vols : z.num = last
    <3>1. last \in Numbers(m.vols)
      BY <2>2 DEF Num, MaxVolumes
    <3> QED
      BY <3>1 DEF Numbers
  <2>4. z.str \in Stream /\ z.str.job = m.job /\ \A x \in m.vols : x.str = z.str
    BY <2>1, <2>3 DEF GoodManifest, Coherent, Manifest, Volume
  <2>5. \A x \in m.vols : /\ x.num = 1 => x.lo = 0
                          /\ \A y \in m.vols : y.num = x.num + 1 => y.lo = x.hi
    BY <2>1 DEF GoodManifest, Coherent
  <2> QED
    BY <2>1, <2>2, <2>4, <2>5
<1> QED
  BY <1>1, Invariance, PTL

\* No step rewrites what a readable manifest describes.
LEMMA PublishedStep ==
    ASSUME Inv, [Next]_vars,
           NEW d \in Dest, manifest[d] \in Manifest, manifest'[d] # None
    PROVE  manifest'[d] = manifest[d] /\ object'[d] = object[d]
<1> USE NoneAssumption DEF Inv, NoneAssumption
<1>1. ASSUME pc \in {"resume", "discard", "keep", "start", "send", "final"},
             NEW i \in 1..Len(dests)
      PROVE  dests[i] # d /\ dests[i] \in Dest
  BY <1>1 DEF Unpublished, TypeOK
<1>2. ASSUME pc \in {"publish", "complete"}
      PROVE  targets[step] # d /\ targets[step] \in Dest
  BY <1>2 DEF Unpublished, TypeOK, RunShape
<1>3. ASSUME NEW e \in line, e.pos <= Len(dests)
      PROVE  dests[e.pos] # d /\ dests[e.pos] \in Dest
  <2>1. pc = "send" /\ e.pos \in 1..Len(dests)
    BY <1>3 DEF RunShape, TypeOK, InFlight
  <2> QED
    BY <1>1, <2>1
<1>4. ASSUME NEW e \in line, StartUpload(e) \/ FinishUpload(e) \/ FailUpload(e)
      PROVE  manifest'[d] = manifest[d] /\ object'[d] = object[d]
  <2>1. e.pos <= Len(dests)
    BY <1>4 DEF StartUpload, FinishUpload, FailUpload, LineThere
  <2> QED
    BY <1>3, <1>4, <2>1 DEF StartUpload, FinishUpload, FailUpload, TypeOK
<1>5. CASE StartManifest \/ FinishManifest \/ FailManifest
  BY <1>2, <1>5 DEF StartManifest, FinishManifest, FailManifest, TypeOK
<1>6. ASSUME NEW c \in Dest, DeleteManifest(c)
      PROVE  manifest'[d] = manifest[d] /\ object'[d] = object[d]
  BY <1>6 DEF DeleteManifest, TypeOK
<1>7. ASSUME NEW c \in Dest, NEW n \in Num, DeleteVolume(c, n)
      PROVE  manifest'[d] = manifest[d] /\ object'[d] = object[d]
  BY <1>7 DEF DeleteVolume, TypeOK
<1>8. CASE UNCHANGED <<object, manifest>>
  BY <1>8
<1>9. CASE Next
  <2>1. ASSUME NEW ds \in Orders, NEW m \in Mode, NEW j \in Job \cup {None},
               TryLock(ds, m, j)
        PROVE  UNCHANGED <<object, manifest>>
    BY <2>1 DEF TryLock, durable
  <2>2. CASE NewSet \/ RefuseSet \/ ResumeNothing \/ ResumeMismatch
             \/ DiscardPartialManifest \/ FinalizeManifest
             \/ SaveManifest \/ CacheFile \/ StopRun
    BY <2>2, <1>8
    DEF NewSet, RefuseSet, ResumeNothing, ResumeMismatch, DiscardPartialManifest,
        FinalizeManifest, SaveManifest, CacheFile, StopRun, durable
  <2>3. ASSUME NEW first \in DOMAIN dests, CopyManifest(first)
        PROVE  UNCHANGED <<object, manifest>>
    BY <2>3 DEF CopyManifest, durable
  <2>4. ASSUME NEW keep \in Num, ResumeKept(keep)
        PROVE  UNCHANGED <<object, manifest>>
    BY <2>4 DEF ResumeKept, durable
  <2>5. ASSUME NEW s \in Stream, StartStream(s) PROVE UNCHANGED <<object, manifest>>
    BY <2>5 DEF StartStream, durable
  <2>6. ASSUME NEW hi \in 1..StreamLen, CutVolume(hi)
        PROVE  UNCHANGED <<object, manifest>>
    BY <2>6 DEF CutVolume, durable
  <2>7. ASSUME NEW e \in line, CollectVolume(e) PROVE UNCHANGED <<object, manifest>>
    BY <2>7 DEF CollectVolume, durable
  <2>8. ASSUME NEW c \in Dest, NEW x \in {None, Truncated}, LoseCache(c, x)
        PROVE  UNCHANGED <<object, manifest>>
    BY <2>8 DEF LoseCache
  <2> HIDE DEF Inv, NoneAssumption
  <2> QED
    BY <1>4, <1>5, <1>6, <1>7, <1>8, <1>9, <2>1, <2>2, <2>3, <2>4, <2>5, <2>6, <2>7,
       <2>8 DEF Next
<1>10. CASE UNCHANGED vars
  BY <1>10 DEF vars, durable
<1> QED
  BY <1>9, <1>10

\* While a destination has a readable manifest of the set, no step changes an
\* object of the set there, and the manifest itself is never replaced.
THEOREM PublishedSetsStay == Spec => PublishedNeverOverwritten
<1>1. Inv /\ [Next]_vars =>
        [\A d \in Dest :
           manifest[d] \in Manifest /\ manifest'[d] # None
             => manifest'[d] = manifest[d] /\ object'[d] = object[d]]_vars
  BY PublishedStep
<1> QED
  BY <1>1, Invariance, PTL DEF Spec, PublishedNeverOverwritten
=============================================================================
