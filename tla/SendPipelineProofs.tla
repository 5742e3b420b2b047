------------------------ MODULE SendPipelineProofs --------------------------
(***************************************************************************)
(* Machine-checked proofs about SendPipeline, for every number of          *)
(* destinations, parallel uploads, buffers and volumes, and that it        *)
(* implements Publication.                                                 *)
(***************************************************************************)
EXTENDS SendPipeline, FiniteSetTheorems, TLAPS

\* The run's options and what they determine.
LEMMA Sizes ==
    ASSUME jobInfo \in Jobs
    PROVE  /\ BufferSize \in Nat \ {0} /\ LastLink \in Nat \ {0}
           /\ jobInfo.destinations \in Nat \ {0} /\ jobInfo.destinations <= LastLink
           /\ jobInfo.parallelUploads \in Nat \ {0} /\ jobInfo.maxVolumes \in Nat \ {0}
           /\ Link \subseteq Nat \ {0} /\ Uploads \subseteq Link
           /\ 1 \in Link /\ LastLink \in Link /\ 1 \in Worker /\ 1 \in Uploads
           /\ \A l \in Link : l < LastLink => l + 1 \in Link
           /\ \A l \in Link : l <= LastLink
<1>1. /\ jobInfo.destinations \in Nat \ {0} /\ jobInfo.parallelUploads \in Nat \ {0}
      /\ jobInfo.maxVolumes \in Nat \ {0} /\ jobInfo.maxFileBuffer \in Nat
  BY PipelineAssumption DEF PipelineAssumption
<1>2. BufferSize \in Nat \ {0} /\ LastLink \in Nat \ {0} /\ jobInfo.destinations <= LastLink
  BY <1>1 DEF BufferSize, LastLink, UsingPipe
<1> QED
  BY <1>1, <1>2 DEF Link, Uploads, Worker

\* They are fixed when the run starts.
LEMMA SameJob ==
    ASSUME UNCHANGED jobInfo
    PROVE  /\ UsingPipe' = UsingPipe /\ BufferSize' = BufferSize /\ Uploads' = Uploads
           /\ LastLink' = LastLink /\ Link' = Link /\ Worker' = Worker /\ Item' = Item
BY DEF UsingPipe, BufferSize, Uploads, LastLink, Link, Worker, Item

\* The sizes of what is counted.
LEMMA RecordedFinite ==
    ASSUME TypeOK
    PROVE  IsFiniteSet(recorded) /\ Cardinality(recorded) \in Nat
<1>1. IsFiniteSet(1..total) /\ recorded \subseteq 1..total
  <2>1. jobInfo \in Jobs /\ total \in 1..jobInfo.maxVolumes /\ recorded \subseteq 1..total
    BY DEF TypeOK
  <2>2. total \in Nat
    BY <2>1, Sizes
  <2> QED
    BY <2>1, <2>2, FS_Interval
<1> QED
  BY <1>1, FS_Subset, FS_CardinalityType

LEMMA MissingFinite ==
    ASSUME NEW f \in Nat
    PROVE  IsFiniteSet((1..f) \ recorded) /\ Cardinality((1..f) \ recorded) \in Nat
<1>1. IsFiniteSet(1..f)
  BY FS_Interval
<1> QED
  BY <1>1, FS_Subset, FS_CardinalityType

\* What the channels and workers carry are numbers.
LEMMA ItemsAreNumbers ==
    ASSUME TypeOK
    PROVE  /\ Item \subseteq Nat
           /\ \A i \in 1..Len(stepCh) : stepCh[i] \in Item
           /\ \A l \in Link, w \in Worker : worker[l][w].vol \in Item
<1>1. Item \subseteq Nat
  BY Sizes DEF TypeOK, Item
<1>2. \A i \in 1..Len(stepCh) : stepCh[i] \in Item
  BY DEF TypeOK
<1>3. \A l \in Link, w \in Worker : worker[l][w].vol \in Item
  BY DEF TypeOK
<1> QED
  BY <1>1, <1>2, <1>3

\* The numbers of a state.
LEMMA Numbers ==
    ASSUME TypeOK
    PROVE  /\ jobInfo \in Jobs /\ jobInfo.maxVolumes \in Nat /\ BufferSize \in Nat
           /\ total \in Nat /\ total <= jobInfo.maxVolumes /\ made \in Nat /\ made <= total
           /\ tokens \in Nat /\ tokens <= BufferSize /\ pending \in Int
           /\ 1 \in Link /\ Link \subseteq Nat \ {0} /\ Uploads \subseteq Nat \ {0}
           /\ FinalManifest \in Item /\ at \in [Uploads -> SUBSET Item]
           /\ startCh \in Seq(Item) /\ stepCh \in Seq(Item) /\ Len(stepCh) <= BufferSize
<1>1. /\ jobInfo \in Jobs /\ total \in 1..jobInfo.maxVolumes /\ made \in 0..total
      /\ tokens \in 0..BufferSize /\ pending \in Int /\ at \in [Uploads -> SUBSET Item]
      /\ startCh \in Seq(Item) /\ stepCh \in Seq(Item) /\ Len(stepCh) <= BufferSize
  BY DEF TypeOK
<1>2. /\ jobInfo.maxVolumes \in Nat /\ BufferSize \in Nat
      /\ 1 \in Link /\ Link \subseteq Nat \ {0} /\ Uploads \subseteq Nat \ {0}
  BY <1>1, Sizes
<1> QED
  BY <1>1, <1>2 DEF Item, FinalManifest

-----------------------------------------------------------------------------
(* The parts of the invariant a step does not touch.                       *)

LEMMA SamePlaces ==
    ASSUME UNCHANGED <<jobInfo, stepCh, worker>>
    PROVE  /\ \A l, w : HasItem(l, w)' <=> HasItem(l, w)
           /\ \A v : (InHand(v)' <=> InHand(v)) /\ (InStepCh(v)' <=> InStepCh(v))
           /\ SomeWorkerFailed' <=> SomeWorkerFailed
BY SameJob DEF HasItem, InHand, InStepCh, SomeWorkerFailed

LEMMA SameBehind ==
    ASSUME NEW f, Behind(f), UNCHANGED <<jobInfo, startCh, split, made>>
    PROVE  Behind(f)'
BY SameJob DEF Behind, Handed

LEMMA SameAhead ==
    ASSUME NEW f, Ahead(f), UNCHANGED <<jobInfo, forward, stepCh, worker, collect>>
    PROVE  Ahead(f)'
BY SameJob, SamePlaces DEF Ahead, Passed, forward, collect

LEMMA SameCounted ==
    ASSUME NEW f, Counted(f), UNCHANGED <<fwd, pending, zero, recorded>>
    PROVE  Counted(f)'
BY DEF Counted

LEMMA SameOnePlace ==
    ASSUME OnePlace, UNCHANGED <<jobInfo, stepCh, worker, collect>>
    PROVE  OnePlace'
BY SameJob, SamePlaces DEF OnePlace, collect

LEMMA SameUploaded ==
    ASSUME Uploaded, UNCHANGED <<jobInfo, worker, collect, at, total>>
    PROVE  Uploaded'
BY SameJob DEF Uploaded, HasItem, collect

LEMMA SameManifestLast ==
    ASSUME ManifestLast, UNCHANGED <<jobInfo, stepCh, worker, recorded, at, fin, finalized, fwd,
                                     total>>,
           zfs = "ok" => zfs' = "ok"
    PROVE  ManifestLast'
BY SameJob, SamePlaces DEF ManifestLast, Whole

LEMMA SameManifestNotLost ==
    ASSUME ManifestNotLost, UNCHANGED <<jobInfo, stepCh, worker, at, fin>>
    PROVE  ManifestNotLost'
BY SameJob, SamePlaces DEF ManifestNotLost

LEMMA SameLinksEnd ==
    ASSUME LinksEnd, UNCHANGED <<jobInfo, stepCh, worker, link, fin, returned>>,
           sender \in Ended => sender' \in Ended, coll \in Ended => coll' \in Ended
    PROVE  LinksEnd'
BY SameJob DEF LinksEnd, AllEnded

LEMMA SameTokens ==
    ASSUME TokensKept, UNCHANGED <<jobInfo, tokens, made, recorded, coll>>
    PROVE  TokensKept'
BY SameJob DEF TokensKept

-----------------------------------------------------------------------------
\* Nothing has happened when the goroutines start.
LEMMA InitInv == Init => Inv
<1> SUFFICES ASSUME Init PROVE Inv
  OBVIOUS
<1> USE DEF Init
<1>0. jobInfo \in Jobs
  OBVIOUS
<1>t. /\ BufferSize \in Nat \ {0} /\ jobInfo.maxVolumes \in Nat \ {0} /\ total \in Nat \ {0}
      /\ 1 \in Link /\ 1 \in Worker
  BY <1>0, Sizes
<1>h. \A l \in Link, w \in Worker : worker[l][w].pc = "recv" /\ ~HasItem(l, w)
  BY DEF HasItem, Idle
<1>1. TypeOK
  <2>1. worker \in [Link -> [Worker -> [pc : {"recv", "upload", "hand"} \cup Ended, vol : Item]]]
    BY <1>t DEF Idle, FinalManifest, Item
  <2>2. zero \in BOOLEAN /\ finalized \in BOOLEAN /\ canceled \in BOOLEAN /\ returned \in BOOLEAN
    BY Zenon
  <2>3. /\ startCh \in Seq(Item) /\ Len(startCh) <= BufferSize
        /\ stepCh \in Seq(Item) /\ Len(stepCh) <= BufferSize
    BY <1>t
  <2> QED
    BY <1>t, <2>1, <2>2, <2>3 DEF TypeOK, Item, FinalManifest, Ended
<1>2. StreamOrder
  BY <1>t DEF StreamOrder
<1>3. InOrder
  <2>1. Cardinality((1..0) \ recorded) = 0
    BY FS_EmptySet
  <2>2. Behind(0) /\ Ahead(0) /\ Counted(0)
    BY <1>h, <2>1 DEF Behind, Ahead, Counted, Handed, Passed
  <2> QED
    BY <2>2 DEF InOrder
<1>4. OnePlace /\ Uploaded
  BY <1>h DEF OnePlace, Uploaded
<1>5. ManifestLast /\ ManifestNotLost
  BY <1>h DEF ManifestLast, ManifestNotLost, InStepCh
<1>6. LinksEnd
  BY <1>t, <1>h DEF LinksEnd, Ended
<1>7. TokensKept
  BY <1>t, FS_EmptySet DEF TokensKept
<1> QED
  BY <1>1, <1>2, <1>3, <1>4, <1>5, <1>6, <1>7 DEF Inv

-----------------------------------------------------------------------------
(* sendStream.                                                             *)

\* What sendStream does leaves the volumes it handed on where they are.
LEMMA StreamKeeps ==
    ASSUME Inv, OthersThanStream, UNCHANGED <<jobInfo, total>>,
           zfs = "ok" => zfs' = "ok", sender \in Ended => sender' \in Ended
    PROVE  /\ OnePlace' /\ Uploaded' /\ ManifestLast' /\ ManifestNotLost' /\ LinksEnd'
           /\ \A f : (Ahead(f) => Ahead(f)') /\ (Counted(f) => Counted(f)')
<1> USE DEF OthersThanStream, Inv, forward, collect
<1>1. OnePlace' /\ Uploaded'
  BY SameOnePlace, SameUploaded
<1>2. ManifestLast' /\ ManifestNotLost' /\ LinksEnd'
  BY SameManifestLast, SameManifestNotLost, SameLinksEnd
<1>3. \A f : (Ahead(f) => Ahead(f)') /\ (Counted(f) => Counted(f)')
  BY SameAhead, SameCounted
<1> QED
  BY <1>1, <1>2, <1>3

\* A step of sendStream that makes no volume and hands none on.
LEMMA NoVolumeHanded ==
    ASSUME Inv, OthersThanStream, UNCHANGED <<jobInfo, total, made, startCh, tokens>>,
           zfs' \in {"starting", "unstarted", "running"} \cup Ended,
           split' \in {"next", "token", "fill", "hand"} \cup Ended,
           sender' \in {"running"} \cup Ended,
           closed' \in 0..made, aborted' \subseteq 1..made, canceled' \in BOOLEAN,
           zfs = "ok" => zfs' = "ok", sender \in Ended => sender' \in Ended,
           StreamOrder', split' = "failed" \/ Handed' = Handed, split = "failed" => split' = "failed"
    PROVE  Inv'
<1> USE SameJob
<1>1. TypeOK'
  BY DEF Inv, TypeOK, OthersThanStream, forward, collect
<1>2. InOrder'
  <2>1. PICK f \in 0..made : Behind(f) /\ Ahead(f) /\ Counted(f)
    BY DEF Inv, InOrder
  <2>2. Behind(f)'
    BY <2>1 DEF Behind
  <2> QED
    BY <2>1, <2>2, StreamKeeps DEF InOrder
<1>3. TokensKept'
  BY SameTokens DEF Inv, OthersThanStream, collect
<1> QED
  BY <1>1, <1>2, <1>3, StreamKeeps DEF Inv

LEMMA ZfsStartsInv ==
    ASSUME Inv, ZfsStarts, OthersThanStream, UNCHANGED <<jobInfo, startCh, tokens>>
    PROVE  Inv'
<1>1. StreamOrder' /\ Handed' = Handed
  BY SameJob DEF ZfsStarts, Inv, StreamOrder, Handed, OthersThanStream, forward
<1> QED
  BY <1>1, NoVolumeHanded DEF ZfsStarts, Inv, TypeOK

LEMMA StartFailsInv ==
    ASSUME Inv, StartFails, OthersThanStream, UNCHANGED <<jobInfo, startCh, tokens>>
    PROVE  Inv'
<1>1. StreamOrder' /\ Handed' = Handed
  BY SameJob DEF StartFails, Cancel, Inv, StreamOrder, Handed, OthersThanStream, forward
<1> QED
  BY <1>1, NoVolumeHanded DEF StartFails, Cancel, Inv, TypeOK, Ended

LEMMA ZfsEndsInv ==
    ASSUME Inv, ZfsSucceeds \/ ZfsFails, OthersThanStream,
           UNCHANGED <<jobInfo, startCh, tokens, canceled>>
    PROVE  Inv'
<1>1. StreamOrder' /\ Handed' = Handed
  BY SameJob DEF ZfsSucceeds, ZfsFails, Inv, StreamOrder, Handed, OthersThanStream, forward
<1> QED
  BY <1>1, NoVolumeHanded DEF ZfsSucceeds, ZfsFails, Inv, TypeOK, Ended

LEMMA NextVolumeInv ==
    ASSUME Inv, NextVolume, OthersThanStream, UNCHANGED <<jobInfo, canceled>>
    PROVE  Inv'
<1>1. StreamOrder' /\ Handed' = Handed
  BY SameJob DEF NextVolume, Inv, StreamOrder, Handed, OthersThanStream, forward
<1> QED
  BY <1>1, NoVolumeHanded DEF NextVolume, Inv, TypeOK, Ended

\* A token is taken for the volume, unless the collector has gone.
LEMMA CreateVolumeInv ==
    ASSUME Inv, CreateVolume, OthersThanStream, UNCHANGED <<jobInfo, canceled>>
    PROVE  Inv'
<1> USE SameJob
<1>0. TypeOK /\ total \in Nat /\ made \in Nat /\ BufferSize \in Nat /\ made < total /\ tokens \in Nat
  BY Numbers DEF Inv, StreamOrder, CreateVolume
<1>1. TypeOK'
  <2>1. /\ made' \in 0..total /\ closed' \in 0..made' /\ tokens' \in 0..BufferSize
        /\ aborted' \subseteq 1..made'
    BY <1>0 DEF CreateVolume, TypeOK
  <2>2. split' \in {"next", "token", "fill", "hand"} \cup Ended
    BY DEF CreateVolume
  <2> QED
    BY <1>0, <2>1, <2>2 DEF TypeOK, CreateVolume, OthersThanStream, forward, collect
<1>2. StreamOrder'
  BY <1>0 DEF Inv, StreamOrder, CreateVolume, OthersThanStream, forward
<1>3. InOrder'
  <2>1. PICK f \in 0..made : Behind(f) /\ Ahead(f) /\ Counted(f)
    BY DEF Inv, InOrder
  <2>2. Behind(f)' /\ f \in 0..made'
    BY <1>0, <2>1 DEF Behind, Handed, CreateVolume, TypeOK
  <2> QED
    BY <2>1, <2>2, StreamKeeps DEF InOrder, CreateVolume
<1>4. TokensKept'
  BY <1>0, RecordedFinite DEF Inv, TokensKept, CreateVolume, OthersThanStream, collect
<1> QED
  BY <1>1, <1>2, <1>3, <1>4, StreamKeeps DEF Inv, CreateVolume

\* c <- volume: the next number, behind the others.
LEMMA HandVolumeInv ==
    ASSUME Inv, HandVolume, OthersThanStream, UNCHANGED <<jobInfo, canceled>>
    PROVE  Inv'
<1> USE SameJob
<1>0. TypeOK /\ total \in Nat /\ made \in Nat /\ BufferSize \in Nat /\ made <= total /\ total <= jobInfo.maxVolumes
      /\ jobInfo.maxVolumes \in Nat
  BY Numbers DEF Inv
<1>1. /\ startCh' \in Seq(Item) /\ Len(startCh') = Len(startCh) + 1 /\ Len(startCh) \in Nat
      /\ \A i \in 1..Len(startCh) : startCh'[i] = startCh[i]
      /\ startCh'[Len(startCh) + 1] = made
  BY <1>0 DEF HandVolume, TypeOK, Item
<1>2. TypeOK'
  BY <1>0, <1>1 DEF TypeOK, HandVolume, OthersThanStream, forward, collect
<1>3. StreamOrder'
  BY <1>0 DEF Inv, StreamOrder, HandVolume, OthersThanStream, forward
<1>4. InOrder'
  <2>1. PICK f \in 0..made : Behind(f) /\ Ahead(f) /\ Counted(f)
    BY DEF Inv, InOrder
  <2>2. f + Len(startCh) = made - 1 /\ Handed' = made
    BY <2>1 DEF Behind, Handed, HandVolume
  <2>3. \A i \in 1..Len(startCh') : startCh'[i] = f + i
    BY <1>0, <1>1, <2>1, <2>2 DEF Behind
  <2>4. Behind(f)' /\ made' = made
    BY <1>0, <1>1, <2>2, <2>3 DEF Behind, HandVolume
  <2> QED
    BY <2>1, <2>4, StreamKeeps DEF InOrder, HandVolume
<1>5. TokensKept'
  BY SameTokens DEF Inv, HandVolume, OthersThanStream, collect
<1> QED
  BY <1>2, <1>3, <1>4, <1>5, StreamKeeps DEF Inv, HandVolume

LEMMA SplitterStopsInv ==
    ASSUME Inv, HandCanceled \/ SplitterFails, OthersThanStream, UNCHANGED <<jobInfo, canceled>>
    PROVE  Inv'
<1>1. StreamOrder'
  BY DEF HandCanceled, SplitterFails, Inv, StreamOrder, OthersThanStream, forward
<1> QED
  BY <1>1, NoVolumeHanded DEF HandCanceled, SplitterFails, Inv, TypeOK, Ended

LEMMA FillVolumeInv ==
    ASSUME Inv, FillVolume, OthersThanStream, UNCHANGED <<jobInfo, canceled>>
    PROVE  Inv'
<1>0. total \in Nat /\ made \in Nat
  BY Numbers DEF Inv
<1>1. StreamOrder' /\ Handed' = Handed
  BY SameJob DEF FillVolume, Inv, StreamOrder, Handed, OthersThanStream, forward
<1> QED
  BY <1>0, <1>1, NoVolumeHanded DEF FillVolume, Inv, TypeOK, Ended

LEMMA AbortCurrentInv ==
    ASSUME Inv, AbortCurrent, OthersThanStream, UNCHANGED <<jobInfo, startCh, tokens, canceled>>
    PROVE  Inv'
<1>0. total \in Nat /\ made \in Nat
  BY Numbers DEF Inv
<1>1. StreamOrder' /\ Handed' = Handed
  BY SameJob DEF AbortCurrent, Inv, StreamOrder, Handed, OthersThanStream, forward
<1> QED
  BY <1>0, <1>1, NoVolumeHanded DEF AbortCurrent, Inv, TypeOK

\* startCh is closed only behind the whole stream.
LEMMA SendStreamReturnsInv ==
    ASSUME Inv, SendStreamReturns, OthersThanStream, UNCHANGED <<jobInfo, startCh, tokens>>
    PROVE  Inv'
<1>0. total \in Nat /\ made \in Nat
  BY Numbers DEF Inv
<1>1. StreamOrder' /\ Handed' = Handed
  BY SameJob DEF SendStreamReturns, Cancel, Inv, StreamOrder, Handed, OthersThanStream, forward
<1>2. aborted' \subseteq 1..made /\ canceled' \in BOOLEAN
  <2>1. aborted \subseteq 1..made /\ canceled \in BOOLEAN /\ {made} \ {0} \subseteq 1..made
    BY <1>0 DEF Inv, TypeOK
  <2>2. aborted' = aborted \/ aborted' = aborted \cup ({made} \ {0})
    BY DEF SendStreamReturns
  <2>3. canceled' = canceled \/ canceled' = TRUE
    BY DEF SendStreamReturns, Cancel
  <2> QED
    BY <2>1, <2>2, <2>3
<1> QED
  BY <1>0, <1>1, <1>2, NoVolumeHanded DEF SendStreamReturns, Inv, TypeOK, Ended

-----------------------------------------------------------------------------
(* The forwarder.                                                          *)

\* An item is written behind the others in stepCh.
LEMMA StepChGets ==
    ASSUME TypeOK, NEW v \in Item, Len(stepCh) < BufferSize, stepCh' = Append(stepCh, v)
    PROVE  /\ stepCh' \in Seq(Item) /\ Len(stepCh') = Len(stepCh) + 1 /\ Len(stepCh) \in Nat
           /\ Len(stepCh') <= BufferSize
           /\ \A i \in 1..Len(stepCh) : stepCh'[i] = stepCh[i]
           /\ stepCh'[Len(stepCh) + 1] = v
           /\ \A x : InStepCh(x)' <=> InStepCh(x) \/ x = v
<1>0. BufferSize \in Nat /\ stepCh \in Seq(Item) /\ Len(stepCh) \in Nat
  BY Sizes DEF TypeOK
<1>1. /\ stepCh' \in Seq(Item) /\ Len(stepCh') = Len(stepCh) + 1
      /\ Len(stepCh') <= BufferSize
      /\ \A i \in 1..Len(stepCh) : stepCh'[i] = stepCh[i]
      /\ stepCh'[Len(stepCh) + 1] = v
  BY <1>0
<1>2. \A i : i \in 1..Len(stepCh') <=> i \in 1..Len(stepCh) \/ i = Len(stepCh) + 1
  BY <1>0, <1>1
<1>3. \A x : InStepCh(x)' <=> InStepCh(x) \/ x = v
  BY <1>1, <1>2 DEF InStepCh
<1> QED
  BY <1>0, <1>1, <1>3

\* An item that is in no one's hands is then in one place.
LEMMA OnePlaceGets ==
    ASSUME TypeOK, OnePlace, NEW v \in Item, Len(stepCh) < BufferSize,
           stepCh' = Append(stepCh, v), UNCHANGED <<jobInfo, worker, collect>>,
           ~InStepCh(v), ~InHand(v), v \notin recorded, coll = "save" => collVol # v
    PROVE  OnePlace'
<1> USE SameJob
<1>1. /\ \A l, w : HasItem(l, w)' <=> HasItem(l, w)
      /\ \A x : InHand(x)' <=> InHand(x)
  BY DEF HasItem, InHand
<1>2. /\ Len(stepCh') = Len(stepCh) + 1 /\ Len(stepCh) \in Nat
      /\ \A i \in 1..Len(stepCh) : stepCh'[i] = stepCh[i]
      /\ stepCh'[Len(stepCh) + 1] = v
      /\ \A x : InStepCh(x)' <=> InStepCh(x) \/ x = v
  BY StepChGets
<1>3. \A i, j \in 1..Len(stepCh') : stepCh'[i] = stepCh'[j] => i = j
  <2>1. \A i \in 1..Len(stepCh) : stepCh[i] # v
    BY DEF InStepCh
  <2> QED
    BY <1>2, <2>1 DEF OnePlace
<1>4. \A l \in Link, w \in Worker : HasItem(l, w) => ~InStepCh(worker[l][w].vol)'
  BY <1>2 DEF OnePlace, InHand, InStepCh
<1>5. \A x \in recorded \cup (IF coll = "save" THEN {collVol} ELSE {}) :
         ~InStepCh(x)' /\ ~InHand(x)'
  BY <1>1, <1>2 DEF OnePlace
<1> QED
  BY <1>1, <1>3, <1>4, <1>5 DEF OnePlace, collect

LEMMA ForwarderTakesInv ==
    ASSUME Inv, ForwarderTakes,
           UNCHANGED <<jobInfo, stream, worker, link, collect, tokens, fin, finalized, at,
                       canceled, returned>>
    PROVE  Inv'
<1> USE SameJob DEF stream
<1>0. TypeOK /\ made \in Nat /\ total \in Nat /\ BufferSize \in Nat /\ startCh \in Seq(Item)
  BY Numbers DEF Inv
<1>1. PICK f \in 0..made : Behind(f) /\ Ahead(f) /\ Counted(f)
  BY DEF Inv, InOrder
<1>2. /\ startCh' \in Seq(Item) /\ Len(startCh') = Len(startCh) - 1 /\ Len(startCh) \in Nat \ {0}
      /\ \A i \in 1..Len(startCh') : startCh'[i] = startCh[i + 1]
      /\ fwdVol' = startCh[1] /\ fwdVol' \in Item
  BY <1>0 DEF ForwarderTakes
<1>3. /\ fwdVol' = f + 1 /\ f + 1 \in 0..made
  BY <1>0, <1>1, <1>2 DEF Behind
<1>4. Behind(f + 1)'
  <2>1. \A i \in 1..Len(startCh') : startCh'[i] = (f + 1) + i
    BY <1>0, <1>1, <1>2 DEF Behind
  <2>2. (f + 1) + Len(startCh') = f + Len(startCh)
    BY <1>2
  <2> QED
    BY <1>1, <2>1, <2>2 DEF Behind, Handed
<1>5. Ahead(f + 1)'
  <2>1. Passed(f) = f /\ Passed(f + 1)' = f /\ fwd' = "hand"
    BY DEF Passed, ForwarderTakes
  <2> QED
    BY <1>1, <1>3, <2>1, SamePlaces DEF Ahead, ForwarderTakes, collect
<1>6. Counted(f + 1)' /\ ~zero
  <2>1. recorded \subseteq 1..f
    BY <1>1 DEF Ahead, Passed, ForwarderTakes
  <2>2. (1..(f + 1)) \ recorded = ((1..f) \ recorded) \cup {f + 1} /\ f + 1 \notin recorded
    BY <2>1
  <2>3. /\ Cardinality((1..(f + 1)) \ recorded) = Cardinality((1..f) \ recorded) + 1
        /\ Cardinality((1..f) \ recorded) \in Nat
    <3>1. IsFiniteSet((1..f) \ recorded) /\ Cardinality((1..f) \ recorded) \in Nat
      BY MissingFinite
    <3>2. f + 1 \notin (1..f) \ recorded
      OBVIOUS
    <3> QED
      BY <2>2, <3>1, <3>2, FS_AddElement
  <2> QED
    BY <1>0, <1>1, <2>3 DEF Counted, ForwarderTakes, TypeOK, collect
<1>7. InOrder'
  BY <1>3, <1>4, <1>5, <1>6 DEF InOrder
<1>8. TypeOK'
  BY <1>0, <1>2 DEF TypeOK, ForwarderTakes, collect
<1>9. StreamOrder'
  BY DEF Inv, StreamOrder, ForwarderTakes
<1>10. ManifestLast'
  <2>1. ~Whole
    BY DEF Whole, ForwarderTakes
  <2> QED
    BY <2>1, SamePlaces DEF Inv, ManifestLast, ForwarderTakes, collect
<1> QED
  BY <1>7, <1>8, <1>9, <1>10, SameOnePlace, SameUploaded, SameManifestNotLost, SameLinksEnd,
     SameTokens DEF Inv, ForwarderTakes, collect

\* The forwarder's volume is the last it took: nothing further on is it.
LEMMA ForwarderPassesInv ==
    ASSUME Inv, ForwarderPasses,
           UNCHANGED <<jobInfo, stream, worker, link, collect, tokens, fin, finalized, at,
                       canceled, returned>>
    PROVE  Inv'
<1> USE SameJob DEF stream
<1>0. TypeOK /\ made \in Nat /\ total \in Nat /\ BufferSize \in Nat
  BY Numbers DEF Inv
<1>1. PICK f \in 0..made : Behind(f) /\ Ahead(f) /\ Counted(f)
  BY DEF Inv, InOrder
<1>2. fwdVol = f /\ f > 0 /\ Passed(f) = f - 1 /\ Passed(f)' = f /\ fwdVol \in Item
  BY <1>0, <1>1 DEF ForwarderPasses, Ahead, Passed, TypeOK
<1>3. /\ stepCh' \in Seq(Item) /\ Len(stepCh') = Len(stepCh) + 1 /\ Len(stepCh) \in Nat
      /\ Len(stepCh') <= BufferSize
      /\ \A i \in 1..Len(stepCh) : stepCh'[i] = stepCh[i]
      /\ stepCh'[Len(stepCh) + 1] = fwdVol
      /\ \A x : InStepCh(x)' <=> InStepCh(x) \/ x = fwdVol
  BY <1>0, <1>2, StepChGets DEF ForwarderPasses
<1>4. \A l, w : HasItem(l, w)' <=> HasItem(l, w)
  BY DEF HasItem
<1>5. Ahead(f)'
  <2>1. \A i \in 1..Len(stepCh') : stepCh'[i] <= f
    <3>1. \A i \in 1..Len(stepCh) : stepCh[i] <= f - 1 /\ stepCh[i] \in Nat
      BY <1>0, <1>1, <1>2, ItemsAreNumbers DEF Ahead
    <3> QED
      BY <1>2, <1>3, <3>1
  <2>2. \A l \in Link, w \in Worker : HasItem(l, w) => worker[l][w].vol <= f
    BY <1>0, <1>1, <1>2 DEF Ahead, TypeOK, Item
  <2>3. (coll = "save" => collVol \in 1..f) /\ recorded \subseteq 1..f
    BY <1>0, <1>1, <1>2 DEF Ahead
  <2> QED
    BY <1>2, <1>4, <2>1, <2>2, <2>3 DEF Ahead, ForwarderPasses, collect
<1>6. Counted(f)' /\ ~zero
  BY <1>1 DEF Counted, ForwarderPasses, collect
<1>7. InOrder'
  BY <1>1, <1>5, <1>6, SameBehind DEF InOrder, ForwarderPasses
<1>8. TypeOK'
  BY <1>0, <1>3 DEF TypeOK, ForwarderPasses, collect
<1>9. StreamOrder'
  BY DEF Inv, StreamOrder, ForwarderPasses
<1>10. OnePlace'
  <2>1. ~InStepCh(fwdVol)
    BY <1>0, <1>1, <1>2 DEF InStepCh, Ahead, TypeOK
  <2>2. ~InHand(fwdVol)
    BY <1>0, <1>1, <1>2 DEF InHand, Ahead, TypeOK
  <2>3. fwdVol \notin recorded /\ (coll = "save" => collVol # fwdVol)
    BY <1>1, <1>2 DEF Ahead
  <2> QED
    BY <1>0, <1>2, <2>1, <2>2, <2>3, OnePlaceGets DEF Inv, ForwarderPasses
<1>11. ManifestLast' /\ ManifestNotLost' /\ LinksEnd'
  <2>1. ~Whole
    BY DEF Whole, ForwarderPasses
  <2>2. fin \notin {"save", "hand", "ok"} /\ ~finalized
    BY <2>1 DEF Inv, ManifestLast
  <2>3. ~InStepCh(FinalManifest)'
    BY <1>2, <1>3, <2>2 DEF Inv, ManifestLast, FinalManifest
  <2>4. ManifestLast'
    BY <1>4, <2>2, <2>3 DEF Inv, ManifestLast
  <2>5. ManifestNotLost' /\ LinksEnd'
    BY <2>2 DEF Inv, ManifestNotLost, LinksEnd, AllEnded, collect
  <2> QED
    BY <2>4, <2>5
<1> QED
  BY <1>7, <1>8, <1>9, <1>10, <1>11, SameUploaded, SameTokens DEF Inv, collect

\* The forwarder's own count: when it brings pending to zero, nothing is missing.
LEMMA ForwarderEndsInv ==
    ASSUME Inv, ForwarderEnds,
           UNCHANGED <<jobInfo, stream, worker, link, collect, tokens, fin, finalized, at,
                       canceled, returned>>
    PROVE  Inv'
<1> USE SameJob DEF stream
<1>0. TypeOK /\ made \in Nat /\ total \in Nat /\ fwd # "done"
  BY Numbers DEF Inv, ForwarderEnds
<1>1. PICK f \in 0..made : Behind(f) /\ Ahead(f) /\ Counted(f)
  BY DEF Inv, InOrder
<1>2. Ahead(f)'
  <2>1. Passed(f)' = f /\ Passed(f) <= f /\ Passed(f) \in Int /\ fwd' = "done"
    BY <1>0 DEF Passed, ForwarderEnds
  <2>2. \A i \in 1..Len(stepCh) : stepCh[i] <= f
    BY <1>0, <1>1, <2>1, ItemsAreNumbers DEF Ahead
  <2>3. \A l \in Link, w \in Worker : HasItem(l, w) => worker[l][w].vol <= f
    BY <1>0, <1>1, <2>1 DEF Ahead, TypeOK, Item
  <2>4. (coll = "save" => collVol \in 1..f) /\ recorded \subseteq 1..f
    BY <1>1, <2>1 DEF Ahead
  <2> QED
    BY <2>1, <2>2, <2>3, <2>4, SamePlaces DEF Ahead, ForwarderEnds, collect
<1>3. Counted(f)'
  <2>1. IsFiniteSet((1..f) \ recorded) /\ Cardinality((1..f) \ recorded) \in Nat
    BY MissingFinite
  <2>2. pending \in Int /\ pending - 1 >= Cardinality((1..f) \ recorded) /\ ~zero
    BY <1>0, <1>1, <2>1 DEF Counted, TypeOK
  <2>3. pending = 1 => 1..f \subseteq recorded
    <3>1. pending = 1 => Cardinality((1..f) \ recorded) = 0
      BY <2>1, <2>2
    <3>2. Cardinality((1..f) \ recorded) = 0 => (1..f) \ recorded = {}
      BY <2>1, FS_EmptySet
    <3> QED
      BY <3>1, <3>2
  <2>4. pending' = pending - 1 /\ (zero' => pending = 1) /\ fwd' = "done" /\ recorded' = recorded
    BY <2>2 DEF ForwarderEnds, PendingDone, collect
  <2> QED
    BY <2>1, <2>2, <2>3, <2>4 DEF Counted
<1>4. InOrder'
  BY <1>1, <1>2, <1>3, SameBehind DEF InOrder, ForwarderEnds
<1>5. TypeOK'
  <2>1. zero' \in BOOLEAN /\ pending' \in Int
    BY <1>0 DEF ForwarderEnds, PendingDone, TypeOK
  <2> QED
    BY <1>0, <2>1 DEF TypeOK, ForwarderEnds, collect
<1>6. StreamOrder'
  BY DEF Inv, StreamOrder, ForwarderEnds
<1>7. ManifestLast'
  <2>1. ~Whole
    BY <1>0 DEF Whole
  <2> QED
    BY <2>1, SamePlaces DEF Inv, ManifestLast, ForwarderEnds, collect
<1> QED
  BY <1>4, <1>5, <1>6, <1>7, SameOnePlace, SameUploaded, SameManifestNotLost, SameLinksEnd,
     SameTokens DEF Inv, ForwarderEnds, collect

-----------------------------------------------------------------------------
(* The links: one worker at a time, or two when an item is passed on.      *)

\* The type of the workers' state.
Workers == [Link -> [Worker -> [pc : {"recv", "upload", "hand"} \cup Ended, vol : Item]]]

\* A worker is at its next step; a worker, or two of different links, get or give an item.
Moves(l, w, pc) == worker' = [worker EXCEPT ![l][w].pc = pc]
Sets(l, w, r) == worker' = [worker EXCEPT ![l][w] = r]
SetsTwo(l, w, r, k, u, q) == worker' = [worker EXCEPT ![l][w] = r, ![k][u] = q]

LEMMA WorkerMoves ==
    ASSUME TypeOK, NEW l \in Link, NEW w \in Worker,
           NEW pc \in {"recv", "upload", "hand"} \cup Ended,
           Moves(l, w, pc)
    PROVE  /\ worker' \in Workers
           /\ worker'[l][w].pc = pc /\ worker'[l][w].vol = worker[l][w].vol
           /\ \A k \in Link, u \in Worker : k # l \/ u # w => worker'[k][u] = worker[k][u]
<1> DEFINE R == [pc : {"recv", "upload", "hand"} \cup Ended, vol : Item]
           r == [worker[l][w] EXCEPT !.pc = pc]
<1>0. worker \in [Link -> [Worker -> R]]
  BY DEF TypeOK
<1>1. r \in R /\ r.pc = pc /\ r.vol = worker[l][w].vol
  <2>1. worker[l][w] \in R
    BY <1>0
  <2> QED
    BY <2>1
<1> HIDE DEF R, r
<1>2. worker' = [worker EXCEPT ![l] = [worker[l] EXCEPT ![w] = r]]
  BY DEF r, Moves
<1>3. [worker[l] EXCEPT ![w] = r] \in [Worker -> R]
  BY <1>0, <1>1
<1>4. worker' \in [Link -> [Worker -> R]]
  BY <1>0, <1>2, <1>3
<1>5. worker'[l][w] = r
  BY <1>0, <1>2
<1>6. \A k \in Link, u \in Worker : k # l \/ u # w => worker'[k][u] = worker[k][u]
  BY <1>0, <1>2
<1> QED
  BY <1>1, <1>4, <1>5, <1>6 DEF Workers, R

LEMMA WorkerSet ==
    ASSUME TypeOK, NEW l \in Link, NEW w \in Worker,
           NEW r \in [pc : {"recv", "upload", "hand"} \cup Ended, vol : Item],
           Sets(l, w, r)
    PROVE  /\ worker' \in Workers
           /\ worker'[l][w] = r
           /\ \A k \in Link, u \in Worker : k # l \/ u # w => worker'[k][u] = worker[k][u]
BY DEF TypeOK, Workers, Sets

LEMMA TwoWorkersSet ==
    ASSUME TypeOK, NEW l \in Link, NEW w \in Worker, NEW k \in Link, NEW u \in Worker, k # l,
           NEW r \in [pc : {"recv", "upload", "hand"} \cup Ended, vol : Item],
           NEW q \in [pc : {"recv", "upload", "hand"} \cup Ended, vol : Item],
           SetsTwo(l, w, r, k, u, q)
    PROVE  /\ worker' \in Workers
           /\ worker'[l][w] = r /\ worker'[k][u] = q
           /\ \A j \in Link, x \in Worker :
                (j # l \/ x # w) /\ (j # k \/ x # u) => worker'[j][x] = worker[j][x]
BY DEF TypeOK, Workers, SetsTwo

\* What a worker takes.
LEMMA TakenType ==
    ASSUME NEW l, NEW v \in Item
    PROVE  /\ Taken(l, v) \in [pc : {"recv", "upload", "hand"} \cup Ended, vol : Item]
           /\ Taken(l, v).vol = v /\ Taken(l, v).pc \in {"upload", "failed"}
<1>1. Taken(l, v).pc \in {"upload", "failed"} /\ Taken(l, v).vol = v
  BY DEF Taken
<1> QED
  BY <1>1 DEF Taken, Ended

LEMMA IdleType ==
    ASSUME jobInfo \in Jobs
    PROVE  /\ Idle \in [pc : {"recv", "upload", "hand"} \cup Ended, vol : Item]
           /\ Idle.pc = "recv"
BY Sizes DEF Idle, FinalManifest, Item

\* What the links leave alone.
LEMMA LinksKeep ==
    ASSUME Inv, OthersThanLinks, UNCHANGED jobInfo
    PROVE  /\ \A f : (Behind(f) => Behind(f)') /\ (UNCHANGED recorded /\ Counted(f) => Counted(f)')
           /\ canceled' = canceled \/ canceled' = TRUE => StreamOrder'
<1> USE SameJob DEF OthersThanLinks, forward
<1>1. \A f : (Behind(f) => Behind(f)')
  BY SameBehind
<1>2. \A f : (UNCHANGED recorded /\ Counted(f) => Counted(f)')
  BY SameCounted
<1>3. canceled' = canceled \/ canceled' = TRUE => StreamOrder'
  BY DEF Inv, StreamOrder
<1> QED
  BY <1>1, <1>2, <1>3

\* Types of a step of a link.
LEMMA LinksType ==
    ASSUME TypeOK, OthersThanLinks, UNCHANGED <<jobInfo, recorded>>,
           worker' \in Workers, link' \in [Link -> {"open", "closed"} \cup Ended],
           stepCh' \in Seq(Item), Len(stepCh') <= BufferSize,
           at' \in [Uploads -> SUBSET Item], aborted' \subseteq 1..made,
           coll' \in {"recv", "save", "token"} \cup Ended, collVol' \in Item,
           canceled' \in BOOLEAN
    PROVE  TypeOK'
BY SameJob DEF TypeOK, OthersThanLinks, forward, Workers

\* A worker stops, with or without an error: what it held is lost with it.
LEMMA WorkerStops ==
    ASSUME Inv, NEW l \in Link, NEW w \in Worker, NEW pc \in Ended,
           worker[l][w].pc \notin Ended, Moves(l, w, pc),
           pc = "ok" => ~HasItem(l, w) /\ (l = 1 => stepCh = <<>> /\ fin = "ok"),
           aborted' \subseteq 1..made,
           UNCHANGED <<jobInfo, stepCh, link, at, canceled, collect>>, OthersThanLinks
    PROVE  Inv'
<1> USE SameJob DEF collect
<1>0. TypeOK /\ 1 \in Link /\ total' = total /\ UNCHANGED <<fwd, fwdVol, fin, finalized, zfs, sender>>
  BY Numbers DEF Inv, OthersThanLinks, forward
<1>1. /\ worker' \in Workers
      /\ worker'[l][w].pc = pc /\ worker'[l][w].vol = worker[l][w].vol
      /\ \A k \in Link, u \in Worker : k # l \/ u # w => worker'[k][u] = worker[k][u]
  <2>1. pc \in {"recv", "upload", "hand"} \cup Ended
    OBVIOUS
  <2> QED
    BY <1>0, <2>1, WorkerMoves
<1>2. \A k \in Link, u \in Worker :
        HasItem(k, u)' => HasItem(k, u) /\ worker'[k][u] = worker[k][u]
  BY <1>1 DEF HasItem, Ended
<1>3. \A v : (InHand(v)' => InHand(v)) /\ (InStepCh(v)' <=> InStepCh(v))
  BY <1>2 DEF InHand, InStepCh
<1>4. TypeOK'
  BY <1>0, <1>1, LinksType DEF TypeOK
<1>5. InOrder'
  <2>1. PICK f \in 0..made : Behind(f) /\ Ahead(f) /\ Counted(f)
    BY DEF Inv, InOrder
  <2>2. Ahead(f)'
    BY <1>0, <1>2, <2>1 DEF Ahead, Passed
  <2> QED
    BY <2>1, <2>2, LinksKeep DEF InOrder, OthersThanLinks
<1>6. OnePlace'
  BY <1>2, <1>3 DEF Inv, OnePlace
<1>7. Uploaded'
  BY <1>0, <1>2 DEF Inv, Uploaded
<1>8. ManifestLast'
  <2>1. Whole' = Whole
    BY <1>0 DEF Whole
  <2>2. ASSUME NEW k \in Link, NEW u \in Worker, HasItem(k, u)', worker'[k][u].vol = FinalManifest
        PROVE  /\ fin = "ok"
               /\ \A d \in Uploads : d > k \/ (d = k /\ worker'[k][u].pc = "upload")
                                       => FinalManifest \notin at[d]
    <3>1. HasItem(k, u) /\ worker[k][u].vol = FinalManifest /\ worker'[k][u] = worker[k][u]
      BY <1>2, <2>2
    <3> QED
      BY <3>1 DEF Inv, ManifestLast
  <2> QED
    BY <1>0, <1>3, <2>1, <2>2 DEF Inv, ManifestLast
<1>9. ManifestNotLost'
  <2>1. HasItem(l, w) => SomeWorkerFailed'
    BY <1>1 DEF SomeWorkerFailed, Ended
  <2>2. SomeWorkerFailed => SomeWorkerFailed'
    BY <1>1 DEF SomeWorkerFailed, Ended
  <2>3. \A v : InHand(v) => InHand(v)' \/ SomeWorkerFailed'
    BY <1>1, <2>1 DEF InHand, HasItem
  <2> QED
    BY <1>0, <1>3, <2>2, <2>3 DEF Inv, ManifestNotLost
<1>10. LinksEnd'
  <2>1. link[l] = "open"
    BY DEF Inv, LinksEnd
  <2>2. \A k \in Link, u \in Worker :
          /\ link[k] # "open" => worker'[k][u].pc \in Ended
          /\ link[k] = "ok" => worker'[k][u].pc = "ok"
    BY <1>1, <2>1 DEF Inv, LinksEnd
  <2>3. \A u \in Worker : worker'[1][u].pc = "ok" => stepCh = <<>> /\ fin = "ok"
    BY <1>0, <1>1 DEF Inv, LinksEnd
  <2> QED
    BY <1>0, <2>2, <2>3 DEF Inv, LinksEnd, AllEnded, OthersThanLinks
<1> QED
  BY <1>4, <1>5, <1>6, <1>7, <1>8, <1>9, <1>10, LinksKeep, SameTokens DEF Inv, OthersThanLinks

LEMMA UploadFailsInv ==
    ASSUME Inv, NEW l \in Link, NEW w \in Worker, UploadFails(l, w), OthersThanLinks,
           UNCHANGED jobInfo
    PROVE  Inv'
<1>1. worker[l][w].pc \notin Ended /\ "failed" \in Ended
  BY DEF UploadFails, Ended
<1>2. aborted' \subseteq 1..made
  <2>1. PICK f \in 0..made : Ahead(f)
    BY DEF Inv, InOrder
  <2>2. TypeOK /\ made \in Nat /\ total \in Nat
    BY Numbers DEF Inv
  <2>3. worker[l][w].vol \in Nat /\ worker[l][w].vol <= f
    BY <2>1, <2>2, ItemsAreNumbers DEF Ahead, Passed, HasItem, UploadFails
  <2>4. {worker[l][w].vol} \ {FinalManifest} \subseteq 1..made
    BY <2>2, <2>3 DEF FinalManifest
  <2> QED
    BY <2>2, <2>4 DEF UploadFails, TypeOK
<1> QED
  BY <1>1, <1>2, WorkerStops DEF UploadFails, Moves

LEMMA WorkerCanceledInv ==
    ASSUME Inv, NEW l \in Link, NEW w \in Worker, WorkerCanceled(l, w), OthersThanLinks,
           UNCHANGED jobInfo
    PROVE  Inv'
<1>1. worker[l][w].pc \notin Ended /\ "failed" \in Ended
  BY DEF WorkerCanceled, Ended
<1> QED
  BY <1>1, WorkerStops DEF WorkerCanceled, Moves, Inv, TypeOK

LEMMA WorkerEndsInv ==
    ASSUME Inv, NEW l \in Link, NEW w \in Worker, WorkerEnds(l, w), OthersThanLinks,
           UNCHANGED jobInfo
    PROVE  Inv'
<1>1. worker[l][w].pc \notin Ended /\ "ok" \in Ended /\ ~HasItem(l, w)
  BY DEF WorkerEnds, Ended, HasItem
<1>2. l = 1 => stepCh = <<>> /\ fin = "ok"
  BY DEF WorkerEnds, InClosed
<1> QED
  BY <1>1, <1>2, WorkerStops DEF WorkerEnds, Moves, Inv, TypeOK

\* A worker whose item is not at its last step: its link is open.
LEMMA AtWork ==
    ASSUME Inv, NEW l \in Link, NEW w \in Worker, worker[l][w].pc \notin Ended
    PROVE  link[l] = "open" /\ ~returned
<1>1. link[l] = "open"
  BY DEF Inv, LinksEnd
<1> QED
  BY <1>1 DEF Inv, LinksEnd, AllEnded, Ended

\* The item is whole at the destination; the worker still has it.
LEMMA UploadDoneInv ==
    ASSUME Inv, NEW l \in Link, NEW w \in Worker, UploadDone(l, w), OthersThanLinks,
           UNCHANGED jobInfo
    PROVE  Inv'
<1> DEFINE v == worker[l][w].vol
<1> USE SameJob DEF collect
<1>0. /\ TypeOK /\ 1 \in Link /\ total' = total /\ UNCHANGED <<fwd, fwdVol, fin, finalized, zfs, sender>>
      /\ made \in Nat /\ total \in Nat /\ made <= total /\ Uploads \subseteq Nat /\ Link \subseteq Nat
      /\ UNCHANGED <<stepCh, link, aborted, canceled, coll, collVol, recorded>>
  BY Numbers DEF Inv, OthersThanLinks, forward, UploadDone
<1>1. /\ worker' \in Workers
      /\ worker'[l][w].pc = "hand" /\ worker'[l][w].vol = v
      /\ \A k \in Link, u \in Worker : k # l \/ u # w => worker'[k][u] = worker[k][u]
  <2>1. Moves(l, w, "hand") /\ "hand" \in {"recv", "upload", "hand"} \cup Ended
    BY DEF UploadDone, Moves
  <2> QED
    BY <1>0, <2>1, WorkerMoves
<1>2. \A k \in Link, u \in Worker :
        (HasItem(k, u)' <=> HasItem(k, u)) /\ worker'[k][u].vol = worker[k][u].vol
  BY <1>1 DEF HasItem, UploadDone
<1>3. \A x : (InHand(x)' <=> InHand(x)) /\ (InStepCh(x)' <=> InStepCh(x))
  BY <1>0, <1>2 DEF InHand, InStepCh
<1>4. PICK f \in 0..made : Behind(f) /\ Ahead(f) /\ Counted(f)
  BY DEF Inv, InOrder
<1>5. HasItem(l, w) /\ v \in Item /\ v \in 0..total
  BY <1>0, <1>4, ItemsAreNumbers DEF HasItem, UploadDone, Ahead, Passed
<1>6. /\ at' \in [Uploads -> SUBSET Item]
      /\ \A d \in Uploads : d # l => at'[d] = at[d]
      /\ l \in Uploads => at'[l] = at[l] \cup {v}
  <2> HIDE DEF v
  <2>1. at' = IF l \in Uploads THEN [at EXCEPT ![l] = @ \cup {v}] ELSE at
    BY DEF UploadDone, v
  <2> QED
    BY <1>0, <1>5, <2>1 DEF TypeOK
<1>7. TypeOK'
  BY <1>0, <1>1, <1>6, LinksType DEF TypeOK
<1>8. InOrder'
  <2>1. Ahead(f)'
    BY <1>0, <1>2, <1>4 DEF Ahead, Passed
  <2> QED
    BY <1>0, <1>4, <2>1, LinksKeep DEF InOrder, OthersThanLinks
<1>9. OnePlace'
  <2>1. OnePlace /\ UNCHANGED <<stepCh, coll, collVol, recorded>>
    BY <1>0 DEF Inv
  <2>2. \A k \in Link, u \in Worker : HasItem(k, u)' => ~InStepCh(worker[k][u].vol)'
    BY <1>2, <2>1 DEF OnePlace, InStepCh
  <2>3. \A k, j \in Link, u, x \in Worker :
          HasItem(k, u)' /\ HasItem(j, x)' /\ worker'[k][u].vol = worker'[j][x].vol
          => k = j /\ u = x
    BY <1>2, <2>1 DEF OnePlace
  <2> QED
    BY <1>3, <2>1, <2>2, <2>3 DEF OnePlace
<1>10. Uploaded'
  <2>1. \A d \in Uploads : at[d] \subseteq at'[d] /\ at'[d] \subseteq 0..total
    BY <1>5, <1>6 DEF Inv, Uploaded
  <2>2. ASSUME NEW k \in Link, NEW u \in Worker, HasItem(k, u)', NEW d \in Uploads,
               d < k \/ (d = k /\ worker'[k][u].pc = "hand")
        PROVE  worker'[k][u].vol \in at'[d]
    <3>1. CASE k = l /\ u = w
      BY <1>1, <1>5, <1>6, <2>1, <2>2, <3>1 DEF Inv, Uploaded
    <3>2. CASE k # l \/ u # w
      BY <1>1, <1>2, <2>1, <2>2, <3>2 DEF Inv, Uploaded
    <3> QED
      BY <3>1, <3>2
  <2> QED
    BY <1>0, <2>1, <2>2 DEF Inv, Uploaded
<1>11. ManifestLast'
  <2>0. Whole' = Whole
    BY <1>0 DEF Whole
  <2>1. v = FinalManifest => fin = "ok" /\ ~InStepCh(FinalManifest)
    BY <1>5 DEF Inv, ManifestLast, OnePlace
  <2>2. \A d \in Uploads : FinalManifest \in at'[d] => fin = "ok"
    BY <1>6, <2>1 DEF Inv, ManifestLast
  <2>3. InStepCh(FinalManifest) => \A d \in Uploads : FinalManifest \notin at'[d]
    BY <1>6, <2>1 DEF Inv, ManifestLast
  <2>4. ASSUME NEW k \in Link, NEW u \in Worker, HasItem(k, u)', worker'[k][u].vol = FinalManifest,
               NEW d \in Uploads, d > k \/ (d = k /\ worker'[k][u].pc = "upload")
        PROVE  FinalManifest \notin at'[d]
    <3>1. HasItem(k, u) /\ worker[k][u].vol = FinalManifest
      BY <1>2, <2>4
    <3>2. CASE k = l /\ u = w
      <4>1. d > l
        BY <1>1, <2>4, <3>2
      <4> QED
        BY <1>0, <1>6, <3>1, <3>2, <4>1 DEF Inv, ManifestLast
    <3>3. CASE k # l \/ u # w
      <4>1. v # FinalManifest
        BY <1>5, <3>1, <3>3 DEF Inv, OnePlace
      <4>2. FinalManifest \notin at[d]
        BY <1>1, <2>4, <3>1, <3>3 DEF Inv, ManifestLast
      <4> QED
        BY <1>6, <4>1, <4>2
    <3> QED
      BY <3>2, <3>3
  <2>5. ASSUME NEW k \in Link, NEW u \in Worker, HasItem(k, u)', worker'[k][u].vol = FinalManifest
        PROVE  fin = "ok"
    BY <1>2, <2>5 DEF Inv, ManifestLast
  <2> QED
    BY <1>0, <1>3, <2>0, <2>2, <2>3, <2>4, <2>5 DEF Inv, ManifestLast
<1>12. ManifestNotLost'
  <2>1. SomeWorkerFailed => SomeWorkerFailed'
    BY <1>1 DEF SomeWorkerFailed, UploadDone
  <2>2. \A d \in Uploads : at[d] \subseteq at'[d]
    BY <1>6
  <2> QED
    BY <1>0, <1>3, <2>1, <2>2 DEF Inv, ManifestNotLost
<1>13. LinksEnd'
  <2>1. link[l] = "open" /\ ~returned
    BY AtWork DEF UploadDone, Ended
  <2>2. \A k \in Link, u \in Worker :
          /\ link[k] # "open" => worker'[k][u].pc \in Ended
          /\ link[k] = "ok" => worker'[k][u].pc = "ok"
    BY <1>1, <2>1 DEF Inv, LinksEnd
  <2>3. \A u \in Worker : worker'[1][u].pc = "ok" => stepCh = <<>> /\ fin = "ok"
    BY <1>0, <1>1 DEF Inv, LinksEnd
  <2>4. ~returned'
    BY <2>1 DEF OthersThanLinks
  <2> QED
    BY <1>0, <2>2, <2>3, <2>4 DEF LinksEnd
<1> QED
  BY <1>0, <1>7, <1>8, <1>9, <1>10, <1>11, <1>12, <1>13, LinksKeep, SameTokens
     DEF Inv, OthersThanLinks

\* A worker of the first link takes the item that waits longest.
LEMMA TakeFromStepChInv ==
    ASSUME Inv, NEW w \in Worker, TakeFromStepCh(w), OthersThanLinks, UNCHANGED jobInfo
    PROVE  Inv'
<1>v. PICK v : v = stepCh[1]
  OBVIOUS
<1>r. PICK r : r = Taken(1, v)
  OBVIOUS
<1> USE SameJob DEF collect
<1>0. /\ TypeOK /\ 1 \in Link /\ total' = total /\ UNCHANGED <<fwd, fwdVol, fin, finalized, zfs, sender>>
      /\ Link \subseteq Nat \ {0} /\ Uploads \subseteq Nat \ {0} /\ BufferSize \in Nat /\ stepCh \in Seq(Item)
      /\ UNCHANGED <<link, at, aborted, canceled, coll, collVol, recorded>>
      /\ worker[1][w].pc = "recv" /\ stepCh # <<>> /\ Len(stepCh) <= BufferSize
  BY Numbers DEF Inv, OthersThanLinks, forward, TakeFromStepCh
<1>1. /\ Len(stepCh) \in Nat \ {0} /\ v \in Item /\ Head(stepCh) = v
      /\ stepCh' \in Seq(Item) /\ Len(stepCh') = Len(stepCh) - 1
      /\ \A i \in 1..Len(stepCh') : stepCh'[i] = stepCh[i + 1]
  BY <1>0, <1>v DEF TakeFromStepCh
<1>2. r.vol = v /\ r.pc \in {"upload", "failed"}
      /\ r \in [pc : {"recv", "upload", "hand"} \cup Ended, vol : Item]
  BY <1>1, <1>r, TakenType
<1>3. /\ worker' \in Workers /\ worker'[1][w] = r
      /\ \A k \in Link, u \in Worker : k # 1 \/ u # w => worker'[k][u] = worker[k][u]
  <2>1. Sets(1, w, r)
    BY <1>1, <1>r DEF TakeFromStepCh, Sets
  <2> QED
    BY <1>0, <1>2, <2>1, WorkerSet
<1>4. \A k \in Link, u \in Worker : HasItem(k, u)' =>
        \/ k = 1 /\ u = w /\ worker'[k][u].vol = v /\ worker'[k][u].pc = "upload"
        \/ (k # 1 \/ u # w) /\ HasItem(k, u) /\ worker'[k][u] = worker[k][u]
  BY <1>2, <1>3 DEF HasItem
<1>5. /\ \A x : InStepCh(x) <=> InStepCh(x)' \/ x = v
      /\ ~InStepCh(v)'
      /\ \A i, j \in 1..Len(stepCh') : stepCh'[i] = stepCh'[j] => i = j
  <2>1. \A i \in 1..Len(stepCh') : i + 1 \in 1..Len(stepCh)
    BY <1>1
  <2>2. \A i \in 1..Len(stepCh) : i = 1 \/ i - 1 \in 1..Len(stepCh')
    BY <1>1
  <2>3. \A i \in 1..Len(stepCh) : i # 1 => stepCh[i] = stepCh'[i - 1]
    BY <1>1, <2>2
  <2>4. \A i, j \in 1..Len(stepCh) : stepCh[i] = stepCh[j] => i = j
    BY DEF Inv, OnePlace
  <2>5. \A x : InStepCh(x) => InStepCh(x)' \/ x = v
    BY <1>v, <2>2, <2>3 DEF InStepCh
  <2>6. \A x : InStepCh(x)' => InStepCh(x)
    BY <1>1, <2>1 DEF InStepCh
  <2>7. InStepCh(v)
    BY <1>1, <1>v DEF InStepCh
  <2>8. ~InStepCh(v)'
    BY <1>1, <1>v, <2>1, <2>4 DEF InStepCh
  <2>9. \A i, j \in 1..Len(stepCh') : stepCh'[i] = stepCh'[j] => i = j
    BY <1>1, <2>1, <2>4
  <2> QED
    BY <2>5, <2>6, <2>7, <2>8, <2>9
<1>6. InStepCh(v) /\ ~InHand(v) /\ v \notin recorded /\ (coll = "save" => collVol # v)
  BY <1>5 DEF Inv, OnePlace, InHand
<1>7. \A x : InHand(x)' => InHand(x) \/ x = v
  BY <1>4 DEF InHand
<1>8. PICK f \in 0..made : Behind(f) /\ Ahead(f) /\ Counted(f)
  BY DEF Inv, InOrder
<1>9. TypeOK'
  BY <1>0, <1>1, <1>3, LinksType, SMTT(30) DEF TypeOK
<1>10. InOrder'
  <2>1. Passed(f)' = Passed(f)
    BY <1>0 DEF Passed
  <2>2. v <= Passed(f) /\ \A i \in 1..Len(stepCh') : stepCh'[i] <= Passed(f)
    BY <1>1, <1>8, <1>v DEF Ahead
  <2>3. \A k \in Link, u \in Worker : HasItem(k, u)' => worker'[k][u].vol <= Passed(f)
    BY <1>4, <1>8, <2>2 DEF Ahead
  <2>4. Ahead(f)'
    BY <1>0, <1>8, <2>1, <2>2, <2>3 DEF Ahead
  <2> QED
    BY <1>0, <1>8, <2>4, LinksKeep DEF InOrder, OthersThanLinks
<1>11. OnePlace'
  <2>1. OnePlace
    BY DEF Inv
  <2>2. \A k \in Link, u \in Worker : HasItem(k, u) => worker[k][u].vol # v
    BY <1>6 DEF InHand
  <2>3. \A k, j \in Link, u, x \in Worker :
          HasItem(k, u)' /\ HasItem(j, x)' /\ worker'[k][u].vol = worker'[j][x].vol
          => k = j /\ u = x
    BY <1>4, <2>1, <2>2 DEF OnePlace
  <2>4. \A k \in Link, u \in Worker : HasItem(k, u)' => ~InStepCh(worker[k][u].vol)'
    <3> SUFFICES ASSUME NEW k \in Link, NEW u \in Worker, HasItem(k, u)', NEW x, x = worker'[k][u].vol
                 PROVE  ~InStepCh(x)'
      BY DEF InStepCh
    <3>1. x = v \/ ~InStepCh(x)
      BY <1>4, <2>1 DEF OnePlace
    <3> QED
      BY <1>5, <3>1
  <2>5. \A x \in recorded \cup (IF coll = "save" THEN {collVol} ELSE {}) :
          ~InStepCh(x)' /\ ~InHand(x)'
    BY <1>5, <1>6, <1>7, <2>1 DEF OnePlace
  <2> QED
    BY <1>0, <1>5, <2>1, <2>3, <2>4, <2>5 DEF OnePlace
<1>12. Uploaded'
  <2>1. ASSUME NEW k \in Link, NEW u \in Worker, HasItem(k, u)', NEW d \in Uploads,
               d < k \/ (d = k /\ worker'[k][u].pc = "hand")
        PROVE  worker'[k][u].vol \in at[d]
    <3>1. CASE k = 1 /\ u = w
      BY <1>0, <1>4, <2>1, <3>1
    <3>2. CASE k # 1 \/ u # w
      BY <1>4, <2>1, <3>2 DEF Inv, Uploaded
    <3> QED
      BY <3>1, <3>2
  <2> QED
    BY <1>0, <2>1 DEF Inv, Uploaded
<1>13. ManifestLast'
  <2>0. Whole' = Whole
    BY <1>0 DEF Whole
  <2>1. ASSUME NEW k \in Link, NEW u \in Worker, HasItem(k, u)', worker'[k][u].vol = FinalManifest
        PROVE  /\ fin = "ok"
               /\ \A d \in Uploads : d > k \/ (d = k /\ worker'[k][u].pc = "upload")
                                       => FinalManifest \notin at[d]
    <3>1. CASE k = 1 /\ u = w
      <4>1. InStepCh(FinalManifest)
        BY <1>4, <1>6, <2>1, <3>1
      <4> QED
        BY <4>1 DEF Inv, ManifestLast
    <3>2. CASE k # 1 \/ u # w
      <4>1. HasItem(k, u) /\ worker[k][u].vol = FinalManifest /\ worker'[k][u] = worker[k][u]
        BY <1>4, <2>1, <3>2
      <4> QED
        BY <4>1 DEF Inv, ManifestLast
    <3> QED
      BY <3>1, <3>2
  <2> QED
    BY <1>0, <1>5, <2>0, <2>1 DEF Inv, ManifestLast
<1>14. ManifestNotLost'
  <2>1. SomeWorkerFailed => SomeWorkerFailed'
    BY <1>0, <1>3, ZenonT(30) DEF SomeWorkerFailed
  <2>2. InHand(v)' \/ SomeWorkerFailed'
    BY <1>0, <1>2, <1>3 DEF SomeWorkerFailed, InHand, HasItem
  <2>3. \A x : InHand(x) => InHand(x)'
    <3>1. \A k \in Link, u \in Worker : HasItem(k, u) => HasItem(k, u)' /\ worker'[k][u] = worker[k][u]
      BY <1>0, <1>3 DEF HasItem
    <3> QED
      BY <3>1 DEF InHand
  <2> QED
    BY <1>0, <1>5, <2>1, <2>2, <2>3 DEF Inv, ManifestNotLost
<1>15. LinksEnd'
  <2>1. link[1] = "open" /\ ~returned
    BY <1>0, AtWork DEF Ended
  <2>2. \A k \in Link, u \in Worker :
          /\ link[k] # "open" => worker'[k][u].pc \in Ended
          /\ link[k] = "ok" => worker'[k][u].pc = "ok"
    BY <1>3, <2>1 DEF Inv, LinksEnd
  <2>3. \A u \in Worker : worker'[1][u].pc # "ok"
    BY <1>0, <1>2, <1>3 DEF Inv, LinksEnd
  <2>4. ~returned'
    BY <2>1 DEF OthersThanLinks
  <2> QED
    BY <1>0, <2>2, <2>3, <2>4 DEF LinksEnd
<1> QED
  BY <1>0, <1>9, <1>10, <1>11, <1>12, <1>13, <1>14, <1>15, LinksKeep, SameTokens
     DEF Inv, OthersThanLinks

\* An item goes from a worker of one link to one of the next.
LEMMA PassToNextLink ==
    ASSUME Inv, NEW l \in Link, NEW w \in Worker, NEW u \in Worker, l < LastLink,
           worker[l][w].pc = "hand", NEW v, v = worker[l][w].vol, worker[l + 1][u].pc = "recv",
           SetsTwo(l, w, Idle, l + 1, u, Taken(l + 1, v)), OthersThanLinks,
           UNCHANGED <<jobInfo, stepCh, link, at, aborted, canceled, collect>>
    PROVE  Inv'
<1> USE SameJob DEF collect
<1>r. PICK r : r = Taken(l + 1, v)
  OBVIOUS
<1>m. PICK m \in Link : m = l + 1 /\ m # l /\ \A d \in Uploads : d < m => d < l \/ d = l
  <2>1. jobInfo \in Jobs
    BY DEF Inv, TypeOK
  <2>2. l \in Nat /\ l + 1 \in Link /\ Uploads \subseteq Nat
    BY <2>1, Sizes
  <2> QED
    BY <2>2
<1>0. /\ TypeOK /\ 1 \in Link /\ UNCHANGED <<total, fwd, fwdVol, fin, finalized, zfs, sender>>
      /\ Link \subseteq Nat \ {0} /\ Uploads \subseteq Nat \ {0} /\ jobInfo \in Jobs
      /\ \A d \in Uploads : d > m => d > l
  <2>1. jobInfo \in Jobs /\ TypeOK
    BY DEF Inv, TypeOK
  <2>2. 1 \in Link /\ Link \subseteq Nat \ {0} /\ Uploads \subseteq Nat \ {0}
    BY <2>1, Sizes
  <2> QED
    BY <1>m, <2>1, <2>2 DEF OthersThanLinks, forward
<1>1. v \in Item /\ HasItem(l, w)
  BY <1>0, ItemsAreNumbers DEF HasItem
<1>2. r.vol = v /\ r.pc \in {"upload", "failed"}
      /\ r \in [pc : {"recv", "upload", "hand"} \cup Ended, vol : Item]
  BY <1>1, <1>r, TakenType
<1>3. /\ worker' \in Workers /\ worker'[l][w].pc = "recv" /\ worker'[m][u] = r
      /\ \A k \in Link, j \in Worker :
           (k # l \/ j # w) /\ (k # m \/ j # u) => worker'[k][j] = worker[k][j]
  <2>1. SetsTwo(l, w, Idle, m, u, r)
    BY <1>m, <1>r
  <2>2. /\ Idle \in [pc : {"recv", "upload", "hand"} \cup Ended, vol : Item]
        /\ Idle.pc = "recv"
    BY <1>0, IdleType
  <2> QED
    BY <1>0, <1>2, <1>m, <2>1, <2>2, TwoWorkersSet
<1>4. \A k \in Link, j \in Worker : HasItem(k, j)' =>
        \/ k = m /\ j = u /\ worker'[k][j].vol = v /\ worker'[k][j].pc = "upload"
        \/ (k # l \/ j # w) /\ (k # m \/ j # u) /\ HasItem(k, j) /\ worker'[k][j] = worker[k][j]
  BY <1>2, <1>3 DEF HasItem
<1>5. \A x : InStepCh(x)' <=> InStepCh(x)
  BY DEF InStepCh
<1>6. \A x : InHand(x)' => InHand(x)
  BY <1>1, <1>4 DEF InHand
<1>7. PICK f \in 0..made : Behind(f) /\ Ahead(f) /\ Counted(f)
  BY DEF Inv, InOrder
<1>8. TypeOK'
  BY <1>0, <1>3, LinksType DEF TypeOK
<1>9. InOrder'
  <2>1. Passed(f)' = Passed(f)
    BY <1>0 DEF Passed
  <2>2. v <= Passed(f)
    BY <1>1, <1>7 DEF Ahead
  <2>3. \A k \in Link, j \in Worker : HasItem(k, j)' => worker'[k][j].vol <= Passed(f)
    BY <1>4, <1>7, <2>2 DEF Ahead
  <2>4. Ahead(f)'
    BY <1>0, <1>7, <2>1, <2>3 DEF Ahead
  <2> QED
    BY <1>0, <1>7, <2>4, LinksKeep DEF InOrder, OthersThanLinks
<1>10. OnePlace'
  <2>1. OnePlace
    BY DEF Inv
  <2>2. \A k \in Link, j \in Worker : HasItem(k, j) /\ (k # l \/ j # w) => worker[k][j].vol # v
    BY <1>1, <2>1 DEF OnePlace
  <2>3. \A k, i \in Link, j, x \in Worker :
          HasItem(k, j)' /\ HasItem(i, x)' /\ worker'[k][j].vol = worker'[i][x].vol
          => k = i /\ j = x
    BY <1>4, <2>1, <2>2 DEF OnePlace
  <2>4. \A k \in Link, j \in Worker : HasItem(k, j)' => ~InStepCh(worker[k][j].vol)'
    <3> SUFFICES ASSUME NEW k \in Link, NEW j \in Worker, HasItem(k, j)', NEW x, x = worker'[k][j].vol
                 PROVE  ~InStepCh(x)'
      BY DEF InStepCh
    <3>1. ~InStepCh(x)
      BY <1>1, <1>4, <2>1 DEF OnePlace
    <3> QED
      BY <1>5, <3>1
  <2>5. \A x \in recorded \cup (IF coll = "save" THEN {collVol} ELSE {}) :
          ~InStepCh(x)' /\ ~InHand(x)'
    BY <1>5, <1>6, <2>1 DEF OnePlace
  <2> QED
    BY <1>0, <2>1, <2>3, <2>4, <2>5 DEF OnePlace
<1>11. Uploaded'
  <2>1. \A d \in Uploads : d < m => v \in at[d]
    BY <1>1, <1>m DEF Inv, Uploaded
  <2>2. ASSUME NEW k \in Link, NEW j \in Worker, HasItem(k, j)', NEW d \in Uploads,
               d < k \/ (d = k /\ worker'[k][j].pc = "hand")
        PROVE  worker'[k][j].vol \in at[d]
    <3>1. CASE k = m /\ j = u
      BY <1>4, <2>1, <2>2, <3>1
    <3>2. CASE k # m \/ j # u
      BY <1>4, <2>2, <3>2 DEF Inv, Uploaded
    <3> QED
      BY <3>1, <3>2
  <2> QED
    BY <1>0, <2>2 DEF Inv, Uploaded
<1>12. ManifestLast'
  <2>0. Whole' = Whole
    BY <1>0 DEF Whole
  <2>1. ASSUME NEW k \in Link, NEW j \in Worker, HasItem(k, j)', worker'[k][j].vol = FinalManifest
        PROVE  /\ fin = "ok"
               /\ \A d \in Uploads : d > k \/ (d = k /\ worker'[k][j].pc = "upload")
                                       => FinalManifest \notin at[d]
    <3>1. CASE k = m /\ j = u
      <4>1. v = FinalManifest
        BY <1>4, <2>1, <3>1
      <4>2. \A d \in Uploads : d > l => FinalManifest \notin at[d]
        BY <1>1, <4>1 DEF Inv, ManifestLast
      <4>3. \A d \in Uploads : d > m \/ d = m => d > l
        BY <1>0, <1>m
      <4> QED
        BY <1>1, <3>1, <4>1, <4>2, <4>3 DEF Inv, ManifestLast
    <3>2. CASE k # m \/ j # u
      <4>1. HasItem(k, j) /\ worker[k][j].vol = FinalManifest /\ worker'[k][j] = worker[k][j]
        BY <1>4, <2>1, <3>2
      <4> QED
        BY <4>1 DEF Inv, ManifestLast
    <3> QED
      BY <3>1, <3>2
  <2> QED
    BY <1>0, <1>5, <2>0, <2>1 DEF Inv, ManifestLast
<1>13. ManifestNotLost'
  <2>1. SomeWorkerFailed => SomeWorkerFailed'
    BY <1>3, <1>m DEF SomeWorkerFailed
  <2>2. InHand(v)' \/ SomeWorkerFailed'
    BY <1>2, <1>3 DEF SomeWorkerFailed, InHand, HasItem
  <2>3. \A x : InHand(x) => InHand(x)' \/ x = v
    <3>1. \A k \in Link, j \in Worker : HasItem(k, j) /\ (k # l \/ j # w) =>
            HasItem(k, j)' /\ worker'[k][j] = worker[k][j]
      BY <1>3, <1>m DEF HasItem
    <3> QED
      BY <3>1 DEF InHand
  <2> QED
    BY <1>0, <1>5, <2>1, <2>2, <2>3 DEF Inv, ManifestNotLost
<1>14. LinksEnd'
  <2>1. link[l] = "open" /\ link[m] = "open" /\ ~returned
    BY <1>m, AtWork DEF Ended
  <2>2. \A k \in Link, j \in Worker :
          /\ link[k] # "open" => worker'[k][j].pc \in Ended
          /\ link[k] = "ok" => worker'[k][j].pc = "ok"
    BY <1>3, <2>1 DEF Inv, LinksEnd
  <2>3. \A j \in Worker : worker'[1][j].pc = "ok" => stepCh = <<>> /\ fin = "ok"
    BY <1>0, <1>2, <1>3 DEF Inv, LinksEnd
  <2>4. ~returned'
    BY <2>1 DEF OthersThanLinks
  <2> QED
    BY <1>0, <2>2, <2>3, <2>4 DEF LinksEnd
<1> QED
  BY <1>0, <1>8, <1>9, <1>10, <1>11, <1>12, <1>13, <1>14, LinksKeep, SameTokens
     DEF Inv, OthersThanLinks

\* The last link gives an item to the collector: it is at every destination.
LEMMA PassToCollector ==
    ASSUME Inv, NEW w \in Worker, NEW l \in Link, l = LastLink,
           worker[l][w].pc = "hand", NEW v, v = worker[l][w].vol, coll = "recv",
           Sets(l, w, Idle), coll' = IF v = FinalManifest THEN "ok" ELSE "save",
           collVol' = v, OthersThanLinks,
           UNCHANGED <<jobInfo, stepCh, link, at, aborted, canceled, recorded>>
    PROVE  Inv'
<1> USE SameJob
<1>0. /\ TypeOK /\ 1 \in Link /\ UNCHANGED <<total, fwd, fwdVol, fin, finalized, zfs, sender, tokens, made>>
      /\ jobInfo \in Jobs /\ \A d \in Uploads : d < l \/ d = l
  <2>1. jobInfo \in Jobs /\ TypeOK
    BY DEF Inv, TypeOK
  <2>2. 1 \in Link /\ Uploads \subseteq Nat /\ Uploads \subseteq Link
    BY <2>1, Sizes
  <2>3. \A d \in Link : d \in Nat /\ d <= LastLink
    BY <2>1, Sizes
  <2>4. \A d \in Uploads : d < l \/ d = l
    BY <2>2, <2>3
  <2> QED
    BY <2>1, <2>2, <2>4 DEF OthersThanLinks, forward
<1>1. v \in Item /\ v \in Nat /\ HasItem(l, w)
  BY <1>0, ItemsAreNumbers DEF HasItem
<1>2. /\ worker' \in Workers /\ worker'[l][w].pc = "recv"
      /\ \A k \in Link, j \in Worker : k # l \/ j # w => worker'[k][j] = worker[k][j]
  BY <1>0, IdleType, WorkerSet
<1>3. \A k \in Link, j \in Worker : HasItem(k, j)' =>
        (k # l \/ j # w) /\ HasItem(k, j) /\ worker'[k][j] = worker[k][j]
  BY <1>2 DEF HasItem
<1>4. \A x : InStepCh(x)' <=> InStepCh(x)
  BY DEF InStepCh
<1>5. \A k \in Link, j \in Worker : HasItem(k, j) /\ (k # l \/ j # w) => worker[k][j].vol # v
  BY <1>1 DEF Inv, OnePlace
<1>6. /\ \A x : InHand(x)' => InHand(x)
      /\ ~InHand(v)'
  <2>1. \A x : InHand(x)' => InHand(x)
    BY <1>3 DEF InHand
  <2>2. ~InHand(v)'
    BY <1>3, <1>5 DEF InHand
  <2> QED
    BY <2>1, <2>2
<1>7. PICK f \in 0..made : Behind(f) /\ Ahead(f) /\ Counted(f)
  BY DEF Inv, InOrder
<1>8. /\ coll' \in {"ok", "save"} /\ (coll' = "save" => v > 0)
      /\ coll' \in {"recv", "save", "token"} \cup Ended
      /\ \A d \in Uploads : v \in at[d]
      /\ v \notin recorded /\ ~InStepCh(v)
  <2>1. \A d \in Uploads : v \in at[d]
    BY <1>0, <1>1 DEF Inv, Uploaded
  <2>2. InHand(v)
    BY <1>1 DEF InHand
  <2>3. v \notin recorded /\ ~InStepCh(v)
    BY <1>1, <2>2 DEF Inv, OnePlace
  <2> QED
    BY <1>1, <2>1, <2>3 DEF FinalManifest, Ended
<1>9. TypeOK'
  BY <1>0, <1>1, <1>2, <1>8, LinksType DEF TypeOK
<1>10. InOrder'
  <2>1. Passed(f)' = Passed(f) /\ Passed(f) \in Int
    BY <1>0, <1>7 DEF Passed
  <2>2. v <= Passed(f)
    BY <1>1, <1>7 DEF Ahead
  <2>3. \A k \in Link, j \in Worker : HasItem(k, j)' => worker'[k][j].vol <= Passed(f)
    BY <1>3, <1>7 DEF Ahead
  <2>4. coll' = "save" => v \in 1..Passed(f)
    BY <1>1, <1>8, <2>1, <2>2
  <2>5. Ahead(f)'
    BY <1>0, <1>7, <2>1, <2>3, <2>4 DEF Ahead
  <2> QED
    BY <1>0, <1>7, <2>5, LinksKeep DEF InOrder
<1>11. OnePlace'
  <2>1. OnePlace
    BY DEF Inv
  <2>2. \A k, i \in Link, j, x \in Worker :
          HasItem(k, j)' /\ HasItem(i, x)' /\ worker'[k][j].vol = worker'[i][x].vol
          => k = i /\ j = x
    BY <1>3, <2>1 DEF OnePlace
  <2>3. \A k \in Link, j \in Worker : HasItem(k, j)' => ~InStepCh(worker[k][j].vol)'
    <3> SUFFICES ASSUME NEW k \in Link, NEW j \in Worker, HasItem(k, j)', NEW x, x = worker'[k][j].vol
                 PROVE  ~InStepCh(x)'
      BY DEF InStepCh
    <3>1. ~InStepCh(x)
      BY <1>3, <2>1 DEF OnePlace
    <3> QED
      BY <1>4, <3>1
  <2>4. \A x \in recorded \cup {v} : ~InStepCh(x)' /\ ~InHand(x)'
    <3>1. \A x \in recorded : ~InStepCh(x) /\ ~InHand(x)
      BY <2>1 DEF OnePlace
    <3> QED
      BY <1>4, <1>6, <1>8, <3>1
  <2>5. \A x \in recorded' \cup (IF coll' = "save" THEN {collVol'} ELSE {}) :
          ~InStepCh(x)' /\ ~InHand(x)'
    BY <2>4
  <2> QED
    BY <1>8, <2>1, <2>2, <2>3, <2>5 DEF OnePlace
<1>12. Uploaded'
  <2>1. ASSUME NEW k \in Link, NEW j \in Worker, HasItem(k, j)', NEW d \in Uploads,
               d < k \/ (d = k /\ worker'[k][j].pc = "hand")
        PROVE  worker'[k][j].vol \in at[d]
    BY <1>3, <2>1 DEF Inv, Uploaded
  <2> QED
    BY <1>0, <1>8, <2>1 DEF Inv, Uploaded
<1>13. ManifestLast'
  <2>0. Whole' = Whole
    BY <1>0 DEF Whole
  <2>1. ASSUME NEW k \in Link, NEW j \in Worker, HasItem(k, j)', worker'[k][j].vol = FinalManifest
        PROVE  /\ fin = "ok"
               /\ \A d \in Uploads : d > k \/ (d = k /\ worker'[k][j].pc = "upload")
                                       => FinalManifest \notin at[d]
    <3>1. HasItem(k, j) /\ worker[k][j].vol = FinalManifest /\ worker'[k][j] = worker[k][j]
      BY <1>3, <2>1
    <3> QED
      BY <3>1 DEF Inv, ManifestLast
  <2> QED
    BY <1>0, <1>4, <2>0, <2>1 DEF Inv, ManifestLast
<1>14. ManifestNotLost'
  <2>1. SomeWorkerFailed => SomeWorkerFailed'
    BY <1>2 DEF SomeWorkerFailed
  <2>2. \A x : InHand(x) => InHand(x)' \/ x = v
    <3>1. \A k \in Link, j \in Worker : HasItem(k, j) /\ (k # l \/ j # w) =>
            HasItem(k, j)' /\ worker'[k][j] = worker[k][j]
      BY <1>2 DEF HasItem
    <3> QED
      BY <3>1 DEF InHand
  <2> QED
    BY <1>0, <1>4, <1>8, <2>1, <2>2 DEF Inv, ManifestNotLost
<1>15. LinksEnd'
  <2>1. link[l] = "open" /\ ~returned
    BY AtWork DEF Ended
  <2>2. \A k \in Link, j \in Worker :
          /\ link[k] # "open" => worker'[k][j].pc \in Ended
          /\ link[k] = "ok" => worker'[k][j].pc = "ok"
    BY <1>2, <2>1 DEF Inv, LinksEnd
  <2>3. \A j \in Worker : worker'[1][j].pc = "ok" => stepCh = <<>> /\ fin = "ok"
    BY <1>0, <1>2 DEF Inv, LinksEnd
  <2>4. ~returned'
    BY <2>1 DEF OthersThanLinks
  <2> QED
    BY <1>0, <2>2, <2>3, <2>4 DEF LinksEnd
<1>16. TokensKept'
  <2>1. coll \notin Ended /\ coll # "token" /\ coll' # "token"
    BY <1>8 DEF Ended
  <2> QED
    BY <1>0, <2>1 DEF Inv, TokensKept
<1> QED
  BY <1>9, <1>10, <1>11, <1>12, <1>13, <1>14, <1>15, <1>16, LinksKeep DEF Inv

LEMMA PassOnInv ==
    ASSUME Inv, NEW l \in Link, NEW w \in Worker, PassOn(l, w), OthersThanLinks,
           UNCHANGED jobInfo
    PROVE  Inv'
<1>1. PICK v : v = worker[l][w].vol
  OBVIOUS
<1>2. worker[l][w].pc = "hand" /\ UNCHANGED <<stepCh, link, at, aborted, canceled>>
  BY DEF PassOn
<1>3. CASE l < LastLink /\ \E u \in Worker : worker[l + 1][u].pc = "recv"
              /\ SetsTwo(l, w, Idle, l + 1, u, Taken(l + 1, v)) /\ UNCHANGED collect
  BY <1>1, <1>2, <1>3, PassToNextLink
<1>4. CASE /\ l = LastLink /\ coll = "recv" /\ Sets(l, w, Idle)
           /\ coll' = IF v = FinalManifest THEN "ok" ELSE "save"
           /\ collVol' = v /\ UNCHANGED recorded
  BY <1>1, <1>2, <1>4, PassToCollector
<1> QED
  BY <1>1, <1>3, <1>4 DEF PassOn, SetsTwo, Sets

\* The out channel is closed behind the last worker, and the link returns what they did.
LEMMA LinkStepInv ==
    ASSUME Inv, NEW l \in Link, CloseOut(l) \/ LinkReturns(l), OthersThanLinks, UNCHANGED jobInfo
    PROVE  Inv'
<1> USE SameJob DEF collect
<1>0. /\ TypeOK /\ UNCHANGED <<total, fwd, fwdVol, fin, finalized, zfs, sender, tokens, made>>
      /\ UNCHANGED <<stepCh, worker, at, aborted, coll, collVol, recorded, returned>>
  BY DEF Inv, OthersThanLinks, forward, CloseOut, LinkReturns
<1>1. link[l] \notin Ended /\ \A w \in Worker : worker[l][w].pc \in Ended
  BY DEF CloseOut, LinkReturns, Ended, Inv, LinksEnd
<1>2. /\ link' \in [Link -> {"open", "closed"} \cup Ended]
      /\ \A k \in Link : k # l => link'[k] = link[k]
      /\ link'[l] = "ok" => \A w \in Worker : worker[l][w].pc = "ok"
  <2>1. link \in [Link -> {"open", "closed"} \cup Ended]
    BY <1>0 DEF TypeOK
  <2>2. PICK v \in {"open", "closed"} \cup Ended :
          /\ link' = [link EXCEPT ![l] = v]
          /\ v = "ok" => \A w \in Worker : worker[l][w].pc = "ok"
    BY <1>1 DEF CloseOut, LinkReturns, Ended
  <2> QED
    BY <2>1, <2>2
<1>3. canceled' \in BOOLEAN /\ (canceled' = canceled \/ canceled' = TRUE)
  <2>1. canceled \in BOOLEAN
    BY <1>0 DEF TypeOK
  <2>2. canceled' = canceled \/ canceled' = TRUE
    BY DEF CloseOut, LinkReturns, Cancel
  <2> QED
    BY <2>1, <2>2
<1>4. TypeOK'
  <2>1. aborted' \subseteq 1..made
    BY <1>0 DEF TypeOK
  <2>2. /\ worker' \in Workers /\ stepCh' \in Seq(Item) /\ Len(stepCh') <= BufferSize
        /\ at' \in [Uploads -> SUBSET Item]
        /\ coll' \in {"recv", "save", "token"} \cup Ended /\ collVol' \in Item
    BY <1>0 DEF TypeOK, Workers
  <2> QED
    BY <1>0, <1>2, <1>3, <2>1, <2>2, LinksType
<1>5. InOrder'
  <2>1. PICK f \in 0..made : Behind(f) /\ Ahead(f) /\ Counted(f)
    BY DEF Inv, InOrder
  <2> QED
    BY <1>0, <2>1, SameAhead, LinksKeep DEF InOrder, forward
<1>6. OnePlace' /\ Uploaded' /\ ManifestLast' /\ ManifestNotLost'
  BY <1>0, SameOnePlace, SameUploaded, SameManifestLast, SameManifestNotLost DEF Inv
<1>7. LinksEnd'
  <2>1. ~returned
    BY <1>1 DEF Inv, LinksEnd, AllEnded
  <2>2. \A k \in Link, u \in Worker :
          /\ link'[k] # "open" => worker[k][u].pc \in Ended
          /\ link'[k] = "ok" => worker[k][u].pc = "ok"
    BY <1>1, <1>2 DEF Inv, LinksEnd
  <2>3. \A u \in Worker : worker[1][u].pc = "ok" => stepCh = <<>> /\ fin = "ok"
    BY DEF Inv, LinksEnd
  <2> QED
    BY <1>0, <2>1, <2>2, <2>3 DEF LinksEnd
<1> QED
  BY <1>0, <1>3, <1>4, <1>5, <1>6, <1>7, LinksKeep, SameTokens DEF Inv

-----------------------------------------------------------------------------
(* The collector.                                                          *)

\* What it leaves alone.
OthersThanCollector ==
    UNCHANGED <<jobInfo, stream, startCh, forward, stepCh, worker, link, fin, finalized,
                at, returned>>

\* A volume is recorded once; one less is missing.
LEMMA Recording ==
    ASSUME Inv, OthersThanCollector, coll = "save", recorded' = recorded \cup {collVol},
           collVol' = collVol, coll' \in {"token", "failed"},
           canceled' = canceled \/ canceled' = TRUE,
           NEW f \in 0..made, Behind(f), Ahead(f), Counted(f)
    PROVE  /\ OnePlace' /\ Uploaded' /\ ManifestLast' /\ ManifestNotLost' /\ LinksEnd'
           /\ StreamOrder' /\ Behind(f)' /\ Ahead(f)' /\ recorded' \subseteq 1..total /\ ~zero
           /\ Cardinality(((1..f) \ recorded)') = Cardinality((1..f) \ recorded) - 1
           /\ Cardinality((1..f) \ recorded) \in Nat /\ IsFiniteSet(((1..f) \ recorded)')
           /\ Cardinality(recorded') = Cardinality(recorded) + 1 /\ Cardinality(recorded) \in Nat
<1> USE SameJob DEF OthersThanCollector, stream, forward
<1>0. TypeOK /\ made \in Nat /\ total \in Nat /\ made <= total
  BY Numbers DEF Inv
<1>1. collVol \in 1..Passed(f) /\ collVol \in 1..f /\ collVol \notin recorded
  BY <1>0 DEF Ahead, Passed, Inv, OnePlace
<1>2. recorded' \subseteq 1..Passed(f) /\ recorded' \subseteq 1..total
  BY <1>0, <1>1 DEF Ahead, TypeOK
<1>3. /\ Cardinality(((1..f) \ recorded)') = Cardinality((1..f) \ recorded) - 1
      /\ Cardinality((1..f) \ recorded) \in Nat /\ IsFiniteSet(((1..f) \ recorded)')
  <2>1. IsFiniteSet((1..f) \ recorded) /\ Cardinality((1..f) \ recorded) \in Nat
    BY MissingFinite
  <2>2. PICK M : M = (1..f) \ recorded
    OBVIOUS
  <2>3. ((1..f) \ recorded)' = M \ {collVol} /\ collVol \in M
    BY <1>1, <2>2
  <2>4. IsFiniteSet(M \ {collVol}) /\ Cardinality(M \ {collVol}) = Cardinality(M) - 1
    BY <2>1, <2>2, <2>3, FS_RemoveElement
  <2> QED
    BY <2>1, <2>2, <2>3, <2>4
<1>4. Cardinality(recorded') = Cardinality(recorded) + 1 /\ Cardinality(recorded) \in Nat
  BY <1>0, <1>1, RecordedFinite, FS_AddElement
<1>5. ~zero /\ ~Whole
  <2>1. 1..f \subseteq 1..total
    BY <1>0
  <2> QED
    BY <1>1, <2>1 DEF Counted, Whole
<1>6. OnePlace'
  BY SamePlaces DEF Inv, OnePlace
<1>7. Uploaded'
  BY SamePlaces DEF Inv, Uploaded
<1>8. ManifestLast'
  BY <1>5, SamePlaces DEF Inv, ManifestLast
<1>9. ManifestNotLost' /\ LinksEnd'
  <2>1. coll \notin Ended
    BY DEF Ended
  <2> QED
    BY <2>1, SameManifestNotLost, SameLinksEnd DEF Inv
<1>10. StreamOrder' /\ Behind(f)'
  BY SameBehind DEF Inv, StreamOrder
<1>11. Ahead(f)'
  <2>1. Passed(f)' = Passed(f)
    BY DEF Passed
  <2> QED
    BY <1>2, <2>1, SamePlaces DEF Ahead
<1> QED
  BY <1>2, <1>3, <1>4, <1>5, <1>6, <1>7, <1>8, <1>9, <1>10, <1>11

LEMMA SaveVolumeInv ==
    ASSUME Inv, SaveVolume, OthersThanCollector
    PROVE  Inv'
<1> USE SameJob DEF stream, forward
<1>0. TypeOK /\ made \in Nat /\ total \in Nat /\ BufferSize \in Nat /\ pending \in Int
  BY Numbers DEF Inv
<1>1. PICK f \in 0..made : Behind(f) /\ Ahead(f) /\ Counted(f)
  BY DEF Inv, InOrder
<1>2. /\ OnePlace' /\ Uploaded' /\ ManifestLast' /\ ManifestNotLost' /\ LinksEnd'
      /\ StreamOrder' /\ Behind(f)' /\ Ahead(f)' /\ recorded' \subseteq 1..total /\ ~zero
      /\ Cardinality(((1..f) \ recorded)') = Cardinality((1..f) \ recorded) - 1
      /\ Cardinality((1..f) \ recorded) \in Nat /\ IsFiniteSet(((1..f) \ recorded)')
      /\ Cardinality(recorded') = Cardinality(recorded) + 1 /\ Cardinality(recorded) \in Nat
  <2>1. coll' \in {"token", "failed"}
    BY DEF SaveVolume
  <2> QED
    BY <1>1, <2>1, Recording DEF SaveVolume
<1>3. Counted(f)'
  <2>1. /\ pending' = pending - 1 /\ (zero' => pending = 1)
    BY <1>2 DEF SaveVolume, PendingDone
  <2>2. /\ fwd' = fwd
        /\ pending >= (IF fwd = "done" THEN 0 ELSE 1) + Cardinality((1..f) \ recorded)
    BY <1>1 DEF Counted, OthersThanCollector
  <2>3. Cardinality(((1..f) \ recorded)') \in Nat
    BY <1>2, FS_CardinalityType
  <2>4. pending = 1 => fwd = "done" /\ Cardinality(((1..f) \ recorded)') = 0
    BY <1>0, <1>2, <2>2, <2>3
  <2>5. Cardinality(((1..f) \ recorded)') = 0 => ((1..f) \ recorded)' = {}
    BY <1>2, FS_EmptySet
  <2>6. zero' => fwd' = "done" /\ 1..f \subseteq recorded'
    BY <2>1, <2>2, <2>4, <2>5
  <2>7. pending' >= (IF fwd' = "done" THEN 0 ELSE 1) + Cardinality(((1..f) \ recorded)')
    BY <1>0, <1>2, <2>1, <2>2
  <2> QED
    BY <2>6, <2>7 DEF Counted
<1>4. InOrder'
  BY <1>1, <1>2, <1>3 DEF InOrder, OthersThanCollector
<1>5. TypeOK'
  <2>1. zero' \in BOOLEAN
    BY <1>0 DEF SaveVolume, PendingDone, TypeOK
  <2>2. pending' \in Int /\ coll' = "token"
    BY <1>0 DEF SaveVolume, PendingDone
  <2> QED
    BY <1>0, <1>2, <2>1, <2>2 DEF TypeOK, SaveVolume, OthersThanCollector
<1>6. TokensKept'
  <2>1. coll = "save" /\ coll' = "token" /\ coll \notin Ended /\ UNCHANGED <<tokens, made>> /\ tokens \in Int
        /\ BufferSize' = BufferSize
    BY <1>0 DEF SaveVolume, OthersThanCollector, Ended, TypeOK
  <2> QED
    BY <1>0, <1>2, <2>1 DEF Inv, TokensKept
<1> QED
  BY <1>2, <1>4, <1>5, <1>6 DEF Inv

LEMMA SaveFailsInv ==
    ASSUME Inv, SaveFails, OthersThanCollector
    PROVE  Inv'
<1> USE SameJob DEF stream, forward
<1>0. TypeOK /\ made \in Nat /\ total \in Nat /\ pending \in Int
  BY Numbers DEF Inv
<1>1. PICK f \in 0..made : Behind(f) /\ Ahead(f) /\ Counted(f)
  BY DEF Inv, InOrder
<1>2. /\ OnePlace' /\ Uploaded' /\ ManifestLast' /\ ManifestNotLost' /\ LinksEnd'
      /\ StreamOrder' /\ Behind(f)' /\ Ahead(f)' /\ recorded' \subseteq 1..total /\ ~zero
      /\ Cardinality(((1..f) \ recorded)') = Cardinality((1..f) \ recorded) - 1
      /\ Cardinality((1..f) \ recorded) \in Nat
  <2>1. coll' \in {"token", "failed"} /\ canceled' = TRUE
    BY DEF SaveFails, Cancel
  <2> QED
    BY <1>1, <2>1, Recording DEF SaveFails
<1>3. Counted(f)'
  <2>1. UNCHANGED <<fwd, pending, zero>>
    BY DEF SaveFails, OthersThanCollector
  <2> QED
    BY <1>0, <1>1, <1>2, <2>1 DEF Counted
<1>4. InOrder'
  BY <1>1, <1>2, <1>3 DEF InOrder, OthersThanCollector
<1>5. TypeOK'
  <2>1. canceled' \in BOOLEAN
    BY DEF SaveFails, Cancel
  <2> QED
    BY <1>0, <1>2, <2>1 DEF TypeOK, SaveFails, OthersThanCollector, Ended
<1>6. TokensKept'
  BY DEF TokensKept, SaveFails, Ended
<1> QED
  BY <1>2, <1>4, <1>5, <1>6 DEF Inv

\* A step of the collector that records nothing.
LEMMA NothingRecorded ==
    ASSUME Inv, OthersThanCollector, UNCHANGED <<collVol, recorded, pending, zero>>,
           coll # "save", coll' \in {"recv"} \cup Ended, coll \in Ended => coll' \in Ended,
           tokens' \in 0..BufferSize, TokensKept', canceled' = canceled \/ canceled' = TRUE
    PROVE  Inv'
<1> USE SameJob DEF OthersThanCollector, stream, forward
<1>1. TypeOK'
  <2>1. canceled' \in BOOLEAN
    BY DEF Inv, TypeOK
  <2>2. coll' \in {"recv", "save", "token"} \cup Ended
    OBVIOUS
  <2> QED
    BY <2>1, <2>2 DEF Inv, TypeOK
<1>2. coll' # "save"
  BY DEF Ended
<1>3. InOrder'
  <2>1. PICK f \in 0..made : Behind(f) /\ Ahead(f) /\ Counted(f)
    BY DEF Inv, InOrder
  <2>2. Ahead(f)'
    BY <1>2, <2>1, SamePlaces DEF Ahead, Passed
  <2> QED
    BY <2>1, <2>2, SameBehind, SameCounted DEF InOrder
<1>4. OnePlace' /\ Uploaded'
  BY <1>2, SamePlaces DEF Inv, OnePlace, Uploaded
<1>5. ManifestLast' /\ ManifestNotLost' /\ LinksEnd'
  BY SameManifestLast, SameManifestNotLost, SameLinksEnd DEF Inv
<1>6. StreamOrder'
  BY DEF Inv, StreamOrder
<1> QED
  BY <1>1, <1>3, <1>4, <1>5, <1>6 DEF Inv

LEMMA ReturnTokenInv ==
    ASSUME Inv, ReturnToken, OthersThanCollector
    PROVE  Inv'
<1>0. TypeOK /\ made \in Nat /\ BufferSize \in Nat /\ tokens \in 0..BufferSize
  BY Numbers DEF Inv
<1>1. tokens' \in 0..BufferSize /\ coll # "save" /\ coll \notin Ended /\ coll' \in {"recv"} \cup Ended
  BY <1>0 DEF ReturnToken, Ended
<1>2. TokensKept'
  <2>1. UNCHANGED <<jobInfo, made, recorded>>
    BY DEF ReturnToken, OthersThanCollector, stream
  <2> QED
    BY <1>0, <1>1, <2>1, SameJob, RecordedFinite DEF Inv, TokensKept, ReturnToken
<1> QED
  BY <1>1, <1>2, NothingRecorded DEF ReturnToken

LEMMA CollectorEndsInv ==
    ASSUME Inv, CollectorEnds, OthersThanCollector
    PROVE  Inv'
<1>1. /\ coll # "save" /\ coll' \in Ended /\ coll' \in {"recv"} \cup Ended
      /\ canceled' = canceled \/ canceled' = TRUE
  BY DEF CollectorEnds, Cancel, Ended
<1>2. TokensKept'
  BY <1>1 DEF TokensKept
<1>3. tokens' \in 0..BufferSize
  BY DEF CollectorEnds, Inv, TypeOK
<1> QED
  BY <1>1, <1>2, <1>3, NothingRecorded DEF CollectorEnds

-----------------------------------------------------------------------------
(* The finalizer, and the end of the run.                                  *)

\* What the finalizer leaves alone.
LEMMA FinalizerKeeps ==
    ASSUME Inv, OthersThanFinalizer, UNCHANGED jobInfo, canceled' = canceled \/ canceled' = TRUE
    PROVE  /\ StreamOrder' /\ Uploaded' /\ TokensKept'
           /\ \A f : (Behind(f) => Behind(f)') /\ (Counted(f) => Counted(f)')
           /\ Whole' <=> Whole
<1> USE DEF OthersThanFinalizer, stream, forward, collect
<1>1. StreamOrder'
  BY DEF Inv, StreamOrder
<1>2. Uploaded' /\ TokensKept'
  BY SameUploaded, SameTokens DEF Inv
<1>3. \A f : (Behind(f) => Behind(f)') /\ (Counted(f) => Counted(f)')
  BY SameBehind, SameCounted
<1>4. Whole' <=> Whole
  BY DEF Whole
<1> QED
  BY <1>1, <1>2, <1>3, <1>4

\* A step of the finalizer that hands nothing on.
LEMMA NothingHanded ==
    ASSUME Inv, OthersThanFinalizer, UNCHANGED <<jobInfo, stepCh>>,
           canceled' = canceled \/ canceled' = TRUE, fin # "ok",
           fin' \in {"save", "hand", "failed"}, finalized' \in BOOLEAN,
           fin' \in {"save", "hand"} \/ finalized' => Whole, fin' = "hand" => finalized',
           fin = "failed" => fin' = "failed"
    PROVE  Inv'
<1> USE SameJob DEF OthersThanFinalizer, stream, forward, collect
<1>1. TypeOK'
  <2>1. canceled' \in BOOLEAN
    BY DEF Inv, TypeOK
  <2>2. fin' \in {"wait", "save", "hand"} \cup Ended
    BY DEF Ended
  <2> QED
    BY <2>1, <2>2 DEF Inv, TypeOK
<1>2. InOrder'
  <2>1. PICK f \in 0..made : Behind(f) /\ Ahead(f) /\ Counted(f)
    BY DEF Inv, InOrder
  <2> QED
    BY <2>1, SameAhead, FinalizerKeeps DEF InOrder
<1>3. OnePlace'
  BY SameOnePlace DEF Inv
<1>4. ManifestLast'
  BY FinalizerKeeps, SamePlaces DEF Inv, ManifestLast
<1>5. ManifestNotLost'
  BY DEF ManifestNotLost
<1>6. LinksEnd'
  BY DEF Inv, LinksEnd, AllEnded, Ended
<1> QED
  BY <1>1, <1>2, <1>3, <1>4, <1>5, <1>6, FinalizerKeeps DEF Inv

\* The count at zero and no failure yet: the forwarder has passed on the whole stream.
LEMMA WakesOnWhole ==
    ASSUME Inv, zero, ~canceled
    PROVE  Whole
<1>0. TypeOK /\ made \in Nat /\ total \in Nat
  BY Numbers DEF Inv
<1>1. PICK f \in 0..made : Behind(f) /\ Ahead(f) /\ Counted(f)
  BY DEF Inv, InOrder
<1>2. fwd = "done" /\ 1..f \subseteq recorded
  BY <1>1 DEF Counted
<1>3. sender = "ok" /\ startCh = <<>> /\ split = "ok" /\ zfs = "ok" /\ made = total
  BY <1>2 DEF Inv, StreamOrder
<1>4. f = made
  <2>1. Len(startCh) = 0 /\ Handed = made
    BY <1>3 DEF Handed
  <2> QED
    BY <1>0, <1>1, <1>3, <2>1 DEF Behind
<1> QED
  BY <1>0, <1>2, <1>3, <1>4 DEF Whole, TypeOK

LEMMA FinalizerWakesInv ==
    ASSUME Inv, FinalizerWakes, OthersThanFinalizer, UNCHANGED jobInfo
    PROVE  Inv'
<1>1. Whole
  BY WakesOnWhole DEF FinalizerWakes
<1> QED
  BY <1>1, NothingHanded DEF FinalizerWakes, Inv, TypeOK

LEMMA FinalizerStopsInv ==
    ASSUME Inv, FinalizerCanceled \/ SaveFinalFails, OthersThanFinalizer, UNCHANGED jobInfo
    PROVE  Inv'
<1>1. finalized' \in BOOLEAN /\ (finalized' => Whole)
  BY DEF FinalizerCanceled, SaveFinalFails, Inv, TypeOK, ManifestLast
<1>2. fin # "ok" /\ fin' = "failed" /\ UNCHANGED stepCh /\ (canceled' = canceled \/ canceled' = TRUE)
  BY DEF FinalizerCanceled, SaveFinalFails, Cancel
<1> QED
  BY <1>1, <1>2, NothingHanded

LEMMA SaveFinalManifestInv ==
    ASSUME Inv, SaveFinalManifest, OthersThanFinalizer, UNCHANGED jobInfo
    PROVE  Inv'
<1>1. Whole
  BY DEF SaveFinalManifest, Inv, ManifestLast
<1>2. finalized' = TRUE /\ finalized' \in BOOLEAN
  BY DEF SaveFinalManifest
<1> QED
  BY <1>1, <1>2, NothingHanded DEF SaveFinalManifest

\* The manifest is written to stepCh, behind the volumes, and stepCh is closed.
LEMMA HandManifestInv ==
    ASSUME Inv, HandManifest, OthersThanFinalizer, UNCHANGED jobInfo
    PROVE  Inv'
<1> USE SameJob DEF OthersThanFinalizer, stream, forward, collect
<1>0. /\ TypeOK /\ made \in Nat /\ total \in Nat /\ BufferSize \in Nat /\ FinalManifest \in Item
      /\ FinalManifest = 0 /\ fin = "hand" /\ fin' = "ok" /\ UNCHANGED <<finalized, canceled>>
      /\ 1 \in Link
  BY Numbers DEF Inv, FinalManifest, HandManifest
<1>1. Whole /\ finalized /\ fwd = "done"
  BY <1>0 DEF Inv, ManifestLast, Whole
<1>2. /\ ~InStepCh(FinalManifest) /\ ~InHand(FinalManifest)
      /\ \A d \in Uploads : FinalManifest \notin at[d]
      /\ \A l \in Link, w \in Worker : HasItem(l, w) => worker[l][w].vol # FinalManifest
  BY <1>0 DEF Inv, ManifestLast, InHand
<1>3. PICK f \in 0..made : Behind(f) /\ Ahead(f) /\ Counted(f)
  BY DEF Inv, InOrder
<1>4. Passed(f) = f /\ Passed(f)' = f
  BY <1>1 DEF Passed
<1>5. FinalManifest \notin recorded /\ (coll = "save" => collVol # FinalManifest)
  BY <1>0, <1>3, <1>4 DEF Ahead
<1>6. /\ stepCh' \in Seq(Item) /\ Len(stepCh') = Len(stepCh) + 1 /\ Len(stepCh) \in Nat
      /\ Len(stepCh') <= BufferSize
      /\ \A i \in 1..Len(stepCh) : stepCh'[i] = stepCh[i]
      /\ stepCh'[Len(stepCh) + 1] = FinalManifest
      /\ \A x : InStepCh(x)' <=> InStepCh(x) \/ x = FinalManifest
  BY <1>0, StepChGets DEF HandManifest
<1>7. \A l, w : HasItem(l, w)' <=> HasItem(l, w)
  BY DEF HasItem
<1>8. OnePlace'
  BY <1>0, <1>2, <1>5, OnePlaceGets DEF Inv, HandManifest
<1>9. InOrder'
  <2>1. \A i \in 1..Len(stepCh') : stepCh'[i] <= f
    <3>1. \A i \in 1..Len(stepCh) : stepCh[i] <= f
      BY <1>3, <1>4 DEF Ahead
    <3> QED
      BY <1>0, <1>6, <3>1
  <2>2. Ahead(f)'
    BY <1>3, <1>4, <1>7, <2>1 DEF Ahead
  <2> QED
    BY <1>0, <1>3, <2>2, FinalizerKeeps DEF InOrder
<1>10. TypeOK'
  BY <1>0, <1>6 DEF TypeOK, Ended
<1>11. ManifestLast'
  <2>1. Whole'
    BY <1>0, <1>1, FinalizerKeeps
  <2>2. InStepCh(FinalManifest)' => \A d \in Uploads : FinalManifest \notin at'[d]
    BY <1>2
  <2> QED
    BY <1>0, <1>1, <1>2, <1>7, <2>1 DEF ManifestLast
<1>12. ManifestNotLost'
  BY <1>6 DEF ManifestNotLost, FinalManifest
<1>13. LinksEnd'
  <2>1. ~returned
    BY <1>0 DEF Inv, LinksEnd, AllEnded, Ended
  <2>2. \A w \in Worker : worker[1][w].pc # "ok"
    BY <1>0 DEF Inv, LinksEnd
  <2> QED
    BY <2>1, <2>2 DEF Inv, LinksEnd
<1> QED
  BY <1>0, <1>8, <1>9, <1>10, <1>11, <1>12, <1>13, FinalizerKeeps DEF Inv

\* Wait returns, or a signal arrives: the context is canceled and nothing else moves.
LEMMA OnlyCanceled ==
    ASSUME Inv, UNCHANGED <<jobInfo, stream, startCh, forward, pending, zero, stepCh, worker, link,
                            collect, tokens, fin, finalized, at>>,
           canceled' = canceled \/ canceled' = TRUE, returned' \in BOOLEAN,
           returned' => AllEnded
    PROVE  Inv'
<1> USE SameJob DEF stream, forward, collect
<1>1. TypeOK'
  <2>1. canceled' \in BOOLEAN
    BY DEF Inv, TypeOK
  <2> QED
    BY <2>1 DEF Inv, TypeOK
<1>2. InOrder'
  <2>1. PICK f \in 0..made : Behind(f) /\ Ahead(f) /\ Counted(f)
    BY DEF Inv, InOrder
  <2> QED
    BY <2>1, SameBehind, SameAhead, SameCounted DEF InOrder
<1>3. OnePlace' /\ Uploaded' /\ TokensKept'
  BY SameOnePlace, SameUploaded, SameTokens DEF Inv
<1>4. ManifestLast' /\ ManifestNotLost'
  BY SameManifestLast, SameManifestNotLost DEF Inv
<1>5. LinksEnd' /\ StreamOrder'
  BY DEF Inv, LinksEnd, AllEnded, StreamOrder
<1> QED
  BY <1>1, <1>2, <1>3, <1>4, <1>5 DEF Inv

-----------------------------------------------------------------------------
\* Every step of every goroutine keeps the invariant.
LEMMA NextInv ==
    ASSUME Inv, [Next]_vars
    PROVE  Inv'
<1>1. CASE UNCHANGED vars
  <2>1. UNCHANGED <<jobInfo, stream, startCh, forward, pending, zero, stepCh, worker, link,
                    collect, tokens, fin, finalized, at, canceled, returned>>
    BY <1>1 DEF vars
  <2>2. returned' \in BOOLEAN /\ (returned' => AllEnded)
    BY <2>1 DEF Inv, TypeOK, LinksEnd
  <2> QED
    BY <2>1, <2>2, OnlyCanceled
<1>2. CASE Progress
  <2> USE <1>2 DEF Progress
  <2>1. CASE Zfs
    BY <2>1, ZfsEndsInv DEF Zfs, ZfsStopped
  <2>2. CASE Splitter
    BY <2>2, NextVolumeInv, CreateVolumeInv, HandVolumeInv, SplitterStopsInv, FillVolumeInv
       DEF Splitter, FillStopped
  <2>3. CASE Sender
    BY <2>3, ZfsStartsInv, StartFailsInv, SendStreamReturnsInv, AbortCurrentInv DEF Sender
  <2>4. CASE Forwarder
    BY <2>4, ForwarderTakesInv, ForwarderPassesInv, ForwarderEndsInv DEF Forwarder
  <2>5. CASE \E l \in Link, w \in Worker : WorkerStep(l, w)
    BY <2>5, TakeFromStepChInv, UploadDoneInv, UploadFailsInv, PassOnInv, WorkerCanceledInv,
       WorkerEndsInv DEF WorkerStep
  <2>6. CASE \E l \in Link : LinkStep(l)
    BY <2>6, LinkStepInv DEF LinkStep
  <2>7. CASE Collector
    BY <2>7, SaveVolumeInv, ReturnTokenInv, CollectorEndsInv DEF Collector, OthersThanCollector
  <2>8. CASE Finalizer
    BY <2>8, FinalizerWakesInv, FinalizerStopsInv, SaveFinalManifestInv, HandManifestInv
       DEF Finalizer
  <2>9. CASE WaitReturns
    BY <2>9, OnlyCanceled DEF WaitReturns, Cancel
  <2> QED
    BY <2>1, <2>2, <2>3, <2>4, <2>5, <2>6, <2>7, <2>8, <2>9
<1>3. CASE Fault
  <2> USE <1>3 DEF Fault
  <2>1. CASE StreamFault
    BY <2>1, StartFailsInv, ZfsEndsInv, SplitterStopsInv DEF StreamFault, SplitterFails
  <2>2. CASE \E l \in Link, w \in Worker : UploadFault(l, w)
    BY <2>2, UploadFailsInv DEF UploadFault
  <2>3. CASE CollectorFault
    BY <2>3, SaveFailsInv DEF CollectorFault, OthersThanCollector
  <2>4. CASE FinalizerFault
    BY <2>4, FinalizerStopsInv DEF FinalizerFault
  <2>5. CASE Signal
    <3>1. returned' \in BOOLEAN /\ (returned' => AllEnded)
      BY <2>5 DEF Signal, Inv, TypeOK, LinksEnd
    <3> QED
      BY <2>5, <3>1, OnlyCanceled DEF Signal, Cancel
  <2> QED
    BY <2>1, <2>2, <2>3, <2>4, <2>5
<1> QED
  BY <1>1, <1>2, <1>3 DEF Next, Terminated

\* The invariant of the send pipeline holds whatever fails, and for every number of
\* destinations, workers, buffered files and volumes.
THEOREM Invariance == Spec => []Inv
<1>1. Inv /\ [Next]_vars => Inv'
  BY NextInv
<1> QED
  BY <1>1, InitInv, PTL DEF Spec

\* Every variable of the pipeline keeps its type: in particular the channels stay within
\* their buffers and the volumes within the stream.
THEOREM TypeCorrect == Spec => []TypeOK
<1>1. Inv => TypeOK
  BY DEF Inv
<1> QED
  BY <1>1, Invariance, PTL

\* "No final manifest is written after a failure": where there is one, in the cache or at
\* a destination, zfs send succeeded and the whole set is recorded and at every destination.
THEOREM FinalMeansWholeAlways == Spec => []FinalMeansWhole
<1>1. Inv => FinalMeansWhole
  BY DEF Inv, ManifestLast, Whole, Uploaded, FinalMeansWhole
<1> QED
  BY <1>1, Invariance, PTL

\* When all members of the errgroup returned nil the manifest is at every destination:
\* the links ended behind it, without losing it.
LEMMA NilMeansPublished ==
    ASSUME Inv, NoError
    PROVE  finalized /\ \A d \in Uploads : FinalManifest \in at[d]
<1>1. jobInfo \in Jobs
  BY DEF Inv, TypeOK
<1>2. 1 \in Link /\ 1 \in Worker
  BY <1>1, Sizes
<1>3. \A l \in Link, w \in Worker : worker[l][w].pc = "ok"
  BY DEF Inv, LinksEnd, NoError
<1>4. stepCh = <<>> /\ fin = "ok" /\ finalized
  BY <1>2, <1>3 DEF Inv, LinksEnd, ManifestLast, NoError
<1>5. ~InStepCh(FinalManifest)
  BY <1>4 DEF InStepCh
<1>6. ~InHand(FinalManifest) /\ ~SomeWorkerFailed
  BY <1>3 DEF InHand, HasItem, SomeWorkerFailed
<1> QED
  BY <1>4, <1>5, <1>6 DEF Inv, ManifestNotLost

\* A send that reports success left the manifest at every destination.
THEOREM SuccessIsPublished == Spec => []SuccessMeansPublished
<1>1. Inv => SuccessMeansPublished
  BY NilMeansPublished DEF SuccessMeansPublished
<1> QED
  BY <1>1, Invariance, PTL

\* startCh and stepCh are closed only when their last writer is done.
THEOREM ChannelsClosedLast == Spec => []NoSendOnClosedChannel
<1>1. Inv => NoSendOnClosedChannel
  BY DEF Inv, StreamOrder, ManifestLast, Whole, NoSendOnClosedChannel
<1> QED
  BY <1>1, Invariance, PTL

\* --maxFileBuffer bounds the volumes between the splitter and the manifest.
THEOREM FileBufferIsBounded == Spec => []FileBufferBounds
<1>1. ASSUME Inv PROVE FileBufferBounds
  <2>1. TypeOK /\ jobInfo \in Jobs /\ total \in 1..jobInfo.maxVolumes
    BY <1>1 DEF Inv, TypeOK
  <2>2. BufferSize \in Nat /\ total \in Nat
    BY <2>1, Sizes
  <2>3. made \in Nat /\ tokens \in Nat
    BY <2>1, <2>2 DEF TypeOK
  <2> QED
    BY <1>1, <2>1, <2>2, <2>3, RecordedFinite DEF Inv, TokensKept, FileBufferBounds
<1> QED
  BY <1>1, Invariance, PTL

-----------------------------------------------------------------------------
(* The pipeline implements Publication.  Its state, as Publication sees it: *)

Stored == [d \in Uploads |-> at[d] \ {FinalManifest}]
PublishedAt == {d \in Uploads : FinalManifest \in at[d]}
Result == IF ~returned THEN "none" ELSE IF NoError THEN "nil" ELSE "error"

\* Publication's formulas in these terms.
LEMMA AbstractStore ==
    ASSUME NEW d \in DOMAIN Stored, NEW v \in 1..total, Result = "none", PublishedAt = {},
           Stored' = [Stored EXCEPT ![d] = @ \cup {v}],
           UNCHANGED <<total, PublishedAt, Result>>
    PROVE  Abstract!Next
<1>1. Abstract!Store(d, v)
  BY DEF Abstract!Store, Stored, PublishedAt, Result
<1>2. d \in Abstract!Destinations
  BY DEF Abstract!Destinations, Stored
<1> QED
  BY <1>1, <1>2 DEF Abstract!Next

LEMMA AbstractPublish ==
    ASSUME NEW d \in DOMAIN Stored, Result = "none", d \notin PublishedAt,
           \A e \in DOMAIN Stored : Stored[e] = 1..total,
           \A e \in DOMAIN Stored : e < d => e \in PublishedAt,
           PublishedAt' = PublishedAt \cup {d},
           UNCHANGED <<total, Stored, Result>>
    PROVE  Abstract!Next
<1>1. Abstract!Publish(d)
  BY DEF Abstract!Publish, Abstract!Destinations, Stored, PublishedAt, Result
<1>2. d \in Abstract!Destinations
  BY DEF Abstract!Destinations, Stored
<1> QED
  BY <1>1, <1>2 DEF Abstract!Next

LEMMA AbstractReturn ==
    ASSUME Result = "none",
           Result' = "error" \/ (Result' = "nil" /\ PublishedAt = DOMAIN Stored),
           UNCHANGED <<total, Stored, PublishedAt>>
    PROVE  Abstract!Next
<1>1. Abstract!Return
  BY DEF Abstract!Return, Abstract!Destinations, Stored, PublishedAt, Result
<1> QED
  BY <1>1 DEF Abstract!Next

LEMMA AbstractStutters ==
    ASSUME UNCHANGED <<total, Stored, PublishedAt, Result>>
    PROVE  UNCHANGED Abstract!vars
BY DEF Abstract!vars, Stored, PublishedAt, Result

\* The run starts where Publication does.
LEMMA InitMaps == Init => Abstract!Init
<1> SUFFICES ASSUME Init PROVE Abstract!Init
  OBVIOUS
<1>1. jobInfo \in Jobs /\ total \in 1..jobInfo.maxVolumes
  BY DEF Init
<1>2. total \in Nat \ {0} /\ jobInfo.destinations \in Nat \ {0}
  BY <1>1, Sizes
<1>3. /\ Stored = [d \in Uploads |-> {}] /\ PublishedAt = {} /\ Result = "none"
      /\ DOMAIN Stored = Uploads
  BY DEF Init, Stored, PublishedAt, Result
<1>4. Uploads # {} /\ Uploads \subseteq Nat
  BY <1>2 DEF Uploads
<1> QED
  BY <1>2, <1>3, <1>4 DEF Abstract!Init, Abstract!Destinations, Stored, PublishedAt, Result

\* Once Wait has returned, what the errgroup's members returned does not change.
LEMMA ResultStays ==
    ASSUME Inv, Next, returned
    PROVE  UNCHANGED <<jobInfo, sender, coll, fin, link>>
<1>1. sender \in Ended /\ coll \in Ended /\ fin \in Ended /\ \A l \in Link : link[l] \in Ended
  BY DEF Inv, LinksEnd, AllEnded
<1>2. \A l \in Link, w \in Worker : worker[l][w].pc \in Ended
  BY <1>1 DEF Inv, LinksEnd, Ended
<1>3. sender = "ok" => zfs = "ok"
  BY DEF Inv, StreamOrder
<1> USE DEF stream, forward, collect, Ended
<1>4. CASE Progress
  <2> USE <1>4 DEF Progress
  <2>1. CASE Zfs
    BY <2>1 DEF Zfs, ZfsSucceeds, ZfsStopped, ZfsFails, OthersThanStream
  <2>2. CASE Splitter
    BY <2>2 DEF Splitter, NextVolume, CreateVolume, HandVolume, HandCanceled, FillVolume,
                FillStopped, SplitterFails, OthersThanStream
  <2>3. CASE Sender
    BY <1>1, <1>3, <2>3
       DEF Sender, ZfsStarts, StartFails, SendStreamReturns, AbortCurrent, OthersThanStream
  <2>4. CASE Forwarder
    BY <2>4 DEF Forwarder
  <2>5. CASE \E l \in Link, w \in Worker : WorkerStep(l, w)
    <3>1. PICK l \in Link, w \in Worker : WorkerStep(l, w)
      BY <2>5
    <3>2. worker[l][w].pc \notin {"recv", "upload", "hand"}
      BY <1>2
    <3> QED
      BY <3>1, <3>2 DEF WorkerStep, TakeFromStepCh, UploadDone, UploadFails, PassOn,
                        WorkerCanceled, WorkerEnds
  <2>6. CASE \E l \in Link : LinkStep(l)
    BY <1>1, <2>6 DEF LinkStep, CloseOut, LinkReturns
  <2>7. CASE Collector
    BY <1>1, <2>7 DEF Collector, SaveVolume, ReturnToken, CollectorEnds
  <2>8. CASE Finalizer
    BY <1>1, <2>8 DEF Finalizer, FinalizerWakes, FinalizerCanceled, SaveFinalManifest, HandManifest
  <2>9. CASE WaitReturns
    BY <2>9 DEF WaitReturns
  <2> QED
    BY <2>1, <2>2, <2>3, <2>4, <2>5, <2>6, <2>7, <2>8, <2>9
<1>5. CASE Fault
  <2> USE <1>5 DEF Fault
  <2>1. CASE StreamFault
    BY <1>1, <1>3, <2>1 DEF StreamFault, StartFails, ZfsFails, SplitterFails, OthersThanStream
  <2>2. CASE \E l \in Link, w \in Worker : UploadFault(l, w)
    BY <1>2, <2>2 DEF UploadFault, UploadFails
  <2>3. CASE CollectorFault
    BY <1>1, <2>3 DEF CollectorFault, SaveFails
  <2>4. CASE FinalizerFault
    BY <1>1, <2>4 DEF FinalizerFault, SaveFinalFails
  <2>5. CASE Signal
    BY <2>5 DEF Signal
  <2> QED
    BY <2>1, <2>2, <2>3, <2>4, <2>5
<1> QED
  BY <1>4, <1>5 DEF Next, Terminated, vars

\* Only the end of an upload and Wait's return are seen outside.
LEMMA SeenSteps ==
    ASSUME Inv, Next
    PROVE  \/ UNCHANGED <<jobInfo, total, at, returned>>
           \/ /\ UNCHANGED jobInfo
              /\ \E l \in Link, w \in Worker : UploadDone(l, w) /\ OthersThanLinks
           \/ UNCHANGED jobInfo /\ WaitReturns
<1> USE DEF stream
<1>1. CASE Progress
  <2> USE <1>1 DEF Progress
  <2>1. CASE Zfs
    BY <2>1 DEF Zfs, ZfsSucceeds, ZfsStopped, ZfsFails, OthersThanStream
  <2>2. CASE Splitter
    BY <2>2 DEF Splitter, NextVolume, CreateVolume, HandVolume, HandCanceled, FillVolume,
                FillStopped, SplitterFails, OthersThanStream
  <2>3. CASE Sender
    BY <2>3 DEF Sender, ZfsStarts, StartFails, SendStreamReturns, AbortCurrent, OthersThanStream
  <2>4. CASE Forwarder
    BY <2>4 DEF Forwarder
  <2>5. CASE \E l \in Link, w \in Worker : WorkerStep(l, w)
    <3>1. PICK l \in Link, w \in Worker : WorkerStep(l, w)
      BY <2>5
    <3> QED
      BY <3>1 DEF WorkerStep, TakeFromStepCh, UploadFails, PassOn, WorkerCanceled, WorkerEnds,
                  OthersThanLinks
  <2>6. CASE \E l \in Link : LinkStep(l)
    BY <2>6 DEF LinkStep, CloseOut, LinkReturns, OthersThanLinks
  <2>7. CASE Collector
    BY <2>7 DEF Collector
  <2>8. CASE Finalizer
    BY <2>8 DEF Finalizer, OthersThanFinalizer
  <2>9. CASE WaitReturns
    BY <2>9
  <2> QED
    BY <2>1, <2>2, <2>3, <2>4, <2>5, <2>6, <2>7, <2>8, <2>9
<1>2. CASE Fault
  <2> USE <1>2 DEF Fault
  <2>1. CASE StreamFault
    BY <2>1 DEF StreamFault, StartFails, ZfsFails, SplitterFails, OthersThanStream
  <2>2. CASE \E l \in Link, w \in Worker : UploadFault(l, w)
    BY <2>2 DEF UploadFault, UploadFails, OthersThanLinks
  <2>3. CASE CollectorFault
    BY <2>3 DEF CollectorFault
  <2>4. CASE FinalizerFault
    BY <2>4 DEF FinalizerFault, OthersThanFinalizer
  <2>5. CASE Signal
    BY <2>5 DEF Signal
  <2> QED
    BY <2>1, <2>2, <2>3, <2>4, <2>5
<1> QED
  BY <1>1, <1>2 DEF Next, Terminated, vars

\* An upload that ends is a Store, or a Publish when it is the manifest's.
LEMMA UploadMaps ==
    ASSUME Inv, NEW l \in Link, NEW w \in Worker, UploadDone(l, w), OthersThanLinks,
           UNCHANGED jobInfo
    PROVE  Abstract!Next \/ UNCHANGED Abstract!vars
<1> USE SameJob
<1>1. PICK v : v = worker[l][w].vol
  OBVIOUS
<1>2. /\ TypeOK /\ jobInfo \in Jobs /\ total \in Nat /\ made \in Nat /\ made <= total
      /\ at \in [Uploads -> SUBSET Item] /\ worker[l][w].pc = "upload"
  BY Numbers DEF Inv, UploadDone
<1>3. ~returned /\ ~returned' /\ total' = total
  BY <1>2, AtWork DEF OthersThanLinks, Ended
<1>4. Result = "none" /\ Result' = "none"
  BY <1>3 DEF Result
<1>5. HasItem(l, w) /\ InHand(v) /\ v \in 0..total
  <2>1. PICK f \in 0..made : Ahead(f)
    BY DEF Inv, InOrder
  <2> QED
    BY <1>1, <1>2, <2>1, ItemsAreNumbers DEF HasItem, InHand, Ahead, Passed
<1>6. CASE l \notin Uploads
  <2>1. at' = at
    BY <1>6 DEF UploadDone
  <2>2. Stored' = Stored /\ PublishedAt' = PublishedAt
    BY <2>1 DEF Stored, PublishedAt
  <2> QED
    BY <1>3, <1>4, <2>2, AbstractStutters
<1>7. CASE l \in Uploads
  <2>1. /\ \A d \in Uploads : d # l => at'[d] = at[d]
        /\ at'[l] = at[l] \cup {v}
    BY <1>1, <1>2, <1>7 DEF UploadDone
  <2>2. DOMAIN Stored = Uploads
    BY DEF Stored
  <2>3. CASE v = FinalManifest
    <3>1. fin = "ok" /\ FinalManifest \notin at[l]
      BY <1>1, <1>2, <1>5, <1>7, <2>3 DEF Inv, ManifestLast
    <3>2. recorded = 1..total
      BY <3>1 DEF Inv, ManifestLast, Whole
    <3>3. \A d \in Uploads : Stored[d] = 1..total
      <4>1. \A d \in Uploads : 1..total \subseteq at[d] /\ at[d] \subseteq 0..total
        BY <3>2 DEF Inv, Uploaded
      <4>2. \A d \in Uploads : Stored[d] = at[d] \ {0}
        BY DEF Stored, FinalManifest
      <4>3. 0..total = {0} \cup (1..total) /\ 0 \notin 1..total
        BY <1>2
      <4>4. \A d \in Uploads : at[d] \ {0} = 1..total
        BY <4>1, <4>3
      <4> QED
        BY <4>2, <4>4
    <3>4. Stored' = Stored
      BY <2>1, <2>3 DEF Stored
    <3>5. PublishedAt' = PublishedAt \cup {l} /\ l \notin PublishedAt
      BY <1>7, <2>1, <2>3, <3>1 DEF PublishedAt
    <3>6. \A e \in Uploads : e < l => e \in PublishedAt
      BY <1>1, <1>5, <2>3 DEF Inv, Uploaded, PublishedAt
    <3> QED
      BY <1>3, <1>4, <1>7, <2>2, <3>3, <3>4, <3>5, <3>6, AbstractPublish
  <2>4. CASE v # FinalManifest
    <3>1. v \in 1..total
      BY <1>2, <1>5, <2>4 DEF FinalManifest
    <3>2. PublishedAt = {}
      <4>1. SUFFICES ASSUME NEW d \in Uploads, FinalManifest \in at[d] PROVE FALSE
        BY DEF PublishedAt
      <4>2. recorded = 1..total
        BY <4>1 DEF Inv, ManifestLast, Whole
      <4> QED
        BY <1>5, <3>1, <4>2 DEF Inv, OnePlace
    <3>3. PublishedAt' = PublishedAt
      BY <2>1, <2>4 DEF PublishedAt
    <3>4. Stored' = [Stored EXCEPT ![l] = @ \cup {v}]
      BY <1>7, <2>1, <2>4 DEF Stored
    <3> QED
      BY <1>3, <1>4, <1>7, <2>2, <3>1, <3>2, <3>3, <3>4, AbstractStore
  <2> QED
    BY <2>3, <2>4
<1> QED
  BY <1>6, <1>7

\* Wait returns nil only when the manifest is at the last destination.
LEMMA ReturnMaps ==
    ASSUME Inv, WaitReturns, UNCHANGED jobInfo
    PROVE  Abstract!Next
<1> USE SameJob
<1>1. UNCHANGED <<total, at, sender, coll, fin, link>> /\ ~returned /\ returned' /\ jobInfo \in Jobs
  BY DEF WaitReturns, stream, collect, Inv, TypeOK
<1>2. Stored' = Stored /\ PublishedAt' = PublishedAt
  BY <1>1 DEF Stored, PublishedAt
<1>3. NoError' <=> NoError
  BY <1>1 DEF NoError
<1>4. Result = "none" /\ Result' = IF NoError THEN "nil" ELSE "error"
  BY <1>1, <1>3 DEF Result
<1>5. NoError => PublishedAt = Uploads
  BY NilMeansPublished DEF PublishedAt
<1>6. DOMAIN Stored = Uploads
  BY DEF Stored
<1> QED
  BY <1>1, <1>2, <1>4, <1>5, <1>6, AbstractReturn

\* Every step of the pipeline is a step of Publication or changes nothing it sees.
LEMMA StepMaps ==
    ASSUME Inv, [Next]_vars
    PROVE  [Abstract!Next]_(Abstract!vars)
<1> USE SameJob
<1>1. CASE UNCHANGED <<jobInfo, total, at, returned>> /\ (returned => UNCHANGED <<sender, coll, fin, link>>)
  <2>1. Stored' = Stored /\ PublishedAt' = PublishedAt
    BY <1>1 DEF Stored, PublishedAt
  <2>2. returned => (NoError' <=> NoError)
    BY <1>1 DEF NoError
  <2>3. Result' = Result
    BY <1>1, <2>2 DEF Result
  <2> QED
    BY <1>1, <2>1, <2>3, AbstractStutters
<1>2. CASE UNCHANGED vars
  <2>1. UNCHANGED <<jobInfo, total, at, returned, sender, coll, fin, link>>
    BY <1>2 DEF vars, stream, collect
  <2> QED
    BY <1>1, <2>1
<1>3. CASE Next
  <2>1. returned => UNCHANGED <<sender, coll, fin, link>>
    BY <1>3, ResultStays
  <2>2. CASE UNCHANGED <<jobInfo, total, at, returned>>
    BY <1>1, <2>1, <2>2
  <2>3. CASE /\ UNCHANGED jobInfo
             /\ \E l \in Link, w \in Worker : UploadDone(l, w) /\ OthersThanLinks
    BY <2>3, UploadMaps
  <2>4. CASE UNCHANGED jobInfo /\ WaitReturns
    BY <2>4, ReturnMaps
  <2> QED
    BY <1>3, <2>2, <2>3, <2>4, SeenSteps
<1> QED
  BY <1>2, <1>3

\* The goroutines of a send, with all their failures, cancellations and signals, do
\* nothing outside that Publication does not allow: the manifest appears at the
\* destinations one by one and only behind the whole set, and nil means at all of them.
THEOREM Implementation == Spec => ImplementsPublication
<1>1. Inv /\ [Next]_vars => [Abstract!Next]_(Abstract!vars)
  BY StepMaps
<1>2. Init => Abstract!Init
  BY InitMaps
<1> QED
  BY <1>1, <1>2, Invariance, PTL DEF Spec, ImplementsPublication, Abstract!Spec
=============================================================================
