----------------------- MODULE ReceivePipelineProofs ------------------------
(***************************************************************************)
(* Machine-checked proofs about ReceivePipeline, for every --maxFileBuffer *)
(* and every number of volumes.                                            *)
(***************************************************************************)
EXTENDS ReceivePipeline, FiniteSetTheorems, TLAPS

\* bufferChannel has at least one place.
LEMMA BufferType ==
    ASSUME TypeOK
    PROVE  fileBufferSize \in Nat \ {0} /\ Volumes \in Nat \ {0}
BY ReceiveAssumption DEF ReceiveAssumption, TypeOK, fileBufferSize, usePipe

\* The size of the buffer is fixed for the run.
LEMMA SameBuffer ==
    ASSUME UNCHANGED maxFileBuffer
    PROVE  Worker' = Worker /\ usePipe' = usePipe /\ fileBufferSize' = fileBufferSize
BY DEF Worker, usePipe, fileBufferSize

\* What is buffered are volumes, finitely many.
LEMMA BufferedFinite ==
    ASSUME TypeOK, HeldOnce
    PROVE  /\ Buffered \subseteq Vol /\ IsFiniteSet(Buffered)
           /\ Cardinality(Buffered) \in Nat
<1>1. Buffered \subseteq Vol
  BY BufferType DEF TypeOK, HeldOnce, HeldBy, Buffered, Holds, Vol
<1>2. IsFiniteSet(Vol)
  BY FS_Interval, BufferType DEF Vol
<1> QED
  BY <1>1, <1>2, FS_Subset, FS_CardinalityType

\* Nothing is taken, handed on or read when the receive starts.
LEMMA InitInv == Init => Inv
<1> SUFFICES ASSUME Init PROVE Inv
  OBVIOUS
<1>0. fileBufferSize \in Nat \ {0} /\ Volumes \in Nat \ {0}
  BY ReceiveAssumption DEF ReceiveAssumption, Init, fileBufferSize, usePipe
<1>1. TypeOK
  <2>1. /\ worker \in [Worker -> [pc : {"take", "slot", "download", "write"} \cup Ended,
                                 vol : 0..Volumes]]
        /\ chan \in [Vol -> [full : BOOLEAN, closed : BOOLEAN]]
    BY <1>0 DEF Init
  <2>2. canceled \in BOOLEAN /\ returned \in BOOLEAN
    BY Zenon DEF Init
  <2>3. fed \in Seq(Vol)
    BY DEF Init
  <2> QED
    BY <1>0, <2>1, <2>2, <2>3 DEF Init, TypeOK, Ended
<1>2. HeldOnce /\ Untaken /\ NoFailureLost
  BY <1>0 DEF Init, HeldOnce, HeldBy, Untaken, NoFailureLost, Holds, Vol
<1>3. HandedOnIsSound
  BY <1>0 DEF Init, HandedOnIsSound, Handed, Vol
<1>4. FedUpTo
  BY <1>0 DEF Init, FedUpTo
<1>5. SlotEach
  <2>1. Buffered = {}
    BY <1>0 DEF Init, Buffered
  <2> QED
    BY <2>1, FS_EmptySet DEF Init, SlotEach
<1> QED
  BY <1>1, <1>2, <1>3, <1>4, <1>5 DEF Inv

\* A channel gets or loses its volume, or is closed: the others are not affected.
LEMMA ChanFull ==
    ASSUME TypeOK, NEW v \in Vol, NEW b \in BOOLEAN, chan' = [chan EXCEPT ![v].full = b]
    PROVE  /\ chan' \in [Vol -> [full : BOOLEAN, closed : BOOLEAN]]
           /\ chan'[v].full = b /\ chan'[v].closed = chan[v].closed
           /\ \A u \in Vol \ {v} : chan'[u] = chan[u]
BY DEF TypeOK

LEMMA ChanClosed ==
    ASSUME TypeOK, NEW v \in Vol, chan' = [chan EXCEPT ![v].closed = TRUE]
    PROVE  /\ chan' \in [Vol -> [full : BOOLEAN, closed : BOOLEAN]]
           /\ chan'[v].closed /\ chan'[v].full = chan[v].full
           /\ \A u \in Vol \ {v} : chan'[u] = chan[u]
BY DEF TypeOK

-----------------------------------------------------------------------------
(* One lemma per action of a download worker.                              *)

\* A step that leaves the orderer and receiveStream alone keeps what is said
\* of them.
LEMMA WorkersKeepFed ==
    ASSUME Inv, OthersThanWorkers
    PROVE  FedUpTo'
BY DEF Inv, FedUpTo, OthersThanWorkers, receive

LEMMA TakeSequenceInv ==
    ASSUME Inv, NEW w \in Worker, TakeSequence(w), OthersThanWorkers,
           UNCHANGED <<maxFileBuffer, aborted>>
    PROVE  Inv'
<1> TypeOK /\ Volumes \in Nat \ {0} /\ fileBufferSize \in Nat \ {0}
  BY BufferType DEF Inv
<1> USE SameBuffer
<1>0. /\ worker'[w].pc = "slot" /\ worker'[w].vol = queue
      /\ \A u \in Worker \ {w} : worker'[u] = worker[u] /\ Holds(u)' = Holds(u)
      /\ queue \in 1..Volumes /\ queue' = queue + 1
      /\ UNCHANGED <<chan, ord, ordVol, written, stored>>
      /\ \A v : Handed(v)' = Handed(v)
  BY DEF TypeOK, TakeSequence, OthersThanWorkers, Holds, Handed
<1>1. TypeOK'
  <2>1. worker' \in [Worker -> [pc : {"take", "slot", "download", "write"} \cup Ended,
                                 vol : 0..Volumes]]
    BY DEF TypeOK, TakeSequence
  <2> QED
    BY <2>1 DEF TypeOK, TakeSequence, OthersThanWorkers, receive
<1>2. HeldOnce'
  <2> SUFFICES ASSUME NEW x \in Worker
               PROVE  HeldBy(x)'
    BY DEF HeldOnce
  <2>1. queue \notin written /\ ~chan[queue].closed /\ ~Handed(queue)
    BY <1>0 DEF Inv, TypeOK, Untaken, HandedOnIsSound, Vol
  <2>2. CASE x = w
    <3>1. \A u \in Worker \ {w} : Holds(u) => worker[u].vol # queue
      BY <1>0 DEF Inv, HeldOnce, HeldBy
    <3> QED
      BY <1>0, <2>1, <2>2, <3>1 DEF HeldBy, Holds
  <2>3. CASE x # w
    <3>1. worker'[x] = worker[x] /\ Holds(x)' = Holds(x) /\ HeldBy(x)
      BY <1>0, <2>3 DEF Inv, HeldOnce
    <3>2. Holds(x) => \A u \in Worker \ {x} : Holds(u)' => worker'[u].vol # worker[x].vol
      BY <1>0, <3>1 DEF HeldBy
    <3> QED
      BY <1>0, <3>1, <3>2 DEF HeldBy
  <2> QED
    BY <2>2, <2>3
<1>3. Untaken' /\ HandedOnIsSound'
  BY <1>0 DEF Inv, TypeOK, Untaken, HandedOnIsSound, Vol
<1>4. NoFailureLost'
  <2> SUFFICES ASSUME NEW v \in 1..queue
               PROVE  \/ stored[v] = "good"
                      \/ \E x \in Worker : Holds(x)' /\ worker'[x].vol = v
                      \/ \E x \in Worker : worker'[x].pc = "failed"
    BY <1>0 DEF TypeOK, NoFailureLost
  <2>1. CASE v = queue
    BY <1>0, <2>1 DEF Holds
  <2>2. CASE v \in 1..(queue - 1)
    BY <1>0, <2>2 DEF Inv, NoFailureLost, TakeSequence, Holds
  <2> QED
    BY <1>0, <2>1, <2>2
<1>5. SlotEach'
  <2>1. Buffered' = Buffered
    BY DEF TypeOK, Buffered, TakeSequence, OthersThanWorkers, receive
  <2> QED
    BY <2>1 DEF Inv, SlotEach, TakeSequence
<1> QED
  BY <1>1, <1>2, <1>3, <1>4, <1>5, WorkersKeepFed DEF Inv

\* Every other step of a worker changes at most its own place and what is recorded of
\* the volume it holds: it is enough to look at that volume.
LEMMA OwnVolumeOnly ==
    ASSUME Inv, NEW w \in Worker, NEW pc \in {"take", "slot", "download", "write"} \cup Ended,
           worker[w].pc # "failed", worker' = [worker EXCEPT ![w].pc = pc],
           UNCHANGED <<maxFileBuffer, stored, queue, ord, ordVol>>,
           \/ UNCHANGED <<chan, written>>
           \/ Holds(w) /\ \A v \in Vol \ {worker[w].vol} :
                             chan'[v] = chan[v] /\ (v \in written' <=> v \in written),
           written' \subseteq Vol,
           HeldBy(w)', Holds(w)' => Holds(w),
           Holds(w) => \/ Holds(w)' \/ pc = "failed" \/ stored[worker[w].vol] = "good",
           Holds(w) /\ ~usePipe => (Handed(worker[w].vol)' => worker[w].vol \in written'),
           Holds(w) /\ ~usePipe => (worker[w].vol \in written' => stored[worker[w].vol] = "good")
    PROVE  /\ worker' \in [Worker -> [pc : {"take", "slot", "download", "write"} \cup Ended,
                                     vol : 0..Volumes]]
           /\ HeldOnce' /\ Untaken' /\ HandedOnIsSound' /\ NoFailureLost'
<1> TypeOK /\ Volumes \in Nat \ {0} /\ fileBufferSize \in Nat \ {0}
  BY BufferType DEF Inv
<1> USE SameBuffer
<1> DEFINE own == worker[w].vol
<1>0. /\ worker'[w].pc = pc /\ worker'[w].vol = own
      /\ \A u \in Worker \ {w} : worker'[u] = worker[u] /\ Holds(u)' = Holds(u)
      /\ UNCHANGED <<queue, stored>>
  BY DEF TypeOK, Holds
<1>1. worker' \in [Worker -> [pc : {"take", "slot", "download", "write"} \cup Ended,
                             vol : 0..Volumes]]
  BY DEF TypeOK
<1>2. /\ Holds(w) => own \in 1..(queue - 1) /\ own \in Vol
      /\ \A x \in Worker \ {w} : Holds(x) => worker[x].vol \in Vol
      /\ \A x \in Worker \ {w} : Holds(x) /\ Holds(w) => worker[x].vol # own
  BY DEF Inv, HeldOnce, HeldBy, TypeOK, Vol
<1>3. \A v \in Vol :
        \/ chan'[v] = chan[v] /\ (v \in written' <=> v \in written)
        \/ Holds(w) /\ v = own
  OBVIOUS
<1>4. \A v \in Vol : Handed(v)' => Handed(v) \/ (Holds(w) /\ v = own)
  BY <1>3 DEF Handed
<1>5. HeldOnce'
  <2> SUFFICES ASSUME NEW x \in Worker, x # w
               PROVE  HeldBy(x)'
    BY DEF HeldOnce
  <2>1. worker'[x] = worker[x] /\ Holds(x)' = Holds(x) /\ HeldBy(x)
    BY <1>0 DEF Inv, HeldOnce
  <2>2. Holds(x) => /\ worker[x].vol \in 1..(queue - 1)
                    /\ worker[x].vol \notin written' /\ ~chan'[worker[x].vol].closed
    BY <1>2, <1>3, <2>1 DEF HeldBy
  <2>3. worker[x].pc \in {"slot", "download"} => ~Handed(worker[x].vol)'
    BY <1>2, <1>4, <2>1 DEF HeldBy, Holds
  <2>4. Holds(x) => \A u \in Worker \ {x} : Holds(u)' => worker'[u].vol # worker[x].vol
    BY <1>0, <2>1 DEF HeldBy
  <2> QED
    BY <1>0, <2>1, <2>2, <2>3, <2>4 DEF HeldBy
<1>6. Untaken'
  BY <1>0, <1>2, <1>3 DEF Inv, TypeOK, Untaken, Vol
<1>7. HandedOnIsSound'
  <2>1. Holds(w) /\ ~usePipe => (own \in written' => stored[own] = "good")
    BY <1>0
  <2>2. ASSUME NEW v \in Vol, Handed(v)'
        PROVE  v < queue /\ (~usePipe => v \in written')
    <3>1. CASE Handed(v)
      BY <1>2, <1>3, <2>1, <3>1 DEF Inv, HandedOnIsSound, HeldOnce, HeldBy
    <3>2. CASE Holds(w) /\ v = own
      BY <1>0, <1>2, <2>1, <2>2, <3>2 DEF TypeOK, Handed
    <3> QED
      BY <1>4, <2>2, <3>1, <3>2
  <2>3. ~usePipe => \A v \in written' : stored[v] = "good"
    BY <1>3, <2>1 DEF Inv, HandedOnIsSound
  <2> QED
    BY <1>0, <2>2, <2>3 DEF HandedOnIsSound
<1>8. NoFailureLost'
  <2> SUFFICES ASSUME NEW v \in 1..(queue - 1)
               PROVE  \/ stored[v] = "good"
                      \/ \E x \in Worker : Holds(x)' /\ worker'[x].vol = v
                      \/ \E x \in Worker : worker'[x].pc = "failed"
    BY <1>0 DEF TypeOK, NoFailureLost
  <2>1. CASE \E x \in Worker : worker[x].pc = "failed"
    <3>1. PICK x \in Worker : worker[x].pc = "failed"
      BY <2>1
    <3> QED
      BY <1>0, <3>1
  <2>2. CASE \E x \in Worker : Holds(x) /\ worker[x].vol = v
    BY <1>0, <2>2
  <2> QED
    BY <2>1, <2>2 DEF Inv, NoFailureLost
<1> QED
  BY <1>1, <1>5, <1>6, <1>7, <1>8

\* The types a worker's step can change.
LEMMA WorkersKeepType ==
    ASSUME TypeOK, OthersThanWorkers, UNCHANGED <<maxFileBuffer, stored, queue>>,
           worker' \in [Worker -> [pc : {"take", "slot", "download", "write"} \cup Ended,
                                   vol : 0..Volumes]],
           slots' \in 0..fileBufferSize, aborted' \subseteq Vol,
           chan' \in [Vol -> [full : BOOLEAN, closed : BOOLEAN]],
           written' \subseteq Vol, canceled' \in BOOLEAN
    PROVE  TypeOK'
BY SameBuffer DEF TypeOK, OthersThanWorkers, receive

\* No new volume is buffered: the places taken are still enough.
LEMMA NoneBuffered ==
    ASSUME Inv, Buffered' \subseteq Buffered, UNCHANGED slots
    PROVE  SlotEach'
<1>1. Cardinality(Buffered') <= Cardinality(Buffered)
      /\ Cardinality(Buffered') \in Nat /\ Cardinality(Buffered) \in Nat
  BY BufferedFinite, FS_Subset, FS_CardinalityType DEF Inv
<1> QED
  BY <1>1 DEF Inv, TypeOK, SlotEach

LEMMA WorkerEndsInv ==
    ASSUME Inv, NEW w \in Worker, WorkerEnds(w), OthersThanWorkers,
           UNCHANGED <<maxFileBuffer, aborted>>
    PROVE  Inv'
<1> TypeOK /\ Volumes \in Nat \ {0} /\ fileBufferSize \in Nat \ {0}
  BY BufferType DEF Inv
<1> USE SameBuffer
<1>0. PICK pc \in Ended :
        /\ worker' = [worker EXCEPT ![w].pc = pc]
        /\ pc = "ok" => queue = Volumes + 1
  <2>1. \/ queue > Volumes /\ worker' = [worker EXCEPT ![w].pc = "ok"]
        \/ worker' = [worker EXCEPT ![w].pc = "failed"]
    BY DEF WorkerEnds
  <2>2. queue > Volumes => queue = Volumes + 1
    BY DEF TypeOK
  <2>3. "ok" \in Ended /\ "failed" \in Ended /\ "ok" # "failed"
    BY DEF Ended
  <2> QED
    BY <2>1, <2>2, <2>3, Zenon
<1>1. worker[w].pc = "take" /\ ~Holds(w)
  BY DEF WorkerEnds, Holds
<1>2. HeldBy(w)' /\ ~Holds(w)'
  BY <1>0, <1>1 DEF HeldBy, Holds, WorkerEnds, TypeOK, Ended
<1>3. /\ worker' \in [Worker -> [pc : {"take", "slot", "download", "write"} \cup Ended,
                                 vol : 0..Volumes]]
      /\ HeldOnce' /\ Untaken' /\ HandedOnIsSound' /\ NoFailureLost'
  BY <1>0, <1>1, <1>2, OwnVolumeOnly DEF WorkerEnds, OthersThanWorkers, TypeOK
<1>4. canceled' \in BOOLEAN
  BY DEF WorkerEnds, Cancel, TypeOK
<1>5. TypeOK'
  BY <1>3, <1>4, WorkersKeepType DEF WorkerEnds, TypeOK
<1>6. Buffered' = Buffered
  BY <1>0, <1>1 DEF Buffered, WorkerEnds, OthersThanWorkers, receive, TypeOK, Ended
<1> QED
  BY <1>3, <1>5, <1>6, NoneBuffered, WorkersKeepFed DEF Inv, WorkerEnds

\* The place is taken after the volume, so the volume is not buffered before.
LEMMA TakeSlotInv ==
    ASSUME Inv, NEW w \in Worker, TakeSlot(w), OthersThanWorkers,
           UNCHANGED <<maxFileBuffer, aborted>>
    PROVE  Inv'
<1> TypeOK /\ Volumes \in Nat \ {0} /\ fileBufferSize \in Nat \ {0}
  BY BufferType DEF Inv
<1> USE SameBuffer
<1> DEFINE own == worker[w].vol
<1>0. /\ worker' = [worker EXCEPT ![w].pc = "download"]
      /\ worker[w].pc = "slot" /\ Holds(w) /\ Holds(w)'
  BY DEF TakeSlot, Holds, TypeOK
<1>1. HeldBy(w)
  BY DEF Inv, HeldOnce
<1>2. /\ worker'[w].vol = own /\ worker'[w].pc = "download"
      /\ \A u \in Worker \ {w} : worker'[u] = worker[u] /\ Holds(u)' = Holds(u)
      /\ UNCHANGED <<chan, written, queue, ord, ordVol, stored>>
      /\ own \in Vol
  BY <1>0, <1>1 DEF TakeSlot, OthersThanWorkers, Holds, HeldBy, TypeOK, Vol
<1>3. ~Handed(own)'
  BY <1>0, <1>1, <1>2 DEF HeldBy, Handed
<1>4. HeldBy(w)'
  BY <1>0, <1>1, <1>2, <1>3 DEF HeldBy, Handed, Holds
<1>5. /\ worker' \in [Worker -> [pc : {"take", "slot", "download", "write"} \cup Ended,
                                 vol : 0..Volumes]]
      /\ HeldOnce' /\ Untaken' /\ HandedOnIsSound' /\ NoFailureLost'
  <2>1. ~usePipe => (Handed(worker[w].vol)' => worker[w].vol \in written')
    BY <1>2, <1>3 DEF Handed
  <2>2. own \notin written'
    BY <1>0, <1>1, <1>2 DEF HeldBy
  <2> QED
    BY <1>0, <1>2, <1>4, <2>1, <2>2, OwnVolumeOnly DEF TypeOK
<1>6. TypeOK'
  BY <1>5, WorkersKeepType DEF TakeSlot, TypeOK
<1>7. SlotEach'
  <2>1. own \notin Buffered
    BY <1>0, <1>1 DEF HeldBy, Buffered, Holds, TypeOK
  <2>2. Buffered' = Buffered \cup {own}
    BY <1>0, <1>2 DEF Buffered, OthersThanWorkers, receive
  <2>3. Cardinality(Buffered') = Cardinality(Buffered) + 1 /\ Cardinality(Buffered) \in Nat
    BY <2>1, <2>2, BufferedFinite, FS_AddElement DEF Inv
  <2> QED
    BY <2>3 DEF Inv, SlotEach, TakeSlot, TypeOK
<1> QED
  BY <1>5, <1>6, <1>7, WorkersKeepFed DEF Inv

\* A worker's error: the volume it held is closed and lost, its place with it.
LEMMA VolumeFailsInv ==
    ASSUME Inv, NEW w \in Worker, Holds(w), VolumeFails(w), OthersThanWorkers,
           \/ UNCHANGED written
           \/ worker[w].pc = "write" /\ written' = written \cup {worker[w].vol},
           UNCHANGED <<maxFileBuffer, aborted>>
    PROVE  Inv'
<1> TypeOK /\ Volumes \in Nat \ {0} /\ fileBufferSize \in Nat \ {0}
  BY BufferType DEF Inv
<1> USE SameBuffer
<1> DEFINE own == worker[w].vol
<1>0. HeldBy(w) /\ own \in Vol /\ (worker[w].pc = "write" => usePipe)
  BY DEF Inv, HeldOnce, HeldBy, TypeOK, Vol
<1>1. /\ worker' = [worker EXCEPT ![w].pc = "failed"]
      /\ worker'[w].vol = own /\ worker'[w].pc = "failed"
      /\ \A u \in Worker \ {w} : worker'[u] = worker[u]
      /\ UNCHANGED <<queue, ord, ordVol, stored, slots>>
      /\ ~Holds(w)'
  BY DEF VolumeFails, OthersThanWorkers, Holds, TypeOK
<1>2. /\ chan' \in [Vol -> [full : BOOLEAN, closed : BOOLEAN]]
      /\ chan'[own].full = chan[own].full
      /\ \A v \in Vol \ {own} : chan'[v] = chan[v] /\ (v \in written' <=> v \in written)
      /\ written' \subseteq Vol
  BY <1>0 DEF VolumeFails, TypeOK
<1>3. HeldBy(w)'
  BY <1>1 DEF HeldBy, Holds
<1>4. Handed(own)' => Handed(own)
  BY <1>1, <1>2 DEF Handed
<1>5. /\ worker' \in [Worker -> [pc : {"take", "slot", "download", "write"} \cup Ended,
                                 vol : 0..Volumes]]
      /\ HeldOnce' /\ Untaken' /\ HandedOnIsSound' /\ NoFailureLost'
  <2>1. ~usePipe => (Handed(worker[w].vol)' => worker[w].vol \in written')
    BY <1>0, <1>4 DEF HeldBy, Holds
  <2>2. ~usePipe => own \notin written'
    BY <1>0 DEF HeldBy
  <2>3. worker[w].pc # "failed" /\ "failed" \in Ended
    BY DEF Holds, Ended
  <2> QED
    BY <1>1, <1>2, <1>3, <2>1, <2>2, <2>3, OwnVolumeOnly
<1>6. TypeOK'
  BY <1>1, <1>2, <1>5, WorkersKeepType DEF VolumeFails, Cancel, TypeOK
<1>7. Buffered' \subseteq Buffered
  BY <1>0, <1>1, <1>2 DEF Buffered, OthersThanWorkers, receive
<1> QED
  BY <1>1, <1>5, <1>6, <1>7, NoneBuffered, WorkersKeepFed DEF Inv

LEMMA SlotCanceledInv ==
    ASSUME Inv, NEW w \in Worker, SlotCanceled(w), OthersThanWorkers,
           UNCHANGED <<maxFileBuffer, aborted>>
    PROVE  Inv'
BY VolumeFailsInv DEF SlotCanceled, Holds

LEMMA DownloadRefusedInv ==
    ASSUME Inv, NEW w \in Worker, DownloadRefused(w), OthersThanWorkers,
           UNCHANGED <<maxFileBuffer, aborted>>
    PROVE  Inv'
BY VolumeFailsInv DEF DownloadRefused, Holds

LEMMA PipeAbortedInv ==
    ASSUME Inv, NEW w \in Worker, PipeAborted(w), OthersThanWorkers,
           UNCHANGED <<maxFileBuffer, aborted>>
    PROVE  Inv'
BY VolumeFailsInv DEF PipeAborted, Holds

LEMMA DownloadFailsInv ==
    ASSUME Inv, NEW w \in Worker, DownloadFails(w), OthersThanWorkers,
           UNCHANGED <<maxFileBuffer, aborted>>
    PROVE  Inv'
BY VolumeFailsInv DEF DownloadFails, Holds

\* Only a file that is what the manifest records is handed on.
LEMMA DownloadFileInv ==
    ASSUME Inv, NEW w \in Worker, DownloadFile(w), OthersThanWorkers,
           UNCHANGED <<maxFileBuffer, aborted>>
    PROVE  Inv'
<1> TypeOK /\ Volumes \in Nat \ {0} /\ fileBufferSize \in Nat \ {0}
  BY BufferType DEF Inv
<1> USE SameBuffer
<1> DEFINE own == worker[w].vol
<1>0. HeldBy(w) /\ Holds(w) /\ own \in Vol
  BY DEF Inv, HeldOnce, HeldBy, Holds, DownloadFile, TypeOK, Vol
<1>1. /\ worker' = [worker EXCEPT ![w].pc = "take"]
      /\ worker'[w].vol = own /\ worker'[w].pc = "take"
      /\ \A u \in Worker \ {w} : worker'[u] = worker[u]
      /\ UNCHANGED <<queue, ord, ordVol, stored, slots>>
      /\ ~Holds(w)'
  BY DEF DownloadFile, OthersThanWorkers, Holds, TypeOK
<1>2. /\ chan' \in [Vol -> [full : BOOLEAN, closed : BOOLEAN]]
      /\ written' = written \cup {own} /\ written' \subseteq Vol
      /\ \A v \in Vol \ {own} : chan'[v] = chan[v]
      /\ stored[own] = "good"
  BY <1>0 DEF DownloadFile, TypeOK
<1>3. HeldBy(w)'
  BY <1>1 DEF HeldBy, Holds
<1>4. /\ worker' \in [Worker -> [pc : {"take", "slot", "download", "write"} \cup Ended,
                                 vol : 0..Volumes]]
      /\ HeldOnce' /\ Untaken' /\ HandedOnIsSound' /\ NoFailureLost'
  <2>1. worker[w].pc # "failed"
    BY <1>0 DEF Holds
  <2> QED
    BY <1>0, <1>1, <1>2, <1>3, <2>1, OwnVolumeOnly
<1>5. TypeOK'
  BY <1>1, <1>2, <1>4, WorkersKeepType DEF DownloadFile, TypeOK
<1>6. Buffered' \subseteq Buffered
  BY <1>0, <1>1, <1>2 DEF Buffered, OthersThanWorkers, receive, DownloadFile
<1> QED
  BY <1>1, <1>4, <1>5, <1>6, NoneBuffered, WorkersKeepFed DEF Inv

\* A pipe is handed on while its worker still holds it.
LEMMA OpenPipeInv ==
    ASSUME Inv, NEW w \in Worker, OpenPipe(w), OthersThanWorkers,
           UNCHANGED <<maxFileBuffer, aborted>>
    PROVE  Inv'
<1> TypeOK /\ Volumes \in Nat \ {0} /\ fileBufferSize \in Nat \ {0}
  BY BufferType DEF Inv
<1> USE SameBuffer
<1> DEFINE own == worker[w].vol
<1>0. HeldBy(w) /\ Holds(w) /\ own \in Vol
  BY DEF Inv, HeldOnce, HeldBy, Holds, OpenPipe, TypeOK, Vol
<1>1. /\ worker' = [worker EXCEPT ![w].pc = "write"]
      /\ worker'[w].vol = own /\ worker'[w].pc = "write"
      /\ \A u \in Worker \ {w} : worker'[u] = worker[u] /\ Holds(u)' = Holds(u)
      /\ UNCHANGED <<queue, ord, ordVol, stored, slots, written>>
      /\ Holds(w)'
  BY DEF OpenPipe, OthersThanWorkers, Holds, TypeOK
<1>2. /\ chan' \in [Vol -> [full : BOOLEAN, closed : BOOLEAN]]
      /\ chan'[own].closed = chan[own].closed
      /\ \A v \in Vol \ {own} : chan'[v] = chan[v]
      /\ written' \subseteq Vol
  BY <1>0, <1>1, ChanFull DEF OpenPipe, TypeOK
<1>3. HeldBy(w)'
  BY <1>0, <1>1, <1>2 DEF HeldBy, Holds, OpenPipe
<1>4. /\ worker' \in [Worker -> [pc : {"take", "slot", "download", "write"} \cup Ended,
                                 vol : 0..Volumes]]
      /\ HeldOnce' /\ Untaken' /\ HandedOnIsSound' /\ NoFailureLost'
  <2>1. worker[w].pc # "failed" /\ usePipe
    BY <1>0 DEF Holds, OpenPipe
  <2> QED
    BY <1>0, <1>1, <1>2, <1>3, <2>1, OwnVolumeOnly
<1>5. TypeOK'
  BY <1>1, <1>2, <1>4, WorkersKeepType DEF OpenPipe, TypeOK
<1>6. Buffered' \subseteq Buffered
  BY <1>0, <1>1, <1>2 DEF Buffered, OthersThanWorkers, receive, OpenPipe
<1> QED
  BY <1>1, <1>4, <1>5, <1>6, NoneBuffered, WorkersKeepFed DEF Inv

\* What was read from a pipe is checked after: a bad volume is its worker's failure.
LEMMA WritePipeInv ==
    ASSUME Inv, NEW w \in Worker, WritePipe(w), OthersThanWorkers,
           UNCHANGED <<maxFileBuffer, aborted>>
    PROVE  Inv'
<1> TypeOK /\ Volumes \in Nat \ {0} /\ fileBufferSize \in Nat \ {0}
  BY BufferType DEF Inv
<1> USE SameBuffer
<1> DEFINE own == worker[w].vol
<1>0. HeldBy(w) /\ Holds(w) /\ own \in Vol /\ worker[w].pc = "write" /\ usePipe
  BY DEF Inv, HeldOnce, HeldBy, Holds, WritePipe, TypeOK, Vol
<1>1. CASE stored[own] # "good"
  BY <1>0, <1>1, VolumeFailsInv DEF WritePipe
<1>2. CASE stored[own] = "good"
  <2>1. /\ worker' = [worker EXCEPT ![w].pc = "take"]
        /\ worker'[w].vol = own /\ worker'[w].pc = "take"
        /\ \A u \in Worker \ {w} : worker'[u] = worker[u]
        /\ UNCHANGED <<queue, ord, ordVol, stored, slots, canceled>>
        /\ ~Holds(w)'
    BY <1>2 DEF WritePipe, OthersThanWorkers, Holds, TypeOK
  <2>2. /\ chan' \in [Vol -> [full : BOOLEAN, closed : BOOLEAN]]
        /\ written' = written \cup {own} /\ written' \subseteq Vol
        /\ \A v \in Vol \ {own} : chan'[v] = chan[v]
    BY <1>0, <1>2, ChanClosed DEF WritePipe, TypeOK
  <2>3. HeldBy(w)'
    BY <2>1 DEF HeldBy, Holds
  <2>4. /\ worker' \in [Worker -> [pc : {"take", "slot", "download", "write"} \cup Ended,
                                   vol : 0..Volumes]]
        /\ HeldOnce' /\ Untaken' /\ HandedOnIsSound' /\ NoFailureLost'
    BY <1>0, <1>2, <2>1, <2>2, <2>3, OwnVolumeOnly
  <2>5. TypeOK'
    BY <2>1, <2>2, <2>4, WorkersKeepType DEF TypeOK
  <2>6. Buffered' \subseteq Buffered
    BY <1>0, <2>1, <2>2 DEF Buffered, OthersThanWorkers, receive
  <2> QED
    BY <2>1, <2>4, <2>5, <2>6, NoneBuffered, WorkersKeepFed DEF Inv
<1> QED
  BY <1>1, <1>2

\* The context's AfterFunc fails the two ends of a pipe and nothing else.
LEMMA AbortPipeInv ==
    ASSUME Inv, NEW w \in Worker, AbortPipe(w), OthersThanWorkers, UNCHANGED maxFileBuffer
    PROVE  Inv'
<1> USE SameBuffer
<1>0. TypeOK /\ Volumes \in Nat \ {0}
  BY BufferType DEF Inv
<1>1. UNCHANGED <<stored, queue, worker, chan, written, slots, canceled, ord, ordVol, fed>>
  BY DEF AbortPipe, OthersThanWorkers, download, receive
<1>2. TypeOK'
  <2>1. HeldBy(w)
    BY DEF Inv, HeldOnce
  <2>2. aborted' \subseteq Vol
    <3>1. worker[w].vol \in 1..(queue - 1) /\ queue \in 1..(Volumes + 1)
      BY <1>0, <2>1 DEF AbortPipe, HeldBy, Holds, TypeOK
    <3>2. worker[w].vol \in Vol
      BY <1>0, <3>1 DEF Vol
    <3>3. aborted \subseteq Vol
      BY <1>0 DEF TypeOK
    <3>4. aborted' = aborted \cup {worker[w].vol}
      BY DEF AbortPipe
    <3> QED
      BY <3>2, <3>3, <3>4
  <2> QED
    BY <1>1, <2>2, WorkersKeepType DEF Inv, TypeOK
<1>3. HeldOnce' /\ Untaken' /\ HandedOnIsSound' /\ NoFailureLost'
  BY <1>1 DEF Inv, HeldOnce, HeldBy, Holds, Handed, Untaken, HandedOnIsSound, NoFailureLost
<1>4. Buffered' = Buffered
  BY <1>1 DEF Buffered
<1> QED
  BY <1>1, <1>2, <1>3, <1>4, NoneBuffered, WorkersKeepFed DEF Inv

-----------------------------------------------------------------------------
(* The orderer.                                                            *)

\* The orderer closes no channel, and gets no volume it was not handed.
LEMMA OrdererKeepsWorkers ==
    ASSUME Inv, UNCHANGED <<maxFileBuffer, stored, queue, worker, slots, written, fed>>,
           \A v \in Vol : chan'[v].closed = chan[v].closed,
           \A v \in Vol : Handed(v)' => Handed(v)
    PROVE  HeldOnce' /\ Untaken' /\ HandedOnIsSound' /\ NoFailureLost' /\ SlotEach'
<1> TypeOK /\ Volumes \in Nat \ {0} /\ fileBufferSize \in Nat \ {0}
  BY BufferType DEF Inv
<1> USE SameBuffer
<1>1. HeldOnce'
  <2> SUFFICES ASSUME NEW x \in Worker
               PROVE  HeldBy(x)'
    BY DEF HeldOnce
  <2>1. HeldBy(x) /\ (\A u \in Worker : Holds(u)' = Holds(u)) /\ UNCHANGED <<worker, queue, written>>
    BY DEF Inv, HeldOnce, Holds
  <2>2. worker[x].pc \in {"slot", "download"} => ~Handed(worker[x].vol)'
    BY <2>1 DEF TypeOK, HeldBy, Holds, Handed, Vol
  <2>3. Holds(x) => ~chan'[worker[x].vol].closed
    BY <2>1 DEF TypeOK, HeldBy, Holds, Vol
  <2> QED
    BY <2>1, <2>2, <2>3 DEF HeldBy
<1>2. Untaken' /\ HandedOnIsSound' /\ NoFailureLost'
  BY DEF Inv, TypeOK, Untaken, HandedOnIsSound, NoFailureLost, Holds, Vol
<1>3. SlotEach'
  <2>1. Buffered' = Buffered
    BY DEF Buffered
  <2> QED
    BY <2>1, NoneBuffered
<1> QED
  BY <1>1, <1>2, <1>3

\* What the orderer waits for or holds is a volume of the manifest.
LEMMA OrdererInManifest ==
    ASSUME Inv, ord # "ok"
    PROVE  ordVol \in Vol
<1>1. Volumes \in Nat \ {0}
  BY BufferType DEF Inv
<1> QED
  BY <1>1 DEF Inv, TypeOK, FedUpTo, Vol

LEMMA OrderNextInv ==
    ASSUME Inv, OrderNext,
           UNCHANGED <<maxFileBuffer, stored, queue, worker, slots, written, aborted, fed, zfs,
                       receiver, returned>>
    PROVE  Inv'
<1> TypeOK /\ Volumes \in Nat \ {0}
  BY BufferType DEF Inv
<1> USE SameBuffer
<1>1. ordVol \in Vol /\ chan' = [chan EXCEPT ![ordVol].full = FALSE]
  BY OrdererInManifest DEF OrderNext
<1>2. /\ chan' \in [Vol -> [full : BOOLEAN, closed : BOOLEAN]]
      /\ chan'[ordVol].full = FALSE /\ chan'[ordVol].closed = chan[ordVol].closed
      /\ \A u \in Vol \ {ordVol} : chan'[u] = chan[u]
  BY <1>1, ChanFull
<1>3. TypeOK'
  BY <1>2 DEF OrderNext, TypeOK
<1>4. \A v \in Vol : Handed(v)' => Handed(v)
  BY <1>1, <1>2 DEF OrderNext, Handed
<1>5. FedUpTo'
  BY DEF Inv, FedUpTo, OrderNext
<1> QED
  BY <1>2, <1>3, <1>4, <1>5, OrdererKeepsWorkers DEF Inv

LEMMA OrderStoppedInv ==
    ASSUME Inv, OrderStopped,
           UNCHANGED <<maxFileBuffer, stored, queue, worker, slots, written, aborted, fed, zfs,
                       receiver, returned>>
    PROVE  Inv'
<1> USE SameBuffer
<1>1. TypeOK'
  BY DEF Inv, TypeOK, OrderStopped
<1>2. \A v \in Vol : Handed(v)' => Handed(v)
  BY DEF OrderStopped, Handed
<1>3. FedUpTo'
  BY DEF Inv, FedUpTo, OrderStopped
<1> QED
  BY <1>1, <1>2, <1>3, OrdererKeepsWorkers DEF Inv, OrderStopped

\* orderedVolumes has no buffer: the copier has the volume when the orderer goes on.
LEMMA EmitInv ==
    ASSUME Inv, Emit,
           UNCHANGED <<maxFileBuffer, stored, queue, worker, slots, written, aborted, fed, zfs,
                       receiver, returned>>
    PROVE  Inv'
<1> TypeOK /\ Volumes \in Nat \ {0}
  BY BufferType DEF Inv
<1> USE SameBuffer
<1>1. ordVol \in Vol
  BY OrdererInManifest DEF Emit
<1>2. TypeOK'
  BY <1>1 DEF TypeOK, Emit, Ended, Vol
<1>3. \A v \in Vol : Handed(v)' => Handed(v)
  BY <1>1 DEF Emit, Handed, Vol
<1>4. FedUpTo'
  BY <1>1 DEF Inv, TypeOK, FedUpTo, Emit, Vol
<1> QED
  BY <1>2, <1>3, <1>4, OrdererKeepsWorkers DEF Inv, Emit

LEMMA OrderCanceledInv ==
    ASSUME Inv, OrderCanceled,
           UNCHANGED <<maxFileBuffer, stored, queue, worker, slots, written, aborted, fed, zfs,
                       receiver, returned>>
    PROVE  Inv'
<1> USE SameBuffer
<1>1. TypeOK'
  BY DEF Inv, TypeOK, OrderCanceled, Cancel, Ended
<1>2. \A v \in Vol : Handed(v)' => Handed(v)
  BY DEF OrderCanceled, Handed
<1>3. FedUpTo'
  BY DEF Inv, FedUpTo, OrderCanceled
<1> QED
  BY <1>1, <1>2, <1>3, OrdererKeepsWorkers DEF Inv, OrderCanceled

-----------------------------------------------------------------------------
(* receiveStream.                                                          *)

\* receiveStream touches neither the downloads nor the orderer.
LEMMA ReceiverKeepsWorkers ==
    ASSUME Inv, OthersThanReceiver, UNCHANGED maxFileBuffer
    PROVE  HeldOnce' /\ Untaken' /\ HandedOnIsSound' /\ NoFailureLost'
<1> USE SameBuffer DEF OthersThanReceiver, download
<1>1. HeldOnce'
  BY DEF Inv, HeldOnce, HeldBy, Holds, Handed
<1>2. Untaken' /\ HandedOnIsSound' /\ NoFailureLost'
  BY DEF Inv, Untaken, HandedOnIsSound, Handed, NoFailureLost, Holds
<1> QED
  BY <1>1, <1>2

\* A step of receiveStream that feeds nothing.
LEMMA NothingFed ==
    ASSUME Inv, OthersThanReceiver, UNCHANGED <<maxFileBuffer, copVol, fed, slots>>,
           cop' \in {"recv", "copy"} \cup Ended, zfs' \in {"running"} \cup Ended,
           receiver' \in {"running"} \cup Ended, aborted' \subseteq Vol, canceled' \in BOOLEAN,
           \/ cop' = cop
           \/ cop = "copy" /\ cop' = "failed"
           \/ cop = "recv" /\ cop' \in Ended,
           receiver' = "ok" => cop' = "ok"
    PROVE  Inv'
<1> USE SameBuffer DEF OthersThanReceiver, download
<1>1. TypeOK'
  BY DEF Inv, TypeOK
<1>2. FedUpTo'
  BY DEF Inv, FedUpTo, Ended
<1>3. Buffered' = Buffered
  BY DEF Buffered
<1> QED
  BY <1>1, <1>2, <1>3, NoneBuffered, ReceiverKeepsWorkers DEF Inv

\* The volume fed is the next one; its place is freed and it is buffered no more.
LEMMA CopyVolumeInv ==
    ASSUME Inv, CopyVolume, OthersThanReceiver, UNCHANGED maxFileBuffer
    PROVE  Inv'
<1> TypeOK /\ Volumes \in Nat \ {0} /\ fileBufferSize \in Nat \ {0}
  BY BufferType DEF Inv
<1> USE SameBuffer DEF OthersThanReceiver, download
<1>0. /\ cop = "copy" /\ copVol = ordVol - 1 /\ Len(fed) = ordVol - 2 /\ Len(fed) \in Nat
      /\ copVol \in Vol /\ copVol = Len(fed) + 1
  BY DEF Inv, TypeOK, FedUpTo, CopyVolume, Vol
<1>1. /\ Len(fed') = Len(fed) + 1 /\ fed' \in Seq(Vol)
      /\ \A n \in 1..Len(fed) : fed'[n] = fed[n]
      /\ fed'[Len(fed) + 1] = copVol
      /\ DOMAIN fed' = 1..Len(fed')
  BY <1>0 DEF TypeOK, CopyVolume
<1>2. FedUpTo'
  <2>1. fed' = [n \in 1..Len(fed') |-> n]
    <3>1. \A n \in 1..Len(fed) : fed[n] = n
      BY DEF Inv, FedUpTo
    <3>2. \A n \in 1..Len(fed') : fed'[n] = n
      BY <1>0, <1>1, <3>1
    <3>3. fed' = [n \in 1..Len(fed') |-> fed'[n]]
      BY <1>1
    <3> QED
      BY <3>2, <3>3
  <2> QED
    BY <1>0, <1>1, <2>1 DEF Inv, FedUpTo, CopyVolume
<1>3. copVol \in written
  <2>1. ~usePipe => copVol \in written
    BY <1>0 DEF Inv, HandedOnIsSound, Handed, TypeOK, Vol
  <2> QED
    BY <2>1 DEF CopyVolume
<1>4. Buffered' = Buffered \ {copVol} /\ copVol \in Buffered
  <2>1. \A w \in Worker : worker[w].pc \in {"download", "write"} => worker[w].vol # copVol
    BY <1>3 DEF Inv, HeldOnce, HeldBy, Holds
  <2> QED
    BY <1>0, <1>1, <1>3, <2>1 DEF Buffered, TypeOK, Vol
<1>5. /\ Cardinality(Buffered') = Cardinality(Buffered) - 1
      /\ Cardinality(Buffered) \in Nat /\ Cardinality(Buffered') \in Nat
  BY <1>4, BufferedFinite, FS_RemoveElement, FS_CardinalityType DEF Inv
<1>6. SlotEach'
  BY <1>5 DEF Inv, SlotEach, CopyVolume, TypeOK
<1>7. TypeOK'
  <2>1. slots' \in 0..fileBufferSize
    BY <1>5 DEF Inv, SlotEach, CopyVolume, TypeOK
  <2> QED
    BY <1>1, <2>1 DEF TypeOK, CopyVolume
<1> QED
  BY <1>2, <1>6, <1>7, ReceiverKeepsWorkers DEF Inv

LEMMA CopyFailsInv ==
    ASSUME Inv, CopyFails, OthersThanReceiver, UNCHANGED maxFileBuffer
    PROVE  Inv'
<1>1. copVol \in Vol
  BY BufferType DEF Inv, TypeOK, FedUpTo, CopyFails, Vol
<1> QED
  BY <1>1, NothingFed DEF CopyFails, Inv, TypeOK, FedUpTo, Ended

LEMMA CopierEndsInv ==
    ASSUME Inv, CopierEnds, OthersThanReceiver, UNCHANGED maxFileBuffer
    PROVE  Inv'
BY NothingFed DEF CopierEnds, Inv, TypeOK, FedUpTo, Ended

LEMMA ZfsReceiveInv ==
    ASSUME Inv, ZfsReceiveEnds \/ ZfsReceiveExits, OthersThanReceiver, UNCHANGED maxFileBuffer
    PROVE  Inv'
BY NothingFed DEF ZfsReceiveEnds, ZfsReceiveExits, Inv, TypeOK, FedUpTo, Ended

LEMMA ReceiveStreamReturnsInv ==
    ASSUME Inv, ReceiveStreamReturns, OthersThanReceiver, UNCHANGED maxFileBuffer
    PROVE  Inv'
BY NothingFed DEF ReceiveStreamReturns, Cancel, Inv, TypeOK, FedUpTo, Ended

\* wg.Wait, a signal and stuttering change no goroutine's state.
LEMMA CancelInv ==
    ASSUME Inv, UNCHANGED <<maxFileBuffer, download, slots, aborted, ord, ordVol, receive>>,
           canceled' \in BOOLEAN, returned' \in BOOLEAN
    PROVE  Inv'
<1> USE SameBuffer DEF download, receive
<1>1. TypeOK'
  BY DEF Inv, TypeOK
<1>2. FedUpTo'
  BY DEF Inv, FedUpTo
<1>3. HeldOnce'
  BY DEF Inv, HeldOnce, HeldBy, Holds, Handed
<1>4. Untaken' /\ HandedOnIsSound' /\ NoFailureLost'
  BY DEF Inv, Untaken, HandedOnIsSound, Handed, NoFailureLost, Holds
<1>5. Buffered' = Buffered
  BY DEF Buffered
<1> QED
  BY <1>1, <1>2, <1>3, <1>4, <1>5, NoneBuffered DEF Inv

-----------------------------------------------------------------------------
(* The theorems.                                                           *)

LEMMA WorkerStepInv ==
    ASSUME Inv, NEW w \in Worker, WorkerStep(w) \/ WorkerFault(w), UNCHANGED maxFileBuffer
    PROVE  Inv'
BY TakeSequenceInv, WorkerEndsInv, TakeSlotInv, SlotCanceledInv, DownloadFileInv,
   DownloadRefusedInv, OpenPipeInv, WritePipeInv, PipeAbortedInv, AbortPipeInv,
   DownloadFailsInv DEF WorkerStep, WorkerFault

LEMMA OrdererInv ==
    ASSUME Inv, Orderer, UNCHANGED maxFileBuffer
    PROVE  Inv'
BY OrderNextInv, OrderStoppedInv, EmitInv, OrderCanceledInv DEF Orderer

LEMMA ReceiverInv ==
    ASSUME Inv, Copier \/ ZfsReceive \/ Receiver \/ ReceiveFault, UNCHANGED maxFileBuffer
    PROVE  Inv'
BY CopyVolumeInv, CopyFailsInv, CopierEndsInv, ZfsReceiveInv, ReceiveStreamReturnsInv
   DEF Copier, CopyStopped, ZfsReceive, Receiver, ReceiveFault

LEMMA NextInv ==
    ASSUME Inv, [Next]_vars
    PROVE  Inv'
<1>1. CASE Progress
  <2>1. CASE WaitReturns
    BY <1>1, <2>1, CancelInv DEF Progress, WaitReturns, Cancel
  <2> QED
    BY <1>1, <2>1, WorkerStepInv, OrdererInv, ReceiverInv DEF Progress
<1>2. CASE Fault
  <2>1. CASE Signal
    BY <1>2, <2>1, CancelInv DEF Fault, Signal, Cancel, Inv, TypeOK
  <2> QED
    BY <1>2, <2>1, WorkerStepInv, ReceiverInv DEF Fault
<1>3. CASE UNCHANGED vars
  BY <1>3, CancelInv DEF vars, Inv, TypeOK
<1> QED
  BY <1>1, <1>2, <1>3 DEF Next, Terminated

\* The goroutines of every receive keep Inv: every volume is held once, handed on in
\* order, accounted for when it fails, and has its place in bufferChannel.
THEOREM Invariance == Spec => []Inv
<1>1. Init => Inv
  BY InitInv
<1>2. Inv /\ [Next]_vars => Inv'
  BY NextInv
<1> QED
  BY <1>1, <1>2, PTL DEF Spec

\* Every reachable state of a receive has the declared types: in particular the
\* count of places taken never leaves 0..fileBufferSize, so no slot is released
\* that was not taken.
THEOREM TypeCorrect == Spec => []TypeOK
<1>1. Inv => TypeOK
  BY DEF Inv
<1> QED
  BY <1>1, Invariance, PTL

\* zfs receive reads the volumes in the manifest's order and without a gap, and from
\* files only volumes that are what the manifest records.
THEOREM FedInOrderAlways == Spec => []FedInOrder
<1>1. Inv => FedInOrder
  <2> SUFFICES ASSUME Inv PROVE FedInOrder
    OBVIOUS
  <2> TypeOK /\ Volumes \in Nat \ {0}
    BY BufferType DEF Inv
  <2>1. ASSUME ~usePipe, NEW n \in DOMAIN fed
        PROVE  stored[fed[n]] = "good"
    <3>1. n \in 1..Len(fed) /\ fed[n] = n /\ Len(fed) < ordVol
      BY DEF Inv, FedUpTo, TypeOK, Ended
    <3>2. n \in Vol /\ Handed(n)
      BY <3>1 DEF TypeOK, Handed, Vol
    <3> QED
      BY <2>1, <3>1, <3>2 DEF Inv, HandedOnIsSound
  <2> QED
    BY <2>1 DEF FedInOrder, Inv, FedUpTo
<1> QED
  BY <1>1, Invariance, PTL

\* A receive that reports success gave zfs receive every volume of the manifest, each
\* of them as recorded.
THEOREM SuccessIsRestored == Spec => []SuccessMeansRestored
<1>1. Inv => SuccessMeansRestored
  <2> SUFFICES ASSUME Inv, AllEnded, Success
               PROVE  Len(fed) = Volumes /\ \A v \in Vol : stored[v] = "good"
    BY DEF SuccessMeansRestored
  <2> TypeOK /\ Volumes \in Nat \ {0} /\ fileBufferSize \in Nat \ {0}
    BY BufferType DEF Inv
  <2>1. Len(fed) = Volumes
    <3>1. cop = "ok" /\ ordVol = Volumes + 1
      BY DEF Inv, FedUpTo, Success
    <3>2. Len(fed) = ordVol - 1
      BY <3>1 DEF Inv, FedUpTo
    <3> QED
      BY <3>1, <3>2
  <2>2. queue = Volumes + 1
    <3>1. 1 \in Worker
      BY DEF Worker
    <3> QED
      BY <3>1 DEF Inv, HeldOnce, HeldBy, Success
  <2>3. \A v \in Vol : stored[v] = "good"
    BY <2>2 DEF Inv, NoFailureLost, Holds, Success, Vol
  <2> QED
    BY <2>1, <2>3
<1> QED
  BY <1>1, Invariance, PTL

\* Never more than --maxFileBuffer volumes are downloaded, or being downloaded, and not
\* yet in zfs receive, however the workers, the orderer and the copier interleave.
THEOREM StorageIsBounded == Spec => []StorageBounded
<1>1. Inv => StorageBounded
  <2> SUFFICES ASSUME Inv PROVE StorageBounded
    OBVIOUS
  <2> TypeOK /\ Volumes \in Nat \ {0} /\ fileBufferSize \in Nat \ {0}
    BY BufferType DEF Inv
  <2> DEFINE D == {w \in Worker : worker[w].pc = "download"}
             T == {v \in Vol : \E w \in D : worker[w].vol = v}
             R == written \ 1..Len(fed)
             f == [w \in D |-> worker[w].vol]
  <2>1. \A w \in D : worker[w].vol \in T /\ worker[w].vol \notin written
    BY DEF Inv, HeldOnce, HeldBy, Holds, TypeOK, Vol
  <2>2. f \in Injection(D, T)
    <3>1. f \in [D -> T]
      BY <2>1
    <3>2. \A a, b \in D : f[a] = f[b] => a = b
      BY DEF Inv, HeldOnce, HeldBy, Holds
    <3> QED
      BY <3>1, <3>2 DEF Injection, IsInjective
  <2>3. /\ IsFiniteSet(Buffered) /\ R \subseteq Buffered /\ T \subseteq Buffered
        /\ R \cap T = {}
    BY <2>1, BufferedFinite DEF Inv, Buffered
  <2>4. /\ IsFiniteSet(R) /\ IsFiniteSet(T) /\ IsFiniteSet(D)
        /\ Cardinality(D) <= Cardinality(T)
        /\ Cardinality(R) \in Nat /\ Cardinality(T) \in Nat /\ Cardinality(D) \in Nat
        /\ Cardinality(Buffered) \in Nat
    BY <2>2, <2>3, FS_Subset, FS_Injection, FS_CardinalityType
  <2>5. Cardinality(R \cup T) = Cardinality(R) + Cardinality(T) /\ R \cup T \subseteq Buffered
    <3> HIDE DEF R, T
    <3>1. Cardinality(R \cap T) = 0
      BY <2>3, FS_EmptySet
    <3>2. Cardinality(R \cup T) = Cardinality(R) + Cardinality(T) - Cardinality(R \cap T)
      BY <2>4, FS_Union
    <3> QED
      BY <2>3, <2>4, <3>1, <3>2
  <2>6. Cardinality(R \cup T) <= Cardinality(Buffered)
    BY <2>3, <2>5, FS_Subset
  <2>7. {fed[n] : n \in DOMAIN fed} = 1..Len(fed)
    BY DEF Inv, FedUpTo, TypeOK
  <2>8. Cardinality(R) + Cardinality(D) <= fileBufferSize
    BY <2>4, <2>5, <2>6 DEF Inv, SlotEach, TypeOK
  <2> QED
    BY <2>7, <2>8 DEF StorageBounded
<1> QED
  BY <1>1, Invariance, PTL
=============================================================================
