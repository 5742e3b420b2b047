-------------------------- MODULE ReceivePipeline ---------------------------
(***************************************************************************)
(* The goroutines of one `zfsbackup receive`: download workers take the    *)
(* volumes of a manifest in order, but finish in any order; the orderer    *)
(* hands them on in order; receiveStream copies each into zfs receive and  *)
(* frees its place in the buffer.                                          *)
(*                                                                         *)
(*   downloadChannel -> workers -c[v]-> orderer -> copier -> zfs receive   *)
(*                  bufferChannel slots <-----------'                      *)
(*                                                                         *)
(* With maxFileBuffer = 0 a volume is a pipe from its download to the      *)
(* copier, and is checked only after zfs receive has its bytes.            *)
(***************************************************************************)
EXTENDS Naturals, Sequences, FiniteSets

CONSTANTS
    FileBuffers,     \* the --maxFileBuffer of the runs the model looks at
    Volumes          \* number of volumes in the manifest

ASSUME ReceiveAssumption == FileBuffers \subseteq Nat /\ Volumes \in Nat \ {0}

VARIABLES
    maxFileBuffer,   \* --maxFileBuffer, fixed for the run; 0: volumes are pipes, not files
    stored,    \* stored[v]: the object is "good", "bad" (not as recorded) or "missing"
    queue,     \* the next volume in downloadChannel
    worker,    \* worker[w]: where it is, and its volume
    slots,     \* places taken in bufferChannel
    chan,      \* chan[v]: the volume is in its channel; the channel is closed
    written,   \* volumes whose bytes are all written, and closed
    aborted,   \* pipe volumes whose two ends were failed by Abort
    ord,       \* where the orderer is
    ordVol,    \* the volume it waits for or holds
    cop,       \* where receiveStream's copier is
    copVol,    \* the volume it copies
    fed,       \* the volumes zfs receive has read, in order
    zfs,       \* what cmd.Wait of zfs receive reported
    receiver,  \* receiveStream
    canceled,  \* the errgroup's context
    returned   \* wg.Wait returned

usePipe == maxFileBuffer = 0
fileBufferSize == IF usePipe THEN 1 ELSE maxFileBuffer
Worker == 1..fileBufferSize
Vol == 1..Volumes

download == <<stored, queue, worker, chan, written>>
receive == <<cop, copVol, fed, zfs, receiver>>
vars == <<maxFileBuffer, download, slots, aborted, ord, ordVol, receive, canceled, returned>>

Ended == {"ok", "failed"}

TypeOK ==
    /\ maxFileBuffer \in FileBuffers
    /\ stored \in [Vol -> {"good", "bad", "missing"}]
    /\ queue \in 1..(Volumes + 1)
    /\ worker \in [Worker -> [pc : {"take", "slot", "download", "write"} \cup Ended,
                              vol : 0..Volumes]]
    /\ slots \in 0..fileBufferSize
    /\ chan \in [Vol -> [full : BOOLEAN, closed : BOOLEAN]]
    /\ written \subseteq Vol /\ aborted \subseteq Vol
    /\ ord \in {"wait", "emit", "stopped"} \cup Ended /\ ordVol \in 1..(Volumes + 1)
    /\ cop \in {"recv", "copy"} \cup Ended /\ copVol \in 0..Volumes
    /\ fed \in Seq(Vol)
    /\ zfs \in {"running"} \cup Ended /\ receiver \in {"running"} \cup Ended
    /\ canceled \in BOOLEAN /\ returned \in BOOLEAN

Init ==
    /\ maxFileBuffer \in FileBuffers
    /\ stored \in [Vol -> {"good", "bad", "missing"}]
    /\ queue = 1
    /\ worker = [w \in Worker |-> [pc |-> "take", vol |-> 0]]
    /\ slots = 0
    /\ chan = [v \in Vol |-> [full |-> FALSE, closed |-> FALSE]]
    /\ written = {} /\ aborted = {}
    /\ ord = "wait" /\ ordVol = 1
    /\ cop = "recv" /\ copVol = 0 /\ fed = <<>>
    /\ zfs = "running" /\ receiver = "running"
    /\ canceled = FALSE /\ returned = FALSE

\* A member of the errgroup returns an error.
Cancel == canceled' = TRUE

-----------------------------------------------------------------------------
(* The download workers.                                                   *)

\* <-downloadChannel
TakeSequence(w) ==
    /\ worker[w].pc = "take" /\ queue <= Volumes
    /\ worker' = [worker EXCEPT ![w] = [pc |-> "slot", vol |-> queue]]
    /\ queue' = queue + 1
    /\ UNCHANGED <<stored, slots, chan, written, canceled>>

WorkerEnds(w) ==
    /\ worker[w].pc = "take"
    /\ \/ queue > Volumes /\ worker' = [worker EXCEPT ![w].pc = "ok"] /\ UNCHANGED canceled
       \/ canceled /\ worker' = [worker EXCEPT ![w].pc = "failed"] /\ Cancel
    /\ UNCHANGED <<stored, queue, slots, chan, written>>

\* bufferChannel <- nil: a place for the volume, taken after the volume is.
MutantSlotNotTaken(w) ==
    /\ worker[w].pc = "slot"
    /\ worker' = [worker EXCEPT ![w].pc = "download"]
    /\ UNCHANGED <<stored, queue, slots, chan, written, canceled>>
TakeSlot(w) ==
    /\ worker[w].pc = "slot" /\ slots < fileBufferSize
    /\ slots' = slots + 1
    /\ worker' = [worker EXCEPT ![w].pc = "download"]
    /\ UNCHANGED <<stored, queue, chan, written, canceled>>

\* The worker's volume fails for good: its channel is closed, the worker
\* returns the error.
VolumeFails(w) ==
    /\ chan' = [chan EXCEPT ![worker[w].vol].closed = TRUE]
    /\ worker' = [worker EXCEPT ![w].pc = "failed"]
    /\ Cancel
    /\ UNCHANGED <<stored, queue, slots>>

SlotCanceled(w) ==
    /\ worker[w].pc = "slot" /\ canceled
    /\ VolumeFails(w)
    /\ UNCHANGED written

\* A file: downloaded, closed and compared with the manifest's size and SHA-256
\* before the orderer gets it.
DownloadFile(w) ==
    LET v == worker[w].vol
    IN  /\ ~usePipe /\ worker[w].pc = "download"
        /\ stored[v] = "good"
        /\ written' = written \cup {v}
        /\ chan' = [chan EXCEPT ![v] = [full |-> TRUE, closed |-> TRUE]]
        /\ worker' = [worker EXCEPT ![w].pc = "take"]
        /\ UNCHANGED <<stored, queue, slots, canceled>>

\* Not there, not what the manifest records: retrying would not change it.
DownloadRefused(w) ==
    /\ worker[w].pc = "download"
    /\ stored[worker[w].vol] = "missing" \/ (~usePipe /\ stored[worker[w].vol] = "bad")
    /\ VolumeFails(w)
    /\ UNCHANGED written

\* A pipe: handed to the orderer before its bytes are written.
OpenPipe(w) ==
    /\ usePipe /\ worker[w].pc = "download"
    /\ stored[worker[w].vol] # "missing"
    /\ chan' = [chan EXCEPT ![worker[w].vol].full = TRUE]
    /\ worker' = [worker EXCEPT ![w].pc = "write"]
    /\ UNCHANGED <<stored, queue, slots, written, canceled>>

\* The copier reads what is written; then it is compared with the manifest.
WritePipe(w) ==
    LET v == worker[w].vol
    IN  /\ worker[w].pc = "write"
        /\ v \notin aborted /\ cop = "copy" /\ copVol = v
        /\ written' = written \cup {v}
        /\ IF stored[v] = "good"
             THEN /\ chan' = [chan EXCEPT ![v].closed = TRUE]
                  /\ worker' = [worker EXCEPT ![w].pc = "take"]
                  /\ UNCHANGED <<stored, queue, slots, canceled>>
             ELSE VolumeFails(w)

\* Its write fails: the pipe was aborted.
PipeAborted(w) ==
    /\ worker[w].pc = "write" /\ worker[w].vol \in aborted
    /\ VolumeFails(w)
    /\ UNCHANGED written

\* Retries exhausted, or the local file cannot be written.  What a pipe's reader
\* has got ends there.
DownloadFails(w) ==
    /\ worker[w].pc \in {"download", "write"}
    /\ VolumeFails(w)
    /\ written' = IF worker[w].pc = "write" THEN written \cup {worker[w].vol} ELSE written

\* context.AfterFunc, while the volume is being written.
MutantNoAfterFunc(w) == FALSE
AbortPipe(w) ==
    /\ worker[w].pc = "write" /\ canceled
    /\ worker[w].vol \notin aborted
    /\ aborted' = aborted \cup {worker[w].vol}
    /\ UNCHANGED <<download, slots, canceled>>

OthersThanWorkers == UNCHANGED <<ord, ordVol, receive, returned>>
WorkerStep(w) ==
    /\ \/ /\ \/ TakeSequence(w) \/ WorkerEnds(w) \/ TakeSlot(w) \/ SlotCanceled(w)
             \/ DownloadFile(w) \/ DownloadRefused(w) \/ OpenPipe(w) \/ WritePipe(w)
             \/ PipeAborted(w)
          /\ UNCHANGED aborted
       \/ AbortPipe(w)
    /\ OthersThanWorkers
WorkerFault(w) == DownloadFails(w) /\ UNCHANGED aborted /\ OthersThanWorkers

-----------------------------------------------------------------------------
(* The orderer.                                                            *)

OrderNext ==
    /\ ord = "wait" /\ chan[ordVol].full
    /\ chan' = [chan EXCEPT ![ordVol].full = FALSE]
    /\ ord' = "emit"
    /\ UNCHANGED <<ordVol, cop, copVol, canceled>>

\* The volume's download failed; its error will cancel the context.
MutantSkipFailed ==
    /\ ord = "wait" /\ ~chan[ordVol].full /\ chan[ordVol].closed
    /\ ordVol' = ordVol + 1
    /\ ord' = IF ordVol = Volumes THEN "ok" ELSE "wait"
    /\ UNCHANGED <<chan, cop, copVol, canceled>>
OrderStopped ==
    /\ ord = "wait" /\ ~chan[ordVol].full /\ chan[ordVol].closed
    /\ ord' = "stopped"
    /\ UNCHANGED <<chan, ordVol, cop, copVol, canceled>>

\* orderedVolumes <- vol (the channel has no buffer), closed behind the last.
Emit ==
    /\ ord = "emit" /\ cop = "recv"
    /\ cop' = "copy" /\ copVol' = ordVol
    /\ ordVol' = ordVol + 1
    /\ ord' = IF ordVol = Volumes THEN "ok" ELSE "wait"
    /\ UNCHANGED <<chan, canceled>>

OrderCanceled ==
    /\ ord \in {"wait", "emit", "stopped"} /\ canceled
    /\ ord' = "failed" /\ Cancel
    /\ UNCHANGED <<chan, ordVol, cop, copVol>>

Orderer ==
    /\ OrderNext \/ OrderStopped \/ Emit \/ OrderCanceled
    /\ UNCHANGED <<stored, queue, worker, slots, written, aborted, fed, zfs, receiver,
                   returned>>

-----------------------------------------------------------------------------
(* receiveStream: the copier, zfs receive and their errgroup.              *)

receiveCanceled == canceled \/ cop = "failed" \/ zfs = "failed"

\* The volume is extracted into zfs receive, deleted, and its place freed.
CopyVolume ==
    /\ cop = "copy" /\ zfs = "running"
    /\ usePipe => copVol \in written
    /\ fed' = Append(fed, copVol)
    /\ slots' = slots - 1
    /\ cop' = "recv"
    /\ UNCHANGED <<copVol, zfs, receiver, aborted, canceled>>

\* The volume cannot be extracted, or zfs receive no longer reads.
MutantErrorDropped ==
    /\ cop = "copy"
    /\ cop' = "ok"
    /\ aborted' = IF usePipe THEN aborted \cup {copVol} ELSE aborted
    /\ UNCHANGED <<copVol, fed, zfs, receiver, slots, canceled>>
CopyFails ==
    /\ cop = "copy"
    /\ cop' = "failed"
    /\ aborted' = IF usePipe THEN aborted \cup {copVol} ELSE aborted
    /\ UNCHANGED <<copVol, fed, zfs, receiver, slots, canceled>>

\* What forces it: zfs receive exited, or the pipe was aborted.
CopyStopped == (zfs \in Ended \/ copVol \in aborted) /\ CopyFails

\* orderedVolumes is closed, or the context canceled; zfs receive then sees the
\* end of its input.
CopierEnds ==
    /\ cop = "recv"
    /\ \/ ord \in Ended /\ cop' = "ok"
       \/ receiveCanceled /\ cop' = "failed"
    /\ UNCHANGED <<copVol, fed, zfs, receiver, slots, aborted, canceled>>

\* zfs receive exits at the end of its input, or is killed.
ZfsReceiveEnds ==
    /\ zfs = "running"
    /\ \/ cop \in Ended /\ zfs' \in Ended
       \/ receiveCanceled /\ zfs' = "failed"
    /\ UNCHANGED <<cop, copVol, fed, receiver, slots, aborted, canceled>>

\* It exits before, with or without an error.
ZfsReceiveExits ==
    /\ zfs = "running"
    /\ zfs' \in Ended
    /\ UNCHANGED <<cop, copVol, fed, receiver, slots, aborted, canceled>>

ReceiveStreamReturns ==
    /\ receiver = "running" /\ cop \in Ended /\ zfs \in Ended
    /\ \/ cop = "ok" /\ zfs = "ok" /\ receiver' = "ok" /\ UNCHANGED canceled
       \/ ~(cop = "ok" /\ zfs = "ok") /\ receiver' = "failed" /\ Cancel
    /\ UNCHANGED <<cop, copVol, fed, zfs, slots, aborted>>

OthersThanReceiver == UNCHANGED <<download, ord, ordVol, returned>>
Copier == (CopyVolume \/ CopyStopped \/ CopierEnds) /\ OthersThanReceiver
ZfsReceive == ZfsReceiveEnds /\ OthersThanReceiver
Receiver == ReceiveStreamReturns /\ OthersThanReceiver
ReceiveFault == (CopyFails \/ ZfsReceiveExits) /\ OthersThanReceiver

-----------------------------------------------------------------------------
AllEnded ==
    /\ \A w \in Worker : worker[w].pc \in Ended
    /\ ord \in Ended /\ receiver \in Ended
Success ==
    /\ \A w \in Worker : worker[w].pc = "ok"
    /\ ord = "ok" /\ receiver = "ok"

WaitReturns ==
    /\ AllEnded /\ ~returned
    /\ returned' = TRUE
    /\ Cancel
    /\ UNCHANGED <<download, slots, aborted, ord, ordVol, receive>>

\* SIGINT or SIGTERM cancels the context the run was given.
Signal ==
    /\ ~canceled
    /\ Cancel
    /\ UNCHANGED <<download, slots, aborted, ord, ordVol, receive, returned>>

Terminated == returned /\ UNCHANGED vars

\* What the goroutines, the downloads and zfs receive do when nothing fails.
Progress ==
    /\ UNCHANGED maxFileBuffer
    /\ \/ \E w \in Worker : WorkerStep(w)
       \/ Orderer
       \/ Copier
       \/ ZfsReceive
       \/ Receiver
       \/ WaitReturns

\* What may fail or happen to them.
Fault ==
    /\ UNCHANGED maxFileBuffer
    /\ (\E w \in Worker : WorkerFault(w)) \/ ReceiveFault \/ Signal

Next == Progress \/ Fault \/ Terminated

Spec == Init /\ [][Next]_vars

\* While some goroutine can take a step, or a download or a zfs receive that nothing
\* keeps waiting can end, one does.  No step is ever undone, so a run that stops under
\* this has no step left in any goroutine.
Fairness == WF_vars(Progress)

FairSpec == Spec /\ Fairness

-----------------------------------------------------------------------------
(* Properties.                                                             *)

\* zfs receive gets the volumes in the manifest's order without a gap, however
\* the downloads finish and whatever fails; and from files only volumes that
\* are what the manifest records.
FedInOrder ==
    /\ fed = [n \in 1..Len(fed) |-> n]
    /\ ~usePipe => \A n \in DOMAIN fed : stored[fed[n]] = "good"

\* A receive that reports success gave zfs receive the whole set, every volume
\* as recorded: no goroutine's error is lost, no truncated stream passes.
SuccessMeansRestored ==
    AllEnded /\ Success =>
        Len(fed) = Volumes /\ \A v \in Vol : stored[v] = "good"

\* At most --maxFileBuffer volumes are downloaded, or being downloaded, and not
\* yet in zfs receive.
StorageBounded ==
    Cardinality(written \ {fed[n] : n \in DOMAIN fed})
      + Cardinality({w \in Worker : worker[w].pc = "download"}) <= fileBufferSize

\* With one download worker, which pipes imply, receive returns whatever fails and
\* whenever a signal comes: no goroutine is left waiting for a volume, a reader or a
\* place in the buffer.
ReceiveEnds == fileBufferSize = 1 => <>returned

\* A receive of a good set, into a zfs receive that reads all of it, returns: the
\* orderer gets every volume, whose worker "closes its sequence's channel once
\* it is done with it" (downloadSequenceVolume).
GoodReceiveEnds ==
    /\ \A v \in Vol : stored[v] = "good"
    /\ [](cop \in Ended \/ zfs = "running")
    => <>returned

-----------------------------------------------------------------------------
(* The inductive invariant behind the safety properties.                   *)

\* The worker has a volume to download.
Holds(w) == worker[w].pc \in {"slot", "download", "write"}

\* The orderer has been given the volume.
Handed(v) == chan[v].full \/ v < ordVol \/ (ord = "emit" /\ v = ordVol)

\* What a worker holds was taken from the queue, is held by no other, is not yet
\* written, its channel is not closed (closing it twice would panic) and, before
\* the pipe is open, the orderer does not have it.
HeldBy(w) ==
    /\ worker[w].pc = "write" => usePipe
    /\ worker[w].pc = "ok" => queue = Volumes + 1
    /\ worker[w].pc \in {"slot", "download"} => ~Handed(worker[w].vol)
    /\ Holds(w) =>
         /\ worker[w].vol \in 1..(queue - 1)
         /\ worker[w].vol \notin written /\ ~chan[worker[w].vol].closed
         /\ \A u \in Worker \ {w} : Holds(u) => worker[u].vol # worker[w].vol
HeldOnce == \A w \in Worker : HeldBy(w)

\* Nothing has happened to the volumes still in the queue.
Untaken == \A v \in queue..Volumes : v \notin written /\ ~chan[v].closed

\* The orderer only gets what a worker took; as a file, only when it is written
\* and what the manifest records.
HandedOnIsSound ==
    /\ \A v \in Vol : Handed(v) => v < queue /\ (~usePipe => v \in written)
    /\ ~usePipe => \A v \in written : stored[v] = "good"

\* A volume that was taken is good, or still held, or its failure is a worker's.
NoFailureLost ==
    \A v \in 1..(queue - 1) :
        \/ stored[v] = "good"
        \/ \E w \in Worker : Holds(w) /\ worker[w].vol = v
        \/ \E w \in Worker : worker[w].pc = "failed"

\* zfs receive has read what the orderer gave, but for the volume being copied
\* or the one whose copy failed.
FedUpTo ==
    /\ fed = [n \in 1..Len(fed) |-> n]
    /\ cop \in {"recv", "ok"} => Len(fed) = ordVol - 1
    /\ cop = "copy" => copVol = ordVol - 1 /\ Len(fed) = ordVol - 2
    /\ cop = "failed" => Len(fed) \in {ordVol - 1, ordVol - 2}
    /\ ord = "ok" <=> ordVol = Volumes + 1
    /\ receiver = "ok" => cop = "ok"

\* The volumes that are downloaded, or being downloaded, and not yet in zfs receive.
Buffered ==
    (written \ 1..Len(fed))
      \cup {v \in Vol : \E w \in Worker :
                         worker[w].pc \in {"download", "write"} /\ worker[w].vol = v}

\* Each of them has its place in bufferChannel.  A volume that failed keeps a place
\* nobody will free, hence no equality.
SlotEach == Cardinality(Buffered) <= slots

\* The whole of it: holds initially and is kept by every step of every goroutine.
Inv ==
    /\ TypeOK
    /\ HeldOnce /\ Untaken /\ HandedOnIsSound /\ NoFailureLost
    /\ FedUpTo /\ SlotEach
=============================================================================
