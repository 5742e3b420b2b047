---------------------------- MODULE SendPipeline ----------------------------
(***************************************************************************)
(* The goroutines of one `zfsbackup send` run, from the zfs send process   *)
(* to the final manifest at the last destination, and how they stop each   *)
(* other when one of them fails or a signal arrives:                       *)
(*                                                                         *)
(*   zfs send -> splitter -startCh-> forwarder -stepCh-> link 1 -> ...     *)
(*       -> link n -> collector -fileBuffer tokens-> splitter              *)
(*                                                                         *)
(* with the finalizer writing the manifest to stepCh behind the volumes.   *)
(* Links 1..destinations upload; with files on disk one more link deletes  *)
(* them.  Volumes are their numbers; the final manifest is number 0.       *)
(*                                                                         *)
(* Go's select takes any ready case, so after a cancellation every case    *)
(* that is ready stays possible unless the code checks the context again.  *)
(***************************************************************************)
EXTENDS Integers, Sequences, FiniteSets

CONSTANTS
    Jobs    \* runs of send the model looks at: destinations, parallelUploads (workers per
            \* link), maxFileBuffer (0: volumes are pipes, not files), mayNotStart (whether
            \* cmd.Start may fail), maxVolumes (bound: volumes in a stream)

ASSUME PipelineAssumption ==
    \A j \in Jobs :
        /\ {j.destinations, j.parallelUploads, j.maxVolumes} \subseteq Nat \ {0}
        /\ j.maxFileBuffer \in Nat /\ j.mayNotStart \in BOOLEAN
        /\ j.maxFileBuffer = 0 => j.destinations = 1   \* send refuses the rest

VARIABLES
    jobInfo,   \* the run's options, fixed when it starts
    total,     \* volumes the stream makes, when zfs send succeeds
    zfs,       \* zfs send: before cmd.Start, running, or what cmd.Wait reported
    split,     \* where the splitter is
    made,      \* volumes created; the last is the splitter's current one
    closed,    \* volumes filled and closed
    aborted,   \* pipe volumes whose two ends were failed by Abort
    sender,    \* sendStream: "running", "ok" (startCh closed) or "failed"
    startCh,   \* splitter to forwarder
    fwd,       \* where the forwarder is
    fwdVol,    \* the volume it holds
    pending,   \* pendingVolumes.n
    zero,      \* pendingVolumes.zero is closed
    stepCh,    \* forwarder and finalizer to link 1
    worker,    \* worker[l][w]: where it is, and the volume it holds
    link,      \* "open", "closed" (its out channel), then "ok" or "failed"
    coll,      \* where the collector is
    collVol,   \* the volume it holds
    tokens,    \* fileBuffer
    fin,       \* where the finalizer is; "ok": stepCh closed
    recorded,  \* jobInfo.Volumes
    finalized, \* the final manifest is in the local cache
    at,        \* at[d]: what is complete at destination d
    canceled,  \* the pipeline's context
    returned   \* group.Wait returned

UsingPipe == jobInfo.maxFileBuffer = 0
BufferSize == IF UsingPipe THEN 1 ELSE jobInfo.maxFileBuffer
Uploads == 1..jobInfo.destinations
LastLink == IF UsingPipe THEN jobInfo.destinations ELSE jobInfo.destinations + 1
Link == 1..LastLink
Worker == 1..jobInfo.parallelUploads
FinalManifest == 0
Item == 0..jobInfo.maxVolumes

stream == <<total, zfs, split, made, closed, aborted, sender>>
forward == <<fwd, fwdVol>>
collect == <<coll, collVol, recorded>>
vars == <<jobInfo, stream, startCh, forward, pending, zero, stepCh, worker, link, collect,
          tokens, fin, finalized, at, canceled, returned>>

Ended == {"ok", "failed"}
Idle == [pc |-> "recv", vol |-> FinalManifest]

TypeOK ==
    /\ jobInfo \in Jobs
    /\ total \in 1..jobInfo.maxVolumes
    /\ zfs \in {"starting", "unstarted", "running"} \cup Ended
    /\ split \in {"next", "token", "fill", "hand"} \cup Ended
    /\ made \in 0..total /\ closed \in 0..made
    /\ aborted \subseteq 1..made
    /\ sender \in {"running"} \cup Ended
    /\ startCh \in Seq(Item) /\ Len(startCh) <= BufferSize
    /\ stepCh \in Seq(Item) /\ Len(stepCh) <= BufferSize
    /\ fwd \in {"recv", "hand", "done"} /\ fwdVol \in Item
    /\ pending \in Int /\ zero \in BOOLEAN
    /\ worker \in [Link -> [Worker ->
           [pc : {"recv", "upload", "hand"} \cup Ended, vol : Item]]]
    /\ link \in [Link -> {"open", "closed"} \cup Ended]
    /\ coll \in {"recv", "save", "token"} \cup Ended /\ collVol \in Item
    /\ tokens \in 0..BufferSize
    /\ fin \in {"wait", "save", "hand"} \cup Ended
    /\ recorded \subseteq 1..total
    /\ finalized \in BOOLEAN /\ canceled \in BOOLEAN /\ returned \in BOOLEAN
    /\ at \in [Uploads -> SUBSET Item]

Init ==
    /\ jobInfo \in Jobs
    /\ total \in 1..jobInfo.maxVolumes
    /\ zfs = IF jobInfo.mayNotStart THEN "starting" ELSE "running"
    /\ split = "next" /\ made = 0 /\ closed = 0
    /\ aborted = {} /\ sender = "running"
    /\ startCh = <<>> /\ stepCh = <<>>
    /\ fwd = "recv" /\ fwdVol = FinalManifest
    /\ pending = 1 /\ zero = FALSE        \* the 1 is the forwarder's own
    /\ worker = [l \in Link |-> [w \in Worker |-> Idle]]
    /\ link = [l \in Link |-> "open"]
    /\ coll = "recv" /\ collVol = FinalManifest
    /\ tokens = BufferSize
    /\ fin = "wait"
    /\ recorded = {} /\ finalized = FALSE
    /\ at = [d \in Uploads |-> {}]
    /\ canceled = FALSE /\ returned = FALSE

\* A member of the errgroup returns an error: the context is canceled.
Cancel == canceled' = TRUE

\* pendingVolumes.done
PendingDone ==
    /\ pending' = pending - 1
    /\ zero' = (zero \/ pending = 1)

-----------------------------------------------------------------------------
(* sendStream: the zfs send process, the splitter and their errgroup.      *)

\* The context of sendStream's own group.
streamCanceled == canceled \/ zfs = "failed" \/ split = "failed"

\* A worker is reading the pipe of volume v.
BeingRead(v) ==
    \E l \in Uploads, w \in Worker : worker[l][w] = [pc |-> "upload", vol |-> v]

\* The splitter runs before zfs send is started, but there is nothing to read.
started == zfs \notin {"starting", "unstarted"}

ZfsStarts ==
    /\ zfs = "starting" /\ ~streamCanceled
    /\ zfs' = "running"
    /\ UNCHANGED <<total, split, made, closed, aborted, sender, canceled>>

\* cmd.Start fails, always so when the context is canceled.  sendStream returns:
\* it neither waits for the splitter nor aborts the volume it may have handed on.
StartFails ==
    /\ zfs = "starting"
    /\ zfs' = "unstarted"
    /\ sender' = "failed"
    /\ Cancel
    /\ UNCHANGED <<total, split, made, closed, aborted>>

\* The whole stream was read and zfs send exits with status 0.
ZfsSucceeds ==
    /\ zfs = "running" /\ made = total
    /\ zfs' = "ok"
    /\ UNCHANGED <<total, split, made, closed, aborted, sender>>

ZfsFails ==
    /\ zfs = "running"
    /\ zfs' = "failed"
    /\ UNCHANGED <<total, split, made, closed, aborted, sender>>

\* Killed with the context, or writing into the pipe the splitter closed.
ZfsStopped == streamCanceled /\ ZfsFails

\* Peek: the stream ended cleanly, ended with zfs send's error, or goes on.
MutantEndNotSeen ==
    /\ split = "next"
    /\ split' = "token"
    /\ UNCHANGED <<total, zfs, made, closed, aborted, sender, tokens, startCh>>
NextVolume ==
    /\ split = "next"
    /\ \/ made = total /\ zfs = "ok" /\ split' = "ok"
       \/ zfs = "failed" /\ split' = "failed"
       \/ made < total /\ split' = "token"
    /\ UNCHANGED <<total, zfs, made, closed, aborted, sender, tokens, startCh>>

\* Wait for room, without watching the context: the collector's end closes
\* fileBuffer.  A pipe goes to the uploader at once, a file when it is full.
MutantNoTokenTaken ==
    /\ split = "token"
    /\ made' = made + 1
    /\ split' = IF UsingPipe THEN "hand" ELSE "fill"
    /\ UNCHANGED <<total, zfs, closed, aborted, sender, startCh, tokens>>
CreateVolume ==
    /\ split = "token"
    /\ tokens > 0 \/ coll \in Ended
    /\ tokens' = IF tokens > 0 THEN tokens - 1 ELSE tokens
    /\ made' = made + 1
    /\ split' = IF UsingPipe THEN "hand" ELSE "fill"
    /\ aborted' = IF UsingPipe /\ canceled THEN aborted \cup {made + 1} ELSE aborted
    /\ UNCHANGED <<total, zfs, closed, sender, startCh>>

\* c <- volume
HandVolume ==
    /\ split = "hand"
    /\ Len(startCh) < BufferSize
    /\ startCh' = Append(startCh, made)
    /\ split' = IF UsingPipe THEN "fill" ELSE "next"
    /\ UNCHANGED <<total, zfs, made, closed, aborted, sender, tokens>>

HandCanceled ==
    /\ split = "hand"
    /\ streamCanceled
    /\ split' = "failed"
    /\ UNCHANGED <<total, zfs, made, closed, aborted, sender, tokens, startCh>>

\* The volume's bytes are copied and it is closed; a pipe needs its reader.
FillVolume ==
    /\ split = "fill" /\ started
    /\ UsingPipe => made \notin aborted /\ BeingRead(made)
    /\ closed' = made
    /\ split' = IF UsingPipe THEN "next" ELSE "hand"
    /\ UNCHANGED <<total, zfs, made, aborted, sender, tokens, startCh>>

\* The volume cannot be created, read for or written.
SplitterFails ==
    /\ split \in {"next", "token", "fill"}
    /\ split = "token" => tokens > 0 \/ coll \in Ended
    /\ split = "fill" => started
    /\ split' = "failed"
    /\ UNCHANGED <<total, zfs, made, closed, aborted, sender, tokens, startCh>>

\* The cases in which it cannot go on otherwise.
FillStopped ==
    /\ split = "fill"
    /\ made \in aborted \/ (zfs = "failed" /\ (UsingPipe => BeingRead(made)))
    /\ SplitterFails

\* context.AfterFunc: with the context canceled, the current pipe is aborted.
AbortCurrent ==
    /\ UsingPipe /\ canceled /\ sender = "running"
    /\ made > 0 /\ made \notin aborted
    /\ aborted' = aborted \cup {made}
    /\ UNCHANGED <<total, zfs, split, made, closed, sender>>

\* Both goroutines of the stream ended.  startCh is closed only when the whole
\* stream is known to be good.
MutantPipeNotAborted ==
    /\ sender = "running"
    /\ split \in Ended /\ zfs \in Ended
    /\ sender' = IF split = "ok" /\ zfs = "ok" THEN "ok" ELSE "failed"
    /\ canceled' = (canceled \/ sender' = "failed")
    /\ UNCHANGED <<total, zfs, split, made, closed, aborted>>
SendStreamReturns ==
    /\ sender = "running"
    /\ split \in Ended /\ zfs \in Ended
    /\ \/ /\ split = "ok" /\ zfs = "ok"
          /\ sender' = "ok"
          /\ UNCHANGED <<aborted, canceled>>
       \/ /\ ~(split = "ok" /\ zfs = "ok")
          /\ sender' = "failed"
          /\ aborted' = IF UsingPipe THEN aborted \cup ({made} \ {0}) ELSE aborted
          /\ Cancel
    /\ UNCHANGED <<total, zfs, split, made, closed>>

OthersThanStream ==
    UNCHANGED <<forward, pending, zero, stepCh, worker, link, collect, fin,
                finalized, at, returned>>

Zfs ==
    /\ ZfsSucceeds \/ ZfsStopped
    /\ OthersThanStream /\ UNCHANGED <<canceled, tokens, startCh>>
Splitter ==
    /\ NextVolume \/ CreateVolume \/ HandVolume \/ HandCanceled \/ FillVolume
         \/ FillStopped
    /\ OthersThanStream /\ UNCHANGED canceled
Sender ==
    /\ \/ ZfsStarts
       \/ streamCanceled /\ StartFails
       \/ SendStreamReturns
       \/ AbortCurrent /\ UNCHANGED canceled
    /\ OthersThanStream /\ UNCHANGED <<tokens, startCh>>
StreamFault ==
    /\ \/ StartFails /\ UNCHANGED <<tokens, startCh>>
       \/ ZfsFails /\ UNCHANGED <<tokens, startCh, canceled>>
       \/ SplitterFails /\ UNCHANGED canceled
    /\ OthersThanStream

-----------------------------------------------------------------------------
(* The forwarder keeps stepCh open behind the last volume.                 *)

MutantNotCounted ==
    /\ fwd = "recv" /\ startCh # <<>>
    /\ fwdVol' = Head(startCh) /\ startCh' = Tail(startCh)
    /\ fwd' = "hand"
    /\ UNCHANGED <<pending, zero, stepCh>>
ForwarderTakes ==
    /\ fwd = "recv" /\ startCh # <<>>
    /\ fwdVol' = Head(startCh) /\ startCh' = Tail(startCh)
    /\ pending' = pending + 1
    /\ fwd' = "hand"
    /\ UNCHANGED <<zero, stepCh>>

ForwarderPasses ==
    /\ fwd = "hand" /\ Len(stepCh) < BufferSize
    /\ stepCh' = Append(stepCh, fwdVol)
    /\ fwd' = "recv"
    /\ UNCHANGED <<fwdVol, startCh, pending, zero>>

\* startCh is closed and drained, or the context canceled.
ForwarderEnds ==
    /\ \/ fwd = "recv" /\ startCh = <<>> /\ sender = "ok"
       \/ fwd # "done" /\ canceled
    /\ fwd' = "done"
    /\ PendingDone
    /\ UNCHANGED <<fwdVol, startCh, stepCh>>

Forwarder ==
    /\ ForwarderTakes \/ ForwarderPasses \/ ForwarderEnds
    /\ UNCHANGED <<stream, worker, link, collect, tokens, fin, finalized, at,
                   canceled, returned>>

-----------------------------------------------------------------------------
(* retryUploadChainer: the workers of a link, and the closer of its out    *)
(* channel.  A link returns its error only after all of them ended.        *)

\* The context of link l: with several workers, the first error cancels it.
linkCanceled(l) ==
    \/ canceled
    \/ jobInfo.parallelUploads > 1 /\ \E w \in Worker : worker[l][w].pc = "failed"

\* A worker that took v: a manifest is not uploaded once the pipeline failed.
Taken(l, v) ==
    [pc |-> IF v = FinalManifest /\ linkCanceled(l) THEN "failed" ELSE "upload",
     vol |-> v]

TakeFromStepCh(w) ==
    /\ worker[1][w].pc = "recv" /\ stepCh # <<>>
    /\ worker' = [worker EXCEPT ![1][w] = Taken(1, Head(stepCh))]
    /\ stepCh' = Tail(stepCh)
    /\ UNCHANGED <<link, at, aborted, canceled, collect>>

\* The upload, with its retries, succeeds.
UploadDone(l, w) ==
    LET v == worker[l][w].vol
    IN  /\ worker[l][w].pc = "upload"
        /\ v <= closed           \* a pipe ends when the splitter closes it
        /\ worker' = [worker EXCEPT ![l][w].pc = "hand"]
        /\ at' = IF l \in Uploads THEN [at EXCEPT ![l] = @ \cup {v}] ELSE at
        /\ UNCHANGED <<stepCh, link, aborted, canceled, collect>>

\* It fails for good; the splitter's writes into the pipe then fail too.
UploadFails(l, w) ==
    /\ worker[l][w].pc = "upload"
    /\ worker' = [worker EXCEPT ![l][w].pc = "failed"]
    /\ aborted' = IF UsingPipe THEN aborted \cup ({worker[l][w].vol} \ {FinalManifest})
                  ELSE aborted
    /\ UNCHANGED <<stepCh, link, at, canceled, collect>>

\* out <- vol, to a worker of the next link or to the collector.
PassOn(l, w) ==
    LET v == worker[l][w].vol
    IN  /\ worker[l][w].pc = "hand"
        /\ \/ /\ l < LastLink
              /\ \E u \in Worker :
                   /\ worker[l + 1][u].pc = "recv"
                   /\ worker' = [worker EXCEPT ![l][w] = Idle,
                                               ![l + 1][u] = Taken(l + 1, v)]
              /\ UNCHANGED collect
           \/ /\ l = LastLink
              /\ coll = "recv"
              /\ worker' = [worker EXCEPT ![l][w] = Idle]
              /\ coll' = IF v = FinalManifest THEN "ok" ELSE "save"
              /\ collVol' = v
              /\ UNCHANGED recorded
        /\ UNCHANGED <<stepCh, link, at, aborted, canceled>>

\* Waiting on in must also watch the context: after a failure it stays open.
WorkerCanceled(l, w) ==
    /\ worker[l][w].pc \in {"recv", "hand"}
    /\ linkCanceled(l)
    /\ worker' = [worker EXCEPT ![l][w].pc = "failed"]
    /\ UNCHANGED <<stepCh, link, at, aborted, canceled, collect>>

\* The link's in channel is closed and drained.
InClosed(l) ==
    IF l = 1 THEN stepCh = <<>> /\ fin = "ok" ELSE link[l - 1] # "open"

WorkerEnds(l, w) ==
    /\ worker[l][w].pc = "recv"
    /\ InClosed(l)
    /\ worker' = [worker EXCEPT ![l][w].pc = "ok"]
    /\ UNCHANGED <<stepCh, link, at, aborted, canceled, collect>>

CloseOut(l) ==
    /\ link[l] = "open"
    /\ \A w \in Worker : worker[l][w].pc \in Ended
    /\ link' = [link EXCEPT ![l] = "closed"]
    /\ UNCHANGED <<stepCh, worker, at, aborted, canceled, collect>>

MutantErrorLost(l) ==
    /\ link[l] = "closed"
    /\ link' = [link EXCEPT ![l] = "ok"]
    /\ UNCHANGED <<stepCh, worker, at, aborted, canceled, collect>>
LinkReturns(l) ==
    /\ link[l] = "closed"
    /\ IF \E w \in Worker : worker[l][w].pc = "failed"
         THEN link' = [link EXCEPT ![l] = "failed"] /\ Cancel
         ELSE link' = [link EXCEPT ![l] = "ok"] /\ UNCHANGED canceled
    /\ UNCHANGED <<stepCh, worker, at, aborted, collect>>

OthersThanLinks ==
    UNCHANGED <<total, zfs, split, made, closed, sender, startCh, forward, pending,
                zero, tokens, fin, finalized, returned>>

WorkerStep(l, w) ==
    /\ \/ l = 1 /\ TakeFromStepCh(w)
       \/ UploadDone(l, w)
       \/ worker[l][w].vol \in aborted /\ UploadFails(l, w)
       \/ PassOn(l, w)
       \/ WorkerCanceled(l, w)
       \/ WorkerEnds(l, w)
    /\ OthersThanLinks
LinkStep(l) == (CloseOut(l) \/ LinkReturns(l)) /\ OthersThanLinks
UploadFault(l, w) == UploadFails(l, w) /\ OthersThanLinks

-----------------------------------------------------------------------------
(* The collector and the finalizer.                                        *)

\* The volume is recorded and the partial manifest saved in the caches.
SaveVolume ==
    /\ coll = "save"
    /\ recorded' = recorded \cup {collVol}
    /\ PendingDone
    /\ coll' = "token"
    /\ UNCHANGED <<collVol, tokens, canceled>>

ReturnToken ==
    /\ coll = "token"
    /\ tokens < BufferSize
    /\ tokens' = tokens + 1
    /\ coll' = "recv"
    /\ UNCHANGED <<collVol, recorded, pending, zero, canceled>>

\* The last link closed its channel, or the context was canceled.
CollectorEnds ==
    /\ \/ coll = "recv" /\ link[LastLink] # "open" /\ coll' = "ok" /\ UNCHANGED canceled
       \/ coll \in {"recv", "token"} /\ canceled /\ coll' = "failed" /\ Cancel
    /\ UNCHANGED <<collVol, recorded, pending, zero, tokens>>

SaveFails ==
    /\ coll = "save"
    /\ recorded' = recorded \cup {collVol}
    /\ coll' = "failed"
    /\ Cancel
    /\ UNCHANGED <<collVol, tokens, pending, zero>>

Collector ==
    /\ SaveVolume \/ ReturnToken \/ CollectorEnds
    /\ UNCHANGED <<stream, startCh, forward, stepCh, worker, link, fin, finalized,
                   at, returned>>
CollectorFault ==
    /\ SaveFails
    /\ UNCHANGED <<stream, startCh, forward, stepCh, worker, link, fin, finalized,
                   at, returned>>

\* All volumes are uploaded and recorded; the context is checked once more,
\* since the forwarder also counts down when it stops on a canceled one.
MutantZeroIsEnough ==
    /\ fin = "wait" /\ zero
    /\ fin' = "save"
    /\ UNCHANGED <<stepCh, finalized, canceled>>
FinalizerWakes ==
    /\ fin = "wait" /\ zero
    /\ ~canceled
    /\ fin' = "save"
    /\ UNCHANGED <<stepCh, finalized, canceled>>

FinalizerCanceled ==
    /\ fin \in {"wait", "hand"} /\ canceled
    /\ fin' = "failed"
    /\ UNCHANGED <<stepCh, finalized, canceled>>

SaveFinalManifest ==
    /\ fin = "save"
    /\ finalized' = TRUE
    /\ fin' = "hand"
    /\ UNCHANGED <<stepCh, canceled>>

SaveFinalFails ==
    /\ fin = "save"
    /\ fin' = "failed"
    /\ Cancel
    /\ UNCHANGED <<stepCh, finalized>>

\* stepCh <- manifestVol, and stepCh is closed.
HandManifest ==
    /\ fin = "hand"
    /\ Len(stepCh) < BufferSize
    /\ stepCh' = Append(stepCh, FinalManifest)
    /\ fin' = "ok"
    /\ UNCHANGED <<finalized, canceled>>

OthersThanFinalizer ==
    UNCHANGED <<stream, startCh, forward, pending, zero, worker, link, collect,
                tokens, at, returned>>
Finalizer ==
    /\ FinalizerWakes \/ FinalizerCanceled \/ SaveFinalManifest \/ HandManifest
    /\ OthersThanFinalizer
FinalizerFault == SaveFinalFails /\ OthersThanFinalizer

-----------------------------------------------------------------------------
\* Every member of the errgroup returned; Wait then cancels its context.
AllEnded ==
    /\ sender \in Ended /\ coll \in Ended /\ fin \in Ended
    /\ \A l \in Link : link[l] \in Ended

\* What group.Wait returns is nil.
NoError ==
    /\ sender = "ok" /\ coll = "ok" /\ fin = "ok"
    /\ \A l \in Link : link[l] = "ok"

WaitReturns ==
    /\ AllEnded /\ ~returned
    /\ returned' = TRUE
    /\ Cancel
    /\ UNCHANGED <<stream, startCh, forward, pending, zero, stepCh, worker, link,
                   collect, tokens, fin, finalized, at>>

\* SIGINT or SIGTERM cancels the context the run was given.
Signal ==
    /\ ~canceled
    /\ Cancel
    /\ UNCHANGED <<stream, startCh, forward, pending, zero, stepCh, worker, link,
                   collect, tokens, fin, finalized, at, returned>>

\* Nothing is left running: the run is over.
Terminated == returned /\ fwd = "done" /\ UNCHANGED vars

\* What the goroutines and zfs send do when nothing fails.
Progress ==
    /\ UNCHANGED jobInfo
    /\ \/ Zfs
       \/ Splitter
       \/ Sender
       \/ Forwarder
       \/ \E l \in Link, w \in Worker : WorkerStep(l, w)
       \/ \E l \in Link : LinkStep(l)
       \/ Collector
       \/ Finalizer
       \/ WaitReturns

\* What may fail or happen to them.
Fault ==
    /\ UNCHANGED jobInfo
    /\ \/ StreamFault
       \/ \E l \in Link, w \in Worker : UploadFault(l, w)
       \/ CollectorFault
       \/ FinalizerFault
       \/ Signal

Next == Progress \/ Fault \/ Terminated

Spec == Init /\ [][Next]_vars

\* While some goroutine can take a step, or an upload or a zfs send that nothing
\* keeps waiting can end, one does.  No failure and no signal has to happen.  No step
\* is ever undone, so a run that stops under this has no step left in any goroutine.
Fairness == WF_vars(Progress)

FairSpec == Spec /\ Fairness

-----------------------------------------------------------------------------
(* Properties.                                                             *)

\* A final manifest, in the cache or at a destination, says the set is whole:
\* zfs send succeeded, and every volume of the stream is at every destination
\* and in the manifest.  "No final manifest is written after a failure."
FinalMeansWhole ==
    finalized \/ (\E d \in Uploads : FinalManifest \in at[d]) =>
        /\ zfs = "ok"
        /\ recorded = 1..total
        /\ \A d \in Uploads : 1..total \subseteq at[d]

\* A send that reports success left the manifest at every destination: no
\* goroutine's nil return, on a channel closed by another's failure, hides it.
SuccessMeansPublished ==
    AllEnded /\ NoError => finalized /\ \A d \in Uploads : FinalManifest \in at[d]

\* No goroutine sends on a channel another one has closed (a panic): startCh
\* and stepCh are closed only when their last writer is done.
NoSendOnClosedChannel ==
    /\ sender = "ok" => split = "ok"
    /\ fin = "ok" => fwd = "done"

\* While the collector runs, at most --maxFileBuffer volumes are between the
\* splitter and the manifest, and so on local storage.
FileBufferBounds ==
    coll \notin Ended => made - Cardinality(recorded) <= BufferSize

\* Whatever fails, and whenever a signal comes, every goroutine ends and send
\* returns: none is left waiting for a peer that has gone.
Terminates == <>[](returned /\ fwd = "done")

\* "Once the pipeline fails, abort the volume in flight so whichever side is
\* still waiting gets an error" (sendStream): after a failure no worker keeps
\* reading a pipe that nobody will write.
AbortFreesUploaders ==
    canceled ~> \A l \in Uploads, w \in Worker : worker[l][w].pc # "upload"

\* The whole pipeline implements Publication: its goroutines, channels, retries and
\* cancellations are invisible but for the volumes and manifests that become whole at
\* the destinations and the error send returns.
Abstract == INSTANCE Publication WITH
    stored <- [d \in Uploads |-> at[d] \ {FinalManifest}],
    published <- {d \in Uploads : FinalManifest \in at[d]},
    result <- IF ~returned THEN "none" ELSE IF NoError THEN "nil" ELSE "error"
ImplementsPublication == Abstract!Spec
-----------------------------------------------------------------------------
(* The inductive invariant behind the safety properties and the refinement. *)

\* Whether the splitter's current volume is in startCh, or further.
Handed == IF split = "hand" \/ (split = "fill" /\ ~UsingPipe) THEN made - 1 ELSE made

\* The worker has something to upload or to pass on.
HasItem(l, w) == worker[l][w].pc \in {"upload", "hand"}
InHand(v) == \E l \in Link, w \in Worker : HasItem(l, w) /\ worker[l][w].vol = v
InStepCh(v) == \E i \in 1..Len(stepCh) : stepCh[i] = v
SomeWorkerFailed == \E l \in Link, w \in Worker : worker[l][w].pc = "failed"

\* The splitter and zfs send.
StreamOrder ==
    /\ split = "token" => made < total
    /\ split \in {"fill", "hand"} => made > 0
    /\ zfs = "ok" => made = total
    /\ split = "ok" => zfs = "ok"
    /\ sender = "ok" => split = "ok" /\ zfs = "ok"
    /\ fwd = "done" => canceled \/ (sender = "ok" /\ startCh = <<>>)

\* Volumes 1..f left startCh, those behind are in order ...
Behind(f) ==
    /\ f + Len(startCh) <= made
    /\ split # "failed" => f + Len(startCh) = Handed
    /\ \A i \in 1..Len(startCh) : startCh[i] = f + i

\* ... the forwarder holds the last of them or passed it on ...
Passed(f) == IF fwd = "hand" THEN f - 1 ELSE f
Ahead(f) ==
    /\ fwd = "hand" => f > 0 /\ fwdVol = f
    /\ \A i \in 1..Len(stepCh) : stepCh[i] <= Passed(f)
    /\ \A l \in Link, w \in Worker : HasItem(l, w) => worker[l][w].vol <= Passed(f)
    /\ coll = "save" => collVol \in 1..Passed(f)
    /\ recorded \subseteq 1..Passed(f)

\* ... and pendingVolumes counts at least the ones the manifest does not have.  A volume
\* that a failure loses stays counted, so zero is closed for a whole set only.
Counted(f) ==
    /\ pending >= (IF fwd = "done" THEN 0 ELSE 1) + Cardinality((1..f) \ recorded)
    /\ zero => fwd = "done" /\ 1..f \subseteq recorded
InOrder == \E f \in 0..made : Behind(f) /\ Ahead(f) /\ Counted(f)

\* Behind the forwarder, an item is in one place.
OnePlace ==
    /\ \A i, j \in 1..Len(stepCh) : stepCh[i] = stepCh[j] => i = j
    /\ \A l, k \in Link, w, u \in Worker :
         HasItem(l, w) /\ HasItem(k, u) /\ worker[l][w].vol = worker[k][u].vol
         => l = k /\ w = u
    /\ \A l \in Link, w \in Worker : HasItem(l, w) => ~InStepCh(worker[l][w].vol)
    /\ \A v \in recorded \cup (IF coll = "save" THEN {collVol} ELSE {}) :
         ~InStepCh(v) /\ ~InHand(v)
    /\ coll = "save" => collVol \notin recorded

\* What a link passed on is at its destination, and so what is recorded is at all.
Uploaded ==
    /\ \A l \in Link, w \in Worker : HasItem(l, w) =>
         \A d \in Uploads : d < l \/ (d = l /\ worker[l][w].pc = "hand")
                              => worker[l][w].vol \in at[d]
    /\ \A d \in Uploads : coll = "save" => collVol \in at[d]
    /\ \A d \in Uploads : recorded \subseteq at[d] /\ at[d] \subseteq 0..total

\* The stream ended well and every volume of it is recorded.
Whole == zfs = "ok" /\ fwd = "done" /\ recorded = 1..total

\* The final manifest exists only of a whole set, follows it, and is nowhere ahead of
\* the link it is at.
ManifestLast ==
    /\ fin \in {"save", "hand", "ok"} \/ finalized => Whole
    /\ fin \in {"hand", "ok"} => finalized
    /\ InStepCh(FinalManifest) => fin = "ok" /\ \A d \in Uploads : FinalManifest \notin at[d]
    /\ \A l \in Link, w \in Worker : HasItem(l, w) /\ worker[l][w].vol = FinalManifest =>
         /\ fin = "ok"
         /\ \A d \in Uploads : d > l \/ (d = l /\ worker[l][w].pc = "upload")
                                => FinalManifest \notin at[d]
    /\ \A d \in Uploads : FinalManifest \in at[d] => fin = "ok"

\* The manifest, once handed on, is somewhere, or lost to a worker that failed, or at
\* every destination.
ManifestNotLost ==
    fin = "ok" => \/ InStepCh(FinalManifest) \/ InHand(FinalManifest) \/ SomeWorkerFailed
                  \/ \A d \in Uploads : FinalManifest \in at[d]

\* A link returns when its workers have, nil only when all did; those of the first
\* end well only behind the manifest.
LinksEnd ==
    /\ \A l \in Link, w \in Worker :
         /\ link[l] # "open" => worker[l][w].pc \in Ended
         /\ link[l] = "ok" => worker[l][w].pc = "ok"
    /\ \A w \in Worker : worker[1][w].pc = "ok" => stepCh = <<>> /\ fin = "ok"
    /\ returned => AllEnded

\* While the collector runs, every token is in fileBuffer, on its way back to it, or
\* held for a volume that is not yet recorded.
TokensKept ==
    coll \notin Ended =>
        tokens + (made - Cardinality(recorded)) + (IF coll = "token" THEN 1 ELSE 0) = BufferSize

\* The whole of it: holds initially and is kept by every step of every goroutine.
Inv ==
    /\ TypeOK
    /\ StreamOrder /\ InOrder /\ OnePlace /\ Uploaded
    /\ ManifestLast /\ ManifestNotLost /\ LinksEnd /\ TokensKept
=============================================================================
