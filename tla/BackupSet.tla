----------------------------- MODULE BackupSet -----------------------------
(***************************************************************************)
(* One backup set (one dataset, one snapshot name) through any number of   *)
(* `zfsbackup send` runs on one host: what the runs leave at the           *)
(* destinations and in the local cache, and what a later run trusts.       *)
(*                                                                         *)
(* Durable state: the volume objects and the manifest object at each       *)
(* destination, and the manifest cached for each destination.  Everything  *)
(* else belongs to the run that holds the dataset's lock and is gone when  *)
(* that run ends, whether by success, error, signal or power loss.         *)
(*                                                                         *)
(* Two attempts upload different bytes under the same volume names and     *)
(* sizes (another encryption session key, another cut), so a volume is     *)
(* identified here by the attempt that cut it; only a SHA-256 comparison   *)
(* sees the difference.                                                    *)
(***************************************************************************)
EXTENDS Naturals, Sequences, FiniteSets, Functions

CONSTANTS
    Dest,         \* destination URIs
    Atomic,       \* the destinations whose uploads appear whole or not at all
    Job,          \* what sameStream compares: snapshot guids, options, keys
    Variant,      \* the byte streams zfs send may produce for one Job
    StreamLen,    \* length of the stream, in units a volume can be cut at
    FileBuffer,   \* --maxFileBuffer: volumes between splitter and collector
    MaxAttempts,  \* bound: runs that get as far as cutting volumes
    None,         \* no object, no file, no value
    Truncated     \* an object a killed upload left under its final name

Stream == [job : Job, var : Variant]

\* A volume: number (its object name), the attempt that cut it (with lo and hi,
\* its SHA-256), the stream it was cut from and the bytes lo+1..hi it holds.
MaxVolumes == StreamLen        \* every volume holds at least one unit
Num == 1..MaxVolumes
Volume == [num : Num, att : Nat, str : Stream, lo : Nat, hi : Nat]

\* A manifest: "final" when it has an EndTime.
Manifest == [job : Job, vols : SUBSET Volume, kind : {"partial", "final"}]

ASSUME DestAssumption == IsFiniteSet(Dest) /\ Atomic \subseteq Dest
ASSUME BoundAssumption ==
    /\ StreamLen \in Nat \ {0}
    /\ FileBuffer \in Nat \ {0}
    /\ MaxAttempts \in Nat
ASSUME NoneAssumption ==
    /\ None # Truncated
    /\ None \notin Job
    /\ None \notin Volume \cup Manifest
    /\ Truncated \notin Volume \cup Manifest

VARIABLES
    object,    \* object[d][n]: the object named volume n at destination d
    manifest,  \* manifest[d]: the manifest object at destination d
    cache,     \* cache[d]: the manifest cached locally for destination d
    pc,        \* where the run that holds the lock is; "idle": no run
    dests,     \* the run's destinations, in the order of the command line
    mode,      \* "plain", "resume" or "completePartial"
    job,       \* what the run would send; None: its snapshot is gone
    vols,      \* jobInfo.Volumes
    kind,      \* "final" once jobInfo.EndTime is set
    stream,    \* what zfs send produces in this run
    att,       \* the number of attempts so far; the current one's stamp
    volNum,    \* the number of the next volume
    cut,       \* bytes of the stream already in volumes
    line,      \* volumes between the splitter and the collector
    step,      \* loop index over dests or targets; 0: no loop under way
    targets,   \* the destinations the manifest goes to, in order
    upload     \* the upload of the manifest to targets[step]

durable == <<object, manifest, cache>>
run == <<dests, mode, job, vols, kind, stream, volNum, cut, line, step,
         targets, upload>>
vars == <<durable, pc, run, att>>

Mode == {"plain", "resume", "completePartial"}
PC == {"idle", "refuse", "resume", "discard", "keep", "start", "send",
       "final", "publish", "complete", "cachefile"}

\* The lists of destinations a command line can name.
Orders ==
    {s \in UNION {[1..n -> Dest] : n \in 1..Cardinality(Dest)} : IsInjective(s)}

UploadState == {"waiting", "uploading"}
InFlight == [vol : Volume, pos : Nat \ {0}, upload : UploadState]

TypeOK ==
    /\ object \in [Dest -> [Num -> Volume \cup {None, Truncated}]]
    /\ manifest \in [Dest -> Manifest \cup {None, Truncated}]
    /\ cache \in [Dest -> Manifest \cup {None, Truncated}]
    /\ pc \in PC
    /\ dests \in Seq(Dest)
    /\ mode \in Mode
    /\ job \in Job \cup {None}
    /\ vols \in SUBSET Volume
    /\ kind \in {"partial", "final"}
    /\ stream \in Stream \cup {None}
    /\ att \in 0..MaxAttempts
    /\ volNum \in Nat
    /\ cut \in 0..StreamLen
    /\ line \in SUBSET InFlight
    /\ step \in Nat
    /\ targets \in Seq(Dest)
    /\ upload \in UploadState

-----------------------------------------------------------------------------
(* The run's state when there is no run.                                   *)

NoRun ==
    /\ pc = "idle"
    /\ dests = <<>>
    /\ mode = "plain"
    /\ job = None
    /\ vols = {}
    /\ kind = "partial"
    /\ stream = None
    /\ volNum = 1
    /\ cut = 0
    /\ line = {}
    /\ step = 0
    /\ targets = <<>>
    /\ upload = "waiting"

Init ==
    /\ object = [d \in Dest |-> [n \in Num |-> None]]
    /\ manifest = [d \in Dest |-> None]
    /\ cache = [d \in Dest |-> None]
    /\ att = 0
    /\ NoRun

\* Return, and the deferred Unlock.  All a run leaves behind is durable.
EndRun ==
    /\ pc' = "idle"
    /\ dests' = <<>>
    /\ mode' = "plain"
    /\ job' = None
    /\ vols' = {}
    /\ kind' = "partial"
    /\ stream' = None
    /\ volNum' = 1
    /\ cut' = 0
    /\ line' = {}
    /\ step' = 0
    /\ targets' = <<>>
    /\ upload' = "waiting"
    /\ UNCHANGED att

Numbers(S) == {x.num : x \in S}
Readable(m) == m \notin {None, Truncated}
CachedVolumes(d) == IF Readable(cache[d]) THEN cache[d].vols ELSE {}
\* What saveManifest encodes now.
JobInfo == [job |-> job, vols |-> vols, kind |-> kind]

\* A run starts: destinations prepared, the lock taken, the stream's identity
\* recorded.  A run that finds the lock held changes nothing and is not a step.
TryLock(ds, m, j) ==
    /\ pc = "idle"
    /\ pc' = "refuse"
    /\ dests' = ds
    /\ mode' = m
    /\ job' = j
    /\ UNCHANGED <<durable, att, vols, kind, stream, volNum, cut, line, step,
                   targets, upload>>

-----------------------------------------------------------------------------
(* refuseExistingSet and copyManifest.                                     *)

MutantOnlyFirstAsked ==
    {i \in DOMAIN dests : i = 1 /\ manifest[dests[1]] # None}
Have == {i \in DOMAIN dests : manifest[dests[i]] # None}
Missing == DOMAIN dests \ Have

\* No destination has the manifest: go on, to tryResume or to
\* discardPartialManifests.  Nothing after this reads the mode.
NewSet ==
    /\ pc = "refuse"
    /\ Have = {}
    /\ IF mode = "resume"
         THEN pc' = "resume" /\ step' = 0
         ELSE pc' = "discard" /\ step' = 1
    /\ mode' = "plain"
    /\ UNCHANGED <<durable, att, dests, job, vols, kind, stream, volNum,
                   cut, line, targets, upload>>

\* A full copy everywhere, or a partial one nobody asked to complete.
RefuseSet ==
    /\ pc = "refuse"
    /\ Have # {}
    /\ Missing = {} \/ mode = "plain"
    /\ EndRun
    /\ UNCHANGED durable

\* A send of j would produce the stream m describes: the same snapshots by guid,
\* zfs send arguments, compressor and keys.
sameStream(m, j) == m.job = j

\* j as sameStream should compare it with m: the guid of a snapshot that is gone
\* locally is taken from m.
comparableJob(j, m) == IF j = None THEN m.job ELSE j

\* Every volume m lists is at d with the size and SHA-256 m records.
verifyVolumesAt(d, m) == \A x \in m.vols : x.num \in Num /\ object[d][x.num] = x

\* ts are the destinations dests[i], i in S, in the order of the command line.
InOrder(ts, S) ==
    /\ Range(ts) = {dests[i] : i \in S}
    /\ \A i, j \in DOMAIN ts : i < j =>
         \E k, l \in S : k < l /\ ts[i] = dests[k] /\ ts[j] = dests[l]

\* The manifest of the first destination that has it is copied to the others,
\* if it can be read, describes this job (a snapshot that is gone locally is
\* not compared) and its volumes are there; any failed check ends the run.
CopyManifest(first) ==
    LET m == manifest[dests[first]]
    IN  /\ pc = "refuse"
        /\ Missing # {} /\ mode # "plain"
        /\ first \in Have /\ \A i \in Have : first <= i
        /\ IF /\ m # Truncated
              /\ sameStream(m, comparableJob(job, m))
              /\ \A i \in Missing : verifyVolumesAt(dests[i], m)
             THEN /\ pc' = "complete"
                  /\ \E ts \in Orders : InOrder(ts, Missing) /\ targets' = ts
                  /\ step' = 1
                  /\ job' = m.job /\ vols' = m.vols /\ kind' = m.kind
                  /\ UNCHANGED <<att, dests, mode, stream, volNum, cut, line,
                                 upload>>
             ELSE EndRun
        /\ UNCHANGED durable

-----------------------------------------------------------------------------
(* tryResume and discardPartialManifests.                                  *)

\* The first k of the cached volumes S are numbered 1..k and are at every
\* destination with the size the cache records.
verifiedVolumes(S, k) ==
    \A n \in 1..k :
        /\ \E x \in S : x.num = n
        /\ \A d \in Range(dests) : object[d][n] \notin {None, Truncated}

\* Every other destination's cache records the same volumes 1..k.
MutantCacheNotCompared(S, k) == TRUE
cachedAtEveryDestination(S, k) ==
    \A x \in S : x.num <= k =>
        \A i \in 2..Len(dests) : x \in CachedVolumes(dests[i])

\* A resume can keep the first k volumes of the first destination's cache.
CanKeep(k) ==
    LET S == CachedVolumes(dests[1])
    IN  k \in Num /\ verifiedVolumes(S, k) /\ cachedAtEveryDestination(S, k)

\* Nothing readable cached, or nothing of it verifiable: start over.
ResumeNothing ==
    /\ pc = "resume"
    /\ Readable(cache[dests[1]]) =>
         job # None /\ sameStream(cache[dests[1]], job) /\ ~CanKeep(1)
    /\ pc' = "discard"
    /\ step' = 1
    /\ UNCHANGED <<durable, att, dests, mode, job, vols, kind, stream, volNum,
                   cut, line, targets, upload>>

\* The guid cannot be read, or the cached attempt was of another stream.
ResumeMismatch ==
    /\ pc = "resume"
    /\ Readable(cache[dests[1]])
    /\ job = None \/ ~sameStream(cache[dests[1]], job)
    /\ EndRun
    /\ UNCHANGED durable

\* The longest prefix is kept.  If that is all of a final manifest, only the
\* manifest's upload is left; otherwise the kept volumes replace every
\* destination's cache before any upload.
ResumeKept(keep) ==
    LET m    == cache[dests[1]]
        kept == {x \in m.vols : x.num <= keep}
    IN  /\ pc = "resume"
        /\ Readable(m)
        /\ job # None /\ sameStream(m, job)
        /\ CanKeep(keep) /\ ~CanKeep(keep + 1)
        /\ vols' = kept
        /\ step' = 1
        /\ volNum' = keep + 1
        /\ IF m.kind = "final" /\ kept = m.vols
             THEN pc' = "complete" /\ targets' = dests /\ kind' = "final"
             ELSE pc' = "keep" /\ UNCHANGED <<targets, kind>>
        /\ UNCHANGED <<durable, att, dests, mode, job, stream, cut, line, upload>>

\* Remove the cached manifest of one destination and sync its directory.
MutantDiscardSkipped ==
    /\ pc = "discard"
    /\ step' = 0 /\ pc' = "start"
    /\ UNCHANGED <<durable, att, dests, mode, job, vols, kind, stream, volNum, cut,
                   line, targets, upload>>
DiscardPartialManifest ==
    /\ pc = "discard"
    /\ cache' = [cache EXCEPT ![dests[step]] = None]
    /\ IF step < Len(dests)
         THEN step' = step + 1 /\ pc' = pc
         ELSE step' = 0 /\ pc' = "start"
    /\ UNCHANGED <<object, manifest, att, dests, mode, job, vols, kind, stream,
                   volNum, cut, line, targets, upload>>

-----------------------------------------------------------------------------
(* The pipeline.                                                           *)

\* A resumed run skips the kept bytes; their hash must be the one the last kept
\* volume records.
LastKept == CHOOSE x \in vols : x.num = volNum - 1
MutantSkipNotHashed(s) == TRUE
SkippedBytesMatch(s) == vols = {} \/ LastKept.str = s

\* The snapshots exist, zfs send starts, and what is kept is skipped.
StartStream(s) ==
    /\ pc = "start"
    /\ s.job = job
    /\ att < MaxAttempts
    /\ IF SkippedBytesMatch(s)
         THEN /\ pc' = "send"
              /\ stream' = s
              /\ att' = att + 1
              /\ cut' = IF vols = {} THEN 0 ELSE LastKept.hi
              /\ UNCHANGED <<dests, mode, job, vols, kind, volNum, line, step,
                             targets, upload>>
         ELSE EndRun
    /\ UNCHANGED durable

\* A stream that ends at a cut gets no empty volume.
MutantEmptyVolume(hi) == cut <= hi
MoreToCut(hi) == cut < hi

\* The splitter fills the next volume; where it cuts is not reproducible.
CutVolume(hi) ==
    /\ pc = "send"
    /\ MoreToCut(hi)
    /\ Cardinality(line) + (IF step = 0 THEN 0 ELSE 1) < FileBuffer
    /\ line' = line \cup
         {[vol |-> [num |-> volNum, att |-> att, str |-> stream,
                    lo |-> cut, hi |-> hi],
           pos |-> 1, upload |-> "waiting"]}
    /\ volNum' = volNum + 1
    /\ cut' = hi
    /\ UNCHANGED <<durable, pc, att, dests, mode, job, vols, kind, stream, step,
                   targets, upload>>

\* One volume's upload to the next destination of the chain begins: file and
\* ssh destinations truncate the object, the others leave it as it was.
StartUpload(e) ==
    LET d == dests[e.pos]
    IN  /\ pc = "send"
        /\ e.pos <= Len(dests) /\ e.upload = "waiting"
        /\ object' = IF d \in Atomic THEN object
                     ELSE [object EXCEPT ![d][e.vol.num] = Truncated]
        /\ line' = (line \ {e}) \cup {[e EXCEPT !.upload = "uploading"]}
        /\ UNCHANGED <<manifest, cache, pc, att, dests, mode, job, vols, kind,
                       stream, volNum, cut, step, targets, upload>>

FinishUpload(e) ==
    /\ pc = "send"
    /\ e.upload = "uploading"
    /\ object' = [object EXCEPT ![dests[e.pos]][e.vol.num] = e.vol]
    /\ line' = (line \ {e}) \cup {[vol |-> e.vol, pos |-> e.pos + 1, upload |-> "waiting"]}
    /\ UNCHANGED <<manifest, cache, pc, att, dests, mode, job, vols, kind, stream,
                   volNum, cut, step, targets, upload>>

\* A failed upload removes what it wrote; it is retried, or the run stops.
FailUpload(e) ==
    LET d == dests[e.pos]
    IN  /\ pc = "send"
        /\ e.upload = "uploading"
        /\ object' = IF d \in Atomic THEN object
                     ELSE [object EXCEPT ![d][e.vol.num] = None]
        /\ line' = (line \ {e}) \cup {[e EXCEPT !.upload = "waiting"]}
        /\ UNCHANGED <<manifest, cache, pc, att, dests, mode, job, vols, kind,
                       stream, volNum, cut, step, targets, upload>>

\* The last link of the chain handed the volume on.
MutantOneDestinationEarly(e) == e.pos >= Len(dests) /\ e.upload = "waiting"
UploadedEverywhere(e) == e.pos = Len(dests) + 1

\* The collector takes a volume that is at every destination, and begins to
\* save the partial manifest that lists it.
CollectVolume(e) ==
    /\ pc = "send"
    /\ UploadedEverywhere(e)
    /\ step = 0
    /\ vols' = vols \cup {e.vol}
    /\ line' = line \ {e}
    /\ step' = 1
    /\ UNCHANGED <<durable, pc, att, dests, mode, job, kind, stream, volNum, cut,
                   targets, upload>>

\* The whole stream was read and every volume is recorded.
FinalizeManifest ==
    /\ pc = "send"
    /\ cut = StreamLen
    /\ line = {} /\ step = 0
    /\ kind' = "final"
    /\ pc' = "final"
    /\ step' = 1
    /\ UNCHANGED <<durable, att, dests, mode, job, vols, stream, volNum, cut, line,
                   targets, upload>>

\* saveManifest replaces one destination's cached manifest (atomically), and
\* goes on to the next.  It serves the kept volumes of a resume, each volume
\* collected, and the final manifest.
SaveManifest ==
    /\ pc \in {"keep", "send", "final"}
    /\ step > 0
    /\ cache' = [cache EXCEPT ![dests[step]] = JobInfo]
    /\ IF step < Len(dests)
         THEN step' = step + 1 /\ UNCHANGED <<pc, targets>>
         ELSE \/ pc = "keep" /\ pc' = "start" /\ step' = 0 /\ UNCHANGED targets
              \/ pc = "send" /\ pc' = "send" /\ step' = 0 /\ UNCHANGED targets
              \/ pc = "final" /\ pc' = "publish" /\ step' = 1 /\ targets' = dests
    /\ UNCHANGED <<object, manifest, att, dests, mode, job, vols, kind, stream,
                   volNum, cut, line, upload>>

-----------------------------------------------------------------------------
(* The final manifest's way to the destinations: through the pipeline       *)
(* ("publish"), or by uploadManifest ("complete"), which caches it for each. *)

StartManifest ==
    LET d == targets[step]
    IN  /\ pc \in {"publish", "complete"}
        /\ upload = "waiting"
        /\ upload' = "uploading"
        /\ manifest' = IF d \in Atomic THEN manifest
                       ELSE [manifest EXCEPT ![d] = Truncated]
        /\ UNCHANGED <<object, cache, pc, att, dests, mode, job, vols, kind,
                       stream, volNum, cut, line, step, targets>>

FinishManifest ==
    /\ pc \in {"publish", "complete"}
    /\ upload = "uploading"
    /\ manifest' = [manifest EXCEPT ![targets[step]] = JobInfo]
    /\ \/ /\ pc = "publish" /\ step = Len(targets)
          /\ EndRun
       \/ /\ pc = "publish" /\ step < Len(targets)
          /\ step' = step + 1 /\ upload' = "waiting"
          /\ UNCHANGED <<pc, att, dests, mode, job, vols, kind, stream, volNum,
                         cut, line, targets>>
       \/ /\ pc = "complete"
          /\ pc' = "cachefile" /\ upload' = "waiting"
          /\ UNCHANGED <<att, dests, mode, job, vols, kind, stream, volNum, cut,
                         line, step, targets>>
    /\ UNCHANGED <<object, cache>>

\* The pipeline retries a failed upload; uploadManifest gives up.
FailManifest ==
    LET d == targets[step]
    IN  /\ pc \in {"publish", "complete"}
        /\ upload = "uploading"
        /\ manifest' = IF d \in Atomic THEN manifest
                       ELSE [manifest EXCEPT ![d] = None]
        /\ IF pc = "publish"
             THEN /\ upload' = "waiting"
                  /\ UNCHANGED <<pc, att, dests, mode, job, vols, kind, stream,
                                 volNum, cut, line, step, targets>>
             ELSE EndRun
        /\ UNCHANGED <<object, cache>>

CacheFile ==
    /\ pc = "cachefile"
    /\ cache' = [cache EXCEPT ![targets[step]] = JobInfo]
    /\ IF step < Len(targets)
         THEN /\ pc' = "complete" /\ step' = step + 1
              /\ UNCHANGED <<att, dests, mode, job, vols, kind, stream, volNum,
                             cut, line, targets, upload>>
         ELSE EndRun
    /\ UNCHANGED <<object, manifest>>

-----------------------------------------------------------------------------
(* The run's end, and what happens between runs.                           *)

\* An error, a signal, a kill or a crash, anywhere; completed uploads stay.
StopRun ==
    /\ pc # "idle"
    /\ EndRun
    /\ UNCHANGED durable

\* The operator, or clean (which needs the lock), removes a manifest, then
\* volumes no manifest at that destination lists; or a cached manifest is lost
\* or damaged.
DeleteManifest(d) ==
    /\ pc = "idle"
    /\ manifest[d] # None
    /\ manifest' = [manifest EXCEPT ![d] = None]
    /\ UNCHANGED <<object, cache, pc, run, att>>

DeleteVolume(d, n) ==
    /\ pc = "idle"
    /\ manifest[d] = None
    /\ object[d][n] # None
    /\ object' = [object EXCEPT ![d][n] = None]
    /\ UNCHANGED <<manifest, cache, pc, run, att>>

LoseCache(d, c) ==
    /\ pc = "idle"
    /\ Readable(cache[d])
    /\ cache' = [cache EXCEPT ![d] = c]
    /\ UNCHANGED <<object, manifest, pc, run, att>>

Next ==
    \/ \E ds \in Orders, m \in Mode, j \in Job \cup {None} : TryLock(ds, m, j)
    \/ NewSet
    \/ RefuseSet
    \/ \E first \in DOMAIN dests : CopyManifest(first)
    \/ ResumeNothing
    \/ ResumeMismatch
    \/ \E keep \in Num : ResumeKept(keep)
    \/ DiscardPartialManifest
    \/ \E s \in Stream : StartStream(s)
    \/ \E hi \in 1..StreamLen : CutVolume(hi)
    \/ \E e \in line : StartUpload(e)
    \/ \E e \in line : FinishUpload(e)
    \/ \E e \in line : FailUpload(e)
    \/ \E e \in line : CollectVolume(e)
    \/ FinalizeManifest
    \/ SaveManifest
    \/ StartManifest
    \/ FinishManifest
    \/ FailManifest
    \/ CacheFile
    \/ StopRun
    \/ \E d \in Dest : DeleteManifest(d)
    \/ \E d \in Dest, n \in Num : DeleteVolume(d, n)
    \/ \E d \in Dest, c \in {None, Truncated} : LoseCache(d, c)

Spec == Init /\ [][Next]_vars

-----------------------------------------------------------------------------
(* Properties.                                                             *)

\* A manifest at a destination describes what is there: every volume it lists
\* is the very object it was written for, size and SHA-256 included.  Restores
\* (which verify both) of a published set depend on it; a --resume that trusts
\* the wrong cache, or a re-send over a published set, would break it.
PublishedMatches ==
    \A d \in Dest : manifest[d] \in Manifest => verifyVolumesAt(d, manifest[d])

\* A published set is the whole of one stream: its volumes are numbered from 1
\* without a gap, each starts where the one before it ended, the first at byte
\* 0 and the last at the end, all of one zfs send stream of the manifest's job.
\* A resume that skips the wrong bytes, or accepts another stream, breaks it.
PublishedIsOneStream ==
    \A d \in Dest : manifest[d] \in Manifest =>
        LET m == manifest[d]
        IN  /\ m.kind = "final"
            /\ \E s \in Stream : s.job = m.job /\ \A x \in m.vols : x.str = s
            /\ \E last \in Num :
                 /\ Numbers(m.vols) = 1..last
                 /\ \A x \in m.vols :
                      /\ x.num = 1 => x.lo = 0
                      /\ \A y \in m.vols : y.num = x.num + 1 => y.lo = x.hi
                      /\ x.num = last => x.hi = StreamLen

\* The cache is never wrong about an object that is still there: a volume the
\* cache of a destination lists is at that destination as recorded, or gone.
\* This is what lets --resume keep volumes without downloading them.
CacheSound ==
    \A d \in Dest : \A x \in CachedVolumes(d) :
        x.num \in Num /\ object[d][x.num] \in {None, x}

\* While a destination has a readable manifest of the set, no step changes any
\* object of the set there: refuseExistingSet, checked under the lock, keeps
\* every later run (and a run's own late uploads) off a published set.
PublishedNeverOverwritten ==
    [][\A d \in Dest :
          manifest[d] \in Manifest /\ manifest'[d] # None
             => manifest'[d] = manifest[d] /\ object'[d] = object[d]]_vars

-----------------------------------------------------------------------------
(* The inductive invariant behind these properties: what a run knows about  *)
(* its destinations at each point, and why it may trust the cache.          *)

\* S are pieces of one stream, each volume number at most once, two
\* neighbours meeting where the first was cut.
Coherent(S) ==
    /\ \A x \in S : /\ x.num \in Num /\ x.num <= x.hi /\ x.hi <= StreamLen
                    /\ x.num = 1 => x.lo = 0
    /\ \A x, y \in S : /\ x.str = y.str
                       /\ x.num = y.num => x = y
                       /\ y.num = x.num + 1 => y.lo = x.hi

\* S reaches from the first volume to the end of the stream.
Whole(S) ==
    \E last \in Num :
        /\ Numbers(S) = 1..last
        /\ \A x \in S : x.num = last => x.hi = StreamLen

GoodManifest(m) ==
    /\ Coherent(m.vols)
    /\ \A x \in m.vols : x.str.job = m.job
    /\ m.kind = "final" => Whole(m.vols)

\* Every cached manifest lists pieces of one stream, a published one all of it.
ManifestsGood ==
    \A d \in Dest :
        /\ cache[d] \in Manifest => GoodManifest(cache[d])
        /\ manifest[d] \in Manifest => GoodManifest(manifest[d]) /\ manifest[d].kind = "final"

\* Which of the run's variables are in use at which point.
RunShape ==
    /\ pc # "idle" => Len(dests) > 0 /\ IsInjective(dests)
    /\ pc \in {"discard", "keep", "final"} => step \in 1..Len(dests)
    /\ pc = "send" => step \in 0..Len(dests)
    /\ pc = "start" => step = 0
    /\ pc = "publish" => targets = dests
    /\ pc \in {"publish", "complete", "cachefile"} =>
         step \in 1..Len(targets) /\ IsInjective(targets)
    /\ pc # "send" => line = {}
    /\ pc \in {"idle", "refuse", "resume", "discard"} => vols = {} /\ volNum = 1
    /\ kind = "final" <=> (pc \in {"final", "publish", "complete", "cachefile"})
    /\ upload = "uploading" => pc \in {"publish", "complete"}
    /\ pc \in {"keep", "send", "final", "publish", "complete", "cachefile"} =>
         job \in Job
    /\ pc \in {"send", "final", "publish"} => stream \in Stream

\* Destinations the manifest has still to reach have none.
Unpublished ==
    /\ pc \in {"resume", "discard", "keep", "start", "send", "final"} =>
         \A i \in 1..Len(dests) : manifest[dests[i]] = None
    /\ pc \in {"publish", "complete", "cachefile"} =>
         \A i \in (step + 1)..Len(targets) : manifest[targets[i]] = None
    /\ pc \in {"publish", "complete"} =>
         manifest[targets[step]] =
            IF upload = "waiting" \/ targets[step] \in Atomic THEN None ELSE Truncated

\* The volumes the run keeps or has recorded are where its manifest goes.
VolumesThere ==
    /\ pc \in {"keep", "start", "send", "final"} =>
         \A i \in 1..Len(dests) : \A x \in vols : object[dests[i]][x.num] = x
    /\ pc \in {"publish", "complete", "cachefile"} =>
         \A i \in 1..Len(targets) : \A x \in vols : object[targets[i]][x.num] = x

\* A volume in flight is not recorded yet, and is at the destinations it passed.
LineThere ==
    /\ \A e \in line :
         /\ e.vol.num \notin Numbers(vols)
         /\ e.pos \in 1..(Len(dests) + 1)
         /\ e.upload = "uploading" => e.pos <= Len(dests)
         /\ \A i \in 1..(e.pos - 1) : object[dests[i]][e.vol.num] = e.vol
    /\ \A e, f \in line : e.vol.num = f.vol.num => e = f

\* Once a run may upload, the caches of its destinations list nothing that it
\* could overwrite.
CacheOfRun ==
    /\ pc = "discard" => \A i \in 1..(step - 1) : cache[dests[i]] = None
    /\ pc = "keep" => \A i \in 1..(step - 1) : CachedVolumes(dests[i]) \subseteq vols
    /\ pc \in {"start", "send"} =>
         \A i \in 1..Len(dests) : CachedVolumes(dests[i]) \subseteq vols

\* What is kept, recorded and in flight is the stream up to cut, and no more.
Pieces == vols \cup {e.vol : e \in line}

PiecesGood ==
    /\ pc \in {"keep", "start", "send", "final", "publish"} =>
         /\ Coherent(Pieces)
         /\ volNum \in 1..(StreamLen + 1)
         /\ Numbers(Pieces) = 1..(volNum - 1)
         /\ \A x \in Pieces : x.str.job = job
    /\ pc \in {"send", "final", "publish"} =>
         /\ stream.job = job
         /\ volNum = 1 => cut = 0
         /\ \A x \in Pieces : x.str = stream /\ (x.num = volNum - 1 => x.hi = cut)
    /\ pc \in {"final", "publish"} => cut = StreamLen
    /\ pc \in {"complete", "cachefile"} => GoodManifest(JobInfo)

\* The inductive invariant: resume is safe because, at every step of every run,
\* the caches, the objects and the run agree as above.
Inv ==
    /\ TypeOK
    /\ CacheSound
    /\ PublishedMatches
    /\ ManifestsGood
    /\ RunShape
    /\ Unpublished
    /\ VolumesThere
    /\ LineThere
    /\ CacheOfRun
    /\ PiecesGood
=============================================================================
