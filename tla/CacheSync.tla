----------------------------- MODULE CacheSync -----------------------------
(***************************************************************************)
(* The cached manifest of one backup set for one destination: the file a   *)
(* send writes after each volume and --resume trusts, and the file that    *)
(* list, plan, receive and smart sends, which do not take the dataset's    *)
(* lock, download and read.  A process may be killed between any two       *)
(* steps; a power loss also undoes directory changes that were not synced. *)
(*                                                                         *)
(* Attempts upload other bytes of the same size under the same names: a    *)
(* volume is the number of the attempt that uploaded it.                   *)
(***************************************************************************)
EXTENDS Naturals, Sequences

CONSTANTS
    NumVolumes,   \* volumes in the set
    None, Damaged,
    Budgets       \* bounds: how many sends, reads, kills, power losses, deletions and cleans

Bounded == {"attempt", "read", "kill", "loss", "delete", "clean"}
Manifests == {m \in [vols : Seq(Nat), final : BOOLEAN] : Len(m.vols) <= NumVolumes}
ASSUME CacheAssumption ==
    /\ NumVolumes \in Nat \ {0} /\ Budgets \subseteq [Bounded -> Nat]
    /\ None # Damaged /\ None \notin Nat
    /\ None \notin Manifests /\ Damaged \notin Manifests

VARIABLES
    object,     \* object[i]: the attempt whose bytes are volume i at the destination, or None
    published,  \* the manifest at the destination, or None
    ever,       \* every manifest that was published
    dir,        \* [file, legacy]: the cached manifest, and the one an older version cached
    maybe,      \* the values of dir a power loss may bring back, the current one too
    wpc, vols,  \* the send that holds the lock, and jobInfo.Volumes
    rpc, hold, again,  \* a reader, what it downloaded, and whether it did so already
    got,        \* the last manifest a reader returned
    left        \* how often each bounded action may still happen

vars == <<object, published, ever, dir, maybe, wpc, vols, rpc, hold, again, got, left>>
reader == <<rpc, hold, again, got>>
destination == <<object, published, ever>>

Manifest(v, f) == [vols |-> v, final |-> f]
\* Attempts are numbered down; 0 is the one before all of them.
thisAttempt == left["attempt"] + 1
Count(what) == left[what] > 0 /\ left' = [left EXCEPT ![what] = @ - 1]

\* Attempt 0, perhaps an older version's, left one volume behind; or it was a whole
\* send from another host or working directory, which this cache knows nothing of.
Whole == Manifest([i \in 1..NumVolumes |-> 0], TRUE)
Init ==
    /\ \/ /\ object = [i \in 1..NumVolumes |-> IF i = 1 THEN 0 ELSE None]
          /\ published = None /\ ever = {}
          /\ dir \in [file : {None, Damaged, Manifest(<<0>>, FALSE)},
                     legacy : {None, Manifest(<<0>>, FALSE)}]
       \/ /\ object = [i \in 1..NumVolumes |-> 0]
          /\ published = Whole /\ ever = {Whole}
          /\ dir \in [file : {None, Damaged}, legacy : {None, Whole}]
    /\ maybe = {dir}
    /\ wpc = "idle" /\ vols = <<>>
    /\ rpc = "idle" /\ hold = None /\ again = FALSE /\ got = None
    /\ left \in Budgets

\* A change of the directory is durable once the directory is synced.
Change(d) == dir' = d /\ maybe' = maybe \cup {d}
Put(m) == Change([dir EXCEPT !.file = m])
SyncDir == maybe' = {dir} /\ UNCHANGED dir

-----------------------------------------------------------------------------
(* A send, under the dataset's lock.                                       *)

\* adoptCacheDir: a manifest cached in both keeps the new directory's copy.
Adopted == [file |-> IF dir.file = None THEN dir.legacy ELSE dir.file, legacy |-> None]
adoptCacheDir == IF dir.legacy = None THEN UNCHANGED <<dir, maybe>> ELSE Change(Adopted)

\* Up to refuseExistingSet.
StartSend(resume) ==
    /\ wpc = "idle" /\ Count("attempt")
    /\ adoptCacheDir
    /\ wpc' = IF published # None THEN "idle" ELSE IF resume THEN "resume" ELSE "discard"
    /\ vols' = <<>>
    /\ UNCHANGED <<destination, reader>>

\* verifiedVolumes: those of the cached volumes, in order, that are at the destination.
verifiedVolumes(m) ==
    LET there == {n \in 0..Len(m.vols) : \A i \in 1..n : object[i] # None}
    IN SubSeq(m.vols, 1, CHOOSE n \in there : \A k \in there : k <= n)

tryResume ==
    /\ wpc = "resume"
    /\ LET m == dir.file IN
       IF m \in {None, Damaged} \/ verifiedVolumes(m) = <<>>
       THEN wpc' = "discard" /\ UNCHANGED vols
       ELSE /\ vols' = verifiedVolumes(m)
            /\ wpc' = IF m.final /\ vols' = m.vols THEN "uploadCached" ELSE "save"
    /\ UNCHANGED <<destination, dir, maybe, reader, left>>

\* uploadManifest from the cache, which stays what it is.
UploadCached ==
    /\ wpc = "uploadCached"
    /\ wpc' = "idle"
    /\ IF dir.file \in {None, Damaged} THEN UNCHANGED <<published, ever>>
       ELSE published' = dir.file /\ ever' = ever \cup {dir.file}
    /\ UNCHANGED <<object, dir, maybe, vols, reader, left>>

\* discardPartialManifests: os.Remove and then syncDir; nothing to remove, nothing to sync.
MutantUnsynced == wpc = "discard" /\ Put(None) /\ wpc' = "upload"
                  /\ UNCHANGED <<destination, vols, reader, left>>
MutantNotDiscarded == wpc = "discard" /\ wpc' = "upload"
                      /\ UNCHANGED <<destination, dir, maybe, vols, reader, left>>
discardPartialManifests ==
    /\ wpc = "discard"
    /\ IF dir.file = None THEN wpc' = "upload" /\ UNCHANGED <<dir, maybe>>
       ELSE wpc' = "discardSync" /\ Put(None)
    /\ UNCHANGED <<destination, vols, reader, left>>

SyncDiscard ==
    /\ wpc = "discardSync"
    /\ SyncDir /\ wpc' = "upload"
    /\ UNCHANGED <<destination, vols, reader, left>>

\* The next volume is uploaded: at the destination, and then in jobInfo.Volumes.
UploadVolume ==
    /\ wpc = "upload" /\ Len(vols) < NumVolumes
    /\ object' = [object EXCEPT ![Len(vols) + 1] = thisAttempt]
    /\ vols' = Append(vols, thisAttempt)
    /\ wpc' = "save"
    /\ UNCHANGED <<published, ever, dir, maybe, reader, left>>

\* saveManifest, partial after each volume and final after the last: WriteFileAtomic
\* renames a whole, synced file into place and syncs the directory.
MutantNotCached == wpc = "final" /\ wpc' = "publish"
                   /\ UNCHANGED <<destination, dir, maybe, vols, reader, left>>
SavePartial ==
    /\ wpc = "save"
    /\ Put(Manifest(vols, FALSE)) /\ wpc' = "saveSync"
    /\ UNCHANGED <<destination, vols, reader, left>>

SyncPartial ==
    /\ wpc = "saveSync"
    /\ SyncDir /\ wpc' = IF Len(vols) = NumVolumes THEN "final" ELSE "upload"
    /\ UNCHANGED <<destination, vols, reader, left>>

SaveFinal ==
    /\ wpc = "final"
    /\ Put(Manifest(vols, TRUE)) /\ wpc' = "finalSync"
    /\ UNCHANGED <<destination, vols, reader, left>>

SyncFinal ==
    /\ wpc = "finalSync"
    /\ SyncDir /\ wpc' = "publish"
    /\ UNCHANGED <<destination, vols, reader, left>>

\* The run uploads the manifest it made, whatever is in the cache by now.
Publish ==
    /\ wpc = "publish"
    /\ published' = Manifest(vols, TRUE) /\ ever' = ever \cup {published'}
    /\ wpc' = "idle"
    /\ UNCHANGED <<object, dir, maybe, vols, reader, left>>

-----------------------------------------------------------------------------
(* A reader: getCacheDir, syncCache and readCachedManifest, without a lock. *)

StartRead ==
    /\ rpc = "idle" /\ Count("read")
    /\ rpc' = IF dir.legacy = None THEN "list" ELSE IF dir.file = None THEN "move" ELSE "drop"
    /\ hold' = None /\ again' = FALSE /\ got' = None
    /\ UNCHANGED <<destination, dir, maybe, wpc, vols>>

\* The second half of adoptCacheDir; the file may be gone by now, and that is an error.
AdoptLegacy ==
    /\ rpc \in {"move", "drop"}
    /\ rpc' = IF dir.legacy = None THEN "idle" ELSE "list"
    /\ IF dir.legacy = None THEN UNCHANGED <<dir, maybe>>
       ELSE Change([file |-> IF rpc = "move" THEN dir.legacy ELSE dir.file, legacy |-> None])
    /\ UNCHANGED <<destination, wpc, vols, hold, again, got, left>>

\* backend.List; a manifest that is not at the destination is not read.
List ==
    /\ rpc = "list"
    /\ rpc' = IF published = None THEN "idle" ELSE "dir"
    /\ UNCHANGED <<destination, dir, maybe, wpc, vols, hold, again, got, left>>

\* os.ReadDir: only what is not cached is downloaded.
ReadDir ==
    /\ rpc = "dir"
    /\ rpc' = IF dir.file = None THEN "download" ELSE "read"
    /\ UNCHANGED <<destination, dir, maybe, wpc, vols, hold, again, got, left>>

Download ==
    /\ rpc = "download"
    /\ rpc' = IF published = None THEN "idle" ELSE "rename"
    /\ hold' = published
    /\ UNCHANGED <<destination, dir, maybe, wpc, vols, again, got, left>>

RenameDownload ==
    /\ rpc = "rename"
    /\ Put(hold) /\ rpc' = "sync"
    /\ UNCHANGED <<destination, wpc, vols, hold, again, got, left>>

SyncDownload ==
    /\ rpc = "sync"
    /\ SyncDir /\ rpc' = "read"
    /\ UNCHANGED <<destination, wpc, vols, hold, again, got, left>>

\* A copy that does not decode is removed and downloaded, once.
ReadManifest ==
    /\ rpc = "read"
    /\ IF dir.file \in {None, Damaged}
       THEN /\ rpc' = IF again THEN "idle" ELSE "download"
            /\ again' = TRUE
            /\ IF dir.file = Damaged THEN Put(None) ELSE UNCHANGED <<dir, maybe>>
            /\ UNCHANGED got
       ELSE rpc' = "idle" /\ got' = dir.file /\ UNCHANGED <<dir, maybe, again>>
    /\ UNCHANGED <<destination, wpc, vols, hold, left>>

-----------------------------------------------------------------------------
(* The rest of the world.                                                  *)

Kill ==
    /\ Count("kill")
    /\ \/ wpc # "idle" /\ wpc' = "idle" /\ UNCHANGED rpc
       \/ rpc # "idle" /\ rpc' = "idle" /\ UNCHANGED wpc
    /\ UNCHANGED <<destination, dir, maybe, vols, hold, again, got>>

PowerLoss ==
    /\ Count("loss")
    /\ dir' \in maybe /\ maybe' = {dir'}
    /\ wpc' = "idle" /\ rpc' = "idle"
    /\ UNCHANGED <<destination, vols, hold, again, got>>

\* "Delete it at the destination to send it again."
DeleteSet ==
    /\ Count("delete") /\ published # None
    /\ published' = None /\ object' = [i \in 1..NumVolumes |-> None]
    /\ UNCHANGED <<ever, dir, maybe, wpc, vols, reader>>

\* clean --cleanLocal, under the lock: a cached manifest that is not at the destination.
CleanLocal ==
    /\ Count("clean") /\ wpc = "idle" /\ published = None /\ dir.file # None
    /\ Put(None)
    /\ UNCHANGED <<destination, wpc, vols, reader>>

Next ==
    \/ \E resume \in BOOLEAN : StartSend(resume)
    \/ tryResume \/ UploadCached \/ discardPartialManifests \/ SyncDiscard \/ UploadVolume
    \/ SavePartial \/ SyncPartial \/ SaveFinal \/ SyncFinal \/ Publish
    \/ StartRead \/ AdoptLegacy \/ List \/ ReadDir \/ Download \/ RenameDownload \/ SyncDownload
    \/ ReadManifest
    \/ Kill \/ PowerLoss \/ DeleteSet \/ CleanLocal

Spec == Init /\ [][Next]_vars

-----------------------------------------------------------------------------
(* Properties.                                                             *)

Describes(m) == \A i \in DOMAIN m.vols : object[i] \in {m.vols[i], None}

\* "each destination's cache describes the volumes the last run that touched it left there"
\* (cachedAtEveryDestination): the cached manifest lists no volume that a later attempt
\* has replaced, also after a kill or a power loss.
CacheDescribesLastRun == dir.file \notin {None, Damaged} => Describes(dir.file)

\* A manifest at the destination has the checksums of the volumes there: --resume
\* publishes what the cache says without reading the volumes again.
PublishedSetRestores == published # None => Describes(published)

\* A reader that finds the manifest listed returns one that was published, never the
\* partial state of a send in the same cache file, and after a power loss too.
ReaderGetsPublished == got # None => got \in ever

-----------------------------------------------------------------------------
(* Why they hold where no power loss follows a kill or a clean, and no     *)
(* reader meets a deletion: the inductive invariant of CacheSyncProofs.    *)

Tame(b) == /\ b["loss"] = 0 \/ (b["kill"] = 0 /\ b["clean"] = 0)
           /\ b["read"] = 0 \/ b["delete"] = 0

Files == Manifests \cup {None, Damaged}
Dirs == [file : Files, legacy : Files]
Live(m) == m \notin {None, Damaged}
Listed == {"dir", "download", "rename", "sync", "read"}
mayRead == left["read"] > 0 \/ rpc # "idle"
\* The directories a step or a power loss may find.
Possible == IF left["loss"] > 0 THEN maybe ELSE {dir}

TypeOK ==
    /\ object \in [1..NumVolumes -> Nat \cup {None}]
    /\ published \in Manifests \cup {None} /\ ever \subseteq Manifests
    /\ dir \in Dirs /\ maybe \subseteq Dirs /\ dir \in maybe
    /\ wpc \in {"idle", "resume", "uploadCached", "discard", "discardSync", "upload", "save",
                "saveSync", "final", "finalSync", "publish"}
    /\ vols \in Seq(Nat) /\ Len(vols) <= NumVolumes
    /\ rpc \in {"idle", "move", "drop", "list"} \cup Listed
    /\ hold \in Manifests \cup {None} /\ again \in BOOLEAN /\ got \in Manifests \cup {None}
    /\ left \in [Bounded -> Nat]

BudgetKept ==
    /\ mayRead => left["delete"] = 0
    /\ left["loss"] > 0 => left["kill"] = 0 /\ left["clean"] = 0

\* No manifest that can be found lists a volume of which another attempt's is there.
AllDescribed ==
    /\ \A d \in Possible : \A m \in {d.file, d.legacy} : Live(m) => Describes(m)
    /\ published # None => Describes(published) /\ published \in ever
    /\ got # None => got \in ever

\* While a send runs there is no manifest at the destination, so no reader gets to the
\* cache, and nothing of an older version; what it recorded is at the destination.
SendAlone ==
    /\ wpc # "idle" => published = None /\ dir.legacy = None /\ \A i \in DOMAIN vols : object[i] = vols[i]
    /\ rpc \in Listed => published # None

\* What the cache holds where the send is: before an upload it lists no later volume, also
\* after a power loss.
CacheOfSend ==
    /\ wpc = "upload" => \A d \in Possible : d.legacy = None /\ d.file \in {None, Manifest(vols, FALSE)}
    /\ wpc = "uploadCached" => Live(dir.file) /\ dir.file.final
    /\ wpc = "discardSync" => dir.file = None
    /\ wpc = "saveSync" => dir.file = Manifest(vols, FALSE)
    /\ wpc = "finalSync" => dir.file = Manifest(vols, TRUE)
    /\ wpc = "publish" => \A d \in Possible : d.legacy = None /\ d.file = Manifest(vols, TRUE)

\* discardPartialManifests syncs only what it removed itself: an empty cache that it finds
\* is one no power loss fills again.
EmptyIsSynced ==
    /\ left["loss"] > 0 /\ wpc # "discardSync" /\ (published = None \/ left["delete"] > 0)
          /\ dir.file = None /\ dir.legacy = None => maybe = {dir}
    /\ left["loss"] > 0 /\ rpc = "drop" /\ dir.legacy # None => dir.file # None

\* Where readers may come, the cache of a published set has its manifest or none, ...
ReadersSafe ==
    mayRead /\ published # None =>
        /\ \A d \in Possible : d.file \in {None, Damaged, published} /\ d.legacy \in {None, published}
        /\ rpc = "rename" => hold = published

\* ... because a final manifest that --resume uploads from the cache is the only one there.
FinalIsSynced ==
    mayRead /\ published = None =>
        /\ \A d \in Possible :
             /\ Live(d.legacy) => ~d.legacy.final
             /\ Live(d.file) /\ d.file.final => d.legacy = None
             /\ d.legacy # Damaged
        /\ left["loss"] > 0 /\ Live(dir.file) /\ wpc # "finalSync" =>
             (dir.file.final => maybe = {dir})

Inv == /\ TypeOK /\ BudgetKept /\ AllDescribed /\ SendAlone /\ CacheOfSend /\ EmptyIsSynced
       /\ ReadersSafe /\ FinalIsSynced
=============================================================================
