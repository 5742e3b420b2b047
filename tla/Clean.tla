------------------------------- MODULE Clean -------------------------------
(***************************************************************************)
(* `zfsbackup clean` beside the sends of one host: it reads the manifests  *)
(* at the destination and in the cache, takes the lock of every dataset    *)
(* they name, reads again, and deletes the volumes no manifest lists.      *)
(*                                                                         *)
(* A backup set may be sent under this --manifestPrefix ("ours") and by    *)
(* another job under another one ("other"): the volumes of the two have    *)
(* the same names.  A manifest lists volumes 1..n and is that number n; 0  *)
(* is no manifest.  Every object here parses as a volume or a manifest,    *)
(* and no destination is nested below this one.                            *)
(***************************************************************************)
EXTENDS Naturals, FiniteSets

CONSTANTS
    Set,          \* backup sets
    Dataset, ds,  \* and the dataset of each
    OtherSets,    \* the sets another job sends under its prefix
    NumVolumes,
    Scenarios     \* [jobs, options, send, clean, damage, failure]: what is sent, the
                  \* options [force, local, dryRun] of clean, and bounds

VARIABLES
    objects,   \* objects[s]: the numbers of the volumes of s at the destination
    manifest,  \* manifest[p][s], at the destination
    cache,     \* cache[p][s], in the working directory
    lock,      \* lock[d]: "free", "send" or "clean"
    sender,    \* sender[d]: the send of d that runs, or NoSend
    broken,    \* history: <<p, s>> that lost a volume, not to clean
    cpc, opt, round, locked, busy,     \* a clean
    view,      \* what it read: [ours, other, objects, content, localOnly]
    deletes, localDeletes,
    left       \* the scenario, and how often each of its steps may still happen

sends == <<manifest, sender, broken>>
vars == <<objects, manifest, cache, lock, sender, broken, cpc, opt, round, locked, busy, view,
          deletes, localDeletes, left>>
Prefix == {"ours", "other"}
Num == 1..NumVolumes
Jobs == {j \in Prefix \X Set : j[1] = "ours" \/ j[2] \in OtherSets}
Options == [force : BOOLEAN, local : BOOLEAN, dryRun : BOOLEAN]
ScenarioType == [jobs : SUBSET Jobs, options : SUBSET Options,
                 send : Nat, clean : Nat, damage : Nat, failure : Nat]

ASSUME CleanAssumption ==
    /\ ds \in [Set -> Dataset] /\ OtherSets \subseteq Set
    /\ NumVolumes \in Nat \ {0}
    /\ Scenarios \subseteq ScenarioType

NoSend == [set |-> "none"]
NoView == [ours |-> {}, other |-> {}, objects |-> [s \in Set |-> {}],
           content |-> [j \in Jobs |-> 0], localOnly |-> {}]
Count(what) == left[what] > 0 /\ left' = [left EXCEPT ![what] = @ - 1]

\* A set another job may send: this job may have sent it, and then the other one, from
\* another host, so that nothing of it is cached here.
Before(n) == [j \in Jobs |-> IF <<"other", j[2]>> \in left.jobs THEN n[j[1]] ELSE 0]
Init ==
    /\ left \in Scenarios
    /\ \E n \in [Prefix -> {0, 1, NumVolumes}] :
          /\ manifest = Before(n)
          /\ cache = [j \in Jobs |-> IF j[1] = "ours" THEN Before(n)[j] ELSE 0]
          /\ objects = [s \in Set |-> UNION {1..Before(n)[j] : j \in {k \in Jobs : k[2] = s}}]
    /\ lock = [d \in Dataset |-> "free"] /\ sender = [d \in Dataset |-> NoSend]
    /\ broken = {}
    /\ cpc = "idle" /\ opt \in left.options /\ round = 0 /\ locked = {} /\ busy = {}
    /\ view = NoView /\ deletes = {} /\ localDeletes = {}

-----------------------------------------------------------------------------
(* Sends on this host (BackupSet has their detail).                        *)

clean == <<cpc, opt, round, locked, busy, view, deletes, localDeletes>>

\* Up to tryResume or discardPartialManifests, which forget what was not uploaded.
StartSend(j, resume) ==
    LET d == ds[j[2]]
        kept == IF resume /\ 1..cache[j] \subseteq objects[j[2]] THEN cache[j] ELSE 0
    IN /\ j \in left.jobs /\ lock[d] = "free" /\ manifest[j] = 0 /\ Count("send")
       /\ lock' = [lock EXCEPT ![d] = "send"]
       /\ sender' = [sender EXCEPT ![d] = [set |-> j, sent |-> kept]]
       /\ cache' = [cache EXCEPT ![j] = kept]
       /\ broken' = broken \ {j}
       /\ UNCHANGED <<objects, manifest, clean>>

Upload(d) ==
    LET w == sender[d] IN
    /\ w # NoSend /\ w.sent = cache[w.set] /\ w.sent < NumVolumes
    /\ objects' = [objects EXCEPT ![w.set[2]] = @ \cup {w.sent + 1}]
    /\ sender' = [sender EXCEPT ![d].sent = @ + 1]
    /\ UNCHANGED <<manifest, cache, lock, broken, clean, left>>

Save(d) ==
    LET w == sender[d] IN
    /\ w # NoSend /\ w.sent > cache[w.set]
    /\ cache' = [cache EXCEPT ![w.set] = w.sent]
    /\ UNCHANGED <<objects, sends, lock, clean, left>>

EndSend(d) ==
    /\ lock' = [lock EXCEPT ![d] = "free"]
    /\ sender' = [sender EXCEPT ![d] = NoSend]
    /\ UNCHANGED <<objects, cache, broken, clean>>

Publish(d) ==
    LET w == sender[d] IN
    /\ w # NoSend /\ w.sent = cache[w.set] /\ w.sent > 0
    /\ manifest' = [manifest EXCEPT ![w.set] = w.sent]
    /\ EndSend(d) /\ UNCHANGED left

\* An error, or a kill: the lock of a dead owner does not count.
StopSend(d) ==
    /\ sender[d] # NoSend /\ Count("failure")
    /\ EndSend(d) /\ UNCHANGED manifest

\* A volume is lost at the destination: every manifest and cache that lists it is broken.
Damage(s, i) ==
    /\ Count("damage") /\ i \in objects[s] /\ lock[ds[s]] = "free"
    /\ objects' = [objects EXCEPT ![s] = @ \ {i}]
    /\ broken' = broken \cup {j \in Jobs : j[2] = s /\ (manifest[j] >= i \/ cache[j] >= i)}
    /\ UNCHANGED <<manifest, cache, lock, sender, clean>>

-----------------------------------------------------------------------------
(* clean reads.                                                            *)

StartClean ==
    /\ cpc = "idle" /\ Count("clean")
    /\ cpc' = "sync" /\ round' = 1
    /\ UNCHANGED <<objects, cache, sends, lock, opt, locked, busy, view, deletes, localDeletes>>

\* syncCache: the manifests under our prefix, downloaded when they are not cached, and
\* the cached ones that are not among them.
Sync ==
    LET ours == {s \in Set : manifest[<<"ours", s>>] > 0} IN
    /\ cpc = "sync" /\ cpc' = "list"
    /\ cache' = [j \in Jobs |-> IF j[1] = "ours" /\ j[2] \in ours /\ cache[j] = 0 THEN manifest[j]
                                ELSE cache[j]]
    /\ view' = [NoView EXCEPT !.ours = ours,
                !.localOnly = {j \in Jobs : cache'[j] > 0 /\ ~(j[1] = "ours" /\ j[2] \in ours)}]
    /\ UNCHANGED <<objects, sends, lock, opt, round, locked, busy, deletes, localDeletes, left>>

\* backend.List of everything; the names of other manifests tell which sets they are for.
ListObjects ==
    /\ cpc = "list" /\ cpc' = "decode"
    /\ view' = [view EXCEPT !.objects = objects,
                            !.other = {s \in OtherSets : manifest[<<"other", s>>] > 0}]
    /\ UNCHANGED <<objects, cache, sends, lock, opt, round, locked, busy, deletes, localDeletes, left>>

ReleaseLocks == lock' = [d \in Dataset |-> IF d \in locked THEN "free" ELSE lock[d]]
EndClean ==
    /\ cpc' = "idle" /\ round' = 0 /\ locked' = {} /\ busy' = {} /\ view' = NoView
    /\ deletes' = {} /\ localDeletes' = {}
    /\ ReleaseLocks

\* The datasets of every manifest; not of another job's.
datasets(v) == {ds[s] : s \in v.ours} \cup {ds[j[2]] : j \in {k \in v.localOnly : k[1] = "ours"}}

\* Read the manifests, lock the datasets that are new in this read, and read again.  A
\* cached manifest that a send has discarded by now stops the run.
MutantOneRead(new) == FALSE
ReadsAgain(new) == new # {}

Decode ==
    LET known == [view EXCEPT !.content = [j \in Jobs |-> cache[j]]]
        new   == datasets(known) \ (locked \cup busy)
        free  == {d \in new : lock[d] = "free"}
    IN /\ cpc = "decode"
       /\ IF \/ \E j \in view.localOnly : cache[j] = 0
             \/ new # {} /\ round = 3
          THEN EndClean
          ELSE /\ view' = known
               /\ lock' = [d \in Dataset |-> IF d \in free THEN "clean" ELSE lock[d]]
               /\ locked' = locked \cup free /\ busy' = busy \cup (new \ free)
               /\ cpc' = IF ReadsAgain(new) THEN "sync" ELSE "judge"
               /\ round' = IF ReadsAgain(new) THEN round + 1 ELSE round
               /\ UNCHANGED <<deletes, localDeletes>>
       /\ UNCHANGED <<objects, cache, sends, opt, left>>

-----------------------------------------------------------------------------
(* clean decides.                                                          *)

Lists(j, s, i) == j[2] = s /\ view.content[j] >= i
AtDestination == {<<"ours", s>> : s \in view.ours}

\* The cached manifests --cleanLocal deletes; the others are live.
MutantBusyDropped == {j \in view.localOnly : opt.local /\ j[1] = "ours"}
DropLocal == {j \in view.localOnly : opt.local /\ j[1] = "ours" /\ ds[j[2]] \notin busy}
decodedManifests == AtDestination \cup (view.localOnly \ DropLocal)

named(s, i) == \E j \in decodedManifests : Lists(j, s, i)

MutantOtherJudged(s, i) == i \in view.objects[s] /\ ds[s] \in datasets(view) \ busy
MutantBusyJudged(s, i) ==
    i \in view.objects[s] /\ ds[s] \in datasets(view) /\ (s \in view.other => named(s, i))
candidate(s, i) ==
    /\ i \in view.objects[s]
    /\ ds[s] \in datasets(view)
    /\ s \in view.other => named(s, i)
    /\ ds[s] \notin busy

\* The broken sets at the destination that --force deletes.
Missing(j) == \E i \in 1..view.content[j] : i \notin view.objects[j[2]]
Forced == {j \in AtDestination : opt.force /\ ds[j[2]] \notin busy /\ Missing(j)}
keep(s, i) == \E j \in decodedManifests \ Forced : ds[j[2]] \notin busy /\ Lists(j, s, i)

Volumes == Set \X Num
RefuseClean == view.ours = {} /\ (view.other # {} \/ \E s \in Set : view.objects[s] # {})

\* Volumes are <<s, i>>; the manifest of a forced set is <<s, 0>>.
Judge ==
    /\ cpc = "judge"
    /\ IF RefuseClean \/ opt.dryRun THEN EndClean
       ELSE /\ deletes' = {v \in Volumes : candidate(v[1], v[2]) /\ ~keep(v[1], v[2])}
                             \cup {<<j[2], 0>> : j \in Forced}
            /\ localDeletes' = DropLocal \cup Forced
            /\ cpc' = "delete"
            /\ UNCHANGED <<lock, round, locked, busy, view>>
    /\ UNCHANGED <<objects, cache, sends, opt, left>>

-----------------------------------------------------------------------------
(* clean deletes: five workers, so in any order; then the local manifests. *)

Delete(v) ==
    /\ cpc = "delete" /\ v \in deletes
    /\ deletes' = deletes \ {v}
    /\ IF v[2] = 0 THEN manifest' = [manifest EXCEPT ![<<"ours", v[1]>>] = 0] /\ UNCHANGED objects
       ELSE objects' = [objects EXCEPT ![v[1]] = @ \ {v[2]}] /\ UNCHANGED manifest
    /\ UNCHANGED <<cache, lock, sender, broken, cpc, opt, round, locked, busy, view, localDeletes, left>>

AllDeleted == cpc = "delete" /\ deletes = {}

DeleteLocal(j) ==
    /\ AllDeleted /\ j \in localDeletes
    /\ cache' = [cache EXCEPT ![j] = 0]
    /\ localDeletes' = localDeletes \ {j}
    /\ UNCHANGED <<objects, sends, lock, cpc, opt, round, locked, busy, view, deletes, left>>

Done ==
    /\ AllDeleted /\ localDeletes = {}
    /\ EndClean /\ UNCHANGED <<objects, cache, sends, opt, left>>

\* An error, a signal or a kill, anywhere.
StopClean ==
    /\ cpc # "idle" /\ Count("failure")
    /\ EndClean /\ UNCHANGED <<objects, cache, sends, opt>>

Next ==
    \/ \E j \in Jobs, resume \in BOOLEAN : StartSend(j, resume)
    \/ \E d \in Dataset : Upload(d) \/ Save(d) \/ Publish(d) \/ StopSend(d)
    \/ \E s \in Set, i \in Num : Damage(s, i)
    \/ StartClean \/ Sync \/ ListObjects \/ Decode \/ Judge
    \/ \E v \in deletes : Delete(v)
    \/ \E j \in localDeletes : DeleteLocal(j)
    \/ Done \/ StopClean

Spec == Init /\ [][Next]_vars

-----------------------------------------------------------------------------
(* Properties.                                                             *)

\* The manifests a send published, of this job or another, keep every volume they list,
\* whatever clean was told to do and whichever sends ran between its two reads.
PublishedStaysWhole ==
    \A j \in Jobs \ broken : 1..manifest[j] \subseteq objects[j[2]]

\* What a running or an interrupted send has uploaded stays: its cached manifest is what
\* --resume continues from, and only --cleanLocal may take it, from this job.
UnfinishedStaysResumable ==
    /\ \A d \in Dataset : sender[d] # NoSend =>
          1..sender[d].sent \subseteq objects[sender[d].set[2]]
    /\ \A j \in Jobs \ broken : ~opt.local \/ j[1] = "other" => 1..cache[j] \subseteq objects[j[2]]

\* "a local manifest is how a later clean finds volumes a failed delete left behind":
\* clean removes a cached manifest only when no volume that only it listed is left.
LocalManifestLast ==
    [][\A j \in localDeletes \ localDeletes' : \A i \in 1..cache[j] :
         cpc' # "idle" => i \notin objects[j[2]] \/ keep(j[2], i) \/ j[2] \in view.other]_vars

\* A clean that reports success has left no volume of a dataset it judged that no manifest
\* lists, at the destination under any prefix or in the cache.
CleanIsThorough ==
    AllDeleted /\ localDeletes = {} =>
        \A s \in Set : ds[s] \in locked \cap datasets(view) =>
            \A i \in objects[s] : \E j \in Jobs :
               j[2] = s /\ (manifest[j] >= i \/ cache[j] >= i \/ (j[1] = "other" /\ manifest[j] > 0))

-----------------------------------------------------------------------------
(* The inductive invariant of CleanProofs.                                 *)

Reading == {"list", "decode", "judge"}
ViewType == [ours : SUBSET Set, other : SUBSET OtherSets, objects : [Set -> SUBSET Num],
             content : [Jobs -> Nat], localOnly : SUBSET Jobs]

TypeOK ==
    /\ objects \in [Set -> SUBSET Num]
    /\ manifest \in [Jobs -> Nat] /\ cache \in [Jobs -> Nat]
    /\ lock \in [Dataset -> {"free", "send", "clean"}]
    /\ sender \in [Dataset -> [set : Jobs, sent : Nat] \cup {NoSend}]
    /\ broken \subseteq Jobs
    /\ cpc \in {"idle", "sync", "delete"} \cup Reading /\ opt \in Options
    /\ locked \subseteq Dataset /\ busy \subseteq Dataset
    /\ view \in ViewType
    /\ deletes \subseteq Set \X (Num \cup {0}) /\ localDeletes \subseteq Jobs
    /\ left \in ScenarioType

\* --force deletes a broken set of this job with the volumes it lists; a manifest of
\* another job for the same set, which this host knows by its name only, does not save them.
Sparing == opt.force => \A j \in left.jobs : j[1] = "ours"

\* A send has its dataset's lock, no manifest yet, and what it sent at the destination.
SendsLocked ==
    \A d \in Dataset : sender[d] # NoSend =>
        /\ lock[d] = "send" /\ ds[sender[d].set[2]] = d
        /\ sender[d].set \in left.jobs /\ manifest[sender[d].set] = 0
        /\ 1..sender[d].sent \subseteq objects[sender[d].set[2]]

\* clean holds the locks of the datasets it judges, and those only while it runs.
CleanLocked ==
    /\ \A d \in locked : lock[d] = "clean" /\ d \notin busy
    /\ cpc = "idle" => locked = {}
    /\ cpc # "delete" => deletes = {} /\ localDeletes = {}

\* A cached manifest of a published set is the published one.
CacheAgrees == \A j \in Jobs : manifest[j] > 0 /\ cache[j] > 0 => cache[j] = manifest[j]

\* PublishedStaysWhole: of this job always, of another one under Sparing.
OursWhole == \A j \in Jobs \ broken : j[1] = "ours" => 1..manifest[j] \subseteq objects[j[2]]
OthersWhole ==
    Sparing => \A j \in Jobs : j[1] = "other" =>
                 /\ j \notin broken => 1..manifest[j] \subseteq objects[j[2]]
                 /\ opt.force => manifest[j] = 0
CachedWhole ==
    \A j \in Jobs \ broken : ~opt.local \/ j[1] = "other" => 1..cache[j] \subseteq objects[j[2]]

\* What clean read of the datasets it had locked before is how things are: the manifests, ...
ManifestsRead ==
    cpc \in Reading =>
        /\ \A s \in Set : ds[s] \in locked =>
             /\ s \in view.ours <=> manifest[<<"ours", s>>] > 0
             /\ s \in view.ours => cache[<<"ours", s>>] = manifest[<<"ours", s>>]
        /\ \A j \in Jobs : ds[j[2]] \in locked /\ cache[j] > 0 =>
             j \in view.localOnly \/ (j[1] = "ours" /\ j[2] \in view.ours)
        /\ \A s \in view.ours : <<"ours", s>> \notin view.localOnly

\* ... the objects, and the volumes the manifests list.
ObjectsRead ==
    cpc \in {"decode", "judge"} => \A s \in Set : ds[s] \in locked =>
        /\ view.objects[s] = objects[s]
        /\ \A j \in Jobs : j = <<"other", s>> => (s \in view.other <=> manifest[j] > 0)
ContentsRead ==
    cpc = "judge" =>
        /\ datasets(view) \subseteq locked \cup busy
        /\ \A j \in Jobs : ds[j[2]] \in locked => view.content[j] = cache[j]

\* What it will delete is locked, and no whole set lists it.
DeletesUnlisted ==
    cpc = "delete" => \A v \in deletes :
        /\ ds[v[1]] \in locked
        /\ v[2] # 0 => \A j \in Jobs \ broken : j[2] = v[1] =>
             /\ j[1] = "ours" \/ Sparing => manifest[j] < v[2]
             /\ ~opt.local \/ j[1] = "other" => cache[j] < v[2]

\* What it will not delete is kept by a manifest that stays, or belongs to another job.
DeletesTheRest ==
    cpc = "delete" =>
        /\ \A s \in Set : ds[s] \in locked \cap datasets(view) =>
             \A i \in objects[s] : <<s, i>> \in deletes \/ keep(s, i) \/ s \in view.other
        /\ \A s \in view.other : ds[s] \in locked => manifest[<<"other", s>>] > 0
        /\ \A j \in decodedManifests \ Forced : ds[j[2]] \in locked => cache[j] = view.content[j]
        /\ localDeletes \subseteq DropLocal \cup Forced
        /\ DropLocal \cap AtDestination = {}
        /\ datasets(view) \subseteq locked \cup busy

Inv == /\ TypeOK /\ SendsLocked /\ CleanLocked /\ CacheAgrees
       /\ OursWhole /\ OthersWhole /\ CachedWhole
       /\ ManifestsRead /\ ObjectsRead /\ ContentsRead /\ DeletesUnlisted /\ DeletesTheRest
=============================================================================
