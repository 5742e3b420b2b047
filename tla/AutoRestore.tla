---------------------------- MODULE AutoRestore ----------------------------
(***************************************************************************)
(* `zfsbackup receive`, explicit and --auto, up to the zfs receive of each *)
(* step: the walk along the parent links of the manifests at the           *)
(* destination, the checks of what -F (--force) would destroy, and the     *)
(* receives of the chain, oldest first.  Manifests may be missing, mixed   *)
(* or in a loop, the target may hold other snapshots, and its snapshots    *)
(* may change while the chain is received.                                 *)
(*                                                                         *)
(* A snapshot is [guid, name, time]: two with one name and time still      *)
(* differ by guid.  The target's snapshots are a sequence in zfs's own     *)
(* order, oldest first; times have one-second steps, so two in the order   *)
(* may have the same time.  Nothing in a listing tells their order.        *)
(* A manifest of an older version does not record its snapshot's guid.     *)
(***************************************************************************)
EXTENDS Integers, Sequences, SequencesExt, FiniteSets, FiniteSetsExt

CONSTANTS
    Archives,    \* sets of manifests [base, source, raw, repl, recorded]: the destination has a part of one
    LocalSnaps,  \* snapshots the target may hold at first,
    MaxLocal,    \* bound: and how many of them
    Taken,       \* snapshots taken of the target while the restore runs
    Wanted,      \* names asked for; "" is the latest
    Options,     \* [auto, force, allowDestroy, origin]
    NoSnapshot, NoBackup,
    MaxErrors    \* bound: listings or receives that fail for other reasons

Backups == UNION Archives
Snapshot == [guid : Nat \ {0}, name : STRING, time : Int]
Bases == {b.base : b \in Backups}
Sent == Bases \cup ({b.source : b \in Backups} \ {NoSnapshot})
Known == LocalSnaps \cup Taken \cup Sent

\* A guid is of one snapshot, and one that is taken of the target is nowhere else.
ASSUME RestoreAssumption ==
    /\ Backups \subseteq [base : Snapshot, source : Snapshot \cup {NoSnapshot},
                          raw : BOOLEAN, repl : BOOLEAN, recorded : BOOLEAN]
    /\ IsFiniteSet(Backups) /\ NoBackup \notin Backups /\ NoSnapshot \notin Snapshot
    /\ \A b \in Backups : b.source = NoSnapshot \/ b.source.name # ""
    /\ LocalSnaps \cup Taken \subseteq Snapshot /\ Taken \cap (LocalSnaps \cup Sent) = {}
    /\ \A s, t \in Known : s.guid = t.guid => s = t
    /\ Options \subseteq [auto : BOOLEAN, force : BOOLEAN, allowDestroy : BOOLEAN, origin : Snapshot \cup {NoSnapshot}]
    /\ MaxLocal \in Nat

VARIABLES
    archive,   \* the manifests at the destination
    local,     \* the target's snapshots, oldest first
    exists,    \* the target dataset exists
    below,     \* there is a dataset below the target
    want, opt, \* the command line
    pc,        \* "start", "walk", "check", "receive", "done" or "failed"
    listed,    \* the snapshots of the target as the run listed them first
    seen,      \* what that listing showed: "there", "missing" or "error"
    job,       \* the backup the walk is at
    chain,     \* the backups to receive, newest first, then what is left of them
    received,  \* the snapshots this run received
    lost,      \* what zfs destroyed of the target, but for what this run received
    errors

vars == <<archive, local, exists, below, want, opt, pc, listed, seen, job, chain, received, lost, errors>>
world == <<archive, want, opt>>
target == <<local, exists, below, received, lost>>

\* The data of a target without snapshots, and the datasets below it, as things to lose.
AllData == [guid |-> 0, name |-> "data", time |-> 0]
Children == [guid |-> 0, name |-> "below", time |-> 0]

IsFull(b) == b.source = NoSnapshot
Same(s, t) == s.name = t.name /\ s.time = t.time
Sorted(s) == \A i, j \in DOMAIN s : i < j => s[i].time <= s[j].time /\ s[i].name # s[j].name
Targets == {s \in UNION {[1..n -> LocalSnaps] : n \in 0..MaxLocal} : Sorted(s)}

\* A manifest is stored under the names of its snapshots.
NamedAs(b) == <<b.base.name, IF IsFull(b) THEN "" ELSE b.source.name>>

Init ==
    /\ archive \in {a \in UNION {SUBSET x : x \in Archives} :
                     \A b, c \in a : NamedAs(b) = NamedAs(c) => b = c}
    /\ local \in Targets
    /\ exists \in (IF local = <<>> THEN BOOLEAN ELSE {TRUE})
    /\ below \in (IF exists THEN BOOLEAN ELSE {FALSE})
    /\ want \in Wanted
    /\ opt \in Options
    /\ pc = "start" /\ listed = <<>> /\ seen = "there"
    /\ job = NoBackup /\ chain = <<>>
    /\ received = {} /\ lost = {} /\ errors = 0

Fail == /\ pc' = "failed"
        /\ UNCHANGED <<world, target, listed, seen, job, chain, errors>>

-----------------------------------------------------------------------------
(* The manifests and the chain.                                            *)

\* linkManifests: the backup of the source, a full before an incremental.
parentSnap(b) ==
    LET of == {p \in archive : Same(p.base, b.source)}
    IN IF IsFull(b) \/ of = {} THEN NoBackup
       ELSE IF \E p \in of : IsFull(p) THEN CHOOSE p \in of : IsFull(p) ELSE CHOOSE p \in of : TRUE

\* validateSnapShotExistsFromSnaps, without bookmarks.
isIn(s, snaps) == \E t \in ToSet(snaps) : Same(s, t)

\* The last entry of readAndSortManifests: the newest base, of one base the full.
latest ==
    CHOOSE b \in archive : \A x \in archive :
        \/ x.base.time < b.base.time
        \/ x.base.time = b.base.time /\ (IsFull(b) \/ ~IsFull(x))

\* The latest is asked for by its name.
NameAsked == IF want = "" THEN latest.base.name ELSE want
Asked(b) == b.base.name = NameAsked

sourcesOf(snaps) == IF opt.origin = NoSnapshot THEN snaps ELSE Append(snaps, opt.origin)

\* Does the chain of b reach a snapshot in snaps?  seen ends a loop of links.
ReachesLocal(b, snaps) ==
    LET Reaches[p \in Backups, visited \in SUBSET Backups] ==
            \/ isIn(p.base, snaps)
            \/ /\ ~IsFull(p)
               /\ \/ isIn(p.source, snaps)
                  \/ /\ parentSnap(p) # NoBackup /\ parentSnap(p) \notin visited
                     /\ Reaches[parentSnap(p), visited \cup {parentSnap(p)}]
    IN Reaches[b, {b}]

backupThatApplies(matches, snaps) ==
    LET reach == {b \in matches : ReachesLocal(b, snaps)}
        fulls == {b \in matches : IsFull(b)}
    IN IF reach # {} THEN CHOOSE b \in reach : TRUE
       ELSE IF fulls # {} THEN CHOOSE b \in fulls : TRUE
       ELSE CHOOSE b \in matches : TRUE

\* What a listing of the target shows: a failed one shows no snapshots.
Listing(how) == IF how = "there" THEN local ELSE <<>>
Listable(how) == how = (IF exists THEN "there" ELSE "missing") \/ (how = "error" /\ errors < MaxErrors)
Counted(how) == errors' = IF how = "error" THEN errors + 1 ELSE errors

\* Read the manifests, list the target and choose the backup to restore.  A listing
\* that fails, for whatever reason, shows no snapshots.
Start(how) ==
    LET snaps == Listing(how)
        matches == {b \in archive : Asked(b)}
    IN /\ pc = "start" /\ opt.auto
       /\ Listable(how)
       /\ IF archive = {} \/ matches = {} THEN Fail
          ELSE /\ job' = backupThatApplies(matches, sourcesOf(snaps))
               /\ pc' = "walk"
               /\ listed' = snaps /\ seen' = how
               /\ Counted(how)
               /\ UNCHANGED <<world, target, chain>>

\* An explicit receive names one backup.
StartExplicit(b) ==
    /\ pc = "start" /\ ~opt.auto
    /\ IF b \notin archive THEN Fail
       ELSE /\ chain' = <<b>> /\ job' = b
            /\ pc' = "receive"
            /\ UNCHANGED <<world, target, listed, seen, errors>>

\* refuseOtherGUID asks zfs for the guid of the target's snapshot of that name, when the
\* manifest records the backup's.
MutantGUIDIgnored(b) == FALSE
GUIDDiffers(b) == b.recorded /\ \E t \in ToSet(local) : t.name = b.base.name /\ t.guid # b.base.guid

\* One round of the walk: the chain grows until its base or its source is here.
MutantLoopUnseen(b) == FALSE
InChain(b) == b \in ToSet(chain)

\* Capped at a length that no chain without repetitions exceeds.
Longer(b) == IF Len(chain) <= Cardinality(Backups) THEN Append(chain, b) ELSE chain

Walk ==
    /\ pc = "walk"
    /\ IF isIn(job.base, listed)
       THEN IF GUIDDiffers(job) THEN Fail
            ELSE pc' = "check" /\ UNCHANGED <<world, target, listed, seen, job, chain, errors>>
       ELSE IF InChain(job) THEN Fail
       ELSE LET stop == IsFull(job) \/ isIn(job.source, sourcesOf(listed))
                parent == parentSnap(job)
            IN IF ~stop /\ (parent = NoBackup \/ parent.raw # job.raw) THEN Fail
               ELSE /\ chain' = Longer(job)
                    /\ IF stop THEN pc' = "check" /\ UNCHANGED job
                               ELSE job' = parent /\ UNCHANGED pc
                    /\ UNCHANGED <<world, target, listed, seen, errors>>

-----------------------------------------------------------------------------
(* What -F would destroy.                                                  *)

\* Other snapshots newer than the source, or of its second, which may be newer.
MutantTiesIgnored(snaps, source) == \E s \in ToSet(snaps) : s.time > source.time
snapshotsNotOlder(snaps, source) ==
    \E s \in ToSet(snaps) : s.name # source.name /\ s.time >= source.time

\* What an incremental --replication stream may destroy: everything it did not bring.
replicationLoss(snaps, source) ==
    \/ exists /\ below
    \/ /\ source # NoSnapshot
       /\ \E s \in ToSet(snaps) : s.name # source.name /\ s.time < source.time

\* todo: the backups to receive, newest first.
refuseDestroy(todo, snaps, there) ==
    LET source == Last(todo).source
    IN /\ opt.force /\ ~opt.allowDestroy /\ todo # <<>>
       /\ \/ source = NoSnapshot /\ there /\ snaps = <<>>
          \/ source # NoSnapshot /\ snapshotsNotOlder(snaps, source)
          \/ /\ \E b \in ToSet(todo) : b.repl /\ ~IsFull(b)
             /\ replicationLoss(snaps, source)

refuseUnlistedTarget(how) == opt.force /\ ~opt.allowDestroy /\ how = "error"

\* Before the first receive of --auto, for the whole chain.
CheckChain ==
    /\ pc = "check"
    /\ IF refuseUnlistedTarget(seen) \/ refuseDestroy(chain, listed, seen = "there") THEN Fail
       ELSE /\ pc' = "receive"
            /\ UNCHANGED <<world, target, listed, seen, job, chain, errors>>

-----------------------------------------------------------------------------
(* zfs receive (external), as its manual describes it.                     *)

\* Position of the source of b in the target.
sourceAt(b) == SelectInSeq(local, LAMBDA s : s.guid = b.source.guid)
Clones(b) == ~exists /\ received = {} /\ opt.origin # NoSnapshot /\ opt.origin.guid = b.source.guid

\* Will zfs take the stream?
Applies(b) ==
    IF IsFull(b) THEN ~exists \/ (local = <<>> /\ opt.force)
    ELSE \/ Clones(b)
         \/ /\ sourceAt(b) > 0
            /\ opt.force \/ sourceAt(b) = Len(local)
            /\ ~\E i \in 1..sourceAt(b) : local[i].name = b.base.name

zfsReceiveNew(b) ==
    /\ local' = <<b.base>> /\ exists' = TRUE
    /\ lost' = IF exists THEN lost \cup {AllData} ELSE lost
    /\ UNCHANGED below

\* What stays of the target, in its order, and the new snapshot.
zfsReceiveIncremental(b) ==
    LET i == sourceAt(b)
        destroys == b.repl /\ opt.force
    IN \E stay \in SUBSET (1..i) : \E order \in [1..Cardinality(stay) -> stay] :
          /\ i \in stay /\ (destroys \/ stay = 1..i)
          /\ \A x, y \in DOMAIN order : x < y => order[x] < order[y]
          /\ local' = Append([x \in DOMAIN order |-> local[order[x]]], b.base)
          /\ below' \in (IF destroys THEN {FALSE, below} ELSE {below})
          /\ lost' = lost \cup ({local[j] : j \in DOMAIN local \ stay} \ received)
                          \cup (IF below # below' THEN {Children} ELSE {})
          /\ UNCHANGED exists

zfsReceive(b) == IF IsFull(b) \/ Clones(b) THEN zfsReceiveNew(b) ELSE zfsReceiveIncremental(b)

-----------------------------------------------------------------------------
(* One step of the chain (receive), from a listing of its own.             *)

\* A local snapshot with the backup's name and another time.
localSnapshotMismatch(b, snaps) ==
    \E t \in ToSet(snaps) : t.name = b.base.name /\ t.time # b.base.time

Held(b, snaps) == isIn(b.base, snaps)

Refused(b, how) ==
    LET snaps   == Listing(how)
        sources == IF received = {} THEN sourcesOf(snaps) ELSE snaps
    IN IF Held(b, snaps) THEN GUIDDiffers(b)
       ELSE \/ localSnapshotMismatch(b, snaps)
            \/ ~IsFull(b) /\ ~isIn(b.source, sources)
            \/ ~opt.auto /\ (refuseUnlistedTarget(how) \/ refuseDestroy(<<b>>, snaps, how = "there"))

Stepping(how) == pc = "receive" /\ chain # <<>> /\ Listable(how) /\ Counted(how)

AlreadyThere(how) ==
    /\ Stepping(how)
    /\ Held(Last(chain), Listing(how)) /\ ~Refused(Last(chain), how)
    /\ chain' = Front(chain)
    /\ UNCHANGED <<world, target, listed, seen, job, pc>>

\* The stream is downloaded and zfs receive applies it, or refuses it.
Receive(how) ==
    /\ Stepping(how)
    /\ ~Held(Last(chain), Listing(how)) /\ ~Refused(Last(chain), how)
    /\ IF Applies(Last(chain))
       THEN /\ zfsReceive(Last(chain))
            /\ received' = received \cup {Last(chain).base}
            /\ chain' = Front(chain)
            /\ UNCHANGED <<world, listed, seen, job, pc>>
       ELSE /\ pc' = "failed"
            /\ UNCHANGED <<world, target, listed, seen, job, chain>>

RefuseStep(how) ==
    /\ Stepping(how)
    /\ Refused(Last(chain), how)
    /\ pc' = "failed"
    /\ UNCHANGED <<world, target, listed, seen, job, chain>>

\* A guid, a listing, a download or zfs itself fails; the steps before stay.
Interrupted ==
    /\ pc \in {"walk", "check", "receive"} /\ errors < MaxErrors
    /\ pc' = "failed" /\ errors' = errors + 1
    /\ UNCHANGED <<world, target, listed, seen, job, chain>>

Finish == pc = "receive" /\ chain = <<>> /\ pc' = "done"
          /\ UNCHANGED <<world, target, listed, seen, job, chain, errors>>

\* Somebody snapshots the target.
SnapshotTarget(s) ==
    /\ exists /\ s \notin ToSet(local) \cup lost /\ pc \notin {"done", "failed"}
    /\ \A t \in ToSet(local) : t.name # s.name /\ t.time <= s.time
    /\ local' = Append(local, s)
    /\ UNCHANGED <<world, exists, below, received, lost, listed, seen, job, chain, pc, errors>>

Terminated == pc \in {"done", "failed"} /\ UNCHANGED vars

Step ==
    \/ \E how \in {"there", "missing", "error"} :
          Start(how) \/ AlreadyThere(how) \/ Receive(how) \/ RefuseStep(how)
    \/ \E b \in Backups : StartExplicit(b)
    \/ Walk \/ CheckChain \/ Finish

Next == Step \/ Interrupted \/ (\E s \in Taken : SnapshotTarget(s)) \/ Terminated

Spec == Init /\ [][Next]_vars
FairSpec == Spec /\ WF_vars(Step)

-----------------------------------------------------------------------------
(* Properties.                                                             *)

\* What the target may have had when the restore began: snapshots, data without any,
\* datasets below it.
Original == LocalSnaps \cup {AllData, Children}

\* No receive destroys anything the target had when the restore began without
\* --allowDestroy, though --auto checks only once, before the first receive, and sees times
\* and not zfs's order.  One thing is not checked for: a later --replication step of the
\* chain may destroy the snapshot that the chain started from.
SourceOfChain(x) == x = job.source /\ Last(chain) # job /\ Last(chain).repl
Spared == \A x \in (lost' \ lost) \cap Original : opt.allowDestroy \/ SourceOfChain(x)
DestroysOnlyAsked == [][Spared]_vars

\* "When zfs would destroy more, `receive` refuses unless you also give --allowDestroy"
\* (README.md:201): in the whole chain, of what the target had when the restore began ...
NothingDestroyedUnasked == lost \cap Original # {} => opt.allowDestroy
\* ... and of the snapshots taken of it since, newer than the source (README.md:204).
TakenStay == lost \cap Taken # {} => opt.allowDestroy

\* "receive --auto -F checks the whole chain before its first receive, so a refusal never
\* leaves a part of the chain restored" (README.md:207).
RefusalsComeFirst ==
    [][opt.auto /\ opt.force /\ (\E how \in {"there", "missing"} : RefuseStep(how)) => received = {}]_vars

\* A restore that reports success has put the snapshot of a backup asked for on the target:
\* the very snapshot, not one with its name or with its name and time, unless the manifest
\* does not record which it is.
Restored(b) == \E t \in ToSet(local) : IF b.recorded THEN t = b.base ELSE Same(t, b.base)
RestoredIsAsked ==
    (pc = "done" /\ opt.auto) => \E b \in archive : Asked(b) /\ Restored(b)

\* "Restore to the latest snapshot available for the volume provided if no snapshot was
\* provided" (restore.go:101).
LatestIsRestored == (pc = "done" /\ opt.auto /\ want = "") => isIn(latest.base, local)

\* The walk along the parent links ends, whatever manifests the destination holds:
\* every restore is done or refused.
RestoreEnds == <>(pc \in {"done", "failed"})

-----------------------------------------------------------------------------
(* The inductive invariant of AutoRestoreProofs.                           *)

Running == {"walk", "check", "receive"}

TypeOK ==
    /\ archive \subseteq Backups /\ opt \in Options
    /\ local \in Seq(Known) /\ exists \in BOOLEAN /\ below \in BOOLEAN
    /\ pc \in Running \cup {"start", "done", "failed"}
    /\ listed \in Seq(Known) /\ seen \in {"there", "missing", "error"}
    /\ job \in Backups \cup {NoBackup} /\ chain \in Seq(Backups)
    /\ received \subseteq Bases

\* zfs keeps the names of a dataset's snapshots apart, and their times in order while all
\* of them were taken here: a received one may bring any time.
TargetSound ==
    /\ (local # <<>> \/ below) => exists
    /\ \A i, j \in DOMAIN local : local[i].name = local[j].name => i = j
    /\ received = {} => Sorted(local)
    /\ pc \in {"start", "walk", "check"} => received = {}

\* Until the first receive, what the run listed is there, and only snapshots taken
\* meanwhile are new.
ListedStill ==
    pc \in Running /\ opt.auto =>
        /\ seen # "there" => listed = <<>>
        /\ received = {} =>
             /\ seen = "there" => /\ exists /\ ToSet(listed) \subseteq ToSet(local)
                                 /\ ToSet(local) \subseteq ToSet(listed) \cup Taken
             /\ seen = "missing" => ~exists

\* The chain: each backup is of the source of the one before it, none repeats, and none
\* of their snapshots was listed.
Linked ==
    /\ pc = "start" => chain = <<>>
    /\ pc \in Running =>
        /\ job \in archive /\ ToSet(chain) \subseteq archive /\ IsInjective(chain)
        /\ \A i \in 1..(Len(chain) - 1) : ~IsFull(chain[i]) /\ Same(chain[i + 1].base, chain[i].source)
        /\ opt.auto => \A i \in 1..Len(chain) : ~isIn(chain[i].base, listed)
        /\ pc = "walk" => opt.auto
        /\ pc = "walk" /\ chain # <<>> =>
             ~IsFull(Last(chain)) /\ Same(job.base, Last(chain).source) /\ ~isIn(job.base, listed)
        /\ pc = "check" /\ chain # <<>> => Last(chain) = job
        /\ ~opt.auto /\ chain # <<>> => chain = <<job>> /\ received = {}

\* The backup asked for is the one the walk begins with, then the head of the chain, and
\* its snapshot is on the target when the chain is used up.
Found == \E b \in archive : Asked(b) /\ Restored(b)
HeadIsAsked ==
    opt.auto =>
        /\ pc \in Running /\ chain # <<>> => Asked(chain[1])
        /\ pc = "walk" /\ chain = <<>> => Asked(job)
        /\ pc \in {"check", "receive"} /\ chain = <<>> => Found
        /\ pc = "done" => Found

\* What the one check before the first receive is worth in all of them.
Guarded == opt.force /\ ~opt.allowDestroy
BringsReplication == \E b \in ToSet(chain) : b.repl /\ ~IsFull(b)
Had == LocalSnaps \ received
\* Before the first: the source is newer than everything that was listed; or a snapshot
\* taken since passed for one of the chain, from which zfs takes no stream.
TwinSource == ~IsFull(Last(chain)) /\ \E t \in ToSet(local) \cap Taken : Same(t, Last(chain).source)
BeforeFirst ==
    received = {} /\ chain # <<>> =>
        TwinSource \/ (Last(chain) = job /\ ~refuseDestroy(chain, listed, seen = "there"))
\* After it: the next source was received (or is such a twin), and what was received is
\* behind all that the target had; where a replication stream follows, it had nothing but
\* the source of the chain.
AfterFirst ==
    received # {} =>
        /\ ToSet(local) \subseteq ToSet(listed) \cup Taken \cup received
        /\ chain # <<>> => /\ ~IsFull(Last(chain))
                          /\ \E s \in (received \cup Taken) \cap ToSet(local) : Same(s, Last(chain).source)
        /\ \A i, j \in DOMAIN local : local[i] \in Had /\ local[j] \in received => i < j
        /\ BringsReplication => ~below /\ ToSet(local) \cap Had \subseteq {job.source}
OnceIsEnough ==
    pc = "receive" /\ opt.auto /\ Guarded => seen # "error" /\ BeforeFirst /\ AfterFirst

Inv == TypeOK /\ TargetSound /\ ListedStill /\ Linked /\ HeadIsAsked /\ OnceIsEnough
=============================================================================
