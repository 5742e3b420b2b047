----------------------------- MODULE SmartSend -----------------------------
(***************************************************************************)
(* Smart sends (`send --full`, `--increment`, `--fullIfOlderThan`) of one  *)
(* dataset: each run reads the pool and the destinations without the       *)
(* dataset's lock, decides with Planner, and only then locks, checks again *)
(* and sends.  Between those steps snapshots are taken and pruned, other   *)
(* runs plan and send, and sets are deleted at the destinations.           *)
(*                                                                         *)
(* A set's volumes and manifest are named after its snapshots: a second    *)
(* send of one set overwrites the objects of the first.  att tells the     *)
(* volumes of two sends apart (their sizes and hashes differ).             *)
(***************************************************************************)
EXTENDS Planner, FiniteSets, TLC

CONSTANTS
    Runner,      \* processes
    NoRunner,
    KindOrder,   \* the kinds, in the order of the names they give to objects
    Scenarios    \* the histories the model looks at: jobs a run may be started with, how
                 \* many runs at one time (overlap) and destinations (dests), batches of
                 \* kinds snapshots are taken of at one time, newest first, how far apart
                 \* (steps), and max: the bound of each counter and of the time

Counters == {"sends", "fails", "deletes", "prunes", "bookmarks", "wrong"}

Kinds == ToSet(KindOrder)

ASSUME SmartAssumption ==
    /\ IsFiniteSet(Runner) /\ NoRunner \notin Runner
    /\ KindOrder \in Seq(Kinds) /\ NoSnapshot.kind \notin Kinds
    /\ \A c \in Scenarios :
          /\ c.dests \in Nat \ {0} /\ c.overlap \in Nat \ {0}
          /\ \A j \in c.jobs : j.mode \in {"full", "increment", "window"} /\ j.raw \in BOOLEAN
          /\ \A b \in c.batches : b \in Seq(Kinds) /\ b # <<>>
          /\ c.steps \subseteq Nat \ {0}
          /\ c.max.time \in Nat \ {0}

VARIABLES
    scenario,  \* which of Scenarios
    now,     \* the clock
    pool,    \* snapshots and bookmarks, newest first
    dest,    \* dest[d]: the manifests at destination d
    vols,    \* vols[d]: the sets whose volumes are at d, each by its last attempt
    run,     \* run[r]: the state of process r
    lock,    \* who holds the dataset's lock
    count    \* what has happened, for the bounds

Dests == 1..scenario.dests
vars == <<scenario, now, pool, dest, vols, run, lock, count>>

NoRun == [pc |-> "idle", job |-> CHOOSE j \in scenario.jobs : TRUE, listed |-> <<>>, seen |-> <<>>,
          plan |-> Noop(NoSnapshot, "none"), set |-> NoBackup, todo |-> {}, stale |-> FALSE]

Init ==
    /\ scenario \in Scenarios
    /\ now = 1
    /\ pool = <<>>
    /\ dest = [d \in Dests |-> {}]
    /\ vols = [d \in Dests |-> {}]
    /\ run = [r \in Runner |-> NoRun]
    /\ lock = NoRunner
    /\ count = [c \in Counters |-> 0]

Bump(c) == count[c] < scenario.max[c] /\ count' = [count EXCEPT ![c] = @ + 1]

-----------------------------------------------------------------------------
(* The pool: sanoid and the administrator (external).                      *)

Snap(k, t) == [kind |-> k, time |-> t, bookmark |-> FALSE]
Insert(p, ss) ==
    LET newer == Cardinality({i \in DOMAIN p : p[i].time > ss[1].time})
    IN SubSeq(p, 1, newer) \o ss \o SubSeq(p, newer + 1, Len(p))

TakeSnapshots(ks, step) ==
    /\ now + step <= scenario.max.time
    /\ now' = now + step
    /\ pool' = Insert(pool, [i \in DOMAIN ks |-> Snap(ks[i], now')])
    /\ UNCHANGED <<dest, vols, run, lock, count>>

\* A snapshot taken while the host's clock was years ahead.
WrongClock(k) ==
    /\ Bump("wrong")
    /\ pool' = Insert(pool, <<Snap(k, scenario.max.time + futureSlack + 1)>>)
    /\ UNCHANGED <<now, dest, vols, run, lock>>

Bookmark(i) ==
    /\ Bump("bookmarks")
    /\ ~\E t \in ToSet(pool) : Same(t, pool[i]) /\ t.bookmark
    /\ pool' = InsertAt(pool, i, [pool[i] EXCEPT !.bookmark = TRUE])
    /\ UNCHANGED <<now, dest, vols, run, lock>>

\* sanoid keeps the newest snapshot of a kind.
Prune(i) ==
    /\ Bump("prunes")
    /\ ~pool[i].bookmark
    /\ \E s \in ToSet(pool) : s.kind = pool[i].kind /\ After(s, pool[i]) /\ s.time <= now
    /\ pool' = RemoveAt(pool, i)
    /\ UNCHANGED <<now, dest, vols, run, lock>>

\* A set is deleted at one destination while nothing sends (clean --force, or by hand).
DeleteSet(d, m) ==
    /\ Bump("deletes")
    /\ lock = NoRunner
    /\ dest' = [dest EXCEPT ![d] = @ \ {m}]
    /\ vols' = [vols EXCEPT ![d] = {v \in @ : ~sameSet(v, m)}]
    /\ run' = [r \in Runner |-> [run[r] EXCEPT !.stale = run[r].pc # "idle"]]
    /\ UNCHANGED <<now, pool, lock>>

-----------------------------------------------------------------------------
(* Planning, without the lock (ProcessSmartOptions).                       *)

\* A backend lists manifests by name.
KindRank(k) == IF k \in Kinds THEN CHOOSE i \in DOMAIN KindOrder : KindOrder[i] = k ELSE 0
Precedes(s, t) == \/ KindRank(s.kind) < KindRank(t.kind)
                  \/ KindRank(s.kind) = KindRank(t.kind) /\ s.time < t.time
Named(a, b) == Precedes(a.base, b.base) \/ (Same(a.base, b.base) /\ Precedes(a.source, b.source))

\* sort.SliceStable of that list: newest base first, of one base the full first, and what
\* is alike in both stays in the order of the names.
Newer(a, b) == \/ a.base.time > b.base.time
               \/ (a.base.time = b.base.time /\ IsFull(a) /\ ~IsFull(b))
Before(a, b) == Newer(a, b) \/ (~Newer(b, a) /\ Named(a, b))
sortBackupsNewestFirst(M) ==
    LET Rank(m) == Cardinality({x \in M : Before(x, m)})
    IN [n \in 1..Cardinality(M) |-> CHOOSE m \in M : Rank(m) = n - 1]
getBackupsForTarget(d) == sortBackupsNewestFirst(dest[d])

Set(r, new) == run' = [run EXCEPT ![r] = new]

ListPool(r, j) ==
    /\ run[r].pc = "idle" /\ Cardinality({q \in Runner : run[q].pc # "idle"}) < scenario.overlap
    /\ Set(r, [NoRun EXCEPT !.pc = "list", !.job = j, !.listed = pool])
    /\ UNCHANGED <<now, pool, dest, vols, lock, count>>

ListDest(r) ==
    LET d == Len(run[r].seen) + 1
    IN /\ run[r].pc = "list" /\ d \in Dests
       /\ Set(r, [run[r] EXCEPT !.seen = Append(@, getBackupsForTarget(d))])
       /\ UNCHANGED <<now, pool, dest, vols, lock, count>>

\* Does every destination that lacks the set have objects named like its volumes?
partialVolumesPresent(partial, seen) ==
    \A d \in Dests : \/ seen[d] # <<>> /\ sameSet(seen[d][1], partial)
                     \/ \E v \in vols[d] : sameSet(v, partial)

MutantOnlyResume(j, seen) == j.resume
PartialSetCompletable(j, seen) ==
    LET partial == partialSet(seen)
    IN j.resume \/ (partial # NoBackup /\ partialVolumesPresent(partial, seen))

\* selectSmartSnapshots: a noop or an error ends the run.
Decide(r) ==
    LET me == run[r]
    IN /\ me.pc = "list" /\ Len(me.seen) = scenario.dests
       /\ \E p \in {planSmartAt(now, me.job, me.listed, me.seen, PartialSetCompletable(me.job, me.seen))} :
             IF p.action \in {"noop", "error"}
             THEN Set(r, NoRun)
             ELSE Set(r, [me EXCEPT !.pc = "planned", !.plan = p, !.listed = <<>>, !.seen = <<>>])
       /\ UNCHANGED <<now, pool, dest, vols, lock, count>>

-----------------------------------------------------------------------------
(* Sending, under the lock (Backup).                                       *)

TryLock(r) ==
    /\ run[r].pc = "planned"
    /\ IF lock = NoRunner
       THEN lock' = r /\ Set(r, [run[r] EXCEPT !.pc = "locked"])
       ELSE lock' = lock /\ Set(r, NoRun)
    /\ UNCHANGED <<now, pool, dest, vols, count>>

ReturnBackup(r) == Set(r, NoRun) /\ lock' = NoRunner

\* The set the plan names, as its manifest would list it; only a plan for an
\* incremental sets jobInfo.IncrementalSnapshot.
SetOf(me) == [base |-> me.plan.base,
              source |-> IF me.plan.action = "incremental" THEN me.plan.source ELSE NoSnapshot,
              raw |-> me.job.raw, att |-> count["sends"] + 1]

MutantTrustsPlan(set) == {}
Have(set) == {d \in Dests : \E m \in dest[d] : sameSet(m, set)}

\* The set is new everywhere: the snapshots must still be there, and no
\* destination's backup of the source may be of the other stream kind.
ValidateSnapshots(me, set) ==
    LET base   == onPool(set.base, pool)
        source == onPool(set.source, pool)
    IN /\ base # NoSnapshot /\ ~base.bookmark
       /\ ~IsFull(set) => source # NoSnapshot /\ ~(source.bookmark /\ me.job.needsSnapshot)

MutantKindUnchecked(set) == TRUE
refuseMixedChain(set) ==
    IsFull(set) \/
    \A d \in Dests :
        LET backups == getBackupsForTarget(d)
            of == {i \in DOMAIN backups : Same(backups[i].base, set.source)}
        IN of = {} \/ backups[Min(of)].raw = set.raw

SendSet(r) ==
    LET me == run[r]
        set == SetOf(me)
    IN /\ me.pc = "locked" /\ Have(set) = {}
       /\ IF ValidateSnapshots(me, set) /\ refuseMixedChain(set)
          THEN /\ Bump("sends")
               /\ Set(r, [me EXCEPT !.pc = "upload", !.set = set, !.todo = Dests])
               /\ UNCHANGED lock
          ELSE ReturnBackup(r) /\ UNCHANGED count
       /\ UNCHANGED <<now, pool, dest, vols>>

\* The set exists somewhere: completed with a copy of the manifest, or refused.
verifyVolumesAt(d, m) == \E v \in vols[d] : sameSet(v, m) /\ v.att = m.att

Completes(me) == me.job.resume \/ me.plan.reason = "complete partial"

CompleteOrRefuse(r) ==
    LET me == run[r]
        set == SetOf(me)
        have == Have(set)
        missing == Dests \ have
        from == CHOOSE m \in dest[Min(have)] : sameSet(m, set)
    IN /\ me.pc = "locked" /\ have # {}
       /\ IF /\ missing # {} /\ Completes(me)
             /\ from.raw = set.raw
             /\ \A d \in missing : verifyVolumesAt(d, from)
          THEN Set(r, [me EXCEPT !.pc = "publish", !.set = from, !.todo = missing])
               /\ UNCHANGED lock
          ELSE ReturnBackup(r)
       /\ UNCHANGED <<now, pool, dest, vols, count>>

\* All volumes are at every destination before the first manifest is uploaded; todo are
\* the destinations still to come, in the order of the command line.
UploadVolumes(r) ==
    LET me == run[r]
        d  == Min(me.todo)
    IN /\ me.pc = "upload"
       /\ vols' = [vols EXCEPT ![d] = {v \in @ : ~sameSet(v, me.set)} \cup {me.set}]
       /\ Set(r, IF me.todo # {d} THEN [me EXCEPT !.todo = @ \ {d}]
                 ELSE [me EXCEPT !.pc = "publish", !.todo = Dests])
       /\ UNCHANGED <<now, pool, dest, lock, count>>

PublishManifest(r) ==
    LET me == run[r]
        d  == Min(me.todo)
    IN /\ me.pc = "publish"
       /\ dest' = [dest EXCEPT ![d] = @ \cup {me.set}]
       /\ IF me.todo # {d}
          THEN Set(r, [me EXCEPT !.todo = @ \ {d}]) /\ UNCHANGED lock
          ELSE ReturnBackup(r)
       /\ UNCHANGED <<now, pool, vols, count>>

\* An upload fails for good, or the process dies.
FailRun(r) ==
    /\ run[r].pc \in {"upload", "publish"}
    /\ Bump("fails")
    /\ ReturnBackup(r)
    /\ UNCHANGED <<now, pool, dest, vols>>

Advance(r) == ListDest(r) \/ Decide(r) \/ TryLock(r) \/ SendSet(r) \/ CompleteOrRefuse(r)
              \/ UploadVolumes(r) \/ PublishManifest(r)

Next ==
    /\ \/ \E ks \in scenario.batches, s \in scenario.steps : TakeSnapshots(ks, s)
       \/ \E k \in Kinds : WrongClock(k)
       \/ \E i \in DOMAIN pool : Bookmark(i) \/ Prune(i)
       \/ \E d \in Dests : \E m \in dest[d] : DeleteSet(d, m)
       \/ \E r \in Runner, j \in scenario.jobs : ListPool(r, j)
       \/ \E r \in Runner : Advance(r) \/ FailRun(r)
    /\ UNCHANGED scenario

Spec == Init /\ [][Next]_vars

-----------------------------------------------------------------------------
(* Properties.                                                             *)

\* The chain of m among the backups M.
ChainOf(M, m) == chainFrom(sortBackupsNewestFirst(M), m)

Publishes(r, d) == run[r].pc = "publish" /\ run[r].set \in dest'[d] \ dest[d]

\* An incremental a smart send publishes restores from that destination alone: its
\* chain reaches a full there, however long ago, and between whatever other runs, it
\* was planned, unless a set was deleted after the plan was made (refuseMixedChain
\* only gives a notice then).  It never continues a backup of the other stream kind.
PublishedIncrementalsRestore ==
    [][\A d \in Dests, r \in Runner :
          Publishes(r, d) =>
              LET M    == dest'[d]
                  link == ChainOf(M, run[r].set)
              IN /\ run[r].stale \/ IsFull(link[Cardinality(M)])
                 /\ link[1].raw = run[r].set.raw]_vars

\* Nothing is deleted.
Kept == scenario.max.deletes = 0

\* Every backup restores from where it is: its chain reaches a full at that destination,
\* though the sends were planned without the lock and some published their manifests at
\* some destinations only.
EveryBackupRestores ==
    Kept => \A d \in Dests : \A m \in dest[d] : IsFull(ChainOf(dest[d], m)[Cardinality(dest[d])])

\* The volumes beside a manifest are the ones it lists: no run overwrites the
\* volumes of a published set, though each planned before it held the lock, and a
\* manifest is copied only beside its own volumes.
PublishedIntact ==
    \A d \in Dests : \A m \in dest[d] : verifyVolumesAt(d, m)

\* One run at a time, and no set is deleted; and none of the runs is --full, which
\* compares nothing with the last backups.
Undisturbed == scenario.overlap = 1 /\ Kept
Steady == Undisturbed /\ \A j \in scenario.jobs : j.mode # "full"
Between == \A r \in Runner : run[r].pc = "idle"

\* Steady, a full that --fullIfOlderThan chose is the newest backup at the
\* destination it is published at, so the next incremental continues from it and does
\* not orphan it.
FullStartsNewChain ==
    [][\A d \in Dests : \A m \in dest'[d] \ dest[d] :
          Steady /\ IsFull(m) => \A x \in dest[d] : x.base.time <= m.base.time]_vars

\* What a new run of job j would decide now.
PlanNow(j) ==
    LET seen == [d \in Dests |-> getBackupsForTarget(d)]
    IN planSmartAt(now, j, pool, seen, PartialSetCompletable(j, seen))

\* Steady, a manifest upload that failed at some destinations never leaves them so far
\* apart that --increment or --fullIfOlderThan refuses to go on.
NeverStuck ==
    Steady /\ Between =>
        \A j \in scenario.jobs :
            PlanNow(j).reason \notin {"out of sync", "last backups differ",
                                      "broken chain", "last backup in future"}

\* The newest snapshot of some kinds, and the newest backup at d, that no wrong clock dated.
NewestOf(kinds) ==
    FirstAt(pool, {i \in DOMAIN pool : snapshotMatches(pool[i], kinds) /\ pool[i].time <= now}, NoSnapshot)
NewestBackup(M) == CHOOSE m \in M : \A x \in M : ~Newer(x, m)
NewestAt(d) ==
    LET sane == {m \in dest[d] : m.base.time <= now}
    IN IF sane = {} THEN NoSnapshot ELSE NewestBackup(sane).base

\* "each run would send nothing, with exit 0" (dropFutureDated) never happens while
\* something is to be sent: steady, a run that plans nothing leaves every
\* destination at the same newest backup and at the newest candidate, unless the source
\* of the next incremental is pruned and no newer full candidate exists yet.
NothingToSendMeansCaughtUp ==
    Steady /\ Between =>
        \A j \in scenario.jobs :
            LET base  == NewestOf(j.incrKinds)
                last  == NewestAt(1)
                waits == /\ \/ onPool(last, pool) = NoSnapshot
                            \/ onPool(last, pool).bookmark /\ j.needsSnapshot
                         /\ ~After(NewestOf(j.fullKinds), last)
            IN PlanNow(j).action = "noop" =>
                   /\ \A d \in Dests : NewestAt(d) = last
                   /\ base # NoSnapshot => waits \/ ~After(base, last)

-----------------------------------------------------------------------------
(* The inductive invariant of SmartSendProofs.                             *)

Sending(r) == run[r].pc \in {"locked", "upload", "publish"}

\* Which destinations there are does not change, and a run is a record as NoRun is.
Shape ==
    /\ scenario \in Scenarios
    /\ DOMAIN dest = Dests /\ DOMAIN vols = Dests /\ DOMAIN run = Runner
    /\ \A r \in Runner : DOMAIN run[r] = DOMAIN NoRun

\* Whoever sends holds the lock.
SendsLocked == \A r \in Runner : Sending(r) => lock = r

\* A destination has one manifest of a set.
SetsDiffer == \A d \in Dests : \A m, n \in dest[d] : sameSet(m, n) => m = n

\* While volumes are uploaded no destination has the set, though the plan was made without
\* the lock; the destinations that are done have the volumes of this run.
UploadsNew ==
    \A r \in Runner : run[r].pc = "upload" =>
        /\ run[r].todo \subseteq Dests /\ run[r].todo # {} /\ Have(run[r].set) = {}
        /\ \A d \in Dests \ run[r].todo : verifyVolumesAt(d, run[r].set)

\* A manifest is uploaded, or copied, to where its volumes are and it is not.
PublishesBeside ==
    \A r \in Runner : run[r].pc = "publish" =>
        /\ run[r].todo \subseteq Dests /\ run[r].todo # {}
        /\ \A d \in run[r].todo : /\ verifyVolumesAt(d, run[r].set)
                                 /\ \A m \in dest[d] : ~sameSet(m, run[r].set)

Inv == Shape /\ SendsLocked /\ SetsDiffer /\ UploadsNew /\ PublishesBeside /\ PublishedIntact

-----------------------------------------------------------------------------
(* What the planner's decisions keep (also for SmartSendProofs).           *)

Snapshots == [kind : Kinds, time : Nat, bookmark : BOOLEAN]
Backups == [base : Snapshots, source : Snapshots \cup {NoSnapshot}, raw : BOOLEAN, att : Nat]

\* A sequence of snapshots or backups, newest first.
NewestFirst(seq) == \A i, j \in DOMAIN seq : i < j => Dated(seq[j]) <= Dated(seq[i])

TypedRun(me) ==
    /\ me.pc # "idle" => me.job \in scenario.jobs
    /\ me.pc = "list" => /\ me.listed \in Seq(Snapshots)
                         /\ me.seen \in Seq(Seq(Backups)) /\ Len(me.seen) <= scenario.dests
    /\ me.pc \in {"planned", "locked"} =>
           /\ me.plan.action \in {"full", "incremental"} /\ me.plan.base \in Snapshots
           /\ me.plan.action = "incremental" => me.plan.source \in Snapshots
    /\ me.pc \in {"upload", "publish"} => me.set \in Backups

Typed ==
    /\ now \in 1..scenario.max.time /\ count \in [Counters -> Nat]
    /\ pool \in Seq(Snapshots)
    /\ \A d \in Dests : IsFiniteSet(dest[d]) /\ dest[d] \subseteq Backups
    /\ \A r \in Runner : TypedRun(run[r])

\* An incremental goes forward in time, and its source has a backup beside it.
Linked(M) ==
    \A m \in M :
        ~IsFull(m) => /\ After(m.base, m.source)
                      /\ Kept => \E x \in M : Same(x.base, m.source)

\* The same of an incremental that is to be sent, at every destination.
LinkedEverywhere(base, source) ==
    /\ After(base, source)
    /\ Kept => \A d \in Dests : \E x \in dest[d] : Same(x.base, source)

LinkedRun(me) ==
    /\ me.pc = "list" =>
           \A d \in DOMAIN me.seen : /\ NewestFirst(me.seen[d]) /\ Linked(ToSet(me.seen[d]))
                                     /\ Kept => ToSet(me.seen[d]) \subseteq dest[d]
    /\ me.pc \in {"planned", "locked"} /\ me.plan.action = "incremental" =>
           LinkedEverywhere(me.plan.base, me.plan.source)
    /\ me.pc \in {"upload", "publish"} /\ ~IsFull(me.set) => LinkedEverywhere(me.set.base, me.set.source)

Chains ==
    /\ \A d \in Dests : Linked(dest[d])
    /\ \A r \in Runner : LinkedRun(run[r])

\* Snapshots as the pool lists them: newest first, and a wrong clock was wrong by more
\* than the slack.
Datable(seq) ==
    NewestFirst(seq) /\ \A s \in ToSet(seq) : s.time <= now \/ s.time > scenario.max.time + futureSlack

\* The pool has a snapshot at least as new as s, and no wrong clock dated s.
Passed(s) == s.time <= now /\ \E t \in ToSet(pool) : s.time <= t.time /\ t.time <= now

\* The set is newer than every backup, and the only one that some destinations have and
\* others do not.
Newest(set) ==
    \A d \in Dests : \A x \in dest[d] :
        /\ sameSet(x, set) \/ After(set.base, x.base)
        /\ \A e \in Dests : x \in dest[e] \/ sameSet(x, set)

\* Destinations differ by the newest backup only, and where it is not its volumes are.
InStep ==
    \A d, e \in Dests : \A x \in dest[d] :
        /\ \A y \in dest[e] : x = y \/ x.base.time # y.base.time
        /\ x \in dest[e] \/ (verifyVolumesAt(e, x) /\ Newest(x))

\* The set a run is at is the newest, of a snapshot of the pool; once its manifests are
\* uploaded, it is wherever it is not still to come.
AheadRun(me) ==
    /\ me.pc = "list" =>
           /\ \A d \in DOMAIN me.seen : me.seen[d] = getBackupsForTarget(d)
           /\ \A s \in ToSet(me.listed) : s.time <= now => Passed(s)
    /\ me.pc \in {"planned", "locked"} =>
           Newest(SetOf(me)) /\ Passed(me.plan.base) /\ ~me.plan.base.bookmark
    /\ me.pc \in {"upload", "publish"} =>
           Newest(me.set) /\ Passed(me.set.base) /\ ~me.set.base.bookmark
    /\ me.pc = "publish" => \A d \in Dests \ me.todo : me.set \in dest[d]

Progress ==
    /\ Datable(pool)
    /\ \A r \in Runner : run[r].pc = "list" => Datable(run[r].listed)
    /\ Steady =>
          /\ InStep
          /\ \A q, r \in Runner : run[q].pc # "idle" /\ run[r].pc # "idle" => q = r
          /\ \A d \in Dests : \A x \in dest[d] : Passed(x.base) /\ ~x.base.bookmark
          /\ \A r \in Runner : AheadRun(run[r])

-----------------------------------------------------------------------------
(* Stream kinds (also for SmartSendProofs).                                *)

\* Of the backups M of the set's source the one a restore takes is of the set's kind.
KindFits(M, set) ==
    \/ IsFull(set)
    \/ \A x \in M : /\ Same(x.base, set.source)
                    /\ \A y \in M : Same(y.base, set.source) => ~Before(y, x)
                    => x.raw = set.raw

\* Where a completed set continues what it continued when it was sent, or no set is
\* completed.
Vouched(me) == Steady \/ scenario.dests = 1 \/ ~Completes(me)

FitsRun(me) ==
    Vouched(me) => /\ me.pc = "upload" => \A d \in Dests : KindFits(dest[d], me.set)
                   /\ me.pc = "publish" => \A d \in me.todo : KindFits(dest[d], me.set)

\* The --raw setting of a set is that of a job.
OfJob(m) == \E j \in scenario.jobs : m.raw = j.raw

StreamKinds ==
    /\ Steady => \A d \in Dests : \A m \in dest[d] : KindFits(dest[d], m)
    /\ \A r \in Runner : FitsRun(run[r])
    /\ \A d \in Dests : \A m \in dest[d] : OfJob(m)
    /\ \A r \in Runner : run[r].pc \in {"upload", "publish"} => OfJob(run[r].set)

\* One destination, steady sends, or one --raw setting for all.
Unmixed == scenario.dests = 1 \/ Steady \/ \A j, k \in scenario.jobs : j.raw = k.raw
=============================================================================
