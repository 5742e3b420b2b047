------------------------------ MODULE Planner ------------------------------
(***************************************************************************)
(* The smart planner of `send` (planSmartAt): a pure function from the     *)
(* snapshots on the pool, the backups at every destination and the job to  *)
(* one decision.  Time is counted in units of five minutes.                *)
(*                                                                         *)
(* A snapshot is identified by its kind (what a prefix and suffix select:  *)
(* "_monthly", "_daily") and its creation time; sanoid names hold both.    *)
(* pool is a sequence, newest first, and dests[i] is the sequence of the   *)
(* backups at destination i, newest first.  A backup is a record [base,    *)
(* source, raw]; a full has no source.                                     *)
(***************************************************************************)
EXTENDS Integers, Sequences, SequencesExt, FiniteSets, FiniteSetsExt

Hour == 12
fullWindowSlack == 2
futureSlack == 24 * Hour

NoSnapshot == [kind |-> "none", time |-> 0, bookmark |-> FALSE]
Same(s, t) == s.kind = t.kind /\ s.time = t.time
After(s, t) == s.time > t.time
IsFull(m) == Same(m.source, NoSnapshot)

\* The plan: what to send, or "noop", or "error" with what it says.
Decision(action, base, source, reason) ==
    [action |-> action, base |-> base, source |-> source, reason |-> reason]
Full(base, source, reason) == Decision("full", base, source, reason)
Incremental(base, source, reason) == Decision("incremental", base, source, reason)
Noop(source, reason) == Decision("noop", NoSnapshot, source, reason)
Error(reason) == Decision("error", NoSnapshot, NoSnapshot, reason)

MutantNoSlack(age, window) == age > window
fullWindowElapsed(age, window) ==
    age > IF window > Hour THEN window - fullWindowSlack ELSE window

-----------------------------------------------------------------------------
(* The pool.                                                               *)

\* The first of the elements of a sequence at the positions I.
FirstAt(seq, I, none) == IF I = {} THEN none ELSE seq[Min(I)]

snapshotMatches(s, kinds) == ~s.bookmark /\ s.kind \in kinds
newestMatchingSnapshot(pool, kinds) ==
    FirstAt(pool, {i \in DOMAIN pool : snapshotMatches(pool[i], kinds)}, NoSnapshot)

\* The snapshot the caller holds, flagged as a bookmark when only a bookmark of
\* it is left; NoSnapshot when there is neither.
onPool(s, pool) ==
    LET found == {t \in ToSet(pool) : Same(t, s)}
    IN IF found = {} THEN NoSnapshot
       ELSE [s EXCEPT !.bookmark = \A t \in found : t.bookmark]

-----------------------------------------------------------------------------
(* The backups.                                                            *)

sameSet(a, b) == Same(a.base, b.base) /\ Same(a.source, b.source)
sameSets(a, b) == Len(a) = Len(b) /\ \A i \in DOMAIN a : sameSet(a[i], b[i])
hasFullOf(backups, s) == \E m \in ToSet(backups) : IsFull(m) /\ Same(m.base, s)

NoBackup == [base |-> NoSnapshot, source |-> NoSnapshot, raw |-> FALSE]

\* The newest set of the longest destinations, when every other lacks just it.
partialSet(dests) ==
    LET longest == {i \in DOMAIN dests : \A j \in DOMAIN dests : Len(dests[j]) <= Len(dests[i])}
        leader  == dests[Min(longest)]
        behind  == {i \in DOMAIN dests : ~sameSets(dests[i], leader)}
    IN IF \/ leader = <<>>
          \/ behind = {}
          \/ \E i \in behind : ~sameSets(dests[i], Tail(leader))
       THEN NoBackup
       ELSE leader[1]

\* The backup an incremental from s restores onto; a full before an incremental.
parentOf(backups, s) ==
    LET of == {i \in DOMAIN backups : Same(backups[i].base, s)}
        fulls == {i \in of : IsFull(backups[i])}
    IN FirstAt(backups, IF fulls # {} THEN fulls ELSE of, NoBackup)

\* The backup that m restores onto, or m itself when it is a full or that one is missing.
Onto(backups, m) ==
    LET parent == parentOf(backups, m.source)
    IN IF IsFull(m) \/ parent = NoBackup THEN m ELSE parent

\* The chain of m, m first, until it ends.
chainFrom(backups, m) ==
    LET link[n \in Nat] == IF n = 0 THEN m ELSE Onto(backups, link[n - 1])
    IN link

\* The snapshot whose backup the newest backup's chain lacks, or NoSnapshot; a chain
\* longer than the list has a loop.
brokenLink(backups) ==
    LET end == chainFrom(backups, backups[1])[Len(backups)]
    IN IF backups = <<>> THEN NoSnapshot
       ELSE IF IsFull(end) THEN NoSnapshot ELSE end.source

\* The incrementals that restoring the newest backup takes.
chainDepth(backups) ==
    LET Depth[d \in Nat, m \in ToSet(backups) \cup {NoBackup}] ==
            IF IsFull(m) \/ d >= Len(backups) THEN d
            ELSE Depth[d + 1, parentOf(backups, m.source)]
    IN IF backups = <<>> THEN 0 ELSE Depth[0, backups[1]]

firstBrokenChain(dests) ==
    LET links == [i \in DOMAIN dests |-> brokenLink(dests[i])]
    IN FirstAt(links, {i \in DOMAIN dests : links[i] # NoSnapshot}, NoSnapshot)

\* MixedChainError for some destination's newest backup.
sameStreamKind(raw, dests) ==
    \A i \in DOMAIN dests : dests[i] # <<>> => dests[i][1].raw = raw

\* A last backup after every snapshot of the pool that the pool does not hold.
checkLastBackupsOnPool(pool, last) ==
    \A i \in DOMAIN last :
        (last[i] # NoSnapshot /\ After(last[i], pool[1])) => onPool(last[i], pool) # NoSnapshot

-----------------------------------------------------------------------------
(* The decision.  A job is a record:                                       *)
(*   mode       "full", "increment" or "window" (--fullIfOlderThan)        *)
(*   window     that duration                                              *)
(*   fullKinds, incrKinds   the kinds the suffixes select                  *)
(*   raw, resume, needsSnapshot (-R or -I: no bookmark as a source)        *)

planExplicitFull(job, pool, dests) ==
    LET base == newestMatchingSnapshot(pool, job.fullKinds)
        have == {i \in DOMAIN dests : hasFullOf(dests[i], base)}
    IN IF base = NoSnapshot THEN Error("no full candidate")
       ELSE IF have = DOMAIN dests THEN Noop(NoSnapshot, "already backed up")
       ELSE IF have # {} /\ ~job.resume THEN Error("out of sync")
       ELSE Full(base, NoSnapshot, "explicit full")

planPartial(partial) ==
    IF IsFull(partial)
    THEN Full(partial.base, NoSnapshot, "complete partial")
    ELSE Incremental(partial.base, partial.source, "complete partial")

planExplicitIncremental(job, pool, dests, last) ==
    LET base == newestMatchingSnapshot(pool, job.incrKinds)
    IN IF base = NoSnapshot THEN Error("no incremental candidate")
       ELSE IF last = NoSnapshot THEN Error("nothing to increment from")
       ELSE IF ~After(base, last) THEN Noop(NoSnapshot, "nothing newer")
       ELSE IF firstBrokenChain(dests) # NoSnapshot THEN Error("broken chain")
       ELSE IF ~sameStreamKind(job.raw, dests) THEN Error("mixed chain")
       ELSE Incremental(base, last, "explicit incremental")

\* Can zfs send not send from what onPool found?
MutantOnlyGone(source, job) == source = NoSnapshot /\ job.needsSnapshot
Pruned(source, job) == source = NoSnapshot \/ (source.bookmark /\ job.needsSnapshot)

\* The incremental of --fullIfOlderThan, or what replaces one that has no source.
planIncremental(job, pool, dests, last, fullBase) ==
    LET base   == newestMatchingSnapshot(pool, job.incrKinds)
        source == onPool(last[1], pool)
        pruned == Pruned(source, job)
    IN IF base = NoSnapshot THEN Error("no incremental candidate")
       ELSE IF \E i \in DOMAIN last : ~Same(last[i], last[1]) THEN Error("last backups differ")
       ELSE IF ~After(base, last[1]) THEN Noop(NoSnapshot, "nothing newer")
       ELSE IF pruned /\ fullBase = NoSnapshot THEN Error("no full candidate")
       ELSE IF pruned /\ ~After(fullBase, last[1]) THEN Noop(last[1], "source pruned")
       ELSE IF pruned THEN Full(fullBase, last[1], "source pruned")
       ELSE IF ~sameStreamKind(job.raw, dests) THEN Error("mixed chain")
       ELSE Incremental(base, source, "newer candidate")

MutantAnyCandidate(fullBase, last) == fullBase # NoSnapshot
NewerThanBehind(fullBase, last) ==
    /\ fullBase # NoSnapshot
    /\ \E i \in DOMAIN last : After(fullBase, last[i])

planWindow(job, pool, dests, lastFull, last) ==
    LET fullBase == newestMatchingSnapshot(pool, job.fullKinds)
        elapsed  == fullWindowElapsed(pool[1].time - lastFull.time, job.window)
        newer    == NewerThanBehind(fullBase, last)
        missing  == firstBrokenChain(dests)
    IN IF lastFull = NoSnapshot
       THEN IF fullBase = NoSnapshot THEN Error("no full candidate")
            ELSE Full(fullBase, NoSnapshot, "no previous full")
       ELSE IF elapsed /\ fullBase = NoSnapshot THEN Error("no full candidate")
       ELSE IF elapsed /\ newer THEN Full(fullBase, NoSnapshot, "window elapsed")
       ELSE IF missing # NoSnapshot
       THEN IF newer THEN Full(fullBase, missing, "broken chain") ELSE Noop(missing, "broken chain")
       ELSE planIncremental(job, pool, dests, last, fullBase)

\* The base of the newest of the backups at the positions I.
NewestBase(backups, I) == FirstAt(backups, I, NoBackup).base

planSmart(job, pool, dests, completable) ==
    LET Fulls(m)   == {i \in DOMAIN m : IsFull(m[i])}
        last       == [i \in DOMAIN dests |-> NewestBase(dests[i], DOMAIN dests[i])]
        lastFull   == [i \in DOMAIN dests |-> NewestBase(dests[i], Fulls(dests[i]))]
        comparable == IF job.mode = "window" THEN lastFull ELSE last
        partial    == partialSet(dests)
    IN IF pool = <<>> THEN Error("no snapshots")
       ELSE IF job.mode = "full" THEN planExplicitFull(job, pool, dests)
       ELSE IF partial # NoBackup /\ completable THEN planPartial(partial)
       ELSE IF ~checkLastBackupsOnPool(pool, last) THEN Error("last backup in future")
       ELSE IF \E i \in DOMAIN dests : ~Same(comparable[i], comparable[1]) THEN Error("out of sync")
       ELSE IF job.mode = "increment" THEN planExplicitIncremental(job, pool, dests, last[1])
       ELSE planWindow(job, pool, dests, lastFull[1], last)

\* What is dated more than futureSlack after now comes from a wrong clock.  The code
\* filters it out; in a list that is newest first it is what comes first, so what is
\* left is a tail of the list (SmartSendProofs!NotFuture).
Dated(x) == IF "base" \in DOMAIN x THEN x.base.time ELSE x.time
MutantKeepFuture(now, seq) == seq
dropFutureDated(now, seq) ==
    LET future == {i \in DOMAIN seq : Dated(seq[i]) > now + futureSlack}
    IN SubSeq(seq, Cardinality(future) + 1, Len(seq))

planSmartAt(now, job, pool, dests, completable) ==
    planSmart(job,
              dropFutureDated(now, pool),
              [i \in DOMAIN dests |-> dropFutureDated(now, dests[i])],
              completable)
=============================================================================
