--------------------------- MODULE PlanSimulation ---------------------------
(***************************************************************************)
(* `zfsbackup plan --from --until`: smart runs simulated over time         *)
(* (Scenario.Run) against a pool that sanoid's schedule changes            *)
(* (Schedule.Advance), and the checks the simulation is judged by          *)
(* (Simulation.Check).  Each run may be skipped (the host was down), and   *)
(* the delay between a period's boundary and its snapshot varies.          *)
(***************************************************************************)
EXTENDS Planner

CONSTANTS
    Periods,      \* the schedule, longest period first: [name, length, keep]
    Every,        \* time between two runs
    From,         \* the first run
    Bounds,       \* what the model looks at: scheduled runs (Until), skips (runs that do
                  \* not happen), delays (how late a snapshot may be after its boundary)
    Job,          \* the job every run has
    Pools,        \* the pools a scenario may start with
    Destinations  \* the backups it may start with, per destination

ASSUME ScheduleAssumption ==
    /\ \A i \in DOMAIN Periods : Periods[i].length \in Nat \ {0} /\ Periods[i].keep \in Nat
    /\ Every \in Nat \ {0}
    /\ \A b \in Bounds : b.runs \in Nat /\ b.skips \in Nat /\ b.delays \subseteq Nat
    /\ Job.mode \in {"full", "increment", "window"}

VARIABLES
    bound,    \* which of Bounds
    at,       \* when the next scheduled run is
    taken,    \* the schedule took the snapshots due until then
    pool,     \* newest first
    dest,     \* the simulated destinations, newest first
    initial,  \* what they held before the first run
    steps,    \* the runs so far: [at, newest, plan, present]
    skips     \* runs that did not happen

vars == <<bound, at, taken, pool, dest, initial, steps, skips>>

Init ==
    /\ bound \in Bounds
    /\ pool \in Pools
    /\ initial \in Destinations
    /\ dest = initial
    /\ at = From
    /\ taken = IF pool = <<>> THEN From ELSE pool[1].time
    /\ steps = <<>>
    /\ skips = 0

-----------------------------------------------------------------------------
(* The schedule.                                                           *)

\* The boundaries of a period in (from, to]; every period starts at time 0.
boundaries(p, from, to) ==
    IF p.keep = 0 THEN {} ELSE {t \in (from + 1)..to : t % p.length = 0}

\* A pool with one more snapshot, newest first; of equal times the earlier stays first.
Insert(snaps, s) ==
    InsertAt(snaps, Cardinality({i \in DOMAIN snaps : snaps[i].time >= s.time}) + 1, s)

\* Keep the newest p.keep, and what is not older than that many periods.
prune(snaps, now) ==
    LET NewerOf(s) == Cardinality({t \in ToSet(snaps) : t.kind = s.kind /\ ~t.bookmark /\ After(t, s)})
        Destroyed(s, p) == /\ ~s.bookmark /\ s.kind = p.name
                           /\ NewerOf(s) >= p.keep
                           /\ s.time < now - p.keep * p.length
    IN SelectSeq(snaps, LAMBDA s : \A i \in DOMAIN Periods : ~Destroyed(s, Periods[i]))

\* Longest period first at one boundary; a name that exists is not taken again.
Advance(snaps, from, to, delay) ==
    LET due == {<<i, t>> \in (DOMAIN Periods) \X ((from + 1)..to) : t \in boundaries(Periods[i], from, to)}
        seq == SetToSortSeq(due, LAMBDA x, y : x[2] < y[2] \/ (x[2] = y[2] /\ x[1] < y[1]))
        Take(p, x) == LET s == [kind |-> Periods[x[1]].name, time |-> x[2] + delay, bookmark |-> FALSE]
                      IN IF s \in ToSet(p) THEN p ELSE Insert(p, s)
    IN prune(FoldLeft(Take, snaps, seq), to)

-----------------------------------------------------------------------------
(* One run.                                                                *)

backedUp(s) == \E d \in DOMAIN dest : \E m \in ToSet(dest[d]) : Same(m.base, s) \/ Same(m.source, s)
visibleAt(snaps, t) == SelectSeq(snaps, LAMBDA s : s.time <= t \/ backedUp(s))

manifestFor(p, raw) ==
    [base |-> p.base, source |-> IF p.action = "incremental" THEN p.source ELSE NoSnapshot, raw |-> raw]

addManifest(backups, m) ==
    LET out == SelectSeq(backups, LAMBDA x : ~sameSet(x, m))
    IN InsertAt(out, Cardinality({i \in DOMAIN out : out[i].base.time >= m.base.time}) + 1, m)

Sends(p) == p.action \in {"full", "incremental"}

\* The schedule runs up to the run's time, then the run plans and records what it sent.
Run(delay) ==
    /\ Len(steps) + skips < bound.runs
    /\ pool' = Advance(pool, taken, at, delay)
    /\ \E visible \in {visibleAt(pool', at)} :
       \E p \in {planSmartAt(at, Job, visible, dest, Job.resume)} :
          /\ dest' = IF Sends(p)
                     THEN [d \in DOMAIN dest |-> addManifest(dest[d], manifestFor(p, Job.raw))]
                     ELSE dest
          /\ steps' = Append(steps, [at |-> at, plan |-> p,
                                     newest |-> IF visible = <<>> THEN NoSnapshot ELSE visible[1],
                                     present |-> \E s \in ToSet(visible) :
                                                    Same(s, p.source) /\ ~(Job.needsSnapshot /\ s.bookmark)])
    /\ at' = at + Every
    /\ taken' = IF at > taken THEN at ELSE taken
    /\ UNCHANGED <<bound, initial, skips>>

\* The host was down: sanoid still ran, the cron job did not.
Skip(delay) ==
    /\ Len(steps) + skips < bound.runs /\ skips < bound.skips
    /\ skips' = skips + 1
    /\ pool' = Advance(pool, taken, at, delay)
    /\ at' = at + Every
    /\ taken' = IF at > taken THEN at ELSE taken
    /\ UNCHANGED <<bound, dest, initial, steps>>

Next == \E delay \in bound.delays : Run(delay) \/ Skip(delay)

Spec == Init /\ [][Next]_vars

-----------------------------------------------------------------------------
(* The checks of the code (Simulation.Check); each is TRUE when it finds   *)
(* nothing.                                                                *)

Sent == SelectSeq(steps, LAMBDA st : Sends(st.plan))

checkNoErrors == \A i \in DOMAIN steps : steps[i].plan.action # "error"

checkChainLinks ==
    \A d \in DOMAIN dest : \A m \in ToSet(dest[d]) :
        IsFull(m) \/ parentOf(dest[d], m.source) # NoBackup

checkSourcePresent ==
    \A i \in DOMAIN steps :
        steps[i].plan.action = "incremental" => steps[i].present

checkNoDuplicateSend ==
    \A i \in DOMAIN Sent :
        Sent[i].plan.reason \in {"complete partial", "explicit full"}
        \/ (/\ \A j \in 1..(i - 1) : Sent[j].plan.reason = "complete partial"
                                     \/ ~Same(Sent[j].plan.base, Sent[i].plan.base)
            /\ \A d \in DOMAIN initial : \A m \in ToSet(initial[d]) : ~Same(m.base, Sent[i].plan.base))

checkNoOrphanFull ==
    \A i \in 2..Len(Sent) :
        (Sent[i - 1].plan.action = "full" /\ Sent[i].plan.action = "incremental")
            => Same(Sent[i].plan.source, Sent[i - 1].plan.base)

PeriodOf(kinds) == Periods[Min({i \in DOMAIN Periods : Periods[i].name \in kinds})]
fullSlack == PeriodOf(Job.fullKinds).length + Every

\* A full that a run sent is followed by the next one no earlier than a window less
\* the slack and no later than a window and the slack; none is overdue.
checkFullCadence ==
    LET fulls == SelectSeq(Sent, LAMBDA st : st.plan.action = "full")
        Judged(i) == fulls[i].plan.reason # "complete partial"
        Gap(i)    == fulls[i + 1].plan.base.time - fulls[i].plan.base.time
    IN /\ \A i \in 1..(Len(fulls) - 1) :
              Judged(i + 1) => /\ Gap(i) >= Job.window - fullSlack
                                  \/ fulls[i + 1].plan.reason = "broken chain"
                               /\ Judged(i) => Gap(i) <= Job.window + fullSlack
       /\ fulls # <<>> =>
              \A i \in DOMAIN steps : steps[i].at > Last(fulls).at =>
                  steps[i].newest.time - Last(fulls).plan.base.time <= Job.window + fullSlack

incrementalSpacing == Max({PeriodOf(Job.incrKinds).length, Every})
checkRestoreDepth ==
    LET limit == (Job.window + fullSlack + incrementalSpacing - 1) \div incrementalSpacing + 1
    IN \A d \in DOMAIN dest : chainDepth(dest[d]) <= limit

-----------------------------------------------------------------------------
(* Properties.                                                             *)

\* Whatever runs an outage loses and whatever sanoid prunes meanwhile, the runs that
\* do happen end in a decision, extend chains that restore from a source on the pool,
\* send nothing twice and orphan no full; restoring the newest backup never takes more
\* incrementals than one window holds.
OutagesAreHarmless ==
    /\ checkNoErrors /\ checkChainLinks /\ checkSourcePresent
    /\ checkNoDuplicateSend /\ checkNoOrphanFull /\ checkRestoreDepth

\* A window as long as the full period makes every full candidate a full at the first
\* run that sees it, though each is taken some minutes earlier or later than the one
\* before.
EveryCandidateBecomesFull ==
    \A i \in DOMAIN Sent :
        Sent[i].plan.action = "incremental" =>
            \E j \in 1..i : /\ Sent[j].plan.action = "full"
                            /\ Sent[i].plan.base.time - Sent[j].plan.base.time
                                  < PeriodOf(Job.fullKinds).length - Max(bound.delays)

\* Without outages fulls keep the cadence the tool checks for, and none is left out:
\* without the slack of fullWindowElapsed a month would be missed.
CadenceKept == skips = 0 => checkFullCadence /\ EveryCandidateBecomesFull
=============================================================================
