--------------------------- MODULE GlacierRestore ---------------------------
(***************************************************************************)
(* The S3 backend's PreDownload: it asks S3 to restore the objects in an   *)
(* archive storage class, waits until each is readable, and checks the     *)
(* copies that were readable before the wait again; the downloads follow.  *)
(* Restored copies expire all the while.                                   *)
(*                                                                         *)
(* Time and sizes are in units of half a day: an object of size n takes n  *)
(* half days to download at the assumed rate.  The steps of the program    *)
(* take no time; its waits and its downloads do.                           *)
(***************************************************************************)
EXTENDS Naturals, Sequences, SequencesExt, FiniteSetsExt

CONSTANTS
    Keys,         \* the keys to download, in order
    Class,        \* storage classes they may be in: "standard", "glacier", "intelligent"
    Scenarios,    \* [size, left, restoreTime, maxErrors, override]: the size of each key, the
                  \* half days a copy that is there at the start may still last (0: no copy),
                  \* the most half days S3 takes for a restore, a bound, and
                  \* AWS_S3_RESTORE_DAYS (0: not set)
    EndOfTime     \* bound

ASSUME RestoreAssumption ==
    /\ IsInjective(Keys)
    /\ \A s \in Scenarios : s.restoreTime \in Nat \ {0} /\ s.left \subseteq Nat /\ s.override \in 0..30

Key == ToSet(Keys)
Day == 2

VARIABLES
    scenario,
    now, class, copy,    \* copy[k]: when the restored copy of k expires; 0: none
    pending, lasts,      \* pending[k]: when S3 has restored k at the latest; 0: not asked; for how long
    pc, round, days,     \* PreDownload: its window (0: not fixed yet)
    keys, todo, idx,     \* the keys this round checks, those it waits for, and where it waits
    start,               \* when the downloads began
    errors

s3 == <<scenario, now, class, copy, pending, lasts>>
program == <<pc, round, days, keys, todo, idx, start, errors>>
vars == <<s3, program>>

\* needsRestore and restored, of a HEAD response.
needsRestore(k) == class[k] # "standard"
MutantHeaderOnly(k) == copy[k] > now
restored(k) == class[k] = "standard" \/ (class[k] = "glacier" /\ copy[k] > now)
NotReadable(ks) == {k \in ks : needsRestore(k) /\ ~restored(k)}

restoreExpiryMargin == 1 * Day
expiresSoon(k) == class[k] = "glacier" /\ copy[k] < now + restoreExpiryMargin
maxRestoreRounds == 3

\* The days to download everything, one for the wait and one for the margin.
MutantNoSlack(total) == (total + Day - 1) \div Day
restoreDays(total) == Min({Max({(total + Day - 1) \div Day + 2, 3}), 30})
totalBytes == FoldFunctionOnSet(LAMBDA a, b : a + b, 0, scenario.size, Key)
\* daysFor: the first round, which checks every key, fixes the answer.
daysFor ==
    CASE days # 0 -> days
      [] days = 0 /\ scenario.override # 0 -> scenario.override
      [] OTHER -> restoreDays(totalBytes)

Init ==
    /\ scenario \in Scenarios
    /\ now = 1
    /\ class \in [Key -> Class]
    /\ copy \in {c \in [Key -> scenario.left] : \A k \in Key : class[k] # "glacier" => c[k] = 0}
    /\ pending = [k \in Key |-> 0] /\ lasts = [k \in Key |-> 0]
    /\ pc = "classify" /\ round = 0 /\ days = 0
    /\ keys = Keys /\ todo = <<>> /\ idx = 1 /\ start = 0 /\ errors = 0

-----------------------------------------------------------------------------
(* S3 (external).                                                          *)

\* The time the downloads before the next one take.
Before(i) == FoldFunctionOnSet(LAMBDA a, b : a + b, 0, scenario.size, ToSet(SubSeq(Keys, 1, i - 1)))

\* Time passes while the program waits for a copy or downloads.  No restore and no
\* download is late.
Tick ==
    /\ now < EndOfTime
    /\ \/ pc = "wait" /\ ~restored(todo[idx])
       \/ pc = "download" /\ now < start + Before(idx)
    /\ \A k \in Key : pending[k] > 0 => now < pending[k]
    /\ now' = now + 1
    /\ UNCHANGED <<scenario, class, copy, pending, lasts, program>>

\* A restored Intelligent-Tiering object moves to a frequent-access tier for good.
Complete(k) ==
    /\ pending[k] > 0
    /\ pending' = [pending EXCEPT ![k] = 0]
    /\ IF class[k] = "glacier"
       THEN copy' = [copy EXCEPT ![k] = now + lasts[k]] /\ UNCHANGED class
       ELSE class' = [class EXCEPT ![k] = "standard"] /\ UNCHANGED copy
    /\ UNCHANGED <<scenario, now, lasts, program>>

-----------------------------------------------------------------------------
(* PreDownload.                                                            *)

Ask(k) == needsRestore(k) /\ ~restored(k)
Extend(k) == needsRestore(k) /\ restored(k) /\ expiresSoon(k)

\* classifyRestores: HEAD every key, request what is not readable, extend what expires
\* soon (an extension that fails is a warning), and go on or wait.
MutantNothingChecked(ks) == <<>>
Readable(ks) == SelectSeq(ks, LAMBDA k : needsRestore(k) /\ restored(k))

classifyRestores ==
    LET cold == SelectSeq(keys, Ask)
        new  == {k \in ToSet(cold) : pending[k] = 0}
    IN /\ pc = "classify"
       /\ days' = daysFor
       /\ \E failed \in SUBSET {k \in ToSet(keys) : Extend(k)} :
             /\ failed # {} => errors < scenario.maxErrors
             /\ errors' = IF failed # {} THEN errors + 1 ELSE errors
             /\ copy' = [k \in Key |-> IF k \in ToSet(keys) /\ Extend(k) /\ k \notin failed
                                       THEN now + days' * Day ELSE copy[k]]
       /\ pending' = [k \in Key |-> IF k \in new THEN now + scenario.restoreTime ELSE pending[k]]
       /\ lasts' = [k \in Key |-> IF k \in new THEN days' * Day ELSE lasts[k]]
       /\ todo' = cold /\ idx' = 1
       /\ keys' = Readable(keys)
       /\ IF cold = <<>> THEN pc' = "download" /\ start' = now /\ UNCHANGED round
          ELSE /\ pc' = IF round = maxRestoreRounds THEN "failed" ELSE "wait"
               /\ round' = round + 1 /\ UNCHANGED start
       /\ UNCHANGED <<scenario, now, class>>

\* waitForRestores: poll one key after the other until a GET can read it.
Poll ==
    /\ pc = "wait" /\ restored(todo[idx])
    /\ IF idx < Len(todo) THEN idx' = idx + 1 /\ UNCHANGED pc
       ELSE pc' = "classify" /\ UNCHANGED idx
    /\ UNCHANGED <<s3, round, days, keys, todo, start, errors>>

\* A HEAD or a restore request fails.
Fail ==
    /\ pc \in {"classify", "wait"} /\ errors < scenario.maxErrors
    /\ pc' = "failed" /\ errors' = errors + 1
    /\ UNCHANGED <<s3, round, days, keys, todo, idx, start>>

\* The downloads after PreDownload, in order; idx is the next one.  One that cannot be
\* read fails the restore.
Download ==
    /\ pc = "download"
    /\ pc' = IF NotReadable({Keys[idx]}) # {} THEN "unreadable"
             ELSE IF idx = Len(Keys) THEN "done" ELSE "download"
    /\ idx' = IF idx < Len(Keys) THEN idx + 1 ELSE idx
    /\ UNCHANGED <<s3, round, days, keys, todo, start, errors>>

\* The end, or the end of the time the model looks at.
Over == (pc \in {"done", "failed", "unreadable"} \/ now = EndOfTime) /\ UNCHANGED vars

Next ==
    \/ Tick \/ (\E k \in Key : Complete(k))
    \/ classifyRestores \/ Poll \/ Fail \/ Download \/ Over

Spec == Init /\ [][Next]_vars

\* S3 ends every restore it accepted and time passes; the program goes on when it can.
FairSpec ==
    /\ Spec
    /\ WF_vars(Tick) /\ \A k \in Key : WF_vars(Complete(k))
    /\ WF_vars(classifyRestores) /\ WF_vars(Poll) /\ WF_vars(Download)

-----------------------------------------------------------------------------
(* Properties.                                                             *)

\* The re-check after each wait: when PreDownload returns, a GET can read every key, so
\* no copy that was readable before a wait expired in it unseen.
ReadableAtReturn == (pc = "download" /\ now = start /\ idx = 1) => NotReadable(Key) = {}

\* "A restored copy stays readable for the days the downloads of every key need": none
\* expires before the downloads that follow PreDownload, at the assumed rate, reach it.
DownloadsReadable == pc # "unreadable"

\* PreDownload returns or gives up, and the downloads end.
PreDownloadAlwaysEnds == <>(pc \in {"done", "failed", "unreadable"})

\* They do where a copy lasts longer than any restore takes: the keys are polled one after the
\* other, so a copy that is there before the poll reaches it has to outlast the restores of
\* the keys ahead.  Each poll then finds its copy, and the rounds are bounded.
OutlastsTheWait == daysFor * Day > scenario.restoreTime
PreDownloadEnds == OutlastsTheWait => PreDownloadAlwaysEnds
=============================================================================
