------------------------------ MODULE BootLock ------------------------------
(***************************************************************************)
(* The lock of one dataset: a pid file that sends and cleans link into     *)
(* place (the vendored lockfile package), and the boot file beside it.     *)
(* Any number of processes try at the same time, end without unlocking,    *)
(* the host restarts, a power loss takes what was not synced, and pids are *)
(* given again, also to programs that know nothing of the lock.            *)
(***************************************************************************)
EXTENDS Naturals, FiniteSets

CONSTANTS
    Proc,        \* sends and cleans of the dataset
    Pid,         \* process ids the host gives
    None,
    Limits       \* bounds: runs, kills and restarts

\* A file that a power loss left empty has no pid.
Files == [pid : Pid \cup {None}, by : Proc \cup {None}]
BootFiles == [pid : Pid, boot : Nat]

ASSUME LockAssumption ==
    /\ Limits \subseteq [run : Nat, kill : Nat, reboot : Nat]
    /\ IsFiniteSet(Proc) /\ IsFiniteSet(Pid) /\ Cardinality(Pid) > Cardinality(Proc)
    /\ None \notin Proc \cup Pid \cup Nat \cup Files \cup BootFiles

VARIABLES
    lock,      \* the lock file: [pid, by], or None; by is the run whose inode it is, None
               \* once that run has ended and its process started another
    bootfile,  \* the boot file: [pid, boot], or None
    boot,      \* the current boot id
    foreign,   \* pids of other programs that run
    pc, pid,   \* each process: where it is, and its pid
    read,      \* the pid it read from the lock file
    second,    \* is it in the TryLock after the removal of a lock of another boot?
    found,     \* history: the run whose file it read last
    raced,     \* history: was a lock taken from a run that the taker never looked at, or
               \* before that run could write its boot file?
    lockBoot,  \* history: the boot in which the lock was taken whole, while the boot file
               \* of then is beside it, otherwise None
    left       \* how many runs, kills and restarts there may still be

vars == <<lock, bootfile, boot, foreign, pc, pid, read, second, found, raced, lockBoot, left>>
files == <<lock, bootfile, lockBoot>>
host == <<boot, foreign>>
own == <<pid, read, second, found>>
Count(what) == left[what] > 0 /\ left' = [left EXCEPT ![what] = @ - 1]

Trying == {"link", "stat", "owner", "alive", "remove", "recheck", "bootfile", "removeOld", "writeBoot"}
Holding == {"held", "unboot", "unlock", "unlink"}
Idle(p) == pc[p] = "idle"

\* isRunning sends a signal, as root: any process that is there counts.
running(n) == n \in foreign \/ \E q \in Proc : ~Idle(q) /\ pid[q] = n

Init ==
    /\ lock = None /\ bootfile = None /\ boot = 1 /\ lockBoot = None
    /\ foreign \in SUBSET Pid /\ Cardinality(Pid \ foreign) >= 1
    /\ pc = [p \in Proc |-> "idle"] /\ pid = [p \in Proc |-> None]
    /\ read = [p \in Proc |-> None] /\ second = [p \in Proc |-> FALSE]
    /\ found = [p \in Proc |-> None] /\ raced = FALSE
    /\ left \in Limits

At(p, from, to) == pc[p] = from /\ pc' = [pc EXCEPT ![p] = to]
Goto(p, from, test, yes, no) == At(p, from, IF test THEN yes ELSE no)

\* A process starts another run: the files of its run before are nobody's.
Start(p, n) ==
    /\ At(p, "idle", "link") /\ Count("run")
    /\ ~running(n) /\ pid' = [pid EXCEPT ![p] = n]
    /\ second' = [second EXCEPT ![p] = FALSE]
    /\ lock' = IF lock # None /\ lock.by = p THEN [lock EXCEPT !.by = None] ELSE lock
    /\ found' = [q \in Proc |-> IF found[q] = p THEN None ELSE found[q]]
    /\ UNCHANGED <<bootfile, host, read, raced, lockBoot>>

-----------------------------------------------------------------------------
(* lockfile.TryLock, a step for each look at the file.                     *)

\* os.Link fails when there is a lock file; that error is ignored.
Link(p) ==
    /\ At(p, "link", "stat")
    /\ IF lock # None THEN UNCHANGED <<lock, lockBoot>>
       ELSE lock' = [pid |-> pid[p], by |-> p] /\ lockBoot' = None
    /\ UNCHANGED <<bootfile, host, own, raced, left>>

\* os.SameFile; a lock that is gone by now is an error.
Stat(p) ==
    /\ At(p, "stat", IF lock = None THEN "refused"
                     ELSE IF lock.by = p THEN "writeBoot" ELSE "owner")
    /\ UNCHANGED <<files, host, own, raced, left>>

Reads(p) ==
    /\ read' = [read EXCEPT ![p] = IF lock = None THEN None ELSE lock.pid]
    /\ found' = [found EXCEPT ![p] = IF lock = None THEN None ELSE lock.by]
    /\ UNCHANGED <<files, host, pid, second, raced, left>>

\* GetOwner: the file (without a pid it is junk), and then whether that process runs.
ReadOwner(p) ==
    /\ At(p, "owner", IF lock = None THEN "refused"
                      ELSE IF lock.pid = None THEN "remove" ELSE "alive")
    /\ Reads(p)

\* ErrBusy: the first one is looked into, the second one is final.
IsRunning(p) ==
    /\ Goto(p, "alive", running(read[p]) /\ read[p] # pid[p],
            IF second[p] THEN "busy" ELSE "recheck", "remove")
    /\ UNCHANGED <<files, host, own, raced, left>>

\* Whatever lock is there by now is removed: another one than this run found?
TakesAnother(p) ==
    lock # None /\ lock.by \in Proc \ {found[p]} /\ ~Idle(lock.by)

\* Remove the lock of a dead owner, or without a pid, and start over.
RemoveDead(p) ==
    /\ At(p, "remove", "link")
    /\ lock' = None /\ lockBoot' = None
    /\ raced' = (raced \/ TakesAnother(p))
    /\ UNCHANGED <<bootfile, host, own, left>>

-----------------------------------------------------------------------------
(* bootLock.TryLock, when lockfile says ErrBusy.                           *)

\* fromAnotherBoot reads the lock file again, and then the boot file.
Recheck(p) ==
    /\ Goto(p, "recheck", lock = None \/ lock.pid = None, "busy", "bootfile")
    /\ Reads(p)

MutantNeverStale(p) == FALSE
MutantSameBoot(p) == bootfile # None /\ bootfile.pid = read[p]
fromAnotherBoot(p) == bootfile # None /\ bootfile.pid = read[p] /\ bootfile.boot # boot

\* The lock is live, and the boot file still the one of a lock before it.
NotYetBooted(p) ==
    lock # None /\ lock.by = found[p] /\ lock.by \in Proc /\ pc[lock.by] \in {"stat", "writeBoot"}

ReadBootFile(p) ==
    /\ Goto(p, "bootfile", fromAnotherBoot(p), "removeOld", "busy")
    /\ raced' = (raced \/ (fromAnotherBoot(p) /\ NotYetBooted(p)))
    /\ UNCHANGED <<files, host, own, left>>

RemoveOld(p) ==
    /\ At(p, "removeOld", "link")
    /\ lock' = None /\ lockBoot' = None
    /\ second' = [second EXCEPT ![p] = TRUE]
    /\ raced' = (raced \/ TakesAnother(p))
    /\ UNCHANGED <<bootfile, host, pid, read, found, left>>

\* Record the pid and the boot; TryLock returns.
WriteBoot(p) ==
    /\ At(p, "writeBoot", "held")
    /\ bootfile' = [pid |-> pid[p], boot |-> boot]
    /\ lockBoot' = IF lock # None /\ lock.by = p THEN boot ELSE None
    /\ UNCHANGED <<lock, host, own, raced, left>>

-----------------------------------------------------------------------------
(* Unlock, and processes that end.                                         *)

\* GetOwner says that this process has the lock.
Owns(p) == lock # None /\ lock.pid = pid[p]

\* Is the boot file the run's own?  It asks, and removes it after that.
UnlockOwner(p) ==
    /\ Goto(p, "held", Owns(p), "unboot", "unlock")
    /\ UNCHANGED <<files, host, own, raced, left>>

RemoveBootFile(p) ==
    /\ At(p, "unboot", "unlock")
    /\ bootfile' = None /\ lockBoot' = None
    /\ UNCHANGED <<lock, host, own, raced, left>>

\* lockfile.Unlock asks again, and then removes the lock.
Unlock(p) ==
    /\ Goto(p, "unlock", Owns(p), "unlink", "idle")
    /\ UNCHANGED <<files, host, own, raced, left>>

RemoveLock(p) ==
    /\ At(p, "unlink", "idle")
    /\ lock' = None /\ lockBoot' = None
    /\ UNCHANGED <<bootfile, host, own, raced, left>>

\* A run that did not get the lock exits.
Refused(p) ==
    /\ pc[p] \in {"busy", "refused"} /\ pc' = [pc EXCEPT ![p] = "idle"]
    /\ UNCHANGED <<files, host, own, raced, left>>

Kill(p) ==
    /\ ~Idle(p) /\ Count("kill")
    /\ pc' = [pc EXCEPT ![p] = "idle"]
    /\ UNCHANGED <<files, host, own, raced>>

\* The host restarts, perhaps after a power loss: the files were not synced, so the lock
\* may be gone or empty and the boot file gone.  Nothing runs, then other programs get some
\* of the pids.
Emptied == IF lock = None THEN None ELSE [lock EXCEPT !.pid = None]
Reboot ==
    /\ Count("reboot")
    /\ boot' = boot + 1
    /\ pc' = [p \in Proc |-> "idle"]
    /\ foreign' \in {f \in SUBSET Pid : f # Pid}
    /\ lock' \in {lock, Emptied, None} /\ bootfile' \in {bootfile, None}
    /\ lockBoot' = IF lock' = lock /\ bootfile' = bootfile THEN lockBoot ELSE None
    /\ UNCHANGED <<own, raced>>

Next ==
    \/ \E p \in Proc :
         \/ \E n \in Pid : Start(p, n)
         \/ Link(p) \/ Stat(p) \/ ReadOwner(p) \/ IsRunning(p) \/ RemoveDead(p)
         \/ Recheck(p) \/ ReadBootFile(p) \/ RemoveOld(p) \/ WriteBoot(p)
         \/ UnlockOwner(p) \/ RemoveBootFile(p) \/ Unlock(p) \/ RemoveLock(p)
         \/ Refused(p) \/ Kill(p)
    \/ Reboot

Spec == Init /\ [][Next]_vars

-----------------------------------------------------------------------------
(* Properties.                                                             *)

\* "volumeLock is the lock a send holds while it works on volume. clean takes it too, so
\* that it never judges the volumes of a set that is still being uploaded" (backup.go:421):
\* of two processes, at most one is past TryLock and not yet in Unlock.
MutualExclusion == \A p, q \in Proc : pc[p] = "held" /\ pc[q] = "held" => p = q

\* Two runs hold the lock only after a removal that hit another lock than the one that was
\* looked at, or a lock whose boot file was still that of one before ("this is not atomic",
\* backup.go:499).  Nothing else lets a second one in: no run that ends without unlocking,
\* restart, file that a power loss took or emptied, pid that is given again, nor the two
\* looks of Unlock.
ExclusionUnlessRaced == raced \/ MutualExclusion

\* "A lock whose boot file names this pid and another boot is from before the restart"
\* (backup.go:446): no lock that was taken whole before a restart makes a run exit as busy,
\* whichever programs have its pid now and however many runs look at it together.
OldBootNeverBlocks == \A p \in Proc : pc[p] = "busy" => lock = None \/ lockBoot \in {None, boot}

-----------------------------------------------------------------------------
(* The inductive invariant of BootLockProofs.                              *)

Places == Trying \cup Holding \cup {"idle", "busy", "refused"}
Past == Holding \cup {"writeBoot"}
TypeOK ==
    /\ lock \in Files \cup {None}
    /\ bootfile \in BootFiles \cup {None}
    /\ boot \in Nat /\ lockBoot \in Nat \cup {None}
    /\ foreign \subseteq Pid
    /\ pc \in [Proc -> Places] /\ pid \in [Proc -> Pid \cup {None}]
    /\ read \in [Proc -> Pid \cup {None}] /\ second \in [Proc -> BOOLEAN]
    /\ found \in [Proc -> Proc \cup {None}] /\ raced \in BOOLEAN

PidsDiffer ==
    /\ \A p \in Proc : ~Idle(p) => pid[p] \in Pid
    /\ \A p, q \in Proc : ~Idle(p) /\ ~Idle(q) /\ pid[p] = pid[q] => p = q

\* The lock is a running process's only between its link and its Unlock, with its pid.
OwnFile ==
    \A p \in Proc : ~Idle(p) /\ lock # None /\ lock.by = p =>
        lock.pid = pid[p] /\ pc[p] \in {"stat"} \cup Past

\* A lock that was taken whole has the boot file of the boot it was taken in.
BootRecorded ==
    lock # None /\ lockBoot # None =>
        bootfile # None /\ bootfile.pid = lock.pid /\ bootfile.boot = lockBoot

\* While one from an earlier boot is there, no run has had the lock in this one, and what
\* was read of it is so.
OldUntouched ==
    lock # None /\ lockBoot \notin {None, boot} =>
        \A p \in Proc : ~Idle(p) =>
            /\ pc[p] \notin Past \cup {"busy"} /\ ~second[p] /\ lock.by # p
            /\ (pc[p] = "bootfile" => read[p] = lock.pid)

\* Whoever has the lock finds its own file there, from the link to the end of Unlock, ...
HolderLinked == \A p \in Proc : pc[p] \in Past => lock # None /\ lock.by = p

\* ... and beside it the boot file of this boot until it removes that one first.
HolderBooted ==
    /\ \A p \in Proc : pc[p] \in {"held", "unboot"} => bootfile = [pid |-> pid[p], boot |-> boot]
    /\ \A p \in Proc : pc[p] \in {"unlock", "unlink"} => bootfile = None

\* A run that still lives when another has looked at its lock has that lock, and the other
\* does not go to remove it.
FoundLives ==
    \A p, q \in Proc :
        pc[p] \in {"alive", "bootfile", "remove", "removeOld"} /\ found[p] = q /\ ~Idle(q) =>
            /\ pc[p] \in {"alive", "bootfile"} /\ read[p] = pid[q]
            /\ lock # None /\ lock.by = q

Undisturbed == HolderLinked /\ HolderBooted /\ FoundLives
Inv == /\ TypeOK /\ PidsDiffer /\ OwnFile /\ BootRecorded /\ OldUntouched
       /\ raced \/ Undisturbed
=============================================================================
