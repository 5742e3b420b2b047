--------------------------- MODULE BootLockProofs ---------------------------
(***************************************************************************)
(* The lock of a dataset excludes until a removal hits another lock than   *)
(* the one that was looked at, and no lock of an earlier boot makes a run  *)
(* exit: for any number of processes that try together, any number of      *)
(* kills, restarts and power losses, and whichever programs get the pids.  *)
(***************************************************************************)
EXTENDS BootLock, TLAPS

\* None is none of the things it stands for the absence of.
LEMMA NoneIsNothing ==
    None \notin Files /\ None \notin BootFiles /\ None \notin Nat /\ None \notin Proc /\ None \notin Pid
BY LockAssumption

\* A lock file is a record of pid and inode.
LEMMA LockIsFile ==
    ASSUME TypeOK, lock # None
    PROVE  lock \in Files /\ lock.pid \in Pid \cup {None} /\ lock.by \in Proc \cup {None}
           /\ lock = [pid |-> lock.pid, by |-> lock.by]
BY DEF TypeOK, Files

LEMMA InitInv == Init => Inv
<1> SUFFICES ASSUME Init PROVE Inv
  OBVIOUS
<1>1. \A p \in Proc : pc[p] = "idle"
  BY DEF Init
<1>2. TypeOK
  BY DEF Init, TypeOK, Places
<1>3. PidsDiffer /\ OwnFile
  BY <1>1 DEF PidsDiffer, OwnFile, Idle
<1>4. BootRecorded /\ OldUntouched
  BY DEF Init, BootRecorded, OldUntouched
<1>5. Undisturbed
  BY <1>1 DEF Undisturbed, HolderLinked, HolderBooted, FoundLives, Past, Holding
<1> QED BY <1>2, <1>3, <1>4, <1>5 DEF Inv

-----------------------------------------------------------------------------
(* What the steps have in common.                                           *)

\* The process that steps goes from one place to another; the others stay.
Steps(p, from, to) ==
    pc[p] = from /\ pc'[p] = to /\ \A q \in Proc \ {p} : pc'[q] = pc[q]

LEMMA StepsPlace ==
    ASSUME TypeOK, NEW p \in Proc, NEW to \in Places, pc' = [pc EXCEPT ![p] = to]
    PROVE  Steps(p, pc[p], to) /\ pc' \in [Proc -> Places]
BY DEF TypeOK, Steps

\* A step of a run that goes on keeps the pids.
LEMMA PidsKept ==
    ASSUME PidsDiffer, NEW p \in Proc, NEW from, NEW to, Steps(p, from, to), from # "idle", UNCHANGED pid
    PROVE  PidsDiffer'
BY DEF PidsDiffer, Steps, Idle

\* As long as nothing raced, who has the lock has it alone.
LEMMA PastAlone ==
    ASSUME HolderLinked, NEW p \in Proc, NEW q \in Proc, pc[p] \in Past, pc[q] \in Past
    PROVE  p = q
BY DEF HolderLinked

\* A step that touches no file: it may read the lock, and it goes elsewhere.
Looks(p, from, to) ==
    /\ Steps(p, from, to) /\ from # "idle"
    /\ UNCHANGED <<lock, bootfile, lockBoot, boot, foreign, pid, second>>
    /\ \A q \in Proc \ {p} : read'[q] = read[q] /\ found'[q] = found[q]
    /\ pc' \in [Proc -> Places] /\ read' \in [Proc -> Pid \cup {None}]
    /\ found' \in [Proc -> Proc \cup {None}] /\ raced' \in BOOLEAN /\ (raced => raced')

\* What such a step has to respect, where it goes.
Respects(p, to) ==
    /\ lock # None /\ lock.by = p => to \in {"stat", "idle"} \cup Past
    /\ lock # None /\ lockBoot \notin {None, boot} =>
         to \notin Past \cup {"busy"} /\ (to = "bootfile" => read'[p] = lock.pid)

\* And as long as nothing raced.
Behaves(p, to) ==
    /\ to \in Past => lock # None /\ lock.by = p
    /\ to \in {"held", "unboot"} => bootfile = [pid |-> pid[p], boot |-> boot]
    /\ to \in {"unlock", "unlink"} => bootfile = None
    /\ \A q \in Proc : to \in {"alive", "bootfile", "remove", "removeOld"} /\ found'[p] = q /\ ~Idle(q) =>
         to \in {"alive", "bootfile"} /\ read'[p] = pid[q] /\ lock # None /\ lock.by = q

LEMMA LooksInv ==
    ASSUME Inv, NEW p \in Proc, NEW from, NEW to, Looks(p, from, to), Respects(p, to),
           ~raced' => Behaves(p, to)
    PROVE  Inv'
<1>1. TypeOK'
  BY DEF Inv, TypeOK, Looks
<1>2. PidsDiffer'
  BY PidsKept DEF Inv, Looks
<1>3. OwnFile'
  BY DEF Inv, OwnFile, Looks, Steps, Idle, Respects
<1>4. BootRecorded'
  BY DEF Inv, BootRecorded, Looks
<1>5. OldUntouched'
  <2> SUFFICES ASSUME lock # None, lockBoot \notin {None, boot}, NEW q \in Proc, pc'[q] # "idle"
               PROVE  /\ pc'[q] \notin Past \cup {"busy"} /\ ~second[q] /\ lock.by # q
                      /\ (pc'[q] = "bootfile" => read'[q] = lock.pid)
    BY DEF OldUntouched, Looks, Idle, Past, Holding
  <2>1. pc[q] # "idle"
    BY DEF Looks, Steps
  <2> QED BY <2>1 DEF Inv, OldUntouched, Looks, Steps, Idle, Respects
<1>6. ASSUME ~raced' PROVE Undisturbed'
  <2>1. ~raced /\ Undisturbed /\ Behaves(p, to)
    BY <1>6 DEF Inv, Looks
  <2>2. HolderLinked' /\ HolderBooted'
    BY <2>1 DEF Undisturbed, HolderLinked, HolderBooted, Looks, Steps, Behaves, Past, Holding
  <2>3. FoundLives'
    <3> SUFFICES ASSUME NEW r \in Proc, NEW q \in Proc, pc'[q] # "idle", found'[r] = q,
                        pc'[r] \in {"alive", "bootfile", "remove", "removeOld"}
                 PROVE  pc'[r] \in {"alive", "bootfile"} /\ read'[r] = pid[q] /\ lock # None /\ lock.by = q
      BY DEF FoundLives, Looks, Idle
    <3>1. pc[q] # "idle"
      BY DEF Looks, Steps
    <3>2. CASE r = p
      BY <2>1, <3>1, <3>2 DEF Looks, Steps, Behaves, Idle
    <3>3. CASE r # p
      BY <2>1, <3>1, <3>3 DEF Undisturbed, FoundLives, Looks, Steps, Idle
    <3> QED BY <3>2, <3>3
  <2> QED BY <2>2, <2>3 DEF Undisturbed
<1> QED BY <1>1, <1>2, <1>3, <1>4, <1>5, <1>6 DEF Inv, TypeOK

\* A run that has not linked the lock that is there is not the one it belongs to.
LEMMA NotOwn ==
    ASSUME Inv, NEW p \in Proc, pc[p] # "idle", pc[p] \notin {"stat"} \cup Past, lock # None
    PROVE  lock.by # p
BY DEF Inv, OwnFile, Idle

-----------------------------------------------------------------------------
(* The steps that touch no file.                                            *)

\* What those steps leave alone.
LEMMA LooksFrom ==
    ASSUME Inv, NEW p \in Proc, NEW to \in Places, pc' = [pc EXCEPT ![p] = to], pc[p] # "idle",
           UNCHANGED <<lock, bootfile, lockBoot, boot, foreign, pid, second>>, raced' \in BOOLEAN, raced => raced',
           UNCHANGED <<read, found>>
             \/ (/\ read' = [read EXCEPT ![p] = IF lock = None THEN None ELSE lock.pid]
                 /\ found' = [found EXCEPT ![p] = IF lock = None THEN None ELSE lock.by])
    PROVE  Looks(p, pc[p], to)
<1>1. Steps(p, pc[p], to) /\ pc' \in [Proc -> Places]
  BY StepsPlace DEF Inv
<1>2. read \in [Proc -> Pid \cup {None}] /\ found \in [Proc -> Proc \cup {None}]
  BY DEF Inv, TypeOK
<1>3. (IF lock = None THEN None ELSE lock.pid) \in Pid \cup {None}
      /\ (IF lock = None THEN None ELSE lock.by) \in Proc \cup {None}
  BY LockIsFile DEF Inv
<1>4. read' \in [Proc -> Pid \cup {None}] /\ found' \in [Proc -> Proc \cup {None}]
      /\ \A q \in Proc \ {p} : read'[q] = read[q] /\ found'[q] = found[q]
  BY <1>2, <1>3
<1> QED BY <1>1, <1>4 DEF Looks

\* What Reads gives the run that reads.
LEMMA ReadsGive ==
    ASSUME Inv, NEW p \in Proc, Reads(p), lock # None
    PROVE  read'[p] = lock.pid /\ found'[p] = lock.by
BY DEF Reads, Inv, TypeOK

\* os.SameFile: a lock of another boot is another run's.
LEMMA StatInv == ASSUME Inv, NEW p \in Proc, Stat(p) PROVE Inv'
<1> DEFINE to == IF lock = None THEN "refused" ELSE IF lock.by = p THEN "writeBoot" ELSE "owner"
<1>1. pc[p] = "stat" /\ to \in {"refused", "writeBoot", "owner"} /\ pc' = [pc EXCEPT ![p] = to]
  BY DEF Stat, At
<1>2. Looks(p, "stat", to)
  <2>1. to \in Places
    BY <1>1 DEF Places, Trying
  <2>2. UNCHANGED <<lock, bootfile, lockBoot, boot, foreign, pid, second, read, found, raced>>
    BY DEF Stat, files, host, own
  <2> QED BY <1>1, <2>1, <2>2, LooksFrom DEF Inv, TypeOK
<1>3. Respects(p, to)
  BY <1>1 DEF Inv, OldUntouched, Respects, Past, Holding, Idle
<1>4. Behaves(p, to)
  BY <1>1 DEF Behaves, Past, Holding
<1> HIDE DEF to
<1> QED BY <1>2, <1>3, <1>4, LooksInv

\* GetOwner reads the pid: that of a run that lives is in its lock.
LEMMA ReadOwnerInv == ASSUME Inv, NEW p \in Proc, ReadOwner(p) PROVE Inv'
<1> DEFINE to == IF lock = None THEN "refused" ELSE IF lock.pid = None THEN "remove" ELSE "alive"
<1>1. pc[p] = "owner" /\ to \in {"refused", "remove", "alive"} /\ pc' = [pc EXCEPT ![p] = to]
  BY DEF ReadOwner, At
<1>2. Looks(p, "owner", to)
  <2>1. to \in Places
    BY <1>1 DEF Places, Trying
  <2>2. UNCHANGED <<lock, bootfile, lockBoot, boot, foreign, pid, second, raced>>
        /\ read' = [read EXCEPT ![p] = IF lock = None THEN None ELSE lock.pid]
        /\ found' = [found EXCEPT ![p] = IF lock = None THEN None ELSE lock.by]
    BY DEF ReadOwner, Reads, files, host
  <2> HIDE DEF to
  <2> QED BY <1>1, <2>1, <2>2, LooksFrom DEF Inv, TypeOK
<1>3. Respects(p, to)
  BY <1>1, NotOwn DEF Respects, Past, Holding
<1>4. Behaves(p, to)
  <2> SUFFICES ASSUME NEW q \in Proc, to \in {"alive", "remove"}, found'[p] = q, ~Idle(q)
               PROVE  to = "alive" /\ read'[p] = pid[q] /\ lock # None /\ lock.by = q
    BY <1>1 DEF Behaves, Past, Holding
  <2>1. lock # None
    OBVIOUS
  <2>2. read'[p] = lock.pid /\ lock.by = q
    BY <2>1, ReadsGive DEF ReadOwner
  <2>3. lock.pid = pid[q] /\ pid[q] \in Pid
    BY <2>1, <2>2 DEF Inv, OwnFile, PidsDiffer
  <2> QED BY <2>1, <2>2, <2>3, NoneIsNothing
<1> HIDE DEF to
<1> QED BY <1>2, <1>3, <1>4, LooksInv

\* isRunning: a run that lives is seen, and a lock of another boot is looked into.
LEMMA IsRunningInv == ASSUME Inv, NEW p \in Proc, IsRunning(p) PROVE Inv'
<1> DEFINE to == IF running(read[p]) /\ read[p] # pid[p]
                 THEN IF second[p] THEN "busy" ELSE "recheck" ELSE "remove"
<1>1. pc[p] = "alive" /\ to \in {"busy", "recheck", "remove"} /\ pc' = [pc EXCEPT ![p] = to]
  BY DEF IsRunning, Goto, At
<1>2. Looks(p, "alive", to)
  <2>1. to \in Places
    BY <1>1 DEF Places, Trying
  <2>2. UNCHANGED <<lock, bootfile, lockBoot, boot, foreign, pid, second, read, found, raced>>
    BY DEF IsRunning, files, host, own
  <2> HIDE DEF to
  <2> QED BY <1>1, <2>1, <2>2, LooksFrom DEF Inv, TypeOK
<1>3. Respects(p, to)
  <2>1. lock # None => lock.by # p
    BY <1>1, NotOwn DEF Past, Holding
  <2>2. lock # None /\ lockBoot \notin {None, boot} => ~second[p]
    BY <1>1 DEF Inv, OldUntouched, Idle
  <2> QED BY <1>1, <2>1, <2>2 DEF Respects, Past, Holding
<1>4. ASSUME ~raced' PROVE Behaves(p, to)
  <2>1. FoundLives
    BY <1>2, <1>4 DEF Inv, Looks, Undisturbed
  <2>2. ASSUME NEW q \in Proc, found'[p] = q, ~Idle(q) PROVE to # "remove"
    <3>1. found[p] = q
      BY <2>2 DEF IsRunning, own
    <3>2. read[p] = pid[q] /\ lock # None /\ lock.by = q
      BY <1>1, <2>1, <2>2, <3>1 DEF FoundLives
    <3>3. p # q
      BY <1>1, <3>2, NotOwn DEF Past, Holding
    <3>4. pid[p] # pid[q]
      BY <1>1, <2>2, <3>3 DEF Inv, PidsDiffer, Idle
    <3>5. running(read[p])
      BY <2>2, <3>2 DEF running
    <3> QED BY <3>2, <3>4, <3>5
  <2> QED BY <1>1, <2>2 DEF Behaves, Past, Holding
<1> HIDE DEF to
<1> QED BY <1>2, <1>3, <1>4, LooksInv

\* fromAnotherBoot reads the lock file, ...
LEMMA RecheckInv == ASSUME Inv, NEW p \in Proc, Recheck(p) PROVE Inv'
<1> DEFINE to == IF lock = None \/ lock.pid = None THEN "busy" ELSE "bootfile"
<1>1. pc[p] = "recheck" /\ to \in {"busy", "bootfile"} /\ pc' = [pc EXCEPT ![p] = to]
  BY DEF Recheck, Goto, At
<1>2. Looks(p, "recheck", to)
  <2>1. to \in Places
    BY <1>1 DEF Places, Trying
  <2>2. UNCHANGED <<lock, bootfile, lockBoot, boot, foreign, pid, second, raced>>
        /\ read' = [read EXCEPT ![p] = IF lock = None THEN None ELSE lock.pid]
        /\ found' = [found EXCEPT ![p] = IF lock = None THEN None ELSE lock.by]
    BY DEF Recheck, Reads, files, host
  <2> HIDE DEF to
  <2> QED BY <1>1, <2>1, <2>2, LooksFrom DEF Inv, TypeOK
<1>3. Respects(p, to)
  <2>1. lock # None => lock.by # p /\ read'[p] = lock.pid
    BY <1>1, NotOwn, ReadsGive DEF Past, Holding, Recheck
  <2>2. lock # None /\ lockBoot # None => lock.pid # None
    BY NoneIsNothing DEF Inv, TypeOK, BootRecorded, BootFiles
  <2> QED BY <1>1, <2>1, <2>2 DEF Respects, Past, Holding
<1>4. Behaves(p, to)
  <2> SUFFICES ASSUME NEW q \in Proc, to = "bootfile", found'[p] = q, ~Idle(q)
               PROVE  read'[p] = pid[q] /\ lock # None /\ lock.by = q
    BY <1>1 DEF Behaves, Past, Holding
  <2>1. lock # None
    OBVIOUS
  <2>2. read'[p] = lock.pid /\ lock.by = q
    BY <2>1, ReadsGive DEF Recheck
  <2>3. lock.pid = pid[q]
    BY <2>1, <2>2 DEF Inv, OwnFile
  <2> QED BY <2>1, <2>2, <2>3
<1> HIDE DEF to
<1> QED BY <1>2, <1>3, <1>4, LooksInv

\* ... and the boot file: that of a lock taken whole before a restart says so, and that of a
\* run that has the lock names this boot or is gone.
LEMMA ReadBootFileInv == ASSUME Inv, NEW p \in Proc, ReadBootFile(p) PROVE Inv'
<1> DEFINE to == IF fromAnotherBoot(p) THEN "removeOld" ELSE "busy"
<1>1. pc[p] = "bootfile" /\ to \in {"removeOld", "busy"} /\ pc' = [pc EXCEPT ![p] = to]
  BY DEF ReadBootFile, Goto, At
<1>2. Looks(p, "bootfile", to)
  <2>1. to \in Places
    BY <1>1 DEF Places, Trying
  <2>2. UNCHANGED <<lock, bootfile, lockBoot, boot, foreign, pid, second, read, found>>
        /\ raced' \in BOOLEAN /\ (raced => raced')
    BY DEF ReadBootFile, files, host, own, Inv, TypeOK
  <2> HIDE DEF to
  <2> QED BY <1>1, <2>1, <2>2, LooksFrom
<1>3. Respects(p, to)
  <2>1. lock # None => lock.by # p
    BY <1>1, NotOwn DEF Past, Holding
  <2>2. lock # None /\ lockBoot \notin {None, boot} => to # "busy"
    BY <1>1 DEF Inv, OldUntouched, BootRecorded, fromAnotherBoot, Idle
  <2> QED BY <1>1, <2>1, <2>2 DEF Respects, Past, Holding
<1>4. ASSUME ~raced' PROVE Behaves(p, to)
  <2>1. Undisturbed
    BY <1>2, <1>4 DEF Inv, Looks
  <2>2. ASSUME NEW q \in Proc, found'[p] = q, ~Idle(q), to = "removeOld" PROVE FALSE
    <3>1. found[p] = q /\ fromAnotherBoot(p)
      BY <2>2 DEF ReadBootFile, own
    <3>2. read[p] = pid[q] /\ lock # None /\ lock.by = q
      BY <1>1, <2>1, <2>2, <3>1 DEF Undisturbed, FoundLives
    <3>3. pc[q] \in Holding
      BY <1>4, <2>2, <3>1, <3>2 DEF Inv, OwnFile, Past, ReadBootFile, NotYetBooted
    <3>4. bootfile # None => bootfile.boot = boot
      BY <2>1, <3>3 DEF Undisturbed, HolderBooted, Holding
    <3> QED BY <3>1, <3>4 DEF fromAnotherBoot
  <2> HIDE DEF to
  <2> QED BY <1>1, <2>2 DEF Behaves, Past, Holding
<1> HIDE DEF to
<1> QED BY <1>2, <1>3, <1>4, LooksInv

\* Unlock: a run that has the lock finds its own pid there, ...
LEMMA UnlockOwnerInv == ASSUME Inv, NEW p \in Proc, UnlockOwner(p) PROVE Inv'
<1> DEFINE to == IF Owns(p) THEN "unboot" ELSE "unlock"
<1>1. pc[p] = "held" /\ to \in {"unboot", "unlock"} /\ pc' = [pc EXCEPT ![p] = to]
  BY DEF UnlockOwner, Goto, At
<1>2. Looks(p, "held", to)
  <2>1. to \in Places
    BY <1>1 DEF Places, Holding
  <2>2. UNCHANGED <<lock, bootfile, lockBoot, boot, foreign, pid, second, read, found, raced>>
    BY DEF UnlockOwner, files, host, own
  <2> HIDE DEF to
  <2> QED BY <1>1, <2>1, <2>2, LooksFrom DEF Inv, TypeOK
<1>3. Respects(p, to)
  BY <1>1 DEF Inv, OldUntouched, Respects, Past, Holding, Idle
<1>4. ASSUME ~raced' PROVE Behaves(p, to)
  <2>1. Undisturbed
    BY <1>2, <1>4 DEF Inv, Looks
  <2>2. lock # None /\ lock.by = p /\ lock.pid = pid[p]
    BY <1>1, <2>1 DEF Undisturbed, HolderLinked, Inv, OwnFile, Past, Holding, Idle
  <2>3. to = "unboot"
    BY <2>2 DEF Owns
  <2>4. bootfile = [pid |-> pid[p], boot |-> boot]
    BY <1>1, <2>1 DEF Undisturbed, HolderBooted
  <2> HIDE DEF to
  <2> QED BY <2>2, <2>3, <2>4 DEF Behaves
<1> HIDE DEF to
<1> QED BY <1>2, <1>3, <1>4, LooksInv

\* ... also when it asks again.
LEMMA UnlockInv == ASSUME Inv, NEW p \in Proc, Unlock(p) PROVE Inv'
<1> DEFINE to == IF Owns(p) THEN "unlink" ELSE "idle"
<1>1. pc[p] = "unlock" /\ to \in {"unlink", "idle"} /\ pc' = [pc EXCEPT ![p] = to]
  BY DEF Unlock, Goto, At
<1>2. Looks(p, "unlock", to)
  <2>1. to \in Places
    BY <1>1 DEF Places, Holding
  <2>2. UNCHANGED <<lock, bootfile, lockBoot, boot, foreign, pid, second, read, found, raced>>
    BY DEF Unlock, files, host, own
  <2> HIDE DEF to
  <2> QED BY <1>1, <2>1, <2>2, LooksFrom DEF Inv, TypeOK
<1>3. Respects(p, to)
  BY <1>1 DEF Inv, OldUntouched, Respects, Past, Holding, Idle
<1>4. ASSUME ~raced' PROVE Behaves(p, to)
  <2>1. Undisturbed
    BY <1>2, <1>4 DEF Inv, Looks
  <2>2. lock # None /\ lock.by = p /\ bootfile = None
    BY <1>1, <2>1 DEF Undisturbed, HolderLinked, HolderBooted, Past, Holding
  <2> HIDE DEF to
  <2> QED BY <1>1, <2>2 DEF Behaves, Past, Holding
<1> HIDE DEF to
<1> QED BY <1>2, <1>3, <1>4, LooksInv

\* A run that did not get the lock exits, and one is killed anywhere: it leaves the files.
LEMMA ExitInv ==
    ASSUME Inv, NEW p \in Proc, pc[p] # "idle", pc' = [pc EXCEPT ![p] = "idle"],
           UNCHANGED <<lock, bootfile, lockBoot, boot, foreign, pid, second, read, found, raced>>
    PROVE  Inv'
<1>1. Looks(p, pc[p], "idle")
  BY LooksFrom DEF Places, Inv, TypeOK
<1>2. Respects(p, "idle") /\ Behaves(p, "idle")
  BY DEF Respects, Behaves, Past, Holding
<1> QED BY <1>1, <1>2, LooksInv

LEMMA RefusedInv == ASSUME Inv, NEW p \in Proc, Refused(p) PROVE Inv'
BY ExitInv DEF Refused, files, host, own

LEMMA KillInv == ASSUME Inv, NEW p \in Proc, Kill(p) PROVE Inv'
BY ExitInv DEF Kill, Idle, files, host, own

-----------------------------------------------------------------------------
(* The steps that write and remove the files.                               *)

\* A run starts, under a pid nobody has; what its process left is nobody's.
LEMMA StartInv == ASSUME Inv, NEW p \in Proc, NEW n \in Pid, Start(p, n) PROVE Inv'
<1>1. Steps(p, "idle", "link") /\ pc' \in [Proc -> Places]
  BY StepsPlace DEF Start, At, Inv, Places, Trying
<1>2. pid' = [pid EXCEPT ![p] = n] /\ second' = [second EXCEPT ![p] = FALSE]
      /\ lock' = (IF lock # None /\ lock.by = p THEN [lock EXCEPT !.by = None] ELSE lock)
      /\ found' = [q \in Proc |-> IF found[q] = p THEN None ELSE found[q]]
      /\ UNCHANGED <<bootfile, boot, foreign, read, raced, lockBoot>>
  BY DEF Start, host
<1>3. pid'[p] = n /\ second'[p] = FALSE
      /\ \A q \in Proc \ {p} : pid'[q] = pid[q] /\ second'[q] = second[q]
  BY <1>2 DEF Inv, TypeOK
<1>4. /\ lock' = None <=> lock = None
      /\ lock # None => lock'.pid = lock.pid /\ lock'.by \in {lock.by, None} \ {p}
      /\ lock # None /\ lock.by # p => lock' = lock
  BY <1>2, LockIsFile, NoneIsNothing DEF Inv, Files
<1>5. TypeOK'
  <2>1. lock' \in Files \cup {None}
    BY <1>2, LockIsFile DEF Files, Inv, TypeOK
  <2>2. pid' \in [Proc -> Pid \cup {None}] /\ second' \in [Proc -> BOOLEAN]
        /\ found' \in [Proc -> Proc \cup {None}]
    BY <1>2 DEF Inv, TypeOK
  <2> QED BY <1>1, <1>2, <2>1, <2>2 DEF Inv, TypeOK
<1>6. PidsDiffer'
  <2>1. \A q \in Proc : pc[q] # "idle" => pid[q] # n
    BY DEF Start, running, Idle
  <2> QED BY <1>1, <1>3, <2>1 DEF Inv, PidsDiffer, Idle, Steps
<1>7. OwnFile'
  <2> SUFFICES ASSUME NEW q \in Proc, pc'[q] # "idle", lock' # None, lock'.by = q
               PROVE  lock'.pid = pid'[q] /\ pc'[q] \in {"stat"} \cup Past
    BY DEF OwnFile, Idle, Past, Holding
  <2>1. q # p /\ lock # None /\ lock.by = q /\ lock' = lock
    BY <1>4, NoneIsNothing
  <2> QED BY <1>1, <1>3, <2>1 DEF Inv, OwnFile, Idle, Steps
<1>8. BootRecorded'
  BY <1>2, <1>4 DEF Inv, BootRecorded
<1>9. OldUntouched'
  <2> SUFFICES ASSUME lock # None, lockBoot \notin {None, boot}, NEW q \in Proc, pc'[q] # "idle"
               PROVE  /\ pc'[q] \notin Past \cup {"busy"} /\ ~second'[q] /\ lock'.by # q
                      /\ (pc'[q] = "bootfile" => read[q] = lock.pid)
    BY <1>2, <1>4 DEF OldUntouched, Idle, Past, Holding
  <2>1. CASE q = p
    BY <1>1, <1>3, <1>4, <2>1 DEF Steps, Past, Holding
  <2>2. CASE q # p
    BY <1>1, <1>3, <1>4, <2>2, NoneIsNothing DEF Inv, OldUntouched, Idle, Steps
  <2> QED BY <2>1, <2>2
<1>10. ASSUME ~raced' PROVE Undisturbed'
  <2>1. Undisturbed
    BY <1>2, <1>10 DEF Inv
  <2>2. HolderLinked'
    BY <1>1, <1>4, <2>1 DEF Undisturbed, HolderLinked, Steps, Past, Holding
  <2>3. HolderBooted'
    BY <1>1, <1>2, <1>3, <2>1 DEF Undisturbed, HolderBooted, Steps
  <2>4. FoundLives'
    <3> SUFFICES ASSUME NEW r \in Proc, NEW q \in Proc, pc'[q] # "idle", found'[r] = q,
                        pc'[r] \in {"alive", "bootfile", "remove", "removeOld"}
                 PROVE  pc'[r] \in {"alive", "bootfile"} /\ read[r] = pid'[q] /\ lock' # None /\ lock'.by = q
      BY <1>2 DEF FoundLives, Idle
    <3>1. r # p /\ pc[r] = pc'[r]
      BY <1>1 DEF Steps
    <3>2. q # p /\ found[r] = q /\ pc[q] # "idle" /\ pid'[q] = pid[q]
      BY <1>1, <1>2, <1>3, NoneIsNothing DEF Steps
    <3>3. pc[r] \in {"alive", "bootfile"} /\ read[r] = pid[q] /\ lock # None /\ lock.by = q
      BY <2>1, <3>1, <3>2 DEF Undisturbed, FoundLives, Idle
    <3> QED BY <1>4, <3>1, <3>2, <3>3
  <2> QED BY <2>2, <2>3, <2>4 DEF Undisturbed
<1> QED BY <1>5, <1>6, <1>7, <1>8, <1>9, <1>10 DEF Inv

\* Where no lock is, as long as nothing raced, no run has it and none that lives was found.
LEMMA Unlocked ==
    ASSUME Undisturbed, lock = None
    PROVE  /\ \A q \in Proc : pc[q] \notin Past
           /\ \A r, q \in Proc : pc[r] \in {"alive", "bootfile", "remove", "removeOld"} /\ found[r] = q
                => pc[q] = "idle"
BY DEF Undisturbed, HolderLinked, FoundLives, Idle

\* os.Link fails, or makes the run's own lock where there is none.
LEMMA LinkInv == ASSUME Inv, NEW p \in Proc, Link(p) PROVE Inv'
<1>1. Steps(p, "link", "stat") /\ pc' \in [Proc -> Places] /\ pc[p] = "link"
  BY StepsPlace DEF Link, At, Inv, Places, Trying, Steps
<1>2. UNCHANGED <<bootfile, boot, foreign, pid, read, second, found, raced>>
  BY DEF Link, host, own
<1>3. CASE lock # None
  <2>1. UNCHANGED <<lock, lockBoot>>
    BY <1>3 DEF Link
  <2>2. Looks(p, "link", "stat")
    BY <1>1, <1>2, <2>1 DEF Looks, Inv, TypeOK
  <2>3. Respects(p, "stat") /\ Behaves(p, "stat")
    BY DEF Respects, Behaves, Past, Holding
  <2> QED BY <2>2, <2>3, LooksInv
<1>4. CASE lock = None
  <2>1. lock' = [pid |-> pid[p], by |-> p] /\ lockBoot' = None
    BY <1>4 DEF Link
  <2>2. lock'.pid = pid[p] /\ lock'.by = p /\ lock' \in Files
    BY <2>1 DEF Files, Inv, TypeOK
  <2>3. TypeOK'
    BY <1>1, <1>2, <2>1, <2>2 DEF Inv, TypeOK
  <2>4. PidsDiffer'
    BY <1>1, <1>2, PidsKept DEF Inv
  <2>5. OwnFile'
    BY <1>1, <1>2, <2>2 DEF OwnFile, Steps
  <2>6. BootRecorded' /\ OldUntouched'
    BY <2>1 DEF BootRecorded, OldUntouched
  <2>7. ASSUME ~raced' PROVE Undisturbed'
    <3>1. Undisturbed
      BY <1>2, <2>7 DEF Inv
    <3>2. \A q \in Proc : pc'[q] \notin Past
      BY <1>1, <1>4, <3>1, Unlocked DEF Steps, Past, Holding
    <3>3. HolderLinked' /\ HolderBooted'
      BY <3>2 DEF HolderLinked, HolderBooted, Past, Holding
    <3>4. FoundLives'
      <4> SUFFICES ASSUME NEW r \in Proc, NEW q \in Proc, pc'[q] # "idle", found[r] = q,
                          pc'[r] \in {"alive", "bootfile", "remove", "removeOld"}
                   PROVE  FALSE
        BY <1>2 DEF FoundLives, Idle
      <4>1. r # p /\ pc[r] = pc'[r] /\ pc[q] # "idle"
        BY <1>1 DEF Steps
      <4> QED BY <1>4, <3>1, <4>1, Unlocked
    <3> QED BY <3>3, <3>4 DEF Undisturbed
  <2> QED BY <2>3, <2>4, <2>5, <2>6, <2>7 DEF Inv
<1> QED BY <1>3, <1>4

\* A run removes the lock that is there by now: that of the run it found ended, unless it raced.
LEMMA RemoveInv ==
    ASSUME Inv, NEW p \in Proc, pc[p] \in {"remove", "removeOld"}, pc' = [pc EXCEPT ![p] = "link"],
           lock' = None, lockBoot' = None, second' \in [Proc -> BOOLEAN],
           UNCHANGED <<bootfile, boot, foreign, pid, read, found>>, raced' = (raced \/ TakesAnother(p))
    PROVE  Inv'
<1>1. Steps(p, pc[p], "link") /\ pc' \in [Proc -> Places]
  BY StepsPlace DEF Inv, Places, Trying
<1>2. TypeOK'
  BY <1>1 DEF Inv, TypeOK
<1>3. PidsDiffer'
  BY <1>1, PidsKept DEF Inv
<1>4. OwnFile' /\ BootRecorded' /\ OldUntouched'
  BY DEF OwnFile, BootRecorded, OldUntouched
<1>5. ASSUME ~raced' PROVE Undisturbed'
  <2>1. Undisturbed /\ ~TakesAnother(p)
    BY <1>5 DEF Inv
  <2>2. ASSUME NEW q \in Proc, lock # None, lock.by = q, pc[q] # "idle" PROVE FALSE
    <3>1. found[p] = q
      BY <2>1, <2>2 DEF TakesAnother, Idle
    <3> QED BY <2>1, <2>2, <3>1 DEF Undisturbed, FoundLives, Idle
  <2>3. \A q \in Proc : pc'[q] \notin Past
    BY <1>1, <2>1, <2>2 DEF Undisturbed, HolderLinked, Steps, Past, Holding
  <2>4. HolderLinked' /\ HolderBooted'
    BY <2>3 DEF HolderLinked, HolderBooted, Past, Holding
  <2>5. FoundLives'
    <3> SUFFICES ASSUME NEW r \in Proc, NEW q \in Proc, pc'[q] # "idle", found[r] = q,
                        pc'[r] \in {"alive", "bootfile", "remove", "removeOld"}
                 PROVE  FALSE
      BY DEF FoundLives, Idle
    <3>1. pc[r] = pc'[r] /\ pc[q] # "idle"
      BY <1>1 DEF Steps
    <3>2. lock # None /\ lock.by = q
      BY <2>1, <3>1 DEF Undisturbed, FoundLives, Idle
    <3> QED BY <2>2, <3>1, <3>2
  <2> QED BY <2>4, <2>5 DEF Undisturbed
<1> QED BY <1>2, <1>3, <1>4, <1>5 DEF Inv

LEMMA RemoveDeadInv == ASSUME Inv, NEW p \in Proc, RemoveDead(p) PROVE Inv'
<1>1. second' \in [Proc -> BOOLEAN]
  BY DEF RemoveDead, own, Inv, TypeOK
<1> QED BY <1>1, RemoveInv DEF RemoveDead, At, host, own

LEMMA RemoveOldInv == ASSUME Inv, NEW p \in Proc, RemoveOld(p) PROVE Inv'
<1>1. second' \in [Proc -> BOOLEAN]
  BY DEF RemoveOld, Inv, TypeOK
<1> QED BY <1>1, RemoveInv DEF RemoveOld, At, host

\* TryLock writes the boot file of this boot and returns.
LEMMA WriteBootInv == ASSUME Inv, NEW p \in Proc, WriteBoot(p) PROVE Inv'
<1>1. Steps(p, "writeBoot", "held") /\ pc' \in [Proc -> Places]
  BY StepsPlace DEF WriteBoot, At, Inv, Places, Holding, Steps
<1>2. /\ bootfile' = [pid |-> pid[p], boot |-> boot]
      /\ lockBoot' = (IF lock # None /\ lock.by = p THEN boot ELSE None)
      /\ UNCHANGED <<lock, boot, foreign, pid, read, second, found, raced>>
  BY DEF WriteBoot, host, own
<1>3. bootfile' \in BootFiles /\ bootfile' # None
  <2>1. pid[p] \in Pid
    BY <1>1 DEF Inv, PidsDiffer, Idle, Steps
  <2> QED BY <1>2, <2>1, NoneIsNothing DEF BootFiles, Inv, TypeOK
<1>4. TypeOK'
  BY <1>1, <1>2, <1>3 DEF Inv, TypeOK
<1>5. PidsDiffer'
  BY <1>1, <1>2, PidsKept DEF Inv
<1>6. OwnFile'
  BY <1>1, <1>2 DEF Inv, OwnFile, Steps, Idle, Past, Holding
<1>7. BootRecorded'
  BY <1>1, <1>2, <1>3 DEF Inv, OwnFile, BootRecorded, Steps, Idle
<1>8. OldUntouched'
  BY <1>2 DEF OldUntouched
<1>9. ASSUME ~raced' PROVE Undisturbed'
  <2>1. Undisturbed
    BY <1>2, <1>9 DEF Inv
  <2>2. \A q \in Proc \ {p} : pc'[q] \notin Past
    BY <1>1, <2>1, PastAlone DEF Undisturbed, Steps, Past
  <2>3. HolderLinked'
    BY <1>1, <1>2, <2>1, <2>2 DEF Undisturbed, HolderLinked, Steps, Past
  <2>4. HolderBooted'
    BY <1>1, <1>2, <2>2 DEF HolderBooted, Steps, Past, Holding
  <2>5. FoundLives'
    BY <1>1, <1>2, <2>1 DEF Undisturbed, FoundLives, Steps, Idle
  <2> QED BY <2>3, <2>4, <2>5 DEF Undisturbed
<1> QED BY <1>4, <1>5, <1>6, <1>7, <1>8, <1>9 DEF Inv

\* Unlock removes the boot file first, ...
LEMMA RemoveBootFileInv == ASSUME Inv, NEW p \in Proc, RemoveBootFile(p) PROVE Inv'
<1>1. Steps(p, "unboot", "unlock") /\ pc' \in [Proc -> Places]
  BY StepsPlace DEF RemoveBootFile, At, Inv, Places, Holding, Steps
<1>2. bootfile' = None /\ lockBoot' = None
      /\ UNCHANGED <<lock, boot, foreign, pid, read, second, found, raced>>
  BY DEF RemoveBootFile, host, own
<1>3. TypeOK'
  BY <1>1, <1>2 DEF Inv, TypeOK
<1>4. PidsDiffer'
  BY <1>1, <1>2, PidsKept DEF Inv
<1>5. OwnFile'
  BY <1>1, <1>2 DEF Inv, OwnFile, Steps, Idle, Past, Holding
<1>6. BootRecorded' /\ OldUntouched'
  BY <1>2 DEF BootRecorded, OldUntouched
<1>7. ASSUME ~raced' PROVE Undisturbed'
  <2>1. Undisturbed
    BY <1>2, <1>7 DEF Inv
  <2>2. \A q \in Proc \ {p} : pc'[q] \notin Past
    BY <1>1, <2>1, PastAlone DEF Undisturbed, Steps, Past, Holding
  <2>3. HolderLinked'
    BY <1>1, <1>2, <2>1, <2>2 DEF Undisturbed, HolderLinked, Steps, Past, Holding
  <2>4. HolderBooted'
    BY <1>1, <1>2, <2>2 DEF HolderBooted, Steps, Past, Holding
  <2>5. FoundLives'
    BY <1>1, <1>2, <2>1 DEF Undisturbed, FoundLives, Steps, Idle
  <2> QED BY <2>3, <2>4, <2>5 DEF Undisturbed
<1> QED BY <1>3, <1>4, <1>5, <1>6, <1>7 DEF Inv

\* ... and then the lock, which is its own unless something raced.
LEMMA RemoveLockInv == ASSUME Inv, NEW p \in Proc, RemoveLock(p) PROVE Inv'
<1>1. Steps(p, "unlink", "idle") /\ pc' \in [Proc -> Places]
  BY StepsPlace DEF RemoveLock, At, Inv, Places, Steps
<1>2. lock' = None /\ lockBoot' = None
      /\ UNCHANGED <<bootfile, boot, foreign, pid, read, second, found, raced>>
  BY DEF RemoveLock, host, own
<1>3. TypeOK'
  BY <1>1, <1>2 DEF Inv, TypeOK
<1>4. PidsDiffer'
  BY <1>1, <1>2, PidsKept DEF Inv
<1>5. OwnFile' /\ BootRecorded' /\ OldUntouched'
  BY <1>2 DEF OwnFile, BootRecorded, OldUntouched
<1>6. ASSUME ~raced' PROVE Undisturbed'
  <2>1. Undisturbed
    BY <1>2, <1>6 DEF Inv
  <2>2. lock.by = p
    BY <1>1, <2>1 DEF Undisturbed, HolderLinked, Steps, Past, Holding
  <2>3. \A q \in Proc : pc'[q] \notin Past
    <3>1. \A q \in Proc \ {p} : pc[q] \notin Past
      BY <1>1, <2>1, PastAlone DEF Undisturbed, Steps, Past, Holding
    <3> QED BY <1>1, <3>1 DEF Steps, Past, Holding
  <2>4. HolderLinked' /\ HolderBooted'
    BY <2>3 DEF HolderLinked, HolderBooted, Past, Holding
  <2>5. FoundLives'
    <3> SUFFICES ASSUME NEW r \in Proc, NEW q \in Proc, pc'[q] # "idle", found[r] = q,
                        pc'[r] \in {"alive", "bootfile", "remove", "removeOld"}
                 PROVE  FALSE
      BY <1>2 DEF FoundLives, Idle
    <3>1. pc[r] = pc'[r] /\ pc[q] # "idle" /\ q # p
      BY <1>1 DEF Steps
    <3>2. lock.by = q
      BY <2>1, <3>1 DEF Undisturbed, FoundLives, Idle
    <3> QED BY <2>2, <3>1, <3>2
  <2> QED BY <2>4, <2>5 DEF Undisturbed
<1> QED BY <1>3, <1>4, <1>5, <1>6 DEF Inv

\* A restart ends every run; a power loss takes or empties what was not synced.
LEMMA RebootInv == ASSUME Inv, Reboot PROVE Inv'
<1>1. \A q \in Proc : pc'[q] = "idle"
  BY DEF Reboot
<1>2. UNCHANGED <<pid, read, second, found, raced>>
  BY DEF Reboot, own
<1>3. TypeOK'
  <2>1. pc' \in [Proc -> Places]
    BY DEF Reboot, Places
  <2>2. boot' \in Nat /\ foreign' \subseteq Pid /\ bootfile' \in BootFiles \cup {None}
    BY DEF Reboot, Inv, TypeOK
  <2>3. lock' \in Files \cup {None}
    <3>1. Emptied \in Files \cup {None}
      BY LockIsFile DEF Emptied, Files, Inv, TypeOK
    <3> QED BY <3>1 DEF Reboot, Inv, TypeOK
  <2>4. lockBoot' \in Nat \cup {None}
    BY DEF Reboot, Inv, TypeOK
  <2> QED BY <1>2, <2>1, <2>2, <2>3, <2>4 DEF Inv, TypeOK
<1>4. PidsDiffer' /\ OwnFile' /\ OldUntouched'
  BY <1>1 DEF PidsDiffer, OwnFile, OldUntouched, Idle
<1>5. BootRecorded'
  BY DEF Inv, BootRecorded, Reboot
<1>6. Undisturbed'
  BY <1>1 DEF Undisturbed, HolderLinked, HolderBooted, FoundLives, Past, Holding
<1> QED BY <1>3, <1>4, <1>5, <1>6 DEF Inv

-----------------------------------------------------------------------------
LEMMA StepInv == Inv /\ [Next]_vars => Inv'
<1> SUFFICES ASSUME Inv, [Next]_vars PROVE Inv'
  OBVIOUS
<1>1. ASSUME NEW p \in Proc, NEW n \in Pid, Start(p, n) PROVE Inv'
  BY <1>1, StartInv
<1>2. ASSUME NEW p \in Proc, Link(p) \/ Stat(p) \/ ReadOwner(p) \/ IsRunning(p) \/ RemoveDead(p) PROVE Inv'
  BY <1>2, LinkInv, StatInv, ReadOwnerInv, IsRunningInv, RemoveDeadInv
<1>3. ASSUME NEW p \in Proc, Recheck(p) \/ ReadBootFile(p) \/ RemoveOld(p) \/ WriteBoot(p) PROVE Inv'
  BY <1>3, RecheckInv, ReadBootFileInv, RemoveOldInv, WriteBootInv
<1>4. ASSUME NEW p \in Proc, UnlockOwner(p) \/ RemoveBootFile(p) \/ Unlock(p) \/ RemoveLock(p) PROVE Inv'
  BY <1>4, UnlockOwnerInv, RemoveBootFileInv, UnlockInv, RemoveLockInv
<1>5. ASSUME NEW p \in Proc, Refused(p) \/ Kill(p) PROVE Inv'
  BY <1>5, RefusedInv, KillInv
<1>6. CASE Reboot
  BY <1>6, RebootInv
<1>7. CASE UNCHANGED vars
  <2>1. TypeOK' /\ PidsDiffer' /\ OwnFile' /\ BootRecorded'
    BY <1>7 DEF vars, Inv, TypeOK, PidsDiffer, OwnFile, BootRecorded, Idle
  <2>2. OldUntouched' /\ (raced' \/ Undisturbed')
    BY <1>7 DEF vars, Inv, OldUntouched, Undisturbed, HolderLinked, HolderBooted, FoundLives, Idle
  <2> QED BY <2>1, <2>2 DEF Inv
<1> QED BY <1>1, <1>2, <1>3, <1>4, <1>5, <1>6, <1>7 DEF Next

\* The inductive invariant holds in every state, with any number of runs in TryLock together.
THEOREM Invariance == Spec => []Inv
BY InitInv, StepInv, PTL DEF Spec

\* "Make sure nobody else is working on the same volume/dataset we are!" (Backup), as far as
\* it is so: through any kills, restarts, power losses and pids that are given again, two runs
\* hold the lock only once one removed another lock than the one it had looked at, or a lock
\* whose run had not yet written its boot file.
THEOREM SecondHolderRaced == Spec => []ExclusionUnlessRaced
<1>1. Inv => ExclusionUnlessRaced
  BY PastAlone DEF Inv, Undisturbed, ExclusionUnlessRaced, MutualExclusion, Past, Holding
<1> QED BY <1>1, Invariance, PTL

\* "A lock whose boot file names this pid and another boot is from before the restart"
\* (bootLock): no such lock makes a run exit, whichever program has its pid now and however
\* many runs look at it together.
THEOREM OldBootIsNoObstacle == Spec => []OldBootNeverBlocks
<1>1. Inv => OldBootNeverBlocks
  BY DEF Inv, OldUntouched, OldBootNeverBlocks, Idle
<1> QED BY <1>1, Invariance, PTL
=============================================================================
