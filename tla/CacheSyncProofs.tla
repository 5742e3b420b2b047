--------------------------- MODULE CacheSyncProofs ---------------------------
(***************************************************************************)
(* The cached manifest describes what is at the destination, readers get   *)
(* published manifests and what is published restores: for any number of   *)
(* volumes, sends, readers, kills, losses, deletions and cleans, where no  *)
(* power loss follows a kill or a clean, and no reader meets a deletion.   *)
(***************************************************************************)
EXTENDS CacheSync, WellFoundedInduction, TLAPS

-----------------------------------------------------------------------------
(* Volumes that --resume keeps.                                            *)

\* A bounded set of numbers that is not empty has a largest one.
LEMMA LargestNumber ==
    ASSUME NEW n \in Nat, NEW S \in SUBSET (0..n), S # {}
    PROVE  \E m \in S : \A k \in S : k <= m
<1> DEFINE T == {n - k : k \in S}
           R == OpToRel(<, Nat)
<1>1. T \subseteq Nat /\ T # {}
  <2>1. \A k \in S : n - k \in Nat
    OBVIOUS
  <2>2. PICK k \in S : TRUE
    OBVIOUS
  <2>3. n - k \in T
    BY <2>2
  <2> QED BY <2>1, <2>3
<1>2. IsWellFoundedOn(R, Nat)
  BY NatLessThanWellFounded
<1>3. PICK x \in T : \A y \in T : ~(<<y, x>> \in R)
  <2> HIDE DEF T, R
  <2> QED BY <1>1, <1>2, WFMin
<1>4. \A y \in T : ~(y < x)
  BY <1>1, <1>3 DEF OpToRel
<1>5. PICK m \in S : x = n - m
  OBVIOUS
<1>6. \A k \in S : ~(n - k < n - m)
  BY <1>4, <1>5
<1> QED BY <1>6

\* verifiedVolumes is a prefix of the cached volumes, all of which are at the destination.
LEMMA VerifiedFacts ==
    ASSUME Inv, NEW m \in Manifests, Describes(m)
    PROVE  /\ verifiedVolumes(m) \in Seq(Nat) /\ Len(verifiedVolumes(m)) <= Len(m.vols)
           /\ \A i \in DOMAIN verifiedVolumes(m) : object[i] = verifiedVolumes(m)[i]
<1> DEFINE there == {n \in 0..Len(m.vols) : \A i \in 1..n : object[i] # None}
           n == CHOOSE n \in there : \A k \in there : k <= n
<1>1. m.vols \in Seq(Nat) /\ Len(m.vols) \in Nat
  BY DEF Manifests
<1>2. there \in SUBSET (0..Len(m.vols)) /\ 0 \in there
  BY <1>1
<1>3. \E k \in there : \A l \in there : l <= k
  <2> HIDE DEF there
  <2> QED BY <1>1, <1>2, LargestNumber
<1>4. n \in there
  BY <1>3
<1>5. n \in 0..Len(m.vols) /\ \A i \in 1..n : object[i] # None
  BY <1>4
<1>6. verifiedVolumes(m) = SubSeq(m.vols, 1, n)
  BY DEF verifiedVolumes
<1> HIDE DEF n, there
<1>7. verifiedVolumes(m) \in Seq(Nat) /\ Len(verifiedVolumes(m)) = n
      /\ \A i \in 1..n : verifiedVolumes(m)[i] = m.vols[i] /\ i \in DOMAIN m.vols
  BY <1>1, <1>5, <1>6
<1>8. \A i \in 1..n : object[i] = m.vols[i]
  BY <1>5, <1>7 DEF Describes
<1> QED BY <1>1, <1>5, <1>7, <1>8

-----------------------------------------------------------------------------
(* The directory of the cache, and what may be found of it.                *)

LEMMA NoneFacts ==
    /\ None # Damaged /\ None \notin Nat /\ None \notin Manifests /\ Damaged \notin Manifests
    /\ NumVolumes \in Nat /\ NumVolumes > 0
BY CacheAssumption

\* A live file is a manifest.
LEMMA FileFacts ==
    ASSUME NEW d \in Dirs
    PROVE  /\ d.file \in Files /\ d.legacy \in Files /\ d = [file |-> d.file, legacy |-> d.legacy]
           /\ \A m \in {d.file, d.legacy} : Live(m) => m \in Manifests
BY DEF Dirs, Files, Live

\* The manifest of what a send has recorded.
LEMMA ManifestFacts ==
    ASSUME Inv, NEW f \in BOOLEAN
    PROVE  /\ Manifest(vols, f) \in Manifests /\ Live(Manifest(vols, f))
           /\ Manifest(vols, f).vols = vols /\ Manifest(vols, f).final = f
<1>1. Manifest(vols, f) \in Manifests
  BY DEF Inv, TypeOK, Manifest, Manifests
<1> QED BY <1>1, NoneFacts DEF Manifest, Live

LEMMA DirPossible == ASSUME Inv PROVE dir \in Possible /\ Possible \subseteq maybe /\ Possible \subseteq Dirs
BY DEF Inv, TypeOK, Possible

LEMMA CountFacts ==
    ASSUME Inv, NEW what \in Bounded, Count(what)
    PROVE  /\ left' \in [Bounded -> Nat] /\ left[what] > 0
           /\ \A w \in Bounded : left'[w] <= left[w] /\ (w # what => left'[w] = left[w])
BY DEF Inv, TypeOK, Count

\* A step that counts down, and starts no reader, keeps the budget.
Spends == /\ left' \in [Bounded -> Nat] /\ \A w \in Bounded : left'[w] <= left[w]
          /\ mayRead' => mayRead

LEMMA SpendsFacts ==
    ASSUME Inv, Spends
    PROVE  /\ BudgetKept' /\ (mayRead' => mayRead /\ left["delete"] = 0)
           /\ (left'["loss"] > 0 => left["loss"] > 0 /\ left["kill"] = 0 /\ left["clean"] = 0)
           /\ (left'["delete"] > 0 => left["delete"] > 0)
<1>1. \A w \in Bounded : left[w] \in Nat /\ left'[w] \in Nat /\ left'[w] <= left[w]
  BY DEF Inv, TypeOK, Spends
<1>2. {"attempt", "read", "kill", "loss", "delete", "clean"} \subseteq Bounded
  BY DEF Bounded
<1>3. mayRead' => mayRead /\ left["delete"] = 0
  BY DEF Spends, Inv, BudgetKept
<1>4. left'["loss"] > 0 => left["loss"] > 0
  BY <1>1, <1>2
<1>5. left'["loss"] > 0 => left["kill"] = 0 /\ left["clean"] = 0
  BY <1>4 DEF Inv, BudgetKept
<1>6. left["delete"] = 0 => left'["delete"] = 0
  BY <1>1, <1>2
<1>7. left'["loss"] > 0 => left'["kill"] = 0 /\ left'["clean"] = 0
  BY <1>1, <1>2, <1>5
<1>8. BudgetKept'
  BY <1>3, <1>6, <1>7 DEF BudgetKept
<1> QED BY <1>1, <1>2, <1>3, <1>4, <1>5, <1>8


LEMMA UnspentSpends ==
    ASSUME Inv, UNCHANGED left, rpc' # "idle" => mayRead
    PROVE  Spends
<1>1. left \in [Bounded -> Nat] /\ \A w \in Bounded : left[w] <= left[w]
  BY DEF Inv, TypeOK
<1> QED BY <1>1 DEF Spends, mayRead

LEMMA CountSpends ==
    ASSUME Inv, NEW what \in Bounded, Count(what), rpc' # "idle" => mayRead
    PROVE  Spends
<1>1. left' \in [Bounded -> Nat] /\ \A w \in Bounded : left'[w] <= left[w]
  BY CountFacts
<1>2. left'["read"] > 0 => left["read"] > 0
  BY <1>1 DEF Bounded, Inv, TypeOK
<1> QED BY <1>1, <1>2 DEF Spends, mayRead

\* The states before the first step.
LEMMA InitInv == Init /\ Tame(left) => Inv
<1> SUFFICES ASSUME Init, Tame(left) PROVE Inv
  OBVIOUS
<1> DEFINE partial == Manifest(<<0>>, FALSE)
<1>1. partial \in Manifests /\ partial.vols = <<0>> /\ partial.final = FALSE /\ DOMAIN partial.vols = {1}
  <2>1. <<0>> \in Seq(Nat) /\ Len(<<0>>) = 1
    OBVIOUS
  <2>2. DOMAIN <<0>> = 1..1 /\ 1..1 = {1}
    BY <2>1
  <2>3. 1 <= NumVolumes
    BY NoneFacts
  <2>4. partial \in Manifests
    BY <2>1, <2>3 DEF Manifest, Manifests
  <2> QED BY <2>2, <2>4 DEF Manifest
<1>2. Whole \in Manifests /\ \A i \in DOMAIN Whole.vols : i \in 1..NumVolumes /\ Whole.vols[i] = 0
  <2>1. [i \in 1..NumVolumes |-> 0] \in Seq(Nat) /\ Len([i \in 1..NumVolumes |-> 0]) = NumVolumes
    BY NoneFacts
  <2> QED BY <2>1, NoneFacts DEF Whole, Manifest, Manifests
<1>3. maybe = {dir} /\ wpc = "idle" /\ vols = <<>> /\ rpc = "idle" /\ hold = None /\ again = FALSE
      /\ got = None /\ left \in [Bounded -> Nat]
  BY CacheAssumption DEF Init
<1>4. Possible = {dir}
  BY <1>3 DEF Possible
<1>5. BudgetKept
  <2>1. left["loss"] \in Nat /\ left["read"] \in Nat /\ left["delete"] \in Nat
    BY <1>3 DEF Bounded
  <2> QED BY <1>3, <2>1 DEF BudgetKept, Tame, mayRead
<1> HIDE DEF partial
<1>6. \/ /\ object = [i \in 1..NumVolumes |-> IF i = 1 THEN 0 ELSE None] /\ published = None /\ ever = {}
         /\ dir \in [file : {None, Damaged, partial}, legacy : {None, partial}]
      \/ /\ object = [i \in 1..NumVolumes |-> 0] /\ published = Whole /\ ever = {Whole}
         /\ dir \in [file : {None, Damaged}, legacy : {None, Whole}]
  BY DEF Init, partial
<1>7. TypeOK
  <2>1. object \in [1..NumVolumes -> Nat \cup {None}]
    BY <1>6
  <2>2. dir \in Dirs
    BY <1>1, <1>2, <1>6 DEF Dirs, Files
  <2>3. published \in Manifests \cup {None} /\ ever \subseteq Manifests
    BY <1>2, <1>6
  <2>4. vols \in Seq(Nat) /\ Len(vols) <= NumVolumes
    BY <1>3, NoneFacts
  <2> QED BY <1>3, <2>1, <2>2, <2>3, <2>4 DEF TypeOK
<1>8. AllDescribed
  <2>1. \A m \in {dir.file, dir.legacy} : Live(m) => Describes(m)
    BY <1>1, <1>2, <1>6, NoneFacts DEF Live, Describes
  <2>2. published # None => Describes(published) /\ published \in ever
    BY <1>2, <1>6 DEF Describes
  <2> QED BY <1>3, <1>4, <2>1, <2>2 DEF AllDescribed
<1>9. SendAlone /\ CacheOfSend /\ EmptyIsSynced
  BY <1>3 DEF SendAlone, CacheOfSend, EmptyIsSynced, Listed
<1>10. ReadersSafe
  BY <1>3, <1>4, <1>6 DEF ReadersSafe
<1>11. FinalIsSynced
  BY <1>1, <1>2, <1>3, <1>4, <1>6, NoneFacts DEF FinalIsSynced, Live
<1> QED BY <1>5, <1>7, <1>8, <1>9, <1>10, <1>11 DEF Inv

-----------------------------------------------------------------------------
(* Steps that change neither the destination nor the cache.                *)

LEMMA QuietInv ==
    ASSUME Inv, Spends, UNCHANGED <<object, published, ever, dir, maybe>>,
           TypeOK', SendAlone', CacheOfSend',
           got' \in ever \cup {got, None},
           left'["loss"] > 0 => /\ wpc = "discardSync" => wpc' = "discardSync"
                                /\ wpc = "finalSync" => wpc' = "finalSync",
           rpc' = "drop" => rpc = "drop" \/ dir.file # None,
           rpc' = "rename" => hold' = published \/ (rpc = "rename" /\ hold' = hold)
    PROVE  Inv'
<1>1. BudgetKept' /\ (mayRead' => mayRead /\ left["delete"] = 0)
      /\ (left'["loss"] > 0 => left["loss"] > 0)
      /\ (left'["delete"] > 0 => left["delete"] > 0)
  BY SpendsFacts
<1>2. Possible' \subseteq Possible
  BY <1>1, DirPossible DEF Possible
<1>3. AllDescribed'
  BY <1>2 DEF Inv, AllDescribed, Describes
<1>4. EmptyIsSynced'
  BY <1>1 DEF Inv, EmptyIsSynced
<1>5. ReadersSafe'
  BY <1>1, <1>2 DEF Inv, ReadersSafe
<1>6. FinalIsSynced'
  BY <1>1, <1>2 DEF Inv, FinalIsSynced
<1> QED BY <1>1, <1>3, <1>4, <1>5, <1>6 DEF Inv

\* --resume finds nothing it can keep, or keeps what the cache lists and the destination has.
LEMMA tryResumeInv == ASSUME Inv, tryResume PROVE Inv'
<1>1. wpc = "resume" /\ UNCHANGED <<object, published, ever, dir, maybe, rpc, hold, again, got, left>>
  BY DEF tryResume, destination, reader
<1>2. dir \in Possible /\ dir \in Dirs
  BY DirPossible DEF Inv, TypeOK
<1>3. Spends
  BY <1>1, UnspentSpends DEF mayRead
<1>4. published = None /\ dir.legacy = None /\ (\A i \in DOMAIN vols : object[i] = vols[i])
      /\ (rpc \in Listed => published # None)
  BY <1>1 DEF Inv, SendAlone
<1>5. CASE wpc' = "discard" /\ vols' = vols
  <2>1. TypeOK'
    BY <1>1, <1>5 DEF Inv, TypeOK
  <2>2. SendAlone' /\ CacheOfSend'
    BY <1>1, <1>4, <1>5 DEF SendAlone, CacheOfSend
  <2> QED BY <1>1, <1>3, <1>5, <2>1, <2>2, QuietInv
<1>6. CASE /\ dir.file \notin {None, Damaged} /\ vols' = verifiedVolumes(dir.file)
           /\ wpc' = IF dir.file.final /\ vols' = dir.file.vols THEN "uploadCached" ELSE "save"
  <2>1. dir.file \in Manifests /\ Describes(dir.file)
    BY <1>2, <1>6, FileFacts DEF Inv, AllDescribed, Live
  <2>2. vols' \in Seq(Nat) /\ Len(vols') <= Len(dir.file.vols) /\ \A i \in DOMAIN vols' : object[i] = vols'[i]
    BY <1>6, <2>1, VerifiedFacts
  <2>3. Len(dir.file.vols) <= NumVolumes /\ Len(dir.file.vols) \in Nat
    BY <2>1 DEF Manifests
  <2>4. wpc' \in {"uploadCached", "save"}
    BY <1>6
  <2>5. TypeOK'
    <3>1. Len(vols') <= NumVolumes
      BY <2>2, <2>3, NoneFacts
    <3> QED BY <1>1, <2>2, <2>4, <3>1 DEF Inv, TypeOK
  <2>6. SendAlone'
    BY <1>1, <1>4, <2>2, <2>4 DEF SendAlone
  <2>7. CacheOfSend'
    <3>1. wpc' = "uploadCached" => dir.file.final
      BY <1>6
    <3> QED BY <1>1, <1>6, <2>4, <3>1 DEF CacheOfSend, Live
  <2> QED BY <1>1, <1>3, <2>4, <2>5, <2>6, <2>7, QuietInv
<1> QED BY <1>5, <1>6 DEF tryResume

\* A process is killed: then there is no power loss.
LEMMA KillInv == ASSUME Inv, Kill PROVE Inv'
<1>1. Count("kill") /\ UNCHANGED <<object, published, ever, dir, maybe, vols, hold, again, got>>
      /\ (wpc' = "idle" \/ wpc' = wpc) /\ (rpc' = "idle" \/ rpc' = rpc)
  BY DEF Kill, destination
<1>2. Spends
  BY <1>1, CountSpends DEF mayRead, Bounded
<1>3. ~(left'["loss"] > 0)
  <2>1. left["kill"] > 0 /\ left["kill"] \in Nat
    BY <1>1 DEF Count, Inv, TypeOK, Bounded
  <2> QED BY <1>2, <2>1, SpendsFacts
<1>4. TypeOK'
  BY <1>1, <1>2 DEF Inv, TypeOK, Spends
<1>5. SendAlone'
  BY <1>1 DEF Inv, SendAlone, Listed
<1>6. Possible' \subseteq Possible
  BY <1>1, <1>3, DirPossible DEF Possible
<1>7. CacheOfSend'
  BY <1>1, <1>6 DEF Inv, CacheOfSend
<1> QED BY <1>1, <1>2, <1>3, <1>4, <1>5, <1>7, QuietInv

\* A reader starts, lists, looks into the directory, or downloads.
LEMMA LooksInv ==
    ASSUME Inv, UNCHANGED <<object, published, ever, dir, maybe, wpc, vols>>, Spends,
           rpc' \in {"idle", "move", "drop", "list"} \cup Listed, hold' \in Manifests \cup {None}, again' \in BOOLEAN,
           got' \in {got, None},
           rpc' \in Listed => published # None,
           rpc' = "drop" => rpc = "drop" \/ dir.file # None,
           rpc' = "rename" => hold' = published
    PROVE  Inv'
<1>1. TypeOK'
  BY DEF Inv, TypeOK, Spends
<1>2. SendAlone'
  BY DEF Inv, SendAlone
<1>3. Possible' \subseteq Possible
  BY SpendsFacts, DirPossible DEF Possible
<1>4. CacheOfSend'
  BY <1>3 DEF Inv, CacheOfSend
<1> QED BY <1>1, <1>2, <1>4, QuietInv

LEMMA StartReadInv == ASSUME Inv, StartRead PROVE Inv'
<1>1. /\ rpc = "idle" /\ Count("read")
      /\ rpc' = IF dir.legacy = None THEN "list" ELSE IF dir.file = None THEN "move" ELSE "drop"
      /\ hold' = None /\ again' = FALSE /\ got' = None
      /\ UNCHANGED <<object, published, ever, dir, maybe, wpc, vols>>
  BY DEF StartRead, destination
<1>2. mayRead
  BY <1>1 DEF Count, mayRead
<1>3. Spends
  BY <1>1, <1>2, CountSpends DEF Bounded
<1>4. rpc' \in {"move", "drop", "list"} /\ (rpc' = "drop" => dir.file # None)
  BY <1>1
<1> QED BY <1>1, <1>3, <1>4, LooksInv DEF Listed

LEMMA ListInv == ASSUME Inv, List PROVE Inv'
<1>1. rpc = "list" /\ rpc' = IF published = None THEN "idle" ELSE "dir"
  BY DEF List
<1>2. UNCHANGED <<object, published, ever, dir, maybe, wpc, vols, hold, again, got, left>>
  BY DEF List, destination
<1>3. Spends
  BY <1>1, <1>2, UnspentSpends DEF mayRead
<1>4. hold \in Manifests \cup {None} /\ again \in BOOLEAN
  BY DEF Inv, TypeOK
<1> QED BY <1>1, <1>2, <1>3, <1>4, LooksInv DEF Listed

LEMMA ReadDirInv == ASSUME Inv, ReadDir PROVE Inv'
<1>1. rpc = "dir" /\ rpc' = IF dir.file = None THEN "download" ELSE "read"
  BY DEF ReadDir
<1>2. UNCHANGED <<object, published, ever, dir, maybe, wpc, vols, hold, again, got, left>>
  BY DEF ReadDir, destination
<1>3. Spends
  BY <1>1, <1>2, UnspentSpends DEF mayRead
<1>4. hold \in Manifests \cup {None} /\ again \in BOOLEAN /\ published # None
  BY <1>1 DEF Inv, TypeOK, SendAlone, Listed
<1>5. rpc' \in {"download", "read"}
  BY <1>1
<1> QED BY <1>2, <1>3, <1>4, <1>5, LooksInv DEF Listed

LEMMA DownloadInv == ASSUME Inv, Download PROVE Inv'
<1>1. rpc = "download" /\ rpc' = (IF published = None THEN "idle" ELSE "rename") /\ hold' = published
  BY DEF Download
<1>2. UNCHANGED <<object, published, ever, dir, maybe, wpc, vols, again, got, left>>
  BY DEF Download, destination
<1>3. Spends
  BY <1>1, <1>2, UnspentSpends DEF mayRead
<1>4. published \in Manifests \cup {None} /\ again \in BOOLEAN
  BY DEF Inv, TypeOK
<1> QED BY <1>1, <1>2, <1>3, <1>4, LooksInv DEF Listed

-----------------------------------------------------------------------------
(* Steps that change the cache.                                            *)

\* A change adds one directory that a power loss may find.
LEMMA ChangeFacts ==
    ASSUME Inv, Spends, NEW d \in Dirs, Change(d)
    PROVE  /\ dir' = d /\ dir' \in Dirs /\ maybe' \subseteq Dirs /\ dir' \in maybe'
           /\ Possible' \subseteq Possible \cup {d}
<1>1. dir' = d /\ maybe' = maybe \cup {d} /\ maybe \subseteq Dirs
  BY DEF Change, Inv, TypeOK
<1>2. left'["loss"] > 0 => left["loss"] > 0
  BY SpendsFacts
<1> QED BY <1>1, <1>2 DEF Possible

\* syncDir leaves one.
LEMMA SyncFacts ==
    ASSUME Inv, SyncDir
    PROVE  dir' = dir /\ maybe' = {dir} /\ Possible' = {dir} /\ Possible' \subseteq Possible
BY DirPossible DEF SyncDir, Possible

\* A new directory whose manifests describe the destination.
LEMMA ChangeDescribed ==
    ASSUME Inv, NEW d, Possible' \subseteq Possible \cup {d}, UNCHANGED <<object, published, ever, got>>,
           \A m \in {d.file, d.legacy} : Live(m) => Describes(m)
    PROVE  AllDescribed'
BY DEF Inv, AllDescribed, Describes

\* The send recorded what is at the destination.
LEMMA RecordDescribes ==
    ASSUME Inv, wpc # "idle", NEW f \in BOOLEAN
    PROVE  Describes(Manifest(vols, f))
BY ManifestFacts DEF Inv, SendAlone, Describes

\* adoptCacheDir: the file of an older version, where there is no other.
LEMMA StartSendInv == ASSUME Inv, NEW resume \in BOOLEAN, StartSend(resume) PROVE Inv'
<1>1. /\ wpc = "idle" /\ Count("attempt") /\ adoptCacheDir /\ vols' = <<>>
      /\ wpc' = IF published # None THEN "idle" ELSE IF resume THEN "resume" ELSE "discard"
      /\ UNCHANGED <<object, published, ever, rpc, hold, again, got>>
  BY DEF StartSend, destination, reader
<1>2. Spends
  BY <1>1, CountSpends DEF Bounded, mayRead
<1>3. wpc' \in {"idle", "resume", "discard"} /\ (wpc' # "idle" => published = None)
  BY <1>1
<1>4. vols' \in Seq(Nat) /\ Len(vols') <= NumVolumes /\ DOMAIN vols' = {}
  BY <1>1, NoneFacts
<1>5. dir \in Dirs /\ dir \in Possible
  BY DirPossible
<1>6. CASE dir.legacy = None
  <2>1. UNCHANGED <<dir, maybe>>
    BY <1>1, <1>6 DEF adoptCacheDir
  <2>2. TypeOK'
    BY <1>1, <1>2, <1>3, <1>4, <2>1 DEF Inv, TypeOK, Spends
  <2>3. SendAlone' /\ CacheOfSend'
    BY <1>1, <1>3, <1>4, <1>6, <2>1 DEF Inv, SendAlone, CacheOfSend
  <2> QED BY <1>1, <1>2, <1>3, <2>1, <2>2, <2>3, QuietInv
<1>7. CASE dir.legacy # None
  <2>1. Change(Adopted)
    BY <1>1, <1>7 DEF adoptCacheDir
  <2>2. Adopted \in Dirs /\ Adopted.legacy = None /\ Adopted.file \in {dir.file, dir.legacy} /\ Adopted.file # None
        /\ (Adopted.file = dir.legacy \/ (dir.file # None /\ Adopted.file = dir.file))
    BY <1>5, <1>7, FileFacts DEF Adopted, Dirs, Files
  <2> HIDE DEF Adopted
  <2>3. dir' = Adopted /\ dir' \in Dirs /\ maybe' \subseteq Dirs /\ dir' \in maybe'
        /\ Possible' \subseteq Possible \cup {Adopted}
    BY <1>2, <2>1, <2>2, ChangeFacts
  <2>4. BudgetKept' /\ (mayRead' => mayRead)
    BY <1>2, SpendsFacts
  <2>5. TypeOK'
    BY <1>1, <1>2, <1>3, <1>4, <2>3 DEF Inv, TypeOK, Spends
  <2>6. \A m \in {Adopted.file, Adopted.legacy} : Live(m) => Describes(m)
    BY <1>5, <2>2 DEF Inv, AllDescribed, Live
  <2>7. AllDescribed'
    BY <1>1, <2>3, <2>6, ChangeDescribed
  <2>8. SendAlone' /\ CacheOfSend'
    BY <1>1, <1>3, <1>4, <2>2, <2>3 DEF Inv, SendAlone, CacheOfSend
  <2>9. EmptyIsSynced'
    BY <2>2, <2>3 DEF EmptyIsSynced
  <2>10. ReadersSafe'
    BY <1>1, <1>5, <1>7, <2>2, <2>3, <2>4 DEF Inv, ReadersSafe
  <2>11. FinalIsSynced'
    <3> SUFFICES ASSUME mayRead, published = None PROVE FinalIsSynced'
      BY <1>1, <2>4 DEF FinalIsSynced
    <3>1. Live(dir.legacy) /\ ~dir.legacy.final /\ (Live(dir.file) => ~dir.file.final)
      BY <1>5, <1>7 DEF Inv, FinalIsSynced, Live
    <3>2. Live(Adopted.file) => ~Adopted.file.final
      BY <2>2, <3>1
    <3>3. \A d \in Possible' : /\ Live(d.legacy) => ~d.legacy.final
                               /\ Live(d.file) /\ d.file.final => d.legacy = None
                               /\ d.legacy # Damaged
      BY <2>2, <2>3, <3>2, NoneFacts DEF Inv, FinalIsSynced, Live
    <3> QED BY <2>3, <3>2, <3>3 DEF FinalIsSynced
  <2> QED BY <2>4, <2>5, <2>7, <2>8, <2>9, <2>10, <2>11 DEF Inv
<1> QED BY <1>6, <1>7

\* A running send writes a file into the cache.
LEMMA PutInv ==
    ASSUME Inv, NEW m \in Files, Put(m), wpc # "idle",
           UNCHANGED <<object, published, ever, vols, rpc, hold, again, got, left>>,
           Live(m) => Describes(m),
           wpc' \in {"discardSync", "saveSync", "finalSync"},
           wpc' = "discardSync" => m = None,
           wpc' = "saveSync" => m = Manifest(vols, FALSE),
           wpc' = "finalSync" => m = Manifest(vols, TRUE)
    PROVE  Inv'
<1> DEFINE d == [dir EXCEPT !.file = m]
<1>1. Spends
  BY UnspentSpends DEF mayRead
<1>2. dir \in Dirs /\ published = None /\ dir.legacy = None
  BY DEF Inv, TypeOK, SendAlone
<1>3. d \in Dirs /\ d.file = m /\ d.legacy = None /\ Change(d)
  BY <1>2 DEF Dirs, Put
<1> HIDE DEF d
<1>4. dir' = d /\ dir' \in Dirs /\ maybe' \subseteq Dirs /\ dir' \in maybe' /\ Possible' \subseteq Possible \cup {d}
  BY <1>1, <1>3, ChangeFacts
<1>5. BudgetKept' /\ (mayRead' => mayRead)
  BY <1>1, SpendsFacts
<1>6. TypeOK'
  BY <1>4 DEF Inv, TypeOK
<1>7. AllDescribed'
  BY <1>3, <1>4, ChangeDescribed DEF Live
<1>8. SendAlone'
  BY <1>3, <1>4 DEF Inv, SendAlone
<1>9. CacheOfSend'
  BY <1>3, <1>4 DEF CacheOfSend
<1>10. EmptyIsSynced'
  <2>1. wpc' # "discardSync" => m # None
    BY ManifestFacts DEF Live
  <2> QED BY <1>3, <1>4, <2>1 DEF EmptyIsSynced
<1>11. ReadersSafe'
  BY <1>2 DEF ReadersSafe
<1>12. FinalIsSynced'
  <2>1. Live(m) /\ m.final => wpc' = "finalSync"
    BY ManifestFacts DEF Live
  <2> QED BY <1>2, <1>3, <1>4, <1>5, <2>1, NoneFacts DEF Inv, FinalIsSynced, Live
<1> QED BY <1>5, <1>6, <1>7, <1>8, <1>9, <1>10, <1>11, <1>12 DEF Inv

LEMMA SavePartialInv == ASSUME Inv, SavePartial PROVE Inv'
<1>1. wpc = "save" /\ Put(Manifest(vols, FALSE)) /\ wpc' = "saveSync"
      /\ UNCHANGED <<object, published, ever, vols, rpc, hold, again, got, left>>
  BY DEF SavePartial, destination, reader
<1>2. Manifest(vols, FALSE) \in Files /\ Describes(Manifest(vols, FALSE))
  BY <1>1, ManifestFacts, RecordDescribes DEF Files
<1> QED BY <1>1, <1>2, PutInv

LEMMA SaveFinalInv == ASSUME Inv, SaveFinal PROVE Inv'
<1>1. wpc = "final" /\ Put(Manifest(vols, TRUE)) /\ wpc' = "finalSync"
      /\ UNCHANGED <<object, published, ever, vols, rpc, hold, again, got, left>>
  BY DEF SaveFinal, destination, reader
<1>2. Manifest(vols, TRUE) \in Files /\ Describes(Manifest(vols, TRUE))
  BY <1>1, ManifestFacts, RecordDescribes DEF Files
<1> QED BY <1>1, <1>2, PutInv

\* discardPartialManifests: an empty cache it finds stays empty.
LEMMA DiscardInv == ASSUME Inv, discardPartialManifests PROVE Inv'
<1>1. wpc = "discard" /\ UNCHANGED <<object, published, ever, vols, rpc, hold, again, got, left>>
  BY DEF discardPartialManifests, destination, reader
<1>2. CASE dir.file = None
  <2>1. wpc' = "upload" /\ UNCHANGED <<dir, maybe>>
    BY <1>2 DEF discardPartialManifests
  <2>2. Spends
    BY <1>1, UnspentSpends DEF mayRead
  <2>3. published = None /\ dir.legacy = None
    BY <1>1 DEF Inv, SendAlone
  <2>4. Possible = {dir}
    BY <1>1, <1>2, <2>3 DEF Inv, EmptyIsSynced, Possible
  <2>5. Possible' = {dir}
    BY <1>1, <2>1, <2>4 DEF Possible
  <2>6. TypeOK'
    BY <1>1, <2>1 DEF Inv, TypeOK
  <2>7. SendAlone'
    BY <1>1, <2>1 DEF Inv, SendAlone
  <2>8. CacheOfSend'
    BY <1>2, <2>1, <2>3, <2>5 DEF CacheOfSend
  <2> QED BY <1>1, <2>1, <2>2, <2>6, <2>7, <2>8, QuietInv
<1>3. CASE dir.file # None
  <2>1. wpc' = "discardSync" /\ Put(None)
    BY <1>3 DEF discardPartialManifests
  <2> QED BY <1>1, <2>1, PutInv DEF Files, Live
<1> QED BY <1>2, <1>3

\* syncDir, of a send or of a reader.
LEMMA SyncInv ==
    ASSUME Inv, SyncDir, UNCHANGED <<object, published, ever, vols, hold, again, got, left>>,
           rpc' # "idle" => rpc # "idle", rpc' \in {"drop", "rename"} => rpc' = rpc,
           wpc' \in {"idle", "upload", "final", "publish"} \/ wpc' = wpc,
           rpc' \in {"idle", "move", "drop", "list"} \cup Listed,
           SendAlone', CacheOfSend'
    PROVE  Inv'
<1>1. Spends
  BY UnspentSpends DEF mayRead
<1>2. BudgetKept' /\ (mayRead' => mayRead)
  BY <1>1, SpendsFacts
<1>3. dir' = dir /\ maybe' = {dir} /\ Possible' = {dir} /\ Possible' \subseteq Possible
  BY SyncFacts
<1>4. TypeOK'
  BY <1>3 DEF Inv, TypeOK
<1>5. AllDescribed'
  BY <1>3 DEF Inv, AllDescribed, Describes
<1>6. EmptyIsSynced'
  BY <1>3 DEF Inv, EmptyIsSynced
<1>7. ReadersSafe'
  BY <1>2, <1>3 DEF Inv, ReadersSafe
<1>8. FinalIsSynced'
  BY <1>2, <1>3 DEF Inv, FinalIsSynced
<1> QED BY <1>2, <1>4, <1>5, <1>6, <1>7, <1>8 DEF Inv

LEMMA SendSyncInv ==
    ASSUME Inv, SyncDiscard \/ SyncPartial \/ SyncFinal
    PROVE  Inv'
<1>1. SyncDir /\ UNCHANGED <<object, published, ever, vols, rpc, hold, again, got, left>>
  BY DEF SyncDiscard, SyncPartial, SyncFinal, destination, reader
<1>2. dir' = dir /\ Possible' = {dir}
  BY <1>1, SyncFacts
<1>3. wpc \in {"discardSync", "saveSync", "finalSync"} /\ wpc' \in {"upload", "final", "publish"}
      /\ (wpc' = "publish" => wpc = "finalSync")
      /\ (wpc' = "upload" => wpc \in {"discardSync", "saveSync"})
  BY DEF SyncDiscard, SyncPartial, SyncFinal
<1>4. rpc \in {"idle", "move", "drop", "list"} \cup Listed
  BY DEF Inv, TypeOK
<1>5. SendAlone'
  BY <1>1, <1>2, <1>3 DEF Inv, SendAlone
<1>6. CacheOfSend'
  <2>1. dir.legacy = None
    BY <1>3 DEF Inv, SendAlone
  <2>2. wpc = "discardSync" => dir.file = None
    BY DEF Inv, CacheOfSend
  <2> QED BY <1>1, <1>2, <1>3, <2>1, <2>2 DEF Inv, CacheOfSend
<1> QED BY <1>1, <1>3, <1>4, <1>5, <1>6, SyncInv

\* The second half of a reader's adoptCacheDir, between which and the first a send may have come.
LEMMA AdoptLegacyInv == ASSUME Inv, AdoptLegacy PROVE Inv'
<1>1. rpc \in {"move", "drop"} /\ UNCHANGED <<object, published, ever, wpc, vols, hold, again, got, left>>
  BY DEF AdoptLegacy, destination
<1>2. Spends /\ mayRead
  BY <1>1, UnspentSpends DEF mayRead
<1>3. dir \in Dirs /\ dir \in Possible
  BY DirPossible
<1>4. CASE dir.legacy = None
  <2>1. rpc' = "idle" /\ UNCHANGED <<dir, maybe>>
    BY <1>4 DEF AdoptLegacy
  <2>2. hold \in Manifests \cup {None} /\ again \in BOOLEAN
    BY DEF Inv, TypeOK
  <2> QED BY <1>1, <1>2, <2>1, <2>2, LooksInv DEF Listed
<1>5. CASE dir.legacy # None
  <2> DEFINE d == [file |-> IF rpc = "move" THEN dir.legacy ELSE dir.file, legacy |-> None]
  <2>1. rpc' = "list" /\ Change(d)
    BY <1>5 DEF AdoptLegacy
  <2>2. d \in Dirs /\ d.legacy = None /\ d.file \in {dir.file, dir.legacy}
        /\ (rpc = "drop" => d.file = dir.file) /\ (rpc = "move" => d.file = dir.legacy)
    BY <1>1, <1>3, FileFacts DEF Dirs, Files
  <2> HIDE DEF d
  <2>3. wpc = "idle"
    BY <1>5 DEF Inv, SendAlone
  <2>4. dir' = d /\ dir' \in Dirs /\ maybe' \subseteq Dirs /\ dir' \in maybe' /\ Possible' \subseteq Possible \cup {d}
    BY <1>2, <2>1, <2>2, ChangeFacts
  <2>5. BudgetKept'
    BY <1>2, SpendsFacts
  <2>6. TypeOK'
    BY <1>1, <2>1, <2>4 DEF Inv, TypeOK
  <2>7. \A m \in {d.file, d.legacy} : Live(m) => Describes(m)
    BY <1>3, <2>2 DEF Inv, AllDescribed, Live
  <2>8. AllDescribed'
    BY <1>1, <2>4, <2>7, ChangeDescribed
  <2>9. SendAlone' /\ CacheOfSend'
    BY <1>1, <2>1, <2>3 DEF SendAlone, CacheOfSend, Listed
  <2>10. EmptyIsSynced'
    <3>1. left["loss"] > 0 => d.file # None
      BY <1>1, <1>5, <2>2 DEF Inv, EmptyIsSynced
    <3> QED BY <1>1, <2>1, <2>4, <3>1 DEF EmptyIsSynced
  <2>11. ReadersSafe'
    BY <1>1, <1>2, <1>3, <2>1, <2>2, <2>4 DEF Inv, ReadersSafe
  <2>12. FinalIsSynced'
    <3> SUFFICES ASSUME published = None PROVE FinalIsSynced'
      BY <1>1 DEF FinalIsSynced
    <3>1. Live(dir.legacy) /\ ~dir.legacy.final /\ (Live(dir.file) => ~dir.file.final)
      BY <1>2, <1>3, <1>5 DEF Inv, FinalIsSynced, Live
    <3>2. Live(d.file) => ~d.file.final
      BY <2>2, <3>1
    <3>3. \A e \in Possible' : /\ Live(e.legacy) => ~e.legacy.final
                               /\ Live(e.file) /\ e.file.final => e.legacy = None
                               /\ e.legacy # Damaged
      BY <1>2, <2>2, <2>4, <3>2, NoneFacts DEF Inv, FinalIsSynced, Live
    <3> QED BY <2>4, <3>2, <3>3 DEF FinalIsSynced
  <2> QED BY <2>5, <2>6, <2>8, <2>9, <2>10, <2>11, <2>12 DEF Inv
<1> QED BY <1>4, <1>5

\* A reader of a published set, where no send runs.
LEMMA ReaderAlone ==
    ASSUME Inv, rpc \in Listed
    PROVE  published # None /\ published \in Manifests /\ wpc = "idle" /\ mayRead /\ left["delete"] = 0
BY DEF Inv, TypeOK, SendAlone, BudgetKept, mayRead, Listed

\* It writes the published manifest into the cache, or removes what does not decode.
LEMMA ReaderPutInv ==
    ASSUME Inv, rpc \in Listed, NEW m \in {None, published}, Put(m),
           UNCHANGED <<object, published, ever, wpc, vols, hold, got, left>>,
           rpc' \in {"idle", "download", "sync"}, again' \in BOOLEAN
    PROVE  Inv'
<1> DEFINE d == [dir EXCEPT !.file = m]
<1>1. published # None /\ published \in Manifests /\ wpc = "idle" /\ mayRead /\ left["delete"] = 0
  BY ReaderAlone
<1>2. Spends
  BY <1>1, UnspentSpends
<1>3. dir \in Dirs /\ dir \in Possible
  BY DirPossible
<1>4. d \in Dirs /\ d.file = m /\ d.legacy = dir.legacy /\ Change(d)
  BY <1>1, <1>3 DEF Dirs, Files, Put
<1> HIDE DEF d
<1>5. dir' = d /\ dir' \in Dirs /\ maybe' \subseteq Dirs /\ dir' \in maybe' /\ Possible' \subseteq Possible \cup {d}
  BY <1>2, <1>4, ChangeFacts
<1>6. BudgetKept'
  BY <1>2, SpendsFacts
<1>7. TypeOK'
  BY <1>5 DEF Inv, TypeOK, Listed
<1>8. AllDescribed'
  <2>1. \A x \in {d.file, d.legacy} : Live(x) => Describes(x)
    BY <1>1, <1>3, <1>4 DEF Inv, AllDescribed, Live
  <2> QED BY <1>5, <2>1, ChangeDescribed
<1>9. SendAlone' /\ CacheOfSend'
  BY <1>1 DEF SendAlone, CacheOfSend
<1>10. EmptyIsSynced'
  BY <1>1 DEF EmptyIsSynced
<1>11. ReadersSafe'
  BY <1>1, <1>3, <1>4, <1>5 DEF Inv, ReadersSafe
<1>12. FinalIsSynced'
  BY <1>1 DEF FinalIsSynced
<1> QED BY <1>6, <1>7, <1>8, <1>9, <1>10, <1>11, <1>12 DEF Inv

LEMMA RenameDownloadInv == ASSUME Inv, RenameDownload PROVE Inv'
<1>1. rpc = "rename" /\ Put(hold) /\ rpc' = "sync"
      /\ UNCHANGED <<object, published, ever, wpc, vols, hold, again, got, left>>
  BY DEF RenameDownload, destination
<1>2. rpc \in Listed
  BY <1>1 DEF Listed
<1>3. published # None /\ mayRead
  BY <1>2, ReaderAlone
<1>4. hold = published /\ again \in BOOLEAN
  BY <1>1, <1>3 DEF Inv, TypeOK, ReadersSafe
<1> QED BY <1>1, <1>2, <1>4, ReaderPutInv

LEMMA SyncDownloadInv == ASSUME Inv, SyncDownload PROVE Inv'
<1>1. rpc = "sync" /\ SyncDir /\ rpc' = "read"
      /\ UNCHANGED <<object, published, ever, wpc, vols, hold, again, got, left>>
  BY DEF SyncDownload, destination
<1>2. published # None /\ wpc = "idle"
  BY <1>1, ReaderAlone DEF Listed
<1>3. SendAlone' /\ CacheOfSend'
  BY <1>1, <1>2 DEF SendAlone, CacheOfSend
<1> QED BY <1>1, <1>3, SyncInv DEF Listed

\* What a reader returns is the published manifest.
LEMMA ReadManifestInv == ASSUME Inv, ReadManifest PROVE Inv'
<1>1. rpc = "read" /\ UNCHANGED <<object, published, ever, wpc, vols, hold, left>>
  BY DEF ReadManifest, destination
<1>2. published # None /\ published \in Manifests /\ wpc = "idle" /\ mayRead
  BY <1>1, ReaderAlone DEF Listed
<1>3. Spends
  BY <1>1, <1>2, UnspentSpends
<1>4. hold \in Manifests \cup {None}
  BY DEF Inv, TypeOK
<1>5. CASE dir.file = None
  <2>1. rpc' \in {"idle", "download"} /\ again' = TRUE /\ UNCHANGED <<dir, maybe, got>>
    BY <1>5, NoneFacts DEF ReadManifest
  <2> QED BY <1>1, <1>2, <1>3, <1>4, <2>1, LooksInv DEF Listed
<1>6. CASE dir.file = Damaged
  <2>1. rpc' \in {"idle", "download"} /\ again' = TRUE /\ Put(None) /\ UNCHANGED got
    BY <1>6 DEF ReadManifest
  <2> QED BY <1>1, <2>1, ReaderPutInv DEF Listed
<1>7. CASE dir.file \notin {None, Damaged}
  <2>1. rpc' = "idle" /\ got' = dir.file /\ UNCHANGED <<dir, maybe, again>>
    BY <1>7 DEF ReadManifest
  <2>2. dir \in Possible
    BY DirPossible
  <2>3. got' = published /\ published \in ever
    BY <1>2, <1>7, <2>1, <2>2 DEF Inv, ReadersSafe, AllDescribed
  <2>4. TypeOK'
    BY <1>1, <1>2, <2>1, <2>3 DEF Inv, TypeOK
  <2>5. SendAlone' /\ CacheOfSend'
    BY <1>1, <1>2, <2>1 DEF SendAlone, CacheOfSend, Listed
  <2> QED BY <1>1, <1>3, <2>1, <2>3, <2>4, <2>5, QuietInv
<1> QED BY <1>5, <1>6, <1>7

\* clean --cleanLocal, which no power loss follows.
LEMMA CleanLocalInv == ASSUME Inv, CleanLocal PROVE Inv'
<1> DEFINE d == [dir EXCEPT !.file = None]
<1>1. Count("clean") /\ wpc = "idle" /\ published = None /\ Put(None)
      /\ UNCHANGED <<object, published, ever, wpc, vols, rpc, hold, again, got>>
  BY DEF CleanLocal, destination, reader
<1>2. Spends
  BY <1>1, CountSpends DEF Bounded, mayRead
<1>3. BudgetKept' /\ (mayRead' => mayRead) /\ ~(left'["loss"] > 0)
  <2>1. left["clean"] > 0 /\ left["clean"] \in Nat
    BY <1>1 DEF Count, Inv, TypeOK, Bounded
  <2> QED BY <1>2, <2>1, SpendsFacts
<1>4. dir \in Dirs /\ dir \in Possible
  BY DirPossible
<1>5. d \in Dirs /\ d.file = None /\ d.legacy = dir.legacy /\ Change(d)
  BY <1>1, <1>4 DEF Dirs, Files, Put
<1> HIDE DEF d
<1>6. dir' = d /\ dir' \in Dirs /\ maybe' \subseteq Dirs /\ dir' \in maybe' /\ Possible' \subseteq Possible \cup {d}
  BY <1>2, <1>5, ChangeFacts
<1>7. TypeOK'
  BY <1>1, <1>2, <1>6 DEF Inv, TypeOK, Spends
<1>8. AllDescribed'
  <2>1. \A x \in {d.file, d.legacy} : Live(x) => Describes(x)
    BY <1>4, <1>5 DEF Inv, AllDescribed, Live
  <2> QED BY <1>1, <1>6, <2>1, ChangeDescribed
<1>9. SendAlone' /\ CacheOfSend'
  BY <1>1 DEF Inv, SendAlone, CacheOfSend
<1>10. EmptyIsSynced' /\ ReadersSafe'
  BY <1>1, <1>3 DEF EmptyIsSynced, ReadersSafe
<1>11. FinalIsSynced'
  BY <1>1, <1>3, <1>4, <1>5, <1>6 DEF Inv, FinalIsSynced, Live
<1> QED BY <1>3, <1>7, <1>8, <1>9, <1>10, <1>11 DEF Inv

\* A power loss brings back one of the directories that were possible.
LEMMA PowerLossInv == ASSUME Inv, PowerLoss PROVE Inv'
<1>1. Count("loss") /\ dir' \in maybe /\ maybe' = {dir'} /\ wpc' = "idle" /\ rpc' = "idle"
      /\ UNCHANGED <<object, published, ever, vols, hold, again, got>>
  BY DEF PowerLoss, destination
<1>2. Spends
  BY <1>1, CountSpends DEF Bounded
<1>3. BudgetKept' /\ (mayRead' => mayRead)
  BY <1>2, SpendsFacts
<1>4. Possible = maybe
  BY <1>1 DEF Count, Possible
<1>5. Possible' = {dir'} /\ dir' \in Possible
  BY <1>1, <1>4 DEF Possible
<1>6. TypeOK'
  BY <1>1, <1>2 DEF Inv, TypeOK, Spends
<1>7. AllDescribed'
  BY <1>1, <1>5 DEF Inv, AllDescribed, Describes
<1>8. SendAlone' /\ CacheOfSend' /\ EmptyIsSynced'
  BY <1>1 DEF SendAlone, CacheOfSend, EmptyIsSynced, Listed
<1>9. ReadersSafe'
  BY <1>1, <1>3, <1>5 DEF Inv, ReadersSafe
<1>10. FinalIsSynced'
  BY <1>1, <1>3, <1>5 DEF Inv, FinalIsSynced
<1> QED BY <1>3, <1>6, <1>7, <1>8, <1>9, <1>10 DEF Inv

-----------------------------------------------------------------------------
(* Steps that change the destination.                                      *)

\* A volume is uploaded: no manifest that can be found lists the one it replaces.
LEMMA UploadVolumeInv == ASSUME Inv, UploadVolume PROVE Inv'
<1> DEFINE n == Len(vols) + 1
<1>1. wpc = "upload" /\ Len(vols) < NumVolumes /\ wpc' = "save"
      /\ object' = [object EXCEPT ![n] = thisAttempt] /\ vols' = Append(vols, thisAttempt)
      /\ UNCHANGED <<published, ever, dir, maybe, rpc, hold, again, got, left>>
  BY DEF UploadVolume, reader
<1>2. vols \in Seq(Nat) /\ thisAttempt \in Nat /\ object \in [1..NumVolumes -> Nat \cup {None}]
  BY DEF Inv, TypeOK, thisAttempt, Bounded
<1>3. n \in 1..NumVolumes /\ DOMAIN vols = 1..Len(vols) /\ Len(vols) \in Nat
  BY <1>1, <1>2, NoneFacts
<1> HIDE DEF n
<1>4. published = None /\ dir.legacy = None /\ \A i \in DOMAIN vols : object[i] = vols[i]
  BY <1>1 DEF Inv, SendAlone
<1>5. vols' \in Seq(Nat) /\ Len(vols') <= NumVolumes /\ Len(vols') = n
      /\ (\A i \in 1..Len(vols) : vols'[i] = vols[i] /\ i # n) /\ vols'[n] = thisAttempt
  BY <1>1, <1>2, <1>3 DEF n
<1>6. object' \in [1..NumVolumes -> Nat \cup {None}] /\ object'[n] = thisAttempt
      /\ \A i \in 1..NumVolumes : i # n => object'[i] = object[i]
  BY <1>1, <1>2, <1>3
<1>7. \A i \in 1..Len(vols) : i \in 1..NumVolumes /\ object'[i] = vols[i]
  <2>1. \A i \in 1..Len(vols) : i \in 1..NumVolumes
    BY <1>1, <1>3, NoneFacts
  <2> QED BY <1>3, <1>4, <1>5, <1>6, <2>1
<1>8. \A i \in DOMAIN vols' : object'[i] = vols'[i]
  <2>1. DOMAIN vols' = 1..n
    BY <1>5
  <2>2. \A i \in 1..n : i = n \/ i \in 1..Len(vols)
    BY <1>3 DEF n
  <2> QED BY <1>5, <1>6, <1>7, <2>1, <2>2
<1>9. Spends
  BY <1>1, UnspentSpends DEF mayRead
<1>10. BudgetKept' /\ Possible' = Possible /\ (mayRead' => mayRead)
  <2>1. Possible' = Possible
    BY <1>1 DEF Possible
  <2> QED BY <1>9, <2>1, SpendsFacts
<1>11. TypeOK'
  BY <1>1, <1>5, <1>6 DEF Inv, TypeOK
<1>12. AllDescribed'
  <2>1. \A d \in Possible : d.legacy = None /\ d.file \in {None, Manifest(vols, FALSE)}
    BY <1>1 DEF Inv, CacheOfSend
  <2>2. \A i \in DOMAIN Manifest(vols, FALSE).vols : object'[i] = Manifest(vols, FALSE).vols[i]
    BY <1>3, <1>7 DEF Manifest
  <2>3. \A d \in Possible' : \A m \in {d.file, d.legacy} :
           Live(m) => \A i \in DOMAIN m.vols : object'[i] \in {m.vols[i], None}
    BY <1>10, <2>1, <2>2 DEF Live
  <2> QED BY <1>1, <1>4, <2>3 DEF Inv, AllDescribed, Describes
<1>13. SendAlone' /\ CacheOfSend'
  BY <1>1, <1>4, <1>8 DEF Inv, SendAlone, CacheOfSend
<1>14. EmptyIsSynced' /\ ReadersSafe'
  BY <1>1, <1>4 DEF Inv, EmptyIsSynced, ReadersSafe
<1>15. FinalIsSynced'
  BY <1>1, <1>10 DEF Inv, FinalIsSynced
<1> QED BY <1>10, <1>11, <1>12, <1>13, <1>14, <1>15 DEF Inv

\* A running send publishes a manifest that describes the destination, and is the one in
\* the cache wherever a reader may look.
LEMMA PublishesInv ==
    ASSUME Inv, wpc # "idle", wpc' = "idle", NEW m \in Manifests, Describes(m),
           published' = m, ever' = ever \cup {m},
           UNCHANGED <<object, dir, maybe, vols, rpc, hold, again, got, left>>,
           dir.file = m,
           mayRead => \A d \in Possible : d.file = m /\ d.legacy = None
    PROVE  Inv'
<1>1. Spends
  BY UnspentSpends DEF mayRead
<1>2. BudgetKept' /\ Possible' = Possible /\ (mayRead' => mayRead)
  <2>1. Possible' = Possible
    BY DEF Possible
  <2> QED BY <1>1, <2>1, SpendsFacts
<1>3. published = None /\ rpc \notin Listed /\ m # None
  BY NoneFacts DEF Inv, SendAlone
<1>4. TypeOK'
  BY DEF Inv, TypeOK
<1>5. AllDescribed'
  BY <1>2 DEF Inv, AllDescribed, Describes
<1>6. SendAlone' /\ CacheOfSend'
  BY <1>3 DEF SendAlone, CacheOfSend
<1>7. EmptyIsSynced'
  BY <1>3 DEF Inv, EmptyIsSynced
<1>8. ReadersSafe' /\ FinalIsSynced'
  BY <1>2, <1>3 DEF ReadersSafe, FinalIsSynced, Listed
<1> QED BY <1>2, <1>4, <1>5, <1>6, <1>7, <1>8 DEF Inv

LEMMA PublishInv == ASSUME Inv, Publish PROVE Inv'
<1>1. wpc = "publish" /\ published' = Manifest(vols, TRUE) /\ ever' = ever \cup {Manifest(vols, TRUE)}
      /\ wpc' = "idle" /\ UNCHANGED <<object, dir, maybe, vols, rpc, hold, again, got, left>>
  BY DEF Publish, reader
<1>2. Manifest(vols, TRUE) \in Manifests /\ Describes(Manifest(vols, TRUE))
  BY <1>1, ManifestFacts, RecordDescribes
<1>3. \A d \in Possible : d.legacy = None /\ d.file = Manifest(vols, TRUE)
  BY <1>1 DEF Inv, CacheOfSend
<1>4. dir \in Possible
  BY DirPossible
<1> QED BY <1>1, <1>2, <1>3, <1>4, PublishesInv

\* --resume publishes the final manifest it found, and where a reader may come it is the
\* only file there, after a power loss too.
LEMMA UploadCachedInv == ASSUME Inv, UploadCached PROVE Inv'
<1>1. wpc = "uploadCached" /\ Live(dir.file) /\ dir.file.final /\ published = None /\ dir.legacy = None
  BY DEF UploadCached, Inv, CacheOfSend, SendAlone
<1>2. published' = dir.file /\ ever' = ever \cup {dir.file} /\ wpc' = "idle"
      /\ UNCHANGED <<object, dir, maybe, vols, rpc, hold, again, got, left>>
  BY <1>1 DEF UploadCached, reader, Live
<1>3. dir \in Dirs /\ dir \in Possible
  BY DirPossible
<1>4. dir.file \in Manifests /\ Describes(dir.file)
  BY <1>1, <1>3, FileFacts DEF Inv, AllDescribed
<1>5. mayRead => Possible = {dir}
  BY <1>1 DEF Inv, FinalIsSynced, Possible
<1> QED BY <1>1, <1>2, <1>4, <1>5, PublishesInv

\* The set is deleted at the destination, where no reader comes.
LEMMA DeleteSetInv == ASSUME Inv, DeleteSet PROVE Inv'
<1>1. Count("delete") /\ published # None /\ published' = None /\ object' = [i \in 1..NumVolumes |-> None]
      /\ UNCHANGED <<ever, dir, maybe, wpc, vols, rpc, hold, again, got>>
  BY DEF DeleteSet, reader
<1>2. Spends
  BY <1>1, CountSpends DEF Bounded, mayRead
<1>3. left["delete"] > 0 /\ left["delete"] \in Nat
  BY <1>1 DEF Count, Inv, TypeOK, Bounded
<1>4. ~mayRead /\ ~mayRead' /\ BudgetKept' /\ (left'["loss"] > 0 => left["loss"] > 0)
  BY <1>2, <1>3, SpendsFacts DEF Inv, BudgetKept
<1>5. wpc = "idle" /\ rpc = "idle"
  BY <1>1, <1>4 DEF Inv, SendAlone, mayRead
<1>6. TypeOK'
  BY <1>1, <1>2 DEF Inv, TypeOK, Spends
<1>7. \A m \in Manifests : \A i \in DOMAIN m.vols : object'[i] = None
  <2>1. \A m \in Manifests : m.vols \in Seq(Nat) /\ Len(m.vols) <= NumVolumes /\ Len(m.vols) \in Nat
    BY DEF Manifests
  <2>2. \A m \in Manifests : DOMAIN m.vols \subseteq 1..NumVolumes
    BY <2>1, NoneFacts
  <2> QED BY <1>1, <2>2
<1>8. AllDescribed'
  <2>1. Possible' \subseteq Dirs
    BY <1>6 DEF TypeOK, Possible
  <2>2. \A d \in Possible' : \A m \in {d.file, d.legacy} : Live(m) => m \in Manifests
    BY <2>1, FileFacts
  <2> QED BY <1>1, <1>7, <2>2 DEF Inv, AllDescribed, Describes
<1>9. SendAlone' /\ CacheOfSend'
  BY <1>1, <1>5 DEF SendAlone, CacheOfSend, Listed
<1>10. EmptyIsSynced'
  BY <1>1, <1>3, <1>4, <1>5 DEF Inv, EmptyIsSynced
<1>11. ReadersSafe' /\ FinalIsSynced'
  BY <1>4 DEF ReadersSafe, FinalIsSynced
<1> QED BY <1>4, <1>6, <1>8, <1>9, <1>10, <1>11 DEF Inv

-----------------------------------------------------------------------------
(* Every step.                                                             *)

LEMMA StepInv == Inv /\ [Next]_vars => Inv'
<1> SUFFICES ASSUME Inv, [Next]_vars PROVE Inv'
  OBVIOUS
<1>1. ASSUME NEW resume \in BOOLEAN, StartSend(resume) PROVE Inv'
  BY <1>1, StartSendInv
<1>2. CASE tryResume
  BY <1>2, tryResumeInv
<1>3. CASE UploadCached
  BY <1>3, UploadCachedInv
<1>4. CASE discardPartialManifests
  BY <1>4, DiscardInv
<1>5. CASE SyncDiscard \/ SyncPartial \/ SyncFinal
  BY <1>5, SendSyncInv
<1>6. CASE UploadVolume
  BY <1>6, UploadVolumeInv
<1>7. CASE SavePartial
  BY <1>7, SavePartialInv
<1>8. CASE SaveFinal
  BY <1>8, SaveFinalInv
<1>9. CASE Publish
  BY <1>9, PublishInv
<1>10. CASE StartRead
  BY <1>10, StartReadInv
<1>11. CASE AdoptLegacy
  BY <1>11, AdoptLegacyInv
<1>12. CASE List
  BY <1>12, ListInv
<1>13. CASE ReadDir
  BY <1>13, ReadDirInv
<1>14. CASE Download
  BY <1>14, DownloadInv
<1>15. CASE RenameDownload
  BY <1>15, RenameDownloadInv
<1>16. CASE SyncDownload
  BY <1>16, SyncDownloadInv
<1>17. CASE ReadManifest
  BY <1>17, ReadManifestInv
<1>18. CASE Kill
  BY <1>18, KillInv
<1>19. CASE PowerLoss
  BY <1>19, PowerLossInv
<1>20. CASE DeleteSet
  BY <1>20, DeleteSetInv
<1>21. CASE CleanLocal
  BY <1>21, CleanLocalInv
<1>22. CASE UNCHANGED vars
  <2>1. UNCHANGED <<object, published, ever, dir, maybe, wpc, vols, rpc, hold, again, got, left>>
    BY <1>22 DEF vars
  <2>2. Spends
    BY <2>1, UnspentSpends DEF mayRead
  <2>3. TypeOK'
    BY <2>1 DEF Inv, TypeOK
  <2>4. Possible' = Possible
    BY <2>1 DEF Possible
  <2>5. SendAlone' /\ CacheOfSend'
    BY <2>1, <2>4 DEF Inv, SendAlone, CacheOfSend
  <2> QED BY <2>1, <2>2, <2>3, <2>5, QuietInv
<1> QED BY <1>1, <1>2, <1>3, <1>4, <1>5, <1>6, <1>7, <1>8, <1>9, <1>10, <1>11, <1>12, <1>13, <1>14,
           <1>15, <1>16, <1>17, <1>18, <1>19, <1>20, <1>21, <1>22 DEF Next

\* Where no power loss follows a kill or a clean and no reader meets a deletion, every
\* state a send, a reader, a kill, a power loss, a deletion or a clean leaves satisfies the
\* inductive invariant: every file the cache directory may hold describes the destination.
THEOREM Invariance == Spec /\ Tame(left) => []Inv
BY InitInv, StepInv, PTL DEF Spec

\* "each destination's cache describes the volumes the last run that touched it left there"
\* (cachedAtEveryDestination): the manifest in the cache lists no volume that a later
\* attempt has replaced.
THEOREM CacheDescribes == Spec /\ Tame(left) => []CacheDescribesLastRun
<1>1. Inv => CacheDescribesLastRun
  <2> SUFFICES ASSUME Inv PROVE CacheDescribesLastRun
    OBVIOUS
  <2>1. dir \in Possible
    BY DirPossible
  <2> QED BY <2>1 DEF Inv, AllDescribed, CacheDescribesLastRun, Live
<1> QED BY <1>1, Invariance, PTL

\* What saveManifest's final upload or --resume published has the checksums of the volumes
\* that are at the destination.
THEOREM PublishedRestores == Spec /\ Tame(left) => []PublishedSetRestores
<1>1. Inv => PublishedSetRestores
  BY DEF Inv, AllDescribed, PublishedSetRestores
<1> QED BY <1>1, Invariance, PTL

\* syncCache and readCachedManifest, which take no lock, return a manifest that was
\* published, never the partial state of a send in the same file.
THEOREM ReadersGetPublished == Spec /\ Tame(left) => []ReaderGetsPublished
<1>1. Inv => ReaderGetsPublished
  BY DEF Inv, AllDescribed, ReaderGetsPublished
<1> QED BY <1>1, Invariance, PTL
=============================================================================
