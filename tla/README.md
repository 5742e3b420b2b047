# zfsbackup-go in TLA+

`zfsbackup` sends ZFS snapshots as *backup sets* (numbered volumes and one
manifest) to one or more destinations, and restores them.  This directory models
the parts of it that are hard to test: what interrupted and resumed sends leave
at the destinations, and how the goroutines of a send and of a receive stop each
other.  Line numbers below are of `src/backup/backup.go` unless said otherwise;
`PROJECT.json` has them for every definition.

## 1. The system

| Component | State it keeps | Operations | What makes it correct |
|---|---|---|---|
| **Send: life of a backup set** (`backup/backup.go`, `files/jobinfo.go`, `files/atomic.go`) | volume and manifest objects at each destination; one cached manifest per destination; the dataset's lock | `Backup`, `refuseExistingSet`, `copyManifest`, `tryResume`, `discardPartialManifests`, `saveManifest`, `uploadManifest` | a published manifest describes exactly the objects beside it and the whole of one stream; nothing overwrites a published set; the cache a `--resume` trusts is never wrong |
| **Send: pipeline** (`Backup`, `sendStream`, `retryUploadChainer`, `pendingVolumes`; `backends/delete_backend.go`) | channels `startCh`, `stepCh`, one `out` per link, `fileBuffer` tokens, the pending count, the contexts | one goroutine each for zfs send, splitter, forwarder, workers of a link, closer of a link, collector, finalizer | no final manifest of an incomplete set, no lost error, no send on a closed channel, bounded local storage, every goroutine ends |
| **Receive: pipeline** (`backup/restore.go`: `receive`, `downloadSequenceVolume`, `processSequence`, `receiveStream`) | `downloadChannel`, `bufferChannel`, one channel per volume, `orderedVolumes`, the contexts | download workers, orderer, copier, zfs receive | volumes in order, verified, without a gap; success means all of them; bounded storage; always ends |
| **Receive: checks, `--auto`** (`restore.go`: `AutoRestore`, `refuseDestroy`, mount guard) | the chain of manifests, local snapshots | walk parents, refuse what would destroy data | the chain ends in a full, is received in order, and never destroys what was not allowed |
| **Manifest cache** (`backup/sync.go`, `files/manifest.go`) | cached manifests of a destination | `syncCacheMode`, `readManifest` | equals the destination's manifests; never brings back what a send discarded |
| **Dataset lock** (`volumeLock`, `bootLock`) | lock file, boot file | `TryLock`, `Unlock` | one holder; a lock of an earlier boot is removed and stops nobody |
| **Clean** (`backup/clean.go`) | listings, manifests, locks of all datasets | rounds of judging and deleting | never deletes a volume of a set that is listed or being sent |
| **Smart planner** (`backup/plan*.go`, `ProcessSmartOptions`) | none (pure) | `planSmart`, schedule simulation, checks | full when due, incremental off a snapshot every destination has |
| **Volumes** (`files/volumeinfo.go`, `pgp/`) | file or pipe, hashes, writer layers | `Write`, `Close`, `Extract`, `Abort` | hashes cover what is stored; both ends of a pipe end |
| **Backends** (`backends/`) | objects | `Upload`, `List`, `Download`, `Delete`, `PreDownload`, `Size` | a failed upload leaves nothing under the final name |
| **Command line, signals** (`cmd/`) | the run's context | first signal cancels, second exits | |
| **zfs wrapper, fake zfs, progress, configuration, logging** | – | build command lines, parse, print | not modelled: environment, test tool, output |

Components meet at four places: the *destinations* and the *cache* are shared by
runs that follow each other (send, clean, list, receive); the *lock* keeps send
and clean of one dataset apart, but not the cache syncs of list, plan and
receive; the goroutines of one run talk over *channels*; and every failure or
signal reaches them as a *canceled context*.

What is hard here: attempts of the same set reuse object names and sizes, so
only a SHA-256 tells them apart; a run may die between any two durable steps;
Go's `select` takes any ready case, so a canceled pipeline can still make
progress; a channel that one goroutine closes on its way out is read by others
as a normal end.  `PROJECT.json` lists each hazard at its line with the
properties that cover it, or why none does yet.

## 2. Modules

| Module | Models |
|---|---|
| `BackupSet` | one backup set through any number of send runs on one host |
| `BackupSetProofs` | the inductive invariant of `BackupSet` and the theorems |
| `SendPipeline` | the goroutines of one send run |
| `SendPipelineProofs` | its inductive invariant, the theorems and the refinement |
| `Publication` | what a send promises, without goroutines; `SendPipeline` implements it |
| `ReceivePipeline`, `ReceivePipelineProofs` | the goroutines of one receive run; its invariant and theorems |
| `Planner` | the decision of a smart send, as operators |
| `SmartSend`, `SmartSendProofs` | smart sends of one dataset, from the listing to the manifest, around `Planner` |
| `PlanSimulation` | `zfsbackup plan`: the simulated schedule and its checks, around `Planner` |
| `AutoRestore`, `AutoRestoreProofs` | receive before its pipeline: choice, walk, checks, the receives of a chain |
| `CacheSync`, `CacheSyncProofs` | the cached manifest of one set: sends, unlocked readers, kills, power losses |
| `BootLock`, `BootLockProofs` | the lock of a dataset: lock file, boot file, pids, kills and reboots |
| `Clean`, `CleanProofs` | clean beside the sends of a host |
| `GlacierRestore` | `PreDownload` of archived S3 objects and the downloads after it |
| `MC*` and `MC*.cfg` | small instances for TLC |

The modules meet where the components do.  `BackupSet` treats a run's pipeline as
a set of volumes in flight, the lock as exclusive and the cache as durable;
`SendPipeline`, `BootLock` and `CacheSync` look inside those three.  `Clean` has
the sends of `BackupSet` reduced to what it can see of them (volumes, the cached
manifest, the published one, the lock).  `SmartSend` and `PlanSimulation` use the
same `Planner`, once beside other runs and once over a long schedule.

### BackupSet

`object[d][n]`, `manifest[d]` and `cache[d]` survive a run; everything else is
the run's and is reset by `EndRun`.  One action per durable step:
`TryLock` (destinations, lock, identity of the stream), `NewSet`, `RefuseSet`,
`CopyManifest` (`refuseExistingSet` and `copyManifest`), `ResumeNothing`,
`ResumeMismatch`, `ResumeKept` (`tryResume`), `DiscardPartialManifest` (one
destination per step), `StartStream`, `CutVolume` (splitter), `StartUpload`,
`FinishUpload`, `FailUpload` (one volume at one destination), `CollectVolume`
and `SaveManifest` (one destination's cache per step), `FinalizeManifest`,
`StartManifest`, `FinishManifest`, `FailManifest`, `CacheFile`.  `StopRun` ends
the run at any point, by error, signal or crash.  Between runs the operator or
`clean` removes manifests and then volumes, and cached files get lost or
damaged.

What is abstract, and why it does not hide anything:

* A volume is `[num, att, str, lo, hi]`: its number is its object name, the
  attempt stands for its SHA-256, `lo..hi` are the bytes of the stream it holds.
  All volumes have the same size, the worst case: then the size checks of
  `verifiedVolumes` only see missing and cut objects, and a wrong cache shows.
* A `Job` is everything `sameStream` compares; `None` is a snapshot whose guid
  cannot be read.  A `Variant` is a byte stream zfs send may produce for the same
  job: only the hash of the skipped bytes tells two of them apart.
* `Atomic` destinations (the object stores) show an object when its upload is
  complete; the others (file, ssh) truncate it at the start and remove it when
  the upload fails, so a killed run leaves a `Truncated` object.
* The lock is exclusive: a run that finds it held changes nothing and is no step.
* A pipeline of the run is a set `line` of volumes in flight, each at its place
  in the chain of destinations; how its goroutines do that is `SendPipeline`.
* Retries are unbounded; a run that gives up is `StopRun`.

Not in it: sends from another host or working directory (the comment at 1756
says neither lock nor cache covers them), two processes that both hold the lock
(section 5), a power loss that takes back completed
uploads to a file destination (`file_backend.go` does not sync) or the removal
of a cached file before its directory was synced, and listings that lag behind.

### SendPipeline

Volumes are numbers, the final manifest is 0.  Each goroutine is an action
(`Zfs`, `Splitter`, `Sender` for `sendStream` itself, `Forwarder`,
`WorkerStep(l, w)` and `LinkStep(l)` for `retryUploadChainer`, `Collector`,
`Finalizer`) whose disjuncts are its steps, named after what the code does; its
failures are in an action of their own (`StreamFault`, `UploadFault`, ...) so
that fairness does not demand them.  A channel is a sequence up to its capacity;
an unbuffered one is a joint step of both sides.  `startCh` is closed exactly
when `sender = "ok"`, `stepCh` when `fin = "ok"`, `fileBuffer` when the collector
ended, a link's `out` when `link[l] # "open"`.  With `--maxParallelUploads` above
1 a link has its own errgroup context (`linkCanceled`).  A link's error is
returned only after all its workers ended and `out` is closed, which is why the
collector can see a closed channel before anybody canceled.

With `--maxFileBuffer 0` (`UsingPipe`) a volume is a pipe: it is handed on before
it is filled, filling it needs its reader, `Abort` fails both ends, and the
watcher on the context (`AbortCurrent`) exists only while `sendStream` runs.

The options of the run are the record `jobInfo`, chosen from `Jobs` at the start.
With `mayNotStart`, `cmd.Start` of zfs send is a step of its own that may fail;
without it the run begins with zfs send started.

Retries are inside one upload step.  The semaphore all uploads of a run share
(`MaxParallelUploadBuffer`) only delays an upload, each holder releases it
without needing another, and it is left out.

`Publication` knows only the volumes stored at each destination, which
destinations have the manifest (one after the other, in the order of the links),
and what `Backup` returned.  `ImplementsPublication`
maps `at` (what the uploads made whole) and the returned error to those; every
other step of the pipeline stutters.

### ReceivePipeline

`stored[v]` says whether the object of volume `v` is good, differs from the
manifest or is missing; any combination is an initial state.  Actions are the
steps of the download workers, the orderer, `receiveStream`'s copier and zfs
receive, which may exit early with either status.  `orderedVolumes` is made with
capacity `len(toDownload)`, which is 0 there, so `Emit` is a joint step.  In pipe
mode the volume reaches zfs receive before it can be compared with the manifest
(`FedInOrder` demands verified volumes for files only), and the error comes
after.  `cmd.Start` failing is the case in which zfs receive fails before the
copier took anything.

### Planner, SmartSend, PlanSimulation

`Planner` translates `planSmartAt` and what it calls: `dropFutureDated`, the
explicit full and incremental, the completion of a partial set, the window
(`fullWindowElapsed` with its slack), `checkLastBackupsOnPool`, broken chains and
stream kinds.  A decision is `[action, base, source, ...]`; texts are left out.  A
snapshot is a kind (what prefix and suffix select) and a time in units of five
minutes; backups are sequences, newest first.  `dropFutureDated` takes the wrongly
dated from the front of such a sequence, where they all are (`NotFuture` in
`SmartSendProofs`: what is left is exactly the rest).  A chain is a recursive function
of its links (`chainFrom`), so that it can be proved about.

`SmartSend` runs it: `ListPool`, `ListDest` (one destination per step), `Decide`
and `TryLock` are the part without the lock (a listing is the set of manifests of a
destination in the order of `sortBackupsNewestFirst`, ties by object name; `Before` is
that order and the sort gives each backup its rank in it); `SendSet` (checks under the lock:
`Have`, `ValidateSnapshots`, `refuseMixedChain`), `CompleteOrRefuse`,
`UploadVolumes` and `PublishManifest` the part with it.  `FailRun` ends a run
anywhere.  Beside it snapshots are taken, pruned, reduced to bookmarks or dated by
a wrong clock (by more than the slack, for the whole history), and sets are deleted at
a destination.  A scenario bounds each of these.

`PlanSimulation` is `Scenario.Run`: `Run(delay)` advances the schedule (snapshots
at the boundaries of the periods, pruning by `keep`), plans and adds the manifest
to every simulated destination; `Skip(delay)` advances the schedule without a run.
The properties are the tool's own checks (`checkNoErrors`, `checkChainLinks`,
`checkSourcePresent`, `checkNoDuplicateSend`, `checkNoOrphanFull`,
`checkFullCadence`, `checkRestoreDepth`), here for every outage and not for the
one schedule the tool simulates.

### AutoRestore

`archive` is any part of a set of manifests, `local` any small target in zfs's own
order, `opt` the command line.  `Start` lists and chooses (`backupThatApplies`),
`Walk` is one round of the loop over parents, `CheckChain` the check before the
first receive, `AlreadyThere`, `Receive` and `RefuseStep` one step of the chain
with a listing of its own.  A listing may fail and then shows nothing, as in the
code.  The backup wanted is asked for by its snapshot's name, also when it is the
latest (`NameAsked`), and a manifest may be one of an older version, without a guid
(`recorded`), which `GUIDDiffers` does not compare.  zfs receive is external: it needs
the source as the newest snapshot, or with `-F` rolls back to it, and a replication
stream with `-F` may destroy anything but the source of the step, what the target had
before the restore included.  `SnapshotTarget` is somebody else's snapshot, between any
two steps; a step's own listing and its zfs receive are one step.  `lost` records
whatever zfs destroyed that this run did not receive.  Mount points and properties are
not in it.  `RestoreAssumption` says that a guid is of one snapshot, and that a
snapshot taken of the target is neither one it had nor one that was sent.

### CacheSync

`dir` is the file as processes see it, `maybe` the versions a power loss can bring
back: a change adds one, `SyncDir` leaves the current one.  Sends remove, sync,
upload, save and publish in single steps; a reader lists, looks into the cache,
downloads, renames, syncs and reads without the lock, and adopts the file an older
version cached under another name.  A volume is the number of the attempt that
wrote it, sizes never differ (the worst case for `--resume`).

### BootLock

`Link`, `Stat`, `ReadOwner`, `IsRunning` and `RemoveDead` are the steps of the vendored
lock package (`src/vendor/github.com/nightlyone/lockfile/`); `Recheck`, `ReadBootFile`,
`RemoveOld` and `WriteBoot` are `bootLock.TryLock`; `UnlockOwner` and `RemoveBootFile`
are the two looks `bootLock.Unlock` takes before the package's (`Unlock`, `RemoveLock`).
Every process is at a place of its own and any number of them are inside at the same
time.  `lock.by` stands for the inode: the package recognises its own link by it,
whatever pid is written there, and a process that runs again makes a new one.  After a
`Reboot` any pid may belong to another program.  The files are not synced: a power loss
takes the lock file or its contents (a lock without a pid is junk and removed), or the
boot file.  The processes are taken to run as root, so the signal of `isRunning` finds
every process; as another user it would also take the owner's process of a third user
for dead.

Three variables are history.  `found` is the run whose file a process read last;
`raced` says that some removal hit another lock than the one that was looked at, or one
whose run had linked it but not yet written its boot file; `lockBoot` is the boot in
which the lock was taken whole, and `None` once that lock or its boot file is replaced,
removed or lost.  Hosts without a boot id and containers that restart without a reboot
(the comment at 450 says their lock stays) are not in it.

### Clean

`Sync`, `ListObjects` and `Decode` are one read; `Decode` locks the datasets that
are new in it and asks for another read, at most three.  `Judge` decides
(`candidate`, `named`, `keep`, `Forced`, `DropLocal`), `Delete` and `DeleteLocal`
delete, in any order and local manifests last.  Sends of this job and of another
job under another `--manifestPrefix` run beside it.  Destinations nested below one
another and object names that do not parse are not in it.

### GlacierRestore

`classifyRestores` is one round of HEADs, requests and extensions; `Poll` one look
of `waitForRestores`; `Download` one of the downloads after `PreDownload`.  S3 is
external: a restore ends within `restoreTime`, a copy expires after the days asked
for (S3 rounds that up to the next midnight, which is left out).  `AWS_S3_RESTORE_DAYS`
is part of the scenario, `override`.  Time passes (`Tick`, half a day) only while the
program waits or downloads.

## 3. Properties and runs

One passing run per module; where one instance is not enough, the initial state
chooses among several (the options, scenarios and budgets in the `MC` module).

| Run | Instance | Checks |
|---|---|---|
| `backupset` | 2 destinations (one atomic), stream of 2 units; 2 attempts at any of 2 jobs × 2 streams with 2 volumes in flight, 3 attempts at one stream, a volume at a time, the third to both destinations (`Bound`) | `TypeOK`, `CacheSound`, `PublishedMatches`, `PublishedIsOneStream`, `Inv`, `PublishedNeverOverwritten` |
| `sendpipeline` | 2 destinations × 1 volume; 2 volumes of a zfs send that may not start; 2 workers and a buffer of 2; pipe mode with 2 workers × 3 volumes; always the delete link | `Inv`, `FinalMeansWhole`, `SuccessMeansPublished`, `NoSendOnClosedChannel`, `FileBufferBounds`, `ImplementsPublication`, `Terminates` |
| `sendpipeline_nostart` | pipe mode, zfs send may not start | `AbortFreesUploaders`: **violated** |
| `receive` | pipe, 1 and 2 workers, 3 volumes each good, differing or missing | `Inv`, `FedInOrder`, `SuccessMeansRestored`, `StorageBounded`, `ReceiveEnds` |
| `receive_parallel` | 2 workers, 3 volumes | `GoodReceiveEnds`: **violated** |
| `smartsend` | overlapping runs with other options and a deleted set (1 and 2 destinations); one run at a time with failures, pruning, bookmarks or a wrong clock | `PublishedIntact`, `NeverStuck`, `NothingToSendMeansCaughtUp`, `PublishedIncrementalsRestore`, `FullStartsNewChain` |
| `plan` | 15 runs with up to 3 skipped; 12 runs with snapshots that come late | `OutagesAreHarmless`, `CadenceKept` |
| `autorestore` | every part of a straight archive, of one with loops and of one with a snapshot taken again and manifests without guids; targets of up to 2 snapshots, 2 that may be taken meanwhile, one error | `DestroysOnlyAsked`, `RestoredIsAsked`, `RestoreEnds` |
| `cachesync` | 4 sends of 2 volumes: with 3 readers and 3 power losses; with 2 readers, 3 kills and 2 cleans; with 3 kills, 2 deletions and 2 cleans | `CacheDescribesLastRun`, `ReaderGetsPublished`, `PublishedSetRestores` |
| `bootlock` | 2 processes inside `TryLock` together, 3 pids, 4 runs, 2 kills, 2 reboots | `ExclusionUnlessRaced`, `OldBootNeverBlocks` |
| `clean` | 2 datasets, another job's prefix, 3 sends, 1 clean, 1 failure; `--force` with 3 sends, 2 cleans, 1 lost volume, 1 failure | `PublishedStaysWhole`, `CleanIsThorough`, `UnfinishedStaysResumable`, `LocalManifestLast` |
| `glacier` | 3 objects of any class: no copies, long downloads and restores; short ones and copies that expire soon; copies set to two days with restores of a day and a half | `DownloadsReadable`, `ReadableAtReturn`, `PreDownloadEnds` |

* **BackupSet.**  `PublishedMatches`: every volume a readable manifest at a
  destination lists is the object it was written for.  `PublishedIsOneStream`:
  those volumes are one whole stream of the manifest's job.
  `PublishedNeverOverwritten`: no step changes objects beside a readable manifest.
  `CacheSound`: a volume in a destination's cache is there as recorded, or gone.
* **SendPipeline.**  `FinalMeansWhole`: a final manifest, in the cache or at a
  destination, implies that zfs send succeeded and every volume is recorded and
  everywhere.  `SuccessMeansPublished`: nil from `group.Wait` implies the manifest
  is everywhere.  `FileBufferBounds` is stated while the collector runs: once it
  ended, `fileBuffer` is closed and the splitter can create one more volume on its
  way to noticing.  `Terminates`: `group.Wait` returns and the forwarder, which is
  in no group, ends too.
* **ReceivePipeline.**  `ReceiveEnds` is stated for one worker; `receive_parallel`
  shows what more of them can do.  The safety properties hold for all.
* **SmartSend.**  `PublishedIntact`: no run overwrites the volumes of a published
  set though each planned without the lock.  `PublishedIncrementalsRestore`: an
  incremental that is published has its whole chain there, unless a set was deleted
  after the plan, and continues a backup of its own stream kind.  The other three are
  about *steady* sends: one run at a time, no set deleted, and no `--full`, which
  compares nothing with the last backups.  `NeverStuck`: no failed upload leaves the
  destinations so that `--increment` or `--fullIfOlderThan` refuses to go on.
  `FullStartsNewChain`: a full is the newest backup where it is published.
  `NothingToSendMeansCaughtUp`: sending nothing means having nothing to send.
* **PlanSimulation.**  `OutagesAreHarmless` holds for all histories; `CadenceKept`
  (with `EveryCandidateBecomesFull`, a part of it) is stated for those without
  outages.
* **AutoRestore.**  `DestroysOnlyAsked`: of what the target had when the restore began
  (`Original`: snapshots, data without any, datasets below) no receive destroys anything
  without `--allowDestroy`, except that a later `--replication` step may destroy the
  source the chain started from.  That exception is not what the code promises:
  `NothingDestroyedUnasked` is the promise without it, and is violated (section 5).
  `RestoredIsAsked`: success means that the snapshot of a backup with the name asked for,
  or the latest's name, is on the target, the very one by its guid if its manifest
  records one.  That the *name* is not enough for the latest is in section 5.
* **CacheSync.**  As named; the three budgets of `cachesync` have no kill together with a
  power loss and no reader together with a deletion, which do violate it (section 5).
* **BootLock.**  `ExclusionUnlessRaced`: nothing lets a second run in but a removal that
  hits a lock nobody looked at, or one whose boot file is still the one before it
  (`raced`).  So kills, reboots, lost and empty files and reused pids alone never do,
  and neither does `Unlock`, whose looks and removals are four steps that any run may
  come between.  `OldBootNeverBlocks`: a lock that was taken whole before a restart makes
  no run exit as busy, also when several look at it together.
* **Clean.**  As named; section 5 says what the bounds leave out.
* **GlacierRestore.**  `PreDownloadEnds` is stated where a copy lasts longer than a
  restore may take (`OutlastsTheWait`: the computed days always do here, and
  `AWS_S3_RESTORE_DAYS` of two days does with restores of a day and a half, so that a
  copy gets within half a day of expiring behind the poll).  Where it does not,
  `PreDownloadAlwaysEnds` is violated (section 5).

Bounds.  For `BackupSet`, two destinations are enough for one to be ahead of or behind
another and for "some of the destinations" (all orders and subsets are command lines);
one is atomic and one is not, so both kinds of leftovers meet.  Two units of stream give
sets of one and of two volumes, cuts that differ between attempts, and a resume that
keeps one of two.  Three attempts are the shortest history in which an attempt to all
destinations, one to some and a resume to all meet.  The proofs of section 4 remove
these bounds, and those of the pipelines' safety, of `Clean`, of `AutoRestore`, of
`SmartSend` (one of its five properties under a condition on stream kinds), of
`BootLock`, and of `CacheSync` under its budgets.  Volumes, workers and links of the
pipelines are as many as it takes for one to wait while another ends.  The smart sends
have time for a full, an incremental and the next full of a schedule with two kinds; the
simulation has three full periods.  A chain of three with a second full is the shortest
in which a restore can meet the target in the middle.  Two volumes let a cached manifest
describe one attempt's first and another's second volume.  Three reads are all that
clean makes.

Fairness.  `SendPipeline` and `ReceivePipeline` assume weak fairness of all their
progress together: while some goroutine can take a step, or an upload, a download
or a zfs process that nothing keeps waiting can end, one does (the Go scheduler runs
what can run; transfers have timeouts and retry limits).  No step is undone and none
repeats, so this is all that ending needs.  Failures and signals are never assumed.
`AutoRestore` assumes that the run goes on while it can (it is one goroutine), and no
error.  `GlacierRestore` assumes that time passes while the program waits, that S3
ends the restores it accepted, and that the program goes on.  The other modules have
no liveness property: nothing forces an operator to run a command again.

Deadlock is checked in the runs of the pipelines, of `AutoRestore`, of `GlacierRestore`
and in `backupset`.  In the others the bounded histories come to an end.

### What the violations show

* **`receive_parallel`** (`restore.go:942`).  A download worker takes its volume
  first and its place in `bufferChannel` second.  With two workers and three good
  volumes: worker 1 takes volume 1; worker 2 takes, places and downloads 2, then
  3; both places are held by volumes that can be freed only after volume 1, whose
  worker waits for a place.  Nothing has failed, so nothing is canceled: receive
  waits until a signal.  It needs at least two workers (`--maxFileBuffer`, default
  5) and more volumes than workers.
* **`sendpipeline_nostart`** (line 1584).  In pipe mode the splitter may have
  handed its first volume to the uploader before `cmd.Start` fails; that early
  return skips the abort of line 1630, and the deferred `stop` has unregistered
  the watcher by the time the group's context is canceled.  The upload reads a
  pipe nobody will write, and send hangs instead of reporting the error.  With
  files (`sendpipeline` has a job whose zfs send may not start) it does not.

## 4. What is proved

Each proof module has the same shape: an inductive invariant `Inv` (defined at the
end of the module it is about, and checked there with TLC before it was proved), one
lemma per action, `Invariance`, and the properties as consequences.  The theorems
hold for every value of the constants that satisfies the module's `ASSUME`s; these
say what the options and sets are (at least one destination, one worker, one volume;
pipes only with one destination, because send refuses the rest) and that `None` is
none of the values it stands beside.

### BackupSet

For any finite set of destinations, any jobs and streams, any stream length, buffer
size and number of attempts:

| Theorem | Statement |
|---|---|
| `Invariance` | `Spec => []Inv` |
| `TypeCorrect` | `Spec => []TypeOK` |
| `CacheIsSound` | `Spec => []CacheSound` |
| `PublishedSetsMatch` | `Spec => []PublishedMatches` |
| `PublishedSetsAreWhole` | `Spec => []PublishedIsOneStream` |
| `PublishedSetsStay` | `Spec => PublishedNeverOverwritten` |

None of the four properties is inductive.  `PublishedMatches` needs to know that
a run about to publish has its volumes where the manifest goes (`VolumesThere`,
`LineThere`) and that destinations a run may still write to have no manifest
(`Unpublished`, established by `refuseExistingSet` under the lock).
`VolumesThere` needs, for the volumes a resume keeps, that *each* destination's
cache vouches for its own copy: `CacheSound` together with the comparison of all
caches in `cachedAtEveryDestination` and the listing of `verifiedVolumes`.
`CacheSound` in turn survives uploads only because, once a run may upload, the
caches of its destinations list nothing but what the run keeps (`CacheOfRun`,
established by `discardPartialManifests` or the rewrite in `tryResume` *before*
the first upload) and a volume in flight is never one of those (`LineThere`).
`PublishedIsOneStream` rests on `PiecesGood` and `ManifestsGood`: kept, recorded
and flying volumes are numbered without a gap and continue one stream up to
`cut`, which the hash comparison of the skipped bytes re-establishes for a
resumed run.  `RunShape` says which of the run's variables mean something where.
`Inv` is their conjunction; it is checked by TLC in `backupset`, and its
preservation is one lemma per action.

### SendPipeline

For any numbers of destinations, parallel uploads, buffered files and volumes,
through files and pipes, whatever fails and whenever a signal comes:

| Theorem | Statement |
|---|---|
| `Invariance`, `TypeCorrect` | `Spec => []Inv`, `Spec => []TypeOK` |
| `FinalMeansWholeAlways` | `Spec => []FinalMeansWhole` |
| `SuccessIsPublished` | `Spec => []SuccessMeansPublished` |
| `ChannelsClosedLast` | `Spec => []NoSendOnClosedChannel` |
| `FileBufferIsBounded` | `Spec => []FileBufferBounds` |
| `Implementation` | `Spec => ImplementsPublication` |

The heart is what `pendingVolumes` means.  `InOrder` names the number `f` of volumes
that have left `startCh`: behind it the volumes are in order (`Behind`), everything
further on is one of them (`Ahead`), and the pending count is at least the number of
the `f` that the manifest does not have (`Counted`).  Not equal to it: a volume that a
failure loses stays counted.  So the count reaches zero only when all are recorded,
and with `StreamOrder` (`startCh` is closed only by a zfs send that succeeded) the
finalizer starts from a whole set.  `OnePlace` makes the count one per volume: a
volume is in one channel or in one worker's hands.  `Uploaded` carries "at
every destination up to this link" along the chain.  `ManifestLast` and
`ManifestNotLost` follow the manifest itself: nowhere ahead of the link it is at, and
never gone unless a worker failed, whose error `LinksEnd` keeps; so nil means that it
is everywhere.  `TokensKept` is the balance of `fileBuffer`.  In the refinement the
end of an upload is `Store` or `Publish`, the return of `group.Wait` is `Return`, and
every other step stutters; `Publish` needs all volumes at all destinations
(`ManifestLast`, `Uploaded`) and the destinations before this one to have the
manifest (`Uploaded`).

### ReceivePipeline

For any number of volumes, each good, differing or missing, and any
`--maxFileBuffer`:

| Theorem | Statement |
|---|---|
| `Invariance`, `TypeCorrect` | `Spec => []Inv`, `Spec => []TypeOK` |
| `FedInOrderAlways` | `Spec => []FedInOrder` |
| `SuccessIsRestored` | `Spec => []SuccessMeansRestored` |
| `StorageIsBounded` | `Spec => []StorageBounded` |

`HeldOnce` and `Untaken`: every volume is still queued, or in one worker's hands with
its channel open, or done.  `HandedOnIsSound`: what the orderer was given was taken,
and as a file written and compared.  `FedUpTo` ties what zfs receive read to where
orderer and copier are.  `NoFailureLost` is why success means restored: a volume that
was taken and is not good is still held or has failed a worker, and
`receive` waits for all workers.  `SlotEach`: each volume on local storage has its
place in `bufferChannel`; a volume that failed keeps one too, so this is no equality.

### BootLock

| Theorem | Statement |
|---|---|
| `Invariance` | `Spec => []Inv` |
| `SecondHolderRaced` | `Spec => []ExclusionUnlessRaced` |
| `OldBootIsNoObstacle` | `Spec => []OldBootNeverBlocks` |

for any finite sets of processes and pids, any number of runs, kills and reboots, and as
many processes inside `TryLock` together as there are.  Exclusion itself is false
(section 5); the theorem is that only those removals break it.  The invariant
has two parts.  Always true are `PidsDiffer`, `OwnFile` (the lock is a running process's
only between its link and its `Unlock`), `BootRecorded` (what a lock taken whole has
beside it) and `OldUntouched`: while a lock of an earlier boot is there, no run of this
boot has got past it, none is in its second `TryLock`, and what was read of it is still
so; the second theorem follows.  Until `raced` there is `Undisturbed`: `HolderLinked` and
`HolderBooted` say what the files are while a run has the lock, through the four steps of
`Unlock`, and `FoundLives` that a run which is still alive when another has looked at its
lock has that lock, and the other is not on its way to remove it.  A removal then takes
the lock of a run that ended, or breaks the hypothesis.

### Clean

| Theorem | Statement |
|---|---|
| `Invariance` | `Spec => []Inv` |
| `PublishedSetsStayWhole` | `Spec /\ Sparing => []PublishedStaysWhole` |
| `UnfinishedSendsStay` | `Spec => []UnfinishedStaysResumable` |
| `CleansThoroughly` | `Spec => []CleanIsThorough` |
| `LocalManifestsGoLast` | `Spec => LocalManifestLast` |

for any sets, datasets, other jobs, volumes, failures and numbers of sends and cleans.
`Sparing` says that `--force` runs only where every job is this one; section 5 has what
happens otherwise.  The properties of this job's sets need no such hypothesis
(`OursWhole`).  The argument is about stale reads: `ManifestsRead`, `ObjectsRead`
and `ContentsRead` say that what a read of clean found is how things *are* for the
datasets it had locked before that read, because sends need the lock
(`SendsLocked`, `CleanLocked`) and only clean deletes; and a judgement uses nothing
else.  `DeletesUnlisted` carries the judgement through the deletions, one at a time,
while other datasets are sent; `DeletesTheRest` is its other half, from which
thoroughness follows.

### CacheSync

| Theorem | Statement |
|---|---|
| `Invariance` | `Spec /\ Tame(left) => []Inv` |
| `CacheDescribes` | `Spec /\ Tame(left) => []CacheDescribesLastRun` |
| `PublishedRestores` | `Spec /\ Tame(left) => []PublishedSetRestores` |
| `ReadersGetPublished` | `Spec /\ Tame(left) => []ReaderGetsPublished` |

for any number of volumes, sends, readers, kills, power losses, deletions and cleans
such that there are no power losses together with kills or cleans, and no readers
together with deletions (`Tame`); both exclusions are needed (section 5).  The three
budgets of the run are tame.  `Possible` are the directories that a process or a power
loss may find, and `AllDescribed` demands of *all* of them that no manifest in them
lists a volume another attempt replaced.  An upload keeps that because of
`CacheOfSend`: by then every possible directory is empty or has the manifest of this
run.  That in turn needs `EmptyIsSynced`, since `discardPartialManifests` syncs nothing
when it finds nothing: an empty cache it finds is one no power loss fills again, which
is where kills and cleans have to be excluded.  Readers are safe because of
`SendAlone` (no manifest at the destination while a send runs, so a reader does not get
past its listing), `ReadersSafe`, and `FinalIsSynced`: the final manifest that
`--resume` publishes from the cache is the only one a power loss can leave.

### AutoRestore

| Theorem | Statement |
|---|---|
| `Invariance` | `Spec => []Inv` |
| `OnlyTheSourceIsUnasked` | `Spec => DestroysOnlyAsked` |
| `RestoredIsWhatWasAsked` | `Spec => []RestoredIsAsked` |
| `LatestIsTheLatest` | `Spec => []LatestIfUnambiguous` |
| `ChainIsSound` | `Spec => []ChainSound` |

for any finite set of manifests with any links between them, with guids or without, any
target, any snapshots taken meanwhile and any failures.  The first is about one check
that has to last: `receive --auto` looks at the target once and then receives a chain.
`ListedStill` says what the listing is worth until the first receive (what was listed is
there, the rest was taken since), `BeforeFirst` keeps the answer of `refuseDestroy`, and
`CheckedFirst` is the same fact for an explicit receive.  After the first receive times
mean nothing, since a received snapshot may bring any; `AfterFirst` takes over: the
source of the next step is a snapshot that was received, and those are behind all that
the target had, so a rollback to it cannot reach the target's own; and where a
replication stream is to come the target had nothing but the source of the chain
(`ForcedSpares`), the one thing such a stream may take.  A snapshot taken meanwhile may
have the name and time of a step's source: `TwinSource` says that zfs, which compares
guids, takes no stream for it.

For the second, `HeadIsAsked` follows the backup from the choice to the head of the chain
and to the target; what is found there at the start is the very snapshot only where the
manifest has its guid, so the theorem says that much.  `LatestIsTheLatest` is the promise
for a restore without a name under what it needs: no other backup at the destination has
a snapshot of the latest's name, and its manifest records the guid.  `ChainSound` says
that the chain has no more backups than there are, so the cap in `Longer` cuts off
nothing, and that each is of the source of the one before it.

### SmartSend

| Theorem | Statement |
|---|---|
| `Invariance` | `Spec => []Inv` |
| `PublishedSetsStayIntact` | `Spec => []PublishedIntact` |
| `OneManifestPerSet` | `Spec => []SetsDiffer` |
| `ChainInvariance` | `Spec => []Whole`, where `Whole` is `Inv /\ Typed /\ Chains` |
| `BackupsRestore` | `Spec => []EveryBackupRestores` |
| `ProgressInvariance` | `Spec => [](Whole /\ Progress)` |
| `DestinationsNeverStuck` | `Spec => []NeverStuck` |
| `FullsStartNewChains` | `Spec => FullStartsNewChain` |
| `NothingToSendIsCaughtUp` | `Spec => []NothingToSendMeansCaughtUp` |
| `StreamKindInvariance` | `Spec => [](Whole /\ Progress /\ StreamKinds)` |
| `SentKeepsStreamKind` | `Spec => [][... SentContinues(r, d)]_vars` |
| `PublishedRestore` | `Spec /\ Kept /\ Unmixed => PublishedIncrementalsRestore` |

for any number of runs, destinations, jobs, snapshots, failures and deletions, any
schedule, windows and kinds.

For `Inv` the planner is left opaque: a plan may be anything, however old what it was
made from, and the sends are safe all the same, because what they check is checked
under the lock.
`SendsLocked` gives one sender at a time; `UploadsNew` keeps what `refuseExistingSet`
found (no destination has the set) until the last volume is up, and counts the
destinations that are done; `PublishesBeside` says that a manifest goes only to where
its own volumes are and it is not, both after uploads and for `copyManifest`.
`SetsDiffer` is needed for deletions: a set that is deleted takes no other set's
volumes with it.

The rest is about what the planner decides, and starts with lemmas about its operators.
A listing is a permutation of what the destination has, in order (`SortedList`, by
counting ranks); `chainFrom` is well defined and its links are parents (`ChainLinks`);
in a list that is newest first, whose incrementals are newer than their sources and
have them in the list, every chain ends in a full before the list does (`FullReached`);
`dropFutureDated` leaves such a list such a list (`NotFuture`, `DropUnbroken`).  On these
rests the planner's promise, `PlanAtSendable`: what `planSmartAt` decides to send from
*any* lists it may read is of a snapshot, goes forward in time, and its source is in
every list, provided the lists are unbroken.  That is proved by cases of `planSmart`
(`ExplicitFullPlanned` to `SmartPlanned` for new sets, `PartialSendable` for one that is
completed).  The prover has no induction over data; facts about all links or all places
of a list are proved from the least place at which they would fail (`Least`, which rests
on the well-foundedness of `<`).

`Chains` carries the promise to the destinations: what a run read is, if nothing is
deleted, still there when it sends, so the source of what it publishes has a backup
beside it, however many runs published in between.  `BackupsRestore` follows with
`FullReached`.  No condition on overlap is needed.

`Progress` is the invariant of steady sends.  Between two runs the destinations may
differ, after a failure between two manifests, and the planner refuses destinations that
differ.  `InStep` says that they differ by one set only, the newest, and that its volumes
are where its manifest is not: that is what `partialSet` looks for and
`partialVolumesPresent` and `verifyVolumesAt` find (`Apart`), so the planner completes it.
`InStep` lasts because what a run sends is newer than all there is (`Newest`, from
`SteadyPlan`), and that needs `Passed`: the pool has a snapshot at least as new as every
backup (pruning keeps the newest of a kind) and no wrong clock dated it.  `Datable` is what
`dropFutureDated` relies on.  Given `Progress` the properties are about one call of the
planner: `Settled` follows its cases and shows that none gives a refusal of `Stuck`, and
that `noop` is given only when the candidates are no newer than the last backup, or the
source is pruned and no full candidate is newer.

`StreamKinds` adds the `--raw` setting: where the manifest of a set is still to go, the
backup of its source that a restore takes is of its kind.  `refuseMixedChain` establishes
it and the lock keeps it.  A *completed* set has it from where it was sent, if the
destinations still agree below it: at one destination nothing is completed, and steady
sends stay in step.  Otherwise a `--full` of the other kind may come in between
(section 5), so `PublishedRestore` asks for one of these or for one `--raw` setting
(`Unmixed`), while `SentKeepsStreamKind`, about sets that are sent, asks for nothing.

### Only model-checked

`PlanSimulation` and `GlacierRestore`, and all liveness (`Terminates`, `ReceiveEnds`,
`RestoreEnds`, `PreDownloadEnds`).  TLAPS does not reach liveness under fairness or
`ENABLED`.  The checks of `PlanSimulation` bound the depth of a chain and the time
between fulls by sums over the schedule, which needs induction over data (the steps of
one `Run` are arithmetic over all periods); the properties of `GlacierRestore` hold for
its times and sizes only (section 5).

## 5. What lies beyond the bounds

The following histories break what a comment or the documentation says, or what a
property states once one bound is widened.  Each was found with TLC on these modules; they
are recorded here so that nobody takes the bounds, or the conditions of the properties,
for guarantees.  The first nine have a configuration each, beside the modules, under which
TLC finds the property named first violated; they are not among the runs of section 3.

* **`NothingDestroyedUnasked`, `MCAutoRestore_source`** (`restore.go:783`). The target
  has `a1`; the chain is `a2` from `a1` and `a3` from `a2`, the last sent with
  `--replication`; the sender dropped `a1` in between. The check takes `a1` for the
  source only, and what later steps start from for something the restore itself brought;
  the second `zfs receive -F` destroys `a1`, without `--allowDestroy` (`README.md:201`,
  205).
* **`TakenStay`, `MCAutoRestore_taken`** (`restore.go:211`). A snapshot somebody takes
  of the target after it was listed is newer than the source, and the next `receive -F`
  rolls back over it: "The steps do not check again."
* **`LatestIsRestored`, `MCAutoRestore_latest`** (`restore.go:142`). Without a name the
  latest backup is looked for by its snapshot's name. Where an older backup has the same
  name (the snapshot was destroyed and taken again), the older one may be chosen because
  it applies, or be there already, and receive reports success ("Restore to the latest
  snapshot available", 101).
* **`RefusalsComeFirst`, `MCAutoRestore_refusal`** (`restore.go:394`). Another local
  snapshot with the name of a later step, older than the source, passes the check of the
  whole chain; the steps before it are received and that step is refused, where
  `README.md:207` says that "a refusal never leaves a part of the chain restored".
* **`PublishedSetRestores`, `MCCacheSync_loss`** (line 1264). `discardPartialManifests`
  syncs the directory only when it removed a file itself. A run killed between
  `os.Remove` and `syncDir` leaves the removal unsynced; the next run finds nothing to
  remove, does not sync and uploads; a power loss brings the first attempt's manifest
  back, and a `--resume` publishes its checksums beside the new volumes.
* **`CacheDescribesLastRun`, `MCCacheSync_reader`** (`sync.go:226`). A reader that
  downloaded a manifest before the set was deleted at the destination renames it into
  the cache after a new send discarded the cached one; the cache describes the deleted
  volumes until that send saves its first (the promise is at 1752–1755).
* **`MutualExclusion`, `MCBootLock_overlap`** (`lockfile.go:152`, called at 502). A run
  finds the lock of one that is just ending and reads its pid; that run unlocks and
  exits; a third links a fresh lock; the first finds the old pid dead and removes
  whatever lock is there. Two runs hold the lock, and no crash, kill or restart was
  needed; the comment at 499 names the stale lock only.
* **`PreDownloadAlwaysEnds`, `MCGlacierRestore_short`** (`aws_s3_backend.go:591`). With
  `AWS_S3_RESTORE_DAYS=1` a copy of a later key comes early and expires while the poll
  waits two days for the key before it. `waitForRestores` then polls it for ever and
  nothing asks again, though `PreDownload` promises to restore what expired and to give
  up after some rounds (345).
* **`DownloadsReadable`, `MCGlacierRestore_rounds`** (`aws_s3_backend.go:372`). A round
  checks again only the copies that were readable before the wait. One restored in the
  first wait expires in the second, which another copy caused, and its download fails.
  Rounding an expiry up to midnight (at most a day) saves neither of these two: waits of
  four days against a copy of three, and of two against one.
* **Cache.**  `clean --cleanLocal`, which does not sync either (`clean.go:655`), followed
  by a send and a power loss does what `MCCacheSync_loss` shows for a kill.  A reader that
  listed the set before a deletion can also read the new send's partial manifest
  (`ReaderGetsPublished`, with the budget of `MCCacheSync_reader`).
* **Planner, destinations that disagree** (`SmartSend`).  The full chosen for the
  destination that is behind may be older than the newest backup of the one that is
  ahead, so it does not bring "them back in step" (`plan.go:380`); they meet at the
  next full candidate newer than both.
* **Planner, stream kinds.**  When the full of a chain is deleted and sent again
  with the other `--raw` setting, the next incremental continues the old
  incrementals on it: the check compares only with the newest backup
  (`plan.go:503`), while `plan.go:499` says that "a chain keeps one stream kind".
* **Planner, a completed incremental of the other kind** (`SmartSend`, two
  destinations, one failure, jobs with and without `--raw`).  An incremental of a
  snapshot that was itself sent as an incremental is published at one destination only;
  `--full --raw` of that snapshot is sent to both; the next run completes the partial set
  (`plan.go:275`) without comparing kinds, since `refuseMixedChain` runs for new sets
  only, and a restore takes the full.  `MixedChainError` would have refused to send it.
* **Planner, a completed incremental without its chain** (two destinations, two sets
  deleted).  When the full was deleted at both, the next run completes the incremental at
  the second destination too: `planSmart` looks for broken chains after partial sets.
* **Planner, `--full` between failures.**  `NeverStuck` is stated without `--full` runs:
  a full of an older snapshot whose manifest is missing at one destination is not the
  newest set, so the planner does not take it for a partial one, and the next
  `--fullIfOlderThan` stops because the last fulls differ; `--full --resume` completes it.
* **Simulation, equal times.**  Two backups of one creation time stay in the order
  of sending in the simulation (`plan.go:787`), and come back in the order of their
  names from a listing (`plan.go:595`, "the way getBackupsForTarget would read it
  back").
* **Clean, two prefixes and `--force`.**  A broken set under this prefix is deleted
  with the volumes it lists (`clean.go:504`), also those that a manifest under
  another prefix is for, which `clean.go:281` says "are never deleted either".
* **S3, a copy that lasts two days** is left alone, because that is past the margin
  of one day (`aws_s3_backend.go:438`), and expires before downloads of three days
  reach it.  A failed extension, which is a warning, has the same effect.

## 6. Not modelled, and what is next

Not modelled: compression, encryption and hashing layers of volumes
(`files/volumeinfo.go`, `pgp/`: data, apart from `Close`, `Abort` and the pipe
hand-over in the pipelines); the object stores other than S3's archive restore
(client-library I/O; an upload appears whole or not at all); file and ssh backends
beyond uploads and what a kill leaves of them; mount guards and properties of
`receive`; nested destinations and unparsable names in `clean`; text output,
progress, configuration, flag parsing; the zfs wrapper, whose outcomes are the
environment of the models, and the fake zfs of the tests; the reader of plan
fixtures and the report of a simulation.  Sends from another host or working
directory, and a power loss that takes back completed uploads of a file destination
(`file_backend.go` does not sync), are outside what the code guards against.

Left for later: the checks of `PlanSimulation` for every schedule, for which the lemmas
about the planner in `SmartSendProofs` would serve.
