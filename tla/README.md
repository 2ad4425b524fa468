# A formal model of OTG Master's storage stack

OTG Master is an Android app that opens USB drives without root: it claims the drive from the phone,
speaks SCSI to it, unlocks encrypted containers, and reads and writes FAT32, exFAT, NTFS, ext4 and APFS
volumes, and backs folders up to a drive as restic snapshots. Everything the user keeps on a drive goes through a tower of block devices and file systems that
this project models in TLA+, checks with TLC on small instances and, but for liveness, proves
with TLAPS for all instances.

Paths below are relative to `src/`; `app/.../` stands for `app/src/main/java/app/fayaz/otgmaster/` and
`libaums/.../` for `libaums/src/main/java/me/jahnen/libaums/core/`. In lists of lines the prefix is left out.

## Inventory

| Component | State it keeps | Operations | Hard behaviour | What makes it correct |
|---|---|---|---|---|
| Block cache `app/.../block/CachedBlockDevice.kt` | line map in access order, lines being fetched, fetches dirtied meanwhile, one lock | `readBlocks`, `writeBlocks`, `invalidate`, `close` | fetches and copies run outside the lock; writes fail half way; arrays are zeroed on eviction | cache and device agree; callers see a plain block device |
| USB block device `app/.../usb/LibaumsRawBlockDevice.kt`, `UsbTransferQuirks.kt`, the opener | transfer size, record of the last retry, window of recent writes, size remembered per drive model | chunked `readBlocks`, `writeBlocks`, `recover`, `resetPort`, `replayRecentWrites`, `close`, open | a reset costs the drive writes it had acknowledged; retries nest; several threads share one drive | what was acknowledged is on the drive; calls on a failing drive end |
| SCSI over bulk-only transport `libaums/.../driver/scsi` | tag counter, buffer position, what the drive has queued | `transferCommand`, request sense, mass-storage reset | stalls, timeouts, stale and short answers, refused resets | a command that succeeds did what was asked; host and drive stay in step |
| ext4 journal `app/.../ext4/Ext4Journal.kt` | log, journal superblock, needs-recovery flag, home blocks | `recover`: scan, revoke, replay, empty the log, clear the flag | the drive is pulled at any write; torn tails, stale log blocks, wrap-around, revokes, escapes | log and home blocks together always hold what was committed |
| ext4 file system `app/.../ext4` | inodes, bitmaps, extents, superblock state | create, write, truncate, delete, rename, `markDirty`, `markClean` | no journal is written, so the order of writes is all there is | a pulled drive leaves leaks, never shared or dangling blocks |
| exFAT `app/src/main/cpp/exfat`, `app/.../exfat` | bitmap and nodes in memory; FAT, bitmap, entries and data on the drive; reference counts, the queue of nodes to give back | create, read, write, truncate, delete, rename, flush, unmount; finalizers and the releaser thread | entries and bitmap are written late, links and data at once; any write fails; garbage collection decides when a node is given back | files keep their contents and clusters; what was flushed is on the drive; no freed node is used |
| FAT32 `libaums/.../fs/fat32` | FAT copies, chain cache, directory entries, FSInfo | `alloc`, `free`, chain and directory writes | two-block buffers, mirrored tables, a full volume, a pulled drive | chains never share a cluster; copies agree |
| restic repository `app/.../backup/restic` | packs, index files, snapshots, locks | backup, forget, prune, check | the process is killed between any two files; stale locks | no snapshot ever names data that is not there |
| Backup jobs `app/.../backup` | persisted jobs, queue, delays, prompts | schedule, delay, start, cancel, run, verify, recreate | timer, alarm and scheduler race; drives come and go | one run per job; every queued job ends |
| Mounted drives `app/.../OtgMasterState.kt`, `MountedDriveService.kt`, `MainActivity.kt` | mounted list, service state, the operation in progress | mount, unmount, progress, start and stop of the foreground service | callbacks from three threads, a start that is still pending | the service is up while anything needs it |
| Document provider `app/.../provider` | open proxy descriptors | open, read, write, delete | an unmount under an open file | no I/O on a closed device |
| Encrypted containers, partition tables, formatters, recovery, the NTFS and APFS wrappers, credentials, MTP, UI | none worth a model, or third-party | | | |

The parts are stacked. A file system calls its `RawBlockDevice`, usually a `CachedBlockDevice` over a
decrypting device over a slice of the `LibaumsRawBlockDevice`, which calls libaums' `ScsiBlockDevice` for one
SCSI command per chunk. libexfat runs below JNI and calls back into its `RawBlockDevice`. Threads are not owned by any layer: the document provider, backups, the UI and the
scans call in from their own threads, and every layer protects itself with a lock of its own. Failures
travel upwards as exceptions; recovery (resets, retries, replays) happens in the two lowest layers.

`PROJECT.json` lists every component with its status and the hazards the properties are about, each with the line
where it bites; further ones are under "Hazards without a property".

## Modules

| Module | Models | Extends |
|---|---|---|
| `BlockDeviceContract` | abstract: what a `RawBlockDevice` promises its callers | |
| `CachedBlockDevice` | the block cache | |
| `CachedReads` | the cache with what its readers receive; refines `BlockDeviceContract` | `CachedBlockDevice` |
| `CachedBlockDeviceProofs` | theorems about the cache; it implements `BlockDeviceContract` | `CachedReads`, TLAPS |
| `UsbBlockDevice` | chunks, retries, step-down, port resets, the replay window | |
| `ScsiTransfer` | one SCSI command after another over bulk-only transport | |
| `Ext4Journal` | journal replay, with the Linux that fills the log | |
| `ExFatVolume` | libexfat's files: clusters, FAT, bitmap, entries, one step per device write | |
| `ExFatVolumeInvariant` | the inductive invariants `ExFatVolumeProofs` rests on | `ExFatVolume` |
| `ExFatHandles` | references from Kotlin to native nodes: requests, finalizers, releaser, unmount | |
| `ResticRepository` | backup, retention, prune and check on a restic repository, with a mounted reader | |
| `MountedDriveService` | the foreground service, the main thread and Android | |
| `BackupWork` | the backup executor, composed with the service | `MountedDriveService` |
| `UsbBlockDeviceProofs`, `ScsiTransferProofs`, `Ext4JournalProofs`, `ExFatVolumeProofs`, `ExFatHandlesProofs`, `ResticRepositoryProofs`, `BackupWorkProofs` | theorems about the module they are named after | that module (`ExFatVolumeProofs`: `ExFatVolumeInvariant`), TLAPS |
| `MCCache`, `MCCachedReads`, `MCUsb`, `MCScsi`, `MCExt4Journal`, `MCExFatVolume`, `MCExFatHandles`, `MCResticRepository`, `MCBackupWork` | instances for TLC | the module they instantiate |

A definition whose comment begins with "Mutant" is a plausible mistake in the definition that follows it. It
is never used by a specification: `PROJECT.json` names, for every property, the replacement that must break it.

### Block cache

One action per stretch of code between two points where other threads can get in. A reader is `idle`, in the
`bypass` of a large request, at `lookup` (`LookupHit`, `LookupMiss`, under the lock), in a `fetch`
(`FetchBlock` reads the delegate block by block outside the lock; `FetchPublish`, `FetchSuperseded` and
`FetchFail` are the locked ends), at `copy` (`CopyBlock`, outside the lock) or about to `return`. A writer
holds the write lock from `WriteStart`, which flags the fetches it overlaps, over `WriteBlock` for each block that
lands, to `WriteDone`, which patches the cached lines, or `WriteFail`, which drops them. `Invalidate`,
`CloseDrop` and `CloseDelegate` are the rest.

* The `LinkedHashMap` in access order is the function `lines` with the relation `older`; `Touch` and `Eldest`
  are its access and its `removeEldestEntry`.
* A reader that copies out of an array the map holds is in `shared`: it sees patches to it. When the line is
  dropped the array is zeroed under it, which the model does by leaving the reader with a blank private array.
* `fetching` is a set in the code and in the model. Two readers of one line therefore share one mark. This is
  finding `cache_stale`, and `SoleFetchSpec` is the specification without such a pair.
* A block is atomic: a copy that is cut by a patch inside one block is not modelled.
* The code never has fewer than four lines; the runs use one, so that every insert evicts.

`CachedReads` adds the output array of every read and a history of what each block has contained since the
read began. `Contract` maps it to `BlockDeviceContract`, in which a read may return for each block any content
the device had during the call. `QuietSpec` leaves out two fetches of one line and arrays zeroed under a
reader (see "Findings"), and is shown to implement the contract.

### USB block device

A thread's call goes through `chunk` (`PickChunk` reads the transfer size before the lock), `transfer`, and
after a reset `replayIn` (inside the critical section) or, after `recover`, `replayAfter`. `recover` is `Ask`,
`PortReset`, `AskAgain`, then `Judge`, which reads the record of the last retry, and `Record`, which writes it, both without the
lock; `StepDown` halves the size under it, `GiveUp` is its failure at the floor and `NoRecovery` the early return.
Any number of threads read and write.

* The drive is external. A command succeeds, succeeds after a reset, or fails. A reset turns any of the blocks
  the drive has in hand into `Lost`; it has in hand the newest `DriveWindow` blocks. The assumption
  `DriveWindow + MaxTransfer <= ReplayBlocks` says how much a drive may hold back for the replay to make sense:
  `rememberWrite` drops the oldest writes before the replay that follows a write.
* What a drive may still lose (`InHand`) is an assumption about drives, taken from the newest of the remembered writes. A drive
  opened anew has nothing in hand: what was written before it was opened is taken to be safe.
* `acked` is history: what the app has been told is on the drive, where it may claim it. It has no claim on the window
  when a call throws without a replay (the drive is gone, closed, refuses the replay, or fails at the smallest size while
  it answers), nor on the blocks that one thread's write pushes out of the window while another thread's replay is due
  (`PushedOut`). Both are losses the code can have, see "Divergences without a run".
* The increment of `transfersSinceRetry` and its reset are one step each, though the second has no lock.
* Not modelled: the debug benchmark's size override, and with it the branch of `rememberWrite` for a write
  larger than the window, which no chunk can reach otherwise.

### SCSI over bulk-only transport

A command is a CBW, `Units` packets of data and a CSW with the CBW's tag. What the drive sends is a queue
`pipe`; a failed bulk transfer leaves the rest of it queued, and only the reset sequence empties it. A data
packet carries its command and place, so `SuccessIsGenuine` can compare a buffer with what was asked. The drive
may hang, stall, answer short, report failed or phase error, and refuse resets. `transferCommand`'s loop is
`Again`, with every exception type and its recovery an action. A request for sense that meets a pipe error is taken as any other
failure of it, an unknown status (`IllegalStateException`, `ScsiBlockDevice.kt:332`) does not come, and a drive that reports
success has sent all the data: a residue, which the code parses and ignores, is left out. `InitRequired` is handled by the loop but
thrown by nothing `checkResponseForError` does, so it has no action. Deadlock is not checked in this run: the
number of commands is bounded.

### ext4 journal

The first actor is Linux, which is external: it commits transactions with revokes and escaped blocks, writes
blocks home in any order, checkpoints, and is cut off, possibly in the middle of a commit (`LinuxTear`). Log
blocks may be damaged afterwards. Then the app mounts: `Mount` decides as `Ext4FileSystem.create` does, `Recover`
is the scan and the plan of `Ext4Journal.recover`, and `ReplayBlock`, `EmptyLog` and `ClearFlag` are its writes,
one by one. `Unplug` and `WriteFails` interrupt them anywhere, tearing the block being written, and the volume may
be mounted again by the app or, when it is clean, by Linux.

* `Scan` is pass 1 turn by turn (`ScanBlock`): the tags of the committed transactions in order (`all`) and their
  revoke records (`gone`), in place of the list of transactions the code keeps. `IsRevoked` and `Kept` are pass 2,
  `Plan` the check of the logged copies that precedes pass 3. `todo` is the kept tags by their place in `all`; pass 3
  copies the one with the least place.
* `want` is history: what was committed or written. `Content` is what the volume holds once replayed.
* Sequence numbers wrap at `SeqSpan` as 32-bit integers do, and are compared by signed difference.
* A refusal before the first write (external journal, unknown features, a tag outside the volume, bad geometry)
  is `Refuse`; the reasons are not told apart. `Damage` keeps block headers recognisable. Recovery of a
  flagged volume by Linux is not modelled.
* The drive writes in order. The app has no flush command, so nothing holds against a drive that reorders.

### exFAT: the volume

`ExFatFileSystem` serialises native calls, so only one call is in progress: it is the sequence `todo` of what it
still has to do. A call begins with its action (`CreateFile`, `ReadFile`, `WriteFile`, `SetLength`, `DeleteNode`, `PutNode`,
`Flush`, `Unmount`), the bodies of `exfat_truncate`, `grow_file`, `shrink_file`, `erase_range`, `exfat_generic_pwrite` and
`exfat_flush_node` are actions that replace the head of `todo`, and `DeviceWrites` and `DeviceFails` are the two ways a
device write ends. `Bail` is an error return, up to the next place whose result the code ignores (`Catch`).

* Sizes are whole clusters and files are in the root. The data of a cluster is the file and place it was written
  for, so a read that finds another file's data, or free space, is seen.
* `want` is history: what each place may read as. `safe` is history: files flushed without an error and not
  changed since; `FlushedSurvives` is about them at every device write, not only between calls.
* `fptr_index` and `fptr_cluster` are kept: `Advance` starts from them, as the code does.
* A 32-bit `current - 1` of an empty file with clusters is `LastPlace`, a place behind all the volume has.
* After an unmount that failed the model does not mount again: the drive then holds a mixture (README of the
  repository, "Known limitations").
* Any device write may fail. `torn` is history: the files of which a write of the FAT or an erasure has failed. libexfat does not
  survive such a failure (see "Divergences without a run"), so the properties claim less after it: `ContentKept`,
  `SpaceAccounted` and `FlushedSurvives` nothing, `EntriesReadable` the entries of all other files, `NeverAborts` that only
  calls on such a file abort.
* Files are written while they are in the tree: writes through a handle of a deleted file are left out. Reads of the device do
  not fail.

### exFAT: the handles

`refs` is the native count. Everything in the app that stands for a reference has a variable: `open` files, `litter` (handles
nobody has any more), the request in progress (`call`, which holds the drive's lock), the file `openDocument` has looked
up (`opening`, without that lock), a finalizer past its check (`finalizing`), the `queue` and the releaser. Each native call is
one step, as it holds the file system's lock. `mounted` is how far `unmount` has come. `crash` is set where native code
would abort (`exfat_bug`) or touch freed memory. A rename onto a name whose file something still refers to is such a place
(`"overwrite"`, `node.c:1149`); `NoNativeCrash` is that there is no other. A native call that fails before it has changed anything,
`exfat_unlink` too, is `Refused`; a rename that fails between its two entry writes is left out.

### restic repository

Files of the repository are written whole (`FileTreeBackend.write` renames) so each write or delete is one step with
three ends: it succeeds, fails, or throws after it took effect. `Kill` ends the process anywhere and leaves the drive as it
is. `StartBackup` to `Unlock` are `ResticWriter.backup`, `Retain` and `Forget` the keep rules, `PruneLock` to `PruneUnlock`
are `prune`. `ReaderList` and `ReaderLoad` are a repository browsed at the same time, which loads its list and its index
once.

* A file is one chunk and a snapshot has one tree, the set of its files. Names are hashes in the code; here contents
  name themselves, and packs and indexes are told apart by the run that wrote them.
* `source` is what the scan found. Two jobs share a repository; each forgets only its own snapshots.
* Weekly and monthly keep rules have the form of the daily one and are left out.
* Nothing in the model damages a file, so a run that reports damage (`corrupted`) is wrong. A read that fails while prune marks what
  is used ends the run as failed; reads of retention, of `check` and of the snapshot cache do not fail. So a
  `FileNotFoundException` for a file that is there, which `blob()` takes for damage (`ResticRepository.kt:117`), does not come.
* The time of a snapshot is the number of its run: a phone whose clock goes back between two runs, so that the new snapshot is
  the older one to the keep rules, is left out.
* A reader's load reads the indexes there are. One from which an index vanishes while it loads fails, and since `SafFileTree` keeps its
  listing (:61-75) fails again until the repository is mounted anew; such a reader stays `listed` and nothing is claimed for it.

### Executor and service

`MountedDriveService` has the fields `titles` and `operation`, set without a lock, the flags that `refresh` keeps under it,
and what Android does: it queues `start` and `destroy` for the main thread and ends the process when a service is stopped that
still owes `startForeground`. `BackupWork` adds callers of `start`, the queue and the executor's thread, whose calls of
`operationProgress` and `operationFinished` interleave with the main thread between the assignment and `refresh`.
Drives come and go on the main thread and on threads that mount them (`Mounters`), each of which sets the list and then calls
`refresh`. Whether a permitted USB device is plugged in, and whether Android accepts the start, is open at every `refresh`
(`CallRefresh`): a backup mounted from the phone's own storage asks for the service with nothing plugged in and gets a plain
notification from Android 14 on.

* The list may be any: `OtgMasterState.kt:327-335` reads the mounted drives before `update` sets the list, so a list can be older than the
  one it replaces. What follows for the list is in the model; no property judges the list itself.
* `start` does not throw between `queued.add` and `thread.execute` (`BackupWork.kt:101-119`). If writing the jobs' file failed there the
  job would stay queued; the callers are on the main thread, where the exception ends the process and the queue with it.

## Runs

| Run | Instance | Shows |
|---|---|---|
| `cache_sole` | 2 readers, 1 writer, 3 blocks in lines of 2 (so a short last line), 1 line cached, 2 contents | types, `CacheAgreesWithDevice`, `InFlightMarksHaveOwner` under `SoleFetchSpec` |
| `cached_reads` | 1 reader, 1 writer, 4 blocks in lines of 3, 1 line | `Transparent`: `QuietSpec` implements `BlockDeviceContract` |
| `usb` | 2 threads (one reads 2 blocks or writes 1, one writes the other), 2 blocks, sizes 2 and 1, window 3, drive holds 1, 2 replay rounds | `AckedWritesSurvive`, `LossIsReplayable` |
| `scsi` | 2 packets, 1 recovery attempt, 2 commands | `SuccessIsGenuine`, `InStepUnlessResetFailed`, `CommandsEnd` |
| `journal` | 2 home blocks, a log of 7 blocks entered at its start or its end, 2 transactions, sequence numbers from 15 of 16, three feature sets | `VolumeHoldsCommitted`, `WritableMeansEmptyLog` |
| `exfat_volume` | 2 files, 3 clusters, sizes to 3, writes of up to 2 clusters in device writes of 2, 3 calls from any volume, any device write failing | `ContentKept`, `SpaceAccounted`, `FlushedSurvives`, `EntriesReadable`, `NeverAborts` |
| `exfat_handles` | 2 names, 2 nodes, a queue of 1, 2 references | `ReferencesOwed`, `UnlinkedIsReferred`, `NoNativeCrash`, `ReleaserEnds` |
| `restic` | 2 contents, 2 jobs, packs of 2 blobs, keep the last 1 and 1 day of 2 runs, 3 runs, 1 failing call, any kills | `SnapshotsComplete`, `IndexesHold`, `NotTakenForDamaged`, `MountedReads`, `SuccessIsWhole`, `PrunedClean` |
| `backup_work` | 1 drive, 1 mounting thread, 2 jobs, runs that end with a notice | `OneTaskPerJob`, `StopsOnlyAfterStart`, `ForegroundWhileNeeded`, `QueuedJobsEnd`, `EndsWhenNothingIsLeft` |
| `cache_stale` | violation | two fetches of one line: the second publishes data older than a finished write |
| `usb_returns` | violation | two threads reading 1 and 2 blocks of a drive that fails them, weak fairness of each call: `CallsReturn` fails, both retry for ever |
| `backup_quiet` | violation | the same as `backup_work` with runs that end quietly: the service stays up for ever |

The bounds are chosen so that every action of every specification happens: each insert evicts, a request
covers part of a line, all of it and two lines, a chunk can be stepped down once, the replay can meet a reset and
then succeed, a command can fail and be repeated with answers of the first attempt still queued, a transaction
wraps around the end of the log and the sequence number wraps to zero between two transactions. With three clusters
a second file makes a contiguous one fragmented, and a write of two runs out of space after the first; three calls are
enough to change, flush and change again. With a queue of one every second finalizer finds it full. Three runs of
two jobs let a run prune what an earlier, killed one left, with the other job's snapshots in the same packs.

Deadlock is not checked in the runs whose system may stop: bounded calls, commands and runs, an unmounted volume, a process
that Android has ended.

### Fairness

`CommandsEnd` assumes weak fairness of the command (`FairSpec` of `ScsiTransfer`), and `CallsReturn` is refuted under weak
fairness of each thread's call (`FairSpec` of `UsbBlockDevice`). The code justifies it: every bulk and control transfer has a
timeout, after which the next step of the model is enabled, and locks are held only across such transfers. No
fairness is assumed of callers, of close, or of the drive: it may fail every time.

`ReleaserEnds` assumes that an unmount once begun, a finalizer past its check and the releaser thread go on; none of them
waits for anything but the lock of a native call. `EndsWhenNothingIsLeft` and `QueuedJobsEnd` assume weak fairness of the
main thread, of each caller between `queued.add` and `thread.execute`, and of the executor's thread; strong fairness of what
Android has queued for the main thread, whose queue is first in, first out whatever else arrives, and of the end of a
run, which reports progress finitely often because what it reads is finite.

## Proofs

Every theorem below holds for all values of the constants that satisfy the module's named assumption (any number of
threads, blocks, files, jobs, any sizes), and is checked by TLAPS from nothing. Each invariant is proved as
`Init => Inv`, `Inv /\ [Next]_vars => Inv'` with one step per action, and `Inv => property`. The inductive
invariants were first checked by TLC on the instances of the runs, except for the parts that only a proof can evaluate
(the bound functions of the exFAT volume, the runs of the journal's scan).

| Theorem | Statement | Proof module |
|---|---|---|
| `TypeCorrect` | `Spec => []TypeOK` | all but `ExFatVolumeProofs` and `Ext4JournalProofs` |
| `MarksOwned` | `Spec => []InFlightMarksHaveOwner` | `CachedBlockDeviceProofs` |
| `Agreement` | `SoleFetchSpec => []CacheAgreesWithDevice` | `CachedBlockDeviceProofs` |
| `CacheIsTransparent` | `QuietSpec => Transparent` | `CachedBlockDeviceProofs` |
| `AcknowledgedWritesKept`, `LossStaysReplayable` | `Spec => []` of `AckedWritesSurvive`, `LossIsReplayable` | `UsbBlockDeviceProofs` |
| `SuccessStaysGenuine` | `Spec => []SuccessIsGenuine` | `ScsiTransferProofs` |
| `AttemptsStartInStep` | `Spec => []InStepUnlessResetFailed` | `ScsiTransferProofs` |
| `JournalTyped`, `ReplayKeepsCommitted`, `WritesFollowReplay` | `Spec => []` of `TypeOK`, `VolumeHoldsCommitted`, `WritableMeansEmptyLog` | `Ext4JournalProofs` |
| `VolumeTyped`, `VolumeReadable`, `VolumeRuns` | `Spec => [](torn = {} => P)`, `P` being `TypeOK`, `EntriesReadable`, `NeverAborts` | `ExFatVolumeProofs` |
| `VolumeAccounted` | `Spec => []SpaceAccounted` | `ExFatVolumeProofs` |
| `VolumeContents`, `VolumeFlushed` | if `Lengths \subseteq {0}`: `Spec => []` of `ContentKept`, `FlushedSurvives` | `ExFatVolumeProofs` |
| `ReferencesAreOwed` | `Spec => []ReferencesOwed` | `ExFatHandlesProofs` |
| `UnlinkedStaysReferred` | `Spec => []UnlinkedIsReferred` | `ExFatHandlesProofs` |
| `NoNativeCrashes` | `Spec => []NoNativeCrash` | `ExFatHandlesProofs` |
| `SnapshotsStayComplete`, `IndexesStayTrue`, `MountedReaderServed`, `NeverTakenForDamaged`, `SuccessMeansWhole`, `PruneLeavesNoWaste` | `Spec => []` of `SnapshotsComplete`, `IndexesHold`, `MountedReads`, `NotTakenForDamaged`, `SuccessIsWhole`, `PrunedClean` | `ResticRepositoryProofs` |
| `StopFollowsStart`, `ForegroundKept`, `JobsHaveOneTask` | `Spec => []` of `StopsOnlyAfterStart`, `ForegroundWhileNeeded`, `OneTaskPerJob` | `BackupWorkProofs` |

**Block cache.** `MarksOwned` follows from the type invariant: an in-flight mark is set and taken by the thread in
`fetch`, and two fetches of one line keep the shared mark alive only while one of them lasts. `Agreement` is not
inductive: the induction needs to know what the fetches and the write in progress will do to the cache.
`AgreementInv` adds `PositionsOK` (where each call is), `Landed` (the write has put its data into the blocks it
has passed), `CleanFetch` (a fetch nothing has flagged is registered, no write is changing its line, and it has
read what the device holds) and `SoleFetcher`. The interesting steps are `WriteBlock`, where a block changes and
every fetch that overlaps it must be flagged already, and `FetchPublish`, where `CleanFetch` becomes the
agreement of a new line.

**The cache implements the contract.** `CacheIsTransparent` is the refinement of `BlockDeviceContract`, step by step,
under the two conditions `QuietNext` states (no line fetched twice at once, no array zeroed under a reader; the code
guarantees neither: the run `cache_stale`, and the first of the divergences below). `ReadInv` adds to `AgreementInv`: `Ordered` (`older` is a strict total order of
the cached lines, so that `Eldest` is defined and is not the line just published: a first element exists by a
smallest counterexample over cardinalities), `RequestsOK` (a call is inside its request, an idle thread has none),
and for every reader `History`: nothing is delivered beyond `pos`, the device's content is among the right
answers, and so is what the reader has fetched or copies from. Readers' first steps map to `BeginRead`,
`BypassBlock` and `CopyBlock` to `Deliver`, returns and failures to `EndRead`; `WriteStart`, `WriteBlock` and the two
ends of a write to `BeginWrite`, `Land` and `EndWrite`; every other step is a stutter.

**USB block device.** The types hold for any number of threads; that the window never exceeds `ReplayBlocks` needs
the sums of sizes along a sequence, proved by smallest counterexample on the running totals (`AddsUp`), since the
library's induction rules cannot be instantiated. The two theorems about losses rest on `Known`: what the window holds of a
block is what the app was told, if it has a claim (`WindowTold`), and a claimed block that differs from what the app was told
belongs to the rest of some thread's write, or some thread owes a replay (`Owing`) and the window covers the block (`Safe`, `Held`).
With several threads the replay that makes up for a reset need not be due in the thread whose command met it, and any
thread's replay settles the losses of all.

**SCSI transport.** What is queued in the drive decides what the next command reads. `Tagged`: a status in the pipe is
of an earlier tag, or of this one and last. `Drained`: where an attempt starts or a command has ended nothing is
queued, unless the drive refused the last reset. `ReadInOrder`: when the pipe ends with this command's good
status and holds just what is missing, buffer and pipe together are this command's data; `WrittenInOrder` is the
same for writes.

**ext4 journal.** `ReplayKeepsCommitted` is about what a scan of the whole log computes, so most of the proof is about runs of
the scan (`After`), for any log: a run exists and keeps its type, it depends only on the blocks it has read, and after it has
stopped it stays. (Each of these is an induction over the turns, done as a smallest counterexample: `LeastNatural`.) On that rest the
facts about one transaction. `ScanTx`: a run that comes to a whole transaction takes its tags and revoke records and comes to its end.
`HalfHeader`, `HalfCommit`, `BadTx`, together `TearKeeps`: a run that comes to one whose blocks are partly missing or torn ends before it
or is refused. `BadRun`: a block gone bad later is not used or makes the replay refuse.

`Journalled` is the inductive invariant. `Gate`: without the needs-recovery flag the log is empty, the flag is cleared only over an
empty log, and Linux has it set while it logs. `Numbered`: no header anywhere in the log has the number the next transaction gets, so
the scan never goes on into blocks of an earlier use of the log; `EmptyLog`'s `sequence + 1` keeps it, since a torn transaction
has left headers with the number the scan ended at. `Recoverable`: while Linux has the drive, a scan from the start of the log comes to
its head with tags and revoke records that, over the home blocks, hold what was committed (`InLog`, `Holds`); afterwards the scan as it
is refuses or does so (`Outcome`). `Replaying`: what is left to copy is a final part of the kept tags, and a block none of it
names is home. Numbers and places wrap, and are compared by how far they are from the first (`Age`, `Off`). `LaterIs` shows the signed
difference of `isRevoked` to be that order while both numbers are within half the range of the first, which is why
`JournalAssumption` has `SeqSpan > 2 * (2 * MaxTx + 2)`. In the code the range is 2^32, and only the numbers in one log are compared.

**exFAT volume.** None of the properties is inductive, and the code has no variable for what makes them true: which cluster
belongs where. `Inv` supplies it as two bound functions: there are `ch` and `own` such that place `i` of file `f`, for `i` in
`own[f]`, is cluster `ch[f][i]`; the clusters in use are those, each once (`Owned`); a file no call works on
has the places `0 .. size - 1`, its start and its links lead through them, its remembered cluster is the one at its
remembered place, and its entry agrees unless it is dirty (`Quiet`); and the file in work is as the current stage
of the call expects it (`Busy`, with one predicate `At...` per stage). The
stages still to come are part of those predicates, because a stage is right only if what follows it is: `Looping` and
`Spreading` describe a grow between two of its FAT writes, with all links but the last one written or with a
contiguous file half turned into a linked one; `Shrinking`, `Rewinding` and `Freeing` a shrink whose clusters are gone
up to some place; `Erasing` an erased range up to some place; `Flushing` says that whatever is dirty is still to be visited
unless a write failed. Each step then has to name the new `ch` and `own`: an allocation adds the place behind the
last, a free removes one, all others keep them. Walks (`exfat_advance_cluster`), runs of links and lists of
stages are recursions and sequences; what they return is proved by smallest counterexample.

The contents need more: `ContentInv` adds `Content`, for the same `ch` and `own`. The valid places of a file hold what the history
says they may read as (`Stored`). The places behind them have lost every promise, or the write in progress is about to
write them (`Unwritten`); the history gets its promise only when the data is on the drive, but the size is set before, so the
invariant has to know which places a write still owes (`Coming`). What a clean node or a flushed file has valid and its
entry has not is promised only if the write in progress has just written it (`Recorded`, `Done`): the loop of
`exfat_generic_pwrite` makes the node dirty at its end, not at its beginning. A flushed file is in no call's hands, its entry is
what its node says, and its clusters are marked in the bitmap on the drive (`Saved`); the clean-up of a flush is
what establishes it, which is why `Flushing` says that a node about to be marked clean has its entry written. `VolumeContents`
reads the places through `exfat_advance_cluster` from wherever the node remembers to be, `VolumeFlushed` from the entry alone.

All this holds until a write of the FAT or an erasure fails (`Whole`, that is `torn = {}`); after that `Inv` can be broken for
good, and so can the properties be of the code. The induction is on `Whole => Inv`: a step after which the volume is whole is not
such a failure, and starts from a whole volume (`WholeBefore`). That condition is part of three of the properties and is written out in
the theorems about the others. What `EntriesReadable` and `NeverAborts` say of the other files after such a failure, and `TypeOK`
after it, is only model-checked. Failures of data, entry and bitmap writes are all covered. The two theorems about contents assume that
`setLength` only empties files, which is all the app asks for (`VeraCryptDocumentProvider.kt:411`) and what the run has, and
are false of a `setLength` that grows one (`io.c:266` there).

**exFAT handles.** `Inv` is the types and, while the volume is usable, `Books`: the directory names linked nodes once each;
a request under the drive's lock still finds what it looked up; every count is what is owed; nothing is owed to
freed memory. A count of occurrences in the queue (`Queued`) is related to `Append` and `Tail` by bijections.
A rename onto a taken name whose file is still referred to ends the process (`crash = "overwrite"`); the books are kept up to there,
and `NoNativeCrashes` is that nothing else does.

**restic repository.** One invariant carries all six properties. `Dated`: this run's snapshot and prune index have names
nothing older has. `WriterHolds`: while a backup works, what it skips is readable, and what it stores is in a pack
still to be written, or in one that the index to come will name. `Scanned`: nodes and what is left to visit
make up the source, and the run's own snapshot is never among those to forget. `PruneHolds`: what prune keeps is in use
and covers all that is used, what it drops is not, and its new index is there before an old one goes. `RunState`:
nothing is recorded of a run before it ends.

**Executor and service.** `Phase` is the list of states Android's record, the pending calls and the main thread can be in
together (`Off`, `Asked`, `Starting`, `Up`, `Stopping`, `Ended`); a stop before the start is not among them unless
Android refused. It holds whatever threads call `refresh`. `DrivesShown` and `RunShown` say who will still show what is not shown; `OnePlace` that a job's
task is in one place.

Only model-checked: the liveness properties (fairness and `ENABLED` are out of the prover's reach), and `TypeOK`, `EntriesReadable` and
`NeverAborts` of the exFAT volume after a failed write of the FAT or erasure. Every other invariant a passing
run checks is stated by a theorem, under the conditions the table gives.

## Findings

Three runs show the code at odds with what it says of itself; `PROJECT.json` quotes the lines. `cache_stale`: of two concurrent
fetches of one cache line the first to end takes the mark of both. `usb_returns`: two threads whose chunks differ in size erase each
other's record of the last retry, so on a drive that answers and fails their transfers no failure counts as repeated, no size is
halved and both calls retry for ever. (With one thread the same instance ends every call.) `backup_quiet`: a scheduled run that finds its drive
unplugged has posted its progress and never withdraws it, so the foreground service stays.

### Divergences without a run

Met while modelling, all in the models or easy to put there, and not kept as runs of their own:

* `block/CachedBlockDevice.kt:114`: a line dropped during a reader's copy is zeroed under it, and the reader delivers zeros; the
  comment at :229 calls dropping "always safe". `QuietSpec` leaves this out.
* `usb/LibaumsRawBlockDevice.kt:256`: a call that gives up at the smallest size, the drive still answering, does not replay the
  window, so acknowledged blocks its resets cost stay lost, against :282-283. `AckedWritesSurvive` allows for it (`Throw`).
* `usb/LibaumsRawBlockDevice.kt:414`: between a failed transfer and its replay the lock is free, and another thread's write can push
  the lost block out of the window, so that the replay does not restore it. `AckedWritesSurvive` and `LossIsReplayable` allow for it
  (`PushedOut`); without that both are violated in the run `usb`.
* `ScsiRequestSenseResponse.kt:163`: sense keys that mean success fall through to the exception at the end of
  `checkResponseForError`, against its doc at :131-135; the model does as the code does.
* `ext4/Ext4Journal.kt:180`: a descriptor or revoke block torn in the uncommitted last transaction makes the replay refuse the
  volume, against the class comment at :22 and :27-30; the volume stays read-only, which is safe.
* `cpp/exfat/ExFatNative.cpp:293`: `flush` drops the results of `exfat_flush_nodes`, which stops at the first entry it cannot
  write, and of `exfat_flush`; `UsbFile.flush` (`UsbFile.kt:181-189`) promises an IOException.
* `cpp/exfat/cluster.c:352`: `shrink_file` frees the start of a file it empties before it writes the FAT. When that write fails the node keeps its
  size and has no start. The next truncate of it, or the final put of a deleted file, which "retries the truncate"
  (`ExFatNative.cpp:265`), ends in `exfat_bug`. A write behind its size gives it one new cluster as a contiguous file and takes the
  cluster behind that one for its second place, whosever it is: without its condition on `torn`
  `FlushedSurvives` is violated, another file's flushed data being erased. A failed FAT write while the first clusters of an empty file are linked leaves an
  entry of size 0 with a start cluster, which `check_node` refuses at the next mount.
* `cpp/exfat/io.c:266`: a write erases the gap before it only when it starts beyond the size. When `setLength` has made a file longer, what lies
  between its valid part and a write inside the new size is whatever the clusters held before, and counts as valid. The
  app sets no length but 0 (`VeraCryptDocumentProvider.kt:411`), as the run does; with 2 in `Lengths` `ContentKept` is violated.
* `cpp/exfat/node.c:1149`: renaming onto a name that is taken cleans up a node that Kotlin still refers to, and `exfat_bug` aborts;
  `UsbFile.kt:52-54` promises an IOException. `NoNativeCrash` names it as the one exception.
* `backup/BackupRunner.kt:165`: a lock left by a killed run makes every later prune throw, so runs that made their snapshot are
  recorded as failed until the lock is removed by hand. Packs a killed run left without an index are never freed
  by this app's prune.
* `MountedDriveService.kt:98`: a backup mounted from the phone with no USB device plugged in gets no foreground service from Android 14 on,
  only a plain notification, so its process may be frozen. `ForegroundWhileNeeded` allows for it (`plainPosted`).
* `MountedDriveService.kt:54`: after a refused `startForeground` the service stops itself, which Android answers as it answers any
  service stopped before `startForeground`; the class comment says "never a crash". `StopsOnlyAfterStart` allows for it.

### Hazards without a property

* `MountedDriveService.kt:147`: `operation` is one field for formats, encrypts and backups; the end of one clears the other's.
  Only backups are modelled.
* `backup/BackupWork.kt:176`: the set shown by screens is copied from `queued` without a lock, and the cancel flag is removed
  after the job has left `queued`. `BackupDelays.fire` (:230) reads, checks and clears from two threads; `start` lets one through.
* `OtgMasterState.kt:327`: of two threads that mount or unmount, the one that read the list first may set it last; the service then shows
  the older list until the next change.
* `backup/BackupRunner.kt:203`: a drive that goes and comes back before its reachability is asked makes a missing file look like
  damage. `backup/restic/ResticWriter.kt:105`: the header of a pack whose write failed stays in the buffer of the next
  attempt; the index's offsets are right, but a tool that rebuilds an index from headers would be misled.
* `backup/restic/ResticWriter.kt:74`: the writer does not look at others' exclusive locks.
* `cpp/exfat/node.c`: rename erases the old entry before it writes the new one; mkdir's error path loses clusters; a failed FAT read
  leaves the remembered place in the chain wrong. Reads do not fail in the model.
* `provider/VeraCryptDocumentProvider.kt:268`: a writer may open a file between the check for writers and the delete. The model has
  it; no native memory is misused, the writer's data is lost with the file.
* `block/CachedBlockDevice.kt:319`: a fetch in progress can put a line back between close's two steps.
* `ext4/Ext4Journal.kt:269`: no flush command is ever sent, so a drive that reorders its writes defeats the order of the replay.
* `libaums/.../fs/fat32/FAT.kt:153`, `:236`: a looping chain is followed for ever; allocation writes the chain and its copies buffer
  by buffer. FAT32 is not modelled.

## Plan

1. Done: block cache, contract and refinement, USB block device, SCSI transport, journal replay, the exFAT volume and its
   handles, the restic repository, the backup executor with the foreground service; the theorems under Proofs.
2. Models, if there is more to come: FAT32's `alloc`, `free` and mirroring; the order of ext4's inode, bitmap and extent
   writes; scheduler and delays over the persisted jobs; the journal over the USB device.

## Not modelled

Third-party C code, encryption and header formats, partition parsing, formatters, recovery scans, the NTFS and APFS wrappers,
MTP, credentials, feedback and UI: they are conversions, sequential writers or platform calls without state of
their own. The components table of `PROJECT.json` gives the reason for each.

Most lines of the repository are vendored C: mbedtls, libtomcrypt, argon2, zstd, ntfs-3g and libfsapfs are over half a million
lines, compiled as they come. The app's own logic is Kotlin, and of the native code only libexfat, 4 300 lines that the
app patches and calls file by file, decides what happens to a user's data in ways of its own; it is what the
models of native code are about. A share of lines counted over all C files therefore says little about how much of
the app is modelled.
