-------------------------- MODULE ResticRepository --------------------------
(***************************************************************************)
(* Backups in a restic repository: ResticWriter.backup, the keep rules and   *)
(* prune of ResticMaintenance, and BackupRunner.backup and check around      *)
(* them, while a mounted reader (ResticFileSystem) browses the repository.   *)
(*                                                                          *)
(* Every file of the repository appears whole or not at all, because it is  *)
(* written under another name and renamed (FileTreeBackend.write); but any   *)
(* call may fail, before or after it took effect, and the process may be     *)
(* killed between any two of them.                                          *)
(*                                                                          *)
(* Contents are named by what they are, as restic names them by their hash: *)
(* a file is one chunk, and the trees of a snapshot are one blob that is    *)
(* the set of its files.  Encryption is randomised, so packs and indexes    *)
(* are new files whatever is in them: they carry the number of their run.   *)
(* BackupExecutor has one thread: one run at a time.                        *)
(***************************************************************************)
EXTENDS Naturals, FiniteSets

CONSTANTS
    Data,        \* contents of files
    Jobs,        \* jobs that share the repository
    PackSize,    \* a pack is written when it holds that many blobs (PACK_SIZE)
    KeepLast,    \* KeepPolicy.last
    KeepDaily,   \* KeepPolicy.daily; weekly and monthly have the same form
    RunsPerDay,  \* that many runs begin on one day
    MaxRuns,     \* bound on the runs
    MaxFaults    \* bound on the calls that fail

ASSUME ResticAssumption ==
    /\ PackSize \in Nat \ {0}
    /\ KeepLast \in Nat /\ KeepDaily \in Nat /\ RunsPerDay \in Nat \ {0}
    /\ MaxRuns \in Nat /\ MaxFaults \in Nat

VARIABLES
    \* the repository on the drive
    packs,       \* data/: what each pack holds
    indexes,     \* index/: the packs each index names, with their blobs
    snapshots,   \* snapshots/
    locks,       \* locks/
    \* the run
    clock,       \* runs begun: the time
    pc,          \* where it is
    job, source, \* its job, and the files its scan found
    parent,      \* files of the snapshot before
    loaded,      \* blobs of repo.index, in memory
    todo,        \* files not yet saved
    nodes,       \* files saved
    pending,     \* blobs the writer took on
    entries,     \* blobs of the pack being filled
    indexPacks,  \* packs written
    errors,      \* some file could not be read
    outcome,     \* how it will end
    forgetting,  \* snapshots still to forget
    oldIndex, keep, drop,  \* index files and packs that prune deals with
    pruned,      \* prune has ended well
    result,      \* RunRecord.status
    corrupted,   \* BackupJob.corruptedAt is set
    faults,      \* calls that have failed
    \* a mounted reader of the same repository
    reader, listed, readIndex

drive  == <<packs, indexes, snapshots, locks>>
about  == <<clock, job, source, parent, loaded>>
writer == <<todo, nodes, pending, entries, indexPacks, errors>>
prune  == <<forgetting, oldIndex, keep, drop, pruned>>
mount  == <<reader, listed, readIndex>>
vars   == <<drive, about, pc, writer, outcome, prune, result, corrupted, faults, mount>>

Init ==
    /\ packs = {} /\ indexes = {} /\ snapshots = {} /\ locks = {}
    /\ clock = 0 /\ pc = "idle" /\ job \in Jobs
    /\ source = {} /\ parent = {} /\ loaded = {}
    /\ todo = {} /\ nodes = {} /\ pending = {} /\ entries = {} /\ indexPacks = {}
    /\ errors = FALSE /\ outcome = "none"
    /\ forgetting = {} /\ oldIndex = {} /\ keep = {} /\ drop = {} /\ pruned = FALSE
    /\ result = "none" /\ corrupted = FALSE /\ faults = 0
    /\ reader = "no" /\ listed = {} /\ readIndex = {}

-----------------------------------------------------------------------------
(* The repository.                                                          *)

\* The tree blob of a set of files, and the blobs a snapshot needs.
Tree(files) == [nodes |-> files]
Needs(s) == {Tree(s.nodes)} \cup s.nodes

BlobsOf(ps) == UNION {p.blobs : p \in ps}
Indexed == UNION {i.packs : i \in indexes}
Used == UNION {Needs(s) : s \in snapshots}
\* What can be found and read: blobs of packs that are there and that an index names.
Readable == BlobsOf(Indexed \cap packs)
Lock(kind) == [run |-> clock, kind |-> kind]

\* A call of the backend succeeds, fails, or throws after it took effect.
Outcomes == {"ok", "fails", "late"}
Call(o) ==
    /\ o # "ok" => faults < MaxFaults
    /\ faults' = IF o = "ok" THEN faults ELSE faults + 1
Put(files, f, o) == IF o = "fails" THEN files ELSE files \cup {f}
Remove(files, f, o) == IF o = "fails" THEN files ELSE files \ {f}

-----------------------------------------------------------------------------
(* The end of a run: store.addRun and store.update.                         *)

Reset ==
    /\ todo' = {} /\ nodes' = {} /\ pending' = {} /\ entries' = {} /\ indexPacks' = {}
    /\ errors' = FALSE /\ outcome' = "none"
    /\ forgetting' = {} /\ oldIndex' = {} /\ keep' = {} /\ drop' = {}
    /\ parent' = {} /\ loaded' = {}
    /\ pc' = "idle"

Record(status, didPrune) ==
    /\ result' = status
    /\ pruned' = didPrune
    /\ corrupted' = (corrupted \/ status = "CORRUPTED")
    /\ Reset
    /\ UNCHANGED <<clock, job, source>>

Status == IF errors THEN "WARNING" ELSE "SUCCESS"

\* Android ends the process: nothing is recorded, and locks stay.
Kill ==
    /\ pc # "idle"
    /\ Reset
    /\ UNCHANGED <<drive, clock, job, source, pruned, result, corrupted, faults, mount>>

-----------------------------------------------------------------------------
(* ResticWriter.backup                                                      *)

\* Up to the space check: an empty listing is refused.  The index is loaded by the first
\* lookup, and nobody else writes an index before this run does.
StartBackup(j, files) ==
    /\ pc = "idle" /\ clock < MaxRuns
    /\ files # {}
    /\ clock' = clock + 1
    /\ pc' = "lock"
    /\ job' = j /\ source' = files /\ todo' = files
    /\ parent' = UNION {s.nodes : s \in {t \in snapshots :
                    t.job = j /\ \A u \in snapshots : u.job = j => u.run <= t.run}}
    /\ loaded' = BlobsOf(Indexed)
    /\ result' = "none" /\ pruned' = FALSE
    /\ UNCHANGED <<drive, nodes, pending, entries, indexPacks, errors, outcome,
                   forgetting, oldIndex, keep, drop, corrupted, faults, mount>>

\* lock() is outside the try: when it throws nobody deletes what it wrote.
WriteLock(o) ==
    /\ pc = "lock" /\ Call(o)
    /\ locks' = Put(locks, Lock("backup"), o)
    /\ IF o = "ok"
       THEN pc' = "files" /\ UNCHANGED <<about, writer, outcome, prune, result, corrupted>>
       ELSE Record("FAILED", FALSE)
    /\ UNCHANGED <<packs, indexes, snapshots, mount>>

\* fileNode: same size and time as in the parent, and its blobs known.
Unchanged(d) == d \in parent /\ d \in loaded

FileUnchanged(d) ==
    /\ pc = "files" /\ d \in todo /\ Unchanged(d)
    /\ todo' = todo \ {d} /\ nodes' = nodes \cup {d}
    /\ UNCHANGED <<drive, about, pc, pending, entries, indexPacks, errors, outcome, prune,
                   result, corrupted, faults, mount>>

\* The file does not open, or a read of it fails: it is left out.
FileUnreadable(d) ==
    /\ pc = "files" /\ d \in todo /\ ~Unchanged(d)
    /\ todo' = todo \ {d} /\ errors' = TRUE
    /\ UNCHANGED <<drive, about, pc, nodes, pending, entries, indexPacks, outcome, prune,
                   result, corrupted, faults, mount>>

\* saveBlob of a chunk the repository or this run has.
FileKnown(d) ==
    /\ pc = "files" /\ d \in todo /\ ~Unchanged(d)
    /\ d \in pending \cup loaded
    /\ todo' = todo \ {d} /\ nodes' = nodes \cup {d}
    /\ UNCHANGED <<drive, about, pc, pending, entries, indexPacks, errors, outcome, prune,
                   result, corrupted, faults, mount>>

NewPack(blobs) ==
    [run |-> clock, n |-> Cardinality({p \in packs : p.run = clock}), blobs |-> blobs]

\* Mutant: the writer starts the next pack before this one is on the drive.
FlushClearsFirst(blobs, o) ==
    /\ Call(o)
    /\ packs' = Put(packs, NewPack(blobs), o)
    /\ entries' = {}
    /\ indexPacks' = IF o = "ok" THEN indexPacks \cup {NewPack(blobs)} ELSE indexPacks

\* flushPack: only a pack that is on the drive is cleared and indexed.
Flush(blobs, o) ==
    /\ Call(o)
    /\ packs' = Put(packs, NewPack(blobs), o)
    /\ entries' = IF o = "ok" THEN {} ELSE blobs
    /\ indexPacks' = IF o = "ok" THEN indexPacks \cup {NewPack(blobs)} ELSE indexPacks

\* saveBlob of a new chunk; a full pack is written, and when that throws it is the file
\* that is reported and left out.
FileSaved(d, o) ==
    /\ pc = "files" /\ d \in todo /\ ~Unchanged(d)
    /\ d \notin pending \cup loaded
    /\ todo' = todo \ {d}
    /\ pending' = pending \cup {d}
    /\ IF Cardinality(entries \cup {d}) >= PackSize
       THEN Flush(entries \cup {d}, o)
       ELSE o = "ok" /\ entries' = entries \cup {d} /\ UNCHANGED <<packs, indexPacks, faults>>
    /\ nodes' = IF o = "ok" THEN nodes \cup {d} ELSE nodes
    /\ errors' = (errors \/ o # "ok")
    /\ UNCHANGED <<indexes, snapshots, locks, about, pc, outcome, prune, result, corrupted, mount>>

\* isCancelled is asked before each file.
Cancel ==
    /\ pc = "files" /\ todo # {}
    /\ outcome' = "CANCELLED" /\ pc' = "unlock"
    /\ UNCHANGED <<drive, about, writer, prune, result, corrupted, faults, mount>>

\* Mutant: the tree is listed among its own files.
SaveTreeLists ==
    LET t == Tree(nodes) IN
    /\ pc = "files" /\ todo = {}
    /\ entries' = entries \cup {t} /\ pending' = pending \cup {t}
    /\ nodes' = nodes \cup {t}
    /\ pc' = "flush"
    /\ UNCHANGED <<drive, about, todo, indexPacks, errors, outcome, prune, result, corrupted,
                   faults, mount>>

\* saveTree, and saveBlob of the trees.
SaveTree ==
    LET t == Tree(nodes) IN
    /\ pc = "files" /\ todo = {}
    /\ IF t \in pending \cup loaded THEN UNCHANGED <<entries, pending>>
       ELSE entries' = entries \cup {t} /\ pending' = pending \cup {t}
    /\ pc' = "flush"
    /\ UNCHANGED <<drive, about, todo, nodes, indexPacks, errors, outcome, prune, result,
                   corrupted, faults, mount>>

\* An exception inside the try: unlock, and the run has failed.
Then(o, next) ==
    /\ pc' = IF o = "ok" THEN next ELSE "unlock"
    /\ outcome' = IF o = "ok" THEN outcome ELSE "FAILED"

FlushPack(o) ==
    /\ pc = "flush"
    /\ IF entries = {} THEN o = "ok" /\ UNCHANGED <<packs, entries, indexPacks, faults>>
       ELSE Flush(entries, o)
    /\ Then(o, "index")
    /\ UNCHANGED <<indexes, snapshots, locks, about, todo, nodes, pending, errors, prune, result,
                   corrupted, mount>>

WriteIndex(o) ==
    /\ pc = "index"
    /\ IF indexPacks = {} THEN o = "ok" /\ UNCHANGED <<indexes, faults>>
       ELSE /\ Call(o)
            /\ indexes' = Put(indexes, [run |-> clock, kind |-> "backup", packs |-> indexPacks], o)
    /\ Then(o, "snapshot")
    /\ UNCHANGED <<packs, snapshots, locks, about, writer, prune, result, corrupted, mount>>

WriteSnapshot(o) ==
    /\ pc = "snapshot" /\ Call(o)
    /\ snapshots' = Put(snapshots, [run |-> clock, job |-> job, nodes |-> nodes], o)
    /\ Then(o, "unlock")
    /\ UNCHANGED <<packs, indexes, locks, about, writer, prune, result, corrupted, mount>>

Unlock(o) ==
    /\ pc = "unlock" /\ Call(o)
    /\ locks' = Remove(locks, Lock("backup"), o)
    /\ IF o = "ok" /\ outcome = "none"
       THEN pc' = "retain" /\ UNCHANGED <<about, writer, outcome, prune, result, corrupted>>
       ELSE Record(IF o = "ok" THEN outcome ELSE "FAILED", FALSE)
    /\ UNCHANGED <<packs, indexes, snapshots, mount>>

-----------------------------------------------------------------------------
(* The keep rules: ResticMaintenance.toForget, forget.                      *)

Day(s) == s.run \div RunsPerDay
Newer(s, ss) == {t \in ss : t.run > s.run}

\* Mutant: the snapshots are taken oldest first.
KeptOldest(ss) == {s \in ss : Cardinality({t \in ss : t.run < s.run}) < KeepLast}

\* The newest KeepLast of them, and the newest of each of the last KeepDaily days.
Kept(ss) ==
    {s \in ss : \/ Cardinality(Newer(s, ss)) < KeepLast
                \/ /\ \A t \in Newer(s, ss) : Day(t) # Day(s)
                   /\ Cardinality({Day(t) : t \in Newer(s, ss)}) < KeepDaily}

ToForget(ss) == IF KeepLast = 0 /\ KeepDaily = 0 THEN {} ELSE ss \ Kept(ss)

\* snapshotsOf: this job's.  A run that has nothing to forget does not prune.  A snapshot's
\* time is its run's number: the phone's clock does not go back between two runs.  Reading
\* the snapshots does not fail here.
Retain ==
    LET old == ToForget({s \in snapshots : s.job = job}) IN
    /\ pc = "retain"
    /\ IF old = {} THEN Record(Status, FALSE)
       ELSE /\ forgetting' = old /\ pc' = "forget"
            /\ UNCHANGED <<about, writer, outcome, oldIndex, keep, drop, pruned, result, corrupted>>
    /\ UNCHANGED <<drive, faults, mount>>

Forget(s, o) ==
    /\ pc = "forget" /\ s \in forgetting /\ Call(o)
    /\ snapshots' = Remove(snapshots, s, o)
    /\ IF o = "ok"
       THEN /\ forgetting' = forgetting \ {s}
            /\ UNCHANGED <<about, pc, writer, outcome, oldIndex, keep, drop, pruned, result, corrupted>>
       ELSE Record("FAILED", FALSE)
    /\ UNCHANGED <<packs, indexes, locks, mount>>

-----------------------------------------------------------------------------
(* ResticMaintenance.prune                                                  *)

\* Any lock there is, a stale one too, ends the run.
PruneRefused ==
    /\ pc = "forget" /\ forgetting = {}
    /\ locks # {}
    /\ Record("FAILED", FALSE)
    /\ UNCHANGED <<drive, faults, mount>>

\* The lock, again outside the try.  The second look at the locks finds this one only.
PruneLock(o) ==
    /\ pc = "forget" /\ forgetting = {}
    /\ locks = {} /\ Call(o)
    /\ locks' = Put(locks, Lock("prune"), o)
    /\ IF o = "ok"
       THEN pc' = "mark" /\ UNCHANGED <<about, writer, outcome, prune, result, corrupted>>
       ELSE Record("FAILED", FALSE)
    /\ UNCHANGED <<packs, indexes, snapshots, mount>>

\* Mutant: prune trusts the index in memory, from before this run wrote its own.
KnownInMemory == loaded

\* forgetLoadedIndex: the blobs prune can find, from the index on the drive.
Known == Readable

\* Mutant: a pack is in use when it holds anything.
InUseAny(p) == p.blobs # {}

InUse(p) == p.blobs \cap Used # {}

\* Every snapshot's tree is read, which is damage when it cannot be found; then packs are
\* sorted into those something uses and the others.  A read that fails ends the run as
\* FAILED; a pack file that the provider says is not there, though it is, would be taken for
\* damage by blob() and is left out.
Mark(o) ==
    LET damaged == \E s \in snapshots : Tree(s.nodes) \notin Known IN
    /\ pc = "mark" /\ o # "late" /\ Call(o)
    /\ pc' = IF o = "ok" /\ ~damaged THEN "newindex" ELSE "pruneunlock"
    /\ outcome' = IF o # "ok" THEN "FAILED" ELSE IF damaged THEN "CORRUPTED" ELSE outcome
    /\ IF pc' = "newindex"
       THEN /\ oldIndex' = indexes
            /\ keep' = {p \in Indexed : InUse(p)}
            /\ drop' = {p \in Indexed : ~InUse(p)}
       ELSE UNCHANGED <<oldIndex, keep, drop>>
    /\ UNCHANGED <<drive, about, writer, forgetting, pruned, result, corrupted, mount>>

PruneThen(o, next) ==
    /\ pc' = IF o = "ok" THEN next ELSE "pruneunlock"
    /\ outcome' = IF o = "ok" THEN outcome ELSE "FAILED"

NewIndex(o) ==
    /\ pc = "newindex" /\ Call(o)
    /\ indexes' = Put(indexes, [run |-> clock, kind |-> "prune", packs |-> keep], o)
    /\ PruneThen(o, "delete")
    /\ UNCHANGED <<packs, snapshots, locks, about, writer, prune, result, corrupted, mount>>

DropIndex(i, o) ==
    /\ pc = "delete" /\ i \in oldIndex /\ Call(o)
    /\ indexes' = Remove(indexes, i, o)
    /\ oldIndex' = oldIndex \ {i}
    /\ PruneThen(o, "delete")
    /\ UNCHANGED <<packs, snapshots, locks, about, writer, forgetting, keep, drop, pruned,
                   result, corrupted, mount>>

\* Mutant: packs are deleted while old indexes still name them.
DropPackEarly(p, o) ==
    /\ pc = "delete" /\ p \in drop /\ Call(o)
    /\ packs' = Remove(packs, p, o)
    /\ drop' = drop \ {p}
    /\ PruneThen(o, "delete")
    /\ UNCHANGED <<indexes, snapshots, locks, about, writer, forgetting, oldIndex, keep, pruned,
                   result, corrupted, mount>>

DropPack(p, o) ==
    /\ pc = "delete" /\ oldIndex = {} /\ p \in drop /\ Call(o)
    /\ packs' = Remove(packs, p, o)
    /\ drop' = drop \ {p}
    /\ PruneThen(o, "delete")
    /\ UNCHANGED <<indexes, snapshots, locks, about, writer, forgetting, oldIndex, keep, pruned,
                   result, corrupted, mount>>

PruneUnlock(o) ==
    /\ \/ pc = "pruneunlock"
       \/ pc = "delete" /\ oldIndex = {} /\ drop = {}
    /\ Call(o)
    /\ locks' = Remove(locks, Lock("prune"), o)
    /\ IF o # "ok" THEN Record("FAILED", FALSE)
       ELSE IF outcome # "none" THEN Record(outcome, FALSE)
       ELSE Record(Status, TRUE)
    /\ UNCHANGED <<packs, indexes, snapshots, mount>>

-----------------------------------------------------------------------------
(* BackupRunner.check, and the mounted reader.                              *)

\* Every tree must load and every blob must be in the index; reading the data, in a pack.
\* The reads themselves do not fail here.
Check(readData) ==
    LET there == IF readData THEN Readable ELSE BlobsOf(Indexed) IN
    /\ pc = "idle"
    /\ corrupted' = ~(\A s \in snapshots : Tree(s.nodes) \in Readable /\ s.nodes \subseteq there)
    /\ UNCHANGED <<drive, about, pc, writer, outcome, prune, result, faults, mount>>

\* Mutant: a reader opened with its index before it lists the snapshots.
ReaderListLoaded ==
    /\ reader \in {"no", "listed"}
    /\ IF reader = "no" THEN reader' = "listed" /\ readIndex' = Indexed /\ UNCHANGED listed
       ELSE reader' = "loaded" /\ listed' = snapshots /\ UNCHANGED readIndex
    /\ UNCHANGED <<drive, about, pc, writer, outcome, prune, result, corrupted, faults>>

\* The list of the top folder, once.
ReaderList ==
    /\ reader = "no"
    /\ reader' = "listed" /\ listed' = snapshots
    /\ UNCHANGED <<drive, about, pc, writer, outcome, prune, result, corrupted, faults, readIndex>>

\* loadIndex, at the first blob, against the index folder as it is then.  A load in which an
\* index file vanishes throws; since SafFileTree keeps the listing it made, so does every
\* later one until the repository is mounted again (ReaderUnmount): such a reader reads
\* nothing and stays listed.
ReaderLoad ==
    /\ reader = "listed"
    /\ reader' = "loaded" /\ readIndex' = Indexed
    /\ UNCHANGED <<drive, about, pc, writer, outcome, prune, result, corrupted, faults, listed>>

ReaderUnmount ==
    /\ reader # "no"
    /\ reader' = "no" /\ listed' = {} /\ readIndex' = {}
    /\ UNCHANGED <<drive, about, pc, writer, outcome, prune, result, corrupted, faults>>

Next ==
    \/ \E j \in Jobs, files \in SUBSET Data : StartBackup(j, files)
    \/ \E d \in Data : FileUnchanged(d) \/ FileUnreadable(d) \/ FileKnown(d)
    \/ Cancel \/ SaveTree \/ Retain \/ PruneRefused \/ Kill
    \/ \E o \in Outcomes :
         \/ WriteLock(o)
         \/ \E d \in Data : FileSaved(d, o)
         \/ FlushPack(o) \/ WriteIndex(o) \/ WriteSnapshot(o) \/ Unlock(o)
         \/ \E s \in forgetting : Forget(s, o)
         \/ PruneLock(o) \/ Mark(o) \/ NewIndex(o)
         \/ \E i \in oldIndex : DropIndex(i, o)
         \/ \E p \in drop : DropPack(p, o)
         \/ PruneUnlock(o)
    \/ \E readData \in BOOLEAN : Check(readData)
    \/ ReaderList \/ ReaderLoad \/ ReaderUnmount

Spec == Init /\ [][Next]_vars

-----------------------------------------------------------------------------
(* Properties.                                                              *)

Blobs == Data \cup [nodes : SUBSET Data]
Packs == [run : Nat, n : Nat, blobs : SUBSET Blobs]
Indexes == [run : Nat, kind : {"backup", "prune"}, packs : SUBSET Packs]
Snapshots == [run : Nat, job : Jobs, nodes : SUBSET Data]
Statuses == {"none", "SUCCESS", "WARNING", "FAILED", "CANCELLED", "CORRUPTED"}

DriveType ==
    /\ packs \subseteq Packs /\ indexes \subseteq Indexes /\ snapshots \subseteq Snapshots
    /\ locks \subseteq [run : Nat, kind : {"backup", "prune"}]
RunType ==
    /\ clock \in 0..MaxRuns /\ faults \in 0..MaxFaults
    /\ job \in Jobs
    /\ pc \in {"idle", "lock", "files", "flush", "index", "snapshot", "unlock", "retain", "forget",
               "mark", "newindex", "delete", "pruneunlock"}
    /\ outcome \in Statuses /\ result \in Statuses
WriterType ==
    /\ source \subseteq Data /\ parent \subseteq Data /\ todo \subseteq Data /\ nodes \subseteq Data
    /\ loaded \subseteq Blobs /\ pending \subseteq Blobs /\ entries \subseteq Blobs
    /\ indexPacks \subseteq Packs
PruneType ==
    /\ forgetting \subseteq Snapshots /\ oldIndex \subseteq Indexes
    /\ keep \subseteq Packs /\ drop \subseteq Packs
MountType ==
    /\ reader \in {"no", "listed", "loaded"}
    /\ listed \subseteq Snapshots /\ readIndex \subseteq Packs
FlagType == errors \in BOOLEAN /\ corrupted \in BOOLEAN /\ pruned \in BOOLEAN

(* The shape of the repository, of a run and of a reader.                    *)
TypeOK == DriveType /\ RunType /\ WriterType /\ PruneType /\ MountType /\ FlagType

\* "Never a snapshot pointing at data that is not there" (ResticWriter): at every moment,
\* whatever fails and whenever the process is killed, each blob that a snapshot on the
\* drive needs is in a pack on the drive that an index names.
SnapshotsComplete == \A s \in snapshots : Needs(s) \subseteq Readable

\* prune "is safe at every step" (ResticMaintenance): no index ever names a pack that is
\* gone.  A later backup skips every blob an index names, so one that did would lose data
\* of snapshots not yet made.
IndexesHold == Indexed \subseteq packs

\* No run and no check takes this repository, in which nothing is ever damaged, for a
\* corrupted one, which is set aside ("calling that Corrupted would have the user set aside
\* a good backup", DamagedException).
NotTakenForDamaged == ~corrupted

\* A reader mounted since before backups and prunes finds every blob of every snapshot
\* that is still there, each in a pack that is still there, with the index it loaded once.
\* (One whose load failed claims nothing: it has to be mounted again.)
MountedReads ==
    reader = "loaded" =>
        \A s \in listed \cap snapshots : \A b \in Needs(s) :
            LET in == {p \in readIndex : b \in p.blobs} IN in # {} /\ in \subseteq packs

\* A run recorded as a success has left its own snapshot, with all the files that its scan
\* found, and one recorded with a warning has left its snapshot.
SuccessIsWhole ==
    pc = "idle" /\ result \in {"SUCCESS", "WARNING"} =>
        \E s \in snapshots : /\ s.run = clock /\ s.job = job
                             /\ result = "SUCCESS" => s.nodes = source

\* When a run ends that has forgotten snapshots and pruned, every pack an index names holds
\* something that a snapshot uses.
PrunedClean ==
    pc = "idle" /\ pruned => \A p \in Indexed : p.blobs \cap Used # {}
=============================================================================
