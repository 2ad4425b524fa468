----------------------- MODULE ResticRepositoryProofs -----------------------
(***************************************************************************)
(* Proofs about module ResticRepository, for any files, jobs, pack size,    *)
(* keep rules, number of runs and number of failing calls: what a snapshot  *)
(* needs is always on the drive and indexed, whichever call fails and       *)
(* wherever the process is killed.                                          *)
(*                                                                          *)
(* The safety properties are proved together, by one inductive invariant.   *)
(* What it adds to them says, for each place a run can be at, what the       *)
(* drive already holds: the writer's pack list while it writes, the new      *)
(* index while prune deletes.                                               *)
(***************************************************************************)
EXTENDS ResticRepository, FiniteSetTheorems, TLAPS

USE ResticAssumption

-----------------------------------------------------------------------------
(* Types.  A pack is numbered by counting the packs of its run, so that     *)
(* there are finitely many of them is part of what has to be kept.          *)

TypeInv == TypeOK /\ IsFiniteSet(packs)

\* The empty repository has its type.
LEMMA InitType == Init => TypeInv
<1> SUFFICES ASSUME Init PROVE TypeInv
  OBVIOUS
<1>1. DriveType /\ RunType /\ WriterType /\ PruneType /\ MountType
  BY DEF Init, DriveType, RunType, WriterType, PruneType, MountType, Statuses
<1>2. FlagType
  BY DEF Init, FlagType
<1>3. IsFiniteSet(packs)
  BY FS_EmptySet DEF Init
<1> QED
  BY <1>1, <1>2, <1>3 DEF TypeInv, TypeOK

\* The pack flushPack writes is numbered, because its run has written finitely many.
LEMMA NewPackType ==
    ASSUME TypeInv, NEW blobs \in SUBSET Blobs
    PROVE  NewPack(blobs) \in Packs
<1>1. {p \in packs : p.run = clock} \in SUBSET packs
  OBVIOUS
<1>2. Cardinality({p \in packs : p.run = clock}) \in Nat
  BY <1>1, FS_Subset, FS_CardinalityType DEF TypeInv
<1> QED
  BY <1>2 DEF NewPack, Packs, TypeInv, TypeOK, RunType

\* Writing or deleting one pack leaves finitely many, whatever the outcome of the call.
LEMMA PacksFinite ==
    ASSUME IsFiniteSet(packs), NEW p, NEW o
    PROVE  IsFiniteSet(Put(packs, p, o)) /\ IsFiniteSet(Remove(packs, p, o))
  BY FS_AddElement, FS_RemoveElement DEF Put, Remove

\* flushPack keeps the types of what it writes.
LEMMA FlushType ==
    ASSUME TypeInv, NEW blobs \in SUBSET Blobs, NEW o \in Outcomes, Flush(blobs, o)
    PROVE  /\ packs' \subseteq Packs /\ IsFiniteSet(packs')
           /\ entries' \subseteq Blobs /\ indexPacks' \subseteq Packs
           /\ faults' \in 0..MaxFaults
<1>1. NewPack(blobs) \in Packs
  BY NewPackType
<1>2. IsFiniteSet(packs')
  BY PacksFinite DEF Flush, TypeInv
<1> QED
  BY <1>1, <1>2 DEF Flush, Call, Put, TypeInv, TypeOK, DriveType, RunType, WriterType

\* The end of a run (store.addRun and store.update) keeps the types of what it clears.
LEMMA RecordType ==
    ASSUME TypeInv, NEW status \in Statuses, NEW didPrune \in BOOLEAN, Record(status, didPrune)
    PROVE  /\ WriterType' /\ PruneType' /\ FlagType'
           /\ clock' \in 0..MaxRuns /\ job' \in Jobs /\ pc' = "idle"
           /\ outcome' \in Statuses /\ result' \in Statuses
<1>1. FlagType'
  BY DEF Record, Reset, TypeInv, TypeOK, FlagType
<1>2. WriterType' /\ PruneType'
  BY DEF Record, Reset, TypeInv, TypeOK, WriterType, PruneType
<1>3. clock' \in 0..MaxRuns /\ job' \in Jobs /\ pc' = "idle" /\ result' \in Statuses
  BY DEF Record, Reset, TypeInv, TypeOK, RunType
<1>4. outcome' \in Statuses
  BY DEF Record, Reset, Statuses
<1> QED
  BY <1>1, <1>2, <1>3, <1>4

\* Every step keeps the types.
LEMMA TypeStep == TypeInv /\ [Next]_vars => TypeInv'
<1> SUFFICES ASSUME TypeInv, [Next]_vars PROVE TypeInv'
  OBVIOUS
<1> USE DEF drive, about, writer, prune, mount, TypeInv, TypeOK
<1>1. ASSUME NEW j \in Jobs, NEW files \in SUBSET Data, StartBackup(j, files) PROVE TypeInv'
  <2>1. loaded' \subseteq Blobs
    BY <1>1 DEF StartBackup, DriveType, BlobsOf, Indexed, Indexes, Packs
  <2>2. parent' \subseteq Data
    BY <1>1 DEF StartBackup, DriveType, Snapshots
  <2>3. FlagType'
    BY <1>1 DEF StartBackup, FlagType
  <2> QED
    BY <1>1, <2>1, <2>2, <2>3
    DEF StartBackup, DriveType, RunType, WriterType, PruneType, MountType, Statuses
<1>2. ASSUME NEW d \in Data, FileUnchanged(d) \/ FileKnown(d) PROVE TypeInv'
  BY <1>2 DEF FileUnchanged, FileKnown, DriveType, RunType, WriterType, PruneType, MountType, FlagType
<1>3. ASSUME NEW d \in Data, FileUnreadable(d) PROVE TypeInv'
  <2>1. FlagType'
    BY <1>3 DEF FileUnreadable, FlagType
  <2> QED
    BY <1>3, <2>1 DEF FileUnreadable, DriveType, RunType, WriterType, PruneType, MountType
<1>4. CASE Cancel
  BY <1>4 DEF Cancel, DriveType, RunType, WriterType, PruneType, MountType, FlagType, Statuses
<1>5. CASE SaveTree
  <2>1. Tree(nodes) \in Blobs
    BY DEF Tree, Blobs, WriterType
  <2> QED
    BY <1>5, <2>1 DEF SaveTree, DriveType, RunType, WriterType, PruneType, MountType, FlagType
<1>6. CASE Retain
  <2> DEFINE old == ToForget({s \in snapshots : s.job = job})
  <2>1. old \subseteq Snapshots
    BY DEF ToForget, DriveType
  <2>2. CASE old = {}
    <3>1. Record(Status, FALSE) /\ Status \in Statuses
      BY <1>6, <2>2 DEF Retain, Status, Statuses
    <3> QED
      BY <1>6, <3>1, RecordType DEF Retain, DriveType, RunType, MountType
  <2>3. CASE old # {}
    BY <1>6, <2>1, <2>3 DEF Retain, DriveType, RunType, WriterType, PruneType, MountType, FlagType
  <2> QED
    BY <2>2, <2>3
<1>7. CASE PruneRefused
  <2>1. Record("FAILED", FALSE) /\ "FAILED" \in Statuses
    BY <1>7 DEF PruneRefused, Statuses
  <2> QED
    BY <1>7, <2>1, RecordType DEF PruneRefused, DriveType, RunType, MountType
<1>8. CASE Kill
  <2>1. FlagType'
    BY <1>8 DEF Kill, Reset, FlagType
  <2> QED
    BY <1>8, <2>1 DEF Kill, Reset, DriveType, RunType, WriterType, PruneType, MountType, Statuses
<1>9. ASSUME NEW o \in Outcomes, WriteLock(o) PROVE TypeInv'
  <2>1. DriveType' /\ faults' \in 0..MaxFaults
    BY <1>9 DEF WriteLock, Call, Put, Lock, DriveType, RunType
  <2>2. CASE o = "ok"
    BY <1>9, <2>1, <2>2 DEF WriteLock, RunType, WriterType, PruneType, MountType, FlagType
  <2>3. CASE o # "ok"
    <3>1. Record("FAILED", FALSE) /\ "FAILED" \in Statuses
      BY <1>9, <2>3 DEF WriteLock, Statuses
    <3> QED
      BY <1>9, <2>1, <3>1, RecordType DEF WriteLock, RunType, MountType
  <2> QED
    BY <2>2, <2>3
<1>10. ASSUME NEW o \in Outcomes, NEW d \in Data, FileSaved(d, o) PROVE TypeInv'
  <2>1. entries \cup {d} \in SUBSET Blobs
    BY DEF WriterType, Blobs
  <2>2. /\ packs' \subseteq Packs /\ IsFiniteSet(packs')
        /\ entries' \subseteq Blobs /\ indexPacks' \subseteq Packs
        /\ faults' \in 0..MaxFaults
    <3>1. CASE Cardinality(entries \cup {d}) >= PackSize
      BY <1>10, <2>1, <3>1, FlushType DEF FileSaved
    <3>2. CASE ~(Cardinality(entries \cup {d}) >= PackSize)
      BY <1>10, <2>1, <3>2 DEF FileSaved, DriveType, RunType, WriterType
    <3> QED
      BY <3>1, <3>2
  <2>3. FlagType'
    BY <1>10 DEF FileSaved, FlagType
  <2>4. pending' \subseteq Blobs /\ nodes' \subseteq Data /\ todo' \subseteq Data
    BY <1>10 DEF FileSaved, WriterType, Blobs
  <2> QED
    BY <1>10, <2>2, <2>3, <2>4 DEF FileSaved, DriveType, RunType, WriterType, PruneType, MountType
<1>11. ASSUME NEW o \in Outcomes, FlushPack(o) PROVE TypeInv'
  <2>1. /\ packs' \subseteq Packs /\ IsFiniteSet(packs')
        /\ entries' \subseteq Blobs /\ indexPacks' \subseteq Packs
        /\ faults' \in 0..MaxFaults
    <3>1. CASE entries = {}
      BY <1>11, <3>1 DEF FlushPack, DriveType, RunType, WriterType
    <3>2. CASE entries # {}
      BY <1>11, <3>2, FlushType DEF FlushPack, WriterType
    <3> QED
      BY <3>1, <3>2
  <2> QED
    BY <1>11, <2>1
    DEF FlushPack, Then, DriveType, RunType, WriterType, PruneType, MountType, FlagType, Statuses
<1>12. ASSUME NEW o \in Outcomes, WriteIndex(o) PROVE TypeInv'
  <2>1. DriveType' /\ faults' \in 0..MaxFaults
    BY <1>12 DEF WriteIndex, Call, Put, DriveType, RunType, WriterType, Indexes
  <2> QED
    BY <1>12, <2>1
    DEF WriteIndex, Then, RunType, WriterType, PruneType, MountType, FlagType, Statuses
<1>13. ASSUME NEW o \in Outcomes, WriteSnapshot(o) PROVE TypeInv'
  <2>1. DriveType' /\ faults' \in 0..MaxFaults
    BY <1>13 DEF WriteSnapshot, Call, Put, DriveType, RunType, WriterType, Snapshots
  <2> QED
    BY <1>13, <2>1
    DEF WriteSnapshot, Then, RunType, WriterType, PruneType, MountType, FlagType, Statuses
<1>14. ASSUME NEW o \in Outcomes, Unlock(o) PROVE TypeInv'
  <2>1. DriveType' /\ faults' \in 0..MaxFaults
    BY <1>14 DEF Unlock, Call, Remove, DriveType, RunType
  <2>2. CASE o = "ok" /\ outcome = "none"
    BY <1>14, <2>1, <2>2 DEF Unlock, RunType, WriterType, PruneType, MountType, FlagType
  <2>3. CASE ~(o = "ok" /\ outcome = "none")
    <3>1. /\ Record(IF o = "ok" THEN outcome ELSE "FAILED", FALSE)
          /\ (IF o = "ok" THEN outcome ELSE "FAILED") \in Statuses
      BY <1>14, <2>3 DEF Unlock, RunType, Statuses
    <3> QED
      BY <1>14, <2>1, <3>1, RecordType DEF Unlock, RunType, MountType
  <2> QED
    BY <2>2, <2>3
<1>15. ASSUME NEW o \in Outcomes, NEW s \in forgetting, Forget(s, o) PROVE TypeInv'
  <2>1. DriveType' /\ faults' \in 0..MaxFaults
    BY <1>15 DEF Forget, Call, Remove, DriveType, RunType
  <2>2. CASE o = "ok"
    BY <1>15, <2>1, <2>2 DEF Forget, RunType, WriterType, PruneType, MountType, FlagType
  <2>3. CASE o # "ok"
    <3>1. Record("FAILED", FALSE) /\ "FAILED" \in Statuses
      BY <1>15, <2>3 DEF Forget, Statuses
    <3> QED
      BY <1>15, <2>1, <3>1, RecordType DEF Forget, RunType, MountType
  <2> QED
    BY <2>2, <2>3
<1>16. ASSUME NEW o \in Outcomes, PruneLock(o) PROVE TypeInv'
  <2>1. DriveType' /\ faults' \in 0..MaxFaults
    BY <1>16 DEF PruneLock, Call, Put, Lock, DriveType, RunType
  <2>2. CASE o = "ok"
    BY <1>16, <2>1, <2>2 DEF PruneLock, RunType, WriterType, PruneType, MountType, FlagType
  <2>3. CASE o # "ok"
    <3>1. Record("FAILED", FALSE) /\ "FAILED" \in Statuses
      BY <1>16, <2>3 DEF PruneLock, Statuses
    <3> QED
      BY <1>16, <2>1, <3>1, RecordType DEF PruneLock, RunType, MountType
  <2> QED
    BY <2>2, <2>3
<1>17. ASSUME NEW o \in Outcomes, Mark(o) PROVE TypeInv'
  <2>1. PruneType'
    BY <1>17 DEF Mark, PruneType, DriveType, Indexed, Indexes
  <2>2. RunType'
    BY <1>17 DEF Mark, Call, RunType, Statuses
  <2> QED
    BY <1>17, <2>1, <2>2 DEF Mark, DriveType, WriterType, MountType, FlagType
<1>18. ASSUME NEW o \in Outcomes, NewIndex(o) PROVE TypeInv'
  <2>1. DriveType' /\ faults' \in 0..MaxFaults
    BY <1>18 DEF NewIndex, Call, Put, DriveType, RunType, PruneType, Indexes
  <2> QED
    BY <1>18, <2>1
    DEF NewIndex, PruneThen, RunType, WriterType, PruneType, MountType, FlagType, Statuses
<1>19. ASSUME NEW o \in Outcomes, NEW i \in oldIndex, DropIndex(i, o) PROVE TypeInv'
  <2>1. DriveType' /\ faults' \in 0..MaxFaults
    BY <1>19 DEF DropIndex, Call, Remove, DriveType, RunType
  <2> QED
    BY <1>19, <2>1
    DEF DropIndex, PruneThen, RunType, WriterType, PruneType, MountType, FlagType, Statuses
<1>20. ASSUME NEW o \in Outcomes, NEW p \in drop, DropPack(p, o) PROVE TypeInv'
  <2>1. DriveType' /\ faults' \in 0..MaxFaults
    BY <1>20 DEF DropPack, Call, Remove, DriveType, RunType
  <2>2. IsFiniteSet(packs')
    BY <1>20, PacksFinite DEF DropPack
  <2> QED
    BY <1>20, <2>1, <2>2
    DEF DropPack, PruneThen, RunType, WriterType, PruneType, MountType, FlagType, Statuses
<1>21. ASSUME NEW o \in Outcomes, PruneUnlock(o) PROVE TypeInv'
  <2>1. DriveType' /\ faults' \in 0..MaxFaults
    BY <1>21 DEF PruneUnlock, Call, Remove, DriveType, RunType
  <2>2. \E status \in Statuses, didPrune \in BOOLEAN : Record(status, didPrune)
    BY <1>21 DEF PruneUnlock, RunType, Status, Statuses
  <2> QED
    BY <1>21, <2>1, <2>2, RecordType DEF PruneUnlock, RunType, MountType
<1>22. ASSUME NEW readData \in BOOLEAN, Check(readData) PROVE TypeInv'
  <2>1. FlagType'
    BY <1>22 DEF Check, FlagType
  <2> QED
    BY <1>22, <2>1 DEF Check, DriveType, RunType, WriterType, PruneType, MountType
<1>23. CASE ReaderList \/ ReaderUnmount
  BY <1>23
  DEF ReaderList, ReaderUnmount, DriveType, RunType, WriterType, PruneType, MountType, FlagType
<1>24. CASE ReaderLoad
  <2>1. Indexed \subseteq Packs
    BY DEF Indexed, DriveType, Indexes
  <2> QED
    BY <1>24, <2>1 DEF ReaderLoad, DriveType, RunType, WriterType, PruneType, MountType, FlagType
<1>25. CASE UNCHANGED vars
  BY <1>25 DEF vars, DriveType, RunType, WriterType, PruneType, MountType, FlagType
<1> QED
  BY <1>1, <1>2, <1>3, <1>4, <1>5, <1>6, <1>7, <1>8, <1>9, <1>10, <1>11, <1>12, <1>13, <1>14,
     <1>15, <1>16, <1>17, <1>18, <1>19, <1>20, <1>21, <1>22, <1>23, <1>24, <1>25 DEF Next

\* The repository, the run and the reader always have their types.
THEOREM TypeCorrect == Spec => []TypeOK
<1>1. TypeInv => TypeOK
  BY DEF TypeInv
<1> QED
  BY InitType, TypeStep, <1>1, PTL DEF Spec

-----------------------------------------------------------------------------
(* The inductive invariant.                                                 *)

\* Where ResticWriter.backup is at work, before its snapshot is written.
Writing == {"lock", "files", "flush", "index", "snapshot"}

\* The snapshot this run writes, and the index its prune writes.
Own == [run |-> clock, job |-> job, nodes |-> nodes]
PruneIndex == [run |-> clock, kind |-> "prune", packs |-> keep]

\* The run's own snapshot is on the drive.
Made == \/ pc \in {"retain", "forget", "mark", "newindex", "delete", "pruneunlock"}
        \/ pc = "unlock" /\ outcome = "none"

\* Nothing is from the future: a run's snapshot and prune index are new when it writes
\* them, so neither is one a reader has listed or one prune is about to delete.
Dated ==
    /\ \A s \in snapshots \cup listed :
         /\ s.run <= clock
         /\ pc \in Writing => s.run < clock
    /\ \A i \in indexes :
         /\ i.run <= clock
         /\ pc \in Writing \cup {"unlock", "retain", "forget", "mark", "newindex"} /\ i.kind = "prune"
              => i.run < clock

\* How a run can be about to end, and that nothing is recorded of it before it does.
RunState ==
    /\ outcome \in {"none", "FAILED", "CANCELLED"}
    /\ pc = "pruneunlock" => outcome # "none"
    /\ pc # "idle" => result = "none" /\ ~pruned

\* The writer's books: each blob it took on is in the pack being filled or in a pack that
\* is on the drive and will be indexed; files and trees of the snapshot to be are among
\* those blobs or in the index; and once the index is written all are readable.
WriterHolds ==
    /\ pc \in {"idle", "lock"} =>
         nodes = {} /\ pending = {} /\ entries = {} /\ indexPacks = {} /\ ~errors
    /\ pc \in Writing =>
         /\ loaded \subseteq Readable
         /\ nodes \subseteq pending \cup loaded
         /\ pending \subseteq entries \cup BlobsOf(indexPacks)
         /\ indexPacks \subseteq packs
    /\ pc \in {"flush", "index", "snapshot"} => Tree(nodes) \in pending \cup loaded
    /\ pc \in {"index", "snapshot"} => entries = {}
    /\ pc = "snapshot" => pending \subseteq Readable

\* The snapshot to be has every file of the scan, unless an error was noted; it is there
\* from the moment the run counts on it, and is never among those to forget.
Scanned ==
    /\ pc \in Writing /\ ~errors => nodes \cup todo = source
    /\ pc \in {"flush", "index", "snapshot"} => todo = {}
    /\ Made => Own \in snapshots /\ (~errors => nodes = source)
    /\ pc = "forget" => Own \notin forgetting

\* Prune's books: the packs it keeps hold all that is used, those it drops hold nothing
\* that is, and while it deletes, its new index is there beside the old ones still to go.
PruneHolds ==
    /\ pc \in {"newindex", "delete"} =>
         /\ keep \subseteq packs
         /\ \A p \in keep : InUse(p)
         /\ \A p \in drop : ~InUse(p)
         /\ Used \subseteq BlobsOf(keep)
    /\ pc = "newindex" => oldIndex = indexes
    /\ pc = "delete" =>
         /\ PruneIndex \in indexes \ oldIndex
         /\ indexes \subseteq oldIndex \cup {PruneIndex}

Inv ==
    /\ TypeInv
    /\ IndexesHold /\ SnapshotsComplete /\ MountedReads
    /\ NotTakenForDamaged /\ SuccessIsWhole /\ PrunedClean
    /\ Dated /\ RunState /\ WriterHolds /\ Scanned /\ PruneHolds

-----------------------------------------------------------------------------
(* The drive.                                                               *)

\* More packs and more indexes make more readable.
LEMMA DriveGrows ==
    ASSUME packs \subseteq packs', indexes \subseteq indexes'
    PROVE  Indexed \subseteq Indexed' /\ Readable \subseteq Readable'
<1>1. Indexed \subseteq Indexed'
  BY DEF Indexed
<1>2. Indexed \cap packs \subseteq Indexed' \cap packs'
  BY <1>1
<1> QED
  BY <1>1, <1>2 DEF Readable, BlobsOf

\* The same packs and indexes make the same readable.
LEMMA DriveKept ==
    ASSUME packs' = packs, indexes' = indexes
    PROVE  Indexed' = Indexed /\ Readable' = Readable
  BY DEF Indexed, Readable

\* When indexed packs are all there, what is indexed can be read.
LEMMA ReadableIsIndexed ==
    ASSUME IndexesHold
    PROVE  Readable = BlobsOf(Indexed)
<1>1. Indexed \cap packs = Indexed
  BY DEF IndexesHold
<1> QED
  BY <1>1 DEF Readable

\* The steps that change packs, indexes or snapshots.
LEMMA DriveSteps ==
    ASSUME [Next]_vars
    PROVE  \/ packs' = packs /\ indexes' = indexes /\ snapshots' = snapshots
           \/ \E o \in Outcomes :
                 \/ \E d \in Data : FileSaved(d, o)
                 \/ FlushPack(o) \/ WriteIndex(o) \/ WriteSnapshot(o)
                 \/ \E s \in forgetting : Forget(s, o)
                 \/ NewIndex(o)
                 \/ \E i \in oldIndex : DropIndex(i, o)
                 \/ \E p \in drop : DropPack(p, o)
<1> USE DEF drive
<1> DEFINE Same == packs' = packs /\ indexes' = indexes /\ snapshots' = snapshots
<1>1. \A j \in Jobs, files \in SUBSET Data : StartBackup(j, files) => Same
  BY DEF StartBackup
<1>2. \A d \in Data : FileUnchanged(d) \/ FileUnreadable(d) \/ FileKnown(d) => Same
  BY DEF FileUnchanged, FileUnreadable, FileKnown
<1>3. Cancel \/ SaveTree \/ Retain \/ PruneRefused \/ Kill => Same
  BY DEF Cancel, SaveTree, Retain, PruneRefused, Kill
<1>4. \A o \in Outcomes : WriteLock(o) \/ Unlock(o) \/ PruneLock(o) \/ PruneUnlock(o) => Same
  BY DEF WriteLock, Unlock, PruneLock, PruneUnlock
<1>5. \A o \in Outcomes : Mark(o) => Same
  BY DEF Mark
<1>6. \A readData \in BOOLEAN : Check(readData) => Same
  BY DEF Check
<1>7. ReaderList \/ ReaderLoad \/ ReaderUnmount => Same
  BY DEF ReaderList, ReaderLoad, ReaderUnmount
<1>8. UNCHANGED vars => Same
  BY DEF vars
<1> HIDE DEF Same
<1>9. Next => \/ Same
              \/ \E o \in Outcomes :
                 \/ \E d \in Data : FileSaved(d, o)
                 \/ FlushPack(o) \/ WriteIndex(o) \/ WriteSnapshot(o)
                 \/ \E s \in forgetting : Forget(s, o)
                 \/ NewIndex(o)
                 \/ \E i \in oldIndex : DropIndex(i, o)
                 \/ \E p \in drop : DropPack(p, o)
  BY <1>1, <1>2, <1>3, <1>4, <1>5, <1>6, <1>7 DEF Next
<1> QED
  BY <1>8, <1>9 DEF Same

\* The writer only adds packs.
LEMMA PacksGrow ==
    ASSUME NEW o \in Outcomes, FlushPack(o) \/ \E d \in Data : FileSaved(d, o)
    PROVE  packs \subseteq packs' /\ indexes' = indexes /\ snapshots' = snapshots
  BY DEF FlushPack, FileSaved, Flush, Put

\* No step makes an index name a pack that is not there: the writer indexes what it has
\* written, and prune deletes a pack when only its own index is left.
LEMMA IndexesHoldStep == ASSUME Inv, [Next]_vars PROVE IndexesHold'
<1> USE DEF Inv
<1>1. CASE packs' = packs /\ indexes' = indexes
  BY <1>1, DriveKept DEF IndexesHold
<1>2. ASSUME NEW o \in Outcomes, FlushPack(o) \/ \E d \in Data : FileSaved(d, o) PROVE IndexesHold'
  <2>1. Indexed' = Indexed /\ packs \subseteq packs'
    BY <1>2, PacksGrow DEF Indexed
  <2> QED
    BY <2>1 DEF IndexesHold
<1>3. ASSUME NEW o \in Outcomes, WriteIndex(o) PROVE IndexesHold'
  <2>1. indexPacks \subseteq packs /\ packs' = packs
    BY <1>3 DEF WriteIndex, WriterHolds, Writing
  <2>2. \A i \in indexes' : i \in indexes \/ i.packs = indexPacks
    BY <1>3 DEF WriteIndex, Put
  <2> QED
    BY <2>1, <2>2 DEF IndexesHold, Indexed
<1>4. ASSUME NEW o \in Outcomes, WriteSnapshot(o) \/ \E s \in forgetting : Forget(s, o)
      PROVE IndexesHold'
  BY <1>4, <1>1 DEF WriteSnapshot, Forget
<1>5. ASSUME NEW o \in Outcomes, NewIndex(o) PROVE IndexesHold'
  <2>1. keep \subseteq packs /\ packs' = packs
    BY <1>5 DEF NewIndex, PruneHolds
  <2>2. \A i \in indexes' : i \in indexes \/ i.packs = keep
    BY <1>5 DEF NewIndex, Put
  <2> QED
    BY <2>1, <2>2 DEF IndexesHold, Indexed
<1>6. ASSUME NEW o \in Outcomes, NEW i \in oldIndex, DropIndex(i, o) PROVE IndexesHold'
  BY <1>6 DEF DropIndex, Remove, IndexesHold, Indexed
<1>7. ASSUME NEW o \in Outcomes, NEW p \in drop, DropPack(p, o) PROVE IndexesHold'
  <2>1. \A i \in indexes : i.packs = keep
    BY <1>7 DEF DropPack, PruneHolds, PruneIndex
  <2>2. keep \subseteq packs /\ p \notin keep
    BY <1>7 DEF DropPack, PruneHolds
  <2>3. indexes' = indexes /\ packs \ {p} \subseteq packs'
    BY <1>7 DEF DropPack, Remove
  <2> QED
    BY <2>1, <2>2, <2>3 DEF IndexesHold, Indexed
<1> QED
  BY <1>1, <1>2, <1>3, <1>4, <1>5, <1>6, <1>7, DriveSteps

\* No step makes a snapshot miss a blob: packs and index are there before the snapshot,
\* and while old indexes go, prune's own index names all that is used.
LEMMA SnapshotsCompleteStep == ASSUME Inv, [Next]_vars PROVE SnapshotsComplete'
<1> USE DEF Inv
<1>1. CASE packs \subseteq packs' /\ indexes \subseteq indexes' /\ snapshots' \subseteq snapshots
  BY <1>1, DriveGrows DEF SnapshotsComplete
<1>2. ASSUME NEW o \in Outcomes, FlushPack(o) \/ \E d \in Data : FileSaved(d, o)
      PROVE SnapshotsComplete'
  BY <1>1, <1>2, PacksGrow
<1>3. ASSUME NEW o \in Outcomes, WriteIndex(o) \/ NewIndex(o) \/ \E s \in forgetting : Forget(s, o)
      PROVE SnapshotsComplete'
  BY <1>1, <1>3 DEF WriteIndex, NewIndex, Forget, Put, Remove
<1>4. ASSUME NEW o \in Outcomes, WriteSnapshot(o) PROVE SnapshotsComplete'
  <2>1. Readable' = Readable
    BY <1>4, DriveKept DEF WriteSnapshot
  <2>2. Needs(Own) \subseteq Readable
    BY <1>4 DEF WriteSnapshot, WriterHolds, Writing, Needs, Own
  <2>3. snapshots' \subseteq snapshots \cup {Own}
    BY <1>4 DEF WriteSnapshot, Put, Own
  <2> QED
    BY <2>1, <2>2, <2>3 DEF SnapshotsComplete
<1>5. ASSUME NEW o \in Outcomes, NEW i \in oldIndex, DropIndex(i, o) PROVE SnapshotsComplete'
  <2>1. snapshots' = snapshots /\ PruneIndex \in indexes' /\ packs' = packs
    BY <1>5 DEF DropIndex, Remove, PruneHolds
  <2>2. keep \subseteq Indexed' \cap packs'
    BY <1>5, <2>1 DEF DropIndex, PruneHolds, PruneIndex, Indexed
  <2>3. BlobsOf(keep) \subseteq Readable'
    BY <2>2 DEF BlobsOf, Readable
  <2>4. Used \subseteq Readable'
    BY <1>5, <2>3 DEF DropIndex, PruneHolds
  <2> QED
    BY <2>1, <2>4 DEF SnapshotsComplete, Used
<1>6. ASSUME NEW o \in Outcomes, NEW p \in drop, DropPack(p, o) PROVE SnapshotsComplete'
  <2>1. snapshots' = snapshots /\ indexes' = indexes
    BY <1>6 DEF DropPack
  <2>2. Indexed' = Indexed /\ IndexesHold'
    BY <2>1, IndexesHoldStep DEF Indexed
  <2>3. Readable' = Readable
    <3>1. Indexed' \cap packs' = Indexed \cap packs
      BY <2>2 DEF IndexesHold
    <3> QED
      BY <3>1 DEF Readable
  <2> QED
    BY <2>1, <2>3 DEF SnapshotsComplete
<1> QED
  BY <1>1, <1>2, <1>3, <1>4, <1>5, <1>6, DriveSteps

-----------------------------------------------------------------------------
(* The run.                                                                 *)

\* A step of the reader or a check: nothing of the run or of the drive changes.
Quiet ==
    /\ UNCHANGED <<drive, about, pc, writer, outcome, prune, result>>
    /\ listed' \subseteq listed \cup snapshots
    /\ corrupted' = corrupted \/ \E readData \in BOOLEAN : Check(readData)

\* A step is quiet, ends a run, or is a step of a run that goes on.
LEMMA RunSteps ==
    ASSUME [Next]_vars
    PROVE  \/ Quiet
           \/ pc # "idle" /\ pc' = "idle"
           \/ /\ pc' # "idle"
              /\ listed' = listed /\ corrupted' = corrupted
              /\ \/ \E j \in Jobs, files \in SUBSET Data : StartBackup(j, files)
                 \/ \E d \in Data : FileUnchanged(d) \/ FileUnreadable(d) \/ FileKnown(d)
                 \/ Cancel \/ SaveTree \/ Retain
                 \/ \E o \in Outcomes :
                      \/ WriteLock(o)
                      \/ \E d \in Data : FileSaved(d, o)
                      \/ FlushPack(o) \/ WriteIndex(o) \/ WriteSnapshot(o) \/ Unlock(o)
                      \/ \E s \in forgetting : Forget(s, o)
                      \/ PruneLock(o) \/ Mark(o) \/ NewIndex(o)
                      \/ \E i \in oldIndex : DropIndex(i, o)
                      \/ \E p \in drop : DropPack(p, o)
<1> DEFINE Unharmed == corrupted' = corrupted \/ pc' = "idle"
<1>1. PruneRefused \/ Kill => pc # "idle" /\ pc' = "idle"
  BY DEF PruneRefused, Kill, Record, Reset
<1>2. \A o \in Outcomes : PruneUnlock(o) => pc # "idle" /\ pc' = "idle"
  BY DEF PruneUnlock, Record, Reset
<1>3. \A readData \in BOOLEAN : Check(readData) => Quiet
  BY DEF Check, Quiet, mount
<1>4. ReaderList \/ ReaderLoad \/ ReaderUnmount => Quiet
  BY DEF ReaderList, ReaderLoad, ReaderUnmount, Quiet
<1>5. UNCHANGED vars => Quiet
  BY DEF vars, Quiet, mount
<1>6. \A j \in Jobs, files \in SUBSET Data :
         StartBackup(j, files) => pc' # "idle" /\ listed' = listed /\ Unharmed
  BY DEF StartBackup, mount
<1>7. \A d \in Data : FileUnchanged(d) \/ FileUnreadable(d) \/ FileKnown(d)
                      => pc # "idle" /\ listed' = listed /\ Unharmed
  BY DEF FileUnchanged, FileUnreadable, FileKnown, mount
<1>8. Cancel \/ SaveTree \/ Retain => pc # "idle" /\ listed' = listed /\ Unharmed
  BY DEF Cancel, SaveTree, Retain, mount, Record, Reset
<1>9. \A o \in Outcomes : WriteLock(o) \/ (\E d \in Data : FileSaved(d, o)) \/ FlushPack(o)
                           \/ WriteIndex(o) \/ WriteSnapshot(o) \/ Unlock(o)
                           => pc # "idle" /\ listed' = listed /\ Unharmed
  BY DEF WriteLock, FileSaved, FlushPack, WriteIndex, WriteSnapshot, Unlock, mount, Record, Reset
<1>10. \A o \in Outcomes :
         PruneLock(o) \/ Mark(o) \/ NewIndex(o) \/ (\E s \in forgetting : Forget(s, o))
           \/ (\E i \in oldIndex : DropIndex(i, o)) \/ (\E p \in drop : DropPack(p, o))
           => pc # "idle" /\ listed' = listed /\ Unharmed
  BY DEF Forget, PruneLock, Mark, NewIndex, DropIndex, DropPack, mount, Record, Reset
<1>11. CASE UNCHANGED vars
  BY <1>5, <1>11
<1>12. CASE Next
  BY <1>1, <1>2, <1>3, <1>4, <1>6, <1>7, <1>8, <1>9, <1>10, <1>12 DEF Next
<1> QED
  BY <1>11, <1>12

\* How a run ends: killed, failed or cancelled, after retain, or after a whole prune.
LEMMA Endings ==
    ASSUME Inv, [Next]_vars, pc # "idle", pc' = "idle"
    PROVE  /\ Reset
           /\ packs' = packs /\ indexes' = indexes /\ snapshots' \subseteq snapshots
           /\ clock' = clock /\ job' = job /\ source' = source
           /\ listed' = listed
           /\ \/ result' = result /\ pruned' = pruned /\ corrupted' = corrupted
              \/ result' \in {"FAILED", "CANCELLED"} /\ pruned' = FALSE /\ corrupted' = corrupted
              \/ /\ pc = "retain" /\ snapshots' = snapshots
                 /\ result' = Status /\ pruned' = FALSE /\ corrupted' = corrupted
              \/ /\ pc = "delete" /\ oldIndex = {} /\ drop = {} /\ snapshots' = snapshots
                 /\ result' = Status /\ pruned' = TRUE /\ corrupted' = corrupted
<1> USE DEF drive, mount
<1> DEFINE Kept1 == /\ packs' = packs /\ indexes' = indexes /\ snapshots' \subseteq snapshots
                   /\ listed' = listed
<1>0. corrupted \in BOOLEAN /\ Status # "CORRUPTED"
  BY DEF Inv, TypeInv, TypeOK, FlagType, Status
<1>1. ASSUME NEW status, Record(status, FALSE), status # "CORRUPTED"
      PROVE  /\ Reset /\ clock' = clock /\ job' = job /\ source' = source
             /\ result' = status /\ pruned' = FALSE /\ corrupted' = corrupted
  BY <1>0, <1>1 DEF Record
<1>2. CASE Kill
  BY <1>2 DEF Kill
<1>3. CASE PruneRefused
  BY <1>1, <1>3 DEF PruneRefused
<1>4. CASE Retain
  BY <1>0, <1>1, <1>4 DEF Retain
<1>5. ASSUME NEW o \in Outcomes, WriteLock(o) PROVE Kept1 /\ Record("FAILED", FALSE)
  BY <1>5 DEF WriteLock
<1>6. ASSUME NEW o \in Outcomes, Unlock(o)
      PROVE  Kept1 /\ (Record("FAILED", FALSE) \/ Record("CANCELLED", FALSE))
  BY <1>6 DEF Unlock, Inv, RunState
<1>7. ASSUME NEW o \in Outcomes, NEW s \in forgetting, Forget(s, o)
      PROVE  Kept1 /\ Record("FAILED", FALSE)
  BY <1>7 DEF Forget, Remove
<1>8. ASSUME NEW o \in Outcomes, PruneLock(o) PROVE Kept1 /\ Record("FAILED", FALSE)
  BY <1>8 DEF PruneLock
<1>9. ASSUME NEW o \in Outcomes, PruneUnlock(o)
      PROVE  /\ Kept1 /\ snapshots' = snapshots
             /\ \/ Record("FAILED", FALSE) \/ Record("CANCELLED", FALSE)
                \/ pc = "delete" /\ oldIndex = {} /\ drop = {} /\ Record(Status, TRUE)
  BY <1>9 DEF PruneUnlock, Inv, RunState
<1> HIDE DEF Kept1
<1>10. CASE Kept1 /\ (Record("FAILED", FALSE) \/ Record("CANCELLED", FALSE))
  BY <1>1, <1>10 DEF Kept1
<1>11. CASE Kept1 /\ snapshots' = snapshots /\ pc = "delete" /\ oldIndex = {} /\ drop = {} /\ Record(Status, TRUE)
  BY <1>0, <1>11 DEF Kept1, Record
<1>12. \/ Kill \/ PruneRefused \/ Retain
       \/ \E o \in Outcomes : \/ WriteLock(o) \/ Unlock(o) \/ PruneLock(o) \/ PruneUnlock(o)
                               \/ \E s \in forgetting : Forget(s, o)
  <2>1. CASE UNCHANGED vars
    BY <2>1 DEF vars
  <2>2. ~\E j \in Jobs, files \in SUBSET Data : StartBackup(j, files)
    BY DEF StartBackup
  <2>3. ~\E d \in Data : FileUnchanged(d) \/ FileUnreadable(d) \/ FileKnown(d)
    BY DEF FileUnchanged, FileUnreadable, FileKnown
  <2>4. ~(Cancel \/ SaveTree)
    BY DEF Cancel, SaveTree
  <2>5. ASSUME NEW o \in Outcomes,
               (\E d \in Data : FileSaved(d, o)) \/ FlushPack(o) \/ WriteIndex(o) \/ WriteSnapshot(o)
        PROVE  FALSE
    BY <2>5 DEF FileSaved, FlushPack, WriteIndex, WriteSnapshot, Then
  <2>6. ASSUME NEW o \in Outcomes,
               \/ Mark(o) \/ NewIndex(o)
               \/ \E i \in oldIndex : DropIndex(i, o)
               \/ \E p \in drop : DropPack(p, o)
        PROVE  FALSE
    BY <2>6 DEF Mark, NewIndex, DropIndex, DropPack, PruneThen
  <2>7. ~\E readData \in BOOLEAN : Check(readData)
    BY DEF Check
  <2>8. ~(ReaderList \/ ReaderLoad \/ ReaderUnmount)
    BY DEF ReaderList, ReaderLoad, ReaderUnmount
  <2> QED
    BY <2>1, <2>2, <2>3, <2>4, <2>5, <2>6, <2>7, <2>8 DEF Next
<1> QED
  BY <1>2, <1>3, <1>4, <1>5, <1>6, <1>7, <1>8, <1>9, <1>10, <1>11, <1>12

-----------------------------------------------------------------------------
(* Each part of the invariant is kept.                                      *)

\* A snapshot the reader has listed is not written again, and a pack that holds a blob of
\* one that is still there is in use, so prune does not drop it.
LEMMA MountedReadsStep == ASSUME Inv, [Next]_vars PROVE MountedReads'
<1> USE DEF Inv
<1>1. CASE ReaderList \/ ReaderUnmount
  BY <1>1 DEF ReaderList, ReaderUnmount, MountedReads
<1>2. CASE ReaderLoad
  <2>1. snapshots' = snapshots /\ packs' = packs /\ readIndex' = Indexed
    BY <1>2 DEF ReaderLoad, drive
  <2>2. \A s \in snapshots : \A b \in Needs(s) : \E p \in Indexed : b \in p.blobs
    BY DEF SnapshotsComplete, Readable, BlobsOf
  <2> QED
    BY <2>1, <2>2 DEF MountedReads, IndexesHold
<1>3. CASE UNCHANGED mount
  <2> USE <1>3 DEF mount
  <2>1. CASE packs \subseteq packs' /\ snapshots' \subseteq snapshots
    BY <2>1 DEF MountedReads
  <2>2. ASSUME NEW o \in Outcomes, FlushPack(o) \/ \E d \in Data : FileSaved(d, o)
        PROVE  MountedReads'
    BY <2>1, <2>2, PacksGrow
  <2>3. ASSUME NEW o \in Outcomes,
               \/ WriteIndex(o) \/ NewIndex(o)
               \/ \E s \in forgetting : Forget(s, o)
               \/ \E i \in oldIndex : DropIndex(i, o)
        PROVE  MountedReads'
    BY <2>1, <2>3 DEF WriteIndex, NewIndex, Forget, DropIndex, Remove
  <2>4. ASSUME NEW o \in Outcomes, WriteSnapshot(o) PROVE MountedReads'
    <3>1. packs' = packs /\ snapshots' \subseteq snapshots \cup {Own}
      BY <2>4 DEF WriteSnapshot, Put, Own
    <3>2. Own \notin listed
      BY <2>4 DEF WriteSnapshot, Dated, Writing, Own, TypeInv, TypeOK, RunType
    <3> QED
      BY <3>1, <3>2 DEF MountedReads
  <2>5. ASSUME NEW o \in Outcomes, NEW p \in drop, DropPack(p, o) PROVE MountedReads'
    <3>1. snapshots' = snapshots /\ packs \ {p} \subseteq packs'
      BY <2>5 DEF DropPack, Remove
    <3>2. \A s \in snapshots : \A b \in Needs(s) : b \notin p.blobs
      BY <2>5 DEF DropPack, PruneHolds, InUse, Used
    <3> QED
      BY <3>1, <3>2 DEF MountedReads
  <2> QED
    BY <2>1, <2>2, <2>3, <2>4, <2>5, DriveSteps
<1>4. ReaderList \/ ReaderLoad \/ ReaderUnmount \/ UNCHANGED mount
  <2>1. \A j \in Jobs, files \in SUBSET Data : StartBackup(j, files) => UNCHANGED mount
    BY DEF StartBackup
  <2>2. \A d \in Data : FileUnchanged(d) \/ FileUnreadable(d) \/ FileKnown(d) => UNCHANGED mount
    BY DEF FileUnchanged, FileUnreadable, FileKnown
  <2>3. Cancel \/ SaveTree \/ Retain \/ PruneRefused \/ Kill => UNCHANGED mount
    BY DEF Cancel, SaveTree, Retain, PruneRefused, Kill
  <2>4. \A o \in Outcomes : WriteLock(o) \/ Unlock(o) \/ PruneLock(o) \/ PruneUnlock(o)
                             \/ Mark(o) \/ NewIndex(o) => UNCHANGED mount
    BY DEF WriteLock, Unlock, PruneLock, PruneUnlock, Mark, NewIndex
  <2>5. \A o \in Outcomes : (\E d \in Data : FileSaved(d, o)) \/ FlushPack(o) \/ WriteIndex(o)
                             \/ WriteSnapshot(o) => UNCHANGED mount
    BY DEF FileSaved, FlushPack, WriteIndex, WriteSnapshot
  <2>6. \A o \in Outcomes : (\E s \in forgetting : Forget(s, o)) \/ (\E i \in oldIndex : DropIndex(i, o))
                             \/ (\E p \in drop : DropPack(p, o)) => UNCHANGED mount
    BY DEF Forget, DropIndex, DropPack
  <2>7. \A readData \in BOOLEAN : Check(readData) => UNCHANGED mount
    BY DEF Check
  <2>8. CASE UNCHANGED vars
    BY <2>8 DEF vars
  <2>9. CASE Next
    BY <2>1, <2>2, <2>3, <2>4, <2>5, <2>6, <2>7, <2>9 DEF Next
  <2> QED
    BY <2>8, <2>9
<1> QED
  BY <1>1, <1>2, <1>3, <1>4

\* A run writes under its own number, which only the next run raises.
LEMMA DatedStep == ASSUME Inv, [Next]_vars PROVE Dated'
<1> USE DEF Inv, about
<1>0. /\ clock \in Nat /\ indexes \subseteq Indexes /\ snapshots \subseteq Snapshots
      /\ listed \subseteq Snapshots
  BY DEF TypeInv, TypeOK, RunType, DriveType, MountType
<1>1. CASE Quiet
  BY <1>1 DEF Quiet, drive, Dated
<1>2. CASE pc # "idle" /\ pc' = "idle"
  BY <1>2, Endings DEF Dated, Writing
<1>3. ASSUME NEW j \in Jobs, NEW files \in SUBSET Data, StartBackup(j, files) PROVE Dated'
  BY <1>0, <1>3 DEF StartBackup, drive, mount, Dated, Indexes, Snapshots
<1>4. ASSUME \/ \E d \in Data : FileUnchanged(d) \/ FileUnreadable(d) \/ FileKnown(d)
             \/ Cancel \/ SaveTree
      PROVE  Dated'
  BY <1>4
  DEF FileUnchanged, FileUnreadable, FileKnown, Cancel, SaveTree, drive, mount, Dated, Writing
<1>5. ASSUME listed' = listed, pc' # "idle", Retain PROVE Dated'
  BY <1>5 DEF Retain, Record, Reset, drive, Dated, Writing
<1>6. ASSUME NEW o \in Outcomes, listed' = listed, pc' # "idle",
             WriteLock(o) \/ Unlock(o) \/ PruneLock(o)
      PROVE  Dated'
  BY <1>6 DEF WriteLock, Unlock, PruneLock, Record, Reset, Dated, Writing
<1>7. ASSUME NEW o \in Outcomes, listed' = listed,
             (\E d \in Data : FileSaved(d, o)) \/ FlushPack(o)
      PROVE  Dated'
  BY <1>7 DEF FileSaved, FlushPack, Then, Dated, Writing
<1>8. ASSUME NEW o \in Outcomes, listed' = listed, WriteIndex(o) PROVE Dated'
  <2>1. \A i \in indexes' : i \in indexes \/ (i.run = clock /\ i.kind = "backup")
    BY <1>8 DEF WriteIndex, Put
  <2> QED
    BY <1>0, <1>8, <2>1 DEF WriteIndex, Then, Dated, Writing
<1>9. ASSUME NEW o \in Outcomes, listed' = listed, WriteSnapshot(o) PROVE Dated'
  <2>1. \A s \in snapshots' : s \in snapshots \/ s.run = clock
    BY <1>9 DEF WriteSnapshot, Put
  <2> QED
    BY <1>0, <1>9, <2>1 DEF WriteSnapshot, Then, Dated, Writing
<1>10. ASSUME NEW o \in Outcomes, NEW s \in forgetting, listed' = listed, pc' # "idle", Forget(s, o)
       PROVE  Dated'
  BY <1>10 DEF Forget, Remove, Record, Reset, Dated, Writing
<1>11. ASSUME NEW o \in Outcomes, Mark(o) PROVE Dated'
  <2>1. pc = "mark" /\ pc' \in {"newindex", "pruneunlock"} /\ UNCHANGED <<drive, about, mount>>
    BY <1>11 DEF Mark
  <2> QED
    BY <2>1 DEF drive, mount, Dated, Writing
<1>12. ASSUME NEW o \in Outcomes, listed' = listed, NewIndex(o) PROVE Dated'
  <2>1. \A i \in indexes' : i \in indexes \/ i.run = clock
    BY <1>12 DEF NewIndex, Put
  <2> QED
    BY <1>0, <1>12, <2>1 DEF NewIndex, PruneThen, Dated, Writing
<1>13. ASSUME NEW o \in Outcomes, NEW i \in oldIndex, listed' = listed, DropIndex(i, o) PROVE Dated'
  BY <1>13 DEF DropIndex, Remove, PruneThen, Dated, Writing
<1>14. ASSUME NEW o \in Outcomes, NEW p \in drop, listed' = listed, DropPack(p, o) PROVE Dated'
  BY <1>14 DEF DropPack, PruneThen, Dated, Writing
<1> QED
  BY <1>1, <1>2, <1>3, <1>4, <1>5, <1>6, <1>7, <1>8, <1>9, <1>10, <1>11, <1>12, <1>13, <1>14, RunSteps

\* Neither a check nor prune's marking finds damage while snapshots are complete.
LEMMA NotTakenForDamagedStep == ASSUME Inv, [Next]_vars PROVE NotTakenForDamaged'
<1> USE DEF Inv, NotTakenForDamaged
<1>1. CASE corrupted' = corrupted
  BY <1>1
<1>2. ASSUME NEW readData \in BOOLEAN, Check(readData) PROVE NotTakenForDamaged'
  <2>1. \A s \in snapshots : Tree(s.nodes) \in Readable /\ s.nodes \subseteq Readable
    BY DEF SnapshotsComplete, Needs
  <2>2. (IF readData THEN Readable ELSE BlobsOf(Indexed)) = Readable
    BY ReadableIsIndexed
  <2> QED
    BY <1>2, <2>1, <2>2 DEF Check
<1>3. CASE pc # "idle" /\ pc' = "idle"
  BY <1>1, <1>3, Endings
<1>4. CASE Quiet
  BY <1>1, <1>2, <1>4 DEF Quiet
<1> QED
  BY <1>1, <1>3, <1>4, RunSteps

\* A run is recorded as a success only after its snapshot was made.
LEMMA SuccessIsWholeStep == ASSUME Inv, [Next]_vars PROVE SuccessIsWhole'
<1> USE DEF Inv
<1>1. CASE Quiet
  BY <1>1 DEF Quiet, drive, about, SuccessIsWhole
<1>2. CASE pc' # "idle"
  BY <1>2 DEF SuccessIsWhole
<1>3. CASE pc # "idle" /\ pc' = "idle"
  <2>1. CASE result' = result \/ result' \in {"FAILED", "CANCELLED"}
    BY <1>3, <2>1 DEF RunState, SuccessIsWhole
  <2>2. CASE pc \in {"retain", "delete"} /\ snapshots' = snapshots /\ result' = Status
    <3>1. Own \in snapshots' /\ (~errors => nodes = source)
      BY <2>2 DEF Scanned, Made
    <3>2. clock' = clock /\ job' = job /\ source' = source
      BY <1>3, Endings
    <3>3. result' = "SUCCESS" => ~errors
      BY <2>2 DEF Status
    <3> QED
      BY <3>1, <3>2, <3>3 DEF SuccessIsWhole, Own
  <2> QED
    BY <1>3, <2>1, <2>2, Endings
<1> QED
  BY <1>1, <1>2, <1>3, RunSteps

\* When prune ends well only its own index is left, and that names packs in use.
LEMMA PrunedCleanStep == ASSUME Inv, [Next]_vars PROVE PrunedClean'
<1> USE DEF Inv
<1>1. CASE Quiet
  BY <1>1 DEF Quiet, drive, prune, PrunedClean, Indexed, Used
<1>2. CASE pc' # "idle"
  BY <1>2 DEF PrunedClean
<1>3. CASE pc # "idle" /\ pc' = "idle"
  <2>1. CASE pruned' = pruned \/ pruned' = FALSE
    BY <1>3, <2>1 DEF RunState, PrunedClean
  <2>2. CASE pc = "delete" /\ oldIndex = {} /\ snapshots' = snapshots
    <3>0. indexes' = indexes
      BY <1>3, Endings
    <3>1. \A i \in indexes : i.packs = keep
      BY <2>2 DEF PruneHolds, PruneIndex
    <3>2. Used' = Used
      BY <2>2 DEF Used
    <3>3. \A p \in Indexed' : p \in keep
      BY <3>0, <3>1 DEF Indexed
    <3> QED
      BY <2>2, <3>2, <3>3 DEF PruneHolds, InUse, PrunedClean
  <2> QED
    BY <1>3, <2>1, <2>2, Endings
<1> QED
  BY <1>1, <1>2, <1>3, RunSteps

\* No run is about to end as corrupted, and none has a result before it ends.
LEMMA RunStateStep == ASSUME Inv, [Next]_vars PROVE RunState'
<1> USE DEF Inv, prune
<1>1. CASE Quiet
  BY <1>1 DEF Quiet, RunState
<1>2. CASE pc # "idle" /\ pc' = "idle"
  BY <1>2, Endings DEF Reset, RunState
<1>3. ASSUME NEW j \in Jobs, NEW files \in SUBSET Data, StartBackup(j, files) PROVE RunState'
  BY <1>3 DEF StartBackup, RunState
<1>4. ASSUME NEW d \in Data, FileUnchanged(d) \/ FileUnreadable(d) \/ FileKnown(d) PROVE RunState'
  BY <1>4 DEF FileUnchanged, FileUnreadable, FileKnown, RunState
<1>5. CASE Cancel \/ SaveTree
  BY <1>5 DEF Cancel, SaveTree, RunState
<1>6. ASSUME pc' # "idle", Retain PROVE RunState'
  BY <1>6 DEF Retain, Record, Reset, RunState
<1>7. ASSUME NEW o \in Outcomes, pc' # "idle", WriteLock(o) \/ Unlock(o) \/ PruneLock(o) PROVE RunState'
  BY <1>7 DEF WriteLock, Unlock, PruneLock, Record, Reset, RunState
<1>8. ASSUME NEW o \in Outcomes, (\E d \in Data : FileSaved(d, o)) \/ FlushPack(o) PROVE RunState'
  <2>1. ASSUME NEW d \in Data, FileSaved(d, o) PROVE RunState'
    <3>1. UNCHANGED <<pc, outcome, result, pruned>>
      BY <2>1 DEF FileSaved
    <3> QED
      BY <3>1 DEF RunState
  <2>2. CASE FlushPack(o)
    BY <2>2 DEF FlushPack, Then, RunState
  <2> QED
    BY <1>8, <2>1, <2>2
<1>9. ASSUME NEW o \in Outcomes, WriteIndex(o) \/ WriteSnapshot(o) PROVE RunState'
  BY <1>9 DEF WriteIndex, WriteSnapshot, Then, RunState
<1>10. ASSUME NEW o \in Outcomes, NEW s \in forgetting, pc' # "idle", Forget(s, o) PROVE RunState'
  BY <1>10 DEF Forget, Record, Reset, RunState
<1>11. ASSUME NEW o \in Outcomes, Mark(o) PROVE RunState'
  <2>1. \A s \in snapshots : Tree(s.nodes) \in Known
    BY DEF SnapshotsComplete, Needs, Known
  <2> QED
    BY <1>11, <2>1 DEF Mark, RunState
<1>12. ASSUME NEW o \in Outcomes,
              \/ NewIndex(o)
              \/ \E i \in oldIndex : DropIndex(i, o)
              \/ \E p \in drop : DropPack(p, o)
       PROVE  RunState'
  BY <1>12 DEF NewIndex, DropIndex, DropPack, PruneThen, RunState
<1> QED
  BY <1>1, <1>2, <1>3, <1>4, <1>5, <1>6, <1>7, <1>8, <1>9, <1>10, <1>11, <1>12, RunSteps

\* flushPack loses no blob: it is in the pack list, or still in the pack being filled.
LEMMA FlushKeeps ==
    ASSUME NEW blobs, NEW o \in Outcomes, Flush(blobs, o), indexPacks \subseteq packs
    PROVE  /\ indexPacks' \subseteq packs'
           /\ blobs \cup BlobsOf(indexPacks) \subseteq entries' \cup BlobsOf(indexPacks')
           /\ o = "ok" => entries' = {}
<1> DEFINE p == NewPack(blobs)
<1>1. p.blobs = blobs
  BY DEF NewPack
<1> HIDE DEF p
<1>2. packs' = Put(packs, p, o) /\ entries' = (IF o = "ok" THEN {} ELSE blobs)
      /\ indexPacks' = (IF o = "ok" THEN indexPacks \cup {p} ELSE indexPacks)
  BY DEF Flush, p
<1>3. BlobsOf(indexPacks \cup {p}) = BlobsOf(indexPacks) \cup blobs
  BY <1>1 DEF BlobsOf
<1> QED
  BY <1>2, <1>3 DEF Put

\* The writer's books stay true.
LEMMA WriterHoldsStep == ASSUME Inv, [Next]_vars PROVE WriterHolds'
<1> USE DEF Inv
<1>1. CASE Quiet
  <2>1. Readable' = Readable
    BY <1>1, DriveKept DEF Quiet, drive
  <2> QED
    BY <1>1, <2>1 DEF Quiet, drive, about, writer, WriterHolds
<1>2. CASE pc # "idle" /\ pc' = "idle"
  BY <1>2, Endings DEF Reset, WriterHolds, Writing
<1>3. ASSUME NEW j \in Jobs, NEW files \in SUBSET Data, StartBackup(j, files) PROVE WriterHolds'
  <2>1. Readable' = Readable
    BY <1>3, DriveKept DEF StartBackup, drive
  <2>2. loaded' = Readable
    BY <1>3, ReadableIsIndexed DEF StartBackup
  <2> QED
    BY <1>3, <2>1, <2>2 DEF StartBackup, drive, WriterHolds, Writing
<1>4. CASE pc' \in {"unlock", "retain", "forget", "mark", "newindex", "delete", "pruneunlock"}
  BY <1>4 DEF WriterHolds, Writing
<1>5. ASSUME NEW o \in Outcomes, pc' # "idle", WriteLock(o) PROVE WriterHolds'
  <2>1. Readable' = Readable
    BY <1>5, DriveKept DEF WriteLock
  <2> QED
    BY <1>5, <2>1 DEF WriteLock, Record, Reset, about, writer, WriterHolds, Writing
<1>6. ASSUME NEW d \in Data, FileUnchanged(d) \/ FileUnreadable(d) \/ FileKnown(d) PROVE WriterHolds'
  <2>1. Readable' = Readable
    BY <1>6, DriveKept DEF FileUnchanged, FileUnreadable, FileKnown, drive
  <2> QED
    BY <1>6, <2>1
    DEF FileUnchanged, FileUnreadable, FileKnown, Unchanged, drive, about, WriterHolds, Writing
<1>7. ASSUME NEW o \in Outcomes, NEW d \in Data, FileSaved(d, o) PROVE WriterHolds'
  <2>1. pc = "files" /\ pc' = "files" /\ loaded' = loaded /\ pending' = pending \cup {d}
        /\ nodes' \subseteq nodes \cup {d}
    BY <1>7 DEF FileSaved, about
  <2>2. Readable \subseteq Readable'
    BY <1>7, PacksGrow, DriveGrows
  <2>3. /\ indexPacks' \subseteq packs'
        /\ entries \cup {d} \cup BlobsOf(indexPacks) \subseteq entries' \cup BlobsOf(indexPacks')
    <3>0. indexPacks \subseteq packs
      BY <2>1 DEF WriterHolds, Writing
    <3>1. CASE Flush(entries \cup {d}, o)
      BY <3>0, <3>1, FlushKeeps
    <3>2. CASE entries' = entries \cup {d} /\ UNCHANGED <<packs, indexPacks>>
      BY <3>0, <3>2
    <3> QED
      BY <1>7, <3>1, <3>2 DEF FileSaved
  <2> QED
    BY <2>1, <2>2, <2>3 DEF WriterHolds, Writing
<1>8. CASE SaveTree
  <2>1. Readable' = Readable
    BY <1>8, DriveKept DEF SaveTree, drive
  <2> QED
    BY <1>8, <2>1 DEF SaveTree, drive, about, WriterHolds, Writing
<1>9. ASSUME NEW o \in Outcomes, FlushPack(o) PROVE WriterHolds'
  <2>1. CASE o = "ok"
    <3>1. /\ pc = "flush" /\ pc' = "index"
          /\ loaded' = loaded /\ pending' = pending /\ nodes' = nodes
      BY <1>9, <2>1 DEF FlushPack, Then, about
    <3>2. Readable \subseteq Readable'
      BY <1>9, PacksGrow, DriveGrows
    <3>3. /\ indexPacks' \subseteq packs' /\ entries' = {}
          /\ entries \cup BlobsOf(indexPacks) \subseteq entries' \cup BlobsOf(indexPacks')
      <4>0. indexPacks \subseteq packs
        BY <3>1 DEF WriterHolds, Writing
      <4>1. CASE entries = {}
        BY <1>9, <4>0, <4>1 DEF FlushPack
      <4>2. CASE entries # {}
        BY <1>9, <2>1, <4>0, <4>2, FlushKeeps DEF FlushPack
      <4> QED
        BY <4>1, <4>2
    <3> QED
      BY <3>1, <3>2, <3>3 DEF WriterHolds, Writing
  <2>2. CASE o # "ok"
    BY <1>4, <1>9, <2>2 DEF FlushPack, Then
  <2> QED
    BY <2>1, <2>2
<1>10. ASSUME NEW o \in Outcomes, WriteIndex(o) PROVE WriterHolds'
  <2>1. CASE o = "ok"
    <3>1. /\ pc = "index" /\ pc' = "snapshot" /\ packs' = packs /\ indexes \subseteq indexes'
          /\ UNCHANGED <<loaded, nodes, pending, entries, indexPacks>>
      BY <1>10, <2>1 DEF WriteIndex, Then, Put, about, writer
    <3>2. Readable \subseteq Readable'
      BY <3>1, DriveGrows
    <3>3. indexPacks \subseteq Indexed'
      <4>1. CASE indexPacks = {}
        BY <4>1
      <4>2. CASE indexPacks # {}
        <5>1. [run |-> clock, kind |-> "backup", packs |-> indexPacks] \in indexes'
          BY <1>10, <2>1, <4>2 DEF WriteIndex, Put
        <5> QED
          BY <5>1 DEF Indexed
      <4> QED
        BY <4>1, <4>2
    <3>4. BlobsOf(indexPacks) \subseteq Readable'
      <4>1. indexPacks \subseteq Indexed' \cap packs'
        BY <3>1, <3>3 DEF WriterHolds, Writing
      <4> QED
        BY <4>1 DEF BlobsOf, Readable
    <3>5. pending' \subseteq Readable'
      BY <3>1, <3>4 DEF WriterHolds, Writing
    <3> QED
      BY <3>1, <3>2, <3>5 DEF WriterHolds, Writing
  <2>2. CASE o # "ok"
    BY <1>4, <1>10, <2>2 DEF WriteIndex, Then
  <2> QED
    BY <2>1, <2>2
<1>11. CASE Cancel
  BY <1>4, <1>11 DEF Cancel
<1>12. ASSUME pc' # "idle", Retain PROVE WriterHolds'
  BY <1>4, <1>12 DEF Retain, Record, Reset
<1>13. ASSUME NEW o \in Outcomes, pc' # "idle", WriteSnapshot(o) \/ Unlock(o) \/ PruneLock(o)
       PROVE  WriterHolds'
  BY <1>4, <1>13 DEF WriteSnapshot, Then, Unlock, PruneLock, Record, Reset
<1>14. ASSUME NEW o \in Outcomes, NEW s \in forgetting, pc' # "idle", Forget(s, o) PROVE WriterHolds'
  BY <1>4, <1>14 DEF Forget, Record, Reset
<1>15. ASSUME NEW o \in Outcomes, Mark(o) \/ NewIndex(o) PROVE WriterHolds'
  BY <1>4, <1>15 DEF Mark, NewIndex, PruneThen
<1>16. ASSUME NEW o \in Outcomes,
              (\E i \in oldIndex : DropIndex(i, o)) \/ (\E p \in drop : DropPack(p, o))
       PROVE  WriterHolds'
  BY <1>4, <1>16 DEF DropIndex, DropPack, PruneThen
<1> QED
  BY <1>1, <1>2, <1>3, <1>5, <1>6, <1>7, <1>8, <1>9, <1>10, <1>11, <1>12, <1>13, <1>14, <1>15, <1>16,
     RunSteps

\* Prune's books stay true.
LEMMA PruneHoldsStep == ASSUME Inv, [Next]_vars PROVE PruneHolds'
<1> USE DEF Inv, about
<1>1. CASE Quiet
  <2>1. Used' = Used
    BY <1>1 DEF Quiet, drive, Used
  <2> QED
    BY <1>1, <2>1 DEF Quiet, drive, prune, PruneHolds, InUse, PruneIndex
<1>2. CASE pc' \notin {"newindex", "delete"}
  BY <1>2 DEF PruneHolds
<1>3. ASSUME NEW o \in Outcomes, Mark(o), pc' = "newindex" PROVE PruneHolds'
  <2>1. /\ UNCHANGED drive /\ oldIndex' = indexes
        /\ keep' = {p \in Indexed : InUse(p)} /\ drop' = {p \in Indexed : ~InUse(p)}
    BY <1>3 DEF Mark
  <2>2. Used' = Used
    BY <2>1 DEF drive, Used
  <2>3. Used \subseteq BlobsOf(keep')
    <3>1. \A b \in Used : \E p \in Indexed : b \in p.blobs
      BY DEF Used, SnapshotsComplete, Readable, BlobsOf
    <3>2. \A b \in Used : \E p \in keep' : b \in p.blobs
      BY <2>1, <3>1 DEF InUse
    <3> QED
      BY <3>2 DEF BlobsOf
  <2> QED
    BY <1>3, <2>1, <2>2, <2>3 DEF drive, PruneHolds, InUse, IndexesHold
<1>4. ASSUME NEW o \in Outcomes, NewIndex(o) PROVE PruneHolds'
  <2>1. CASE o = "ok"
    <3>1. /\ pc = "newindex" /\ pc' = "delete" /\ snapshots' = snapshots /\ packs' = packs
          /\ indexes' = indexes \cup {PruneIndex}
          /\ UNCHANGED <<clock, oldIndex, keep, drop>>
      BY <1>4, <2>1 DEF NewIndex, PruneThen, Put, PruneIndex, prune
    <3>2. Used' = Used /\ PruneIndex' = PruneIndex
      BY <3>1 DEF Used, PruneIndex
    <3>3. PruneIndex \notin indexes
      BY <3>1 DEF Dated, Writing, PruneIndex, TypeInv, TypeOK, RunType
    <3> QED
      BY <3>1, <3>2, <3>3 DEF PruneHolds, InUse
  <2>2. CASE o # "ok"
    BY <1>2, <1>4, <2>2 DEF NewIndex, PruneThen
  <2> QED
    BY <2>1, <2>2
<1>5. ASSUME NEW o \in Outcomes, NEW i \in oldIndex, DropIndex(i, o) PROVE PruneHolds'
  <2>1. CASE o = "ok"
    <3>1. /\ pc = "delete" /\ pc' = "delete" /\ snapshots' = snapshots /\ packs' = packs
          /\ indexes' = indexes \ {i} /\ oldIndex' = oldIndex \ {i}
          /\ UNCHANGED <<clock, keep, drop>>
      BY <1>5, <2>1 DEF DropIndex, PruneThen, Remove
    <3>2. Used' = Used /\ PruneIndex' = PruneIndex
      BY <3>1 DEF Used, PruneIndex
    <3> QED
      BY <3>1, <3>2 DEF PruneHolds, InUse
  <2>2. CASE o # "ok"
    BY <1>2, <1>5, <2>2 DEF DropIndex, PruneThen
  <2> QED
    BY <2>1, <2>2
<1>6. ASSUME NEW o \in Outcomes, NEW p \in drop, DropPack(p, o) PROVE PruneHolds'
  <2>1. CASE o = "ok"
    <3>1. /\ pc = "delete" /\ pc' = "delete" /\ snapshots' = snapshots
          /\ packs' = packs \ {p} /\ drop' = drop \ {p}
          /\ UNCHANGED <<clock, indexes, oldIndex, keep>>
      BY <1>6, <2>1 DEF DropPack, PruneThen, Remove
    <3>2. Used' = Used /\ PruneIndex' = PruneIndex
      BY <3>1 DEF Used, PruneIndex
    <3>3. p \notin keep
      BY <3>1 DEF PruneHolds
    <3> QED
      BY <3>1, <3>2, <3>3 DEF PruneHolds, InUse
  <2>2. CASE o # "ok"
    BY <1>2, <1>6, <2>2 DEF DropPack, PruneThen
  <2> QED
    BY <2>1, <2>2
<1>7. ASSUME \/ \E j \in Jobs, files \in SUBSET Data : StartBackup(j, files)
             \/ \E d \in Data : FileUnchanged(d) \/ FileUnreadable(d) \/ FileKnown(d)
             \/ Cancel \/ SaveTree \/ Retain
      PROVE  PruneHolds'
  BY <1>2, <1>7
  DEF StartBackup, FileUnchanged, FileUnreadable, FileKnown, Cancel, SaveTree, Retain, Record, Reset
<1>8. ASSUME NEW o \in Outcomes,
             \/ WriteLock(o) \/ FlushPack(o) \/ WriteIndex(o) \/ WriteSnapshot(o)
             \/ \E d \in Data : FileSaved(d, o)
      PROVE  PruneHolds'
  BY <1>2, <1>8 DEF WriteLock, FileSaved, FlushPack, WriteIndex, WriteSnapshot, Then, Record, Reset
<1>9. ASSUME NEW o \in Outcomes, Unlock(o) \/ PruneLock(o) \/ \E s \in forgetting : Forget(s, o)
      PROVE  PruneHolds'
  BY <1>2, <1>9 DEF Unlock, PruneLock, Forget, Record, Reset
<1>10. ASSUME NEW o \in Outcomes, Mark(o) PROVE PruneHolds'
  BY <1>2, <1>3, <1>10 DEF Mark
<1> QED
  BY <1>1, <1>2, <1>4, <1>5, <1>6, <1>7, <1>8, <1>9, <1>10, RunSteps

\* The keep rules never forget the newest snapshot (ResticMaintenance.toForget).
LEMMA NewestIsKept ==
    ASSUME NEW ss, NEW s \in ss, \A t \in ss : ~(t.run > s.run)
    PROVE  s \notin ToForget(ss)
<1>1. Newer(s, ss) = {}
  BY DEF Newer
<1>2. {Day(t) : t \in Newer(s, ss)} = {}
  BY <1>1
<1>3. Cardinality(Newer(s, ss)) = 0 /\ Cardinality({Day(t) : t \in Newer(s, ss)}) = 0
  BY <1>1, <1>2, FS_EmptySet
<1>4. KeepLast # 0 \/ KeepDaily # 0 => s \in Kept(ss)
  BY <1>1, <1>3 DEF Kept
<1> QED
  BY <1>4 DEF ToForget

\* The run's snapshot has its files and stays.
LEMMA ScannedStep == ASSUME Inv, [Next]_vars PROVE Scanned'
<1> USE DEF Inv, about, writer
<1>1. CASE Quiet
  <2>1. UNCHANGED <<snapshots, clock, job, source, pc, todo, nodes, errors, outcome, forgetting>>
    BY <1>1 DEF Quiet, drive, prune
  <2> QED
    BY <2>1 DEF Scanned, Writing, Made, Own
<1>2. CASE pc # "idle" /\ pc' = "idle"
  BY <1>2 DEF Scanned, Writing, Made
<1>3. ASSUME NEW j \in Jobs, NEW files \in SUBSET Data, StartBackup(j, files) PROVE Scanned'
  BY <1>3 DEF StartBackup, WriterHolds, Scanned, Writing, Made
<1>4. ASSUME NEW o \in Outcomes, pc' # "idle", WriteLock(o) PROVE Scanned'
  BY <1>4 DEF WriteLock, Record, Reset, Scanned, Writing, Made
<1>5. ASSUME NEW d \in Data, FileUnchanged(d) \/ FileKnown(d) PROVE Scanned'
  BY <1>5 DEF FileUnchanged, FileKnown, Scanned, Writing, Made
<1>6. ASSUME NEW d \in Data, FileUnreadable(d) PROVE Scanned'
  BY <1>6 DEF FileUnreadable, Scanned, Writing, Made
<1>7. ASSUME NEW o \in Outcomes, NEW d \in Data, FileSaved(d, o) PROVE Scanned'
  <2>1. /\ pc = "files" /\ pc' = "files" /\ source' = source
        /\ d \in todo /\ todo' = todo \ {d}
        /\ nodes' = (IF o = "ok" THEN nodes \cup {d} ELSE nodes)
        /\ errors' = (errors \/ o # "ok")
    BY <1>7 DEF FileSaved
  <2> QED
    BY <2>1 DEF Scanned, Writing, Made
<1>8. CASE Cancel
  BY <1>8 DEF Cancel, Scanned, Writing, Made
<1>9. CASE SaveTree
  BY <1>9 DEF SaveTree, Scanned, Writing, Made
<1>10. ASSUME NEW o \in Outcomes, FlushPack(o) \/ WriteIndex(o) PROVE Scanned'
  <2>1. /\ pc \in {"flush", "index"} /\ UNCHANGED <<source, todo, nodes, errors>>
        /\ \/ pc' \in {"index", "snapshot"}
           \/ pc' = "unlock" /\ outcome' = "FAILED"
    BY <1>10 DEF FlushPack, WriteIndex, Then
  <2> QED
    BY <2>1 DEF Scanned, Writing, Made
<1>11. ASSUME NEW o \in Outcomes, WriteSnapshot(o) PROVE Scanned'
  <2>1. pc = "snapshot" /\ pc' = "unlock" /\ UNCHANGED <<clock, job, source, todo, nodes, errors>>
    BY <1>11 DEF WriteSnapshot, Then
  <2>2. CASE o = "ok"
    <3>1. Own' \in snapshots'
      BY <1>11, <2>1, <2>2 DEF WriteSnapshot, Put, Own
    <3> QED
      BY <2>1, <3>1 DEF Scanned, Writing, Made
  <2>3. CASE o # "ok"
    BY <1>11, <2>1, <2>3 DEF WriteSnapshot, Then, Scanned, Writing, Made
  <2> QED
    BY <2>2, <2>3
<1>12. CASE /\ Made /\ pc' \in {"retain", "mark", "newindex", "delete", "pruneunlock"}
            /\ UNCHANGED <<snapshots, clock, job, source, nodes, errors>>
  BY <1>12 DEF Scanned, Writing, Made, Own
<1>13. ASSUME NEW o \in Outcomes, pc' # "idle", Unlock(o) \/ PruneLock(o) PROVE Scanned'
  BY <1>12, <1>13 DEF Unlock, PruneLock, Record, Reset, Made
<1>14. ASSUME pc' # "idle", Retain PROVE Scanned'
  <2> DEFINE mine == {s \in snapshots : s.job = job}
  <2>1. /\ pc = "retain" /\ pc' = "forget" /\ forgetting' = ToForget(mine)
        /\ UNCHANGED <<snapshots, clock, job, source, nodes, errors>>
    BY <1>14 DEF Retain, Record, Reset, drive
  <2>2. Own \in mine
    BY <2>1 DEF Scanned, Made, Own
  <2>3. \A t \in mine : ~(t.run > Own.run)
    BY DEF Dated, Own, TypeInv, TypeOK, RunType, DriveType, Snapshots
  <2>4. Own \notin forgetting'
    BY <2>1, <2>2, <2>3, NewestIsKept
  <2> QED
    BY <2>1, <2>4 DEF Scanned, Writing, Made, Own
<1>15. ASSUME NEW o \in Outcomes, NEW s \in forgetting, pc' # "idle", Forget(s, o) PROVE Scanned'
  <2>1. /\ pc = "forget" /\ pc' = "forget" /\ snapshots' = snapshots \ {s}
        /\ forgetting' = forgetting \ {s}
        /\ UNCHANGED <<clock, job, source, nodes, errors>>
    BY <1>15 DEF Forget, Record, Reset, Remove
  <2> QED
    BY <2>1 DEF Scanned, Writing, Made, Own
<1>16. ASSUME NEW o \in Outcomes, Mark(o) PROVE Scanned'
  BY <1>12, <1>16 DEF Mark, drive, Made
<1>17. ASSUME NEW o \in Outcomes, NewIndex(o) PROVE Scanned'
  BY <1>12, <1>17 DEF NewIndex, PruneThen, Made
<1>18. ASSUME NEW o \in Outcomes, NEW i \in oldIndex, DropIndex(i, o) PROVE Scanned'
  BY <1>12, <1>18 DEF DropIndex, PruneThen, Made
<1>19. ASSUME NEW o \in Outcomes, NEW p \in drop, DropPack(p, o) PROVE Scanned'
  BY <1>12, <1>19 DEF DropPack, PruneThen, Made
<1> QED
  BY <1>1, <1>2, <1>3, <1>4, <1>5, <1>6, <1>7, <1>8, <1>9, <1>10, <1>11, <1>13, <1>14, <1>15, <1>16,
     <1>17, <1>18, <1>19, RunSteps

-----------------------------------------------------------------------------
(* The theorems.                                                            *)

\* The invariant holds of the empty repository.
LEMMA InitInv == Init => Inv
<1> SUFFICES ASSUME Init PROVE Inv
  OBVIOUS
<1>1. TypeInv
  BY InitType
<1>2. IndexesHold /\ SnapshotsComplete /\ MountedReads /\ PrunedClean
  BY DEF Init, IndexesHold, Indexed, SnapshotsComplete, MountedReads, PrunedClean
<1>3. NotTakenForDamaged
  BY DEF Init, NotTakenForDamaged
<1>4. SuccessIsWhole /\ Dated
  BY DEF Init, SuccessIsWhole, Dated
<1>5. WriterHolds /\ Scanned /\ PruneHolds
  BY DEF Init, WriterHolds, Scanned, PruneHolds, Writing, Made
<1>6. RunState
  BY DEF Init, RunState
<1> QED
  BY <1>1, <1>2, <1>3, <1>4, <1>5, <1>6 DEF Inv

\* Every step keeps the invariant.
LEMMA InvStep == Inv /\ [Next]_vars => Inv'
<1> SUFFICES ASSUME Inv, [Next]_vars PROVE Inv'
  OBVIOUS
<1>1. TypeInv'
  BY TypeStep DEF Inv
<1> QED
  BY <1>1, IndexesHoldStep, SnapshotsCompleteStep, MountedReadsStep, NotTakenForDamagedStep,
     SuccessIsWholeStep, PrunedCleanStep, DatedStep, RunStateStep, WriterHoldsStep, ScannedStep,
     PruneHoldsStep
  DEF Inv

\* The invariant always holds.
LEMMA Invariance == Spec => []Inv
  BY InitInv, InvStep, PTL DEF Spec

\* Each blob that a snapshot on the drive needs is in a pack on the drive that an index
\* names, whatever fails and whenever the process is killed (ResticWriter.backup, prune).
THEOREM SnapshotsStayComplete == Spec => []SnapshotsComplete
<1>1. Inv => SnapshotsComplete
  BY DEF Inv
<1> QED
  BY Invariance, <1>1, PTL

\* No index ever names a pack that is gone (ResticMaintenance.prune's order of deletion).
THEOREM IndexesStayTrue == Spec => []IndexesHold
<1>1. Inv => IndexesHold
  BY DEF Inv
<1> QED
  BY Invariance, <1>1, PTL

\* A reader mounted before backups and prunes finds every blob of every snapshot that is
\* still there, with the index it loaded once (ResticFileSystem).
THEOREM MountedReaderServed == Spec => []MountedReads
<1>1. Inv => MountedReads
  BY DEF Inv
<1> QED
  BY Invariance, <1>1, PTL

\* No run and no check takes the repository for a corrupted one (BackupRunner.check).
THEOREM NeverTakenForDamaged == Spec => []NotTakenForDamaged
<1>1. Inv => NotTakenForDamaged
  BY DEF Inv
<1> QED
  BY Invariance, <1>1, PTL

\* A run recorded as a success has left its snapshot with every file of its scan, even
\* after it forgot snapshots and pruned (BackupRunner.backup).
THEOREM SuccessMeansWhole == Spec => []SuccessIsWhole
<1>1. Inv => SuccessIsWhole
  BY DEF Inv
<1> QED
  BY Invariance, <1>1, PTL

\* After a run that pruned, every indexed pack is in use (ResticMaintenance.prune).
THEOREM PruneLeavesNoWaste == Spec => []PrunedClean
<1>1. Inv => PrunedClean
  BY DEF Inv
<1> QED
  BY Invariance, <1>1, PTL
=============================================================================
