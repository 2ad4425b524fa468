---------------------------- MODULE ExFatVolume ----------------------------
(***************************************************************************)
(* The files of a mounted exFAT volume: cluster allocation, the FAT, the    *)
(* allocation bitmap and the directory entries (app/src/main/cpp/exfat:     *)
(* cluster.c, io.c, node.c, mount.c, and the calls of ExFatNative.cpp).     *)
(*                                                                          *)
(* libexfat keeps the bitmap and one node per file in memory.  Cluster      *)
(* links and data go to the drive at once, entries and bitmap only in a     *)
(* flush, so at any write the drive holds a mixture of old and new.         *)
(*                                                                          *)
(* ExFatFileSystem's lock serialises the native calls; what is hard is      *)
(* inside one call, where any device write may fail and the call returns    *)
(* with its memory half changed.  A call is the sequence todo of what it    *)
(* still has to do: each of its device writes is one step, and so is each   *)
(* piece of its own work between two of them.                               *)
(*                                                                          *)
(* Sizes are whole clusters.  All files are in the root, whose entries are  *)
(* written in place; the clusters of directories are left out.  The data    *)
(* of a file is told apart by its place: <<f, i>> is what clients write at  *)
(* position i of f.                                                         *)
(***************************************************************************)
EXTENDS Integers, Sequences, FiniteSets, SequencesExt

CONSTANTS
    Files,
    ClusterCount,
    MaxSize,    \* bound on the size of a file
    MaxWrite,   \* clusters one write call covers at most
    MaxRun,     \* OTG_MAX_WRITE_RUN: clusters one device write covers at most
    MaxCalls,   \* bound on the calls from a mount on
    Lengths,    \* the lengths clients set
    Fails,      \* kinds of device writes that may fail
    Zero, Junk  \* an erased cluster, and what free space holds at first

First    == 2                     \* EXFAT_FIRST_DATA_CLUSTER
Clusters == First .. First + ClusterCount - 1
FREE     == 0                     \* EXFAT_CLUSTER_FREE
END      == First + ClusterCount + 1

NoFile   == "none"

ASSUME VolumeAssumption ==
    /\ ClusterCount \in Nat \ {0} /\ MaxRun \in Nat \ {0}
    /\ MaxSize \in 0 .. ClusterCount + 1 /\ MaxWrite \in 0 .. MaxSize
    /\ MaxCalls \in Nat
    /\ Lengths \subseteq 0 .. MaxSize
    /\ Fails \subseteq {"fat", "erase", "data", "entry", "bitmap"}
    /\ Zero # Junk /\ Zero \notin Files \X Nat
    /\ IsFiniteSet(Files) /\ NoFile \notin Files

VARIABLES
    node,       \* struct exfat_node of each file
    cmap,       \* the bitmap in memory: clusters in use
    cmapDirty,
    todo,       \* what the call in progress still has to do
    file,       \* the file it is about
    fat,        \* drive: the FAT
    bitmap,     \* drive: the allocation bitmap
    entry,      \* drive: directory entries
    data,       \* drive: what the clusters hold
    torn,       \* history: files a write of whose links, or an erasure, has failed
    want,       \* history: what each place of a file may read as
    calls,      \* calls begun, for the bound
    failed,     \* history: a write of the call in progress has failed
    safe        \* history: files flushed since they were last changed

disk == <<fat, bitmap, entry, data, torn>>
vars == <<node, cmap, cmapDirty, todo, file, disk, calls, want, failed, safe>>

Invalid(c) == c \notin Clusters   \* CLUSTER_INVALID

\* A node: state says whether it is in the tree, unlinked with its memory still
\* there, or gone; at and ptr are fptr_index and fptr_cluster.
NoNode == [state |-> "none", start |-> FREE, contiguous |-> FALSE,
           size |-> 0, valid |-> 0, dirty |-> FALSE, at |-> 0, ptr |-> FREE]

NoEntry == [there |-> FALSE, start |-> FREE, contiguous |-> FALSE, size |-> 0, valid |-> 0]

\* Mutant: an empty file keeps the flag of its last contiguous allocation.
EntryOfKeepsFlag(nd) ==
    [there |-> TRUE, start |-> nd.start, contiguous |-> nd.contiguous,
     size |-> nd.size, valid |-> nd.valid]

\* The entry flush_node writes for a node.
EntryOf(nd) ==
    [there |-> TRUE, start |-> nd.start, contiguous |-> nd.size # 0 /\ nd.contiguous,
     size |-> nd.size, valid |-> nd.valid]

\* init_node_meta2: the node of an entry.
NodeOf(e) ==
    IF ~e.there THEN NoNode
    ELSE [NoNode EXCEPT !.state = "linked", !.start = e.start, !.contiguous = e.contiguous,
                        !.size = e.size, !.valid = e.valid, !.ptr = e.start]

\* check_node: what a directory's reader accepts.
CheckNode(e) ==
    /\ e.valid <= e.size
    /\ e.size = 0 => e.start = FREE /\ ~e.contiguous
    /\ e.size > 0 => ~Invalid(e.start)
    /\ e.size <= ClusterCount

\* The volumes the app mounts: files with disjoint chains, marked contiguous where the
\* entry says so and linked in the FAT where it does not.
Chains == {s \in SeqOf(Clusters, MaxSize) : IsInjective(s)}

IsContiguous(s) == s # <<>> /\ \A i \in DOMAIN s : s[i] = s[1] + i - 1

VolumeHolds(files, chain, contiguous) ==
    /\ \A f, g \in Files : f # g => Range(chain[f]) \cap Range(chain[g]) = {}
    /\ \A f \in Files : f \notin files => chain[f] = <<>>
    /\ contiguous \subseteq {f \in files : IsContiguous(chain[f])}
    /\ bitmap = UNION {Range(chain[f]) : f \in Files}
    /\ entry = [f \in Files |->
                  [there |-> f \in files, start |-> IF chain[f] = <<>> THEN FREE ELSE chain[f][1],
                   contiguous |-> f \in contiguous, size |-> Len(chain[f]), valid |-> Len(chain[f])]]
    /\ fat = [c \in Clusters |->
                LET f == {g \in Files \ contiguous : c \in Range(chain[g])} IN
                IF f = {} THEN FREE
                ELSE LET s == chain[CHOOSE g \in f : TRUE]
                         i == CHOOSE j \in DOMAIN s : s[j] = c
                     IN  IF i = Len(s) THEN END ELSE s[i + 1]]
    /\ data = [c \in Clusters |->
                LET f == {g \in Files : c \in Range(chain[g])} IN
                IF f = {} THEN Junk
                ELSE LET g == CHOOSE h \in f : TRUE
                     IN  <<g, (CHOOSE j \in DOMAIN chain[g] : chain[g][j] = c) - 1>>]

Init ==
    /\ \E files, contiguous \in SUBSET Files, chain \in [Files -> Chains] :
          VolumeHolds(files, chain, contiguous) /\ safe = files
    /\ node = [f \in Files |-> NodeOf(entry[f])]
    /\ cmap = bitmap /\ cmapDirty = FALSE
    /\ todo = <<>> /\ file = NoFile
    /\ want = [f \in Files |-> [i \in 1 .. entry[f].size |-> {"own"}]]
    /\ failed = FALSE /\ torn = {}
    /\ calls = 0

-----------------------------------------------------------------------------
(* Following a file's clusters.                                             *)

\* exfat_next_cluster.  What lies behind the FAT is no valid cluster here.
NextCluster(nd, c) ==
    IF nd.contiguous THEN c + 1 ELSE IF Invalid(c) THEN END ELSE fat[c]

\* Where exfat_advance_cluster starts: at the remembered place, unless it is too far on.
From(nd, count) == IF nd.at > count THEN [at |-> 0, ptr |-> nd.start] ELSE [at |-> nd.at, ptr |-> nd.ptr]

\* exfat_advance_cluster: the cluster at place count.
Advance(nd, count) ==
    LET from == From(nd, count)
        walk[i \in from.at .. count] ==
            IF i = from.at THEN from.ptr
            ELSE IF i > from.at + 1 /\ Invalid(walk[i - 1]) THEN walk[i - 1]
            ELSE NextCluster(nd, walk[i - 1])
    IN  walk[count]

\* It calls exfat_bug, which aborts, when it has to go on from no cluster.
AdvanceBugs(nd, count) ==
    LET from == From(nd, count) IN from.at < count /\ from.ptr < First

Moved(nd, count) == [nd EXCEPT !.at = count, !.ptr = Advance(nd, count)]

\* allocate_cluster: the first free cluster from the hint on, around the end; END if
\* there is none.
Allocate(hint) ==
    LET free  == Clusters \ cmap
        h     == IF hint \in Clusters THEN hint ELSE First
        after == {c \in free : c >= h}
    IN  IF after # {} THEN Min(after) ELSE IF free # {} THEN Min(free) ELSE END

-----------------------------------------------------------------------------
(* A call in progress is what it still has to do.                           *)

Idle     == todo = <<>>
Doing(k) == todo # <<>> /\ Head(todo).k = k
Now      == Head(todo)
Nd       == node[file]

\* A caught error that did not happen is passed by.
PastCatch(t) ==
    LET on == {i \in DOMAIN t : t[i].k # "catch"}
    IN  IF on = {} THEN <<>> ELSE SubSeq(t, Min(on), Len(t))

\* The call goes on with the stages t.
Continue(t) ==
    /\ todo' = PastCatch(t)
    /\ file' = IF todo' = <<>> THEN NoFile ELSE file

Goto(stages)  == Continue(stages \o Tail(todo))
SetNode(nd)   == node' = [node EXCEPT ![file] = nd]

\* The call, or the part of it whose result its caller ignores, returns an error.
Bail ==
    LET catches == {i \in DOMAIN todo : todo[i].k = "catch"}
    IN  Continue(IF catches = {} THEN <<>> ELSE SubSeq(todo, Min(catches) + 1, Len(todo)))

Abort == Continue(<<[k |-> "abort"]>>)     \* exfat_bug

Memory  == <<node, cmap, cmapDirty>>
History == <<calls, want, failed, safe>>

Catch == <<[k |-> "catch"]>>

\* set_next_cluster
SetNext(contiguous, c, next) == IF contiguous THEN <<>> ELSE <<[k |-> "fat", c |-> c, next |-> next]>>

\* exfat_flush_nodes, in the order of the tree.
FlushNodes(order) == [i \in DOMAIN order |-> [k |-> "flushNode", f |-> order[i]]]

\* reset_cache, which flushes each node that is still dirty whatever became of the others.
FlushEach(order) ==
    [i \in 1 .. 2 * Len(order) |->
        IF i % 2 = 1 THEN [k |-> "flushNode", f |-> order[(i + 1) \div 2]] ELSE [k |-> "catch"]]

Linked == {f \in Files : node[f].state = "linked"}

\* A native call begins; it changes the files fs.
Call(f, stages, fs) ==
    /\ Idle /\ calls < MaxCalls
    /\ calls' = calls + 1
    /\ file' = f
    /\ todo' = PastCatch(stages)
    /\ failed' = FALSE
    /\ safe' = safe \ fs
    /\ UNCHANGED <<disk, want>>

-----------------------------------------------------------------------------
(* The calls of ExFatNative.                                                *)

\* createFile: exfat_mknod.  commit_entry writes the entry and makes the node.
CreateFile(f) ==
    /\ node[f].state = "none"
    /\ Call(f, <<[k |-> "entry", f |-> f, e |-> EntryOf(NoNode)], [k |-> "attach"]>>, {f})
    /\ UNCHANGED Memory

\* readFile: exfat_generic_pread of place i, which it refuses when the chain does not reach there.
ReadFile(f, i) ==
    /\ node[f].state = "linked" /\ i < node[f].valid
    /\ IF AdvanceBugs(node[f], i) THEN Call(f, <<[k |-> "abort"]>>, {}) ELSE Call(NoFile, <<>>, {})
    /\ node' = [node EXCEPT ![f] = IF Invalid(Advance(@, i)) THEN Moved(@, i)
                                   ELSE [Moved(@, i) EXCEPT !.dirty = TRUE]]
    /\ UNCHANGED <<cmap, cmapDirty>>

\* writeFile: exfat_generic_pwrite of n clusters at place i.  (A write through a handle whose file
\* has been deleted is left out.)
WriteFile(f, i, n) ==
    /\ node[f].state = "linked" /\ i + n <= MaxSize
    /\ Call(f,    (IF i > node[f].size THEN <<[k |-> "truncate", to |-> i, erase |-> TRUE]>> ELSE <<>>)
               \o (IF i + n > node[f].size THEN <<[k |-> "truncate", to |-> i + n, erase |-> FALSE]>> ELSE <<>>)
               \o <<[k |-> "locate", i |-> i, n |-> n]>>, {f})
    /\ UNCHANGED Memory

\* setLength: exfat_truncate
SetLength(f, n) ==
    /\ node[f].state = "linked"
    /\ Call(f, <<[k |-> "truncate", to |-> n, erase |-> FALSE]>>, {f})
    /\ UNCHANGED Memory

\* deleteNode: exfat_unlink, and the clusters are freed at once.  An error of that is
\* logged and ignored.
DeleteNode(f) ==
    /\ node[f].state = "linked"
    /\ Call(f, <<[k |-> "entry", f |-> f, e |-> NoEntry], [k |-> "unlink"]>>, {f})
    /\ UNCHANGED Memory

\* Its entry is erased: tree_detach, is_unlinked, and deleteNode goes on.
Unlink ==
    /\ Doing("unlink")
    /\ SetNode([Nd EXCEPT !.state = "unlinked"])
    /\ want' = [want EXCEPT ![file] = <<>>]
    /\ Goto(<<[k |-> "truncate", to |-> 0, erase |-> TRUE]>> \o Catch \o <<[k |-> "unmark"]>>)
    /\ UNCHANGED <<cmap, cmapDirty, disk, calls, failed, safe>>

\* putNode: the last reference to an unlinked node; exfat_cleanup_node.
PutNode(f) ==
    /\ node[f].state = "unlinked"
    /\ Call(f, <<[k |-> "truncate", to |-> 0, erase |-> TRUE]>> \o Catch \o <<[k |-> "freeNode"]>>, {f})
    /\ UNCHANGED Memory

\* flush: the results of exfat_flush_nodes and exfat_flush are ignored.
Flush ==
    /\ \E order \in SetToSeqs(Linked) :
         Call(NoFile, FlushNodes(order) \o Catch \o <<[k |-> "flushMap"]>> \o Catch \o <<[k |-> "flushed"]>>, {})
    /\ UNCHANGED Memory

\* ExFatFileSystem.unmount: flush, then exfat_unmount with its own flush, the one of
\* reset_cache for nodes that are still dirty, and that of the bitmap.
Unmount ==
    /\ \E order \in SetToSeqs(Linked) :
         Call(NoFile,    FlushNodes(order) \o Catch \o <<[k |-> "flushMap"]>> \o Catch
                    \o FlushNodes(order) \o Catch
                    \o FlushEach(order)
                    \o <<[k |-> "flushMap"]>> \o Catch \o <<[k |-> "flushed"], [k |-> "unmounted"]>>, {})
    /\ UNCHANGED Memory

\* exfat_mount, after an unmount none of whose writes failed: what reads of the
\* directory accept becomes the nodes.
Mount ==
    /\ Doing("unmounted") /\ ~failed
    /\ IF \A f \in Files : entry[f].there => CheckNode(entry[f])
       THEN /\ node' = [f \in Files |-> NodeOf(entry[f])]
            /\ cmap' = bitmap /\ cmapDirty' = FALSE
            /\ Continue(<<>>)
       ELSE /\ Continue(<<[k |-> "refused"]>>)
            /\ UNCHANGED Memory
    /\ UNCHANGED <<disk, History>>

-----------------------------------------------------------------------------
(* exfat_truncate                                                           *)

DoTruncate ==
    LET to == Now.to
        by == IF Nd.size < to THEN to - Nd.size ELSE Nd.size - to
    IN
    /\ Doing("truncate")
    /\ Goto(IF Nd.size = to THEN <<>>
            ELSE <<[k |-> IF Nd.size < to THEN "grow" ELSE "shrink", cur |-> Nd.size, diff |-> by]>>
                 \o (IF Now.erase THEN <<[k |-> "eraseRange", end |-> to]>> ELSE <<>>)
                 \o <<[k |-> "setSize", to |-> to, erase |-> Now.erase]>>)
    /\ UNCHANGED <<Memory, disk, History>>

Least(a, b) == IF a < b THEN a ELSE b

\* Mutant: what is valid is not cut with the size.
ResizedKeepsValid(nd, to, erase) ==
    [nd EXCEPT !.valid = IF erase THEN to ELSE @, !.size = to, !.dirty = TRUE]

Resized(nd, to, erase) ==
    [nd EXCEPT !.valid = IF erase THEN to ELSE Least(@, to), !.size = to, !.dirty = TRUE]

SetSize ==
    /\ Doing("setSize")
    /\ SetNode(Resized(Nd, Now.to, Now.erase))
    /\ want' = [want EXCEPT ![file] = [i \in 1 .. Now.to |-> IF i <= Len(@) THEN @[i] ELSE {"zero"}]]
    /\ Goto(<<>>)
    /\ UNCHANGED <<cmap, cmapDirty, disk, calls, failed, safe>>

\* erase_range: from the end of what is valid.  A chain that ends behind the first cluster it
\* erases is a bug to it.
EraseRange ==
    LET begin == Nd.valid
        chain == [i \in begin .. Now.end - 1 |-> Advance(Nd, i)]
        stage(c) == IF Invalid(c) THEN [k |-> "abort"] ELSE [k |-> "erase", c |-> c]
    IN
    /\ Doing("eraseRange")
    /\ IF begin >= Now.end THEN Goto(<<>>) /\ UNCHANGED node
       ELSE /\ SetNode(Moved(Nd, begin))
            /\ IF AdvanceBugs(Nd, begin) THEN Abort
               ELSE IF Invalid(chain[begin]) THEN Bail
               ELSE Goto([j \in 1 .. Now.end - begin |-> stage(chain[begin + j - 1])])
    /\ UNCHANGED <<cmap, cmapDirty, disk, History>>

-----------------------------------------------------------------------------
(* grow_file                                                                *)

\* Mutant: the bitmap is not marked as changed.
TakeUnmarked(c) == cmap' = cmap \cup {c} /\ UNCHANGED cmapDirty

\* A cluster found by allocate_cluster is in use from now on.
Take(c) == cmap' = cmap \cup {c} /\ cmapDirty' = TRUE

\* current - 1 in 32 bits: of no clusters, a place behind all the volume has.
LastPlace(cur) == IF cur = 0 THEN ClusterCount + 2 ELSE cur - 1

\* How it finds the last cluster of the file, or gives it a first one.
GrowStart ==
    LET first == Allocate(First)
        loop(prev, got) == <<[k |-> "growLoop", prev |-> prev, cur |-> Now.cur, left |-> Now.diff - got, got |-> got]>>
    IN
    /\ Doing("grow")
    /\ IF Nd.start # FREE
       THEN /\ SetNode(Moved(Nd, LastPlace(Now.cur)))
            /\ IF AdvanceBugs(Nd, LastPlace(Now.cur)) THEN Abort
               ELSE IF Invalid(Advance(Nd, LastPlace(Now.cur))) THEN Bail
               ELSE Goto(loop(Advance(Nd, LastPlace(Now.cur)), 0))
            /\ UNCHANGED <<cmap, cmapDirty>>
       ELSE IF Nd.at # 0 THEN Abort /\ UNCHANGED Memory
       ELSE IF Invalid(first) THEN Bail /\ UNCHANGED Memory
       ELSE /\ SetNode([Nd EXCEPT !.start = first, !.ptr = first, !.contiguous = TRUE])
            /\ Take(first)
            /\ Goto(loop(first, 1))
    /\ UNCHANGED <<disk, History>>

\* Mutant: only the last cluster is linked, the contiguous part before it is not.
LinkNextOnly(prev, next) ==
    IF next # prev + 1 /\ Nd.contiguous
    THEN <<[k |-> "noncontiguous"], [k |-> "fat", c |-> prev, next |-> next]>>
    ELSE SetNext(Nd.contiguous, prev, next)

\* What has to be written to link next behind prev, and with it the whole of a file
\* that was contiguous and no longer is (make_noncontiguous).
LinkNext(prev, next) ==
    IF next # prev + 1 /\ Nd.contiguous
    THEN    [j \in 1 .. prev - Nd.start |->
               [k |-> "fat", c |-> Nd.start + j - 1, next |-> Nd.start + j]]
         \o <<[k |-> "noncontiguous"], [k |-> "fat", c |-> prev, next |-> next]>>
    ELSE SetNext(Nd.contiguous, prev, next)

\* Mutant: what was allocated stays allocated.
NoneLeftKeeps(cur, got) == <<[k |-> "fail"]>>

\* The volume is full: shrink_file takes back what was allocated.
NoneLeft(cur, got) ==
    (IF got = 0 THEN <<>> ELSE <<[k |-> "shrink", cur |-> cur + got, diff |-> got]>>) \o <<[k |-> "fail"]>>

\* One more cluster.
GrowLoop ==
    LET next == Allocate(Now.prev + 1) IN
    /\ Doing("growLoop")
    /\ IF Now.left = 0
       THEN Goto(SetNext(Nd.contiguous, Now.prev, END)) /\ UNCHANGED <<cmap, cmapDirty>>
       ELSE IF Invalid(next)
       THEN Goto(NoneLeft(Now.cur, Now.got)) /\ UNCHANGED <<cmap, cmapDirty>>
       ELSE /\ Take(next)
            /\ Goto(LinkNext(Now.prev, next)
                    \o <<[Now EXCEPT !.prev = next, !.left = @ - 1, !.got = @ + 1]>>)
    /\ UNCHANGED <<node, disk, History>>

Noncontiguous ==
    /\ Doing("noncontiguous")
    /\ SetNode([Nd EXCEPT !.contiguous = FALSE, !.dirty = TRUE])
    /\ Goto(<<>>)
    /\ UNCHANGED <<cmap, cmapDirty, disk, History>>

\* grow_file returns -ENOSPC.
NoSpace ==
    /\ Doing("fail")
    /\ Bail
    /\ UNCHANGED <<Memory, disk, History>>

-----------------------------------------------------------------------------
(* shrink_file                                                              *)

\* The chain is cut behind the part that stays.
ShrinkStart ==
    LET keep == Now.cur - Now.diff
        last == Advance(Nd, keep - 1)
    IN
    /\ Doing("shrink")
    /\ IF Nd.start = FREE THEN Abort /\ UNCHANGED node
       ELSE IF keep > 0
       THEN /\ SetNode(Moved(Nd, keep - 1))
            /\ IF AdvanceBugs(Nd, keep - 1) THEN Abort
               ELSE IF Invalid(last) THEN Bail
               ELSE Goto(SetNext(Nd.contiguous, last, END)
                         \o <<[k |-> "rewind", c |-> NextCluster(Nd, last), left |-> Now.diff]>>)
       ELSE /\ SetNode([Nd EXCEPT !.start = FREE, !.dirty = TRUE])
            /\ Goto(<<[k |-> "rewind", c |-> Nd.start, left |-> Now.diff]>>)
    /\ UNCHANGED <<cmap, cmapDirty, disk, History>>

\* Mutant: the remembered place is kept.
RewoundKeepsIndex(nd) == [nd EXCEPT !.ptr = nd.start]

Rewound(nd) == [nd EXCEPT !.at = 0, !.ptr = nd.start]

Rewind ==
    /\ Doing("rewind")
    /\ SetNode(Rewound(Nd))
    /\ Goto(<<[Now EXCEPT !.k = "free"]>>)
    /\ UNCHANGED <<cmap, cmapDirty, disk, History>>

\* One turn of its loop: the cluster's link is reset on the drive, then it is free.
FreeLoop ==
    /\ Doing("free")
    /\ IF Now.left = 0 THEN Goto(<<>>)
       ELSE IF Invalid(Now.c) THEN Bail
       ELSE Goto(SetNext(Nd.contiguous, Now.c, FREE)
                 \o <<[k |-> "clear", c |-> Now.c],
                      [Now EXCEPT !.c = NextCluster(Nd, Now.c), !.left = @ - 1]>>)
    /\ UNCHANGED <<Memory, disk, History>>

\* free_cluster
FreeCluster ==
    /\ Doing("clear")
    /\ cmap' = cmap \ {Now.c} /\ cmapDirty' = TRUE
    /\ Goto(<<>>)
    /\ UNCHANGED <<node, disk, History>>

-----------------------------------------------------------------------------
(* exfat_generic_pwrite, once the file is large enough                      *)

Locate ==
    /\ Doing("locate")
    /\ SetNode(Moved(Nd, Now.i))
    /\ IF AdvanceBugs(Nd, Now.i) THEN Abort
       ELSE Goto(<<[k |-> "write", c |-> Advance(Nd, Now.i), i |-> Now.i, n |-> Now.n, from |-> Now.i]>>)
    /\ UNCHANGED <<cmap, cmapDirty, disk, History>>

\* How many clusters from c on, of n, one device write covers: consecutive ones.
Run(c, n) ==
    LET along[j \in 0 .. n] == IF j = 0 THEN c ELSE NextCluster(Nd, along[j - 1])
    IN  Max({r \in 1 .. Least(n, MaxRun) :
                \A j \in 1 .. r - 1 : ~Invalid(along[j]) /\ along[j] = c + j})

\* One turn of the write loop; behind it, exfat_update_mtime.
WriteLoop ==
    LET r == Run(Now.c, Now.n) IN
    /\ Doing("write")
    /\ IF Now.n = 0
       THEN SetNode([Nd EXCEPT !.dirty = TRUE]) /\ Goto(<<>>)
       ELSE /\ UNCHANGED node
            /\ IF Invalid(Now.c) THEN Bail
               ELSE Goto(<<[Now EXCEPT !.k = "data", !.n = r],
                           [Now EXCEPT !.c = NextCluster(Nd, @ + r - 1), !.i = @ + r, !.n = @ - r]>>)
    /\ UNCHANGED <<cmap, cmapDirty, disk, History>>

-----------------------------------------------------------------------------
(* Flushing, and the ends of calls                                          *)

\* exfat_flush_node, up to its write.
FlushNode ==
    LET f == Now.f IN
    /\ Doing("flushNode")
    /\ Goto(IF node[f].dirty THEN <<[k |-> "entry", f |-> f, e |-> EntryOf(node[f])],
                                    [k |-> "clean", f |-> f], [k |-> "flushMap"]>>
            ELSE <<>>)
    /\ UNCHANGED <<Memory, disk, History>>

Clean ==
    /\ Doing("clean")
    /\ node' = [node EXCEPT ![Now.f].dirty = FALSE]
    /\ Goto(<<>>)
    /\ UNCHANGED <<cmap, cmapDirty, disk, History>>

\* exfat_flush
FlushMap ==
    /\ Doing("flushMap")
    /\ Goto(IF cmapDirty THEN <<[k |-> "bitmap"]>> ELSE <<>>)
    /\ UNCHANGED <<Memory, disk, History>>

\* commit_entry's node and tree_attach; the end of deleteNode; free(node).
NodeStep ==
    /\ \/ Doing("attach")   /\ SetNode([NoNode EXCEPT !.state = "linked"])
       \/ Doing("unmark")   /\ SetNode([Nd EXCEPT !.dirty = FALSE])
       \/ Doing("freeNode") /\ SetNode(NoNode)
    /\ Goto(<<>>)
    /\ UNCHANGED <<cmap, cmapDirty, disk, History>>

\* The end of a flush; the call returns 0 whether or not a write failed.
FlushDone ==
    /\ Doing("flushed")
    /\ safe' = IF failed THEN safe ELSE Linked
    /\ Goto(<<>>)
    /\ UNCHANGED <<Memory, disk, calls, want, failed>>

-----------------------------------------------------------------------------
(* The writes to the drive                                                  *)

\* The clusters and places of a data write, and what it leaves in them.
Places    == Now.i .. Now.i + Now.n - 1
Written(n) == [c \in Clusters |-> IF c \in Now.c .. Now.c + n - 1
                                  THEN <<file, Now.i + (c - Now.c)>> ELSE data[c]]

DeviceWrites ==
    /\ \/ Doing("fat")    /\ fat' = [fat EXCEPT ![Now.c] = Now.next]
                          /\ UNCHANGED <<Memory, bitmap, entry, data, want>>
       \/ Doing("erase")  /\ data' = [data EXCEPT ![Now.c] = Zero]
                          /\ UNCHANGED <<Memory, fat, bitmap, entry, want>>
       \/ Doing("entry")  /\ entry' = [entry EXCEPT ![Now.f] = Now.e]
                          /\ UNCHANGED <<Memory, fat, bitmap, data, want>>
       \/ Doing("bitmap") /\ bitmap' = cmap /\ cmapDirty' = FALSE
                          /\ UNCHANGED <<node, cmap, fat, entry, data, want>>
       \/ Doing("data")   /\ data' = Written(Now.n)
                          /\ SetNode([Nd EXCEPT !.valid = Max({@, Now.i + Now.n})])
                          /\ want' = [want EXCEPT ![file] = [j \in DOMAIN @ |->
                                        IF j - 1 \in Places THEN {"own"} ELSE @[j]]]
                          /\ UNCHANGED <<cmap, cmapDirty, fat, bitmap, entry>>
    /\ Goto(<<>>)
    /\ UNCHANGED <<torn, calls, failed, safe>>

Anything == {"own", "zero", "junk"}

\* A write fails, and with it the call.  Of a data write the first clusters may have
\* been stored; nothing more is known of what the call was to write, or of what was not valid before.
DeviceFails ==
    /\ todo # <<>> /\ Now.k \in Fails
    /\ IF Now.k = "data"
       THEN /\ \E n \in 0 .. Now.n : data' = Written(n)
            /\ want' = [want EXCEPT ![file] = [j \in DOMAIN @ |->
                          IF j - 1 \in Now.from .. Now.i + Now.n - 1 \/ j > Nd.valid THEN Anything ELSE @[j]]]
       ELSE UNCHANGED <<data, want>>
    /\ torn' = IF Now.k \in {"fat", "erase"} THEN torn \cup {file} ELSE torn
    /\ Bail
    /\ failed' = (todo' # <<>>)
    /\ UNCHANGED <<Memory, fat, bitmap, entry, calls, safe>>

Next ==
    \/ \E f \in Files : CreateFile(f) \/ DeleteNode(f) \/ PutNode(f)
    \/ \E f \in Files, i \in 0 .. MaxSize - 1 : ReadFile(f, i)
    \/ \E f \in Files, i \in 0 .. MaxSize, n \in 1 .. MaxWrite : WriteFile(f, i, n)
    \/ \E f \in Files, n \in Lengths : SetLength(f, n)
    \/ Unlink \/ Flush \/ Unmount \/ Mount
    \/ DoTruncate \/ SetSize \/ EraseRange
    \/ GrowStart \/ GrowLoop \/ Noncontiguous \/ NoSpace
    \/ ShrinkStart \/ Rewind \/ FreeLoop \/ FreeCluster
    \/ Locate \/ WriteLoop
    \/ FlushNode \/ Clean \/ FlushMap \/ NodeStep \/ FlushDone
    \/ DeviceWrites \/ DeviceFails

Spec == Init /\ [][Next]_vars

-----------------------------------------------------------------------------
(* Properties.                                                              *)

(* The shape of the state: nodes, entries and bitmaps name clusters of the  *)
(* volume, and sizes stay within their bound.                               *)
TypeOK ==
    /\ \A f \in Files :
         /\ node[f].state \in {"none", "linked", "unlinked"}
         /\ node[f].start \in Clusters \cup {FREE}
         /\ node[f].size \in 0 .. MaxSize /\ node[f].valid \in 0 .. node[f].size
         /\ entry[f].start \in Clusters \cup {FREE}
         /\ Len(want[f]) \in 0 .. MaxSize
    /\ cmap \subseteq Clusters /\ bitmap \subseteq Clusters
    /\ fat \in [Clusters -> Clusters \cup {FREE, END}]
    /\ file \in Files \cup {NoFile} /\ safe \subseteq Files /\ torn \subseteq Files
    /\ failed \in BOOLEAN /\ cmapDirty \in BOOLEAN

\* What a client reads at place i of f, by the node or by the entry it would get.
Reads(nd, f, i) ==
    LET c == Advance(nd, i) IN
    IF i >= nd.valid THEN "zero"
    ELSE IF Invalid(c) THEN "junk"
    ELSE IF data[c] = <<f, i>> THEN "own"
    ELSE IF data[c] = Zero THEN "zero" ELSE "junk"

Chain(nd) == {Advance([nd EXCEPT !.at = 0, !.ptr = nd.start], i) : i \in 0 .. nd.size - 1}

\* As long as no write of a link and no erasure has failed: between calls every place of
\* every file reads as what was last written there, or as zero.  No other file, no rollback,
\* no failed write of data, an entry or the bitmap and no stale file pointer changes it
\* (exfat_advance_cluster, grow_file, shrink_file, exfat_generic_pwrite).
ContentKept ==
    Idle /\ torn = {} => \A f \in Linked :
        /\ Len(want[f]) = node[f].size
        /\ \A i \in 0 .. node[f].size - 1 : Reads(node[f], f, i) \in want[f][i + 1]

\* As long as no write of a link and no erasure has failed: between calls the clusters
\* marked used in memory are exactly those of the files, each of one file.  Nothing is lost
\* and nothing is given out twice (allocate_cluster, free_cluster, the rollback of
\* grow_file, deleteNode's truncate).
SpaceAccounted ==
    Idle /\ torn = {} =>
        /\ \A f \in Files : Cardinality(Chain(node[f])) = node[f].size
        /\ \A f, g \in Files : f # g => Chain(node[f]) \cap Chain(node[g]) = {}
        /\ cmap = UNION {Chain(node[f]) : f \in Files}

\* As long as no write of a link and no erasure has failed: a file that was flushed without
\* an error, and not changed since, is on the drive at every moment of whatever else is going on: if the drive is pulled now, its entry and
\* the FAT lead to its data, and the bitmap on the drive has its clusters in use.
FlushedSurvives ==
    torn = {} => \A f \in safe :
        LET nd == NodeOf(entry[f]) IN
        /\ entry[f].there /\ nd.size = Len(want[f])
        /\ Chain(nd) \subseteq bitmap
        /\ \A i \in 0 .. nd.size - 1 : Reads(nd, f, i) \in want[f][i + 1]

\* No entry on the drive is one that check_node refuses, except that of a file a link or an
\* erasure of which could not be written (it may show a size without a start, or a start
\* without a size): one such entry makes its whole directory, and for the root the volume,
\* unreadable.
EntriesReadable == \A f \in Files \ torn : entry[f].there => CheckNode(entry[f])

\* No call ends in exfat_bug, which aborts the app, unless it is about a file a link or an
\* erasure of which could not be written: no other file is shrunk that has no clusters, no
\* place is looked for behind none, a file without clusters has no remembered place, and the
\* clusters just allocated are there (the checks of grow_file, shrink_file, erase_range and
\* exfat_next_cluster).  A file broken by such a failure does not take the app down through
\* the calls on another.
NeverAborts == Doing("abort") => file \in torn

=============================================================================
