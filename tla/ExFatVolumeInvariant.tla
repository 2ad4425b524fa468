------------------------ MODULE ExFatVolumeInvariant ------------------------
\* The inductive invariants of ExFatVolume that ExFatVolumeProofs rests on.
\*
\* The inductive invariant Inv says that there is an assignment of
\* clusters to files (ch[f][i] is the cluster at place i of f, own[f] the
\* places f has) for which
\*   - the bitmap in memory marks the assigned clusters, each assigned
\*     once (Owned);
\*   - a file no call works on has as many clusters as its size says, its
\*     start and its links lead through them in order, its remembered
\*     cluster is the one at the remembered place, and a clean node is
\*     what its entry says (Quiet);
\*   - the file a call works on is in the state the call's current stage
\*     expects, and the stages behind it expect what that one leaves
\*     (Busy: one At predicate per stage);
\*   - every entry is readable, and a clean bitmap is the one on the drive.
\* It holds until a write of the FAT or an erasure fails (Whole), which may
\* break it for good.
\* A grow, a shrink or a change from contiguous to linked is not atomic:
\* Looping, Spreading, Shrinking, Rewinding, Freeing and Erasing say what
\* is true of the chain, the bitmap and the table between two of its
\* writes.
\*
\* ContentInv adds, for the same assignment (Content), that
\*   - the valid places of a file hold what the history says they may read
\*     as (Stored);
\*   - anything may be read of the places behind them, unless the write in
\*     progress is about to write them (Unwritten, Coming);
\*   - so it may of the places a clean node or a flushed file has valid
\*     and its entry has not, unless the write in progress has just
\*     written them (Recorded, Done);
\*   - a flushed file is not in work, its entry is what its node says, and
\*     its clusters are marked in the bitmap on the drive (Saved).
EXTENDS ExFatVolume

\* A finite sequence, whatever its elements are.
Listed(t) == t \in Seq({t[i] : i \in DOMAIN t})

\* Every entry on the drive is one that check_node accepts.
Readable == \A f \in Files : entry[f].there => CheckNode(entry[f])

\* No caller in t takes up a failure (see PastCatch).
NoCatch(t) == \A i \in DOMAIN t : t[i].k # "catch"

\* A node of the tree: the numbers it holds.
IsNode(nd) ==
    /\ DOMAIN nd = {"state", "start", "contiguous", "size", "valid", "dirty", "at", "ptr"}
    /\ nd.state \in {"none", "linked", "unlinked"}
    /\ nd.start \in Clusters \cup {FREE}
    /\ nd.size \in 0..MaxSize /\ nd.valid \in 0..nd.size
    /\ nd.at \in Nat /\ nd.ptr \in Nat

\* The types of the state, in the form the steps keep.
Typed ==
    /\ DOMAIN node = Files /\ \A f \in Files : IsNode(node[f])
    /\ DOMAIN entry = Files /\ \A f \in Files : entry[f].start \in Clusters \cup {FREE} /\ entry[f].valid \in Nat
    /\ want \in [Files -> Seq(SUBSET Anything)] /\ \A f \in Files : Len(want[f]) <= MaxSize
    /\ cmap \subseteq Clusters /\ bitmap \subseteq Clusters
    /\ fat \in [Clusters -> Clusters \cup {FREE, END}]
    /\ DOMAIN data = Clusters
    /\ file \in Files \cup {NoFile} /\ safe \subseteq Files
    /\ Listed(todo)

\* The two Boolean variables.
Flags == failed \in BOOLEAN /\ cmapDirty \in BOOLEAN

\* The assignments of a cluster to every place of every file.
Ghosts == [Files -> [Nat -> Clusters]]

\* ch[f][i] is the cluster at place i of f, for the places own[f]; they are the clusters in use.
Owned(ch, own) ==
    /\ \A f \in Files : \A i \in own[f] : ch[f][i] \in cmap
    /\ \A f, g \in Files : \A i \in own[f], j \in own[g] : ch[f][i] = ch[g][j] => f = g /\ i = j
    /\ \A c \in cmap : \E f \in Files : \E i \in own[f] : ch[f][i] = c

\* The links of nd lead through the places a to b - 1 of s.
Segment(nd, s, a, b) == \A i \in Nat : a <= i /\ i + 1 < b => NextCluster(nd, s[i]) = s[i + 1]

\* From its start, nd's chain leads through the first n clusters of s.
Strung(nd, s, n) == nd.start = (IF n = 0 THEN FREE ELSE s[0]) /\ Segment(nd, s, 0, n)

\* The place nd remembers is the one its remembered cluster has in s.
Pointed(nd, s, n) == IF n = 0 THEN nd.at = 0 /\ nd.ptr = FREE ELSE nd.at < n /\ nd.ptr = s[nd.at]

\* What a clean node and its entry agree on.
Matches(e, nd) ==
    e.start = nd.start /\ e.size = nd.size /\ (nd.size # 0 => (e.contiguous <=> nd.contiguous))

\* f has an entry exactly while it is in the tree.
Listing(f) == entry[f].there <=> node[f].state = "linked"

\* The entry of a clean file tells its chain.
Booked(f) ==
    /\ Listing(f)
    /\ node[f].state = "linked" /\ ~node[f].dirty => Matches(entry[f], node[f])

\* The same, but for a file that has no clusters yet or any more.
Loose(f) ==
    /\ Listing(f)
    /\ node[f].state = "linked" /\ ~node[f].dirty /\ node[f].size # 0 => Matches(entry[f], node[f])

\* f has the clusters of its first n places, and no others.
Sized(f, ch, own, n) ==
    own[f] = 0..n - 1 /\ Strung(node[f], ch[f], n) /\ Pointed(node[f], ch[f], n)

\* f has the clusters its size calls for.
Settled(f, ch, own) == Sized(f, ch, own, node[f].size)

\* No call has left f half done.
Quiet(f, ch, own) ==
    Settled(f, ch, own) /\ Booked(f) /\ (node[f].state # "linked" => node[f].size = 0)

------------------------------
\* The stages of the calls.
Truncating(to, erase) == [k |-> "truncate", to |-> to, erase |-> erase]
Locating(i, n) == [k |-> "locate", i |-> i, n |-> n]
Sizing(to, erase) == [k |-> "setSize", to |-> to, erase |-> erase]
EraseTo(to) == [k |-> "eraseRange", end |-> to]
Linking(c, next) == [k |-> "fat", c |-> c, next |-> next]
Stage(k) == [k |-> k]

\* The links of places a to b of s, and the erasing of places a to b - 1.
Links(s, a, b)  == [i \in 1..b - a |-> Linking(s[a + i - 1], s[a + i])]
Erases(s, a, b) == [i \in 1..b - a |-> [k |-> "erase", c |-> s[a + i - 1]]]

\* What may follow a truncate to n: nothing, the write it makes room for, or the end of a delete.
Rest(t, n) ==
    \/ /\ Nd.state = "linked"
       /\ \/ t = <<>>
          \/ \E i \in 0..MaxSize, m \in 1..MaxSize : i + m <= n /\ t = <<Locating(i, m)>>
          \/ \E m \in 1..MaxSize : n + m <= MaxSize
                 /\ t = <<Truncating(n + m, FALSE), Locating(n, m)>>
    \/ /\ Nd.state = "unlinked" /\ n = 0
       /\ \/ t = <<Stage("catch"), Stage("unmark")>>
          \/ t = <<Stage("catch"), Stage("freeNode")>>

\* A size that is not erased up to is the end of a write that begins inside the file.
Fit(t, to) ==
    Lengths \subseteq {0} /\ to # 0 =>
        \E i, m \in Nat : t = <<Locating(i, m)>> /\ i + m = to /\ i <= Nd.size

\* The places before p that are not valid are erased.
Zeros(ch, p) == \A i \in Nat : Nd.valid <= i /\ i < p => data[ch[file][i]] = Zero

\* The end of a truncate to the given size.
Resize(t, to) ==
    /\ Listed(t) /\ t # <<>>
    /\ \/ Head(t) = Sizing(to, FALSE) /\ Rest(Tail(t), to) /\ Fit(Tail(t), to)
       \/ /\ Head(t) = EraseTo(to) /\ Tail(t) # <<>>
          /\ Head(Tail(t)) = Sizing(to, TRUE) /\ Rest(Tail(Tail(t)), to)

\* A turn of grow_file's loop is to come, with all but perhaps the last link written.
Looping(g, t, ch, own) ==
    LET n == g.cur + g.got
        s == ch[file]
    IN
    /\ DOMAIN g = {"k", "prev", "cur", "left", "got"} /\ g.k = "growLoop"
    /\ g.cur = Nd.size /\ g.got \in Nat /\ g.left \in Nat
    /\ n >= 1 /\ n + g.left <= MaxSize
    /\ g.prev = s[n - 1]
    /\ own[file] = 0..n - 1
    /\ Nd.start = s[0] /\ Pointed(Nd, s, n)
    /\ Nd.state = "linked" /\ Loose(file)
    /\ NoCatch(t) /\ Resize(t, n + g.left)

\* What may follow a shrink to n: the failure of the grow it rolls back, or the end of a truncate.
AfterCut(t, n) ==
    \/ Listed(t) /\ t # <<>> /\ Head(t) = Stage("fail") /\ NoCatch(Tail(t)) /\ Nd.size = n /\ Nd.state = "linked"
    \/ Resize(t, n)

\* shrink_file has n clusters to keep, and removes those from place p on.
Shrinking(g, t, ch, own, n) ==
    /\ n \in 0..MaxSize /\ Nd.size <= MaxSize
    /\ Strung(Nd, ch[file], n)
    /\ Loose(file) /\ (n = 0 => Nd.dirty)
    /\ AfterCut(t, n)

\* The remembered place is yet to be put back to one that stays.
Rewinding(g, t, ch, own, n) ==
    /\ DOMAIN g = {"k", "c", "left"} /\ g.k = "rewind" /\ g.left \in Nat \ {0}
    /\ Shrinking(g, t, ch, own, n)
    /\ own[file] = 0..n + g.left - 1
    /\ Segment(Nd, ch[file], n, n + g.left)
    /\ g.c = ch[file][n]

\* The clusters from place p on are yet to be freed.
Freeing(g, t, ch, own, n, p, o) ==
    /\ DOMAIN g = {"k", "c", "left"} /\ g.k = "free" /\ g.left \in Nat
    /\ Shrinking(g, t, ch, own, n)
    /\ Pointed(Nd, ch[file], n)
    /\ p \in Nat /\ n <= p
    /\ o = (0..n - 1) \cup (p..p + g.left - 1)
    /\ Segment(Nd, ch[file], p, p + g.left)
    /\ g.left > 0 => g.c = ch[file][p]

------------------------------
\* One predicate per stage: what holds when the stage h is the next, with t behind it.
AtEntry(h, t, ch, own) ==
    /\ file \in Files /\ Quiet(file, ch, own)
    /\ h.f = file
    /\ \/ t = <<Stage("attach")>> /\ h.e = EntryOf(NoNode) /\ Nd.state = "none"
       \/ t = <<Stage("unlink")>> /\ h.e = NoEntry /\ Nd.state = "linked"

AtAttach(h, t, ch, own) ==
    /\ file \in Files /\ Settled(file, ch, own) /\ t = <<>>
    /\ Nd.state = "none" /\ Nd.size = 0 /\ entry[file] = EntryOf(NoNode)

AtUnlink(h, t, ch, own) ==
    /\ file \in Files /\ Settled(file, ch, own) /\ t = <<>>
    /\ Nd.state = "linked" /\ ~entry[file].there

AtTruncate(h, t, ch, own) ==
    /\ file \in Files /\ Settled(file, ch, own) /\ Booked(file)
    /\ h.to \in 0..MaxSize /\ h.erase \in BOOLEAN
    /\ Rest(t, h.to) /\ (~h.erase => Fit(t, h.to))

AtGrow(h, t, ch, own) ==
    /\ file \in Files /\ Settled(file, ch, own) /\ Booked(file) /\ Nd.state = "linked"
    /\ h.cur = Nd.size /\ h.diff \in Nat \ {0} /\ h.cur + h.diff <= MaxSize
    /\ NoCatch(t) /\ Resize(t, h.cur + h.diff)

AtGrowLoop(h, t, ch, own) ==
    /\ file \in Files /\ Looping(h, t, ch, own)
    /\ Strung(Nd, ch[file], h.cur + h.got)

\* The links of a file that was contiguous are written, those before place j already.
Spreading(u, ch, own) ==
    \E g, r, j :
       LET n == g.cur + g.got
           s == ch[file]
       IN
       /\ file \in Files /\ Looping(g, r, ch, own)
       /\ n >= 2 /\ j \in 0..n - 2
       /\ u = Links(s, j, n - 2) \o (<<Stage("noncontiguous")>> \o (<<Linking(s[n - 2], s[n - 1])>> \o (<<g>> \o r)))
       /\ Nd.contiguous /\ Strung(Nd, s, n - 1)
       /\ \A i \in 0..j - 1 : fat[s[i]] = s[i + 1]

\* grow_file ends its chain.
FatEnd(h, t, ch, own) ==
    \E n \in 1..MaxSize :
       /\ Sized(file, ch, own, n) /\ Loose(file) /\ Resize(t, n)
       /\ h = Linking(ch[file][n - 1], END)

\* grow_file links one more cluster.
FatLink(h, t, ch, own) ==
    LET g == Head(t)
        n == g.cur + g.got
    IN
    /\ t # <<>> /\ Looping(g, Tail(t), ch, own)
    /\ n >= 2 /\ ~Nd.contiguous /\ Strung(Nd, ch[file], n - 1)
    /\ h = Linking(ch[file][n - 2], ch[file][n - 1])

\* shrink_file ends the chain behind what stays.
FatCut(h, t, ch, own) ==
    \E n \in 1..MaxSize :
       /\ t # <<>> /\ Rewinding(Head(t), Tail(t), ch, own, n)
       /\ h = Linking(ch[file][n - 1], END)

\* shrink_file gives up the cluster at place p.
Clearing(h, t, ch, own) ==
    \E n \in 0..MaxSize, p \in Nat :
       /\ t # <<>> /\ n <= p /\ p \in own[file]
       /\ Freeing(Head(t), Tail(t), ch, own, n, p + 1, own[file] \ {p})
       /\ h = [k |-> "clear", c |-> ch[file][p]]

\* shrink_file marks a cluster free in the table before it clears its bit.
FatFree(h, t, ch, own) ==
    /\ t # <<>> /\ Clearing(Head(t), Tail(t), ch, own)
    /\ h = Linking(Head(t).c, FREE)

AtFat(h, t, ch, own) ==
    /\ file \in Files
    /\ \/ FatEnd(h, t, ch, own) \/ FatLink(h, t, ch, own) \/ Spreading(todo, ch, own)
       \/ FatCut(h, t, ch, own) \/ FatFree(h, t, ch, own)

AtFail(h, t, ch, own) == file \in Files /\ Quiet(file, ch, own) /\ NoCatch(t)

AtShrink(h, t, ch, own) ==
    /\ file \in Files
    /\ h.cur \in 1..MaxSize /\ h.diff \in 1..h.cur
    /\ Sized(file, ch, own, h.cur) /\ Loose(file)
    /\ AfterCut(t, h.cur - h.diff)

AtRewind(h, t, ch, own) ==
    file \in Files /\ \E n \in 0..MaxSize : Rewinding(h, t, ch, own, n)

AtFree(h, t, ch, own) ==
    file \in Files /\ \E n \in 0..MaxSize, p \in Nat : Freeing(h, t, ch, own, n, p, own[file])

AtClear(h, t, ch, own) == file \in Files /\ Clearing(h, t, ch, own)

AtEraseRange(h, t, ch, own) ==
    /\ file \in Files /\ h.end \in 0..MaxSize
    /\ Sized(file, ch, own, h.end) /\ Loose(file)
    /\ t # <<>> /\ Head(t) = Sizing(h.end, TRUE) /\ Rest(Tail(t), h.end)

\* Places from p on are still to be erased.
Erasing(u, ch, own) ==
    \E to, p \in 0..MaxSize : \E r :
       /\ file \in Files
       /\ p <= to /\ Nd.valid <= p /\ Zeros(ch, p)
       /\ Sized(file, ch, own, to) /\ Loose(file)
       /\ Rest(r, to)
       /\ u = Erases(ch[file], p, to) \o (<<Sizing(to, TRUE)>> \o r)

AtSetSize(h, t, ch, own) ==
    /\ file \in Files /\ h.to \in 0..MaxSize
    /\ Sized(file, ch, own, h.to) /\ Loose(file)
    /\ Rest(t, h.to)
    /\ h.erase => Zeros(ch, h.to)
    /\ ~h.erase => Fit(t, h.to)

AtLocate(h, t, ch, own) ==
    /\ file \in Files /\ Quiet(file, ch, own) /\ Nd.state = "linked"
    /\ h.i \in Nat /\ h.n \in Nat \ {0} /\ h.i + h.n <= Nd.size
    /\ t = <<>>

\* The loop of a write, at the cluster of its place.
IsWrite(h, ch) ==
    /\ DOMAIN h = {"k", "c", "i", "n", "from"} /\ h.k = "write"
    /\ h.i \in Nat /\ h.n \in Nat /\ h.from \in 0..h.i /\ h.i + h.n <= Nd.size
    /\ h.n > 0 => h.c = ch[file][h.i]

AtWrite(h, t, ch, own) ==
    /\ file \in Files /\ Quiet(file, ch, own) /\ Nd.state = "linked"
    /\ IsWrite(h, ch) /\ t = <<>>

AtData(h, t, ch, own) ==
    /\ file \in Files /\ Quiet(file, ch, own) /\ Nd.state = "linked"
    /\ h.i \in Nat /\ h.n \in Nat \ {0} /\ h.from \in 0..h.i /\ h.c \in Nat
    /\ \A j \in 0..h.n - 1 : ch[file][h.i + j] = h.c + j
    /\ t # <<>> /\ Tail(t) = <<>> /\ IsWrite(Head(t), ch)
    /\ Head(t).i = h.i + h.n /\ Head(t).from = h.from

AtEnd(h, t, ch, own) ==
    /\ file \in Files /\ Settled(file, ch, own) /\ Booked(file)
    /\ Nd.state = "unlinked" /\ Nd.size = 0 /\ t = <<>>

------------------------------
\* What is left of a flush.
FlushList(u, L) ==
    /\ Listed(u)
    /\ \A i \in 1..Len(u) :
         \/ u[i] \in {Stage("catch"), Stage("flushMap")}
         \/ \E f \in L : u[i] = [k |-> "flushNode", f |-> f]
         \/ u[i] = Stage("flushed") /\ (i = Len(u) \/ (i = Len(u) - 1 /\ u[Len(u)] = Stage("unmounted")))
         \/ u[i] = Stage("unmounted") /\ i = Len(u)

\* The files a flush visits are in the tree.
FlushTail(u) == FlushList(u, Linked)

\* The stages that f's node and the bitmap still wait for.
NodeDue(f, u) == \E i \in 1..Len(u) : u[i].k \in {"flushNode", "clean"} /\ u[i].f = f
MapDue(u)     == \E i \in 1..Len(u) : u[i].k \in {"flushMap", "bitmap"}

\* Unless a write failed, everything dirty is still to be visited.
Pending(u) ==
    ~failed => /\ \A f \in Linked : node[f].dirty => NodeDue(f, u)
               /\ cmapDirty => MapDue(u)

\* A flush is in progress.
Flushing(h, t) ==
    /\ file = NoFile
    /\ Pending(todo)
    /\ h.k \in {"flushNode", "flushMap", "flushed", "unmounted"} => FlushTail(todo)
    /\ h.k = "bitmap" => FlushTail(t)
    /\ h.k = "clean"  => FlushTail(t) /\ h.f \in Linked
                         /\ Matches(entry[h.f], node[h.f]) /\ entry[h.f].valid = node[h.f].valid
    /\ h.k = "entry"  => /\ h.f \in Linked /\ h.e = EntryOf(node[h.f])
                         /\ t # <<>> /\ Head(t) = [k |-> "clean", f |-> h.f] /\ FlushTail(Tail(t))

\* The stages of a flush, and all stages.
FlushKinds == {"flushNode", "flushMap", "flushed", "unmounted", "bitmap", "clean"}

Kinds == FlushKinds \cup
    {"entry", "attach", "unlink", "truncate", "grow", "growLoop", "fat", "noncontiguous", "fail", "shrink",
     "rewind", "free", "clear", "eraseRange", "erase", "setSize", "locate", "write", "data", "unmark", "freeNode"}

\* The file in work is as the current stage expects it.
At(h, t, ch, own) ==
    /\ h.k \in Kinds
    /\ h.k \in FlushKinds => Flushing(h, t)
    /\ h.k = "entry" => Flushing(h, t) \/ AtEntry(h, t, ch, own)
    /\ h.k = "attach" => AtAttach(h, t, ch, own)
    /\ h.k = "unlink" => AtUnlink(h, t, ch, own)
    /\ h.k = "truncate" => AtTruncate(h, t, ch, own)
    /\ h.k = "grow" => AtGrow(h, t, ch, own)
    /\ h.k = "growLoop" => AtGrowLoop(h, t, ch, own)
    /\ h.k = "fat" => AtFat(h, t, ch, own)
    /\ h.k = "noncontiguous" => Spreading(todo, ch, own)
    /\ h.k = "fail" => AtFail(h, t, ch, own)
    /\ h.k = "shrink" => AtShrink(h, t, ch, own)
    /\ h.k = "rewind" => AtRewind(h, t, ch, own)
    /\ h.k = "free" => AtFree(h, t, ch, own)
    /\ h.k = "clear" => AtClear(h, t, ch, own)
    /\ h.k = "eraseRange" => AtEraseRange(h, t, ch, own)
    /\ h.k = "erase" => Erasing(todo, ch, own)
    /\ h.k = "setSize" => AtSetSize(h, t, ch, own)
    /\ h.k = "locate" => AtLocate(h, t, ch, own)
    /\ h.k = "write" => AtWrite(h, t, ch, own)
    /\ h.k = "data" => AtData(h, t, ch, own)
    /\ h.k \in {"unmark", "freeNode"} => AtEnd(h, t, ch, own)

\* The call in progress, if any.
Busy(ch, own) == IF todo = <<>> THEN file = NoFile ELSE At(Now, Tail(todo), ch, own)

\* A bitmap that is not dirty is on the drive.
MapClean == ~cmapDirty => bitmap = cmap

\* The volume is made of the chains ch, with the places own.
Layout(ch, own) ==
    /\ ch \in Ghosts /\ own \in [Files -> SUBSET Nat]
    /\ Owned(ch, own)
    /\ \A f \in Files : f # file => Quiet(f, ch, own)
    /\ Busy(ch, own)
    /\ Readable /\ MapClean

\* The inductive invariant.
Inv == Typed /\ \E ch, own : Layout(ch, own)

------------------------------
\* No write of a link and no erasure has failed.  (Such a failure, in the middle of a chain's links or
\* of an erased range, leaves the file broken.)
Whole == torn = {}

\* The place a write ends before.
Until == IF Now.k = "data" THEN Head(Tail(todo)).i + Head(Tail(todo)).n ELSE Now.i + Now.n

\* What a cluster that holds d is at place i of f.
Value(d, f, i) == IF d = <<f, i>> THEN "own" ELSE IF d = Zero THEN "zero" ELSE "junk"

\* The history has one entry for each place of a file that is in the tree.
Wanted(f) == Len(want[f]) = IF node[f].state = "linked" THEN node[f].size ELSE 0

\* The valid places hold what they may read as.
Stored(f, ch, own) == \A i \in own[f] : i < node[f].valid => Value(data[ch[f][i]], f, i) \in want[f][i + 1]

\* The places that the write in progress has yet to write, and those it has written.
Writing == todo # <<>> /\ Now.k \in {"locate", "write", "data"}
Coming(f, i) == Writing /\ f = file /\ Now.i <= i /\ i < Until
Done(f, i)   == Writing /\ Now.k # "locate" /\ f = file /\ Now.from <= i /\ i < Now.i

\* Anything may be read of the places behind the valid ones, unless they are about to be written.
Unwritten(f) ==
    \A i \in Nat : node[f].valid <= i /\ i < node[f].size => want[f][i + 1] = Anything \/ Coming(f, i)

\* So it may of those the entry does not know as valid, where the node is not going to be flushed.
Recorded(f) ==
    entry[f].there /\ (~node[f].dirty \/ f \in safe) =>
        /\ entry[f].valid <= node[f].valid
        /\ \A i \in Nat : entry[f].valid <= i /\ i < node[f].valid => want[f][i + 1] = Anything \/ Done(f, i)

\* The entry of a flushed file is that of its node, and its clusters are in use on the drive.
Saved(f, ch) ==
    /\ f # file /\ f \in Linked /\ Matches(entry[f], node[f])
    /\ \A i \in Nat : i < node[f].size => ch[f][i] \in bitmap

\* The contents of the volume, for the clusters ch at the places own.
Content(ch, own) ==
    /\ \A f \in Files : Wanted(f)
    /\ \A f \in Linked : Stored(f, ch, own) /\ Unwritten(f) /\ Recorded(f)
    /\ \A f \in safe : Saved(f, ch)

\* The inductive invariant of the contents.
ContentInv == Typed /\ \E ch, own : Layout(ch, own) /\ Content(ch, own)

=============================================================================
