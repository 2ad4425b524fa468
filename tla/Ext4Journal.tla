---------------------------- MODULE Ext4Journal ----------------------------
(***************************************************************************)
(* The replay of an ext4 volume's jbd2 journal                             *)
(* (app/.../ext4/Ext4Journal.kt; the read-only gate of Ext4FileSystem.kt). *)
(*                                                                         *)
(* The app writes ext4 outside the journal, so a volume whose journal      *)
(* still holds committed transactions is read-only until replayJournal has *)
(* copied them to their home blocks, emptied the log and cleared           *)
(* needs_recovery.  The drive may be pulled at any write on the way.       *)
(*                                                                         *)
(* Linux, which fills the log before the app claims the drive, is          *)
(* external: it commits transactions, writes committed blocks home when it *)
(* likes, reuses a revoked block for file data, and is cut off, possibly   *)
(* with part of one more transaction in the log.                           *)
(*                                                                         *)
(* A log block is a header (desc, revoke, commit), or logged data.  A data *)
(* block that begins with the journal's magic number is logged with that   *)
(* word zeroed and an escape flag in its tag.                              *)
(***************************************************************************)
EXTENDS Integers, Sequences, FiniteSets, SequencesExt, FiniteSetsExt, Functions

CONSTANTS
    Home,       \* home blocks
    Values,     \* contents of a block
    Magic,      \* the content that begins with the magic number
    Zeroed,     \* what is logged in its stead
    Torn,       \* a block that was being written when the drive went away
    LogLen,     \* blocks of the log
    SeqSpan,     \* sequence numbers wrap (2^32 in the code)
    FirstSeq,   \* the sequence number of the first transaction
    FirstHeads, \* where Linux may have got to in the log before
    FirstContents, \* what the home blocks may hold then
    Features,   \* feature sets of volumes: [csum, async, extents]
    MaxTx       \* bound on the transactions Linux starts

ASSUME JournalAssumption ==
    /\ Magic \in Values
    /\ {Zeroed, Torn} \cap Values = {} /\ Zeroed # Torn
    /\ IsFiniteSet(Home)
    /\ LogLen \in Nat \ {0} /\ SeqSpan \in Nat \ {0} /\ MaxTx \in Nat
    /\ FirstSeq \in 0 .. SeqSpan - 1
    /\ FirstHeads \subseteq 1 .. LogLen
    /\ FirstContents \subseteq [Home -> Values]
    /\ SeqSpan > 2 * (2 * MaxTx + 2)
    /\ Features \subseteq [csum : BOOLEAN, async : BOOLEAN, extents : BOOLEAN]
    /\ \A f \in Features : f.async => f.csum

Slots == 1 .. LogLen

VARIABLES
    features,  \* of the volume
    log,       \* the log's blocks
    start,     \* s_start of the journal superblock: 0 for an empty log
    seq,       \* s_sequence
    home,      \* the home blocks
    flag,      \* needs_recovery
    pc,        \* who has the drive, and how far recover is
    todo,      \* the tags the replay still has to copy, by their place in the log's order
    end,       \* recover's sequence after the scan
    head,      \* external: where Linux logs next
    next,      \* external: the sequence number it uses next
    txs,       \* external: transactions started, for the bound
    want,      \* history: what the volume holds, by what was committed or written
    damaged    \* history: a block of a committed transaction was damaged

disk   == <<log, start, seq, home, flag>>
linux  == <<head, next, txs>>
vars   == <<features, disk, pc, todo, end, linux, want, damaged>>

Succ(s) == (s + 1) % SeqSpan

\* next(): n blocks further on in the log, which wraps.
Ahead(at, n) == ((at - 1 + n) % LogLen) + 1

\* How much later a is than b, as the difference of two 32-bit integers.
Later(a, b) == LET d == (a - b) % SeqSpan IN IF 2 * d < SeqSpan THEN d ELSE d - SeqSpan

Empty          == [k |-> "none"]
Desc(s, tags)  == [k |-> "desc", seq |-> s, ok |-> TRUE, tags |-> tags]
Revoke(s, bs)  == [k |-> "revoke", seq |-> s, ok |-> TRUE, blocks |-> bs]
Commit(s)      == [k |-> "commit", seq |-> s, ok |-> TRUE]
Logged(v)      == [k |-> "data", val |-> IF v = Magic THEN Zeroed ELSE v]
Tag(b, v)      == [block |-> b, escape |-> v = Magic, csum |-> Logged(v).val]

Init ==
    /\ features \in Features
    /\ log = [i \in Slots |-> Empty]
    /\ start = 0 /\ seq = FirstSeq
    /\ home \in FirstContents /\ want = home
    /\ flag = TRUE
    /\ pc = "linux"
    /\ todo = <<>> /\ end = 0
    /\ head \in FirstHeads /\ next = FirstSeq /\ txs = 0
    /\ damaged = FALSE

-----------------------------------------------------------------------------
(* Linux, which has the drive first.                                       *)

\* The blocks of transaction s: it revokes the blocks rs and logs the writes w.
TxBlocks(s, w, rs) ==
    LET bs == SetToSeq(DOMAIN w) IN
       (IF rs = {} THEN <<>> ELSE <<Revoke(s, rs)>>)
    \o (IF bs = <<>> THEN <<>>
        ELSE <<Desc(s, [i \in DOMAIN bs |-> Tag(bs[i], w[bs[i]])])>>
             \o [i \in DOMAIN bs |-> Logged(w[bs[i]])])
    \o <<Commit(s)>>

Txs == {tx \in (UNION {[S -> Values] : S \in SUBSET Home}) \X (SUBSET Home) :
           DOMAIN tx[1] \cap tx[2] = {} /\ (DOMAIN tx[1] # {} \/ tx[2] # {})}

\* The log with the blocks bs put at head.
Put(bs) == [i \in Slots |-> LET n == ((i - head) % LogLen) + 1
                            IN  IF n <= Len(bs) THEN bs[n] ELSE log[i]]

\* How many blocks the transactions that may have to be replayed take up.
Used == IF start = 0 THEN 0 ELSE (head - start) % LogLen

\* The log is in use from the first transaction on.
Open == IF start = 0 THEN start' = head /\ seq' = next ELSE UNCHANGED <<start, seq>>

\* A transaction is committed.  A block it revokes is freed and reused for file
\* data, which goes straight to its home.
LinuxCommit(w, rs, reuse) ==
    LET bs == TxBlocks(next, w, rs) IN
    /\ pc = "linux" /\ txs < MaxTx
    /\ Used + Len(bs) < LogLen
    /\ log' = Put(bs)
    /\ Open
    /\ home' = [b \in Home |-> IF b \in rs THEN reuse ELSE home[b]]
    /\ want' = [b \in Home |-> IF b \in rs THEN reuse ELSE IF b \in DOMAIN w THEN w[b] ELSE want[b]]
    /\ head' = Ahead(head, Len(bs)) /\ next' = Succ(next) /\ txs' = txs + 1
    /\ UNCHANGED <<features, flag, pc, todo, end, damaged>>

LinuxWriteback(b) ==
    /\ pc = "linux"
    /\ home' = [home EXCEPT ![b] = want[b]]
    /\ UNCHANGED <<features, log, start, seq, flag, pc, todo, end, linux, want, damaged>>

\* Everything is home, and the tail of the log moves up to its head.
LinuxCheckpoint ==
    /\ pc = "linux" /\ start # 0
    /\ home' = want
    /\ start' = head /\ seq' = next
    /\ UNCHANGED <<features, log, flag, pc, todo, end, linux, want, damaged>>

LinuxCut ==
    /\ pc = "linux"
    /\ pc' = "out"
    /\ UNCHANGED <<features, disk, todo, end, linux, want, damaged>>

\* What is left of a log block that was written in part: its checksum fails.
Spoilt(r) == IF r.k = "data" THEN [r EXCEPT !.val = Torn] ELSE [r EXCEPT !.ok = FALSE]

\* What is in the log in place of the blocks bs when only some landed, one perhaps in part.
Arrived(bs, landed, part) ==
    [i \in 1 .. Len(bs) |-> IF i \in landed THEN bs[i]
                            ELSE IF i = part THEN Spoilt(bs[i])
                            ELSE log[Ahead(head, i - 1)]]

\* Linux is cut off in the middle of a transaction: some of its blocks reached the
\* log, perhaps one of them in part.  The commit block is written after the others
\* have arrived, unless the journal commits asynchronously.
LinuxTear(w, rs) ==
    LET bs == TxBlocks(next, w, rs)
        n  == Len(bs)
    IN
    /\ pc = "linux" /\ txs < MaxTx
    /\ Used + n < LogLen
    /\ \E landed \in SUBSET (1 .. n), part \in 0 .. n :
         /\ part \notin landed
         /\ part # 0 => features.csum
         /\ n \in landed \cup {part} => features.async \/ 1 .. n - 1 \subseteq landed
         /\ log' = Put(Arrived(bs, landed, part))
    /\ log' # Put(bs)
    /\ Open
    /\ txs' = txs + 1
    /\ pc' = "out"
    /\ UNCHANGED <<features, home, flag, todo, end, head, next, want, damaged>>

\* A block of a committed transaction, other than its commit block, goes bad.
Damage(i) ==
    /\ pc = "out" /\ ~damaged /\ features.csum
    /\ start # 0 /\ (i - start) % LogLen < Used
    /\ log[i].k \in {"desc", "revoke", "data"}
    /\ log' = [log EXCEPT ![i] = Spoilt(@)]
    /\ damaged' = TRUE
    /\ UNCHANGED <<features, start, seq, home, flag, pc, todo, end, linux, want>>

\* A clean volume goes back to Linux: the log starts over.
LinuxMount ==
    /\ pc = "out" /\ ~flag /\ txs < MaxTx
    /\ pc' = "linux"
    /\ flag' = TRUE
    /\ head' = 1 /\ next' = seq
    /\ UNCHANGED <<features, log, start, seq, home, todo, end, txs, want, damaged>>

-----------------------------------------------------------------------------
(* The three passes of recover.                                            *)

\* The tags and the revoke records of the committed transactions, and those of current.
ScanStart ==
    [at |-> start, seq |-> seq, all |-> <<>>, gone |-> {},
     tags |-> <<>>, revoked |-> {}, going |-> TRUE, refused |-> FALSE]

\* One turn of the scan loop, at the block s.at of the log lg.
ScanBlock(lg, csum, s) ==
    LET h == lg[s.at]
        bad == csum /\ ~h.ok
        stop == [s EXCEPT !.going = FALSE]
    IN
    IF ~s.going THEN s
    ELSE IF h.k \in {"none", "data"} \/ h.seq # s.seq THEN stop
    ELSE CASE h.k \in {"desc", "revoke"} /\ bad -> [stop EXCEPT !.refused = TRUE]
           [] h.k = "desc" /\ ~bad ->
                [s EXCEPT !.tags = @ \o [i \in DOMAIN h.tags |->
                                           [tag |-> h.tags[i], at |-> Ahead(s.at, i), seq |-> s.seq]],
                          !.at = Ahead(s.at, Len(h.tags) + 1)]
           [] h.k = "revoke" /\ ~bad ->
                [s EXCEPT !.revoked = @ \cup h.blocks, !.at = Ahead(s.at, 1)]
           [] h.k = "commit" /\ bad -> stop
           [] h.k = "commit" /\ ~bad ->
                [s EXCEPT !.all = @ \o s.tags,
                          !.gone = @ \cup {[block |-> b, seq |-> s.seq] : b \in s.revoked},
                          !.tags = <<>>, !.revoked = {},
                          !.seq = Succ(@), !.at = Ahead(s.at, 1)]

\* Pass 1: at most maxLen + 1 turns, and maxLen is one more than LogLen.
Scan ==
    LET turns == LogLen + 2
        after[i \in 0 .. turns] == IF i = 0 THEN ScanStart ELSE ScanBlock(log, features.csum, after[i - 1])
    IN  after[turns]

\* Pass 2: the block of tag t was revoked by its transaction or by a later one.
IsRevoked(gone, t) == \E r \in gone : r.block = t.tag.block /\ Later(r.seq, t.seq) >= 0

\* The tags that are not revoked, each at its place in all.
Kept(all, gone) == Restrict(all, {i \in DOMAIN all : ~IsRevoked(gone, all[i])})

\* What block i of the log lg holds, read as logged data; a header is no one's content.
Bytes(lg, i) == IF lg[i].k = "data" THEN lg[i].val ELSE Torn

\* What is to be copied, oldest first, and whether it can be trusted.
Plan ==
    LET scan == Scan
        kept == Kept(scan.all, scan.gone)
    IN  [refused |-> \/ scan.refused
                     \/ features.csum /\ \E i \in DOMAIN kept : Bytes(log, kept[i].at) # kept[i].tag.csum,
         tags |-> kept,
         end |-> scan.seq]

\* The content a tag brings home: the magic number is put back.
Unescaped(lg, t) == IF t.tag.escape /\ Bytes(lg, t.at) = Zeroed THEN Magic ELSE Bytes(lg, t.at)

-----------------------------------------------------------------------------
(* The app.                                                                *)

\* Ext4FileSystem.create: why the volume is read-only, if it is.
Mount(readOnly) ==
    /\ pc = "out"
    /\ pc' = IF flag THEN (IF readOnly THEN "readOnly" ELSE "needsRecovery")
             ELSE IF ~features.extents \/ readOnly THEN "readOnly" ELSE "writable"
    /\ UNCHANGED <<features, disk, todo, end, linux, want, damaged>>

\* replayJournal up to the end of pass 2, which only reads.
Recover ==
    /\ pc = "needsRecovery"
    /\ IF start = 0
       THEN pc' = "clearFlag" /\ UNCHANGED <<todo, end>>
       ELSE LET p == Plan IN
            /\ ~p.refused
            /\ pc' = "replay"
            /\ todo' = p.tags
            /\ end' = p.end
    /\ UNCHANGED <<features, disk, linux, want, damaged>>

\* NotReplayableException: the volume stays as it is, for e2fsck.
Refuse ==
    /\ pc = "needsRecovery"
    /\ start # 0 /\ Plan.refused
    /\ pc' = "refused"
    /\ UNCHANGED <<features, disk, todo, end, linux, want, damaged>>

\* Pass 3, one block: the oldest that is left.
Foremost == todo[Min(DOMAIN todo)]

ReplayBlock ==
    /\ pc = "replay" /\ DOMAIN todo # {}
    /\ home' = [home EXCEPT ![Foremost.tag.block] = Unescaped(log, Foremost)]
    /\ todo' = Restrict(todo, DOMAIN todo \ {Min(DOMAIN todo)})
    /\ UNCHANGED <<features, log, start, seq, flag, pc, end, linux, want, damaged>>

\* Mutants: the sequence number is not advanced past the end of the scan, does not
\* wrap, or the log's start is left in place.
EmptyLogSameSequence ==
    /\ pc = "replay" /\ DOMAIN todo = {}
    /\ start' = 0
    /\ seq' = end
    /\ pc' = "clearFlag"
    /\ UNCHANGED <<features, log, home, flag, todo, end, linux, want, damaged>>
EmptyLogNoWrap ==
    /\ pc = "replay" /\ DOMAIN todo = {}
    /\ start' = 0
    /\ seq' = end + 1
    /\ pc' = "clearFlag"
    /\ UNCHANGED <<features, log, home, flag, todo, end, linux, want, damaged>>
EmptyLogKeepsStart ==
    /\ pc = "replay" /\ DOMAIN todo = {}
    /\ seq' = Succ(end)
    /\ pc' = "clearFlag"
    /\ UNCHANGED <<features, log, start, home, flag, todo, end, linux, want, damaged>>

\* The journal superblock: an empty log, whose next transaction is one past the end
\* of the scan.
EmptyLog ==
    /\ pc = "replay" /\ DOMAIN todo = {}
    /\ start' = 0
    /\ seq' = Succ(end)
    /\ pc' = "clearFlag"
    /\ UNCHANGED <<features, log, home, flag, todo, end, linux, want, damaged>>

\* clearNeedsRecovery, and then replayJournal's readOnlyReason.
ClearFlag ==
    /\ pc = "clearFlag"
    /\ flag' = FALSE
    /\ pc' = IF features.extents THEN "writable" ELSE "readOnly"
    /\ end' = 0
    /\ UNCHANGED <<features, log, start, seq, home, todo, linux, want, damaged>>

\* A write of recover throws.  The volume stays mounted read-only, and the user can
\* try again.  A home block may be left half written.
WriteFails ==
    /\ pc \in {"replay", "clearFlag"}
    /\ \/ UNCHANGED home
       \/ DOMAIN todo # {} /\ home' = [home EXCEPT ![Foremost.tag.block] = Torn]
    /\ pc' = "needsRecovery"
    /\ todo' = <<>> /\ end' = 0
    /\ UNCHANGED <<features, log, start, seq, flag, linux, want, damaged>>

\* The drive is pulled, or the process dies, at any point.
Unplug ==
    /\ pc \in {"needsRecovery", "refused", "readOnly", "writable", "replay", "clearFlag"}
    /\ \/ UNCHANGED home
       \/ DOMAIN todo # {} /\ home' = [home EXCEPT ![Foremost.tag.block] = Torn]
    /\ pc' = "out"
    /\ todo' = <<>> /\ end' = 0
    /\ UNCHANGED <<features, log, start, seq, flag, linux, want, damaged>>

\* writeBlocks passes checkWritable.
UserWrite(b, v) ==
    /\ pc = "writable"
    /\ home' = [home EXCEPT ![b] = v]
    /\ want' = [want EXCEPT ![b] = v]
    /\ UNCHANGED <<features, log, start, seq, flag, pc, todo, end, linux, damaged>>

Next ==
    \/ \E tx \in Txs, v \in Values : LinuxCommit(tx[1], tx[2], v)
    \/ \E tx \in Txs : LinuxTear(tx[1], tx[2])
    \/ \E b \in Home : LinuxWriteback(b)
    \/ LinuxCheckpoint
    \/ LinuxCut
    \/ LinuxMount
    \/ \E i \in Slots : Damage(i)
    \/ \E ro \in BOOLEAN : Mount(ro)
    \/ Recover
    \/ Refuse
    \/ ReplayBlock
    \/ EmptyLog
    \/ ClearFlag
    \/ WriteFails
    \/ Unplug
    \/ \E b \in Home, v \in Values : UserWrite(b, v)

Spec == Init /\ [][Next]_vars

-----------------------------------------------------------------------------
(* Properties.                                                             *)

(* The shape of the state: the volume, the log and its superblock, and the  *)
(* place of the driver in a commit or a replay.                             *)
TypeOK ==
    /\ features \in Features
    /\ start \in 0 .. LogLen
    /\ seq \in 0 .. SeqSpan - 1 /\ next \in 0 .. SeqSpan - 1
    /\ home \in [Home -> Values \cup {Torn}]
    /\ want \in [Home -> Values]
    /\ flag \in BOOLEAN /\ damaged \in BOOLEAN
    /\ pc \in {"linux", "out", "readOnly", "needsRecovery", "refused", "replay", "clearFlag", "writable"}
    /\ \A i \in DOMAIN todo : todo[i].at \in Slots /\ todo[i].tag.block \in Home
    /\ end \in 0 .. SeqSpan - 1
    /\ head \in Slots /\ txs \in 0 .. MaxTx

\* What the volume holds once its journal, if any, is replayed.
Content ==
    IF start = 0 THEN home
    ELSE LET tags == Plan.tags
             hits(b) == {i \in DOMAIN tags : tags[i].tag.block = b}
         IN  [b \in Home |-> IF hits(b) = {} THEN home[b] ELSE Unescaped(log, tags[Max(hits(b))])]

\* At every point, whatever was pulled or failed and however often the replay has
\* been tried, home blocks and log together hold exactly what was committed or
\* written: no transaction is lost, no discarded or revoked one comes back, and no
\* block of an earlier use of the log is taken for a new one.  A journal the replay
\* refuses is left out.
VolumeHoldsCommitted == (start # 0 /\ Plan.refused) \/ Content = want

\* The app writes only volumes whose journal Linux will not replay over its writes.
WritableMeansEmptyLog == pc = "writable" => start = 0 /\ ~flag
=============================================================================
