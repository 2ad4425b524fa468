------------------------- MODULE CachedBlockDevice -------------------------
(***************************************************************************)
(* The read cache over the decrypted block device                          *)
(* (app/.../block/CachedBlockDevice.kt): a write-through LRU of lines of   *)
(* BlocksPerLine blocks.  The cache lock guards the tables; device reads   *)
(* happen with the lock released, device writes with it held.              *)
(*                                                                         *)
(* A cache line is an array that lineFor hands to its caller by reference: *)
(* the caller copies out of it after the lock is released, while other     *)
(* threads may patch that array, or drop it from the table and zero it.    *)
(* A reader therefore either shares the array that the table holds for its *)
(* line, or has an array of its own (one it fetched and did not publish,   *)
(* or one that has been taken out of the table since).  An array is        *)
(* addressed by absolute block number; positions outside its line are      *)
(* never used.  A request outside the device is rejected by require()      *)
(* before anything happens, so none is enumerated.                         *)
(***************************************************************************)
EXTENDS Naturals, FiniteSets

CONSTANTS
    Readers,        \* threads calling readBlocks (proxy, binder and UI threads)
    Writers,        \* threads calling writeBlocks
    BlockCount,     \* blocks of the device
    BlocksPerLine,  \* readAheadBytes / blockSize
    MaxLines,       \* lines the cache may hold
    Data,           \* block contents that are written
    Zero,           \* what fill(0) leaves in a block
    NoLine,         \* no array: the table has none for the line
    NoThread, NoData

ASSUME CacheAssumption ==
    /\ BlockCount \in Nat \ {0}
    /\ BlocksPerLine \in Nat \ {0}
    /\ MaxLines \in Nat \ {0}
    /\ Zero \notin Data
    /\ NoData \notin Data \cup {Zero}
    /\ NoLine \notin [0 .. BlockCount - 1 -> Data \cup {Zero}]
    /\ NoThread \notin Writers

Blocks == 0 .. BlockCount - 1
Values == Data \cup {Zero}
Array  == [Blocks -> Values]

LineOf(b) == b \div BlocksPerLine
Lines == {LineOf(b) : b \in Blocks}
LineBlocks(l) == {b \in Blocks : LineOf(b) = l}

VARIABLES
    device,     \* the delegate's blocks
    lines,      \* lines[l]: the array cached for line l, or NoLine
    older,      \* access order of the LinkedHashMap: <<k, l>>, k used before l
    fetching,   \* lines with a device read in flight
    dirtied,    \* dirtiedWhileFetching
    lock,       \* the writer holding the cache lock across its transfer
    closing,    \* "open", "dropped" (close has invalidated), "closed"
    rpc,        \* where each reader is in readBlocks / lineFor
    from, pos, end,  \* its request: blocks from .. end - 1; pos is the next to deliver
    shared,     \* the readers that copy from the table's own array of the line
    buf,        \* otherwise, the array it fetches into or copies from
    fpos,       \* next block its fetch reads from the delegate
    wfrom, wpos, wend, wval  \* each writer's request; wpos is the next block to land

rvars == <<rpc, from, pos, end, shared, buf, fpos>>
wvars == <<wfrom, wpos, wend, wval>>
tables == <<lines, older, fetching, dirtied>>
vars  == <<device, tables, lock, closing, rvars, wvars>>

Blank == [b \in Blocks |-> Zero]

Cached == {l \in Lines : lines[l] # NoLine}

Init ==
    /\ device \in [Blocks -> Data]
    /\ lines = [l \in Lines |-> NoLine]
    /\ older = {}
    /\ fetching = {}
    /\ dirtied = {}
    /\ lock = NoThread
    /\ closing = "open"
    /\ rpc  = [r \in Readers |-> "idle"]
    /\ from = [r \in Readers |-> 0]
    /\ pos  = [r \in Readers |-> 0]
    /\ end  = [r \in Readers |-> 0]
    /\ shared = {}
    /\ buf  = [r \in Readers |-> Blank]
    /\ fpos = [r \in Readers |-> 0]
    /\ wfrom = [w \in Writers |-> 0]
    /\ wpos = [w \in Writers |-> 0]
    /\ wend = [w \in Writers |-> 0]
    /\ wval = [w \in Writers |-> NoData]

-----------------------------------------------------------------------------
(* The tables: LinkedHashMap in access order, with removeEldestEntry.      *)

\* l becomes the most recently used of the lines in keys.
Touch(l, keys) ==
    {p \in older : p[1] # l /\ p[2] # l} \cup {<<k, l>> : k \in keys \ {l}}

Forget(order, ls) == {p \in order : p[1] \notin ls /\ p[2] \notin ls}

\* The least recently used of the lines in keys.
Eldest(order, keys) == CHOOSE l \in keys : \A k \in keys \ {l} : <<l, k>> \in order

\* Lines the blocks lo .. hi - 1 fall into.
LinesOf(lo, hi) == {LineOf(b) : b \in lo .. hi - 1}

\* r copies from the array that the table holds for one of the lines in ls.
SharesOneOf(r, ls) == r \in shared /\ LineOf(pos[r]) \in ls

-----------------------------------------------------------------------------
(* readBlocks and lineFor.                                                 *)

ReadStart(r, lo, n) ==
    /\ rpc[r] = "idle"
    /\ rpc'  = [rpc EXCEPT ![r] = IF n >= BlocksPerLine THEN "bypass" ELSE "lookup"]
    /\ from' = [from EXCEPT ![r] = lo]
    /\ pos'  = [pos EXCEPT ![r] = lo]
    /\ end'  = [end EXCEPT ![r] = lo + n]
    /\ UNCHANGED <<device, tables, lock, closing, shared, buf, fpos, wvars>>

\* The call is over: it returned, with every block delivered, or threw.
ReadEnd(r) ==
    /\ rpc'  = [rpc EXCEPT ![r] = "idle"]
    /\ from' = [from EXCEPT ![r] = 0]
    /\ pos'  = [pos EXCEPT ![r] = 0]
    /\ end'  = [end EXCEPT ![r] = 0]
    /\ shared' = shared \ {r}
    /\ buf'  = [buf EXCEPT ![r] = Blank]
    /\ fpos' = [fpos EXCEPT ![r] = 0]

ReadReturn(r) ==
    /\ rpc[r] \in {"bypass", "return"}
    /\ pos[r] = end[r]
    /\ ReadEnd(r)
    /\ UNCHANGED <<device, tables, lock, closing, wvars>>

\* A request of a line or more goes straight to the delegate, without the lock.
BypassBlock(r) ==
    /\ rpc[r] = "bypass"
    /\ pos[r] < end[r]
    /\ closing # "closed"
    /\ pos' = [pos EXCEPT ![r] = @ + 1]
    /\ UNCHANGED <<device, tables, lock, closing, rpc, from, end, shared, buf, fpos, wvars>>

BypassFail(r) ==
    /\ rpc[r] = "bypass"
    /\ pos[r] < end[r]
    /\ ReadEnd(r)
    /\ UNCHANGED <<device, tables, lock, closing, wvars>>

LookupHit(r) ==
    LET l == LineOf(pos[r]) IN
    /\ rpc[r] = "lookup"
    /\ lock = NoThread
    /\ l \in Cached
    /\ older' = Touch(l, Cached)
    /\ shared' = shared \cup {r}
    /\ rpc' = [rpc EXCEPT ![r] = "copy"]
    /\ UNCHANGED <<device, lines, fetching, dirtied, lock, closing, from, pos, end, buf, fpos, wvars>>

FirstBlock(l) == l * BlocksPerLine

LookupMiss(r) ==
    LET l == LineOf(pos[r]) IN
    /\ rpc[r] = "lookup"
    /\ lock = NoThread
    /\ l \notin Cached
    /\ fetching' = fetching \cup {l}
    /\ fpos' = [fpos EXCEPT ![r] = FirstBlock(l)]
    /\ rpc'  = [rpc EXCEPT ![r] = "fetch"]
    /\ UNCHANGED <<device, lines, older, dirtied, lock, closing, from, pos, end, shared, buf, wvars>>

\* delegate.readBlocks of the line, lock released.
FetchBlock(r) ==
    /\ rpc[r] = "fetch"
    /\ fpos[r] \in LineBlocks(LineOf(pos[r]))
    /\ closing # "closed"
    /\ buf'  = [buf EXCEPT ![r][fpos[r]] = device[fpos[r]]]
    /\ fpos' = [fpos EXCEPT ![r] = @ + 1]
    /\ UNCHANGED <<device, tables, lock, closing, rpc, from, pos, end, shared, wvars>>

\* Mutant: a fetch that throws leaves its dirtied mark behind.
FetchFailLeavesMark(r) ==
    /\ rpc[r] = "fetch"
    /\ fpos[r] \in LineBlocks(LineOf(pos[r]))
    /\ lock = NoThread
    /\ fetching' = fetching \ {LineOf(pos[r])}
    /\ ReadEnd(r)
    /\ UNCHANGED <<device, lines, older, dirtied, lock, closing, wvars>>

FetchFail(r) ==
    LET l == LineOf(pos[r]) IN
    /\ rpc[r] = "fetch"
    /\ fpos[r] \in LineBlocks(l)
    /\ lock = NoThread
    /\ fetching' = fetching \ {l}
    /\ dirtied'  = dirtied \ {l}
    /\ ReadEnd(r)
    /\ UNCHANGED <<device, lines, older, lock, closing, wvars>>

\* A write changed these blocks while they were read: nothing is published, and
\* the reader uses the cached line if there is one, else what it fetched.
FetchSuperseded(r) ==
    LET l == LineOf(pos[r]) IN
    /\ rpc[r] = "fetch"
    /\ fpos[r] \notin LineBlocks(l)
    /\ lock = NoThread
    /\ l \in dirtied
    /\ fetching' = fetching \ {l}
    /\ dirtied'  = dirtied \ {l}
    /\ older'  = IF l \in Cached THEN Touch(l, Cached) ELSE older
    /\ shared' = {s \in shared \cup {r} : s = r => l \in Cached}
    /\ buf' = [buf EXCEPT ![r] = IF l \in Cached THEN Blank ELSE @]
    /\ rpc' = [rpc EXCEPT ![r] = "copy"]
    /\ UNCHANGED <<device, lines, lock, closing, from, pos, end, fpos, wvars>>

\* lines[l] = data, then removeEldestEntry if that made one line too many.  A
\* reader of the array that lines[l] held before keeps it as it was; a reader of
\* the evicted one finds it zeroed.
FetchPublish(r) ==
    LET l       == LineOf(pos[r])
        keys    == Cached \cup {l}
        order   == Touch(l, keys)
        evicted == IF Cardinality(keys) > MaxLines THEN {Eldest(order, keys)} ELSE {}
    IN  /\ rpc[r] = "fetch"
        /\ fpos[r] \notin LineBlocks(l)
        /\ lock = NoThread
        /\ l \notin dirtied
        /\ fetching' = fetching \ {l}
        /\ lines' = [k \in Lines |-> IF k \in evicted THEN NoLine
                                     ELSE IF k = l THEN buf[r] ELSE lines[k]]
        /\ older' = Forget(order, evicted)
        /\ shared' = {s \in shared : LineOf(pos[s]) \notin evicted \cup {l}}
                         \cup {s \in {r} : l \notin evicted}
        /\ buf' = [s \in Readers |->
                     IF s = r \/ SharesOneOf(s, evicted) THEN Blank
                     ELSE IF SharesOneOf(s, {l}) THEN lines[l]
                     ELSE buf[s]]
        /\ rpc' = [rpc EXCEPT ![r] = "copy"]
        /\ UNCHANGED <<device, dirtied, lock, closing, from, pos, end, fpos, wvars>>

\* Mutant: the copy loop runs one block too far.
CopyOneTooFar(r) ==
    LET b == pos[r]
        last == b = end[r]
        more == ~last /\ LineOf(b + 1) = LineOf(b)
    IN  /\ rpc[r] = "copy"
        /\ pos' = [pos EXCEPT ![r] = b + 1]
        /\ rpc' = [rpc EXCEPT ![r] = IF last THEN "return" ELSE IF more THEN "copy" ELSE "lookup"]
        /\ shared' = {s \in shared : s = r => more}
        /\ buf' = [buf EXCEPT ![r] = IF more THEN @ ELSE Blank]
        /\ UNCHANGED <<device, tables, lock, closing, from, end, fpos, wvars>>

\* System.arraycopy of one block out of the line, lock released.
CopyBlock(r) ==
    LET b == pos[r]
        last == b + 1 = end[r]
        more == ~last /\ LineOf(b + 1) = LineOf(b)
    IN  /\ rpc[r] = "copy"
        /\ pos' = [pos EXCEPT ![r] = b + 1]
        /\ rpc' = [rpc EXCEPT ![r] = IF last THEN "return" ELSE IF more THEN "copy" ELSE "lookup"]
        /\ shared' = {s \in shared : s = r => more}
        /\ buf' = [buf EXCEPT ![r] = IF more THEN @ ELSE Blank]
        /\ UNCHANGED <<device, tables, lock, closing, from, end, fpos, wvars>>

-----------------------------------------------------------------------------
(* writeBlocks: one critical section around markFetchesDirty, the transfer *)
(* and patchRange or invalidateRange.                                      *)

\* Mutant: a write does not flag the fetches it overlaps.
WriteStartUnflagged(w, lo, n, v) ==
    /\ lock = NoThread
    /\ lock' = w
    /\ wfrom' = [wfrom EXCEPT ![w] = lo]
    /\ wpos'  = [wpos EXCEPT ![w] = lo]
    /\ wend'  = [wend EXCEPT ![w] = lo + n]
    /\ wval'  = [wval EXCEPT ![w] = v]
    /\ UNCHANGED <<device, tables, closing, rvars>>

\* The lock is taken, and markFetchesDirty flags the fetches it overlaps.
WriteStart(w, lo, n, v) ==
    /\ lock = NoThread
    /\ lock' = w
    /\ dirtied' = dirtied \cup (fetching \cap LinesOf(lo, lo + n))
    /\ wfrom' = [wfrom EXCEPT ![w] = lo]
    /\ wpos'  = [wpos EXCEPT ![w] = lo]
    /\ wend'  = [wend EXCEPT ![w] = lo + n]
    /\ wval'  = [wval EXCEPT ![w] = v]
    /\ UNCHANGED <<device, lines, older, fetching, closing, rvars>>

\* One block of delegate.writeBlocks reaches the device.
WriteBlock(w) ==
    /\ lock = w
    /\ wpos[w] < wend[w]
    /\ closing # "closed"
    /\ device' = [device EXCEPT ![wpos[w]] = wval[w]]
    /\ wpos' = [wpos EXCEPT ![w] = @ + 1]
    /\ UNCHANGED <<tables, lock, closing, rvars, wfrom, wend, wval>>

\* The lock is released; the writer is idle again.
WriteEnd(w) ==
    /\ lock' = NoThread
    /\ wfrom' = [wfrom EXCEPT ![w] = 0]
    /\ wpos' = [wpos EXCEPT ![w] = 0]
    /\ wend' = [wend EXCEPT ![w] = 0]
    /\ wval' = [wval EXCEPT ![w] = NoData]

WriteRange(w) == wfrom[w] .. wend[w] - 1
WrittenLines(w) == {l \in Cached : l \in LinesOf(wfrom[w], wend[w])}

\* lines.get of each line in ls, in ascending order.
TouchAll(ls) ==
    Forget(older, ls) \cup ((Cached \ ls) \X ls) \cup {p \in ls \X ls : p[1] < p[2]}

\* patchRange: the written bytes go into the cached arrays in place.
WriteDone(w) ==
    /\ lock = w
    /\ wpos[w] = wend[w]
    /\ lines' = [l \in Lines |->
                   IF l \in Cached
                   THEN [b \in Blocks |-> IF b \in WriteRange(w) \cap LineBlocks(l)
                                          THEN wval[w] ELSE lines[l][b]]
                   ELSE NoLine]
    /\ older' = TouchAll(WrittenLines(w))
    /\ WriteEnd(w)
    /\ UNCHANGED <<device, fetching, dirtied, closing, rvars>>

\* Take the lines in ls out of the table and zero their arrays.
Drop(ls) ==
    /\ lines' = [l \in Lines |-> IF l \in ls THEN NoLine ELSE lines[l]]
    /\ older' = Forget(older, ls)
    /\ shared' = {r \in shared : LineOf(pos[r]) \notin ls}
    /\ buf' = [r \in Readers |-> IF SharesOneOf(r, ls) THEN Blank ELSE buf[r]]

\* Mutant: a write that throws leaves the cached lines as they are.
WriteFailKeepsLines(w) ==
    /\ lock = w
    /\ wpos[w] < wend[w]
    /\ WriteEnd(w)
    /\ UNCHANGED <<device, tables, closing, rvars>>

\* The delegate throws part-way, and invalidateRange drops what it may have changed.
WriteFail(w) ==
    /\ lock = w
    /\ wpos[w] < wend[w]
    /\ Drop(WrittenLines(w))
    /\ WriteEnd(w)
    /\ UNCHANGED <<device, fetching, dirtied, closing, rpc, from, pos, end, fpos>>

-----------------------------------------------------------------------------
(* invalidate and close.                                                   *)

DropAll ==
    /\ lock = NoThread
    /\ dirtied' = dirtied \cup fetching
    /\ Drop(Lines)
    /\ UNCHANGED <<device, fetching, lock, rpc, from, pos, end, fpos, wvars>>

Invalidate == DropAll /\ UNCHANGED closing

\* close() invalidates, and then, outside the lock, closes the delegate.
CloseDrop == closing = "open" /\ DropAll /\ closing' = "dropped"

CloseDelegate ==
    /\ closing = "dropped"
    /\ closing' = "closed"
    /\ UNCHANGED <<device, tables, lock, rvars, wvars>>

-----------------------------------------------------------------------------
Request == {q \in Blocks \X (1 .. BlockCount) : q[1] + q[2] <= BlockCount}

ReaderStep(r) ==
    \/ \E q \in Request : ReadStart(r, q[1], q[2])
    \/ ReadReturn(r)
    \/ BypassBlock(r)
    \/ BypassFail(r)
    \/ LookupHit(r)
    \/ LookupMiss(r)
    \/ FetchBlock(r)
    \/ FetchFail(r)
    \/ FetchSuperseded(r)
    \/ FetchPublish(r)
    \/ CopyBlock(r)

WriterStep(w) ==
    \/ \E q \in Request, v \in Data : WriteStart(w, q[1], q[2], v)
    \/ WriteBlock(w)
    \/ WriteDone(w)
    \/ WriteFail(w)

Next ==
    \/ \E r \in Readers : ReaderStep(r)
    \/ \E w \in Writers : WriterStep(w)
    \/ Invalidate
    \/ CloseDrop
    \/ CloseDelegate

Spec == Init /\ [][Next]_vars

-----------------------------------------------------------------------------
(* Properties.                                                             *)

(* The shape of the state: the cache's entries, the device below it, and    *)
(* every caller's place in the locked and unlocked parts of a call.         *)
TypeOK ==
    /\ device \in [Blocks -> Data]
    /\ lines \in [Lines -> Array \cup {NoLine}]
    /\ older \subseteq Lines \X Lines
    /\ fetching \subseteq Lines
    /\ dirtied \subseteq Lines
    /\ lock \in Writers \cup {NoThread}
    /\ closing \in {"open", "dropped", "closed"}
    /\ rpc \in [Readers -> {"idle", "bypass", "lookup", "fetch", "copy", "return"}]
    /\ from \in [Readers -> 0 .. BlockCount]
    /\ pos \in [Readers -> 0 .. BlockCount]
    /\ end \in [Readers -> 0 .. BlockCount]
    /\ shared \subseteq Readers
    /\ buf \in [Readers -> Array]
    /\ fpos \in [Readers -> Nat]
    /\ wfrom \in [Writers -> 0 .. BlockCount]
    /\ wpos \in [Writers -> 0 .. BlockCount]
    /\ wend \in [Writers -> 0 .. BlockCount]
    /\ wval \in [Writers -> Data \cup {NoData}]

\* The blocks of the write in progress, which its transfer is changing.
InFlight == IF lock = NoThread THEN {} ELSE WriteRange(lock)

\* "The invariant is 'device and cache agree'" (comment on lineFor): a cached
\* block that no write is changing right now equals the device's block.
CacheAgreesWithDevice ==
    \A l \in Lines : lines[l] # NoLine =>
        \A b \in LineBlocks(l) \ InFlight : lines[l][b] = device[b]

\* A fetch that lineFor registered is going on, and a dirtied mark belongs to a
\* registered fetch: a mark that outlived its fetch would keep the next fetch of
\* the line out of the cache.
InFlightMarksHaveOwner ==
    /\ dirtied \subseteq fetching
    /\ \A l \in fetching : \E r \in Readers : rpc[r] = "fetch" /\ LineOf(pos[r]) = l

-----------------------------------------------------------------------------
(* fetching is a set of lines, not a count of fetches, so the agreement    *)
(* above depends on no two threads fetching one line at the same time.     *)

SoleFetcher ==
    \A r, s \in Readers :
        r # s /\ rpc[r] = "fetch" /\ rpc[s] = "fetch" => LineOf(pos[r]) # LineOf(pos[s])

SoleFetchNext == Next /\ SoleFetcher'
SoleFetchSpec == Init /\ [][SoleFetchNext]_vars
-----------------------------------------------------------------------------
(* What makes the agreement inductive.                                     *)

\* Where the calls in progress are: a reader that still looks for a line has a
\* block to deliver, a reader that shares an array shares a cached one, a fetch
\* starts at its line's first block, and the writer that holds the lock is inside
\* its request.
PositionsOK ==
    /\ \A r \in Readers : rpc[r] \in {"lookup", "fetch", "copy"} => pos[r] < end[r]
    /\ \A r \in shared : rpc[r] = "copy" /\ lines[LineOf(pos[r])] # NoLine
    /\ \A r \in Readers : rpc[r] = "fetch" => fpos[r] >= FirstBlock(LineOf(pos[r]))
    /\ lock # NoThread =>
         /\ wfrom[lock] <= wpos[lock] /\ wpos[lock] <= wend[lock]
         /\ wval[lock] \in Data

\* The write that holds the lock has put its data into the blocks it has passed.
Landed == lock # NoThread => \A b \in wfrom[lock] .. wpos[lock] - 1 : device[b] = wval[lock]

\* A fetch that nothing has flagged is registered, no write is changing its line,
\* and what it has read so far is what the device holds.
CleanFetch ==
    \A r \in Readers : rpc[r] = "fetch" =>
        LET l == LineOf(pos[r]) IN
        /\ l \in fetching
        /\ l \notin dirtied =>
             \A b \in LineBlocks(l) :
                 b \notin InFlight /\ (b < fpos[r] => buf[r][b] = device[b])

AgreementInv ==
    TypeOK /\ PositionsOK /\ SoleFetcher /\ Landed /\ CleanFetch /\ CacheAgreesWithDevice
=============================================================================
