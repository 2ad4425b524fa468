---------------------- MODULE CachedBlockDeviceProofs ----------------------
(***************************************************************************)
(* Proofs about modules CachedBlockDevice and CachedReads, for every       *)
(* number of threads, every device size, line size and cache size: first   *)
(* that device and cache agree, then that the cache is transparent, module *)
(* CachedReads implementing module BlockDeviceContract as long as no line  *)
(* is fetched twice at once and no array is zeroed under a reader.         *)
(***************************************************************************)
EXTENDS CachedReads, FiniteSetTheorems, WellFoundedInduction, TLAPS

USE CacheAssumption

-----------------------------------------------------------------------------
(* Line arithmetic.                                                        *)

\* Division rounds down.
LEMMA DivBounds ==
    ASSUME NEW a \in Nat, NEW k \in Nat \ {0}
    PROVE  /\ a \div k \in Nat
           /\ k * (a \div k) <= a
           /\ a < k * (a \div k) + k
  OBVIOUS

\* The next multiple of k is k further on.
LEMMA NextMultiple ==
    ASSUME NEW k \in Nat \ {0}, NEW p \in Nat, NEW q \in Nat, p < q
    PROVE  k * p + k <= k * q
<1>1. PICK d \in Nat : q = p + 1 + d
  <2>1. q - p - 1 \in Nat /\ q = p + 1 + (q - p - 1)
    OBVIOUS
  <2> QED
    BY <2>1
<1>2. k * d \in Nat /\ k * p \in Nat
  OBVIOUS
<1>3. k * q = k * p + k + k * d
  BY <1>1
<1> QED
  BY <1>2, <1>3

\* A later block is in the same line or a later one.
LEMMA LineOfMonotonic ==
    ASSUME NEW a \in Nat, NEW b \in Nat, a <= b
    PROVE  LineOf(a) \in Nat /\ LineOf(b) \in Nat /\ LineOf(a) <= LineOf(b)
<1> DEFINE k == BlocksPerLine
           q == LineOf(a)
           p == LineOf(b)
<1>1. k \in Nat \ {0}
  OBVIOUS
<1>2. q \in Nat /\ k * q <= a
  BY <1>1, DivBounds DEF LineOf
<1>3. p \in Nat /\ b < k * p + k
  BY <1>1, DivBounds DEF LineOf
<1>4. k * p \in Nat /\ k * q \in Nat
  BY <1>1, <1>2, <1>3
<1> HIDE DEF k, q, p
<1>5. ~(p < q)
  <2>1. SUFFICES ASSUME p < q PROVE FALSE
    OBVIOUS
  <2>2. k * p + k <= k * q
    BY <2>1, <1>1, <1>2, <1>3, NextMultiple
  <2> QED
    BY <2>2, <1>1, <1>2, <1>3, <1>4
<1>6. q <= p
  BY <1>2, <1>3, <1>5
<1> QED
  BY <1>2, <1>3, <1>6 DEF q, p

\* FirstBlock is not after any block of its line.
LEMMA FirstBlockIsFirst ==
    ASSUME NEW b \in Nat
    PROVE  FirstBlock(LineOf(b)) \in Nat /\ FirstBlock(LineOf(b)) <= b
<1>1. LineOf(b) \in Nat /\ BlocksPerLine * LineOf(b) <= b
  BY DivBounds DEF LineOf
<1>2. FirstBlock(LineOf(b)) = BlocksPerLine * LineOf(b)
  BY <1>1 DEF FirstBlock
<1>3. BlocksPerLine * LineOf(b) \in Nat
  BY <1>1
<1> QED
  BY <1>1, <1>2, <1>3

\* A fetch that started no later than its line's first block and has left the
\* line has passed every block of it.
LEMMA FetchedAll ==
    ASSUME NEW l \in Lines, NEW f \in Nat, f \notin LineBlocks(l),
           NEW b \in LineBlocks(l), f >= FirstBlock(l)
    PROVE  b < f
<1>1. b \in Blocks /\ b \in Nat /\ LineOf(b) = l
  BY DEF LineBlocks, Blocks
<1>2. SUFFICES ASSUME f <= b PROVE FALSE
  BY <1>1
<1>3. f \in Blocks
  BY <1>1, <1>2 DEF Blocks
<1>4. LineOf(f) <= l /\ LineOf(f) \in Nat /\ l \in Nat
  BY <1>1, <1>2, LineOfMonotonic
<1>5. l <= LineOf(f)
  <2>1. LineOf(FirstBlock(l)) = l
    <3>1. FirstBlock(l) = BlocksPerLine * l /\ FirstBlock(l) \in Nat
      BY <1>4 DEF FirstBlock
    <3>2. (BlocksPerLine * l) \div BlocksPerLine = l
      <4> DEFINE q == (BlocksPerLine * l) \div BlocksPerLine
      <4>1. BlocksPerLine * l \in Nat
        BY <1>4
      <4>2. /\ q \in Nat
            /\ BlocksPerLine * q <= BlocksPerLine * l
            /\ BlocksPerLine * l < BlocksPerLine * q + BlocksPerLine
        BY <4>1, DivBounds
      <4> HIDE DEF q
      <4>3. BlocksPerLine * q \in Nat
        BY <4>2
      <4>4. ~(q < l)
        <5>1. SUFFICES ASSUME q < l PROVE FALSE
          OBVIOUS
        <5>2. BlocksPerLine * q + BlocksPerLine <= BlocksPerLine * l
          BY <5>1, <4>2, <1>4, NextMultiple
        <5> QED
          BY <5>2, <4>1, <4>2, <4>3
      <4>5. ~(l < q)
        <5>1. SUFFICES ASSUME l < q PROVE FALSE
          OBVIOUS
        <5>2. BlocksPerLine * l + BlocksPerLine <= BlocksPerLine * q
          BY <5>1, <4>2, <1>4, NextMultiple
        <5> QED
          BY <5>2, <4>1, <4>2, <4>3
      <4>6. q = l
        BY <4>2, <4>4, <4>5, <1>4
      <4> QED
        BY <4>6 DEF q
    <3> QED
      BY <3>1, <3>2 DEF LineOf
  <2>2. FirstBlock(l) \in Nat
    BY <1>4 DEF FirstBlock
  <2> QED
    BY <2>1, <2>2, LineOfMonotonic
<1>6. LineOf(f) = l
  BY <1>4, <1>5
<1> QED
  BY <1>3, <1>6 DEF LineBlocks
-----------------------------------------------------------------------------
(* Types and positions.                                                    *)

TypeInv == TypeOK /\ PositionsOK

\* Every step keeps the state well typed and the calls inside their requests.
LEMMA TypeStep == TypeInv /\ [Next]_vars => TypeInv'
<1> SUFFICES ASSUME TypeInv, [Next]_vars PROVE TypeInv'
  OBVIOUS
<1> USE DEF TypeInv, TypeOK, PositionsOK, tables, rvars, wvars
<1>a. Blank \in Array /\ NoLine \notin Array
  BY DEF Blank, Array, Values, Blocks
<1>l. \A b \in Blocks : LineOf(b) \in Lines
  BY DEF Lines
<1>n. \A b \in Blocks : LineOf(b) \in Nat /\ FirstBlock(LineOf(b)) \in Nat
  <2> TAKE b \in Blocks
  <2>1. b \in Nat
    BY DEF Blocks
  <2>2. LineOf(b) \in Nat
    BY <2>1, LineOfMonotonic
  <2>3. FirstBlock(LineOf(b)) \in Nat
    BY <2>1, FirstBlockIsFirst
  <2> QED
    BY <2>2, <2>3
<1>p. \A r \in Readers : rpc[r] \in {"lookup", "fetch", "copy"} => pos[r] \in Blocks
  BY DEF Blocks
<1>r. ASSUME NEW r \in Readers, ReaderStep(r) PROVE TypeInv'
  <2>1. CASE \E q \in Request : ReadStart(r, q[1], q[2])
    <3>1. PICK q \in Request : ReadStart(r, q[1], q[2])
      BY <2>1
    <3>2. /\ q[1] \in 0 .. BlockCount /\ q[1] + q[2] \in 0 .. BlockCount
          /\ q[1] < q[1] + q[2]
      BY DEF Request, Blocks
    <3>3. r \notin shared
      BY <3>1 DEF ReadStart
    <3> QED
      BY <3>1, <3>2, <3>3 DEF ReadStart
  <2>2. CASE ReadReturn(r)
    BY <2>2, <1>a DEF ReadReturn, ReadEnd
  <2>3. CASE BypassBlock(r)
    BY <2>3 DEF BypassBlock
  <2>4. CASE BypassFail(r)
    BY <2>4, <1>a DEF BypassFail, ReadEnd
  <2>5. CASE LookupHit(r)
    <3>1. older' \subseteq Lines \X Lines
      BY <2>5, <1>l, <1>p DEF LookupHit, Touch, Cached
    <3> QED
      BY <2>5, <3>1 DEF LookupHit, Cached
  <2>6. CASE LookupMiss(r)
    <3>1. pos[r] \in Blocks /\ LineOf(pos[r]) \in Lines /\ FirstBlock(LineOf(pos[r])) \in Nat
      BY <2>6, <1>l, <1>n, <1>p DEF LookupMiss
    <3> QED
      BY <2>6, <3>1 DEF LookupMiss
  <2>7. CASE FetchBlock(r)
    <3>1. fpos[r] \in Blocks /\ device[fpos[r]] \in Values
      BY <2>7 DEF FetchBlock, LineBlocks, Values
    <3>2. buf' \in [Readers -> Array]
      BY <2>7, <3>1 DEF FetchBlock, Array
    <3>3. /\ rpc[r] = "fetch" /\ fpos' = [fpos EXCEPT ![r] = fpos[r] + 1]
          /\ UNCHANGED <<device, lines, older, fetching, dirtied, lock, closing, rpc, from, pos, end, shared>>
          /\ UNCHANGED <<wfrom, wpos, wend, wval>>
      BY <2>7 DEF FetchBlock
    <3>4. fpos' \in [Readers -> Nat]
      BY <3>3
    <3>5. TypeOK'
      BY <3>2, <3>3, <3>4
    <3>6. ASSUME NEW s \in Readers, rpc[s] = "fetch" PROVE fpos'[s] >= FirstBlock(LineOf(pos[s]))
      <4>1. fpos[s] \in Nat /\ fpos[s] >= FirstBlock(LineOf(pos[s])) /\ FirstBlock(LineOf(pos[s])) \in Nat
        BY <1>n, <1>p, <3>6
      <4>2. fpos'[s] = fpos[s] \/ fpos'[s] = fpos[s] + 1
        BY <3>3
      <4> QED
        BY <4>1, <4>2
    <3>7. PositionsOK'
      BY <3>3, <3>6
    <3> QED
      BY <3>5, <3>7
  <2>8. CASE FetchFail(r)
    BY <2>8, <1>a DEF FetchFail, ReadEnd
  <2>9. CASE FetchSuperseded(r)
    <3>1. older' \subseteq Lines \X Lines
      BY <2>9, <1>l, <1>p DEF FetchSuperseded, Touch, Cached
    <3> QED
      BY <2>9, <3>1, <1>a DEF FetchSuperseded, Cached
  <2>10. CASE FetchPublish(r)
    <3> DEFINE l       == LineOf(pos[r])
               keys    == Cached \cup {l}
               order   == Touch(l, keys)
               evicted == IF Cardinality(keys) > MaxLines THEN {Eldest(order, keys)} ELSE {}
    <3>1. l \in Lines
      BY <2>10, <1>l, <1>p DEF FetchPublish
    <3>2. /\ lines' = [k \in Lines |-> IF k \in evicted THEN NoLine
                                       ELSE IF k = l THEN buf[r] ELSE lines[k]]
          /\ older' = Forget(order, evicted)
          /\ shared' = {s \in shared : LineOf(pos[s]) \notin evicted \cup {l}}
                           \cup {s \in {r} : l \notin evicted}
          /\ buf' = [s \in Readers |->
                       IF s = r \/ SharesOneOf(s, evicted) THEN Blank
                       ELSE IF SharesOneOf(s, {l}) THEN lines[l]
                       ELSE buf[s]]
      BY <2>10 DEF FetchPublish
    <3>3. older' \subseteq Lines \X Lines
      <4>1. order \subseteq Lines \X Lines
        BY <3>1 DEF Touch, Cached
      <4> QED
        BY <3>2, <4>1 DEF Forget
    <3> HIDE DEF evicted, order, keys
    <3>4. lines' \in [Lines -> Array \cup {NoLine}]
      BY <3>2
    <3>5. shared' \subseteq Readers
      BY <3>2
    <3>6. buf' \in [Readers -> Array]
      <4>1. \A s \in Readers : SharesOneOf(s, {l}) => lines[l] \in Array
        BY <3>1 DEF SharesOneOf
      <4> QED
        BY <3>2, <4>1, <1>a
    <3>7. \A s \in shared' : rpc'[s] = "copy" /\ lines'[LineOf(pos'[s])] # NoLine
      <4>1. rpc' = [rpc EXCEPT ![r] = "copy"] /\ pos' = pos
        BY <2>10 DEF FetchPublish
      <4>2. ASSUME NEW s \in shared'
            PROVE  rpc'[s] = "copy" /\ lines'[LineOf(pos'[s])] # NoLine
        <5>1. CASE s = r
          <6>1. l \notin evicted
            BY <4>2, <5>1, <3>2
          <6>2. lines'[l] = buf[r]
            BY <6>1, <3>1, <3>2
          <6> QED
            BY <6>2, <5>1, <4>1, <1>a
        <5>2. CASE s # r
          <6>1. s \in shared /\ LineOf(pos[s]) \notin evicted \cup {l}
            BY <4>2, <5>2, <3>2
          <6>2. rpc[s] = "copy" /\ pos[s] \in Blocks /\ lines[LineOf(pos[s])] # NoLine
            BY <6>1, <1>p
          <6>3. lines'[LineOf(pos[s])] = lines[LineOf(pos[s])]
            BY <6>1, <6>2, <3>2, <1>l
          <6> QED
            BY <6>2, <6>3, <5>2, <4>1
        <5> QED
          BY <5>1, <5>2
      <4> QED
        BY <4>2
    <3> QED
      BY <2>10, <3>3, <3>4, <3>5, <3>6, <3>7 DEF FetchPublish
  <2>11. CASE CopyBlock(r)
    BY <2>11, <1>a DEF CopyBlock
  <2> QED
    BY <1>r, <2>1, <2>2, <2>3, <2>4, <2>5, <2>6, <2>7, <2>8, <2>9, <2>10, <2>11 DEF ReaderStep
<1>d. ASSUME NEW ls \in SUBSET Lines, Drop(ls), UNCHANGED <<rpc, pos>>
      PROVE  /\ lines' \in [Lines -> Array \cup {NoLine}]
             /\ older' \subseteq Lines \X Lines
             /\ shared' \subseteq Readers
             /\ buf' \in [Readers -> Array]
             /\ \A r \in shared' : rpc'[r] = "copy" /\ lines'[LineOf(pos'[r])] # NoLine
  <2>1. lines' \in [Lines -> Array \cup {NoLine}] /\ older' \subseteq Lines \X Lines
    BY <1>d DEF Drop, Forget
  <2>2. shared' \subseteq Readers
    BY <1>d DEF Drop
  <2>3. buf' \in [Readers -> Array]
    BY <1>d, <1>a DEF Drop
  <2>4. \A r \in shared' : r \in shared /\ LineOf(pos[r]) \notin ls
    BY <1>d DEF Drop
  <2>5. \A k \in Lines : k \notin ls => lines'[k] = lines[k]
    BY <1>d DEF Drop
  <2> QED
    BY <1>d, <2>1, <2>2, <2>3, <2>4, <2>5, <1>p, <1>l
<1>w. ASSUME NEW w \in Writers, WriterStep(w) PROVE TypeInv'
  <2>1. CASE \E q \in Request, v \in Data : WriteStart(w, q[1], q[2], v)
    <3>1. PICK q \in Request, v \in Data : WriteStart(w, q[1], q[2], v)
      BY <2>1
    <3>2. q[1] \in 0 .. BlockCount /\ q[1] + q[2] \in 0 .. BlockCount /\ q[1] <= q[1] + q[2]
      BY DEF Request, Blocks
    <3>3. /\ lock' = w /\ wfrom' = [wfrom EXCEPT ![w] = q[1]] /\ wpos' = [wpos EXCEPT ![w] = q[1]]
          /\ wend' = [wend EXCEPT ![w] = q[1] + q[2]] /\ wval' = [wval EXCEPT ![w] = v]
          /\ UNCHANGED <<device, lines, older, fetching, closing>>
          /\ UNCHANGED <<rpc, from, pos, end, shared, buf, fpos>>
      BY <3>1 DEF WriteStart
    <3>4. dirtied' \subseteq Lines
      BY <3>1 DEF WriteStart
    <3>5. /\ wfrom' \in [Writers -> 0 .. BlockCount] /\ wpos' \in [Writers -> 0 .. BlockCount]
          /\ wend' \in [Writers -> 0 .. BlockCount] /\ wval' \in [Writers -> Data \cup {NoData}]
      BY <3>2, <3>3
    <3>6. TypeOK'
      BY <3>3, <3>4, <3>5
    <3>7. wfrom'[w] <= wpos'[w] /\ wpos'[w] <= wend'[w] /\ wval'[w] \in Data
      BY <3>2, <3>3
    <3>8. PositionsOK'
      BY <3>3, <3>7
    <3> QED
      BY <3>6, <3>8
  <2>2. CASE WriteBlock(w)
    <3>1. w # NoThread /\ lock = w /\ wpos[w] \in Blocks /\ wval[w] \in Data
      BY <2>2 DEF WriteBlock, Blocks
    <3> QED
      BY <2>2, <3>1 DEF WriteBlock
  <2>3. CASE WriteDone(w)
    <3>1. lock = w /\ w # NoThread /\ wval[w] \in Values
      BY <2>3 DEF WriteDone, Values
    <3>2. /\ lines' \in [Lines -> Array \cup {NoLine}]
          /\ \A k \in Lines : lines[k] # NoLine => lines'[k] # NoLine
      <4>1. ASSUME NEW k \in Lines, lines[k] # NoLine
            PROVE  lines'[k] \in Array
        BY <4>1, <2>3, <3>1 DEF WriteDone, Array, Cached
      <4>2. ASSUME NEW k \in Lines, lines[k] = NoLine
            PROVE  lines'[k] = NoLine
        BY <4>2, <2>3 DEF WriteDone, Cached
      <4>3. lines' = [k \in Lines |-> lines'[k]]
        BY <2>3 DEF WriteDone
      <4> QED
        BY <4>1, <4>2, <4>3, <1>a
    <3>3. older' \subseteq Lines \X Lines
      BY <2>3 DEF WriteDone, TouchAll, Forget, WrittenLines, Cached
    <3> QED
      <4>1. \A s \in shared' : rpc'[s] = "copy" /\ lines'[LineOf(pos'[s])] # NoLine
        BY <2>3, <3>2, <1>p, <1>l DEF WriteDone
      <4>2. lock' = NoThread /\ 0 \in 0 .. BlockCount
        BY <2>3 DEF WriteDone, WriteEnd
      <4>3. /\ wfrom' \in [Writers -> 0 .. BlockCount]
            /\ wpos' \in [Writers -> 0 .. BlockCount]
            /\ wend' \in [Writers -> 0 .. BlockCount]
            /\ wval' \in [Writers -> Data \cup {NoData}]
        BY <2>3, <4>2 DEF WriteDone, WriteEnd
      <4>4. UNCHANGED <<device, fetching, dirtied, closing, rpc, from, pos, end, shared, buf, fpos>>
        BY <2>3 DEF WriteDone
      <4> QED
        BY <3>2, <3>3, <4>1, <4>2, <4>3, <4>4
  <2>4. CASE WriteFail(w)
    <3>1. WrittenLines(w) \in SUBSET Lines
      BY DEF WrittenLines, Cached
    <3> QED
      BY <2>4, <3>1, <1>d DEF WriteFail, WriteEnd
  <2> QED
    BY <1>w, <2>1, <2>2, <2>3, <2>4 DEF WriterStep
<1>x. CASE DropAll /\ closing' \in {"open", "dropped", "closed"}
  <2>1. Lines \in SUBSET Lines
    OBVIOUS
  <2> QED
    BY <1>x, <1>d, <2>1 DEF DropAll
<1>c. CASE CloseDelegate
  BY <1>c DEF CloseDelegate
<1>u. CASE UNCHANGED vars
  BY <1>u DEF vars
<1> QED
  BY <1>r, <1>w, <1>x, <1>c, <1>u DEF Next, Invalidate, CloseDrop

\* Every variable keeps its type: requests stay inside the device, a fetch stays
\* inside its line, and what is cached or read is block content.
THEOREM TypeCorrect == Spec => []TypeOK
<1>1. Init => TypeInv
  BY DEF Init, TypeInv, TypeOK, PositionsOK, Blank, Array, Values, Lines
<1>2. TypeInv /\ [Next]_vars => TypeInv'
  BY TypeStep
<1>3. TypeInv => TypeOK
  BY DEF TypeInv
<1> QED
  BY <1>1, <1>2, <1>3, PTL DEF Spec
-----------------------------------------------------------------------------
(* The marks of fetches in flight.                                         *)

\* Every step keeps the marks with the fetches they belong to.
LEMMA MarksStep ==
    TypeInv /\ InFlightMarksHaveOwner /\ [Next]_vars => InFlightMarksHaveOwner'
<1> SUFFICES ASSUME TypeInv, InFlightMarksHaveOwner, [Next]_vars
             PROVE  InFlightMarksHaveOwner'
  OBVIOUS
<1> USE DEF InFlightMarksHaveOwner, tables, rvars, wvars
<1>t. /\ rpc \in [Readers -> {"idle", "bypass", "lookup", "fetch", "copy", "return"}]
      /\ pos \in [Readers -> 0 .. BlockCount]
  BY DEF TypeInv, TypeOK
<1>q. ASSUME UNCHANGED <<fetching, dirtied>>,
             \A s \in Readers : rpc[s] = "fetch" => rpc'[s] = "fetch" /\ pos'[s] = pos[s]
      PROVE  InFlightMarksHaveOwner'
  BY <1>q
<1>e. ASSUME NEW r \in Readers, fetching' = fetching \ {LineOf(pos[r])},
             dirtied' \subseteq fetching',
             \A s \in Readers : s # r /\ rpc[s] = "fetch" => rpc'[s] = "fetch" /\ pos'[s] = pos[s]
      PROVE  InFlightMarksHaveOwner'
  BY <1>e
<1>r. ASSUME NEW r \in Readers, ReaderStep(r) PROVE InFlightMarksHaveOwner'
  <2>1. CASE \E q \in Request : ReadStart(r, q[1], q[2])
    BY <2>1, <1>q, <1>t DEF ReadStart
  <2>2. CASE ReadReturn(r)
    BY <2>2, <1>q, <1>t DEF ReadReturn, ReadEnd
  <2>3. CASE BypassBlock(r)
    BY <2>3, <1>q, <1>t DEF BypassBlock
  <2>4. CASE BypassFail(r)
    BY <2>4, <1>q, <1>t DEF BypassFail, ReadEnd
  <2>5. CASE LookupHit(r)
    BY <2>5, <1>q, <1>t DEF LookupHit
  <2>6. CASE LookupMiss(r)
    BY <2>6, <1>t DEF LookupMiss
  <2>7. CASE FetchBlock(r)
    BY <2>7, <1>q, <1>t DEF FetchBlock
  <2>8. CASE FetchFail(r)
    BY <2>8, <1>e, <1>t DEF FetchFail, ReadEnd
  <2>9. CASE FetchSuperseded(r)
    BY <2>9, <1>e, <1>t DEF FetchSuperseded
  <2>10. CASE FetchPublish(r)
    <3>1. /\ fetching' = fetching \ {LineOf(pos[r])}
          /\ LineOf(pos[r]) \notin dirtied
          /\ dirtied' = dirtied /\ pos' = pos /\ rpc' = [rpc EXCEPT ![r] = "copy"]
      BY <2>10 DEF FetchPublish
    <3> QED
      BY <3>1, <1>e, <1>t
  <2>11. CASE CopyBlock(r)
    BY <2>11, <1>q, <1>t DEF CopyBlock
  <2> QED
    BY <1>r, <2>1, <2>2, <2>3, <2>4, <2>5, <2>6, <2>7, <2>8, <2>9, <2>10, <2>11 DEF ReaderStep
<1>w. ASSUME NEW w \in Writers, WriterStep(w) PROVE InFlightMarksHaveOwner'
  <2>1. CASE \E q \in Request, v \in Data : WriteStart(w, q[1], q[2], v)
    BY <2>1 DEF WriteStart
  <2>2. CASE WriteBlock(w)
    BY <2>2, <1>q DEF WriteBlock
  <2>3. CASE WriteDone(w)
    BY <2>3, <1>q DEF WriteDone
  <2>4. CASE WriteFail(w)
    BY <2>4, <1>q DEF WriteFail
  <2> QED
    BY <1>w, <2>1, <2>2, <2>3, <2>4 DEF WriterStep
<1>d. CASE DropAll
  BY <1>d DEF DropAll
<1>c. CASE CloseDelegate
  BY <1>c, <1>q DEF CloseDelegate
<1>u. CASE UNCHANGED vars
  BY <1>u, <1>q DEF vars
<1> QED
  BY <1>r, <1>w, <1>d, <1>c, <1>u DEF Next, Invalidate, CloseDrop

\* lineFor never leaves a mark behind: whatever fails, is superseded or is
\* invalidated, every registered fetch is going on and every dirtied mark belongs
\* to a registered fetch.
THEOREM MarksOwned == Spec => []InFlightMarksHaveOwner
<1>1. Init => TypeInv /\ InFlightMarksHaveOwner
  BY DEF Init, TypeInv, TypeOK, PositionsOK, Blank, Array, Values, Lines, InFlightMarksHaveOwner
<1>2. TypeInv /\ InFlightMarksHaveOwner /\ [Next]_vars => (TypeInv /\ InFlightMarksHaveOwner)'
  BY TypeStep, MarksStep
<1> QED
  BY <1>1, <1>2, PTL DEF Spec

-----------------------------------------------------------------------------
(* The cache agrees with the device.                                       *)

\* A block belongs to the write's range only if its line is one the write covers.
LEMMA RangeInLines ==
    ASSUME NEW lo \in Nat, NEW hi \in Nat, NEW l, l \notin LinesOf(lo, hi), NEW b \in LineBlocks(l)
    PROVE  b \notin lo .. hi - 1
  BY DEF LinesOf, LineBlocks

\* Every step keeps the fetches in flight, the table and the device together.
LEMMA AgreementStep == AgreementInv /\ [SoleFetchNext]_vars => AgreementInv'
<1> SUFFICES ASSUME AgreementInv, [SoleFetchNext]_vars PROVE AgreementInv'
  OBVIOUS
<1>t. TypeInv /\ TypeOK /\ PositionsOK /\ SoleFetcher /\ Landed /\ CleanFetch /\ CacheAgreesWithDevice
  BY DEF AgreementInv, TypeInv
<1>n. [Next]_vars
  BY DEF SoleFetchNext
<1>1. TypeOK' /\ PositionsOK'
  BY <1>t, <1>n, TypeStep DEF TypeInv
<1>2. SoleFetcher'
  BY <1>t DEF SoleFetchNext, SoleFetcher, vars, rvars
<1> DEFINE Kept == Landed /\ CleanFetch /\ CacheAgreesWithDevice
<1> USE DEF tables, rvars, wvars
<1>y. /\ rpc \in [Readers -> {"idle", "bypass", "lookup", "fetch", "copy", "return"}]
      /\ pos \in [Readers -> 0 .. BlockCount]
      /\ fpos \in [Readers -> Nat]
      /\ buf \in [Readers -> Array]
      /\ lines \in [Lines -> Array \cup {NoLine}]
      /\ device \in [Blocks -> Data]
      /\ \A s \in shared : rpc[s] = "copy"
  BY <1>t DEF TypeOK, PositionsOK
<1>p. \A s \in Readers : rpc[s] = "fetch" => pos[s] \in Blocks /\ LineOf(pos[s]) \in Lines
  BY <1>t DEF TypeOK, PositionsOK, Blocks, Lines
<1>f. ASSUME UNCHANGED <<lock, wfrom, wend>> PROVE InFlight' = InFlight
  BY <1>f DEF InFlight, WriteRange
<1>g. ASSUME UNCHANGED <<device, lock, wfrom, wpos, wend, wval>> PROVE Landed'
  BY <1>g, <1>t DEF Landed
\* A step after which every fetch in flight was already so, and unharmed.
<1>h. ASSUME InFlight' \subseteq InFlight, device' = device, dirtied \subseteq dirtied',
             \A s \in Readers : rpc'[s] = "fetch" =>
                /\ rpc[s] = "fetch" /\ pos'[s] = pos[s] /\ fpos'[s] = fpos[s] /\ buf'[s] = buf[s]
                /\ LineOf(pos[s]) \in fetching'
      PROVE  CleanFetch'
  BY <1>h, <1>t DEF CleanFetch
<1>q. ASSUME UNCHANGED <<device, lines, fetching, dirtied, lock, wfrom, wpos, wend, wval>>,
             \A s \in Readers : rpc'[s] = "fetch" =>
                /\ rpc[s] = "fetch" /\ pos'[s] = pos[s] /\ fpos'[s] = fpos[s] /\ buf'[s] = buf[s]
      PROVE  Kept'
  <2>1. InFlight' = InFlight
    BY <1>q, <1>f
  <2>2. CleanFetch'
    BY <2>1, <1>q, <1>h, <1>t DEF CleanFetch
  <2>3. CacheAgreesWithDevice'
    BY <2>1, <1>q, <1>t DEF CacheAgreesWithDevice
  <2> QED
    BY <1>q, <1>g, <2>2, <2>3
<1>r. ASSUME NEW r \in Readers, ReaderStep(r) PROVE Kept'
  <2> DEFINE l == LineOf(pos[r])
  <2>1. CASE \E q \in Request : ReadStart(r, q[1], q[2])
    BY <2>1, <1>q, <1>y DEF ReadStart
  <2>2. CASE ReadReturn(r)
    BY <2>2, <1>q, <1>y DEF ReadReturn, ReadEnd
  <2>3. CASE BypassBlock(r)
    BY <2>3, <1>q, <1>y DEF BypassBlock
  <2>4. CASE BypassFail(r)
    BY <2>4, <1>q, <1>y DEF BypassFail, ReadEnd
  <2>5. CASE LookupHit(r)
    BY <2>5, <1>q, <1>y DEF LookupHit
  <2>6. CASE LookupMiss(r)
    <3>1. InFlight' = {} /\ InFlight = {}
      BY <2>6 DEF LookupMiss, InFlight
    <3>2. CleanFetch'
      <4>1. pos[r] \in Nat /\ rpc' = [rpc EXCEPT ![r] = "fetch"] /\ pos' = pos /\ buf' = buf
            /\ fpos' = [fpos EXCEPT ![r] = FirstBlock(l)] /\ fetching' = fetching \cup {l}
            /\ dirtied' = dirtied /\ device' = device
        BY <2>6, <1>y DEF LookupMiss
      <4>2. ASSUME NEW b \in LineBlocks(l) PROVE ~(b < FirstBlock(l))
        <5>1. b \in Nat /\ LineOf(b) = l
          BY DEF LineBlocks, Blocks
        <5>2. FirstBlock(l) \in Nat /\ FirstBlock(l) <= b
          BY <5>1, FirstBlockIsFirst
        <5> QED
          BY <5>1, <5>2
      <4> HIDE DEF l
      <4>3. ASSUME NEW s \in Readers, rpc'[s] = "fetch", s # r
            PROVE  /\ LineOf(pos'[s]) \in fetching'
                   /\ LineOf(pos'[s]) \notin dirtied' =>
                        \A b \in LineBlocks(LineOf(pos'[s])) : b < fpos'[s] => buf'[s][b] = device'[b]
        BY <4>1, <4>3, <1>t, <1>y DEF CleanFetch
      <4>4. LineOf(pos'[r]) = l /\ fpos'[r] = FirstBlock(l)
        BY <4>1, <1>y DEF l
      <4> QED
        BY <4>1, <4>2, <4>3, <4>4, <3>1 DEF CleanFetch
    <3>3. CacheAgreesWithDevice'
      BY <2>6, <3>1, <1>t DEF CacheAgreesWithDevice, LookupMiss
    <3> QED
      BY <2>6, <1>g, <3>2, <3>3 DEF LookupMiss
  <2>7. CASE FetchBlock(r)
    <3>1. /\ InFlight' = InFlight /\ fpos[r] \in Blocks
          /\ buf' = [buf EXCEPT ![r][fpos[r]] = device[fpos[r]]]
          /\ fpos' = [fpos EXCEPT ![r] = @ + 1]
          /\ UNCHANGED <<device, lines, fetching, dirtied, rpc, pos>>
      BY <2>7, <1>f DEF FetchBlock, LineBlocks
    <3>2. ASSUME NEW b \in Blocks, b < fpos'[r]
          PROVE  buf'[r][b] = IF b < fpos[r] /\ b # fpos[r] THEN buf[r][b] ELSE device[b]
      BY <3>1, <3>2, <1>y DEF Array, Blocks
    <3>3. CleanFetch'
      <4>1. ASSUME NEW s \in Readers, s # r PROVE buf'[s] = buf[s] /\ fpos'[s] = fpos[s]
        BY <4>1, <3>1, <1>y
      <4>2. \A k : LineBlocks(k) \subseteq Blocks
        BY DEF LineBlocks
      <4> QED
        BY <3>1, <3>2, <4>1, <4>2, <1>t DEF CleanFetch
    <3>4. CacheAgreesWithDevice'
      BY <3>1, <1>t DEF CacheAgreesWithDevice
    <3> QED
      BY <2>7, <1>g, <3>3, <3>4 DEF FetchBlock
  <2>e. ASSUME rpc[r] = "fetch", fetching' = fetching \ {l},
               \A s \in Readers : rpc'[s] = "fetch" => s # r /\ rpc[s] = "fetch"
        PROVE  \A s \in Readers : rpc'[s] = "fetch" => LineOf(pos[s]) \in fetching'
    BY <2>e, <1>t DEF SoleFetcher, CleanFetch
  <2>8. CASE FetchFail(r)
    <3>1. InFlight' = {} /\ InFlight = {}
      BY <2>8 DEF FetchFail, InFlight
    <3>2. \A s \in Readers : rpc'[s] = "fetch" =>
             /\ s # r /\ rpc[s] = "fetch" /\ pos'[s] = pos[s] /\ fpos'[s] = fpos[s] /\ buf'[s] = buf[s]
      BY <2>8, <1>y DEF FetchFail, ReadEnd
    <3>3. \A s \in Readers : rpc'[s] = "fetch" => LineOf(pos[s]) \in fetching'
      BY <2>8, <3>2, <2>e DEF FetchFail
    <3>4. \A s \in Readers : rpc'[s] = "fetch" => (LineOf(pos[s]) \in dirtied <=> LineOf(pos[s]) \in dirtied')
      BY <2>8, <3>2, <1>t DEF FetchFail, SoleFetcher
    <3>5. CleanFetch'
      BY <2>8, <3>1, <3>2, <3>3, <3>4, <1>t DEF CleanFetch, FetchFail
    <3>6. CacheAgreesWithDevice'
      BY <2>8, <3>1, <1>t DEF CacheAgreesWithDevice, FetchFail
    <3> QED
      BY <2>8, <1>g, <3>5, <3>6 DEF FetchFail
  <2>9. CASE FetchSuperseded(r)
    <3>1. InFlight' = {} /\ InFlight = {}
      BY <2>9 DEF FetchSuperseded, InFlight
    <3>2. \A s \in Readers : rpc'[s] = "fetch" =>
             /\ s # r /\ rpc[s] = "fetch" /\ pos'[s] = pos[s] /\ fpos'[s] = fpos[s] /\ buf'[s] = buf[s]
      BY <2>9, <1>y DEF FetchSuperseded
    <3>3. \A s \in Readers : rpc'[s] = "fetch" => LineOf(pos[s]) \in fetching'
      BY <2>9, <3>2, <2>e DEF FetchSuperseded
    <3>4. \A s \in Readers : rpc'[s] = "fetch" => (LineOf(pos[s]) \in dirtied <=> LineOf(pos[s]) \in dirtied')
      BY <2>9, <3>2, <1>t DEF FetchSuperseded, SoleFetcher
    <3>5. CleanFetch'
      BY <2>9, <3>1, <3>2, <3>3, <3>4, <1>t DEF CleanFetch, FetchSuperseded
    <3>6. CacheAgreesWithDevice'
      BY <2>9, <3>1, <1>t DEF CacheAgreesWithDevice, FetchSuperseded
    <3> QED
      BY <2>9, <1>g, <3>5, <3>6 DEF FetchSuperseded
  <2>10. CASE FetchPublish(r)
    <3> DEFINE keys    == Cached \cup {l}
               order   == Touch(l, keys)
               evicted == IF Cardinality(keys) > MaxLines THEN {Eldest(order, keys)} ELSE {}
    <3>1. /\ lines' = [k \in Lines |-> IF k \in evicted THEN NoLine
                                       ELSE IF k = l THEN buf[r] ELSE lines[k]]
          /\ buf' = [s \in Readers |->
                       IF s = r \/ SharesOneOf(s, evicted) THEN Blank
                       ELSE IF SharesOneOf(s, {l}) THEN lines[l]
                       ELSE buf[s]]
          /\ rpc[r] = "fetch" /\ fpos[r] \notin LineBlocks(l) /\ l \notin dirtied
          /\ rpc' = [rpc EXCEPT ![r] = "copy"] /\ fetching' = fetching \ {l}
          /\ UNCHANGED <<device, dirtied, lock, pos, fpos, wfrom, wpos, wend, wval>>
      BY <2>10 DEF FetchPublish
    <3> HIDE DEF evicted, order, keys
    <3>2. InFlight' = {} /\ InFlight = {}
      BY <2>10 DEF FetchPublish, InFlight
    <3>3. \A s \in Readers : rpc'[s] = "fetch" => s # r /\ rpc[s] = "fetch" /\ buf'[s] = buf[s]
      BY <3>1, <1>y DEF SharesOneOf
    <3>4. \A s \in Readers : rpc'[s] = "fetch" => LineOf(pos[s]) \in fetching'
      BY <3>1, <3>3, <2>e
    <3>5. CleanFetch'
      BY <3>1, <3>2, <3>3, <3>4, <1>h
    <3>6. \A b \in LineBlocks(l) : buf[r][b] = device[b]
      <4>1. l \in Lines /\ fpos[r] \in Nat /\ fpos[r] >= FirstBlock(l)
        BY <3>1, <1>p, <1>t DEF PositionsOK, TypeOK
      <4>2. \A b \in LineBlocks(l) : b < fpos[r]
        BY <4>1, <3>1, FetchedAll
      <4> QED
        BY <4>2, <3>1, <1>t DEF CleanFetch
    <3>7. CacheAgreesWithDevice'
      BY <3>1, <3>2, <3>6, <1>t DEF CacheAgreesWithDevice
    <3> QED
      BY <3>1, <1>g, <3>5, <3>7
  <2>11. CASE CopyBlock(r)
    BY <2>11, <1>q, <1>y DEF CopyBlock
  <2> QED
    BY <1>r, <2>1, <2>2, <2>3, <2>4, <2>5, <2>6, <2>7, <2>8, <2>9, <2>10, <2>11 DEF ReaderStep
<1>w. ASSUME NEW w \in Writers, WriterStep(w) PROVE Kept'
  <2>t. /\ wfrom \in [Writers -> 0 .. BlockCount] /\ wpos \in [Writers -> 0 .. BlockCount]
        /\ wend \in [Writers -> 0 .. BlockCount] /\ wval \in [Writers -> Data \cup {NoData}]
        /\ w # NoThread
    BY <1>t DEF TypeOK
  <2>1. CASE \E q \in Request, v \in Data : WriteStart(w, q[1], q[2], v)
    <3>1. PICK q \in Request, v \in Data : WriteStart(w, q[1], q[2], v)
      BY <2>1
    <3> DEFINE lo == q[1]
               hi == q[1] + q[2]
    <3>2. lo \in Nat /\ hi \in Nat
      BY DEF Request, Blocks
    <3>3. /\ lock = NoThread /\ lock' = w
          /\ wfrom' = [wfrom EXCEPT ![w] = lo] /\ wpos' = [wpos EXCEPT ![w] = lo]
          /\ wend' = [wend EXCEPT ![w] = hi]
          /\ dirtied' = dirtied \cup (fetching \cap LinesOf(lo, hi))
          /\ UNCHANGED <<device, lines, fetching, rpc, pos, fpos, buf>>
      BY <3>1 DEF WriteStart
    <3> HIDE DEF lo, hi
    <3>4. InFlight = {} /\ InFlight' = lo .. hi - 1
      BY <3>3, <2>t DEF InFlight, WriteRange
    <3>5. Landed'
      BY <3>2, <3>3, <2>t DEF Landed
    <3>6. CleanFetch'
      BY <3>2, <3>3, <3>4, <1>t, RangeInLines DEF CleanFetch
    <3>7. CacheAgreesWithDevice'
      BY <3>3, <3>4, <1>t DEF CacheAgreesWithDevice
    <3> QED
      BY <3>5, <3>6, <3>7
  <2>s. ASSUME lock = w PROVE InFlight = WriteRange(w)
    BY <2>s, <2>t DEF InFlight
  <2>2. CASE WriteBlock(w)
    <3>1. /\ lock = w /\ wpos[w] < wend[w] /\ wfrom[w] <= wpos[w]
          /\ device' = [device EXCEPT ![wpos[w]] = wval[w]]
          /\ wpos' = [wpos EXCEPT ![w] = @ + 1]
          /\ UNCHANGED <<lines, fetching, dirtied, lock, rpc, pos, fpos, buf, wfrom, wend, wval>>
      BY <2>2, <2>t, <1>t DEF WriteBlock, PositionsOK
    <3>2. InFlight' = InFlight /\ wpos[w] \in InFlight /\ wpos[w] \in Blocks
      BY <3>1, <2>s, <2>t, <1>f DEF WriteRange, Blocks
    <3>3. \A b \in Blocks \ InFlight : device'[b] = device[b]
      BY <3>1, <3>2, <1>y
    <3>4. Landed'
      BY <3>1, <3>2, <2>t, <1>t, <1>y DEF Landed, Blocks
    <3>5. \A k : LineBlocks(k) \subseteq Blocks
      BY DEF LineBlocks
    <3>6. CleanFetch'
      BY <3>1, <3>2, <3>3, <3>5, <1>t DEF CleanFetch
    <3>7. CacheAgreesWithDevice'
      BY <3>1, <3>2, <3>3, <3>5, <1>t DEF CacheAgreesWithDevice
    <3> QED
      BY <3>4, <3>6, <3>7
  <2>3. CASE WriteDone(w)
    <3>1. /\ lock = w /\ lock' = NoThread /\ wpos[w] = wend[w]
          /\ lines' = [k \in Lines |->
                         IF k \in Cached
                         THEN [b \in Blocks |-> IF b \in WriteRange(w) \cap LineBlocks(k)
                                                THEN wval[w] ELSE lines[k][b]]
                         ELSE NoLine]
          /\ UNCHANGED <<device, fetching, dirtied, rpc, pos, fpos, buf>>
      BY <2>3 DEF WriteDone, WriteEnd
    <3>2. InFlight' = {} /\ InFlight = WriteRange(w) /\ Landed'
      BY <3>1, <2>s DEF InFlight, Landed
    <3>3. CleanFetch'
      BY <3>1, <3>2, <1>t DEF CleanFetch
    <3>4. \A b \in WriteRange(w) : device[b] = wval[w]
      BY <3>1, <2>t, <1>t DEF Landed, WriteRange
    <3>5. ASSUME NEW k \in Lines, lines'[k] # NoLine, NEW b \in LineBlocks(k)
          PROVE  lines'[k][b] = device[b]
      <4>1. lines[k] # NoLine /\ b \in Blocks
        BY <3>1, <3>5 DEF Cached, LineBlocks
      <4>2. lines'[k][b] = IF b \in WriteRange(w) THEN wval[w] ELSE lines[k][b]
        BY <3>1, <4>1 DEF Cached
      <4> QED
        BY <4>1, <4>2, <3>2, <3>4, <1>t DEF CacheAgreesWithDevice
    <3>6. CacheAgreesWithDevice'
      BY <3>1, <3>5 DEF CacheAgreesWithDevice
    <3> QED
      BY <3>2, <3>3, <3>6
  <2>4. CASE WriteFail(w)
    <3>1. /\ lock = w /\ lock' = NoThread
          /\ lines' = [k \in Lines |-> IF k \in WrittenLines(w) THEN NoLine ELSE lines[k]]
          /\ buf' = [s \in Readers |-> IF SharesOneOf(s, WrittenLines(w)) THEN Blank ELSE buf[s]]
          /\ UNCHANGED <<device, fetching, dirtied, rpc, pos, fpos>>
      BY <2>4 DEF WriteFail, WriteEnd, Drop
    <3>2. InFlight' = {} /\ InFlight = WriteRange(w) /\ Landed'
      BY <3>1, <2>s DEF InFlight, Landed
    <3>3. \A s \in Readers : rpc[s] = "fetch" => buf'[s] = buf[s]
      BY <3>1, <1>y DEF SharesOneOf
    <3>4. CleanFetch'
      BY <3>1, <3>2, <3>3, <1>t DEF CleanFetch
    <3>5. ASSUME NEW k \in Lines, lines'[k] # NoLine, NEW b \in LineBlocks(k)
          PROVE  lines'[k][b] = device[b]
      <4>1. lines'[k] = lines[k] /\ k \notin LinesOf(wfrom[w], wend[w])
        BY <3>1, <3>5 DEF WrittenLines, Cached
      <4>2. b \notin WriteRange(w)
        BY <4>1, <2>t, RangeInLines DEF WriteRange
      <4> QED
        BY <4>1, <4>2, <3>2, <3>5, <1>t DEF CacheAgreesWithDevice
    <3>6. CacheAgreesWithDevice'
      BY <3>1, <3>5 DEF CacheAgreesWithDevice
    <3> QED
      BY <3>2, <3>4, <3>6
  <2> QED
    BY <1>w, <2>1, <2>2, <2>3, <2>4 DEF WriterStep
<1>d. ASSUME DropAll PROVE Kept'
  <2>1. /\ lines' = [k \in Lines |-> NoLine]
        /\ dirtied' = dirtied \cup fetching
        /\ UNCHANGED <<device, fetching, lock, rpc, pos, wfrom, wpos, wend, wval>>
    BY <1>d DEF DropAll, Drop
  <2>2. CleanFetch'
    BY <2>1, <1>t DEF CleanFetch
  <2>3. CacheAgreesWithDevice'
    BY <2>1 DEF CacheAgreesWithDevice
  <2> QED
    BY <2>1, <1>g, <2>2, <2>3
<1>c. ASSUME CloseDelegate PROVE Kept'
  BY <1>c, <1>q DEF CloseDelegate
<1>u. ASSUME UNCHANGED vars PROVE Kept'
  BY <1>u, <1>q DEF vars
<1>k. Kept'
  BY <1>n, <1>r, <1>w, <1>d, <1>c, <1>u DEF Next, Invalidate, CloseDrop
<1> QED
  BY <1>1, <1>2, <1>k DEF AgreementInv

\* The agreement holds of an empty cache.
LEMMA AgreementInit == Init => AgreementInv
<1>1. Init => TypeOK /\ PositionsOK
  BY DEF Init, TypeOK, PositionsOK, Blank, Array, Values, Lines
<1>2. Init => SoleFetcher /\ Landed /\ CleanFetch /\ CacheAgreesWithDevice
  BY DEF Init, SoleFetcher, Landed, CleanFetch, CacheAgreesWithDevice
<1> QED
  BY <1>1, <1>2 DEF AgreementInv

\* "The invariant is 'device and cache agree'": if no line is fetched by two
\* threads at once, a cached block that no write is changing equals the device's
\* block, for any number of readers and writers and any geometry.
THEOREM Agreement == SoleFetchSpec => []CacheAgreesWithDevice
<1>1. Init => AgreementInv
  BY AgreementInit
<1>2. AgreementInv /\ [SoleFetchNext]_vars => AgreementInv'
  BY AgreementStep
<1>3. AgreementInv => CacheAgreesWithDevice
  BY DEF AgreementInv
<1> QED
  BY <1>1, <1>2, <1>3, PTL DEF SoleFetchSpec

-----------------------------------------------------------------------------
(* The access order of the LinkedHashMap.                                    *)

\* o is a strict total order of the set S.
StrictTotal(o, S) ==
    /\ o \subseteq S \X S
    /\ \A a \in S : <<a, a>> \notin o
    /\ \A a, b \in S : a # b => <<a, b>> \in o \/ <<b, a>> \in o
    /\ \A a, b, c \in S : <<a, b>> \in o /\ <<b, c>> \in o => <<a, c>> \in o

\* l comes before every other element of S.
First(o, S, l) == l \in S /\ \A k \in S \ {l} : <<l, k>> \in o

\* Every nonempty set of naturals has a least element.
LEMMA LeastNumber ==
    ASSUME NEW T, T \subseteq Nat, T # {}
    PROVE  \E x \in T : \A y \in T : x <= y
<1>1. IsWellFoundedOn(OpToRel(<, Nat), Nat)
  BY NatLessThanWellFounded
<1>2. \A x, y \in Nat : x < y => <<x, y>> \in OpToRel(<, Nat)
  BY DEF OpToRel
<1>3. \E R : IsWellFoundedOn(R, Nat) /\ \A x, y \in Nat : x < y => <<x, y>> \in R
  BY <1>1, <1>2
<1>4. PICK R : IsWellFoundedOn(R, Nat) /\ \A x, y \in Nat : x < y => <<x, y>> \in R
  BY <1>3
<1>5. IsWellFoundedOn(R, Nat)
  BY <1>4
<1>6. \E x \in T : \A y \in T : ~(<<y, x>> \in R)
  BY <1>5, WFMin
<1>7. PICK x \in T : \A y \in T : ~(<<y, x>> \in R)
  BY <1>6
<1>8. ASSUME NEW y \in T PROVE x <= y
  <2>1. ~(y < x)
    BY <1>4, <1>7
  <2> QED
    BY <2>1
<1> QED
  BY <1>8

\* A finite set in strict total order has a first element: the map has an eldest entry.
LEMMA FirstExists ==
    ASSUME NEW S, NEW o, IsFiniteSet(S), S # {}, StrictTotal(o, S)
    PROVE  \E l : First(o, S, l)
<1> DEFINE Bad(X) == X \subseteq S /\ X # {} /\ \A l : ~First(o, X, l)
           T == {n \in Nat : \E X : Bad(X) /\ Cardinality(X) = n}
<1>0. \A X : X \subseteq S => IsFiniteSet(X) /\ Cardinality(X) \in Nat
  BY FS_Subset, FS_CardinalityType
<1> SUFFICES ASSUME Bad(S) PROVE FALSE
  OBVIOUS
<1>1. T \subseteq Nat /\ T # {}
  <2>1. Cardinality(S) \in T
    BY <1>0
  <2> QED
    BY <2>1
<1>2. PICK n \in T : \A m \in T : n <= m
  <2> HIDE DEF T
  <2> QED
    BY <1>1, LeastNumber
<1>3. PICK X : Bad(X) /\ Cardinality(X) = n
  BY <1>2
<1>4. PICK x : x \in X
  BY <1>3
<1> DEFINE Y == X \ {x}
<1>5. Y \subseteq S /\ Cardinality(Y) = n - 1 /\ n \in Nat /\ x \in S
  BY <1>0, <1>2, <1>3, <1>4, FS_RemoveElement
<1>6. Cardinality(Y) \in Nat /\ ~(n <= Cardinality(Y))
  BY <1>0, <1>5
<1>7. ~Bad(Y)
  BY <1>2, <1>6
<1>8. Y # {}
  <2> SUFFICES ASSUME Y = {} PROVE FALSE
    OBVIOUS
  <2>1. First(o, X, x)
    BY <1>4 DEF First
  <2> QED
    BY <1>3, <2>1
<1>9. PICK l : First(o, Y, l)
  BY <1>5, <1>7, <1>8
<1>10. l \in S /\ l \in X /\ l # x /\ \A k \in Y \ {l} : <<l, k>> \in o
  BY <1>5, <1>9 DEF First
<1>11. CASE <<l, x>> \in o
  <2>1. First(o, X, l)
    BY <1>10, <1>11 DEF First
  <2> QED
    BY <1>3, <2>1
<1>12. CASE <<x, l>> \in o
  <2>1. ASSUME NEW k \in X \ {x} PROVE <<x, k>> \in o
    <3>1. k \in S /\ (k = l \/ <<l, k>> \in o)
      BY <1>3, <1>10
    <3> QED
      BY <1>5, <1>10, <1>12, <3>1 DEF StrictTotal
  <2>2. First(o, X, x)
    BY <1>4, <2>1 DEF First
  <2> QED
    BY <1>3, <2>2
<1> QED
  BY <1>5, <1>10, <1>11, <1>12 DEF StrictTotal

\* The lines a cache may hold are finitely many naturals.
LEMMA LinesFinite == IsFiniteSet(Lines) /\ Lines \subseteq Nat
<1>1. ASSUME NEW b \in Blocks PROVE LineOf(b) \in 0 .. BlockCount
  <2>1. b \in Nat /\ b <= BlockCount /\ BlockCount \in Nat
    BY DEF Blocks
  <2>2. LineOf(b) \in Nat /\ BlocksPerLine * LineOf(b) <= b
    BY <2>1, DivBounds DEF LineOf
  <2>3. LineOf(b) <= b
    <3> DEFINE q == LineOf(b)
    <3>1. q \in Nat /\ BlocksPerLine * q <= b
      BY <2>2
    <3> HIDE DEF q
    <3>2. PICK d \in Nat : BlocksPerLine = 1 + d
      <4>1. BlocksPerLine - 1 \in Nat /\ BlocksPerLine = 1 + (BlocksPerLine - 1)
        OBVIOUS
      <4> QED
        BY <4>1
    <3>3. BlocksPerLine * q = q + d * q /\ d * q \in Nat
      BY <3>1, <3>2
    <3>4. q <= b
      BY <2>1, <3>1, <3>3
    <3> QED
      BY <3>4 DEF q
  <2> QED
    BY <2>1, <2>2, <2>3
<1>2. Lines \in SUBSET (0 .. BlockCount)
  BY <1>1 DEF Lines
<1>3. IsFiniteSet(0 .. BlockCount)
  BY FS_Interval
<1>4. IsFiniteSet(Lines)
  BY <1>2, <1>3, FS_Subset
<1> QED
  BY <1>2, <1>4

\* Using a line makes it the last.
LEMMA TouchOrder ==
    ASSUME StrictTotal(older, Cached), NEW l
    PROVE  StrictTotal(Touch(l, Cached \cup {l}), Cached \cup {l})
<1> DEFINE S == Cached \cup {l}
           o == Touch(l, S)
<1>1. o \subseteq S \X S
  BY DEF Touch, StrictTotal
<1>2. ASSUME NEW a \in S, NEW b \in S
      PROVE  <<a, b>> \in o <=> a # l /\ (b = l \/ <<a, b>> \in older)
  BY DEF Touch, StrictTotal
<1> HIDE DEF o
<1>3. \A a \in S : a # l => a \in Cached
  OBVIOUS
<1> HIDE DEF S
<1>4. \A a \in S : <<a, a>> \notin o
  BY <1>2, <1>3 DEF StrictTotal
<1>5. \A a, b \in S : a # b => <<a, b>> \in o \/ <<b, a>> \in o
  BY <1>2, <1>3 DEF StrictTotal
<1>6. ASSUME NEW a \in S, NEW b \in S, NEW c \in S, <<a, b>> \in o, <<b, c>> \in o PROVE <<a, c>> \in o
  BY <1>2, <1>3, <1>6 DEF StrictTotal
<1>7. StrictTotal(o, S)
  BY <1>1, <1>4, <1>5, <1>6 DEF StrictTotal
<1> QED
  BY <1>7 DEF o, S

\* Removing lines leaves the others in order.
LEMMA ForgetOrder ==
    ASSUME NEW o, NEW S, StrictTotal(o, S), NEW ls
    PROVE  StrictTotal(Forget(o, ls), S \ ls)
BY DEF StrictTotal, Forget

\* Using several lines in ascending order puts them behind the others, in that order.
LEMMA TouchAllOrder ==
    ASSUME StrictTotal(older, Cached), NEW ls \in SUBSET Cached, Cached \subseteq Nat
    PROVE  StrictTotal(TouchAll(ls), Cached)
<1> DEFINE o == TouchAll(ls)
<1>1. o \subseteq Cached \X Cached
  BY DEF TouchAll, Forget, StrictTotal
<1>2. ASSUME NEW a \in Cached, NEW b \in Cached
      PROVE  <<a, b>> \in o <=> \/ a \notin ls /\ b \notin ls /\ <<a, b>> \in older
                                \/ a \notin ls /\ b \in ls
                                \/ a \in ls /\ b \in ls /\ a < b
  BY DEF TouchAll, Forget
<1> HIDE DEF o
<1>4. ASSUME NEW a \in Cached PROVE <<a, a>> \notin o
  <2>1. a \in Nat /\ ~(a < a)
    OBVIOUS
  <2> QED
    BY <1>2, <2>1 DEF StrictTotal
<1>5. ASSUME NEW a \in Cached, NEW b \in Cached, a # b PROVE <<a, b>> \in o \/ <<b, a>> \in o
  <2>1. a \in Nat /\ b \in Nat
    OBVIOUS
  <2>2. a < b \/ b < a
    BY <1>5, <2>1
  <2> QED
    BY <1>2, <1>5, <2>2 DEF StrictTotal
<1>6. ASSUME NEW a \in Cached, NEW b \in Cached, NEW c \in Cached, <<a, b>> \in o, <<b, c>> \in o
      PROVE  <<a, c>> \in o
  <2>1. a \in Nat /\ b \in Nat /\ c \in Nat
    OBVIOUS
  <2> QED
    BY <1>2, <1>6, <2>1 DEF StrictTotal
<1>7. StrictTotal(o, Cached)
  BY <1>1, <1>4, <1>5, <1>6 DEF StrictTotal
<1> QED
  BY <1>7 DEF o

\* The lines in the table are in order of use.
Ordered == StrictTotal(older, Cached)

\* A line that has just been used is not the one removeEldestEntry takes.
LEMMA EldestIsOlder ==
    ASSUME TypeOK, Ordered, NEW l \in Lines, Cardinality(Cached \cup {l}) > MaxLines
    PROVE  Eldest(Touch(l, Cached \cup {l}), Cached \cup {l}) \in Cached \ {l}
<1> DEFINE S == Cached \cup {l}
           o == Touch(l, S)
<1>1. S \in SUBSET Lines
  BY DEF Cached
<1>2. IsFiniteSet(S)
  BY <1>1, LinesFinite, FS_Subset
<1>3. StrictTotal(o, S)
  BY TouchOrder DEF Ordered
<1>4. PICK f : First(o, S, f)
  <2> HIDE DEF o
  <2> QED
    BY <1>2, <1>3, FirstExists
<1> DEFINE e == Eldest(o, S)
<1>5. e \in S /\ \A k \in S \ {e} : <<e, k>> \in o
  BY <1>4 DEF Eldest, First
<1>6. e # l
  <2> SUFFICES ASSUME e = l PROVE FALSE
    OBVIOUS
  <2>1. \A k : <<l, k>> \notin o
    BY DEF Touch
  <2>2. S \ {l} = {}
    BY <1>5, <2>1
  <2>3. S = {l}
    BY <2>2
  <2>4. Cardinality(S) = 1
    BY <2>3, FS_Singleton
  <2> QED
    BY <2>4
<1> QED
  BY <1>5, <1>6

\* Every step keeps the lines of the table in order of use.
LEMMA OrderStep == TypeInv /\ Ordered /\ [Next]_vars => Ordered'
<1> SUFFICES ASSUME TypeInv, Ordered, [Next]_vars PROVE Ordered'
  OBVIOUS
<1> USE DEF tables, rvars, wvars
<1>t. /\ lines \in [Lines -> Array \cup {NoLine}] /\ buf \in [Readers -> Array] /\ pos \in [Readers -> 0 .. BlockCount]
      /\ wval \in [Writers -> Data \cup {NoData}] /\ TypeOK
  BY DEF TypeInv, TypeOK
<1>a. NoLine \notin Array
  BY DEF Array, Values, Blocks
<1>p. \A r \in Readers : rpc[r] \in {"lookup", "fetch", "copy"} => LineOf(pos[r]) \in Lines
  BY DEF TypeInv, TypeOK, PositionsOK, Blocks, Lines
<1>s. ASSUME UNCHANGED <<lines, older>> PROVE Ordered'
  BY <1>s DEF Ordered, Cached
<1>h. ASSUME NEW l \in Cached, lines' = lines, older' = Touch(l, Cached) PROVE Ordered'
  <2>1. Cached \cup {l} = Cached /\ Cached' = Cached
    BY <1>h DEF Cached
  <2>2. StrictTotal(Touch(l, Cached \cup {l}), Cached \cup {l})
    BY TouchOrder DEF Ordered
  <2> QED
    BY <1>h, <2>1, <2>2 DEF Ordered
<1>d. ASSUME NEW ls, Drop(ls) PROVE Ordered'
  <2>1. Cached' = Cached \ ls
    BY <1>d DEF Drop, Cached
  <2>2. older' = Forget(older, ls)
    BY <1>d DEF Drop
  <2>3. StrictTotal(Forget(older, ls), Cached \ ls)
    BY ForgetOrder DEF Ordered
  <2> QED
    BY <2>1, <2>2, <2>3 DEF Ordered
<1>1. ASSUME NEW r \in Readers, ReaderStep(r) PROVE Ordered'
  <2>1. ASSUME NEW q, ReadStart(r, q[1], q[2]) PROVE Ordered'
    BY <1>s, <2>1 DEF ReadStart
  <2>2. CASE ReadReturn(r)   BY <1>s, <2>2 DEF ReadReturn
  <2>3. CASE BypassBlock(r)  BY <1>s, <2>3 DEF BypassBlock
  <2>4. CASE BypassFail(r)   BY <1>s, <2>4 DEF BypassFail
  <2>5. CASE LookupHit(r)    BY <1>h, <2>5 DEF LookupHit
  <2>6. CASE LookupMiss(r)   BY <1>s, <2>6 DEF LookupMiss
  <2>7. CASE FetchBlock(r)   BY <1>s, <2>7 DEF FetchBlock
  <2>8. CASE FetchFail(r)    BY <1>s, <2>8 DEF FetchFail
  <2>9. CASE FetchSuperseded(r)
    BY <1>h, <1>s, <2>9 DEF FetchSuperseded
  <2>10. CASE FetchPublish(r)
    <3> DEFINE l       == LineOf(pos[r])
               keys    == Cached \cup {l}
               order   == Touch(l, keys)
               evicted == IF Cardinality(keys) > MaxLines THEN {Eldest(order, keys)} ELSE {}
    <3>1. /\ lines' = [k \in Lines |-> IF k \in evicted THEN NoLine
                                       ELSE IF k = l THEN buf[r] ELSE lines[k]]
          /\ older' = Forget(order, evicted) /\ l \in Lines
      BY <1>p, <2>10 DEF FetchPublish
    <3>2. StrictTotal(order, keys)
      BY TouchOrder DEF Ordered
    <3> HIDE DEF evicted, order
    <3>3. Cached' = keys \ evicted
      <4>1. \A k \in Lines : lines'[k] # NoLine <=> k \notin evicted /\ (k = l \/ lines[k] # NoLine)
        BY <1>a, <1>t, <3>1
      <4> QED
        BY <3>1, <4>1 DEF Cached
    <3>4. StrictTotal(Forget(order, evicted), keys \ evicted)
      BY <3>2, ForgetOrder
    <3> HIDE DEF keys
    <3> QED
      BY <3>1, <3>3, <3>4 DEF Ordered
  <2>11. CASE CopyBlock(r)   BY <1>s, <2>11 DEF CopyBlock
  <2> QED
    BY <1>1, <2>1, <2>2, <2>3, <2>4, <2>5, <2>6, <2>7, <2>8, <2>9, <2>10, <2>11 DEF ReaderStep
<1>2. ASSUME NEW w \in Writers, WriterStep(w) PROVE Ordered'
  <2>1. ASSUME NEW q, NEW v, WriteStart(w, q[1], q[2], v) PROVE Ordered'
    BY <1>s, <2>1 DEF WriteStart
  <2>2. CASE WriteBlock(w)   BY <1>s, <2>2 DEF WriteBlock
  <2>3. CASE WriteDone(w)
    <3>1. wval[w] \in Values
      BY <2>3 DEF WriteDone, TypeInv, PositionsOK, Values
    <3>2. /\ lines' = [l \in Lines |->
                   IF l \in Cached
                   THEN [b \in Blocks |-> IF b \in WriteRange(w) \cap LineBlocks(l)
                                          THEN wval[w] ELSE lines[l][b]]
                   ELSE NoLine]
          /\ older' = TouchAll(WrittenLines(w))
      BY <2>3 DEF WriteDone
    <3>3. ASSUME NEW l \in Cached PROVE l \in Lines /\ lines'[l] \in Array
      <4>1. l \in Lines /\ lines[l] \in Array
        BY <1>t DEF Cached
      <4>2. lines'[l] = [b \in Blocks |-> IF b \in WriteRange(w) \cap LineBlocks(l) THEN wval[w] ELSE lines[l][b]]
        BY <3>2, <4>1
      <4> QED
        BY <3>1, <4>1, <4>2 DEF Array
    <3>4. Cached' = Cached
      <4>1. \A l \in Lines \ Cached : lines'[l] = NoLine
        BY <3>2
      <4> QED
        BY <1>a, <3>3, <4>1 DEF Cached
    <3>5. WrittenLines(w) \in SUBSET Cached /\ Cached \subseteq Nat
      BY LinesFinite DEF WrittenLines, Cached
    <3>6. StrictTotal(TouchAll(WrittenLines(w)), Cached)
      BY <3>5, TouchAllOrder DEF Ordered
    <3> QED
      BY <3>2, <3>4, <3>6 DEF Ordered
  <2>4. CASE WriteFail(w)    BY <1>d, <2>4 DEF WriteFail
  <2> QED
    BY <1>2, <2>1, <2>2, <2>3, <2>4 DEF WriterStep
<1>3. CASE DropAll
  BY <1>d, <1>3 DEF DropAll
<1>4. CASE CloseDelegate
  BY <1>s, <1>4 DEF CloseDelegate
<1>5. CASE UNCHANGED vars
  BY <1>s, <1>5 DEF vars
<1> QED
  BY <1>1, <1>2, <1>3, <1>4, <1>5 DEF Next, Invalidate, CloseDrop

-----------------------------------------------------------------------------
(* Requests and answers.                                                     *)

\* The blocks r's call asked for.
Asked(r) == from[r] .. end[r] - 1

\* An idle thread has no request, and a call is inside its request.
RequestOK(r) ==
    IF rpc[r] = "idle" THEN from[r] = 0 /\ pos[r] = 0 /\ end[r] = 0
    ELSE from[r] <= pos[r] /\ pos[r] <= end[r] /\ from[r] < end[r]

RequestsOK ==
    /\ \A r \in Readers : RequestOK(r)
    /\ \A w \in Writers : w # lock => wpos[w] = 0 /\ wend[w] = 0

\* What r's array holds of block b, while it copies.
HeldAt(r, b) == (IF r \in shared THEN lines[LineOf(pos[r])] ELSE buf[r])[b]

\* Nothing is delivered beyond pos.
Undelivered(r) == \A b \in Blocks : b >= pos[r] => out[r][b] = NoData

\* The device's content is a right answer for every block of the request.
SeenOK(r) ==
    \A b \in Blocks : IF b \in Asked(r) THEN device[b] \in seen[r][b] ELSE seen[r][b] = {}

\* So is what r has fetched, and what it copies from.
Rightful(r) ==
    \A b \in Blocks : b \in Asked(r) /\ LineOf(b) = LineOf(pos[r]) =>
        /\ rpc[r] = "fetch" /\ b < fpos[r] => buf[r][b] \in seen[r][b]
        /\ rpc[r] = "copy" => HeldAt(r, b) \in seen[r][b]

History(r) == Undelivered(r) /\ SeenOK(r) /\ Rightful(r)

HistoryType ==
    /\ out \in [Readers -> [Blocks -> Data \cup {NoData}]]
    /\ seen \in [Readers -> [Blocks -> SUBSET Data]]

\* Every step keeps calls inside their requests.
LEMMA RequestsStep == TypeInv /\ RequestsOK /\ [Next]_vars => RequestsOK'
<1> SUFFICES ASSUME TypeInv, RequestsOK, [Next]_vars PROVE RequestsOK'
  OBVIOUS
<1> USE DEF tables, rvars, wvars
<1>t. /\ rpc \in [Readers -> {"idle", "bypass", "lookup", "fetch", "copy", "return"}]
      /\ from \in [Readers -> 0 .. BlockCount] /\ pos \in [Readers -> 0 .. BlockCount]
      /\ end \in [Readers -> 0 .. BlockCount]
      /\ wpos \in [Writers -> 0 .. BlockCount] /\ wend \in [Writers -> 0 .. BlockCount]
  BY DEF TypeInv, TypeOK
<1>p. \A r \in Readers : rpc[r] \in {"lookup", "fetch", "copy"} => pos[r] < end[r]
  BY DEF TypeInv, PositionsOK
<1>a. ASSUME NEW r \in Readers, RequestOK(r)', UNCHANGED <<lock, wpos, wend>>,
             \A s \in Readers : s # r => UNCHANGED <<rpc[s], from[s], pos[s], end[s]>>
      PROVE  RequestsOK'
  BY <1>a DEF RequestsOK, RequestOK
<1>b. ASSUME UNCHANGED <<rpc, from, pos, end>>, \A w \in Writers : w # lock' => wpos'[w] = 0 /\ wend'[w] = 0
      PROVE  RequestsOK'
  BY <1>b DEF RequestsOK, RequestOK
<1>c. ASSUME UNCHANGED <<rpc, from, pos, end, lock, wpos, wend>> PROVE RequestsOK'
  BY <1>b, <1>c DEF RequestsOK
<1>1. ASSUME NEW r \in Readers, ReaderStep(r) PROVE RequestsOK'
  <2>e. ASSUME ReadEnd(r), UNCHANGED <<lock, wpos, wend>> PROVE RequestsOK'
    <3>1. rpc'[r] = "idle" /\ from'[r] = 0 /\ pos'[r] = 0 /\ end'[r] = 0
      BY <1>t, <2>e DEF ReadEnd
    <3>2. \A s \in Readers : s # r => UNCHANGED <<rpc[s], from[s], pos[s], end[s]>>
      BY <1>t, <2>e DEF ReadEnd
    <3>3. RequestOK(r)'
      BY <3>1 DEF RequestOK
    <3> QED
      BY <1>a, <2>e, <3>2, <3>3
  <2>g. ASSUME NEW p, rpc[r] # "idle", p # "idle", rpc' = [rpc EXCEPT ![r] = p],
               UNCHANGED <<from, pos, end, lock, wpos, wend>>
        PROVE  RequestsOK'
    <3>1. RequestOK(r)'
      BY <1>t, <2>g DEF RequestsOK, RequestOK
    <3>2. \A s \in Readers : s # r => UNCHANGED <<rpc[s], from[s], pos[s], end[s]>>
      BY <1>t, <2>g
    <3> QED
      BY <1>a, <2>g, <3>1, <3>2
  <2>1. ASSUME NEW q \in Request, ReadStart(r, q[1], q[2]) PROVE RequestsOK'
    <3>1. q[1] \in Nat /\ q[1] + q[2] \in Nat /\ q[1] < q[1] + q[2]
      BY DEF Request, Blocks
    <3>2. rpc'[r] # "idle" /\ from'[r] = q[1] /\ pos'[r] = q[1] /\ end'[r] = q[1] + q[2]
      BY <1>t, <2>1 DEF ReadStart
    <3>3. \A s \in Readers : s # r => UNCHANGED <<rpc[s], from[s], pos[s], end[s]>>
      BY <1>t, <2>1 DEF ReadStart
    <3>4. RequestOK(r)'
      BY <3>1, <3>2 DEF RequestOK
    <3> QED
      BY <1>a, <2>1, <3>3, <3>4 DEF ReadStart
  <2>2. CASE ReadReturn(r)   BY <2>e, <2>2 DEF ReadReturn
  <2>3. CASE BypassBlock(r)
    <3>1. /\ rpc'[r] = "bypass" /\ rpc[r] = "bypass" /\ pos'[r] = pos[r] + 1 /\ pos[r] < end[r]
          /\ from'[r] = from[r] /\ end'[r] = end[r]
          /\ \A s \in Readers : s # r => UNCHANGED <<rpc[s], from[s], pos[s], end[s]>>
      BY <1>t, <2>3 DEF BypassBlock
    <3>2. RequestOK(r)'
      BY <1>t, <3>1 DEF RequestsOK, RequestOK
    <3> QED
      BY <1>a, <2>3, <3>1, <3>2 DEF BypassBlock
  <2>4. CASE BypassFail(r)   BY <2>e, <2>4 DEF BypassFail
  <2>5. CASE LookupHit(r)    BY <2>g, <2>5 DEF LookupHit
  <2>6. CASE LookupMiss(r)   BY <2>g, <2>6 DEF LookupMiss
  <2>7. CASE FetchBlock(r)   BY <1>c, <2>7 DEF FetchBlock
  <2>8. CASE FetchFail(r)    BY <2>e, <2>8 DEF FetchFail
  <2>9. CASE FetchSuperseded(r) BY <2>g, <2>9 DEF FetchSuperseded
  <2>10. CASE FetchPublish(r) BY <2>g, <2>10 DEF FetchPublish
  <2>11. CASE CopyBlock(r)
    <3>1. /\ rpc'[r] # "idle" /\ rpc[r] = "copy" /\ pos'[r] = pos[r] + 1 /\ pos[r] < end[r]
          /\ from'[r] = from[r] /\ end'[r] = end[r]
          /\ \A s \in Readers : s # r => UNCHANGED <<rpc[s], from[s], pos[s], end[s]>>
      BY <1>p, <1>t, <2>11 DEF CopyBlock
    <3>2. RequestOK(r)'
      BY <1>t, <3>1 DEF RequestsOK, RequestOK
    <3> QED
      BY <1>a, <2>11, <3>1, <3>2 DEF CopyBlock
  <2> QED
    BY <1>1, <2>1, <2>2, <2>3, <2>4, <2>5, <2>6, <2>7, <2>8, <2>9, <2>10, <2>11 DEF ReaderStep
<1>2. ASSUME NEW w \in Writers, WriterStep(w) PROVE RequestsOK'
  <2>1. ASSUME NEW q, NEW v, WriteStart(w, q[1], q[2], v) PROVE RequestsOK'
    BY <1>b, <1>t, <2>1 DEF WriteStart, RequestsOK
  <2>2. CASE WriteBlock(w)
    BY <1>b, <1>t, <2>2 DEF WriteBlock, RequestsOK
  <2>3. ASSUME lock = w, WriteEnd(w), UNCHANGED <<rpc, from, pos, end>> PROVE RequestsOK'
    <3>1. \A v \in Writers : wpos'[v] = 0 /\ wend'[v] = 0
      BY <1>t, <2>3 DEF WriteEnd, RequestsOK
    <3> QED
      BY <1>b, <2>3, <3>1
  <2> QED
    BY <1>2, <2>1, <2>2, <2>3 DEF WriterStep, WriteDone, WriteFail
<1>3. CASE DropAll
  BY <1>c, <1>3 DEF DropAll
<1>4. CASE CloseDelegate
  BY <1>c, <1>4 DEF CloseDelegate
<1>5. CASE UNCHANGED vars
  BY <1>c, <1>5 DEF vars
<1> QED
  BY <1>1, <1>2, <1>3, <1>4, <1>5 DEF Next, Invalidate, CloseDrop

\* A reader whose call does not move keeps its right answers, when what it copies from stays
\* or becomes what the device holds.
LEMMA HistoryKept ==
    ASSUME NEW s \in Readers, History(s), UNCHANGED <<rpc[s], from[s], pos[s], end[s], fpos[s], out[s]>>,
           \A b \in Blocks : b \in Asked(s) => device'[b] \in seen'[s][b] /\ seen[s][b] \subseteq seen'[s][b],
           \A b \in Blocks : b \notin Asked(s) => seen'[s][b] = {},
           rpc[s] = "fetch" => buf'[s] = buf[s],
           \A b \in Blocks : rpc[s] = "copy" /\ b \in Asked(s) /\ LineOf(b) = LineOf(pos[s]) =>
               HeldAt(s, b)' = HeldAt(s, b) \/ HeldAt(s, b)' = device'[b]
    PROVE  History(s)'
<1>1. Asked(s)' = Asked(s)
  BY DEF Asked
<1>2. Undelivered(s)' /\ SeenOK(s)'
  BY <1>1 DEF History, Undelivered, SeenOK
<1>3. Rightful(s)'
  <2> SUFFICES ASSUME NEW b \in Blocks, b \in Asked(s), LineOf(b) = LineOf(pos[s])
               PROVE  /\ rpc[s] = "fetch" /\ b < fpos[s] => buf'[s][b] \in seen'[s][b]
                      /\ rpc[s] = "copy" => HeldAt(s, b)' \in seen'[s][b]
    BY <1>1 DEF Rightful
  <2>1. /\ rpc[s] = "fetch" /\ b < fpos[s] => buf[s][b] \in seen[s][b]
        /\ rpc[s] = "copy" => HeldAt(s, b) \in seen[s][b]
    BY DEF History, Rightful
  <2> QED
    BY <2>1
<1> QED
  BY <1>2, <1>3 DEF History

\* Lines dropped, but not under a reader, leave every reader the array it copies from.
LEMMA DropKeeps ==
    ASSUME TypeInv, NEW ls, Drop(ls), UNCHANGED <<rpc, pos>>, NoZeroUnderReader,
           NEW s \in Readers, rpc[s] = "copy", NEW b
    PROVE  HeldAt(s, b)' = HeldAt(s, b)
<1>1. LineOf(pos[s]) \in Lines
  BY DEF TypeInv, TypeOK, PositionsOK, Blocks, Lines
<1>2. /\ lines' = [l \in Lines |-> IF l \in ls THEN NoLine ELSE lines[l]]
      /\ shared' = {r \in shared : LineOf(pos[r]) \notin ls}
      /\ buf' = [r \in Readers |-> IF SharesOneOf(r, ls) THEN Blank ELSE buf[r]]
  BY DEF Drop
<1>3. CASE s \notin shared
  <2>1. s \notin shared' /\ buf'[s] = buf[s]
    BY <1>2, <1>3 DEF SharesOneOf
  <2> QED
    BY <1>3, <2>1 DEF HeldAt
<1>4. CASE s \in shared /\ LineOf(pos[s]) \notin ls
  <2>1. s \in shared' /\ lines'[LineOf(pos[s])] = lines[LineOf(pos[s])]
    BY <1>1, <1>2, <1>4
  <2> QED
    BY <1>4, <2>1 DEF HeldAt
<1>5. CASE s \in shared /\ LineOf(pos[s]) \in ls
  <2>1. s \notin shared' /\ buf'[s] = Blank
    BY <1>2, <1>5 DEF SharesOneOf
  <2> QED
    BY <1>5, <2>1 DEF NoZeroUnderReader
<1> QED
  BY <1>3, <1>4, <1>5

\* A write gives every reader in progress one more right answer, and leaves it the others.
LEMMA WriteHistory ==
    ASSUME AgreementInv, HistoryType, \A r \in Readers : History(r), device' \in [Blocks -> Data],
           NEW w \in Writers, WriteStep(w), NoZeroUnderReader
    PROVE  HistoryType' /\ \A r \in Readers : History(r)'
<1> USE DEF tables, rvars, wvars
<1>t. /\ TypeInv /\ Landed /\ device \in [Blocks -> Data]
      /\ lines \in [Lines -> Array \cup {NoLine}]
  BY DEF AgreementInv, TypeInv, TypeOK
<1>1. /\ seen' = [r \in Readers |-> [b \in Blocks |->
                  IF b \in from[r] .. end[r] - 1 THEN seen[r][b] \cup {device'[b]} ELSE {}]]
      /\ out' = out /\ WriterStep(w)
  BY DEF WriteStep
<1>2. HistoryType'
  <2>1. \A r \in Readers, b \in Blocks : seen[r][b] \cup {device'[b]} \in SUBSET Data
    BY DEF HistoryType
  <2> QED
    BY <1>1, <2>1 DEF HistoryType
<1>3. ASSUME NEW s \in Readers
      PROVE  /\ \A b \in Blocks : b \in Asked(s) => device'[b] \in seen'[s][b] /\ seen[s][b] \subseteq seen'[s][b]
             /\ \A b \in Blocks : b \notin Asked(s) => seen'[s][b] = {}
  BY <1>1 DEF Asked
<1>4. UNCHANGED <<rpc, from, pos, end, fpos, out>>
  BY <1>1 DEF WriterStep, WriteStart, WriteBlock, WriteDone, WriteFail
<1>5. ASSUME NEW s \in Readers,
             \A b \in Blocks : rpc[s] = "copy" /\ b \in Asked(s) /\ LineOf(b) = LineOf(pos[s]) =>
                 HeldAt(s, b)' = HeldAt(s, b) \/ HeldAt(s, b)' = device'[b],
             rpc[s] = "fetch" => buf'[s] = buf[s]
      PROVE  History(s)'
  BY <1>3, <1>4, <1>5, HistoryKept
<1>6. ASSUME UNCHANGED <<lines, shared, buf>>, NEW s \in Readers PROVE History(s)'
  <2>1. \A b : HeldAt(s, b)' = HeldAt(s, b)
    BY <1>4, <1>6 DEF HeldAt
  <2> QED
    BY <1>5, <1>6, <2>1
<1>7. CASE \E q \in Request, v \in Data : WriteStart(w, q[1], q[2], v)
  BY <1>2, <1>6, <1>7 DEF WriteStart
<1>8. CASE WriteBlock(w)
  BY <1>2, <1>6, <1>8 DEF WriteBlock
<1>9. CASE WriteDone(w)
  <2>1. /\ lock = w /\ w # NoThread /\ wpos[w] = wend[w] /\ UNCHANGED <<device, shared, buf>>
        /\ lines' = [l \in Lines |->
                   IF l \in Cached
                   THEN [b \in Blocks |-> IF b \in WriteRange(w) \cap LineBlocks(l)
                                          THEN wval[w] ELSE lines[l][b]]
                   ELSE NoLine]
    BY <1>9 DEF WriteDone
  <2>2. \A b \in WriteRange(w) : device[b] = wval[w]
    BY <1>t, <2>1 DEF Landed, WriteRange
  <2>3. ASSUME NEW s \in Readers PROVE History(s)'
    <3>1. ASSUME NEW b \in Blocks, rpc[s] = "copy"
          PROVE  HeldAt(s, b)' = HeldAt(s, b) \/ HeldAt(s, b)' = device'[b]
      <4>1. CASE s \notin shared
        BY <2>1, <4>1 DEF HeldAt
      <4>2. CASE s \in shared
        <5> DEFINE l == LineOf(pos[s])
        <5>1. l \in Cached /\ l \in Lines
          <6>1. l \in Lines
            BY <1>t, <3>1 DEF TypeInv, TypeOK, PositionsOK, Blocks, Lines
          <6>2. lines[l] # NoLine
            BY <1>t, <4>2 DEF TypeInv, PositionsOK
          <6> QED
            BY <6>1, <6>2 DEF Cached
        <5>2. lines'[l] = [c \in Blocks |-> IF c \in WriteRange(w) \cap LineBlocks(l)
                                            THEN wval[w] ELSE lines[l][c]]
          BY <2>1, <5>1
        <5>3. lines'[l][b] = lines[l][b] \/ lines'[l][b] = device[b]
          BY <2>2, <5>2
        <5>4. HeldAt(s, b) = lines[l][b] /\ HeldAt(s, b)' = lines'[l][b]
          BY <1>4, <2>1, <4>2 DEF HeldAt
        <5> QED
          BY <2>1, <5>3, <5>4
      <4> QED
        BY <4>1, <4>2
    <3> QED
      BY <1>5, <2>1, <3>1
  <2> QED
    BY <1>2, <2>3
<1>10. CASE WriteFail(w)
  <2>1. Drop(WrittenLines(w))
    BY <1>10 DEF WriteFail
  <2>2. ASSUME NEW s \in Readers PROVE History(s)'
    <3>1. ASSUME rpc[s] = "copy", NEW b PROVE HeldAt(s, b)' = HeldAt(s, b)
      BY <1>t, <1>4, <2>1, <3>1, DropKeeps
    <3>2. rpc[s] = "fetch" => buf'[s] = buf[s]
      <4>1. rpc[s] = "fetch" => s \notin shared
        BY <1>t DEF TypeInv, PositionsOK
      <4> QED
        BY <2>1, <4>1 DEF Drop, SharesOneOf
    <3> QED
      BY <1>5, <3>1, <3>2
  <2> QED
    BY <1>2, <2>2
<1> QED
  BY <1>1, <1>7, <1>8, <1>9, <1>10 DEF WriterStep

\* invalidate and close leave the readers their right answers.
LEMMA OtherHistory ==
    ASSUME AgreementInv, HistoryType, \A r \in Readers : History(r), OtherStep, NoZeroUnderReader
    PROVE  HistoryType' /\ \A r \in Readers : History(r)'
<1> USE DEF tables, rvars, wvars
<1>t. TypeInv
  BY DEF AgreementInv, TypeInv
<1>1. UNCHANGED <<rpc, from, pos, end, fpos, out, seen, device>>
  BY DEF OtherStep, Invalidate, CloseDrop, CloseDelegate, DropAll
<1>2. HistoryType'
  BY <1>1 DEF HistoryType
<1>3. ASSUME NEW s \in Readers,
             \A b \in Blocks : rpc[s] = "copy" => HeldAt(s, b)' = HeldAt(s, b),
             rpc[s] = "fetch" => buf'[s] = buf[s]
      PROVE  History(s)'
  <2>1. /\ \A b \in Blocks : b \in Asked(s) => device'[b] \in seen'[s][b] /\ seen[s][b] \subseteq seen'[s][b]
        /\ \A b \in Blocks : b \notin Asked(s) => seen'[s][b] = {}
    BY <1>1 DEF History, SeenOK
  <2> QED
    BY <1>1, <1>3, <2>1, HistoryKept
<1>4. CASE DropAll
  <2>1. Drop(Lines)
    BY <1>4 DEF DropAll
  <2>2. ASSUME NEW s \in Readers PROVE History(s)'
    <3>1. ASSUME rpc[s] = "copy", NEW b PROVE HeldAt(s, b)' = HeldAt(s, b)
      BY <1>t, <1>1, <2>1, <3>1, DropKeeps
    <3>2. rpc[s] = "fetch" => buf'[s] = buf[s]
      <4>1. rpc[s] = "fetch" => s \notin shared
        BY <1>t DEF TypeInv, PositionsOK
      <4> QED
        BY <2>1, <4>1 DEF Drop, SharesOneOf
    <3> QED
      BY <1>3, <3>1, <3>2
  <2> QED
    BY <1>2, <2>2
<1>5. CASE CloseDelegate
  <2>1. UNCHANGED <<lines, shared, buf>>
    BY <1>5 DEF CloseDelegate
  <2>2. \A s \in Readers, b \in Blocks : HeldAt(s, b)' = HeldAt(s, b)
    BY <1>1, <2>1 DEF HeldAt
  <2> QED
    BY <1>2, <1>3, <2>1, <2>2
<1> QED
  BY <1>4, <1>5 DEF OtherStep, Invalidate, CloseDrop

\* A reader's step gives it no wrong answer, and takes no other reader's right ones.
LEMMA ReadHistory ==
    ASSUME AgreementInv, Ordered, RequestsOK, HistoryType, \A r \in Readers : History(r),
           NEW r \in Readers, ReadStep(r), NoZeroUnderReader
    PROVE  HistoryType' /\ \A s \in Readers : History(s)'
<1> USE DEF tables, rvars, wvars
<1>t. /\ TypeInv /\ TypeOK /\ PositionsOK /\ CacheAgreesWithDevice /\ device \in [Blocks -> Data]
      /\ lines \in [Lines -> Array \cup {NoLine}] /\ buf \in [Readers -> Array] /\ fpos \in [Readers -> Nat]
      /\ rpc \in [Readers -> {"idle", "bypass", "lookup", "fetch", "copy", "return"}]
      /\ from \in [Readers -> 0 .. BlockCount] /\ pos \in [Readers -> 0 .. BlockCount]
      /\ end \in [Readers -> 0 .. BlockCount]
  BY DEF AgreementInv, TypeInv, TypeOK
<1>r. /\ History(r) /\ RequestOK(r) /\ ReaderStep(r)
      /\ from[r] \in Nat /\ pos[r] \in Nat /\ end[r] \in Nat /\ fpos[r] \in Nat
  BY <1>t DEF RequestsOK, ReadStep
<1>h. /\ out \in [Readers -> [Blocks -> Data \cup {NoData}]] /\ seen \in [Readers -> [Blocks -> SUBSET Data]]
  BY DEF HistoryType
<1>b. rpc[r] \in {"lookup", "fetch", "copy"} =>
         /\ pos[r] < end[r] /\ pos[r] \in Blocks /\ LineOf(pos[r]) \in Lines /\ pos[r] \in Asked(r)
  BY <1>t, <1>r DEF PositionsOK, Blocks, Lines, Asked, RequestOK
<1>x. device' = device
  BY <1>r DEF ReaderStep, ReadStart, ReadReturn, BypassBlock, BypassFail, LookupHit, LookupMiss, FetchBlock,
     FetchFail, FetchSuperseded, FetchPublish, CopyBlock
\* The history, in the three ways a step may change it.
<1>1. ASSUME rpc'[r] # "idle", rpc[r] # "idle", pos'[r] # pos[r] + 1 PROVE out' = out /\ seen' = seen
  BY <1>1, <1>h DEF ReadStep
<1>2. ASSUME rpc'[r] # "idle", rpc[r] # "idle" PROVE seen' = seen
  BY <1>2, <1>h DEF ReadStep
\* Another reader.
<1>3. ASSUME NEW s \in Readers, s # r, UNCHANGED <<rpc[s], from[s], pos[s], end[s], fpos[s]>>,
             rpc[s] = "fetch" => buf'[s] = buf[s],
             \A b \in Blocks : rpc[s] = "copy" => HeldAt(s, b)' = HeldAt(s, b)
      PROVE  History(s)'
  <2>1. out'[s] = out[s] /\ seen'[s] = seen[s]
    BY <1>3, <1>h DEF ReadStep
  <2>2. History(s)
    OBVIOUS
  <2>3. /\ \A b \in Blocks : b \in Asked(s) => device'[b] \in seen'[s][b] /\ seen[s][b] \subseteq seen'[s][b]
        /\ \A b \in Blocks : b \notin Asked(s) => seen'[s][b] = {}
    BY <1>x, <2>1, <2>2 DEF History, SeenOK
  <2> QED
    BY <1>3, <2>1, <2>2, <2>3, HistoryKept
<1>4. ASSUME NEW s \in Readers, s # r, lines' = lines, s \in shared' <=> s \in shared, buf'[s] = buf[s],
             UNCHANGED <<rpc[s], from[s], pos[s], end[s], fpos[s]>>
      PROVE  History(s)'
  <2>1. \A b \in Blocks : HeldAt(s, b)' = HeldAt(s, b)
    BY <1>4 DEF HeldAt
  <2> QED
    BY <1>3, <1>4, <2>1
\* What the device holds is a right answer.
<1>5. \A b \in Blocks : b \in Asked(r) => device[b] \in seen[r][b]
  BY <1>r DEF History, SeenOK
<1>6. ASSUME NEW l \in Cached, lock = NoThread, NEW b \in Blocks, LineOf(b) = l
      PROVE  lines[l][b] = device[b]
  <2>1. l \in Lines /\ lines[l] # NoLine /\ b \in LineBlocks(l) \ InFlight
    BY <1>6 DEF Cached, LineBlocks, InFlight
  <2> QED
    BY <1>t, <2>1 DEF CacheAgreesWithDevice
\* A call that ends.
<1>7. ASSUME ReadEnd(r), lines' = lines PROVE HistoryType' /\ \A s \in Readers : History(s)'
  <2>1. rpc'[r] = "idle" /\ from'[r] = 0 /\ pos'[r] = 0 /\ end'[r] = 0
    BY <1>7, <1>t DEF ReadEnd
  <2>2. out' = [out EXCEPT ![r] = NoOut] /\ seen' = [seen EXCEPT ![r] = NoneSeen]
    BY <2>1 DEF ReadStep
  <2>3. HistoryType'
    BY <1>h, <2>2 DEF HistoryType, NoOut, NoneSeen
  <2>4. History(r)'
    <3>1. out'[r] = NoOut /\ seen'[r] = NoneSeen /\ Asked(r)' = {}
      BY <1>h, <2>1, <2>2 DEF Asked
    <3>2. Undelivered(r)' /\ SeenOK(r)' /\ Rightful(r)'
      BY <2>1, <3>1 DEF Undelivered, SeenOK, Rightful, NoOut, NoneSeen
    <3> QED
      BY <3>2 DEF History
  <2>5. ASSUME NEW s \in Readers, s # r PROVE History(s)'
    <3>1. /\ (s \in shared' <=> s \in shared) /\ buf'[s] = buf[s]
          /\ UNCHANGED <<rpc[s], from[s], pos[s], end[s], fpos[s]>>
      BY <1>7, <1>t, <2>5 DEF ReadEnd
    <3> QED
      BY <1>4, <1>7, <2>5, <3>1
  <2> QED
    BY <2>3, <2>4, <2>5
\* A step inside the call that delivers nothing.
<1>8. ASSUME rpc[r] # "idle", rpc'[r] # "idle", UNCHANGED <<from, pos, end>>,
             \A b \in Blocks : b \in Asked(r) /\ LineOf(b) = LineOf(pos[r]) =>
                 /\ rpc'[r] = "fetch" /\ b < fpos'[r] => buf'[r][b] \in seen[r][b]
                 /\ rpc'[r] = "copy" => HeldAt(r, b)' \in seen[r][b]
      PROVE  HistoryType' /\ History(r)'
  <2>1. out' = out /\ seen' = seen
    BY <1>1, <1>8, <1>r
  <2>2. Asked(r)' = Asked(r)
    BY <1>8 DEF Asked
  <2>3. Undelivered(r)' /\ SeenOK(r)'
    BY <1>8, <1>r, <1>x, <2>1, <2>2 DEF History, Undelivered, SeenOK
  <2>4. Rightful(r)'
    BY <1>8, <2>1, <2>2 DEF Rightful
  <2> QED
    BY <2>1, <2>3, <2>4 DEF History, HistoryType
\* A step inside the call that delivers a block.
<1>9. ASSUME rpc[r] # "idle", rpc'[r] # "idle", rpc'[r] # "fetch", pos'[r] = pos[r] + 1,
             UNCHANGED <<from, end>>, pos[r] \in Blocks, pos[r] \in Asked(r),
             Source(r)[pos[r]] \in seen[r][pos[r]],
             \A b \in Blocks : b \in Asked(r) /\ LineOf(b) = LineOf(pos'[r]) /\ rpc'[r] = "copy" =>
                 HeldAt(r, b)' \in seen[r][b]
      PROVE  HistoryType' /\ History(r)'
  <2> DEFINE v == Source(r)[pos[r]]
  <2>1. seen' = seen /\ out' = [out EXCEPT ![r] = [@ EXCEPT ![pos[r]] = v]]
    BY <1>2, <1>9 DEF ReadStep
  <2>2. v \in Data
    BY <1>9, <1>h
  <2> HIDE DEF v
  <2>3. HistoryType'
    BY <1>9, <1>h, <2>1, <2>2 DEF HistoryType
  <2>4. Asked(r)' = Asked(r)
    BY <1>9 DEF Asked
  <2>5. Undelivered(r)'
    <3> SUFFICES ASSUME NEW b \in Blocks, b >= pos[r] + 1 PROVE out'[r][b] = NoData
      BY <1>9 DEF Undelivered
    <3>1. b \in Nat /\ b # pos[r] /\ b >= pos[r]
      BY <1>r DEF Blocks
    <3>2. out[r][b] = NoData
      BY <1>r, <3>1 DEF History, Undelivered
    <3> QED
      BY <1>h, <2>1, <3>1, <3>2
  <2>6. SeenOK(r)'
    BY <1>r, <1>x, <2>1, <2>4 DEF History, SeenOK
  <2>7. Rightful(r)'
    BY <1>9, <2>1, <2>4 DEF Rightful
  <2> QED
    BY <2>3, <2>5, <2>6, <2>7 DEF History
\* One step per action.
<1>10. CASE \E q \in Request : ReadStart(r, q[1], q[2])
  <2>1. PICK q \in Request : ReadStart(r, q[1], q[2])
    BY <1>10
  <2>2. /\ rpc[r] = "idle" /\ rpc'[r] \in {"bypass", "lookup"} /\ from'[r] = q[1] /\ pos'[r] = q[1]
        /\ end'[r] = q[1] + q[2] /\ UNCHANGED <<lines, shared, buf, fpos>>
        /\ \A s \in Readers : s # r => UNCHANGED <<rpc[s], from[s], pos[s], end[s]>>
    BY <1>t, <2>1 DEF ReadStart
  <2>3. out' = out
    BY <1>h, <1>t, <2>2 DEF ReadStep
  <2>4. seen' = [seen EXCEPT ![r] = [b \in Blocks |-> IF b \in from'[r] .. end'[r] - 1
                                                      THEN {device[b]} ELSE {}]]
    BY <2>2 DEF ReadStep
  <2>5. HistoryType'
    <3>1. \A b \in Blocks : {device[b]} \in SUBSET Data
      BY <1>t
    <3> QED
      BY <1>h, <2>3, <2>4, <3>1 DEF HistoryType
  <2>6. History(r)'
    <3>1. seen'[r] = [b \in Blocks |-> IF b \in from'[r] .. end'[r] - 1 THEN {device[b]} ELSE {}]
      BY <1>h, <2>4
    <3>2. SeenOK(r)'
      BY <1>x, <3>1 DEF SeenOK, Asked
    <3>3. \A b \in Blocks : out[r][b] = NoData
      <4>1. \A b \in Blocks : b >= pos[r]
        BY <1>r, <2>2 DEF RequestOK, Blocks
      <4> QED
        BY <1>r, <4>1 DEF History, Undelivered
    <3>4. Undelivered(r)'
      BY <2>3, <3>3 DEF Undelivered
    <3>5. Rightful(r)'
      BY <2>2 DEF Rightful
    <3> QED
      BY <3>2, <3>4, <3>5 DEF History
  <2>7. ASSUME NEW s \in Readers, s # r PROVE History(s)'
    BY <1>4, <2>2, <2>7
  <2> QED
    BY <2>5, <2>6, <2>7
<1>11. CASE ReadReturn(r)
  BY <1>7, <1>11 DEF ReadReturn
<1>12. CASE BypassFail(r)
  BY <1>7, <1>12 DEF BypassFail
<1>13. CASE FetchFail(r)
  BY <1>7, <1>13 DEF FetchFail
<1>14. CASE BypassBlock(r)
  <2>1. /\ rpc[r] = "bypass" /\ rpc' = rpc /\ pos[r] < end[r] /\ pos'[r] = pos[r] + 1
        /\ UNCHANGED <<from, end, lines, shared, buf, fpos>>
        /\ \A s \in Readers : s # r => pos'[s] = pos[s]
    BY <1>t, <1>14 DEF BypassBlock
  <2>2. pos[r] \in Blocks /\ pos[r] \in Asked(r)
    BY <1>r, <1>t, <2>1 DEF Blocks, Asked, RequestOK
  <2>3. Source(r) = device
    <3>1. r \notin shared
      BY <1>t, <2>1 DEF PositionsOK
    <3> QED
      BY <2>1, <3>1 DEF Source
  <2>4. Source(r)[pos[r]] \in seen[r][pos[r]]
    BY <1>5, <2>2, <2>3
  <2>5. HistoryType' /\ History(r)'
    BY <1>9, <2>1, <2>2, <2>4
  <2>6. ASSUME NEW s \in Readers, s # r PROVE History(s)'
    BY <1>4, <2>1, <2>6
  <2> QED
    BY <2>5, <2>6
<1>15. CASE LookupHit(r)
  <2>1. /\ rpc[r] = "lookup" /\ rpc'[r] = "copy" /\ lock = NoThread /\ LineOf(pos[r]) \in Cached
        /\ shared' = shared \cup {r} /\ UNCHANGED <<lines, buf, fpos, from, pos, end>>
        /\ \A s \in Readers : s # r => rpc'[s] = rpc[s]
    BY <1>t, <1>15 DEF LookupHit
  <2>2. ASSUME NEW b \in Blocks, b \in Asked(r), LineOf(b) = LineOf(pos[r])
        PROVE  HeldAt(r, b)' \in seen[r][b]
    <3>1. HeldAt(r, b)' = lines[LineOf(pos[r])][b]
      BY <2>1 DEF HeldAt
    <3> QED
      BY <1>5, <1>6, <2>1, <2>2, <3>1
  <2>3. HistoryType' /\ History(r)'
    BY <1>8, <2>1, <2>2
  <2>4. ASSUME NEW s \in Readers, s # r PROVE History(s)'
    BY <1>4, <2>1, <2>4
  <2> QED
    BY <2>3, <2>4
<1>16. CASE LookupMiss(r)
  <2>1. /\ rpc[r] = "lookup" /\ rpc'[r] = "fetch" /\ fpos'[r] = FirstBlock(LineOf(pos[r]))
        /\ UNCHANGED <<lines, buf, shared, from, pos, end>>
        /\ \A s \in Readers : s # r => rpc'[s] = rpc[s] /\ fpos'[s] = fpos[s]
    BY <1>t, <1>16 DEF LookupMiss
  <2>2. ASSUME NEW b \in Blocks, LineOf(b) = LineOf(pos[r]) PROVE ~(b < fpos'[r])
    <3>1. b \in Nat
      BY DEF Blocks
    <3> QED
      BY <2>1, <2>2, <3>1, FirstBlockIsFirst
  <2>3. HistoryType' /\ History(r)'
    BY <1>8, <2>1, <2>2
  <2>4. ASSUME NEW s \in Readers, s # r PROVE History(s)'
    BY <1>4, <2>1, <2>4
  <2> QED
    BY <2>3, <2>4
<1>17. CASE FetchBlock(r)
  <2>1. /\ rpc[r] = "fetch" /\ rpc' = rpc /\ fpos'[r] = fpos[r] + 1 /\ fpos[r] \in Blocks
        /\ buf' = [buf EXCEPT ![r][fpos[r]] = device[fpos[r]]]
        /\ UNCHANGED <<lines, shared, from, pos, end>>
        /\ \A s \in Readers : s # r => fpos'[s] = fpos[s]
    BY <1>t, <1>17 DEF FetchBlock, LineBlocks
  <2>2. ASSUME NEW b \in Blocks, b \in Asked(r), LineOf(b) = LineOf(pos[r]), b < fpos'[r]
        PROVE  buf'[r][b] \in seen[r][b]
    <3>1. CASE b = fpos[r]
      <4>1. buf'[r][b] = device[b]
        BY <1>t, <2>1, <3>1 DEF Array
      <4> QED
        BY <1>5, <2>2, <4>1
    <3>2. CASE b # fpos[r]
      <4>1. b < fpos[r]
        BY <1>r, <2>1, <2>2, <3>2 DEF Blocks
      <4>2. buf'[r][b] = buf[r][b]
        BY <1>t, <2>1, <3>2 DEF Array
      <4>3. buf[r][b] \in seen[r][b]
        BY <1>r, <2>1, <2>2, <4>1 DEF History, Rightful
      <4> QED
        BY <4>2, <4>3
    <3> QED
      BY <3>1, <3>2
  <2>3. HistoryType' /\ History(r)'
    BY <1>8, <2>1, <2>2
  <2>4. ASSUME NEW s \in Readers, s # r PROVE History(s)'
    <3>1. buf'[s] = buf[s]
      BY <1>t, <2>1, <2>4
    <3> QED
      BY <1>4, <2>1, <2>4, <3>1
  <2> QED
    BY <2>3, <2>4
\* What a completed fetch has read are right answers.
<1>18. ASSUME rpc[r] = "fetch", fpos[r] \notin LineBlocks(LineOf(pos[r])),
              NEW b \in Blocks, b \in Asked(r), LineOf(b) = LineOf(pos[r])
       PROVE  buf[r][b] \in seen[r][b]
  <2>1. b \in LineBlocks(LineOf(pos[r])) /\ fpos[r] >= FirstBlock(LineOf(pos[r]))
    BY <1>t, <1>18 DEF LineBlocks, PositionsOK
  <2>2. b < fpos[r]
    BY <1>b, <1>r, <1>18, <2>1, FetchedAll
  <2> QED
    BY <1>r, <1>18, <2>2 DEF History, Rightful
<1>19. CASE FetchSuperseded(r)
  <2> DEFINE l == LineOf(pos[r])
  <2>1. /\ rpc[r] = "fetch" /\ rpc'[r] = "copy" /\ lock = NoThread /\ fpos[r] \notin LineBlocks(l)
        /\ shared' = {s \in shared \cup {r} : s = r => l \in Cached}
        /\ buf' = [buf EXCEPT ![r] = IF l \in Cached THEN Blank ELSE @]
        /\ UNCHANGED <<lines, fpos, from, pos, end>>
        /\ \A s \in Readers : s # r => rpc'[s] = rpc[s]
    BY <1>t, <1>19 DEF FetchSuperseded
  <2>2. ASSUME NEW b \in Blocks, b \in Asked(r), LineOf(b) = LineOf(pos[r])
        PROVE  HeldAt(r, b)' \in seen[r][b]
    <3>1. CASE l \in Cached
      <4>1. HeldAt(r, b)' = lines[l][b]
        BY <2>1, <3>1 DEF HeldAt
      <4> QED
        BY <1>5, <1>6, <2>1, <2>2, <3>1, <4>1
    <3>2. CASE l \notin Cached
      <4>1. HeldAt(r, b)' = buf[r][b]
        BY <1>t, <2>1, <3>2 DEF HeldAt
      <4> QED
        BY <1>18, <2>1, <2>2, <4>1
    <3> QED
      BY <3>1, <3>2
  <2>3. HistoryType' /\ History(r)'
    BY <1>8, <2>1, <2>2
  <2>4. ASSUME NEW s \in Readers, s # r PROVE History(s)'
    <3>1. buf'[s] = buf[s] /\ (s \in shared' <=> s \in shared)
      BY <1>t, <2>1, <2>4
    <3> QED
      BY <1>4, <2>1, <2>4, <3>1
  <2> QED
    BY <2>3, <2>4
<1>20. CASE FetchPublish(r)
  <2> DEFINE l       == LineOf(pos[r])
             keys    == Cached \cup {l}
             evicted == IF Cardinality(keys) > MaxLines THEN {Eldest(Touch(l, keys), keys)} ELSE {}
  <2>1. /\ rpc[r] = "fetch" /\ rpc'[r] = "copy" /\ fpos[r] \notin LineBlocks(l)
        /\ lines' = [k \in Lines |-> IF k \in evicted THEN NoLine
                                     ELSE IF k = l THEN buf[r] ELSE lines[k]]
        /\ shared' = {s \in shared : LineOf(pos[s]) \notin evicted \cup {l}}
                         \cup {s \in {r} : l \notin evicted}
        /\ buf' = [s \in Readers |->
                     IF s = r \/ SharesOneOf(s, evicted) THEN Blank
                     ELSE IF SharesOneOf(s, {l}) THEN lines[l]
                     ELSE buf[s]]
        /\ UNCHANGED <<fpos, from, pos, end>>
        /\ \A s \in Readers : s # r => rpc'[s] = rpc[s]
    BY <1>t, <1>20 DEF FetchPublish
  <2>2. l \in Lines
    BY <1>b, <2>1
  <2>3. l \notin evicted
    BY <1>t, <2>2, EldestIsOlder
  <2> HIDE DEF evicted
  <2>4. ASSUME NEW b \in Blocks, b \in Asked(r), LineOf(b) = LineOf(pos[r])
        PROVE  HeldAt(r, b)' \in seen[r][b]
    <3>1. HeldAt(r, b)' = buf[r][b]
      <4>1. r \in shared' /\ lines'[l] = buf[r]
        BY <2>1, <2>2, <2>3
      <4> QED
        BY <2>1, <4>1 DEF HeldAt
    <3> QED
      BY <1>18, <2>1, <2>4, <3>1
  <2>5. HistoryType' /\ History(r)'
    BY <1>8, <2>1, <2>4
  <2>6. ASSUME NEW s \in Readers, s # r PROVE History(s)'
    <3>1. rpc[s] = "fetch" => buf'[s] = buf[s]
      <4>1. rpc[s] = "fetch" => s \notin shared
        BY <1>t DEF PositionsOK
      <4> QED
        BY <2>1, <2>6, <4>1 DEF SharesOneOf
    <3>2. ASSUME NEW b \in Blocks, rpc[s] = "copy" PROVE HeldAt(s, b)' = HeldAt(s, b)
      <4> DEFINE k == LineOf(pos[s])
      <4>0. k \in Lines
        BY <1>t, <3>2 DEF PositionsOK, Blocks, Lines
      <4>1. CASE s \notin shared
        <5>1. s \notin shared' /\ buf'[s] = buf[s]
          BY <2>1, <2>6, <4>1 DEF SharesOneOf
        <5> QED
          BY <4>1, <5>1 DEF HeldAt
      <4>2. CASE s \in shared /\ k \in evicted
        <5>1. s \notin shared' /\ buf'[s] = Blank
          BY <2>1, <2>6, <4>2 DEF SharesOneOf
        <5> QED
          BY <2>1, <2>6, <3>2, <4>2, <5>1 DEF NoZeroUnderReader
      <4>3. CASE s \in shared /\ k \notin evicted /\ k = l
        <5>1. s \notin shared' /\ buf'[s] = lines[l]
          BY <2>1, <2>6, <4>3 DEF SharesOneOf
        <5> QED
          BY <2>1, <4>3, <5>1 DEF HeldAt
      <4>4. CASE s \in shared /\ k \notin evicted /\ k # l
        <5>1. s \in shared' /\ lines'[k] = lines[k]
          BY <2>1, <2>6, <4>0, <4>4
        <5> QED
          BY <2>1, <4>4, <5>1 DEF HeldAt
      <4> QED
        BY <4>1, <4>2, <4>3, <4>4
    <3> QED
      BY <1>3, <2>1, <2>6, <3>1, <3>2
  <2> QED
    BY <2>5, <2>6
<1>21. CASE CopyBlock(r)
  <2> DEFINE more == pos[r] + 1 # end[r] /\ LineOf(pos[r] + 1) = LineOf(pos[r])
  <2>1. /\ rpc[r] = "copy" /\ pos'[r] = pos[r] + 1 /\ rpc'[r] \in {"return", "copy", "lookup"}
        /\ rpc'[r] = "copy" => more
        /\ shared' = {s \in shared : s = r => more}
        /\ buf' = [buf EXCEPT ![r] = IF more THEN @ ELSE Blank]
        /\ UNCHANGED <<lines, fpos, from, end>>
        /\ \A s \in Readers : s # r => rpc'[s] = rpc[s] /\ pos'[s] = pos[s]
    BY <1>t, <1>21 DEF CopyBlock
  <2>2. pos[r] \in Blocks /\ pos[r] \in Asked(r)
    BY <1>b, <2>1
  <2>3. Source(r)[pos[r]] = HeldAt(r, pos[r])
    BY <2>1 DEF Source, HeldAt
  <2>4. Source(r)[pos[r]] \in seen[r][pos[r]]
    BY <1>r, <2>1, <2>2, <2>3 DEF History, Rightful
  <2>5. ASSUME NEW b \in Blocks, b \in Asked(r), LineOf(b) = LineOf(pos'[r]), rpc'[r] = "copy"
        PROVE  HeldAt(r, b)' \in seen[r][b]
    <3>1. more /\ LineOf(pos'[r]) = LineOf(pos[r])
      BY <2>1, <2>5
    <3>2. (r \in shared' <=> r \in shared) /\ buf'[r] = buf[r]
      BY <1>t, <2>1, <3>1
    <3>3. HeldAt(r, b)' = HeldAt(r, b)
      BY <2>1, <3>1, <3>2 DEF HeldAt
    <3> QED
      BY <1>r, <2>1, <2>5, <3>1, <3>3 DEF History, Rightful
  <2>6. HistoryType' /\ History(r)'
    BY <1>9, <2>1, <2>2, <2>4, <2>5
  <2>7. ASSUME NEW s \in Readers, s # r PROVE History(s)'
    <3>1. buf'[s] = buf[s] /\ (s \in shared' <=> s \in shared)
      BY <1>t, <2>1, <2>7
    <3> QED
      BY <1>4, <2>1, <2>7, <3>1
  <2> QED
    BY <2>6, <2>7
<1> QED
  BY <1>r, <1>10, <1>11, <1>12, <1>13, <1>14, <1>15, <1>16, <1>17, <1>19, <1>20, <1>21 DEF ReaderStep

-----------------------------------------------------------------------------
(* The refinement.                                                           *)

\* What makes the answers right, step after step.
ReadInv == AgreementInv /\ Ordered /\ RequestsOK /\ HistoryType /\ \A r \in Readers : History(r)

\* The invariant holds at the start.
LEMMA ReadInvInit == ReadInit => ReadInv
<1> SUFFICES ASSUME ReadInit PROVE ReadInv
  OBVIOUS
<1>1. Init
  BY DEF ReadInit
<1>2. AgreementInv
  BY <1>1, AgreementInit
<1>3. Ordered
  BY <1>1 DEF Init, Ordered, StrictTotal, Cached
<1>4. RequestsOK
  BY <1>1 DEF Init, RequestsOK, RequestOK
<1>5. HistoryType
  BY DEF ReadInit, HistoryType, NoOut, NoneSeen
<1>6. ASSUME NEW r \in Readers PROVE History(r)
  <2>1. /\ out[r] = NoOut /\ seen[r] = NoneSeen /\ rpc[r] = "idle" /\ from[r] = 0 /\ end[r] = 0
    BY <1>1 DEF ReadInit, Init
  <2>2. Asked(r) = {}
    BY <2>1 DEF Asked
  <2> QED
    BY <2>1, <2>2 DEF History, Undelivered, SeenOK, Rightful, NoOut, NoneSeen
<1> QED
  BY <1>2, <1>3, <1>4, <1>5, <1>6 DEF ReadInv

\* A step of the cache with its history is a step of the cache.
LEMMA QuietStepIsStep == [QuietNext]_hvars => [SoleFetchNext]_vars /\ [Next]_vars
BY DEF QuietNext, ReadNext, ReadStep, WriteStep, OtherStep, SoleFetchNext, Next, hvars

\* Every step keeps the answers right.
LEMMA ReadInvStep == ReadInv /\ [QuietNext]_hvars => ReadInv'
<1> SUFFICES ASSUME ReadInv, [QuietNext]_hvars PROVE ReadInv'
  OBVIOUS
<1>1. [SoleFetchNext]_vars /\ [Next]_vars
  BY QuietStepIsStep
<1>2. AgreementInv /\ TypeInv /\ Ordered /\ RequestsOK /\ HistoryType /\ \A r \in Readers : History(r)
  BY DEF ReadInv, AgreementInv, TypeInv
<1>3. AgreementInv' /\ Ordered' /\ RequestsOK'
  BY <1>1, <1>2, AgreementStep, OrderStep, RequestsStep
<1>4. device' \in [Blocks -> Data]
  BY <1>3 DEF AgreementInv, TypeOK
<1>5. HistoryType' /\ \A r \in Readers : History(r)'
  <2>1. ASSUME NEW r \in Readers, ReadStep(r), NoZeroUnderReader
        PROVE  HistoryType' /\ \A s \in Readers : History(s)'
    BY <1>2, <2>1, ReadHistory
  <2>2. ASSUME NEW w \in Writers, WriteStep(w), NoZeroUnderReader
        PROVE  HistoryType' /\ \A s \in Readers : History(s)'
    BY <1>2, <1>4, <2>2, WriteHistory
  <2>3. ASSUME OtherStep, NoZeroUnderReader
        PROVE  HistoryType' /\ \A s \in Readers : History(s)'
    BY <1>2, <2>3, OtherHistory
  <2>4. ASSUME UNCHANGED hvars PROVE HistoryType' /\ \A s \in Readers : History(s)'
    <3>1. UNCHANGED <<device, lines, rpc, from, pos, end, shared, buf, fpos, out, seen>>
      BY <2>4 DEF hvars, vars, tables, rvars
    <3> QED
      BY <1>2, <3>1 DEF HistoryType, History, Undelivered, SeenOK, Rightful, Asked, HeldAt
  <2> QED
    BY <2>1, <2>2, <2>3, <2>4 DEF QuietNext, ReadNext
<1> QED
  BY <1>3, <1>5 DEF ReadInv

\* The contract's view of the calls in progress.
Reading == [r \in Readers |-> from[r] .. end[r] - 1]
Writing == [w \in Writers |-> wpos[w] .. wend[w] - 1]

\* An idle cache is an idle device.
LEMMA InitRefines == ReadInit => Contract!Init
<1> SUFFICES ASSUME ReadInit PROVE Contract!Init
  OBVIOUS
<1>1. Init
  BY DEF ReadInit
<1>2. device \in [Blocks -> Data] /\ wval = [w \in Writers |-> NoData]
  BY <1>1 DEF Init
<1>3. /\ Reading = [r \in Readers |-> {}]
      /\ Writing = [w \in Writers |-> {}]
  <2>1. \A r \in Readers : from[r] .. end[r] - 1 = {}
    BY <1>1 DEF Init
  <2>2. \A w \in Writers : wpos[w] .. wend[w] - 1 = {}
    BY <1>1 DEF Init
  <2> QED
    BY <2>1, <2>2 DEF Reading, Writing
<1>4. out = [r \in Readers |-> NoOut] /\ seen = [r \in Readers |-> NoneSeen]
  BY DEF ReadInit
<1> QED
  BY <1>2, <1>3, <1>4
  DEF Contract!Init, Contract!Blocks, Contract!Nothing, Contract!NoOut, Blocks, NoOut, NoneSeen, Reading, Writing

\* A reader's step begins a read, delivers a block, ends a read, or is not seen from above.
LEMMA ReadStepRefines ==
    ASSUME ReadInv, NEW r \in Readers, ReadStep(r)
    PROVE  Contract!Next \/ UNCHANGED Contract!vars
<1> USE DEF tables, rvars, wvars
<1>t. /\ rpc \in [Readers -> {"idle", "bypass", "lookup", "fetch", "copy", "return"}]
      /\ from \in [Readers -> 0 .. BlockCount] /\ pos \in [Readers -> 0 .. BlockCount]
      /\ end \in [Readers -> 0 .. BlockCount] /\ PositionsOK
  BY DEF ReadInv, AgreementInv, TypeOK
<1>h. /\ out \in [Readers -> [Blocks -> Data \cup {NoData}]] /\ seen \in [Readers -> [Blocks -> SUBSET Data]]
  BY DEF ReadInv, HistoryType
<1>r. History(r) /\ RequestOK(r) /\ ReaderStep(r) /\ pos[r] \in Nat /\ from[r] \in Nat /\ end[r] \in Nat
  BY <1>t DEF ReadInv, RequestsOK, ReadStep
<1>w. UNCHANGED <<device, wval, wpos, wend>>
  BY <1>r DEF ReaderStep, ReadStart, ReadReturn, BypassBlock, BypassFail, LookupHit, LookupMiss, FetchBlock,
     FetchFail, FetchSuperseded, FetchPublish, CopyBlock
<1>v. Writing' = Writing
  BY <1>w DEF Writing
\* A call that ends.
<1>1. ASSUME ReadEnd(r), rpc[r] # "idle" PROVE Contract!Next
  <2>1. rpc'[r] = "idle" /\ from' = [from EXCEPT ![r] = 0] /\ end' = [end EXCEPT ![r] = 0]
    BY <1>1, <1>t DEF ReadEnd
  <2>2. out' = [out EXCEPT ![r] = NoOut] /\ seen' = [seen EXCEPT ![r] = NoneSeen]
    BY <2>1 DEF ReadStep
  <2>3. Reading[r] # {}
    <3>1. from[r] \in from[r] .. end[r] - 1
      BY <1>1, <1>r DEF RequestOK
    <3> QED
      BY <3>1 DEF Reading
  <2>4. Reading' = [Reading EXCEPT ![r] = {}]
    <3>1. from'[r] .. end'[r] - 1 = {}
      BY <1>t, <2>1
    <3>2. \A s \in Readers : s # r => from'[s] = from[s] /\ end'[s] = end[s]
      BY <1>t, <2>1
    <3> QED
      BY <3>1, <3>2 DEF Reading
  <2>5. Contract!EndRead(r)
    BY <1>v, <1>w, <2>2, <2>3, <2>4
    DEF Contract!EndRead, Contract!Nothing, Contract!NoOut, Contract!Blocks, Blocks, NoOut, NoneSeen, Reading, Writing
  <2> QED
    BY <2>5 DEF Contract!Next
\* A step inside the call that delivers nothing.
<1>2. ASSUME rpc[r] # "idle", rpc'[r] # "idle", UNCHANGED <<from, pos, end>> PROVE UNCHANGED Contract!vars
  <2>1. out' = out /\ seen' = seen
    <3>1. pos'[r] # pos[r] + 1
      BY <1>2, <1>r
    <3> QED
      BY <1>2, <1>h, <3>1 DEF ReadStep
  <2> QED
    BY <1>2, <1>w, <2>1 DEF Contract!vars
\* A step inside the call that delivers a block.
<1>3. ASSUME rpc[r] # "idle", rpc'[r] # "idle", UNCHANGED <<from, end>>, pos'[r] = pos[r] + 1,
             pos[r] \in Blocks, pos[r] \in Asked(r), Source(r)[pos[r]] \in seen[r][pos[r]]
      PROVE  Contract!Next
  <2> DEFINE v == Source(r)[pos[r]]
             b == pos[r]
  <2>1. seen' = seen /\ out' = [out EXCEPT ![r][b] = v]
    BY <1>3, <1>h DEF ReadStep
  <2>2. out[r][b] = NoData
    BY <1>3, <1>r DEF History, Undelivered
  <2>3. b \in Reading[r] /\ Reading' = Reading
    BY <1>3 DEF Reading, Asked
  <2>4. v \in seen[r][b]
    BY <1>3
  <2>5. b \in Contract!Blocks
    BY <1>3 DEF Contract!Blocks, Blocks
  <2> HIDE DEF v, b
  <2>6. Contract!Deliver(r, b)
    BY <1>v, <1>w, <2>1, <2>2, <2>3, <2>4 DEF Contract!Deliver, Reading, Writing
  <2> QED
    BY <2>5, <2>6 DEF Contract!Next
<1>4. CASE \E q \in Request : ReadStart(r, q[1], q[2])
  <2>1. PICK q \in Request : ReadStart(r, q[1], q[2])
    BY <1>4
  <2>2. /\ rpc[r] = "idle" /\ rpc'[r] # "idle" /\ from'[r] = q[1] /\ end'[r] = q[1] + q[2]
        /\ \A s \in Readers : s # r => from'[s] = from[s] /\ end'[s] = end[s]
    BY <1>t, <2>1 DEF ReadStart
  <2> DEFINE bs == q[1] .. q[1] + q[2] - 1
  <2>3. q[1] \in Nat /\ q[2] \in Nat \ {0} /\ q[1] + q[2] <= BlockCount
    BY DEF Request, Blocks
  <2>4. q[1] \in bs /\ bs \subseteq Blocks
    BY <2>3 DEF Blocks
  <2>5. bs \in (SUBSET Contract!Blocks) \ {{}}
    BY <2>4 DEF Contract!Blocks, Blocks
  <2>6. Reading[r] = {}
    BY <1>r, <2>2 DEF Reading, RequestOK
  <2>a. from'[r] .. end'[r] - 1 = bs
    BY <2>2, <2>3
  <2>7. Reading' = [Reading EXCEPT ![r] = bs]
    <3> HIDE DEF bs
    <3> QED
      BY <2>a, <2>2 DEF Reading
  <2>8. seen' = [seen EXCEPT ![r] = [b \in Contract!Blocks |-> IF b \in bs THEN {device[b]} ELSE {}]]
    <3>1. seen' = [seen EXCEPT ![r] = [b \in Blocks |-> IF b \in from'[r] .. end'[r] - 1 THEN {device[b]} ELSE {}]]
      BY <2>2 DEF ReadStep
    <3> HIDE DEF bs
    <3> QED
      BY <2>a, <3>1 DEF Contract!Blocks, Blocks
  <2>9. out' = [out EXCEPT ![r] = Contract!NoOut]
    <3>1. out' = out
      BY <1>h, <2>2 DEF ReadStep
    <3>2. \A b \in Blocks : out[r][b] = NoData
      <4>1. \A b \in Blocks : b >= pos[r]
        BY <1>r, <2>2 DEF RequestOK, Blocks
      <4> QED
        BY <1>r, <4>1 DEF History, Undelivered
    <3>3. out[r] = Contract!NoOut
      BY <1>h, <3>2 DEF Contract!NoOut, Contract!Blocks, Blocks
    <3> QED
      BY <1>h, <3>1, <3>3
  <2> HIDE DEF bs
  <2>10. Contract!BeginRead(r)
    BY <1>v, <1>w, <2>5, <2>6, <2>7, <2>8, <2>9 DEF Contract!BeginRead, Reading, Writing
  <2> QED
    BY <2>10 DEF Contract!Next
<1>5. CASE ReadReturn(r)
  BY <1>1, <1>5 DEF ReadReturn
<1>6. CASE BypassFail(r)
  BY <1>1, <1>6 DEF BypassFail
<1>7. CASE FetchFail(r)
  BY <1>1, <1>7 DEF FetchFail
<1>8. CASE LookupHit(r)
  BY <1>2, <1>8, <1>t DEF LookupHit
<1>9. CASE LookupMiss(r)
  BY <1>2, <1>9, <1>t DEF LookupMiss
<1>10. CASE FetchBlock(r)
  BY <1>2, <1>10, <1>t DEF FetchBlock
<1>11. CASE FetchSuperseded(r)
  BY <1>2, <1>11, <1>t DEF FetchSuperseded
<1>12. CASE FetchPublish(r)
  <2>1. rpc[r] = "fetch" /\ rpc' = [rpc EXCEPT ![r] = "copy"] /\ UNCHANGED <<from, pos, end>>
    BY <1>12 DEF FetchPublish
  <2> QED
    BY <1>2, <1>t, <2>1
<1>13. CASE BypassBlock(r)
  <2>1. rpc[r] = "bypass" /\ rpc' = rpc /\ pos[r] < end[r] /\ pos'[r] = pos[r] + 1 /\ UNCHANGED <<from, end>>
    BY <1>t, <1>13 DEF BypassBlock
  <2>2. pos[r] \in Blocks /\ pos[r] \in Asked(r)
    BY <1>r, <1>t, <2>1 DEF Blocks, Asked, RequestOK
  <2>3. Source(r) = device
    <3>1. r \notin shared
      BY <1>t, <2>1 DEF PositionsOK
    <3> QED
      BY <2>1, <3>1 DEF Source
  <2>4. Source(r)[pos[r]] \in seen[r][pos[r]]
    BY <1>r, <2>2, <2>3 DEF History, SeenOK
  <2> QED
    BY <1>3, <2>1, <2>2, <2>4
<1>14. CASE CopyBlock(r)
  <2>1. rpc[r] = "copy" /\ rpc'[r] # "idle" /\ pos'[r] = pos[r] + 1 /\ UNCHANGED <<from, end>>
    BY <1>t, <1>14 DEF CopyBlock
  <2>2. pos[r] \in Blocks /\ pos[r] \in Asked(r)
    BY <1>r, <1>t, <2>1 DEF Blocks, Asked, RequestOK, PositionsOK
  <2>3. Source(r)[pos[r]] = HeldAt(r, pos[r])
    BY <2>1 DEF Source, HeldAt
  <2>4. Source(r)[pos[r]] \in seen[r][pos[r]]
    BY <1>r, <2>1, <2>2, <2>3 DEF History, Rightful
  <2> QED
    BY <1>3, <2>1, <2>2, <2>4
<1> QED
  BY <1>r, <1>4, <1>5, <1>6, <1>7, <1>8, <1>9, <1>10, <1>11, <1>12, <1>13, <1>14 DEF ReaderStep

\* A writer's step begins a write, lands a block or ends the write.
LEMMA WriteStepRefines ==
    ASSUME ReadInv, NEW w \in Writers, WriteStep(w)
    PROVE  Contract!Next \/ UNCHANGED Contract!vars
<1> USE DEF tables, rvars, wvars
<1>t. /\ device \in [Blocks -> Data] /\ PositionsOK
      /\ wpos \in [Writers -> 0 .. BlockCount] /\ wend \in [Writers -> 0 .. BlockCount]
      /\ wval \in [Writers -> Data \cup {NoData}] /\ RequestsOK
  BY DEF ReadInv, AgreementInv, TypeOK
<1>h. seen \in [Readers -> [Blocks -> SUBSET Data]]
  BY DEF ReadInv, HistoryType
<1>s. \A r \in Readers, b \in Blocks : IF b \in from[r] .. end[r] - 1 THEN device[b] \in seen[r][b] ELSE seen[r][b] = {}
  BY DEF ReadInv, History, SeenOK, Asked
<1>w. /\ WriterStep(w) /\ out' = out
      /\ seen' = [r \in Readers |-> [b \in Blocks |->
                  IF b \in from[r] .. end[r] - 1 THEN seen[r][b] \cup {device'[b]} ELSE {}]]
  BY DEF WriteStep
<1>u. UNCHANGED <<from, end>>
  BY <1>w DEF WriterStep, WriteStart, WriteBlock, WriteDone, WriteFail
<1>v. Reading' = Reading
  BY <1>u DEF Reading
\* Where nothing lands, nothing more is seen.
<1>1. ASSUME NEW r \in Readers, NEW b \in Blocks, device'[b] = device[b] PROVE seen'[r][b] = seen[r][b]
  <2>1. seen'[r][b] = IF b \in from[r] .. end[r] - 1 THEN seen[r][b] \cup {device'[b]} ELSE {}
    BY <1>w
  <2>2. CASE b \in from[r] .. end[r] - 1
    <3>1. device'[b] \in seen[r][b]
      BY <1>1, <1>s, <2>2
    <3> QED
      BY <2>1, <2>2, <3>1
  <2>3. CASE b \notin from[r] .. end[r] - 1
    BY <1>s, <2>1, <2>3
  <2> QED
    BY <2>2, <2>3
<1>2. ASSUME device' = device PROVE seen' = seen
  <2>1. \A r \in Readers : seen'[r] = seen[r]
    <3>1. \A r \in Readers : seen'[r] \in [Blocks -> SUBSET Data] /\ seen[r] \in [Blocks -> SUBSET Data]
      <4>1. \A r \in Readers, b \in Blocks : seen[r][b] \cup {device'[b]} \in SUBSET Data
        BY <1>2, <1>h, <1>t
      <4> QED
        BY <1>h, <1>w, <4>1
    <3>2. \A r \in Readers, b \in Blocks : seen'[r][b] = seen[r][b]
      BY <1>1, <1>2
    <3> QED
      BY <3>1, <3>2
  <2> QED
    BY <1>h, <1>w, <2>1
\* The call ends.
<1>3. ASSUME WriteEnd(w), device' = device PROVE Contract!Next
  <2>1. wval' = [wval EXCEPT ![w] = NoData]
    BY <1>3 DEF WriteEnd
  <2>2. Writing' = [Writing EXCEPT ![w] = {}]
    <3>1. wpos'[w] .. wend'[w] - 1 = {}
      BY <1>3, <1>t DEF WriteEnd
    <3>2. \A v \in Writers : v # w => wpos'[v] = wpos[v] /\ wend'[v] = wend[v]
      BY <1>3, <1>t DEF WriteEnd
    <3> QED
      BY <3>1, <3>2 DEF Writing
  <2>3. Contract!EndWrite(w)
    BY <1>2, <1>3, <1>v, <1>w, <2>1, <2>2 DEF Contract!EndWrite, Reading, Writing
  <2> QED
    BY <2>3 DEF Contract!Next
<1>4. CASE \E q \in Request, v \in Data : WriteStart(w, q[1], q[2], v)
  <2>1. PICK q \in Request, v \in Data : WriteStart(w, q[1], q[2], v)
    BY <1>4
  <2>2. /\ lock = NoThread /\ device' = device /\ wval' = [wval EXCEPT ![w] = v]
        /\ wpos'[w] = q[1] /\ wend'[w] = q[1] + q[2]
        /\ \A x \in Writers : x # w => wpos'[x] = wpos[x] /\ wend'[x] = wend[x]
    BY <1>t, <2>1 DEF WriteStart
  <2> DEFINE bs == q[1] .. q[1] + q[2] - 1
  <2>3. q[1] \in Nat /\ q[2] \in Nat \ {0} /\ q[1] + q[2] <= BlockCount
    BY DEF Request, Blocks
  <2>4. q[1] \in bs /\ bs \subseteq Blocks
    BY <2>3 DEF Blocks
  <2>5. bs \in (SUBSET Contract!Blocks) \ {{}}
    BY <2>4 DEF Contract!Blocks, Blocks
  <2>6. Writing[w] = {}
    <3>1. w # lock
      BY <2>2
    <3>2. wpos[w] = 0 /\ wend[w] = 0
      BY <1>t, <3>1 DEF RequestsOK
    <3> QED
      BY <3>2 DEF Writing
  <2>a. wpos'[w] .. wend'[w] - 1 = bs
    BY <2>2, <2>3
  <2>7. Writing' = [Writing EXCEPT ![w] = bs]
    <3> HIDE DEF bs
    <3> QED
      BY <2>a, <2>2 DEF Writing
  <2>8. seen' = seen
    BY <1>2, <2>2
  <2> HIDE DEF bs
  <2>9. Contract!BeginWrite(w)
    BY <1>v, <1>w, <2>2, <2>5, <2>6, <2>7, <2>8 DEF Contract!BeginWrite, Reading, Writing
  <2> QED
    BY <2>9 DEF Contract!Next
<1>5. CASE WriteBlock(w)
  <2> DEFINE b == wpos[w]
  <2>1. /\ lock = w /\ b < wend[w] /\ device' = [device EXCEPT ![b] = wval[w]]
        /\ wpos' = [wpos EXCEPT ![w] = b + 1] /\ UNCHANGED <<wend, wval>>
    BY <1>5 DEF WriteBlock
  <2>2. b \in Nat /\ wend[w] \in Nat /\ b \in Blocks /\ wval[w] \in Data
    BY <1>t, <2>1 DEF Blocks, PositionsOK
  <2>3. b \in Writing[w] /\ b \in Contract!Blocks
    BY <2>1, <2>2 DEF Writing, Contract!Blocks, Blocks
  <2>4. Writing' = [Writing EXCEPT ![w] = @ \ {b}]
    <3>1. wpos'[w] = b + 1 /\ wend'[w] = wend[w]
      BY <1>t, <2>1
    <3>2. (b + 1) .. wend[w] - 1 = (b .. wend[w] - 1) \ {b}
      BY <2>1, <2>2
    <3>3. \A x \in Writers : x # w => wpos'[x] = wpos[x] /\ wend'[x] = wend[x]
      BY <1>t, <2>1
    <3> QED
      BY <3>1, <3>2, <3>3 DEF Writing
  <2>5. seen' = [r \in Readers |->
                   [seen[r] EXCEPT ![b] = IF b \in Reading[r] THEN @ \cup {wval[w]} ELSE @]]
    <3>1. ASSUME NEW r \in Readers
          PROVE  seen'[r] = [seen[r] EXCEPT ![b] = IF b \in Reading[r] THEN @ \cup {wval[w]} ELSE @]
      <4>1. device'[b] = wval[w]
        BY <1>t, <2>1, <2>2
      <4>2. seen'[r][b] = IF b \in Reading[r] THEN seen[r][b] \cup {wval[w]} ELSE seen[r][b]
        BY <1>s, <1>w, <2>2, <4>1 DEF Reading
      <4>3. \A c \in Blocks : c # b => seen'[r][c] = seen[r][c]
        BY <1>1, <1>t, <2>1
      <4>4. seen'[r] = [c \in Blocks |-> seen'[r][c]]
        BY <1>w
      <4>5. seen[r] = [c \in Blocks |-> seen[r][c]]
        BY <1>h
      <4> HIDE DEF b
      <4> QED
        BY <2>2, <4>2, <4>3, <4>4, <4>5
    <3>2. seen' = [r \in Readers |-> seen'[r]]
      BY <1>w
    <3> HIDE DEF b
    <3> QED
      BY <3>1, <3>2
  <2> HIDE DEF b
  <2>6. PICK c \in Contract!Blocks : c = b
    BY <2>3
  <2>7. Contract!Land(w, c)
    BY <1>v, <1>w, <2>1, <2>3, <2>4, <2>5, <2>6 DEF Contract!Land, Reading, Writing
  <2> QED
    BY <2>7 DEF Contract!Next
<1>6. CASE WriteDone(w)
  BY <1>3, <1>6 DEF WriteDone
<1>7. CASE WriteFail(w)
  BY <1>3, <1>7 DEF WriteFail
<1> QED
  BY <1>w, <1>4, <1>5, <1>6, <1>7 DEF WriterStep

\* The cache is transparent: as long as no line is fetched twice at once and no array is
\* zeroed while readBlocks copies out of it, callers of CachedBlockDevice see a plain block
\* device, which returns for every block a content that the block had during the call.
THEOREM CacheIsTransparent == QuietSpec => Transparent
<1>1. ReadInit => ReadInv
  BY ReadInvInit
<1>2. ReadInv /\ [QuietNext]_hvars => ReadInv'
  BY ReadInvStep
<1>3. ReadInit => Contract!Init
  BY InitRefines
<1>4. ReadInv /\ [QuietNext]_hvars => [Contract!Next]_(Contract!vars)
  <2> SUFFICES ASSUME ReadInv, [QuietNext]_hvars PROVE Contract!Next \/ UNCHANGED Contract!vars
    OBVIOUS
  <2>1. CASE OtherStep
    <3>1. UNCHANGED <<device, from, end, wpos, wend, wval, out, seen>>
      BY <2>1 DEF OtherStep, Invalidate, CloseDrop, CloseDelegate, DropAll, wvars, rvars
    <3> QED
      BY <3>1 DEF Contract!vars
  <2>2. CASE UNCHANGED hvars
    <3>1. UNCHANGED <<device, from, end, wpos, wend, wval, out, seen>>
      BY <2>2 DEF hvars, vars, wvars, rvars
    <3> QED
      BY <3>1 DEF Contract!vars
  <2>3. ASSUME NEW r \in Readers, ReadStep(r) PROVE Contract!Next \/ UNCHANGED Contract!vars
    BY <2>3, ReadStepRefines
  <2>4. ASSUME NEW w \in Writers, WriteStep(w) PROVE Contract!Next \/ UNCHANGED Contract!vars
    BY <2>4, WriteStepRefines
  <2> QED
    BY <2>1, <2>2, <2>3, <2>4 DEF QuietNext, ReadNext
<1> QED
  BY <1>1, <1>2, <1>3, <1>4, PTL DEF QuietSpec, Transparent, Contract!Spec
=============================================================================
