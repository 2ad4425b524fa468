------------------------- MODULE Ext4JournalProofs -------------------------
(***************************************************************************)
(* Proofs about module Ext4Journal.                                        *)
(*                                                                         *)
(* Whatever Linux committed, wherever it was cut off or the drive was      *)
(* pulled, and however often the replay was tried, home blocks and log     *)
(* together hold what was committed, or the replay refuses the journal.    *)
(* And the app writes only a volume whose log is empty.                    *)
(*                                                                         *)
(* The argument follows the scan.  Off, Age: places and numbers wrap, and  *)
(* are compared by their distance from a first one.  After: the run of the *)
(* scan over any log.  ScanTx: a run that comes to a whole transaction     *)
(* takes it; HalfHeader, HalfCommit and BadTx: one that comes to part of a *)
(* transaction ends or is refused; BadRun: so is one over a log that was   *)
(* damaged since.  Holds relates the tags a scan has taken to home blocks  *)
(* and committed contents.  Journalled puts these together with the        *)
(* numbers: no header left by an earlier use of the log has a number the   *)
(* scan could still expect.                                                *)
(***************************************************************************)
EXTENDS Ext4Journal, FiniteSetTheorems, SequenceTheorems, WellFoundedInduction, TLAPS

\* A remainder, for a number that is at most one span out of range.
LEMMA ModSmall ==
    ASSUME NEW S \in Nat \ {0}, NEW a \in Int, 0 - S <= a, a < 2 * S
    PROVE  a % S = IF a < 0 THEN a + S ELSE IF a < S THEN a ELSE a - S
<1>1. CASE a < 0
  BY <1>1
<1>2. CASE 0 <= a /\ a < S
  BY <1>2
<1>3. CASE S <= a
  BY <1>3
<1> QED
  BY <1>1, <1>2, <1>3

\* A step of at most one log length wraps at most once.
LEMMA AheadIs ==
    ASSUME NEW i \in Slots, NEW n \in 0 .. LogLen
    PROVE  Ahead(i, n) = IF i + n <= LogLen THEN i + n ELSE i + n - LogLen
<1>1. LogLen \in Nat \ {0} /\ i \in 1 .. LogLen
  BY JournalAssumption DEF Slots
<1>2. (i - 1 + n) % LogLen = IF i - 1 + n < LogLen THEN i - 1 + n ELSE i - 1 + n - LogLen
  <2>1. PICK a \in Int : a = i - 1 + n /\ 0 - LogLen <= a /\ a < 2 * LogLen /\ 0 <= a
    BY <1>1
  <2>2. a % LogLen = IF a < 0 THEN a + LogLen ELSE IF a < LogLen THEN a ELSE a - LogLen
    BY <1>1, <2>1, ModSmall
  <2> QED
    BY <1>1, <2>1, <2>2
<1> QED
  BY <1>1, <1>2 DEF Ahead

\* How many blocks i is after j in the log, which wraps.
Off(i, j) == (i - j) % LogLen

\* The distance, written without a remainder.
LEMMA OffIs ==
    ASSUME NEW i \in Slots, NEW j \in Slots
    PROVE  Off(i, j) = IF j <= i THEN i - j ELSE i - j + LogLen
<1>1. LogLen \in Nat \ {0} /\ i \in 1 .. LogLen /\ j \in 1 .. LogLen
  BY JournalAssumption DEF Slots
<1>2. PICK a \in Int : a = i - j /\ 0 - LogLen <= a /\ a < LogLen /\ a < 2 * LogLen
  BY <1>1
<1>3. a % LogLen = IF a < 0 THEN a + LogLen ELSE IF a < LogLen THEN a ELSE a - LogLen
  BY <1>1, <1>2, ModSmall
<1> QED
  BY <1>1, <1>2, <1>3 DEF Off

\* The sequence numbers.
Seqs == 0 .. SeqSpan - 1

\* How many numbers x is after the first.
Age(x) == IF FirstSeq <= x THEN x - FirstSeq ELSE x - FirstSeq + SeqSpan

\* An age is a sequence number itself.
LEMMA AgeIs ==
    ASSUME NEW x \in Seqs
    PROVE  Age(x) \in Seqs /\ SeqSpan \in Nat \ {0} /\ FirstSeq \in Seqs
BY JournalAssumption DEF Age, Seqs

\* The next number is one older, until the numbers are used up.
LEMMA AgeSucc ==
    ASSUME NEW x \in Seqs
    PROVE  Succ(x) \in Seqs /\ (Age(x) + 1 < SeqSpan => Age(Succ(x)) = Age(x) + 1)
<1>1. SeqSpan \in Nat \ {0} /\ FirstSeq \in Nat /\ FirstSeq < SeqSpan /\ x \in Nat /\ x < SeqSpan
  BY JournalAssumption DEF Seqs
<1>2. PICK a \in Int : a = x + 1 /\ 0 - SeqSpan <= a /\ a < 2 * SeqSpan /\ 0 <= a
  BY <1>1
<1>3. a % SeqSpan = IF a < 0 THEN a + SeqSpan ELSE IF a < SeqSpan THEN a ELSE a - SeqSpan
  BY <1>1, <1>2, ModSmall
<1>4. Succ(x) = IF x + 1 < SeqSpan THEN x + 1 ELSE 0
  BY <1>1, <1>2, <1>3 DEF Succ
<1> QED
  BY <1>1, <1>4 DEF Age, Seqs

\* isRevoked's signed difference orders numbers by age, as long as both are in the first half of them.
LEMMA LaterIs ==
    ASSUME NEW x \in Seqs, NEW y \in Seqs, 2 * Age(x) < SeqSpan, 2 * Age(y) < SeqSpan
    PROVE  Later(x, y) >= 0 <=> Age(y) <= Age(x)
<1>1. SeqSpan \in Nat \ {0} /\ FirstSeq \in Nat /\ FirstSeq < SeqSpan /\ x \in Nat /\ x < SeqSpan /\ y \in Nat /\ y < SeqSpan
  BY JournalAssumption DEF Seqs
<1>2. PICK a \in Int : a = x - y /\ 0 - SeqSpan <= a /\ a < SeqSpan /\ a < 2 * SeqSpan
  BY <1>1
<1>3. a % SeqSpan = IF a < 0 THEN a + SeqSpan ELSE IF a < SeqSpan THEN a ELSE a - SeqSpan
  BY <1>1, <1>2, ModSmall
<1>4. PICK d \in Int : d = (x - y) % SeqSpan /\ d = IF a < 0 THEN a + SeqSpan ELSE a
  BY <1>1, <1>2, <1>3
<1>5. Later(x, y) = IF 2 * d < SeqSpan THEN d ELSE d - SeqSpan
  BY <1>4 DEF Later
<1> QED
  BY <1>1, <1>2, <1>4, <1>5 DEF Age

\* Min of a set of naturals is its least element, Max of a bounded one its greatest.
LEMMA LeastNatural ==
    ASSUME NEW T, T \subseteq Nat, T # {}
    PROVE  \E x \in T : \A y \in T : x <= y
<1>1. IsWellFoundedOn(OpToRel(<, Nat), Nat)
  BY NatLessThanWellFounded
<1>2. \A x, y \in Nat : x < y => <<x, y>> \in OpToRel(<, Nat)
  BY DEF OpToRel
<1>3. \E R : IsWellFoundedOn(R, Nat) /\ \A x, y \in Nat : x < y => <<x, y>> \in R
  BY <1>1, <1>2
<1>4. PICK R : IsWellFoundedOn(R, Nat) /\ \A x, y \in Nat : x < y => <<x, y>> \in R
  BY <1>3
<1>5. IsWellFoundedOn(R, Nat)
  BY <1>4
<1>6. \E x \in T : \A y \in T : ~(<<y, x>> \in R)
  BY <1>5, WFMin
<1>7. PICK x \in T : \A y \in T : ~(<<y, x>> \in R)
  BY <1>6
<1>8. ASSUME NEW y \in T PROVE x <= y
  <2>1. ~(y < x)
    BY <1>4, <1>7
  <2> QED
    BY <2>1
<1> QED
  BY <1>8

\* The least element of a set of naturals.
LEMMA MinIs ==
    ASSUME NEW T, T \subseteq Nat, T # {}
    PROVE  Min(T) \in T /\ \A y \in T : Min(T) <= y
<1>1. \E x \in T : \A y \in T : x =< y
  BY LeastNatural
<1> QED
  BY <1>1 DEF Min

\* The greatest element of a bounded one.
LEMMA MaxIs ==
    ASSUME NEW b \in Nat, NEW T, T \subseteq 0 .. b, T # {}
    PROVE  Max(T) \in T /\ \A y \in T : Max(T) >= y
<1> DEFINE U == {b - x : x \in T}
<1>1. U \subseteq Nat /\ U # {}
  OBVIOUS
<1>2. PICK m \in U : \A y \in U : m <= y
  <2> HIDE DEF U
  <2> QED
    BY <1>1, LeastNatural
<1>3. PICK x \in T : m = b - x
  BY <1>2
<1>4. ASSUME NEW y \in T PROVE x >= y
  <2>1. b - y \in U
    OBVIOUS
  <2>2. b - x <= b - y
    BY <1>2, <1>3, <2>1
  <2> QED
    BY <2>2
<1>5. \E z \in T : \A y \in T : z >= y
  BY <1>4
<1> QED
  BY <1>5 DEF Max

\* The turns of the scan loop.
Turns == LogLen + 2

\* The scan before its first turn.
Begin(st, sq) ==
    [at |-> st, seq |-> sq, all |-> <<>>, gone |-> {},
     tags |-> <<>>, revoked |-> {}, going |-> TRUE, refused |-> FALSE]

\* The states of the scan of lg, from block st and number sq on.
IsRun(g, n, lg, cs, st, sq) ==
    g = [i \in 0 .. n |-> IF i = 0 THEN Begin(st, sq) ELSE ScanBlock(lg, cs, g[i - 1])]

\* The run of the scan of lg from block st and number sq on.
After(lg, cs, st, sq) == CHOOSE g : IsRun(g, Turns, lg, cs, st, sq)

\* Scan is where that run ends.
LEMMA ScanIs == Scan = After(log, features.csum, start, seq)[Turns]
BY DEF Scan, After, IsRun, Begin, ScanStart, Turns

\* The recursive function behind Scan has a value: a run of n turns is extended by one.
LEMMA AfterExists ==
    ASSUME NEW lg, NEW cs, NEW st, NEW sq
    PROVE  \E g : IsRun(g, Turns, lg, cs, st, sq)
<1> DEFINE Run(g, n) == IsRun(g, n, lg, cs, st, sq)
           Without == {n \in Nat : ~\E g : Run(g, n)}
<1>1. Turns \in Nat
  BY JournalAssumption DEF Turns
<1>2. Without = {}
  <2> SUFFICES ASSUME Without # {} PROVE FALSE
    OBVIOUS
  <2>1. Without \subseteq Nat
    OBVIOUS
  <2>2. PICK n \in Without : \A y \in Without : n <= y
    <3> HIDE DEF Without
    <3> QED
      BY <2>1, LeastNatural
  <2>3. n \in Nat /\ ~\E g : Run(g, n)
    BY <2>2
  <2>4. n # 0
    <3>1. Run([i \in 0 .. 0 |-> Begin(st, sq)], 0)
      BY DEF IsRun
    <3> QED
      BY <2>3, <3>1
  <2>5. n - 1 \in Nat /\ n - 1 \notin Without
    <3>1. n - 1 \in Nat /\ ~(n <= n - 1)
      BY <2>3, <2>4
    <3> HIDE DEF Without
    <3> QED
      BY <2>2, <3>1
  <2>6. PICK g : Run(g, n - 1)
    BY <2>5
  <2>7. PICK h : h = [i \in 0 .. n |-> IF i = n THEN ScanBlock(lg, cs, g[n - 1]) ELSE g[i]]
    OBVIOUS
  <2>8. \A i \in 0 .. n - 1 : g[i] = IF i = 0 THEN Begin(st, sq) ELSE ScanBlock(lg, cs, g[i - 1])
    BY <2>6 DEF IsRun
  <2>9. \A i \in 0 .. n : h[i] = IF i = 0 THEN Begin(st, sq) ELSE ScanBlock(lg, cs, h[i - 1])
    <3> SUFFICES ASSUME NEW i \in 0 .. n
                 PROVE  h[i] = IF i = 0 THEN Begin(st, sq) ELSE ScanBlock(lg, cs, h[i - 1])
      OBVIOUS
    <3>1. CASE i = n
      <4>1. h[i] = ScanBlock(lg, cs, g[n - 1]) /\ h[n - 1] = g[n - 1]
        BY <2>3, <2>4, <2>5, <2>7, <3>1
      <4> QED
        BY <2>4, <3>1, <4>1
    <3>2. CASE i # n /\ i # 0
      <4>1. h[i] = g[i] /\ h[i - 1] = g[i - 1] /\ i \in 0 .. n - 1
        BY <2>3, <2>5, <2>7, <3>2
      <4> QED
        BY <2>8, <3>2, <4>1
    <3>3. CASE i = 0
      <4>1. h[i] = g[i] /\ i \in 0 .. n - 1
        BY <2>3, <2>4, <2>5, <2>7, <3>3
      <4> QED
        BY <2>8, <3>3, <4>1
    <3> QED
      BY <3>1, <3>2, <3>3
  <2>10. Run(h, n)
    BY <2>7, <2>9 DEF IsRun
  <2> QED
    BY <2>3, <2>10
<1> QED
  BY <1>1, <1>2

\* A run begins with Begin, and each state is the scan block's of the one before.
LEMMA AfterIs ==
    ASSUME NEW lg, NEW cs, NEW st, NEW sq, NEW g, g = After(lg, cs, st, sq)
    PROVE  /\ Turns \in Nat /\ LogLen \in Nat /\ Turns = LogLen + 2
           /\ g[0] = Begin(st, sq)
           /\ \A i \in 0 .. Turns : i < Turns => g[i + 1] = ScanBlock(lg, cs, g[i])
<1>1. Turns \in Nat /\ LogLen \in Nat /\ Turns = LogLen + 2
  BY JournalAssumption DEF Turns
<1>2. \E h : IsRun(h, Turns, lg, cs, st, sq)
  BY AfterExists
<1>3. IsRun(g, Turns, lg, cs, st, sq)
  BY <1>2 DEF After
<1>4. \A i \in 0 .. Turns : g[i] = IF i = 0 THEN Begin(st, sq) ELSE ScanBlock(lg, cs, g[i - 1])
  BY <1>3 DEF IsRun
<1>5. g[0] = Begin(st, sq)
  BY <1>1, <1>4
<1>6. ASSUME NEW i \in 0 .. Turns, i < Turns PROVE g[i + 1] = ScanBlock(lg, cs, g[i])
  <2>1. i + 1 \in 0 .. Turns /\ i + 1 # 0 /\ (i + 1) - 1 = i
    BY <1>1, <1>6
  <2>2. g[i + 1] = ScanBlock(lg, cs, g[(i + 1) - 1])
    BY <1>4, <2>1
  <2> QED
    BY <2>1, <2>2
<1> QED
  BY <1>1, <1>5, <1>6

\* What holds at first and after every turn, holds always: the least exception is none.
\* A scan that has stopped stays as it is.
LEMMA StopStays ==
    ASSUME NEW lg, NEW cs, NEW st, NEW sq, NEW g, g = After(lg, cs, st, sq),
           NEW t \in 0 .. Turns, ~g[t].going
    PROVE  g[Turns] = g[t]
<1> DEFINE Bad == {i \in t .. Turns : g[i] # g[t]}
<1>1. Turns \in Nat /\ \A i \in 0 .. Turns : i < Turns => g[i + 1] = ScanBlock(lg, cs, g[i])
  BY AfterIs
<1>2. Bad = {}
  <2> SUFFICES ASSUME Bad # {} PROVE FALSE
    OBVIOUS
  <2>1. Bad \subseteq Nat
    BY <1>1
  <2>2. PICK n \in Bad : \A y \in Bad : n <= y
    <3> HIDE DEF Bad
    <3> QED
      BY <2>1, LeastNatural
  <2>3. n \in t .. Turns /\ g[n] # g[t] /\ n # t
    BY <2>2
  <2>4. n - 1 \in t .. Turns /\ n - 1 \notin Bad /\ n - 1 \in 0 .. Turns /\ n - 1 < Turns /\ (n - 1) + 1 = n
    BY <1>1, <2>2, <2>3
  <2>5. g[n - 1] = g[t]
    BY <2>4
  <2>6. g[n] = ScanBlock(lg, cs, g[t])
    BY <1>1, <2>4, <2>5
  <2>7. ScanBlock(lg, cs, g[t]) = g[t]
    BY DEF ScanBlock
  <2> QED
    BY <2>3, <2>6, <2>7
<1> QED
  BY <1>1, <1>2

\* Two logs that agree on the blocks one scan reads are scanned alike.
LEMMA SameRun ==
    ASSUME NEW lg, NEW lg2, NEW cs, NEW st, NEW sq, NEW g, g = After(lg, cs, st, sq),
           NEW g2, g2 = After(lg2, cs, st, sq), NEW n \in 0 .. Turns,
           \A t \in Nat : t < n => lg2[g[t].at] = lg[g[t].at]
    PROVE  \A t \in Nat : t <= n => g2[t] = g[t]
<1> DEFINE Bad == {i \in 0 .. n : g2[i] # g[i]}
<1>1. Turns \in Nat /\ (\A i \in 0 .. Turns : i < Turns => g[i + 1] = ScanBlock(lg, cs, g[i])) /\ g[0] = Begin(st, sq)
  BY AfterIs
<1>2. (\A i \in 0 .. Turns : i < Turns => g2[i + 1] = ScanBlock(lg2, cs, g2[i])) /\ g2[0] = Begin(st, sq)
  BY AfterIs
<1>3. Bad = {}
  <2> SUFFICES ASSUME Bad # {} PROVE FALSE
    OBVIOUS
  <2>1. Bad \subseteq Nat
    BY <1>1
  <2>2. PICK i \in Bad : \A y \in Bad : i <= y
    <3> HIDE DEF Bad
    <3> QED
      BY <2>1, LeastNatural
  <2>3. i \in 0 .. n /\ g2[i] # g[i] /\ i # 0
    BY <1>1, <1>2, <2>2
  <2>4. PICK j : j = i - 1
    OBVIOUS
  <2>5. j \in 0 .. n /\ j \in Nat /\ j < n /\ j \notin Bad /\ j \in 0 .. Turns /\ j < Turns /\ j + 1 = i
    BY <1>1, <2>2, <2>3, <2>4
  <2>6. g2[j] = g[j] /\ lg2[g[j].at] = lg[g[j].at]
    BY <2>5
  <2>7. g[i] = ScanBlock(lg, cs, g[j]) /\ g2[i] = ScanBlock(lg2, cs, g[j])
    BY <1>1, <1>2, <2>5, <2>6
  <2>8. ScanBlock(lg, cs, g[j]) = ScanBlock(lg2, cs, g[j])
    BY <2>6 DEF ScanBlock
  <2> QED
    BY <2>3, <2>7, <2>8
<1> QED
  BY <1>3

\* Tags, and tags as the scan collects them, and its revoke records.
TagRecs == [block : Home, escape : BOOLEAN, csum : Values \cup {Zeroed}]
Items == [tag : TagRecs, at : Slots, seq : Seqs]
Marks == [block : Home, seq : Seqs]

\* The blocks of a log.
Headers == {"desc", "revoke", "commit"}
Datas   == [k : {"data"}, val : Values \cup {Zeroed, Torn}]
Descs   == [k : {"desc"}, seq : Seqs, ok : BOOLEAN, tags : Seq(TagRecs)]
Revokes == [k : {"revoke"}, seq : Seqs, ok : BOOLEAN, blocks : SUBSET Home]
Commits == [k : {"commit"}, seq : Seqs, ok : BOOLEAN]
Blocks  == {Empty} \cup Datas \cup Descs \cup Revokes \cup Commits
Logs    == [Slots -> Blocks]

\* The states of a scan.
States ==
    [at : Slots, seq : Seqs, all : Seq(Items), gone : SUBSET Marks,
     tags : Seq(Items), revoked : SUBSET Home, going : BOOLEAN, refused : BOOLEAN]

\* The kind of a log block tells what it is.
LEMMA BlockKinds ==
    ASSUME NEW r \in Blocks
    PROVE  /\ r.k \in {"none", "data"} \cup Headers
           /\ r.k = "none" => r = Empty
           /\ r.k = "data" => r \in Datas
           /\ r.k = "desc" => r \in Descs
           /\ r.k = "revoke" => r \in Revokes
           /\ r.k = "commit" => r \in Commits
BY DEF Blocks, Empty, Datas, Descs, Revokes, Commits, Headers

\* What a turn makes of the scan, by the block it reads.
Stopped(s)   == [s EXCEPT !.going = FALSE]
Refusing(s)  == [Stopped(s) EXCEPT !.refused = TRUE]
Described(h, s) ==
    [s EXCEPT !.tags = @ \o [i \in DOMAIN h.tags |-> [tag |-> h.tags[i], at |-> Ahead(s.at, i), seq |-> s.seq]],
              !.at = Ahead(s.at, Len(h.tags) + 1)]
\* The state after a revoke block, and after a commit block.
Revoked(h, s) == [s EXCEPT !.revoked = @ \cup h.blocks, !.at = Ahead(s.at, 1)]
Committed(s) ==
    [s EXCEPT !.all = @ \o s.tags,
              !.gone = @ \cup {[block |-> b, seq |-> s.seq] : b \in s.revoked},
              !.tags = <<>>, !.revoked = {},
              !.seq = Succ(@), !.at = Ahead(s.at, 1)]

\* A block fails its checksum.
Fails(cs, h) == cs /\ ~h.ok

\* One turn of the scan, by what is in the block it is at.
LEMMA TurnIs ==
    ASSUME NEW lg, NEW cs, NEW s, NEW h, h = lg[s.at]
    PROVE  /\ ~s.going => ScanBlock(lg, cs, s) = s
           /\ s.going /\ h.k \in {"none", "data"} => ScanBlock(lg, cs, s) = Stopped(s)
           /\ s.going /\ h.k \in Headers /\ h.seq # s.seq => ScanBlock(lg, cs, s) = Stopped(s)
           /\ s.going /\ h.seq = s.seq /\ h.k \in {"desc", "revoke"} /\ Fails(cs, h)
                => ScanBlock(lg, cs, s) = Refusing(s)
           /\ s.going /\ h.seq = s.seq /\ h.k = "desc" /\ ~Fails(cs, h) => ScanBlock(lg, cs, s) = Described(h, s)
           /\ s.going /\ h.seq = s.seq /\ h.k = "revoke" /\ ~Fails(cs, h) => ScanBlock(lg, cs, s) = Revoked(h, s)
           /\ s.going /\ h.seq = s.seq /\ h.k = "commit" /\ Fails(cs, h) => ScanBlock(lg, cs, s) = Stopped(s)
           /\ s.going /\ h.seq = s.seq /\ h.k = "commit" /\ ~Fails(cs, h) => ScanBlock(lg, cs, s) = Committed(s)
<1>1. ~s.going => ScanBlock(lg, cs, s) = s
  BY DEF Fails, ScanBlock
<1>2. s.going /\ h.k \in {"none", "data"} => ScanBlock(lg, cs, s) = Stopped(s)
  BY DEF Fails, ScanBlock, Stopped
<1>3. s.going /\ h.k \in Headers /\ h.seq # s.seq => ScanBlock(lg, cs, s) = Stopped(s)
  BY DEF Fails, ScanBlock, Stopped
<1>4. s.going /\ h.seq = s.seq /\ h.k \in {"desc", "revoke"} /\ Fails(cs, h)
        => ScanBlock(lg, cs, s) = Refusing(s)
  BY DEF Fails, ScanBlock, Stopped, Refusing
<1>5. s.going /\ h.seq = s.seq /\ h.k = "desc" /\ ~Fails(cs, h) => ScanBlock(lg, cs, s) = Described(h, s)
  BY DEF Fails, ScanBlock, Described
<1>6. s.going /\ h.seq = s.seq /\ h.k = "revoke" /\ ~Fails(cs, h) => ScanBlock(lg, cs, s) = Revoked(h, s)
  BY DEF Fails, ScanBlock, Revoked
<1>7. s.going /\ h.seq = s.seq /\ h.k = "commit" /\ Fails(cs, h) => ScanBlock(lg, cs, s) = Stopped(s)
  BY DEF Fails, ScanBlock, Stopped
<1>8. s.going /\ h.seq = s.seq /\ h.k = "commit" /\ ~Fails(cs, h) => ScanBlock(lg, cs, s) = Committed(s)
  BY DEF Fails, ScanBlock, Committed
<1> QED
  BY <1>1, <1>2, <1>3, <1>4, <1>5, <1>6, <1>7, <1>8

\* A block further on in the log is a block of the log.
LEMMA AheadSlot ==
    ASSUME NEW i \in Slots, NEW n \in Nat
    PROVE  Ahead(i, n) \in Slots
BY JournalAssumption DEF Ahead, Slots

\* A descriptor block adds tags.
LEMMA DescribedTyped ==
    ASSUME NEW s \in States, NEW h \in Descs
    PROVE  Described(h, s) \in States
<1> DEFINE new == [i \in DOMAIN h.tags |-> [tag |-> h.tags[i], at |-> Ahead(s.at, i), seq |-> s.seq]]
<1>1. h.tags \in Seq(TagRecs) /\ s.at \in Slots /\ s.seq \in Seqs /\ s.tags \in Seq(Items)
  BY DEF Descs, States
<1>2. PICK n \in Nat : n = Len(h.tags) /\ DOMAIN h.tags = 1 .. n /\ \A i \in 1 .. n : h.tags[i] \in TagRecs
  BY <1>1
<1>3. \A i \in 1 .. n : [tag |-> h.tags[i], at |-> Ahead(s.at, i), seq |-> s.seq] \in Items
  BY <1>1, <1>2, AheadSlot DEF Items
<1>4. new \in Seq(Items)
  BY <1>2, <1>3
<1>5. s.tags \o new \in Seq(Items)
  <2> HIDE DEF new
  <2> QED
    BY <1>1, <1>4
<1>6. Ahead(s.at, Len(h.tags) + 1) \in Slots
  BY <1>1, <1>2, AheadSlot
<1>7. Described(h, s) = [s EXCEPT !.tags = s.tags \o new, !.at = Ahead(s.at, Len(h.tags) + 1)]
  BY DEF Described
<1> HIDE DEF new
<1> QED
  BY <1>5, <1>6, <1>7 DEF States

\* A turn takes a state of the scan to another, for any log.
LEMMA TurnTyped ==
    ASSUME NEW lg \in Logs, NEW cs \in BOOLEAN, NEW s \in States
    PROVE  ScanBlock(lg, cs, s) \in States
<1>1. PICK h \in Blocks : h = lg[s.at]
  BY DEF Logs, States
<1>2. s.at \in Slots /\ s.seq \in Seqs
  BY DEF States
<1>3. Stopped(s) \in States /\ Refusing(s) \in States
  BY DEF States, Stopped, Refusing
<1>4. CASE h.k = "desc"
  <2>1. h \in Descs
    BY <1>1, <1>4, BlockKinds
  <2>2. Described(h, s) \in States
    BY <2>1, DescribedTyped
  <2>3. h.k \in Headers /\ h.k \in {"desc", "revoke"}
    BY <1>4 DEF Headers
  <2>4. ScanBlock(lg, cs, s) \in {s, Stopped(s), Refusing(s), Described(h, s)}
    BY <1>1, <1>4, <2>3, TurnIs
  <2> QED
    BY <1>3, <2>2, <2>4
<1>5. CASE h.k = "revoke"
  <2>1. h.blocks \subseteq Home
    BY <1>1, <1>5, BlockKinds DEF Revokes
  <2>2. Revoked(h, s) \in States
    BY <1>2, <2>1, AheadSlot DEF Revoked, States
  <2>3. h.k \in Headers /\ h.k \in {"desc", "revoke"}
    BY <1>5 DEF Headers
  <2>4. ScanBlock(lg, cs, s) \in {s, Stopped(s), Refusing(s), Revoked(h, s)}
    BY <1>1, <1>5, <2>3, TurnIs
  <2> QED
    BY <1>3, <2>2, <2>4
<1>6. CASE h.k = "commit"
  <2>1. Succ(s.seq) \in Seqs /\ Ahead(s.at, 1) \in Slots
    BY <1>2, AgeSucc, AheadSlot
  <2>2. s.all \o s.tags \in Seq(Items)
    BY DEF States
  <2>3. {[block |-> b, seq |-> s.seq] : b \in s.revoked} \subseteq Marks
    BY DEF States, Marks
  <2>4. Committed(s) \in States
    <3>1. PICK m : m = {[block |-> b, seq |-> s.seq] : b \in s.revoked}
      OBVIOUS
    <3>2. s.gone \cup m \in SUBSET Marks
      BY <2>3, <3>1 DEF States
    <3>3. PICK a, q, p, n : a = s.all \o s.tags /\ q = Succ(s.seq) /\ p = Ahead(s.at, 1) /\ n = s.gone \cup m
      OBVIOUS
    <3>4. Committed(s) = [s EXCEPT !.all = a, !.gone = n, !.tags = <<>>, !.revoked = {}, !.seq = q, !.at = p]
      BY <3>1, <3>3 DEF Committed
    <3>5. a \in Seq(Items) /\ q \in Seqs /\ p \in Slots /\ n \in SUBSET Marks /\ <<>> \in Seq(Items)
      BY <2>1, <2>2, <3>2, <3>3
    <3> QED
      BY <3>4, <3>5 DEF States
  <2>5. h.k \in Headers
    BY <1>6 DEF Headers
  <2> QED
    BY <1>1, <1>3, <1>6, <2>4, <2>5, TurnIs
<1>7. CASE h.k \in {"none", "data"}
  BY <1>1, <1>3, <1>7, TurnIs
<1> QED
  BY <1>1, <1>4, <1>5, <1>6, <1>7, BlockKinds DEF Headers

\* Every state of a run is one.
LEMMA RunTyped ==
    ASSUME NEW lg \in Logs, NEW cs \in BOOLEAN, NEW st \in Slots, NEW sq \in Seqs, NEW g, g = After(lg, cs, st, sq)
    PROVE  \A t \in 0 .. Turns : g[t] \in States
<1> DEFINE Bad == {i \in 0 .. Turns : g[i] \notin States}
<1>1. Turns \in Nat /\ (\A i \in 0 .. Turns : i < Turns => g[i + 1] = ScanBlock(lg, cs, g[i])) /\ g[0] = Begin(st, sq)
  BY AfterIs
<1>2. Begin(st, sq) \in States
  BY DEF Begin, States
<1>3. Bad = {}
  <2> SUFFICES ASSUME Bad # {} PROVE FALSE
    OBVIOUS
  <2>1. Bad \subseteq Nat
    BY <1>1
  <2>2. PICK i \in Bad : \A y \in Bad : i <= y
    <3> HIDE DEF Bad
    <3> QED
      BY <2>1, LeastNatural
  <2>3. i \in 0 .. Turns /\ g[i] \notin States /\ i # 0
    BY <1>1, <1>2, <2>2
  <2>4. PICK j : j = i - 1
    OBVIOUS
  <2>5. j \in 0 .. Turns /\ j \notin Bad /\ j < Turns /\ j + 1 = i
    BY <1>1, <2>2, <2>3, <2>4
  <2>6. g[j] \in States
    BY <2>5
  <2>7. g[i] = ScanBlock(lg, cs, g[j])
    BY <1>1, <2>5
  <2> QED
    BY <2>3, <2>6, <2>7, TurnTyped
<1> QED
  BY <1>3

\* The m elements of b are those of D, each once.
Lists(b, m, D) ==
    /\ b \in [1 .. m -> D]
    /\ \A i, j \in 1 .. m : b[i] = b[j] => i = j
    /\ \A d \in D : \E i \in 1 .. m : b[i] = d

\* SetToSeq lists each element of a finite set once.
LEMMA SetToSeqIs ==
    ASSUME NEW D, IsFiniteSet(D)
    PROVE  \E m \in Nat : Lists(SetToSeq(D), m, D)
<1>0. PICK b : b = SetToSeq(D)
  OBVIOUS
<1>1. PICK m \in Nat : m = Cardinality(D)
  BY FS_CardinalityType
<1>2. PICK f : f \in Bijection(1 .. m, D)
  BY <1>1, FS_CardinalityType DEF ExistsBijection
<1>3. f \in [1 .. Cardinality(D) -> D] /\ IsInjective(f)
  BY <1>1, <1>2 DEF Bijection, Injection
<1>4. b \in [1 .. Cardinality(D) -> D] /\ IsInjective(b)
  BY <1>0, <1>3 DEF SetToSeq
<1>5. b \in [1 .. m -> D] /\ \A i, j \in 1 .. m : b[i] = b[j] => i = j
  BY <1>1, <1>4 DEF IsInjective
<1>6. b \in Injection(1 .. m, D)
  BY <1>1, <1>4 DEF Injection
<1>7. IsFiniteSet(1 .. m) /\ Cardinality(1 .. m) = m
  BY FS_Interval
<1>8. b \in Surjection(1 .. m, D)
  BY <1>1, <1>6, <1>7, FS_Injection
<1>9. \A d \in D : \E i \in 1 .. m : b[i] = d
  BY <1>8 DEF Surjection
<1> QED
  BY <1>0, <1>1, <1>5, <1>9 DEF Lists

\* The blocks Linux logs are blocks of a log.
LEMMA MadeBlocks ==
    ASSUME NEW s \in Seqs
    PROVE  /\ \A v \in Values : Logged(v) \in Datas /\ \A b \in Home : Tag(b, v) \in TagRecs
           /\ \A rs \in SUBSET Home : Revoke(s, rs) \in Revokes
           /\ \A ts \in Seq(TagRecs) : Desc(s, ts) \in Descs
           /\ Commit(s) \in Commits
BY DEF Logged, Tag, Revoke, Desc, Commit, Datas, TagRecs, Revokes, Descs, Commits

\* The blocks of a transaction: the revoke block if it revokes any, the descriptor and the m
\* blocks it describes, and the commit block.
Body(m) == IF m = 0 THEN 0 ELSE m + 1

\* The blocks bs of transaction s: r revoke blocks, m tags with their data for the blocks b, and the commit block.
Shaped(bs, s, w, rs, r, m, b) ==
    /\ r \in {0, 1} /\ (r = 0 <=> rs = {}) /\ m \in Nat
    /\ b \in [1 .. m -> DOMAIN w]
    /\ \A i, j \in 1 .. m : b[i] = b[j] => i = j
    /\ \A d \in DOMAIN w : \E i \in 1 .. m : b[i] = d
    /\ bs \in Seq(Blocks) /\ Len(bs) = r + Body(m) + 1
    /\ r = 1 => bs[1] = Revoke(s, rs)
    /\ m # 0 => /\ bs[r + 1] = Desc(s, [i \in 1 .. m |-> Tag(b[i], w[b[i]])])
                /\ \A i \in 1 .. m : bs[r + 1 + i] = Logged(w[b[i]])
    /\ bs[Len(bs)] = Commit(s)

\* A transaction's blocks have that shape.
LEMMA TxShape ==
    ASSUME NEW s \in Seqs, NEW D \in SUBSET Home, NEW w \in [D -> Values], NEW rs \in SUBSET Home,
           NEW bs, bs = TxBlocks(s, w, rs)
    PROVE  \E r, m, b : Shaped(bs, s, w, rs, r, m, b)
<1>1. DOMAIN w = D /\ IsFiniteSet(D)
  BY JournalAssumption, FS_Subset
<1>2. PICK b : b = SetToSeq(D)
  OBVIOUS
<1>3. PICK m \in Nat : /\ b \in [1 .. m -> D]
                       /\ \A i, j \in 1 .. m : b[i] = b[j] => i = j
                       /\ \A d \in D : \E i \in 1 .. m : b[i] = d
  <2>1. PICK m \in Nat : Lists(b, m, D)
    BY <1>1, <1>2, SetToSeqIs
  <2> QED
    BY <2>1 DEF Lists
<1>4. DOMAIN b = 1 .. m /\ (b = <<>> <=> m = 0)
  BY <1>3
<1>5. PICK r : r = IF rs = {} THEN 0 ELSE 1
  OBVIOUS
<1>6. PICK ts : ts = [i \in 1 .. m |-> Tag(b[i], w[b[i]])]
  OBVIOUS
<1>7. PICK ds : ds = [i \in 1 .. m |-> Logged(w[b[i]])]
  OBVIOUS
<1>8. ts \in Seq(TagRecs) /\ ds \in Seq(Blocks) /\ Len(ds) = m /\ \A i \in 1 .. m : ds[i] = Logged(w[b[i]])
  <2>1. \A i \in 1 .. m : b[i] \in Home /\ w[b[i]] \in Values
    BY <1>3
  <2>2. \A i \in 1 .. m : Tag(b[i], w[b[i]]) \in TagRecs /\ Logged(w[b[i]]) \in Blocks
    BY <2>1, MadeBlocks DEF Blocks
  <2>3. ts \in [1 .. m -> TagRecs] /\ ds \in [1 .. m -> Blocks]
    BY <1>6, <1>7, <2>2
  <2> QED
    BY <1>7, <2>3
<1>9. PICK x : x = IF rs = {} THEN <<>> ELSE <<Revoke(s, rs)>>
  OBVIOUS
<1>10. x \in Seq(Blocks) /\ Len(x) = r /\ (r = 1 => x[1] = Revoke(s, rs))
  <2>1. Revoke(s, rs) \in Blocks
    BY MadeBlocks DEF Blocks
  <2> QED
    BY <1>5, <1>9, <2>1
<1>11. PICK dd : dd = Desc(s, ts) /\ dd \in Blocks
  BY <1>8, MadeBlocks DEF Blocks
<1>12. PICK y : y = IF m = 0 THEN <<>> ELSE <<dd>> \o ds
  OBVIOUS
<1>13. /\ y \in Seq(Blocks) /\ Len(y) = Body(m)
       /\ m # 0 => y[1] = dd /\ \A i \in 1 .. m : y[1 + i] = ds[i]
  <2>1. CASE m = 0
    BY <1>12, <2>1 DEF Body
  <2>2. CASE m # 0
    <3>1. <<dd>> \in Seq(Blocks) /\ Len(<<dd>>) = 1 /\ <<dd>>[1] = dd
      BY <1>11
    <3>2. /\ <<dd>> \o ds \in Seq(Blocks) /\ Len(<<dd>> \o ds) = 1 + m
          /\ \A i \in 1 .. 1 + m : (<<dd>> \o ds)[i] = IF i <= 1 THEN <<dd>>[i] ELSE ds[i - 1]
      BY <1>8, <3>1, ConcatProperties
    <3>3. \A i \in 1 .. 1 + m : y[i] = IF i <= 1 THEN dd ELSE ds[i - 1]
      BY <1>12, <2>2, <3>1, <3>2
    <3>4. y[1] = dd /\ \A i \in 1 .. m : y[1 + i] = ds[i]
      <4>1. y[1] = dd
        BY <3>3
      <4>2. ASSUME NEW i \in 1 .. m PROVE y[1 + i] = ds[i]
        <5>1. 1 + i \in 1 .. 1 + m /\ ~(1 + i <= 1) /\ (1 + i) - 1 = i
          OBVIOUS
        <5>2. y[1 + i] = ds[(1 + i) - 1]
          BY <3>3, <5>1
        <5> QED
          BY <5>1, <5>2
      <4> QED
        BY <4>1, <4>2
    <3> QED
      BY <1>12, <2>2, <3>2, <3>4 DEF Body
  <2> QED
    BY <2>1, <2>2
<1>14. bs = (x \o y) \o <<Commit(s)>>
  BY <1>1, <1>2, <1>4, <1>6, <1>7, <1>9, <1>11, <1>12 DEF TxBlocks
<1>15. PICK xy : xy = x \o y
  OBVIOUS
<1>16. /\ xy \in Seq(Blocks) /\ Len(xy) = r + Body(m)
       /\ \A i \in 1 .. r + Body(m) : xy[i] = IF i <= r THEN x[i] ELSE y[i - r]
  <2>1. /\ x \o y \in Seq(Blocks) /\ Len(x \o y) = Len(x) + Len(y)
        /\ \A i \in 1 .. Len(x) + Len(y) : (x \o y)[i] = IF i <= Len(x) THEN x[i] ELSE y[i - Len(x)]
    BY <1>10, <1>13, ConcatProperties
  <2> QED
    BY <1>10, <1>13, <1>15, <2>1
<1>17. r \in {0, 1} /\ Body(m) \in Nat /\ (m # 0 => Body(m) = m + 1)
  BY <1>5 DEF Body
<1>18. <<Commit(s)>> \in Seq(Blocks) /\ Len(<<Commit(s)>>) = 1 /\ <<Commit(s)>>[1] = Commit(s)
  BY MadeBlocks DEF Blocks
<1>19. PICK cc : cc = <<Commit(s)>>
  OBVIOUS
<1>20. /\ bs \in Seq(Blocks) /\ Len(bs) = r + Body(m) + 1
       /\ \A i \in 1 .. r + Body(m) + 1 : bs[i] = IF i <= r + Body(m) THEN xy[i] ELSE cc[i - (r + Body(m))]
  BY <1>14, <1>15, <1>16, <1>18, <1>19, ConcatProperties
<1>21. bs[Len(bs)] = Commit(s)
  <2>1. PICK n \in Nat : n = r + Body(m)
    BY <1>17
  <2>2. n + 1 \in 1 .. n + 1 /\ ~(n + 1 <= n) /\ (n + 1) - n = 1
    OBVIOUS
  <2>3. bs[n + 1] = cc[1]
    BY <1>20, <2>1, <2>2
  <2> QED
    BY <1>18, <1>19, <1>20, <2>1, <2>3
<1>22. r = 1 => bs[1] = Revoke(s, rs)
  <2> SUFFICES ASSUME r = 1 PROVE bs[1] = Revoke(s, rs)
    OBVIOUS
  <2>1. 1 \in 1 .. r + Body(m) + 1 /\ 1 \in 1 .. r + Body(m) /\ 1 <= r + Body(m) /\ 1 <= r
    BY <1>17
  <2>2. bs[1] = xy[1] /\ xy[1] = x[1]
    BY <1>16, <1>20, <2>1
  <2> QED
    BY <1>10, <2>2
<1>23. m # 0 => \A i \in 0 .. m : bs[r + 1 + i] = y[1 + i]
  <2> SUFFICES ASSUME m # 0, NEW i \in 0 .. m PROVE bs[r + 1 + i] = y[1 + i]
    OBVIOUS
  <2>1. PICK k \in Nat : k = r + 1 + i
    BY <1>17
  <2>2. k \in 1 .. r + Body(m) + 1 /\ k \in 1 .. r + Body(m) /\ k <= r + Body(m) /\ ~(k <= r) /\ k - r = 1 + i
    BY <1>17, <2>1
  <2>3. bs[k] = xy[k] /\ xy[k] = y[k - r]
    BY <1>16, <1>20, <2>2
  <2> QED
    BY <2>1, <2>2, <2>3
<1>24. m # 0 => bs[r + 1] = dd /\ \A i \in 1 .. m : bs[r + 1 + i] = ds[i]
  <2> SUFFICES ASSUME m # 0 PROVE bs[r + 1] = dd /\ \A i \in 1 .. m : bs[r + 1 + i] = ds[i]
    OBVIOUS
  <2>1. 0 \in 0 .. m /\ r + 1 + 0 = r + 1 /\ 1 + 0 = 1
    BY <1>17
  <2>2. bs[r + 1] = dd
    BY <1>13, <1>23, <2>1
  <2>3. \A i \in 1 .. m : i \in 0 .. m
    OBVIOUS
  <2> QED
    BY <1>13, <1>23, <2>2, <2>3
<1>25. Shaped(bs, s, w, rs, r, m, b)
  <2>1. r \in {0, 1} /\ (r = 0 <=> rs = {})
    BY <1>5
  <2>2. m # 0 => bs[r + 1] = Desc(s, [i \in 1 .. m |-> Tag(b[i], w[b[i]])]) /\ \A i \in 1 .. m : bs[r + 1 + i] = Logged(w[b[i]])
    BY <1>6, <1>8, <1>11, <1>24
  <2>3. b \in [1 .. m -> DOMAIN w] /\ \A d \in DOMAIN w : \E i \in 1 .. m : b[i] = d
    BY <1>1, <1>3
  <2>4. bs \in Seq(Blocks) /\ Len(bs) = r + Body(m) + 1
    BY <1>20
  <2> QED
    BY <1>3, <1>21, <1>22, <2>1, <2>2, <2>3, <2>4 DEF Shaped
<1> QED
  BY <1>25

\* Going n blocks ahead puts one n blocks away.
LEMMA OffAhead ==
    ASSUME NEW i \in Slots, NEW n \in 0 .. LogLen - 1
    PROVE  Off(Ahead(i, n), i) = n
<1>1. LogLen \in Nat /\ i \in 1 .. LogLen /\ n \in Nat /\ n \in 0 .. LogLen
  BY JournalAssumption DEF Slots
<1>2. PICK a \in Slots : a = Ahead(i, n)
  BY <1>1, AheadSlot
<1>3. a \in 1 .. LogLen /\ a = IF i + n <= LogLen THEN i + n ELSE i + n - LogLen
  BY <1>1, <1>2, AheadIs DEF Slots
<1>4. Off(a, i) = IF i <= a THEN a - i ELSE a - i + LogLen
  BY OffIs
<1> QED
  BY <1>1, <1>2, <1>3, <1>4

\* Going none ahead stays.
LEMMA AheadNone ==
    ASSUME NEW i \in Slots
    PROVE  Ahead(i, 0) = i
<1>1. 0 \in 0 .. LogLen /\ i \in 1 .. LogLen /\ LogLen \in Nat
  BY JournalAssumption DEF Slots
<1>2. Ahead(i, 0) = IF i + 0 <= LogLen THEN i + 0 ELSE i + 0 - LogLen
  BY <1>1, AheadIs
<1> QED
  BY <1>1, <1>2

\* Every block is as far ahead as it is away.
LEMMA AheadOff ==
    ASSUME NEW i \in Slots, NEW j \in Slots
    PROVE  Off(j, i) \in 0 .. LogLen - 1 /\ Ahead(i, Off(j, i)) = j
<1>1. LogLen \in Nat /\ i \in 1 .. LogLen /\ j \in 1 .. LogLen
  BY JournalAssumption DEF Slots
<1>2. PICK n : n = Off(j, i) /\ n = IF i <= j THEN j - i ELSE j - i + LogLen
  BY OffIs
<1>3. n \in 0 .. LogLen - 1 /\ n \in 0 .. LogLen
  BY <1>1, <1>2
<1>4. Ahead(i, n) = IF i + n <= LogLen THEN i + n ELSE i + n - LogLen
  BY <1>3, AheadIs
<1> QED
  BY <1>1, <1>2, <1>3, <1>4

\* Two steps ahead are one.
LEMMA AheadAhead ==
    ASSUME NEW i \in Slots, NEW a \in Nat, NEW b \in Nat, a + b <= LogLen
    PROVE  Ahead(Ahead(i, a), b) = Ahead(i, a + b)
<1>1. LogLen \in Nat /\ i \in 1 .. LogLen /\ a \in 0 .. LogLen /\ b \in 0 .. LogLen /\ a + b \in 0 .. LogLen
  BY JournalAssumption DEF Slots
<1>2. PICK x \in Slots : x = Ahead(i, a)
  BY <1>1, AheadSlot
<1>3. x \in 1 .. LogLen /\ x = IF i + a <= LogLen THEN i + a ELSE i + a - LogLen
  BY <1>1, <1>2, AheadIs DEF Slots
<1>4. Ahead(x, b) = IF x + b <= LogLen THEN x + b ELSE x + b - LogLen
  BY <1>1, AheadIs
<1>5. Ahead(i, a + b) = IF i + (a + b) <= LogLen THEN i + (a + b) ELSE i + (a + b) - LogLen
  BY <1>1, AheadIs
<1> QED
  BY <1>1, <1>2, <1>3, <1>4, <1>5

\* Blocks in use are not among the n blocks from the head on, which are behind them.
LEMMA Behind ==
    ASSUME NEW st \in Slots, NEW hd \in Slots, NEW n \in Nat, Off(hd, st) + n < LogLen
    PROVE  /\ \A i \in Slots : Off(i, st) < Off(hd, st) => Off(i, hd) >= n
           /\ \A j \in Nat : j <= n => Off(Ahead(hd, j), st) = Off(hd, st) + j
<1>1. LogLen \in Nat /\ st \in 1 .. LogLen /\ hd \in 1 .. LogLen
  BY JournalAssumption DEF Slots
<1>2. PICK u : u = Off(hd, st) /\ u = IF st <= hd THEN hd - st ELSE hd - st + LogLen
  BY OffIs
<1>3. u \in 0 .. LogLen - 1 /\ u + n < LogLen
  BY <1>1, <1>2
<1>4. ASSUME NEW i \in Slots, Off(i, st) < u PROVE Off(i, hd) >= n
  <2>1. Off(i, st) = IF st <= i THEN i - st ELSE i - st + LogLen
    BY OffIs
  <2>2. Off(i, hd) = IF hd <= i THEN i - hd ELSE i - hd + LogLen
    BY OffIs
  <2>3. i \in 1 .. LogLen
    BY DEF Slots
  <2> QED
    BY <1>1, <1>2, <1>3, <1>4, <2>1, <2>2, <2>3
<1>5. ASSUME NEW j \in Nat, j <= n PROVE Off(Ahead(hd, j), st) = u + j
  <2>1. j \in 0 .. LogLen
    BY <1>1, <1>3, <1>5
  <2>2. PICK a \in Slots : a = Ahead(hd, j)
    BY AheadSlot
  <2>3. a = IF hd + j <= LogLen THEN hd + j ELSE hd + j - LogLen
    BY <2>1, <2>2, AheadIs
  <2>4. Off(a, st) = IF st <= a THEN a - st ELSE a - st + LogLen
    BY OffIs
  <2>5. a \in 1 .. LogLen
    BY DEF Slots
  <2> QED
    BY <1>1, <1>2, <1>3, <1>5, <2>2, <2>3, <2>4, <2>5
<1> QED
  BY <1>2, <1>4, <1>5

\* Put changes the blocks from the head on that it is given, and no other.
LEMMA PutIs ==
    ASSUME log \in Logs, head \in Slots, NEW bs \in Seq(Blocks), Len(bs) < LogLen, NEW lg, lg = Put(bs)
    PROVE  /\ lg \in Logs
           /\ \A i \in Slots : Off(i, head) >= Len(bs) => lg[i] = log[i]
           /\ \A j \in 1 .. Len(bs) : lg[Ahead(head, j - 1)] = bs[j]
           /\ \A i \in Slots : lg[i] = log[i] \/ \E j \in 1 .. Len(bs) : lg[i] = bs[j]
<1>1. LogLen \in Nat /\ Len(bs) \in Nat
  BY JournalAssumption
<1>2. lg = [i \in Slots |-> IF Off(i, head) + 1 <= Len(bs) THEN bs[Off(i, head) + 1] ELSE log[i]]
  BY DEF Put, Off
<1>3. \A i \in Slots : Off(i, head) \in 0 .. LogLen - 1
  BY AheadOff
<1>4. \A i \in Slots : lg[i] = IF Off(i, head) + 1 <= Len(bs) THEN bs[Off(i, head) + 1] ELSE log[i]
  BY <1>2
<1>5. ASSUME NEW i \in Slots PROVE lg[i] \in Blocks /\ (lg[i] = log[i] \/ \E j \in 1 .. Len(bs) : lg[i] = bs[j])
  <2>1. PICK n \in Nat : n = Off(i, head)
    BY <1>3
  <2>2. CASE n + 1 <= Len(bs)
    <3>1. lg[i] = bs[n + 1] /\ n + 1 \in 1 .. Len(bs)
      BY <1>1, <1>4, <2>1, <2>2
    <3>2. bs[n + 1] \in Blocks
      BY <3>1
    <3> QED
      BY <3>1, <3>2
  <2>3. CASE ~(n + 1 <= Len(bs))
    <3>1. lg[i] = log[i]
      BY <1>4, <2>1, <2>3
    <3> QED
      BY <3>1 DEF Logs
  <2> QED
    BY <2>2, <2>3
<1>6. lg \in Logs
  BY <1>2, <1>5 DEF Logs
<1>7. \A i \in Slots : Off(i, head) >= Len(bs) => lg[i] = log[i]
  BY <1>1, <1>3, <1>4
<1>8. ASSUME NEW j \in 1 .. Len(bs) PROVE lg[Ahead(head, j - 1)] = bs[j]
  <2>1. j - 1 \in 0 .. LogLen - 1 /\ j - 1 \in Nat /\ (j - 1) + 1 = j /\ (j - 1) + 1 <= Len(bs)
    BY <1>1
  <2>2. PICK i \in Slots : i = Ahead(head, j - 1)
    BY <2>1, AheadSlot
  <2>3. Off(i, head) = j - 1
    BY <2>1, <2>2, OffAhead
  <2> QED
    BY <1>4, <2>1, <2>2, <2>3
<1> QED
  BY <1>5, <1>6, <1>7, <1>8

\* g is the scan of the log lg from block st and number sq on.
Running(g, lg, cs, st, sq) == g = After(lg, cs, st, sq) /\ lg \in Logs /\ cs \in BOOLEAN /\ st \in Slots /\ sq \in Seqs

\* A scan in the middle of a transaction, and between two.
Part(p, at, sq, A, G, tg, rv) ==
    /\ p \in States /\ p.at = at /\ p.seq = sq /\ p.all = A /\ p.gone = G /\ p.tags = tg /\ p.revoked = rv
    /\ p.going = TRUE /\ p.refused = FALSE
Bound(p, at, sq, A, G) == Part(p, at, sq, A, G, <<>>, {})

\* A scan that ended with what was committed.
Ended(p, sq, A, G) == p.all = A /\ p.gone = G /\ p.seq = sq /\ p.refused = FALSE

\* The tags and the revoke records that one transaction adds.
NewItems(at, s, ts) == [i \in DOMAIN ts |-> [tag |-> ts[i], at |-> Ahead(at, i), seq |-> s]]
NewMarks(s, rs) == {[block |-> x, seq |-> s] : x \in rs}

\* What the turns of a run are.
LEMMA RunIs ==
    ASSUME NEW lg, NEW cs, NEW st, NEW sq, NEW g, Running(g, lg, cs, st, sq)
    PROVE  /\ Turns \in Nat /\ LogLen \in Nat /\ Turns = LogLen + 2 /\ Bound(g[0], st, sq, <<>>, {})
           /\ \A t \in Nat : t <= Turns => g[t] \in States
           /\ \A t \in Nat : t < Turns => g[t + 1] = ScanBlock(lg, cs, g[t])
           /\ \A t \in Nat : t <= Turns /\ ~g[t].going => g[Turns] = g[t]
<1>1. g = After(lg, cs, st, sq) /\ lg \in Logs /\ cs \in BOOLEAN /\ st \in Slots /\ sq \in Seqs
  BY DEF Running
<1>2. /\ Turns \in Nat /\ LogLen \in Nat /\ Turns = LogLen + 2 /\ g[0] = Begin(st, sq)
      /\ \A i \in 0 .. Turns : i < Turns => g[i + 1] = ScanBlock(lg, cs, g[i])
  BY <1>1, AfterIs
<1>3. \A t \in 0 .. Turns : g[t] \in States
  BY <1>1, RunTyped
<1>4. Bound(g[0], st, sq, <<>>, {})
  <2>1. g[0] \in States
    BY <1>2, <1>3
  <2> QED
    BY <1>2, <2>1 DEF Bound, Part, Begin
<1>5. \A t \in 0 .. Turns : ~g[t].going => g[Turns] = g[t]
  BY <1>1, StopStays
<1> QED
  BY <1>2, <1>3, <1>4, <1>5

\* The turn at a revoke block that arrived whole.
LEMMA RevokeTurn ==
    ASSUME NEW lg, NEW cs, NEW st, NEW sq, NEW g, Running(g, lg, cs, st, sq), NEW T \in Nat, T < Turns,
           NEW at, NEW s, NEW A, NEW G, NEW rs, Bound(g[T], at, s, A, G), lg[at] = Revoke(s, rs)
    PROVE  Part(g[T + 1], Ahead(at, 1), s, A, G, <<>>, rs)
<1>1. g[T + 1] = ScanBlock(lg, cs, g[T]) /\ g[T + 1] \in States
  BY RunIs
<1>2. PICK p \in States : p = g[T] /\ Bound(p, at, s, A, G)
  BY DEF Bound, Part
<1>3. p.at = at /\ p.seq = s /\ p.going /\ p.revoked = {}
  BY <1>2 DEF Bound, Part
<1>4. PICK h : h = lg[p.at] /\ h.k = "revoke" /\ h.seq = s /\ h.ok = TRUE /\ h.blocks = rs
  BY <1>3 DEF Revoke
<1>5. ScanBlock(lg, cs, p) = Revoked(h, p)
  <2>1. ~Fails(cs, h)
    BY <1>4 DEF Fails
  <2> QED
    BY <1>3, <1>4, <2>1, TurnIs
<1>6. Revoked(h, p) = [p EXCEPT !.revoked = rs, !.at = Ahead(at, 1)]
  BY <1>3, <1>4 DEF Revoked
<1>7. PICK q \in States : q = g[T + 1] /\ q = [p EXCEPT !.revoked = rs, !.at = Ahead(at, 1)]
  BY <1>1, <1>2, <1>5, <1>6
<1>8. Part(q, Ahead(at, 1), s, A, G, <<>>, rs)
  BY <1>2, <1>7 DEF Part, Bound, States
<1> QED
  BY <1>7, <1>8

\* The turn at a descriptor block that arrived whole.
LEMMA DescTurn ==
    ASSUME NEW lg, NEW cs, NEW st, NEW sq, NEW g, Running(g, lg, cs, st, sq), NEW T \in Nat, T < Turns,
           NEW at, NEW s, NEW A, NEW G, NEW rv, NEW ts \in Seq(TagRecs),
           Part(g[T], at, s, A, G, <<>>, rv), lg[at] = Desc(s, ts), at \in Slots, s \in Seqs
    PROVE  Part(g[T + 1], Ahead(at, Len(ts) + 1), s, A, G, NewItems(at, s, ts), rv)
<1>1. g[T + 1] = ScanBlock(lg, cs, g[T]) /\ g[T + 1] \in States
  BY RunIs
<1>2. PICK p \in States : p = g[T] /\ Part(p, at, s, A, G, <<>>, rv)
  BY DEF Part
<1>3. p.at = at /\ p.seq = s /\ p.going /\ p.tags = <<>>
  BY <1>2 DEF Part
<1>4. PICK h : h = lg[p.at] /\ h.k = "desc" /\ h.seq = s /\ h.ok = TRUE /\ h.tags = ts
  BY <1>3 DEF Desc
<1>5. ScanBlock(lg, cs, p) = Described(h, p)
  <2>1. ~Fails(cs, h)
    BY <1>4 DEF Fails
  <2> QED
    BY <1>3, <1>4, <2>1, TurnIs
<1>6. PICK new : new = NewItems(at, s, ts)
  OBVIOUS
<1>7. <<>> \o new = new
  <2>1. new \in Seq(Items)
    <3>1. PICK n \in Nat : DOMAIN ts = 1 .. n
      OBVIOUS
    <3>2. \A i \in 1 .. n : [tag |-> ts[i], at |-> Ahead(at, i), seq |-> s] \in Items
      BY <3>1, AheadSlot DEF Items
    <3> QED
      BY <1>6, <3>1, <3>2 DEF NewItems
  <2> QED
    BY <2>1
<1>8. Described(h, p) = [p EXCEPT !.tags = new, !.at = Ahead(at, Len(ts) + 1)]
  BY <1>3, <1>4, <1>6, <1>7 DEF Described, NewItems
<1>9. PICK q \in States : q = g[T + 1] /\ q = [p EXCEPT !.tags = new, !.at = Ahead(at, Len(ts) + 1)]
  BY <1>1, <1>2, <1>5, <1>8
<1>10. Part(q, Ahead(at, Len(ts) + 1), s, A, G, new, rv)
  BY <1>2, <1>9 DEF Part, States
<1> QED
  BY <1>6, <1>9, <1>10

\* The turn at a commit block that arrived whole: the transaction counts.
LEMMA CommitTurn ==
    ASSUME NEW lg, NEW cs, NEW st, NEW sq, NEW g, Running(g, lg, cs, st, sq), NEW T \in Nat, T < Turns,
           NEW at, NEW s, NEW A, NEW G, NEW tg, NEW rv,
           Part(g[T], at, s, A, G, tg, rv), lg[at] = Commit(s)
    PROVE  Bound(g[T + 1], Ahead(at, 1), Succ(s), A \o tg, G \cup NewMarks(s, rv))
<1>1. g[T + 1] = ScanBlock(lg, cs, g[T]) /\ g[T + 1] \in States
  BY RunIs
<1>2. PICK p \in States : p = g[T] /\ Part(p, at, s, A, G, tg, rv)
  BY DEF Part
<1>3. p.at = at /\ p.seq = s /\ p.going /\ p.tags = tg /\ p.revoked = rv /\ p.all = A /\ p.gone = G
  BY <1>2 DEF Part
<1>4. PICK h : h = lg[p.at] /\ h.k = "commit" /\ h.seq = s /\ h.ok = TRUE
  BY <1>3 DEF Commit
<1>5. ScanBlock(lg, cs, p) = Committed(p)
  <2>1. ~Fails(cs, h)
    BY <1>4 DEF Fails
  <2> QED
    BY <1>3, <1>4, <2>1, TurnIs
<1>6. PICK m, n : m = A \o tg /\ n = G \cup NewMarks(s, rv)
  OBVIOUS
<1>7. Committed(p) = [p EXCEPT !.all = m, !.gone = n, !.tags = <<>>, !.revoked = {}, !.seq = Succ(s), !.at = Ahead(at, 1)]
  BY <1>3, <1>6 DEF Committed, NewMarks
<1>8. PICK q \in States : q = g[T + 1]
        /\ q = [p EXCEPT !.all = m, !.gone = n, !.tags = <<>>, !.revoked = {}, !.seq = Succ(s), !.at = Ahead(at, 1)]
  BY <1>1, <1>2, <1>5, <1>7
<1>9. Bound(q, Ahead(at, 1), Succ(s), m, n)
  BY <1>2, <1>8 DEF Part, Bound, States
<1> QED
  BY <1>6, <1>8, <1>9

\* At a block that is no header of the transaction, or at a commit block that fails its
\* checksum, the scan ends with what was committed.
LEMMA HaltTurn ==
    ASSUME NEW lg, NEW cs, NEW st, NEW sq, NEW g, Running(g, lg, cs, st, sq), NEW T \in Nat, T < Turns,
           NEW at, NEW s, NEW A, NEW G, NEW tg, NEW rv, Part(g[T], at, s, A, G, tg, rv),
           lg[at].k \in Headers /\ lg[at].seq = s => lg[at].k = "commit" /\ Fails(cs, lg[at])
    PROVE  Ended(g[Turns], s, A, G)
<1>1. g[T + 1] = ScanBlock(lg, cs, g[T]) /\ g[T + 1] \in States /\ Turns \in Nat
  BY RunIs
<1>2. PICK p \in States : p = g[T] /\ Part(p, at, s, A, G, tg, rv)
  BY DEF Part
<1>3. p.at = at /\ p.seq = s /\ p.going /\ at \in Slots
  BY <1>2 DEF Part, States
<1>4. PICK h \in Blocks : h = lg[p.at]
  BY <1>3 DEF Running, Logs
<1>5. ScanBlock(lg, cs, p) = Stopped(p)
  <2>1. CASE h.k \in {"none", "data"}
    BY <1>3, <1>4, <2>1, TurnIs
  <2>2. CASE h.k \in Headers /\ h.seq # s
    BY <1>3, <1>4, <2>2, TurnIs
  <2>3. CASE h.k \in Headers /\ h.seq = s
    <3>1. h.k = "commit" /\ Fails(cs, h) /\ h.seq = p.seq
      BY <1>3, <1>4, <2>3
    <3> QED
      BY <1>3, <1>4, <3>1, TurnIs
  <2> QED
    BY <2>1, <2>2, <2>3, BlockKinds
<1>6. PICK q : q = g[T + 1] /\ q = [p EXCEPT !.going = FALSE]
  BY <1>1, <1>2, <1>5 DEF Stopped
<1>7. Ended(q, s, A, G) /\ ~q.going
  BY <1>2, <1>6 DEF Part, States, Ended
<1>8. g[Turns] = q
  <2>1. T + 1 \in Nat /\ T + 1 <= Turns /\ ~g[T + 1].going
    BY <1>1, <1>6, <1>7
  <2>2. g[Turns] = g[T + 1]
    BY <2>1, RunIs
  <2> QED
    BY <1>6, <2>2
<1> QED
  BY <1>7, <1>8

\* A descriptor or revoke block that fails its checksum makes the scan refuse the journal.
LEMMA RefuseTurn ==
    ASSUME NEW lg, NEW cs, NEW st, NEW sq, NEW g, Running(g, lg, cs, st, sq), NEW T \in Nat, T < Turns,
           NEW p, p = g[T], p.going = TRUE, NEW h, h = lg[p.at], h.k \in {"desc", "revoke"}, h.seq = p.seq, Fails(cs, h)
    PROVE  g[Turns].refused = TRUE
<1>1. g[T + 1] = ScanBlock(lg, cs, p) /\ Turns \in Nat /\ p \in States
  BY RunIs
<1>2. ScanBlock(lg, cs, p) = Refusing(p)
  <2>1. p.going /\ h.seq = p.seq /\ h.k \in {"desc", "revoke"} /\ Fails(cs, h)
    OBVIOUS
  <2> QED
    BY <2>1, TurnIs
<1>3. PICK q : q = Refusing(p)
  OBVIOUS
<1>4. q.refused = TRUE /\ q.going = FALSE
  BY <1>1, <1>3 DEF States, Stopped, Refusing
<1>5. g[T + 1] = q /\ ~g[T + 1].going
  BY <1>1, <1>2, <1>3, <1>4
<1>6. g[Turns] = g[T + 1]
  BY <1>1, <1>5, RunIs
<1> QED
  BY <1>4, <1>5, <1>6

\* The tags of a transaction, as the scan finds them.
TagsOf(w, m, b) == [i \in 1 .. m |-> Tag(b[i], w[b[i]])]
ItemsOf(hd, s, w, r, m, b) == NewItems(Ahead(hd, r), s, TagsOf(w, m, b))

\* Writes of home blocks.
Writes(w) == DOMAIN w \subseteq Home /\ \A x \in DOMAIN w : w[x] \in Values

\* The tags of a transaction, each with the block of the log that holds its data.
LEMMA ItemsAre ==
    ASSUME NEW hd \in Slots, NEW s \in Seqs, NEW w, Writes(w), NEW rs, NEW bs, NEW r, NEW m, NEW b, Shaped(bs, s, w, rs, r, m, b),
           NEW it, it = ItemsOf(hd, s, w, r, m, b), r + m <= LogLen
    PROVE  /\ TagsOf(w, m, b) \in Seq(TagRecs) /\ Len(TagsOf(w, m, b)) = m
           /\ it \in Seq(Items) /\ Len(it) = m /\ (m = 0 => it = <<>>)
           /\ \A i \in 1 .. m : it[i] = [tag |-> Tag(b[i], w[b[i]]), at |-> Ahead(hd, r + i), seq |-> s]
<1>1. m \in Nat /\ r \in Nat /\ \A i \in 1 .. m : b[i] \in DOMAIN w
  BY DEF Shaped
<1>2. \A i \in 1 .. m : b[i] \in Home /\ w[b[i]] \in Values
  BY <1>1 DEF Writes
<1>3. \A i \in 1 .. m : Tag(b[i], w[b[i]]) \in TagRecs
  BY <1>2, MadeBlocks
<1>4. PICK ts : ts = TagsOf(w, m, b)
  OBVIOUS
<1>5. ts \in [1 .. m -> TagRecs] /\ \A i \in 1 .. m : ts[i] = Tag(b[i], w[b[i]])
  BY <1>3, <1>4 DEF TagsOf
<1>6. ts \in Seq(TagRecs) /\ Len(ts) = m /\ DOMAIN ts = 1 .. m
  BY <1>1, <1>5
<1>7. it = [i \in 1 .. m |-> [tag |-> ts[i], at |-> Ahead(Ahead(hd, r), i), seq |-> s]]
  BY <1>4, <1>6 DEF ItemsOf, NewItems
<1>8. ASSUME NEW i \in 1 .. m
      PROVE  /\ it[i] = [tag |-> Tag(b[i], w[b[i]]), at |-> Ahead(hd, r + i), seq |-> s]
             /\ it[i] \in Items
  <2>1. i \in Nat /\ r + i \in Nat /\ r + i <= LogLen
    BY <1>1, JournalAssumption
  <2>2. Ahead(Ahead(hd, r), i) = Ahead(hd, r + i) /\ Ahead(hd, r + i) \in Slots
    BY <1>1, <2>1, AheadAhead, AheadSlot
  <2>3. it[i] = [tag |-> Tag(b[i], w[b[i]]), at |-> Ahead(hd, r + i), seq |-> s]
    BY <1>5, <1>7, <2>2
  <2> QED
    BY <1>3, <2>2, <2>3 DEF Items
<1>9. it \in [1 .. m -> Items]
  BY <1>7, <1>8
<1>10. it \in Seq(Items) /\ Len(it) = m
  BY <1>1, <1>9
<1>11. m = 0 => it = <<>>
  BY <1>10, EmptySeq
<1> QED
  BY <1>4, <1>6, <1>8, <1>10, <1>11

\* The scan after the revoke block, if there is one.
LEMMA RevokeStage ==
    ASSUME NEW lg, NEW cs, NEW st, NEW sq, NEW g, Running(g, lg, cs, st, sq), NEW T \in Nat, NEW hd \in Slots, NEW s \in Seqs,
           NEW A, NEW G, Bound(g[T], hd, s, A, G), NEW w, NEW rs, NEW bs, NEW r, NEW m, NEW b, Shaped(bs, s, w, rs, r, m, b),
           T < LogLen, r = 1 => lg[hd] = Revoke(s, rs)
    PROVE  Part(g[T + r], Ahead(hd, r), s, A, G, <<>>, rs)
<1>1. r \in {0, 1} /\ (r = 0 <=> rs = {})
  BY DEF Shaped
<1>2. CASE r = 0
  <2>1. rs = {} /\ T + r = T /\ Ahead(hd, r) = hd
    BY <1>1, <1>2, AheadNone
  <2> QED
    BY <2>1 DEF Bound
<1>3. CASE r = 1
  <2>1. T < Turns
    BY RunIs
  <2> QED
    BY <1>3, <2>1, RevokeTurn
<1> QED
  BY <1>1, <1>2, <1>3

\* The scan after the descriptor block and the data, if there are any.
LEMMA DescStage ==
    ASSUME NEW lg, NEW cs, NEW st, NEW sq, NEW g, Running(g, lg, cs, st, sq), NEW T \in Nat, NEW hd \in Slots, NEW s \in Seqs,
           NEW A, NEW G, NEW w, Writes(w), NEW rs, NEW bs, NEW r, NEW m, NEW b, Shaped(bs, s, w, rs, r, m, b),
           T <= LogLen, Len(bs) <= LogLen, Part(g[T], Ahead(hd, r), s, A, G, <<>>, rs),
           m # 0 => lg[Ahead(hd, r)] = Desc(s, TagsOf(w, m, b)),
           NEW d, d = IF m = 0 THEN 0 ELSE 1
    PROVE  Part(g[T + d], Ahead(hd, r + Body(m)), s, A, G, ItemsOf(hd, s, w, r, m, b), rs)
<1>1. m \in Nat /\ r \in {0, 1} /\ r \in Nat /\ Len(bs) = r + Body(m) + 1
  BY DEF Shaped
<1>2. LogLen \in Nat /\ r + m <= LogLen /\ r + Body(m) <= LogLen
  BY <1>1, JournalAssumption DEF Body
<1>3. PICK ts, it : ts = TagsOf(w, m, b) /\ it = ItemsOf(hd, s, w, r, m, b)
  OBVIOUS
<1>4. ts \in Seq(TagRecs) /\ Len(ts) = m /\ (m = 0 => it = <<>>)
  BY <1>2, <1>3, ItemsAre
<1>5. CASE m = 0
  <2>1. T + d = T /\ r + Body(m) = r /\ it = <<>>
    BY <1>1, <1>4, <1>5 DEF Body
  <2> QED
    BY <1>3, <2>1
<1>6. CASE m # 0
  <2>1. PICK at \in Slots : at = Ahead(hd, r)
    BY <1>1, AheadSlot
  <2>2. T < Turns
    BY RunIs
  <2>3. lg[at] = Desc(s, ts) /\ Part(g[T], at, s, A, G, <<>>, rs)
    BY <1>3, <1>6, <2>1
  <2>4. Part(g[T + 1], Ahead(at, Len(ts) + 1), s, A, G, NewItems(at, s, ts), rs)
    BY <1>4, <2>1, <2>2, <2>3, DescTurn
  <2>5. NewItems(at, s, ts) = it /\ d = 1
    BY <1>3, <1>6, <2>1 DEF ItemsOf
  <2>6. Ahead(at, m + 1) = Ahead(hd, r + Body(m))
    <3>1. r + (m + 1) <= LogLen /\ Body(m) = m + 1 /\ m + 1 \in Nat
      BY <1>1, <1>2, <1>6 DEF Body
    <3> QED
      BY <1>1, <2>1, <3>1, AheadAhead
  <2> QED
    BY <1>3, <1>4, <2>4, <2>5, <2>6
<1> QED
  BY <1>5, <1>6

\* The blocks bs are in the log lg from hd on.
Laid(lg, hd, bs) == \A j \in 1 .. Len(bs) : lg[Ahead(hd, j - 1)] = bs[j]

\* From turn T at hd to turn T2, n blocks on, the scan g reads only those n blocks, and takes
\* its tags and revoke records to A and G.
Reaches(g, T, T2, hd, n, s, A, G) ==
    /\ T2 \in Nat /\ T < T2 /\ T2 <= T + n
    /\ Bound(g[T2], Ahead(hd, n), s, A, G)
    /\ \A t \in Nat : T <= t /\ t < T2 => \E j \in Nat : j < n /\ g[t].at = Ahead(hd, j)

\* A scan that comes to a transaction whose blocks have all arrived takes its tags and revoke records, and comes to its end.
LEMMA ScanTx ==
    ASSUME NEW lg, NEW cs, NEW st, NEW sq, NEW g, Running(g, lg, cs, st, sq), NEW T \in Nat, NEW hd \in Slots, NEW s \in Seqs,
           NEW A, NEW G, Bound(g[T], hd, s, A, G), NEW w, Writes(w), NEW rs, NEW bs, NEW r, NEW m, NEW b, Shaped(bs, s, w, rs, r, m, b),
           T + Len(bs) <= LogLen, Laid(lg, hd, bs)
    PROVE  \E T2 : Reaches(g, T, T2, hd, Len(bs), Succ(s), A \o ItemsOf(hd, s, w, r, m, b), G \cup NewMarks(s, rs))
<1>1. m \in Nat /\ r \in {0, 1} /\ r \in Nat /\ Len(bs) = r + Body(m) + 1
  BY DEF Shaped
<1>2. LogLen \in Nat /\ Body(m) \in Nat /\ Len(bs) <= LogLen /\ T < LogLen /\ T + r <= LogLen /\ 1 <= Len(bs)
  BY <1>1, JournalAssumption DEF Body
<1>3. PICK it, d, e : it = ItemsOf(hd, s, w, r, m, b) /\ d = (IF m = 0 THEN 0 ELSE 1) /\ e = r + Body(m)
  OBVIOUS
<1>4. d \in {0, 1} /\ e \in Nat /\ Len(bs) = e + 1 /\ r + d <= e /\ (m # 0 => e = r + m + 1)
  BY <1>1, <1>2, <1>3 DEF Body
<1>5. r = 1 => lg[hd] = Revoke(s, rs)
  <2> SUFFICES ASSUME r = 1 PROVE lg[hd] = Revoke(s, rs)
    OBVIOUS
  <2>1. bs[1] = Revoke(s, rs) /\ 1 \in 1 .. Len(bs) /\ 1 - 1 = 0
    BY <1>1, <1>2 DEF Shaped
  <2>2. Ahead(hd, 0) = hd
    BY AheadNone
  <2>3. lg[Ahead(hd, 1 - 1)] = bs[1]
    BY <2>1 DEF Laid
  <2> QED
    BY <2>1, <2>2, <2>3
<1>6. Part(g[T + r], Ahead(hd, r), s, A, G, <<>>, rs)
  BY <1>2, <1>5, RevokeStage
<1>7. m # 0 => lg[Ahead(hd, r)] = Desc(s, TagsOf(w, m, b))
  <2> SUFFICES ASSUME m # 0 PROVE lg[Ahead(hd, r)] = Desc(s, TagsOf(w, m, b))
    OBVIOUS
  <2>1. bs[r + 1] = Desc(s, TagsOf(w, m, b)) /\ r + 1 \in 1 .. Len(bs) /\ (r + 1) - 1 = r
    BY <1>1, <1>4 DEF Shaped, TagsOf
  <2>2. lg[Ahead(hd, (r + 1) - 1)] = bs[r + 1]
    BY <2>1 DEF Laid
  <2> QED
    BY <2>1, <2>2
<1>8. Part(g[(T + r) + d], Ahead(hd, e), s, A, G, it, rs)
  <2>1. T + r \in Nat
    BY <1>1
  <2> QED
    BY <1>2, <1>3, <1>6, <1>7, <2>1, DescStage
<1>9. PICK T1 \in Nat : T1 = (T + r) + d
  BY <1>1, <1>4
<1>10. T1 < Turns /\ T1 < T + Len(bs) /\ T <= T1
  <2>1. Turns = LogLen + 2
    BY RunIs
  <2> QED
    BY <1>1, <1>2, <1>4, <1>9, <2>1
<1>11. lg[Ahead(hd, e)] = Commit(s)
  <2>1. e + 1 \in 1 .. Len(bs) /\ (e + 1) - 1 = e /\ bs[e + 1] = Commit(s)
    BY <1>4 DEF Shaped
  <2>2. lg[Ahead(hd, (e + 1) - 1)] = bs[e + 1]
    BY <2>1 DEF Laid
  <2> QED
    BY <2>1, <2>2
<1>12. Bound(g[T1 + 1], Ahead(Ahead(hd, e), 1), Succ(s), A \o it, G \cup NewMarks(s, rs))
  BY <1>8, <1>9, <1>10, <1>11, CommitTurn
<1>13. Ahead(Ahead(hd, e), 1) = Ahead(hd, Len(bs))
  BY <1>2, <1>4, AheadAhead
<1>14. ASSUME NEW t \in Nat, T <= t, t < T1 + 1 PROVE \E j \in Nat : j < Len(bs) /\ g[t].at = Ahead(hd, j)
  <2>1. CASE t = T1
    <3>1. g[t].at = Ahead(hd, e) /\ e \in Nat /\ e < Len(bs)
      BY <1>4, <1>8, <1>9, <2>1 DEF Part
    <3> QED
      BY <3>1
  <2>2. CASE t = T + r
    <3>1. g[t].at = Ahead(hd, r) /\ r \in Nat /\ r < Len(bs)
      BY <1>1, <1>2, <1>6, <2>2 DEF Part
    <3> QED
      BY <3>1
  <2>3. CASE t = T
    <3>1. g[t].at = hd
      BY <2>3 DEF Bound, Part
    <3>2. Ahead(hd, 0) = hd
      BY AheadNone
    <3>3. 0 \in Nat /\ 0 < Len(bs)
      BY <1>2, <1>4
    <3> QED
      BY <3>1, <3>2, <3>3
  <2>4. t = T1 \/ t = T + r \/ t = T
    BY <1>1, <1>4, <1>9, <1>14
  <2> QED
    BY <2>1, <2>2, <2>3, <2>4
<1>15. T1 + 1 \in Nat /\ T < T1 + 1 /\ T1 + 1 <= T + Len(bs)
  BY <1>2, <1>4, <1>9, <1>10
<1>16. Reaches(g, T, T1 + 1, hd, Len(bs), Succ(s), A \o it, G \cup NewMarks(s, rs))
  BY <1>12, <1>13, <1>14, <1>15 DEF Reaches
<1> QED
  BY <1>3, <1>16

\* The tags of block x that are not revoked, and what the volume holds by them.
Hits(A, G, x) == {i \in DOMAIN A : ~IsRevoked(G, A[i]) /\ A[i].tag.block = x}
Holds(A, G, lg, hm, wt) ==
    \A x \in Home : wt[x] = IF Hits(A, G, x) = {} THEN hm[x] ELSE Unescaped(lg, A[Max(Hits(A, G, x))])

\* The tags A and revoke records G are of transactions before s, which is not far from the first.
Before(A, G, s) ==
    /\ s \in Seqs /\ 2 * Age(s) < SeqSpan
    /\ A \in Seq(Items) /\ G \subseteq Marks
    /\ \A i \in DOMAIN A : Age(A[i].seq) < Age(s)
    /\ \A q \in G : Age(q.seq) < Age(s)

\* The last tag of a block that has one.
LEMMA HitsMax ==
    ASSUME NEW A \in Seq(Items), NEW G, NEW x, Hits(A, G, x) # {}
    PROVE  /\ Max(Hits(A, G, x)) \in Hits(A, G, x) /\ Max(Hits(A, G, x)) \in DOMAIN A
           /\ \A y \in Hits(A, G, x) : Max(Hits(A, G, x)) >= y
<1>1. PICK n \in Nat : DOMAIN A = 1 .. n
  OBVIOUS
<1>2. PICK H : H = Hits(A, G, x)
  OBVIOUS
<1>3. H \subseteq 0 .. n /\ H \subseteq DOMAIN A /\ H # {}
  BY <1>1, <1>2 DEF Hits
<1>4. Max(H) \in H /\ \A y \in H : Max(H) >= y
  BY <1>3, MaxIs
<1> QED
  BY <1>2, <1>3, <1>4

\* Unescaping undoes what logging did to a block, the magic number included.
LEMMA UnescapedIs ==
    ASSUME NEW v \in Values, NEW x, NEW t, t.tag = Tag(x, v), NEW lg, lg[t.at] = Logged(v)
    PROVE  Unescaped(lg, t) = v /\ Bytes(lg, t.at) = t.tag.csum
<1>1. Bytes(lg, t.at) = IF v = Magic THEN Zeroed ELSE v
  BY DEF Bytes, Logged
<1>2. t.tag.csum = IF v = Magic THEN Zeroed ELSE v
  BY DEF Tag, Logged
<1>5. t.tag.escape = (v = Magic)
  <2>1. PICK e : e = (v = Magic)
    OBVIOUS
  <2>2. t.tag = [block |-> x, escape |-> e, csum |-> Logged(v).val]
    BY <2>1 DEF Tag
  <2>3. t.tag.escape = e
    BY <2>2
  <2> QED
    BY <2>1, <2>3, Zenon
<1>3. CASE v = Magic
  <2>1. t.tag.escape = TRUE
    BY <1>3, <1>5
  <2> QED
    BY <1>1, <1>2, <1>3, <2>1 DEF Unescaped
<1>4. CASE v # Magic
  <2>1. t.tag.escape = FALSE
    BY <1>4, <1>5
  <2> QED
    BY <1>1, <1>2, <1>4, <2>1 DEF Unescaped
<1> QED
  BY <1>3, <1>4

\* The revoke records of a transaction cover every earlier tag of their blocks.
LEMMA OldRevoked ==
    ASSUME NEW A, NEW G, NEW s, Before(A, G, s), NEW rs \in SUBSET Home, NEW i \in DOMAIN A
    PROVE  IsRevoked(G \cup NewMarks(s, rs), A[i]) <=> IsRevoked(G, A[i]) \/ A[i].tag.block \in rs
<1>1. s \in Seqs /\ 2 * Age(s) < SeqSpan /\ Age(A[i].seq) < Age(s) /\ A[i] \in Items
  BY DEF Before
<1>2. A[i].seq \in Seqs
  BY <1>1 DEF Items
<1>3. Age(s) \in Nat /\ Age(A[i].seq) \in Nat /\ SeqSpan \in Nat
  BY <1>1, <1>2, AgeIs DEF Seqs
<1>4. 2 * Age(A[i].seq) < SeqSpan /\ Age(A[i].seq) <= Age(s)
  BY <1>1, <1>3
<1>5. Later(s, A[i].seq) >= 0
  BY <1>1, <1>2, <1>4, LaterIs
<1>6. \A x \in rs : [block |-> x, seq |-> s] \in NewMarks(s, rs)
  BY DEF NewMarks
<1>7. \A q \in NewMarks(s, rs) : q.block \in rs /\ q.seq = s
  BY DEF NewMarks
<1>8. ASSUME A[i].tag.block \in rs PROVE IsRevoked(G \cup NewMarks(s, rs), A[i])
  <2>1. PICK q \in NewMarks(s, rs) : q = [block |-> A[i].tag.block, seq |-> s]
    BY <1>6, <1>8
  <2>2. q.block = A[i].tag.block /\ q.seq = s
    BY <2>1
  <2> QED
    BY <1>5, <2>1, <2>2 DEF IsRevoked
<1> QED
  BY <1>5, <1>7, <1>8 DEF IsRevoked

\* No earlier revoke record covers a tag of the transaction.
LEMMA NewNotRevoked ==
    ASSUME NEW A, NEW G, NEW s, Before(A, G, s), NEW rs \in SUBSET Home, NEW t, t.seq = s, t.tag.block \notin rs
    PROVE  ~IsRevoked(G \cup NewMarks(s, rs), t)
<1>1. s \in Seqs /\ 2 * Age(s) < SeqSpan /\ G \subseteq Marks
  BY DEF Before
<1>2. \A q \in NewMarks(s, rs) : q.block \in rs
  BY DEF NewMarks
<1>3. ASSUME NEW q \in G PROVE ~(Later(q.seq, s) >= 0)
  <2>1. q.seq \in Seqs /\ Age(q.seq) < Age(s)
    BY <1>1 DEF Before, Marks
  <2>2. Age(s) \in Nat /\ Age(q.seq) \in Nat /\ SeqSpan \in Nat
    BY <1>1, <2>1, AgeIs DEF Seqs
  <2>3. 2 * Age(q.seq) < SeqSpan /\ ~(Age(s) <= Age(q.seq))
    BY <1>1, <2>1, <2>2
  <2> QED
    BY <1>1, <2>1, <2>3, LaterIs
<1> QED
  BY <1>2, <1>3 DEF IsRevoked

\* The tags it are those of the writes w of transaction s, and lg has the blocks they describe.
Taken(it, s, w, m, b) == it \in Seq(Items) /\ Len(it) = m /\ \A i \in 1 .. m : it[i].tag = Tag(b[i], w[b[i]]) /\ it[i].seq = s
Stored(lg, it, w, m, b) == \A i \in 1 .. m : lg[it[i].at] = Logged(w[b[i]])

\* Two logs have the same blocks for the tags A, and lg has a content for each.
SameFor(A, lg, lg2) == \A i \in DOMAIN A : lg2[A[i].at] = lg[A[i].at]
Valued(A, lg) == \A i \in DOMAIN A : Unescaped(lg, A[i]) \in Values

\* The volume after a transaction: what it wrote, and what a revoked block is reused for.
HomeAfter(hm, rs, v)    == [x \in Home |-> IF x \in rs THEN v ELSE hm[x]]
WantAfter(wt, w, rs, v) == [x \in Home |-> IF x \in rs THEN v ELSE IF x \in DOMAIN w THEN w[x] ELSE wt[x]]

\* After a committed transaction the tags and the home blocks hold what was committed, with its writes and what the blocks it revokes are reused for.
LEMMA CommitHolds ==
    ASSUME NEW A, NEW G, NEW s, Before(A, G, s), NEW w, Writes(w), NEW rs \in SUBSET Home, DOMAIN w \cap rs = {},
           NEW bs, NEW r, NEW m, NEW b, Shaped(bs, s, w, rs, r, m, b), NEW it, Taken(it, s, w, m, b),
           NEW lg, NEW lg2, SameFor(A, lg, lg2), Stored(lg2, it, w, m, b),
           NEW hm, NEW wt, NEW v, Holds(A, G, lg, hm, wt)
    PROVE  Holds(A \o it, G \cup NewMarks(s, rs), lg2, HomeAfter(hm, rs, v), WantAfter(wt, w, rs, v)) /\ Valued(it, lg2)
<1>0. /\ it \in Seq(Items) /\ Len(it) = m /\ (\A i \in 1 .. m : it[i].tag = Tag(b[i], w[b[i]]) /\ it[i].seq = s)
      /\ (\A i \in DOMAIN A : lg2[A[i].at] = lg[A[i].at]) /\ (\A i \in 1 .. m : lg2[it[i].at] = Logged(w[b[i]]))
  BY DEF Taken, SameFor, Stored
<1> PICK hm2, wt2 : /\ hm2 = HomeAfter(hm, rs, v) /\ wt2 = WantAfter(wt, w, rs, v)
                    /\ hm2 = [x \in Home |-> IF x \in rs THEN v ELSE hm[x]]
                    /\ wt2 = [x \in Home |-> IF x \in rs THEN v ELSE IF x \in DOMAIN w THEN w[x] ELSE wt[x]]
  BY DEF HomeAfter, WantAfter
<1>1. A \in Seq(Items) /\ m \in Nat
  BY DEF Before, Shaped
<1>2. PICK n \in Nat : n = Len(A) /\ DOMAIN A = 1 .. n
  BY <1>1
<1>3. PICK AA, GG : AA = A \o it /\ GG = G \cup NewMarks(s, rs)
  OBVIOUS
<1>4. /\ AA \in Seq(Items) /\ Len(AA) = n + m /\ DOMAIN AA = 1 .. n + m
      /\ \A i \in 1 .. n : AA[i] = A[i]
      /\ \A i \in 1 .. m : AA[n + i] = it[i]
  <2>1. /\ AA \in Seq(Items) /\ Len(AA) = n + m
        /\ \A i \in 1 .. n + m : AA[i] = IF i <= n THEN A[i] ELSE it[i - n]
    <3>1. /\ A \o it \in Seq(Items) /\ Len(A \o it) = Len(A) + Len(it)
          /\ \A i \in 1 .. Len(A) + Len(it) : (A \o it)[i] = IF i <= Len(A) THEN A[i] ELSE it[i - Len(A)]
      <4>1. A \in Seq(Items) /\ it \in Seq(Items)
        BY <1>0, <1>1
      <4> QED
        BY <4>1, ConcatProperties
    <3> QED
      BY <1>0, <1>2, <1>3, <3>1
  <2>2. \A i \in 1 .. n : AA[i] = A[i]
    BY <1>1, <2>1
  <2>3. ASSUME NEW i \in 1 .. m PROVE AA[n + i] = it[i]
    <3>1. n + i \in 1 .. n + m /\ ~(n + i <= n) /\ (n + i) - n = i
      BY <1>1
    <3>2. AA[n + i] = it[(n + i) - n]
      BY <2>1, <3>1
    <3> QED
      BY <3>1, <3>2
  <2> QED
    BY <2>1, <2>2, <2>3
<1>5. \A i \in 1 .. m : b[i] \in DOMAIN w /\ b[i] \in Home /\ w[b[i]] \in Values /\ b[i] \notin rs
  BY DEF Shaped, Writes
<1>6. \A i \in 1 .. m : Unescaped(lg2, it[i]) = w[b[i]] /\ it[i].tag.block = b[i]
  <2> SUFFICES ASSUME NEW i \in 1 .. m PROVE Unescaped(lg2, it[i]) = w[b[i]] /\ it[i].tag.block = b[i]
    OBVIOUS
  <2>1. it[i].tag = Tag(b[i], w[b[i]]) /\ lg2[it[i].at] = Logged(w[b[i]]) /\ w[b[i]] \in Values
    BY <1>0, <1>5
  <2>2. Unescaped(lg2, it[i]) = w[b[i]]
    BY <2>1, UnescapedIs
  <2> QED
    BY <2>1, <2>2 DEF Tag
<1>7. \A i \in 1 .. n : IsRevoked(GG, AA[i]) <=> IsRevoked(G, A[i]) \/ A[i].tag.block \in rs
  BY <1>2, <1>3, <1>4, OldRevoked
<1>8. \A i \in 1 .. m : ~IsRevoked(GG, AA[n + i]) /\ AA[n + i].tag.block = b[i]
  <2> SUFFICES ASSUME NEW i \in 1 .. m PROVE ~IsRevoked(GG, AA[n + i]) /\ AA[n + i].tag.block = b[i]
    OBVIOUS
  <2>1. PICK t : t = it[i]
    OBVIOUS
  <2>2. t.seq = s /\ t.tag.block = b[i] /\ t.tag.block \notin rs
    BY <1>0, <1>5, <1>6, <2>1
  <2>3. ~IsRevoked(G \cup NewMarks(s, rs), t)
    BY <2>2, NewNotRevoked
  <2> QED
    BY <1>3, <1>4, <2>1, <2>2, <2>3
<1>9. \A i \in 1 .. n + m : i \in 1 .. n \/ \E k \in 1 .. m : i = n + k
  <2> SUFFICES ASSUME NEW i \in 1 .. n + m, i \notin 1 .. n PROVE \E k \in 1 .. m : i = n + k
    OBVIOUS
  <2>1. i - n \in 1 .. m /\ i = n + (i - n)
    BY <1>1
  <2> QED
    BY <2>1
<1>10. ASSUME NEW x \in Home, x \in rs PROVE Hits(AA, GG, x) = {}
  <2> SUFFICES ASSUME NEW i \in Hits(AA, GG, x) PROVE FALSE
    OBVIOUS
  <2>1. i \in 1 .. n + m /\ ~IsRevoked(GG, AA[i]) /\ AA[i].tag.block = x
    BY <1>4 DEF Hits
  <2>2. CASE i \in 1 .. n
    BY <1>4, <1>7, <1>10, <2>1, <2>2
  <2>3. CASE \E k \in 1 .. m : i = n + k
    BY <1>5, <1>8, <1>10, <2>1, <2>3
  <2> QED
    BY <1>9, <2>1, <2>2, <2>3
<1>11. ASSUME NEW x \in DOMAIN w
       PROVE  Hits(AA, GG, x) # {} /\ Unescaped(lg2, AA[Max(Hits(AA, GG, x))]) = w[x]
  <2>1. PICK k \in 1 .. m : b[k] = x
    BY DEF Shaped
  <2>2. n + k \in 1 .. n + m
    BY <1>1
  <2>3. n + k \in Hits(AA, GG, x)
    BY <1>4, <1>8, <2>1, <2>2 DEF Hits
  <2>4. PICK h : h = Max(Hits(AA, GG, x)) /\ h \in Hits(AA, GG, x) /\ h \in DOMAIN AA /\ \A y \in Hits(AA, GG, x) : h >= y
    BY <1>4, <2>3, HitsMax
  <2>5. h \in 1 .. n + m /\ h >= n + k /\ AA[h].tag.block = x
    BY <1>4, <2>3, <2>4 DEF Hits
  <2>6. h \notin 1 .. n
    BY <1>1, <2>5
  <2>7. PICK i \in 1 .. m : h = n + i
    BY <1>9, <2>5, <2>6
  <2>8. b[i] = b[k]
    BY <1>8, <2>1, <2>5, <2>7
  <2>9. i = k
    BY <2>8 DEF Shaped
  <2>10. AA[h] = it[k]
    BY <1>4, <2>7, <2>9
  <2> QED
    BY <1>6, <2>1, <2>3, <2>4, <2>10
<1>12. ASSUME NEW x \in Home, x \notin rs, x \notin DOMAIN w
       PROVE  /\ Hits(AA, GG, x) = Hits(A, G, x)
              /\ Hits(A, G, x) # {} => Unescaped(lg2, AA[Max(Hits(A, G, x))]) = Unescaped(lg, A[Max(Hits(A, G, x))])
  <2>1. ASSUME NEW i \in Hits(AA, GG, x) PROVE i \in Hits(A, G, x)
    <3>1. i \in 1 .. n + m /\ ~IsRevoked(GG, AA[i]) /\ AA[i].tag.block = x
      BY <1>4, <2>1 DEF Hits
    <3>2. i \in 1 .. n
      BY <1>5, <1>8, <1>9, <1>12, <3>1
    <3> QED
      BY <1>2, <1>4, <1>7, <3>1, <3>2 DEF Hits
  <2>2. ASSUME NEW i \in Hits(A, G, x) PROVE i \in Hits(AA, GG, x)
    <3>1. i \in 1 .. n /\ ~IsRevoked(G, A[i]) /\ A[i].tag.block = x
      BY <1>2, <2>2 DEF Hits
    <3>2. i \in 1 .. n + m
      BY <1>1, <3>1
    <3> QED
      BY <1>4, <1>7, <1>12, <3>1, <3>2 DEF Hits
  <2>3. ASSUME Hits(A, G, x) # {}
        PROVE  Unescaped(lg2, AA[Max(Hits(A, G, x))]) = Unescaped(lg, A[Max(Hits(A, G, x))])
    <3>1. PICK h : h = Max(Hits(A, G, x)) /\ h \in DOMAIN A
      BY <1>1, <2>3, HitsMax
    <3>2. AA[h] = A[h] /\ lg2[A[h].at] = lg[A[h].at]
      BY <1>0, <1>2, <1>4, <3>1
    <3> QED
      BY <3>1, <3>2 DEF Unescaped, Bytes
  <2> QED
    BY <2>1, <2>2, <2>3
<1>13. Holds(AA, GG, lg2, hm2, wt2)
  <2> SUFFICES ASSUME NEW x \in Home
               PROVE  wt2[x] = IF Hits(AA, GG, x) = {} THEN hm2[x] ELSE Unescaped(lg2, AA[Max(Hits(AA, GG, x))])
    BY DEF Holds
  <2>1. CASE x \in rs
    BY <1>10, <2>1
  <2>2. CASE x \in DOMAIN w
    BY <1>11, <2>2
  <2>3. CASE x \notin rs /\ x \notin DOMAIN w
    <3>1. wt[x] = IF Hits(A, G, x) = {} THEN hm[x] ELSE Unescaped(lg, A[Max(Hits(A, G, x))])
      BY DEF Holds
    <3>2. wt2[x] = wt[x] /\ hm2[x] = hm[x]
      BY <2>3
    <3> QED
      BY <1>12, <2>3, <3>1, <3>2
  <2> QED
    BY <2>1, <2>2, <2>3
<1>14. Valued(it, lg2)
  BY <1>0, <1>5, <1>6 DEF Valued
<1> QED
  BY <1>3, <1>13, <1>14

\* Every header of the log lg is of a transaction before s, or of one up to s.
Older(lg, s)    == \A i \in Slots : lg[i].k \in Headers => Age(lg[i].seq) < Age(s)
NotNewer(lg, s) == \A i \in Slots : lg[i].k \in Headers => Age(lg[i].seq) <= Age(s)

\* A scan of lg that ended as p is refused.
Refuses(lg, p, cs) ==
    \/ p.refused = TRUE
    \/ cs = TRUE /\ \E i \in DOMAIN p.all : ~IsRevoked(p.gone, p.all[i]) /\ Bytes(lg, p.all[i].at) # p.all[i].tag.csum

\* A scan of lg that ended as p, at number nx, holds what was committed.
Settles(lg, p, nx, hm, wt) ==
    /\ p.seq = nx /\ p.refused = FALSE
    /\ Holds(p.all, p.gone, lg, hm, wt)
    /\ \A i \in DOMAIN p.all : ~IsRevoked(p.gone, p.all[i]) => Unescaped(lg, p.all[i]) \in Values

\* The scan g from st on reads the transactions that are in use, and comes to the head hd
\* after T turns with the tags A and the revoke records G of all of them.
Boundary(g, lg, st, hd, nx, T, A, G) ==
    /\ T \in Nat /\ T <= Off(hd, st)
    /\ Bound(g[T], hd, nx, A, G)
    /\ \A t \in Nat : t < T => Off(g[t].at, st) < Off(hd, st)
    /\ Before(A, G, nx)
    /\ \A i \in DOMAIN A : Off(A[i].at, st) < Off(hd, st) /\ Unescaped(lg, A[i]) \in Values

\* The log holds the transactions in use, up to the head.
InLog(lg, cs, st, sq, hd, nx, hm, wt) ==
    \E T, A, G : Boundary(After(lg, cs, st, sq), lg, st, hd, nx, T, A, G) /\ Holds(A, G, lg, hm, wt)

\* A scan either refuses or holds what was committed.
Outcome(lg, cs, p, nx, hm, wt) == Refuses(lg, p, cs) \/ Settles(lg, p, nx, hm, wt)

\* Where the scan ends.
Final(lg, cs, st, sq) == After(lg, cs, st, sq)[Turns]

\* The tags that are not revoked.
LEMMA KeptIs ==
    ASSUME NEW A, NEW G, NEW D, D = {i \in DOMAIN A : ~IsRevoked(G, A[i])}
    PROVE  DOMAIN Kept(A, G) = D /\ \A i \in D : Kept(A, G)[i] = A[i]
BY DEF Kept, Restrict

\* What recover plans, by where the scan ends.
LEMMA PlanIs ==
    ASSUME NEW p \in States, p = Final(log, features.csum, start, seq)
    PROVE  /\ Plan.tags = Kept(p.all, p.gone) /\ Plan.end = p.seq
           /\ Plan.refused <=> Refuses(log, p, features.csum)
<1>1. Scan = p
  BY ScanIs DEF Final
<1>2. PICK K : K = Kept(p.all, p.gone)
  OBVIOUS
<1>3. PICK e : e = (p.refused \/ (features.csum /\ \E i \in DOMAIN K : Bytes(log, K[i].at) # K[i].tag.csum))
  OBVIOUS
<1>4. PICK q : q = p.seq
  OBVIOUS
<1>5. Plan = [refused |-> e, tags |-> K, end |-> q]
  BY <1>1, <1>2, <1>3, <1>4 DEF Plan
<1>6. Plan.refused = e /\ Plan.tags = K /\ Plan.end = q
  BY <1>5
<1>7. p.refused <=> p.refused = TRUE
  BY DEF States
<1>8. (\E i \in DOMAIN K : Bytes(log, K[i].at) # K[i].tag.csum)
        <=> \E i \in DOMAIN p.all : ~IsRevoked(p.gone, p.all[i]) /\ Bytes(log, p.all[i].at) # p.all[i].tag.csum
  <2>1. PICK D : D = {i \in DOMAIN p.all : ~IsRevoked(p.gone, p.all[i])}
    OBVIOUS
  <2>2. DOMAIN K = D /\ \A i \in D : K[i] = p.all[i]
    BY <1>2, <2>1, KeptIs
  <2> QED
    BY <2>1, <2>2
<1> QED
  BY <1>2, <1>3, <1>4, <1>6, <1>7, <1>8 DEF Refuses

\* What a replay would leave on the volume.
LEMMA ContentIs ==
    ASSUME NEW p \in States, p = Final(log, features.csum, start, seq), start # 0,
           want \in [Home -> Values], Holds(p.all, p.gone, log, home, want)
    PROVE  Content = want
<1>1. PICK K : K = Kept(p.all, p.gone) /\ Plan.tags = K
  BY PlanIs
<1>2. PICK D : D = {i \in DOMAIN p.all : ~IsRevoked(p.gone, p.all[i])}
  OBVIOUS
<1>3. DOMAIN K = D /\ \A i \in D : K[i] = p.all[i]
  BY <1>1, <1>2, KeptIs
<1>4. \A x \in Home : {i \in DOMAIN K : K[i].tag.block = x} = Hits(p.all, p.gone, x)
  BY <1>2, <1>3 DEF Hits
<1>5. Content = [x \in Home |-> IF {i \in DOMAIN K : K[i].tag.block = x} = {} THEN home[x]
                                ELSE Unescaped(log, K[Max({i \in DOMAIN K : K[i].tag.block = x})])]
  BY <1>1 DEF Content
<1>6. Content = [x \in Home |-> IF Hits(p.all, p.gone, x) = {} THEN home[x]
                                ELSE Unescaped(log, K[Max(Hits(p.all, p.gone, x))])]
  BY <1>4, <1>5
<1>7. ASSUME NEW x \in Home PROVE Content[x] = want[x]
  <2>1. CASE Hits(p.all, p.gone, x) = {}
    BY <1>6, <2>1 DEF Holds
  <2>2. CASE Hits(p.all, p.gone, x) # {}
    <3>1. PICK h : h = Max(Hits(p.all, p.gone, x)) /\ h \in Hits(p.all, p.gone, x)
      BY <2>2, HitsMax DEF States
    <3>2. K[h] = p.all[h]
      BY <1>2, <1>3, <3>1 DEF Hits
    <3> QED
      BY <1>6, <2>2, <3>1, <3>2 DEF Holds
  <2> QED
    BY <2>1, <2>2
<1>8. PICK c : c = Content /\ DOMAIN c = Home /\ c = [x \in DOMAIN c |-> c[x]]
  BY <1>6
<1> QED
  BY <1>7, <1>8

\* A scan that comes to a log head at which no header of the next transaction is, ends there.
LEMMA Finishes ==
    ASSUME NEW lg, NEW cs, NEW st, NEW sq, NEW g, Running(g, lg, cs, st, sq), NEW hd \in Slots, NEW nx \in Seqs,
           NEW hm, NEW wt, InLog(lg, cs, st, sq, hd, nx, hm, wt), Older(lg, nx)
    PROVE  Settles(lg, g[Turns], nx, hm, wt)
<1>1. g = After(lg, cs, st, sq) /\ st \in Slots /\ lg \in Logs
  BY DEF Running
<1>2. PICK T, A, G : Boundary(g, lg, st, hd, nx, T, A, G) /\ Holds(A, G, lg, hm, wt)
  BY <1>1 DEF InLog
<1>3. /\ T \in Nat /\ T <= Off(hd, st) /\ Bound(g[T], hd, nx, A, G)
      /\ \A i \in DOMAIN A : Unescaped(lg, A[i]) \in Values
  BY <1>2 DEF Boundary
<1>4. Off(hd, st) \in 0 .. LogLen - 1
  BY <1>1, AheadOff
<1>5. T < Turns
  <2>1. LogLen \in Nat /\ Turns = LogLen + 2
    BY RunIs
  <2> QED
    BY <1>3, <1>4, <2>1
<1>6. lg[hd].k \in Headers => lg[hd].seq # nx
  <2>1. SUFFICES ASSUME lg[hd].k \in Headers, lg[hd].seq = nx PROVE FALSE
    OBVIOUS
  <2>2. Age(nx) < Age(nx) /\ Age(nx) \in Int
    BY <2>1, AgeIs DEF Older, Seqs
  <2> QED
    BY <2>2
<1>7. Part(g[T], hd, nx, A, G, <<>>, {})
  BY <1>3 DEF Bound
<1>8. Ended(g[Turns], nx, A, G)
  BY <1>3, <1>5, <1>6, <1>7, HaltTurn
<1> QED
  BY <1>2, <1>3, <1>8 DEF Ended, Settles

\* What a tag of a scan has.
LEMMA ItemAt ==
    ASSUME NEW A \in Seq(Items), NEW i \in DOMAIN A
    PROVE  /\ A[i] \in Items /\ A[i].at \in Slots /\ A[i].seq \in Seqs
           /\ A[i].tag.block \in Home /\ A[i].tag.csum \in Values \cup {Zeroed}
<1>1. A[i] \in Items
  OBVIOUS
<1> QED
  BY <1>1 DEF Items, TagRecs

\* Blocks put behind the head do not change the scan of what is before it.
LEMMA SamePrefix ==
    ASSUME NEW lg, NEW lg2, NEW cs, NEW st, NEW sq, NEW g, NEW g2, Running(g, lg, cs, st, sq), Running(g2, lg2, cs, st, sq),
           NEW hd \in Slots, NEW s, NEW T, NEW A, NEW G, Boundary(g, lg, st, hd, s, T, A, G), NEW n \in Nat,
           Off(hd, st) + n < LogLen, \A i \in Slots : Off(i, hd) >= n => lg2[i] = lg[i]
    PROVE  /\ \A t \in Nat : t <= T => g2[t] = g[t]
           /\ \A i \in DOMAIN A : lg2[A[i].at] = lg[A[i].at]
<1>1. g = After(lg, cs, st, sq) /\ g2 = After(lg2, cs, st, sq) /\ st \in Slots
  BY DEF Running
<1>2. \A i \in Slots : Off(i, st) < Off(hd, st) => lg2[i] = lg[i]
  BY <1>1, Behind
<1>3. T \in Nat /\ T <= Off(hd, st) /\ Off(hd, st) \in 0 .. LogLen - 1
  BY <1>1, AheadOff DEF Boundary
<1>4. Turns = LogLen + 2 /\ LogLen \in Nat /\ (\A t \in Nat : t <= Turns => g[t] \in States)
  BY RunIs
<1>5. T \in 0 .. Turns /\ T <= Turns
  BY <1>3, <1>4
<1>6. ASSUME NEW t \in Nat, t < T PROVE lg2[g[t].at] = lg[g[t].at]
  <2>1. Off(g[t].at, st) < Off(hd, st)
    BY <1>6 DEF Boundary
  <2>2. t <= Turns
    BY <1>3, <1>4, <1>6
  <2>3. g[t].at \in Slots
    BY <1>4, <2>2 DEF States
  <2> QED
    BY <1>2, <2>1, <2>3
<1>7. \A t \in Nat : t <= T => g2[t] = g[t]
  BY <1>1, <1>5, <1>6, SameRun
<1>8. ASSUME NEW i \in DOMAIN A PROVE lg2[A[i].at] = lg[A[i].at]
  <2>1. Off(A[i].at, st) < Off(hd, st) /\ A \in Seq(Items)
    BY DEF Boundary, Before
  <2>2. A[i].at \in Slots
    BY <2>1, ItemAt
  <2> QED
    BY <1>2, <2>1, <2>2
<1> QED
  BY <1>7, <1>8

\* The tags and revoke records of a transaction are before the number that follows it.
LEMMA BeforeNext ==
    ASSUME NEW A, NEW G, NEW s, Before(A, G, s), 2 * (Age(s) + 1) < SeqSpan, NEW it \in Seq(Items), NEW m \in Nat, Len(it) = m,
           \A i \in 1 .. m : it[i].seq = s, NEW rs \in SUBSET Home, NEW AA, AA = A \o it, NEW GG, GG = G \cup NewMarks(s, rs)
    PROVE  Before(AA, GG, Succ(s))
<1>1. s \in Seqs /\ A \in Seq(Items) /\ G \subseteq Marks
  BY DEF Before
<1>2. Age(s) \in Nat /\ SeqSpan \in Nat
  BY <1>1, AgeIs DEF Seqs
<1>3. Succ(s) \in Seqs /\ Age(Succ(s)) = Age(s) + 1
  BY <1>1, <1>2, AgeSucc
<1>4. /\ AA \in Seq(Items) /\ Len(AA) = Len(A) + Len(it)
      /\ \A i \in 1 .. Len(A) + Len(it) : AA[i] = IF i <= Len(A) THEN A[i] ELSE it[i - Len(A)]
  BY <1>1, ConcatProperties
<1>5. ASSUME NEW i \in DOMAIN AA PROVE Age(AA[i].seq) < Age(Succ(s))
  <2>1. PICK n \in Nat : n = Len(A) /\ DOMAIN A = 1 .. n
    BY <1>1
  <2>2. i \in 1 .. n + m
    BY <1>4, <2>1
  <2>3. CASE i \in 1 .. n
    <3>1. AA[i] = A[i] /\ i \in DOMAIN A
      BY <1>4, <2>1, <2>2, <2>3
    <3>2. Age(A[i].seq) < Age(s)
      BY <3>1 DEF Before
    <3>3. A[i].seq \in Seqs
      BY <1>1, <3>1, ItemAt
    <3>4. Age(A[i].seq) \in Nat
      BY <3>3, AgeIs DEF Seqs
    <3> QED
      BY <1>2, <1>3, <3>1, <3>2, <3>4
  <2>4. CASE i \notin 1 .. n
    <3>1. i - n \in 1 .. m /\ ~(i <= n)
      BY <2>1, <2>2, <2>4
    <3>2. AA[i] = it[i - n]
      BY <1>4, <2>1, <2>2, <3>1
    <3>3. AA[i].seq = s
      BY <3>1, <3>2
    <3> QED
      BY <1>2, <1>3, <3>3
  <2> QED
    BY <2>3, <2>4
<1>6. GG \subseteq Marks
  BY <1>1 DEF NewMarks, Marks
<1>7. ASSUME NEW q \in GG PROVE Age(q.seq) < Age(Succ(s))
  <2>1. CASE q \in G
    <3>1. Age(q.seq) < Age(s) /\ q.seq \in Seqs
      BY <1>1, <2>1 DEF Before, Marks
    <3>2. Age(q.seq) \in Nat
      BY <3>1, AgeIs DEF Seqs
    <3> QED
      BY <1>2, <1>3, <3>1, <3>2
  <2>2. CASE q \in NewMarks(s, rs)
    <3>1. q.seq = s
      BY <2>2 DEF NewMarks
    <3> QED
      BY <1>2, <1>3, <3>1
  <2> QED
    BY <2>1, <2>2
<1>8. 2 * Age(Succ(s)) < SeqSpan
  BY <1>3
<1> QED
  BY <1>3, <1>4, <1>5, <1>6, <1>7, <1>8 DEF Before

\* A committed transaction: the scan comes to the new head, and the log holds its writes.
LEMMA CommitKeeps ==
    ASSUME NEW lg, NEW lg2, NEW cs, NEW st, NEW sq, NEW g, NEW g2, Running(g, lg, cs, st, sq), Running(g2, lg2, cs, st, sq),
           NEW hd \in Slots, NEW s \in Seqs, NEW hm, NEW wt, InLog(lg, cs, st, sq, hd, s, hm, wt), 2 * (Age(s) + 1) < SeqSpan,
           NEW w, Writes(w), NEW rs \in SUBSET Home, DOMAIN w \cap rs = {},
           NEW bs, NEW r, NEW m, NEW b, Shaped(bs, s, w, rs, r, m, b), Off(hd, st) + Len(bs) < LogLen,
           \A i \in Slots : Off(i, hd) >= Len(bs) => lg2[i] = lg[i],
           Laid(lg2, hd, bs), NEW v
    PROVE  InLog(lg2, cs, st, sq, Ahead(hd, Len(bs)), Succ(s), HomeAfter(hm, rs, v), WantAfter(wt, w, rs, v))
<1>1. g = After(lg, cs, st, sq) /\ g2 = After(lg2, cs, st, sq) /\ st \in Slots
  BY DEF Running
<1>2. PICK T, A, G : Boundary(g, lg, st, hd, s, T, A, G) /\ Holds(A, G, lg, hm, wt)
  BY <1>1 DEF InLog
<1>3. T \in Nat /\ T <= Off(hd, st) /\ Bound(g[T], hd, s, A, G) /\ Before(A, G, s)
  BY <1>2 DEF Boundary
<1>4. /\ m \in Nat /\ r \in {0, 1} /\ Len(bs) = r + Body(m) + 1 /\ Body(m) \in Nat /\ (m # 0 => Body(m) = m + 1)
      /\ Len(bs) \in Nat /\ LogLen \in Nat /\ Off(hd, st) \in 0 .. LogLen - 1
  BY <1>1, AheadOff, JournalAssumption DEF Shaped, Body
<1>5. PICK n \in Nat : n = Len(bs) /\ Off(hd, st) + n < LogLen
  BY <1>4
<1>6. (\A t \in Nat : t <= T => g2[t] = g[t]) /\ \A i \in DOMAIN A : lg2[A[i].at] = lg[A[i].at]
  BY <1>2, <1>5, SamePrefix
<1>7. Bound(g2[T], hd, s, A, G) /\ T + Len(bs) <= LogLen
  BY <1>3, <1>4, <1>6
<1>8. PICK it, AA, GG : it = ItemsOf(hd, s, w, r, m, b) /\ AA = A \o it /\ GG = G \cup NewMarks(s, rs)
  OBVIOUS
<1>9. PICK T2 \in Nat :
        /\ T < T2 /\ T2 <= T + Len(bs) /\ Bound(g2[T2], Ahead(hd, Len(bs)), Succ(s), AA, GG)
        /\ \A t \in Nat : T <= t /\ t < T2 => \E j \in Nat : j < Len(bs) /\ g2[t].at = Ahead(hd, j)
  <2>1. \E T2 : Reaches(g2, T, T2, hd, Len(bs), Succ(s), A \o ItemsOf(hd, s, w, r, m, b), G \cup NewMarks(s, rs))
    BY <1>3, <1>7, ScanTx
  <2> QED
    BY <1>8, <2>1 DEF Reaches
<1>10. /\ it \in Seq(Items) /\ Len(it) = m
       /\ \A i \in 1 .. m : it[i] = [tag |-> Tag(b[i], w[b[i]]), at |-> Ahead(hd, r + i), seq |-> s]
  <2>1. r + m <= LogLen
    BY <1>4
  <2> QED
    BY <1>8, <2>1, ItemsAre
<1>11. \A i \in 1 .. m : it[i].tag = Tag(b[i], w[b[i]]) /\ it[i].at = Ahead(hd, r + i) /\ it[i].seq = s
  BY <1>10
<1>12. ASSUME NEW i \in 1 .. m PROVE lg2[it[i].at] = Logged(w[b[i]]) /\ r + i \in Nat /\ r + i < Len(bs)
  <2>1. r + 1 + i \in 1 .. Len(bs) /\ (r + 1 + i) - 1 = r + i /\ m # 0 /\ r + i \in Nat /\ r + i < Len(bs)
    BY <1>4
  <2>2. lg2[Ahead(hd, (r + 1 + i) - 1)] = bs[r + 1 + i]
    BY <2>1 DEF Laid
  <2>3. bs[r + 1 + i] = Logged(w[b[i]])
    BY <2>1 DEF Shaped
  <2> QED
    BY <1>11, <2>1, <2>2, <2>3
<1>13. Holds(AA, GG, lg2, HomeAfter(hm, rs, v), WantAfter(wt, w, rs, v)) /\ Valued(it, lg2)
  <2>1. Stored(lg2, it, w, m, b) /\ Taken(it, s, w, m, b) /\ SameFor(A, lg, lg2)
    BY <1>6, <1>10, <1>11, <1>12 DEF Stored, Taken, SameFor
  <2>2. Holds(A \o it, G \cup NewMarks(s, rs), lg2, HomeAfter(hm, rs, v), WantAfter(wt, w, rs, v)) /\ Valued(it, lg2)
    BY <1>2, <1>3, <2>1, CommitHolds
  <2> QED
    BY <1>8, <2>2
<1>14. Before(AA, GG, Succ(s))
  <2>1. \A i \in 1 .. m : it[i].seq = s
    BY <1>11
  <2>2. Before(A, G, s) /\ m \in Nat /\ it \in Seq(Items) /\ Len(it) = m /\ AA = A \o it /\ GG = G \cup NewMarks(s, rs)
    BY <1>3, <1>4, <1>8, <1>10
  <2> QED
    BY <2>1, <2>2, BeforeNext
<1>15. PICK u, u2 : u = Off(hd, st) /\ u2 = Off(Ahead(hd, Len(bs)), st)
  OBVIOUS
<1>16. u2 = u + Len(bs) /\ u \in Nat /\ \A j \in Nat : j <= Len(bs) => Off(Ahead(hd, j), st) = u + j
  BY <1>1, <1>4, <1>15, Behind
<1>17. T2 <= u2
  BY <1>3, <1>4, <1>9, <1>15, <1>16
<1>18. ASSUME NEW t \in Nat, t < T2 PROVE Off(g2[t].at, st) < u2
  <2>1. CASE t < T
    <3>1. Off(g[t].at, st) < u /\ g2[t] = g[t]
      BY <1>2, <1>3, <1>6, <1>15, <2>1 DEF Boundary
    <3>2. g[t] \in States
      <4>1. Turns = LogLen + 2 /\ (\A k \in Nat : k <= Turns => g[k] \in States)
        BY RunIs
      <4>2. t <= Turns
        BY <1>3, <1>4, <2>1, <4>1
      <4> QED
        BY <4>1, <4>2
    <3>3. Off(g[t].at, st) \in 0 .. LogLen - 1
      BY <1>1, <3>2, AheadOff DEF States
    <3> QED
      BY <1>4, <1>16, <3>1, <3>3
  <2>2. CASE ~(t < T)
    <3>1. T <= t
      BY <1>3, <2>2
    <3>2. PICK j \in Nat : j < Len(bs) /\ g2[t].at = Ahead(hd, j)
      BY <1>9, <1>18, <3>1
    <3>3. j <= Len(bs)
      BY <1>4, <3>2
    <3>4. Off(g2[t].at, st) = u + j
      BY <1>16, <3>2, <3>3
    <3> QED
      BY <1>4, <1>16, <3>2, <3>4
  <2> QED
    BY <2>1, <2>2
<1>19. ASSUME NEW i \in DOMAIN AA PROVE Off(AA[i].at, st) < u2 /\ Unescaped(lg2, AA[i]) \in Values
  <2>1. A \in Seq(Items)
    BY <1>3 DEF Before
  <2>2. /\ AA \in Seq(Items) /\ Len(AA) = Len(A) + Len(it)
        /\ \A k \in 1 .. Len(A) + Len(it) : AA[k] = IF k <= Len(A) THEN A[k] ELSE it[k - Len(A)]
    BY <1>8, <1>10, <2>1, ConcatProperties
  <2>3. PICK k \in Nat : k = Len(A) /\ DOMAIN A = 1 .. k
    BY <2>1
  <2>4. i \in 1 .. k + m
    BY <1>10, <2>2, <2>3
  <2>5. CASE i \in 1 .. k
    <3>1. AA[i] = A[i] /\ i \in DOMAIN A
      BY <1>10, <2>2, <2>3, <2>4, <2>5
    <3>2. Off(A[i].at, st) < u /\ Unescaped(lg, A[i]) \in Values
      BY <1>2, <1>15, <3>1 DEF Boundary
    <3>3. Unescaped(lg2, A[i]) = Unescaped(lg, A[i])
      BY <1>6, <3>1 DEF Unescaped, Bytes
    <3>4. A[i].at \in Slots
      BY <2>1, <3>1, ItemAt
    <3>5. Off(A[i].at, st) \in 0 .. LogLen - 1
      BY <1>1, <3>4, AheadOff
    <3>6. Off(A[i].at, st) < u2
      BY <1>4, <1>16, <3>2, <3>5
    <3> QED
      BY <3>1, <3>2, <3>3, <3>6
  <2>6. CASE i \notin 1 .. k
    <3>1. i - k \in 1 .. m /\ ~(i <= k)
      BY <1>4, <2>3, <2>4, <2>6
    <3>2. PICK q \in 1 .. m : q = i - k
      BY <3>1
    <3>3. AA[i] = it[q]
      BY <1>10, <2>2, <2>3, <2>4, <3>1, <3>2
    <3>4. r + q \in Nat /\ r + q < Len(bs) /\ r + q <= Len(bs)
      <4>1. r + q \in Nat /\ r + q < Len(bs)
        BY <1>12
      <4> QED
        BY <1>4, <4>1
    <3>5. Off(it[q].at, st) = u + (r + q)
      BY <1>11, <1>16, <3>4
    <3>6. Off(it[q].at, st) < u2
      BY <1>4, <1>16, <3>4, <3>5
    <3> QED
      BY <1>10, <1>13, <3>3, <3>6 DEF Valued
  <2> QED
    BY <2>5, <2>6
<1>20. Boundary(g2, lg2, st, Ahead(hd, Len(bs)), Succ(s), T2, AA, GG)
  BY <1>9, <1>14, <1>15, <1>17, <1>18, <1>19 DEF Boundary
<1> QED
  BY <1>1, <1>13, <1>20 DEF InLog

\* The block h is what is left of the block x of transaction s, or was there before it.
Half(h, x, s, cs) ==
    \/ h = x
    \/ cs = TRUE /\ h = Spoilt(x)
    \/ h.k \in Headers => h.seq # s
\* All of its blocks are so.
HalfLaid(lg, hd, bs, s, cs) == \A j \in 1 .. Len(bs) : Half(lg[Ahead(hd, j - 1)], bs[j], s, cs)

\* A block that is no header, or one of a transaction before s.
Stale(h, s) == h.k \in Headers => Age(h.seq) < Age(s)

\* A scan that ended with what was committed before s, or is refused.
Over(p, s, A, G) == p.refused = TRUE \/ Ended(p, s, A, G)

\* A descriptor or revoke block of transaction s, which is not at block at of lg, or not whole.
Leading(x, s) == x \in Blocks /\ x.k \in {"desc", "revoke"} /\ x.seq = s
Lacks(lg, at, x, s, cs) == Half(lg[at], x, s, cs) /\ lg[at] # x

\* A descriptor or revoke block that did not arrive whole ends the scan or has it refused.
LEMMA HalfHeader ==
    ASSUME NEW lg, NEW cs, NEW st, NEW sq, NEW g, Running(g, lg, cs, st, sq), NEW T \in Nat, T < Turns,
           NEW at, NEW s, NEW A, NEW G, NEW tg, NEW rv, Part(g[T], at, s, A, G, tg, rv),
           NEW x, Leading(x, s), Lacks(lg, at, x, s, cs)
    PROVE  Over(g[Turns], s, A, G)
<1>0. x.k \in {"desc", "revoke"} /\ x \in Blocks /\ x.seq = s /\ Half(lg[at], x, s, cs) /\ lg[at] # x
  BY DEF Leading, Lacks
<1>1. CASE lg[at].k \in Headers => lg[at].seq # s
  BY <1>1, HaltTurn DEF Over
<1>2. CASE cs = TRUE /\ lg[at] = Spoilt(x)
  <2>1. PICK p : p = g[T] /\ p.going = TRUE /\ p.at = at /\ p.seq = s
    BY DEF Part
  <2>2. PICK h : h = lg[p.at] /\ h = Spoilt(x)
    BY <1>2, <2>1
  <2>3. h = [x EXCEPT !.ok = FALSE]
    BY <1>0, <2>2 DEF Spoilt
  <2>4. x \in Descs \cup Revokes
    BY <1>0, BlockKinds
  <2>5. h.k = x.k /\ h.seq = s /\ h.ok = FALSE
    BY <1>0, <2>3, <2>4 DEF Descs, Revokes
  <2>6. Fails(cs, h)
    BY <1>2, <2>5 DEF Fails
  <2> QED
    BY <1>0, <2>1, <2>2, <2>5, <2>6, RefuseTurn DEF Over
<1> QED
  BY <1>0, <1>1, <1>2 DEF Half

\* A commit block that did not arrive whole ends the scan.
LEMMA HalfCommit ==
    ASSUME NEW lg, NEW cs, NEW st, NEW sq, NEW g, Running(g, lg, cs, st, sq), NEW T \in Nat, T < Turns,
           NEW at, NEW s \in Seqs, NEW A, NEW G, NEW tg, NEW rv, Part(g[T], at, s, A, G, tg, rv),
           Half(lg[at], Commit(s), s, cs), lg[at] # Commit(s)
    PROVE  Ended(g[Turns], s, A, G)
<1>1. CASE lg[at].k \in Headers => lg[at].seq # s
  BY <1>1, HaltTurn
<1>2. CASE cs = TRUE /\ lg[at] = Spoilt(Commit(s))
  <2>1. lg[at].k = "commit" /\ lg[at].ok = FALSE
    BY <1>2 DEF Spoilt, Commit
  <2>2. Fails(cs, lg[at])
    BY <1>2, <2>1 DEF Fails
  <2> QED
    BY <2>1, <2>2, HaltTurn
<1> QED
  BY <1>1, <1>2 DEF Half

\* A log that keeps the blocks of the tags A holds what it held.
LEMMA SettlesFrom ==
    ASSUME NEW lg, NEW lg2, NEW p, NEW s, NEW A \in Seq(Items), NEW G, Ended(p, s, A, G), SameFor(A, lg, lg2),
           NEW hm, NEW wt, Holds(A, G, lg, hm, wt), Valued(A, lg)
    PROVE  Settles(lg2, p, s, hm, wt)
<1>1. p.all = A /\ p.gone = G /\ p.seq = s /\ p.refused = FALSE
  BY DEF Ended
<1>2. \A i \in DOMAIN A : Unescaped(lg2, A[i]) = Unescaped(lg, A[i])
  BY DEF SameFor, Unescaped, Bytes
<1>3. Holds(A, G, lg2, hm, wt)
  <2> SUFFICES ASSUME NEW x \in Home
               PROVE  wt[x] = IF Hits(A, G, x) = {} THEN hm[x] ELSE Unescaped(lg2, A[Max(Hits(A, G, x))])
    BY DEF Holds
  <2>1. wt[x] = IF Hits(A, G, x) = {} THEN hm[x] ELSE Unescaped(lg, A[Max(Hits(A, G, x))])
    BY DEF Holds
  <2>2. Hits(A, G, x) # {} => Max(Hits(A, G, x)) \in DOMAIN A
    BY HitsMax
  <2> QED
    BY <1>2, <2>1, <2>2
<1> QED
  BY <1>1, <1>2, <1>3 DEF Settles, Valued

\* A data block that is not what its tag describes.
LEMMA BadData ==
    ASSUME NEW v \in Values, NEW x, NEW h, h # Logged(v), NEW lg \in Logs, NEW i \in Slots, h = lg[i]
    PROVE  Bytes(lg, i) # Tag(x, v).csum
<1>1. h \in Blocks
  BY DEF Logs
<1>2. PICK y : y = (IF v = Magic THEN Zeroed ELSE v)
  OBVIOUS
<1>3. Tag(x, v).csum = y /\ Logged(v) = [k |-> "data", val |-> y] /\ y # Torn
  BY <1>2, JournalAssumption DEF Tag, Logged
<1>4. CASE h.k = "data"
  <2>1. h \in Datas
    BY <1>1, <1>4, BlockKinds
  <2>2. h = [k |-> "data", val |-> h.val]
    BY <2>1 DEF Datas
  <2> QED
    BY <1>3, <1>4, <2>2 DEF Bytes
<1>5. CASE h.k # "data"
  BY <1>3, <1>5 DEF Bytes
<1> QED
  BY <1>4, <1>5

\* The scan g of lg has come to the commit block of transaction s at hd, with its tags it; no
\* transaction follows.
AtCommit(g, lg, T, hd, e, s, A, G, it, rs) ==
    Part(g[T], Ahead(hd, e), s, A, G, it, rs) /\ lg[Ahead(hd, e)] = Commit(s) /\ Stale(lg[Ahead(hd, e + 1)], s)

\* Block k of those it logs is not in lg.
NoData(lg, hd, w, r, b, k) == lg[Ahead(hd, r + k)] # Logged(w[b[k]])

\* A transaction whose data did not arrive with its headers is refused.
LEMMA BadTx ==
    ASSUME NEW lg, NEW cs, NEW st, NEW sq, NEW g, Running(g, lg, cs, st, sq), cs = TRUE, NEW T \in Nat, T < LogLen, NEW hd \in Slots,
           NEW s \in Seqs, NEW A, NEW G, Before(A, G, s), 2 * (Age(s) + 1) < SeqSpan, NEW w, Writes(w), NEW rs \in SUBSET Home, DOMAIN w \cap rs = {},
           NEW bs, NEW r, NEW m, NEW b, Shaped(bs, s, w, rs, r, m, b), Len(bs) < LogLen,
           NEW e, e = r + Body(m), NEW it, it = ItemsOf(hd, s, w, r, m, b),
           AtCommit(g, lg, T, hd, e, s, A, G, it, rs), NEW k \in 1 .. m, NoData(lg, hd, w, r, b, k)
    PROVE  Refuses(lg, g[Turns], cs)
<1>0. /\ Part(g[T], Ahead(hd, e), s, A, G, it, rs) /\ lg[Ahead(hd, e)] = Commit(s) /\ Stale(lg[Ahead(hd, e + 1)], s)
      /\ lg[Ahead(hd, r + k)] # Logged(w[b[k]])
  BY DEF AtCommit, NoData
<1>1. /\ m \in Nat /\ r \in {0, 1} /\ Len(bs) = r + Body(m) + 1 /\ Body(m) = m + 1
      /\ LogLen \in Nat /\ Turns = LogLen + 2 /\ e \in Nat /\ Len(bs) = e + 1 /\ r + m <= LogLen /\ r + k \in Nat
  <2>1. k \in 1 .. m /\ m \in Nat /\ r \in {0, 1} /\ Len(bs) = r + Body(m) + 1
    BY DEF Shaped
  <2>2. Body(m) = m + 1
    BY <2>1 DEF Body
  <2>3. LogLen \in Nat /\ Turns = LogLen + 2
    BY RunIs
  <2> QED
    BY <2>1, <2>2, <2>3
<1>2. T < Turns
  BY <1>1
<1>3. Bound(g[T + 1], Ahead(Ahead(hd, e), 1), Succ(s), A \o it, G \cup NewMarks(s, rs))
  BY <1>0, <1>2, CommitTurn
<1>4. Ahead(Ahead(hd, e), 1) = Ahead(hd, e + 1) /\ Ahead(hd, e + 1) \in Slots
  BY <1>1, AheadAhead, AheadSlot
<1>5. PICK at \in Slots : at = Ahead(hd, e + 1)
  BY <1>4
<1>6. PICK AA, GG : AA = A \o it /\ GG = G \cup NewMarks(s, rs)
  OBVIOUS
<1>7. Part(g[T + 1], at, Succ(s), AA, GG, <<>>, {})
  BY <1>3, <1>4, <1>5, <1>6 DEF Bound
<1>8. lg[at].k \in Headers => lg[at].seq # Succ(s)
  <2> SUFFICES ASSUME lg[at].k \in Headers, lg[at].seq = Succ(s) PROVE FALSE
    OBVIOUS
  <2>1. Age(s) \in Nat /\ SeqSpan \in Nat
    BY AgeIs DEF Seqs
  <2>2. Age(Succ(s)) = Age(s) + 1
    BY <2>1, AgeSucc
  <2>3. Age(lg[at].seq) < Age(s)
    BY <1>0, <1>5 DEF Stale
  <2> QED
    BY <2>1, <2>2, <2>3
<1>9. Ended(g[Turns], Succ(s), AA, GG)
  <2>1. T + 1 \in Nat /\ T + 1 < Turns
    BY <1>1
  <2> QED
    BY <1>7, <1>8, <2>1, HaltTurn
<1>10. /\ it \in Seq(Items) /\ Len(it) = m
       /\ \A i \in 1 .. m : it[i] = [tag |-> Tag(b[i], w[b[i]]), at |-> Ahead(hd, r + i), seq |-> s]
  BY <1>1, ItemsAre
<1>11. PICK t : t = it[k]
  OBVIOUS
<1>12. t.tag = Tag(b[k], w[b[k]]) /\ t.at = Ahead(hd, r + k) /\ t.seq = s
  BY <1>10, <1>11
<1>13. b[k] \in DOMAIN w
  BY DEF Shaped
<1>14. w[b[k]] \in Values /\ b[k] \notin rs
  BY <1>13 DEF Writes
<1>15. Bytes(lg, t.at) # t.tag.csum
  <2>1. Ahead(hd, r + k) \in Slots /\ lg \in Logs
    BY <1>1, AheadSlot DEF Running
  <2>2. Bytes(lg, Ahead(hd, r + k)) # Tag(b[k], w[b[k]]).csum
    BY <1>0, <1>14, <2>1, BadData
  <2> QED
    BY <1>12, <2>2
<1>16. ~IsRevoked(GG, t)
  <2>1. t.seq = s /\ t.tag.block \notin rs
    BY <1>12, <1>14 DEF Tag
  <2> QED
    BY <1>6, <2>1, NewNotRevoked
<1>17. \E i \in DOMAIN AA : AA[i] = t
  <2>1. A \in Seq(Items)
    BY DEF Before
  <2>2. /\ AA \in Seq(Items) /\ Len(AA) = Len(A) + Len(it)
        /\ \A i \in 1 .. Len(A) + Len(it) : AA[i] = IF i <= Len(A) THEN A[i] ELSE it[i - Len(A)]
    BY <1>6, <1>10, <2>1, ConcatProperties
  <2>3. PICK n \in Nat : n = Len(A)
    BY <2>1
  <2>4. n + k \in 1 .. n + m /\ ~(n + k <= n) /\ (n + k) - n = k
    BY <1>1
  <2>5. AA[n + k] = it[(n + k) - n]
    BY <1>10, <2>2, <2>3, <2>4
  <2>6. n + k \in DOMAIN AA
    BY <1>10, <2>2, <2>3, <2>4
  <2> QED
    BY <1>11, <2>4, <2>5, <2>6
<1>18. g[Turns].all = AA /\ g[Turns].gone = GG
  BY <1>9 DEF Ended
<1> QED
  BY <1>15, <1>16, <1>17, <1>18 DEF Refuses

\* A transaction that did not arrive whole: the scan ends before it, or is refused.
LEMMA TearKeeps ==
    ASSUME NEW lg, NEW lg2, NEW cs, NEW st, NEW sq, NEW g, NEW g2, Running(g, lg, cs, st, sq), Running(g2, lg2, cs, st, sq),
           NEW hd \in Slots, NEW s \in Seqs, NEW hm, NEW wt, InLog(lg, cs, st, sq, hd, s, hm, wt), 2 * (Age(s) + 1) < SeqSpan,
           Older(lg, s), NEW w, Writes(w), NEW rs \in SUBSET Home, DOMAIN w \cap rs = {},
           NEW bs, NEW r, NEW m, NEW b, Shaped(bs, s, w, rs, r, m, b), Off(hd, st) + Len(bs) < LogLen,
           \A i \in Slots : Off(i, hd) >= Len(bs) => lg2[i] = lg[i],
           HalfLaid(lg2, hd, bs, s, cs), ~Laid(lg2, hd, bs), lg2[Ahead(hd, Len(bs) - 1)] = bs[Len(bs)] => cs = TRUE
    PROVE  Outcome(lg2, cs, g2[Turns], s, hm, wt)
<1>1. g = After(lg, cs, st, sq) /\ g2 = After(lg2, cs, st, sq) /\ st \in Slots
  BY DEF Running
<1>2. PICK T, A, G : Boundary(g, lg, st, hd, s, T, A, G) /\ Holds(A, G, lg, hm, wt)
  BY <1>1 DEF InLog
<1>3. T \in Nat /\ T <= Off(hd, st) /\ Bound(g[T], hd, s, A, G) /\ Before(A, G, s) /\ A \in Seq(Items) /\ Valued(A, lg)
  BY <1>2 DEF Boundary, Before, Valued
<1>4. /\ m \in Nat /\ r \in {0, 1} /\ r \in Nat /\ Len(bs) = r + Body(m) + 1 /\ Body(m) \in Nat /\ (m = 0 => Body(m) = 0)
      /\ (m # 0 => Body(m) = m + 1)
      /\ Len(bs) \in Nat /\ LogLen \in Nat /\ Off(hd, st) \in 0 .. LogLen - 1
  <2>1. m \in Nat /\ r \in {0, 1} /\ Len(bs) = r + Body(m) + 1
    BY DEF Shaped
  <2>2. Body(m) \in Nat /\ (m = 0 => Body(m) = 0) /\ (m # 0 => Body(m) = m + 1)
    BY <2>1 DEF Body
  <2>3. LogLen \in Nat /\ Off(hd, st) \in 0 .. LogLen - 1
    BY <1>1, AheadOff, JournalAssumption
  <2>4. r \in Nat /\ Len(bs) \in Nat
    BY <2>1, <2>2
  <2> QED
    BY <2>1, <2>2, <2>3, <2>4
<1>5. PICK n \in Nat : n = Len(bs) /\ Off(hd, st) + n < LogLen
  BY <1>4
<1>6. (\A t \in Nat : t <= T => g2[t] = g[t]) /\ SameFor(A, lg, lg2)
  BY <1>2, <1>5, SamePrefix DEF SameFor
<1>7. Bound(g2[T], hd, s, A, G)
  BY <1>3, <1>6
<1>8. Turns = LogLen + 2 /\ T < LogLen /\ T + r < LogLen /\ Len(bs) < LogLen
  <2>1. Turns = LogLen + 2
    BY RunIs
  <2> QED
    BY <1>3, <1>4, <2>1
<1>9. ASSUME Over(g2[Turns], s, A, G) PROVE Outcome(lg2, cs, g2[Turns], s, hm, wt)
  <2>1. CASE g2[Turns].refused = TRUE
    BY <2>1 DEF Outcome, Refuses
  <2>2. CASE Ended(g2[Turns], s, A, G)
    BY <1>2, <1>3, <1>6, <2>2, SettlesFrom DEF Outcome
  <2> QED
    BY <1>9, <2>1, <2>2 DEF Over
<1>10. \A j \in 1 .. Len(bs) : Half(lg2[Ahead(hd, j - 1)], bs[j], s, cs) /\ bs[j] \in Blocks
  BY DEF HalfLaid, Shaped
<1>11. CASE r = 1 /\ lg2[hd] # Revoke(s, rs)
  <2>1. 1 \in 1 .. Len(bs) /\ 1 - 1 = 0 /\ Ahead(hd, 0) = hd /\ bs[1] = Revoke(s, rs)
    BY <1>4, <1>11, AheadNone DEF Shaped
  <2>2. PICK x : x = Revoke(s, rs) /\ x \in Blocks /\ Half(lg2[hd], x, s, cs) /\ lg2[hd] # x
    BY <1>10, <1>11, <2>1
  <2>3. Leading(x, s) /\ Lacks(lg2, hd, x, s, cs)
    BY <2>2 DEF Revoke, Leading, Lacks
  <2>4. Part(g2[T], hd, s, A, G, <<>>, {}) /\ T < Turns
    BY <1>3, <1>4, <1>7, <1>8 DEF Bound
  <2>5. Over(g2[Turns], s, A, G)
    BY <1>3, <2>3, <2>4, HalfHeader
  <2> QED
    BY <1>9, <2>5
<1>12. CASE r = 1 => lg2[hd] = Revoke(s, rs)
  <2>1. Part(g2[T + r], Ahead(hd, r), s, A, G, <<>>, rs)
    BY <1>3, <1>7, <1>8, <1>12, RevokeStage
  <2>2. PICK T1 \in Nat : T1 = T + r /\ T1 < LogLen /\ T1 <= LogLen /\ T1 < Turns
    BY <1>3, <1>4, <1>8
  <2>3. CASE m # 0 /\ lg2[Ahead(hd, r)] # Desc(s, TagsOf(w, m, b))
    <3>1. r + 1 \in 1 .. Len(bs) /\ (r + 1) - 1 = r /\ bs[r + 1] = Desc(s, TagsOf(w, m, b))
      BY <1>4, <2>3 DEF Shaped, TagsOf
    <3>2. PICK x : /\ x = Desc(s, TagsOf(w, m, b)) /\ x \in Blocks
                   /\ Half(lg2[Ahead(hd, r)], x, s, cs) /\ lg2[Ahead(hd, r)] # x
      BY <1>10, <2>3, <3>1
    <3>3. Leading(x, s) /\ Lacks(lg2, Ahead(hd, r), x, s, cs)
      BY <3>2 DEF Desc, Leading, Lacks
    <3>4. Over(g2[Turns], s, A, G)
      <4>1. Part(g2[T1], Ahead(hd, r), s, A, G, <<>>, rs) /\ T1 < Turns
        BY <2>1, <2>2
      <4> QED
        BY <3>3, <4>1, HalfHeader
    <3> QED
      BY <1>9, <3>4
  <2>4. CASE m # 0 => lg2[Ahead(hd, r)] = Desc(s, TagsOf(w, m, b))
    <3>1. PICK d : d = (IF m = 0 THEN 0 ELSE 1)
      OBVIOUS
    <3>2. Len(bs) <= LogLen /\ Part(g2[T1], Ahead(hd, r), s, A, G, <<>>, rs)
      BY <1>4, <1>8, <2>1, <2>2
    <3>3. Part(g2[T1 + d], Ahead(hd, r + Body(m)), s, A, G, ItemsOf(hd, s, w, r, m, b), rs)
      BY <2>2, <2>4, <3>1, <3>2, DescStage
    <3>4. PICK T2 \in Nat : T2 = T1 + d /\ T2 < LogLen /\ T2 < Turns
      <4>1. d \in {0, 1} /\ d <= Body(m)
        BY <1>4, <3>1
      <4>2. T + r + d < LogLen
        BY <1>3, <1>4, <4>1
      <4>3. T1 + d \in Nat /\ T1 + d < LogLen /\ T1 + d < Turns
        BY <1>3, <1>4, <1>8, <2>2, <4>1, <4>2
      <4> QED
        BY <4>3
    <3>5. PICK e \in Nat : e = r + Body(m) /\ e + 1 = Len(bs) /\ e + 1 \in 1 .. Len(bs) /\ (e + 1) - 1 = e /\ Len(bs) - 1 = e
      BY <1>4
    <3>6. bs[e + 1] = Commit(s)
      BY <3>5 DEF Shaped
    <3>7. PICK it : it = ItemsOf(hd, s, w, r, m, b) /\ Part(g2[T2], Ahead(hd, e), s, A, G, it, rs)
      BY <3>3, <3>4, <3>5
    <3>8. Half(lg2[Ahead(hd, e)], Commit(s), s, cs)
      BY <1>10, <3>5, <3>6
    <3>9. CASE lg2[Ahead(hd, e)] # Commit(s)
      <4>1. Ended(g2[Turns], s, A, G)
        BY <3>4, <3>7, <3>8, <3>9, HalfCommit
      <4> QED
        BY <1>9, <4>1 DEF Over
    <3>10. CASE lg2[Ahead(hd, e)] = Commit(s)
      <4>1. cs = TRUE
        BY <3>5, <3>6, <3>10
      <4>2. PICK j \in 1 .. Len(bs) : lg2[Ahead(hd, j - 1)] # bs[j]
        BY DEF Laid
      <4>3. j # e + 1
        BY <3>5, <3>6, <3>10, <4>2
      <4>4. ~(r = 1 /\ j = 1)
        <5>1. SUFFICES ASSUME r = 1, j = 1 PROVE FALSE
          OBVIOUS
        <5>2. bs[1] = Revoke(s, rs) /\ Ahead(hd, 0) = hd /\ j - 1 = 0
          BY <5>1, AheadNone DEF Shaped
        <5> QED
          BY <1>12, <4>2, <5>1, <5>2
      <4>5. ~(m # 0 /\ j = r + 1)
        <5>1. SUFFICES ASSUME m # 0, j = r + 1 PROVE FALSE
          OBVIOUS
        <5>2. bs[r + 1] = Desc(s, TagsOf(w, m, b)) /\ j - 1 = r
          BY <1>4, <5>1 DEF Shaped, TagsOf
        <5> QED
          BY <2>4, <4>2, <5>1, <5>2
      <4>6. m # 0 /\ j - (r + 1) \in 1 .. m
        <5>1. CASE m = 0
          <6>1. e = r
            BY <1>4, <3>5, <5>1
          <6>2. j \in 1 .. r + 1 /\ j # r + 1
            BY <3>5, <4>3, <6>1
          <6> QED
            BY <1>4, <4>4, <6>2
        <5>2. CASE m # 0
          <6>1. e = r + m + 1
            BY <1>4, <3>5, <5>2
          <6>2. j \in 1 .. r + m + 2 /\ j # r + m + 2 /\ j # r + 1
            BY <1>4, <3>5, <4>3, <4>5, <5>2, <6>1
          <6> QED
            BY <1>4, <4>4, <5>2, <6>2
        <5> QED
          BY <5>1, <5>2
      <4>7. PICK k \in 1 .. m : k = j - (r + 1)
        BY <4>6
      <4>8. j = r + 1 + k /\ j - 1 = r + k
        BY <1>4, <4>7
      <4>9. bs[j] = Logged(w[b[k]])
        BY <4>6, <4>8 DEF Shaped
      <4>10. lg2[Ahead(hd, r + k)] # Logged(w[b[k]])
        BY <4>2, <4>8, <4>9
      <4>11. Stale(lg2[Ahead(hd, e + 1)], s)
        <5>1. PICK i \in Slots : i = Ahead(hd, e + 1)
          BY <3>5, AheadSlot
        <5>2. e + 1 \in 0 .. LogLen - 1
          BY <1>4, <1>8, <3>5
        <5>3. Off(i, hd) = e + 1
          BY <5>1, <5>2, OffAhead
        <5>4. lg2[i] = lg[i]
          BY <1>4, <3>5, <5>3
        <5> QED
          BY <5>1, <5>4 DEF Older, Stale
      <4>12. Refuses(lg2, g2[Turns], cs)
        <5>1. AtCommit(g2, lg2, T2, hd, e, s, A, G, it, rs) /\ NoData(lg2, hd, w, r, b, k)
          BY <3>7, <3>10, <4>10, <4>11 DEF AtCommit, NoData
        <5> QED
          BY <1>3, <1>8, <3>4, <3>5, <3>7, <4>1, <5>1, BadTx
      <4> QED
        BY <4>12 DEF Outcome
    <3> QED
      BY <3>9, <3>10
  <2> QED
    BY <2>3, <2>4
<1> QED
  BY <1>11, <1>12

\* The log lg2 is lg with block i gone bad.
BadAt(lg, lg2, i) ==
    lg[i].k \in {"desc", "revoke", "data"} /\ lg2 = [lg EXCEPT ![i] = Spoilt(lg[i])]

\* The blocks of the log have checksums.
Checks(cs) == cs = TRUE

\* What a damaged block is.
LEMMA BadIs ==
    ASSUME NEW lg \in Logs, NEW i \in Slots, NEW lg2, BadAt(lg, lg2, i)
    PROVE  /\ lg2 \in Logs /\ \A j \in Slots : j # i => lg2[j] = lg[j]
           /\ lg2[i].k = lg[i].k /\ Bytes(lg2, i) = Torn
           /\ lg[i].k \in {"desc", "revoke"} => lg2[i].seq = lg[i].seq /\ lg2[i].ok = FALSE
<1>1. PICK x \in Blocks : x = lg[i] /\ x.k \in {"desc", "revoke", "data"}
  BY DEF Logs, BadAt
<1>2. PICK h : h = Spoilt(x)
  OBVIOUS
<1>3. lg2 = [lg EXCEPT ![i] = h] /\ lg2[i] = h
  BY <1>1, <1>2 DEF BadAt, Logs
<1>4. CASE x.k = "data"
  <2>1. x \in Datas
    BY <1>1, <1>4, BlockKinds
  <2>2. h = [x EXCEPT !.val = Torn]
    BY <1>2, <1>4 DEF Spoilt
  <2>3. h \in Blocks /\ h.k = "data" /\ h.val = Torn
    BY <2>1, <2>2 DEF Blocks, Datas
  <2> QED
    BY <1>1, <1>3, <1>4, <2>3 DEF Logs, Bytes
<1>5. CASE x.k = "desc"
  <2>1. x \in Descs
    BY <1>1, <1>5, BlockKinds
  <2>2. h = [x EXCEPT !.ok = FALSE]
    BY <1>2, <1>5 DEF Spoilt
  <2>3. h \in Blocks /\ h.k = "desc" /\ h.ok = FALSE /\ h.seq = x.seq
    BY <2>1, <2>2 DEF Blocks, Descs
  <2> QED
    BY <1>1, <1>3, <1>5, <2>3 DEF Logs, Bytes
<1>6. CASE x.k = "revoke"
  <2>1. x \in Revokes
    BY <1>1, <1>6, BlockKinds
  <2>2. h = [x EXCEPT !.ok = FALSE]
    BY <1>2, <1>6 DEF Spoilt
  <2>3. h \in Blocks /\ h.k = "revoke" /\ h.ok = FALSE /\ h.seq = x.seq
    BY <2>1, <2>2 DEF Blocks, Revokes
  <2> QED
    BY <1>1, <1>3, <1>6, <2>3 DEF Logs, Bytes
<1> QED
  BY <1>1, <1>4, <1>5, <1>6

\* The scan of a log with a bad block is refused when it takes the block for a header, and
\* goes as before when it does not.
LEMMA BadRun ==
    ASSUME NEW lg, NEW lg2, NEW cs, NEW st, NEW sq, NEW g, NEW g2, Running(g, lg, cs, st, sq), Running(g2, lg2, cs, st, sq),
           Checks(cs), NEW i \in Slots, BadAt(lg, lg2, i)
    PROVE  g2[Turns] = g[Turns] \/ g2[Turns].refused = TRUE
<1>1. /\ Turns \in Nat /\ (\A t \in Nat : t <= Turns => g[t] \in States)
      /\ (\A t \in Nat : t < Turns => g[t + 1] = ScanBlock(lg, cs, g[t]))
  BY RunIs
<1>2. \A t \in Nat : t < Turns => g2[t + 1] = ScanBlock(lg2, cs, g2[t])
  BY RunIs
<1>3. g2[0] = g[0]
  <2>1. g = After(lg, cs, st, sq) /\ g2 = After(lg2, cs, st, sq)
    BY DEF Running
  <2>2. g[0] = Begin(st, sq)
    BY <2>1, AfterIs
  <2>3. g2[0] = Begin(st, sq)
    BY <2>1, AfterIs
  <2> QED
    BY <2>2, <2>3
<1>4. lg \in Logs
  BY DEF Running
<1>5. /\ \A j \in Slots : j # i => lg2[j] = lg[j]
      /\ lg2[i].k = lg[i].k /\ lg[i].k \in {"desc", "revoke", "data"}
      /\ lg[i].k \in {"desc", "revoke"} => lg2[i].seq = lg[i].seq /\ lg2[i].ok = FALSE
  <2>1. lg[i].k \in {"desc", "revoke", "data"}
    BY DEF BadAt
  <2> QED
    BY <1>4, <2>1, BadIs
<1> DEFINE Bad == {t \in 0 .. Turns : g2[t] # g[t]}
<1>6. CASE Bad = {}
  <2>1. Turns \in 0 .. Turns
    BY <1>1
  <2> QED
    BY <1>6, <2>1
<1>7. CASE Bad # {}
  <2>1. Bad \subseteq Nat
    BY <1>1
  <2>2. PICK n \in Bad : \A y \in Bad : n <= y
    <3> HIDE DEF Bad
    <3> QED
      BY <1>7, <2>1, LeastNatural
  <2>3. n \in 0 .. Turns /\ g2[n] # g[n] /\ n # 0
    BY <1>3, <2>2
  <2>4. PICK j : j = n - 1
    OBVIOUS
  <2>5. j \in Nat /\ j < Turns /\ j \notin Bad /\ j \in 0 .. Turns /\ j + 1 = n
    BY <1>1, <2>2, <2>3, <2>4
  <2>6. PICK p : p = g[j] /\ g2[j] = p /\ p \in States /\ p.at \in Slots
    <3>1. g2[j] = g[j] /\ j <= Turns
      BY <1>1, <2>5
    <3> QED
      BY <1>1, <2>5, <3>1 DEF States
  <2>7. ScanBlock(lg2, cs, p) # ScanBlock(lg, cs, p)
    BY <1>1, <1>2, <2>3, <2>5, <2>6
  <2>8. p.at = i
    <3>1. SUFFICES ASSUME p.at # i PROVE FALSE
      OBVIOUS
    <3>2. lg2[p.at] = lg[p.at]
      BY <1>5, <2>6, <3>1
    <3>3. ScanBlock(lg2, cs, p) = ScanBlock(lg, cs, p)
      BY <3>2 DEF ScanBlock
    <3> QED
      BY <2>7, <3>3
  <2>9. PICK x, h : x = lg[p.at] /\ h = lg2[p.at] /\ h.k = x.k /\ x.k \in {"desc", "revoke", "data"}
          /\ (x.k \in {"desc", "revoke"} => h.seq = x.seq /\ h.ok = FALSE)
    BY <1>5, <2>8
  <2>10. p.going
    <3>1. SUFFICES ASSUME ~p.going PROVE FALSE
      OBVIOUS
    <3>2. ScanBlock(lg2, cs, p) = p /\ ScanBlock(lg, cs, p) = p
      BY <3>1, TurnIs
    <3> QED
      BY <2>7, <3>2
  <2>11. x.k # "data"
    <3>1. SUFFICES ASSUME x.k = "data" PROVE FALSE
      OBVIOUS
    <3>2. x.k \in {"none", "data"} /\ h.k \in {"none", "data"}
      BY <2>9, <3>1
    <3>4. ScanBlock(lg2, cs, p) = Stopped(p)
      BY <2>9, <2>10, <3>2, TurnIs
    <3>5. ScanBlock(lg, cs, p) = Stopped(p)
      BY <2>9, <2>10, <3>2, TurnIs
    <3> QED
      BY <2>7, <3>4, <3>5
  <2>12. x.k \in Headers /\ h.k \in Headers /\ x.k \in {"desc", "revoke"} /\ h.k \in {"desc", "revoke"}
         /\ h.seq = x.seq /\ h.ok = FALSE
    BY <2>9, <2>11 DEF Headers
  <2>13. h.seq = p.seq
    <3>1. SUFFICES ASSUME h.seq # p.seq PROVE FALSE
      OBVIOUS
    <3>2. x.k \in Headers /\ x.seq # p.seq /\ h.k \in Headers /\ h.seq # p.seq
      BY <2>12, <3>1
    <3>4. ScanBlock(lg2, cs, p) = Stopped(p)
      BY <2>9, <2>10, <3>2, TurnIs
    <3>5. ScanBlock(lg, cs, p) = Stopped(p)
      BY <2>9, <2>10, <3>2, TurnIs
    <3> QED
      BY <2>7, <3>4, <3>5
  <2>14. Fails(cs, h)
    BY <2>12 DEF Fails, Checks
  <2>15. p.going = TRUE
    BY <2>6, <2>10 DEF States
  <2>16. p = g2[j]
    BY <2>6
  <2>17. g2[Turns].refused = TRUE
    <3>1. p = g2[j] /\ p.going = TRUE /\ h = lg2[p.at] /\ h.seq = p.seq /\ Fails(cs, h) /\ j \in Nat /\ j < Turns
      BY <2>5, <2>9, <2>13, <2>14, <2>15, <2>16
    <3>2. h.k \in {"desc", "revoke"}
      BY <2>12
    <3> HIDE DEF Bad
    <3> QED
      BY <3>1, <3>2, RefuseTurn
  <2> QED
    BY <2>17
<1> QED
  BY <1>6, <1>7

\* A bad block is found out, or is none that matters: a replay is refused as it was before,
\* or holds what it held before.
LEMMA BadKeeps ==
    ASSUME NEW lg, NEW lg2, NEW cs, NEW st, NEW sq, NEW g, NEW g2, Running(g, lg, cs, st, sq), Running(g2, lg2, cs, st, sq),
           Checks(cs), NEW i \in Slots, BadAt(lg, lg2, i), NEW nx, NEW hm, NEW wt, Outcome(lg, cs, g[Turns], nx, hm, wt)
    PROVE  Outcome(lg2, cs, g2[Turns], nx, hm, wt)
<1>1. g2[Turns] = g[Turns] \/ g2[Turns].refused = TRUE
  BY BadRun
<1>2. CASE g2[Turns].refused = TRUE
  BY <1>2 DEF Outcome, Refuses, Checks
<1>3. CASE g2[Turns] = g[Turns]
  <2>1. lg \in Logs
    BY DEF Running
  <2>2. (\A j \in Slots : j # i => lg2[j] = lg[j]) /\ Bytes(lg2, i) = Torn
    BY <2>1, BadIs
  <2>3. PICK p \in States : p = g[Turns] /\ g2[Turns] = p /\ Outcome(lg, cs, p, nx, hm, wt)
    <3>1. Turns \in Nat /\ (\A t \in Nat : t <= Turns => g[t] \in States)
      BY RunIs
    <3>2. g[Turns] \in States
      BY <3>1
    <3> QED
      BY <1>3, <3>2
  <2>4. PICK A, G : A = p.all /\ G = p.gone /\ A \in Seq(Items)
    BY DEF States
  <2>5. \A j \in DOMAIN A : A[j].at \in Slots /\ A[j].tag.csum # Torn
    <3> SUFFICES ASSUME NEW j \in DOMAIN A PROVE A[j].at \in Slots /\ A[j].tag.csum # Torn
      OBVIOUS
    <3>1. A[j].at \in Slots /\ A[j].tag.csum \in Values \cup {Zeroed}
      BY <2>4, ItemAt
    <3> QED
      BY <3>1, JournalAssumption
  <2>6. \A j \in DOMAIN A : A[j].at # i => Bytes(lg2, A[j].at) = Bytes(lg, A[j].at)
    BY <2>2, <2>5 DEF Bytes
  <2>7. CASE \E j \in DOMAIN A : ~IsRevoked(G, A[j]) /\ (A[j].at = i \/ Bytes(lg, A[j].at) # A[j].tag.csum)
    <3>1. PICK j \in DOMAIN A : ~IsRevoked(G, A[j]) /\ (A[j].at = i \/ Bytes(lg, A[j].at) # A[j].tag.csum)
      BY <2>7
    <3>2. Bytes(lg2, A[j].at) # A[j].tag.csum
      BY <2>2, <2>5, <2>6, <3>1
    <3> QED
      BY <2>3, <2>4, <3>1, <3>2 DEF Outcome, Refuses, Checks
  <2>8. CASE p.refused = TRUE
    BY <2>3, <2>8 DEF Outcome, Refuses, Checks
  <2>9. CASE ~(p.refused = TRUE) /\ ~\E j \in DOMAIN A : ~IsRevoked(G, A[j]) /\ (A[j].at = i \/ Bytes(lg, A[j].at) # A[j].tag.csum)
    <3>1. ~Refuses(lg, p, cs)
      BY <2>4, <2>9 DEF Refuses, Checks
    <3>2. Settles(lg, p, nx, hm, wt)
      BY <2>3, <3>1 DEF Outcome
    <3>3. \A j \in DOMAIN A : ~IsRevoked(G, A[j]) => Unescaped(lg2, A[j]) = Unescaped(lg, A[j])
      BY <2>6, <2>9 DEF Unescaped
    <3>4. Holds(A, G, lg2, hm, wt)
      <4> SUFFICES ASSUME NEW x \in Home
                   PROVE  wt[x] = IF Hits(A, G, x) = {} THEN hm[x] ELSE Unescaped(lg2, A[Max(Hits(A, G, x))])
        BY DEF Holds
      <4>1. wt[x] = IF Hits(A, G, x) = {} THEN hm[x] ELSE Unescaped(lg, A[Max(Hits(A, G, x))])
        BY <2>4, <3>2 DEF Settles, Holds
      <4>2. CASE Hits(A, G, x) # {}
        <5>1. PICK k : k = Max(Hits(A, G, x)) /\ k \in Hits(A, G, x)
          BY <2>4, <4>2, HitsMax
        <5>2. k \in DOMAIN A /\ ~IsRevoked(G, A[k])
          BY <5>1 DEF Hits
        <5> QED
          BY <3>3, <4>1, <4>2, <5>1, <5>2
      <4> QED
        BY <4>1, <4>2
    <3>5. Settles(lg2, p, nx, hm, wt)
      BY <2>4, <3>2, <3>3, <3>4 DEF Settles
    <3> QED
      BY <2>3, <3>5 DEF Outcome
  <2> QED
    BY <2>7, <2>8, <2>9
<1> QED
  BY <1>1, <1>2, <1>3

\* Where the transactions that may have to be replayed begin, or will.
From    == IF start = 0 THEN head ELSE start
FromSeq == IF start = 0 THEN next ELSE seq

\* The writes and revokes of a transaction Linux may make.
LEMMA TxIs ==
    ASSUME NEW tx \in Txs, NEW w, NEW rs, w = tx[1], rs = tx[2]
    PROVE  /\ DOMAIN w \in SUBSET Home /\ w \in [DOMAIN w -> Values] /\ Writes(w)
           /\ rs \in SUBSET Home /\ DOMAIN w \cap rs = {}
<1>1. /\ tx \in (UNION {[S -> Values] : S \in SUBSET Home}) \X (SUBSET Home)
      /\ DOMAIN tx[1] \cap tx[2] = {}
  BY DEF Txs
<1>2. w \in UNION {[S -> Values] : S \in SUBSET Home} /\ rs \in SUBSET Home /\ DOMAIN w \cap rs = {}
  BY <1>1
<1>3. PICK S \in SUBSET Home : w \in [S -> Values]
  BY <1>2
<1>4. DOMAIN w = S
  BY <1>3
<1> QED
  BY <1>2, <1>3, <1>4 DEF Writes

\* The headers of a transaction's blocks have its number.
LEMMA ShapedSeq ==
    ASSUME NEW s, NEW w, NEW rs, NEW bs, NEW r, NEW m, NEW b, Shaped(bs, s, w, rs, r, m, b)
    PROVE  \A j \in 1 .. Len(bs) : bs[j] \in Blocks /\ bs[j].k # "none" /\ (bs[j].k \in Headers => bs[j].seq = s)
<1>1. /\ m \in Nat /\ r \in {0, 1} /\ Len(bs) = r + Body(m) + 1 /\ bs \in Seq(Blocks)
      /\ r = 1 => bs[1] = Revoke(s, rs)
      /\ m # 0 => bs[r + 1] = Desc(s, [i \in 1 .. m |-> Tag(b[i], w[b[i]])])
      /\ m # 0 => \A i \in 1 .. m : bs[r + 1 + i] = Logged(w[b[i]])
      /\ bs[Len(bs)] = Commit(s)
  BY DEF Shaped
<1>2. Body(m) \in Nat /\ (m = 0 => Body(m) = 0) /\ (m # 0 => Body(m) = m + 1)
  BY <1>1 DEF Body
<1> SUFFICES ASSUME NEW j \in 1 .. Len(bs)
             PROVE  bs[j] \in Blocks /\ bs[j].k # "none" /\ (bs[j].k \in Headers => bs[j].seq = s)
  OBVIOUS
<1>3. bs[j] \in Blocks
  BY <1>1
<1>4. CASE j = Len(bs)
  BY <1>1, <1>3, <1>4 DEF Commit
<1>5. CASE r = 1 /\ j = 1
  BY <1>1, <1>3, <1>5 DEF Revoke
<1>6. CASE m # 0 /\ j = r + 1
  BY <1>1, <1>3, <1>6 DEF Desc
<1>7. CASE m # 0 /\ \E i \in 1 .. m : j = r + 1 + i
  <2>1. PICK i \in 1 .. m : bs[j] = Logged(w[b[i]])
    BY <1>1, <1>7
  <2>2. bs[j].k = "data"
    BY <2>1 DEF Logged
  <2> QED
    BY <1>3, <2>2 DEF Headers
<1>8. j = Len(bs) \/ (r = 1 /\ j = 1) \/ (m # 0 /\ j = r + 1) \/ (m # 0 /\ \E i \in 1 .. m : j = r + 1 + i)
  <2>1. CASE m = 0
    BY <1>1, <1>2, <2>1
  <2>2. CASE m # 0
    <3>1. j \in 1 .. r + m + 2 /\ Len(bs) = r + m + 2
      BY <1>1, <1>2, <2>2
    <3>2. CASE j > r + 1 /\ j < r + m + 2
      <4>1. j - (r + 1) \in 1 .. m /\ j = r + 1 + (j - (r + 1))
        BY <1>1, <3>1, <3>2
      <4> QED
        BY <2>2, <4>1
    <3>3. CASE ~(j > r + 1 /\ j < r + m + 2)
      BY <1>1, <2>2, <3>1, <3>3
    <3> QED
      BY <3>2, <3>3
  <2> QED
    BY <2>1, <2>2
<1> QED
  BY <1>4, <1>5, <1>6, <1>7, <1>8

\* A block written in part keeps its kind and its number.
LEMMA SpoiltIs ==
    ASSUME NEW x \in Blocks, x.k # "none"
    PROVE  Spoilt(x) \in Blocks /\ Spoilt(x).k = x.k /\ (x.k \in Headers => Spoilt(x).seq = x.seq)
<1>1. CASE x.k = "data"
  <2>1. x \in Datas
    BY <1>1, BlockKinds
  <2> QED
    BY <1>1, <2>1 DEF Spoilt, Blocks, Datas, Headers
<1>2. CASE x.k = "desc"
  <2>1. x \in Descs
    BY <1>2, BlockKinds
  <2> QED
    BY <1>2, <2>1 DEF Spoilt, Blocks, Descs
<1>3. CASE x.k = "revoke"
  <2>1. x \in Revokes
    BY <1>3, BlockKinds
  <2> QED
    BY <1>3, <2>1 DEF Spoilt, Blocks, Revokes
<1>4. CASE x.k = "commit"
  <2>1. x \in Commits
    BY <1>4, BlockKinds
  <2> QED
    BY <1>4, <2>1 DEF Spoilt, Blocks, Commits
<1> QED
  BY <1>1, <1>2, <1>3, <1>4, BlockKinds DEF Headers

\* A log in which no transaction is in use.
LEMMA NothingInLog ==
    ASSUME NEW lg, NEW cs, NEW hd, NEW nx, NEW g, Running(g, lg, cs, hd, nx), 2 * Age(nx) < SeqSpan, NEW wt
    PROVE  InLog(lg, cs, hd, nx, hd, nx, wt, wt)
<1>1. g = After(lg, cs, hd, nx) /\ hd \in Slots /\ nx \in Seqs
  BY DEF Running
<1>2. Off(hd, hd) = 0
  <2>1. hd \in 1 .. LogLen /\ Off(hd, hd) = IF hd <= hd THEN hd - hd ELSE hd - hd + LogLen
    BY <1>1, OffIs DEF Slots
  <2> QED
    BY <2>1
<1>3. Bound(g[0], hd, nx, <<>>, {})
  BY RunIs
<1>4. Before(<<>>, {}, nx)
  BY <1>1 DEF Before
<1>5. Boundary(g, lg, hd, hd, nx, 0, <<>>, {})
  BY <1>2, <1>3, <1>4 DEF Boundary
<1>6. \A x \in Home : Hits(<<>>, {}, x) = {}
  BY DEF Hits
<1>7. Holds(<<>>, {}, lg, wt, wt)
  BY <1>6 DEF Holds
<1> QED
  BY <1>1, <1>5, <1>7 DEF InLog

-----------------------------------------------------------------------------

\* The gate of Ext4FileSystem.create.
Gate ==
    /\ WritableMeansEmptyLog
    /\ ~flag => start = 0
    /\ pc = "clearFlag" => start = 0
    /\ pc = "linux" => flag

\* The tags td are what is left to copy of a scan that ended as p.
Copying(p, td, hm, wt) ==
    /\ \A i \in DOMAIN td : i \in DOMAIN p.all /\ ~IsRevoked(p.gone, p.all[i]) /\ td[i] = p.all[i]
    /\ \A i \in DOMAIN td : \A j \in DOMAIN p.all : j >= i /\ ~IsRevoked(p.gone, p.all[j]) => j \in DOMAIN td
    /\ \A x \in Home : (\A i \in DOMAIN td : td[i].tag.block # x) => hm[x] = wt[x]

\* Sequence numbers do not run into one another.
Numbered ==
    /\ pc = "linux" => Older(log, next) /\ (start = 0 => seq = next)
    /\ pc # "linux" /\ start # 0 => NotNewer(log, next)
    /\ start = 0 => Older(log, seq) /\ Age(seq) <= 2 * txs
    /\ start # 0 => Age(next) + 1 <= 2 * txs

\* An empty log means that the home blocks are what was committed; while Linux has the drive its log holds the rest; and from then on the scan refuses or finds it.
Recoverable ==
    /\ start = 0 => home = want
    /\ pc = "linux" => InLog(log, features.csum, From, FromSeq, head, next, home, want)
    /\ pc # "linux" /\ start # 0 => Outcome(log, features.csum, Final(log, features.csum, start, seq), next, home, want)

\* A replay has passed the checks, and what it has left to copy is a final part of the kept tags.
Replaying ==
    /\ pc # "replay" => DOMAIN todo = {}
    /\ pc = "replay" =>
         /\ start # 0 /\ end = next
         /\ Settles(log, Final(log, features.csum, start, seq), next, home, want)
         /\ Copying(Final(log, features.csum, start, seq), todo, home, want)

\* The inductive invariant.
Journalled == TypeOK /\ log \in Logs /\ Gate /\ Numbered /\ Recoverable /\ Replaying

\* The features of the volume.
LEMMA FeaturesAre == ASSUME TypeOK PROVE features.csum \in BOOLEAN /\ features.async \in BOOLEAN /\ (features.async => features.csum)
BY JournalAssumption DEF TypeOK

\* The scan of a log that is not empty.
LEMMA Scans ==
    ASSUME TypeOK, log \in Logs, start # 0, NEW g, g = After(log, features.csum, start, seq)
    PROVE  Running(g, log, features.csum, start, seq) /\ Final(log, features.csum, start, seq) = g[Turns]
           /\ g[Turns] \in States
<1>1. start \in Slots /\ seq \in Seqs
  BY JournalAssumption DEF TypeOK, Slots, Seqs
<1>2. Running(g, log, features.csum, start, seq)
  BY <1>1, FeaturesAre DEF Running
<1>3. g[Turns] \in States
  <2>1. Turns \in Nat /\ (\A t \in Nat : t <= Turns => g[t] \in States)
    BY <1>2, RunIs
  <2> QED
    BY <2>1
<1> QED
  BY <1>2, <1>3 DEF Final

\* The scan Linux's next transaction will be found by.
LEMMA LinuxScans ==
    ASSUME TypeOK, log \in Logs, pc = "linux", Numbered, NEW g, g = After(log, features.csum, From, FromSeq)
    PROVE  /\ Running(g, log, features.csum, From, FromSeq) /\ From \in Slots /\ FromSeq \in Seqs /\ Used = Off(head, From)
           /\ Age(next) \in Nat /\ Age(next) <= 2 * txs /\ (txs < MaxTx => 2 * (Age(next) + 1) < SeqSpan) /\ 2 * Age(next) < SeqSpan
<1>1. /\ start \in 0 .. LogLen /\ head \in Slots /\ seq \in Seqs /\ next \in Seqs
      /\ txs \in Nat /\ txs <= MaxTx /\ MaxTx \in Nat /\ SeqSpan \in Nat /\ SeqSpan > 2 * (2 * MaxTx + 2)
  BY JournalAssumption DEF TypeOK, Seqs
<1>2. From \in Slots /\ FromSeq \in Seqs
  BY <1>1, JournalAssumption DEF From, FromSeq, Slots
<1>3. Running(g, log, features.csum, From, FromSeq)
  BY <1>2, FeaturesAre DEF Running
<1>4. Age(next) \in Nat /\ Age(seq) \in Nat
  BY <1>1, AgeIs DEF Seqs
<1>5. Age(next) <= 2 * txs
  <2>1. CASE start = 0
    BY <2>1 DEF Numbered
  <2>2. CASE start # 0
    <3>1. Age(next) + 1 <= 2 * txs
      BY <2>2 DEF Numbered
    <3> QED
      BY <1>1, <1>4, <3>1
  <2> QED
    BY <2>1, <2>2
<1>6. (txs < MaxTx => 2 * (Age(next) + 1) < SeqSpan) /\ 2 * Age(next) < SeqSpan
  BY <1>1, <1>4, <1>5
<1>7. Used = Off(head, From)
  <2>1. CASE start = 0
    <3>1. head \in 1 .. LogLen /\ Off(head, head) = IF head <= head THEN head - head ELSE head - head + LogLen
      BY <1>1, OffIs DEF Slots
    <3>2. Off(head, head) = 0
      BY <3>1
    <3> QED
      BY <2>1, <3>2 DEF Used, From
  <2>2. CASE start # 0
    BY <2>2 DEF Used, From, Off
  <2> QED
    BY <2>1, <2>2
<1> QED
  BY <1>2, <1>3, <1>4, <1>5, <1>6, <1>7

\* Linux commits a transaction: the scan goes on past it.
LEMMA CommitStep ==
    ASSUME Journalled, NEW tx \in Txs, NEW v \in Values, LinuxCommit(tx[1], tx[2], v)
    PROVE  Journalled'
<1>1. TypeOK /\ log \in Logs /\ Gate /\ Numbered /\ Recoverable /\ Replaying /\ pc = "linux" /\ txs < MaxTx
  BY DEF Journalled, LinuxCommit
<1>2. PICK w, rs : w = tx[1] /\ rs = tx[2]
  OBVIOUS
<1>3. DOMAIN w \in SUBSET Home /\ w \in [DOMAIN w -> Values] /\ Writes(w) /\ rs \in SUBSET Home /\ DOMAIN w \cap rs = {}
  BY <1>2, TxIs
<1>4. PICK cs, st, sq, g : cs = features.csum /\ st = From /\ sq = FromSeq /\ g = After(log, features.csum, From, FromSeq)
  OBVIOUS
<1>5. /\ Running(g, log, cs, st, sq) /\ st \in Slots /\ sq \in Seqs /\ Used = Off(head, st)
      /\ Age(next) \in Nat /\ Age(next) <= 2 * txs /\ 2 * (Age(next) + 1) < SeqSpan
  BY <1>1, <1>4, LinuxScans
<1>6. head \in Slots /\ next \in Seqs /\ txs \in Nat /\ LogLen \in Nat /\ SeqSpan \in Nat
  BY <1>1, JournalAssumption DEF TypeOK, Seqs
<1>7. PICK bs : bs = TxBlocks(next, w, rs)
  OBVIOUS
<1>8. /\ Used + Len(bs) < LogLen /\ log' = Put(bs) /\ Open
      /\ home' = HomeAfter(home, rs, v) /\ want' = WantAfter(want, w, rs, v)
      /\ head' = Ahead(head, Len(bs)) /\ next' = Succ(next) /\ txs' = txs + 1
      /\ UNCHANGED <<features, flag, pc, todo, end, damaged>>
  BY <1>2, <1>7 DEF LinuxCommit, HomeAfter, WantAfter
<1>9. PICK r, m, b : Shaped(bs, next, w, rs, r, m, b)
  BY <1>3, <1>6, <1>7, TxShape
<1>10. bs \in Seq(Blocks) /\ Len(bs) \in Nat
  BY <1>9 DEF Shaped
<1>11. Off(head, st) + Len(bs) < LogLen /\ Len(bs) < LogLen
  <2>1. Off(head, st) \in 0 .. LogLen - 1
    BY <1>5, <1>6, AheadOff
  <2> QED
    BY <1>5, <1>6, <1>8, <1>10, <2>1
<1>12. PICK lg2 : lg2 = log'
  OBVIOUS
<1>13. /\ lg2 \in Logs
       /\ \A i \in Slots : Off(i, head) >= Len(bs) => lg2[i] = log[i]
       /\ \A j \in 1 .. Len(bs) : lg2[Ahead(head, j - 1)] = bs[j]
       /\ \A i \in Slots : lg2[i] = log[i] \/ \E j \in 1 .. Len(bs) : lg2[i] = bs[j]
  BY <1>1, <1>6, <1>8, <1>10, <1>11, <1>12, PutIs
<1>14. Laid(lg2, head, bs)
  BY <1>13 DEF Laid
<1>15. PICK g2 : g2 = After(lg2, cs, st, sq)
  OBVIOUS
<1>16. Running(g2, lg2, cs, st, sq)
  BY <1>5, <1>13, <1>15 DEF Running
<1>17. InLog(log, cs, st, sq, head, next, home, want)
  BY <1>1, <1>4 DEF Recoverable
<1>18. InLog(lg2, cs, st, sq, Ahead(head, Len(bs)), Succ(next), HomeAfter(home, rs, v), WantAfter(want, w, rs, v))
  <2>1. \A i \in Slots : Off(i, head) >= Len(bs) => lg2[i] = log[i]
    BY <1>13
  <2> QED
    BY <1>3, <1>5, <1>6, <1>9, <1>11, <1>14, <1>16, <1>17, <2>1, CommitKeeps
<1>19. start' = st /\ seq' = sq /\ start' # 0
  <2>1. start' = st /\ seq' = sq
    BY <1>4, <1>8 DEF Open, From, FromSeq
  <2> QED
    BY <1>5, <2>1 DEF Slots
<1>20. Recoverable'
  <2>1. From' = st /\ FromSeq' = sq
    BY <1>19 DEF From, FromSeq
  <2>2. pc' = "linux" /\ features' = features
    BY <1>1, <1>8
  <2>3. InLog(log', features'.csum, From', FromSeq', head', next', home', want')
    BY <1>4, <1>8, <1>12, <1>18, <2>1, <2>2
  <2> QED
    BY <1>19, <2>2, <2>3 DEF Recoverable
<1>21. Succ(next) \in Seqs /\ Age(Succ(next)) = Age(next) + 1
  BY <1>5, <1>6, AgeSucc
<1>22. Older(lg2, Succ(next))
  <2> SUFFICES ASSUME NEW i \in Slots, lg2[i].k \in Headers PROVE Age(lg2[i].seq) < Age(Succ(next))
    BY DEF Older
  <2>1. CASE lg2[i] = log[i]
    <3>1. Age(log[i].seq) < Age(next)
      BY <1>1, <2>1 DEF Numbered, Older
    <3>2. log[i].seq \in Seqs
      <4>1. log[i] \in Blocks /\ log[i].k \in Headers
        BY <1>1, <2>1 DEF Logs
      <4> QED
        BY <4>1, BlockKinds DEF Headers, Descs, Revokes, Commits
    <3>3. Age(log[i].seq) \in Nat
      BY <3>2, AgeIs DEF Seqs
    <3> QED
      BY <1>5, <1>21, <2>1, <3>1, <3>3
  <2>2. CASE \E j \in 1 .. Len(bs) : lg2[i] = bs[j]
    <3>1. lg2[i].seq = next
      BY <1>9, <2>2, ShapedSeq
    <3> QED
      BY <1>5, <1>21, <3>1
  <2> QED
    BY <1>13, <2>1, <2>2
<1>23. Numbered'
  <2>1. Age(next') + 1 <= 2 * txs'
    BY <1>5, <1>6, <1>8, <1>21
  <2>2. Older(log', next') /\ pc' = "linux"
    BY <1>1, <1>8, <1>12, <1>22
  <2> QED
    BY <1>19, <2>1, <2>2 DEF Numbered
<1>24. Gate'
  BY <1>1, <1>8 DEF Gate, WritableMeansEmptyLog
<1>25. Replaying'
  BY <1>1, <1>8 DEF Replaying
<1>26. TypeOK' /\ log' \in Logs
  <2>1. head' \in Slots /\ txs' \in 0 .. MaxTx
    BY <1>1, <1>6, <1>8, <1>10, AheadSlot, JournalAssumption
  <2>2. next' \in 0 .. SeqSpan - 1 /\ seq' \in 0 .. SeqSpan - 1
    BY <1>5, <1>8, <1>19, <1>21 DEF Seqs
  <2>3. start' \in 0 .. LogLen
    BY <1>5, <1>6, <1>19 DEF Slots
  <2>4. home' \in [Home -> Values \cup {Torn}]
    BY <1>1, <1>8 DEF TypeOK, HomeAfter
  <2>5. want' \in [Home -> Values]
    BY <1>1, <1>3, <1>8 DEF TypeOK, WantAfter
  <2>6. \A i \in DOMAIN todo' : todo'[i].at \in Slots /\ todo'[i].tag.block \in Home
    BY <1>1, <1>8 DEF TypeOK
  <2>7. TypeOK'
    BY <1>1, <1>8, <2>1, <2>2, <2>3, <2>4, <2>5, <2>6 DEF TypeOK
  <2> QED
    BY <1>12, <1>13, <2>7
<1> QED
  BY <1>20, <1>23, <1>24, <1>25, <1>26 DEF Journalled

\* Each block of a transaction that was cut off is whole, spoilt, or what was there before.
LEMMA ArrivedIs ==
    ASSUME log \in Logs, head \in Slots, next \in Seqs, Older(log, next), NEW w, NEW rs, NEW bs, NEW r, NEW m, NEW b,
           Shaped(bs, next, w, rs, r, m, b), NEW landed, NEW part, NEW hs, hs = Arrived(bs, landed, part)
    PROVE  /\ hs \in Seq(Blocks) /\ Len(hs) = Len(bs)
           /\ \A j \in 1 .. Len(bs) : /\ j \in landed => hs[j] = bs[j]
                                      /\ j \notin landed /\ j = part => hs[j] = Spoilt(bs[j])
                                      /\ j \notin landed /\ j # part => Stale(hs[j], next)
                                      /\ hs[j].k \in Headers => Age(hs[j].seq) <= Age(next)
<1>1. bs \in Seq(Blocks) /\ Len(bs) \in Nat
  BY DEF Shaped
<1>2. \A j \in 1 .. Len(bs) : bs[j] \in Blocks /\ bs[j].k # "none" /\ (bs[j].k \in Headers => bs[j].seq = next)
  BY ShapedSeq
<1>3. \A j \in 1 .. Len(bs) : Ahead(head, j - 1) \in Slots
  BY <1>1, AheadSlot
<1>4. ASSUME NEW j \in 1 .. Len(bs)
      PROVE  hs[j] = IF j \in landed THEN bs[j] ELSE IF j = part THEN Spoilt(bs[j]) ELSE log[Ahead(head, j - 1)]
  BY DEF Arrived
<1>5. Age(next) \in Int
  BY AgeIs DEF Seqs
<1>6. ASSUME NEW j \in 1 .. Len(bs)
      PROVE  /\ hs[j] \in Blocks
             /\ j \in landed => hs[j] = bs[j]
             /\ j \notin landed /\ j = part => hs[j] = Spoilt(bs[j])
             /\ j \notin landed /\ j # part => Stale(hs[j], next)
             /\ hs[j].k \in Headers => Age(hs[j].seq) <= Age(next)
  <2>1. CASE j \in landed
    <3>1. hs[j] = bs[j]
      BY <1>4, <2>1
    <3> QED
      BY <1>2, <1>5, <2>1, <3>1
  <2>2. CASE j \notin landed /\ j = part
    <3>1. hs[j] = Spoilt(bs[j])
      BY <1>4, <2>2
    <3>2. Spoilt(bs[j]) \in Blocks /\ Spoilt(bs[j]).k = bs[j].k /\ (bs[j].k \in Headers => Spoilt(bs[j]).seq = bs[j].seq)
      BY <1>2, SpoiltIs
    <3>3. hs[j].k \in Headers => Age(hs[j].seq) <= Age(next)
      BY <1>2, <1>5, <3>1, <3>2
    <3> QED
      BY <2>2, <3>1, <3>2, <3>3
  <2>3. CASE j \notin landed /\ j # part
    <3>1. PICK i \in Slots : hs[j] = log[i]
      BY <1>3, <1>4, <2>3
    <3>2. log[i] \in Blocks
      BY DEF Logs
    <3>3. Stale(log[i], next)
      BY DEF Older, Stale
    <3>4. log[i].k \in Headers => Age(log[i].seq) <= Age(next)
      <4> SUFFICES ASSUME log[i].k \in Headers PROVE Age(log[i].seq) <= Age(next)
        OBVIOUS
      <4>1. log[i].seq \in Seqs
        BY <3>2, BlockKinds DEF Headers, Descs, Revokes, Commits
      <4>2. Age(log[i].seq) \in Int /\ Age(log[i].seq) < Age(next)
        BY <4>1, AgeIs DEF Older, Seqs
      <4> QED
        BY <1>5, <4>2
    <3> QED
      BY <2>3, <3>1, <3>2, <3>3, <3>4
  <2> QED
    BY <2>1, <2>2, <2>3
<1>7. hs \in [1 .. Len(bs) -> Blocks]
  BY <1>6 DEF Arrived
<1>8. hs \in Seq(Blocks) /\ Len(hs) = Len(bs)
  BY <1>1, <1>7
<1> QED
  BY <1>6, <1>8

\* Linux is cut off in a transaction: the scan ends before it, or refuses.
LEMMA TearStep ==
    ASSUME Journalled, NEW tx \in Txs, LinuxTear(tx[1], tx[2])
    PROVE  Journalled'
<1>1. TypeOK /\ log \in Logs /\ Gate /\ Numbered /\ Recoverable /\ Replaying /\ pc = "linux" /\ txs < MaxTx
  BY DEF Journalled, LinuxTear
<1>2. PICK w, rs : w = tx[1] /\ rs = tx[2]
  OBVIOUS
<1>3. DOMAIN w \in SUBSET Home /\ w \in [DOMAIN w -> Values] /\ Writes(w) /\ rs \in SUBSET Home /\ DOMAIN w \cap rs = {}
  BY <1>2, TxIs
<1>4. PICK cs, st, sq, g : cs = features.csum /\ st = From /\ sq = FromSeq /\ g = After(log, features.csum, From, FromSeq)
  OBVIOUS
<1>5. /\ Running(g, log, cs, st, sq) /\ st \in Slots /\ sq \in Seqs /\ Used = Off(head, st)
      /\ Age(next) \in Nat /\ Age(next) <= 2 * txs /\ 2 * (Age(next) + 1) < SeqSpan
  BY <1>1, <1>4, LinuxScans
<1>6. head \in Slots /\ next \in Seqs /\ txs \in Nat /\ LogLen \in Nat /\ SeqSpan \in Nat
  BY <1>1, JournalAssumption DEF TypeOK, Seqs
<1>7. PICK bs : bs = TxBlocks(next, w, rs)
  OBVIOUS
<1>8. PICK landed, part :
       /\ Used + Len(bs) < LogLen
       /\ part # 0 => features.csum
       /\ Len(bs) \in landed \cup {part} => features.async \/ 1 .. Len(bs) - 1 \subseteq landed
       /\ log' = Put(Arrived(bs, landed, part))
       /\ log' # Put(bs) /\ Open /\ txs' = txs + 1 /\ pc' = "out"
       /\ UNCHANGED <<features, home, flag, todo, end, head, next, want, damaged>>
  <2>1. LinuxTear(w, rs)
    BY <1>2
  <2>2. /\ Used + Len(bs) < LogLen /\ log' # Put(bs) /\ Open /\ txs' = txs + 1 /\ pc' = "out"
        /\ UNCHANGED <<features, home, flag, todo, end, head, next, want, damaged>>
    BY <1>7, <2>1 DEF LinuxTear
  <2>3. \E landed \in SUBSET (1 .. Len(bs)), part \in 0 .. Len(bs) :
          /\ part \notin landed
          /\ part # 0 => features.csum
          /\ Len(bs) \in landed \cup {part} => features.async \/ 1 .. Len(bs) - 1 \subseteq landed
          /\ log' = Put(Arrived(bs, landed, part))
    BY <1>7, <2>1 DEF LinuxTear
  <2> QED
    BY <2>2, <2>3
<1>9. PICK r, m, b : Shaped(bs, next, w, rs, r, m, b)
  BY <1>3, <1>6, <1>7, TxShape
<1>10. bs \in Seq(Blocks) /\ Len(bs) \in Nat /\ Len(bs) >= 1 /\ bs[Len(bs)] = Commit(next)
  <2>1. bs \in Seq(Blocks) /\ m \in Nat /\ r \in {0, 1} /\ Len(bs) = r + Body(m) + 1 /\ bs[Len(bs)] = Commit(next)
    BY <1>9 DEF Shaped
  <2>2. Body(m) \in Nat
    BY <2>1 DEF Body
  <2> QED
    BY <2>1, <2>2
<1>11. Off(head, st) + Len(bs) < LogLen /\ Len(bs) < LogLen
  <2>1. Off(head, st) \in 0 .. LogLen - 1
    BY <1>5, <1>6, AheadOff
  <2> QED
    BY <1>5, <1>6, <1>8, <1>10, <2>1
<1>12. Older(log, next)
  BY <1>1 DEF Numbered
<1>13. PICK hs : hs = Arrived(bs, landed, part)
  OBVIOUS
<1>14. /\ hs \in Seq(Blocks) /\ Len(hs) = Len(bs)
       /\ \A j \in 1 .. Len(bs) : /\ j \in landed => hs[j] = bs[j]
                                  /\ j \notin landed /\ j = part => hs[j] = Spoilt(bs[j])
                                  /\ j \notin landed /\ j # part => Stale(hs[j], next)
                                  /\ hs[j].k \in Headers => Age(hs[j].seq) <= Age(next)
  BY <1>1, <1>6, <1>9, <1>12, <1>13, ArrivedIs
<1>15. PICK lg2 : lg2 = log'
  OBVIOUS
<1>16. /\ lg2 \in Logs
       /\ \A i \in Slots : Off(i, head) >= Len(bs) => lg2[i] = log[i]
       /\ \A j \in 1 .. Len(bs) : lg2[Ahead(head, j - 1)] = hs[j]
       /\ \A i \in Slots : lg2[i] = log[i] \/ \E j \in 1 .. Len(bs) : lg2[i] = hs[j]
  <2>1. hs \in Seq(Blocks) /\ Len(hs) < LogLen /\ lg2 = Put(hs)
    BY <1>8, <1>11, <1>13, <1>14, <1>15
  <2>2. /\ lg2 \in Logs
        /\ \A i \in Slots : Off(i, head) >= Len(hs) => lg2[i] = log[i]
        /\ \A j \in 1 .. Len(hs) : lg2[Ahead(head, j - 1)] = hs[j]
        /\ \A i \in Slots : lg2[i] = log[i] \/ \E j \in 1 .. Len(hs) : lg2[i] = hs[j]
    BY <1>1, <1>6, <2>1, PutIs
  <2> QED
    BY <1>14, <2>2
<1>17. PICK put : put = Put(bs)
  OBVIOUS
<1>18. /\ put \in Logs
       /\ \A i \in Slots : Off(i, head) >= Len(bs) => put[i] = log[i]
       /\ \A j \in 1 .. Len(bs) : put[Ahead(head, j - 1)] = bs[j]
  BY <1>1, <1>6, <1>10, <1>11, <1>17, PutIs
<1>19. ~Laid(lg2, head, bs)
  <2> SUFFICES ASSUME Laid(lg2, head, bs) PROVE FALSE
    OBVIOUS
  <2>1. ASSUME NEW i \in Slots PROVE lg2[i] = put[i]
    <3>1. PICK n \in Nat : n = Off(i, head) /\ Ahead(head, n) = i
      BY <1>6, AheadOff
    <3>2. CASE n >= Len(bs)
      BY <1>16, <1>18, <3>1, <3>2
    <3>3. CASE n < Len(bs)
      <4>1. n + 1 \in 1 .. Len(bs) /\ (n + 1) - 1 = n
        BY <1>10, <3>3
      <4>2. lg2[Ahead(head, (n + 1) - 1)] = bs[n + 1] /\ put[Ahead(head, (n + 1) - 1)] = bs[n + 1]
        BY <1>18, <4>1 DEF Laid
      <4> QED
        BY <3>1, <4>1, <4>2
    <3> QED
      BY <1>10, <3>2, <3>3
  <2>2. lg2 = put
    BY <1>16, <1>18, <2>1 DEF Logs
  <2> QED
    BY <1>8, <1>15, <1>17, <2>2
<1>20. cs \in BOOLEAN /\ (features.async => cs = TRUE) /\ (features.csum => cs = TRUE)
  BY <1>1, <1>4, FeaturesAre
<1>21. HalfLaid(lg2, head, bs, next, cs)
  <2> SUFFICES ASSUME NEW j \in 1 .. Len(bs) PROVE Half(hs[j], bs[j], next, cs)
    BY <1>16 DEF HalfLaid
  <2>1. CASE j \in landed
    BY <1>14, <2>1 DEF Half
  <2>2. CASE j \notin landed /\ j = part
    <3>1. part # 0
      BY <1>10, <2>2
    <3>2. cs = TRUE
      BY <1>8, <1>20, <3>1
    <3> QED
      BY <1>14, <2>2, <3>2 DEF Half
  <2>3. CASE j \notin landed /\ j # part
    <3>1. Stale(hs[j], next) /\ Age(next) \in Int
      BY <1>5, <1>14, <2>3
    <3>2. hs[j].k \in Headers => hs[j].seq # next
      BY <3>1 DEF Stale
    <3> QED
      BY <3>2 DEF Half
  <2> QED
    BY <2>1, <2>2, <2>3
<1>22. ASSUME lg2[Ahead(head, Len(bs) - 1)] = bs[Len(bs)] PROVE cs = TRUE
  <2>1. Len(bs) \in 1 .. Len(bs)
    BY <1>10
  <2>2. hs[Len(bs)] = Commit(next)
    BY <1>10, <1>16, <1>22, <2>1
  <2>3. Len(bs) \in landed \cup {part}
    <3> SUFFICES ASSUME Len(bs) \notin landed, Len(bs) # part PROVE FALSE
      OBVIOUS
    <3>1. Stale(hs[Len(bs)], next)
      BY <1>14, <2>1
    <3>2. Commit(next).k \in Headers /\ Commit(next).seq = next
      BY DEF Commit, Headers
    <3>3. Age(next) < Age(next) /\ Age(next) \in Int
      BY <1>5, <2>2, <3>1, <3>2 DEF Stale
    <3> QED
      BY <3>3
  <2>4. CASE features.async
    BY <1>20, <2>4
  <2>5. CASE Len(bs) = part
    <3>1. part # 0
      BY <1>10, <2>5
    <3> QED
      BY <1>8, <1>20, <3>1
  <2>6. CASE Len(bs) \in landed /\ 1 .. Len(bs) - 1 \subseteq landed
    <3>1. \A j \in 1 .. Len(bs) : j \in landed
      <4> SUFFICES ASSUME NEW j \in 1 .. Len(bs) PROVE j \in landed
        OBVIOUS
      <4>1. j = Len(bs) \/ j \in 1 .. Len(bs) - 1
        BY <1>10
      <4> QED
        BY <2>6, <4>1
    <3>2. Laid(lg2, head, bs)
      BY <1>14, <1>16, <3>1 DEF Laid
    <3> QED
      BY <1>19, <3>2
  <2> QED
    BY <1>8, <2>3, <2>4, <2>5, <2>6
<1>23. PICK g2 : g2 = After(lg2, cs, st, sq)
  OBVIOUS
<1>24. Running(g2, lg2, cs, st, sq)
  BY <1>5, <1>16, <1>23 DEF Running
<1>25. InLog(log, cs, st, sq, head, next, home, want)
  BY <1>1, <1>4 DEF Recoverable
<1>26. Outcome(lg2, cs, g2[Turns], next, home, want)
  <2>1. \A i \in Slots : Off(i, head) >= Len(bs) => lg2[i] = log[i]
    BY <1>16
  <2>2. lg2[Ahead(head, Len(bs) - 1)] = bs[Len(bs)] => cs = TRUE
    BY <1>22
  <2> QED
    BY <1>3, <1>5, <1>6, <1>9, <1>11, <1>12, <1>19, <1>21, <1>24, <1>25, <2>1, <2>2, TearKeeps
<1>27. start' = st /\ seq' = sq /\ start' # 0
  <2>1. start' = st /\ seq' = sq
    BY <1>4, <1>8 DEF Open, From, FromSeq
  <2> QED
    BY <1>5, <2>1 DEF Slots
<1>28. Recoverable'
  <2>1. Final(lg2, cs, st, sq) = g2[Turns]
    BY <1>23 DEF Final
  <2>2. pc' = "out" /\ features' = features /\ next' = next /\ home' = home /\ want' = want
    BY <1>8
  <2>3. Outcome(log', features'.csum, Final(log', features'.csum, start', seq'), next', home', want')
    BY <1>4, <1>15, <1>26, <1>27, <2>1, <2>2
  <2> QED
    BY <1>27, <2>2, <2>3 DEF Recoverable
<1>29. NotNewer(lg2, next)
  <2> SUFFICES ASSUME NEW i \in Slots, lg2[i].k \in Headers PROVE Age(lg2[i].seq) <= Age(next)
    BY DEF NotNewer
  <2>1. CASE lg2[i] = log[i]
    <3>1. Age(log[i].seq) < Age(next)
      BY <1>12, <2>1 DEF Older
    <3>2. log[i].seq \in Seqs
      <4>1. log[i] \in Blocks /\ log[i].k \in Headers
        BY <1>1, <2>1 DEF Logs
      <4> QED
        BY <4>1, BlockKinds DEF Headers, Descs, Revokes, Commits
    <3>3. Age(log[i].seq) \in Nat
      BY <3>2, AgeIs DEF Seqs
    <3> QED
      BY <1>5, <2>1, <3>1, <3>3
  <2>2. CASE \E j \in 1 .. Len(bs) : lg2[i] = hs[j]
    BY <1>14, <2>2
  <2> QED
    BY <1>16, <2>1, <2>2
<1>30. Numbered'
  <2>1. Age(next') + 1 <= 2 * txs'
    BY <1>5, <1>6, <1>8
  <2>2. NotNewer(log', next') /\ pc' = "out"
    BY <1>8, <1>15, <1>29
  <2> QED
    BY <1>27, <2>1, <2>2 DEF Numbered
<1>31. Gate'
  BY <1>1, <1>8 DEF Gate, WritableMeansEmptyLog
<1>32. Replaying'
  BY <1>1, <1>8 DEF Replaying
<1>33. TypeOK' /\ log' \in Logs
  <2>1. txs' \in 0 .. MaxTx
    BY <1>1, <1>6, <1>8, JournalAssumption
  <2>2. seq' \in 0 .. SeqSpan - 1
    BY <1>5, <1>27 DEF Seqs
  <2>3. start' \in 0 .. LogLen
    BY <1>5, <1>6, <1>27 DEF Slots
  <2>4. TypeOK'
    BY <1>1, <1>8, <2>1, <2>2, <2>3 DEF TypeOK
  <2> QED
    BY <1>15, <1>16, <2>4
<1> QED
  BY <1>28, <1>30, <1>31, <1>32, <1>33 DEF Journalled

\* Every step keeps the gate.
LEMMA GateStep ==
    ASSUME Gate, [Next]_vars
    PROVE  Gate'
<1> USE DEF Gate, WritableMeansEmptyLog, disk, linux
<1>1. ASSUME NEW w, NEW rs, NEW v, LinuxCommit(w, rs, v) PROVE Gate'
  BY <1>1 DEF LinuxCommit
<1>2. ASSUME NEW w, NEW rs, LinuxTear(w, rs) PROVE Gate'
  BY <1>2 DEF LinuxTear
<1>3. ASSUME NEW b, LinuxWriteback(b) PROVE Gate'
  BY <1>3 DEF LinuxWriteback
<1>4. CASE LinuxCheckpoint
  BY <1>4 DEF LinuxCheckpoint
<1>5. CASE LinuxCut
  BY <1>5 DEF LinuxCut
<1>6. CASE LinuxMount
  BY <1>6 DEF LinuxMount
<1>7. ASSUME NEW i, Damage(i) PROVE Gate'
  BY <1>7 DEF Damage
<1>8. ASSUME NEW ro, Mount(ro) PROVE Gate'
  BY <1>8 DEF Mount
<1>9. CASE Recover
  BY <1>9 DEF Recover
<1>10. CASE Refuse
  BY <1>10 DEF Refuse
<1>11. CASE ReplayBlock
  BY <1>11 DEF ReplayBlock
<1>12. CASE EmptyLog
  BY <1>12 DEF EmptyLog
<1>13. CASE ClearFlag
  BY <1>13 DEF ClearFlag
<1>14. CASE WriteFails
  BY <1>14 DEF WriteFails
<1>15. CASE Unplug
  BY <1>15 DEF Unplug
<1>16. ASSUME NEW b, NEW v, UserWrite(b, v) PROVE Gate'
  BY <1>16 DEF UserWrite
<1>17. CASE UNCHANGED vars
  BY <1>17 DEF vars
<1> QED
  BY <1>1, <1>2, <1>3, <1>4, <1>5, <1>6, <1>7, <1>8, <1>9, <1>10, <1>11, <1>12, <1>13, <1>14, <1>15,
     <1>16, <1>17 DEF Next

\* Home blocks that have a tag to be replayed do not matter, and one that caught up with what
\* the volume holds does no harm.
LEMMA HoldsStill ==
    ASSUME NEW A, NEW G, NEW lg, NEW hm, NEW hm2, NEW wt, Holds(A, G, lg, hm, wt),
           \A x \in Home : Hits(A, G, x) = {} => hm2[x] = hm[x] \/ hm2[x] = wt[x]
    PROVE  Holds(A, G, lg, hm2, wt)
BY DEF Holds

\* Linux writes a block home.
LEMMA WritebackStep ==
    ASSUME Journalled, Gate', NEW b \in Home, LinuxWriteback(b)
    PROVE  Journalled'
<1>1. TypeOK /\ log \in Logs /\ Numbered /\ Recoverable /\ Replaying /\ pc = "linux"
  BY DEF Journalled, LinuxWriteback
<1>2. /\ home' = [home EXCEPT ![b] = want[b]]
      /\ UNCHANGED <<features, log, start, seq, flag, pc, todo, end, head, next, txs, want, damaged>>
  BY DEF LinuxWriteback, linux
<1>3. home \in [Home -> Values \cup {Torn}] /\ want \in [Home -> Values]
  BY <1>1 DEF TypeOK
<1>4. home' \in [Home -> Values \cup {Torn}] /\ \A x \in Home : home'[x] = home[x] \/ home'[x] = want[x]
  BY <1>2, <1>3
<1>5. start = 0 => home' = want
  BY <1>1, <1>2, <1>3 DEF Recoverable
<1>6. PICK g : g = After(log, features.csum, From, FromSeq)
  OBVIOUS
<1>7. PICK T, A, G : Boundary(g, log, From, head, next, T, A, G) /\ Holds(A, G, log, home, want)
  BY <1>1, <1>6 DEF Recoverable, InLog
<1>8. Holds(A, G, log, home', want)
  BY <1>4, <1>7, HoldsStill
<1>9. InLog(log, features.csum, From, FromSeq, head, next, home', want)
  BY <1>6, <1>7, <1>8 DEF InLog
<1>10. From' = From /\ FromSeq' = FromSeq
  BY <1>2 DEF From, FromSeq
<1>11. Recoverable'
  BY <1>1, <1>2, <1>5, <1>9, <1>10 DEF Recoverable
<1>12. Numbered'
  BY <1>1, <1>2 DEF Numbered
<1>13. Replaying'
  BY <1>1, <1>2 DEF Replaying
<1>14. TypeOK' /\ log' \in Logs
  BY <1>1, <1>2, <1>4 DEF TypeOK
<1> QED
  BY <1>11, <1>12, <1>13, <1>14 DEF Journalled

\* Linux has written everything home, and the log is used from its head on.
LEMMA CheckpointStep ==
    ASSUME Journalled, Gate', LinuxCheckpoint
    PROVE  Journalled'
<1>1. TypeOK /\ log \in Logs /\ Numbered /\ Recoverable /\ Replaying /\ pc = "linux" /\ start # 0
  BY DEF Journalled, LinuxCheckpoint
<1>2. /\ home' = want /\ start' = head /\ seq' = next
      /\ UNCHANGED <<features, log, flag, pc, todo, end, head, next, txs, want, damaged>>
  BY DEF LinuxCheckpoint, linux
<1>3. PICK cs, g : cs = features.csum /\ g = After(log, cs, head, next)
  OBVIOUS
<1>4. head \in Slots /\ next \in Seqs /\ 2 * Age(next) < SeqSpan /\ head # 0
  BY <1>1, LinuxScans DEF TypeOK, Seqs, Slots
<1>5. Running(g, log, cs, head, next)
  BY <1>1, <1>3, <1>4, FeaturesAre DEF Running
<1>6. InLog(log, cs, head, next, head, next, want, want)
  BY <1>4, <1>5, NothingInLog
<1>7. From' = head /\ FromSeq' = next /\ start' # 0
  BY <1>2, <1>4 DEF From, FromSeq
<1>8. Recoverable'
  BY <1>1, <1>2, <1>3, <1>6, <1>7 DEF Recoverable
<1>9. Numbered'
  BY <1>1, <1>2, <1>7 DEF Numbered
<1>10. Replaying'
  BY <1>1, <1>2 DEF Replaying
<1>11. TypeOK' /\ log' \in Logs
  <2>1. start' \in 0 .. LogLen /\ seq' \in 0 .. SeqSpan - 1
    BY <1>2, <1>4, JournalAssumption DEF Slots, Seqs
  <2>2. home' \in [Home -> Values \cup {Torn}]
    BY <1>1, <1>2 DEF TypeOK
  <2> QED
    BY <1>1, <1>2, <2>1, <2>2 DEF TypeOK
<1> QED
  BY <1>8, <1>9, <1>10, <1>11 DEF Journalled

\* Linux is cut off between transactions.
LEMMA CutStep ==
    ASSUME Journalled, Gate', LinuxCut
    PROVE  Journalled'
<1>1. TypeOK /\ log \in Logs /\ Numbered /\ Recoverable /\ Replaying /\ pc = "linux"
  BY DEF Journalled, LinuxCut
<1>2. pc' = "out" /\ UNCHANGED <<features, log, start, seq, home, flag, todo, end, head, next, txs, want, damaged>>
  BY DEF LinuxCut, linux, disk
<1>3. ASSUME start # 0
      PROVE  Outcome(log, features.csum, Final(log, features.csum, start, seq), next, home, want) /\ NotNewer(log, next)
  <2>1. PICK g : g = After(log, features.csum, start, seq)
    OBVIOUS
  <2>2. From = start /\ FromSeq = seq
    BY <1>3 DEF From, FromSeq
  <2>3. Running(g, log, features.csum, start, seq) /\ Final(log, features.csum, start, seq) = g[Turns]
    BY <1>1, <1>3, <2>1, Scans
  <2>4. head \in Slots /\ next \in Seqs
    BY <1>1 DEF TypeOK, Seqs
  <2>5. InLog(log, features.csum, start, seq, head, next, home, want) /\ Older(log, next)
    BY <1>1, <2>2 DEF Recoverable, Numbered
  <2>6. PICK cs : cs = features.csum
    OBVIOUS
  <2>7. Running(g, log, cs, start, seq) /\ InLog(log, cs, start, seq, head, next, home, want)
    BY <2>3, <2>5, <2>6
  <2>8. Settles(log, g[Turns], next, home, want)
    BY <2>4, <2>5, <2>7, Finishes
  <2>9. NotNewer(log, next)
    <3> SUFFICES ASSUME NEW i \in Slots, log[i].k \in Headers PROVE Age(log[i].seq) <= Age(next)
      BY DEF NotNewer
    <3>1. Age(log[i].seq) < Age(next)
      BY <2>5 DEF Older
    <3>2. log[i].seq \in Seqs
      <4>1. log[i] \in Blocks
        BY <1>1 DEF Logs
      <4> QED
        BY <4>1, BlockKinds DEF Headers, Descs, Revokes, Commits
    <3>3. Age(log[i].seq) \in Int /\ Age(next) \in Int
      BY <2>4, <3>2, AgeIs DEF Seqs
    <3> QED
      BY <3>1, <3>3
  <2> QED
    BY <2>3, <2>8, <2>9 DEF Outcome
<1>4. Recoverable'
  BY <1>1, <1>2, <1>3 DEF Recoverable
<1>5. Numbered'
  BY <1>1, <1>2, <1>3 DEF Numbered
<1>6. Replaying'
  BY <1>1, <1>2 DEF Replaying
<1>7. TypeOK' /\ log' \in Logs
  BY <1>1, <1>2 DEF TypeOK
<1> QED
  BY <1>4, <1>5, <1>6, <1>7 DEF Journalled

\* Linux mounts a clean volume: the numbers of the log are all used up.
LEMMA MountStep ==
    ASSUME Journalled, Gate', LinuxMount
    PROVE  Journalled'
<1>1. TypeOK /\ log \in Logs /\ Numbered /\ Recoverable /\ Replaying /\ pc = "out" /\ start = 0 /\ txs < MaxTx
  BY DEF Journalled, LinuxMount, Gate
<1>2. /\ pc' = "linux" /\ flag' = TRUE /\ head' = 1 /\ next' = seq
      /\ UNCHANGED <<features, log, start, seq, home, todo, end, txs, want, damaged>>
  BY DEF LinuxMount
<1>3. PICK cs, g : cs = features.csum /\ g = After(log, cs, 1, seq)
  OBVIOUS
<1>4. 1 \in Slots /\ seq \in Seqs
  BY <1>1, JournalAssumption DEF TypeOK, Seqs, Slots
<1>5. 2 * Age(seq) < SeqSpan
  <2>1. Age(seq) \in Nat /\ Age(seq) <= 2 * txs /\ txs \in Nat /\ txs < MaxTx /\ MaxTx \in Nat /\ SeqSpan \in Nat /\ SeqSpan > 2 * (2 * MaxTx + 2)
    BY <1>1, <1>4, AgeIs, JournalAssumption DEF Numbered, TypeOK, Seqs
  <2> QED
    BY <2>1
<1>6. Running(g, log, cs, 1, seq)
  BY <1>1, <1>3, <1>4, FeaturesAre DEF Running
<1>7. InLog(log, cs, 1, seq, 1, seq, want, want)
  BY <1>4, <1>5, <1>6, NothingInLog
<1>8. From' = 1 /\ FromSeq' = seq /\ home = want
  BY <1>1, <1>2 DEF From, FromSeq, Recoverable
<1>9. Recoverable'
  BY <1>1, <1>2, <1>3, <1>7, <1>8 DEF Recoverable
<1>10. Numbered'
  BY <1>1, <1>2 DEF Numbered
<1>11. Replaying'
  BY <1>1, <1>2 DEF Replaying
<1>12. TypeOK' /\ log' \in Logs
  BY <1>1, <1>2, <1>4 DEF TypeOK
<1> QED
  BY <1>9, <1>10, <1>11, <1>12 DEF Journalled

\* A step of the app that only reads, or only writes the flag.
LEMMA QuietStep ==
    ASSUME Journalled, Gate', pc \notin {"linux", "replay"},
           pc' \in {"out", "readOnly", "needsRecovery", "refused", "clearFlag", "writable"},
           flag' \in BOOLEAN, end' \in 0 .. SeqSpan - 1,
           UNCHANGED <<features, log, start, seq, home, todo, head, next, txs, want, damaged>>
    PROVE  Journalled'
<1>1. TypeOK /\ log \in Logs /\ Numbered /\ Recoverable /\ Replaying
  BY DEF Journalled
<1>2. pc # "linux" /\ pc # "replay" /\ pc' # "linux" /\ pc' # "replay"
  OBVIOUS
<1>3. Recoverable'
  BY <1>1, <1>2 DEF Recoverable
<1>4. Numbered'
  BY <1>1, <1>2 DEF Numbered
<1>5. Replaying'
  BY <1>1, <1>2 DEF Replaying
<1>6. TypeOK' /\ log' \in Logs
  BY <1>1, <1>2 DEF TypeOK
<1> QED
  BY <1>3, <1>4, <1>5, <1>6 DEF Journalled

\* The app mounts the volume.
LEMMA AppMountStep ==
    ASSUME Journalled, Gate', NEW ro \in BOOLEAN, Mount(ro)
    PROVE  Journalled'
<1>1. pc' \in {"out", "readOnly", "needsRecovery", "refused", "clearFlag", "writable"} /\ pc \notin {"linux", "replay"}
  BY DEF Mount
<1>2. UNCHANGED <<features, log, start, seq, home, flag, todo, end, head, next, txs, want, damaged>>
  BY DEF Mount, disk, linux
<1>3. flag' \in BOOLEAN /\ end' \in 0 .. SeqSpan - 1
  BY <1>2 DEF Journalled, TypeOK
<1> QED
  BY <1>1, <1>2, <1>3, QuietStep

\* The replay is refused.
LEMMA RefuseStep ==
    ASSUME Journalled, Gate', Refuse
    PROVE  Journalled'
<1>1. pc' \in {"out", "readOnly", "needsRecovery", "refused", "clearFlag", "writable"} /\ pc \notin {"linux", "replay"}
  BY DEF Refuse
<1>2. UNCHANGED <<features, log, start, seq, home, flag, todo, end, head, next, txs, want, damaged>>
  BY DEF Refuse, disk, linux
<1>3. flag' \in BOOLEAN /\ end' \in 0 .. SeqSpan - 1
  BY <1>2 DEF Journalled, TypeOK
<1> QED
  BY <1>1, <1>2, <1>3, QuietStep

\* needs_recovery is cleared.
LEMMA ClearFlagStep ==
    ASSUME Journalled, Gate', ClearFlag
    PROVE  Journalled'
<1>1. pc' \in {"out", "readOnly", "needsRecovery", "refused", "clearFlag", "writable"} /\ pc \notin {"linux", "replay"}
  BY DEF ClearFlag
<1>2. UNCHANGED <<features, log, start, seq, home, todo, head, next, txs, want, damaged>>
  BY DEF ClearFlag, disk, linux
<1>3. flag' \in BOOLEAN /\ end' \in 0 .. SeqSpan - 1
  <2>1. flag' = FALSE /\ end' = 0
    BY DEF ClearFlag
  <2>2. 0 \in 0 .. SeqSpan - 1
    BY JournalAssumption
  <2> QED
    BY <2>1, <2>2
<1> QED
  BY <1>1, <1>2, <1>3, QuietStep

\* The tags a replay that has not written anything yet has to copy.
LEMMA StartsCopying ==
    ASSUME NEW p \in States, NEW nx, NEW lg, NEW hm, NEW wt, Settles(lg, p, nx, hm, wt), NEW td, td = Kept(p.all, p.gone)
    PROVE  Copying(p, td, hm, wt)
<1>1. PICK D : D = {i \in DOMAIN p.all : ~IsRevoked(p.gone, p.all[i])}
  OBVIOUS
<1>2. DOMAIN td = D /\ \A i \in D : td[i] = p.all[i]
  BY <1>1, KeptIs
<1>3. ASSUME NEW x \in Home, \A i \in DOMAIN td : td[i].tag.block # x PROVE hm[x] = wt[x]
  <2>1. Hits(p.all, p.gone, x) = {}
    BY <1>1, <1>2, <1>3 DEF Hits
  <2> QED
    BY <2>1 DEF Settles, Holds
<1> QED
  BY <1>1, <1>2, <1>3 DEF Copying

\* The tags left to copy name blocks of the log and of the volume.
LEMMA CopyingTyped ==
    ASSUME NEW p \in States, NEW td, NEW hm, NEW wt, Copying(p, td, hm, wt)
    PROVE  /\ DOMAIN td \subseteq Nat
           /\ \A i \in DOMAIN td : td[i].at \in Slots /\ td[i].tag.block \in Home
<1>1. PICK A \in Seq(Items) : A = p.all
  BY DEF States
<1>2. \A i \in DOMAIN td : i \in DOMAIN A /\ td[i] = A[i]
  BY <1>1 DEF Copying
<1>3. DOMAIN A \subseteq Nat
  OBVIOUS
<1> QED
  BY <1>2, <1>3, ItemAt

\* The replay is planned: a scan that is not refused holds what was committed.
LEMMA RecoverStep ==
    ASSUME Journalled, Gate', Recover
    PROVE  Journalled'
<1>1. TypeOK /\ log \in Logs /\ Numbered /\ Recoverable /\ Replaying /\ pc = "needsRecovery"
  BY DEF Journalled, Recover
<1>2. UNCHANGED <<features, log, start, seq, home, flag, head, next, txs, want, damaged>>
  BY DEF Recover, disk, linux
<1>3. CASE start = 0
  <2>1. pc' = "clearFlag" /\ UNCHANGED <<todo, end>>
    BY <1>3 DEF Recover
  <2>2. flag' \in BOOLEAN /\ end' \in 0 .. SeqSpan - 1
    BY <1>1, <1>2, <2>1 DEF TypeOK
  <2> QED
    BY <1>1, <1>2, <2>1, <2>2, QuietStep
<1>4. CASE start # 0
  <2>1. ~Plan.refused /\ pc' = "replay" /\ todo' = Plan.tags /\ end' = Plan.end
    BY <1>4 DEF Recover
  <2>2. PICK p : p = Final(log, features.csum, start, seq)
    OBVIOUS
  <2>3. p \in States
    BY <1>1, <1>4, <2>2, Scans
  <2>4. todo' = Kept(p.all, p.gone) /\ end' = p.seq /\ ~Refuses(log, p, features.csum)
    BY <2>1, <2>2, <2>3, PlanIs
  <2>5. Settles(log, p, next, home, want)
    BY <1>1, <1>4, <2>2, <2>4 DEF Recoverable, Outcome
  <2>6. Copying(p, todo', home, want) /\ end' = next
    <3>1. PICK td : td = todo'
      OBVIOUS
    <3>2. Copying(p, td, home, want)
      BY <2>3, <2>4, <2>5, <3>1, StartsCopying
    <3> QED
      BY <2>4, <2>5, <3>1, <3>2 DEF Settles
  <2>7. Final(log, features.csum, start, seq)' = p
    BY <1>2, <2>2
  <2>8. Replaying'
    BY <1>2, <1>4, <2>1, <2>5, <2>6, <2>7 DEF Replaying
  <2>9. Recoverable'
    BY <1>1, <1>2, <2>1 DEF Recoverable
  <2>10. Numbered'
    BY <1>1, <1>2, <2>1 DEF Numbered
  <2>11. \A i \in DOMAIN todo' : todo'[i].at \in Slots /\ todo'[i].tag.block \in Home
    <3>1. PICK td : td = todo'
      OBVIOUS
    <3>2. Copying(p, td, home, want)
      BY <2>6, <3>1
    <3> QED
      BY <2>3, <3>1, <3>2, CopyingTyped
  <2>12. TypeOK' /\ log' \in Logs
    <3>1. end' \in 0 .. SeqSpan - 1 /\ pc' = "replay"
      BY <1>1, <2>1, <2>6 DEF TypeOK
    <3> QED
      BY <1>1, <1>2, <2>11, <3>1 DEF TypeOK
  <2> QED
    BY <2>8, <2>9, <2>10, <2>12 DEF Journalled
<1> QED
  BY <1>3, <1>4

\* The home blocks hm2 are hm, but for a block that has a tag to be replayed.
LEMMA SettlesStill ==
    ASSUME NEW lg, NEW p, NEW nx, NEW hm, NEW hm2, NEW wt, Settles(lg, p, nx, hm, wt),
           NEW m \in DOMAIN p.all, ~IsRevoked(p.gone, p.all[m]),
           \A x \in Home : x # p.all[m].tag.block => hm2[x] = hm[x]
    PROVE  Settles(lg, p, nx, hm2, wt)
<1>1. Holds(p.all, p.gone, lg, hm, wt)
  BY DEF Settles
<1>2. m \in Hits(p.all, p.gone, p.all[m].tag.block)
  BY DEF Hits
<1>3. \A x \in Home : Hits(p.all, p.gone, x) = {} => hm2[x] = hm[x] \/ hm2[x] = wt[x]
  BY <1>2
<1>4. Holds(p.all, p.gone, lg, hm2, wt)
  BY <1>1, <1>3, HoldsStill
<1> QED
  BY <1>4 DEF Settles

\* The oldest tag that is left is copied.
LEMMA CopyOne ==
    ASSUME NEW p \in States, NEW lg, NEW nx, NEW hm \in [Home -> Values \cup {Torn}], NEW wt, Settles(lg, p, nx, hm, wt),
           NEW td, Copying(p, td, hm, wt), DOMAIN td # {},
           NEW m, m = Min(DOMAIN td), NEW td2, td2 = Restrict(td, DOMAIN td \ {m}),
           NEW hm2, hm2 = [hm EXCEPT ![td[m].tag.block] = Unescaped(lg, td[m])]
    PROVE  /\ hm2 \in [Home -> Values \cup {Torn}]
           /\ Settles(lg, p, nx, hm2, wt) /\ Copying(p, td2, hm2, wt)
<1>1. DOMAIN td \subseteq Nat /\ \A i \in DOMAIN td : td[i].at \in Slots /\ td[i].tag.block \in Home
  BY CopyingTyped
<1>2. m \in DOMAIN td /\ \A y \in DOMAIN td : m <= y
  BY <1>1, MinIs
<1>3. PICK A, G : A = p.all /\ G = p.gone /\ A \in Seq(Items)
  BY DEF States
<1>4. /\ \A i \in DOMAIN td : i \in DOMAIN A /\ ~IsRevoked(G, A[i]) /\ td[i] = A[i]
      /\ \A i \in DOMAIN td : \A j \in DOMAIN A : j >= i /\ ~IsRevoked(G, A[j]) => j \in DOMAIN td
      /\ \A x \in Home : (\A i \in DOMAIN td : td[i].tag.block # x) => hm[x] = wt[x]
  BY <1>3 DEF Copying
<1>5. Holds(A, G, lg, hm, wt) /\ Unescaped(lg, A[m]) \in Values
  BY <1>2, <1>3, <1>4 DEF Settles
<1>6. PICK b \in Home : b = A[m].tag.block /\ b = td[m].tag.block /\ td[m] = A[m]
  BY <1>1, <1>2, <1>4
<1>7. hm2 = [hm EXCEPT ![b] = Unescaped(lg, A[m])]
  BY <1>6
<1>8. hm2 \in [Home -> Values \cup {Torn}] /\ hm2[b] = Unescaped(lg, A[m]) /\ \A x \in Home : x # b => hm2[x] = hm[x]
  BY <1>5, <1>7
<1>9. Settles(lg, p, nx, hm2, wt)
  <2>1. m \in DOMAIN p.all /\ ~IsRevoked(p.gone, p.all[m]) /\ \A x \in Home : x # p.all[m].tag.block => hm2[x] = hm[x]
    BY <1>2, <1>3, <1>4, <1>6, <1>8
  <2> QED
    BY <2>1, SettlesStill
<1>10. DOMAIN td2 = DOMAIN td \ {m} /\ \A i \in DOMAIN td2 : td2[i] = td[i]
  BY DEF Restrict
<1>11. \A i \in DOMAIN td2 : i \in DOMAIN A /\ ~IsRevoked(G, A[i]) /\ td2[i] = A[i]
  BY <1>4, <1>10
<1>12. ASSUME NEW i \in DOMAIN td2, NEW j \in DOMAIN A, j >= i, ~IsRevoked(G, A[j]) PROVE j \in DOMAIN td2
  <2>1. i \in DOMAIN td /\ i # m /\ j \in DOMAIN td
    BY <1>4, <1>10, <1>12
  <2>2. m <= i /\ i \in Nat /\ j \in Nat /\ m \in Nat
    BY <1>1, <1>2, <2>1
  <2>3. j # m
    BY <1>12, <2>1, <2>2
  <2> QED
    BY <1>10, <2>1, <2>3
<1>13. ASSUME NEW x \in Home, \A i \in DOMAIN td2 : td2[i].tag.block # x PROVE hm2[x] = wt[x]
  <2>1. CASE x # b
    <3>1. \A i \in DOMAIN td : td[i].tag.block # x
      BY <1>6, <1>10, <1>13, <2>1
    <3> QED
      BY <1>4, <1>8, <2>1, <3>1
  <2>2. CASE x = b
    <3>1. m \in Hits(A, G, x)
      BY <1>2, <1>4, <1>6, <2>2 DEF Hits
    <3>2. PICK h : h = Max(Hits(A, G, x)) /\ h \in Hits(A, G, x) /\ h >= m
      BY <1>3, <3>1, HitsMax
    <3>3. h \in DOMAIN A /\ ~IsRevoked(G, A[h]) /\ A[h].tag.block = x
      BY <3>2 DEF Hits
    <3>4. h \in DOMAIN td
      BY <1>2, <1>4, <3>2, <3>3
    <3>5. h = m
      BY <1>4, <1>10, <1>13, <3>3, <3>4
    <3>6. wt[x] = Unescaped(lg, A[h])
      BY <1>5, <3>1, <3>2 DEF Holds
    <3> QED
      BY <1>8, <2>2, <3>5, <3>6
  <2> QED
    BY <2>1, <2>2
<1>14. Copying(p, td2, hm2, wt)
  BY <1>3, <1>11, <1>12, <1>13 DEF Copying
<1> QED
  BY <1>8, <1>9, <1>14

\* Pass 3 copies a block.
LEMMA ReplayBlockStep ==
    ASSUME Journalled, Gate', ReplayBlock
    PROVE  Journalled'
<1>1. TypeOK /\ log \in Logs /\ Numbered /\ Recoverable /\ Replaying /\ pc = "replay" /\ DOMAIN todo # {}
  BY DEF Journalled, ReplayBlock
<1>2. UNCHANGED <<features, log, start, seq, flag, pc, end, head, next, txs, want, damaged>>
  BY DEF ReplayBlock, linux
<1>3. PICK m : m = Min(DOMAIN todo)
  OBVIOUS
<1>4. home' = [home EXCEPT ![todo[m].tag.block] = Unescaped(log, todo[m])] /\ todo' = Restrict(todo, DOMAIN todo \ {m})
  BY <1>3 DEF ReplayBlock, Foremost
<1>5. start # 0 /\ end = next
  BY <1>1 DEF Replaying
<1>6. PICK p \in States : p = Final(log, features.csum, start, seq)
  BY <1>1, <1>5, Scans
<1>7. Settles(log, p, next, home, want) /\ Copying(p, todo, home, want)
  BY <1>1, <1>6 DEF Replaying
<1>8. home \in [Home -> Values \cup {Torn}]
  BY <1>1 DEF TypeOK
<1>9. PICK hm2, td2 : hm2 = home' /\ td2 = todo'
  OBVIOUS
<1>10. hm2 = [home EXCEPT ![todo[m].tag.block] = Unescaped(log, todo[m])] /\ td2 = Restrict(todo, DOMAIN todo \ {m})
  BY <1>4, <1>9
<1>11. /\ hm2 \in [Home -> Values \cup {Torn}]
       /\ Settles(log, p, next, hm2, want) /\ Copying(p, td2, hm2, want)
  BY <1>1, <1>3, <1>7, <1>8, <1>10, CopyOne
<1>12. \A i \in DOMAIN td2 : td2[i].at \in Slots /\ td2[i].tag.block \in Home
  BY <1>11, CopyingTyped
<1>13. Final(log, features.csum, start, seq)' = p
  BY <1>2, <1>6
<1>14. Replaying'
  BY <1>1, <1>2, <1>5, <1>9, <1>11, <1>13 DEF Replaying
<1>15. Recoverable'
  BY <1>1, <1>2, <1>5, <1>9, <1>11, <1>13 DEF Recoverable, Outcome
<1>16. Numbered'
  BY <1>1, <1>2 DEF Numbered
<1>17. TypeOK' /\ log' \in Logs
  BY <1>1, <1>2, <1>9, <1>11, <1>12 DEF TypeOK
<1> QED
  BY <1>14, <1>15, <1>16, <1>17 DEF Journalled

\* The log is emptied: every block is home, and the next number is past every header in the log.
LEMMA EmptyLogStep ==
    ASSUME Journalled, Gate', EmptyLog
    PROVE  Journalled'
<1>1. TypeOK /\ log \in Logs /\ Numbered /\ Recoverable /\ Replaying /\ pc = "replay" /\ DOMAIN todo = {}
  BY DEF Journalled, EmptyLog
<1>2. /\ start' = 0 /\ seq' = Succ(end) /\ pc' = "clearFlag"
      /\ UNCHANGED <<features, log, home, flag, todo, end, head, next, txs, want, damaged>>
  BY DEF EmptyLog, linux
<1>3. start # 0 /\ end = next
  BY <1>1 DEF Replaying
<1>4. home = want
  <2>1. \A x \in Home : home[x] = want[x]
    BY <1>1 DEF Replaying, Copying
  <2>2. home \in [Home -> Values \cup {Torn}] /\ want \in [Home -> Values]
    BY <1>1 DEF TypeOK
  <2> QED
    BY <2>1, <2>2
<1>5. next \in Seqs /\ txs \in Nat /\ txs <= MaxTx /\ MaxTx \in Nat /\ SeqSpan \in Nat /\ SeqSpan > 2 * (2 * MaxTx + 2)
  BY <1>1, JournalAssumption DEF TypeOK, Seqs
<1>6. Age(next) + 1 <= 2 * txs /\ NotNewer(log, next)
  BY <1>1, <1>3 DEF Numbered
<1>7. Age(next) \in Nat
  BY <1>5, AgeIs DEF Seqs
<1>8. Age(next) + 1 < SeqSpan
  BY <1>5, <1>6, <1>7
<1>9. Succ(next) \in Seqs /\ Age(Succ(next)) = Age(next) + 1
  BY <1>5, <1>8, AgeSucc
<1>10. Older(log, Succ(next))
  <2> SUFFICES ASSUME NEW i \in Slots, log[i].k \in Headers PROVE Age(log[i].seq) < Age(Succ(next))
    BY DEF Older
  <2>1. Age(log[i].seq) <= Age(next)
    BY <1>6 DEF NotNewer
  <2>2. log[i].seq \in Seqs
    <3>1. log[i] \in Blocks
      BY <1>1 DEF Logs
    <3> QED
      BY <3>1, BlockKinds DEF Headers, Descs, Revokes, Commits
  <2>3. Age(log[i].seq) \in Int
    BY <2>2, AgeIs DEF Seqs
  <2> QED
    BY <1>7, <1>9, <2>1, <2>3
<1>11. seq' = Succ(next)
  BY <1>2, <1>3
<1>12. Numbered'
  BY <1>2, <1>6, <1>9, <1>10, <1>11 DEF Numbered
<1>13. Recoverable'
  BY <1>2, <1>4 DEF Recoverable
<1>14. Replaying'
  BY <1>1, <1>2 DEF Replaying
<1>15. TypeOK' /\ log' \in Logs
  <2>1. start' \in 0 .. LogLen /\ seq' \in 0 .. SeqSpan - 1
    BY <1>2, <1>9, <1>11, JournalAssumption DEF Seqs
  <2> QED
    BY <1>1, <1>2, <2>1 DEF TypeOK
<1> QED
  BY <1>12, <1>13, <1>14, <1>15 DEF Journalled

\* A replay that stops, perhaps in the middle of a block.
LEMMA StopStep ==
    ASSUME Journalled, Gate', pc # "linux", pc' \in {"out", "needsRecovery"},
           UNCHANGED home \/ (DOMAIN todo # {} /\ home' = [home EXCEPT ![Foremost.tag.block] = Torn]),
           todo' = <<>>, end' = 0,
           UNCHANGED <<features, log, start, seq, flag, head, next, txs, want, damaged>>
    PROVE  Journalled'
<1>1. TypeOK /\ log \in Logs /\ Numbered /\ Recoverable /\ Replaying
  BY DEF Journalled
<1>2. DOMAIN todo' = {} /\ pc' # "linux" /\ pc' # "replay"
  OBVIOUS
<1>3. home \in [Home -> Values \cup {Torn}]
  BY <1>1 DEF TypeOK
<1>4. /\ home' \in [Home -> Values \cup {Torn}]
      /\ start = 0 => home' = want
      /\ start # 0 => Outcome(log, features.csum, Final(log, features.csum, start, seq), next, home', want)
  <2>1. CASE UNCHANGED home
    BY <1>1, <1>3, <2>1 DEF Recoverable
  <2>2. CASE DOMAIN todo # {} /\ home' = [home EXCEPT ![Foremost.tag.block] = Torn]
    <3>1. pc = "replay" /\ start # 0
      BY <1>1, <2>2 DEF Replaying
    <3>2. PICK p \in States : p = Final(log, features.csum, start, seq)
      BY <1>1, <3>1, Scans
    <3>3. Settles(log, p, next, home, want) /\ Copying(p, todo, home, want)
      BY <1>1, <3>1, <3>2 DEF Replaying
    <3>4. PICK m : m = Min(DOMAIN todo) /\ home' = [home EXCEPT ![todo[m].tag.block] = Torn]
      BY <2>2 DEF Foremost
    <3>5. m \in DOMAIN todo
      BY <2>2, <3>3, <3>4, CopyingTyped, MinIs
    <3>6. m \in DOMAIN p.all /\ ~IsRevoked(p.gone, p.all[m]) /\ todo[m] = p.all[m]
      BY <3>3, <3>5 DEF Copying
    <3>7. home' \in [Home -> Values \cup {Torn}] /\ \A x \in Home : x # p.all[m].tag.block => home'[x] = home[x]
      BY <1>3, <3>4, <3>6
    <3>8. PICK hm2 : hm2 = home'
      OBVIOUS
    <3>9. \A x \in Home : x # p.all[m].tag.block => hm2[x] = home[x]
      BY <3>7, <3>8
    <3>10. Settles(log, p, next, hm2, want)
      BY <3>3, <3>6, <3>9, SettlesStill
    <3> QED
      BY <3>1, <3>2, <3>7, <3>8, <3>10 DEF Outcome
  <2> QED
    BY <2>1, <2>2
<1>5. Recoverable'
  BY <1>2, <1>4 DEF Recoverable
<1>6. Numbered'
  BY <1>1, <1>2 DEF Numbered
<1>7. Replaying'
  BY <1>2 DEF Replaying
<1>8. TypeOK' /\ log' \in Logs
  <2>1. end' \in 0 .. SeqSpan - 1
    BY JournalAssumption
  <2> QED
    BY <1>1, <1>2, <1>4, <2>1 DEF TypeOK
<1> QED
  BY <1>5, <1>6, <1>7, <1>8 DEF Journalled

\* A write of the replay fails.
LEMMA WriteFailsStep ==
    ASSUME Journalled, Gate', WriteFails
    PROVE  Journalled'
<1>1. /\ pc # "linux" /\ pc' \in {"out", "needsRecovery"}
      /\ UNCHANGED home \/ (DOMAIN todo # {} /\ home' = [home EXCEPT ![Foremost.tag.block] = Torn])
      /\ todo' = <<>> /\ end' = 0
      /\ UNCHANGED <<features, log, start, seq, flag, head, next, txs, want, damaged>>
  BY DEF WriteFails, linux
<1> QED
  BY <1>1, StopStep

\* The drive is pulled.
LEMMA UnplugStep ==
    ASSUME Journalled, Gate', Unplug
    PROVE  Journalled'
<1>1. /\ pc # "linux" /\ pc' \in {"out", "needsRecovery"}
      /\ UNCHANGED home \/ (DOMAIN todo # {} /\ home' = [home EXCEPT ![Foremost.tag.block] = Torn])
      /\ todo' = <<>> /\ end' = 0
      /\ UNCHANGED <<features, log, start, seq, flag, head, next, txs, want, damaged>>
  BY DEF Unplug, linux
<1> QED
  BY <1>1, StopStep

\* A block of the log goes bad: the replay refuses, or does not need it.
LEMMA DamageStep ==
    ASSUME Journalled, Gate', NEW i \in Slots, Damage(i)
    PROVE  Journalled'
<1>1. TypeOK /\ log \in Logs /\ Numbered /\ Recoverable /\ Replaying /\ pc = "out" /\ start # 0
  BY DEF Journalled, Damage
<1>2. /\ damaged' = TRUE
      /\ UNCHANGED <<features, start, seq, home, flag, pc, todo, end, head, next, txs, want>>
  BY DEF Damage, linux
<1>3. PICK lg2, cs : lg2 = log' /\ cs = features.csum
  OBVIOUS
<1>4. BadAt(log, lg2, i) /\ Checks(cs)
  <2>1. log[i].k \in {"desc", "revoke", "data"} /\ lg2 = [log EXCEPT ![i] = Spoilt(log[i])]
    BY <1>3 DEF Damage
  <2>2. features.csum
    BY DEF Damage
  <2> QED
    BY <1>1, <1>3, <2>1, <2>2, FeaturesAre DEF BadAt, Checks
<1>5. lg2 \in Logs
  BY <1>1, <1>4, BadIs
<1>6. PICK g, g2 : g = After(log, cs, start, seq) /\ g2 = After(lg2, cs, start, seq)
  OBVIOUS
<1>7. Running(g, log, cs, start, seq) /\ Final(log, cs, start, seq) = g[Turns]
  BY <1>1, <1>3, <1>6, Scans
<1>8. Running(g2, lg2, cs, start, seq)
  BY <1>5, <1>6, <1>7 DEF Running
<1>9. Outcome(log, cs, g[Turns], next, home, want)
  BY <1>1, <1>3, <1>7 DEF Recoverable
<1>10. Outcome(lg2, cs, g2[Turns], next, home, want)
  BY <1>4, <1>7, <1>8, <1>9, BadKeeps
<1>11. Recoverable'
  BY <1>1, <1>2, <1>3, <1>6, <1>10 DEF Recoverable, Final
<1>12. NotNewer(lg2, next)
  <2> SUFFICES ASSUME NEW j \in Slots, lg2[j].k \in Headers PROVE Age(lg2[j].seq) <= Age(next)
    BY DEF NotNewer
  <2>1. NotNewer(log, next)
    BY <1>1 DEF Numbered
  <2>2. lg2[j].k = log[j].k /\ lg2[j].seq = log[j].seq
    <3>1. CASE j # i
      BY <1>1, <1>4, <3>1, BadIs
    <3>2. CASE j = i
      <4>1. /\ lg2[i].k = log[i].k /\ (log[i].k \in {"desc", "revoke"} => lg2[i].seq = log[i].seq)
            /\ log[i].k \in {"desc", "revoke", "data"}
        BY <1>1, <1>4, BadIs DEF BadAt
      <4> QED
        BY <3>2, <4>1 DEF Headers
    <3> QED
      BY <3>1, <3>2
  <2> QED
    BY <2>1, <2>2 DEF NotNewer
<1>13. Numbered'
  BY <1>1, <1>2, <1>3, <1>12 DEF Numbered
<1>14. Replaying'
  BY <1>1, <1>2 DEF Replaying
<1>15. TypeOK' /\ log' \in Logs
  BY <1>1, <1>2, <1>3, <1>5 DEF TypeOK
<1> QED
  BY <1>11, <1>13, <1>14, <1>15 DEF Journalled

\* The app writes a volume whose log is empty.
LEMMA UserWriteStep ==
    ASSUME Journalled, Gate', NEW b \in Home, NEW v \in Values, UserWrite(b, v)
    PROVE  Journalled'
<1>1. TypeOK /\ log \in Logs /\ Numbered /\ Recoverable /\ Replaying /\ pc = "writable" /\ start = 0
  BY DEF Journalled, UserWrite, Gate, WritableMeansEmptyLog
<1>2. /\ home' = [home EXCEPT ![b] = v] /\ want' = [want EXCEPT ![b] = v]
      /\ UNCHANGED <<features, log, start, seq, flag, pc, todo, end, head, next, txs, damaged>>
  BY DEF UserWrite, linux
<1>3. home = want
  BY <1>1 DEF Recoverable
<1>4. Recoverable'
  BY <1>1, <1>2, <1>3 DEF Recoverable
<1>5. Numbered'
  BY <1>1, <1>2 DEF Numbered
<1>6. Replaying'
  BY <1>1, <1>2 DEF Replaying
<1>7. TypeOK' /\ log' \in Logs
  <2>1. home' \in [Home -> Values \cup {Torn}] /\ want' \in [Home -> Values]
    BY <1>1, <1>2 DEF TypeOK
  <2> QED
    BY <1>1, <1>2, <2>1 DEF TypeOK
<1> QED
  BY <1>4, <1>5, <1>6, <1>7 DEF Journalled

\* Nothing happens.
LEMMA JournalStutter ==
    ASSUME Journalled, UNCHANGED vars
    PROVE  Journalled'
<1>1. UNCHANGED <<features, log, start, seq, home, flag, pc, todo, end, head, next, txs, want, damaged>>
  BY DEF vars, disk, linux
<1>2. TypeOK /\ log \in Logs /\ Gate /\ Numbered /\ Recoverable /\ Replaying
  BY DEF Journalled
<1>3. TypeOK' /\ log' \in Logs
  BY <1>1, <1>2 DEF TypeOK
<1>4. Gate'
  BY <1>1, <1>2 DEF Gate, WritableMeansEmptyLog
<1>5. Numbered' /\ Replaying'
  BY <1>1, <1>2 DEF Numbered, Replaying
<1>6. From' = From /\ FromSeq' = FromSeq
  BY <1>1 DEF From, FromSeq
<1>7. Recoverable'
  BY <1>1, <1>2, <1>6 DEF Recoverable
<1> QED
  BY <1>3, <1>4, <1>5, <1>7 DEF Journalled

\* Every step keeps the invariant.
LEMMA JournalStep ==
    ASSUME Journalled, [Next]_vars
    PROVE  Journalled'
<1>1. Gate'
  BY GateStep DEF Journalled
<1>2. ASSUME NEW tx \in Txs, NEW v \in Values, LinuxCommit(tx[1], tx[2], v) PROVE Journalled'
  BY <1>1, <1>2, CommitStep
<1>3. ASSUME NEW tx \in Txs, LinuxTear(tx[1], tx[2]) PROVE Journalled'
  BY <1>1, <1>3, TearStep
<1>4. ASSUME NEW b \in Home, LinuxWriteback(b) PROVE Journalled'
  BY <1>1, <1>4, WritebackStep
<1>5. CASE LinuxCheckpoint
  BY <1>1, <1>5, CheckpointStep
<1>6. CASE LinuxCut
  BY <1>1, <1>6, CutStep
<1>7. CASE LinuxMount
  BY <1>1, <1>7, MountStep
<1>8. ASSUME NEW i \in Slots, Damage(i) PROVE Journalled'
  BY <1>1, <1>8, DamageStep
<1>9. ASSUME NEW ro \in BOOLEAN, Mount(ro) PROVE Journalled'
  BY <1>1, <1>9, AppMountStep
<1>10. CASE Recover
  BY <1>1, <1>10, RecoverStep
<1>11. CASE Refuse
  BY <1>1, <1>11, RefuseStep
<1>12. CASE ReplayBlock
  BY <1>1, <1>12, ReplayBlockStep
<1>13. CASE EmptyLog
  BY <1>1, <1>13, EmptyLogStep
<1>14. CASE ClearFlag
  BY <1>1, <1>14, ClearFlagStep
<1>15. CASE WriteFails
  BY <1>1, <1>15, WriteFailsStep
<1>16. CASE Unplug
  BY <1>1, <1>16, UnplugStep
<1>17. ASSUME NEW b \in Home, NEW v \in Values, UserWrite(b, v) PROVE Journalled'
  BY <1>1, <1>17, UserWriteStep
<1>18. CASE UNCHANGED vars
  BY <1>18, JournalStutter
<1> QED
  BY <1>2, <1>3, <1>4, <1>5, <1>6, <1>7, <1>8, <1>9, <1>10, <1>11, <1>12, <1>13, <1>14, <1>15, <1>16, <1>17,
     <1>18 DEF Next

\* It holds at first.
LEMMA JournalInit ==
    ASSUME Init
    PROVE  Journalled
<1>1. /\ start = 0 /\ seq = FirstSeq /\ next = FirstSeq /\ txs = 0 /\ pc = "linux" /\ flag = TRUE /\ damaged = FALSE
      /\ todo = <<>> /\ end = 0 /\ log = [i \in Slots |-> Empty] /\ head \in FirstHeads
      /\ home \in FirstContents /\ want = home /\ features \in Features
  BY DEF Init
<1>2. /\ LogLen \in Nat \ {0} /\ SeqSpan \in Nat \ {0} /\ MaxTx \in Nat /\ FirstSeq \in 0 .. SeqSpan - 1
      /\ FirstHeads \subseteq 1 .. LogLen /\ FirstContents \subseteq [Home -> Values]
  BY JournalAssumption
<1>3. log \in Logs /\ \A i \in Slots : log[i].k = "none"
  <2>1. Empty \in Blocks /\ Empty.k = "none"
    BY DEF Empty, Blocks
  <2> QED
    BY <1>1, <2>1 DEF Logs
<1>4. home \in [Home -> Values] /\ home \in [Home -> Values \cup {Torn}] /\ head \in Slots /\ DOMAIN todo = {}
  BY <1>1, <1>2 DEF Slots
<1>5. TypeOK
  <2>1. start \in 0 .. LogLen /\ txs \in 0 .. MaxTx /\ seq \in 0 .. SeqSpan - 1 /\ next \in 0 .. SeqSpan - 1 /\ end \in 0 .. SeqSpan - 1
    BY <1>1, <1>2
  <2>2. flag \in BOOLEAN /\ damaged \in BOOLEAN /\ want \in [Home -> Values]
    BY <1>1, <1>4
  <2> QED
    BY <1>1, <1>4, <2>1, <2>2 DEF TypeOK
<1>6. Age(FirstSeq) = 0 /\ FirstSeq \in Seqs
  BY <1>2 DEF Age, Seqs
<1>7. Older(log, FirstSeq)
  BY <1>3 DEF Older, Headers
<1>8. Numbered
  BY <1>1, <1>6, <1>7 DEF Numbered
<1>9. From = head /\ FromSeq = FirstSeq
  BY <1>1 DEF From, FromSeq
<1>10. PICK cs, g : cs = features.csum /\ g = After(log, cs, head, FirstSeq)
  OBVIOUS
<1>11. Running(g, log, cs, head, FirstSeq) /\ 2 * Age(FirstSeq) < SeqSpan
  BY <1>2, <1>3, <1>4, <1>5, <1>6, <1>10, FeaturesAre DEF Running
<1>12. InLog(log, cs, head, FirstSeq, head, FirstSeq, want, want)
  BY <1>11, NothingInLog
<1>13. Recoverable
  BY <1>1, <1>9, <1>10, <1>12 DEF Recoverable
<1>14. Replaying
  BY <1>1, <1>4 DEF Replaying
<1>15. Gate
  BY <1>1 DEF Gate, WritableMeansEmptyLog
<1> QED
  BY <1>3, <1>5, <1>8, <1>13, <1>14, <1>15 DEF Journalled

\* And always.
LEMMA JournalAlways == Spec => []Journalled
<1>1. Init => Journalled
  BY JournalInit
<1>2. Journalled /\ [Next]_vars => Journalled'
  BY JournalStep
<1> QED
  BY <1>1, <1>2, PTL DEF Spec

\* Through every commit, tear, damage, replay and unplugging, the state keeps its shape: home blocks hold
\* contents or a torn write, and pass 3 copies log blocks to home blocks (Ext4Journal.kt, recover).
THEOREM JournalTyped == Spec => []TypeOK
<1>1. Journalled => TypeOK
  BY DEF Journalled
<1> QED
  BY <1>1, JournalAlways, PTL

\* The invariant implies that home blocks and log hold what was committed.
LEMMA HoldsCommitted == Journalled => VolumeHoldsCommitted
<1> SUFFICES ASSUME Journalled, ~(start # 0 /\ Plan.refused) PROVE Content = want
  BY DEF VolumeHoldsCommitted
<1>1. TypeOK /\ log \in Logs /\ Numbered /\ Recoverable
  BY DEF Journalled
<1>2. CASE start = 0
  BY <1>1, <1>2 DEF Content, Recoverable
<1>3. CASE start # 0
  <2>1. PICK g, cs : cs = features.csum /\ g = After(log, cs, start, seq)
    OBVIOUS
  <2>2. Running(g, log, cs, start, seq) /\ Final(log, cs, start, seq) = g[Turns] /\ g[Turns] \in States
    BY <1>1, <1>3, <2>1, Scans
  <2>3. PICK p \in States : p = g[Turns] /\ p = Final(log, features.csum, start, seq)
    BY <2>1, <2>2
  <2>4. Settles(log, p, next, home, want)
    <3>1. CASE pc = "linux"
      <4>1. From = start /\ FromSeq = seq
        BY <1>3 DEF From, FromSeq
      <4>2. InLog(log, cs, start, seq, head, next, home, want) /\ Older(log, next)
        BY <1>1, <2>1, <3>1, <4>1 DEF Recoverable, Numbered
      <4>3. head \in Slots /\ next \in Seqs
        BY <1>1 DEF TypeOK, Seqs
      <4>4. Settles(log, g[Turns], next, home, want)
        BY <2>2, <4>2, <4>3, Finishes
      <4> QED
        BY <2>3, <4>4
    <3>2. CASE pc # "linux"
      <4>1. Outcome(log, features.csum, p, next, home, want)
        BY <1>1, <1>3, <2>3, <3>2 DEF Recoverable
      <4>2. ~Refuses(log, p, features.csum)
        BY <1>3, <2>3, PlanIs
      <4> QED
        BY <4>1, <4>2 DEF Outcome
    <3> QED
      BY <3>1, <3>2
  <2>5. Holds(p.all, p.gone, log, home, want) /\ want \in [Home -> Values]
    BY <1>1, <2>4 DEF Settles, TypeOK
  <2> QED
    BY <1>3, <2>3, <2>5, ContentIs
<1> QED
  BY <1>2, <1>3

\* Home blocks and log together hold exactly what was committed or written, wherever the drive is
\* pulled and however often Ext4Journal.kt's replay is tried, unless the replay refuses the journal.
THEOREM ReplayKeepsCommitted == Spec => []VolumeHoldsCommitted
BY JournalAlways, HoldsCommitted, PTL

\* The app writes a volume only once its log is empty and needs_recovery is cleared
\* (Ext4FileSystem.create, and the order of recover's last two writes).
THEOREM WritesFollowReplay == Spec => []WritableMeansEmptyLog
<1>1. Journalled => WritableMeansEmptyLog
  BY DEF Journalled, Gate
<1> QED
  BY <1>1, JournalAlways, PTL
=============================================================================
