------------------------ MODULE UsbBlockDeviceProofs ------------------------
(***************************************************************************)
(* Proofs about module UsbBlockDevice, for any number of threads and any    *)
(* size of the drive, of its transfers and of the replay window: the types,  *)
(* and that acknowledged writes survive resets, but for what one thread's    *)
(* writes push out of the window while another's replay is due.              *)
(***************************************************************************)
EXTENDS UsbBlockDevice, SequenceTheorems, WellFoundedInduction, TLAPS

USE UsbAssumption

-----------------------------------------------------------------------------
(* Least and greatest elements.                                             *)

\* Every nonempty set of naturals has a least element: induction, as the proofs below use it.
LEMMA LeastNatural ==
    ASSUME NEW T, T \subseteq Nat, T # {}
    PROVE  \E x \in T : \A y \in T : x <= y
<1>1. IsWellFoundedOn(OpToRel(<, Nat), Nat)
  BY NatLessThanWellFounded
<1>2. \A x, y \in Nat : x < y => <<x, y>> \in OpToRel(<, Nat)
  BY DEF OpToRel
<1>3. \E R : IsWellFoundedOn(R, Nat) /\ \A x, y \in Nat : x < y => <<x, y>> \in R
  BY <1>1, <1>2
<1>4. PICK R : IsWellFoundedOn(R, Nat) /\ \A x, y \in Nat : x < y => <<x, y>> \in R
  BY <1>3
<1>5. IsWellFoundedOn(R, Nat)
  BY <1>4
<1>6. \E x \in T : \A y \in T : ~(<<y, x>> \in R)
  BY <1>5, WFMin
<1>7. PICK x \in T : \A y \in T : ~(<<y, x>> \in R)
  BY <1>6
<1>8. ASSUME NEW y \in T PROVE x <= y
  <2>1. ~(y < x)
    BY <1>4, <1>7
  <2> QED
    BY <2>1
<1> QED
  BY <1>8

\* Min of a set of naturals is its least element.
LEMMA MinIs ==
    ASSUME NEW T, T \subseteq Nat, T # {}
    PROVE  Min(T) \in T /\ \A y \in T : Min(T) <= y
<1>1. \E x \in T : \A y \in T : x =< y
  BY LeastNatural
<1> QED
  BY <1>1 DEF Min

\* Max of a nonempty set of naturals with a bound is its greatest element.
LEMMA MaxIs ==
    ASSUME NEW n \in Nat, NEW T, T \subseteq 0 .. n, T # {}
    PROVE  Max(T) \in T /\ \A y \in T : Max(T) >= y
<1> DEFINE U == {n - x : x \in T}
<1>1. U \subseteq Nat /\ U # {}
  OBVIOUS
<1>2. PICK u \in U : \A v \in U : u <= v
  BY <1>1, LeastNatural
<1>3. PICK x \in T : u = n - x
  BY <1>2
<1>4. ASSUME NEW y \in T PROVE x >= y
  <2>1. n - y \in U /\ x \in 0 .. n /\ y \in 0 .. n
    BY <1>3
  <2>2. n - x <= n - y
    BY <1>2, <1>3, <2>1
  <2> HIDE DEF U
  <2> QED
    BY <2>1, <2>2
<1>5. \E z \in T : \A y \in T : z >= y
  BY <1>4
<1> QED
  BY <1>5 DEF Max

\* Min and Max of two numbers.
LEMMA OfTwo ==
    ASSUME NEW a \in Nat, NEW b \in Nat
    PROVE  /\ Min({a, b}) \in Nat /\ Min({a, b}) <= a /\ Min({a, b}) <= b
           /\ Min({a, b}) = a \/ Min({a, b}) = b
           /\ Max({a, b}) \in Nat /\ Max({a, b}) >= a /\ Max({a, b}) >= b
           /\ Max({a, b}) = a \/ Max({a, b}) = b
<1>1. Min({a, b}) \in {a, b} /\ \A y \in {a, b} : Min({a, b}) <= y
  BY MinIs
<1>2. {a, b} \subseteq 0 .. a + b
  OBVIOUS
<1>3. Max({a, b}) \in {a, b} /\ \A y \in {a, b} : Max({a, b}) >= y
  BY <1>2, MaxIs
<1> QED
  BY <1>1, <1>3

-----------------------------------------------------------------------------
(* The window of recent writes.                                             *)

WriteSet == [at : Blocks, n : 1 .. MaxTransfer, val : Data]

\* f adds up the sizes of the first n writes.
AddsUp(f, ws, n) == f[0] = 0 /\ \A i \in 1 .. n : f[i] = f[i - 1] + ws[i].n

\* Two functions that add up the same sizes agree.
LEMMA TotalsAgree ==
    ASSUME NEW n \in Nat, NEW f, NEW g, NEW ws, AddsUp(f, ws, n), AddsUp(g, ws, n)
    PROVE  \A i \in 0 .. n : f[i] = g[i]
<1> DEFINE T == {i \in 0 .. n : f[i] # g[i]}
<1> SUFFICES ASSUME T # {} PROVE FALSE
  OBVIOUS
<1>1. T \subseteq Nat
  OBVIOUS
<1>2. PICK k \in T : \A y \in T : k <= y
  <2> HIDE DEF T
  <2> QED
    BY <1>1, LeastNatural
<1>3. k \in 1 .. n /\ k - 1 \in 0 .. n /\ ~(k <= k - 1)
  BY <1>2 DEF AddsUp
<1>4. f[k - 1] = g[k - 1]
  BY <1>2, <1>3
<1> QED
  BY <1>2, <1>3, <1>4 DEF AddsUp

\* The running totals of a sequence of writes exist: Sizes is what its definition says.
LEMMA SizesIs ==
    ASSUME NEW ws \in Seq(WriteSet)
    PROVE  \E f \in [0 .. Len(ws) -> Nat] :
              AddsUp(f, ws, Len(ws)) /\ Sizes(ws) = f[Len(ws)]
<1> DEFINE E(k) == \E f \in [0 .. k -> Nat] : AddsUp(f, ws, k)
           T == {k \in 0 .. Len(ws) : ~E(k)}
<1>1. Len(ws) \in Nat /\ \A i \in 1 .. Len(ws) : ws[i].n \in Nat
  <2>1. \A i \in 1 .. Len(ws) : ws[i] \in WriteSet
    BY ElementOfSeq
  <2> QED
    BY <2>1, LenProperties DEF WriteSet
<1>2. T = {}
  <2> SUFFICES ASSUME T # {} PROVE FALSE
    OBVIOUS
  <2>0. T \subseteq Nat
    BY <1>1
  <2>1. PICK k \in T : \A y \in T : k <= y
    <3> HIDE DEF T
    <3> QED
      BY <2>0, LeastNatural
  <2>2. k \in 0 .. Len(ws) /\ ~E(k)
    BY <2>1
  <2>3. k # 0
    <3> SUFFICES E(0)
      BY <2>2
    <3> DEFINE f == [i \in 0 .. 0 |-> 0]
    <3>1. f \in [0 .. 0 -> Nat] /\ AddsUp(f, ws, 0)
      BY DEF AddsUp
    <3> QED
      BY <3>1
  <2>4. E(k - 1)
    <3>1. k - 1 \in 0 .. Len(ws) /\ ~(k <= k - 1)
      BY <1>1, <2>2, <2>3
    <3>2. k - 1 \notin T
      BY <2>1, <3>1
    <3> QED
      BY <3>1, <3>2
  <2>5. PICK f \in [0 .. (k - 1) -> Nat] : AddsUp(f, ws, k - 1)
    BY <2>4
  <2> DEFINE g == [i \in 0 .. k |-> IF i < k THEN f[i] ELSE f[k - 1] + ws[k].n]
  <2>6. k \in 1 .. Len(ws) /\ k - 1 \in 0 .. (k - 1)
    BY <1>1, <2>2, <2>3
  <2>7. g \in [0 .. k -> Nat]
    BY <1>1, <2>6
  <2>8. AddsUp(g, ws, k)
    <3>1. g[0] = 0
      BY <2>5, <2>6 DEF AddsUp
    <3>2. ASSUME NEW i \in 1 .. k PROVE g[i] = g[i - 1] + ws[i].n
      <4>1. CASE i < k
        BY <1>1, <2>5, <2>6, <4>1 DEF AddsUp
      <4>2. CASE i = k
        BY <1>1, <2>5, <2>6, <4>2 DEF AddsUp
      <4> QED
        BY <2>6, <4>1, <4>2
    <3> QED
      BY <3>1, <3>2 DEF AddsUp
  <2> QED
    BY <2>2, <2>7, <2>8
<1>3. PICK f \in [0 .. Len(ws) -> Nat] : AddsUp(f, ws, Len(ws))
  <2>1. Len(ws) \in 0 .. Len(ws)
    BY <1>1
  <2> QED
    BY <1>2, <2>1
<1> DEFINE Def(h) == [i \in 0 .. Len(ws) |-> IF i = 0 THEN 0 ELSE h[i - 1] + ws[i].n]
           upTo == CHOOSE h : h = Def(h)
<1>4. f = Def(f)
  <2>1. \A i \in 0 .. Len(ws) : f[i] = Def(f)[i]
    BY <1>1, <1>3 DEF AddsUp
  <2> QED
    BY <2>1
<1>5. upTo = Def(upTo)
  BY <1>4
<1>6. Sizes(ws) = upTo[Len(ws)]
  BY DEF Sizes
<1>7. AddsUp(upTo, ws, Len(ws))
  <2>1. \A i \in 0 .. Len(ws) : upTo[i] = IF i = 0 THEN 0 ELSE upTo[i - 1] + ws[i].n
    <3> HIDE DEF upTo
    <3> QED
      BY <1>5
  <2> HIDE DEF upTo
  <2>2. upTo[0] = 0
    BY <1>1, <2>1
  <2>3. ASSUME NEW i \in 1 .. Len(ws) PROVE upTo[i] = upTo[i - 1] + ws[i].n
    <3>1. i \in 0 .. Len(ws) /\ i # 0
      BY <1>1
    <3> QED
      BY <2>1, <3>1
  <2> QED
    BY <2>2, <2>3 DEF AddsUp
<1> HIDE DEF upTo
<1>8. \A i \in 0 .. Len(ws) : upTo[i] = f[i]
  BY <1>1, <1>3, <1>7, TotalsAgree
<1>9. Sizes(ws) = f[Len(ws)]
  BY <1>1, <1>6, <1>8
<1> QED
  BY <1>3, <1>9

\* How many blocks a window holds, when it is empty and when a write is added.
LEMMA SizesProperties ==
    /\ Sizes(<<>>) = 0
    /\ \A ws \in Seq(WriteSet) : Sizes(ws) \in Nat
    /\ \A ws \in Seq(WriteSet), e \in WriteSet : Sizes(Append(ws, e)) = Sizes(ws) + e.n
<1>1. ASSUME NEW ws \in Seq(WriteSet) PROVE Sizes(ws) \in Nat
  <2>1. PICK f \in [0 .. Len(ws) -> Nat] : AddsUp(f, ws, Len(ws)) /\ Sizes(ws) = f[Len(ws)]
    BY SizesIs
  <2>2. Len(ws) \in 0 .. Len(ws)
    BY LenProperties
  <2> QED
    BY <2>1, <2>2
<1>2. Sizes(<<>>) = 0
  <2>1. <<>> \in Seq(WriteSet) /\ Len(<<>>) = 0
    BY EmptySeq
  <2>2. PICK f \in [0 .. 0 -> Nat] : AddsUp(f, <<>>, 0) /\ Sizes(<<>>) = f[0]
    BY <2>1, SizesIs
  <2> QED
    BY <2>2 DEF AddsUp
<1>3. ASSUME NEW ws \in Seq(WriteSet), NEW e \in WriteSet
      PROVE  Sizes(Append(ws, e)) = Sizes(ws) + e.n
  <2> DEFINE n == Len(ws)
             s == Append(ws, e)
  <2>1. /\ s \in Seq(WriteSet) /\ n \in Nat /\ Len(s) = n + 1
        /\ \A i \in 1 .. n : s[i] = ws[i]
        /\ s[n + 1] = e
    BY AppendProperties, LenProperties
  <2>2. PICK f \in [0 .. n -> Nat] : AddsUp(f, ws, n) /\ Sizes(ws) = f[n]
    BY SizesIs
  <2> HIDE DEF s, n
  <2>3. PICK g \in [0 .. Len(s) -> Nat] : AddsUp(g, s, Len(s)) /\ Sizes(s) = g[Len(s)]
    BY <2>1, SizesIs
  <2>4. AddsUp(g, ws, n)
    <3>1. \A i \in 1 .. n : i \in 1 .. Len(s)
      BY <2>1
    <3>2. g[0] = 0 /\ \A i \in 1 .. Len(s) : g[i] = g[i - 1] + s[i].n
      BY <2>3 DEF AddsUp
    <3> QED
      BY <2>1, <3>1, <3>2 DEF AddsUp
  <2>5. f[n] = g[n]
    BY <2>1, <2>2, <2>4, TotalsAgree
  <2>6. g[n + 1] = g[n] + e.n
    <3>1. n + 1 \in 1 .. Len(s) /\ (n + 1) - 1 = n
      BY <2>1
    <3> QED
      BY <2>1, <2>3, <3>1 DEF AddsUp
  <2>7. Sizes(s) = Sizes(ws) + e.n
    BY <2>1, <2>2, <2>3, <2>5, <2>6
  <2> QED
    BY <2>7 DEF s
<1> QED
  BY <1>1, <1>2, <1>3

\* The end of ws from its k-th write on.
LEMMA SuffixIs ==
    ASSUME NEW S, NEW ws \in Seq(S), NEW k \in 1 .. Len(ws) + 1
    PROVE  /\ SubSeq(ws, k, Len(ws)) \in Seq(S)
           /\ Len(SubSeq(ws, k, Len(ws))) = Len(ws) + 1 - k
           /\ \A i \in 1 .. Len(ws) + 1 - k : SubSeq(ws, k, Len(ws))[i] = ws[k + i - 1]
<1>1. Len(ws) \in Nat /\ \A i \in 1 .. Len(ws) : ws[i] \in S
  BY LenProperties, ElementOfSeq
<1>2. \A i \in k .. Len(ws) : ws[i] \in S
  BY <1>1
<1>3. /\ SubSeq(ws, k, Len(ws)) \in Seq(S)
      /\ Len(SubSeq(ws, k, Len(ws))) = IF k <= Len(ws) THEN Len(ws) - k + 1 ELSE 0
      /\ \A i \in 1 .. Len(ws) - k + 1 : SubSeq(ws, k, Len(ws))[i] = ws[k + i - 1]
  BY <1>1, <1>2, SubSeqProperties
<1> QED
  BY <1>1, <1>3

\* Newest keeps the longest end of the window that fits.
LEMMA NewestIs ==
    ASSUME NEW ws \in Seq(WriteSet), NEW size \in Nat
    PROVE  \E k \in 1 .. Len(ws) + 1 :
              /\ Newest(ws, size) = SubSeq(ws, k, Len(ws))
              /\ Sizes(Newest(ws, size)) <= size
              /\ \A i \in 1 .. Len(ws) : Sizes(SubSeq(ws, i, Len(ws))) <= size => k <= i
<1> DEFINE n == Len(ws)
           keep == {i \in DOMAIN ws : Sizes(SubSeq(ws, i, n)) <= size}
<1>1. n \in Nat /\ DOMAIN ws = 1 .. n
  BY LenProperties
<1>2. Newest(ws, size) = IF keep = {} THEN <<>> ELSE SubSeq(ws, Min(keep), n)
  BY DEF Newest
<1>3. CASE keep = {}
  <2>1. n + 1 \in 1 .. n + 1
    BY <1>1
  <2>2. Len(SubSeq(ws, n + 1, n)) = 0 /\ SubSeq(ws, n + 1, n) \in Seq(WriteSet)
    BY <1>1, <2>1, SuffixIs
  <2>3. SubSeq(ws, n + 1, n) = <<>>
    BY <2>2, EmptySeq
  <2>4. \A i \in 1 .. n : ~(Sizes(SubSeq(ws, i, n)) <= size)
    BY <1>1, <1>3
  <2>5. Newest(ws, size) = SubSeq(ws, n + 1, n) /\ Sizes(Newest(ws, size)) = 0
    BY <1>2, <1>3, <2>3, SizesProperties
  <2> HIDE DEF keep, n
  <2>6. \E k \in 1 .. n + 1 :
              /\ Newest(ws, size) = SubSeq(ws, k, n)
              /\ Sizes(Newest(ws, size)) <= size
              /\ \A i \in 1 .. n : Sizes(SubSeq(ws, i, n)) <= size => k <= i
    <3>1. \A i \in 1 .. n : Sizes(SubSeq(ws, i, n)) <= size => n + 1 <= i
      BY <2>4
    <3>2. Sizes(Newest(ws, size)) <= size
      BY <2>5
    <3> QED
      BY <2>1, <2>5, <3>1, <3>2
  <2> QED
    BY <2>6 DEF n
<1>4. CASE keep # {}
  <2>1. keep \subseteq Nat
    BY <1>1
  <2>2. Min(keep) \in keep /\ \A y \in keep : Min(keep) <= y
    <3> HIDE DEF keep
    <3> QED
      BY <1>4, <2>1, MinIs
  <2>3. PICK k \in 1 .. n : k = Min(keep) /\ Sizes(SubSeq(ws, k, n)) <= size
    BY <1>1, <2>2
  <2>4. \A i \in 1 .. n : Sizes(SubSeq(ws, i, n)) <= size => k <= i
    BY <1>1, <2>2, <2>3
  <2>5. Newest(ws, size) = SubSeq(ws, k, n) /\ k \in 1 .. n + 1
    <3>1. k \in 1 .. n + 1
      BY <1>1
    <3> HIDE DEF keep, n
    <3> QED
      BY <1>2, <1>4, <2>3, <3>1
  <2> HIDE DEF keep, n
  <2>6. \E j \in 1 .. n + 1 :
              /\ Newest(ws, size) = SubSeq(ws, j, n)
              /\ Sizes(Newest(ws, size)) <= size
              /\ \A i \in 1 .. n : Sizes(SubSeq(ws, i, n)) <= size => j <= i
    <3>1. Sizes(Newest(ws, size)) <= size
      BY <2>3, <2>5
    <3> QED
      BY <2>4, <2>5, <3>1
  <2> QED
    BY <2>6 DEF n
<1> QED
  BY <1>3, <1>4

\* Some write of ws is to block b.
Covers(ws, b) == \E i \in DOMAIN ws : b \in Span(ws[i])

\* An end of the window covers only what the window covers, and a longer one covers more.
LEMMA SuffixCovers ==
    ASSUME NEW ws \in Seq(WriteSet), NEW k \in 1 .. Len(ws) + 1, NEW l \in k .. Len(ws) + 1, NEW b
    PROVE  /\ Covers(SubSeq(ws, l, Len(ws)), b) => Covers(SubSeq(ws, k, Len(ws)), b)
           /\ Covers(SubSeq(ws, k, Len(ws)), b) <=> \E i \in k .. Len(ws) : b \in Span(ws[i])
<1> DEFINE n == Len(ws)
<1>1. n \in Nat
  BY LenProperties
<1>2. ASSUME NEW j \in 1 .. n + 1
      PROVE  Covers(SubSeq(ws, j, n), b) <=> \E i \in j .. n : b \in Span(ws[i])
  <2> DEFINE s == SubSeq(ws, j, n)
  <2>1. s \in Seq(WriteSet) /\ Len(s) = n + 1 - j /\ \A i \in 1 .. n + 1 - j : s[i] = ws[j + i - 1]
    BY SuffixIs
  <2>2. DOMAIN s = 1 .. n + 1 - j
    BY <2>1, LenProperties
  <2> HIDE DEF s, n
  <2>3. ASSUME NEW i \in DOMAIN s, b \in Span(s[i]) PROVE \E m \in j .. n : b \in Span(ws[m])
    <3>1. j + i - 1 \in j .. n
      BY <1>1, <2>2
    <3> QED
      BY <2>1, <2>2, <2>3, <3>1
  <2>4. ASSUME NEW i \in j .. n, b \in Span(ws[i]) PROVE \E m \in DOMAIN s : b \in Span(s[m])
    <3>1. i - j + 1 \in DOMAIN s /\ j + (i - j + 1) - 1 = i
      BY <1>1, <2>2
    <3>2. s[i - j + 1] = ws[i]
      BY <2>1, <2>2, <3>1
    <3> QED
      BY <2>4, <3>1, <3>2
  <2>5. Covers(s, b) <=> \E i \in j .. n : b \in Span(ws[i])
    BY <2>3, <2>4 DEF Covers
  <2> QED
    BY <2>5 DEF s
<1>3. l \in 1 .. n + 1 /\ l .. n \subseteq k .. n
  BY <1>1
<1> QED
  BY <1>2, <1>3

\* The i-th write of ws is the last one to block b.
Decides(ws, b, i) ==
    i \in DOMAIN ws /\ b \in Span(ws[i]) /\ \A j \in DOMAIN ws : b \in Span(ws[j]) => j <= i

\* What a drive holds after the writes ws: the last write to a block decides.
LEMMA ApplyIs ==
    ASSUME NEW S, NEW ws \in Seq(S), NEW m, NEW b \in Blocks
    PROVE  /\ ~Covers(ws, b) => Apply(m, ws)[b] = m[b]
           /\ Covers(ws, b) => \E i : Decides(ws, b, i) /\ Apply(m, ws)[b] = ws[i].val
<1> DEFINE hits == {i \in DOMAIN ws : b \in Span(ws[i])}
<1>1. Len(ws) \in Nat /\ DOMAIN ws = 1 .. Len(ws)
  BY LenProperties
<1>2. Apply(m, ws)[b] = IF hits = {} THEN m[b] ELSE ws[Max(hits)].val
  BY DEF Apply
<1>3. Covers(ws, b) <=> hits # {}
  BY DEF Covers
<1>4. hits # {} => Max(hits) \in hits /\ \A j \in hits : Max(hits) >= j
  <2>1. hits \subseteq 0 .. Len(ws)
    BY <1>1
  <2> HIDE DEF hits
  <2> QED
    BY <1>1, <2>1, MaxIs
<1>5. ASSUME hits # {} PROVE \E i : Decides(ws, b, i) /\ Apply(m, ws)[b] = ws[i].val
  <2>1. Max(hits) \in DOMAIN ws /\ b \in Span(ws[Max(hits)])
    BY <1>4, <1>5
  <2>2. \A j \in DOMAIN ws : b \in Span(ws[j]) => j <= Max(hits)
    BY <1>1, <1>4, <1>5
  <2>3. Apply(m, ws)[b] = ws[Max(hits)].val
    BY <1>2, <1>5
  <2> HIDE DEF hits
  <2> QED
    BY <2>1, <2>2, <2>3 DEF Decides
<1> HIDE DEF hits
<1> QED
  BY <1>2, <1>3, <1>5

\* One write more, e, behind the end of the window from its k-th write on.
LEMMA ApplyRemembered ==
    ASSUME NEW ws \in Seq(WriteSet), NEW e \in WriteSet, NEW k \in 1 .. Len(ws) + 1,
           NEW m, NEW p, NEW b \in Blocks
    PROVE  LET s == Append(SubSeq(ws, k, Len(ws)), e) IN
           /\ Covers(s, b) <=> b \in Span(e) \/ Covers(SubSeq(ws, k, Len(ws)), b)
           /\ b \in Span(e) => Apply(m, s)[b] = e.val
           /\ Covers(s, b) /\ b \notin Span(e) => Covers(ws, b) /\ Apply(m, s)[b] = Apply(p, ws)[b]
<1> DEFINE n == Len(ws)
           r == SubSeq(ws, k, n)
           s == Append(r, e)
<1>1. n \in Nat /\ DOMAIN ws = 1 .. n
  BY LenProperties
<1>2. r \in Seq(WriteSet) /\ Len(r) = n + 1 - k /\ \A i \in 1 .. n + 1 - k : r[i] = ws[k + i - 1]
  BY SuffixIs
<1>3. DOMAIN r = 1 .. n + 1 - k
  BY <1>2, LenProperties
<1> HIDE DEF r
<1>4. /\ s \in Seq(WriteSet) /\ Len(s) = n + 2 - k /\ s[n + 2 - k] = e
      /\ \A i \in 1 .. n + 1 - k : s[i] = r[i]
  <2>1. /\ s \in Seq(WriteSet) /\ Len(s) = Len(r) + 1 /\ s[Len(r) + 1] = e
        /\ \A i \in 1 .. Len(r) : s[i] = r[i]
    BY <1>2, AppendProperties
  <2>2. Len(r) + 1 = n + 2 - k /\ Len(r) = n + 1 - k
    BY <1>1, <1>2
  <2> HIDE DEF s
  <2> QED
    BY <2>1, <2>2
<1> HIDE DEF s, n
<1>5. DOMAIN s = 1 .. n + 2 - k
  BY <1>4, LenProperties
<1>6. \A i \in DOMAIN s : i = n + 2 - k \/ (i \in DOMAIN r /\ s[i] = r[i])
  BY <1>1, <1>3, <1>4, <1>5
<1>7. n + 2 - k \in DOMAIN s /\ \A i \in DOMAIN r : i \in DOMAIN s /\ s[i] = r[i]
  BY <1>1, <1>3, <1>4, <1>5
<1>8. Covers(s, b) <=> b \in Span(e) \/ Covers(r, b)
  BY <1>4, <1>6, <1>7 DEF Covers
<1>9. ASSUME b \in Span(e) PROVE Apply(m, s)[b] = e.val
  <2>1. Covers(s, b)
    BY <1>8, <1>9
  <2>2. PICK i : Decides(s, b, i) /\ Apply(m, s)[b] = s[i].val
    BY <1>4, <2>1, ApplyIs
  <2>3. n + 2 - k <= i /\ i \in DOMAIN s
    BY <1>4, <1>7, <1>9, <2>2 DEF Decides
  <2>4. i = n + 2 - k
    BY <1>1, <1>5, <2>3
  <2> QED
    BY <1>4, <2>2, <2>4
<1>10. ASSUME Covers(s, b), b \notin Span(e) PROVE Covers(ws, b) /\ Apply(m, s)[b] = Apply(p, ws)[b]
  <2>1. PICK i : Decides(s, b, i) /\ Apply(m, s)[b] = s[i].val
    BY <1>4, <1>10, ApplyIs
  <2>2. i \in DOMAIN r /\ s[i] = r[i]
    BY <1>4, <1>6, <1>10, <2>1 DEF Decides
  <2>3. k + i - 1 \in DOMAIN ws /\ r[i] = ws[k + i - 1]
    BY <1>1, <1>2, <1>3, <2>2
  <2>4. Covers(ws, b)
    BY <2>1, <2>2, <2>3 DEF Covers, Decides
  <2>5. PICK j : Decides(ws, b, j) /\ Apply(p, ws)[b] = ws[j].val
    BY <2>4, ApplyIs
  <2>6. k + i - 1 <= j /\ j \in DOMAIN ws
    BY <2>1, <2>2, <2>3, <2>5 DEF Decides
  <2>7. j - k + 1 \in DOMAIN r /\ k + (j - k + 1) - 1 = j
    BY <1>1, <1>3, <2>2, <2>6
  <2>8. s[j - k + 1] = ws[j] /\ j - k + 1 \in DOMAIN s
    BY <1>2, <1>3, <1>7, <2>7
  <2>9. j - k + 1 <= i
    BY <2>1, <2>5, <2>8 DEF Decides
  <2>10. k + i - 1 = j
    BY <1>1, <1>3, <2>2, <2>6, <2>9
  <2> QED
    BY <2>1, <2>2, <2>3, <2>4, <2>5, <2>10
<1> QED
  BY <1>8, <1>9, <1>10 DEF s, r, n

\* A drive that takes or loses writes still holds contents or losses.
LEMMA MediaType ==
    ASSUME NEW V, NEW m \in [Blocks -> V]
    PROVE  /\ \A S : \A ws \in Seq(S) : (\A i \in DOMAIN ws : ws[i].val \in V) => Apply(m, ws) \in [Blocks -> V]
           /\ Lost \in V => \A bs : Lose(m, bs) \in [Blocks -> V]
<1>1. ASSUME NEW S, NEW ws \in Seq(S), \A i \in DOMAIN ws : ws[i].val \in V
      PROVE  Apply(m, ws) \in [Blocks -> V]
  <2>1. ASSUME NEW b \in Blocks PROVE Apply(m, ws)[b] \in V
    <3>1. CASE ~Covers(ws, b)
      BY <3>1, ApplyIs
    <3>2. CASE Covers(ws, b)
      <4>1. PICK i : Decides(ws, b, i) /\ Apply(m, ws)[b] = ws[i].val
        BY <3>2, ApplyIs
      <4> QED
        BY <1>1, <4>1 DEF Decides
    <3> QED
      BY <3>1, <3>2
  <2>2. Apply(m, ws) = [b \in Blocks |-> Apply(m, ws)[b]]
    BY DEF Apply
  <2> HIDE DEF Apply
  <2> QED
    BY <2>1, <2>2
<1>2. ASSUME Lost \in V, NEW bs PROVE Lose(m, bs) \in [Blocks -> V]
  BY <1>2 DEF Lose
<1> QED
  BY <1>1, <1>2

\* One write is applied to the blocks it spans.
LEMMA ApplyOne ==
    ASSUME NEW e, NEW m, NEW b \in Blocks
    PROVE  Apply(m, <<e>>)[b] = IF b \in Span(e) THEN e.val ELSE m[b]
<1> DEFINE ws == <<e>>
<1>1. ws \in Seq({e}) /\ DOMAIN ws = {1} /\ ws[1] = e
  OBVIOUS
<1> HIDE DEF ws
<1>2. Covers(ws, b) <=> b \in Span(e)
  BY <1>1 DEF Covers
<1>3. ASSUME Covers(ws, b) PROVE Apply(m, ws)[b] = e.val
  <2>1. PICK i : Decides(ws, b, i) /\ Apply(m, ws)[b] = ws[i].val
    BY <1>1, <1>3, ApplyIs
  <2> QED
    BY <1>1, <2>1 DEF Decides
<1>4. ~Covers(ws, b) => Apply(m, ws)[b] = m[b]
  BY <1>1, ApplyIs
<1> QED
  BY <1>2, <1>3, <1>4 DEF ws

\* rememberWrite: the window stays within its size, and what it drops is not what the drive
\* may still lose.
LEMMA RememberIs ==
    ASSUME recent \in Seq(WriteSet), NEW e \in WriteSet
    PROVE  \E k \in 1 .. Len(recent) + 1 :
              /\ Remember(e) = Append(SubSeq(recent, k, Len(recent)), e)
              /\ Remember(e) \in Seq(WriteSet) /\ Sizes(Remember(e)) <= ReplayBlocks
              /\ \A b \in InHand : Covers(SubSeq(recent, k, Len(recent)), b)
<1> DEFINE n == Len(recent)
           room == ReplayBlocks - e.n
<1>1. e.n \in 1 .. MaxTransfer /\ room \in Nat /\ DriveWindow <= room /\ n \in Nat
  BY LenProperties DEF WriteSet
<1>2. PICK k \in 1 .. n + 1 :
         /\ Newest(recent, room) = SubSeq(recent, k, n)
         /\ Sizes(Newest(recent, room)) <= room
         /\ \A i \in 1 .. n : Sizes(SubSeq(recent, i, n)) <= room => k <= i
  BY <1>1, NewestIs
<1>3. PICK l \in 1 .. n + 1 :
         /\ Newest(recent, DriveWindow) = SubSeq(recent, l, n)
         /\ Sizes(Newest(recent, DriveWindow)) <= DriveWindow
         /\ \A i \in 1 .. n : Sizes(SubSeq(recent, i, n)) <= DriveWindow => l <= i
  BY NewestIs
<1> DEFINE r == SubSeq(recent, k, n)
<1>4. r \in Seq(WriteSet)
  BY SuffixIs
<1>5. Remember(e) = Append(r, e)
  BY <1>2 DEF Remember
<1>6. Append(r, e) \in Seq(WriteSet) /\ Sizes(Append(r, e)) <= ReplayBlocks
  <2>1. Sizes(r) \in Nat /\ Sizes(r) <= room /\ Sizes(Append(r, e)) = Sizes(r) + e.n
    <3> HIDE DEF r
    <3>1. Sizes(r) \in Nat /\ Sizes(Append(r, e)) = Sizes(r) + e.n
      BY <1>4, SizesProperties
    <3>2. Sizes(r) <= room
      BY <1>2 DEF r
    <3> QED
      BY <3>1, <3>2
  <2>2. Append(r, e) \in Seq(WriteSet)
    BY <1>4, AppendProperties
  <2> QED
    BY <1>1, <2>1, <2>2
<1>7. ASSUME NEW b \in InHand PROVE Covers(r, b)
  <2>1. Covers(SubSeq(recent, l, n), b)
    BY <1>3 DEF InHand, Covered, Covers
  <2>2. k <= l
    <3>1. CASE l = n + 1
      BY <1>1, <3>1
    <3>2. CASE l \in 1 .. n
      <4>1. SubSeq(recent, l, n) \in Seq(WriteSet)
        BY SuffixIs
      <4>2. Sizes(SubSeq(recent, l, n)) \in Nat
        BY <4>1, SizesProperties
      <4>3. Sizes(SubSeq(recent, l, n)) <= room
        BY <1>1, <1>3, <4>2
      <4> QED
        BY <1>2, <3>2, <4>3
    <3> QED
      BY <1>1, <3>1, <3>2
  <2>3. l \in k .. n + 1
    BY <1>1, <2>2
  <2> QED
    BY <2>1, <2>3, SuffixCovers
<1> QED
  BY <1>5, <1>6, <1>7

\* The drive may lose only what the window has.
LEMMA InHandCovered ==
    ASSUME recent \in Seq(WriteSet)
    PROVE  /\ \A b \in InHand : Covers(recent, b)
           /\ \A b : b \in Window <=> Covers(recent, b)
<1> DEFINE n == Len(recent)
<1>1. ASSUME NEW b \in InHand PROVE Covers(recent, b)
  <2>1. PICK l \in 1 .. n + 1 : Newest(recent, DriveWindow) = SubSeq(recent, l, n)
    BY NewestIs
  <2>2. Covers(SubSeq(recent, l, n), b)
    BY <2>1 DEF InHand, Covered, Covers
  <2>3. n \in Nat /\ DOMAIN recent = 1 .. n
    BY LenProperties
  <2>4. l \in l .. n + 1
    BY <2>3
  <2>5. \E i \in l .. n : b \in Span(recent[i])
    BY <2>2, <2>4, SuffixCovers
  <2> QED
    BY <2>3, <2>5 DEF Covers
<1>2. \A b : b \in Window <=> Covers(recent, b)
  BY DEF Window, Covered, Covers
<1> QED
  BY <1>1, <1>2

-----------------------------------------------------------------------------
(* Types, for any number of threads.                                        *)

Places == {"idle", "chunk", "transfer", "replayIn", "replayAfter",
           "recover", "portReset", "askAgain", "decide", "retry", "lower", "stepDown"}
Requests == [at : Blocks, n : 0 .. BlockCount, val : Data \cup {Unknown}]

\* The drive, what the app was told of it, and the window.
DriveType ==
    /\ media \in [Blocks -> Data \cup {Lost}]
    /\ acked \in [Blocks -> Data \cup {Unknown}]
    /\ recent \in Seq(WriteSet)
    /\ Sizes(recent) <= ReplayBlocks

\* The transfer size and the record of the last retry.
SizeType ==
    /\ maxTransfer \in MinTransfer .. MaxTransfer
    /\ sinceRetry \in -1 .. RetryWindow
    /\ retriedChunk \in 0 .. MaxTransfer
    /\ remembered \in {0} \cup MinTransfer .. MaxTransfer
    /\ wasReset \subseteq Threads /\ stuck \subseteq Threads
    /\ round \in 0 .. MaxReplayRounds - 1

FlagType == afterReset \in BOOLEAN /\ closed \in BOOLEAN

CallFunctions ==
    /\ pc \in [Threads -> Places]
    /\ req \in [Threads -> Requests]
    /\ done \in [Threads -> Nat]
    /\ chunk \in [Threads -> 0 .. MaxTransfer]

\* A call in progress lies within the drive and has something left to do; past the choice
\* of its size it has a chunk, which is part of what is left.
CallOK(t) ==
    /\ done[t] + chunk[t] <= req[t].n
    /\ pc[t] = "idle" => req[t] = NoReq
    /\ pc[t] # "idle" => req[t].at + req[t].n <= BlockCount /\ done[t] < req[t].n
    /\ pc[t] \notin {"idle", "chunk"} => chunk[t] > 0

\* The lock is held across steps only by a replay.
LockType ==
    /\ lock \in Threads \cup {NoThread}
    /\ lock \in Threads => pc[lock] \in {"replayIn", "replayAfter"}

CallType == CallFunctions /\ \A t \in Threads : CallOK(t)

TypeInv == DriveType /\ SizeType /\ FlagType /\ CallType /\ LockType

\* A call of thread t moves and no other does.
LEMMA CallMoves ==
    ASSUME CallType, NEW t \in Threads, CallFunctions', CallOK(t)',
           \A u \in Threads : u # t => UNCHANGED <<pc[u], req[u], done[u], chunk[u]>>
    PROVE  CallType'
<1>1. ASSUME NEW u \in Threads, u # t PROVE CallOK(u)'
  <2>1. UNCHANGED <<pc[u], req[u], done[u], chunk[u]>>
    BY <1>1
  <2>2. CallOK(u)
    BY DEF CallType
  <2> QED
    BY <2>1, <2>2 DEF CallOK
<1> QED
  BY <1>1 DEF CallType

\* The place of a thread changes and its call does not.
LEMMA PlaceMoves ==
    ASSUME CallType, NEW t \in Threads, NEW p \in Places \ {"idle"}, pc' = [pc EXCEPT ![t] = p],
           UNCHANGED <<req, done, chunk>>,
           pc[t] # "idle", chunk[t] > 0
    PROVE  CallType'
<1>1. CallFunctions'
  BY DEF CallType, CallFunctions
<1>2. CallOK(t)'
  <2>1. CallOK(t) /\ pc'[t] = p
    BY DEF CallType, CallFunctions
  <2> QED
    BY <2>1 DEF CallOK
<1>3. \A u \in Threads : u # t => UNCHANGED <<pc[u], req[u], done[u], chunk[u]>>
  BY DEF CallType, CallFunctions
<1> QED
  BY <1>1, <1>2, <1>3, CallMoves

\* A call that ends leaves its thread idle.
LEMMA IdleType ==
    ASSUME CallType, NEW t \in Threads, Idle(t)
    PROVE  /\ CallType' /\ pc'[t] = "idle" /\ req'[t] = NoReq
           /\ \A u \in Threads : u # t => pc'[u] = pc[u]
<1>1. NoReq \in Requests /\ NoReq.n = 0
  BY DEF NoReq, Requests, Blocks
<1>2. CallFunctions'
  BY <1>1 DEF Idle, CallType, CallFunctions, Places
<1>3. pc'[t] = "idle" /\ req'[t] = NoReq /\ done'[t] = 0 /\ chunk'[t] = 0
  BY DEF Idle, CallType, CallFunctions
<1>4. CallOK(t)'
  BY <1>1, <1>3 DEF CallOK
<1>5. \A u \in Threads : u # t => UNCHANGED <<pc[u], req[u], done[u], chunk[u]>>
  BY DEF Idle, CallType, CallFunctions
<1>6. CallType'
  BY <1>2, <1>4, <1>5, CallMoves
<1> QED
  BY <1>3, <1>5, <1>6

\* So does the end of a chunk, or it goes on to the next.
LEMMA ChunkDoneType ==
    ASSUME CallType, NEW t \in Threads, ChunkDone(t), pc[t] \notin {"idle", "chunk"},
           sinceRetry \in -1 .. RetryWindow
    PROVE  /\ CallType' /\ pc'[t] \in {"idle", "chunk"} /\ sinceRetry' \in -1 .. RetryWindow
           /\ \A u \in Threads : u # t => pc'[u] = pc[u]
<1>0. sinceRetry' \in -1 .. RetryWindow
  BY DEF ChunkDone
<1>1. CASE done[t] + chunk[t] = req[t].n
  <2>1. Idle(t)
    BY <1>1 DEF ChunkDone
  <2> QED
    BY <1>0, <2>1, IdleType
<1>2. CASE done[t] + chunk[t] # req[t].n
  <2>1. /\ pc' = [pc EXCEPT ![t] = "chunk"] /\ req' = req /\ done' = [done EXCEPT ![t] = @ + chunk[t]]
        /\ chunk' = [chunk EXCEPT ![t] = 0]
    BY <1>2 DEF ChunkDone
  <2>2. /\ CallOK(t) /\ done[t] \in Nat /\ chunk[t] \in 0 .. MaxTransfer /\ req[t] \in Requests
        /\ pc'[t] = "chunk" /\ \A u \in Threads : u # t => pc'[u] = pc[u]
    BY <2>1 DEF CallType, CallFunctions
  <2>3. req[t].n \in Nat /\ req[t].at \in Nat
    BY <2>2 DEF Requests, Blocks
  <2>4. CallFunctions'
    BY <2>1, <2>2 DEF CallType, CallFunctions, Places
  <2>5. CallOK(t)'
    <3>1. /\ pc'[t] = "chunk" /\ req'[t] = req[t] /\ done'[t] = done[t] + chunk[t]
          /\ chunk'[t] = 0
      BY <2>1 DEF CallType, CallFunctions
    <3> QED
      BY <1>2, <2>2, <2>3, <3>1 DEF CallOK
  <2>6. \A u \in Threads : u # t => UNCHANGED <<pc[u], req[u], done[u], chunk[u]>>
    BY <2>1 DEF CallType, CallFunctions
  <2>7. CallType'
    BY <2>4, <2>5, <2>6, CallMoves
  <2> QED
    BY <1>0, <2>2, <2>7
<1> QED
  BY <1>1, <1>2

\* The chunk in hand is a write within the drive.
LEMMA CurrentIs ==
    ASSUME CallType, NEW t \in Threads, pc[t] \notin {"idle", "chunk"}, Writes(t)
    PROVE  Current(t) \in WriteSet
<1>1. /\ CallOK(t) /\ done[t] \in Nat /\ chunk[t] \in 0 .. MaxTransfer /\ req[t] \in Requests
  BY DEF CallType, CallFunctions
<1>2. req[t].n \in Nat /\ req[t].at \in Nat /\ req[t].val \in Data
  BY <1>1 DEF Requests, Blocks, Writes
<1>3. req[t].at + done[t] \in Blocks /\ chunk[t] \in 1 .. MaxTransfer
  BY <1>1, <1>2 DEF CallOK, Blocks
<1> QED
  BY <1>2, <1>3 DEF Current, WriteSet

\* A transfer leaves the drive, the claims and the window typed.
LEMMA WrittenType ==
    ASSUME DriveType, CallType, NEW t \in Threads, pc[t] \notin {"idle", "chunk"},
           NEW m \in [Blocks -> Data \cup {Lost}], Written(t, m)
    PROVE  DriveType'
<1>1. CASE ~Writes(t)
  BY <1>1 DEF Written, DriveType
<1>2. CASE Writes(t)
  <2> DEFINE e == Current(t)
  <2>1. e \in WriteSet
    BY <1>2, CurrentIs
  <2> DEFINE kept == Unclaimed(PushedOut(t))
  <2>2. media' = Apply(m, <<e>>) /\ acked' = Apply(kept, <<e>>) /\ recent' = Remember(e)
    BY <1>2 DEF Written
  <2>k. kept \in [Blocks -> Data \cup {Unknown}]
    BY DEF Unclaimed, DriveType
  <2> HIDE DEF e, kept
  <2>3. recent' \in Seq(WriteSet) /\ Sizes(recent') <= ReplayBlocks
    BY <2>1, <2>2, RememberIs DEF DriveType
  <2>4. e.val \in Data
    BY <2>1 DEF WriteSet
  <2>5. <<e>> \in Seq({e}) /\ \A i \in DOMAIN <<e>> : <<e>>[i].val = e.val
    OBVIOUS
  <2>6. media' \in [Blocks -> Data \cup {Lost}]
    <3>1. \A i \in DOMAIN <<e>> : <<e>>[i].val \in Data \cup {Lost}
      BY <2>4, <2>5
    <3> QED
      BY <2>2, <2>5, <3>1, MediaType
  <2>7. acked' \in [Blocks -> Data \cup {Unknown}]
    <3>1. \A i \in DOMAIN <<e>> : <<e>>[i].val \in Data \cup {Unknown}
      BY <2>4, <2>5
    <3> QED
      BY <2>2, <2>5, <2>k, <3>1, MediaType
  <2>8. Sizes(recent)' = Sizes(recent')
    BY DEF Sizes
  <2> QED
    BY <2>3, <2>6, <2>7, <2>8 DEF DriveType
<1> QED
  BY <1>1, <1>2

\* The drive takes writes of the window, or part of one, and loses blocks.
LEMMA LossType ==
    ASSUME DriveType, NEW S, NEW ws \in Seq(S), \A i \in DOMAIN ws : ws[i].val \in Data, NEW bs,
           media' = Lose(Apply(media, ws), bs), UNCHANGED recent, acked' \in [Blocks -> Data \cup {Unknown}]
    PROVE  DriveType'
<1>1. \A i \in DOMAIN ws : ws[i].val \in Data \cup {Lost}
  OBVIOUS
<1>2. Apply(media, ws) \in [Blocks -> Data \cup {Lost}]
  BY <1>1, MediaType DEF DriveType
<1>3. media' \in [Blocks -> Data \cup {Lost}]
  BY <1>2, MediaType
<1>4. Sizes(recent)' = Sizes(recent)
  BY DEF Sizes
<1> QED
  BY <1>3, <1>4 DEF DriveType

\* Nothing is written and blocks may be lost.
LEMMA ResetType ==
    ASSUME DriveType, ResetMayLose \/ UNCHANGED media, UNCHANGED recent,
           acked' \in [Blocks -> Data \cup {Unknown}]
    PROVE  DriveType'
<1>1. media' \in [Blocks -> Data \cup {Lost}]
  <2>1. ASSUME ResetMayLose PROVE media' \in [Blocks -> Data \cup {Lost}]
    <3>1. PICK bs : media' = Lose(media, bs)
      BY <2>1 DEF ResetMayLose
    <3> QED
      BY <3>1, MediaType DEF DriveType
  <2> QED
    BY <2>1 DEF DriveType
<1>2. Sizes(recent)' = Sizes(recent)
  BY DEF Sizes
<1> QED
  BY <1>1, <1>2 DEF DriveType

\* A step of a thread that is not at a replay leaves the lock alone.
LEMMA LockKept ==
    ASSUME LockType, NEW t \in Threads, pc[t] \notin {"replayIn", "replayAfter"}, lock' = lock,
           \A u \in Threads : u # t => pc'[u] = pc[u]
    PROVE  LockType'
BY DEF LockType

\* The writes of the window carry data.
LEMMA WindowData ==
    ASSUME recent \in Seq(WriteSet), NEW k \in 0 .. Len(recent)
    PROVE  /\ \A i \in DOMAIN recent : recent[i].val \in Data
           /\ SubSeq(recent, 1, k) \in Seq(WriteSet)
           /\ \A i \in DOMAIN SubSeq(recent, 1, k) : SubSeq(recent, 1, k)[i].val \in Data
<1>1. Len(recent) \in Nat /\ DOMAIN recent = 1 .. Len(recent)
  BY LenProperties
<1>2. \A i \in 1 .. Len(recent) : recent[i] \in WriteSet
  BY ElementOfSeq
<1>3. \A i \in 1 .. k : recent[i] \in WriteSet
  BY <1>1, <1>2
<1>4. SubSeq(recent, 1, k) \in Seq(WriteSet)
  BY <1>1, <1>3, SubSeqProperties
<1>5. \A i \in 1 .. Len(SubSeq(recent, 1, k)) : SubSeq(recent, 1, k)[i] \in WriteSet
  BY <1>4, ElementOfSeq
<1>6. DOMAIN SubSeq(recent, 1, k) = 1 .. Len(SubSeq(recent, 1, k))
  BY <1>4, LenProperties
<1> QED
  BY <1>1, <1>2, <1>4, <1>5, <1>6 DEF WriteSet

\* What the types say of one thread.
LEMMA ThreadType ==
    ASSUME CallType, NEW t \in Threads
    PROVE  /\ CallOK(t) /\ pc[t] \in Places /\ done[t] \in Nat /\ chunk[t] \in 0 .. MaxTransfer
           /\ req[t] \in Requests
           /\ req[t].n \in 0 .. BlockCount /\ req[t].at \in Nat /\ req[t].at \in Blocks
BY DEF CallType, CallFunctions, Requests, Blocks

Typed == DriveType /\ SizeType /\ CallType /\ LockType

\* A replay that returns, or one that fails, frees the lock.
LEMMA FreedType ==
    ASSUME lock' = NoThread
    PROVE  LockType'
BY DEF LockType

\* A call that throws gives up claims and its place.
LEMMA ThrowType ==
    ASSUME DriveType, CallType, wasReset \subseteq Threads, stuck \subseteq Threads, NEW t \in Threads, Throw(t)
    PROVE  acked' \in [Blocks -> Data \cup {Unknown}] /\ CallType' /\ wasReset' \subseteq Threads /\ stuck' \subseteq Threads
<1>1. CallType'
  BY IdleType DEF Throw
<1>2. acked' \in [Blocks -> Data \cup {Unknown}]
  BY DEF Throw, Unclaimed, DriveType
<1> QED
  BY <1>1, <1>2 DEF Throw

\* Every step of a call keeps the types.
LEMMA CallStepTyped ==
    ASSUME Typed, NEW t \in Threads, CallStep(t)
    PROVE  Typed'
<1> USE DEF Typed
<1>0. /\ CallOK(t) /\ pc[t] \in Places /\ done[t] \in Nat /\ chunk[t] \in 0 .. MaxTransfer
      /\ req[t] \in Requests
      /\ req[t].n \in 0 .. BlockCount /\ req[t].at \in Nat /\ req[t].at \in Blocks
  BY ThreadType
<1>a. lock \in Threads => pc[lock] \in {"replayIn", "replayAfter"} /\ lock # NoThread
  BY DEF LockType
<1>b. recent \in Seq(WriteSet) /\ Len(recent) \in Nat
  BY LenProperties DEF DriveType
<1>c. Sizes(recent') = Sizes(recent)'
  BY DEF Sizes
<1>d. ASSUME UNCHANGED <<media, acked, recent>> PROVE DriveType'
  BY <1>c, <1>d DEF DriveType
<1>1. CASE PickChunk(t)
  <2> DEFINE c == Min({maxTransfer, req[t].n - done[t]})
  <2>1. /\ pc[t] = "chunk" /\ pc' = [pc EXCEPT ![t] = "transfer"] /\ chunk' = [chunk EXCEPT ![t] = c]
        /\ UNCHANGED <<media, recent, device, remembered, lock, req, done, wasReset, stuck, round, acked>>
    BY <1>1 DEF PickChunk
  <2>2. maxTransfer \in Nat \ {0} /\ req[t].n - done[t] \in Nat \ {0}
    BY <1>0, <2>1 DEF SizeType, CallOK
  <2>3. c \in 1 .. maxTransfer /\ c <= req[t].n - done[t]
    <3>1. c \in Nat /\ c <= maxTransfer /\ c <= req[t].n - done[t]
          /\ (c = maxTransfer \/ c = req[t].n - done[t])
      BY <2>2, OfTwo
    <3> HIDE DEF c
    <3> QED
      BY <2>2, <3>1
  <2>4. c \in 1 .. MaxTransfer
    <3> HIDE DEF c
    <3> QED
      BY <2>3 DEF SizeType
  <2> HIDE DEF c
  <2>5. CallFunctions'
    BY <1>0, <2>1, <2>4 DEF CallType, CallFunctions, Places
  <2>6. /\ pc'[t] = "transfer" /\ chunk'[t] = c /\ req'[t] = req[t] /\ done'[t] = done[t]
        /\ \A u \in Threads : u # t => UNCHANGED <<pc[u], req[u], done[u], chunk[u]>>
    BY <2>1 DEF CallType, CallFunctions
  <2>7. CallOK(t)'
    BY <1>0, <2>1, <2>3, <2>6 DEF CallOK
  <2>8. CallType'
    BY <2>5, <2>6, <2>7, CallMoves
  <2>9. LockType'
    BY <2>1, <2>6, LockKept
  <2>10. SizeType'
    BY <2>1 DEF SizeType, device
  <2> QED
    BY <1>d, <2>1, <2>8, <2>9, <2>10
<1>2. CASE TransferOk(t)
  <2>1. /\ pc[t] = "transfer" /\ Written(t, media) /\ ChunkDone(t) /\ lock = NoThread /\ lock' = lock
        /\ UNCHANGED <<maxTransfer, retriedChunk, remembered, wasReset, stuck, round>>
    BY <1>2 DEF TransferOk
  <2>2. DriveType'
    BY <2>1, WrittenType DEF DriveType
  <2>3. CallType' /\ sinceRetry' \in -1 .. RetryWindow
    BY <2>1, ChunkDoneType DEF SizeType
  <2>4. SizeType'
    BY <2>1, <2>3 DEF SizeType
  <2> QED
    BY <2>1, <2>2, <2>3, <2>4, FreedType
<1>3. CASE TransferAfterReset(t)
  <2>1. /\ pc[t] = "transfer" /\ lock' = t /\ round' = 0 /\ pc' = [pc EXCEPT ![t] = "replayIn"]
        /\ UNCHANGED <<device, remembered, req, done, chunk, wasReset, stuck>>
    BY <1>3 DEF TransferAfterReset
  <2>2. PICK bs : Written(t, Lose(media, bs))
    BY <1>3 DEF TransferAfterReset
  <2>3. Lose(media, bs) \in [Blocks -> Data \cup {Lost}]
    BY MediaType DEF DriveType
  <2>4. DriveType'
    BY <2>1, <2>2, <2>3, WrittenType
  <2>5. CallType'
    BY <1>0, <2>1, PlaceMoves DEF CallOK, Places, CallType, CallFunctions
  <2>6. pc'[t] = "replayIn"
    BY <2>1 DEF CallType, CallFunctions
  <2>7. LockType'
    BY <2>1, <2>6 DEF LockType
  <2>8. SizeType'
    BY <2>1 DEF SizeType, device
  <2> QED
    BY <2>4, <2>5, <2>7, <2>8
<1>4. CASE TransferFail(t)
  <2>1. /\ pc[t] = "transfer" /\ lock = NoThread /\ lock' = lock /\ pc' = [pc EXCEPT ![t] = "recover"]
        /\ UNCHANGED <<recent, device, remembered, req, done, chunk, wasReset, stuck, round, acked>>
    BY <1>4 DEF TransferFail
  <2>2. CallType'
    BY <1>0, <2>1, PlaceMoves DEF CallOK, Places, CallType, CallFunctions
  <2>3. SizeType'
    BY <2>1 DEF SizeType, device
  <2>4. CASE closed
    <3>1. media' = media
      BY <1>4, <2>4 DEF TransferFail
    <3> QED
      BY <1>d, <2>1, <2>2, <2>3, <3>1, FreedType
  <2>5. CASE ~closed
    <3> DEFINE W(k) == IF Writes(t) THEN <<[Current(t) EXCEPT !.n = k]>> ELSE <<>>
    <3>1. PICK k \in 0 .. chunk[t], bs \in SUBSET (InHand \cup IF Writes(t) THEN Span(Current(t)) ELSE {}) :
             media' = Lose(Apply(media, W(k)), bs)
      BY <1>4, <2>5 DEF TransferFail
    <3>2. \E S : W(k) \in Seq(S) /\ \A i \in DOMAIN W(k) : W(k)[i].val \in Data
      <4>1. CASE ~Writes(t)
        BY <4>1
      <4>2. CASE Writes(t)
        <5> DEFINE e == [Current(t) EXCEPT !.n = k]
        <5>1. e.val \in Data
          BY <2>1, <4>2, CurrentIs DEF WriteSet
        <5> HIDE DEF e
        <5>2. <<e>> \in Seq({e}) /\ \A i \in DOMAIN <<e>> : <<e>>[i].val \in Data
          BY <5>1
        <5> QED
          BY <4>2, <5>2 DEF e
      <4> QED
        BY <4>1, <4>2
    <3>3. acked' \in [Blocks -> Data \cup {Unknown}]
      BY <2>1 DEF DriveType
    <3> HIDE DEF W
    <3>4. DriveType'
      BY <2>1, <3>1, <3>2, <3>3, LossType
    <3> QED
      BY <2>1, <2>2, <2>3, <3>4, FreedType
  <2> QED
    BY <2>4, <2>5
<1>5. CASE ReplayStart(t)
  <2>1. /\ pc[t] = "replayAfter" /\ lock' = t /\ round' = 0
        /\ UNCHANGED <<media, recent, device, remembered, calls, acked>>
    BY <1>5 DEF ReplayStart
  <2>2. CallType'
    BY <2>1 DEF CallType, CallFunctions, CallOK, calls
  <2>3. LockType'
    BY <2>1 DEF LockType, calls
  <2>4. SizeType'
    BY <2>1 DEF SizeType, device, calls
  <2> QED
    BY <1>d, <2>1, <2>2, <2>3, <2>4
<1>6. CASE ReplayRound(t)
  <2>1. /\ pc[t] \in {"replayIn", "replayAfter"} /\ media' = Apply(media, recent) /\ Replayed(t)
        /\ UNCHANGED <<recent, acked, maxTransfer, retriedChunk, remembered, wasReset, stuck>>
        /\ lock' = NoThread /\ round' = 0
    BY <1>6, <1>a DEF ReplayRound, Replayed
  <2>2. media' \in [Blocks -> Data \cup {Lost}]
    <3>1. \A i \in DOMAIN recent : recent[i].val \in Data \cup {Lost}
      BY <1>b, WindowData
    <3> QED
      BY <1>b, <2>1, <3>1, MediaType DEF DriveType
  <2>3. DriveType'
    BY <1>c, <2>1, <2>2 DEF DriveType
  <2>4. CallType' /\ sinceRetry' \in -1 .. RetryWindow
    <3>1. CASE pc[t] = "replayIn"
      <4>1. ChunkDone(t)
        BY <2>1, <3>1 DEF Replayed
      <4> QED
        BY <3>1, <4>1, ChunkDoneType DEF SizeType
    <3>2. CASE pc[t] # "replayIn"
      <4>1. pc' = [pc EXCEPT ![t] = "chunk"] /\ UNCHANGED <<sinceRetry, req, done, chunk>>
        BY <2>1, <3>2 DEF Replayed
      <4>2. CallType'
        BY <1>0, <2>1, <4>1, PlaceMoves DEF CallOK, Places, CallType, CallFunctions
      <4> QED
        BY <4>1, <4>2 DEF SizeType
    <3> QED
      BY <3>1, <3>2
  <2>5. SizeType'
    BY <2>1, <2>4 DEF SizeType
  <2> QED
    BY <2>1, <2>3, <2>4, <2>5, FreedType
<1>7. CASE ReplayRoundReset(t)
  <2>1. /\ round + 1 < MaxReplayRounds /\ round' = round + 1
        /\ UNCHANGED <<recent, device, remembered, lock, calls, acked>>
    BY <1>7 DEF ReplayRoundReset
  <2>2. PICK bs : media' = Lose(Apply(media, recent), bs)
    BY <1>7 DEF ReplayRoundReset
  <2>3. DriveType'
    <3>1. \A i \in DOMAIN recent : recent[i].val \in Data
      BY <1>b, WindowData
    <3>2. acked' \in [Blocks -> Data \cup {Unknown}]
      BY <2>1 DEF DriveType
    <3> QED
      BY <1>b, <2>1, <2>2, <3>1, <3>2, LossType
  <2>4. CallType'
    BY <2>1 DEF CallType, CallFunctions, CallOK, calls
  <2>5. LockType'
    BY <2>1 DEF LockType, calls
  <2>6. SizeType'
    BY <2>1 DEF SizeType, device, calls
  <2> QED
    BY <2>3, <2>4, <2>5, <2>6
<1>8. CASE ReplayFail(t)
  <2>1. /\ pc[t] \in {"replayIn", "replayAfter"} /\ lock' = NoThread /\ round' = 0
        /\ UNCHANGED <<recent, device, remembered>>
    BY <1>8, <1>a DEF ReplayFail
  <2>2. /\ acked' \in [Blocks -> Data \cup {Unknown}] /\ CallType' /\ wasReset' \subseteq Threads /\ stuck' \subseteq Threads
    <3>1. CASE pc[t] = "replayIn"
      <4>1. pc' = [pc EXCEPT ![t] = "recover"] /\ UNCHANGED <<req, done, chunk, wasReset, stuck, acked>>
        BY <1>8, <3>1 DEF ReplayFail
      <4>2. CallType'
        BY <1>0, <2>1, <4>1, PlaceMoves DEF CallOK, Places, CallType, CallFunctions
      <4> QED
        BY <4>1, <4>2 DEF DriveType, SizeType
    <3>2. CASE pc[t] # "replayIn"
      <4>1. Throw(t)
        BY <1>8, <3>2 DEF ReplayFail
      <4> QED
        BY <4>1, ThrowType DEF SizeType
    <3> QED
      BY <3>1, <3>2
  <2>3. DriveType'
    <3>1. CASE closed
      <4>1. media' = media
        BY <1>8, <3>1 DEF ReplayFail
      <4> QED
        BY <1>c, <2>1, <2>2, <4>1 DEF DriveType
    <3>2. CASE ~closed
      <4>1. PICK k \in 0 .. Len(recent), bs \in SUBSET Window : media' = Lose(Apply(media, SubSeq(recent, 1, k)), bs)
        BY <1>8, <3>2 DEF ReplayFail
      <4>2. /\ SubSeq(recent, 1, k) \in Seq(WriteSet)
            /\ \A i \in DOMAIN SubSeq(recent, 1, k) : SubSeq(recent, 1, k)[i].val \in Data
        BY <1>b, WindowData
      <4> QED
        BY <2>1, <2>2, <4>1, <4>2, LossType
    <3> QED
      BY <3>1, <3>2
  <2>4. SizeType'
    BY <2>1, <2>2 DEF SizeType, device
  <2> QED
    BY <2>1, <2>2, <2>3, <2>4, FreedType
<1>9. ASSUME NEW p \in {"decide", "portReset", "askAgain"}, pc[t] \in {"recover", "portReset", "askAgain"},
             lock = NoThread, ResetMayLose, pc' = [pc EXCEPT ![t] = p], wasReset' \subseteq Threads /\ stuck' \subseteq Threads,
             UNCHANGED <<recent, device, remembered, lock, req, done, chunk, round, acked>>
      PROVE  Typed'
  <2>1. DriveType'
    <3>1. acked' \in [Blocks -> Data \cup {Unknown}]
      BY <1>9 DEF DriveType
    <3> QED
      BY <1>9, <3>1, ResetType
  <2>2. CallType'
    BY <1>0, <1>9, PlaceMoves DEF CallOK, Places, CallType, CallFunctions
  <2>3. SizeType'
    BY <1>9 DEF SizeType, device
  <2> QED
    BY <1>9, <2>1, <2>2, <2>3, FreedType
<1>10. CASE Ask(t)
  BY <1>9, <1>10 DEF Ask, SizeType
<1>11. CASE PortReset(t)
  <2>1. wasReset' \subseteq Threads /\ stuck' \subseteq Threads
    BY <1>11 DEF PortReset, SizeType
  <2> QED
    BY <1>9, <1>11, <2>1 DEF PortReset
<1>12. CASE AskAgain(t)
  BY <1>9, <1>12 DEF AskAgain, SizeType
<1>13. CASE NoRecovery(t)
  <2>1. /\ Throw(t) /\ lock = NoThread /\ (ResetMayLose \/ UNCHANGED media)
        /\ UNCHANGED <<recent, device, remembered, lock, round>>
    BY <1>13 DEF NoRecovery
  <2>2. acked' \in [Blocks -> Data \cup {Unknown}] /\ CallType' /\ wasReset' \subseteq Threads /\ stuck' \subseteq Threads
    BY <2>1, ThrowType DEF SizeType
  <2>3. DriveType'
    BY <2>1, <2>2, ResetType
  <2>4. SizeType'
    BY <2>1, <2>2 DEF SizeType, device
  <2> QED
    BY <2>1, <2>2, <2>3, <2>4, FreedType
<1>14. CASE Judge(t)
  <2>1. PICK p \in {"lower", "retry"} : pc' = [pc EXCEPT ![t] = p]
    BY <1>14 DEF Judge
  <2>2. /\ pc[t] = "decide"
        /\ UNCHANGED <<media, recent, device, remembered, lock, req, done, chunk, wasReset, round, acked>>
    BY <1>14 DEF Judge
  <2>3. stuck' \subseteq Threads
    BY <1>14 DEF Judge, SizeType
  <2>4. CallType'
    BY <1>0, <2>1, <2>2, PlaceMoves DEF CallOK, Places
  <2>5. \A u \in Threads : u # t => pc'[u] = pc[u]
    BY <2>1 DEF CallType, CallFunctions
  <2>6. LockType'
    BY <2>2, <2>5, LockKept
  <2>7. SizeType'
    BY <2>2, <2>3 DEF SizeType, device
  <2> QED
    BY <1>d, <2>2, <2>4, <2>6, <2>7
<1>17. CASE Record(t)
  <2>1. PICK p \in {"replayAfter", "stepDown"} : pc' = [pc EXCEPT ![t] = p]
    BY <1>17 DEF Record
  <2>2. /\ pc[t] \in {"retry", "lower"} /\ NoteRetry(t) /\ wasReset' = wasReset \ {t}
        /\ UNCHANGED <<media, recent, maxTransfer, remembered, lock, req, done, chunk, stuck, round, acked>>
    BY <1>17 DEF Record
  <2>4. CallType'
    BY <1>0, <2>1, <2>2, PlaceMoves DEF CallOK, Places
  <2>5. \A u \in Threads : u # t => pc'[u] = pc[u]
    BY <2>1 DEF CallType, CallFunctions
  <2>6. LockType'
    BY <2>2, <2>5, LockKept
  <2>7. SizeType'
    BY <1>0, <2>2 DEF SizeType, NoteRetry
  <2> QED
    BY <1>d, <2>2, <2>4, <2>6, <2>7
<1>15. CASE StepDown(t)
  <2> DEFINE next == Max({chunk[t] \div 2, MinTransfer})
  <2>1. /\ pc[t] = "stepDown" /\ pc' = [pc EXCEPT ![t] = "replayAfter"]
        /\ maxTransfer' = Min({next, maxTransfer}) /\ stuck' = stuck \ {t}
        /\ remembered' \in {next, remembered} /\ chunk[t] > MinTransfer
        /\ UNCHANGED <<media, recent, sinceRetry, retriedChunk, lock, req, done, chunk, wasReset, round, acked>>
    BY <1>15 DEF StepDown
  <2>2. next \in MinTransfer .. MaxTransfer
    <3>1. chunk[t] \div 2 \in Nat /\ chunk[t] \div 2 <= MaxTransfer
      BY <1>0
    <3>2. /\ next \in Nat /\ next >= MinTransfer
          /\ (next = chunk[t] \div 2 \/ next = MinTransfer)
      BY <3>1, OfTwo
    <3> HIDE DEF next
    <3> QED
      BY <3>1, <3>2
  <2>3. maxTransfer' \in MinTransfer .. MaxTransfer
    <3> HIDE DEF next
    <3>1. next \in Nat /\ maxTransfer \in Nat
      BY <2>2 DEF SizeType
    <3>2. Min({next, maxTransfer}) = next \/ Min({next, maxTransfer}) = maxTransfer
      BY <3>1, OfTwo
    <3> QED
      BY <2>1, <2>2, <3>2 DEF SizeType
  <2>4. CallType'
    BY <1>0, <2>1, PlaceMoves DEF CallOK, Places, CallType, CallFunctions
  <2>5. \A u \in Threads : u # t => pc'[u] = pc[u]
    BY <2>1 DEF CallType, CallFunctions
  <2>6. LockType'
    BY <2>1, <2>5, LockKept
  <2>7. SizeType'
    <3> HIDE DEF next
    <3> QED
      BY <1>0, <2>1, <2>2, <2>3 DEF SizeType
  <2> QED
    BY <1>d, <2>1, <2>4, <2>6, <2>7
<1>16. CASE GiveUp(t)
  <2>1. /\ pc[t] = "stepDown" /\ UNCHANGED <<media, recent, device, remembered, lock, round>>
    BY <1>16 DEF GiveUp
  <2>2. Throw(t)
    BY <1>16 DEF GiveUp
  <2>3. acked' \in [Blocks -> Data \cup {Unknown}] /\ CallType' /\ wasReset' \subseteq Threads /\ stuck' \subseteq Threads
    BY <2>2, ThrowType DEF SizeType
  <2>4. DriveType'
    BY <2>1, <2>3, ResetType
  <2>5. \A u \in Threads : u # t => pc'[u] = pc[u]
    BY <2>2, IdleType DEF Throw
  <2>6. LockType'
    BY <2>1, <2>5, LockKept
  <2>7. SizeType'
    BY <1>0, <2>1, <2>3 DEF SizeType, device
  <2> QED
    BY <2>3, <2>4, <2>6, <2>7
<1> QED
  BY <1>1, <1>2, <1>3, <1>4, <1>5, <1>6, <1>7, <1>8, <1>10, <1>11, <1>12, <1>13, <1>14, <1>15, <1>16, <1>17
     DEF CallStep

\* So do the start of a call, closing and opening the device.
LEMMA NextTyped ==
    ASSUME Typed, [Next]_vars
    PROVE  Typed'
<1> USE DEF Typed
<1>1. Sizes(recent') = Sizes(recent)'
  BY DEF Sizes
<1>2. ASSUME NEW t \in Threads, NEW r \in Calls[t], Begin(t, r)
      PROVE  Typed'
  <2>1. /\ pc[t] = "idle" /\ pc' = [pc EXCEPT ![t] = "chunk"] /\ req' = [req EXCEPT ![t] = r]
        /\ UNCHANGED <<media, recent, device, remembered, lock, done, chunk, wasReset, stuck, round, acked>>
    BY <1>2 DEF Begin
  <2>2. r \in [at : 0 .. BlockCount - 1, n : 1 .. BlockCount, val : Data \cup {Unknown}] /\ r.at + r.n <= BlockCount
    OBVIOUS
  <2>3. r \in Requests /\ r.n \in 1 .. BlockCount /\ r.at \in Blocks
    BY <2>2 DEF Requests, Blocks
  <2>4. /\ CallOK(t) /\ done[t] \in Nat /\ chunk[t] \in 0 .. MaxTransfer /\ NoReq.n = 0
    BY ThreadType DEF NoReq
  <2>5. CallFunctions'
    BY <2>1, <2>3 DEF CallType, CallFunctions, Places
  <2>6. /\ pc'[t] = "chunk" /\ req'[t] = r /\ done'[t] = done[t] /\ chunk'[t] = chunk[t]
        /\ \A u \in Threads : u # t => UNCHANGED <<pc[u], req[u], done[u], chunk[u]>>
    BY <2>1 DEF CallType, CallFunctions
  <2>7. done[t] = 0 /\ chunk[t] = 0
    BY <2>1, <2>4 DEF CallOK
  <2>8. CallOK(t)'
    BY <2>2, <2>3, <2>6, <2>7 DEF CallOK, Blocks
  <2>9. CallType'
    BY <2>5, <2>6, <2>8, CallMoves
  <2>10. LockType'
    BY <2>1, <2>6, LockKept
  <2>11. SizeType' /\ DriveType'
    BY <1>1, <2>1 DEF SizeType, DriveType, device
  <2> QED
    BY <2>9, <2>10, <2>11
<1>3. CASE Close
  <2>1. UNCHANGED <<media, recent, device, remembered, lock, calls, round, acked>>
    BY <1>3 DEF Close
  <2>2. SizeType' /\ DriveType'
    BY <1>1, <2>1 DEF SizeType, DriveType, device, calls
  <2>3. CallType' /\ LockType'
    BY <2>1 DEF CallType, CallFunctions, CallOK, LockType, calls
  <2> QED
    BY <2>2, <2>3
<1>4. CASE Reopen
  <2>1. /\ recent' = <<>> /\ sinceRetry' = -1 /\ retriedChunk' = 0
        /\ maxTransfer' = IF remembered = 0 THEN MaxTransfer ELSE Max({MinTransfer, Min({MaxTransfer, remembered})})
        /\ UNCHANGED <<media, remembered, lock, calls, round, acked>>
    BY <1>4 DEF Reopen
  <2>2. maxTransfer' \in MinTransfer .. MaxTransfer
    <3>1. CASE remembered = 0
      BY <2>1, <3>1
    <3>2. CASE remembered # 0
      <4> DEFINE m == Min({MaxTransfer, remembered})
      <4>1. remembered \in MinTransfer .. MaxTransfer
        BY <3>2 DEF SizeType
      <4>2. m \in Nat /\ m <= MaxTransfer
        BY <4>1, OfTwo
      <4> HIDE DEF m
      <4>3. /\ Max({MinTransfer, m}) \in Nat /\ Max({MinTransfer, m}) >= MinTransfer
            /\ (Max({MinTransfer, m}) = MinTransfer \/ Max({MinTransfer, m}) = m)
        BY <4>2, OfTwo
      <4> QED
        BY <2>1, <3>2, <4>2, <4>3 DEF m
    <3> QED
      BY <3>1, <3>2
  <2>3. SizeType'
    BY <2>1, <2>2 DEF SizeType, calls
  <2>4. DriveType'
    BY <1>1, <2>1, SizesProperties, EmptySeq DEF DriveType
  <2>5. CallType' /\ LockType'
    BY <2>1 DEF CallType, CallFunctions, CallOK, LockType, calls
  <2> QED
    BY <2>3, <2>4, <2>5
<1>5. CASE UNCHANGED vars
  <2>1. SizeType' /\ DriveType'
    BY <1>1, <1>5 DEF SizeType, DriveType, vars, device, calls
  <2>2. CallType' /\ LockType'
    BY <1>5 DEF CallType, CallFunctions, CallOK, LockType, calls, vars
  <2> QED
    BY <2>1, <2>2
<1> QED
  BY <1>2, <1>3, <1>4, <1>5, CallStepTyped DEF Next

\* The first state is typed.
LEMMA InitTyped ==
    ASSUME Init
    PROVE  Typed
<1>1. DriveType
  <2>1. Sizes(recent) = 0 /\ recent \in Seq(WriteSet)
    BY SizesProperties, EmptySeq DEF Init
  <2>2. media \in [Blocks -> Data] /\ acked = media
    BY DEF Init
  <2> QED
    BY <2>1, <2>2 DEF DriveType
<1>2. SizeType
  BY DEF Init, SizeType
<1>3. NoReq \in Requests /\ NoReq.n = 0
  BY DEF NoReq, Requests, Blocks
<1>4. CallType
  <2>1. CallFunctions
    BY <1>3 DEF Init, CallFunctions, Places
  <2>2. \A t \in Threads : pc[t] = "idle" /\ req[t] = NoReq /\ done[t] = 0 /\ chunk[t] = 0
    BY DEF Init
  <2> QED
    BY <1>3, <2>1, <2>2 DEF CallType, CallOK
<1>5. LockType
  BY DEF Init, LockType
<1> QED
  BY <1>1, <1>2, <1>4, <1>5 DEF Typed

\* The flags are truth values.
LEMMA FlagStep ==
    ASSUME FlagType, [Next]_vars
    PROVE  FlagType'
<1> USE DEF FlagType
<1>1. ASSUME NEW t \in Threads, CallStep(t) PROVE FlagType'
  <2> USE DEF device
  <2>1. CASE PickChunk(t)          BY <2>1 DEF PickChunk
  <2>2. CASE TransferOk(t)         BY <2>2 DEF TransferOk
  <2>3. CASE TransferAfterReset(t) BY <2>3 DEF TransferAfterReset
  <2>4. CASE TransferFail(t)       BY <2>4 DEF TransferFail
  <2>5. CASE ReplayStart(t)        BY <2>5 DEF ReplayStart
  <2>6. CASE ReplayRound(t)        BY <2>6 DEF ReplayRound, Replayed
  <2>7. CASE ReplayRoundReset(t)   BY <2>7 DEF ReplayRoundReset
  <2>8. CASE ReplayFail(t)         BY <2>8 DEF ReplayFail
  <2>9. CASE Ask(t)                BY <2>9 DEF Ask
  <2>10. CASE PortReset(t)         BY <2>10 DEF PortReset
  <2>11. CASE AskAgain(t)          BY <2>11 DEF AskAgain
  <2>12. CASE NoRecovery(t)        BY <2>12 DEF NoRecovery
  <2>13. CASE Judge(t)             BY <2>13 DEF Judge
  <2>14. CASE Record(t)            BY <2>14 DEF Record, NoteRetry
  <2>15. CASE StepDown(t)          BY <2>15 DEF StepDown
  <2>16. CASE GiveUp(t)            BY <2>16 DEF GiveUp
  <2> QED
    BY <1>1, <2>1, <2>2, <2>3, <2>4, <2>5, <2>6, <2>7, <2>8, <2>9, <2>10, <2>11, <2>12, <2>13, <2>14, <2>15, <2>16
       DEF CallStep
<1>2. ASSUME NEW t, NEW c, Begin(t, c) PROVE FlagType'
  BY <1>2 DEF Begin, device
<1>3. CASE Close
  BY <1>3 DEF Close, device
<1>4. CASE Reopen
  BY <1>4 DEF Reopen
<1>5. CASE UNCHANGED vars
  BY <1>5 DEF vars, device
<1> QED
  BY <1>1, <1>2, <1>3, <1>4, <1>5 DEF Next

\* The state keeps its shape, with any number of threads: the window of recent writes stays
\* within its size and every chunk within its call and the drive.
THEOREM TypeCorrect == Spec => []TypeOK
<1>1. Init => TypeInv
  BY InitTyped DEF TypeInv, Typed, FlagType, Init
<1>2. TypeInv /\ [Next]_vars => TypeInv'
  BY NextTyped, FlagStep DEF TypeInv, Typed
<1>3. TypeInv => TypeOK
  <2> SUFFICES ASSUME TypeInv PROVE TypeOK
    OBVIOUS
  <2>1. \A t \in Threads : req[t] = NoReq \/ Span(req[t]) \subseteq Blocks
    <3> SUFFICES ASSUME NEW t \in Threads, req[t] # NoReq PROVE Span(req[t]) \subseteq Blocks
      OBVIOUS
    <3>1. CallOK(t) /\ req[t].n \in 0 .. BlockCount /\ req[t].at \in Nat
      BY ThreadType DEF TypeInv
    <3>2. req[t].at + req[t].n <= BlockCount
      BY <3>1 DEF CallOK
    <3> QED
      BY <3>1, <3>2 DEF Span, Blocks
  <2>2. \A t \in Threads : done[t] + chunk[t] <= req[t].n
    BY DEF TypeInv, CallType, CallOK
  <2>3. afterReset \in BOOLEAN /\ closed \in BOOLEAN
    BY DEF TypeInv, FlagType
  <2>4. DriveType /\ SizeType /\ LockType /\ pc \in [Threads -> Places]
    BY DEF TypeInv, CallType, CallFunctions
  <2> QED
    BY <2>1, <2>2, <2>3, <2>4 DEF TypeOK, DriveType, SizeType, LockType, WriteSet, Places
<1> QED
  BY <1>1, <1>2, <1>3, PTL DEF Spec

-----------------------------------------------------------------------------
(* What resets cost, with any number of threads.                            *)

\* What the window says of a block is what the app was told.
WindowTold ==
    \A b \in Blocks : Covers(recent, b) => Apply(media, recent)[b] = acked[b] \/ acked[b] = Unknown

\* The blocks thread t's call has not yet written.
Owing(t) ==
    req[t].at + done[t] + (IF pc[t] = "replayIn" THEN chunk[t] ELSE 0) .. req[t].at + req[t].n - 1

\* Block b holds what the app was told, or thread t's call has yet to write it, or the replay
\* that thread t owes will restore it.
Safe(t, b) ==
    \/ media[b] = acked[b]
    \/ acked[b] = Unknown
    \/ Writes(t) /\ b \in Owing(t)
    \/ Unsettled(t) /\ Covers(recent, b)

\* The drive holds a block as the app was told, or some thread will see to it.
Held(b) == media[b] = acked[b] \/ acked[b] = Unknown \/ \E t \in Threads : Safe(t, b)
Holds == \A b \in Blocks : Held(b)

\* What a window says of a block it covers does not depend on the drive.
LEMMA ApplyCovered ==
    ASSUME NEW ws \in Seq(WriteSet), NEW m, NEW p, NEW b \in Blocks, Covers(ws, b)
    PROVE  Apply(m, ws)[b] = Apply(p, ws)[b]
<1> DEFINE hits == {i \in DOMAIN ws : b \in Span(ws[i])}
<1>1. hits # {}
  BY DEF Covers
<1> QED
  BY <1>1 DEF Apply

\* The first writes of the window cover only what the window covers.
LEMMA PrefixCovers ==
    ASSUME NEW ws \in Seq(WriteSet), NEW k \in 0 .. Len(ws), NEW b, Covers(SubSeq(ws, 1, k), b)
    PROVE  Covers(ws, b)
<1>1. Len(ws) \in Nat /\ DOMAIN ws = 1 .. Len(ws)
  BY LenProperties
<1>2. \A i \in 1 .. k : ws[i] \in WriteSet
  BY <1>1, ElementOfSeq
<1>3. /\ SubSeq(ws, 1, k) \in Seq(WriteSet) /\ Len(SubSeq(ws, 1, k)) = IF 1 <= k THEN k - 1 + 1 ELSE 0
      /\ \A i \in 1 .. k - 1 + 1 : SubSeq(ws, 1, k)[i] = ws[1 + i - 1]
  BY <1>1, <1>2, SubSeqProperties
<1>4. DOMAIN SubSeq(ws, 1, k) = 1 .. k
  BY <1>3, LenProperties
<1>5. PICK i \in 1 .. k : b \in Span(SubSeq(ws, 1, k)[i])
  BY <1>4 DEF Covers
<1>6. SubSeq(ws, 1, k)[i] = ws[i] /\ i \in DOMAIN ws
  BY <1>1, <1>3
<1> QED
  BY <1>5, <1>6 DEF Covers

\* A transfer adds to the window what it adds to the app's claims, and covers what it wrote
\* and what the drive may still lose.
LEMMA WrittenWindow ==
    ASSUME DriveType, CallType, WindowTold, NEW t \in Threads, pc[t] \notin {"idle", "chunk"},
           NEW m, Written(t, m)
    PROVE  /\ WindowTold'
           /\ \A b \in InHand : b \in Blocks => Covers(recent', b)
           /\ \A b \in Blocks : IF Writes(t) /\ b \in Span(Current(t)) THEN media'[b] = acked'[b]
                                ELSE media'[b] = m[b] /\ acked'[b] \in {acked[b], Unknown}
<1>1. CASE ~Writes(t)
  <2>1. media' = m /\ acked' = acked /\ recent' = recent
    BY <1>1 DEF Written
  <2>2. ASSUME NEW b \in Blocks, Covers(recent, b)
        PROVE  Apply(media', recent)[b] = acked[b] \/ acked[b] = Unknown
    <3>1. Apply(media', recent)[b] = Apply(media, recent)[b]
      BY <2>2, ApplyCovered DEF DriveType
    <3> QED
      BY <2>2, <3>1 DEF WindowTold
  <2>3. WindowTold'
    BY <2>1, <2>2 DEF WindowTold
  <2>4. \A b \in InHand : Covers(recent', b)
    BY <2>1, InHandCovered DEF DriveType
  <2> QED
    BY <1>1, <2>1, <2>3, <2>4
<1>2. CASE Writes(t)
  <2> DEFINE e == Current(t)
  <2>1. e \in WriteSet
    BY <1>2, CurrentIs
  <2> DEFINE kept == Unclaimed(PushedOut(t))
  <2>2. media' = Apply(m, <<e>>) /\ acked' = Apply(kept, <<e>>) /\ recent' = Remember(e)
    BY <1>2 DEF Written
  <2>k. \A b \in Blocks : kept[b] \in {acked[b], Unknown}
    BY DEF Unclaimed
  <2> HIDE DEF e, kept
  <2>3. PICK k \in 1 .. Len(recent) + 1 :
              /\ Remember(e) = Append(SubSeq(recent, k, Len(recent)), e)
              /\ \A b \in InHand : Covers(SubSeq(recent, k, Len(recent)), b)
    BY <2>1, RememberIs DEF DriveType
  <2>4. \A b \in Blocks : /\ media'[b] = IF b \in Span(e) THEN e.val ELSE m[b]
                          /\ acked'[b] = IF b \in Span(e) THEN e.val ELSE kept[b]
    BY <2>2, ApplyOne
  <2>5. ASSUME NEW b \in Blocks
        PROVE  /\ Covers(recent', b) <=> b \in Span(e) \/ Covers(SubSeq(recent, k, Len(recent)), b)
               /\ b \in Span(e) => Apply(media', recent')[b] = e.val
               /\ Covers(recent', b) /\ b \notin Span(e) =>
                     Covers(recent, b) /\ Apply(media', recent')[b] = Apply(media, recent)[b]
    <3> DEFINE s == Append(SubSeq(recent, k, Len(recent)), e)
    <3>1. recent \in Seq(WriteSet)
      BY DEF DriveType
    <3>2. /\ Covers(s, b) <=> b \in Span(e) \/ Covers(SubSeq(recent, k, Len(recent)), b)
          /\ b \in Span(e) => Apply(media', s)[b] = e.val
          /\ Covers(s, b) /\ b \notin Span(e) => Covers(recent, b) /\ Apply(media', s)[b] = Apply(media, recent)[b]
      BY <2>1, <3>1, ApplyRemembered
    <3>3. recent' = s
      BY <2>2, <2>3
    <3> QED
      BY <3>2, <3>3
  <2>6. WindowTold'
    <3> SUFFICES ASSUME NEW b \in Blocks, Covers(recent', b)
                 PROVE  Apply(media', recent')[b] = acked'[b] \/ acked'[b] = Unknown
      BY DEF WindowTold
    <3>1. CASE b \in Span(e)
      BY <2>4, <2>5, <3>1
    <3>2. CASE b \notin Span(e)
      BY <2>4, <2>5, <2>k, <3>2 DEF WindowTold
    <3> QED
      BY <3>1, <3>2
  <2>7. \A b \in InHand : b \in Blocks => Covers(recent', b)
    BY <2>3, <2>5
  <2>8. \A b \in Blocks : IF b \in Span(e) THEN media'[b] = acked'[b]
                          ELSE media'[b] = m[b] /\ acked'[b] \in {acked[b], Unknown}
    BY <2>4, <2>k
  <2> QED
    BY <1>2, <2>6, <2>7, <2>8 DEF e
<1> QED
  BY <1>1, <1>2

\* What a transfer pushes out of the window while another thread owes a replay is claimed
\* no more.
LEMMA WrittenPushes ==
    ASSUME DriveType, CallType, NEW t \in Threads, pc[t] \notin {"idle", "chunk"}, NEW m, Written(t, m),
           NEW u \in Threads, u # t, Unsettled(u), NEW b \in Blocks, Covers(recent, b)
    PROVE  Covers(recent', b) \/ acked'[b] = Unknown
<1> SUFFICES ASSUME ~Covers(recent', b) PROVE acked'[b] = Unknown
  OBVIOUS
<1>1. Writes(t)
  BY DEF Written
<1> DEFINE e == Current(t)
<1>2. e \in WriteSet
  BY <1>1, CurrentIs
<1>3. acked' = Apply(Unclaimed(PushedOut(t)), <<e>>) /\ recent' = Remember(e)
  BY <1>1 DEF Written
<1>4. b \notin Covered(Remember(e))
  BY <1>3 DEF Covered, Covers
<1>5. b \in Window
  BY DEF Window, Covered, Covers
<1>6. PushedOut(t) = Window \ Covered(Remember(e))
  BY DEF PushedOut
<1>7. Unclaimed(PushedOut(t))[b] = Unknown
  BY <1>4, <1>5, <1>6 DEF Unclaimed
<1>8. b \notin Span(e)
  <2> HIDE DEF e
  <2>1. PICK k \in 1 .. Len(recent) + 1 : Remember(e) = Append(SubSeq(recent, k, Len(recent)), e)
    BY <1>2, RememberIs DEF DriveType
  <2>2. Covers(Append(SubSeq(recent, k, Len(recent)), e), b) <=>
           b \in Span(e) \/ Covers(SubSeq(recent, k, Len(recent)), b)
    BY <1>2, ApplyRemembered DEF DriveType
  <2> QED
    BY <1>3, <2>1, <2>2
<1> HIDE DEF e
<1> QED
  BY <1>3, <1>7, <1>8, ApplyOne

\* Claims given up, and whatever the drive does, leave the window true.
LEMMA WindowKept ==
    ASSUME recent \in Seq(WriteSet), WindowTold, recent' = recent,
           \A b \in Blocks : acked'[b] = acked[b] \/ acked'[b] = Unknown
    PROVE  WindowTold'
<1>1. ASSUME NEW b \in Blocks, Covers(recent, b)
      PROVE  Apply(media', recent)[b] = acked'[b] \/ acked'[b] = Unknown
  <2>1. Apply(media', recent)[b] = Apply(media, recent)[b]
    BY <1>1, ApplyCovered
  <2> QED
    BY <1>1, <2>1 DEF WindowTold
<1> QED
  BY <1>1 DEF WindowTold

\* The window stays true, with any number of threads.
LEMMA WindowStep ==
    ASSUME Typed, WindowTold, [Next]_vars
    PROVE  WindowTold'
<1> USE DEF Typed
<1>0. recent \in Seq(WriteSet) /\ media \in [Blocks -> Data \cup {Lost}]
  BY DEF DriveType
<1>a. ASSUME UNCHANGED <<recent, acked>> PROVE WindowTold'
  BY <1>0, <1>a, WindowKept
<1>b. ASSUME NEW t, Throw(t), recent' = recent PROVE WindowTold'
  <2>1. \A b \in Blocks : acked'[b] = acked[b] \/ acked'[b] = Unknown
    BY <1>b DEF Throw, Unclaimed
  <2> QED
    BY <1>0, <1>b, <2>1, WindowKept
<1>1. ASSUME NEW t \in Threads, CallStep(t) PROVE WindowTold'
  <2>1. CASE PickChunk(t)          BY <1>a, <2>1 DEF PickChunk
  <2>2. CASE TransferOk(t)
    <3>1. Written(t, media) /\ pc[t] \notin {"idle", "chunk"}
      BY <2>2 DEF TransferOk
    <3> QED
      BY <3>1, WrittenWindow
  <2>3. CASE TransferAfterReset(t)
    <3>1. PICK bs : Written(t, Lose(media, bs)) /\ pc[t] \notin {"idle", "chunk"}
      BY <2>3 DEF TransferAfterReset
    <3> QED
      BY <3>1, WrittenWindow
  <2>4. CASE TransferFail(t)       BY <1>a, <2>4 DEF TransferFail
  <2>5. CASE ReplayStart(t)        BY <1>a, <2>5 DEF ReplayStart
  <2>6. CASE ReplayRound(t)        BY <1>a, <2>6 DEF ReplayRound, Replayed
  <2>7. CASE ReplayRoundReset(t)   BY <1>a, <2>7 DEF ReplayRoundReset
  <2>8. CASE ReplayFail(t)         BY <1>a, <1>b, <2>8 DEF ReplayFail
  <2>9. CASE Ask(t)                BY <1>a, <2>9 DEF Ask
  <2>10. CASE PortReset(t)         BY <1>a, <2>10 DEF PortReset
  <2>11. CASE AskAgain(t)          BY <1>a, <2>11 DEF AskAgain
  <2>12. CASE NoRecovery(t)        BY <1>b, <2>12 DEF NoRecovery
  <2>13. CASE Judge(t)             BY <1>a, <2>13 DEF Judge
  <2>14. CASE Record(t)            BY <1>a, <2>14 DEF Record
  <2>15. CASE StepDown(t)          BY <1>a, <2>15 DEF StepDown
  <2>16. CASE GiveUp(t)            BY <1>b, <2>16 DEF GiveUp
  <2> QED
    BY <1>1, <2>1, <2>2, <2>3, <2>4, <2>5, <2>6, <2>7, <2>8, <2>9, <2>10, <2>11, <2>12, <2>13, <2>14, <2>15, <2>16
       DEF CallStep
<1>2. ASSUME NEW t, NEW c, Begin(t, c) PROVE WindowTold'
  BY <1>a, <1>2 DEF Begin
<1>3. CASE Close
  BY <1>a, <1>3 DEF Close
<1>4. CASE Reopen
  <2>1. recent' = <<>>
    BY <1>4 DEF Reopen
  <2>2. \A b : ~Covers(<<>>, b)
    BY DEF Covers
  <2> QED
    BY <2>1, <2>2 DEF WindowTold
<1>5. CASE UNCHANGED vars
  BY <1>a, <1>5 DEF vars
<1> QED
  BY <1>1, <1>2, <1>3, <1>4, <1>5 DEF Next

\* What a thread owes when its chunk is done.
LEMMA ChunkDoneOwes ==
    ASSUME CallType, NEW t \in Threads, ChunkDone(t), pc[t] \notin {"idle", "chunk"},
           NEW b \in Int, b >= req[t].at + done[t] + chunk[t], b <= req[t].at + req[t].n - 1
    PROVE  b \in Owing(t)' /\ (Writes(t)' <=> Writes(t))
<1>0. /\ done[t] \in Nat /\ chunk[t] \in Nat /\ req[t].n \in Nat /\ req[t].at \in Nat
  BY ThreadType
<1>1. done[t] + chunk[t] # req[t].n
  BY <1>0
<1>2. /\ done' = [done EXCEPT ![t] = @ + chunk[t]] /\ pc' = [pc EXCEPT ![t] = "chunk"] /\ req' = req
  BY <1>1 DEF ChunkDone
<1>3. done'[t] = done[t] + chunk[t] /\ pc'[t] = "chunk" /\ req'[t] = req[t]
  BY <1>2 DEF CallType, CallFunctions
<1> QED
  BY <1>0, <1>3 DEF Owing, Writes

\* What a reset may cost of a drive is in the window.
LEMMA ResetLoses ==
    ASSUME recent \in Seq(WriteSet), ResetMayLose, NEW b \in Blocks
    PROVE  media'[b] = media[b] \/ Covers(recent, b)
<1>1. PICK bs \in SUBSET InHand : media' = Lose(media, bs)
  BY DEF ResetMayLose
<1>2. media'[b] = IF b \in bs THEN Lost ELSE media[b]
  BY <1>1 DEF Lose
<1> QED
  BY <1>1, <1>2, InHandCovered

\* A step of a thread's call keeps safe what it has to see to: what a reset costs is in the
\* window, and the replay is due until it has been written again.
LEMMA SafeCallStep ==
    ASSUME NEW t \in Threads, Typed, WindowTold, CallStep(t), NEW b \in Blocks, Safe(t, b)
    PROVE  Safe(t, b)'
<1> USE DEF Typed
<1>0. /\ CallOK(t) /\ done[t] \in Nat /\ chunk[t] \in Nat /\ req[t].n \in Nat /\ req[t].at \in Nat
      /\ b \in Int /\ recent \in Seq(WriteSet) /\ pc \in [Threads -> Places]
  BY ThreadType DEF Blocks, DriveType, CallType, CallFunctions
<1>a. (pc'[t] # "replayIn" \/ pc[t] = "replayIn") /\ UNCHANGED <<req, done, chunk>> =>
         (Writes(t) /\ b \in Owing(t) => Writes(t)' /\ b \in Owing(t)')
  BY <1>0 DEF Owing, Writes
<1>b. ASSUME UNCHANGED <<req, done, chunk, recent, acked>>, media'[b] = media[b] \/ Covers(recent, b),
             pc'[t] # "replayIn" \/ pc[t] = "replayIn", Unsettled(t)'
      PROVE  Safe(t, b)'
  BY <1>a, <1>b DEF Safe
<1>c. Span(Current(t)) = req[t].at + done[t] .. req[t].at + done[t] + chunk[t] - 1
  BY DEF Span, Current
<1>d. ASSUME pc[t] # "replayIn", b \in Span(Current(t)) PROVE b \in Owing(t)
  <2>1. done[t] + chunk[t] <= req[t].n
    BY <1>0 DEF CallOK
  <2>2. b >= req[t].at + done[t] /\ b <= req[t].at + done[t] + chunk[t] - 1
    BY <1>0, <1>c, <1>d
  <2>3. b <= req[t].at + req[t].n - 1
    <3> DEFINE a == req[t].at
               d == done[t]
               c == chunk[t]
               n == req[t].n
    <3>1. a \in Nat /\ d \in Nat /\ c \in Nat /\ n \in Nat /\ b \in Int
      BY <1>0
    <3>2. d + c <= n /\ b <= a + d + c - 1
      BY <2>1, <2>2
    <3> HIDE DEF a, d, c, n
    <3>3. b <= a + n - 1
      BY <3>1, <3>2
    <3> QED
      BY <3>3 DEF a, n
  <2>4. Owing(t) = req[t].at + done[t] .. req[t].at + req[t].n - 1
    BY <1>0, <1>d DEF Owing
  <2> QED
    BY <1>0, <2>2, <2>3, <2>4
<1>t. ASSUME Throw(t), pc[t] # "replayIn", media'[b] = media[b] \/ Covers(recent, b)
      PROVE  Safe(t, b)'
  <2> DEFINE bs == Window \cup IF Writes(t) THEN Span(Rest(t)) ELSE {}
  <2>1. acked'[b] = IF b \in bs THEN Unknown ELSE acked[b]
    BY <1>t DEF Throw, Unclaimed
  <2>2. Covers(recent, b) => b \in bs
    BY <1>0, InHandCovered
  <2>3. ASSUME Writes(t), b \in Owing(t) PROVE b \in bs
    <3>1. Span(Rest(t)) = req[t].at + done[t] .. req[t].at + done[t] + (req[t].n - done[t]) - 1
      BY DEF Span, Rest
    <3>2. b >= req[t].at + done[t] /\ b <= req[t].at + req[t].n - 1
      BY <1>0, <1>t, <2>3 DEF Owing
    <3>3. b \in Span(Rest(t))
      BY <1>0, <3>1, <3>2
    <3> QED
      BY <2>3, <3>3
  <2> HIDE DEF bs
  <2> QED
    BY <1>t, <2>1, <2>2, <2>3 DEF Safe
<1>1. CASE PickChunk(t)
  <2>1. /\ UNCHANGED <<req, done, media, recent, acked>> /\ pc[t] = "chunk" /\ pc'[t] = "transfer"
    BY <1>0, <1>1 DEF PickChunk
  <2>2. Writes(t) /\ b \in Owing(t) => Writes(t)' /\ b \in Owing(t)'
    BY <2>1 DEF Owing, Writes
  <2>3. ~Unsettled(t)
    BY <2>1 DEF Unsettled
  <2> QED
    BY <2>1, <2>2, <2>3 DEF Safe
<1>2. CASE TransferOk(t)
  <2>1. pc[t] = "transfer" /\ Written(t, media) /\ ChunkDone(t)
    BY <1>2 DEF TransferOk
  <2>2. IF Writes(t) /\ b \in Span(Current(t)) THEN media'[b] = acked'[b]
        ELSE media'[b] = media[b] /\ acked'[b] \in {acked[b], Unknown}
    BY <2>1, WrittenWindow
  <2>3. ~Unsettled(t)
    BY <2>1 DEF Unsettled
  <2>4. CASE Writes(t) /\ b \in Owing(t) /\ b \notin Span(Current(t))
    <3>1. b >= req[t].at + done[t] + chunk[t] /\ b <= req[t].at + req[t].n - 1
      BY <1>0, <1>c, <2>1, <2>4 DEF Owing
    <3>2. b \in Owing(t)' /\ (Writes(t)' <=> Writes(t))
      BY <1>0, <2>1, <3>1, ChunkDoneOwes
    <3> QED
      BY <2>4, <3>2 DEF Safe
  <2> QED
    BY <2>2, <2>3, <2>4 DEF Safe
<1>3. CASE TransferAfterReset(t)
  <2>1. pc[t] = "transfer" /\ pc'[t] = "replayIn" /\ UNCHANGED <<req, done, chunk>>
    BY <1>0, <1>3 DEF TransferAfterReset
  <2>2. PICK bs \in SUBSET InHand : Written(t, Lose(media, bs))
    BY <1>3 DEF TransferAfterReset
  <2>3. /\ b \in InHand => Covers(recent', b)
        /\ IF Writes(t) /\ b \in Span(Current(t)) THEN media'[b] = acked'[b]
           ELSE media'[b] = Lose(media, bs)[b] /\ acked'[b] \in {acked[b], Unknown}
    BY <2>1, <2>2, WrittenWindow
  <2>4. Lose(media, bs)[b] = media[b] \/ b \in InHand
    BY DEF Lose
  <2>5. ~Unsettled(t) /\ Unsettled(t)'
    BY <2>1 DEF Unsettled
  <2>6. Writes(t) /\ b \in Owing(t) /\ b \notin Span(Current(t)) => Writes(t)' /\ b \in Owing(t)'
    BY <1>0, <1>c, <2>1 DEF Owing, Writes
  <2> QED
    BY <2>3, <2>4, <2>5, <2>6 DEF Safe
<1>4. CASE TransferFail(t)
  <2>1. /\ pc[t] = "transfer" /\ pc'[t] = "recover" /\ UNCHANGED <<req, done, chunk, recent, acked>>
    BY <1>0, <1>4 DEF TransferFail
  <2>2. Unsettled(t)'
    BY <2>1 DEF Unsettled
  <2>3. media'[b] = media[b] \/ Covers(recent, b) \/ (Writes(t) /\ b \in Owing(t))
    <3>1. CASE closed
      BY <1>4, <3>1 DEF TransferFail
    <3>2. CASE ~closed
      <4> DEFINE W(k) == IF Writes(t) THEN <<[Current(t) EXCEPT !.n = k]>> ELSE <<>>
                 C == IF Writes(t) THEN Span(Current(t)) ELSE {}
      <4>1. PICK k \in 0 .. chunk[t], bs \in SUBSET (InHand \cup C) : media' = Lose(Apply(media, W(k)), bs)
        BY <1>4, <3>2 DEF TransferFail
      <4>2. media'[b] = IF b \in bs THEN Lost ELSE Apply(media, W(k))[b]
        BY <4>1 DEF Lose
      <4>3. b \in C => Writes(t) /\ b \in Owing(t)
        BY <1>d, <2>1
      <4>4. b \in InHand => Covers(recent, b)
        BY <1>0, InHandCovered
      <4>5. Apply(media, W(k))[b] = media[b] \/ b \in C
        <5>1. CASE ~Writes(t)
          <6>1. W(k) \in Seq(WriteSet) /\ ~Covers(W(k), b)
            BY <5>1, EmptySeq DEF Covers
          <6> DEFINE w == W(k)
          <6>2. w \in Seq(WriteSet) /\ ~Covers(w, b)
            BY <6>1
          <6> HIDE DEF w
          <6>3. Apply(media, w)[b] = media[b]
            BY <6>2, ApplyIs
          <6> QED
            BY <6>3 DEF w
        <5>2. CASE Writes(t)
          <6> DEFINE e == [Current(t) EXCEPT !.n = k]
          <6>1. Span(e) \subseteq C
            <7>1. e.at = req[t].at + done[t] /\ e.n = k
              BY DEF Current
            <7> HIDE DEF e
            <7>2. Span(e) = req[t].at + done[t] .. req[t].at + done[t] + k - 1
              BY <7>1 DEF Span
            <7>3. Span(e) \subseteq Span(Current(t))
              <8> DEFINE a == req[t].at + done[t]
                         c == chunk[t]
              <8>1. a \in Nat /\ c \in Nat /\ k \in 0 .. c
                BY <1>0
              <8>2. Span(e) = a .. a + k - 1 /\ Span(Current(t)) = a .. a + c - 1
                BY <1>c, <7>2
              <8> HIDE DEF a, c
              <8>3. a .. a + k - 1 \subseteq a .. a + c - 1
                BY <8>1
              <8> QED
                BY <8>2, <8>3
            <7> QED
              BY <5>2, <7>3
          <6>2. W(k) = <<e>>
            BY <5>2
          <6> HIDE DEF W, e, C
          <6>3. Apply(media, <<e>>)[b] = IF b \in Span(e) THEN e.val ELSE media[b]
            BY ApplyOne
          <6> QED
            BY <6>1, <6>2, <6>3
        <5> QED
          BY <5>1, <5>2
      <4> HIDE DEF W, C
      <4> QED
        BY <4>1, <4>2, <4>3, <4>4, <4>5
    <3> QED
      BY <3>1, <3>2
  <2>4. Writes(t) /\ b \in Owing(t) => Writes(t)' /\ b \in Owing(t)'
    BY <1>a, <2>1
  <2> QED
    BY <2>1, <2>2, <2>3, <2>4 DEF Safe
<1>5. CASE ReplayStart(t)
  <2>1. UNCHANGED <<media, recent, acked, pc, req, done, chunk>>
    BY <1>5 DEF ReplayStart, calls
  <2>2. UNCHANGED <<Writes(t), Owing(t), Unsettled(t)>>
    BY <2>1 DEF Writes, Owing, Unsettled
  <2> QED
    BY <2>1, <2>2 DEF Safe
<1>l. lock = t => pc[t] \in {"replayIn", "replayAfter"}
  BY DEF LockType
<1>6. CASE ReplayRound(t)
  <2>1. /\ pc[t] \in {"replayIn", "replayAfter"} /\ media' = Apply(media, recent) /\ Replayed(t)
        /\ UNCHANGED <<recent, acked>>
    BY <1>6, <1>l DEF ReplayRound, Replayed
  <2>2. CASE Covers(recent, b)
    BY <2>1, <2>2 DEF WindowTold, Safe
  <2>3. CASE ~Covers(recent, b)
    <3>1. media'[b] = media[b]
      BY <1>0, <2>1, <2>3, ApplyIs
    <3>2. ASSUME Writes(t), b \in Owing(t) PROVE Writes(t)' /\ b \in Owing(t)'
      <4>1. CASE pc[t] = "replayIn"
        <5>1. b >= req[t].at + done[t] + chunk[t] /\ b <= req[t].at + req[t].n - 1
          BY <1>0, <3>2, <4>1 DEF Owing
        <5>2. ChunkDone(t)
          BY <2>1, <4>1 DEF Replayed
        <5> QED
          BY <1>0, <2>1, <3>2, <5>1, <5>2, ChunkDoneOwes
      <4>2. CASE pc[t] # "replayIn"
        <5>1. pc'[t] = "chunk" /\ UNCHANGED <<req, done, chunk>>
          BY <1>0, <2>1, <4>2 DEF Replayed
        <5> QED
          BY <1>a, <3>2, <5>1
      <4> QED
        BY <4>1, <4>2
    <3> QED
      BY <2>1, <2>3, <3>1, <3>2 DEF Safe
  <2> QED
    BY <2>2, <2>3
<1>7. CASE ReplayRoundReset(t)
  <2>1. /\ pc[t] \in {"replayIn", "replayAfter"} /\ UNCHANGED <<recent, acked, pc, req, done, chunk>>
    BY <1>7, <1>l DEF ReplayRoundReset, calls
  <2>2. PICK bs \in SUBSET Window : media' = Lose(Apply(media, recent), bs)
    BY <1>7 DEF ReplayRoundReset
  <2>3. media'[b] = IF b \in bs THEN Lost ELSE Apply(media, recent)[b]
    BY <2>2 DEF Lose
  <2>4. media'[b] = media[b] \/ Covers(recent, b)
    BY <1>0, <2>2, <2>3, InHandCovered, ApplyIs
  <2>5. Unsettled(t)'
    BY <2>1 DEF Unsettled
  <2> QED
    BY <1>b, <2>1, <2>4, <2>5
<1>8. CASE ReplayFail(t)
  <2>1. pc[t] \in {"replayIn", "replayAfter"} /\ recent' = recent
    BY <1>8, <1>l DEF ReplayFail
  <2>f. media'[b] = media[b] \/ Covers(recent, b)
    <3>1. CASE closed
      BY <1>8, <3>1 DEF ReplayFail
    <3>2. CASE ~closed
      <4>1. PICK k \in 0 .. Len(recent), bs \in SUBSET Window :
               media' = Lose(Apply(media, SubSeq(recent, 1, k)), bs)
        BY <1>8, <3>2 DEF ReplayFail
      <4>2. media'[b] = IF b \in bs THEN Lost ELSE Apply(media, SubSeq(recent, 1, k))[b]
        BY <4>1 DEF Lose
      <4>3. b \in bs => Covers(recent, b)
        BY <1>0, <4>1, InHandCovered
      <4>4. Covers(SubSeq(recent, 1, k), b) => Covers(recent, b)
        BY <1>0, PrefixCovers
      <4>5. SubSeq(recent, 1, k) \in Seq(WriteSet)
        BY <1>0, WindowData
      <4>6. ~Covers(SubSeq(recent, 1, k), b) => Apply(media, SubSeq(recent, 1, k))[b] = media[b]
        <5> DEFINE w == SubSeq(recent, 1, k)
        <5>1. w \in Seq(WriteSet)
          BY <4>5
        <5> HIDE DEF w
        <5>2. ~Covers(w, b) => Apply(media, w)[b] = media[b]
          BY <5>1, ApplyIs
        <5> QED
          BY <5>2 DEF w
      <4> QED
        BY <4>2, <4>3, <4>4, <4>6
    <3> QED
      BY <3>1, <3>2
  <2>2. CASE pc[t] # "replayIn"
    <3>1. Throw(t)
      BY <1>8, <2>2 DEF ReplayFail
    <3> QED
      BY <1>t, <2>2, <2>f, <3>1
  <2>3. CASE pc[t] = "replayIn"
    <3>1. pc'[t] = "recover" /\ UNCHANGED <<req, done, chunk, acked>>
      BY <1>0, <1>8, <2>3 DEF ReplayFail
    <3>2. Unsettled(t)'
      BY <3>1 DEF Unsettled
    <3> QED
      BY <1>b, <2>1, <2>f, <3>1, <3>2
  <2> QED
    BY <2>2, <2>3
<1>9. CASE Ask(t) \/ PortReset(t) \/ AskAgain(t)
  <2>1. /\ ResetMayLose /\ pc'[t] \in {"decide", "portReset", "askAgain"}
        /\ UNCHANGED <<req, done, chunk, recent, acked>>
    BY <1>0, <1>9 DEF Ask, PortReset, AskAgain
  <2>2. Unsettled(t)'
    BY <2>1 DEF Unsettled
  <2>3. media'[b] = media[b] \/ Covers(recent, b)
    BY <1>0, <2>1, ResetLoses
  <2> QED
    BY <1>b, <2>1, <2>2, <2>3
<1>10. CASE NoRecovery(t)
  <2>1. Throw(t) /\ pc[t] # "replayIn" /\ (ResetMayLose \/ media' = media)
    BY <1>10 DEF NoRecovery
  <2>2. media'[b] = media[b] \/ Covers(recent, b)
    BY <1>0, <2>1, ResetLoses
  <2> QED
    BY <1>t, <2>1, <2>2
<1>11. CASE Judge(t) \/ Record(t) \/ StepDown(t)
  <2>1. /\ pc'[t] \in {"lower", "retry", "stepDown", "replayAfter"}
        /\ UNCHANGED <<req, done, chunk, recent, acked, media>>
    BY <1>0, <1>11 DEF Judge, Record, StepDown
  <2>2. Unsettled(t)'
    BY <2>1 DEF Unsettled
  <2> QED
    BY <1>b, <2>1, <2>2
<1>12. CASE GiveUp(t)
  <2>1. Throw(t) /\ pc[t] # "replayIn" /\ media' = media
    BY <1>12 DEF GiveUp
  <2> QED
    BY <1>t, <2>1
<1> QED
  BY <1>1, <1>2, <1>3, <1>4, <1>5, <1>6, <1>7, <1>8, <1>9, <1>10, <1>11, <1>12 DEF CallStep

Known == Typed /\ FlagType /\ WindowTold /\ Holds

\* The invariant behind the loss theorems holds at first, and every step keeps it.
LEMMA InitKnown ==
    ASSUME Init
    PROVE  Known
<1>1. Typed
  BY InitTyped
<1>2. FlagType
  BY DEF Init, FlagType
<1>3. WindowTold
  <2>1. recent = <<>> /\ \A b : ~Covers(<<>>, b)
    BY DEF Init, Covers
  <2> QED
    BY <2>1 DEF WindowTold
<1>4. Holds
  BY DEF Init, Holds, Held
<1> QED
  BY <1>1, <1>2, <1>3, <1>4 DEF Known

\* A step of thread t's call leaves the calls of the others alone.
LEMMA OthersStay ==
    ASSUME Typed, NEW t \in Threads, CallStep(t), NEW u \in Threads, u # t
    PROVE  UNCHANGED <<pc[u], req[u], done[u], chunk[u]>>
<1> USE DEF Typed, CallType, CallFunctions
<1>a. ASSUME Idle(t) PROVE UNCHANGED <<pc[u], req[u], done[u], chunk[u]>>
  BY <1>a DEF Idle
<1>b. ASSUME ChunkDone(t) PROVE UNCHANGED <<pc[u], req[u], done[u], chunk[u]>>
  BY <1>a, <1>b DEF ChunkDone
<1>1. CASE PickChunk(t)          BY <1>1 DEF PickChunk
<1>2. CASE TransferOk(t)         BY <1>2, <1>b DEF TransferOk
<1>3. CASE TransferAfterReset(t) BY <1>3 DEF TransferAfterReset
<1>4. CASE TransferFail(t)       BY <1>4 DEF TransferFail
<1>5. CASE ReplayStart(t)        BY <1>5 DEF ReplayStart, calls
<1>6. CASE ReplayRound(t)        BY <1>6, <1>b DEF ReplayRound, Replayed
<1>7. CASE ReplayRoundReset(t)   BY <1>7 DEF ReplayRoundReset, calls
<1>8. CASE ReplayFail(t)         BY <1>8, <1>a DEF ReplayFail, Throw
<1>9. CASE Ask(t)                BY <1>9 DEF Ask
<1>10. CASE PortReset(t)         BY <1>10 DEF PortReset
<1>11. CASE AskAgain(t)          BY <1>11 DEF AskAgain
<1>12. CASE NoRecovery(t)        BY <1>12, <1>a DEF NoRecovery, Throw
<1>13. CASE Judge(t)             BY <1>13 DEF Judge
<1>14. CASE Record(t)            BY <1>14 DEF Record
<1>15. CASE StepDown(t)          BY <1>15 DEF StepDown
<1>16. CASE GiveUp(t)            BY <1>16, <1>a DEF GiveUp, Throw
<1> QED
  BY <1>1, <1>2, <1>3, <1>4, <1>5, <1>6, <1>7, <1>8, <1>9, <1>10, <1>11, <1>12, <1>13, <1>14, <1>15, <1>16
     DEF CallStep

\* While another thread owes a replay, a step of thread t keeps what it will restore in the
\* window, or the claim goes.
LEMMA StaysCovered ==
    ASSUME Typed, NEW t \in Threads, CallStep(t), NEW u \in Threads, u # t, Unsettled(u),
           NEW b \in Blocks, Covers(recent, b)
    PROVE  Covers(recent', b) \/ acked'[b] = Unknown
<1> USE DEF Typed
<1>a. ASSUME recent' = recent PROVE Covers(recent', b)
  BY <1>a
<1>b. ASSUME NEW m, Written(t, m), pc[t] \notin {"idle", "chunk"}
      PROVE  Covers(recent', b) \/ acked'[b] = Unknown
  BY <1>b, WrittenPushes
<1>1. CASE PickChunk(t)          BY <1>a, <1>1 DEF PickChunk
<1>2. CASE TransferOk(t)
  <2>1. Written(t, media) /\ pc[t] \notin {"idle", "chunk"}
    BY <1>2 DEF TransferOk
  <2> QED
    BY <1>b, <2>1
<1>3. CASE TransferAfterReset(t)
  <2>1. PICK bs : Written(t, Lose(media, bs)) /\ pc[t] \notin {"idle", "chunk"}
    BY <1>3 DEF TransferAfterReset
  <2> QED
    BY <1>b, <2>1
<1>4. CASE TransferFail(t)       BY <1>a, <1>4 DEF TransferFail
<1>5. CASE ReplayStart(t)        BY <1>a, <1>5 DEF ReplayStart
<1>6. CASE ReplayRound(t)        BY <1>a, <1>6 DEF ReplayRound, Replayed
<1>7. CASE ReplayRoundReset(t)   BY <1>a, <1>7 DEF ReplayRoundReset
<1>8. CASE ReplayFail(t)         BY <1>a, <1>8 DEF ReplayFail
<1>9. CASE Ask(t)                BY <1>a, <1>9 DEF Ask
<1>10. CASE PortReset(t)         BY <1>a, <1>10 DEF PortReset
<1>11. CASE AskAgain(t)          BY <1>a, <1>11 DEF AskAgain
<1>12. CASE NoRecovery(t)        BY <1>a, <1>12 DEF NoRecovery
<1>13. CASE Judge(t)             BY <1>a, <1>13 DEF Judge
<1>14. CASE Record(t)            BY <1>a, <1>14 DEF Record
<1>15. CASE StepDown(t)          BY <1>a, <1>15 DEF StepDown
<1>16. CASE GiveUp(t)            BY <1>a, <1>16 DEF GiveUp
<1> QED
  BY <1>1, <1>2, <1>3, <1>4, <1>5, <1>6, <1>7, <1>8, <1>9, <1>10, <1>11, <1>12, <1>13, <1>14, <1>15, <1>16
     DEF CallStep

\* A thread between calls sees to nothing.
LEMMA IdleSafe ==
    ASSUME CallType, NEW t \in Threads, pc[t] = "idle", NEW b, Safe(t, b)
    PROVE  media[b] = acked[b] \/ acked[b] = Unknown
<1>1. ~Unsettled(t)
  BY DEF Unsettled
<1>2. ~Writes(t)
  BY ThreadType DEF CallOK, Writes, NoReq
<1> QED
  BY <1>1, <1>2 DEF Safe

\* Every step, of any thread, keeps the invariant.
LEMMA KnownStep ==
    ASSUME Known, [Next]_vars
    PROVE  Known'
<1>0. Typed /\ FlagType /\ WindowTold /\ Holds
  BY DEF Known
<1>1. Typed' /\ FlagType' /\ WindowTold'
  BY <1>0, NextTyped, FlagStep, WindowStep
<1>2. ASSUME NEW b \in Blocks PROVE Held(b)'
  <2>1. Held(b)
    BY <1>0 DEF Holds
  <2>2. CASE media[b] = acked[b] \/ acked[b] = Unknown
    <3>1. ASSUME UNCHANGED <<media, acked>> PROVE Held(b)'
      BY <2>2, <3>1 DEF Held
    <3>2. ASSUME NEW t \in Threads, CallStep(t) PROVE Held(b)'
      <4>1. Safe(t, b)
        BY <2>2 DEF Safe
      <4>2. Safe(t, b)'
        BY <1>0, <3>2, <4>1, SafeCallStep
      <4> QED
        BY <4>2 DEF Held
    <3>3. ASSUME NEW t, NEW c, Begin(t, c) PROVE Held(b)'
      BY <3>1, <3>3 DEF Begin
    <3>4. CASE Close
      BY <3>1, <3>4 DEF Close
    <3>5. CASE Reopen
      BY <3>1, <3>5 DEF Reopen
    <3>6. CASE UNCHANGED vars
      BY <3>1, <3>6 DEF vars
    <3> QED
      BY <3>2, <3>3, <3>4, <3>5, <3>6 DEF Next
  <2>3. ASSUME NEW u \in Threads, Safe(u, b), ~(media[b] = acked[b] \/ acked[b] = Unknown) PROVE Held(b)'
    <3>0. pc[u] # "idle"
      BY <1>0, <2>3, IdleSafe DEF Typed
    <3>1. ASSUME UNCHANGED <<media, acked, recent, pc[u], req[u], done[u], chunk[u]>> PROVE Safe(u, b)'
      BY <2>3, <3>1 DEF Safe, Writes, Owing, Unsettled
    <3>2. ASSUME CallStep(u) PROVE Held(b)'
      <4>1. Safe(u, b)'
        BY <1>0, <2>3, <3>2, SafeCallStep
      <4> QED
        BY <4>1 DEF Held
    <3>3. ASSUME NEW t \in Threads, t # u, CallStep(t) PROVE Held(b)'
      <4>1. UNCHANGED <<pc[u], req[u], done[u], chunk[u]>>
        BY <1>0, <3>3, OthersStay
      <4>2. (Writes(u)' <=> Writes(u)) /\ Owing(u)' = Owing(u) /\ (Unsettled(u)' <=> Unsettled(u))
        BY <4>1 DEF Writes, Owing, Unsettled
      <4>3. CASE Writes(u) /\ b \in Owing(u)
        BY <4>2, <4>3 DEF Held, Safe
      <4>4. CASE Unsettled(u) /\ Covers(recent, b)
        <5>1. Covers(recent', b) \/ acked'[b] = Unknown
          BY <1>0, <3>3, <4>4, StaysCovered
        <5> QED
          BY <4>2, <4>4, <5>1 DEF Held, Safe
      <4> QED
        BY <2>3, <4>3, <4>4 DEF Safe
    <3>4. ASSUME NEW t \in Threads, NEW c, Begin(t, c) PROVE Held(b)'
      <4>1. pc[t] = "idle" /\ t # u
        BY <3>0, <3>4 DEF Begin
      <4>2. UNCHANGED <<media, acked, recent, pc[u], req[u], done[u], chunk[u]>>
        BY <1>0, <3>4, <4>1 DEF Begin, Typed, CallType, CallFunctions
      <4> QED
        BY <3>1, <4>2 DEF Held
    <3>5. CASE Close
      BY <3>1, <3>5 DEF Close, calls, Held
    <3>6. CASE Reopen
      BY <3>0, <3>6 DEF Reopen
    <3>7. CASE UNCHANGED vars
      BY <3>1, <3>7 DEF vars, calls, Held
    <3> QED
      BY <3>2, <3>3, <3>4, <3>5, <3>6, <3>7 DEF Next
  <2> QED
    BY <2>1, <2>2, <2>3 DEF Held
<1>3. Holds'
  BY <1>2 DEF Holds
<1> QED
  BY <1>1, <1>3 DEF Known

\* "The drive ends in the state the app believes it is in" (comment on recentWrites): between
\* calls the drive holds all it acknowledged, whatever resets cost on the way, however many
\* threads take turns and whatever the sizes of the window and of the drive's own, but for the
\* blocks whose claim is gone: a call threw instead of replaying, or one thread's writes pushed
\* them out of the window while another's replay was due.
THEOREM AcknowledgedWritesKept == Spec => []AckedWritesSurvive
<1>1. Init => Known
  BY InitKnown
<1>2. Known /\ [Next]_vars => Known'
  BY KnownStep
<1>3. Known => AckedWritesSurvive
  <2> SUFFICES ASSUME Known, Quiet, NEW b \in Blocks, acked[b] # Unknown
               PROVE  media[b] = acked[b]
    BY DEF AckedWritesSurvive
  <2>1. Held(b) /\ CallType
    BY DEF Known, Typed, Holds
  <2>2. ASSUME NEW t \in Threads, Safe(t, b) PROVE media[b] = acked[b]
    BY <2>1, <2>2, IdleSafe DEF Quiet
  <2> QED
    BY <2>1, <2>2 DEF Held
<1> QED
  BY <1>1, <1>2, <1>3, PTL DEF Spec

\* A block a reset cost stays in the window, with the right contents, until a replay has
\* restored it or its claim is gone, for any number of threads.
THEOREM LossStaysReplayable == Spec => []LossIsReplayable
<1>1. Init => Known
  BY InitKnown
<1>2. Known /\ [Next]_vars => Known'
  BY KnownStep
<1>3. Known => LossIsReplayable
  <2> SUFFICES ASSUME Known, NEW b \in Blocks
               PROVE  \/ media[b] = acked[b]
                      \/ acked[b] = Unknown
                      \/ Apply(media, recent)[b] = acked[b]
                      \/ \E u \in Threads : Writes(u) /\ b \in Span(Rest(u))
    BY DEF LossIsReplayable
  <2>1. Held(b) /\ WindowTold /\ CallType
    BY DEF Known, Typed, Holds
  <2>2. ASSUME NEW t \in Threads, b \in Owing(t) PROVE b \in Span(Rest(t))
    <3>1. done[t] \in Nat /\ chunk[t] \in Nat /\ req[t].n \in Nat /\ req[t].at \in Nat /\ b \in Int
      BY <2>1, ThreadType DEF Blocks
    <3>2. Span(Rest(t)) = req[t].at + done[t] .. req[t].at + done[t] + (req[t].n - done[t]) - 1
      BY DEF Span, Rest
    <3>3. b >= req[t].at + done[t] /\ b <= req[t].at + req[t].n - 1
      BY <2>2, <3>1 DEF Owing
    <3> QED
      BY <3>1, <3>2, <3>3
  <2> QED
    BY <2>1, <2>2 DEF Held, Safe, WindowTold
<1> QED
  BY <1>1, <1>2, <1>3, PTL DEF Spec
=============================================================================
