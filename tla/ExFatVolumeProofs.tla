------------------------- MODULE ExFatVolumeProofs -------------------------
\* Proofs about ExFatVolume: its types, the accounting of its clusters,
\* the entries that are on the drive, that no call runs into an exfat_bug,
\* what its files read as, and what of them a pulled drive keeps, for
\* every number of clusters, files and calls.  ExFatVolumeInvariant says
\* what is kept from step to step.
EXTENDS ExFatVolumeInvariant, FiniteSetTheorems, SequenceTheorems, WellFoundedInduction, TLAPS

\* A finite sequence over any set is Listed, and has its length and domain.
LEMMA ListedOf == ASSUME NEW S, NEW t \in Seq(S) PROVE Listed(t) /\ Len(t) \in Nat /\ DOMAIN t = 1..Len(t)
<1>1. Len(t) \in Nat /\ DOMAIN t = 1..Len(t) /\ t \in [1..Len(t) -> S] BY LenProperties
<1> DEFINE R == {t[i] : i \in DOMAIN t}
<1>2. t \in [1..Len(t) -> R] BY <1>1
<1>3. t \in Seq(R)
 <2> HIDE DEF R
 <2> QED BY <1>1, <1>2, SeqDef
<1> QED BY <1>1, <1>3 DEF Listed

\* The empty list of stages is a finite sequence.
LEMMA ListedNil == Listed(<<>>) BY EmptySeq, ListedOf

\* So is a list of one stage.
LEMMA ListedOne == ASSUME NEW x PROVE Listed(<<x>>)
<1>1. <<x>> \in Seq({x}) OBVIOUS
<1> QED BY <1>1, ListedOf

\* The length and the domain of a finite sequence.
LEMMA ListedLen == ASSUME NEW t, Listed(t) PROVE Len(t) \in Nat /\ DOMAIN t = 1..Len(t) /\ (t # <<>> => Len(t) >= 1)
<1> DEFINE R == {t[i] : i \in DOMAIN t}
<1>1. t \in Seq(R) BY DEF Listed
<1>2. Len(t) \in Nat /\ DOMAIN t = 1..Len(t)
 <2> HIDE DEF R
 <2> QED BY <1>1, ListedOf
<1>3. t # <<>> => Len(t) \in Nat \ {0}
 <2> HIDE DEF R
 <2> QED BY <1>1, EmptySeq
<1> QED BY <1>2, <1>3

\* Putting one list of stages before another: its length and its elements.
LEMMA ListedConcat == ASSUME NEW s, NEW t, Listed(s), Listed(t)
    PROVE  /\ Listed(s \o t) /\ Len(s \o t) = Len(s) + Len(t)
           /\ \A i \in 1..Len(s) : (s \o t)[i] = s[i]
           /\ \A i \in 1..Len(t) : (s \o t)[Len(s) + i] = t[i]
<1> DEFINE R == {s[i] : i \in DOMAIN s} \cup {t[i] : i \in DOMAIN t}
<1>1. s \in Seq(R) /\ t \in Seq(R)
 <2>1. s \in Seq({s[i] : i \in DOMAIN s}) /\ t \in Seq({t[i] : i \in DOMAIN t}) BY DEF Listed
 <2>2. {s[i] : i \in DOMAIN s} \subseteq R /\ {t[i] : i \in DOMAIN t} \subseteq R OBVIOUS
 <2>3. s \in Seq(R)
  <3> HIDE DEF R
  <3> QED BY <2>1, <2>2, SeqMonotonic
 <2>4. t \in Seq(R)
  <3> HIDE DEF R
  <3> QED BY <2>1, <2>2, SeqMonotonic
 <2> QED BY <2>3, <2>4
<1> HIDE DEF R
<1>2. s \o t \in Seq(R) BY <1>1, ConcatProperties
<1>3. Len(s \o t) = Len(s) + Len(t) /\ \A i \in 1..Len(s) + Len(t) : (s \o t)[i] = IF i <= Len(s) THEN s[i] ELSE t[i - Len(s)]
 BY <1>1, ConcatProperties
<1>4. Len(s) \in Nat /\ Len(t) \in Nat BY ListedLen
<1>5. \A i \in 1..Len(t) : (s \o t)[Len(s) + i] = t[i] BY <1>3, <1>4
<1>6. \A i \in 1..Len(s) : (s \o t)[i] = s[i] BY <1>3, <1>4
<1>7. Listed(s \o t) BY <1>2, ListedOf
<1> QED BY <1>3, <1>5, <1>6, <1>7

\* Two finite sequences with the same elements are the same.
LEMMA ListedEqual == ASSUME NEW s, NEW t, Listed(s), Listed(t), Len(s) = Len(t), \A i \in 1..Len(s) : s[i] = t[i] PROVE s = t
<1> DEFINE R == {s[i] : i \in DOMAIN s} \cup {t[i] : i \in DOMAIN t}
<1>1. s \in Seq(R) /\ t \in Seq(R)
 <2>1. s \in Seq({s[i] : i \in DOMAIN s}) /\ t \in Seq({t[i] : i \in DOMAIN t}) BY DEF Listed
 <2>2. {s[i] : i \in DOMAIN s} \subseteq R /\ {t[i] : i \in DOMAIN t} \subseteq R OBVIOUS
 <2>3. s \in Seq(R)
  <3> HIDE DEF R
  <3> QED BY <2>1, <2>2, SeqMonotonic
 <2>4. t \in Seq(R)
  <3> HIDE DEF R
  <3> QED BY <2>1, <2>2, SeqMonotonic
 <2> QED BY <2>3, <2>4
<1> HIDE DEF R
<1> QED BY <1>1, SeqEqual

\* Lists of stages may be put together in any order of the joins.
LEMMA ConcatAssoc == ASSUME NEW s, NEW t, NEW u, Listed(s), Listed(t), Listed(u) PROVE (s \o t) \o u = s \o (t \o u)
<1> DEFINE a == (s \o t) \o u
           b == s \o (t \o u)
<1>1. Listed(s \o t) /\ Listed(t \o u) /\ Len(s \o t) = Len(s) + Len(t) /\ Len(t \o u) = Len(t) + Len(u) BY ListedConcat
<1>2. Listed(a) /\ Listed(b) /\ Len(a) = Len(s \o t) + Len(u) /\ Len(b) = Len(s) + Len(t \o u) BY <1>1, ListedConcat
<1>3. Len(s) \in Nat /\ Len(t) \in Nat /\ Len(u) \in Nat BY ListedLen
<1>4. Len(a) = Len(b) BY <1>1, <1>2, <1>3
<1>5. ASSUME NEW i \in 1..Len(a) PROVE a[i] = b[i]
 <2>1. CASE i \in 1..Len(s)
  <3>1. a[i] = (s \o t)[i] BY <1>1, <1>3, <2>1, ListedConcat
  <3>2. (s \o t)[i] = s[i] /\ b[i] = s[i] BY <1>1, <2>1, ListedConcat
  <3> QED BY <3>1, <3>2
 <2>2. CASE i > Len(s) /\ i <= Len(s) + Len(t)
  <3>1. PICK j \in 1..Len(t) : i = Len(s) + j
   <4>1. i - Len(s) \in 1..Len(t) /\ i = Len(s) + (i - Len(s)) BY <1>3, <2>2
   <4> QED BY <4>1
  <3>2. i \in 1..Len(s \o t) /\ j \in 1..Len(t \o u) BY <1>1, <1>3, <3>1
  <3>3. a[i] = (s \o t)[i] BY <1>1, <3>2, ListedConcat
  <3>4. (s \o t)[i] = t[j] BY <3>1, ListedConcat
  <3>5. b[i] = (t \o u)[j] BY <1>1, <3>1, <3>2, ListedConcat
  <3>6. (t \o u)[j] = t[j] BY ListedConcat
  <3> QED BY <3>3, <3>4, <3>5, <3>6
 <2>3. CASE i > Len(s) + Len(t)
  <3>1. PICK j \in 1..Len(u) : i = Len(s \o t) + j /\ i = Len(s) + (Len(t) + j)
   <4>1. i - (Len(s) + Len(t)) \in 1..Len(u) /\ i = (Len(s) + Len(t)) + (i - (Len(s) + Len(t)))
         /\ i = Len(s) + (Len(t) + (i - (Len(s) + Len(t)))) BY <1>1, <1>2, <1>3, <2>3
   <4> QED BY <4>1, <1>1
  <3>2. Len(t) + j \in 1..Len(t \o u) BY <1>1, <1>3
  <3>3. a[i] = u[j] BY <1>1, <3>1, ListedConcat
  <3>4. b[i] = (t \o u)[Len(t) + j] BY <1>1, <3>1, <3>2, ListedConcat
  <3>5. (t \o u)[Len(t) + j] = u[j] BY ListedConcat
  <3> QED BY <3>3, <3>4, <3>5
 <2> QED BY <1>1, <1>2, <1>3, <2>1, <2>2, <2>3
<1> HIDE DEF a, b
<1>6. a = b BY <1>2, <1>4, <1>5, ListedEqual
<1> QED BY <1>6 DEF a, b

\* Joining nothing to a list leaves it as it is.
LEMMA ConcatNil == ASSUME NEW t, Listed(t) PROVE <<>> \o t = t /\ t \o <<>> = t
<1> DEFINE R == {t[i] : i \in DOMAIN t}
<1>1. t \in Seq(R) BY DEF Listed
<1> HIDE DEF R
<1> QED BY <1>1, ConcatEmptySeq

\* A stage in front of a list.
LEMMA InFront == ASSUME NEW x, NEW t, Listed(t)
    PROVE  /\ Listed(<<x>> \o t) /\ <<x>> \o t # <<>> /\ Len(<<x>> \o t) = Len(t) + 1
           /\ Head(<<x>> \o t) = x /\ Tail(<<x>> \o t) = t
           /\ (<<x>> \o t)[1] = x /\ \A i \in 1..Len(t) : (<<x>> \o t)[i + 1] = t[i]
<1> DEFINE u == <<x>> \o t
           R == {u[i] : i \in DOMAIN u}
<1>1. Listed(<<x>>) /\ Len(<<x>>) = 1 /\ <<x>>[1] = x BY ListedOne
<1>2. Listed(u) /\ Len(u) = 1 + Len(t) /\ u[1] = x /\ \A i \in 1..Len(t) : u[1 + i] = t[i] BY <1>1, ListedConcat
<1>3. Len(t) \in Nat BY ListedLen
<1>4. u \in Seq(R) BY <1>2 DEF Listed
<1>5. Len(<<>>) = 0 OBVIOUS
<1> HIDE DEF u, R
<1>6. u # <<>> BY <1>2, <1>3, <1>5
<1>7. Head(u) = u[1] /\ Tail(u) \in Seq(R) /\ Len(Tail(u)) = Len(u) - 1 /\ \A i \in 1..Len(Tail(u)) : Tail(u)[i] = u[i + 1]
 BY <1>4, <1>6, HeadTailProperties
<1>8. \A i \in 1..Len(t) : u[i + 1] = t[i] BY <1>2
<1>9. Tail(u) = t
 <2>0. Listed(Tail(u)) BY <1>7, ListedOf
 <2>1. Listed(Tail(u)) /\ Len(Tail(u)) = Len(t) BY <1>2, <1>3, <1>7, <2>0
 <2>2. \A i \in 1..Len(Tail(u)) : Tail(u)[i] = t[i] BY <1>7, <1>8, <2>1
 <2> QED BY <2>1, <2>2, ListedEqual
<1>10. Len(u) = Len(t) + 1 BY <1>2, <1>3
<1> QED BY <1>2, <1>6, <1>7, <1>8, <1>9, <1>10 DEF u

\* A list that is not empty is its first stage followed by the others.
LEMMA HeadFirst == ASSUME NEW t, Listed(t), t # <<>> PROVE Listed(Tail(t)) /\ t = <<Head(t)>> \o Tail(t)
<1> DEFINE R == {t[i] : i \in DOMAIN t}
<1>1. t \in Seq(R) BY DEF Listed
<1> HIDE DEF R
<1>2. Head(t) = t[1] /\ Tail(t) \in Seq(R) /\ Len(Tail(t)) = Len(t) - 1 /\ \A i \in 1..Len(Tail(t)) : Tail(t)[i] = t[i + 1]
 BY <1>1, HeadTailProperties
<1>3. Listed(Tail(t)) /\ Len(t) \in Nat \ {0} BY <1>1, <1>2, ListedOf, EmptySeq
<1> DEFINE h == Head(t)
           r == Tail(t)
<1>4. Listed(<<h>> \o r) /\ Len(<<h>> \o r) = Len(r) + 1 /\ (<<h>> \o r)[1] = h /\ \A i \in 1..Len(r) : (<<h>> \o r)[i + 1] = r[i]
 BY <1>3, InFront
<1>5. ASSUME NEW i \in 1..Len(t) PROVE t[i] = (<<h>> \o r)[i]
 <2>1. CASE i = 1 BY <1>2, <1>4, <2>1
 <2>2. CASE i # 1
  <3>1. PICK j \in 1..Len(r) : i = j + 1
   <4>1. i - 1 \in 1..Len(r) /\ i = (i - 1) + 1 BY <1>2, <1>3, <2>2
   <4> QED BY <4>1
  <3> QED BY <1>2, <1>4, <3>1
 <2> QED BY <2>1, <2>2
<1>6. Len(t) = Len(<<h>> \o r) BY <1>2, <1>3, <1>4
<1>7. t = <<h>> \o r
 <2> DEFINE w == <<h>> \o r
 <2> HIDE DEF w, h, r
 <2>1. Listed(w) /\ Len(t) = Len(w) /\ \A i \in 1..Len(t) : t[i] = w[i] BY <1>4, <1>5, <1>6 DEF w
 <2>2. t = w BY <2>1, ListedEqual
 <2> QED BY <2>2 DEF w
<1> QED BY <1>3, <1>7

\* A list of two or three stages, written with joins.
LEMMA Tuples == ASSUME NEW x, NEW y, NEW z PROVE <<x, y>> = <<x>> \o <<y>> /\ <<x, y, z>> = <<x>> \o (<<y>> \o <<z>>)
<1>1. <<x, y>> \in Seq({x, y}) /\ <<y, z>> \in Seq({y, z}) /\ <<x, y, z>> \in Seq({x, y, z}) OBVIOUS
<1>2. Listed(<<x, y>>) /\ Listed(<<y, z>>) /\ Listed(<<x, y, z>>) BY <1>1, ListedOf
<1>3. <<x, y>> # <<>> /\ <<y, z>> # <<>> /\ <<x, y, z>> # <<>> OBVIOUS
<1>4. <<x, y>> = <<Head(<<x, y>>)>> \o Tail(<<x, y>>) BY <1>2, <1>3, HeadFirst
<1>5. <<y, z>> = <<Head(<<y, z>>)>> \o Tail(<<y, z>>) BY <1>2, <1>3, HeadFirst
<1>6. <<x, y, z>> = <<Head(<<x, y, z>>)>> \o Tail(<<x, y, z>>) BY <1>2, <1>3, HeadFirst
<1>7. Head(<<x, y>>) = x /\ Tail(<<x, y>>) = <<y>> /\ Head(<<y, z>>) = y /\ Tail(<<y, z>>) = <<z>>
      /\ Head(<<x, y, z>>) = x /\ Tail(<<x, y, z>>) = <<y, z>> OBVIOUS
<1> QED BY <1>4, <1>5, <1>6, <1>7

\* Min of a set of naturals is its least element, Max of a bounded one its greatest.
LEMMA LeastNatural == ASSUME NEW T, T \subseteq Nat, T # {} PROVE \E x \in T : \A y \in T : x <= y
<1>1. IsWellFoundedOn(OpToRel(<, Nat), Nat) BY NatLessThanWellFounded
<1>2. \A x, y \in Nat : x < y => <<x, y>> \in OpToRel(<, Nat) BY DEF OpToRel
<1>3. \E R : IsWellFoundedOn(R, Nat) /\ \A x, y \in Nat : x < y => <<x, y>> \in R BY <1>1, <1>2
<1>4. PICK R : IsWellFoundedOn(R, Nat) /\ \A x, y \in Nat : x < y => <<x, y>> \in R BY <1>3
<1>5. IsWellFoundedOn(R, Nat) BY <1>4
<1>6. \E x \in T : \A y \in T : ~(<<y, x>> \in R) BY <1>5, WFMin
<1>7. PICK x \in T : \A y \in T : ~(<<y, x>> \in R) BY <1>6
<1>8. ASSUME NEW y \in T PROVE x <= y
 <2>1. ~(y < x) BY <1>4, <1>7
 <2> QED BY <2>1
<1> QED BY <1>8

\* The least number of a set that is not empty, as find_bit_and_set looks for it.
LEMMA MinIs == ASSUME NEW T, T \subseteq Nat, T # {} PROVE Min(T) \in T /\ \A y \in T : Min(T) <= y
<1>1. \E x \in T : \A y \in T : x =< y BY LeastNatural
<1> QED BY <1>1 DEF Min

\* The greatest number of a bounded set that is not empty.
LEMMA MaxIs == ASSUME NEW b \in Nat, NEW T, T \subseteq 0..b, T # {} PROVE Max(T) \in T /\ \A y \in T : Max(T) >= y
<1> DEFINE U == {b - x : x \in T}
<1>1. U \subseteq Nat /\ U # {} OBVIOUS
<1>2. PICK m \in U : \A y \in U : m <= y
 <2> HIDE DEF U
 <2> QED BY <1>1, LeastNatural
<1>3. PICK x \in T : m = b - x BY <1>2
<1>4. ASSUME NEW y \in T PROVE x >= y
 <2>1. b - y \in U OBVIOUS
 <2>2. b - x <= b - y BY <1>2, <1>3, <2>1
 <2> QED BY <2>2
<1>5. \E z \in T : \A y \in T : z >= y BY <1>4
<1> QED BY <1>5 DEF Max

\* A call goes on with a list that begins with a stage that is no catch.
LEMMA PastStage == ASSUME NEW x, NEW t, Listed(t), x.k # "catch" PROVE PastCatch(<<x>> \o t) = <<x>> \o t
<1> DEFINE u == <<x>> \o t
           on == {i \in DOMAIN u : u[i].k # "catch"}
           R == {u[i] : i \in DOMAIN u}
<1>1. Listed(u) /\ u # <<>> /\ u[1] = x BY InFront
<1>2. Len(u) \in Nat /\ DOMAIN u = 1..Len(u) /\ Len(u) >= 1 BY <1>1, ListedLen
<1>3. 1 \in on /\ on \subseteq Nat BY <1>1, <1>2
<1>4. Min(on) = 1
 <2>1. on \subseteq 1..Len(u) BY <1>2
 <2> HIDE DEF on
 <2>2. Min(on) \in on /\ Min(on) <= 1 BY <1>3, MinIs
 <2> DEFINE m == Min(on)
 <2>3. m \in on /\ m <= 1 BY <2>2
 <2> HIDE DEF m
 <2>4. m = 1 BY <1>2, <2>1, <2>3
 <2> QED BY <2>4 DEF m
<1>5. u \in Seq(R) BY <1>1 DEF Listed
<1>6. SubSeq(u, 1, Len(u)) = u
 <2> HIDE DEF u, R
 <2> QED BY <1>5, SubSeqFull
<1>7. PastCatch(u) = u
 <2>1. on # {} BY <1>3
 <2>2. PastCatch(u) = IF on = {} THEN <<>> ELSE SubSeq(u, Min(on), Len(u)) BY DEF PastCatch
 <2> HIDE DEF on, u
 <2> QED BY <2>1, <2>2, <1>4, <1>6
<1> QED BY <1>7

\* With nothing left to do there is no caller to return to.
LEMMA PastNothing == PastCatch(<<>>) = <<>> BY DEF PastCatch

\* A single stage that is no caller is what comes next.
LEMMA PastOne == ASSUME NEW x, x.k # "catch" PROVE PastCatch(<<x>>) = <<x>>
<1>1. <<x>> \o <<>> = <<x>> BY ConcatNil, ListedOne
<1> QED BY <1>1, ListedNil, PastStage

\* A catch in front is passed by.
LEMMA PastACatch == ASSUME NEW x, NEW t, Listed(t), x.k = "catch" PROVE PastCatch(<<x>> \o t) = PastCatch(t)
<1> DEFINE u == <<x>> \o t
           ou == {i \in DOMAIN u : u[i].k # "catch"}
           ot == {i \in DOMAIN t : t[i].k # "catch"}
<1>1. Listed(u) /\ u[1] = x /\ Len(u) = Len(t) + 1 /\ \A i \in 1..Len(t) : u[i + 1] = t[i] BY InFront
<1>2. Len(t) \in Nat /\ DOMAIN u = 1..Len(u) /\ DOMAIN t = 1..Len(t) BY <1>1, ListedLen
<1>3. ot = {} => ou = {}
 <2> SUFFICES ASSUME ot = {}, NEW i \in ou PROVE FALSE OBVIOUS
 <2>1. i # 1 /\ i - 1 \in 1..Len(t) /\ u[(i - 1) + 1].k # "catch" BY <1>1, <1>2
 <2>2. t[i - 1].k # "catch" BY <1>1, <2>1
 <2> QED BY <1>2, <2>1, <2>2
<1>4. ASSUME ot # {} PROVE ou # {} /\ Min(ou) = Min(ot) + 1 /\ Min(ot) \in 1..Len(t)
 <2>1. ot \subseteq Nat /\ ou \subseteq Nat /\ ot \subseteq 1..Len(t) /\ ou \subseteq 1..Len(u) BY <1>2
 <2> DEFINE a == Min(ot)
            b == Min(ou)
 <2>2. a \in ot /\ \A y \in ot : a <= y
  <3> HIDE DEF ot
  <3> QED BY <1>4, <2>1, MinIs
 <2>3. a + 1 \in ou
  <3>1. a \in 1..Len(t) /\ t[a].k # "catch" BY <1>2, <2>2
  <3>2. a + 1 \in 1..Len(u) /\ u[a + 1].k # "catch" BY <1>1, <1>2, <3>1
  <3> QED BY <1>2, <3>2
 <2>4. b \in ou /\ \A y \in ou : b <= y
  <3> HIDE DEF ou
  <3> QED BY <2>1, <2>3, MinIs
 <2> HIDE DEF a, b
 <2>5. b - 1 \in ot
  <3>1. b \in 1..Len(u) /\ u[b].k # "catch" BY <1>2, <2>4
  <3>2. b # 1 BY <1>1, <3>1
  <3>3. b - 1 \in 1..Len(t) /\ b = (b - 1) + 1 BY <1>1, <1>2, <3>1, <3>2
  <3>4. t[b - 1].k # "catch" BY <1>1, <3>1, <3>3
  <3> QED BY <1>2, <3>3, <3>4
 <2>6. a \in 1..Len(t) /\ b \in 1..Len(u) BY <2>1, <2>2, <2>4
 <2>7. a <= b - 1 /\ b <= a + 1 BY <2>2, <2>3, <2>4, <2>5
 <2>8. b = a + 1 BY <1>1, <1>2, <2>6, <2>7
 <2> QED BY <2>3, <2>6, <2>8 DEF a, b
<1>5. CASE ot = {}
 <2>1. PastCatch(u) = <<>> /\ PastCatch(t) = <<>> BY <1>3, <1>5 DEF PastCatch
 <2> QED BY <2>1
<1>6. CASE ot # {}
 <2> DEFINE a == Min(ot)
            v == SubSeq(u, a + 1, Len(u))
            w == SubSeq(t, a, Len(t))
 <2>1. PastCatch(u) = v /\ PastCatch(t) = w BY <1>4, <1>6 DEF PastCatch
 <2>2. a \in 1..Len(t) BY <1>4, <1>6
 <2> HIDE DEF a
 <2>3. /\ Listed(v) /\ Listed(w) /\ Len(v) = Len(u) - (a + 1) + 1 /\ Len(w) = Len(t) - a + 1
       /\ \A i \in 1..Len(v) : v[i] = u[a + 1 + i - 1]
       /\ \A i \in 1..Len(w) : w[i] = t[a + i - 1]
  <3> DEFINE Ru == {u[i] : i \in DOMAIN u}
             Rt == {t[i] : i \in DOMAIN t}
  <3>1. u \in Seq(Ru) /\ t \in Seq(Rt) BY <1>1 DEF Listed
  <3> HIDE DEF Ru, Rt, u
  <3>2. a + 1 \in 1..Len(u) + 1 /\ Len(u) \in a..Len(u) /\ a \in 1..Len(t) + 1 /\ Len(t) \in a - 1..Len(t)
   BY <1>1, <1>2, <2>2
  <3>3. v \in Seq(Ru) /\ Len(v) = (IF a + 1 <= Len(u) THEN Len(u) - (a + 1) + 1 ELSE 0) /\ \A i \in 1..Len(v) : v[i] = u[a + 1 + i - 1]
   BY <3>1, <3>2, SubSeqProperties
  <3>4. w \in Seq(Rt) /\ Len(w) = (IF a <= Len(t) THEN Len(t) - a + 1 ELSE 0) /\ \A i \in 1..Len(w) : w[i] = t[a + i - 1]
   BY <3>1, <3>2, SubSeqProperties
  <3>5. Listed(v) /\ Listed(w)
   <4> HIDE DEF v, w
   <4> QED BY <3>3, <3>4, ListedOf
  <3>6. a + 1 <= Len(u) /\ a <= Len(t) BY <1>1, <1>2, <2>2
  <3> QED BY <3>3, <3>4, <3>5, <3>6
 <2>4. Len(v) = Len(w) BY <1>1, <1>2, <2>2, <2>3
 <2>5. ASSUME NEW i \in 1..Len(v) PROVE v[i] = w[i]
  <3>1. Len(w) = Len(t) - a + 1 /\ i \in 1..Len(w) BY <2>3, <2>4
  <3>2. a + 1 + i - 1 = (a + i - 1) + 1 /\ a + i - 1 \in 1..Len(t) BY <1>2, <2>2, <3>1
  <3> QED BY <1>1, <2>3, <2>4, <3>2
 <2>6. v = w
  <3> HIDE DEF v, w
  <3> QED BY <2>3, <2>4, <2>5, ListedEqual
 <2> QED BY <2>1, <2>6
<1> QED BY <1>5, <1>6

\* Cluster numbers are positive, and the marks for a free and a last cluster are none of them.
LEMMA ClusterNums ==
    /\ Clusters \subseteq Nat \ {0} /\ Clusters # {} /\ First \in Clusters
    /\ FREE \notin Clusters /\ END \notin Clusters /\ FREE # END /\ END \in Nat
    /\ \A c \in Clusters : ~Invalid(c) /\ c >= First
    /\ Invalid(END) /\ Invalid(FREE) BY VolumeAssumption DEF Clusters, First, FREE, END, Invalid

\* exfat_advance_cluster finds the cluster at a place of the chain, from wherever in it
\* the remembered place is.
LEMMA AdvanceIs == ASSUME NEW nd, NEW s \in [Nat -> Clusters], NEW n \in Nat, NEW count \in Nat, count < n, nd.at \in Nat,
           Strung(nd, s, n), Pointed(nd, s, n) PROVE Advance(nd, count) = s[count] /\ ~AdvanceBugs(nd, count)
<1> DEFINE at  == From(nd, count).at
           ptr == From(nd, count).ptr
<1>1. at \in Nat /\ at <= count /\ ptr = s[at]
 <2>1. nd.at < n /\ nd.ptr = s[nd.at] /\ nd.start = s[0] BY DEF Pointed, Strung
 <2>2. CASE nd.at > count
  <3>1. at = 0 /\ ptr = nd.start BY <2>2 DEF From
  <3> QED BY <2>1, <3>1
 <2>3. CASE ~(nd.at > count)
  <3>1. at = nd.at /\ ptr = nd.ptr BY <2>3 DEF From
  <3> QED BY <2>1, <2>3, <3>1
 <2> QED BY <2>2, <2>3
<1> DEFINE Def(h) == [i \in at..count |->
                        IF i = at THEN ptr
                        ELSE IF i > at + 1 /\ Invalid(h[i - 1]) THEN h[i - 1]
                        ELSE NextCluster(nd, h[i - 1])]
           walk == CHOOSE h : h = Def(h)
           own == [i \in at..count |-> s[i]]
<1>2. Advance(nd, count) = walk[count] BY DEF Advance
<1>a. ~AdvanceBugs(nd, count)
 <2>1. s[at] \in Clusters BY <1>1
 <2>2. ~(ptr < First) BY <1>1, <2>1, ClusterNums, VolumeAssumption DEF First, Clusters
 <2> QED BY <2>2 DEF AdvanceBugs
<1> HIDE DEF at, ptr
<1>3. own = Def(own)
 <2>1. ASSUME NEW i \in at..count PROVE own[i] = Def(own)[i]
  <3>1. CASE i = at BY <1>1, <3>1
  <3>2. CASE i # at
   <4>1. i - 1 \in at..count /\ i - 1 \in Nat /\ (i - 1) + 1 = i /\ (i - 1) + 1 < n BY <1>1, <3>2
   <4>2. own[i - 1] = s[i - 1] /\ s[i - 1] \in Clusters BY <4>1
   <4>3. ~Invalid(s[i - 1]) BY <4>2, ClusterNums
   <4>4. NextCluster(nd, s[i - 1]) = s[i] BY <4>1 DEF Strung, Segment
   <4>5. Def(own)[i] = NextCluster(nd, own[i - 1]) BY <1>1, <3>2, <4>2, <4>3
   <4> QED BY <4>2, <4>4, <4>5
  <3> QED BY <3>1, <3>2
 <2> QED BY <2>1
<1>4. walk = Def(walk) BY <1>3
<1>5. \A i \in at..count : walk[i] = IF i = at THEN ptr
                        ELSE IF i > at + 1 /\ Invalid(walk[i - 1]) THEN walk[i - 1]
                        ELSE NextCluster(nd, walk[i - 1])
 <2> HIDE DEF walk
 <2> QED BY <1>4
<1> HIDE DEF walk
<1> DEFINE T == {i \in at..count : walk[i] # s[i]}
<1>6. T = {}
 <2> SUFFICES ASSUME T # {} PROVE FALSE OBVIOUS
 <2>0. T \subseteq Nat BY <1>1
 <2>1. PICK k \in T : \A y \in T : k <= y
  <3> HIDE DEF T
  <3> QED BY <2>0, LeastNatural
 <2>2. k \in at..count /\ walk[k] # s[k] BY <2>1
 <2>3. k # at BY <1>1, <1>5, <2>2
 <2>4. k - 1 \in at..count /\ k - 1 \in Nat /\ (k - 1) + 1 = k /\ (k - 1) + 1 < n /\ ~(k <= k - 1) BY <1>1, <2>2, <2>3
 <2>5. walk[k - 1] = s[k - 1] BY <2>1, <2>4
 <2>6. ~Invalid(s[k - 1]) BY <2>4, ClusterNums
 <2>7. NextCluster(nd, s[k - 1]) = s[k] BY <2>4 DEF Strung, Segment
 <2>8. walk[k] = NextCluster(nd, walk[k - 1]) BY <1>5, <2>2, <2>3, <2>5, <2>6
 <2> QED BY <2>2, <2>5, <2>7, <2>8
<1>7. count \in at..count BY <1>1
<1> QED BY <1>2, <1>6, <1>7, <1>a

\* The clusters of a contiguous file follow one another.
LEMMA ContiguousAt == ASSUME NEW nd, NEW s \in [Nat -> Clusters], NEW n \in Nat, nd.contiguous, Segment(nd, s, 0, n)
    PROVE  \A i \in 0..n - 1 : s[i] = s[0] + i
<1> DEFINE T == {i \in 0..n - 1 : s[i] # s[0] + i}
<1> SUFFICES ASSUME T # {} PROVE FALSE OBVIOUS
<1>1. T \subseteq Nat OBVIOUS
<1>2. PICK k \in T : \A y \in T : k <= y
 <2> HIDE DEF T
 <2> QED BY <1>1, LeastNatural
<1>3. k \in 0..n - 1 /\ s[k] # s[0] + k BY <1>2
<1>4. s[0] \in Nat BY ClusterNums
<1>5. k # 0 BY <1>3, <1>4
<1>6. k - 1 \in 0..n - 1 /\ k - 1 \in Nat /\ (k - 1) + 1 = k /\ (k - 1) + 1 < n /\ ~(k <= k - 1) BY <1>3, <1>5
<1>7. s[k - 1] = s[0] + (k - 1) BY <1>2, <1>6
<1>8. s[k] = s[k - 1] + 1 BY <1>6 DEF Segment, NextCluster
<1> QED BY <1>3, <1>4, <1>6, <1>7, <1>8

\* allocate_cluster gives a free cluster of the volume, or none when all are in use.
LEMMA AllocateIs == ASSUME NEW hint, cmap \subseteq Clusters
    PROVE  /\ Allocate(hint) \in (Clusters \ cmap) \cup {END}
           /\ Invalid(Allocate(hint)) => Clusters = cmap
<1> DEFINE free  == Clusters \ cmap
           h     == IF hint \in Clusters THEN hint ELSE First
           after == {c \in free : c >= h}
<1>1. Allocate(hint) = IF after # {} THEN Min(after) ELSE IF free # {} THEN Min(free) ELSE END BY DEF Allocate
<1>2. free \subseteq Nat /\ after \subseteq Nat /\ after \subseteq free BY ClusterNums
<1>3. CASE after # {}
 <2>1. Min(after) \in after
  <3> HIDE DEF after
  <3> QED BY <1>2, <1>3, MinIs
 <2>2. Allocate(hint) \in free BY <1>1, <1>2, <1>3, <2>1
 <2> QED BY <2>2, ClusterNums
<1>4. CASE after = {} /\ free # {}
 <2>1. Min(free) \in free
  <3> HIDE DEF free
  <3> QED BY <1>2, <1>4, MinIs
 <2>2. Allocate(hint) \in free BY <1>1, <1>4, <2>1
 <2> QED BY <2>2, ClusterNums
<1>5. CASE after = {} /\ free = {}
 <2>1. Allocate(hint) = END BY <1>1, <1>5
 <2> QED BY <1>5, <2>1
<1> QED BY <1>3, <1>4, <1>5

------------------------------
\* The chains once f has the cluster c at place k, and once it has none there.
Added(ch, own, f, k, c) ==
    \E ch2 \in Ghosts, own2 \in [Files -> SUBSET Nat] :
        /\ Owned(ch2, own2)'
        /\ ch2[f][k] = c /\ own2[f] = own[f] \cup {k}
        /\ \A i \in Nat : i # k => ch2[f][i] = ch[f][i]
        /\ \A g \in Files : g # f => ch2[g] = ch[g] /\ own2[g] = own[g]

Removed(ch, own, f, k) ==
    \E own2 \in [Files -> SUBSET Nat] :
        /\ Owned(ch, own2)'
        /\ own2[f] = own[f] \ {k}
        /\ \A g \in Files : g # f => own2[g] = own[g]

\* A new cluster at a new place.
LEMMA OwnedAdd == ASSUME NEW ch \in Ghosts, NEW own \in [Files -> SUBSET Nat], Owned(ch, own),
           NEW f \in Files, NEW k \in Nat, k \notin own[f], NEW c \in Clusters \ cmap, cmap' = cmap \cup {c}
    PROVE  Added(ch, own, f, k, c)
<1> DEFINE ch2  == [ch EXCEPT ![f] = [@ EXCEPT ![k] = c]]
           own2 == [own EXCEPT ![f] = @ \cup {k}]
<1>1. ch2 \in Ghosts /\ own2 \in [Files -> SUBSET Nat] BY DEF Ghosts
<1>2. ch2[f][k] = c /\ own2[f] = own[f] \cup {k} /\ \A i \in Nat : i # k => ch2[f][i] = ch[f][i] BY DEF Ghosts
<1>3. \A g \in Files : g # f => ch2[g] = ch[g] /\ own2[g] = own[g] BY DEF Ghosts
<1>4. \A g \in Files : own[g] \subseteq Nat OBVIOUS
<1> HIDE DEF ch2, own2
<1>5. ASSUME NEW g \in Files, NEW i \in own2[g]
      PROVE  (g = f /\ i = k /\ ch2[g][i] = c) \/ (i \in own[g] /\ ch2[g][i] = ch[g][i] /\ ~(g = f /\ i = k))
 <2>1. CASE g = f /\ i = k BY <2>1, <1>2
 <2>2. CASE g = f /\ i # k BY <2>2, <1>2, <1>4
 <2>3. CASE g # f BY <2>3, <1>3
 <2> QED BY <2>1, <2>2, <2>3
<1>6. Owned(ch2, own2)'
 <2>1. ASSUME NEW g \in Files, NEW i \in own2[g] PROVE ch2[g][i] \in cmap' BY <1>5 DEF Owned
 <2>2. ASSUME NEW g \in Files, NEW h \in Files, NEW i \in own2[g], NEW j \in own2[h], ch2[g][i] = ch2[h][j] PROVE g = h /\ i = j
  <3>1. \A e \in Files : \A m \in own[e] : ch[e][m] # c BY DEF Owned
  <3>2. (g = f /\ i = k /\ ch2[g][i] = c) \/ (i \in own[g] /\ ch2[g][i] = ch[g][i]) BY <1>5
  <3>3. (h = f /\ j = k /\ ch2[h][j] = c) \/ (j \in own[h] /\ ch2[h][j] = ch[h][j]) BY <1>5
  <3> QED BY <2>2, <3>1, <3>2, <3>3 DEF Owned
 <2>3. ASSUME NEW d \in cmap' PROVE \E g \in Files : \E i \in own2[g] : ch2[g][i] = d
  <3>1. CASE d = c
   <4>1. k \in own2[f] /\ ch2[f][k] = d BY <1>2, <3>1
   <4> QED BY <4>1
  <3>2. CASE d # c
   <4>1. d \in cmap BY <3>2
   <4>2. PICK g \in Files : \E i \in own[g] : ch[g][i] = d BY <4>1 DEF Owned
   <4>a. PICK i \in own[g] : ch[g][i] = d BY <4>2
   <4>3. i \in own2[g] /\ ch2[g][i] = d BY <1>2, <1>3, <1>4, <4>a
   <4> QED BY <4>3
  <3> QED BY <3>1, <3>2
 <2> QED BY <2>1, <2>2, <2>3 DEF Owned
<1> QED BY <1>1, <1>2, <1>3, <1>6 DEF Added

\* A cluster that is given up, with its place.
LEMMA OwnedRemove == ASSUME NEW ch \in Ghosts, NEW own \in [Files -> SUBSET Nat], Owned(ch, own),
           NEW f \in Files, NEW k \in own[f], cmap' = cmap \ {ch[f][k]} PROVE Removed(ch, own, f, k)
<1> DEFINE own2 == [own EXCEPT ![f] = @ \ {k}]
<1>1. own2 \in [Files -> SUBSET Nat] /\ own2[f] = own[f] \ {k} OBVIOUS
<1>2. \A g \in Files : g # f => own2[g] = own[g] OBVIOUS
<1> HIDE DEF own2
<1>3. Owned(ch, own2)'
 <2>1. ASSUME NEW g \in Files, NEW i \in own2[g] PROVE i \in own[g] /\ ~(g = f /\ i = k) BY <1>1, <1>2
 <2>2. ASSUME NEW g \in Files, NEW i \in own2[g] PROVE ch[g][i] \in cmap'
  <3>1. ch[g][i] \in cmap /\ ch[g][i] # ch[f][k] BY <2>1 DEF Owned
  <3> QED BY <3>1
 <2>3. ASSUME NEW g \in Files, NEW h \in Files, NEW i \in own2[g], NEW j \in own2[h], ch[g][i] = ch[h][j] PROVE g = h /\ i = j
  BY <2>1, <2>3 DEF Owned
 <2>4. ASSUME NEW d \in cmap' PROVE \E g \in Files : \E i \in own2[g] : ch[g][i] = d
  <3>1. d \in cmap /\ d # ch[f][k] OBVIOUS
  <3>2. PICK g \in Files : \E i \in own[g] : ch[g][i] = d BY <3>1 DEF Owned
  <3>a. PICK i \in own[g] : ch[g][i] = d BY <3>2
  <3>3. i \in own2[g] BY <1>1, <1>2, <3>1, <3>a
  <3> QED BY <3>a, <3>3
 <2> QED BY <2>2, <2>3, <2>4 DEF Owned
<1> QED BY <1>1, <1>2, <1>3 DEF Removed

\* A file has no more clusters than the volume.
LEMMA SizeBound == ASSUME NEW ch \in Ghosts, NEW own \in [Files -> SUBSET Nat], Owned(ch, own),
           NEW f \in Files, NEW n \in Nat, 0..n - 1 \subseteq own[f] PROVE n <= ClusterCount
<1> DEFINE A == 0..n - 1
           m == [i \in A |-> ch[f][i]]
<1>1. IsFiniteSet(A) /\ Cardinality(A) = n BY FS_Interval
<1>2. IsFiniteSet(Clusters) /\ Cardinality(Clusters) = ClusterCount BY FS_Interval, VolumeAssumption DEF Clusters, First
<1>3. m \in [A -> Clusters] /\ \A i, j \in A : m[i] = m[j] => i = j BY DEF Ghosts, Owned
<1>4. m \in Injection(A, Clusters) BY <1>3 DEF Injection, IsInjective
<1>5. Cardinality(A) <= Cardinality(Clusters)
 <2> HIDE DEF m, A
 <2> QED BY <1>1, <1>2, <1>4, FS_Injection
<1> QED BY <1>1, <1>2, <1>5

\* What a call in progress is known to be at.
LEMMA AtWhich == ASSUME NEW ch, NEW own, Busy(ch, own), todo # <<>>
    PROVE  /\ Now.k \in Kinds
           /\ Doing("attach") => AtAttach(Now, Tail(todo), ch, own)
           /\ Doing("unlink") => AtUnlink(Now, Tail(todo), ch, own)
           /\ Doing("truncate") => AtTruncate(Now, Tail(todo), ch, own)
           /\ Doing("grow") => AtGrow(Now, Tail(todo), ch, own)
           /\ Doing("growLoop") => AtGrowLoop(Now, Tail(todo), ch, own)
           /\ Doing("fat") => AtFat(Now, Tail(todo), ch, own)
           /\ Doing("noncontiguous") => Spreading(todo, ch, own)
           /\ Doing("fail") => AtFail(Now, Tail(todo), ch, own)
           /\ Doing("shrink") => AtShrink(Now, Tail(todo), ch, own)
           /\ Doing("rewind") => AtRewind(Now, Tail(todo), ch, own)
           /\ Doing("free") => AtFree(Now, Tail(todo), ch, own)
           /\ Doing("clear") => AtClear(Now, Tail(todo), ch, own)
           /\ Doing("eraseRange") => AtEraseRange(Now, Tail(todo), ch, own)
           /\ Doing("erase") => Erasing(todo, ch, own)
           /\ Doing("setSize") => AtSetSize(Now, Tail(todo), ch, own)
           /\ Doing("locate") => AtLocate(Now, Tail(todo), ch, own)
           /\ Doing("write") => AtWrite(Now, Tail(todo), ch, own)
           /\ Doing("data") => AtData(Now, Tail(todo), ch, own)
           /\ (Doing("unmark") \/ Doing("freeNode")) => AtEnd(Now, Tail(todo), ch, own)
           /\ Doing("entry") => Flushing(Now, Tail(todo)) \/ AtEntry(Now, Tail(todo), ch, own)
           /\ Now.k \in FlushKinds => Flushing(Now, Tail(todo)) BY DEF Busy, At, Doing, Now

\* It is enough to know what the stage at the head asks for.
LEMMA AtThat ==
    ASSUME NEW ch, NEW own, todo' # <<>>,
           \/ Now'.k = "attach" /\ AtAttach(Now, Tail(todo), ch, own)'
           \/ Now'.k = "unlink" /\ AtUnlink(Now, Tail(todo), ch, own)'
           \/ Now'.k = "truncate" /\ AtTruncate(Now, Tail(todo), ch, own)'
           \/ Now'.k = "grow" /\ AtGrow(Now, Tail(todo), ch, own)'
           \/ Now'.k = "growLoop" /\ AtGrowLoop(Now, Tail(todo), ch, own)'
           \/ Now'.k = "fat" /\ AtFat(Now, Tail(todo), ch, own)'
           \/ Now'.k = "noncontiguous" /\ Spreading(todo, ch, own)'
           \/ Now'.k = "fail" /\ AtFail(Now, Tail(todo), ch, own)'
           \/ Now'.k = "shrink" /\ AtShrink(Now, Tail(todo), ch, own)'
           \/ Now'.k = "rewind" /\ AtRewind(Now, Tail(todo), ch, own)'
           \/ Now'.k = "free" /\ AtFree(Now, Tail(todo), ch, own)'
           \/ Now'.k = "clear" /\ AtClear(Now, Tail(todo), ch, own)'
           \/ Now'.k = "eraseRange" /\ AtEraseRange(Now, Tail(todo), ch, own)'
           \/ Now'.k = "erase" /\ Erasing(todo, ch, own)'
           \/ Now'.k = "setSize" /\ AtSetSize(Now, Tail(todo), ch, own)'
           \/ Now'.k = "locate" /\ AtLocate(Now, Tail(todo), ch, own)'
           \/ Now'.k = "write" /\ AtWrite(Now, Tail(todo), ch, own)'
           \/ Now'.k = "data" /\ AtData(Now, Tail(todo), ch, own)'
           \/ Now'.k \in {"unmark", "freeNode"} /\ AtEnd(Now, Tail(todo), ch, own)'
           \/ Now'.k = "entry" /\ AtEntry(Now, Tail(todo), ch, own)'
           \/ Now'.k \in FlushKinds \cup {"entry"} /\ Flushing(Now, Tail(todo))' PROVE Busy(ch, own)'
BY DEF Busy, At, Kinds, FlushKinds

\* A call goes on with a first stage that is no catch.
LEMMA GoesOn == ASSUME NEW x, NEW t, Listed(t), x.k # "catch", Continue(<<x>> \o t)
    PROVE  /\ todo' = <<x>> \o t /\ Listed(todo') /\ todo' # <<>>
           /\ Now' = x /\ Tail(todo') = t /\ file' = file
<1> DEFINE u == <<x>> \o t
<1>1. PastCatch(u) = u BY PastStage
<1>2. Listed(u) /\ u # <<>> /\ Head(u) = x /\ Tail(u) = t BY InFront
<1> HIDE DEF u
<1>3. todo' = u BY <1>1 DEF Continue, u
<1>4. Now' = x /\ Tail(todo') = t /\ file' = file BY <1>2, <1>3 DEF Continue, Now
<1> QED BY <1>2, <1>3, <1>4 DEF u

\* A step that leaves one stage makes that stage the current one.
LEMMA GoesOnOne == ASSUME NEW x, x.k # "catch", Continue(<<x>>)
    PROVE  /\ todo' = <<x>> /\ Listed(todo') /\ todo' # <<>>
           /\ Now' = x /\ Tail(todo') = <<>> /\ file' = file
<1>1. <<x>> \o <<>> = <<x>> /\ Listed(<<>>) BY ConcatNil, ListedOne, ListedNil
<1>2. Continue(<<x>> \o <<>>) BY <1>1
<1> QED BY <1>1, <1>2, GoesOn

\* A step that leaves no stage ends the call.
LEMMA Ends == ASSUME Continue(<<>>) PROVE todo' = <<>> /\ Listed(todo') /\ file' = NoFile BY PastNothing, ListedNil DEF Continue

\* An error return with no caller that ignores it ends the call.
LEMMA BailEnds == ASSUME Listed(todo), NoCatch(todo), Bail PROVE todo' = <<>> /\ Listed(todo') /\ file' = NoFile
<1>1. {i \in DOMAIN todo : todo[i].k = "catch"} = {} BY DEF NoCatch
<1>2. Continue(<<>>) BY <1>1 DEF Bail
<1> QED BY <1>2, Ends

\* A stage in front that is no caller does not change whether there is a caller behind.
LEMMA NoCatchInFront == ASSUME NEW x, NEW t, Listed(t), x.k # "catch" PROVE NoCatch(<<x>> \o t) <=> NoCatch(t)
<1> DEFINE u == <<x>> \o t
<1>1. Listed(u) /\ Len(u) = Len(t) + 1 /\ u[1] = x /\ \A i \in 1..Len(t) : u[i + 1] = t[i] BY InFront
<1>2. Len(t) \in Nat /\ DOMAIN t = 1..Len(t) /\ DOMAIN u = 1..Len(u) BY <1>1, ListedLen
<1> HIDE DEF u
<1>3. ASSUME NoCatch(t), NEW i \in DOMAIN u PROVE u[i].k # "catch"
 <2>1. CASE i = 1 BY <1>1, <2>1
 <2>2. CASE i # 1
  <3>1. i - 1 \in 1..Len(t) /\ i = (i - 1) + 1 BY <1>1, <1>2, <2>2
  <3>2. u[i] = t[i - 1] BY <1>1, <3>1
  <3> QED BY <1>2, <1>3, <3>1, <3>2 DEF NoCatch
 <2> QED BY <2>1, <2>2
<1>4. ASSUME NoCatch(u), NEW i \in DOMAIN t PROVE t[i].k # "catch"
 <2>1. i + 1 \in DOMAIN u /\ u[i + 1] = t[i] BY <1>1, <1>2
 <2> QED BY <1>4, <2>1 DEF NoCatch
<1> QED BY <1>3, <1>4 DEF NoCatch, u

\* Short lists of stages without a caller.
LEMMA NoCatchShort ==
    /\ NoCatch(<<>>)
    /\ \A x : x.k # "catch" => NoCatch(<<x>>)
    /\ \A x, y : x.k # "catch" /\ y.k # "catch" => NoCatch(<<x, y>>)
<1>1. NoCatch(<<>>) BY DEF NoCatch
<1>2. ASSUME NEW x, x.k # "catch" PROVE NoCatch(<<x>>) BY <1>2 DEF NoCatch
<1>3. ASSUME NEW x, NEW y, x.k # "catch", y.k # "catch" PROVE NoCatch(<<x, y>>) BY <1>3 DEF NoCatch
<1> QED BY <1>1, <1>2, <1>3

------------------------------
\* Links that are not written stay.
LEMMA SegmentKept == ASSUME NEW s \in [Nat -> Clusters], NEW a \in Nat, NEW b \in Int, NEW f \in Files, Segment(node[f], s, a, b),
           node'[f].contiguous <=> node[f].contiguous, \A i \in Nat : a <= i /\ i + 1 < b => fat'[s[i]] = fat[s[i]]
    PROVE  Segment(node[f], s, a, b)'
<1> SUFFICES ASSUME NEW i \in Nat, a <= i, i + 1 < b PROVE NextCluster(node[f], s[i])' = s[i + 1] BY DEF Segment
<1>1. NextCluster(node[f], s[i]) = s[i + 1] BY DEF Segment
<1>2. ~Invalid(s[i]) BY ClusterNums
<1>3. fat'[s[i]] = fat[s[i]] OBVIOUS
<1> QED BY <1>1, <1>2, <1>3 DEF NextCluster, Invalid

\* What a step does to file leaves the other files as they are.
LEMMA OthersQuiet == ASSUME NEW ch \in Ghosts, NEW own \in [Files -> SUBSET Nat], NEW ch2, NEW own2,
           Typed, Owned(ch, own), \A f \in Files : f # file => Quiet(f, ch, own),
           \A f \in Files : f # file => node'[f] = node[f] /\ entry'[f] = entry[f]
                                        /\ ch2[f] = ch[f] /\ own2[f] = own[f],
           fat' = fat \/ (file \in Files /\ \E k \in own[file] : \E x : fat' = [fat EXCEPT ![ch[file][k]] = x])
    PROVE  \A f \in Files : f # file => Quiet(f, ch2, own2)'
<1> SUFFICES ASSUME NEW f \in Files, f # file PROVE Quiet(f, ch2, own2)' OBVIOUS
<1>1. Quiet(f, ch, own) /\ node'[f] = node[f] /\ entry'[f] = entry[f] /\ ch2[f] = ch[f] /\ own2[f] = own[f] OBVIOUS
<1>2. own[f] = 0..node[f].size - 1 /\ Strung(node[f], ch[f], node[f].size) /\ Pointed(node[f], ch[f], node[f].size)
 BY <1>1 DEF Quiet, Settled, Sized
<1>3. node[f].size \in Nat /\ ch[f] \in [Nat -> Clusters] BY VolumeAssumption DEF Typed, IsNode, Ghosts
<1>4. \A i \in Nat : 0 <= i /\ i + 1 < node[f].size => fat'[ch[f][i]] = fat[ch[f][i]]
 <2> SUFFICES ASSUME NEW i \in Nat, i + 1 < node[f].size PROVE fat'[ch[f][i]] = fat[ch[f][i]] OBVIOUS
 <2>1. CASE fat' = fat BY <2>1
 <2>2. CASE file \in Files /\ \E k \in own[file] : \E x : fat' = [fat EXCEPT ![ch[file][k]] = x]
  <3>1. PICK k \in own[file] : \E x : fat' = [fat EXCEPT ![ch[file][k]] = x] BY <2>2
  <3>2. i \in own[f] BY <1>2, <1>3
  <3>3. ch[f][i] # ch[file][k] BY <2>2, <3>2 DEF Owned
  <3>4. ch[f][i] \in Clusters /\ DOMAIN fat = Clusters BY <1>3 DEF Typed
  <3> QED BY <3>1, <3>3, <3>4
 <2> QED BY <2>1, <2>2
<1>5. Segment(node[f], ch[f], 0, node[f].size) BY <1>2 DEF Strung
<1> DEFINE n == node[f].size
           s == ch[f]
<1>6. Segment(node[f], s, 0, n)'
 <2>1. Segment(node[f], s, 0, n) /\ n \in Nat /\ s \in [Nat -> Clusters]
       /\ \A i \in Nat : 0 <= i /\ i + 1 < n => fat'[s[i]] = fat[s[i]] BY <1>3, <1>4, <1>5
 <2>2. n' = n BY <1>1
 <2>3. node'[f].contiguous <=> node[f].contiguous BY <1>1
 <2> HIDE DEF n, s
 <2>4. Segment(node[f], s, 0, n)'
  <3> SUFFICES ASSUME NEW i \in Nat, 0 <= i, i + 1 < n' PROVE NextCluster(node[f], s[i])' = s[i + 1] BY DEF Segment, s
  <3>1. NextCluster(node[f], s[i]) = s[i + 1] /\ fat'[s[i]] = fat[s[i]] BY <2>1, <2>2 DEF Segment
  <3>2. ~Invalid(s[i]) BY <2>1, ClusterNums
  <3> QED BY <2>3, <3>1, <3>2 DEF NextCluster, Invalid, s
 <2> QED BY <2>4
<1>7. Strung(node[f], ch2[f], node[f].size)' /\ Pointed(node[f], ch2[f], node[f].size)' BY <1>1, <1>2, <1>6 DEF Strung, Pointed
<1>8. Booked(f)' BY <1>1 DEF Quiet, Booked, Listing, Matches
<1> QED BY <1>1, <1>2, <1>7, <1>8 DEF Quiet, Settled, Sized

\* At most the node of f is assigned.
OnlyNode(f) == DOMAIN node' = Files /\ \A g \in Files : g # f => node'[g] = node[g]

\* SetNode changes the node of the current file and of no other.
LEMMA SetNodeIs == ASSUME Typed, file \in Files, NEW nd, SetNode(nd) PROVE OnlyNode(file) /\ node'[file] = nd
BY DEF Typed, SetNode, OnlyNode

\* A step that leaves the nodes alone changes at most the node of any one file.
LEMMA KeptNode == ASSUME Typed, NEW f, node' = node PROVE OnlyNode(f) BY DEF Typed, OnlyNode

\* A chain still leads through its clusters when neither its start nor its links change.
LEMMA StrungKept == ASSUME NEW s \in [Nat -> Clusters], NEW n \in Nat, NEW f \in Files, Strung(node[f], s, n),
           node'[f].start = node[f].start, node'[f].contiguous <=> node[f].contiguous,
           \A i \in Nat : i + 1 < n => fat'[s[i]] = fat[s[i]] PROVE Strung(node[f], s, n)'
<1>1. Segment(node[f], s, 0, n) BY DEF Strung
<1>2. \A i \in Nat : 0 <= i /\ i + 1 < n => fat'[s[i]] = fat[s[i]] OBVIOUS
<1>3. Segment(node[f], s, 0, n)'
 <2> SUFFICES ASSUME NEW i \in Nat, 0 <= i, i + 1 < n PROVE NextCluster(node[f], s[i])' = s[i + 1] BY DEF Segment
 <2>1. NextCluster(node[f], s[i]) = s[i + 1] /\ fat'[s[i]] = fat[s[i]] BY <1>1, <1>2 DEF Segment
 <2>2. ~Invalid(s[i]) BY ClusterNums
 <2> QED BY <2>1, <2>2 DEF NextCluster, Invalid
<1> QED BY <1>3 DEF Strung

\* A step of the call on f that leaves the drive's tables and the bitmap alone.
LEMMA Steady == ASSUME NEW ch, NEW own, NEW f \in Files, f = file, Typed, Layout(ch, own), OnlyNode(f),
           UNCHANGED <<cmap, cmapDirty, fat, bitmap, entry>>,
           file' \in {f, NoFile}, file' = NoFile => Quiet(f, ch, own)', Busy(ch, own)' PROVE Layout(ch, own)'
<1>1. ch \in Ghosts /\ own \in [Files -> SUBSET Nat] /\ Owned(ch, own) /\ \A g \in Files : g # file => Quiet(g, ch, own)
 BY DEF Layout
<1>2. \A g \in Files : g # file => node'[g] = node[g] /\ entry'[g] = entry[g] /\ ch[g] = ch[g] /\ own[g] = own[g] BY DEF OnlyNode
<1>3. \A g \in Files : g # file => Quiet(g, ch, own)' BY <1>1, <1>2, OthersQuiet
<1>4. Owned(ch, own)' /\ Readable' /\ MapClean' BY DEF Layout, Owned, Readable, MapClean, CheckNode, Invalid
<1>5. \A g \in Files : g # file' => Quiet(g, ch, own)' BY <1>3
<1> QED BY <1>1, <1>4, <1>5 DEF Layout

\* A step on one node that writes neither the disk nor the bitmap keeps the types.
LEMMA SteadyTyped == ASSUME Typed, NEW f \in Files, OnlyNode(f), IsNode(node'[f]),
           UNCHANGED <<cmap, fat, bitmap, entry, data, want, safe>>, file' \in {f, NoFile}, Listed(todo') PROVE Typed'
BY DEF Typed, OnlyNode, IsNode

\* The rest of a call, once the file has the size it asks for.
LEMMA RestGoes == ASSUME NEW ch, NEW own, NEW f \in Files, f = file, NEW t, NEW n \in 0..MaxSize, Rest(t, n), Continue(t),
           Settled(f, ch, own)', Booked(f)', node'[f].size = n, node'[f].state = node[f].state
    PROVE  /\ Busy(ch, own)' /\ (file' = NoFile => Quiet(f, ch, own)')
           /\ Listed(todo') /\ file' \in {f, NoFile}
<1>0. file # NoFile BY VolumeAssumption
<1>1. CASE Nd.state = "linked"
 <2>0. Quiet(f, ch, own)' BY <1>1 DEF Quiet, Nd
 <2>1. CASE t = <<>>
  <3>1. todo' = <<>> /\ Listed(todo') /\ file' = NoFile BY <2>1, Ends
  <3> QED BY <2>0, <3>1 DEF Busy
 <2>2. CASE \E i \in 0..MaxSize, m \in 1..MaxSize : i + m <= n /\ t = <<Locating(i, m)>>
  <3>1. PICK i \in 0..MaxSize, m \in 1..MaxSize : i + m <= n /\ t = <<Locating(i, m)>> BY <2>2
  <3> DEFINE x == Locating(i, m)
  <3>2. x.k = "locate" /\ x.i = i /\ x.n = m BY DEF Locating
  <3> HIDE DEF x
  <3>3. Listed(todo') /\ todo' # <<>> /\ Now' = x /\ Tail(todo') = <<>> /\ file' = file BY <3>1, <3>2, GoesOnOne DEF x
  <3>4. AtLocate(Now, Tail(todo), ch, own)' BY <1>1, <2>0, <3>1, <3>2, <3>3 DEF AtLocate, Nd
  <3>5. Busy(ch, own)' BY <3>2, <3>3, <3>4, AtThat
  <3> QED BY <1>0, <3>3, <3>5
 <2>3. CASE \E m \in 1..MaxSize : n + m <= MaxSize /\ t = <<Truncating(n + m, FALSE), Locating(n, m)>>
  <3>1. PICK m \in 1..MaxSize : n + m <= MaxSize /\ t = <<Truncating(n + m, FALSE), Locating(n, m)>> BY <2>3
  <3> DEFINE x == Truncating(n + m, FALSE)
             y == Locating(n, m)
  <3>2. x.k = "truncate" /\ x.to = n + m /\ x.erase = FALSE BY DEF Truncating
  <3> HIDE DEF x, y
  <3>3. t = <<x>> \o <<y>> /\ Listed(<<y>>) BY <3>1, Tuples, ListedOne DEF x, y
  <3>4. Listed(todo') /\ todo' # <<>> /\ Now' = x /\ Tail(todo') = <<y>> /\ file' = file BY <3>2, <3>3, GoesOn
  <3>5. Rest(Tail(todo), n + m)'
   <4>1. n \in 0..MaxSize /\ n + m <= n + m BY VolumeAssumption
   <4>2. Nd'.state = "linked" BY <1>1, <3>4 DEF Nd
   <4> QED BY <3>4, <4>1, <4>2 DEF Rest, y
  <3>6. AtTruncate(Now, Tail(todo), ch, own)'
   <4>1. Settled(file, ch, own)' /\ Booked(file)' /\ file' \in Files BY <2>0, <3>4 DEF Quiet
   <4>2. Now'.to \in 0..MaxSize /\ Now'.to = n + m BY <3>1, <3>2, <3>4, VolumeAssumption
   <4>3. Now'.erase \in BOOLEAN BY <3>2, <3>4
   <4>4. Fit(Tail(todo), n + m)'
    <5>1. n \in Nat /\ m \in Nat /\ Nd'.size = n BY <1>1, <3>4, VolumeAssumption DEF Nd
    <5>2. Tail(todo') = <<Locating(n, m)>> BY <3>4 DEF y
    <5> QED BY <5>1, <5>2 DEF Fit
   <4> QED BY <3>5, <4>1, <4>2, <4>3, <4>4 DEF AtTruncate
  <3>7. Busy(ch, own)' BY <3>2, <3>4, <3>6, AtThat
  <3> QED BY <1>0, <3>4, <3>7
 <2> QED BY <1>1, <2>1, <2>2, <2>3 DEF Rest
<1>2. CASE Nd.state = "unlinked" /\ n = 0 /\ \E k \in {"unmark", "freeNode"} : t = <<Stage("catch"), Stage(k)>>
 <2>1. PICK k \in {"unmark", "freeNode"} : t = <<Stage("catch"), Stage(k)>> BY <1>2
 <2> DEFINE x == Stage("catch")
            y == Stage(k)
 <2>2. x.k = "catch" /\ y.k = k BY DEF Stage
 <2> HIDE DEF x, y
 <2>3. t = <<x>> \o <<y>> /\ Listed(<<y>>) BY <2>1, Tuples, ListedOne DEF x, y
 <2>4. PastCatch(t) = <<y>>
  <3>1. PastCatch(<<x>> \o <<y>>) = PastCatch(<<y>>) BY <2>2, <2>3, PastACatch
  <3>2. PastCatch(<<y>>) = <<y>> BY <2>2, PastOne
  <3> QED BY <2>3, <3>1, <3>2
 <2>5. Continue(<<y>>)
  <3>1. PastCatch(<<y>>) = <<y>> BY <2>2, PastOne
  <3> QED BY <2>4, <3>1 DEF Continue
 <2>6. Listed(todo') /\ todo' # <<>> /\ Now' = y /\ Tail(todo') = <<>> /\ file' = file BY <2>2, <2>5, GoesOnOne
 <2>7. AtEnd(Now, Tail(todo), ch, own)' BY <1>2, <2>6 DEF AtEnd, Nd
 <2>8. Busy(ch, own)' BY <2>2, <2>6, <2>7, AtThat
 <2> QED BY <1>0, <2>6, <2>8
<1> QED BY <1>1, <1>2 DEF Rest

\* How the stages in front of the rest of a call are put together.
LEMMA FrontPair == ASSUME NEW a, NEW b, NEW t, Listed(t) PROVE <<a, b>> \o t = <<a>> \o (<<b>> \o t)
<1>1. (<<a>> \o <<b>>) \o t = <<a>> \o (<<b>> \o t)
 <2>1. Listed(<<a>>) /\ Listed(<<b>>) BY ListedOne
 <2> QED BY <2>1, ConcatAssoc
<1>2. <<a, b>> = <<a>> \o <<b>> BY Tuples
<1> QED BY <1>1, <1>2, Zenon

\* Three stages in front of a list, one after the other.
LEMMA FrontTriple == ASSUME NEW a, NEW b, NEW c, NEW t, Listed(t) PROVE <<a, b, c>> \o t = <<a>> \o (<<b>> \o (<<c>> \o t))
<1>1. <<b, c>> \o t = <<b>> \o (<<c>> \o t) BY FrontPair
<1>2. Listed(<<b, c>>) /\ Listed(<<a>>)
 <2>1. <<b, c>> \in Seq({b, c}) OBVIOUS
 <2> QED BY <2>1, ListedOf, ListedOne
<1>3. (<<a>> \o <<b, c>>) \o t = <<a>> \o (<<b, c>> \o t) BY <1>2, ConcatAssoc
<1>4. <<a, b, c>> = <<a>> \o <<b, c>> OBVIOUS
<1> QED BY <1>1, <1>3, <1>4, Zenon

\* The same for three joined lists of one stage.
LEMMA FrontThree == ASSUME NEW a, NEW b, NEW c, NEW t, Listed(t)
    PROVE  ((<<a>> \o <<b>>) \o <<c>>) \o t = <<a>> \o (<<b>> \o (<<c>> \o t))
<1>1. Listed(<<a>>) /\ Listed(<<b>>) /\ Listed(<<c>>) BY ListedOne
<1>2. Listed(<<c>> \o t) /\ Listed(<<a>> \o <<b>>) BY <1>1, InFront
<1>3. ((<<a>> \o <<b>>) \o <<c>>) \o t = (<<a>> \o <<b>>) \o (<<c>> \o t) BY <1>1, <1>2, ConcatAssoc
<1>4. (<<a>> \o <<b>>) \o (<<c>> \o t) = <<a>> \o (<<b>> \o (<<c>> \o t)) BY <1>1, <1>2, ConcatAssoc
<1> QED BY <1>3, <1>4

\* The same when the middle list is empty.
LEMMA FrontTwo == ASSUME NEW a, NEW c, NEW t, Listed(t) PROVE ((<<a>> \o <<>>) \o <<c>>) \o t = <<a>> \o (<<c>> \o t)
<1>1. Listed(<<a>>) /\ Listed(<<c>>) BY ListedOne
<1>2. <<a>> \o <<>> = <<a>> BY <1>1, ConcatNil
<1>3. (<<a>> \o <<c>>) \o t = <<a>> \o (<<c>> \o t) BY <1>1, ConcatAssoc
<1> QED BY <1>2, <1>3

\* The call in progress, its first stage and the others.
LEMMA InCall == ASSUME Typed, todo # <<>> PROVE Listed(todo) /\ Listed(Tail(todo)) /\ todo = <<Now>> \o Tail(todo)
BY HeadFirst DEF Typed, Now

\* The numbers a node of a typed state holds.
LEMMA NodeFacts == ASSUME Typed, NEW f \in Files
    PROVE  /\ IsNode(node[f]) /\ node[f].size \in Nat /\ node[f].size <= MaxSize /\ node[f].valid \in Nat
           /\ node[f].at \in Nat /\ MaxSize \in Nat BY VolumeAssumption DEF Typed, IsNode

\* What follows a truncate is a list, with a caller in it only for a file that is deleted.
LEMMA RestListed == ASSUME NEW t, NEW n, Rest(t, n) PROVE Listed(t) /\ (Nd.state = "linked" => NoCatch(t))
<1>1. ASSUME NEW x, NEW y PROVE Listed(<<x, y>>) /\ Listed(<<x>>) /\ Listed(<<>>)
 <2>1. <<x, y>> = <<x>> \o <<y>> BY Tuples
 <2>2. Listed(<<x>> \o <<y>>) BY ListedOne, InFront
 <2> QED BY <2>1, <2>2, ListedOne, ListedNil
<1>2. CASE Nd.state = "linked" /\ t = <<>> BY <1>2, ListedNil, NoCatchShort
<1>3. CASE Nd.state = "linked" /\ \E i \in 0..MaxSize, m \in 1..MaxSize : i + m <= n /\ t = <<Locating(i, m)>>
 <2>1. PICK i \in 0..MaxSize, m \in 1..MaxSize : t = <<Locating(i, m)>> BY <1>3
 <2>2. Locating(i, m).k # "catch" BY DEF Locating
 <2> QED BY <2>1, <2>2, ListedOne, NoCatchShort
<1>4. CASE Nd.state = "linked" /\ \E m \in 1..MaxSize : n + m <= MaxSize /\ t = <<Truncating(n + m, FALSE), Locating(n, m)>>
 <2>1. PICK m \in 1..MaxSize : t = <<Truncating(n + m, FALSE), Locating(n, m)>> BY <1>4
 <2>2. Locating(n, m).k # "catch" /\ Truncating(n + m, FALSE).k # "catch" BY DEF Locating, Truncating
 <2> QED BY <1>1, <2>1, <2>2, NoCatchShort
<1>5. CASE Nd.state = "unlinked" BY <1>1, <1>5 DEF Rest
<1> QED BY <1>2, <1>3, <1>4, <1>5 DEF Rest

\* What follows a truncate depends on the state of the node only.
LEMMA RestKept == ASSUME NEW t, NEW n, Rest(t, n), Nd'.state = Nd.state PROVE Rest(t, n)' BY DEF Rest

\* So does the end of a resize.
LEMMA ResizeKept == ASSUME NEW t, NEW n, Resize(t, n), Nd'.state = Nd.state, Nd'.size = Nd.size PROVE Resize(t, n)'
<1>1. \A r : Rest(r, n) => Rest(r, n)' BY RestKept
<1>2. \A r : Fit(r, n) => Fit(r, n)' BY DEF Fit
<1> QED BY <1>1, <1>2 DEF Resize

------------------------------
\* What one step of exfat_truncate makes of the rest of a call.
LEMMA ResizeMade == ASSUME NEW t, NEW to, Rest(t, to), NEW e \in BOOLEAN, ~e => Fit(t, to)
    PROVE  LET u == <<Sizing(to, e)>> \o t
           IN  /\ Listed(u) /\ (~e => Resize(u, to))
               /\ Nd.state = "linked" => NoCatch(u)
               /\ e => Resize(<<EraseTo(to)>> \o u, to)
               /\ Listed(<<EraseTo(to)>> \o u)
               /\ Nd.state = "linked" => NoCatch(<<EraseTo(to)>> \o u)
<1> DEFINE x == Sizing(to, e)
           y == EraseTo(to)
           u == <<x>> \o t
           v == <<y>> \o u
<1>1. Listed(t) /\ (Nd.state = "linked" => NoCatch(t)) BY RestListed
<1>2. x.k = "setSize" /\ y.k = "eraseRange" BY DEF Sizing, EraseTo
<1>3. x = Sizing(to, e) /\ y = EraseTo(to) OBVIOUS
<1> HIDE DEF x, y
<1>4. Listed(u) /\ u # <<>> /\ Head(u) = x /\ Tail(u) = t BY <1>1, InFront
<1>5. Nd.state = "linked" => NoCatch(u) BY <1>1, <1>2, NoCatchInFront
<1> HIDE DEF u
<1>6. Listed(v) /\ v # <<>> /\ Head(v) = y /\ Tail(v) = u BY <1>4, InFront
<1>7. Nd.state = "linked" => NoCatch(v) BY <1>2, <1>4, <1>5, NoCatchInFront
<1> HIDE DEF v
<1>8. ~e => Resize(u, to) BY <1>3, <1>4 DEF Resize
<1>9. e => Resize(v, to) BY <1>3, <1>4, <1>6 DEF Resize
<1> QED BY <1>3, <1>4, <1>5, <1>6, <1>7, <1>8, <1>9 DEF u, v

\* The chain of a file stays when its links and the node's start stay, wherever the
\* remembered place goes.
LEMMA SizedKept == ASSUME NEW ch, NEW own, NEW f, NEW n, Sized(f, ch, own, n), fat' = fat,
           node'[f].start = node[f].start, node'[f].contiguous <=> node[f].contiguous, Pointed(node[f], ch[f], n)'
    PROVE  Sized(f, ch, own, n)'
<1>1. own[f] = 0..n - 1 /\ Strung(node[f], ch[f], n) BY DEF Sized
<1>2. \A c : NextCluster(node[f], c)' = NextCluster(node[f], c) BY DEF NextCluster, Invalid
<1>3. Strung(node[f], ch[f], n)' BY <1>1, <1>2 DEF Strung, Segment
<1> QED BY <1>1, <1>3 DEF Sized

\* The remembered cluster stays right when neither it nor its place changes.
LEMMA PointedKept == ASSUME NEW f, NEW s, NEW n, Pointed(node[f], s, n), node'[f].at = node[f].at, node'[f].ptr = node[f].ptr
    PROVE  Pointed(node[f], s, n)' BY DEF Pointed

\* Nothing is known to have changed about a file whose node, entry and links are left alone.
LEMMA AllKept == ASSUME NEW ch, NEW own, NEW f, node'[f] = node[f], entry' = entry, fat' = fat
    PROVE  /\ \A n : Sized(f, ch, own, n) => Sized(f, ch, own, n)'
           /\ Settled(f, ch, own) => Settled(f, ch, own)'
           /\ Quiet(f, ch, own) => Quiet(f, ch, own)'
           /\ Booked(f) => Booked(f)'
           /\ Loose(f) => Loose(f)'
           /\ Booked(f) => Loose(f)
<1>1. ASSUME NEW n, Sized(f, ch, own, n) PROVE Sized(f, ch, own, n)' BY <1>1, SizedKept, PointedKept DEF Sized
<1>2. (Booked(f) => Booked(f)') /\ (Loose(f) => Loose(f)') /\ (Booked(f) => Loose(f)) BY DEF Booked, Loose, Listing, Matches
<1>3. ASSUME Settled(f, ch, own) PROVE Settled(f, ch, own)'
 <2>1. Sized(f, ch, own, node[f].size) BY <1>3 DEF Settled
 <2>2. PICK n : n = node[f].size OBVIOUS
 <2>3. Sized(f, ch, own, n)' BY <1>1, <2>1, <2>2
 <2>4. n = node'[f].size BY <2>2
 <2> QED BY <2>3, <2>4 DEF Settled
<1>4. Quiet(f, ch, own) => Quiet(f, ch, own)' BY <1>2, <1>3 DEF Quiet
<1> QED BY <1>1, <1>2, <1>3, <1>4

------------------------------
\* exfat_truncate begins.
LEMMA TruncateStep == ASSUME NEW ch, NEW own, Typed, Layout(ch, own), DoTruncate PROVE Typed' /\ Layout(ch, own)'
<1>1. todo # <<>> /\ Doing("truncate") BY DEF DoTruncate, Doing
<1>2. AtTruncate(Now, Tail(todo), ch, own) BY <1>1, AtWhich DEF Layout
<1>3. PICK f, t, to, e : f = file /\ t = Tail(todo) /\ to = Now.to /\ e = Now.erase OBVIOUS
<1>4. f \in Files /\ Settled(f, ch, own) /\ Booked(f) /\ to \in 0..MaxSize /\ Rest(t, to) BY <1>2, <1>3 DEF AtTruncate
<1>5. e \in BOOLEAN /\ (~e => Fit(t, to)) BY <1>2, <1>3 DEF AtTruncate
<1>6. UNCHANGED <<node, cmap, cmapDirty, fat, bitmap, entry, data, want, safe>> BY DEF DoTruncate, Memory, disk, History
<1>7. Settled(f, ch, own)' /\ Booked(f)' /\ Loose(f)' BY <1>4, <1>6, AllKept
<1>8. OnlyNode(f) /\ IsNode(node'[f]) /\ f # NoFile BY <1>4, <1>6, NodeFacts, KeptNode, VolumeAssumption
<1>9. Listed(t) BY <1>4, RestListed
<1> DEFINE Goal == /\ Busy(ch, own)' /\ (file' = NoFile => Quiet(f, ch, own)')
                   /\ Listed(todo') /\ file' \in {f, NoFile}
<1>10. ASSUME Goal PROVE Typed' /\ Layout(ch, own)'
 <2>1. Typed' BY <1>4, <1>6, <1>8, <1>10, SteadyTyped
 <2>2. Layout(ch, own)' BY <1>3, <1>4, <1>6, <1>8, <1>10, Steady
 <2> QED BY <2>1, <2>2
<1>a. PICK size : size = node[f].size OBVIOUS
<1> DEFINE by == IF size < to THEN to - size ELSE size - to
           x  == [k |-> IF size < to THEN "grow" ELSE "shrink", cur |-> size, diff |-> by]
           y  == EraseTo(to)
           z  == Sizing(to, e)
<1>11. Continue((IF size = to THEN <<>> ELSE (<<x>> \o (IF e THEN <<y>> ELSE <<>>)) \o <<z>>) \o t)
 BY <1>3, <1>a DEF DoTruncate, Goto, Nd, Sizing, EraseTo
<1>12. CASE size = to
 <2>1. Continue(t)
  <3>1. <<>> \o t = t BY <1>9, ConcatNil
  <3> HIDE DEF x, y, z
  <3> QED BY <1>11, <1>12, <3>1
 <2>2. node'[f].size = to /\ node'[f].state = node[f].state BY <1>6, <1>12, <1>a
 <2>3. Goal BY <1>3, <1>4, <1>7, <2>1, <2>2, RestGoes
 <2> QED BY <2>3, <1>10
<1>13. CASE size # to
 <2>1. PICK r : r = (IF e THEN <<y>> \o (<<z>> \o t) ELSE <<z>> \o t) OBVIOUS
 <2>2. Listed(r) /\ Resize(r, to) /\ (Nd.state = "linked" => NoCatch(r))
  <3> HIDE DEF x
  <3>1. CASE e BY <1>4, <1>5, <2>1, <3>1, ResizeMade
  <3>2. CASE ~e BY <1>4, <1>5, <2>1, <3>2, ResizeMade
  <3> QED BY <3>1, <3>2
 <2>3. Continue(<<x>> \o r)
  <3>1. CASE e
   <4>1. ((<<x>> \o <<y>>) \o <<z>>) \o t = <<x>> \o (<<y>> \o (<<z>> \o t))
    <5> HIDE DEF x, y, z
    <5> QED BY <1>9, FrontThree
   <4> HIDE DEF x, y, z
   <4> QED BY <1>11, <1>13, <2>1, <3>1, <4>1
  <3>2. CASE ~e
   <4>1. ((<<x>> \o <<>>) \o <<z>>) \o t = <<x>> \o (<<z>> \o t)
    <5> HIDE DEF x, y, z
    <5> QED BY <1>9, FrontTwo
   <4> HIDE DEF x, y, z
   <4> QED BY <1>11, <1>13, <2>1, <3>2, <4>1
  <3> QED BY <3>1, <3>2
 <2>4. x.k = (IF size < to THEN "grow" ELSE "shrink") /\ x.cur = size /\ x.diff = by OBVIOUS
 <2>5. size \in Nat /\ to \in Nat /\ to <= MaxSize /\ size <= MaxSize /\ MaxSize \in Nat BY <1>4, <1>a, NodeFacts
 <2> HIDE DEF x, y, z
 <2>6. Listed(todo') /\ todo' # <<>> /\ Now' = x /\ Tail(todo') = r /\ file' = file BY <2>2, <2>3, <2>4, GoesOn
 <2>7. Resize(r, to)' /\ Nd'.state = Nd.state /\ Nd'.size = size
  <3>1. Nd'.state = Nd.state /\ Nd'.size = size /\ Nd.size = size BY <1>3, <1>6, <1>a, <2>6 DEF Nd
  <3> QED BY <2>2, <3>1, ResizeKept
 <2>8. CASE size < to
  <3>1. by = to - size /\ x.k = "grow" /\ by \in Nat \ {0} /\ size + by = to BY <2>4, <2>5, <2>8
  <3>2. to # 0 BY <2>5, <2>8
  <3>3. Nd.state = "linked" BY <1>3, <1>4, <3>2 DEF Rest
  <3> HIDE DEF by
  <3>4. AtGrow(Now, Tail(todo), ch, own)'
   <4>1. NoCatch(r) /\ Resize(r, x.cur + x.diff)' BY <2>2, <2>4, <2>7, <3>1, <3>3
   <4> QED BY <1>3, <1>4, <1>7, <2>4, <2>5, <2>6, <2>7, <3>1, <3>3, <4>1 DEF AtGrow
  <3>5. Busy(ch, own)' BY <2>6, <3>1, <3>4, AtThat
  <3> QED BY <1>3, <1>8, <1>10, <2>6, <3>5
 <2>9. CASE ~(size < to)
  <3>1. by = size - to /\ x.k = "shrink" /\ by \in 1..size /\ size \in 1..MaxSize /\ size - by = to BY <1>13, <2>4, <2>5, <2>9
  <3> HIDE DEF by
  <3>4. AtShrink(Now, Tail(todo), ch, own)'
   <4>1. AfterCut(r, x.cur - x.diff)' BY <2>4, <2>7, <3>1 DEF AfterCut
   <4>2. Sized(f, ch, own, x.cur)'
    <5>1. x.cur = node'[f].size BY <1>6, <1>a, <2>4
    <5> QED BY <1>7, <5>1 DEF Settled
   <4> QED BY <1>3, <1>4, <1>7, <2>4, <2>6, <3>1, <4>1, <4>2 DEF AtShrink
  <3>5. Busy(ch, own)' BY <2>6, <3>1, <3>4, AtThat
  <3> QED BY <1>3, <1>8, <1>10, <2>6, <3>5
 <2> QED BY <2>8, <2>9
<1> QED BY <1>12, <1>13

WantTyped == want \in [Files -> Seq(SUBSET Anything)] /\ \A f \in Files : Len(want[f]) <= MaxSize

\* What has to be shown of a step of the call on f that leaves the tables of the drive alone.
LEMMA Concluded == ASSUME NEW ch, NEW own, NEW f \in Files, f = file, Typed, Layout(ch, own), OnlyNode(f), IsNode(node'[f]),
           UNCHANGED <<cmap, cmapDirty, fat, bitmap, entry, safe>>, DOMAIN data' = Clusters, WantTyped',
           Listed(todo'), Busy(ch, own)', file' = f \/ (file' = NoFile /\ Quiet(f, ch, own)') PROVE Typed' /\ Layout(ch, own)'
<1>1. f # NoFile BY VolumeAssumption
<1>2. Layout(ch, own)' BY <1>1, Steady
<1>3. Typed' BY DEF Typed, OnlyNode, IsNode, WantTyped
<1> QED BY <1>2, <1>3

\* A step on the node of the current file alone keeps the structure when the file ends quiet or
\* stays in work.
LEMMA Settling == ASSUME NEW ch, NEW own, NEW f \in Files, f = file, Typed, Layout(ch, own), OnlyNode(f), IsNode(node'[f]),
           UNCHANGED <<cmap, cmapDirty, fat, bitmap, entry, data, want, safe>>,
           Listed(todo'), Busy(ch, own)', file' = f \/ (file' = NoFile /\ Quiet(f, ch, own)') PROVE Typed' /\ Layout(ch, own)'
<1>1. DOMAIN data' = Clusters /\ WantTyped' BY DEF Typed, WantTyped
<1> QED BY <1>1, Concluded

\* A list with a first element and those behind it.
Slice(u, a, b) == [i \in 1..b - a |-> u[a + i - 1]]

\* Taking a slice of a function apart at its front.
LEMMA SliceIs == ASSUME NEW u, NEW a \in Nat, NEW b \in Nat
    PROVE  /\ Listed(Slice(u, a, b))
           /\ a <= b => Len(Slice(u, a, b)) = b - a
           /\ a >= b => Slice(u, a, b) = <<>>
           /\ a < b => Slice(u, a, b) = <<u[a]>> \o Slice(u, a + 1, b)
<1> DEFINE N(x) == IF x <= b THEN b - x ELSE 0
<1>1. ASSUME NEW x \in Nat PROVE /\ Listed(Slice(u, x, b)) /\ Len(Slice(u, x, b)) = N(x)
                                 /\ \A i \in 1..N(x) : Slice(u, x, b)[i] = u[x + i - 1]
 <2> DEFINE S == {u[x + i - 1] : i \in 1..b - x}
            v == Slice(u, x, b)
 <2>1. 1..b - x = 1..N(x) /\ N(x) \in Nat OBVIOUS
 <2>2. v \in [1..N(x) -> S] /\ \A i \in 1..N(x) : v[i] = u[x + i - 1] BY <2>1 DEF Slice
 <2> HIDE DEF S, v, N
 <2>3. v \in Seq(S) /\ Len(v) = N(x) BY <2>1, <2>2, SeqDef, LenProperties
 <2>4. Listed(v) BY <2>3, ListedOf
 <2> QED BY <2>2, <2>3, <2>4 DEF v
<1>2. Listed(Slice(u, a, b)) /\ (a <= b => Len(Slice(u, a, b)) = b - a) BY <1>1
<1>3. ASSUME a >= b PROVE Slice(u, a, b) = <<>>
 <2>1. Len(Slice(u, a, b)) = 0 BY <1>1, <1>3
 <2>2. Len(<<>>) = 0 /\ Listed(<<>>) BY ListedNil
 <2> HIDE DEF N
 <2> QED BY <1>2, <2>1, <2>2, ListedEqual
<1>4. ASSUME a < b PROVE Slice(u, a, b) = <<u[a]>> \o Slice(u, a + 1, b)
 <2> DEFINE v == Slice(u, a, b)
            r == Slice(u, a + 1, b)
            w == <<u[a]>> \o r
 <2>1. Listed(v) /\ Len(v) = b - a /\ \A i \in 1..b - a : v[i] = u[a + i - 1]
  <3>1. N(a) = b - a BY <1>4
  <3> HIDE DEF N
  <3> QED BY <1>1, <3>1
 <2>2. Listed(r) /\ Len(r) = b - a - 1 /\ \A i \in 1..b - a - 1 : r[i] = u[a + 1 + i - 1]
  <3>1. a + 1 \in Nat /\ N(a + 1) = b - (a + 1) /\ b - (a + 1) = b - a - 1 BY <1>4
  <3> HIDE DEF N
  <3> QED BY <1>1, <3>1
 <2> HIDE DEF r, v
 <2>3. Listed(w) /\ Len(w) = Len(r) + 1 /\ w[1] = u[a] /\ \A i \in 1..Len(r) : w[i + 1] = r[i]
  <3>1. Listed(r) BY <2>2
  <3> QED BY <3>1, InFront
 <2> HIDE DEF w
 <2>4. Len(v) = Len(w) BY <2>1, <2>2, <2>3
 <2>5. ASSUME NEW i \in 1..Len(v) PROVE v[i] = w[i]
  <3>1. CASE i = 1 BY <2>1, <2>3, <3>1
  <3>2. CASE i # 1
   <4>1. PICK j \in 1..Len(r) : i = j + 1
    <5>1. i - 1 \in 1..Len(r) /\ i = (i - 1) + 1 BY <2>1, <2>2, <3>2
    <5> QED BY <5>1
   <4>2. j \in 1..b - a - 1 /\ a + i - 1 = a + 1 + j - 1 /\ i \in 1..b - a BY <2>1, <2>2, <4>1
   <4>3. v[i] = u[a + i - 1] BY <2>1, <4>2
   <4>4. w[i] = u[a + 1 + j - 1] BY <2>2, <2>3, <4>1, <4>2
   <4> QED BY <4>2, <4>3, <4>4
  <3> QED BY <3>1, <3>2
 <2>6. v = w BY <2>1, <2>3, <2>4, <2>5, ListedEqual
 <2> QED BY <2>6 DEF v, w, r
<1> QED BY <1>2, <1>3, <1>4

\* Taking the erasing of a range of places apart at its front.
LEMMA ErasesIs == ASSUME NEW s, NEW a \in Nat, NEW b \in Nat
    PROVE  /\ Listed(Erases(s, a, b))
           /\ a >= b => Erases(s, a, b) = <<>>
           /\ a < b => Erases(s, a, b) = <<[k |-> "erase", c |-> s[a]]>> \o Erases(s, a + 1, b)
<1> DEFINE u == [i \in Nat |-> [k |-> "erase", c |-> s[i]]]
<1>1. ASSUME NEW x \in Nat PROVE Erases(s, x, b) = Slice(u, x, b)
 <2>1. \A i \in 1..b - x : x + i - 1 \in Nat OBVIOUS
 <2> QED BY <2>1 DEF Erases, Slice
<1>2. u[a] = [k |-> "erase", c |-> s[a]] /\ a + 1 \in Nat OBVIOUS
<1>3. Erases(s, a, b) = Slice(u, a, b) /\ Erases(s, a + 1, b) = Slice(u, a + 1, b) BY <1>1, <1>2
<1> HIDE DEF u
<1> QED BY <1>2, <1>3, SliceIs

\* Taking the links of a range of places apart at its front.
LEMMA LinksIs == ASSUME NEW s, NEW a \in Nat, NEW b \in Nat
    PROVE  /\ Listed(Links(s, a, b))
           /\ a >= b => Links(s, a, b) = <<>>
           /\ a < b => Links(s, a, b) = <<Linking(s[a], s[a + 1])>> \o Links(s, a + 1, b)
<1> DEFINE u == [i \in Nat |-> Linking(s[i], s[i + 1])]
<1>1. ASSUME NEW x \in Nat PROVE Links(s, x, b) = Slice(u, x, b)
 <2>1. \A i \in 1..b - x : x + i - 1 \in Nat /\ (x + i - 1) + 1 = x + i OBVIOUS
 <2> QED BY <2>1 DEF Links, Slice
<1>2. u[a] = Linking(s[a], s[a + 1]) /\ a + 1 \in Nat OBVIOUS
<1>3. Links(s, a, b) = Slice(u, a, b) /\ Links(s, a + 1, b) = Slice(u, a + 1, b) BY <1>1, <1>2
<1> HIDE DEF u
<1> QED BY <1>2, <1>3, SliceIs

\* exfat_advance_cluster only moves the remembered place.
LEMMA MovedIs == ASSUME NEW nd, IsNode(nd), NEW s \in [Nat -> Clusters], NEW n \in Nat, NEW count \in Nat, count < n,
           Strung(nd, s, n), Pointed(nd, s, n) PROVE LET m == Moved(nd, count)
           IN  /\ IsNode(m) /\ m.at = count /\ m.ptr = s[count]
               /\ m.start = nd.start /\ m.size = nd.size /\ m.valid = nd.valid /\ m.state = nd.state
               /\ m.contiguous = nd.contiguous /\ m.dirty = nd.dirty
<1>1. Advance(nd, count) = s[count] /\ s[count] \in Nat
 <2>1. nd.at \in Nat BY DEF IsNode
 <2>2. s[count] \in Clusters OBVIOUS
 <2>3. s[count] \in Nat BY <2>2, ClusterNums
 <2> QED BY <2>1, <2>3, AdvanceIs
<1>2. PICK a : a = Advance(nd, count) OBVIOUS
<1>3. Moved(nd, count) = [nd EXCEPT !.at = count, !.ptr = a] BY <1>2 DEF Moved
<1> DEFINE m == Moved(nd, count)
<1>4. DOMAIN m = DOMAIN nd BY <1>3
<1>5. m.at = count /\ m.ptr = a BY <1>3 DEF IsNode
<1>6. m.start = nd.start /\ m.size = nd.size /\ m.valid = nd.valid /\ m.state = nd.state BY <1>3 DEF IsNode
<1>7. m.contiguous = nd.contiguous BY <1>3 DEF IsNode
<1>8. m.dirty = nd.dirty BY <1>3 DEF IsNode
<1> HIDE DEF m
<1>9. IsNode(m) BY <1>1, <1>2, <1>4, <1>5, <1>6 DEF IsNode
<1> QED BY <1>1, <1>2, <1>5, <1>6, <1>7, <1>8, <1>9 DEF m

\* The size of the node is set.
LEMMA ResizedIs == ASSUME NEW nd, IsNode(nd), NEW to \in 0..MaxSize, NEW e PROVE LET m == Resized(nd, to, e)
           IN  /\ IsNode(m) /\ m.size = to /\ m.state = nd.state /\ m.start = nd.start
               /\ m.at = nd.at /\ m.ptr = nd.ptr /\ m.dirty /\ m.contiguous = nd.contiguous
<1>0. PICK v : v = IF e THEN to ELSE IF nd.valid < to THEN nd.valid ELSE to OBVIOUS
<1>1. Resized(nd, to, e) = [nd EXCEPT !.valid = v, !.size = to, !.dirty = TRUE] BY <1>0 DEF Resized, Least
<1>2. v \in 0..to BY <1>0, VolumeAssumption DEF IsNode
<1> DEFINE m == Resized(nd, to, e)
<1>3. DOMAIN m = DOMAIN nd BY <1>1
<1>4. m.size = to /\ m.state = nd.state /\ m.start = nd.start /\ m.at = nd.at /\ m.ptr = nd.ptr /\ m.valid = v BY <1>1 DEF IsNode
<1>5. m.dirty = TRUE BY <1>1 DEF IsNode
<1>6. m.contiguous = nd.contiguous BY <1>1 DEF IsNode
<1> HIDE DEF m
<1>7. IsNode(m) BY <1>2, <1>3, <1>4 DEF IsNode
<1> QED BY <1>0, <1>4, <1>5, <1>6, <1>7 DEF m

\* The end of exfat_truncate, which gives the node its new size, keeps the structure.
LEMMA SetSizeStep == ASSUME NEW ch, NEW own, Typed, Layout(ch, own), SetSize PROVE Typed' /\ Layout(ch, own)'
<1>1. todo # <<>> /\ Doing("setSize") BY DEF SetSize, Doing
<1>2. AtSetSize(Now, Tail(todo), ch, own) BY <1>1, AtWhich DEF Layout
<1>3. PICK f, t, to, e : f = file /\ t = Tail(todo) /\ to = Now.to /\ e = Now.erase OBVIOUS
<1>4. f \in Files /\ Sized(f, ch, own, to) /\ Loose(f) /\ to \in 0..MaxSize /\ Rest(t, to) BY <1>2, <1>3 DEF AtSetSize
<1>5. UNCHANGED <<cmap, cmapDirty, fat, bitmap, entry, data, safe>> BY DEF SetSize, disk
<1>6. OnlyNode(f) /\ node'[f] = Resized(node[f], to, e)
 <2>1. SetNode(Resized(Nd, Now.to, Now.erase)) BY DEF SetSize
 <2> QED BY <1>3, <1>4, <2>1, SetNodeIs DEF Nd
<1>7. /\ IsNode(node'[f]) /\ node'[f].size = to /\ node'[f].state = node[f].state /\ node'[f].start = node[f].start
      /\ node'[f].at = node[f].at /\ node'[f].ptr = node[f].ptr
 <2>1. IsNode(node[f]) BY <1>4, NodeFacts
 <2> QED BY <1>4, <1>6, <2>1, ResizedIs
<1>8. node'[f].dirty /\ (node'[f].contiguous <=> node[f].contiguous)
 <2>1. IsNode(node[f]) BY <1>4, NodeFacts
 <2>2. node'[f].dirty = TRUE BY <1>4, <1>6, <2>1, ResizedIs
 <2>3. node'[f].contiguous = node[f].contiguous BY <1>4, <1>6, <2>1, ResizedIs
 <2> QED BY <2>2, <2>3
<1>9. Settled(f, ch, own)'
 <2>1. Pointed(node[f], ch[f], to)' BY <1>4, <1>7, PointedKept DEF Sized
 <2>2. Sized(f, ch, own, to)' BY <1>4, <1>5, <1>7, <1>8, <2>1, SizedKept
 <2> QED BY <1>7, <2>2 DEF Settled
<1>10. Booked(f)' BY <1>4, <1>5, <1>7, <1>8 DEF Booked, Loose, Listing
<1>11. Continue(t) BY <1>3, <1>4, RestListed, ConcatNil DEF SetSize, Goto
<1>12. Busy(ch, own)' /\ (file' = NoFile => Quiet(f, ch, own)') /\ Listed(todo') /\ file' \in {f, NoFile}
 BY <1>3, <1>4, <1>7, <1>9, <1>10, <1>11, RestGoes
<1>13. WantTyped'
 <2>1. want' = [want EXCEPT ![f] = [i \in 1..to |-> IF i <= Len(@) THEN @[i] ELSE {"zero"}]] BY <1>3 DEF SetSize
 <2>2. PICK w : w = want[f] OBVIOUS
 <2>3. w \in Seq(SUBSET Anything) /\ DOMAIN want = Files /\ want \in [Files -> Seq(SUBSET Anything)] BY <1>4, <2>2 DEF Typed
 <2> DEFINE x == [i \in 1..to |-> IF i <= Len(w) THEN w[i] ELSE {"zero"}]
 <2>4. to \in Nat /\ Len(w) \in Nat BY <1>4, <2>3, VolumeAssumption
 <2>5. {"zero"} \in SUBSET Anything BY DEF Anything
 <2>6. \A i \in 1..to : i <= Len(w) => w[i] \in SUBSET Anything BY <2>3, <2>4
 <2>7. x \in [1..to -> SUBSET Anything] BY <2>5, <2>6
 <2>8. want' = [want EXCEPT ![f] = x] BY <2>1, <2>2
 <2> HIDE DEF x
 <2>9. x \in Seq(SUBSET Anything) /\ Len(x) = to BY <2>4, <2>7, SeqDef, LenProperties
 <2>10. want' \in [Files -> Seq(SUBSET Anything)] /\ want'[f] = x /\ \A g \in Files : g # f => want'[g] = want[g]
  BY <1>4, <2>3, <2>8, <2>9
 <2>11. \A g \in Files : Len(want'[g]) <= MaxSize
  <3>1. to <= MaxSize BY <1>4, <2>4, VolumeAssumption
  <3>2. \A g \in Files : Len(want[g]) <= MaxSize BY DEF Typed
  <3> QED BY <2>9, <2>10, <3>1, <3>2
 <2> QED BY <2>10, <2>11 DEF WantTyped
<1>14. DOMAIN data' = Clusters BY <1>5 DEF Typed
<1>15. file' = f \/ (file' = NoFile /\ Quiet(f, ch, own)') BY <1>12
<1> QED BY <1>3, <1>4, <1>5, <1>6, <1>7, <1>12, <1>13, <1>14, <1>15, Concluded

\* erase_range begins.
LEMMA EraseRangeStep == ASSUME NEW ch, NEW own, Typed, Layout(ch, own), EraseRange PROVE Typed' /\ Layout(ch, own)'
<1>1. todo # <<>> /\ Doing("eraseRange") BY DEF EraseRange, Doing
<1>2. AtEraseRange(Now, Tail(todo), ch, own) BY <1>1, AtWhich DEF Layout
<1>3. PICK f, t, to, s, b : f = file /\ t = Tail(todo) /\ to = Now.end /\ s = ch[f] /\ b = node[f].valid OBVIOUS
<1>4. /\ f \in Files /\ Sized(f, ch, own, to) /\ Loose(f) /\ to \in 0..MaxSize
      /\ t # <<>> /\ Head(t) = Sizing(to, TRUE) /\ Rest(Tail(t), to) BY <1>2, <1>3 DEF AtEraseRange
<1>5. UNCHANGED <<cmap, cmapDirty, fat, bitmap, entry, data, want, safe>> BY DEF EraseRange, disk, History
<1>6. Listed(t) /\ Listed(Tail(t)) /\ t = <<Head(t)>> \o Tail(t) BY <1>1, <1>3, <1>4, InCall, HeadFirst
<1>7. IsNode(node[f]) /\ b \in Nat /\ to \in Nat /\ MaxSize \in Nat /\ s \in [Nat -> Clusters]
 BY <1>3, <1>4, NodeFacts DEF Layout, Ghosts
<1> DEFINE x == Sizing(to, TRUE)
           r == Tail(t)
<1>8. x.k = "setSize" /\ x.to = to BY DEF Sizing
<1>9. CASE b >= to
 <2>1. node' = node /\ Continue(<<>> \o t) BY <1>3, <1>9 DEF EraseRange, Goto, Nd
 <2>2. Continue(t) BY <1>6, <2>1, ConcatNil
 <2> HIDE DEF x, r
 <2>3. Listed(todo') /\ todo' # <<>> /\ Now' = x /\ Tail(todo') = r /\ file' = file BY <1>4, <1>6, <1>8, <2>2, GoesOn DEF x, r
 <2>4. Sized(f, ch, own, to)' /\ Loose(f)' BY <1>4, <1>5, <2>1, AllKept
 <2>5. Rest(r, to)' BY <1>4, <2>1, <2>3, RestKept DEF r, Nd
 <2>6. AtSetSize(Now, Tail(todo), ch, own)'
  <3>1. Zeros(ch, to)'
   <4>1. Nd'.valid = b BY <1>3, <2>1, <2>3 DEF Nd
   <4> QED BY <1>7, <1>9, <4>1 DEF Zeros
  <3>2. Now'.erase BY <2>3 DEF x, Sizing
  <3> QED BY <1>3, <1>4, <1>8, <2>3, <2>4, <2>5, <3>1, <3>2 DEF AtSetSize
 <2>7. Busy(ch, own)' BY <1>8, <2>3, <2>6, AtThat
 <2>8. OnlyNode(f) /\ IsNode(node'[f]) BY <1>7, <2>1, KeptNode
 <2> QED BY <1>3, <1>4, <1>5, <2>3, <2>7, <2>8, Settling
<1>10. CASE ~(b >= to)
 <2> DEFINE m == Moved(node[f], b)
 <2>1. /\ SetNode(m)
       /\ IF AdvanceBugs(node[f], b) THEN Abort
          ELSE IF Invalid([i \in b..to - 1 |-> Advance(node[f], i)][b]) THEN Bail
          ELSE Continue([j \in 1..to - b |-> LET c == [i \in b..to - 1 |-> Advance(node[f], i)][b + j - 1] IN
                            IF Invalid(c) THEN [k |-> "abort"] ELSE [k |-> "erase", c |-> c]] \o t)
  BY <1>3, <1>10 DEF EraseRange, Goto, Nd
 <2>2. Strung(node[f], s, to) /\ Pointed(node[f], s, to) /\ node[f].at \in Nat BY <1>3, <1>4, <1>7 DEF Sized, IsNode
 <2>3. \A i \in Nat : i < to => Advance(node[f], i) = s[i] /\ ~AdvanceBugs(node[f], i) BY <1>7, <2>2, AdvanceIs
 <2>4. b \in b..to - 1 /\ b < to /\ \A i \in b..to - 1 : i \in Nat /\ i < to BY <1>7, <1>10
 <2>5. [i \in b..to - 1 |-> Advance(node[f], i)] = [i \in b..to - 1 |-> s[i]] BY <2>3, <2>4
 <2>6. Continue(Erases(s, b, to) \o t)
  <3>1. ~AdvanceBugs(node[f], b) BY <1>7, <2>3, <2>4
  <3>2. ~Invalid([i \in b..to - 1 |-> s[i]][b]) BY <1>7, <2>4, ClusterNums
  <3> DEFINE z == [i \in b..to - 1 |-> s[i]]
             e(c) == IF Invalid(c) THEN [k |-> "abort"] ELSE [k |-> "erase", c |-> c]
  <3>3. Continue([j \in 1..to - b |-> e(z[b + j - 1])] \o t) BY <2>1, <2>5, <3>1, <3>2
  <3>4. ASSUME NEW j \in 1..to - b PROVE e(z[b + j - 1]) = [k |-> "erase", c |-> s[b + j - 1]]
   <4>1. b + j - 1 \in b..to - 1 /\ b + j - 1 \in Nat BY <1>7
   <4>2. ~Invalid(s[b + j - 1]) BY <1>7, <4>1, ClusterNums
   <4> QED BY <4>1, <4>2
  <3>5. [j \in 1..to - b |-> e(z[b + j - 1])] = Erases(s, b, to)
   <4> HIDE DEF z, e
   <4> QED BY <3>4 DEF Erases
  <3> QED BY <3>3, <3>5
 <2>7. OnlyNode(f) /\ node'[f] = m BY <1>3, <1>4, <2>1, SetNodeIs
 <2>8. /\ IsNode(m) /\ m.at = b /\ m.ptr = s[b] /\ m.start = node[f].start
       /\ m.size = node[f].size /\ m.valid = b /\ m.state = node[f].state BY <1>3, <1>7, <2>2, <2>4, MovedIs
 <2>9. m.contiguous = node[f].contiguous BY <1>7, <2>2, <2>4, MovedIs
 <2>a. m.dirty = node[f].dirty BY <1>7, <2>2, <2>4, MovedIs
 <2> HIDE DEF m
 <2>10. Sized(f, ch, own, to)'
  <3>1. Pointed(node[f], ch[f], to)' BY <1>3, <1>7, <2>4, <2>7, <2>8 DEF Pointed
  <3> QED BY <1>4, <1>5, <2>7, <2>8, <2>9, <3>1, SizedKept
 <2>11. Loose(f)' BY <1>4, <1>5, <2>7, <2>8, <2>9, <2>a DEF Loose, Listing, Matches
 <2> DEFINE w == Erases(s, b + 1, to) \o t
            y == [k |-> "erase", c |-> s[b]]
 <2>12. Listed(Erases(s, b + 1, to)) /\ Erases(s, b, to) = <<y>> \o Erases(s, b + 1, to)
  <3>1. b + 1 \in Nat BY <1>7
  <3>2. Listed(Erases(s, b + 1, to)) BY <1>7, <3>1, ErasesIs
  <3>3. Erases(s, b, to) = <<y>> \o Erases(s, b + 1, to) BY <1>7, <2>4, ErasesIs
  <3> QED BY <3>2, <3>3
 <2>13. Erases(s, b, to) \o t = <<y>> \o w /\ Listed(w)
  <3> HIDE DEF y
  <3>0. Listed(<<y>>) /\ Listed(Erases(s, b + 1, to)) /\ Listed(t) BY <1>6, <2>12, ListedOne
  <3>1. (<<y>> \o Erases(s, b + 1, to)) \o t = <<y>> \o (Erases(s, b + 1, to) \o t) BY <3>0, ConcatAssoc
  <3>2. Listed(w) BY <1>6, <2>12, ListedConcat
  <3> QED BY <2>12, <3>1, <3>2
 <2>14. y.k = "erase" OBVIOUS
 <2> HIDE DEF w, y
 <2>15. todo' = <<y>> \o w /\ Listed(todo') /\ todo' # <<>> /\ Now' = y /\ file' = file BY <2>6, <2>13, <2>14, GoesOn
 <2>16. Rest(r, to)' BY <1>3, <1>4, <2>7, <2>8, <2>15, RestKept DEF Nd
 <2>17. Erasing(todo, ch, own)'
  <3>1. todo' = Erases(ch[f], b, to) \o (<<Sizing(to, TRUE)>> \o r) BY <1>3, <1>4, <1>6, <2>13, <2>15
  <3>2. Nd'.valid = b /\ b \in 0..MaxSize /\ to \in 0..MaxSize /\ b <= to /\ b <= b
   BY <1>3, <1>4, <1>7, <2>4, <2>7, <2>8, <2>15 DEF Nd
  <3>3. Zeros(ch, b)' BY <1>7, <3>2 DEF Zeros
  <3> HIDE DEF r
  <3> QED BY <1>3, <1>4, <2>10, <2>11, <2>15, <2>16, <3>1, <3>2, <3>3 DEF Erasing
 <2>18. Busy(ch, own)' BY <2>14, <2>15, <2>17, AtThat
 <2> QED BY <1>3, <1>4, <1>5, <2>7, <2>8, <2>15, <2>18, Settling
<1> QED BY <1>9, <1>10

\* The places a file had keep their clusters.
Kept(ch, own, ch2, own2) ==
    \A f \in Files :
        /\ \A i \in own[f] : ch2[f][i] = ch[f][i]
        /\ \A i \in own2[f] : i \in own[f] \/ node[f].size <= i

\* What has to be shown of a step that takes a cluster or gives one up.
LEMMA Accounted == ASSUME NEW ch, NEW own, NEW ch2 \in Ghosts, NEW own2 \in [Files -> SUBSET Nat], NEW f \in Files, f = file,
           Typed, Layout(ch, own), OnlyNode(f), IsNode(node'[f]),
           UNCHANGED <<fat, bitmap, entry, data, want, safe>>, cmap' \subseteq Clusters, cmapDirty',
           Owned(ch2, own2)', \A g \in Files : g # f => ch2[g] = ch[g] /\ own2[g] = own[g],
           Listed(todo'), Busy(ch2, own2)', file' = f PROVE Typed' /\ Layout(ch2, own2)'
<1>1. ch \in Ghosts /\ own \in [Files -> SUBSET Nat] /\ Owned(ch, own) /\ \A g \in Files : g # file => Quiet(g, ch, own)
 BY DEF Layout
<1>2. \A g \in Files : g # file => node'[g] = node[g] /\ entry'[g] = entry[g] /\ ch2[g] = ch[g] /\ own2[g] = own[g]
 BY DEF OnlyNode
<1>3. \A g \in Files : g # file => Quiet(g, ch2, own2)' BY <1>1, <1>2, OthersQuiet
<1>4. Readable' /\ MapClean' BY DEF Layout, Readable, MapClean, CheckNode, Invalid
<1>5. \A g \in Files : g # file' => Quiet(g, ch2, own2)' BY <1>3
<1>6. Layout(ch2, own2)' BY <1>4, <1>5 DEF Layout
<1>7. Typed' BY DEF Typed, OnlyNode, IsNode
<1> QED BY <1>6, <1>7

\* Once a file has the clusters of its new size, its size is to be set.
LEMMA ResizeGoes == ASSUME NEW ch, NEW own, NEW f \in Files, f = file, NEW t, NEW n \in 0..MaxSize,
           Resize(t, n), Continue(t), Sized(f, ch, own, n)', Loose(f)', node'[f].state = node[f].state,
           node'[f].size = node[f].size PROVE Busy(ch, own)' /\ Listed(todo') /\ file' = f
<1>1. Listed(t) /\ t # <<>> /\ Listed(Tail(t)) /\ t = <<Head(t)>> \o Tail(t) BY HeadFirst DEF Resize
<1>2. CASE Head(t) = Sizing(n, FALSE) /\ Rest(Tail(t), n) /\ Fit(Tail(t), n)
 <2>1. Head(t) = Sizing(n, FALSE) /\ Rest(Tail(t), n) /\ Fit(Tail(t), n) BY <1>2
 <2> DEFINE x == Sizing(n, FALSE)
 <2>a. ~x.erase BY DEF Sizing
 <2>2. x.k = "setSize" /\ x.to = n BY DEF Sizing
 <2> HIDE DEF x
 <2>3. Listed(todo') /\ todo' # <<>> /\ Now' = x /\ Tail(todo') = Tail(t) /\ file' = file BY <1>1, <2>1, <2>2, GoesOn DEF x
 <2>4. Rest(Tail(t), n)' BY <2>1, <2>3, RestKept DEF Nd
 <2>5. AtSetSize(Now, Tail(todo), ch, own)'
  <3>1. Fit(Tail(t), n)' BY <2>1, <2>3 DEF Fit, Nd
  <3> QED BY <2>a, <2>2, <2>3, <2>4, <3>1 DEF AtSetSize
 <2>6. Busy(ch, own)' BY <2>2, <2>3, <2>5, AtThat
 <2> QED BY <2>3, <2>6
<1>3. CASE Head(t) = EraseTo(n) /\ Tail(t) # <<>> /\ Head(Tail(t)) = Sizing(n, TRUE) /\ Rest(Tail(Tail(t)), n)
 <2> DEFINE x == EraseTo(n)
 <2>2. x.k = "eraseRange" /\ x.end = n BY DEF EraseTo
 <2> HIDE DEF x
 <2>3. Listed(todo') /\ todo' # <<>> /\ Now' = x /\ Tail(todo') = Tail(t) /\ file' = file BY <1>1, <1>3, <2>2, GoesOn DEF x
 <2>4. Rest(Tail(Tail(t)), n)' BY <1>3, <2>3, RestKept DEF Nd
 <2>5. AtEraseRange(Now, Tail(todo), ch, own)' BY <1>3, <2>2, <2>3, <2>4 DEF AtEraseRange
 <2>6. Busy(ch, own)' BY <2>2, <2>3, <2>5, AtThat
 <2> QED BY <2>3, <2>6
<1> QED BY <1>2, <1>3 DEF Resize

\* grow_file finds the last cluster of the file, or gives it a first one.
LEMMA GrowStartStep == ASSUME NEW ch, NEW own, Typed, Layout(ch, own), GrowStart
    PROVE  Typed' /\ \E ch2, own2 : Layout(ch2, own2)' /\ Kept(ch, own, ch2, own2)
<1>1. todo # <<>> /\ Doing("grow") BY DEF GrowStart, Doing
<1>2. AtGrow(Now, Tail(todo), ch, own) BY <1>1, AtWhich DEF Layout
<1>3. PICK f, t, n, d, s : f = file /\ t = Tail(todo) /\ n = Now.cur /\ d = Now.diff /\ s = ch[f] OBVIOUS
<1>4. /\ f \in Files /\ Settled(f, ch, own) /\ Booked(f) /\ node[f].state = "linked"
      /\ n = node[f].size /\ d \in Nat \ {0} /\ n + d <= MaxSize /\ NoCatch(t) /\ Resize(t, n + d) BY <1>2, <1>3 DEF AtGrow, Nd
<1>5. UNCHANGED <<fat, bitmap, entry, data, want, safe>> BY DEF GrowStart, disk, History
<1>6. /\ Listed(t) /\ todo = <<Now>> \o t /\ Listed(todo)
      /\ IsNode(node[f]) /\ n \in Nat /\ n <= MaxSize /\ MaxSize \in Nat
      /\ ch \in Ghosts /\ own \in [Files -> SUBSET Nat] /\ s \in [Nat -> Clusters] /\ Owned(ch, own)
 BY <1>1, <1>3, <1>4, InCall, NodeFacts DEF Layout, Ghosts
<1>7. own[f] = 0..n - 1 /\ Strung(node[f], s, n) /\ Pointed(node[f], s, n) BY <1>3, <1>4 DEF Settled, Sized
<1> DEFINE loop(prev, got) == [k |-> "growLoop", prev |-> prev, cur |-> n, left |-> d - got, got |-> got]
<1>8. CASE node[f].start # FREE
 <2>1. n # 0 BY <1>7, <1>8 DEF Strung
 <2>2. LastPlace(n) = n - 1 /\ n - 1 \in Nat /\ n - 1 < n BY <1>6, <2>1 DEF LastPlace
 <2> DEFINE m == Moved(node[f], n - 1)
 <2>3. Advance(node[f], n - 1) = s[n - 1] /\ ~AdvanceBugs(node[f], n - 1) /\ ~Invalid(s[n - 1])
  <3>1. node[f].at \in Nat BY <1>6 DEF IsNode
  <3>2. Advance(node[f], n - 1) = s[n - 1] /\ ~AdvanceBugs(node[f], n - 1) BY <1>6, <1>7, <2>2, <3>1, AdvanceIs
  <3> QED BY <1>6, <2>2, <3>2, ClusterNums
 <2>4. SetNode(m) /\ Continue(<<loop(s[n - 1], 0)>> \o t) /\ UNCHANGED <<cmap, cmapDirty>>
  BY <1>3, <1>8, <2>2, <2>3 DEF GrowStart, Goto, Nd
 <2>5. OnlyNode(f) /\ node'[f] = m BY <1>3, <1>4, <2>4, SetNodeIs
 <2>6. /\ IsNode(m) /\ m.at = n - 1 /\ m.ptr = s[n - 1] /\ m.start = node[f].start
       /\ m.size = n /\ m.state = node[f].state
  <3>1. PICK nd, p : nd = node[f] /\ p = n - 1 OBVIOUS
  <3>2. IsNode(nd) /\ s \in [Nat -> Clusters] /\ n \in Nat /\ p \in Nat /\ p < n BY <1>6, <2>2, <3>1
  <3>3. Strung(nd, s, n) /\ Pointed(nd, s, n) BY <1>7, <3>1
  <3>4. LET w == Moved(nd, p)
        IN  /\ IsNode(w) /\ w.at = p /\ w.ptr = s[p] /\ w.start = nd.start
            /\ w.size = nd.size /\ w.state = nd.state BY <3>2, <3>3, MovedIs
  <3> QED BY <1>4, <3>1, <3>4
 <2>7. m.contiguous = node[f].contiguous BY <1>6, <1>7, <2>2, MovedIs
 <2>8. m.dirty = node[f].dirty BY <1>6, <1>7, <2>2, MovedIs
 <2> HIDE DEF m
 <2>9. Sized(f, ch, own, n)'
  <3>1. Pointed(node[f], ch[f], n)' BY <1>3, <1>6, <2>1, <2>2, <2>5, <2>6 DEF Pointed
  <3>2. Sized(f, ch, own, n) BY <1>4 DEF Settled
  <3> QED BY <1>5, <2>5, <2>6, <2>7, <3>1, <3>2, SizedKept
 <2>10. Loose(f)' BY <1>4, <1>5, <2>5, <2>6, <2>7, <2>8 DEF Booked, Loose, Listing, Matches
 <2> DEFINE g == loop(s[n - 1], 0)
 <2>11. /\ DOMAIN g = {"k", "prev", "cur", "left", "got"}
        /\ g.k = "growLoop" /\ g.prev = s[n - 1] /\ g.cur = n /\ g.left = d /\ g.got = 0 BY <1>4
 <2> HIDE DEF g
 <2>12. Listed(todo') /\ todo' # <<>> /\ Now' = g /\ Tail(todo') = t /\ file' = file BY <1>6, <2>4, <2>11, GoesOn DEF g
 <2>13. Resize(t, n + d)' /\ node'[f].state = "linked" BY <1>3, <1>4, <2>5, <2>6, <2>12, ResizeKept DEF Nd
 <2>14. own[f] = 0..n - 1 /\ Strung(node[f], s, n)' /\ Pointed(node[f], s, n)' /\ node'[f].start = s[0]
  <3>1. own[f] = 0..n - 1 /\ Strung(node[f], s, n)' /\ Pointed(node[f], s, n)' BY <1>3, <2>9 DEF Sized
  <3> QED BY <2>1, <3>1 DEF Strung
 <2>15. AtGrowLoop(Now, Tail(todo), ch, own)'
  <3>0. g.cur + g.got = n /\ n + g.left = n + d /\ n >= 1 /\ g.left \in Nat /\ g.got \in Nat BY <1>4, <1>6, <2>1, <2>11
  <3>1. Looping(g, t, ch, own)'
   <4>1. node'[f].size = n BY <2>5, <2>6
   <4> QED BY <1>3, <1>4, <1>6, <2>10, <2>11, <2>12, <2>13, <2>14, <3>0, <4>1 DEF Looping, Nd
  <3> QED BY <1>3, <1>4, <2>12, <2>14, <3>0, <3>1 DEF AtGrowLoop, Nd
 <2>16. Busy(ch, own)' BY <2>11, <2>12, <2>15, AtThat
 <2>17. Typed' /\ Layout(ch, own)' BY <1>3, <1>4, <1>5, <2>4, <2>5, <2>6, <2>12, <2>16, Settling
 <2> QED BY <2>17 DEF Kept
<1>9. CASE node[f].start = FREE
 <2>1. n = 0 /\ node[f].at = 0 /\ node[f].ptr = FREE
  <3>1. n = 0 BY <1>6, <1>7, <1>9, ClusterNums DEF Strung
  <3> QED BY <1>7, <3>1 DEF Pointed
 <2>2. PICK c : c = Allocate(First) OBVIOUS
 <2>3. CASE Invalid(c)
  <3>1. Bail /\ node' = node /\ UNCHANGED <<cmap, cmapDirty>> BY <1>3, <1>9, <2>1, <2>2, <2>3 DEF GrowStart, Nd, Memory
  <3>2. NoCatch(todo)
   <4>1. Now.k # "catch" BY <1>1 DEF Doing, Now
   <4> QED BY <1>4, <1>6, <4>1, NoCatchInFront
  <3>3. todo' = <<>> /\ Listed(todo') /\ file' = NoFile BY <1>6, <3>1, <3>2, BailEnds
  <3>4. Quiet(f, ch, own) BY <1>4 DEF Quiet
  <3>5. Quiet(f, ch, own)' /\ OnlyNode(f) /\ IsNode(node'[f]) BY <1>4, <1>5, <1>6, <3>1, <3>4, AllKept, KeptNode
  <3>6. Busy(ch, own)' BY <3>3 DEF Busy
  <3>7. Typed' /\ Layout(ch, own)' BY <1>3, <1>4, <1>5, <3>1, <3>3, <3>5, <3>6, Settling
  <3> QED BY <3>7 DEF Kept
 <2>4. CASE ~Invalid(c)
  <3> DEFINE m == [node[f] EXCEPT !.start = c, !.ptr = c, !.contiguous = TRUE]
             g == loop(c, 1)
  <3>1. SetNode(m) /\ Take(c) /\ Continue(<<g>> \o t) BY <1>3, <1>9, <2>1, <2>2, <2>4 DEF GrowStart, Goto, Nd
  <3>2. c \in Clusters \ cmap /\ cmap \subseteq Clusters /\ c \in Nat
   <4>1. cmap \subseteq Clusters BY DEF Typed
   <4>2. c \in (Clusters \ cmap) \cup {END} BY <2>2, <4>1, AllocateIs
   <4> QED BY <2>4, <4>1, <4>2, ClusterNums
  <3>3. /\ DOMAIN m = DOMAIN node[f] /\ m.start = c /\ m.ptr = c /\ m.at = 0 /\ m.size = 0
        /\ m.state = "linked" /\ m.valid = node[f].valid BY <1>4, <1>6, <2>1 DEF IsNode
  <3>4. m.contiguous BY <1>6 DEF IsNode
  <3>5. g.k = "growLoop" /\ g.prev = c /\ g.cur = n /\ g.left = d - 1 /\ g.got = 1
        /\ DOMAIN g = {"k", "prev", "cur", "left", "got"} OBVIOUS
  <3> HIDE DEF m, g
  <3>6. OnlyNode(f) /\ node'[f] = m BY <1>3, <1>4, <3>1, SetNodeIs
  <3>7. IsNode(m) BY <1>4, <1>6, <2>1, <3>2, <3>3 DEF IsNode
  <3>8. cmap' = cmap \cup {c} /\ cmapDirty' BY <3>1 DEF Take
  <3>9. 0 \notin own[f] BY <1>7, <2>1
  <3>10. PICK ch2 \in Ghosts, own2 \in [Files -> SUBSET Nat] :
         /\ Owned(ch2, own2)'
         /\ ch2[f][0] = c /\ own2[f] = own[f] \cup {0}
         /\ \A i \in Nat : i # 0 => ch2[f][i] = ch[f][i]
         /\ \A h \in Files : h # f => ch2[h] = ch[h] /\ own2[h] = own[h]
   <4>1. PICK k \in Nat : k = 0 OBVIOUS
   <4>2. Added(ch, own, f, k, c) BY <1>4, <1>6, <3>2, <3>8, <3>9, <4>1, OwnedAdd
   <4> QED BY <4>1, <4>2 DEF Added
  <3>11. /\ ch2 \in Ghosts /\ own2 \in [Files -> SUBSET Nat] /\ Owned(ch2, own2)'
         /\ ch2[f][0] = c /\ own2[f] = own[f] \cup {0}
         /\ \A i \in Nat : i # 0 => ch2[f][i] = ch[f][i]
         /\ \A h \in Files : h # f => ch2[h] = ch[h] /\ own2[h] = own[h] BY <3>10
  <3>12. Listed(todo') /\ todo' # <<>> /\ Now' = g /\ Tail(todo') = t /\ file' = file BY <1>6, <3>1, <3>5, GoesOn
  <3>13. Resize(t, n + d)' BY <1>3, <1>4, <2>1, <3>3, <3>6, <3>12, ResizeKept DEF Nd
  <3>14. Loose(f)' BY <1>4, <1>5, <3>3, <3>6 DEF Booked, Loose, Listing
  <3>15. Strung(node[f], ch2[f], 1)' /\ Pointed(node[f], ch2[f], 1)'
   <4>1. \A i \in Nat : ~(0 <= i /\ i + 1 < 1) OBVIOUS
   <4>2. Segment(node[f], ch2[f], 0, 1)' BY <4>1 DEF Segment
   <4> QED BY <3>3, <3>6, <3>11, <4>2 DEF Strung, Pointed
  <3>16. AtGrowLoop(Now, Tail(todo), ch2, own2)'
   <4>0. g.cur + g.got = 1 /\ 1 + g.left = n + d /\ g.left \in Nat /\ g.got \in Nat BY <1>4, <2>1, <3>5
   <4>1. own2[f] = 0..1 - 1 BY <1>7, <2>1, <3>11
   <4>2. Looping(g, t, ch2, own2)'
    BY <1>3, <1>4, <2>1, <3>3, <3>5, <3>6, <3>11, <3>12, <3>13, <3>14, <3>15, <4>0, <4>1 DEF Looping, Nd
   <4> QED BY <1>3, <1>4, <3>12, <3>15, <4>0, <4>2 DEF AtGrowLoop, Nd
  <3>17. Busy(ch2, own2)' BY <3>5, <3>12, <3>16, AtThat
  <3>18. Typed' /\ Layout(ch2, own2)'
   <4>1. cmap' \subseteq Clusters BY <3>2, <3>8
   <4> QED BY <1>3, <1>4, <1>5, <3>6, <3>7, <3>8, <3>11, <3>12, <3>17, <4>1, Accounted
  <3>19. Kept(ch, own, ch2, own2)
   <4>1. n \in Nat /\ n = 0 /\ node[f].size = n BY <1>4, <1>6, <2>1
   <4>2. \A i \in own[f] : i \in Nat /\ i # 0 BY <1>7, <2>1
   <4>3. ASSUME NEW h \in Files
         PROVE  /\ \A i \in own[h] : ch2[h][i] = ch[h][i]
                /\ \A i \in own2[h] : i \in own[h] \/ node[h].size <= i
    <5>1. CASE h = f BY <3>11, <4>1, <4>2, <5>1
    <5>2. CASE h # f BY <3>11, <5>2
    <5> QED BY <5>1, <5>2
   <4> QED BY <4>3 DEF Kept
  <3> QED BY <3>18, <3>19
 <2> QED BY <2>3, <2>4
<1> QED BY <1>8, <1>9

\* The list u begins with the stage y, which is no catch, and goes on with r.
Leads(u, y, r) == Listed(u) /\ u # <<>> /\ PastCatch(u) = u /\ Head(u) = y /\ Tail(u) = r

\* Going on with a list whose first stage is no caller makes that stage the current one.
LEMMA ContinueIs == ASSUME NEW u, NEW y, NEW r, Leads(u, y, r), Continue(u)
    PROVE  todo' = u /\ Listed(todo') /\ todo' # <<>> /\ Now' = y /\ Tail(todo') = r /\ file' = file BY DEF Leads, Continue, Now

\* A stage that is no caller leads the list it stands in front of.
LEMMA InFrontLeads == ASSUME NEW x, x.k # "catch", NEW t, Listed(t) PROVE Leads(<<x>> \o t, x, t)
<1>1. PICK v : v = <<x>> \o t OBVIOUS
<1>2. Listed(v) /\ v # <<>> /\ Head(v) = x /\ Tail(v) = t BY <1>1, InFront
<1>3. PastCatch(v) = v BY <1>1, PastStage
<1>4. Leads(v, x, t) BY <1>2, <1>3 DEF Leads
<1> QED BY <1>1, <1>4

\* A list with a stage in front of two others.
LEMMA FrontIs == ASSUME NEW y, NEW l, NEW t, Listed(l), Listed(t), y.k # "catch" PROVE Leads((<<y>> \o l) \o t, y, l \o t)
<1>1. Listed(<<y>>) BY ListedOne
<1>2. (<<y>> \o l) \o t = <<y>> \o (l \o t) BY <1>1, ConcatAssoc
<1>3. PICK v : v = l \o t OBVIOUS
<1>4. Listed(v) BY <1>3, ListedConcat
<1>5. Leads(<<y>> \o v, y, v) BY <1>4, InFrontLeads
<1> QED BY <1>2, <1>3, <1>5

\* While links are left to write, the next one leads.
LEMMA SpreadMore == ASSUME NEW s, NEW j \in Nat, NEW m \in Nat, j < m, NEW v, Listed(v)
    PROVE  Leads(Links(s, j, m) \o v, Linking(s[j], s[j + 1]), Links(s, j + 1, m) \o v)
<1>1. PICK y, l : y = Linking(s[j], s[j + 1]) /\ l = Links(s, j + 1, m) OBVIOUS
<1>2. Links(s, j, m) = <<y>> \o l BY <1>1, LinksIs
<1>3. Listed(l)
 <2>1. j + 1 \in Nat OBVIOUS
 <2> QED BY <1>1, <2>1, LinksIs
<1>4. y.k # "catch" BY <1>1 DEF Linking
<1>5. Leads((<<y>> \o l) \o v, y, l \o v) BY <1>3, <1>4, FrontIs
<1> QED BY <1>1, <1>2, <1>5

\* When no link is left, the stage behind the links leads.
LEMMA SpreadLast == ASSUME NEW s, NEW m \in Nat, NEW x, x.k # "catch", NEW t, Listed(t)
    PROVE  Leads(Links(s, m, m) \o (<<x>> \o t), x, t)
<1>1. PICK v : v = <<x>> \o t OBVIOUS
<1>2. Leads(v, x, t) /\ Listed(v) BY <1>1, InFrontLeads DEF Leads
<1>3. Links(s, m, m) = <<>>
 <2>1. m >= m OBVIOUS
 <2> QED BY <2>1, LinksIs
<1>4. <<>> \o v = v BY <1>2, ConcatNil
<1> QED BY <1>1, <1>2, <1>3, <1>4

\* While places are left to erase, the next one leads.
LEMMA EraseMore == ASSUME NEW s, NEW j \in Nat, NEW m \in Nat, j < m, NEW v, Listed(v)
    PROVE  Leads(Erases(s, j, m) \o v, [k |-> "erase", c |-> s[j]], Erases(s, j + 1, m) \o v)
<1>1. PICK y, l : y = [k |-> "erase", c |-> s[j]] /\ l = Erases(s, j + 1, m) OBVIOUS
<1>2. Erases(s, j, m) = <<y>> \o l BY <1>1, ErasesIs
<1>3. Listed(l)
 <2>1. j + 1 \in Nat OBVIOUS
 <2> QED BY <1>1, <2>1, ErasesIs
<1>4. y.k # "catch" BY <1>1
<1>5. Leads((<<y>> \o l) \o v, y, l \o v) BY <1>3, <1>4, FrontIs
<1> QED BY <1>1, <1>2, <1>5

\* When no place is left, the stage behind the erasing leads.
LEMMA EraseLast == ASSUME NEW s, NEW m \in Nat, NEW x, x.k # "catch", NEW t, Listed(t)
    PROVE  Leads(Erases(s, m, m) \o (<<x>> \o t), x, t)
<1>1. PICK v : v = <<x>> \o t OBVIOUS
<1>2. Leads(v, x, t) /\ Listed(v) BY <1>1, InFrontLeads DEF Leads
<1>3. Erases(s, m, m) = <<>>
 <2>1. m >= m OBVIOUS
 <2> QED BY <2>1, ErasesIs
<1>4. <<>> \o v = v BY <1>2, ConcatNil
<1> QED BY <1>1, <1>2, <1>3, <1>4

\* A chain with a place more has the links it had.
LEMMA StrungSame == ASSUME NEW nd, NEW s, NEW s2, NEW n \in Nat, Strung(nd, s, n), \A i \in Nat : i < n => s2[i] = s[i]
    PROVE  Strung(nd, s2, n)
<1>1. \A i \in Nat : 0 <= i /\ i + 1 < n => NextCluster(nd, s2[i]) = s2[i + 1]
 <2> SUFFICES ASSUME NEW i \in Nat, i + 1 < n PROVE NextCluster(nd, s2[i]) = s2[i + 1] OBVIOUS
 <2>1. i < n /\ i + 1 \in Nat OBVIOUS
 <2>2. s2[i] = s[i] /\ s2[i + 1] = s[i + 1] BY <2>1
 <2>3. NextCluster(nd, s[i]) = s[i + 1] BY DEF Strung, Segment
 <2> QED BY <2>2, <2>3
<1>2. n # 0 => s2[0] = s[0] OBVIOUS
<1> QED BY <1>1, <1>2 DEF Strung, Segment

\* A chain whose last cluster is linked to one more leads through that one too.
LEMMA StrungOneMore == ASSUME NEW nd, NEW s, NEW n \in Nat \ {0}, Strung(nd, s, n), NextCluster(nd, s[n - 1]) = s[n]
    PROVE  Strung(nd, s, n + 1)
<1>1. ASSUME NEW i \in Nat, i + 1 < n + 1 PROVE NextCluster(nd, s[i]) = s[i + 1]
 <2>1. CASE i + 1 < n
  <3>1. 0 <= i OBVIOUS
  <3> QED BY <2>1, <3>1 DEF Strung, Segment
 <2>2. CASE i + 1 = n
  <3>1. i = n - 1 BY <2>2
  <3> QED BY <2>2, <3>1
 <2> QED BY <1>1, <2>1, <2>2
<1> QED BY <1>1 DEF Strung, Segment

\* One turn of grow_file's loop.
LEMMA GrowLoopStep == ASSUME NEW ch, NEW own, Typed, Layout(ch, own), GrowLoop
    PROVE  Typed' /\ \E ch2, own2 : Layout(ch2, own2)' /\ Kept(ch, own, ch2, own2)
<1>1. todo # <<>> /\ Doing("growLoop") BY DEF GrowLoop, Doing
<1>2. AtGrowLoop(Now, Tail(todo), ch, own) BY <1>1, AtWhich DEF Layout
<1>3. PICK f, t, g, n, s : f = file /\ t = Tail(todo) /\ g = Now /\ n = g.cur + g.got /\ s = ch[f] OBVIOUS
<1>4. f \in Files /\ Looping(g, t, ch, own) /\ Strung(node[f], s, n) BY <1>2, <1>3 DEF AtGrowLoop, Nd
<1>5. /\ DOMAIN g = {"k", "prev", "cur", "left", "got"} /\ g.k = "growLoop"
      /\ g.cur = node[f].size /\ g.got \in Nat /\ g.left \in Nat
      /\ n >= 1 /\ n + g.left <= MaxSize /\ g.prev = s[n - 1] /\ own[f] = 0..n - 1
      /\ node[f].start = s[0] /\ Pointed(node[f], s, n)
      /\ node[f].state = "linked" /\ Loose(f) /\ NoCatch(t) /\ Resize(t, n + g.left) BY <1>3, <1>4 DEF Looping, Nd
<1>6. UNCHANGED <<node, fat, bitmap, entry, data, want, safe>> BY DEF GrowLoop, disk, History
<1>7. /\ Listed(t) /\ IsNode(node[f]) /\ MaxSize \in Nat /\ n \in Nat \ {0} /\ n - 1 \in Nat /\ n <= MaxSize
      /\ g.cur \in Nat
      /\ ch \in Ghosts /\ own \in [Files -> SUBSET Nat] /\ s \in [Nat -> Clusters] /\ Owned(ch, own)
 <2>1. Listed(t) /\ IsNode(node[f]) /\ MaxSize \in Nat /\ g.cur \in Nat BY <1>1, <1>3, <1>4, <1>5, InCall, NodeFacts
 <2>2. n \in Nat /\ n \in Nat \ {0} /\ n - 1 \in Nat /\ n <= MaxSize BY <1>3, <1>5, <2>1
 <2> QED BY <1>3, <1>4, <2>1, <2>2 DEF Layout, Ghosts
<1>8. OnlyNode(f) /\ IsNode(node'[f]) /\ node'[f].state = node[f].state BY <1>4, <1>6, <1>7, KeptNode
<1>9. Sized(f, ch, own, n) /\ Sized(f, ch, own, n)' /\ Loose(f)'
 <2>1. Sized(f, ch, own, n) BY <1>3, <1>4, <1>5 DEF Sized
 <2> QED BY <1>5, <1>6, <2>1, AllKept
<1>10. PICK c : c = Allocate(g.prev + 1) OBVIOUS
<1>11. IF g.left = 0
       THEN Continue(SetNext(node[f].contiguous, g.prev, END) \o t) /\ UNCHANGED <<cmap, cmapDirty>>
       ELSE IF Invalid(c)
       THEN Continue(NoneLeft(g.cur, g.got) \o t) /\ UNCHANGED <<cmap, cmapDirty>>
       ELSE /\ Take(c)
            /\ Continue((LinkNext(g.prev, c) \o <<[g EXCEPT !.prev = c, !.left = @ - 1, !.got = @ + 1]>>) \o t)
 BY <1>3, <1>10 DEF GrowLoop, Goto, Nd
<1>12. CASE g.left = 0
 <2>1. Continue(SetNext(node[f].contiguous, g.prev, END) \o t) /\ UNCHANGED <<cmap, cmapDirty>> BY <1>11, <1>12
 <2>2. Resize(t, n) /\ n \in 0..MaxSize /\ n \in 1..MaxSize
  <3>1. n + g.left = n BY <1>7, <1>12
  <3> QED BY <1>5, <1>7, <3>1
 <2>3. CASE node[f].contiguous
  <3>1. Continue(t) BY <1>7, <2>1, <2>3, ConcatNil DEF SetNext
  <3>2. Busy(ch, own)' /\ Listed(todo') /\ file' = f
   <4>1. node'[f].size = node[f].size BY <1>6
   <4> QED BY <1>3, <1>4, <1>8, <1>9, <2>2, <3>1, <4>1, ResizeGoes
  <3>3. Typed' /\ Layout(ch, own)' BY <1>3, <1>4, <1>6, <1>8, <2>1, <3>2, Settling
  <3> QED BY <3>3 DEF Kept
 <2>4. CASE ~node[f].contiguous
  <3> DEFINE x == Linking(s[n - 1], END)
  <3>1. Continue(<<x>> \o t) /\ x.k = "fat" BY <1>5, <2>1, <2>4 DEF SetNext, Linking
  <3> HIDE DEF x
  <3>2. Listed(todo') /\ todo' # <<>> /\ Now' = x /\ Tail(todo') = t /\ file' = file BY <1>7, <3>1, GoesOn
  <3>3. Resize(t, n)' BY <1>3, <1>6, <2>2, <3>2, ResizeKept DEF Nd
  <3>4. AtFat(Now, Tail(todo), ch, own)'
   <4>1. FatEnd(x, t, ch, own)' BY <1>3, <1>9, <2>2, <3>2, <3>3 DEF FatEnd, x
   <4> QED BY <1>3, <1>4, <3>2, <4>1 DEF AtFat
  <3>5. Busy(ch, own)' BY <3>1, <3>2, <3>4, AtThat
  <3>6. Typed' /\ Layout(ch, own)' BY <1>3, <1>4, <1>6, <1>8, <2>1, <3>2, <3>5, Settling
  <3> QED BY <3>6 DEF Kept
 <2> QED BY <2>3, <2>4
<1>13. CASE g.left # 0 /\ Invalid(c)
 <2>1. Continue(NoneLeft(g.cur, g.got) \o t) /\ UNCHANGED <<cmap, cmapDirty>> BY <1>11, <1>13
 <2> DEFINE x == Stage("fail")
 <2>2. x.k = "fail" /\ x = [k |-> "fail"] BY DEF Stage
 <2> HIDE DEF x
 <2>3. CASE g.got = 0
  <3>1. NoneLeft(g.cur, g.got) = <<>> \o <<x>> BY <2>2, <2>3 DEF NoneLeft
  <3>2. <<>> \o <<x>> = <<x>> BY ListedOne, ConcatNil
  <3>3. Continue(<<x>> \o t) BY <2>1, <3>1, <3>2
  <3>4. Listed(todo') /\ todo' # <<>> /\ Now' = x /\ Tail(todo') = t /\ file' = file BY <1>7, <2>2, <3>3, GoesOn
  <3>5. n = node[f].size /\ node[f].size # 0 BY <1>3, <1>5, <1>7, <2>3
  <3>6. Quiet(f, ch, own) BY <1>5, <1>9, <3>5 DEF Quiet, Settled, Booked, Loose
  <3>7. Quiet(f, ch, own)' BY <1>6, <3>6, AllKept
  <3>8. AtFail(Now, Tail(todo), ch, own)' BY <1>3, <1>4, <1>5, <3>4, <3>7 DEF AtFail
  <3>9. Busy(ch, own)' BY <2>2, <3>4, <3>8, AtThat
  <3>10. Typed' /\ Layout(ch, own)' BY <1>3, <1>4, <1>6, <1>8, <2>1, <3>4, <3>9, Settling
  <3> QED BY <3>10 DEF Kept
 <2>4. CASE g.got # 0
  <3> DEFINE y == [k |-> "shrink", cur |-> n, diff |-> g.got]
             r == <<x>> \o t
  <3>1. NoneLeft(g.cur, g.got) = <<y>> \o <<x>> BY <1>3, <2>2, <2>4 DEF NoneLeft
  <3>2. y.k = "shrink" /\ y.cur = n /\ y.diff = g.got OBVIOUS
  <3> HIDE DEF y
  <3>3. (<<y>> \o <<x>>) \o t = <<y>> \o (<<x>> \o t) BY <1>7, ListedOne, ConcatAssoc
  <3>4. Listed(r) /\ r # <<>> /\ Head(r) = x /\ Tail(r) = t BY <1>7, InFront
  <3>5. Continue(<<y>> \o r) BY <2>1, <3>1, <3>3
  <3> HIDE DEF r
  <3>6. Listed(todo') /\ todo' # <<>> /\ Now' = y /\ Tail(todo') = r /\ file' = file BY <3>2, <3>4, <3>5, GoesOn
  <3>7. n \in 1..MaxSize /\ g.got \in 1..n /\ n - g.got = node[f].size
   <4>1. PICK c0, p : c0 = g.cur /\ p = g.got OBVIOUS
   <4>2. c0 \in Nat /\ p \in Nat /\ p # 0 /\ n = c0 + p /\ c0 = node[f].size /\ n <= MaxSize /\ MaxSize \in Nat
    BY <1>3, <1>5, <1>7, <2>4, <4>1
   <4>3. n \in 1..MaxSize /\ p \in 1..n /\ n - p = c0 BY <4>2
   <4> QED BY <4>1, <4>2, <4>3
  <3>8. AfterCut(r, node[f].size)'
   <4>1. Nd'.size = node'[f].size /\ Nd'.state = "linked" BY <1>3, <1>5, <1>6, <3>6 DEF Nd
   <4> QED BY <1>5, <3>4, <4>1 DEF AfterCut, x
  <3>9. AtShrink(Now, Tail(todo), ch, own)'
   <4>1. y.cur - y.diff = node'[f].size BY <1>6, <3>2, <3>7
   <4> QED BY <1>3, <1>4, <1>9, <3>2, <3>6, <3>7, <3>8, <4>1 DEF AtShrink
  <3>10. Busy(ch, own)' BY <3>2, <3>6, <3>9, AtThat
  <3>11. Typed' /\ Layout(ch, own)' BY <1>3, <1>4, <1>6, <1>8, <2>1, <3>6, <3>10, Settling
  <3> QED BY <3>11 DEF Kept
 <2> QED BY <2>3, <2>4
<1>14. CASE g.left # 0 /\ ~Invalid(c)
 <2> DEFINE h == [g EXCEPT !.prev = c, !.left = @ - 1, !.got = @ + 1]
 <2>1. Take(c) /\ Continue((LinkNext(g.prev, c) \o <<h>>) \o t) BY <1>11, <1>14
 <2>2. c \in Clusters \ cmap /\ cmap \subseteq Clusters /\ c \in Nat
  <3>1. cmap \subseteq Clusters BY DEF Typed
  <3>2. c \in (Clusters \ cmap) \cup {END} BY <1>10, <3>1, AllocateIs
  <3> QED BY <1>14, <3>1, <3>2, ClusterNums
 <2>3. /\ DOMAIN h = {"k", "prev", "cur", "left", "got"} /\ h.k = "growLoop" /\ h.prev = c /\ h.cur = g.cur
       /\ h.left = g.left - 1 /\ h.got = g.got + 1 BY <1>5
 <2> HIDE DEF h
 <2>4. cmap' = cmap \cup {c} /\ cmapDirty' /\ cmap' \subseteq Clusters BY <2>1, <2>2 DEF Take
 <2>5. n \notin own[f] BY <1>5, <1>7
 <2>6. PICK ch2 \in Ghosts, own2 \in [Files -> SUBSET Nat] :
          /\ Owned(ch2, own2)'
          /\ ch2[f][n] = c /\ own2[f] = own[f] \cup {n}
          /\ \A i \in Nat : i # n => ch2[f][i] = ch[f][i]
          /\ \A e \in Files : e # f => ch2[e] = ch[e] /\ own2[e] = own[e]
  <3>1. n \in Nat BY <1>7
  <3>2. Added(ch, own, f, n, c) BY <1>4, <1>7, <2>2, <2>4, <2>5, <3>1, OwnedAdd
  <3> QED BY <3>2 DEF Added
 <2>7. PICK z : z = ch2[f] OBVIOUS
 <2>8. z \in [Nat -> Clusters] /\ z[n] = c /\ \A i \in Nat : i < n => z[i] = s[i] BY <1>3, <1>4, <1>7, <2>6, <2>7 DEF Ghosts
 <2>9. own2[f] = 0..n BY <1>5, <1>7, <2>6
 <2>10. z[0] = s[0] /\ z[n - 1] = s[n - 1] /\ Strung(node[f], z, n) /\ Strung(node[f], z, n)' /\ Pointed(node[f], z, n + 1)'
  <3>1. z[0] = s[0] /\ z[n - 1] = s[n - 1] BY <1>7, <2>8
  <3>2. Strung(node[f], z, n) BY <1>4, <1>7, <2>8, StrungSame
  <3>3. Strung(node[f], z, n)'
   <4>1. \A i \in Nat : i + 1 < n => fat'[z[i]] = fat[z[i]] BY <1>6
   <4> QED BY <1>4, <1>6, <1>7, <2>8, <3>2, <4>1, StrungKept
  <3>4. Pointed(node[f], z, n + 1)'
   <4>1. node[f].at \in Nat /\ node[f].at < n /\ node[f].ptr = s[node[f].at] BY <1>5, <1>7 DEF Pointed, IsNode
   <4>2. node'[f].at < n + 1 /\ node'[f].ptr = z[node'[f].at] /\ n + 1 # 0 BY <1>6, <1>7, <2>8, <4>1
   <4> QED BY <4>2 DEF Pointed
  <3> QED BY <3>1, <3>2, <3>3, <3>4
 <2>11. h.cur + h.got = n + 1 /\ n + 1 + h.left = n + g.left /\ h.got \in Nat /\ h.left \in Nat /\ (n + 1) - 1 = n
        /\ (n + 1) - 2 = n - 1 /\ n + 1 >= 2
  <3>1. PICK a, b, d, e, q : a = g.cur /\ b = g.got /\ d = g.left /\ e = h.got /\ q = h.left OBVIOUS
  <3>2. a \in Nat /\ b \in Nat /\ d \in Nat /\ d # 0 /\ n = a + b /\ e = b + 1 /\ q = d - 1 /\ h.cur = a /\ n \in Nat \ {0}
   BY <1>3, <1>5, <1>7, <1>14, <2>3, <3>1
  <3>3. a + e = n + 1 /\ n + 1 + q = n + d /\ e \in Nat /\ q \in Nat BY <3>2
  <3>4. (n + 1) - 1 = n /\ (n + 1) - 2 = n - 1 /\ n + 1 >= 2 BY <3>2
  <3> QED BY <3>1, <3>2, <3>3, <3>4
 <2>12. ASSUME file' = file PROVE Looping(h, t, ch2, own2)'
  <3>1. Resize(t, n + g.left)' BY <1>3, <1>5, <1>6, <2>12, ResizeKept DEF Nd
  <3>2. node'[f].size = h.cur /\ node'[f].state = "linked" /\ node'[f].start = z[0] BY <1>5, <1>6, <2>3, <2>10
  <3> DEFINE k == n + 1
  <3>3. k = h.cur + h.got /\ k >= 1 /\ k + h.left <= MaxSize /\ h.prev = z[k - 1] /\ own2[f] = 0..k - 1
   BY <1>5, <1>7, <2>3, <2>8, <2>9, <2>11
  <3>4. Pointed(node[f], z, k)' /\ Resize(t, k + h.left)' BY <2>10, <2>11, <3>1
  <3> HIDE DEF k
  <3> QED BY <1>3, <1>5, <1>9, <2>3, <2>7, <2>11, <2>12, <3>2, <3>3, <3>4 DEF Looping, Nd
 <2>13. ASSUME file' = file, Listed(todo'), Busy(ch2, own2)'
        PROVE  Typed' /\ \E ch3, own3 : Layout(ch3, own3)' /\ Kept(ch, own, ch3, own3)
  <3>1. Typed' /\ Layout(ch2, own2)' BY <1>3, <1>4, <1>6, <1>8, <2>4, <2>6, <2>13, Accounted
  <3>2. Kept(ch, own, ch2, own2)
   <4>1. n \in Nat /\ node[f].size <= n BY <1>3, <1>5, <1>7
   <4>2. \A i \in own[f] : i \in Nat /\ i # n BY <1>5, <1>7
   <4>3. ASSUME NEW e \in Files
         PROVE  /\ \A i \in own[e] : ch2[e][i] = ch[e][i]
                /\ \A i \in own2[e] : i \in own[e] \/ node[e].size <= i
    <5>1. CASE e = f BY <2>6, <4>1, <4>2, <5>1
    <5>2. CASE e # f BY <2>6, <5>2
    <5> QED BY <5>1, <5>2
   <4> QED BY <4>3 DEF Kept
  <3> QED BY <3>1, <3>2
 <2>14. PICK p : p = s[n - 1] OBVIOUS
 <2>15. p = g.prev /\ p \in Clusters /\ p \in Nat BY <1>5, <1>7, <2>14, ClusterNums
 <2>16. CASE node[f].contiguous /\ c = p + 1
  <3>1. LinkNext(g.prev, c) = <<>> BY <1>3, <2>15, <2>16 DEF LinkNext, SetNext, Nd
  <3>2. <<>> \o <<h>> = <<h>> BY ListedOne, ConcatNil
  <3>3. Continue(<<h>> \o t) BY <2>1, <3>1, <3>2
  <3>4. Listed(todo') /\ todo' # <<>> /\ Now' = h /\ Tail(todo') = t /\ file' = file BY <1>7, <2>3, <3>3, GoesOn
  <3>5. NextCluster(node[f], z[n - 1])' = z[n] BY <1>6, <2>8, <2>10, <2>14, <2>16 DEF NextCluster
  <3>6. Strung(node[f], z, n + 1)'
   <4>1. PICK nd : nd = node[f] OBVIOUS
   <4>2. Strung(nd, z, n) /\ NextCluster(nd, z[n - 1]) = z[n] BY <2>8, <2>10, <2>14, <2>16, <4>1 DEF NextCluster
   <4>3. Strung(nd, z, n + 1) BY <1>7, <4>2, StrungOneMore
   <4>4. Strung(node[f], z, n + 1) /\ n + 1 \in Nat BY <1>7, <4>1, <4>3
   <4>5. \A i \in Nat : i + 1 < n + 1 => fat'[z[i]] = fat[z[i]] BY <1>6
   <4> QED BY <1>4, <1>6, <2>8, <4>4, <4>5, StrungKept
  <3>7. AtGrowLoop(Now, Tail(todo), ch2, own2)'
   <4>1. Looping(h, t, ch2, own2)' BY <2>12, <3>4
   <4>2. Strung(node[f], ch2[f], h.cur + h.got)' BY <2>7, <2>11, <3>6
   <4> QED BY <1>3, <1>4, <3>4, <4>1, <4>2 DEF AtGrowLoop, Nd
  <3>8. Busy(ch2, own2)' BY <2>3, <3>4, <3>7, AtThat
  <3> QED BY <2>13, <3>4, <3>8
 <2>17. CASE ~node[f].contiguous
  <3> DEFINE x == Linking(p, c)
             r == <<h>> \o t
  <3>1. LinkNext(g.prev, c) = <<x>> /\ x.k = "fat" BY <1>3, <2>15, <2>17 DEF LinkNext, SetNext, Nd, Linking
  <3> HIDE DEF x
  <3>2. (<<x>> \o <<h>>) \o t = <<x>> \o r BY <1>7, ListedOne, ConcatAssoc
  <3>3. Listed(r) /\ r # <<>> /\ Head(r) = h /\ Tail(r) = t BY <1>7, InFront
  <3>4. Continue(<<x>> \o r) BY <2>1, <3>1, <3>2
  <3> HIDE DEF r
  <3>5. Listed(todo') /\ todo' # <<>> /\ Now' = x /\ Tail(todo') = r /\ file' = file BY <3>1, <3>3, <3>4, GoesOn
  <3>6. FatLink(x, r, ch2, own2)'
   <4>1. Looping(h, t, ch2, own2)' BY <2>12, <3>5
   <4> DEFINE k == h.cur + h.got
   <4>2. k >= 2 /\ k - 1 = n /\ k - 2 = n - 1 BY <2>11
   <4>3. Strung(node[f], z, k - 1)' /\ x = Linking(z[k - 2], z[k - 1]) BY <2>8, <2>10, <2>14, <4>2 DEF x
   <4> HIDE DEF k
   <4> QED BY <1>3, <1>6, <2>7, <2>17, <3>3, <3>5, <4>1, <4>2, <4>3 DEF FatLink, Nd, k
  <3>7. AtFat(Now, Tail(todo), ch2, own2)' BY <1>3, <1>4, <3>5, <3>6 DEF AtFat
  <3>8. Busy(ch2, own2)' BY <3>1, <3>5, <3>7, AtThat
  <3> QED BY <2>13, <3>5, <3>8
 <2>18. CASE node[f].contiguous /\ c # p + 1
  <3> DEFINE x == Stage("noncontiguous")
             y == Linking(p, c)
             v == <<y>> \o (<<h>> \o t)
             l == Links(z, 0, n - 1)
  <3>0. z[0] \in Nat
   <4>1. z[0] \in Clusters BY <2>8
   <4> QED BY <4>1, ClusterNums
  <3>1. \A i \in 0..n - 1 : z[i] = z[0] + i
   <4>1. Segment(node[f], z, 0, n) BY <2>10 DEF Strung
   <4> QED BY <1>7, <2>8, <2>18, <4>1, ContiguousAt
  <3>2. p - node[f].start = n - 1
   <4>1. n - 1 \in 0..n - 1 BY <1>7
   <4>2. z[n - 1] = z[0] + (n - 1) BY <3>1, <4>1
   <4>3. p = node[f].start + (n - 1) /\ node[f].start = z[0] BY <1>5, <2>10, <2>14, <4>2
   <4> QED BY <1>7, <3>0, <4>3
  <3>3. [j \in 1..p - node[f].start |-> [k |-> "fat", c |-> node[f].start + j - 1, next |-> node[f].start + j]] = l
   <4>1. ASSUME NEW j \in 1..n - 1 PROVE node[f].start + j - 1 = z[0 + j - 1] /\ node[f].start + j = z[0 + j]
    <5>1. j - 1 \in 0..n - 1 /\ j \in 0..n - 1 /\ 0 + j - 1 = j - 1 /\ 0 + j = j BY <1>7
    <5>2. z[j - 1] = z[0] + (j - 1) /\ z[j] = z[0] + j BY <3>1, <5>1
    <5>3. node[f].start = z[0] BY <1>5, <2>10
    <5> QED BY <3>0, <5>1, <5>2, <5>3
   <4>2. (n - 1) - 0 = n - 1 BY <1>7
   <4> QED BY <3>2, <4>1, <4>2 DEF Links, Linking
  <3>4. LinkNext(g.prev, c) = l \o <<x, y>> BY <1>3, <2>15, <2>18, <3>3 DEF LinkNext, Nd, Stage, Linking
  <3>5. x.k = "noncontiguous" /\ y.k = "fat" BY DEF Stage, Linking
  <3>6. Listed(l) BY <1>7, LinksIs
  <3> HIDE DEF x, y, l
  <3>7. ((l \o <<x, y>>) \o <<h>>) \o t = l \o (<<x>> \o v) /\ Listed(v)
   <4>1. PICK a : a = <<x, y>> OBVIOUS
   <4>2. Listed(a)
    <5>1. <<x, y>> \in Seq({x, y}) OBVIOUS
    <5> QED BY <4>1, <5>1, ListedOf
   <4>3. Listed(<<h>>) /\ Listed(<<h>> \o t) BY <1>7, ListedOne, InFront
   <4>4. Listed(l \o a) BY <3>6, <4>2, ListedConcat
   <4>5. ((l \o a) \o <<h>>) \o t = (l \o a) \o (<<h>> \o t) BY <1>7, <4>3, <4>4, ConcatAssoc
   <4>6. (l \o a) \o (<<h>> \o t) = l \o (a \o (<<h>> \o t)) BY <3>6, <4>2, <4>3, ConcatAssoc
   <4>7. PICK b : b = <<h>> \o t OBVIOUS
   <4>8. <<x, y>> \o b = <<x>> \o (<<y>> \o b) BY <4>3, <4>7, FrontPair
   <4>9. a \o b = <<x>> \o (<<y>> \o b) BY <4>1, <4>8
   <4>10. Listed(<<y>> \o b) BY <4>3, <4>7, InFront
   <4> HIDE DEF v
   <4>11. v = <<y>> \o b BY <4>7 DEF v
   <4> QED BY <4>1, <4>5, <4>6, <4>7, <4>9, <4>10, <4>11
  <3> DEFINE u == l \o (<<x>> \o v)
  <3>8. Continue(u) BY <2>1, <3>4, <3>7
  <3> HIDE DEF v, u
  <3>9. /\ todo' = u /\ Listed(todo') /\ todo' # <<>> /\ file' = file
        /\ Now'.k \in {"fat", "noncontiguous"}
   <4>1. CASE n - 1 = 0
    <5>1. Leads(Links(z, 0, 0) \o (<<x>> \o v), x, v) BY <3>5, <3>7, SpreadLast
    <5>2. Leads(u, x, v) BY <4>1, <5>1 DEF u, l
    <5> QED BY <3>5, <3>8, <5>2, ContinueIs
   <4>2. CASE n - 1 # 0
    <5>1. Listed(<<x>> \o v) /\ 0 < n - 1 BY <1>7, <3>7, <4>2, InFront
    <5>2. PICK q, w : q = Linking(z[0], z[0 + 1]) /\ w = Links(z, 0 + 1, n - 1) \o (<<x>> \o v) OBVIOUS
    <5>3. Leads(Links(z, 0, n - 1) \o (<<x>> \o v), q, w) BY <1>7, <5>1, <5>2, SpreadMore
    <5>4. Leads(u, q, w) /\ q.k = "fat" BY <5>2, <5>3 DEF u, l, Linking
    <5> QED BY <3>8, <5>4, ContinueIs
   <4> QED BY <4>1, <4>2
  <3>10. Looping(h, t, ch2, own2)' BY <2>12, <3>9
  <3>11. Spreading(todo, ch2, own2)'
   <4> DEFINE k == h.cur + h.got
   <4>1. k >= 2 /\ k - 1 = n /\ k - 2 = n - 1 /\ 0 \in 0..k - 2 BY <1>7, <2>11
   <4>2. todo' = Links(z, 0, k - 2) \o (<<Stage("noncontiguous")>> \o (<<Linking(z[k - 2], z[k - 1])>> \o (<<h>> \o t)))
    BY <2>8, <2>10, <2>14, <3>9, <4>1 DEF u, l, v, x, y
   <4>3. Strung(node[f], z, k - 1)' /\ node'[f].contiguous BY <1>6, <2>10, <2>18, <4>1
   <4>4. \A i \in 0..0 - 1 : fat'[z[i]] = z[i + 1] OBVIOUS
   <4>5. file' \in Files /\ file' = f BY <1>3, <1>4, <3>9
   <4> HIDE DEF k
   <4> QED BY <2>7, <3>10, <4>1, <4>2, <4>3, <4>4, <4>5 DEF Spreading, Nd, k
  <3>12. AtFat(Now, Tail(todo), ch2, own2)' BY <1>3, <1>4, <3>9, <3>11 DEF AtFat
  <3>13. Busy(ch2, own2)' BY <3>9, <3>11, <3>12, AtThat
  <3> QED BY <2>13, <3>9, <3>13
 <2> QED BY <2>16, <2>17, <2>18
<1> QED BY <1>12, <1>13, <1>14

\* What follows a shrink depends on the state and the size of the node only.
LEMMA AfterCutKept == ASSUME NEW t, NEW n, AfterCut(t, n), Nd'.state = Nd.state, Nd'.size = Nd.size PROVE AfterCut(t, n)'
BY ResizeKept DEF AfterCut

\* A node matches its entry as loosely as before when neither changes.
LEMMA LooseKept == ASSUME NEW f, Loose(f), entry' = entry, node'[f].state = node[f].state,
           node'[f].start = node[f].start, node'[f].size = node[f].size,
           node'[f].contiguous <=> node[f].contiguous, node'[f].dirty <=> node[f].dirty PROVE Loose(f)'
BY DEF Loose, Listing, Matches

\* A node that became dirty need not match its entry.
LEMMA LooseDirty == ASSUME NEW f, Loose(f), entry' = entry, node'[f].state = node[f].state, node'[f].dirty PROVE Loose(f)'
BY DEF Loose, Listing

\* make_noncontiguous has written the links of what was contiguous.
LEMMA NoncontiguousStep == ASSUME NEW ch, NEW own, Typed, Layout(ch, own), Noncontiguous PROVE Typed' /\ Layout(ch, own)'
<1>1. todo # <<>> /\ Doing("noncontiguous") /\ Now.k = "noncontiguous" BY DEF Noncontiguous, Doing, Now
<1>2. Spreading(todo, ch, own) BY <1>1, AtWhich DEF Layout
<1>3. PICK f : f = file OBVIOUS
<1>4. PICK g, r, j :
       LET n == g.cur + g.got
           s == ch[file]
       IN
       /\ file \in Files /\ Looping(g, r, ch, own)
       /\ n >= 2 /\ j \in 0..n - 2
       /\ todo = Links(s, j, n - 2) \o (<<Stage("noncontiguous")>> \o (<<Linking(s[n - 2], s[n - 1])>> \o (<<g>> \o r)))
       /\ Nd.contiguous /\ Strung(Nd, s, n - 1)
       /\ \A i \in 0..j - 1 : fat[s[i]] = s[i + 1] BY <1>2 DEF Spreading
<1>5. PICK n, s : n = g.cur + g.got /\ s = ch[f] OBVIOUS
<1> DEFINE x == Stage("noncontiguous")
           y == Linking(s[n - 2], s[n - 1])
           v == <<y>> \o (<<g>> \o r)
<1>6. /\ f \in Files /\ Looping(g, r, ch, own) /\ n >= 2 /\ j \in 0..n - 2
      /\ todo = Links(s, j, n - 2) \o (<<x>> \o v)
      /\ Strung(node[f], s, n - 1) /\ \A i \in 0..j - 1 : fat[s[i]] = s[i + 1] BY <1>3, <1>4, <1>5 DEF Nd
<1>7. /\ g.cur = node[f].size /\ g.got \in Nat /\ g.left \in Nat
      /\ n + g.left <= MaxSize /\ g.prev = s[n - 1] /\ own[f] = 0..n - 1
      /\ node[f].start = s[0] /\ Pointed(node[f], s, n)
      /\ node[f].state = "linked" /\ Loose(f) /\ NoCatch(r) /\ Resize(r, n + g.left)
      /\ DOMAIN g = {"k", "prev", "cur", "left", "got"} /\ g.k = "growLoop" BY <1>3, <1>5, <1>6 DEF Looping, Nd
<1>8. Listed(r) /\ IsNode(node[f]) /\ n \in Nat /\ s \in [Nat -> Clusters] /\ n - 2 \in Nat /\ j \in Nat /\ j <= n - 2
 <2>1. Listed(r) /\ IsNode(node[f]) /\ g.cur \in Nat BY <1>6, <1>7, NodeFacts DEF Resize
 <2>2. n \in Nat /\ n - 2 \in Nat /\ j \in Nat /\ j <= n - 2
  <3>1. n \in Nat
   <4>1. PICK a, b : a = g.cur /\ b = g.got OBVIOUS
   <4>2. a \in Nat /\ b \in Nat /\ n = a + b BY <1>5, <1>7, <2>1, <4>1
   <4> QED BY <4>2
  <3>2. n >= 2 /\ j \in 0..n - 2 BY <1>6
  <3> QED BY <3>1, <3>2
 <2> QED BY <1>5, <1>6, <2>1, <2>2 DEF Layout, Ghosts
<1>9. x.k = "noncontiguous" /\ y.k = "fat" BY DEF Stage, Linking
<1>10. Listed(<<g>> \o r) /\ <<g>> \o r # <<>> /\ Head(<<g>> \o r) = g /\ Tail(<<g>> \o r) = r BY <1>8, InFront
<1> HIDE DEF x, y
<1>11. Listed(v) /\ Leads(v, y, <<g>> \o r)
 <2>1. PICK w : w = <<g>> \o r OBVIOUS
 <2>2. Leads(<<y>> \o w, y, w) BY <1>9, <1>10, <2>1, InFrontLeads
 <2> QED BY <2>1, <2>2 DEF Leads
<1> HIDE DEF v
<1>12. j = n - 2 /\ Tail(todo) = v
 <2>1. CASE j < n - 2
  <3>1. Listed(<<x>> \o v) BY <1>11, InFront
  <3>2. Leads(Links(s, j, n - 2) \o (<<x>> \o v), Linking(s[j], s[j + 1]), Links(s, j + 1, n - 2) \o (<<x>> \o v))
   BY <1>8, <2>1, <3>1, SpreadMore
  <3>3. Head(todo) = Linking(s[j], s[j + 1]) BY <1>6, <3>2 DEF Leads
  <3>4. Head(todo).k = "fat" BY <3>3 DEF Linking
  <3> QED BY <1>1, <3>4 DEF Now
 <2>2. CASE j = n - 2
  <3>1. Leads(Links(s, n - 2, n - 2) \o (<<x>> \o v), x, v) BY <1>8, <1>9, <1>11, SpreadLast
  <3> QED BY <1>6, <2>2, <3>1 DEF Leads
 <2> QED BY <1>8, <2>1, <2>2
<1>13. UNCHANGED <<cmap, cmapDirty, fat, bitmap, entry, data, want, safe>> BY DEF Noncontiguous, disk, History
<1> DEFINE m == [node[f] EXCEPT !.contiguous = FALSE, !.dirty = TRUE]
<1>14. SetNode(m) /\ Continue(<<>> \o v) BY <1>3, <1>12 DEF Noncontiguous, Goto, Nd
<1>15. Continue(v) BY <1>11, <1>14, ConcatNil
<1>16. todo' = v /\ Listed(todo') /\ todo' # <<>> /\ Now' = y /\ Tail(todo') = <<g>> \o r /\ file' = file
 BY <1>11, <1>15, ContinueIs
<1>17. /\ DOMAIN m = DOMAIN node[f] /\ m.start = node[f].start /\ m.size = node[f].size /\ m.valid = node[f].valid
       /\ m.state = node[f].state /\ m.at = node[f].at /\ m.ptr = node[f].ptr BY <1>8 DEF IsNode
<1>18. m.dirty BY <1>8 DEF IsNode
<1>19. ~m.contiguous BY <1>8 DEF IsNode
<1>20. OnlyNode(f) /\ node'[f] = m BY <1>3, <1>6, <1>14, SetNodeIs
<1> HIDE DEF m
<1>21. IsNode(m) BY <1>8, <1>17 DEF IsNode
<1>22. Loose(f)' BY <1>7, <1>13, <1>17, <1>18, <1>20, LooseDirty
<1>23. Strung(node[f], s, n - 1)'
 <2>1. ASSUME NEW i \in Nat, i + 1 < n - 1 PROVE NextCluster(node[f], s[i])' = s[i + 1]
  <3>1. i \in 0..j - 1 BY <1>8, <1>12, <2>1
  <3>2. fat[s[i]] = s[i + 1] BY <1>6, <3>1
  <3>3. ~Invalid(s[i]) BY <1>8, ClusterNums
  <3> QED BY <1>13, <1>19, <1>20, <3>2, <3>3 DEF NextCluster, Invalid
 <2>2. node'[f].start = s[0] /\ n - 1 # 0 BY <1>7, <1>6, <1>8, <1>17, <1>20
 <2>3. Segment(node[f], s, 0, n - 1)' BY <2>1 DEF Segment
 <2> QED BY <2>2, <2>3 DEF Strung
<1>24. Pointed(node[f], s, n)' BY <1>7, <1>17, <1>20, PointedKept
<1>25. Resize(r, n + g.left)' BY <1>3, <1>7, <1>16, <1>17, <1>20, ResizeKept DEF Nd
<1>26. Looping(g, r, ch, own)'
 <2>1. /\ g.cur = node'[f].size /\ node'[f].start = s[0] /\ node'[f].state = "linked" /\ n >= 1 BY <1>6, <1>7, <1>8, <1>17, <1>20
 <2> QED BY <1>3, <1>5, <1>7, <1>16, <1>22, <1>24, <1>25, <2>1 DEF Looping, Nd
<1>27. FatLink(y, <<g>> \o r, ch, own)' BY <1>3, <1>5, <1>6, <1>10, <1>16, <1>19, <1>20, <1>23, <1>26 DEF FatLink, Nd, y
<1>28. AtFat(Now, Tail(todo), ch, own)' BY <1>3, <1>6, <1>16, <1>27 DEF AtFat
<1>29. Busy(ch, own)' BY <1>9, <1>16, <1>28, AtThat
<1> QED BY <1>3, <1>6, <1>13, <1>16, <1>20, <1>21, <1>29, Settling

\* grow_file returns that there is no space.
LEMMA NoSpaceStep == ASSUME NEW ch, NEW own, Typed, Layout(ch, own), NoSpace PROVE Typed' /\ Layout(ch, own)'
<1>1. todo # <<>> /\ Doing("fail") /\ Now.k = "fail" BY DEF NoSpace, Doing, Now
<1>2. AtFail(Now, Tail(todo), ch, own) BY <1>1, AtWhich DEF Layout
<1>3. PICK f, t : f = file /\ t = Tail(todo) OBVIOUS
<1>4. f \in Files /\ Quiet(f, ch, own) /\ NoCatch(t) BY <1>2, <1>3 DEF AtFail
<1>5. UNCHANGED <<node, cmap, cmapDirty, fat, bitmap, entry, data, want, safe>> /\ Bail BY DEF NoSpace, Memory, disk, History
<1>6. Listed(todo) /\ Listed(t) /\ todo = <<Now>> \o t BY <1>1, <1>3, InCall
<1>7. NoCatch(todo)
 <2>1. PICK x : x = Now OBVIOUS
 <2>2. NoCatch(<<x>> \o t) BY <1>1, <1>4, <1>6, <2>1, NoCatchInFront
 <2> QED BY <1>6, <2>1, <2>2
<1>8. todo' = <<>> /\ Listed(todo') /\ file' = NoFile BY <1>5, <1>6, <1>7, BailEnds
<1>9. Quiet(f, ch, own)' /\ OnlyNode(f) /\ IsNode(node'[f]) BY <1>4, <1>5, AllKept, KeptNode, NodeFacts
<1>10. Busy(ch, own)' BY <1>8 DEF Busy
<1> QED BY <1>3, <1>4, <1>5, <1>8, <1>9, <1>10, Settling

\* A part of a chain, and of what is linked.
LEMMA StrungShorter == ASSUME NEW nd, NEW s, NEW n \in Nat \ {0}, NEW k \in Nat \ {0}, k <= n, Strung(nd, s, n)
    PROVE  Strung(nd, s, k)
<1>1. ASSUME NEW i \in Nat, 0 <= i, i + 1 < k PROVE NextCluster(nd, s[i]) = s[i + 1]
 <2>1. i + 1 < n BY <1>1
 <2> QED BY <1>1, <2>1 DEF Strung, Segment
<1> QED BY <1>1 DEF Strung, Segment

\* A part of a stretch of links is a stretch of links.
LEMMA SegmentShorter ==
    ASSUME NEW nd, NEW s, NEW a \in Nat, NEW b \in Int, NEW c \in Nat, NEW d \in Int, a <= c, d <= b, Segment(nd, s, a, b)
    PROVE  Segment(nd, s, c, d)
<1>1. ASSUME NEW i \in Nat, c <= i, i + 1 < d PROVE NextCluster(nd, s[i]) = s[i + 1]
 <2>1. a <= i /\ i + 1 < b BY <1>1
 <2> QED BY <2>1 DEF Segment
<1> QED BY <1>1 DEF Segment

\* shrink_file begins.
LEMMA ShrinkStartStep == ASSUME NEW ch, NEW own, Typed, Layout(ch, own), ShrinkStart PROVE Typed' /\ Layout(ch, own)'
<1>1. todo # <<>> /\ Doing("shrink") BY DEF ShrinkStart, Doing
<1>2. AtShrink(Now, Tail(todo), ch, own) BY <1>1, AtWhich DEF Layout
<1>3. PICK f, t, n, d, k, s : f = file /\ t = Tail(todo) /\ n = Now.cur /\ d = Now.diff /\ k = n - d /\ s = ch[f] OBVIOUS
<1>4. /\ f \in Files /\ n \in 1..MaxSize /\ d \in 1..n
      /\ Sized(f, ch, own, n) /\ Loose(f) /\ AfterCut(t, k) BY <1>2, <1>3 DEF AtShrink
<1>5. UNCHANGED <<cmap, cmapDirty, fat, bitmap, entry, data, want, safe>> BY DEF ShrinkStart, disk, History
<1>6. /\ Listed(t) /\ IsNode(node[f]) /\ s \in [Nat -> Clusters] /\ node[f].at \in Nat
      /\ own[f] = 0..n - 1 /\ Strung(node[f], s, n) /\ Pointed(node[f], s, n) /\ node[f].size <= MaxSize
 <2>1. Listed(t) /\ IsNode(node[f]) /\ node[f].at \in Nat /\ node[f].size <= MaxSize BY <1>1, <1>3, <1>4, InCall, NodeFacts
 <2> QED BY <1>3, <1>4, <2>1 DEF Layout, Ghosts, Sized
<1>7. MaxSize \in Nat /\ n \in Nat \ {0} /\ d \in Nat \ {0} /\ k \in Nat /\ k < n /\ k + d = n /\ k <= MaxSize /\ d <= MaxSize
 <2>1. MaxSize \in Nat BY <1>4, NodeFacts
 <2>2. n \in 1..MaxSize /\ d \in 1..n /\ k = n - d BY <1>3, <1>4
 <2> QED BY <2>1, <2>2
<1>8. node[f].start = s[0] /\ s[0] # FREE /\ Segment(node[f], s, 0, n)
 <2>1. node[f].start = s[0] /\ Segment(node[f], s, 0, n) BY <1>6, <1>7 DEF Strung
 <2>2. s[0] \in Clusters BY <1>6
 <2> QED BY <2>1, <2>2, ClusterNums
<1>9. CASE k > 0
 <2> DEFINE m == Moved(node[f], k - 1)
            h == [k |-> "rewind", c |-> s[k], left |-> d]
 <2>1. k - 1 \in Nat /\ k - 1 < n /\ k \in Nat \ {0} /\ k \in 1..MaxSize /\ (k - 1) + 1 = k BY <1>7, <1>9
 <2>2. Advance(node[f], k - 1) = s[k - 1] /\ ~AdvanceBugs(node[f], k - 1)
  <3>1. n \in Nat BY <1>7
  <3> QED BY <1>6, <2>1, <3>1, AdvanceIs
 <2>3. ~Invalid(s[k - 1]) BY <1>6, <2>1, ClusterNums
 <2>4. NextCluster(node[f], s[k - 1]) = s[k]
  <3>1. (k - 1) + 1 < n /\ 0 <= k - 1 BY <1>7, <2>1
  <3> QED BY <1>8, <2>1, <3>1 DEF Segment
 <2>5. SetNode(m) /\ Continue((SetNext(node[f].contiguous, s[k - 1], END) \o <<h>>) \o t)
  <3>1. ShrinkStart /\ node[f].start # FREE /\ Now.cur - Now.diff = k /\ Now.diff = d BY <1>3, <1>8
  <3> QED BY <1>3, <1>9, <2>2, <2>3, <2>4, <3>1 DEF ShrinkStart, Goto, Nd
 <2>6. OnlyNode(f) /\ node'[f] = m BY <1>3, <1>4, <2>5, SetNodeIs
 <2>7. /\ IsNode(m) /\ m.at = k - 1 /\ m.ptr = s[k - 1] /\ m.start = node[f].start
       /\ m.size = node[f].size /\ m.state = node[f].state
  <3>1. n \in Nat BY <1>7
  <3> QED BY <1>6, <2>1, <3>1, MovedIs
 <2>8. m.contiguous = node[f].contiguous
  <3>1. n \in Nat BY <1>7
  <3> QED BY <1>6, <2>1, <3>1, MovedIs
 <2>9. m.dirty = node[f].dirty
  <3>1. n \in Nat BY <1>7
  <3> QED BY <1>6, <2>1, <3>1, MovedIs
 <2>10. h.k = "rewind" /\ h.c = s[k] /\ h.left = d /\ DOMAIN h = {"k", "c", "left"} OBVIOUS
 <2> HIDE DEF m, h
 <2>11. Loose(f)' BY <1>4, <1>5, <2>6, <2>7, <2>8, <2>9, LooseKept
 <2>12. Strung(node[f], s, k)' /\ Segment(node[f], s, k, n)'
  <3>1. Strung(node[f], s, k) BY <1>6, <1>7, <2>1, StrungShorter
  <3>2. Strung(node[f], s, k)'
   <4>1. \A i \in Nat : i + 1 < k => fat'[s[i]] = fat[s[i]] BY <1>5
   <4>2. node'[f].start = node[f].start /\ (node'[f].contiguous <=> node[f].contiguous) BY <2>6, <2>7, <2>8
   <4> QED BY <1>4, <1>6, <1>7, <3>1, <4>1, <4>2, StrungKept
  <3>3. Segment(node[f], s, k, n)
   <4>1. 0 \in Nat /\ 0 <= k /\ n <= n /\ n \in Int BY <1>7
   <4> QED BY <1>7, <1>8, <4>1, SegmentShorter
  <3>4. Segment(node[f], s, k, n)'
   <4>1. n \in Int /\ \A i \in Nat : k <= i /\ i + 1 < n => fat'[s[i]] = fat[s[i]] BY <1>5, <1>7
   <4>2. node'[f].contiguous <=> node[f].contiguous BY <2>6, <2>8
   <4> QED BY <1>4, <1>6, <1>7, <3>3, <4>1, <4>2, SegmentKept
  <3> QED BY <3>2, <3>4
 <2>13. ASSUME file' = file PROVE Rewinding(h, t, ch, own, k)'
  <3>1. AfterCut(t, k)' BY <1>3, <1>4, <2>6, <2>7, <2>13, AfterCutKept DEF Nd
  <3>2. k \in 0..MaxSize /\ k # 0 /\ node'[f].size <= MaxSize BY <1>6, <1>7, <2>1, <2>6, <2>7
  <3>3. Shrinking(h, t, ch, own, k)' BY <1>3, <2>11, <2>12, <2>13, <3>1, <3>2 DEF Shrinking, Nd
  <3>4. own[f] = 0..k + h.left - 1 /\ Segment(node[f], s, k, k + h.left)' BY <1>6, <1>7, <2>10, <2>12
  <3> QED BY <1>3, <1>7, <2>10, <2>13, <3>3, <3>4 DEF Rewinding, Nd
 <2>14. CASE node[f].contiguous
  <3>1. Continue((<<>> \o <<h>>) \o t) BY <2>5, <2>14 DEF SetNext
  <3>2. <<>> \o <<h>> = <<h>> BY ListedOne, ConcatNil
  <3>3. Continue(<<h>> \o t) BY <3>1, <3>2
  <3>4. Listed(todo') /\ todo' # <<>> /\ Now' = h /\ Tail(todo') = t /\ file' = file BY <1>6, <2>10, <3>3, GoesOn
  <3>5. Rewinding(h, t, ch, own, k)' /\ k \in 0..MaxSize BY <1>7, <2>1, <2>13, <3>4
  <3>6. AtRewind(Now, Tail(todo), ch, own)' BY <1>3, <1>4, <3>4, <3>5 DEF AtRewind
  <3>7. Busy(ch, own)' BY <2>10, <3>4, <3>6, AtThat
  <3> QED BY <1>3, <1>4, <1>5, <2>6, <2>7, <3>4, <3>7, Settling
 <2>15. CASE ~node[f].contiguous
  <3> DEFINE x == Linking(s[k - 1], END)
             r == <<h>> \o t
  <3>1. Continue((<<x>> \o <<h>>) \o t) /\ x.k = "fat" BY <2>5, <2>15 DEF SetNext, Linking
  <3> HIDE DEF x
  <3>2. (<<x>> \o <<h>>) \o t = <<x>> \o r
   <4>1. Listed(<<x>>) /\ Listed(<<h>>) BY ListedOne
   <4> QED BY <1>6, <4>1, ConcatAssoc
  <3>3. Listed(r) /\ r # <<>> /\ Head(r) = h /\ Tail(r) = t BY <1>6, InFront
  <3>4. Continue(<<x>> \o r) BY <3>1, <3>2
  <3> HIDE DEF r
  <3>5. Listed(todo') /\ todo' # <<>> /\ Now' = x /\ Tail(todo') = r /\ file' = file BY <3>1, <3>3, <3>4, GoesOn
  <3>6. Rewinding(h, t, ch, own, k)' BY <2>13, <3>5
  <3>7. FatCut(x, r, ch, own)' BY <1>3, <2>1, <3>3, <3>5, <3>6 DEF FatCut, x
  <3>8. AtFat(Now, Tail(todo), ch, own)' BY <1>3, <1>4, <3>5, <3>7 DEF AtFat
  <3>9. Busy(ch, own)' BY <3>1, <3>5, <3>8, AtThat
  <3> QED BY <1>3, <1>4, <1>5, <2>6, <2>7, <3>5, <3>9, Settling
 <2> QED BY <2>14, <2>15
<1>10. CASE ~(k > 0)
 <2> DEFINE m == [node[f] EXCEPT !.start = FREE, !.dirty = TRUE]
            h == [k |-> "rewind", c |-> s[0], left |-> d]
 <2>1. k = 0 /\ d = n BY <1>7, <1>10
 <2>2. SetNode(m) /\ Continue(<<h>> \o t)
  <3>1. ShrinkStart /\ node[f].start # FREE /\ Now.cur - Now.diff = k /\ Now.diff = d BY <1>3, <1>8
  <3> QED BY <1>3, <1>8, <1>10, <3>1 DEF ShrinkStart, Goto, Nd
 <2>3. OnlyNode(f) /\ node'[f] = m BY <1>3, <1>4, <2>2, SetNodeIs
 <2>4. /\ DOMAIN m = DOMAIN node[f] /\ m.start = FREE /\ m.size = node[f].size /\ m.valid = node[f].valid
       /\ m.state = node[f].state /\ m.at = node[f].at /\ m.ptr = node[f].ptr BY <1>6 DEF IsNode
 <2>5. m.contiguous = node[f].contiguous BY <1>6 DEF IsNode
 <2>6. m.dirty BY <1>6 DEF IsNode
 <2>7. h.k = "rewind" /\ h.c = s[0] /\ h.left = d /\ DOMAIN h = {"k", "c", "left"} OBVIOUS
 <2> HIDE DEF m, h
 <2>8. IsNode(m) BY <1>6, <2>4 DEF IsNode
 <2>9. Loose(f)' BY <1>4, <1>5, <2>3, <2>4, <2>6, LooseDirty
 <2>10. Listed(todo') /\ todo' # <<>> /\ Now' = h /\ Tail(todo') = t /\ file' = file BY <1>6, <2>2, <2>7, GoesOn
 <2>11. Strung(node[f], s, 0)'
  <3>1. \A i \in Nat : ~(0 <= i /\ i + 1 < 0) OBVIOUS
  <3> QED BY <2>3, <2>4, <3>1 DEF Strung, Segment
 <2>12. Segment(node[f], s, 0, n)'
  <3>1. 0 \in Nat /\ n \in Int /\ \A i \in Nat : 0 <= i /\ i + 1 < n => fat'[s[i]] = fat[s[i]] BY <1>5, <1>7
  <3>2. node'[f].contiguous <=> node[f].contiguous BY <2>3, <2>5
  <3>3. PICK z \in Nat : z = 0 OBVIOUS
  <3>4. Segment(node[f], s, z, n)' BY <1>4, <1>6, <1>8, <3>1, <3>2, <3>3, SegmentKept
  <3> QED BY <3>3, <3>4
 <2>13. Rewinding(h, t, ch, own, 0)'
  <3>1. AfterCut(t, 0)'
   <4>1. AfterCut(t, k)' BY <1>3, <1>4, <2>3, <2>4, <2>10, AfterCutKept DEF Nd
   <4> QED BY <2>1, <4>1
  <3>2. 0 \in 0..MaxSize /\ node'[f].size <= MaxSize BY <1>6, <1>7, <2>3, <2>4
  <3>3. Shrinking(h, t, ch, own, 0)' BY <1>3, <2>3, <2>6, <2>9, <2>10, <2>11, <3>1, <3>2 DEF Shrinking, Nd
  <3>4. own[f] = 0..0 + h.left - 1 /\ Segment(node[f], s, 0, 0 + h.left)' /\ h.left \in Nat \ {0}
   <4>1. 0 + h.left = n BY <1>7, <2>1, <2>7
   <4> QED BY <1>6, <1>7, <2>1, <2>7, <2>12, <4>1
  <3> QED BY <1>3, <2>7, <2>10, <3>3, <3>4 DEF Rewinding, Nd
 <2>14. AtRewind(Now, Tail(todo), ch, own)'
  <3>1. 0 \in 0..MaxSize BY <1>7
  <3> QED BY <1>3, <1>4, <2>10, <2>13, <3>1 DEF AtRewind
 <2>15. Busy(ch, own)' BY <2>7, <2>10, <2>14, AtThat
 <2> QED BY <1>3, <1>4, <1>5, <2>3, <2>8, <2>10, <2>15, Settling
<1> QED BY <1>9, <1>10

\* The part of a file that shrink_file keeps stays as it is.
LEMMA ShrinkingKept == ASSUME NEW ch, NEW own, NEW f \in Files, f = file, file' = file, NEW s \in [Nat -> Clusters], s = ch[f],
           NEW g, NEW g2, NEW own2, NEW t, NEW n, Shrinking(g, t, ch, own, n), entry' = entry,
           node'[f].state = node[f].state, node'[f].start = node[f].start, node'[f].size = node[f].size,
           node'[f].contiguous <=> node[f].contiguous, node'[f].dirty <=> node[f].dirty, MaxSize \in Nat,
           \A i \in Nat : i + 1 < n => fat'[s[i]] = fat[s[i]] PROVE Shrinking(g2, t, ch, own2, n)'
<1>1. n \in 0..MaxSize /\ node[f].size <= MaxSize /\ Strung(node[f], s, n) /\ Loose(f) /\ (n = 0 => node[f].dirty) /\ AfterCut(t, n)
 BY DEF Shrinking, Nd
<1>2. n \in Nat BY <1>1
<1>3. Strung(node[f], s, n)' BY <1>1, <1>2, StrungKept
<1>4. Loose(f)' BY <1>1, LooseKept
<1>5. AfterCut(t, n)' BY <1>1, AfterCutKept DEF Nd
<1> QED BY <1>1, <1>3, <1>4, <1>5 DEF Shrinking, Nd

\* shrink_file forgets the remembered place.
LEMMA RewindStep == ASSUME NEW ch, NEW own, Typed, Layout(ch, own), Rewind PROVE Typed' /\ Layout(ch, own)'
<1>1. todo # <<>> /\ Doing("rewind") BY DEF Rewind, Doing
<1>2. AtRewind(Now, Tail(todo), ch, own) BY <1>1, AtWhich DEF Layout
<1>3. PICK f, t, h, s : f = file /\ t = Tail(todo) /\ h = Now /\ s = ch[f] OBVIOUS
<1>4. PICK n \in 0..MaxSize : Rewinding(h, t, ch, own, n) BY <1>2, <1>3 DEF AtRewind
<1>5. f \in Files BY <1>2, <1>3 DEF AtRewind
<1>6. /\ DOMAIN h = {"k", "c", "left"} /\ h.left \in Nat \ {0} /\ Shrinking(h, t, ch, own, n)
      /\ own[f] = 0..n + h.left - 1 /\ Segment(node[f], s, n, n + h.left) /\ h.c = s[n] BY <1>3, <1>4 DEF Rewinding, Nd
<1>7. UNCHANGED <<cmap, cmapDirty, fat, bitmap, entry, data, want, safe>> BY DEF Rewind, disk, History
<1>8. Listed(t) /\ IsNode(node[f]) /\ s \in [Nat -> Clusters] /\ MaxSize \in Nat
 <2>1. Listed(t) /\ IsNode(node[f]) /\ MaxSize \in Nat BY <1>1, <1>3, <1>5, InCall, NodeFacts
 <2> QED BY <1>3, <1>5, <2>1 DEF Layout, Ghosts
<1>9. n \in Nat /\ n <= MaxSize BY <1>8
<1> DEFINE m == Rewound(node[f])
           g == [h EXCEPT !.k = "free"]
<1>10. SetNode(m) /\ Continue(<<g>> \o t) BY <1>3 DEF Rewind, Goto, Nd
<1>11. OnlyNode(f) /\ node'[f] = m BY <1>3, <1>5, <1>10, SetNodeIs
<1>12. /\ DOMAIN m = DOMAIN node[f] /\ m.start = node[f].start /\ m.size = node[f].size /\ m.valid = node[f].valid
       /\ m.state = node[f].state /\ m.at = 0 /\ m.ptr = node[f].start BY <1>8 DEF IsNode, Rewound
<1>13. m.contiguous = node[f].contiguous BY <1>8 DEF IsNode, Rewound
<1>14. m.dirty = node[f].dirty BY <1>8 DEF IsNode, Rewound
<1>15. DOMAIN g = {"k", "c", "left"} /\ g.k = "free" /\ g.left = h.left /\ g.c = h.c BY <1>6
<1> HIDE DEF m, g
<1>16. IsNode(m)
 <2>1. node[f].start \in Nat BY <1>8, ClusterNums DEF IsNode, FREE
 <2> QED BY <1>8, <1>12, <2>1 DEF IsNode
<1>17. Listed(todo') /\ todo' # <<>> /\ Now' = g /\ Tail(todo') = t /\ file' = file BY <1>8, <1>10, <1>15, GoesOn
<1>18. Shrinking(g, t, ch, own, n)'
 <2>1. \A i \in Nat : i + 1 < n => fat'[s[i]] = fat[s[i]] BY <1>7
 <2>2. /\ node'[f].state = node[f].state /\ node'[f].start = node[f].start /\ node'[f].size = node[f].size
       /\ entry' = entry BY <1>7, <1>11, <1>12
 <2>3. (node'[f].contiguous <=> node[f].contiguous) /\ (node'[f].dirty <=> node[f].dirty) BY <1>11, <1>13, <1>14
 <2> QED BY <1>3, <1>5, <1>6, <1>8, <1>17, <2>1, <2>2, <2>3, ShrinkingKept
<1>19. Pointed(node[f], s, n)'
 <2>1. node[f].start = (IF n = 0 THEN FREE ELSE s[0]) BY <1>3, <1>6 DEF Shrinking, Strung, Nd
 <2>2. CASE n = 0 BY <1>11, <1>12, <2>1, <2>2 DEF Pointed
 <2>3. CASE n # 0
  <3>1. 0 < n BY <1>9, <2>3
  <3> QED BY <1>11, <1>12, <2>1, <2>3, <3>1 DEF Pointed
 <2> QED BY <2>2, <2>3
<1>20. Segment(node[f], s, n, n + h.left)'
 <2>1. n + h.left \in Int BY <1>6, <1>9
 <2>2. \A i \in Nat : n <= i /\ i + 1 < n + h.left => fat'[s[i]] = fat[s[i]] BY <1>7
 <2>3. node'[f].contiguous <=> node[f].contiguous BY <1>11, <1>13
 <2> QED BY <1>5, <1>6, <1>8, <1>9, <2>1, <2>2, <2>3, SegmentKept
<1>21. own[f] = (0..n - 1) \cup (n..n + g.left - 1)
 <2>1. PICK l : l = h.left OBVIOUS
 <2>2. l \in Nat /\ own[f] = 0..n + l - 1 /\ g.left = l BY <1>6, <1>15, <2>1
 <2> QED BY <1>9, <2>2
<1>22. Freeing(g, t, ch, own, n, n, own[f])'
 <2>1. g.left \in Nat /\ n <= n BY <1>6, <1>9, <1>15
 <2> QED BY <1>3, <1>6, <1>9, <1>15, <1>17, <1>18, <1>19, <1>20, <1>21, <2>1 DEF Freeing, Nd
<1>23. AtFree(Now, Tail(todo), ch, own)' BY <1>3, <1>5, <1>9, <1>17, <1>22 DEF AtFree
<1>24. Busy(ch, own)' BY <1>15, <1>17, <1>23, AtThat
<1> QED BY <1>3, <1>5, <1>7, <1>11, <1>16, <1>17, <1>24, Settling

\* The clusters of shrink_file are given up; what it was called for goes on.
LEMMA CutGoes ==
    ASSUME NEW ch, NEW own, NEW f \in Files, f = file, NEW t, Listed(t), NEW n \in 0..MaxSize, AfterCut(t, n), Continue(t),
           Sized(f, ch, own, n)', Loose(f)', n = 0 => node'[f].dirty, node'[f].state = node[f].state, node'[f].size = node[f].size
    PROVE  Busy(ch, own)' /\ Listed(todo') /\ file' = f
<1>1. CASE Resize(t, n) BY <1>1, ResizeGoes
<1>2. CASE t # <<>> /\ Head(t) = Stage("fail") /\ NoCatch(Tail(t)) /\ Nd.size = n /\ Nd.state = "linked"
 <2> DEFINE x == Stage("fail")
 <2>1. x.k = "fail" BY DEF Stage
 <2>2. Listed(Tail(t)) /\ t = <<x>> \o Tail(t) BY <1>2, HeadFirst
 <2> HIDE DEF x
 <2>3. Listed(todo') /\ todo' # <<>> /\ Now' = x /\ Tail(todo') = Tail(t) /\ file' = file BY <2>1, <2>2, GoesOn
 <2>4. Settled(f, ch, own)'
  <3>1. node'[f].size = n BY <1>2 DEF Nd
  <3> QED BY <3>1 DEF Settled
 <2>5. Booked(f)'
  <3>1. node'[f].size = 0 => n = 0 BY <1>2 DEF Nd
  <3> QED BY <3>1 DEF Loose, Booked
 <2>6. node'[f].state = "linked" BY <1>2 DEF Nd
 <2>7. Quiet(f, ch, own)' BY <2>4, <2>5, <2>6 DEF Quiet
 <2>8. AtFail(Now, Tail(todo), ch, own)' BY <1>2, <2>3, <2>7 DEF AtFail
 <2>9. Busy(ch, own)' BY <2>1, <2>3, <2>8, AtThat
 <2> QED BY <2>3, <2>9
<1> QED BY <1>1, <1>2 DEF AfterCut

\* One turn of shrink_file's loop.
LEMMA FreeLoopStep == ASSUME NEW ch, NEW own, Typed, Layout(ch, own), FreeLoop PROVE Typed' /\ Layout(ch, own)'
<1>1. todo # <<>> /\ Doing("free") BY DEF FreeLoop, Doing
<1>2. AtFree(Now, Tail(todo), ch, own) BY <1>1, AtWhich DEF Layout
<1>3. PICK f, t, h, s, l : f = file /\ t = Tail(todo) /\ h = Now /\ s = ch[f] /\ l = h.left OBVIOUS
<1>4. PICK n \in 0..MaxSize, p \in Nat : Freeing(h, t, ch, own, n, p, own[f]) BY <1>2, <1>3 DEF AtFree
<1>5. f \in Files BY <1>2, <1>3 DEF AtFree
<1>6. /\ DOMAIN h = {"k", "c", "left"} /\ h.k = "free" /\ l \in Nat /\ Shrinking(h, t, ch, own, n)
      /\ Pointed(node[f], s, n) /\ n <= p /\ own[f] = (0..n - 1) \cup (p..p + l - 1)
      /\ Segment(node[f], s, p, p + l) /\ (l > 0 => h.c = s[p]) BY <1>3, <1>4 DEF Freeing, Nd
<1>7. UNCHANGED <<node, cmap, cmapDirty, fat, bitmap, entry, data, want, safe>> BY DEF FreeLoop, Memory, disk, History
<1>8. Listed(t) /\ IsNode(node[f]) /\ s \in [Nat -> Clusters] /\ MaxSize \in Nat
 <2>1. Listed(t) /\ IsNode(node[f]) /\ MaxSize \in Nat BY <1>1, <1>3, <1>5, InCall, NodeFacts
 <2> QED BY <1>3, <1>5, <2>1 DEF Layout, Ghosts
<1>9. n \in Nat /\ n <= MaxSize BY <1>8
<1>10. OnlyNode(f) /\ IsNode(node'[f]) BY <1>7, <1>8, KeptNode
<1>11. CASE l = 0
 <2>1. Continue(t)
  <3>1. Continue(<<>> \o t) BY <1>3, <1>11 DEF FreeLoop, Goto
  <3> QED BY <1>8, <3>1, ConcatNil
 <2>2. own[f] = 0..n - 1 BY <1>6, <1>9, <1>11
 <2>3. Strung(node[f], s, n) /\ Loose(f) /\ (n = 0 => node[f].dirty) /\ AfterCut(t, n) BY <1>3, <1>6 DEF Shrinking, Nd
 <2>4. Sized(f, ch, own, n) BY <1>3, <1>6, <2>2, <2>3 DEF Sized
 <2>5. Sized(f, ch, own, n)' /\ Loose(f)' BY <1>7, <2>3, <2>4, AllKept
 <2>6. (n = 0 => node'[f].dirty) /\ node'[f].state = node[f].state /\ node'[f].size = node[f].size BY <1>7, <2>3
 <2>7. Busy(ch, own)' /\ Listed(todo') /\ file' = f BY <1>3, <1>5, <1>8, <2>1, <2>3, <2>5, <2>6, CutGoes
 <2> QED BY <1>3, <1>5, <1>7, <1>10, <2>7, Settling
<1>12. CASE l # 0
 <2>1. l > 0 /\ l - 1 \in Nat /\ h.c = s[p] /\ p \in own[f] /\ p + 1 \in Nat /\ n <= p + 1
       /\ own[f] \ {p} = (0..n - 1) \cup (p + 1..(p + 1) + (l - 1) - 1)
       /\ (p + 1) + (l - 1) = p + l BY <1>6, <1>9, <1>12
 <2>2. ~Invalid(s[p]) BY <1>8, ClusterNums
 <2>3. l - 1 > 0 => NextCluster(node[f], s[p]) = s[p + 1] BY <1>6, <2>1 DEF Segment
 <2>a. PICK nx : nx = NextCluster(node[f], s[p]) OBVIOUS
 <2> DEFINE x == [k |-> "clear", c |-> s[p]]
            g == [h EXCEPT !.c = nx, !.left = @ - 1]
            r == <<g>> \o t
 <2>4. Continue((SetNext(node[f].contiguous, s[p], FREE) \o <<x, g>>) \o t)
  BY <1>3, <1>12, <2>1, <2>2, <2>a DEF FreeLoop, Goto, Nd
 <2>5. DOMAIN g = {"k", "c", "left"} /\ g.k = "free" /\ g.left = l - 1 /\ g.c = NextCluster(node[f], s[p]) BY <1>3, <1>6, <2>a
 <2>6. x.k = "clear" /\ x.c = s[p] OBVIOUS
 <2> HIDE DEF g
 <2>7. Listed(r) /\ r # <<>> /\ Head(r) = g /\ Tail(r) = t BY <1>8, InFront
 <2>8. <<x, g>> \o t = <<x>> \o r BY <1>8, FrontPair
 <2>9. ASSUME file' = file PROVE Freeing(g, t, ch, own, n, p + 1, own[f] \ {p})'
  <3>1. Shrinking(g, t, ch, own, n)'
   <4>1. \A i \in Nat : i + 1 < n => fat'[s[i]] = fat[s[i]] BY <1>7
   <4> QED BY <1>3, <1>5, <1>6, <1>7, <1>8, <2>9, <4>1, ShrinkingKept
  <3>2. Pointed(node[f], s, n)' BY <1>6, <1>7, PointedKept
  <3>3. Segment(node[f], s, p + 1, p + l)
   <4>1. p + l \in Int /\ p <= p + 1 /\ p + l <= p + l /\ p + 1 \in Nat BY <1>6
   <4> QED BY <1>6, <4>1, SegmentShorter
  <3>4. Segment(node[f], s, p + 1, (p + 1) + g.left)'
   <4>1. p + l \in Int /\ p + 1 \in Nat BY <1>6
   <4>2. \A i \in Nat : p + 1 <= i /\ i + 1 < p + l => fat'[s[i]] = fat[s[i]] BY <1>7
   <4>3. PICK q \in Nat : q = p + 1 BY <4>1
   <4>4. Segment(node[f], s, q, p + l)' BY <1>5, <1>7, <1>8, <3>3, <4>1, <4>2, <4>3, SegmentKept
   <4> QED BY <2>1, <2>5, <4>3, <4>4
  <3>5. own[f] \ {p} = (0..n - 1) \cup (p + 1..(p + 1) + g.left - 1) BY <2>1, <2>5
  <3>6. g.left \in Nat /\ (g.left > 0 => g.c = s[p + 1]) BY <2>1, <2>3, <2>5
  <3> QED BY <1>3, <1>7, <2>1, <2>5, <2>9, <3>1, <3>2, <3>4, <3>5, <3>6 DEF Freeing, Nd
 <2>10. ASSUME file' = file PROVE Clearing(x, r, ch, own)'
  <3>1. x = [k |-> "clear", c |-> s[p]] OBVIOUS
  <3> HIDE DEF x, r
  <3>2. n \in 0..MaxSize /\ p \in own[f] /\ n <= p BY <1>6, <2>1
  <3> QED BY <1>3, <2>7, <2>9, <2>10, <3>1, <3>2 DEF Clearing
 <2> HIDE DEF x, r
 <2>11. CASE node[f].contiguous
  <3>1. Continue((<<>> \o <<x, g>>) \o t) BY <2>4, <2>11 DEF SetNext
  <3>2. <<>> \o <<x, g>> = <<x, g>> OBVIOUS
  <3>3. Continue(<<x>> \o r) BY <2>8, <3>1, <3>2, Zenon
  <3>4. Listed(todo') /\ todo' # <<>> /\ Now' = x /\ Tail(todo') = r /\ file' = file BY <2>6, <2>7, <3>3, GoesOn
  <3>5. Clearing(x, r, ch, own)' BY <2>10, <3>4
  <3>6. AtClear(Now, Tail(todo), ch, own)' BY <1>3, <1>5, <3>4, <3>5 DEF AtClear
  <3>7. Busy(ch, own)' BY <2>6, <3>4, <3>6, AtThat
  <3> QED BY <1>3, <1>5, <1>7, <1>10, <3>4, <3>7, Settling
 <2>12. CASE ~node[f].contiguous
  <3> DEFINE y == Linking(s[p], FREE)
             v == <<x>> \o r
  <3>1. Continue((<<y>> \o <<x, g>>) \o t) /\ y.k = "fat" BY <2>4, <2>12 DEF SetNext, Linking
  <3>2. Listed(v) /\ v # <<>> /\ Head(v) = x /\ Tail(v) = r BY <2>7, InFront
  <3> HIDE DEF y
  <3>3. (<<y>> \o <<x, g>>) \o t = <<y>> \o (<<x, g>> \o t)
   <4>1. Listed(<<y>>) /\ Listed(<<x>>) /\ Listed(<<g>>) BY ListedOne
   <4>2. Listed(<<x>> \o <<g>>) BY <4>1, ListedConcat
   <4>3. Listed(<<x, g>>)
    <5>1. <<x, g>> = <<x>> \o <<g>> BY Tuples
    <5> QED BY <4>2, <5>1, Zenon
   <4> QED BY <1>8, <4>1, <4>3, ConcatAssoc
  <3>4. Continue(<<y>> \o v) BY <2>8, <3>1, <3>3, Zenon
  <3> HIDE DEF v
  <3>5. Listed(todo') /\ todo' # <<>> /\ Now' = y /\ Tail(todo') = v /\ file' = file BY <3>1, <3>2, <3>4, GoesOn
  <3>6. Clearing(x, r, ch, own)' BY <2>10, <3>5
  <3>7. FatFree(y, v, ch, own)' BY <2>6, <3>2, <3>6 DEF FatFree, y
  <3>8. AtFat(Now, Tail(todo), ch, own)' BY <1>3, <1>5, <3>5, <3>7 DEF AtFat
  <3>9. Busy(ch, own)' BY <3>1, <3>5, <3>8, AtThat
  <3> QED BY <1>3, <1>5, <1>7, <1>10, <3>5, <3>9, Settling
 <2> QED BY <2>11, <2>12
<1> QED BY <1>11, <1>12

\* free_cluster
LEMMA FreeClusterStep == ASSUME NEW ch, NEW own, Typed, Layout(ch, own), FreeCluster
    PROVE  Typed' /\ \E ch2, own2 : Layout(ch2, own2)' /\ Kept(ch, own, ch2, own2)
<1>1. todo # <<>> /\ Doing("clear") BY DEF FreeCluster, Doing
<1>2. AtClear(Now, Tail(todo), ch, own) BY <1>1, AtWhich DEF Layout
<1>3. PICK f, t, h, s, g, r : f = file /\ t = Tail(todo) /\ h = Now /\ s = ch[f] /\ g = Head(t) /\ r = Tail(t) OBVIOUS
<1>4. f \in Files /\ Clearing(h, t, ch, own) BY <1>2, <1>3 DEF AtClear
<1>5. PICK n \in 0..MaxSize, p \in Nat :
        /\ t # <<>> /\ n <= p /\ p \in own[f]
        /\ Freeing(g, r, ch, own, n, p + 1, own[f] \ {p})
        /\ h = [k |-> "clear", c |-> s[p]] BY <1>3, <1>4 DEF Clearing
<1>6. UNCHANGED <<node, fat, bitmap, entry, data, want, safe>> BY DEF FreeCluster, disk, History
<1>7. h.c = s[p] BY <1>5
<1>8. cmap' = cmap \ {s[p]} /\ Continue(<<>> \o t) BY <1>3, <1>7 DEF FreeCluster, Goto
<1>9. cmapDirty' BY DEF FreeCluster
<1>10. Listed(t) /\ IsNode(node[f]) /\ s \in [Nat -> Clusters] /\ MaxSize \in Nat
       /\ ch \in Ghosts /\ own \in [Files -> SUBSET Nat] /\ Owned(ch, own)
 <2>1. Listed(t) /\ IsNode(node[f]) /\ MaxSize \in Nat BY <1>1, <1>3, <1>4, InCall, NodeFacts
 <2> QED BY <1>3, <1>4, <2>1 DEF Layout, Ghosts
<1>11. Listed(r) /\ t = <<g>> \o r BY <1>3, <1>5, <1>10, HeadFirst
<1>12. /\ DOMAIN g = {"k", "c", "left"} /\ g.k = "free" /\ g.left \in Nat /\ Shrinking(g, r, ch, own, n)
       /\ Pointed(node[f], s, n) /\ n <= p + 1 /\ p + 1 \in Nat
       /\ own[f] \ {p} = (0..n - 1) \cup (p + 1..p + 1 + g.left - 1)
       /\ Segment(node[f], s, p + 1, p + 1 + g.left) /\ (g.left > 0 => g.c = s[p + 1]) BY <1>3, <1>5 DEF Freeing, Nd
<1>13. Removed(ch, own, f, p) BY <1>3, <1>4, <1>5, <1>8, <1>10, OwnedRemove
<1>14. PICK own2 \in [Files -> SUBSET Nat] :
        /\ Owned(ch, own2)' /\ own2[f] = own[f] \ {p} /\ \A e \in Files : e # f => own2[e] = own[e] BY <1>13 DEF Removed
<1>15. Continue(<<g>> \o r) BY <1>8, <1>10, <1>11, ConcatNil
<1>16. Listed(todo') /\ todo' # <<>> /\ Now' = g /\ Tail(todo') = r /\ file' = file BY <1>11, <1>12, <1>15, GoesOn
<1>17. Shrinking(g, r, ch, own2, n)'
 <2>1. \A i \in Nat : i + 1 < n => fat'[s[i]] = fat[s[i]] BY <1>6
 <2> QED BY <1>3, <1>4, <1>6, <1>10, <1>12, <1>16, <2>1, ShrinkingKept
<1>18. Pointed(node[f], s, n)' BY <1>6, <1>12, PointedKept
<1>19. Segment(node[f], s, p + 1, p + 1 + g.left)'
 <2>1. PICK q \in Nat, e \in Int : q = p + 1 /\ e = p + 1 + g.left BY <1>12
 <2>2. Segment(node[f], s, q, e) /\ \A i \in Nat : q <= i /\ i + 1 < e => fat'[s[i]] = fat[s[i]] BY <1>6, <1>12, <2>1
 <2>3. Segment(node[f], s, q, e)' BY <1>4, <1>6, <1>10, <2>2, SegmentKept
 <2> QED BY <2>1, <2>3
<1>a. PICK q \in Nat : q = p + 1 BY <1>12
<1>20. Freeing(g, r, ch, own2, n, q, own2[f])' BY <1>a, <1>3, <1>6, <1>12, <1>14, <1>16, <1>17, <1>18, <1>19 DEF Freeing, Nd
<1>21. AtFree(Now, Tail(todo), ch, own2)' BY <1>3, <1>4, <1>16, <1>20 DEF AtFree
<1>22. Busy(ch, own2)' BY <1>12, <1>16, <1>21, AtThat
<1>23. cmap' \subseteq Clusters /\ OnlyNode(f) /\ IsNode(node'[f]) BY <1>6, <1>8, <1>10, KeptNode DEF Typed
<1>24. Typed' /\ Layout(ch, own2)' BY <1>3, <1>4, <1>6, <1>9, <1>10, <1>14, <1>16, <1>22, <1>23, Accounted
<1>25. Kept(ch, own, ch, own2)
 <2>1. \A e \in Files : \A i \in own2[e] : i \in own[e] BY <1>14
 <2> QED BY <2>1 DEF Kept
<1> QED BY <1>24, <1>25

\* A file between calls, when a step moves its remembered place, or marks it dirty.
LEMMA QuietKept == ASSUME NEW ch, NEW own, NEW f, Quiet(f, ch, own), entry' = entry, fat' = fat,
           node'[f].state = node[f].state, node'[f].start = node[f].start, node'[f].size = node[f].size,
           node'[f].contiguous <=> node[f].contiguous, node[f].dirty => node'[f].dirty, Pointed(node[f], ch[f], node[f].size)'
    PROVE  Quiet(f, ch, own)'
<1>1. PICK n : n = node[f].size OBVIOUS
<1>2. Sized(f, ch, own, n) /\ n = node'[f].size BY <1>1 DEF Quiet, Settled
<1>3. Sized(f, ch, own, n)' BY <1>2, SizedKept
<1>4. Settled(f, ch, own)' BY <1>2, <1>3 DEF Settled
<1>5. Booked(f)' BY DEF Quiet, Booked, Listing, Matches
<1>6. node'[f].state # "linked" => node'[f].size = 0 BY DEF Quiet
<1> QED BY <1>4, <1>5, <1>6 DEF Quiet

\* A write goes on with the places it was about.
Onward ==
    /\ todo' # <<>> /\ file' = file /\ Now'.k \in {"write", "data"} /\ Now'.i = Now.i /\ Until' = Until
    /\ Now'.from = IF Now.k = "locate" THEN Now.i ELSE Now.from

\* exfat_generic_pwrite finds the first cluster it writes to.
LEMMA LocateStep == ASSUME NEW ch, NEW own, Typed, Layout(ch, own), Locate PROVE Typed' /\ Layout(ch, own)' /\ Onward
<1>1. todo # <<>> /\ Doing("locate") BY DEF Locate, Doing
<1>2. AtLocate(Now, Tail(todo), ch, own) BY <1>1, AtWhich DEF Layout
<1>3. PICK f, i, n, s, z : f = file /\ i = Now.i /\ n = Now.n /\ s = ch[f] /\ z = node[f].size OBVIOUS
<1>4. /\ f \in Files /\ Quiet(f, ch, own) /\ node[f].state = "linked" /\ i \in Nat /\ n \in Nat \ {0} /\ i + n <= z
      /\ Tail(todo) = <<>> BY <1>2, <1>3 DEF AtLocate, Nd
<1>5. IsNode(node[f]) /\ s \in [Nat -> Clusters] /\ z \in Nat /\ node[f].at \in Nat BY <1>3, <1>4, NodeFacts DEF Layout, Ghosts
<1>6. i < z BY <1>4, <1>5
<1>7. Strung(node[f], s, z) /\ Pointed(node[f], s, z) BY <1>3, <1>4 DEF Quiet, Settled, Sized
<1>8. Advance(node[f], i) = s[i] /\ ~AdvanceBugs(node[f], i) BY <1>4, <1>5, <1>6, <1>7, AdvanceIs
<1>9. UNCHANGED <<cmap, cmapDirty, fat, bitmap, entry, data, want, safe>> BY DEF Locate, disk, History
<1> DEFINE m == Moved(node[f], i)
           w == [k |-> "write", c |-> s[i], i |-> i, n |-> n, from |-> i]
<1>10. SetNode(m) /\ Continue(<<w>> \o <<>>) BY <1>3, <1>4, <1>8 DEF Locate, Goto, Nd
<1>11. OnlyNode(f) /\ node'[f] = m BY <1>3, <1>4, <1>10, SetNodeIs
<1>12. /\ IsNode(m) /\ m.at = i /\ m.ptr = s[i] /\ m.start = node[f].start /\ m.size = z /\ m.state = node[f].state
 BY <1>3, <1>4, <1>5, <1>6, <1>7, MovedIs
<1>13. m.contiguous = node[f].contiguous BY <1>4, <1>5, <1>6, <1>7, MovedIs
<1>14. m.dirty = node[f].dirty BY <1>4, <1>5, <1>6, <1>7, MovedIs
<1>15. DOMAIN w = {"k", "c", "i", "n", "from"} /\ w.k = "write" /\ w.c = s[i] /\ w.i = i /\ w.n = n /\ w.from = i OBVIOUS
<1> HIDE DEF m, w
<1>16. Listed(todo') /\ todo' # <<>> /\ Now' = w /\ Tail(todo') = <<>> /\ file' = file BY <1>10, <1>15, GoesOn, ListedNil
<1>17. Quiet(f, ch, own)'
 <2>1. Pointed(node[f], ch[f], node[f].size)'
  <3>1. z # 0 BY <1>4, <1>5, <1>6
  <3> QED BY <1>3, <1>6, <1>11, <1>12, <3>1 DEF Pointed
 <2>2. (node'[f].contiguous <=> node[f].contiguous) /\ (node[f].dirty => node'[f].dirty) BY <1>11, <1>13, <1>14
 <2> QED BY <1>3, <1>4, <1>9, <1>11, <1>12, <2>1, <2>2, QuietKept
<1>18. IsWrite(w, ch)'
 <2>1. i \in 0..i /\ n \in Nat BY <1>4
 <2> QED BY <1>3, <1>4, <1>11, <1>12, <1>15, <1>16, <2>1 DEF IsWrite, Nd
<1>19. AtWrite(Now, Tail(todo), ch, own)' BY <1>3, <1>4, <1>11, <1>12, <1>16, <1>17, <1>18 DEF AtWrite, Nd
<1>20. Busy(ch, own)' BY <1>15, <1>16, <1>19, AtThat
<1>21. Onward
 <2>1. Now.k = "locate" /\ Now.i = i /\ Now.n = n BY <1>1, <1>3 DEF Doing, Now
 <2>2. Until = i + n /\ Until' = i + n BY <1>15, <1>16, <2>1 DEF Until
 <2> QED BY <1>15, <1>16, <2>1, <2>2 DEF Onward
<1> QED BY <1>3, <1>4, <1>9, <1>11, <1>12, <1>16, <1>20, <1>21, Settling

\* The clusters one device write covers are those of consecutive places.
LEMMA RunIs == ASSUME NEW f \in Files, f = file, NEW s \in [Nat -> Clusters], NEW z \in Nat, NEW i \in Nat, NEW n \in Nat \ {0},
           i + n <= z, Segment(node[f], s, 0, z)
    PROVE  /\ Run(s[i], n) \in 1..n
           /\ \A j \in 0..Run(s[i], n) - 1 : s[i + j] = s[i] + j
<1> DEFINE Def(h) == [j \in 0..n |-> IF j = 0 THEN s[i] ELSE NextCluster(node[f], h[j - 1])]
           along == CHOOSE h : h = Def(h)
           own == [j \in 0..n |-> IF j < n THEN s[i + j] ELSE NextCluster(node[f], s[i + (n - 1)])]
           T == {r \in 1..Least(n, MaxRun) : \A j \in 1..r - 1 : ~Invalid(along[j]) /\ along[j] = s[i] + j}
<1>1. Run(s[i], n) = Max(T) BY DEF Run, Nd
<1>2. own = Def(own)
 <2>1. ASSUME NEW j \in 0..n PROVE own[j] = IF j = 0 THEN s[i] ELSE NextCluster(node[f], own[j - 1])
  <3>1. CASE j = 0 BY <3>1
  <3>2. CASE j # 0 /\ j < n
   <4>1. j - 1 \in 0..n /\ j - 1 < n /\ i + (j - 1) \in Nat /\ 0 <= i + (j - 1) /\ (i + (j - 1)) + 1 = i + j /\ i + j < z
    BY <3>2
   <4>2. NextCluster(node[f], s[i + (j - 1)]) = s[i + j] BY <4>1 DEF Segment
   <4>3. own[j - 1] = s[i + (j - 1)] /\ own[j] = s[i + j] BY <3>2, <4>1
   <4> QED BY <3>2, <4>2, <4>3
  <3>3. CASE j # 0 /\ ~(j < n)
   <4>1. j = n /\ n - 1 \in 0..n /\ n - 1 < n BY <3>3
   <4>2. own[n - 1] = s[i + (n - 1)] /\ own[n] = NextCluster(node[f], s[i + (n - 1)]) BY <4>1
   <4> QED BY <3>3, <4>1, <4>2
  <3> QED BY <3>1, <3>2, <3>3
 <2> QED BY <2>1
<1>3. along = Def(along) BY <1>2
<1> HIDE DEF along
<1>4. \A j \in 0..n : along[j] = IF j = 0 THEN s[i] ELSE NextCluster(node[f], along[j - 1]) BY <1>3
<1> HIDE DEF Def, own
<1>5. \A j \in 0..n - 1 : along[j] = s[i + j]
 <2> SUFFICES ASSUME NEW bad \in 0..n - 1, along[bad] # s[i + bad] PROVE FALSE OBVIOUS
 <2>1. PICK x \in {y \in Nat : y < n /\ along[y] # s[i + y]} : \A y \in {y \in Nat : y < n /\ along[y] # s[i + y]} : x <= y
  <3>1. {y \in Nat : y < n /\ along[y] # s[i + y]} # {} /\ {y \in Nat : y < n /\ along[y] # s[i + y]} \subseteq Nat
   <4>1. bad \in Nat /\ bad < n OBVIOUS
   <4> QED BY <4>1
  <3> QED BY <3>1, LeastNatural
 <2>2. x \in Nat /\ x < n /\ along[x] # s[i + x] /\ x \in 0..n BY <2>1
 <2>3. x # 0 BY <1>4, <2>2
 <2>4. x - 1 \in Nat /\ x - 1 < n /\ ~(x <= x - 1) /\ i + (x - 1) \in Nat /\ 0 <= i + (x - 1) /\ (i + (x - 1)) + 1 = i + x /\ i + x < z
  BY <2>2, <2>3
 <2>5. along[x - 1] = s[i + (x - 1)] BY <2>1, <2>4
 <2>6. NextCluster(node[f], s[i + (x - 1)]) = s[i + x] BY <2>4 DEF Segment
 <2>7. along[x] = NextCluster(node[f], along[x - 1]) BY <1>4, <2>2, <2>3
 <2> QED BY <2>2, <2>5, <2>6, <2>7
<1>6. Least(n, MaxRun) \in 1..n BY VolumeAssumption DEF Least
<1>7. T \subseteq 0..n /\ T # {} /\ n \in Nat
 <2>1. 1 \in T BY <1>6
 <2> QED BY <1>6, <2>1
<1>8. PICK r : r = Max(T) OBVIOUS
<1> HIDE DEF T
<1>9. r \in T BY <1>7, <1>8, MaxIs
<1>10. r \in 1..n /\ \A j \in 1..r - 1 : along[j] = s[i] + j BY <1>6, <1>9 DEF T
<1>11. \A j \in 0..r - 1 : s[i + j] = s[i] + j
 <2> TAKE j \in 0..r - 1
 <2>1. CASE j = 0
  <3>1. s[i] \in Nat BY ClusterNums
  <3> QED BY <2>1, <3>1
 <2>2. CASE j # 0
  <3>1. j \in 1..r - 1 /\ j \in 0..n - 1 BY <1>10, <2>2
  <3> QED BY <1>5, <1>10, <3>1
 <2> QED BY <2>1, <2>2
<1> QED BY <1>1, <1>8, <1>10, <1>11

\* One turn of the write loop.
LEMMA WriteLoopStep == ASSUME NEW ch, NEW own, Typed, Layout(ch, own), WriteLoop
    PROVE  Typed' /\ Layout(ch, own)' /\ (Onward \/ (Now.n = 0 /\ node'[file].dirty /\ file' = NoFile))
<1>1. todo # <<>> /\ Doing("write") BY DEF WriteLoop, Doing
<1>2. AtWrite(Now, Tail(todo), ch, own) BY <1>1, AtWhich DEF Layout
<1>3. PICK f, h, i, n, s, z, fr : f = file /\ h = Now /\ i = h.i /\ n = h.n /\ s = ch[f] /\ z = node[f].size /\ fr = h.from
 OBVIOUS
<1>4. /\ f \in Files /\ Quiet(f, ch, own) /\ node[f].state = "linked" /\ Tail(todo) = <<>>
      /\ DOMAIN h = {"k", "c", "i", "n", "from"} /\ h.k = "write"
      /\ i \in Nat /\ n \in Nat /\ fr \in 0..i /\ i + n <= z /\ (n > 0 => h.c = s[i]) BY <1>2, <1>3 DEF AtWrite, IsWrite, Nd
<1>5. IsNode(node[f]) /\ s \in [Nat -> Clusters] /\ z \in Nat BY <1>3, <1>4, NodeFacts DEF Layout, Ghosts
<1>6. Strung(node[f], s, z) /\ Pointed(node[f], s, z) /\ Segment(node[f], s, 0, z) BY <1>3, <1>4 DEF Quiet, Settled, Sized, Strung
<1>7. UNCHANGED <<cmap, cmapDirty, fat, bitmap, entry, data, want, safe>> BY DEF WriteLoop, disk, History
<1>8. CASE n = 0
 <2> DEFINE m == [node[f] EXCEPT !.dirty = TRUE]
 <2>1. SetNode(m) /\ Continue(<<>> \o <<>>) BY <1>3, <1>4, <1>8 DEF WriteLoop, Goto, Nd
 <2>2. OnlyNode(f) /\ node'[f] = m BY <1>3, <1>4, <2>1, SetNodeIs
 <2>3. /\ DOMAIN m = DOMAIN node[f] /\ m.start = node[f].start /\ m.size = node[f].size /\ m.valid = node[f].valid
       /\ m.state = node[f].state /\ m.at = node[f].at /\ m.ptr = node[f].ptr BY <1>5 DEF IsNode
 <2>4. m.dirty BY <1>5 DEF IsNode
 <2>5. m.contiguous = node[f].contiguous BY <1>5 DEF IsNode
 <2> HIDE DEF m
 <2>6. IsNode(m) BY <1>5, <2>3 DEF IsNode
 <2>7. Quiet(f, ch, own)'
  <3>1. Pointed(node[f], ch[f], node[f].size)' BY <1>3, <1>6, <2>2, <2>3 DEF Pointed
  <3>2. (node'[f].contiguous <=> node[f].contiguous) /\ (node[f].dirty => node'[f].dirty) BY <2>2, <2>4, <2>5
  <3> QED BY <1>4, <1>7, <2>2, <2>3, <3>1, <3>2, QuietKept
 <2>8. todo' = <<>> /\ Listed(todo') /\ file' = NoFile
  <3>1. Continue(<<>>) BY <2>1, ConcatNil, ListedNil
  <3> QED BY <3>1, Ends
 <2>9. Busy(ch, own)' BY <2>8 DEF Busy
 <2> QED BY <1>3, <1>4, <1>7, <1>8, <2>2, <2>4, <2>6, <2>7, <2>8, <2>9, Settling
<1>9. CASE n # 0
 <2>1. n \in Nat \ {0} /\ n > 0 /\ h.c = s[i] BY <1>4, <1>9
 <2>2. ~Invalid(s[i]) BY <1>4, <1>5, ClusterNums
 <2>3. PICK r : r = Run(s[i], n) OBVIOUS
 <2>4. r \in 1..n /\ \A j \in 0..r - 1 : s[i + j] = s[i] + j
  <3>1. Run(s[i], n) \in 1..n /\ \A j \in 0..Run(s[i], n) - 1 : s[i + j] = s[i] + j
   <4>1. f = file /\ f \in Files /\ i \in Nat /\ i + n <= z /\ n \in Nat \ {0} BY <1>3, <1>4, <2>1
   <4> QED BY <1>5, <1>6, <4>1, RunIs
  <3> QED BY <2>3, <3>1
 <2>5. PICK nx, q : nx = NextCluster(node[f], s[i] + r - 1) /\ q = s[i] OBVIOUS
 <2> DEFINE x == [h EXCEPT !.k = "data", !.n = r]
            w == [h EXCEPT !.c = nx, !.i = @ + r, !.n = @ - r]
 <2>6. node' = node /\ Continue(<<x, w>> \o <<>>) BY <1>3, <1>4, <1>9, <2>1, <2>2, <2>3, <2>5 DEF WriteLoop, Goto, Nd
 <2>7. x.k = "data" /\ x.c = q /\ x.i = i /\ x.n = r /\ x.from = fr BY <1>3, <1>4, <2>1, <2>5
 <2>8. DOMAIN w = {"k", "c", "i", "n", "from"} /\ w.k = "write" /\ w.c = nx /\ w.i = i + r /\ w.n = n - r /\ w.from = fr
  BY <1>3, <1>4
 <2> HIDE DEF x, w
 <2>9. Listed(<<w>>) /\ <<x, w>> \o <<>> = <<x>> \o <<w>> /\ <<w>> # <<>> /\ Head(<<w>>) = w /\ Tail(<<w>>) = <<>>
  <3>1. Listed(<<w>>) /\ <<w>> # <<>> /\ Head(<<w>>) = w /\ Tail(<<w>>) = <<>> BY ListedOne
  <3>2. <<x, w>> \o <<>> = <<x>> \o (<<w>> \o <<>>) BY FrontPair, ListedNil
  <3>3. <<w>> \o <<>> = <<w>> BY <3>1, ConcatNil
  <3> QED BY <3>1, <3>2, <3>3, Zenon
 <2>10. Listed(todo') /\ todo' # <<>> /\ Now' = x /\ Tail(todo') = <<w>> /\ file' = file
  <3>1. Continue(<<x>> \o <<w>>) BY <2>6, <2>9, Zenon
  <3> QED BY <2>7, <2>9, <3>1, GoesOn
 <2>11. r \in Nat \ {0} /\ i + r \in Nat /\ n - r \in Nat /\ (i + r) + (n - r) <= z /\ fr \in 0..i + r BY <1>4, <1>5, <2>1, <2>4
 <2>12. n - r > 0 => nx = s[i + r]
  <3> SUFFICES ASSUME n - r > 0 PROVE nx = s[i + r] OBVIOUS
  <3>1. r - 1 \in 0..r - 1 /\ i + (r - 1) \in Nat /\ 0 <= i + (r - 1) /\ (i + (r - 1)) + 1 = i + r /\ i + r < z
   BY <1>4, <1>5, <2>1, <2>4, <2>11
  <3>2. s[i + (r - 1)] = s[i] + (r - 1) BY <2>4, <3>1
  <3>3. NextCluster(node[f], s[i + (r - 1)]) = s[i + r] BY <1>6, <3>1 DEF Segment
  <3>4. s[i] + (r - 1) = s[i] + r - 1
   <4>1. s[i] \in Nat BY <1>4, <1>5, ClusterNums
   <4> QED BY <2>11, <4>1
  <3> QED BY <2>5, <3>2, <3>3, <3>4
 <2>13. IsWrite(w, ch)' BY <1>3, <2>6, <2>8, <2>10, <2>11, <2>12 DEF IsWrite, Nd
 <2>14. Quiet(f, ch, own)' /\ OnlyNode(f) /\ IsNode(node'[f]) BY <1>4, <1>5, <1>7, <2>6, AllKept, KeptNode
 <2>15. \A j \in 0..x.n - 1 : s[x.i + j] = x.c + j BY <2>4, <2>5, <2>7
 <2>16. AtData(Now, Tail(todo), ch, own)'
  <3>1. x.i \in Nat /\ x.n \in Nat \ {0} /\ x.from \in 0..x.i /\ w.i = x.i + x.n /\ w.from = x.from BY <1>4, <2>7, <2>8, <2>11
  <3>2. x.c \in Nat
   <4>1. s[i] \in Nat BY <1>4, <1>5, ClusterNums
   <4> QED BY <2>5, <2>7, <4>1
  <3> QED BY <1>3, <1>4, <2>6, <2>9, <2>10, <2>13, <2>14, <2>15, <3>1, <3>2 DEF AtData, Nd
 <2>17. Busy(ch, own)' BY <2>7, <2>10, <2>16, AtThat
 <2>18. Onward
  <3>1. Until = i + n /\ Until' = (i + r) + (n - r) /\ i + n = (i + r) + (n - r)
   <4>1. Until = i + n BY <1>3, <1>4 DEF Until
   <4>2. Until' = w.i + w.n BY <2>7, <2>9, <2>10 DEF Until
   <4> QED BY <1>4, <2>4, <2>8, <2>11, <4>1, <4>2
  <3> QED BY <1>3, <1>4, <2>7, <2>10, <3>1 DEF Onward
 <2> QED BY <1>3, <1>4, <1>7, <2>10, <2>14, <2>17, <2>18, Settling
<1> QED BY <1>8, <1>9

\* commit_entry's node and tree_attach; the end of deleteNode; free(node).
LEMMA NodeStepStep == ASSUME NEW ch, NEW own, Typed, Layout(ch, own), NodeStep PROVE Typed' /\ Layout(ch, own)'
<1>1. todo # <<>> /\ (Doing("attach") \/ Doing("unmark") \/ Doing("freeNode")) BY DEF NodeStep, Doing
<1>2. PICK f, s : f = file /\ s = ch[f] OBVIOUS
<1>3. UNCHANGED <<cmap, cmapDirty, fat, bitmap, entry, data, want, safe>> BY DEF NodeStep, disk, History
<1>4. /\ f \in Files /\ Settled(f, ch, own) /\ node[f].size = 0 /\ Tail(todo) = <<>>
      /\ Doing("attach") => entry[f] = EntryOf(NoNode)
      /\ ~Doing("attach") => node[f].state = "unlinked" /\ Booked(f) BY <1>1, <1>2, AtWhich DEF Layout, AtAttach, AtEnd, Nd
<1>5. todo' = <<>> /\ Listed(todo') /\ file' = NoFile
 <2>1. Continue(<<>> \o <<>>) BY <1>4 DEF NodeStep, Goto
 <2>2. Continue(<<>>) BY <2>1, ConcatNil, ListedNil
 <2> QED BY <2>2, Ends
<1>6. Busy(ch, own)' BY <1>5 DEF Busy
<1>7. own[f] = 0..0 - 1 /\ node[f].start = FREE /\ node[f].at = 0 /\ node[f].ptr = FREE
 BY <1>4 DEF Settled, Sized, Strung, Pointed
<1>8. ASSUME NEW m, SetNode(m), IsNode(m), m.size = 0, m.start = FREE, m.at = 0, m.ptr = FREE,
             entry[f].there <=> m.state = "linked", m.state = "linked" => entry[f].start = FREE /\ entry[f].size = 0
      PROVE  Typed' /\ Layout(ch, own)'
 <2>1. OnlyNode(f) /\ node'[f] = m BY <1>2, <1>4, <1>8, SetNodeIs
 <2>2. Sized(f, ch, own, 0)'
  <3>1. \A i \in Nat : ~(0 <= i /\ i + 1 < 0) OBVIOUS
  <3> QED BY <1>7, <1>8, <2>1, <3>1 DEF Sized, Strung, Pointed, Segment
 <2>3. Quiet(f, ch, own)' BY <1>3, <1>8, <2>1, <2>2 DEF Quiet, Settled, Booked, Listing, Matches
 <2> QED BY <1>2, <1>3, <1>4, <1>5, <1>6, <1>8, <2>1, <2>3, Settling
<1>9. CASE Doing("attach")
 <2> DEFINE m == [NoNode EXCEPT !.state = "linked"]
 <2>1. SetNode(m) BY <1>9 DEF NodeStep, Doing
 <2>2. m.size = 0 /\ m.valid = 0 /\ m.start = FREE /\ m.at = 0 /\ m.ptr = FREE /\ m.state = "linked"
       /\ DOMAIN m = {"state", "start", "contiguous", "size", "valid", "dirty", "at", "ptr"} BY DEF NoNode
 <2>3. entry[f].there BY <1>4, <1>9 DEF EntryOf
 <2>4. entry[f].start = FREE /\ entry[f].size = 0 BY <1>4, <1>9 DEF EntryOf, NoNode
 <2> HIDE DEF m
 <2>5. IsNode(m)
  <3>1. MaxSize \in Nat /\ FREE \in Nat BY VolumeAssumption DEF FREE
  <3> QED BY <2>2, <3>1 DEF IsNode
 <2> QED BY <1>8, <2>1, <2>2, <2>3, <2>4, <2>5
<1>10. CASE ~Doing("attach")
 <2>1. ~entry[f].there BY <1>4, <1>10 DEF Booked, Listing
 <2>2. CASE Doing("unmark")
  <3> DEFINE m == [node[f] EXCEPT !.dirty = FALSE]
  <3>1. SetNode(m) BY <1>2, <2>2 DEF NodeStep, Doing, Nd
  <3>2. IsNode(node[f]) BY <1>4, NodeFacts
  <3>3. /\ DOMAIN m = DOMAIN node[f] /\ m.start = node[f].start /\ m.size = node[f].size /\ m.valid = node[f].valid
        /\ m.state = node[f].state /\ m.at = node[f].at /\ m.ptr = node[f].ptr BY <3>2 DEF IsNode
  <3> HIDE DEF m
  <3>4. IsNode(m) BY <3>2, <3>3 DEF IsNode
  <3>5. m.state = "unlinked" /\ m.size = 0 BY <1>4, <1>10, <3>3
  <3> QED BY <1>7, <1>8, <2>1, <3>1, <3>3, <3>4, <3>5
 <2>3. CASE Doing("freeNode")
  <3>1. SetNode(NoNode) BY <2>3 DEF NodeStep, Doing
  <3>2. NoNode.size = 0 /\ NoNode.valid = 0 /\ NoNode.start = FREE /\ NoNode.at = 0 /\ NoNode.ptr = FREE /\ NoNode.state = "none"
        /\ DOMAIN NoNode = {"state", "start", "contiguous", "size", "valid", "dirty", "at", "ptr"} BY DEF NoNode
  <3>3. IsNode(NoNode)
   <4>1. MaxSize \in Nat /\ FREE \in Nat BY VolumeAssumption DEF FREE
   <4> QED BY <3>2, <4>1 DEF IsNode
  <3> QED BY <1>8, <2>1, <3>1, <3>2, <3>3
 <2> QED BY <1>1, <1>10, <2>2, <2>3
<1> QED BY <1>9, <1>10

\* The entry of a file that is deleted is erased; its clusters are freed at once.
LEMMA UnlinkStep == ASSUME NEW ch, NEW own, Typed, Layout(ch, own), Unlink PROVE Typed' /\ Layout(ch, own)'
<1>1. todo # <<>> /\ Doing("unlink") BY DEF Unlink, Doing
<1>2. AtUnlink(Now, Tail(todo), ch, own) BY <1>1, AtWhich DEF Layout
<1>3. PICK f, s : f = file /\ s = ch[f] OBVIOUS
<1>4. f \in Files /\ Settled(f, ch, own) /\ Tail(todo) = <<>> /\ ~entry[f].there BY <1>2, <1>3 DEF AtUnlink
<1>5. UNCHANGED <<cmap, cmapDirty, fat, bitmap, entry, data, safe>> /\ want' = [want EXCEPT ![f] = <<>>] BY <1>3 DEF Unlink, disk
<1>6. IsNode(node[f]) /\ MaxSize \in Nat BY <1>4, NodeFacts
<1> DEFINE m == [node[f] EXCEPT !.state = "unlinked"]
           x == Truncating(0, TRUE)
           c == Stage("catch")
           e == Stage("unmark")
<1>7. SetNode(m) /\ Continue(((<<x>> \o <<c>>) \o <<e>>) \o <<>>) BY <1>3, <1>4 DEF Unlink, Goto, Nd, Catch, Stage, Truncating
<1>8. OnlyNode(f) /\ node'[f] = m BY <1>3, <1>4, <1>7, SetNodeIs
<1>9. /\ DOMAIN m = DOMAIN node[f] /\ m.start = node[f].start /\ m.size = node[f].size /\ m.valid = node[f].valid
      /\ m.state = "unlinked" /\ m.at = node[f].at /\ m.ptr = node[f].ptr BY <1>6 DEF IsNode
<1>10. m.contiguous = node[f].contiguous BY <1>6 DEF IsNode
<1>11. x.k = "truncate" /\ x.to = 0 BY DEF Truncating
<1>12. x.erase \in BOOLEAN BY DEF Truncating
<1> HIDE DEF m, x, c, e
<1>13. IsNode(m) BY <1>6, <1>9 DEF IsNode
<1>14. <<c>> \o (<<e>> \o <<>>) = <<c, e>> /\ Listed(<<c, e>>)
 <2>1. Listed(<<e>>) /\ Listed(<<c>>) /\ <<e>> \o <<>> = <<e>> BY ListedOne, ConcatNil
 <2>2. <<c, e>> = <<c>> \o <<e>> BY Tuples
 <2>3. Listed(<<c>> \o <<e>>) BY <2>1, ListedConcat
 <2> QED BY <2>1, <2>2, <2>3, Zenon
<1>15. Continue(<<x>> \o <<c, e>>)
 <2>1. ((<<x>> \o <<c>>) \o <<e>>) \o <<>> = <<x>> \o (<<c>> \o (<<e>> \o <<>>)) BY FrontThree, ListedNil
 <2> QED BY <1>7, <1>14, <2>1, Zenon
<1>16. Listed(todo') /\ todo' # <<>> /\ Now' = x /\ Tail(todo') = <<c, e>> /\ file' = file
 <2>1. PICK t : t = <<c, e>> OBVIOUS
 <2>2. Listed(t) /\ Continue(<<x>> \o t) BY <1>14, <1>15, <2>1, Zenon
 <2>3. Listed(todo') /\ todo' # <<>> /\ Now' = x /\ Tail(todo') = t /\ file' = file BY <1>11, <2>2, GoesOn
 <2> QED BY <2>1, <2>3, Zenon
<1>17. Settled(f, ch, own)' /\ Booked(f)'
 <2>1. Booked(f)' BY <1>4, <1>5, <1>8, <1>9 DEF Booked, Listing
 <2>2. PICK n : n = node[f].size OBVIOUS
 <2>3. Sized(f, ch, own, n) /\ node'[f].size = n BY <1>4, <1>8, <1>9, <2>2 DEF Settled
 <2>4. Pointed(node[f], ch[f], n)' BY <1>8, <1>9, <2>3, PointedKept DEF Sized
 <2>5. Sized(f, ch, own, n)' BY <1>5, <1>8, <1>9, <1>10, <2>3, <2>4, SizedKept
 <2> QED BY <2>1, <2>3, <2>5 DEF Settled
<1>18. Rest(<<c, e>>, 0)' BY <1>3, <1>8, <1>9, <1>16 DEF Rest, c, e, Nd
<1>19. AtTruncate(Now, Tail(todo), ch, own)'
 <2>1. 0 \in 0..MaxSize BY <1>6
 <2>2. (file \in Files /\ Settled(file, ch, own) /\ Booked(file) /\ Now.to \in 0..MaxSize)'
  BY <1>3, <1>4, <1>11, <1>16, <1>17, <2>1
 <2>3. Rest(Tail(todo), Now.to)' BY <1>11, <1>16, <1>18
 <2>4. (Now.erase \in BOOLEAN)' BY <1>12, <1>16
 <2>5. Fit(Tail(todo), Now.to)' BY <1>11, <1>16 DEF Fit
 <2> QED BY <2>2, <2>3, <2>4, <2>5 DEF AtTruncate
<1>20. Busy(ch, own)' BY <1>11, <1>16, <1>19, AtThat
<1>21. WantTyped' /\ DOMAIN data' = Clusters
 <2>1. <<>> \in Seq(SUBSET Anything) /\ Len(<<>>) = 0 OBVIOUS
 <2>2. want' \in [Files -> Seq(SUBSET Anything)] BY <1>4, <1>5, <2>1 DEF Typed
 <2>3. \A g \in Files : want'[g] = IF g = f THEN <<>> ELSE want[g] BY <1>4, <1>5 DEF Typed
 <2>4. \A g \in Files : Len(want'[g]) <= MaxSize BY <1>6, <2>1, <2>3 DEF Typed
 <2> QED BY <1>5, <2>2, <2>4 DEF WantTyped, Typed
<1> QED BY <1>3, <1>4, <1>5, <1>8, <1>13, <1>16, <1>20, <1>21, Concluded

\* The link of a cluster is written.
Relinked(c, x) == fat' = [fat EXCEPT ![c] = x]

\* What has to be shown of a write of the link of a cluster of f.
LEMMA LinkWritten == ASSUME NEW ch, NEW own, NEW f \in Files, f = file, Typed, Layout(ch, own),
           UNCHANGED <<node, cmap, cmapDirty, bitmap, entry, data, want, safe>>,
           NEW k \in own[f], NEW x \in Clusters \cup {FREE, END}, Relinked(ch[f][k], x), Listed(todo'), Busy(ch, own)', file' = f
    PROVE  Typed' /\ Layout(ch, own)'
<1>1. ch \in Ghosts /\ own \in [Files -> SUBSET Nat] /\ Owned(ch, own) /\ \A g \in Files : g # file => Quiet(g, ch, own)
 BY DEF Layout
<1>2. \A g \in Files : g # file => node'[g] = node[g] /\ entry'[g] = entry[g] /\ ch[g] = ch[g] /\ own[g] = own[g] OBVIOUS
<1>3. \A g \in Files : g # file => Quiet(g, ch, own)'
 <2>1. fat' = fat \/ (file \in Files /\ \E j \in own[file] : \E y : fat' = [fat EXCEPT ![ch[file][j]] = y]) BY DEF Relinked
 <2> QED BY <1>1, <1>2, <2>1, OthersQuiet
<1>4. Owned(ch, own)' /\ Readable' /\ MapClean' BY DEF Layout, Owned, Readable, MapClean, CheckNode, Invalid
<1>5. Layout(ch, own)' BY <1>1, <1>3, <1>4 DEF Layout
<1>6. Typed' BY DEF Typed, IsNode, Relinked
<1> QED BY <1>5, <1>6

OthersKept(s, o, k) == \A i \in o : i # k => fat'[s[i]] = fat[s[i]]

\* The write of a link leaves the links of the other places of the file.
LEMMA OtherLinks == ASSUME NEW ch \in Ghosts, NEW own \in [Files -> SUBSET Nat], Typed, Owned(ch, own), NEW f \in Files,
           NEW k \in own[f], NEW x, Relinked(ch[f][k], x) PROVE OthersKept(ch[f], own[f], k)
<1>1. k \in Nat /\ ch[f][k] \in Clusters /\ DOMAIN fat = Clusters BY DEF Ghosts, Typed
<1>2. ASSUME NEW i \in own[f], i # k PROVE ch[f][i] # ch[f][k] /\ ch[f][i] \in Clusters BY <1>2 DEF Owned, Ghosts
<1> QED BY <1>1, <1>2 DEF Relinked, OthersKept

\* Freeing goes on undisturbed by writes to links it does not follow.
LEMMA FreeingKept == ASSUME NEW ch, NEW own, NEW f \in Files, f = file, file' = file, NEW s \in [Nat -> Clusters], s = ch[f],
           NEW g, NEW t, NEW n, NEW p, NEW o, Freeing(g, t, ch, own, n, p, o), UNCHANGED <<node, entry>>, MaxSize \in Nat,
           \A i \in Nat : i + 1 < n => fat'[s[i]] = fat[s[i]],
           \A i \in Nat : p <= i /\ i + 1 < p + g.left => fat'[s[i]] = fat[s[i]] PROVE Freeing(g, t, ch, own, n, p, o)'
<1>1. /\ DOMAIN g = {"k", "c", "left"} /\ g.k = "free" /\ g.left \in Nat /\ Shrinking(g, t, ch, own, n)
      /\ Pointed(node[f], s, n) /\ n <= p /\ p \in Nat
      /\ o = (0..n - 1) \cup (p..p + g.left - 1)
      /\ Segment(node[f], s, p, p + g.left) /\ (g.left > 0 => g.c = s[p]) BY DEF Freeing, Nd
<1>2. Shrinking(g, t, ch, own, n)' BY <1>1, ShrinkingKept
<1>3. Pointed(node[f], s, n)' BY <1>1, PointedKept
<1>4. Segment(node[f], s, p, p + g.left)'
 <2>1. PICK e \in Int : e = p + g.left BY <1>1
 <2>2. Segment(node[f], s, p, e)' BY <1>1, <2>1, SegmentKept
 <2> QED BY <2>1, <2>2
<1> QED BY <1>1, <1>2, <1>3, <1>4 DEF Freeing, Nd

\* Growing goes on undisturbed by a step that leaves the nodes and the entries alone.
LEMMA LoopingKept == ASSUME NEW ch, NEW own, NEW f \in Files, f = file, file' = file, NEW g, NEW t, Looping(g, t, ch, own),
           UNCHANGED <<node, entry>> PROVE Looping(g, t, ch, own)'
<1>1. PICK s, n, l : s = ch[f] /\ n = g.cur + g.got /\ l = g.left OBVIOUS
<1>2. /\ g.cur = node[f].size /\ g.got \in Nat /\ g.left \in Nat /\ n >= 1 /\ n + l <= MaxSize
      /\ g.prev = s[n - 1] /\ own[f] = 0..n - 1 /\ node[f].start = s[0] /\ Pointed(node[f], s, n)
      /\ node[f].state = "linked" /\ Loose(f) /\ NoCatch(t) /\ Resize(t, n + l)
      /\ DOMAIN g = {"k", "prev", "cur", "left", "got"} /\ g.k = "growLoop" BY <1>1 DEF Looping, Nd
<1>3. Resize(t, n + l)' BY <1>2, ResizeKept DEF Nd
<1>4. Pointed(node[f], s, n)' BY <1>2, PointedKept
<1>5. Loose(f)' BY <1>2, LooseKept
<1> QED BY <1>1, <1>2, <1>3, <1>4, <1>5 DEF Looping, Nd

------------------------------
\* Each kind of a write of a link, once it succeeded.
LEMMA FatEndStep == ASSUME NEW ch, NEW own, NEW f, f = file, NEW t, t = Tail(todo), NEW h, h = Now,
           Typed, Layout(ch, own), todo # <<>>, f \in Files, FatEnd(h, t, ch, own),
           UNCHANGED <<node, cmap, cmapDirty, bitmap, entry, data, want, safe>>, Relinked(h.c, h.next), Continue(t)
    PROVE  Typed' /\ Layout(ch, own)'
<1>1. PICK s : s = ch[f] OBVIOUS
<1>2. PICK n \in 1..MaxSize : Sized(f, ch, own, n) /\ Loose(f) /\ Resize(t, n) /\ h = Linking(s[n - 1], END) BY <1>1 DEF FatEnd
<1>3. h.c = s[n - 1] /\ h.next = END BY <1>2 DEF Linking
<1>4. ch \in Ghosts /\ own \in [Files -> SUBSET Nat] /\ Owned(ch, own) /\ s \in [Nat -> Clusters] /\ MaxSize \in Nat
 BY <1>1, VolumeAssumption DEF Layout, Ghosts
<1>5. own[f] = 0..n - 1 /\ Strung(node[f], s, n) /\ Pointed(node[f], s, n) BY <1>1, <1>2 DEF Sized
<1>6. n \in Nat /\ n - 1 \in own[f] /\ n \in 0..MaxSize BY <1>4, <1>5
<1>7. PICK k \in own[f] : k = n - 1 BY <1>6
<1>8. Relinked(ch[f][k], END) BY <1>1, <1>3, <1>7
<1>9. \A i \in own[f] : i # k => fat'[ch[f][i]] = fat[ch[f][i]]
 <2>1. OthersKept(ch[f], own[f], k) BY <1>4, <1>8, OtherLinks
 <2> QED BY <2>1 DEF OthersKept
<1>10. \A i \in Nat : i + 1 < n => fat'[s[i]] = fat[s[i]]
 <2>1. \A i \in Nat : i + 1 < n => i \in own[f] /\ i # k BY <1>5, <1>6, <1>7
 <2> QED BY <1>1, <1>9, <2>1
<1>11. Sized(f, ch, own, n)'
 <2>1. Strung(node[f], s, n)' BY <1>4, <1>5, <1>6, <1>10, StrungKept
 <2>2. Pointed(node[f], s, n)' BY <1>5, PointedKept
 <2> QED BY <1>1, <1>5, <2>1, <2>2 DEF Sized
<1>12. Loose(f)' BY <1>2, LooseKept
<1>13. Busy(ch, own)' /\ Listed(todo') /\ file' = f BY <1>2, <1>6, <1>11, <1>12, ResizeGoes
<1>14. END \in Clusters \cup {FREE, END} OBVIOUS
<1> QED BY <1>8, <1>13, <1>14, LinkWritten

\* grow_file writes the link to one more cluster.
LEMMA FatLinkStep == ASSUME NEW ch, NEW own, NEW f, f = file, NEW t, t = Tail(todo), NEW h, h = Now,
           Typed, Layout(ch, own), todo # <<>>, f \in Files, FatLink(h, t, ch, own),
           UNCHANGED <<node, cmap, cmapDirty, bitmap, entry, data, want, safe>>, Relinked(h.c, h.next), Continue(t)
    PROVE  Typed' /\ Layout(ch, own)'
<1>1. PICK s, g, n, r : s = ch[f] /\ g = Head(t) /\ n = g.cur + g.got /\ r = Tail(t) OBVIOUS
<1>2. /\ t # <<>> /\ Looping(g, r, ch, own) /\ n >= 2 /\ ~node[f].contiguous /\ Strung(node[f], s, n - 1)
      /\ h = Linking(s[n - 2], s[n - 1]) BY <1>1 DEF FatLink, Nd
<1>3. h.c = s[n - 2] /\ h.next = s[n - 1] BY <1>2 DEF Linking
<1>4. ch \in Ghosts /\ own \in [Files -> SUBSET Nat] /\ Owned(ch, own) /\ s \in [Nat -> Clusters] /\ Listed(t)
 <2>1. Listed(t) BY InCall
 <2> QED BY <1>1, <2>1 DEF Layout, Ghosts
<1>5. Listed(r) /\ t = <<g>> \o r BY <1>1, <1>2, <1>4, HeadFirst
<1>6. g.k = "growLoop" /\ own[f] = 0..n - 1 /\ g.cur \in Nat /\ g.got \in Nat
 <2>1. g.k = "growLoop" /\ own[f] = 0..n - 1 /\ g.cur = node[f].size /\ g.got \in Nat BY <1>1, <1>2 DEF Looping, Nd
 <2> QED BY <2>1, NodeFacts
<1>7. n \in Nat
 <2>1. PICK a, b : a = g.cur /\ b = g.got OBVIOUS
 <2>2. a \in Nat /\ b \in Nat /\ n = a + b BY <1>1, <1>6, <2>1
 <2> QED BY <2>2
<1>8. n - 2 \in own[f] /\ n - 1 \in Nat \ {0} /\ n - 2 \in Nat /\ (n - 1) - 1 = n - 2 /\ (n - 1) + 1 = n BY <1>2, <1>6, <1>7
<1>9. PICK k \in own[f] : k = n - 2 BY <1>8
<1>10. PICK x : x = s[n - 1] OBVIOUS
<1>11. Relinked(ch[f][k], x) /\ x \in Clusters BY <1>1, <1>3, <1>4, <1>8, <1>9, <1>10
<1>12. fat'[s[n - 2]] = s[n - 1] /\ \A i \in own[f] : i # k => fat'[s[i]] = fat[s[i]]
 <2>1. Relinked(ch[f][k], x) BY <1>11
 <2>2. OthersKept(ch[f], own[f], k) BY <1>4, <2>1, OtherLinks
 <2>3. fat'[ch[f][k]] = x
  <3>1. ch[f][k] \in Clusters /\ DOMAIN fat = Clusters BY <1>4 DEF Ghosts, Typed
  <3> QED BY <2>1, <3>1 DEF Relinked
 <2> QED BY <1>1, <1>9, <1>10, <2>2, <2>3 DEF OthersKept
<1>13. Strung(node[f], s, n)'
 <2>1. \A i \in Nat : i + 1 < n - 1 => fat'[s[i]] = fat[s[i]]
  <3>1. \A i \in Nat : i + 1 < n - 1 => i \in own[f] /\ i # k BY <1>6, <1>7, <1>9
  <3> QED BY <1>12, <3>1
 <2>2. PICK e \in Nat \ {0} : e = n - 1 BY <1>8
 <2>3. e \in Nat /\ Strung(node[f], s, e) BY <1>2, <2>2
 <2>4. Strung(node[f], s, e)' BY <1>4, <2>1, <2>2, <2>3, StrungKept
 <2>5. NextCluster(node[f], s[e - 1])' = s[e]
  <3>1. ~Invalid(s[n - 2]) /\ e - 1 = n - 2 BY <1>4, <1>8, <2>2, ClusterNums
  <3> QED BY <1>2, <1>12, <2>2, <3>1 DEF NextCluster, Invalid
 <2>6. \A i \in Nat : i + 1 < e + 1 => NextCluster(node[f], s[i])' = s[i + 1]
  <3> SUFFICES ASSUME NEW i \in Nat, i + 1 < e + 1 PROVE NextCluster(node[f], s[i])' = s[i + 1] OBVIOUS
  <3>1. CASE i + 1 < e
   <4>1. 0 <= i OBVIOUS
   <4> QED BY <2>4, <3>1, <4>1 DEF Strung, Segment
  <3>2. CASE i + 1 = e
   <4>1. i = e - 1 BY <3>2
   <4> QED BY <2>5, <3>2, <4>1
  <3> QED BY <2>2, <3>1, <3>2
 <2>7. node'[f].start = s[0] /\ n # 0 /\ e + 1 = n
  <3>1. node'[f].start = s[0] BY <1>1, <1>2 DEF Looping, Nd
  <3> QED BY <1>2, <1>7, <2>2, <3>1
 <2> QED BY <2>6, <2>7 DEF Strung, Segment
<1>14. Listed(todo') /\ todo' # <<>> /\ Now' = g /\ Tail(todo') = r /\ file' = file BY <1>5, <1>6, GoesOn
<1>15. Looping(g, r, ch, own)' BY <1>2, <1>14, LoopingKept
<1>16. AtGrowLoop(Now, Tail(todo), ch, own)' BY <1>1, <1>13, <1>14, <1>15 DEF AtGrowLoop, Nd
<1>17. Busy(ch, own)' BY <1>6, <1>14, <1>16, AtThat
<1>18. x \in Clusters \cup {FREE, END} BY <1>11
<1> QED BY <1>11, <1>14, <1>17, <1>18, LinkWritten

\* shrink_file ends the chain behind the clusters that stay.
LEMMA FatCutStep == ASSUME NEW ch, NEW own, NEW f, f = file, NEW t, t = Tail(todo), NEW h, h = Now,
           Typed, Layout(ch, own), todo # <<>>, f \in Files, FatCut(h, t, ch, own),
           UNCHANGED <<node, cmap, cmapDirty, bitmap, entry, data, want, safe>>, Relinked(h.c, h.next), Continue(t)
    PROVE  Typed' /\ Layout(ch, own)'
<1>1. PICK s, g, r : s = ch[f] /\ g = Head(t) /\ r = Tail(t) OBVIOUS
<1>2. PICK n \in 1..MaxSize : t # <<>> /\ Rewinding(g, r, ch, own, n) /\ h = Linking(s[n - 1], END) BY <1>1 DEF FatCut
<1>3. h.c = s[n - 1] /\ h.next = END BY <1>2 DEF Linking
<1>4. ch \in Ghosts /\ own \in [Files -> SUBSET Nat] /\ Owned(ch, own) /\ s \in [Nat -> Clusters] /\ Listed(t) /\ MaxSize \in Nat
 <2>1. Listed(t) BY InCall
 <2> QED BY <1>1, <2>1, VolumeAssumption DEF Layout, Ghosts
<1>5. Listed(r) /\ t = <<g>> \o r BY <1>1, <1>2, <1>4, HeadFirst
<1>6. /\ DOMAIN g = {"k", "c", "left"} /\ g.k = "rewind" /\ g.left \in Nat \ {0} /\ Shrinking(g, r, ch, own, n)
      /\ own[f] = 0..n + g.left - 1 /\ Segment(node[f], s, n, n + g.left) /\ g.c = s[n] BY <1>1, <1>2 DEF Rewinding, Nd
<1>7. PICK l : l = g.left OBVIOUS
<1>8. n \in Nat /\ l \in Nat \ {0} /\ own[f] = 0..n + l - 1 BY <1>4, <1>6, <1>7
<1>9. PICK k \in own[f] : k = n - 1 BY <1>8
<1>10. Relinked(ch[f][k], END) BY <1>1, <1>3, <1>9
<1>11. \A i \in own[f] : i # k => fat'[s[i]] = fat[s[i]]
 <2>1. OthersKept(ch[f], own[f], k) BY <1>4, <1>10, OtherLinks
 <2> QED BY <1>1, <2>1 DEF OthersKept
<1>12. /\ \A i \in Nat : i + 1 < n => fat'[s[i]] = fat[s[i]]
       /\ \A i \in Nat : n <= i /\ i + 1 < n + l => fat'[s[i]] = fat[s[i]]
 <2>1. /\ \A i \in Nat : i + 1 < n => i \in own[f] /\ i # k
       /\ \A i \in Nat : n <= i /\ i + 1 < n + l => i \in own[f] /\ i # k BY <1>8, <1>9
 <2> QED BY <1>11, <2>1
<1>13. Listed(todo') /\ todo' # <<>> /\ Now' = g /\ Tail(todo') = r /\ file' = file
 <2>1. g.k # "catch" /\ Continue(<<g>> \o r) BY <1>5, <1>6
 <2> QED BY <1>5, <2>1, GoesOn
<1>14. Shrinking(g, r, ch, own, n)'
 <2>1. f \in Files /\ f = file /\ file' = file /\ s \in [Nat -> Clusters] /\ s = ch[f] /\ Shrinking(g, r, ch, own, n)
  BY <1>1, <1>4, <1>6, <1>13
 <2>2. entry' = entry /\ node' = node /\ MaxSize \in Nat BY <1>4
 <2>3. \A i \in Nat : i + 1 < n => fat'[s[i]] = fat[s[i]] BY <1>12
 <2> QED BY <2>1, <2>2, <2>3, ShrinkingKept
<1>15. Segment(node[f], s, n, n + l)'
 <2>1. n + l \in Int /\ Segment(node[f], s, n, n + l) BY <1>6, <1>7, <1>8
 <2> QED BY <1>4, <1>8, <1>12, <2>1, SegmentKept
<1>16. Rewinding(g, r, ch, own, n)' BY <1>1, <1>6, <1>7, <1>13, <1>14, <1>15 DEF Rewinding, Nd
<1>17. AtRewind(Now, Tail(todo), ch, own)'
 <2>1. n \in 0..MaxSize BY <1>4
 <2> QED BY <1>13, <1>16, <2>1 DEF AtRewind
<1>18. Busy(ch, own)' BY <1>6, <1>13, <1>17, AtThat
<1>19. END \in Clusters \cup {FREE, END} OBVIOUS
<1> QED BY <1>10, <1>13, <1>18, <1>19, LinkWritten

\* shrink_file marks a cluster it gives up as free in the table.
LEMMA FatFreeStep == ASSUME NEW ch, NEW own, NEW f, f = file, NEW t, t = Tail(todo), NEW h, h = Now,
           Typed, Layout(ch, own), todo # <<>>, f \in Files, FatFree(h, t, ch, own),
           UNCHANGED <<node, cmap, cmapDirty, bitmap, entry, data, want, safe>>, Relinked(h.c, h.next), Continue(t)
    PROVE  Typed' /\ Layout(ch, own)'
<1>1. PICK s, x, r, g, u : s = ch[f] /\ x = Head(t) /\ r = Tail(t) /\ g = Head(r) /\ u = Tail(r) OBVIOUS
<1>2. t # <<>> /\ Clearing(x, r, ch, own) /\ h = Linking(x.c, FREE) BY <1>1 DEF FatFree
<1>3. PICK n \in 0..MaxSize, p \in Nat :
        /\ r # <<>> /\ n <= p /\ p \in own[f]
        /\ Freeing(g, u, ch, own, n, p + 1, own[f] \ {p})
        /\ x = [k |-> "clear", c |-> s[p]] BY <1>1, <1>2 DEF Clearing
<1>4. x.k = "clear" /\ x.c = s[p] BY <1>3
<1>5. h.c = s[p] /\ h.next = FREE BY <1>2, <1>4 DEF Linking
<1>6. ch \in Ghosts /\ own \in [Files -> SUBSET Nat] /\ Owned(ch, own) /\ s \in [Nat -> Clusters] /\ Listed(t) /\ MaxSize \in Nat
 <2>1. Listed(t) BY InCall
 <2> QED BY <1>1, <2>1, VolumeAssumption DEF Layout, Ghosts
<1>7. Listed(r) /\ t = <<x>> \o r BY <1>1, <1>2, <1>6, HeadFirst
<1>8. PICK k \in own[f] : k = p BY <1>3
<1>9. Relinked(ch[f][k], FREE) BY <1>1, <1>5, <1>8
<1>10. OthersKept(ch[f], own[f], k) BY <1>6, <1>9, OtherLinks
<1>11. PICK l : l = g.left OBVIOUS
<1>12. l \in Nat /\ own[f] \ {p} = (0..n - 1) \cup (p + 1..p + 1 + l - 1) /\ n \in Nat BY <1>3, <1>6, <1>11 DEF Freeing
<1>13. /\ \A i \in Nat : i + 1 < n => fat'[s[i]] = fat[s[i]]
       /\ \A i \in Nat : p + 1 <= i /\ i + 1 < p + 1 + l => fat'[s[i]] = fat[s[i]]
 <2>1. /\ \A i \in Nat : i + 1 < n => i \in own[f] \ {p}
       /\ \A i \in Nat : p + 1 <= i /\ i + 1 < p + 1 + l => i \in own[f] \ {p} BY <1>12
 <2>2. \A i \in own[f] \ {p} : fat'[s[i]] = fat[s[i]] BY <1>1, <1>8, <1>10 DEF OthersKept
 <2> QED BY <2>1, <2>2
<1>14. Listed(todo') /\ todo' # <<>> /\ Now' = x /\ Tail(todo') = r /\ file' = file
 <2>1. x.k # "catch" /\ Continue(<<x>> \o r) BY <1>4, <1>7
 <2> QED BY <1>7, <2>1, GoesOn
<1>15. Freeing(g, u, ch, own, n, p + 1, own[f] \ {p})'
 <2>1. PICK q, o : q = p + 1 /\ o = own[f] \ {p} OBVIOUS
 <2>2. Freeing(g, u, ch, own, n, q, o) /\ \A i \in Nat : q <= i /\ i + 1 < q + g.left => fat'[s[i]] = fat[s[i]]
  BY <1>3, <1>11, <1>13, <2>1
 <2>3. file' = file /\ UNCHANGED <<node, entry>> /\ s = ch[f] /\ MaxSize \in Nat BY <1>1, <1>6, <1>14
 <2>a. s \in [Nat -> Clusters] BY <1>6
 <2>b. \A i \in Nat : i + 1 < n => fat'[s[i]] = fat[s[i]] BY <1>13
 <2>4. Freeing(g, u, ch, own, n, q, o)' BY <2>a, <2>b, <2>2, <2>3, FreeingKept
 <2> QED BY <2>1, <2>4
<1>16. Clearing(x, r, ch, own)' BY <1>1, <1>3, <1>14, <1>15 DEF Clearing
<1>17. AtClear(Now, Tail(todo), ch, own)' BY <1>14, <1>16 DEF AtClear
<1>18. Busy(ch, own)' BY <1>4, <1>14, <1>17, AtThat
<1>19. FREE \in Clusters \cup {FREE, END} OBVIOUS
<1> QED BY <1>9, <1>14, <1>18, <1>19, LinkWritten

\* make_noncontiguous writes one link of a file that was contiguous.
LEMMA SpreadStep == ASSUME NEW ch, NEW own, NEW f, f = file, NEW t, t = Tail(todo), NEW h, h = Now, h.k = "fat",
           Typed, Layout(ch, own), todo # <<>>, f \in Files, Spreading(todo, ch, own),
           UNCHANGED <<node, cmap, cmapDirty, bitmap, entry, data, want, safe>>, Relinked(h.c, h.next), Continue(t)
    PROVE  Typed' /\ Layout(ch, own)'
<1>4. PICK g, r, j :
       LET n == g.cur + g.got
           s == ch[file]
       IN
       /\ file \in Files /\ Looping(g, r, ch, own)
       /\ n >= 2 /\ j \in 0..n - 2
       /\ todo = Links(s, j, n - 2) \o (<<Stage("noncontiguous")>> \o (<<Linking(s[n - 2], s[n - 1])>> \o (<<g>> \o r)))
       /\ Nd.contiguous /\ Strung(Nd, s, n - 1)
       /\ \A i \in 0..j - 1 : fat[s[i]] = s[i + 1] BY DEF Spreading
<1>5. PICK n, s : n = g.cur + g.got /\ s = ch[f] OBVIOUS
<1> DEFINE x == Stage("noncontiguous")
           y == Linking(s[n - 2], s[n - 1])
           v == <<y>> \o (<<g>> \o r)
           w == <<x>> \o v
<1>6. /\ Looping(g, r, ch, own) /\ n >= 2 /\ j \in 0..n - 2
      /\ todo = Links(s, j, n - 2) \o w
      /\ Strung(node[f], s, n - 1) /\ node[f].contiguous /\ \A i \in 0..j - 1 : fat[s[i]] = s[i + 1] BY <1>4, <1>5 DEF Nd
<1>7. g.cur = node[f].size /\ g.got \in Nat /\ own[f] = 0..n - 1 /\ Listed(r) BY <1>5, <1>6 DEF Looping, Nd, Resize
<1>8. n \in Nat /\ s \in [Nat -> Clusters] /\ n - 2 \in Nat /\ j \in Nat /\ j <= n - 2
      /\ ch \in Ghosts /\ own \in [Files -> SUBSET Nat] /\ Owned(ch, own)
 <2>1. n \in Nat
  <3>1. PICK a, b : a = g.cur /\ b = g.got OBVIOUS
  <3>2. a \in Nat /\ b \in Nat /\ n = a + b BY <1>5, <1>7, <3>1, NodeFacts
  <3> QED BY <3>2
 <2>2. n - 2 \in Nat /\ j \in Nat /\ j <= n - 2 BY <1>6, <2>1
 <2> QED BY <1>5, <2>1, <2>2 DEF Layout, Ghosts
<1>9. x.k = "noncontiguous" /\ y.k = "fat" BY DEF Stage, Linking
<1> HIDE DEF x, y
<1>10. Listed(v)
 <2>1. Listed(<<g>> \o r) BY <1>7, InFront
 <2> QED BY <2>1, InFront
<1> HIDE DEF v
<1>11. Listed(w) BY <1>10, InFront
<1>12. j < n - 2
 <2>1. CASE j = n - 2
  <3>1. Leads(Links(s, n - 2, n - 2) \o (<<x>> \o v), x, v) BY <1>8, <1>9, <1>10, SpreadLast
  <3>2. Head(todo) = x BY <1>6, <2>1, <3>1 DEF Leads
  <3> QED BY <1>9, <3>2 DEF Now
 <2> QED BY <1>8, <2>1
<1> HIDE DEF w
<1>13. h = Linking(s[j], s[j + 1]) /\ t = Links(s, j + 1, n - 2) \o w
 <2>1. Leads(Links(s, j, n - 2) \o w, Linking(s[j], s[j + 1]), Links(s, j + 1, n - 2) \o w) BY <1>8, <1>11, <1>12, SpreadMore
 <2> QED BY <1>6, <2>1 DEF Leads, Now
<1>14. h.c = s[j] /\ h.next = s[j + 1] BY <1>13 DEF Linking
<1>15. PICK z, j1 : (z = IF j + 1 < n - 2 THEN Linking(s[j + 1], s[(j + 1) + 1]) ELSE x) /\ j1 = j + 1 OBVIOUS
<1>16. z.k \in {"fat", "noncontiguous"} /\ j1 \in Nat /\ j1 <= n - 2 /\ j1 \in 0..n - 2
 <2>1. z.k \in {"fat", "noncontiguous"} BY <1>9, <1>15 DEF Linking
 <2> QED BY <1>8, <1>12, <1>15, <2>1
<1>17. \E q : Leads(Links(s, j1, n - 2) \o w, z, q)
 <2>1. CASE j1 < n - 2
  <3>1. Leads(Links(s, j1, n - 2) \o w, Linking(s[j1], s[j1 + 1]), Links(s, j1 + 1, n - 2) \o w)
   BY <1>8, <1>11, <1>16, <2>1, SpreadMore
  <3>2. z = Linking(s[j1], s[j1 + 1]) BY <1>15, <2>1
  <3> QED BY <3>1, <3>2
 <2>2. CASE ~(j1 < n - 2)
  <3>1. j1 = n - 2 /\ z = x BY <1>8, <1>15, <1>16, <2>2
  <3>2. Leads(Links(s, n - 2, n - 2) \o (<<x>> \o v), x, v) BY <1>8, <1>9, <1>10, SpreadLast
  <3> QED BY <3>1, <3>2 DEF w
 <2> QED BY <2>1, <2>2
<1>18. todo' = Links(s, j1, n - 2) \o w /\ Listed(todo') /\ todo' # <<>> /\ Now' = z /\ file' = file
 <2>1. PICK q : Leads(Links(s, j1, n - 2) \o w, z, q) BY <1>17
 <2>2. Continue(Links(s, j1, n - 2) \o w) BY <1>13, <1>15
 <2>3. PICK all : all = Links(s, j1, n - 2) \o w OBVIOUS
 <2>4. todo' = all /\ Listed(todo') /\ todo' # <<>> /\ Now' = z /\ file' = file BY <2>1, <2>2, <2>3, ContinueIs
 <2> QED BY <2>3, <2>4
<1>19. Looping(g, r, ch, own)' BY <1>6, <1>18, LoopingKept
<1>20. j \in own[f] BY <1>7, <1>8
<1>21. Relinked(ch[f][j], h.next) /\ h.next \in Clusters
 <2>1. s[j + 1] \in Clusters BY <1>8
 <2> QED BY <1>5, <1>14, <2>1
<1>22. OthersKept(ch[f], own[f], j)
 <2>1. PICK e : e = h.next OBVIOUS
 <2>2. Relinked(ch[f][j], e) BY <1>21, <2>1
 <2> QED BY <1>8, <1>20, <2>2, OtherLinks
<1>23. fat'[s[j]] = s[j + 1]
 <2>1. s[j] \in Clusters /\ DOMAIN fat = Clusters BY <1>8 DEF Typed
 <2> QED BY <1>5, <1>14, <2>1 DEF Relinked
<1>24. \A i \in 0..j1 - 1 : fat'[s[i]] = s[i + 1]
 <2> TAKE i \in 0..j1 - 1
 <2>1. CASE i = j BY <1>23, <2>1
 <2>2. CASE i # j
  <3>1. i \in 0..j - 1 /\ i \in own[f] BY <1>7, <1>8, <1>12, <1>15, <2>2
  <3>2. fat[s[i]] = s[i + 1] BY <1>6, <3>1
  <3>3. fat'[s[i]] = fat[s[i]] BY <1>5, <1>22, <2>2, <3>1 DEF OthersKept
  <3> QED BY <3>2, <3>3
 <2> QED BY <2>1, <2>2
<1>25. Strung(node[f], s, n - 1)'
 <2>1. \A c : NextCluster(node[f], c)' = NextCluster(node[f], c) BY <1>6 DEF NextCluster
 <2> QED BY <1>6, <2>1 DEF Strung, Segment
<1>26. Spreading(todo, ch, own)'
 <2>1. todo' = Links(s, j1, n - 2) \o (<<Stage("noncontiguous")>> \o (<<Linking(s[n - 2], s[n - 1])>> \o (<<g>> \o r)))
  BY <1>18 DEF w, v, x, y
 <2>2. node'[f].contiguous /\ file' = f BY <1>6, <1>18
 <2> QED BY <1>5, <1>6, <1>16, <1>19, <1>24, <1>25, <2>1, <2>2 DEF Spreading, Nd
<1>27. Busy(ch, own)'
 <2>1. CASE z.k = "fat"
  <3>1. AtFat(Now, Tail(todo), ch, own)' BY <1>18, <1>26 DEF AtFat
  <3> QED BY <1>18, <2>1, <3>1, AtThat
 <2>2. CASE z.k = "noncontiguous" BY <1>18, <1>26, <2>2, AtThat
 <2> QED BY <1>16, <2>1, <2>2
<1>28. file' = f BY <1>18
<1> QED
 <2>1. PICK e \in Clusters \cup {FREE, END} : e = h.next BY <1>21
 <2>2. Relinked(ch[f][j], e) BY <1>21, <2>1
 <2> QED BY <1>18, <1>20, <1>27, <1>28, <2>2, LinkWritten

\* A link is written.
LEMMA FatStep == ASSUME NEW ch, NEW own, Typed, Layout(ch, own), DeviceWrites, Doing("fat")
    PROVE  Typed' /\ Layout(ch, own)'
<1>1. PICK f, t, h : f = file /\ t = Tail(todo) /\ h = Now OBVIOUS
<1>2. todo # <<>> /\ h.k = "fat" BY <1>1 DEF Doing, Now
<1>3. AtFat(h, t, ch, own) /\ f \in Files BY <1>1, <1>2, AtWhich DEF Layout, AtFat
<1>4. UNCHANGED <<node, cmap, cmapDirty, bitmap, entry, data, want, safe>> /\ Relinked(h.c, h.next)
 BY <1>1, <1>2 DEF DeviceWrites, Doing, Now, Memory, Relinked
<1>5. Continue(t)
 <2>1. Continue(<<>> \o t) /\ Listed(t) BY <1>1, <1>2, InCall DEF DeviceWrites, Goto
 <2> QED BY <2>1, ConcatNil
<1>6. CASE FatEnd(h, t, ch, own) BY <1>1, <1>2, <1>3, <1>4, <1>5, <1>6, FatEndStep
<1>7. CASE FatLink(h, t, ch, own) BY <1>1, <1>2, <1>3, <1>4, <1>5, <1>7, FatLinkStep
<1>8. CASE Spreading(todo, ch, own) BY <1>1, <1>2, <1>3, <1>4, <1>5, <1>8, SpreadStep
<1>9. CASE FatCut(h, t, ch, own) BY <1>1, <1>2, <1>3, <1>4, <1>5, <1>9, FatCutStep
<1>10. CASE FatFree(h, t, ch, own) BY <1>1, <1>2, <1>3, <1>4, <1>5, <1>10, FatFreeStep
<1> QED BY <1>3, <1>6, <1>7, <1>8, <1>9, <1>10 DEF AtFat

\* What is to be done next when a write of a call succeeded.
LEMMA WriteGoes == ASSUME Typed, DeviceWrites, todo # <<>> PROVE Continue(Tail(todo)) /\ safe' = safe /\ failed' = failed
<1>1. Continue(<<>> \o Tail(todo)) /\ Listed(Tail(todo)) BY InCall DEF DeviceWrites, Goto
<1> QED BY <1>1, ConcatNil DEF DeviceWrites

\* A cluster is erased.
LEMMA EraseStep == ASSUME NEW ch, NEW own, Typed, Layout(ch, own), DeviceWrites, Doing("erase")
    PROVE  Typed' /\ Layout(ch, own)'
<1>1. PICK f, t, h, s : f = file /\ t = Tail(todo) /\ h = Now /\ s = ch[f] OBVIOUS
<1>2. todo # <<>> /\ h.k = "erase" BY <1>1 DEF Doing, Now
<1>3. Erasing(todo, ch, own) BY <1>2, AtWhich DEF Layout
<1>4. UNCHANGED <<node, cmap, cmapDirty, fat, bitmap, entry, want>> /\ data' = [data EXCEPT ![h.c] = Zero]
 BY <1>1, <1>2 DEF DeviceWrites, Doing, Now, Memory
<1>5. Continue(t) /\ safe' = safe BY <1>1, <1>2, WriteGoes
<1>6. PICK to, p \in 0..MaxSize : \E r :
       /\ file \in Files
       /\ p <= to /\ Nd.valid <= p /\ Zeros(ch, p)
       /\ Sized(file, ch, own, to) /\ Loose(file)
       /\ Rest(r, to)
       /\ todo = Erases(ch[file], p, to) \o (<<Sizing(to, TRUE)>> \o r) BY <1>3 DEF Erasing
<1>7. PICK r :
       /\ f \in Files
       /\ p <= to /\ node[f].valid <= p /\ Zeros(ch, p)
       /\ Sized(f, ch, own, to) /\ Loose(f)
       /\ Rest(r, to)
       /\ todo = Erases(s, p, to) \o (<<Sizing(to, TRUE)>> \o r) BY <1>1, <1>6 DEF Nd
<1> DEFINE x == Sizing(to, TRUE)
           w == <<x>> \o r
<1>8. x.k = "setSize" /\ x.to = to BY DEF Sizing
<1>9. Listed(r) /\ MaxSize \in Nat /\ IsNode(node[f]) /\ node[f].valid \in Nat BY <1>7, RestListed, NodeFacts
<1>10. to \in Nat /\ p \in Nat BY <1>9
<1> HIDE DEF x
<1>11. Listed(w) BY <1>9, InFront
<1>12. p < to
 <2>1. CASE p = to
  <3>1. Leads(Erases(s, to, to) \o (<<x>> \o r), x, r) BY <1>8, <1>9, <1>10, EraseLast
  <3>2. Head(todo) = x BY <1>7, <2>1, <3>1 DEF Leads, x
  <3> QED BY <1>1, <1>2, <1>8, <3>2 DEF Now
 <2> QED BY <1>7, <1>10, <2>1
<1>13. todo = Erases(s, p, to) \o w BY <1>7 DEF x
<1> HIDE DEF w
<1>14. t = Erases(s, p + 1, to) \o w
 <2>1. Leads(Erases(s, p, to) \o w, [k |-> "erase", c |-> s[p]], Erases(s, p + 1, to) \o w) BY <1>10, <1>11, <1>12, EraseMore
 <2> QED BY <1>1, <1>13, <2>1 DEF Leads
<1>15. PICK z, q : (z = IF p + 1 < to THEN [k |-> "erase", c |-> s[p + 1]] ELSE x) /\ q = p + 1 OBVIOUS
<1>16. z.k \in {"erase", "setSize"} /\ q \in Nat /\ q <= to /\ q \in 0..MaxSize /\ node[f].valid <= q
 <2>1. z.k \in {"erase", "setSize"} BY <1>8, <1>15
 <2> QED BY <1>7, <1>9, <1>10, <1>12, <1>15, <2>1
<1>17. PICK y : Leads(Erases(s, q, to) \o w, z, y)
 <2>1. CASE q < to
  <3>1. Leads(Erases(s, q, to) \o w, [k |-> "erase", c |-> s[q]], Erases(s, q + 1, to) \o w)
   BY <1>10, <1>11, <1>16, <2>1, EraseMore
  <3>2. z = [k |-> "erase", c |-> s[q]] BY <1>15, <2>1
  <3> QED BY <3>1, <3>2
 <2>2. CASE ~(q < to)
  <3>1. q = to /\ z = x BY <1>10, <1>15, <1>16, <2>2
  <3>2. Leads(Erases(s, to, to) \o (<<x>> \o r), x, r) BY <1>8, <1>9, <1>10, EraseLast
  <3> QED BY <3>1, <3>2 DEF w
 <2> QED BY <2>1, <2>2
<1>18. todo' = Erases(s, q, to) \o w /\ Listed(todo') /\ todo' # <<>> /\ Now' = z /\ Tail(todo') = y /\ file' = file
 <2>1. PICK all : all = Erases(s, q, to) \o w OBVIOUS
 <2>2. Continue(all) /\ Leads(all, z, y) BY <1>5, <1>14, <1>15, <1>17, <2>1
 <2>3. todo' = all /\ Listed(todo') /\ todo' # <<>> /\ Now' = z /\ Tail(todo') = y /\ file' = file BY <2>2, ContinueIs
 <2> QED BY <2>1, <2>3
<1>19. Sized(f, ch, own, to)' /\ Loose(f)' /\ Rest(r, to)'
 <2>1. Sized(f, ch, own, to)' /\ Loose(f)' BY <1>4, <1>7, AllKept
 <2>2. Rest(r, to)' BY <1>1, <1>4, <1>7, <1>18, RestKept DEF Nd
 <2> QED BY <2>1, <2>2
<1>z. Zeros(ch, q)'
 <2>1. Head(todo) = [k |-> "erase", c |-> s[p]]
  <3>1. Leads(Erases(s, p, to) \o w, [k |-> "erase", c |-> s[p]], Erases(s, p + 1, to) \o w) BY <1>10, <1>11, <1>12, EraseMore
  <3> QED BY <1>13, <3>1 DEF Leads
 <2>2. h.c = s[p] BY <1>1, <2>1 DEF Now
 <2>3. DOMAIN data = Clusters /\ file' = f /\ node' = node BY <1>1, <1>4, <1>18 DEF Typed
 <2>4. \A i \in Nat : node[f].valid <= i /\ i < p => data[s[i]] = Zero BY <1>1, <1>7 DEF Zeros, Nd
 <2>5. \A i \in Nat : i < to => s[i] \in Clusters
  <3>1. own[f] = 0..to - 1 BY <1>7 DEF Sized
  <3>2. \A i \in own[f] : s[i] \in Clusters BY <1>1, <1>7 DEF Layout, Owned, Typed
  <3> QED BY <1>10, <3>1, <3>2
 <2>6. \A i \in Nat : node[f].valid <= i /\ i < q => data'[s[i]] = Zero
  <3> SUFFICES ASSUME NEW i \in Nat, node[f].valid <= i, i < q  PROVE data'[s[i]] = Zero OBVIOUS
  <3>1. data'[s[p]] = Zero BY <1>4, <1>10, <1>12, <2>2, <2>3, <2>5
  <3>2. CASE i = p BY <3>1, <3>2
  <3>3. CASE i # p
   <4>1. data[s[i]] = Zero BY <1>10, <1>15, <2>4, <3>3
   <4>2. s[i] = s[p] \/ data'[s[i]] = data[s[i]]
    <5>1. s[i] \in Clusters BY <1>10, <1>16, <2>5
    <5> QED BY <1>4, <2>2, <2>3, <5>1
   <4> QED BY <3>1, <4>1, <4>2
  <3> QED BY <3>2, <3>3
 <2> QED BY <1>1, <2>3, <2>6 DEF Zeros, Nd
<1>20. Busy(ch, own)'
 <2>1. CASE q < to
  <3>1. Erasing(todo, ch, own)'
   <4>1. todo' = Erases(s, q, to) \o (<<Sizing(to, TRUE)>> \o r) /\ node'[f].valid <= q BY <1>4, <1>16, <1>18 DEF w, x
   <4> QED BY <1>1, <1>7, <1>16, <1>18, <1>19, <1>z, <4>1 DEF Erasing, Nd
  <3>2. z.k = "erase" BY <1>15, <2>1
  <3> QED BY <1>18, <3>1, <3>2, AtThat
 <2>2. CASE ~(q < to)
  <3>1. q = to /\ z = x BY <1>10, <1>15, <1>16, <2>2
  <3>2. Leads(Erases(s, to, to) \o (<<x>> \o r), x, r) BY <1>8, <1>9, <1>10, EraseLast
  <3>3. y = r BY <1>17, <3>1, <3>2 DEF Leads, w
  <3>e. x.erase /\ (Zeros(ch, to)') BY <1>z, <3>1 DEF x, Sizing
  <3>4. AtSetSize(Now, Tail(todo), ch, own)' BY <1>1, <1>7, <1>8, <1>18, <1>19, <3>1, <3>3, <3>e DEF AtSetSize
  <3> QED BY <1>8, <1>18, <3>1, <3>4, AtThat
 <2> QED BY <2>1, <2>2
<1>21. DOMAIN data' = Clusters /\ WantTyped' /\ OnlyNode(f) /\ IsNode(node'[f]) BY <1>4, <1>9, KeptNode DEF Typed, WantTyped
<1> QED BY <1>1, <1>4, <1>5, <1>7, <1>18, <1>20, <1>21, Concluded

------------------------------
\* What a data write says of the places of its file.
LEMMA MarkedTyped == ASSUME Typed, NEW f \in Files, NEW T, NEW A, A \subseteq Anything,
           want' = [want EXCEPT ![f] = [j \in DOMAIN @ |-> IF j \in T THEN A ELSE @[j]]] PROVE WantTyped'
<1> DEFINE w == [j \in DOMAIN want[f] |-> IF j \in T THEN A ELSE want[f][j]]
<1>1. want[f] \in Seq(SUBSET Anything) /\ Len(want[f]) <= MaxSize BY DEF Typed
<1>2. DOMAIN want[f] = 1..Len(want[f]) /\ Len(want[f]) \in Nat /\ \A j \in 1..Len(want[f]) : want[f][j] \in SUBSET Anything
 BY <1>1, LenProperties, ElementOfSeq
<1>3. w \in [1..Len(want[f]) -> SUBSET Anything] BY <1>2
<1> HIDE DEF w
<1>4. w \in Seq(SUBSET Anything) BY <1>2, <1>3, SeqDef
<1>5. DOMAIN w = 1..Len(want[f]) BY <1>3
<1>6. Len(w) = Len(want[f]) BY <1>2, <1>4, <1>5, LenProperties
<1>7. want' = [want EXCEPT ![f] = w] BY DEF w
<1>8. want' \in [Files -> Seq(SUBSET Anything)] /\ \A g \in Files : want'[g] = IF g = f THEN w ELSE want[g]
 BY <1>4, <1>7 DEF Typed
<1>9. \A g \in Files : Len(want'[g]) <= MaxSize BY <1>1, <1>6, <1>8 DEF Typed
<1> QED BY <1>8, <1>9 DEF WantTyped

\* A write of data ends at a place of the file.
LEMMA Written2 == ASSUME NEW f \in Files, Typed, NEW e \in Nat, e <= node[f].size
    PROVE  Max({node[f].valid, e}) \in 0..node[f].size /\ Max({node[f].valid, e}) >= node[f].valid
<1>1. PICK v, z : v = node[f].valid /\ z = node[f].size OBVIOUS
<1>2. v \in 0..z /\ z \in Nat /\ e \in 0..z BY <1>1, NodeFacts DEF IsNode
<1>3. {v, e} \subseteq 0..z /\ {v, e} # {} BY <1>2
<1>4. Max({v, e}) \in {v, e} /\ \A y \in {v, e} : Max({v, e}) >= y BY <1>2, <1>3, MaxIs
<1> QED BY <1>1, <1>2, <1>4

\* Data is written.
LEMMA DataStep == ASSUME NEW ch, NEW own, Typed, Layout(ch, own), DeviceWrites, Doing("data")
    PROVE  Typed' /\ Layout(ch, own)'
<1>1. PICK f, t, h, w, s, i, n : f = file /\ t = Tail(todo) /\ h = Now /\ w = Head(t) /\ s = ch[f] /\ i = h.i /\ n = h.n OBVIOUS
<1>2. todo # <<>> /\ h.k = "data" BY <1>1 DEF Doing, Now
<1>3. AtData(h, t, ch, own) BY <1>1, <1>2, AtWhich DEF Layout
<1>4. /\ f \in Files /\ Quiet(f, ch, own) /\ node[f].state = "linked" /\ i \in Nat /\ n \in Nat \ {0}
      /\ t # <<>> /\ Tail(t) = <<>> /\ IsWrite(w, ch) /\ w.i = i + n BY <1>1, <1>3 DEF AtData, Nd
<1>5. /\ DOMAIN w = {"k", "c", "i", "n", "from"} /\ w.k = "write" /\ w.i \in Nat /\ w.n \in Nat /\ w.from \in 0..w.i
      /\ w.i + w.n <= node[f].size /\ (w.n > 0 => w.c = s[w.i]) BY <1>1, <1>4 DEF IsWrite, Nd
<1>6. Listed(t) /\ t = <<w>> \o <<>> /\ IsNode(node[f]) /\ node[f].size \in Nat /\ s \in [Nat -> Clusters]
 <2>1. Listed(t) /\ IsNode(node[f]) /\ node[f].size \in Nat BY <1>1, <1>2, <1>4, InCall, NodeFacts
 <2>2. t = <<w>> \o <<>> BY <1>1, <1>4, <2>1, HeadFirst
 <2> QED BY <1>1, <1>4, <2>1, <2>2 DEF Layout, Ghosts
<1>7. PICK e, v : e = i + n /\ v = Max({node[f].valid, e}) OBVIOUS
<1>8. v \in 0..node[f].size /\ e \in Nat
 <2>1. e \in Nat /\ e <= node[f].size BY <1>4, <1>5, <1>6, <1>7
 <2> QED BY <1>4, <1>7, <2>1, Written2
<1> DEFINE m == [node[f] EXCEPT !.valid = v]
<1>9. /\ UNCHANGED <<cmap, cmapDirty, fat, bitmap, entry>> /\ SetNode(m)
      /\ data' = Written(n)
      /\ want' = [want EXCEPT ![f] = [j \in DOMAIN @ |-> IF j - 1 \in Places THEN {"own"} ELSE @[j]]]
 <2>1. DeviceWrites /\ ~Doing("fat") /\ ~Doing("erase") /\ ~Doing("entry") /\ ~Doing("bitmap") BY <1>1, <1>2 DEF Doing, Now
 <2> QED BY <1>1, <1>7, <2>1 DEF DeviceWrites, Nd
<1>10. Continue(<<w>> \o <<>>) /\ safe' = safe BY <1>1, <1>2, <1>6, WriteGoes
<1>11. OnlyNode(f) /\ node'[f] = m BY <1>1, <1>4, <1>9, SetNodeIs
<1>12. /\ DOMAIN m = DOMAIN node[f] /\ m.start = node[f].start /\ m.size = node[f].size /\ m.valid = v
       /\ m.state = node[f].state /\ m.at = node[f].at /\ m.ptr = node[f].ptr BY <1>6 DEF IsNode
<1>13. m.contiguous = node[f].contiguous BY <1>6 DEF IsNode
<1>14. m.dirty = node[f].dirty BY <1>6 DEF IsNode
<1> HIDE DEF m
<1>15. IsNode(m) BY <1>6, <1>8, <1>12 DEF IsNode
<1>16. Quiet(f, ch, own)'
 <2>1. Pointed(node[f], ch[f], node[f].size) BY <1>4 DEF Quiet, Settled, Sized
 <2>2. Pointed(node[f], ch[f], node[f].size)' BY <1>11, <1>12, <2>1 DEF Pointed
 <2>3. (node'[f].contiguous <=> node[f].contiguous) /\ (node[f].dirty => node'[f].dirty) BY <1>11, <1>13, <1>14
 <2> QED BY <1>4, <1>9, <1>11, <1>12, <2>2, <2>3, QuietKept
<1>17. Listed(todo') /\ todo' # <<>> /\ Now' = w /\ Tail(todo') = <<>> /\ file' = file
 <2>1. w.k # "catch" BY <1>5
 <2> QED BY <1>10, <2>1, GoesOn, ListedNil
<1>18. IsWrite(w, ch)' BY <1>1, <1>5, <1>11, <1>12, <1>17 DEF IsWrite, Nd
<1>19. AtWrite(Now, Tail(todo), ch, own)' BY <1>1, <1>4, <1>11, <1>12, <1>16, <1>17, <1>18 DEF AtWrite, Nd
<1>20. Busy(ch, own)' BY <1>5, <1>17, <1>19, AtThat
<1>21. WantTyped'
 <2>1. PICK A, T, P : A = {"own"} /\ P = Places /\ T = {j \in DOMAIN want[f] : j - 1 \in P} OBVIOUS
 <2>2. want' = [want EXCEPT ![f] = [j \in DOMAIN @ |-> IF j \in T THEN A ELSE @[j]]] BY <1>9, <2>1
 <2>3. A \subseteq Anything BY <2>1 DEF Anything
 <2> QED BY <1>4, <2>2, <2>3, MarkedTyped
<1>22. DOMAIN data' = Clusters BY <1>9 DEF Written
<1> QED BY <1>1, <1>4, <1>9, <1>10, <1>11, <1>15, <1>17, <1>20, <1>21, <1>22, Concluded

\* A write of data fails.
LEMMA DataFails == ASSUME NEW ch, NEW own, Typed, Layout(ch, own), DeviceFails, Doing("data")
    PROVE  Typed' /\ Layout(ch, own)'
<1>1. PICK f, t, h, w : f = file /\ t = Tail(todo) /\ h = Now /\ w = Head(t) OBVIOUS
<1>2. todo # <<>> /\ h.k = "data" BY <1>1 DEF Doing, Now
<1>3. AtData(h, t, ch, own) BY <1>1, <1>2, AtWhich DEF Layout
<1>4. /\ f \in Files /\ Quiet(f, ch, own) /\ t # <<>> /\ Tail(t) = <<>> /\ w.k = "write" BY <1>1, <1>3 DEF AtData, Nd, IsWrite
<1>5. Listed(t) /\ t = <<w>> \o <<>> /\ Listed(todo) /\ todo = <<h>> \o t
 <2>1. Listed(t) /\ Listed(todo) /\ todo = <<h>> \o t BY <1>1, <1>2, InCall
 <2>2. t = <<w>> \o <<>> BY <1>1, <1>4, <2>1, HeadFirst
 <2> QED BY <2>1, <2>2
<1>6. NoCatch(todo)
 <2>1. NoCatch(t) BY <1>4, <1>5, NoCatchInFront, NoCatchShort, ListedNil
 <2>2. h.k # "catch" BY <1>2
 <2> QED BY <1>5, <2>1, <2>2, NoCatchInFront
<1>7. UNCHANGED <<node, cmap, cmapDirty, fat, bitmap, entry, safe>> /\ Bail BY DEF DeviceFails, Memory
<1>8. todo' = <<>> /\ Listed(todo') /\ file' = NoFile BY <1>5, <1>6, <1>7, BailEnds
<1>9. Quiet(f, ch, own)' /\ OnlyNode(f) /\ IsNode(node'[f]) BY <1>4, <1>7, AllKept, KeptNode, NodeFacts
<1>10. Busy(ch, own)' BY <1>8 DEF Busy
<1>11. /\ \E n \in 0..Now.n : data' = Written(n)
       /\ want' = [want EXCEPT ![file] = [j \in DOMAIN @ |->
                          IF j - 1 \in Now.from..Now.i + Now.n - 1 \/ j > Nd.valid THEN Anything ELSE @[j]]]
 BY <1>1, <1>2 DEF DeviceFails, Now
<1>12. DOMAIN data' = Clusters BY <1>11 DEF Written
<1>13. WantTyped'
 <2>1. PICK A, T : A = Anything /\ T = {j \in DOMAIN want[f] : j - 1 \in Now.from..Now.i + Now.n - 1 \/ j > Nd.valid} OBVIOUS
 <2>2. want' = [want EXCEPT ![f] = [j \in DOMAIN @ |-> IF j \in T THEN A ELSE @[j]]] BY <1>1, <1>11, <2>1
 <2>3. A \subseteq Anything BY <2>1
 <2> QED BY <1>4, <2>2, <2>3, MarkedTyped
<1> QED BY <1>1, <1>4, <1>7, <1>8, <1>9, <1>10, <1>12, <1>13, Concluded

\* v is u without its first d stages.
Dropped(u, v, d) ==
    /\ Listed(v) /\ d \in 0..Len(u) /\ Len(v) = Len(u) - d
    /\ \A i \in 1..Len(v) : v[i] = u[i + d]

\* The end of a list from place m on.
LEMMA EndOf == ASSUME NEW u, Listed(u), NEW m \in 1..Len(u) + 1 PROVE Dropped(u, SubSeq(u, m, Len(u)), m - 1)
<1> DEFINE S == {u[i] : i \in DOMAIN u}
           v == SubSeq(u, m, Len(u))
<1>1. Len(u) \in Nat /\ DOMAIN u = 1..Len(u) BY ListedLen
<1>2. PICK n \in Nat : n = Len(u) BY <1>1
<1>3. m \in Nat \ {0} /\ m <= n + 1 BY <1>2
<1>4. \A i \in m..n : u[i] \in S BY <1>1, <1>2, <1>3
<1>5. /\ SubSeq(u, m, n) \in Seq(S)
      /\ Len(SubSeq(u, m, n)) = (IF m <= n THEN n - m + 1 ELSE 0)
      /\ \A i \in 1..n - m + 1 : SubSeq(u, m, n)[i] = u[m + i - 1]
 <2>1. m \in Int /\ n \in Int BY <1>2, <1>3
 <2> QED BY <1>4, <2>1, SubSeqProperties
<1>6. v \in Seq(S) /\ Len(v) = n - (m - 1) /\ \A i \in 1..n - m + 1 : v[i] = u[m + i - 1] BY <1>2, <1>3, <1>5
<1> HIDE DEF v, S
<1>7. Listed(v) BY <1>6, ListedOf
<1>8. \A i \in 1..Len(v) : v[i] = u[i + (m - 1)]
 <2>1. \A i \in 1..Len(v) : i \in 1..n - m + 1 /\ m + i - 1 = i + (m - 1) BY <1>3, <1>6
 <2> QED BY <1>6, <2>1
<1>9. Dropped(u, v, m - 1)
 <2>1. m - 1 \in 0..Len(u) BY <1>2, <1>3
 <2> QED BY <1>2, <1>6, <1>7, <1>8, <2>1 DEF Dropped
<1> QED BY <1>9 DEF v

\* Behind the catches in front there is nothing, or a stage that is none.
Past(u, v) ==
    \E d : /\ Dropped(u, v, d) /\ \A i \in 1..d : u[i].k = "catch"
           /\ v # <<>> => v[1].k # "catch"

\* PastCatch returns what stands behind the callers in front.
LEMMA PastIs == ASSUME NEW u, Listed(u) PROVE Past(u, PastCatch(u))
<1> DEFINE on == {i \in DOMAIN u : u[i].k # "catch"}
<1>1. Len(u) \in Nat /\ DOMAIN u = 1..Len(u) BY ListedLen
<1>2. CASE on = {}
 <2>1. PastCatch(u) = <<>> BY <1>2 DEF PastCatch
 <2>2. Listed(<<>>) /\ Len(<<>>) = 0 BY ListedNil
 <2>3. \A i \in 1..Len(u) : u[i].k = "catch" BY <1>1, <1>2
 <2>4. Dropped(u, <<>>, Len(u)) BY <1>1, <2>2 DEF Dropped
 <2> QED BY <2>1, <2>3, <2>4 DEF Past
<1>3. CASE on # {}
 <2>1. on \subseteq Nat BY <1>1
 <2>2. PICK m : m = Min(on) OBVIOUS
 <2>3. m \in on /\ \A y \in on : m <= y BY <1>3, <2>1, <2>2, MinIs
 <2>4. PastCatch(u) = SubSeq(u, m, Len(u)) BY <1>3, <2>2 DEF PastCatch
 <2>5. PICK v : v = SubSeq(u, m, Len(u)) OBVIOUS
 <2>6. m \in 1..Len(u) /\ u[m].k # "catch" BY <1>1, <2>3
 <2>7. Dropped(u, v, m - 1)
  <3>1. m \in 1..Len(u) + 1 BY <1>1, <2>6
  <3> QED BY <2>5, <3>1, EndOf
 <2>8. \A i \in 1..m - 1 : u[i].k = "catch"
  <3> SUFFICES ASSUME NEW i \in 1..m - 1, u[i].k # "catch" PROVE FALSE OBVIOUS
  <3>1. i \in DOMAIN u /\ ~(m <= i) BY <1>1, <2>6
  <3> QED BY <2>3, <3>1
 <2>9. v[1].k # "catch"
  <3>1. 1 \in 1..Len(v) /\ 1 + (m - 1) = m BY <1>1, <2>6, <2>7 DEF Dropped
  <3> QED BY <2>6, <2>7, <3>1 DEF Dropped
 <2> QED BY <2>4, <2>5, <2>7, <2>8, <2>9 DEF Past
<1> QED BY <1>2, <1>3

------------------------------
\* What is left of a flush stays one when its first stages are done.
LEMMA FlushListDropped == ASSUME NEW u, NEW v, NEW d, NEW L, FlushList(u, L), Dropped(u, v, d) PROVE FlushList(v, L)
<1>1. Listed(v) /\ d \in 0..Len(u) /\ Len(v) = Len(u) - d /\ (\A i \in 1..Len(v) : v[i] = u[i + d]) /\ Listed(u)
 BY DEF Dropped, FlushList
<1>2. PICK a, b \in Nat : a = Len(u) /\ b = Len(v) BY <1>1, ListedLen
<1>3. d \in Nat /\ b = a - d /\ d <= a BY <1>1, <1>2
<1>4. ASSUME NEW i \in 1..b
      PROVE  \/ v[i] \in {Stage("catch"), Stage("flushMap")}
             \/ \E f \in L : v[i] = [k |-> "flushNode", f |-> f]
             \/ v[i] = Stage("flushed") /\ (i = b \/ (i = b - 1 /\ v[b] = Stage("unmounted")))
             \/ v[i] = Stage("unmounted") /\ i = b
 <2>1. PICK j \in 1..a : j = i + d BY <1>3
 <2>2. \/ u[j] \in {Stage("catch"), Stage("flushMap")}
       \/ \E f \in L : u[j] = [k |-> "flushNode", f |-> f]
       \/ u[j] = Stage("flushed") /\ (j = a \/ (j = a - 1 /\ u[a] = Stage("unmounted")))
       \/ u[j] = Stage("unmounted") /\ j = a BY <1>2 DEF FlushList
 <2>3. v[i] = u[j] /\ (j = a => i = b) /\ (j = a - 1 => i = b - 1) BY <1>1, <1>2, <1>3, <2>1
 <2>4. v[b] = u[a]
  <3>1. b \in 1..Len(v) /\ b + d = a BY <1>2, <1>3
  <3> QED BY <1>1, <3>1
 <2> QED BY <2>2, <2>3, <2>4
<1> QED BY <1>1, <1>2, <1>4 DEF FlushList

\* What waits for a stage behind those that are done.
LEMMA PendingDropped == ASSUME NEW u, NEW v, NEW d, Dropped(u, v, d), Listed(u)
    PROVE  /\ \A f : NodeDue(f, u) /\ (\A i \in 1..d : ~(u[i].k \in {"flushNode", "clean"} /\ u[i].f = f)) => NodeDue(f, v)
           /\ MapDue(u) /\ (\A i \in 1..d : u[i].k \notin {"flushMap", "bitmap"}) => MapDue(v)
<1>1. Listed(v) /\ d \in 0..Len(u) /\ Len(v) = Len(u) - d /\ (\A i \in 1..Len(v) : v[i] = u[i + d]) BY DEF Dropped
<1>2. PICK a, b \in Nat : a = Len(u) /\ b = Len(v) BY <1>1, ListedLen
<1>3. d \in Nat /\ b = a - d /\ d <= a BY <1>1, <1>2
<1>4. ASSUME NEW j \in 1..a, j \notin 1..d PROVE j - d \in 1..b /\ v[j - d] = u[j]
 <2>1. j - d \in 1..b /\ (j - d) + d = j BY <1>3, <1>4
 <2> QED BY <1>1, <1>2, <2>1
<1>5. ASSUME NEW f, NodeDue(f, u), \A i \in 1..d : ~(u[i].k \in {"flushNode", "clean"} /\ u[i].f = f)
      PROVE  NodeDue(f, v)
 <2>1. PICK j \in 1..a : u[j].k \in {"flushNode", "clean"} /\ u[j].f = f BY <1>2, <1>5 DEF NodeDue
 <2>2. j \notin 1..d BY <1>5, <2>1
 <2>3. j - d \in 1..b /\ v[j - d] = u[j] BY <1>4, <2>2
 <2> QED BY <1>2, <2>1, <2>3 DEF NodeDue
<1>6. ASSUME MapDue(u), \A i \in 1..d : u[i].k \notin {"flushMap", "bitmap"} PROVE MapDue(v)
 <2>1. PICK j \in 1..a : u[j].k \in {"flushMap", "bitmap"} BY <1>2, <1>6 DEF MapDue
 <2>2. j \notin 1..d BY <1>6, <2>1
 <2>3. j - d \in 1..b /\ v[j - d] = u[j] BY <1>4, <2>2
 <2> QED BY <1>2, <2>1, <2>3 DEF MapDue
<1> QED BY <1>5, <1>6

\* The flush goes on behind its catches.
LEMMA FlushGoes == ASSUME NEW ch, NEW own, file = NoFile, NEW u, FlushTail(u)', Pending(u)', Continue(u)
    PROVE  Busy(ch, own)' /\ Listed(todo') /\ file' = NoFile
<1>0. PICK L : L = Linked' OBVIOUS
<1>1. Listed(u) /\ FlushList(u, L) BY <1>0 DEF FlushTail, FlushList
<1>2. Past(u, todo') /\ file' = NoFile BY <1>1, PastIs DEF Continue
<1>3. PICK v : v = todo' OBVIOUS
<1>4. PICK d : Dropped(u, v, d) /\ (\A i \in 1..d : u[i].k = "catch") /\ (v # <<>> => v[1].k # "catch") BY <1>2, <1>3 DEF Past
<1>5. Listed(v) BY <1>4 DEF Dropped
<1>6. FlushList(v, L) /\ FlushTail(v)'
 <2>1. FlushList(v, L) BY <1>1, <1>4, FlushListDropped
 <2> QED BY <1>0, <2>1 DEF FlushTail
<1>7. CASE v = <<>> BY <1>2, <1>3, <1>5, <1>7 DEF Busy
<1>8. CASE v # <<>>
 <2>1. Head(v) = v[1] /\ 1 \in 1..Len(v) BY <1>5, <1>8, ListedLen
 <2>2. PICK h, t : h = v[1] /\ t = Tail(v) OBVIOUS
 <2>3. h.k # "catch" BY <1>4, <1>8, <2>2
 <2>4. h.k \in {"flushNode", "flushMap", "flushed", "unmounted"}
  <3>1. \/ h \in {Stage("catch"), Stage("flushMap"), Stage("flushed"), Stage("unmounted")}
        \/ \E f \in L : h = [k |-> "flushNode", f |-> f] BY <1>6, <2>1, <2>2 DEF FlushList
  <3>2. CASE h \in {Stage("catch"), Stage("flushMap"), Stage("flushed"), Stage("unmounted")} BY <2>3, <3>2 DEF Stage
  <3>3. CASE \E f \in L : h = [k |-> "flushNode", f |-> f] BY <3>3
  <3> QED BY <3>1, <3>2, <3>3
 <2>5. Pending(v)'
  <3>1. \A f : NodeDue(f, u) => NodeDue(f, v) BY <1>1, <1>4, PendingDropped
  <3>2. MapDue(u) => MapDue(v) BY <1>1, <1>4, PendingDropped
  <3> QED BY <3>1, <3>2 DEF Pending, NodeDue, MapDue
 <2>6. Flushing(Now, Tail(todo))'
  <3>1. Now' = h BY <1>3, <2>1, <2>2 DEF Now
  <3> QED BY <1>2, <1>3, <1>6, <2>4, <2>5, <3>1 DEF Flushing
 <2>7. Busy(ch, own)'
  <3>1. Now'.k \in FlushKinds \cup {"entry"} /\ todo' # <<>> BY <1>3, <1>8, <2>1, <2>2, <2>4 DEF Now, FlushKinds
  <3> QED BY <2>6, <3>1, AtThat
 <2> QED BY <1>2, <1>3, <1>5, <2>7
<1> QED BY <1>7, <1>8

\* What has to be shown of a step between two calls on files.
LEMMA Between == ASSUME NEW ch, NEW own, Typed, Layout(ch, own), file' = NoFile,
           DOMAIN node' = Files, \A f \in Files : IsNode(node'[f]),
           DOMAIN entry' = Files, \A f \in Files : entry'[f].start \in Clusters \cup {FREE} /\ entry'[f].valid \in Nat,
           UNCHANGED <<cmap, fat, data, want>>, safe' \subseteq Files, bitmap' \subseteq Clusters,
           \A f \in Files : Quiet(f, ch, own)', Readable', MapClean', Listed(todo'), Busy(ch, own)'
    PROVE  Typed' /\ Layout(ch, own)'
<1>1. Owned(ch, own)' BY DEF Layout, Owned
<1>2. Layout(ch, own)' BY <1>1 DEF Layout
<1>3. Typed' BY DEF Typed, IsNode
<1> QED BY <1>2, <1>3

\* A step outside every file that changes no memory but the stages keeps the structure.
LEMMA BetweenSame == ASSUME NEW ch, NEW own, Typed, Layout(ch, own), file = NoFile, file' = NoFile,
           UNCHANGED <<node, cmap, cmapDirty, fat, bitmap, entry, data, want>>, safe' \subseteq Files,
           Listed(todo'), Busy(ch, own)' PROVE Typed' /\ Layout(ch, own)'
<1>1. \A f \in Files : Quiet(f, ch, own) BY VolumeAssumption DEF Layout
<1>2. \A f \in Files : Quiet(f, ch, own)' BY <1>1, AllKept
<1>3. Readable' /\ MapClean' BY DEF Layout, Readable, MapClean, CheckNode, Invalid
<1>4. /\ DOMAIN node' = Files /\ \A f \in Files : IsNode(node'[f])
      /\ DOMAIN entry' = Files /\ \A f \in Files : entry'[f].start \in Clusters \cup {FREE} /\ entry'[f].valid \in Nat
      /\ bitmap' \subseteq Clusters BY DEF Typed
<1> QED BY <1>2, <1>3, <1>4, Between

\* A list and its first stage.
LEMMA PendingFront == ASSUME NEW h, NEW t, Listed(t)
    PROVE  /\ \A f : NodeDue(f, <<h>> \o t) <=> (h.k \in {"flushNode", "clean"} /\ h.f = f) \/ NodeDue(f, t)
           /\ MapDue(<<h>> \o t) <=> h.k \in {"flushMap", "bitmap"} \/ MapDue(t)
<1> DEFINE u == <<h>> \o t
<1>1. Listed(u) /\ Len(u) = Len(t) + 1 /\ u[1] = h /\ \A i \in 1..Len(t) : u[i + 1] = t[i] BY InFront
<1>2. PICK n \in Nat : n = Len(t) BY ListedLen
<1> HIDE DEF u
<1>3. \A i \in 1..n + 1 : u[i] = IF i = 1 THEN h ELSE t[i - 1]
 <2> TAKE i \in 1..n + 1
 <2>1. CASE i = 1 BY <1>1, <2>1
 <2>2. CASE i # 1
  <3>1. i - 1 \in 1..Len(t) /\ (i - 1) + 1 = i BY <1>2, <2>2
  <3> QED BY <1>1, <2>2, <3>1
 <2> QED BY <2>1, <2>2
<1>4. ASSUME NEW f PROVE NodeDue(f, u) <=> (h.k \in {"flushNode", "clean"} /\ h.f = f) \/ NodeDue(f, t)
 <2>1. ASSUME NodeDue(f, u) PROVE (h.k \in {"flushNode", "clean"} /\ h.f = f) \/ NodeDue(f, t)
  <3>1. PICK i \in 1..n + 1 : u[i].k \in {"flushNode", "clean"} /\ u[i].f = f BY <1>1, <1>2, <2>1 DEF NodeDue
  <3>2. CASE i = 1 BY <1>1, <3>1, <3>2
  <3>3. CASE i # 1
   <4>1. i - 1 \in 1..Len(t) /\ u[i] = t[i - 1] BY <1>2, <1>3, <3>3
   <4> QED BY <3>1, <4>1 DEF NodeDue
  <3> QED BY <3>2, <3>3
 <2>2. ASSUME h.k \in {"flushNode", "clean"}, h.f = f PROVE NodeDue(f, u)
  <3>1. 1 \in 1..Len(u) BY <1>1, <1>2
  <3> QED BY <1>1, <2>2, <3>1 DEF NodeDue
 <2>3. ASSUME NodeDue(f, t) PROVE NodeDue(f, u)
  <3>1. PICK i \in 1..n : t[i].k \in {"flushNode", "clean"} /\ t[i].f = f BY <1>2, <2>3 DEF NodeDue
  <3>2. i + 1 \in 1..Len(u) /\ u[i + 1] = t[i] BY <1>1, <1>2
  <3> QED BY <3>1, <3>2 DEF NodeDue
 <2> QED BY <2>1, <2>2, <2>3
<1>5. MapDue(u) <=> h.k \in {"flushMap", "bitmap"} \/ MapDue(t)
 <2>1. ASSUME MapDue(u) PROVE h.k \in {"flushMap", "bitmap"} \/ MapDue(t)
  <3>1. PICK i \in 1..n + 1 : u[i].k \in {"flushMap", "bitmap"} BY <1>1, <1>2, <2>1 DEF MapDue
  <3>2. CASE i = 1 BY <1>1, <3>1, <3>2
  <3>3. CASE i # 1
   <4>1. i - 1 \in 1..Len(t) /\ u[i] = t[i - 1] BY <1>2, <1>3, <3>3
   <4> QED BY <3>1, <4>1 DEF MapDue
  <3> QED BY <3>2, <3>3
 <2>2. ASSUME h.k \in {"flushMap", "bitmap"} PROVE MapDue(u)
  <3>1. 1 \in 1..Len(u) BY <1>1, <1>2
  <3> QED BY <1>1, <2>2, <3>1 DEF MapDue
 <2>3. ASSUME MapDue(t) PROVE MapDue(u)
  <3>1. PICK i \in 1..n : t[i].k \in {"flushMap", "bitmap"} BY <1>2, <2>3 DEF MapDue
  <3>2. i + 1 \in 1..Len(u) /\ u[i + 1] = t[i] BY <1>1, <1>2
  <3> QED BY <3>1, <3>2 DEF MapDue
 <2> QED BY <2>1, <2>2, <2>3
<1> QED BY <1>4, <1>5 DEF u

\* A flush and its first stage.
LEMMA FlushFront == ASSUME NEW u, NEW L, FlushList(u, L), u # <<>>
    PROVE  /\ FlushList(Tail(u), L)
           /\ \/ Head(u) \in {Stage("catch"), Stage("flushMap")}
              \/ \E f \in L : Head(u) = [k |-> "flushNode", f |-> f]
              \/ Head(u) = Stage("flushed")
              \/ Head(u) = Stage("unmounted") /\ Tail(u) = <<>>
<1>1. Listed(u) /\ Len(u) \in Nat /\ Len(u) >= 1 BY ListedLen DEF FlushList
<1>2. PICK h, t, n : h = Head(u) /\ t = Tail(u) /\ n = Len(u) OBVIOUS
<1>3. Listed(t) /\ u = <<h>> \o t BY <1>1, <1>2, HeadFirst
<1>4. Len(u) = Len(t) + 1 /\ u[1] = h /\ \A i \in 1..Len(t) : u[i + 1] = t[i] BY <1>3, InFront
<1>5. Len(t) \in Nat BY <1>3, ListedLen
<1>6. Dropped(u, t, 1)
 <2>1. 1 \in 0..Len(u) /\ Len(t) = Len(u) - 1 BY <1>1, <1>4, <1>5
 <2> QED BY <1>3, <1>4, <2>1 DEF Dropped
<1>7. FlushList(t, L) BY <1>6, FlushListDropped
<1>8. \/ h \in {Stage("catch"), Stage("flushMap")}
      \/ \E f \in L : h = [k |-> "flushNode", f |-> f]
      \/ h = Stage("flushed")
      \/ h = Stage("unmounted") /\ n = 1
 <2>1. 1 \in 1..Len(u) BY <1>1
 <2> QED BY <1>2, <1>4, <2>1 DEF FlushList
<1>9. n = 1 => t = <<>>
 <2>1. Listed(<<>>) /\ Len(<<>>) = 0 BY ListedNil
 <2>2. n = 1 => Len(t) = 0 BY <1>2, <1>4, <1>5
 <2> QED BY <1>3, <2>1, <2>2, ListedEqual
<1> QED BY <1>2, <1>7, <1>8, <1>9

\* Flushing the bitmap may be put before what is left of a flush.
LEMMA FlushMapFront == ASSUME NEW t, NEW L, FlushList(t, L) PROVE FlushList(<<Stage("flushMap")>> \o t, L)
<1> DEFINE h == Stage("flushMap")
           u == <<h>> \o t
<1>1. Listed(t) BY DEF FlushList
<1>2. Listed(u) /\ Len(u) = Len(t) + 1 /\ u[1] = h /\ \A i \in 1..Len(t) : u[i + 1] = t[i] BY <1>1, InFront
<1>3. PICK n \in Nat : n = Len(t) BY <1>1, ListedLen
<1> HIDE DEF u
<1>4. ASSUME NEW i \in 1..n + 1
      PROVE  \/ u[i] \in {Stage("catch"), Stage("flushMap")}
             \/ \E f \in L : u[i] = [k |-> "flushNode", f |-> f]
             \/ u[i] = Stage("flushed") /\ (i = n + 1 \/ (i = (n + 1) - 1 /\ u[n + 1] = Stage("unmounted")))
             \/ u[i] = Stage("unmounted") /\ i = n + 1
 <2>1. CASE i = 1 BY <1>2, <2>1
 <2>2. CASE i # 1
  <3>1. PICK j \in 1..n : j + 1 = i
   <4>1. i - 1 \in 1..n /\ (i - 1) + 1 = i BY <2>2
   <4> QED BY <4>1
  <3>2. u[i] = t[j] /\ u[n + 1] = t[n]
   <4>1. n \in 1..Len(t) /\ j \in 1..Len(t) BY <1>3
   <4> QED BY <1>2, <3>1, <4>1
  <3>3. \/ t[j] \in {Stage("catch"), Stage("flushMap")}
        \/ \E f \in L : t[j] = [k |-> "flushNode", f |-> f]
        \/ t[j] = Stage("flushed") /\ (j = n \/ (j = n - 1 /\ t[n] = Stage("unmounted")))
        \/ t[j] = Stage("unmounted") /\ j = n BY <1>3 DEF FlushList
  <3>4. (j = n => i = n + 1) /\ (j = n - 1 => i = (n + 1) - 1) BY <3>1
  <3> QED BY <3>2, <3>3, <3>4
 <2> QED BY <2>1, <2>2
<1> QED BY <1>2, <1>3, <1>4 DEF FlushList, u

\* A flush in progress.
LEMMA InFlush == ASSUME NEW ch, NEW own, Typed, Layout(ch, own), todo # <<>>, file = NoFile
    PROVE  /\ Listed(todo) /\ Listed(Tail(todo)) /\ todo = <<Now>> \o Tail(todo)
           /\ \A f \in Files : Quiet(f, ch, own)
           /\ Linked \subseteq Files /\ safe \subseteq Files
<1>1. \A f \in Files : Quiet(f, ch, own) BY VolumeAssumption DEF Layout
<1> QED BY <1>1, InCall DEF Linked, Typed

\* What a flush still has to do, behind its first stage.
LEMMA PendingBehind == ASSUME NEW h, NEW t, Listed(t), todo = <<h>> \o t, Pending(todo)
    PROVE  ~failed => /\ \A g \in Linked : node[g].dirty => (h.k \in {"flushNode", "clean"} /\ h.f = g) \/ NodeDue(g, t)
                      /\ cmapDirty => h.k \in {"flushMap", "bitmap"} \/ MapDue(t)
<1>1. \A g : NodeDue(g, todo) => (h.k \in {"flushNode", "clean"} /\ h.f = g) \/ NodeDue(g, t) BY PendingFront
<1>2. MapDue(todo) => h.k \in {"flushMap", "bitmap"} \/ MapDue(t) BY PendingFront
<1> QED BY <1>1, <1>2 DEF Pending

\* The entry that a flush writes is one that check_node accepts.
LEMMA EntryOfIs == ASSUME NEW ch, NEW own, Typed, ch \in Ghosts, own \in [Files -> SUBSET Nat], Owned(ch, own),
           NEW f \in Files, Settled(f, ch, own)
    PROVE  /\ EntryOf(node[f]).there /\ CheckNode(EntryOf(node[f])) /\ Matches(EntryOf(node[f]), node[f])
           /\ EntryOf(node[f]).start \in Clusters \cup {FREE} /\ EntryOf(node[f]).valid \in Nat
<1>1. PICK n, s : n = node[f].size /\ s = ch[f] OBVIOUS
<1>2. /\ own[f] = 0..n - 1 /\ Strung(node[f], s, n) /\ n \in Nat /\ IsNode(node[f]) /\ s \in [Nat -> Clusters]
 BY <1>1, NodeFacts DEF Settled, Sized, Ghosts
<1>3. n <= ClusterCount
 <2>1. 0..n - 1 \subseteq own[f] BY <1>2
 <2>2. n \in Nat BY <1>2
 <2> QED BY <2>1, <2>2, SizeBound
<1>4. node[f].start = IF n = 0 THEN FREE ELSE s[0] BY <1>2 DEF Strung
<1>5. n > 0 => ~Invalid(node[f].start)
 <2>1. s[0] \in Clusters BY <1>2
 <2>2. ~Invalid(s[0]) BY <2>1, ClusterNums
 <2> QED BY <1>2, <1>4, <2>2
<1> DEFINE e == EntryOf(node[f])
<1>6. e.start = node[f].start /\ e.size = n /\ e.valid = node[f].valid BY <1>1 DEF EntryOf
<1>7. e.there BY DEF EntryOf
<1>8. e.contiguous <=> node[f].size # 0 /\ node[f].contiguous BY DEF EntryOf
<1> HIDE DEF e
<1>9. CheckNode(e)
 <2>1. node[f].valid \in Nat /\ node[f].valid <= n BY <1>1, <1>2 DEF IsNode
 <2> QED BY <1>1, <1>2, <1>3, <1>4, <1>5, <1>6, <1>8, <2>1 DEF CheckNode
<1>10. Matches(e, node[f]) BY <1>1, <1>6, <1>8 DEF Matches
<1> QED BY <1>2, <1>6, <1>7, <1>9, <1>10 DEF e, IsNode

\* exfat_flush_node, up to its write.
LEMMA FlushNodeStep == ASSUME NEW ch, NEW own, Typed, Layout(ch, own), FlushNode PROVE Typed' /\ Layout(ch, own)'
<1>1. todo # <<>> /\ Doing("flushNode") BY DEF FlushNode, Doing
<1>2. PICK h, t, f : h = Now /\ t = Tail(todo) /\ f = h.f OBVIOUS
<1>3. Flushing(h, t) /\ h.k = "flushNode" BY <1>1, <1>2, AtWhich DEF Layout, FlushKinds, Doing, Now
<1>4. file = NoFile /\ Pending(todo) /\ FlushList(todo, Linked) BY <1>3 DEF Flushing, FlushTail
<1>5. Listed(t) /\ todo = <<h>> \o t BY <1>1, <1>2, <1>4, InFlush
<1>6. FlushList(t, Linked) /\ f \in Linked
 <2>1. /\ FlushList(t, Linked)
       /\ \/ h \in {Stage("catch"), Stage("flushMap")}
          \/ \E x \in Linked : h = [k |-> "flushNode", f |-> x]
          \/ h = Stage("flushed")
          \/ h = Stage("unmounted") BY <1>1, <1>2, <1>4, FlushFront DEF Now
 <2>2. ~(h \in {Stage("catch"), Stage("flushMap")} \/ h = Stage("flushed") \/ h = Stage("unmounted")) BY <1>3 DEF Stage
 <2> QED BY <1>2, <2>1, <2>2
<1>7. UNCHANGED <<node, cmap, cmapDirty, fat, bitmap, entry, data, want, safe, failed>> BY DEF FlushNode, Memory, disk, History
<1>8. Linked' = Linked BY <1>7 DEF Linked
<1>9. ~failed => /\ \A g \in Linked : node[g].dirty => f = g \/ NodeDue(g, t)
                 /\ cmapDirty => MapDue(t)
 <2>1. ~failed => /\ \A g \in Linked : node[g].dirty => (h.k \in {"flushNode", "clean"} /\ h.f = g) \/ NodeDue(g, t)
                  /\ cmapDirty => h.k \in {"flushMap", "bitmap"} \/ MapDue(t) BY <1>4, <1>5, PendingBehind
 <2> QED BY <1>2, <1>3, <2>1
<1>10. ASSUME Busy(ch, own)', Listed(todo'), file' = NoFile PROVE Typed' /\ Layout(ch, own)'
 <2>1. safe' \subseteq Files BY <1>7 DEF Typed
 <2> QED BY <1>4, <1>7, <1>10, <2>1, BetweenSame
<1>11. CASE ~node[f].dirty
 <2>1. Continue(t)
  <3>1. Continue(<<>> \o t) BY <1>2, <1>11 DEF FlushNode, Goto
  <3> QED BY <1>5, <3>1, ConcatNil
 <2>2. Pending(t)' BY <1>7, <1>8, <1>9, <1>11 DEF Pending, NodeDue, MapDue
 <2>3. FlushTail(t)' BY <1>6, <1>8 DEF FlushTail
 <2>4. Busy(ch, own)' /\ Listed(todo') /\ file' = NoFile BY <1>4, <2>1, <2>2, <2>3, FlushGoes
 <2> QED BY <1>10, <2>4
<1>12. CASE node[f].dirty
 <2>1. PICK e : e = EntryOf(node[f]) OBVIOUS
 <2>0. PICK x, y, z : x = [k |-> "entry", f |-> f, e |-> e] /\ y = [k |-> "clean", f |-> f] /\ z = Stage("flushMap") OBVIOUS
 <2> DEFINE v == <<z>> \o t
            u == <<y>> \o v
 <2>2. Continue(<<x, y, z>> \o t) BY <1>2, <1>12, <2>0, <2>1 DEF FlushNode, Goto, Stage
 <2>3. x.k = "entry" /\ x.f = f /\ x.e = e /\ y.k = "clean" /\ y.f = f /\ z.k = "flushMap" BY <2>0 DEF Stage
 <2>4. y = [k |-> "clean", f |-> f] BY <2>0
 <2>5. FlushList(v, Linked) BY <1>6, <2>0, FlushMapFront
 <2>6. <<x, y, z>> \o t = <<x>> \o u
  <3>0. Listed(t) BY <1>5
  <3>1. <<x, y, z>> \o t = <<x>> \o (<<y>> \o (<<z>> \o t)) BY <3>0, FrontTriple
  <3> QED BY <3>1, Zenon DEF u, v
 <2>7. Listed(v) /\ Listed(u) /\ u # <<>> /\ Head(u) = y /\ Tail(u) = v BY <1>5, InFront
 <2> HIDE DEF u, v
 <2>8. todo' = <<x>> \o u /\ Listed(todo') /\ todo' # <<>> /\ Now' = x /\ Tail(todo') = u /\ file' = NoFile
  <3>1. Continue(<<x>> \o u) BY <2>2, <2>6, Zenon
  <3> QED BY <1>4, <2>3, <2>7, <3>1, GoesOn
 <2>9. Pending(todo)'
  <3>1. MapDue(v) /\ \A g : NodeDue(g, t) => NodeDue(g, v) BY <1>5, <2>3, PendingFront DEF v
  <3>2. MapDue(u) /\ \A g : f = g \/ NodeDue(g, t) => NodeDue(g, u) BY <2>3, <2>7, <3>1, PendingFront DEF u
  <3>3. PICK w : w = <<x>> \o u OBVIOUS
  <3>4. MapDue(w) /\ \A g : f = g \/ NodeDue(g, t) => NodeDue(g, w) BY <2>7, <3>2, <3>3, PendingFront
  <3>5. todo' = w BY <2>8, <3>3
  <3>6. MapDue(todo)' /\ \A g : f = g \/ NodeDue(g, t) => NodeDue(g, todo)' BY <3>4, <3>5 DEF NodeDue, MapDue
  <3> QED BY <1>7, <1>8, <1>9, <3>6 DEF Pending
 <2>10. Flushing(Now, Tail(todo))'
  <3>1. e = EntryOf(node[f])' /\ f \in Linked' /\ FlushTail(v)' BY <1>6, <1>7, <1>8, <2>1, <2>5 DEF FlushTail, EntryOf
  <3> QED BY <2>3, <2>4, <2>7, <2>8, <2>9, <3>1 DEF Flushing
 <2>11. Busy(ch, own)'
  <3>1. Now'.k \in FlushKinds \cup {"entry"} BY <2>3, <2>8
  <3> QED BY <2>8, <2>10, <3>1, AtThat
 <2> QED BY <1>10, <2>8, <2>11
<1> QED BY <1>11, <1>12

\* exfat_flush_node marks the node as clean.
LEMMA CleanStep == ASSUME NEW ch, NEW own, Typed, Layout(ch, own), Clean PROVE Typed' /\ Layout(ch, own)'
<1>1. todo # <<>> /\ Doing("clean") BY DEF Clean, Doing
<1>2. PICK h, t, f : h = Now /\ t = Tail(todo) /\ f = h.f OBVIOUS
<1>3. Flushing(h, t) /\ h.k = "clean" BY <1>1, <1>2, AtWhich DEF Layout, FlushKinds, Doing, Now
<1>4. file = NoFile /\ Pending(todo) /\ FlushList(t, Linked) /\ f \in Linked /\ Matches(entry[f], node[f])
 BY <1>2, <1>3 DEF Flushing, FlushTail
<1>5. Listed(t) /\ todo = <<h>> \o t /\ (\A g \in Files : Quiet(g, ch, own)) /\ f \in Files BY <1>1, <1>2, <1>4, InFlush
<1>6. UNCHANGED <<cmap, cmapDirty, fat, bitmap, entry, data, want, safe, failed>> BY DEF Clean, disk, History
<1> DEFINE m == [node[f] EXCEPT !.dirty = FALSE]
<1>7. node' = [node EXCEPT ![f] = m] /\ IsNode(node[f]) BY <1>2, <1>5, NodeFacts DEF Clean
<1>8. DOMAIN node' = Files /\ node'[f] = m /\ \A g \in Files : g # f => node'[g] = node[g] BY <1>5, <1>7 DEF Typed
<1>9. /\ DOMAIN m = DOMAIN node[f] /\ m.start = node[f].start /\ m.size = node[f].size /\ m.valid = node[f].valid
      /\ m.state = node[f].state /\ m.at = node[f].at /\ m.ptr = node[f].ptr BY <1>7 DEF IsNode
<1>10. m.contiguous = node[f].contiguous BY <1>7 DEF IsNode
<1>11. ~m.dirty BY <1>7 DEF IsNode
<1> HIDE DEF m
<1>12. \A g \in Files : IsNode(node'[g]) BY <1>7, <1>8, <1>9 DEF IsNode, Typed
<1>13. Linked' = Linked
 <2>1. \A g \in Files : node'[g].state = node[g].state BY <1>8, <1>9
 <2> QED BY <2>1 DEF Linked
<1>14. \A g \in Files : Quiet(g, ch, own)'
 <2> TAKE g \in Files
 <2>1. CASE g # f BY <1>5, <1>6, <1>8, <2>1, AllKept
 <2>2. CASE g = f
  <3>1. PICK n : n = node[f].size OBVIOUS
  <3>2. Sized(f, ch, own, n) /\ node'[f].size = n BY <1>5, <1>8, <1>9, <3>1 DEF Quiet, Settled
  <3>3. Pointed(node[f], ch[f], n)' BY <1>8, <1>9, <3>2, PointedKept DEF Sized
  <3>4. Sized(f, ch, own, n)' BY <1>6, <1>8, <1>9, <1>10, <3>2, <3>3, SizedKept
  <3>5. Settled(f, ch, own)' BY <3>2, <3>4 DEF Settled
  <3>6. Booked(f)' BY <1>4, <1>5, <1>6, <1>8, <1>9, <1>10 DEF Quiet, Booked, Listing, Matches
  <3>7. node'[f].state # "linked" => node'[f].size = 0 BY <1>5, <1>8, <1>9 DEF Quiet
  <3> QED BY <2>2, <3>5, <3>6, <3>7 DEF Quiet
 <2> QED BY <2>1, <2>2
<1>15. Continue(t)
 <2>1. Continue(<<>> \o t) BY <1>2 DEF Clean, Goto
 <2> QED BY <1>5, <2>1, ConcatNil
<1>16. Pending(t)'
 <2>1. ~failed => /\ \A g \in Linked : node[g].dirty => f = g \/ NodeDue(g, t)
                  /\ cmapDirty => MapDue(t)
  <3>1. ~failed => /\ \A g \in Linked : node[g].dirty => (h.k \in {"flushNode", "clean"} /\ h.f = g) \/ NodeDue(g, t)
                   /\ cmapDirty => h.k \in {"flushMap", "bitmap"} \/ MapDue(t) BY <1>4, <1>5, PendingBehind
  <3> QED BY <1>2, <1>3, <3>1
 <2>2. \A g \in Linked : node'[g].dirty => g # f /\ node[g].dirty BY <1>8, <1>11 DEF Linked
 <2> QED BY <1>6, <1>13, <2>1, <2>2 DEF Pending, NodeDue, MapDue
<1>17. FlushTail(t)' BY <1>4, <1>13 DEF FlushTail
<1>18. Busy(ch, own)' /\ Listed(todo') /\ file' = NoFile BY <1>4, <1>15, <1>16, <1>17, FlushGoes
<1>19. Readable' /\ MapClean' /\ safe' \subseteq Files /\ bitmap' \subseteq Clusters
       /\ DOMAIN entry' = Files /\ \A g \in Files : entry'[g].start \in Clusters \cup {FREE} /\ entry'[g].valid \in Nat
 BY <1>6 DEF Layout, Readable, MapClean, CheckNode, Invalid, Typed
<1> QED BY <1>6, <1>8, <1>12, <1>14, <1>18, <1>19, Between

\* exfat_flush, up to its write.
LEMMA FlushMapStep == ASSUME NEW ch, NEW own, Typed, Layout(ch, own), FlushMap PROVE Typed' /\ Layout(ch, own)'
<1>1. todo # <<>> /\ Doing("flushMap") BY DEF FlushMap, Doing
<1>2. PICK h, t : h = Now /\ t = Tail(todo) OBVIOUS
<1>3. Flushing(h, t) /\ h.k = "flushMap" BY <1>1, <1>2, AtWhich DEF Layout, FlushKinds, Doing, Now
<1>4. file = NoFile /\ Pending(todo) /\ FlushList(todo, Linked) BY <1>3 DEF Flushing, FlushTail
<1>5. Listed(t) /\ todo = <<h>> \o t BY <1>1, <1>2, <1>4, InFlush
<1>6. FlushList(t, Linked) BY <1>1, <1>2, <1>4, FlushFront
<1>7. UNCHANGED <<node, cmap, cmapDirty, fat, bitmap, entry, data, want, safe, failed>> BY DEF FlushMap, Memory, disk, History
<1>8. Linked' = Linked BY <1>7 DEF Linked
<1>9. ~failed => \A g \in Linked : node[g].dirty => NodeDue(g, t)
 <2>1. ~failed => \A g \in Linked : node[g].dirty => (h.k \in {"flushNode", "clean"} /\ h.f = g) \/ NodeDue(g, t)
  BY <1>4, <1>5, PendingBehind
 <2> QED BY <1>3, <2>1
<1>10. ASSUME Busy(ch, own)', Listed(todo'), file' = NoFile PROVE Typed' /\ Layout(ch, own)'
 <2>1. safe' \subseteq Files BY <1>7 DEF Typed
 <2> QED BY <1>4, <1>7, <1>10, <2>1, BetweenSame
<1>11. CASE ~cmapDirty
 <2>1. Continue(t)
  <3>1. Continue(<<>> \o t) BY <1>2, <1>11 DEF FlushMap, Goto
  <3> QED BY <1>5, <3>1, ConcatNil
 <2>2. Pending(t)' BY <1>7, <1>8, <1>9, <1>11 DEF Pending, NodeDue
 <2>3. FlushTail(t)' BY <1>6, <1>8 DEF FlushTail
 <2>4. Busy(ch, own)' /\ Listed(todo') /\ file' = NoFile BY <1>4, <2>1, <2>2, <2>3, FlushGoes
 <2> QED BY <1>10, <2>4
<1>12. CASE cmapDirty
 <2>1. PICK x : x = Stage("bitmap") OBVIOUS
 <2>2. x.k = "bitmap" BY <2>1 DEF Stage
 <2>3. Continue(<<x>> \o t) BY <1>2, <1>12, <2>1 DEF FlushMap, Goto, Stage
 <2>4. todo' = <<x>> \o t /\ Listed(todo') /\ todo' # <<>> /\ Now' = x /\ Tail(todo') = t /\ file' = NoFile
  BY <1>4, <1>5, <2>2, <2>3, GoesOn
 <2>5. Pending(todo)'
  <3>1. PICK w : w = <<x>> \o t OBVIOUS
  <3>2. MapDue(w) /\ \A g : NodeDue(g, t) => NodeDue(g, w) BY <1>5, <2>2, <3>1, PendingFront
  <3>3. todo' = w BY <2>4, <3>1
  <3> QED BY <1>7, <1>8, <1>9, <3>2, <3>3 DEF Pending, NodeDue, MapDue
 <2>6. Flushing(Now, Tail(todo))'
  <3>1. FlushTail(t)' BY <1>6, <1>8 DEF FlushTail
  <3> QED BY <2>2, <2>4, <2>5, <3>1 DEF Flushing
 <2>7. Busy(ch, own)'
  <3>1. Now'.k \in FlushKinds \cup {"entry"} BY <2>2, <2>4 DEF FlushKinds
  <3> QED BY <2>4, <2>6, <3>1, AtThat
 <2> QED BY <1>10, <2>4, <2>7
<1> QED BY <1>11, <1>12

\* The end of a flush.
LEMMA FlushDoneStep == ASSUME NEW ch, NEW own, Typed, Layout(ch, own), FlushDone PROVE Typed' /\ Layout(ch, own)'
<1>1. todo # <<>> /\ Doing("flushed") BY DEF FlushDone, Doing
<1>2. PICK h, t : h = Now /\ t = Tail(todo) OBVIOUS
<1>3. Flushing(h, t) /\ h.k = "flushed" BY <1>1, <1>2, AtWhich DEF Layout, FlushKinds, Doing, Now
<1>4. file = NoFile /\ Pending(todo) /\ FlushList(todo, Linked) BY <1>3 DEF Flushing, FlushTail
<1>5. Listed(t) /\ todo = <<h>> \o t /\ Linked \subseteq Files /\ safe \subseteq Files BY <1>1, <1>2, <1>4, InFlush
<1>6. FlushList(t, Linked) BY <1>1, <1>2, <1>4, FlushFront
<1>7. UNCHANGED <<node, cmap, cmapDirty, fat, bitmap, entry, data, want, failed>> /\ safe' \subseteq Files
 BY <1>5 DEF FlushDone, Memory, disk
<1>8. Linked' = Linked BY <1>7 DEF Linked
<1>9. Continue(t)
 <2>1. Continue(<<>> \o t) BY <1>2 DEF FlushDone, Goto
 <2> QED BY <1>5, <2>1, ConcatNil
<1>10. Pending(t)'
 <2>1. ~failed => /\ \A g \in Linked : node[g].dirty => (h.k \in {"flushNode", "clean"} /\ h.f = g) \/ NodeDue(g, t)
                  /\ cmapDirty => h.k \in {"flushMap", "bitmap"} \/ MapDue(t) BY <1>4, <1>5, PendingBehind
 <2> QED BY <1>3, <1>7, <1>8, <2>1 DEF Pending, NodeDue, MapDue
<1>11. FlushTail(t)' BY <1>6, <1>8 DEF FlushTail
<1>12. Busy(ch, own)' /\ Listed(todo') /\ file' = NoFile BY <1>4, <1>9, <1>10, <1>11, FlushGoes
<1> QED BY <1>4, <1>7, <1>12, BetweenSame

\* The bitmap is written.
LEMMA BitmapStep == ASSUME NEW ch, NEW own, Typed, Layout(ch, own), DeviceWrites, Doing("bitmap")
    PROVE  Typed' /\ Layout(ch, own)'
<1>1. todo # <<>> BY DEF Doing
<1>2. PICK h, t : h = Now /\ t = Tail(todo) OBVIOUS
<1>3. Flushing(h, t) /\ h.k = "bitmap" BY <1>1, <1>2, AtWhich DEF Layout, FlushKinds, Doing, Now
<1>4. file = NoFile /\ Pending(todo) /\ FlushList(t, Linked) BY <1>3 DEF Flushing, FlushTail
<1>5. Listed(t) /\ todo = <<h>> \o t /\ (\A g \in Files : Quiet(g, ch, own)) /\ safe \subseteq Files BY <1>1, <1>2, <1>4, InFlush
<1>6. /\ UNCHANGED <<node, cmap, fat, entry, data, want>> /\ bitmap' = cmap
      /\ ~cmapDirty' BY DEF DeviceWrites, Doing
<1>7. Continue(t) /\ safe' = safe /\ failed' = failed BY <1>1, <1>2, WriteGoes
<1>8. Linked' = Linked BY <1>6 DEF Linked
<1>9. Pending(t)'
 <2>1. ~failed => \A g \in Linked : node[g].dirty => (h.k \in {"flushNode", "clean"} /\ h.f = g) \/ NodeDue(g, t)
  BY <1>4, <1>5, PendingBehind
 <2> QED BY <1>3, <1>6, <1>7, <1>8, <2>1 DEF Pending, NodeDue
<1>10. FlushTail(t)' BY <1>4, <1>8 DEF FlushTail
<1>11. Busy(ch, own)' /\ Listed(todo') /\ file' = NoFile BY <1>4, <1>7, <1>9, <1>10, FlushGoes
<1>12. \A f \in Files : Quiet(f, ch, own)' BY <1>5, <1>6, AllKept
<1>13. Readable' BY <1>6 DEF Layout, Readable, CheckNode, Invalid
<1>14. MapClean' BY <1>6 DEF MapClean
<1>15. /\ DOMAIN node' = Files /\ (\A f \in Files : IsNode(node'[f]))
       /\ DOMAIN entry' = Files /\ (\A f \in Files : entry'[f].start \in Clusters \cup {FREE} /\ entry'[f].valid \in Nat)
       /\ bitmap' \subseteq Clusters /\ safe' \subseteq Files BY <1>5, <1>6, <1>7 DEF Typed
<1> QED BY <1>6, <1>11, <1>12, <1>13, <1>14, <1>15, Between

\* The entries a call writes that has no node yet, or none any more.
LEMMA PlainEntries ==
    /\ EntryOf(NoNode).there /\ CheckNode(EntryOf(NoNode)) /\ ~NoEntry.there
    /\ EntryOf(NoNode).start = FREE /\ EntryOf(NoNode).size = 0 /\ EntryOf(NoNode).valid = 0
    /\ NoEntry.start = FREE /\ NoEntry.valid = 0
<1>1. NoNode.start = FREE /\ NoNode.size = 0 /\ NoNode.valid = 0 BY DEF NoNode
<1>2. PICK nd : nd = NoNode OBVIOUS
<1> DEFINE e == EntryOf(nd)
<1>3. e.start = FREE /\ e.size = 0 /\ e.valid = 0 BY <1>1, <1>2 DEF EntryOf
<1>4. e.there BY DEF EntryOf
<1>5. ~e.contiguous BY <1>1, <1>2 DEF EntryOf
<1> HIDE DEF e
<1>6. CheckNode(e) BY <1>3, <1>5, VolumeAssumption DEF CheckNode
<1>7. NoEntry.start = FREE /\ NoEntry.valid = 0 BY DEF NoEntry
<1>8. ~NoEntry.there BY DEF NoEntry
<1> QED BY <1>2, <1>3, <1>4, <1>6, <1>7, <1>8 DEF e

\* A flush writes an entry.
LEMMA EntryFlushStep == ASSUME NEW ch, NEW own, Typed, Layout(ch, own), DeviceWrites, Doing("entry"), Flushing(Now, Tail(todo))
    PROVE  Typed' /\ Layout(ch, own)'
<1>1. todo # <<>> BY DEF Doing
<1>2. PICK h, t, f, e : h = Now /\ t = Tail(todo) /\ f = h.f /\ e = h.e OBVIOUS
<1>3. Flushing(h, t) /\ h.k = "entry" BY <1>2 DEF Doing, Now
<1>4. /\ file = NoFile /\ Pending(todo) /\ f \in Linked /\ e = EntryOf(node[f])
      /\ t # <<>> /\ Head(t) = [k |-> "clean", f |-> f] /\ FlushList(Tail(t), Linked) BY <1>2, <1>3 DEF Flushing, FlushTail
<1>5. /\ Listed(t) /\ todo = <<h>> \o t /\ (\A g \in Files : Quiet(g, ch, own)) /\ safe \subseteq Files
      /\ f \in Files BY <1>1, <1>2, <1>4, InFlush
<1>6. PICK x, r : x = Head(t) /\ r = Tail(t) OBVIOUS
<1>7. Listed(r) /\ t = <<x>> \o r /\ x = [k |-> "clean", f |-> f] /\ x.k = "clean" /\ x.f = f BY <1>4, <1>5, <1>6, HeadFirst
<1>8. UNCHANGED <<node, cmap, cmapDirty, fat, bitmap, data, want>> /\ entry' = [entry EXCEPT ![f] = e]
 BY <1>2 DEF DeviceWrites, Doing, Memory
<1>9. Continue(t) /\ safe' = safe /\ failed' = failed BY <1>1, <1>2, WriteGoes
<1>10. Linked' = Linked BY <1>8 DEF Linked
<1>11. todo' = <<x>> \o r /\ Listed(todo') /\ todo' # <<>> /\ Now' = x /\ Tail(todo') = r /\ file' = NoFile
 <2>1. Continue(<<x>> \o r) BY <1>7, <1>9
 <2> QED BY <1>4, <1>7, <2>1, GoesOn
<1>12. /\ e.there /\ CheckNode(e) /\ Matches(e, node[f])
       /\ e.start \in Clusters \cup {FREE} /\ e.valid \in Nat BY <1>4, <1>5, EntryOfIs DEF Layout, Quiet
<1>13. DOMAIN entry' = Files /\ entry'[f] = e /\ \A g \in Files : g # f => entry'[g] = entry[g] BY <1>5, <1>8 DEF Typed
<1>14. \A g \in Files : Quiet(g, ch, own)'
 <2> TAKE g \in Files
 <2>1. Settled(g, ch, own)' BY <1>5, <1>8 DEF Quiet, Settled, Sized, Strung, Segment, NextCluster, Pointed, Invalid
 <2>2. Booked(g)'
  <3>1. CASE g = f
   <4>1. node[f].state = "linked" BY <1>4 DEF Linked
   <4> QED BY <1>8, <1>12, <1>13, <3>1, <4>1 DEF Booked, Listing, Matches
  <3>2. CASE g # f BY <1>5, <1>8, <1>13, <3>2 DEF Quiet, Booked, Listing, Matches
  <3> QED BY <3>1, <3>2
 <2> QED BY <1>5, <1>8, <2>1, <2>2 DEF Quiet
<1>15. Readable'
 <2>1. ASSUME NEW g \in Files, entry'[g].there PROVE CheckNode(entry'[g])
  <3>1. CASE g = f BY <1>12, <1>13, <3>1
  <3>2. CASE g # f BY <1>13, <2>1, <3>2 DEF Layout, Readable
  <3> QED BY <3>1, <3>2
 <2> QED BY <2>1 DEF Readable, CheckNode, Invalid
<1>16. MapClean' BY <1>8 DEF Layout, MapClean
<1>17. /\ DOMAIN node' = Files /\ (\A g \in Files : IsNode(node'[g]))
       /\ bitmap' \subseteq Clusters /\ safe' \subseteq Files BY <1>5, <1>8, <1>9 DEF Typed
<1>18. \A g \in Files : entry'[g].start \in Clusters \cup {FREE} /\ entry'[g].valid \in Nat BY <1>12, <1>13 DEF Typed
<1>19. Pending(todo)'
 <2>1. ~failed => /\ \A g \in Linked : node[g].dirty => (h.k \in {"flushNode", "clean"} /\ h.f = g) \/ NodeDue(g, t)
                  /\ cmapDirty => h.k \in {"flushMap", "bitmap"} \/ MapDue(t) BY <1>4, <1>5, PendingBehind
 <2>2. todo' = t BY <1>7, <1>11
 <2> QED BY <1>3, <1>8, <1>9, <1>10, <2>1, <2>2 DEF Pending, NodeDue, MapDue
<1>20. Flushing(Now, Tail(todo))'
 <2>1. FlushTail(r)' /\ f \in Linked' BY <1>4, <1>6, <1>10 DEF FlushTail
 <2>2. Matches(entry[f], node[f])' BY <1>8, <1>12, <1>13 DEF Matches
 <2>3. entry'[f].valid = node'[f].valid
  <3>1. e.valid = node[f].valid BY <1>4 DEF EntryOf
  <3> QED BY <1>8, <1>13, <3>1
 <2> QED BY <1>4, <1>7, <1>11, <1>19, <2>1, <2>2, <2>3 DEF Flushing
<1>21. Busy(ch, own)'
 <2>1. Now'.k \in FlushKinds \cup {"entry"} BY <1>7, <1>11 DEF FlushKinds
 <2> QED BY <1>11, <1>20, <2>1, AtThat
<1> QED BY <1>8, <1>11, <1>13, <1>14, <1>15, <1>16, <1>17, <1>18, <1>21, Between

\* commit_entry and the erasing of an entry.
LEMMA EntryCallStep ==
    ASSUME NEW ch, NEW own, Typed, Layout(ch, own), DeviceWrites, Doing("entry"), AtEntry(Now, Tail(todo), ch, own)
    PROVE  Typed' /\ Layout(ch, own)'
<1>1. todo # <<>> BY DEF Doing
<1>2. PICK h, t, f, e : h = Now /\ t = Tail(todo) /\ f = file /\ e = h.e OBVIOUS
<1>3. /\ f \in Files /\ Quiet(f, ch, own) /\ h.f = f
      /\ \/ t = <<Stage("attach")>> /\ e = EntryOf(NoNode) /\ node[f].state = "none"
         \/ t = <<Stage("unlink")>> /\ e = NoEntry /\ node[f].state = "linked" BY <1>2 DEF AtEntry, Nd
<1>4. UNCHANGED <<node, cmap, cmapDirty, fat, bitmap, data, want>> /\ entry' = [entry EXCEPT ![f] = e]
 BY <1>2, <1>3 DEF DeviceWrites, Doing, Memory
<1>5. Continue(t) /\ safe' = safe /\ failed' = failed BY <1>1, <1>2, WriteGoes
<1>6. DOMAIN entry' = Files /\ entry'[f] = e /\ \A g \in Files : g # f => entry'[g] = entry[g] BY <1>3, <1>4 DEF Typed
<1>7. (e.there => CheckNode(e)) /\ e.start = FREE /\ e.valid = 0 BY <1>3, PlainEntries
<1>8. Settled(f, ch, own)' BY <1>3, <1>4 DEF Quiet, Settled, Sized, Strung, Segment, NextCluster, Pointed, Invalid
<1>9. Listed(todo') /\ Busy(ch, own)' /\ file' = f
 <2>1. CASE t = <<Stage("attach")>> /\ e = EntryOf(NoNode) /\ node[f].state = "none"
  <3>1. PICK x : x = Stage("attach") OBVIOUS
  <3>2. x.k = "attach" BY <3>1 DEF Stage
  <3>3. todo' = <<x>> /\ Listed(todo') /\ todo' # <<>> /\ Now' = x /\ Tail(todo') = <<>> /\ file' = f
   <4>1. Continue(<<x>>) BY <1>5, <2>1, <3>1
   <4> QED BY <1>2, <3>2, <4>1, GoesOnOne
  <3>4. AtAttach(Now, Tail(todo), ch, own)' BY <1>3, <1>4, <1>6, <1>8, <2>1, <3>3 DEF AtAttach, Nd, Quiet, EntryOf, NoNode
  <3> QED BY <3>2, <3>3, <3>4, AtThat
 <2>2. CASE t = <<Stage("unlink")>> /\ e = NoEntry /\ node[f].state = "linked"
  <3>1. PICK x : x = Stage("unlink") OBVIOUS
  <3>2. x.k = "unlink" BY <3>1 DEF Stage
  <3>3. todo' = <<x>> /\ Listed(todo') /\ todo' # <<>> /\ Now' = x /\ Tail(todo') = <<>> /\ file' = f
   <4>1. Continue(<<x>>) BY <1>5, <2>2, <3>1
   <4> QED BY <1>2, <3>2, <4>1, GoesOnOne
  <3>4. ~e.there BY <2>2, PlainEntries
  <3>5. AtUnlink(Now, Tail(todo), ch, own)' BY <1>3, <1>4, <1>6, <1>8, <2>2, <3>3, <3>4 DEF AtUnlink, Nd
  <3> QED BY <3>2, <3>3, <3>5, AtThat
 <2> QED BY <1>3, <2>1, <2>2
<1>10. ch \in Ghosts /\ own \in [Files -> SUBSET Nat] /\ Owned(ch, own) /\ \A g \in Files : g # file => Quiet(g, ch, own)
 BY DEF Layout
<1>11. \A g \in Files : g # file => Quiet(g, ch, own)'
 <2>1. \A g \in Files : g # file => node'[g] = node[g] /\ entry'[g] = entry[g] /\ ch[g] = ch[g] /\ own[g] = own[g]
  BY <1>2, <1>4, <1>6
 <2>2. fat' = fat BY <1>4
 <2> QED BY <1>10, <2>1, <2>2, OthersQuiet
<1>12. Readable'
 <2>1. ASSUME NEW g \in Files, entry'[g].there PROVE CheckNode(entry'[g])
  <3>1. CASE g = f BY <1>6, <1>7, <2>1, <3>1
  <3>2. CASE g # f BY <1>6, <2>1, <3>2 DEF Layout, Readable
  <3> QED BY <3>1, <3>2
 <2> QED BY <2>1 DEF Readable, CheckNode, Invalid
<1>13. MapClean' /\ Owned(ch, own)' BY <1>4 DEF Layout, MapClean, Owned
<1>14. Layout(ch, own)' BY <1>2, <1>9, <1>10, <1>11, <1>12, <1>13 DEF Layout
<1>15. \A g \in Files : entry'[g].start \in Clusters \cup {FREE} /\ entry'[g].valid \in Nat BY <1>6, <1>7 DEF Typed
<1>16. Typed' BY <1>3, <1>4, <1>5, <1>6, <1>9, <1>15 DEF Typed, IsNode
<1> QED BY <1>14, <1>16

\* A directory entry reaches the disk: of a new file, of a deleted one, or of a flushed node.
LEMMA EntryStep == ASSUME NEW ch, NEW own, Typed, Layout(ch, own), DeviceWrites, Doing("entry")
    PROVE  Typed' /\ Layout(ch, own)'
<1>1. Flushing(Now, Tail(todo)) \/ AtEntry(Now, Tail(todo), ch, own) BY DEF Layout, Busy, At, Doing, Now
<1> QED BY <1>1, EntryFlushStep, EntryCallStep

\* What is dropped of a list, seen from behind its first stage.
LEMMA DroppedMore == ASSUME NEW x, NEW t, NEW v, NEW d, Listed(t), Dropped(<<x>> \o t, v, d), d # 0 PROVE Dropped(t, v, d - 1)
<1> DEFINE u == <<x>> \o t
<1>1. Listed(u) /\ Len(u) = Len(t) + 1 /\ u[1] = x /\ \A i \in 1..Len(t) : u[i + 1] = t[i] BY InFront
<1>2. Listed(v) /\ d \in 0..Len(u) /\ Len(v) = Len(u) - d /\ \A i \in 1..Len(v) : v[i] = u[i + d] BY DEF Dropped
<1>3. PICK a, b \in Nat : a = Len(t) /\ b = Len(v) BY <1>2, ListedLen
<1> HIDE DEF u
<1>4. d \in Nat /\ d >= 1 /\ d <= a + 1 /\ b = a - (d - 1) BY <1>1, <1>2, <1>3
<1>5. \A i \in 1..b : v[i] = t[i + (d - 1)]
 <2> TAKE i \in 1..b
 <2>1. PICK j \in 1..a : j = i + (d - 1) /\ j + 1 = i + d
  <3>1. i + (d - 1) \in 1..a /\ (i + (d - 1)) + 1 = i + d BY <1>4
  <3> QED BY <3>1
 <2> QED BY <1>1, <1>2, <1>3, <2>1
<1>6. d - 1 \in 0..a BY <1>4
<1> QED BY <1>2, <1>3, <1>4, <1>5, <1>6 DEF Dropped

\* An error in a flush ends the part of it whose result its caller ignores.
LEMMA BailIs == ASSUME NEW h, NEW t, Listed(t), todo = <<h>> \o t, h.k # "catch", Bail
    PROVE  Continue(<<>>) \/ \E v, d : Dropped(t, v, d) /\ (\E i \in 1..d : t[i].k = "catch") /\ Continue(v)
<1> DEFINE C == {i \in DOMAIN todo : todo[i].k = "catch"}
<1>1. Listed(todo) /\ Len(todo) = Len(t) + 1 /\ todo[1] = h /\ \A i \in 1..Len(t) : todo[i + 1] = t[i] BY InFront
<1>2. DOMAIN todo = 1..Len(todo) BY <1>1, ListedLen
<1>3. PICK n \in Nat : n = Len(t) BY ListedLen
<1>4. CASE C = {} BY <1>4 DEF Bail
<1>5. CASE C # {}
 <2>1. PICK m : m = Min(C) OBVIOUS
 <2>2. m \in C
  <3>1. C \subseteq Nat BY <1>2
  <3> HIDE DEF C
  <3> QED BY <1>5, <2>1, <3>1, MinIs
 <2>3. Continue(SubSeq(todo, m + 1, Len(todo))) BY <1>5, <2>1 DEF Bail
 <2>4. m \in 1..n + 1 /\ todo[m].k = "catch" BY <1>1, <1>2, <1>3, <2>2
 <2>5. m # 1 BY <1>1, <2>4
 <2>6. m + 1 \in 1..Len(todo) + 1 /\ (m + 1) - 1 = m BY <1>1, <1>3, <2>4
 <2>7. PICK v : v = SubSeq(todo, m + 1, Len(todo)) OBVIOUS
 <2>8. Dropped(todo, v, m)
  <3>1. Dropped(todo, v, (m + 1) - 1) BY <1>1, <2>6, <2>7, EndOf
  <3> QED BY <2>6, <3>1
 <2>9. Dropped(t, v, m - 1)
  <3>1. m # 0 BY <2>4
  <3> QED BY <2>8, <3>1, DroppedMore
 <2>10. \E i \in 1..m - 1 : t[i].k = "catch"
  <3>1. PICK j \in 1..n : j + 1 = m
   <4>1. m - 1 \in 1..n /\ (m - 1) + 1 = m BY <2>4, <2>5
   <4> QED BY <4>1
  <3>2. t[j].k = "catch" /\ j \in 1..m - 1 BY <1>1, <1>3, <2>4, <3>1
  <3> QED BY <3>2
 <2> QED BY <2>3, <2>7, <2>9, <2>10
<1> QED BY <1>4, <1>5

\* What follows when a write of a flush fails, r being the flush behind what is bound
\* up with that write.
LEMMA FlushFails == ASSUME NEW ch, NEW own, Typed, Layout(ch, own), file = NoFile, NEW r, FlushList(r, Linked),
           Continue(<<>>) \/ \E v, d : Dropped(r, v, d) /\ Continue(v),
           UNCHANGED <<node, cmap, cmapDirty, fat, bitmap, entry, data, want, safe>>, failed' = (todo' # <<>>)
    PROVE  Typed' /\ Layout(ch, own)'
<1>1. Linked' = Linked BY DEF Linked
<1>2. Busy(ch, own)' /\ Listed(todo') /\ file' = NoFile
 <2>1. CASE todo' = <<>>
  <3>1. file' = NoFile BY <2>1 DEF Continue
  <3> QED BY <2>1, <3>1, ListedNil DEF Busy
 <2>2. CASE todo' # <<>>
  <3>1. ~Continue(<<>>) BY <2>2, Ends
  <3>2. PICK v, d : Dropped(r, v, d) /\ Continue(v) BY <3>1
  <3>3. FlushTail(v)'
   <4>1. FlushList(v, Linked) BY <3>2, FlushListDropped
   <4> QED BY <1>1, <4>1 DEF FlushTail
  <3>4. Pending(v)' BY <2>2 DEF Pending
  <3> QED BY <3>2, <3>3, <3>4, FlushGoes
 <2> QED BY <2>1, <2>2
<1>3. safe' \subseteq Files BY DEF Typed
<1> QED BY <1>2, <1>3, BetweenSame

\* The write of the bitmap fails, and the map stays dirty.
LEMMA BitmapFails == ASSUME NEW ch, NEW own, Typed, Layout(ch, own), DeviceFails, Doing("bitmap")
    PROVE  Typed' /\ Layout(ch, own)'
<1>1. todo # <<>> BY DEF Doing
<1>2. PICK h, t : h = Now /\ t = Tail(todo) OBVIOUS
<1>3. Flushing(h, t) /\ h.k = "bitmap" BY <1>1, <1>2, AtWhich DEF Layout, FlushKinds, Doing, Now
<1>4. file = NoFile /\ FlushList(t, Linked) BY <1>3 DEF Flushing, FlushTail
<1>5. Listed(t) /\ todo = <<h>> \o t BY <1>1, <1>2, InCall
<1>6. UNCHANGED <<node, cmap, cmapDirty, fat, bitmap, entry, data, want, safe>> /\ Bail BY <1>2, <1>3 DEF DeviceFails, Memory
<1>7. failed' = (todo' # <<>>) BY DEF DeviceFails
<1>8. h.k # "catch" BY <1>3
<1>9. Continue(<<>>) \/ \E v, d : Dropped(t, v, d) /\ Continue(v) BY <1>5, <1>6, <1>8, BailIs
<1> QED BY <1>4, <1>6, <1>7, <1>9, FlushFails

\* The write of an entry fails, and the call ends or goes on with its caller.
LEMMA EntryFails == ASSUME NEW ch, NEW own, Typed, Layout(ch, own), DeviceFails, Doing("entry")
    PROVE  Typed' /\ Layout(ch, own)'
<1>1. todo # <<>> BY DEF Doing
<1>2. PICK h, t : h = Now /\ t = Tail(todo) OBVIOUS
<1>3. h.k = "entry" /\ (Flushing(h, t) \/ AtEntry(h, t, ch, own)) BY <1>2 DEF Layout, Busy, At, Doing, Now
<1>4. Listed(t) /\ Listed(todo) /\ todo = <<h>> \o t BY <1>1, <1>2, InCall
<1>5. UNCHANGED <<node, cmap, cmapDirty, fat, bitmap, entry, data, want, safe>> /\ Bail BY <1>2, <1>3 DEF DeviceFails, Memory
<1>6. failed' = (todo' # <<>>) BY DEF DeviceFails
<1>7. h.k # "catch" BY <1>3
<1>8. CASE Flushing(h, t)
 <2>1. file = NoFile /\ t # <<>> /\ Head(t) = [k |-> "clean", f |-> h.f] /\ FlushList(Tail(t), Linked)
  BY <1>3, <1>8 DEF Flushing, FlushTail
 <2>2. PICK x, r : x = Head(t) /\ r = Tail(t) OBVIOUS
 <2>3. Listed(r) /\ t = <<x>> \o r /\ x.k = "clean" BY <1>4, <2>1, <2>2, HeadFirst
 <2>4. t[1] = x BY <2>3, InFront
 <2>5. Continue(<<>>) \/ \E v, d : Dropped(t, v, d) /\ (\E i \in 1..d : t[i].k = "catch") /\ Continue(v)
  BY <1>4, <1>5, <1>7, BailIs
 <2>6. ASSUME NEW v, NEW d, Dropped(t, v, d), \E i \in 1..d : t[i].k = "catch" PROVE \E d2 : Dropped(r, v, d2)
  <3>1. d # 0 BY <2>6
  <3>2. Dropped(<<x>> \o r, v, d) BY <2>3, <2>6
  <3>3. Dropped(r, v, d - 1) BY <2>3, <3>1, <3>2, DroppedMore
  <3> QED BY <3>3
 <2>7. Continue(<<>>) \/ \E v, d : Dropped(r, v, d) /\ Continue(v) BY <2>5, <2>6
 <2> QED BY <1>5, <1>6, <2>1, <2>2, <2>7, FlushFails
<1>9. CASE AtEntry(h, t, ch, own)
 <2>1. PICK f : f = file OBVIOUS
 <2>2. f \in Files /\ Quiet(f, ch, own) /\ (t = <<Stage("attach")>> \/ t = <<Stage("unlink")>>) BY <1>9, <2>1 DEF AtEntry
 <2>3. NoCatch(t)
  <3>1. Stage("attach").k # "catch" /\ Stage("unlink").k # "catch" BY DEF Stage
  <3> QED BY <2>2, <3>1, NoCatchShort
 <2>4. NoCatch(todo) BY <1>4, <1>7, <2>3, NoCatchInFront
 <2>5. todo' = <<>> /\ Listed(todo') /\ file' = NoFile BY <1>4, <1>5, <2>4, BailEnds
 <2>6. Quiet(f, ch, own)' /\ OnlyNode(f) /\ IsNode(node'[f]) BY <1>5, <2>2, AllKept, KeptNode, NodeFacts
 <2>7. Busy(ch, own)' BY <2>5 DEF Busy
 <2> QED BY <1>5, <2>1, <2>2, <2>5, <2>6, <2>7, Settling
<1> QED BY <1>3, <1>8, <1>9

\* The node that a mount makes of an entry.
LEMMA NodeOfIs == ASSUME NEW e
    PROVE  /\ DOMAIN NodeOf(e) = {"state", "start", "contiguous", "size", "valid", "dirty", "at", "ptr"}
           /\ e.there => /\ NodeOf(e).state = "linked" /\ NodeOf(e).start = e.start
                         /\ NodeOf(e).size = e.size /\ NodeOf(e).valid = e.valid
                         /\ NodeOf(e).at = 0 /\ NodeOf(e).ptr = e.start
                         /\ NodeOf(e).contiguous = e.contiguous
           /\ ~e.there => /\ NodeOf(e).state = "none" /\ NodeOf(e).start = FREE
                          /\ NodeOf(e).size = 0 /\ NodeOf(e).valid = 0
                          /\ NodeOf(e).at = 0 /\ NodeOf(e).ptr = FREE
           /\ ~NodeOf(e).dirty
<1>1. CASE e.there
 <2>1. NodeOf(e) = [NoNode EXCEPT !.state = "linked", !.start = e.start, !.contiguous = e.contiguous,
                       !.size = e.size, !.valid = e.valid, !.ptr = e.start] BY <1>1 DEF NodeOf
 <2>2. /\ DOMAIN NodeOf(e) = {"state", "start", "contiguous", "size", "valid", "dirty", "at", "ptr"}
       /\ NodeOf(e).state = "linked" /\ NodeOf(e).start = e.start
       /\ NodeOf(e).size = e.size /\ NodeOf(e).valid = e.valid
       /\ NodeOf(e).at = 0 /\ NodeOf(e).ptr = e.start BY <2>1 DEF NoNode
 <2>3. NodeOf(e).contiguous = e.contiguous BY <2>1 DEF NoNode
 <2>4. ~NodeOf(e).dirty BY <2>1 DEF NoNode
 <2> QED BY <1>1, <2>2, <2>3, <2>4
<1>2. CASE ~e.there
 <2>1. NodeOf(e) = NoNode BY <1>2 DEF NodeOf
 <2>2. /\ DOMAIN NodeOf(e) = {"state", "start", "contiguous", "size", "valid", "dirty", "at", "ptr"}
       /\ NodeOf(e).state = "none" /\ NodeOf(e).start = FREE
       /\ NodeOf(e).size = 0 /\ NodeOf(e).valid = 0
       /\ NodeOf(e).at = 0 /\ NodeOf(e).ptr = FREE BY <2>1 DEF NoNode
 <2>3. ~NodeOf(e).dirty BY <2>1 DEF NoNode
 <2> QED BY <1>2, <2>2, <2>3
<1> QED BY <1>1, <1>2

\* A file whose node was written is after a mount as it was before.
LEMMA Remounted ==
    ASSUME NEW ch \in Ghosts, NEW own, Typed, NEW f \in Files, Quiet(f, ch, own), entry[f].there => CheckNode(entry[f]),
           node[f].state = "linked" => ~node[f].dirty, node'[f] = NodeOf(entry[f]), entry' = entry, fat' = fat
    PROVE  Quiet(f, ch, own)' /\ IsNode(node'[f])
<1>1. PICK n, s, e, nd : n = node[f].size /\ s = ch[f] /\ e = entry[f] /\ nd = node[f] OBVIOUS
<1>2. own[f] = 0..n - 1 /\ Strung(nd, s, n) /\ n \in Nat /\ n <= MaxSize /\ MaxSize \in Nat /\ s \in [Nat -> Clusters]
 BY <1>1, NodeFacts DEF Quiet, Settled, Sized, Ghosts
<1>3. PICK m : m = NodeOf(e) OBVIOUS
<1>4. node'[f] = m /\ entry'[f] = e BY <1>1, <1>3
<1>5. e.start \in Clusters \cup {FREE} /\ e.valid \in Nat BY <1>1 DEF Typed
<1>6. e.there <=> nd.state = "linked" BY <1>1 DEF Quiet, Booked, Listing
<1>7. CASE e.there
 <2>1. /\ DOMAIN m = {"state", "start", "contiguous", "size", "valid", "dirty", "at", "ptr"}
       /\ m.state = "linked" /\ m.start = e.start /\ m.size = e.size /\ m.valid = e.valid /\ m.at = 0 /\ m.ptr = e.start
       /\ m.contiguous = e.contiguous BY <1>3, <1>7, NodeOfIs
 <2>2. nd.start = e.start /\ e.size = n /\ (n # 0 => (e.contiguous <=> nd.contiguous))
  BY <1>1, <1>6, <1>7 DEF Quiet, Booked, Matches
 <2>3. e.valid <= n BY <1>1, <1>7, <2>2 DEF CheckNode
 <2>4. IsNode(m)
  <3>1. m.start \in Clusters \cup {FREE} /\ m.ptr \in Nat
   <4>1. Clusters \subseteq Nat /\ FREE \in Nat BY ClusterNums DEF FREE
   <4>2. e.start \in Nat BY <1>5, <4>1
   <4> QED BY <1>5, <2>1, <4>2
  <3> QED BY <1>2, <1>5, <2>1, <2>2, <2>3, <3>1 DEF IsNode
 <2>5. Strung(node[f], s, n)'
  <3>1. nd.start = IF n = 0 THEN FREE ELSE s[0] BY <1>2 DEF Strung
  <3>2. CASE n = 0 BY <1>2, <1>4, <2>1, <2>2, <3>1, <3>2 DEF Strung, Segment
  <3>3. CASE n # 0
   <4>1. node'[f].start = node[f].start BY <1>1, <1>4, <2>1, <2>2
   <4>2. node'[f].contiguous <=> node[f].contiguous BY <1>1, <1>4, <2>1, <2>2, <3>3
   <4>3. \A i \in Nat : i + 1 < n => fat'[s[i]] = fat[s[i]] OBVIOUS
   <4>4. Strung(node[f], s, n) BY <1>1, <1>2
   <4> QED BY <1>2, <4>1, <4>2, <4>3, <4>4, StrungKept
  <3> QED BY <3>2, <3>3
 <2>6. Pointed(node[f], s, n)'
  <3>1. e.start = IF n = 0 THEN FREE ELSE s[0] BY <1>2, <2>2 DEF Strung
  <3> QED BY <1>2, <1>4, <2>1, <3>1 DEF Pointed
 <2>7. Sized(f, ch, own, n)' /\ node'[f].size = n BY <1>1, <1>2, <1>4, <2>1, <2>2, <2>5, <2>6 DEF Sized
 <2>8. Booked(f)' BY <1>4, <1>7, <2>1, <2>2 DEF Booked, Listing, Matches
 <2> QED BY <1>4, <2>1, <2>4, <2>7, <2>8 DEF Quiet, Settled
<1>8. CASE ~e.there
 <2>1. /\ DOMAIN m = {"state", "start", "contiguous", "size", "valid", "dirty", "at", "ptr"}
       /\ m.state = "none" /\ m.start = FREE /\ m.size = 0 /\ m.valid = 0 /\ m.at = 0 /\ m.ptr = FREE BY <1>3, <1>8, NodeOfIs
 <2>2. n = 0 BY <1>1, <1>6, <1>8 DEF Quiet
 <2>3. IsNode(m)
  <3>1. m.ptr \in Nat BY <2>1 DEF FREE
  <3> QED BY <1>2, <2>1, <3>1 DEF IsNode
 <2>4. Strung(node[f], s, n)' /\ Pointed(node[f], s, n)' BY <1>4, <2>1, <2>2 DEF Strung, Segment, Pointed
 <2>5. Sized(f, ch, own, n)' /\ node'[f].size = n BY <1>1, <1>2, <1>4, <2>1, <2>2, <2>4 DEF Sized
 <2>6. Booked(f)' BY <1>4, <1>8, <2>1 DEF Booked, Listing
 <2> QED BY <1>4, <2>1, <2>2, <2>3, <2>5, <2>6 DEF Quiet, Settled
<1> QED BY <1>7, <1>8

\* exfat_mount, behind an unmount all of whose writes went well.
LEMMA MountStep == ASSUME NEW ch, NEW own, Typed, Layout(ch, own), Mount PROVE Typed' /\ Layout(ch, own)'
<1>1. todo # <<>> /\ Doing("unmounted") /\ ~failed BY DEF Mount, Doing
<1>2. PICK h, t : h = Now /\ t = Tail(todo) OBVIOUS
<1>3. Flushing(h, t) /\ h.k = "unmounted" BY <1>1, <1>2, AtWhich DEF Layout, FlushKinds, Doing, Now
<1>4. file = NoFile /\ Pending(todo) /\ FlushList(todo, Linked) BY <1>3 DEF Flushing, FlushTail
<1>5. Listed(t) /\ todo = <<h>> \o t /\ (\A g \in Files : Quiet(g, ch, own)) /\ safe \subseteq Files BY <1>1, <1>2, <1>4, InFlush
<1>6. t = <<>>
 <2>1. \/ h \in {Stage("catch"), Stage("flushMap")}
       \/ \E x \in Linked : h = [k |-> "flushNode", f |-> x]
       \/ h = Stage("flushed")
       \/ h = Stage("unmounted") /\ t = <<>> BY <1>1, <1>2, <1>4, FlushFront DEF Now
 <2>2. ~(h \in {Stage("catch"), Stage("flushMap")} \/ h = Stage("flushed") \/ \E x \in Linked : h = [k |-> "flushNode", f |-> x])
  BY <1>3 DEF Stage
 <2> QED BY <2>1, <2>2
<1>7. ~cmapDirty /\ \A g \in Linked : ~node[g].dirty
 <2>1. ~failed => /\ \A g \in Linked : node[g].dirty => (h.k \in {"flushNode", "clean"} /\ h.f = g) \/ NodeDue(g, t)
                  /\ cmapDirty => h.k \in {"flushMap", "bitmap"} \/ MapDue(t) BY <1>4, <1>5, PendingBehind
 <2>2. ~MapDue(t) /\ \A g : ~NodeDue(g, t) BY <1>6 DEF MapDue, NodeDue
 <2> QED BY <1>1, <1>3, <2>1, <2>2
<1>8. \A f \in Files : entry[f].there => CheckNode(entry[f]) BY DEF Layout, Readable
<1>9. /\ node' = [f \in Files |-> NodeOf(entry[f])] /\ cmap' = bitmap /\ Continue(<<>>)
      /\ UNCHANGED <<fat, bitmap, entry, data, want, safe>> BY <1>8 DEF Mount, disk, History
<1>10. ~cmapDirty' BY <1>8 DEF Mount
<1>11. cmap' = cmap BY <1>7, <1>9 DEF Layout, MapClean
<1>12. todo' = <<>> /\ Listed(todo') /\ file' = NoFile BY <1>9, Ends
<1>13. Busy(ch, own)' BY <1>12 DEF Busy
<1>14. DOMAIN node' = Files /\ \A f \in Files : node'[f] = NodeOf(entry[f]) BY <1>9
<1>15. ASSUME NEW f \in Files PROVE Quiet(f, ch, own)' /\ IsNode(node'[f])
 <2>1. node[f].state = "linked" => ~node[f].dirty BY <1>7 DEF Linked
 <2>2. Quiet(f, ch, own) /\ (entry[f].there => CheckNode(entry[f])) /\ node'[f] = NodeOf(entry[f]) /\ entry' = entry /\ fat' = fat
  BY <1>5, <1>8, <1>9, <1>14
 <2>3. ch \in Ghosts BY DEF Layout
 <2> QED BY <2>1, <2>2, <2>3, Remounted
<1>16. Readable' BY <1>9 DEF Layout, Readable, CheckNode, Invalid
<1>17. MapClean' BY <1>9 DEF MapClean
<1>18. /\ DOMAIN entry' = Files /\ (\A f \in Files : entry'[f].start \in Clusters \cup {FREE} /\ entry'[f].valid \in Nat)
       /\ bitmap' \subseteq Clusters /\ safe' \subseteq Files BY <1>9 DEF Typed
<1> QED BY <1>9, <1>11, <1>12, <1>13, <1>14, <1>15, <1>16, <1>17, <1>18, Between

\* Between two calls.
LEMMA InIdle == ASSUME NEW ch, NEW own, Typed, Layout(ch, own), Idle
    PROVE  /\ todo = <<>> /\ file = NoFile /\ \A f \in Files : Quiet(f, ch, own)
           /\ safe \subseteq Files /\ Linked \subseteq Files
<1>1. todo = <<>> /\ file = NoFile BY DEF Idle, Layout, Busy
<1> QED BY <1>1, VolumeAssumption DEF Layout, Typed, Linked

\* A call on a file begins, and all it has done is to lay out its work.
LEMMA CallBegins ==
    ASSUME NEW ch, NEW own, Typed, Layout(ch, own), Idle, NEW f \in Files, NEW x, NEW t, Listed(t), x.k # "catch",
           NEW fs, Call(f, <<x>> \o t, fs), UNCHANGED Memory
    PROVE  /\ todo' = <<x>> \o t /\ Listed(todo') /\ todo' # <<>> /\ Now' = x /\ Tail(todo') = t /\ file' = f
           /\ node' = node /\ entry' = entry
           /\ \A g \in Files : Quiet(g, ch, own)'
           /\ Busy(ch, own)' => Typed' /\ Layout(ch, own)'
<1>1. UNCHANGED <<node, cmap, cmapDirty, fat, bitmap, entry, data, want>> /\ file' = f /\ safe' \subseteq Files
 BY InIdle DEF Call, Memory, disk
<1>2. todo' = <<x>> \o t BY PastStage DEF Call
<1>3. Listed(todo') /\ todo' # <<>> /\ Now' = x /\ Tail(todo') = t BY <1>2, InFront DEF Now
<1>4. \A g \in Files : Quiet(g, ch, own)' BY <1>1, InIdle, AllKept
<1>5. ASSUME Busy(ch, own)' PROVE Typed' /\ Layout(ch, own)'
 <2>1. Owned(ch, own)' /\ MapClean' BY <1>1 DEF Layout, Owned, MapClean
 <2>2. Readable' BY <1>1 DEF Layout, Readable, CheckNode, Invalid
 <2>3. Layout(ch, own)' BY <1>4, <1>5, <2>1, <2>2 DEF Layout
 <2>4. Typed' BY <1>1, <1>3 DEF Typed, IsNode
 <2> QED BY <2>3, <2>4
<1> QED BY <1>1, <1>2, <1>3, <1>4, <1>5

\* exfat_mknod begins.
LEMMA CreateFileStep == ASSUME NEW ch, NEW own, Typed, Layout(ch, own), NEW f \in Files, CreateFile(f)
    PROVE  Typed' /\ Layout(ch, own)'
<1>1. PICK x, y : x = [k |-> "entry", f |-> f, e |-> EntryOf(NoNode)] /\ y = Stage("attach") OBVIOUS
<1>2. Call(f, <<x, y>>, {f}) /\ UNCHANGED Memory /\ node[f].state = "none" /\ Idle BY <1>1 DEF CreateFile, Call, Stage
<1>3. <<x, y>> = <<x>> \o <<y>> /\ Listed(<<y>>) BY Tuples, ListedOne
<1>4. x.k = "entry" /\ x.f = f /\ x.e = EntryOf(NoNode) BY <1>1
<1>5. /\ todo' # <<>> /\ Now' = x /\ Tail(todo') = <<y>> /\ file' = f /\ node' = node /\ Quiet(f, ch, own)'
      /\ Busy(ch, own)' => Typed' /\ Layout(ch, own)'
 <2>1. PICK t, fs : t = <<y>> /\ fs = {f} OBVIOUS
 <2>2. Call(f, <<x>> \o t, fs) /\ UNCHANGED Memory /\ x.k # "catch" /\ Listed(t) /\ Idle BY <1>2, <1>3, <1>4, <2>1
 <2>3. /\ todo' # <<>> /\ Now' = x /\ Tail(todo') = t /\ file' = f /\ node' = node /\ Quiet(f, ch, own)'
       /\ Busy(ch, own)' => Typed' /\ Layout(ch, own)' BY <2>2, CallBegins
 <2> QED BY <2>1, <2>3
<1>6. AtEntry(Now, Tail(todo), ch, own)' BY <1>1, <1>2, <1>4, <1>5 DEF AtEntry, Nd, EntryOf, NoNode
<1>7. Busy(ch, own)' BY <1>4, <1>5, <1>6, AtThat
<1> QED BY <1>5, <1>7

\* exfat_unlink begins.
LEMMA DeleteNodeStep == ASSUME NEW ch, NEW own, Typed, Layout(ch, own), NEW f \in Files, DeleteNode(f)
    PROVE  Typed' /\ Layout(ch, own)'
<1>1. PICK x, y : x = [k |-> "entry", f |-> f, e |-> NoEntry] /\ y = Stage("unlink") OBVIOUS
<1>2. Call(f, <<x, y>>, {f}) /\ UNCHANGED Memory /\ node[f].state = "linked" /\ Idle BY <1>1 DEF DeleteNode, Call, Stage
<1>3. <<x, y>> = <<x>> \o <<y>> /\ Listed(<<y>>) BY Tuples, ListedOne
<1>4. x.k = "entry" /\ x.f = f /\ x.e = NoEntry BY <1>1
<1>5. /\ todo' # <<>> /\ Now' = x /\ Tail(todo') = <<y>> /\ file' = f /\ node' = node /\ Quiet(f, ch, own)'
      /\ Busy(ch, own)' => Typed' /\ Layout(ch, own)'
 <2>1. PICK t, fs : t = <<y>> /\ fs = {f} OBVIOUS
 <2>2. Call(f, <<x>> \o t, fs) /\ UNCHANGED Memory /\ x.k # "catch" /\ Listed(t) /\ Idle BY <1>2, <1>3, <1>4, <2>1
 <2>3. /\ todo' # <<>> /\ Now' = x /\ Tail(todo') = t /\ file' = f /\ node' = node /\ Quiet(f, ch, own)'
       /\ Busy(ch, own)' => Typed' /\ Layout(ch, own)' BY <2>2, CallBegins
 <2> QED BY <2>1, <2>3
<1>6. AtEntry(Now, Tail(todo), ch, own)' BY <1>1, <1>2, <1>4, <1>5 DEF AtEntry, Nd, NoEntry
<1>7. Busy(ch, own)' BY <1>4, <1>5, <1>6, AtThat
<1> QED BY <1>5, <1>7

\* A call that begins with exfat_truncate.
LEMMA TruncateBegins ==
    ASSUME NEW ch, NEW own, Typed, Layout(ch, own), Idle, NEW f \in Files, NEW n \in 0..MaxSize, NEW e \in BOOLEAN,
           NEW t, NEW fs, Call(f, <<Truncating(n, e)>> \o t, fs), UNCHANGED Memory, Listed(t),
           file' = f /\ node' = node => Rest(t, n)' /\ (e \/ Fit(t, n)') PROVE Typed' /\ Layout(ch, own)'
<1>1. PICK x : x = Truncating(n, e) OBVIOUS
<1>2. x.k = "truncate" /\ x.to = n BY <1>1 DEF Truncating
<1>3. x.erase \in BOOLEAN /\ (x.erase <=> e) BY <1>1 DEF Truncating
<1>4. /\ todo' # <<>> /\ Now' = x /\ Tail(todo') = t /\ file' = f /\ node' = node /\ Quiet(f, ch, own)'
      /\ Busy(ch, own)' => Typed' /\ Layout(ch, own)'
 <2>1. Call(f, <<x>> \o t, fs) /\ UNCHANGED Memory /\ x.k # "catch" BY <1>1, <1>2
 <2> QED BY <2>1, CallBegins
<1>5. AtTruncate(Now, Tail(todo), ch, own)'
 <2>1. Rest(t, n)' /\ (~x.erase => Fit(t, n)') /\ Settled(f, ch, own)' /\ Booked(f)' BY <1>3, <1>4 DEF Quiet
 <2> QED BY <1>2, <1>3, <1>4, <2>1 DEF AtTruncate
<1>6. Busy(ch, own)' BY <1>2, <1>4, <1>5, AtThat
<1> QED BY <1>4, <1>6

\* setLength begins.
LEMMA SetLengthStep == ASSUME NEW ch, NEW own, Typed, Layout(ch, own), NEW f \in Files, NEW n \in Lengths, SetLength(f, n)
    PROVE  Typed' /\ Layout(ch, own)'
<1>1. n \in 0..MaxSize BY VolumeAssumption
<1>2. PICK x : x = Truncating(n, FALSE) OBVIOUS
<1>3. Call(f, <<x>>, {f}) /\ UNCHANGED Memory /\ node[f].state = "linked" /\ Idle BY <1>2 DEF SetLength, Call, Truncating
<1>4. <<x>> \o <<>> = <<x>> /\ Listed(<<>>) BY ListedOne, ListedNil, ConcatNil
<1>5. Call(f, <<Truncating(n, FALSE)>> \o <<>>, {f}) BY <1>2, <1>3, <1>4, Zenon
<1>6. ASSUME file' = f, node' = node PROVE Rest(<<>>, n)' /\ (FALSE \/ Fit(<<>>, n)') BY <1>3, <1>6 DEF Rest, Nd, Fit
<1>7. FALSE \in BOOLEAN OBVIOUS
<1> QED BY <1>1, <1>3, <1>4, <1>5, <1>6, <1>7, TruncateBegins

\* The last close of a deleted file begins.
LEMMA PutNodeStep == ASSUME NEW ch, NEW own, Typed, Layout(ch, own), NEW f \in Files, PutNode(f)
    PROVE  Typed' /\ Layout(ch, own)'
<1>1. PICK n, x, y, z : n = 0 /\ x = Truncating(n, TRUE) /\ y = Stage("catch") /\ z = Stage("freeNode") OBVIOUS
<1>2. Call(f, (<<x>> \o <<y>>) \o <<z>>, {f}) /\ UNCHANGED Memory /\ node[f].state = "unlinked" /\ Idle
 BY <1>1 DEF PutNode, Call, Truncating, Stage, Catch
<1>3. (<<x>> \o <<y>>) \o <<z>> = <<x>> \o (<<y>> \o <<z>>)
 <2>1. Listed(<<x>>) /\ Listed(<<y>>) /\ Listed(<<z>>) BY ListedOne
 <2> QED BY <2>1, ConcatAssoc
<1>4. <<y, z>> = <<y>> \o <<z>> /\ Listed(<<y, z>>)
 <2>1. Listed(<<y>>) /\ Listed(<<z>>) /\ <<y, z>> = <<y>> \o <<z>> BY ListedOne, Tuples
 <2>2. Listed(<<y>> \o <<z>>) BY <2>1, InFront
 <2> QED BY <2>1, <2>2
<1>5. Call(f, <<Truncating(n, TRUE)>> \o <<y, z>>, {f}) BY <1>1, <1>2, <1>3, <1>4, Zenon
<1>6. ASSUME file' = f, node' = node PROVE Rest(<<y, z>>, n)' /\ (TRUE \/ Fit(<<y, z>>, n)') BY <1>1, <1>2, <1>6 DEF Rest, Nd
<1>7. TRUE \in BOOLEAN /\ n \in 0..MaxSize BY <1>1, VolumeAssumption
<1> QED BY <1>2, <1>4, <1>5, <1>6, <1>7, TruncateBegins

\* exfat_generic_pwrite begins, with the truncate that its offset calls for.
LEMMA WriteFileStep ==
    ASSUME NEW ch, NEW own, Typed, Layout(ch, own), NEW f \in Files, NEW i \in 0..MaxSize, NEW n \in 1..MaxWrite,
           WriteFile(f, i, n) PROVE Typed' /\ Layout(ch, own)'
<1>1. PICK z \in Nat : z = node[f].size BY NodeFacts
<1>2. PICK m, a, b, l : m = i + n /\ a = Truncating(i, TRUE) /\ b = Truncating(m, FALSE) /\ l = Locating(i, n) OBVIOUS
<1>3. i \in Nat /\ n \in 1..MaxSize /\ m \in 1..MaxSize /\ MaxSize \in Nat /\ i < m
 <2>1. i + n <= MaxSize /\ MaxSize \in Nat /\ MaxWrite \in 0..MaxSize BY VolumeAssumption DEF WriteFile
 <2> QED BY <1>2, <2>1
<1>4. PICK A, B : /\ A = (IF i > z THEN <<a>> ELSE <<>>) /\ B = (IF m > z THEN <<b>> ELSE <<>>) OBVIOUS
<1>5. Call(f, (A \o B) \o <<l>>, {f}) /\ UNCHANGED Memory /\ node[f].state = "linked" /\ Idle
 BY <1>1, <1>2, <1>4 DEF WriteFile, Call, Truncating, Locating
<1>6. PICK fs : fs = {f} OBVIOUS
<1>7. Listed(<<>>) /\ Listed(<<a>>) /\ Listed(<<b>>) /\ Listed(<<l>>) BY ListedNil, ListedOne
<1>8. CASE i > z
 <2>1. m > z BY <1>3, <1>8
 <2>2. A = <<a>> /\ B = <<b>> BY <1>4, <1>8, <2>1
 <2>3. (<<a>> \o <<b>>) \o <<l>> = <<a>> \o (<<b>> \o <<l>>) BY <1>7, ConcatAssoc
 <2>4. PICK t : t = <<b, l>> OBVIOUS
 <2>5. t = <<b>> \o <<l>> /\ Listed(t)
  <3>1. t = <<b>> \o <<l>> BY <2>4, Tuples
  <3> QED BY <1>7, <3>1, InFront
 <2>6. Call(f, <<Truncating(i, TRUE)>> \o t, fs) BY <1>2, <1>5, <1>6, <2>2, <2>3, <2>5, Zenon
 <2>7. ASSUME file' = f, node' = node PROVE Rest(t, i)' /\ (TRUE \/ Fit(t, i)')
  <3>1. i + n <= MaxSize /\ t = <<Truncating(i + n, FALSE), Locating(i, n)>> BY <1>2, <1>3, <2>4
  <3>2. Nd'.state = "linked" BY <1>5, <2>7 DEF Nd
  <3> QED BY <1>3, <3>1, <3>2 DEF Rest
 <2>8. TRUE \in BOOLEAN OBVIOUS
 <2> QED BY <1>5, <2>5, <2>6, <2>7, <2>8, TruncateBegins
<1>9. CASE ~(i > z) /\ m > z
 <2>1. A = <<>> /\ B = <<b>> BY <1>4, <1>9
 <2>2. <<>> \o <<b>> = <<b>> BY <1>7, ConcatNil
 <2>3. PICK t : t = <<l>> OBVIOUS
 <2>4. Listed(t) BY <1>7, <2>3
 <2>5. Call(f, <<Truncating(m, FALSE)>> \o t, fs) BY <1>2, <1>5, <1>6, <2>1, <2>2, <2>3, Zenon
 <2>6. ASSUME file' = f, node' = node PROVE Rest(t, m)' /\ (FALSE \/ Fit(t, m)')
  <3>1. t = <<Locating(i, n)>> /\ i + n <= m BY <1>2, <1>3, <2>3
  <3>2. Nd'.state = "linked" /\ Nd'.size = z BY <1>1, <1>5, <2>6 DEF Nd
  <3>3. Rest(t, m)' BY <1>3, <3>1, <3>2 DEF Rest
  <3>4. i \in Nat /\ n \in Nat /\ i + n = m /\ i <= z BY <1>1, <1>2, <1>3, <1>9
  <3>5. Fit(t, m)' BY <3>1, <3>2, <3>4 DEF Fit
  <3> QED BY <3>3, <3>5
 <2>7. FALSE \in BOOLEAN /\ m \in 0..MaxSize BY <1>3
 <2> QED BY <1>5, <2>4, <2>5, <2>6, <2>7, TruncateBegins
<1>10. CASE ~(i > z) /\ ~(m > z)
 <2>1. A = <<>> /\ B = <<>> BY <1>4, <1>10
 <2>2. (<<>> \o <<>>) \o <<l>> = <<l>> /\ <<l>> \o <<>> = <<l>> BY <1>7, ConcatNil
 <2>3. PICK t : t = <<>> OBVIOUS
 <2>4. Listed(t) /\ Call(f, <<l>> \o t, fs)
  <3>1. Call(f, <<l>> \o t, fs) BY <1>5, <1>6, <2>1, <2>2, <2>3, Zenon
  <3> QED BY <1>7, <2>3, <3>1
 <2>5. l.k = "locate" /\ l.i = i /\ l.n = n BY <1>2 DEF Locating
 <2>6. /\ todo' # <<>> /\ Now' = l /\ Tail(todo') = t /\ file' = f /\ node' = node /\ Quiet(f, ch, own)'
       /\ Busy(ch, own)' => Typed' /\ Layout(ch, own)'
  <3>1. l.k # "catch" BY <2>5
  <3> QED BY <1>5, <2>4, <3>1, CallBegins
 <2>7. AtLocate(Now, Tail(todo), ch, own)'
  <3>1. i + n <= node'[f].size /\ n \in Nat \ {0} /\ i \in Nat /\ node'[f].state = "linked" BY <1>1, <1>2, <1>3, <1>5, <1>10, <2>6
  <3> QED BY <2>3, <2>5, <2>6, <3>1 DEF AtLocate, Nd
 <2>8. Busy(ch, own)' BY <2>5, <2>6, <2>7, AtThat
 <2> QED BY <2>6, <2>8
<1> QED BY <1>8, <1>9, <1>10

\* exfat_generic_pread finds the cluster of its place.
LEMMA ReadFileFinds ==
    ASSUME NEW ch, NEW own, Typed, Layout(ch, own), NEW f \in Files, NEW i \in 0..MaxSize - 1, ReadFile(f, i)
    PROVE  /\ Call(NoFile, <<>>, {}) /\ Idle /\ i \in Nat /\ i < node[f].size
           /\ node' = [node EXCEPT ![f] = [Moved(node[f], i) EXCEPT !.dirty = TRUE]]
           /\ \A g \in Files : Quiet(g, ch, own)
           /\ Strung(node[f], ch[f], node[f].size) /\ Pointed(node[f], ch[f], node[f].size)
           /\ IsNode(node[f]) /\ node[f].size \in Nat /\ ch[f] \in [Nat -> Clusters]
<1>1. Idle /\ i < node[f].valid BY DEF ReadFile, Call
<1>2. PICK n, s : n = node[f].size /\ s = ch[f] OBVIOUS
<1>3. \A g \in Files : Quiet(g, ch, own) BY <1>1, InIdle
<1>4. Strung(node[f], s, n) /\ Pointed(node[f], s, n) /\ IsNode(node[f]) /\ n \in Nat /\ s \in [Nat -> Clusters]
 BY <1>2, <1>3, NodeFacts DEF Quiet, Settled, Sized, Layout, Ghosts
<1>5. i \in Nat /\ i < n /\ node[f].at \in Nat BY <1>1, <1>2, <1>4 DEF IsNode
<1>6. Advance(node[f], i) = s[i] /\ ~AdvanceBugs(node[f], i) BY <1>4, <1>5, AdvanceIs
<1>7. ~Invalid(s[i]) BY <1>4, <1>5, ClusterNums
<1>8. /\ Call(NoFile, <<>>, {})
      /\ node' = [node EXCEPT ![f] = [Moved(node[f], i) EXCEPT !.dirty = TRUE]] BY <1>6, <1>7 DEF ReadFile
<1> QED BY <1>1, <1>2, <1>3, <1>4, <1>5, <1>8

\* exfat_generic_pread walks to its place and changes the remembered cluster only.
LEMMA ReadFileStep ==
    ASSUME NEW ch, NEW own, Typed, Layout(ch, own), NEW f \in Files, NEW i \in 0..MaxSize - 1, ReadFile(f, i)
    PROVE  Typed' /\ Layout(ch, own)'
<1>1. Idle /\ Call(NoFile, <<>>, {}) BY ReadFileFinds
<1>2. /\ UNCHANGED <<cmap, cmapDirty, fat, bitmap, entry, data, want>> /\ file' = NoFile /\ todo' = <<>>
      /\ safe' \subseteq Files BY <1>1, InIdle, PastNothing DEF ReadFile, Call, disk
<1>3. Listed(todo') /\ Busy(ch, own)' BY <1>2, ListedNil DEF Busy
<1>4. PICK n, s : n = node[f].size /\ s = ch[f] OBVIOUS
<1>5. \A g \in Files : Quiet(g, ch, own) BY ReadFileFinds
<1>6. Strung(node[f], s, n) /\ Pointed(node[f], s, n) /\ IsNode(node[f]) /\ n \in Nat /\ s \in [Nat -> Clusters] /\ i \in Nat /\ i < n
 BY <1>4, ReadFileFinds
<1>8. PICK m : m = Moved(node[f], i) OBVIOUS
<1>9. /\ IsNode(m) /\ m.at = i /\ m.ptr = s[i]
      /\ m.start = node[f].start /\ m.size = n /\ m.valid = node[f].valid /\ m.state = node[f].state
      /\ m.contiguous = node[f].contiguous BY <1>4, <1>6, <1>8, MovedIs
<1> DEFINE d == [m EXCEPT !.dirty = TRUE]
<1>10. /\ DOMAIN d = DOMAIN m /\ d.start = m.start /\ d.size = m.size /\ d.valid = m.valid
       /\ d.state = m.state /\ d.at = m.at /\ d.ptr = m.ptr BY <1>9 DEF IsNode
<1>11. d.contiguous = m.contiguous BY <1>9 DEF IsNode
<1>12. d.dirty BY <1>9 DEF IsNode
<1>13. node' = [node EXCEPT ![f] = d] BY <1>8, ReadFileFinds
<1>14. DOMAIN node' = Files /\ node'[f] = d /\ \A g \in Files : g # f => node'[g] = node[g] BY <1>13 DEF Typed
<1> HIDE DEF d
<1>15. IsNode(d) BY <1>9, <1>10 DEF IsNode
<1>16. \A g \in Files : IsNode(node'[g]) BY <1>14, <1>15 DEF Typed
<1>17. \A g \in Files : Quiet(g, ch, own)'
 <2>1. Quiet(f, ch, own)'
  <3>1. Pointed(node[f], ch[f], node[f].size)' BY <1>4, <1>6, <1>9, <1>10, <1>14 DEF Pointed
  <3>2. /\ node'[f].state = node[f].state /\ node'[f].start = node[f].start /\ node'[f].size = node[f].size
        /\ node'[f].contiguous <=> node[f].contiguous BY <1>4, <1>9, <1>10, <1>11, <1>14
  <3>3. node'[f].dirty BY <1>12, <1>14
  <3> QED BY <1>2, <1>5, <3>1, <3>2, <3>3, QuietKept
 <2>2. ASSUME NEW g \in Files, g # f PROVE Quiet(g, ch, own)' BY <1>2, <1>5, <1>14, <2>2, AllKept
 <2> QED BY <2>1, <2>2
<1>18. Readable' /\ MapClean' BY <1>2 DEF Layout, Readable, MapClean, CheckNode, Invalid
<1>19. DOMAIN entry' = Files /\ (\A g \in Files : entry'[g].start \in Clusters \cup {FREE} /\ entry'[g].valid \in Nat)
       /\ bitmap' \subseteq Clusters BY <1>2 DEF Typed
<1> QED BY <1>2, <1>3, <1>14, <1>16, <1>17, <1>18, <1>19, Between

\* The part of a flush before its end.
Flushes(u, L) ==
    /\ Listed(u)
    /\ \A i \in 1..Len(u) :
         \/ u[i] \in {Stage("catch"), Stage("flushMap")}
         \/ \E f \in L : u[i] = [k |-> "flushNode", f |-> f]

\* A place of a concatenation is one of the first list or one of the second.
LEMMA ConcatAt == ASSUME NEW s, NEW t, Listed(s), Listed(t), NEW i \in 1..Len(s \o t)
    PROVE  \/ i \in 1..Len(s) /\ (s \o t)[i] = s[i]
           \/ \E j \in 1..Len(t) : i = Len(s) + j /\ (s \o t)[i] = t[j]
<1>1. /\ Len(s \o t) = Len(s) + Len(t)
      /\ \A k \in 1..Len(s) : (s \o t)[k] = s[k]
      /\ \A k \in 1..Len(t) : (s \o t)[Len(s) + k] = t[k] BY ListedConcat
<1>2. PICK a, b \in Nat : a = Len(s) /\ b = Len(t) BY ListedLen
<1>3. CASE i <= a BY <1>1, <1>2, <1>3
<1>4. CASE ~(i <= a)
 <2>1. PICK j \in 1..b : i = a + j
  <3>1. i - a \in 1..b /\ i = a + (i - a) BY <1>1, <1>2, <1>4
  <3> QED BY <3>1
 <2> QED BY <1>1, <1>2, <2>1
<1> QED BY <1>3, <1>4

\* One flush after another is a flush.
LEMMA FlushesConcat == ASSUME NEW u, NEW v, NEW L, Flushes(u, L), Flushes(v, L) PROVE Flushes(u \o v, L)
<1>1. Listed(u) /\ Listed(v) BY DEF Flushes
<1>2. PICK w : w = u \o v OBVIOUS
<1>3. Listed(w) BY <1>1, <1>2, ListedConcat
<1>4. ASSUME NEW i \in 1..Len(w)
      PROVE  \/ w[i] \in {Stage("catch"), Stage("flushMap")}
             \/ \E f \in L : w[i] = [k |-> "flushNode", f |-> f]
 <2>1. \/ i \in 1..Len(u) /\ w[i] = u[i]
       \/ \E j \in 1..Len(v) : i = Len(u) + j /\ w[i] = v[j] BY <1>1, <1>2, ConcatAt
 <2> QED BY <2>1 DEF Flushes
<1>5. Flushes(w, L) BY <1>3, <1>4 DEF Flushes
<1> QED BY <1>2, <1>5

\* A caller and the writing of the bitmap are stages of a flush.
LEMMA FlushesOne == ASSUME NEW L PROVE Flushes(<<Stage("catch")>>, L) /\ Flushes(<<Stage("flushMap")>>, L)
<1>1. ASSUME NEW x, x \in {Stage("catch"), Stage("flushMap")} PROVE Flushes(<<x>>, L)
 <2>1. Listed(<<x>>) /\ Len(<<x>>) = 1 /\ <<x>>[1] = x BY ListedOne
 <2> QED BY <1>1, <2>1 DEF Flushes
<1> QED BY <1>1

\* The nodes of the tree in some order are all of them.
LEMMA OrderIs == ASSUME NEW L, IsFiniteSet(L), NEW order \in SetToSeqs(L)
    PROVE  /\ Listed(order)
           /\ \A i \in 1..Len(order) : order[i] \in L
           /\ \A f \in L : \E i \in 1..Len(order) : order[i] = f
<1>1. PICK n \in Nat : n = Cardinality(L) BY FS_CardinalityType
<1>2. order \in [1..n -> L] /\ \A i, j \in 1..n : i # j => order[i] # order[j] BY <1>1 DEF SetToSeqs
<1>3. order \in Seq(L) /\ Len(order) = n BY <1>2
<1>4. Listed(order) BY <1>3, ListedOf
<1>5. order \in Injection(1..n, L) BY <1>2 DEF Injection, IsInjective
<1>6. IsFiniteSet(1..n) /\ Cardinality(1..n) = n BY FS_Interval
<1>7. order \in Surjection(1..n, L) BY <1>1, <1>5, <1>6, FS_Injection
<1>8. \A f \in L : \E i \in 1..n : order[i] = f BY <1>7 DEF Surjection
<1> QED BY <1>2, <1>3, <1>4, <1>8

\* A list given place by place.
LEMMA ListedMade == ASSUME NEW n \in Nat, NEW t, DOMAIN t = 1..n, t = [i \in 1..n |-> t[i]] PROVE Listed(t) /\ Len(t) = n
<1> DEFINE R == {t[i] : i \in DOMAIN t}
<1>1. t \in [1..n -> R] OBVIOUS
<1>2. t \in Seq(R) /\ Len(t) = n
 <2> HIDE DEF R
 <2> QED BY <1>1
<1> HIDE DEF R
<1> QED BY <1>2, ListedOf

\* exfat_flush_nodes visits every file of the tree.
LEMMA FlushNodesIs == ASSUME NEW L, IsFiniteSet(L), NEW order \in SetToSeqs(L)
    PROVE  Flushes(FlushNodes(order), L) /\ \A f \in L : NodeDue(f, FlushNodes(order))
<1>1. /\ Listed(order) /\ (\A i \in 1..Len(order) : order[i] \in L)
      /\ \A f \in L : \E i \in 1..Len(order) : order[i] = f BY OrderIs
<1>2. PICK n \in Nat : n = Len(order) /\ DOMAIN order = 1..n BY <1>1, ListedLen
<1>3. PICK u : u = FlushNodes(order) OBVIOUS
<1>4. u = [i \in 1..n |-> [k |-> "flushNode", f |-> order[i]]] BY <1>2, <1>3 DEF FlushNodes
<1>5. DOMAIN u = 1..n /\ u = [i \in 1..n |-> u[i]] /\ \A i \in 1..n : u[i] = [k |-> "flushNode", f |-> order[i]] BY <1>4
<1>6. Listed(u) /\ Len(u) = n BY <1>5, ListedMade
<1>7. Flushes(u, L) BY <1>1, <1>2, <1>5, <1>6 DEF Flushes
<1>8. \A f \in L : NodeDue(f, u)
 <2> TAKE f \in L
 <2>1. PICK i \in 1..n : order[i] = f BY <1>1, <1>2
 <2>2. u[i].k = "flushNode" /\ u[i].f = f BY <1>5, <2>1
 <2> QED BY <1>6, <2>2 DEF NodeDue
<1> QED BY <1>3, <1>7, <1>8

\* The flushes that unmount makes while it resets the cache visit files of the tree only.
LEMMA FlushEachIs == ASSUME NEW L, IsFiniteSet(L), NEW order \in SetToSeqs(L) PROVE Flushes(FlushEach(order), L)
<1>1. Listed(order) /\ (\A i \in 1..Len(order) : order[i] \in L) BY OrderIs
<1>2. PICK n \in Nat : n = Len(order) BY <1>1, ListedLen
<1>3. PICK m \in Nat : m = 2 * n OBVIOUS
<1>4. PICK u : u = FlushEach(order) OBVIOUS
<1>5. u = [i \in 1..m |-> IF i % 2 = 1 THEN [k |-> "flushNode", f |-> order[(i + 1) \div 2]] ELSE [k |-> "catch"]]
 BY <1>2, <1>3, <1>4 DEF FlushEach
<1>6. /\ DOMAIN u = 1..m /\ u = [i \in 1..m |-> u[i]]
      /\ \A i \in 1..m : u[i] = IF i % 2 = 1 THEN [k |-> "flushNode", f |-> order[(i + 1) \div 2]] ELSE [k |-> "catch"] BY <1>5
<1>7. Listed(u) /\ Len(u) = m BY <1>6, ListedMade
<1>8. ASSUME NEW i \in 1..m PROVE \/ u[i] \in {Stage("catch"), Stage("flushMap")}
                                  \/ \E f \in L : u[i] = [k |-> "flushNode", f |-> f]
 <2>1. (i + 1) \div 2 \in 1..n BY <1>3
 <2>2. PICK j \in 1..n : j = (i + 1) \div 2 BY <2>1
 <2>3. order[j] \in L BY <1>1, <1>2
 <2>4. u[i] = [k |-> "flushNode", f |-> order[j]] \/ u[i] = Stage("catch") BY <1>6, <2>2 DEF Stage
 <2> QED BY <2>3, <2>4
<1> QED BY <1>4, <1>7, <1>8 DEF Flushes

\* What a list waits for, a longer one waits for too.
LEMMA DueConcat == ASSUME NEW u, NEW v, Listed(u), Listed(v)
    PROVE  /\ \A f : NodeDue(f, u) => NodeDue(f, u \o v)
           /\ MapDue(u) \/ MapDue(v) => MapDue(u \o v)
<1>1. /\ Len(u \o v) = Len(u) + Len(v)
      /\ \A k \in 1..Len(u) : (u \o v)[k] = u[k]
      /\ \A k \in 1..Len(v) : (u \o v)[Len(u) + k] = v[k] BY ListedConcat
<1>2. PICK a, b \in Nat : a = Len(u) /\ b = Len(v) BY ListedLen
<1>3. PICK w : w = u \o v OBVIOUS
<1>4. Len(w) = a + b /\ (\A k \in 1..a : k \in 1..Len(w) /\ w[k] = u[k])
      /\ \A k \in 1..b : a + k \in 1..Len(w) /\ w[a + k] = v[k] BY <1>1, <1>2, <1>3
<1>5. \A f : NodeDue(f, u) => NodeDue(f, w) BY <1>2, <1>4 DEF NodeDue
<1>6. MapDue(u) => MapDue(w) BY <1>2, <1>4 DEF MapDue
<1>7. MapDue(v) => MapDue(w) BY <1>2, <1>4 DEF MapDue
<1> QED BY <1>3, <1>5, <1>6, <1>7

\* A bitmap that is about to be flushed is waited for.
LEMMA MapPendingOne == MapDue(<<Stage("flushMap")>>)
<1>1. PICK x : x = Stage("flushMap") OBVIOUS
<1>2. x.k = "flushMap" /\ Len(<<x>>) = 1 /\ <<x>>[1] = x BY <1>1 DEF Stage
<1>3. MapDue(<<x>>) BY <1>2 DEF MapDue
<1> QED BY <1>1, <1>3

\* A flush with its end.
LEMMA FlushesDone ==
    ASSUME NEW u, NEW L, Flushes(u, L), NEW w, w = <<Stage("flushed")>> \/ w = <<Stage("flushed"), Stage("unmounted")>>
    PROVE  FlushList(u \o w, L) /\ Listed(w)
<1>1. Listed(u) BY DEF Flushes
<1>2. PICK x, y : x = Stage("flushed") /\ y = Stage("unmounted") OBVIOUS
<1>3. /\ Listed(w) /\ Len(w) \in {1, 2} /\ w[1] = x /\ (Len(w) = 2 => w[2] = y)
 <2>1. CASE w = <<x>> BY <2>1, ListedOne
 <2>2. CASE w = <<x, y>>
  <3>1. <<x, y>> \in Seq({x, y}) /\ Len(<<x, y>>) = 2 /\ <<x, y>>[1] = x /\ <<x, y>>[2] = y OBVIOUS
  <3>2. Listed(<<x, y>>) BY <3>1, ListedOf
  <3> QED BY <2>2, <3>1, <3>2
 <2> QED BY <1>2, <2>1, <2>2
<1>4. PICK v : v = u \o w OBVIOUS
<1>5. /\ Listed(v) /\ Len(v) = Len(u) + Len(w)
      /\ \A k \in 1..Len(w) : v[Len(u) + k] = w[k] BY <1>1, <1>3, <1>4, ListedConcat
<1>6. PICK a, b \in Nat : a = Len(u) /\ b = Len(w) BY <1>1, <1>3, ListedLen
<1>7. ASSUME NEW i \in 1..Len(v)
      PROVE  \/ v[i] \in {Stage("catch"), Stage("flushMap")}
             \/ \E f \in L : v[i] = [k |-> "flushNode", f |-> f]
             \/ v[i] = Stage("flushed") /\ (i = Len(v) \/ (i = Len(v) - 1 /\ v[Len(v)] = Stage("unmounted")))
             \/ v[i] = Stage("unmounted") /\ i = Len(v)
 <2>1. \/ i \in 1..Len(u) /\ v[i] = u[i]
       \/ \E j \in 1..Len(w) : i = Len(u) + j /\ v[i] = w[j] BY <1>1, <1>3, <1>4, ConcatAt
 <2>2. CASE i \in 1..Len(u) /\ v[i] = u[i] BY <2>2 DEF Flushes
 <2>3. CASE \E j \in 1..Len(w) : i = Len(u) + j /\ v[i] = w[j]
  <3>1. PICK j \in 1..b : i = a + j /\ v[i] = w[j] BY <1>6, <2>3
  <3>2. b = 1 \/ b = 2 BY <1>3, <1>6
  <3>3. v[Len(v)] = w[b] /\ Len(v) = a + b
   <4>1. b \in 1..Len(w) BY <1>6, <3>2
   <4> QED BY <1>5, <1>6, <4>1
  <3>4. CASE b = 1
   <4>1. j = 1 /\ i = Len(v) BY <3>1, <3>3, <3>4
   <4> QED BY <1>2, <1>3, <3>1, <4>1
  <3>5. CASE b = 2
   <4>1. (j = 1 /\ i = Len(v) - 1) \/ (j = 2 /\ i = Len(v)) BY <3>1, <3>3, <3>5
   <4>2. w[2] = y /\ v[Len(v)] = y BY <1>3, <1>6, <3>3, <3>5
   <4> QED BY <1>2, <1>3, <3>1, <4>1, <4>2
  <3> QED BY <3>2, <3>4, <3>5
 <2> QED BY <2>1, <2>2, <2>3
<1>8. FlushList(v, L) BY <1>5, <1>7 DEF FlushList
<1> QED BY <1>3, <1>4, <1>8

\* A call that flushes every node and the bitmap begins.
LEMMA FlushBegins == ASSUME NEW ch, NEW own, Typed, Layout(ch, own), Idle, NEW u, Flushes(u, Linked),
           NEW w, w = <<Stage("flushed")>> \/ w = <<Stage("flushed"), Stage("unmounted")>>,
           \A f \in Linked : NodeDue(f, u), MapDue(u), Call(NoFile, u \o w, {}), UNCHANGED Memory
    PROVE  Typed' /\ Layout(ch, own)'
<1>1. PICK v : v = u \o w OBVIOUS
<1>2. FlushList(v, Linked) /\ Listed(w) /\ Listed(u) BY <1>1, FlushesDone DEF Flushes
<1>3. MapDue(v) /\ \A f \in Linked : NodeDue(f, v) BY <1>1, <1>2, DueConcat
<1>4. /\ UNCHANGED <<node, cmap, cmapDirty, fat, bitmap, entry, data, want>> /\ file' = NoFile /\ todo' = PastCatch(v)
      /\ safe' \subseteq Files /\ file = NoFile BY <1>1, InIdle DEF Call, Memory, disk
<1>5. Continue(v) BY <1>4 DEF Continue
<1>6. Linked' = Linked BY <1>4 DEF Linked
<1>7. Pending(v)' /\ FlushTail(v)' BY <1>2, <1>3, <1>6 DEF Pending, FlushTail, NodeDue, MapDue
<1>8. Busy(ch, own)' /\ Listed(todo') BY <1>4, <1>5, <1>7, FlushGoes
<1> QED BY <1>4, <1>8, BetweenSame

\* What every flush begins with: the nodes, then the bitmap.
LEMMA FlushBoth == ASSUME NEW L, IsFiniteSet(L), NEW order \in SetToSeqs(L)
    PROVE  LET u == ((FlushNodes(order) \o <<Stage("catch")>>) \o <<Stage("flushMap")>>) \o <<Stage("catch")>>
           IN  Flushes(u, L) /\ MapDue(u) /\ \A f \in L : NodeDue(f, u)
<1>1. PICK n, c, m : n = FlushNodes(order) /\ c = <<Stage("catch")>> /\ m = <<Stage("flushMap")>> OBVIOUS
<1>2. Flushes(n, L) /\ Flushes(c, L) /\ Flushes(m, L) /\ MapDue(m) /\ \A f \in L : NodeDue(f, n)
 BY <1>1, FlushNodesIs, FlushesOne, MapPendingOne
<1>3. PICK a, b, d : a = n \o c /\ b = a \o m /\ d = b \o c OBVIOUS
<1>4. Flushes(a, L) BY <1>2, <1>3, FlushesConcat
<1>5. Flushes(b, L) BY <1>2, <1>3, <1>4, FlushesConcat
<1>6. Flushes(d, L) BY <1>2, <1>3, <1>5, FlushesConcat
<1>7. Listed(n) /\ Listed(c) /\ Listed(m) /\ Listed(a) /\ Listed(b) BY <1>2, <1>4, <1>5 DEF Flushes
<1>8. \A f : NodeDue(f, n) => NodeDue(f, a) BY <1>3, <1>7, DueConcat
<1>9. MapDue(b) /\ \A f : NodeDue(f, a) => NodeDue(f, b) BY <1>2, <1>3, <1>7, DueConcat
<1>10. MapDue(d) /\ \A f : NodeDue(f, b) => NodeDue(f, d) BY <1>3, <1>7, <1>9, DueConcat
<1>11. d = ((FlushNodes(order) \o <<Stage("catch")>>) \o <<Stage("flushMap")>>) \o <<Stage("catch")>> BY <1>1, <1>3, Zenon
<1>12. Flushes(d, L) /\ MapDue(d) /\ \A f \in L : NodeDue(f, d) BY <1>2, <1>6, <1>8, <1>9, <1>10
<1> QED BY <1>11, <1>12

\* flush begins.
LEMMA FlushStep == ASSUME NEW ch, NEW own, Typed, Layout(ch, own), Flush PROVE Typed' /\ Layout(ch, own)'
<1>1. PICK L : L = Linked OBVIOUS
<1>2. IsFiniteSet(L)
 <2>1. L \in SUBSET Files BY <1>1 DEF Linked
 <2> QED BY <2>1, VolumeAssumption, FS_Subset
<1>3. PICK order \in SetToSeqs(L) :
        Call(NoFile, FlushNodes(order) \o Catch \o <<[k |-> "flushMap"]>> \o Catch \o <<[k |-> "flushed"]>>, {}) BY <1>1 DEF Flush
<1>4. PICK u, w : /\ u = ((FlushNodes(order) \o <<Stage("catch")>>) \o <<Stage("flushMap")>>) \o <<Stage("catch")>>
                  /\ w = <<Stage("flushed")>> OBVIOUS
<1>5. Flushes(u, L) /\ MapDue(u) /\ \A f \in L : NodeDue(f, u) BY <1>2, <1>4, FlushBoth
<1>6. Call(NoFile, u \o w, {}) BY <1>3, <1>4 DEF Stage, Catch
<1>7. Idle /\ UNCHANGED Memory BY <1>6 DEF Flush, Call
<1> QED BY <1>1, <1>4, <1>5, <1>6, <1>7, FlushBegins

\* exfat_unmount begins.
LEMMA UnmountStep == ASSUME NEW ch, NEW own, Typed, Layout(ch, own), Unmount PROVE Typed' /\ Layout(ch, own)'
<1>1. PICK L : L = Linked OBVIOUS
<1>2. IsFiniteSet(L)
 <2>1. L \in SUBSET Files BY <1>1 DEF Linked
 <2> QED BY <2>1, VolumeAssumption, FS_Subset
<1>3. PICK order \in SetToSeqs(L) :
        Call(NoFile,    FlushNodes(order) \o Catch \o <<[k |-> "flushMap"]>> \o Catch
                   \o FlushNodes(order) \o Catch
                   \o FlushEach(order)
                   \o <<[k |-> "flushMap"]>> \o Catch \o <<[k |-> "flushed"], [k |-> "unmounted"]>>, {}) BY <1>1 DEF Unmount
<1>4. PICK n, c, m, e : n = FlushNodes(order) /\ c = <<Stage("catch")>> /\ m = <<Stage("flushMap")>> /\ e = FlushEach(order)
 OBVIOUS
<1>5. PICK a, u1, u2, u3, u4, u5, w :
        /\ a = ((n \o c) \o m) \o c
        /\ u1 = a \o n /\ u2 = u1 \o c /\ u3 = u2 \o e /\ u4 = u3 \o m /\ u5 = u4 \o c
        /\ w = <<Stage("flushed"), Stage("unmounted")>> OBVIOUS
<1>6. Flushes(n, L) /\ Flushes(c, L) /\ Flushes(m, L) /\ Flushes(e, L) BY <1>2, <1>4, FlushNodesIs, FlushEachIs, FlushesOne
<1>7. Flushes(a, L) /\ MapDue(a) /\ \A f \in L : NodeDue(f, a)
 <2>1. a = ((FlushNodes(order) \o <<Stage("catch")>>) \o <<Stage("flushMap")>>) \o <<Stage("catch")>> BY <1>4, <1>5, Zenon
 <2> QED BY <1>2, <2>1, FlushBoth
<1>8. Flushes(u1, L) BY <1>5, <1>6, <1>7, FlushesConcat
<1>9. Flushes(u2, L) BY <1>5, <1>6, <1>8, FlushesConcat
<1>10. Flushes(u3, L) BY <1>5, <1>6, <1>9, FlushesConcat
<1>11. Flushes(u4, L) BY <1>5, <1>6, <1>10, FlushesConcat
<1>12. Flushes(u5, L) BY <1>5, <1>6, <1>11, FlushesConcat
<1>13. Listed(n) /\ Listed(c) /\ Listed(m) /\ Listed(e) /\ Listed(a) /\ Listed(u1) /\ Listed(u2) /\ Listed(u3) /\ Listed(u4)
 BY <1>6, <1>7, <1>8, <1>9, <1>10, <1>11 DEF Flushes
<1>14. MapDue(u1) /\ \A f : NodeDue(f, a) => NodeDue(f, u1) BY <1>5, <1>7, <1>13, DueConcat
<1>15. MapDue(u2) /\ \A f : NodeDue(f, u1) => NodeDue(f, u2) BY <1>5, <1>13, <1>14, DueConcat
<1>16. MapDue(u3) /\ \A f : NodeDue(f, u2) => NodeDue(f, u3) BY <1>5, <1>13, <1>15, DueConcat
<1>17. MapDue(u4) /\ \A f : NodeDue(f, u3) => NodeDue(f, u4) BY <1>5, <1>13, <1>16, DueConcat
<1>18. MapDue(u5) /\ \A f : NodeDue(f, u4) => NodeDue(f, u5) BY <1>5, <1>13, <1>17, DueConcat
<1>19. \A f \in L : NodeDue(f, u5) BY <1>7, <1>14, <1>15, <1>16, <1>17, <1>18
<1>20. Call(NoFile, u5 \o w, {}) BY <1>3, <1>4, <1>5 DEF Stage, Catch
<1>21. Idle /\ UNCHANGED Memory BY <1>20 DEF Unmount, Call
<1> QED BY <1>1, <1>5, <1>12, <1>18, <1>19, <1>20, <1>21, FlushBegins

\* A chain of the volume, as the clusters at the places from 0 on.
PlacesOf(c) == [i \in Nat |-> IF i < Len(c) THEN c[i + 1] ELSE First]

\* A chain of the initial volume: distinct clusters, no more than a file may have.
LEMMA ChainIs == ASSUME NEW c \in Chains
    PROVE  /\ Len(c) \in 0..MaxSize /\ DOMAIN c = 1..Len(c) /\ Len(c) \in Nat
           /\ \A j \in 1..Len(c) : c[j] \in Clusters
           /\ \A i, j \in 1..Len(c) : c[i] = c[j] => i = j
           /\ c = <<>> <=> Len(c) = 0
           /\ PlacesOf(c) \in [Nat -> Clusters]
           /\ \A i \in 0..Len(c) - 1 : PlacesOf(c)[i] = c[i + 1]
<1>1. PICK m \in 0..MaxSize : c \in [1..m -> Clusters] BY DEF Chains, SeqOf
<1>2. m \in Nat /\ MaxSize \in Nat BY VolumeAssumption
<1>3. c \in Seq(Clusters) /\ Len(c) = m /\ DOMAIN c = 1..m BY <1>1, <1>2
<1>4. \A j \in 1..m : c[j] \in Clusters BY <1>1
<1>5. \A i, j \in 1..m : c[i] = c[j] => i = j BY <1>3 DEF Chains, IsInjective
<1>6. c = <<>> <=> Len(c) = 0 BY <1>3, EmptySeq
<1>7. PICK s : s = PlacesOf(c) OBVIOUS
<1>8. s = [i \in Nat |-> IF i < m THEN c[i + 1] ELSE First] BY <1>3, <1>7 DEF PlacesOf
<1>9. s \in [Nat -> Clusters]
 <2>1. \A i \in Nat : (IF i < m THEN c[i + 1] ELSE First) \in Clusters
  <3> TAKE i \in Nat
  <3>1. i < m => i + 1 \in 1..m BY <1>2
  <3> QED BY <1>4, <3>1, ClusterNums
 <2> QED BY <1>8, <2>1
<1>10. \A i \in 0..m - 1 : s[i] = c[i + 1] BY <1>2, <1>8
<1> QED BY <1>1, <1>2, <1>3, <1>4, <1>5, <1>6, <1>7, <1>9, <1>10

\* The FAT of the volumes the app mounts leads through each chain that needs it.
LEMMA FatLeads == ASSUME NEW files, NEW chain \in [Files -> Chains], NEW contiguous \in SUBSET Files,
           VolumeHolds(files, chain, contiguous)
    PROVE  /\ fat \in [Clusters -> Clusters \cup {FREE, END}]
           /\ \A f \in Files \ contiguous : \A j \in 1..Len(chain[f]) - 1 : fat[chain[f][j]] = chain[f][j + 1]
<1> DEFINE F(c) == {g \in Files \ contiguous : c \in Range(chain[g])}
           In(c) == CHOOSE g \in F(c) : TRUE
           Pos(s, c) == CHOOSE j \in DOMAIN s : s[j] = c
           Of(c) == IF F(c) = {} THEN FREE
                    ELSE IF Pos(chain[In(c)], c) = Len(chain[In(c)]) THEN END ELSE chain[In(c)][Pos(chain[In(c)], c) + 1]
<1>1. fat = [c \in Clusters |-> Of(c)] BY DEF VolumeHolds
<1>2. \A f \in Files : chain[f] \in Chains OBVIOUS
<1>3. ASSUME NEW c \in Clusters, NEW f \in Files \ contiguous, NEW j \in 1..Len(chain[f]), chain[f][j] = c,
             \A g \in F(c) : g = f PROVE Of(c) = IF j = Len(chain[f]) THEN END ELSE chain[f][j + 1]
 <2>1. PICK s : s = chain[f] OBVIOUS
 <2>2. DOMAIN s = 1..Len(s) /\ \A a, b \in 1..Len(s) : s[a] = s[b] => a = b BY <1>2, <2>1, ChainIs
 <2>3. c \in Range(s) BY <1>3, <2>1, <2>2 DEF Range
 <2>4. f \in F(c) BY <2>1, <2>3
 <2>5. In(c) = f
  <3>1. In(c) \in F(c)
   <4> HIDE DEF F
   <4> QED BY <2>4
  <3> HIDE DEF In
  <3> QED BY <1>3, <3>1
 <2>6. Pos(s, c) = j
  <3>1. j \in DOMAIN s /\ s[j] = c BY <1>3, <2>1, <2>2
  <3>2. PICK x : x = Pos(s, c) OBVIOUS
  <3>3. x \in DOMAIN s /\ s[x] = c BY <3>1, <3>2
  <3> QED BY <2>2, <3>1, <3>2, <3>3
 <2>7. F(c) # {} BY <2>4
 <2> HIDE DEF F, In, Pos
 <2> QED BY <2>1, <2>5, <2>6, <2>7
<1>4. ASSUME NEW c \in Clusters, NEW f \in Files, NEW g \in Files, c \in Range(chain[f]), c \in Range(chain[g]) PROVE f = g
 BY <1>4 DEF VolumeHolds
<1>5. ASSUME NEW c \in Clusters PROVE Of(c) \in Clusters \cup {FREE, END}
 <2>1. CASE F(c) = {} BY <2>1
 <2>2. CASE F(c) # {}
  <3>1. PICK f \in Files \ contiguous : c \in Range(chain[f]) BY <2>2
  <3>2. PICK s, n : s = chain[f] /\ n = Len(s) OBVIOUS
  <3>3. DOMAIN s = 1..n /\ n \in Nat /\ \A j \in 1..n : s[j] \in Clusters BY <1>2, <3>2, ChainIs
  <3>4. PICK j \in 1..n : s[j] = c BY <3>1, <3>2, <3>3 DEF Range
  <3>5. \A g \in F(c) : g = f BY <1>4, <3>1
  <3>6. Of(c) = IF j = n THEN END ELSE s[j + 1]
   <4> HIDE DEF F, In, Pos, Of
   <4> QED BY <1>3, <3>2, <3>4, <3>5
  <3>7. j # n => j + 1 \in 1..n BY <3>3
  <3> HIDE DEF F, In, Pos, Of
  <3> QED BY <3>3, <3>6, <3>7
 <2> QED BY <2>1, <2>2
<1>6. ASSUME NEW f \in Files \ contiguous, NEW j \in 1..Len(chain[f]) - 1 PROVE fat[chain[f][j]] = chain[f][j + 1]
 <2>1. PICK s, n : s = chain[f] /\ n = Len(s) OBVIOUS
 <2>2. DOMAIN s = 1..n /\ n \in Nat /\ \A a \in 1..n : s[a] \in Clusters BY <1>2, <2>1, ChainIs
 <2>3. PICK c : c = s[j] OBVIOUS
 <2>4. j \in 1..n /\ j # n BY <2>1, <2>2
 <2>5. c \in Clusters /\ c \in Range(s) BY <2>2, <2>3, <2>4 DEF Range
 <2>6. \A g \in F(c) : g = f BY <1>4, <2>1, <2>5
 <2> HIDE DEF F, In, Pos, Of
 <2>7. Of(c) = s[j + 1] BY <1>3, <2>1, <2>3, <2>4, <2>5, <2>6
 <2>8. fat[c] = Of(c) BY <1>1, <2>5
 <2> QED BY <2>1, <2>3, <2>7, <2>8
<1> HIDE DEF F, In, Pos, Of
<1> QED BY <1>1, <1>5, <1>6

\* Each cluster of a file on the drive holds what was written at its place.
LEMMA DataLeads == ASSUME NEW files, NEW chain \in [Files -> Chains], NEW contiguous \in SUBSET Files,
           VolumeHolds(files, chain, contiguous), NEW f \in Files, NEW j \in 1..Len(chain[f])
    PROVE  data[chain[f][j]] = <<f, j - 1>>
<1> DEFINE F(c) == {g \in Files : c \in Range(chain[g])}
           In(c) == CHOOSE g \in F(c) : TRUE
           Pos(s, c) == CHOOSE k \in DOMAIN s : s[k] = c
<1>1. data = [c \in Clusters |-> IF F(c) = {} THEN Junk ELSE <<In(c), Pos(chain[In(c)], c) - 1>>] BY DEF VolumeHolds
<1>2. PICK s, c : s = chain[f] /\ c = s[j] OBVIOUS
<1>3. s \in Chains BY <1>2
<1>4. DOMAIN s = 1..Len(s) /\ c \in Clusters /\ \A a, b \in 1..Len(s) : s[a] = s[b] => a = b BY <1>2, <1>3, ChainIs
<1>5. f \in F(c)
 <2>1. c \in Range(s) BY <1>2, <1>4 DEF Range
 <2> QED BY <1>2, <2>1
<1>6. \A g \in F(c) : g = f BY <1>5 DEF VolumeHolds
<1>7. In(c) = f
 <2>1. In(c) \in F(c)
  <3> HIDE DEF F
  <3> QED BY <1>5
 <2> HIDE DEF In
 <2> QED BY <1>6, <2>1
<1>8. Pos(s, c) = j
 <2>1. j \in DOMAIN s /\ s[j] = c BY <1>2, <1>4
 <2>2. PICK x : x = Pos(s, c) OBVIOUS
 <2>3. x \in DOMAIN s /\ s[x] = c BY <2>1, <2>2
 <2> QED BY <1>4, <2>1, <2>2, <2>3
<1>9. F(c) # {} BY <1>5
<1> HIDE DEF F, In, Pos
<1> QED BY <1>1, <1>2, <1>4, <1>7, <1>8, <1>9

\* What the volumes the app mounts hold: every file what was written to it, and nothing to flush.
Fresh(ch, own) ==
    /\ \A f \in Files : \A i \in own[f] : data[ch[f][i]] = <<f, i>>
    /\ \A f \in Files : /\ entry[f].valid = entry[f].size /\ (entry[f].there <=> f \in safe)
                        /\ ~entry[f].there => entry[f].size = 0

\* The volumes the app mounts satisfy the invariant.
LEMMA InitHolds == ASSUME Init PROVE Typed /\ \E ch, own : Layout(ch, own) /\ Fresh(ch, own)
<1>1. PICK files, contiguous \in SUBSET Files, chain \in [Files -> Chains] :
        VolumeHolds(files, chain, contiguous) /\ safe = files BY DEF Init
<1>2. \A f \in Files : chain[f] \in Chains OBVIOUS
<1>3. PICK ch, own : /\ ch = [f \in Files |-> PlacesOf(chain[f])]
                     /\ own = [f \in Files |-> 0..Len(chain[f]) - 1] OBVIOUS
<1>4. ASSUME NEW f \in Files
      PROVE  /\ ch[f] \in [Nat -> Clusters] /\ Len(chain[f]) \in 0..MaxSize /\ Len(chain[f]) \in Nat
             /\ own[f] = 0..Len(chain[f]) - 1
             /\ \A i \in own[f] : i \in Nat /\ i + 1 \in 1..Len(chain[f]) /\ ch[f][i] = chain[f][i + 1]
             /\ chain[f] = <<>> <=> Len(chain[f]) = 0
 <2>1. PICK c, n : c = chain[f] /\ n = Len(c) OBVIOUS
 <2>2. /\ n \in 0..MaxSize /\ n \in Nat /\ PlacesOf(c) \in [Nat -> Clusters] /\ (c = <<>> <=> n = 0)
       /\ \A i \in 0..n - 1 : PlacesOf(c)[i] = c[i + 1] BY <1>2, <2>1, ChainIs
 <2>3. ch[f] = PlacesOf(c) /\ own[f] = 0..n - 1 BY <1>3, <2>1
 <2>4. \A i \in 0..n - 1 : i \in Nat /\ i + 1 \in 1..n BY <2>2
 <2> QED BY <2>1, <2>2, <2>3, <2>4
<1>5. ch \in Ghosts
 <2>1. \A f \in Files : PlacesOf(chain[f]) \in [Nat -> Clusters] BY <1>3, <1>4
 <2> QED BY <1>3, <2>1 DEF Ghosts
<1>6. own \in [Files -> SUBSET Nat]
 <2>1. \A f \in Files : 0..Len(chain[f]) - 1 \in SUBSET Nat BY <1>4
 <2> QED BY <1>3, <2>1
<1>7. /\ bitmap = UNION {Range(chain[f]) : f \in Files} /\ cmap = bitmap
      /\ \A f, g \in Files : f # g => Range(chain[f]) \cap Range(chain[g]) = {}
      /\ \A f \in Files : f \notin files => chain[f] = <<>>
      /\ contiguous \subseteq {f \in files : IsContiguous(chain[f])} BY <1>1 DEF VolumeHolds, Init
<1>8. \A f \in Files : Range(chain[f]) = {chain[f][j] : j \in 1..Len(chain[f])} BY <1>2, ChainIs DEF Range
<1>9. Owned(ch, own)
 <2>1. ASSUME NEW f \in Files, NEW i \in own[f] PROVE ch[f][i] \in Range(chain[f])
  <3>1. i + 1 \in 1..Len(chain[f]) /\ ch[f][i] = chain[f][i + 1] BY <1>4
  <3> QED BY <1>8, <3>1
 <2>2. ASSUME NEW f \in Files, NEW g \in Files, NEW i \in own[f], NEW j \in own[g], ch[f][i] = ch[g][j] PROVE f = g /\ i = j
  <3>1. f = g BY <1>7, <2>1, <2>2
  <3>2. PICK c, n : c = chain[f] /\ n = Len(c) OBVIOUS
  <3>3. i \in Nat /\ j \in Nat /\ i + 1 \in 1..n /\ j + 1 \in 1..n /\ c[i + 1] = c[j + 1] BY <1>4, <2>2, <3>1, <3>2
  <3>4. i + 1 = j + 1 BY <1>2, <3>2, <3>3, ChainIs
  <3>5. i = j BY <3>3, <3>4
  <3> QED BY <3>1, <3>5
 <2>3. ASSUME NEW c \in cmap PROVE \E f \in Files : \E i \in own[f] : ch[f][i] = c
  <3>1. PICK f \in Files : c \in Range(chain[f]) BY <1>7
  <3>2. PICK n \in Nat : n = Len(chain[f]) BY <1>4
  <3>3. PICK j \in 1..n : chain[f][j] = c BY <1>8, <3>1, <3>2
  <3>4. PICK i \in 0..n - 1 : i + 1 = j
   <4>1. j - 1 \in 0..n - 1 /\ (j - 1) + 1 = j OBVIOUS
   <4> QED BY <4>1
  <3>5. i \in own[f] /\ ch[f][i] = c BY <1>4, <3>2, <3>3, <3>4
  <3> QED BY <3>5
 <2> QED BY <1>7, <2>1, <2>2, <2>3 DEF Owned
<1>10. ASSUME NEW f \in Files
       PROVE  /\ entry[f].start = (IF Len(chain[f]) = 0 THEN FREE ELSE ch[f][0])
              /\ entry[f].size = Len(chain[f]) /\ entry[f].valid = Len(chain[f])
              /\ (entry[f].there <=> f \in files) /\ (entry[f].contiguous <=> f \in contiguous)
 <2>1. entry = [g \in Files |->
                 [there |-> g \in files, start |-> IF chain[g] = <<>> THEN FREE ELSE chain[g][1],
                  contiguous |-> g \in contiguous, size |-> Len(chain[g]), valid |-> Len(chain[g])]] BY <1>1 DEF VolumeHolds
 <2>2. PICK a, b : a = (f \in files) /\ b = (f \in contiguous) OBVIOUS
 <2>3. entry[f] = [there |-> a, start |-> IF chain[f] = <<>> THEN FREE ELSE chain[f][1],
                   contiguous |-> b, size |-> Len(chain[f]), valid |-> Len(chain[f])] BY <2>1, <2>2
 <2>4. entry[f].start = (IF chain[f] = <<>> THEN FREE ELSE chain[f][1]) /\ entry[f].size = Len(chain[f]) /\ entry[f].valid = Len(chain[f])
  BY <2>3
 <2>5. entry[f].there = a BY <2>3
 <2>6. entry[f].contiguous = b BY <2>3
 <2>7. Len(chain[f]) # 0 => ch[f][0] = chain[f][1]
  <3>1. Len(chain[f]) # 0 => 0 \in own[f] /\ 0 + 1 = 1 BY <1>4
  <3> QED BY <1>4, <3>1
 <2> QED BY <1>4, <2>2, <2>4, <2>5, <2>6, <2>7
<1>11. DOMAIN entry = Files BY <1>1 DEF VolumeHolds
<1>12. DOMAIN node = Files /\ \A f \in Files : node[f] = NodeOf(entry[f]) BY DEF Init
<1>13. \A f \in Files : entry[f].start \in Clusters \cup {FREE} /\ entry[f].valid \in Nat /\ entry[f].start \in Nat
 <2> SUFFICES ASSUME NEW f \in Files
              PROVE  entry[f].start \in Clusters \cup {FREE} /\ entry[f].valid \in Nat /\ entry[f].start \in Nat OBVIOUS
 <2>1. ch[f][0] \in Clusters BY <1>4
 <2>2. entry[f].start \in Clusters \cup {FREE} BY <1>10, <2>1
 <2>3. entry[f].start \in Nat
  <3>1. Clusters \subseteq Nat /\ FREE \in Nat BY ClusterNums DEF FREE
  <3> QED BY <2>2, <3>1
 <2> QED BY <1>4, <1>10, <2>2, <2>3
<1>14. ASSUME NEW f \in Files, f \in contiguous
       PROVE  f \in files /\ Len(chain[f]) # 0 /\ \A j \in 1..Len(chain[f]) : chain[f][j] = chain[f][1] + j - 1
 BY <1>2, <1>4, <1>7, <1>14, ChainIs DEF IsContiguous
<1>15. fat \in [Clusters -> Clusters \cup {FREE, END}]
       /\ \A f \in Files \ contiguous : \A j \in 1..Len(chain[f]) - 1 : fat[chain[f][j]] = chain[f][j + 1] BY <1>1, FatLeads
<1>16. ASSUME NEW f \in Files PROVE IsNode(node[f]) /\ Quiet(f, ch, own) /\ (entry[f].there => CheckNode(entry[f]))
 <2>1. PICK n, s, e, m, c : n = Len(chain[f]) /\ s = ch[f] /\ e = entry[f] /\ m = NodeOf(e) /\ c = chain[f] OBVIOUS
 <2>2. /\ n \in Nat /\ n <= MaxSize /\ MaxSize \in Nat /\ s \in [Nat -> Clusters] /\ own[f] = 0..n - 1
       /\ \A i \in 0..n - 1 : s[i] = c[i + 1] BY <1>4, <2>1, VolumeAssumption
 <2>3. /\ e.start = (IF n = 0 THEN FREE ELSE s[0]) /\ e.size = n /\ e.valid = n
       /\ (e.there <=> f \in files) /\ (e.contiguous <=> f \in contiguous) BY <1>10, <2>1
 <2>4. node[f] = m BY <1>12, <2>1
 <2>5. ~e.there => n = 0 BY <1>4, <1>7, <2>1, <2>3
 <2>6. /\ DOMAIN m = {"state", "start", "contiguous", "size", "valid", "dirty", "at", "ptr"}
       /\ m.state \in {"linked", "none"} /\ (m.state = "linked" <=> e.there)
       /\ m.start = e.start /\ m.size = n /\ m.valid = n /\ m.at = 0 /\ m.ptr = e.start
  <3>1. CASE e.there BY <2>1, <2>3, <3>1, NodeOfIs
  <3>2. CASE ~e.there BY <2>1, <2>3, <2>5, <3>2, NodeOfIs
  <3> QED BY <3>1, <3>2
 <2>7. e.there => m.contiguous = e.contiguous BY <2>1, NodeOfIs
 <2>8. IsNode(m)
  <3>1. m.ptr \in Nat /\ m.start \in Clusters \cup {FREE} BY <1>13, <2>1, <2>6
  <3> QED BY <2>2, <2>6, <3>1 DEF IsNode
 <2>9. Segment(m, s, 0, n)
  <3> SUFFICES ASSUME NEW i \in Nat, i + 1 < n PROVE NextCluster(m, s[i]) = s[i + 1] BY DEF Segment
  <3>1. PICK j \in 1..n - 1 : j = i + 1 BY <2>2
  <3>2. s[i] = c[j] /\ s[i + 1] = c[j + 1] /\ s[i] \in Clusters
   <4>1. i \in 0..n - 1 /\ i + 1 \in 0..n - 1 BY <2>2
   <4> QED BY <2>2, <3>1, <4>1
  <3>3. e.there BY <2>2, <2>5
  <3>4. CASE m.contiguous
   <4>1. f \in contiguous BY <2>3, <2>7, <3>3, <3>4
   <4>2. \A a \in 1..n : c[a] = c[1] + a - 1 BY <1>14, <2>1, <4>1
   <4>3. j \in 1..n /\ j + 1 \in 1..n /\ 1 \in 1..n BY <2>2
   <4>4. c[1] \in Nat
    <5>1. s[0] \in Nat /\ 0 \in 0..n - 1 /\ 0 + 1 = 1
     <6>1. Clusters \subseteq Nat BY ClusterNums
     <6>2. s[0] \in Clusters BY <2>2
     <6>3. s[0] \in Nat BY <6>1, <6>2
     <6> QED BY <2>2, <6>3
    <5> QED BY <2>2, <5>1
   <4>5. c[j + 1] = c[j] + 1
    <5>1. PICK b \in Nat : b = c[1] BY <4>4
    <5>2. c[j] = b + j - 1 /\ c[j + 1] = b + (j + 1) - 1 BY <4>2, <4>3, <5>1
    <5>3. b + (j + 1) - 1 = (b + j - 1) + 1 OBVIOUS
    <5> QED BY <5>2, <5>3
   <4> QED BY <3>2, <3>4, <4>5 DEF NextCluster
  <3>5. CASE ~m.contiguous
   <4>1. f \in Files \ contiguous BY <2>3, <2>7, <3>3, <3>5
   <4>2. fat[c[j]] = c[j + 1] BY <1>15, <2>1, <4>1
   <4> QED BY <3>2, <3>5, <4>2, ClusterNums DEF NextCluster
  <3> QED BY <3>4, <3>5
 <2>10. Strung(m, s, n) /\ Pointed(m, s, n) BY <2>2, <2>3, <2>6, <2>9 DEF Strung, Pointed
 <2>11. Settled(f, ch, own) BY <2>1, <2>2, <2>4, <2>6, <2>10 DEF Settled, Sized
 <2>12. Booked(f) BY <2>1, <2>3, <2>4, <2>6, <2>7 DEF Booked, Listing, Matches
 <2>13. Quiet(f, ch, own) BY <2>4, <2>5, <2>6, <2>11, <2>12 DEF Quiet
 <2>14. n <= ClusterCount
  <3>1. 0..n - 1 \subseteq own[f] /\ n \in Nat BY <2>2
  <3> QED BY <1>5, <1>6, <1>9, <3>1, SizeBound
 <2>15. CheckNode(e)
  <3>1. n = 0 => ~e.contiguous BY <1>14, <2>1, <2>3
  <3>2. n > 0 => ~Invalid(e.start)
   <4>1. s[0] \in Clusters BY <2>2
   <4>2. ~Invalid(s[0]) BY <4>1, ClusterNums
   <4> QED BY <2>2, <2>3, <4>2
  <3> QED BY <2>2, <2>3, <2>14, <3>1, <3>2 DEF CheckNode
 <2> QED BY <2>1, <2>4, <2>8, <2>13, <2>15
<1>17. todo = <<>> /\ file = NoFile /\ MapClean /\ Readable BY <1>16 DEF Init, MapClean, Readable
<1>18. Layout(ch, own) BY <1>5, <1>6, <1>9, <1>16, <1>17 DEF Layout, Busy
<1>19. want \in [Files -> Seq(SUBSET Anything)] /\ \A f \in Files : Len(want[f]) <= MaxSize
 <2>1. want = [f \in Files |-> [i \in 1..entry[f].size |-> {"own"}]] BY DEF Init
 <2>2. ASSUME NEW f \in Files PROVE want[f] \in Seq(SUBSET Anything) /\ Len(want[f]) <= MaxSize
  <3>1. PICK n \in Nat : n = entry[f].size /\ n <= MaxSize BY <1>4, <1>10, VolumeAssumption
  <3>2. want[f] = [i \in 1..n |-> {"own"}] BY <2>1, <3>1
  <3>3. {"own"} \in SUBSET Anything BY DEF Anything
  <3>4. want[f] \in [1..n -> SUBSET Anything] BY <3>2, <3>3
  <3> QED BY <3>1, <3>4
 <2> QED BY <2>1, <2>2
<1>20. DOMAIN data = Clusters BY <1>1 DEF VolumeHolds
<1>21. bitmap \subseteq Clusters BY <1>2, <1>7, <1>8, ChainIs
<1>22. Typed BY <1>1, <1>7, <1>11, <1>12, <1>13, <1>15, <1>16, <1>17, <1>19, <1>20, <1>21, ListedNil DEF Typed
<1>23. Fresh(ch, own)
 <2>1. ASSUME NEW f \in Files, NEW i \in own[f] PROVE data[ch[f][i]] = <<f, i>>
  <3>1. PICK j \in 1..Len(chain[f]) : j = i + 1 /\ ch[f][i] = chain[f][j] BY <1>4
  <3>2. data[chain[f][j]] = <<f, j - 1>> BY <1>1, DataLeads
  <3>3. j - 1 = i BY <1>4, <3>1
  <3> QED BY <3>1, <3>2, <3>3
 <2>2. ASSUME NEW f \in Files, ~entry[f].there PROVE entry[f].size = 0 BY <1>4, <1>7, <1>10, <2>2
 <2> QED BY <1>1, <1>10, <2>1, <2>2 DEF Fresh
<1> QED BY <1>18, <1>22, <1>23

\* Nothing changes.
LEMMA SameBusy == ASSUME NEW ch, NEW own, UNCHANGED vars, Busy(ch, own) PROVE Busy(ch, own)'
<1>1. UNCHANGED <<node, cmap, cmapDirty, todo, file, fat, bitmap, entry, data, calls, want, failed, safe>> BY DEF vars, disk
<1>2. Nd' = Nd /\ Now' = Now BY <1>1 DEF Nd, Now
<1>3. CASE todo = <<>> BY <1>1, <1>3 DEF Busy
<1>4. CASE todo # <<>>
 <2>1. PICK h, t, u : h = Now /\ t = Tail(todo) /\ u = todo OBVIOUS
 <2>2. At(h, t, ch, own) BY <1>4, <2>1 DEF Busy
 <2>3. /\ \A f, n : Sized(f, ch, own, n) => Sized(f, ch, own, n)'
       /\ \A f : Settled(f, ch, own) => Settled(f, ch, own)'
       /\ \A f : Quiet(f, ch, own) => Quiet(f, ch, own)'
       /\ \A f : Booked(f) => Booked(f)'
       /\ \A f : Loose(f) => Loose(f)' BY <1>1, AllKept
 <2>4. \A r, n : (Rest(r, n) => Rest(r, n)') /\ (Resize(r, n) => Resize(r, n)') BY <1>2, RestKept, ResizeKept
 <2>z. /\ \A r, n : Fit(r, n) => Fit(r, n)'
       /\ \A n : Zeros(ch, n) => Zeros(ch, n)' BY <1>1, <1>2 DEF Fit, Zeros
 <2>5. \A s, a, b : Segment(Nd, s, a, b) => Segment(Nd, s, a, b)' BY <1>1 DEF Segment, NextCluster, Invalid, Nd
 <2>6. \A s, n : Strung(Nd, s, n) => Strung(Nd, s, n)' BY <1>2, <2>5 DEF Strung
 <2>7. \A s, n : Pointed(Nd, s, n) => Pointed(Nd, s, n)' BY <1>2 DEF Pointed
 <2>8. \A r, n : AfterCut(r, n) => AfterCut(r, n)' BY <1>2, <2>4 DEF AfterCut
 <2>9. \A g, r : Looping(g, r, ch, own) => Looping(g, r, ch, own)' BY <1>1, <1>2, <2>3, <2>4, <2>7 DEF Looping
 <2>10. \A g, r, n : Shrinking(g, r, ch, own, n) => Shrinking(g, r, ch, own, n)' BY <1>1, <1>2, <2>3, <2>6, <2>8 DEF Shrinking
 <2>11. \A g, r, n : Rewinding(g, r, ch, own, n) => Rewinding(g, r, ch, own, n)' BY <1>1, <1>2, <2>5, <2>10 DEF Rewinding
 <2>12. \A g, r, n, p, o : Freeing(g, r, ch, own, n, p, o) => Freeing(g, r, ch, own, n, p, o)'
  BY <1>1, <1>2, <2>5, <2>7, <2>10 DEF Freeing
 <2>13. \A g, r : Clearing(g, r, ch, own) => Clearing(g, r, ch, own)' BY <1>1, <2>12 DEF Clearing
 <2>14. Spreading(u, ch, own) => Spreading(u, ch, own)'
  <3>1. SUFFICES ASSUME Spreading(u, ch, own) PROVE Spreading(u, ch, own)' OBVIOUS
  <3>2. PICK g, r, j :
          LET n == g.cur + g.got
              s == ch[file]
          IN  /\ file \in Files /\ Looping(g, r, ch, own) /\ n >= 2 /\ j \in 0..n - 2
              /\ u = Links(s, j, n - 2)
                       \o (<<Stage("noncontiguous")>> \o (<<Linking(s[n - 2], s[n - 1])>> \o (<<g>> \o r)))
              /\ Nd.contiguous /\ Strung(Nd, s, n - 1)
              /\ \A i \in 0..j - 1 : fat[s[i]] = s[i + 1] BY <3>1 DEF Spreading
  <3>3. PICK n, s : n = g.cur + g.got /\ s = ch[file] OBVIOUS
  <3>4. /\ (file \in Files)' /\ Looping(g, r, ch, own)' /\ n >= 2 /\ j \in 0..n - 2
        /\ (Nd.contiguous)' /\ Strung(Nd, s, n - 1)'
        /\ (\A i \in 0..j - 1 : fat[s[i]] = s[i + 1])' BY <1>1, <1>2, <2>6, <2>9, <3>2, <3>3
  <3> QED BY <1>1, <3>2, <3>3, <3>4 DEF Spreading
 <2>15. AtEntry(h, t, ch, own) => AtEntry(h, t, ch, own)' BY <1>1, <1>2, <2>3 DEF AtEntry
 <2>16. AtAttach(h, t, ch, own) => AtAttach(h, t, ch, own)' BY <1>1, <1>2, <2>3 DEF AtAttach
 <2>17. AtUnlink(h, t, ch, own) => AtUnlink(h, t, ch, own)' BY <1>1, <1>2, <2>3 DEF AtUnlink
 <2>18. AtTruncate(h, t, ch, own) => AtTruncate(h, t, ch, own)' BY <1>1, <1>2, <2>3, <2>4, <2>z DEF AtTruncate
 <2>19. AtGrow(h, t, ch, own) => AtGrow(h, t, ch, own)' BY <1>1, <1>2, <2>3, <2>4 DEF AtGrow
 <2>20. AtGrowLoop(h, t, ch, own) => AtGrowLoop(h, t, ch, own)' BY <1>1, <1>2, <2>6, <2>9 DEF AtGrowLoop
 <2>21. FatEnd(h, t, ch, own) => FatEnd(h, t, ch, own)' BY <1>1, <1>2, <2>3, <2>4 DEF FatEnd
 <2>22. FatLink(h, t, ch, own) => FatLink(h, t, ch, own)' BY <1>1, <1>2, <2>6, <2>9 DEF FatLink
 <2>23. FatCut(h, t, ch, own) => FatCut(h, t, ch, own)' BY <1>1, <1>2, <2>11 DEF FatCut
 <2>24. FatFree(h, t, ch, own) => FatFree(h, t, ch, own)' BY <1>1, <1>2, <2>13 DEF FatFree
 <2>25. AtFat(h, t, ch, own) => AtFat(h, t, ch, own)' BY <1>1, <2>1, <2>14, <2>21, <2>22, <2>23, <2>24 DEF AtFat
 <2>26. AtFail(h, t, ch, own) => AtFail(h, t, ch, own)' BY <1>1, <2>3 DEF AtFail
 <2>27. AtShrink(h, t, ch, own) => AtShrink(h, t, ch, own)' BY <1>1, <2>3, <2>8 DEF AtShrink
 <2>28. AtRewind(h, t, ch, own) => AtRewind(h, t, ch, own)' BY <1>1, <2>11 DEF AtRewind
 <2>29. AtFree(h, t, ch, own) => AtFree(h, t, ch, own)' BY <1>1, <2>12 DEF AtFree
 <2>30. AtClear(h, t, ch, own) => AtClear(h, t, ch, own)' BY <1>1, <2>13 DEF AtClear
 <2>31. AtEraseRange(h, t, ch, own) => AtEraseRange(h, t, ch, own)' BY <1>1, <1>2, <2>3, <2>4 DEF AtEraseRange
 <2>32. Erasing(u, ch, own) => Erasing(u, ch, own)' BY <1>1, <1>2, <2>3, <2>4, <2>z DEF Erasing
 <2>33. AtSetSize(h, t, ch, own) => AtSetSize(h, t, ch, own)' BY <1>1, <1>2, <2>3, <2>4, <2>z DEF AtSetSize
 <2>34. AtLocate(h, t, ch, own) => AtLocate(h, t, ch, own)' BY <1>1, <1>2, <2>3 DEF AtLocate
 <2>35. \A w : IsWrite(w, ch) => IsWrite(w, ch)' BY <1>1, <1>2 DEF IsWrite
 <2>36. AtWrite(h, t, ch, own) => AtWrite(h, t, ch, own)' BY <1>1, <1>2, <2>3, <2>35 DEF AtWrite
 <2>37. AtData(h, t, ch, own) => AtData(h, t, ch, own)' BY <1>1, <1>2, <2>3, <2>35 DEF AtData
 <2>38. AtEnd(h, t, ch, own) => AtEnd(h, t, ch, own)' BY <1>1, <1>2, <2>3 DEF AtEnd
 <2>39. Flushing(h, t) => Flushing(h, t)'
  <3>1. Linked' = Linked BY <1>1 DEF Linked
  <3>2. Pending(todo) => Pending(todo)' BY <1>1, <3>1 DEF Pending, NodeDue, MapDue
  <3>3. \A r : FlushTail(r) => FlushTail(r)' BY <3>1 DEF FlushTail
  <3>4. \A f : Matches(entry[f], node[f]) => Matches(entry[f], node[f])' BY <1>1 DEF Matches
  <3>5. \A f : EntryOf(node[f])' = EntryOf(node[f]) BY <1>1 DEF EntryOf
  <3> QED BY <1>1, <3>1, <3>2, <3>3, <3>4, <3>5 DEF Flushing
 <2>40. At(h, t, ch, own)'
  <3>1. h.k = "erase" \/ h.k = "noncontiguous" => todo = u BY <2>1
  <3> QED BY <1>1, <2>1, <2>2, <2>14, <2>15, <2>16, <2>17, <2>18, <2>19, <2>20, <2>25, <2>26, <2>27, <2>28, <2>29, <2>30,
        <2>31, <2>32, <2>33, <2>34, <2>36, <2>37, <2>38, <2>39 DEF At
 <2>41. h = Now' /\ t = Tail(todo') /\ todo' # <<>> BY <1>1, <1>2, <1>4, <2>1
 <2> QED BY <2>40, <2>41 DEF Busy
<1> QED BY <1>3, <1>4

\* What a step does to the flags and to the history of failed writes.
LEMMA FlagSteps == ASSUME [Next]_vars
    PROVE  /\ torn' = torn \/ torn' = torn \cup {file}
           /\ cmapDirty' = cmapDirty \/ cmapDirty' = TRUE \/ cmapDirty' = FALSE
           /\ failed' = failed \/ failed' = FALSE \/ failed' = (todo' # <<>>)
BY DEF Next, vars, disk, CreateFile, DeleteNode, PutNode, ReadFile, WriteFile, SetLength, Unlink, Flush, Unmount, Mount,
       DoTruncate, SetSize, EraseRange, GrowStart, GrowLoop, Noncontiguous, NoSpace, ShrinkStart, Rewind, FreeLoop,
       FreeCluster, Locate, WriteLoop, FlushNode, Clean, FlushMap, NodeStep, FlushDone, DeviceWrites, DeviceFails,
       Memory, History, Take, Call

\* A volume that is whole after a step was so before it.
LEMMA WholeBefore == ASSUME [Next]_vars, Whole' PROVE Whole BY FlagSteps DEF Whole

\* A step that changes nothing keeps the structure.
LEMMA StutterStep == ASSUME NEW ch, NEW own, Typed, Layout(ch, own), UNCHANGED vars PROVE Typed' /\ Layout(ch, own)'
<1>1. UNCHANGED <<node, cmap, cmapDirty, todo, file, fat, bitmap, entry, data, calls, want, failed, safe>> BY DEF vars, disk
<1>2. \A f \in Files : f # file' => Quiet(f, ch, own)' BY <1>1, AllKept DEF Layout
<1>3. Owned(ch, own)' /\ MapClean' BY <1>1 DEF Layout, Owned, MapClean
<1>4. Readable' BY <1>1 DEF Layout, Readable, CheckNode, Invalid
<1>5. Busy(ch, own)' BY SameBusy DEF Layout
<1>6. Layout(ch, own)' BY <1>2, <1>3, <1>4, <1>5 DEF Layout
<1>7. Typed' BY <1>1 DEF Typed, IsNode
<1> QED BY <1>6, <1>7

\* Whatever the device writes keeps the structure.
LEMMA WritesStep == ASSUME NEW ch, NEW own, Typed, Layout(ch, own), DeviceWrites PROVE Typed' /\ Layout(ch, own)'
<1>1. Doing("fat") \/ Doing("erase") \/ Doing("entry") \/ Doing("bitmap") \/ Doing("data") BY DEF DeviceWrites
<1> QED BY <1>1, FatStep, EraseStep, EntryStep, BitmapStep, DataStep

\* So does a write that fails, if it is none of the table or of the erasing.
LEMMA FailsStep == ASSUME Whole', NEW ch, NEW own, Typed, Layout(ch, own), DeviceFails PROVE Typed' /\ Layout(ch, own)'
<1>1. todo # <<>> /\ Now.k \in Fails BY DEF DeviceFails
<1>2. Now.k \in {"data", "entry", "bitmap"} BY <1>1, VolumeAssumption DEF Whole, DeviceFails
<1>3. Doing("entry") \/ Doing("bitmap") \/ Doing("data") BY <1>1, <1>2 DEF Doing, Now
<1> QED BY <1>3, EntryFails, BitmapFails, DataFails

\* A step of a native call, or its beginning, that leaves the places of the clusters as they are.
LEMMA CallsStep ==
    ASSUME NEW ch, NEW own, Typed, Layout(ch, own),
           \/ \E f \in Files : CreateFile(f) \/ DeleteNode(f) \/ PutNode(f)
           \/ \E f \in Files, i \in 0..MaxSize - 1 : ReadFile(f, i)
           \/ \E f \in Files, i \in 0..MaxSize, n \in 1..MaxWrite : WriteFile(f, i, n)
           \/ \E f \in Files, n \in Lengths : SetLength(f, n) PROVE Typed' /\ Layout(ch, own)'
<1>1. CASE \E f \in Files : CreateFile(f) \/ DeleteNode(f) \/ PutNode(f)
 <2>1. PICK f \in Files : CreateFile(f) \/ DeleteNode(f) \/ PutNode(f) BY <1>1
 <2> QED BY <2>1, CreateFileStep, DeleteNodeStep, PutNodeStep
<1>2. CASE \E f \in Files, i \in 0..MaxSize - 1 : ReadFile(f, i)
 <2>1. PICK f \in Files, i \in 0..MaxSize - 1 : ReadFile(f, i) BY <1>2
 <2> QED BY <2>1, ReadFileStep
<1>3. CASE \E f \in Files, i \in 0..MaxSize, n \in 1..MaxWrite : WriteFile(f, i, n)
 <2>1. PICK f \in Files, i \in 0..MaxSize, n \in 1..MaxWrite : WriteFile(f, i, n) BY <1>3
 <2> QED BY <2>1, WriteFileStep
<1>4. CASE \E f \in Files, n \in Lengths : SetLength(f, n)
 <2>1. PICK f \in Files, n \in Lengths : SetLength(f, n) BY <1>4
 <2> QED BY <2>1, SetLengthStep
<1> QED BY <1>1, <1>2, <1>3, <1>4

\* Every step after which the volume is whole leaves each cluster a file keeps at its place.
LEMMA AnyStep == ASSUME Whole', NEW ch, NEW own, Typed, Layout(ch, own), [Next]_vars
    PROVE  Typed' /\ \E ch2, own2 : Layout(ch2, own2)' /\ Kept(ch, own, ch2, own2)
<1>1. Kept(ch, own, ch, own) BY DEF Kept
<1>2. ASSUME Typed' /\ Layout(ch, own)' PROVE Typed' /\ \E ch2, own2 : Layout(ch2, own2)' /\ Kept(ch, own, ch2, own2)
 BY <1>1, <1>2
<1>3. CASE UNCHANGED vars BY <1>2, <1>3, StutterStep
<1>4. CASE \/ \E f \in Files : CreateFile(f) \/ DeleteNode(f) \/ PutNode(f)
           \/ \E f \in Files, i \in 0..MaxSize - 1 : ReadFile(f, i)
           \/ \E f \in Files, i \in 0..MaxSize, n \in 1..MaxWrite : WriteFile(f, i, n)
           \/ \E f \in Files, n \in Lengths : SetLength(f, n) BY <1>2, <1>4, CallsStep
<1>5. CASE Unlink \/ Flush \/ Unmount \/ Mount BY <1>2, <1>5, UnlinkStep, FlushStep, UnmountStep, MountStep
<1>6. CASE DoTruncate \/ SetSize \/ EraseRange BY <1>2, <1>6, TruncateStep, SetSizeStep, EraseRangeStep
<1>7. CASE GrowStart BY <1>7, GrowStartStep
<1>8. CASE GrowLoop BY <1>8, GrowLoopStep
<1>9. CASE Noncontiguous \/ NoSpace BY <1>2, <1>9, NoncontiguousStep, NoSpaceStep
<1>10. CASE ShrinkStart \/ Rewind \/ FreeLoop BY <1>2, <1>10, ShrinkStartStep, RewindStep, FreeLoopStep
<1>11. CASE FreeCluster BY <1>11, FreeClusterStep
<1>12. CASE Locate \/ WriteLoop BY <1>2, <1>12, LocateStep, WriteLoopStep
<1>13. CASE FlushNode \/ Clean \/ FlushMap BY <1>2, <1>13, FlushNodeStep, CleanStep, FlushMapStep
<1>14. CASE NodeStep \/ FlushDone BY <1>2, <1>14, NodeStepStep, FlushDoneStep
<1>15. CASE DeviceWrites \/ DeviceFails BY <1>2, <1>15, WritesStep, FailsStep
<1> QED BY <1>3, <1>4, <1>5, <1>6, <1>7, <1>8, <1>9, <1>10, <1>11, <1>12, <1>13, <1>14, <1>15, Zenon DEF Next

\* Every such step keeps the inductive invariant.
LEMMA InvStep == ASSUME Whole', Inv, [Next]_vars PROVE Inv'
<1>1. PICK ch, own : Typed /\ Layout(ch, own) BY DEF Inv
<1>2. Typed' /\ \E ch2, own2 : Layout(ch2, own2)' /\ Kept(ch, own, ch2, own2) BY <1>1, AnyStep
<1> QED BY <1>2 DEF Inv

\* Every step keeps the two flags Boolean.
LEMMA FlagsStep == ASSUME Flags, [Next]_vars PROVE Flags' BY FlagSteps DEF Flags

\* Between calls, what Chain finds of a file are the clusters at its places.
LEMMA ChainFinds == ASSUME NEW nd, NEW s \in [Nat -> Clusters], NEW n \in Nat, IsNode(nd), nd.size = n, Strung(nd, s, n)
    PROVE  Chain(nd) = {s[i] : i \in 0..n - 1}
<1> DEFINE m == [nd EXCEPT !.at = 0, !.ptr = nd.start]
<1>1. m.at = 0 /\ m.ptr = nd.start /\ m.start = nd.start BY DEF IsNode
<1>2. m.contiguous = nd.contiguous BY DEF IsNode
<1>3. Chain(nd) = {Advance(m, i) : i \in 0..n - 1} BY DEF Chain
<1> HIDE DEF m
<1>4. Strung(m, s, n) BY <1>1, <1>2 DEF Strung, Segment, NextCluster
<1>5. Pointed(m, s, n) BY <1>1 DEF Strung, Pointed
<1>6. \A i \in 0..n - 1 : Advance(m, i) = s[i]
 <2> TAKE i \in 0..n - 1
 <2>1. i \in Nat /\ i < n /\ m.at \in Nat BY <1>1
 <2> QED BY <1>4, <1>5, <2>1, AdvanceIs
<1> QED BY <1>3, <1>6

\* As many distinct places, as many clusters.
LEMMA CountPlaces == ASSUME NEW s, NEW n \in Nat, \A i, j \in 0..n - 1 : s[i] = s[j] => i = j
    PROVE  Cardinality({s[i] : i \in 0..n - 1}) = n
<1> DEFINE A == 0..n - 1
           C == {s[i] : i \in A}
           m == [i \in A |-> s[i]]
<1>1. IsFiniteSet(A) /\ Cardinality(A) = n BY FS_Interval
<1>2. m \in Bijection(A, C) BY DEF Bijection, Injection, Surjection, IsInjective
<1>3. ExistsBijection(A, C) BY <1>2 DEF ExistsBijection
<1> HIDE DEF A, C, m
<1>4. Cardinality(C) = Cardinality(A) BY <1>1, <1>3, FS_Bijection
<1> QED BY <1>1, <1>4 DEF C, A

\* The structure accounts for the space: the clusters marked are those of the files' chains.
LEMMA InvAccounts == Inv => SpaceAccounted
<1> SUFFICES ASSUME Inv, Idle PROVE SpaceAccounted BY DEF SpaceAccounted
<1>1. PICK ch, own : Typed /\ Layout(ch, own) BY DEF Inv
<1>2. \A f \in Files : Quiet(f, ch, own) BY <1>1, InIdle
<1>3. ASSUME NEW f \in Files
      PROVE  /\ Chain(node[f]) = {ch[f][i] : i \in own[f]} /\ own[f] = 0..node[f].size - 1 /\ node[f].size \in Nat
 <2>1. PICK n, s : n = node[f].size /\ s = ch[f] OBVIOUS
 <2>2. own[f] = 0..n - 1 /\ Strung(node[f], s, n) /\ IsNode(node[f]) /\ n \in Nat /\ s \in [Nat -> Clusters]
  BY <1>1, <1>2, <2>1, NodeFacts DEF Quiet, Settled, Sized, Layout, Ghosts
 <2>3. Chain(node[f]) = {s[i] : i \in 0..n - 1} BY <2>1, <2>2, ChainFinds
 <2> QED BY <2>1, <2>2, <2>3
<1>4. /\ \A f \in Files : \A i \in own[f] : ch[f][i] \in cmap
      /\ \A f, g \in Files : \A i \in own[f], j \in own[g] : ch[f][i] = ch[g][j] => f = g /\ i = j
      /\ \A c \in cmap : \E f \in Files : \E i \in own[f] : ch[f][i] = c BY <1>1 DEF Layout, Owned
<1>5. ASSUME NEW f \in Files PROVE Cardinality(Chain(node[f])) = node[f].size
 <2>1. PICK n, s : n = node[f].size /\ s = ch[f] OBVIOUS
 <2>2. n \in Nat /\ \A i, j \in 0..n - 1 : s[i] = s[j] => i = j BY <1>3, <1>4, <2>1
 <2>3. Cardinality({s[i] : i \in 0..n - 1}) = n BY <2>2, CountPlaces
 <2> QED BY <1>3, <2>1, <2>3
<1>6. ASSUME NEW f \in Files, NEW g \in Files, f # g PROVE Chain(node[f]) \cap Chain(node[g]) = {}
 <2> SUFFICES ASSUME NEW c \in Chain(node[f]), c \in Chain(node[g]) PROVE FALSE OBVIOUS
 <2>1. PICK i \in own[f] : c = ch[f][i] BY <1>3
 <2>2. PICK j \in own[g] : c = ch[g][j] BY <1>3
 <2>3. ch[f][i] = ch[g][j] BY <2>1, <2>2
 <2>4. \A a, b \in Files : \A x \in own[a], y \in own[b] : ch[a][x] = ch[b][y] => a = b BY <1>4
 <2> QED BY <1>6, <2>3, <2>4
<1>7. cmap = UNION {Chain(node[f]) : f \in Files}
 <2>1. ASSUME NEW c \in cmap PROVE \E f \in Files : c \in Chain(node[f]) BY <1>3, <1>4, <2>1
 <2>2. ASSUME NEW f \in Files, NEW c \in Chain(node[f]) PROVE c \in cmap BY <1>3, <1>4, <2>2
 <2> QED BY <2>1, <2>2
<1> QED BY <1>5, <1>6, <1>7 DEF SpaceAccounted

\* The structure has the types of the module.
LEMMA InvTyped == Inv /\ Flags /\ Whole => TypeOK
<1> SUFFICES ASSUME Inv, Flags, Whole PROVE TypeOK OBVIOUS
<1>1. Typed BY DEF Inv
<1>2. ASSUME NEW f \in Files PROVE Len(want[f]) \in 0..MaxSize
 <2>1. want[f] \in Seq(SUBSET Anything) /\ Len(want[f]) <= MaxSize /\ MaxSize \in Nat BY <1>1, VolumeAssumption DEF Typed
 <2>2. Len(want[f]) \in Nat BY <2>1
 <2> QED BY <2>1, <2>2
<1>3. failed \in BOOLEAN /\ cmapDirty \in BOOLEAN BY Zenon DEF Flags
<1>4. \A f \in Files :
         /\ node[f].state \in {"none", "linked", "unlinked"}
         /\ node[f].start \in Clusters \cup {FREE}
         /\ node[f].size \in 0..MaxSize /\ node[f].valid \in 0..node[f].size
         /\ entry[f].start \in Clusters \cup {FREE} BY <1>1 DEF Typed, IsNode
<1>5. /\ cmap \subseteq Clusters /\ bitmap \subseteq Clusters
      /\ fat \in [Clusters -> Clusters \cup {FREE, END}]
      /\ file \in Files \cup {NoFile} /\ safe \subseteq Files BY <1>1 DEF Typed
<1>6. torn \subseteq Files BY DEF Whole
<1> QED BY <1>2, <1>3, <1>4, <1>5, <1>6, Zenon DEF TypeOK

\* The structure has readable entries, and no call of it is in exfat_bug.
LEMMA InvRuns == Inv => EntriesReadable /\ NeverAborts
<1> SUFFICES ASSUME Inv PROVE EntriesReadable /\ NeverAborts OBVIOUS
<1>1. PICK ch, own : Layout(ch, own) BY DEF Inv
<1>2. ~Doing("abort")
 <2> SUFFICES ASSUME Doing("abort") PROVE FALSE OBVIOUS
 <2>1. todo # <<>> /\ Now.k = "abort" BY DEF Doing, Now
 <2>2. Now.k \in Kinds BY <1>1, <2>1, AtWhich DEF Layout
 <2> QED BY <2>1, <2>2 DEF Kinds, FlushKinds
<1>3. Readable BY <1>1 DEF Layout
<1> QED BY <1>2, <1>3 DEF NeverAborts, EntriesReadable, Readable

\* The structure of the volume holds in every state of every instance, until a write of a link or an
\* erasure fails: there are chains, one per file, that the links, the sizes, the remembered clusters,
\* the bitmap and the entries all agree with, up to what the call in progress has in work.
THEOREM InvAlways == Spec => [](Whole => Inv /\ Flags)
<1>1. Init => Inv BY InitHolds DEF Inv
<1>2. Init => Flags BY DEF Init, Flags
<1>3. (Whole => Inv) /\ [Next]_vars => (Whole => Inv)' BY InvStep, WholeBefore
<1>4. Flags /\ [Next]_vars => Flags' BY FlagsStep
<1> QED BY <1>1, <1>2, <1>3, <1>4, PTL DEF Spec

\* Until a write of a link or an erasure fails, the nodes, the bitmaps, the table, the entries and the
\* call in progress have the types of TypeOK.  In particular no cluster number outside the volume is
\* stored by grow_file, shrink_file or exfat_advance_cluster.
THEOREM VolumeTyped == Spec => [](torn = {} => TypeOK)
<1>1. (Whole => Inv /\ Flags) => (torn = {} => TypeOK) BY InvTyped DEF Whole
<1> QED BY <1>1, InvAlways, PTL

\* Until a write of a link or an erasure fails (the condition is part of SpaceAccounted), between calls
\* the cluster bitmap in memory marks the clusters of the files' chains and no other, and no two files
\* share one: allocate_cluster and free_cluster, called from grow_file and shrink_file, neither leak a
\* cluster nor hand one out twice, whatever else fails and whatever the order of the calls.
THEOREM VolumeAccounted == Spec => []SpaceAccounted
<1>1. (Whole => Inv /\ Flags) => SpaceAccounted BY InvAccounts DEF Whole, SpaceAccounted
<1> QED BY <1>1, InvAlways, PTL

\* Until a write of a link or an erasure fails, no entry on the drive is one that check_node refuses:
\* neither the entry of a new or a deleted file nor what exfat_flush_node writes of a node shows a start
\* without clusters, clusters without a start, or more valid than there is.
THEOREM VolumeReadable == Spec => [](torn = {} => EntriesReadable)
<1>1. (Whole => Inv /\ Flags) => (torn = {} => EntriesReadable) BY InvRuns DEF Whole
<1> QED BY <1>1, InvAlways, PTL

\* Until a write of a link or an erasure fails, no call ends in exfat_bug: the walks of
\* exfat_advance_cluster, grow_file, shrink_file and erase_range never leave the chain they follow, and
\* no stage meets a node in a state it does not expect.
THEOREM VolumeRuns == Spec => [](torn = {} => NeverAborts)
<1>1. (Whole => Inv /\ Flags) => (torn = {} => NeverAborts) BY InvRuns DEF Whole
<1> QED BY <1>1, InvAlways, PTL

------------------------------
\* What a step that neither writes nor resizes a file leaves of its node.
Still(f) ==
    /\ node'[f].state = node[f].state /\ node'[f].size = node[f].size /\ node'[f].valid = node[f].valid
    /\ ~node'[f].dirty => ~node[f].dirty
    /\ f \in safe' => node'[f].start = node[f].start /\ (node'[f].contiguous <=> node[f].contiguous)

\* A file the call in progress is not about has the clusters of its size.
LEMMA OthersSized == ASSUME NEW ch, NEW own, Typed, Layout(ch, own), NEW f \in Files, f # file
    PROVE  own[f] = 0..node[f].size - 1 /\ node[f].size \in Nat /\ \A i \in own[f] : ch[f][i] \in cmap
<1>1. Quiet(f, ch, own) /\ Owned(ch, own) BY DEF Layout
<1> QED BY <1>1, NodeFacts DEF Quiet, Settled, Sized, Owned

\* A step that writes no data, resizes no file and lets go of nothing that is to be written
\* keeps the contents.
LEMMA CalmStep == ASSUME NEW ch, NEW own, NEW ch2, NEW own2, Typed, Layout(ch, own), Content(ch, own),
           Typed', Layout(ch2, own2)', Kept(ch, own, ch2, own2), UNCHANGED <<data, want, entry>>, \A f \in Files : Still(f),
           safe' \subseteq safe, \A f \in safe' : f # file', bitmap' \in {bitmap, cmap},
           \A f : \A i \in Nat : Coming(f, i) => Coming(f, i)',
           \A f : \A i \in Nat : Done(f, i) => Done(f, i)' \/ (f \notin safe' /\ node'[f].dirty) PROVE Content(ch2, own2)'
<1>1. Linked' = Linked /\ Linked \subseteq Files BY DEF Linked, Still
<1>2. \A f \in Files : Wanted(f)' BY DEF Content, Wanted, Still
<1>3. \A f \in Linked : Stored(f, ch2, own2)'
 <2> SUFFICES ASSUME NEW f \in Linked, NEW i \in own2[f], i < node[f].valid PROVE Value(data[ch2[f][i]], f, i) \in want[f][i + 1]
  BY <1>1 DEF Stored, Still
 <2>1. f \in Files BY <1>1
 <2>2. own2[f] \in SUBSET Nat BY <2>1 DEF Layout
 <2>3. i \in Nat /\ node[f].valid \in 0..node[f].size /\ node[f].size \in Nat BY <2>1, <2>2, NodeFacts DEF IsNode
 <2>4. i \in own[f] BY <2>1, <2>3 DEF Kept
 <2>5. ch2[f][i] = ch[f][i] BY <2>1, <2>4 DEF Kept
 <2> QED BY <2>4, <2>5 DEF Content, Stored
<1>4. \A f \in Linked : Unwritten(f)'
 <2> SUFFICES ASSUME NEW f \in Linked, NEW i \in Nat, node[f].valid <= i, i < node[f].size
              PROVE  want[f][i + 1] = Anything \/ Coming(f, i)' BY <1>1 DEF Unwritten, Still
 <2>1. want[f][i + 1] = Anything \/ Coming(f, i) BY DEF Content, Unwritten
 <2> QED BY <2>1
<1>5. \A f \in Linked : Recorded(f)'
 <2> SUFFICES ASSUME NEW f \in Linked, entry[f].there, ~node'[f].dirty \/ f \in safe'
              PROVE  /\ entry[f].valid <= node[f].valid
                     /\ \A i \in Nat : entry[f].valid <= i /\ i < node[f].valid => want[f][i + 1] = Anything \/ Done(f, i)'
  BY <1>1 DEF Recorded, Still
 <2>1. ~node[f].dirty \/ f \in safe BY <1>1 DEF Still
 <2>2. /\ entry[f].valid <= node[f].valid
       /\ \A i \in Nat : entry[f].valid <= i /\ i < node[f].valid => want[f][i + 1] = Anything \/ Done(f, i)
  BY <2>1 DEF Content, Recorded
 <2> QED BY <2>2
<1>6. \A f \in safe' : Saved(f, ch2)'
 <2> SUFFICES ASSUME NEW f \in safe'
              PROVE  /\ f \in Linked /\ Matches(entry[f], node[f])'
                     /\ \A i \in Nat : i < node[f].size => ch2[f][i] \in bitmap' BY <1>1 DEF Saved, Still, Typed
 <2>1. f \in Files /\ f # file /\ f \in Linked /\ Matches(entry[f], node[f]) BY DEF Content, Saved, Typed
 <2>2. Matches(entry[f], node[f])' BY <2>1 DEF Matches, Still
 <2>3. ASSUME NEW i \in Nat, i < node[f].size PROVE ch2[f][i] \in bitmap'
  <3>1. own[f] = 0..node[f].size - 1 /\ node[f].size \in Nat /\ \A j \in own[f] : ch[f][j] \in cmap BY <2>1, OthersSized
  <3>2. i \in own[f] BY <2>3, <3>1
  <3>3. ch2[f][i] = ch[f][i] BY <2>1, <3>2 DEF Kept
  <3>4. ch[f][i] \in bitmap BY <2>3 DEF Content, Saved
  <3> QED BY <3>1, <3>2, <3>3, <3>4
 <2> QED BY <2>1, <2>2, <2>3
<1> QED BY <1>1, <1>2, <1>3, <1>4, <1>5, <1>6 DEF Content

\* The call in progress goes on, and does not write a file's data.
LEMMA CalmInCall == ASSUME NEW ch, NEW own, NEW ch2, NEW own2, Typed, Layout(ch, own), Content(ch, own),
           Typed', Layout(ch2, own2)', Kept(ch, own, ch2, own2),
           ~Writing, UNCHANGED <<data, want, entry, safe>>, bitmap' \in {bitmap, cmap}, file' \in {file, NoFile},
           node' = node \/ (file \in Files /\ OnlyNode(file) /\ Still(file)) PROVE Content(ch2, own2)'
<1>1. \A f \in safe' : f # file'
 <2>1. \A f \in safe : f # file /\ f # NoFile BY VolumeAssumption DEF Content, Saved, Typed
 <2> QED BY <2>1
<1>2. \A f \in Files : Still(f) BY DEF Still, OnlyNode
<1>3. (\A f : \A i \in Nat : Coming(f, i) => Coming(f, i)') /\ \A f : \A i \in Nat : Done(f, i) => Done(f, i)' \/ (f \notin safe' /\ node'[f].dirty)
 BY DEF Coming, Done
<1> QED BY <1>1, <1>2, <1>3, CalmStep

\* A call begins.
LEMMA CalmCall == ASSUME NEW ch, NEW own, NEW ch2, NEW own2, Typed, Layout(ch, own), Content(ch, own),
           Typed', Layout(ch2, own2)', Kept(ch, own, ch2, own2),
           NEW f, NEW t, NEW fs, Call(f, t, fs), f = NoFile \/ f \in fs, \A g \in Files : Still(g) PROVE Content(ch2, own2)'
<1>1. UNCHANGED <<data, want, entry, bitmap>> /\ safe' = safe \ fs /\ file' = f /\ todo = <<>> BY DEF Call, disk, Idle
<1>2. \A g \in safe' : g # file' BY <1>1, VolumeAssumption DEF Typed
<1>3. ~Writing /\ safe' \subseteq safe /\ bitmap' \in {bitmap, cmap} BY <1>1 DEF Writing
<1>4. (\A g : \A i \in Nat : Coming(g, i) => Coming(g, i)') /\ \A g : \A i \in Nat : Done(g, i) => Done(g, i)' \/ (g \notin safe' /\ node'[g].dirty)
 BY <1>3 DEF Coming, Done
<1> QED BY <1>1, <1>2, <1>3, <1>4, CalmStep

\* A call that begins without touching a node keeps the contents.
LEMMA CalmCallSame == ASSUME NEW ch, NEW own, NEW ch2, NEW own2, Typed, Layout(ch, own), Content(ch, own),
           Typed', Layout(ch2, own2)', Kept(ch, own, ch2, own2),
           NEW f, NEW t, NEW fs, Call(f, t, fs), f = NoFile \/ f \in fs, UNCHANGED Memory PROVE Content(ch2, own2)'
<1>1. \A g \in Files : Still(g) BY DEF Memory, Still
<1> QED BY <1>1, CalmCall

\* The calls of ExFatNative, as they begin.
LEMMA CallsCalm == ASSUME NEW ch, NEW own, NEW ch2, NEW own2, Typed, Layout(ch, own), Content(ch, own),
           Typed', Layout(ch2, own2)', Kept(ch, own, ch2, own2),
           \/ \E f \in Files : CreateFile(f) \/ DeleteNode(f) \/ PutNode(f)
           \/ \E f \in Files, i \in 0..MaxSize - 1 : ReadFile(f, i)
           \/ \E f \in Files, i \in 0..MaxSize, n \in 1..MaxWrite : WriteFile(f, i, n)
           \/ \E f \in Files, n \in Lengths : SetLength(f, n)
           \/ Flush \/ Unmount PROVE Content(ch2, own2)'
<1>1. CASE \E f, t, fs : Call(f, t, fs) /\ (f = NoFile \/ f \in fs) /\ UNCHANGED Memory BY <1>1, CalmCallSame
<1>2. ASSUME NEW f \in Files, CreateFile(f) \/ DeleteNode(f) \/ PutNode(f)
      PROVE  \E t, fs : Call(f, t, fs) /\ f \in fs /\ UNCHANGED Memory
 <2>1. f \in {f} OBVIOUS
 <2> QED BY <1>2, <2>1, Zenon DEF CreateFile, DeleteNode, PutNode
<1>3. ASSUME NEW f \in Files, NEW i \in 0..MaxSize, NEW n \in 1..MaxWrite, WriteFile(f, i, n)
      PROVE  \E t, fs : Call(f, t, fs) /\ f \in fs /\ UNCHANGED Memory
 <2>1. f \in {f} OBVIOUS
 <2> QED BY <1>3, <2>1, Zenon DEF WriteFile
<1>4. ASSUME NEW f \in Files, NEW n \in Lengths, SetLength(f, n) PROVE \E t, fs : Call(f, t, fs) /\ f \in fs /\ UNCHANGED Memory
 <2>1. f \in {f} OBVIOUS
 <2> QED BY <1>4, <2>1, Zenon DEF SetLength
<1>5. ASSUME Flush \/ Unmount PROVE \E t, fs : Call(NoFile, t, fs) /\ UNCHANGED Memory BY <1>5, Zenon DEF Flush, Unmount
<1>6. ASSUME NEW f \in Files, NEW i \in 0..MaxSize - 1, ReadFile(f, i) PROVE Content(ch2, own2)'
 <2>1. PICK t, fs : Call(NoFile, t, fs) BY <1>6, ReadFileFinds
 <2>2. IsNode(node[f]) BY NodeFacts
 <2>3. DOMAIN node = Files BY DEF Typed
 <2>4. node' = [node EXCEPT ![f] = [Moved(node[f], i) EXCEPT !.dirty = TRUE]] BY <1>6, ReadFileFinds
 <2>5. PICK nd, m : nd = node[f] /\ m = [Moved(nd, i) EXCEPT !.dirty = TRUE] OBVIOUS
 <2>6. m.state = nd.state /\ m.size = nd.size /\ m.valid = nd.valid /\ m.start = nd.start BY <2>2, <2>5 DEF Moved, IsNode
 <2>7. m.dirty /\ m.contiguous = nd.contiguous BY <2>2, <2>5 DEF Moved, IsNode
 <2>8. \A g \in Files : node'[g] = IF g = f THEN m ELSE node[g] BY <2>3, <2>4, <2>5
 <2>9. \A g \in Files : Still(g) BY <2>5, <2>6, <2>7, <2>8 DEF Still
 <2> QED BY <2>1, <2>9, CalmCall
<1>7. CASE Flush \/ Unmount BY <1>1, <1>5, <1>7
<1>8. CASE \E f \in Files : CreateFile(f) \/ DeleteNode(f) \/ PutNode(f) BY <1>1, <1>2, <1>8
<1>9. CASE \E f \in Files, i \in 0..MaxSize, n \in 1..MaxWrite : WriteFile(f, i, n) BY <1>1, <1>3, <1>9
<1>10. CASE \E f \in Files, n \in Lengths : SetLength(f, n) BY <1>1, <1>4, <1>10
<1>11. CASE \E f \in Files, i \in 0..MaxSize - 1 : ReadFile(f, i) BY <1>6, <1>11
<1> QED BY <1>7, <1>8, <1>9, <1>10, <1>11

\* However a call goes on, it stays about its file or ends.
LEMMA SameFile == ASSUME (\E t : Continue(t)) \/ Bail \/ Abort \/ (\E t : Goto(t)) PROVE file' \in {file, NoFile}
BY DEF Continue, Bail, Abort, Goto

\* The stages of grow_file and shrink_file are about a file.
LEMMA AboutFile == ASSUME NEW ch, NEW own, Typed, Layout(ch, own),
           Doing("eraseRange") \/ Doing("grow") \/ Doing("noncontiguous") \/ Doing("shrink") \/ Doing("rewind")
           \/ Doing("locate") \/ Doing("write") \/ Doing("setSize") PROVE file \in Files /\ IsNode(Nd)
<1>1. todo # <<>> /\ Busy(ch, own) BY DEF Doing, Layout
<1>2. file \in Files BY <1>1, AtWhich DEF AtEraseRange, AtGrow, Spreading, AtShrink, AtRewind, AtLocate, AtWrite, AtSetSize
<1> QED BY <1>2, NodeFacts DEF Nd

\* The steps of a call that leave the nodes alone.
LEMMA SameNodesCalm == ASSUME NEW ch, NEW own, NEW ch2, NEW own2, Typed, Layout(ch, own), Content(ch, own),
           Typed', Layout(ch2, own2)', Kept(ch, own, ch2, own2),
           \/ DoTruncate \/ GrowLoop \/ NoSpace \/ FreeLoop \/ FreeCluster \/ FlushNode \/ FlushMap PROVE Content(ch2, own2)'
<1>1. UNCHANGED <<node, data, want, entry, safe, bitmap>>
 BY DEF DoTruncate, GrowLoop, NoSpace, FreeLoop, FreeCluster, FlushNode, FlushMap, Memory, History, disk
<1>2. Bail \/ \E t : Goto(t) BY DEF DoTruncate, GrowLoop, NoSpace, FreeLoop, FreeCluster, FlushNode, FlushMap
<1>3. file' \in {file, NoFile} BY <1>2, SameFile
<1>4. ~Writing BY DEF DoTruncate, GrowLoop, NoSpace, FreeLoop, FreeCluster, FlushNode, FlushMap, Writing, Doing, Now
<1> QED BY <1>1, <1>3, <1>4, CalmInCall

\* What the steps that move the file pointer, start or end a chain make of a node.
Bare(nd, m) ==
    /\ m.state = nd.state /\ m.size = nd.size /\ m.valid = nd.valid
    /\ ~m.dirty => ~nd.dirty

\* Moving the remembered place keeps the size of a node and what is valid of it.
LEMMA BareMoved == ASSUME NEW nd, IsNode(nd), NEW i PROVE Bare(nd, Moved(nd, i))
<1>1. PICK m : m = Moved(nd, i) OBVIOUS
<1>2. m.state = nd.state /\ m.size = nd.size /\ m.valid = nd.valid BY <1>1 DEF Moved, IsNode
<1>3. m.dirty = nd.dirty BY <1>1 DEF Moved, IsNode
<1> QED BY <1>1, <1>2, <1>3 DEF Bare

\* So does putting the remembered place back to the start.
LEMMA BareRewound == ASSUME NEW nd, IsNode(nd) PROVE Bare(nd, Rewound(nd))
<1>1. PICK m : m = Rewound(nd) OBVIOUS
<1>2. m.state = nd.state /\ m.size = nd.size /\ m.valid = nd.valid BY <1>1 DEF Rewound, IsNode
<1>3. m.dirty = nd.dirty BY <1>1 DEF Rewound, IsNode
<1> QED BY <1>1, <1>2, <1>3 DEF Bare

\* So do the first and the last cluster of a chain, the end of a contiguous one, and a mark that
\* the node is dirty.
LEMMA BareOthers == ASSUME NEW nd, IsNode(nd), NEW c
    PROVE  /\ Bare(nd, [nd EXCEPT !.start = c, !.ptr = c, !.contiguous = TRUE])
           /\ Bare(nd, [nd EXCEPT !.contiguous = FALSE, !.dirty = TRUE])
           /\ Bare(nd, [nd EXCEPT !.start = FREE, !.dirty = TRUE])
           /\ Bare(nd, [nd EXCEPT !.dirty = TRUE])
           /\ Bare(nd, nd)
<1>1. PICK a, b, d, e : /\ a = [nd EXCEPT !.start = c, !.ptr = c, !.contiguous = TRUE]
                        /\ b = [nd EXCEPT !.contiguous = FALSE, !.dirty = TRUE]
                        /\ d = [nd EXCEPT !.start = FREE, !.dirty = TRUE]
                        /\ e = [nd EXCEPT !.dirty = TRUE] OBVIOUS
<1>2. \A m \in {a, b, d, e} : m.state = nd.state /\ m.size = nd.size /\ m.valid = nd.valid BY <1>1 DEF IsNode
<1>3. a.dirty = nd.dirty BY <1>1 DEF IsNode
<1>4. b.dirty /\ d.dirty /\ e.dirty BY <1>1 DEF IsNode
<1> QED BY <1>1, <1>2, <1>3, <1>4 DEF Bare

\* The steps of a call that change its node.
LEMMA NodeCalm == ASSUME NEW ch, NEW own, NEW ch2, NEW own2, Typed, Layout(ch, own), Content(ch, own),
           Typed', Layout(ch2, own2)', Kept(ch, own, ch2, own2),
           EraseRange \/ GrowStart \/ Noncontiguous \/ ShrinkStart \/ Rewind PROVE Content(ch2, own2)'
<1>1. UNCHANGED <<data, want, entry, safe, bitmap>>
 BY DEF EraseRange, GrowStart, Noncontiguous, ShrinkStart, Rewind, Memory, History, disk
<1>2. Bail \/ Abort \/ \E t : Goto(t) BY DEF EraseRange, GrowStart, Noncontiguous, ShrinkStart, Rewind
<1>3. file' \in {file, NoFile} BY <1>2, SameFile
<1>4. ~Writing BY DEF EraseRange, GrowStart, Noncontiguous, ShrinkStart, Rewind, Writing, Doing, Now
<1>5. file \in Files /\ IsNode(Nd) BY AboutFile DEF EraseRange, GrowStart, Noncontiguous, ShrinkStart, Rewind
<1>6. node' = node \/ \E m : SetNode(m) /\ Bare(Nd, m)
 <2>1. /\ \A i : Bare(Nd, Moved(Nd, i))
       /\ Bare(Nd, Rewound(Nd))
       /\ \A c : Bare(Nd, [Nd EXCEPT !.start = c, !.ptr = c, !.contiguous = TRUE])
       /\ Bare(Nd, [Nd EXCEPT !.contiguous = FALSE, !.dirty = TRUE])
       /\ Bare(Nd, [Nd EXCEPT !.start = FREE, !.dirty = TRUE]) BY <1>5, BareMoved, BareRewound, BareOthers
 <2>2. CASE EraseRange BY <2>1, <2>2, Zenon DEF EraseRange
 <2>3. CASE GrowStart
  <3>1. UNCHANGED Memory => node' = node BY DEF Memory
  <3> QED BY <2>1, <2>3, <3>1, Zenon DEF GrowStart
 <2>4. CASE Noncontiguous BY <2>1, <2>4, Zenon DEF Noncontiguous
 <2>5. CASE ShrinkStart BY <2>1, <2>5, Zenon DEF ShrinkStart
 <2>6. CASE Rewind BY <2>1, <2>6, Zenon DEF Rewind
 <2> QED BY <2>2, <2>3, <2>4, <2>5, <2>6
<1>7. node' = node \/ (OnlyNode(file) /\ Still(file))
 <2> SUFFICES ASSUME NEW m, SetNode(m), Bare(Nd, m) PROVE OnlyNode(file) /\ Still(file) BY <1>6
 <2>1. OnlyNode(file) /\ node'[file] = m BY <1>5, SetNodeIs
 <2>2. file \notin safe' BY <1>1 DEF Content, Saved
 <2> QED BY <2>1, <2>2 DEF Still, Bare, Nd
<1> QED BY <1>1, <1>3, <1>4, <1>5, <1>7, CalmInCall

\* The writes of links and of the bitmap, and the failed writes of entries and of the bitmap.
LEMMA DeviceCalm == ASSUME NEW ch, NEW own, NEW ch2, NEW own2, Typed, Layout(ch, own), Content(ch, own),
           Typed', Layout(ch2, own2)', Kept(ch, own, ch2, own2),
           \/ DeviceWrites /\ (Doing("fat") \/ Doing("bitmap"))
           \/ DeviceFails /\ ~Doing("data") /\ (Doing("entry") \/ Doing("bitmap")) PROVE Content(ch2, own2)'
<1>1. /\ UNCHANGED <<node, data, want, entry, safe>> /\ bitmap' \in {bitmap, cmap}
 BY DEF DeviceWrites, DeviceFails, Memory, Doing, Now
<1>2. Bail \/ \E t : Goto(t) BY DEF DeviceWrites, DeviceFails
<1>3. file' \in {file, NoFile} BY <1>2, SameFile
<1>4. ~Writing BY DEF Writing, Doing, Now
<1> QED BY <1>1, <1>3, <1>4, CalmInCall

\* A step that changes one file only.
LEMMA FileStep == ASSUME NEW ch, NEW own, Typed, Layout(ch, own), Content(ch, own), NEW x \in Files, file \in {x, NoFile},
           OnlyNode(x), \A g \in Files : g # x => want'[g] = want[g] /\ entry'[g] = entry[g],
           \A g \in Files : g # x => \A i \in own[g] : data'[ch[g][i]] = data[ch[g][i]],
           safe' = safe, bitmap' = bitmap, file' \in {file, NoFile}, x \in safe => Saved(x, ch)', Wanted(x)',
           node'[x].state = "linked" => Stored(x, ch, own)' /\ Unwritten(x)' /\ Recorded(x)' PROVE Content(ch, own)'
<1>1. \A g \in Files : g # x => node'[g] = node[g] BY DEF OnlyNode
<1>2. \A g : g \in Linked' <=> g \in Files /\ node'[g].state = "linked" BY DEF Linked
<1>3. ASSUME NEW g \in Files, g # x PROVE Wanted(g)' BY <1>1, <1>3 DEF Content, Wanted
<1>4. ASSUME NEW g \in Files, g # x, node'[g].state = "linked" PROVE Stored(g, ch, own)' /\ Unwritten(g)' /\ Recorded(g)'
 <2>1. node'[g] = node[g] /\ want'[g] = want[g] /\ entry'[g] = entry[g] /\ g \in Linked /\ g # file
  BY <1>1, <1>4, VolumeAssumption DEF Linked
 <2>2. Stored(g, ch, own) /\ Unwritten(g) /\ Recorded(g) BY <2>1 DEF Content
 <2>3. \A i : ~Coming(g, i) /\ ~Done(g, i) BY <2>1 DEF Coming, Done
 <2>4. Stored(g, ch, own)' BY <1>4, <2>1, <2>2 DEF Stored
 <2>5. Unwritten(g)' BY <2>1, <2>2, <2>3 DEF Unwritten
 <2>6. Recorded(g)' BY <2>1, <2>2, <2>3 DEF Recorded
 <2> QED BY <2>4, <2>5, <2>6
<1>5. ASSUME NEW g \in safe, g # x PROVE Saved(g, ch)'
 <2>1. g \in Files /\ Saved(g, ch) BY DEF Content, Typed
 <2>2. node'[g] = node[g] /\ entry'[g] = entry[g] /\ g # NoFile BY <1>1, <1>5, <2>1, VolumeAssumption
 <2> QED BY <1>2, <2>1, <2>2 DEF Saved, Linked, Matches
<1> QED BY <1>2, <1>3, <1>4, <1>5 DEF Content

\* The write in progress finds its first cluster.
LEMMA LocateCalm == ASSUME NEW ch, NEW own, Typed, Layout(ch, own), Content(ch, own), Locate PROVE Content(ch, own)'
<1>1. Typed' /\ Layout(ch, own)' /\ Onward BY LocateStep
<1>2. UNCHANGED <<data, want, entry, safe, bitmap>> /\ SetNode(Moved(Nd, Now.i)) /\ Doing("locate") BY DEF Locate, disk, History
<1>3. file \in Files /\ IsNode(Nd) BY <1>2, AboutFile
<1>4. Bare(Nd, Moved(Nd, Now.i)) BY <1>3, BareMoved
<1>5. OnlyNode(file) /\ node'[file] = Moved(Nd, Now.i) /\ file \notin safe BY <1>2, <1>3, SetNodeIs DEF Content, Saved
<1>6. \A f \in Files : Still(f) BY <1>2, <1>4, <1>5 DEF Still, OnlyNode, Bare, Nd
<1>7. Kept(ch, own, ch, own) BY DEF Kept
<1>8. file' = file /\ \A f \in safe' : f # file' BY <1>1, <1>2 DEF Onward, Content, Saved
<1>9. \A f : \A i \in Nat : Coming(f, i) => Coming(f, i)' BY <1>1 DEF Onward, Coming, Writing
<1>10. \A f : \A i \in Nat : Done(f, i) => Done(f, i)' \/ (f \notin safe' /\ node'[f].dirty) BY <1>2 DEF Done, Doing, Now
<1>11. safe' \subseteq safe /\ bitmap' \in {bitmap, cmap} BY <1>2
<1> QED BY <1>1, <1>2, <1>6, <1>7, <1>8, <1>9, <1>10, <1>11, CalmStep

\* The loop of exfat_generic_pwrite takes its next run of clusters, or ends.
LEMMA WriteLoopCalm == ASSUME NEW ch, NEW own, Typed, Layout(ch, own), Content(ch, own), WriteLoop PROVE Content(ch, own)'
<1>1. Typed' /\ Layout(ch, own)' /\ (Onward \/ (Now.n = 0 /\ node'[file].dirty /\ file' = NoFile)) BY WriteLoopStep
<1>2. /\ UNCHANGED <<data, want, entry, safe, bitmap>> /\ Doing("write")
      /\ node' = node \/ SetNode([Nd EXCEPT !.dirty = TRUE]) BY DEF WriteLoop, disk, History
<1>3. file \in Files /\ IsNode(Nd) BY <1>2, AboutFile
<1>4. Bare(Nd, [Nd EXCEPT !.dirty = TRUE]) BY <1>3, BareOthers
<1>5. file \notin safe BY DEF Content, Saved
<1>6. \A f \in Files : Still(f)
 <2>1. CASE node' = node BY <2>1 DEF Still
 <2>2. CASE SetNode([Nd EXCEPT !.dirty = TRUE])
  <3>1. OnlyNode(file) /\ node'[file] = [Nd EXCEPT !.dirty = TRUE] BY <1>3, <2>2, SetNodeIs
  <3> QED BY <1>2, <1>4, <1>5, <3>1 DEF Still, OnlyNode, Bare, Nd
 <2> QED BY <1>2, <2>1, <2>2
<1>7. Kept(ch, own, ch, own) BY DEF Kept
<1>8. \A f \in safe' : f # file' BY <1>1, <1>2, <1>5, VolumeAssumption DEF Onward, Typed
<1>9. Now.k = "write" BY <1>2 DEF Doing, Now
<1>10. \A f : \A i \in Nat : Coming(f, i) => Coming(f, i)'
 <2>1. CASE Onward BY <2>1 DEF Onward, Coming, Writing
 <2>2. CASE Now.n = 0
  <3>1. AtWrite(Now, Tail(todo), ch, own) BY <1>2, AtWhich DEF Layout, Doing
  <3>2. Now.i \in Nat BY <3>1 DEF AtWrite, IsWrite
  <3>3. Until = Now.i BY <1>9, <2>2, <3>2 DEF Until
  <3>4. \A f : \A i \in Nat : Coming(f, i) => Now.i <= i /\ i < Now.i BY <3>3 DEF Coming
  <3>5. \A i \in Nat : ~(Now.i <= i /\ i < Now.i) BY <3>2
  <3> QED BY <3>4, <3>5
 <2> QED BY <1>1, <2>1, <2>2
<1>11. \A f : \A i \in Nat : Done(f, i) => Done(f, i)' \/ (f \notin safe' /\ node'[f].dirty)
 BY <1>1, <1>2, <1>5, <1>9 DEF Done, Onward, Writing
<1>12. safe' \subseteq safe /\ bitmap' \in {bitmap, cmap} BY <1>2
<1> QED BY <1>1, <1>2, <1>6, <1>7, <1>8, <1>10, <1>11, <1>12, CalmStep

\* A step that changes nothing keeps the contents.
LEMMA StutterContent == ASSUME NEW ch, NEW own, Typed, Layout(ch, own), Content(ch, own), UNCHANGED vars
    PROVE  Content(ch, own)'
<1>1. UNCHANGED <<node, cmap, cmapDirty, todo, file, fat, bitmap, entry, data, calls, want, failed, safe>> BY DEF vars, disk
<1>2. Typed' /\ Layout(ch, own)' BY StutterStep
<1>3. Kept(ch, own, ch, own) BY DEF Kept
<1>4. \A f \in Files : Still(f) BY <1>1 DEF Still
<1>5. \A f \in safe' : f # file' BY <1>1 DEF Content, Saved
<1>6. Now' = Now /\ Until' = Until /\ (Writing' <=> Writing) BY <1>1 DEF Now, Until, Writing
<1>7. \A f : \A i \in Nat : Coming(f, i) => Coming(f, i)' BY <1>1, <1>6 DEF Coming
<1>8. \A f : \A i \in Nat : Done(f, i) => Done(f, i)' \/ (f \notin safe' /\ node'[f].dirty) BY <1>1, <1>6 DEF Done
<1>9. UNCHANGED <<data, want, entry>> /\ safe' \subseteq safe /\ bitmap' \in {bitmap, cmap} BY <1>1
<1> QED BY <1>2, <1>3, <1>4, <1>5, <1>7, <1>8, <1>9, CalmStep

\* The file leaves the tree.
LEMMA UnlinkContent == ASSUME NEW ch, NEW own, Typed, Layout(ch, own), Content(ch, own), Unlink PROVE Content(ch, own)'
<1>1. Doing("unlink") /\ UNCHANGED <<entry, data, safe, bitmap>> BY DEF Unlink, disk
<1>2. AtUnlink(Now, Tail(todo), ch, own) BY <1>1, AtWhich DEF Layout, Doing
<1>3. PICK x : x = file OBVIOUS
<1>4. x \in Files /\ IsNode(node[x]) BY <1>2, <1>3, NodeFacts DEF AtUnlink
<1>5. PICK m : m = [node[x] EXCEPT !.state = "unlinked"] OBVIOUS
<1>6. OnlyNode(x) /\ node'[x] = m BY <1>3, <1>4, <1>5, SetNodeIs DEF Unlink, Nd
<1>7. m.state = "unlinked" BY <1>4, <1>5 DEF IsNode
<1>8. want'[x] = <<>> /\ \A g \in Files : g # x => want'[g] = want[g] BY <1>3, <1>4 DEF Unlink, Typed
<1>9. Wanted(x)' /\ ~(node'[x].state = "linked") BY <1>6, <1>7, <1>8 DEF Wanted
<1>10. x \notin safe /\ file \in {x, NoFile} BY <1>3 DEF Content, Saved
<1>11. file' \in {file, NoFile} BY SameFile DEF Unlink
<1> QED BY <1>1, <1>4, <1>6, <1>8, <1>9, <1>10, <1>11, FileStep

\* A node comes into the tree, or is no more.
LEMMA NodeStepContent == ASSUME NEW ch, NEW own, Typed, Layout(ch, own), Content(ch, own), NodeStep PROVE Content(ch, own)'
<1>1. UNCHANGED <<entry, data, want, safe, bitmap>> /\ file' \in {file, NoFile} BY SameFile DEF NodeStep, disk, History
<1>2. PICK x : x = file OBVIOUS
<1>3. x \notin safe /\ file \in {x, NoFile} BY <1>2 DEF Content, Saved
<1>4. Busy(ch, own) /\ own \in [Files -> SUBSET Nat] BY DEF Layout
<1>5. ASSUME x \in Files, OnlyNode(x), Wanted(x)',
             node'[x].state = "linked" => Stored(x, ch, own)' /\ Unwritten(x)' /\ Recorded(x)' PROVE Content(ch, own)'
 BY <1>1, <1>3, <1>5, FileStep
<1>6. CASE Doing("attach")
 <2>1. AtAttach(Now, Tail(todo), ch, own) BY <1>4, <1>6, AtWhich DEF Doing
 <2>2. x \in Files /\ node[x].state = "none" /\ entry[x] = EntryOf(NoNode) BY <1>2, <2>1 DEF AtAttach, Nd
 <2>3. PICK m : m = [NoNode EXCEPT !.state = "linked"] OBVIOUS
 <2>4. SetNode(m) BY <1>6, <2>3 DEF NodeStep, Doing
 <2>5. OnlyNode(x) /\ node'[x] = m BY <1>2, <2>2, <2>4, SetNodeIs
 <2>6. m.state = "linked" /\ m.size = 0 /\ m.valid = 0 BY <2>3 DEF NoNode
 <2>7. Len(want[x]) = 0
  <3>1. Wanted(x) BY <2>2 DEF Content
  <3> QED BY <2>2, <3>1 DEF Wanted
 <2>8. Wanted(x)' BY <1>1, <2>5, <2>6, <2>7 DEF Wanted
 <2>9. Stored(x, ch, own)' /\ Unwritten(x)'
  <3>1. own[x] \subseteq Nat BY <1>4, <2>2
  <3> QED BY <2>5, <2>6, <3>1 DEF Stored, Unwritten
 <2>10. Recorded(x)'
  <3>1. entry'[x].valid = 0 BY <1>1, <2>2, PlainEntries
  <3> QED BY <2>5, <2>6, <3>1 DEF Recorded
 <2> QED BY <1>5, <2>2, <2>5, <2>8, <2>9, <2>10
<1>7. CASE Doing("unmark") \/ Doing("freeNode")
 <2>1. AtEnd(Now, Tail(todo), ch, own) BY <1>4, <1>7, AtWhich DEF Doing
 <2>2. x \in Files /\ node[x].state = "unlinked" /\ IsNode(node[x]) BY <1>2, <2>1, NodeFacts DEF AtEnd, Nd
 <2>3. PICK m : SetNode(m) /\ (m = [node[x] EXCEPT !.dirty = FALSE] \/ m = NoNode) BY <1>2, <1>7, Zenon DEF NodeStep, Doing, Nd
 <2>4. OnlyNode(x) /\ node'[x] = m BY <1>2, <2>2, <2>3, SetNodeIs
 <2>5. m.state # "linked" BY <2>2, <2>3 DEF NoNode, IsNode
 <2>6. Len(want[x]) = 0
  <3>1. Wanted(x) BY <2>2 DEF Content
  <3> QED BY <2>2, <3>1 DEF Wanted
 <2>7. Wanted(x)' BY <1>1, <2>4, <2>5, <2>6 DEF Wanted
 <2> QED BY <1>5, <2>2, <2>4, <2>5, <2>7
<1> QED BY <1>6, <1>7 DEF NodeStep

\* A node is clean once its entry is written.
LEMMA CleanContent == ASSUME NEW ch, NEW own, Typed, Layout(ch, own), Content(ch, own), Clean PROVE Content(ch, own)'
<1>1. Doing("clean") /\ UNCHANGED <<entry, data, want, safe, bitmap>> /\ file' \in {file, NoFile}
 BY SameFile DEF Clean, disk, History
<1>2. PICK x : x = Now.f OBVIOUS
<1>3. Flushing(Now, Tail(todo)) /\ Now.k = "clean" BY <1>1, AtWhich DEF Layout, FlushKinds, Doing, Now
<1>4. file = NoFile /\ x \in Linked /\ entry[x].valid = node[x].valid BY <1>2, <1>3 DEF Flushing
<1>5. x \in Files /\ IsNode(node[x]) /\ DOMAIN node = Files /\ node[x].valid \in Nat BY <1>4, NodeFacts DEF Linked, Typed
<1>6. PICK m : m = [node[x] EXCEPT !.dirty = FALSE] OBVIOUS
<1>7. node' = [node EXCEPT ![x] = m] BY <1>2, <1>5, <1>6 DEF Clean
<1>8. OnlyNode(x) /\ node'[x] = m BY <1>5, <1>7 DEF OnlyNode
<1>9. m.state = node[x].state /\ m.size = node[x].size /\ m.valid = node[x].valid /\ m.start = node[x].start
 BY <1>5, <1>6 DEF IsNode
<1>10. m.contiguous = node[x].contiguous BY <1>5, <1>6 DEF IsNode
<1>11. Wanted(x) /\ Stored(x, ch, own) /\ Unwritten(x) BY <1>4, <1>5 DEF Content
<1>12. Wanted(x)' /\ Stored(x, ch, own)' BY <1>1, <1>8, <1>9, <1>11 DEF Wanted, Stored
<1>13. \A i : ~Coming(x, i) BY <1>3 DEF Coming, Writing
<1>14. Unwritten(x)' BY <1>1, <1>8, <1>9, <1>11, <1>13 DEF Unwritten
<1>15. Recorded(x)' BY <1>1, <1>4, <1>5, <1>8, <1>9 DEF Recorded
<1>16. x \in safe => Saved(x, ch)'
 <2> SUFFICES ASSUME x \in safe PROVE Saved(x, ch)' OBVIOUS
 <2>1. Saved(x, ch) BY DEF Content
 <2>2. x \in Linked' /\ x # NoFile BY <1>4, <1>5, <1>8, <1>9, VolumeAssumption DEF Linked
 <2>3. Matches(entry[x], node[x])' BY <1>1, <1>8, <1>9, <1>10, <2>1 DEF Saved, Matches
 <2> QED BY <1>1, <1>4, <1>8, <1>9, <2>1, <2>2, <2>3 DEF Saved
<1> QED BY <1>1, <1>4, <1>5, <1>8, <1>12, <1>14, <1>15, <1>16, FileStep

\* At the end of a flush without an error nothing is dirty.
LEMMA AllFlushed == ASSUME NEW ch, NEW own, Typed, Layout(ch, own), ~failed, Doing("flushed") \/ Doing("unmounted")
    PROVE  /\ file = NoFile /\ bitmap = cmap
           /\ \A f \in Files : Quiet(f, ch, own)
           /\ \A f \in Linked : ~node[f].dirty /\ Matches(entry[f], node[f])
<1>1. todo # <<>> BY DEF Doing
<1>2. PICK h, t : h = Now /\ t = Tail(todo) OBVIOUS
<1>3. Flushing(h, t) /\ h.k \in {"flushed", "unmounted"} BY <1>1, <1>2, AtWhich DEF Layout, FlushKinds, Doing, Now
<1>4. file = NoFile /\ Pending(todo) /\ FlushList(todo, Linked) BY <1>3 DEF Flushing, FlushTail
<1>5. Listed(todo) /\ Listed(t) /\ todo = <<h>> \o t /\ \A g \in Files : Quiet(g, ch, own) BY <1>1, <1>2, <1>4, InFlush
<1>6. \A i \in 1..Len(t) : t[i].k = "unmounted"
 <2>1. PICK u, n, L : u = todo /\ n = Len(t) /\ L = Linked OBVIOUS
 <2>2. FlushList(u, L) /\ u = <<h>> \o t /\ n \in Nat BY <1>4, <1>5, <2>1, ListedLen
 <2>3. Len(u) = n + 1 /\ u[1] = h /\ \A i \in 1..n : u[i + 1] = t[i] BY <1>5, <2>1, <2>2, InFront
 <2>4. \/ h \in {Stage("catch"), Stage("flushMap")}
       \/ \E f \in L : h = [k |-> "flushNode", f |-> f]
       \/ h = Stage("flushed") /\ (1 = n + 1 \/ (1 = (n + 1) - 1 /\ u[n + 1] = Stage("unmounted")))
       \/ h = Stage("unmounted") /\ 1 = n + 1
  <3>1. 1 \in 1..Len(u) BY <2>2, <2>3
  <3> QED BY <2>2, <2>3, <3>1 DEF FlushList
 <2>5. h \notin {Stage("catch"), Stage("flushMap")} BY <1>3 DEF Stage
 <2>6. ~\E f \in L : h = [k |-> "flushNode", f |-> f] BY <1>3
 <2>7. n = 0 \/ (n = 1 /\ u[2] = Stage("unmounted"))
  <3>1. (1 = n + 1 => n = 0) /\ (1 = (n + 1) - 1 => n = 1 /\ n + 1 = 2) BY <2>2
  <3> QED BY <2>4, <2>5, <2>6, <3>1
 <2>8. n = 1 => t[1] = u[2] BY <2>3
 <2>9. Stage("unmounted").k = "unmounted" BY DEF Stage
 <2>10. ASSUME NEW i \in 1..n PROVE t[i].k = "unmounted"
  <3>1. i = 1 /\ n = 1 BY <2>7
  <3> QED BY <2>7, <2>8, <2>9, <3>1
 <2> QED BY <2>1, <2>10
<1>8. ~cmapDirty /\ \A g \in Linked : ~node[g].dirty
 <2>1. ~failed => /\ \A g \in Linked : node[g].dirty => (h.k \in {"flushNode", "clean"} /\ h.f = g) \/ NodeDue(g, t)
                  /\ cmapDirty => h.k \in {"flushMap", "bitmap"} \/ MapDue(t) BY <1>4, <1>5, PendingBehind
 <2>2. ~MapDue(t) /\ \A g : ~NodeDue(g, t) BY <1>6 DEF MapDue, NodeDue
 <2> QED BY <1>3, <2>1, <2>2
<1>9. \A f \in Linked : Matches(entry[f], node[f]) BY <1>5, <1>8 DEF Quiet, Booked, Linked
<1> QED BY <1>4, <1>5, <1>8, <1>9 DEF Layout, MapClean

\* The end of a flush.
LEMMA FlushDoneContent == ASSUME NEW ch, NEW own, Typed, Layout(ch, own), Content(ch, own), FlushDone PROVE Content(ch, own)'
<1>1. Typed' /\ Layout(ch, own)' BY FlushDoneStep
<1>2. Doing("flushed") /\ UNCHANGED <<node, entry, data, want, bitmap>> /\ file' \in {file, NoFile}
 BY SameFile DEF FlushDone, disk, Memory
<1>3. ~Writing BY <1>2 DEF Writing, Doing, Now
<1>4. CASE failed
 <2>1. safe' = safe /\ bitmap' \in {bitmap, cmap} /\ Kept(ch, own, ch, own) BY <1>2, <1>4 DEF FlushDone, Kept
 <2> QED BY <1>1, <1>2, <1>3, <2>1, CalmInCall
<1>5. CASE ~failed
 <2>1. /\ file = NoFile /\ bitmap = cmap
       /\ \A f \in Linked : ~node[f].dirty /\ Matches(entry[f], node[f]) BY <1>2, <1>5, AllFlushed
 <2>2. safe' = Linked /\ Linked' = Linked /\ Linked \subseteq Files BY <1>2, <1>5 DEF FlushDone, Linked
 <2>3. \A f, i : ~Coming(f, i) /\ ~Done(f, i) BY <1>3 DEF Coming, Done
 <2>4. \A f \in Files : Wanted(f)' BY <1>2 DEF Content, Wanted
 <2>5. \A f \in Linked : Stored(f, ch, own)' BY <1>2 DEF Content, Stored
 <2>6. \A f \in Linked : Unwritten(f)' BY <1>2, <2>3 DEF Content, Unwritten
 <2>7. \A f \in Linked : Recorded(f)' BY <1>2, <2>1, <2>3 DEF Content, Recorded
 <2>8. ASSUME NEW f \in Linked PROVE Saved(f, ch)'
  <3>1. f \in Files /\ f # file' /\ f # file BY <1>2, <2>1, <2>2, VolumeAssumption
  <3>2. own[f] = 0..node[f].size - 1 /\ node[f].size \in Nat /\ \A i \in own[f] : ch[f][i] \in cmap BY <3>1, OthersSized
  <3>3. \A i \in Nat : i < node[f].size => ch[f][i] \in bitmap BY <2>1, <3>2
  <3>4. Matches(entry[f], node[f])' BY <1>2, <2>1 DEF Matches
  <3> QED BY <1>2, <2>2, <3>1, <3>3, <3>4 DEF Saved
 <2> QED BY <2>2, <2>4, <2>5, <2>6, <2>7, <2>8 DEF Content
<1> QED BY <1>4, <1>5

\* What a mount finds is what the nodes were.
LEMMA MountContent == ASSUME NEW ch, NEW own, Typed, Layout(ch, own), Content(ch, own), Mount PROVE Content(ch, own)'
<1>1. Doing("unmounted") /\ ~failed BY DEF Mount
<1>2. /\ file = NoFile
      /\ \A f \in Files : Quiet(f, ch, own)
      /\ \A f \in Linked : ~node[f].dirty /\ Matches(entry[f], node[f]) BY <1>1, AllFlushed
<1>3. \A f \in Files : entry[f].there => CheckNode(entry[f]) BY DEF Layout, Readable
<1>4. /\ node' = [f \in Files |-> NodeOf(entry[f])] /\ Continue(<<>>)
      /\ UNCHANGED <<fat, bitmap, entry, data, want, safe>> BY <1>3 DEF Mount, disk, History
<1>5. file' = NoFile BY <1>4, Ends
<1>6. \A f, i : ~Coming(f, i) /\ ~Done(f, i) BY <1>1 DEF Coming, Done, Writing, Doing, Now
<1>7. ASSUME NEW f \in Files
      PROVE  /\ node'[f].state = "linked" <=> f \in Linked
             /\ f \in Linked => /\ node'[f].size = node[f].size /\ node'[f].valid = entry[f].valid
                                /\ node'[f].start = node[f].start
                                /\ entry[f].valid <= node[f].valid
                                /\ \A i \in Nat : entry[f].valid <= i /\ i < node[f].valid => want[f][i + 1] = Anything
 <2>1. node'[f] = NodeOf(entry[f]) /\ (entry[f].there <=> f \in Linked) BY <1>2, <1>4 DEF Quiet, Booked, Listing, Linked
 <2>2. CASE f \in Linked
  <3>1. Recorded(f) /\ ~node[f].dirty /\ Matches(entry[f], node[f]) BY <1>2, <2>2 DEF Content
  <3>2. /\ entry[f].valid <= node[f].valid
        /\ \A i \in Nat : entry[f].valid <= i /\ i < node[f].valid => want[f][i + 1] = Anything
   BY <1>6, <2>1, <2>2, <3>1 DEF Recorded
  <3>3. node'[f].state = "linked" /\ node'[f].start = entry[f].start /\ node'[f].size = entry[f].size /\ node'[f].valid = entry[f].valid
   BY <2>1, <2>2, NodeOfIs
  <3> QED BY <2>2, <3>1, <3>2, <3>3 DEF Matches
 <2>3. CASE f \notin Linked
  <3>1. node'[f].state = "none" BY <2>1, <2>3, NodeOfIs
  <3> QED BY <2>3, <3>1
 <2> QED BY <2>2, <2>3
<1>8. Linked' = Linked /\ Linked \subseteq Files BY <1>7 DEF Linked
<1>9. \A f \in Files : Wanted(f)' BY <1>4, <1>7 DEF Content, Wanted, Linked
<1>10. ASSUME NEW f \in Linked PROVE Stored(f, ch, own)' /\ Unwritten(f)' /\ Recorded(f)'
 <2>1. Stored(f, ch, own) /\ Unwritten(f) /\ f \in Files BY <1>8 DEF Content
 <2>2. /\ node'[f].size = node[f].size /\ node'[f].valid = entry[f].valid /\ entry[f].valid <= node[f].valid
       /\ \A i \in Nat : entry[f].valid <= i /\ i < node[f].valid => want[f][i + 1] = Anything BY <1>7, <2>1
 <2>3. /\ \A i \in own[f] : i \in Nat
       /\ node[f].valid \in Nat /\ entry[f].valid \in Nat /\ node[f].size \in Nat BY <2>1, NodeFacts DEF Layout, Typed
 <2>4. Stored(f, ch, own)'
  <3> SUFFICES ASSUME NEW i \in own[f], i < entry[f].valid PROVE Value(data[ch[f][i]], f, i) \in want[f][i + 1]
   BY <1>4, <2>2 DEF Stored
  <3>1. i < node[f].valid BY <2>2, <2>3
  <3> QED BY <2>1, <3>1 DEF Stored
 <2>5. Unwritten(f)'
  <3> SUFFICES ASSUME NEW i \in Nat, entry[f].valid <= i, i < node[f].size PROVE want[f][i + 1] = Anything
   BY <1>4, <2>2 DEF Unwritten
  <3>1. CASE i < node[f].valid BY <2>2, <3>1
  <3>2. CASE node[f].valid <= i BY <1>6, <2>1, <3>2 DEF Unwritten
  <3> QED BY <2>3, <3>1, <3>2
 <2>6. Recorded(f)' BY <1>4, <2>2, <2>3 DEF Recorded
 <2> QED BY <2>4, <2>5, <2>6
<1>11. ASSUME NEW f \in safe PROVE Saved(f, ch)'
 <2>1. Saved(f, ch) /\ f \in Files /\ f \in Linked BY DEF Content, Saved, Typed
 <2>2. node'[f].size = node[f].size /\ node'[f].start = node[f].start BY <1>7, <2>1
 <2>3. node'[f].contiguous = entry[f].contiguous
  <3>1. entry[f].there BY <1>2, <2>1 DEF Quiet, Booked, Listing, Linked
  <3> QED BY <1>4, <2>1, <3>1, NodeOfIs
 <2>4. Matches(entry[f], node[f])' BY <1>4, <2>1, <2>2, <2>3 DEF Saved, Matches
 <2>5. f # NoFile BY <2>1, VolumeAssumption
 <2> QED BY <1>4, <1>5, <1>8, <2>1, <2>2, <2>4, <2>5 DEF Saved
<1> QED BY <1>4, <1>8, <1>9, <1>10, <1>11 DEF Content

\* An entry is written.
LEMMA EntryContent == ASSUME NEW ch, NEW own, Typed, Layout(ch, own), Content(ch, own), DeviceWrites, Doing("entry")
    PROVE  Content(ch, own)'
<1>1. todo # <<>> BY DEF Doing
<1>2. PICK x, e : x = Now.f /\ e = Now.e OBVIOUS
<1>3. UNCHANGED <<node, bitmap, data, want>> /\ entry' = [entry EXCEPT ![x] = e] BY <1>2 DEF DeviceWrites, Doing, Memory
<1>4. safe' = safe /\ file' \in {file, NoFile} BY <1>1, WriteGoes, SameFile
<1>5. \A f, i : ~Coming(f, i) /\ ~Done(f, i) BY DEF Coming, Done, Writing, Doing, Now
<1>6. Flushing(Now, Tail(todo)) \/ AtEntry(Now, Tail(todo), ch, own) BY <1>1, AtWhich DEF Layout
<1>7. Now.k = "entry" BY DEF Doing, Now
<1>8. x \in Files /\ file \in {x, NoFile} BY <1>2, <1>6, <1>7 DEF Flushing, Linked, AtEntry
<1>9. DOMAIN entry = Files /\ OnlyNode(x) BY <1>3, KeptNode DEF Typed
<1>10. entry'[x] = e /\ \A g \in Files : g # x => want'[g] = want[g] /\ entry'[g] = entry[g] BY <1>3, <1>8, <1>9
<1>11. Wanted(x)' BY <1>3, <1>8 DEF Content, Wanted
<1>12. node'[x].state = "linked" => Stored(x, ch, own)' /\ Unwritten(x)'
 <2> SUFFICES ASSUME node'[x].state = "linked" PROVE Stored(x, ch, own)' /\ Unwritten(x)' OBVIOUS
 <2>1. Stored(x, ch, own) /\ Unwritten(x) BY <1>3, <1>8 DEF Content, Linked
 <2> QED BY <1>3, <1>5, <2>1 DEF Stored, Unwritten
<1>13. CASE Flushing(Now, Tail(todo))
 <2>1. file = NoFile /\ x \in Linked /\ e = EntryOf(node[x]) BY <1>2, <1>7, <1>13 DEF Flushing
 <2>2. Settled(x, ch, own) /\ x # file BY <1>8, <2>1, VolumeAssumption DEF Layout, Quiet
 <2>3. Matches(EntryOf(node[x]), node[x]) BY <1>8, <2>2, EntryOfIs DEF Layout
 <2>4. EntryOf(node[x]).valid = node[x].valid /\ node[x].valid \in Nat BY <1>8, NodeFacts DEF EntryOf
 <2>5. Matches(entry[x], node[x])' /\ entry'[x].valid = node'[x].valid BY <1>3, <1>10, <2>1, <2>3, <2>4 DEF Matches
 <2>6. Recorded(x)' BY <1>3, <2>4, <2>5 DEF Recorded
 <2>7. x \in safe => Saved(x, ch)'
  <3> SUFFICES ASSUME x \in safe PROVE Saved(x, ch)' OBVIOUS
  <3>1. Saved(x, ch) BY DEF Content
  <3>2. x \in Linked' /\ x # file' BY <1>3, <1>4, <1>8, <2>1, <2>2 DEF Linked
  <3> QED BY <1>3, <2>5, <3>1, <3>2 DEF Saved
 <2> QED BY <1>3, <1>4, <1>8, <1>9, <1>10, <1>11, <1>12, <2>6, <2>7, FileStep
<1>14. CASE AtEntry(Now, Tail(todo), ch, own)
 <2>1. file = x /\ (node[x].state = "none" \/ e = NoEntry) BY <1>2, <1>14 DEF AtEntry, Nd
 <2>2. x \notin safe BY <2>1 DEF Content, Saved
 <2>3. node'[x].state = "linked" => Recorded(x)'
  <3> SUFFICES ASSUME node'[x].state = "linked" PROVE Recorded(x)' OBVIOUS
  <3>1. e = NoEntry BY <1>3, <2>1
  <3>2. ~entry'[x].there BY <1>10, <3>1, PlainEntries
  <3> QED BY <3>2 DEF Recorded
 <2> QED BY <1>3, <1>4, <1>8, <1>9, <1>10, <1>11, <1>12, <2>2, <2>3, FileStep
<1> QED BY <1>6, <1>13, <1>14

\* A cluster behind the valid ones is erased.
LEMMA EraseContent == ASSUME NEW ch, NEW own, Typed, Layout(ch, own), Content(ch, own), DeviceWrites, Doing("erase")
    PROVE  Content(ch, own)'
<1>1. todo # <<>> /\ Now.k = "erase" BY DEF Doing, Now
<1>2. PICK x, c : x = file /\ c = Now.c OBVIOUS
<1>3. UNCHANGED <<node, bitmap, entry, want>> /\ data' = [data EXCEPT ![c] = Zero]
 BY <1>1, <1>2 DEF DeviceWrites, Doing, Now, Memory
<1>4. safe' = safe /\ file' \in {file, NoFile} BY <1>1, WriteGoes, SameFile
<1>5. Erasing(todo, ch, own) BY <1>1, AtWhich DEF Layout, Doing, Now
<1>6. PICK to, p \in 0..MaxSize : \E r :
       /\ file \in Files
       /\ p <= to /\ Nd.valid <= p
       /\ Sized(file, ch, own, to)
       /\ Rest(r, to)
       /\ todo = Erases(ch[file], p, to) \o (<<Sizing(to, TRUE)>> \o r) BY <1>5 DEF Erasing
<1>7. PICK r :
       /\ x \in Files
       /\ p <= to /\ node[x].valid <= p
       /\ own[x] = 0..to - 1
       /\ Rest(r, to)
       /\ todo = Erases(ch[x], p, to) \o (<<Sizing(to, TRUE)>> \o r) BY <1>2, <1>6 DEF Nd, Sized
<1>8. MaxSize \in Nat /\ node[x].valid \in Nat /\ to \in Nat /\ p \in Nat /\ Listed(r) BY <1>7, NodeFacts, RestListed
<1>9. PICK y, w, s : y = Sizing(to, TRUE) /\ w = <<y>> \o r /\ s = ch[x] OBVIOUS
<1>10. y.k = "setSize" /\ Listed(w) BY <1>8, <1>9, InFront DEF Sizing
<1>11. p < to
 <2>1. CASE p = to
  <3>1. Leads(Erases(s, to, to) \o (<<y>> \o r), y, r) BY <1>8, <1>10, EraseLast
  <3>2. Head(todo) = y BY <1>7, <1>9, <2>1, <3>1 DEF Leads
  <3> QED BY <1>1, <1>10, <3>2 DEF Now
 <2> QED BY <1>7, <1>8, <2>1
<1>12. c = s[p] /\ p \in own[x]
 <2>1. Leads(Erases(s, p, to) \o w, [k |-> "erase", c |-> s[p]], Erases(s, p + 1, to) \o w) BY <1>8, <1>10, <1>11, EraseMore
 <2>2. Now = [k |-> "erase", c |-> s[p]] BY <1>7, <1>9, <2>1 DEF Leads, Now
 <2> QED BY <1>2, <1>7, <1>8, <1>11, <2>2
<1>13. /\ \A f \in Files : \A i \in own[f] : ch[f][i] \in Clusters
       /\ \A f, g \in Files : \A i \in own[f], j \in own[g] : ch[f][i] = ch[g][j] => f = g /\ i = j BY DEF Layout, Owned, Typed
<1>14. ASSUME NEW g \in Files, NEW i \in own[g], g # x \/ i # p PROVE data'[ch[g][i]] = data[ch[g][i]]
 <2>1. ch[g][i] # s[p] /\ ch[g][i] \in Clusters
  <3>1. x \in Files /\ p \in own[x] /\ s = ch[x] BY <1>7, <1>9, <1>12
  <3>2. ch[g][i] = ch[x][p] => g = x /\ i = p BY <1>13, <3>1
  <3>3. ch[g][i] \in Clusters BY <1>13
  <3> QED BY <1>14, <3>1, <3>2, <3>3
 <2> QED BY <1>3, <1>12, <2>1 DEF Typed
<1>15. x \notin safe /\ OnlyNode(x) BY <1>2, <1>3, KeptNode DEF Content, Saved
<1>16. Wanted(x)' BY <1>3, <1>7 DEF Content, Wanted
<1>17. \A f, i : ~Coming(f, i) /\ ~Done(f, i) BY <1>1 DEF Coming, Done, Writing
<1>18. node'[x].state = "linked" => Stored(x, ch, own)' /\ Unwritten(x)' /\ Recorded(x)'
 <2> SUFFICES ASSUME node'[x].state = "linked" PROVE Stored(x, ch, own)' /\ Unwritten(x)' /\ Recorded(x)' OBVIOUS
 <2>1. Stored(x, ch, own) /\ Unwritten(x) /\ Recorded(x) BY <1>3, <1>7 DEF Content, Linked
 <2>2. Stored(x, ch, own)'
  <3> SUFFICES ASSUME NEW i \in own[x], i < node[x].valid PROVE Value(data'[ch[x][i]], x, i) \in want[x][i + 1] BY <1>3 DEF Stored
  <3>1. i # p BY <1>7, <1>8
  <3>2. data'[ch[x][i]] = data[ch[x][i]] BY <1>7, <1>14, <3>1
  <3> QED BY <2>1, <3>2 DEF Stored
 <2>3. Unwritten(x)' /\ Recorded(x)' BY <1>3, <1>4, <1>17, <2>1 DEF Unwritten, Recorded
 <2> QED BY <2>2, <2>3
<1> QED BY <1>2, <1>3, <1>4, <1>7, <1>14, <1>15, <1>16, <1>18, FileStep

\* A sequence given by its places.
LEMMA LenMade == ASSUME NEW S, NEW w \in Seq(S), NEW n \in Nat, DOMAIN w = 1..n PROVE Len(w) = n
<1>1. Len(w) \in Nat /\ DOMAIN w = 1..Len(w) BY LenProperties
<1>2. 1..Len(w) = 1..n BY <1>1
<1> QED BY <1>1, <1>2

\* What a cluster may hold of a place is its own data, a zero or something else.
LEMMA ValueAnything == \A d, f, i : Value(d, f, i) \in Anything BY DEF Value, Anything

\* What the history says after a change of size.
WantsSized(x, to, z) ==
    /\ Len(want'[x]) = to
    /\ \A g \in Files : g # x => want'[g] = want[g]
    /\ \A i \in Nat : i < to => want'[x][i + 1] = IF i < z THEN want[x][i + 1] ELSE {"zero"}

\* Cutting off the history of a file, or filling it up with zeros, place by place.
LEMMA SizedWants == ASSUME Typed, Typed', NEW x \in Files, NEW to \in Nat, NEW z \in Nat, Len(want[x]) = z,
           want' = [want EXCEPT ![x] = [i \in 1..to |-> IF i <= Len(@) THEN @[i] ELSE {"zero"}]] PROVE WantsSized(x, to, z)
<1>1. PICK w : w = want[x] OBVIOUS
<1>2. PICK v : v = [i \in 1..to |-> IF i <= z THEN w[i] ELSE {"zero"}] OBVIOUS
<1>3. DOMAIN want = Files /\ want' = [want EXCEPT ![x] = v] BY <1>1, <1>2 DEF Typed
<1>4. want'[x] = v /\ \A g \in Files : g # x => want'[g] = want[g] BY <1>3
<1>5. Len(v) = to
 <2>1. v \in Seq(SUBSET Anything) BY <1>4 DEF Typed
 <2> QED BY <1>2, <2>1, LenMade
<1>6. ASSUME NEW i \in Nat, i < to PROVE v[i + 1] = IF i < z THEN w[i + 1] ELSE {"zero"}
 <2>1. i + 1 \in 1..to /\ (i + 1 <= z <=> i < z) BY <1>6
 <2> QED BY <1>2, <2>1
<1> QED BY <1>1, <1>4, <1>5, <1>6 DEF WantsSized

\* The size of the file is set, and what is erased is valid.
LEMMA SetSizeContent == ASSUME Lengths \subseteq {0}, NEW ch, NEW own, Typed, Layout(ch, own), Content(ch, own), SetSize
    PROVE  Content(ch, own)'
<1>1. Doing("setSize") /\ todo # <<>> /\ Now.k = "setSize" BY DEF SetSize, Doing, Now
<1>2. AtSetSize(Now, Tail(todo), ch, own) BY <1>1, AtWhich DEF Layout
<1>3. PICK x, t, to, e, z, v : x = file /\ t = Tail(todo) /\ to = Now.to /\ e = Now.erase /\ z = node[x].size /\ v = node[x].valid
 OBVIOUS
<1>4. /\ x \in Files /\ own[x] = 0..to - 1 /\ to \in 0..MaxSize /\ Rest(t, to)
      /\ (e => Zeros(ch, to)) /\ (~e => Fit(t, to)) BY <1>2, <1>3 DEF AtSetSize, Sized
<1>5. /\ IsNode(node[x]) /\ z \in Nat /\ v \in Nat /\ v <= z /\ MaxSize \in Nat /\ to \in Nat
 <2>1. IsNode(node[x]) /\ z \in Nat /\ v \in Nat /\ MaxSize \in Nat BY <1>3, <1>4, NodeFacts
 <2>2. v \in 0..z BY <1>3, <2>1 DEF IsNode
 <2> QED BY <1>4, <2>1, <2>2
<1>6. UNCHANGED <<bitmap, entry, data, safe>> BY DEF SetSize, disk
<1>7. Typed' /\ Layout(ch, own)' BY SetSizeStep
<1>8. OnlyNode(x) /\ node'[x] = Resized(node[x], to, e)
 <2>1. SetNode(Resized(Nd, Now.to, Now.erase)) BY DEF SetSize
 <2> QED BY <1>3, <1>4, <2>1, SetNodeIs DEF Nd
<1>9. node'[x].size = to /\ node'[x].state = node[x].state /\ node'[x].valid = IF e THEN to ELSE Least(v, to)
 <2>1. node'[x].size = to /\ node'[x].state = node[x].state BY <1>4, <1>5, <1>8, ResizedIs
 <2>2. node'[x].valid = IF e THEN to ELSE Least(v, to) BY <1>3, <1>5, <1>8 DEF Resized, IsNode
 <2> QED BY <2>1, <2>2
<1>10. node'[x].dirty BY <1>4, <1>5, <1>8, ResizedIs
<1>11. x \notin safe /\ file \in {x, NoFile} /\ file' \in {file, NoFile} BY <1>3, SameFile DEF Content, Saved, SetSize
<1>12. Continue(t) BY <1>3, <1>4, RestListed, ConcatNil DEF SetSize, Goto
<1>13. want' = [want EXCEPT ![x] = [i \in 1..to |-> IF i <= Len(@) THEN @[i] ELSE {"zero"}]] BY <1>3 DEF SetSize
<1>14. Recorded(x)' BY <1>6, <1>10, <1>11 DEF Recorded
<1>15. Wanted(x) BY <1>4 DEF Content
<1>16. CASE node[x].state # "linked"
 <2>1. to = 0 BY <1>3, <1>4, <1>16 DEF Rest, Nd
 <2>2. Len(want[x]) = 0 BY <1>15, <1>16 DEF Wanted
 <2>3. Len(want'[x]) = to /\ \A g \in Files : g # x => want'[g] = want[g]
  <3>1. x \in Files /\ to \in Nat /\ 0 \in Nat /\ Typed' BY <1>4, <1>5, <1>7
  <3>2. WantsSized(x, to, 0) BY <3>1, <1>13, <2>2, SizedWants
  <3> QED BY <3>2 DEF WantsSized
 <2>4. Wanted(x)' BY <1>9, <1>16, <2>1, <2>3 DEF Wanted
 <2> QED BY <1>4, <1>6, <1>8, <1>9, <1>11, <1>16, <2>3, <2>4, FileStep
<1>17. CASE node[x].state = "linked"
 <2>1. Len(want[x]) = z BY <1>3, <1>15, <1>17 DEF Wanted
 <2>2. /\ Len(want'[x]) = to /\ \A g \in Files : g # x => want'[g] = want[g]
       /\ \A i \in Nat : i < to => want'[x][i + 1] = IF i < z THEN want[x][i + 1] ELSE {"zero"}
  <3>1. WantsSized(x, to, z) BY <1>4, <1>5, <1>7, <1>13, <2>1, SizedWants
  <3> QED BY <3>1 DEF WantsSized
 <2>3. Wanted(x)' BY <1>9, <1>17, <2>2 DEF Wanted
 <2>4. Stored(x, ch, own) /\ Unwritten(x) /\ \A i : ~Coming(x, i) BY <1>1, <1>4, <1>17 DEF Content, Linked, Coming, Writing
 <2>5. \A i \in Nat : v <= i /\ i < z => want[x][i + 1] = Anything BY <1>3, <2>4 DEF Unwritten
 <2>6. Stored(x, ch, own)'
  <3> SUFFICES ASSUME NEW i \in own[x], i < node'[x].valid PROVE Value(data[ch[x][i]], x, i) \in want'[x][i + 1]
   BY <1>6 DEF Stored
  <3>1. i \in Nat /\ i < to BY <1>4, <1>5
  <3>2. CASE i < v
   <4>1. Value(data[ch[x][i]], x, i) \in want[x][i + 1] BY <1>3, <2>4, <3>2 DEF Stored
   <4>2. want'[x][i + 1] = want[x][i + 1] BY <1>5, <2>2, <3>1, <3>2
   <4> QED BY <4>1, <4>2
  <3>3. CASE v <= i
   <4>1. e
    <5> SUFFICES ASSUME ~e PROVE FALSE OBVIOUS
    <5>1. i < Least(v, to) BY <1>9
    <5> QED BY <1>5, <3>1, <3>3, <5>1 DEF Least
   <4>2. data[ch[x][i]] = Zero BY <1>3, <1>4, <3>1, <3>3, <4>1 DEF Zeros, Nd
   <4>3. Zero # <<x, i>> BY <1>4, <3>1, VolumeAssumption
   <4>4. Value(data[ch[x][i]], x, i) = "zero" BY <4>2, <4>3 DEF Value
   <4>5. "zero" \in want'[x][i + 1] BY <1>5, <2>2, <2>5, <3>1, <3>3 DEF Anything
   <4> QED BY <4>4, <4>5
  <3> QED BY <1>5, <3>1, <3>2, <3>3
 <2>7. Unwritten(x)'
  <3> SUFFICES ASSUME NEW i \in Nat, node'[x].valid <= i, i < to PROVE want'[x][i + 1] = Anything \/ Coming(x, i)'
   BY <1>9 DEF Unwritten
  <3>1. ~e BY <1>5, <1>9
  <3>2. v <= i
   <4>1. Least(v, to) <= i BY <1>9, <3>1
   <4> QED BY <1>5, <4>1 DEF Least
  <3>3. CASE i < z BY <2>2, <2>5, <3>2, <3>3
  <3>4. CASE ~(i < z)
   <4>1. Fit(t, to) /\ to # 0 BY <1>4, <1>5, <3>1
   <4>2. PICK a, m \in Nat : t = <<Locating(a, m)>> /\ a + m = to /\ a <= z BY <1>3, <4>1 DEF Fit, Nd
   <4>3. PICK l : l = Locating(a, m) OBVIOUS
   <4>4. l.k = "locate" /\ l.i = a /\ l.n = m BY <4>3 DEF Locating
   <4>5. todo' # <<>> /\ Now' = l /\ file' = file
    <5>1. Continue(<<l>>) /\ l.k # "catch" BY <1>12, <4>2, <4>3, <4>4
    <5> QED BY <5>1, GoesOnOne
   <4>6. Writing' /\ Until' = a + m BY <4>4, <4>5 DEF Writing, Until
   <4>7. a <= i /\ i < a + m BY <1>5, <3>4, <4>2
   <4> QED BY <1>3, <4>4, <4>5, <4>6, <4>7 DEF Coming
  <3> QED BY <3>3, <3>4
 <2> QED BY <1>4, <1>6, <1>8, <1>11, <1>14, <2>2, <2>3, <2>6, <2>7, FileStep
<1> QED BY <1>16, <1>17

\* What the history says once some places of a file are marked.
WantsMarked(x, T, A) ==
    /\ Len(want'[x]) = Len(want[x])
    /\ \A g \in Files : g # x => want'[g] = want[g]
    /\ \A j \in Nat : j < Len(want[x]) => want'[x][j + 1] = IF j + 1 \in T THEN A ELSE want[x][j + 1]

\* Marking places in the history of a file, place by place.
LEMMA MarkedWants == ASSUME Typed, NEW x \in Files, NEW T, NEW A, Typed',
           want' = [want EXCEPT ![x] = [j \in DOMAIN @ |-> IF j \in T THEN A ELSE @[j]]] PROVE WantsMarked(x, T, A)
<1>1. PICK w : w = want[x] OBVIOUS
<1>2. PICK v : v = [j \in DOMAIN w |-> IF j \in T THEN A ELSE w[j]] OBVIOUS
<1>3. DOMAIN want = Files /\ want' = [want EXCEPT ![x] = v] BY <1>1, <1>2 DEF Typed
<1>4. want'[x] = v /\ \A g \in Files : g # x => want'[g] = want[g] BY <1>3
<1>5. w \in Seq(SUBSET Anything) /\ v \in Seq(SUBSET Anything) BY <1>1, <1>4 DEF Typed
<1>6. Len(w) \in Nat /\ DOMAIN w = 1..Len(w) BY <1>5, LenProperties
<1>7. Len(v) = Len(w)
 <2>1. DOMAIN v = 1..Len(w) BY <1>2, <1>6
 <2> QED BY <1>5, <1>6, <2>1, LenMade
<1>8. ASSUME NEW j \in Nat, j < Len(w) PROVE v[j + 1] = IF j + 1 \in T THEN A ELSE w[j + 1]
 <2>1. j + 1 \in DOMAIN w BY <1>6, <1>8
 <2> QED BY <1>2, <2>1
<1> QED BY <1>1, <1>4, <1>7, <1>8 DEF WantsMarked

\* A write of data reaches the places it is for and no others.
LEMMA DataPlaces ==
    ASSUME NEW ch, NEW own, Typed, Layout(ch, own), Doing("data"), NEW m \in 0..Now.n, NEW g \in Files, NEW p \in own[g]
    PROVE  Written(m)[ch[g][p]] = IF g = file /\ Now.i <= p /\ p < Now.i + m THEN <<file, p>> ELSE data[ch[g][p]]
<1>1. todo # <<>> /\ Now.k = "data" BY DEF Doing, Now
<1>2. AtData(Now, Tail(todo), ch, own) BY <1>1, AtWhich DEF Layout
<1>3. PICK x, i, n, c, s, z, q : x = file /\ i = Now.i /\ n = Now.n /\ c = Now.c /\ s = ch[x] /\ z = node[x].size /\ q = ch[g][p]
 OBVIOUS
<1>4. PICK w : w = Head(Tail(todo)) OBVIOUS
<1>5. /\ x \in Files /\ Quiet(x, ch, own) /\ i \in Nat /\ n \in Nat /\ c \in Nat
      /\ \A j \in 0..n - 1 : s[i + j] = c + j
      /\ w.i = i + n /\ w.n \in Nat /\ w.i + w.n <= z BY <1>2, <1>3, <1>4 DEF AtData, IsWrite, Nd
<1>6. own[x] = 0..z - 1 /\ z \in Nat BY <1>3, <1>5, NodeFacts DEF Quiet, Settled, Sized
<1>7. q \in Clusters /\ q \in Nat /\ p \in Nat
 <2>1. q \in Clusters BY <1>3 DEF Layout, Owned, Typed
 <2>2. Clusters \subseteq Nat /\ own[g] \subseteq Nat BY ClusterNums DEF Layout
 <2> QED BY <2>1, <2>2
<1>8. m \in Nat /\ m <= n /\ i + n <= z
 <2>1. m \in 0..n BY <1>3
 <2> QED BY <1>5, <1>6, <2>1
<1>9. Written(m)[q] = IF q \in c..c + m - 1 THEN <<x, i + (q - c)>> ELSE data[q] BY <1>3, <1>7 DEF Written
<1>10. CASE g = x /\ i <= p /\ p < i + m
 <2>1. p - i \in 0..n - 1 /\ i + (p - i) = p BY <1>5, <1>7, <1>8, <1>10
 <2>2. s[i + (p - i)] = c + (p - i) BY <1>5, <2>1
 <2>3. q = c + (p - i) BY <1>3, <1>10, <2>1, <2>2
 <2>4. q \in c..c + m - 1 /\ i + (q - c) = p BY <1>5, <1>7, <1>8, <1>10, <2>3
 <2> QED BY <1>3, <1>9, <1>10, <2>4
<1>11. CASE ~(g = x /\ i <= p /\ p < i + m)
 <2>1. q \notin c..c + m - 1
  <3> SUFFICES ASSUME q \in c..c + m - 1 PROVE FALSE OBVIOUS
  <3>1. PICK j \in 0..n - 1 : q = c + j /\ j < m
   <4>1. q - c \in 0..n - 1 /\ q = c + (q - c) /\ q - c < m BY <1>5, <1>7, <1>8
   <4> QED BY <4>1
  <3>2. s[i + j] = q BY <1>5, <3>1
  <3>3. i + j \in own[x] /\ j \in Nat /\ i <= i + j /\ i + j < i + m BY <1>5, <1>6, <1>8, <3>1
  <3>4. ch[x][i + j] = ch[g][p] BY <1>3, <3>2
  <3>5. g = x /\ p = i + j BY <1>5, <3>3, <3>4 DEF Layout, Owned
  <3> QED BY <1>11, <3>3, <3>5
 <2> QED BY <1>3, <1>9, <1>11, <2>1
<1> QED BY <1>10, <1>11

\* Data is written.
LEMMA DataContent == ASSUME NEW ch, NEW own, Typed, Layout(ch, own), Content(ch, own), DeviceWrites, Doing("data")
    PROVE  Content(ch, own)'
<1>1. PICK x, i, n, fr, z, v, w : /\ x = file /\ i = Now.i /\ n = Now.n /\ fr = Now.from
                                  /\ z = node[x].size /\ v = node[x].valid /\ w = Head(Tail(todo)) OBVIOUS
<1>2. todo # <<>> /\ Now.k = "data" BY DEF Doing, Now
<1>3. AtData(Now, Tail(todo), ch, own) BY <1>2, AtWhich DEF Layout
<1>4. /\ x \in Files /\ Quiet(x, ch, own) /\ node[x].state = "linked" /\ i \in Nat /\ n \in Nat \ {0} /\ fr \in 0..i
      /\ Tail(todo) # <<>> /\ Tail(Tail(todo)) = <<>>
      /\ w.i = i + n /\ w.from = fr /\ w.k = "write" /\ w.n \in Nat /\ w.i + w.n <= z BY <1>1, <1>3 DEF AtData, IsWrite, Nd
<1>5. /\ own[x] = 0..z - 1 /\ z \in Nat /\ v \in Nat /\ v <= z /\ IsNode(node[x])
 <2>1. own[x] = 0..z - 1 /\ z \in Nat /\ IsNode(node[x]) BY <1>1, <1>4, NodeFacts DEF Quiet, Settled, Sized
 <2>2. v \in 0..z BY <1>1, <2>1 DEF IsNode
 <2> QED BY <2>1, <2>2
<1>6. Typed' /\ Layout(ch, own)' BY DataStep
<1>7. /\ UNCHANGED <<bitmap, entry, safe>> /\ SetNode([Nd EXCEPT !.valid = Max({@, Now.i + Now.n})])
      /\ data' = Written(n)
      /\ want' = [want EXCEPT ![x] = [j \in DOMAIN @ |-> IF j - 1 \in Places THEN {"own"} ELSE @[j]]]
 BY <1>1 DEF DeviceWrites, Doing
<1>8. PICK u : u = Max({v, i + n}) OBVIOUS
<1>9. u \in Nat /\ v <= u /\ i + n <= u /\ (u = v \/ u = i + n) /\ u <= z
 <2>1. {v, i + n} \subseteq 0..z /\ {v, i + n} # {} BY <1>4, <1>5
 <2>2. u \in {v, i + n} /\ \A y \in {v, i + n} : u >= y BY <1>5, <1>8, <2>1, MaxIs
 <2> QED BY <1>4, <1>5, <2>1, <2>2
<1>10. OnlyNode(x) /\ node'[x] = [node[x] EXCEPT !.valid = u]
 <2>1. SetNode([node[x] EXCEPT !.valid = u]) BY <1>1, <1>7, <1>8 DEF Nd
 <2> QED BY <1>1, <1>4, <2>1, SetNodeIs
<1>11. node'[x].state = "linked" /\ node'[x].size = z /\ node'[x].valid = u BY <1>1, <1>4, <1>5, <1>10 DEF IsNode
<1>12. node'[x].dirty = node[x].dirty BY <1>5, <1>10 DEF IsNode
<1>13. todo' # <<>> /\ Now' = w /\ file' = file
 <2>1. Continue(Tail(todo)) /\ Listed(Tail(todo)) BY <1>2, WriteGoes, InCall
 <2>2. Tail(todo) = <<w>> \o <<>> BY <1>1, <1>4, <2>1, HeadFirst
 <2> QED BY <1>4, <2>1, <2>2, GoesOn, ListedNil
<1>14. x \notin safe /\ file' \in {file, NoFile} /\ file \in {x, NoFile} BY <1>1, <1>13 DEF Content, Saved
<1>15. Wanted(x) /\ Stored(x, ch, own) /\ Unwritten(x) /\ Recorded(x) BY <1>4 DEF Content, Linked
<1>16. Len(want[x]) = z BY <1>1, <1>4, <1>15 DEF Wanted
<1>17. /\ Len(want'[x]) = z /\ \A g \in Files : g # x => want'[g] = want[g]
       /\ \A j \in Nat : j < z => want'[x][j + 1] = IF i <= j /\ j < i + n THEN {"own"} ELSE want[x][j + 1]
 <2>1. PICK A, P, T : A = {"own"} /\ P = i..i + n - 1 /\ T = {j \in DOMAIN want[x] : j - 1 \in P} OBVIOUS
 <2>2. want' = [want EXCEPT ![x] = [j \in DOMAIN @ |-> IF j \in T THEN A ELSE @[j]]] BY <1>1, <1>7, <2>1 DEF Places
 <2>3. WantsMarked(x, T, A) BY <1>4, <1>6, <2>2, MarkedWants
 <2>4. DOMAIN want[x] = 1..z
  <3>1. want[x] \in Seq(SUBSET Anything) BY <1>4 DEF Typed
  <3> QED BY <1>16, <3>1, LenProperties
 <2>5. \A j \in Nat : j < z => (j + 1 \in T <=> i <= j /\ j < i + n) BY <1>4, <1>5, <2>1, <2>4
 <2> QED BY <1>16, <2>1, <2>3, <2>5 DEF WantsMarked
<1>18. \A g \in Files : \A p \in own[g] : data'[ch[g][p]] = IF g = x /\ i <= p /\ p < i + n THEN <<x, p>> ELSE data[ch[g][p]]
 <2>1. n \in 0..Now.n BY <1>1, <1>4
 <2> QED BY <1>1, <1>7, <2>1, DataPlaces
<1>19. \A g \in Files : g # x => \A p \in own[g] : data'[ch[g][p]] = data[ch[g][p]] BY <1>18
<1>20. Writing /\ Until = (i + n) + w.n /\ Writing' /\ Until' = (i + n) + w.n
 <2>1. Writing /\ Until = w.i + w.n BY <1>1, <1>2 DEF Writing, Until
 <2>2. Writing' /\ Until' = w.i + w.n BY <1>4, <1>13 DEF Writing, Until
 <2> QED BY <1>4, <2>1, <2>2
<1>21. /\ \A j \in Nat : Coming(x, j) <=> i <= j /\ j < (i + n) + w.n
       /\ \A j \in Nat : Coming(x, j)' <=> i + n <= j /\ j < (i + n) + w.n
       /\ \A j \in Nat : Done(x, j) <=> fr <= j /\ j < i
       /\ \A j \in Nat : Done(x, j)' <=> fr <= j /\ j < i + n BY <1>1, <1>2, <1>4, <1>13, <1>20 DEF Coming, Done
<1>22. \A j \in Nat : v <= j /\ j < z => want[x][j + 1] = Anything \/ (i <= j /\ j < (i + n) + w.n)
 BY <1>1, <1>15, <1>21 DEF Unwritten
<1>23. Wanted(x)' BY <1>11, <1>17 DEF Wanted
<1>24. Stored(x, ch, own)'
 <2> SUFFICES ASSUME NEW p \in own[x], p < u PROVE Value(data'[ch[x][p]], x, p) \in want'[x][p + 1] BY <1>11 DEF Stored
 <2>1. p \in Nat /\ p < z BY <1>5
 <2>2. CASE i <= p /\ p < i + n
  <3>1. data'[ch[x][p]] = <<x, p>> /\ want'[x][p + 1] = {"own"} BY <1>4, <1>17, <1>18, <2>1, <2>2
  <3> QED BY <3>1 DEF Value
 <2>3. CASE ~(i <= p /\ p < i + n)
  <3>1. data'[ch[x][p]] = data[ch[x][p]] /\ want'[x][p + 1] = want[x][p + 1] BY <1>4, <1>17, <1>18, <2>1, <2>3
  <3>2. CASE p < v BY <1>1, <1>15, <3>1, <3>2 DEF Stored
  <3>3. CASE v <= p
   <4>1. p < i BY <1>4, <1>5, <1>9, <2>1, <2>3, <3>3
   <4>2. want[x][p + 1] = Anything BY <1>4, <1>22, <2>1, <3>3, <4>1
   <4> QED BY <3>1, <4>2, ValueAnything
  <3> QED BY <1>5, <2>1, <3>2, <3>3
 <2> QED BY <2>2, <2>3
<1>25. Unwritten(x)'
 <2> SUFFICES ASSUME NEW j \in Nat, u <= j, j < z PROVE want'[x][j + 1] = Anything \/ Coming(x, j)' BY <1>11 DEF Unwritten
 <2>1. i + n <= j /\ v <= j /\ ~(j < i + n) BY <1>4, <1>5, <1>9
 <2>2. want'[x][j + 1] = want[x][j + 1] BY <1>17, <2>1
 <2> QED BY <1>21, <1>22, <2>1, <2>2
<1>26. Recorded(x)'
 <2> SUFFICES ASSUME entry[x].there, ~node[x].dirty
              PROVE  /\ entry[x].valid <= u
                     /\ \A j \in Nat : entry[x].valid <= j /\ j < u => want'[x][j + 1] = Anything \/ Done(x, j)'
  BY <1>7, <1>11, <1>12, <1>14 DEF Recorded
 <2>1. PICK e : e = entry[x].valid OBVIOUS
 <2>2. e \in Nat /\ e <= v /\ \A j \in Nat : e <= j /\ j < v => want[x][j + 1] = Anything \/ (fr <= j /\ j < i)
  BY <1>1, <1>4, <1>15, <1>21, <2>1 DEF Recorded, Typed
 <2>3. ASSUME NEW j \in Nat, e <= j, j < u PROVE want'[x][j + 1] = Anything \/ Done(x, j)'
  <3>1. CASE i <= j /\ j < i + n
   <4>1. fr <= j BY <1>4, <3>1
   <4> QED BY <1>21, <3>1, <4>1
  <3>2. CASE ~(i <= j /\ j < i + n)
   <4>1. j < z BY <1>5, <1>9, <2>3
   <4>2. want'[x][j + 1] = want[x][j + 1] BY <1>17, <3>2, <4>1
   <4>3. CASE j < v
    <5>1. want[x][j + 1] = Anything \/ (fr <= j /\ j < i) BY <2>2, <2>3, <4>3
    <5>2. j < i => j < i + n BY <1>4
    <5> QED BY <1>21, <4>2, <5>1, <5>2
   <4>4. CASE v <= j
    <5>1. j < i BY <1>4, <1>5, <1>9, <2>3, <3>2, <4>4
    <5>2. want[x][j + 1] = Anything BY <1>4, <1>22, <4>1, <4>4, <5>1
    <5> QED BY <4>2, <5>2
   <4> QED BY <1>5, <4>3, <4>4
  <3> QED BY <3>1, <3>2
 <2> QED BY <1>5, <1>9, <2>1, <2>2, <2>3
<1>27. \A g \in Files : g # x => want'[g] = want[g] /\ entry'[g] = entry[g] BY <1>7, <1>17
<1> QED BY <1>4, <1>7, <1>10, <1>14, <1>19, <1>23, <1>24, <1>25, <1>26, <1>27, FileStep

\* A write of data fails, its first clusters stored or not.
LEMMA DataFailContent == ASSUME NEW ch, NEW own, Typed, Layout(ch, own), Content(ch, own), DeviceFails, Doing("data")
    PROVE  Content(ch, own)'
<1>1. PICK x, i, n, fr, z, v : /\ x = file /\ i = Now.i /\ n = Now.n /\ fr = Now.from
                               /\ z = node[x].size /\ v = node[x].valid OBVIOUS
<1>2. todo # <<>> /\ Now.k = "data" BY DEF Doing, Now
<1>3. AtData(Now, Tail(todo), ch, own) BY <1>2, AtWhich DEF Layout
<1>4. x \in Files /\ Quiet(x, ch, own) /\ node[x].state = "linked" /\ i \in Nat /\ n \in Nat \ {0} /\ fr \in 0..i
 BY <1>1, <1>3 DEF AtData, Nd
<1>5. own[x] = 0..z - 1 /\ z \in Nat /\ v \in Nat /\ v <= z
 <2>1. own[x] = 0..z - 1 /\ z \in Nat /\ IsNode(node[x]) BY <1>1, <1>4, NodeFacts DEF Quiet, Settled, Sized
 <2>2. v \in 0..z BY <1>1, <2>1 DEF IsNode
 <2> QED BY <2>1, <2>2
<1>6. Typed' /\ Layout(ch, own)' BY DataFails
<1>7. UNCHANGED <<node, bitmap, entry, safe>> /\ OnlyNode(x) BY <1>4, KeptNode DEF DeviceFails, Memory
<1>8. PICK m \in 0..n : data' = Written(m) BY <1>1, <1>2 DEF DeviceFails
<1>9. want' = [want EXCEPT ![x] = [j \in DOMAIN @ |-> IF j - 1 \in fr..i + n - 1 \/ j > v THEN Anything ELSE @[j]]]
 BY <1>1, <1>2 DEF DeviceFails, Nd
<1>10. file' \in {file, NoFile} /\ x \notin safe /\ file \in {x, NoFile} BY <1>1, SameFile DEF Content, Saved, DeviceFails
<1>11. Wanted(x) /\ Stored(x, ch, own) /\ Unwritten(x) /\ Recorded(x) BY <1>4 DEF Content, Linked
<1>12. Len(want[x]) = z BY <1>1, <1>4, <1>11 DEF Wanted
<1>13. /\ Len(want'[x]) = z /\ \A g \in Files : g # x => want'[g] = want[g]
       /\ \A j \in Nat : j < z => want'[x][j + 1] = IF (fr <= j /\ j < i + n) \/ v <= j THEN Anything ELSE want[x][j + 1]
 <2>1. PICK A, P, T : A = Anything /\ P = fr..i + n - 1 /\ T = {j \in DOMAIN want[x] : j - 1 \in P \/ j > v} OBVIOUS
 <2>2. want' = [want EXCEPT ![x] = [j \in DOMAIN @ |-> IF j \in T THEN A ELSE @[j]]] BY <1>9, <2>1
 <2>3. WantsMarked(x, T, A) BY <1>4, <1>6, <2>2, MarkedWants
 <2>4. DOMAIN want[x] = 1..z
  <3>1. want[x] \in Seq(SUBSET Anything) BY <1>4 DEF Typed
  <3> QED BY <1>12, <3>1, LenProperties
 <2>5. \A j \in Nat : j < z => (j + 1 \in T <=> (fr <= j /\ j < i + n) \/ v <= j) BY <1>4, <1>5, <2>1, <2>4
 <2> QED BY <1>12, <2>1, <2>3, <2>5 DEF WantsMarked
<1>14. \A g \in Files : \A p \in own[g] : data'[ch[g][p]] = IF g = x /\ i <= p /\ p < i + m THEN <<x, p>> ELSE data[ch[g][p]]
 <2>1. m \in 0..Now.n BY <1>1
 <2> QED BY <1>1, <1>8, <2>1, DataPlaces
<1>15. \A g \in Files : g # x => \A p \in own[g] : data'[ch[g][p]] = data[ch[g][p]] BY <1>14
<1>16. Wanted(x)' BY <1>1, <1>4, <1>7, <1>13 DEF Wanted
<1>17. Stored(x, ch, own)'
 <2> SUFFICES ASSUME NEW p \in own[x], p < v PROVE Value(data'[ch[x][p]], x, p) \in want'[x][p + 1] BY <1>1, <1>7 DEF Stored
 <2>1. p \in Nat /\ p < z BY <1>5
 <2>2. CASE fr <= p /\ p < i + n
  <3>1. want'[x][p + 1] = Anything BY <1>13, <2>1, <2>2
  <3> QED BY <3>1, ValueAnything
 <2>3. CASE ~(fr <= p /\ p < i + n)
  <3>1. ~(i <= p /\ p < i + m) /\ ~(v <= p)
   <4>1. m \in Nat /\ m <= n /\ fr <= i /\ fr \in Nat BY <1>4, <1>8
   <4> QED BY <1>4, <1>5, <2>1, <2>3, <4>1
  <3>2. data'[ch[x][p]] = data[ch[x][p]] /\ want'[x][p + 1] = want[x][p + 1] BY <1>4, <1>13, <1>14, <2>1, <2>3, <3>1
  <3> QED BY <1>1, <1>11, <3>2 DEF Stored
 <2> QED BY <2>2, <2>3
<1>18. Unwritten(x)' BY <1>1, <1>7, <1>13 DEF Unwritten
<1>19. Recorded(x)'
 <2> SUFFICES ASSUME entry[x].there, ~node[x].dirty
              PROVE  /\ entry[x].valid <= v
                     /\ \A j \in Nat : entry[x].valid <= j /\ j < v => want'[x][j + 1] = Anything \/ Done(x, j)'
  BY <1>1, <1>7, <1>10 DEF Recorded
 <2>1. \A j \in Nat : Done(x, j) => fr <= j /\ j < i BY <1>1 DEF Done
 <2>2. entry[x].valid <= v /\ \A j \in Nat : entry[x].valid <= j /\ j < v => want[x][j + 1] = Anything \/ (fr <= j /\ j < i)
  BY <1>1, <1>11, <2>1 DEF Recorded
 <2>3. ASSUME NEW j \in Nat, entry[x].valid <= j, j < v PROVE want'[x][j + 1] = Anything
  <3>1. j < z /\ (j < i => j < i + n) BY <1>4, <1>5, <2>3
  <3>2. want[x][j + 1] = Anything \/ (fr <= j /\ j < i) BY <2>2, <2>3
  <3> QED BY <1>13, <3>1, <3>2
 <2> QED BY <2>2, <2>3
<1>20. \A g \in Files : g # x => want'[g] = want[g] /\ entry'[g] = entry[g] BY <1>7, <1>13
<1> QED BY <1>4, <1>7, <1>10, <1>15, <1>16, <1>17, <1>18, <1>19, <1>20, FileStep

\* Every step keeps the contents: one lemma per action that writes data, entries, sizes or the
\* history, and the calm ones together.
LEMMA ContentStep == ASSUME Whole', Lengths \subseteq {0}, ContentInv, [Next]_vars PROVE ContentInv'
<1>1. PICK ch, own : Typed /\ Layout(ch, own) /\ Content(ch, own) BY DEF ContentInv
<1>2. Typed' /\ \E ch2, own2 : Layout(ch2, own2)' /\ Kept(ch, own, ch2, own2) BY <1>1, AnyStep
<1>3. PICK ch2, own2 : Layout(ch2, own2)' /\ Kept(ch, own, ch2, own2) BY <1>2
<1>4. ASSUME Layout(ch, own)', Content(ch, own)' PROVE ContentInv' BY <1>2, <1>4 DEF ContentInv
<1>5. ASSUME Content(ch2, own2)' PROVE ContentInv' BY <1>2, <1>3, <1>5 DEF ContentInv
<1>6. CASE UNCHANGED vars BY <1>1, <1>4, <1>6, StutterStep, StutterContent
<1>7. CASE \/ \E f \in Files : CreateFile(f) \/ DeleteNode(f) \/ PutNode(f)
           \/ \E f \in Files, i \in 0..MaxSize - 1 : ReadFile(f, i)
           \/ \E f \in Files, i \in 0..MaxSize, n \in 1..MaxWrite : WriteFile(f, i, n)
           \/ \E f \in Files, n \in Lengths : SetLength(f, n)
           \/ Flush \/ Unmount BY <1>1, <1>2, <1>3, <1>5, <1>7, CallsCalm
<1>8. CASE Unlink BY <1>1, <1>4, <1>8, UnlinkStep, UnlinkContent
<1>9. CASE Mount BY <1>1, <1>4, <1>9, MountStep, MountContent
<1>10. CASE DoTruncate \/ GrowLoop \/ NoSpace \/ FreeLoop \/ FreeCluster \/ FlushNode \/ FlushMap
 BY <1>1, <1>2, <1>3, <1>5, <1>10, SameNodesCalm
<1>11. CASE EraseRange \/ GrowStart \/ Noncontiguous \/ ShrinkStart \/ Rewind BY <1>1, <1>2, <1>3, <1>5, <1>11, NodeCalm
<1>12. CASE SetSize BY <1>1, <1>4, <1>12, SetSizeStep, SetSizeContent
<1>13. CASE Locate BY <1>1, <1>4, <1>13, LocateStep, LocateCalm
<1>14. CASE WriteLoop BY <1>1, <1>4, <1>14, WriteLoopStep, WriteLoopCalm
<1>15. CASE Clean BY <1>1, <1>4, <1>15, CleanStep, CleanContent
<1>16. CASE NodeStep BY <1>1, <1>4, <1>16, NodeStepStep, NodeStepContent
<1>17. CASE FlushDone BY <1>1, <1>4, <1>17, FlushDoneStep, FlushDoneContent
<1>18. CASE DeviceWrites
 <2>1. Doing("fat") \/ Doing("erase") \/ Doing("entry") \/ Doing("bitmap") \/ Doing("data") BY <1>18 DEF DeviceWrites
 <2>2. CASE Doing("fat") \/ Doing("bitmap") BY <1>1, <1>2, <1>3, <1>5, <1>18, <2>2, DeviceCalm
 <2>3. CASE Doing("erase") BY <1>1, <1>4, <1>18, <2>3, EraseStep, EraseContent
 <2>4. CASE Doing("entry") BY <1>1, <1>4, <1>18, <2>4, EntryStep, EntryContent
 <2>5. CASE Doing("data") BY <1>1, <1>4, <1>18, <2>5, DataStep, DataContent
 <2> QED BY <2>1, <2>2, <2>3, <2>4, <2>5
<1>19. CASE DeviceFails
 <2>1. todo # <<>> /\ Now.k \in Fails BY <1>19 DEF DeviceFails
 <2>2. Now.k \in {"data", "entry", "bitmap"} BY <1>19, <2>1, VolumeAssumption DEF Whole, DeviceFails
 <2>3. Doing("data") \/ (~Doing("data") /\ (Doing("entry") \/ Doing("bitmap"))) BY <2>1, <2>2 DEF Doing, Now
 <2>4. CASE Doing("data") BY <1>1, <1>4, <1>19, <2>4, DataFails, DataFailContent
 <2>5. CASE ~Doing("data") /\ (Doing("entry") \/ Doing("bitmap")) BY <1>1, <1>2, <1>3, <1>5, <1>19, <2>5, DeviceCalm
 <2> QED BY <2>3, <2>4, <2>5
<1> QED BY <1>6, <1>7, <1>8, <1>9, <1>10, <1>11, <1>12, <1>13, <1>14, <1>15, <1>16, <1>17, <1>18, <1>19, Zenon DEF Next

\* The volumes the app mounts have their contents.
LEMMA InitContent == ASSUME Init PROVE ContentInv
<1>1. PICK ch, own : Typed /\ Layout(ch, own) /\ Fresh(ch, own) BY InitHolds
<1>2. todo = <<>> /\ file = NoFile /\ cmap = bitmap /\ \A f \in Files : node[f] = NodeOf(entry[f]) BY DEF Init
<1>3. \A f \in Files : f # file BY <1>2, VolumeAssumption
<1>4. ASSUME NEW f \in Files
      PROVE  /\ node[f].size = entry[f].size /\ node[f].valid = entry[f].size /\ entry[f].valid = entry[f].size
             /\ (node[f].state = "linked" <=> entry[f].there) /\ (entry[f].there <=> f \in safe)
             /\ entry[f].size \in Nat /\ (node[f].state # "linked" => entry[f].size = 0)
 <2>1. /\ entry[f].valid = entry[f].size /\ (entry[f].there <=> f \in safe)
       /\ (~entry[f].there => entry[f].size = 0) /\ node[f].size \in Nat BY <1>1, NodeFacts DEF Fresh
 <2>2. CASE entry[f].there BY <1>2, <2>1, <2>2, NodeOfIs
 <2>3. CASE ~entry[f].there BY <1>2, <2>1, <2>3, NodeOfIs
 <2> QED BY <2>2, <2>3
<1>5. ASSUME NEW f \in Files PROVE Len(want[f]) = entry[f].size /\ \A i \in Nat : i < entry[f].size => want[f][i + 1] = {"own"}
 <2>1. PICK n, w : n = entry[f].size /\ w = want[f] OBVIOUS
 <2>2. n \in Nat /\ w \in Seq(SUBSET Anything) /\ w = [i \in 1..n |-> {"own"}] BY <1>1, <1>4, <2>1 DEF Init, Typed
 <2>3. Len(w) = n
  <3>1. DOMAIN w = 1..n BY <2>2
  <3> QED BY <2>2, <3>1, LenMade
 <2>4. ASSUME NEW i \in Nat, i < n PROVE w[i + 1] = {"own"}
  <3>1. i + 1 \in 1..n BY <2>2, <2>4
  <3> QED BY <2>2, <3>1
 <2> QED BY <2>1, <2>3, <2>4
<1>6. ASSUME NEW f \in Files PROVE Wanted(f) BY <1>4, <1>5 DEF Wanted
<1>7. ASSUME NEW f \in Linked PROVE Stored(f, ch, own) /\ Unwritten(f) /\ Recorded(f)
 <2>1. f \in Files BY DEF Linked
 <2>2. own[f] = 0..entry[f].size - 1 BY <1>1, <1>3, <1>4, <2>1, OthersSized
 <2>3. Stored(f, ch, own)
  <3> SUFFICES ASSUME NEW i \in own[f] PROVE Value(data[ch[f][i]], f, i) \in want[f][i + 1] BY DEF Stored
  <3>1. data[ch[f][i]] = <<f, i>> BY <1>1, <2>1 DEF Fresh
  <3>2. i \in Nat /\ i < entry[f].size BY <1>4, <2>1, <2>2
  <3>3. want[f][i + 1] = {"own"} BY <1>5, <2>1, <3>2
  <3> QED BY <3>1, <3>3 DEF Value
 <2>4. Unwritten(f) BY <1>4, <2>1 DEF Unwritten
 <2>5. Recorded(f) BY <1>4, <2>1 DEF Recorded
 <2> QED BY <2>3, <2>4, <2>5
<1>8. ASSUME NEW f \in safe PROVE Saved(f, ch)
 <2>1. f \in Files /\ entry[f].there BY <1>1, <1>4 DEF Typed
 <2>2. f \in Linked /\ f # file BY <1>3, <1>4, <2>1 DEF Linked
 <2>3. Matches(entry[f], node[f]) BY <1>2, <2>1, NodeOfIs DEF Matches
 <2>4. own[f] = 0..node[f].size - 1 /\ node[f].size \in Nat /\ \A i \in own[f] : ch[f][i] \in cmap
  BY <1>1, <2>1, <2>2, OthersSized
 <2>5. ASSUME NEW i \in Nat, i < node[f].size PROVE ch[f][i] \in bitmap
  <3>1. i \in own[f] BY <2>4, <2>5
  <3> QED BY <1>2, <2>4, <3>1
 <2> QED BY <2>2, <2>3, <2>5 DEF Saved
<1>9. Content(ch, own) BY <1>6, <1>7, <1>8 DEF Content
<1> QED BY <1>1, <1>9 DEF ContentInv

\* What a node that leads through the clusters of a file reads at its places.
LEMMA ReadsIs ==
    ASSUME NEW nd, NEW s \in [Nat -> Clusters], NEW n \in Nat, NEW f, NEW i \in Nat, i < n, nd.at \in Nat, nd.valid \in Nat,
           Strung(nd, s, n), Pointed(nd, s, n) PROVE Reads(nd, f, i) = IF i >= nd.valid THEN "zero" ELSE Value(data[s[i]], f, i)
<1>1. Advance(nd, i) = s[i] BY AdvanceIs
<1>2. s[i] \in Clusters OBVIOUS
<1>3. ~Invalid(s[i]) BY <1>2, ClusterNums
<1> QED BY <1>1, <1>3 DEF Reads, Value

\* Contents that are stored are read, through the walk of exfat_advance_cluster.
LEMMA InvContent == ContentInv => ContentKept
<1> SUFFICES ASSUME ContentInv, Idle, NEW f \in Linked
             PROVE  /\ Len(want[f]) = node[f].size
                    /\ \A i \in 0..node[f].size - 1 : Reads(node[f], f, i) \in want[f][i + 1] BY DEF ContentKept
<1>1. PICK ch, own : Typed /\ Layout(ch, own) /\ Content(ch, own) BY DEF ContentInv
<1>2. f \in Files /\ node[f].state = "linked" /\ todo = <<>> /\ Quiet(f, ch, own) BY <1>1, InIdle DEF Linked
<1>3. Wanted(f) /\ Stored(f, ch, own) /\ Unwritten(f) BY <1>1, <1>2 DEF Content
<1>4. PICK n, s, v : n = node[f].size /\ s = ch[f] /\ v = node[f].valid OBVIOUS
<1>5. /\ n \in Nat /\ v \in Nat /\ node[f].at \in Nat /\ s \in [Nat -> Clusters] /\ own[f] = 0..n - 1
      /\ Strung(node[f], s, n) /\ Pointed(node[f], s, n)
 BY <1>1, <1>2, <1>4, NodeFacts DEF Quiet, Settled, Sized, Layout, Ghosts
<1>6. Len(want[f]) = n BY <1>2, <1>3, <1>4 DEF Wanted
<1>7. ASSUME NEW i \in 0..n - 1 PROVE Reads(node[f], f, i) \in want[f][i + 1]
 <2>1. i \in Nat /\ i < n /\ i \in own[f] BY <1>5
 <2>2. Reads(node[f], f, i) = IF i >= v THEN "zero" ELSE Value(data[s[i]], f, i) BY <1>4, <1>5, <2>1, ReadsIs
 <2>3. CASE i >= v
  <3>1. want[f][i + 1] = Anything \/ Coming(f, i) BY <1>3, <1>4, <2>1, <2>3 DEF Unwritten
  <3>2. ~Coming(f, i) BY <1>2 DEF Coming, Writing
  <3> QED BY <2>2, <2>3, <3>1, <3>2 DEF Anything
 <2>4. CASE ~(i >= v)
  <3>1. i < v BY <1>5, <2>1, <2>4
  <3>2. Value(data[s[i]], f, i) \in want[f][i + 1] BY <1>3, <1>4, <2>1, <3>1 DEF Stored
  <3> QED BY <2>2, <2>4, <3>2
 <2> QED BY <2>3, <2>4
<1> QED BY <1>4, <1>6, <1>7

\* The entry of a flushed file leads to the same clusters as its node, and nothing it does not
\* call valid was promised.
LEMMA InvFlushed == ContentInv => FlushedSurvives
<1> SUFFICES ASSUME ContentInv, NEW f \in safe
             PROVE  LET nd == NodeOf(entry[f]) IN
                    /\ entry[f].there /\ nd.size = Len(want[f])
                    /\ Chain(nd) \subseteq bitmap
                    /\ \A i \in 0..nd.size - 1 : Reads(nd, f, i) \in want[f][i + 1] BY DEF FlushedSurvives
<1>1. PICK ch, own : Typed /\ Layout(ch, own) /\ Content(ch, own) BY DEF ContentInv
<1>2. f \in Files /\ Saved(f, ch) /\ f # file /\ f \in Linked BY <1>1 DEF Content, Saved, Typed
<1>3. Wanted(f) /\ Stored(f, ch, own) /\ Unwritten(f) /\ Recorded(f) /\ Quiet(f, ch, own) /\ node[f].state = "linked"
 BY <1>1, <1>2 DEF Content, Layout, Linked
<1>4. PICK nd, n, s, v, e : nd = NodeOf(entry[f]) /\ n = node[f].size /\ s = ch[f] /\ v = node[f].valid /\ e = entry[f].valid
 OBVIOUS
<1>5. entry[f].there /\ Matches(entry[f], node[f]) BY <1>2, <1>3 DEF Quiet, Booked, Listing, Saved
<1>6. /\ DOMAIN nd = {"state", "start", "contiguous", "size", "valid", "dirty", "at", "ptr"}
      /\ nd.state = "linked" /\ nd.start = node[f].start /\ nd.size = n /\ nd.valid = e /\ nd.at = 0 /\ nd.ptr = node[f].start
 BY <1>4, <1>5, NodeOfIs DEF Matches
<1>7. n # 0 => (nd.contiguous <=> node[f].contiguous)
 <2>1. nd.contiguous = entry[f].contiguous BY <1>4, <1>5, NodeOfIs
 <2> QED BY <1>4, <1>5, <2>1 DEF Matches
<1>8. /\ n \in Nat /\ n <= MaxSize /\ MaxSize \in Nat /\ v \in Nat /\ v <= n /\ s \in [Nat -> Clusters] /\ own[f] = 0..n - 1
      /\ Strung(node[f], s, n) /\ node[f].start \in Clusters \cup {FREE}
 <2>1. /\ n \in Nat /\ n <= MaxSize /\ MaxSize \in Nat /\ IsNode(node[f]) /\ s \in [Nat -> Clusters]
       /\ own[f] = 0..n - 1 /\ Strung(node[f], s, n)
  BY <1>1, <1>2, <1>3, <1>4, NodeFacts DEF Quiet, Settled, Sized, Layout, Ghosts
 <2>2. v \in 0..n /\ node[f].start \in Clusters \cup {FREE} BY <1>4, <2>1 DEF IsNode
 <2> QED BY <2>1, <2>2
<1>9. /\ e \in Nat /\ e <= v
      /\ \A i \in Nat : e <= i /\ i < v => want[f][i + 1] = Anything \/ Done(f, i)
 BY <1>1, <1>2, <1>3, <1>4, <1>5 DEF Recorded, Typed
<1>10. IsNode(nd)
 <2>1. node[f].start \in Nat
  <3>1. Clusters \subseteq Nat /\ FREE \in Nat BY ClusterNums DEF FREE
  <3> QED BY <1>8, <3>1
 <2>2. e \in 0..n /\ n \in 0..MaxSize BY <1>8, <1>9
 <2> QED BY <1>6, <1>8, <2>1, <2>2 DEF IsNode
<1>11. Strung(nd, s, n) /\ Pointed(nd, s, n)
 <2>1. nd.start = IF n = 0 THEN FREE ELSE s[0] BY <1>6, <1>8 DEF Strung
 <2>2. Segment(nd, s, 0, n)
  <3> SUFFICES ASSUME NEW i \in Nat, i + 1 < n PROVE NextCluster(nd, s[i]) = s[i + 1] BY DEF Segment
  <3>1. NextCluster(node[f], s[i]) = s[i + 1] BY <1>8 DEF Strung, Segment
  <3>2. n # 0 BY <1>8
  <3> QED BY <1>7, <3>1, <3>2 DEF NextCluster
 <2>3. Pointed(nd, s, n) BY <1>6, <1>8, <2>1 DEF Pointed
 <2> QED BY <2>1, <2>2, <2>3 DEF Strung
<1>12. Chain(nd) \subseteq bitmap
 <2>1. Chain(nd) = {s[i] : i \in 0..n - 1} BY <1>6, <1>8, <1>10, <1>11, ChainFinds
 <2>2. \A i \in 0..n - 1 : s[i] \in bitmap BY <1>2, <1>4, <1>8 DEF Saved
 <2> QED BY <2>1, <2>2
<1>13. Len(want[f]) = n BY <1>3, <1>4 DEF Wanted
<1>14. \A i : ~Coming(f, i) /\ ~Done(f, i) BY <1>2 DEF Coming, Done
<1>15. ASSUME NEW i \in 0..n - 1 PROVE Reads(nd, f, i) \in want[f][i + 1]
 <2>1. i \in Nat /\ i < n /\ i \in own[f] BY <1>8
 <2>2. Reads(nd, f, i) = IF i >= e THEN "zero" ELSE Value(data[s[i]], f, i) BY <1>6, <1>8, <1>9, <1>11, <2>1, ReadsIs
 <2>3. CASE i >= e
  <3>1. want[f][i + 1] = Anything
   <4>1. CASE i < v BY <1>9, <1>14, <2>1, <2>3, <4>1
   <4>2. CASE v <= i BY <1>3, <1>4, <1>14, <2>1, <4>2 DEF Unwritten
   <4> QED BY <1>8, <2>1, <4>1, <4>2
  <3> QED BY <2>2, <2>3, <3>1 DEF Anything
 <2>4. CASE ~(i >= e)
  <3>1. i < v BY <1>8, <1>9, <2>1, <2>4
  <3>2. Value(data[s[i]], f, i) \in want[f][i + 1] BY <1>3, <1>4, <2>1, <3>1 DEF Stored
  <3> QED BY <2>2, <2>4, <3>2
 <2> QED BY <2>3, <2>4
<1>16. nd.size = Len(want[f]) /\ \A i \in 0..nd.size - 1 : Reads(nd, f, i) \in want[f][i + 1] BY <1>6, <1>13, <1>15
<1> QED BY <1>4, <1>5, <1>12, <1>16

\* The structure and the contents of the volume hold in every state until a write of a link or an erasure
\* fails, when setLength only empties files, as the app's one caller of it does (one that grows a file
\* leaves places that are not valid, and exfat_generic_pwrite, writing behind them, makes them valid
\* without erasing them).
THEOREM ContentAlways == ASSUME Lengths \subseteq {0} PROVE Spec => [](Whole => ContentInv)
<1>1. Init => ContentInv BY InitContent
<1>2. (Whole => ContentInv) /\ [Next]_vars => (Whole => ContentInv)' BY ContentStep, WholeBefore
<1> QED BY <1>1, <1>2, PTL DEF Spec

\* Until a write of a link or an erasure fails (the condition is part of ContentKept), between calls every
\* place of every file reads as what was last written there, or as zero if nothing was: for every volume
\* and every sequence of creates, writes, truncates, flushes, deletes and remounts, no other file's
\* write, rollback of grow_file, stale file pointer or failed write of data, an entry or the bitmap
\* changes what exfat_generic_pread returns elsewhere.
THEOREM VolumeContents == ASSUME Lengths \subseteq {0} PROVE Spec => []ContentKept
<1>1. (Whole => ContentInv) => ContentKept BY InvContent DEF Whole, ContentKept
<1> QED BY <1>1, ContentAlways, PTL

\* Until a write of a link or an erasure fails (the condition is part of FlushedSurvives), a file that
\* exfat_flush_nodes and exfat_flush wrote without an error, and that was not changed since, is on the
\* drive at every moment of every later call: its entry leads through the FAT to its data, and the bitmap
\* on the drive has its clusters in use, so pulling the drive loses none of it.
THEOREM VolumeFlushed == ASSUME Lengths \subseteq {0} PROVE Spec => []FlushedSurvives
<1>1. (Whole => ContentInv) => FlushedSurvives BY InvFlushed DEF Whole, FlushedSurvives
<1> QED BY <1>1, ContentAlways, PTL
=============================================================================
