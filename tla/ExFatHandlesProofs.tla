------------------------- MODULE ExFatHandlesProofs -------------------------
(***************************************************************************)
(* Proofs about module ExFatHandles, for any names, any nodes, any length   *)
(* of the queue of releases and any bound on references: native references  *)
(* are given back exactly once, and no native call ends the process.        *)
(***************************************************************************)
EXTENDS ExFatHandles, FiniteSetTheorems, TLAPS

USE HandlesAssumption

-----------------------------------------------------------------------------
(* Types.                                                                   *)

\* Counting up keeps a count a count.
LEMMA BumpType ==
    ASSUME NEW f \in Counts, NEW S
    PROVE  Bump(f, S) \in Counts /\ \A n \in Nodes : Bump(f, S)[n] = IF n \in S THEN f[n] + 1 ELSE f[n]
  BY DEF Bump, Counts

\* Counting down keeps it one where there is something to take.
LEMMA LessType ==
    ASSUME NEW f \in Counts, NEW n \in Nodes, f[n] > 0
    PROVE  /\ Less(f, n) \in Counts
           /\ \A m \in Nodes : Less(f, n)[m] = IF m = n THEN f[m] - 1 ELSE f[m]
  BY DEF Less, Counts

\* putNode keeps the types of the native state.
LEMMA PutNodeType ==
    ASSUME TypeOK, NEW n \in Nodes, PutNode(n)
    PROVE  /\ refs' \in Counts
           /\ state' \in [Nodes -> {"free", "linked", "unlinked"}]
           /\ crash' \in {"no", "overwrite", "bug", "dangling"}
<1>1. refs[n] # 0 => refs[n] > 0
  BY DEF TypeOK, Counts
<1> QED
  BY <1>1, LessType DEF PutNode, TypeOK

\* A listing keeps the types of the counts.
LEMMA ListType ==
    ASSUME TypeOK, NEW keep, List(keep)
    PROVE  refs' \in Counts /\ litter' \in Counts
  BY BumpType DEF List, TypeOK

\* A volume just mounted has its type.
LEMMA InitType == Init => TypeOK
<1> SUFFICES ASSUME Init PROVE TypeOK
  OBVIOUS
<1>1. interrupted \in BOOLEAN
  BY DEF Init
<1> QED
  BY <1>1 DEF Init, TypeOK, Counts, Idle

\* Every step keeps the types: counts stay at zero or above, the queue within its bound.
LEMMA TypeStep == TypeOK /\ [Next]_vars => TypeOK'
<1> SUFFICES ASSUME TypeOK, [Next]_vars PROVE TypeOK'
  OBVIOUS
<1> USE DEF native, kotlin, release
<1>1. ASSUME NEW op \in {"delete", "rename"}, NEW name \in Names, NEW new \in Names, Find(op, name, new)
      PROVE  TypeOK'
  <2>1. refs' \in Counts /\ litter' \in Counts
    BY <1>1, ListType DEF Find
  <2>2. call' \in Requests \cup {Idle}
    BY <1>1 DEF Find, Requests, TypeOK
  <2> QED
    BY <1>1, <2>1, <2>2 DEF Find, TypeOK
<1>2. ASSUME NEW name \in Names, OpenFind(name) PROVE TypeOK'
  <2>1. refs' \in Counts /\ litter' \in Counts
    BY <1>2, ListType DEF OpenFind
  <2> QED
    BY <1>2, <2>1 DEF OpenFind, TypeOK
<1>3. ASSUME NEW name \in Names, CreateFile(name) PROVE TypeOK'
  BY <1>3 DEF CreateFile, TypeOK, Counts
<1>4. CASE ListAll
  <2>1. refs' \in Counts /\ litter' \in Counts
    BY <1>4, ListType DEF ListAll
  <2> QED
    BY <1>4, <2>1 DEF ListAll, TypeOK
<1>5. ASSUME NEW fails \in BOOLEAN, OpenDone(fails) PROVE TypeOK'
  <2>1. open' \in Counts /\ litter' \in Counts
    BY <1>5, BumpType DEF OpenDone, TypeOK
  <2> QED
    BY <1>5, <2>1 DEF OpenDone, TypeOK
<1>6. ASSUME NEW n \in Nodes, UseFile(n) PROVE TypeOK'
  BY <1>6 DEF UseFile, TypeOK
<1>7. ASSUME NEW n \in Nodes, Close(n) PROVE TypeOK'
  <2>1. open' \in Counts
    BY <1>7, LessType DEF Close, TypeOK
  <2>2. /\ refs' \in Counts
        /\ state' \in [Nodes -> {"free", "linked", "unlinked"}]
        /\ crash' \in {"no", "overwrite", "bug", "dangling"}
    BY <1>7, PutNodeType DEF Close, TypeOK
  <2> QED
    BY <1>7, <2>1, <2>2 DEF Close, TypeOK
<1>8. ASSUME NEW n \in Nodes, Finalize(n) PROVE TypeOK'
  <2>1. litter' \in Counts
    BY <1>8, LessType DEF Finalize, TypeOK
  <2> QED
    BY <1>8, <2>1 DEF Finalize, TypeOK
<1>9. ASSUME Done PROVE litter' \in Counts /\ call' \in Requests \cup {Idle}
  BY <1>9, BumpType DEF Done, TypeOK
<1>10. CASE DeleteNode
  <2>1. call \in Requests
    BY <1>10 DEF DeleteNode, TypeOK, Idle
  <2>2. call.n \in Nodes
    BY <2>1 DEF Requests
  <2> QED
    BY <1>9, <1>10, <2>2 DEF DeleteNode, TypeOK
<1>11. CASE Rename
  <2>1. call \in Requests
    BY <1>11 DEF Rename, TypeOK, Idle
  <2>2. call.n \in Nodes /\ call.name \in Names /\ call.new \in Names
    BY <2>1 DEF Requests
  <2> QED
    BY <1>9, <1>11, <2>2 DEF Rename, TypeOK
<1>12. CASE Refused
  BY <1>9, <1>12 DEF Refused, TypeOK
<1>13. CASE Offer
  <2>1. CASE Len(queue) < QueueCap
    BY <1>13, <2>1 DEF Offer, TypeOK
  <2>2. CASE ~(Len(queue) < QueueCap)
    BY <1>13, <2>2, BumpType DEF Offer, TypeOK
  <2> QED
    BY <2>1, <2>2
<1>14. CASE Take
  <2>1. CASE interrupted
    BY <1>14, <2>1 DEF Take, TypeOK
  <2>2. CASE ~interrupted
    <3>1. /\ Head(queue) \in Nodes \cup {Stop}
          /\ Tail(queue) \in Seq(Nodes \cup {Stop}) /\ Len(Tail(queue)) <= QueueCap
      BY <1>14, <2>2 DEF Take, TypeOK
    <3> QED
      BY <1>14, <2>2, <3>1 DEF Take, TypeOK
  <2> QED
    BY <2>1, <2>2
<1>15. CASE Release
  <2>1. /\ refs' \in Counts
        /\ state' \in [Nodes -> {"free", "linked", "unlinked"}]
        /\ crash' \in {"no", "overwrite", "bug", "dangling"}
    BY <1>15, PutNodeType DEF Release, TypeOK
  <2> QED
    BY <1>15, <2>1 DEF Release, TypeOK
<1>16. CASE Unmount
  BY <1>16 DEF Unmount, TypeOK
<1>17. CASE ClearQueue
  BY <1>17 DEF ClearQueue, TypeOK
<1>18. CASE OfferStop
  BY <1>18 DEF OfferStop, TypeOK
<1>19. CASE Interrupt
  <2>1. interrupted' \in BOOLEAN
    BY <1>19 DEF Interrupt
  <2> QED
    BY <1>19, <2>1 DEF Interrupt, TypeOK
<1>20. CASE UNCHANGED vars
  BY <1>20 DEF vars, TypeOK
<1> QED
  BY <1>1, <1>2, <1>3, <1>4, <1>5, <1>6, <1>7, <1>8, <1>10, <1>11, <1>12, <1>13, <1>14, <1>15, <1>16,
     <1>17, <1>18, <1>19, <1>20 DEF Next

\* The state always has its type; no count ever goes below zero (exfat_put_node), and
\* pendingReleases never holds more than its capacity.
THEOREM TypeCorrect == Spec => []TypeOK
  BY InitType, TypeStep, PTL DEF Spec

-----------------------------------------------------------------------------
(* Counting.                                                                *)

\* How often a node is in a queue of releases.
Queued(q, n) == Cardinality({i \in DOMAIN q : q[i] = n})

\* It is there finitely often.
LEMMA QueuedType ==
    ASSUME NEW S, NEW q \in Seq(S), NEW n
    PROVE  IsFiniteSet({i \in DOMAIN q : q[i] = n}) /\ Queued(q, n) \in Nat
<1>1. IsFiniteSet(1..Len(q))
  BY FS_Interval
<1>2. {i \in DOMAIN q : q[i] = n} \in SUBSET (1..Len(q))
  OBVIOUS
<1> QED
  BY <1>1, <1>2, FS_Subset, FS_CardinalityType DEF Queued

\* Not at all in the empty queue.
LEMMA QueuedEmpty == \A n : Queued(<<>>, n) = 0
<1> TAKE n
<1>1. {i \in DOMAIN <<>> : <<>>[i] = n} = {}
  OBVIOUS
<1> QED
  BY <1>1, FS_EmptySet DEF Queued

\* offer adds one of the node it is given.
LEMMA QueuedAppend ==
    ASSUME NEW S, NEW q \in Seq(S), NEW e \in S, NEW n
    PROVE  Queued(Append(q, e), n) = Queued(q, n) + One(e = n)
<1> DEFINE old == {i \in DOMAIN q : q[i] = n}
           new == {i \in DOMAIN Append(q, e) : Append(q, e)[i] = n}
<1>1. IsFiniteSet(old) /\ Cardinality(old) \in Nat
  BY QueuedType, FS_CardinalityType
<1>2. CASE e = n
  <2>1. new = old \cup {Len(q) + 1} /\ Len(q) + 1 \notin old
    BY <1>2
  <2>2. Cardinality(new) = Cardinality(old) + 1
    BY <1>1, <2>1, FS_AddElement
  <2> QED
    BY <1>2, <2>2 DEF Queued, One
<1>3. CASE e # n
  <2>1. new = old
    BY <1>3
  <2>2. One(e = n) = 0
    BY <1>3 DEF One
  <2>3. Queued(Append(q, e), n) = Queued(q, n) /\ Queued(q, n) \in Nat
    BY <1>1, <2>1 DEF Queued
  <2> QED
    BY <2>2, <2>3
<1> QED
  BY <1>2, <1>3

\* take removes one of the node it returns.
LEMMA QueuedTail ==
    ASSUME NEW S, NEW q \in Seq(S), q # <<>>, NEW n
    PROVE  Queued(q, n) = Queued(Tail(q), n) + One(Head(q) = n)
<1> DEFINE all == {i \in DOMAIN q : q[i] = n}
           rest == {i \in DOMAIN Tail(q) : Tail(q)[i] = n}
           late == all \ {1}
           f == [i \in rest |-> i + 1]
<1>1. IsFiniteSet(all) /\ IsFiniteSet(rest)
  <2>1. Tail(q) \in Seq(S)
    OBVIOUS
  <2> QED
    BY <2>1, QueuedType
<1>2. Cardinality(rest) = Cardinality(late)
  <2>1. f \in [rest -> late]
    OBVIOUS
  <2>2. \A i, j \in rest : f[i] = f[j] => i = j
    OBVIOUS
  <2>3. ASSUME NEW k \in late PROVE k - 1 \in rest /\ f[k - 1] = k
    <3>1. k \in 2..Len(q) /\ q[k] = n
      OBVIOUS
    <3>2. k - 1 \in DOMAIN Tail(q) /\ Tail(q)[k - 1] = q[k]
      BY <3>1
    <3>3. k - 1 \in rest
      BY <3>1, <3>2
    <3> QED
      BY <3>1, <3>3
  <2>4. f \in Bijection(rest, late)
    BY <2>1, <2>2, <2>3 DEF Bijection, Injection, Surjection, IsInjective
  <2>5. ExistsBijection(rest, late)
    BY <2>4 DEF ExistsBijection
  <2> QED
    BY <1>1, <2>5, FS_Bijection
<1>3. 1 \in all <=> Head(q) = n
  <2>1. 1 \in DOMAIN q /\ Head(q) = q[1]
    OBVIOUS
  <2> QED
    BY <2>1
<1>4. Cardinality(late) = IF 1 \in all THEN Cardinality(all) - 1 ELSE Cardinality(all)
  BY <1>1, FS_RemoveElement
<1>5. Cardinality(all) \in Nat
  BY <1>1, FS_CardinalityType
<1> HIDE DEF all, rest, late
<1>6. Queued(q, n) = Cardinality(all) /\ Queued(Tail(q), n) = Cardinality(rest)
  BY DEF Queued, all, rest
<1> QED
  BY <1>2, <1>3, <1>4, <1>5, <1>6 DEF One

-----------------------------------------------------------------------------
(* The inductive invariant.                                                 *)

\* The directory names linked nodes, each once.
TreeLinked ==
    /\ \A a \in Names : tree[a] # None => state[tree[a]] = "linked"
    /\ \A a, b \in Names : a # b /\ tree[a] = tree[b] => tree[a] = None

\* A request that holds the drive's lock still finds what it looked up.
CallHolds ==
    call # Idle => tree[call.name] = call.n

\* Each native reference is owed by something in the app.
RefsOwed == \A n \in Nodes : refs[n] = Owed(n)

\* Unlinked nodes are referred to, and nothing is owed to freed memory.
FreeUnowed ==
    \A n \in Nodes : /\ state[n] = "unlinked" => refs[n] > 0
                     /\ state[n] = "free" => Owed(n) = 0

\* The counts matter only while native code may be called: after an unmount handles, queue
\* and releaser no longer stand for anything, and none of them calls it.
Books == TreeLinked /\ CallHolds /\ RefsOwed /\ FreeUnowed

Inv == TypeOK /\ (Usable => Books)

\* What is owed to a node, before and after a step, by its holders.
LEMMA OwedIs ==
    ASSUME NEW n
    PROVE  /\ Owed(n) = open[n] + litter[n] + dropped[n]
                         + One(call # Idle /\ call.n = n) + One(opening = n) + One(finalizing = n)
                         + One(releaser = n) + Queued(queue, n)
           /\ Owed(n)' = open'[n] + litter'[n] + dropped'[n]
                         + One(call' # Idle /\ call'.n = n) + One(opening' = n) + One(finalizing' = n)
                         + One(releaser' = n) + Queued(queue', n)
  BY DEF Owed, Queued, Idle

\* Something is owed to a node that somebody holds.
LEMMA OwedPositive ==
    ASSUME TypeOK, NEW n \in Nodes
    PROVE  /\ Owed(n) \in Nat
           /\ open[n] > 0 => Owed(n) > 0
           /\ call # Idle /\ call.n = n => Owed(n) > 0
           /\ opening = n => Owed(n) > 0
           /\ releaser = n => Owed(n) > 0
<1>1. Queued(queue, n) \in Nat
  BY QueuedType DEF TypeOK
<1>2. open[n] \in Nat /\ litter[n] \in Nat /\ dropped[n] \in Nat
  BY DEF TypeOK, Counts
<1> QED
  BY <1>1, <1>2, OwedIs DEF One

\* A step that only moves references from one holder to another keeps the books.
LEMMA CountsKept ==
    ASSUME TypeOK, Books, state' = state, refs' = refs, \A n \in Nodes : Owed(n)' = Owed(n)
    PROVE  RefsOwed' /\ FreeUnowed'
  BY DEF Books, RefsOwed, FreeUnowed

\* So does a listing, which takes a reference to each linked node and hands it out.
LEMMA CountsListed ==
    ASSUME TypeOK, Books, state' = state,
           \A n \in Nodes : IF n \in Linked THEN refs'[n] = refs[n] + 1 /\ Owed(n)' = Owed(n) + 1
                                           ELSE refs'[n] = refs[n] /\ Owed(n)' = Owed(n)
    PROVE  RefsOwed' /\ FreeUnowed'
  BY DEF Books, RefsOwed, FreeUnowed, Linked, TypeOK, Counts

\* So does putNode by a holder, which frees an unlinked node with its last reference.
LEMMA CountsPut ==
    ASSUME TypeOK, Books, Usable', NEW m \in Nodes, PutNode(m), Owed(m) > 0,
           \A n \in Nodes : Owed(n)' = IF n = m THEN Owed(n) - 1 ELSE Owed(n)
    PROVE  /\ RefsOwed' /\ FreeUnowed'
           /\ \A n \in Nodes : state[n] = "linked" => state'[n] = "linked"
<1>1. refs[m] = Owed(m) /\ state[m] # "free"
  BY DEF Books, RefsOwed, FreeUnowed
<1>2. refs \in Counts /\ refs[m] > 0
  BY <1>1 DEF TypeOK
<1>3. /\ refs' = Less(refs, m)
      /\ state' = IF refs[m] = 1 /\ state[m] = "unlinked" THEN [state EXCEPT ![m] = "free"] ELSE state
  BY <1>1, <1>2 DEF PutNode
<1>4. \A n \in Nodes : refs'[n] = IF n = m THEN refs[n] - 1 ELSE refs[n]
  BY <1>2, <1>3, LessType
<1>5. RefsOwed'
  BY <1>4 DEF Books, RefsOwed
<1>6. \A n \in Nodes : state'[n] = IF n = m /\ refs[m] = 1 /\ state[m] = "unlinked" THEN "free" ELSE state[n]
  BY <1>3 DEF TypeOK
<1>7. \A n \in Nodes : refs[n] \in Nat
  BY <1>2 DEF Counts
<1>8. FreeUnowed'
  BY <1>1, <1>4, <1>6, <1>7 DEF Books, RefsOwed, FreeUnowed
<1> QED
  BY <1>5, <1>6, <1>8

\* What readDir does to the counts of a node.
LEMMA ListCounts ==
    ASSUME TypeOK, NEW keep, List(keep), NEW n \in Nodes
    PROVE  /\ refs'[n] = IF n \in Linked THEN refs[n] + 1 ELSE refs[n]
           /\ litter'[n] = IF n \in Linked /\ n # keep THEN litter[n] + 1 ELSE litter[n]
  BY BumpType DEF List, TypeOK

-----------------------------------------------------------------------------
(* Every step keeps the invariant.                                          *)

\* While native code may be called, every step keeps the books.
LEMMA BooksStep == ASSUME Inv, Usable, Usable', [Next]_vars PROVE Books'
<1> USE DEF native, kotlin, release
<1>0. TypeOK /\ TypeOK' /\ Books
  BY TypeStep DEF Inv
<1>a. \A n \in Nodes : /\ open[n] \in Nat /\ litter[n] \in Nat /\ dropped[n] \in Nat
                       /\ refs[n] \in Nat /\ Queued(queue, n) \in Nat
  BY <1>0, QueuedType DEF TypeOK, Counts
<1>1. ASSUME NEW op \in {"delete", "rename"}, NEW name \in Names, NEW new \in Names,
             Find(op, name, new)
      PROVE  Books'
  <2> DEFINE m == tree[name]
  <2>1. /\ call = Idle /\ List(m) /\ UNCHANGED <<tree, state, open, dropped, opening, release>>
        /\ call' = IF m = None THEN Idle ELSE [op |-> op, name |-> name, new |-> new, n |-> m]
    BY <1>1 DEF Find
  <2>2. CallHolds'
    BY <1>1, <2>1 DEF CallHolds, Idle
  <2>3. TreeLinked'
    BY <1>0, <2>1 DEF Books, TreeLinked
  <2>4. m # None => m \in Linked
    BY <1>0 DEF Books, TreeLinked, Linked, TypeOK
  <2>5. m # None => call' # Idle /\ call'.n = m
    BY <2>1 DEF Idle
  <2>6. ASSUME NEW n \in Nodes
        PROVE  IF n \in Linked THEN refs'[n] = refs[n] + 1 /\ Owed(n)' = Owed(n) + 1
                               ELSE refs'[n] = refs[n] /\ Owed(n)' = Owed(n)
    <3>1. /\ refs'[n] = IF n \in Linked THEN refs[n] + 1 ELSE refs[n]
          /\ litter'[n] = IF n \in Linked /\ n # m THEN litter[n] + 1 ELSE litter[n]
      BY <1>0, <2>1, ListCounts
    <3>2. One(call # Idle /\ call.n = n) = 0
      BY <2>1 DEF One
    <3>3. One(call' # Idle /\ call'.n = n) = IF n = m THEN 1 ELSE 0
      BY <2>1, <2>5 DEF One
    <3> HIDE DEF m
    <3> QED
      BY <1>a, <2>1, <2>4, <3>1, <3>2, <3>3, OwedIs DEF One
  <2> QED
    BY <1>0, <2>1, <2>2, <2>3, <2>6, CountsListed DEF Books
<1>2. ASSUME NEW name \in Names, OpenFind(name) PROVE Books'
  <2> DEFINE m == tree[name]
  <2>1. /\ opening = None /\ opening' = m /\ List(m)
        /\ UNCHANGED <<tree, state, open, dropped, call, release>>
    BY <1>2 DEF OpenFind
  <2>2. CallHolds' /\ TreeLinked'
    BY <1>0, <2>1 DEF Books, TreeLinked, CallHolds
  <2>3. m # None => m \in Linked
    BY <1>0 DEF Books, TreeLinked, Linked, TypeOK
  <2>4. ASSUME NEW n \in Nodes
        PROVE  IF n \in Linked THEN refs'[n] = refs[n] + 1 /\ Owed(n)' = Owed(n) + 1
                               ELSE refs'[n] = refs[n] /\ Owed(n)' = Owed(n)
    <3>1. /\ refs'[n] = IF n \in Linked THEN refs[n] + 1 ELSE refs[n]
          /\ litter'[n] = IF n \in Linked /\ n # m THEN litter[n] + 1 ELSE litter[n]
      BY <1>0, <2>1, ListCounts
    <3> HIDE DEF m
    <3> QED
      BY <1>a, <2>1, <2>3, <3>1, OwedIs DEF One
  <2> QED
    BY <1>0, <2>1, <2>2, <2>4, CountsListed DEF Books
<1>3. CASE ListAll
  <2>1. List(None) /\ UNCHANGED <<tree, state, open, dropped, call, opening, release>>
    BY <1>3 DEF ListAll
  <2>2. CallHolds' /\ TreeLinked'
    BY <1>0, <2>1 DEF Books, TreeLinked, CallHolds
  <2>3. ASSUME NEW n \in Nodes
        PROVE  IF n \in Linked THEN refs'[n] = refs[n] + 1 /\ Owed(n)' = Owed(n) + 1
                               ELSE refs'[n] = refs[n] /\ Owed(n)' = Owed(n)
    <3>1. /\ refs'[n] = IF n \in Linked THEN refs[n] + 1 ELSE refs[n]
          /\ litter'[n] = IF n \in Linked THEN litter[n] + 1 ELSE litter[n]
      BY <1>0, <2>1, ListCounts
    <3>2. Owed(n)' = Owed(n) - litter[n] + litter'[n]
      <4>1. /\ open' = open /\ dropped' = dropped /\ queue' = queue
            /\ One(call' # Idle /\ call'.n = n) = One(call # Idle /\ call.n = n)
            /\ One(opening' = n) = One(opening = n) /\ One(finalizing' = n) = One(finalizing = n)
            /\ One(releaser' = n) = One(releaser = n)
        BY <2>1
      <4>2. /\ open[n] \in Nat /\ litter[n] \in Nat /\ litter'[n] \in Nat /\ dropped[n] \in Nat
            /\ Queued(queue, n) \in Nat
        BY <1>a, <3>1
      <4>3. /\ One(call # Idle /\ call.n = n) \in Nat /\ One(opening = n) \in Nat
            /\ One(finalizing = n) \in Nat /\ One(releaser = n) \in Nat
        BY DEF One
      <4>4. /\ Owed(n) = open[n] + litter[n] + dropped[n]
                         + One(call # Idle /\ call.n = n) + One(opening = n) + One(finalizing = n)
                         + One(releaser = n) + Queued(queue, n)
            /\ Owed(n)' = open'[n] + litter'[n] + dropped'[n]
                         + One(call' # Idle /\ call'.n = n) + One(opening' = n) + One(finalizing' = n)
                         + One(releaser' = n) + Queued(queue', n)
        BY OwedIs
      <4> QED
        BY <4>1, <4>2, <4>3, <4>4
    <3>3. Owed(n) \in Nat /\ litter[n] \in Nat
      BY <1>0, <1>a, OwedPositive
    <3> QED
      BY <3>1, <3>2, <3>3
  <2> QED
    BY <1>0, <2>1, <2>2, <2>3, CountsListed DEF Books
<1>4. CASE /\ UNCHANGED <<tree, state, refs>> /\ \A n \in Nodes : Owed(n)' = Owed(n)
           /\ call' = call \/ call' = Idle
  <2>1. CallHolds' /\ TreeLinked'
    BY <1>0, <1>4 DEF Books, TreeLinked, CallHolds
  <2> QED
    BY <1>0, <1>4, <2>1, CountsKept DEF Books
<1>5. ASSUME NEW fails \in BOOLEAN, OpenDone(fails) PROVE Books'
  <2>1. \A n \in Nodes : /\ open'[n] = IF ~fails /\ n = opening THEN open[n] + 1 ELSE open[n]
                         /\ litter'[n] = IF fails /\ n = opening THEN litter[n] + 1 ELSE litter[n]
    BY <1>0, <1>5, BumpType DEF OpenDone, TypeOK
  <2>2. /\ opening # None /\ opening' = None
        /\ UNCHANGED <<tree, state, refs, dropped, call, release>>
    BY <1>5 DEF OpenDone
  <2>3. \A n \in Nodes : Owed(n)' = Owed(n)
    BY <1>a, <2>1, <2>2, OwedIs DEF One
  <2> QED
    BY <1>4, <2>2, <2>3
<1>6. ASSUME NEW n \in Nodes, UseFile(n) PROVE Books'
  <2>1. UNCHANGED <<native, kotlin, release>>
    BY <1>6 DEF UseFile
  <2>2. \A k \in Nodes : Owed(k)' = Owed(k)
    BY <2>1 DEF Owed
  <2> QED
    BY <1>4, <2>1, <2>2
<1>7. ASSUME NEW m \in Nodes, Close(m) PROVE Books'
  <2>1. /\ open[m] > 0 /\ open' = Less(open, m) /\ PutNode(m)
        /\ UNCHANGED <<tree, litter, dropped, call, opening, release>>
    BY <1>7 DEF Close, Usable
  <2>2. \A n \in Nodes : open'[n] = IF n = m THEN open[n] - 1 ELSE open[n]
    BY <1>0, <2>1, LessType DEF TypeOK
  <2>3. \A n \in Nodes : Owed(n)' = IF n = m THEN Owed(n) - 1 ELSE Owed(n)
    BY <1>a, <2>1, <2>2, OwedIs DEF One
  <2>4. Owed(m) > 0
    BY <1>0, <2>1, OwedPositive
  <2>5. RefsOwed' /\ FreeUnowed' /\ \A n \in Nodes : state[n] = "linked" => state'[n] = "linked"
    BY <1>0, <2>1, <2>3, <2>4, CountsPut
  <2>6. TreeLinked' /\ CallHolds'
    BY <1>0, <2>1, <2>5 DEF Books, TreeLinked, CallHolds, TypeOK
  <2> QED
    BY <2>5, <2>6 DEF Books
<1>8. CASE Release
  <2> DEFINE m == releaser
  <2>1. /\ m \in Nodes /\ releaser' = "waiting" /\ PutNode(m)
        /\ UNCHANGED <<tree, open, litter, dropped, call, opening, finalizing, queue>>
    BY <1>8 DEF Release, Usable
  <2>2. \A n \in Nodes : Owed(n)' = IF n = m THEN Owed(n) - 1 ELSE Owed(n)
    BY <1>a, <2>1, OwedIs DEF One
  <2>3. Owed(m) > 0
    BY <1>0, <2>1, OwedPositive
  <2> HIDE DEF m
  <2>4. RefsOwed' /\ FreeUnowed' /\ \A n \in Nodes : state[n] = "linked" => state'[n] = "linked"
    BY <1>0, <2>1, <2>2, <2>3, CountsPut
  <2>5. TreeLinked' /\ CallHolds'
    BY <1>0, <2>1, <2>4 DEF Books, TreeLinked, CallHolds, TypeOK
  <2> QED
    BY <2>4, <2>5 DEF Books
<1>9. ASSUME NEW m \in Nodes, Finalize(m) PROVE Books'
  <2>1. /\ litter[m] > 0 /\ litter' = Less(litter, m) /\ finalizing = None /\ finalizing' = m
        /\ UNCHANGED <<native, open, dropped, call, opening, queue, releaser>>
    BY <1>9 DEF Finalize, Usable
  <2>2. \A n \in Nodes : litter'[n] = IF n = m THEN litter[n] - 1 ELSE litter[n]
    BY <1>0, <2>1, LessType DEF TypeOK
  <2>3. \A n \in Nodes : Owed(n)' = Owed(n)
    BY <1>a, <2>1, <2>2, OwedIs DEF One
  <2> QED
    BY <1>4, <2>1, <2>3
<1>10. CASE Offer
  <2> DEFINE m == finalizing
  <2>1. /\ m \in Nodes /\ finalizing' = None
        /\ UNCHANGED <<native, open, litter, call, opening, releaser>>
    BY <1>0, <1>10 DEF Offer, TypeOK
  <2>2. \A n \in Nodes : dropped'[n] + Queued(queue', n) = dropped[n] + Queued(queue, n) + One(m = n)
    <3>1. CASE Len(queue) < QueueCap
      <4>1. queue' = Append(queue, m) /\ dropped' = dropped
        BY <1>10, <3>1 DEF Offer
      <4>2. \A n \in Nodes : Queued(queue', n) = Queued(queue, n) + One(m = n)
        BY <1>0, <2>1, <4>1, QueuedAppend DEF TypeOK
      <4> QED
        BY <1>a, <4>1, <4>2 DEF One
    <3>2. CASE ~(Len(queue) < QueueCap)
      <4>1. queue' = queue /\ dropped' = Bump(dropped, {m})
        BY <1>10, <3>2 DEF Offer
      <4>2. \A n \in Nodes : dropped'[n] = IF n = m THEN dropped[n] + 1 ELSE dropped[n]
        BY <1>0, <4>1, BumpType DEF TypeOK
      <4>3. ASSUME NEW n \in Nodes
            PROVE  dropped'[n] + Queued(queue', n) = dropped[n] + Queued(queue, n) + One(m = n)
        <5>1. CASE m = n
          <6>1. One(m = n) = 1 /\ dropped'[n] = dropped[n] + 1 /\ Queued(queue', n) = Queued(queue, n)
            BY <4>1, <4>2, <5>1 DEF One
          <6>2. dropped[n] \in Nat /\ Queued(queue, n) \in Nat
            BY <1>a
          <6> QED
            BY <6>1, <6>2
        <5>2. CASE m # n
          <6>1. One(m = n) = 0 /\ dropped'[n] = dropped[n] /\ Queued(queue', n) = Queued(queue, n)
            BY <4>1, <4>2, <5>2 DEF One
          <6>2. dropped[n] \in Nat /\ Queued(queue, n) \in Nat
            BY <1>a
          <6> QED
            BY <6>1, <6>2
        <5> QED
          BY <5>1, <5>2
      <4> QED
        BY <4>3
    <3> QED
      BY <3>1, <3>2
  <2>3. \A n \in Nodes : dropped'[n] \in Nat /\ Queued(queue', n) \in Nat
    BY <1>0, QueuedType DEF TypeOK, Counts
  <2>4. ASSUME NEW n \in Nodes PROVE Owed(n)' = Owed(n)
    <3>1. One(finalizing' = n) = 0 /\ One(finalizing = n) \in Nat
      BY <2>1 DEF One
    <3>2. dropped'[n] + Queued(queue', n) = dropped[n] + Queued(queue, n) + One(finalizing = n)
      BY <2>2
    <3>3. /\ open' = open /\ litter' = litter
          /\ One(call' # Idle /\ call'.n = n) = One(call # Idle /\ call.n = n)
          /\ One(opening' = n) = One(opening = n) /\ One(releaser' = n) = One(releaser = n)
      BY <2>1
    <3>4. /\ One(call # Idle /\ call.n = n) \in Nat
          /\ One(opening = n) \in Nat /\ One(releaser = n) \in Nat
      BY DEF One
    <3>5. /\ open[n] \in Nat /\ litter[n] \in Nat /\ dropped[n] \in Nat /\ Queued(queue, n) \in Nat
          /\ dropped'[n] \in Nat /\ Queued(queue', n) \in Nat
      BY <1>a, <2>3
    <3>6. /\ Owed(n) = open[n] + litter[n] + dropped[n]
                       + One(call # Idle /\ call.n = n) + One(opening = n) + One(finalizing = n)
                       + One(releaser = n) + Queued(queue, n)
          /\ Owed(n)' = open'[n] + litter'[n] + dropped'[n]
                       + One(call' # Idle /\ call'.n = n) + One(opening' = n) + One(finalizing' = n)
                       + One(releaser' = n) + Queued(queue', n)
      BY OwedIs
    <3> HIDE DEF m
    <3> QED
      BY <3>1, <3>2, <3>3, <3>4, <3>5, <3>6
  <2> QED
    BY <1>4, <2>1, <2>4
<1>11. CASE Take
  <2>1. releaser = "waiting" /\ UNCHANGED <<native, kotlin, finalizing>>
    BY <1>11 DEF Take
  <2>2. \A n \in Nodes : One(releaser' = n) + Queued(queue', n) = Queued(queue, n)
    <3>1. CASE interrupted
      <4>1. releaser' = "stopped" /\ queue' = queue
        BY <1>11, <3>1 DEF Take
      <4> QED
        BY <1>a, <4>1 DEF One
    <3>2. CASE ~interrupted
      <4>1. /\ queue # <<>> /\ queue' = Tail(queue)
            /\ releaser' = IF Head(queue) = Stop THEN "stopped" ELSE Head(queue)
        BY <1>11, <3>2 DEF Take
      <4>2. \A n \in Nodes : Queued(queue, n) = Queued(queue', n) + One(Head(queue) = n)
        BY <1>0, <4>1, QueuedTail DEF TypeOK
      <4>3. \A n \in Nodes : Queued(queue', n) \in Nat
        BY <1>0, QueuedType DEF TypeOK
      <4>4. \A n \in Nodes : One(releaser' = n) = One(Head(queue) = n)
        BY <4>1 DEF One
      <4> QED
        BY <4>2, <4>3, <4>4 DEF One
    <3> QED
      BY <3>1, <3>2
  <2>3. \A n \in Nodes : Queued(queue', n) \in Nat
    BY <1>0, QueuedType DEF TypeOK
  <2>4. ASSUME NEW n \in Nodes PROVE Owed(n)' = Owed(n)
    <3>1. One(releaser = n) = 0 /\ One(releaser' = n) \in Nat
      BY <2>1 DEF One
    <3>2. One(releaser' = n) + Queued(queue', n) = Queued(queue, n)
      BY <2>2
    <3>3. /\ open' = open /\ litter' = litter /\ dropped' = dropped
          /\ One(call' # Idle /\ call'.n = n) = One(call # Idle /\ call.n = n)
          /\ One(opening' = n) = One(opening = n) /\ One(finalizing' = n) = One(finalizing = n)
      BY <2>1
    <3>4. /\ One(call # Idle /\ call.n = n) \in Nat
          /\ One(opening = n) \in Nat /\ One(finalizing = n) \in Nat
      BY DEF One
    <3>5. /\ open[n] \in Nat /\ litter[n] \in Nat /\ dropped[n] \in Nat /\ Queued(queue, n) \in Nat
          /\ Queued(queue', n) \in Nat
      BY <1>a, <2>3
    <3>6. /\ Owed(n) = open[n] + litter[n] + dropped[n]
                       + One(call # Idle /\ call.n = n) + One(opening = n) + One(finalizing = n)
                       + One(releaser = n) + Queued(queue, n)
          /\ Owed(n)' = open'[n] + litter'[n] + dropped'[n]
                       + One(call' # Idle /\ call'.n = n) + One(opening' = n) + One(finalizing' = n)
                       + One(releaser' = n) + Queued(queue', n)
      BY OwedIs
    <3> QED
      BY <3>1, <3>2, <3>3, <3>4, <3>5, <3>6
  <2> QED
    BY <1>4, <2>1, <2>4
<1>12. ASSUME NEW name \in Names, CreateFile(name) PROVE Books'
  <2>1. PICK m \in Nodes : /\ state[m] = "free"
                           /\ tree' = [tree EXCEPT ![name] = m]
                           /\ state' = [state EXCEPT ![m] = "linked"]
                           /\ refs' = [refs EXCEPT ![m] = 0]
    BY <1>12 DEF CreateFile
  <2>2. tree[name] = None /\ call = Idle /\ UNCHANGED <<kotlin, release>>
    BY <1>12 DEF CreateFile
  <2>3. \A n \in Nodes : Owed(n)' = Owed(n)
    BY <2>2 DEF Owed
  <2>4. Owed(m) = 0 /\ refs[m] = 0
    BY <1>0, <2>1 DEF Books, FreeUnowed, RefsOwed
  <2>5. refs' = refs
    BY <1>0, <2>1, <2>4 DEF TypeOK, Counts
  <2>6. RefsOwed' /\ FreeUnowed'
    BY <1>0, <2>1, <2>3, <2>5 DEF Books, RefsOwed, FreeUnowed, TypeOK
  <2>7. \A a \in Names : tree[a] # m
    BY <1>0, <2>1 DEF Books, TreeLinked, TypeOK
  <2>8. TreeLinked' /\ CallHolds'
    BY <1>0, <2>1, <2>2, <2>7 DEF Books, TreeLinked, CallHolds, TypeOK
  <2> QED
    BY <2>6, <2>8 DEF Books
<1>13. ASSUME call \in Requests, Done, UNCHANGED <<open, dropped, opening, release>>
       PROVE  \A n \in Nodes : Owed(n)' = Owed(n)
  <2>1. call # Idle /\ call' = Idle /\ call.n \in Nodes
    BY <1>13 DEF Done, Requests, Idle
  <2>2. \A n \in Nodes : litter'[n] = IF n = call.n THEN litter[n] + 1 ELSE litter[n]
    BY <1>0, <1>13, BumpType DEF Done, TypeOK
  <2>3. ASSUME NEW n \in Nodes PROVE Owed(n)' = Owed(n)
    <3>1. One(call # Idle /\ call.n = n) = IF n = call.n THEN 1 ELSE 0
      BY <2>1 DEF One
    <3>2. One(call' # Idle /\ call'.n = n) = 0
      BY <2>1 DEF One
    <3> QED
      BY <1>a, <1>13, <2>2, <3>1, <3>2, OwedIs DEF One
  <2> QED
    BY <2>3
<1>14. CASE DeleteNode
  <2>1. call \in Requests /\ call # Idle
    BY <1>0, <1>14 DEF DeleteNode, TypeOK, Idle
  <2>2. call.n \in Nodes /\ call.name \in Names /\ state[call.n] = "linked"
    BY <1>0, <2>1 DEF Requests, Books, CallHolds, TreeLinked
  <2>3. /\ tree' = [a \in Names |-> IF tree[a] = call.n THEN None ELSE tree[a]]
        /\ state' = [state EXCEPT ![call.n] = "unlinked"]
        /\ refs' = refs /\ call' = Idle
    BY <1>14, <2>2 DEF DeleteNode, Done
  <2>4. \A n \in Nodes : Owed(n)' = Owed(n)
    BY <1>13, <1>14, <2>1 DEF DeleteNode
  <2>5. Owed(call.n) > 0
    BY <1>0, <2>1, <2>2, OwedPositive
  <2>6. RefsOwed' /\ FreeUnowed'
    BY <1>0, <2>2, <2>3, <2>4, <2>5 DEF Books, RefsOwed, FreeUnowed, TypeOK
  <2>7. TreeLinked' /\ CallHolds'
    BY <1>0, <2>2, <2>3 DEF Books, TreeLinked, CallHolds, TypeOK
  <2> QED
    BY <2>6, <2>7 DEF Books
<1>15. CASE Rename
  <2>1. call \in Requests /\ call # Idle
    BY <1>0, <1>15 DEF Rename, TypeOK, Idle
  <2>2. /\ call.n \in Nodes /\ call.name \in Names /\ call.new \in Names
        /\ tree[call.name] = call.n
    BY <1>0, <2>1 DEF Requests, Books, CallHolds
  <2>3. \A n \in Nodes : Owed(n)' = Owed(n)
    BY <1>13, <1>15, <2>1 DEF Rename
  <2>4. refs' = refs /\ call' = Idle
    BY <1>15 DEF Rename, Done
  <2>5. CASE call.new = call.name
    <3>1. UNCHANGED <<tree, state>>
      BY <1>15, <2>5 DEF Rename
    <3> QED
      BY <1>4, <2>3, <2>4, <3>1
  <2>6. CASE call.new # call.name
    <3> DEFINE taken == tree[call.new]
    <3>1. /\ tree' = [tree EXCEPT ![call.name] = None, ![call.new] = tree[call.name]]
          /\ state' = IF taken = None THEN state
                      ELSE [state EXCEPT ![taken] = IF refs[taken] = 0 THEN "free" ELSE "unlinked"]
          /\ crash' = IF taken # None /\ refs[taken] > 0 THEN "overwrite" ELSE crash
      BY <1>15, <2>2, <2>6 DEF Rename
    <3>2. taken # None => taken \in Nodes /\ refs[taken] = 0 /\ taken # call.n
      BY <1>0, <1>a, <2>2, <2>6, <3>1 DEF Usable, Books, TreeLinked, TypeOK
    <3>3. \A n \in Nodes : state'[n] = IF n = taken THEN "free" ELSE state[n]
      BY <1>0, <3>1, <3>2 DEF TypeOK
    <3>4. taken # None => Owed(taken) = 0
      BY <1>0, <3>2 DEF Books, RefsOwed
    <3>5. RefsOwed' /\ FreeUnowed'
      BY <1>0, <2>3, <2>4, <3>3, <3>4 DEF Books, RefsOwed, FreeUnowed
    <3>6. \A a \in Names : tree'[a] = IF a = call.new THEN call.n ELSE IF a = call.name THEN None ELSE tree[a]
      BY <1>0, <2>2, <2>6, <3>1 DEF TypeOK
    <3>7. \A a \in Names : a # call.new /\ tree[a] # None => tree[a] # taken
      BY <1>0, <2>2 DEF Books, TreeLinked
    <3> HIDE DEF taken
    <3>8. TreeLinked'
      BY <1>0, <2>2, <3>2, <3>3, <3>6, <3>7 DEF Books, TreeLinked, TypeOK
    <3>9. CallHolds'
      BY <2>4 DEF CallHolds
    <3> QED
      BY <3>5, <3>8, <3>9 DEF Books
  <2> QED
    BY <2>5, <2>6
<1>16. CASE Unmount \/ ClearQueue \/ OfferStop \/ Interrupt
  BY <1>16 DEF Unmount, ClearQueue, OfferStop, Interrupt, Usable
<1>20. CASE Refused
  <2>1. call \in Requests /\ UNCHANGED native /\ call' = Idle
    BY <1>0, <1>20 DEF Refused, Done, TypeOK
  <2>2. \A n \in Nodes : Owed(n)' = Owed(n)
    BY <1>13, <1>20, <2>1 DEF Refused
  <2> QED
    BY <1>4, <2>1, <2>2
<1>17. CASE UNCHANGED vars
  <2>1. \A n \in Nodes : Owed(n)' = Owed(n)
    BY <1>17 DEF vars, Owed
  <2> QED
    BY <1>4, <1>17, <2>1 DEF vars
<1>18. ASSUME NEW name \in Names, NEW new \in Names, Find("rename", name, new) PROVE Books'
  BY <1>1, <1>18
<1>19. ASSUME NEW name \in Names, Find("delete", name, name) PROVE Books'
  BY <1>1, <1>19
<1> QED
  BY <1>2, <1>3, <1>5, <1>6, <1>7, <1>8, <1>9, <1>10, <1>11, <1>12, <1>14, <1>15, <1>16, <1>17, <1>18,
     <1>19, <1>20 DEF Next

\* The invariant holds of a volume just mounted: nothing is referred to.
LEMMA InitInv == Init => Inv
<1> SUFFICES ASSUME Init PROVE Inv
  OBVIOUS
<1>1. TypeOK
  BY InitType
<1>2. TreeLinked
  BY DEF Init, TreeLinked, Range
<1>3. CallHolds
  BY DEF Init, CallHolds
<1>4. ASSUME NEW n \in Nodes PROVE Owed(n) = 0
  <2>1. open[n] = 0 /\ litter[n] = 0 /\ dropped[n] = 0
    BY DEF Init
  <2>2. /\ One(call # Idle /\ call.n = n) = 0 /\ One(opening = n) = 0 /\ One(finalizing = n) = 0
        /\ One(releaser = n) = 0
    BY DEF Init, One
  <2>3. Queued(queue, n) = 0
    BY QueuedEmpty DEF Init
  <2> QED
    BY <2>1, <2>2, <2>3, OwedIs
<1>5. RefsOwed /\ FreeUnowed
  BY <1>4 DEF Init, RefsOwed, FreeUnowed
<1> QED
  BY <1>1, <1>2, <1>3, <1>5 DEF Inv, Books

\* Unmount and a crash are for good.
LEMMA UsableBefore == ASSUME [Next]_vars, Usable' PROVE Usable
<1> USE DEF Usable
<1>1. ASSUME NEW op, NEW name, NEW new, Find(op, name, new) PROVE Usable
  BY <1>1 DEF Find
<1>2. ASSUME NEW name \in Names, OpenFind(name) \/ CreateFile(name) PROVE Usable
  BY <1>2 DEF OpenFind, CreateFile
<1>3. CASE ListAll \/ DeleteNode \/ Rename \/ Refused
  BY <1>3 DEF ListAll, DeleteNode, Rename, Refused
<1>4. ASSUME NEW fails \in BOOLEAN, OpenDone(fails) PROVE Usable
  BY <1>4 DEF OpenDone
<1>5. ASSUME NEW n \in Nodes, UseFile(n) \/ Close(n) \/ Finalize(n) PROVE Usable
  BY <1>5 DEF UseFile, Close, Finalize
<1>6. CASE Offer \/ Take \/ Release
  BY <1>6 DEF Offer, Take, Release, PutNode
<1>7. CASE Unmount \/ ClearQueue \/ OfferStop \/ Interrupt
  BY <1>7 DEF Unmount, ClearQueue, OfferStop, Interrupt
<1>8. CASE UNCHANGED vars
  BY <1>8 DEF vars
<1> QED
  BY <1>1, <1>2, <1>3, <1>4, <1>5, <1>6, <1>7, <1>8 DEF Next

\* Every step keeps the invariant.
LEMMA InvStep == Inv /\ [Next]_vars => Inv'
<1> SUFFICES ASSUME Inv, [Next]_vars PROVE Inv'
  OBVIOUS
<1>1. TypeOK'
  BY TypeStep DEF Inv
<1>2. ASSUME Usable' PROVE Books'
  BY <1>2, UsableBefore, BooksStep
<1> QED
  BY <1>1, <1>2 DEF Inv

\* The invariant always holds.
LEMMA Invariance == Spec => []Inv
  BY InitInv, InvStep, PTL DEF Spec

\* While mounted, the native count of each node is exactly what handles, requests, the
\* queue and the releaser will give back, and what was given up with the queue full.
THEOREM ReferencesAreOwed == Spec => []ReferencesOwed
<1>1. Inv => ReferencesOwed
  BY DEF Inv, Books, RefsOwed, ReferencesOwed, Usable
<1> QED
  BY Invariance, <1>1, PTL

\* While mounted, a deleted file's node lives exactly as long as something refers to it.
THEOREM UnlinkedStaysReferred == Spec => []UnlinkedIsReferred
<1>1. Inv => UnlinkedIsReferred
  BY DEF Inv, Books, FreeUnowed, UnlinkedIsReferred, Usable
<1> QED
  BY Invariance, <1>1, PTL

\* putNode by somebody who holds the node finds no bug.
LEMMA PutNodeSafe ==
    ASSUME Inv, Usable, NEW n \in Nodes, Owed(n) > 0, PutNode(n)
    PROVE  crash' = crash
<1>1. refs[n] > 0 /\ state[n] # "free"
  BY DEF Inv, Books, RefsOwed, FreeUnowed
<1> QED
  BY <1>1 DEF PutNode, Inv, TypeOK, Counts

\* No step but a rename to a name that is taken crashes.
LEMMA CrashStep == ASSUME Inv, crash = "no", [Next]_vars PROVE crash' \in {"no", "overwrite"}
<1> USE DEF native, kotlin, release
<1>0. TypeOK /\ (mounted = "yes" => Usable /\ Books)
  BY DEF Inv, Usable
<1>a. ASSUME mounted = "yes", NEW n \in Nodes, Owed(n) > 0 PROVE state[n] # "free"
  BY <1>0, <1>a DEF Books, FreeUnowed
<1>1. ASSUME NEW op, NEW name, NEW new, Find(op, name, new) PROVE crash' = "no"
  BY <1>1 DEF Find
<1>2. ASSUME NEW name \in Names, OpenFind(name) \/ CreateFile(name) PROVE crash' = "no"
  BY <1>2 DEF OpenFind, CreateFile
<1>3. CASE ListAll \/ Refused
  BY <1>3 DEF ListAll, Refused
<1>4. ASSUME NEW fails \in BOOLEAN, OpenDone(fails) PROVE crash' = "no"
  <2>1. opening \in Nodes
    BY <1>0, <1>4 DEF OpenDone, TypeOK
  <2>2. Owed(opening) > 0
    BY <1>0, <2>1, OwedPositive
  <2> QED
    BY <1>a, <1>4, <2>1, <2>2 DEF OpenDone
<1>5. ASSUME NEW n \in Nodes, UseFile(n) PROVE crash' = "no"
  <2>1. Owed(n) > 0
    BY <1>0, <1>5, OwedPositive DEF UseFile
  <2> QED
    BY <1>a, <1>5, <2>1 DEF UseFile, Usable
<1>6. ASSUME NEW n \in Nodes, Close(n) PROVE crash' = "no"
  <2>1. Owed(n) > 0
    BY <1>0, <1>6, OwedPositive DEF Close
  <2> QED
    BY <1>0, <1>6, <2>1, PutNodeSafe DEF Close
<1>7. ASSUME NEW n \in Nodes, Finalize(n) PROVE crash' = "no"
  BY <1>7 DEF Finalize
<1>8. CASE Offer \/ Take
  BY <1>8 DEF Offer, Take
<1>9. CASE Release
  <2>1. releaser \in Nodes /\ Owed(releaser) > 0
    BY <1>0, <1>9, OwedPositive DEF Release
  <2> QED
    BY <1>0, <1>9, <2>1, PutNodeSafe DEF Release
<1>10. CASE DeleteNode
  <2>1. call \in Requests /\ call # Idle /\ Books
    BY <1>0, <1>10 DEF DeleteNode, TypeOK, Idle, Usable
  <2>2. state[call.n] = "linked"
    BY <2>1 DEF Requests, Books, CallHolds, TreeLinked
  <2> QED
    BY <1>10, <2>2 DEF DeleteNode
<1>11. CASE Rename
  BY <1>11 DEF Rename
<1>12. CASE Unmount \/ ClearQueue \/ OfferStop \/ Interrupt
  BY <1>12 DEF Unmount, ClearQueue, OfferStop, Interrupt
<1>13. CASE UNCHANGED vars
  BY <1>13 DEF vars
<1> QED
  BY <1>1, <1>2, <1>3, <1>4, <1>5, <1>6, <1>7, <1>8, <1>9, <1>10, <1>11, <1>12, <1>13 DEF Next

\* After that one nothing is called any more.
LEMMA CrashLast == ASSUME crash = "overwrite", [Next]_vars PROVE crash' = "overwrite"
<1> USE DEF Usable, List
<1>1. ASSUME NEW op, NEW name, NEW new, Find(op, name, new) PROVE crash' = "overwrite"
  BY <1>1 DEF Find
<1>2. ASSUME NEW name \in Names, OpenFind(name) \/ CreateFile(name) PROVE crash' = "overwrite"
  BY <1>2 DEF OpenFind, CreateFile
<1>3. CASE ListAll \/ DeleteNode \/ Rename \/ Refused
  BY <1>3 DEF ListAll, DeleteNode, Rename, Refused
<1>4. ASSUME NEW fails \in BOOLEAN, OpenDone(fails) PROVE crash' = "overwrite"
  BY <1>4 DEF OpenDone
<1>5. ASSUME NEW n \in Nodes, UseFile(n) \/ Close(n) \/ Finalize(n) PROVE crash' = "overwrite"
  BY <1>5 DEF UseFile, Close, Finalize
<1>6. CASE Offer \/ Take \/ Release
  BY <1>6 DEF Offer, Take, Release
<1>7. CASE Unmount \/ ClearQueue \/ OfferStop \/ Interrupt
  BY <1>7 DEF Unmount, ClearQueue, OfferStop, Interrupt
<1>8. CASE UNCHANGED vars
  BY <1>8 DEF vars
<1> QED
  BY <1>1, <1>2, <1>3, <1>4, <1>5, <1>6, <1>7, <1>8 DEF Next

\* No native call aborts the process or touches freed memory, unmounted or not, but for a
\* rename to the name of a file that something still refers to.
THEOREM NoNativeCrashes == Spec => []NoNativeCrash
<1>1. Init => Inv /\ NoNativeCrash
  BY InitInv DEF Init, NoNativeCrash
<1>2. Inv /\ NoNativeCrash /\ [Next]_vars => (Inv /\ NoNativeCrash)'
  BY InvStep, CrashStep, CrashLast DEF NoNativeCrash
<1> QED
  BY <1>1, <1>2, PTL DEF Spec
=============================================================================
