------------------------- MODULE ScsiTransferProofs -------------------------
(***************************************************************************)
(* Proofs about module ScsiTransfer, for any length of a command's data      *)
(* phase, any number of recovery attempts and of commands: host and drive    *)
(* are in step whenever an attempt starts unless the drive refused a reset,  *)
(* and even then a command that succeeds did what was asked.                 *)
(***************************************************************************)
EXTENDS ScsiTransfer, SequenceTheorems, TLAPS

USE ScsiAssumption

-----------------------------------------------------------------------------
(* The inductive invariant.                                                 *)

DataPackets == [k : {"data"}, of : 0 .. MaxCommands, at : Places]
Csws == [k : {"csw"}, of : Nat, status : {"passed", "failed", "phaseError"}]
Packets == DataPackets \cup Csws

TypeInv ==
    /\ pc \in {"idle", "attempt", "data", "csw", "sense", "phaseError", "ioException",
               "pipeException", "ok", "thrown"}
    /\ kind \in {"read", "write"}
    /\ cmd \in 0 .. MaxCommands
    /\ attempt \in 0 .. MaxRecoveryAttempts
    /\ tag \in Nat
    /\ pos \in 0 .. Units
    /\ landed \in [Places -> 0 .. Units]
    /\ buffer \in [Places -> DataPackets]
    /\ pipe \in Seq(Packets)
    /\ pc = "csw" => pos = Units

FlagType == resetFailed \in BOOLEAN

\* Of the statuses the drive has queued only the last can be that of the last command, and
\* a write has none before its data is out.
Tagged ==
    \A i \in 1 .. Len(pipe) :
        pipe[i].k = "csw" =>
            \/ pipe[i].of < tag
            \/ pipe[i].of = tag /\ i = Len(pipe) /\ ~(kind = "write" /\ pc = "data")

\* A command that has read its own status has read all there was, and between attempts the
\* drive has nothing queued, unless it refused the last reset.
Drained ==
    /\ pc \in {"ok", "sense", "phaseError"} => pipe = <<>>
    /\ pc \in {"idle", "attempt", "thrown"} /\ ~resetFailed => pipe = <<>>

\* A read the drive has ended with "passed": what the buffer has and what is queued before
\* that status is at least the whole of the command's data.  If it is no more, the buffer
\* has the first part of it and the queue the rest.
ReadInOrder ==
    LET n == Len(pipe) IN
    kind = "read" /\ pc \in {"data", "csw"} /\ n > 0 /\ pipe[n] = Csw(tag, "passed") =>
        /\ pos + n > Units
        /\ pos + n = Units + 1 =>
               /\ \A p \in 1 .. pos : buffer[p] = DataPacket(cmd, p)
               /\ \A i \in 1 .. n - 1 : pipe[i] = DataPacket(cmd, pos + i)

\* What a write has sent is on the drive unit by unit.
WrittenInOrder ==
    kind = "write" /\ pc \in {"data", "csw"} =>
        \A p \in Places : landed[p] = IF p <= pos THEN p ELSE 0

Inv ==
    /\ TypeInv /\ FlagType /\ Tagged /\ Drained
    /\ ReadInOrder /\ WrittenInOrder /\ SuccessIsGenuine

-----------------------------------------------------------------------------
(* The drive's queue.                                                       *)

\* What is left of it after a few packets were read.
LEMMA FromProperties ==
    ASSUME pipe \in Seq(Packets), NEW k \in 1 .. Len(pipe) + 1
    PROVE  /\ From(k) \in Seq(Packets)
           /\ Len(From(k)) = Len(pipe) + 1 - k
           /\ \A i \in 1 .. Len(From(k)) : From(k)[i] = pipe[k + i - 1]
  BY SubSeqProperties DEF From

\* Reading one packet.
LEMMA TailProperties ==
    ASSUME pipe \in Seq(Packets), pipe # <<>>
    PROVE  /\ Tail(pipe) \in Seq(Packets) /\ Head(pipe) = pipe[1]
           /\ Len(pipe) \in Nat /\ Len(pipe) > 0
           /\ Len(Tail(pipe)) = Len(pipe) - 1
           /\ \A i \in 1 .. Len(Tail(pipe)) : Tail(pipe)[i] = pipe[i + 1]
           /\ \A i \in 1 .. Len(pipe) : pipe[i] \in Packets
  BY HeadTailProperties, ElementOfSeq

\* A status is a packet of its own kind.
LEMMA CswIs ==
    ASSUME NEW t \in Nat, NEW status \in {"passed", "failed", "phaseError"}
    PROVE  /\ Csw(t, status) \in Csws /\ Csw(t, status).k = "csw"
           /\ Csw(t, status).of = t /\ Csw(t, status).status = status
  BY DEF Csw, Csws

\* How a drive ends a command: what it queues behind q.
LEMMA AnswerQueued ==
    ASSUME NEW q \in Seq(Packets), NEW t \in Nat, NEW answer \in Answers(t)
    PROVE  \/ answer = <<>> /\ q \o answer = q
           \/ \E status \in {"passed", "failed", "phaseError"} :
                /\ answer = <<Csw(t, status)>>
                /\ q \o answer \in Seq(Packets)
                /\ Len(q \o answer) = Len(q) + 1
                /\ \A i \in 1 .. Len(q) : (q \o answer)[i] = q[i]
                /\ (q \o answer)[Len(q) + 1] = Csw(t, status)
<1>1. CASE answer = <<>>
  BY <1>1, ConcatEmptySeq
<1>2. ASSUME NEW status \in {"passed", "failed", "phaseError"}, answer = <<Csw(t, status)>>
      PROVE  /\ q \o answer \in Seq(Packets)
             /\ Len(q \o answer) = Len(q) + 1
             /\ \A i \in 1 .. Len(q) : (q \o answer)[i] = q[i]
             /\ (q \o answer)[Len(q) + 1] = Csw(t, status)
  <2> DEFINE c == Csw(t, status)
  <2>1. c \in Packets
    BY CswIs DEF Packets
  <2> HIDE DEF c
  <2>2. <<c>> \in Seq(Packets) /\ Len(<<c>>) = 1 /\ <<c>>[1] = c
    BY <2>1
  <2>3. answer = <<c>>
    BY <1>2 DEF c
  <2>4. answer \in Seq(Packets) /\ Len(answer) = 1 /\ answer[1] = c
    BY <2>2, <2>3
  <2>5. /\ q \o answer \in Seq(Packets)
        /\ Len(q \o answer) = Len(q) + 1
        /\ \A i \in 1 .. Len(q) : (q \o answer)[i] = q[i]
        /\ (q \o answer)[Len(q) + 1] = c
    BY <2>4, ConcatProperties
  <2> QED
    BY <2>5 DEF c
<1> QED
  BY <1>1, <1>2 DEF Answers

\* What a drive queues for a read: some of its data behind what was there.
LEMMA DataQueued ==
    ASSUME NEW n \in 0 .. Units, pipe \in Seq(Packets), cmd \in 0 .. MaxCommands
    PROVE  LET q == pipe \o [i \in 1 .. n |-> DataPacket(cmd, i)] IN
           /\ q \in Seq(Packets) /\ Len(q) = Len(pipe) + n
           /\ \A i \in 1 .. Len(pipe) : q[i] = pipe[i]
           /\ \A i \in 1 .. n : q[Len(pipe) + i] = DataPacket(cmd, i)
<1> DEFINE d == [i \in 1 .. n |-> DataPacket(cmd, i)]
<1>1. \A i \in 1 .. n : DataPacket(cmd, i) \in Packets
  BY DEF DataPacket, Packets, DataPackets, Places
<1>2. d \in Seq(Packets) /\ Len(d) = n /\ \A i \in 1 .. n : d[i] = DataPacket(cmd, i)
  <2>1. n \in Nat
    OBVIOUS
  <2>2. d \in [1 .. n -> Packets]
    BY <1>1
  <2>3. d \in Seq(Packets)
    BY <2>1, <2>2
  <2>4. DOMAIN d = 1 .. n
    OBVIOUS
  <2>5. Len(d) = n
    BY <2>1, <2>3, <2>4, LenProperties
  <2> QED
    BY <2>3, <2>5
<1> HIDE DEF d
<1>3. /\ pipe \o d \in Seq(Packets) /\ Len(pipe \o d) = Len(pipe) + n
      /\ \A i \in 1 .. Len(pipe) : (pipe \o d)[i] = pipe[i]
      /\ \A i \in 1 .. n : (pipe \o d)[Len(pipe) + i] = d[i]
  <2>1. /\ pipe \o d \in Seq(Packets) /\ Len(pipe \o d) = Len(pipe) + Len(d)
        /\ \A i \in 1 .. Len(pipe) + Len(d) :
               (pipe \o d)[i] = IF i <= Len(pipe) THEN pipe[i] ELSE d[i - Len(pipe)]
    BY <1>2, ConcatProperties
  <2>2. Len(pipe) \in Nat /\ n \in Nat
    BY LenProperties
  <2>3. ASSUME NEW i \in 1 .. n PROVE (pipe \o d)[Len(pipe) + i] = d[i]
    <3>1. Len(pipe) + i \in 1 .. Len(pipe) + n /\ ~(Len(pipe) + i <= Len(pipe))
      BY <2>2
    <3>2. Len(pipe) + i - Len(pipe) = i
      BY <2>2
    <3> QED
      BY <1>2, <2>1, <3>1, <3>2
  <2>4. ASSUME NEW i \in 1 .. Len(pipe) PROVE (pipe \o d)[i] = pipe[i]
    BY <1>2, <2>1, <2>2
  <2> QED
    BY <1>2, <2>1, <2>3, <2>4
<1> QED
  BY <1>2, <1>3 DEF d

-----------------------------------------------------------------------------
(* The steps.                                                               *)

\* The CBW and what the drive queues for it.  A "passed" is behind all of the data.
LEMMA SendCbwInv == Inv /\ SendCbw => Inv'
<1> SUFFICES ASSUME Inv, SendCbw PROVE Inv'
  OBVIOUS
<1>1. /\ pos' = 0 /\ tag' = tag + 1 /\ tag \in Nat /\ landed' = Nowhere /\ pc' = "data"
      /\ UNCHANGED <<kind, cmd, attempt, buffer, resetFailed>>
      /\ pipe \in Seq(Packets) /\ Len(pipe) \in Nat /\ cmd \in 0 .. MaxCommands
  BY LenProperties DEF SendCbw, loop, Inv, TypeInv
<1>2. \A i \in 1 .. Len(pipe) : pipe[i].k = "csw" => pipe[i].of < tag'
  <2>1. \A i \in 1 .. Len(pipe) : pipe[i] \in Packets
    BY <1>1, ElementOfSeq
  <2>2. \A i \in 1 .. Len(pipe) : pipe[i].k = "csw" => pipe[i].of \in Nat
    BY <2>1 DEF Packets, DataPackets, Csws
  <2> QED
    BY <1>1, <2>2 DEF Inv, Tagged
<1>3. pipe' \in Seq(Packets) /\ Tagged' /\ ReadInOrder'
  <2>1. CASE kind = "write"
    <3>1. pipe' = pipe
      BY <2>1 DEF SendCbw
    <3> QED
      BY <1>1, <1>2, <2>1, <3>1 DEF Tagged, ReadInOrder
  <2>2. CASE kind = "read"
    <3>1. PICK n \in 0 .. Units, answer \in Answers(tag + 1) :
             /\ answer = <<Csw(tag + 1, "passed")>> => n = Units
             /\ pipe' = pipe \o [i \in 1 .. n |-> DataPacket(cmd, i)] \o answer
      BY <2>2 DEF SendCbw
    <3> DEFINE q == pipe \o [i \in 1 .. n |-> DataPacket(cmd, i)]
    <3>2. /\ q \in Seq(Packets) /\ Len(q) = Len(pipe) + n
          /\ \A i \in 1 .. Len(pipe) : q[i] = pipe[i]
          /\ \A i \in 1 .. n : q[Len(pipe) + i] = DataPacket(cmd, i)
      BY <1>1, DataQueued
    <3>3. pipe' = q \o answer
      BY <3>1
    <3> HIDE DEF q
    <3>4. \A i \in 1 .. Len(q) : q[i].k = "csw" => q[i].of < tag'
      <4> SUFFICES ASSUME NEW i \in 1 .. Len(q), q[i].k = "csw" PROVE q[i].of < tag'
        OBVIOUS
      <4>1. CASE i \in 1 .. Len(pipe)
        BY <1>2, <3>2, <4>1
      <4>2. CASE ~(i \in 1 .. Len(pipe))
        <5>1. i - Len(pipe) \in 1 .. n /\ Len(pipe) + (i - Len(pipe)) = i
          BY <1>1, <3>2, <4>2
        <5>2. q[i] = DataPacket(cmd, i - Len(pipe))
          BY <3>2, <5>1
        <5> QED
          BY <5>2 DEF DataPacket
      <4> QED
        BY <4>1, <4>2
    <3>5. CASE answer = <<>>
      <4>1. pipe' = q
        BY <3>2, <3>3, <3>5, ConcatEmptySeq
      <4>2. ~(Len(q) > 0 /\ q[Len(q)] = Csw(tag', "passed"))
        <5>1. Len(q) \in Nat
          BY <3>2, LenProperties
        <5> QED
          BY <1>1, <3>4, <5>1, CswIs
      <4> QED
        BY <1>1, <3>2, <3>4, <4>1, <4>2 DEF Tagged, ReadInOrder
    <3>6. ASSUME NEW status \in {"passed", "failed", "phaseError"}, answer = <<Csw(tag', status)>>,
                 q \o answer \in Seq(Packets), Len(q \o answer) = Len(q) + 1,
                 \A i \in 1 .. Len(q) : (q \o answer)[i] = q[i],
                 (q \o answer)[Len(q) + 1] = Csw(tag', status)
          PROVE  pipe' \in Seq(Packets) /\ Tagged' /\ ReadInOrder'
      <4>1. /\ pipe' \in Seq(Packets) /\ Len(pipe') = Len(q) + 1 /\ Len(q) \in Nat
            /\ \A i \in 1 .. Len(q) : pipe'[i] = q[i]
            /\ pipe'[Len(pipe')] = Csw(tag', status)
        BY <3>2, <3>3, <3>6, LenProperties
      <4>2. Csw(tag', status).of = tag' /\ Csw(tag', status).status = status /\ Csw(tag', "passed").status = "passed"
        BY <1>1, CswIs
      <4>3. Tagged'
        <5> SUFFICES ASSUME NEW i \in 1 .. Len(pipe'), pipe'[i].k = "csw"
                     PROVE  pipe'[i].of < tag' \/ (pipe'[i].of = tag' /\ i = Len(pipe'))
          BY <1>1, <2>2 DEF Tagged
        <5>1. i \in 1 .. Len(q) \/ i = Len(pipe')
          BY <4>1
        <5> QED
          BY <3>4, <4>1, <4>2, <5>1
      <4>4. ASSUME pipe'[Len(pipe')] = Csw(tag', "passed")
            PROVE  /\ Len(pipe') > Units
                   /\ Len(pipe') = Units + 1 => \A i \in 1 .. Len(pipe') - 1 : pipe'[i] = DataPacket(cmd, i)
        <5>1. n = Units
          BY <1>1, <3>1, <3>6, <4>1, <4>2, <4>4
        <5>2. Len(pipe') = Len(pipe) + Units + 1
          BY <1>1, <3>2, <4>1, <5>1
        <5>3. Len(pipe') > Units
          BY <1>1, <5>2
        <5>4. ASSUME Len(pipe') = Units + 1, NEW i \in 1 .. Len(pipe') - 1
              PROVE  pipe'[i] = DataPacket(cmd, i)
          <6>1. Len(pipe) = 0 /\ i \in 1 .. Len(q) /\ i \in 1 .. n /\ Len(pipe) + i = i
            <7>1. Len(pipe) = 0
              BY <1>1, <5>2, <5>4
            <7>2. i \in 1 .. Units /\ Len(q) = Units
              BY <4>1, <5>4
            <7> QED
              BY <5>1, <7>1, <7>2
          <6> QED
            BY <3>2, <4>1, <6>1
        <5> QED
          BY <5>3, <5>4
      <4>5. ReadInOrder'
        BY <1>1, <4>4 DEF ReadInOrder
      <4> QED
        BY <4>1, <4>3, <4>5
    <3> QED
      BY <1>1, <3>2, <3>5, <3>6, AnswerQueued
  <2> QED
    BY <2>1, <2>2 DEF Inv, TypeInv
<1>4. WrittenInOrder'
  BY <1>1 DEF WrittenInOrder, Nowhere, Places
<1>5. TypeInv' /\ FlagType' /\ Drained' /\ SuccessIsGenuine'
  BY <1>1, <1>3 DEF Inv, TypeInv, FlagType, Drained, SuccessIsGenuine, Nowhere, Places
<1> QED
  BY <1>3, <1>4, <1>5 DEF Inv

\* A packet of data moves from the queue to the buffer.
LEMMA DataInInv == Inv /\ DataIn => Inv'
<1> SUFFICES ASSUME Inv, DataIn PROVE Inv'
  OBVIOUS
<1>1. /\ UNCHANGED <<pc, kind, cmd, attempt, tag, landed, resetFailed>>
      /\ pc = "data" /\ kind = "read" /\ pos < Units /\ pos' = pos + 1 /\ pipe' = Tail(pipe)
      /\ buffer' = [buffer EXCEPT ![pos + 1] = Head(pipe)]
      /\ pipe # <<>> /\ pipe \in Seq(Packets) /\ Head(pipe).k = "data"
      /\ pos \in 0 .. Units /\ buffer \in [Places -> DataPackets]
  BY DEF DataIn, loop, Inv, TypeInv
<1>2. /\ pipe' \in Seq(Packets) /\ Head(pipe) = pipe[1]
      /\ Len(pipe) \in Nat /\ Len(pipe) > 0
      /\ Len(pipe') = Len(pipe) - 1
      /\ \A i \in 1 .. Len(pipe') : pipe'[i] = pipe[i + 1]
      /\ \A i \in 1 .. Len(pipe) : pipe[i] \in Packets
  BY <1>1, TailProperties
<1>3. Head(pipe) \in DataPackets /\ pos + 1 \in Places
  BY <1>1, <1>2 DEF Packets, Csws, Places
<1>4. TypeInv'
  BY <1>1, <1>2, <1>3 DEF Inv, TypeInv
<1>5. Tagged'
  <2>1. \A i \in 1 .. Len(pipe') : i + 1 \in 1 .. Len(pipe) /\ (i + 1 = Len(pipe) => i = Len(pipe'))
    BY <1>2
  <2> QED
    BY <1>1, <1>2, <2>1 DEF Inv, Tagged
<1>6. ReadInOrder'
  <2> SUFFICES ASSUME Len(pipe') > 0, pipe'[Len(pipe')] = Csw(tag, "passed")
               PROVE  /\ pos' + Len(pipe') > Units
                      /\ pos' + Len(pipe') = Units + 1 =>
                           /\ \A p \in 1 .. pos' : buffer'[p] = DataPacket(cmd, p)
                           /\ \A i \in 1 .. Len(pipe') - 1 : pipe'[i] = DataPacket(cmd, pos' + i)
    BY <1>1 DEF ReadInOrder
  <2>1. pipe[Len(pipe)] = Csw(tag, "passed")
    BY <1>2
  <2>2. /\ pos + Len(pipe) > Units
        /\ pos + Len(pipe) = Units + 1 =>
               /\ \A p \in 1 .. pos : buffer[p] = DataPacket(cmd, p)
               /\ \A i \in 1 .. Len(pipe) - 1 : pipe[i] = DataPacket(cmd, pos + i)
    BY <1>1, <1>2, <2>1 DEF Inv, ReadInOrder
  <2>3. pos' + Len(pipe') = pos + Len(pipe)
    BY <1>1, <1>2
  <2>4. ASSUME pos + Len(pipe) = Units + 1, NEW p \in 1 .. pos' PROVE buffer'[p] = DataPacket(cmd, p)
    <3>1. CASE p = pos + 1
      <4>1. 1 \in 1 .. Len(pipe) - 1
        BY <1>1, <1>2
      <4> QED
        BY <1>1, <1>2, <1>3, <2>2, <2>4, <3>1, <4>1
    <3>2. CASE p # pos + 1
      <4>1. p \in 1 .. pos /\ p \in Places
        BY <1>1, <2>4, <3>2 DEF Places
      <4> QED
        BY <1>1, <2>2, <2>4, <3>2, <4>1
    <3> QED
      BY <3>1, <3>2
  <2>5. ASSUME pos + Len(pipe) = Units + 1, NEW i \in 1 .. Len(pipe') - 1
        PROVE  pipe'[i] = DataPacket(cmd, pos' + i)
    <3>1. i + 1 \in 1 .. Len(pipe) - 1 /\ pos + (i + 1) = pos' + i /\ i \in 1 .. Len(pipe')
      BY <1>1, <1>2
    <3> QED
      BY <1>2, <2>2, <2>5, <3>1
  <2> QED
    BY <2>2, <2>3, <2>4, <2>5
<1>7. WrittenInOrder' /\ SuccessIsGenuine' /\ Drained'
  BY <1>1 DEF WrittenInOrder, SuccessIsGenuine, Drained
<1>8. FlagType'
  BY <1>1 DEF Inv, FlagType
<1> QED
  BY <1>4, <1>5, <1>6, <1>7, <1>8 DEF Inv

\* A unit of a write lands at the next place.
LEMMA DataOutInv == Inv /\ DataOut => Inv'
<1> SUFFICES ASSUME Inv, DataOut PROVE Inv'
  OBVIOUS
<1>1. /\ UNCHANGED <<pc, kind, cmd, attempt, tag, buffer, pipe, resetFailed>>
      /\ pc = "data" /\ kind = "write" /\ pos < Units /\ pos' = pos + 1
      /\ pos \in 0 .. Units /\ landed \in [Places -> 0 .. Units]
  BY DEF DataOut, loop, Inv, TypeInv
<1>2. PICK p \in Places : /\ landed[p] = 0 /\ \A q \in 1 .. p - 1 : landed[q] # 0
                          /\ landed' = [landed EXCEPT ![p] = pos + 1]
  BY DEF DataOut
<1>3. \A q \in Places : landed[q] = IF q <= pos THEN q ELSE 0
  BY <1>1 DEF Inv, WrittenInOrder
<1>4. p = pos + 1
  <2>1. ~(p <= pos)
    BY <1>2, <1>3 DEF Places
  <2>2. ~(pos + 1 \in 1 .. p - 1)
    BY <1>1, <1>2, <1>3 DEF Places
  <2> QED
    BY <1>1, <2>1, <2>2 DEF Places
<1>5. WrittenInOrder'
  <2> SUFFICES ASSUME NEW q \in Places PROVE landed'[q] = IF q <= pos + 1 THEN q ELSE 0
    BY <1>1 DEF WrittenInOrder
  <2>1. landed'[q] = IF q = pos + 1 THEN pos + 1 ELSE landed[q]
    BY <1>1, <1>2, <1>4
  <2>2. landed[q] = IF q <= pos THEN q ELSE 0
    BY <1>3
  <2> QED
    BY <1>1, <2>1, <2>2 DEF Places
<1>6. TypeInv'
  BY <1>1, <1>2 DEF Inv, TypeInv
<1>7. Tagged' /\ Drained' /\ ReadInOrder' /\ SuccessIsGenuine'
  BY <1>1 DEF Inv, Tagged, Drained, ReadInOrder, SuccessIsGenuine
<1>8. FlagType'
  BY <1>1 DEF Inv, FlagType
<1> QED
  BY <1>5, <1>6, <1>7, <1>8 DEF Inv

\* The data phase ends, and the drive may end a write.
LEMMA DataDoneInv == Inv /\ DataDone => Inv'
<1> SUFFICES ASSUME Inv, DataDone PROVE Inv'
  OBVIOUS
<1>1. /\ UNCHANGED <<kind, cmd, attempt, tag, pos, buffer, landed, resetFailed>>
      /\ pc = "data" /\ pos = Units /\ pc' = "csw" /\ tag \in Nat
      /\ pipe \in Seq(Packets) /\ Len(pipe) \in Nat
  BY LenProperties DEF DataDone, loop, Inv, TypeInv
<1>2. pipe' \in Seq(Packets) /\ Tagged' /\ ReadInOrder'
  <2>1. CASE kind = "read"
    <3>1. pipe' = pipe
      BY <2>1 DEF DataDone
    <3> QED
      BY <1>1, <2>1, <3>1 DEF Inv, Tagged, ReadInOrder
  <2>2. CASE kind = "write"
    <3>1. PICK answer \in Answers(tag) : pipe' = pipe \o answer
      BY <2>2 DEF DataDone
    <3>2. \A i \in 1 .. Len(pipe) : pipe[i].k = "csw" => pipe[i].of < tag
      BY <1>1, <2>2 DEF Inv, Tagged
    <3>3. CASE pipe' = pipe
      BY <1>1, <2>2, <3>2, <3>3 DEF Tagged, ReadInOrder
    <3>4. ASSUME NEW status \in {"passed", "failed", "phaseError"},
                 pipe' \in Seq(Packets), Len(pipe') = Len(pipe) + 1,
                 \A i \in 1 .. Len(pipe) : pipe'[i] = pipe[i],
                 pipe'[Len(pipe) + 1] = Csw(tag, status)
          PROVE  pipe' \in Seq(Packets) /\ Tagged' /\ ReadInOrder'
      <4>1. Csw(tag, status).of = tag
        BY <1>1, CswIs
      <4>2. \A i \in 1 .. Len(pipe') : i \in 1 .. Len(pipe) \/ i = Len(pipe')
        BY <1>1, <3>4
      <4> QED
        BY <1>1, <2>2, <3>2, <3>4, <4>1, <4>2 DEF Tagged, ReadInOrder
    <3> QED
      BY <1>1, <3>1, <3>3, <3>4, AnswerQueued
  <2> QED
    BY <2>1, <2>2 DEF Inv, TypeInv
<1>3. TypeInv' /\ Drained' /\ WrittenInOrder' /\ SuccessIsGenuine'
  BY <1>1, <1>2 DEF Inv, TypeInv, Drained, WrittenInOrder, SuccessIsGenuine
<1>4. FlagType'
  BY <1>1 DEF Inv, FlagType
<1> QED
  BY <1>2, <1>3, <1>4 DEF Inv

\* A status with the command's own tag is the last thing the drive has queued; if it says
\* "passed", the data before it went where it belongs.
LEMMA ReadCswInv == Inv /\ ReadCsw => Inv'
<1> SUFFICES ASSUME Inv, ReadCsw PROVE Inv'
  OBVIOUS
<1>1. /\ UNCHANGED <<kind, cmd, attempt, tag, pos, buffer, landed, resetFailed>>
      /\ pc = "csw" /\ pos = Units /\ tag \in Nat /\ pipe' = Tail(pipe)
      /\ pipe # <<>> /\ pipe \in Seq(Packets)
  BY DEF ReadCsw, loop, Inv, TypeInv
<1>2. /\ pipe' \in Seq(Packets) /\ Head(pipe) = pipe[1]
      /\ Len(pipe) \in Nat /\ Len(pipe) > 0
      /\ Len(pipe') = Len(pipe) - 1
      /\ \A i \in 1 .. Len(pipe') : pipe'[i] = pipe[i + 1]
      /\ \A i \in 1 .. Len(pipe) : pipe[i] \in Packets
  BY <1>1, TailProperties
<1>3. pc' \in {"ioException", "ok", "sense", "phaseError"}
  BY DEF ReadCsw
<1>4. ASSUME pc' # "ioException" PROVE pipe' = <<>> /\ Len(pipe) = 1 /\ pipe[1] \in Csws /\ pipe[1].of = tag
  <2>1. pipe[1].k = "csw" /\ pipe[1].of = tag
    BY <1>2, <1>4 DEF ReadCsw, ValidCsw
  <2>2. Len(pipe) = 1
    <3>1. 1 \in 1 .. Len(pipe) /\ ~(pipe[1].of < tag)
      BY <1>1, <1>2, <2>1
    <3> QED
      BY <2>1, <3>1 DEF Inv, Tagged
  <2>3. pipe' = <<>>
    BY <1>2, <2>2, EmptySeq
  <2>4. pipe[1] \in Csws
    BY <1>2, <2>1, <2>2 DEF Packets, DataPackets
  <2> QED
    BY <2>1, <2>2, <2>3, <2>4
<1>5. SuccessIsGenuine'
  <2> SUFFICES ASSUME pc' = "ok", NEW p \in Places
               PROVE  IF kind = "read" THEN buffer[p] = DataPacket(cmd, p) ELSE landed[p] = p
    BY <1>1 DEF SuccessIsGenuine
  <2>1. pipe[1].status = "passed"
    BY <1>2 DEF ReadCsw
  <2>2. CASE kind = "read"
    <3>1. pipe[1] = Csw(tag, "passed")
      BY <1>4, <2>1 DEF Csw, Csws
    <3>2. pos + Len(pipe) = Units + 1
      BY <1>1, <1>4
    <3>3. p \in 1 .. pos
      BY <1>1 DEF Places
    <3> QED
      BY <1>1, <1>4, <2>2, <3>1, <3>2, <3>3 DEF Inv, ReadInOrder
  <2>3. CASE kind = "write"
    BY <1>1, <2>3 DEF Inv, WrittenInOrder, Places
  <2> QED
    BY <2>2, <2>3 DEF Inv, TypeInv
<1>6. Tagged'
  <2>1. \A i \in 1 .. Len(pipe') : i + 1 \in 1 .. Len(pipe) /\ (i + 1 = Len(pipe) => i = Len(pipe'))
    BY <1>2
  <2> QED
    BY <1>1, <1>2, <1>3, <2>1 DEF Inv, Tagged
<1>7. TypeInv' /\ Drained' /\ WrittenInOrder' /\ ReadInOrder'
  BY <1>1, <1>2, <1>3, <1>4 DEF Inv, TypeInv, Drained, WrittenInOrder, ReadInOrder
<1>8. FlagType'
  BY <1>1 DEF Inv, FlagType
<1> QED
  BY <1>5, <1>6, <1>7, <1>8 DEF Inv

\* A status where data was due ends the data phase, whatever is read after it.
LEMMA DataInShortInv == Inv /\ DataInShort => Inv'
<1> SUFFICES ASSUME Inv, DataInShort PROVE Inv'
  OBVIOUS
<1>1. PICK k \in 2 .. Len(pipe) + 1 : pipe' = From(k)
  BY DEF DataInShort
<1>2. /\ UNCHANGED <<kind, cmd, attempt, tag, pos, buffer, landed, resetFailed>>
      /\ pc' \in {"ioException", "pipeException"}
      /\ pipe \in Seq(Packets) /\ Len(pipe) \in Nat
  BY LenProperties DEF DataInShort, loop, Inv, TypeInv
<1>3. k \in 1 .. Len(pipe) + 1
  BY <1>2
<1>4. /\ pipe' \in Seq(Packets) /\ Len(pipe') = Len(pipe) + 1 - k
      /\ \A i \in 1 .. Len(pipe') : pipe'[i] = pipe[k + i - 1]
  BY <1>1, <1>2, <1>3, FromProperties
<1>5. Tagged'
  <2>1. \A i \in 1 .. Len(pipe') : /\ k + i - 1 \in 1 .. Len(pipe)
                                   /\ k + i - 1 = Len(pipe) => i = Len(pipe')
    BY <1>2, <1>3, <1>4
  <2> QED
    BY <1>2, <1>4, <2>1 DEF Inv, Tagged
<1>6. TypeInv' /\ Drained' /\ WrittenInOrder' /\ ReadInOrder' /\ SuccessIsGenuine'
  BY <1>2, <1>4 DEF Inv, TypeInv, Drained, WrittenInOrder, ReadInOrder, SuccessIsGenuine
<1>7. FlagType'
  BY <1>2 DEF Inv, FlagType
<1> QED
  BY <1>5, <1>6, <1>7 DEF Inv

\* A request for sense that fails leaves at most its own status behind.
LEMMA SenseFailInv == Inv /\ SenseFail => Inv'
<1> SUFFICES ASSUME Inv, SenseFail PROVE Inv'
  OBVIOUS
<1>1. /\ UNCHANGED <<kind, cmd, attempt, pos, buffer, landed, resetFailed>>
      /\ pc' = "ioException" /\ tag' = tag + 1 /\ tag \in Nat /\ pipe = <<>>
  BY DEF SenseFail, loop, Inv, TypeInv, Drained
<1>2. PICK k \in 1 .. Len(pipe) + 1 : pipe' = From(k) \/ pipe' = Append(From(k), Csw(tag + 1, "passed"))
  BY DEF SenseFail
<1>3. From(k) = <<>>
  BY <1>1 DEF From
<1>4. pipe' = <<>> \/ pipe' = <<Csw(tag', "passed")>>
  BY <1>1, <1>2, <1>3
<1>5. pipe' \in Seq(Packets) /\ Tagged'
  <2> DEFINE c == Csw(tag', "passed")
  <2>1. c \in Packets /\ c.of = tag'
    BY <1>1, CswIs DEF Packets
  <2> HIDE DEF c
  <2>2. CASE pipe' = <<>>
    BY <2>2 DEF Tagged
  <2>3. CASE pipe' = <<c>>
    BY <1>1, <2>1, <2>3 DEF Tagged
  <2> QED
    BY <1>4, <2>2, <2>3 DEF c
<1>6. TypeInv' /\ Drained' /\ WrittenInOrder' /\ ReadInOrder' /\ SuccessIsGenuine'
  BY <1>1, <1>5 DEF Inv, TypeInv, Drained, WrittenInOrder, ReadInOrder, SuccessIsGenuine
<1>7. FlagType'
  BY <1>1 DEF Inv, FlagType
<1> QED
  BY <1>5, <1>6, <1>7 DEF Inv

\* A step that leaves the queue as it is, or empties it, and sends nothing.
LEMMA QuietTagged ==
    ASSUME Inv, pipe' = pipe \/ pipe' = <<>>, tag' = tag \/ tag' = tag + 1,
           kind' = kind, pc' # "data"
    PROVE  pipe' \in Seq(Packets) /\ Tagged'
<1>1. pipe \in Seq(Packets) /\ tag \in Nat
  BY DEF Inv, TypeInv
<1>2. \A i \in 1 .. Len(pipe) : pipe[i].k = "csw" => pipe[i].of \in Nat
  BY <1>1, ElementOfSeq DEF Packets, DataPackets, Csws
<1>3. CASE pipe' = <<>>
  BY <1>3 DEF Tagged
<1>4. CASE pipe' = pipe
  BY <1>1, <1>2, <1>4 DEF Inv, Tagged
<1> QED
  BY <1>3, <1>4

\* A failed bulk transfer leaves everything where it is.
LEMMA BulkFailInv == Inv /\ BulkFail => Inv'
<1> SUFFICES ASSUME Inv, BulkFail PROVE Inv'
  OBVIOUS
<1>1. /\ UNCHANGED <<kind, cmd, attempt, buffer, landed, pipe, resetFailed>>
      /\ pc' \in {"ioException", "pipeException"} /\ (tag' = tag \/ tag' = tag + 1)
      /\ (pos' = pos \/ pos' = 0)
  BY DEF BulkFail, loop
<1>2. pipe' \in Seq(Packets) /\ Tagged'
  BY <1>1, QuietTagged
<1>3. TypeInv' /\ Drained' /\ WrittenInOrder' /\ ReadInOrder' /\ SuccessIsGenuine'
  BY <1>1, <1>2 DEF Inv, TypeInv, Drained, WrittenInOrder, ReadInOrder, SuccessIsGenuine
<1>4. FlagType'
  BY <1>1 DEF Inv, FlagType
<1> QED
  BY <1>2, <1>3, <1>4 DEF Inv

\* The end of an attempt, by a sense request, a phase error or Reset Recovery: the next
\* attempt starts, or the command is thrown, with nothing queued unless the reset failed.
LEMMA AttemptEndsInv == Inv /\ (RequestSense \/ PhaseError \/ RecoverIo \/ RecoverPipe) => Inv'
<1> SUFFICES ASSUME Inv, RequestSense \/ PhaseError \/ RecoverIo \/ RecoverPipe PROVE Inv'
  OBVIOUS
<1>1. /\ UNCHANGED <<kind, cmd, pos, buffer, landed>>
      /\ pc' \in {"attempt", "thrown", "ioException"}
      /\ (tag' = tag \/ tag' = tag + 1)
      /\ (pipe' = pipe \/ pipe' = <<>>)
      /\ attempt' = attempt \/ (attempt < MaxRecoveryAttempts /\ attempt' = attempt + 1)
  BY DEF RequestSense, PhaseError, RecoverIo, RecoverPipe, Again, Reset, ResetFails, loop
<1>2. FlagType'
  BY DEF RequestSense, PhaseError, RecoverIo, RecoverPipe, Again, Reset, ResetFails, Inv, FlagType
<1>3. pipe' = <<>> \/ resetFailed'
  <2>1. CASE RequestSense
    BY <2>1 DEF RequestSense
  <2>2. CASE PhaseError \/ RecoverIo \/ RecoverPipe
    BY <2>2 DEF PhaseError, RecoverIo, RecoverPipe, Reset, ResetFails
  <2> QED
    BY <2>1, <2>2
<1>4. pipe' \in Seq(Packets) /\ Tagged'
  BY <1>1, QuietTagged
<1>5. TypeInv'
  BY <1>1, <1>4 DEF Inv, TypeInv
<1>6. Drained' /\ WrittenInOrder' /\ ReadInOrder' /\ SuccessIsGenuine'
  BY <1>1, <1>3 DEF Drained, WrittenInOrder, ReadInOrder, SuccessIsGenuine
<1> QED
  BY <1>2, <1>4, <1>5, <1>6 DEF Inv

\* The next read or write is called.
LEMMA CallInv == ASSUME NEW k \in {"read", "write"}, Inv, Call(k) PROVE Inv'
<1>1. /\ pc \in {"idle", "ok", "thrown"} /\ cmd < MaxCommands /\ pc' = "attempt" /\ kind' = k
      /\ cmd' = cmd + 1 /\ attempt' = 0 /\ buffer' = Unread /\ landed' = Nowhere
      /\ UNCHANGED <<tag, pos, pipe, resetFailed>>
  BY DEF Call
<1>2. Unread \in [Places -> DataPackets] /\ Nowhere \in [Places -> 0 .. Units]
  BY DEF Unread, Nowhere, DataPacket, DataPackets, Places
<1>3. TypeInv'
  BY <1>1, <1>2 DEF Inv, TypeInv
<1>4. Tagged'
  BY <1>1 DEF Inv, Tagged
<1>5. Drained'
  BY <1>1 DEF Inv, Drained
<1>6. WrittenInOrder' /\ ReadInOrder' /\ SuccessIsGenuine'
  BY <1>1 DEF WrittenInOrder, ReadInOrder, SuccessIsGenuine
<1>7. FlagType'
  BY <1>1 DEF Inv, FlagType
<1> QED
  BY <1>3, <1>4, <1>5, <1>6, <1>7 DEF Inv

-----------------------------------------------------------------------------
(* The invariant holds, and what it gives.                                  *)

\* Before the first command nothing is queued.
LEMMA InitInv == Init => Inv
<1> SUFFICES ASSUME Init PROVE Inv
  OBVIOUS
<1>1. Unread \in [Places -> DataPackets] /\ Nowhere \in [Places -> 0 .. Units]
  BY DEF Unread, Nowhere, DataPacket, DataPackets, Places
<1>2. TypeInv
  BY <1>1 DEF Init, TypeInv
<1>3. FlagType
  BY DEF Init, FlagType
<1>4. Tagged /\ Drained /\ WrittenInOrder /\ ReadInOrder /\ SuccessIsGenuine
  BY DEF Init, Tagged, Drained, WrittenInOrder, ReadInOrder, SuccessIsGenuine
<1> QED
  BY <1>2, <1>3, <1>4 DEF Inv

\* Every step of host and drive keeps the invariant.
LEMMA StepInv == Inv /\ [Next]_vars => Inv'
<1> SUFFICES ASSUME Inv, [Next]_vars PROVE Inv'
  OBVIOUS
<1>1. CASE UNCHANGED vars
  <2>1. FlagType'
    BY <1>1 DEF vars, Inv, FlagType
  <2>2. TypeInv' /\ Tagged' /\ Drained' /\ WrittenInOrder' /\ ReadInOrder' /\ SuccessIsGenuine'
    BY <1>1 DEF vars, Inv, TypeInv, Tagged, Drained, WrittenInOrder, ReadInOrder, SuccessIsGenuine
  <2> QED
    BY <2>1, <2>2 DEF Inv
<1>2. ASSUME NEW k \in {"read", "write"}, Call(k) PROVE Inv'
  BY <1>2, CallInv
<1>3. CASE CommandStep
  BY <1>3, SendCbwInv, DataInInv, DataInShortInv, DataOutInv, DataDoneInv, ReadCswInv, BulkFailInv,
     SenseFailInv, AttemptEndsInv DEF CommandStep
<1> QED
  BY <1>1, <1>2, <1>3 DEF Next

\* The invariant holds in every reachable state.
THEOREM Invariant == Spec => []Inv
  BY InitInv, StepInv, PTL DEF Spec

\* Every variable has its type, and no status carries a tag that was not sent.
THEOREM TypeCorrect == Spec => []TypeOK
<1>1. Inv => TypeOK
  <2> SUFFICES ASSUME Inv PROVE TypeOK
    OBVIOUS
  <2>1. \A p \in DOMAIN pipe : pipe[p].k = "csw" => pipe[p].of <= tag
    <3>1. DOMAIN pipe = 1 .. Len(pipe) /\ \A p \in 1 .. Len(pipe) : pipe[p] \in Packets
      <4>1. pipe \in Seq(Packets)
        BY DEF Inv, TypeInv
      <4> QED
        BY <4>1, LenProperties, ElementOfSeq
    <3>2. \A p \in 1 .. Len(pipe) : pipe[p].k = "csw" => pipe[p].of \in Nat
      BY <3>1 DEF Packets, DataPackets, Csws
    <3>3. tag \in Nat
      BY DEF Inv, TypeInv
    <3> SUFFICES ASSUME NEW p \in 1 .. Len(pipe), pipe[p].k = "csw" PROVE pipe[p].of <= tag
      BY <3>1
    <3>4. pipe[p].of < tag \/ pipe[p].of = tag
      BY DEF Inv, Tagged
    <3> QED
      BY <3>2, <3>3, <3>4
  <2>2. resetFailed \in BOOLEAN
    BY DEF Inv, FlagType
  <2> QED
    BY <2>1, <2>2 DEF Inv, TypeInv, DataPackets, TypeOK
<1> QED
  BY <1>1, Invariant, PTL

\* transferCommand: a read that succeeds has this command's data, each unit in its place, and a
\* write that succeeds has put each unit in its place, whatever was left queued before it and
\* whether or not resets worked.
THEOREM SuccessStaysGenuine == Spec => []SuccessIsGenuine
<1>1. Inv => SuccessIsGenuine
  BY DEF Inv
<1> QED
  BY <1>1, Invariant, PTL

\* transferCommand: an attempt starts with nothing queued in the drive, unless the drive refused
\* the last reset.
THEOREM AttemptsStartInStep == Spec => []InStepUnlessResetFailed
<1>1. Inv => InStepUnlessResetFailed
  BY DEF Inv, Drained, InStepUnlessResetFailed
<1> QED
  BY <1>1, Invariant, PTL
=============================================================================
