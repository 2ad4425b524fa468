---------------------------- MODULE ScsiTransfer ----------------------------
(***************************************************************************)
(* One SCSI command over Bulk-Only Transport: transferCommand and          *)
(* transferOneCommand of the forked libaums                                *)
(* (libaums/.../driver/scsi/ScsiBlockDevice.kt).                           *)
(*                                                                         *)
(* A command is a CBW, its data phase of Units packets and a CSW carrying  *)
(* the CBW's tag.  The drive is external.  It queues what it sends, and a  *)
(* failed transfer leaves the rest of it queued until a Bulk-Only reset:   *)
(* the host cannot tell one packet from another except by reading a CSW.   *)
(* A packet of data is identified by its command and its place in it, so   *)
(* that what a buffer ends up with can be compared with what was asked.    *)
(***************************************************************************)
EXTENDS Naturals, Sequences

CONSTANTS
    Units,                \* packets of a command's data phase
    MaxRecoveryAttempts,  \* MAX_RECOVERY_ATTEMPTS
    MaxCommands           \* bound on the commands of a behaviour

ASSUME ScsiAssumption ==
    Units \in Nat \ {0} /\ MaxRecoveryAttempts \in Nat /\ MaxCommands \in Nat

VARIABLES
    pc,        \* where transferCommand is
    kind,      \* "read" or "write"
    cmd,       \* the number of the command, for telling their data apart
    attempt,   \* the loop's i
    tag,       \* cbwTagCounter
    pos,       \* the buffer's position, in units
    buffer,    \* a read's buffer: the packet at each unit
    landed,    \* a write on the drive: which unit of the buffer is at each place
    pipe,      \* what the drive has queued for the host
    resetFailed  \* history: the last reset did not work

vars == <<pc, kind, cmd, attempt, tag, pos, buffer, landed, pipe, resetFailed>>
loop == <<kind, cmd, attempt>>

Places == 1 .. Units

Nowhere == [p \in Places |-> 0]

DataPacket(c, i) == [k |-> "data", of |-> c, at |-> i]
Unread == [p \in Places |-> DataPacket(0, p)]
Csw(t, status)   == [k |-> "csw", of |-> t, status |-> status]

\* How the drive may end command t: with a status, or not at all.
Answers(t) == {<<>>} \cup {<<Csw(t, status)>> : status \in {"passed", "failed", "phaseError"}}

Init ==
    /\ pc = "idle" /\ kind = "read" /\ cmd = 0 /\ attempt = 0 /\ tag = 0 /\ pos = 0
    /\ buffer = Unread /\ landed = Nowhere
    /\ pipe = <<>> /\ resetFailed = FALSE

\* read() or write() is called.
Call(k) ==
    /\ pc \in {"idle", "ok", "thrown"}
    /\ cmd < MaxCommands
    /\ pc' = "attempt"
    /\ kind' = k
    /\ cmd' = cmd + 1
    /\ attempt' = 0
    /\ buffer' = Unread /\ landed' = Nowhere
    /\ UNCHANGED <<tag, pos, pipe, resetFailed>>

-----------------------------------------------------------------------------
(* transferOneCommand.                                                     *)

\* The buffer is rewound to the caller's window, and the CBW is sent with the next
\* tag.  The drive answers a read with its data, or some of it, and a status, unless
\* it hangs before that.  A drive that calls a read passed has sent all of it: one that
\* reports less with a residue, which the code does not look at, is left out.
SendCbw ==
    /\ pc = "attempt"
    /\ pos' = 0
    /\ tag' = tag + 1
    /\ landed' = Nowhere
    /\ IF kind = "read"
       THEN \E n \in 0 .. Units, answer \in Answers(tag + 1) :
              /\ answer = <<Csw(tag + 1, "passed")>> => n = Units
              /\ pipe' = pipe \o [i \in 1 .. n |-> DataPacket(cmd, i)] \o answer
       ELSE UNCHANGED pipe
    /\ pc' = "data"
    /\ UNCHANGED <<loop, buffer, resetFailed>>

\* bulkInTransfer of one packet of data, whosever it is, into the buffer.
DataIn ==
    /\ pc = "data" /\ kind = "read" /\ pos < Units
    /\ pipe # <<>> /\ Head(pipe).k = "data"
    /\ buffer' = [buffer EXCEPT ![pos + 1] = Head(pipe)]
    /\ pipe' = Tail(pipe)
    /\ pos' = pos + 1
    /\ UNCHANGED <<pc, loop, tag, landed, resetFailed>>

\* What the drive has queued from its k-th packet on.
From(k) == SubSeq(pipe, k, Len(pipe))

\* A CSW where data was due is a short packet: however much is read after it, the
\* count does not come out, and the command fails.
DataInShort ==
    /\ pc = "data" /\ kind = "read" /\ pos < Units
    /\ pipe # <<>> /\ Head(pipe).k = "csw"
    /\ \E k \in 2 .. Len(pipe) + 1 : pipe' = From(k)
    /\ pc' \in {"ioException", "pipeException"}
    /\ UNCHANGED <<loop, tag, pos, buffer, landed, resetFailed>>

\* bulkOutTransfer of one unit; the drive puts it at the next place of the write.
DataOut ==
    /\ pc = "data" /\ kind = "write" /\ pos < Units
    /\ \E p \in Places :
         /\ landed[p] = 0 /\ \A q \in 1 .. p - 1 : landed[q] # 0
         /\ landed' = [landed EXCEPT ![p] = pos + 1]
    /\ pos' = pos + 1
    /\ UNCHANGED <<pc, loop, tag, buffer, pipe, resetFailed>>

\* The data phase is over; the drive ends a write now.
DataDone ==
    /\ pc = "data" /\ pos = Units
    /\ IF kind = "write"
       THEN \E answer \in Answers(tag) :
              /\ answer = <<Csw(tag, "passed")>> => \A p \in Places : landed[p] # 0
              /\ pipe' = pipe \o answer
       ELSE UNCHANGED pipe
    /\ pc' = "csw"
    /\ UNCHANGED <<loop, tag, pos, buffer, landed, resetFailed>>

\* Mutant: any CSW is taken for the command's own.
ValidCswAnyTag(p) == p.k = "csw"

\* What transferOneCommand takes for the command's status: a CSW with its tag.
ValidCsw(p) == p.k = "csw" /\ p.of = tag

ReadCsw ==
    /\ pc = "csw"
    /\ pipe # <<>>
    /\ pipe' = Tail(pipe)
    /\ pc' = IF ~ValidCsw(Head(pipe)) THEN "ioException"
             ELSE CASE Head(pipe).status = "passed" -> "ok"
                    [] Head(pipe).status = "failed" -> "sense"
                    [] OTHER -> "phaseError"
    /\ UNCHANGED <<loop, tag, pos, buffer, landed, resetFailed>>

\* Mutant: the data loop goes on after a transfer that failed.
BulkFailDataIgnored ==
    /\ pc \in {"attempt", "csw"}
    /\ pc' \in {"ioException", "pipeException"}
    /\ tag' = IF pc = "attempt" THEN tag + 1 ELSE tag
    /\ pos' = IF pc = "attempt" THEN 0 ELSE pos
    /\ UNCHANGED <<loop, buffer, landed, pipe, resetFailed>>

\* A bulk transfer returns -1: nothing queued, a timeout, a stalled endpoint.  A
\* stalled endpoint is a PipeException.  A data phase cut short keeps the position.
BulkFail ==
    /\ pc \in {"attempt", "data", "csw"}
    /\ pc = "data" => pos < Units
    /\ pc' \in {"ioException", "pipeException"}
    /\ tag' = IF pc = "attempt" THEN tag + 1 ELSE tag
    /\ pos' = IF pc = "attempt" THEN 0 ELSE pos
    /\ UNCHANGED <<loop, buffer, landed, pipe, resetFailed>>

-----------------------------------------------------------------------------
(* handleCommandResult, requestSense and the retry loop.                   *)

\* Mutant: one turn too many.
AgainOnceMore ==
    IF attempt <= MaxRecoveryAttempts
    THEN attempt' = attempt + 1 /\ pc' = "attempt"
    ELSE pc' = "thrown" /\ UNCHANGED attempt

\* The next turn of the loop, or the end of it.
Again ==
    IF attempt < MaxRecoveryAttempts
    THEN attempt' = attempt + 1 /\ pc' = "attempt"
    ELSE pc' = "thrown" /\ UNCHANGED attempt

\* checkResponseForError: "tryAgain" stands for NotReadyTryAgain, "error" for every
\* other exception, and "recovered" for NO_SENSE, RECOVERED_ERROR and COMPLETED.
\* The branch of those three does nothing, and control reaches the throw of a plain
\* SenseException behind the when.
RequestSense ==
    /\ pc = "sense"
    /\ pipe = <<>>
    /\ tag' = tag + 1
    /\ \E answer \in {"tryAgain", "recovered", "error"} :
         IF answer = "tryAgain" THEN Again ELSE pc' = "thrown" /\ UNCHANGED attempt
    /\ UNCHANGED <<kind, cmd, pos, buffer, landed, pipe, resetFailed>>

\* The sense command fails, or reads what an earlier command left queued and finds
\* the wrong tag.  Its own CSW may stay queued in its turn.  A pipe error of it, which
\* goes to RecoverPipe, is taken as any other failure here; a status no drive sends (the
\* IllegalStateException of handleCommandResult) is left out.
SenseFail ==
    /\ pc = "sense"
    /\ tag' = tag + 1
    /\ \E k \in 1 .. Len(pipe) + 1 :
         pipe' = From(k) \/ pipe' = Append(From(k), Csw(tag + 1, "passed"))
    /\ pc' = "ioException"
    /\ UNCHANGED <<loop, pos, buffer, landed, resetFailed>>

\* bulkOnlyMassStorageReset: the drive drops what it had queued, or the control
\* transfer fails and nothing changes.
Reset == pipe' = <<>> /\ resetFailed' = FALSE
ResetFails == UNCHANGED pipe /\ resetFailed' = TRUE

\* handleCommandResult resets the drive and throws, and that is handled like any
\* IOException, by another reset.
PhaseError ==
    /\ pc = "phaseError"
    /\ Reset \/ ResetFails
    /\ pc' = "ioException"
    /\ UNCHANGED <<loop, tag, pos, buffer, landed>>

\* Mutant: the retry without Reset Recovery, as before V12.
RecoverIoWithoutReset ==
    /\ pc = "ioException"
    /\ Again
    /\ UNCHANGED <<kind, cmd, tag, pos, buffer, landed, pipe, resetFailed>>

\* Reset Recovery before the retry; a reset that fails is only logged.
RecoverIo ==
    /\ pc = "ioException"
    /\ Reset \/ ResetFails
    /\ Again
    /\ UNCHANGED <<kind, cmd, tag, pos, buffer, landed>>

\* A reset that fails here is not caught: its exception ends the command.
RecoverPipe ==
    /\ pc = "pipeException"
    /\ \/ Reset /\ Again
       \/ ResetFails /\ pc' = "thrown" /\ UNCHANGED attempt
    /\ UNCHANGED <<kind, cmd, tag, pos, buffer, landed>>

-----------------------------------------------------------------------------
CommandStep ==
    \/ SendCbw
    \/ DataIn
    \/ DataInShort
    \/ DataOut
    \/ DataDone
    \/ ReadCsw
    \/ BulkFail
    \/ RequestSense
    \/ SenseFail
    \/ PhaseError
    \/ RecoverIo
    \/ RecoverPipe

Next == (\E k \in {"read", "write"} : Call(k)) \/ CommandStep

Spec == Init /\ [][Next]_vars

\* Every transfer and every control request has a timeout, so a command goes on.
FairSpec == Spec /\ WF_vars(CommandStep)

-----------------------------------------------------------------------------
(* Properties.                                                             *)

(* The shape of the state: the command in hand, the bytes it has moved and  *)
(* what the drive holds for the next phase.                                 *)
TypeOK ==
    /\ pc \in {"idle", "attempt", "data", "csw", "sense", "phaseError", "ioException",
               "pipeException", "ok", "thrown"}
    /\ kind \in {"read", "write"}
    /\ cmd \in 0 .. MaxCommands
    /\ attempt \in 0 .. MaxRecoveryAttempts
    /\ tag \in Nat
    /\ pos \in 0 .. Units
    /\ landed \in [Places -> 0 .. Units]
    /\ buffer \in [Places -> [k : {"data"}, of : 0 .. MaxCommands, at : Places]]
    /\ \A p \in DOMAIN pipe : pipe[p].k = "csw" => pipe[p].of <= tag
    /\ resetFailed \in BOOLEAN

\* A command that succeeds did what was asked: a read's buffer holds this command's
\* data, each unit in its place, whatever earlier commands or attempts left queued,
\* and a write has put each unit of the buffer in its place.
SuccessIsGenuine ==
    pc = "ok" => \A p \in Places :
        IF kind = "read" THEN buffer[p] = DataPacket(cmd, p) ELSE landed[p] = p

\* "Resynchronise before retrying" (V12): an attempt starts with nothing queued in
\* the drive, unless the drive refused the reset.
InStepUnlessResetFailed == pc = "attempt" /\ ~resetFailed => pipe = <<>>

\* However the drive behaves, a command returns or throws.
CommandsEnd == pc \notin {"idle", "ok", "thrown"} ~> pc \in {"ok", "thrown"}
=============================================================================
