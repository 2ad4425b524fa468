--------------------------- MODULE UsbBlockDevice ---------------------------
(***************************************************************************)
(* The USB drive as the app's bottom block device                          *)
(* (app/.../usb/LibaumsRawBlockDevice.kt, UsbTransferQuirks.kt).           *)
(*                                                                         *)
(* Requests go to the drive in chunks, each chunk one SCSI command under   *)
(* the transfer lock.  A command that needs or exhausts libaums' retries   *)
(* resets the drive, and a reset may cost the drive writes it had already  *)
(* acknowledged, so the last ReplayBlocks blocks written are kept and      *)
(* written again after a reset.  A failed chunk is retried once at its     *)
(* size, then halved; a drive that stops answering has its port reset.     *)
(*                                                                         *)
(* The drive is external: a command succeeds or fails, with or without a   *)
(* reset (module ScsiTransfer says how), and a reset turns any of the      *)
(* blocks the drive has in hand into Lost.  The drive has in hand what the *)
(* last commands wrote, at most DriveWindow blocks of it.                  *)
(***************************************************************************)
EXTENDS Integers, Sequences, FiniteSets, FiniteSetsExt

CONSTANTS
    Threads,            \* threads calling readBlocks and writeBlocks
    BlockCount,
    MaxTransfer,        \* MAX_TRANSFER_BYTES, in blocks
    MinTransfer,        \* MIN_TRANSFER_BYTES, in blocks
    RetryWindow,        \* SAME_SIZE_RETRY_WINDOW
    ReplayBlocks,       \* REPLAY_BYTES, in blocks
    MaxReplayRounds,    \* MAX_REPLAY_ROUNDS
    DriveWindow,        \* blocks the drive acknowledges before they are safe
    Data,               \* what is written
    Lost,               \* what a reset leaves of a block it cost
    Unknown,            \* what the app knows of a block whose write failed
    Calls,              \* the calls each thread makes: [at, n, val], a read's val being Unknown
    NoThread

\* A drive that held back more than the window less one command would outrun the
\* replay: rememberWrite drops the oldest writes before the replay after a write.
ASSUME UsbAssumption ==
    /\ BlockCount \in Nat \ {0}
    /\ MinTransfer \in Nat \ {0} /\ MaxTransfer \in Nat /\ MinTransfer <= MaxTransfer
    /\ RetryWindow \in Nat \ {0}
    /\ MaxReplayRounds \in Nat \ {0}
    /\ DriveWindow \in Nat /\ ReplayBlocks \in Nat /\ DriveWindow + MaxTransfer <= ReplayBlocks
    /\ Lost \notin Data /\ Unknown \notin Data \cup {Lost}
    /\ \A t \in Threads : \A c \in Calls[t] :
          /\ c \in [at : 0 .. BlockCount - 1, n : 1 .. BlockCount, val : Data \cup {Unknown}]
          /\ c.at + c.n <= BlockCount
    /\ NoThread \notin Threads

Blocks == 0 .. BlockCount - 1

VARIABLES
    media,        \* the drive's blocks
    recent,       \* recentWrites, oldest first: [at, n, val]
    maxTransfer,  \* maxTransferBlocks
    sinceRetry,   \* transfersSinceRetry, -1 before the first same-size retry
    retriedChunk, \* size of the last same-size retry
    afterReset,   \* retryFollowedReset
    remembered,   \* UsbTransferQuirks: the size kept for this drive model, 0 if none
    closed,
    lock,         \* the thread that holds transferLock across several steps (a replay)
    pc, req, done, chunk,  \* each thread's call and its progress
    wasReset,     \* threads whose recovery needed a port reset
    stuck,        \* threads that found a repeated failure to be the size's, for good
    round,        \* replay rounds done by the thread that holds the lock
    acked         \* history: what the app was told is on the drive, Unknown where it has
                  \* no claim: where no replay can be expected to restore a loss

device == <<maxTransfer, sinceRetry, retriedChunk, afterReset>>
calls  == <<pc, req, done, chunk, wasReset, stuck>>
vars   == <<media, recent, device, remembered, closed, lock, calls, round, acked>>

NoReq == [at |-> 0, n |-> 0, val |-> Unknown]

Init ==
    /\ media \in [Blocks -> Data]
    /\ acked = media
    /\ recent = <<>>
    /\ maxTransfer = MaxTransfer
    /\ sinceRetry = -1
    /\ retriedChunk = 0
    /\ afterReset = FALSE
    /\ remembered = 0
    /\ closed = FALSE
    /\ lock = NoThread
    /\ pc = [t \in Threads |-> "idle"]
    /\ req = [t \in Threads |-> NoReq]
    /\ done = [t \in Threads |-> 0]
    /\ chunk = [t \in Threads |-> 0]
    /\ wasReset = {}
    /\ round = 0
    /\ stuck = {}

-----------------------------------------------------------------------------
(* The window of recent writes, and the drive.                             *)

Span(e) == e.at .. e.at + e.n - 1

\* How many blocks the writes ws hold.
Sizes(ws) ==
    LET upTo[i \in 0 .. Len(ws)] == IF i = 0 THEN 0 ELSE upTo[i - 1] + ws[i].n
    IN  upTo[Len(ws)]

\* m after the writes ws, oldest first: the last write to a block decides.
Apply(m, ws) ==
    [b \in Blocks |->
        LET hits == {i \in DOMAIN ws : b \in Span(ws[i])}
        IN  IF hits = {} THEN m[b] ELSE ws[Max(hits)].val]

\* The blocks that the writes ws cover, and those of the window.
Covered(ws) == UNION {Span(ws[i]) : i \in DOMAIN ws}
Window == Covered(recent)

\* The newest writes of the window that fit in size blocks.
Newest(ws, size) ==
    LET keep == {i \in DOMAIN ws : Sizes(SubSeq(ws, i, Len(ws))) <= size}
    IN  IF keep = {} THEN <<>> ELSE SubSeq(ws, Min(keep), Len(ws))

\* What the drive may still lose, an assumption about drives: of the newest writes as many as
\* fit its own buffer.  A drive that has been opened anew has everything safe that was written
\* before, as remember starts from an empty window then.
InHand == Covered(Newest(recent, DriveWindow))

Lose(m, bs) == [b \in Blocks |-> IF b \in bs THEN Lost ELSE m[b]]

\* Mutants: the window is never trimmed, or keeps only the last write.
RememberAll(e) == Append(recent, e)
RememberLast(e) == <<e>>

\* rememberWrite: the oldest writes leave until the new one fits.
Remember(e) == Append(Newest(recent, ReplayBlocks - e.n), e)

\* The chunk a thread is at, as a write, and all that its call has left to write.
Current(t) == [at |-> req[t].at + done[t], n |-> chunk[t], val |-> req[t].val]
Rest(t) == [at |-> req[t].at + done[t], n |-> req[t].n - done[t], val |-> req[t].val]

\* The thread's call is writeBlocks.
Writes(t) == req[t].val # Unknown

-----------------------------------------------------------------------------
(* readBlocks and writeBlocks.                                             *)

\* The call starts, unless the device is closed.  probeTransferSize is such a
\* read, of block 0, with its exception swallowed.
Begin(t, c) ==
    /\ pc[t] = "idle"
    /\ ~closed
    /\ pc'   = [pc EXCEPT ![t] = "chunk"]
    /\ req'  = [req EXCEPT ![t] = c]
    /\ UNCHANGED <<media, recent, device, remembered, closed, lock, done, chunk, wasReset, stuck,
                   round, acked>>

\* maxTransferBlocks is read before the lock is taken.
PickChunk(t) ==
    /\ pc[t] = "chunk"
    /\ chunk' = [chunk EXCEPT ![t] = Min({maxTransfer, req[t].n - done[t]})]
    /\ pc' = [pc EXCEPT ![t] = "transfer"]
    /\ UNCHANGED <<media, recent, device, remembered, closed, lock, req, done, wasReset, stuck, round, acked>>

\* The call is over, for the caller too.
Idle(t) ==
    /\ pc' = [pc EXCEPT ![t] = "idle"]
    /\ req' = [req EXCEPT ![t] = NoReq]
    /\ done' = [done EXCEPT ![t] = 0]
    /\ chunk' = [chunk EXCEPT ![t] = 0]

\* The rest of a chunk's critical section, and the next turn of the loop.  The increment of
\* transfersSinceRetry and the = 0 of NoteRetry, which has no lock, are one step each.
ChunkDone(t) ==
    /\ sinceRetry' = IF sinceRetry >= 0 /\ sinceRetry < RetryWindow THEN sinceRetry + 1 ELSE sinceRetry
    /\ IF done[t] + chunk[t] = req[t].n
       THEN Idle(t)
       ELSE /\ done' = [done EXCEPT ![t] = @ + chunk[t]]
            /\ pc' = [pc EXCEPT ![t] = "chunk"]
            /\ chunk' = [chunk EXCEPT ![t] = 0]
            /\ UNCHANGED req

\* Between a transfer that failed or needed a reset and the replay that makes up for it.
Unsettled(t) == pc[t] \notin {"idle", "chunk", "transfer"}

\* The blocks that leave the window to make room for thread t's chunk while another
\* thread has a replay to do: if they are lost, that replay does not restore them.
PushedOut(t) ==
    IF \E u \in Threads \ {t} : Unsettled(u)
    THEN Window \ Covered(Remember(Current(t)))
    ELSE {}

\* The app has no claim on the blocks bs.
Unclaimed(bs) == [b \in Blocks |-> IF b \in bs THEN Unknown ELSE acked[b]]

\* driver.write has returned: the blocks are on the drive, and remembered.
Written(t, m) ==
    IF Writes(t)
    THEN /\ media' = Apply(m, <<Current(t)>>)
         /\ acked' = Apply(Unclaimed(PushedOut(t)), <<Current(t)>>)
         /\ recent' = Remember(Current(t))
    ELSE media' = m /\ UNCHANGED <<acked, recent>>

\* The command succeeds without a reset.
TransferOk(t) ==
    /\ pc[t] = "transfer" /\ lock = NoThread /\ ~closed
    /\ Written(t, media)
    /\ ChunkDone(t)
    /\ UNCHANGED <<maxTransfer, retriedChunk, afterReset, remembered, closed, lock, wasReset, stuck, round>>

\* The command succeeds after a reset that cost the blocks bs: the window is
\* written again, still under the lock.
TransferAfterReset(t) ==
    /\ pc[t] = "transfer" /\ lock = NoThread /\ ~closed
    /\ \E bs \in SUBSET InHand : Written(t, Lose(media, bs))
    /\ lock' = t
    /\ round' = 0
    /\ pc' = [pc EXCEPT ![t] = "replayIn"]
    /\ UNCHANGED <<device, remembered, closed, req, done, chunk, wasReset, stuck>>

\* The command fails: some first part of the chunk may have landed, and the resets
\* between libaums' attempts cost blocks in hand.  Or the device is closed.
TransferFail(t) ==
    /\ pc[t] = "transfer" /\ lock = NoThread
    /\ IF closed THEN UNCHANGED media
       ELSE \E k \in 0 .. chunk[t], bs \in SUBSET (InHand \cup IF Writes(t) THEN Span(Current(t)) ELSE {}) :
              media' = Lose(Apply(media, IF Writes(t) THEN <<[Current(t) EXCEPT !.n = k]>> ELSE <<>>), bs)
    /\ pc' = [pc EXCEPT ![t] = "recover"]
    /\ UNCHANGED <<recent, device, remembered, closed, lock, req, done, chunk, wasReset, stuck,
                   round, acked>>

-----------------------------------------------------------------------------
(* replayRecentWrites, by the thread that holds the lock.                  *)

ReplayStart(t) ==
    /\ pc[t] = "replayAfter"
    /\ lock = NoThread
    /\ lock' = t
    /\ round' = 0
    /\ UNCHANGED <<media, recent, device, remembered, closed, calls, acked>>

\* The replay returned: to the end of the critical section it was called from, or,
\* after recover, to the loop.
Replayed(t) ==
    /\ lock' = NoThread
    /\ round' = 0
    /\ IF pc[t] = "replayIn"
       THEN ChunkDone(t)
       ELSE pc' = [pc EXCEPT ![t] = "chunk"] /\ UNCHANGED <<sinceRetry, req, done, chunk>>
    /\ UNCHANGED <<maxTransfer, retriedChunk, afterReset, remembered, closed, wasReset, stuck, recent, acked>>

\* Every write of the window succeeds and none needs a reset.
ReplayRound(t) ==
    /\ lock = t
    /\ recent = <<>> \/ ~closed
    /\ media' = Apply(media, recent)
    /\ Replayed(t)

\* Mutant: a reset during the replay goes unnoticed.
ReplayRoundResetIgnored(t) ==
    /\ lock = t
    /\ recent # <<>> /\ ~closed
    /\ \E bs \in SUBSET Window : media' = Lose(Apply(media, recent), bs)
    /\ Replayed(t)

\* Every write succeeds, but there was a reset: another round, if one is left.
ReplayRoundReset(t) ==
    /\ lock = t
    /\ recent # <<>> /\ ~closed
    /\ round + 1 < MaxReplayRounds
    /\ round' = round + 1
    /\ \E bs \in SUBSET Window : media' = Lose(Apply(media, recent), bs)
    /\ UNCHANGED <<recent, device, remembered, closed, lock, calls, acked>>

\* The call throws without a replay: the drive has stopped answering or does not take the
\* replay, or is closed, or failed at the smallest size.  What it holds of the window, and
\* of the call's own blocks, is anyone's guess until it is written again.
Throw(t) ==
    /\ Idle(t)
    /\ wasReset' = wasReset \ {t}
    /\ stuck' = stuck \ {t}
    /\ acked' = Unclaimed(Window \cup IF Writes(t) THEN Span(Rest(t)) ELSE {})

\* A write of the window fails, or the last round had a reset too.  In the chunk's
\* own critical section that counts as a failed transfer; after recover it ends
\* the call.
ReplayFail(t) ==
    /\ lock = t
    /\ recent # <<>>
    /\ IF closed THEN UNCHANGED media
       ELSE \E k \in 0 .. Len(recent), bs \in SUBSET Window :
              media' = Lose(Apply(media, SubSeq(recent, 1, k)), bs)
    /\ lock' = NoThread
    /\ round' = 0
    /\ IF pc[t] = "replayIn"
       THEN /\ pc' = [pc EXCEPT ![t] = "recover"]
            /\ UNCHANGED <<req, done, chunk, wasReset, stuck, acked>>
       ELSE Throw(t)
    /\ UNCHANGED <<recent, device, remembered, closed>>

-----------------------------------------------------------------------------
(* recover: answersAt, resetPort, and the choice of the next size.         *)

ResetMayLose == \E bs \in SUBSET InHand : media' = Lose(media, bs)

\* The first answersAt, after the pause.
Ask(t) ==
    /\ pc[t] = "recover" /\ lock = NoThread /\ ~closed
    /\ ResetMayLose
    /\ pc' = [pc EXCEPT ![t] = "decide"] \/ pc' = [pc EXCEPT ![t] = "portReset"]
    /\ UNCHANGED <<recent, device, remembered, closed, lock, req, done, chunk, wasReset, stuck, round, acked>>

PortReset(t) ==
    /\ pc[t] = "portReset" /\ lock = NoThread /\ ~closed
    /\ ResetMayLose
    /\ pc' = [pc EXCEPT ![t] = "askAgain"]
    /\ wasReset' = wasReset \cup {t}
    /\ UNCHANGED <<recent, device, remembered, closed, lock, req, done, chunk, stuck, round, acked>>

AskAgain(t) ==
    /\ pc[t] = "askAgain" /\ lock = NoThread /\ ~closed
    /\ ResetMayLose
    /\ pc' = [pc EXCEPT ![t] = "decide"]
    /\ UNCHANGED <<recent, device, remembered, closed, lock, req, done, chunk, wasReset, stuck, round, acked>>

\* recover returns false because the device is closed, the port reset failed, or the
\* drive does not answer after it.
NoRecovery(t) ==
    /\ lock = NoThread
    /\ IF closed THEN pc[t] \in {"recover", "portReset", "askAgain"} /\ UNCHANGED media
       ELSE pc[t] \in {"portReset", "askAgain"} /\ ResetMayLose
    /\ Throw(t)
    /\ UNCHANGED <<recent, device, remembered, closed, lock, round>>

\* A second failure at the same size within the window counts against the size.
Repeated(t) == chunk[t] = retriedChunk /\ sinceRetry >= 0 /\ sinceRetry < RetryWindow

\* recover reads the record of the last retry, without the lock, and decides.
Judge(t) ==
    /\ pc[t] = "decide"
    /\ pc' = [pc EXCEPT ![t] = IF Repeated(t) THEN "lower" ELSE "retry"]
    /\ stuck' = IF Repeated(t) /\ (t \in wasReset \/ afterReset) THEN stuck \cup {t} ELSE stuck
    /\ UNCHANGED <<media, recent, device, remembered, closed, lock, req, done, chunk, wasReset,
                   round, acked>>

NoteRetry(t) ==
    /\ retriedChunk' = chunk[t]
    /\ afterReset' = (t \in wasReset)
    /\ sinceRetry' = 0

\* Then it writes the record, without the lock either, and either retries at the same
\* size or goes on to stepDown.
Record(t) ==
    /\ pc[t] \in {"retry", "lower"}
    /\ NoteRetry(t)
    /\ pc' = [pc EXCEPT ![t] = IF pc[t] = "retry" THEN "replayAfter" ELSE "stepDown"]
    /\ wasReset' = wasReset \ {t}
    /\ UNCHANGED <<media, recent, maxTransfer, remembered, closed, lock, req, done, chunk, stuck, round, acked>>

\* stepDown: the size that failed is halved, under the lock, and kept for the drive model
\* if a port reset was needed.
StepDown(t) ==
    LET next == Max({chunk[t] \div 2, MinTransfer})
    IN  /\ pc[t] = "stepDown" /\ lock = NoThread
        /\ chunk[t] > MinTransfer
        /\ maxTransfer' = Min({next, maxTransfer})
        /\ remembered' = IF t \in stuck /\ (remembered = 0 \/ next < remembered) THEN next ELSE remembered
        /\ stuck' = stuck \ {t}
        /\ pc' = [pc EXCEPT ![t] = "replayAfter"]
        /\ UNCHANGED <<media, recent, sinceRetry, retriedChunk, afterReset, closed, lock, req, done, chunk,
                       wasReset, round, acked>>

\* stepDown at the floor: the drive answers, but the call fails.
GiveUp(t) ==
    /\ pc[t] = "stepDown"
    /\ chunk[t] <= MinTransfer
    /\ Throw(t)
    /\ UNCHANGED <<media, recent, device, remembered, closed, lock, round>>

-----------------------------------------------------------------------------
Close ==
    /\ ~closed
    /\ lock = NoThread
    /\ closed' = TRUE
    /\ UNCHANGED <<media, recent, device, remembered, lock, calls, round, acked>>

\* The drive is attached again: a new device object, at the remembered size.
Reopen ==
    /\ closed
    /\ \A t \in Threads : pc[t] = "idle"
    /\ closed' = FALSE
    /\ recent' = <<>>
    /\ maxTransfer' = IF remembered = 0 THEN MaxTransfer ELSE Max({MinTransfer, Min({MaxTransfer, remembered})})
    /\ sinceRetry' = -1
    /\ retriedChunk' = 0
    /\ afterReset' = FALSE
    /\ UNCHANGED <<media, remembered, lock, calls, round, acked>>

CallStep(t) ==
    \/ PickChunk(t)
    \/ TransferOk(t)
    \/ TransferAfterReset(t)
    \/ TransferFail(t)
    \/ ReplayStart(t)
    \/ ReplayRound(t)
    \/ ReplayRoundReset(t)
    \/ ReplayFail(t)
    \/ Ask(t)
    \/ PortReset(t)
    \/ AskAgain(t)
    \/ NoRecovery(t)
    \/ Judge(t)
    \/ Record(t)
    \/ StepDown(t)
    \/ GiveUp(t)

Next ==
    \/ \E t \in Threads : \E c \in Calls[t] : Begin(t, c)
    \/ \E t \in Threads : CallStep(t)
    \/ Close
    \/ Reopen

Spec == Init /\ [][Next]_vars

\* A call in progress goes on: its thread runs, and every wait in it has an end
\* (each USB transfer times out, and the lock is never held across the pause).
FairSpec == Spec /\ \A t \in Threads : WF_vars(CallStep(t))

-----------------------------------------------------------------------------
(* Properties.                                                             *)

(* The shape of the state: the drive, the ring of recent writes, the size   *)
(* remembered and every thread's place in its transfer.                     *)
TypeOK ==
    /\ media \in [Blocks -> Data \cup {Lost}]
    /\ acked \in [Blocks -> Data \cup {Unknown}]
    /\ recent \in Seq([at : Blocks, n : 1 .. MaxTransfer, val : Data])
    /\ Sizes(recent) <= ReplayBlocks
    /\ maxTransfer \in MinTransfer .. MaxTransfer
    /\ sinceRetry \in -1 .. RetryWindow
    /\ retriedChunk \in 0 .. MaxTransfer
    /\ afterReset \in BOOLEAN
    /\ remembered \in {0} \cup MinTransfer .. MaxTransfer
    /\ closed \in BOOLEAN
    /\ lock \in Threads \cup {NoThread}
    /\ pc \in [Threads -> {"idle", "chunk", "transfer", "replayIn", "replayAfter",
                           "recover", "portReset", "askAgain", "decide", "retry", "lower", "stepDown"}]
    /\ \A t \in Threads : req[t] = NoReq \/ Span(req[t]) \subseteq Blocks
    /\ \A t \in Threads : done[t] + chunk[t] <= req[t].n
    /\ wasReset \subseteq Threads /\ stuck \subseteq Threads
    /\ round \in 0 .. MaxReplayRounds - 1

Quiet == \A t \in Threads : pc[t] = "idle"

\* "The drive ends in the state the app believes it is in" (comment on recentWrites):
\* between calls, the drive holds everything it acknowledged, whatever the resets on the
\* way cost and however the threads take turns, but for the blocks on which the app has no
\* claim: those of the window when a call throws instead of replaying it, and those that
\* one thread's writes push out of the window while another's replay is due.
AckedWritesSurvive ==
    Quiet => \A b \in Blocks : acked[b] # Unknown => media[b] = acked[b]

\* A block a reset cost is in the window, as it should be, until a replay has restored it:
\* outside the writes in progress, what differs is replayable.
LossIsReplayable ==
    \A b \in Blocks :
        \/ media[b] = acked[b]
        \/ acked[b] = Unknown
        \/ Apply(media, recent)[b] = acked[b]
        \/ \E t \in Threads : Writes(t) /\ b \in Span(Rest(t))

\* "A failure is retried once at the same size", then the size is halved, "false once it is
\* [at the floor]" (comments on transfersSinceRetry and stepDown): retries come to an end, so
\* of calls that are all waiting on a drive that fails, some call returns or throws.
CallsReturn == (\A t \in Threads : pc[t] # "idle") ~> (\E t \in Threads : pc[t] = "idle")
=============================================================================
