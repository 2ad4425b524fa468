---------------------------- MODULE CachedReads ----------------------------
(***************************************************************************)
(* What callers of CachedBlockDevice.readBlocks get: the cache of module   *)
(* CachedBlockDevice together with the output array of every read in       *)
(* progress, and the history that says which answers are right.            *)
(***************************************************************************)
EXTENDS CachedBlockDevice

VARIABLES
    out,    \* out[r][b]: what r's read has delivered for block b, or NoData
    seen    \* history: seen[r][b], the contents block b has had since r's read began

hvars == <<vars, out, seen>>

NoOut == [b \in Blocks |-> NoData]
NoneSeen == [b \in Blocks |-> {}]

ReadInit ==
    /\ Init
    /\ out  = [r \in Readers |-> NoOut]
    /\ seen = [r \in Readers |-> NoneSeen]

\* The bytes r's next block is copied from: the delegate's answer, or its line.
Source(r) ==
    CASE rpc[r] = "bypass" -> device
      [] r \in shared -> lines[LineOf(pos[r])]
      [] OTHER -> buf[r]

\* A reader's step: a step that advances pos delivers a block.
ReadStep(r) ==
    /\ ReaderStep(r)
    /\ out' = [out EXCEPT ![r] =
                 IF rpc'[r] = "idle" THEN NoOut
                 ELSE IF rpc[r] # "idle" /\ pos'[r] = pos[r] + 1
                      THEN [@ EXCEPT ![pos[r]] = Source(r)[pos[r]]]
                 ELSE @]
    /\ seen' = [seen EXCEPT ![r] =
                  IF rpc'[r] = "idle" THEN NoneSeen
                  ELSE IF rpc[r] = "idle"
                       THEN [b \in Blocks |-> IF b \in from'[r] .. end'[r] - 1
                                              THEN {device[b]} ELSE {}]
                  ELSE @]

\* A writer's step: what lands on the device is from then on a right answer too.
WriteStep(w) ==
    /\ WriterStep(w)
    /\ seen' = [r \in Readers |-> [b \in Blocks |->
                  IF b \in from[r] .. end[r] - 1 THEN seen[r][b] \cup {device'[b]} ELSE {}]]
    /\ UNCHANGED out

OtherStep == (Invalidate \/ CloseDrop \/ CloseDelegate) /\ UNCHANGED <<out, seen>>

ReadNext ==
    \/ \E r \in Readers : ReadStep(r)
    \/ \E w \in Writers : WriteStep(w)
    \/ OtherStep

\* A step that does not zero the array some reader is copying out of.  readBlocks copies
\* outside the lock, so the code does take such steps: the reader then gets zeros.
NoZeroUnderReader ==
    \A r \in Readers : rpc[r] = "copy" /\ rpc'[r] = "copy" /\ r \in shared \ shared'
                         => buf'[r] # Blank

QuietNext == ReadNext /\ SoleFetcher' /\ NoZeroUnderReader
QuietSpec == ReadInit /\ [][QuietNext]_hvars

\* The cached device seen as a plain block device.
Contract == INSTANCE BlockDeviceContract WITH
    reading <- [r \in Readers |-> from[r] .. end[r] - 1],
    writing <- [w \in Writers |-> wpos[w] .. wend[w] - 1]

\* The cache is transparent: as long as no array is zeroed under a reader and no
\* line is fetched twice at once, callers see a plain block device.
Transparent == Contract!Spec
=============================================================================
