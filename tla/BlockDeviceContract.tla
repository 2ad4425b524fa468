------------------------ MODULE BlockDeviceContract ------------------------
(***************************************************************************)
(* What a RawBlockDevice promises its callers (app/.../block), whatever    *)
(* layers it is made of: a write lands block by block, and a read returns, *)
(* for every block it asked for, a value that the device held at some      *)
(* moment of the call.  The plain USB device behaves like this because it  *)
(* yields its transfer lock between chunks; every wrapper over it (cache,  *)
(* decryption, partition) is expected to look the same from above.         *)
(***************************************************************************)
EXTENDS Naturals

CONSTANTS
    Readers,      \* threads that call readBlocks
    Writers,      \* threads that call writeBlocks
    BlockCount,   \* number of blocks of the device
    Data,         \* block contents a caller may write
    Values        \* block contents a call may return; Data \subseteq Values

VARIABLES
    device,       \* device[b]: the content of block b
    reading,      \* reading[r]: the blocks r's current read asked for, {} when idle
    seen,         \* seen[r][b]: contents block b has had since r's read began
    out,          \* out[r][b]: the content r's read returned for b, NoData before
    writing,      \* writing[w]: blocks w's current write has still to land
    wval          \* wval[w]: what w's current write puts into them

CONSTANT NoData

Blocks == 0 .. BlockCount - 1

vars == <<device, reading, seen, out, writing, wval>>

Nothing == [b \in Blocks |-> {}]
NoOut   == [b \in Blocks |-> NoData]

Init ==
    /\ device \in [Blocks -> Data]
    /\ reading = [r \in Readers |-> {}]
    /\ seen    = [r \in Readers |-> Nothing]
    /\ out     = [r \in Readers |-> NoOut]
    /\ writing = [w \in Writers |-> {}]
    /\ wval    = [w \in Writers |-> NoData]

BeginRead(r) ==
    /\ reading[r] = {}
    /\ \E bs \in (SUBSET Blocks) \ {{}} :
          /\ reading' = [reading EXCEPT ![r] = bs]
          /\ seen'    = [seen EXCEPT ![r] = [b \in Blocks |-> IF b \in bs THEN {device[b]} ELSE {}]]
          /\ out'     = [out EXCEPT ![r] = NoOut]
    /\ UNCHANGED <<device, writing, wval>>

Deliver(r, b) ==
    /\ b \in reading[r]
    /\ out[r][b] = NoData
    /\ \E v \in seen[r][b] : out' = [out EXCEPT ![r][b] = v]
    /\ UNCHANGED <<device, reading, seen, writing, wval>>

\* The call returns, with every block delivered, or throws.
EndRead(r) ==
    /\ reading[r] # {}
    /\ reading' = [reading EXCEPT ![r] = {}]
    /\ seen'    = [seen EXCEPT ![r] = Nothing]
    /\ out'     = [out EXCEPT ![r] = NoOut]
    /\ UNCHANGED <<device, writing, wval>>

BeginWrite(w) ==
    /\ writing[w] = {}
    /\ \E bs \in (SUBSET Blocks) \ {{}}, v \in Data :
          /\ writing' = [writing EXCEPT ![w] = bs]
          /\ wval'    = [wval EXCEPT ![w] = v]
    /\ UNCHANGED <<device, reading, seen, out>>

Land(w, b) ==
    /\ b \in writing[w]
    /\ device'  = [device EXCEPT ![b] = wval[w]]
    /\ writing' = [writing EXCEPT ![w] = @ \ {b}]
    /\ seen'    = [r \in Readers |->
                     [seen[r] EXCEPT ![b] = IF b \in reading[r] THEN @ \cup {wval[w]} ELSE @]]
    /\ UNCHANGED <<reading, out, wval>>

EndWrite(w) ==
    /\ writing' = [writing EXCEPT ![w] = {}]
    /\ wval'    = [wval EXCEPT ![w] = NoData]
    /\ UNCHANGED <<device, reading, seen, out>>

Next ==
    \/ \E r \in Readers : BeginRead(r) \/ EndRead(r) \/ \E b \in Blocks : Deliver(r, b)
    \/ \E w \in Writers : BeginWrite(w) \/ EndWrite(w) \/ \E b \in Blocks : Land(w, b)

Spec == Init /\ [][Next]_vars
=============================================================================
