------------------------------- MODULE MCUsb -------------------------------
(* Instances of UsbBlockDevice for TLC: two threads on a drive of two       *)
(* blocks, which one transfer of the largest size covers.                   *)
EXTENDS UsbBlockDevice

CONSTANTS t1, t2, d1

TwoThreads == {t1, t2}
OneData == {d1}

Write(at, n, v) == [at |-> at, n |-> n, val |-> v]
Read(at, n) == Write(at, n, Unknown)

\* One thread reads both blocks or writes the first, the other writes the second: a loss
\* under a read, and a write that pushes another out of the window before the replay.
ReadsAndWrites ==
    [t \in Threads |-> IF t = t1 THEN {Read(0, 2), Write(0, 1, d1)} ELSE {Write(1, 1, d1)}]

\* Two readers whose chunks differ in size.
Reads == [t \in Threads |-> {IF t = t1 THEN Read(0, 1) ELSE Read(0, 2)}]
=============================================================================
