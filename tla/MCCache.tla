------------------------------ MODULE MCCache ------------------------------
(* Instances of CachedBlockDevice for TLC.  A device of three blocks in     *)
(* lines of two has a short last line, as a device whose size is not a      *)
(* multiple of the line size does.                                          *)
EXTENDS CachedBlockDevice, TLC

CONSTANTS r1, r2, w1, d1, d2

TwoReaders == {r1, r2}
OneWriter  == {w1}
TwoData    == {d1, d2}

Symmetry == Permutations(TwoReaders) \cup Permutations(TwoData)
=============================================================================
