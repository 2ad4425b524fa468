--------------------------- MODULE MCExFatVolume ---------------------------
(* Instances of ExFatVolume for TLC.                                        *)
EXTENDS ExFatVolume

AnyFile == Permutations(Files)
=============================================================================
