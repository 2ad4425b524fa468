--------------------------- MODULE MCExFatHandles ---------------------------
(* Instances of ExFatHandles for TLC.                                        *)
EXTENDS ExFatHandles
=============================================================================
