------------------------------- MODULE MCScsi -------------------------------
(* Instance of ScsiTransfer for TLC.                                        *)
EXTENDS ScsiTransfer
=============================================================================
