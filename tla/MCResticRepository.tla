------------------------- MODULE MCResticRepository -------------------------
(* Instances of ResticRepository for TLC.                                    *)
EXTENDS ResticRepository, TLC

AnyName == Permutations(Data) \cup Permutations(Jobs)
=============================================================================
