--------------------------- MODULE MCCachedReads ---------------------------
(* Instances of CachedReads for TLC.                                        *)
EXTENDS CachedReads, TLC

CONSTANTS r1, r2, w1, d1, d2

OneReader  == {r1}
TwoReaders == {r1, r2}
OneWriter  == {w1}
TwoData    == {d1, d2}

Symmetry == Permutations({r1, r2}) \cup Permutations(TwoData)
=============================================================================
