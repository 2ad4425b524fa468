--------------------------- MODULE MCExt4Journal ---------------------------
(* Instances of Ext4Journal for TLC.                                        *)
EXTENDS Ext4Journal

CONSTANTS b1, b2, v1

TwoHome   == {b1, b2}
TwoValues == {v1, Magic}

AllSame   == {[b \in Home |-> v1]}
Heads     == {1, LogLen - 1}

Plain == [csum |-> FALSE, async |-> FALSE, extents |-> TRUE]
Csum  == [csum |-> TRUE, async |-> FALSE, extents |-> FALSE]
Async == [csum |-> TRUE, async |-> TRUE, extents |-> TRUE]

AllFeatures == {Plain, Csum, Async}
=============================================================================
