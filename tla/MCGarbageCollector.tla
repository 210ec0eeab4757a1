------------------------- MODULE MCGarbageCollector -------------------------
(* The collector on a few handles; those of the objects that the scripts   *)
(* spawn are interchangeable.                                              *)
EXTENDS GarbageCollector, TLC

HandleSymmetry == Permutations(Handles \ {Root, App})
=============================================================================
