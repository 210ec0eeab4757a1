---------------------------- MODULE MCObjectTree ----------------------------
(* The object tree on a small table, the constants in the .cfg files.      *)
EXTENDS ObjectTree
=============================================================================
