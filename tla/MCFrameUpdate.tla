---------------------------- MODULE MCFrameUpdate ----------------------------
(* Frames on a small tree, the constants in the .cfg files.                *)
EXTENDS FrameUpdate
=============================================================================
