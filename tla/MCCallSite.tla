------------------------------ MODULE MCCallSite ------------------------------
(* Three classes and what they may find in the pool.                         *)
EXTENDS CallSite
=============================================================================
