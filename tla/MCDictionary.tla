----------------------------- MODULE MCDictionary -----------------------------
(* Dictionaries of a few keys.                                             *)
EXTENDS Dictionary
=============================================================================
