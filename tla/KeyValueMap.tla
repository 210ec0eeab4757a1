----------------------------- MODULE KeyValueMap -----------------------------
(***************************************************************************)
(* What a container promises that is indexed by keys: an entry has the     *)
(* value it was last given until it is deleted.  Only if it is fragile may *)
(* it lose entries by itself, and only when objects that it is made of are *)
(* destroyed.                                                              *)
(***************************************************************************)
CONSTANTS Keys, Values, None

VARIABLES
  contents,  \* the value of each key, None if there is no such entry
  objects,   \* what it is made of
  fragile    \* may entries be lost?

vars == <<contents, objects, fragile>>

Init == contents = [k \in Keys |-> None] /\ objects = {} /\ fragile = FALSE

(* Nothing but a deletion makes it fragile.                                *)
Keep == UNCHANGED contents /\ (fragile' => fragile)

Set(k, v) ==
  /\ contents' = [contents EXCEPT ![k] = v]
  /\ objects \subseteq objects'
  /\ fragile' => fragile

Delete(k) ==
  /\ contents' = [contents EXCEPT ![k] = None]
  /\ UNCHANGED objects

Clear ==
  /\ contents' = [k \in Keys |-> None]
  /\ UNCHANGED objects
  /\ fragile' => fragile

Lose ==
  /\ fragile
  /\ objects' # objects /\ objects' \subseteq objects
  /\ \A k \in Keys : contents'[k] \in {contents[k], None}
  /\ contents' = [k \in Keys |-> contents'[k]]
  /\ fragile' => fragile

Next ==
  \/ Keep
  \/ \E k \in Keys, v \in Values : Set(k, v)
  \/ \E k \in Keys : Delete(k)
  \/ Clear
  \/ Lose

Spec == Init /\ [][Next]_vars
=============================================================================
