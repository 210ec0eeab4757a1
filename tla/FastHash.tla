------------------------------- MODULE FastHash -------------------------------
(***************************************************************************)
(* The hash table of SurgeScript (util/fasthash.c): open addressing, with  *)
(* linear probing.  An entry that is deleted leaves a ghost, which has its *)
(* key still, until another one is put there.  The table is kept sparse,   *)
(* and grows when it is not; what it counts for that includes ghosts.      *)
(*                                                                         *)
(* A table is a record of its entries, its capacity and its length.        *)
(***************************************************************************)
EXTENDS Integers

CONSTANTS
  Hash,      \* the hash of each key
  NULL       \* no value

SPARSITY == 4

BLANK_ENTRY == [key |-> NULL, value |-> NULL, state |-> "BLANK"]

(* fasthash_create(), of a capacity that is a power of two.                *)
Table(capacity) ==
  [data |-> [k \in 0 .. capacity - 1 |-> BLANK_ENTRY], capacity |-> capacity, length |-> 0]

Least(S) == CHOOSE d \in S : \A e \in S : d <= e

(* Where the probe for a key is after d steps.                             *)
Slot(t, key, d) == (Hash[key] + d) % t.capacity

(* How many steps it takes to a blank entry.                               *)
Blank(t, key) == Least({d \in 0 .. t.capacity - 1 : t.data[Slot(t, key, d)].state = "BLANK"})

(* The steps at which the probe for a key meets entries of a state.        *)
Met(t, key, state) ==
  {d \in 0 .. Blank(t, key) - 1 : t.data[Slot(t, key, d)].state = state}

(* The step at which fasthash_get() finds the key, if it does.             *)
Found(t, key) == {d \in Met(t, key, "ACTIVE") : t.data[Slot(t, key, d)].key = key}

(* What fasthash_get() returns.                                            *)
Lookup(t, key) ==
  IF Found(t, key) = {} THEN NULL ELSE t.data[Slot(t, key, Least(Found(t, key)))].value

(* ... and leaves: an entry trades places with the first ghost on the way. *)
Swap(t, key) ==
  IF Found(t, key) = {} THEN t
  ELSE LET d == Least(Found(t, key))
           ghosts == {e \in Met(t, key, "DELETED") : e < d}
           marker == Slot(t, key, Least(ghosts))
           k == Slot(t, key, d)
       IN IF ghosts = {} THEN t
          ELSE [t EXCEPT !.data[marker] = t.data[k], !.data[k] = t.data[marker]]

(* fasthash_put(), where the table is sparse: in the place of a ghost, of  *)
(* an entry with the same key, or at the end.                              *)
Insert(t, key, value) ==
  LET d == Least(Met(t, key, "DELETED") \cup Found(t, key) \cup {Blank(t, key)})
  IN [t EXCEPT !.data[Slot(t, key, d)] = [key |-> key, value |-> value, state |-> "ACTIVE"],
               !.length = @ + (IF d = Blank(t, key) THEN 1 ELSE 0)]

(* A deviation: entries are copied to where they were.                     *)
GrowInPlace(t) ==
  [Table(2 * t.capacity) EXCEPT
     !.data = [k \in 0 .. 2 * t.capacity - 1 |->
                 IF k < t.capacity /\ t.data[k].state = "ACTIVE" THEN t.data[k] ELSE BLANK_ENTRY],
     !.length = t.length]

(* grow(): the entries, but no ghosts, are inserted again.                 *)
Grow(t) ==
  LET moved[k \in 0 .. t.capacity] ==
        IF k = 0 THEN Table(2 * t.capacity)
        ELSE IF t.data[k - 1].state = "ACTIVE"
               THEN Insert(moved[k - 1], t.data[k - 1].key, t.data[k - 1].value)
               ELSE moved[k - 1]
  IN moved[t.capacity]

(* fasthash_put().                                                         *)
Sparse(t) == t.length < t.capacity \div SPARSITY
Put(t, key, value) == Insert(IF Sparse(t) THEN t ELSE Grow(t), key, value)

(* fasthash_delete(): it looks no further than the first entry or ghost of *)
(* the key.                                                                *)
Delete(t, key) ==
  LET met == {d \in 0 .. Blank(t, key) - 1 : t.data[Slot(t, key, d)].key = key}
      k == Slot(t, key, Least(met))
  IN IF met # {} /\ t.data[k].state = "ACTIVE"
       THEN [t EXCEPT !.data[k].state = "DELETED"]
       ELSE t

(* The entries there are: fasthash_find() visits them.                     *)
Entries(t) == {k \in 0 .. t.capacity - 1 : t.data[k].state = "ACTIVE"}
================================================================================
