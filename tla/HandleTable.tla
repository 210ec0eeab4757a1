----------------------------- MODULE HandleTable -----------------------------
(***************************************************************************)
(* The table of objects of the object manager (runtime/object_manager.c):  *)
(* which handles are in use, how a fresh handle is found and how the table *)
(* grows.  A handle is an index of the table; handle 0 is the null         *)
(* reference and handle 1 the root object ("System").                      *)
(***************************************************************************)
EXTENDS Naturals, FiniteSets

CONSTANTS
  TableSize,   \* INITIAL_OBJECT_TABLE_SIZE (65536 in the code)
  MaxHandle,   \* bound of the model: no handle above it is handed out
  MaxLive      \* bound on the objects the callers keep at a time

(* n is a power of two, as the macro is_power_of_two() tests it (n > 0). *)
PowerOfTwo(n) == \E k \in 0 .. n : n = 2 ^ k

(* The code asserts that the initial size is a power of two. *)
ASSUME TableAssumption ==
  /\ TableSize \in Nat /\ TableSize > 1
  /\ MaxHandle \in Nat /\ MaxHandle > 1
  /\ MaxLive \in Nat
  /\ PowerOfTwo(TableSize)

NullHandle == 0
RootHandle == 1
Handles    == 1 .. MaxHandle

VARIABLES
  live,        \* the handles h whose slot data[h] is not NULL
  length,      \* ssarray_length(data)
  nextHandle,  \* next_handle, where the search for a free slot begins
  count        \* the number of objects the manager says it holds

tableVars == <<live, length, nextHandle, count>>

Larger(a, b) == IF a >= b THEN a ELSE b

(* The table right after the root object was spawned. *)
TableInit ==
  /\ live = {RootHandle}
  /\ length = TableSize
  /\ nextHandle = RootHandle
  /\ count = 1

(* new_handle() stops at the first slot, from next_handle on, that is free *)
(* or one past the end of the table.                                       *)
NewHandle(h) ==
  /\ h \in nextHandle .. length
  /\ h \notin live
  /\ \A g \in nextHandle .. h - 1 : g \in live

(* A deviation: the table is extended one handle too late.                 *)
AllocateLate(h) ==
  /\ NewHandle(h) /\ h # RootHandle
  /\ live' = live \cup {h} /\ count' = count + 1
  /\ nextHandle' = h
  /\ length' = IF h > length THEN length + 1 ELSE length

(* The part of spawn() that stores the object and counts it.  A handle     *)
(* past the end extends the table, and when that handle is a power of two  *)
(* the search is sent back to the middle of the table.                     *)
Allocate(h) ==
  /\ NewHandle(h)
  /\ h # RootHandle
  /\ live' = live \cup {h}
  /\ count' = count + 1
  /\ IF h >= length
       THEN /\ length' = length + 1
            /\ nextHandle' = IF PowerOfTwo(h)
                               THEN Larger(1 + RootHandle, h \div 2)
                               ELSE h
       ELSE /\ nextHandle' = h
            /\ UNCHANGED length

(* surgescript_objectmanager_delete(): the slot is cleared, the handle is  *)
(* free at once, and next_handle stays where it is.                        *)
Free(h) ==
  /\ h \in live
  /\ live' = live \ {h}
  /\ count' = count - 1
  /\ UNCHANGED <<length, nextHandle>>

-----------------------------------------------------------------------------

TableTypeOK ==
  /\ live \subseteq Handles
  /\ length \in Nat
  /\ nextHandle \in Nat
  /\ count \in Nat

(* Every object sits in a slot of the table, the search for a free slot    *)
(* never starts past its end, never at the null handle, and the table      *)
(* never shrinks below its initial size.                                   *)
TableOK ==
  /\ live \subseteq RootHandle .. length - 1
  /\ nextHandle \in RootHandle .. length
  /\ length >= TableSize
  /\ nextHandle = RootHandle => live \subseteq {RootHandle}

(* The count that scripts and the garbage collector's statistics read is   *)
(* the number of objects in the table.                                     *)
CountIsLive == count = Cardinality(live)
=============================================================================
