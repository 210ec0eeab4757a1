--------------------------------- MODULE Heap ---------------------------------
(***************************************************************************)
(* The heap of an object of SurgeScript (runtime/heap.c): cells that are   *)
(* allocated one at a time, from an allocation pointer upwards.  A heap is *)
(* a record of its cells, its size and the pointer.                        *)
(***************************************************************************)
EXTENDS Integers

CONSTANTS
  InitialSize,  \* SSHEAP_INITIAL_SIZE
  MaxSize,      \* SSHEAP_MAX_SIZE
  Null,         \* the value of a cell that has just been allocated
  Free          \* what is in a cell that is not allocated

ASSUME HeapAssumption ==
  /\ InitialSize \in Nat \ {0}
  /\ MaxSize \in Nat
  /\ Free # Null

(* surgescript_heap_create().                                              *)
NewHeap == [mem |-> [c \in 0 .. InitialSize - 1 |-> Free], size |-> InitialSize, ptr |-> 0]

(* The cells that are allocated: those that surgescript_heap_at() accepts. *)
Used(h) == {c \in 0 .. h.size - 1 : h.mem[c] # Free}

(* The free cells that the scan of surgescript_heap_malloc() can find.     *)
Ahead(h) == {c \in h.ptr .. h.size - 1 : h.mem[c] = Free}

(* surgescript_heap_malloc() is fatal.                                     *)
Exhausted(h) == Ahead(h) = {} /\ 2 * h.size >= MaxSize

(* Twice as many cells, to be scanned from the first one on.               *)
Doubled(h) ==
  [mem |-> [c \in 0 .. 2 * h.size - 1 |-> IF c < h.size THEN h.mem[c] ELSE Free],
   size |-> 2 * h.size, ptr |-> 0]

Roomy(h) == IF Ahead(h) = {} THEN Doubled(h) ELSE h

(* surgescript_heap_malloc(): the cell is the one the pointer is left at.  *)
malloc(h) ==
  LET g == Roomy(h)
      cell == CHOOSE c \in Ahead(g) : \A d \in Ahead(g) : c <= d
  IN [g EXCEPT !.mem[cell] = Null, !.ptr = cell]

(* surgescript_heap_free().                                                *)
free(h, c) == IF c \in Used(h) THEN [h EXCEPT !.mem[c] = Free, !.ptr = c] ELSE h
===============================================================================
