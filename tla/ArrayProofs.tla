------------------------------ MODULE ArrayProofs ------------------------------
(***************************************************************************)
(* The cells of an array are contiguous, an array is a list, iterators     *)
(* visit its elements and sorting orders them, whatever its values, the    *)
(* size of its heap and the calls made, and whatever a comparator does.    *)
(***************************************************************************)
EXTENDS MCArray, SequenceTheorems, WellFoundedInduction, TLAPS

(* What may be in a cell.                                                  *)
Cell == Int \cup {Null, Free}

(* The cells up to n are allocated, and no other ones.                     *)
Packed(h, n) ==
  /\ h = [mem |-> h.mem, size |-> h.size, ptr |-> h.ptr]
  /\ h.size \in Nat /\ h.ptr \in Nat
  /\ n \in Nat /\ n < h.size /\ h.ptr <= n + 1
  /\ h.mem \in [0 .. h.size - 1 -> Cell]
  /\ \A c \in 0 .. h.size - 1 : h.mem[c] = Free <=> c > n

HeapOK == Length \in Nat /\ Packed(heap, Length)

(* A loop of partition() and the calls to come are about elements.         *)
LoopOK(l, length) ==
  /\ l = [begin |-> l.begin, end |-> l.end, i |-> l.i, p |-> l.p]
  /\ l.begin \in Nat /\ l.end \in Nat /\ l.i \in Nat /\ l.p \in Nat
  /\ BASE_ADDR <= l.begin /\ l.begin <= l.p /\ l.p <= l.i /\ l.i <= l.end /\ l.end <= length

RangeOK(r, length) ==
  r.begin \in Nat /\ r.end \in Int /\ BASE_ADDR <= r.begin /\ r.end <= length

SortOK ==
  /\ task = [op |-> "sort", comparator |-> task.comparator, loop |-> task.loop,
             pending |-> task.pending]
  /\ task.loop = NoLoop \/ LoopOK(task.loop, Length)
  /\ task.pending \in Seq([begin : Int, end : Int])
  /\ \A n \in 1 .. Len(task.pending) : RangeOK(task.pending[n], Length)

TaskOK ==
  /\ task.op \in {"none", "set", "shuffle", "sort"}
  /\ task.op = "set" => task.index \in Nat /\ task.value \in Elements
  /\ task.op = "shuffle" => task = [op |-> "shuffle", i |-> task.i] /\ task.i \in 0 .. Length
  /\ task.op = "sort" => SortOK

ArrayInvariant == HeapOK /\ TaskOK /\ fatal # "assert"

-----------------------------------------------------------------------------
(* The heap.                                                               *)

(* Elements can be stored in cells.                                        *)
LEMMA ElementsAreCells == \A v \in Elements : v \in Cell /\ v # Free
BY ArrayAssumption, HeapAssumption DEF Elements, Cell

(* The function of the cells is replaced.                                  *)
LEMMA Written ==
  ASSUME NEW h, NEW n, Packed(h, n), NEW m
  PROVE  [h EXCEPT !.mem = m] = [mem |-> m, size |-> h.size, ptr |-> h.ptr]
BY DEF Packed

(* What is allocated is the cell after the last one.                       *)
LEMMA MallocNext ==
  ASSUME NEW h, NEW n, Packed(h, n), ~Exhausted(h)
  PROVE  /\ Packed(malloc(h), n + 1)
         /\ malloc(h).ptr = n + 1
         /\ malloc(h).mem[n + 1] = Null
         /\ \A c \in 0 .. n : malloc(h).mem[c] = h.mem[c]
<1> DEFINE g == Roomy(h)
<1>1. Packed(g, n) /\ (\A c \in 0 .. n : g.mem[c] = h.mem[c]) /\ n + 1 < g.size
  <2>1. CASE Ahead(h) = {}
    <3>1. n + 1 = h.size
      <4>1. n + 1 >= h.size
        BY <2>1 DEF Packed, Ahead
      <4> QED
        BY <4>1 DEF Packed
    <3>2. g = [mem |-> [c \in 0 .. 2 * h.size - 1 |-> IF c < h.size THEN h.mem[c] ELSE Free],
               size |-> 2 * h.size, ptr |-> 0]
      BY <2>1 DEF Roomy, Doubled
    <3>3. \A c \in 0 .. 2 * h.size - 1 : g.mem[c] = IF c < h.size THEN h.mem[c] ELSE Free
      BY <3>2
    <3>4. g.mem \in [0 .. 2 * h.size - 1 -> Cell]
      <4>1. \A c \in 0 .. 2 * h.size - 1 : (IF c < h.size THEN h.mem[c] ELSE Free) \in Cell
        BY DEF Packed, Cell
      <4> QED
        BY <3>2, <4>1
    <3>5. g.size = 2 * h.size /\ g.ptr = 0 /\ g = [mem |-> g.mem, size |-> g.size, ptr |-> g.ptr]
      BY <3>2
    <3> HIDE DEF g
    <3>6. \A c \in 0 .. g.size - 1 : g.mem[c] = Free <=> c > n
      BY <3>1, <3>3, <3>5 DEF Packed
    <3>7. \A c \in 0 .. n : g.mem[c] = h.mem[c]
      BY <3>1, <3>3 DEF Packed
    <3>8. n \in Nat /\ n + 1 < g.size /\ g.size \in Nat /\ g.ptr <= n + 1 /\ g.ptr \in Nat
      BY <3>1, <3>5 DEF Packed
    <3>9. g.mem \in [0 .. g.size - 1 -> Cell]
      BY <3>4, <3>5
    <3> QED
      BY <3>5, <3>6, <3>7, <3>8, <3>9 DEF Packed
  <2>2. CASE Ahead(h) # {}
    <3>1. g = h
      BY <2>2 DEF Roomy
    <3>2. n + 1 < h.size
      BY <2>2 DEF Packed, Ahead
    <3> QED
      BY <3>1, <3>2
  <2> QED
    BY <2>1, <2>2
<1> DEFINE cell == CHOOSE c \in Ahead(g) : \A d \in Ahead(g) : c <= d
<1> HIDE DEF g
<1>a. n \in Nat /\ g.size \in Nat /\ g.ptr \in Nat /\ g.ptr <= n + 1 /\ n + 1 < g.size
      /\ \A c \in 0 .. g.size - 1 : g.mem[c] = Free <=> c > n
  BY <1>1 DEF Packed
<1>2. n + 1 \in Ahead(g) /\ \A d \in Ahead(g) : n + 1 <= d
  <2>1. n + 1 \in Ahead(g)
    BY <1>a DEF Ahead
  <2>2. \A d \in Ahead(g) : n + 1 <= d
    BY <1>a DEF Ahead
  <2> QED
    BY <2>1, <2>2
<1>3. Ahead(g) \subseteq Nat
  BY <1>1 DEF Packed, Ahead
<1>4. cell = n + 1
  <2>1. cell \in Ahead(g) /\ \A d \in Ahead(g) : cell <= d
    BY <1>2
  <2> HIDE DEF cell
  <2> QED
    BY <1>2, <1>3, <2>1
<1>5. malloc(h) = [g EXCEPT !.mem[n + 1] = Null, !.ptr = n + 1]
  BY <1>4 DEF malloc, g
<1> HIDE DEF cell
<1>6. malloc(h) = [mem |-> [g.mem EXCEPT ![n + 1] = Null], size |-> g.size, ptr |-> n + 1]
  <2> DEFINE m == [g.mem EXCEPT ![n + 1] = Null]
             u == [g EXCEPT !.mem = m]
  <2>1. malloc(h) = [u EXCEPT !.ptr = n + 1]
    BY <1>5
  <2> HIDE DEF m
  <2>2. u = [mem |-> m, size |-> g.size, ptr |-> g.ptr]
    BY <1>1, Written
  <2>3. u = [mem |-> u.mem, size |-> u.size, ptr |-> u.ptr] /\ u.mem = m /\ u.size = g.size
    BY <2>2
  <2> HIDE DEF u
  <2>4. [u EXCEPT !.ptr = n + 1] = [mem |-> u.mem, size |-> u.size, ptr |-> n + 1]
    BY <2>3
  <2> QED
    BY <2>1, <2>3, <2>4 DEF m
<1>7. Null # Free /\ Null \in Cell
  BY HeapAssumption DEF Cell
<1>8. n + 1 \in 0 .. g.size - 1
  BY <1>1 DEF Packed
<1>9. \A c \in 0 .. g.size - 1 : malloc(h).mem[c] = IF c = n + 1 THEN Null ELSE g.mem[c]
  BY <1>1, <1>6 DEF Packed
<1>10. malloc(h).mem \in [0 .. g.size - 1 -> Cell]
  BY <1>1, <1>6, <1>7 DEF Packed
<1>11. malloc(h).size = g.size /\ malloc(h).ptr = n + 1
       /\ malloc(h) = [mem |-> malloc(h).mem, size |-> malloc(h).size, ptr |-> malloc(h).ptr]
  BY <1>6
<1>12. n \in Nat /\ g.size \in Nat
  BY <1>1 DEF Packed
<1>13. \A c \in 0 .. malloc(h).size - 1 : malloc(h).mem[c] = Free <=> c > n + 1
  <2>1. \A c \in 0 .. g.size - 1 : g.mem[c] = Free <=> c > n
    BY <1>1 DEF Packed
  <2> QED
    BY <1>7, <1>9, <1>11, <1>12, <2>1
<1>14. Packed(malloc(h), n + 1)
  <2>1. malloc(h).mem \in [0 .. malloc(h).size - 1 -> Cell]
    BY <1>10, <1>11
  <2>2. n + 1 \in Nat /\ n + 1 < malloc(h).size /\ malloc(h).ptr <= (n + 1) + 1
        /\ malloc(h).size \in Nat /\ malloc(h).ptr \in Nat
    BY <1>1, <1>11, <1>12
  <2> QED
    BY <1>11, <1>13, <2>1, <2>2 DEF Packed
<1>15. \A c \in 0 .. n : malloc(h).mem[c] = h.mem[c]
  BY <1>1, <1>9, <1>12
<1>16. malloc(h).mem[n + 1] = Null
  BY <1>8, <1>9
<1> QED
  BY <1>11, <1>14, <1>15, <1>16

(* Two cells are written.                                                  *)
LEMMA TwoWritten ==
  ASSUME NEW S, NEW T, NEW f \in [S -> T], NEW a \in S, NEW b \in S, NEW v \in T, NEW w \in T
  PROVE  /\ [f EXCEPT ![a] = v, ![b] = w] \in [S -> T]
         /\ \A c \in S : [f EXCEPT ![a] = v, ![b] = w][c] = IF c = b THEN w ELSE IF c = a THEN v ELSE f[c]
OBVIOUS

(* Cells are written: those that are in use and no other ones remain so.   *)
LEMMA Rewritten ==
  ASSUME NEW h, NEW n, Packed(h, n), NEW m \in [0 .. h.size - 1 -> Cell],
         \A c \in 0 .. h.size - 1 : m[c] = Free <=> h.mem[c] = Free
  PROVE  Packed([h EXCEPT !.mem = m], n) /\ [h EXCEPT !.mem = m].mem = m
<1>1. [h EXCEPT !.mem = m] = [mem |-> m, size |-> h.size, ptr |-> h.ptr]
  BY DEF Packed
<1> QED
  BY <1>1 DEF Packed

(* A heap that is packed is that of an array of its length.                *)
LEMMA Shaped ==
  ASSUME NEW n, Packed(heap', n), heap'.mem[LENGTH_ADDR] = n
  PROVE  HeapOK' /\ Length' = n
BY DEF HeapOK, Packed, Length

(* One more cell.                                                          *)
LEMMA LongerIsPacked ==
  ASSUME HeapOK, ~Exhausted(heap), NEW v \in Cell, v # Free
  PROVE  /\ Packed(Longer(v), Length + 1)
         /\ Longer(v).ptr = BASE_ADDR + Length
         /\ Longer(v).mem[LENGTH_ADDR] = Length + 1
         /\ \A c \in 1 .. Length : Longer(v).mem[c] = heap.mem[c]
         /\ Longer(v).mem[Length + 1] = v
<1> DEFINE h == malloc(heap)
<1> DEFINE m == [h.mem EXCEPT ![h.ptr] = v, ![LENGTH_ADDR] = Length + 1]
<1>1. Length \in Nat /\ Packed(heap, Length)
  BY DEF HeapOK
<1>2. Packed(h, Length + 1) /\ h.ptr = Length + 1
      /\ \A c \in 0 .. Length : h.mem[c] = heap.mem[c]
  BY <1>1, MallocNext
<1> HIDE DEF h
<1>a. Longer(v) = [h EXCEPT !.mem = m]
  BY DEF Longer, h
<1>3. Longer(v) = [mem |-> m, size |-> h.size, ptr |-> h.ptr]
  BY <1>2, <1>a, Written
<1>4. h.mem \in [0 .. h.size - 1 -> Cell] /\ h.size \in Nat /\ Length + 1 < h.size
  BY <1>2 DEF Packed
<1>b. h.ptr \in 0 .. h.size - 1 /\ LENGTH_ADDR \in 0 .. h.size - 1 /\ Length + 1 \in Cell
  BY <1>1, <1>2, <1>4 DEF Cell, LENGTH_ADDR
<1>5. /\ m \in [0 .. h.size - 1 -> Cell]
      /\ \A c \in 0 .. h.size - 1 :
           m[c] = IF c = LENGTH_ADDR THEN Length + 1 ELSE IF c = h.ptr THEN v ELSE h.mem[c]
  BY <1>4, <1>b, TwoWritten
<1>6. Free \notin Int
  BY ArrayAssumption
<1>7. m[LENGTH_ADDR] = Length + 1
  BY <1>5, <1>b
<1>8. \A c \in 0 .. h.size - 1 : m[c] = Free <=> c > Length + 1
  <2>1. \A c \in 0 .. h.size - 1 : h.mem[c] = Free <=> c > Length + 1
    BY <1>2 DEF Packed
  <2>2. \A c \in 0 .. h.size - 1 :
          m[c] = IF c = 0 THEN Length + 1 ELSE IF c = Length + 1 THEN v ELSE h.mem[c]
    BY <1>2, <1>5 DEF LENGTH_ADDR
  <2> HIDE DEF m
  <2> QED
    BY <1>1, <1>4, <1>6, <2>1, <2>2
<1> HIDE DEF m
<1>9. Longer(v).mem = m /\ Longer(v).size = h.size /\ Longer(v).ptr = Length + 1
      /\ Longer(v) = [mem |-> Longer(v).mem, size |-> Longer(v).size, ptr |-> Longer(v).ptr]
  BY <1>2, <1>3
<1>10. \A c \in 1 .. Length : Longer(v).mem[c] = heap.mem[c]
  BY <1>1, <1>2, <1>4, <1>5, <1>9 DEF LENGTH_ADDR
<1>11. Longer(v).mem[Length + 1] = v
  BY <1>1, <1>2, <1>4, <1>5, <1>9 DEF LENGTH_ADDR
<1>12. Packed(Longer(v), Length + 1) /\ Longer(v).ptr = BASE_ADDR + Length
       /\ Longer(v).mem[LENGTH_ADDR] = Length + 1
  BY <1>1, <1>4, <1>5, <1>7, <1>8, <1>9 DEF Packed, BASE_ADDR
<1> QED
  BY <1>10, <1>11, <1>12

(* The last cell is freed.                                                 *)
LEMMA ShorterIsPacked ==
  ASSUME NEW h, Packed(h, Length), Length \in Nat, Length > 0
  PROVE  /\ Packed(Shorter(h), Length - 1)
         /\ Shorter(h).mem[LENGTH_ADDR] = Length - 1
         /\ \A c \in 1 .. Length - 1 : Shorter(h).mem[c] = h.mem[c]
<1> DEFINE f == [h.mem EXCEPT ![LENGTH_ADDR] = Length - 1]
<1> DEFINE g == [h EXCEPT !.mem[LENGTH_ADDR] = Length - 1]
<1>1. g = [h EXCEPT !.mem = f]
  OBVIOUS
<1>2. g.mem = f /\ g.size = h.size /\ g.ptr = h.ptr
      /\ g = [mem |-> g.mem, size |-> g.size, ptr |-> g.ptr]
  BY <1>1, Written
<1>3. Free \notin Int
  BY ArrayAssumption
<1>4. h.mem \in [0 .. h.size - 1 -> Cell] /\ h.size \in Nat /\ Length < h.size
      /\ \A c \in 0 .. h.size - 1 : h.mem[c] = Free <=> c > Length
  BY DEF Packed
<1>5. g.mem \in [0 .. h.size - 1 -> Cell]
      /\ \A c \in 0 .. h.size - 1 : g.mem[c] = IF c = 0 THEN Length - 1 ELSE h.mem[c]
  <2>1. LENGTH_ADDR \in 0 .. h.size - 1 /\ Length - 1 \in Cell
    BY <1>4 DEF LENGTH_ADDR, Cell
  <2>2. f \in [0 .. h.size - 1 -> Cell]
        /\ \A c \in 0 .. h.size - 1 : f[c] = IF c = LENGTH_ADDR THEN Length - 1 ELSE h.mem[c]
    BY <1>4, <2>1
  <2> QED
    BY <1>2, <2>2 DEF LENGTH_ADDR
<1>6. Length \in Used(g) /\ BASE_ADDR + (Length - 1) = Length
  BY <1>2, <1>3, <1>4, <1>5 DEF Used, BASE_ADDR
<1>7. Shorter(h) = [g EXCEPT !.mem[Length] = Free, !.ptr = Length]
  BY <1>6 DEF Shorter, free
<1> HIDE DEF g
<1>8. Shorter(h) = [mem |-> [g.mem EXCEPT ![Length] = Free], size |-> g.size, ptr |-> Length]
  BY <1>2, <1>7
<1>9. Shorter(h).mem = [g.mem EXCEPT ![Length] = Free] /\ Shorter(h).size = h.size
      /\ Shorter(h).ptr = Length
      /\ Shorter(h) = [mem |-> Shorter(h).mem, size |-> Shorter(h).size, ptr |-> Shorter(h).ptr]
  BY <1>2, <1>8
<1>10. Shorter(h).mem \in [0 .. h.size - 1 -> Cell]
       /\ \A c \in 0 .. h.size - 1 : Shorter(h).mem[c] = IF c = Length THEN Free ELSE g.mem[c]
  BY <1>5, <1>9 DEF Cell
<1>11. \A c \in 0 .. h.size - 1 : Shorter(h).mem[c] = Free <=> c > Length - 1
  <2> TAKE c \in 0 .. h.size - 1
  <2>1. c \in Int /\ c >= 0
    OBVIOUS
  <2>2. CASE c = Length
    <3>1. Shorter(h).mem[c] = Free
      BY <1>10, <2>2
    <3> QED
      BY <2>2, <3>1
  <2>3. CASE c = 0
    <3>1. Shorter(h).mem[c] = Length - 1
      BY <1>5, <1>10, <2>3
    <3> QED
      BY <1>3, <2>3, <3>1
  <2>4. CASE c # Length /\ c # 0
    <3>1. Shorter(h).mem[c] = h.mem[c]
      BY <1>5, <1>10, <2>4
    <3>2. h.mem[c] = Free <=> c > Length
      BY <1>4
    <3> QED
      BY <2>1, <2>4, <3>1, <3>2
  <2> QED
    BY <2>2, <2>3, <2>4
<1>12. Shorter(h).mem[LENGTH_ADDR] = Length - 1
  BY <1>4, <1>5, <1>10 DEF LENGTH_ADDR
<1>13. \A c \in 1 .. Length - 1 : Shorter(h).mem[c] = h.mem[c]
  BY <1>4, <1>5, <1>10
<1>14. Packed(Shorter(h), Length - 1)
  BY <1>4, <1>9, <1>10, <1>11 DEF Packed
<1> QED
  BY <1>12, <1>13, <1>14

(* Two elements trade places.                                              *)
LEMMA SwappedIsPacked ==
  ASSUME HeapOK, NEW a \in Cells, NEW b \in Cells
  PROVE  /\ Packed(Swapped(a, b), Length)
         /\ Swapped(a, b).mem[LENGTH_ADDR] = Length
         /\ \A c \in 1 .. Length :
              Swapped(a, b).mem[c] = IF c = b THEN heap.mem[a] ELSE IF c = a THEN heap.mem[b]
                                     ELSE heap.mem[c]
<1> DEFINE m == [heap.mem EXCEPT ![a] = heap.mem[b], ![b] = heap.mem[a]]
<1>1. Length \in Nat /\ Packed(heap, Length)
  BY DEF HeapOK
<1>2. heap.mem \in [0 .. heap.size - 1 -> Cell] /\ heap.size \in Nat /\ Length < heap.size
      /\ \A c \in 0 .. heap.size - 1 : heap.mem[c] = Free <=> c > Length
  BY <1>1 DEF Packed
<1>3. a \in 1 .. Length /\ b \in 1 .. Length
  BY DEF Cells, BASE_ADDR
<1>a. Swapped(a, b) = [heap EXCEPT !.mem = m]
  BY DEF Swapped
<1>4. Swapped(a, b) = [mem |-> m, size |-> heap.size, ptr |-> heap.ptr]
  BY <1>1, <1>a, Written
<1>b. a \in 0 .. heap.size - 1 /\ b \in 0 .. heap.size - 1
  BY <1>1, <1>2, <1>3
<1>5. heap.mem[a] \in Cell /\ heap.mem[b] \in Cell
  BY <1>2, <1>b
<1>6. /\ m \in [0 .. heap.size - 1 -> Cell]
      /\ \A c \in 0 .. heap.size - 1 :
           m[c] = IF c = b THEN heap.mem[a] ELSE IF c = a THEN heap.mem[b] ELSE heap.mem[c]
  BY <1>2, <1>5, <1>b, TwoWritten
<1> HIDE DEF m
<1>7. \A c \in 0 .. heap.size - 1 : m[c] = Free <=> c > Length
  BY <1>1, <1>2, <1>3, <1>6
<1>8. m[LENGTH_ADDR] = Length
  BY <1>1, <1>2, <1>3, <1>6 DEF LENGTH_ADDR, Length
<1>9. Swapped(a, b).mem = m /\ Swapped(a, b).size = heap.size /\ Swapped(a, b).ptr = heap.ptr
      /\ Swapped(a, b) = [mem |-> Swapped(a, b).mem, size |-> Swapped(a, b).size,
                          ptr |-> Swapped(a, b).ptr]
  BY <1>4
<1>10. \A c \in 1 .. Length : c \in 0 .. heap.size - 1
  BY <1>1, <1>2
<1>11. Packed(Swapped(a, b), Length)
  BY <1>1, <1>6, <1>7, <1>8, <1>9 DEF Packed
<1> QED
  BY <1>6, <1>8, <1>9, <1>10, <1>11

(* Cells of elements are written over.                                     *)
LEMMA ElementsWritten ==
  ASSUME HeapOK, NEW m \in [0 .. heap.size - 1 -> Cell], m[LENGTH_ADDR] = Length,
         \A c \in Cells : m[c] # Free,
         \A c \in 0 .. heap.size - 1 : c \notin Cells => m[c] = heap.mem[c],
         heap' = [heap EXCEPT !.mem = m]
  PROVE  HeapOK' /\ Length' = Length
<1>1. Length \in Nat /\ Packed(heap, Length)
  BY DEF HeapOK
<1>2. Length < heap.size /\ heap.size \in Nat
      /\ \A c \in 0 .. heap.size - 1 : heap.mem[c] = Free <=> c > Length
  BY <1>1 DEF Packed
<1>3. \A c \in 0 .. heap.size - 1 : m[c] = Free <=> heap.mem[c] = Free
  BY <1>1, <1>2 DEF Cells, BASE_ADDR
<1>4. Packed(heap', Length) /\ heap'.mem = m
  BY <1>1, <1>3, Rewritten
<1> QED
  BY <1>4, Shaped

(* A cell is added, if the heap has room for it.                           *)
LEMMA Extended ==
  ASSUME HeapOK, fatal # "assert", NEW cells, Extend(cells),
         ~Exhausted(heap) => /\ Packed(cells, Length + 1)
                             /\ cells.ptr = BASE_ADDR + Length
                             /\ cells.mem[LENGTH_ADDR] = Length + 1
  PROVE  HeapOK' /\ Length' >= Length /\ fatal' # "assert"
<1>1. Length \in Nat
  BY DEF HeapOK
<1>2. CASE Exhausted(heap)
  BY <1>1, <1>2 DEF Extend, HeapOK, Length
<1>3. CASE ~Exhausted(heap)
  <2>1. heap' = cells /\ fatal' = fatal
    BY <1>3 DEF Extend
  <2>2. Packed(heap', Length + 1) /\ heap'.mem[LENGTH_ADDR] = Length + 1
    BY <1>3, <2>1
  <2>3. HeapOK' /\ Length' = Length + 1
    BY <2>2, Shaped
  <2> QED
    BY <1>1, <2>1, <2>3
<1> QED
  BY <1>2, <1>3

LEMMA LongerExtends ==
  ASSUME HeapOK, fatal # "assert", NEW v \in Elements, Extend(Longer(v))
  PROVE  HeapOK' /\ Length' >= Length /\ fatal' # "assert"
BY ElementsAreCells, LongerIsPacked, Extended

(* A task goes on on an array that did not become shorter.                 *)
LEMMA TaskKept ==
  ASSUME TaskOK, UNCHANGED task, Length \in Nat, Length' \in Nat, Length' >= Length
  PROVE  TaskOK'
<1>1. CASE task.op = "set"
  BY <1>1 DEF TaskOK
<1>2. CASE task.op = "shuffle"
  BY <1>2 DEF TaskOK
<1>3. CASE task.op = "sort"
  <2>1. SortOK
    BY <1>3 DEF TaskOK
  <2>2. SortOK'
    BY <2>1 DEF SortOK, LoopOK, RangeOK
  <2> QED
    BY <1>3, <2>2 DEF TaskOK
<1>4. CASE task.op = "none"
  BY <1>4 DEF TaskOK
<1> QED
  BY <1>1, <1>2, <1>3, <1>4 DEF TaskOK

LEMMA AtRest == task' = Idle => TaskOK'
BY DEF Idle, TaskOK

-----------------------------------------------------------------------------
(* The steps.                                                              *)

(* Calls that read only, and those that begin a task.                      *)
LEMMA ReadsKeep ==
  ASSUME ArrayInvariant,
         GetLength \/ Iterator \/ ItNext \/ (\E i : Get(i)) \/ (\E v : IndexOf(v))
  PROVE  ArrayInvariant'
<1>1. UNCHANGED <<heap, task>> /\ fatal' # "assert"
  BY DEF ArrayInvariant, GetLength, Iterator, ItNext, Get, IndexOf
<1>2. HeapOK' /\ Length' = Length /\ Length \in Nat
  BY <1>1 DEF ArrayInvariant, HeapOK, Length
<1>3. TaskOK'
  BY <1>1, <1>2, TaskKept DEF ArrayInvariant
<1> QED
  BY <1>1, <1>2, <1>3 DEF ArrayInvariant

LEMMA BeginsKeep ==
  ASSUME ArrayInvariant,
         Shuffle \/ (\E c \in Comparators : Sort(c))
         \/ (\E i \in -1 .. Length + Gap, v \in Elements : Set(i, v))
  PROVE  ArrayInvariant'
<1>1. UNCHANGED heap /\ fatal' # "assert"
  BY DEF ArrayInvariant, Shuffle, Sort, Set
<1>2. HeapOK' /\ Length' = Length /\ Length \in Nat
  BY <1>1 DEF ArrayInvariant, HeapOK, Length
<1>3. TaskOK'
  <2>1. CASE Shuffle
    <3>1. task' = [op |-> "shuffle", i |-> Length]
      BY <2>1 DEF Shuffle
    <3> QED
      BY <1>2, <3>1 DEF TaskOK
  <2>2. ASSUME NEW c \in Comparators, Sort(c) PROVE TaskOK'
    <3> DEFINE r == [begin |-> BASE_ADDR, end |-> BASE_ADDR + Length - 1]
    <3>1. task' = [op |-> "sort", comparator |-> c, loop |-> NoLoop, pending |-> <<r>>]
      BY <2>2 DEF Sort
    <3>2. r \in [begin : Int, end : Int] /\ RangeOK(r, Length')
      BY <1>2 DEF RangeOK, BASE_ADDR
    <3> HIDE DEF r
    <3>3. <<r>> \in Seq([begin : Int, end : Int]) /\ Len(<<r>>) = 1 /\ <<r>>[1] = r
      BY <3>2
    <3>5. task'.pending = <<r>> /\ task'.loop = NoLoop
          /\ task' = [op |-> "sort", comparator |-> task'.comparator, loop |-> task'.loop,
                      pending |-> task'.pending]
      BY <3>1
    <3>6. \A n \in 1 .. Len(task'.pending) : RangeOK(task'.pending[n], Length')
      <4>1. \A n \in 1 .. 1 : <<r>>[n] = r
        OBVIOUS
      <4> QED
        BY <3>2, <3>3, <3>5, <4>1
    <3>4. SortOK'
      BY <3>3, <3>5, <3>6 DEF SortOK
    <3> QED
      BY <3>1, <3>4 DEF TaskOK
  <2>3. ASSUME NEW i \in -1 .. Length + Gap, NEW v \in Elements, Set(i, v) PROVE TaskOK'
    <3>1. CASE i < 0 \/ i >= Length + Gap
      <4>1. UNCHANGED task
        BY <2>3, <3>1 DEF Set
      <4> QED
        BY <1>2, <4>1, TaskKept DEF ArrayInvariant
    <3>2. CASE ~(i < 0 \/ i >= Length + Gap)
      <4>1. task' = [op |-> "set", index |-> i, value |-> v, length |-> Length]
        BY <2>3, <3>2 DEF Set
      <4>2. i \in Nat
        BY <1>2, <3>2, ArrayAssumption
      <4> QED
        BY <4>1, <4>2 DEF TaskOK, Elements
    <3> QED
      BY <3>1, <3>2
  <2> QED
    BY <2>1, <2>2, <2>3
<1> QED
  BY <1>1, <1>2, <1>3 DEF ArrayInvariant

(* Calls that add a cell.                                                  *)
LEMMA AdditionsKeep ==
  ASSUME ArrayInvariant,
         SetGrow \/ (\E v \in Elements : Push(v) \/ ScriptPush(v))
  PROVE  ArrayInvariant'
<1>1. Null \in Elements
  BY DEF Elements
<1>2. UNCHANGED task /\ \E v \in Elements : Extend(Longer(v))
  BY <1>1 DEF SetGrow, Push, ScriptPush
<1>3. HeapOK' /\ Length' >= Length /\ fatal' # "assert"
  BY <1>2, LongerExtends DEF ArrayInvariant
<1>4. Length \in Nat /\ Length' \in Nat
  BY <1>3 DEF ArrayInvariant, HeapOK
<1> QED
  BY <1>2, <1>3, <1>4, TaskKept DEF ArrayInvariant

LEMMA UnshiftKeeps ==
  ASSUME ArrayInvariant, NEW v \in Elements, Unshift(v)
  PROVE  ArrayInvariant'
<1> DEFINE h == Longer(Null)
<1> DEFINE m == [c \in DOMAIN h.mem |->
                   IF c = BASE_ADDR THEN v ELSE IF c - 1 \in Cells THEN h.mem[c - 1] ELSE h.mem[c]]
<1>1. UNCHANGED task /\ Extend([h EXCEPT !.mem = m])
  BY DEF Unshift
<1>2. HeapOK /\ Length \in Nat /\ fatal # "assert"
  BY DEF ArrayInvariant, HeapOK
<1>3. ASSUME ~Exhausted(heap)
      PROVE  LET g == [h EXCEPT !.mem = m]
             IN /\ Packed(g, Length + 1)
                /\ g.ptr = BASE_ADDR + Length
                /\ g.mem[LENGTH_ADDR] = Length + 1
  <2>1. /\ Packed(h, Length + 1) /\ h.ptr = BASE_ADDR + Length
        /\ h.mem[LENGTH_ADDR] = Length + 1
    BY <1>2, <1>3, ElementsAreCells, LongerIsPacked DEF Elements
  <2> HIDE DEF h
  <2>2. /\ h.mem \in [0 .. h.size - 1 -> Cell] /\ h.size \in Nat /\ Length + 1 < h.size
        /\ \A c \in 0 .. h.size - 1 : h.mem[c] = Free <=> c > Length + 1
    BY <2>1 DEF Packed
  <2>3. DOMAIN h.mem = 0 .. h.size - 1
    BY <2>2
  <2>4. \A c \in 0 .. h.size - 1 :
          m[c] = IF c = 1 THEN v ELSE IF c \in 2 .. Length + 1 THEN h.mem[c - 1] ELSE h.mem[c]
    BY <1>2, <2>3 DEF Cells, BASE_ADDR
  <2>5. \A c \in 0 .. h.size - 1 : m[c] \in Cell /\ (m[c] = Free <=> h.mem[c] = Free)
    <3> SUFFICES ASSUME NEW c \in 0 .. h.size - 1
                 PROVE  m[c] \in Cell /\ (m[c] = Free <=> h.mem[c] = Free)
      OBVIOUS
    <3>1. CASE c = 1
      <4>1. m[c] = v
        BY <2>4, <3>1
      <4>2. h.mem[c] # Free
        BY <1>2, <2>2, <3>1
      <4> QED
        BY <4>1, <4>2, ElementsAreCells
    <3>2. CASE c \in 2 .. Length + 1
      <4>1. m[c] = h.mem[c - 1]
        BY <2>4, <3>2
      <4>2. c - 1 \in 0 .. h.size - 1 /\ c - 1 <= Length + 1 /\ c <= Length + 1
        BY <1>2, <2>2, <3>2
      <4> QED
        BY <1>2, <2>2, <4>1, <4>2
    <3>3. CASE c # 1 /\ c \notin 2 .. Length + 1
      <4>1. m[c] = h.mem[c]
        BY <2>4, <3>3
      <4> QED
        BY <2>2, <4>1
    <3> QED
      BY <3>1, <3>2, <3>3
  <2>6. m \in [0 .. h.size - 1 -> Cell]
    BY <2>3, <2>5
  <2>7. m[LENGTH_ADDR] = Length + 1
    <3> HIDE DEF m
    <3>1. 0 \in 0 .. h.size - 1
      BY <1>2, <2>2
    <3>2. m[0] = h.mem[0]
      BY <1>2, <2>4, <3>1
    <3> QED
      BY <2>1, <3>2 DEF LENGTH_ADDR
  <2> HIDE DEF m
  <2>8. [h EXCEPT !.mem = m] = [mem |-> m, size |-> h.size, ptr |-> h.ptr]
    BY <2>1, Written
  <2>9. Packed([h EXCEPT !.mem = m], Length + 1)
    BY <2>1, <2>5, <2>6, Rewritten
  <2> QED
    BY <2>1, <2>7, <2>8, <2>9
<1>4. HeapOK' /\ Length' >= Length /\ fatal' # "assert"
  <2> HIDE DEF m, h
  <2> QED
    BY <1>1, <1>2, <1>3, Extended
<1>5. Length' \in Nat
  BY <1>4 DEF HeapOK
<1> QED
  BY <1>1, <1>2, <1>4, <1>5, TaskKept DEF ArrayInvariant

(* Calls that free cells.                                                  *)
LEMMA PopKeeps == ASSUME ArrayInvariant, Pop PROVE ArrayInvariant'
<1>1. HeapOK /\ Length \in Nat /\ Packed(heap, Length) /\ UNCHANGED fatal /\ task' = Idle
  BY DEF ArrayInvariant, HeapOK, Pop, Call
<1>2. CASE Length > 0
  <2>1. heap' = Shorter(heap)
    BY <1>2 DEF Pop
  <2>2. HeapOK'
    BY <1>1, <1>2, <2>1, ShorterIsPacked, Shaped
  <2> QED
    BY <1>1, <2>2, AtRest DEF ArrayInvariant
<1>3. CASE ~(Length > 0)
  <2>1. HeapOK'
    BY <1>1, <1>3 DEF Pop, HeapOK, Length
  <2> QED
    BY <1>1, <2>1, AtRest DEF ArrayInvariant
<1> QED
  BY <1>2, <1>3

(* The elements are moved to the cells before theirs.                      *)
LEMMA ShiftedIsPacked ==
  ASSUME HeapOK
  PROVE  LET m == [c \in DOMAIN heap.mem |->
                     IF c \in Cells /\ c + 1 \in Cells THEN heap.mem[c + 1] ELSE heap.mem[c]]
             h == [heap EXCEPT !.mem = m]
         IN Packed(h, Length) /\ h.mem = m /\ \A c \in 1 .. Length - 1 : m[c] = heap.mem[c + 1]
<1> DEFINE m == [c \in DOMAIN heap.mem |->
                   IF c \in Cells /\ c + 1 \in Cells THEN heap.mem[c + 1] ELSE heap.mem[c]]
<1>1. Length \in Nat /\ Packed(heap, Length)
  BY DEF HeapOK
<1>2. heap.mem \in [0 .. heap.size - 1 -> Cell] /\ heap.size \in Nat /\ Length < heap.size
      /\ \A c \in 0 .. heap.size - 1 : heap.mem[c] = Free <=> c > Length
  BY <1>1 DEF Packed
<1>a. \A c \in 0 .. heap.size - 1 :
        m[c] = IF c \in Cells /\ c + 1 \in Cells THEN heap.mem[c + 1] ELSE heap.mem[c]
  BY <1>2
<1>3. \A c \in 0 .. heap.size - 1 : m[c] \in Cell /\ (m[c] = Free <=> heap.mem[c] = Free)
  <2> SUFFICES ASSUME NEW c \in 0 .. heap.size - 1
               PROVE  m[c] \in Cell /\ (m[c] = Free <=> heap.mem[c] = Free)
    OBVIOUS
  <2>1. m[c] = IF c \in Cells /\ c + 1 \in Cells THEN heap.mem[c + 1] ELSE heap.mem[c]
    BY <1>a
  <2> HIDE DEF m
  <2>2. CASE c \in Cells /\ c + 1 \in Cells
    <3>1. c + 1 \in 0 .. heap.size - 1 /\ c + 1 <= Length /\ c <= Length
      BY <1>1, <1>2, <2>2 DEF Cells, BASE_ADDR
    <3> QED
      BY <1>1, <1>2, <2>1, <2>2, <3>1
  <2>3. CASE ~(c \in Cells /\ c + 1 \in Cells)
    BY <1>2, <2>1, <2>3
  <2> QED
    BY <2>2, <2>3
<1>4. m \in [0 .. heap.size - 1 -> Cell]
  BY <1>2, <1>3
<1> HIDE DEF m
<1>5. Packed([heap EXCEPT !.mem = m], Length) /\ [heap EXCEPT !.mem = m].mem = m
  BY <1>1, <1>3, <1>4, Rewritten
<1>6. \A c \in 1 .. Length - 1 : m[c] = heap.mem[c + 1]
  <2> TAKE c \in 1 .. Length - 1
  <2>1. c \in 0 .. heap.size - 1 /\ c \in Cells /\ c + 1 \in Cells
    BY <1>1, <1>2 DEF Cells, BASE_ADDR
  <2> QED
    BY <1>a, <2>1
<1> QED
  BY <1>5, <1>6 DEF m

LEMMA ShiftKeeps == ASSUME ArrayInvariant, Shift PROVE ArrayInvariant'
<1>1. HeapOK /\ Length \in Nat /\ Packed(heap, Length) /\ UNCHANGED fatal /\ task' = Idle
  BY DEF ArrayInvariant, HeapOK, Shift, Call
<1>2. CASE Length > 0
  <2> DEFINE m == [c \in DOMAIN heap.mem |->
                     IF c \in Cells /\ c + 1 \in Cells THEN heap.mem[c + 1] ELSE heap.mem[c]]
             h == [heap EXCEPT !.mem = m]
  <2>1. heap' = Shorter(h)
    BY <1>2 DEF Shift
  <2>2. Packed(h, Length)
    BY <1>1, ShiftedIsPacked
  <2> HIDE DEF h
  <2>3. HeapOK'
    BY <1>1, <1>2, <2>1, <2>2, ShorterIsPacked, Shaped
  <2> QED
    BY <1>1, <2>3, AtRest DEF ArrayInvariant
<1>3. CASE ~(Length > 0)
  <2>1. HeapOK'
    BY <1>1, <1>3 DEF Shift, HeapOK, Length
  <2> QED
    BY <1>1, <2>1, AtRest DEF ArrayInvariant
<1> QED
  BY <1>2, <1>3

LEMMA ClearKeeps == ASSUME ArrayInvariant, Clear PROVE ArrayInvariant'
<1>1. HeapOK /\ Length \in Nat /\ Packed(heap, Length) /\ UNCHANGED fatal /\ task' = Idle
  BY DEF ArrayInvariant, HeapOK, Clear, Call
<1>2. CASE Length > 0
  <2> DEFINE m == [c \in DOMAIN heap.mem |->
                     IF c \in Cells THEN Free ELSE IF c = LENGTH_ADDR THEN 0 ELSE heap.mem[c]]
  <2>1. heap' = [heap EXCEPT !.mem = m, !.ptr = BASE_ADDR]
    BY <1>2 DEF Clear
  <2>2. heap.mem \in [0 .. heap.size - 1 -> Cell] /\ heap.size \in Nat /\ Length < heap.size
        /\ \A c \in 0 .. heap.size - 1 : heap.mem[c] = Free <=> c > Length
    BY <1>1 DEF Packed
  <2>3. \A c \in 0 .. heap.size - 1 :
          m[c] = IF c \in 1 .. Length THEN Free ELSE IF c = 0 THEN 0 ELSE heap.mem[c]
    BY <2>2 DEF Cells, BASE_ADDR, LENGTH_ADDR
  <2>4. Free \notin Int
    BY ArrayAssumption
  <2>a. DOMAIN m = 0 .. heap.size - 1 /\ m = [c \in 0 .. heap.size - 1 |-> m[c]]
    BY <2>2
  <2> HIDE DEF m
  <2>5. \A c \in 0 .. heap.size - 1 : m[c] \in Cell /\ (m[c] = Free <=> c > 0)
    <3> SUFFICES ASSUME NEW c \in 0 .. heap.size - 1
                 PROVE  m[c] \in Cell /\ (m[c] = Free <=> c > 0)
      OBVIOUS
    <3>1. CASE c \in 1 .. Length
      BY <2>3, <3>1 DEF Cell
    <3>2. CASE c = 0
      BY <1>1, <2>3, <2>4, <3>2 DEF Cell
    <3>3. CASE c > Length
      <4>1. m[c] = heap.mem[c]
        BY <1>1, <2>2, <2>3, <3>3
      <4> QED
        BY <1>1, <2>2, <3>3, <4>1
    <3> QED
      BY <1>1, <2>2, <3>1, <3>2, <3>3
  <2>6. m \in [0 .. heap.size - 1 -> Cell]
    BY <2>a, <2>5
  <2>7. heap' = [mem |-> m, size |-> heap.size, ptr |-> 1]
    BY <1>1, <2>1 DEF Packed, BASE_ADDR
  <2>8. heap'.mem = m /\ heap'.size = heap.size /\ heap'.ptr = 1
        /\ heap' = [mem |-> heap'.mem, size |-> heap'.size, ptr |-> heap'.ptr]
    BY <2>7
  <2>9. Packed(heap', 0)
    BY <1>1, <1>2, <2>2, <2>5, <2>6, <2>8 DEF Packed
  <2>10. heap'.mem[LENGTH_ADDR] = 0
    BY <1>1, <2>2, <2>3, <2>8 DEF LENGTH_ADDR
  <2>11. HeapOK'
    BY <2>9, <2>10, Shaped
  <2> QED
    BY <1>1, <2>11, AtRest DEF ArrayInvariant
<1>3. CASE ~(Length > 0)
  <2>1. HeapOK'
    BY <1>1, <1>3 DEF Clear, HeapOK, Length
  <2> QED
    BY <1>1, <2>1, AtRest DEF ArrayInvariant
<1> QED
  BY <1>2, <1>3

(* Two elements trade places.                                              *)
LEMMA SwapKeeps ==
  ASSUME HeapOK, NEW a \in Cells, NEW b \in Cells, heap' = Swapped(a, b)
  PROVE  HeapOK' /\ Length' = Length
BY SwappedIsPacked, Shaped

LEMMA ReverseKeeps == ASSUME ArrayInvariant, Reverse PROVE ArrayInvariant'
<1>1. HeapOK /\ Length \in Nat /\ Packed(heap, Length) /\ UNCHANGED fatal /\ task' = Idle
  BY DEF ArrayInvariant, HeapOK, Reverse, Call
<1> DEFINE m == [c \in DOMAIN heap.mem |->
                   IF c \in Cells THEN heap.mem[Length + BASE_ADDR - c] ELSE heap.mem[c]]
<1>2. heap' = [heap EXCEPT !.mem = m]
  BY DEF Reverse
<1>3. heap.mem \in [0 .. heap.size - 1 -> Cell] /\ heap.size \in Nat /\ Length < heap.size
      /\ \A c \in 0 .. heap.size - 1 : heap.mem[c] = Free <=> c > Length
  BY <1>1 DEF Packed
<1>4. \A c \in 0 .. heap.size - 1 :
        m[c] = IF c \in 1 .. Length THEN heap.mem[Length + 1 - c] ELSE heap.mem[c]
  BY <1>3 DEF Cells, BASE_ADDR
<1>a. m = [c \in 0 .. heap.size - 1 |-> m[c]]
  BY <1>3
<1> HIDE DEF m
<1>5. \A c \in 0 .. heap.size - 1 :
        m[c] \in Cell /\ (c \in Cells => m[c] # Free) /\ (c \notin Cells => m[c] = heap.mem[c])
  <2> SUFFICES ASSUME NEW c \in 0 .. heap.size - 1
               PROVE  /\ m[c] \in Cell
                      /\ c \in Cells => m[c] # Free
                      /\ c \notin Cells => m[c] = heap.mem[c]
    OBVIOUS
  <2>1. CASE c \in 1 .. Length
    <3>1. Length + 1 - c \in 0 .. heap.size - 1 /\ Length + 1 - c <= Length
      BY <1>1, <1>3, <2>1
    <3>2. m[c] = heap.mem[Length + 1 - c] /\ c \in Cells
      BY <1>4, <2>1 DEF Cells, BASE_ADDR
    <3>3. heap.mem[Length + 1 - c] \in Cell /\ heap.mem[Length + 1 - c] # Free
      BY <1>1, <1>3, <2>1, <3>1
    <3> QED
      BY <3>2, <3>3
  <2>2. CASE c \notin 1 .. Length
    BY <1>3, <1>4, <2>2 DEF Cells, BASE_ADDR
  <2> QED
    BY <2>1, <2>2
<1>6. m \in [0 .. heap.size - 1 -> Cell]
  BY <1>a, <1>5
<1>7. m[LENGTH_ADDR] = Length /\ Cells \subseteq 0 .. heap.size - 1
  BY <1>1, <1>3, <1>4 DEF LENGTH_ADDR, Length, Cells, BASE_ADDR
<1>8. HeapOK'
  BY <1>1, <1>2, <1>5, <1>6, <1>7, ElementsWritten
<1> QED
  BY <1>1, <1>8, AtRest DEF ArrayInvariant

(* Calls that store a value in an element.                                 *)
LEMMA StoreKeeps ==
  ASSUME HeapOK, NEW c \in Cells, NEW v \in Elements, heap' = [heap EXCEPT !.mem[c] = v]
  PROVE  HeapOK' /\ Length' = Length
<1> DEFINE m == [heap.mem EXCEPT ![c] = v]
<1>1. Length \in Nat /\ Packed(heap, Length)
  BY DEF HeapOK
<1>2. heap.mem \in [0 .. heap.size - 1 -> Cell] /\ heap.size \in Nat /\ Length < heap.size
      /\ \A d \in 0 .. heap.size - 1 : heap.mem[d] = Free <=> d > Length
  BY <1>1 DEF Packed
<1>3. c \in 1 .. Length /\ c \in 0 .. heap.size - 1 /\ v \in Cell /\ v # Free
  BY <1>1, <1>2, ElementsAreCells DEF Cells, BASE_ADDR
<1>4. m \in [0 .. heap.size - 1 -> Cell]
      /\ \A d \in 0 .. heap.size - 1 : m[d] = IF d = c THEN v ELSE heap.mem[d]
  BY <1>2, <1>3
<1>5. heap' = [heap EXCEPT !.mem = m]
  OBVIOUS
<1> HIDE DEF m
<1>6. m[LENGTH_ADDR] = Length
  BY <1>1, <1>2, <1>3, <1>4 DEF LENGTH_ADDR, Length
<1>7. \A d \in Cells : m[d] # Free
  BY <1>1, <1>2, <1>3, <1>4 DEF Cells, BASE_ADDR
<1>8. \A d \in 0 .. heap.size - 1 : d \notin Cells => m[d] = heap.mem[d]
  BY <1>4
<1> QED
  BY <1>4, <1>5, <1>6, <1>7, <1>8, ElementsWritten

LEMMA SetStoreKeeps == ASSUME ArrayInvariant, SetStore PROVE ArrayInvariant'
<1>1. task.index \in Nat /\ task.value \in Elements /\ task.index < Length /\ Length \in Nat
  BY DEF ArrayInvariant, TaskOK, SetStore, HeapOK
<1>2. BASE_ADDR + task.index \in Cells
  BY <1>1 DEF Cells, BASE_ADDR
<1>3. HeapOK' /\ UNCHANGED fatal /\ task' = Idle
  BY <1>1, <1>2, StoreKeeps DEF SetStore, ArrayInvariant
<1> QED
  BY <1>3, AtRest DEF ArrayInvariant

LEMMA ScriptStoreKeeps ==
  ASSUME ArrayInvariant, NEW c \in Cells, NEW v \in Elements, ScriptStore(c, v)
  PROVE  ArrayInvariant'
<1>1. HeapOK' /\ Length' = Length /\ Length \in Nat /\ UNCHANGED <<task, fatal>>
  BY StoreKeeps DEF ScriptStore, ArrayInvariant, HeapOK
<1> QED
  BY <1>1, TaskKept DEF ArrayInvariant

(* Steps of tasks that exchange elements.                                  *)
LEMMA ShuffleStepKeeps == ASSUME ArrayInvariant, ShuffleStep PROVE ArrayInvariant'
<1>1. task = [op |-> "shuffle", i |-> task.i] /\ task.i \in 0 .. Length
  BY DEF ArrayInvariant, TaskOK, ShuffleStep
<1>2. HeapOK /\ Length \in Nat /\ UNCHANGED fatal
  BY DEF ArrayInvariant, HeapOK, ShuffleStep
<1>3. CASE task.i > 0
  <2>1. PICK j \in 0 .. task.i - 1 : heap' = Swapped(BASE_ADDR + (task.i - 1), BASE_ADDR + j)
    BY <1>3 DEF ShuffleStep
  <2>2. BASE_ADDR + (task.i - 1) \in Cells /\ BASE_ADDR + j \in Cells
    BY <1>1, <1>2, <1>3 DEF Cells, BASE_ADDR
  <2>3. HeapOK' /\ Length' = Length
    BY <1>2, <2>1, <2>2, SwapKeeps
  <2>4. task' = [task EXCEPT !.i = task.i - 1]
    BY <1>3 DEF ShuffleStep
  <2>5. task' = [op |-> "shuffle", i |-> task.i - 1]
    BY <1>1, <2>4
  <2>6. TaskOK'
    BY <1>1, <1>2, <1>3, <2>3, <2>5 DEF TaskOK
  <2> QED
    BY <1>2, <2>3, <2>6 DEF ArrayInvariant
<1>4. CASE ~(task.i > 0)
  <2>1. UNCHANGED heap /\ task' = Idle
    BY <1>4 DEF ShuffleStep
  <2>2. HeapOK'
    BY <1>2, <2>1 DEF HeapOK, Length
  <2> QED
    BY <1>2, <2>1, <2>2, AtRest DEF ArrayInvariant
<1> QED
  BY <1>3, <1>4

LEMMA SortReturnsKeeps == ASSUME ArrayInvariant, SortReturns PROVE ArrayInvariant'
<1>1. UNCHANGED <<heap, fatal>> /\ task' = Idle
  BY DEF SortReturns
<1>2. HeapOK'
  BY <1>1 DEF ArrayInvariant, HeapOK, Length
<1> QED
  BY <1>1, <1>2, AtRest DEF ArrayInvariant

(* The loop and the calls to come of a sort are replaced.                  *)
LEMMA SortTask ==
  ASSUME NEW t, NEW l, NEW p,
         t = [op |-> "sort", comparator |-> t.comparator, loop |-> t.loop, pending |-> t.pending]
  PROVE  /\ [t EXCEPT !.pending = p] =
              [op |-> "sort", comparator |-> t.comparator, loop |-> t.loop, pending |-> p]
         /\ [t EXCEPT !.loop = l] =
              [op |-> "sort", comparator |-> t.comparator, loop |-> l, pending |-> t.pending]
         /\ [t EXCEPT !.loop = l, !.pending = p] =
              [op |-> "sort", comparator |-> t.comparator, loop |-> l, pending |-> p]
<1>1. [t EXCEPT !.pending = p] =
        [op |-> "sort", comparator |-> t.comparator, loop |-> t.loop, pending |-> p]
  OBVIOUS
<1>2. [t EXCEPT !.loop = l] =
        [op |-> "sort", comparator |-> t.comparator, loop |-> l, pending |-> t.pending]
  OBVIOUS
<1>3. [t EXCEPT !.loop = l, !.pending = p] =
        [op |-> "sort", comparator |-> t.comparator, loop |-> l, pending |-> p]
  <2> DEFINE u == [t EXCEPT !.loop = l]
  <2>1. [t EXCEPT !.loop = l, !.pending = p] = [u EXCEPT !.pending = p]
    OBVIOUS
  <2>2. u = [op |-> "sort", comparator |-> u.comparator, loop |-> u.loop, pending |-> u.pending]
        /\ u.comparator = t.comparator /\ u.loop = l
    BY <1>2
  <2> HIDE DEF u
  <2>3. [u EXCEPT !.pending = p] =
          [op |-> "sort", comparator |-> u.comparator, loop |-> u.loop, pending |-> p]
    BY <2>2
  <2> QED
    BY <2>1, <2>2, <2>3
<1> QED
  BY <1>1, <1>2, <1>3

(* The loop of a partition goes on.                                        *)
LEMMA LoopGoesOn ==
  ASSUME NEW t, t = [begin |-> t.begin, end |-> t.end, i |-> t.i, p |-> t.p]
  PROVE  /\ [t EXCEPT !.i = @ + 1] =
              [begin |-> t.begin, end |-> t.end, i |-> t.i + 1, p |-> t.p]
         /\ [t EXCEPT !.i = @ + 1, !.p = @ + 1] =
              [begin |-> t.begin, end |-> t.end, i |-> t.i + 1, p |-> t.p + 1]
<1>1. [t EXCEPT !.i = @ + 1] = [begin |-> t.begin, end |-> t.end, i |-> t.i + 1, p |-> t.p]
  OBVIOUS
<1>2. [t EXCEPT !.i = @ + 1, !.p = @ + 1] =
        [begin |-> t.begin, end |-> t.end, i |-> t.i + 1, p |-> t.p + 1]
  <2> DEFINE u == [t EXCEPT !.i = @ + 1]
  <2>1. [t EXCEPT !.i = @ + 1, !.p = @ + 1] = [u EXCEPT !.p = @ + 1]
    OBVIOUS
  <2>2. u = [begin |-> u.begin, end |-> u.end, i |-> u.i, p |-> u.p]
        /\ u.begin = t.begin /\ u.end = t.end /\ u.i = t.i + 1 /\ u.p = t.p
    BY <1>1
  <2> HIDE DEF u
  <2>3. [u EXCEPT !.p = @ + 1] = [begin |-> u.begin, end |-> u.end, i |-> u.i, p |-> u.p + 1]
    BY <2>2
  <2> QED
    BY <2>1, <2>2, <2>3
<1> QED
  BY <1>1, <1>2

(* A sort goes on.                                                         *)
LEMMA SortGoesOn ==
  ASSUME Length' = Length, NEW comparator, NEW loop, NEW pending \in Seq([begin : Int, end : Int]),
         task' = [op |-> "sort", comparator |-> comparator, loop |-> loop, pending |-> pending],
         loop = NoLoop \/ LoopOK(loop, Length),
         \A n \in 1 .. Len(pending) : RangeOK(pending[n], Length)
  PROVE  TaskOK'
<1>1. task'.op = "sort" /\ task'.loop = loop /\ task'.pending = pending
      /\ task' = [op |-> "sort", comparator |-> task'.comparator, loop |-> task'.loop,
                  pending |-> task'.pending]
  OBVIOUS
<1>2. SortOK'
  BY <1>1 DEF SortOK
<1> QED
  BY <1>1, <1>2 DEF TaskOK

LEMMA QuickSortKeeps == ASSUME ArrayInvariant, QuickSort PROVE ArrayInvariant'
<1> DEFINE pending == task.pending
           range == Head(pending)
           middle == range.begin + (range.end - range.begin) \div 2
<1>1. HeapOK /\ Length \in Nat /\ UNCHANGED fatal /\ SortOK /\ fatal # "assert"
  BY DEF ArrayInvariant, HeapOK, TaskOK, QuickSort, Sorting
<1>2. /\ task = [op |-> "sort", comparator |-> task.comparator, loop |-> task.loop,
                 pending |-> pending]
      /\ task.loop = NoLoop
      /\ pending \in Seq([begin : Int, end : Int]) /\ pending # << >>
      /\ \A n \in 1 .. Len(pending) : RangeOK(pending[n], Length)
  BY <1>1 DEF SortOK, QuickSort, Sorting, Partitioning, Done
<1>3. /\ Tail(pending) \in Seq([begin : Int, end : Int])
      /\ \A n \in 1 .. Len(Tail(pending)) : RangeOK(Tail(pending)[n], Length)
      /\ RangeOK(range, Length)
  <2> HIDE DEF pending
  <2>1. Len(pending) \in Nat \ {0}
    BY <1>2, EmptySeq
  <2>2. /\ Tail(pending) \in Seq([begin : Int, end : Int])
        /\ Len(Tail(pending)) = Len(pending) - 1
        /\ \A n \in 1 .. Len(Tail(pending)) : Tail(pending)[n] = pending[n + 1]
    BY <1>2, HeadTailProperties
  <2>3. \A n \in 1 .. Len(Tail(pending)) : RangeOK(Tail(pending)[n], Length)
    <3> TAKE n \in 1 .. Len(Tail(pending))
    <3>1. n + 1 \in 1 .. Len(pending)
      BY <2>1, <2>2
    <3> QED
      BY <1>2, <2>2, <3>1
  <2>4. range = pending[1]
    BY <1>2
  <2> HIDE DEF range
  <2> QED
    BY <1>2, <2>1, <2>2, <2>3, <2>4
<1>4. CASE range.begin < range.end
  <2> DEFINE loop == [begin |-> range.begin, end |-> range.end,
                      i |-> range.begin, p |-> range.begin]
  <2>1. heap' = Swapped(range.end, med3(range.begin, middle, range.end))
    BY <1>4 DEF QuickSort
  <2>2. task' = [task EXCEPT !.loop = loop, !.pending = Tail(@)]
    BY <1>4 DEF QuickSort
  <2> HIDE DEF pending
  <2>3. task' = [op |-> "sort", comparator |-> task.comparator, loop |-> loop,
                 pending |-> Tail(pending)]
    <3>1. task' = [task EXCEPT !.loop = loop, !.pending = Tail(pending)]
      BY <2>2 DEF pending
    <3> HIDE DEF loop
    <3> QED
      BY <1>2, <3>1, SortTask DEF pending
  <2> HIDE DEF range
  <2>4. range.begin \in Cells /\ range.end \in Cells /\ middle \in Cells
    BY <1>1, <1>3, <1>4 DEF RangeOK, Cells, BASE_ADDR
  <2>5. med3(range.begin, middle, range.end) \in {range.begin, middle, range.end}
    BY DEF med3
  <2>6. HeapOK' /\ Length' = Length
    <3>1. med3(range.begin, middle, range.end) \in Cells
      BY <2>4, <2>5
    <3> QED
      BY <1>1, <2>1, <2>4, <3>1, SwapKeeps
  <2>7. LoopOK(loop, Length)
    BY <1>3, <1>4 DEF RangeOK, LoopOK, BASE_ADDR
  <2> HIDE DEF loop
  <2>8. TaskOK'
    BY <1>3, <2>3, <2>6, <2>7, SortGoesOn
  <2> QED
    BY <1>1, <2>6, <2>8 DEF ArrayInvariant
<1>5. CASE ~(range.begin < range.end)
  <2>1. task' = [task EXCEPT !.pending = Tail(pending)] /\ UNCHANGED heap
    BY <1>5 DEF QuickSort
  <2> HIDE DEF pending
  <2>2. task' = [op |-> "sort", comparator |-> task.comparator, loop |-> NoLoop,
                 pending |-> Tail(pending)]
    BY <1>2, <2>1, SortTask DEF pending
  <2>3. HeapOK' /\ Length' = Length
    BY <1>1, <2>1 DEF HeapOK, Length
  <2>4. TaskOK'
    BY <1>3, <2>2, <2>3, SortGoesOn
  <2> QED
    BY <1>1, <2>3, <2>4 DEF ArrayInvariant
<1> QED
  BY <1>4, <1>5

LEMMA PartitionKeeps == ASSUME ArrayInvariant, Partition PROVE ArrayInvariant'
<1> DEFINE loop == task.loop
           pending == task.pending
<1>1. HeapOK /\ Length \in Nat /\ UNCHANGED fatal /\ SortOK /\ fatal # "assert"
  BY DEF ArrayInvariant, HeapOK, TaskOK, Partition, Partitioning, Sorting
<1>2. /\ task = [op |-> "sort", comparator |-> task.comparator, loop |-> loop,
                 pending |-> pending]
      /\ LoopOK(loop, Length)
      /\ pending \in Seq([begin : Int, end : Int])
      /\ \A n \in 1 .. Len(pending) : RangeOK(pending[n], Length)
  BY <1>1 DEF SortOK, Partition, Partitioning
<1>3. CASE loop.i <= loop.end - 1
  <2>1. PICK answer \in Answers(task.comparator, heap.mem[loop.i], heap.mem[loop.end]) :
          IF answer <= 0
            THEN /\ heap' = Swapped(loop.i, loop.p)
                 /\ task' = [task EXCEPT !.loop = [loop EXCEPT !.i = @ + 1, !.p = @ + 1]]
            ELSE /\ task' = [task EXCEPT !.loop = [loop EXCEPT !.i = @ + 1]]
                 /\ UNCHANGED heap
    BY <1>3 DEF Partition
  <2> HIDE DEF loop, pending
  <2>2. \/ /\ heap' = Swapped(loop.i, loop.p)
           /\ task' = [task EXCEPT !.loop = [loop EXCEPT !.i = @ + 1, !.p = @ + 1]]
        \/ /\ task' = [task EXCEPT !.loop = [loop EXCEPT !.i = @ + 1]]
           /\ UNCHANGED heap
    BY <2>1
  <2>3. PICK l : /\ task' = [task EXCEPT !.loop = l]
                 /\ LoopOK(l, Length)
                 /\ HeapOK' /\ Length' = Length
    <3>1. loop.i \in Cells /\ loop.p \in Cells
      BY <1>1, <1>2, <1>3 DEF LoopOK, Cells, BASE_ADDR
    <3>2. LoopOK([loop EXCEPT !.i = @ + 1, !.p = @ + 1], Length)
      <4>1. [loop EXCEPT !.i = @ + 1, !.p = @ + 1] =
              [begin |-> loop.begin, end |-> loop.end, i |-> loop.i + 1, p |-> loop.p + 1]
        BY <1>2, LoopGoesOn DEF LoopOK
      <4> QED
        BY <1>1, <1>2, <1>3, <4>1 DEF LoopOK, BASE_ADDR
    <3>3. LoopOK([loop EXCEPT !.i = @ + 1], Length)
      <4>1. [loop EXCEPT !.i = @ + 1] =
              [begin |-> loop.begin, end |-> loop.end, i |-> loop.i + 1, p |-> loop.p]
        BY <1>2, LoopGoesOn DEF LoopOK
      <4> QED
        BY <1>1, <1>2, <1>3, <4>1 DEF LoopOK, BASE_ADDR
    <3>4. CASE /\ heap' = Swapped(loop.i, loop.p)
               /\ task' = [task EXCEPT !.loop = [loop EXCEPT !.i = @ + 1, !.p = @ + 1]]
      <4>1. HeapOK' /\ Length' = Length
        BY <1>1, <3>1, <3>4, SwapKeeps
      <4> QED
        BY <3>2, <3>4, <4>1
    <3>5. CASE /\ task' = [task EXCEPT !.loop = [loop EXCEPT !.i = @ + 1]]
               /\ UNCHANGED heap
      <4>1. HeapOK' /\ Length' = Length
        BY <1>1, <3>5 DEF HeapOK, Length
      <4> QED
        BY <3>3, <3>5, <4>1
    <3> QED
      BY <2>2, <3>4, <3>5
  <2>4. task' = [op |-> "sort", comparator |-> task.comparator, loop |-> l, pending |-> pending]
    BY <1>2, <2>3, SortTask DEF loop, pending
  <2>5. TaskOK'
    BY <1>2, <2>3, <2>4, SortGoesOn
  <2> QED
    BY <1>1, <2>3, <2>5 DEF ArrayInvariant
<1>4. CASE ~(loop.i <= loop.end - 1)
  <2>1. heap' = Swapped(loop.p, loop.end)
        /\ task' = [task EXCEPT !.loop = NoLoop, !.pending = Parts(loop) \o pending]
    BY <1>4 DEF Partition
  <2> HIDE DEF loop, pending
  <2>2. loop.p \in Cells /\ loop.end \in Cells
    BY <1>1, <1>2 DEF LoopOK, Cells, BASE_ADDR
  <2>3. HeapOK' /\ Length' = Length
    BY <1>1, <2>1, <2>2, SwapKeeps
  <2> DEFINE left == [begin |-> loop.begin, end |-> loop.p - 1]
             right == [begin |-> loop.p + 1, end |-> loop.end]
             more == Parts(loop) \o pending
  <2>4. /\ left \in [begin : Int, end : Int] /\ RangeOK(left, Length)
        /\ right \in [begin : Int, end : Int] /\ RangeOK(right, Length)
    BY <1>1, <1>2 DEF LoopOK, RangeOK, BASE_ADDR
  <2>5. Parts(loop) = <<left, right>>
    BY DEF Parts
  <2> HIDE DEF left, right
  <2>6. /\ <<left, right>> \in Seq([begin : Int, end : Int])
        /\ Len(<<left, right>>) = 2
        /\ \A n \in 1 .. 2 : RangeOK(<<left, right>>[n], Length)
    <3>1. \A n \in 1 .. 2 : <<left, right>>[n] = left \/ <<left, right>>[n] = right
      OBVIOUS
    <3> QED
      BY <2>4, <3>1
  <2>7. /\ more \in Seq([begin : Int, end : Int])
        /\ Len(more) = 2 + Len(pending)
        /\ \A n \in 1 .. 2 + Len(pending) :
             more[n] = IF n <= 2 THEN <<left, right>>[n] ELSE pending[n - 2]
    BY <1>2, <2>5, <2>6, ConcatProperties
  <2>8. Len(pending) \in Nat
    BY <1>2, LenProperties
  <2> HIDE DEF more
  <2>9. \A n \in 1 .. Len(more) : RangeOK(more[n], Length)
    <3> TAKE n \in 1 .. Len(more)
    <3>1. CASE n <= 2
      BY <2>6, <2>7, <2>8, <3>1
    <3>2. CASE n > 2
      <4>1. n - 2 \in 1 .. Len(pending) /\ more[n] = pending[n - 2]
        BY <2>7, <2>8, <3>2
      <4> QED
        BY <1>2, <4>1
    <3> QED
      BY <2>7, <2>8, <3>1, <3>2
  <2>10. task' = [op |-> "sort", comparator |-> task.comparator, loop |-> NoLoop, pending |-> more]
    <3>1. task' = [task EXCEPT !.loop = NoLoop, !.pending = more]
      BY <2>1 DEF more
    <3> QED
      BY <1>2, <3>1, SortTask DEF loop, pending
  <2>11. TaskOK'
    BY <2>3, <2>7, <2>9, <2>10, SortGoesOn
  <2> QED
    BY <1>1, <2>3, <2>11 DEF ArrayInvariant
<1> QED
  BY <1>3, <1>4

-----------------------------------------------------------------------------
(* The array.                                                              *)

(* fun_constructor() leaves one cell.                                      *)
LEMMA InitialLength == Init => ArrayInvariant /\ Length = 0
<1> SUFFICES ASSUME Init PROVE ArrayInvariant /\ Length = 0
  OBVIOUS
<1>1. /\ NewHeap.mem = [c \in 0 .. InitialSize - 1 |-> Free]
      /\ NewHeap.size = InitialSize /\ NewHeap.ptr = 0
      /\ NewHeap = [mem |-> NewHeap.mem, size |-> NewHeap.size, ptr |-> NewHeap.ptr]
  BY DEF NewHeap
<1>2. InitialSize \in Nat /\ InitialSize > 0
  BY HeapAssumption
<1>3. Ahead(NewHeap) = 0 .. InitialSize - 1
  BY <1>1, <1>2 DEF Ahead
<1> DEFINE cell == CHOOSE c \in Ahead(NewHeap) : \A d \in Ahead(NewHeap) : c <= d
<1>4. cell = 0
  <2>1. 0 \in Ahead(NewHeap) /\ \A d \in Ahead(NewHeap) : 0 <= d
    BY <1>2, <1>3
  <2>2. cell \in Ahead(NewHeap) /\ \A d \in Ahead(NewHeap) : cell <= d
    BY <2>1
  <2> HIDE DEF cell
  <2> QED
    BY <1>2, <1>3, <2>1, <2>2
<1>5. Ahead(NewHeap) # {}
  BY <1>2, <1>3
<1>6. malloc(NewHeap) = [NewHeap EXCEPT !.mem[0] = Null, !.ptr = 0]
  BY <1>4, <1>5 DEF malloc, Roomy
<1> HIDE DEF cell
<1> DEFINE m == [NewHeap.mem EXCEPT ![0] = Null]
           n == [m EXCEPT ![LENGTH_ADDR] = 0]
<1>7. malloc(NewHeap) = [mem |-> m, size |-> InitialSize, ptr |-> 0]
  BY <1>1, <1>6
<1>8. heap = [mem |-> n, size |-> InitialSize, ptr |-> 0]
  BY <1>7 DEF Init
<1>9. n \in [0 .. InitialSize - 1 -> Cell]
      /\ \A c \in 0 .. InitialSize - 1 : n[c] = IF c = 0 THEN 0 ELSE Free
  BY <1>1, <1>2 DEF Cell, LENGTH_ADDR
<1> HIDE DEF m, n
<1>10. heap.mem = n /\ heap.size = InitialSize /\ heap.ptr = 0
       /\ heap = [mem |-> heap.mem, size |-> heap.size, ptr |-> heap.ptr]
  BY <1>8
<1>11. Free # 0
  BY ArrayAssumption
<1>12. Length = 0
  BY <1>2, <1>9, <1>10 DEF Length, LENGTH_ADDR
<1>13. HeapOK
  BY <1>2, <1>9, <1>10, <1>11, <1>12 DEF HeapOK, Packed
<1>14. TaskOK /\ fatal # "assert"
  BY DEF Init, Idle, TaskOK
<1> QED
  BY <1>12, <1>13, <1>14 DEF ArrayInvariant

LEMMA InitKeeps == Init => ArrayInvariant
BY InitialLength

(* No step breaks the invariant.                                           *)
LEMMA NextKeeps == ArrayInvariant /\ [Next]_vars => ArrayInvariant'
<1> SUFFICES ASSUME ArrayInvariant, [Next]_vars PROVE ArrayInvariant'
  OBVIOUS
<1>1. CASE UNCHANGED vars
  BY <1>1 DEF vars, ArrayInvariant, HeapOK, TaskOK, SortOK, Length
<1>2. CASE GetLength \/ Iterator \/ ItNext
  BY <1>2, ReadsKeep
<1>3. CASE \E i \in -1 .. Length + Gap : Get(i)
  BY <1>3, ReadsKeep
<1>4. ASSUME NEW v \in Elements, IndexOf(v) \/ Push(v) \/ Unshift(v) \/ ScriptPush(v)
      PROVE  ArrayInvariant'
  BY <1>4, ReadsKeep, AdditionsKeep, UnshiftKeeps
<1>5. CASE Shuffle \/ (\E c \in Comparators : Sort(c))
           \/ (\E i \in -1 .. Length + Gap, v \in Elements : Set(i, v))
  BY <1>5, BeginsKeep
<1>6. CASE Pop \/ Shift \/ Clear \/ Reverse
  BY <1>6, PopKeeps, ShiftKeeps, ClearKeeps, ReverseKeeps
<1>7. ASSUME NEW c \in Cells, NEW v \in Elements, ScriptStore(c, v)
      PROVE  ArrayInvariant'
  BY <1>7, ScriptStoreKeeps
<1>8. CASE SetGrow \/ SetStore \/ ShuffleStep
  BY <1>8, AdditionsKeep, SetStoreKeeps, ShuffleStepKeeps
<1>9. CASE SortStep
  BY <1>9, QuickSortKeeps, PartitionKeeps, SortReturnsKeeps DEF SortStep
<1> QED
  BY <1>1, <1>2, <1>3, <1>4, <1>5, <1>6, <1>7, <1>8, <1>9 DEF Next

(* The cells of the length and of the elements are in use and no other     *)
(* ones, the next one to be allocated is the one after them, and the       *)
(* assertions of push(), unshift() and set() never fail (array.c:120).     *)
THEOREM ArrayIsContiguous == Spec => []Contiguous
<1>1. ArrayInvariant => Contiguous
  BY DEF ArrayInvariant, HeapOK, Packed, Used, Contiguous, LENGTH_ADDR
<1> QED
  BY <1>1, InitKeeps, NextKeeps, PTL DEF Spec

-----------------------------------------------------------------------------
(* The array is a list.                                                    *)

(* Setting an element beyond the end has added cells up to the one it is   *)
(* about, and they are null.                                               *)
SetOK ==
  task.op = "set" =>
    /\ task.length \in 0 .. Length
    /\ Length <= task.length \/ Length <= task.index + 1
    /\ \A c \in task.length + 1 .. Length : heap.mem[c] = Null

(* The elements there are, while a set() is running those it began with.   *)
Size == IF task.op = "set" THEN task.length ELSE Length

ListInvariant == ArrayInvariant /\ SetOK

(* A task is of one kind.                                                  *)
LEMMA Kinds ==
  /\ Call => task.op = "none"
  /\ task' = Idle => task'.op = "none"
  /\ Comparing \/ Sorting => task.op = "sort"
BY DEF Call, Idle, Comparing, Partitioning, Sorting

(* The extent of a set() that was not begun.                               *)
LEMMA NoSet == task'.op # "set" => SetOK'
BY DEF SetOK

(* A set() goes on as long as its element is missing.                      *)
LEMMA SetStepKeeps ==
  ASSUME ListInvariant, ArrayInvariant',
         SetGrow \/ SetStore \/ (\E i \in -1 .. Length + Gap, v \in Elements : Set(i, v))
  PROVE  SetOK'
<1>1. HeapOK /\ Length \in Nat /\ SetOK /\ Null \in Elements
  BY DEF ListInvariant, ArrayInvariant, HeapOK, Elements
<1>2. CASE SetStore
  BY <1>2, Kinds, NoSet DEF SetStore
<1>3. ASSUME NEW i \in -1 .. Length + Gap, NEW v \in Elements, Set(i, v) PROVE SetOK'
  <2>1. heap' = heap /\ Length' = Length
    BY <1>3 DEF Set, Length
  <2>2. CASE i < 0 \/ i >= Length + Gap
    <3>1. UNCHANGED task /\ task.op = "none"
      BY <1>3, <2>2, Kinds DEF Set
    <3> QED
      BY <3>1, NoSet
  <2>3. CASE ~(i < 0 \/ i >= Length + Gap)
    <3>1. task' = [op |-> "set", index |-> i, value |-> v, length |-> Length]
      BY <1>3, <2>3 DEF Set
    <3> QED
      BY <1>1, <2>1, <3>1 DEF SetOK
  <2> QED
    BY <2>2, <2>3
<1>4. CASE SetGrow
  <2>1. UNCHANGED task /\ task.op = "set" /\ task.index >= Length /\ Extend(Longer(Null))
        /\ task.index \in Nat
    BY <1>4 DEF SetGrow, ListInvariant, ArrayInvariant, TaskOK
  <2>2. CASE Exhausted(heap)
    <3>1. heap' = heap /\ Length' = Length
      BY <2>1, <2>2 DEF Extend, Length
    <3> QED
      BY <1>1, <2>1, <3>1 DEF SetOK
  <2>3. CASE ~Exhausted(heap)
    <3>1. heap' = Longer(Null)
      BY <2>1, <2>3 DEF Extend
    <3>2. /\ Longer(Null).mem[LENGTH_ADDR] = Length + 1
          /\ \A c \in 1 .. Length : Longer(Null).mem[c] = heap.mem[c]
          /\ Longer(Null).mem[Length + 1] = Null
      BY <1>1, <2>3, ElementsAreCells, LongerIsPacked
    <3>3. Length' = Length + 1
      BY <3>1, <3>2 DEF Length
    <3>4. /\ task.length \in 0 .. Length
          /\ \A c \in task.length + 1 .. Length : heap.mem[c] = Null
      BY <1>1, <2>1 DEF SetOK
    <3>5. \A c \in task.length + 1 .. Length + 1 : heap'.mem[c] = Null
      BY <1>1, <3>1, <3>2, <3>4
    <3> QED
      BY <1>1, <2>1, <3>3, <3>4, <3>5 DEF SetOK
  <2> QED
    BY <2>2, <2>3
<1> QED
  BY <1>2, <1>3, <1>4

(* Shuffling and sorting go on, or are done.                               *)
LEMMA MovesKeepKind ==
  ASSUME ArrayInvariant, ShuffleStep \/ SortStep
  PROVE  /\ task'.op # "set"
         /\ QuickSort \/ Partition => task.op = "sort" /\ task'.comparator = task.comparator
         /\ ~(QuickSort \/ Partition) => task'.op # "sort"
<1>1. CASE ShuffleStep
  <2>1. task = [op |-> "shuffle", i |-> task.i]
    BY <1>1 DEF ShuffleStep, ArrayInvariant, TaskOK
  <2>2. task' = [task EXCEPT !.i = task.i - 1] \/ task' = Idle
    BY <1>1 DEF ShuffleStep
  <2>3. ~(QuickSort \/ Partition)
    BY <2>1 DEF QuickSort, Partition, Partitioning, Sorting
  <2> QED
    BY <2>1, <2>2, <2>3 DEF Idle
<1>2. CASE SortReturns
  <2>1. ~(QuickSort \/ Partition) /\ task' = Idle
    BY <1>2 DEF SortReturns, Done, QuickSort, Partition, Partitioning
  <2> QED
    BY <2>1, Kinds
<1>3. CASE QuickSort \/ Partition
  <2>1. SortOK /\ task.op = "sort"
    BY <1>3 DEF QuickSort, Partition, Partitioning, Sorting, ArrayInvariant, TaskOK
  <2>2. \/ \E p : task' = [task EXCEPT !.pending = p]
        \/ \E l : task' = [task EXCEPT !.loop = l]
        \/ \E l, p : task' = [task EXCEPT !.loop = l, !.pending = p]
    <3>1. CASE QuickSort
      BY <3>1 DEF QuickSort
    <3>2. CASE Partition /\ task.loop.i <= task.loop.end - 1
      <4>1. \/ task' = [task EXCEPT !.loop = [task.loop EXCEPT !.i = @ + 1, !.p = @ + 1]]
            \/ task' = [task EXCEPT !.loop = [task.loop EXCEPT !.i = @ + 1]]
        BY <3>2 DEF Partition
      <4> QED
        BY <4>1
    <3>3. CASE Partition /\ ~(task.loop.i <= task.loop.end - 1)
      BY <3>3 DEF Partition
    <3> QED
      BY <1>3, <3>1, <3>2, <3>3
  <2>3. ASSUME NEW l, NEW p, \/ task' = [task EXCEPT !.pending = p]
                             \/ task' = [task EXCEPT !.loop = l]
                             \/ task' = [task EXCEPT !.loop = l, !.pending = p]
        PROVE  task'.op = "sort" /\ task'.comparator = task.comparator
    <3>1. \E m, q : task' = [op |-> "sort", comparator |-> task.comparator, loop |-> m,
                             pending |-> q]
      BY <2>1, <2>3, SortTask DEF SortOK
    <3> QED
      BY <3>1
  <2> QED
    BY <1>3, <2>1, <2>2, <2>3
<1> QED
  BY <1>1, <1>2, <1>3 DEF SortStep

LEMMA ListInit == Init => ListInvariant
<1> SUFFICES ASSUME Init PROVE ListInvariant
  OBVIOUS
<1>1. SetOK
  BY DEF Init, SetOK, Idle
<1> QED
  BY <1>1, InitKeeps DEF ListInvariant

LEMMA ListNext == ListInvariant /\ [Next]_vars => ListInvariant'
<1> SUFFICES ASSUME ListInvariant, [Next]_vars PROVE ListInvariant'
  OBVIOUS
<1>1. ArrayInvariant'
  BY NextKeeps DEF ListInvariant
<1>2. CASE UNCHANGED vars
  BY <1>1, <1>2 DEF vars, ListInvariant, SetOK, Length
<1>3. CASE SetGrow \/ SetStore \/ (\E i \in -1 .. Length + Gap, v \in Elements : Set(i, v))
  BY <1>1, <1>3, SetStepKeeps DEF ListInvariant
<1>4. CASE GetLength \/ Pop \/ Shift \/ Clear \/ Reverse \/ Iterator \/ ItNext
           \/ (\E i \in -1 .. Length + Gap : Get(i))
           \/ (\E v \in Elements : IndexOf(v) \/ Push(v) \/ Unshift(v))
  <2>1. task' = task /\ Call
    BY <1>4 DEF GetLength, Pop, Shift, Clear, Reverse, Iterator, ItNext, Get, IndexOf,
                Push, Unshift
  <2> QED
    BY <1>1, <2>1, Kinds, NoSet DEF ListInvariant
<1>5. CASE Shuffle \/ \E comparator \in Comparators : Sort(comparator)
  <2>1. task'.op # "set"
    BY <1>5 DEF Shuffle, Sort
  <2> QED
    BY <1>1, <2>1, NoSet DEF ListInvariant
<1>6. CASE (\E v \in Elements : ScriptPush(v)) \/ (\E c \in Cells, v \in Elements : ScriptStore(c, v))
  <2>1. task' = task /\ Comparing
    BY <1>6 DEF ScriptPush, ScriptStore
  <2> QED
    BY <1>1, <2>1, Kinds, NoSet DEF ListInvariant
<1>7. CASE ShuffleStep \/ SortStep
  <2>1. task'.op # "set"
    BY <1>7, MovesKeepKind DEF ListInvariant
  <2> QED
    BY <1>1, <2>1, NoSet DEF ListInvariant
<1> QED
  BY <1>2, <1>3, <1>4, <1>5, <1>6, <1>7 DEF Next

(* A set of numbers that is not empty has a least one.                     *)
LEMMA Least ==
  ASSUME NEW T, T \subseteq Nat, T # {}
  PROVE  \E x \in T : \A y \in T : x <= y
<1> DEFINE R == OpToRel(<, Nat)
<1>1. IsWellFoundedOn(R, Nat)
  BY NatLessThanWellFounded
<1>2. \A x, y \in Nat : x < y => <<x, y>> \in R
  BY DEF OpToRel
<1> HIDE DEF R
<1>3. PICK x \in T : \A y \in T : ~ (<<y, x>> \in R)
  BY <1>1, WFMin
<1>4. \A y \in T : ~(y < x)
  BY <1>2, <1>3
<1>5. \A y \in T : x <= y
  BY <1>4
<1> QED
  BY <1>3, <1>5

(* Cells of elements as a sequence.                                        *)
LEMMA Tabulated ==
  ASSUME NEW k \in Nat, NEW m, \A i \in 1 .. k : m[i] \in Cell
  PROVE  LET s == [i \in 1 .. k |-> m[i]]
         IN s \in Seq(Cell) /\ Len(s) = k /\ DOMAIN s = 1 .. k /\ \A i \in 1 .. k : s[i] = m[i]
<1> DEFINE s == [i \in 1 .. k |-> m[i]]
<1>1. s \in [1 .. k -> Cell]
  OBVIOUS
<1>2. s \in Seq(Cell)
  BY <1>1, SeqDef
<1>3. DOMAIN s = 1 .. k
  OBVIOUS
<1>4. Len(s) = k
  <2>1. Len(s) \in Nat /\ DOMAIN s = 1 .. Len(s)
    BY <1>2, LenProperties
  <2> HIDE DEF s
  <2> QED
    BY <1>3, <2>1
<1> QED
  BY <1>2, <1>3, <1>4

(* The list is made of the elements.                                       *)
ListOK ==
  /\ Size \in Nat /\ Size <= Length
  /\ list \in Seq(Cell) /\ Len(list) = Size /\ DOMAIN list = 1 .. Size
  /\ \A i \in 1 .. Size : list[i] = heap.mem[i] /\ list[i] \in Cell /\ list[i] # Free

LEMMA Listed == ListInvariant => ListOK
<1> SUFFICES ASSUME ListInvariant PROVE ListOK
  OBVIOUS
<1>1. /\ Length \in Nat /\ Length < heap.size /\ heap.size \in Nat
      /\ heap.mem \in [0 .. heap.size - 1 -> Cell]
      /\ \A c \in 0 .. heap.size - 1 : heap.mem[c] = Free <=> c > Length
  BY DEF ListInvariant, ArrayInvariant, HeapOK, Packed
<1>2. Size \in Nat /\ Size <= Length
  BY <1>1 DEF Size, ListInvariant, SetOK
<1>3. \A i \in 1 .. Size : i \in 0 .. heap.size - 1 /\ i <= Length
  BY <1>1, <1>2
<1>4. \A i \in 1 .. Size : heap.mem[i] \in Cell /\ heap.mem[i] # Free
  BY <1>1, <1>3
<1>5. list = [i \in 1 .. Size |-> heap.mem[i]]
  BY DEF list, Size
<1> QED
  BY <1>2, <1>4, <1>5, Tabulated DEF ListOK

(* The elements that a step leaves.                                        *)
LEMMA Leaves ==
  ASSUME ListInvariant', NEW s \in Seq(Cell), Len(s) = Size',
         \A i \in 1 .. Size' : heap'.mem[i] = s[i]
  PROVE  list' = s
<1>1. list' \in Seq(Cell) /\ Len(list') = Size' /\ \A i \in 1 .. Size' : list'[i] = heap'.mem[i]
  <2>1. ListInvariant' => ListOK'
    BY Listed, PTL
  <2> QED
    BY <2>1 DEF ListOK
<1> QED
  BY <1>1, SeqEqual

LEMMA LeavesAll ==
  ASSUME heap' = heap, Size' = Size
  PROVE  list' = list
BY DEF list, Size

(* A call that is made of one step.                                        *)
LEMMA AtOnce == task.op # "set" /\ UNCHANGED task => Size = Length /\ Size' = Length'
BY DEF Size

(* The calls that read.                                                    *)
LEMMA GetLengthIsLength == ASSUME ListInvariant, GetLength PROVE Abstract!Length
<1>1. task.op = "none" /\ UNCHANGED <<task, heap>> /\ result' = Length
  BY Kinds DEF GetLength, Returns
<1>2. Size = Length /\ Size' = Size
  BY <1>1 DEF Size, Length
<1>3. Len(list) = Length
  BY <1>2, Listed DEF ListOK
<1> QED
  BY <1>1, <1>2, <1>3, LeavesAll DEF Abstract!Length, Abstract!Returns

LEMMA GetIsGet ==
  ASSUME ListInvariant, NEW i \in -1 .. Length + Gap, Get(i)
  PROVE  \E j \in 0 .. Len(list) + 1 : Abstract!Get(j)
<1>1. task.op = "none" /\ UNCHANGED <<task, heap>>
      /\ result' = IF i >= 0 /\ i < Length THEN At(i) ELSE Null
  BY Kinds DEF Get, Returns
<1>2. Size = Length /\ Size' = Size /\ list' = list
  BY <1>1, LeavesAll DEF Size, Length
<1>3. Len(list) = Length /\ Length \in Nat /\ \A j \in 1 .. Length : list[j] = heap.mem[j]
  BY <1>2, Listed DEF ListOK
<1>a. i \in Int
  BY <1>3, ArrayAssumption
<1>4. CASE i >= 0 /\ i < Length
  <2>1. i \in 0 .. Len(list) + 1 /\ i \in 0 .. Len(list) - 1 /\ BASE_ADDR + i = i + 1
        /\ i + 1 \in 1 .. Length
    BY <1>a, <1>3, <1>4 DEF BASE_ADDR
  <2>2. result' = list[i + 1]
    BY <1>1, <1>3, <1>4, <2>1 DEF At
  <2>3. Abstract!Get(i)
    BY <1>2, <2>1, <2>2 DEF Abstract!Get, Abstract!Returns
  <2> QED
    BY <2>1, <2>3
<1>5. CASE ~(i >= 0 /\ i < Length)
  <2>1. Len(list) \in 0 .. Len(list) + 1 /\ Len(list) \notin 0 .. Len(list) - 1
    BY <1>3
  <2>2. Abstract!Get(Len(list))
    BY <1>1, <1>2, <1>5, <2>1 DEF Abstract!Get, Abstract!Returns
  <2> QED
    BY <2>1, <2>2
<1> QED
  BY <1>4, <1>5

LEMMA IndexOfIsIndexOf ==
  ASSUME ListInvariant, NEW v \in Elements, IndexOf(v)
  PROVE  Abstract!IndexOf(v)
<1> DEFINE matches == {i \in 0 .. Length - 1 : At(i) = v}
<1>1. task.op = "none" /\ UNCHANGED <<task, heap>>
      /\ result' = IF matches = {} THEN -1
                   ELSE CHOOSE i \in matches : \A j \in matches : i <= j
  BY Kinds DEF IndexOf, Returns
<1>2. Size = Length /\ Size' = Size /\ list' = list
  BY <1>1, LeavesAll DEF Size, Length
<1>3. Len(list) = Length /\ DOMAIN list = 1 .. Length /\ Length \in Nat
      /\ \A j \in 1 .. Length : list[j] = heap.mem[j]
  BY <1>2, Listed DEF ListOK
<1>4. \A i : i \in matches <=> i \in 0 .. Length - 1 /\ list[i + 1] = v
  BY <1>3 DEF At, BASE_ADDR
<1>5. matches \subseteq Nat
  OBVIOUS
<1> HIDE DEF matches
<1>6. CASE matches = {}
  <2>1. \A j \in 1 .. Length : list[j] # v
    <3> SUFFICES ASSUME NEW j \in 1 .. Length, list[j] = v PROVE FALSE
      OBVIOUS
    <3>1. j - 1 \in 0 .. Length - 1 /\ (j - 1) + 1 = j
      BY <1>3
    <3> QED
      BY <1>4, <1>6, <3>1
  <2>2. v \notin Abstract!ToSet(list)
    BY <1>3, <2>1 DEF Abstract!ToSet
  <2>3. -1 \in -1 .. Len(list) - 1 /\ result' = -1 /\ \A j \in 1 .. -1 : list[j] # v
    BY <1>1, <1>3, <1>6
  <2> QED
    BY <1>2, <2>2, <2>3 DEF Abstract!IndexOf, Abstract!Returns
<1>7. CASE matches # {}
  <2>1. PICK i \in matches : \A j \in matches : i <= j
    BY <1>5, <1>7, Least
  <2>2. (CHOOSE k \in matches : \A j \in matches : k <= j) = i
    <3> DEFINE c == CHOOSE k \in matches : \A j \in matches : k <= j
    <3>1. c \in matches /\ \A j \in matches : c <= j
      BY <2>1
    <3> HIDE DEF c
    <3>2. c = i
      BY <1>5, <2>1, <3>1
    <3> QED
      BY <3>2 DEF c
  <2>3. result' = i /\ i \in 0 .. Length - 1 /\ list[i + 1] = v
    BY <1>1, <1>4, <1>7, <2>1, <2>2
  <2>4. \A j \in 1 .. i : list[j] # v
    <3> SUFFICES ASSUME NEW j \in 1 .. i, list[j] = v PROVE FALSE
      OBVIOUS
    <3>1. j - 1 \in 0 .. Length - 1 /\ (j - 1) + 1 = j /\ ~(i <= j - 1)
      BY <1>3, <2>3
    <3> QED
      BY <1>4, <2>1, <3>1
  <2>5. i \in -1 .. Len(list) - 1 /\ i # -1
    BY <1>3, <2>3
  <2> QED
    BY <1>2, <2>3, <2>4, <2>5 DEF Abstract!IndexOf, Abstract!Returns
<1> QED
  BY <1>6, <1>7

(* The calls that add an element, or find no room for it.                  *)
LEMMA PushIsPush ==
  ASSUME ListInvariant, ListInvariant', NEW v \in Elements, Push(v) \/ ScriptPush(v)
  PROVE  Abstract!Push(v) \/ Abstract!Nothing
<1>1. /\ Extend(Longer(v)) /\ result' = Null /\ UNCHANGED task /\ task.op # "set"
  BY Kinds DEF Push, ScriptPush, Returns
<1>2. Size = Length /\ Size' = Length' /\ HeapOK /\ ListOK
  BY <1>1, AtOnce, Listed DEF ListInvariant, ArrayInvariant
<1>3. CASE Exhausted(heap)
  <2>1. heap' = heap
    BY <1>1, <1>3 DEF Extend
  <2>2. list' = list
    BY <1>1, <2>1, LeavesAll DEF Size, Length
  <2> QED
    BY <1>1, <2>2 DEF Abstract!Nothing, Abstract!Returns
<1>4. CASE ~Exhausted(heap)
  <2>1. heap' = Longer(v)
    BY <1>1, <1>4 DEF Extend
  <2>2. /\ Longer(v).mem[LENGTH_ADDR] = Length + 1
        /\ \A c \in 1 .. Length : Longer(v).mem[c] = heap.mem[c]
        /\ Longer(v).mem[Length + 1] = v
        /\ v \in Cell
    BY <1>2, <1>4, ElementsAreCells, LongerIsPacked
  <2>3. Length' = Length + 1 /\ Length \in Nat
    BY <1>2, <2>1, <2>2 DEF Length, HeapOK
  <2>4. /\ Append(list, v) \in Seq(Cell) /\ Len(Append(list, v)) = Length + 1
        /\ \A i \in 1 .. Length : Append(list, v)[i] = list[i]
        /\ Append(list, v)[Length + 1] = v
    BY <1>2, <2>2, AppendProperties DEF ListOK
  <2>5. \A i \in 1 .. Size' : heap'.mem[i] = Append(list, v)[i]
    <3> SUFFICES ASSUME NEW i \in 1 .. Length + 1 PROVE heap'.mem[i] = Append(list, v)[i]
      BY <1>2, <2>3
    <3>1. CASE i \in 1 .. Length
      BY <1>2, <2>1, <2>2, <2>4, <3>1 DEF ListOK
    <3>2. CASE i = Length + 1
      BY <2>1, <2>2, <2>4, <3>2
    <3>3. i \in 1 .. Length \/ i = Length + 1
      BY <2>3
    <3> QED
      BY <3>1, <3>2, <3>3
  <2>6. list' = Append(list, v)
    BY <1>2, <2>3, <2>4, <2>5, Leaves
  <2> QED
    BY <1>1, <2>6 DEF Abstract!Push, Abstract!Returns
<1> QED
  BY <1>3, <1>4

LEMMA UnshiftIsUnshift ==
  ASSUME ListInvariant, ListInvariant', NEW v \in Elements, Unshift(v)
  PROVE  Abstract!Unshift(v) \/ Abstract!Nothing
<1> DEFINE h == Longer(Null)
           m == [c \in DOMAIN h.mem |->
                   IF c = BASE_ADDR THEN v ELSE IF c - 1 \in Cells THEN h.mem[c - 1] ELSE h.mem[c]]
<1>1. Extend([h EXCEPT !.mem = m]) /\ result' = Null /\ UNCHANGED task /\ task.op # "set"
  BY Kinds DEF Unshift, Returns
<1>2. Size = Length /\ Size' = Length' /\ HeapOK /\ ListOK
  BY <1>1, AtOnce, Listed DEF ListInvariant, ArrayInvariant
<1>3. CASE Exhausted(heap)
  <2>1. heap' = heap
    BY <1>1, <1>3 DEF Extend
  <2>2. list' = list
    BY <1>1, <2>1, LeavesAll DEF Size, Length
  <2> QED
    BY <1>1, <2>2 DEF Abstract!Nothing, Abstract!Returns
<1>4. CASE ~Exhausted(heap)
  <2>1. heap' = [h EXCEPT !.mem = m]
    BY <1>1, <1>4 DEF Extend
  <2>2. /\ Packed(h, Length + 1)
        /\ h.mem[LENGTH_ADDR] = Length + 1
        /\ \A c \in 1 .. Length : h.mem[c] = heap.mem[c]
        /\ v \in Cell
    BY <1>2, <1>4, ElementsAreCells, LongerIsPacked DEF Elements
  <2> HIDE DEF h
  <2>3. Length \in Nat /\ DOMAIN h.mem = 0 .. h.size - 1 /\ h.size \in Nat /\ Length + 1 < h.size
    BY <1>2, <2>2 DEF Packed, HeapOK
  <2>4. \A c \in 0 .. h.size - 1 :
          m[c] = IF c = 1 THEN v ELSE IF c \in 2 .. Length + 1 THEN h.mem[c - 1] ELSE h.mem[c]
    BY <2>3 DEF Cells, BASE_ADDR
  <2> HIDE DEF m
  <2>5. heap'.mem = m
    BY <2>1, <2>2, Written
  <2>6. Length' = Length + 1
    BY <2>2, <2>3, <2>4, <2>5 DEF Length, LENGTH_ADDR
  <2> DEFINE s == <<v>> \o list
  <2>7. s \in Seq(Cell) /\ Len(s) = Length + 1
        /\ \A i \in 1 .. Length + 1 : s[i] = IF i = 1 THEN v ELSE list[i - 1]
    <3>1. <<v>> \in Seq(Cell) /\ Len(<<v>>) = 1 /\ <<v>>[1] = v
      BY <2>2
    <3>2. list \in Seq(Cell) /\ Len(list) = Length
      BY <1>2 DEF ListOK
    <3>3. /\ s \in Seq(Cell) /\ Len(s) = 1 + Length
          /\ \A i \in 1 .. 1 + Length : s[i] = IF i <= 1 THEN <<v>>[i] ELSE list[i - 1]
      BY <3>1, <3>2, ConcatProperties
    <3> HIDE DEF s
    <3>4. \A i \in 1 .. Length + 1 : s[i] = IF i = 1 THEN v ELSE list[i - 1]
      <4> TAKE i \in 1 .. Length + 1
      <4>1. CASE i = 1
        BY <2>3, <3>1, <3>3, <4>1
      <4>2. CASE i # 1
        BY <2>3, <3>3, <4>2
      <4> QED
        BY <4>1, <4>2
    <3> QED
      BY <2>3, <3>3, <3>4
  <2>8. \A i \in 1 .. Length + 1 : heap'.mem[i] = s[i]
    <3> HIDE DEF s
    <3> TAKE i \in 1 .. Length + 1
    <3>1. CASE i = 1
      BY <2>3, <2>4, <2>5, <2>7, <3>1
    <3>2. CASE i # 1
      <4>1. i \in 2 .. Length + 1 /\ i \in 0 .. h.size - 1 /\ i - 1 \in 1 .. Length
        BY <2>3, <3>2
      <4>2. heap'.mem[i] = h.mem[i - 1] /\ h.mem[i - 1] = heap.mem[i - 1]
        BY <2>2, <2>3, <2>4, <2>5, <3>2, <4>1
      <4>3. s[i] = list[i - 1] /\ list[i - 1] = heap.mem[i - 1]
        BY <1>2, <2>7, <3>2, <4>1 DEF ListOK
      <4> QED
        BY <4>2, <4>3
    <3> QED
      BY <3>1, <3>2
  <2>9. list' = s
    <3> HIDE DEF s
    <3> QED
      BY <1>2, <2>6, <2>7, <2>8, Leaves
  <2> QED
    BY <1>1, <2>9 DEF Abstract!Unshift, Abstract!Returns
<1> QED
  BY <1>3, <1>4

(* The calls that free elements.                                           *)
LEMMA PopIsPop == ASSUME ListInvariant, ListInvariant', Pop PROVE Abstract!Pop \/ Abstract!Nothing
<1>1. task.op = "none" /\ UNCHANGED task
  BY Kinds DEF Pop
<1>2. Size = Length /\ Size' = Length' /\ HeapOK /\ ListOK /\ Length \in Nat
  BY <1>1, AtOnce, Listed DEF ListInvariant, ArrayInvariant, HeapOK
<1>3. CASE Length > 0
  <2>1. heap' = Shorter(heap) /\ result' = At(Length - 1)
    BY <1>3 DEF Pop, Returns
  <2>2. /\ Shorter(heap).mem[LENGTH_ADDR] = Length - 1
        /\ \A c \in 1 .. Length - 1 : Shorter(heap).mem[c] = heap.mem[c]
    BY <1>2, <1>3, ShorterIsPacked DEF HeapOK
  <2>3. Length' = Length - 1
    BY <2>1, <2>2 DEF Length
  <2>4. list \in Seq(Cell) /\ list # << >> /\ Len(list) = Length
    BY <1>2, <1>3, EmptySeq DEF ListOK
  <2>5. /\ SubSeq(list, 1, Length - 1) \in Seq(Cell)
        /\ Len(SubSeq(list, 1, Length - 1)) = Length - 1
        /\ \A i \in 1 .. Length - 1 : SubSeq(list, 1, Length - 1)[i] = list[i]
    <3> DEFINE n == Length - 1
    <3>1. n \in Int /\ n >= 0 /\ \A i \in 1 .. n : list[i] \in Cell
      BY <1>2, <1>3 DEF ListOK
    <3> HIDE DEF n
    <3>2. /\ SubSeq(list, 1, n) \in Seq(Cell)
          /\ Len(SubSeq(list, 1, n)) = IF 1 <= n THEN n - 1 + 1 ELSE 0
          /\ \A i \in 1 .. n - 1 + 1 : SubSeq(list, 1, n)[i] = list[1 + i - 1]
      BY <3>1, SubSeqProperties
    <3>3. Len(SubSeq(list, 1, n)) = n /\ \A i \in 1 .. n : SubSeq(list, 1, n)[i] = list[i]
      BY <3>1, <3>2
    <3> QED
      BY <3>2, <3>3 DEF n
  <2> DEFINE s == SubSeq(list, 1, Length - 1)
  <2>8. \A i \in 1 .. Length - 1 : heap'.mem[i] = s[i]
    BY <1>2, <2>1, <2>2, <2>5 DEF ListOK
  <2>6. list' = s
    <3>1. s \in Seq(Cell) /\ Len(s) = Length - 1
      BY <2>5
    <3> HIDE DEF s
    <3> QED
      BY <1>2, <2>3, <2>8, <3>1, Leaves
  <2>7. result' = list[Length]
    BY <1>2, <1>3, <2>1 DEF ListOK, At, BASE_ADDR
  <2> QED
    BY <2>4, <2>6, <2>7 DEF Abstract!Pop, Abstract!Front, Abstract!Last, Abstract!Returns
<1>4. CASE ~(Length > 0)
  <2>1. result' = Null /\ heap' = heap
    BY <1>4 DEF Pop, Returns
  <2>2. list' = list
    BY <1>1, <2>1, LeavesAll DEF Size, Length
  <2> QED
    BY <2>1, <2>2 DEF Abstract!Nothing, Abstract!Returns
<1> QED
  BY <1>3, <1>4

LEMMA ShiftIsShift ==
  ASSUME ListInvariant, ListInvariant', Shift
  PROVE  Abstract!Shift \/ Abstract!Nothing
<1>1. task.op = "none" /\ UNCHANGED task
  BY Kinds DEF Shift
<1>2. Size = Length /\ Size' = Length' /\ HeapOK /\ ListOK /\ Length \in Nat
  BY <1>1, AtOnce, Listed DEF ListInvariant, ArrayInvariant, HeapOK
<1>3. CASE Length > 0
  <2> DEFINE m == [c \in DOMAIN heap.mem |->
                     IF c \in Cells /\ c + 1 \in Cells THEN heap.mem[c + 1] ELSE heap.mem[c]]
             h == [heap EXCEPT !.mem = m]
  <2>1. heap' = Shorter(h) /\ result' = At(0)
    BY <1>3 DEF Shift, Returns
  <2>2. Packed(h, Length) /\ h.mem = m /\ \A c \in 1 .. Length - 1 : m[c] = heap.mem[c + 1]
    BY <1>2, ShiftedIsPacked
  <2> HIDE DEF h, m
  <2>3. /\ Shorter(h).mem[LENGTH_ADDR] = Length - 1
        /\ \A c \in 1 .. Length - 1 : Shorter(h).mem[c] = h.mem[c]
    BY <1>2, <1>3, <2>2, ShorterIsPacked
  <2>4. Length' = Length - 1
    BY <2>1, <2>3 DEF Length
  <2>5. list \in Seq(Cell) /\ list # << >> /\ Len(list) = Length
    BY <1>2, <1>3, EmptySeq DEF ListOK
  <2>6. /\ Tail(list) \in Seq(Cell) /\ Len(Tail(list)) = Length - 1
        /\ \A i \in 1 .. Length - 1 : Tail(list)[i] = list[i + 1]
    BY <2>5, HeadTailProperties
  <2>7. \A i \in 1 .. Length - 1 : heap'.mem[i] = Tail(list)[i]
    <3> TAKE i \in 1 .. Length - 1
    <3>1. heap'.mem[i] = heap.mem[i + 1]
      BY <2>1, <2>2, <2>3
    <3>2. i + 1 \in 1 .. Length
      BY <1>2
    <3> QED
      BY <1>2, <2>6, <3>1, <3>2 DEF ListOK
  <2>8. list' = Tail(list)
    BY <1>2, <2>4, <2>6, <2>7, Leaves
  <2>9. result' = Head(list)
    <3>1. Head(list) = list[1] /\ 1 \in 1 .. Length
      BY <1>2, <1>3, <2>5
    <3> QED
      BY <1>2, <2>1, <3>1 DEF ListOK, At, BASE_ADDR
  <2> QED
    BY <2>5, <2>8, <2>9 DEF Abstract!Shift, Abstract!Returns
<1>4. CASE ~(Length > 0)
  <2>1. result' = Null /\ heap' = heap
    BY <1>4 DEF Shift, Returns
  <2>2. list' = list
    BY <1>1, <2>1, LeavesAll DEF Size, Length
  <2> QED
    BY <2>1, <2>2 DEF Abstract!Nothing, Abstract!Returns
<1> QED
  BY <1>3, <1>4

LEMMA ClearIsClear == ASSUME ListInvariant, ListInvariant', Clear PROVE Abstract!Clear
<1>1. task.op = "none" /\ UNCHANGED task /\ result' = Null
  BY Kinds DEF Clear, Returns
<1>2. Size = Length /\ Size' = Length' /\ HeapOK /\ ListOK /\ Length \in Nat
  BY <1>1, AtOnce, Listed DEF ListInvariant, ArrayInvariant, HeapOK
<1>3. Length' = 0
  <2>1. CASE Length > 0
    <3> DEFINE m == [c \in DOMAIN heap.mem |->
                       IF c \in Cells THEN Free ELSE IF c = LENGTH_ADDR THEN 0 ELSE heap.mem[c]]
    <3>1. heap' = [heap EXCEPT !.mem = m, !.ptr = BASE_ADDR]
      BY <2>1 DEF Clear
    <3>2. 0 \in DOMAIN heap.mem /\ heap = [mem |-> heap.mem, size |-> heap.size, ptr |-> heap.ptr]
      BY <1>2 DEF HeapOK, Packed
    <3>3. m[0] = 0
      BY <3>2 DEF Cells, BASE_ADDR, LENGTH_ADDR
    <3> HIDE DEF m
    <3>4. heap' = [mem |-> m, size |-> heap.size, ptr |-> BASE_ADDR]
      BY <3>1, <3>2
    <3> QED
      BY <3>3, <3>4 DEF Length, LENGTH_ADDR
  <2>2. CASE ~(Length > 0)
    BY <1>2, <2>2 DEF Clear, Length
  <2> QED
    BY <2>1, <2>2
<1> DEFINE s == << >>
<1>4. s \in Seq(Cell) /\ Len(s) = 0
  BY EmptySeq
<1>a. \A i \in 1 .. Size' : heap'.mem[i] = s[i]
  BY <1>2, <1>3
<1>5. list' = s
  <2> HIDE DEF s
  <2> QED
    BY <1>2, <1>3, <1>4, <1>a, Leaves
<1> QED
  BY <1>1, <1>5 DEF Abstract!Clear, Abstract!Returns

(* The calls that write elements.                                          *)

(* One cell is written.                                                    *)
LEMMA Stored ==
  ASSUME HeapOK, NEW c \in Cells, NEW v, heap' = [heap EXCEPT !.mem[c] = v]
  PROVE  /\ Length' = Length
         /\ \A d \in 1 .. Length : heap'.mem[d] = IF d = c THEN v ELSE heap.mem[d]
<1> DEFINE m == [heap.mem EXCEPT ![c] = v]
<1>1. heap' = [heap EXCEPT !.mem = m] /\ Packed(heap, Length) /\ Length \in Nat
  BY DEF HeapOK
<1>2. DOMAIN heap.mem = 0 .. heap.size - 1 /\ heap.size \in Nat /\ Length < heap.size
      /\ c \in 1 .. Length
  BY <1>1 DEF Packed, Cells, BASE_ADDR
<1>3. \A d \in 0 .. heap.size - 1 : m[d] = IF d = c THEN v ELSE heap.mem[d]
  BY <1>2
<1> HIDE DEF m
<1>4. heap'.mem = m
  BY <1>1, Written
<1>5. 0 \in 0 .. heap.size - 1 /\ 0 # c /\ \A d \in 1 .. Length : d \in 0 .. heap.size - 1
  BY <1>1, <1>2
<1> QED
  BY <1>3, <1>4, <1>5 DEF Length, LENGTH_ADDR

LEMMA ScriptStoreIsSet ==
  ASSUME ListInvariant, ListInvariant', NEW c \in Cells, NEW v \in Elements, ScriptStore(c, v)
  PROVE  Abstract!Set(c - 1, v) /\ c - 1 \in 0 .. Len(list') - 1
<1>1. UNCHANGED task /\ task.op # "set" /\ result' = Null /\ heap' = [heap EXCEPT !.mem[c] = v]
  BY Kinds DEF ScriptStore, Returns
<1>2. Size = Length /\ Size' = Length' /\ HeapOK /\ ListOK /\ Length \in Nat
  BY <1>1, AtOnce, Listed DEF ListInvariant, ArrayInvariant, HeapOK
<1>3. Length' = Length
      /\ \A d \in 1 .. Length : heap'.mem[d] = IF d = c THEN v ELSE heap.mem[d]
  BY <1>1, <1>2, Stored
<1>4. c \in 1 .. Length
  BY DEF Cells, BASE_ADDR
<1> DEFINE s == [j \in 1 .. Length |-> IF j = c THEN v ELSE list[j]]
<1>5. s \in Seq(Cell) /\ Len(s) = Length /\ \A j \in 1 .. Length : s[j] = heap'.mem[j]
  <2>1. \A j \in 1 .. Length : (IF j = c THEN v ELSE list[j]) \in Cell
    BY <1>2, ElementsAreCells DEF ListOK
  <2>2. s = [j \in 1 .. Length |-> s[j]] /\ \A j \in 1 .. Length : s[j] \in Cell
    BY <2>1
  <2>3. \A j \in 1 .. Length : s[j] = heap'.mem[j]
    BY <1>2, <1>3 DEF ListOK
  <2> HIDE DEF s
  <2> QED
    BY <1>2, <2>2, <2>3, Tabulated
<1>6. list' = s
  <2> HIDE DEF s
  <2> QED
    BY <1>2, <1>3, <1>5, Leaves
<1>7. Len(list') = Length /\ Len(list) = Length
  BY <1>2, <1>5, <1>6 DEF ListOK
<1>8. c - 1 < Len(list) /\ (c - 1) + 1 = c /\ c - 1 \in 0 .. Len(list') - 1
  BY <1>2, <1>4, <1>7
<1>9. s = [j \in 1 .. (IF c - 1 < Len(list) THEN Len(list) ELSE (c - 1) + 1) |->
             IF j = (c - 1) + 1 THEN v ELSE IF j <= Len(list) THEN list[j] ELSE Null]
  BY <1>2, <1>7, <1>8
<1> QED
  BY <1>1, <1>6, <1>8, <1>9 DEF Abstract!Set, Abstract!Returns

LEMMA SetStoreIsSet ==
  ASSUME ListInvariant, ListInvariant', SetStore
  PROVE  \E i \in 0 .. Len(list') - 1, v \in Elements \cup {Null} : Abstract!Set(i, v)
<1> DEFINE i == task.index
           v == task.value
           n == task.length
<1>1. /\ task.op = "set" /\ i < Length /\ i \in Nat /\ v \in Elements
      /\ heap' = [heap EXCEPT !.mem[BASE_ADDR + i] = v]
      /\ task' = Idle /\ result' = Null
  BY DEF SetStore, ListInvariant, ArrayInvariant, TaskOK, Returns
<1>2. /\ HeapOK /\ ListOK /\ Length \in Nat /\ Size = n
      /\ n \in 0 .. Length
      /\ Length <= n \/ Length <= i + 1
      /\ \A c \in n + 1 .. Length : heap.mem[c] = Null
  BY <1>1, Listed DEF ListInvariant, ArrayInvariant, HeapOK, SetOK, Size
<1>3. Size' = Length'
  BY <1>1, Kinds DEF Size
<1> HIDE DEF i, v, n
<1>4. BASE_ADDR + i = i + 1 /\ i + 1 \in Cells
  BY <1>1, <1>2 DEF BASE_ADDR, Cells
<1>5. Length' = Length
      /\ \A d \in 1 .. Length : heap'.mem[d] = IF d = i + 1 THEN v ELSE heap.mem[d]
  BY <1>1, <1>2, <1>4, Stored
<1>6. Len(list) = n /\ Length = IF i < n THEN n ELSE i + 1
  BY <1>1, <1>2 DEF ListOK
<1> DEFINE s == [j \in 1 .. Length |->
                   IF j = i + 1 THEN v ELSE IF j <= n THEN list[j] ELSE Null]
<1>7. \A j \in 1 .. Length : s[j] = heap'.mem[j] /\ s[j] \in Cell
  <2> TAKE j \in 1 .. Length
  <2>a. s[j] = IF j = i + 1 THEN v ELSE IF j <= n THEN list[j] ELSE Null
    OBVIOUS
  <2> HIDE DEF s
  <2>1. CASE j = i + 1
    BY <1>1, <1>5, <2>a, <2>1, ElementsAreCells
  <2>2. CASE j # i + 1 /\ j <= n
    <3>1. j \in 1 .. n
      BY <1>2, <2>2
    <3>2. list[j] = heap.mem[j] /\ list[j] \in Cell
      BY <1>2, <3>1 DEF ListOK
    <3> QED
      BY <1>5, <2>a, <2>2, <3>2
  <2>3. CASE j # i + 1 /\ ~(j <= n)
    <3>1. j \in n + 1 .. Length
      BY <1>2, <2>3
    <3>2. heap.mem[j] = Null /\ Null \in Cell
      BY <1>2, <3>1 DEF Cell
    <3> QED
      BY <1>5, <2>a, <2>3, <3>2
  <2> QED
    BY <2>1, <2>2, <2>3
<1>8. s \in Seq(Cell) /\ Len(s) = Length
  <2>1. s = [j \in 1 .. Length |-> s[j]]
    OBVIOUS
  <2> HIDE DEF s
  <2> QED
    BY <1>2, <1>7, <2>1, Tabulated
<1>9. list' = s
  <2> HIDE DEF s
  <2> QED
    BY <1>3, <1>5, <1>7, <1>8, Leaves
<1>10. Len(list') = Length /\ i \in 0 .. Len(list') - 1
  <2>1. Len(list') = Length
    BY <1>8, <1>9
  <2> QED
    BY <1>1, <1>2, <2>1
<1>11. s = [j \in 1 .. (IF i < Len(list) THEN Len(list) ELSE i + 1) |->
              IF j = i + 1 THEN v ELSE IF j <= Len(list) THEN list[j] ELSE Null]
  BY <1>6
<1>12. Abstract!Set(i, v)
  BY <1>1, <1>9, <1>11 DEF Abstract!Set, Abstract!Returns
<1> QED
  BY <1>1, <1>10, <1>12

LEMMA ReverseIsReversed == ASSUME ListInvariant, ListInvariant', Reverse PROVE Abstract!Reversed
<1> DEFINE m == [c \in DOMAIN heap.mem |->
                   IF c \in Cells THEN heap.mem[Length + BASE_ADDR - c] ELSE heap.mem[c]]
<1>1. /\ task.op = "none" /\ UNCHANGED task /\ result' = This
      /\ heap' = [heap EXCEPT !.mem = m]
  BY Kinds DEF Reverse, Returns
<1>2. Size = Length /\ Size' = Length' /\ HeapOK /\ ListOK /\ Length \in Nat
  BY <1>1, AtOnce, Listed DEF ListInvariant, ArrayInvariant, HeapOK
<1>3. DOMAIN heap.mem = 0 .. heap.size - 1 /\ heap.size \in Nat /\ Length < heap.size
      /\ Packed(heap, Length)
  BY <1>2 DEF HeapOK, Packed
<1>4. m[0] = heap.mem[0] /\ \A c \in 1 .. Length : m[c] = heap.mem[Length + 1 - c]
  BY <1>2, <1>3 DEF Cells, BASE_ADDR
<1> HIDE DEF m
<1>5. heap'.mem = m
  BY <1>1, <1>3, Written
<1>6. Length' = Length
  BY <1>4, <1>5 DEF Length, LENGTH_ADDR
<1> DEFINE s == [j \in 1 .. Len(list) |-> list[(Len(list) - j) + 1]]
<1>7. Len(list) = Length /\ \A j \in 1 .. Length : list[j] = heap.mem[j] /\ list[j] \in Cell
  BY <1>2 DEF ListOK
<1>8. \A j \in 1 .. Length : s[j] = heap'.mem[j] /\ s[j] \in Cell
  <2> TAKE j \in 1 .. Length
  <2>1. s[j] = list[(Length - j) + 1]
    BY <1>7
  <2> HIDE DEF s
  <2>2. (Length - j) + 1 \in 1 .. Length /\ (Length - j) + 1 = Length + 1 - j
    BY <1>2
  <2>3. list[(Length - j) + 1] = heap.mem[Length + 1 - j] /\ list[(Length - j) + 1] \in Cell
    BY <1>7, <2>2
  <2> QED
    BY <1>4, <1>5, <2>1, <2>3
<1>9. s \in Seq(Cell) /\ Len(s) = Length
  <2>1. s = [j \in 1 .. Length |-> s[j]]
    BY <1>7
  <2> HIDE DEF s
  <2> QED
    BY <1>2, <1>8, <2>1, Tabulated
<1>10. list' = s
  <2> HIDE DEF s
  <2> QED
    BY <1>2, <1>6, <1>8, <1>9, Leaves
<1> QED
  BY <1>1, <1>10 DEF Abstract!Reversed, Abstract!Reverse, Abstract!Returns

(* Two elements trade places while the array is rearranged.                *)
LEMMA SwapIsExchange ==
  ASSUME ListInvariant, ListInvariant', NEW a \in Cells, NEW b \in Cells,
         heap' = Swapped(a, b), UNCHANGED result, task.op # "set", task'.op # "set"
  PROVE  \E i, j \in DOMAIN list : Abstract!Exchange(i, j)
<1>1. Size = Length /\ Size' = Length' /\ HeapOK /\ ListOK /\ Length \in Nat
  BY Listed DEF ListInvariant, ArrayInvariant, HeapOK, Size
<1>2. /\ Length' = Length
      /\ \A c \in 1 .. Length :
           heap'.mem[c] = IF c = b THEN heap.mem[a] ELSE IF c = a THEN heap.mem[b] ELSE heap.mem[c]
  BY <1>1, SwappedIsPacked DEF Length
<1>3. /\ DOMAIN list = 1 .. Length /\ list \in [1 .. Length -> Cell]
      /\ a \in 1 .. Length /\ b \in 1 .. Length
      /\ \A j \in 1 .. Length : list[j] = heap.mem[j]
  BY <1>1, LenProperties DEF ListOK, Cells, BASE_ADDR
<1> DEFINE s == [list EXCEPT ![a] = list[b], ![b] = list[a]]
<1>4. /\ s \in [1 .. Length -> Cell]
      /\ \A c \in 1 .. Length : s[c] = IF c = b THEN list[a] ELSE IF c = a THEN list[b] ELSE list[c]
  BY <1>3, TwoWritten
<1> HIDE DEF s
<1>5. \A c \in 1 .. Length : heap'.mem[c] = s[c] /\ s[c] \in Cell
  BY <1>2, <1>3, <1>4
<1>6. s \in Seq(Cell) /\ Len(s) = Length
  <2>1. s = [c \in 1 .. Length |-> s[c]]
    BY <1>4
  <2> QED
    BY <1>1, <1>5, <2>1, Tabulated
<1>7. list' = s
  BY <1>1, <1>2, <1>5, <1>6, Leaves
<1>8. Abstract!Exchange(a, b)
  BY <1>7 DEF Abstract!Exchange, s
<1> QED
  BY <1>3, <1>8

LEMMA MovesTrade ==
  ASSUME ArrayInvariant, ShuffleStep \/ QuickSort \/ Partition
  PROVE  heap' = heap \/ \E a, b \in Cells : heap' = Swapped(a, b)
<1>1. Length \in Nat
  BY DEF ArrayInvariant, HeapOK
<1>2. CASE ShuffleStep
  <2>1. task.i \in 0 .. Length
    BY <1>2 DEF ArrayInvariant, TaskOK, ShuffleStep
  <2>2. CASE task.i > 0
    <3>1. PICK j \in 0 .. task.i - 1 : heap' = Swapped(BASE_ADDR + (task.i - 1), BASE_ADDR + j)
      BY <1>2, <2>2 DEF ShuffleStep
    <3>2. BASE_ADDR + (task.i - 1) \in Cells /\ BASE_ADDR + j \in Cells
      BY <1>1, <2>1, <2>2 DEF Cells, BASE_ADDR
    <3> QED
      BY <3>1, <3>2
  <2>3. CASE ~(task.i > 0)
    BY <1>2, <2>3 DEF ShuffleStep
  <2> QED
    BY <2>2, <2>3
<1>3. CASE QuickSort
  <2> DEFINE range == Head(task.pending)
             middle == range.begin + (range.end - range.begin) \div 2
  <2>1. RangeOK(range, Length)
    <3>1. SortOK /\ task.pending # << >>
      BY <1>3 DEF ArrayInvariant, TaskOK, QuickSort, Sorting, Partitioning, Done
    <3>2. 1 \in 1 .. Len(task.pending) /\ range = task.pending[1]
      BY <3>1, EmptySeq DEF SortOK
    <3> QED
      BY <3>1, <3>2 DEF SortOK
  <2>2. CASE range.begin < range.end
    <3>1. heap' = Swapped(range.end, med3(range.begin, middle, range.end))
      BY <1>3, <2>2 DEF QuickSort
    <3> HIDE DEF range
    <3>2. range.begin \in Cells /\ range.end \in Cells /\ middle \in Cells
      BY <1>1, <2>1, <2>2 DEF RangeOK, Cells, BASE_ADDR
    <3>3. med3(range.begin, middle, range.end) \in {range.begin, middle, range.end}
      BY DEF med3
    <3> QED
      BY <3>1, <3>2, <3>3
  <2>3. CASE ~(range.begin < range.end)
    BY <1>3, <2>3 DEF QuickSort
  <2> QED
    BY <2>2, <2>3
<1>4. CASE Partition
  <2>1. LoopOK(task.loop, Length)
    BY <1>4 DEF ArrayInvariant, TaskOK, SortOK, Partition, Partitioning, Sorting
  <2>2. task.loop.p \in Cells /\ task.loop.end \in Cells /\ task.loop.i \in Cells
    BY <1>1, <2>1 DEF LoopOK, Cells, BASE_ADDR
  <2>3. \/ heap' = heap
        \/ heap' = Swapped(task.loop.i, task.loop.p)
        \/ heap' = Swapped(task.loop.p, task.loop.end)
    BY <1>4 DEF Partition
  <2> QED
    BY <2>2, <2>3
<1> QED
  BY <1>2, <1>3, <1>4

(* Shuffling and sorting.                                                  *)
LEMMA MovesAreExchanges ==
  ASSUME ListInvariant, ListInvariant', ShuffleStep \/ SortStep
  PROVE  \/ \E i, j \in DOMAIN list : Abstract!Exchange(i, j)
         \/ Abstract!Rearranged
         \/ UNCHANGED <<list, result>>
<1>1. task.op # "set"
  BY Kinds DEF ShuffleStep, SortStep, QuickSort, Partition, Partitioning, SortReturns, Done
<1>2. task'.op # "set"
  BY MovesKeepKind DEF ListInvariant
<1>3. CASE result' = This /\ heap' = heap
  <2>1. list' = list
    BY <1>1, <1>2, <1>3, LeavesAll DEF Size, Length
  <2> QED
    BY <1>3, <2>1 DEF Abstract!Rearranged, Abstract!Returns
<1>4. CASE result' = result /\ (ShuffleStep \/ QuickSort \/ Partition)
  <2>1. CASE heap' = heap
    BY <1>1, <1>2, <1>4, <2>1, LeavesAll DEF Size, Length
  <2>2. ASSUME NEW a \in Cells, NEW b \in Cells, heap' = Swapped(a, b)
        PROVE  \E i, j \in DOMAIN list : Abstract!Exchange(i, j)
    BY <1>1, <1>2, <1>4, <2>2, SwapIsExchange
  <2> QED
    BY <1>4, <2>1, <2>2, MovesTrade DEF ListInvariant
<1>5. (result' = This /\ heap' = heap)
      \/ (result' = result /\ (ShuffleStep \/ QuickSort \/ Partition))
  BY DEF ShuffleStep, SortStep, QuickSort, Partition, SortReturns, Returns
<1> QED
  BY <1>3, <1>4, <1>5

(* The calls that begin, and that leave the elements alone.                *)
LEMMA BeginsNothing ==
  ASSUME ListInvariant,
         Iterator \/ Shuffle \/ (\E comparator \in Comparators : Sort(comparator))
         \/ (\E i \in -1 .. Length + Gap, v \in Elements : Set(i, v))
  PROVE  UNCHANGED <<list, result>>
<1>1. heap' = heap /\ result' = result /\ task.op = "none" /\ Length' = Length
  BY Kinds DEF Iterator, Shuffle, Sort, Set, Length
<1>2. task'.op # "set" \/ task'.length = Length
  BY <1>1 DEF Iterator, Shuffle, Sort, Set
<1>3. Size' = Size
  BY <1>1, <1>2 DEF Size
<1> QED
  BY <1>1, <1>3, LeavesAll

LEMMA SetGrowIsNothing ==
  ASSUME ListInvariant, ListInvariant', SetGrow
  PROVE  UNCHANGED <<list, result>>
<1>1. task.op = "set" /\ UNCHANGED <<task, result>> /\ Extend(Longer(Null))
  BY DEF SetGrow
<1>2. Size' = Size /\ HeapOK /\ ListOK /\ Length \in Nat
  BY <1>1, Listed DEF Size, ListInvariant, ArrayInvariant, HeapOK
<1>3. \A c \in 1 .. Length : heap'.mem[c] = heap.mem[c]
  <2>1. CASE Exhausted(heap)
    BY <1>1, <2>1 DEF Extend
  <2>2. CASE ~Exhausted(heap)
    BY <1>1, <1>2, <2>2, ElementsAreCells, LongerIsPacked DEF Extend, Elements
  <2> QED
    BY <2>1, <2>2
<1>4. \A c \in 1 .. Size : heap'.mem[c] = list[c]
  BY <1>2, <1>3 DEF ListOK
<1>5. list' = list
  BY <1>2, <1>4, Leaves DEF ListOK
<1> QED
  BY <1>1, <1>5

LEMMA UsedCells == HeapOK => Used(heap) = 0 .. Length
BY DEF HeapOK, Packed, Used

LEMMA ItNextIsGet ==
  ASSUME ListInvariant, iterator.counter \in Nat, ItNext
  PROVE  \/ Abstract!Nothing
         \/ \E i \in 0 .. Len(list) + 1 : Abstract!Get(i)
         \/ UNCHANGED <<list, result>>
<1>1. task.op = "none" /\ UNCHANGED <<task, heap>>
  BY Kinds DEF ItNext
<1>2. list' = list /\ Size = Length /\ ListOK /\ Length \in Nat /\ HeapOK
  BY <1>1, LeavesAll, Listed DEF Size, Length, ListInvariant, ArrayInvariant, HeapOK
<1>3. CASE ~ItHasNext
  BY <1>2, <1>3 DEF ItNext, Returns, Abstract!Nothing, Abstract!Returns
<1>4. CASE ItHasNext /\ BASE_ADDR + iterator.counter \in Used(heap)
  <2>1. result' = At(iterator.counter)
    BY <1>4 DEF ItNext, Returns
  <2>2. iterator.counter + 1 \in 1 .. Length
    <3>1. 1 + iterator.counter \in 0 .. Length
      BY <1>2, <1>4, UsedCells DEF BASE_ADDR
    <3> QED
      BY <1>2, <3>1
  <2>3. Len(list) = Length /\ iterator.counter \in 0 .. Len(list) + 1
        /\ iterator.counter \in 0 .. Len(list) - 1
    BY <1>2, <2>2 DEF ListOK
  <2>4. result' = list[iterator.counter + 1]
    BY <1>2, <2>1, <2>2 DEF ListOK, At, BASE_ADDR
  <2>5. Abstract!Get(iterator.counter)
    BY <1>2, <2>3, <2>4 DEF Abstract!Get, Abstract!Returns
  <2> QED
    BY <2>3, <2>5
<1>5. CASE ItHasNext /\ BASE_ADDR + iterator.counter \notin Used(heap)
  BY <1>2, <1>5 DEF ItNext
<1> QED
  BY <1>3, <1>4, <1>5

(* The iterator has visited some of the elements it was made for.          *)
IteratorOK ==
  /\ iterator = [length |-> iterator.length, counter |-> iterator.counter]
  /\ iterator.length \in Nat /\ iterator.counter \in 0 .. iterator.length

LEMMA IteratorNext == ListInvariant /\ IteratorOK /\ [Next]_vars => IteratorOK'
<1> SUFFICES ASSUME ListInvariant, IteratorOK, [Next]_vars PROVE IteratorOK'
  OBVIOUS
<1>1. CASE iterator' = iterator
  BY <1>1 DEF IteratorOK
<1>2. CASE Iterator
  BY <1>2 DEF Iterator, IteratorOK, ListInvariant, ArrayInvariant, HeapOK
<1>3. CASE ItNext /\ iterator' # iterator
  <2>1. iterator' = [iterator EXCEPT !.counter = @ + 1] /\ iterator.counter < iterator.length
    BY <1>3 DEF ItNext, ItHasNext
  <2>2. iterator' = [length |-> iterator.length, counter |-> iterator.counter + 1]
    BY <2>1 DEF IteratorOK
  <2> QED
    BY <2>1, <2>2 DEF IteratorOK
<1>4. iterator' = iterator \/ Iterator \/ ItNext
  BY DEF Next, vars, GetLength, Pop, Shift, Clear, Reverse, Shuffle, Get, IndexOf, Push,
         Unshift, ScriptPush, Set, Sort, ScriptStore, SetGrow, SetStore, ShuffleStep, SortStep,
         QuickSort, Partition, SortReturns
<1> QED
  BY <1>1, <1>2, <1>3, <1>4

(* Every step of an array is one of a list, or none.                       *)
LEMMA StepOfList ==
  ListInvariant /\ ListInvariant' /\ IteratorOK /\ [Next]_vars => [Abstract!Next]_<<list, result>>
<1> SUFFICES ASSUME ListInvariant, ListInvariant', IteratorOK, [Next]_vars
             PROVE  Abstract!Next \/ UNCHANGED <<list, result>>
  OBVIOUS
<1> USE DEF Abstract!Next
<1>1. CASE UNCHANGED vars
  BY <1>1, LeavesAll DEF vars, Size, Length
<1>2. CASE GetLength
  BY <1>2, GetLengthIsLength
<1>3. CASE \E i \in -1 .. Length + Gap : Get(i)
  BY <1>3, GetIsGet
<1>4. ASSUME NEW v \in Elements, IndexOf(v) \/ Push(v) \/ Unshift(v) \/ ScriptPush(v)
      PROVE  Abstract!Next
  <2>1. v \in Elements \cup {Null}
    OBVIOUS
  <2> QED
    BY <1>4, <2>1, IndexOfIsIndexOf, PushIsPush, UnshiftIsUnshift
<1>5. CASE Pop \/ Shift \/ Clear \/ Reverse
  BY <1>5, PopIsPop, ShiftIsShift, ClearIsClear, ReverseIsReversed
<1>6. CASE Iterator \/ Shuffle \/ (\E comparator \in Comparators : Sort(comparator))
           \/ (\E i \in -1 .. Length + Gap, v \in Elements : Set(i, v))
  BY <1>6, BeginsNothing
<1>7. ASSUME NEW c \in Cells, NEW v \in Elements, ScriptStore(c, v) PROVE Abstract!Next
  <2>1. c - 1 \in 0 .. Len(list') - 1 /\ v \in Elements \cup {Null} /\ Abstract!Set(c - 1, v)
    BY <1>7, ScriptStoreIsSet
  <2> QED
    BY <2>1
<1>8. CASE SetGrow
  BY <1>8, SetGrowIsNothing
<1>9. CASE SetStore
  BY <1>9, SetStoreIsSet
<1>10. CASE ShuffleStep \/ SortStep
  BY <1>10, MovesAreExchanges
<1>11. CASE ItNext
  <2>1. iterator.counter \in Nat
    BY DEF IteratorOK
  <2> QED
    BY <1>11, <2>1, ItNextIsGet
<1> QED
  BY <1>1, <1>2, <1>3, <1>4, <1>5, <1>6, <1>7, <1>8, <1>9, <1>10, <1>11 DEF Next

LEMMA BeginsAsList == Init => IteratorOK /\ Abstract!Init
<1> SUFFICES ASSUME Init PROVE IteratorOK /\ Abstract!Init
  OBVIOUS
<1>1. IteratorOK /\ result = Null
  BY DEF Init, IteratorOK
<1>2. ListInvariant /\ task = Idle
  BY ListInit DEF Init
<1>3. Length = 0
  BY InitialLength
<1>4. list \in Seq(Cell) /\ Len(list) = 0
  BY <1>2, <1>3, Listed DEF ListOK, Size, Idle
<1>5. list = << >>
  BY <1>4, EmptySeq
<1> QED
  BY <1>1, <1>5 DEF Abstract!Init

(* An array is a list: whatever the calls, the comparators and what they   *)
(* change, every call returns what the same call of a list returns and     *)
(* leaves the elements that it leaves, and sorting and shuffling lose no   *)
(* element.                                                                *)
THEOREM ArrayIsList == Spec => IsList
<1> QED
  BY ListInit, ListNext, IteratorNext, StepOfList, BeginsAsList, PTL
  DEF Spec, IsList, Abstract!Spec, Abstract!vars

-----------------------------------------------------------------------------
(* The iterator.                                                           *)

(* As long as it is not disturbed the iterator is where it should be, and  *)
(* the elements it is to visit are in their places.                        *)
VisitInvariant ==
  /\ expected \in Seq(Cell)
  /\ expected # << >> =>
       /\ visited = SubSeq(expected, 1, iterator.counter)
       /\ iterator.length = Len(expected)
       /\ fatal # "cell"
       /\ \A i \in 1 .. Len(expected) : i <= Len(list) /\ list[i] = expected[i]

(* What an iterator that was just made is to visit.                        *)
LEMMA VisitBegins ==
  ASSUME ListInvariant, Iterator, expected' = list, visited' = << >>
  PROVE  VisitInvariant'
<1>1. /\ heap' = heap /\ task' = task /\ task.op = "none" /\ fatal' = "no"
      /\ iterator' = [length |-> Length, counter |-> 0]
  BY Kinds DEF Iterator, Call
<1>2. list' = list /\ Size = Length /\ ListOK
  BY <1>1, LeavesAll, Listed DEF Size, Length
<1>3. expected' \in Seq(Cell) /\ Len(expected') = Length
  BY <1>2 DEF ListOK
<1>4. SubSeq(expected', 1, 0) = << >>
  BY SubSeqEmpty
<1>5. \A i \in 1 .. Len(expected') : i <= Len(list') /\ list'[i] = expected'[i]
  BY <1>2, <1>3 DEF ListOK
<1> QED
  BY <1>1, <1>3, <1>4, <1>5 DEF VisitInvariant

(* Only an iterator is stopped by a cell that was freed.                   *)
LEMMA OtherFailures == Next => fatal' # "cell" \/ UNCHANGED fatal \/ ItNext
BY DEF Next, GetLength, Pop, Shift, Clear, Reverse, Shuffle, Iterator, Get, IndexOf, Push,
       Unshift, ScriptPush, Set, Sort, ScriptStore, SetGrow, SetStore, ShuffleStep, SortStep,
       QuickSort, Partition, SortReturns, Extend

(* The element it is to visit next is in its place.                        *)
LEMMA NextIsThere ==
  ASSUME ListInvariant, IteratorOK, VisitInvariant, expected # << >>, Call, ItHasNext
  PROVE  /\ BASE_ADDR + iterator.counter \in Used(heap)
         /\ iterator.counter + 1 \in 1 .. Len(expected)
         /\ At(iterator.counter) = expected[iterator.counter + 1]
<1>1. task.op = "none" /\ Len(expected) \in Nat
  BY Kinds, LenProperties DEF VisitInvariant
<1>2. Size = Length /\ ListOK /\ Length \in Nat /\ HeapOK
  BY <1>1, Listed DEF Size, ListInvariant, ArrayInvariant, HeapOK
<1>3. iterator.counter \in Nat /\ iterator.counter + 1 \in 1 .. Len(expected)
  BY <1>1 DEF IteratorOK, VisitInvariant, ItHasNext
<1>4. iterator.counter + 1 \in 1 .. Length
      /\ list[iterator.counter + 1] = expected[iterator.counter + 1]
  BY <1>2, <1>3 DEF VisitInvariant, ListOK
<1>5. BASE_ADDR + iterator.counter = iterator.counter + 1
  BY <1>3 DEF BASE_ADDR
<1> QED
  BY <1>2, <1>3, <1>4, <1>5, UsedCells DEF ListOK, At

(* The other calls leave it alone or disturb it.                           *)
LEMMA VisitObserves ==
  ASSUME ListInvariant, IteratorOK, VisitInvariant, Next, UNCHANGED iterator, Observe
  PROVE  VisitInvariant'
<1>1. << >> \in Seq(Cell)
  BY EmptySeq
<1>2. CASE Disturbs
  BY <1>1, <1>2 DEF Observe, VisitInvariant
<1>3. CASE ~Disturbs
  <2>1. expected' = expected /\ visited' = visited
    BY <1>3 DEF Observe, history
  <2>2. ASSUME expected # << >> PROVE VisitInvariant'
    <3>1. fatal # "cell" /\ expected \in Seq(Cell)
      BY <2>2 DEF VisitInvariant
    <3>2. fatal' # "cell"
      <4>1. CASE ItNext
        <5>1. CASE ItHasNext
          BY <2>2, <3>1, <4>1, <5>1, NextIsThere DEF ItNext
        <5>2. CASE ~ItHasNext
          BY <3>1, <4>1, <5>2 DEF ItNext
        <5> QED
          BY <5>1, <5>2
      <4> QED
        BY <3>1, <4>1, OtherFailures
    <3>3. \A i \in 1 .. Len(expected) : ~(i > Len(list')) /\ list'[i] = expected[i]
      BY <1>3 DEF Disturbs
    <3>4. Len(expected) \in Nat /\ Len(list') \in Int
      <4>1. ListInvariant' => ListOK'
        BY Listed, PTL
      <4>2. ListInvariant'
        BY ListNext
      <4> QED
        BY <3>1, <4>1, <4>2, LenProperties DEF ListOK
    <3>5. \A i \in 1 .. Len(expected) : i <= Len(list') /\ list'[i] = expected[i]
      BY <3>3, <3>4
    <3> QED
      BY <2>1, <2>2, <3>1, <3>2, <3>5 DEF VisitInvariant
  <2>3. CASE expected = << >>
    BY <1>1, <2>1, <2>3 DEF VisitInvariant
  <2> QED
    BY <2>2, <2>3
<1> QED
  BY <1>2, <1>3

(* The first elements of a sequence, and the one after them.               *)
LEMMA OneMore ==
  ASSUME NEW S, NEW s \in Seq(S), NEW n \in Nat, n + 1 \in 1 .. Len(s)
  PROVE  Append(SubSeq(s, 1, n), s[n + 1]) = SubSeq(s, 1, n + 1)
<1>1. Len(s) \in Nat /\ \A i \in 1 .. n + 1 : s[i] \in S
  <2>1. Len(s) \in Nat
    BY LenProperties
  <2>2. \A i \in 1 .. n + 1 : i \in 1 .. Len(s)
    BY <2>1
  <2> QED
    BY <2>1, <2>2, ElementOfSeq
<1> DEFINE a == SubSeq(s, 1, n)
           b == SubSeq(s, 1, n + 1)
<1>2. a \in Seq(S) /\ Len(a) = n /\ \A i \in 1 .. n : a[i] = s[i]
  <2>1. \A i \in 1 .. n : s[i] \in S
    BY <1>1
  <2>2. /\ a \in Seq(S) /\ Len(a) = IF 1 <= n THEN n - 1 + 1 ELSE 0
        /\ \A i \in 1 .. n - 1 + 1 : a[i] = s[1 + i - 1]
    BY <2>1, SubSeqProperties
  <2> HIDE DEF a
  <2> QED
    BY <2>2
<1>3. b \in Seq(S) /\ Len(b) = n + 1 /\ \A i \in 1 .. n + 1 : b[i] = s[i]
  <2> DEFINE m == n + 1
  <2>1. m \in Int /\ m >= 1 /\ \A i \in 1 .. m : s[i] \in S
    BY <1>1
  <2> HIDE DEF m
  <2>2. /\ SubSeq(s, 1, m) \in Seq(S)
        /\ Len(SubSeq(s, 1, m)) = IF 1 <= m THEN m - 1 + 1 ELSE 0
        /\ \A i \in 1 .. m - 1 + 1 : SubSeq(s, 1, m)[i] = s[1 + i - 1]
    BY <2>1, SubSeqProperties
  <2>3. Len(SubSeq(s, 1, m)) = m /\ \A i \in 1 .. m : SubSeq(s, 1, m)[i] = s[i]
    BY <2>1, <2>2
  <2> QED
    BY <2>2, <2>3 DEF m
<1> DEFINE c == Append(a, s[n + 1])
<1> HIDE DEF a, b
<1>4. c \in Seq(S) /\ Len(c) = n + 1 /\ (\A i \in 1 .. n : c[i] = a[i]) /\ c[n + 1] = s[n + 1]
  BY <1>1, <1>2, AppendProperties
<1> HIDE DEF c
<1>5. \A i \in 1 .. n + 1 : c[i] = b[i]
  <2> TAKE i \in 1 .. n + 1
  <2>1. CASE i \in 1 .. n
    BY <1>2, <1>3, <1>4, <2>1
  <2>2. CASE i = n + 1
    BY <1>3, <1>4, <2>2
  <2>3. i \in 1 .. n \/ i = n + 1
    OBVIOUS
  <2> QED
    BY <2>1, <2>2, <2>3
<1>6. c = b
  BY <1>3, <1>4, <1>5, SeqEqual
<1> QED
  BY <1>6 DEF a, b, c

(* It visits the next element.                                             *)
LEMMA VisitGoesOn ==
  ASSUME ListInvariant, IteratorOK, VisitInvariant, ItNext, iterator' # iterator,
         UNCHANGED expected,
         visited' = IF expected = << >> THEN visited ELSE Append(visited, result')
  PROVE  VisitInvariant'
<1> DEFINE n == iterator.counter
<1>1. /\ Call /\ ItHasNext /\ UNCHANGED <<heap, task, fatal>>
      /\ iterator' = [iterator EXCEPT !.counter = @ + 1]
      /\ result' = At(n)
  BY DEF ItNext, Returns
<1>2. iterator' = [length |-> iterator.length, counter |-> n + 1] /\ n \in Nat
  BY <1>1 DEF IteratorOK
<1>3. CASE expected = << >>
  BY <1>3 DEF VisitInvariant
<1>4. CASE expected # << >>
  <2>1. n + 1 \in 1 .. Len(expected) /\ result' = expected[n + 1]
    BY <1>1, <1>4, NextIsThere
  <2>2. list' = list
    BY <1>1, LeavesAll DEF Size, Length
  <2>3. expected \in Seq(Cell) /\ visited = SubSeq(expected, 1, n)
        /\ Len(expected) \in Nat /\ iterator.length = Len(expected) /\ fatal # "cell"
    BY <1>4, LenProperties DEF VisitInvariant
  <2> HIDE DEF n
  <2>4. Append(SubSeq(expected, 1, n), expected[n + 1]) = SubSeq(expected, 1, n + 1)
    BY <1>2, <2>1, <2>3, OneMore
  <2>5. visited' = SubSeq(expected', 1, iterator'.counter)
    BY <1>2, <1>4, <2>1, <2>3, <2>4
  <2> QED
    BY <1>1, <1>2, <1>4, <2>2, <2>3, <2>5 DEF VisitInvariant
<1> QED
  BY <1>3, <1>4

LEMMA VisitNext ==
  ListInvariant /\ IteratorOK /\ VisitInvariant /\ [MCNext]_<<vars, history>>
    => [Next]_vars /\ VisitInvariant'
<1> SUFFICES ASSUME ListInvariant, IteratorOK, VisitInvariant, [MCNext]_<<vars, history>>
             PROVE  [Next]_vars /\ VisitInvariant'
  OBVIOUS
<1>1. CASE UNCHANGED <<vars, history>>
  <2>1. list' = list
    BY <1>1, LeavesAll DEF vars, Size, Length
  <2> QED
    BY <1>1, <2>1 DEF vars, history, VisitInvariant
<1>2. CASE Iterator /\ expected' = list /\ visited' = << >>
  BY <1>2, VisitBegins DEF Next
<1>3. CASE Next /\ Bound /\ UNCHANGED iterator /\ Observe
  BY <1>3, VisitObserves
<1>4. CASE /\ ItNext /\ iterator' # iterator
           /\ UNCHANGED expected
           /\ visited' = IF expected = << >> THEN visited ELSE Append(visited, result')
  BY <1>4, VisitGoesOn DEF Next
<1> QED
  BY <1>1, <1>2, <1>3, <1>4 DEF MCNext

(* As long as what an iterator is to visit is still there it visits the    *)
(* elements that there were when it was made, in order and each of them    *)
(* once, and never meets a cell that was freed.                            *)
THEOREM IteratorVisitsElements == MCSpec => []VisitsElements
<1>1. MCInit => Init /\ VisitInvariant
  BY EmptySeq DEF MCInit, VisitInvariant
<1>2. VisitInvariant => VisitsElements
  BY DEF VisitInvariant, VisitsElements
<1> QED
  BY <1>1, <1>2, ListInit, ListNext, IteratorNext, BeginsAsList, VisitNext, PTL DEF MCSpec

-----------------------------------------------------------------------------
(* Sorting.                                                                *)

(* The place of a cell in the order of the comparator.                     *)
Rank(c) == IF task.comparator = "default" THEN Order(heap.mem[c]) ELSE 0 - Order(heap.mem[c])

(* The cell c is in a range.                                               *)
In(r, c) == r.begin <= c /\ c <= r.end

(* Two cells are in the same range, hence yet to be ordered.               *)
Together(loop, pending, a, b) ==
  \/ In(loop, a) /\ In(loop, b)
  \/ \E n \in 1 .. Len(pending) : In(pending[n], a) /\ In(pending[n], b)

(* Ranges have no cell in common.                                          *)
Apart(loop, pending) ==
  \A n \in 1 .. Len(pending), c \in Cells :
    In(pending[n], c) =>
      /\ ~In(loop, c)
      /\ \A m \in 1 .. Len(pending) : In(pending[m], c) => m = n

(* Where partition() has been, cells before p go before the pivot, and     *)
(* others after it.                                                        *)
Divided(loop) ==
  \A c \in Cells :
    /\ loop.begin <= c /\ c < loop.p => Rank(c) <= Rank(loop.end)
    /\ loop.p <= c /\ c < loop.i => Rank(loop.end) <= Rank(c)

(* Cells that are in different ranges, or in none, are in order.           *)
Ordered(loop, pending) ==
  \A a, b \in Cells : a < b /\ ~Together(loop, pending, a, b) => Rank(a) <= Rank(b)

SortInvariant ==
  task.op = "sort" /\ task.comparator # "script" =>
    /\ task.comparator \in Comparators
    /\ Apart(task.loop, task.pending)
    /\ task.loop # NoLoop => Divided(task.loop)
    /\ Ordered(task.loop, task.pending)

(* A sort that goes on.                                                    *)
SortRuns ==
  /\ HeapOK /\ SortOK /\ task.op = "sort"
  /\ task.comparator \in {"default", "reverse"}
  /\ Apart(task.loop, task.pending)
  /\ task.loop # NoLoop => Divided(task.loop)
  /\ Ordered(task.loop, task.pending)

LEMMA CellsOf == HeapOK => Length \in Nat /\ Cells = 1 .. Length
BY DEF HeapOK, Cells, BASE_ADDR

LEMMA OrdersAreNumbers == HeapOK => \A c \in Cells : Order(heap.mem[c]) \in Int
<1> SUFFICES ASSUME HeapOK, NEW c \in Cells PROVE Order(heap.mem[c]) \in Int
  OBVIOUS
<1>1. c \in 0 .. heap.size - 1 /\ c <= Length
  BY CellsOf DEF HeapOK, Packed
<1>2. heap.mem[c] \in Cell /\ heap.mem[c] # Free
  BY <1>1, CellsOf DEF HeapOK, Packed
<1> QED
  BY <1>2 DEF Cell, Order

LEMMA RanksAreNumbers == HeapOK => \A c \in Cells : Rank(c) \in Int
BY OrdersAreNumbers DEF Rank

(* Two elements trade places.                                              *)
LEMMA SwappedRanks ==
  ASSUME HeapOK, NEW a \in Cells, NEW b \in Cells, heap' = Swapped(a, b),
         task'.comparator = task.comparator
  PROVE  /\ Length' = Length
         /\ \A c \in Cells :
              Rank(c)' = IF c = b THEN Rank(a) ELSE IF c = a THEN Rank(b) ELSE Rank(c)
<1>1. /\ Length' = Length
      /\ \A c \in 1 .. Length :
           heap'.mem[c] = IF c = b THEN heap.mem[a] ELSE IF c = a THEN heap.mem[b] ELSE heap.mem[c]
  BY SwappedIsPacked DEF Length
<1> QED
  BY <1>1, CellsOf DEF Rank

LEMMA SameRanks ==
  ASSUME heap' = heap, task'.comparator = task.comparator
  PROVE  Length' = Length /\ \A c : Rank(c)' = Rank(c)
BY DEF Length, Rank

(* Two elements of a range trade places: cells that are not both in that   *)
(* range remain in order.                                                  *)
LEMMA SwapInRange ==
  ASSUME HeapOK, NEW loop, NEW pending, Ordered(loop, pending),
         NEW r, r.begin \in Int, r.end \in Int,
         \A x, y \in Cells : In(r, x) /\ Together(loop, pending, x, y) => In(r, y),
         NEW a \in Cells, NEW b \in Cells, In(r, a), In(r, b),
         heap' = Swapped(a, b), task'.comparator = task.comparator
  PROVE  \A x, y \in Cells :
           x < y /\ ~Together(loop, pending, x, y) /\ ~(In(r, x) /\ In(r, y))
             => Rank(x)' <= Rank(y)'
<1>1. /\ Cells \subseteq Int
      /\ \A c \in Cells :
           Rank(c)' = IF c = b THEN Rank(a) ELSE IF c = a THEN Rank(b) ELSE Rank(c)
  BY CellsOf, SwappedRanks
<1>2. \A x, y : Together(loop, pending, x, y) => Together(loop, pending, y, x)
  BY DEF Together
<1> SUFFICES ASSUME NEW x \in Cells, NEW y \in Cells, x < y,
                    ~Together(loop, pending, x, y), ~(In(r, x) /\ In(r, y))
             PROVE  Rank(x)' <= Rank(y)'
  OBVIOUS
<1>3. CASE In(r, x)
  <2>1. PICK z \in Cells : In(r, z) /\ Rank(x)' = Rank(z)
    BY <1>1, <1>3
  <2>2. y # a /\ y # b /\ Rank(y)' = Rank(y)
    BY <1>1, <1>3
  <2>3. z < y
    BY <1>1, <1>3, <2>1 DEF In
  <2>4. ~Together(loop, pending, z, y)
    BY <1>3, <2>1
  <2> QED
    BY <2>1, <2>2, <2>3, <2>4 DEF Ordered
<1>4. CASE In(r, y)
  <2>1. PICK z \in Cells : In(r, z) /\ Rank(y)' = Rank(z)
    BY <1>1, <1>4
  <2>2. x # a /\ x # b /\ Rank(x)' = Rank(x)
    BY <1>1, <1>4
  <2>3. x < z
    BY <1>1, <1>4, <2>1 DEF In
  <2>4. ~Together(loop, pending, x, z)
    BY <1>2, <1>4, <2>1
  <2> QED
    BY <2>1, <2>2, <2>3, <2>4 DEF Ordered
<1>5. CASE ~In(r, x) /\ ~In(r, y)
  <2>1. Rank(x)' = Rank(x) /\ Rank(y)' = Rank(y)
    BY <1>1, <1>5
  <2> QED
    BY <2>1 DEF Ordered
<1> QED
  BY <1>3, <1>4, <1>5

(* quicksort() begins.                                                     *)
LEMMA QuickSortOrders ==
  ASSUME SortRuns, QuickSort
  PROVE  /\ task'.comparator = task.comparator
         /\ Apart(task.loop, task.pending)'
         /\ task'.loop # NoLoop => Divided(task.loop)'
         /\ Ordered(task.loop, task.pending)'
<1> DEFINE pending == task.pending
           range == Head(pending)
           rest == Tail(pending)
           middle == range.begin + (range.end - range.begin) \div 2
<1>1. /\ HeapOK /\ Length \in Nat /\ Cells = 1 .. Length
      /\ task = [op |-> "sort", comparator |-> task.comparator, loop |-> task.loop,
                 pending |-> task.pending]
      /\ task.loop = NoLoop
      /\ pending \in Seq([begin : Int, end : Int]) /\ pending # << >>
      /\ Apart(NoLoop, pending) /\ Ordered(NoLoop, pending)
  BY CellsOf DEF SortRuns, SortOK, QuickSort, Sorting, Partitioning, Done
<1> HIDE DEF pending
<1>2. /\ Len(pending) \in Nat /\ 1 \in 1 .. Len(pending) /\ range = pending[1]
      /\ RangeOK(range, Length)
      /\ Len(rest) = Len(pending) - 1 /\ \A n \in 1 .. Len(rest) : rest[n] = pending[n + 1]
  <2>1. Len(pending) \in Nat \ {0} /\ range = pending[1]
    BY <1>1, EmptySeq
  <2>2. \A n \in 1 .. Len(pending) : RangeOK(pending[n], Length)
    BY DEF SortRuns, SortOK, pending
  <2> HIDE DEF range, rest
  <2>3. Len(rest) = Len(pending) - 1 /\ \A n \in 1 .. Len(rest) : rest[n] = pending[n + 1]
    BY <1>1, HeadTailProperties DEF rest
  <2> QED
    BY <2>1, <2>2, <2>3
<1> HIDE DEF range, rest
<1>3. range.begin \in Int /\ range.end \in Int /\ 1 <= range.begin /\ range.end <= Length
  BY <1>2 DEF RangeOK, BASE_ADDR
<1>4. \A n \in 1 .. Len(rest) : n + 1 \in 1 .. Len(pending) /\ n + 1 # 1
  BY <1>2
<1>5. \A n \in 1 .. Len(pending) : n = 1 \/ (n - 1 \in 1 .. Len(rest) /\ rest[n - 1] = pending[n])
  <2> TAKE n \in 1 .. Len(pending)
  <2>1. n = 1 \/ n - 1 \in 1 .. Len(rest)
    BY <1>2
  <2>2. n - 1 + 1 = n
    OBVIOUS
  <2> QED
    BY <1>2, <2>1, <2>2
<1>6. \A c \in Cells : ~In(NoLoop, c)
  BY <1>1 DEF In, NoLoop
<1>7. \A n \in 1 .. Len(rest), c \in Cells :
        In(rest[n], c) =>
          /\ ~In(range, c)
          /\ \A m \in 1 .. Len(rest) : In(rest[m], c) => m = n
  <2> TAKE n \in 1 .. Len(rest), c \in Cells
  <2> HAVE In(rest[n], c)
  <2>1. In(pending[n + 1], c) /\ n + 1 \in 1 .. Len(pending)
    BY <1>2, <1>4
  <2>2. ~In(range, c)
    BY <1>1, <1>2, <1>4, <2>1 DEF Apart
  <2>3. ASSUME NEW m \in 1 .. Len(rest), In(rest[m], c) PROVE m = n
    <3>1. In(pending[m + 1], c) /\ m + 1 \in 1 .. Len(pending)
      BY <1>2, <1>4, <2>3
    <3>2. m + 1 = n + 1
      BY <1>1, <2>1, <3>1 DEF Apart
    <3> QED
      BY <3>2
  <2> QED
    BY <2>2, <2>3
<1>8. \A x, y \in Cells :
        Together(NoLoop, pending, x, y) =>
          \/ In(range, x) /\ In(range, y)
          \/ \E n \in 1 .. Len(rest) : In(rest[n], x) /\ In(rest[n], y)
  BY <1>2, <1>5, <1>6 DEF Together
<1>9. CASE range.begin < range.end
  <2> DEFINE loop == [begin |-> range.begin, end |-> range.end,
                      i |-> range.begin, p |-> range.begin]
  <2>1. /\ heap' = Swapped(range.end, med3(range.begin, middle, range.end))
        /\ task' = [task EXCEPT !.loop = loop, !.pending = rest]
    BY <1>9 DEF QuickSort, range, rest, pending
  <2>2. task' = [op |-> "sort", comparator |-> task.comparator, loop |-> loop, pending |-> rest]
    <3> HIDE DEF loop
    <3> QED
      BY <1>1, <2>1, SortTask
  <2>3. task'.comparator = task.comparator /\ task'.loop = loop /\ task'.pending = rest
    BY <2>2
  <2>4. /\ range.begin \in Cells /\ range.end \in Cells /\ middle \in Cells
        /\ In(range, range.begin) /\ In(range, range.end) /\ In(range, middle)
    <3>1. middle \in Int /\ range.begin <= middle /\ middle <= range.end
      BY <1>3, <1>9
    <3> HIDE DEF middle
    <3> QED
      BY <1>1, <1>3, <1>9, <3>1 DEF In
  <2>5. med3(range.begin, middle, range.end) \in {range.begin, middle, range.end}
    BY DEF med3
  <2> DEFINE m == med3(range.begin, middle, range.end)
  <2>a. m \in Cells /\ In(range, m)
    BY <2>4, <2>5
  <2> HIDE DEF m
  <2>6. \A x, y \in Cells : In(range, x) /\ Together(NoLoop, pending, x, y) => In(range, y)
    BY <1>1, <1>2, <1>6 DEF Together, Apart
  <2>7. \A x, y \in Cells :
          x < y /\ ~Together(NoLoop, pending, x, y) /\ ~(In(range, x) /\ In(range, y))
            => Rank(x)' <= Rank(y)'
    <3>1. heap' = Swapped(range.end, m)
      BY <2>1 DEF m
    <3> QED
      BY <1>1, <1>3, <2>3, <2>4, <2>6, <2>a, <3>1, SwapInRange
  <2>8. \A c : In(loop, c) <=> In(range, c)
    BY DEF In
  <2>9. Cells' = Cells
    <3>1. Length' = Length
      BY <1>1, <2>1, <2>3, <2>4, <2>a, SwappedRanks DEF m
    <3> QED
      BY <3>1 DEF Cells
  <2>10. Apart(task.loop, task.pending)'
    BY <1>7, <2>3, <2>8, <2>9 DEF Apart
  <2>11. Divided(task.loop)'
    <3>1. \A c \in Cells : ~(range.begin <= c /\ c < range.begin)
      BY <1>1, <1>3
    <3> QED
      BY <2>3, <2>9, <3>1 DEF Divided
  <2>12. Ordered(task.loop, task.pending)'
    <3> SUFFICES ASSUME NEW x \in Cells, NEW y \in Cells, x < y, ~Together(loop, rest, x, y)
                 PROVE  Rank(x)' <= Rank(y)'
      BY <2>3, <2>9 DEF Ordered
    <3>1. ~Together(NoLoop, pending, x, y) /\ ~(In(range, x) /\ In(range, y))
      BY <1>8, <2>8 DEF Together
    <3> QED
      BY <2>7, <3>1
  <2> QED
    BY <2>3, <2>10, <2>11, <2>12
<1>10. CASE ~(range.begin < range.end)
  <2>1. heap' = heap /\ task' = [task EXCEPT !.pending = rest]
    BY <1>10 DEF QuickSort, range, rest, pending
  <2>2. task' = [op |-> "sort", comparator |-> task.comparator, loop |-> NoLoop, pending |-> rest]
    BY <1>1, <2>1, SortTask
  <2>3. task'.comparator = task.comparator /\ task'.loop = NoLoop /\ task'.pending = rest
    BY <2>2
  <2>4. Cells' = Cells /\ \A c : Rank(c)' = Rank(c)
    BY <2>1, <2>3, SameRanks DEF Cells
  <2>5. Apart(task.loop, task.pending)'
    BY <1>6, <1>7, <2>3, <2>4 DEF Apart
  <2>6. Ordered(task.loop, task.pending)'
    <3> SUFFICES ASSUME NEW x \in Cells, NEW y \in Cells, x < y, ~Together(NoLoop, rest, x, y)
                 PROVE  Rank(x) <= Rank(y)
      BY <2>3, <2>4 DEF Ordered
    <3>1. ~(In(range, x) /\ In(range, y))
      BY <1>1, <1>3, <1>10 DEF In
    <3>2. ~Together(NoLoop, pending, x, y)
      BY <1>8, <3>1 DEF Together
    <3> QED
      BY <1>1, <3>2 DEF Ordered
  <2> QED
    BY <2>3, <2>5, <2>6
<1> QED
  BY <1>9, <1>10

(* The answers of a comparator that is not a script.                       *)
LEMMA Answered ==
  ASSUME HeapOK, task.comparator \in {"default", "reverse"}, NEW a \in Cells, NEW b \in Cells,
         NEW answer \in Answers(task.comparator, heap.mem[a], heap.mem[b])
  PROVE  /\ Rank(a) \in Int /\ Rank(b) \in Int
         /\ answer <= 0 <=> Rank(a) <= Rank(b)
<1> DEFINE x == Order(heap.mem[a])
           y == Order(heap.mem[b])
<1>1. Rank(a) \in Int /\ Rank(b) \in Int
  BY RanksAreNumbers
<1>2. CASE task.comparator = "default"
  <2>1. Rank(a) = x /\ Rank(b) = y /\ answer = x - y
    BY <1>2 DEF Rank, Answers, compare
  <2> HIDE DEF x, y
  <2> QED
    BY <1>1, <2>1
<1>3. CASE task.comparator = "reverse"
  <2>1. task.comparator # "default"
    BY <1>3
  <2>2. Rank(a) = 0 - x /\ Rank(b) = 0 - y /\ answer = y - x
    BY <1>3, <2>1 DEF Rank, Answers, compare
  <2>3. x \in Int /\ y \in Int
    <3>1. \A c \in Cells : Order(heap.mem[c]) \in Int
      BY OrdersAreNumbers
    <3> QED
      BY <3>1
  <2> HIDE DEF x, y
  <2> QED
    BY <1>1, <2>2, <2>3
<1> QED
  BY <1>2, <1>3

(* The loop of partition() runs.                                           *)
LEMMA LoopRuns ==
  ASSUME SortRuns, Partition, task.loop.i <= task.loop.end - 1
  PROVE  /\ task'.comparator = task.comparator
         /\ Apart(task.loop, task.pending)'
         /\ Divided(task.loop)'
         /\ Ordered(task.loop, task.pending)'
<1> PICK loop, pending : loop = task.loop /\ pending = task.pending
  OBVIOUS
<1> DEFINE forth == [begin |-> loop.begin, end |-> loop.end, i |-> loop.i + 1, p |-> loop.p]
           swap == [begin |-> loop.begin, end |-> loop.end, i |-> loop.i + 1, p |-> loop.p + 1]
<1>1. /\ HeapOK /\ Length \in Nat /\ Cells = 1 .. Length
      /\ task = [op |-> "sort", comparator |-> task.comparator, loop |-> task.loop,
                 pending |-> task.pending]
      /\ LoopOK(loop, Length) /\ task.comparator \in {"default", "reverse"}
      /\ Apart(loop, pending) /\ Ordered(loop, pending) /\ Divided(loop)
  BY CellsOf DEF SortRuns, SortOK, Partition, Partitioning
<1>2. PICK answer \in Answers(task.comparator, heap.mem[loop.i], heap.mem[loop.end]) :
        IF answer <= 0
          THEN /\ heap' = Swapped(loop.i, loop.p)
               /\ task' = [task EXCEPT !.loop = [loop EXCEPT !.i = @ + 1, !.p = @ + 1]]
          ELSE /\ task' = [task EXCEPT !.loop = [loop EXCEPT !.i = @ + 1]]
               /\ UNCHANGED heap
  BY DEF Partition
<1>a. loop.i <= loop.end - 1
  OBVIOUS
<1>3. /\ [loop EXCEPT !.i = @ + 1, !.p = @ + 1] = swap
      /\ [loop EXCEPT !.i = @ + 1] = forth
  BY <1>1, LoopGoesOn DEF LoopOK
<1>4. /\ [task EXCEPT !.loop = swap].comparator = task.comparator
      /\ [task EXCEPT !.loop = swap].loop = swap
      /\ [task EXCEPT !.loop = swap].pending = pending
      /\ [task EXCEPT !.loop = forth].comparator = task.comparator
      /\ [task EXCEPT !.loop = forth].loop = forth
      /\ [task EXCEPT !.loop = forth].pending = pending
  <2> HIDE DEF swap, forth
  <2> QED
    BY <1>1, SortTask
<1>5. /\ loop.begin \in Int /\ loop.end \in Int /\ loop.i \in Int /\ loop.p \in Int
      /\ 1 <= loop.begin /\ loop.begin <= loop.p /\ loop.p <= loop.i /\ loop.i < loop.end
      /\ loop.end <= Length
  BY <1>1, <1>a DEF LoopOK, BASE_ADDR
<1>6. /\ loop.i \in Cells /\ loop.p \in Cells /\ loop.end \in Cells
      /\ In(loop, loop.i) /\ In(loop, loop.p)
  BY <1>1, <1>5 DEF In
<1>7. answer <= 0 <=> Rank(loop.i) <= Rank(loop.end)
  BY <1>1, <1>2, <1>6, Answered
<1>8. \A c \in Cells : Rank(c) \in Int
  BY <1>1, RanksAreNumbers
<1>9. CASE answer <= 0
  <2>1. heap' = Swapped(loop.i, loop.p) /\ task' = [task EXCEPT !.loop = swap]
    BY <1>2, <1>3, <1>9
  <2>2. task'.comparator = task.comparator /\ task'.loop = swap /\ task'.pending = pending
    <3> HIDE DEF swap, forth
    <3> QED
      BY <1>4, <2>1
  <2>3. /\ Length' = Length
        /\ \A c \in Cells :
             Rank(c)' = IF c = loop.p THEN Rank(loop.i)
                        ELSE IF c = loop.i THEN Rank(loop.p) ELSE Rank(c)
    BY <1>1, <1>6, <2>1, <2>2, SwappedRanks
  <2>4. Cells' = Cells
    BY <2>3 DEF Cells
  <2>5. \A c : In(swap, c) <=> In(loop, c)
    BY DEF In
  <2>6. Apart(task.loop, task.pending)'
    BY <1>1, <2>2, <2>4, <2>5 DEF Apart
  <2>7. \A x, y \in Cells : In(loop, x) /\ Together(loop, pending, x, y) => In(loop, y)
    BY <1>1 DEF Together, Apart
  <2>8. \A x, y \in Cells :
          x < y /\ ~Together(loop, pending, x, y) /\ ~(In(loop, x) /\ In(loop, y))
            => Rank(x)' <= Rank(y)'
    BY <1>1, <1>5, <1>6, <2>1, <2>2, <2>7, SwapInRange
  <2>9. Ordered(task.loop, task.pending)'
    BY <2>2, <2>4, <2>5, <2>8 DEF Ordered, Together
  <2>10. Divided(task.loop)'
    <3>1. Rank(loop.end)' = Rank(loop.end)
      BY <1>5, <1>6, <2>3
    <3>2. ASSUME NEW c \in Cells, loop.begin <= c, c < loop.p + 1
          PROVE  Rank(c)' <= Rank(loop.end)'
      <4>1. CASE c = loop.p
        BY <1>7, <1>9, <2>3, <3>1, <4>1
      <4>2. CASE c # loop.p
        <5>1. c < loop.p /\ c # loop.i
          BY <1>1, <1>5, <3>2, <4>2
        <5>2. Rank(c)' = Rank(c)
          BY <2>3, <4>2, <5>1
        <5> QED
          BY <1>1, <3>1, <3>2, <5>1, <5>2 DEF Divided
      <4> QED
        BY <4>1, <4>2
    <3>3. ASSUME NEW c \in Cells, loop.p + 1 <= c, c < loop.i + 1
          PROVE  Rank(loop.end)' <= Rank(c)'
      <4>1. CASE c = loop.i
        <5>1. loop.p < loop.i /\ Rank(c)' = Rank(loop.p)
          BY <1>5, <2>3, <3>3, <4>1
        <5> QED
          BY <1>1, <1>5, <1>6, <3>1, <5>1 DEF Divided
      <4>2. CASE c # loop.i
        <5>1. loop.p <= c /\ c < loop.i /\ c # loop.p
          BY <1>1, <1>5, <3>3, <4>2
        <5>2. Rank(c)' = Rank(c)
          BY <2>3, <4>2, <5>1
        <5> QED
          BY <1>1, <3>1, <5>1, <5>2 DEF Divided
      <4> QED
        BY <4>1, <4>2
    <3> QED
      BY <2>2, <2>4, <3>2, <3>3 DEF Divided
  <2> QED
    BY <2>2, <2>6, <2>9, <2>10
<1>10. CASE ~(answer <= 0)
  <2>1. heap' = heap /\ task' = [task EXCEPT !.loop = forth]
    BY <1>2, <1>3, <1>10
  <2>2. task'.comparator = task.comparator /\ task'.loop = forth /\ task'.pending = pending
    <3> HIDE DEF swap, forth
    <3> QED
      BY <1>4, <2>1
  <2>3. Cells' = Cells /\ \A c : Rank(c)' = Rank(c)
    BY <2>1, <2>2, SameRanks DEF Cells
  <2>4. \A c : In(forth, c) <=> In(loop, c)
    BY DEF In
  <2>5. Apart(task.loop, task.pending)'
    BY <1>1, <2>2, <2>3, <2>4 DEF Apart
  <2>6. Ordered(task.loop, task.pending)'
    BY <1>1, <2>2, <2>3, <2>4 DEF Ordered, Together
  <2>7. Divided(task.loop)'
    <3>1. Rank(loop.end) <= Rank(loop.i)
      BY <1>6, <1>7, <1>8, <1>10
    <3>2. \A c \in Cells : loop.p <= c /\ c < loop.i + 1 => c = loop.i \/ c < loop.i
      BY <1>1, <1>5
    <3>3. \A c \in Cells : loop.p <= c /\ c < loop.i + 1 => Rank(loop.end) <= Rank(c)
      BY <1>1, <3>1, <3>2 DEF Divided
    <3> QED
      BY <1>1, <2>2, <2>3, <3>3 DEF Divided
  <2> QED
    BY <2>2, <2>5, <2>6, <2>7
<1> QED
  BY <1>9, <1>10

(* partition() returns: the pivot is in its place, and the two ranges on   *)
(* its sides are to be sorted.                                             *)
LEMMA LoopEnds ==
  ASSUME SortRuns, Partition, ~(task.loop.i <= task.loop.end - 1)
  PROVE  /\ task'.comparator = task.comparator /\ task'.loop = NoLoop
         /\ Apart(task.loop, task.pending)'
         /\ Ordered(task.loop, task.pending)'
<1> PICK loop, pending : loop = task.loop /\ pending = task.pending
  OBVIOUS
<1> DEFINE left == [begin |-> loop.begin, end |-> loop.p - 1]
           right == [begin |-> loop.p + 1, end |-> loop.end]
           more == Parts(loop) \o pending
<1>1. /\ HeapOK /\ Length \in Nat /\ Cells = 1 .. Length
      /\ task = [op |-> "sort", comparator |-> task.comparator, loop |-> task.loop,
                 pending |-> task.pending]
      /\ LoopOK(loop, Length) /\ pending \in Seq([begin : Int, end : Int])
      /\ Apart(loop, pending) /\ Ordered(loop, pending) /\ Divided(loop)
  BY CellsOf DEF SortRuns, SortOK, Partition, Partitioning
<1>2. heap' = Swapped(loop.p, loop.end) /\ task' = [task EXCEPT !.loop = NoLoop, !.pending = more]
  BY DEF Partition
<1>3. task'.comparator = task.comparator /\ task'.loop = NoLoop /\ task'.pending = more
  <2> HIDE DEF more
  <2>1. task' = [op |-> "sort", comparator |-> task.comparator, loop |-> NoLoop, pending |-> more]
    BY <1>1, <1>2, SortTask
  <2> QED
    BY <2>1
<1>a. ~(loop.i <= loop.end - 1)
  OBVIOUS
<1>5. /\ loop.begin \in Int /\ loop.end \in Int /\ loop.i \in Int /\ loop.p \in Int
      /\ 1 <= loop.begin /\ loop.begin <= loop.p /\ loop.p <= loop.end /\ loop.i = loop.end
      /\ loop.end <= Length
  BY <1>1, <1>a DEF LoopOK, BASE_ADDR
<1>6. /\ loop.p \in Cells /\ loop.end \in Cells
      /\ In(loop, loop.end) /\ In(loop, loop.p)
  BY <1>1, <1>5 DEF In
<1>7. /\ Len(more) = 2 + Len(pending) /\ Len(pending) \in Nat
      /\ more[1] = left /\ more[2] = right
      /\ \A n \in 1 .. Len(more) : n = 1 \/ n = 2 \/ (n - 2 \in 1 .. Len(pending) /\ more[n] = pending[n - 2])
      /\ \A n \in 1 .. Len(pending) : n + 2 \in 1 .. Len(more) /\ more[n + 2] = pending[n]
  <2>1. left \in [begin : Int, end : Int] /\ right \in [begin : Int, end : Int]
    BY <1>5
  <2>2. Parts(loop) = <<left, right>>
    BY DEF Parts
  <2> HIDE DEF left, right
  <2>3. /\ <<left, right>> \in Seq([begin : Int, end : Int])
        /\ Len(<<left, right>>) = 2 /\ <<left, right>>[1] = left /\ <<left, right>>[2] = right
    BY <2>1
  <2>4. /\ Len(more) = 2 + Len(pending)
        /\ \A n \in 1 .. 2 + Len(pending) :
             more[n] = IF n <= 2 THEN <<left, right>>[n] ELSE pending[n - 2]
    BY <1>1, <2>2, <2>3, ConcatProperties
  <2>5. Len(pending) \in Nat
    BY <1>1, LenProperties
  <2> HIDE DEF more
  <2>6. 1 \in 1 .. 2 + Len(pending) /\ 2 \in 1 .. 2 + Len(pending)
    BY <2>5
  <2>7. more[1] = left /\ more[2] = right
    BY <2>3, <2>4, <2>6
  <2>8. ASSUME NEW n \in 1 .. Len(pending)
        PROVE  n + 2 \in 1 .. Len(more) /\ more[n + 2] = pending[n]
    <3>1. n + 2 \in 1 .. 2 + Len(pending) /\ ~(n + 2 <= 2) /\ n + 2 - 2 = n
      BY <2>5
    <3> QED
      BY <2>4, <3>1
  <2>9. ASSUME NEW n \in 1 .. Len(more), n # 1, n # 2
        PROVE  n - 2 \in 1 .. Len(pending) /\ more[n] = pending[n - 2]
    <3>1. n - 2 \in 1 .. Len(pending) /\ ~(n <= 2) /\ n \in 1 .. 2 + Len(pending)
      BY <2>4, <2>5, <2>9
    <3> QED
      BY <2>4, <3>1
  <2> QED
    BY <2>4, <2>5, <2>7, <2>8, <2>9
<1> HIDE DEF more
<1>8. /\ \A c \in Cells : In(left, c) <=> loop.begin <= c /\ c < loop.p
      /\ \A c \in Cells : In(right, c) <=> loop.p < c /\ c <= loop.end
      /\ \A c \in Cells : In(loop, c) <=> loop.begin <= c /\ c <= loop.end
      /\ \A c \in Cells : ~In(NoLoop, c)
  BY <1>1, <1>5 DEF In, NoLoop
<1> HIDE DEF left, right
<1>9. /\ Length' = Length
      /\ \A c \in Cells :
           Rank(c)' = IF c = loop.end THEN Rank(loop.p)
                      ELSE IF c = loop.p THEN Rank(loop.end) ELSE Rank(c)
  BY <1>1, <1>2, <1>3, <1>6, SwappedRanks
<1>10. Cells' = Cells
  BY <1>9 DEF Cells
<1>11. \A n \in 1 .. Len(more), c \in Cells :
         In(more[n], c) => \A m \in 1 .. Len(more) : In(more[m], c) => m = n
  <2>1. ASSUME NEW c \in Cells, NEW n \in 1 .. Len(more), In(more[n], c)
        PROVE  \/ n = 1 /\ In(loop, c) /\ c < loop.p
               \/ n = 2 /\ In(loop, c) /\ loop.p < c
               \/ /\ n # 1 /\ n # 2 /\ n - 2 \in 1 .. Len(pending)
                  /\ In(pending[n - 2], c) /\ ~In(loop, c)
    <3>1. CASE n = 1
      BY <1>1, <1>5, <1>7, <1>8, <2>1, <3>1
    <3>2. CASE n = 2
      BY <1>1, <1>5, <1>7, <1>8, <2>1, <3>2
    <3>3. CASE n # 1 /\ n # 2
      BY <1>1, <1>7, <2>1, <3>3 DEF Apart
    <3> QED
      BY <3>1, <3>2, <3>3
  <2> SUFFICES ASSUME NEW n \in 1 .. Len(more), NEW c \in Cells, In(more[n], c),
                      NEW m \in 1 .. Len(more), In(more[m], c)
               PROVE  m = n
    OBVIOUS
  <2>2. CASE In(loop, c)
    <3>1. (n = 1 /\ c < loop.p) \/ (n = 2 /\ loop.p < c)
      BY <2>1, <2>2
    <3>2. (m = 1 /\ c < loop.p) \/ (m = 2 /\ loop.p < c)
      BY <2>1, <2>2
    <3>3. ~(c < loop.p /\ loop.p < c)
      BY <1>1, <1>5
    <3> QED
      BY <3>1, <3>2, <3>3
  <2>3. CASE ~In(loop, c)
    <3>1. n - 2 \in 1 .. Len(pending) /\ In(pending[n - 2], c)
      BY <2>1, <2>3
    <3>2. m - 2 \in 1 .. Len(pending) /\ In(pending[m - 2], c)
      BY <2>1, <2>3
    <3>3. m - 2 = n - 2
      BY <1>1, <3>1, <3>2 DEF Apart
    <3> QED
      BY <3>3
  <2> QED
    BY <2>2, <2>3
<1>12. Apart(task.loop, task.pending)'
  BY <1>3, <1>8, <1>10, <1>11 DEF Apart
<1>13. Ordered(task.loop, task.pending)'
  <2> SUFFICES ASSUME NEW x \in Cells, NEW y \in Cells, x < y, ~Together(NoLoop, more, x, y)
               PROVE  Rank(x)' <= Rank(y)'
    BY <1>3, <1>10 DEF Ordered
  <2>1. \A n \in 1 .. Len(pending) : ~(In(pending[n], x) /\ In(pending[n], y))
    BY <1>7 DEF Together
  <2>2. ~(In(left, x) /\ In(left, y)) /\ ~(In(right, x) /\ In(right, y))
    <3>1. 1 \in 1 .. Len(more) /\ 2 \in 1 .. Len(more)
      BY <1>7
    <3> QED
      BY <1>7, <3>1 DEF Together
  <2>3. CASE In(loop, x) /\ In(loop, y)
    <3>1. x <= loop.p /\ loop.p <= y
      BY <1>1, <1>5, <1>8, <2>2, <2>3
    <3>2. Rank(loop.p)' = Rank(loop.end)
      BY <1>6, <1>9
    <3>a. \A c \in Cells : Rank(c) \in Int
      BY <1>1, RanksAreNumbers
    <3>3. Rank(x)' <= Rank(loop.end)
      <4>1. CASE x = loop.p
        BY <1>6, <3>2, <3>a, <4>1
      <4>2. CASE x # loop.p
        <5>1. x < loop.p /\ x # loop.end /\ loop.begin <= x
          BY <1>1, <1>5, <1>8, <2>3, <3>1, <4>2
        <5>2. Rank(x)' = Rank(x)
          BY <1>9, <4>2, <5>1
        <5> QED
          BY <1>1, <5>1, <5>2 DEF Divided
      <4> QED
        BY <4>1, <4>2
    <3>4. Rank(loop.end) <= Rank(y)'
      <4>1. CASE y = loop.p
        BY <1>6, <3>2, <3>a, <4>1
      <4>2. CASE y # loop.p /\ y = loop.end
        <5>1. loop.p < loop.i /\ Rank(y)' = Rank(loop.p)
          BY <1>5, <1>9, <3>1, <4>2
        <5>2. loop.p <= loop.p
          BY <1>5
        <5>3. Rank(loop.end) <= Rank(loop.p)
          BY <1>1, <1>6, <5>1, <5>2 DEF Divided
        <5> QED
          BY <5>1, <5>3
      <4>3. CASE y # loop.p /\ y # loop.end
        <5>1. loop.p <= y /\ y < loop.i
          BY <1>1, <1>5, <1>8, <2>3, <3>1, <4>3
        <5>2. Rank(y)' = Rank(y)
          BY <1>9, <4>3
        <5> QED
          BY <1>1, <5>1, <5>2 DEF Divided
      <4> QED
        BY <4>1, <4>2, <4>3
    <3>5. Rank(x)' \in Int /\ Rank(y)' \in Int /\ Rank(loop.end) \in Int
      BY <1>6, <1>9, <3>a
    <3> QED
      BY <3>3, <3>4, <3>5
  <2>4. CASE ~(In(loop, x) /\ In(loop, y))
    <3>1. ~Together(loop, pending, x, y)
      BY <2>1, <2>4 DEF Together
    <3>2. \A v, w \in Cells : In(loop, v) /\ Together(loop, pending, v, w) => In(loop, w)
      BY <1>1 DEF Together, Apart
    <3>3. \A v, w \in Cells :
            v < w /\ ~Together(loop, pending, v, w) /\ ~(In(loop, v) /\ In(loop, w))
              => Rank(v)' <= Rank(w)'
      BY <1>1, <1>2, <1>3, <1>5, <1>6, <3>2, SwapInRange
    <3> QED
      BY <2>4, <3>1, <3>3
  <2> QED
    BY <2>3, <2>4
<1> QED
  BY <1>3, <1>12, <1>13

(* A script changes the array that it sorts, other calls find it at rest.  *)
LEMMA SortNext == ArrayInvariant /\ SortInvariant /\ [Next]_vars => SortInvariant'
<1> SUFFICES ASSUME ArrayInvariant, SortInvariant, [Next]_vars,
                    task'.op = "sort", task'.comparator # "script"
             PROVE  /\ task'.comparator \in Comparators
                    /\ Apart(task.loop, task.pending)'
                    /\ task'.loop # NoLoop => Divided(task.loop)'
                    /\ Ordered(task.loop, task.pending)'
  BY DEF SortInvariant
<1>1. CASE UNCHANGED vars
  <2>1. UNCHANGED <<heap, task>>
    BY <1>1 DEF vars
  <2>2. Cells' = Cells /\ \A c : Rank(c)' = Rank(c)
    BY <2>1 DEF Cells, Length, Rank
  <2> QED
    BY <2>1, <2>2 DEF SortInvariant, Apart, Divided, Ordered
<1>2. CASE \E comparator \in Comparators : Sort(comparator)
  <2>1. PICK comparator \in Comparators : Sort(comparator)
    BY <1>2
  <2> DEFINE all == [begin |-> BASE_ADDR, end |-> BASE_ADDR + Length - 1]
  <2>2. /\ HeapOK /\ UNCHANGED heap /\ Length \in Nat /\ Cells = 1 .. Length
        /\ task' = [op |-> "sort", comparator |-> comparator, loop |-> NoLoop,
                    pending |-> <<all>>]
    BY <2>1, CellsOf DEF Sort, ArrayInvariant
  <2>3. Cells' = Cells
    BY <2>2 DEF Cells, Length
  <2>4. \A c \in Cells : ~In(NoLoop, c) /\ In(all, c)
    BY <2>2 DEF In, NoLoop, BASE_ADDR
  <2> HIDE DEF all
  <2>5. /\ task'.comparator = comparator /\ task'.loop = NoLoop /\ task'.pending = <<all>>
        /\ Len(<<all>>) = 1 /\ <<all>>[1] = all
    BY <2>2
  <2>6. \A n \in 1 .. Len(<<all>>) : n = 1
    BY <2>5
  <2>7. 1 \in 1 .. Len(<<all>>)
    BY <2>5
  <2>8. Apart(task.loop, task.pending)'
    BY <2>3, <2>4, <2>5, <2>6 DEF Apart
  <2>9. \A x, y \in Cells : Together(NoLoop, <<all>>, x, y)
    BY <2>4, <2>5, <2>7 DEF Together
  <2>10. Ordered(task.loop, task.pending)'
    BY <2>3, <2>5, <2>9 DEF Ordered
  <2> QED
    BY <2>5, <2>8, <2>10
<1>3. CASE QuickSort \/ Partition
  <2>1. task.op = "sort" /\ task'.comparator = task.comparator
    BY <1>3, MovesKeepKind DEF SortStep
  <2>2. SortRuns /\ task'.comparator \in Comparators
    BY <2>1 DEF SortInvariant, SortRuns, ArrayInvariant, TaskOK, Comparators
  <2>3. CASE QuickSort
    BY <2>2, <2>3, QuickSortOrders
  <2>4. CASE Partition /\ task.loop.i <= task.loop.end - 1
    BY <2>2, <2>4, LoopRuns
  <2>5. CASE Partition /\ ~(task.loop.i <= task.loop.end - 1)
    BY <2>2, <2>5, LoopEnds
  <2> QED
    BY <1>3, <2>3, <2>4, <2>5
<1>4. CASE GetLength \/ Pop \/ Shift \/ Clear \/ Reverse \/ Iterator \/ ItNext
           \/ (\E i \in -1 .. Length + Gap : Get(i))
           \/ (\E v \in Elements : IndexOf(v) \/ Push(v) \/ Unshift(v))
  <2>1. task' = task /\ Call
    BY <1>4 DEF GetLength, Pop, Shift, Clear, Reverse, Iterator, ItNext, Get, IndexOf,
                Push, Unshift
  <2> QED
    BY <2>1, Kinds
<1>5. CASE (\E v \in Elements : ScriptPush(v)) \/ (\E c \in Cells, v \in Elements : ScriptStore(c, v))
  <2>1. task' = task /\ task.comparator = "script"
    BY <1>5 DEF ScriptPush, ScriptStore, Comparing
  <2> QED
    BY <2>1
<1>6. CASE (ShuffleStep \/ SortStep) /\ ~(QuickSort \/ Partition)
  BY <1>6, MovesKeepKind
<1>7. CASE SetGrow \/ SetStore \/ Shuffle
           \/ (\E i \in -1 .. Length + Gap, v \in Elements : Set(i, v))
  <2>1. CASE SetStore
    BY <2>1, Kinds DEF SetStore
  <2>2. CASE SetGrow
    BY <2>2 DEF SetGrow
  <2>3. CASE Shuffle
    BY <2>3 DEF Shuffle
  <2>4. ASSUME NEW i \in -1 .. Length + Gap, NEW v \in Elements, Set(i, v) PROVE task'.op # "sort"
    <3>1. Call /\ (UNCHANGED task \/ task' = [op |-> "set", index |-> i, value |-> v, length |-> Length])
      BY <2>4 DEF Set
    <3> QED
      BY <3>1, Kinds
  <2> QED
    BY <1>7, <2>1, <2>2, <2>3, <2>4
<1> QED
  BY <1>1, <1>2, <1>3, <1>4, <1>5, <1>6, <1>7 DEF Next, SortStep

(* SortsTheArray, for what it says of the elements: when a sort is done    *)
(* the array is in order, if its comparator is consistent (fun_sort(),     *)
(* quicksort() and partition()).  The ranges yet to be sorted have no cell *)
(* in common, and two cells that are not in the same one are in order; at  *)
(* the end there is no range.                                              *)
THEOREM SortedWhenDone ==
  Spec => [](Done /\ task.comparator # "script" => InOrder(task.comparator))
<1>1. Init => SortInvariant
  BY DEF Init, SortInvariant, Idle
<1>2. ASSUME ArrayInvariant, SortInvariant, Done, task.comparator # "script"
      PROVE  InOrder(task.comparator)
  <2>1. /\ HeapOK /\ Length \in Nat /\ Cells = 1 .. Length
        /\ task.comparator \in {"default", "reverse"}
        /\ task.loop = NoLoop /\ task.pending = << >>
        /\ Ordered(NoLoop, << >>)
    BY <1>2, CellsOf DEF ArrayInvariant, SortInvariant, Done, Sorting, Comparators
  <2>2. \A c \in Cells : ~In(NoLoop, c)
    BY <2>1 DEF In, NoLoop
  <2>3. \A a, b \in Cells : ~Together(NoLoop, << >>, a, b)
    BY <2>2 DEF Together
  <2> SUFFICES ASSUME NEW a \in Cells, NEW b \in Cells, a < b
               PROVE  IF task.comparator = "default"
                        THEN compare(heap.mem[a], heap.mem[b]) <= 0
                        ELSE compare(heap.mem[a], heap.mem[b]) >= 0
    BY DEF InOrder
  <2>4. Rank(a) <= Rank(b)
    BY <2>1, <2>3 DEF Ordered
  <2>5. Order(heap.mem[a]) \in Int /\ Order(heap.mem[b]) \in Int
    BY <2>1, OrdersAreNumbers
  <2> DEFINE x == Order(heap.mem[a])
             y == Order(heap.mem[b])
  <2>6. compare(heap.mem[a], heap.mem[b]) = x - y
    BY DEF compare
  <2>7. IF task.comparator = "default" THEN x <= y ELSE 0 - x <= 0 - y
    BY <2>4 DEF Rank
  <2>8. x \in Int /\ y \in Int
    BY <2>5
  <2> HIDE DEF x, y
  <2> QED
    BY <2>6, <2>7, <2>8
<1> QED
  BY <1>1, <1>2, InitKeeps, NextKeeps, SortNext, PTL DEF Spec
==============================================================================
