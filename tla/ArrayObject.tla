------------------------------ MODULE ArrayObject ------------------------------
(***************************************************************************)
(* The arrays of SurgeScript and their iterators (sslib/array.c), on top   *)
(* of the heap of their object.  A call that runs the code of a script, or *)
(* that has a loop worth following, is made of several steps: setting an   *)
(* element beyond the end, sorting and shuffling.                          *)
(*                                                                         *)
(* The values are numbers and null, which is compared as if it were less   *)
(* than any number.  A comparator may be a script: then it answers what it *)
(* likes, and may change the array that is being sorted; that it does not  *)
(* make it shorter is assumed.                                             *)
(***************************************************************************)
EXTENDS Heap, Sequences

CONSTANTS
  Values,   \* numbers: the values other than null
  This,     \* a reference to the array, as a result
  Gap       \* an index may exceed the length by less than this (1024)

ASSUME ArrayAssumption ==
  /\ Values \subseteq Nat \ {0}
  /\ Null \notin Int /\ Free \notin Int
  /\ Gap \in Nat \ {0}

VARIABLES
  heap,      \* the heap of the array
  task,      \* what is left to do of the call that is running
  iterator,  \* the heap of its iterator, the one that was made last
  result,    \* what the last call returned
  fatal      \* why the program was stopped, if it was

vars == <<heap, task, iterator, result, fatal>>

Elements == Values \cup {Null}

LENGTH_ADDR == 0
BASE_ADDR == 1

Idle == [op |-> "none"]
Range0 == [begin |-> 0, end |-> 0]

(* ARRAY_LENGTH                                                            *)
Length == heap.mem[LENGTH_ADDR]

Cells == BASE_ADDR .. Length
At(i) == heap.mem[BASE_ADDR + i]

(* A call is made, on an array at rest, by a program that is running.      *)
Call == task = Idle /\ fatal = "no"

Returns(x) == result' = x

(* fun_constructor().                                                      *)
Init ==
  /\ heap = [malloc(NewHeap) EXCEPT !.mem[LENGTH_ADDR] = 0]
  /\ task = Idle
  /\ iterator = [length |-> 0, counter |-> 0]
  /\ result = Null
  /\ fatal = "no"

-----------------------------------------------------------------------------
(* fun_getlength(), fun_get(), fun_indexof().                              *)

GetLength == Call /\ Returns(Length) /\ UNCHANGED <<heap, task, iterator, fatal>>

Get(i) ==
  /\ Call
  /\ Returns(IF i >= 0 /\ i < Length THEN At(i) ELSE Null)
  /\ UNCHANGED <<heap, task, iterator, fatal>>

IndexOf(v) ==
  LET matches == {i \in 0 .. Length - 1 : At(i) = v}
  IN /\ Call
     /\ Returns(IF matches = {} THEN -1
                ELSE CHOOSE i \in matches : \A j \in matches : i <= j)
     /\ UNCHANGED <<heap, task, iterator, fatal>>

-----------------------------------------------------------------------------
(* One more cell, which is asserted to come after the last element.        *)

Longer(v) ==
  LET h == malloc(heap)
  IN [h EXCEPT !.mem = [@ EXCEPT ![h.ptr] = v, ![LENGTH_ADDR] = Length + 1]]

Extend(cells) ==
  IF Exhausted(heap)
    THEN fatal' = "heap" /\ UNCHANGED heap
    ELSE /\ heap' = cells
         /\ fatal' = IF heap'.ptr = BASE_ADDR + Length THEN fatal ELSE "assert"

(* fun_push().                                                             *)
Push(v) ==
  /\ Call
  /\ Extend(Longer(v))
  /\ Returns(Null)
  /\ UNCHANGED <<task, iterator>>

(* A deviation: the elements are moved from the first to the last.         *)
UnshiftUpwards(v) ==
  LET h == Longer(Null)
  IN /\ Call
     /\ Extend([h EXCEPT !.mem = [c \in DOMAIN h.mem |->
          IF c = BASE_ADDR THEN v
          ELSE IF c - 1 \in Cells THEN heap.mem[BASE_ADDR] ELSE h.mem[c]]])
     /\ Returns(Null)
     /\ UNCHANGED <<task, iterator>>

(* fun_unshift().                                                          *)
Unshift(v) ==
  LET h == Longer(Null)
  IN /\ Call
     /\ Extend([h EXCEPT !.mem = [c \in DOMAIN h.mem |->
          IF c = BASE_ADDR THEN v ELSE IF c - 1 \in Cells THEN h.mem[c - 1] ELSE h.mem[c]]])
     /\ Returns(Null)
     /\ UNCHANGED <<task, iterator>>

(* fun_set(): the index is checked...                                      *)
Set(i, v) ==
  /\ Call
  /\ IF i < 0 \/ i >= Length + Gap
       THEN fatal' = "index" /\ UNCHANGED task
       ELSE /\ task' = [op |-> "set", index |-> i, value |-> v, length |-> Length]
            /\ UNCHANGED fatal
  /\ UNCHANGED <<heap, iterator, result>>

(* ... cells are allocated as long as there is none for it...              *)
SetGrow ==
  /\ fatal = "no" /\ task.op = "set"
  /\ task.index >= Length
  /\ Extend(Longer(Null))
  /\ UNCHANGED <<task, iterator, result>>

(* ... and the value is stored.                                            *)
SetStore ==
  /\ fatal = "no" /\ task.op = "set"
  /\ task.index < Length
  /\ heap' = [heap EXCEPT !.mem[BASE_ADDR + task.index] = task.value]
  /\ task' = Idle
  /\ Returns(Null)
  /\ UNCHANGED <<iterator, fatal>>

-----------------------------------------------------------------------------

(* A deviation: the cell is kept.                                          *)
ShorterOnly(h) == [h EXCEPT !.mem[LENGTH_ADDR] = Length - 1]

(* The last cell is freed.                                                 *)
Shorter(h) == free([h EXCEPT !.mem[LENGTH_ADDR] = Length - 1], BASE_ADDR + (Length - 1))

(* fun_pop().                                                              *)
Pop ==
  /\ Call
  /\ IF Length > 0
       THEN Returns(At(Length - 1)) /\ heap' = Shorter(heap)
       ELSE Returns(Null) /\ UNCHANGED heap
  /\ UNCHANGED <<task, iterator, fatal>>

(* fun_shift().                                                            *)
Shift ==
  /\ Call
  /\ IF Length > 0
       THEN /\ Returns(At(0))
            /\ heap' = Shorter([heap EXCEPT !.mem = [c \in DOMAIN heap.mem |->
                 IF c \in Cells /\ c + 1 \in Cells THEN heap.mem[c + 1] ELSE heap.mem[c]]])
       ELSE Returns(Null) /\ UNCHANGED heap
  /\ UNCHANGED <<task, iterator, fatal>>

(* fun_clear(): cells are freed from the last one to the first.            *)
Clear ==
  /\ Call
  /\ heap' = IF Length > 0
               THEN [heap EXCEPT !.mem = [c \in DOMAIN heap.mem |->
                       IF c \in Cells THEN Free ELSE IF c = LENGTH_ADDR THEN 0 ELSE heap.mem[c]],
                     !.ptr = BASE_ADDR]
               ELSE heap
  /\ Returns(Null)
  /\ UNCHANGED <<task, iterator, fatal>>

(* fun_reverse().                                                          *)
Reverse ==
  /\ Call
  /\ heap' = [heap EXCEPT !.mem = [c \in DOMAIN heap.mem |->
       IF c \in Cells THEN heap.mem[Length + BASE_ADDR - c] ELSE heap.mem[c]]]
  /\ Returns(This)
  /\ UNCHANGED <<task, iterator, fatal>>

-----------------------------------------------------------------------------

(* surgescript_var_swap().                                                 *)
Swapped(a, b) == [heap EXCEPT !.mem = [@ EXCEPT ![a] = heap.mem[b], ![b] = heap.mem[a]]]

(* fun_shuffle(): from the last element to the first.                      *)
Shuffle ==
  /\ Call
  /\ task' = [op |-> "shuffle", i |-> Length]
  /\ UNCHANGED <<heap, iterator, result, fatal>>

ShuffleStep ==
  /\ fatal = "no" /\ task.op = "shuffle"
  /\ IF task.i > 0
       THEN /\ \E j \in 0 .. task.i - 1 : heap' = Swapped(BASE_ADDR + (task.i - 1), BASE_ADDR + j)
            /\ task' = [task EXCEPT !.i = task.i - 1]
            /\ UNCHANGED result
       ELSE task' = Idle /\ Returns(This) /\ UNCHANGED heap
  /\ UNCHANGED <<iterator, fatal>>

-----------------------------------------------------------------------------
(* Sorting.  A task has the comparator, the calls of quicksort() that have *)
(* not begun, as a stack of ranges of cells, and the loop of partition()   *)
(* that is running, if there is one.                                       *)

Comparators == {"default", "reverse", "script"}

NoLoop == [begin |-> 0, end |-> 0, i |-> 0, p |-> 0]

Order(v) == IF v = Null THEN 0 ELSE v

(* surgescript_var_compare(): it answers an integer.                       *)
compare(v, w) == Order(v) - Order(w)

(* What a comparator can answer: default_sort_function() or a script that  *)
(* reverses its order, or one that does as it likes: custom_sort_function().*)
Answers(comparator, v, w) ==
  CASE comparator = "default" -> {compare(v, w)}
    [] comparator = "reverse" -> {compare(w, v)}
    [] comparator = "script"  -> {-1, 0, 1}

(* med3(), of three cells.                                                 *)
med3(a, b, c) ==
  LET v == heap.mem[a]
      w == heap.mem[b]
      x == heap.mem[c]
  IN IF compare(v, w) >= 0 /\ compare(v, x) >= 0 THEN IF compare(w, x) >= 0 THEN b ELSE c
     ELSE IF compare(v, w) <= 0 /\ compare(w, x) >= 0 THEN IF compare(v, x) >= 0 THEN a ELSE c
     ELSE IF compare(v, w) >= 0 THEN a ELSE b

(* fun_sort().                                                             *)
Sort(comparator) ==
  /\ Call
  /\ task' = [op |-> "sort", comparator |-> comparator, loop |-> NoLoop,
              pending |-> <<[begin |-> BASE_ADDR, end |-> BASE_ADDR + Length - 1]>>]
  /\ UNCHANGED <<heap, iterator, result, fatal>>

Sorting == fatal = "no" /\ task.op = "sort"
Partitioning == Sorting /\ task.loop # NoLoop
Done == Sorting /\ task.loop = NoLoop /\ task.pending = << >>

(* quicksort() begins: a range of several cells is given to partition(),   *)
(* which puts the pivot at its end.                                        *)
QuickSort ==
  /\ Sorting /\ ~Partitioning /\ ~Done
  /\ LET range == Head(task.pending)
         middle == range.begin + (range.end - range.begin) \div 2
     IN IF range.begin < range.end
          THEN /\ heap' = Swapped(range.end, med3(range.begin, middle, range.end))
               /\ task' = [task EXCEPT !.loop = [begin |-> range.begin, end |-> range.end,
                                                 i |-> range.begin, p |-> range.begin],
                                       !.pending = Tail(@)]
          ELSE task' = [task EXCEPT !.pending = Tail(@)] /\ UNCHANGED heap
  /\ UNCHANGED <<iterator, result, fatal>>

(* A deviation: the left part lacks its last cell.                         *)
LeftTooShort(loop) ==
  <<[begin |-> loop.begin, end |-> loop.p - 2], [begin |-> loop.p + 1, end |-> loop.end]>>

(* The two calls of quicksort() on both sides of the pivot.                *)
Parts(loop) ==
  <<[begin |-> loop.begin, end |-> loop.p - 1], [begin |-> loop.p + 1, end |-> loop.end]>>

(* The loop of partition(): elements up to the pivot are moved before p.   *)
Partition ==
  /\ Partitioning
  /\ LET loop == task.loop
     IN IF loop.i <= loop.end - 1
          THEN \E answer \in Answers(task.comparator, heap.mem[loop.i], heap.mem[loop.end]) :
                 IF answer <= 0
                   THEN /\ heap' = Swapped(loop.i, loop.p)
                        /\ task' = [task EXCEPT !.loop.i = @ + 1, !.loop.p = @ + 1]
                   ELSE task' = [task EXCEPT !.loop.i = @ + 1] /\ UNCHANGED heap
          ELSE /\ heap' = Swapped(loop.p, loop.end)
               /\ task' = [task EXCEPT !.loop = NoLoop, !.pending = Parts(loop) \o @]
  /\ UNCHANGED <<iterator, result, fatal>>

SortReturns ==
  /\ Done
  /\ task' = Idle
  /\ Returns(This)
  /\ UNCHANGED <<heap, iterator, fatal>>

SortStep == QuickSort \/ Partition \/ SortReturns

(* While it compares, a script changes the array: it adds an element, or   *)
(* stores a value in one.                                                  *)
Comparing == Partitioning /\ task.comparator = "script" /\ task.loop.i < task.loop.end

ScriptPush(v) ==
  /\ Comparing
  /\ Extend(Longer(v))
  /\ Returns(Null)
  /\ UNCHANGED <<task, iterator>>

ScriptStore(c, v) ==
  /\ Comparing
  /\ heap' = [heap EXCEPT !.mem[c] = v]
  /\ Returns(Null)
  /\ UNCHANGED <<task, iterator, fatal>>

-----------------------------------------------------------------------------
(* The iterator.                                                           *)

(* fun_iterator(), fun_it_constructor().                                   *)
Iterator ==
  /\ Call
  /\ iterator' = [length |-> Length, counter |-> 0]
  /\ UNCHANGED <<heap, task, result, fatal>>

(* fun_it_hasnext().                                                       *)
ItHasNext == iterator.counter < iterator.length

(* A deviation: the length of the array is looked up, not remembered.      *)
ItNextBeyond ==
  /\ Call /\ iterator.counter <= iterator.length
  /\ IF BASE_ADDR + iterator.counter \in Used(heap)
       THEN /\ iterator' = [iterator EXCEPT !.counter = @ + 1]
            /\ Returns(At(iterator.counter)) /\ UNCHANGED fatal
       ELSE fatal' = "cell" /\ UNCHANGED <<iterator, result>>
  /\ UNCHANGED <<heap, task>>

(* fun_it_next(): a cell that the array has freed is fatal.                *)
ItNext ==
  /\ Call
  /\ IF ~ItHasNext THEN Returns(Null) /\ UNCHANGED <<iterator, fatal>>
     ELSE IF BASE_ADDR + iterator.counter \in Used(heap)
       THEN /\ iterator' = [iterator EXCEPT !.counter = @ + 1]
            /\ Returns(At(iterator.counter)) /\ UNCHANGED fatal
     ELSE fatal' = "cell" /\ UNCHANGED <<iterator, result>>
  /\ UNCHANGED <<heap, task>>

Next ==
  \/ GetLength \/ Pop \/ Shift \/ Clear \/ Reverse \/ Shuffle \/ Iterator \/ ItNext
  \/ \E i \in -1 .. Length + Gap : Get(i)
  \/ \E v \in Elements : IndexOf(v) \/ Push(v) \/ Unshift(v) \/ ScriptPush(v)
  \/ \E i \in -1 .. Length + Gap, v \in Elements : Set(i, v)
  \/ \E comparator \in Comparators : Sort(comparator)
  \/ \E c \in Cells, v \in Elements : ScriptStore(c, v)
  \/ SetGrow \/ SetStore \/ ShuffleStep \/ SortStep

(* A call that is running goes on: a comparator answers.                   *)
Spec == Init /\ [][Next]_vars /\ WF_vars(SortStep)

-----------------------------------------------------------------------------

(* "since we don't ever free() anything from the heap (except the last     *)
(* cell), memory cells are allocated contiguously" (array.c:120): those of *)
(* the length and of the elements are in use and no other ones, and the    *)
(* next one to be allocated is the one after them.  The assertions of      *)
(* push(), unshift() and set() never fail.                                 *)
Contiguous ==
  /\ Used(heap) = LENGTH_ADDR .. Length
  /\ heap.ptr <= Length + 1
  /\ fatal # "assert"

InOrder(comparator) ==
  \A a, b \in Cells : a < b =>
    IF comparator = "default" THEN compare(heap.mem[a], heap.mem[b]) <= 0
                              ELSE compare(heap.mem[a], heap.mem[b]) >= 0

(* When a sort is done the array is in order, if the comparator is         *)
(* consistent; and whatever the comparator answers and changes, every sort *)
(* comes to an end.                                                        *)
SortsTheArray ==
  /\ [](Done /\ task.comparator # "script" => InOrder(task.comparator))
  /\ []<>~Sorting
===============================================================================
