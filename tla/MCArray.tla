-------------------------------- MODULE MCArray --------------------------------
(* An array and, as a history, what its iterator was to visit and did.     *)
EXTENDS ArrayObject

VARIABLES
  expected,  \* the elements there were when the iterator was made
  visited    \* those that it returned since, << >> once it was disturbed

history == <<expected, visited>>

(* The list of elements; a set() that is running has not happened yet.     *)
list ==
  [i \in 1 .. (IF task.op = "set" THEN task.length ELSE Length) |-> heap.mem[i]]

(* One of those is no longer in its place.                                 *)
Disturbs == \E i \in 1 .. Len(expected) : i > Len(list') \/ list'[i] # expected[i]

Observe == IF Disturbs THEN expected' = << >> /\ visited' = << >> ELSE UNCHANGED history

(* A bound of the model: while there is an iterator the only calls are     *)
(* those that return an element or nothing; one that is made of several    *)
(* steps begins only if there is none and the last call returned null.     *)
Bound ==
  /\ iterator.length > 0 => result' \in Elements
  /\ task = Idle /\ task' # Idle => iterator.length = 0 /\ result = Null

MCInit == Init /\ expected = << >> /\ visited = << >>

MCNext ==
  \/ Iterator /\ expected' = list /\ visited' = << >>
  \/ Next /\ Bound /\ UNCHANGED iterator /\ Observe
  \/ /\ ItNext /\ iterator' # iterator
     /\ UNCHANGED expected
     /\ visited' = IF expected = << >> THEN visited ELSE Append(visited, result')

MCSpec == MCInit /\ [][MCNext]_<<vars, history>> /\ WF_<<vars, history>>(SortStep /\ Observe)

(* As long as what it is to visit is still there, an iterator visits the   *)
(* elements that there were when it was made, in order and each of them    *)
(* once, whatever was added to the array since, and it never stops the     *)
(* program.                                                                *)
VisitsElements ==
  expected # << >> =>
    /\ visited = SubSeq(expected, 1, iterator.counter)
    /\ iterator.length = Len(expected)
    /\ fatal # "cell"

Abstract == INSTANCE List

(* An array is a list.                                                     *)
IsList == Abstract!Spec
================================================================================
