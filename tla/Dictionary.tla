------------------------------ MODULE Dictionary ------------------------------
(***************************************************************************)
(* A dictionary of SurgeScript (sslib/dictionary.c): a binary search tree  *)
(* whose nodes are objects.  A node is spawned on the node it is inserted  *)
(* under, so there are two trees over the same objects: the search tree,   *)
(* made of the references left and right in the heaps of the nodes, and    *)
(* the tree of objects, which decides on what is destroyed together.  A    *)
(* removal reorders the first of them only.                                *)
(*                                                                         *)
(* Keys are strings, which are compared with strcmp(): here numbers.  The  *)
(* handles of nodes that are gone are not given to others.                 *)
(***************************************************************************)
EXTENDS Integers, Sequences, SequencesExt

CONSTANTS
  Keys, Values,
  None,       \* no value
  MaxNodes    \* bound of the model: nodes that are ever spawned

ASSUME DictionaryAssumption ==
  Keys \subseteq Int /\ None \notin Values /\ MaxNodes \in Nat

Null  == 0
Nodes == 1 .. MaxNodes

VARIABLES
  root,       \* DICT_BSTROOT
  heap,       \* the heap of each node: BST_KEY, BST_VALUE, BST_LEFT, BST_RIGHT
  spawned,    \* the number of nodes spawned so far
  parent,     \* the node it was spawned on; Null stands for the dictionary
  live,       \* the nodes that exist
  killed,     \* those that were killed
  cells,      \* the iterator: its heap, from IT_STACKBASE on
  size,       \* IT_STACKSIZE: how many of them are in use
  yielded,    \* history: the nodes that the iterator has returned
  expected,   \* history: the nodes of the search tree when it was spawned
  disturbed   \* history: has anything been removed since?

treeVars == <<root, heap, spawned, parent, live, killed>>
iteratorVars == <<cells, size, yielded, expected, disturbed>>
vars == <<treeVars, iteratorVars>>

(* The nodes that the iterator has yet to visit.                           *)
Stack == SubSeq(cells, 1, size)

(* The node that the iterator shows its user: ENTRY_BSTREF.                *)
Entry == IF yielded = << >> THEN {} ELSE {Last(yielded)}

(* Something is removed: what an iterator visits now is not specified, and *)
(* no more than the last node it returned is kept of its history.          *)
Disturb ==
  /\ disturbed' = TRUE
  /\ expected' = {}
  /\ yielded' = IF yielded = << >> THEN << >> ELSE <<Last(yielded)>>
  /\ UNCHANGED <<cells, size>>

Init ==
  /\ root = Null
  /\ heap = << >> /\ parent = << >>
  /\ spawned = 0
  /\ live = {} /\ killed = {}
  /\ cells = << >> /\ size = 0 /\ yielded = << >> /\ expected = {} /\ disturbed = FALSE

-----------------------------------------------------------------------------

(* Where fun_bst_find(), fun_bst_insert() and bst_remove() go from n.      *)
Child(n, k) == IF k < heap[n].key THEN heap[n].left ELSE heap[n].right

(* Where one ends that goes from n to next[n] as long as there is such a   *)
(* node: the loops and the recursions of the code that go one way.         *)
End(next, n) ==
  LET end[m \in live] == IF next[m] \in live THEN end[next[m]] ELSE m
  IN end[n]

(* The node where the search for k ends: the one that has it, or the one   *)
(* under which it would be inserted.                                       *)
Search(k) == [n \in live |-> IF heap[n].key = k THEN Null ELSE Child(n, k)]
Bottom(k) == End(Search(k), root)

(* fun_has() and fun_get().                                                *)
Has(k) == root \in live /\ heap[Bottom(k)].key = k
Get(k) ==
  LET n == Bottom(k)
  IN IF root \in live /\ heap[n].key = k THEN heap[n].value ELSE None

(* new_bst_node(), on the node p; the heap of the others is as given.      *)
NewNode(p, k, v, others) ==
  /\ spawned < MaxNodes
  /\ spawned' = spawned + 1
  /\ live' = live \cup {spawned'}
  /\ parent' = Append(parent, p)
  /\ heap' = Append(others, [key |-> k, value |-> v, left |-> Null, right |-> Null])
  /\ UNCHANGED killed

(* fun_set(), fun_bst_insert().                                            *)
Set(k, v) ==
  /\ IF root \notin live
       THEN NewNode(Null, k, v, heap) /\ root' = spawned'
       ELSE LET n == Bottom(k)
            IN \/ /\ k = heap[n].key
                  /\ heap' = [heap EXCEPT ![n].value = v]
                  /\ UNCHANGED <<root, spawned, parent, live, killed>>
               \/ /\ k < heap[n].key
                  /\ NewNode(n, k, v, [heap EXCEPT ![n].left = spawned + 1])
                  /\ UNCHANGED root
               \/ /\ k > heap[n].key
                  /\ NewNode(n, k, v, [heap EXCEPT ![n].right = spawned + 1])
                  /\ UNCHANGED root
  /\ UNCHANGED iteratorVars

(* The way from n a step to the left and then always to the right, its     *)
(* last node, and the one before it.                                       *)
Way(n) == [m \in live |-> IF m = n THEN heap[n].left ELSE heap[m].right]
Rightmost(n) == End(Way(n), n)
AboveRightmost(n) ==
  End([m \in live |-> IF Way(n)[m] \in live /\ Way(n)[Way(n)[m]] \in live
                         THEN Way(n)[m] ELSE Null], n)

(* bst_removeroot(): the node that takes the place of n...                 *)
NewRoot(n) == IF heap[n].left \in live THEN Rightmost(n) ELSE heap[n].right

(* A deviation: what is to the left of the node that moves is let go.      *)
MovedForgetsLeft(n) ==
  LET c == Rightmost(n)
      p == AboveRightmost(n)
  IN IF heap[n].left \notin live THEN heap
     ELSE IF p = n THEN [heap EXCEPT ![c].right = heap[n].right]
     ELSE [heap EXCEPT ![p].right = Null,
                       ![c].left  = heap[n].left,
                       ![c].right = heap[n].right]

(* A deviation: the node that moves is given the children in wrong order.  *)
MovedSwapsChildren(n) ==
  LET c == Rightmost(n)
      p == AboveRightmost(n)
  IN IF heap[n].left \notin live THEN heap
     ELSE IF p = n THEN [heap EXCEPT ![c].right = heap[n].right]
     ELSE [heap EXCEPT ![p].right = heap[c].left,
                       ![c].left  = heap[n].right,
                       ![c].right = heap[n].left]

(* ... and the references afterwards.                                      *)
Moved(n) ==
  LET c == Rightmost(n)
      p == AboveRightmost(n)
  IN IF heap[n].left \notin live THEN heap
     ELSE IF p = n THEN [heap EXCEPT ![c].right = heap[n].right]
     ELSE [heap EXCEPT ![p].right = heap[c].left,
                       ![c].left  = heap[n].left,
                       ![c].right = heap[n].right]

(* The node of the search tree that refers to n, the node of the key k.    *)
Above(n, k) ==
  End([m \in live |-> IF Child(m, k) = n THEN Null ELSE Child(m, k)], root)

(* fun_delete(), bst_remove().  The node is killed: that it is gone, with  *)
(* all that was spawned below it, will be seen later.                      *)
Delete(k) ==
  /\ Has(k)
  /\ LET n == Bottom(k)
         a == Above(n, k)
     IN /\ killed' = killed \cup {n}
        /\ IF n = root
             THEN root' = NewRoot(n) /\ heap' = Moved(n)
             ELSE /\ UNCHANGED root
                  /\ heap' = IF k < heap[a].key
                               THEN [Moved(n) EXCEPT ![a].left = NewRoot(n)]
                               ELSE [Moved(n) EXCEPT ![a].right = NewRoot(n)]
  /\ Disturb
  /\ UNCHANGED <<spawned, parent, live>>

(* fun_clear().                                                            *)
Clear ==
  /\ root # Null
  /\ root' = Null
  /\ killed' = killed \cup ({root} \cap live)
  /\ Disturb
  /\ UNCHANGED <<heap, spawned, parent, live>>

-----------------------------------------------------------------------------

(* The nodes of S and those that were spawned on such nodes, directly or   *)
(* not: they are destroyed together.                                       *)
Below(S) ==
  {n \in live : End([m \in live |-> IF m \in S THEN Null ELSE parent[m]], n) \in S}

Freed == [key |-> None, value |-> None, left |-> Null, right |-> Null]

(* surgescript_object_destroy() on the node n.                             *)
Destroy(n) ==
  /\ live' = live \ Below({n})
  /\ killed' = killed \cap live'
  /\ heap' = [m \in 1 .. spawned |-> IF m \in live' THEN heap[m] ELSE Freed]
  /\ parent' = [m \in 1 .. spawned |-> IF m \in live' THEN parent[m] ELSE Null]
  /\ Disturb
  /\ UNCHANGED <<root, spawned>>

(* The nodes that bst_count() visits, and those that the garbage collector *)
(* marks, from the nodes of a set on.                                      *)
Reached(from) ==
  LET tree[n \in live] ==
        {n} \cup UNION {tree[c] : c \in {heap[n].left, heap[n].right} \cap live}
  IN UNION {tree[n] : n \in from \cap live}

Tree == Reached({root})

(* What the garbage collector can reach: through the cells of the iterator *)
(* that are no longer in use, and the entry it returned last, as well.     *)
Reachable == Reached({root} \cup ToSet(cells) \cup Entry)

(* The update of a frame.  fun_bst_main() makes a node inactive as soon as *)
(* it is run, hence only the nodes on top are ever visited.                *)
Frame ==
  \E n \in killed : parent[n] = Null /\ Destroy(n)

(* The garbage collector sweeps objects that it did not reach.             *)
Sweep ==
  \E n \in live \ Reachable : Destroy(n)

-----------------------------------------------------------------------------

(* fun_it_constructor(): another iterator is spawned, the last one is let  *)
(* go of.                                                                  *)
Iterate ==
  /\ IF root \in live THEN cells' = <<root>> /\ size' = 1
                       ELSE cells' = <<Null>> /\ size' = 0
  /\ yielded' = << >>
  /\ expected' = Tree
  /\ disturbed' = FALSE
  /\ UNCHANGED treeVars

Existing(c) == IF c \in live THEN <<c>> ELSE << >>

(* A deviation: the left child is pushed only if there is no right one.    *)
PushedOne(n) ==
  IF heap[n].right \in live THEN Existing(heap[n].right) ELSE Existing(heap[n].left)

(* What takes the place of n on the stack: its children, the left on top.  *)
Pushed(n) == Existing(heap[n].right) \o Existing(heap[n].left)

(* fun_it_next().  The node on the stack must exist; cells of the heap are *)
(* added, never removed.                                                   *)
ItNext ==
  /\ size > 0
  /\ LET n == cells[size]
     IN /\ n \in live
        /\ size' = size - 1 + Len(Pushed(n))
        /\ cells' = SubSeq(cells, 1, size - 1) \o Pushed(n)
                      \o SubSeq(cells, size + Len(Pushed(n)), Len(cells))
        /\ yielded' = IF disturbed THEN <<n>> ELSE Append(yielded, n)
  /\ UNCHANGED <<treeVars, expected, disturbed>>

(* fun_entry_setvalue(), through the entry that the iterator returned.      *)
SetEntry(v) ==
  /\ Entry \subseteq live /\ yielded # << >>
  /\ heap' = [heap EXCEPT ![Last(yielded)].value = v]
  /\ UNCHANGED <<root, spawned, parent, live, killed, iteratorVars>>

Next ==
  \/ \E k \in Keys, v \in Values : Set(k, v)
  \/ \E k \in Keys : Delete(k)
  \/ Clear
  \/ Frame
  \/ Sweep
  \/ Iterate
  \/ ItNext
  \/ \E v \in Values : SetEntry(v)

Spec == Init /\ [][Next]_vars

-----------------------------------------------------------------------------

TypeOK ==
  /\ root \in 0 .. spawned /\ spawned \in 0 .. MaxNodes
  /\ heap \in Seq([key : Keys, value : Values, left : 0 .. spawned, right : 0 .. spawned]
                     \cup {Freed})
  /\ Len(heap) = spawned
  /\ parent \in Seq(0 .. spawned) /\ Len(parent) = spawned
  /\ live \subseteq 1 .. spawned /\ killed \subseteq live
  /\ cells \in Seq(0 .. spawned) /\ size \in 0 .. Len(cells)
  /\ yielded \in Seq(1 .. spawned)
  /\ expected \subseteq 1 .. spawned
  /\ disturbed \in BOOLEAN

(* The search finds every node that the tree has, and no other: counting   *)
(* and iterating, which visit all nodes, agree with get() and has().  The  *)
(* removals keep it that way, and so do the nodes that vanish.             *)
NodesAreFound == Tree = {Bottom(k) : k \in {k \in Keys : Has(k)}}

(* Nodes that will be destroyed: they were killed, or cannot be reached.   *)
Condemned == killed \cup (live \ Reachable)

(* The dictionary is a map, but for what is below a node that is about to  *)
(* be destroyed.                                                           *)
Contents == [k \in Keys |-> Get(k)]
Fragile == Tree \cap Below(Condemned) # {}
M == INSTANCE KeyValueMap
       WITH contents <- Contents, objects <- live, fragile <- Fragile
IsMap == M!Spec

(* "delete(key): Deletes the entry having the specified key"               *)
(* (docs/reference/dictionary.md:110): the other entries stay.             *)
OthersStay ==
  [][\A k \in Keys : Has(k) /\ ~Has(k)' => Clear \/ Delete(k)]_vars

(* An iterator returns no node twice; and those that were there when it    *)
(* was spawned it returns all, also if entries are added meanwhile.        *)
IteratesOnce ==
  ~disturbed =>
    /\ \A i, j \in 1 .. Len(yielded) : yielded[i] = yielded[j] => i = j
    /\ expected \subseteq ToSet(yielded) \cup Reached(ToSet(Stack))
=============================================================================
