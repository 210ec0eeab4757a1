--------------------------- MODULE GarbageCollector ---------------------------
(***************************************************************************)
(* The garbage collector (runtime/object_manager.c, sslib/gc.c), working   *)
(* while scripts run: an incremental mark-and-sweep without a write        *)
(* barrier.  Every frame garbagecheck() scans the heaps of the objects     *)
(* that were found since the last frame; now and then, and whenever a      *)
(* script asks for it, garbagecollect() sweeps the objects without a mark, *)
(* if nothing is left to be scanned, and starts a new cycle.               *)
(*                                                                         *)
(* Deleting an object deletes its subtree.  How that goes, one object at a *)
(* time, is the matter of ObjectTree; here it is one step, and so is a     *)
(* sweep: no destructor that it runs asks for another collection (what     *)
(* happens if one does is the matter of SweepDestructors).  Which free     *)
(* handle a spawn gets is the matter of HandleTable; here it is any.       *)
(***************************************************************************)
EXTENDS Naturals, FiniteSets

CONSTANTS
  Handles,   \* the handles of the object table
  Root,      \* ROOT_HANDLE, the object "System"
  App,       \* "Application"; it stands for all that System's heap refers to
  MaxRefs    \* bound of the model: references in the heap of an object

ASSUME GCAssumption ==
  Root \in Handles /\ App \in Handles \ {Root} /\ MaxRefs \in Nat

VARIABLES
  live,      \* the handles in use
  parent,    \* the tree: an object that is its own parent is a root
  refs,      \* the object handles in the memory cells of each heap
  marked,    \* the objects with is_reachable set
  toScan,    \* objects_to_be_scanned, from first_object_to_be_scanned on
  started,   \* is objects_to_be_scanned not empty? (was a cycle started?)
  hidden     \* no variable of the code: see Store()

heapVars == <<live, parent, refs>>
vars == <<heapVars, marked, toScan, started, hidden>>

(* The program right after its launch: the constructor of System has       *)
(* spawned the application and keeps its handle.                           *)
Init ==
  /\ live = {Root, App}
  /\ parent = [h \in Handles |-> IF h = App THEN Root ELSE h]
  /\ refs = [h \in Handles |-> IF h = Root THEN {App} ELSE {}]
  /\ marked = {App}
  /\ toScan = {}
  /\ started = FALSE
  /\ hidden = FALSE

(* The largest part of S that holds the parent of each of its members: the *)
(* objects that are left when the objects outside S go with their subtrees.*)
Retained(S) == UNION {T \in SUBSET S : \A x \in T : parent[x] \in T}

(* The objects outside the set are gone, their heaps with them.            *)
KeepOnly(kept, heaps) ==
  /\ live' = kept
  /\ parent' = [h \in Handles |-> IF h \in kept THEN parent[h] ELSE h]
  /\ refs' = [h \in Handles |-> IF h \in kept THEN heaps[h] ELSE {}]

-----------------------------------------------------------------------------
(* What the scripts do.  System is not written in SurgeScript: its heap    *)
(* does not change, nothing is spawned on it, and neither it nor the       *)
(* application is deleted before the program exits.                        *)

(* surgescript_objectmanager_spawn(): the object is taken for reachable    *)
(* until the next sweep, and is not put in the queue of those to scan.     *)
Spawn(p, h) ==
  /\ p \in live \ {Root} /\ h \notin live
  /\ live' = live \cup {h}
  /\ parent' = [parent EXCEPT ![h] = p]
  /\ marked' = marked \cup {h}
  /\ UNCHANGED <<refs, toScan, started, hidden>>

(* A script assigns a reference to a variable of its object.  Nobody tells *)
(* the collector: the reference is hidden from the present cycle when the  *)
(* object that gets it has been scanned, or will not be, and the object it *)
(* refers to has no mark.                                                  *)
Store(o, h) ==
  /\ o \in live \ {Root} /\ h \in live \ refs[o]
  /\ Cardinality(refs[o]) < MaxRefs
  /\ refs' = [refs EXCEPT ![o] = @ \cup {h}]
  /\ hidden' = (hidden \/ (o \in marked \ toScan /\ h \notin marked))
  /\ UNCHANGED <<live, parent, marked, toScan, started>>

(* A script overwrites a reference.                                        *)
Drop(o, h) ==
  /\ o \in live \ {Root} /\ h \in refs[o]
  /\ refs' = [refs EXCEPT ![o] = @ \ {h}]
  /\ UNCHANGED <<live, parent, marked, toScan, started, hidden>>

(* The update of a frame deletes an object that a script destroyed.  The   *)
(* handles of what is deleted stay in the queue and in the other heaps.    *)
Delete(h) ==
  /\ h \in live \ {Root, App}
  /\ LET kept == Retained(live \ {h})
     IN KeepOnly(kept, refs) /\ marked' = marked \cap kept
  /\ UNCHANGED <<toScan, started, hidden>>

-----------------------------------------------------------------------------
(* What the collector does.                                                *)

(* garbagecheck(): what it finds gets a mark and waits for the next check; *)
(* references to objects that are gone are set to null.                    *)
Found == ((UNION {refs[x] : x \in toScan \cap live}) \cap live) \ marked

Repaired == [x \in Handles |-> IF x \in toScan THEN refs[x] \cap live ELSE refs[x]]

(* The sweep, except in the first cycle: the objects without a mark are    *)
(* deleted, and the marks of the others are reset.                         *)
Survivors(marks) == IF started THEN Retained(live \cap marks) ELSE live

MarksKept(marks) == Survivors(marks) \cap marks     \* a deviation: no reset
MarksLeft(marks) == IF started THEN {} ELSE marks

(* A new cycle begins at the root and at the handles that are on the stack.*)
NewCycle(heaps, marks, stack) ==
  LET kept  == Survivors(marks)
      found == ({Root} \cup (stack \cap kept)) \ MarksLeft(marks)
  IN /\ KeepOnly(kept, heaps)
     /\ marked' = MarksLeft(marks) \cup found
     /\ toScan' = found
     /\ started' = TRUE
     /\ hidden' = FALSE

(* A deviation: garbagecollect() not waiting for the queue to be empty.    *)
CollectEarly(heaps, marks, queue, stack) == NewCycle(heaps, marks, stack)

(* garbagecollect(), for a heap, a set of marks and a queue: only when     *)
(* nothing is left to be scanned.                                          *)
Collect(heaps, marks, queue, stack) ==
  IF queue = {}
    THEN NewCycle(heaps, marks, stack)
    ELSE /\ refs' = heaps /\ marked' = marks /\ toScan' = queue
         /\ UNCHANGED <<live, parent, started, hidden>>

(* A deviation: first_object_to_be_scanned moved past what was just found. *)
GCMainSkips(intervalElapsed) ==
  /\ refs' = Repaired /\ marked' = marked \cup Found /\ toScan' = {}
  /\ UNCHANGED <<live, parent, started, hidden>>

(* The main state of the object __GC, once per frame.                      *)
GCMain(intervalElapsed) ==
  IF intervalElapsed
    THEN Collect(Repaired, marked \cup Found, Found, {})
    ELSE /\ refs' = Repaired /\ marked' = marked \cup Found /\ toScan' = Found
         /\ UNCHANGED <<live, parent, started, hidden>>

(* A script calls System.gc.collect(), objects being on the stack.         *)
CollectCall(stack) == Collect(refs, marked, toScan, stack)

-----------------------------------------------------------------------------

Next ==
  \/ \E p, h \in Handles : Spawn(p, h)
  \/ \E o, h \in Handles : Store(o, h)
  \/ \E o, h \in Handles : Drop(o, h)
  \/ \E h \in Handles : Delete(h)
  \/ \E e \in BOOLEAN : GCMain(e)
  \/ \E S \in SUBSET (live \ {Root}) : CollectCall(S)

Spec == Init /\ [][Next]_vars

(* The frames go on, and every so many of them the interval has elapsed.   *)
FairSpec == Spec /\ WF_vars(GCMain(TRUE))

-----------------------------------------------------------------------------

TypeOK ==
  /\ live \subseteq Handles /\ Root \in live
  /\ parent \in [Handles -> Handles]
  /\ refs \in [Handles -> SUBSET Handles]
  /\ marked \subseteq live
  /\ toScan \subseteq Handles
  /\ started \in BOOLEAN /\ hidden \in BOOLEAN

(* Reachable from the root: in every set of objects that has the root and  *)
(* what its members refer to.                                              *)
Reachable(h) ==
  \A S \in SUBSET live :
    (Root \in S /\ \A x \in S : refs[x] \cap live \subseteq S) => h \in S

(* The collector never deletes System, nor what System's heap refers to,   *)
(* however the cycles and the stores of the scripts interleave.            *)
SystemSurvives == {Root, App} \subseteq live

(* The tri-colour invariant.  Unless a store has hidden a reference from   *)
(* the present cycle, an object with a mark that does not wait to be       *)
(* scanned refers to objects with a mark only.                             *)
NothingHidden ==
  ~hidden => \A x \in marked \ toScan : refs[x] \cap live \subseteq marked

Collects == (\E e \in BOOLEAN : GCMain(e)) \/ (\E S \in SUBSET (live \ {Root}) : CollectCall(S))

(* The collector deletes only objects that cannot be reached from the root *)
(* and what they have under them in the tree, unless a script has hidden a *)
(* reference from the present cycle.                                       *)
SweepsGarbageOnly ==
  [][Collects /\ ~hidden =>
       Retained({h \in live : Reachable(h)}) \subseteq live']_vars

(* "The garbage collector automatically disposes objects that cannot be    *)
(* reached from the root" (docs/reference/gc.md:4): and no others, but for *)
(* those that have such an object above them in the tree.                  *)
SweepsUnreachableOnly ==
  [][Collects =>
       Retained({h \in live : Reachable(h)}) \subseteq live']_vars

(* Once the scripts leave their references alone, an object that cannot be *)
(* reached does not live on: its mark, if it has one left from an earlier  *)
(* cycle, is not renewed for ever.                                         *)
GarbageIsCollected ==
  (<>[][\E e \in BOOLEAN : GCMain(e)]_vars) =>
     \A h \in Handles \ {Root, App} :
        (h \in live /\ ~Reachable(h)) ~> (h \notin live \/ Reachable(h))
=============================================================================
