------------------------------ MODULE ObjectTree ------------------------------
(***************************************************************************)
(* The tree of objects (runtime/object.c, runtime/object_manager.c): how   *)
(* objects are spawned, killed, moved and destroyed.                       *)
(*                                                                         *)
(* Every object knows its parent and keeps the list of its children; the   *)
(* two are separate data that every operation has to keep in agreement.    *)
(* Destroying an object is recursive and runs script code (destructors) at *)
(* every level, so it is modelled step by step: `destroying` is the call   *)
(* stack of surgescript_object_destroy(), and `cursor` tells how far each  *)
(* activation got: 0 while the destructor runs, then the index of the      *)
(* child that its loop looks at next.                                      *)
(*                                                                         *)
(* A sweep of the garbage collector deletes objects at once, and scripts   *)
(* and destructors can ask for one (System.gc.collect()).  Nothing in the  *)
(* code keeps it from deleting an object that the program is in the midst  *)
(* of running, visiting or destroying.  The program then goes on with      *)
(* memory that was freed: what it does is undefined, `overtaken` says that *)
(* it has come to that, and the model goes no further.                     *)
(***************************************************************************)
EXTENDS HandleTable, Sequences, SequencesExt

CONSTANTS
  DestructorsSpawn,  \* do destructors call spawn(), destroy() and collect()?
  HostReparents,     \* does the host call surgescript_object_reparent()?
  Sweeps             \* does the garbage collector sweep?

ASSUME TreeAssumption ==
  DestructorsSpawn \in BOOLEAN /\ HostReparents \in BOOLEAN /\ Sweeps \in BOOLEAN

VARIABLES
  parent,      \* parent handle; an object that is its own parent is a root
  child,       \* the list of children
  depth,       \* the depth field
  killed,      \* the objects with is_killed set
  destroying,  \* call stack of surgescript_object_destroy()
  cursor,      \* progress of each activation on that stack
  sweeping,    \* the place on that stack of the object that a sweep deletes;
               \* 0 if no sweep is in progress
  overtaken    \* no variable of the code: a sweep deleted an object in use

treeVars == <<parent, child, depth, killed>>
sweepVars == <<sweeping, overtaken>>
vars == <<tableVars, treeVars, destroying, cursor, sweepVars>>

(* The fields of a handle that is not in use are kept at these values.     *)
Init ==
  /\ TableInit
  /\ parent = [h \in Handles |-> h]
  /\ child = [h \in Handles |-> << >>]
  /\ depth = [h \in Handles |-> 0]
  /\ killed = {}
  /\ destroying = << >>
  /\ cursor = [h \in Handles |-> 0]
  /\ sweeping = 0 /\ overtaken = FALSE

-----------------------------------------------------------------------------

(* Script code runs between two destructions and inside a destructor.      *)
ScriptRuns ==
  destroying # << >> => DestructorsSpawn /\ cursor[Last(destroying)] = 0

(* A deviation: the child forgets its parent, the parent keeps the child.  *)
RemoveChildKeepsEntry(p, c) ==
  /\ parent' = [parent EXCEPT ![c] = c]
  /\ depth' = [depth EXCEPT ![c] = 0]
  /\ UNCHANGED child

(* surgescript_object_remove_child(): the entry is taken out of the list   *)
(* and the child becomes a root; a child that is not in the list is only   *)
(* logged.  p is the parent, c the child.                                  *)
RemoveChild(p, c) ==
  IF \E i \in 1 .. Len(child[p]) : child[p][i] = c
    THEN LET i == CHOOSE j \in 1 .. Len(child[p]) : child[p][j] = c
         IN /\ child' = [child EXCEPT ![p] = RemoveAt(@, i)]
            /\ parent' = [parent EXCEPT ![c] = c]
            /\ depth' = [depth EXCEPT ![c] = 0]
    ELSE UNCHANGED <<parent, child, depth>>

(* A deviation: a child gets the depth of its parent.                      *)
SpawnAtSameDepth(p, h) ==
  /\ Allocate(h)
  /\ child' = [child EXCEPT ![p] = Append(@, h)]
  /\ parent' = [parent EXCEPT ![h] = p]
  /\ depth' = [depth EXCEPT ![h] = depth[p]]
  /\ UNCHANGED <<killed, destroying, cursor, sweepVars>>

(* A deviation: a new child is put before its siblings.                    *)
SpawnAtFront(p, h) ==
  /\ Allocate(h)
  /\ child' = [child EXCEPT ![p] = <<h>> \o @]
  /\ parent' = [parent EXCEPT ![h] = p]
  /\ depth' = [depth EXCEPT ![h] = 1 + depth[p]]
  /\ UNCHANGED <<killed, destroying, cursor, sweepVars>>

(* surgescript_objectmanager_spawn() with add_child(): the new object is   *)
(* linked to its parent, unless the parent's list already has its handle.  *)
SpawnAt(p, h) ==
  /\ Allocate(h)
  /\ IF Contains(child[p], h)
       THEN UNCHANGED <<parent, child, depth>>
       ELSE /\ child' = [child EXCEPT ![p] = Append(@, h)]
            /\ parent' = [parent EXCEPT ![h] = p]
            /\ depth' = [depth EXCEPT ![h] = 1 + depth[p]]
  /\ UNCHANGED <<killed, destroying, cursor, sweepVars>>

SpawnObject(p) ==
  /\ ScriptRuns
  /\ p \in live
  /\ count < MaxLive
  /\ \E h \in Handles : SpawnAt(p, h)

(* destroy() on an object: it is only flagged (surgescript_object_kill).   *)
Flag(o) ==
  /\ o \in live \ killed
  /\ killed' = killed \cup {o}
  /\ UNCHANGED <<tableVars, parent, child, depth, destroying, cursor, sweepVars>>

(* System.destroy() is overloaded and does not kill the root...            *)
Kill(o) == ScriptRuns /\ o # RootHandle /\ Flag(o)

(* ... which is killed by its own main state after an exit(), or by        *)
(* surgescript_vm_terminate().                                             *)
Terminate == destroying = << >> /\ Flag(RootHandle)

(* A flagged object is deleted by the update of the frame, which no script *)
(* and no destructor calls; surgescript_object_destroy() is entered.       *)
DeleteKilled(o) ==
  /\ destroying = << >>
  /\ o \in killed
  /\ destroying' = <<o>>
  /\ UNCHANGED <<tableVars, treeVars, cursor, sweepVars>>

(* The destructor returns; the object is unlinked from its parent and the  *)
(* loop over the children begins.                                          *)
DestructorReturns ==
  /\ destroying # << >>
  /\ LET o == Last(destroying)
     IN /\ cursor[o] = 0
        /\ IF parent[o] # o
             THEN /\ parent[o] \in live
                  /\ RemoveChild(parent[o], o)
             ELSE UNCHANGED <<parent, child, depth>>
        /\ cursor' = [cursor EXCEPT ![o] = 1]
  /\ UNCHANGED <<tableVars, killed, destroying, sweepVars>>

(* A deviation: the child is deleted without being made a root first.      *)
DestroyChildLinked ==
  /\ destroying # << >>
  /\ LET o == Last(destroying)
     IN /\ cursor[o] \in 1 .. Len(child[o])
        /\ destroying' = Append(destroying, child[o][cursor[o]])
        /\ cursor' = [cursor EXCEPT ![o] = @ + 1, ![child[o][cursor[o]]] = 0]
  /\ UNCHANGED <<tableVars, treeVars, sweepVars>>

(* A deviation: the loop stays where it is, as if children left the list.  *)
DestroyChildStays ==
  /\ destroying # << >>
  /\ LET o == Last(destroying)
     IN /\ cursor[o] \in 1 .. Len(child[o])
        /\ LET c == child[o][cursor[o]]
           IN /\ c \in live
              /\ parent' = [parent EXCEPT ![c] = c]
              /\ destroying' = Append(destroying, c)
              /\ cursor' = [cursor EXCEPT ![c] = 0]
  /\ UNCHANGED <<tableVars, child, depth, killed, sweepVars>>

(* One turn of the loop: the child is made a root and deleted in its turn. *)
DestroyChild ==
  /\ destroying # << >>
  /\ LET o == Last(destroying)
     IN /\ cursor[o] \in 1 .. Len(child[o])
        /\ LET c == child[o][cursor[o]]
           IN /\ c \in live
              /\ parent' = [parent EXCEPT ![c] = c]
              /\ destroying' = Append(destroying, c)
              /\ cursor' = [cursor EXCEPT ![o] = @ + 1, ![c] = 0]
  /\ UNCHANGED <<tableVars, child, depth, killed, sweepVars>>

(* The loop is over: the object is freed and its slot is cleared.          *)
DestroyReturns ==
  /\ destroying # << >>
  /\ LET o == Last(destroying)
     IN /\ cursor[o] > Len(child[o])
        /\ Free(o)
        /\ child' = [child EXCEPT ![o] = << >>]
        /\ parent' = [parent EXCEPT ![o] = o]
        /\ depth' = [depth EXCEPT ![o] = 0]
        /\ killed' = killed \ {o}
        /\ cursor' = [cursor EXCEPT ![o] = 0]
        /\ destroying' = Front(destroying)
        /\ sweeping' = IF sweeping = Len(destroying) THEN 0 ELSE sweeping
  /\ UNCHANGED overtaken

(* A deviation: only the object itself is refused as its own parent.       *)
OutsideSelf(o) == live \ {o}

(* The objects that are not o nor a descendant of o: the largest set       *)
(* without o that holds the parent of each of its members.                 *)
Outside(o) ==
  UNION {S \in SUBSET (live \ {o}) : \A x \in S : parent[x] \in S}

(* A deviation: the sweep could delete any object and do no harm.          *)
SweepAnything(o) ==
  /\ Sweeps /\ ScriptRuns
  /\ RootHandle \in live \ ToSet(destroying) /\ sweeping = 0
  /\ o \in live \ Outside(RootHandle) /\ o # RootHandle
  /\ killed' = killed \cup {o}
  /\ destroying' = Append(destroying, o)
  /\ sweeping' = Len(destroying')
  /\ UNCHANGED <<tableVars, parent, child, depth, cursor, overtaken>>

(* garbagecollect() deletes o, one of the objects below the root that have *)
(* no mark; what has a mark is not known here, so it is any object that is *)
(* not in use: neither o nor a descendant of o is being destroyed.  It may *)
(* be called by a script, a destructor or the main state of the collector. *)
Sweep(o) ==
  /\ Sweeps /\ ScriptRuns
  /\ RootHandle \in live \ ToSet(destroying) /\ sweeping = 0
  /\ o \in live \ Outside(RootHandle) /\ o # RootHandle
  /\ ToSet(destroying) \subseteq Outside(o)
  /\ killed' = killed \cup {o}
  /\ destroying' = Append(destroying, o)
  /\ sweeping' = Len(destroying')
  /\ UNCHANGED <<tableVars, parent, child, depth, cursor, overtaken>>

(* The other sweeps.  The object may be the one that is running or another *)
(* one that waits for it to return; the sweep may have been begun by a     *)
(* destructor within a sweep, and then it deletes the root (module         *)
(* SweepDestructors); or the root is being destroyed and its list holds    *)
(* children that are gone.                                                 *)
SweepOvertakes ==
  /\ Sweeps /\ ScriptRuns
  /\ RootHandle \in live
  /\ overtaken' = TRUE
  /\ UNCHANGED <<tableVars, treeVars, destroying, cursor, sweeping>>

(* surgescript_object_reparent() by the host.  The code does not check for *)
(* cycles and says so; the host is assumed not to ask for one.  An object  *)
(* without a parent is refused by remove_child().                          *)
Reparent(o, p) ==
  /\ HostReparents
  /\ destroying = << >>
  /\ o \in live /\ p \in live
  /\ parent[o] # o /\ parent[o] # p
  /\ p \in Outside(o)
  /\ depth[p] < MaxHandle      \* bound: moves make stale depths grow
  /\ LET i == CHOOSE j \in 1 .. Len(child[parent[o]]) : child[parent[o]][j] = o
     IN child' = [child EXCEPT ![parent[o]] = RemoveAt(@, i), ![p] = Append(@, o)]
  /\ parent' = [parent EXCEPT ![o] = p]
  /\ depth' = [depth EXCEPT ![o] = 1 + depth[p]]
  /\ UNCHANGED <<tableVars, killed, destroying, cursor, sweepVars>>

Next ==
  /\ ~overtaken
  /\ \/ \E p \in Handles : SpawnObject(p)
     \/ \E o \in Handles : Kill(o)
     \/ Terminate
     \/ \E o \in Handles : DeleteKilled(o)
     \/ \E o \in Handles : Sweep(o)
     \/ SweepOvertakes
     \/ DestructorReturns
     \/ DestroyChild
     \/ DestroyReturns
     \/ \E o, p \in Handles : Reparent(o, p)

Spec == Init /\ [][Next]_vars

(* A destruction that was entered goes on to its end: it is one call of a  *)
(* single-threaded program.  Nothing is asked of the scripts or the host.  *)
Fairness ==
  /\ WF_vars(~overtaken /\ DestructorReturns)
  /\ WF_vars(~overtaken /\ DestroyChild)
  /\ WF_vars(~overtaken /\ DestroyReturns)

FairSpec == Spec /\ Fairness

-----------------------------------------------------------------------------

TypeOK ==
  /\ TableTypeOK
  /\ parent \in [Handles -> Handles]
  /\ child \in [Handles -> Seq(Handles)]
  /\ depth \in [Handles -> Nat]
  /\ killed \subseteq live
  /\ destroying \in Seq(Handles)
  /\ cursor \in [Handles -> Nat]
  /\ sweeping \in Nat /\ overtaken \in BOOLEAN

(* The entries of the child list that the destruction loop has not yet     *)
(* passed; for an object that is not being destroyed, all of them.         *)
Pending(p) == {i \in 1 .. Len(child[p]) : i >= cursor[p]}

(* surgescript_objectmanager_get() ends the program on a handle that is    *)
(* not in use.  A destruction never runs into that, unless a sweep deleted *)
(* an object in use: whenever it is about to unlink the object from its    *)
(* parent, or to visit the next child, that object exists, whatever else   *)
(* was spawned, killed or swept by the destructors on the way.             *)
NoNullInDestroy ==
  ~overtaken /\ destroying # << >> =>
    LET o == Last(destroying)
    IN /\ o \in live
       /\ cursor[o] = 0 => parent[o] \in live
       /\ cursor[o] \in 1 .. Len(child[o]) => child[o][cursor[o]] \in live

(* The parent pointers and the child lists tell the same tree: an object   *)
(* has at most one parent, and is in its parent's list once and in no      *)
(* other list that a traversal or a destruction can still follow.          *)
LinksAgree ==
  \A p \in live :
    /\ \A i \in Pending(p) :
         /\ child[p][i] \in live \ {p}
         /\ parent[child[p][i]] = p
         /\ \A j \in Pending(p) : child[p][i] = child[p][j] => i = j
    /\ parent[p] # p =>
         /\ parent[p] \in live
         /\ \E i \in Pending(parent[p]) : child[parent[p]][i] = p

(* No object is entered while it is being destroyed, neither by the loops  *)
(* over the children nor by a sweep that a destructor asks for, unless the *)
(* sweep deleted an object in use.  Only the object that was deleted first *)
(* and the one that a sweep deletes can still be linked to a parent.       *)
DestroyedOnce ==
  ~overtaken =>
    \A i, j \in 1 .. Len(destroying) :
      /\ destroying[i] = destroying[j] => i = j
      /\ destroying[i] \in live
      /\ i \notin {1, sweeping} => parent[destroying[i]] = destroying[i]

(* Following the parents from any object leads to the root or to an object *)
(* that is being destroyed right now: nothing survives the destruction of  *)
(* an ancestor, and parents never run in a circle.  Stated by sets: a set  *)
(* of objects that holds the parents of its members has one of those.      *)
SingleTree ==
  \A S \in SUBSET live :
    (S # {} /\ \A x \in S : parent[x] \in S) =>
      \E x \in S : x = RootHandle \/ x \in ToSet(destroying)

(* "All other objects are descendants of System"                           *)
(* (docs/tutorials/object_tree.md:15), whenever the program is between two *)
(* destructions and its root exists.                                       *)
DescendantsOfSystem ==
  destroying = << >> /\ RootHandle \in live =>
    \A S \in SUBSET live :
      (S # {} /\ \A x \in S : parent[x] \in S) => RootHandle \in S

(* "depth in the object tree (root has depth zero)" (object.h:78): the     *)
(* depth of an object is one more than that of its parent.                 *)
DepthInTree ==
  destroying = << >> =>
    \A h \in live : /\ parent[h] # h => depth[h] = 1 + depth[parent[h]]
                    /\ h = RootHandle => depth[h] = 0

(* Every destruction comes to its end.                                     *)
DestructionEnds == destroying # << >> ~> (destroying = << >> \/ overtaken)
=============================================================================
