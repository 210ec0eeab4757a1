--------------------------- MODULE SweepDestructors ---------------------------
(***************************************************************************)
(* The sweep of the garbage collector, one deletion at a time.  Destroying *)
(* an object runs its destructor first (runtime/object.c), which is a      *)
(* script like any other: it may store references, spawn objects and ask   *)
(* for a collection, and so begin a sweep within the sweep, on the same    *)
(* list objects_scheduled_for_removal.  The module GarbageCollector, where *)
(* a sweep is one step, takes it that no destructor does that.             *)
(*                                                                         *)
(* What follows the deletion of System is left out: the object manager     *)
(* goes on with the handle of an object that is gone.                      *)
(***************************************************************************)
EXTENDS GarbageCollector, SequencesExt

VARIABLES
  scheduled,   \* objects_scheduled_for_removal
  loops        \* for each sweep in progress, the innermost last, how many of
               \* the scheduled objects its loop has still to delete

sweepVars == <<vars, scheduled, loops>>

Sweeping == loops # << >>

(* A sweep that begins in a destructor finds an object that still exists.  *)
InDestructor == Sweeping /\ Last(loops) > 0 /\ scheduled[Last(loops)] \in live

SweepInit == Init /\ scheduled = << >> /\ loops = << >>

(* Scripts, those of the destructors included.                             *)
RunScript ==
  /\ Sweeping => InDestructor
  /\ \E o, h \in Handles : Spawn(o, h) \/ Store(o, h) \/ Drop(o, h)
  /\ UNCHANGED <<scheduled, loops>>

(* Between the collections: the update of a frame, and its garbagecheck(). *)
UpdateFrame ==
  /\ ~Sweeping
  /\ (\E h \in Handles : Delete(h)) \/ GCMain(FALSE)
  /\ UNCHANGED <<scheduled, loops>>

-----------------------------------------------------------------------------
(* garbagecollect() when nothing waits to be scanned.                      *)

CanCollect == toScan = {} /\ (Sweeping => InDestructor)

(* Nothing was scanned yet: there is nothing to be swept.                  *)
FirstCycle ==
  /\ CanCollect /\ ~started
  /\ \E stack \in SUBSET (live \ {Root}) : NewCycle(refs, marked, stack)
  /\ UNCHANGED <<scheduled, loops>>

(* sweep_unreachables(), for each object that the traversal of the tree    *)
(* visits: those without a mark are scheduled and their children are not   *)
(* visited, the others lose their mark.                                    *)
BeginSweep ==
  /\ CanCollect /\ started
  /\ LET kept == Retained(live \cap marked)
         doomed == {h \in live \ marked : h = Root \/ parent[h] \in kept}
     IN  /\ \E order \in SetToSeqs(doomed) : scheduled' = scheduled \o order
         /\ marked' = marked \ kept
  /\ loops' = Append(loops, Len(scheduled'))
  /\ UNCHANGED <<heapVars, toScan, started, hidden>>

(* surgescript_objectmanager_delete(), from the last one to the first: the *)
(* object goes when its destructor and those below it have run.            *)
DeleteNext ==
  /\ Sweeping /\ Last(loops) > 0
  /\ LET kept == Retained(live \ {scheduled[Last(loops)]})
     IN  KeepOnly(kept, refs) /\ marked' = marked \cap kept
  /\ loops' = [loops EXCEPT ![Len(loops)] = @ - 1]
  /\ UNCHANGED <<toScan, started, hidden, scheduled>>

(* After the loop, the list is emptied and a new cycle begins.             *)
EndSweep ==
  /\ Sweeping /\ Last(loops) = 0
  /\ scheduled' = << >>
  /\ loops' = Front(loops)
  /\ \E stack \in SUBSET (live \ {Root}) :
       /\ marked' = marked \cup {Root} \cup stack
       /\ toScan' = marked' \ marked
  /\ started' = TRUE
  /\ hidden' = FALSE
  /\ UNCHANGED heapVars

SweepNext ==
  /\ Root \in live
  /\ RunScript \/ UpdateFrame \/ FirstCycle \/ BeginSweep \/ DeleteNext \/ EndSweep

SweepSpec == SweepInit /\ [][SweepNext]_sweepVars
=============================================================================
