----------------------------- MODULE FrameUpdate -----------------------------
(***************************************************************************)
(* The update of a frame (runtime/vm.c, runtime/object.c, sslib/system.c,  *)
(* sslib/application.c): the tree of objects is traversed from the root,   *)
(* the current state of every active object is run, and the objects that   *)
(* were killed are deleted when the traversal comes to them; all of this   *)
(* while the code that is run spawns, kills and deactivates objects.       *)
(*                                                                         *)
(* `visiting` is the call stack of surgescript_object_traverse_tree(), and *)
(* `index` tells how far each activation got: 0 while the callback runs    *)
(* the state of the object, then the index of the next child.              *)
(*                                                                         *)
(* The object "Services" stands for the twelve system objects.  One of     *)
(* them is the garbage collector, which sweeps in its main state and when  *)
(* a script or a destructor calls collect().  The callbacks of the host    *)
(* are left out.                                                           *)
(***************************************************************************)
EXTENDS ObjectTree

CONSTANTS
  Deactivation,   \* do the scripts set the active flag of objects?
  SystemExit,     \* do the scripts call System.exit(), or System.destroy()?
  HostTerminates  \* does the host call surgescript_vm_terminate()?

ASSUME FrameAssumption ==
  /\ Deactivation \in BOOLEAN /\ SystemExit \in BOOLEAN /\ HostTerminates \in BOOLEAN
  /\ MaxHandle > 2

(* The handles that the constructor of System gets for its children.       *)
Services == 2
App      == 3

VARIABLES
  visiting,   \* the objects that are being visited, from the root down
  index,      \* progress of each activation on that stack
  active,     \* the objects with is_active set
  launching,  \* is the constructor of System still running?
  exiting,    \* the negation of ISACTIVE_ADDR, in the heap of System
  visited,    \* history: the objects that the traversal came to, this frame
  shortened   \* history: those whose list of children lost an entry, this frame

scanVars == <<visiting, index, visited>>
frameVars == <<vars, scanVars, active, launching, exiting, shortened>>

FrameInit ==
  /\ Init
  /\ visiting = << >>
  /\ index = [h \in Handles |-> 0]
  /\ active = {RootHandle}
  /\ launching = TRUE
  /\ exiting = FALSE
  /\ visited = {} /\ shortened = {}

-----------------------------------------------------------------------------

(* surgescript_vm_launch(): System spawns its services and Application.    *)
Launch ==
  /\ launching
  /\ SpawnObject(RootHandle)
  /\ active' = active \cup live'
  /\ launching' = (App \notin live')
  /\ UNCHANGED <<scanVars, exiting, shortened>>

(* Code of a script is running: a destructor; the state of an object that  *)
(* is not a part of the library; or what the host calls between two frames.*)
ScriptCode ==
  /\ ~launching
  /\ ScriptRuns
  /\ destroying = << >> /\ visiting # << >> =>
       Last(visiting) \notin {RootHandle, Services} /\ index[Last(visiting)] = 0

(* System and the services refuse to spawn and to be destroyed.            *)
ScriptSpawns(p) ==
  /\ ScriptCode
  /\ p \notin {RootHandle, Services}
  /\ SpawnObject(p)
  /\ active' = active \cup (live' \ live)
  /\ UNCHANGED <<scanVars, launching, exiting, shortened>>

ScriptKills(o) ==
  /\ ScriptCode
  /\ o \notin {RootHandle, Services, App}
  /\ Kill(o)
  /\ UNCHANGED <<scanVars, active, launching, exiting, shortened>>

(* The main state of the garbage collector.                                *)
CollectorRuns ==
  /\ visiting # << >> /\ destroying = << >>
  /\ Last(visiting) = Services /\ index[Services] = 0

(* A deviation: the sweep could delete what is being visited and no harm.  *)
SweepsInVisit(o) ==
  /\ ScriptCode \/ CollectorRuns
  /\ o \notin {RootHandle, Services, App}
  /\ Sweep(o)
  /\ UNCHANGED <<scanVars, active, launching, exiting, shortened>>

(* A sweep that deletes an object which is not in use: the traversal does  *)
(* not have it on its stack.  System refers to its services and to the     *)
(* application, so they have marks (GarbageCollector).                     *)
SweepsGarbage(o) ==
  /\ ScriptCode \/ CollectorRuns
  /\ o \notin {RootHandle, Services, App} \cup ToSet(visiting)
  /\ Sweep(o)
  /\ UNCHANGED <<scanVars, active, launching, exiting, shortened>>

(* Other sweeps, that of the running object and of its ancestors included. *)
SweepsInUse ==
  /\ ScriptCode
  /\ SweepOvertakes
  /\ UNCHANGED <<scanVars, active, launching, exiting, shortened>>

SetActive(o) ==
  /\ ScriptCode
  /\ Deactivation
  /\ o \in live
  /\ active' = IF o \in active THEN active \ {o} ELSE active \cup {o}
  /\ UNCHANGED <<vars, scanVars, launching, exiting, shortened>>

(* Application.exit() and Application.destroy(): System is told to exit,   *)
(* and the application is killed.                                          *)
ApplicationExit ==
  /\ ScriptCode
  /\ App \in live
  /\ exiting' = TRUE
  /\ IF App \in killed THEN UNCHANGED vars ELSE Kill(App)
  /\ UNCHANGED <<scanVars, active, launching, shortened>>

(* System.exit() and System.destroy().                                     *)
SystemExits ==
  /\ ScriptCode
  /\ SystemExit
  /\ RootHandle \in live
  /\ exiting' = TRUE
  /\ UNCHANGED <<vars, scanVars, active, launching, shortened>>

(* Between two frames.  The host moves objects of the scripts only.        *)
HostActs ==
  /\ ~launching
  /\ visiting = << >>
  /\ \/ HostTerminates /\ Terminate
     \/ \E o, p \in Handles \ {RootHandle, Services} : Reparent(o, p)
  /\ UNCHANGED <<scanVars, active, launching, exiting, shortened>>

-----------------------------------------------------------------------------

(* A deviation: the flag is looked at after the state of the object.       *)
UpdateInactiveFirst(o) ==
  \/ o \notin active /\ UNCHANGED <<vars, visiting>>
  \/ o \in active \cap killed /\ DeleteKilled(o) /\ UNCHANGED visiting
  \/ o \in active \ killed /\ visiting' = Append(visiting, o) /\ UNCHANGED vars

(* A deviation: the traversal goes on to the children of what it deletes.  *)
UpdateDescends(o) ==
  \/ o \in killed /\ DeleteKilled(o) /\ visiting' = Append(visiting, o)
  \/ o \in active \ killed /\ visiting' = Append(visiting, o) /\ UNCHANGED vars
  \/ o \notin active \cup killed /\ UNCHANGED <<vars, visiting>>

(* surgescript_object_update() on o, up to the run of its state.  An       *)
(* object that was killed is deleted; an inactive one is passed by.        *)
Update(o) ==
  \/ o \in killed /\ DeleteKilled(o) /\ UNCHANGED visiting
  \/ o \in active \ killed /\ visiting' = Append(visiting, o) /\ UNCHANGED vars
  \/ o \notin active \cup killed /\ UNCHANGED <<vars, visiting>>

(* surgescript_vm_update(): the traversal begins at the root, if there is  *)
(* one.                                                                    *)
BeginFrame ==
  /\ ~launching
  /\ visiting = << >> /\ destroying = << >>
  /\ RootHandle \in live
  /\ Update(RootHandle)
  /\ index' = [index EXCEPT ![RootHandle] = 0]
  /\ visited' = {RootHandle} /\ shortened' = {}
  /\ UNCHANGED <<active, launching, exiting>>

(* An activation of the traversal returns, the frame with the last one.    *)
Return ==
  /\ visiting' = Front(visiting)
  /\ IF Len(visiting) = 1
       THEN visited' = {} /\ shortened' = {}
       ELSE UNCHANGED <<visited, shortened>>

(* A deviation: System deletes itself at once.                             *)
EndStateDeletesRoot ==
  /\ visiting # << >> /\ destroying = << >>
  /\ LET o == Last(visiting)
     IN /\ index[o] = 0
        /\ IF o = RootHandle /\ exiting
             THEN destroying' = <<o>> /\ UNCHANGED <<tableVars, treeVars, cursor, sweepVars>>
             ELSE UNCHANGED vars
        /\ IF o \in active
             THEN /\ index' = [index EXCEPT ![o] = 1]
                  /\ UNCHANGED <<visiting, visited, shortened>>
             ELSE Return /\ UNCHANGED index
  /\ UNCHANGED <<active, launching, exiting>>

(* A deviation: System waits until it has no children.                     *)
EndStateWaits ==
  /\ visiting # << >> /\ destroying = << >>
  /\ LET o == Last(visiting)
     IN /\ index[o] = 0
        /\ IF o = RootHandle /\ exiting /\ o \notin killed /\ child[o] = << >>
             THEN Flag(o) ELSE UNCHANGED vars
        /\ IF o \in active
             THEN /\ index' = [index EXCEPT ![o] = 1]
                  /\ UNCHANGED <<visiting, visited, shortened>>
             ELSE Return /\ UNCHANGED index
  /\ UNCHANGED <<active, launching, exiting>>

(* The state of the object has been run; the one of System kills it when   *)
(* it is to exit.  The children are visited if the object is still active. *)
EndState ==
  /\ visiting # << >> /\ destroying = << >>
  /\ LET o == Last(visiting)
     IN /\ index[o] = 0
        /\ IF o = RootHandle /\ exiting /\ o \notin killed
             THEN Flag(o) ELSE UNCHANGED vars
        /\ IF o \in active
             THEN /\ index' = [index EXCEPT ![o] = 1]
                  /\ UNCHANGED <<visiting, visited, shortened>>
             ELSE Return /\ UNCHANGED index
  /\ UNCHANGED <<active, launching, exiting>>

(* A deviation: the loop does not move on.                                 *)
VisitChildStays ==
  /\ visiting # << >> /\ destroying = << >>
  /\ LET p == Last(visiting)
     IN /\ index[p] \in 1 .. Len(child[p])
        /\ LET c == child[p][index[p]]
           IN /\ c \in live
              /\ Update(c)
              /\ index' = [index EXCEPT ![c] = 0]
              /\ visited' = visited \cup {c}
  /\ UNCHANGED <<active, launching, exiting, shortened>>

(* One turn of the loop over the children, which looks at the length of    *)
(* the list again at every turn.                                           *)
VisitChild ==
  /\ visiting # << >> /\ destroying = << >>
  /\ LET p == Last(visiting)
     IN /\ index[p] \in 1 .. Len(child[p])
        /\ LET c == child[p][index[p]]
           IN /\ c \in live
              /\ Update(c)
              /\ index' = [index EXCEPT ![p] = @ + 1, ![c] = 0]
              /\ visited' = visited \cup {c}
  /\ UNCHANGED <<active, launching, exiting, shortened>>

(* A deviation: the loop stops one short.                                  *)
LeaveObjectEarly ==
  /\ visiting # << >> /\ destroying = << >>
  /\ LET p == Last(visiting)
     IN /\ index[p] > 0 /\ index[p] >= Len(child[p])
        /\ index' = [index EXCEPT ![p] = 0]
  /\ Return
  /\ UNCHANGED <<vars, active, launching, exiting>>

LeaveObject ==
  /\ visiting # << >> /\ destroying = << >>
  /\ LET p == Last(visiting)
     IN /\ index[p] > Len(child[p])
        /\ index' = [index EXCEPT ![p] = 0]
  /\ Return
  /\ UNCHANGED <<vars, active, launching, exiting>>

(* The deletion of an object goes on, in the midst of the traversal.       *)
Destruction ==
  /\ DestructorReturns \/ DestroyChild \/ DestroyReturns
  /\ active' = active \cap live'
  /\ visited' = visited \cap live'
  /\ shortened' = {p \in live' : p \in shortened \/ Len(child'[p]) < Len(child[p])}
  /\ UNCHANGED <<visiting, index, launching, exiting>>

FrameNext ==
  /\ ~overtaken
  /\ \/ Launch
     \/ \E p \in Handles : ScriptSpawns(p)
     \/ \E o \in Handles : ScriptKills(o)
     \/ \E o \in Handles : SweepsGarbage(o)
     \/ SweepsInUse
     \/ \E o \in Handles : SetActive(o)
     \/ ApplicationExit
     \/ SystemExits
     \/ HostActs
     \/ BeginFrame
     \/ EndState
     \/ VisitChild
     \/ LeaveObject
     \/ Destruction

FrameSpec == FrameInit /\ [][FrameNext]_frameVars

(* The launch and a frame that was begun go on to their end, if the code   *)
(* of the scripts that is run does; and the host calls for frame after     *)
(* frame.                                                                  *)
FrameFairness ==
  /\ WF_frameVars(~overtaken /\ Launch)
  /\ WF_frameVars(~overtaken /\ BeginFrame)
  /\ WF_frameVars(~overtaken /\ EndState)
  /\ WF_frameVars(~overtaken /\ VisitChild)
  /\ WF_frameVars(~overtaken /\ LeaveObject)
  /\ WF_frameVars(~overtaken /\ Destruction)

FairFrameSpec == FrameSpec /\ FrameFairness

-----------------------------------------------------------------------------

FrameTypeOK ==
  /\ visiting \in Seq(Handles)
  /\ index \in [Handles -> Nat]
  /\ active \subseteq live
  /\ launching \in BOOLEAN /\ exiting \in BOOLEAN
  /\ visited \subseteq live /\ shortened \subseteq live

(* The traversal holds pointers to the objects on its stack.  They stay    *)
(* what they were: a path down the tree from the root, of objects that     *)
(* exist and of which none is being destroyed, whatever is deleted on the  *)
(* way and whatever the destructors spawn, kill and sweep, unless a sweep  *)
(* deleted an object in use, one on this path for instance.                *)
TraversalIsPath ==
  ~overtaken /\ visiting # << >> =>
    /\ visiting[1] = RootHandle
    /\ \A i \in 1 .. Len(visiting) :
         /\ visiting[i] \in live
         /\ visiting[i] \notin ToSet(destroying)
         /\ i > 1 => /\ parent[visiting[i]] = visiting[i - 1]
                     /\ visiting[i] # visiting[i - 1]

(* No object is visited twice in a frame, neither when a list of children  *)
(* loses entries during the traversal nor when it gets some.               *)
VisitedOnce ==
  [][VisitChild =>
       child[Last(visiting)][index[Last(visiting)]] \notin visited]_frameVars

(* The traversal leaves p, having visited its children.                    *)
Leaves(p) ==
  visiting # << >> /\ p = Last(visiting) /\ index[p] > 0 /\ Len(visiting') < Len(visiting)

(* When the traversal is through with the children of an object, the ones  *)
(* that were spawned meanwhile included, it has visited them all, or one   *)
(* of them was deleted during the frame.                                   *)
SkippedBehindDeletion ==
  [][\A p \in live : Leaves(p) =>
       p \in shortened \/ \A i \in 1 .. Len(child[p]) : child[p][i] \in visited]_frameVars

(* "once a state is active, its code will be repeated at every frame of    *)
(* the application until the state changes or until the object is          *)
(* destroyed" (docs/tutorials/objects.md:71): no object that is active and *)
(* was not destroyed is left out of a frame.                               *)
ActiveIsVisited ==
  [][\A p \in live : Leaves(p) =>
       \A i \in 1 .. Len(child[p]) :
         child[p][i] \in active \ killed => child[p][i] \in visited]_frameVars

(* "can't do this directly, because in-use system objects required by      *)
(* destructors may be deleted" (sslib/system.c:107): the system objects    *)
(* outlive Application and its descendants.                                *)
ServicesOutliveApplication ==
  ~launching /\ App \in live => Services \in live

(* Every frame comes to its end, however much it spawns and deletes.       *)
FrameEnds == visiting # << >> ~> (visiting = << >> \/ overtaken)

(* Once exit() was called, the root is destroyed and the VM stops, unless  *)
(* a script makes System inactive.                                         *)
ShutsDown ==
  exiting ~> (RootHandle \notin live \/ RootHandle \notin active \/ overtaken)
=============================================================================
