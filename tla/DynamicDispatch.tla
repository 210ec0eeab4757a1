--------------------------- MODULE DynamicDispatch ---------------------------
(***************************************************************************)
(* What a function call of SurgeScript promises: the callee is looked up   *)
(* by the class of the object at the time of the call, at every call.  The *)
(* one exception is a class that got a function of its own late, when the  *)
(* one that it inherited had been executed: a call may go on with that.    *)
(***************************************************************************)
EXTENDS Sequences, SequencesExt

CONSTANTS
  Classes,   \* the classes of objects (their IDs)
  Object     \* the common base of all objects

VARIABLES
  found,    \* what a lookup finds, by class
  late,     \* the classes that were bound to late
  running   \* the calls in progress: the class of the callee, the program it runs

Init == running = << >> /\ late = {}

Call(c) ==
  /\ \E p \in {found[c]} \cup (IF c \in late THEN {found[Object]} ELSE {}) :
       running' = Append(running, [class |-> c, program |-> p])
  /\ UNCHANGED <<found, late>>

Return ==
  /\ running # << >>
  /\ running' = Front(running)
  /\ UNCHANGED <<found, late>>

(* The host binds a function: late or not, no class ceases to be late.     *)
Bind == UNCHANGED running /\ late \subseteq late'

Next == (\E c \in Classes : Call(c)) \/ Return \/ Bind

Spec == Init /\ [][Next]_<<found, late, running>>
=============================================================================
