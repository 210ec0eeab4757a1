-------------------------------- MODULE VMClock --------------------------------
(***************************************************************************)
(* The time of the virtual machine (runtime/vm_time.c) and the time that   *)
(* an object spends in a state (runtime/object.c), which timeout() is      *)
(* about.  The machine reads a clock of the system, which may be adjusted, *)
(* at the beginning of each update and when it is resumed.                 *)
(***************************************************************************)
EXTENDS Integers

CONSTANTS
  Epoch,       \* what the clock of the system shows at first
  States,      \* the states of the object
  Adjustments, \* what may be added to the clock of the system, or taken away
  MaxTime,     \* bound of the model: how long it runs, in milliseconds
  MaxTicks     \* bound of the model: what the clock of the system may show

ASSUME ClockAssumption ==
  /\ Epoch \in Nat
  /\ Adjustments \subseteq Nat
  /\ MaxTime \in Nat /\ MaxTicks \in Nat

VARIABLES
  ticks,                 \* surgescript_util_gettickcount()
  time,                  \* of the machine
  ticks_at_last_update,
  is_paused,
  state,                 \* of the object
  last_state_change

(* History.                                                                *)
VARIABLES
  elapsed,   \* how much time has passed really
  running,   \* ... while the machine was not paused
  recent,    \* ... and since it was last updated or resumed
  dropped,   \* what came before a pause and after the last update, altogether
  behind,    \* how far the clock was set back, altogether, not being paused
  ahead,     \* ... and forward
  entry      \* running, recent, dropped, behind and ahead at the change of state

clock == <<ticks, time, ticks_at_last_update, is_paused>>
object == <<state, last_state_change, entry>>
history == <<elapsed, running, recent, dropped, behind, ahead>>
vars == <<clock, object, history>>

Now == [running |-> running, recent |-> recent, dropped |-> dropped,
        behind |-> behind, ahead |-> ahead]

(* surgescript_vmtime_create(), surgescript_object_create().               *)
Init ==
  /\ ticks = Epoch /\ time = 0 /\ ticks_at_last_update = ticks /\ is_paused = FALSE
  /\ elapsed = 0 /\ running = 0 /\ recent = 0 /\ dropped = 0 /\ behind = 0 /\ ahead = 0
  /\ state = "main" /\ last_state_change = time
  /\ entry = Now

(* Time passes.                                                            *)
Tick ==
  /\ elapsed < MaxTime /\ ticks < MaxTicks
  /\ ticks' = ticks + 1 /\ elapsed' = elapsed + 1
  /\ IF is_paused THEN UNCHANGED <<running, recent>>
                  ELSE running' = running + 1 /\ recent' = recent + 1
  /\ UNCHANGED <<time, ticks_at_last_update, is_paused, object, dropped, behind, ahead>>

(* The clock of the system is adjusted.  A bound of the model: once, while *)
(* the machine is not paused.                                              *)
SetBack(d) ==
  /\ behind + ahead = 0 /\ d <= ticks
  /\ ticks' = ticks - d
  /\ behind' = IF is_paused THEN behind ELSE behind + d
  /\ UNCHANGED <<time, ticks_at_last_update, is_paused, object, elapsed, running, recent,
                 dropped, ahead>>

SetForward(d) ==
  /\ behind + ahead = 0 /\ ticks + d <= MaxTicks
  /\ ticks' = ticks + d
  /\ ahead' = IF is_paused THEN ahead ELSE ahead + d
  /\ UNCHANGED <<time, ticks_at_last_update, is_paused, object, elapsed, running, recent,
                 dropped, behind>>

(* surgescript_vm_update_ex(), up to surgescript_vmtime_update(): a paused *)
(* machine does not update its time.                                       *)
Update ==
  /\ ~is_paused
  /\ time' = time + (IF ticks > ticks_at_last_update THEN ticks - ticks_at_last_update ELSE 0)
  /\ ticks_at_last_update' = ticks
  /\ recent' = 0
  /\ UNCHANGED <<ticks, is_paused, object, elapsed, running, dropped, behind, ahead>>

(* surgescript_vm_pause(), surgescript_vmtime_pause().                     *)
Pause ==
  /\ ~is_paused
  /\ is_paused' = TRUE
  /\ UNCHANGED <<ticks, time, ticks_at_last_update, object, history>>

(* A deviation: the time of the last update is left as it is.              *)
ResumeOnly ==
  /\ is_paused
  /\ is_paused' = FALSE
  /\ recent' = 0 /\ dropped' = dropped + recent
  /\ UNCHANGED <<ticks, time, ticks_at_last_update, object, elapsed, running, behind, ahead>>

(* surgescript_vm_resume(), surgescript_vmtime_resume().                   *)
Resume ==
  /\ is_paused
  /\ is_paused' = FALSE
  /\ ticks_at_last_update' = ticks
  /\ recent' = 0 /\ dropped' = dropped + recent
  /\ UNCHANGED <<ticks, time, object, elapsed, running, behind, ahead>>

(* A deviation: the state that the object is in is entered again.          *)
EnterAgain(s) ==
  /\ state' = s
  /\ last_state_change' = time
  /\ entry' = IF s # state THEN Now ELSE entry
  /\ UNCHANGED <<clock, history>>

(* surgescript_object_set_state(), at any time of a frame.                 *)
SetState(s) ==
  /\ s # state
  /\ state' = s
  /\ last_state_change' = time
  /\ entry' = Now
  /\ UNCHANGED <<clock, history>>

Next ==
  \/ Tick \/ Update \/ Pause \/ Resume
  \/ \E d \in Adjustments : SetBack(d) \/ SetForward(d)
  \/ \E s \in States : SetState(s)

Spec == Init /\ [][Next]_vars

-----------------------------------------------------------------------------

(* The time of the machine is the time that passed while it was not        *)
(* paused, up to its last update and but for what came between an update   *)
(* and a pause; it is wrong by no more than the clock was adjusted, and    *)
(* adjusting it during a pause makes no difference.                        *)
CountsRunningTime ==
  time \in running - recent - dropped - behind .. running - recent - dropped + ahead

(* surgescript_object_elapsed_time(), in milliseconds.                     *)
ElapsedTime == time - last_state_change

(* An object in a state for a time, and no less, finds it so in an update: *)
(* what may be missing was dropped by a pause, or comes after the update,  *)
(* and what may be too much had passed of the frame when it was entered    *)
(* (and what the clock was adjusted by).  It is never negative, though     *)
(* computed without a sign.                                                *)
TimeoutsAreOnTime ==
  LET spent == (running - recent - dropped) - (entry.running - entry.recent - entry.dropped)
  IN /\ ElapsedTime >= 0
     /\ ElapsedTime \in spent - behind - entry.ahead .. spent + ahead + entry.behind
================================================================================
