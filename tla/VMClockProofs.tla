----------------------------- MODULE VMClockProofs -----------------------------
(***************************************************************************)
(* The time of the virtual machine and of the states of its objects, for   *)
(* any clock of the system and any adjustments of it.                      *)
(***************************************************************************)
EXTENDS VMClock, TLAPS

TypeOK ==
  /\ ticks \in Nat /\ time \in Nat /\ ticks_at_last_update \in Nat
  /\ is_paused \in BOOLEAN
  /\ last_state_change \in Nat
  /\ elapsed \in Nat /\ running \in Nat /\ recent \in Nat /\ dropped \in Nat
  /\ behind \in Nat /\ ahead \in Nat
  /\ entry \in [running : Nat, recent : Nat, dropped : Nat, behind : Nat, ahead : Nat]

(* The time as it would be after an update now, were the clock allowed to  *)
(* go back: no more wrong than by the adjustments so far.                  *)
Unread ==
  ~is_paused =>
    time + (ticks - ticks_at_last_update) \in running - dropped - behind .. running - dropped + ahead

(* When a state was entered the time was right as well.                    *)
EntryIsTrue ==
  /\ last_state_change <= time
  /\ last_state_change \in
       entry.running - entry.recent - entry.dropped - entry.behind
         .. entry.running - entry.recent - entry.dropped + entry.ahead

ClockInvariant == TypeOK /\ CountsRunningTime /\ Unread /\ EntryIsTrue

LEMMA InitClock == Init => ClockInvariant
<1> SUFFICES ASSUME Init PROVE ClockInvariant
  OBVIOUS
<1>1. entry = [running |-> 0, recent |-> 0, dropped |-> 0, behind |-> 0, ahead |-> 0]
  BY DEF Init, Now
<1>2. TypeOK
  <2>1. is_paused \in BOOLEAN
    BY Zenon DEF Init
  <2> QED
    BY <1>1, <2>1, ClockAssumption DEF Init, TypeOK
<1>3. CountsRunningTime /\ Unread /\ EntryIsTrue
  BY <1>1, <1>2 DEF Init, TypeOK, CountsRunningTime, Unread, EntryIsTrue
<1> QED
  BY <1>2, <1>3 DEF ClockInvariant

(* An update with a clock that goes forward counts what it shows, one with *)
(* a clock that was set back counts nothing; both are within the bounds.   *)
LEMMA UpdateClock == ClockInvariant /\ Update => ClockInvariant'
<1> SUFFICES ASSUME ClockInvariant, Update PROVE ClockInvariant'
  OBVIOUS
<1> USE DEF ClockInvariant, TypeOK, CountsRunningTime, Unread, EntryIsTrue, Update,
            clock, object, history
<1>1. CASE ticks > ticks_at_last_update
  BY <1>1
<1>2. CASE ~(ticks > ticks_at_last_update)
  BY <1>2
<1> QED
  BY <1>1, <1>2

(* A pause drops what was not counted yet, a resumption reads the clock.   *)
LEMMA PauseClock == ClockInvariant /\ (Pause \/ Resume) => ClockInvariant'
<1> USE DEF ClockInvariant, TypeOK, CountsRunningTime, Unread, EntryIsTrue,
            clock, object, history
<1>1. ClockInvariant /\ Pause => ClockInvariant'
  BY DEF Pause
<1>2. ASSUME ClockInvariant, Resume PROVE ClockInvariant'
  <2>1. is_paused' \in BOOLEAN
    BY <1>2, Zenon DEF Resume
  <2>2. TypeOK'
    BY <1>2, <2>1 DEF Resume
  <2>3. CountsRunningTime' /\ EntryIsTrue'
    BY <1>2, <2>2 DEF Resume
  <2>4. Unread'
    BY <1>2, <2>2 DEF Resume
  <2> QED
    BY <2>2, <2>3, <2>4
<1> QED
  BY <1>1, <1>2

(* What the clock of the system shows changes: time passes, or somebody    *)
(* adjusts it.                                                             *)
LEMMA TicksChange ==
  ASSUME ClockInvariant,
         Tick \/ \E d \in Adjustments : SetBack(d) \/ SetForward(d)
  PROVE  ClockInvariant'
<1> USE DEF ClockInvariant, TypeOK, CountsRunningTime, Unread, EntryIsTrue,
            clock, object, history
<1>1. CASE Tick
  BY <1>1, ClockAssumption DEF Tick
<1>2. ASSUME NEW d \in Adjustments, SetBack(d) PROVE ClockInvariant'
  <2>1. d \in Nat
    BY ClockAssumption
  <2>2. CASE is_paused
    BY <1>2, <2>1, <2>2 DEF SetBack
  <2>3. CASE ~is_paused
    BY <1>2, <2>1, <2>3 DEF SetBack
  <2> QED
    BY <2>2, <2>3
<1>3. ASSUME NEW d \in Adjustments, SetForward(d) PROVE ClockInvariant'
  <2>1. d \in Nat
    BY ClockAssumption
  <2>2. CASE is_paused
    BY <1>3, <2>1, <2>2 DEF SetForward
  <2>3. CASE ~is_paused
    BY <1>3, <2>1, <2>3 DEF SetForward
  <2> QED
    BY <2>2, <2>3
<1> QED
  BY <1>1, <1>2, <1>3

(* A state is entered.                                                     *)
LEMMA StateChange ==
  ASSUME ClockInvariant, NEW s \in States, SetState(s)
  PROVE  ClockInvariant'
BY DEF ClockInvariant, TypeOK, CountsRunningTime, Unread, EntryIsTrue, SetState, Now,
       clock, object, history

LEMMA StutterClock == ClockInvariant /\ UNCHANGED vars => ClockInvariant'
BY DEF ClockInvariant, TypeOK, CountsRunningTime, Unread, EntryIsTrue, vars,
       clock, object, history

THEOREM ClockInvariantHolds == Spec => []ClockInvariant
<1>1. Init => ClockInvariant
  BY InitClock
<1>2. ClockInvariant /\ [Next]_vars => ClockInvariant'
  BY UpdateClock, PauseClock, TicksChange, StateChange, StutterClock DEF Next
<1> QED
  BY <1>1, <1>2, PTL DEF Spec

(* The machine counts the time that passes while it is not paused, and     *)
(* nothing else but what the clock was adjusted by.                        *)
THEOREM TimeIsCounted == Spec => []CountsRunningTime
<1>1. ClockInvariant => CountsRunningTime
  BY DEF ClockInvariant
<1> QED
  BY <1>1, ClockInvariantHolds, PTL

(* The time that an object has spent in a state, computed without a sign,  *)
(* is never negative and as exact as the machine's.                        *)
THEOREM TimeoutsHold == Spec => []TimeoutsAreOnTime
<1>1. ClockInvariant => TimeoutsAreOnTime
  BY DEF ClockInvariant, TypeOK, CountsRunningTime, EntryIsTrue, TimeoutsAreOnTime, ElapsedTime
<1> QED
  BY <1>1, ClockInvariantHolds, PTL
===============================================================================
