------------------------------- MODULE CallSite -------------------------------
(***************************************************************************)
(* A call instruction with its inline cache (runtime/program.c).  The      *)
(* instruction rewrites itself: after Threshold consecutive calls to       *)
(* objects of one class the CALL becomes an OPTCALL, which runs the cached *)
(* program without a lookup; when an object of another class shows up it   *)
(* becomes a CALL again.  The code that is called may reach the very same  *)
(* instruction before it returns, by direct or indirect recursion, so a    *)
(* counter of the calls in progress locks the instruction.                 *)
(*                                                                         *)
(* A call to an object that does not exist, or without such a function, or *)
(* with a wrong number of parameters ends the program: not modelled.       *)
(***************************************************************************)
EXTENDS ProgramPool, Naturals, Sequences, SequencesExt

CONSTANTS
  Threshold,  \* OPTIMIZED_CALL_THRESHOLD
  MaxDepth    \* bound of the model: calls in progress at a time

ASSUME SiteAssumption ==
  /\ Threshold \in Nat /\ Threshold > 1
  /\ MaxDepth \in Nat

VARIABLES
  instruction,  \* operation[0].instruction
  class,        \* operation[1].a: the class of the last callee
  count,        \* operation[1].b: consecutive calls to that class
  cached,       \* operation[2].a: the cached program
  lock,         \* operation[2].b: the calls in progress that hold the lock
  frames,       \* the calls in progress: what was called, and how
  receiver      \* class of the callee on the stack, while the instruction waits

cache == <<instruction, class, count, cached>>
vars == <<poolVars, cache, lock, frames, receiver>>

(* How a frame was entered: by run_call_instruction(), by the cached call  *)
(* of run_optcall_instruction() or by its second, regular lookup.          *)
Ways == {"CALL", "OPTCALL", "LOOKUP"}

Init ==
  /\ PoolInit
  /\ instruction = "CALL" /\ class = None /\ count = 0 /\ cached = None
  /\ lock = 0
  /\ frames = << >>
  /\ receiver = None

Enter(how, program) ==
  /\ frames' = Append(frames, [class |-> receiver, program |-> program,
                               how |-> how, locked |-> lock # 0])
  /\ Execute(program)

(* The interpreter gets to the instruction, on behalf of an object.        *)
Reach(c) ==
  /\ receiver = None
  /\ Len(frames) < MaxDepth
  /\ Get(c) # None
  /\ receiver' = c
  /\ UNCHANGED <<poolVars, cache, lock, frames>>

(* The host binds a function, when no step of the interpreter is underway. *)
HostBinds ==
  /\ receiver = None
  /\ \E k \in Keys, p \in Programs : Bind(k, p)
  /\ UNCHANGED <<cache, lock, frames, receiver>>

(* run_call_instruction(), up to the call.                                 *)
RunCall ==
  /\ receiver # None /\ instruction = "CALL"
  /\ lock' = lock + 1
  /\ Enter("CALL", Get(receiver))
  /\ receiver' = None
  /\ UNCHANGED cache

(* A deviation: the lock is not looked at.                                 *)
CountCallUnlocked(f) ==
  IF f.class = class
    THEN /\ count' = count + 1
         /\ IF count + 1 >= Threshold
              THEN cached' = f.program /\ instruction' = "OPTCALL"
              ELSE UNCHANGED <<cached, instruction>>
         /\ UNCHANGED class
    ELSE /\ class' = f.class /\ count' = 1
         /\ UNCHANGED <<cached, instruction>>

(* A deviation: the counter is not reset by a callee of another class.     *)
CountCallTotal(f) ==
  IF f.locked THEN UNCHANGED cache
  ELSE /\ count' = count + 1
       /\ class' = IF class = None THEN f.class ELSE class
       /\ IF count + 1 >= Threshold
            THEN cached' = f.program /\ instruction' = "OPTCALL"
            ELSE UNCHANGED <<cached, instruction>>

(* What run_call_instruction() does after the call f.                      *)
CountCall(f) ==
  IF f.locked THEN UNCHANGED cache
  ELSE IF f.class = class
    THEN /\ count' = count + 1
         /\ IF count + 1 >= Threshold
              THEN cached' = f.program /\ instruction' = "OPTCALL"
              ELSE UNCHANGED <<cached, instruction>>
         /\ UNCHANGED class
    ELSE /\ class' = f.class /\ count' = 1
         /\ UNCHANGED <<cached, instruction>>

ReturnCall ==
  /\ receiver = None /\ frames # << >>
  /\ Last(frames).how = "CALL"
  /\ lock' = lock - 1
  /\ CountCall(Last(frames))
  /\ frames' = Front(frames)
  /\ UNCHANGED <<poolVars, receiver>>

(* run_optcall_instruction(): the callee is of the expected class.         *)
RunOptcall ==
  /\ receiver # None /\ instruction = "OPTCALL" /\ receiver = class
  /\ lock' = lock + 1
  /\ Enter("OPTCALL", cached)
  /\ receiver' = None
  /\ UNCHANGED cache

(* A deviation: the lock is left behind.                                   *)
ReturnOptcallLocked ==
  /\ receiver = None /\ frames # << >>
  /\ Last(frames).how = "OPTCALL"
  /\ frames' = Front(frames)
  /\ UNCHANGED <<poolVars, cache, lock, receiver>>

ReturnOptcall ==
  /\ receiver = None /\ frames # << >>
  /\ Last(frames).how = "OPTCALL"
  /\ lock' = lock - 1
  /\ frames' = Front(frames)
  /\ UNCHANGED <<poolVars, cache, receiver>>

(* A deviation: the instruction is left as it is.                          *)
DeoptimizeCacheOnly ==
  /\ receiver # None /\ instruction = "OPTCALL" /\ receiver # class
  /\ lock = 0
  /\ class' = None /\ count' = 0 /\ cached' = None
  /\ UNCHANGED <<poolVars, instruction, lock, frames, receiver>>

(* It is not, and no call is in progress: the instruction is a CALL again, *)
(* and it is run again.                                                    *)
Deoptimize ==
  /\ receiver # None /\ instruction = "OPTCALL" /\ receiver # class
  /\ lock = 0
  /\ instruction' = "CALL" /\ class' = None /\ count' = 0 /\ cached' = None
  /\ UNCHANGED <<poolVars, lock, frames, receiver>>

(* It is not, but a call is in progress: a lookup, without the lock.       *)
RunLookup ==
  /\ receiver # None /\ instruction = "OPTCALL" /\ receiver # class
  /\ lock # 0
  /\ Enter("LOOKUP", Get(receiver))
  /\ receiver' = None
  /\ UNCHANGED <<cache, lock>>

ReturnLookup ==
  /\ receiver = None /\ frames # << >>
  /\ Last(frames).how = "LOOKUP"
  /\ frames' = Front(frames)
  /\ UNCHANGED <<poolVars, cache, lock, receiver>>

Next ==
  \/ \E c \in Classes : Reach(c)
  \/ RunCall \/ ReturnCall
  \/ RunOptcall \/ ReturnOptcall
  \/ Deoptimize
  \/ RunLookup \/ ReturnLookup
  \/ HostBinds

Spec == Init /\ [][Next]_vars

(* The interpreter does not stop in the middle of an instruction.  Nothing *)
(* is asked of the code that is called.                                    *)
FairSpec == Spec /\ WF_vars(RunCall \/ RunOptcall \/ Deoptimize \/ RunLookup)

-----------------------------------------------------------------------------

Frame == [class : Classes, program : Programs, how : Ways, locked : BOOLEAN]

TypeOK ==
  /\ PoolTypeOK
  /\ instruction \in {"CALL", "OPTCALL"}
  /\ class \in Classes \cup {None}
  /\ count \in Nat
  /\ cached \in Programs \cup {None}
  /\ lock \in Nat
  /\ frames \in Seq(Frame)
  /\ receiver \in Classes \cup {None}

(* The programs that a call to an object of the class c may run: what a    *)
(* lookup finds; or, if the class got a function of its own late, the one  *)
(* that was found before.                                                  *)
Callees(c) == {Get(c)} \cup (IF c \in late THEN {own[Object]} ELSE {})

(* The cached program is such a one, for the class that the instruction    *)
(* stands for; and a CALL has nothing cached.                              *)
CacheOK ==
  /\ instruction = "OPTCALL" => class \in Classes /\ cached \in Callees(class)
  /\ instruction = "CALL" => cached = None /\ count < Threshold

(* The calls in progress that took the lock.                               *)
Holders == {i \in 1 .. Len(frames) : frames[i].how # "LOOKUP"}

(* The lock counts the calls in progress that took it, so that it is never *)
(* left behind, nor given up by a recursive call; and a call found it      *)
(* taken exactly if another one holds it below.                            *)
LockCounts ==
  /\ lock = Cardinality(Holders)
  /\ \A i \in Holders : frames[i].locked <=> \E j \in Holders : j < i

(* The instruction is not rewritten while a call through it is in progress *)
(* ("This prevents data corruption with (possibly indirect) recursion").   *)
RewrittenWhenIdle ==
  [][cache' # cache => frames' = << >>]_vars

(* Every call runs what a lookup by the class of its callee finds, but for *)
(* the bindings that come too late.                                        *)
Found == [c \in Keys |-> Get(c)]
Running == [i \in 1 .. Len(frames) |->
              [class |-> frames[i].class, program |-> frames[i].program]]
D == INSTANCE DynamicDispatch WITH running <- Running, found <- Found
Dispatches == D!Spec

(* An instruction that was reached runs its callee: it is not optimised    *)
(* and de-optimised in turns for ever.                                     *)
CalleeRuns == receiver # None ~> receiver = None
=============================================================================
