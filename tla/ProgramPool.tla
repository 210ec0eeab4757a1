----------------------------- MODULE ProgramPool -----------------------------
(***************************************************************************)
(* The program pool (runtime/program_pool.c), for one function name: which *)
(* class has a function of its own by that name, and which one inherits    *)
(* it from "Object".  The host may bind C functions at any time; the pool  *)
(* is locked at the launch, which keeps out new classes only, and every    *)
(* class has other functions.                                              *)
(***************************************************************************)
EXTENDS FiniteSets

CONSTANTS
  Classes,   \* the classes of objects (their IDs)
  Object,    \* the common base of all objects
  Programs,  \* the programs, created or yet to be created
  None       \* no class, no program

ASSUME PoolAssumption == Object \notin Classes /\ None \notin Classes \cup Programs

VARIABLES
  own,       \* the pair of each signature: the program of that very class
  executed,  \* the programs with the flag executed set
  late       \* history: the classes that got a function of their own when the
             \* one they had inherited so far had been executed already

poolVars == <<own, executed, late>>

Keys == Classes \cup {Object}

(* The programs that the pool owns.                                        *)
Pooled == {own[k] : k \in Keys} \ {None}

(* surgescript_programpool_get(): a program of the class, or else one of   *)
(* "Object".                                                               *)
Get(c) == IF own[c] # None THEN own[c] ELSE own[Object]

(* What the compiler and the library leave: every program has one owner.   *)
PoolInit ==
  /\ own \in [Keys -> Programs \cup {None}]
  /\ \A k, l \in Keys : own[k] = own[l] /\ own[k] # None => k = l
  /\ executed = {}
  /\ late = {}

(* A program that was just created.                                        *)
New(p) == p \in Programs /\ p \notin Pooled \cup executed

(* surgescript_programpool_put(), which refuses duplicates.                *)
Put(k, p) ==
  /\ New(p)
  /\ own[k] = None
  /\ own' = [own EXCEPT ![k] = p]
  /\ late' = IF own[Object] \in executed THEN late \cup {k} ELSE late
  /\ UNCHANGED executed

(* A deviation: the assertion is left out.                                 *)
ReplaceAny(k, p) ==
  /\ New(p)
  /\ own[k] # None
  /\ own' = [own EXCEPT ![k] = p]
  /\ UNCHANGED <<executed, late>>

(* surgescript_programpool_replace(), where there is something to replace: *)
(* "can't replace an already executed program".                            *)
Replace(k, p) ==
  /\ New(p)
  /\ own[k] # None /\ own[k] \notin executed
  /\ own' = [own EXCEPT ![k] = p]
  /\ UNCHANGED <<executed, late>>

(* surgescript_vm_bind().                                                  *)
Bind(k, p) == Put(k, p) \/ Replace(k, p)

(* A program of the pool is run.                                           *)
Execute(p) == executed' = executed \cup {p} /\ UNCHANGED <<own, late>>

-----------------------------------------------------------------------------

PoolTypeOK ==
  /\ own \in [Keys -> Programs \cup {None}]
  /\ executed \subseteq Programs
  /\ late \subseteq Keys

(* A program that was run once stays in the pool: what a call instruction  *)
(* has cached, and what is running, is never destroyed by a binding.       *)
ExecutedStays == executed \subseteq Pooled
=============================================================================
