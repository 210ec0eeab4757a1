------------------------ MODULE GarbageCollectorProofs ------------------------
(***************************************************************************)
(* The collector is safe unless a store hides a reference from its cycle:  *)
(* for any number of objects and references.                               *)
(***************************************************************************)
EXTENDS GarbageCollector, TLAPS

(* What the launch of the program sets up and nothing changes: System      *)
(* refers to the application, which is below it in the tree.               *)
SystemOK ==
  /\ App \in live /\ App \in refs[Root]
  /\ parent[Root] = Root /\ parent[App] = Root

(* System has a mark in every cycle, and the application has one as soon   *)
(* as System was scanned; before the first cycle every other object has    *)
(* the mark of its spawn and nothing waits to be scanned.                  *)
CycleOK ==
  /\ started => Root \in marked
  /\ Root \in marked \ toScan => App \in marked
  /\ ~started => live \ {Root} \subseteq marked /\ toScan = {}

(* A free handle has no heap: a new object refers to nothing.              *)
FreeHeapsEmpty == \A x \in Handles \ live : refs[x] = {}

GCInv == TypeOK /\ SystemOK /\ CycleOK /\ NothingHidden /\ FreeHeapsEmpty

(* Objects with all their ancestors in a set are retained when the rest    *)
(* goes; nothing outside the set is.                                       *)
LEMMA RetainedFacts ==
  /\ \A S : Retained(S) \subseteq S
  /\ \A S, T : S \subseteq T => Retained(S) \subseteq Retained(T)
  /\ \A S, T : T \subseteq S /\ (\A x \in T : parent[x] \in T) => T \subseteq Retained(S)
BY DEF Retained

(* Deleting around System and the application leaves both as they are.     *)
LEMMA SystemKept ==
  ASSUME GCInv, NEW S \in SUBSET live, Root \in S, App \in S,
         NEW heaps \in [Handles -> SUBSET Handles], App \in heaps[Root],
         KeepOnly(Retained(S), heaps)
  PROVE  /\ live' = Retained(S) /\ live' \subseteq S
         /\ Root \in live' /\ SystemOK'
         /\ parent' \in [Handles -> Handles] /\ refs' \in [Handles -> SUBSET Handles]
         /\ FreeHeapsEmpty'
<1>1. {Root, App} \subseteq Retained(S)
  <2> DEFINE T == {Root, App}
  <2>1. T \subseteq S /\ \A x \in T : parent[x] \in T
    BY DEF GCInv, SystemOK
  <2> HIDE DEF T
  <2>2. T \subseteq Retained(S)
    BY <2>1, RetainedFacts
  <2> QED BY <2>2 DEF T
<1>2. Retained(S) \subseteq S
  BY RetainedFacts
<1>3. live' = Retained(S)
  BY DEF KeepOnly
<1>4. parent' \in [Handles -> Handles] /\ refs' \in [Handles -> SUBSET Handles]
  BY DEF KeepOnly, GCInv, TypeOK
<1>5. parent'[Root] = Root /\ parent'[App] = Root /\ App \in refs'[Root]
  BY <1>1, GCAssumption DEF KeepOnly, GCInv, SystemOK
<1>6. FreeHeapsEmpty'
  BY DEF KeepOnly, FreeHeapsEmpty
<1> QED BY <1>1, <1>2, <1>3, <1>4, <1>5, <1>6 DEF SystemOK

-----------------------------------------------------------------------------

(* A check keeps the marks, the queue and the heaps in order: what is      *)
(* marked and not found just now refers to marked objects only.            *)
LEMMA CheckKeeps ==
  ASSUME GCInv, NEW marks, marks = marked \cup Found,
         NEW heaps, heaps = Repaired
  PROVE  /\ marks \subseteq live /\ Found \subseteq live
         /\ heaps \in [Handles -> SUBSET Handles] /\ App \in heaps[Root]
         /\ started => Root \in marks
         /\ Root \in marks \ Found => App \in marks
         /\ ~started => live \ {Root} \subseteq marks /\ Found = {}
         /\ ~hidden => \A x \in marks \ Found : heaps[x] \cap live \subseteq marks
         /\ \A x \in Handles \ live : heaps[x] = {}
<1> USE DEF GCInv, TypeOK
<1>1. Found \subseteq live /\ marks \subseteq live
  BY DEF Found
<1>2. \A x \in toScan \cap live : refs[x] \cap live \subseteq marks
  BY DEF Found
<1>3. heaps \in [Handles -> SUBSET Handles]
  BY DEF Repaired
<1>4. \A x \in live : heaps[x] \cap live = refs[x] \cap live
  BY DEF Repaired
<1>5. App \in heaps[Root]
  BY <1>4 DEF SystemOK
<1>6. Root \in marks \ Found => App \in marks
  <2>1. CASE Root \in toScan
    BY <1>2, <2>1 DEF SystemOK
  <2>2. CASE Root \notin toScan
    BY <2>2 DEF CycleOK
  <2> QED BY <2>1, <2>2
<1>7. ASSUME ~hidden, NEW x \in marks \ Found
      PROVE  heaps[x] \cap live \subseteq marks
  <2>1. x \in live /\ x \in marked
    BY <1>7
  <2>2. CASE x \in toScan
    BY <1>2, <1>4, <2>1, <2>2
  <2>3. CASE x \notin toScan
    BY <1>4, <1>7, <2>1, <2>3 DEF NothingHidden
  <2> QED BY <2>2, <2>3
<1>8. ~started => live \ {Root} \subseteq marks /\ Found = {}
  BY DEF CycleOK, Found
<1>9. \A x \in Handles \ live : heaps[x] = {}
  BY DEF Repaired, FreeHeapsEmpty
<1> QED BY <1>1, <1>3, <1>5, <1>6, <1>7, <1>8, <1>9 DEF CycleOK

(* A collection, with the heaps, marks and queue of a check or of a call   *)
(* of collect() by a script.                                               *)
LEMMA CollectKeeps ==
  ASSUME GCInv, NEW marks \in SUBSET live, NEW queue \in SUBSET Handles, NEW stack,
         NEW heaps \in [Handles -> SUBSET Handles], App \in heaps[Root],
         started => Root \in marks,
         Root \in marks \ queue => App \in marks,
         ~started => live \ {Root} \subseteq marks /\ queue = {},
         ~hidden => \A x \in marks \ queue : heaps[x] \cap live \subseteq marks,
         \A x \in Handles \ live : heaps[x] = {},
         Collect(heaps, marks, queue, stack)
  PROVE  GCInv'
<1> USE DEF GCInv, TypeOK
<1>1. CASE queue # {}
  <2>1. /\ refs' = heaps /\ marked' = marks /\ toScan' = queue
        /\ live' = live /\ parent' = parent /\ started' = started /\ hidden' = hidden
    BY <1>1 DEF Collect
  <2> QED BY <2>1 DEF SystemOK, CycleOK, NothingHidden, FreeHeapsEmpty
<1>2. CASE queue = {}
  <2>1. NewCycle(heaps, marks, stack)
    BY <1>2 DEF Collect
  <2>2. started' = TRUE /\ hidden' = FALSE
    BY <2>1 DEF NewCycle
  <2>3. CASE started
    <3>1. /\ KeepOnly(Retained(live \cap marks), heaps)
          /\ marked' = {Root} \cup (stack \cap Retained(live \cap marks))
          /\ toScan' = marked'
      BY <2>1, <2>3 DEF NewCycle, Survivors, MarksLeft
    <3>2. Root \in live \cap marks /\ App \in live \cap marks
      BY <1>2, <2>3 DEF SystemOK
    <3>3. /\ live' = Retained(live \cap marks) /\ live' \subseteq live
          /\ Root \in live' /\ SystemOK'
          /\ parent' \in [Handles -> Handles] /\ refs' \in [Handles -> SUBSET Handles]
          /\ FreeHeapsEmpty'
      BY <3>1, <3>2, SystemKept
    <3> QED BY <2>2, <3>1, <3>3 DEF CycleOK, NothingHidden
  <2>4. CASE ~started
    <3>1. /\ KeepOnly(live, heaps)
          /\ marked' = marks \cup {Root} \cup (stack \cap live)
          /\ toScan' \subseteq marked'
      BY <2>1, <2>4 DEF NewCycle, Survivors, MarksLeft
    <3>2. live' = live /\ marked' = live
      BY <2>4, <3>1 DEF KeepOnly
    <3>3. /\ parent' \in [Handles -> Handles] /\ refs' \in [Handles -> SUBSET Handles]
          /\ parent'[Root] = Root /\ parent'[App] = Root /\ App \in refs'[Root]
          /\ FreeHeapsEmpty'
      BY <3>1, GCAssumption DEF KeepOnly, SystemOK, FreeHeapsEmpty
    <3> QED BY <2>2, <3>1, <3>2, <3>3 DEF SystemOK, CycleOK, NothingHidden
  <2> QED BY <2>3, <2>4
<1> QED BY <1>1, <1>2

(* The invariant holds after the launch.                                   *)
LEMMA GCInitially == Init => GCInv
<1> SUFFICES ASSUME Init PROVE GCInv
  OBVIOUS
<1> USE GCAssumption
<1>1. /\ parent \in [Handles -> Handles] /\ refs \in [Handles -> SUBSET Handles]
      /\ parent[Root] = Root /\ parent[App] = Root
      /\ refs[Root] = {App} /\ refs[App] = {}
  BY DEF Init
<1>2. live = {Root, App} /\ marked = {App} /\ toScan = {} /\ ~started /\ ~hidden
      /\ started \in BOOLEAN /\ hidden \in BOOLEAN
  BY DEF Init
<1>3. TypeOK /\ SystemOK /\ CycleOK
  BY <1>1, <1>2 DEF TypeOK, SystemOK, CycleOK
<1>4. NothingHidden
  BY <1>1, <1>2 DEF NothingHidden
<1>5. FreeHeapsEmpty
  BY <1>2 DEF Init, FreeHeapsEmpty
<1> QED BY <1>3, <1>4, <1>5 DEF GCInv

(* Every step of the scripts and of the collector keeps it.                *)
LEMMA GCStep == GCInv /\ [Next]_vars => GCInv'
<1> SUFFICES ASSUME GCInv, [Next]_vars PROVE GCInv'
  OBVIOUS
<1> USE GCAssumption DEF GCInv, TypeOK
<1>1. CASE \E p, h \in Handles : Spawn(p, h)
  <2>1. PICK p \in Handles, h \in Handles : Spawn(p, h)
    BY <1>1
  <2>2. /\ p \in live /\ h \notin live /\ live' = live \cup {h}
        /\ parent' \in [Handles -> Handles]
        /\ \A x \in live : parent'[x] = parent[x]
        /\ marked' = marked \cup {h}
        /\ refs' = refs /\ toScan' = toScan /\ started' = started /\ hidden' = hidden
    BY <2>1 DEF Spawn
  <2>3. SystemOK' /\ CycleOK'
    BY <2>2 DEF SystemOK, CycleOK
  <2>4. NothingHidden'
    <3> SUFFICES ASSUME ~hidden, NEW x \in marked' \ toScan
                 PROVE  refs[x] \cap live' \subseteq marked'
      BY <2>2 DEF NothingHidden
    <3>1. CASE x \in marked
      BY <2>2, <3>1 DEF NothingHidden
    <3>2. CASE x = h
      BY <2>2, <3>2 DEF FreeHeapsEmpty
    <3> QED BY <2>2, <3>1, <3>2
  <2>5. FreeHeapsEmpty'
    BY <2>2 DEF FreeHeapsEmpty
  <2> QED BY <2>2, <2>3, <2>4, <2>5
<1>2. CASE \E o, h \in Handles : Store(o, h)
  <2>1. PICK o \in Handles, h \in Handles : Store(o, h)
    BY <1>2
  <2>2. /\ o \in live \ {Root} /\ h \in live
        /\ refs' \in [Handles -> SUBSET Handles] /\ refs'[o] = refs[o] \cup {h}
        /\ \A x \in Handles : x # o => refs'[x] = refs[x]
        /\ hidden' = (hidden \/ (o \in marked \ toScan /\ h \notin marked))
        /\ live' = live /\ parent' = parent /\ marked' = marked /\ toScan' = toScan
        /\ started' = started
    BY <2>1 DEF Store
  <2>3. SystemOK' /\ CycleOK'
    BY <2>2 DEF SystemOK, CycleOK
  <2>4. NothingHidden'
    <3> SUFFICES ASSUME ~hidden', NEW x \in marked \ toScan
                 PROVE  refs'[x] \cap live \subseteq marked
      BY <2>2 DEF NothingHidden
    <3>1. ~hidden /\ (o \in marked \ toScan => h \in marked)
      BY <2>2
    <3> QED BY <2>2, <3>1 DEF NothingHidden
  <2>5. FreeHeapsEmpty'
    BY <2>2 DEF FreeHeapsEmpty
  <2> QED BY <2>2, <2>3, <2>4, <2>5
<1>3. CASE \E o, h \in Handles : Drop(o, h)
  BY <1>3 DEF Drop, SystemOK, CycleOK, NothingHidden, FreeHeapsEmpty
<1>4. CASE \E h \in Handles : Delete(h)
  <2>1. PICK h \in live \ {Root, App} :
          /\ KeepOnly(Retained(live \ {h}), refs)
          /\ marked' = marked \cap Retained(live \ {h})
          /\ toScan' = toScan /\ started' = started /\ hidden' = hidden
    BY <1>4 DEF Delete
  <2>2. /\ live' = Retained(live \ {h}) /\ live' \subseteq live
        /\ Root \in live' /\ SystemOK'
        /\ parent' \in [Handles -> Handles] /\ refs' \in [Handles -> SUBSET Handles]
        /\ FreeHeapsEmpty'
    <3>1. live \ {h} \in SUBSET live /\ Root \in live \ {h} /\ App \in live \ {h}
      BY <2>1 DEF SystemOK
    <3>2. refs \in [Handles -> SUBSET Handles] /\ App \in refs[Root]
      BY DEF SystemOK
    <3>3. live \ {h} \subseteq live
      OBVIOUS
    <3> QED BY <2>1, <3>1, <3>2, <3>3, SystemKept
  <2>3. CycleOK'
    BY <2>1, <2>2 DEF CycleOK, SystemOK
  <2>4. \A x \in Handles : refs'[x] \subseteq refs[x]
    BY <2>1 DEF KeepOnly
  <2>5. NothingHidden'
    BY <2>1, <2>2, <2>4 DEF NothingHidden
  <2> QED BY <2>1, <2>2, <2>3, <2>5
<1>5. CASE \E e \in BOOLEAN : GCMain(e)
  <2> DEFINE marks == marked \cup Found
             heaps == Repaired
  <2>1. /\ marks \subseteq live /\ Found \subseteq live
        /\ heaps \in [Handles -> SUBSET Handles] /\ App \in heaps[Root]
        /\ started => Root \in marks
        /\ Root \in marks \ Found => App \in marks
        /\ ~started => live \ {Root} \subseteq marks /\ Found = {}
        /\ ~hidden => \A x \in marks \ Found : heaps[x] \cap live \subseteq marks
        /\ \A x \in Handles \ live : heaps[x] = {}
    BY CheckKeeps
  <2>2. CASE GCMain(TRUE)
    <3>1. Collect(heaps, marks, Found, {})
      BY <2>2 DEF GCMain
    <3>2. marks \in SUBSET live /\ Found \in SUBSET Handles
      BY <2>1
    <3> HIDE DEF marks, heaps
    <3> QED BY <2>1, <3>1, <3>2, CollectKeeps
  <2>3. CASE GCMain(FALSE)
    <3>1. /\ refs' = heaps /\ marked' = marks /\ toScan' = Found
          /\ live' = live /\ parent' = parent /\ started' = started /\ hidden' = hidden
      BY <2>3 DEF GCMain
    <3> HIDE DEF marks, heaps
    <3> QED BY <2>1, <3>1 DEF SystemOK, CycleOK, NothingHidden, FreeHeapsEmpty
  <2> QED BY <1>5, <2>2, <2>3
<1>6. CASE \E S \in SUBSET (live \ {Root}) : CollectCall(S)
  <2>1. PICK S : Collect(refs, marked, toScan, S)
    BY <1>6 DEF CollectCall
  <2>2. /\ marked \in SUBSET live /\ toScan \in SUBSET Handles
        /\ refs \in [Handles -> SUBSET Handles] /\ App \in refs[Root]
        /\ started => Root \in marked
        /\ Root \in marked \ toScan => App \in marked
        /\ ~started => live \ {Root} \subseteq marked /\ toScan = {}
        /\ ~hidden => \A x \in marked \ toScan : refs[x] \cap live \subseteq marked
        /\ \A x \in Handles \ live : refs[x] = {}
    BY DEF SystemOK, CycleOK, NothingHidden, FreeHeapsEmpty
  <2> QED BY <2>1, <2>2, CollectKeeps
<1>7. CASE UNCHANGED vars
  BY <1>7 DEF vars, heapVars, SystemOK, CycleOK, NothingHidden, FreeHeapsEmpty
<1> QED BY <1>1, <1>2, <1>3, <1>4, <1>5, <1>6, <1>7 DEF Next

-----------------------------------------------------------------------------

(* Marks are never left on a handle that is free again.                    *)
THEOREM TypesKept == Spec => []TypeOK
<1>1. GCInv => TypeOK
  BY DEF GCInv
<1> QED BY <1>1, GCInitially, GCStep, PTL DEF Spec

(* The tri-colour invariant, as long as no store hides a reference.        *)
THEOREM TriColour == Spec => []NothingHidden
<1>1. GCInv => NothingHidden
  BY DEF GCInv
<1> QED BY <1>1, GCInitially, GCStep, PTL DEF Spec

(* System and what it refers to are never collected, hidden stores or not. *)
THEOREM SystemIsSafe == Spec => []SystemSurvives
<1>1. GCInv => SystemSurvives
  BY DEF GCInv, TypeOK, SystemOK, SystemSurvives
<1> QED BY <1>1, GCInitially, GCStep, PTL DEF Spec

(* When nothing waits to be scanned and no reference is hidden, what can   *)
(* be reached from the root is marked.                                     *)
LEMMA ReachableIsMarked ==
  ASSUME GCInv, NEW marks, Root \in marks, marks \subseteq live,
         \A x \in marks : refs[x] \cap live \subseteq marks
  PROVE  {h \in live : Reachable(h)} \subseteq marks
BY DEF Reachable

(* One collection that starts with no hidden reference spares them.        *)
LEMMA CollectSpares ==
  ASSUME GCInv, ~hidden, NEW heaps, NEW queue, NEW stack,
         NEW marks \in SUBSET live, started => Root \in marks,
         \A x \in marks \ queue : refs[x] \cap live \subseteq marks,
         Collect(heaps, marks, queue, stack)
  PROVE  Retained({h \in live : Reachable(h)}) \subseteq live'
<1> DEFINE R == {h \in live : Reachable(h)}
<1>1. Retained(R) \subseteq R /\ R \subseteq live
  BY RetainedFacts
<1>2. CASE queue # {}
  <2>1. live' = live
    BY <1>2 DEF Collect
  <2> QED BY <1>1, <2>1
<1>3. CASE queue = {} /\ ~started
  <2>1. live' = live
    BY <1>3 DEF Collect, NewCycle, KeepOnly, Survivors
  <2> QED BY <1>1, <2>1
<1>4. CASE queue = {} /\ started
  <2>1. live' = Retained(live \cap marks)
    BY <1>4 DEF Collect, NewCycle, KeepOnly, Survivors
  <2>2. R \subseteq live \cap marks
    BY <1>4, ReachableIsMarked
  <2> HIDE DEF R
  <2>3. Retained(R) \subseteq Retained(live \cap marks)
    BY <2>2, RetainedFacts
  <2> QED BY <2>1, <2>3 DEF R
<1> QED BY <1>2, <1>3, <1>4

(* The collector deletes nothing that can be reached from the root, and    *)
(* whose ancestors all can, unless a store has hidden a reference since    *)
(* the cycle began.                                                        *)
THEOREM OnlyGarbageIsSwept == Spec => SweepsGarbageOnly
<1>1. ASSUME GCInv, Collects, ~hidden
      PROVE  Retained({h \in live : Reachable(h)}) \subseteq live'
  <2>1. CASE \E e \in BOOLEAN : GCMain(e)
    <3>1. CASE GCMain(FALSE)
      <4>1. live' = live
        BY <3>1 DEF GCMain
      <4> QED BY <4>1, RetainedFacts
    <3>2. CASE GCMain(TRUE)
      <4> DEFINE marks == marked \cup Found
                 heaps == Repaired
      <4>1. Collect(heaps, marks, Found, {})
        BY <3>2 DEF GCMain
      <4>2. /\ marks \subseteq live
            /\ started => Root \in marks
            /\ \A x \in marks \ Found : heaps[x] \cap live \subseteq marks
        BY <1>1, CheckKeeps
      <4>3. \A x \in live : heaps[x] \cap live = refs[x] \cap live
        BY <1>1 DEF Repaired, GCInv, TypeOK
      <4> HIDE DEF marks, heaps
      <4>4. \A x \in marks \ Found : refs[x] \cap live \subseteq marks
        BY <4>2, <4>3
      <4>5. marks \in SUBSET live
        BY <4>2
      <4> QED BY <1>1, <4>1, <4>2, <4>4, <4>5, CollectSpares
    <3> QED BY <2>1, <3>1, <3>2
  <2>2. CASE \E S \in SUBSET (live \ {Root}) : CollectCall(S)
    <3>1. PICK S : Collect(refs, marked, toScan, S)
      BY <2>2 DEF CollectCall
    <3>2. /\ marked \in SUBSET live
          /\ started => Root \in marked
          /\ \A x \in marked \ toScan : refs[x] \cap live \subseteq marked
      BY <1>1 DEF GCInv, TypeOK, CycleOK, NothingHidden
    <3> QED BY <1>1, <3>1, <3>2, CollectSpares
  <2> QED BY <1>1, <2>1, <2>2 DEF Collects
<1>2. GCInv => [Collects /\ ~hidden =>
                  Retained({h \in live : Reachable(h)}) \subseteq live']_vars
  BY <1>1
<1> QED BY <1>2, GCInitially, GCStep, PTL DEF Spec, SweepsGarbageOnly
=============================================================================
