---------------------------- MODULE CallSiteProofs ----------------------------
(***************************************************************************)
(* The self-modifying call instruction, whatever the classes, the programs,*)
(* the threshold and the depth of recursion: its lock, the pool, and that  *)
(* it is a lookup at every call, up to what is bound late.                 *)
(***************************************************************************)
EXTENDS CallSite, FiniteSetTheorems, SequenceTheorems, TLAPS

(* A sequence that is not empty, its last element and what is before it.  *)
LEMMA FrontAndLast ==
  ASSUME NEW S, NEW s \in Seq(S), s # << >>
  PROVE  /\ Len(s) \in Nat \ {0}
         /\ Last(s) = s[Len(s)]
         /\ Last(s) \in S
         /\ Front(s) \in Seq(S)
         /\ Len(Front(s)) = Len(s) - 1
         /\ \A i \in 1 .. Len(s) - 1 : Front(s)[i] = s[i]
<1>1. Len(s) \in Nat \ {0}
  BY EmptySeq
<1>2. Last(s) = s[Len(s)] /\ Last(s) \in S
  BY <1>1 DEF Last
<1> DEFINE n == Len(s) - 1
<1>3. n \in Int /\ \A i \in 1 .. n : s[i] \in S
  BY <1>1
<1>4. Front(s) = SubSeq(s, 1, n)
  BY DEF Front
<1> HIDE DEF n
<1>5. /\ Front(s) \in Seq(S)
      /\ Len(Front(s)) = IF 1 <= n THEN n - 1 + 1 ELSE 0
      /\ \A i \in 1 .. n - 1 + 1 : Front(s)[i] = s[1 + i - 1]
  BY <1>3, <1>4, SubSeqProperties
<1> USE DEF n
<1>6. Len(Front(s)) = n
  <2>1. n \in Nat /\ Len(Front(s)) = IF 1 <= n THEN n - 1 + 1 ELSE 0
    BY <1>1, <1>5
  <2> HIDE DEF n
  <2>2. (IF 1 <= n THEN n - 1 + 1 ELSE 0) = n
    BY <2>1
  <2> QED BY <2>1, <2>2
<1>7. ASSUME NEW i \in 1 .. Len(s) - 1 PROVE Front(s)[i] = s[i]
  <2>1. 1 + i - 1 = i /\ i \in 1 .. n - 1 + 1
    BY <1>1
  <2> QED BY <2>1, <1>5
<1> QED BY <1>1, <1>2, <1>5, <1>6, <1>7

(* Every call in progress runs a program that its class may run.           *)
FramesOK ==
  \A i \in 1 .. Len(frames) : frames[i].program \in Callees(frames[i].class)

(* A second, regular lookup happens only under a call that has the lock.   *)
LookupsBelow ==
  \A i \in 1 .. Len(frames) :
    frames[i].how = "LOOKUP" => \E j \in Holders : j < i

(* A call that took the lock finds the instruction as it left it.          *)
SameInstruction ==
  \A i \in 1 .. Len(frames) :
    frames[i].how # "LOOKUP" => frames[i].how = instruction

(* What is running, or cached, has been executed; and the receiver that    *)
(* waits has a program to run.                                             *)
CallsRan ==
  /\ \A i \in 1 .. Len(frames) : frames[i].program \in executed
  /\ instruction = "OPTCALL" => class \in Classes /\ cached \in executed
  /\ receiver # None => Get(receiver) # None

SiteInv ==
  TypeOK /\ LockCounts /\ LookupsBelow /\ SameInstruction /\ CallsRan /\ ExecutedStays

(* And what is cached, or running, is right.                               *)
DispatchInv == CacheOK /\ FramesOK

(* The frames with one more on top.                                        *)
Pushed(f) ==
  /\ frames' \in Seq(Frame) /\ Len(frames') = Len(frames) + 1
  /\ \A i \in 1 .. Len(frames) : frames'[i] = frames[i]
  /\ frames'[Len(frames) + 1] = f

(* The frames without the one on top.                                      *)
Popped ==
  /\ Len(frames) \in Nat \ {0}
  /\ frames' \in Seq(Frame) /\ Len(frames') = Len(frames) - 1
  /\ \A i \in 1 .. Len(frames) - 1 : frames'[i] = frames[i]
  /\ Last(frames) = frames[Len(frames)]

(* Enter() puts a frame on top.                                            *)
LEMMA Push ==
  ASSUME TypeOK, NEW f \in Frame, frames' = Append(frames, f)
  PROVE  Pushed(f)
BY AppendProperties DEF TypeOK, Pushed

(* A return takes it away.                                                 *)
LEMMA Pop ==
  ASSUME TypeOK, frames # << >>, frames' = Front(frames)
  PROVE  Popped
<1>1. frames \in Seq(Frame)
  BY DEF TypeOK
<1> QED BY <1>1, FrontAndLast DEF Popped

(* The frame that Enter() makes is one.                                    *)
LEMMA NewFrame ==
  ASSUME TypeOK, receiver # None, NEW how \in Ways, NEW program \in Programs
  PROVE  [class |-> receiver, program |-> program, how |-> how, locked |-> lock # 0] \in Frame
<1>1. receiver \in Classes
  BY DEF TypeOK
<1>2. (lock # 0) \in BOOLEAN
  OBVIOUS
<1> QED BY <1>1, <1>2, Zenon DEF Frame

(* The calls that hold the lock are finite in number.                      *)
LEMMA HoldersFinite ==
  ASSUME TypeOK
  PROVE  IsFiniteSet(Holders) /\ Len(frames) \in Nat
<1>1. Len(frames) \in Nat
  BY DEF TypeOK
<1>2. IsFiniteSet(1 .. Len(frames))
  BY <1>1, FS_Interval
<1>3. Holders \in SUBSET (1 .. Len(frames))
  BY DEF Holders
<1> QED BY <1>1, <1>2, <1>3, FS_Subset

(* An instruction that is not locked has no call in progress.              *)
LEMMA Idle ==
  ASSUME SiteInv, lock = 0
  PROVE  frames = << >> /\ Holders = {}
<1>1. IsFiniteSet(Holders) /\ Cardinality(Holders) = 0
  BY HoldersFinite DEF SiteInv, LockCounts
<1>2. Holders = {}
  BY <1>1, FS_EmptySet
<1>3. ASSUME frames # << >> PROVE FALSE
  <2>1. frames \in Seq(Frame)
    BY DEF SiteInv, TypeOK
  <2>2. Len(frames) \in Nat \ {0}
    BY <1>3, <2>1, EmptySeq
  <2>3. 1 \in 1 .. Len(frames)
    BY <2>2
  <2> QED BY <1>2, <2>3 DEF SiteInv, LookupsBelow, Holders
<1> QED BY <1>2, <1>3

-----------------------------------------------------------------------------

(* Entering a call: the holders are counted.                               *)
LEMMA PushHolders ==
  ASSUME SiteInv, NEW f \in Frame, Pushed(f),
         f.locked = (lock # 0),
         f.how = "LOOKUP" => lock # 0,
         lock' = IF f.how = "LOOKUP" THEN lock ELSE lock + 1
  PROVE  LockCounts' /\ LookupsBelow'
<1> DEFINE n == Len(frames) + 1
<1>0. /\ Len(frames) \in Nat /\ IsFiniteSet(Holders) /\ lock \in Nat
      /\ lock = Cardinality(Holders)
  BY HoldersFinite DEF SiteInv, TypeOK, LockCounts
<1>1. lock # 0 <=> Holders # {}
  BY <1>0, FS_EmptySet
<1>2. Holders' = IF f.how = "LOOKUP" THEN Holders ELSE Holders \cup {n}
  BY <1>0 DEF Holders, Pushed
<1>3. n \notin Holders /\ \A i \in Holders : i < n
  BY <1>0 DEF Holders
<1>4. Len(frames') = n /\ frames'[n] = f /\ \A i \in 1 .. Len(frames) : frames'[i] = frames[i]
  BY DEF Pushed
<1>5. lock' = Cardinality(Holders')
  BY <1>0, <1>2, <1>3, FS_AddElement
<1>6. ASSUME NEW i \in Holders'
      PROVE  frames'[i].locked <=> \E j \in Holders' : j < i
  <2>1. CASE i \in Holders
    <3>1. i \in 1 .. Len(frames) /\ frames'[i] = frames[i]
      BY <2>1, <1>4 DEF Holders
    <3>2. frames[i].locked <=> \E j \in Holders : j < i
      BY <2>1 DEF SiteInv, LockCounts
    <3>3. (\E j \in Holders' : j < i) <=> (\E j \in Holders : j < i)
      <4>1. Holders' = Holders \/ Holders' = Holders \cup {n}
        BY <1>2
      <4>2. ~(n < i)
        BY <3>1, <1>0
      <4> HIDE DEF n
      <4> QED BY <4>1, <4>2
    <3> QED BY <3>1, <3>2, <3>3
  <2>2. CASE i = n
    <3>1. frames'[i].locked <=> Holders # {}
      <4>1. frames'[i] = f
        BY <2>2, <1>4
      <4>2. f.locked <=> Holders # {}
        BY <1>1, Zenon
      <4> QED BY <4>1, <4>2, Zenon
    <3>2. (\E j \in Holders' : j < n) <=> Holders # {}
      BY <1>0, <1>2, <1>3
    <3> QED BY <2>2, <3>1, <3>2
  <2> QED BY <1>2, <1>6, <2>1, <2>2
<1>8. ASSUME NEW i \in 1 .. n, frames'[i].how = "LOOKUP"
      PROVE  \E j \in Holders' : j < i
  <2>1. CASE i = n
    BY <2>1, <1>1, <1>2, <1>3, <1>4, <1>8
  <2>2. CASE i # n
    <3>1. i \in 1 .. Len(frames) /\ frames[i].how = "LOOKUP"
      BY <2>2, <1>0, <1>4, <1>8
    <3>2. \E j \in Holders : j < i
      BY <3>1 DEF SiteInv, LookupsBelow
    <3> QED BY <3>2, <1>2
  <2> QED BY <2>1, <2>2
<1> QED BY <1>4, <1>5, <1>6, <1>8 DEF LockCounts, LookupsBelow

(* Leaving a call.                                                         *)
LEMMA PopHolders ==
  ASSUME SiteInv, Popped,
         lock' = IF Last(frames).how = "LOOKUP" THEN lock ELSE lock - 1
  PROVE  /\ LockCounts' /\ LookupsBelow' /\ lock' \in Nat
         /\ Last(frames).how # "LOOKUP" /\ ~Last(frames).locked => frames' = << >>
<1> DEFINE n == Len(frames)
           f == Last(frames)
<1>0. /\ n \in Nat \ {0} /\ IsFiniteSet(Holders) /\ lock \in Nat
      /\ lock = Cardinality(Holders)
  BY HoldersFinite DEF SiteInv, TypeOK, LockCounts, Popped
<1>1. f = frames[n] /\ n \in 1 .. Len(frames)
  BY <1>0 DEF Popped
<1>2. Len(frames') = n - 1 /\ \A i \in 1 .. n - 1 : frames'[i] = frames[i]
  BY DEF Popped
<1>3. Holders' = Holders \ {n}
  BY <1>0, <1>2 DEF Holders
<1>4. n \in Holders <=> f.how # "LOOKUP"
  BY <1>1 DEF Holders
<1>5. lock' = Cardinality(Holders') /\ lock' \in Nat
  <2>1. /\ IsFiniteSet(Holders \ {n})
        /\ Cardinality(Holders \ {n}) =
             IF n \in Holders THEN Cardinality(Holders) - 1 ELSE Cardinality(Holders)
    BY <1>0, FS_RemoveElement
  <2>2. Cardinality(Holders \ {n}) \in Nat
    BY <2>1, FS_CardinalityType
  <2> QED BY <1>0, <1>3, <1>4, <2>1, <2>2
<1>6. ASSUME NEW i \in Holders'
      PROVE  frames'[i].locked <=> \E j \in Holders' : j < i
  <2>1. i \in Holders /\ i \in 1 .. n - 1 /\ frames'[i] = frames[i]
    BY <1>0, <1>2, <1>3 DEF Holders
  <2>2. frames[i].locked <=> \E j \in Holders : j < i
    BY <2>1 DEF SiteInv, LockCounts
  <2>3. (\E j \in Holders' : j < i) <=> (\E j \in Holders : j < i)
    BY <2>1, <1>0, <1>3
  <2> QED BY <2>1, <2>2, <2>3
<1>8. ASSUME NEW i \in 1 .. n - 1, frames'[i].how = "LOOKUP"
      PROVE  \E j \in Holders' : j < i
  <2>1. \E j \in Holders : j < i
    BY <1>0, <1>2, <1>8 DEF SiteInv, LookupsBelow
  <2> QED BY <2>1, <1>0, <1>3
<1>9. ASSUME f.how # "LOOKUP", ~f.locked PROVE frames' = << >>
  <2>1. \A j \in Holders : ~(j < n)
    BY <1>1, <1>4, <1>9 DEF SiteInv, LockCounts
  <2>2. Holders' = {}
    BY <2>1, <1>0, <1>3 DEF Holders
  <2>3. ASSUME frames' # << >> PROVE FALSE
    <3>1. Len(frames') \in Nat \ {0}
      BY <2>3, EmptySeq DEF Popped
    <3>2. 1 \in 1 .. n - 1
      BY <3>1, <1>2
    <3> QED BY <3>2, <2>2, <1>2, <1>8 DEF Holders
  <2> QED BY <2>3
<1> QED BY <1>2, <1>5, <1>6, <1>8, <1>9 DEF LockCounts, LookupsBelow
-----------------------------------------------------------------------------

(* Only an execution changes the pool, while the interpreter is at work.   *)
LEMMA ExecuteKeepsPool ==
  ASSUME SiteInv, NEW p \in Pooled, Execute(p)
  PROVE  /\ PoolTypeOK' /\ ExecutedStays' /\ p \in executed'
         /\ executed \subseteq executed' /\ own' = own /\ late' = late
         /\ \A c : Get(c)' = Get(c) /\ Callees(c)' = Callees(c)
<1>1. own' = own /\ late' = late /\ executed' = executed \cup {p}
  BY DEF Execute
<1>2. p \in Programs
  BY DEF SiteInv, TypeOK, PoolTypeOK, Pooled
<1> QED BY <1>1, <1>2 DEF SiteInv, TypeOK, PoolTypeOK, ExecutedStays, Pooled, Get, Callees

(* A binding replaces no program that was executed.                        *)
LEMMA BindKeepsPool ==
  ASSUME PoolTypeOK, ExecutedStays, NEW k \in Keys, NEW p \in Programs, Bind(k, p)
  PROVE  /\ PoolTypeOK' /\ ExecutedStays' /\ executed' = executed
         /\ late \subseteq late'
<1>1. /\ own' = [own EXCEPT ![k] = p] /\ executed' = executed
      /\ own[k] \notin executed \/ own[k] = None
      /\ late \subseteq late' /\ late' \subseteq late \cup {k}
  BY DEF Bind, Put, Replace
<1>2. PoolTypeOK'
  BY <1>1 DEF PoolTypeOK
<1>3. ASSUME NEW q \in executed PROVE q \in Pooled'
  <2>1. PICK l \in Keys : own[l] = q /\ q # None
    BY DEF ExecutedStays, Pooled
  <2>2. l # k
    BY <1>1, <2>1
  <2>3. own'[l] = q
    BY <1>1, <2>1, <2>2 DEF PoolTypeOK
  <2> QED BY <2>1, <2>3 DEF Pooled
<1> QED BY <1>1, <1>2, <1>3 DEF ExecutedStays

(* What a call ran, and may run again, it may still run after a binding.   *)
LEMMA BindKeepsCallees ==
  ASSUME PoolTypeOK, NEW k \in Keys, NEW p \in Programs, Bind(k, p),
         NEW c \in Classes, NEW q \in executed, q \in Callees(c)
  PROVE  q \in Callees(c)'
<1>0. /\ c \in Keys /\ Object \in Keys /\ q # None /\ c # Object
      /\ own \in [Keys -> Programs \cup {None}]
  BY PoolAssumption DEF PoolTypeOK, Keys
<1>1. CASE Put(k, p)
  <2>1. /\ own[k] = None /\ own' = [own EXCEPT ![k] = p]
        /\ late' = IF own[Object] \in executed THEN late \cup {k} ELSE late
    BY <1>1 DEF Put
  <2>2. own[c] = q \/ (own[Object] = q /\ (own[c] = None \/ c \in late))
    BY DEF Callees, Get
  <2>3. CASE own[c] = q
    <3>1. own'[c] = q
      BY <1>0, <2>1, <2>3
    <3> QED BY <1>0, <3>1 DEF Callees, Get
  <2>4. CASE own[Object] = q /\ (own[c] = None \/ c \in late)
    <3>1. k # Object /\ own'[Object] = q
      BY <1>0, <2>1, <2>4
    <3>2. c \in late' \/ own'[c] = None
      BY <1>0, <2>1, <2>4
    <3> QED BY <3>1, <3>2 DEF Callees, Get
  <2> QED BY <2>2, <2>3, <2>4
<1>2. CASE Replace(k, p)
  <2>1. own[k] # None /\ own[k] \notin executed /\ own' = [own EXCEPT ![k] = p]
        /\ late' = late
    BY <1>2 DEF Replace
  <2>2. own[c] = q \/ (own[Object] = q /\ (own[c] = None \/ c \in late))
    BY DEF Callees, Get
  <2>3. CASE own[c] = q
    <3>1. own'[c] = q
      BY <1>0, <2>1, <2>3
    <3> QED BY <1>0, <3>1 DEF Callees, Get
  <2>4. CASE own[Object] = q /\ (own[c] = None \/ c \in late)
    <3>1. own'[Object] = q
      BY <1>0, <2>1, <2>4
    <3>2. c \in late' \/ own'[c] = None
      BY <1>0, <2>1, <2>4
    <3> QED BY <3>1, <3>2 DEF Callees, Get
  <2> QED BY <2>2, <2>3, <2>4
<1> QED BY <1>1, <1>2 DEF Bind

(* The program that a lookup finds is one of the pool.                     *)
LEMMA GetFinds ==
  ASSUME TypeOK, NEW c \in Classes, Get(c) # None
  PROVE  Get(c) \in Pooled /\ Get(c) \in Programs
BY DEF TypeOK, PoolTypeOK, Get, Pooled, Keys

(* The invariant holds of a CALL that has never run.                       *)
LEMMA SiteInitially == Init => SiteInv /\ DispatchInv
<1> SUFFICES ASSUME Init PROVE SiteInv /\ DispatchInv
  OBVIOUS
<1>1. TypeOK
  BY DEF Init, TypeOK, PoolInit, PoolTypeOK
<1>2. CacheOK
  BY SiteAssumption DEF Init, CacheOK
<1>3. Holders = {} /\ Cardinality(Holders) = 0
  BY FS_EmptySet DEF Init, Holders
<1>4. LockCounts
  BY <1>3 DEF Init, LockCounts
<1>5. FramesOK /\ LookupsBelow /\ SameInstruction /\ CallsRan /\ ExecutedStays
  BY DEF Init, FramesOK, LookupsBelow, SameInstruction, CallsRan, ExecutedStays, PoolInit
<1> QED BY <1>1, <1>2, <1>4, <1>5 DEF SiteInv, DispatchInv

(* Entering a call by one of the three ways keeps the invariant.           *)
LEMMA EnterKeeps ==
  ASSUME SiteInv, receiver # None, NEW how \in Ways, NEW program \in Pooled,
         Enter(how, program), receiver' = None, UNCHANGED cache,
         how = "LOOKUP" => lock # 0,
         how # "LOOKUP" => how = instruction,
         lock' = IF how = "LOOKUP" THEN lock ELSE lock + 1
  PROVE  SiteInv'
<1>1. receiver \in Classes /\ program \in Programs /\ lock \in Nat
  BY DEF SiteInv, TypeOK, PoolTypeOK, Pooled
<1> DEFINE f == [class |-> receiver, program |-> program,
                 how |-> how, locked |-> lock # 0]
<1>2. f \in Frame
  BY <1>1, NewFrame DEF SiteInv
<1>3. /\ f.class = receiver /\ f.program = program /\ f.how = how
      /\ f.locked = (lock # 0)
  BY Zenon
<1>4. frames' = Append(frames, f) /\ Execute(program)
  BY DEF Enter
<1> HIDE DEF f
<1>5. Pushed(f)
  BY <1>2, <1>4, Push DEF SiteInv
<1>6. LockCounts' /\ LookupsBelow'
  BY <1>2, <1>3, <1>5, PushHolders
<1>7. lock' \in Nat /\ frames' \in Seq(Frame)
  BY <1>1, <1>5 DEF Pushed
<1>8. /\ PoolTypeOK' /\ ExecutedStays' /\ program \in executed'
      /\ executed \subseteq executed'
  BY <1>4, ExecuteKeepsPool
<1>9. TypeOK'
  BY <1>7, <1>8 DEF SiteInv, TypeOK, cache
<1>10. SameInstruction'
  BY <1>3, <1>5 DEF SiteInv, TypeOK, SameInstruction, Pushed, cache
<1>11. CallsRan'
  <2>1. \A i \in 1 .. Len(frames') : frames'[i].program \in executed'
    BY <1>3, <1>5, <1>8 DEF SiteInv, TypeOK, CallsRan, Pushed
  <2> QED BY <2>1, <1>8 DEF SiteInv, CallsRan, cache
<1> QED BY <1>6, <1>8, <1>9, <1>10, <1>11 DEF SiteInv

(* A call that returns leaves the frames below as they were.               *)
LEMMA PopKeeps ==
  ASSUME SiteInv, Popped, UNCHANGED <<poolVars, receiver>>
  PROVE  /\ PoolTypeOK' /\ ExecutedStays' /\ receiver' \in Classes \cup {None}
         /\ frames' \in Seq(Frame)
         /\ \A i \in 1 .. Len(frames') : frames'[i].program \in executed'
         /\ (receiver # None => Get(receiver) # None)'
         /\ \A c : Get(c)' = Get(c) /\ Callees(c)' = Callees(c)
BY DEF SiteInv, TypeOK, PoolTypeOK, ExecutedStays, Pooled, CallsRan, Popped, poolVars, Get,
       Callees

(* Every step of the instruction and of what it calls keeps it.            *)
LEMMA SiteStep == SiteInv /\ [Next]_vars => SiteInv'
<1> SUFFICES ASSUME SiteInv, [Next]_vars PROVE SiteInv'
  OBVIOUS
<1> USE SiteAssumption
<1>1. CASE \E c \in Classes : Reach(c)
  BY <1>1 DEF Reach, SiteInv, TypeOK, PoolTypeOK, ExecutedStays, Pooled, LockCounts,
              CallsRan, Get, LookupsBelow, SameInstruction, Holders, cache, poolVars
<1>2. CASE RunCall
  <2>1. Get(receiver) \in Pooled
    BY <1>2, GetFinds DEF RunCall, SiteInv, CallsRan, TypeOK
  <2> QED BY <1>2, <2>1, EnterKeeps DEF RunCall, Ways
<1>3. CASE ReturnCall
  <2>1. Popped
    BY <1>3, Pop DEF ReturnCall, SiteInv
  <2>2. /\ Last(frames).how = "CALL" /\ lock' = lock - 1
        /\ UNCHANGED <<poolVars, receiver>>
    BY <1>3 DEF ReturnCall
  <2>3. LockCounts' /\ LookupsBelow' /\ lock' \in Nat
    BY <2>1, <2>2, PopHolders
  <2> DEFINE f == Last(frames)
  <2>4. f \in Frame /\ f.program \in executed
    BY <2>1 DEF SiteInv, TypeOK, CallsRan, Popped
  <2>5. f.class \in Classes /\ f.program \in Programs
    BY <2>4 DEF Frame
  <2>6. CountCall(f)
    BY <1>3 DEF ReturnCall
  <2>9. f.how = "CALL" /\ instruction = "CALL"
    BY <2>1, <2>2 DEF SiteInv, SameInstruction, Popped
  <2>10. f.locked \/ frames' = << >>
    BY <2>1, <2>2, <2>9, PopHolders
  <2>12. /\ PoolTypeOK' /\ ExecutedStays' /\ receiver' \in Classes \cup {None}
         /\ frames' \in Seq(Frame) /\ executed' = executed
         /\ \A i \in 1 .. Len(frames') : frames'[i].program \in executed'
         /\ (receiver # None => Get(receiver) # None)'
    BY <2>1, <2>2, PopKeeps DEF poolVars
  <2> HIDE DEF f
  <2>7. /\ class' \in Classes \cup {None} /\ count' \in Nat
        /\ cached' \in Programs \cup {None} /\ instruction' \in {"CALL", "OPTCALL"}
        /\ instruction' = "OPTCALL" => class' \in Classes /\ cached' \in executed
    BY <2>4, <2>5, <2>6, <2>9 DEF CountCall, SiteInv, TypeOK, CallsRan, cache
  <2>8. TypeOK' /\ CallsRan'
    BY <2>3, <2>7, <2>12 DEF TypeOK, CallsRan
  <2>11. SameInstruction'
    <3>1. CASE f.locked
      BY <3>1, <2>1, <2>6 DEF CountCall, cache, SiteInv, SameInstruction, Popped
    <3>2. CASE frames' = << >>
      BY <3>2 DEF SameInstruction
    <3> QED BY <2>10, <3>1, <3>2
  <2> QED BY <2>3, <2>8, <2>11, <2>12 DEF SiteInv
<1>4. CASE RunOptcall
  <2>1. cached \in Pooled
    BY <1>4 DEF RunOptcall, SiteInv, CallsRan, ExecutedStays
  <2> QED BY <1>4, <2>1, EnterKeeps DEF RunOptcall, Ways
<1>5. CASE ReturnOptcall \/ ReturnLookup
  <2>1. Popped
    BY <1>5, Pop DEF ReturnOptcall, ReturnLookup, SiteInv
  <2>2. /\ UNCHANGED <<poolVars, cache, receiver>>
        /\ lock' = IF Last(frames).how = "LOOKUP" THEN lock ELSE lock - 1
    BY <1>5 DEF ReturnOptcall, ReturnLookup
  <2>3. LockCounts' /\ LookupsBelow' /\ lock' \in Nat
    BY <2>1, <2>2, PopHolders
  <2>5. /\ PoolTypeOK' /\ ExecutedStays' /\ receiver' \in Classes \cup {None}
        /\ frames' \in Seq(Frame) /\ executed' = executed
        /\ \A i \in 1 .. Len(frames') : frames'[i].program \in executed'
        /\ (receiver # None => Get(receiver) # None)'
    BY <2>1, <2>2, PopKeeps DEF poolVars
  <2>4. TypeOK' /\ CallsRan' /\ SameInstruction'
    BY <2>1, <2>2, <2>3, <2>5 DEF SiteInv, TypeOK, CallsRan, SameInstruction, Popped, cache
  <2> QED BY <2>3, <2>4, <2>5 DEF SiteInv
<1>6. CASE Deoptimize
  <2>1. frames = << >> /\ lock = 0
    BY <1>6, Idle DEF Deoptimize
  <2> QED BY <1>6, <2>1 DEF Deoptimize, SiteInv, TypeOK, PoolTypeOK, ExecutedStays, Pooled,
                            LockCounts, CallsRan, Get, LookupsBelow, SameInstruction,
                            Holders, poolVars
<1>7. CASE RunLookup
  <2>1. Get(receiver) \in Pooled
    BY <1>7, GetFinds DEF RunLookup, SiteInv, CallsRan, TypeOK
  <2> QED BY <1>7, <2>1, EnterKeeps DEF RunLookup, Ways
<1>8. CASE HostBinds
  <2>1. PICK k \in Keys, p \in Programs : Bind(k, p)
    BY <1>8 DEF HostBinds
  <2>2. PoolTypeOK' /\ ExecutedStays' /\ executed' = executed
    BY <2>1, BindKeepsPool DEF SiteInv, TypeOK
  <2> QED BY <1>8, <2>2 DEF HostBinds, SiteInv, TypeOK, LockCounts, CallsRan, LookupsBelow,
                            SameInstruction, Holders, cache
<1>9. CASE UNCHANGED vars
  BY <1>9 DEF vars, cache, poolVars, SiteInv, TypeOK, PoolTypeOK, ExecutedStays, Pooled,
              LockCounts, CallsRan, Get, LookupsBelow, SameInstruction, Holders
<1> QED BY <1>1, <1>2, <1>3, <1>4, <1>5, <1>6, <1>7, <1>8, <1>9 DEF Next

-----------------------------------------------------------------------------

(* A call that is entered runs what it may.                                *)
LEMMA EnterDispatches ==
  ASSUME SiteInv, FramesOK, NEW how \in Ways, NEW program \in Pooled,
         receiver # None, program \in Callees(receiver), Enter(how, program)
  PROVE  FramesOK' /\ \A c : Callees(c)' = Callees(c) /\ Get(c)' = Get(c)
<1>1. receiver \in Classes /\ program \in Programs
  BY DEF SiteInv, TypeOK, PoolTypeOK, Pooled
<1> DEFINE f == [class |-> receiver, program |-> program,
                 how |-> how, locked |-> lock # 0]
<1>2. f \in Frame /\ f.class = receiver /\ f.program = program
  BY <1>1, NewFrame DEF SiteInv
<1>3. frames' = Append(frames, f) /\ Execute(program)
  BY DEF Enter
<1> HIDE DEF f
<1>4. Pushed(f)
  BY <1>2, <1>3, Push DEF SiteInv
<1>5. \A c : Callees(c)' = Callees(c) /\ Get(c)' = Get(c)
  BY <1>3, ExecuteKeepsPool
<1> QED BY <1>2, <1>4, <1>5 DEF FramesOK, Pushed, SiteInv, TypeOK

(* What the instruction runs, whichever way it enters the call.            *)
LEMMA EntersCallee ==
  ASSUME SiteInv, CacheOK, RunCall \/ RunOptcall \/ RunLookup
  PROVE  /\ receiver # None /\ receiver \in Classes /\ UNCHANGED cache
         /\ \E how \in Ways, program \in Pooled :
              program \in Callees(receiver) /\ Enter(how, program)
<1>1. /\ receiver # None /\ receiver \in Classes /\ Get(receiver) # None
      /\ UNCHANGED cache
  BY DEF RunCall, RunOptcall, RunLookup, SiteInv, TypeOK, CallsRan
<1>2. Get(receiver) \in Pooled /\ Get(receiver) \in Callees(receiver)
  BY <1>1, GetFinds DEF SiteInv, Callees
<1>3. CASE RunOptcall
  <2>1. cached \in Pooled /\ cached \in Callees(receiver)
    BY <1>3 DEF RunOptcall, SiteInv, CallsRan, ExecutedStays, CacheOK
  <2> QED BY <1>1, <1>3, <2>1 DEF RunOptcall, Ways
<1>4. CASE RunCall \/ RunLookup
  BY <1>1, <1>2, <1>4 DEF RunCall, RunLookup, Ways
<1> QED BY <1>3, <1>4

(* The cache is kept right by every step.                                  *)
LEMMA DispatchStep == SiteInv /\ DispatchInv /\ [Next]_vars => DispatchInv'
<1> SUFFICES ASSUME SiteInv, DispatchInv, [Next]_vars PROVE DispatchInv'
  OBVIOUS
<1> USE SiteAssumption DEF DispatchInv
<1>1. CASE (\E c \in Classes : Reach(c)) \/ UNCHANGED vars
  BY <1>1 DEF Reach, CacheOK, FramesOK, Callees, Get, cache, poolVars, vars
<1>2. CASE RunCall \/ RunOptcall \/ RunLookup
  <2>1. receiver # None /\ receiver \in Classes /\ UNCHANGED cache
    BY <1>2, EntersCallee
  <2>2. PICK how \in Ways, program \in Pooled :
          program \in Callees(receiver) /\ Enter(how, program)
    BY <1>2, EntersCallee
  <2>3. FramesOK' /\ \A c : Callees(c)' = Callees(c)
    BY <2>1, <2>2, EnterDispatches
  <2> QED BY <2>1, <2>3 DEF CacheOK, cache
<1>3. CASE ReturnCall
  <2>1. Popped
    BY <1>3, Pop DEF ReturnCall, SiteInv
  <2>2. /\ Last(frames).how = "CALL" /\ lock' = lock - 1
        /\ UNCHANGED <<poolVars, receiver>>
    BY <1>3 DEF ReturnCall
  <2> DEFINE f == Last(frames)
  <2>3. f \in Frame /\ f.program \in Callees(f.class) /\ f.how = "CALL" /\ instruction = "CALL"
    BY <2>1, <2>2 DEF SiteInv, TypeOK, FramesOK, SameInstruction, Popped
  <2>4. f.class \in Classes
    BY <2>3 DEF Frame
  <2>5. CountCall(f)
    BY <1>3 DEF ReturnCall
  <2>6. \A c : Callees(c)' = Callees(c)
    BY <2>1, <2>2, PopKeeps
  <2> HIDE DEF f
  <2>7. CacheOK'
    BY <2>3, <2>4, <2>5, <2>6 DEF CountCall, SiteInv, TypeOK, CacheOK, cache
  <2>8. FramesOK'
    BY <2>1, <2>6 DEF FramesOK, Popped
  <2> QED BY <2>7, <2>8
<1>4. CASE ReturnOptcall \/ ReturnLookup
  <2>1. Popped /\ UNCHANGED <<poolVars, cache, receiver>>
    BY <1>4, Pop DEF ReturnOptcall, ReturnLookup, SiteInv
  <2>2. \A c : Callees(c)' = Callees(c)
    BY <2>1, PopKeeps
  <2> QED BY <2>1, <2>2 DEF CacheOK, FramesOK, Popped, cache
<1>5. CASE Deoptimize
  <2>1. frames = << >>
    BY <1>5, Idle DEF Deoptimize
  <2> QED BY <1>5, <2>1 DEF Deoptimize, CacheOK, FramesOK
<1>6. CASE HostBinds
  <2>1. PICK k \in Keys, p \in Programs : Bind(k, p)
    BY <1>6 DEF HostBinds
  <2>2. UNCHANGED <<cache, frames>>
    BY <1>6 DEF HostBinds
  <2>3. \A c \in Classes, q \in executed : q \in Callees(c) => q \in Callees(c)'
    BY <2>1, BindKeepsCallees DEF SiteInv, TypeOK
  <2>4. CacheOK'
    BY <2>2, <2>3 DEF CacheOK, SiteInv, CallsRan, cache
  <2>5. ASSUME NEW i \in 1 .. Len(frames)
        PROVE  frames[i].program \in Callees(frames[i].class)'
    <3>1. frames[i] \in Frame
      BY DEF SiteInv, TypeOK
    <3>2. frames[i].class \in Classes /\ frames[i].program \in executed
      BY <3>1 DEF Frame, SiteInv, CallsRan
    <3>3. frames[i].program \in Callees(frames[i].class)
      BY DEF FramesOK
    <3> QED BY <2>2, <2>3, <3>2, <3>3
  <2>6. FramesOK'
    BY <2>2, <2>5 DEF FramesOK
  <2> QED BY <2>4, <2>6
<1> QED BY <1>1, <1>2, <1>3, <1>4, <1>5, <1>6 DEF Next

-----------------------------------------------------------------------------

(* No binding destroys a program that is cached or running.                *)
THEOREM ExecutedIsKept == Spec => []ExecutedStays
<1>1. SiteInv => ExecutedStays
  BY DEF SiteInv
<1> QED BY <1>1, SiteInitially, SiteStep, PTL DEF Spec

(* The cache holds what a lookup finds, or found before a late binding.    *)
THEOREM CacheIsRight == Spec => []CacheOK
<1>1. DispatchInv => CacheOK
  BY DEF DispatchInv
<1> QED BY <1>1, SiteInitially, SiteStep, DispatchStep, PTL DEF Spec

(* The lock counts the calls in progress, at any depth of recursion.       *)
THEOREM LockIsExact == Spec => []LockCounts
<1>1. SiteInv => LockCounts
  BY DEF SiteInv
<1> QED BY <1>1, SiteInitially, SiteStep, PTL DEF Spec

(* The instruction is rewritten only when no call through it is left.      *)
THEOREM NoRewriteUnderCall == Spec => RewrittenWhenIdle
<1>1. ASSUME SiteInv, Next, cache' # cache PROVE frames' = << >>
  <2>1. CASE ReturnCall
    <3>1. Popped
      BY <2>1, <1>1, Pop DEF ReturnCall, SiteInv
    <3>2. /\ Last(frames).how # "LOOKUP" /\ ~Last(frames).locked
          /\ lock' = IF Last(frames).how = "LOOKUP" THEN lock ELSE lock - 1
      BY <2>1, <1>1 DEF ReturnCall, CountCall
    <3> QED BY <3>1, <3>2, <1>1, PopHolders
  <2>2. CASE Deoptimize
    BY <2>2, <1>1, Idle DEF Deoptimize
  <2> QED BY <1>1, <2>1, <2>2 DEF Next, Reach, RunCall, RunOptcall, ReturnOptcall,
                                   RunLookup, ReturnLookup, HostBinds
<1>2. SiteInv /\ [Next]_vars => [cache' # cache => frames' = << >>]_vars
  BY <1>1 DEF vars
<1> QED BY <1>2, SiteInitially, SiteStep, PTL DEF Spec, RewrittenWhenIdle

(* What the abstract specification sees of the frames changes with them.   *)
LEMMA RunningIsSeq ==
  ASSUME TypeOK
  PROVE  /\ Running \in Seq([class : Classes, program : Programs])
         /\ Len(Running) = Len(frames)
<1>1. Len(frames) \in Nat /\ \A i \in 1 .. Len(frames) : frames[i] \in Frame
  BY DEF TypeOK
<1>2. \A i \in 1 .. Len(frames) :
        [class |-> frames[i].class, program |-> frames[i].program]
          \in [class : Classes, program : Programs]
  BY <1>1 DEF Frame
<1> QED BY <1>1, <1>2 DEF Running

(* A frame more is a call more...                                          *)
LEMMA PushRunning ==
  ASSUME TypeOK, TypeOK', NEW f \in Frame, Pushed(f)
  PROVE  Running' = Append(Running, [class |-> f.class, program |-> f.program])
<1> DEFINE R == [class : Classes, program : Programs]
           r == [class |-> f.class, program |-> f.program]
<1>1. Running \in Seq(R) /\ Len(Running) = Len(frames) /\ Len(frames) \in Nat
  BY RunningIsSeq DEF TypeOK
<1>2. Running' \in Seq(R) /\ Len(Running') = Len(frames) + 1
  <2>1. Running' \in Seq(R) /\ Len(Running') = Len(frames')
    <3>1. Len(frames') \in Nat /\ \A i \in 1 .. Len(frames') : frames'[i] \in Frame
      BY DEF TypeOK
    <3>2. \A i \in 1 .. Len(frames') :
            [class |-> frames'[i].class, program |-> frames'[i].program] \in R
      BY <3>1 DEF Frame
    <3> QED BY <3>1, <3>2 DEF Running
  <2> QED BY <2>1 DEF Pushed
<1>3. r \in R
  BY DEF Frame
<1>4. \A i \in 1 .. Len(frames) : Running'[i] = Running[i]
  BY <1>1 DEF Running, Pushed
<1>5. Running'[Len(frames) + 1] = r
  BY <1>1 DEF Running, Pushed
<1> DEFINE s == Append(Running, r)
<1> HIDE DEF R, r
<1>6. /\ s \in Seq(R) /\ Len(s) = Len(frames) + 1
      /\ \A i \in 1 .. Len(frames) : s[i] = Running[i]
      /\ s[Len(frames) + 1] = r
  BY <1>1, <1>3, AppendProperties
<1> HIDE DEF s
<1>7. \A i \in 1 .. Len(Running') : Running'[i] = s[i]
  BY <1>1, <1>2, <1>4, <1>5, <1>6
<1>8. Running' = s
  BY <1>2, <1>6, <1>7, SeqEqual
<1> QED BY <1>8 DEF s, r

(* ... and a frame less a call less.                                       *)
LEMMA PopRunning ==
  ASSUME TypeOK, TypeOK', Popped
  PROVE  Running # << >> /\ Running' = Front(Running)
<1> DEFINE R == [class : Classes, program : Programs]
           n == Len(frames) - 1
<1>1. Running \in Seq(R) /\ Len(Running) = Len(frames) /\ Len(frames) \in Nat \ {0}
  BY RunningIsSeq DEF Popped
<1>2. Running' \in Seq(R) /\ Len(Running') = n
  <2>1. Running' \in Seq(R) /\ Len(Running') = Len(frames')
    <3>1. Len(frames') \in Nat /\ \A i \in 1 .. Len(frames') : frames'[i] \in Frame
      BY DEF TypeOK
    <3>2. \A i \in 1 .. Len(frames') :
            [class |-> frames'[i].class, program |-> frames'[i].program] \in R
      BY <3>1 DEF Frame
    <3> QED BY <3>1, <3>2 DEF Running
  <2> QED BY <2>1 DEF Popped
<1>3. \A i \in 1 .. n : Running'[i] = Running[i]
  BY <1>1 DEF Running, Popped
<1> HIDE DEF R
<1>4. Running # << >>
  BY <1>1, EmptySeq
<1>5. /\ Front(Running) \in Seq(R) /\ Len(Front(Running)) = n
      /\ \A i \in 1 .. n : Front(Running)[i] = Running[i]
  BY <1>1, <1>4, FrontAndLast
<1>6. Running' = Front(Running)
  BY <1>2, <1>3, <1>5, SeqEqual
<1> QED BY <1>4, <1>6

(* Entering a call is a call of the abstract specification.                *)
LEMMA EnterCalls ==
  ASSUME SiteInv, SiteInv', NEW how \in Ways, NEW program \in Pooled,
         receiver # None, program \in Callees(receiver), Enter(how, program)
  PROVE  \E c \in Classes : D!Call(c)
<1>1. receiver \in Classes /\ program \in Programs
  BY DEF SiteInv, TypeOK, PoolTypeOK, Pooled
<1> DEFINE f == [class |-> receiver, program |-> program,
                 how |-> how, locked |-> lock # 0]
<1>2. f \in Frame /\ f.class = receiver /\ f.program = program
  BY <1>1, NewFrame DEF SiteInv
<1>3. frames' = Append(frames, f) /\ Execute(program)
  BY DEF Enter
<1> HIDE DEF f
<1>4. Running' = Append(Running, [class |-> receiver, program |-> program])
  BY <1>2, <1>3, Push, PushRunning DEF SiteInv
<1>5. Found' = Found /\ Found[receiver] = Get(receiver) /\ late' = late
  BY <1>1, <1>3, ExecuteKeepsPool DEF Found, Keys
<1>6. Found[Object] = own[Object]
  BY DEF Found, Get, Keys
<1>7. program \in {Found[receiver]} \cup (IF receiver \in late THEN {Found[Object]} ELSE {})
  BY <1>5, <1>6 DEF Callees
<1> QED BY <1>1, <1>4, <1>5, <1>7 DEF D!Call

(* The optimised instruction is a lookup by the class of the callee at     *)
(* every call, up to late bindings: it implements the abstract             *)
(* specification.                                                          *)
THEOREM DispatchIsDynamic == Spec => Dispatches
<1>1. Init => D!Init
  BY DEF Init, PoolInit, D!Init, Running
<1>2. SiteInv /\ SiteInv' /\ DispatchInv /\ [Next]_vars => [D!Next]_<<Found, late, Running>>
  <2> SUFFICES ASSUME SiteInv, SiteInv', DispatchInv, [Next]_vars
               PROVE  D!Next \/ (Running' = Running /\ Found' = Found /\ late' = late)
    OBVIOUS
  <2>0. TypeOK /\ TypeOK'
    BY DEF SiteInv
  <2>1. CASE RunCall \/ RunOptcall \/ RunLookup
    <3>1. receiver # None
      BY <2>1 DEF RunCall, RunOptcall, RunLookup
    <3>2. PICK how \in Ways, program \in Pooled :
            program \in Callees(receiver) /\ Enter(how, program)
      BY <2>1, EntersCallee DEF DispatchInv
    <3> QED BY <3>1, <3>2, EnterCalls DEF D!Next
  <2>4. CASE ReturnCall \/ ReturnOptcall \/ ReturnLookup
    <3>1. Popped /\ UNCHANGED <<poolVars, receiver>>
      BY <2>0, <2>4, Pop DEF ReturnCall, ReturnOptcall, ReturnLookup
    <3>2. Running # << >> /\ Running' = SubSeq(Running, 1, Len(Running) - 1)
      BY <2>0, <3>1, PopRunning DEF Front
    <3>3. Found' = Found /\ late' = late
      BY <3>1, PopKeeps DEF Found, poolVars
    <3> QED BY <3>2, <3>3 DEF D!Next, D!Return, D!Front
  <2>5. CASE (\E c \in Classes : Reach(c)) \/ Deoptimize \/ UNCHANGED vars
    <3>1. frames' = frames /\ own' = own /\ late' = late
      BY <2>5 DEF Reach, Deoptimize, vars, poolVars
    <3> QED BY <3>1 DEF Running, Found, Get
  <2>6. CASE HostBinds
    <3>1. PICK k \in Keys, p \in Programs : Bind(k, p)
      BY <2>6 DEF HostBinds
    <3>2. late \subseteq late' /\ frames' = frames
      BY <2>0, <2>6, <3>1, BindKeepsPool DEF HostBinds, SiteInv, TypeOK
    <3> QED BY <3>2 DEF D!Next, D!Bind, Running
  <2> QED BY <2>1, <2>4, <2>5, <2>6 DEF Next
<1> QED BY <1>1, <1>2, SiteInitially, SiteStep, DispatchStep, PTL DEF Spec, Dispatches, D!Spec
=============================================================================
