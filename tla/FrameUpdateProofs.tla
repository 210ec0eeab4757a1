-------------------------- MODULE FrameUpdateProofs --------------------------
(***************************************************************************)
(* What holds of the object tree for every size of the table, whatever the *)
(* destructors spawn and sweep and the host moves, and what holds in       *)
(* addition when the destructors do not spawn; then what holds of the      *)
(* frames, which take steps of that tree, whatever the scripts and their   *)
(* destructors spawn, kill and sweep during the traversal, and whatever    *)
(* the host moves and terminates between two frames.  A sweep that deletes *)
(* an object in use is the end of the model, and so of what is proved: no  *)
(* theorem speaks of the program after it.                                 *)
(***************************************************************************)
EXTENDS FrameUpdate, FiniteSetTheorems, SequenceTheorems, TLAPS

-----------------------------------------------------------------------------
(* Sequences.                                                              *)

(* RemoveAt() keeps the other elements, in their order.                    *)
LEMMA RemoveAtFacts ==
  ASSUME NEW S, NEW s \in Seq(S), NEW i \in 1 .. Len(s)
  PROVE  /\ RemoveAt(s, i) \in Seq(S)
         /\ Len(RemoveAt(s, i)) = Len(s) - 1
         /\ \A j \in 1 .. Len(s) - 1 :
              RemoveAt(s, i)[j] = IF j < i THEN s[j] ELSE s[j + 1]
<1> DEFINE a == SubSeq(s, 1, i - 1)
           b == SubSeq(s, i + 1, Len(s))
<1>0. Len(s) \in Nat /\ i \in Nat /\ i >= 1 /\ i <= Len(s)
  OBVIOUS
<1>1. a \in Seq(S) /\ Len(a) = i - 1 /\ \A j \in 1 .. i - 1 : a[j] = s[j]
  OBVIOUS
<1>2. /\ b \in Seq(S) /\ Len(b) = Len(s) - i
      /\ \A j \in 1 .. Len(s) - i : b[j] = s[i + j]
  OBVIOUS
<1>3. RemoveAt(s, i) = a \o b
  BY DEF RemoveAt
<1> HIDE DEF a, b
<1>4. a \o b \in Seq(S) /\ Len(a \o b) = Len(s) - 1
  <2>1. a \o b \in Seq(S) /\ Len(a \o b) = Len(a) + Len(b)
    BY <1>1, <1>2, ConcatProperties
  <2> QED BY <2>1, <1>0, <1>1, <1>2
<1>5. ASSUME NEW j \in 1 .. Len(s) - 1
      PROVE (a \o b)[j] = IF j < i THEN a[j] ELSE b[j - (i - 1)]
  <2>1. j \in 1 .. Len(a) + Len(b)
    BY <1>0, <1>1, <1>2
  <2>2. (a \o b)[j] = IF j <= Len(a) THEN a[j] ELSE b[j - Len(a)]
    BY <2>1, <1>1, <1>2, ConcatProperties
  <2> QED BY <2>2, <1>0, <1>1
<1>6. ASSUME NEW j \in 1 .. Len(s) - 1
      PROVE RemoveAt(s, i)[j] = IF j < i THEN s[j] ELSE s[j + 1]
  <2>1. CASE j < i
    BY <2>1, <1>0, <1>1, <1>3, <1>5
  <2>2. CASE ~(j < i)
    <3>1. j - (i - 1) \in 1 .. Len(s) - i /\ i + (j - (i - 1)) = j + 1
      BY <2>2, <1>0
    <3> QED BY <3>1, <2>2, <1>0, <1>2, <1>3, <1>5
  <2> QED BY <2>1, <2>2
<1> QED BY <1>3, <1>4, <1>6

(* A sequence that is not empty, its last element and what is before it.  *)
LEMMA FrontAndLast ==
  ASSUME NEW S, NEW s \in Seq(S), s # << >>
  PROVE  /\ Len(s) \in Nat \ {0}
         /\ Last(s) = s[Len(s)]
         /\ Last(s) \in S
         /\ Front(s) \in Seq(S)
         /\ Len(Front(s)) = Len(s) - 1
         /\ \A i \in 1 .. Len(s) - 1 : Front(s)[i] = s[i]
<1>1. Len(s) \in Nat \ {0}
  BY EmptySeq
<1>2. Last(s) = s[Len(s)] /\ Last(s) \in S
  BY <1>1 DEF Last
<1> DEFINE n == Len(s) - 1
<1>3. n \in Int /\ \A i \in 1 .. n : s[i] \in S
  BY <1>1
<1>4. Front(s) = SubSeq(s, 1, n)
  BY DEF Front
<1> HIDE DEF n
<1>5. /\ Front(s) \in Seq(S)
      /\ Len(Front(s)) = IF 1 <= n THEN n - 1 + 1 ELSE 0
      /\ \A i \in 1 .. n - 1 + 1 : Front(s)[i] = s[1 + i - 1]
  BY <1>3, <1>4, SubSeqProperties
<1> USE DEF n
<1>6. Len(Front(s)) = n
  <2>1. n \in Nat /\ Len(Front(s)) = IF 1 <= n THEN n - 1 + 1 ELSE 0
    BY <1>1, <1>5
  <2> HIDE DEF n
  <2>2. (IF 1 <= n THEN n - 1 + 1 ELSE 0) = n
    BY <2>1
  <2> QED BY <2>1, <2>2
<1>7. ASSUME NEW i \in 1 .. Len(s) - 1 PROVE Front(s)[i] = s[i]
  <2>1. 1 + i - 1 = i /\ i \in 1 .. n - 1 + 1
    BY <1>1
  <2> QED BY <2>1, <1>5
<1> QED BY <1>1, <1>2, <1>5, <1>6, <1>7

-----------------------------------------------------------------------------
(* The handle table, for every size of it.                                 *)

(* What one allocation and one release do to the invariants; the modules   *)
(* that build on the table cite these two lemmas.                          *)
LEMMA AllocateKeepsTable ==
  ASSUME TableTypeOK, TableOK, NEW h \in Handles, Allocate(h)
  PROVE  TableTypeOK' /\ TableOK'
<1> USE TableAssumption DEF TableTypeOK, TableOK, Allocate, NewHandle, RootHandle
<1>1. live' \subseteq Handles /\ count' \in Nat
  OBVIOUS
<1>2. CASE h >= length
  <2>1. h = length /\ length' = length + 1
    BY <1>2
  <2>2. nextHandle' \in 1 .. length' /\ nextHandle' # 1
    <3>1. CASE PowerOfTwo(h)
      <4>1. nextHandle' = Larger(2, h \div 2)
        BY <1>2, <3>1
      <4>2. h \div 2 \in Nat /\ h \div 2 <= h
        BY <2>1
      <4>3. h >= 2
        BY <2>1
      <4> QED BY <4>1, <4>2, <4>3, <2>1 DEF Larger
    <3>2. CASE ~PowerOfTwo(h)
      BY <1>2, <2>1, <3>2
    <3> QED BY <3>1, <3>2
  <2> QED BY <1>1, <2>1, <2>2
<1>3. CASE h < length
  <2>1. nextHandle' = h /\ length' = length
    BY <1>3
  <2>2. h \in 2 .. length - 1
    BY <1>3
  <2> QED BY <1>1, <2>1, <2>2
<1> QED BY <1>2, <1>3

(* Clearing a slot keeps the search and the bounds of the table.           *)
LEMMA FreeKeepsTable ==
  ASSUME TableTypeOK, TableOK, count > 0, NEW h \in Handles, Free(h)
  PROVE  TableTypeOK' /\ TableOK'
BY TableAssumption DEF TableTypeOK, TableOK, Free, RootHandle

(* The count follows each allocation ...                                   *)
LEMMA AllocateCounts ==
  ASSUME IsFiniteSet(live), CountIsLive, NEW h, Allocate(h)
  PROVE  IsFiniteSet(live') /\ CountIsLive'
<1>1. h \notin live /\ live' = live \cup {h} /\ count' = count + 1
  BY DEF Allocate, NewHandle
<1>2. Cardinality(live \cup {h}) = Cardinality(live) + 1
  BY <1>1, FS_AddElement
<1> QED BY <1>1, <1>2, FS_AddElement DEF CountIsLive

(* ... and each release.                                                   *)
LEMMA FreeCounts ==
  ASSUME IsFiniteSet(live), CountIsLive, NEW h, Free(h)
  PROVE  IsFiniteSet(live') /\ CountIsLive' /\ count > 0
<1>1. h \in live /\ live' = live \ {h} /\ count' = count - 1
  BY DEF Free
<1>2. Cardinality(live \ {h}) = Cardinality(live) - 1 /\ IsFiniteSet(live \ {h})
  BY <1>1, FS_RemoveElement
<1>3. Cardinality(live) \in Nat /\ Cardinality(live) # 0
  BY <1>1, FS_CardinalityType, FS_EmptySet
<1> QED BY <1>1, <1>2, <1>3 DEF CountIsLive

(* The invariant of the table: its count is about a finite set.            *)
TableInv == TableTypeOK /\ TableOK /\ IsFiniteSet(live) /\ CountIsLive

(* It holds after the root object was spawned.                             *)
LEMMA TableInitially == TableInit => TableInv
<1> SUFFICES ASSUME TableInit PROVE TableInv
  OBVIOUS
<1>1. IsFiniteSet(live) /\ Cardinality(live) = 1
  BY FS_Singleton DEF TableInit
<1> QED
  BY <1>1, TableAssumption
  DEF TableInit, TableInv, TableTypeOK, TableOK, CountIsLive, Handles, RootHandle

-----------------------------------------------------------------------------
(* The tree.                                                               *)

(* An entry that occurs once is gone after RemoveAt(), the others stay:    *)
(* t is s without its i-th entry.                                          *)
Distinct(s) == \A j, k \in 1 .. Len(s) : s[j] = s[k] => j = k

Removed(s, i, t) ==
  /\ Distinct(t)
  /\ \A j \in 1 .. Len(t) : t[j] # s[i] /\ \E k \in 1 .. Len(s) : t[j] = s[k]
  /\ \A j \in 1 .. Len(s) : j # i => \E k \in 1 .. Len(t) : t[k] = s[j]

(* RemoveAt() on a list without repetitions takes out just that entry.     *)
LEMMA RemovedOnce ==
  ASSUME NEW S, NEW s \in Seq(S), NEW i \in 1 .. Len(s), Distinct(s),
         NEW t, t = RemoveAt(s, i)
  PROVE  t \in Seq(S) /\ Removed(s, i, t)
<1>1. /\ t \in Seq(S) /\ Len(t) = Len(s) - 1
      /\ \A j \in 1 .. Len(s) - 1 : t[j] = IF j < i THEN s[j] ELSE s[j + 1]
  BY RemoveAtFacts, Zenon
<1>0. Len(s) \in Nat /\ i \in Nat /\ i >= 1 /\ i <= Len(s)
  OBVIOUS
<1> DEFINE old(j) == IF j < i THEN j ELSE j + 1
<1>2. ASSUME NEW j \in 1 .. Len(t)
      PROVE  t[j] = s[old(j)] /\ old(j) \in 1 .. Len(s) /\ old(j) # i
  BY <1>0, <1>1
<1>3. ASSUME NEW j \in 1 .. Len(s), j # i
      PROVE  \E k \in 1 .. Len(t) : t[k] = s[j]
  <2>1. CASE j < i
    BY <2>1, <1>0, <1>1
  <2>2. CASE j > i
    <3>1. j - 1 \in 1 .. Len(t) /\ ~(j - 1 < i) /\ (j - 1) + 1 = j
      BY <2>2, <1>0, <1>1
    <3> QED BY <3>1, <1>1
  <2> QED BY <2>1, <2>2, <1>3, <1>0
<1>4. ASSUME NEW j \in 1 .. Len(t), NEW k \in 1 .. Len(t), t[j] = t[k]
      PROVE  j = k
  <2>1. s[old(j)] = s[old(k)] /\ old(j) \in 1 .. Len(s) /\ old(k) \in 1 .. Len(s)
    BY <1>2, <1>4, Zenon
  <2>2. old(j) = old(k)
    BY <2>1, Zenon DEF Distinct
  <2> QED BY <2>2, <1>0, <1>1
<1>5. \A j \in 1 .. Len(t) : t[j] # s[i] /\ \E k \in 1 .. Len(s) : t[j] = s[k]
  BY <1>2 DEF Distinct
<1>6. Distinct(t)
  BY <1>4 DEF Distinct
<1> QED BY <1>1, <1>3, <1>5, <1>6 DEF Removed

-----------------------------------------------------------------------------

(* DestroyedOnce as it holds in every state of the model, which goes no    *)
(* further when a sweep has deleted an object in use.                      *)
EnteredOnce ==
  \A i, j \in 1 .. Len(destroying) :
    /\ destroying[i] = destroying[j] => i = j
    /\ destroying[i] \in live
    /\ i \notin {1, sweeping} => parent[destroying[i]] = destroying[i]

(* The call stack of the destruction: what is on it exists and is there    *)
(* once; an inner object was unlinked by the loop that entered it, or is   *)
(* what a sweep deletes; only the innermost destructor can be running, and *)
(* the one that asked for the sweep; and an object whose destructor has    *)
(* returned is unlinked from its parent and is in its loop.                *)
CallsOK ==
  /\ EnteredOnce
  /\ \A i \in 1 .. Len(destroying) - 1 :
       cursor[destroying[i]] > 0 \/ i + 1 = sweeping
  /\ \A h \in Handles :
       cursor[h] > 0 =>
         /\ parent[h] = h
         /\ cursor[h] <= Len(child[h]) + 1
         /\ \E i \in 1 .. Len(destroying) : destroying[i] = h

(* A handle that is not in use has no links, so the next object that gets  *)
(* it starts with none.                                                    *)
UnusedUnlinked ==
  \A h \in Handles \ live : parent[h] = h /\ child[h] = << >>

(* The object that a sweep deletes has no parent that is in its loop; and  *)
(* the object whose destructor asked for the sweep is not below it in the  *)
(* tree, nor below what is destroyed with it: it is in a set of objects    *)
(* that holds the parents of its members and none of those.                *)
SweepOK ==
  sweeping # 0 =>
    /\ sweeping \in 1 .. Len(destroying)
    /\ parent[destroying[sweeping]] # destroying[sweeping] =>
         cursor[parent[destroying[sweeping]]] = 0
    /\ \E S \in SUBSET live :
         /\ \A x \in S : parent[x] \in S
         /\ sweeping > 1 => destroying[sweeping - 1] \in S
         /\ \A i \in sweeping .. Len(destroying) : destroying[i] \notin S

TreeInv ==
  TypeOK /\ TableInv /\ CallsOK /\ SweepOK /\ LinksAgree /\ UnusedUnlinked

(* What the proofs use of a call stack that is not empty.                  *)
LEMMA OnTop ==
  ASSUME TypeOK, destroying # << >>
  PROVE  /\ Len(destroying) \in Nat \ {0}
         /\ Last(destroying) = destroying[Len(destroying)]
         /\ Last(destroying) \in Handles
         /\ Front(destroying) \in Seq(Handles)
         /\ Len(Front(destroying)) = Len(destroying) - 1
         /\ \A i \in 1 .. Len(destroying) - 1 :
              Front(destroying)[i] = destroying[i]
<1>1. destroying \in Seq(Handles)
  BY DEF TypeOK
<1> QED BY <1>1, FrontAndLast

(* What the invariant says of each activation on the call stack.           *)
LEMMA Called ==
  ASSUME TreeInv, NEW i \in 1 .. Len(destroying)
  PROVE  /\ destroying[i] \in live
         /\ i \notin {1, sweeping} => parent[destroying[i]] = destroying[i]
         /\ cursor[destroying[i]] > 0 => parent[destroying[i]] = destroying[i]
         /\ i < Len(destroying) => cursor[destroying[i]] > 0 \/ i + 1 = sweeping
         /\ \A j \in 1 .. Len(destroying) :
              destroying[i] = destroying[j] => i = j
<1>1. Len(destroying) \in Nat
  BY DEF TreeInv, TypeOK
<1>2. i < Len(destroying) => cursor[destroying[i]] > 0 \/ i + 1 = sweeping
  BY <1>1 DEF TreeInv, CallsOK
<1>3. EnteredOnce
  BY DEF TreeInv, CallsOK
<1>4. destroying[i] \in live
  BY <1>3, Zenon DEF EnteredOnce
<1>5. cursor[destroying[i]] > 0 => parent[destroying[i]] = destroying[i]
  BY <1>4 DEF TreeInv, CallsOK, TypeOK, TableTypeOK
<1> QED BY <1>2, <1>3, <1>5, Zenon DEF EnteredOnce

(* Between two destructions no sweep is in progress.                       *)
LEMMA NoCallsNoSweep ==
  ASSUME TreeInv, destroying = << >>
  PROVE  sweeping = 0
BY DEF TreeInv, SweepOK

(* A step that keeps the calls and the parents keeps what is known of the  *)
(* sweep.                                                                  *)
LEMMA SweepStays ==
  ASSUME TreeInv, sweeping' = sweeping, destroying' = destroying, cursor' = cursor,
         live \subseteq live', \A x \in live : parent'[x] = parent[x]
  PROVE  SweepOK'
<1> SUFFICES ASSUME sweeping # 0 PROVE SweepOK'
  BY DEF SweepOK
<1>1. sweeping \in 1 .. Len(destroying)
  BY DEF TreeInv, SweepOK
<1>2. destroying[sweeping] \in live
  BY <1>1, Called
<1>3. PICK S \in SUBSET live :
        /\ \A x \in S : parent[x] \in S
        /\ sweeping > 1 => destroying[sweeping - 1] \in S
        /\ \A i \in sweeping .. Len(destroying) : destroying[i] \notin S
  BY DEF TreeInv, SweepOK
<1>4. S \in SUBSET live' /\ \A x \in S : parent'[x] \in S
  BY <1>3
<1>5. parent'[destroying[sweeping]] # destroying[sweeping] =>
        cursor[parent'[destroying[sweeping]]] = 0
  BY <1>2 DEF TreeInv, SweepOK
<1> QED BY <1>1, <1>3, <1>4, <1>5 DEF SweepOK

(* The object that a sweep deletes is unlinked when its loop goes on.      *)
LEMMA SweptUnlinked ==
  ASSUME TreeInv, sweeping # 0
  PROVE  /\ sweeping \in 1 .. Len(destroying)
         /\ \/ parent[destroying[sweeping]] = destroying[sweeping]
            \/ sweeping = Len(destroying)
<1>1. sweeping \in 1 .. Len(destroying) /\ Len(destroying) \in Nat
  BY DEF TreeInv, SweepOK, TypeOK
<1>2. ASSUME sweeping # Len(destroying)
      PROVE  parent[destroying[sweeping]] = destroying[sweeping]
  <2>1. sweeping < Len(destroying) /\ ~(sweeping + 1 = sweeping)
    BY <1>1, <1>2
  <2> QED BY <1>1, <2>1, Called
<1> QED BY <1>1, <1>2

(* A sweep goes on: the sets that are apart from what it destroys stay.    *)
Apart(S) ==
  /\ S \subseteq live
  /\ \A x \in S : parent[x] \in S
  /\ \A i \in sweeping .. Len(destroying) : destroying[i] \notin S

LEMMA SweepGoesOn ==
  ASSUME TreeInv, sweeping # 0, sweeping' = sweeping,
         sweeping \in 1 .. Len(destroying'),
         \A i \in 1 .. sweeping : destroying'[i] = destroying[i],
         parent'[destroying[sweeping]] = destroying[sweeping],
         \A S : Apart(S) => Apart(S)'
  PROVE  SweepOK'
<1>1. PICK S : Apart(S) /\ (sweeping > 1 => destroying[sweeping - 1] \in S)
  BY DEF TreeInv, SweepOK, Apart
<1>2. Apart(S)'
  BY <1>1
<1>3. sweeping > 1 => destroying'[sweeping - 1] = destroying[sweeping - 1]
  <2>1. sweeping \in Nat
    BY DEF TreeInv, TypeOK
  <2>2. sweeping > 1 => sweeping - 1 \in 1 .. sweeping
    BY <2>1
  <2> QED BY <2>2
<1>4. destroying'[sweeping] = destroying[sweeping]
  OBVIOUS
<1>5. /\ S \in SUBSET live' /\ \A x \in S : parent'[x] \in S
      /\ sweeping > 1 => destroying'[sweeping - 1] \in S
      /\ \A i \in sweeping .. Len(destroying') : destroying'[i] \notin S
  BY <1>1, <1>2, <1>3 DEF Apart
<1> QED BY <1>4, <1>5 DEF SweepOK

(* A list that no destruction walks through is pending as a whole.         *)
LEMMA AtRest ==
  ASSUME TreeInv, NEW p \in live, cursor[p] = 0
  PROVE  Pending(p) = 1 .. Len(child[p])
BY DEF TreeInv, TypeOK, TableTypeOK, Pending

(* Between two destructions no list is being walked through.              *)
LEMMA NoCallsNoCursors ==
  ASSUME TreeInv, destroying = << >>
  PROVE  \A h \in Handles : cursor[h] = 0
BY DEF TreeInv, TypeOK, CallsOK

(* The invariant holds initially.                                          *)
LEMMA TreeInitially == Init => TreeInv
<1> SUFFICES ASSUME Init PROVE TreeInv
  OBVIOUS
<1>1. TableInv
  BY TableInitially DEF Init
<1>2. destroying = << >> /\ sweeping = 0 /\ live = {RootHandle}
  BY DEF Init, TableInit
<1>3. TypeOK
  <2>1. << >> \in Seq(Handles)
    OBVIOUS
  <2> QED BY <1>1, <2>1 DEF Init, TypeOK, TableInv
<1>4. CallsOK
  BY <1>2 DEF Init, CallsOK, EnteredOnce
<1>5. SweepOK
  BY <1>2 DEF SweepOK
<1>6. \A h \in Handles : parent[h] = h /\ child[h] = << >>
  BY DEF Init
<1>7. LinksAgree /\ UnusedUnlinked
  BY <1>1, <1>6 DEF LinksAgree, Pending, UnusedUnlinked, TableInv, TableTypeOK
<1> QED
  BY <1>1, <1>3, <1>4, <1>5, <1>7 DEF TreeInv

-----------------------------------------------------------------------------

(* How a spawn, wherever it is made, keeps the links: the new handle is in *)
(* no list that is still followed, because what those list exists.         *)
LEMMA SpawnStep ==
  ASSUME TreeInv, NEW p \in live, NEW h \in Handles, SpawnAt(p, h)
  PROVE  TreeInv'
<1> USE DEF TreeInv
<1>1. /\ h \notin live /\ live' = live \cup {h} /\ p # h
      /\ Allocate(h) /\ live \subseteq Handles /\ p \in Handles
      /\ killed' = killed /\ destroying' = destroying /\ cursor' = cursor
      /\ sweeping' = sweeping /\ overtaken' = overtaken
  BY DEF SpawnAt, Allocate, NewHandle, TypeOK, TableTypeOK, sweepVars
<1>2. TableInv'
  BY <1>1, AllocateKeepsTable, AllocateCounts DEF TableInv
<1>3. cursor[h] = 0 /\ parent[h] = h /\ child[h] = << >>
  <2>1. \A i \in 1 .. Len(destroying) : destroying[i] # h
    BY <1>1, Zenon DEF CallsOK, EnteredOnce
  <2>2. parent[h] = h /\ child[h] = << >>
    BY <1>1 DEF UnusedUnlinked
  <2>3. ~(cursor[h] > 0) /\ cursor[h] \in Nat
    BY <2>1 DEF CallsOK, TypeOK
  <2> QED BY <2>2, <2>3
<1>4. CASE Contains(child[p], h)
  <2>1. parent' = parent /\ child' = child /\ depth' = depth
    BY <1>4 DEF SpawnAt
  <2>2. TypeOK'
    BY <1>1, <1>2, <2>1 DEF TypeOK, TableInv
  <2>3. CallsOK' /\ UnusedUnlinked'
    BY <1>1, <2>1 DEF CallsOK, EnteredOnce, UnusedUnlinked
  <2>4. \A q \in Handles : Pending(q)' = Pending(q)
    BY <1>1, <2>1 DEF Pending
  <2>5. LinksAgree'
    BY <1>1, <1>3, <2>1, <2>4 DEF LinksAgree, Pending
  <2>6. SweepOK'
    BY <1>1, <2>1, SweepStays
  <2> QED BY <1>2, <2>2, <2>3, <2>5, <2>6
<1>5. CASE ~Contains(child[p], h)
  <2>1. /\ child' = [child EXCEPT ![p] = Append(@, h)]
        /\ parent' = [parent EXCEPT ![h] = p]
        /\ depth' = [depth EXCEPT ![h] = 1 + depth[p]]
    BY <1>5 DEF SpawnAt
  <2>2. /\ \A q \in Handles : q # p => child'[q] = child[q]
        /\ \A q \in Handles : q # h => parent'[q] = parent[q]
        /\ parent'[h] = p /\ child[p] \in Seq(Handles)
    BY <1>1, <2>1 DEF TypeOK
  <2>3. /\ child'[p] \in Seq(Handles)
        /\ Len(child'[p]) = Len(child[p]) + 1 /\ Len(child[p]) \in Nat
        /\ child'[p][Len(child[p]) + 1] = h
        /\ \A i \in 1 .. Len(child[p]) : child'[p][i] = child[p][i]
    <3>1. child'[p] = Append(child[p], h)
      BY <1>1, <2>1 DEF TypeOK
    <3> QED BY <1>1, <2>2, <3>1
  <2>4. TypeOK'
    <3>1. child' \in [Handles -> Seq(Handles)]
      BY <1>1, <2>1, <2>2, <2>3 DEF TypeOK
    <3>2. parent' \in [Handles -> Handles]
      BY <1>1, <2>1 DEF TypeOK
    <3>3. depth' \in [Handles -> Nat]
      <4>1. depth \in [Handles -> Nat] /\ 1 + depth[p] \in Nat
        BY <1>1 DEF TypeOK
      <4> QED BY <2>1, <4>1
    <3> QED BY <1>1, <1>2, <3>1, <3>2, <3>3 DEF TypeOK, TableInv
  <2>5. CallsOK'
    <3>1. EnteredOnce'
      BY <1>1, <1>3, <2>2 DEF CallsOK, EnteredOnce
    <3>2. ASSUME NEW k \in Handles, cursor[k] > 0
          PROVE  parent'[k] = k /\ cursor[k] <= Len(child'[k]) + 1
      <4>1. k # h /\ parent[k] = k /\ cursor[k] <= Len(child[k]) + 1
        BY <1>3, <3>2 DEF CallsOK
      <4>2. parent'[k] = k
        BY <2>2, <4>1
      <4>3. cursor[k] \in Nat
        BY DEF TypeOK
      <4>4. CASE k = p
        BY <2>3, <4>1, <4>2, <4>3, <4>4
      <4>5. CASE k # p
        BY <2>2, <4>1, <4>2, <4>5
      <4> QED BY <4>4, <4>5
    <3> QED BY <1>1, <3>1, <3>2 DEF CallsOK
  <2>6. UnusedUnlinked'
    BY <1>1, <2>2 DEF UnusedUnlinked
  <2>7. LinksAgree'
    <3>1. \A q \in Handles : q # p => Pending(q)' = Pending(q)
      BY <1>1, <2>2 DEF Pending
    <3>2. Pending(p) \subseteq 1 .. Len(child[p])
      BY DEF Pending
    <3>3. Pending(p)' = Pending(p) \cup {Len(child[p]) + 1}
      <4>1. cursor[p] \in Nat /\ cursor'[p] = cursor[p]
        BY <1>1 DEF TypeOK
      <4>2. cursor[p] <= Len(child[p]) + 1
        BY <1>1, <2>3, <4>1 DEF CallsOK
      <4> QED BY <2>3, <4>1, <4>2 DEF Pending
    <3>4. ASSUME NEW q \in live, NEW i \in Pending(q)
          PROVE  child[q][i] \in live \ {q, h} /\ parent[child[q][i]] = q
      BY <1>1 DEF LinksAgree
    <3>5. Pending(h) = {} /\ Pending(h)' = {}
      BY <1>1, <1>3, <2>2 DEF Pending
    <3>6. ASSUME NEW q \in live', NEW i \in Pending(q)'
          PROVE  /\ child'[q][i] \in live' \ {q}
                 /\ parent'[child'[q][i]] = q
                 /\ \A j \in Pending(q)' : child'[q][i] = child'[q][j] => i = j
      <4>1. q \in live
        BY <1>1, <3>5, <3>6
      <4>2. CASE q # p
        BY <1>1, <2>2, <3>1, <3>4, <3>6, <4>1, <4>2 DEF LinksAgree
      <4>3. CASE q = p
        <5>1. ASSUME NEW j \in Pending(p)
              PROVE  child'[p][j] = child[p][j] /\ child'[p][j] \in live \ {p, h}
                     /\ parent'[child'[p][j]] = p
          BY <1>1, <2>2, <2>3, <3>2, <3>4
        <5>2. \A j, k \in Pending(p) : child[p][j] = child[p][k] => j = k
          BY DEF LinksAgree
        <5> QED BY <1>1, <2>2, <2>3, <3>3, <3>6, <4>3, <5>1, <5>2
      <4> QED BY <4>2, <4>3
    <3>7. ASSUME NEW q \in live', parent'[q] # q
          PROVE  /\ parent'[q] \in live'
                 /\ \E i \in Pending(parent[q])' : child'[parent'[q]][i] = q
      <4>1. CASE q = h
        BY <1>1, <2>2, <2>3, <3>3, <4>1
      <4>2. CASE q # h
        <5>1. q \in live /\ parent'[q] = parent[q] /\ parent[q] \in live
          BY <1>1, <2>2, <3>7, <4>2 DEF LinksAgree
        <5>2. PICK i \in Pending(parent[q]) : child[parent[q]][i] = q
          BY <3>7, <5>1 DEF LinksAgree
        <5>3. CASE parent[q] = p
          <6>1. i \in Pending(p)' /\ child'[p][i] = q
            BY <2>3, <3>2, <3>3, <5>2, <5>3
          <6> QED BY <1>1, <5>1, <5>3, <6>1
        <5>4. CASE parent[q] # p
          BY <1>1, <2>2, <3>1, <5>1, <5>2, <5>4
        <5> QED BY <5>3, <5>4
      <4> QED BY <4>1, <4>2
    <3> QED BY <3>6, <3>7 DEF LinksAgree
  <2>8. SweepOK'
    BY <1>1, <2>2, SweepStays
  <2> QED BY <1>2, <2>4, <2>5, <2>6, <2>7, <2>8
<1> QED BY <1>4, <1>5

(* Kill() and Terminate touch no link.                                     *)
LEMMA FlagStep ==
  ASSUME TreeInv, NEW o, Flag(o)
  PROVE  TreeInv'
<1> USE DEF TreeInv
<1>1. /\ live' = live /\ killed' \subseteq live
      /\ destroying' = destroying /\ cursor' = cursor
      /\ parent' = parent /\ child' = child /\ depth' = depth
      /\ sweeping' = sweeping /\ overtaken' = overtaken
  BY DEF Flag, TypeOK, tableVars, sweepVars
<1>2. TableInv' /\ TableTypeOK'
  BY DEF Flag, TableInv, TableTypeOK, TableOK, CountIsLive, tableVars
<1>3. TypeOK'
  BY <1>1, <1>2 DEF TypeOK
<1>4. CallsOK'
  BY <1>1 DEF CallsOK, EnteredOnce
<1>5. LinksAgree' /\ UnusedUnlinked'
  BY <1>1 DEF LinksAgree, Pending, UnusedUnlinked
<1>6. SweepOK'
  BY <1>1, SweepStays
<1> QED BY <1>2, <1>3, <1>4, <1>5, <1>6

(* The stack of calls begins with the object that is deleted.             *)
LEMMA DeleteKilledStep ==
  ASSUME TreeInv, NEW o \in Handles, DeleteKilled(o)
  PROVE  TreeInv'
<1> USE DEF TreeInv
<1>1. /\ o \in live /\ destroying' = <<o>> /\ cursor' = cursor
      /\ \A h \in Handles : cursor[h] = 0
      /\ live' = live /\ killed' = killed
      /\ parent' = parent /\ child' = child /\ depth' = depth
      /\ sweeping' = 0 /\ overtaken' = overtaken
  BY NoCallsNoCursors, NoCallsNoSweep DEF DeleteKilled, TypeOK, tableVars, treeVars, sweepVars
<1>2. Len(destroying') = 1 /\ destroying'[1] = o /\ destroying' \in Seq(Handles)
  BY <1>1
<1>3. TableInv' /\ TableTypeOK'
  BY DEF DeleteKilled, TableInv, TableTypeOK, TableOK, CountIsLive, tableVars
<1>4. TypeOK'
  BY <1>1, <1>2, <1>3 DEF TypeOK
<1>5. CallsOK'
  BY <1>1, <1>2 DEF CallsOK, EnteredOnce
<1>6. LinksAgree' /\ UnusedUnlinked' /\ SweepOK'
  BY <1>1 DEF LinksAgree, Pending, UnusedUnlinked, SweepOK
<1> QED BY <1>3, <1>4, <1>5, <1>6

-----------------------------------------------------------------------------

(* The destructor has returned: the object leaves its parent's list, which *)
(* no destruction is walking through, and its own loop begins.             *)
LEMMA DestructorReturnsStep ==
  ASSUME TreeInv, DestructorReturns,
         NEW o, o = Last(destroying), NEW p, p = parent[o]
  PROVE  TreeInv'
<1> USE DEF TreeInv
<1>1. /\ destroying # << >> /\ cursor[o] = 0 /\ o \in Handles
      /\ cursor' = [cursor EXCEPT ![o] = 1]
      /\ live' = live /\ killed' = killed /\ destroying' = destroying
      /\ o = destroying[Len(destroying)] /\ Len(destroying) \in Nat \ {0}
      /\ sweeping' = sweeping /\ overtaken' = overtaken
  BY OnTop DEF DestructorReturns, tableVars, sweepVars
<1>2. /\ \A h \in Handles : h # o => cursor'[h] = cursor[h]
      /\ cursor'[o] = 1 /\ cursor' \in [Handles -> Nat]
  BY <1>1 DEF TypeOK
<1>3. o \in live /\ live \subseteq Handles
  <2>1. Len(destroying) \in 1 .. Len(destroying)
    BY <1>1
  <2>2. o \in live
    BY <1>1, <2>1, Zenon DEF CallsOK, EnteredOnce
  <2> QED BY <2>2 DEF TypeOK, TableTypeOK
<1>4. TableInv' /\ TableTypeOK'
  BY DEF DestructorReturns, TableInv, TableTypeOK, TableOK, CountIsLive, tableVars
<1>5. /\ \A q \in Handles : child[q] \in Seq(Handles) /\ Len(child[q]) \in Nat
      /\ Pending(o) = 1 .. Len(child[o])
  BY <1>1 DEF TypeOK, Pending
<1>6. ASSUME parent'[o] = o, \A q \in live : q # o => parent'[q] = parent[q]
      PROVE  SweepOK'
  <2> SUFFICES ASSUME sweeping # 0 PROVE SweepOK'
    BY <1>1 DEF SweepOK
  <2>1. sweeping \in 1 .. Len(destroying)
    BY SweptUnlinked
  <2>2. destroying[sweeping] \in live
    BY <2>1, Called
  <2>3. parent'[destroying[sweeping]] = destroying[sweeping]
    BY <1>1, <1>6, <2>2, SweptUnlinked
  <2>4. ASSUME NEW S, Apart(S) PROVE Apart(S)'
    <3>1. Len(destroying) \in sweeping .. Len(destroying)
      BY <1>1, <2>1
    <3>2. o \notin S
      BY <1>1, <2>4, <3>1 DEF Apart
    <3> QED BY <1>1, <1>6, <2>4, <3>2 DEF Apart
  <2> QED BY <1>1, <2>1, <2>3, <2>4, SweepGoesOn
<1>7. CASE p = o
  <2>1. parent' = parent /\ child' = child /\ depth' = depth
    BY <1>7 DEF DestructorReturns
  <2>2. TypeOK'
    BY <1>1, <1>2, <1>4, <2>1 DEF TypeOK
  <2>3. CallsOK'
    <3>1. EnteredOnce'
      BY <1>1, <2>1 DEF CallsOK, EnteredOnce
    <3>2. \A i \in 1 .. Len(destroying) - 1 : cursor'[destroying[i]] > 0 \/ i + 1 = sweeping
      <4>1. ASSUME NEW j \in 1 .. Len(destroying) - 1
            PROVE  /\ destroying[j] # o /\ destroying[j] \in Handles
                   /\ cursor[destroying[j]] > 0 \/ j + 1 = sweeping
        <5>1. /\ j \in 1 .. Len(destroying) /\ j < Len(destroying)
              /\ Len(destroying) \in 1 .. Len(destroying)
          BY <1>1
        <5> QED BY <1>1, <1>3, <5>1, Called
      <4> QED BY <1>2, <4>1
    <3>3. ASSUME NEW h \in Handles, cursor'[h] > 0
          PROVE  /\ parent'[h] = h /\ cursor'[h] <= Len(child'[h]) + 1
                 /\ \E i \in 1 .. Len(destroying) : destroying[i] = h
      <4>1. CASE h = o
        BY <1>1, <1>2, <1>5, <1>7, <2>1, <4>1
      <4>2. CASE h # o
        BY <1>2, <2>1, <3>3, <4>2 DEF CallsOK
      <4> QED BY <4>1, <4>2
    <3> QED BY <1>1, <3>1, <3>2, <3>3 DEF CallsOK
  <2>4. \A q \in Handles : Pending(q)' = Pending(q)
    BY <1>1, <1>2, <1>5, <2>1 DEF Pending
  <2>5. LinksAgree' /\ UnusedUnlinked'
    BY <1>1, <1>3, <2>1, <2>4 DEF LinksAgree, UnusedUnlinked
  <2>6. SweepOK'
    BY <1>6, <1>7, <2>1
  <2> QED BY <1>4, <2>2, <2>3, <2>5, <2>6
<1>8. CASE p # o
  <2>1. /\ p \in live /\ RemoveChild(p, o)
        /\ \E i \in Pending(p) : child[p][i] = o
    BY <1>3, <1>8 DEF DestructorReturns, LinksAgree
  <2>2. cursor[p] = 0 /\ Pending(p) = 1 .. Len(child[p])
    <3>1. Len(destroying) \in 1 .. Len(destroying) /\ cursor[p] \in Nat
      BY <1>1, <1>3, <2>1 DEF TypeOK
    <3>2. Len(destroying) \in {1, sweeping}
      BY <1>1, <1>8, <3>1, Called
    <3>3. ASSUME Len(destroying) = 1 PROVE cursor[p] = 0
      <4>1. \A i \in 1 .. Len(destroying) : destroying[i] = o
        BY <1>1, <3>3
      <4>2. ~(cursor[p] > 0)
        BY <1>3, <1>8, <2>1, <4>1 DEF CallsOK
      <4> QED BY <3>1, <4>2
    <3>4. ASSUME Len(destroying) = sweeping PROVE cursor[p] = 0
      <4>1. sweeping # 0 /\ destroying[sweeping] = o
        BY <1>1, <3>4
      <4> QED BY <1>8, <4>1 DEF SweepOK
    <3> QED BY <2>1, <3>2, <3>3, <3>4, AtRest
  <2>3. PICK i \in 1 .. Len(child[p]) :
          /\ child[p][i] = o
          /\ child' = [child EXCEPT ![p] = RemoveAt(@, i)]
          /\ parent' = [parent EXCEPT ![o] = o]
          /\ depth' = [depth EXCEPT ![o] = 0]
    BY <2>1, <2>2 DEF RemoveChild
  <2>4. /\ child'[p] = RemoveAt(child[p], i)
        /\ \A q \in Handles : q # p => child'[q] = child[q]
        /\ \A q \in Handles : q # o => parent'[q] = parent[q]
        /\ parent'[o] = o
        /\ parent' \in [Handles -> Handles] /\ depth' \in [Handles -> Nat]
    BY <1>1, <1>3, <2>1, <2>3 DEF TypeOK
  <2>5. Distinct(child[p])
    BY <2>1, <2>2 DEF LinksAgree, Distinct
  <2>6. child'[p] \in Seq(Handles) /\ Removed(child[p], i, child'[p])
    <3>1. child[p] \in Seq(Handles)
      BY <1>3, <1>5, <2>1
    <3> QED BY <2>4, <2>5, <3>1, RemovedOnce
  <2>7. TypeOK'
    <3>1. child' \in [Handles -> Seq(Handles)]
      <4>1. child' = [q \in Handles |-> child'[q]]
        BY <2>3 DEF TypeOK
      <4>2. \A q \in Handles : child'[q] \in Seq(Handles)
        BY <1>5, <2>4, <2>6
      <4> QED BY <4>1, <4>2
    <3> QED BY <1>1, <1>2, <1>4, <2>4, <3>1 DEF TypeOK
  <2>8. cursor'[p] = 0
    BY <1>2, <1>3, <1>8, <2>1, <2>2
  <2>9. CallsOK'
    <3>1. EnteredOnce'
      <4>1. ASSUME NEW j \in 1 .. Len(destroying)
            PROVE  /\ destroying[j] \in live
                   /\ j \notin {1, sweeping} => parent'[destroying[j]] = destroying[j]
        BY <1>3, <2>4, Called
      <4>2. \A j, k \in 1 .. Len(destroying) : destroying[j] = destroying[k] => j = k
        BY Called
      <4> QED BY <1>1, <4>1, <4>2 DEF EnteredOnce
    <3>2. \A j \in 1 .. Len(destroying) - 1 : cursor'[destroying[j]] > 0 \/ j + 1 = sweeping
      <4>1. ASSUME NEW j \in 1 .. Len(destroying) - 1
            PROVE  /\ destroying[j] # o /\ destroying[j] \in Handles
                   /\ cursor[destroying[j]] > 0 \/ j + 1 = sweeping
        <5>1. /\ j \in 1 .. Len(destroying) /\ j < Len(destroying)
              /\ Len(destroying) \in 1 .. Len(destroying)
          BY <1>1
        <5> QED BY <1>1, <1>3, <5>1, Called
      <4> QED BY <1>2, <4>1
    <3>3. ASSUME NEW h \in Handles, cursor'[h] > 0
          PROVE  /\ parent'[h] = h /\ cursor'[h] <= Len(child'[h]) + 1
                 /\ \E j \in 1 .. Len(destroying) : destroying[j] = h
      <4>1. CASE h = o
        BY <1>1, <1>2, <1>5, <1>8, <2>4, <4>1
      <4>2. CASE h # o
        <5>1. cursor[h] > 0 /\ h # p
          BY <1>1, <1>2, <2>8, <3>3, <4>2
        <5>2. parent'[h] = parent[h] /\ child'[h] = child[h] /\ cursor'[h] = cursor[h]
          BY <1>2, <2>4, <4>2, <5>1
        <5> QED BY <5>1, <5>2 DEF CallsOK
      <4> QED BY <4>1, <4>2
    <3> QED BY <1>1, <3>1, <3>2, <3>3 DEF CallsOK
  <2>10. UnusedUnlinked'
    BY <1>1, <1>3, <2>1, <2>4 DEF UnusedUnlinked
  <2>11. /\ \A q \in Handles : q # p => Pending(q)' = Pending(q)
         /\ Pending(p)' = 1 .. Len(child'[p])
    <3>1. \A q \in Handles : q # p /\ q # o => Pending(q)' = Pending(q)
      BY <1>2, <2>4 DEF Pending
    <3>2. Pending(o)' = Pending(o)
      BY <1>1, <1>2, <1>5, <1>8, <2>4 DEF Pending
    <3>3. Pending(p)' = 1 .. Len(child'[p])
      <4>1. Len(child'[p]) \in Nat
        BY <2>6
      <4> QED BY <2>8, <4>1 DEF Pending
    <3> QED BY <3>1, <3>2, <3>3
  <2>12. LinksAgree'
    <3>1. ASSUME NEW q \in live, NEW j \in Pending(q)'
          PROVE  /\ child'[q][j] \in live \ {q}
                 /\ parent'[child'[q][j]] = q
                 /\ \A k \in Pending(q)' : child'[q][j] = child'[q][k] => j = k
      <4>1. CASE q = p
        <5>0. j \in 1 .. Len(child'[p])
          BY <2>11, <3>1, <4>1
        <5>1. PICK k \in Pending(p) : child'[p][j] = child[p][k]
          <6>1. \E k \in 1 .. Len(child[p]) : child'[p][j] = child[p][k]
            BY <2>6, <5>0, Zenon DEF Removed
          <6> QED BY <2>2, <6>1, Zenon
        <5>2. child[p][k] \in live \ {p} /\ parent[child[p][k]] = p
          BY <2>1 DEF LinksAgree
        <5>3. child'[p][j] # o
          BY <2>3, <2>6, <5>0, Zenon DEF Removed
        <5>4. \A l \in Pending(p)' : child'[p][j] = child'[p][l] => j = l
          <6>1. Distinct(child'[p])
            BY <2>6 DEF Removed
          <6> QED BY <2>11, <5>0, <6>1 DEF Distinct
        <5> QED BY <1>3, <2>4, <4>1, <5>1, <5>2, <5>3, <5>4
      <4>2. CASE q # p
        <5>1. child'[q] = child[q] /\ Pending(q)' = Pending(q)
          BY <1>3, <2>4, <2>11, <4>2
        <5>2. child[q][j] \in live \ {q} /\ parent[child[q][j]] = q
          BY <3>1, <5>1 DEF LinksAgree
        <5>3. child[q][j] # o
          BY <4>2, <5>2
        <5> QED BY <1>3, <2>4, <3>1, <5>1, <5>2, <5>3 DEF LinksAgree
      <4> QED BY <4>1, <4>2
    <3>2. ASSUME NEW q \in live, parent'[q] # q
          PROVE  /\ parent'[q] \in live
                 /\ \E j \in Pending(parent[q])' : child'[parent[q]][j] = q
      <4>1. q # o /\ parent'[q] = parent[q] /\ parent[q] \in live
        BY <1>3, <2>4, <3>2 DEF LinksAgree
      <4>2. PICK j \in Pending(parent[q]) : child[parent[q]][j] = q
        BY <3>2, <4>1 DEF LinksAgree
      <4>3. CASE parent[q] = p
        <5>1. j \in 1 .. Len(child[p]) /\ j # i
          BY <2>2, <2>3, <4>1, <4>2, <4>3
        <5>2. PICK k \in 1 .. Len(child'[p]) : child'[p][k] = child[p][j]
          BY <2>6, <5>1 DEF Removed
        <5> QED BY <2>11, <4>1, <4>2, <4>3, <5>2
      <4>4. CASE parent[q] # p
        BY <1>3, <2>4, <2>11, <4>1, <4>2, <4>4
      <4> QED BY <4>3, <4>4
    <3>3. \A q \in live : parent'[q] # q => parent'[q] = parent[q]
      BY <1>3, <2>4
    <3> QED BY <1>1, <3>1, <3>2, <3>3 DEF LinksAgree
  <2>13. SweepOK'
    BY <1>3, <1>6, <2>4
  <2> QED BY <1>4, <2>7, <2>9, <2>10, <2>12, <2>13
<1> QED BY <1>7, <1>8

(* One turn of the loop: the child is not yet on the call stack, because   *)
(* whatever is there has been unlinked.                                    *)
LEMMA DestroyChildStep ==
  ASSUME TreeInv, DestroyChild,
         NEW o, o = Last(destroying), NEW c, c = child[o][cursor[o]]
  PROVE  TreeInv'
<1> USE DEF TreeInv
<1>1. /\ destroying # << >> /\ o \in Handles /\ cursor[o] \in 1 .. Len(child[o])
      /\ o = destroying[Len(destroying)] /\ Len(destroying) \in Nat \ {0}
      /\ Len(destroying) \in 1 .. Len(destroying)
      /\ parent' = [parent EXCEPT ![c] = c]
      /\ destroying' = Append(destroying, c)
      /\ cursor' = [cursor EXCEPT ![o] = @ + 1, ![c] = 0]
      /\ live' = live /\ child' = child /\ depth' = depth /\ killed' = killed
      /\ sweeping' = sweeping /\ overtaken' = overtaken
  BY OnTop DEF DestroyChild, tableVars, sweepVars
<1>0. /\ live' = live /\ child' = child /\ Len(destroying) \in Nat \ {0}
      /\ sweeping' = sweeping /\ overtaken' = overtaken
  BY <1>1
<1>2. o \in live /\ live \subseteq Handles
  BY <1>1, Called DEF TypeOK, TableTypeOK
<1>3. cursor[o] \in Pending(o) /\ cursor[o] \in Nat \ {0} /\ Len(child[o]) \in Nat
  <2>1. Len(child[o]) \in Nat
    BY <1>1 DEF TypeOK
  <2>2. cursor[o] \in Nat \ {0} /\ cursor[o] >= cursor[o]
    BY <1>1, <2>1
  <2> QED BY <1>1, <2>1, <2>2 DEF Pending
<1>4. c \in live /\ c # o /\ parent[c] = o /\ parent[o] = o
  <2>1. c \in live \ {o} /\ parent[c] = o
    BY <1>2, <1>3 DEF LinksAgree
  <2>2. parent[o] = o
    BY <1>1, <1>3 DEF CallsOK
  <2> QED BY <2>1, <2>2
<1>5. ASSUME NEW S, sweeping # 0, Apart(S)
       PROVE  c \notin S
  <2>1. Len(destroying) \in sweeping .. Len(destroying)
    BY <1>1, <1>5, SweptUnlinked
  <2> QED BY <1>1, <1>4, <1>5, <2>1 DEF Apart
<1>6. ASSUME NEW i \in 1 .. Len(destroying)
      PROVE  destroying[i] # c
  <2>1. CASE cursor[destroying[i]] > 0
    BY <1>4, <2>1, Called
  <2>2. CASE i + 1 = sweeping
    <3>1. PICK S : Apart(S) /\ (sweeping > 1 => destroying[sweeping - 1] \in S)
      BY <2>2 DEF SweepOK, Apart
    <3>2. sweeping > 1 /\ sweeping - 1 = i
      BY <1>1, <2>2
    <3> QED BY <1>5, <2>2, <3>1, <3>2
  <2>3. CASE i = Len(destroying)
    BY <1>1, <1>4, <2>3
  <2> QED BY <1>1, <2>1, <2>2, <2>3, Called
<1>7. cursor[c] = 0
  <2>1. ~(cursor[c] > 0)
    BY <1>2, <1>4, <1>6 DEF CallsOK
  <2> QED BY <1>2, <1>4, <2>1 DEF TypeOK
<1>8. /\ cursor'[o] = cursor[o] + 1 /\ cursor'[c] = 0
      /\ \A h \in Handles : h # o => cursor'[h] = cursor[h]
      /\ cursor' \in [Handles -> Nat]
  <2>1. cursor \in [Handles -> Nat] /\ c \in Handles
    BY <1>2, <1>4 DEF TypeOK
  <2>2. cursor' = [cursor EXCEPT ![o] = @ + 1, ![c] = 0]
    BY <1>1
  <2>3. o \in Handles /\ cursor[o] + 1 \in Nat
    BY <1>1, <1>3
  <2> QED BY <1>4, <1>7, <2>1, <2>2, <2>3
<1>9. /\ parent'[c] = c /\ \A h \in Handles : h # c => parent'[h] = parent[h]
      /\ parent' \in [Handles -> Handles]
  BY <1>1, <1>2, <1>4 DEF TypeOK
<1>10. /\ Len(destroying') = Len(destroying) + 1
       /\ destroying'[Len(destroying) + 1] = c
       /\ \A i \in 1 .. Len(destroying) : destroying'[i] = destroying[i]
       /\ destroying' \in Seq(Handles)
  <2>1. destroying \in Seq(Handles) /\ c \in Handles
    BY <1>2, <1>4 DEF TypeOK
  <2>2. destroying' = Append(destroying, c)
    BY <1>1
  <2> QED BY <2>1, <2>2
<1>11. TableInv' /\ TypeOK'
  <2>1. TableInv' /\ TableTypeOK'
    BY DEF DestroyChild, TableInv, TableTypeOK, TableOK, CountIsLive, tableVars
  <2>2. depth' = depth /\ killed' = killed
    BY <1>1
  <2>3. /\ cursor' \in [Handles -> Nat] /\ parent' \in [Handles -> Handles]
        /\ destroying' \in Seq(Handles)
    BY <1>8, <1>9, <1>10
  <2> QED BY <1>0, <2>1, <2>2, <2>3 DEF TypeOK
<1>12. CallsOK'
  <2>1. ASSUME NEW i \in 1 .. Len(destroying')
        PROVE  /\ destroying'[i] \in live
               /\ i \notin {1, sweeping} => parent'[destroying'[i]] = destroying'[i]
               /\ i < Len(destroying') => cursor'[destroying'[i]] > 0 \/ i + 1 = sweeping
               /\ \A j \in 1 .. Len(destroying') :
                    destroying'[i] = destroying'[j] => i = j
    <3>1. i \in 1 .. Len(destroying) \/ i = Len(destroying) + 1
      BY <1>0, <1>10
    <3>2. \A j \in 1 .. Len(destroying') :
            j \in 1 .. Len(destroying) \/ j = Len(destroying) + 1
      BY <1>0, <1>10
    <3>3. CASE i = Len(destroying) + 1
      <4>1. destroying'[i] = c /\ ~(i < Len(destroying'))
        BY <1>10, <3>3
      <4>2. ASSUME NEW j \in 1 .. Len(destroying'), destroying'[j] = c
            PROVE  j = i
        BY <1>6, <1>10, <3>2, <3>3, <4>2
      <4>3. c \in live' /\ parent'[c] = c
        BY <1>0, <1>4, <1>9
      <4> QED BY <1>0, <4>1, <4>2, <4>3
    <3>4. CASE i \in 1 .. Len(destroying)
      <4>1. /\ destroying'[i] = destroying[i] /\ destroying[i] # c
            /\ destroying[i] \in live /\ destroying[i] \in Handles
            /\ i \notin {1, sweeping} => parent[destroying[i]] = destroying[i]
            /\ i < Len(destroying) => cursor[destroying[i]] > 0 \/ i + 1 = sweeping
        BY <1>2, <1>6, <1>10, <3>4, Called
      <4>2. cursor'[destroying[i]] > 0 \/ i + 1 = sweeping
        <5>1. CASE i < Len(destroying)
          <6>1. destroying[i] # o
            BY <1>1, <3>4, <5>1, Called
          <6> QED BY <1>8, <4>1, <5>1, <6>1
        <5>2. CASE i = Len(destroying)
          BY <1>1, <1>3, <1>8, <5>2
        <5> QED BY <1>1, <3>4, <5>1, <5>2
      <4>3. ASSUME NEW j \in 1 .. Len(destroying'), destroying'[i] = destroying'[j]
            PROVE  i = j
        BY <1>10, <3>2, <3>4, <4>1, <4>3, Called
      <4> QED BY <1>9, <4>1, <4>2, <4>3
    <3> QED BY <3>1, <3>3, <3>4
  <2>2. EnteredOnce'
    BY <1>0, <2>1 DEF EnteredOnce
  <2>3. \A i \in 1 .. Len(destroying') - 1 : cursor'[destroying'[i]] > 0 \/ i + 1 = sweeping
    <3>1. \A i \in 1 .. Len(destroying') - 1 :
            i \in 1 .. Len(destroying') /\ i < Len(destroying')
      BY <1>0, <1>10
    <3> QED BY <2>1, <3>1
  <2>4. ASSUME NEW h \in Handles, cursor'[h] > 0
        PROVE  /\ parent'[h] = h /\ cursor'[h] <= Len(child[h]) + 1
               /\ \E i \in 1 .. Len(destroying') : destroying'[i] = h
    <3>1. \A i \in 1 .. Len(destroying) : i \in 1 .. Len(destroying')
      BY <1>0, <1>10
    <3>2. h # c
      BY <1>8, <2>4
    <3>3. CASE h = o
      <4>1. destroying'[Len(destroying)] = o /\ Len(destroying) \in 1 .. Len(destroying')
        BY <1>1, <1>10, <3>1
      <4>2. parent'[o] = o
        BY <1>1, <1>4, <1>9
      <4>3. cursor'[o] <= Len(child[o]) + 1
        BY <1>1, <1>3, <1>8
      <4> QED BY <3>3, <4>1, <4>2, <4>3
    <3>4. CASE h # o
      <4>1. /\ parent[h] = h /\ cursor[h] <= Len(child[h]) + 1
            /\ \E i \in 1 .. Len(destroying) : destroying[i] = h
        BY <1>8, <2>4, <3>4 DEF CallsOK
      <4> QED BY <1>8, <1>9, <1>10, <3>1, <3>2, <3>4, <4>1
    <3> QED BY <3>3, <3>4
  <2> QED BY <1>0, <2>2, <2>3, <2>4 DEF CallsOK
<1>13. UnusedUnlinked'
  BY <1>0, <1>2, <1>4, <1>9 DEF UnusedUnlinked
<1>14. LinksAgree'
  <2>1. \A q \in Handles : q # o => Pending(q)' = Pending(q)
    BY <1>0, <1>8 DEF Pending
  <2>2. Pending(o)' = Pending(o) \ {cursor[o]}
    BY <1>0, <1>3, <1>8 DEF Pending
  <2>3. ASSUME NEW q \in live, NEW j \in Pending(q)'
        PROVE  /\ child[q][j] \in live \ {q}
               /\ parent'[child[q][j]] = q
               /\ \A k \in Pending(q)' : child[q][j] = child[q][k] => j = k
    <3>1. Pending(q)' \subseteq Pending(q)
      BY <1>2, <2>1, <2>2
    <3>2. /\ child[q][j] \in live \ {q} /\ parent[child[q][j]] = q
          /\ \A k \in Pending(q) : child[q][j] = child[q][k] => j = k
      BY <2>3, <3>1 DEF LinksAgree
    <3>3. child[q][j] # c
      <4>1. CASE q = o
        BY <1>3, <2>2, <2>3, <3>2, <4>1
      <4>2. CASE q # o
        BY <1>4, <3>2, <4>2
      <4> QED BY <4>1, <4>2
    <3> QED BY <1>2, <1>9, <3>1, <3>2, <3>3
  <2>4. ASSUME NEW q \in live, parent'[q] # q
        PROVE  /\ parent'[q] = parent[q] /\ parent[q] \in live
               /\ \E j \in Pending(parent[q])' : child[parent[q]][j] = q
    <3>1. q # c /\ parent'[q] = parent[q] /\ parent[q] \in live
      BY <1>2, <1>9, <2>4 DEF LinksAgree
    <3>2. PICK j \in Pending(parent[q]) : child[parent[q]][j] = q
      BY <2>4, <3>1 DEF LinksAgree
    <3> DEFINE p == parent[q]
    <3>3. p \in Handles /\ j \in Pending(p) /\ child[p][j] = q
      BY <1>2, <3>1, <3>2
    <3>4. parent'[q] = p
      BY <3>1
    <3> HIDE DEF p
    <3>5. j \in {i \in 1 .. Len(child[p]) : i >= cursor'[p]}
      <4>1. CASE p = o
        <5>1. j # cursor[o]
          BY <3>1, <3>3, <4>1
        <5> QED BY <1>3, <1>8, <3>3, <4>1, <5>1 DEF Pending
      <4>2. CASE p # o
        BY <1>8, <3>3, <4>2 DEF Pending
      <4> QED BY <4>1, <4>2
    <3>6. j \in Pending(parent[q])'
      BY <1>0, <3>4, <3>5 DEF Pending
    <3> QED BY <1>0, <3>1, <3>2, <3>6
  <2> QED BY <1>0, <2>3, <2>4 DEF LinksAgree
<1>15. SweepOK'
  <2> SUFFICES ASSUME sweeping # 0 PROVE SweepOK'
    BY <1>1 DEF SweepOK
  <2>1. sweeping \in 1 .. Len(destroying) /\ sweeping \in 1 .. Len(destroying')
    BY <1>0, <1>10, SweptUnlinked
  <2>2. parent'[destroying[sweeping]] = destroying[sweeping]
    <3>1. destroying[sweeping] \in Handles /\ destroying[sweeping] # c
      BY <1>2, <1>6, <2>1, Called
    <3>2. parent[destroying[sweeping]] = destroying[sweeping]
      BY <1>1, <1>4, SweptUnlinked
    <3> QED BY <1>9, <3>1, <3>2
  <2>3. ASSUME NEW S, Apart(S) PROVE Apart(S)'
    <3>1. c \notin S
      BY <1>5, <2>3
    <3>2. \A i \in sweeping .. Len(destroying') :
            i = Len(destroying) + 1 \/ i \in sweeping .. Len(destroying)
      BY <1>0, <1>10, <2>1
    <3>3. \A i \in sweeping .. Len(destroying) : destroying'[i] = destroying[i]
      BY <1>0, <1>10, <2>1
    <3>4. \A i \in sweeping .. Len(destroying') : destroying'[i] \notin S
      BY <1>10, <2>3, <3>1, <3>2, <3>3 DEF Apart
    <3>5. \A x \in S : parent'[x] \in S
      BY <1>2, <1>9, <2>3, <3>1 DEF Apart
    <3> QED BY <1>0, <1>1, <2>3, <3>4, <3>5 DEF Apart
  <2>4. \A i \in 1 .. sweeping : destroying'[i] = destroying[i]
    BY <1>0, <1>10, <2>1
  <2> QED BY <1>1, <2>1, <2>2, <2>3, <2>4, SweepGoesOn
<1> QED BY <1>11, <1>12, <1>13, <1>14, <1>15

(* The object goes away when its loop is over: nothing is linked to it.    *)
LEMMA DestroyReturnsStep ==
  ASSUME TreeInv, DestroyReturns, NEW o, o = Last(destroying)
  PROVE  TreeInv'
<1> USE DEF TreeInv
<1>1. /\ destroying # << >> /\ o \in Handles /\ cursor[o] > Len(child[o]) /\ Free(o)
      /\ o = destroying[Len(destroying)] /\ Len(destroying) \in Nat \ {0}
      /\ Len(destroying) \in 1 .. Len(destroying)
      /\ child' = [child EXCEPT ![o] = << >>]
      /\ parent' = [parent EXCEPT ![o] = o]
      /\ depth' = [depth EXCEPT ![o] = 0]
      /\ killed' = killed \ {o}
      /\ cursor' = [cursor EXCEPT ![o] = 0]
      /\ destroying' = Front(destroying)
      /\ sweeping' = IF sweeping = Len(destroying) THEN 0 ELSE sweeping
      /\ overtaken' = overtaken
  BY OnTop DEF DestroyReturns
<1>2. o \in live /\ live \subseteq Handles /\ live' = live \ {o}
  BY <1>1, Called DEF TypeOK, TableTypeOK, Free
<1>3. TableInv' /\ TableTypeOK'
  BY <1>1, FreeKeepsTable, FreeCounts DEF TableInv
<1>4. /\ child'[o] = << >> /\ parent'[o] = o /\ cursor'[o] = 0
      /\ child' \in [Handles -> Seq(Handles)] /\ parent' \in [Handles -> Handles]
      /\ cursor' \in [Handles -> Nat] /\ depth' \in [Handles -> Nat]
      /\ \A h \in Handles : h # o =>
           child'[h] = child[h] /\ parent'[h] = parent[h] /\ cursor'[h] = cursor[h]
  BY <1>1 DEF TypeOK
<1>5. /\ Len(destroying') = Len(destroying) - 1 /\ destroying' \in Seq(Handles)
      /\ \A i \in 1 .. Len(destroying') : destroying'[i] = destroying[i]
      /\ \A i \in 1 .. Len(destroying') : i \in 1 .. Len(destroying) /\ i < Len(destroying)
  BY <1>1, OnTop
<1>6. parent[o] = o /\ Pending(o) = {}
  <2>1. Len(child[o]) \in Nat /\ cursor[o] \in Nat
    BY <1>1 DEF TypeOK
  <2>2. cursor[o] > 0
    BY <1>1, <2>1
  <2> QED BY <1>1, <2>1, <2>2 DEF CallsOK, Pending
<1>7. TypeOK'
  BY <1>1, <1>2, <1>3, <1>4, <1>5 DEF TypeOK
<1>8. CallsOK'
  <2>1. ASSUME NEW i \in 1 .. Len(destroying')
        PROVE  /\ destroying'[i] \in live'
               /\ i \notin {1, sweeping'} => parent'[destroying'[i]] = destroying'[i]
               /\ cursor'[destroying'[i]] > 0 \/ i + 1 = sweeping
               /\ \A j \in 1 .. Len(destroying') :
                    destroying'[i] = destroying'[j] => i = j
    <3>1. /\ destroying'[i] = destroying[i] /\ i \in 1 .. Len(destroying)
          /\ i < Len(destroying)
      BY <1>5
    <3>2. destroying[i] \in live /\ destroying[i] # o
      BY <1>1, <3>1, Called
    <3>3. /\ cursor[destroying[i]] > 0 \/ i + 1 = sweeping
          /\ i \notin {1, sweeping} => parent[destroying[i]] = destroying[i]
          /\ i # sweeping \/ sweeping' = sweeping
      BY <1>1, <3>1, Called
    <3>4. \A j \in 1 .. Len(destroying') : destroying'[i] = destroying'[j] => i = j
      BY <1>5, <3>1, Called
    <3> QED BY <1>2, <1>4, <3>1, <3>2, <3>3, <3>4
  <2>2. EnteredOnce'
    BY <2>1 DEF EnteredOnce
  <2>3. \A i \in 1 .. Len(destroying') - 1 :
          cursor'[destroying'[i]] > 0 \/ i + 1 = sweeping'
    <3>1. \A i \in 1 .. Len(destroying') - 1 :
            i \in 1 .. Len(destroying') /\ i + 1 # Len(destroying)
      BY <1>1, <1>5
    <3> QED BY <1>1, <2>1, <3>1
  <2>4. ASSUME NEW h \in Handles, cursor'[h] > 0
        PROVE  /\ parent'[h] = h /\ cursor'[h] <= Len(child'[h]) + 1
               /\ \E i \in 1 .. Len(destroying') : destroying'[i] = h
    <3>1. h # o
      BY <1>4, <2>4
    <3>2. parent[h] = h /\ cursor[h] <= Len(child[h]) + 1
      BY <1>4, <2>4, <3>1 DEF CallsOK
    <3>3. PICK i \in 1 .. Len(destroying) : destroying[i] = h
      BY <1>4, <2>4, <3>1 DEF CallsOK
    <3>4. i # Len(destroying)
      BY <1>1, <3>1, <3>3
    <3>5. i \in 1 .. Len(destroying')
      BY <1>1, <1>5, <3>4
    <3> QED BY <1>4, <1>5, <3>1, <3>2, <3>3, <3>5
  <2> QED BY <2>2, <2>3, <2>4 DEF CallsOK
<1>9. UnusedUnlinked'
  BY <1>2, <1>4 DEF UnusedUnlinked
<1>10. LinksAgree'
  <2>1. \A q \in Handles : q # o => Pending(q)' = Pending(q)
    BY <1>4 DEF Pending
  <2>2. ASSUME NEW q \in live'
        PROVE  /\ \A j \in Pending(q)' :
                    /\ child'[q][j] \in live' \ {q}
                    /\ parent'[child'[q][j]] = q
                    /\ \A k \in Pending(q)' : child'[q][j] = child'[q][k] => j = k
               /\ parent'[q] # q => /\ parent'[q] = parent[q] /\ parent[q] \in live'
                                    /\ \E j \in Pending(parent[q]) : child[parent[q]][j] = q
    <3>1. q \in live /\ q # o /\ q \in Handles /\ parent'[q] = parent[q]
          /\ child'[q] = child[q] /\ Pending(q)' = Pending(q)
      BY <1>2, <1>4, <2>1
    <3>2. ASSUME NEW j \in Pending(q)
          PROVE  child[q][j] \in live' \ {q} /\ parent'[child[q][j]] = q
      <4>1. child[q][j] \in live \ {q} /\ parent[child[q][j]] = q
        BY <3>1 DEF LinksAgree
      <4>2. child[q][j] # o
        BY <1>6, <3>1, <4>1
      <4> QED BY <1>2, <1>4, <4>1, <4>2
    <3>3. \A j, k \in Pending(q) : child[q][j] = child[q][k] => j = k
      BY <3>1 DEF LinksAgree
    <3>4. ASSUME parent[q] # q
          PROVE  /\ parent[q] \in live'
                 /\ \E j \in Pending(parent[q]) : child[parent[q]][j] = q
      BY <1>2, <1>6, <3>1, <3>4 DEF LinksAgree
    <3> QED BY <3>1, <3>2, <3>3, <3>4
  <2>3. ASSUME NEW q \in live', parent'[q] # q
        PROVE  \E j \in Pending(parent[q])' : child'[parent'[q]][j] = q
    <3> DEFINE p == parent[q]
    <3>1. parent'[q] = p /\ p \in live' /\ \E j \in Pending(p) : child[p][j] = q
      BY <2>2, <2>3
    <3>2. p # o /\ p \in Handles
      BY <1>2, <3>1
    <3> HIDE DEF p
    <3>3. Pending(p) = {i \in 1 .. Len(child'[p]) : i >= cursor'[p]} /\ child'[p] = child[p]
      BY <1>4, <3>2 DEF Pending
    <3>4. \E j \in {i \in 1 .. Len(child'[p]) : i >= cursor'[p]} : child'[p][j] = q
      BY <3>1, <3>3
    <3> QED BY <3>1, <3>4 DEF Pending
  <2> QED BY <2>2, <2>3 DEF LinksAgree
<1>11. SweepOK'
  <2> SUFFICES ASSUME sweeping' # 0 PROVE SweepOK'
    BY DEF SweepOK
  <2>1. sweeping' = sweeping /\ sweeping # 0 /\ sweeping # Len(destroying)
    BY <1>1
  <2>2. sweeping \in 1 .. Len(destroying) /\ sweeping \in 1 .. Len(destroying')
    BY <1>1, <1>5, <2>1, SweptUnlinked
  <2>3. parent'[destroying[sweeping]] = destroying[sweeping]
    <3>1. parent[destroying[sweeping]] = destroying[sweeping]
      BY <2>1, SweptUnlinked
    <3>2. destroying[sweeping] \in Handles
      BY <1>2, <2>2, Called
    <3> QED BY <1>4, <3>1, <3>2
  <2>4. ASSUME NEW S, Apart(S) PROVE Apart(S)'
    <3>1. Len(destroying) \in sweeping .. Len(destroying)
      BY <1>1, <2>2
    <3>2. o \notin S
      BY <1>1, <2>4, <3>1 DEF Apart
    <3>3. S \subseteq live' /\ \A x \in S : parent'[x] \in S
      BY <1>2, <1>4, <2>4, <3>2 DEF Apart
    <3>4. \A i \in sweeping .. Len(destroying') :
            destroying'[i] = destroying[i] /\ i \in sweeping .. Len(destroying)
      BY <1>1, <1>5, <2>2
    <3> QED BY <2>1, <2>4, <3>3, <3>4 DEF Apart
  <2>5. \A i \in 1 .. sweeping : destroying'[i] = destroying[i]
    BY <1>5, <2>2
  <2> QED BY <2>1, <2>2, <2>3, <2>4, <2>5, SweepGoesOn
<1> QED BY <1>3, <1>7, <1>8, <1>9, <1>10, <1>11

(* The move takes the object out of one list and appends it to another.    *)
LEMMA ReparentStep ==
  ASSUME TreeInv, NEW o \in Handles, NEW p \in Handles, Reparent(o, p),
         NEW q, q = parent[o]
  PROVE  TreeInv'
<1> USE DEF TreeInv
<1>1. /\ o \in live /\ p \in live /\ q # o /\ q # p /\ p # o
      /\ live' = live /\ killed' = killed /\ destroying' = destroying /\ cursor' = cursor
      /\ destroying = << >>
      /\ sweeping' = 0 /\ overtaken' = overtaken
      /\ parent' = [parent EXCEPT ![o] = p] /\ depth' = [depth EXCEPT ![o] = 1 + depth[p]]
  BY NoCallsNoSweep DEF Reparent, Outside, tableVars, sweepVars
<1>2. /\ \A h \in Handles : cursor[h] = 0
      /\ live \subseteq Handles
      /\ \A h \in live : Pending(h) = 1 .. Len(child[h])
      /\ \A h \in Handles : child[h] \in Seq(Handles) /\ Len(child[h]) \in Nat
  <2>1. \A h \in Handles : cursor[h] = 0
    BY <1>1, NoCallsNoCursors
  <2>2. live \subseteq Handles
    BY DEF TypeOK, TableTypeOK
  <2>3. \A h \in live : Pending(h) = 1 .. Len(child[h])
    BY <2>1, <2>2, AtRest
  <2>4. \A h \in Handles : child[h] \in Seq(Handles) /\ Len(child[h]) \in Nat
    BY DEF TypeOK
  <2> QED BY <2>1, <2>2, <2>3, <2>4
<1>3. /\ q \in live /\ \E i \in 1 .. Len(child[q]) : child[q][i] = o
  BY <1>1, <1>2 DEF LinksAgree
<1>4. PICK i \in 1 .. Len(child[q]) :
        /\ child[q][i] = o
        /\ child' = [child EXCEPT ![q] = RemoveAt(@, i), ![p] = Append(@, o)]
  BY <1>1, <1>3, Zenon DEF Reparent
<1>5. /\ child'[q] = RemoveAt(child[q], i) /\ child'[p] = Append(child[p], o)
      /\ \A h \in Handles : h # q /\ h # p => child'[h] = child[h]
      /\ child' = [h \in Handles |-> child'[h]]
  BY <1>1, <1>2, <1>3, <1>4 DEF TypeOK
<1>6. child'[q] \in Seq(Handles) /\ Removed(child[q], i, child'[q])
  <2>1. Distinct(child[q])
    BY <1>2, <1>3 DEF LinksAgree, Distinct
  <2>2. child[q] \in Seq(Handles)
    BY <1>2, <1>3
  <2> QED BY <1>4, <1>5, <2>1, <2>2, RemovedOnce
<1>7. /\ child'[p] \in Seq(Handles) /\ Len(child'[p]) = Len(child[p]) + 1
      /\ child'[p][Len(child[p]) + 1] = o
      /\ \A j \in 1 .. Len(child[p]) : child'[p][j] = child[p][j]
  <2>1. child[p] \in Seq(Handles)
    BY <1>2
  <2> QED BY <1>5, <2>1
<1>8. /\ parent'[o] = p /\ \A h \in Handles : h # o => parent'[h] = parent[h]
      /\ parent' \in [Handles -> Handles] /\ depth' \in [Handles -> Nat]
  <2>1. depth[p] \in Nat /\ depth \in [Handles -> Nat]
    BY DEF TypeOK
  <2>2. parent \in [Handles -> Handles]
    BY DEF TypeOK
  <2>3. 1 + depth[p] \in Nat
    BY <2>1
  <2>4. depth' \in [Handles -> Nat]
    BY <1>1, <2>1, <2>3
  <2> QED BY <1>1, <2>2, <2>4
<1>9. TableInv' /\ TypeOK'
  <2>1. TableInv' /\ TableTypeOK'
    BY DEF Reparent, TableInv, TableTypeOK, TableOK, CountIsLive, tableVars
  <2>2. \A h \in Handles : child'[h] \in Seq(Handles)
    BY <1>2, <1>5, <1>6, <1>7
  <2>3. child' \in [Handles -> Seq(Handles)]
    BY <1>5, <2>2
  <2> QED BY <1>1, <1>8, <2>1, <2>3 DEF TypeOK
<1>10. CallsOK' /\ UnusedUnlinked' /\ SweepOK'
  <2>1. CallsOK' /\ SweepOK'
    BY <1>1, <1>2 DEF CallsOK, EnteredOnce, SweepOK
  <2> QED BY <1>1, <1>3, <1>5, <1>8, <2>1 DEF UnusedUnlinked
<1>11. \A h \in live : Pending(h)' = 1 .. Len(child'[h])
  <2>1. \A h \in Handles : Len(child'[h]) \in Nat
    BY <1>2, <1>5, <1>6, <1>7
  <2> QED BY <1>1, <1>2, <2>1 DEF Pending
<1>12. LinksAgree'
  <2>1. ASSUME NEW h \in live, NEW j \in 1 .. Len(child'[h])
        PROVE  /\ child'[h][j] \in live \ {h}
               /\ parent'[child'[h][j]] = h
               /\ \A k \in 1 .. Len(child'[h]) : child'[h][j] = child'[h][k] => j = k
    <3>1. CASE h = q
      <4>1. child'[q][j] # o /\ \E k \in 1 .. Len(child[q]) : child'[q][j] = child[q][k]
        <5>1. j \in 1 .. Len(child'[q])
          BY <2>1, <3>1
        <5> QED BY <1>4, <1>6, <5>1, Zenon DEF Removed
      <4>2. child'[q][j] \in live \ {q} /\ parent[child'[q][j]] = q
        BY <1>2, <1>3, <4>1 DEF LinksAgree
      <4>3. \A k \in 1 .. Len(child'[q]) : child'[q][j] = child'[q][k] => j = k
        BY <1>6, <2>1, <3>1 DEF Removed, Distinct
      <4> QED BY <1>2, <1>8, <3>1, <4>1, <4>2, <4>3
    <3>2. CASE h = p
      <4>1. ASSUME NEW k \in 1 .. Len(child[p])
            PROVE  /\ child'[p][k] = child[p][k] /\ child[p][k] \in live \ {p, o}
                   /\ parent'[child[p][k]] = p
        <5>1. child[p][k] \in live \ {p} /\ parent[child[p][k]] = p
          BY <1>1, <1>2 DEF LinksAgree
        <5>2. child[p][k] # o
          BY <1>1, <5>1
        <5> QED BY <1>2, <1>7, <1>8, <5>1, <5>2
      <4>2. \A k, l \in 1 .. Len(child[p]) : child[p][k] = child[p][l] => k = l
        BY <1>1, <1>2 DEF LinksAgree
      <4>3. ASSUME NEW k \in 1 .. Len(child'[p])
            PROVE  k \in 1 .. Len(child[p]) \/ k = Len(child[p]) + 1
        <5>1. Len(child'[p]) = Len(child[p]) + 1 /\ Len(child[p]) \in Nat
          BY <1>1, <1>2, <1>7
        <5> QED BY <5>1
      <4>4. CASE j = Len(child[p]) + 1
        <5>1. child'[h][j] = o /\ o \in live \ {h} /\ parent'[o] = h
          BY <1>1, <1>7, <1>8, <3>2, <4>4
        <5>2. ASSUME NEW k \in 1 .. Len(child'[p]), child'[p][k] = o
              PROVE  j = k
          BY <4>1, <4>3, <4>4, <5>2
        <5> QED BY <3>2, <5>1, <5>2
      <4>5. CASE j \in 1 .. Len(child[p])
        BY <1>1, <1>7, <3>2, <4>1, <4>2, <4>3, <4>5
      <4> QED BY <2>1, <3>2, <4>3, <4>4, <4>5
    <3>3. CASE h # q /\ h # p
      <4>1. child'[h] = child[h] /\ j \in 1 .. Len(child[h])
        BY <1>2, <1>5, <2>1, <3>3
      <4>2. /\ child[h][j] \in live \ {h} /\ parent[child[h][j]] = h
            /\ \A k \in 1 .. Len(child[h]) : child[h][j] = child[h][k] => j = k
        BY <1>2, <4>1 DEF LinksAgree
      <4>3. child[h][j] # o
        BY <3>3, <4>2
      <4> QED BY <1>2, <1>8, <4>1, <4>2, <4>3
    <3> QED BY <3>1, <3>2, <3>3
  <2>2. ASSUME NEW h \in live, parent'[h] # h
        PROVE  /\ parent'[h] \in live
               /\ \E j \in 1 .. Len(child'[parent'[h]]) : child'[parent'[h]][j] = h
    <3>1. CASE h = o
      <4>1. Len(child[p]) + 1 \in 1 .. Len(child'[p])
        BY <1>2, <1>7
      <4> QED BY <1>1, <1>7, <1>8, <3>1, <4>1
    <3>2. CASE h # o
      <4>1. parent'[h] = parent[h] /\ parent[h] \in live
        BY <1>2, <1>8, <2>2, <3>2 DEF LinksAgree
      <4>2. PICK j \in 1 .. Len(child[parent[h]]) : child[parent[h]][j] = h
        <5>1. \E j \in Pending(parent[h]) : child[parent[h]][j] = h
          BY <2>2, <4>1 DEF LinksAgree
        <5> QED BY <5>1 DEF Pending
      <4>3. CASE parent[h] = q
        <5>1. j # i
          BY <1>4, <3>2, <4>2, <4>3
        <5>2. \E k \in 1 .. Len(child'[q]) : child'[q][k] = h
          <6>1. j \in 1 .. Len(child[q]) /\ child[q][j] = h
            BY <4>2, <4>3
          <6> QED BY <1>6, <5>1, <6>1, Zenon DEF Removed
        <5> QED BY <4>1, <4>3, <5>2
      <4>4. CASE parent[h] = p
        <5>1. j \in 1 .. Len(child'[p]) /\ child'[p][j] = h
          BY <1>2, <1>7, <4>2, <4>4
        <5> QED BY <4>1, <4>4, <5>1
      <4>5. CASE parent[h] # q /\ parent[h] # p
        BY <1>2, <1>5, <4>1, <4>2, <4>5
      <4> QED BY <4>3, <4>4, <4>5
    <3> QED BY <3>1, <3>2
  <2>3. ASSUME NEW h \in live, parent'[h] # h
        PROVE  \E j \in Pending(parent[h])' : child'[parent'[h]][j] = h
    <3> DEFINE r == parent'[h]
    <3>1. r \in live /\ \E j \in 1 .. Len(child'[r]) : child'[r][j] = h
      BY <2>2, <2>3
    <3>2. Pending(parent[h])' = {k \in 1 .. Len(child'[r]) : k >= cursor'[r]}
      BY DEF Pending
    <3>3. r \in Handles /\ cursor'[r] = 0
      BY <1>1, <1>2, <3>1
    <3> HIDE DEF r
    <3>4. \E j \in {k \in 1 .. Len(child'[r]) : k >= cursor'[r]} : child'[r][j] = h
      BY <3>1, <3>3
    <3> QED BY <3>2, <3>4 DEF r
  <2>4. \A h \in live : Pending(h)' = 1 .. Len(child'[h])
    BY <1>11
  <2>5. ASSUME NEW h \in live, NEW j \in Pending(h)'
        PROVE  /\ child'[h][j] \in live \ {h}
               /\ parent'[child'[h][j]] = h
               /\ \A k \in Pending(h)' : child'[h][j] = child'[h][k] => j = k
    BY <2>1, <2>4, <2>5
  <2> QED BY <1>1, <2>2, <2>3, <2>5 DEF LinksAgree
<1> QED BY <1>9, <1>10, <1>12

-----------------------------------------------------------------------------

(* A sweep enters an object that nothing on the call stack is below.       *)
LEMMA SweepStep ==
  ASSUME TreeInv, NEW o \in Handles, Sweep(o), NEW n, n = Len(destroying)
  PROVE  TreeInv'
<1> USE DEF TreeInv
<1>1. /\ o \in live /\ o # RootHandle /\ sweeping = 0 /\ sweeping' = n + 1
      /\ destroying' = Append(destroying, o) /\ overtaken' = overtaken
      /\ live' = live /\ killed' = killed \cup {o}
      /\ parent' = parent /\ child' = child /\ depth' = depth /\ cursor' = cursor
      /\ n \in Nat /\ destroying \in Seq(Handles)
  BY DEF Sweep, TypeOK, tableVars
<1>2. /\ Len(destroying') = n + 1 /\ destroying'[n + 1] = o
      /\ \A i \in 1 .. n : destroying'[i] = destroying[i]
      /\ destroying' \in Seq(Handles)
  BY <1>1
<1>3. \A i \in 1 .. n + 1 : i \in 1 .. n \/ i = n + 1
  BY <1>1
<1>4. ASSUME NEW i \in 1 .. n
      PROVE  destroying[i] \in Outside(o)
  BY <1>1 DEF Sweep, ToSet
<1>5. \A i \in 1 .. n : destroying[i] # o
  BY <1>4 DEF Outside
<1>6. TableInv' /\ TypeOK'
  <2>1. TableInv' /\ TableTypeOK'
    BY DEF Sweep, TableInv, TableTypeOK, TableOK, CountIsLive, tableVars
  <2> QED BY <1>1, <1>2, <2>1 DEF TypeOK
<1>7. LinksAgree' /\ UnusedUnlinked'
  BY <1>1 DEF LinksAgree, Pending, UnusedUnlinked
<1>8. CallsOK'
  <2>1. ASSUME NEW i \in 1 .. n
        PROVE  /\ destroying[i] \in live
               /\ i # 1 => parent[destroying[i]] = destroying[i]
               /\ i < n => cursor[destroying[i]] > 0
               /\ \A j \in 1 .. n : destroying[i] = destroying[j] => i = j
    BY <1>1, Called
  <2>2. EnteredOnce'
    BY <1>1, <1>2, <1>3, <1>5, <2>1 DEF EnteredOnce
  <2>3. \A i \in 1 .. Len(destroying') - 1 :
          cursor'[destroying'[i]] > 0 \/ i + 1 = sweeping'
    <3>1. \A i \in 1 .. Len(destroying') - 1 : i \in 1 .. n /\ (i < n \/ i + 1 = n + 1)
      BY <1>1, <1>2
    <3> QED BY <1>1, <1>2, <2>1, <3>1
  <2>4. ASSUME NEW h \in Handles, cursor'[h] > 0
        PROVE  /\ parent'[h] = h /\ cursor'[h] <= Len(child'[h]) + 1
               /\ \E i \in 1 .. Len(destroying') : destroying'[i] = h
    <3>1. /\ parent[h] = h /\ cursor[h] <= Len(child[h]) + 1
          /\ \E i \in 1 .. n : destroying[i] = h
      BY <1>1, <2>4 DEF CallsOK
    <3>2. \A i \in 1 .. n : i \in 1 .. Len(destroying')
      BY <1>1, <1>2
    <3> QED BY <1>1, <1>2, <3>1, <3>2
  <2> QED BY <2>2, <2>3, <2>4 DEF CallsOK
<1>9. SweepOK'
  <2>1. \A x \in live : parent[x] \in live /\ x \in Handles
    BY DEF LinksAgree, TypeOK, TableTypeOK
  <2>2. parent[o] # o => cursor[parent[o]] = 0
    <3> SUFFICES ASSUME parent[o] # o, cursor[parent[o]] # 0 PROVE FALSE
      OBVIOUS
    <3> DEFINE p == parent[o]
    <3>1. p \in live /\ p \in Handles /\ cursor[p] > 0
      BY <1>1, <2>1 DEF TypeOK
    <3>2. parent[p] = p /\ p \in ToSet(destroying)
      BY <3>1 DEF CallsOK, ToSet
    <3>3. p # RootHandle
      BY <3>2 DEF Sweep
    <3>4. {o, p} \in SUBSET (live \ {RootHandle}) /\ \A x \in {o, p} : parent[x] \in {o, p}
      BY <1>1, <3>1, <3>2, <3>3
    <3>5. o \in Outside(RootHandle)
      BY <3>4 DEF Outside
    <3> QED BY <3>5 DEF Sweep
  <2>3. PICK S \in SUBSET live :
          /\ \A x \in S : parent[x] \in S
          /\ n > 0 => destroying[n] \in S
          /\ o \notin S
    <3>1. CASE n = 0
      <4> WITNESS {} \in SUBSET live
      <4> QED BY <3>1
    <3>2. CASE n # 0
      <4>1. n \in 1 .. n
        BY <1>1, <3>2
      <4>2. PICK S \in SUBSET (live \ {o}) :
              destroying[n] \in S /\ \A x \in S : parent[x] \in S
        BY <1>4, <4>1 DEF Outside
      <4> QED BY <4>2
    <3> QED BY <3>1, <3>2
  <2>4. /\ sweeping' \in 1 .. Len(destroying') /\ destroying'[sweeping'] = o
        /\ sweeping' > 1 => destroying'[sweeping' - 1] \in S
    <3>1. n > 0 => n \in 1 .. n
      BY <1>1
    <3> QED BY <1>1, <1>2, <2>3, <3>1
  <2>5. \A i \in sweeping' .. Len(destroying') : destroying'[i] \notin S
    <3>1. \A i \in sweeping' .. Len(destroying') : i = n + 1
      BY <1>1, <1>2
    <3> QED BY <1>2, <2>3, <3>1
  <2> QED BY <1>1, <2>2, <2>3, <2>4, <2>5 DEF SweepOK
<1> QED BY <1>6, <1>7, <1>8, <1>9

(* Every step keeps the invariant.                                         *)
LEMMA TreeStep == TreeInv /\ [Next]_vars => TreeInv'
<1> SUFFICES ASSUME TreeInv, [Next]_vars PROVE TreeInv'
  OBVIOUS
<1>1. CASE \E p \in Handles : SpawnObject(p)
  BY <1>1, SpawnStep DEF SpawnObject
<1>2. CASE \E o \in Handles : Kill(o)
  BY <1>2, FlagStep DEF Kill
<1>3. CASE Terminate
  BY <1>3, FlagStep DEF Terminate
<1>4. CASE \E o \in Handles : DeleteKilled(o)
  BY <1>4, DeleteKilledStep
<1>5. CASE DestructorReturns
  BY <1>5, DestructorReturnsStep
<1>6. CASE DestroyChild
  BY <1>6, DestroyChildStep
<1>7. CASE DestroyReturns
  BY <1>7, DestroyReturnsStep
<1>8. CASE \E o, p \in Handles : Reparent(o, p)
  BY <1>8, ReparentStep
<1>9. CASE \E o \in Handles : Sweep(o)
  BY <1>9, SweepStep
<1>10. CASE SweepOvertakes \/ UNCHANGED vars
  <2>1. /\ UNCHANGED <<live, length, nextHandle, count, parent, child, depth, killed>>
        /\ UNCHANGED <<destroying, cursor, sweeping>>
        /\ overtaken' \in {overtaken, TRUE}
    BY <1>10 DEF SweepOvertakes, vars, tableVars, treeVars, sweepVars
  <2>2. TypeOK'
    BY <2>1 DEF TreeInv, TypeOK, TableTypeOK
  <2>3. TableInv'
    BY <2>1 DEF TreeInv, TableInv, TableTypeOK, TableOK, CountIsLive
  <2>4. CallsOK' /\ UnusedUnlinked'
    BY <2>1 DEF TreeInv, CallsOK, EnteredOnce, UnusedUnlinked
  <2>5. SweepOK'
    BY <2>1 DEF TreeInv, SweepOK
  <2>6. LinksAgree'
    BY <2>1 DEF TreeInv, LinksAgree, Pending
  <2> QED BY <2>2, <2>3, <2>4, <2>5, <2>6 DEF TreeInv
<1> QED
  BY <1>1, <1>2, <1>3, <1>4, <1>5, <1>6, <1>7, <1>8, <1>9, <1>10 DEF Next

(* The types of the variables, for every table and every configuration.    *)
THEOREM TypesHold == Spec => []TypeOK
<1>1. TreeInv => TypeOK
  BY DEF TreeInv
<1> QED BY <1>1, TreeInitially, TreeStep, PTL DEF Spec

(* Every object has a slot of the table, and the search for a free handle  *)
(* starts within it and never at the null handle.                          *)
THEOREM TableIsSound == Spec => []TableOK
<1>1. TreeInv => TableOK
  BY DEF TreeInv, TableInv
<1> QED BY <1>1, TreeInitially, TreeStep, PTL DEF Spec

(* The manager's count of objects is exact.                                *)
THEOREM CountIsExact == Spec => []CountIsLive
<1>1. TreeInv => CountIsLive
  BY DEF TreeInv, TableInv
<1> QED BY <1>1, TreeInitially, TreeStep, PTL DEF Spec

(* Parent pointers and child lists never disagree, whatever destructors    *)
(* spawn during a destruction and wherever the host moves objects.         *)
THEOREM LinksAlwaysAgree == Spec => []LinksAgree
<1>1. TreeInv => LinksAgree
  BY DEF TreeInv
<1> QED BY <1>1, TreeInitially, TreeStep, PTL DEF Spec

(* The recursion of a destruction never enters an object twice, and        *)
(* neither does a sweep that a destructor asks for, as long as what the    *)
(* sweep begins with is not in use: what is destroyed with it is not then  *)
(* either.                                                                 *)
THEOREM NothingDestroyedTwice == Spec => []DestroyedOnce
<1>1. TreeInv => DestroyedOnce
  BY DEF TreeInv, CallsOK, EnteredOnce, DestroyedOnce
<1> QED BY <1>1, TreeInitially, TreeStep, PTL DEF Spec

(* A destruction never follows a handle that is not in use, as long as no  *)
(* sweep has deleted an object in use.                                     *)
THEOREM NoNullHandle == Spec => []NoNullInDestroy
<1>1. ASSUME TreeInv, destroying # << >>, NEW o, o = Last(destroying)
      PROVE  /\ o \in live
             /\ parent[o] \in live
             /\ cursor[o] \in 1 .. Len(child[o]) => child[o][cursor[o]] \in live
  <2>1. /\ Len(destroying) \in 1 .. Len(destroying) /\ o = destroying[Len(destroying)]
        /\ o \in Handles
    BY <1>1, OnTop DEF TreeInv
  <2>2. o \in live
    BY <1>1, <2>1, Called
  <2>3. parent[o] \in live
    BY <1>1, <2>2 DEF TreeInv, LinksAgree
  <2>4. ASSUME cursor[o] \in 1 .. Len(child[o]) PROVE child[o][cursor[o]] \in live
    <3>1. cursor[o] \in Pending(o)
      <4>1. Len(child[o]) \in Nat
        BY <1>1, <2>1 DEF TreeInv, TypeOK
      <4> QED BY <2>4, <4>1 DEF Pending
    <3> QED BY <1>1, <2>2, <3>1 DEF TreeInv, LinksAgree
  <2> QED BY <2>2, <2>3, <2>4
<1>2. TreeInv => NoNullInDestroy
  BY <1>1 DEF NoNullInDestroy
<1> QED BY <1>2, TreeInitially, TreeStep, PTL DEF Spec

-----------------------------------------------------------------------------

(* A set of objects that holds the parent of each of its members.          *)
Closed(S) == S # {} /\ S \subseteq live /\ \A x \in S : parent[x] \in S

(* The members of the set that are a root of a tree that may exist: the    *)
(* root object and the objects being destroyed.                            *)
Grounded(S) == \E x \in S : x = RootHandle \/ x \in ToSet(destroying)

(* The elements of a sequence, by their indices.                           *)
LEMMA ToSetByIndex ==
  ASSUME NEW S, NEW s \in Seq(S)
  PROVE  ToSet(s) = {s[i] : i \in 1 .. Len(s)}
BY DEF ToSet

(* What Append() adds to them.                                             *)
LEMMA ToSetAppend ==
  ASSUME NEW S, NEW s \in Seq(S), NEW c \in S
  PROVE  ToSet(Append(s, c)) = ToSet(s) \cup {c}
<1>1. /\ Len(Append(s, c)) = Len(s) + 1 /\ Len(s) \in Nat
      /\ Append(s, c)[Len(s) + 1] = c /\ Append(s, c) \in Seq(S)
      /\ \A i \in 1 .. Len(s) : Append(s, c)[i] = s[i]
  OBVIOUS
<1>2. 1 .. Len(Append(s, c)) = (1 .. Len(s)) \cup {Len(s) + 1}
  BY <1>1
<1> DEFINE t == Append(s, c)
<1>3. ToSet(s) = {s[i] : i \in 1 .. Len(s)} /\ ToSet(t) = {t[i] : i \in 1 .. Len(t)}
  BY <1>1, ToSetByIndex
<1> HIDE DEF t
<1>4. {t[i] : i \in 1 .. Len(t)} = {s[i] : i \in 1 .. Len(s)} \cup {c}
  BY <1>1, <1>2 DEF t
<1> QED BY <1>3, <1>4 DEF t

(* SingleTree in the words of the proof.                                   *)
LEMMA SingleTreeByClosed == SingleTree <=> \A S : Closed(S) => Grounded(S)
BY DEF SingleTree, Closed, Grounded

(* Without spawns inside a destruction, a closed set of the next state is  *)
(* grounded because a closed part of it was grounded before.               *)
LEMMA SingleTreeStep ==
  ASSUME ~DestructorsSpawn
  PROVE  TreeInv /\ SingleTree /\ [Next]_vars => SingleTree'
<1> SUFFICES ASSUME TreeInv, SingleTree, [Next]_vars,
                    NEW S, Closed(S)', ~Grounded(S)'
             PROVE  FALSE
  BY DEF SingleTree, Closed, Grounded
<1>1. /\ S # {} /\ S \subseteq live' /\ \A x \in S : parent'[x] \in S
      /\ \A x \in S : x # RootHandle /\ x \notin ToSet(destroying')
  BY DEF Closed, Grounded
<1>2. /\ live \subseteq Handles
      /\ parent \in [Handles -> Handles]
      /\ \A x \in live : parent[x] \in live
  BY DEF TreeInv, TypeOK, TableTypeOK, LinksAgree
<1>3. \A T : Closed(T) => Grounded(T)
  BY SingleTreeByClosed
<1>4. ASSUME S \subseteq live, \A x \in S : parent'[x] = parent[x],
             \A x \in S : x \in ToSet(destroying) => x \in ToSet(destroying')
      PROVE  FALSE
  BY <1>1, <1>3, <1>4 DEF Closed, Grounded
<1>5. CASE \E p \in Handles : SpawnObject(p)
  <2>1. PICK p \in Handles, h \in Handles :
          p \in live /\ destroying = << >> /\ SpawnAt(p, h)
    BY <1>5 DEF SpawnObject, ScriptRuns
  <2>2. /\ h \notin live /\ live' = live \cup {h} /\ p # h /\ destroying' = destroying
        /\ cursor[p] = 0
    BY <2>1, NoCallsNoCursors DEF SpawnAt, Allocate, NewHandle
  <2>3. ~Contains(child[p], h)
    <3>1. Pending(p) = 1 .. Len(child[p])
      BY <2>1, <2>2, AtRest
    <3>2. \A i \in 1 .. Len(child[p]) : child[p][i] \in live
      BY <2>1, <3>1 DEF TreeInv, LinksAgree
    <3> QED BY <2>2, <3>2 DEF Contains
  <2>4. parent' = [parent EXCEPT ![h] = p]
    BY <2>1, <2>3 DEF SpawnAt
  <2>5. parent'[h] = p /\ \A x \in live : parent'[x] = parent[x]
    BY <1>2, <2>1, <2>2, <2>4
  <2>6. S \ {h} # {}
    BY <1>1, <2>2, <2>5
  <2>7. Closed(S \ {h})
    BY <1>1, <1>2, <2>2, <2>5, <2>6 DEF Closed
  <2>8. Grounded(S \ {h})
    BY <1>3, <2>7
  <2> QED BY <1>1, <2>2, <2>8 DEF Grounded
<1>6. CASE (\E o \in Handles : Kill(o)) \/ Terminate
  BY <1>1, <1>4, <1>6 DEF Kill, Terminate, Flag, tableVars
<1>7. CASE \E o \in Handles : DeleteKilled(o)
  <2>1. destroying = << >> /\ ToSet(destroying) = {}
    BY <1>7 DEF DeleteKilled, ToSet
  <2> QED BY <1>1, <1>4, <1>7, <2>1 DEF DeleteKilled, tableVars, treeVars
<1>8. CASE DestructorReturns
  <2> DEFINE o == Last(destroying)
  <2>1. /\ destroying # << >> /\ o \in ToSet(destroying) /\ o \in Handles
        /\ live' = live /\ destroying' = destroying
    BY <1>8, OnTop DEF DestructorReturns, tableVars, TreeInv, ToSet
  <2>2. parent' = parent \/ parent' = [parent EXCEPT ![o] = o]
    BY <1>8 DEF DestructorReturns, RemoveChild
  <2>3. \A x \in S : x # o /\ parent'[x] = parent[x]
    BY <1>1, <1>2, <2>1, <2>2
  <2> QED BY <1>1, <1>4, <2>1, <2>3
<1>9. CASE DestroyChild
  <2>1. PICK c \in live :
          /\ parent' = [parent EXCEPT ![c] = c]
          /\ destroying' = Append(destroying, c)
          /\ live' = live
    BY <1>9 DEF DestroyChild, tableVars
  <2>2. ToSet(destroying') = ToSet(destroying) \cup {c}
    BY <1>2, <2>1, ToSetAppend DEF TreeInv, TypeOK
  <2>3. \A x \in S : x # c /\ parent'[x] = parent[x]
    BY <1>1, <1>2, <2>1, <2>2
  <2> QED BY <1>1, <1>4, <2>1, <2>2, <2>3
<1>10. CASE DestroyReturns
  <2> DEFINE o == Last(destroying)
  <2>1. /\ destroying # << >> /\ o \in Handles
        /\ live' = live \ {o} /\ destroying' = Front(destroying)
        /\ parent' = [parent EXCEPT ![o] = o]
    BY <1>10, OnTop DEF DestroyReturns, Free, TreeInv
  <2>2. ToSet(destroying) \subseteq ToSet(destroying') \cup {o}
    BY <2>1, OnTop DEF TreeInv, ToSet
  <2>3. \A x \in S : x # o /\ x \in live /\ parent'[x] = parent[x]
    BY <1>1, <1>2, <2>1
  <2> QED BY <1>4, <2>2, <2>3
<1>11. CASE \E o, p \in Handles : Reparent(o, p)
  <2>1. PICK o \in Handles, p \in Handles : Reparent(o, p)
    BY <1>11
  <2>2. PICK T \in SUBSET (live \ {o}) : p \in T /\ \A x \in T : parent[x] \in T
    BY <2>1 DEF Reparent, Outside
  <2>3. /\ live' = live /\ destroying' = destroying /\ parent'[o] = p
        /\ \A x \in live : x # o => parent'[x] = parent[x]
    BY <1>2, <2>1 DEF Reparent, tableVars
  <2>4. CASE o \in S
    <3>1. Closed(S \cap T)
      BY <1>1, <2>2, <2>3, <2>4 DEF Closed
    <3>2. Grounded(S \cap T)
      BY <1>3, <3>1
    <3> QED BY <1>1, <2>3, <3>2 DEF Grounded
  <2>5. CASE o \notin S
    BY <1>1, <1>4, <2>3, <2>5
  <2> QED BY <2>4, <2>5
<1>12. CASE \E o \in Handles : Sweep(o)
  <2>1. PICK o \in Handles : destroying' = Append(destroying, o)
    BY <1>12 DEF Sweep
  <2>2. ToSet(destroying') = ToSet(destroying) \cup {o}
    BY <2>1, ToSetAppend DEF TreeInv, TypeOK
  <2> QED BY <1>1, <1>4, <1>12, <2>2 DEF Sweep, tableVars
<1>13. CASE SweepOvertakes \/ UNCHANGED vars
  BY <1>1, <1>4, <1>13 DEF SweepOvertakes, vars, tableVars, treeVars
<1> QED
  BY <1>5, <1>6, <1>7, <1>8, <1>9, <1>10, <1>11, <1>12, <1>13 DEF Next

(* When the destructors spawn nothing, the objects form one tree under the *)
(* root, plus what is being destroyed: no object outlives an ancestor, and *)
(* no move of the host makes the parents run in a circle.                  *)
THEOREM OneTree == ASSUME ~DestructorsSpawn PROVE Spec => []SingleTree
<1>1. Init => SingleTree
  BY DEF Init, TableInit, SingleTree, RootHandle
<1> QED BY <1>1, TreeInitially, TreeStep, SingleTreeStep, PTL DEF Spec

-----------------------------------------------------------------------------

(* The depths, while a destruction unlinks the objects one by one: exact   *)
(* for every object that still has a parent, but for the children of the   *)
(* objects being destroyed, whose own depths are already reset.            *)
DepthOK ==
  /\ \A h \in live :
       parent[h] # h =>
         parent[h] \in ToSet(destroying) \/ depth[h] = 1 + depth[parent[h]]
  /\ RootHandle \in live => depth[RootHandle] = 0

(* Every step keeps the depths, if the host moves nothing.                 *)
LEMMA DepthStep ==
  ASSUME ~HostReparents
  PROVE  TreeInv /\ DepthOK /\ [Next]_vars => DepthOK'
<1> SUFFICES ASSUME TreeInv, DepthOK, [Next]_vars PROVE DepthOK'
  OBVIOUS
<1>1. /\ live \subseteq Handles
      /\ parent \in [Handles -> Handles] /\ depth \in [Handles -> Nat]
      /\ destroying \in Seq(Handles)
      /\ \A x \in live : parent[x] \in live
  BY DEF TreeInv, TypeOK, TableTypeOK, LinksAgree
<1>2. CASE \E p \in Handles : SpawnObject(p)
  <2>1. PICK p \in live, h \in Handles : SpawnAt(p, h)
    BY <1>2 DEF SpawnObject
  <2>2. /\ h \notin live /\ live' = live \cup {h} /\ p # h /\ h # RootHandle
        /\ destroying' = destroying
        /\ \/ parent' = parent /\ depth' = depth
           \/ /\ parent' = [parent EXCEPT ![h] = p]
              /\ depth' = [depth EXCEPT ![h] = 1 + depth[p]]
    BY <2>1 DEF SpawnAt, Allocate, NewHandle
  <2>3. parent[h] = h
    BY <2>2 DEF TreeInv, UnusedUnlinked
  <2>4. \A x \in live : parent'[x] = parent[x] /\ depth'[x] = depth[x]
    BY <1>1, <2>2
  <2>5. parent'[h] # h => parent'[h] = p /\ depth'[h] = 1 + depth[p]
    BY <1>1, <2>2, <2>3
  <2> QED BY <1>1, <2>2, <2>4, <2>5 DEF DepthOK
<1>3. CASE (\E o \in Handles : Kill(o)) \/ Terminate
  BY <1>3 DEF Kill, Terminate, Flag, tableVars, DepthOK
<1>4. CASE \E o \in Handles : DeleteKilled(o)
  <2>1. ToSet(destroying) = {}
    BY <1>4 DEF DeleteKilled, ToSet
  <2> QED BY <1>4, <2>1 DEF DeleteKilled, tableVars, treeVars, DepthOK
<1>5. CASE DestructorReturns
  <2> DEFINE o == Last(destroying)
  <2>1. /\ o \in ToSet(destroying) /\ o \in Handles
        /\ live' = live /\ destroying' = destroying
        /\ \/ parent' = parent /\ depth' = depth
           \/ parent' = [parent EXCEPT ![o] = o] /\ depth' = [depth EXCEPT ![o] = 0]
    BY <1>5, OnTop DEF DestructorReturns, RemoveChild, tableVars, TreeInv, ToSet
  <2>2. ASSUME NEW x \in live, parent'[x] # x
        PROVE  parent'[x] = parent[x] /\ depth'[x] = depth[x]
    BY <1>1, <2>1, <2>2
  <2>3. \A x \in live : x # o => depth'[x] = depth[x]
    BY <1>1, <2>1
  <2>4. RootHandle \in live => depth'[RootHandle] = 0
    BY <1>1, <2>1 DEF DepthOK
  <2> HIDE DEF o
  <2> QED BY <1>1, <2>1, <2>2, <2>3, <2>4 DEF DepthOK
<1>6. CASE DestroyChild
  <2>1. PICK c \in live :
          /\ parent' = [parent EXCEPT ![c] = c] /\ depth' = depth
          /\ destroying' = Append(destroying, c)
          /\ live' = live
    BY <1>6 DEF DestroyChild, tableVars
  <2>2. ToSet(destroying) \subseteq ToSet(destroying')
    BY <1>1, <2>1, ToSetAppend
  <2>3. \A x \in live : parent'[x] # x => parent'[x] = parent[x]
    BY <1>1, <2>1
  <2> QED BY <1>1, <2>1, <2>2, <2>3 DEF DepthOK
<1>7. CASE DestroyReturns
  <2> DEFINE o == Last(destroying)
  <2>1. /\ destroying # << >> /\ o \in Handles /\ cursor[o] > Len(child[o])
        /\ live' = live \ {o} /\ destroying' = Front(destroying)
        /\ parent' = [parent EXCEPT ![o] = o] /\ depth' = [depth EXCEPT ![o] = 0]
    BY <1>7, OnTop DEF DestroyReturns, Free, TreeInv
  <2>2. ToSet(destroying) \subseteq ToSet(destroying') \cup {o}
    BY <2>1, OnTop DEF TreeInv, ToSet
  <2>3. Pending(o) = {}
    <3>1. cursor[o] \in Nat /\ Len(child[o]) \in Nat
      BY <2>1 DEF TreeInv, TypeOK
    <3> QED BY <2>1, <3>1 DEF Pending
  <2>4. \A x \in live : x # o => parent[x] # o
    BY <2>3 DEF TreeInv, LinksAgree
  <2>5. \A x \in live' : /\ x \in live /\ x # o
                         /\ parent'[x] = parent[x] /\ depth'[x] = depth[x]
    BY <1>1, <2>1
  <2>6. \A x \in live' : parent[x] # x => depth'[parent[x]] = depth[parent[x]]
    BY <1>1, <2>1, <2>4, <2>5
  <2> HIDE DEF o
  <2>7. ASSUME NEW x \in live', parent'[x] # x
        PROVE  parent'[x] \in ToSet(destroying') \/ depth'[x] = 1 + depth'[parent'[x]]
    BY <2>2, <2>4, <2>5, <2>6, <2>7 DEF DepthOK
  <2> QED BY <2>5, <2>7 DEF DepthOK
<1>8. CASE \E o, p \in Handles : Reparent(o, p)
  BY <1>8 DEF Reparent
<1>9. CASE \E o \in Handles : Sweep(o)
  <2>1. PICK o \in Handles : destroying' = Append(destroying, o)
    BY <1>9 DEF Sweep
  <2>2. ToSet(destroying) \subseteq ToSet(destroying')
    BY <1>1, <2>1, ToSetAppend
  <2> QED BY <1>9, <2>2 DEF Sweep, tableVars, DepthOK
<1>10. CASE SweepOvertakes \/ UNCHANGED vars
  BY <1>10 DEF SweepOvertakes, vars, tableVars, treeVars, DepthOK
<1> QED
  BY <1>2, <1>3, <1>4, <1>5, <1>6, <1>7, <1>8, <1>9, <1>10 DEF Next

(* As long as the host moves no object, an object is one level below its   *)
(* parent whenever no destruction is in progress.                          *)
THEOREM DepthsAreExact == ASSUME ~HostReparents PROVE Spec => []DepthInTree
<1>1. Init => DepthOK
  BY TableAssumption DEF Init, TableInit, DepthOK, RootHandle, Handles
<1>2. TreeInv /\ DepthOK => DepthInTree
  <2> SUFFICES ASSUME TreeInv, DepthOK, destroying = << >>
               PROVE  \A h \in live :
                        /\ parent[h] # h => depth[h] = 1 + depth[parent[h]]
                        /\ h = RootHandle => depth[h] = 0
    BY DEF DepthInTree
  <2>1. ToSet(destroying) = {}
    BY DEF ToSet
  <2> QED BY <2>1 DEF DepthOK
<1> QED BY <1>1, <1>2, TreeInitially, TreeStep, DepthStep, PTL DEF Spec

-----------------------------------------------------------------------------
(* Frames.                                                                 *)

(* Whatever a frame does is a step of the tree of objects, or none at all. *)
LEMMA FrameStepIsTreeStep == TreeInv /\ [FrameNext]_frameVars => [Next]_vars
<1> SUFFICES ASSUME TreeInv, FrameNext, ~overtaken PROVE [Next]_vars
  BY DEF frameVars, FrameNext
<1>0. RootHandle \in Handles /\ App \in Handles
  BY TableAssumption, FrameAssumption DEF Handles, RootHandle, App
<1>1. CASE Launch
  BY <1>0, <1>1 DEF Launch, Next
<1>2. CASE \E p \in Handles : ScriptSpawns(p)
  BY <1>2 DEF ScriptSpawns, Next
<1>3. CASE \E o \in Handles : ScriptKills(o)
  BY <1>3 DEF ScriptKills, Next
<1>4. CASE \E o \in Handles : SetActive(o)
  BY <1>4 DEF SetActive
<1>5. CASE ApplicationExit
  BY <1>0, <1>5 DEF ApplicationExit, Next
<1>6. CASE SystemExits
  BY <1>6 DEF SystemExits
<1>7. CASE HostActs
  BY <1>7 DEF HostActs, Next
<1>8. ASSUME NEW o \in Handles, Update(o)
      PROVE  [Next]_vars
  BY <1>8 DEF Update, Next
<1>9. CASE BeginFrame
  BY <1>0, <1>8, <1>9 DEF BeginFrame
<1>10. CASE EndState
  <2>1. destroying = << >>
    BY <1>10 DEF EndState
  <2>2. UNCHANGED vars \/ Flag(RootHandle)
    BY <1>10, Zenon DEF EndState
  <2> QED BY <2>1, <2>2 DEF Next, Terminate
<1>11. CASE VisitChild
  <2>1. PICK c : c \in live /\ Update(c)
    BY <1>11, Zenon DEF VisitChild
  <2>2. DeleteKilled(c) \/ UNCHANGED vars
    BY <2>1 DEF Update
  <2>3. c \in Handles
    BY <2>1 DEF TreeInv, TypeOK, TableTypeOK
  <2> QED BY <2>2, <2>3 DEF Next
<1>12. CASE LeaveObject
  BY <1>12 DEF LeaveObject
<1>13. CASE Destruction
  BY <1>13 DEF Destruction, Next
<1>14. CASE \E o \in Handles : SweepsGarbage(o)
  BY <1>14 DEF SweepsGarbage, Next
<1>15. CASE SweepsInUse
  BY <1>15 DEF SweepsInUse, Next
<1> QED
  BY <1>1, <1>2, <1>3, <1>4, <1>5, <1>6, <1>7, <1>9, <1>10, <1>11, <1>12, <1>13, <1>14,
     <1>15
  DEF FrameNext

(* ... and therefore what holds of the tree holds during a frame.          *)
LEMMA FrameStepKeepsTree == TreeInv /\ [FrameNext]_frameVars => TreeInv'
BY FrameStepIsTreeStep, TreeStep

(* The frames implement the tree of objects: the traversal, the states and *)
(* the exits deal with it by its operations only.                          *)
THEOREM FramesImplementTree == FrameSpec => Spec
<1>1. FrameInit => Init
  BY DEF FrameInit
<1> QED
  BY <1>1, TreeInitially, FrameStepIsTreeStep, FrameStepKeepsTree, PTL DEF FrameSpec, Spec

(* Parent pointers and child lists agree at every step of every frame.     *)
THEOREM FramesKeepLinks == FrameSpec => []LinksAgree
BY FramesImplementTree, LinksAlwaysAgree, PTL

(* The destructions in the midst of a traversal, those of the sweeps that  *)
(* scripts, destructors and the collector begin there included, follow no  *)
(* handle that is not in use, as long as no sweep has deleted an object in *)
(* use.                                                                    *)
THEOREM FramesMeetNoNull == FrameSpec => []NoNullInDestroy
BY FramesImplementTree, NoNullHandle, PTL

-----------------------------------------------------------------------------

(* TraversalIsPath as it holds in every state of the model.                *)
PathDown ==
  visiting # << >> =>
    /\ visiting[1] = RootHandle
    /\ \A i \in 1 .. Len(visiting) :
         /\ visiting[i] \in live
         /\ visiting[i] \notin ToSet(destroying)
         /\ i > 1 => /\ parent[visiting[i]] = visiting[i - 1]
                     /\ visiting[i] # visiting[i - 1]

(* The stack of the traversal: a path down the tree on which no object is  *)
(* met twice.  The root object has no parent, ever.                        *)
PathInv ==
  /\ visiting \in Seq(Handles)
  /\ parent[RootHandle] = RootHandle
  /\ PathDown
  /\ Distinct(visiting)

(* What the proofs use of a traversal that goes on.                        *)
LEMMA OnPath ==
  ASSUME PathInv, NEW i \in 1 .. Len(visiting)
  PROVE  /\ visiting[1] = RootHandle
         /\ visiting[i] \in live
         /\ visiting[i] \notin ToSet(destroying)
         /\ i > 1 => parent[visiting[i]] = visiting[i - 1] /\ i - 1 \in 1 .. Len(visiting)
<1>1. Len(visiting) \in Nat /\ visiting # << >> /\ i \in Nat
  BY DEF PathInv
<1>2. i > 1 => i - 1 \in 1 .. Len(visiting)
  BY <1>1
<1> QED BY <1>1, <1>2 DEF PathInv, PathDown

(* A step that leaves the traversal where it is keeps the path if it       *)
(* neither moves nor destroys what is on it.                               *)
LEMMA PathStays ==
  ASSUME PathInv, UNCHANGED visiting, parent'[RootHandle] = RootHandle,
         \A i \in 1 .. Len(visiting) :
            /\ visiting[i] \in live'
            /\ visiting[i] \notin ToSet(destroying')
            /\ parent'[visiting[i]] = parent[visiting[i]]
  PROVE  PathInv'
<1>1. visiting \in Seq(Handles) /\ Distinct(visiting)
  BY DEF PathInv
<1>2. PathDown'
  BY DEF PathInv, PathDown
<1> QED BY <1>1, <1>2 DEF PathInv, Distinct

(* A child is not on the path, unless as the object after its parent.      *)
LEMMA ChildOffPath ==
  ASSUME PathInv, NEW p, NEW c, parent[c] = p, c # p,
         \A i \in 1 .. Len(visiting) : visiting[i] = p => i = Len(visiting)
  PROVE  \A i \in 1 .. Len(visiting) : visiting[i] # c
<1> SUFFICES ASSUME NEW i \in 1 .. Len(visiting), visiting[i] = c PROVE FALSE
  OBVIOUS
<1>1. Len(visiting) \in Nat
  BY DEF PathInv
<1>2. CASE i = 1
  BY <1>2, OnPath DEF PathInv
<1>3. CASE i > 1
  <2>1. visiting[i - 1] = p /\ i - 1 \in 1 .. Len(visiting)
    BY <1>3, OnPath
  <2>2. i - 1 = Len(visiting)
    BY <2>1
  <2> QED BY <1>1, <2>2
<1> QED BY <1>1, <1>2, <1>3

(* The path is left by its last object, ...                                *)
LEMMA PathReturns ==
  ASSUME PathInv, visiting # << >>, visiting' = Front(visiting),
         UNCHANGED <<live, parent, destroying>>
  PROVE  PathInv'
<1>1. /\ visiting' \in Seq(Handles)
      /\ Len(visiting') = Len(visiting) - 1 /\ Len(visiting) \in Nat \ {0}
      /\ \A i \in 1 .. Len(visiting') : visiting'[i] = visiting[i]
  BY FrontAndLast DEF PathInv
<1>2. PathDown'
  BY <1>1 DEF PathInv, PathDown
<1>3. Distinct(visiting')
  BY <1>1 DEF PathInv, Distinct
<1> QED BY <1>1, <1>2, <1>3 DEF PathInv

(* ... and it is extended by a child of that object.                       *)
LEMMA PathExtends ==
  ASSUME PathInv, visiting # << >>, destroying = << >>,
         NEW c \in live, c \in Handles, c # Last(visiting), parent[c] = Last(visiting),
         visiting' = Append(visiting, c), UNCHANGED <<live, parent, destroying>>
  PROVE  PathInv'
<1> DEFINE n == Len(visiting)
<1>1. /\ n \in Nat \ {0} /\ Last(visiting) = visiting[n] /\ visiting \in Seq(Handles)
  BY FrontAndLast DEF PathInv
<1>2. /\ visiting' \in Seq(Handles) /\ Len(visiting') = n + 1 /\ visiting'[n + 1] = c
      /\ \A i \in 1 .. n : visiting'[i] = visiting[i]
  BY <1>1
<1>3. \A i \in 1 .. n : visiting[i] # c
  <2>1. \A i \in 1 .. n : visiting[i] = Last(visiting) => i = n
    BY <1>1 DEF PathInv, Distinct
  <2> QED BY <2>1, ChildOffPath
<1>4. Distinct(visiting')
  BY <1>1, <1>2, <1>3 DEF PathInv, Distinct
<1>5. PathDown'
  <2> SUFFICES ASSUME NEW i \in 1 .. n + 1
               PROVE  /\ visiting'[i] \in live
                      /\ visiting'[i] \notin ToSet(destroying)
                      /\ i > 1 => /\ parent[visiting'[i]] = visiting'[i - 1]
                                  /\ visiting'[i] # visiting'[i - 1]
    BY <1>1, <1>2 DEF PathDown, PathInv
  <2>1. CASE i = n + 1
    BY <2>1, <1>1, <1>2 DEF ToSet
  <2>2. CASE i \in 1 .. n
    BY <2>2, <1>1, <1>2 DEF PathInv, PathDown
  <2> QED BY <2>1, <2>2, <1>1
<1> QED BY <1>2, <1>4, <1>5 DEF PathInv

-----------------------------------------------------------------------------

(* The traversal comes to the object c from its parent: it is a list entry *)
(* behind which nothing is on the path.                                    *)
LEMMA VisitStep ==
  ASSUME TreeInv, PathInv, VisitChild
  PROVE  PathInv'
<1> DEFINE p == Last(visiting)
           c == child[p][index[p]]
<1>1. /\ visiting # << >> /\ destroying = << >>
      /\ index[p] \in 1 .. Len(child[p])
      /\ c \in live /\ Update(c)
  BY Zenon DEF VisitChild
<1>2. /\ Len(visiting) \in Nat \ {0} /\ p = visiting[Len(visiting)]
      /\ p \in Handles
  BY <1>1, FrontAndLast DEF PathInv
<1>3. p \in live
  BY <1>2, OnPath
<1>4. c # p /\ parent[c] = p /\ c \in Handles
  <2>1. Pending(p) = 1 .. Len(child[p])
    BY <1>1, <1>2, <1>3, AtRest, NoCallsNoCursors
  <2>2. LinksAgree /\ live \subseteq Handles
    BY DEF TreeInv, TypeOK, TableTypeOK
  <2> QED BY <1>1, <1>3, <2>1, <2>2, Zenon DEF LinksAgree
<1> HIDE DEF p, c
<1>5. CASE DeleteKilled(c) /\ UNCHANGED visiting
  <2>1. /\ destroying' = <<c>> /\ UNCHANGED <<live, parent>>
    BY <1>5 DEF DeleteKilled, tableVars, treeVars
  <2>2. \A i \in 1 .. Len(visiting) : visiting[i] # c
    <3>1. \A i \in 1 .. Len(visiting) : visiting[i] = p => i = Len(visiting)
      BY <1>2 DEF PathInv, Distinct
    <3> QED BY <1>4, <3>1, ChildOffPath
  <2>3. ToSet(destroying') = {c}
    BY <2>1 DEF ToSet
  <2> QED BY <1>5, <2>1, <2>2, <2>3, OnPath, PathStays DEF PathInv
<1>6. CASE visiting' = Append(visiting, c) /\ UNCHANGED vars
  <2>1. UNCHANGED <<live, parent, destroying>>
    BY <1>6 DEF vars, tableVars, treeVars
  <2> QED BY <1>1, <1>4, <1>6, <2>1, PathExtends DEF p
<1>7. CASE UNCHANGED <<vars, visiting>>
  BY <1>7, OnPath, PathStays DEF vars, tableVars, treeVars, PathInv
<1> QED BY <1>1, <1>5, <1>6, <1>7 DEF Update

(* A destruction touches nothing on the path: an object on the path is     *)
(* never a child of one that is being destroyed.                           *)
LEMMA DestructionStep ==
  ASSUME TreeInv, PathInv, DestructorReturns \/ DestroyChild \/ DestroyReturns,
         UNCHANGED visiting
  PROVE  PathInv'
<1> DEFINE o == Last(destroying)
<1>0. destroying # << >>
  BY DEF DestructorReturns, DestroyChild, DestroyReturns
<1>1. /\ Len(destroying) \in Nat \ {0} /\ o = destroying[Len(destroying)]
      /\ o \in Handles /\ destroying \in Seq(Handles)
  BY <1>0, OnTop DEF TreeInv, TypeOK
<1>2. ToSet(destroying) = {destroying[i] : i \in 1 .. Len(destroying)} /\ o \in ToSet(destroying)
  BY <1>1, ToSetByIndex
<1>3. \A i \in 1 .. Len(visiting) : visiting[i] # o
  BY <1>2, OnPath
<1>4. parent \in [Handles -> Handles] /\ live \subseteq Handles /\ o \in live
  BY <1>1, Called DEF TreeInv, TypeOK, TableTypeOK
<1>5. RootHandle \in Handles
  BY TableAssumption DEF Handles, RootHandle
<1>6. CASE DestructorReturns
  <2>1. UNCHANGED <<live, destroying>>
    BY <1>6 DEF DestructorReturns, tableVars
  <2>2. parent' = parent \/ parent' = [parent EXCEPT ![o] = o]
    BY <1>6, Zenon DEF DestructorReturns, RemoveChild
  <2>3. \A h \in Handles : parent'[h] = parent[h] \/ (h = o /\ parent'[h] = o)
    BY <2>2, <1>4
  <2>4. parent'[RootHandle] = RootHandle
    BY <2>3, <1>5 DEF PathInv
  <2>5. \A i \in 1 .. Len(visiting) : parent'[visiting[i]] = parent[visiting[i]]
    BY <2>3, <1>3, <1>4, OnPath
  <2> QED BY <2>1, <2>4, <2>5, OnPath, PathStays
<1>7. CASE DestroyChild
  <2> DEFINE c == child[o][cursor[o]]
  <2>1. /\ cursor[o] \in 1 .. Len(child[o]) /\ c \in live
        /\ parent' = [parent EXCEPT ![c] = c]
        /\ destroying' = Append(destroying, c)
        /\ live' = live
    BY <1>7, Zenon DEF DestroyChild, tableVars
  <2>2. c # o /\ parent[c] = o
    <3>1. cursor[o] \in Pending(o)
      BY <2>1 DEF Pending
    <3>2. LinksAgree
      BY DEF TreeInv
    <3> QED BY <3>1, <3>2, <1>4, Zenon DEF LinksAgree
  <2>3. ToSet(destroying') = ToSet(destroying) \cup {c} /\ c \in Handles
    BY <2>1, <1>1, <1>4, ToSetAppend
  <2> HIDE DEF c
  <2>4. \A i \in 1 .. Len(visiting) : visiting[i] # c
    BY <2>2, <1>3, ChildOffPath
  <2>5. \A h \in Handles : parent'[h] = parent[h] \/ (h = c /\ parent'[h] = c)
    BY <2>1, <1>4
  <2>6. parent'[RootHandle] = RootHandle
    BY <2>5, <1>5 DEF PathInv
  <2>7. \A i \in 1 .. Len(visiting) :
          visiting[i] \notin ToSet(destroying') /\ parent'[visiting[i]] = parent[visiting[i]]
    BY <2>3, <2>4, <2>5, <1>4, OnPath
  <2> QED BY <2>1, <2>6, <2>7, OnPath, PathStays
<1>8. CASE DestroyReturns
  <2>1. /\ live' = live \ {o}
        /\ parent' = [parent EXCEPT ![o] = o]
        /\ destroying' = Front(destroying)
    BY <1>8, Zenon DEF DestroyReturns, Free
  <2>2. ToSet(destroying') \subseteq ToSet(destroying)
    <3>1. /\ destroying' \in Seq(Handles) /\ Len(destroying') = Len(destroying) - 1
          /\ \A i \in 1 .. Len(destroying) - 1 : destroying'[i] = destroying[i]
      BY <2>1, <1>0, OnTop DEF TreeInv
    <3>2. ToSet(destroying') = {destroying'[i] : i \in 1 .. Len(destroying')}
      BY <3>1, ToSetByIndex
    <3> QED BY <3>1, <3>2, <1>1, <1>2
  <2>3. \A h \in Handles : parent'[h] = parent[h] \/ (h = o /\ parent'[h] = o)
    BY <2>1, <1>4
  <2>4. parent'[RootHandle] = RootHandle
    BY <2>3, <1>5 DEF PathInv
  <2>5. \A i \in 1 .. Len(visiting) : /\ parent'[visiting[i]] = parent[visiting[i]]
                                      /\ visiting[i] \in live'
    BY <2>1, <2>3, <1>3, <1>4, OnPath
  <2> QED BY <2>2, <2>4, <2>5, OnPath, PathStays
<1> QED BY <1>6, <1>7, <1>8

(* A spawn gives no object on the path another parent, for it gets a       *)
(* handle that is free.                                                    *)
LEMMA SpawnOffPath ==
  ASSUME TreeInv, PathInv, NEW p, SpawnObject(p), UNCHANGED visiting
  PROVE  PathInv'
<1>1. PICK h \in Handles : SpawnAt(p, h)
  BY DEF SpawnObject
<1>2. /\ h \notin live /\ h # RootHandle /\ live' = live \cup {h} /\ UNCHANGED destroying
      /\ parent' = parent \/ parent' = [parent EXCEPT ![h] = p]
  BY <1>1, Zenon DEF SpawnAt, Allocate, NewHandle
<1>3. parent \in [Handles -> Handles]
  BY DEF TreeInv, TypeOK
<1>4. \A g \in Handles : g # h => parent'[g] = parent[g]
  BY <1>2, <1>3
<1>5. RootHandle \in Handles /\ live \subseteq Handles
  BY TableAssumption DEF Handles, RootHandle, TreeInv, TypeOK, TableTypeOK
<1>6. parent'[RootHandle] = RootHandle
  BY <1>2, <1>4, <1>5 DEF PathInv
<1>7. \A i \in 1 .. Len(visiting) : /\ parent'[visiting[i]] = parent[visiting[i]]
                                    /\ visiting[i] \in live'
                                    /\ visiting[i] \notin ToSet(destroying')
  BY <1>2, <1>4, <1>5, OnPath
<1> QED BY <1>6, <1>7, PathStays

(* What a sweep of an object that is not in use does to the calls.         *)
LEMMA SweepFacts ==
  ASSUME TreeInv, NEW o, SweepsGarbage(o)
  PROVE  /\ ScriptCode \/ CollectorRuns
         /\ o \notin {RootHandle, Services, App} /\ o \notin ToSet(visiting)
         /\ o \in live /\ o \in Handles
         /\ killed' = killed \cup {o}
         /\ destroying' = Append(destroying, o)
         /\ ToSet(destroying') = ToSet(destroying) \cup {o}
         /\ UNCHANGED <<tableVars, parent, child, depth, cursor, overtaken>>
         /\ UNCHANGED <<scanVars, active, launching, exiting, shortened>>
<1>1. o \in live /\ live \subseteq Handles /\ destroying \in Seq(Handles)
  BY DEF SweepsGarbage, Sweep, TreeInv, TypeOK, TableTypeOK
<1>2. destroying' = Append(destroying, o)
  BY DEF SweepsGarbage, Sweep
<1>3. ToSet(destroying') = ToSet(destroying) \cup {o}
  BY <1>1, <1>2, ToSetAppend
<1> QED BY <1>1, <1>2, <1>3 DEF SweepsGarbage, Sweep

(* A sweep of an object that is not in use destroys nothing on the path.   *)
LEMMA SweepOffPath ==
  ASSUME TreeInv, PathInv, NEW o, SweepsGarbage(o)
  PROVE  PathInv'
<1>1. /\ ToSet(destroying') = ToSet(destroying) \cup {o} /\ o \notin ToSet(visiting)
      /\ UNCHANGED <<live, parent, visiting>>
  BY SweepFacts DEF tableVars, scanVars
<1>2. \A i \in 1 .. Len(visiting) : visiting[i] # o
  BY <1>1, ToSetByIndex DEF PathInv
<1> QED BY <1>1, <1>2, OnPath, PathStays DEF PathInv

(* Every step of a frame keeps the path.                                   *)
LEMMA PathStep ==
  ASSUME TreeInv, PathInv, [FrameNext]_frameVars
  PROVE  PathInv'
<1>0. RootHandle \in Handles /\ parent \in [Handles -> Handles]
  <2>1. RootHandle \in Handles
    BY TableAssumption DEF Handles, RootHandle
  <2> QED BY <2>1 DEF TreeInv, TypeOK
<1>1. ASSUME UNCHANGED <<live, parent, destroying, visiting>> PROVE PathInv'
  BY <1>1, OnPath, PathStays DEF PathInv
<1>2. CASE Launch
  BY <1>2, SpawnOffPath DEF Launch, scanVars
<1>3. CASE \E p \in Handles : ScriptSpawns(p)
  BY <1>3, SpawnOffPath DEF ScriptSpawns, scanVars
<1>4. CASE \E o \in Handles : ScriptKills(o)
  BY <1>1, <1>4 DEF ScriptKills, Kill, Flag, tableVars, scanVars
<1>5. CASE \E o \in Handles : SetActive(o)
  BY <1>1, <1>5 DEF SetActive, vars, tableVars, treeVars, scanVars
<1>6. CASE ApplicationExit
  BY <1>1, <1>6 DEF ApplicationExit, Kill, Flag, vars, tableVars, treeVars, scanVars
<1>7. CASE SystemExits
  BY <1>1, <1>7 DEF SystemExits, vars, tableVars, treeVars, scanVars
<1>8. CASE HostActs
  <2>1. visiting = << >> /\ UNCHANGED visiting
    BY <1>8 DEF HostActs, scanVars
  <2>2. CASE Terminate
    BY <1>1, <2>1, <2>2 DEF Terminate, Flag, tableVars
  <2>3. CASE \E o, p \in Handles \ {RootHandle, Services} : Reparent(o, p)
    <3>1. parent'[RootHandle] = RootHandle
      BY <2>3, <1>0 DEF Reparent, PathInv
    <3> QED BY <2>1, <3>1, PathStays
  <2> QED BY <1>8, <2>2, <2>3 DEF HostActs
<1>9. CASE BeginFrame
  <2>1. /\ visiting = << >> /\ destroying = << >> /\ RootHandle \in live
        /\ Update(RootHandle)
    BY <1>9 DEF BeginFrame
  <2>2. CASE DeleteKilled(RootHandle) /\ UNCHANGED visiting
    BY <2>1, <2>2, PathStays DEF DeleteKilled, treeVars, PathInv
  <2>3. CASE visiting' = Append(visiting, RootHandle) /\ UNCHANGED vars
    <3>1. /\ visiting' = <<RootHandle>> /\ ToSet(destroying') = {}
          /\ UNCHANGED <<live, parent, destroying>>
      BY <2>1, <2>3 DEF vars, tableVars, treeVars, ToSet
    <3>2. PathDown'
      BY <2>1, <3>1 DEF PathDown
    <3> QED BY <1>0, <3>1, <3>2 DEF PathInv, Distinct
  <2>4. CASE UNCHANGED <<vars, visiting>>
    BY <1>1, <2>4 DEF vars, tableVars, treeVars
  <2> QED BY <2>1, <2>2, <2>3, <2>4 DEF Update
<1>10. CASE EndState
  <2>1. visiting # << >> /\ UNCHANGED <<live, parent, destroying>>
    BY <1>10 DEF EndState, Flag, vars, tableVars, treeVars
  <2>2. UNCHANGED visiting \/ visiting' = Front(visiting)
    BY <1>10, Zenon DEF EndState, Return
  <2> QED BY <1>1, <2>1, <2>2, PathReturns
<1>11. CASE VisitChild
  BY <1>11, VisitStep
<1>12. CASE LeaveObject
  BY <1>12, PathReturns DEF LeaveObject, Return, vars, tableVars, treeVars
<1>13. CASE Destruction
  BY <1>13, DestructionStep DEF Destruction
<1>14. CASE UNCHANGED frameVars
  BY <1>1, <1>14 DEF frameVars, scanVars, vars, tableVars, treeVars
<1>15. CASE \E o \in Handles : SweepsGarbage(o)
  BY <1>15, SweepOffPath
<1>16. CASE SweepsInUse
  BY <1>1, <1>16 DEF SweepsInUse, SweepOvertakes, tableVars, treeVars, scanVars
<1> QED
  BY <1>2, <1>3, <1>4, <1>5, <1>6, <1>7, <1>8, <1>9, <1>10, <1>11, <1>12, <1>13, <1>14,
     <1>15, <1>16
  DEF FrameNext

(* Before the launch nothing is visited.                                   *)
LEMMA FrameInitially == FrameInit => TreeInv /\ PathInv
<1> SUFFICES ASSUME FrameInit PROVE TreeInv /\ PathInv
  OBVIOUS
<1>1. TreeInv
  BY TreeInitially DEF FrameInit
<1> QED
  BY <1>1, TableAssumption
  DEF FrameInit, Init, PathInv, PathDown, Distinct, Handles, RootHandle

(* The pointers that the traversal holds stay valid: what it is visiting   *)
(* is a path of the tree, of which no object is being destroyed, whatever  *)
(* is spawned, killed and swept on the way, as long as no sweep has        *)
(* deleted an object in use.                                               *)
THEOREM TraversalStaysOnPath == FrameSpec => []TraversalIsPath
<1>1. TreeInv /\ PathInv /\ [FrameNext]_frameVars => (TreeInv /\ PathInv)'
  BY FrameStepKeepsTree, PathStep
<1>2. TreeInv /\ PathInv => TraversalIsPath
  BY DEF PathInv, PathDown, TraversalIsPath
<1> QED BY <1>1, <1>2, FrameInitially, PTL DEF FrameSpec

(* The types of the variables of a frame.                                  *)
LEMMA FrameTypeStep ==
  ASSUME TreeInv, PathInv, PathInv', FrameTypeOK, [FrameNext]_frameVars
  PROVE  FrameTypeOK'
<1>1. visiting' \in Seq(Handles)
  BY DEF PathInv
<1>2. visiting # << >> => Last(visiting) \in Handles
  BY FrontAndLast DEF PathInv
<1>3. RootHandle \in Handles /\ live \subseteq Handles
  <2>1. RootHandle \in Handles
    BY TableAssumption DEF Handles, RootHandle
  <2> QED BY <2>1 DEF TreeInv, TypeOK, TableTypeOK
<1>4. ASSUME NEW p, SpawnObject(p)
      PROVE  live \subseteq live'
  BY <1>4 DEF SpawnObject, SpawnAt, Allocate
<1>5. CASE Launch
  BY <1>1, <1>4, <1>5 DEF Launch, FrameTypeOK, scanVars
<1>6. CASE \E p \in Handles : ScriptSpawns(p)
  <2>1. live \subseteq live' /\ active' = active \cup (live' \ live)
    BY <1>4, <1>6 DEF ScriptSpawns
  <2> QED BY <1>1, <1>6, <2>1 DEF ScriptSpawns, FrameTypeOK, scanVars
<1>7. CASE \E o \in Handles : ScriptKills(o)
  BY <1>1, <1>7 DEF ScriptKills, Kill, Flag, tableVars, FrameTypeOK, scanVars
<1>8. CASE \E o \in Handles : SetActive(o)
  BY <1>1, <1>8 DEF SetActive, vars, tableVars, FrameTypeOK, scanVars
<1>9. CASE ApplicationExit
  BY <1>1, <1>9 DEF ApplicationExit, Kill, Flag, vars, tableVars, FrameTypeOK, scanVars
<1>10. CASE SystemExits
  BY <1>1, <1>10 DEF SystemExits, vars, tableVars, FrameTypeOK, scanVars
<1>11. CASE HostActs
  <2>1. live' = live
    BY <1>11 DEF HostActs, Terminate, Flag, Reparent, tableVars
  <2> QED BY <1>1, <1>11, <2>1 DEF HostActs, FrameTypeOK, scanVars
<1>12. ASSUME NEW o, Update(o)
       PROVE  live' = live
  BY <1>12 DEF Update, DeleteKilled, vars, tableVars
<1>13. CASE BeginFrame
  <2>1. /\ live' = live /\ RootHandle \in live
        /\ index' = [index EXCEPT ![RootHandle] = 0]
        /\ visited' = {RootHandle} /\ shortened' = {}
        /\ UNCHANGED <<active, launching, exiting>>
    BY <1>12, <1>13 DEF BeginFrame
  <2> QED BY <1>1, <2>1 DEF FrameTypeOK
<1>14. CASE EndState
  <2>1. live' = live /\ UNCHANGED <<active, launching, exiting>>
    BY <1>14 DEF EndState, Flag, vars, tableVars
  <2>2. index' = index \/ index' = [index EXCEPT ![Last(visiting)] = 1]
    BY <1>14, Zenon DEF EndState
  <2>3. \/ UNCHANGED <<visited, shortened>>
        \/ visited' = {} /\ shortened' = {}
    BY <1>14 DEF EndState, Return
  <2> QED BY <1>1, <2>1, <2>2, <2>3 DEF FrameTypeOK
<1>15. CASE VisitChild
  <2>1. PICK c \in live :
          /\ Update(c)
          /\ index' = [index EXCEPT ![Last(visiting)] = @ + 1, ![c] = 0]
          /\ visited' = visited \cup {c}
          /\ UNCHANGED <<active, launching, exiting, shortened>>
    BY <1>15, Zenon DEF VisitChild
  <2>2. visiting # << >>
    BY <1>15 DEF VisitChild
  <2>3. index' \in [Handles -> Nat]
    BY <1>2, <1>3, <2>1, <2>2 DEF FrameTypeOK
  <2> QED BY <1>1, <1>12, <2>1, <2>3 DEF FrameTypeOK
<1>16. CASE LeaveObject
  <2>1. live' = live /\ UNCHANGED <<active, launching, exiting>>
    BY <1>16 DEF LeaveObject, vars, tableVars
  <2>2. index' = [index EXCEPT ![Last(visiting)] = 0]
    BY <1>16, Zenon DEF LeaveObject
  <2>3. \/ UNCHANGED <<visited, shortened>>
        \/ visited' = {} /\ shortened' = {}
    BY <1>16 DEF LeaveObject, Return
  <2> QED BY <1>1, <2>1, <2>2, <2>3 DEF FrameTypeOK
<1>17. CASE Destruction
  <2>1. /\ active' = active \cap live' /\ visited' = visited \cap live'
        /\ shortened' \subseteq live'
        /\ UNCHANGED <<index, launching, exiting>>
    BY <1>17 DEF Destruction
  <2> QED BY <1>1, <2>1 DEF FrameTypeOK
<1>18. CASE UNCHANGED frameVars
  BY <1>18 DEF frameVars, scanVars, vars, tableVars, FrameTypeOK
<1>19. CASE \E o \in Handles : SweepsGarbage(o)
  BY <1>1, <1>19 DEF SweepsGarbage, Sweep, tableVars, FrameTypeOK, scanVars
<1>20. CASE SweepsInUse
  BY <1>1, <1>20 DEF SweepsInUse, SweepOvertakes, tableVars, FrameTypeOK, scanVars
<1> QED
  BY <1>5, <1>6, <1>7, <1>8, <1>9, <1>10, <1>11, <1>13, <1>14, <1>15, <1>16,
     <1>17, <1>18, <1>19, <1>20
  DEF FrameNext

(* They hold before the launch.                                            *)
LEMMA FrameTypesInitially == FrameInit => FrameTypeOK
<1> SUFFICES ASSUME FrameInit PROVE FrameTypeOK
  OBVIOUS
<1>1. visiting \in Seq(Handles)
  BY FrameInitially DEF PathInv
<1> QED BY <1>1 DEF FrameInit, Init, TableInit, FrameTypeOK

(* They hold in every frame.                                               *)
THEOREM FrameTypesHold == FrameSpec => []FrameTypeOK
<1>1. TreeInv /\ PathInv /\ [FrameNext]_frameVars => TreeInv' /\ PathInv'
  BY FrameStepKeepsTree, PathStep
<1> QED BY <1>1, FrameInitially, FrameTypesInitially, FrameTypeStep, PTL DEF FrameSpec

-----------------------------------------------------------------------------

(* How far the traversal got with the children of an object on its path:   *)
(* those ahead of the index have not been visited, ...                     *)
Ahead(p) ==
  \A i \in 1 .. Len(child[p]) : i >= index[p] => child[p][i] \notin visited

(* ... and those behind it have, unless the list became shorter.           *)
Behind(p) ==
  p \in shortened \/
    /\ index[p] <= Len(child[p]) + 1
    /\ \A i \in 1 .. Len(child[p]) : i < index[p] => child[p][i] \in visited

OnStack(p) == \E k \in 1 .. Len(visiting) : visiting[k] = p

(* The account of the traversal: for every object that it is in the midst  *)
(* of, and from every object that was visited up to the root.              *)
ScanInv ==
  /\ visiting = << >> => visited \subseteq {RootHandle}
  /\ \A p \in Handles : OnStack(p) => p \in visited /\ Ahead(p) /\ Behind(p)
  /\ \A o \in visited : parent[o] = o \/ parent[o] \in visited

(* The inductive invariant of the frames.                                  *)
FrameInv == TreeInv /\ PathInv /\ FrameTypeOK /\ ScanInv

(* What the tree says of the children of an object that exists and that no *)
(* destruction is walking through.                                         *)
ChildrenOK(p) ==
  /\ Len(child[p]) \in Nat
  /\ \A i \in 1 .. Len(child[p]) :
       /\ child[p][i] \in live /\ child[p][i] # p /\ parent[child[p][i]] = p
       /\ \A j \in 1 .. Len(child[p]) : child[p][i] = child[p][j] => i = j

(* The children of an object are like this unless it is being destroyed.   *)
LEMMA ChildrenAtRest ==
  ASSUME TreeInv, NEW p \in live, p \notin ToSet(destroying)
  PROVE  ChildrenOK(p)
<1>1. /\ p \in Handles /\ cursor \in [Handles -> Nat]
      /\ child \in [Handles -> Seq(Handles)] /\ destroying \in Seq(Handles)
  BY DEF TreeInv, TypeOK, TableTypeOK
<1>2. \A i \in 1 .. Len(destroying) : destroying[i] # p
  <2>1. ToSet(destroying) = {destroying[i] : i \in 1 .. Len(destroying)}
    BY <1>1, ToSetByIndex
  <2> QED BY <2>1
<1>3. ~(cursor[p] > 0)
  BY <1>1, <1>2, Zenon DEF TreeInv, CallsOK
<1>4. cursor[p] = 0
  BY <1>1, <1>3
<1>5. Pending(p) = 1 .. Len(child[p])
  BY <1>4, AtRest
<1>6. LinksAgree
  BY DEF TreeInv
<1>7. Len(child[p]) \in Nat
  BY <1>1
<1> QED BY <1>5, <1>6, <1>7 DEF LinksAgree, ChildrenOK

(* The objects of the path are such objects.                               *)
LEMMA ChildrenOnPath ==
  ASSUME TreeInv, PathInv, NEW p, OnStack(p)
  PROVE  p \in live /\ p \in Handles /\ ChildrenOK(p)
<1>1. p \in live /\ p \notin ToSet(destroying)
  BY OnPath DEF OnStack
<1>2. p \in Handles
  BY <1>1 DEF TreeInv, TypeOK, TableTypeOK
<1> QED BY <1>1, <1>2, ChildrenAtRest

(* A step that does not touch the tree of objects, the traversal and its   *)
(* history.                                                                *)
LEMMA ScanStays ==
  ASSUME ScanInv, UNCHANGED <<visiting, index, visited, shortened, parent, child>>
  PROVE  ScanInv'
BY DEF ScanInv, Ahead, Behind, OnStack

(* A spawn adds a child that was not visited at the end of a list.         *)
LEMMA ScanSpawn ==
  ASSUME FrameInv, NEW p, SpawnObject(p), UNCHANGED <<visiting, index, visited, shortened>>
  PROVE  ScanInv'
<1> USE DEF FrameInv
<1>1. PICK h \in Handles : SpawnAt(p, h)
  BY DEF SpawnObject
<1>2. /\ h \notin live /\ p \in live
      /\ \/ UNCHANGED <<parent, child>>
         \/ /\ child' = [child EXCEPT ![p] = Append(@, h)]
            /\ parent' = [parent EXCEPT ![h] = p]
  BY <1>1 DEF SpawnAt, Allocate, NewHandle, SpawnObject
<1>3. CASE UNCHANGED <<parent, child>>
  BY <1>3, ScanStays
<1>4. CASE /\ child' = [child EXCEPT ![p] = Append(@, h)]
           /\ parent' = [parent EXCEPT ![h] = p]
  <2>1. /\ parent \in [Handles -> Handles] /\ child \in [Handles -> Seq(Handles)]
        /\ live \subseteq Handles
    BY DEF TreeInv, TypeOK, TableTypeOK
  <2>2. visited \subseteq live /\ h \notin visited /\ index \in [Handles -> Nat]
    BY <1>2 DEF FrameTypeOK
  <2>3. ASSUME NEW q \in Handles, OnStack(q)
        PROVE  q \in visited /\ Ahead(q)' /\ Behind(q)'
    <3>1. q \in visited /\ Ahead(q) /\ Behind(q) /\ index[q] \in Nat
      BY <2>2, <2>3 DEF ScanInv
    <3>2. CASE q # p
      <4>1. child'[q] = child[q]
        BY <1>4, <2>1, <3>2
      <4> QED BY <3>1, <4>1 DEF Ahead, Behind
    <3>3. CASE q = p
      <4>1. /\ child'[q] = Append(child[q], h) /\ child[q] \in Seq(Handles)
            /\ Len(child'[q]) = Len(child[q]) + 1 /\ Len(child[q]) \in Nat
            /\ child'[q][Len(child[q]) + 1] = h
            /\ \A i \in 1 .. Len(child[q]) : child'[q][i] = child[q][i]
        BY <1>4, <2>1, <3>1, <3>3
      <4>2. \A i \in 1 .. Len(child'[q]) : i \in 1 .. Len(child[q]) \/ i = Len(child[q]) + 1
        BY <4>1
      <4>3. Ahead(q)'
        BY <2>2, <3>1, <4>1, <4>2 DEF Ahead
      <4>4. Behind(q)'
        BY <2>2, <3>1, <4>1, <4>2 DEF Behind
      <4> QED BY <3>1, <4>3, <4>4
    <3> QED BY <3>2, <3>3
  <2>4. \A o \in visited : parent'[o] = parent[o]
    BY <1>4, <2>1, <2>2
  <2> QED BY <2>3, <2>4 DEF ScanInv, OnStack
<1> QED BY <1>2, <1>3, <1>4

(* The traversal visits the child c of p that its index points at.         *)
LEMMA ScanVisit ==
  ASSUME FrameInv, VisitChild,
         NEW p, p = Last(visiting), NEW c, c = child[p][index[p]]
  PROVE  c \notin visited /\ ScanInv'
<1> USE DEF FrameInv
<1>1. /\ visiting # << >> /\ destroying = << >>
      /\ index[p] \in 1 .. Len(child[p])
      /\ c \in live /\ Update(c)
      /\ index' = [index EXCEPT ![p] = @ + 1, ![c] = 0]
      /\ visited' = visited \cup {c}
      /\ UNCHANGED shortened
  BY Zenon DEF VisitChild
<1>2. /\ OnStack(p) /\ visiting \in Seq(Handles)
      /\ Len(visiting) \in Nat \ {0}
  <2>1. /\ visiting \in Seq(Handles) /\ Len(visiting) \in Nat \ {0}
        /\ Last(visiting) = visiting[Len(visiting)]
    BY <1>1, FrontAndLast DEF PathInv
  <2> QED BY <2>1 DEF OnStack
<1>3. p \in Handles /\ ChildrenOK(p)
  BY <1>2, ChildrenOnPath
<1>4. c # p /\ parent[c] = p
  BY <1>1, <1>3 DEF ChildrenOK
<1>5. Ahead(p) /\ Behind(p) /\ p \in visited
  BY <1>2, <1>3 DEF ScanInv
<1>6. c \notin visited
  BY <1>1, <1>5, <1>3 DEF Ahead, ChildrenOK
<1>7. /\ UNCHANGED <<child, parent>>
      /\ UNCHANGED visiting \/ visiting' = Append(visiting, c)
  BY <1>1 DEF Update, DeleteKilled, vars, treeVars
<1>8. index \in [Handles -> Nat] /\ c \in Handles
  BY <1>1 DEF FrameTypeOK, TreeInv, TypeOK, TableTypeOK
<1>9. ASSUME NEW q \in Handles, OnStack(q), q # p
      PROVE  Ahead(q)' /\ Behind(q)'
  <2>1. q \in visited /\ Ahead(q) /\ Behind(q) /\ ChildrenOK(q)
    BY <1>9, ChildrenOnPath DEF ScanInv
  <2>2. index'[q] = index[q] /\ \A i \in 1 .. Len(child[q]) : child[q][i] # c
    BY <1>1, <1>4, <1>6, <1>8, <1>9, <2>1 DEF ChildrenOK
  <2> QED BY <1>1, <1>7, <2>1, <2>2 DEF Ahead, Behind
<1>10. Ahead(p)' /\ Behind(p)'
  <2>1. index'[p] = index[p] + 1 /\ index[p] \in Nat
    BY <1>1, <1>3, <1>4, <1>8
  <2>2. \A i \in 1 .. Len(child[p]) : child[p][i] = c => i = index[p]
    BY <1>1, <1>3 DEF ChildrenOK
  <2>3. Len(child[p]) \in Nat
    BY <1>3 DEF ChildrenOK
  <2>4. Ahead(p)'
    BY <1>1, <1>5, <1>7, <2>1, <2>2, <2>3 DEF Ahead
  <2>5. Behind(p)'
    <3>1. ASSUME NEW i \in 1 .. Len(child[p]), i < index[p] + 1, p \notin shortened
          PROVE  child[p][i] \in visited'
      BY <1>1, <1>5, <2>1, <2>3, <3>1 DEF Behind
    <3>2. index[p] + 1 <= Len(child[p]) + 1
      BY <1>1, <2>1, <2>3
    <3> QED BY <1>1, <1>7, <2>1, <2>3, <3>1, <3>2 DEF Behind
  <2> QED BY <2>4, <2>5
<1>11. Ahead(c)' /\ Behind(c)'
  <2>1. ChildrenOK(c)
    BY <1>1, ChildrenAtRest DEF ToSet
  <2>2. \A i \in 1 .. Len(child[c]) : child[c][i] \notin visited'
    BY <1>1, <1>6, <2>1 DEF ScanInv, ChildrenOK
  <2>3. index'[c] = 0
    BY <1>1, <1>8
  <2> QED BY <1>7, <2>1, <2>2, <2>3 DEF Ahead, Behind, ChildrenOK
<1>12. \A o \in visited' : parent'[o] = o \/ parent'[o] \in visited'
  BY <1>1, <1>4, <1>5, <1>7 DEF ScanInv
<1>13. visiting' # << >> /\ \A q \in Handles : OnStack(q)' => OnStack(q) \/ q = c
  BY <1>1, <1>2, <1>7 DEF OnStack
<1>14. \A q \in Handles : OnStack(q) => q \in visited'
  BY <1>1 DEF ScanInv
<1> QED BY <1>1, <1>6, <1>9, <1>10, <1>11, <1>12, <1>13, <1>14 DEF ScanInv

(* The deletion of a child shifts the list under the traversal: an entry   *)
(* that was ahead stays ahead or slips behind, none goes the other way.    *)
LEMMA ScanDestruction ==
  ASSUME FrameInv, Destruction
  PROVE  ScanInv'
<1> USE DEF FrameInv
<1>1. /\ visited' = visited \cap live'
      /\ shortened' = {p \in live' : p \in shortened \/ Len(child'[p]) < Len(child[p])}
      /\ UNCHANGED <<visiting, index>>
      /\ DestructorReturns \/ DestroyChild \/ DestroyReturns
  BY DEF Destruction
<1>2. destroying # << >>
  BY <1>1 DEF DestructorReturns, DestroyChild, DestroyReturns
<1>3. PICK o \in Handles :
        /\ o = Last(destroying) /\ o \in live /\ o \in ToSet(destroying)
  <2>1. /\ Len(destroying) \in Nat \ {0} /\ Last(destroying) = destroying[Len(destroying)]
        /\ Last(destroying) \in Handles /\ destroying \in Seq(Handles)
    BY <1>2, OnTop DEF TreeInv, TypeOK
  <2>2. Last(destroying) \in live
    BY <2>1, Called
  <2>3. ToSet(destroying) = {destroying[i] : i \in 1 .. Len(destroying)}
    BY <2>1, ToSetByIndex
  <2> QED BY <2>1, <2>2, <2>3
<1>4. /\ parent \in [Handles -> Handles] /\ child \in [Handles -> Seq(Handles)]
      /\ cursor \in [Handles -> Nat]
      /\ live \subseteq Handles /\ visited \subseteq live
      /\ index \in [Handles -> Nat]
  BY DEF TreeInv, TypeOK, TableTypeOK, FrameTypeOK
<1>5. ASSUME NEW q \in Handles, OnStack(q)
      PROVE  /\ q # o /\ q \in live /\ q \in visited /\ Ahead(q) /\ Behind(q)
             /\ ChildrenOK(q)
  <2>1. q \notin ToSet(destroying)
    BY <1>5, OnPath DEF OnStack
  <2> QED BY <1>3, <1>5, <2>1, ChildrenOnPath DEF ScanInv
<1>6. ASSUME \A q \in Handles : OnStack(q) => q \in live' /\ Ahead(q)' /\ Behind(q)',
             \A x \in visited' : \/ parent'[x] = x
                                 \/ /\ parent'[x] = parent[x]
                                    /\ parent[x] # x => parent[x] \in live'
      PROVE  ScanInv'
  <2>1. \A q \in Handles : OnStack(q)' => q \in visited' /\ Ahead(q)' /\ Behind(q)'
    BY <1>1, <1>5, <1>6 DEF OnStack
  <2>2. \A x \in visited' : parent'[x] = x \/ parent'[x] \in visited'
    BY <1>1, <1>6 DEF ScanInv
  <2>3. visiting' = << >> => visited' \subseteq {RootHandle}
    BY <1>1 DEF ScanInv
  <2> QED BY <2>1, <2>2, <2>3 DEF ScanInv
<1>7. \A x \in visited : parent[x] # x => parent[x] \in live
  BY <1>4 DEF ScanInv
<1>8. CASE DestructorReturns
  <2>1. live' = live /\ visited' = visited
    BY <1>1, <1>4, <1>8 DEF DestructorReturns, tableVars
  <2>2. \/ UNCHANGED <<parent, child>>
        \/ /\ parent' = [parent EXCEPT ![o] = o]
           /\ \E i \in 1 .. Len(child[parent[o]]) :
                child' = [child EXCEPT ![parent[o]] = RemoveAt(@, i)]
    <3>1. UNCHANGED <<parent, child>> \/ RemoveChild(parent[o], o)
      BY <1>3, <1>8, Zenon DEF DestructorReturns
    <3>2. ASSUME NEW p, RemoveChild(p, o), ~ UNCHANGED <<parent, child>>
          PROVE  /\ parent' = [parent EXCEPT ![o] = o]
                 /\ \E i \in 1 .. Len(child[p]) : child' = [child EXCEPT ![p] = RemoveAt(@, i)]
      <4>1. \E i \in 1 .. Len(child[p]) : child[p][i] = o
        BY <3>2, Zenon DEF RemoveChild
      <4> DEFINE i == CHOOSE j \in 1 .. Len(child[p]) : child[p][j] = o
      <4>2. i \in 1 .. Len(child[p])
        BY <4>1
      <4>3. parent' = [parent EXCEPT ![o] = o] /\ child' = [child EXCEPT ![p] = RemoveAt(@, i)]
        BY <3>2, <4>1, Zenon DEF RemoveChild
      <4> HIDE DEF i
      <4> QED BY <4>2, <4>3
    <3> QED BY <3>1, <3>2
  <2>3. \A x \in Handles : parent'[x] = x \/ parent'[x] = parent[x]
    BY <1>4, <2>2
  <2>4. ASSUME NEW q \in Handles, OnStack(q)
        PROVE  q \in live' /\ Ahead(q)' /\ Behind(q)'
    <3>1. /\ q \in live' /\ Ahead(q) /\ Behind(q) /\ Len(child[q]) \in Nat
          /\ index'[q] = index[q] /\ index[q] \in Nat
      BY <1>1, <1>4, <1>5, <2>1, <2>4 DEF ChildrenOK
    <3>2. CASE child'[q] = child[q]
      <4>1. q \in shortened => q \in shortened'
        BY <1>1, <3>1
      <4> QED BY <2>1, <3>1, <3>2, <4>1 DEF Ahead, Behind
    <3>3. CASE child'[q] # child[q]
      <4>1. PICK i \in 1 .. Len(child[q]) : child'[q] = RemoveAt(child[q], i)
        BY <1>4, <2>2, <3>3
      <4>2. /\ Len(child'[q]) = Len(child[q]) - 1
            /\ \A j \in 1 .. Len(child[q]) - 1 :
                 child'[q][j] = IF j < i THEN child[q][j] ELSE child[q][j + 1]
        BY <1>4, <4>1, RemoveAtFacts
      <4>3. Behind(q)'
        BY <1>1, <3>1, <4>2 DEF Behind
      <4>4. Ahead(q)'
        <5> SUFFICES ASSUME NEW j \in 1 .. Len(child[q]) - 1, j >= index[q]
                     PROVE  child'[q][j] \notin visited
          BY <2>1, <3>1, <4>2 DEF Ahead
        <5>1. j \in 1 .. Len(child[q]) /\ j + 1 \in 1 .. Len(child[q]) /\ j + 1 >= index[q]
          BY <3>1
        <5>2. child[q][j] \notin visited /\ child[q][j + 1] \notin visited
          BY <3>1, <5>1 DEF Ahead
        <5> QED BY <4>2, <5>2
      <4> QED BY <3>1, <4>3, <4>4
    <3> QED BY <3>2, <3>3
  <2> QED BY <1>4, <1>6, <1>7, <2>1, <2>3, <2>4
<1>9. CASE DestroyChild
  <2>1. PICK c : parent' = [parent EXCEPT ![c] = c]
    BY <1>9, Zenon DEF DestroyChild
  <2>2. live' = live /\ visited' = visited /\ child' = child
    BY <1>1, <1>4, <1>9 DEF DestroyChild, tableVars
  <2>3. \A x \in Handles : parent'[x] = x \/ parent'[x] = parent[x]
    BY <1>4, <2>1
  <2>4. ASSUME NEW q \in Handles, OnStack(q)
        PROVE  q \in live' /\ Ahead(q)' /\ Behind(q)'
    <3>1. q \in shortened => q \in shortened'
      BY <1>1, <1>5, <2>2, <2>4
    <3> QED BY <1>1, <1>5, <2>2, <2>4, <3>1 DEF Ahead, Behind
  <2> QED BY <1>4, <1>6, <1>7, <2>2, <2>3, <2>4
<1>10. CASE DestroyReturns
  <2>1. /\ live' = live \ {o} /\ cursor[o] > Len(child[o])
        /\ child' = [child EXCEPT ![o] = << >>]
        /\ parent' = [parent EXCEPT ![o] = o]
    BY <1>3, <1>10, Zenon DEF DestroyReturns, Free
  <2>2. Pending(o) = {} /\ cursor[o] > 0
    <3>1. Len(child[o]) \in Nat /\ cursor[o] \in Nat
      BY <1>4
    <3> QED BY <2>1, <3>1 DEF Pending
  <2>3. parent[o] = o
    BY <2>2 DEF TreeInv, CallsOK
  <2>4. \A x \in live : parent[x] # x => parent[x] # o
    BY <2>2 DEF TreeInv, LinksAgree
  <2>5. ASSUME NEW q \in Handles, OnStack(q)
        PROVE  q \in live' /\ Ahead(q)' /\ Behind(q)'
    <3>1. /\ q # o /\ q \in live' /\ Ahead(q) /\ Behind(q) /\ ChildrenOK(q)
          /\ child'[q] = child[q] /\ index' = index
      BY <1>1, <1>4, <1>5, <2>1, <2>5
    <3>2. \A i \in 1 .. Len(child[q]) : child[q][i] # o /\ child[q][i] \in live'
      BY <2>1, <2>3, <3>1 DEF ChildrenOK
    <3>3. q \in shortened => q \in shortened'
      BY <1>1, <3>1
    <3> QED BY <1>1, <3>1, <3>2, <3>3 DEF Ahead, Behind
  <2>6. \A x \in visited' : /\ x # o /\ parent'[x] = parent[x]
                            /\ parent[x] # x => parent[x] \in live'
    BY <1>1, <1>4, <1>7, <2>1, <2>4
  <2> QED BY <1>6, <2>5, <2>6
<1> QED BY <1>1, <1>8, <1>9, <1>10

(* A frame begins at the root, with nothing behind it.                     *)
LEMMA ScanBegin ==
  ASSUME FrameInv, BeginFrame
  PROVE  ScanInv'
<1> USE DEF FrameInv
<1>1. /\ visiting = << >> /\ destroying = << >> /\ RootHandle \in live
      /\ Update(RootHandle)
      /\ index' = [index EXCEPT ![RootHandle] = 0]
      /\ visited' = {RootHandle}
  BY DEF BeginFrame
<1>2. UNCHANGED <<parent, child>> /\ (visiting' = << >> \/ visiting' = <<RootHandle>>)
  BY <1>1 DEF Update, DeleteKilled, vars, treeVars
<1>3. RootHandle \in Handles /\ index \in [Handles -> Nat]
  BY <1>1 DEF TreeInv, TypeOK, TableTypeOK, FrameTypeOK
<1>4. ChildrenOK(RootHandle)
  BY <1>1, ChildrenAtRest DEF ToSet
<1>5. Ahead(RootHandle)' /\ Behind(RootHandle)'
  BY <1>1, <1>2, <1>3, <1>4 DEF ChildrenOK, Ahead, Behind
<1>6. \A p \in Handles : OnStack(p)' => p = RootHandle
  BY <1>2 DEF OnStack
<1>7. parent'[RootHandle] = RootHandle
  BY <1>2 DEF PathInv
<1> QED BY <1>1, <1>5, <1>6, <1>7 DEF ScanInv

(* An activation of the traversal returns.                                 *)
LEMMA ScanReturn ==
  ASSUME FrameInv, visiting # << >>, Return, UNCHANGED <<parent, child>>,
         \A p \in Handles : p # Last(visiting) => index'[p] = index[p]
  PROVE  ScanInv'
<1> USE DEF FrameInv
<1>1. /\ Len(visiting) \in Nat \ {0} /\ Len(visiting') = Len(visiting) - 1
      /\ visiting \in Seq(Handles) /\ visiting' \in Seq(Handles)
      /\ Last(visiting) = visiting[Len(visiting)]
      /\ \A i \in 1 .. Len(visiting) - 1 : visiting'[i] = visiting[i]
  BY FrontAndLast DEF Return, PathInv
<1>2. CASE Len(visiting) = 1
  <2>1. visiting' = << >> /\ visited' = {}
    BY <1>1, <1>2 DEF Return
  <2> QED BY <2>1 DEF ScanInv, OnStack
<1>3. CASE Len(visiting) # 1
  <2>1. visiting' # << >> /\ UNCHANGED <<visited, shortened>>
    BY <1>1, <1>3 DEF Return
  <2>2. \A p \in Handles : OnStack(p)' => OnStack(p) /\ p # Last(visiting)
    BY <1>1 DEF OnStack, PathInv, Distinct
  <2>3. \A p \in Handles : OnStack(p)' => p \in visited' /\ Ahead(p)' /\ Behind(p)'
    BY <2>1, <2>2 DEF ScanInv, Ahead, Behind
  <2> QED BY <2>1, <2>3 DEF ScanInv
<1> QED BY <1>2, <1>3

(* The state of an object has been run.                                    *)
LEMMA ScanEndState ==
  ASSUME FrameInv, EndState
  PROVE  ScanInv'
<1> USE DEF FrameInv
<1>1. PICK o : o = Last(visiting)
  OBVIOUS
<1>2. visiting # << >> /\ index[o] = 0 /\ UNCHANGED <<parent, child>>
  BY <1>1 DEF EndState, Flag, vars, treeVars
<1>3. \/ index' = [index EXCEPT ![o] = 1] /\ UNCHANGED <<visiting, visited, shortened>>
      \/ Return /\ UNCHANGED index
  BY <1>1, Zenon DEF EndState
<1>4. CASE index' = [index EXCEPT ![o] = 1] /\ UNCHANGED <<visiting, visited, shortened>>
  <2>1. index \in [Handles -> Nat]
    BY DEF FrameTypeOK
  <2>2. ASSUME NEW p \in Handles, OnStack(p)
        PROVE  p \in visited /\ Ahead(p)' /\ Behind(p)'
    <3>1. p \in visited /\ Ahead(p) /\ Behind(p) /\ Len(child[p]) \in Nat
      BY <2>2, ChildrenOnPath DEF ScanInv, ChildrenOK
    <3>2. index'[p] = index[p] \/ (index[p] = 0 /\ index'[p] = 1)
      BY <1>2, <1>4, <2>1
    <3> QED BY <1>2, <1>4, <2>1, <3>1, <3>2 DEF Ahead, Behind
  <2> QED BY <1>2, <1>4, <2>2 DEF ScanInv, OnStack
<1> QED BY <1>2, <1>3, <1>4, ScanReturn

(* Every step of a frame keeps the account of the traversal.               *)
LEMMA ScanStep ==
  ASSUME FrameInv, [FrameNext]_frameVars
  PROVE  ScanInv'
<1> USE DEF FrameInv
<1>1. CASE Launch
  BY <1>1, ScanSpawn DEF Launch, scanVars
<1>2. CASE \E p \in Handles : ScriptSpawns(p)
  BY <1>2, ScanSpawn DEF ScriptSpawns, scanVars
<1>3. CASE \E o \in Handles : ScriptKills(o)
  BY <1>3, ScanStays DEF ScriptKills, Kill, Flag, scanVars
<1>4. CASE \E o \in Handles : SetActive(o)
  BY <1>4, ScanStays DEF SetActive, vars, treeVars, scanVars
<1>5. CASE ApplicationExit
  BY <1>5, ScanStays DEF ApplicationExit, Kill, Flag, vars, treeVars, scanVars
<1>6. CASE SystemExits
  BY <1>6, ScanStays DEF SystemExits, vars, treeVars, scanVars
<1>7. CASE HostActs
  <2>1. visiting = << >> /\ UNCHANGED <<visiting, index, visited, shortened>>
    BY <1>7 DEF HostActs, scanVars
  <2>2. CASE Terminate
    BY <2>1, <2>2, ScanStays DEF Terminate, Flag
  <2>3. CASE \E o, p \in Handles \ {RootHandle, Services} : Reparent(o, p)
    <3>1. \A x \in visited : parent'[x] = parent[x]
      <4>1. visited \subseteq {RootHandle}
        BY <2>1 DEF ScanInv
      <4>2. parent \in [Handles -> Handles] /\ visited \subseteq Handles
        BY DEF TreeInv, TypeOK, TableTypeOK, FrameTypeOK
      <4> QED BY <2>3, <4>1, <4>2 DEF Reparent
    <3> QED BY <2>1, <3>1 DEF ScanInv, OnStack
  <2> QED BY <1>7, <2>2, <2>3 DEF HostActs
<1>8. CASE BeginFrame
  BY <1>8, ScanBegin
<1>9. CASE EndState
  BY <1>9, ScanEndState
<1>10. CASE VisitChild
  BY <1>10, ScanVisit
<1>11. CASE LeaveObject
  <2>1. /\ visiting # << >> /\ Return /\ UNCHANGED <<parent, child>>
        /\ index' = [index EXCEPT ![Last(visiting)] = 0]
    BY <1>11, Zenon DEF LeaveObject, vars, treeVars
  <2>2. \A p \in Handles : p # Last(visiting) => index'[p] = index[p]
    BY <2>1 DEF FrameTypeOK
  <2> QED BY <2>1, <2>2, ScanReturn
<1>12. CASE Destruction
  BY <1>12, ScanDestruction
<1>13. CASE UNCHANGED frameVars
  BY <1>13, ScanStays DEF frameVars, scanVars, vars, treeVars
<1>14. CASE \E o \in Handles : SweepsGarbage(o)
  BY <1>14, ScanStays DEF SweepsGarbage, Sweep, scanVars
<1>15. CASE SweepsInUse
  BY <1>15, ScanStays DEF SweepsInUse, SweepOvertakes, treeVars, scanVars
<1> QED
  BY <1>1, <1>2, <1>3, <1>4, <1>5, <1>6, <1>7, <1>8, <1>9, <1>10, <1>11, <1>12, <1>13,
     <1>14, <1>15
  DEF FrameNext

(* The invariant holds before the launch ...                               *)
LEMMA FrameInvInitially == FrameInit => FrameInv
<1> SUFFICES ASSUME FrameInit PROVE FrameInv
  OBVIOUS
<1>1. ScanInv
  BY DEF FrameInit, ScanInv, OnStack
<1> QED BY <1>1, FrameInitially, FrameTypesInitially DEF FrameInv

(* ... and after every step of a frame.                                    *)
LEMMA FrameInvStep == FrameInv /\ [FrameNext]_frameVars => FrameInv'
<1> SUFFICES ASSUME FrameInv, [FrameNext]_frameVars PROVE FrameInv'
  OBVIOUS
<1>1. TreeInv' /\ PathInv'
  BY FrameStepKeepsTree, PathStep DEF FrameInv
<1>2. FrameTypeOK'
  BY <1>1, FrameTypeStep DEF FrameInv
<1> QED BY <1>1, <1>2, ScanStep DEF FrameInv

(* No object is visited twice in a frame, whatever the list that the       *)
(* traversal is walking through loses and gains meanwhile.                 *)
THEOREM NothingVisitedTwice == FrameSpec => VisitedOnce
<1>1. FrameInv /\ [FrameNext]_frameVars =>
        [VisitChild =>
           child[Last(visiting)][index[Last(visiting)]] \notin visited]_frameVars
  BY ScanVisit
<1> QED BY <1>1, FrameInvInitially, FrameInvStep, PTL DEF FrameSpec, VisitedOnce

(* Only where a child was deleted can others have been left out when the   *)
(* traversal is through with an object.                                    *)
THEOREM SkippedOnlyBehindDeletion == FrameSpec => SkippedBehindDeletion
<1>1. ASSUME FrameInv, FrameNext, NEW p \in live, Leaves(p)
      PROVE  p \in shortened \/ \A i \in 1 .. Len(child[p]) : child[p][i] \in visited
  <2>1. /\ visiting # << >> /\ p = Last(visiting) /\ index[p] > 0
        /\ Len(visiting') < Len(visiting)
    BY <1>1 DEF Leaves
  <2>2. /\ visiting \in Seq(Handles) /\ Len(visiting) \in Nat \ {0} /\ OnStack(p)
        /\ p \in Handles
    <3>1. /\ visiting \in Seq(Handles) /\ Len(visiting) \in Nat \ {0}
          /\ p = visiting[Len(visiting)] /\ p \in Handles
      BY <1>1, <2>1, FrontAndLast DEF FrameInv, PathInv
    <3> QED BY <3>1 DEF OnStack
  <2>3. Behind(p) /\ Len(child[p]) \in Nat /\ index[p] \in Nat
    BY <1>1, <2>2, ChildrenOnPath DEF FrameInv, ScanInv, ChildrenOK, FrameTypeOK
  <2>4. ~ UNCHANGED visiting
    BY <2>1, <2>2
  <2>5. index[p] > Len(child[p])
    <3>1. ~ BeginFrame
      BY <2>1 DEF BeginFrame
    <3>2. ~ EndState
      BY <2>1, <2>3 DEF EndState
    <3>3. ~ VisitChild
      <4>1. ASSUME NEW c PROVE visiting' # Append(visiting, c)
        BY <2>1, <2>2
      <4> QED BY <2>4, <4>1 DEF VisitChild, Update
    <3>4. LeaveObject
      BY <1>1, <2>4, <3>1, <3>2, <3>3
      DEF FrameNext, Launch, ScriptSpawns, ScriptKills, SweepsGarbage, SweepsInUse,
          SetActive, ApplicationExit, SystemExits, HostActs, Destruction, scanVars
    <3> QED BY <2>1, <3>4 DEF LeaveObject
  <2> QED BY <2>3, <2>5 DEF Behind
<1>2. FrameInv /\ [FrameNext]_frameVars =>
        [\A p \in live : Leaves(p) =>
           p \in shortened \/ \A i \in 1 .. Len(child[p]) : child[p][i] \in visited]_frameVars
  BY <1>1
<1> QED BY <1>2, FrameInvInitially, FrameInvStep, PTL DEF FrameSpec, SkippedBehindDeletion

-----------------------------------------------------------------------------

(* While System is launched it has the children that it spawned so far,    *)
(* and nothing else happens.                                               *)
LaunchInv ==
  launching =>
    /\ visiting = << >> /\ destroying = << >> /\ killed = {} /\ ~exiting
    /\ \/ live = {RootHandle} /\ nextHandle = RootHandle /\ child[RootHandle] = << >>
       \/ /\ live = {RootHandle, Services} /\ nextHandle = Services
          /\ Len(child[RootHandle]) = 1 /\ child[RootHandle][1] = Services
          /\ parent[Services] = RootHandle

(* A frame begins with the state of System, which is active then, before   *)
(* anything else is visited or deleted.                                    *)
BeginsActive ==
  visiting # << >> /\ index[RootHandle] = 0 =>
    Len(visiting) = 1 /\ destroying = << >> /\ RootHandle \in active

(* As long as there is an application the system objects stay where they   *)
(* are, and the application is the last child of System until its own      *)
(* destruction has unlinked it.                                            *)
SystemStands ==
  /\ RootHandle \in live \ ToSet(destroying)
  /\ Services \in live \ (ToSet(destroying) \cup killed)
  /\ parent[Services] = RootHandle /\ child[Services] = << >>
  /\ child[RootHandle] # << >> /\ child[RootHandle][1] = Services
  /\ \/ /\ Len(child[RootHandle]) = 2 /\ child[RootHandle][2] = App
        /\ parent[App] = RootHandle
     \/ Len(child[RootHandle]) = 1 /\ parent[App] = App /\ App \in ToSet(destroying)
  /\ App \in ToSet(destroying) => destroying[1] = App

(* The state of System killed it in this frame: the traversal is still in  *)
(* front of the application, where the collector can be sweeping, or is    *)
(* deleting it.                                                            *)
RootLeaves ==
  /\ visiting # << >> /\ Last(visiting) \in {RootHandle, Services}
  /\ \/ index[RootHandle] \in {1, 2} /\ (destroying = << >> \/ Last(visiting) = Services)
     \/ destroying # << >> /\ destroying[1] = App

(* System follows an application that was killed.                          *)
ExitOrder ==
  /\ exiting => App \in killed
  /\ RootHandle \in killed => exiting /\ RootLeaves

(* The inductive invariant of an exit.                                     *)
ExitInv ==
  /\ LaunchInv /\ BeginsActive
  /\ ~launching => IF App \in live THEN SystemStands /\ ExitOrder
                                   ELSE live \subseteq {RootHandle, Services}

(* Between two destructions, System has no other children than these.      *)
SystemAtRest ==
  /\ destroying = << >> /\ child[Services] = << >>
  /\ \A i \in 1 .. Len(child[RootHandle]) : child[RootHandle][i] \in {Services, App}

(* Every object but the system objects descends from the application then. *)
LEMMA OnlyUnderApplication ==
  ASSUME TreeInv, SingleTree, SystemAtRest,
         NEW S, S \subseteq live \ {RootHandle, Services, App},
         \A x \in S : parent[x] \in S \cup {RootHandle, Services}
  PROVE  S = {}
<1>1. ASSUME NEW x \in S, parent[x] \notin S PROVE FALSE
  <2>1. x \in live /\ parent[x] # x /\ LinksAgree
    BY <1>1 DEF TreeInv
  <2>2. PICK i \in Pending(parent[x]) : child[parent[x]][i] = x
    BY <2>1 DEF LinksAgree
  <2>3. i \in 1 .. Len(child[parent[x]])
    BY DEF Pending
  <2>4. CASE parent[x] = RootHandle
    BY <2>2, <2>3, <2>4 DEF SystemAtRest
  <2>5. CASE parent[x] = Services
    BY <2>3, <2>5 DEF SystemAtRest
  <2> QED BY <1>1, <2>4, <2>5
<1>2. CASE S # {}
  <2>1. \E x \in S : x = RootHandle \/ x \in ToSet(destroying)
    BY <1>1, <1>2 DEF SingleTree
  <2>2. ToSet(destroying) = {}
    BY DEF ToSet, SystemAtRest
  <2> QED BY <2>1, <2>2
<1> QED BY <1>2

(* ... and nothing is left without it.                                     *)
LEMMA NothingWithoutApplication ==
  TreeInv /\ SingleTree /\ SystemAtRest /\ App \notin live =>
    live \subseteq {RootHandle, Services}
<1> SUFFICES ASSUME TreeInv, SingleTree, SystemAtRest, App \notin live
             PROVE  live \subseteq {RootHandle, Services}
  OBVIOUS
<1> DEFINE S == live \ {RootHandle, Services}
<1>1. S \subseteq live \ {RootHandle, Services, App}
  OBVIOUS
<1>2. \A x \in S : parent[x] \in S \cup {RootHandle, Services}
  <2>1. \A x \in live : parent[x] \in live
    BY DEF TreeInv, LinksAgree
  <2> QED BY <2>1
<1> HIDE DEF S
<1>3. S = {}
  BY <1>1, <1>2, OnlyUnderApplication
<1> QED BY <1>3 DEF S

(* When the last object but those is gone nothing can be spawned.          *)
LEMMA NothingLeft ==
  ASSUME FrameInv, ~launching, live \subseteq {RootHandle, Services}, [FrameNext]_frameVars
  PROVE  live' \subseteq {RootHandle, Services} /\ ~launching'
<1>1. CASE Launch
  BY <1>1 DEF Launch
<1>2. CASE \E p \in Handles : ScriptSpawns(p)
  BY <1>2 DEF ScriptSpawns, SpawnObject
<1>3. CASE Destruction
  BY <1>3 DEF Destruction, DestructorReturns, DestroyChild, DestroyReturns, Free, tableVars
<1>4. CASE \/ (\E o \in Handles : ScriptKills(o)) \/ (\E o \in Handles : SetActive(o))
           \/ ApplicationExit \/ SystemExits
  BY <1>4 DEF ScriptKills, SetActive, ApplicationExit, SystemExits, Kill, Flag, vars, tableVars
<1>5. CASE HostActs
  BY <1>5 DEF HostActs, Terminate, Flag, Reparent, tableVars
<1>6. CASE BeginFrame \/ EndState \/ VisitChild \/ LeaveObject
  BY <1>6
  DEF BeginFrame, EndState, VisitChild, LeaveObject, Update, DeleteKilled, Flag, vars, tableVars
<1>7. CASE UNCHANGED frameVars
  BY <1>7 DEF frameVars, vars, tableVars
<1>8. CASE SweepsInUse \/ \E o \in Handles : SweepsGarbage(o)
  BY <1>8 DEF SweepsInUse, SweepOvertakes, SweepsGarbage, Sweep, tableVars
<1> QED BY <1>1, <1>2, <1>3, <1>4, <1>5, <1>6, <1>7, <1>8 DEF FrameNext

-----------------------------------------------------------------------------

(* The system objects are handles of the table, and different ones.        *)
LEMMA SystemHandles ==
  /\ RootHandle \in Handles /\ Services \in Handles /\ App \in Handles
  /\ RootHandle # Services /\ RootHandle # App /\ Services # App
BY TableAssumption, FrameAssumption DEF RootHandle, Services, App, Handles

(* What the system objects are like depends on their links and on what is  *)
(* being destroyed.                                                        *)
LEMMA StandsStill ==
  ASSUME SystemStands, {RootHandle, Services} \subseteq live',
         \A h \in {RootHandle, Services, App} : parent'[h] = parent[h],
         \A h \in {RootHandle, Services} : child'[h] = child[h],
         Services \notin killed', UNCHANGED destroying
  PROVE  SystemStands'
BY DEF SystemStands

(* A spawn under another object leaves them alone, ...                     *)
LEMMA StandsSpawn ==
  ASSUME TreeInv, SystemStands, App \in live,
         NEW p, p \notin {RootHandle, Services}, SpawnObject(p)
  PROVE  SystemStands'
<1>1. PICK h \in Handles : SpawnAt(p, h)
  BY DEF SpawnObject
<1>2. /\ h \notin live /\ live' = live \cup {h} /\ UNCHANGED <<killed, destroying>>
      /\ \/ UNCHANGED <<parent, child>>
         \/ /\ child' = [child EXCEPT ![p] = Append(@, h)]
            /\ parent' = [parent EXCEPT ![h] = p]
  BY <1>1, Zenon DEF SpawnAt, Allocate, NewHandle
<1>3. h \notin {RootHandle, Services, App}
  BY <1>2 DEF SystemStands
<1>4. parent \in [Handles -> Handles] /\ child \in [Handles -> Seq(Handles)]
  BY DEF TreeInv, TypeOK
<1>5. /\ \A g \in {RootHandle, Services, App} : parent'[g] = parent[g]
      /\ \A g \in {RootHandle, Services} : child'[g] = child[g]
  BY <1>2, <1>3, <1>4, SystemHandles
<1> QED BY <1>2, <1>5, StandsStill DEF SystemStands

(* ... and so does a move by the host, for it would have to put the        *)
(* application below itself.                                               *)
LEMMA StandsReparent ==
  ASSUME TreeInv, SingleTree, SystemStands, App \in live,
         NEW o \in Handles \ {RootHandle, Services},
         NEW p \in Handles \ {RootHandle, Services}, Reparent(o, p)
  PROVE  SystemStands'
<1>1. /\ destroying = << >> /\ o \in live /\ p \in live /\ p \in Outside(o)
      /\ parent[o] # o
      /\ \E i : child' = [child EXCEPT ![parent[o]] = RemoveAt(@, i), ![p] = Append(@, o)]
      /\ parent' = [parent EXCEPT ![o] = p]
      /\ UNCHANGED <<live, killed, destroying>>
  BY Zenon DEF Reparent, tableVars
<1>2. /\ Len(child[RootHandle]) = 2 /\ child[RootHandle][1] = Services
      /\ child[RootHandle][2] = App
      /\ child[Services] = << >>
  BY <1>1 DEF SystemStands, ToSet
<1>3. o # App
  <2> SUFFICES ASSUME o = App PROVE FALSE
    OBVIOUS
  <2>1. PICK S \in SUBSET (live \ {App}) : p \in S /\ \A x \in S : parent[x] \in S
    BY <1>1 DEF Outside
  <2> DEFINE T == S \ {RootHandle, Services}
  <2>2. T \subseteq live \ {RootHandle, Services, App}
    BY <2>1
  <2>3. \A x \in T : parent[x] \in T \cup {RootHandle, Services}
    BY <2>1
  <2>4. SystemAtRest
    BY <1>1, <1>2 DEF SystemAtRest
  <2> HIDE DEF T
  <2>5. T = {}
    BY <2>2, <2>3, <2>4, OnlyUnderApplication
  <2> QED BY <2>1, <2>5 DEF T
<1>4. parent[o] \notin {RootHandle, Services}
  <2>1. \E i \in 1 .. Len(child[parent[o]]) : child[parent[o]][i] = o
    <3>1. PICK i \in Pending(parent[o]) : child[parent[o]][i] = o
      BY <1>1 DEF TreeInv, LinksAgree
    <3> QED BY <3>1 DEF Pending
  <2> QED BY <1>2, <1>3, <2>1
<1>5. parent \in [Handles -> Handles] /\ child \in [Handles -> Seq(Handles)]
  BY DEF TreeInv, TypeOK
<1>6. \A g \in {RootHandle, Services, App} : parent'[g] = parent[g]
  BY <1>1, <1>3, <1>5, SystemHandles
<1>7. \A g \in {RootHandle, Services} : child'[g] = child[g]
  BY <1>1, <1>4, <1>5, SystemHandles
<1> QED BY <1>1, <1>6, <1>7, StandsStill DEF SystemStands

(* Only the application can be deleted at the top of a destruction, if     *)
(* System is not.                                                          *)
LEMMA StandsDelete ==
  ASSUME SystemStands, NEW o, o # RootHandle, DeleteKilled(o)
  PROVE  SystemStands'
<1>1. /\ destroying = << >> /\ o \in killed /\ destroying' = <<o>>
      /\ UNCHANGED <<live, parent, child, killed>>
  BY DEF DeleteKilled, tableVars, treeVars
<1>2. ToSet(destroying') = {o} /\ ToSet(destroying) = {} /\ destroying'[1] = o
  BY <1>1 DEF ToSet
<1> QED BY <1>1, <1>2 DEF SystemStands

(* A sweep that is not asked for by a destructor deletes none of the       *)
(* three.                                                                  *)
LEMMA StandsSweep ==
  ASSUME TreeInv, SystemStands, destroying = << >>, NEW o, SweepsGarbage(o)
  PROVE  SystemStands' /\ destroying' = <<o>>
<1>1. /\ o \notin {RootHandle, Services, App} /\ killed' = killed \cup {o}
      /\ destroying' = <<o>> /\ UNCHANGED <<live, parent, child>>
  BY SweepFacts DEF tableVars
<1>2. ToSet(destroying') = {o} /\ ToSet(destroying) = {} /\ destroying'[1] = o
  BY <1>1 DEF ToSet
<1> QED BY <1>1, <1>2 DEF SystemStands

(* The object whose destruction is running is neither System nor one of    *)
(* the services.                                                           *)
LEMMA OthersDestroyed ==
  ASSUME TreeInv, SystemStands, destroying # << >>
  PROVE  /\ Len(destroying) \in Nat \ {0}
         /\ Last(destroying) = destroying[Len(destroying)]
         /\ Last(destroying) \in ToSet(destroying)
         /\ Last(destroying) \in live /\ Last(destroying) \in Handles
         /\ Last(destroying) \notin {RootHandle, Services}
<1>1. /\ Len(destroying) \in Nat \ {0} /\ Last(destroying) = destroying[Len(destroying)]
      /\ Last(destroying) \in Handles /\ destroying \in Seq(Handles)
  BY OnTop DEF TreeInv, TypeOK
<1>2. Last(destroying) \in live
  BY <1>1, Called
<1>3. Last(destroying) \in ToSet(destroying)
  BY <1>1, ToSetByIndex
<1> QED BY <1>1, <1>2, <1>3 DEF SystemStands

(* An unlinking takes nothing but the application from the list of System. *)
LEMMA StandsUnlink ==
  ASSUME TreeInv, SystemStands, App \in live, DestructorReturns
  PROVE  SystemStands'
<1> DEFINE o == Last(destroying)
<1>0. /\ destroying # << >> /\ cursor[o] = 0
      /\ IF parent[o] # o THEN RemoveChild(parent[o], o) ELSE UNCHANGED <<parent, child, depth>>
      /\ UNCHANGED <<live, killed, destroying>>
  BY Zenon DEF DestructorReturns, tableVars
<1>1. /\ o \in ToSet(destroying) /\ o \in live /\ o \in Handles
      /\ o \notin {RootHandle, Services}
  BY <1>0, OthersDestroyed
<1>2. parent \in [Handles -> Handles] /\ child \in [Handles -> Seq(Handles)]
  BY DEF TreeInv, TypeOK
<1> HIDE DEF o
<1>3. CASE UNCHANGED <<parent, child>>
  BY <1>0, <1>3, StandsStill DEF SystemStands
<1>4. CASE parent[o] # o /\ ~ UNCHANGED <<parent, child>>
  <2> DEFINE q == parent[o]
  <2>1. RemoveChild(q, o)
    BY <1>0, <1>4
  <2>2. PICK i \in 1 .. Len(child[q]) :
          /\ child[q][i] = o
          /\ child' = [child EXCEPT ![q] = RemoveAt(@, i)]
          /\ parent' = [parent EXCEPT ![o] = o]
    <3>1. \E i \in 1 .. Len(child[q]) : child[q][i] = o
      BY <1>4, <2>1, Zenon DEF RemoveChild
    <3> DEFINE j == CHOOSE k \in 1 .. Len(child[q]) : child[q][k] = o
    <3>2. /\ child' = [child EXCEPT ![q] = RemoveAt(@, j)]
          /\ parent' = [parent EXCEPT ![o] = o]
      BY <2>1, <3>1, Zenon DEF RemoveChild
    <3>3. j \in 1 .. Len(child[q]) /\ child[q][j] = o
      BY <3>1
    <3> QED BY <3>2, <3>3
  <2>3. q # Services
    BY <2>2 DEF SystemStands
  <2>4. CASE q = RootHandle
    <3>1. o = App /\ i = 2 /\ Len(child[RootHandle]) = 2
      BY <2>2, <2>4, <1>1 DEF SystemStands
    <3>2. /\ Len(RemoveAt(child[RootHandle], 2)) = 1
          /\ RemoveAt(child[RootHandle], 2)[1] = child[RootHandle][1]
      <4>1. child[RootHandle] \in Seq(Handles) /\ 2 \in 1 .. Len(child[RootHandle])
        BY <1>2, <3>1, SystemHandles
      <4> DEFINE s == child[RootHandle]
      <4> HIDE DEF s
      <4>2. /\ Len(RemoveAt(s, 2)) = Len(s) - 1
            /\ \A j \in 1 .. Len(s) - 1 : RemoveAt(s, 2)[j] = IF j < 2 THEN s[j] ELSE s[j + 1]
        BY <4>1, RemoveAtFacts DEF s
      <4>3. Len(s) = 2
        BY <3>1 DEF s
      <4>4. Len(RemoveAt(s, 2)) = 1 /\ RemoveAt(s, 2)[1] = s[1]
        BY <4>2, <4>3
      <4> QED BY <4>4 DEF s
    <3>3. /\ child'[RootHandle] = RemoveAt(child[RootHandle], 2)
          /\ child'[Services] = child[Services]
          /\ parent'[App] = App /\ parent'[Services] = parent[Services]
      BY <1>2, <2>2, <2>4, <3>1, SystemHandles
    <3>4. child'[RootHandle] # << >>
      BY <3>2, <3>3
    <3> QED BY <1>0, <1>1, <3>1, <3>2, <3>3, <3>4 DEF SystemStands
  <2>5. CASE q # RootHandle
    <3>1. o # App
      <4>1. parent[App] \in {RootHandle, App}
        BY DEF SystemStands
      <4> QED BY <1>4, <2>5, <4>1
    <3>2. \A g \in {RootHandle, Services, App} : parent'[g] = parent[g]
      BY <1>1, <1>2, <2>2, <3>1, SystemHandles
    <3>3. \A g \in {RootHandle, Services} : child'[g] = child[g]
      BY <1>2, <2>2, <2>3, <2>5, SystemHandles
    <3> QED BY <1>0, <3>2, <3>3, StandsStill DEF SystemStands
  <2> QED BY <2>4, <2>5
<1> QED BY <1>0, <1>3, <1>4

(* The loop of a destruction comes to none of the three.                   *)
LEMMA StandsChild ==
  ASSUME TreeInv, PathInv, SystemStands, App \in live, DestroyChild
  PROVE  SystemStands' /\ destroying'[1] = destroying[1] /\ destroying' # << >>
<1> DEFINE o == Last(destroying)
           c == child[o][cursor[o]]
<1>0. /\ destroying # << >> /\ cursor[o] \in 1 .. Len(child[o]) /\ c \in live
      /\ parent' = [parent EXCEPT ![c] = c]
      /\ destroying' = Append(destroying, c)
      /\ UNCHANGED <<live, child, killed>>
  BY Zenon DEF DestroyChild, tableVars
<1>1. /\ o \in ToSet(destroying) /\ o \in live /\ o \in Handles
      /\ o \notin {RootHandle, Services} /\ Len(destroying) \in Nat \ {0}
  BY <1>0, OthersDestroyed
<1>2. c # o /\ parent[c] = o
  <2>1. cursor[o] \in Pending(o)
    BY <1>0 DEF Pending
  <2> QED BY <1>1, <2>1, Zenon DEF TreeInv, LinksAgree
<1>3. parent \in [Handles -> Handles] /\ destroying \in Seq(Handles) /\ live \subseteq Handles
  BY DEF TreeInv, TypeOK, TableTypeOK
<1> HIDE DEF o, c
<1>4. c \notin {RootHandle, Services, App} /\ c \in Handles
  BY <1>0, <1>1, <1>2, <1>3 DEF SystemStands, PathInv
<1>5. ToSet(destroying') = ToSet(destroying) \cup {c}
  BY <1>0, <1>3, <1>4, ToSetAppend
<1>6. destroying'[1] = destroying[1] /\ destroying' # << >>
  BY <1>0, <1>1, <1>3, <1>4
<1>7. \A g \in {RootHandle, Services, App} : parent'[g] = parent[g]
  BY <1>0, <1>3, <1>4, SystemHandles
<1> QED BY <1>0, <1>4, <1>5, <1>6, <1>7 DEF SystemStands

(* What returns from its destruction is none of the three, or it is the    *)
(* application and with it everything but the system objects is gone.      *)
LEMMA StandsReturn ==
  ASSUME TreeInv, TreeInv', SingleTree', SystemStands, App \in live, DestroyReturns
  PROVE  IF App \in live'
           THEN SystemStands' /\ (destroying' # << >> => destroying'[1] = destroying[1])
           ELSE live' \subseteq {RootHandle, Services}
<1> DEFINE o == Last(destroying)
<1>0. /\ destroying # << >> /\ cursor[o] > Len(child[o])
      /\ live' = live \ {o}
      /\ child' = [child EXCEPT ![o] = << >>]
      /\ parent' = [parent EXCEPT ![o] = o]
      /\ killed' = killed \ {o}
      /\ destroying' = Front(destroying)
  BY Zenon DEF DestroyReturns, Free
<1>1. /\ o \in ToSet(destroying) /\ o \in live /\ o \in Handles
      /\ o \notin {RootHandle, Services}
      /\ Len(destroying) \in Nat \ {0} /\ o = destroying[Len(destroying)]
  BY <1>0, OthersDestroyed
<1>2. /\ parent \in [Handles -> Handles] /\ child \in [Handles -> Seq(Handles)]
      /\ destroying \in Seq(Handles) /\ live \subseteq Handles
  BY DEF TreeInv, TypeOK, TableTypeOK
<1>3. /\ destroying' \in Seq(Handles) /\ Len(destroying') = Len(destroying) - 1
      /\ \A i \in 1 .. Len(destroying) - 1 : destroying'[i] = destroying[i]
  BY <1>0, <1>2, OnTop DEF TreeInv
<1> HIDE DEF o
<1>4. \A g \in {RootHandle, Services} : child'[g] = child[g] /\ parent'[g] = parent[g]
  BY <1>0, <1>1, <1>2, SystemHandles
<1>5. CASE o = App
  <2>1. destroying[1] = App
    BY <1>1, <1>5 DEF SystemStands
  <2>2. Len(destroying) = 1
    <3>1. 1 \in 1 .. Len(destroying) /\ Len(destroying) \in 1 .. Len(destroying)
      BY <1>1
    <3>2. destroying[1] = destroying[Len(destroying)]
      BY <1>1, <1>5, <2>1
    <3>3. \A i, j \in 1 .. Len(destroying) : destroying[i] = destroying[j] => i = j
      BY Called
    <3> QED BY <3>1, <3>2, <3>3
  <2>3. destroying' = << >>
    BY <1>3, <2>2
  <2>4. SystemAtRest'
    BY <1>4, <2>3 DEF SystemAtRest, SystemStands
  <2>5. App \notin live'
    BY <1>0, <1>5
  <2>6. (TreeInv /\ SingleTree /\ SystemAtRest /\ App \notin live =>
           live \subseteq {RootHandle, Services})'
    BY NothingWithoutApplication, PTL
  <2> QED BY <2>4, <2>5, <2>6
<1>6. CASE o # App
  <2>1. Len(destroying) > 1 => destroying'[1] = destroying[1]
    BY <1>1, <1>3
  <2>2. destroying' # << >> => Len(destroying) > 1
    BY <1>1, <1>3
  <2>3. ToSet(destroying') \subseteq ToSet(destroying)
    <3>1. /\ ToSet(destroying') = {destroying'[i] : i \in 1 .. Len(destroying')}
          /\ ToSet(destroying) = {destroying[i] : i \in 1 .. Len(destroying)}
      BY <1>2, <1>3, ToSetByIndex
    <3> QED BY <1>1, <1>3, <3>1
  <2>4. App \in ToSet(destroying) => App \in ToSet(destroying') /\ destroying' # << >>
    <3> SUFFICES ASSUME App \in ToSet(destroying)
                 PROVE  App \in ToSet(destroying') /\ destroying' # << >>
      OBVIOUS
    <3>1. destroying[1] = App
      BY DEF SystemStands
    <3>2. Len(destroying) > 1
      BY <1>1, <1>6, <3>1
    <3>3. destroying'[1] = App /\ 1 \in 1 .. Len(destroying')
      BY <1>1, <1>3, <2>1, <3>1, <3>2
    <3>4. ToSet(destroying') = {destroying'[i] : i \in 1 .. Len(destroying')}
      BY <1>3, ToSetByIndex
    <3> QED BY <3>3, <3>4
  <2>5. parent'[App] = parent[App]
    BY <1>0, <1>2, <1>6, SystemHandles
  <2>6. App \in live'
    BY <1>0, <1>6
  <2> QED BY <1>0, <1>1, <1>4, <2>1, <2>2, <2>3, <2>4, <2>5, <2>6 DEF SystemStands
<1> QED BY <1>5, <1>6

-----------------------------------------------------------------------------

(* The traversal is at System or at the object below it, and which of the  *)
(* two is on top tells how far down it is.                                 *)
LEMMA TopOfPath ==
  ASSUME PathInv, visiting # << >>
  PROVE  /\ Len(visiting) \in Nat \ {0} /\ visiting[1] = RootHandle
         /\ Last(visiting) = visiting[Len(visiting)] /\ Last(visiting) \in live
         /\ Last(visiting) = RootHandle <=> Len(visiting) = 1
<1>1. Len(visiting) \in Nat \ {0} /\ Last(visiting) = visiting[Len(visiting)]
  BY FrontAndLast DEF PathInv
<1>2. visiting[1] = RootHandle /\ Last(visiting) \in live
  BY <1>1, OnPath
<1>3. visiting[Len(visiting)] = visiting[1] => Len(visiting) = 1
  <2>1. 1 \in 1 .. Len(visiting) /\ Len(visiting) \in 1 .. Len(visiting)
    BY <1>1
  <2> QED BY <2>1 DEF PathInv, Distinct
<1> QED BY <1>1, <1>2, <1>3

(* Whatever runs the code of a script leaves the traversal where it is.    *)
ScriptActs ==
  \/ \E p \in Handles : ScriptSpawns(p)
  \/ \E o \in Handles : ScriptKills(o)
  \/ \E o \in Handles : SetActive(o)
  \/ ApplicationExit
  \/ SystemExits

LEMMA ScriptActsInCode ==
  ScriptActs => ScriptCode /\ UNCHANGED <<visiting, index, destroying, launching>>
BY DEF ScriptActs, ScriptSpawns, ScriptKills, SetActive, ApplicationExit, SystemExits,
       SpawnObject, SpawnAt, Kill, Flag, vars, scanVars

(* While the state of System runs, at the beginning of a frame, no script  *)
(* does.                                                                   *)
LEMMA BeginsActiveStep ==
  ASSUME FrameInv, LaunchInv, BeginsActive, ~DestructorsSpawn, [FrameNext]_frameVars
  PROVE  BeginsActive'
<1> USE DEF FrameInv
<1>0. /\ index \in [Handles -> Nat] /\ visiting \in Seq(Handles)
      /\ RootHandle \in Handles
  BY SystemHandles DEF FrameTypeOK
<1>1. ASSUME UNCHANGED <<visiting, index, destroying, active>> PROVE BeginsActive'
  BY <1>1 DEF BeginsActive
<1>2. CASE Launch
  BY <1>2 DEF Launch, LaunchInv, BeginsActive, scanVars
<1>3. CASE ScriptActs
  <2>1. ScriptCode /\ UNCHANGED <<visiting, index, destroying>>
    BY <1>3, ScriptActsInCode
  <2>2. destroying = << >>
    BY <2>1 DEF ScriptCode, ScriptRuns
  <2>3. visiting # << >> => Last(visiting) # RootHandle
    BY <2>1, <2>2 DEF ScriptCode
  <2> QED BY <2>1, <2>3, TopOfPath DEF BeginsActive
<1>4. CASE HostActs
  BY <1>4 DEF HostActs, scanVars, BeginsActive
<1>5. CASE BeginFrame
  <2>1. visiting = << >> /\ destroying = << >> /\ Update(RootHandle) /\ UNCHANGED active
    BY <1>5 DEF BeginFrame
  <2>2. \/ UNCHANGED visiting
        \/ /\ visiting' = Append(visiting, RootHandle) /\ UNCHANGED destroying
           /\ RootHandle \in active
    BY <2>1 DEF Update, vars
  <2> QED BY <2>1, <2>2 DEF BeginsActive
<1>6. CASE EndState
  <2> DEFINE o == Last(visiting)
  <2>1. /\ visiting # << >> /\ destroying = << >> /\ index[o] = 0
        /\ UNCHANGED <<active, destroying>>
        /\ IF o \in active THEN index' = [index EXCEPT ![o] = 1] /\ UNCHANGED visiting
                           ELSE visiting' = Front(visiting) /\ UNCHANGED index
    BY <1>6, Zenon DEF EndState, Return, Flag, vars
  <2>2. /\ Len(visiting) \in Nat \ {0} /\ o = visiting[Len(visiting)]
        /\ o = RootHandle <=> Len(visiting) = 1
        /\ Len(Front(visiting)) = Len(visiting) - 1
    BY <1>0, <2>1, TopOfPath, FrontAndLast
  <2> HIDE DEF o
  <2>3. CASE o = RootHandle
    <3>1. o \in active
      BY <2>1, <2>3 DEF BeginsActive
    <3> QED BY <1>0, <2>1, <2>3, <3>1 DEF BeginsActive
  <2>4. CASE o # RootHandle
    <3>1. index[RootHandle] # 0
      BY <2>1, <2>2, <2>4 DEF BeginsActive
    <3>2. index'[RootHandle] = index[RootHandle]
      BY <1>0, <2>1, <2>4
    <3> QED BY <3>1, <3>2 DEF BeginsActive
  <2> QED BY <2>3, <2>4
<1>7. CASE VisitChild
  <2> DEFINE p == Last(visiting)
             c == child[p][index[p]]
  <2>1. /\ visiting # << >> /\ destroying = << >> /\ index[p] \in 1 .. Len(child[p])
        /\ index' = [index EXCEPT ![p] = @ + 1, ![c] = 0]
    BY <1>7, Zenon DEF VisitChild
  <2>2. p \in live /\ p \in Handles /\ OnStack(p)
    <3>1. p \in live /\ p = visiting[Len(visiting)] /\ Len(visiting) \in 1 .. Len(visiting)
      BY <2>1, TopOfPath
    <3>2. live \subseteq Handles
      BY DEF TreeInv, TypeOK, TableTypeOK
    <3> QED BY <3>1, <3>2 DEF OnStack
  <2>3. c # p /\ parent[c] = p /\ c \in live
    BY <2>1, <2>2, ChildrenOnPath DEF ChildrenOK
  <2>4. c # RootHandle /\ c \in Handles
    BY <2>3 DEF PathInv, TreeInv, TypeOK, TableTypeOK
  <2>5. index[RootHandle] # 0
    <3>1. index[RootHandle] = 0 => p = RootHandle
      BY <2>1, TopOfPath DEF BeginsActive
    <3> QED BY <2>1, <3>1
  <2> HIDE DEF p, c
  <2>6. index'[RootHandle] # 0
    BY <1>0, <2>1, <2>2, <2>4, <2>5
  <2> QED BY <2>6 DEF BeginsActive
<1>8. CASE LeaveObject
  <2> DEFINE p == Last(visiting)
  <2>1. /\ visiting # << >> /\ destroying = << >> /\ index[p] > Len(child[p])
        /\ index' = [index EXCEPT ![p] = 0] /\ visiting' = Front(visiting)
    BY <1>8, Zenon DEF LeaveObject, Return
  <2>2. /\ Len(visiting) \in Nat \ {0}
        /\ p = RootHandle <=> Len(visiting) = 1
        /\ visiting' \in Seq(Handles) /\ Len(visiting') = Len(visiting) - 1
        /\ p \in Handles
    BY <1>0, <2>1, TopOfPath, FrontAndLast
  <2> HIDE DEF p
  <2>3. CASE p = RootHandle
    <3>1. visiting' = << >>
      BY <2>2, <2>3
    <3> QED BY <3>1 DEF BeginsActive
  <2>4. CASE p # RootHandle
    <3>1. index[RootHandle] # 0
      BY <2>1, <2>2, <2>4 DEF BeginsActive
    <3>2. index'[RootHandle] = index[RootHandle]
      BY <1>0, <2>1, <2>2, <2>4
    <3> QED BY <3>1, <3>2 DEF BeginsActive
  <2> QED BY <2>3, <2>4
<1>9. CASE Destruction
  <2>1. destroying # << >> /\ UNCHANGED <<visiting, index>>
    BY <1>9 DEF Destruction, DestructorReturns, DestroyChild, DestroyReturns
  <2> QED BY <2>1 DEF BeginsActive
<1>10. CASE UNCHANGED frameVars
  BY <1>1, <1>10 DEF frameVars, vars, scanVars
<1>11. CASE \E o \in Handles : SweepsGarbage(o)
  <2>1. ScriptCode \/ CollectorRuns
    BY <1>11, SweepFacts
  <2>2. /\ destroying = << >> /\ visiting # << >> => Last(visiting) # RootHandle
        /\ destroying = << >> /\ UNCHANGED <<visiting, index>>
    BY <1>11, <2>1, SystemHandles, SweepFacts
    DEF ScriptCode, ScriptRuns, CollectorRuns, scanVars
  <2> QED BY <2>2, TopOfPath DEF BeginsActive
<1>12. CASE SweepsInUse
  BY <1>1, <1>12 DEF SweepsInUse, SweepOvertakes, scanVars
<1> QED
  BY <1>2, <1>3, <1>4, <1>5, <1>6, <1>7, <1>8, <1>9, <1>10, <1>11, <1>12
  DEF FrameNext, ScriptActs

(* The constructor of System spawns the services first and the application *)
(* then.                                                                   *)
LEMMA LaunchStep ==
  ASSUME FrameInv, LaunchInv, launching, Launch
  PROVE  IF launching' THEN LaunchInv' ELSE App \in live' /\ SystemStands' /\ ExitOrder'
<1> USE DEF FrameInv
<1>1. PICK h \in Handles : SpawnAt(RootHandle, h)
  BY DEF Launch, SpawnObject
<1>2. /\ h \notin live /\ h # RootHandle /\ live' = live \cup {h}
      /\ h \in nextHandle .. length /\ \A g \in nextHandle .. h - 1 : g \in live
      /\ UNCHANGED <<killed, destroying, visiting, exiting>>
      /\ launching' = (App \notin live')
      /\ nextHandle' = IF h >= length THEN IF PowerOfTwo(h) THEN Larger(1 + RootHandle, h \div 2)
                                                            ELSE h
                                      ELSE h
  BY <1>1, Zenon DEF Launch, SpawnAt, Allocate, NewHandle, scanVars
<1>3. /\ parent \in [Handles -> Handles] /\ child \in [Handles -> Seq(Handles)]
      /\ nextHandle \in Nat /\ length \in Nat
  BY DEF TreeInv, TypeOK, TableTypeOK
<1>4. visiting = << >> /\ destroying = << >> /\ killed = {} /\ ~exiting /\ ToSet(destroying) = {}
  BY DEF LaunchInv, ToSet
<1>5. child[Services] = << >> \/ Services \in live
  BY SystemHandles DEF TreeInv, UnusedUnlinked
<1>6. ASSUME \A i \in 1 .. Len(child[RootHandle]) : child[RootHandle][i] # h
      PROVE  /\ child' = [child EXCEPT ![RootHandle] = Append(@, h)]
             /\ parent' = [parent EXCEPT ![h] = RootHandle]
  <2>1. ~Contains(child[RootHandle], h)
    BY <1>6 DEF Contains
  <2> QED BY <1>1, <2>1, Zenon DEF SpawnAt
<1>7. CASE live = {RootHandle} /\ nextHandle = RootHandle /\ child[RootHandle] = << >>
  <2>1. h = Services
    <3>1. h \in Nat /\ h > 1 /\ ~(h > 2)
      BY <1>2, <1>7 DEF RootHandle, Handles
    <3> QED BY <3>1 DEF Services
  <2>2. /\ child' = [child EXCEPT ![RootHandle] = Append(@, h)]
        /\ parent' = [parent EXCEPT ![h] = RootHandle]
    BY <1>6, <1>7
  <2>3. nextHandle' = Services
    <3>1. Larger(1 + RootHandle, 2 \div 2) = 2
      BY DEF Larger, RootHandle
    <3> QED BY <1>2, <2>1, <3>1 DEF Services
  <2>4. /\ child'[RootHandle] = Append(child[RootHandle], Services)
        /\ parent'[Services] = RootHandle
    BY <1>3, <2>1, <2>2, SystemHandles
  <2>5. Len(child'[RootHandle]) = 1 /\ child'[RootHandle][1] = Services
    BY <1>7, <2>4, SystemHandles
  <2>6. launching'
    BY <1>2, <1>7, <2>1, SystemHandles
  <2> QED BY <1>2, <1>4, <1>7, <2>1, <2>3, <2>4, <2>5, <2>6 DEF LaunchInv
<1>8. CASE /\ live = {RootHandle, Services} /\ nextHandle = Services
           /\ Len(child[RootHandle]) = 1 /\ child[RootHandle][1] = Services
           /\ parent[Services] = RootHandle
  <2>1. h = App
    <3>1. h \in Nat /\ h > 2 /\ ~(h > 3)
      BY <1>2, <1>8 DEF RootHandle, Services, Handles
    <3> QED BY <3>1 DEF App
  <2>2. /\ child' = [child EXCEPT ![RootHandle] = Append(@, h)]
        /\ parent' = [parent EXCEPT ![h] = RootHandle]
    BY <1>6, <1>8, <2>1, SystemHandles
  <2>3. /\ child'[RootHandle] = Append(child[RootHandle], App)
        /\ child'[Services] = child[Services]
        /\ parent'[Services] = RootHandle /\ parent'[App] = RootHandle
    BY <1>3, <1>8, <2>1, <2>2, SystemHandles
  <2>4. /\ Len(child'[RootHandle]) = 2 /\ child'[RootHandle][1] = Services
        /\ child'[RootHandle][2] = App
    <3>1. child[RootHandle] \in Seq(Handles)
      BY <1>3, SystemHandles
    <3> DEFINE s == child[RootHandle]
    <3> HIDE DEF s
    <3>2. /\ Len(Append(s, App)) = Len(s) + 1
          /\ \A i \in 1 .. Len(s) : Append(s, App)[i] = s[i]
          /\ Append(s, App)[Len(s) + 1] = App
      BY <3>1, AppendProperties, SystemHandles DEF s
    <3>3. Len(s) = 1 /\ s[1] = Services
      BY <1>8 DEF s
    <3> QED BY <2>3, <3>2, <3>3 DEF s
  <2>5. child'[RootHandle] # << >>
    BY <2>4
  <2>6. child[Services] = << >>
    <3>1. ASSUME child[Services] # << >> PROVE FALSE
      <4>1. ChildrenOK(Services)
        BY <1>4, <1>8, ChildrenAtRest
      <4>2. 1 \in 1 .. Len(child[Services])
        BY <1>3, <3>1, SystemHandles
      <4>3. child[Services][1] \in live \ {Services} /\ parent[child[Services][1]] = Services
        BY <4>1, <4>2 DEF ChildrenOK
      <4> QED BY <1>8, <4>3, SystemHandles DEF PathInv
    <3> QED BY <3>1
  <2>7. ~launching' /\ App \in live' /\ live' = {RootHandle, Services, App}
    BY <1>2, <1>8, <2>1
  <2>8. ToSet(destroying') = {}
    BY <1>2, <1>4
  <2> QED
    BY <1>2, <1>4, <2>3, <2>4, <2>5, <2>6, <2>7, <2>8, SystemHandles
    DEF SystemStands, ExitOrder
<1> QED BY <1>7, <1>8 DEF LaunchInv

(* The traversal returns from the services to System.                      *)
LEMMA BackToSystem ==
  ASSUME PathInv, SystemStands, visiting # << >>, Last(visiting) = Services
  PROVE  Front(visiting) # << >> /\ Last(Front(visiting)) = RootHandle
<1> DEFINE n == Len(visiting)
<1>1. /\ n \in Nat \ {0} /\ visiting[1] = RootHandle /\ visiting[n] = Services
      /\ visiting \in Seq(Handles)
  BY TopOfPath DEF PathInv
<1>2. n # 1
  BY <1>1, SystemHandles
<1>3. n \in 1 .. n /\ n > 1 /\ n - 1 \in 1 .. n /\ 1 \in 1 .. n
  <2>1. n \in Nat \ {0} /\ n # 1
    BY <1>1, <1>2
  <2> HIDE DEF n
  <2> QED BY <2>1
<1>4. visiting[n - 1] = visiting[1]
  <2>1. parent[visiting[n]] = visiting[n - 1]
    BY <1>3, OnPath
  <2> QED BY <1>1, <2>1 DEF SystemStands
<1>5. n - 1 = 1
  BY <1>3, <1>4 DEF PathInv, Distinct
<1>6. /\ Front(visiting) \in Seq(Handles) /\ Len(Front(visiting)) = 1
      /\ \A i \in 1 .. 1 : Front(visiting)[i] = visiting[i]
  <2>1. /\ Front(visiting) \in Seq(Handles) /\ Len(Front(visiting)) = n - 1
        /\ \A i \in 1 .. n - 1 : Front(visiting)[i] = visiting[i]
    BY <1>1, FrontAndLast
  <2> QED BY <1>5, <2>1
<1> DEFINE f == Front(visiting)
<1>7. f[1] = RootHandle /\ Len(f) = 1 /\ f \in Seq(Handles)
  BY <1>1, <1>6
<1> HIDE DEF f
<1>8. f # << >> /\ Last(f) = RootHandle
  <2>1. f # << >>
    BY <1>7, EmptySeq
  <2>2. Last(f) = f[Len(f)]
    BY DEF Last
  <2> QED BY <1>7, <2>1, <2>2
<1> QED BY <1>8 DEF f

(* No script runs between the end of System's last state and the deletion  *)
(* of the application.                                                     *)
LEMMA QuietExit ==
  ASSUME ~DestructorsSpawn, ExitOrder, ScriptCode
  PROVE  destroying = << >> /\ RootHandle \notin killed
<1>1. destroying = << >>
  BY DEF ScriptCode, ScriptRuns
<1>2. ~RootLeaves
  BY <1>1 DEF ScriptCode, RootLeaves
<1> QED BY <1>1, <1>2 DEF ExitOrder

(* What scripts do ...                                                     *)
LEMMA ExitScripts ==
  ASSUME FrameInv, ~DestructorsSpawn, ~SystemExit, App \in live, SystemStands, ExitOrder,
         ScriptActs
  PROVE  App \in live' /\ SystemStands' /\ ExitOrder'
<1> USE DEF FrameInv
<1>1. ScriptCode
  BY ScriptActsInCode
<1>2. destroying = << >> /\ RootHandle \notin killed
  BY <1>1, QuietExit
<1>3. ASSUME NEW o, o \notin {RootHandle, Services}, Flag(o)
      PROVE  SystemStands' /\ UNCHANGED live /\ killed' = killed \cup {o}
  <2>1. UNCHANGED <<live, parent, child, destroying>> /\ killed' = killed \cup {o}
    BY <1>3 DEF Flag, tableVars
  <2> QED BY <1>3, <2>1, StandsStill DEF SystemStands
<1>4. CASE \E p \in Handles : ScriptSpawns(p)
  <2>1. PICK p \in Handles : ScriptSpawns(p)
    BY <1>4
  <2>2. SpawnObject(p) /\ p \notin {RootHandle, Services} /\ UNCHANGED exiting
    BY <2>1 DEF ScriptSpawns
  <2>3. UNCHANGED killed /\ App \in live'
    BY <2>2 DEF SpawnObject, SpawnAt, Allocate
  <2> QED BY <1>2, <2>2, <2>3, StandsSpawn DEF ExitOrder
<1>5. CASE \E o \in Handles : ScriptKills(o)
  <2>1. PICK o \in Handles : ScriptKills(o)
    BY <1>5
  <2>2. Flag(o) /\ o \notin {RootHandle, Services} /\ UNCHANGED exiting
    BY <2>1 DEF ScriptKills, Kill
  <2>3. SystemStands' /\ UNCHANGED live /\ killed' = killed \cup {o}
    BY <1>3, <2>2
  <2> QED BY <1>2, <2>2, <2>3 DEF ExitOrder
<1>6. CASE \E o \in Handles : SetActive(o)
  <2>1. UNCHANGED <<vars, exiting>>
    BY <1>6 DEF SetActive
  <2> QED BY <1>2, <2>1, StandsStill DEF vars, tableVars, treeVars, SystemStands, ExitOrder
<1>7. CASE ApplicationExit
  <2>1. CASE App \in killed
    <3>1. UNCHANGED vars
      BY <1>7, <2>1 DEF ApplicationExit
    <3> QED BY <1>2, <2>1, <3>1, StandsStill DEF vars, tableVars, treeVars, SystemStands, ExitOrder
  <2>2. CASE App \notin killed
    <3>1. Flag(App)
      BY <1>7, <2>2 DEF ApplicationExit, Kill
    <3>2. SystemStands' /\ UNCHANGED live /\ killed' = killed \cup {App}
      BY <1>3, <3>1, SystemHandles
    <3> QED BY <1>2, <3>2, SystemHandles DEF ExitOrder
  <2> QED BY <2>1, <2>2
<1>8. ~SystemExits
  BY DEF SystemExits
<1> QED BY <1>4, <1>5, <1>6, <1>7, <1>8 DEF ScriptActs

(* ... and the collector sweeps, ...                                       *)
LEMMA ExitSweep ==
  ASSUME FrameInv, ~DestructorsSpawn, App \in live, SystemStands, ExitOrder,
         NEW o, SweepsGarbage(o)
  PROVE  App \in live' /\ SystemStands' /\ ExitOrder'
<1> USE DEF FrameInv
<1>1. /\ ScriptCode \/ CollectorRuns
      /\ o # RootHandle /\ killed' = killed \cup {o} /\ UNCHANGED live
      /\ UNCHANGED <<visiting, index, exiting>>
  BY SweepFacts DEF tableVars, scanVars
<1>2. destroying = << >>
  BY <1>1 DEF ScriptCode, ScriptRuns, CollectorRuns
<1>3. SystemStands'
  BY <1>2, StandsSweep
<1>4. RootHandle \in killed' => RootHandle \in killed /\ CollectorRuns
  BY <1>1, QuietExit
<1>5. CollectorRuns /\ RootLeaves => RootLeaves'
  BY <1>1 DEF CollectorRuns, RootLeaves
<1> QED BY <1>1, <1>3, <1>4, <1>5 DEF ExitOrder

(* ... what the end of a state does, ...                                   *)
LEMMA ExitEndState ==
  ASSUME FrameInv, App \in live, SystemStands, ExitOrder, BeginsActive, EndState
  PROVE  App \in live' /\ SystemStands' /\ ExitOrder'
<1> USE DEF FrameInv
<1> DEFINE o == Last(visiting)
<1>1. /\ visiting # << >> /\ destroying = << >> /\ index[o] = 0 /\ UNCHANGED exiting
      /\ IF o = RootHandle /\ exiting /\ o \notin killed THEN Flag(o) ELSE UNCHANGED vars
      /\ IF o \in active THEN index' = [index EXCEPT ![o] = 1] /\ UNCHANGED visiting
                         ELSE visiting' = Front(visiting) /\ UNCHANGED index
  BY Zenon DEF EndState, Return
<1>2. /\ Len(visiting) \in Nat \ {0} /\ visiting[1] = RootHandle
      /\ o = visiting[Len(visiting)] /\ o \in live
      /\ o = RootHandle <=> Len(visiting) = 1
  BY <1>1, TopOfPath
<1>3. index \in [Handles -> Nat] /\ visiting \in Seq(Handles) /\ live \subseteq Handles
  BY DEF FrameTypeOK, TreeInv, TypeOK, TableTypeOK
<1> HIDE DEF o
<1>4. CASE o = RootHandle
  <2>1. o \in active
    BY <1>1, <1>2, <1>4 DEF BeginsActive
  <2>2. index'[RootHandle] = 1 /\ UNCHANGED visiting
    BY <1>1, <1>3, <1>4, <2>1, SystemHandles
  <2>3. /\ UNCHANGED <<live, parent, child, destroying>>
        /\ killed' = killed \/ (exiting /\ killed' = killed \cup {RootHandle})
    BY <1>1, <1>4 DEF Flag, vars, tableVars, treeVars
  <2>4. SystemStands'
    BY <2>3, StandsStill, SystemHandles DEF SystemStands
  <2>5. Last(visiting') \in {RootHandle, Services} /\ visiting' # << >>
    BY <1>1, <1>4, <2>2 DEF o
  <2>6. RootLeaves'
    BY <1>1, <2>2, <2>3, <2>5 DEF RootLeaves
  <2> QED BY <1>1, <2>3, <2>4, <2>6 DEF ExitOrder
<1>5. CASE o # RootHandle
  <2>1. UNCHANGED <<live, parent, child, killed, destroying>>
    BY <1>1, <1>5 DEF vars, tableVars, treeVars
  <2>2. SystemStands'
    BY <2>1, StandsStill DEF SystemStands
  <2>3. RootLeaves => RootLeaves'
    <3> SUFFICES ASSUME RootLeaves PROVE RootLeaves'
      OBVIOUS
    <3>1. o = Services /\ index[RootHandle] \in {1, 2}
      BY <1>1, <1>5 DEF RootLeaves, o
    <3>2. index'[RootHandle] = index[RootHandle]
      BY <1>1, <1>3, <1>5, SystemHandles
    <3>3. CASE UNCHANGED visiting
      BY <1>1, <2>1, <3>1, <3>2, <3>3 DEF RootLeaves
    <3>4. CASE visiting' = Front(visiting)
      <4>1. visiting' # << >> /\ Last(visiting') = RootHandle
        BY <1>1, <3>1, <3>4, BackToSystem DEF o
      <4> QED BY <1>1, <2>1, <3>1, <3>2, <4>1 DEF RootLeaves
    <3> QED BY <1>1, <3>3, <3>4
  <2> QED BY <1>1, <2>1, <2>2, <2>3 DEF ExitOrder
<1> QED BY <1>4, <1>5

(* ... where the traversal goes next, ...                                  *)
LEMMA ExitVisit ==
  ASSUME FrameInv, App \in live, SystemStands, ExitOrder, VisitChild
  PROVE  App \in live' /\ SystemStands' /\ ExitOrder'
<1> USE DEF FrameInv
<1> DEFINE p == Last(visiting)
           c == child[p][index[p]]
<1>1. /\ visiting # << >> /\ destroying = << >> /\ index[p] \in 1 .. Len(child[p])
      /\ c \in live /\ Update(c)
      /\ index' = [index EXCEPT ![p] = @ + 1, ![c] = 0]
      /\ UNCHANGED exiting
  BY Zenon DEF VisitChild
<1>2. /\ index \in [Handles -> Nat] /\ visiting \in Seq(Handles) /\ live \subseteq Handles
      /\ p \in live
  BY <1>1, TopOfPath DEF FrameTypeOK, TreeInv, TypeOK, TableTypeOK
<1>3. c # RootHandle
  <2>1. OnStack(p)
    <3>1. p = visiting[Len(visiting)] /\ Len(visiting) \in 1 .. Len(visiting)
      BY <1>1, TopOfPath
    <3> QED BY <3>1 DEF OnStack
  <2>2. c # p /\ parent[c] = p
    BY <1>1, <2>1, ChildrenOnPath DEF ChildrenOK
  <2> QED BY <2>2 DEF PathInv
<1>4. /\ UNCHANGED <<live, parent, child, killed>>
      /\ SystemStands'
  <2>1. CASE DeleteKilled(c)
    BY <1>3, <2>1, StandsDelete DEF DeleteKilled, tableVars, treeVars
  <2>2. CASE UNCHANGED vars
    <3>1. UNCHANGED <<live, parent, child, killed, destroying>>
      BY <2>2 DEF vars, tableVars, treeVars
    <3> QED BY <3>1, StandsStill DEF SystemStands
  <2> QED BY <1>1, <2>1, <2>2 DEF Update
<1>5. RootHandle \in killed /\ RootLeaves => RootLeaves'
  <2> SUFFICES ASSUME RootHandle \in killed, RootLeaves PROVE RootLeaves'
    OBVIOUS
  <2>1. p = RootHandle /\ index[RootHandle] \in {1, 2}
    BY <1>1 DEF RootLeaves, SystemStands
  <2>2. /\ Len(child[RootHandle]) = 2 /\ child[RootHandle][1] = Services
        /\ child[RootHandle][2] = App
    BY <1>1 DEF SystemStands, ToSet
  <2>3. App \in killed
    BY DEF ExitOrder
  <2> HIDE DEF p
  <2>4. CASE index[RootHandle] = 1
    <3>1. c = Services
      BY <2>1, <2>2, <2>4
    <3>2. index'[RootHandle] = 2
      BY <1>1, <1>2, <2>1, <2>4, <3>1, SystemHandles
    <3>3. Services \notin killed
      BY DEF SystemStands
    <3>4. UNCHANGED destroying /\ (UNCHANGED visiting \/ visiting' = Append(visiting, Services))
      BY <1>1, <3>1, <3>3 DEF Update, vars
    <3>5. visiting' # << >> /\ Last(visiting') \in {RootHandle, Services}
      <4>1. CASE UNCHANGED visiting
        BY <1>1, <2>1, <4>1 DEF p
      <4>2. CASE visiting' = Append(visiting, Services)
        <5>1. /\ Len(visiting') = Len(visiting) + 1 /\ Len(visiting) \in Nat
              /\ visiting'[Len(visiting) + 1] = Services
          BY <1>2, <4>2, AppendProperties, SystemHandles
        <5>2. visiting' # << >>
          BY <1>2, <4>2, AppendProperties, SystemHandles
        <5> QED BY <5>1, <5>2 DEF Last
      <4> QED BY <3>4, <4>1, <4>2
    <3> QED BY <1>1, <3>2, <3>4, <3>5 DEF RootLeaves
  <2>5. CASE index[RootHandle] = 2
    <3>1. c = App
      BY <2>1, <2>2, <2>5
    <3>2. DeleteKilled(App) /\ UNCHANGED visiting
      BY <1>1, <2>3, <3>1 DEF Update
    <3>3. destroying' # << >> /\ destroying'[1] = App
      BY <3>2 DEF DeleteKilled
    <3>4. visiting' # << >> /\ Last(visiting') \in {RootHandle, Services}
      BY <1>1, <2>1, <3>2 DEF p
    <3> QED BY <3>3, <3>4 DEF RootLeaves
  <2> QED BY <2>1, <2>4, <2>5
<1> QED BY <1>1, <1>4, <1>5 DEF ExitOrder

(* ... and its return.                                                     *)
LEMMA ExitLeave ==
  ASSUME FrameInv, App \in live, SystemStands, ExitOrder, LeaveObject
  PROVE  App \in live' /\ SystemStands' /\ ExitOrder'
<1> USE DEF FrameInv
<1> DEFINE p == Last(visiting)
<1>1. /\ visiting # << >> /\ destroying = << >> /\ index[p] > Len(child[p])
      /\ index' = [index EXCEPT ![p] = 0] /\ visiting' = Front(visiting)
      /\ UNCHANGED <<vars, exiting>>
  BY Zenon DEF LeaveObject, Return
<1>2. /\ index \in [Handles -> Nat] /\ visiting \in Seq(Handles)
      /\ Len(visiting) \in Nat \ {0} /\ visiting[1] = RootHandle
      /\ p = visiting[Len(visiting)] /\ (p = RootHandle <=> Len(visiting) = 1)
  BY <1>1, TopOfPath DEF FrameTypeOK
<1>3. UNCHANGED <<live, parent, child, killed, destroying>>
  BY <1>1 DEF vars, tableVars, treeVars
<1>4. SystemStands'
  BY <1>3, StandsStill DEF SystemStands
<1>5. RootLeaves => RootLeaves'
  <2> SUFFICES ASSUME RootLeaves PROVE RootLeaves'
    OBVIOUS
  <2>1. Len(child[RootHandle]) = 2 /\ index[RootHandle] \in {1, 2}
    BY <1>1 DEF SystemStands, ToSet, RootLeaves
  <2>2. p = Services
    BY <1>1, <2>1 DEF RootLeaves
  <2>3. visiting' # << >> /\ Last(visiting') = RootHandle
    BY <1>1, <2>2, BackToSystem
  <2>4. index'[RootHandle] = index[RootHandle]
    BY <1>1, <1>2, <2>2, SystemHandles
  <2> QED BY <1>1, <1>3, <2>1, <2>3, <2>4 DEF RootLeaves
<1> QED BY <1>1, <1>3, <1>4, <1>5 DEF ExitOrder

(* ... and how far a destruction gets.                                     *)
LEMMA ExitDestruction ==
  ASSUME FrameInv, TreeInv', SingleTree', App \in live, SystemStands, ExitOrder, Destruction
  PROVE  IF App \in live' THEN SystemStands' /\ ExitOrder'
                           ELSE live' \subseteq {RootHandle, Services}
<1> USE DEF FrameInv
<1>1. destroying # << >> /\ UNCHANGED <<visiting, index, exiting>>
  BY DEF Destruction, DestructorReturns, DestroyChild, DestroyReturns
<1>2. ASSUME App \in live', killed' \subseteq killed, App \in killed => App \in killed',
             destroying' # << >> => destroying'[1] = destroying[1],
             destroying' = << >> => destroying[1] # App
      PROVE  ExitOrder'
  BY <1>1, <1>2 DEF ExitOrder, RootLeaves
<1>3. CASE DestructorReturns
  <2>1. UNCHANGED <<live, killed, destroying>>
    BY <1>3 DEF DestructorReturns, tableVars
  <2> QED BY <1>1, <1>2, <1>3, <2>1, StandsUnlink
<1>4. CASE DestroyChild
  <2>1. UNCHANGED <<live, killed>>
    BY <1>4 DEF DestroyChild, tableVars
  <2> QED BY <1>2, <1>4, <2>1, StandsChild
<1>5. CASE DestroyReturns
  <2> DEFINE o == Last(destroying)
  <2>1. live' = live \ {o} /\ killed' = killed \ {o} /\ destroying' = Front(destroying)
    BY <1>5, Zenon DEF DestroyReturns, Free
  <2>2. CASE App \notin live'
    BY <1>5, <2>2, StandsReturn
  <2>3. CASE App \in live'
    <3>1. o # App
      BY <2>1, <2>3
    <3>2. SystemStands' /\ (destroying' # << >> => destroying'[1] = destroying[1])
      BY <1>5, <2>3, StandsReturn
    <3>3. destroying' = << >> => destroying[1] # App
      <4> SUFFICES ASSUME destroying' = << >>, destroying[1] = App PROVE FALSE
        OBVIOUS
      <4>1. Len(destroying) \in Nat \ {0} /\ o = destroying[Len(destroying)]
        BY <1>1, OthersDestroyed
      <4>2. Len(Front(destroying)) = Len(destroying) - 1
        BY <1>1, OnTop DEF TreeInv
      <4>3. Len(destroying) = 1
        BY <2>1, <4>1, <4>2
      <4> QED BY <3>1, <4>1, <4>3
    <3> QED BY <1>2, <2>1, <2>3, <3>1, <3>2, <3>3
  <2> QED BY <2>2, <2>3
<1> QED BY <1>3, <1>4, <1>5 DEF Destruction

(* Every step keeps the order of the exit.                                 *)
LEMMA ExitStep ==
  ASSUME ~DestructorsSpawn, ~SystemExit, ~HostTerminates,
         FrameInv, TreeInv', SingleTree, SingleTree', ExitInv, [FrameNext]_frameVars
  PROVE  ExitInv'
<1> USE DEF FrameInv
<1>1. BeginsActive'
  BY BeginsActiveStep DEF ExitInv
<1>2. CASE launching
  <2>1. CASE Launch
    <3>1. IF launching' THEN LaunchInv' ELSE App \in live' /\ SystemStands' /\ ExitOrder'
      BY <1>2, <2>1, LaunchStep DEF ExitInv
    <3> QED BY <1>1, <3>1 DEF ExitInv, LaunchInv
  <2>2. CASE ~Launch
    <3>1. visiting = << >> /\ destroying = << >>
      BY <1>2 DEF ExitInv, LaunchInv
    <3>2. UNCHANGED frameVars
      BY <1>2, <2>2, <3>1
      DEF FrameNext, ScriptSpawns, ScriptKills, SweepsGarbage, SweepsInUse, CollectorRuns,
          SetActive, ApplicationExit, SystemExits, ScriptCode, HostActs, BeginFrame, EndState, VisitChild, LeaveObject,
          Destruction, DestructorReturns, DestroyChild, DestroyReturns
    <3>3. LaunchInv'
      BY <3>2 DEF ExitInv, LaunchInv, frameVars, scanVars, vars, tableVars, treeVars
    <3> QED BY <1>1, <1>2, <3>2, <3>3 DEF ExitInv, frameVars
  <2> QED BY <2>1, <2>2
<1>3. CASE ~launching /\ App \notin live
  <2>1. live \subseteq {RootHandle, Services}
    BY <1>3 DEF ExitInv
  <2>2. live' \subseteq {RootHandle, Services} /\ ~launching'
    BY <1>3, <2>1, NothingLeft
  <2> QED BY <1>1, <2>2, SystemHandles DEF ExitInv, LaunchInv
<1>4. CASE ~launching /\ App \in live
  <2>0. SystemStands /\ ExitOrder /\ BeginsActive
    BY <1>4 DEF ExitInv
  <2>1. ~launching'
    BY <1>4, ScriptActsInCode
    DEF FrameNext, ScriptActs, SweepsGarbage, SweepsInUse, Launch, HostActs, BeginFrame,
        EndState, VisitChild, LeaveObject, Destruction, frameVars
  <2>2. ASSUME UNCHANGED <<vars, visiting, index, exiting>>
        PROVE  App \in live' /\ SystemStands' /\ ExitOrder'
    <3>1. UNCHANGED <<live, parent, child, killed, destroying>>
      BY <2>2 DEF vars, tableVars, treeVars
    <3> QED BY <1>4, <2>0, <2>2, <3>1, StandsStill DEF SystemStands, ExitOrder, RootLeaves
  <2>3. CASE ScriptActs
    BY <1>4, <2>0, <2>1, <2>3, <1>1, ExitScripts DEF ExitInv, LaunchInv
  <2>4. CASE HostActs
    <3>1. visiting = << >> /\ RootHandle \notin killed
      BY <2>0, <2>4 DEF HostActs, ExitOrder, RootLeaves
    <3>2. PICK o, p \in Handles \ {RootHandle, Services} : Reparent(o, p)
      BY <2>4 DEF HostActs
    <3>3. UNCHANGED <<live, killed, destroying, exiting>>
      BY <2>4, <3>2 DEF HostActs, Reparent, tableVars
    <3>4. SystemStands' /\ ExitOrder'
      BY <1>4, <2>0, <3>1, <3>2, <3>3, StandsReparent DEF ExitOrder
    <3> QED BY <1>1, <1>4, <2>1, <3>3, <3>4 DEF ExitInv, LaunchInv
  <2>5. CASE BeginFrame
    <3>1. visiting = << >> /\ RootHandle \notin killed /\ Update(RootHandle) /\ UNCHANGED exiting
      BY <2>0, <2>5 DEF BeginFrame, ExitOrder, RootLeaves
    <3>2. UNCHANGED <<live, parent, child, killed, destroying>>
      BY <3>1 DEF Update, vars, tableVars, treeVars
    <3>3. SystemStands' /\ ExitOrder'
      BY <2>0, <3>1, <3>2, StandsStill DEF SystemStands, ExitOrder
    <3> QED BY <1>1, <1>4, <2>1, <3>2, <3>3 DEF ExitInv, LaunchInv
  <2>6. CASE EndState
    BY <1>1, <1>4, <2>0, <2>1, <2>6, ExitEndState DEF ExitInv, LaunchInv
  <2>7. CASE VisitChild
    BY <1>1, <1>4, <2>0, <2>1, <2>7, ExitVisit DEF ExitInv, LaunchInv
  <2>8. CASE LeaveObject
    BY <1>1, <1>4, <2>0, <2>1, <2>8, ExitLeave DEF ExitInv, LaunchInv
  <2>9. CASE Destruction
    BY <1>1, <1>4, <2>0, <2>1, <2>9, ExitDestruction DEF ExitInv, LaunchInv
  <2>10. CASE UNCHANGED frameVars
    BY <1>1, <2>1, <2>2, <2>10 DEF ExitInv, LaunchInv, frameVars, scanVars
  <2>11. ~Launch
    BY <1>4 DEF Launch
  <2>12. CASE \E o \in Handles : SweepsGarbage(o)
    BY <1>1, <1>4, <2>0, <2>1, <2>12, ExitSweep DEF ExitInv, LaunchInv
  <2>13. CASE SweepsInUse
    <3>1. /\ UNCHANGED <<live, parent, child, killed, destroying>>
          /\ UNCHANGED <<visiting, index, exiting>>
      BY <2>13 DEF SweepsInUse, SweepOvertakes, tableVars, treeVars, scanVars
    <3>2. SystemStands' /\ ExitOrder'
      BY <2>0, <3>1, StandsStill DEF SystemStands, ExitOrder, RootLeaves
    <3> QED BY <1>1, <1>4, <2>1, <3>1, <3>2 DEF ExitInv, LaunchInv
  <2> QED
    BY <2>3, <2>4, <2>5, <2>6, <2>7, <2>8, <2>9, <2>10, <2>11, <2>12, <2>13
    DEF FrameNext, ScriptActs
<1> QED BY <1>2, <1>3, <1>4

(* When the destructors spawn nothing, and it is the application that ends *)
(* the program, the system objects outlive it and its descendants: the     *)
(* handles that destructors follow to them are good.                       *)
THEOREM ServicesGoLast ==
  ASSUME ~DestructorsSpawn, ~SystemExit, ~HostTerminates
  PROVE  FrameSpec => []ServicesOutliveApplication
<1>1. FrameInit => FrameInv /\ SingleTree /\ ExitInv
  <2> SUFFICES ASSUME FrameInit PROVE SingleTree /\ ExitInv
    BY FrameInvInitially
  <2>1. SingleTree
    BY DEF FrameInit, Init, TableInit, SingleTree, RootHandle
  <2>2. child[RootHandle] = << >>
    BY SystemHandles DEF FrameInit, Init
  <2> QED BY <2>1, <2>2 DEF FrameInit, Init, TableInit, ExitInv, LaunchInv, BeginsActive
<1>2. FrameInv /\ SingleTree /\ ExitInv /\ [FrameNext]_frameVars =>
        (FrameInv /\ SingleTree /\ ExitInv)'
  <2> SUFFICES ASSUME FrameInv, SingleTree, ExitInv, [FrameNext]_frameVars
               PROVE  FrameInv' /\ SingleTree' /\ ExitInv'
    OBVIOUS
  <2>1. FrameInv'
    BY FrameInvStep
  <2>2. SingleTree'
    BY FrameStepIsTreeStep, SingleTreeStep DEF FrameInv
  <2> QED BY <2>1, <2>2, ExitStep DEF FrameInv
<1>3. ExitInv => ServicesOutliveApplication
  BY DEF ExitInv, SystemStands, ServicesOutliveApplication
<1> QED BY <1>1, <1>2, <1>3, PTL DEF FrameSpec
=============================================================================
