-------------------------- MODULE ClassRegistryProofs --------------------------
(***************************************************************************)
(* The hash table finds what was put in it, and the views of the classes   *)
(* and of their tags agree, whatever the classes, the names and the hashes *)
(* are.                                                                    *)
(***************************************************************************)
EXTENDS ClassRegistry, FiniteSetTheorems, SequenceTheorems, WellFoundedInduction, TLAPS

(* A place d steps after a place h of a table of c entries, and how many   *)
(* steps it takes from h to k.                                             *)
Place(c, h, d) == IF h + d < c THEN h + d ELSE h + d - c
Steps(c, h, k) == IF h <= k THEN k - h ELSE k - h + c

LEMMA StepsToPlace ==
  ASSUME NEW c \in Nat, NEW h \in 0 .. c - 1, NEW k \in 0 .. c - 1
  PROVE  Steps(c, h, k) \in 0 .. c - 1 /\ Place(c, h, Steps(c, h, k)) = k
BY DEF Place, Steps

LEMMA PlaceOfSteps ==
  ASSUME NEW c \in Nat, NEW h \in 0 .. c - 1, NEW d \in 0 .. c - 1
  PROVE  Place(c, h, d) \in 0 .. c - 1 /\ Steps(c, h, Place(c, h, d)) = d
BY DEF Place, Steps

(* Quotient and remainder are unique.                                      *)
LEMMA RemainderIs ==
  ASSUME NEW c \in Nat \ {0}, NEW p \in Nat, NEW s \in 0 .. c - 1, NEW x \in Nat, x = c * p + s
  PROVE  x % c = s
<1>1. PICK q \in Nat : q = x \div c
  OBVIOUS
<1>2. PICK r \in 0 .. c - 1 : r = x % c
  OBVIOUS
<1>3. x = c * q + r
  BY <1>1, <1>2
<1>4. \A m, n \in Nat : m > n => c * m >= c * n + c
  <2>1. SUFFICES ASSUME NEW m \in Nat, NEW n \in Nat, m > n PROVE c * m >= c * n + c
    OBVIOUS
  <2>2. PICK i \in Nat : m = n + 1 + i
    <3>1. m - n - 1 \in Nat /\ m = n + 1 + (m - n - 1)
      BY <2>1
    <3> QED BY <3>1
  <2>3. c * m = c * n + c + c * i /\ c * i >= 0
    BY <2>2
  <2> QED BY <2>3
<1>5. c * p \in Int /\ c * q \in Int
  OBVIOUS
<1>6. ~(p > q)
  BY <1>3, <1>4, <1>5
<1>7. ~(q > p)
  BY <1>3, <1>4, <1>5
<1>8. p = q
  BY <1>6, <1>7
<1>9. r = s
  BY <1>3, <1>5, <1>8
<1> QED BY <1>2, <1>9

(* The remainder is not but a place.                                       *)
LEMMA RemainderIsPlace ==
  ASSUME NEW c \in Nat \ {0}, NEW a \in Nat, NEW d \in 0 .. c - 1
  PROVE  a % c \in 0 .. c - 1 /\ (a + d) % c = Place(c, a % c, d)
<1> DEFINE q == a \div c  r == a % c
<1>1. q \in Nat /\ r \in 0 .. c - 1 /\ a = c * q + r
  OBVIOUS
<1> HIDE DEF q, r
<1>2. CASE r + d < c
  <2>1. a + d = c * q + (r + d) /\ r + d \in 0 .. c - 1
    BY <1>1, <1>2
  <2>2. (a + d) % c = r + d
    <3>1. PICK s \in 0 .. c - 1 : s = r + d
      BY <2>1
    <3>2. PICK x \in Nat : x = a + d
      OBVIOUS
    <3>3. x = c * q + s
      BY <2>1, <3>1, <3>2
    <3>4. x % c = s
      BY <1>1, <3>3, RemainderIs
    <3> QED BY <3>1, <3>2, <3>4
  <2> QED BY <1>1, <1>2, <2>2 DEF Place, r
<1>3. CASE ~(r + d < c)
  <2>0. PICK p \in Nat : p = q + 1
    BY <1>1
  <2>1. a + d = c * p + (r + d - c) /\ r + d - c \in 0 .. c - 1
    BY <1>1, <1>3, <2>0
  <2>2. (a + d) % c = r + d - c
    <3>1. PICK s \in 0 .. c - 1 : s = r + d - c
      BY <2>1
    <3>2. PICK x \in Nat : x = a + d
      OBVIOUS
    <3>3. x = c * p + s
      BY <2>1, <3>1, <3>2
    <3>4. x % c = s
      BY <3>3, RemainderIs
    <3> QED BY <3>1, <3>2, <3>4
  <2> QED BY <1>1, <1>3, <2>2 DEF Place, r
<1> QED BY <1>2, <1>3

(* The least of a set of naturals is one of them.                          *)
LEMMA LeastIs ==
  ASSUME NEW S \in SUBSET Nat, S # {}
  PROVE  H!Least(S) \in S /\ \A e \in S : H!Least(S) <= e
<1> DEFINE R == OpToRel(<, Nat)
<1>1. IsWellFoundedOn(R, Nat)
  BY NatLessThanWellFounded
<1>2. \A x, y \in Nat : x < y => <<x, y>> \in R
  BY DEF OpToRel
<1> HIDE DEF R
<1>3. PICK d \in S : \A e \in S : ~(<<e, d>> \in R)
  BY <1>1, WFMin
<1>4. ASSUME NEW e \in S PROVE d <= e
  <2>1. d \in Nat /\ e \in Nat
    OBVIOUS
  <2>2. ~(e < d)
    BY <2>1, <1>2, <1>3
  <2> QED BY <2>1, <2>2
<1> QED BY <1>4 DEF H!Least

-----------------------------------------------------------------------------
(* The tables.                                                             *)

Keys == Signatures \cup TagSignatures

(* What is at a place: nothing yet, an entry, or its ghost.                *)
Entry(K, V) == {H!BLANK_ENTRY} \cup [key : K, value : V, state : {"ACTIVE", "DELETED"}]

(* Where there is something.                                               *)
Used(t) == {k \in 0 .. t.capacity - 1 : t.data[k].state # "BLANK"}

(* How far a place is for the probe for a key.                             *)
Home(t, key) == Hash[key] % t.capacity
Far(t, key, k) == Steps(t.capacity, Home(t, key), k)

TableType(t, K, V) ==
  /\ t \in [data : [0 .. t.capacity - 1 -> Entry(K, V)], capacity : Nat, length : Nat]
  /\ t.capacity >= 4

(* There are blanks.                                                       *)
Room(t) == Cardinality(Used(t)) = t.length /\ H!SPARSITY * t.length <= t.capacity

(* A probe for the key of an entry or of a ghost meets it.                 *)
Reached(t) ==
  \A k \in Used(t) :
    \A d \in 0 .. Far(t, t.data[k].key, k) : H!Slot(t, t.data[k].key, d) \in Used(t)

(* ... and an entry before all else that has its key: these are ghosts.    *)
First(t) ==
  \A k \in H!Entries(t), j \in Used(t) :
    j # k /\ t.data[j].key = t.data[k].key
      => t.data[j].state = "DELETED" /\ Far(t, t.data[k].key, k) < Far(t, t.data[k].key, j)

TableInv(t, K, V) == TableType(t, K, V) /\ Room(t) /\ Reached(t) /\ First(t)

(* There is an entry of a key and a value.                                 *)
Has(t, key, v) == \E k \in H!Entries(t) : t.data[k].key = key /\ t.data[k].value = v

Absent(t, key) == \A k \in H!Entries(t) : t.data[k].key # key

LEMMA SlotFacts ==
  ASSUME NEW t, t.capacity \in Nat \ {0}, NEW key \in Keys
  PROVE  /\ Home(t, key) \in 0 .. t.capacity - 1
         /\ \A d \in 0 .. t.capacity - 1 :
              /\ H!Slot(t, key, d) = Place(t.capacity, Home(t, key), d)
              /\ H!Slot(t, key, d) \in 0 .. t.capacity - 1
              /\ Far(t, key, H!Slot(t, key, d)) = d
         /\ \A k \in 0 .. t.capacity - 1 :
              /\ Far(t, key, k) \in 0 .. t.capacity - 1
              /\ H!Slot(t, key, Far(t, key, k)) = k
<1>1. Hash[key] \in Nat
  BY HashAssumption DEF Keys
<1>2. Home(t, key) \in 0 .. t.capacity - 1
  <2>1. 0 \in 0 .. t.capacity - 1
    OBVIOUS
  <2> QED BY <1>1, <2>1, RemainderIsPlace DEF Home
<1>3. ASSUME NEW d \in 0 .. t.capacity - 1
      PROVE H!Slot(t, key, d) = Place(t.capacity, Home(t, key), d)
  BY <1>1, RemainderIsPlace DEF Home, H!Slot
<1>4. ASSUME NEW d \in 0 .. t.capacity - 1
      PROVE H!Slot(t, key, d) \in 0 .. t.capacity - 1 /\ Far(t, key, H!Slot(t, key, d)) = d
  BY <1>2, <1>3, PlaceOfSteps DEF Far
<1>5. ASSUME NEW k \in 0 .. t.capacity - 1
      PROVE Far(t, key, k) \in 0 .. t.capacity - 1 /\ H!Slot(t, key, Far(t, key, k)) = k
  BY <1>2, <1>3, StepsToPlace DEF Far
<1> QED BY <1>2, <1>3, <1>4, <1>5

LEMMA UsedFacts ==
  ASSUME NEW t, NEW K, NEW V, TableType(t, K, V)
  PROVE  /\ t.capacity \in Nat \ {0}
         /\ IsFiniteSet(Used(t))
         /\ IsFiniteSet(0 .. t.capacity - 1) /\ Cardinality(0 .. t.capacity - 1) = t.capacity
         /\ \A k \in Used(t) :
              /\ k \in 0 .. t.capacity - 1
              /\ t.data[k] \in [key : K, value : V, state : {"ACTIVE", "DELETED"}]
         /\ H!Entries(t) \subseteq Used(t)
         /\ \A k \in Used(t) : k \in H!Entries(t) <=> t.data[k].state = "ACTIVE"
         /\ \A k \in 0 .. t.capacity - 1 : k \notin Used(t) => t.data[k] = H!BLANK_ENTRY
<1>1. t.capacity \in Nat \ {0} /\ t.data \in [0 .. t.capacity - 1 -> Entry(K, V)]
  BY DEF TableType
<1>2. IsFiniteSet(0 .. t.capacity - 1) /\ Cardinality(0 .. t.capacity - 1) = t.capacity
  BY <1>1, FS_Interval
<1>3. Used(t) \subseteq 0 .. t.capacity - 1
  BY DEF Used
<1>4. IsFiniteSet(Used(t))
  BY <1>2, <1>3, FS_Subset
<1>5. ASSUME NEW k \in Used(t)
      PROVE t.data[k] \in [key : K, value : V, state : {"ACTIVE", "DELETED"}]
  BY <1>1, <1>3 DEF Entry, Used, H!BLANK_ENTRY
<1>6. H!Entries(t) \subseteq Used(t)
      /\ \A k \in Used(t) : k \in H!Entries(t) <=> t.data[k].state = "ACTIVE"
  BY DEF H!Entries, Used
<1>7. ASSUME NEW k \in 0 .. t.capacity - 1, k \notin Used(t) PROVE t.data[k] = H!BLANK_ENTRY
  <2>1. t.data[k] \in Entry(K, V) /\ t.data[k].state = "BLANK"
    BY <1>1, <1>7 DEF Used
  <2> QED BY <2>1 DEF Entry
<1> QED BY <1>1, <1>2, <1>3, <1>4, <1>5, <1>6, <1>7

(* A probe ends at a blank, and meets whatever has its key before.         *)
LEMMA ProbeEnds ==
  ASSUME NEW K \in SUBSET Keys, NEW V, NEW t, TableInv(t, K, V), NEW key \in Keys
  PROVE  /\ H!Blank(t, key) \in 0 .. t.capacity - 1
         /\ H!Slot(t, key, H!Blank(t, key)) \notin Used(t)
         /\ \A d \in 0 .. H!Blank(t, key) - 1 : H!Slot(t, key, d) \in Used(t)
         /\ \A k \in Used(t) : t.data[k].key = key => Far(t, key, k) < H!Blank(t, key)
<1> DEFINE c == t.capacity
           S == {d \in 0 .. c - 1 : t.data[H!Slot(t, key, d)].state = "BLANK"}
           b == H!Blank(t, key)
<1>1. TableType(t, K, V)
  BY DEF TableInv
<1>2. c \in Nat \ {0} /\ IsFiniteSet(Used(t)) /\ Used(t) \subseteq 0 .. c - 1
      /\ Cardinality(0 .. c - 1) = c
  BY <1>1, UsedFacts
<1>3. PICK k \in 0 .. c - 1 : k \notin Used(t)
  <2>1. Cardinality(Used(t)) # c
    BY <1>1, <1>2 DEF TableInv, Room, TableType, H!SPARSITY
  <2> QED BY <2>1, <1>2
<1>4. S # {}
  <2>1. Far(t, key, k) \in 0 .. c - 1 /\ H!Slot(t, key, Far(t, key, k)) = k
    BY <1>2, SlotFacts
  <2>2. t.data[k].state = "BLANK"
    BY <1>3 DEF Used
  <2> QED BY <2>1, <2>2
<1>5. S \in SUBSET Nat
  BY <1>2
<1>6. b \in S /\ \A e \in S : b <= e
  <2>1. b = H!Least(S)
    BY DEF H!Blank
  <2> HIDE DEF S, b
  <2> QED BY <2>1, <1>4, <1>5, LeastIs
<1>7. b \in 0 .. c - 1 /\ H!Slot(t, key, b) \notin Used(t)
  BY <1>6 DEF Used
<1>8. ASSUME NEW d \in 0 .. b - 1 PROVE H!Slot(t, key, d) \in Used(t)
  <2>1. d \in 0 .. c - 1 /\ ~(b <= d)
    BY <1>7, <1>2
  <2>2. d \notin S
    BY <2>1, <1>6
  <2>3. H!Slot(t, key, d) \in 0 .. c - 1
    BY <2>1, <1>2, SlotFacts
  <2> QED BY <2>1, <2>2, <2>3 DEF Used
<1>9. ASSUME NEW k2 \in Used(t), t.data[k2].key = key PROVE Far(t, key, k2) < b
  <2>1. \A d \in 0 .. Far(t, key, k2) : H!Slot(t, key, d) \in Used(t)
    BY <1>9 DEF TableInv, Reached
  <2>2. Far(t, key, k2) \in 0 .. c - 1
    BY <1>2, SlotFacts
  <2> HIDE DEF b, c
  <2>3. ~(b \in 0 .. Far(t, key, k2))
    BY <2>1, <1>7
  <2> QED BY <2>2, <2>3, <1>7, <1>2
<1> QED BY <1>7, <1>8, <1>9

-----------------------------------------------------------------------------
(* Looking up.                                                             *)

LEMMA FoundIs ==
  ASSUME NEW K \in SUBSET Keys, NEW V, NEW t, TableInv(t, K, V), NEW key \in Keys
  PROVE  /\ \A k \in H!Entries(t) : t.data[k].key = key => H!Found(t, key) = {Far(t, key, k)}
         /\ (\A k \in H!Entries(t) : t.data[k].key # key) => H!Found(t, key) = {}
<1> DEFINE c == t.capacity
           b == H!Blank(t, key)
<1>1. TableType(t, K, V)
  BY DEF TableInv
<1>2. /\ c \in Nat \ {0} /\ H!Entries(t) \subseteq Used(t)
      /\ \A k \in Used(t) : k \in 0 .. c - 1 /\ (k \in H!Entries(t) <=> t.data[k].state = "ACTIVE")
  BY <1>1, UsedFacts
<1>3. /\ b \in 0 .. c - 1
      /\ \A d \in 0 .. b - 1 : H!Slot(t, key, d) \in Used(t)
      /\ \A k \in Used(t) : t.data[k].key = key => Far(t, key, k) < b
  BY ProbeEnds
<1>4. H!Found(t, key) = {d \in 0 .. b - 1 : /\ t.data[H!Slot(t, key, d)].state = "ACTIVE"
                                           /\ t.data[H!Slot(t, key, d)].key = key}
  BY DEF H!Found, H!Met
<1> HIDE DEF c, b
<1>5. ASSUME NEW d \in H!Found(t, key)
      PROVE  /\ d \in 0 .. c - 1
             /\ H!Slot(t, key, d) \in H!Entries(t)
             /\ t.data[H!Slot(t, key, d)].key = key
             /\ Far(t, key, H!Slot(t, key, d)) = d
  <2>1. d \in 0 .. b - 1 /\ d \in 0 .. c - 1
    BY <1>2, <1>3, <1>4
  <2>2. Far(t, key, H!Slot(t, key, d)) = d
    BY <2>1, <1>2, SlotFacts DEF c
  <2> QED BY <2>1, <2>2, <1>2, <1>3, <1>4
<1>6. ASSUME NEW k \in H!Entries(t), t.data[k].key = key
      PROVE H!Found(t, key) = {Far(t, key, k)}
  <2>1. k \in Used(t) /\ k \in 0 .. c - 1 /\ t.data[k].state = "ACTIVE"
    BY <1>2
  <2>2. Far(t, key, k) \in 0 .. c - 1 /\ H!Slot(t, key, Far(t, key, k)) = k
    BY <2>1, <1>2, SlotFacts DEF c
  <2>3. Far(t, key, k) \in 0 .. b - 1
    BY <2>1, <2>2, <1>2, <1>3, <1>6
  <2>4. Far(t, key, k) \in H!Found(t, key)
    BY <2>1, <2>2, <2>3, <1>4, <1>6
  <2>5. ASSUME NEW d \in H!Found(t, key) PROVE d = Far(t, key, k)
    <3>1. H!Slot(t, key, d) \in Used(t) /\ t.data[H!Slot(t, key, d)].state = "ACTIVE"
      BY <1>2, <1>5
    <3>2. H!Slot(t, key, d) = k
      BY <3>1, <1>5, <1>6 DEF TableInv, First
    <3> QED BY <3>2, <1>5
  <2> QED BY <2>4, <2>5
<1> QED BY <1>5, <1>6

(* What fasthash_get() returns is the value of the entry of the key.       *)
Answers(t, V, key) ==
  /\ H!Lookup(t, key) = NULL <=> Absent(t, key)
  /\ H!Lookup(t, key) \in V \cup {NULL}
  /\ \A v \in V : H!Lookup(t, key) = v <=> Has(t, key, v)

LEMMA LookupIs ==
  ASSUME NEW K \in SUBSET Keys, NEW V, NULL \notin V, NEW t, TableInv(t, K, V), NEW key \in Keys
  PROVE  Answers(t, V, key)
<1>1. TableType(t, K, V)
  BY DEF TableInv
<1>2. /\ t.capacity \in Nat \ {0}
      /\ \A k \in H!Entries(t) : k \in 0 .. t.capacity - 1 /\ t.data[k].value \in V
  BY <1>1, UsedFacts
<1>3. ASSUME NEW k \in H!Entries(t), t.data[k].key = key
      PROVE H!Lookup(t, key) = t.data[k].value
  <2>1. H!Found(t, key) = {Far(t, key, k)}
    BY <1>3, FoundIs
  <2>2. Far(t, key, k) \in 0 .. t.capacity - 1 /\ H!Slot(t, key, Far(t, key, k)) = k
    BY <1>2, SlotFacts
  <2>3. H!Least(H!Found(t, key)) = Far(t, key, k)
    <3>1. H!Found(t, key) \in SUBSET Nat /\ H!Found(t, key) # {}
      BY <1>2, <2>1, <2>2
    <3> QED BY <3>1, <2>1, LeastIs
  <2> QED BY <2>1, <2>2, <2>3 DEF H!Lookup
<1>4. (\A k \in H!Entries(t) : t.data[k].key # key) => H!Lookup(t, key) = NULL
  BY FoundIs DEF H!Lookup
<1> QED BY <1>2, <1>3, <1>4 DEF Answers, Absent, Has

-----------------------------------------------------------------------------
(* What a look-up leaves.                                                  *)

Swapped(t, m, k) == [t EXCEPT !.data[m] = t.data[k], !.data[k] = t.data[m]]

LEMMA SwapIs ==
  ASSUME NEW K \in SUBSET Keys, NEW V, NEW t, TableInv(t, K, V), NEW key \in Keys
  PROVE  \/ H!Swap(t, key) = t
         \/ \E k \in H!Entries(t), m \in Used(t) :
              /\ t.data[k].key = key /\ t.data[m].state = "DELETED"
              /\ Far(t, key, m) < Far(t, key, k)
              /\ H!Swap(t, key) = Swapped(t, m, k)
<1> DEFINE d == H!Least(H!Found(t, key))
           ghosts == {e \in H!Met(t, key, "DELETED") : e < d}
           m == H!Slot(t, key, H!Least(ghosts))
<1>1. SUFFICES ASSUME H!Found(t, key) # {}, ghosts # {}
               PROVE \E k \in H!Entries(t), n \in Used(t) :
                       /\ t.data[k].key = key /\ t.data[n].state = "DELETED"
                       /\ Far(t, key, n) < Far(t, key, k)
                       /\ H!Swap(t, key) = Swapped(t, n, k)
  BY DEF H!Swap
<1>2. TableType(t, K, V)
  BY DEF TableInv
<1>3. t.capacity \in Nat \ {0} /\ \A k \in H!Entries(t) : k \in 0 .. t.capacity - 1
  BY <1>2, UsedFacts
<1>4. PICK k \in H!Entries(t) : t.data[k].key = key /\ H!Found(t, key) = {Far(t, key, k)}
  BY <1>1, FoundIs
<1>5. Far(t, key, k) \in 0 .. t.capacity - 1 /\ H!Slot(t, key, Far(t, key, k)) = k
  BY <1>3, SlotFacts
<1>6. d = Far(t, key, k)
  <2>1. H!Found(t, key) \in SUBSET Nat
    BY <1>3, <1>4, <1>5
  <2> QED BY <2>1, <1>1, <1>4, LeastIs
<1>7. H!Swap(t, key) = Swapped(t, m, k)
  <2>1. H!Slot(t, key, d) = k
    BY <1>5, <1>6
  <2>2. H!Swap(t, key) = [t EXCEPT !.data[m] = t.data[H!Slot(t, key, d)],
                                   !.data[H!Slot(t, key, d)] = t.data[m]]
    BY <1>1 DEF H!Swap
  <2> HIDE DEF d, m
  <2> QED BY <2>1, <2>2 DEF Swapped
<1>8. /\ H!Blank(t, key) \in 0 .. t.capacity - 1
      /\ \A e \in 0 .. H!Blank(t, key) - 1 : H!Slot(t, key, e) \in Used(t)
  BY ProbeEnds
<1>9. H!Least(ghosts) \in ghosts
  <2>1. ghosts \in SUBSET Nat
    BY <1>3, <1>8 DEF H!Met
  <2> HIDE DEF ghosts
  <2> QED BY <2>1, <1>1, LeastIs
<1>10. PICK e \in 0 .. H!Blank(t, key) - 1 :
         e = H!Least(ghosts) /\ e < d /\ t.data[H!Slot(t, key, e)].state = "DELETED"
  BY <1>9 DEF H!Met
<1> HIDE DEF d, ghosts
<1>11. m \in Used(t) /\ t.data[m].state = "DELETED"
  BY <1>8, <1>10
<1>12. Far(t, key, m) = e
  <2>1. e \in 0 .. t.capacity - 1
    BY <1>3, <1>8
  <2> QED BY <2>1, <1>3, <1>10, SlotFacts
<1> HIDE DEF m
<1> QED BY <1>4, <1>6, <1>7, <1>10, <1>11, <1>12

(* Places on a circle.                                                     *)
LEMMA Between ==
  ASSUME NEW c \in Nat, NEW g \in 0 .. c - 1, NEW h \in 0 .. c - 1, NEW m \in 0 .. c - 1,
         NEW k \in 0 .. c - 1, NEW x \in 0 .. c - 1,
         Steps(c, h, m) < Steps(c, h, k), Steps(c, g, x) <= Steps(c, g, k)
  PROVE  Steps(c, g, x) <= Steps(c, g, m) \/ Steps(c, h, x) <= Steps(c, h, k)
BY DEF Steps

LEMMA Around ==
  ASSUME NEW c \in Nat, NEW g \in 0 .. c - 1, NEW h \in 0 .. c - 1, NEW m \in 0 .. c - 1,
         NEW k \in 0 .. c - 1, NEW x \in 0 .. c - 1, NEW y \in 0 .. c - 1,
         Steps(c, h, m) < Steps(c, h, k), Steps(c, h, k) < Steps(c, h, y),
         Steps(c, g, x) < Steps(c, g, m), Steps(c, g, m) < Steps(c, g, y)
  PROVE  Steps(c, g, x) < Steps(c, g, k)
BY DEF Steps

(* Places are those of another table of the same size.                     *)
LEMMA SamePlaces ==
  ASSUME NEW t, NEW u, u.capacity = t.capacity
  PROVE  \A key, k : Far(u, key, k) = Far(t, key, k) /\ H!Slot(u, key, k) = H!Slot(t, key, k)
BY DEF Far, Home, H!Slot

(* A blank is farther than what has the key.                               *)
LEMMA BlankIsFarther ==
  ASSUME NEW K \in SUBSET Keys, NEW V, NEW t, TableInv(t, K, V),
         NEW y \in 0 .. t.capacity - 1, y \notin Used(t), NEW k \in Used(t)
  PROVE  Far(t, t.data[k].key, k) < Far(t, t.data[k].key, y)
<1> DEFINE key == t.data[k].key
<1>1. TableType(t, K, V) /\ Reached(t)
  BY DEF TableInv
<1>2. t.capacity \in Nat \ {0} /\ k \in 0 .. t.capacity - 1 /\ key \in Keys
  BY <1>1, UsedFacts
<1>3. \A d \in 0 .. Far(t, key, k) : H!Slot(t, key, d) \in Used(t)
  BY <1>1 DEF Reached
<1> HIDE DEF key
<1>4. /\ Far(t, key, y) \in 0 .. t.capacity - 1 /\ H!Slot(t, key, Far(t, key, y)) = y
      /\ Far(t, key, k) \in 0 .. t.capacity - 1
  BY <1>2, SlotFacts
<1>5. Far(t, key, y) \notin 0 .. Far(t, key, k)
  BY <1>3, <1>4
<1>6. Far(t, key, k) < Far(t, key, y)
  BY <1>2, <1>4, <1>5
<1> QED BY <1>6 DEF key

LEMMA ABlank ==
  ASSUME NEW K, NEW V, NEW t, TableInv(t, K, V)
  PROVE  \E y \in 0 .. t.capacity - 1 : y \notin Used(t)
<1>1. TableType(t, K, V)
  BY DEF TableInv
<1>2. /\ IsFiniteSet(Used(t)) /\ Used(t) \subseteq 0 .. t.capacity - 1
      /\ Cardinality(0 .. t.capacity - 1) = t.capacity
  BY <1>1, UsedFacts
<1>3. Cardinality(Used(t)) # t.capacity
  BY <1>1, <1>2 DEF TableInv, Room, TableType, H!SPARSITY
<1> QED BY <1>2, <1>3

LEMMA SwappedKeeps ==
  ASSUME NEW K \in SUBSET Keys, NEW V, NEW t, TableInv(t, K, V),
         NEW k \in H!Entries(t), NEW m \in Used(t), t.data[m].state = "DELETED",
         Far(t, t.data[k].key, m) < Far(t, t.data[k].key, k)
  PROVE  LET u == Swapped(t, m, k)
         IN  /\ TableInv(u, K, V) /\ u.capacity = t.capacity /\ u.length = t.length
             /\ \A q, v : Has(u, q, v) <=> Has(t, q, v)
<1> DEFINE c == t.capacity
           u == Swapped(t, m, k)
           key == t.data[k].key
           g == t.data[m].key
<1>1. TableType(t, K, V) /\ Room(t) /\ Reached(t) /\ First(t)
  BY DEF TableInv
<1>2. /\ c \in Nat \ {0} /\ k \in Used(t)
      /\ t.data \in [0 .. c - 1 -> Entry(K, V)]
      /\ Used(t) \subseteq 0 .. c - 1
      /\ \A j \in Used(t) : /\ t.data[j].key \in Keys
                            /\ j \in H!Entries(t) <=> t.data[j].state = "ACTIVE"
      /\ H!Entries(t) \subseteq Used(t)
  BY <1>1, UsedFacts DEF TableType
<1>3. k # m /\ m \notin H!Entries(t) /\ k \in 0 .. c - 1 /\ m \in 0 .. c - 1
      /\ t.data[k].state = "ACTIVE"
  BY <1>2
<1>4. /\ u.capacity = c /\ u.length = t.length
      /\ u.data = [t.data EXCEPT ![m] = t.data[k], ![k] = t.data[m]]
      /\ u \in [data : [0 .. c - 1 -> Entry(K, V)], capacity : Nat, length : Nat]
  <2>1. t \in [data : [0 .. c - 1 -> Entry(K, V)], capacity : Nat, length : Nat]
    BY <1>1 DEF TableType
  <2>2. t.data[k] \in Entry(K, V) /\ t.data[m] \in Entry(K, V)
    BY <1>2, <1>3
  <2> DEFINE e == t.data[k]  f == t.data[m]
  <2>3. u = [t EXCEPT !.data[m] = e, !.data[k] = f]
    BY DEF Swapped
  <2> HIDE DEF c, e, f, u
  <2>4. u.capacity = t.capacity /\ u.length = t.length
    BY <2>1, <2>3
  <2>5. u.data = [t.data EXCEPT ![m] = e, ![k] = f]
    BY <2>1, <2>3
  <2>6. [t.data EXCEPT ![m] = e, ![k] = f] \in [0 .. c - 1 -> Entry(K, V)]
    BY <2>2, <1>2 DEF e, f
  <2>7. u \in [data : [0 .. c - 1 -> Entry(K, V)], capacity : Nat, length : Nat]
    BY <2>1, <2>3, <2>5, <2>6
  <2> QED BY <2>4, <2>5, <2>7 DEF e, f, c
<1>5. /\ u.data[m] = t.data[k] /\ u.data[k] = t.data[m]
      /\ \A j \in 0 .. c - 1 : j # k /\ j # m => u.data[j] = t.data[j]
  BY <1>2, <1>3, <1>4
<1>6. TableType(u, K, V)
  BY <1>1, <1>4 DEF TableType
<1> HIDE DEF u, c
<1>7. Used(u) = Used(t)
  BY <1>2, <1>3, <1>4, <1>5 DEF Used, c
<1>8. H!Entries(u) = (H!Entries(t) \ {k}) \cup {m}
  <2>1. H!Entries(u) = {j \in 0 .. c - 1 : u.data[j].state = "ACTIVE"}
    BY <1>4 DEF H!Entries
  <2>2. H!Entries(t) = {j \in 0 .. c - 1 : t.data[j].state = "ACTIVE"}
    BY DEF H!Entries, c
  <2> QED BY <2>1, <2>2, <1>3, <1>5
<1>9. Room(u)
  BY <1>1, <1>4, <1>7 DEF Room, c
<1>10. \A q, x : Far(u, q, x) = Far(t, q, x) /\ H!Slot(u, q, x) = H!Slot(t, q, x)
  BY <1>4, SamePlaces DEF c
<1>11. ASSUME NEW q, NEW v PROVE Has(u, q, v) <=> Has(t, q, v)
  BY <1>2, <1>3, <1>5, <1>8 DEF Has
<1>12. /\ key \in Keys /\ g \in Keys
       /\ Home(t, key) \in 0 .. c - 1 /\ Home(t, g) \in 0 .. c - 1
       /\ \A j \in 0 .. c - 1 :
            /\ Far(t, key, j) \in 0 .. c - 1 /\ H!Slot(t, key, Far(t, key, j)) = j
            /\ Far(t, g, j) \in 0 .. c - 1 /\ H!Slot(t, g, Far(t, g, j)) = j
       /\ \A d \in 0 .. c - 1 : /\ H!Slot(t, g, d) \in 0 .. c - 1
                                /\ Far(t, g, H!Slot(t, g, d)) = d
  BY <1>2, SlotFacts DEF c
<1> HIDE DEF key, g
<1>13. /\ \A d \in 0 .. Far(t, key, k) : H!Slot(t, key, d) \in Used(t)
       /\ \A d \in 0 .. Far(t, g, m) : H!Slot(t, g, d) \in Used(t)
       /\ Far(t, key, m) < Far(t, key, k)
  BY <1>1, <1>2 DEF Reached, key, g
<1>14. ASSUME NEW x \in Used(u), NEW d \in 0 .. Far(t, u.data[x].key, x)
       PROVE H!Slot(t, u.data[x].key, d) \in Used(t)
  <2>1. CASE x = m
    <3>1. u.data[x].key = key /\ d \in 0 .. Far(t, key, k)
      BY <2>1, <1>3, <1>5, <1>12, <1>13, <1>14, <1>2 DEF key
    <3> QED BY <3>1, <1>13
  <2>2. CASE x = k
    <3>1. u.data[x].key = g /\ d \in 0 .. c - 1
      BY <2>2, <1>2, <1>3, <1>5, <1>12, <1>14 DEF g
    <3>2. PICK y \in 0 .. c - 1 : y = H!Slot(t, g, d) /\ Far(t, g, y) = d
      BY <3>1, <1>12
    <3>3. Far(t, g, y) <= Far(t, g, k)
      BY <2>2, <3>1, <3>2, <1>2, <1>3, <1>12
    <3>4. Far(t, g, y) <= Far(t, g, m) \/ Far(t, key, y) <= Far(t, key, k)
      BY <3>3, <1>2, <1>3, <1>12, <1>13, Between DEF Far, c
    <3>5. CASE Far(t, g, y) <= Far(t, g, m)
      <4>1. d \in 0 .. Far(t, g, m)
        BY <3>1, <3>2, <3>5, <1>2, <1>3, <1>12
      <4> QED BY <4>1, <3>1, <1>13
    <3>6. CASE Far(t, key, y) <= Far(t, key, k)
      <4>1. Far(t, key, y) \in 0 .. Far(t, key, k)
        BY <3>6, <1>2, <1>3, <1>12
      <4>2. H!Slot(t, key, Far(t, key, y)) = y
        BY <1>12
      <4> QED BY <4>1, <4>2, <3>1, <3>2, <1>13
    <3> QED BY <3>4, <3>5, <3>6
  <2>3. CASE x # m /\ x # k
    <3>1. x \in Used(t) /\ u.data[x] = t.data[x]
      BY <2>3, <1>2, <1>5, <1>7
    <3> QED BY <3>1, <1>1, <1>14 DEF Reached
  <2> QED BY <2>1, <2>2, <2>3
<1>15. Reached(u)
  BY <1>7, <1>10, <1>14 DEF Reached
<1>16. ASSUME NEW x \in H!Entries(u), NEW j \in Used(u), j # x, u.data[j].key = u.data[x].key
       PROVE u.data[j].state = "DELETED" /\ Far(t, u.data[x].key, x) < Far(t, u.data[x].key, j)
  <2>1. CASE x = m
    <3>1. u.data[x].key = key
      BY <2>1, <1>5 DEF key
    <3>2. j # k
      <4>1. SUFFICES ASSUME j = k PROVE FALSE
        OBVIOUS
      <4>2. t.data[m].key = t.data[k].key
        BY <4>1, <3>1, <1>5, <1>16 DEF key
      <4>3. Far(t, key, k) < Far(t, key, m)
        BY <4>2, <1>1, <1>3 DEF First, key
      <4>4. PICK x1 \in 0 .. c - 1, x2 \in 0 .. c - 1 : x1 = Far(t, key, k) /\ x2 = Far(t, key, m)
        BY <1>3, <1>12
      <4>5. x1 < x2 /\ x2 < x1
        BY <4>3, <4>4, <1>13
      <4> QED BY <4>5, <1>2
    <3>3. j \in Used(t) /\ u.data[j] = t.data[j]
      BY <2>1, <3>2, <1>2, <1>5, <1>7, <1>16
    <3>4. t.data[j].state = "DELETED" /\ Far(t, key, k) < Far(t, key, j)
      BY <3>1, <3>2, <3>3, <1>1, <1>16 DEF First, key
    <3>5. Far(t, key, m) < Far(t, key, j)
      <4>1. Far(t, key, m) \in Int /\ Far(t, key, k) \in Int /\ Far(t, key, j) \in Int
        BY <3>3, <1>2, <1>3, <1>12
      <4> QED BY <4>1, <3>4, <1>13
    <3> QED BY <2>1, <3>1, <3>3, <3>4, <3>5
  <2>2. CASE x # m
    <3>1. x # k /\ x \in H!Entries(t) /\ u.data[x] = t.data[x] /\ x \in 0 .. c - 1
      BY <2>2, <1>2, <1>5, <1>8
    <3>2. CASE j = m
      <4>1. u.data[j] = t.data[k] /\ t.data[k].key = t.data[x].key
        BY <3>1, <3>2, <1>5, <1>16
      <4>2. t.data[k].state = "DELETED"
        BY <3>1, <4>1, <1>1, <1>2 DEF First
      <4> QED BY <4>2, <1>3
    <3>3. CASE j = k
      <4>1. u.data[j] = t.data[m] /\ t.data[x].key = g /\ u.data[x].key = g
        BY <3>1, <3>3, <1>5, <1>16 DEF g
      <4>2. Far(t, g, x) < Far(t, g, m)
        BY <2>2, <3>1, <4>1, <1>1 DEF First, g
      <4>3. PICK y \in 0 .. c - 1 : y \notin Used(t)
        BY ABlank DEF c
      <4>4. Far(t, key, k) < Far(t, key, y) /\ Far(t, g, m) < Far(t, g, y)
        BY <4>3, <1>2, BlankIsFarther DEF c, key, g
      <4>5. Far(t, g, x) < Far(t, g, k)
        BY <3>1, <4>2, <4>4, <1>2, <1>3, <1>12, <1>13, Around DEF Far, c
      <4> QED BY <3>3, <4>1, <4>5
    <3>4. CASE j # m /\ j # k
      <4>1. j \in Used(t) /\ u.data[j] = t.data[j]
        BY <3>4, <1>2, <1>5, <1>7
      <4> QED BY <3>1, <4>1, <1>1, <1>16 DEF First
    <3> QED BY <3>2, <3>3, <3>4
  <2> QED BY <2>1, <2>2
<1>17. First(u)
  BY <1>7, <1>10, <1>16 DEF First
<1>18. TableInv(u, K, V)
  BY <1>6, <1>9, <1>15, <1>17 DEF TableInv
<1> QED BY <1>4, <1>11, <1>18 DEF u, c

(* A look-up leaves the same entries.                                      *)
LEMMA SwapKeeps ==
  ASSUME NEW K \in SUBSET Keys, NEW V, NEW t, TableInv(t, K, V), NEW key \in Keys
  PROVE  /\ TableInv(H!Swap(t, key), K, V)
         /\ \A q, v : Has(H!Swap(t, key), q, v) <=> Has(t, q, v)
<1>1. CASE H!Swap(t, key) = t
  BY <1>1
<1>2. CASE H!Swap(t, key) # t
  <2>1. PICK k \in H!Entries(t), m \in Used(t) :
          /\ t.data[k].key = key /\ t.data[m].state = "DELETED"
          /\ Far(t, key, m) < Far(t, key, k)
          /\ H!Swap(t, key) = Swapped(t, m, k)
    BY <1>2, SwapIs
  <2>2. /\ TableInv(Swapped(t, m, k), K, V)
        /\ \A q, v : Has(Swapped(t, m, k), q, v) <=> Has(t, q, v)
    BY <2>1, SwappedKeeps
  <2> QED BY <2>1, <2>2
<1> QED BY <1>1, <1>2

-----------------------------------------------------------------------------
(* Putting.                                                                *)

Written(t, k, e, n) == [t EXCEPT !.data[k] = e, !.length = n]

Active(key, v) == [key |-> key, value |-> v, state |-> "ACTIVE"]

(* A key that has no entry gets the first place where there is none.       *)
LEMMA InsertIs ==
  ASSUME NEW K \in SUBSET Keys, NEW V, NEW t, TableInv(t, K, V), NEW key \in Keys, NEW v,
         \A k \in H!Entries(t) : t.data[k].key # key
  PROVE  \E k \in 0 .. t.capacity - 1 :
           /\ H!Insert(t, key, v) =
                Written(t, k, Active(key, v), IF k \in Used(t) THEN t.length ELSE t.length + 1)
           /\ k \notin H!Entries(t)
           /\ \A d \in 0 .. Far(t, key, k) - 1 : H!Slot(t, key, d) \in Used(t)
           /\ \A j \in Used(t) \ {k} : t.data[j].key = key => Far(t, key, k) < Far(t, key, j)
<1> DEFINE c == t.capacity
           b == H!Blank(t, key)
           S == H!Met(t, key, "DELETED") \cup H!Found(t, key) \cup {b}
           d == H!Least(S)
           k == H!Slot(t, key, d)
<1>1. TableType(t, K, V)
  BY DEF TableInv
<1>2. /\ c \in Nat \ {0} /\ t.length \in Nat
      /\ \A j \in Used(t) : /\ j \in 0 .. c - 1
                            /\ j \in H!Entries(t) <=> t.data[j].state = "ACTIVE"
                            /\ t.data[j].state \in {"ACTIVE", "DELETED"}
      /\ H!Entries(t) \subseteq Used(t)
  BY <1>1, UsedFacts DEF TableType
<1>3. /\ b \in 0 .. c - 1
      /\ H!Slot(t, key, b) \notin Used(t)
      /\ \A e \in 0 .. b - 1 : H!Slot(t, key, e) \in Used(t)
      /\ \A j \in Used(t) : t.data[j].key = key => Far(t, key, j) < b
  BY ProbeEnds
<1>4. S = {e \in 0 .. b - 1 : t.data[H!Slot(t, key, e)].state = "DELETED"} \cup {b}
  BY FoundIs DEF H!Met
<1>5. d \in S /\ \A e \in S : d <= e
  <2>1. S \in SUBSET Nat /\ S # {}
    BY <1>2, <1>3, <1>4
  <2> HIDE DEF S
  <2> QED BY <2>1, LeastIs
<1>6. H!Insert(t, key, v) =
        Written(t, k, Active(key, v), t.length + (IF d = b THEN 1 ELSE 0))
  <2>1. H!Insert(t, key, v) = [t EXCEPT !.data[k] = Active(key, v),
                                        !.length = t.length + (IF d = b THEN 1 ELSE 0)]
    <3>1. t \in [data : [0 .. c - 1 -> Entry(K, V)], capacity : Nat, length : Nat]
      BY <1>1 DEF TableType
    <3>2. H!Insert(t, key, v) = [t EXCEPT !.data[k] = Active(key, v),
                                          !.length = @ + (IF d = b THEN 1 ELSE 0)]
      BY DEF H!Insert, Active
    <3> HIDE DEF d, k, b, c, S
    <3> QED BY <3>1, <3>2
  <2> QED BY <2>1 DEF Written
<1>7. d \in 0 .. b /\ d \in 0 .. c - 1
  <2> HIDE DEF d
  <2> QED BY <1>2, <1>3, <1>4, <1>5
<1> HIDE DEF S, d, b, c
<1>8. k \in 0 .. c - 1 /\ Far(t, key, k) = d
  BY <1>2, <1>7, SlotFacts DEF c
<1>9. d = b <=> k \notin Used(t)
  <2>1. CASE d = b
    BY <2>1, <1>3
  <2>2. CASE d # b
    <3>1. d \in 0 .. b - 1
      BY <2>2, <1>2, <1>3, <1>7
    <3> QED BY <2>2, <3>1, <1>3
  <2> QED BY <2>1, <2>2
<1>10. k \notin H!Entries(t)
  <2>1. CASE d = b
    BY <2>1, <1>2, <1>9
  <2>2. CASE d # b
    <3>1. t.data[k].state = "DELETED"
      BY <2>2, <1>4, <1>5
    <3> QED BY <3>1, <1>2
  <2> QED BY <2>1, <2>2
<1>11. \A e \in 0 .. d - 1 : H!Slot(t, key, e) \in Used(t)
  BY <1>2, <1>3, <1>7
<1>12. ASSUME NEW j \in Used(t), j # k, t.data[j].key = key PROVE d < Far(t, key, j)
  <2>1. /\ Far(t, key, j) < b /\ Far(t, key, j) \in 0 .. c - 1
        /\ H!Slot(t, key, Far(t, key, j)) = j
    BY <1>2, <1>3, <1>12, SlotFacts DEF c
  <2>2. t.data[j].state = "DELETED"
    BY <1>2, <1>12
  <2>3. Far(t, key, j) \in 0 .. b - 1
    BY <2>1, <1>2, <1>3
  <2>4. Far(t, key, j) \in S
    BY <2>1, <2>2, <2>3, <1>4
  <2>5. d <= Far(t, key, j) /\ d # Far(t, key, j)
    BY <2>1, <2>4, <1>5, <1>12
  <2> QED BY <2>1, <2>5, <1>2, <1>7
<1>13. t.length + (IF d = b THEN 1 ELSE 0) = IF k \in Used(t) THEN t.length ELSE t.length + 1
  BY <1>2, <1>9
<1> HIDE DEF k
<1>14. H!Insert(t, key, v) =
         Written(t, k, Active(key, v), IF k \in Used(t) THEN t.length ELSE t.length + 1)
  BY <1>6, <1>13
<1> QED BY <1>8, <1>10, <1>11, <1>12, <1>14 DEF c

(* There is room for one more.                                             *)
Spare(t) == H!SPARSITY * (t.length + 1) <= t.capacity

(* What there was, and an entry of a key and a value.                      *)
HasAlso(t, u, key, v) == \A q, w : Has(u, q, w) <=> Has(t, q, w) \/ (q = key /\ w = v)

LEMMA InsertKeeps ==
  ASSUME NEW K \in SUBSET Keys, NEW V, NEW t, TableInv(t, K, V), NEW key \in K, NEW v \in V,
         Absent(t, key), Spare(t)
  PROVE  LET u == H!Insert(t, key, v)
         IN  /\ TableInv(u, K, V)
             /\ u.capacity = t.capacity /\ u.length \in {t.length, t.length + 1}
             /\ HasAlso(t, u, key, v)
<1> DEFINE c == t.capacity
           u == H!Insert(t, key, v)
<1>1. TableType(t, K, V) /\ Room(t) /\ Reached(t) /\ First(t)
  BY DEF TableInv
<1>2. /\ c \in Nat \ {0} /\ t.length \in Nat
      /\ t.data \in [0 .. c - 1 -> Entry(K, V)]
      /\ Used(t) \subseteq 0 .. c - 1 /\ IsFiniteSet(Used(t))
      /\ \A j \in Used(t) : /\ t.data[j].key \in Keys
                            /\ j \in H!Entries(t) <=> t.data[j].state = "ACTIVE"
                            /\ t.data[j].state \in {"ACTIVE", "DELETED"}
      /\ H!Entries(t) \subseteq Used(t)
  BY <1>1, UsedFacts DEF TableType
<1>3. key \in Keys /\ \A k \in H!Entries(t) : t.data[k].key # key
  BY DEF Absent
<1>4. PICK k \in 0 .. c - 1 :
        /\ u = Written(t, k, Active(key, v), IF k \in Used(t) THEN t.length ELSE t.length + 1)
        /\ k \notin H!Entries(t)
        /\ \A d \in 0 .. Far(t, key, k) - 1 : H!Slot(t, key, d) \in Used(t)
        /\ \A j \in Used(t) \ {k} : t.data[j].key = key => Far(t, key, k) < Far(t, key, j)
  BY <1>3, InsertIs
<1> DEFINE n == IF k \in Used(t) THEN t.length ELSE t.length + 1
<1>5. n \in Nat /\ n \in {t.length, t.length + 1} /\ H!SPARSITY * n <= c
  BY <1>1, <1>2 DEF Room, Spare, H!SPARSITY, c
<1> HIDE DEF u, c
<1>6. /\ u.capacity = c /\ u.length = n
      /\ u.data = [t.data EXCEPT ![k] = Active(key, v)]
      /\ u \in [data : [0 .. c - 1 -> Entry(K, V)], capacity : Nat, length : Nat]
  <2>1. t \in [data : [0 .. c - 1 -> Entry(K, V)], capacity : Nat, length : Nat]
    BY <1>1 DEF TableType, c
  <2>2. Active(key, v) \in Entry(K, V)
    BY DEF Active, Entry
  <2>3. u = Written(t, k, Active(key, v), n)
    BY <1>4
  <2> HIDE DEF n
  <2>4. u = [t EXCEPT !.data[k] = Active(key, v), !.length = n]
    BY <2>3 DEF Written
  <2>5. u.capacity = c /\ u.length = n
    BY <2>1, <2>4 DEF c
  <2>6. u.data = [t.data EXCEPT ![k] = Active(key, v)]
    BY <2>1, <2>4
  <2>7. [t.data EXCEPT ![k] = Active(key, v)] \in [0 .. c - 1 -> Entry(K, V)]
    BY <2>2, <1>2
  <2>8. u \in [data : [0 .. c - 1 -> Entry(K, V)], capacity : Nat, length : Nat]
    BY <2>1, <2>4, <2>6, <2>7, <1>5
  <2> QED BY <2>5, <2>6, <2>8
<1>7. /\ u.data[k] = Active(key, v)
      /\ \A j \in 0 .. c - 1 : j # k => u.data[j] = t.data[j]
  BY <1>2, <1>6
<1>8. u.data[k].key = key /\ u.data[k].value = v /\ u.data[k].state = "ACTIVE"
  BY <1>7 DEF Active
<1>9. TableType(u, K, V)
  BY <1>1, <1>6 DEF TableType, c
<1>10. Used(u) = Used(t) \cup {k}
  BY <1>2, <1>6, <1>7, <1>8 DEF Used, c
<1>11. H!Entries(u) = H!Entries(t) \cup {k}
  <2>1. H!Entries(u) = {j \in 0 .. c - 1 : u.data[j].state = "ACTIVE"}
    BY <1>6 DEF H!Entries
  <2>2. H!Entries(t) = {j \in 0 .. c - 1 : t.data[j].state = "ACTIVE"}
    BY DEF H!Entries, c
  <2> QED BY <2>1, <2>2, <1>7, <1>8
<1>12. Room(u)
  <2>1. Cardinality(Used(u)) = n
    <3>1. CASE k \in Used(t)
      BY <3>1, <1>1, <1>10 DEF Room
    <3>2. CASE k \notin Used(t)
      <4>1. Cardinality(Used(t) \cup {k}) = Cardinality(Used(t)) + 1
        BY <3>2, <1>2, FS_AddElement
      <4>2. Cardinality(Used(t)) = t.length
        BY <1>1 DEF Room
      <4> QED BY <3>2, <4>1, <4>2, <1>10
    <3> QED BY <3>1, <3>2
  <2> QED BY <2>1, <1>5, <1>6 DEF Room
<1> HIDE DEF n
<1>13. \A q, x : Far(u, q, x) = Far(t, q, x) /\ H!Slot(u, q, x) = H!Slot(t, q, x)
  BY <1>6, SamePlaces DEF c
<1>14. ASSUME NEW q, NEW w PROVE Has(u, q, w) <=> Has(t, q, w) \/ (q = key /\ w = v)
  BY <1>2, <1>4, <1>7, <1>8, <1>11 DEF Has
<1>15. /\ Far(t, key, k) \in 0 .. c - 1 /\ H!Slot(t, key, Far(t, key, k)) = k
  BY <1>2, <1>3, SlotFacts DEF c
<1>16. ASSUME NEW x \in Used(u), NEW d \in 0 .. Far(t, u.data[x].key, x)
       PROVE H!Slot(t, u.data[x].key, d) \in Used(u)
  <2>1. CASE x = k
    <3>1. d = Far(t, key, k) \/ d \in 0 .. Far(t, key, k) - 1
      BY <2>1, <1>2, <1>8, <1>15, <1>16
    <3> QED BY <2>1, <3>1, <1>4, <1>8, <1>10, <1>15
  <2>2. CASE x # k
    <3>1. x \in Used(t) /\ u.data[x] = t.data[x]
      BY <2>2, <1>2, <1>7, <1>10
    <3> QED BY <3>1, <1>1, <1>10, <1>16 DEF Reached
  <2> QED BY <2>1, <2>2
<1>17. Reached(u)
  BY <1>13, <1>16 DEF Reached
<1>18. ASSUME NEW x \in H!Entries(u), NEW j \in Used(u), j # x, u.data[j].key = u.data[x].key
       PROVE u.data[j].state = "DELETED" /\ Far(t, u.data[x].key, x) < Far(t, u.data[x].key, j)
  <2>1. CASE x = k
    <3>1. j \in Used(t) /\ j # k /\ u.data[j] = t.data[j] /\ t.data[j].key = key
      BY <2>1, <1>2, <1>7, <1>8, <1>10, <1>18
    <3>2. j \notin H!Entries(t)
      BY <3>1, <1>3
    <3> QED BY <2>1, <3>1, <3>2, <1>2, <1>4, <1>8
  <2>2. CASE x # k
    <3>1. x \in H!Entries(t) /\ u.data[x] = t.data[x]
      BY <2>2, <1>2, <1>7, <1>11
    <3>2. j # k
      BY <3>1, <1>3, <1>8, <1>18
    <3>3. j \in Used(t) /\ u.data[j] = t.data[j]
      BY <3>2, <1>2, <1>7, <1>10
    <3> QED BY <3>1, <3>3, <1>1, <1>18 DEF First
  <2> QED BY <2>1, <2>2
<1>19. First(u)
  BY <1>13, <1>18 DEF First
<1>20. TableInv(u, K, V)
  BY <1>9, <1>12, <1>17, <1>19 DEF TableInv
<1>21. u.length \in {t.length, t.length + 1}
  BY <1>5, <1>6
<1> QED BY <1>6, <1>14, <1>20, <1>21 DEF u, c, HasAlso

-----------------------------------------------------------------------------
(* Changing values, and deleting.                                          *)

(* Some entries become ghosts, at most.                                    *)
LEMMA FewerEntries ==
  ASSUME NEW K \in SUBSET Keys, NEW V, NEW t, NEW u, TableInv(t, K, V), TableType(u, K, V),
         u.capacity = t.capacity, u.length = t.length, Used(u) = Used(t),
         \A k \in Used(t) : /\ u.data[k].key = t.data[k].key
                            /\ u.data[k].state \in {t.data[k].state, "DELETED"}
  PROVE  TableInv(u, K, V)
<1>1. Room(t) /\ Reached(t) /\ First(t) /\ TableType(t, K, V)
  BY DEF TableInv
<1>2. Room(u)
  BY <1>1 DEF Room
<1>3. \A q, x : Far(u, q, x) = Far(t, q, x) /\ H!Slot(u, q, x) = H!Slot(t, q, x)
  BY SamePlaces
<1>4. Reached(u)
  BY <1>1, <1>3 DEF Reached
<1>5. H!Entries(u) \subseteq H!Entries(t) /\ H!Entries(t) \subseteq Used(t)
  BY <1>1 DEF H!Entries, Used
<1>6. First(u)
  BY <1>1, <1>3, <1>5 DEF First
<1> QED BY <1>2, <1>4, <1>6 DEF TableInv

Deleted(t, k) == [t EXCEPT !.data[k].state = "DELETED"]

LEMMA DeleteIs ==
  ASSUME NEW K \in SUBSET Keys, NEW V, NEW t, TableInv(t, K, V), NEW key \in Keys
  PROVE  /\ \A k \in H!Entries(t) : t.data[k].key = key => H!Delete(t, key) = Deleted(t, k)
         /\ (\A k \in H!Entries(t) : t.data[k].key # key) => H!Delete(t, key) = t
<1> DEFINE c == t.capacity
           b == H!Blank(t, key)
           met == {d \in 0 .. b - 1 : t.data[H!Slot(t, key, d)].key = key}
<1>1. TableType(t, K, V)
  BY DEF TableInv
<1>2. /\ c \in Nat \ {0}
      /\ \A j \in Used(t) : /\ j \in 0 .. c - 1
                            /\ j \in H!Entries(t) <=> t.data[j].state = "ACTIVE"
      /\ H!Entries(t) \subseteq Used(t)
  BY <1>1, UsedFacts DEF TableType
<1>3. /\ b \in 0 .. c - 1
      /\ \A e \in 0 .. b - 1 : H!Slot(t, key, e) \in Used(t)
      /\ \A j \in Used(t) : t.data[j].key = key => Far(t, key, j) < b
  BY ProbeEnds
<1>4. H!Delete(t, key) = IF met # {} /\ t.data[H!Slot(t, key, H!Least(met))].state = "ACTIVE"
                           THEN Deleted(t, H!Slot(t, key, H!Least(met))) ELSE t
  BY DEF H!Delete, Deleted
<1>5. met \in SUBSET Nat
  BY <1>2, <1>3
<1> HIDE DEF b, c
<1>6. ASSUME NEW k \in H!Entries(t), t.data[k].key = key PROVE H!Delete(t, key) = Deleted(t, k)
  <2>1. /\ k \in Used(t) /\ t.data[k].state = "ACTIVE"
        /\ Far(t, key, k) \in 0 .. c - 1 /\ H!Slot(t, key, Far(t, key, k)) = k
    BY <1>2, SlotFacts DEF c
  <2>2. Far(t, key, k) \in 0 .. b - 1
    BY <2>1, <1>2, <1>3, <1>6
  <2>3. Far(t, key, k) \in met
    BY <2>1, <2>2, <1>6
  <2>4. ASSUME NEW e \in met PROVE Far(t, key, k) <= e
    <3>1. e \in 0 .. b - 1 /\ e \in 0 .. c - 1 /\ t.data[H!Slot(t, key, e)].key = key
      BY <1>2, <1>3
    <3>2. H!Slot(t, key, e) \in Used(t) /\ Far(t, key, H!Slot(t, key, e)) = e
      BY <3>1, <1>2, <1>3, SlotFacts DEF c
    <3>3. H!Slot(t, key, e) # k => Far(t, key, k) < e
      BY <3>1, <3>2, <1>6 DEF TableInv, First
    <3> QED BY <2>1, <3>1, <3>2, <3>3, <1>2
  <2> HIDE DEF met
  <2>5. H!Least(met) \in met /\ H!Least(met) <= Far(t, key, k)
    BY <2>3, <1>5, LeastIs
  <2>6. H!Least(met) = Far(t, key, k)
    <3>1. H!Least(met) \in Nat /\ Far(t, key, k) \in Nat
      <4>1. H!Least(met) \in Nat
        BY <2>5, <1>5
      <4>2. Far(t, key, k) \in Nat
        BY <2>1, <1>2
      <4> QED BY <4>1, <4>2
    <3>2. Far(t, key, k) <= H!Least(met)
      BY <2>4, <2>5
    <3> QED BY <3>1, <3>2, <2>5
  <2> QED BY <2>1, <2>3, <2>6, <1>4
<1>7. ASSUME \A k \in H!Entries(t) : t.data[k].key # key PROVE H!Delete(t, key) = t
  <2>1. SUFFICES ASSUME met # {} PROVE t.data[H!Slot(t, key, H!Least(met))].state # "ACTIVE"
    BY <1>4
  <2>2. H!Least(met) \in met
    <3> HIDE DEF met
    <3> QED BY <2>1, <1>5, LeastIs
  <2>3. H!Slot(t, key, H!Least(met)) \in Used(t) /\ t.data[H!Slot(t, key, H!Least(met))].key = key
    BY <2>2, <1>3
  <2> HIDE DEF met
  <2> QED BY <2>3, <1>2, <1>7
<1> QED BY <1>6, <1>7

LEMMA DeleteKeeps ==
  ASSUME NEW K \in SUBSET Keys, NEW V, NEW t, TableInv(t, K, V), NEW key \in Keys
  PROVE  LET u == H!Delete(t, key)
         IN  TableInv(u, K, V) /\ \A q, w : Has(u, q, w) <=> Has(t, q, w) /\ q # key
<1> DEFINE c == t.capacity
           u == H!Delete(t, key)
<1>1. CASE \A k \in H!Entries(t) : t.data[k].key # key
  <2>1. u = t
    BY <1>1, DeleteIs
  <2>2. \A w : ~Has(t, key, w)
    BY <1>1 DEF Has
  <2> HIDE DEF u
  <2>3. \A q, w : Has(u, q, w) <=> Has(t, q, w) /\ q # key
    BY <2>1, <2>2
  <2> QED BY <2>1, <2>3 DEF u
<1>2. ASSUME NEW k \in H!Entries(t), t.data[k].key = key
      PROVE  TableInv(u, K, V) /\ \A q, w : Has(u, q, w) <=> Has(t, q, w) /\ q # key
  <2>1. u = Deleted(t, k)
    BY <1>2, DeleteIs
  <2>2. TableType(t, K, V) /\ First(t)
    BY DEF TableInv
  <2>3. /\ t.data \in [0 .. c - 1 -> Entry(K, V)]
        /\ H!Entries(t) \subseteq Used(t) /\ Used(t) \subseteq 0 .. c - 1
        /\ \A j \in Used(t) : /\ t.data[j] \in [key : K, value : V, state : {"ACTIVE", "DELETED"}]
                              /\ j \in H!Entries(t) <=> t.data[j].state = "ACTIVE"
    BY <2>2, UsedFacts DEF TableType
  <2> HIDE DEF u, c
  <2> DEFINE e == [t.data[k] EXCEPT !.state = "DELETED"]
  <2>4. /\ e \in [key : K, value : V, state : {"ACTIVE", "DELETED"}]
        /\ e.key = key /\ e.state = "DELETED"
    <3>1. t.data[k] \in [key : K, value : V, state : {"ACTIVE", "DELETED"}]
      BY <2>3
    <3> QED BY <3>1, <1>2
  <2>5. u = [t EXCEPT !.data[k] = e]
    <3>1. t \in [data : [0 .. c - 1 -> Entry(K, V)], capacity : Nat, length : Nat]
      BY <2>2 DEF TableType, c
    <3>2. u = [t EXCEPT !.data[k].state = "DELETED"]
      BY <2>1 DEF Deleted
    <3> QED BY <3>1, <3>2
  <2> HIDE DEF e
  <2>6. /\ u.capacity = c /\ u.length = t.length
        /\ u.data = [t.data EXCEPT ![k] = e]
        /\ u \in [data : [0 .. c - 1 -> Entry(K, V)], capacity : Nat, length : Nat]
    <3>1. t \in [data : [0 .. c - 1 -> Entry(K, V)], capacity : Nat, length : Nat]
      BY <2>2 DEF TableType, c
    <3>2. u.capacity = c /\ u.length = t.length /\ u.data = [t.data EXCEPT ![k] = e]
      BY <3>1, <2>5 DEF c
    <3>3. [t.data EXCEPT ![k] = e] \in [0 .. c - 1 -> Entry(K, V)]
      BY <2>3, <2>4 DEF Entry
    <3>4. u \in [data : [0 .. c - 1 -> Entry(K, V)], capacity : Nat, length : Nat]
      BY <3>1, <3>2, <3>3, <2>5
    <3> QED BY <3>2, <3>4
  <2>7. TableType(u, K, V)
    BY <2>2, <2>6 DEF TableType, c
  <2>8. u.data[k] = e /\ \A j \in 0 .. c - 1 : j # k => u.data[j] = t.data[j]
    BY <2>3, <2>6
  <2>9. Used(u) = Used(t)
    BY <2>3, <2>4, <2>6, <2>8 DEF Used, c
  <2>10. H!Entries(u) = H!Entries(t) \ {k}
    <3>1. H!Entries(u) = {j \in 0 .. c - 1 : u.data[j].state = "ACTIVE"}
      BY <2>6 DEF H!Entries
    <3>2. H!Entries(t) = {j \in 0 .. c - 1 : t.data[j].state = "ACTIVE"}
      BY DEF H!Entries, c
    <3> QED BY <3>1, <3>2, <2>4, <2>8
  <2>11. TableInv(u, K, V)
    <3>1. \A j \in Used(t) : /\ u.data[j].key = t.data[j].key
                             /\ u.data[j].state \in {t.data[j].state, "DELETED"}
      BY <1>2, <2>3, <2>4, <2>8
    <3> QED BY <3>1, <2>6, <2>7, <2>9, FewerEntries DEF c
  <2>12. \A j \in H!Entries(t) : t.data[j].key = key => j = k
    BY <1>2, <2>2, <2>3 DEF First
  <2>13. \A q, w : Has(u, q, w) <=> Has(t, q, w) /\ q # key
    BY <1>2, <2>3, <2>8, <2>10, <2>12 DEF Has
  <2> QED BY <2>11, <2>13
<1> QED BY <1>1, <1>2

(* Of an entry that there is, the value alone is changed.                  *)
Revalued(t, key, v) ==
  [t EXCEPT !.data = [k \in DOMAIN t.data |->
     IF k \in H!Entries(t) /\ t.data[k].key = key THEN [t.data[k] EXCEPT !.value = v] ELSE t.data[k]]]

(* ... and so an entry is found with its new value.                        *)
HasInstead(t, u, key, v) == \A q, w : Has(u, q, w) <=> IF q = key THEN w = v ELSE Has(t, q, w)

LEMMA RevaluedKeeps ==
  ASSUME NEW K \in SUBSET Keys, NEW V, NEW t, TableInv(t, K, V), NEW key \in Keys, NEW v \in V,
         ~Absent(t, key)
  PROVE  LET u == Revalued(t, key, v)
         IN  TableInv(u, K, V) /\ HasInstead(t, u, key, v)
<1> DEFINE c == t.capacity
           u == Revalued(t, key, v)
<1>1. TableType(t, K, V)
  BY DEF TableInv
<1>2. /\ t.data \in [0 .. c - 1 -> Entry(K, V)]
      /\ H!Entries(t) \subseteq Used(t) /\ Used(t) \subseteq 0 .. c - 1
      /\ \A j \in Used(t) : t.data[j] \in [key : K, value : V, state : {"ACTIVE", "DELETED"}]
  BY <1>1, UsedFacts DEF TableType
<1> DEFINE Changed(k) == [t.data[k] EXCEPT !.value = v]
           D == [k \in 0 .. c - 1 |->
                   IF k \in H!Entries(t) /\ t.data[k].key = key THEN Changed(k) ELSE t.data[k]]
<1>3. ASSUME NEW k \in H!Entries(t)
      PROVE  /\ Changed(k) \in [key : K, value : V, state : {"ACTIVE", "DELETED"}]
             /\ Changed(k).key = t.data[k].key /\ Changed(k).state = t.data[k].state
             /\ Changed(k).value = v
  <2>1. t.data[k] \in [key : K, value : V, state : {"ACTIVE", "DELETED"}]
    BY <1>2
  <2> QED BY <2>1
<1>4. u = [t EXCEPT !.data = D]
  <2>1. DOMAIN t.data = 0 .. c - 1
    BY <1>2
  <2> QED BY <2>1 DEF Revalued
<1> HIDE DEF u, c, Changed
<1>5. D \in [0 .. c - 1 -> Entry(K, V)]
  BY <1>2, <1>3 DEF Entry
<1>6. /\ \A k \in 0 .. c - 1 : D[k] = IF k \in H!Entries(t) /\ t.data[k].key = key
                                        THEN Changed(k) ELSE t.data[k]
  OBVIOUS
<1> HIDE DEF D
<1>7. /\ u.capacity = c /\ u.length = t.length /\ u.data = D
      /\ u \in [data : [0 .. c - 1 -> Entry(K, V)], capacity : Nat, length : Nat]
  <2>1. t \in [data : [0 .. c - 1 -> Entry(K, V)], capacity : Nat, length : Nat]
    BY <1>1 DEF TableType, c
  <2> QED BY <2>1, <1>4, <1>5 DEF c
<1>8. TableType(u, K, V)
  BY <1>1, <1>7 DEF TableType, c
<1>9. \A k \in 0 .. c - 1 : D[k].key = t.data[k].key /\ D[k].state = t.data[k].state
  BY <1>3, <1>6
<1>10. Used(u) = Used(t)
  BY <1>7, <1>9 DEF Used, c
<1>11. H!Entries(u) = H!Entries(t)
  BY <1>7, <1>9 DEF H!Entries, c
<1>12. TableInv(u, K, V)
  <2>1. \A j \in Used(t) : /\ u.data[j].key = t.data[j].key
                           /\ u.data[j].state \in {t.data[j].state, "DELETED"}
    BY <1>2, <1>7, <1>9
  <2> QED BY <2>1, <1>7, <1>8, <1>10, FewerEntries DEF c
<1>13. ASSUME NEW q, NEW w PROVE Has(u, q, w) <=> IF q = key THEN w = v ELSE Has(t, q, w)
  <2>1. \A k \in H!Entries(t) :
          /\ u.data[k].key = t.data[k].key
          /\ u.data[k].value = IF t.data[k].key = key THEN v ELSE t.data[k].value
    BY <1>2, <1>3, <1>6, <1>7, <1>9
  <2>2. \E k \in H!Entries(t) : t.data[k].key = key
    BY DEF Absent
  <2> QED BY <2>1, <2>2, <1>11 DEF Has
<1> QED BY <1>12, <1>13 DEF u, HasInstead

-----------------------------------------------------------------------------
(* Growth.                                                                 *)

(* A set of numbers that goes on has all of them.                          *)
LEMMA GoesOn ==
  ASSUME NEW P, 0 \in P, \A n \in Nat : n \in P => n + 1 \in P
  PROVE  Nat \subseteq P
<1>1. SUFFICES ASSUME Nat \ P # {} PROVE FALSE
  OBVIOUS
<1>2. H!Least(Nat \ P) \in Nat \ P /\ \A e \in Nat \ P : H!Least(Nat \ P) <= e
  BY <1>1, LeastIs
<1>3. PICK m \in Nat \ P : \A e \in Nat \ P : m <= e
  BY <1>2
<1>4. m - 1 \in Nat /\ m = (m - 1) + 1 /\ ~(m <= m - 1)
  BY <1>3
<1>5. m - 1 \in P
  BY <1>3, <1>4
<1> QED BY <1>3, <1>4, <1>5

LEMMA GrowSteps ==
  ASSUME NEW t, t.capacity \in Nat
  PROVE  \E f : /\ H!Grow(t) = f[t.capacity] /\ f[0] = H!Table(2 * t.capacity)
                /\ \A k \in 1 .. t.capacity :
                     f[k] = IF t.data[k - 1].state = "ACTIVE"
                              THEN H!Insert(f[k - 1], t.data[k - 1].key, t.data[k - 1].value)
                              ELSE f[k - 1]
<1> DEFINE a == H!Table(2 * t.capacity)
           G(k, x) == IF t.data[k - 1].state = "ACTIVE"
                        THEN H!Insert(x, t.data[k - 1].key, t.data[k - 1].value) ELSE x
           Is(n, f) == f = [k \in 0 .. n |-> IF k = 0 THEN a ELSE G(k, f[k - 1])]
           P == {n \in Nat : \E f : Is(n, f)}
           m == CHOOSE f : Is(t.capacity, f)
<1>1. H!Grow(t) = m[t.capacity]
  BY DEF H!Grow
<1> HIDE DEF a, G
<1>2. 0 \in P
  <2>1. Is(0, [k \in 0 .. 0 |-> a])
    OBVIOUS
  <2> QED BY <2>1
<1>3. ASSUME NEW n \in Nat, n \in P PROVE n + 1 \in P
  <2>1. PICK f : Is(n, f)
    BY <1>3
  <2> DEFINE h == [k \in 0 .. n + 1 |-> IF k = n + 1 THEN G(n + 1, f[n]) ELSE f[k]]
  <2>2. ASSUME NEW k \in 0 .. n + 1 PROVE h[k] = IF k = 0 THEN a ELSE G(k, h[k - 1])
    <3>1. CASE k = n + 1
      BY <3>1
    <3>2. CASE k # n + 1
      <4>1. k \in 0 .. n
        BY <3>2
      <4>2. f[k] = IF k = 0 THEN a ELSE G(k, f[k - 1])
        BY <2>1, <4>1
      <4>3. h[k] = f[k] /\ (k # 0 => h[k - 1] = f[k - 1])
        BY <4>1
      <4> QED BY <4>2, <4>3
    <3> QED BY <3>1, <3>2
  <2>3. h = [k \in 0 .. n + 1 |-> h[k]]
    OBVIOUS
  <2> HIDE DEF h
  <2>4. Is(n + 1, h)
    BY <2>2, <2>3
  <2> QED BY <2>4
<1>4. \E f : Is(t.capacity, f)
  <2> HIDE DEF Is
  <2> QED BY <1>2, <1>3, GoesOn
<1>5. Is(t.capacity, m)
  <2> HIDE DEF Is
  <2> QED BY <1>4
<1> HIDE DEF m
<1>6. m[0] = a /\ \A k \in 1 .. t.capacity : m[k] = G(k, m[k - 1])
  BY <1>5
<1> QED BY <1>1, <1>6 DEF a, G

(* A new table.                                                            *)
LEMMA TableIsEmpty ==
  ASSUME NEW K, NEW V, NEW c \in Nat, c >= 4
  PROVE  LET u == H!Table(c)
         IN  /\ TableInv(u, K, V) /\ u.capacity = c /\ u.length = 0
             /\ H!Entries(u) = {} /\ Used(u) = {}
<1> DEFINE u == H!Table(c)
<1>1. /\ u.capacity = c /\ u.length = 0
      /\ \A k \in 0 .. c - 1 : u.data[k] = H!BLANK_ENTRY
      /\ u.data \in [0 .. c - 1 -> Entry(K, V)]
  BY DEF H!Table, Entry
<1>2. TableType(u, K, V)
  <2>1. u = [data |-> u.data, capacity |-> c, length |-> 0]
    BY DEF H!Table
  <2> HIDE DEF u
  <2>2. u \in [data : [0 .. u.capacity - 1 -> Entry(K, V)], capacity : Nat, length : Nat]
    BY <1>1, <2>1
  <2> QED BY <2>2, <1>1 DEF TableType
<1> HIDE DEF u
<1>3. \A k \in 0 .. c - 1 : u.data[k].state = "BLANK"
  BY <1>1 DEF H!BLANK_ENTRY
<1>4. Used(u) = {} /\ H!Entries(u) = {}
  BY <1>1, <1>3 DEF Used, H!Entries
<1>5. Room(u)
  BY <1>1, <1>4, FS_EmptySet DEF Room, H!SPARSITY
<1>6. Reached(u) /\ First(u)
  BY <1>4 DEF Reached, First
<1>7. TableInv(u, K, V)
  BY <1>2, <1>5, <1>6 DEF TableInv
<1> QED BY <1>1, <1>4, <1>7 DEF u

(* grow() keeps the entries.                                               *)
LEMMA GrowKeeps ==
  ASSUME NEW K \in SUBSET Keys, NEW V, NEW t, TableInv(t, K, V)
  PROVE  LET u == H!Grow(t)
         IN  /\ TableInv(u, K, V)
             /\ u.capacity = 2 * t.capacity /\ u.length <= t.length
             /\ \A q, w : Has(u, q, w) <=> Has(t, q, w)
<1> DEFINE c == t.capacity
<1>1. TableType(t, K, V) /\ Room(t) /\ First(t)
  BY DEF TableInv
<1>2. /\ c \in Nat \ {0} /\ c >= 4 /\ t.length \in Nat
      /\ IsFiniteSet(Used(t)) /\ Used(t) \subseteq 0 .. c - 1 /\ H!Entries(t) \subseteq Used(t)
      /\ \A k \in 0 .. c - 1 : k \in H!Entries(t) <=> t.data[k].state = "ACTIVE"
      /\ \A k \in Used(t) : t.data[k].key \in K /\ t.data[k].value \in V
  BY <1>1, UsedFacts DEF TableType, H!Entries
<1>3. PICK f : /\ H!Grow(t) = f[c] /\ f[0] = H!Table(2 * c)
               /\ \A k \in 1 .. c :
                    f[k] = IF t.data[k - 1].state = "ACTIVE"
                             THEN H!Insert(f[k - 1], t.data[k - 1].key, t.data[k - 1].value)
                             ELSE f[k - 1]
  BY <1>2, GrowSteps
<1> HIDE DEF c
<1> DEFINE Low(n) == {k \in Used(t) : k < n}
           Moved(n) == /\ TableInv(f[n], K, V)
                       /\ f[n].capacity = 2 * c /\ f[n].length <= Cardinality(Low(n))
                       /\ \A q, w : Has(f[n], q, w) <=>
                            \E k \in H!Entries(t) : k < n /\ t.data[k].key = q /\ t.data[k].value = w
           P == {n \in Nat : n <= c => Moved(n)}
<1>4. \A n \in Nat : /\ IsFiniteSet(Low(n)) /\ Cardinality(Low(n)) \in Nat
                     /\ Cardinality(Low(n)) <= t.length
  <2> TAKE n \in Nat
  <2>1. Low(n) \subseteq Used(t)
    OBVIOUS
  <2>2. Cardinality(Used(t)) = t.length
    BY <1>1 DEF Room
  <2> HIDE DEF Low
  <2> QED BY <2>1, <2>2, <1>2, FS_Subset, FS_CardinalityType
<1>5. Moved(0)
  <2>1. /\ TableInv(f[0], K, V) /\ f[0].capacity = 2 * c /\ f[0].length = 0
        /\ H!Entries(f[0]) = {}
    <3>1. PICK e \in Nat : e = 2 * c /\ e >= 4
      BY <1>2
    <3> QED BY <3>1, <1>3, TableIsEmpty
  <2>2. f[0].length <= Cardinality(Low(0))
    <3> HIDE DEF Low
    <3> QED BY <2>1, <1>4
  <2>3. \A k \in H!Entries(t) : ~(k < 0)
    BY <1>2
  <2>4. \A q, w : Has(f[0], q, w) <=>
          \E k \in H!Entries(t) : k < 0 /\ t.data[k].key = q /\ t.data[k].value = w
    BY <2>1, <2>3 DEF Has
  <2> QED BY <2>1, <2>2, <2>4
<1>6. ASSUME NEW n \in Nat, n + 1 <= c, Moved(n) PROVE Moved(n + 1)
  <2>0. n \in 0 .. c - 1 /\ n + 1 \in 1 .. c /\ (n + 1) - 1 = n
    BY <1>2, <1>6
  <2>1. f[n + 1] = IF t.data[n].state = "ACTIVE"
                     THEN H!Insert(f[n], t.data[n].key, t.data[n].value) ELSE f[n]
    <3>1. PICK i \in 1 .. c : i = n + 1
      BY <2>0
    <3>2. i - 1 = n
      BY <3>1
    <3> QED BY <3>1, <3>2, <1>3
  <2>2. CASE n \in H!Entries(t)
    <3>1. /\ n \in Used(t) /\ t.data[n].key \in K /\ t.data[n].value \in V
          /\ f[n + 1] = H!Insert(f[n], t.data[n].key, t.data[n].value)
      BY <2>0, <2>1, <2>2, <1>2
    <3>2. Absent(f[n], t.data[n].key)
      <4>0. SUFFICES ASSUME NEW k \in H!Entries(f[n]), f[n].data[k].key = t.data[n].key
                     PROVE  FALSE
        BY DEF Absent
      <4>1. Has(f[n], t.data[n].key, f[n].data[k].value)
        BY <4>0 DEF Has
      <4>2. PICK j \in H!Entries(t) : j < n /\ t.data[j].key = t.data[n].key
        BY <4>1, <1>6
      <4>3. j # n /\ t.data[n].state = "ACTIVE"
        BY <4>2, <2>0, <2>2, <1>2
      <4> QED BY <4>2, <4>3, <3>1, <1>1 DEF First
    <3>3. Cardinality(Low(n + 1)) = Cardinality(Low(n)) + 1
      <4>1. Low(n + 1) = Low(n) \cup {n}
        BY <3>1, <1>2
      <4>2. n \notin Low(n)
        OBVIOUS
      <4> HIDE DEF Low
      <4> QED BY <4>1, <4>2, <1>4, FS_AddElement
    <3>4. f[n].length \in Nat /\ f[n].length + 1 <= t.length
      <4>1. f[n].length \in Nat
        BY <1>6 DEF TableInv, TableType
      <4>2. f[n].length <= Cardinality(Low(n))
        BY <1>6
      <4> HIDE DEF Low
      <4>3. Cardinality(Low(n + 1)) <= t.length
        BY <1>4
      <4> QED BY <4>1, <4>2, <4>3, <3>3, <1>2, <1>4
    <3>5. Spare(f[n])
      <4>1. H!SPARSITY * t.length <= c
        BY <1>1 DEF Room, c
      <4>2. f[n].capacity = 2 * c
        BY <1>6
      <4> QED BY <4>1, <4>2, <3>4, <1>2 DEF Spare, H!SPARSITY
    <3> DEFINE u == H!Insert(f[n], t.data[n].key, t.data[n].value)
    <3>6. /\ TableInv(u, K, V)
          /\ u.capacity = 2 * c /\ u.length \in {f[n].length, f[n].length + 1}
          /\ \A q, w : Has(u, q, w) <=> Has(f[n], q, w) \/ (q = t.data[n].key /\ w = t.data[n].value)
      BY <3>1, <3>2, <3>5, <1>6, InsertKeeps DEF HasAlso
    <3>7. f[n + 1] = u
      BY <3>1
    <3> HIDE DEF u
    <3>8. f[n + 1].length <= Cardinality(Low(n + 1))
      <4>1. f[n].length <= Cardinality(Low(n))
        BY <1>6
      <4> HIDE DEF Low
      <4> QED BY <4>1, <3>3, <3>4, <3>6, <3>7, <1>4
    <3>9. \A k \in H!Entries(t) : k < n + 1 <=> k < n \/ k = n
      BY <1>2
    <3>10. ASSUME NEW q, NEW w
           PROVE Has(f[n + 1], q, w) <=>
             \E k \in H!Entries(t) : k < n + 1 /\ t.data[k].key = q /\ t.data[k].value = w
      <4>1. Has(f[n], q, w) <=>
              \E k \in H!Entries(t) : k < n /\ t.data[k].key = q /\ t.data[k].value = w
        BY <1>6
      <4> QED BY <4>1, <3>6, <3>7, <3>9, <2>2
    <3> QED BY <3>6, <3>7, <3>8, <3>10
  <2>3. CASE n \notin H!Entries(t)
    <3>1. f[n + 1] = f[n]
      BY <2>0, <2>1, <2>3, <1>2
    <3>2. \A k \in H!Entries(t) : k < n + 1 <=> k < n
      BY <2>3, <1>2
    <3>3. f[n + 1].length <= Cardinality(Low(n + 1))
      <4>1. Low(n) \subseteq Low(n + 1)
        BY <1>2
      <4>2. f[n].length \in Nat /\ f[n].length <= Cardinality(Low(n))
        BY <1>6 DEF TableInv, TableType
      <4> HIDE DEF Low
      <4>3. Cardinality(Low(n)) <= Cardinality(Low(n + 1))
        BY <4>1, <1>4, FS_Subset
      <4>4. Cardinality(Low(n)) \in Nat /\ Cardinality(Low(n + 1)) \in Nat
        BY <1>4
      <4> QED BY <4>2, <4>3, <4>4, <3>1
    <3>4. \A q, w : Has(f[n + 1], q, w) <=>
            \E k \in H!Entries(t) : k < n + 1 /\ t.data[k].key = q /\ t.data[k].value = w
      BY <3>1, <3>2, <1>6
    <3> QED BY <3>1, <3>3, <3>4, <1>6
  <2> QED BY <2>2, <2>3
<1> HIDE DEF Moved
<1>7. 0 \in P
  BY <1>5
<1>8. ASSUME NEW n \in Nat, n \in P PROVE n + 1 \in P
  <2>1. n + 1 <= c => n <= c
    BY <1>2
  <2> QED BY <2>1, <1>6, <1>8
<1>9. c \in P
  <2> HIDE DEF P
  <2> QED BY <1>2, <1>7, <1>8, GoesOn
<1>10. Moved(c)
  BY <1>2, <1>9
<1>11. f[c].length <= t.length
  <2>1. f[c].length \in Nat /\ f[c].length <= Cardinality(Low(c))
    BY <1>10 DEF Moved, TableInv, TableType
  <2> HIDE DEF Low
  <2> QED BY <2>1, <1>2, <1>4
<1>12. \A q, w : Has(f[c], q, w) <=> Has(t, q, w)
  <2>1. \A k \in H!Entries(t) : k < c
    BY <1>2
  <2> QED BY <2>1, <1>10 DEF Moved, Has
<1>13. TableInv(f[c], K, V) /\ f[c].capacity = 2 * c
  BY <1>10 DEF Moved
<1> QED BY <1>3, <1>11, <1>12, <1>13 DEF c

(* fasthash_put() of a key that has no entry.                              *)
LEMMA PutKeeps ==
  ASSUME NEW K \in SUBSET Keys, NEW V, NEW t, TableInv(t, K, V), NEW key \in K, NEW v \in V,
         Absent(t, key)
  PROVE  LET u == H!Put(t, key, v)
         IN  /\ TableInv(u, K, V)
             /\ HasAlso(t, u, key, v)
<1>1. t.capacity \in Nat /\ t.capacity >= 4 /\ t.length \in Nat /\ H!SPARSITY * t.length <= t.capacity
  BY DEF TableInv, TableType, Room
<1>2. CASE H!Sparse(t)
  <2>1. t.length < t.capacity \div 4
    BY <1>2 DEF H!Sparse, H!SPARSITY
  <2>2. Spare(t)
    BY <1>1, <2>1 DEF Spare, H!SPARSITY
  <2>3. H!Put(t, key, v) = H!Insert(t, key, v)
    BY <1>2 DEF H!Put
  <2>4. PICK g : g = t
    OBVIOUS
  <2>5. Spare(g) /\ Absent(g, key) /\ TableInv(g, K, V)
    BY <2>2, <2>4
  <2>6. /\ TableInv(H!Insert(g, key, v), K, V)
        /\ HasAlso(g, H!Insert(g, key, v), key, v)
    BY <2>5, InsertKeeps
  <2> QED BY <2>3, <2>4, <2>6
<1>3. CASE ~H!Sparse(t)
  <2> DEFINE g == H!Grow(t)
  <2>1. /\ TableInv(g, K, V) /\ g.capacity = 2 * t.capacity /\ g.length <= t.length
        /\ \A q, w : Has(g, q, w) <=> Has(t, q, w)
    BY GrowKeeps
  <2>2. H!Put(t, key, v) = H!Insert(g, key, v)
    BY <1>3 DEF H!Put
  <2> HIDE DEF g
  <2>3. Spare(g)
    <3>1. g.length \in Nat
      BY <2>1 DEF TableInv, TableType
    <3> QED BY <1>1, <2>1, <3>1 DEF Spare, H!SPARSITY
  <2>4. Absent(g, key)
    <3>1. SUFFICES ASSUME NEW k \in H!Entries(g), g.data[k].key = key PROVE FALSE
      BY DEF Absent
    <3>2. Has(t, key, g.data[k].value)
      BY <2>1, <3>1 DEF Has
    <3> QED BY <3>2 DEF Has, Absent
  <2>5. /\ TableInv(H!Insert(g, key, v), K, V)
        /\ HasAlso(g, H!Insert(g, key, v), key, v)
    BY <2>1, <2>3, <2>4, InsertKeeps
  <2>6. HasAlso(t, H!Insert(g, key, v), key, v)
    BY <2>1, <2>5 DEF HasAlso
  <2> QED BY <2>2, <2>5, <2>6
<1> QED BY <1>2, <1>3

-----------------------------------------------------------------------------
(* Operations on all programs of a class, one by one.                      *)

(* One is deleted after the other.                                         *)
LEMMA WithoutSteps ==
  ASSUME NEW t, NEW o, NEW names, Len(names) \in Nat
  PROVE  \E f : /\ Without(t, o, names) = f[Len(names)] /\ f[0] = t
                /\ \A k \in 1 .. Len(names) : f[k] = H!Delete(f[k - 1], <<o, names[k]>>)
<1> DEFINE G(k, x) == H!Delete(x, <<o, names[k]>>)
           Is(n, f) == f = [k \in 0 .. n |-> IF k = 0 THEN t ELSE G(k, f[k - 1])]
           P == {n \in Nat : \E f : Is(n, f)}
           m == CHOOSE f : Is(Len(names), f)
<1>1. Without(t, o, names) = m[Len(names)]
  BY DEF Without
<1> HIDE DEF G
<1>2. 0 \in P
  <2>1. Is(0, [k \in 0 .. 0 |-> t])
    OBVIOUS
  <2> QED BY <2>1
<1>3. ASSUME NEW n \in Nat, n \in P PROVE n + 1 \in P
  <2>1. PICK f : Is(n, f)
    BY <1>3
  <2> DEFINE h == [k \in 0 .. n + 1 |-> IF k = n + 1 THEN G(n + 1, f[n]) ELSE f[k]]
  <2>2. ASSUME NEW k \in 0 .. n + 1 PROVE h[k] = IF k = 0 THEN t ELSE G(k, h[k - 1])
    <3>1. CASE k = n + 1
      BY <3>1
    <3>2. CASE k # n + 1
      <4>1. k \in 0 .. n
        BY <3>2
      <4>2. f[k] = IF k = 0 THEN t ELSE G(k, f[k - 1])
        BY <2>1, <4>1
      <4>3. h[k] = f[k] /\ (k # 0 => h[k - 1] = f[k - 1])
        BY <4>1
      <4> QED BY <4>2, <4>3
    <3> QED BY <3>1, <3>2
  <2>3. h = [k \in 0 .. n + 1 |-> h[k]]
    OBVIOUS
  <2> HIDE DEF h
  <2>4. Is(n + 1, h)
    BY <2>2, <2>3
  <2> QED BY <2>4
<1>4. \E f : Is(Len(names), f)
  <2> HIDE DEF Is
  <2> QED BY <1>2, <1>3, GoesOn
<1>5. Is(Len(names), m)
  <2> HIDE DEF Is
  <2> QED BY <1>4
<1> HIDE DEF m
<1>6. m[0] = t /\ \A k \in 1 .. Len(names) : m[k] = G(k, m[k - 1])
  BY <1>5
<1> QED BY <1>1, <1>6 DEF G

LEMMA WithoutKeeps ==
  ASSUME NEW V, NEW t, TableInv(t, Signatures, V), NEW o \in Objects, NEW names \in Seq(Functions)
  PROVE  LET u == Without(t, o, names)
         IN  /\ TableInv(u, Signatures, V)
             /\ \A q, w : Has(u, q, w) <=>
                   Has(t, q, w) /\ \A i \in 1 .. Len(names) : q # <<o, names[i]>>
<1>1. Len(names) \in Nat /\ Signatures \in SUBSET Keys
      /\ \A i \in 1 .. Len(names) : <<o, names[i]>> \in Keys
  BY DEF Keys, Signatures
<1>2. PICK f : /\ Without(t, o, names) = f[Len(names)] /\ f[0] = t
               /\ \A k \in 1 .. Len(names) : f[k] = H!Delete(f[k - 1], <<o, names[k]>>)
  BY <1>1, WithoutSteps
<1> DEFINE Rest(n) == /\ TableInv(f[n], Signatures, V)
                      /\ \A q, w : Has(f[n], q, w) <=>
                            Has(t, q, w) /\ \A i \in 1 .. n : q # <<o, names[i]>>
           P == {n \in Nat : n <= Len(names) => Rest(n)}
<1>3. Rest(0)
  BY <1>2
<1>4. ASSUME NEW n \in Nat, n + 1 <= Len(names), Rest(n) PROVE Rest(n + 1)
  <2>1. PICK k \in 1 .. Len(names) : k = n + 1 /\ k - 1 = n
    BY <1>1, <1>4
  <2>2. f[k] = H!Delete(f[n], <<o, names[k]>>)
    BY <2>1, <1>2
  <2>3. /\ TableInv(f[k], Signatures, V)
        /\ \A q, w : Has(f[k], q, w) <=> Has(f[n], q, w) /\ q # <<o, names[k]>>
    <3>1. PICK g : g = f[n]
      OBVIOUS
    <3>2. PICK key \in Keys : key = <<o, names[k]>>
      BY <1>1
    <3>3. TableInv(g, Signatures, V)
      BY <3>1, <1>4
    <3>4. /\ TableInv(H!Delete(g, key), Signatures, V)
          /\ \A q, w : Has(H!Delete(g, key), q, w) <=> Has(g, q, w) /\ q # key
      BY <3>3, <1>1, DeleteKeeps
    <3> QED BY <3>1, <3>2, <3>4, <2>2
  <2>4. 1 .. k = (1 .. n) \cup {k}
    BY <2>1
  <2>5. \A q, w : Has(f[k], q, w) <=> Has(t, q, w) /\ \A i \in 1 .. k : q # <<o, names[i]>>
    BY <2>3, <2>4, <1>4
  <2> QED BY <2>1, <2>3, <2>5
<1> HIDE DEF Rest
<1>5. 0 \in P
  BY <1>3
<1>6. ASSUME NEW n \in Nat, n \in P PROVE n + 1 \in P
  <2>1. n + 1 <= Len(names) => n <= Len(names)
    BY <1>1
  <2> QED BY <2>1, <1>4, <1>6
<1>7. Len(names) \in P
  <2> HIDE DEF P
  <2> QED BY <1>1, <1>5, <1>6, GoesOn
<1>8. Rest(Len(names))
  BY <1>1, <1>7
<1> QED BY <1>2, <1>8 DEF Rest

(* One is looked up after the other.                                       *)
LEMMA LookedUpSteps ==
  ASSUME NEW t, NEW o, NEW names, Len(names) \in Nat
  PROVE  \E f : /\ LookedUp(t, o, names) = f[Len(names)] /\ f[0] = t
                /\ \A k \in 1 .. Len(names) : f[k] = H!Swap(f[k - 1], <<o, names[k]>>)
<1> DEFINE G(k, x) == H!Swap(x, <<o, names[k]>>)
           Is(n, f) == f = [k \in 0 .. n |-> IF k = 0 THEN t ELSE G(k, f[k - 1])]
           P == {n \in Nat : \E f : Is(n, f)}
           m == CHOOSE f : Is(Len(names), f)
<1>1. LookedUp(t, o, names) = m[Len(names)]
  BY DEF LookedUp
<1> HIDE DEF G
<1>2. 0 \in P
  <2>1. Is(0, [k \in 0 .. 0 |-> t])
    OBVIOUS
  <2> QED BY <2>1
<1>3. ASSUME NEW n \in Nat, n \in P PROVE n + 1 \in P
  <2>1. PICK f : Is(n, f)
    BY <1>3
  <2> DEFINE h == [k \in 0 .. n + 1 |-> IF k = n + 1 THEN G(n + 1, f[n]) ELSE f[k]]
  <2>2. ASSUME NEW k \in 0 .. n + 1 PROVE h[k] = IF k = 0 THEN t ELSE G(k, h[k - 1])
    <3>1. CASE k = n + 1
      BY <3>1
    <3>2. CASE k # n + 1
      <4>1. k \in 0 .. n
        BY <3>2
      <4>2. f[k] = IF k = 0 THEN t ELSE G(k, f[k - 1])
        BY <2>1, <4>1
      <4>3. h[k] = f[k] /\ (k # 0 => h[k - 1] = f[k - 1])
        BY <4>1
      <4> QED BY <4>2, <4>3
    <3> QED BY <3>1, <3>2
  <2>3. h = [k \in 0 .. n + 1 |-> h[k]]
    OBVIOUS
  <2> HIDE DEF h
  <2>4. Is(n + 1, h)
    BY <2>2, <2>3
  <2> QED BY <2>4
<1>4. \E f : Is(Len(names), f)
  <2> HIDE DEF Is
  <2> QED BY <1>2, <1>3, GoesOn
<1>5. Is(Len(names), m)
  <2> HIDE DEF Is
  <2> QED BY <1>4
<1> HIDE DEF m
<1>6. m[0] = t /\ \A k \in 1 .. Len(names) : m[k] = G(k, m[k - 1])
  BY <1>5
<1> QED BY <1>1, <1>6 DEF G

LEMMA LookedUpKeeps ==
  ASSUME NEW V, NEW t, TableInv(t, Signatures, V), NEW o \in Objects, NEW names \in Seq(Functions)
  PROVE  LET u == LookedUp(t, o, names)
         IN  /\ TableInv(u, Signatures, V)
             /\ \A q, w : Has(u, q, w) <=> Has(t, q, w)
<1>1. Len(names) \in Nat /\ Signatures \in SUBSET Keys
      /\ \A i \in 1 .. Len(names) : <<o, names[i]>> \in Keys
  BY DEF Keys, Signatures
<1>2. PICK f : /\ LookedUp(t, o, names) = f[Len(names)] /\ f[0] = t
               /\ \A k \in 1 .. Len(names) : f[k] = H!Swap(f[k - 1], <<o, names[k]>>)
  BY <1>1, LookedUpSteps
<1> DEFINE Same(n) == TableInv(f[n], Signatures, V) /\ \A q, w : Has(f[n], q, w) <=> Has(t, q, w)
           P == {n \in Nat : n <= Len(names) => Same(n)}
<1>3. Same(0)
  BY <1>2
<1>4. ASSUME NEW n \in Nat, n + 1 <= Len(names), Same(n) PROVE Same(n + 1)
  <2>1. PICK k \in 1 .. Len(names) : k = n + 1 /\ k - 1 = n
    BY <1>1, <1>4
  <2>2. f[k] = H!Swap(f[n], <<o, names[k]>>)
    BY <2>1, <1>2
  <2>3. TableInv(f[k], Signatures, V) /\ \A q, w : Has(f[k], q, w) <=> Has(f[n], q, w)
    <3>1. PICK g : g = f[n]
      OBVIOUS
    <3>2. PICK key \in Keys : key = <<o, names[k]>>
      BY <1>1
    <3>3. TableInv(g, Signatures, V)
      BY <3>1, <1>4
    <3>4. /\ TableInv(H!Swap(g, key), Signatures, V)
          /\ \A q, w : Has(H!Swap(g, key), q, w) <=> Has(g, q, w)
      BY <3>3, <1>1, SwapKeeps
    <3> QED BY <3>1, <3>2, <3>4, <2>2
  <2> QED BY <2>1, <2>3, <1>4
<1> HIDE DEF Same
<1>5. 0 \in P
  BY <1>3
<1>6. ASSUME NEW n \in Nat, n \in P PROVE n + 1 \in P
  <2>1. n + 1 <= Len(names) => n <= Len(names)
    BY <1>1
  <2> QED BY <2>1, <1>4, <1>6
<1>7. Len(names) \in P
  <2> HIDE DEF P
  <2> QED BY <1>1, <1>5, <1>6, GoesOn
<1>8. Same(Len(names))
  BY <1>1, <1>7
<1> QED BY <1>2, <1>8 DEF Same

(* What has been chosen, and one more name of which it is asked.           *)
Taken(x, e, S) == IF e \in S THEN Append(x, e) ELSE x

(* One is chosen, or not, after the other.                                 *)
LEMMA ChosenSteps ==
  ASSUME NEW names, NEW S, Len(names) \in Nat
  PROVE  \E f : /\ Chosen(names, S) = f[Len(names)] /\ f[0] = << >>
                /\ \A k \in 1 .. Len(names) : f[k] = Taken(f[k - 1], names[k], S)
<1> DEFINE G(k, x) == Taken(x, names[k], S)
           Is(n, f) == f = [k \in 0 .. n |-> IF k = 0 THEN << >> ELSE G(k, f[k - 1])]
           P == {n \in Nat : \E f : Is(n, f)}
           m == CHOOSE f : Is(Len(names), f)
<1>1. Chosen(names, S) = m[Len(names)]
  BY DEF Chosen, Taken
<1> HIDE DEF G
<1>2. 0 \in P
  <2>1. Is(0, [k \in 0 .. 0 |-> << >>])
    OBVIOUS
  <2> QED BY <2>1
<1>3. ASSUME NEW n \in Nat, n \in P PROVE n + 1 \in P
  <2>1. PICK f : Is(n, f)
    BY <1>3
  <2> DEFINE h == [k \in 0 .. n + 1 |-> IF k = n + 1 THEN G(n + 1, f[n]) ELSE f[k]]
  <2>2. ASSUME NEW k \in 0 .. n + 1 PROVE h[k] = IF k = 0 THEN << >> ELSE G(k, h[k - 1])
    <3>1. CASE k = n + 1
      BY <3>1
    <3>2. CASE k # n + 1
      <4>1. k \in 0 .. n
        BY <3>2
      <4>2. f[k] = IF k = 0 THEN << >> ELSE G(k, f[k - 1])
        BY <2>1, <4>1
      <4>3. h[k] = f[k] /\ (k # 0 => h[k - 1] = f[k - 1])
        BY <4>1
      <4> QED BY <4>2, <4>3
    <3> QED BY <3>1, <3>2
  <2>3. h = [k \in 0 .. n + 1 |-> h[k]]
    OBVIOUS
  <2> HIDE DEF h
  <2>4. Is(n + 1, h)
    BY <2>2, <2>3
  <2> QED BY <2>4
<1>4. \E f : Is(Len(names), f)
  <2> HIDE DEF Is
  <2> QED BY <1>2, <1>3, GoesOn
<1>5. Is(Len(names), m)
  <2> HIDE DEF Is
  <2> QED BY <1>4
<1> HIDE DEF m
<1>6. m[0] = << >> /\ \A k \in 1 .. Len(names) : m[k] = G(k, m[k - 1])
  BY <1>5
<1> QED BY <1>1, <1>6 DEF G

(* Of the first names, in u: those that are in S, none more often.         *)
ChosenOf(u, names, n, S) ==
  /\ u \in Seq(Functions)
  /\ \A e : (\E i \in 1 .. Len(u) : u[i] = e) <=> e \in S /\ \E j \in 1 .. n : names[j] = e
  /\ IsInjective(names) => \A i, j \in 1 .. Len(u) : u[i] = u[j] => i = j

LEMMA ChosenIs ==
  ASSUME NEW names \in Seq(Functions), NEW S
  PROVE  LET u == Chosen(names, S)
         IN  /\ u \in Seq(Functions)
             /\ ToSet(u) = ToSet(names) \cap S
             /\ IsInjective(names) => IsInjective(u)
<1>1. Len(names) \in Nat /\ DOMAIN names = 1 .. Len(names)
      /\ \A i \in 1 .. Len(names) : names[i] \in Functions
  OBVIOUS
<1>2. PICK f : /\ Chosen(names, S) = f[Len(names)] /\ f[0] = << >>
               /\ \A k \in 1 .. Len(names) :
                    f[k] = Taken(f[k - 1], names[k], S)
  <2>1. Len(names) \in Nat
    BY <1>1
  <2> QED BY <2>1, ChosenSteps, Zenon
<1> DEFINE Some(n) == ChosenOf(f[n], names, n, S)
           P == {n \in Nat : n <= Len(names) => Some(n)}
<1>3. Some(0)
  BY <1>2, EmptySeq DEF ChosenOf
<1>4. ASSUME NEW n \in Nat, n + 1 <= Len(names), Some(n) PROVE Some(n + 1)
  <2>1. PICK k \in 1 .. Len(names) : k = n + 1 /\ k - 1 = n
    BY <1>1, <1>4
  <2>2. PICK s \in Seq(Functions) : s = f[n] /\ ChosenOf(s, names, n, S)
    BY <1>4 DEF ChosenOf
  <2>3. 1 .. k = (1 .. n) \cup {k}
    BY <2>1
  <2>4. CASE names[k] \in S
    <3>1. f[k] = Append(s, names[k]) /\ names[k] \in Functions
      BY <2>1, <2>2, <2>4, <1>1, <1>2 DEF Taken
    <3>2. PICK u \in Seq(Functions) : u = Append(s, names[k])
      BY <3>1, AppendProperties
    <3>3. /\ Len(s) \in Nat /\ Len(u) = Len(s) + 1 /\ u[Len(s) + 1] = names[k]
          /\ \A i \in 1 .. Len(s) : u[i] = s[i]
      BY <3>1, <3>2, AppendProperties
    <3>4. 1 .. Len(u) = (1 .. Len(s)) \cup {Len(s) + 1}
      BY <3>3
    <3>5. ASSUME NEW e
          PROVE (\E i \in 1 .. Len(u) : u[i] = e) <=> e \in S /\ \E j \in 1 .. k : names[j] = e
      <4>1. (\E i \in 1 .. Len(u) : u[i] = e) <=> (\E i \in 1 .. Len(s) : s[i] = e) \/ names[k] = e
        BY <3>3, <3>4
      <4>2. (\E j \in 1 .. k : names[j] = e) <=> (\E j \in 1 .. n : names[j] = e) \/ names[k] = e
        BY <2>3
      <4>3. (\E i \in 1 .. Len(s) : s[i] = e) <=> e \in S /\ \E j \in 1 .. n : names[j] = e
        BY <2>2 DEF ChosenOf
      <4> QED BY <4>1, <4>2, <4>3, <2>4
    <3>6. ASSUME IsInjective(names), NEW i \in 1 .. Len(u), NEW j \in 1 .. Len(u), u[i] = u[j]
          PROVE i = j
      <4>1. \A l \in 1 .. Len(s) : s[l] # names[k]
        <5>1. SUFFICES ASSUME NEW l \in 1 .. Len(s), s[l] = names[k] PROVE FALSE
          OBVIOUS
        <5>2. PICK h \in 1 .. n : names[h] = names[k]
          BY <5>1, <2>2 DEF ChosenOf
        <5>3. h \in 1 .. Len(names) /\ h # k
          BY <5>2, <2>1, <1>1
        <5> QED BY <5>2, <5>3, <3>6, <1>1 DEF IsInjective
      <4>2. \A x, y \in 1 .. Len(s) : s[x] = s[y] => x = y
        BY <3>6, <2>2 DEF ChosenOf
      <4> QED BY <4>1, <4>2, <3>3, <3>4, <3>6
    <3>7. f[n + 1] = u
      BY <3>1, <3>2, <2>1
    <3> QED BY <3>5, <3>6, <3>7, <2>1 DEF ChosenOf
  <2>5. CASE names[k] \notin S
    <3>1. f[k] = s
      BY <2>1, <2>2, <2>5, <1>2 DEF Taken
    <3>2. ASSUME NEW e
          PROVE (\E i \in 1 .. Len(s) : s[i] = e) <=> e \in S /\ \E j \in 1 .. k : names[j] = e
      <4>1. (\E j \in 1 .. k : names[j] = e) <=> (\E j \in 1 .. n : names[j] = e) \/ names[k] = e
        BY <2>3
      <4>2. (\E i \in 1 .. Len(s) : s[i] = e) <=> e \in S /\ \E j \in 1 .. n : names[j] = e
        BY <2>2 DEF ChosenOf
      <4> QED BY <4>1, <4>2, <2>5
    <3>3. IsInjective(names) => \A i, j \in 1 .. Len(s) : s[i] = s[j] => i = j
      BY <2>2 DEF ChosenOf
    <3>4. ChosenOf(s, names, k, S)
      BY <3>2, <3>3 DEF ChosenOf
    <3>5. k = n + 1 /\ f[n + 1] = s
      BY <3>1, <2>1
    <3> QED BY <3>4, <3>5
  <2> QED BY <2>4, <2>5
<1> HIDE DEF Some
<1>5. 0 \in P
  BY <1>3
<1>6. ASSUME NEW n \in Nat, n \in P PROVE n + 1 \in P
  <2>1. n + 1 <= Len(names) => n <= Len(names)
    BY <1>1
  <2> QED BY <2>1, <1>4, <1>6
<1>7. Len(names) \in P
  <2> HIDE DEF P
  <2> QED BY <1>1, <1>5, <1>6, GoesOn
<1>8. Some(Len(names))
  BY <1>1, <1>7
<1>9. PICK u \in Seq(Functions) : u = Chosen(names, S) /\ ChosenOf(u, names, Len(names), S)
  BY <1>2, <1>8 DEF Some, ChosenOf
<1>10. /\ \A e : (\E i \in 1 .. Len(u) : u[i] = e) <=>
                  e \in S /\ \E j \in 1 .. Len(names) : names[j] = e
       /\ IsInjective(names) => \A i, j \in 1 .. Len(u) : u[i] = u[j] => i = j
  BY <1>9 DEF ChosenOf
<1>11. DOMAIN u = 1 .. Len(u)
  OBVIOUS
<1>12. ToSet(u) = ToSet(names) \cap S
  BY <1>1, <1>10, <1>11 DEF ToSet
<1>13. IsInjective(names) => IsInjective(u)
  BY <1>10, <1>11 DEF IsInjective
<1> QED BY <1>9, <1>12, <1>13

-----------------------------------------------------------------------------
(* The program pool.                                                       *)

PoolTypes ==
  /\ defined \in [Signatures -> Programs \cup {NULL}]
  /\ meta \in [Objects -> Seq(Functions)]

(* The table has the programs that were last defined, each class the names *)
(* of its own.                                                             *)
PoolInv ==
  /\ PoolTypes
  /\ TableInv(hash, Signatures, Programs)
  /\ \A s \in Signatures, v \in Programs : Has(hash, s, v) <=> defined[s] = v
  /\ \A o \in Objects :
       /\ IsInjective(meta[o])
       /\ \A f \in Functions : f \in ToSet(meta[o]) <=> defined[<<o, f>>] # NULL

LEMMA PoolFacts ==
  /\ Signatures \in SUBSET Keys /\ TagSignatures \in SUBSET Keys
  /\ NULL \notin Programs /\ NULL \notin {"tag"}
  /\ \A o \in Objects, f \in Functions : <<o, f>> \in Signatures /\ <<o, f>> \in Keys
  /\ \A s \in Signatures : \E o \in Objects, f \in Functions : s = <<o, f>>
  /\ \A o \in Objects, t \in Tags : <<o, t>> \in TagSignatures /\ <<o, t>> \in Keys
BY DEF Keys, Signatures, TagSignatures, NULL, Programs

(* The look-ups answer by what is defined.                                 *)
LEMMA PoolLookup ==
  ASSUME PoolInv, NEW s \in Signatures
  PROVE  /\ H!Lookup(hash, s) = defined[s]
         /\ H!Lookup(hash, s) = NULL <=> Absent(hash, s)
         /\ H!Lookup(hash, s) # NULL => \E v : Has(hash, s, v)
<1>1. Answers(hash, Programs, s)
  <2>1. PICK t : t = hash
    OBVIOUS
  <2>2. TableInv(t, Signatures, Programs) /\ s \in Keys
    BY <2>1, PoolFacts DEF PoolInv
  <2>3. Signatures \in SUBSET Keys /\ NULL \notin Programs
    BY PoolFacts
  <2>4. Answers(t, Programs, s)
    BY <2>2, <2>3, LookupIs
  <2> QED BY <2>1, <2>4
<1>2. defined[s] \in Programs \cup {NULL}
  BY DEF PoolInv, PoolTypes
<1>3. \A v \in Programs : H!Lookup(hash, s) = v <=> defined[s] = v
  BY <1>1 DEF PoolInv, Answers
<1>4. H!Lookup(hash, s) = defined[s]
  BY <1>1, <1>2, <1>3 DEF Answers
<1> QED BY <1>1, <1>4 DEF Answers

LEMMA InitPool == Init => PoolInv
<1> SUFFICES ASSUME Init PROVE PoolInv
  OBVIOUS
<1>1. PoolTypes
  BY EmptySeq DEF Init, PoolTypes
<1>2. TableInv(hash, Signatures, Programs) /\ H!Entries(hash) = {}
  BY CapacityAssumption, TableIsEmpty DEF Init
<1>3. \A s, v : ~Has(hash, s, v)
  BY <1>2 DEF Has
<1>4. \A s \in Signatures, v \in Programs : defined[s] # v
  BY PoolFacts DEF Init
<1>5. ASSUME NEW o \in Objects PROVE IsInjective(meta[o]) /\ ToSet(meta[o]) = {}
  <2>1. meta[o] = << >>
    BY DEF Init
  <2>2. DOMAIN << >> = {}
    OBVIOUS
  <2> QED BY <2>1, <2>2 DEF IsInjective, ToSet
<1>6. \A o \in Objects, f \in Functions : defined[<<o, f>>] = NULL
  BY PoolFacts DEF Init
<1> QED BY <1>1, <1>2, <1>3, <1>4, <1>5, <1>6 DEF PoolInv

(* A table with the same entries will do.                                  *)
SameEntries(t, u) == TableInv(u, Signatures, Programs) /\ \A q, w : Has(u, q, w) <=> Has(t, q, w)

LEMMA SwapIsSame ==
  ASSUME NEW t, TableInv(t, Signatures, Programs), NEW key \in Signatures
  PROVE  SameEntries(t, H!Swap(t, key))
<1>1. key \in Keys
  BY PoolFacts
<1>2. /\ TableInv(H!Swap(t, key), Signatures, Programs)
      /\ \A q, w : Has(H!Swap(t, key), q, w) <=> Has(t, q, w)
  BY <1>1, PoolFacts, SwapKeeps
<1> QED BY <1>2 DEF SameEntries

LEMMA PoolGet ==
  ASSUME PoolInv, NEW o \in Objects, NEW f \in Functions, Get(o, f)
  PROVE  PoolInv'
<1>1. SameEntries(hash, hash')
  <2>1. PICK t : t = hash
    OBVIOUS
  <2>2. TableInv(t, Signatures, Programs)
    BY <2>1 DEF PoolInv
  <2>3. <<o, f>> \in Signatures /\ <<Object, f>> \in Signatures
    BY ObjectAssumption, PoolFacts
  <2>4. SameEntries(t, H!Swap(t, <<o, f>>)) /\ SameEntries(t, H!Swap(t, <<Object, f>>))
    <3>1. PICK p \in Signatures, q \in Signatures : p = <<o, f>> /\ q = <<Object, f>>
      BY <2>3
    <3>2. SameEntries(t, H!Swap(t, p)) /\ SameEntries(t, H!Swap(t, q))
      BY <2>2, SwapIsSame
    <3> QED BY <3>1, <3>2
  <2>5. hash' = H!Swap(hash, <<o, f>>) \/ hash' = H!Swap(hash, <<Object, f>>)
    BY DEF Get, Searched
  <2> QED BY <2>1, <2>4, <2>5
<1>2. UNCHANGED <<meta, defined>>
  BY DEF Get
<1> QED BY <1>1, <1>2 DEF PoolInv, PoolTypes, SameEntries

LEMMA PoolPut ==
  ASSUME PoolInv, NEW o \in Objects, NEW f \in Functions, NEW p \in Programs, Put(o, f, p)
  PROVE  PoolInv'
<1> DEFINE s == <<o, f>>
<1>0. s \in Signatures /\ Signatures \in SUBSET Keys
  BY PoolFacts
<1>1. CASE UNCHANGED <<hash, meta, defined>>
  BY <1>1 DEF PoolInv, PoolTypes
<1>2. CASE /\ H!Lookup(hash, s) = NULL
           /\ hash' = H!Put(hash, s, p)
           /\ meta' = [meta EXCEPT ![o] = Append(@, f)]
           /\ defined' = [defined EXCEPT ![s] = p]
  <2>1. /\ TableInv(hash', Signatures, Programs)
        /\ \A q, w : Has(hash', q, w) <=> Has(hash, q, w) \/ (q = s /\ w = p)
    <3>0. PICK t : t = hash
      OBVIOUS
    <3>1. PICK key \in Signatures : t = hash /\ key = s
      BY <3>0, <1>0
    <3>2. TableInv(t, Signatures, Programs) /\ Absent(t, key)
      BY <3>1, <1>2, PoolLookup DEF PoolInv
    <3>3. /\ TableInv(H!Put(t, key, p), Signatures, Programs)
          /\ HasAlso(t, H!Put(t, key, p), key, p)
      BY <3>2, <1>0, PutKeeps
    <3> QED BY <3>1, <3>3, <1>2 DEF HasAlso
  <2>2. defined[s] = NULL
    BY <1>0, <1>2, PoolLookup
  <2> HIDE DEF s
  <2>3. /\ defined' \in [Signatures -> Programs \cup {NULL}]
        /\ defined'[s] = p
        /\ \A q \in Signatures : q # s => defined'[q] = defined[q]
    BY <1>0, <1>2 DEF PoolInv, PoolTypes
  <2>4. ASSUME NEW q \in Signatures, NEW v \in Programs PROVE Has(hash', q, v) <=> defined'[q] = v
    <3>1. Has(hash, q, v) <=> defined[q] = v
      BY DEF PoolInv
    <3>2. CASE q = s
      <4>1. ~Has(hash, q, v)
        BY <3>1, <3>2, <2>2, PoolFacts
      <4> QED BY <4>1, <3>2, <2>1, <2>3
    <3>3. CASE q # s
      BY <3>1, <3>3, <2>1, <2>3
    <3> QED BY <3>2, <3>3
  <2>5. PICK m \in Seq(Functions) : m = meta[o]
    BY DEF PoolInv, PoolTypes
  <2>6. /\ meta' \in [Objects -> Seq(Functions)] /\ meta'[o] = Append(m, f)
        /\ \A a \in Objects : a # o => meta'[a] = meta[a]
    <3>1. Append(m, f) \in Seq(Functions)
      BY AppendProperties
    <3> QED BY <3>1, <2>5, <1>2 DEF PoolInv, PoolTypes
  <2>7. /\ IsInjective(m) /\ f \notin ToSet(m)
        /\ \A g \in Functions : g \in ToSet(m) <=> defined[<<o, g>>] # NULL
    BY <2>2, <2>5 DEF PoolInv, s
  <2>8. IsInjective(Append(m, f)) /\ ToSet(Append(m, f)) = ToSet(m) \cup {f}
    <3>1. PICK u \in Seq(Functions) : u = Append(m, f)
      BY AppendProperties
    <3>2. /\ Len(m) \in Nat /\ Len(u) = Len(m) + 1 /\ u[Len(m) + 1] = f
          /\ \A i \in 1 .. Len(m) : u[i] = m[i]
      BY <3>1, AppendProperties
    <3>3. DOMAIN u = 1 .. Len(u) /\ DOMAIN m = 1 .. Len(m)
      OBVIOUS
    <3>4. 1 .. Len(u) = (1 .. Len(m)) \cup {Len(m) + 1}
      BY <3>2
    <3>5. ToSet(u) = ToSet(m) \cup {f}
      BY <3>2, <3>3, <3>4 DEF ToSet
    <3>6. \A i \in 1 .. Len(m) : m[i] # f
      BY <2>7, <3>3 DEF ToSet
    <3>7. IsInjective(u)
      BY <2>7, <3>2, <3>3, <3>4, <3>6 DEF IsInjective
    <3> QED BY <3>1, <3>5, <3>7
  <2>9. ASSUME NEW a \in Objects
        PROVE /\ IsInjective(meta'[a])
              /\ \A g \in Functions : g \in ToSet(meta'[a]) <=> defined'[<<a, g>>] # NULL
    <3>1. CASE a = o
      <4>1. ASSUME NEW g \in Functions PROVE g \in ToSet(meta'[a]) <=> defined'[<<a, g>>] # NULL
        <5>1. CASE g = f
          BY <5>1, <3>1, <2>3, <2>6, <2>8, PoolFacts DEF s
        <5>2. CASE g # f
          <6>1. <<o, g>> \in Signatures /\ <<o, g>> # s
            BY <5>2, PoolFacts DEF s
          <6> QED BY <5>2, <6>1, <3>1, <2>3, <2>6, <2>7, <2>8
        <5> QED BY <5>1, <5>2
      <4> QED BY <4>1, <3>1, <2>6, <2>8
    <3>2. CASE a # o
      <4>1. \A g \in Functions : <<a, g>> \in Signatures /\ <<a, g>> # s
        BY <3>2, PoolFacts DEF s
      <4> QED BY <4>1, <3>2, <2>3, <2>6 DEF PoolInv
    <3> QED BY <3>1, <3>2
  <2> QED BY <2>1, <2>3, <2>4, <2>6, <2>9 DEF PoolInv, PoolTypes
<1> QED BY <1>1, <1>2 DEF Put

LEMMA PoolReplace ==
  ASSUME PoolInv, NEW o \in Objects, NEW f \in Functions, Replace(o, f)
  PROVE  PoolInv'
<1> DEFINE s == <<o, f>>
<1>0. s \in Signatures /\ Signatures \in SUBSET Keys /\ "native" \in Programs
  BY PoolFacts DEF Programs
<1>1. CASE H!Lookup(hash, s) = NULL
  <2>1. Put(o, f, "native")
    BY <1>1 DEF Replace
  <2> QED BY <2>1, <1>0, PoolPut
<1>2. CASE H!Lookup(hash, s) # NULL
  <2>1. /\ hash' = Revalued(H!Swap(hash, s), s, "native")
        /\ defined' = [defined EXCEPT ![s] = "native"]
        /\ UNCHANGED meta
    BY <1>2 DEF Replace, Revalued
  <2>2. PICK t : t = hash
    OBVIOUS
  <2>3. PICK key \in Signatures : key = s
    BY <1>0
  <2>4. PICK u : u = H!Swap(t, key)
    OBVIOUS
  <2>5. TableInv(u, Signatures, Programs) /\ \A q, w : Has(u, q, w) <=> Has(t, q, w)
    <3>1. TableInv(t, Signatures, Programs)
      BY <2>2 DEF PoolInv
    <3>2. SameEntries(t, H!Swap(t, key))
      BY <3>1, SwapIsSame
    <3> QED BY <3>2, <2>4 DEF SameEntries
  <2>6. ~Absent(u, key)
    <3>1. PICK w : Has(hash, s, w)
      BY <1>0, <1>2, PoolLookup
    <3>2. Has(u, key, w)
      BY <3>1, <2>2, <2>3, <2>5
    <3> QED BY <3>2 DEF Has, Absent
  <2>7. PICK p \in Programs : p = "native"
    BY <1>0
  <2>8. /\ TableInv(Revalued(u, key, p), Signatures, Programs)
        /\ HasInstead(u, Revalued(u, key, p), key, p)
    <3>1. key \in Keys
      BY <1>0
    <3> QED BY <3>1, <1>0, <2>5, <2>6, RevaluedKeeps
  <2>9. hash' = Revalued(u, key, p)
    BY <2>1, <2>2, <2>3, <2>4, <2>7
  <2> HIDE DEF s
  <2>10. /\ defined' \in [Signatures -> Programs \cup {NULL}]
         /\ defined'[s] = p
         /\ \A q \in Signatures : q # s => defined'[q] = defined[q]
    BY <1>0, <2>1, <2>7 DEF PoolInv, PoolTypes
  <2>11. ASSUME NEW q \in Signatures, NEW v \in Programs PROVE Has(hash', q, v) <=> defined'[q] = v
    <3>1. Has(hash, q, v) <=> defined[q] = v
      BY DEF PoolInv
    <3> QED BY <3>1, <2>2, <2>3, <2>5, <2>8, <2>9, <2>10 DEF HasInstead
  <2>12. defined[s] # NULL
    BY <1>0, <1>2, PoolLookup
  <2>13. ASSUME NEW a \in Objects, NEW g \in Functions
         PROVE g \in ToSet(meta'[a]) <=> defined'[<<a, g>>] # NULL
    <3>1. g \in ToSet(meta[a]) <=> defined[<<a, g>>] # NULL
      BY DEF PoolInv
    <3>2. <<a, g>> \in Signatures /\ p # NULL
      BY <2>7, PoolFacts
    <3> QED BY <3>1, <3>2, <2>1, <2>10, <2>12
  <2> QED BY <2>1, <2>8, <2>9, <2>10, <2>11, <2>13 DEF PoolInv, PoolTypes
<1> QED BY <1>1, <1>2

(* The programs of a class that have some names are gone, and the others   *)
(* remain.                                                                 *)
LEMMA Undefined ==
  ASSUME PoolInv, NEW o \in Objects, NEW names \in Seq(Functions), NEW t,
         TableInv(t, Signatures, Programs), \A q, w : Has(t, q, w) <=> Has(hash, q, w),
         hash' = Without(t, o, names), Undefine(o, names)
  PROVE  /\ TableInv(hash', Signatures, Programs)
         /\ defined' \in [Signatures -> Programs \cup {NULL}]
         /\ \A s \in Signatures, v \in Programs : Has(hash', s, v) <=> defined'[s] = v
         /\ \A a \in Objects, f \in Functions :
              defined'[<<a, f>>] =
                IF a = o /\ f \in ToSet(names) THEN NULL ELSE defined[<<a, f>>]
<1>1. /\ TableInv(hash', Signatures, Programs)
      /\ \A q, w : Has(hash', q, w) <=>
           Has(t, q, w) /\ \A i \in 1 .. Len(names) : q # <<o, names[i]>>
  <2>1. /\ TableInv(Without(t, o, names), Signatures, Programs)
        /\ \A q, w : Has(Without(t, o, names), q, w) <=>
             Has(t, q, w) /\ \A i \in 1 .. Len(names) : q # <<o, names[i]>>
    BY WithoutKeeps
  <2> QED BY <2>1
<1>2. defined' = [s \in Signatures |->
                    IF s[1] = o /\ s[2] \in ToSet(names) THEN NULL ELSE defined[s]]
  BY DEF Undefine
<1>3. defined' \in [Signatures -> Programs \cup {NULL}]
  BY <1>2 DEF PoolInv, PoolTypes
<1>4. ASSUME NEW a \in Objects, NEW f \in Functions
      PROVE defined'[<<a, f>>] = IF a = o /\ f \in ToSet(names) THEN NULL ELSE defined[<<a, f>>]
  <2>1. <<a, f>> \in Signatures /\ <<a, f>>[1] = a /\ <<a, f>>[2] = f
    BY PoolFacts
  <2> QED BY <1>2, <2>1
<1>5. ASSUME NEW s \in Signatures, NEW v \in Programs PROVE Has(hash', s, v) <=> defined'[s] = v
  <2>1. PICK a \in Objects, f \in Functions : s = <<a, f>>
    BY PoolFacts
  <2>2. (\A i \in 1 .. Len(names) : s # <<o, names[i]>>) <=> ~(a = o /\ f \in ToSet(names))
    <3>1. DOMAIN names = 1 .. Len(names)
      OBVIOUS
    <3> QED BY <2>1, <3>1 DEF ToSet
  <2>3. Has(t, s, v) <=> defined[s] = v
    BY DEF PoolInv
  <2> QED BY <1>1, <1>4, <2>1, <2>2, <2>3, PoolFacts
<1> QED BY <1>1, <1>3, <1>4, <1>5

LEMMA PoolPurge ==
  ASSUME PoolInv, NEW o \in Objects, Purge(o)
  PROVE  PoolInv'
<1>1. PICK names \in Seq(Functions) : names = meta[o]
  BY DEF PoolInv, PoolTypes
<1>2. hash' = Without(hash, o, names) /\ Undefine(o, names) /\ meta' = [meta EXCEPT ![o] = << >>]
  BY <1>1 DEF Purge
<1>3. /\ TableInv(hash', Signatures, Programs)
      /\ defined' \in [Signatures -> Programs \cup {NULL}]
      /\ \A s \in Signatures, v \in Programs : Has(hash', s, v) <=> defined'[s] = v
      /\ \A a \in Objects, f \in Functions :
           defined'[<<a, f>>] = IF a = o /\ f \in ToSet(names) THEN NULL ELSE defined[<<a, f>>]
  BY <1>2, Undefined DEF PoolInv
<1>4. /\ meta' \in [Objects -> Seq(Functions)] /\ meta'[o] = << >>
      /\ \A a \in Objects : a # o => meta'[a] = meta[a]
  BY <1>2, EmptySeq DEF PoolInv, PoolTypes
<1>5. ASSUME NEW a \in Objects
      PROVE  /\ IsInjective(meta'[a])
             /\ \A f \in Functions : f \in ToSet(meta'[a]) <=> defined'[<<a, f>>] # NULL
  <2>1. /\ IsInjective(meta[a])
        /\ \A f \in Functions : f \in ToSet(meta[a]) <=> defined[<<a, f>>] # NULL
    BY DEF PoolInv
  <2>2. CASE a = o
    <3>1. DOMAIN << >> = {}
      OBVIOUS
    <3>2. IsInjective(meta'[a]) /\ ToSet(meta'[a]) = {}
      BY <2>2, <3>1, <1>4 DEF IsInjective, ToSet
    <3> QED BY <2>1, <2>2, <3>2, <1>1, <1>3
  <2>3. CASE a # o
    BY <2>1, <2>3, <1>3, <1>4
  <2> QED BY <2>2, <2>3
<1> QED BY <1>3, <1>4, <1>5 DEF PoolInv, PoolTypes

LEMMA PoolRemove ==
  ASSUME PoolInv, NEW o \in Objects, RemoveDefinition(o)
  PROVE  PoolInv'
<1> DEFINE S == {f \in Functions : H!Lookup(hash, <<o, f>>) = "script"}
<1>1. PICK names \in Seq(Functions) : names = meta[o]
  BY DEF PoolInv, PoolTypes
<1>2. PICK scripts \in Seq(Functions) : scripts = Chosen(names, S) /\ ToSet(scripts) = ToSet(names) \cap S
  <2> HIDE DEF S
  <2> QED BY ChosenIs
<1>3. /\ hash' = Without(LookedUp(hash, o, names), o, scripts)
      /\ Undefine(o, scripts)
      /\ meta' = [meta EXCEPT ![o] = Chosen(meta[o], Functions \ ToSet(scripts))]
  BY <1>1, <1>2 DEF RemoveDefinition
<1>4. PICK t : t = LookedUp(hash, o, names)
  OBVIOUS
<1>5. TableInv(t, Signatures, Programs) /\ \A q, w : Has(t, q, w) <=> Has(hash, q, w)
  BY <1>4, LookedUpKeeps DEF PoolInv
<1> HIDE DEF S
<1>6. /\ TableInv(hash', Signatures, Programs)
      /\ defined' \in [Signatures -> Programs \cup {NULL}]
      /\ \A s \in Signatures, v \in Programs : Has(hash', s, v) <=> defined'[s] = v
      /\ \A a \in Objects, f \in Functions :
           defined'[<<a, f>>] = IF a = o /\ f \in ToSet(scripts) THEN NULL ELSE defined[<<a, f>>]
  BY <1>3, <1>4, <1>5, Undefined
<1>7. PICK rest \in Seq(Functions) :
        /\ rest = Chosen(names, Functions \ ToSet(scripts))
        /\ ToSet(rest) = ToSet(names) \cap (Functions \ ToSet(scripts))
        /\ IsInjective(names) => IsInjective(rest)
  BY ChosenIs
<1>8. /\ meta' \in [Objects -> Seq(Functions)] /\ meta'[o] = rest
      /\ \A a \in Objects : a # o => meta'[a] = meta[a]
  BY <1>1, <1>3, <1>7 DEF PoolInv, PoolTypes
<1>9. ASSUME NEW a \in Objects
      PROVE  /\ IsInjective(meta'[a])
             /\ \A f \in Functions : f \in ToSet(meta'[a]) <=> defined'[<<a, f>>] # NULL
  <2>1. /\ IsInjective(meta[a])
        /\ \A f \in Functions : f \in ToSet(meta[a]) <=> defined[<<a, f>>] # NULL
    BY DEF PoolInv
  <2>2. CASE a = o
    BY <2>1, <2>2, <1>1, <1>6, <1>7, <1>8
  <2>3. CASE a # o
    BY <2>1, <2>3, <1>6, <1>8
  <2> QED BY <2>2, <2>3
<1> QED BY <1>6, <1>8, <1>9 DEF PoolInv, PoolTypes

-----------------------------------------------------------------------------
(* The tag system.                                                         *)

Groups == Range(TagGroup)

TagTypes ==
  /\ tagged \in SUBSET TagSignatures
  /\ inverse_tag_table \in [Tags -> SUBSET Objects]
  /\ bound_tag_system \in
       [Objects -> [bitset : SUBSET Groups, tag_group : [Groups -> SUBSET Tags]]]

(* An object that has a tag has the bit of its group, and no tag is in the *)
(* group of an object that does not have it.                               *)
TagInv ==
  /\ TagTypes
  /\ TableInv(tag_table, TagSignatures, {"tag"})
  /\ \A s \in TagSignatures : Has(tag_table, s, "tag") <=> s \in tagged
  /\ \A o \in Objects, t \in Tags :
       /\ <<o, t>> \in tagged <=> o \in inverse_tag_table[t]
       /\ <<o, t>> \in tagged <=> t \in bound_tag_system[o].tag_group[TagGroup[t]]
       /\ <<o, t>> \in tagged => TagGroup[t] \in bound_tag_system[o].bitset
  /\ tag_tree = {t \in Tags : inverse_tag_table[t] # {}}

LEMMA GroupIs == \A t \in Tags : TagGroup[t] \in Groups
BY GroupAssumption DEF Groups, Range

LEMMA TagLookup ==
  ASSUME TagInv, NEW s \in TagSignatures
  PROVE  /\ H!Lookup(tag_table, s) # NULL <=> s \in tagged
         /\ H!Lookup(tag_table, s) = NULL <=> Absent(tag_table, s)
<1>1. Answers(tag_table, {"tag"}, s)
  <2>1. PICK t : t = tag_table
    OBVIOUS
  <2>2. TableInv(t, TagSignatures, {"tag"}) /\ s \in Keys
    BY <2>1, PoolFacts DEF TagInv
  <2>3. TagSignatures \in SUBSET Keys /\ NULL \notin {"tag"}
    BY PoolFacts
  <2>4. Answers(t, {"tag"}, s)
    BY <2>2, <2>3, LookupIs
  <2> QED BY <2>1, <2>4
<1> QED BY <1>1, PoolFacts DEF TagInv, Answers

LEMMA InitTags == Init => TagInv
<1> SUFFICES ASSUME Init PROVE TagInv
  OBVIOUS
<1>1. TagTypes
  <2>1. PICK b : b = [bitset |-> {}, tag_group |-> [g \in Groups |-> {}]]
    OBVIOUS
  <2>2. b \in [bitset : SUBSET Groups, tag_group : [Groups -> SUBSET Tags]]
    BY <2>1
  <2>3. bound_tag_system = [o \in Objects |-> b]
    BY <2>1 DEF Init, Groups
  <2> QED BY <2>2, <2>3 DEF Init, TagTypes
<1>2. TableInv(tag_table, TagSignatures, {"tag"}) /\ H!Entries(tag_table) = {}
  BY CapacityAssumption, TableIsEmpty DEF Init
<1>3. \A s : ~Has(tag_table, s, "tag")
  BY <1>2 DEF Has
<1>4. ASSUME NEW o \in Objects, NEW t \in Tags
      PROVE  t \notin bound_tag_system[o].tag_group[TagGroup[t]]
  BY GroupIs DEF Init, Groups
<1> QED BY <1>1, <1>2, <1>3, <1>4 DEF Init, TagInv

(* A search leaves the entries there are.                                  *)
LEMMA TagSwap ==
  ASSUME TagInv, NEW s \in TagSignatures, tag_table' = H!Swap(tag_table, s),
         UNCHANGED <<inverse_tag_table, tag_tree, bound_tag_system, tagged>>
  PROVE  TagInv'
<1>1. /\ TableInv(tag_table', TagSignatures, {"tag"})
      /\ \A q, w : Has(tag_table', q, w) <=> Has(tag_table, q, w)
  <2>1. PICK t : t = tag_table
    OBVIOUS
  <2>2. TableInv(t, TagSignatures, {"tag"}) /\ s \in Keys /\ TagSignatures \in SUBSET Keys
    BY <2>1, PoolFacts DEF TagInv
  <2>3. /\ TableInv(H!Swap(t, s), TagSignatures, {"tag"})
        /\ \A q, w : Has(H!Swap(t, s), q, w) <=> Has(t, q, w)
    BY <2>2, SwapKeeps
  <2> QED BY <2>1, <2>3
<1> QED BY <1>1 DEF TagInv, TagTypes

(* A tag is added to the four views.                                       *)
LEMMA TagAdded ==
  ASSUME TagInv, NEW o \in Objects, NEW t \in Tags,
         H!Lookup(tag_table, <<o, t>>) = NULL, AddTag(o, t)
  PROVE  TagInv'
<1> DEFINE s == <<o, t>>
           g == TagGroup[t]
<1>0. s \in TagSignatures /\ g \in Groups /\ TagSignatures \in SUBSET Keys
  BY PoolFacts, GroupIs
<1>1. /\ tag_table' = H!Put(tag_table, s, "tag")
      /\ inverse_tag_table' = [inverse_tag_table EXCEPT ![t] = @ \cup {o}]
      /\ tag_tree' = tag_tree \cup {t}
      /\ bound_tag_system' = [bound_tag_system EXCEPT ![o].bitset = @ \cup {g},
                                                      ![o].tag_group[g] = @ \cup {t}]
      /\ tagged' = tagged \cup {s}
  BY DEF AddTag
<1>2. /\ TableInv(tag_table', TagSignatures, {"tag"})
      /\ \A q, w : Has(tag_table', q, w) <=> Has(tag_table, q, w) \/ (q = s /\ w = "tag")
  <2>0. PICK u : u = tag_table
    OBVIOUS
  <2>1. PICK key \in TagSignatures : u = tag_table /\ key = s
    BY <1>0, <2>0
  <2>2. TableInv(u, TagSignatures, {"tag"}) /\ Absent(u, key)
    BY <2>1, TagLookup DEF TagInv
  <2>3. "tag" \in {"tag"}
    OBVIOUS
  <2>4. /\ TableInv(H!Put(u, key, "tag"), TagSignatures, {"tag"})
        /\ HasAlso(u, H!Put(u, key, "tag"), key, "tag")
    BY <2>2, <2>3, <1>0, PutKeeps
  <2> QED BY <2>1, <2>4, <1>1 DEF HasAlso
<1>3. PICK b \in [bitset : SUBSET Groups, tag_group : [Groups -> SUBSET Tags]] :
        b = bound_tag_system[o]
  BY DEF TagInv, TagTypes
<1> DEFINE n == [b EXCEPT !.bitset = @ \cup {g}, !.tag_group[g] = @ \cup {t}]
<1>4. bound_tag_system' = [bound_tag_system EXCEPT ![o] = n]
  <2>1. /\ bound_tag_system \in
             [Objects -> [bitset : SUBSET Groups, tag_group : [Groups -> SUBSET Tags]]]
    BY DEF TagInv, TagTypes
  <2> HIDE DEF g
  <2> QED BY <2>1, <1>1, <1>3
<1>5. n \in [bitset : SUBSET Groups, tag_group : [Groups -> SUBSET Tags]]
  <2>1. [b.tag_group EXCEPT ![g] = @ \cup {t}] \in [Groups -> SUBSET Tags]
    BY <1>0
  <2>2. n.bitset = b.bitset \cup {g} /\ n.tag_group = [b.tag_group EXCEPT ![g] = @ \cup {t}]
    OBVIOUS
  <2> QED BY <2>1, <2>2, <1>0
<1>6. /\ n.bitset = b.bitset \cup {g}
      /\ \A h \in Groups : n.tag_group[h] = IF h = g THEN b.tag_group[h] \cup {t}
                                                    ELSE b.tag_group[h]
  BY <1>0
<1> HIDE DEF n
<1>7. /\ bound_tag_system'[o] = n
      /\ \A a \in Objects : a # o => bound_tag_system'[a] = bound_tag_system[a]
      /\ bound_tag_system' \in
           [Objects -> [bitset : SUBSET Groups, tag_group : [Groups -> SUBSET Tags]]]
  BY <1>4, <1>5 DEF TagInv, TagTypes
<1>8. /\ inverse_tag_table' \in [Tags -> SUBSET Objects]
      /\ inverse_tag_table'[t] = inverse_tag_table[t] \cup {o}
      /\ \A u \in Tags : u # t => inverse_tag_table'[u] = inverse_tag_table[u]
  BY <1>1 DEF TagInv, TagTypes
<1>9. tagged' \in SUBSET TagSignatures
  BY <1>0, <1>1 DEF TagInv, TagTypes
<1>10. ASSUME NEW q \in TagSignatures PROVE Has(tag_table', q, "tag") <=> q \in tagged'
  BY <1>1, <1>2 DEF TagInv
<1>11. ASSUME NEW a \in Objects, NEW u \in Tags
       PROVE  /\ <<a, u>> \in tagged' <=> a \in inverse_tag_table'[u]
              /\ <<a, u>> \in tagged' <=> u \in bound_tag_system'[a].tag_group[TagGroup[u]]
              /\ <<a, u>> \in tagged' => TagGroup[u] \in bound_tag_system'[a].bitset
  <2>1. /\ <<a, u>> \in tagged <=> a \in inverse_tag_table[u]
        /\ <<a, u>> \in tagged <=> u \in bound_tag_system[a].tag_group[TagGroup[u]]
        /\ <<a, u>> \in tagged => TagGroup[u] \in bound_tag_system[a].bitset
        /\ TagGroup[u] \in Groups
    BY GroupIs DEF TagInv
  <2>2. <<a, u>> \in tagged' <=> <<a, u>> \in tagged \/ (a = o /\ u = t)
    BY <1>1
  <2>3. <<a, u>> \in tagged' <=> a \in inverse_tag_table'[u]
    BY <2>1, <2>2, <1>8
  <2>4. CASE a # o
    BY <2>1, <2>2, <2>3, <2>4, <1>7
  <2>5. CASE a = o
    <3>1. u \in n.tag_group[TagGroup[u]] <=> u \in b.tag_group[TagGroup[u]] \/ u = t
      <4>1. PICK h \in Groups : h = TagGroup[u]
        BY <2>1
      <4>2. n.tag_group[h] = IF h = g THEN b.tag_group[h] \cup {t} ELSE b.tag_group[h]
        BY <1>6
      <4>3. u = t => h = g
        BY <4>1
      <4> HIDE DEF g
      <4> QED BY <4>1, <4>2, <4>3
    <3>2. u = t => TagGroup[u] \in n.bitset
      BY <1>6
    <3> HIDE DEF s, g
    <3> QED BY <2>1, <2>2, <2>3, <2>5, <3>1, <3>2, <1>3, <1>6, <1>7
  <2> QED BY <2>4, <2>5
<1>12. tag_tree' = {u \in Tags : inverse_tag_table'[u] # {}}
  <2>1. tag_tree = {u \in Tags : inverse_tag_table[u] # {}}
    BY DEF TagInv
  <2> QED BY <2>1, <1>1, <1>8
<1> QED BY <1>2, <1>7, <1>8, <1>9, <1>10, <1>11, <1>12 DEF TagInv, TagTypes

-----------------------------------------------------------------------------
(* All steps.                                                              *)

Inv == PoolInv /\ TagInv

LEMMA PoolStep == ASSUME Inv, PoolNext PROVE Inv'
<1>1. TagInv'
  <2>1. UNCHANGED tags
    BY DEF PoolNext, Get, Put, Replace, Purge, RemoveDefinition, Lock
  <2> QED BY <2>1 DEF Inv, TagInv, TagTypes, tags
<1>2. ASSUME NEW o \in Objects, NEW f \in Functions,
             Get(o, f) \/ Put(o, f, "script") \/ Replace(o, f)
      PROVE  PoolInv'
  <2>1. "script" \in Programs
    BY DEF Programs
  <2> QED BY <1>2, <2>1, PoolGet, PoolPut, PoolReplace DEF Inv
<1>3. ASSUME NEW o \in Objects, Purge(o) \/ RemoveDefinition(o) PROVE PoolInv'
  BY <1>3, PoolPurge, PoolRemove DEF Inv
<1>4. ASSUME Lock PROVE PoolInv'
  <2>1. UNCHANGED <<hash, meta, defined>>
    BY <1>4 DEF Lock
  <2> QED BY <2>1 DEF Inv, PoolInv, PoolTypes
<1> QED BY <1>1, <1>2, <1>3, <1>4 DEF PoolNext, Inv

LEMMA TagStep == ASSUME Inv, TagNext PROVE Inv'
<1>1. PICK o \in Objects, t \in Tags : AddTag(o, t) \/ HasTag(o, t)
  BY DEF TagNext
<1>2. UNCHANGED pool
  BY <1>1 DEF AddTag, HasTag, pool
<1>3. PoolInv'
  BY <1>2 DEF Inv, PoolInv, PoolTypes, pool
<1>4. <<o, t>> \in TagSignatures
  BY PoolFacts
<1>5. CASE HasTag(o, t)
  BY <1>3, <1>4, <1>5, TagSwap DEF HasTag, Inv
<1>6. CASE AddTag(o, t) /\ H!Lookup(tag_table, <<o, t>>) # NULL
  <2>1. /\ tag_table' = H!Swap(tag_table, <<o, t>>)
        /\ UNCHANGED <<inverse_tag_table, tag_tree, bound_tag_system, tagged>>
    BY <1>6 DEF AddTag
  <2> QED BY <2>1, <1>3, <1>4, TagSwap DEF Inv
<1>7. CASE AddTag(o, t) /\ H!Lookup(tag_table, <<o, t>>) = NULL
  BY <1>3, <1>7, TagAdded DEF Inv
<1> QED BY <1>1, <1>5, <1>6, <1>7

LEMMA StepKeeps == Inv /\ [Next]_vars => Inv'
<1>1. CASE UNCHANGED vars
  BY <1>1 DEF vars, pool, tags, Inv, PoolInv, PoolTypes, TagInv, TagTypes
<1> QED BY <1>1, PoolStep, TagStep DEF Next

LEMMA Invariant == Spec => []Inv
<1>1. Init => Inv
  BY InitPool, InitTags DEF Inv
<1> QED BY <1>1, StepKeeps, PTL DEF Spec

-----------------------------------------------------------------------------

(* An entry for each program that is defined, and no other.                *)
LEMMA OneEntryEach ==
  ASSUME PoolInv
  PROVE  Cardinality(H!Entries(hash)) = Cardinality({s \in Signatures : defined[s] # NULL})
<1> DEFINE E == H!Entries(hash)
           D == {s \in Signatures : defined[s] # NULL}
           key == [k \in E |-> hash.data[k].key]
<1>1. TableType(hash, Signatures, Programs) /\ First(hash)
  BY DEF PoolInv, TableInv
<1>2. /\ IsFiniteSet(E) /\ E \subseteq Used(hash)
      /\ \A k \in E : /\ hash.data[k].key \in Signatures /\ hash.data[k].value \in Programs
                      /\ hash.data[k].state = "ACTIVE"
  BY <1>1, UsedFacts, FS_Subset
<1>3. ASSUME NEW k \in E PROVE key[k] \in D
  <2>1. Has(hash, key[k], hash.data[k].value)
    BY DEF Has
  <2> QED BY <2>1, <1>2, PoolFacts DEF PoolInv
<1>4. ASSUME NEW k \in E, NEW j \in E, key[k] = key[j] PROVE k = j
  BY <1>1, <1>2, <1>4 DEF First
<1>5. ASSUME NEW s \in D PROVE \E k \in E : key[k] = s
  <2>1. Has(hash, s, defined[s])
    BY DEF PoolInv, PoolTypes
  <2> QED BY <2>1 DEF Has
<1>6. ExistsBijection(E, D)
  <2>1. key \in [E -> D] /\ IsInjective(key) /\ \A s \in D : \E k \in E : key[k] = s
    BY <1>3, <1>4, <1>5 DEF IsInjective
  <2> HIDE DEF key, E, D
  <2>2. key \in Bijection(E, D)
    BY <2>1 DEF Bijection, Injection, Surjection, IsInjective
  <2> QED BY <2>2 DEF ExistsBijection
<1> HIDE DEF E, D
<1>7. Cardinality(E) = Cardinality(D)
  BY <1>2, <1>6, FS_Bijection
<1> QED BY <1>7 DEF E, D

(* The tables keep their entries, for any classes, names, tags and hashes, *)
(* and a capacity of four or more: a look-up finds what was put last, and  *)
(* what was deleted is not found, whatever the ghosts that remain and the  *)
(* entries that were moved (fasthash_get, fasthash_put, fasthash_delete).  *)
THEOREM TableKeepsEntries == Spec => []KeepsEntries
<1>1. Inv => KeepsEntries
  <2> SUFFICES ASSUME Inv PROVE KeepsEntries
    OBVIOUS
  <2>1. \A s \in Signatures : H!Lookup(hash, s) = defined[s]
    BY PoolLookup DEF Inv
  <2>2. \A s \in TagSignatures : H!Lookup(tag_table, s) # NULL <=> s \in tagged
    BY TagLookup DEF Inv
  <2>3. ASSUME NEW t, NEW K, NEW V, TableInv(t, K, V)
        PROVE  H!SPARSITY * Cardinality({k \in DOMAIN t.data : t.data[k].state # "BLANK"})
                 <= t.capacity
    <3>1. {k \in DOMAIN t.data : t.data[k].state # "BLANK"} = Used(t)
      BY <2>3 DEF TableInv, TableType, Used
    <3> QED BY <2>3, <3>1 DEF TableInv, Room
  <2>4. \A t \in {hash, tag_table} :
          H!SPARSITY * Cardinality({k \in DOMAIN t.data : t.data[k].state # "BLANK"}) <= t.capacity
    BY <2>3 DEF Inv, PoolInv, TagInv
  <2> QED BY <2>1, <2>2, <2>4, OneEntryEach DEF Inv, KeepsEntries
<1> QED BY <1>1, Invariant, PTL

(* The views of classes agree: the names that a class lists are those of   *)
(* the programs it has, each once, also after its scripts were removed for *)
(* it to be compiled again, and the tables, sets and bits that tell what   *)
(* tags there are all tell the same (program_pool.c, tag_system.c).        *)
THEOREM ViewsStayInAgreement == Spec => []ViewsAgree
<1>1. Inv => ViewsAgree
  <2> SUFFICES ASSUME Inv PROVE ViewsAgree
    OBVIOUS
  <2>1. ASSUME NEW o \in Objects
        PROVE  /\ ToSet(meta[o]) = {f \in Functions : H!Lookup(hash, <<o, f>>) # NULL}
               /\ IsInjective(meta[o])
    <3>1. PICK m \in Seq(Functions) : m = meta[o]
      BY DEF Inv, PoolInv, PoolTypes
    <3>2. ToSet(m) \subseteq Functions
      <4>1. DOMAIN m = 1 .. Len(m) /\ \A i \in 1 .. Len(m) : m[i] \in Functions
        OBVIOUS
      <4> QED BY <4>1 DEF ToSet
    <3>3. \A f \in Functions : H!Lookup(hash, <<o, f>>) = defined[<<o, f>>]
      BY PoolLookup, PoolFacts DEF Inv
    <3> QED BY <3>1, <3>2, <3>3 DEF Inv, PoolInv
  <2>2. ASSUME NEW o \in Objects, NEW t \in Tags
        PROVE  LET has == H!Lookup(tag_table, <<o, t>>) # NULL
               IN (has <=> o \in inverse_tag_table[t]) /\ (has <=> BoundHasTag(o, t))
    <3>1. H!Lookup(tag_table, <<o, t>>) # NULL <=> <<o, t>> \in tagged
      BY PoolFacts, TagLookup DEF Inv
    <3> QED BY <3>1 DEF Inv, TagInv, BoundHasTag
  <2>3. tag_tree = {t \in Tags : inverse_tag_table[t] # {}}
    BY DEF Inv, TagInv
  <2> QED BY <2>1, <2>2, <2>3 DEF ViewsAgree
<1> QED BY <1>1, Invariant, PTL
================================================================================
