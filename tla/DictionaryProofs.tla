--------------------------- MODULE DictionaryProofs ---------------------------
(***************************************************************************)
(* The search tree of a dictionary is one whatever is inserted, deleted    *)
(* and destroyed, for any keys and any number of nodes: the search finds   *)
(* what counting and iterating visit, iterators return each entry once,    *)
(* and the dictionary is a map.                                            *)
(***************************************************************************)
EXTENDS Dictionary, FiniteSetTheorems, SequenceTheorems, WellFoundedInduction, TLAPS

(* The children of a node.                                                 *)
Refs(n) == {heap[n].left, heap[n].right} \cap live

(* The nodes from n on.                                                    *)
Sub(n) == Reached({n})

(* T is a set of nodes that contains the root and the children of its      *)
(* nodes, sub gives the nodes from each one on, and the keys to its left   *)
(* are less than its key, those to its right greater.                      *)
Fits(T, sub) ==
  /\ T \subseteq live /\ (root \in live => root \in T)
  /\ \A n \in T :
       /\ Refs(n) \subseteq T /\ sub[n] \subseteq T
       /\ sub[n] = {n} \cup UNION {sub[c] : c \in Refs(n)}
       /\ heap[n].left \in live => \A x \in sub[heap[n].left] : heap[x].key < heap[n].key
       /\ heap[n].right \in live => \A x \in sub[heap[n].right] : heap[n].key < heap[x].key

(* The tree is a search tree.                                              *)
Shape == Fits(Tree, [n \in Tree |-> Sub(n)])

Finite == IsFiniteSet(live) /\ Null \notin live /\ \A n \in live : heap[n].key \in Int

(* A set of numbers that is not empty has a least one.                     *)
LEMMA Least ==
  ASSUME NEW T, T \subseteq Nat, T # {}
  PROVE  \E x \in T : \A y \in T : x <= y
<1> DEFINE R == OpToRel(<, Nat)
<1>1. IsWellFoundedOn(R, Nat)
  BY NatLessThanWellFounded
<1>2. \A x, y \in Nat : x < y => <<x, y>> \in R
  BY DEF OpToRel
<1> HIDE DEF R
<1>3. PICK x \in T : \A y \in T : ~ (<<y, x>> \in R)
  BY <1>1, WFMin
<1>4. \A y \in T : ~(y < x)
  BY <1>2, <1>3
<1>5. \A y \in T : x <= y
  BY <1>4
<1> QED
  BY <1>3, <1>5

-----------------------------------------------------------------------------
(* Recursions.                                                             *)

(* The nodes that are on the way from n, and the last ones of them.        *)
LEMMA EndSolves ==
  ASSUME NEW next
  PROVE  \E f : f = [m \in live |-> IF next[m] \in live THEN f[next[m]] ELSE m]
<1> DEFINE Goes(S, m) == m \in S /\ \A x \in S : next[x] \in live => next[x] \in S
           On(m) == {x \in live : \A S \in SUBSET live : Goes(S, m) => x \in S}
           Last1(m) == {x \in On(m) : next[x] \notin live}
           f == [m \in live |-> CHOOSE x : x \in Last1(m)]
<1>1. ASSUME NEW m \in live, next[m] \notin live PROVE Last1(m) = {m}
  <2>1. Goes({m}, m)
    BY <1>1
  <2> QED
    BY <1>1, <2>1
<1>2. ASSUME NEW m \in live, next[m] \in live PROVE Last1(m) = Last1(next[m])
  <2>1. ASSUME NEW x \in On(m), next[x] \notin live PROVE x \in On(next[m])
    <3> SUFFICES ASSUME NEW S \in SUBSET live, Goes(S, next[m]) PROVE x \in S
      BY <2>1
    <3>1. Goes(S \cup {m}, m) /\ S \cup {m} \in SUBSET live
      BY <1>2
    <3>2. x \in S \cup {m}
      BY <3>1
    <3> QED
      BY <1>2, <2>1, <3>2
  <2>2. ASSUME NEW x \in On(next[m]) PROVE x \in On(m)
    <3> SUFFICES ASSUME NEW S \in SUBSET live, Goes(S, m) PROVE x \in S
      BY <2>2
    <3>1. Goes(S, next[m])
      BY <1>2
    <3> QED
      BY <2>2, <3>1
  <2> QED
    BY <2>1, <2>2
<1> HIDE DEF Last1
<1>3. \A m \in live : f[m] = IF next[m] \in live THEN f[next[m]] ELSE m
  BY <1>1, <1>2
<1>4. f = [m \in live |-> IF next[m] \in live THEN f[next[m]] ELSE m]
  <2> HIDE DEF f
  <2>1. f = [m \in live |-> f[m]]
    BY DEF f
  <2> QED
    BY <1>3, <2>1
<1> QED
  BY <1>4

LEMMA EndGoesOn ==
  ASSUME NEW next, NEW n \in live
  PROVE  End(next, n) = IF next[n] \in live THEN End(next, next[n]) ELSE n
<1> DEFINE e == CHOOSE f : f = [m \in live |-> IF next[m] \in live THEN f[next[m]] ELSE m]
<1>1. e = [m \in live |-> IF next[m] \in live THEN e[next[m]] ELSE m]
  BY EndSolves
<1>2. \A m : End(next, m) = e[m]
  BY DEF End
<1> HIDE DEF e
<1> QED
  BY <1>1, <1>2

(* The same for the nodes from n on.                                       *)
LEMMA ReachedSolves ==
  \E f : f = [n \in live |-> {n} \cup UNION {f[c] : c \in Refs(n)}]
<1> DEFINE Goes(S) == \A x \in S : Refs(x) \subseteq S
           On(n) == {x \in live : \A S \in SUBSET live : n \in S /\ Goes(S) => x \in S}
           All(n) == {n} \cup UNION {On(c) : c \in Refs(n)}
<1>1. \A n : Refs(n) \subseteq live
  BY DEF Refs
<1>2. /\ \A n : On(n) \subseteq live
      /\ \A n \in live : n \in On(n)
      /\ \A n, x : x \in All(n) <=> x = n \/ \E c \in Refs(n) : x \in On(c)
  OBVIOUS
<1>3. ASSUME NEW n, NEW x \in On(n), NEW y \in Refs(x) PROVE y \in On(n)
  <2>1. y \in live
    BY <1>1
  <2>2. ASSUME NEW S \in SUBSET live, n \in S, Goes(S) PROVE y \in S
    <3>1. x \in S
      BY <2>2
    <3> QED
      BY <2>2, <3>1
  <2> QED
    BY <2>1, <2>2
<1>4. ASSUME NEW n \in live, NEW S \in SUBSET live, n \in S, Goes(S) PROVE On(n) \subseteq S
  BY <1>4
<1> HIDE DEF On, All
<1>5. ASSUME NEW n \in live PROVE On(n) \subseteq All(n)
  <2>1. n \in All(n) /\ All(n) \in SUBSET live
    BY <1>1, <1>2
  <2>2. ASSUME NEW y \in All(n), NEW z \in Refs(y) PROVE z \in All(n)
    <3>1. CASE y = n
      BY <1>1, <1>2, <2>2, <3>1
    <3>2. CASE y # n
      <4>1. PICK c \in Refs(n) : y \in On(c)
        BY <1>2, <3>2
      <4>2. z \in On(c)
        BY <1>3, <4>1
      <4> QED
        BY <1>2, <4>2
    <3> QED
      BY <3>1, <3>2
  <2>3. Goes(All(n))
    BY <2>2
  <2> QED
    BY <1>4, <2>1, <2>3
<1>6. ASSUME NEW n \in live, NEW x \in All(n) PROVE x \in On(n)
  <2>1. CASE x = n
    BY <1>2, <2>1
  <2>2. CASE x # n
    <3>1. PICK c \in Refs(n) : x \in On(c)
      BY <1>2, <2>2
    <3>2. On(n) \in SUBSET live /\ c \in On(n) /\ c \in live
      BY <1>1, <1>2, <1>3
    <3>3. Goes(On(n))
      BY <1>3
    <3> QED
      BY <1>4, <3>1, <3>2, <3>3
  <2> QED
    BY <2>1, <2>2
<1>7. \A n \in live : On(n) = All(n)
  BY <1>5, <1>6
<1> DEFINE f == [n \in live |-> On(n)]
<1>8. \A n \in live : f[n] = {n} \cup UNION {f[c] : c \in Refs(n)}
  <2>1. \A c \in live : f[c] = On(c)
    OBVIOUS
  <2> HIDE DEF f
  <2>2. ASSUME NEW n \in live PROVE f[n] = {n} \cup UNION {f[c] : c \in Refs(n)}
    <3>1. UNION {f[c] : c \in Refs(n)} = UNION {On(c) : c \in Refs(n)}
      BY <1>1, <2>1
    <3> QED
      BY <1>7, <2>1, <3>1 DEF All
  <2> QED
    BY <2>2
<1>9. f = [n \in live |-> {n} \cup UNION {f[c] : c \in Refs(n)}]
  <2>1. f = [n \in live |-> f[n]]
    OBVIOUS
  <2> HIDE DEF f
  <2> QED
    BY <1>8, <2>1
<1> QED
  BY <1>9

LEMMA ReachedIsUnion ==
  /\ \A S : Reached(S) = UNION {Sub(n) : n \in S}
  /\ \A n : n \notin live => Sub(n) = {}
  /\ \A n \in live : n \in Sub(n) /\ Sub(n) = {n} \cup UNION {Sub(c) : c \in Refs(n)}
<1> DEFINE e == CHOOSE f : f = [n \in live |->
                  {n} \cup UNION {f[c] : c \in {heap[n].left, heap[n].right} \cap live}]
<1>1. e = [n \in live |-> {n} \cup UNION {e[c] : c \in Refs(n)}]
  BY ReachedSolves DEF Refs
<1>2. \A S : Reached(S) = UNION {e[n] : n \in S \cap live}
  BY DEF Reached
<1> HIDE DEF e
<1>3. \A n : Sub(n) = IF n \in live THEN e[n] ELSE {}
  BY <1>2 DEF Sub
<1>4. \A S : Reached(S) = UNION {Sub(n) : n \in S}
  BY <1>2, <1>3
<1>5. \A n : Refs(n) \subseteq live
  BY DEF Refs
<1>6. ASSUME NEW n \in live PROVE Sub(n) = {n} \cup UNION {Sub(c) : c \in Refs(n)}
  <2>1. e[n] = {n} \cup UNION {e[c] : c \in Refs(n)}
    BY <1>1
  <2>2. \A c \in Refs(n) : Sub(c) = e[c]
    BY <1>3, <1>5
  <2> QED
    BY <1>3, <2>1, <2>2
<1> QED
  BY <1>3, <1>4, <1>6

-----------------------------------------------------------------------------
(* Search trees.                                                           *)

(* A node, and those to its left and to its right.                         *)
LEMMA TwoSides ==
  ASSUME NEW T, NEW sub, Fits(T, sub), Finite, NEW n \in T
  PROVE  /\ n \in live /\ n \in sub[n] /\ heap[n].key \in Int
         /\ \A x : x \in sub[n] <=> x = n \/ (\E c \in Refs(n) : x \in sub[c])
         /\ \A c \in Refs(n) : c \in T /\ sub[c] \subseteq sub[n] /\ n \notin sub[c]
<1>1. n \in live /\ heap[n].key \in Int /\ sub[n] = {n} \cup UNION {sub[c] : c \in Refs(n)}
  BY DEF Fits, Finite
<1>2. \A x : x \in sub[n] <=> x = n \/ (\E c \in Refs(n) : x \in sub[c])
  BY <1>1
<1>3. ASSUME NEW c \in Refs(n) PROVE c \in T /\ n \notin sub[c]
  BY <1>1 DEF Fits, Refs
<1> QED
  BY <1>1, <1>2, <1>3

(* What holds of a node if it does of its children holds of all nodes.     *)
LEMMA Upwards ==
  ASSUME NEW T, NEW sub, Fits(T, sub), Finite, NEW P,
         \A n \in T : Refs(n) \subseteq P => n \in P
  PROVE  T \subseteq P
<1> SUFFICES ASSUME T \ P # {} PROVE FALSE
  OBVIOUS
<1> DEFINE Sizes == {Cardinality(sub[n]) : n \in T \ P}
<1>1. \A n \in T : IsFiniteSet(sub[n]) /\ Cardinality(sub[n]) \in Nat
  BY FS_Subset, FS_CardinalityType DEF Finite, Fits
<1>2. PICK s \in Sizes : \A t \in Sizes : s <= t
  <2>1. Sizes \subseteq Nat /\ Sizes # {}
    BY <1>1
  <2> HIDE DEF Sizes
  <2> QED
    BY <2>1, Least
<1>3. PICK n \in T \ P : \A m \in T \ P : Cardinality(sub[n]) <= Cardinality(sub[m])
  BY <1>2
<1>4. PICK c \in Refs(n) : c \notin P
  BY <1>3
<1>5. c \in T /\ sub[c] \subseteq sub[n] /\ n \notin sub[c] /\ n \in sub[n]
  BY TwoSides
<1>6. Cardinality(sub[c]) <= Cardinality(sub[n]) /\ Cardinality(sub[c]) # Cardinality(sub[n])
  BY <1>1, <1>5, FS_Subset
<1>7. Cardinality(sub[n]) <= Cardinality(sub[c])
  BY <1>3, <1>4, <1>5
<1> QED
  BY <1>1, <1>5, <1>6, <1>7

LEMMA Unique ==
  ASSUME NEW T, NEW sub, Fits(T, sub), Finite
  PROVE  \A n \in T : Sub(n) = sub[n]
<1> DEFINE P == {n \in T : Sub(n) = sub[n]}
<1>1. ASSUME NEW n \in T, Refs(n) \subseteq P PROVE Sub(n) = sub[n]
  <2>1. Sub(n) = {n} \cup UNION {Sub(c) : c \in Refs(n)}
    BY TwoSides, ReachedIsUnion
  <2>2. sub[n] = {n} \cup UNION {sub[c] : c \in Refs(n)}
    BY DEF Fits
  <2>3. \A c \in Refs(n) : Sub(c) = sub[c]
    BY <1>1
  <2> QED
    BY <2>1, <2>2, <2>3
<1>2. \A n \in T : Refs(n) \subseteq P => n \in P
  BY <1>1
<1> HIDE DEF P
<1>3. T \subseteq P
  BY <1>2, Upwards
<1> QED
  BY <1>3 DEF P

(* The nodes from a node on are closed...                                  *)
LEMMA Within ==
  ASSUME NEW T, NEW sub, Fits(T, sub), Finite
  PROVE  \A n \in T : \A x \in sub[n] : x \in T /\ sub[x] \subseteq sub[n] /\ Refs(x) \subseteq sub[n]
<1> DEFINE P == {n \in T : \A x \in sub[n] : sub[x] \subseteq sub[n]}
<1>1. ASSUME NEW n \in T, Refs(n) \subseteq P, NEW x \in sub[n] PROVE sub[x] \subseteq sub[n]
  <2>1. CASE x = n
    BY <2>1
  <2>2. CASE x # n
    <3>1. PICK c \in Refs(n) : x \in sub[c]
      BY <2>2, TwoSides
    <3>2. sub[x] \subseteq sub[c] /\ sub[c] \subseteq sub[n]
      BY <1>1, <3>1, TwoSides
    <3> QED
      BY <3>2
  <2> QED
    BY <2>1, <2>2
<1>2. \A n \in T : Refs(n) \subseteq P => n \in P
  BY <1>1
<1> HIDE DEF P
<1>3. T \subseteq P
  BY <1>2, Upwards
<1>4. ASSUME NEW n \in T, NEW x \in sub[n]
      PROVE  x \in T /\ sub[x] \subseteq sub[n] /\ Refs(x) \subseteq sub[n]
  <2>1. x \in T /\ sub[x] \subseteq sub[n]
    BY <1>3 DEF P, Fits
  <2>2. ASSUME NEW c \in Refs(x) PROVE c \in sub[x]
    <3>1. c \in T /\ sub[c] \subseteq sub[x]
      BY <2>1, TwoSides
    <3>2. c \in sub[c]
      BY <3>1, TwoSides
    <3> QED
      BY <3>1, <3>2
  <2> QED
    BY <2>1, <2>2
<1> QED
  BY <1>4

(* ... and in every closed set that has the node.                          *)
LEMMA Onwards ==
  ASSUME NEW T, NEW sub, Fits(T, sub), Finite, NEW C,
         \A x \in T \cap C : Refs(x) \subseteq C
  PROVE  \A n \in T \cap C : sub[n] \subseteq C
<1> DEFINE P == {n \in T : n \in C => sub[n] \subseteq C}
<1>1. ASSUME NEW n \in T, Refs(n) \subseteq P, n \in C, NEW x \in sub[n] PROVE x \in C
  <2>1. CASE x = n
    BY <1>1, <2>1
  <2>2. CASE x # n
    <3>1. PICK c \in Refs(n) : x \in sub[c]
      BY <2>2, TwoSides
    <3>2. c \in C /\ c \in P
      BY <1>1
    <3> QED
      BY <3>1, <3>2
  <2> QED
    BY <2>1, <2>2
<1>2. \A n \in T : Refs(n) \subseteq P => n \in P
  BY <1>1
<1> HIDE DEF P
<1>3. T \subseteq P
  BY <1>2, Upwards
<1> QED
  BY <1>3 DEF P

(* The two sides of a node have no node in common.                         *)
LEMMA SidesApart ==
  ASSUME NEW T, NEW sub, Fits(T, sub), Finite, NEW n \in T,
         NEW c \in Refs(n), NEW d \in Refs(n), NEW x \in sub[c], x \in sub[d]
  PROVE  c = d
<1>1. c \in live /\ d \in live /\ c \in T /\ d \in T /\ n \in live
  BY DEF Fits, Refs
<1>2. x \in live
  BY <1>1 DEF Fits
<1>3. heap[x].key \in Int /\ heap[n].key \in Int
  BY <1>1, <1>2 DEF Finite
<1> SUFFICES ASSUME c # d PROVE FALSE
  OBVIOUS
<1>4. \/ c = heap[n].left /\ d = heap[n].right
      \/ d = heap[n].left /\ c = heap[n].right
  BY DEF Refs
<1>5. heap[x].key < heap[n].key /\ heap[n].key < heap[x].key
  BY <1>1, <1>4 DEF Fits
<1> QED
  BY <1>3, <1>5

(* A node is the child of one node.                                        *)
LEMMA OneAbove ==
  ASSUME NEW T, NEW sub, Fits(T, sub), Finite
  PROVE  \A r \in T : \A x, y \in sub[r] : \A c \in Refs(x) \cap Refs(y) : x = y
<1> DEFINE P == {r \in T : \A x, y \in sub[r] : \A c \in Refs(x) \cap Refs(y) : x = y}
<1>0. ASSUME NEW r \in T, NEW y \in sub[r], NEW c \in Refs(r) \cap Refs(y) PROVE y = r
  <2> SUFFICES ASSUME y # r PROVE FALSE
    OBVIOUS
  <2>1. PICK d \in Refs(r) : y \in sub[d]
    BY TwoSides
  <2>2. c \in sub[d] /\ c \in sub[c]
    BY <2>1, TwoSides, Within
  <2>3. c = d
    BY <2>1, <2>2, SidesApart
  <2>4. y \in T
    BY Within
  <2> QED
    BY <2>1, <2>3, <2>4, TwoSides
<1>1. ASSUME NEW r \in T, Refs(r) \subseteq P, NEW x \in sub[r], NEW y \in sub[r],
             NEW c \in Refs(x) \cap Refs(y)
      PROVE  x = y
  <2>1. CASE x = r \/ y = r
    BY <1>0, <2>1
  <2>2. CASE x # r /\ y # r
    <3>1. PICK d \in Refs(r) : x \in sub[d]
      BY <2>2, TwoSides
    <3>2. PICK e \in Refs(r) : y \in sub[e]
      BY <2>2, TwoSides
    <3>3. d \in T /\ e \in T
      BY TwoSides
    <3>4. c \in sub[d] /\ c \in sub[e]
      BY <3>1, <3>2, <3>3, Within
    <3>5. d = e
      BY <3>4, SidesApart
    <3> QED
      BY <1>1, <3>1, <3>2, <3>5
  <2> QED
    BY <2>1, <2>2
<1>2. \A n \in T : Refs(n) \subseteq P => n \in P
  BY <1>1
<1> HIDE DEF P
<1>3. T \subseteq P
  BY <1>2, Upwards
<1> QED
  BY <1>3 DEF P

(* A tree that fits is the one that the code finds.                        *)
Describes(T, sub) ==
  /\ Shape
  /\ Tree = IF root \in live THEN sub[root] ELSE {}
  /\ \A n \in T : Sub(n) = sub[n]

LEMMA ShapeBy == \A T, sub : Finite /\ Fits(T, sub) => Describes(T, sub)
<1> SUFFICES ASSUME NEW T, NEW sub, Finite, Fits(T, sub) PROVE Describes(T, sub)
  OBVIOUS
<1>1. \A n \in T : Sub(n) = sub[n]
  BY Unique
<1>2. Tree = Sub(root)
  BY DEF Tree, Sub
<1>3. Tree = IF root \in live THEN sub[root] ELSE {}
  BY <1>1, <1>2, ReachedIsUnion DEF Fits
<1>4. \A n \in Tree : n \in T /\ sub[n] \subseteq Tree /\ Refs(n) \subseteq Tree
  BY <1>3, Within DEF Fits
<1> DEFINE s == [n \in Tree |-> Sub(n)]
<1>5. \A n \in Tree : s[n] = sub[n]
  BY <1>1, <1>4
<1> HIDE DEF s
<1>6. root \in live => root \in Tree
  BY <1>3, TwoSides DEF Fits
<1>7. ASSUME NEW n \in Tree
      PROVE  /\ s[n] = {n} \cup UNION {s[c] : c \in Refs(n)}
             /\ heap[n].left \in live => \A x \in s[heap[n].left] : heap[x].key < heap[n].key
             /\ heap[n].right \in live => \A x \in s[heap[n].right] : heap[n].key < heap[x].key
  <2>1. \A c \in Refs(n) : s[c] = sub[c]
    BY <1>4, <1>5
  <2>2. sub[n] = {n} \cup UNION {sub[c] : c \in Refs(n)}
    BY <1>4 DEF Fits
  <2>3. s[n] = {n} \cup UNION {s[c] : c \in Refs(n)}
    BY <1>5, <2>1, <2>2
  <2>4. heap[n].left \in live => s[heap[n].left] = sub[heap[n].left]
    BY <2>1 DEF Refs
  <2>5. heap[n].right \in live => s[heap[n].right] = sub[heap[n].right]
    BY <2>1 DEF Refs
  <2> QED
    BY <1>4, <2>3, <2>4, <2>5 DEF Fits
<1>8. Fits(Tree, s)
  <2>1. Tree \subseteq live
    BY <1>4 DEF Fits
  <2> QED
    BY <1>4, <1>5, <1>6, <1>7, <2>1 DEF Fits
<1> QED
  BY <1>1, <1>3, <1>8 DEF Describes, Shape, s

-----------------------------------------------------------------------------
(* The tree of the dictionary.                                             *)

LEMMA TreeFits ==
  ASSUME Shape, Finite
  PROVE  /\ \E sub : Fits(Tree, sub) /\ \A n \in Tree : sub[n] = Sub(n)
         /\ root \in live <=> root \in Tree
         /\ root \notin live => Tree = {}
         /\ Tree = Sub(root) /\ Tree \subseteq live
<1> DEFINE s == [n \in Tree |-> Sub(n)]
<1>1. Fits(Tree, s) /\ \A n \in Tree : s[n] = Sub(n)
  BY DEF Shape
<1> HIDE DEF s
<1>2. Tree = Sub(root)
  BY DEF Tree, Sub
<1> QED
  BY <1>1, <1>2, ReachedIsUnion DEF Fits

LEMMA Nodes1 ==
  ASSUME Shape, Finite, NEW n \in Tree
  PROVE  /\ n \in live /\ n \in Sub(n) /\ heap[n].key \in Int /\ Sub(n) \subseteq Tree
         /\ \A x : x \in Sub(n) <=> x = n \/ (\E c \in Refs(n) : x \in Sub(c))
         /\ \A c \in Refs(n) : c \in Tree /\ c \in live /\ Sub(c) \subseteq Sub(n) /\ n \notin Sub(c)
         /\ heap[n].left \in live => \A x \in Sub(heap[n].left) : heap[x].key < heap[n].key
         /\ heap[n].right \in live => \A x \in Sub(heap[n].right) : heap[n].key < heap[x].key
         /\ \A x \in Sub(n) : Sub(x) \subseteq Sub(n) /\ Refs(x) \subseteq Sub(n)
<1>1. PICK sub : Fits(Tree, sub) /\ \A m \in Tree : sub[m] = Sub(m)
  BY TreeFits
<1>2. /\ n \in live /\ n \in sub[n] /\ heap[n].key \in Int
      /\ \A x : x \in sub[n] <=> x = n \/ (\E c \in Refs(n) : x \in sub[c])
      /\ \A c \in Refs(n) : c \in Tree /\ sub[c] \subseteq sub[n] /\ n \notin sub[c]
  BY <1>1, TwoSides
<1>3. /\ heap[n].left \in live => \A x \in sub[heap[n].left] : heap[x].key < heap[n].key
      /\ heap[n].right \in live => \A x \in sub[heap[n].right] : heap[n].key < heap[x].key
      /\ sub[n] \subseteq Tree
  BY <1>1 DEF Fits
<1>4. \A x \in sub[n] : x \in Tree /\ sub[x] \subseteq sub[n] /\ Refs(x) \subseteq sub[n]
  BY <1>1, Within
<1>5. /\ heap[n].left \in live => heap[n].left \in Refs(n)
      /\ heap[n].right \in live => heap[n].right \in Refs(n)
  BY DEF Refs
<1>6. Tree \subseteq live
  BY TreeFits
<1>7. sub[n] = Sub(n) /\ \A c \in Refs(n) : sub[c] = Sub(c)
  BY <1>1, <1>2
<1> QED
  BY <1>1, <1>2, <1>3, <1>4, <1>5, <1>6, <1>7

LEMMA Nodes2 ==
  ASSUME Shape, Finite
  PROVE  /\ \A n \in Tree : \A c, d \in Refs(n) : \A x \in Sub(c) : x \in Sub(d) => c = d
         /\ \A x, y \in Tree : \A c \in Refs(x) \cap Refs(y) : x = y
<1>1. PICK sub : Fits(Tree, sub) /\ \A m \in Tree : sub[m] = Sub(m)
  BY TreeFits
<1>2. ASSUME NEW n \in Tree, NEW c \in Refs(n), NEW d \in Refs(n), NEW x \in Sub(c), x \in Sub(d)
      PROVE  c = d
  <2>1. c \in Tree /\ d \in Tree
    BY Nodes1
  <2>2. sub[c] = Sub(c) /\ sub[d] = Sub(d)
    BY <1>1, <2>1
  <2> QED
    BY <1>1, <1>2, <2>2, SidesApart
<1>3. ASSUME NEW x \in Tree, NEW y \in Tree, NEW c \in Refs(x) \cap Refs(y) PROVE x = y
  <2>1. root \in Tree /\ sub[root] = Tree
    BY <1>1, TreeFits
  <2>2. \A v, w \in sub[root] : \A e \in Refs(v) \cap Refs(w) : v = w
    BY <1>1, <2>1, OneAbove
  <2> QED
    BY <2>1, <2>2
<1> QED
  BY <1>2, <1>3

LEMMA TreeUpwards ==
  ASSUME Shape, Finite, NEW P, \A n \in Tree : Refs(n) \subseteq P => n \in P
  PROVE  Tree \subseteq P
<1>1. PICK sub : Fits(Tree, sub)
  BY TreeFits
<1> QED
  BY <1>1, Upwards

LEMMA TreeOnwards ==
  ASSUME Shape, Finite, NEW C, \A x \in Tree \cap C : Refs(x) \subseteq C
  PROVE  \A n \in Tree \cap C : Sub(n) \subseteq C
<1>1. PICK sub : Fits(Tree, sub) /\ \A m \in Tree : sub[m] = Sub(m)
  BY TreeFits
<1>2. \A n \in Tree \cap C : sub[n] \subseteq C
  BY <1>1, Onwards
<1> QED
  BY <1>1, <1>2

(* The search goes to the side where the key is, if it is in the tree.     *)
LEMMA OneSide ==
  ASSUME Shape, Finite, NEW n \in Tree, NEW k \in Int, heap[n].key # k
  PROVE  /\ Child(n, k) \in live => Child(n, k) \in Refs(n)
         /\ \A x \in Sub(n) : heap[x].key = k => Child(n, k) \in live /\ x \in Sub(Child(n, k))
<1>1. Child(n, k) \in live => Child(n, k) \in Refs(n)
  BY DEF Child, Refs
<1>2. ASSUME NEW x \in Sub(n), heap[x].key = k
      PROVE  Child(n, k) \in live /\ x \in Sub(Child(n, k))
  <2>1. PICK c \in Refs(n) : x \in Sub(c)
    BY <1>2, Nodes1
  <2>2. heap[n].key \in Int
    BY Nodes1
  <2>3. c = heap[n].left \/ c = heap[n].right
    BY DEF Refs
  <2>4. c \in live
    BY DEF Refs
  <2>5. CASE c = heap[n].left
    <3>1. k < heap[n].key
      BY <1>2, <2>1, <2>4, <2>5, Nodes1
    <3> QED
      BY <2>1, <2>4, <2>5, <3>1 DEF Child
  <2>6. CASE c = heap[n].right
    <3>1. heap[n].key < k
      BY <1>2, <2>1, <2>4, <2>6, Nodes1
    <3>2. ~(k < heap[n].key)
      BY <2>2, <3>1
    <3> QED
      BY <2>1, <2>4, <2>6, <3>2 DEF Child
  <2> QED
    BY <2>3, <2>5, <2>6
<1> QED
  BY <1>1, <1>2

(* Where a search that has come to n ends.                                 *)
LEMMA SearchEnds ==
  ASSUME Shape, Finite, NEW k \in Int
  PROVE  \A n \in Tree :
           /\ End(Search(k), n) \in Sub(n)
           /\ \/ heap[End(Search(k), n)].key = k
              \/ Child(End(Search(k), n), k) \notin live
           /\ \A x \in Sub(n) : heap[x].key = k => x = End(Search(k), n)
<1> DEFINE e(n) == End(Search(k), n)
           P == {n \in Tree : /\ e(n) \in Sub(n)
                              /\ heap[e(n)].key = k \/ Child(e(n), k) \notin live
                              /\ \A x \in Sub(n) : heap[x].key = k => x = e(n)}
<1>1. ASSUME NEW n \in Tree
      PROVE  e(n) = IF heap[n].key # k /\ Child(n, k) \in live THEN e(Child(n, k)) ELSE n
  <2>1. n \in live /\ Null \notin live
    BY Nodes1 DEF Finite
  <2>2. Search(k)[n] = IF heap[n].key = k THEN Null ELSE Child(n, k)
    BY <2>1 DEF Search
  <2>3. e(n) = IF Search(k)[n] \in live THEN e(Search(k)[n]) ELSE n
    BY <2>1, EndGoesOn
  <2> QED
    BY <2>1, <2>2, <2>3
<1> HIDE DEF e
<1>2. ASSUME NEW n \in Tree, Refs(n) \subseteq P PROVE n \in P
  <2>1. n \in Sub(n)
    BY Nodes1
  <2>2. CASE heap[n].key = k
    <3>1. e(n) = n
      BY <1>1, <2>2
    <3>2. ASSUME NEW x \in Sub(n), heap[x].key = k PROVE x = n
      <4> SUFFICES ASSUME x # n PROVE FALSE
        OBVIOUS
      <4>1. PICK c \in Refs(n) : x \in Sub(c)
        BY Nodes1
      <4>2. c \in live /\ (c = heap[n].left \/ c = heap[n].right)
        BY DEF Refs
      <4>3. heap[x].key < heap[n].key \/ heap[n].key < heap[x].key
        BY <4>1, <4>2, Nodes1
      <4> QED
        BY <2>2, <3>2, <4>3
    <3> QED
      BY <2>1, <2>2, <3>1, <3>2
  <2>3. CASE heap[n].key # k /\ Child(n, k) \notin live
    <3>1. e(n) = n
      BY <1>1, <2>3
    <3> QED
      BY <2>1, <2>3, <3>1, OneSide
  <2>4. CASE heap[n].key # k /\ Child(n, k) \in live
    <3>1. e(n) = e(Child(n, k)) /\ Child(n, k) \in Refs(n)
      BY <1>1, <2>4, OneSide
    <3>2. Child(n, k) \in P /\ Sub(Child(n, k)) \subseteq Sub(n)
      BY <1>2, <3>1, Nodes1
    <3> QED
      BY <2>4, <3>1, <3>2, OneSide
  <2> QED
    BY <2>2, <2>3, <2>4
<1> HIDE DEF P
<1>3. Tree \subseteq P
  BY <1>2, TreeUpwards
<1> QED
  BY <1>3 DEF P, e

(* The search from the root, and the nodes that it visits.                 *)
LEMMA BottomIsFound ==
  ASSUME Shape, Finite, root \in live, NEW k \in Int
  PROVE  /\ Bottom(k) \in Tree
         /\ heap[Bottom(k)].key = k \/ Child(Bottom(k), k) \notin live
         /\ \A x \in Tree : heap[x].key = k => x = Bottom(k)
         /\ \A m \in Tree :
              Bottom(k) \in Sub(m) /\ m # Bottom(k) =>
                heap[m].key # k /\ Child(m, k) \in live /\ Bottom(k) \in Sub(Child(m, k))
<1> DEFINE e(n) == End(Search(k), n)
           b == Bottom(k)
           C == {m \in Tree : b \in Sub(m) => e(m) = b}
<1>1. root \in Tree /\ Tree = Sub(root) /\ b = e(root)
  BY TreeFits DEF Bottom
<1>2. ASSUME NEW m \in Tree, b \in Sub(m), e(m) = b, m # b
      PROVE  heap[m].key # k /\ Child(m, k) \in live /\ e(Child(m, k)) = b
             /\ b \in Sub(Child(m, k))
  <2>1. m \in live /\ Null \notin live
    BY Nodes1 DEF Finite
  <2>2. Search(k)[m] = IF heap[m].key = k THEN Null ELSE Child(m, k)
    BY <2>1 DEF Search
  <2>3. e(m) = IF Search(k)[m] \in live THEN e(Search(k)[m]) ELSE m
    BY <2>1, EndGoesOn
  <2> HIDE DEF e, b
  <2>4. heap[m].key # k /\ Child(m, k) \in live /\ e(Child(m, k)) = b
    BY <1>2, <2>1, <2>2, <2>3
  <2>5. Child(m, k) \in Tree
    BY <2>4, OneSide, Nodes1
  <2> QED
    BY <2>4, <2>5, SearchEnds DEF e
<1>3. b \in Tree /\ (heap[b].key = k \/ Child(b, k) \notin live)
      /\ \A x \in Tree : heap[x].key = k => x = b
  BY <1>1, SearchEnds
<1> HIDE DEF e, b
<1>4. ASSUME NEW m \in Tree \cap C, NEW c \in Refs(m) PROVE c \in C
  <2>1. c \in Tree /\ Sub(c) \subseteq Sub(m) /\ m \notin Sub(c)
    BY Nodes1
  <2>2. ASSUME b \in Sub(c) PROVE e(c) = b
    <3>1. b \in Sub(m) /\ e(m) = b /\ m # b
      BY <1>4, <2>1, <2>2
    <3>2. heap[m].key # k /\ Child(m, k) \in live /\ e(Child(m, k)) = b /\ b \in Sub(Child(m, k))
      BY <1>2, <3>1
    <3>3. Child(m, k) \in Refs(m)
      BY <3>2, OneSide
    <3>4. c = Child(m, k)
      BY <2>2, <3>2, <3>3, Nodes2
    <3> QED
      BY <3>2, <3>4
  <2> QED
    BY <2>1, <2>2
<1>5. root \in C
  BY <1>1
<1> HIDE DEF C
<1>6. Tree \subseteq C
  BY <1>1, <1>4, <1>5, TreeOnwards
<1>7. \A m \in Tree : b \in Sub(m) => e(m) = b
  BY <1>6 DEF C
<1> QED
  BY <1>2, <1>3, <1>7 DEF b

(* What get() and has() answer.                                            *)
LEMMA ContentsFound ==
  ASSUME Shape, Finite
  PROVE  /\ \A n \in Tree : Has(heap[n].key) /\ Get(heap[n].key) = heap[n].value
                            /\ Bottom(heap[n].key) = n
         /\ \A k \in Int : (\A n \in Tree : heap[n].key # k) => ~Has(k) /\ Get(k) = None
<1>1. ASSUME NEW n \in Tree
      PROVE  Has(heap[n].key) /\ Get(heap[n].key) = heap[n].value /\ Bottom(heap[n].key) = n
  <2>1. root \in live /\ heap[n].key \in Int
    BY TreeFits, Nodes1
  <2>2. Bottom(heap[n].key) = n
    BY <2>1, BottomIsFound
  <2> QED
    BY <2>1, <2>2 DEF Has, Get
<1>2. ASSUME NEW k \in Int, \A n \in Tree : heap[n].key # k PROVE ~Has(k) /\ Get(k) = None
  <2>1. CASE root \in live
    <3>1. Bottom(k) \in Tree
      BY <2>1, BottomIsFound
    <3>2. heap[Bottom(k)].key # k
      BY <1>2, <3>1
    <3> QED
      BY <3>2 DEF Has, Get
  <2>2. CASE root \notin live
    BY <2>2 DEF Has, Get
  <2> QED
    BY <2>1, <2>2
<1> QED
  BY <1>1, <1>2


LEMMA SidesDiffer ==
  ASSUME Shape, Finite, NEW n \in Tree, heap[n].left \in live
  PROVE  heap[n].left # heap[n].right
<1> SUFFICES ASSUME heap[n].left = heap[n].right PROVE FALSE
  OBVIOUS
<1> DEFINE l == heap[n].left
<1>1. l \in Refs(n)
  BY DEF Refs
<1>2. l \in Tree
  BY <1>1, Nodes1
<1>3. l \in Sub(l) /\ heap[l].key \in Int /\ heap[n].key \in Int
  BY <1>2, Nodes1
<1>4. heap[l].key < heap[n].key /\ heap[n].key < heap[l].key
  BY <1>3, Nodes1
<1> QED
  BY <1>3, <1>4
LEMMA ShapeByNext == (\A T, sub : Finite /\ Fits(T, sub) => Describes(T, sub))'
BY ShapeBy, PTL

-----------------------------------------------------------------------------
(* Heaps and types.                                                        *)

Node(s) == [key : Keys, value : Values, left : 0 .. s, right : 0 .. s]
HeapType(h, l, s) == h \in Seq(Node(s) \cup {Freed}) /\ Len(h) = l

(* Nodes that exist have a key, a value and references; they were spawned  *)
(* on a node that exists, before them, or on the dictionary.               *)
TypeInv ==
  /\ TypeOK
  /\ \A n \in live : /\ heap[n] \in Node(spawned)
                     /\ parent[n] \in live \cup {Null} /\ parent[n] < n

LEMMA Types ==
  ASSUME TypeInv
  PROVE  /\ Finite /\ spawned \in 0 .. MaxNodes /\ spawned \in Nat
         /\ HeapType(heap, spawned, spawned)
         /\ parent \in Seq(0 .. spawned) /\ Len(parent) = spawned
         /\ live \subseteq 1 .. spawned /\ killed \subseteq live
         /\ \A n \in live : n \in 1 .. spawned /\ heap[n] \in Node(spawned) /\ heap[n].key \in Int
                            /\ heap[n].key \in Keys /\ heap[n].value \in Values
                            /\ heap[n].left \in 0 .. spawned /\ heap[n].right \in 0 .. spawned
<1>1. /\ spawned \in 0 .. MaxNodes /\ spawned \in Nat
      /\ HeapType(heap, spawned, spawned)
      /\ parent \in Seq(0 .. spawned) /\ Len(parent) = spawned
      /\ live \subseteq 1 .. spawned /\ killed \subseteq live
  BY DictionaryAssumption DEF TypeInv, TypeOK, HeapType, Node
<1>2. IsFiniteSet(live)
  <2>1. IsFiniteSet(1 .. spawned)
    BY <1>1, FS_Interval
  <2>2. live \in SUBSET (1 .. spawned)
    BY <1>1
  <2> QED
    BY <2>1, <2>2, FS_Subset
<1>3. \A n \in live : heap[n] \in Node(spawned)
  BY DEF TypeInv
<1>4. \A n \in live : /\ heap[n].key \in Keys /\ heap[n].key \in Int /\ heap[n].value \in Values
                      /\ heap[n].left \in 0 .. spawned /\ heap[n].right \in 0 .. spawned
  BY <1>3, DictionaryAssumption DEF Node
<1>5. Null \notin live
  BY <1>1 DEF Null
<1> QED
  BY <1>1, <1>2, <1>3, <1>4, <1>5 DEF Finite

(* A node is replaced, or a part of it.                                    *)
With(h, n, r)      == [h EXCEPT ![n] = r]
WithLeft(h, n, c)  == [h EXCEPT ![n].left = c]
WithRight(h, n, c) == [h EXCEPT ![n].right = c]
WithValue(h, n, v) == [h EXCEPT ![n].value = v]

LEMMA OneReplaced ==
  ASSUME NEW h, NEW l \in Nat, NEW s \in Nat, HeapType(h, l, s), NEW n \in 1 .. l, NEW r \in Node(s)
  PROVE  /\ HeapType(With(h, n, r), l, s)
         /\ \A m \in 1 .. l : With(h, n, r)[m] = IF m = n THEN r ELSE h[m]
BY ExceptSeq DEF HeapType, With

LEMMA LeftSet ==
  ASSUME NEW h, NEW l \in Nat, NEW s \in Nat, HeapType(h, l, s), NEW n \in 1 .. l,
         h[n] \in Node(s), NEW c \in 0 .. s
  PROVE  /\ HeapType(WithLeft(h, n, c), l, s)
         /\ \A m \in 1 .. l : m # n => WithLeft(h, n, c)[m] = h[m]
         /\ WithLeft(h, n, c)[n] = [key |-> h[n].key, value |-> h[n].value, left |-> c, right |-> h[n].right]
         /\ WithLeft(h, n, c)[n] \in Node(s)
<1> DEFINE r == [h[n] EXCEPT !.left = c]
<1>1. r = [key |-> h[n].key, value |-> h[n].value, left |-> c, right |-> h[n].right] /\ r \in Node(s)
  BY DEF Node
<1>2. WithLeft(h, n, c) = With(h, n, r)
  BY DEF With, WithLeft
<1> HIDE DEF r
<1> QED
  BY <1>1, <1>2, OneReplaced

LEMMA RightSet ==
  ASSUME NEW h, NEW l \in Nat, NEW s \in Nat, HeapType(h, l, s), NEW n \in 1 .. l,
         h[n] \in Node(s), NEW c \in 0 .. s
  PROVE  /\ HeapType(WithRight(h, n, c), l, s)
         /\ \A m \in 1 .. l : m # n => WithRight(h, n, c)[m] = h[m]
         /\ WithRight(h, n, c)[n] = [key |-> h[n].key, value |-> h[n].value, left |-> h[n].left, right |-> c]
         /\ WithRight(h, n, c)[n] \in Node(s)
<1> DEFINE r == [h[n] EXCEPT !.right = c]
<1>1. r = [key |-> h[n].key, value |-> h[n].value, left |-> h[n].left, right |-> c] /\ r \in Node(s)
  BY DEF Node
<1>2. WithRight(h, n, c) = With(h, n, r)
  BY DEF With, WithRight
<1> HIDE DEF r
<1> QED
  BY <1>1, <1>2, OneReplaced

LEMMA RightSetElsewhere ==
  ASSUME NEW h, NEW l \in Nat, NEW s \in Nat, HeapType(h, l, s), NEW n \in 1 .. l,
         h[n] \in Node(s), NEW c \in 0 .. s, NEW m \in 1 .. l, m # n
  PROVE  WithRight(h, n, c)[m] = h[m]
<1>1. PICK r : r = [h[n] EXCEPT !.right = c]
  OBVIOUS
<1>2. r \in Node(s)
  BY <1>1 DEF Node
<1>3. WithRight(h, n, c) = With(h, n, r)
  BY <1>1 DEF With, WithRight
<1>4. With(h, n, r)[m] = IF m = n THEN r ELSE h[m]
  BY <1>2, OneReplaced
<1> QED
  BY <1>3, <1>4

LEMMA ValueSet ==
  ASSUME NEW h, NEW l \in Nat, NEW s \in Nat, HeapType(h, l, s), NEW n \in 1 .. l,
         h[n] \in Node(s), NEW v \in Values
  PROVE  /\ HeapType(WithValue(h, n, v), l, s)
         /\ \A m \in 1 .. l : m # n => WithValue(h, n, v)[m] = h[m]
         /\ WithValue(h, n, v)[n] = [key |-> h[n].key, value |-> v, left |-> h[n].left, right |-> h[n].right]
         /\ WithValue(h, n, v)[n] \in Node(s)
<1> DEFINE r == [h[n] EXCEPT !.value = v]
<1>1. r = [key |-> h[n].key, value |-> v, left |-> h[n].left, right |-> h[n].right] /\ r \in Node(s)
  BY DEF Node
<1>2. WithValue(h, n, v) = With(h, n, r)
  BY DEF With, WithValue
<1> HIDE DEF r
<1> QED
  BY <1>1, <1>2, OneReplaced

-----------------------------------------------------------------------------
(* The node that takes the place of another one.                           *)

(* From a node to the left of n, the way goes to the last one in order.    *)
LEMMA WayEnds ==
  ASSUME Shape, Finite, NEW n \in Tree, heap[n].left \in live
  PROVE  \A m \in Sub(heap[n].left) :
           /\ End(Way(n), m) \in Sub(m) /\ heap[End(Way(n), m)].right \notin live
           /\ \A x \in Sub(m) : x # End(Way(n), m) => heap[x].key < heap[End(Way(n), m)].key
<1> DEFINE l == heap[n].left
           w(m) == End(Way(n), m)
           Good(m) == /\ w(m) \in Sub(m) /\ heap[w(m)].right \notin live
                      /\ \A x \in Sub(m) : x # w(m) => heap[x].key < heap[w(m)].key
           P == {m \in Tree : m \in Sub(l) => Good(m)}
<1>1. l \in Refs(n) /\ l \in Tree /\ n \notin Sub(l) /\ Sub(l) \subseteq Tree
  <2>1. l \in Refs(n)
    BY DEF Refs
  <2>2. l \in Tree /\ n \notin Sub(l)
    BY <2>1, Nodes1
  <2> QED
    BY <2>1, <2>2, Nodes1
<1> HIDE DEF l
<1>2. ASSUME NEW m \in Sub(l)
      PROVE  w(m) = IF heap[m].right \in live THEN w(heap[m].right) ELSE m
  <2>1. m \in live /\ m # n
    BY <1>1, Nodes1
  <2>2. Way(n)[m] = heap[m].right
    BY <2>1 DEF Way
  <2>3. w(m) = IF Way(n)[m] \in live THEN w(Way(n)[m]) ELSE m
    BY <2>1, EndGoesOn
  <2> QED
    BY <2>2, <2>3
<1> HIDE DEF w
<1>3. ASSUME NEW m \in Tree, Refs(m) \subseteq P, m \in Sub(l) PROVE Good(m)
  <2>1. m \in Sub(m) /\ Refs(m) \subseteq Sub(l) /\ heap[m].key \in Int
    BY <1>1, <1>3, Nodes1
  <2>2. \A x \in Sub(m) : x # m =>
          \/ heap[m].left \in live /\ x \in Sub(heap[m].left) /\ heap[x].key < heap[m].key
          \/ heap[m].right \in live /\ x \in Sub(heap[m].right)
    <3> SUFFICES ASSUME NEW x \in Sub(m), x # m
                 PROVE  \/ heap[m].left \in live /\ x \in Sub(heap[m].left) /\ heap[x].key < heap[m].key
                        \/ heap[m].right \in live /\ x \in Sub(heap[m].right)
      OBVIOUS
    <3>1. PICK c \in Refs(m) : x \in Sub(c)
      BY Nodes1
    <3> QED
      BY <3>1, Nodes1 DEF Refs
  <2>3. CASE heap[m].right \notin live
    <3>1. w(m) = m
      BY <1>2, <1>3, <2>3
    <3> QED
      BY <2>1, <2>2, <2>3, <3>1
  <2>4. CASE heap[m].right \in live
    <3> DEFINE d == heap[m].right
    <3>1. d \in Refs(m)
      BY <2>4 DEF Refs
    <3>2. Good(d) /\ w(m) = w(d) /\ Sub(d) \subseteq Sub(m) /\ Sub(d) \subseteq Tree /\ d \in Tree
      <4>1. d \in Tree /\ Sub(d) \subseteq Sub(m)
        BY <3>1, Nodes1
      <4>2. d \in P /\ d \in Sub(l) /\ w(m) = w(d)
        BY <1>2, <1>3, <2>1, <2>4, <3>1
      <4>3. Sub(d) \subseteq Tree
        BY <4>1, Nodes1
      <4> QED
        BY <4>1, <4>2, <4>3
    <3>3. heap[m].key < heap[w(d)].key /\ heap[w(d)].key \in Int
      BY <2>4, <3>2, Nodes1
    <3>4. ASSUME NEW x \in Sub(m), x # w(d) PROVE heap[x].key < heap[w(d)].key
      <4>1. heap[x].key \in Int
        <5>1. x \in Tree
          BY Nodes1
        <5> QED
          BY <5>1, Nodes1
      <4>2. x \in Sub(d) \/ x = m \/ heap[x].key < heap[m].key
        BY <2>2
      <4> QED
        BY <2>1, <3>2, <3>3, <3>4, <4>1, <4>2
    <3> QED
      BY <3>2, <3>4
  <2> QED
    BY <2>3, <2>4
<1>4. \A m \in Tree : Refs(m) \subseteq P => m \in P
  BY <1>3
<1> HIDE DEF P
<1>5. Tree \subseteq P
  BY <1>4, TreeUpwards
<1> QED
  BY <1>1, <1>5 DEF P, l, w

(* The node before it refers to it.                                        *)
LEMMA RightmostIsLast ==
  ASSUME Shape, Finite, NEW n \in Tree, heap[n].left \in live
  PROVE  LET c == Rightmost(n)
             p == AboveRightmost(n)
         IN /\ c \in Sub(heap[n].left) /\ heap[c].right \notin live
            /\ \A x \in Sub(heap[n].left) : x # c => heap[x].key < heap[c].key
            /\ \/ p = n /\ c = heap[n].left
               \/ p # n /\ p \in Sub(heap[n].left) /\ heap[p].right = c
<1> DEFINE l == heap[n].left
           up == [m \in live |-> IF Way(n)[m] \in live /\ Way(n)[Way(n)[m]] \in live
                                   THEN Way(n)[m] ELSE Null]
           w(m) == End(Way(n), m)
           u(m) == End(up, m)
           P == {m \in Tree : m \in Sub(l) /\ heap[m].right \in live =>
                                u(m) \in Sub(m) /\ heap[u(m)].right = w(m)}
<1>1. l \in Refs(n) /\ l \in Tree /\ n \notin Sub(l) /\ Sub(l) \subseteq Tree /\ l \in Sub(l)
      /\ n \in live /\ Null \notin live
  <2>1. l \in Refs(n)
    BY DEF Refs
  <2>2. l \in Tree /\ n \notin Sub(l)
    BY <2>1, Nodes1
  <2> QED
    BY <2>1, <2>2, Nodes1 DEF Finite
<1>2. \A m \in live : Way(n)[m] = IF m = n THEN l ELSE heap[m].right
  BY DEF Way
<1>3. \A m \in live : w(m) = IF Way(n)[m] \in live THEN w(Way(n)[m]) ELSE m
  BY EndGoesOn
<1>4. \A m \in live : u(m) = IF up[m] \in live THEN u(up[m]) ELSE m
  BY EndGoesOn
<1>5. \A m \in live : up[m] = IF Way(n)[m] \in live /\ Way(n)[Way(n)[m]] \in live
                                THEN Way(n)[m] ELSE Null
  OBVIOUS
<1> HIDE DEF w, u, up, l
<1>6. \A m \in Sub(l) : m \in live /\ m # n /\ m \in Tree /\ Refs(m) \subseteq Sub(l)
                        /\ m \in Sub(m)
  BY <1>1, Nodes1
<1>7. ASSUME NEW m \in Sub(l), heap[m].right \in live
      PROVE  /\ w(m) = w(heap[m].right) /\ heap[m].right \in Refs(m)
             /\ heap[m].right \in Sub(l)
             /\ u(m) = IF heap[heap[m].right].right \in live THEN u(heap[m].right) ELSE m
             /\ heap[heap[m].right].right \notin live => w(heap[m].right) = heap[m].right
  <2>1. heap[m].right \in Refs(m)
    BY <1>7 DEF Refs
  <2>2. heap[m].right \in Sub(l)
    BY <1>6, <2>1
  <2>3. Way(n)[m] = heap[m].right /\ Way(n)[heap[m].right] = heap[heap[m].right].right
    BY <1>2, <1>6, <2>2
  <2> QED
    BY <1>1, <1>3, <1>4, <1>5, <1>6, <1>7, <2>1, <2>2, <2>3
<1>8. ASSUME NEW m \in Tree, Refs(m) \subseteq P, m \in Sub(l), heap[m].right \in live
      PROVE  u(m) \in Sub(m) /\ heap[u(m)].right = w(m)
  <2> DEFINE d == heap[m].right
  <2>1. d \in P /\ d \in Sub(l) /\ Sub(d) \subseteq Sub(m)
    BY <1>7, <1>8, Nodes1
  <2>2. CASE heap[d].right \in live
    BY <1>7, <1>8, <2>1, <2>2
  <2>3. CASE heap[d].right \notin live
    BY <1>6, <1>7, <1>8, <2>1, <2>3
  <2> QED
    BY <2>2, <2>3
<1>9. \A m \in Tree : Refs(m) \subseteq P => m \in P
  BY <1>8
<1> HIDE DEF P
<1>10. Tree \subseteq P
  BY <1>9, TreeUpwards
<1>11. heap[l].right \in live => u(l) \in Sub(l) /\ heap[u(l)].right = w(l)
  BY <1>1, <1>10 DEF P
<1>12. Way(n)[n] = l /\ Way(n)[l] = heap[l].right /\ l \in live
  BY <1>1, <1>2, <1>6
<1>13. Rightmost(n) = w(l) /\ w(n) = w(l)
  <2>1. w(n) = w(l)
    BY <1>1, <1>3, <1>12
  <2> QED
    BY <2>1 DEF Rightmost, w
<1>14. AboveRightmost(n) = IF heap[l].right \in live THEN u(l) ELSE n
  <2>1. u(n) = IF heap[l].right \in live THEN u(l) ELSE n
    BY <1>1, <1>4, <1>5, <1>12
  <2> QED
    BY <2>1 DEF AboveRightmost, u, up
<1>15. heap[l].right \notin live => w(l) = l
  BY <1>3, <1>12
<1>16. /\ w(l) \in Sub(l) /\ heap[w(l)].right \notin live
       /\ \A x \in Sub(l) : x # w(l) => heap[x].key < heap[w(l)].key
  BY <1>1, WayEnds DEF l, w
<1>17. u(l) \in Sub(l) => u(l) # n
  BY <1>1
<1> HIDE DEF w
<1> QED
  BY <1>11, <1>13, <1>14, <1>15, <1>16, <1>17 DEF l

(* The node that refers to the one of a key.                               *)
LEMMA AboveRefers ==
  ASSUME Shape, Finite, root \in live, NEW k \in Int, heap[Bottom(k)].key = k, Bottom(k) # root
  PROVE  /\ Above(Bottom(k), k) \in Tree /\ Above(Bottom(k), k) # Bottom(k)
         /\ Child(Above(Bottom(k), k), k) = Bottom(k)
<1> DEFINE n == Bottom(k)
           next == [m \in live |-> IF Child(m, k) = n THEN Null ELSE Child(m, k)]
           e(m) == End(next, m)
           P == {m \in Tree : n \in Sub(m) /\ m # n => e(m) \in Tree /\ e(m) # n /\ Child(e(m), k) = n}
<1>1. root \in Tree /\ n \in Sub(root) /\ n \in Tree /\ Null \notin live
  BY TreeFits, BottomIsFound DEF Finite
<1>2. \A m \in Tree : n \in Sub(m) /\ m # n =>
        heap[m].key # k /\ Child(m, k) \in live /\ n \in Sub(Child(m, k))
  BY BottomIsFound
<1>3. \A m \in live : e(m) = IF next[m] \in live THEN e(next[m]) ELSE m
  BY EndGoesOn
<1>4. \A m \in live : next[m] = IF Child(m, k) = n THEN Null ELSE Child(m, k)
  OBVIOUS
<1>5. Above(n, k) = e(root)
  BY DEF Above
<1>a. n = Bottom(k)
  OBVIOUS
<1> HIDE DEF n, e, next
<1>6. ASSUME NEW m \in Tree, Refs(m) \subseteq P, n \in Sub(m), m # n
      PROVE  e(m) \in Tree /\ e(m) # n /\ Child(e(m), k) = n
  <2>1. m \in live /\ heap[m].key # k /\ Child(m, k) \in live /\ n \in Sub(Child(m, k))
    BY <1>2, <1>6, Nodes1
  <2>2. CASE Child(m, k) = n
    <3>1. e(m) = m
      BY <1>1, <1>3, <1>4, <2>1, <2>2
    <3> QED
      BY <1>6, <2>2, <3>1
  <2>3. CASE Child(m, k) # n
    <3>1. e(m) = e(Child(m, k))
      BY <1>3, <1>4, <2>1, <2>3
    <3>2. Child(m, k) \in P
      BY <1>6, <2>1, OneSide
    <3> QED
      BY <2>1, <2>3, <3>1, <3>2
  <2> QED
    BY <2>2, <2>3
<1>7. \A m \in Tree : Refs(m) \subseteq P => m \in P
  BY <1>6
<1> HIDE DEF P
<1>8. Tree \subseteq P
  BY <1>7, TreeUpwards
<1> QED
  BY <1>1, <1>5, <1>8, <1>a DEF P

-----------------------------------------------------------------------------
(* How the tree changes.                                                   *)

(* A node is added where the search for its key ends.                      *)
LEMMA Grown ==
  ASSUME Shape, Finite, Finite', root \in live, UNCHANGED root,
         NEW new, new \notin live, live' = live \cup {new},
         NEW k \in Int, heap'[new].key = k,
         heap'[new].left \notin live', heap'[new].right \notin live',
         heap[Bottom(k)].key # k,
         \A m \in Tree :
           /\ heap'[m].key = heap[m].key
           /\ heap[m].left # new /\ heap[m].right # new
           /\ heap'[m].left = IF m = Bottom(k) /\ k < heap[m].key THEN new ELSE heap[m].left
           /\ heap'[m].right = IF m = Bottom(k) /\ heap[m].key < k THEN new ELSE heap[m].right
  PROVE  /\ Shape' /\ Tree' = Tree \cup {new} /\ Sub(new)' = {new}
         /\ \A m \in Tree : Sub(m)' = IF Bottom(k) \in Sub(m) THEN Sub(m) \cup {new} ELSE Sub(m)
         /\ \A m \in Tree : Refs(m)' = IF m = Bottom(k) THEN Refs(m) \cup {new} ELSE Refs(m)
<1>1. PICK b : b = Bottom(k)
  OBVIOUS
<1>2. PICK S : S = [m \in Tree |-> Sub(m)]
  OBVIOUS
<1>3. PICK T1 : T1 = Tree \cup {new}
  OBVIOUS
<1>4. PICK sub1 : sub1 = [m \in T1 |-> IF m = new THEN {new}
                                       ELSE IF b \in S[m] THEN S[m] \cup {new} ELSE S[m]]
  OBVIOUS
<1>5. /\ b \in Tree /\ Child(b, k) \notin live /\ heap[b].key # k
      /\ \A m \in Tree : b \in S[m] /\ m # b =>
           heap[m].key # k /\ Child(m, k) \in live /\ b \in Sub(Child(m, k))
  BY <1>1, <1>2, BottomIsFound
<1>6. root \in Tree /\ Tree = Sub(root) /\ Tree \subseteq live
  BY TreeFits
<1>7. /\ \A m \in T1 : m # new => m \in Tree
      /\ \A m \in Tree : m \in T1 /\ m # new
      /\ sub1[new] = {new}
      /\ \A m \in Tree : sub1[m] = IF b \in Sub(m) THEN Sub(m) \cup {new} ELSE Sub(m)
  BY <1>2, <1>3, <1>4, <1>6
<1>e. \A m \in Tree : \A x : x \in sub1[m] <=> x \in Sub(m) \/ (x = new /\ b \in Sub(m))
  BY <1>7
<1>n. \A m \in Tree : new \notin Sub(m) /\ Sub(m) \subseteq Tree
  BY <1>6, Nodes1
<1>8. \A m \in Tree : Refs(m)' = IF m = b THEN Refs(m) \cup {new} ELSE Refs(m)
  <2> SUFFICES ASSUME NEW m \in Tree PROVE Refs(m)' = IF m = b THEN Refs(m) \cup {new} ELSE Refs(m)
    OBVIOUS
  <2>1. heap[m].key \in Int
    BY Nodes1
  <2>2. CASE m # b
    BY <1>1, <2>2 DEF Refs
  <2>3. CASE m = b /\ k < heap[m].key
    <3>1. heap'[m].left = new /\ heap'[m].right = heap[m].right /\ heap[m].left \notin live
      BY <1>1, <1>5, <2>1, <2>3 DEF Child
    <3> QED
      BY <2>3, <3>1 DEF Refs
  <2>4. CASE m = b /\ heap[m].key < k
    <3>1. heap'[m].right = new /\ heap'[m].left = heap[m].left /\ heap[m].right \notin live
      BY <1>1, <1>5, <2>1, <2>4 DEF Child
    <3> QED
      BY <2>4, <3>1 DEF Refs
  <2> QED
    BY <1>5, <2>1, <2>2, <2>3, <2>4
<1>9. Refs(new)' = {}
  BY DEF Refs
<1>10. \A m \in Tree : /\ \A x : x \in Sub(m) <=> x = m \/ \E c \in Refs(m) : x \in Sub(c)
                       /\ \A c \in Refs(m) : c \in Tree
                       /\ Sub(m) \subseteq Tree
  BY Nodes1
<1>11. \A m \in Tree : b \in Sub(m) /\ m # b => \E c \in Refs(m) : b \in Sub(c)
  BY <1>10
<1>12. ASSUME NEW m \in Tree
       PROVE  /\ Refs(m)' \subseteq T1 /\ sub1[m] \subseteq T1
              /\ sub1[m] = {m} \cup UNION {sub1[c] : c \in Refs(m)'}
  <2>1. ASSUME NEW x PROVE x \in sub1[m] <=> x = m \/ \E c \in Refs(m)' : x \in sub1[c]
    <3>1. CASE x = new
      <4>1. x \in sub1[m] <=> b \in Sub(m)
        BY <1>e, <1>n, <3>1
      <4>2. \A c \in Refs(m) : x \in sub1[c] <=> b \in Sub(c)
        BY <1>e, <1>n, <1>10, <3>1
      <4>3. b \in Sub(b)
        BY <1>5, Nodes1
      <4> QED
        BY <1>6, <1>7, <1>8, <1>10, <3>1, <4>1, <4>2, <4>3
    <3>2. CASE x # new
      <4>1. x \in sub1[m] <=> x \in Sub(m)
        BY <1>7, <3>2
      <4>2. \A c \in Refs(m) : x \in sub1[c] <=> x \in Sub(c)
        BY <1>e, <1>10, <3>2
      <4>3. x \notin sub1[new]
        BY <1>7, <3>2
      <4> QED
        BY <1>8, <1>10, <4>1, <4>2, <4>3
    <3> QED
      BY <3>1, <3>2
  <2>2. Refs(m)' \subseteq T1
    BY <1>3, <1>8, <1>10
  <2>3. sub1[m] \subseteq T1
    BY <1>3, <1>e, <1>n
  <2> QED
    BY <2>1, <2>2, <2>3
<1>13. ASSUME NEW m \in Tree
       PROVE  /\ heap'[m].left \in live' => \A x \in sub1[heap'[m].left] : heap'[x].key < heap'[m].key
              /\ heap'[m].right \in live' => \A x \in sub1[heap'[m].right] : heap'[m].key < heap'[x].key
  <2>1. heap'[m].key = heap[m].key /\ heap[m].key \in Int
    BY Nodes1
  <2>2. CASE m = b /\ k < heap[m].key
    <3>1. heap'[m].left = new /\ heap'[m].right = heap[m].right
      BY <1>1, <2>1, <2>2
    <3>2. \A x \in sub1[new] : heap'[x].key < heap'[m].key
      BY <1>7, <2>1, <2>2
    <3>3. ASSUME heap[m].right \in live PROVE \A x \in sub1[heap[m].right] : heap[m].key < heap'[x].key
      <4>1. heap[m].right \in Refs(m)
        BY <3>3 DEF Refs
      <4>2. b \notin Sub(heap[m].right) /\ heap[m].right \in Tree
        BY <2>2, <4>1, Nodes1
      <4>3. sub1[heap[m].right] = Sub(heap[m].right)
        BY <1>7, <4>2
      <4> QED
        BY <1>10, <3>3, <4>2, <4>3, Nodes1
    <3>4. heap[m].right # new
      OBVIOUS
    <3> QED
      BY <2>1, <3>1, <3>2, <3>3, <3>4
  <2>3. CASE m = b /\ heap[m].key < k
    <3>1. heap'[m].right = new /\ heap'[m].left = heap[m].left
      BY <1>1, <2>1, <2>3
    <3>2. \A x \in sub1[new] : heap'[m].key < heap'[x].key
      BY <1>7, <2>1, <2>3
    <3>3. ASSUME heap[m].left \in live PROVE \A x \in sub1[heap[m].left] : heap'[x].key < heap[m].key
      <4>1. heap[m].left \in Refs(m)
        BY <3>3 DEF Refs
      <4>2. b \notin Sub(heap[m].left) /\ heap[m].left \in Tree
        BY <2>3, <4>1, Nodes1
      <4>3. sub1[heap[m].left] = Sub(heap[m].left)
        BY <1>7, <4>2
      <4> QED
        BY <1>10, <3>3, <4>2, <4>3, Nodes1
    <3>4. heap[m].left # new
      OBVIOUS
    <3>5. heap'[m].left \in live' => \A x \in sub1[heap'[m].left] : heap'[x].key < heap'[m].key
      <4> SUFFICES ASSUME heap'[m].left \in live', NEW x \in sub1[heap'[m].left]
                   PROVE  heap'[x].key < heap'[m].key
        OBVIOUS
      <4>1. PICK l : l = heap[m].left
        OBVIOUS
      <4>2. l \in live /\ x \in sub1[l]
        BY <3>1, <3>4, <4>1
      <4>3. heap'[x].key < heap[m].key
        BY <3>3, <4>1, <4>2
      <4> QED
        BY <2>1, <4>3
    <3> QED
      BY <3>1, <3>2, <3>5
  <2>4. CASE m # b
    <3>1. heap'[m].left = heap[m].left /\ heap'[m].right = heap[m].right
          /\ heap[m].left # new /\ heap[m].right # new
      BY <1>1, <2>4
    <3>2. ASSUME NEW c \in Refs(m), NEW x \in sub1[c], x # new
          PROVE  x \in Sub(c) /\ heap'[x].key = heap[x].key
      <4>0. c \in Tree
        BY <1>10
      <4>1. x \in Sub(c)
        BY <1>7, <3>2, <4>0
      <4>2. x \in Tree
        BY <1>10, <4>0, <4>1
      <4> QED
        BY <4>1, <4>2
    <3>3. ASSUME NEW c \in Refs(m), new \in sub1[c]
          PROVE  /\ c = heap[m].left => k < heap[m].key
                 /\ c = heap[m].right => heap[m].key < k
      <4>1. c \in Tree /\ b \in Sub(c)
        BY <1>e, <1>n, <1>10, <3>3
      <4>2. b \in Sub(m)
        BY <1>10, <4>1
      <4>3. heap[m].key # k /\ Child(m, k) \in live /\ b \in Sub(Child(m, k))
        BY <1>2, <1>5, <2>4, <4>2
      <4>4. Child(m, k) \in Refs(m)
        BY <4>3 DEF Child, Refs
      <4>5. c = Child(m, k)
        BY <4>1, <4>3, <4>4, Nodes2
      <4>6. heap[m].left \in live /\ heap[m].right \in live => heap[m].left # heap[m].right
        <5> SUFFICES ASSUME heap[m].left \in live, heap[m].left = heap[m].right PROVE FALSE
          OBVIOUS
        <5> DEFINE l == heap[m].left
        <5>1. l \in Refs(m)
          BY DEF Refs
        <5>2. l \in Sub(l) /\ heap[l].key \in Int
          BY <5>1, <1>10, Nodes1
        <5>3. heap[l].key < heap[m].key /\ heap[m].key < heap[l].key
          BY <5>2, Nodes1
        <5> QED
          BY <2>1, <5>2, <5>3
      <4> QED
        BY <2>1, <3>3, <4>3, <4>5, <4>6 DEF Child
    <3>4. heap[m].left \in live => heap[m].left \in Refs(m)
      BY DEF Refs
    <3>5. heap[m].right \in live => heap[m].right \in Refs(m)
      BY DEF Refs
    <3>6. heap[m].left \in live => \A x \in Sub(heap[m].left) : heap[x].key < heap[m].key
      BY Nodes1
    <3>7. heap[m].right \in live => \A x \in Sub(heap[m].right) : heap[m].key < heap[x].key
      BY Nodes1
    <3>8. heap[m].left \in live => \A x \in sub1[heap[m].left] : heap'[x].key < heap[m].key
      BY <3>2, <3>3, <3>4, <3>6
    <3>9. heap[m].right \in live => \A x \in sub1[heap[m].right] : heap[m].key < heap'[x].key
      BY <3>2, <3>3, <3>5, <3>7
    <3> QED
      BY <2>1, <3>1, <3>8, <3>9
  <2> QED
    BY <1>5, <2>1, <2>2, <2>3, <2>4
<1>14. Fits(T1, sub1)'
  <2>1. T1 \subseteq live' /\ root' \in T1
    BY <1>3, <1>6
  <2>2. ASSUME NEW m \in T1
        PROVE  /\ Refs(m)' \subseteq T1 /\ sub1[m] \subseteq T1
               /\ sub1[m] = {m} \cup UNION {sub1[c] : c \in Refs(m)'}
               /\ heap'[m].left \in live' => \A x \in sub1[heap'[m].left] : heap'[x].key < heap'[m].key
               /\ heap'[m].right \in live' => \A x \in sub1[heap'[m].right] : heap'[m].key < heap'[x].key
    <3>1. CASE m = new
      BY <1>3, <1>7, <1>9, <3>1
    <3>2. CASE m # new
      BY <1>7, <1>12, <1>13, <3>2
    <3> QED
      BY <3>1, <3>2
  <2> QED
    BY <2>1, <2>2 DEF Fits
<1>15. Describes(T1, sub1)'
  BY <1>14, ShapeByNext
<1>16. root' \in live' /\ root' = root
  BY <1>6
<1>17. Shape' /\ Tree' = sub1[root] /\ \A m \in T1 : Sub(m)' = sub1[m]
  BY <1>15, <1>16 DEF Describes
<1>18. sub1[root] = Tree \cup {new}
  BY <1>5, <1>6, <1>7
<1> QED
  BY <1>1, <1>3, <1>7, <1>8, <1>17, <1>18

(* A node is removed that has nothing to its left.                         *)
LEMMA Removed ==
  ASSUME Shape, Finite, Finite', UNCHANGED live, NEW n \in Tree, heap[n].left \notin live,
         root' = IF root = n THEN heap[n].right ELSE root,
         \A m \in Tree :
           /\ heap'[m].key = heap[m].key
           /\ m # n =>
                /\ heap'[m].left = IF heap[m].left = n THEN heap[n].right ELSE heap[m].left
                /\ heap'[m].right = IF heap[m].right = n THEN heap[n].right ELSE heap[m].right
  PROVE  /\ Shape' /\ Tree' = Tree \ {n}
         /\ \A m \in Tree \ Sub(n) : \A x \in Refs(m) \ Sub(n) : x \in Refs(m)'
<1>1. PICK S : S = [m \in Tree |-> Sub(m)]
  OBVIOUS
<1>2. PICK T1 : T1 = Tree \ {n}
  OBVIOUS
<1>3. PICK sub1 : sub1 = [m \in T1 |-> S[m] \ {n}]
  OBVIOUS
<1>4. PICK r : r = heap[n].right
  OBVIOUS
<1>5. root \in Tree /\ Tree = Sub(root) /\ Tree \subseteq live /\ root \in live
  BY TreeFits
<1>6. \A m \in Tree : /\ m \in Sub(m) /\ Sub(m) \subseteq Tree
                      /\ \A x : x \in Sub(m) <=> x = m \/ \E c \in Refs(m) : x \in Sub(c)
                      /\ \A c \in Refs(m) : c \in Tree /\ Sub(c) \subseteq Sub(m) /\ m \notin Sub(c)
  BY Nodes1
<1>7. /\ r \in live => r \in Refs(n)
      /\ \A d \in Refs(n) : d = r /\ d \in live
  BY <1>4 DEF Refs
<1>8. r \in live => r \in Tree /\ r # n /\ Sub(r) \subseteq Sub(n) /\ n \notin Sub(r)
  BY <1>6, <1>7
<1>9. \A m \in T1 : m \in Tree /\ m # n /\ (\A x : x \in sub1[m] <=> x \in Sub(m) /\ x # n)
  BY <1>1, <1>2, <1>3
<1> DEFINE g(s) == IF s = n THEN r ELSE s
<1>10. ASSUME NEW m \in T1, NEW s \in Refs(m)
       PROVE  /\ g(s) \in live => g(s) \in T1
              /\ \A x : (g(s) \in live /\ x \in sub1[g(s)]) <=> (x \in Sub(s) /\ x # n)
  <2>1. m \in Tree /\ s \in Tree /\ s \in live
    BY <1>5, <1>6, <1>9
  <2>2. CASE s # n
    BY <1>2, <1>9, <2>1, <2>2
  <2>3. CASE s = n
    <3>1. r \in live => r \in T1
      BY <1>2, <1>8
    <3>2. \A x : x \in Sub(n) /\ x # n <=> r \in live /\ x \in Sub(r)
      BY <1>6, <1>7, <1>8
    <3> QED
      BY <1>9, <2>3, <3>1, <3>2, <1>8
  <2> QED
    BY <2>2, <2>3
<1>11. \A m \in T1 : heap'[m].left = g(heap[m].left) /\ heap'[m].right = g(heap[m].right)
  BY <1>4, <1>9
<1>12. \A s : g(s) \in live => s \in live
  BY <1>5
<1>13. \A m \in T1 : \A d : d \in Refs(m)' <=> \E s \in Refs(m) : d = g(s) /\ g(s) \in live
  BY <1>11, <1>12 DEF Refs
<1> HIDE DEF g
<1>14. ASSUME NEW m \in T1
       PROVE  /\ Refs(m)' \subseteq T1 /\ sub1[m] \subseteq T1
              /\ sub1[m] = {m} \cup UNION {sub1[c] : c \in Refs(m)'}
              /\ heap'[m].left \in live' => \A x \in sub1[heap'[m].left] : heap'[x].key < heap'[m].key
              /\ heap'[m].right \in live' => \A x \in sub1[heap'[m].right] : heap'[m].key < heap'[x].key
  <2>1. m \in Tree /\ m # n
    BY <1>9
  <2>2. Refs(m)' \subseteq T1
    BY <1>10, <1>13
  <2>3. sub1[m] \subseteq T1
    BY <1>2, <1>6, <1>9, <2>1
  <2>4. ASSUME NEW x PROVE x \in sub1[m] <=> x = m \/ \E c \in Refs(m)' : x \in sub1[c]
    <3>1. x \in sub1[m] <=> x = m \/ \E s \in Refs(m) : x \in Sub(s) /\ x # n
      BY <1>6, <1>9, <2>1
    <3>2. (\E c \in Refs(m)' : x \in sub1[c]) <=> \E s \in Refs(m) : g(s) \in live /\ x \in sub1[g(s)]
      BY <1>13
    <3> QED
      BY <1>10, <3>1, <3>2
  <2>5. sub1[m] = {m} \cup UNION {sub1[c] : c \in Refs(m)'}
    BY <2>4
  <2>6. ASSUME heap'[m].left \in live', NEW x \in sub1[heap'[m].left] PROVE heap'[x].key < heap'[m].key
    <3>1. heap[m].left \in live /\ heap'[m].left = g(heap[m].left)
      BY <1>11, <1>12, <2>6
    <3>2. heap[m].left \in Refs(m)
      BY <3>1 DEF Refs
    <3>3. x \in Sub(heap[m].left) /\ heap[m].left \in Tree
      BY <1>6, <1>10, <2>1, <2>6, <3>1, <3>2
    <3>4. heap[x].key < heap[m].key /\ x \in Tree
      BY <1>6, <2>1, <3>1, <3>3, Nodes1
    <3> QED
      BY <2>1, <3>4
  <2>7. ASSUME heap'[m].right \in live', NEW x \in sub1[heap'[m].right] PROVE heap'[m].key < heap'[x].key
    <3>1. heap[m].right \in live /\ heap'[m].right = g(heap[m].right)
      BY <1>11, <1>12, <2>7
    <3>2. heap[m].right \in Refs(m)
      BY <3>1 DEF Refs
    <3>3. x \in Sub(heap[m].right) /\ heap[m].right \in Tree
      BY <1>6, <1>10, <2>1, <2>7, <3>1, <3>2
    <3>4. heap[m].key < heap[x].key /\ x \in Tree
      BY <1>6, <2>1, <3>1, <3>3, Nodes1
    <3> QED
      BY <2>1, <3>4
  <2> QED
    BY <2>2, <2>3, <2>5, <2>6, <2>7
<1>15. root' \in live => root' \in T1
  BY <1>2, <1>4, <1>5, <1>8
<1>16. Fits(T1, sub1)'
  <2>1. T1 \subseteq live'
    BY <1>2, <1>5
  <2> QED
    BY <2>1, <1>14, <1>15 DEF Fits
<1>17. Describes(T1, sub1)'
  BY <1>16, ShapeByNext
<1>18. Shape' /\ Tree' = IF root' \in live' THEN sub1[root'] ELSE {}
  BY <1>17 DEF Describes
<1>19. Tree' = Tree \ {n}
  <2>1. CASE root # n
    <3>1. \A x : x \in sub1[root] <=> x \in Tree \ {n}
      BY <1>2, <1>5, <1>9, <2>1
    <3> QED
      BY <1>5, <1>18, <2>1, <3>1
  <2>2. CASE root = n
    <3>1. \A x : x \in Tree \ {n} <=> r \in live /\ x \in Sub(r)
      BY <1>5, <1>6, <1>7, <1>8, <2>2
    <3>2. r \in live => r \in T1
      BY <1>2, <1>8
    <3>3. r \in live => \A x : x \in sub1[r] <=> x \in Sub(r)
      BY <1>8, <1>9, <3>2
    <3> QED
      BY <1>4, <1>18, <2>2, <3>1, <3>3
  <2> QED
    BY <2>1, <2>2
<1>20. ASSUME NEW m \in Tree \ Sub(n), NEW x \in Refs(m) \ Sub(n) PROVE x \in Refs(m)'
  <2>1. m \in T1 /\ x # n
    BY <1>2, <1>6
  <2>2. x \in live
    BY DEF Refs
  <2> QED
    BY <1>13, <2>1, <2>2 DEF g
<1> QED
  BY <1>18, <1>19, <1>20

(* A node is removed, and the last one to its left takes its place.        *)
LEMMA Replaced ==
  ASSUME Shape, Finite, Finite', UNCHANGED live, NEW n \in Tree, heap[n].left \in live,
         NEW c \in Sub(heap[n].left), heap[c].right \notin live,
         \A x \in Sub(heap[n].left) : x # c => heap[x].key < heap[c].key,
         root' = IF root = n THEN c ELSE root,
         \A m \in Tree : heap'[m].key = heap[m].key,
         \A m \in Tree \ {n, c} :
           /\ heap'[m].left = IF heap[m].left = n THEN c
                              ELSE IF heap[m].left = c THEN heap[c].left ELSE heap[m].left
           /\ heap'[m].right = IF heap[m].right = n THEN c
                               ELSE IF heap[m].right = c THEN heap[c].left ELSE heap[m].right,
         heap'[c].left = IF heap[n].left = c THEN heap[c].left ELSE heap[n].left,
         heap'[c].right = heap[n].right
  PROVE  /\ Shape' /\ Tree' = Tree \ {n}
         /\ \A m \in Tree \ Sub(n) : \A x \in Refs(m) \ Sub(n) : x \in Refs(m)'
<1> DEFINE g(s) == IF s = n THEN c ELSE IF s = c THEN heap[c].left ELSE s
           gone(s) == IF n \in Sub(s) THEN n ELSE c
<1>1. PICK S : S = [m \in Tree |-> Sub(m)]
  OBVIOUS
<1>2. PICK T1 : T1 = Tree \ {n}
  OBVIOUS
<1>3. PICK sub1 : sub1 = [m \in T1 |-> IF m = c THEN S[n] \ {n}
                                       ELSE IF n \in S[m] THEN S[m] \ {n} ELSE S[m] \ {c}]
  OBVIOUS
<1>4. root \in Tree /\ Tree = Sub(root) /\ Tree \subseteq live /\ root \in live
  BY TreeFits
<1>5. \A m \in Tree : /\ m \in Sub(m) /\ Sub(m) \subseteq Tree
                      /\ \A x : x \in Sub(m) <=> x = m \/ \E d \in Refs(m) : x \in Sub(d)
                      /\ \A d \in Refs(m) : d \in Tree /\ Sub(d) \subseteq Sub(m) /\ m \notin Sub(d)
                      /\ \A x \in Sub(m) : Sub(x) \subseteq Sub(m)
  BY Nodes1
<1>6. heap[n].left \in Refs(n)
  BY DEF Refs
<1>7. /\ c \in Tree /\ c # n /\ c \in Sub(n) /\ n \notin Sub(c) /\ c \in live /\ n \in live
      /\ heap[n].left \in Tree /\ heap[n].left # n
      /\ \A s \in Refs(n) : n \notin Sub(s) /\ s # n
      /\ c \notin Sub(heap[c].left)
  <2>1. c \in Tree /\ c # n /\ c \in Sub(n) /\ n \notin Sub(c) /\ c \in live /\ n \in live
    BY <1>4, <1>5, <1>6
  <2>2. c \notin Sub(heap[c].left)
    <3>1. CASE heap[c].left \in live
      <4>1. heap[c].left \in Refs(c)
        BY <3>1 DEF Refs
      <4> QED
        BY <4>1, <2>1, <1>5
    <3>2. CASE heap[c].left \notin live
      BY <3>2, ReachedIsUnion
    <3> QED
      BY <3>1, <3>2
  <2> QED
    BY <1>5, <1>6, <2>1, <2>2
<1>8. /\ \A d \in Refs(c) : d = heap[c].left /\ d \in live
      /\ heap[c].left \in live => heap[c].left \in Refs(c)
  BY DEF Refs
<1>9. \A m \in T1 : /\ m \in Tree /\ m # n
                    /\ m # c => \A x : x \in sub1[m] <=> x \in Sub(m) /\ x # gone(m)
                    /\ m = c => \A x : x \in sub1[m] <=> x \in Sub(n) /\ x # n
  BY <1>1, <1>2, <1>3
<1>10. \A m \in Tree : m # n => m \in T1
  BY <1>2
<1>11. ASSUME NEW m \in Tree, NEW s \in Refs(m), m # c
       PROVE  /\ g(s) \in live => g(s) \in T1
              /\ \A x : (g(s) \in live /\ x \in sub1[g(s)]) <=> (x \in Sub(s) /\ x # gone(s))
  <2>1. s \in Tree /\ s \in live
    BY <1>4, <1>5
  <2>2. CASE s = n
    <3>1. g(s) = c /\ gone(s) = n /\ c \in T1 /\ c \in live
      BY <1>5, <1>7, <1>10, <2>2
    <3> QED
      BY <1>9, <2>2, <3>1
  <2>3. CASE s = c
    <3> DEFINE d == heap[c].left
    <3>1. g(s) = d /\ gone(s) = c
      BY <1>7, <2>3
    <3>2. \A x : x \in Sub(c) <=> x = c \/ (d \in live /\ x \in Sub(d))
      BY <1>5, <1>7, <1>8
    <3>3. ASSUME d \in live PROVE d \in T1 /\ d # c /\ \A x : x \in sub1[d] <=> x \in Sub(d)
      <4>1. d \in Tree /\ Sub(d) \subseteq Sub(c) /\ c \notin Sub(d) /\ d \in Sub(d)
        BY <1>5, <1>7, <1>8, <3>3
      <4>2. d \in T1 /\ n \notin Sub(d) /\ d # c
        BY <1>7, <1>10, <4>1
      <4> QED
        BY <1>9, <4>1, <4>2
    <3> QED
      BY <1>7, <2>3, <3>1, <3>2, <3>3
  <2>4. CASE s # n /\ s # c
    <3>1. g(s) = s /\ s \in T1
      BY <1>10, <2>1, <2>4
    <3> QED
      BY <1>9, <2>1, <2>4, <3>1
  <2> QED
    BY <2>2, <2>3, <2>4
<1>12. /\ \A m \in T1 : m # c => heap'[m].left = g(heap[m].left) /\ heap'[m].right = g(heap[m].right)
       /\ heap'[c].left = g(heap[n].left) /\ heap'[c].right = g(heap[n].right)
  <2>1. \A m \in T1 : m # c => m \in Tree \ {n, c}
    BY <1>9
  <2>2. heap'[c].left = g(heap[n].left)
    BY <1>7
  <2>3. g(heap[n].right) = heap[n].right
    <3>1. CASE heap[n].right \in live
      <4>1. heap[n].right \in Refs(n)
        BY <3>1 DEF Refs
      <4>2. heap[n].right # n
        BY <4>1, <1>7
      <4>3. heap[n].right # c
        <5> SUFFICES ASSUME heap[n].right = c PROVE FALSE
          OBVIOUS
        <5>1. c \in Refs(n) /\ c \in Sub(c)
          BY <4>1, <1>5, <1>7
        <5>2. c = heap[n].left
          BY <1>6, <5>1, Nodes2
        <5>3. heap[c].key < heap[n].key /\ heap[n].key < heap[c].key
          BY <3>1, <5>1, <5>2, Nodes1
        <5>4. heap[c].key \in Int /\ heap[n].key \in Int
          BY <1>7, Nodes1
        <5> QED
          BY <5>3, <5>4
      <4> QED
        BY <4>2, <4>3
    <3>2. CASE heap[n].right \notin live
      BY <1>7, <3>2
    <3> QED
      BY <3>1, <3>2
  <2> QED
    BY <2>1, <2>2, <2>3
<1>13. \A s : g(s) \in live => s \in live
  BY <1>7
(* The place of m in the old tree.                                         *)
<1> DEFINE old(m) == IF m = c THEN n ELSE m
<1>14. ASSUME NEW m \in T1
       PROVE  /\ old(m) \in Tree /\ old(m) # c
              /\ heap'[m].left = g(heap[old(m)].left) /\ heap'[m].right = g(heap[old(m)].right)
              /\ \A x : x \in sub1[m] <=> x = m \/ \E s \in Refs(old(m)) : x \in Sub(s) /\ x # gone(s)
  <2>1. CASE m = c
    <3>1. \A s \in Refs(n) : gone(s) = c
      BY <1>7
    <3>2. old(m) = n
      BY <2>1
    <3>3. \A x : x \in sub1[m] <=> x = c \/ \E s \in Refs(n) : x \in Sub(s) /\ x # c
      BY <1>5, <1>7, <1>9, <2>1
    <3>4. \A x : x \in sub1[m] <=> x = m \/ \E s \in Refs(n) : x \in Sub(s) /\ x # gone(s)
      BY <2>1, <3>1, <3>3
    <3> QED
      BY <1>7, <1>12, <2>1, <3>2, <3>4
  <2>2. CASE m # c
    <3>1. old(m) = m /\ m \in Tree /\ m # n
      BY <1>9, <2>2
    <3>2. m # gone(m)
      BY <2>2, <3>1
    <3>3. ASSUME NEW s \in Refs(m), NEW x \in Sub(s), x # gone(m) PROVE x # gone(s)
      <4>1. CASE n \in Sub(s)
        BY <1>5, <3>1, <3>3, <4>1
      <4>2. CASE n \notin Sub(s) /\ n \in Sub(m)
        <5>1. PICK t \in Refs(m) : n \in Sub(t)
          BY <1>5, <3>1, <4>2
        <5>2. c \in Sub(t)
          BY <1>5, <1>7, <3>1, <5>1
        <5>3. x # c
          BY <3>1, <3>3, <4>2, <5>1, <5>2, Nodes2
        <5> QED
          BY <4>2, <5>3
      <4>3. CASE n \notin Sub(s) /\ n \notin Sub(m)
        BY <3>3, <4>3
      <4> QED
        BY <4>1, <4>2, <4>3
    <3>4. ASSUME NEW s \in Refs(m), NEW x \in Sub(s), x # gone(s) PROVE x # gone(m)
      BY <1>5, <3>1, <3>4
    <3>5. \A x : x \in sub1[m] <=> x \in Sub(m) /\ x # gone(m)
      BY <1>9, <2>2
    <3>6. \A x : x \in Sub(m) <=> x = m \/ \E s \in Refs(m) : x \in Sub(s)
      BY <1>5, <3>1
    <3>7. \A x : x \in sub1[m] <=> x = m \/ \E s \in Refs(m) : x \in Sub(s) /\ x # gone(s)
      BY <3>2, <3>3, <3>4, <3>5, <3>6
    <3> QED
      BY <1>12, <2>2, <3>1, <3>7
  <2> QED
    BY <2>1, <2>2
<1>15. \A m \in T1 : \A d : d \in Refs(m)' <=> \E s \in Refs(old(m)) : d = g(s) /\ g(s) \in live
  <2> SUFFICES ASSUME NEW m \in T1
               PROVE  \A d : d \in Refs(m)' <=> \E s \in Refs(old(m)) : d = g(s) /\ g(s) \in live
    OBVIOUS
  <2>1. PICK o : o = old(m)
    OBVIOUS
  <2>2. heap'[m].left = g(heap[o].left) /\ heap'[m].right = g(heap[o].right)
    BY <1>14, <2>1
  <2> HIDE DEF g, old
  <2> QED
    BY <1>13, <2>1, <2>2 DEF Refs
<1>16. ASSUME NEW m \in T1
       PROVE  /\ Refs(m)' \subseteq T1 /\ sub1[m] \subseteq T1
              /\ sub1[m] = {m} \cup UNION {sub1[d] : d \in Refs(m)'}
              /\ heap'[m].left \in live' => \A x \in sub1[heap'[m].left] : heap'[x].key < heap'[m].key
              /\ heap'[m].right \in live' => \A x \in sub1[heap'[m].right] : heap'[m].key < heap'[x].key
  <2>1. PICK o : o = old(m)
    OBVIOUS
  <2>2. m \in Tree /\ m # n /\ o \in Tree /\ o # c
    BY <1>9, <1>14, <2>1
  <2>3. heap'[m].left = g(heap[o].left) /\ heap'[m].right = g(heap[o].right)
    BY <1>14, <2>1
  <2>4. Refs(m)' \subseteq T1
    BY <1>11, <1>15, <2>1, <2>2
  <2>5. sub1[m] \subseteq T1
    <3>1. ASSUME NEW x \in sub1[m] PROVE x \in Tree /\ x # n
      <4>1. CASE m = c
        BY <1>5, <1>9, <4>1
      <4>2. CASE m # c
        BY <1>5, <1>9, <4>2
      <4> QED
        BY <4>1, <4>2
    <3> QED
      BY <1>10, <3>1
  <2>6. ASSUME NEW x PROVE x \in sub1[m] <=> x = m \/ \E d \in Refs(m)' : x \in sub1[d]
    <3>1. x \in sub1[m] <=> x = m \/ \E s \in Refs(o) : x \in Sub(s) /\ x # gone(s)
      BY <1>14, <2>1
    <3>2. (\E d \in Refs(m)' : x \in sub1[d]) <=> \E s \in Refs(o) : g(s) \in live /\ x \in sub1[g(s)]
      <4> HIDE DEF g, old
      <4> QED
        BY <1>15, <2>1
    <3>3. \A s \in Refs(o) : g(s) \in live /\ x \in sub1[g(s)] <=> x \in Sub(s) /\ x # gone(s)
      BY <1>11, <2>2
    <3> HIDE DEF g, gone
    <3> QED
      BY <3>1, <3>2, <3>3
  <2>7. sub1[m] = {m} \cup UNION {sub1[d] : d \in Refs(m)'}
    BY <2>6
  <2>8. heap[o].left \in live => heap[o].left \in Refs(o)
    BY DEF Refs
  <2>9. heap[o].right \in live => heap[o].right \in Refs(o)
    BY DEF Refs
  <2>10. heap'[m].key = heap[m].key /\ heap[m].key \in Int /\ heap[n].key \in Int
    BY <2>2, Nodes1
  <2>11. ASSUME heap'[m].left \in live', NEW x \in sub1[heap'[m].left] PROVE heap'[x].key < heap'[m].key
    <3>1. heap[o].left \in live
      BY <1>13, <2>3, <2>11
    <3>2. x \in Sub(heap[o].left) /\ x # gone(heap[o].left)
      <4> HIDE DEF g, gone
      <4> QED
        BY <1>11, <2>2, <2>3, <2>8, <2>11, <3>1
    <3>3. x \in Tree /\ heap'[x].key = heap[x].key
      <4>1. heap[o].left \in Tree
        BY <1>5, <2>2, <2>8, <3>1
      <4>2. x \in Tree
        BY <1>5, <3>2, <4>1
      <4> QED
        BY <4>2
    <3>4. CASE m = c
      <4>1. o = n /\ heap[n].left \in Refs(n)
        BY <1>6, <2>1, <3>4
      <4>2. gone(heap[n].left) = c
        BY <1>7, <4>1
      <4> QED
        BY <2>10, <3>2, <3>3, <3>4, <4>1, <4>2
    <3>5. CASE m # c
      <4>1. o = m
        BY <2>1, <3>5
      <4>2. heap[x].key < heap[m].key
        BY <2>2, <3>1, <3>2, <4>1, Nodes1
      <4> QED
        BY <2>10, <3>3, <4>2
    <3> QED
      BY <3>4, <3>5
  <2>12. ASSUME heap'[m].right \in live', NEW x \in sub1[heap'[m].right] PROVE heap'[m].key < heap'[x].key
    <3>1. heap[o].right \in live
      BY <1>13, <2>3, <2>12
    <3>2. x \in Sub(heap[o].right)
      <4> HIDE DEF g, gone
      <4> QED
        BY <1>11, <2>2, <2>3, <2>9, <2>12, <3>1
    <3>3. x \in Tree /\ heap'[x].key = heap[x].key /\ heap[x].key \in Int
      <4>1. heap[o].right \in Tree
        BY <1>5, <2>2, <2>9, <3>1
      <4>2. x \in Tree
        BY <1>5, <3>2, <4>1
      <4> QED
        BY <4>2, Nodes1
    <3>4. heap[o].key < heap[x].key
      BY <2>2, <3>1, <3>2, Nodes1
    <3>5. CASE m = c
      <4>1. o = n
        BY <2>1, <3>5
      <4>2. heap[c].key < heap[n].key
        BY Nodes1
      <4> QED
        BY <2>10, <3>3, <3>4, <3>5, <4>1, <4>2
    <3>6. CASE m # c
      BY <2>1, <2>10, <3>3, <3>4, <3>6
    <3> QED
      BY <3>5, <3>6
  <2> QED
    BY <2>4, <2>5, <2>7, <2>11, <2>12
<1> HIDE DEF g, old
<1>17. root # c
  BY <1>4, <1>7
<1>18. root' \in T1 /\ root' \in live'
  BY <1>4, <1>7, <1>10
<1>19. Fits(T1, sub1)'
  <2>1. T1 \subseteq live'
    BY <1>2, <1>4
  <2> QED
    BY <2>1, <1>16, <1>18 DEF Fits
<1>20. Describes(T1, sub1)'
  BY <1>19, ShapeByNext
<1>21. Shape' /\ Tree' = sub1[root']
  BY <1>18, <1>20 DEF Describes
<1>22. Tree' = Tree \ {n}
  <2>1. CASE root # n
    <3>1. \A x : x \in sub1[root] <=> x \in Tree \ {n}
      BY <1>4, <1>9, <1>10, <1>17, <2>1
    <3> QED
      BY <1>21, <2>1, <3>1
  <2>2. CASE root = n
    <3>1. \A x : x \in sub1[c] <=> x \in Tree \ {n}
      BY <1>4, <1>7, <1>9, <1>10, <2>2
    <3> QED
      BY <1>21, <2>2, <3>1
  <2> QED
    BY <2>1, <2>2
<1>23. ASSUME NEW m \in Tree \ Sub(n), NEW x \in Refs(m) \ Sub(n) PROVE x \in Refs(m)'
  <2>1. m \in T1 /\ m # c /\ x # n /\ x # c
    BY <1>5, <1>7, <1>10
  <2>2. x \in live
    BY DEF Refs
  <2> QED
    BY <1>15, <2>1, <2>2 DEF g, old
<1> QED
  BY <1>21, <1>22, <1>23

(* Nodes are destroyed.                                                    *)
LEMMA Shrunk ==
  ASSUME Shape, Finite, Finite', UNCHANGED root, NEW D, live' = live \ D,
         \A m \in live \ D : heap'[m] = heap[m]
  PROVE  /\ Shape' /\ Tree' \subseteq Tree \ D
         /\ \A x \in Tree : (\A y \in Tree : x \in Sub(y) => y \notin D) => x \in Tree'
<1>1. PICK S : S = [m \in Tree |-> Sub(m)]
  OBVIOUS
<1>2. PICK T1 : T1 = Tree \ D
  OBVIOUS
<1>3. PICK sub1 : sub1 = [m \in T1 |-> {x \in S[m] : \A y \in S[m] : x \in S[y] => y \notin D}]
  OBVIOUS
<1>4. /\ Tree \subseteq live /\ Tree = Sub(root)
      /\ root \in live <=> root \in Tree
      /\ root \notin live => Tree = {}
  BY TreeFits
<1>5. \A m \in Tree : /\ m \in Sub(m) /\ Sub(m) \subseteq Tree
                      /\ \A x : x \in Sub(m) <=> x = m \/ \E d \in Refs(m) : x \in Sub(d)
                      /\ \A d \in Refs(m) : d \in Tree /\ Sub(d) \subseteq Sub(m) /\ m \notin Sub(d)
                      /\ \A x \in Sub(m) : Sub(x) \subseteq Sub(m)
  BY Nodes1
<1>6. \A m \in T1 : /\ m \in Tree /\ m \notin D
                    /\ \A x : x \in sub1[m] <=> x \in Sub(m) /\ \A y \in Sub(m) : x \in Sub(y) => y \notin D
  <2> SUFFICES ASSUME NEW m \in T1
               PROVE  /\ m \in Tree /\ m \notin D
                      /\ \A x : x \in sub1[m] <=> x \in Sub(m) /\ \A y \in Sub(m) : x \in Sub(y) => y \notin D
    OBVIOUS
  <2>1. m \in Tree /\ m \notin D
    BY <1>2
  <2>2. S[m] = Sub(m) /\ \A y \in Sub(m) : S[y] = Sub(y)
    BY <1>1, <1>5, <2>1
  <2>3. sub1[m] = {x \in S[m] : \A y \in S[m] : x \in S[y] => y \notin D}
    BY <1>3
  <2> QED
    BY <2>1, <2>2, <2>3
<1>7. \A m \in T1 : heap'[m] = heap[m] /\ Refs(m)' = Refs(m) \ D
  <2> SUFFICES ASSUME NEW m \in T1 PROVE heap'[m] = heap[m] /\ Refs(m)' = Refs(m) \ D
    OBVIOUS
  <2>1. heap'[m] = heap[m]
    BY <1>4, <1>6
  <2> QED
    BY <2>1 DEF Refs
<1>8. ASSUME NEW m \in T1
      PROVE  /\ Refs(m)' \subseteq T1 /\ sub1[m] \subseteq T1
             /\ sub1[m] = {m} \cup UNION {sub1[c] : c \in Refs(m)'}
             /\ heap'[m].left \in live' => \A x \in sub1[heap'[m].left] : heap'[x].key < heap'[m].key
             /\ heap'[m].right \in live' => \A x \in sub1[heap'[m].right] : heap'[m].key < heap'[x].key
  <2>1. m \in Tree /\ m \notin D /\ heap'[m] = heap[m]
    BY <1>6, <1>7
  <2>2. Refs(m)' \subseteq T1
    BY <1>2, <1>5, <1>7, <2>1
  <2>3. \A k \in T1 : sub1[k] \subseteq T1
    <3> SUFFICES ASSUME NEW k \in T1, NEW x \in sub1[k] PROVE x \in T1
      OBVIOUS
    <3>1. k \in Tree /\ x \in Sub(k) /\ \A y \in Sub(k) : x \in Sub(y) => y \notin D
      BY <1>6
    <3>2. x \in Tree /\ x \in Sub(x)
      BY <1>5, <3>1
    <3> QED
      BY <1>2, <3>1, <3>2
  <2>4. ASSUME NEW x \in sub1[m], x # m PROVE \E c \in Refs(m)' : x \in sub1[c]
    <3>1. x \in Sub(m) /\ \A y \in Sub(m) : x \in Sub(y) => y \notin D
      BY <1>6
    <3>2. PICK c \in Refs(m) : x \in Sub(c)
      BY <1>5, <2>1, <2>4, <3>1
    <3>3. c \in Tree /\ c \in Sub(m) /\ Sub(c) \subseteq Sub(m)
      BY <1>5, <2>1
    <3>4. c \notin D /\ c \in T1
      BY <1>2, <3>1, <3>2, <3>3
    <3>5. x \in sub1[c]
      BY <1>6, <3>1, <3>2, <3>3, <3>4
    <3> QED
      BY <1>7, <3>4, <3>5
  <2>5. m \in sub1[m]
    <3>1. ASSUME NEW y \in Sub(m), m \in Sub(y) PROVE y \notin D
      <4>1. CASE y = m
        BY <2>1, <4>1
      <4>2. CASE y # m
        <5>1. PICK d \in Refs(m) : y \in Sub(d)
          BY <1>5, <2>1, <4>2
        <5>2. d \in Tree /\ m \notin Sub(d)
          BY <1>5, <2>1
        <5> QED
          BY <1>5, <3>1, <5>1, <5>2
      <4> QED
        BY <4>1, <4>2
    <3> QED
      BY <1>5, <1>6, <2>1, <3>1
  <2>6. ASSUME NEW c \in Refs(m)', NEW x \in sub1[c] PROVE x \in sub1[m]
    <3>1. c \in Refs(m) /\ c \in T1 /\ c \in Tree /\ Sub(c) \subseteq Sub(m)
      BY <1>5, <1>7, <2>1, <2>2
    <3>2. x \in Sub(c) /\ \A y \in Sub(c) : x \in Sub(y) => y \notin D
      BY <1>6, <3>1
    <3>3. ASSUME NEW y \in Sub(m), x \in Sub(y) PROVE y \notin D
      <4>1. CASE y = m
        BY <2>1, <4>1
      <4>2. CASE y # m
        <5>1. PICK d \in Refs(m) : y \in Sub(d)
          BY <1>5, <2>1, <4>2
        <5>2. d \in Tree /\ x \in Sub(d)
          BY <1>5, <2>1, <3>3, <5>1
        <5>3. d = c
          BY <2>1, <3>1, <3>2, <5>2, Nodes2
        <5> QED
          BY <3>2, <3>3, <5>1, <5>3
      <4> QED
        BY <4>1, <4>2
    <3> QED
      BY <1>6, <3>1, <3>2, <3>3
  <2>7. sub1[m] = {m} \cup UNION {sub1[c] : c \in Refs(m)'}
    <3>1. \A x : x \in sub1[m] <=> x = m \/ \E c \in Refs(m)' : x \in sub1[c]
      BY <2>4, <2>5, <2>6
    <3> QED
      BY <3>1
  <2>8. ASSUME NEW c \in T1, NEW x \in sub1[c] PROVE heap'[x].key = heap[x].key /\ x \in Sub(c)
    <3>1. x \in T1
      BY <2>3
    <3> QED
      BY <1>6, <1>7, <3>1
  <2>9. ASSUME heap'[m].left \in live'
        PROVE  \A x \in sub1[heap'[m].left] : heap'[x].key < heap'[m].key
    <3>1. heap[m].left \in Refs(m)' /\ heap[m].left \in live
      BY <2>1, <2>9 DEF Refs
    <3>2. heap[m].left \in T1
      BY <2>2, <3>1
    <3> QED
      BY <2>1, <2>8, <3>1, <3>2, Nodes1
  <2>10. ASSUME heap'[m].right \in live'
         PROVE  \A x \in sub1[heap'[m].right] : heap'[m].key < heap'[x].key
    <3>1. heap[m].right \in Refs(m)' /\ heap[m].right \in live
      BY <2>1, <2>10 DEF Refs
    <3>2. heap[m].right \in T1
      BY <2>2, <3>1
    <3> QED
      BY <2>1, <2>8, <3>1, <3>2, Nodes1
  <2> QED
    BY <2>2, <2>3, <2>7, <2>9, <2>10
<1>9. Fits(T1, sub1)'
  <2>1. T1 \subseteq live' /\ (root' \in live' => root' \in T1)
    BY <1>2, <1>4
  <2> QED
    BY <2>1, <1>8 DEF Fits
<1>10. Describes(T1, sub1)'
  BY <1>9, ShapeByNext
<1>11. Shape' /\ Tree' = IF root' \in live' THEN sub1[root'] ELSE {}
  BY <1>10 DEF Describes
<1>12. Tree' \subseteq Tree \ D
  <2>1. root \in live' => root \in T1
    BY <1>2, <1>4
  <2> QED
    BY <1>2, <1>8, <1>11, <2>1
<1>13. ASSUME NEW x \in Tree, \A y \in Tree : x \in Sub(y) => y \notin D PROVE x \in Tree'
  <2>1. root \in Tree /\ root \notin D /\ root \in T1 /\ root \in live'
    BY <1>2, <1>4, <1>13
  <2>2. x \in sub1[root]
    BY <1>4, <1>5, <1>6, <1>13, <2>1
  <2> QED
    BY <1>11, <2>1, <2>2
<1> QED
  BY <1>11, <1>12, <1>13

(* The references and the keys stay.                                       *)
LEMMA Same ==
  ASSUME Shape, Finite, Finite', UNCHANGED <<root, live>>,
         \A m \in Tree : /\ heap'[m].key = heap[m].key
                         /\ heap'[m].left = heap[m].left /\ heap'[m].right = heap[m].right
  PROVE  /\ Shape' /\ Tree' = Tree
         /\ \A m \in Tree : Sub(m)' = Sub(m) /\ Refs(m)' = Refs(m)
<1>1. PICK T1, sub1 : Fits(T1, sub1) /\ T1 = Tree /\ \A m \in Tree : sub1[m] = Sub(m)
  BY TreeFits
<1>2. \A m \in Tree : Refs(m)' = Refs(m)
  BY DEF Refs
<1>3. \A m \in Tree : Refs(m) \subseteq Tree /\ sub1[m] \subseteq Tree
  BY <1>1 DEF Fits
<1>4. ASSUME NEW m \in T1
      PROVE  /\ heap'[m].left \in live' => \A x \in sub1[heap'[m].left] : heap'[x].key < heap'[m].key
             /\ heap'[m].right \in live' => \A x \in sub1[heap'[m].right] : heap'[m].key < heap'[x].key
  <2>1. heap[m].left \in live => heap[m].left \in Refs(m)
    BY DEF Refs
  <2>2. heap[m].right \in live => heap[m].right \in Refs(m)
    BY DEF Refs
  <2>3. /\ heap[m].left \in live => \A x \in sub1[heap[m].left] : heap[x].key < heap[m].key
        /\ heap[m].right \in live => \A x \in sub1[heap[m].right] : heap[m].key < heap[x].key
    BY <1>1 DEF Fits
  <2> QED
    BY <1>1, <1>3, <2>1, <2>2, <2>3
<1>5. Fits(T1, sub1)'
  BY <1>1, <1>2, <1>4 DEF Fits
<1>6. Describes(T1, sub1)'
  BY <1>5, ShapeByNext
<1>7. Shape' /\ Tree' = (IF root \in live THEN sub1[root] ELSE {}) /\ \A m \in Tree : Sub(m)' = sub1[m]
  BY <1>1, <1>6 DEF Describes
<1>8. Tree' = Tree
  BY <1>1, <1>7, TreeFits
<1> QED
  BY <1>1, <1>2, <1>7, <1>8

(* There is no tree.                                                       *)
LEMMA Nothing ==
  ASSUME Finite', root' \notin live'
  PROVE  Shape' /\ Tree' = {}
<1>1. PICK T1, sub1 : T1 = {} /\ sub1 = [m \in {} |-> {}]
  OBVIOUS
<1>2. Fits(T1, sub1)'
  BY <1>1 DEF Fits
<1>3. Describes(T1, sub1)'
  BY <1>2, ShapeByNext
<1> QED
  BY <1>3 DEF Describes

(* There is one node.                                                      *)
LEMMA First ==
  ASSUME Finite', NEW new, root' = new, new \in live',
         heap'[new].left \notin live', heap'[new].right \notin live'
  PROVE  Shape' /\ Tree' = {new}
<1>1. PICK T1, sub1 : T1 = {new} /\ sub1 = [m \in {new} |-> {new}]
  OBVIOUS
<1>2. Refs(new)' = {}
  BY DEF Refs
<1>3. Fits(T1, sub1)'
  BY <1>1, <1>2 DEF Fits
<1>4. Describes(T1, sub1)'
  BY <1>3, ShapeByNext
<1> QED
  BY <1>1, <1>4 DEF Describes

-----------------------------------------------------------------------------
(* What is destroyed together.                                             *)

LEMMA BelowIs ==
  ASSUME Null \notin live, NEW S, NEW x
  PROVE  x \in Below(S) <=> x \in live /\ (x \in S \/ (parent[x] \in live /\ parent[x] \in Below(S)))
<1> DEFINE next == [m \in live |-> IF m \in S THEN Null ELSE parent[m]]
<1>1. \A n \in live : End(next, n) = IF next[n] \in live THEN End(next, next[n]) ELSE n
  BY EndGoesOn
<1>2. Below(S) = {n \in live : End(next, n) \in S}
  BY DEF Below
<1>3. \A n \in live : next[n] = IF n \in S THEN Null ELSE parent[n]
  OBVIOUS
<1> HIDE DEF next
<1> QED
  BY <1>1, <1>2, <1>3

(* A set that is closed under being the parent, and is not in S, is not    *)
(* below S.                                                                *)
LEMMA BelowApart ==
  ASSUME TypeInv, NEW S, NEW C \in SUBSET live,
         \A x \in C : x \notin S /\ (parent[x] \in live => parent[x] \in C)
  PROVE  \A x \in C : x \notin Below(S)
<1> SUFFICES ASSUME C \cap Below(S) # {} PROVE FALSE
  OBVIOUS
<1>1. live \subseteq Nat /\ Null \notin live /\ \A x \in live : parent[x] < x
  BY Types DEF TypeInv, Finite
<1>2. PICK x \in C \cap Below(S) : \A y \in C \cap Below(S) : x <= y
  <2>1. C \cap Below(S) \subseteq Nat
    BY <1>1
  <2> QED
    BY <2>1, Least
<1>3. parent[x] \in live /\ parent[x] \in Below(S)
  BY <1>1, <1>2, BelowIs
<1>4. parent[x] \in C /\ parent[x] < x
  BY <1>1, <1>2, <1>3
<1>5. x \in Nat /\ parent[x] \in Nat /\ x <= parent[x]
  BY <1>1, <1>2, <1>3, <1>4
<1> QED
  BY <1>4, <1>5

(* What will vanish with the nodes that were killed.                       *)
Lost == Below(killed)

LEMMA LostIs ==
  ASSUME TypeInv, NEW x \in live
  PROVE  x \in Lost <=> x \in killed \/ (parent[x] \in live /\ parent[x] \in Lost)
<1>1. Null \notin live
  BY Types DEF Finite
<1> QED
  BY <1>1, BelowIs DEF Lost

LEMMA LostIsNext ==
  (TypeInv => \A x \in live : x \in Lost <=> x \in killed \/ (parent[x] \in live /\ parent[x] \in Lost))'
<1>1. TypeInv => \A x \in live : x \in Lost <=> x \in killed \/ (parent[x] \in live /\ parent[x] \in Lost)
  BY LostIs
<1> QED
  BY <1>1, PTL

LEMMA LostApart ==
  (TypeInv =>
     \A C \in SUBSET live :
       (\A x \in C : x \notin killed /\ (parent[x] \in live => parent[x] \in C)) =>
         \A x \in C : x \notin Lost)'
<1>1. TypeInv =>
        \A C \in SUBSET live :
          (\A x \in C : x \notin killed /\ (parent[x] \in live => parent[x] \in C)) =>
            \A x \in C : x \notin Lost
  BY BelowApart DEF Lost
<1> QED
  BY <1>1, PTL

(* What is lost remains so, as long as it is there...                      *)
LEMMA StillLost ==
  ASSUME TypeInv, TypeInv', NEW C \in SUBSET live, C \subseteq live',
         \A x \in C : /\ parent'[x] = parent[x] /\ (x \in killed => x \in killed')
                      /\ parent[x] \in live => parent[x] \in C
  PROVE  \A x \in C : x \in Lost => x \in Lost'
<1>1. PICK B : B = {x \in C : x \notin Lost'}
  OBVIOUS
<1>2. \A x \in live' : x \in Lost' <=> x \in killed' \/ (parent'[x] \in live' /\ parent'[x] \in Lost')
  BY LostIsNext
<1>3. \A x \in B : x \notin killed /\ (parent[x] \in live => parent[x] \in B)
  BY <1>1, <1>2
<1>4. \A x \in B : x \notin Lost
  BY <1>1, <1>3, BelowApart DEF Lost
<1> QED
  BY <1>1, <1>4

(* ... and what is not is not.                                             *)
LEMMA NotYetLost ==
  ASSUME TypeInv, TypeInv', NEW C \in SUBSET live, C \subseteq live',
         \A x \in C : /\ parent'[x] = parent[x] /\ (x \in killed' => x \in killed)
                      /\ parent[x] \in live' => parent[x] \in C
  PROVE  \A x \in C : x \in Lost' => x \in Lost
<1>1. PICK B : B = {x \in C : x \notin Lost}
  OBVIOUS
<1>2. \A x \in live : x \in Lost <=> x \in killed \/ (parent[x] \in live /\ parent[x] \in Lost)
  BY LostIs
<1>3. \A x \in B : x \notin killed' /\ (parent'[x] \in live' => parent'[x] \in B)
  BY <1>1, <1>2
<1>4. \A x \in B : x \notin Lost'
  BY <1>1, <1>3, LostApart
<1> QED
  BY <1>1, <1>4

-----------------------------------------------------------------------------
(* The types are kept.                                                     *)

TreeTypes ==
  /\ root \in 0 .. spawned /\ spawned \in 0 .. MaxNodes
  /\ HeapType(heap, spawned, spawned)
  /\ parent \in Seq(0 .. spawned) /\ Len(parent) = spawned
  /\ live \subseteq 1 .. spawned /\ killed \subseteq live
  /\ \A n \in live : /\ heap[n] \in Node(spawned)
                     /\ parent[n] \in live \cup {Null} /\ parent[n] < n

IteratorTypes ==
  /\ cells \in Seq(0 .. spawned) /\ size \in 0 .. Len(cells)
  /\ yielded \in Seq(1 .. spawned)
  /\ expected \subseteq 1 .. spawned
  /\ disturbed \in BOOLEAN

LEMMA TypeParts == TypeInv <=> TreeTypes /\ IteratorTypes
BY DEF TypeInv, TypeOK, TreeTypes, IteratorTypes, HeapType, Node

LEMMA TypePartsNext == (TypeInv <=> TreeTypes /\ IteratorTypes)'
BY TypeParts, PTL

LEMMA TypesNext == (TypeInv => Finite)'
<1>1. TypeInv => Finite
  BY Types
<1> QED
  BY <1>1, PTL

LEMMA Wider ==
  ASSUME NEW S, NEW T, S \subseteq T, NEW s \in Seq(S)
  PROVE  s \in Seq(T)
OBVIOUS

(* Iterators are not concerned by what happens to the tree.                *)
LEMMA IteratorKept ==
  ASSUME IteratorTypes, UNCHANGED iteratorVars, spawned \in Nat, spawned' \in Nat, spawned <= spawned'
  PROVE  IteratorTypes'
<1>1. 0 .. spawned \subseteq 0 .. spawned' /\ 1 .. spawned \subseteq 1 .. spawned'
  OBVIOUS
<1>2. cells \in Seq(0 .. spawned') /\ yielded \in Seq(1 .. spawned')
  BY <1>1, Wider DEF IteratorTypes
<1> QED
  BY <1>1, <1>2 DEF IteratorTypes, iteratorVars

LEMMA Disturbed ==
  ASSUME IteratorTypes, Disturb, UNCHANGED spawned, spawned \in Nat
  PROVE  IteratorTypes' /\ disturbed'
<1>1. yielded' \in Seq(1 .. spawned)
  <2>1. CASE yielded = << >>
    BY <2>1 DEF Disturb
  <2>2. CASE yielded # << >>
    <3>1. Last(yielded) \in 1 .. spawned
      <4>1. Len(yielded) \in Nat /\ Len(yielded) # 0
        BY <2>2, EmptySeq DEF IteratorTypes
      <4> QED
        BY <4>1 DEF Last, IteratorTypes
    <3> QED
      BY <2>2, <3>1 DEF Disturb
  <2> QED
    BY <2>1, <2>2
<1> QED
  BY <1>1 DEF Disturb, IteratorTypes

(* A node is spawned on p.                                                 *)
LEMMA Spawned ==
  ASSUME TypeInv, NEW p \in live \cup {Null}, NEW k \in Keys, NEW v \in Values,
         NEW others, HeapType(others, spawned, spawned + 1),
         \A m \in live : others[m] \in Node(spawned + 1),
         NewNode(p, k, v, others), root' \in 0 .. spawned', UNCHANGED iteratorVars
  PROVE  /\ TypeInv' /\ spawned' = spawned + 1
         /\ spawned' \notin live /\ live' = live \cup {spawned'}
         /\ heap'[spawned'] = [key |-> k, value |-> v, left |-> Null, right |-> Null]
         /\ parent'[spawned'] = p
         /\ \A m \in live : heap'[m] = others[m] /\ parent'[m] = parent[m]
         /\ \A m \in live : heap[m].left # spawned' /\ heap[m].right # spawned'
<1> DEFINE r == [key |-> k, value |-> v, left |-> Null, right |-> Null]
<1>1. /\ spawned \in Nat /\ spawned < MaxNodes /\ spawned' = spawned + 1 /\ spawned' \in Nat
      /\ live \subseteq 1 .. spawned /\ killed \subseteq live /\ killed' = killed
      /\ parent \in Seq(0 .. spawned) /\ Len(parent) = spawned
      /\ MaxNodes \in Nat
  BY Types, DictionaryAssumption DEF NewNode
<1>2. r \in Node(spawned')
  BY <1>1 DEF Node, Null
<1>3. /\ heap' = Append(others, r) /\ others \in Seq(Node(spawned') \cup {Freed}) /\ Len(others) = spawned
  BY <1>1 DEF NewNode, HeapType
<1> HIDE DEF r
<1>4. /\ HeapType(heap', spawned', spawned') /\ heap'[spawned'] = r
      /\ \A m \in 1 .. spawned : heap'[m] = others[m]
  BY <1>1, <1>2, <1>3 DEF HeapType
<1>5. p \in 0 .. spawned /\ parent' = Append(parent, p)
  BY <1>1 DEF NewNode, Null
<1>6. parent \in Seq(0 .. spawned')
  BY <1>1, Wider
<1>7. /\ parent' \in Seq(0 .. spawned') /\ Len(parent') = spawned' /\ parent'[spawned'] = p
      /\ \A m \in 1 .. spawned : parent'[m] = parent[m]
  BY <1>1, <1>5, <1>6
<1>8. spawned' \notin live /\ live' = live \cup {spawned'}
  BY <1>1 DEF NewNode
<1>9. \A m \in live : heap'[m] = others[m] /\ parent'[m] = parent[m]
  BY <1>1, <1>4, <1>7
<1>10. \A m \in live : heap[m].left # spawned' /\ heap[m].right # spawned'
  BY <1>1, Types
<1>11. \A n \in live' : /\ heap'[n] \in Node(spawned')
                        /\ parent'[n] \in live' \cup {Null} /\ parent'[n] < n
  <2>1. ASSUME NEW n \in live PROVE heap'[n] \in Node(spawned') /\ parent'[n] \in live' \cup {Null} /\ parent'[n] < n
    BY <1>1, <1>8, <1>9, TypeParts DEF TreeTypes
  <2>2. p \in live' \cup {Null} /\ p < spawned'
    BY <1>1, <1>5, <1>8
  <2> QED
    BY <1>2, <1>4, <1>7, <1>8, <2>1, <2>2
<1>12. TreeTypes'
  <2>1. spawned' \in 0 .. MaxNodes /\ live' \subseteq 1 .. spawned' /\ killed' \subseteq live'
    BY <1>1, <1>8
  <2> QED
    BY <1>4, <1>7, <1>11, <2>1 DEF TreeTypes
<1>13. IteratorTypes'
  BY <1>1, IteratorKept, TypeParts
<1>14. TypeInv'
  BY <1>12, <1>13, TypePartsNext
<1> QED
  BY <1>1, <1>4, <1>7, <1>8, <1>9, <1>10, <1>14 DEF r

-----------------------------------------------------------------------------
(* The invariant.                                                          *)

(* Only nodes that will vanish have been moved: the others were spawned on *)
(* the node that refers to them.                                           *)
SpawnedUnder ==
  \A x \in Tree : x \notin Lost =>
    \/ x = root /\ parent[x] = Null
    \/ parent[x] \in Tree /\ x \in Refs(parent[x])

Inv == TypeInv /\ Shape /\ SpawnedUnder

(* An entry is set: its node is added, if there is none, and the other     *)
(* nodes stay.                                                             *)
Grows(k, v) ==
  /\ live \subseteq live'
  /\ \A m \in Tree : /\ m \in Tree' /\ heap'[m].key = heap[m].key
                     /\ heap[m].key # k => heap'[m].value = heap[m].value
                     /\ \A x \in live : x \in Sub(m)' <=> x \in Sub(m)
  /\ \E n \in Tree' : heap'[n].key = k /\ heap'[n].value = v
  /\ \A x \in Tree' \ Tree : /\ heap'[x].key = k /\ x \notin live
                             /\ \E b : \A m \in Tree : x \in Sub(m)' => b \in Sub(m)
  /\ Tree \cap Lost = {} => Tree' \cap Lost' = {}

LEMMA NodeWider == \A s \in Nat : Node(s) \subseteq Node(s + 1)
<1> SUFFICES ASSUME NEW s \in Nat PROVE Node(s) \subseteq Node(s + 1)
  OBVIOUS
<1>1. 0 .. s \subseteq 0 .. s + 1
  OBVIOUS
<1> QED
  BY <1>1 DEF Node

LEMMA HeapWider ==
  ASSUME NEW h, NEW s \in Nat, HeapType(h, s, s)
  PROVE  HeapType(h, s, s + 1)
<1>1. Node(s) \cup {Freed} \subseteq Node(s + 1) \cup {Freed}
  BY NodeWider
<1>2. h \in Seq(Node(s + 1) \cup {Freed})
  BY <1>1, Wider DEF HeapType
<1> QED
  BY <1>2 DEF HeapType

LEMMA SetFirst ==
  ASSUME Inv, NEW k \in Keys, NEW v \in Values, root \notin live,
         NewNode(Null, k, v, heap), root' = spawned', UNCHANGED iteratorVars
  PROVE  Inv' /\ Grows(k, v)
<1>1. /\ Finite /\ spawned \in Nat /\ HeapType(heap, spawned, spawned + 1)
      /\ \A m \in live : heap[m] \in Node(spawned + 1)
      /\ killed \subseteq live /\ Tree = {} /\ killed' = killed
  <2>1. Finite /\ spawned \in Nat /\ HeapType(heap, spawned, spawned) /\ killed \subseteq live
        /\ \A m \in live : heap[m] \in Node(spawned)
    BY Types DEF Inv
  <2>2. Tree = {}
    BY <2>1, TreeFits DEF Inv
  <2> QED
    BY <2>1, <2>2, NodeWider, HeapWider DEF NewNode
<1>2. PICK new : new = spawned'
  OBVIOUS
<1>3. /\ TypeInv' /\ new \notin live /\ live' = live \cup {new}
      /\ heap'[new] = [key |-> k, value |-> v, left |-> Null, right |-> Null]
      /\ parent'[new] = Null
      /\ \A m \in live : parent'[m] = parent[m]
  <2>1. root' \in 0 .. spawned' /\ Null \in live \cup {Null}
    BY <1>1 DEF NewNode
  <2> QED
    BY <1>1, <1>2, <2>1, Spawned DEF Inv
<1>4. Finite'
  BY <1>3, TypesNext
<1>5. Null \notin live'
  BY <1>4 DEF Finite
<1>6. Shape' /\ Tree' = {new}
  BY <1>2, <1>3, <1>4, <1>5, First
<1>7. new \notin Lost'
  BY <1>1, <1>3, <1>5, LostIsNext
<1>8. SpawnedUnder'
  BY <1>2, <1>3, <1>6 DEF SpawnedUnder
<1>9. Grows(k, v)
  BY <1>1, <1>3, <1>6, <1>7 DEF Grows
<1> QED
  BY <1>3, <1>6, <1>8, <1>9 DEF Inv

LEMMA SetValue ==
  ASSUME Inv, NEW v \in Values, NEW n \in live,
         heap' = [heap EXCEPT ![n].value = v],
         UNCHANGED <<root, spawned, parent, live, killed>>, UNCHANGED iteratorVars
  PROVE  /\ Inv' /\ Tree' = Tree /\ Lost' = Lost
         /\ \A m \in Tree : Sub(m)' = Sub(m)
         /\ \A m \in live : /\ heap'[m].key = heap[m].key
                            /\ heap'[m].value = IF m = n THEN v ELSE heap[m].value
         /\ n \in Tree => Grows(heap[n].key, v)
<1>1. /\ Finite /\ spawned \in Nat /\ HeapType(heap, spawned, spawned)
      /\ \A m \in live : m \in 1 .. spawned /\ heap[m] \in Node(spawned)
      /\ live \subseteq 1 .. spawned
  BY Types DEF Inv
<1>2. Tree \subseteq live
  BY <1>1, TreeFits DEF Inv
<1>3. /\ HeapType(heap', spawned, spawned)
      /\ \A m \in live : m # n => heap'[m] = heap[m]
      /\ heap'[n] = [key |-> heap[n].key, value |-> v, left |-> heap[n].left, right |-> heap[n].right]
  <2>1. n \in 1 .. spawned /\ heap[n] \in Node(spawned)
    BY <1>1, <1>2
  <2>2. heap' = WithValue(heap, n, v)
    BY DEF WithValue
  <2>3. PICK h : h = WithValue(heap, n, v)
    OBVIOUS
  <2>4. /\ HeapType(h, spawned, spawned)
        /\ \A m \in 1 .. spawned : m # n => h[m] = heap[m]
        /\ h[n] = [key |-> heap[n].key, value |-> v, left |-> heap[n].left, right |-> heap[n].right]
    BY <1>1, <2>1, <2>3, ValueSet
  <2> QED
    BY <1>1, <2>2, <2>3, <2>4
<1>4. heap'[n] \in Node(spawned)
  BY <1>1, <1>2, <1>3 DEF Node
<1>5. TreeTypes'
  <2>1. TreeTypes
    BY TypeParts DEF Inv
  <2> QED
    BY <1>3, <1>4, <2>1 DEF TreeTypes
<1>6. IteratorTypes'
  BY <1>1, IteratorKept, TypeParts DEF Inv
<1>7. TypeInv' /\ Finite'
  BY <1>5, <1>6, TypePartsNext, TypesNext
<1>8. \A m \in live : /\ heap'[m].key = heap[m].key /\ heap'[m].left = heap[m].left
                      /\ heap'[m].right = heap[m].right
                      /\ heap'[m].value = IF m = n THEN v ELSE heap[m].value
  BY <1>3
<1>9. Shape' /\ Tree' = Tree /\ \A m \in Tree : Sub(m)' = Sub(m) /\ Refs(m)' = Refs(m)
  BY <1>1, <1>2, <1>7, <1>8, Same DEF Inv
<1>10. Lost' = Lost
  BY DEF Lost, Below, End
<1>11. SpawnedUnder'
  BY <1>9, <1>10 DEF SpawnedUnder, Inv
<1>12. ASSUME n \in Tree PROVE Grows(heap[n].key, v)
  <2>1. \E m \in Tree' : heap'[m].key = heap[n].key /\ heap'[m].value = v
    BY <1>3, <1>9, <1>12
  <2>2. \A m \in Tree : /\ m \in Tree' /\ heap'[m].key = heap[m].key
                        /\ heap[m].key # heap[n].key => heap'[m].value = heap[m].value
                        /\ \A x \in live : x \in Sub(m)' <=> x \in Sub(m)
    BY <1>2, <1>8, <1>9
  <2> QED
    BY <1>9, <1>10, <2>1, <2>2 DEF Grows
<1> QED
  BY <1>7, <1>8, <1>9, <1>10, <1>11, <1>12 DEF Inv

(* An entry is added under b: the heap of the others is as given.          *)
LEMMA SetUnder ==
  ASSUME Inv, NEW k \in Keys, NEW v \in Values, root \in live,
         NEW b, b = Bottom(k), heap[b].key # k,
         NEW others, HeapType(others, spawned, spawned + 1), others[b] \in Node(spawned + 1),
         \A m \in 1 .. spawned : m # b => others[m] = heap[m],
         others[b].key = heap[b].key, others[b].value = heap[b].value,
         others[b].left = IF k < heap[b].key THEN spawned + 1 ELSE heap[b].left,
         others[b].right = IF heap[b].key < k THEN spawned + 1 ELSE heap[b].right,
         NewNode(b, k, v, others), UNCHANGED root, UNCHANGED iteratorVars
  PROVE  Inv' /\ Grows(k, v)
<1>1. /\ Finite /\ spawned \in Nat /\ root \in 0 .. spawned /\ killed \subseteq live
      /\ live \subseteq 1 .. spawned /\ k \in Int
      /\ \A m \in live : heap[m] \in Node(spawned) /\ m \in 1 .. spawned
      /\ spawned' = spawned + 1 /\ killed' = killed
  <2>1. root \in 0 .. spawned
    BY TypeParts DEF Inv, TreeTypes
  <2> QED
    BY <2>1, Types, DictionaryAssumption DEF Inv, NewNode
<1>2. /\ b \in Tree /\ Child(b, k) \notin live /\ Tree \subseteq live
      /\ \A m \in Tree : b \in Sub(m) /\ m # b =>
           heap[m].key # k /\ Child(m, k) \in live /\ b \in Sub(Child(m, k))
  BY <1>1, BottomIsFound, TreeFits DEF Inv
<1>3. PICK new : new = spawned'
  OBVIOUS
<1>4. \A m \in live : others[m] \in Node(spawned + 1)
  BY <1>1, NodeWider
<1>5. /\ TypeInv' /\ new \notin live /\ live' = live \cup {new}
      /\ heap'[new] = [key |-> k, value |-> v, left |-> Null, right |-> Null]
      /\ parent'[new] = b
      /\ \A m \in live : heap'[m] = others[m] /\ parent'[m] = parent[m]
      /\ \A m \in live : heap[m].left # new /\ heap[m].right # new
  <2>1. root' \in 0 .. spawned' /\ b \in live \cup {Null} /\ TypeInv
    BY <1>1, <1>2 DEF Inv
  <2> QED
    BY <1>3, <1>4, <2>1, Spawned
<1>6. Finite' /\ Null \notin live'
  BY <1>5, TypesNext DEF Finite
<1>7. \A m \in Tree : /\ heap'[m].key = heap[m].key /\ heap'[m].value = heap[m].value
                      /\ heap'[m].left = IF m = b /\ k < heap[m].key THEN new ELSE heap[m].left
                      /\ heap'[m].right = IF m = b /\ heap[m].key < k THEN new ELSE heap[m].right
  BY <1>1, <1>2, <1>3, <1>5
<1>8. /\ heap'[new].key = k /\ heap'[new].left \notin live' /\ heap'[new].right \notin live'
      /\ heap'[new].value = v
  BY <1>5, <1>6
<1>9. /\ Shape' /\ Tree' = Tree \cup {new} /\ Sub(new)' = {new}
      /\ \A m \in Tree : Sub(m)' = IF b \in Sub(m) THEN Sub(m) \cup {new} ELSE Sub(m)
      /\ \A m \in Tree : Refs(m)' = IF m = b THEN Refs(m) \cup {new} ELSE Refs(m)
  <2>1. \A m \in Tree :
           /\ heap'[m].key = heap[m].key
           /\ heap[m].left # new /\ heap[m].right # new
           /\ heap'[m].left = IF m = Bottom(k) /\ k < heap[m].key THEN new ELSE heap[m].left
           /\ heap'[m].right = IF m = Bottom(k) /\ heap[m].key < k THEN new ELSE heap[m].right
    BY <1>2, <1>5, <1>7
  <2>2. Shape /\ Finite
    BY <1>1 DEF Inv
  <2>3. heap[Bottom(k)].key # k
    OBVIOUS
  <2> QED
    BY <1>1, <1>5, <1>6, <1>8, <2>1, <2>2, <2>3, Grown
<1>10. new \in Lost' => b \in Lost'
  <2>1. new \in live' /\ new \notin killed'
    BY <1>1, <1>5
  <2>2. new \in Lost' => new \in killed' \/ (parent'[new] \in live' /\ parent'[new] \in Lost')
    BY <1>5, <2>1, LostIsNext
  <2> QED
    BY <1>5, <2>1, <2>2
<1>11. \A x \in live : x \in Lost <=> x \in Lost'
  <2>1. \A x \in live : parent[x] \in live \cup {Null}
    BY TypeParts DEF Inv, TreeTypes
  <2>2. \A x \in live : x \in Lost => x \in Lost'
    BY <1>1, <1>5, StillLost DEF Inv
  <2>3. \A x \in live : parent[x] \in live' => parent[x] \in live
    BY <1>6, <2>1
  <2>4. \A x \in live : x \in Lost' => x \in Lost
    BY <1>1, <1>5, <2>3, NotYetLost DEF Inv
  <2> QED
    BY <2>2, <2>4
<1>12. SpawnedUnder'
  <2> SUFFICES ASSUME NEW x \in Tree', x \notin Lost'
               PROVE  \/ x = root' /\ parent'[x] = Null
                      \/ \E p : p = parent'[x] /\ p \in Tree' /\ x \in Refs(p)'
    BY DEF SpawnedUnder, Refs
  <2>1. CASE x = new
    BY <1>2, <1>5, <1>9, <2>1
  <2>2. CASE x # new
    <3>1. x \in Tree /\ x \notin Lost /\ parent'[x] = parent[x]
      BY <1>2, <1>5, <1>9, <1>11, <2>2
    <3>2. \/ x = root /\ parent[x] = Null
          \/ parent[x] \in Tree /\ x \in Refs(parent[x])
      BY <3>1 DEF SpawnedUnder, Inv
    <3> QED
      BY <1>9, <3>1, <3>2
  <2> QED
    BY <2>1, <2>2
<1>13. Grows(k, v)
  <2>1. \A m \in Tree : /\ m \in Tree' /\ heap'[m].key = heap[m].key
                        /\ heap[m].key # k => heap'[m].value = heap[m].value
                        /\ \A x \in live : x \in Sub(m)' <=> x \in Sub(m)
    BY <1>5, <1>7, <1>9
  <2>2. ASSUME NEW x \in Tree' \ Tree
        PROVE  /\ heap'[x].key = k /\ x \notin live
               /\ \E d : \A m \in Tree : x \in Sub(m)' => d \in Sub(m)
    <3>1. x = new
      BY <1>9
    <3>2. \A m \in Tree : Sub(m) \subseteq live
      BY <1>1, <1>2, Nodes1 DEF Inv
    <3>3. \A m \in Tree : x \in Sub(m)' => b \in Sub(m)
      BY <1>5, <1>9, <3>1, <3>2
    <3> QED
      BY <1>5, <1>8, <3>1, <3>3
  <2>3. Tree \cap Lost = {} => Tree' \cap Lost' = {}
    BY <1>2, <1>9, <1>10, <1>11
  <2> QED
    BY <1>5, <1>8, <1>9, <2>1, <2>2, <2>3 DEF Grows
<1> QED
  BY <1>5, <1>9, <1>12, <1>13 DEF Inv

LEMMA SetStep ==
  ASSUME Inv, NEW k \in Keys, NEW v \in Values, Set(k, v)
  PROVE  Inv' /\ Grows(k, v)
<1>1. UNCHANGED iteratorVars
  BY DEF Set
<1>2. CASE root \notin live
  <2>1. NewNode(Null, k, v, heap) /\ root' = spawned'
    BY <1>2 DEF Set
  <2> QED
    BY <1>1, <1>2, <2>1, SetFirst
<1>3. CASE root \in live
  <2>1. PICK b : b = Bottom(k)
    OBVIOUS
  <2>2. /\ Finite /\ spawned \in Nat /\ HeapType(heap, spawned, spawned + 1)
        /\ \A m \in live : heap[m] \in Node(spawned + 1) /\ heap[m].key \in Int /\ m \in 1 .. spawned
        /\ k \in Int /\ spawned + 1 \in 0 .. spawned + 1 /\ spawned + 1 \in Nat
    <3>1. Finite /\ spawned \in Nat /\ HeapType(heap, spawned, spawned)
          /\ \A m \in live : heap[m] \in Node(spawned) /\ heap[m].key \in Int /\ m \in 1 .. spawned
      BY Types DEF Inv
    <3> QED
      BY <3>1, NodeWider, HeapWider, DictionaryAssumption
  <2>3. b \in Tree /\ b \in live
    BY <1>3, <2>1, <2>2, BottomIsFound, TreeFits DEF Inv
  <2>4. b \in 1 .. spawned /\ heap[b] \in Node(spawned + 1) /\ heap[b].key \in Int
    BY <2>2, <2>3
  <2>5. CASE k = heap[b].key
    <3>1. heap' = [heap EXCEPT ![b].value = v] /\ UNCHANGED <<root, spawned, parent, live, killed>>
      BY <1>3, <2>1, <2>2, <2>4, <2>5 DEF Set
    <3> QED
      BY <1>1, <2>3, <2>5, <3>1, SetValue
  <2>6. CASE k < heap[b].key
    <3>1. PICK others : others = WithLeft(heap, b, spawned + 1)
      OBVIOUS
    <3>2. NewNode(b, k, v, others) /\ UNCHANGED root
      BY <1>3, <2>1, <2>2, <2>4, <2>6, <3>1 DEF Set, WithLeft
    <3>3. /\ HeapType(others, spawned, spawned + 1) /\ others[b] \in Node(spawned + 1)
          /\ \A m \in 1 .. spawned : m # b => others[m] = heap[m]
          /\ others[b] = [key |-> heap[b].key, value |-> heap[b].value, left |-> spawned + 1,
                          right |-> heap[b].right]
      BY <2>2, <2>4, <3>1, LeftSet
    <3>4. /\ others[b].key = heap[b].key /\ others[b].value = heap[b].value
          /\ others[b].left = IF k < heap[b].key THEN spawned + 1 ELSE heap[b].left
          /\ others[b].right = IF heap[b].key < k THEN spawned + 1 ELSE heap[b].right
          /\ heap[b].key # k
      BY <2>2, <2>4, <2>6, <3>3
    <3> QED
      BY <1>1, <1>3, <2>1, <3>2, <3>3, <3>4, SetUnder
  <2>7. CASE heap[b].key < k
    <3>1. PICK others : others = WithRight(heap, b, spawned + 1)
      OBVIOUS
    <3>2. NewNode(b, k, v, others) /\ UNCHANGED root
      BY <1>3, <2>1, <2>2, <2>4, <2>7, <3>1 DEF Set, WithRight
    <3>3. /\ HeapType(others, spawned, spawned + 1) /\ others[b] \in Node(spawned + 1)
          /\ \A m \in 1 .. spawned : m # b => others[m] = heap[m]
          /\ others[b] = [key |-> heap[b].key, value |-> heap[b].value, left |-> heap[b].left,
                          right |-> spawned + 1]
      BY <2>2, <2>4, <3>1, RightSet
    <3>4. /\ others[b].key = heap[b].key /\ others[b].value = heap[b].value
          /\ others[b].left = IF k < heap[b].key THEN spawned + 1 ELSE heap[b].left
          /\ others[b].right = IF heap[b].key < k THEN spawned + 1 ELSE heap[b].right
          /\ heap[b].key # k
      BY <2>2, <2>4, <2>7, <3>3
    <3> QED
      BY <1>1, <1>3, <2>1, <3>2, <3>3, <3>4, SetUnder
  <2> QED
    BY <2>2, <2>4, <2>5, <2>6, <2>7
<1> QED
  BY <1>2, <1>3

LEMMA SetEntryStep ==
  ASSUME Inv, NEW v \in Values, SetEntry(v)
  PROVE  /\ Inv' /\ Tree' = Tree /\ Lost' = Lost /\ \A m \in Tree : Sub(m)' = Sub(m)
         /\ \/ \A m \in Tree : heap'[m].key = heap[m].key /\ heap'[m].value = heap[m].value
            \/ \E n \in Tree : Grows(heap[n].key, v)
<1>1. PICK n : n = Last(yielded)
  OBVIOUS
<1>2. n \in live /\ heap' = [heap EXCEPT ![n].value = v]
  BY <1>1 DEF SetEntry, Entry
<1>3. UNCHANGED <<root, spawned, parent, live, killed>> /\ UNCHANGED iteratorVars
  BY DEF SetEntry
<1>4. /\ Inv' /\ Tree' = Tree /\ Lost' = Lost /\ \A m \in Tree : Sub(m)' = Sub(m)
      /\ \A m \in live : /\ heap'[m].key = heap[m].key
                         /\ heap'[m].value = IF m = n THEN v ELSE heap[m].value
      /\ n \in Tree => Grows(heap[n].key, v)
  BY <1>2, <1>3, SetValue
<1>5. Tree \subseteq live
  BY Types, TreeFits DEF Inv
<1> QED
  BY <1>4, <1>5

-----------------------------------------------------------------------------
(* Deletions.                                                              *)

(* What has become of the references when n is to be removed, and another  *)
(* node moves.                                                             *)
LEMMA MovedIs ==
  ASSUME Inv, NEW n \in Tree, heap[n].left \in live, NEW c, c = Rightmost(n),
         NEW h, h = Moved(n)
  PROVE  /\ HeapType(h, spawned, spawned)
         /\ \A m \in live : h[m] \in Node(spawned) /\ h[m].key = heap[m].key /\ h[m].value = heap[m].value
         /\ \A m \in Tree \ {n, c} :
              /\ h[m].left = IF heap[m].left = c THEN heap[c].left ELSE heap[m].left
              /\ h[m].right = IF heap[m].right = c THEN heap[c].left ELSE heap[m].right
         /\ h[c].left = IF heap[n].left = c THEN heap[c].left ELSE heap[n].left
         /\ h[c].right = heap[n].right
<1>1. PICK p : p = AboveRightmost(n)
  OBVIOUS
<1>2. /\ Finite /\ spawned \in Nat /\ HeapType(heap, spawned, spawned)
      /\ \A m \in live : /\ m \in 1 .. spawned /\ heap[m] \in Node(spawned)
                         /\ heap[m].left \in 0 .. spawned /\ heap[m].right \in 0 .. spawned
  BY Types DEF Inv
<1>3. /\ c \in Sub(heap[n].left)
      /\ \/ p = n /\ c = heap[n].left
         \/ p # n /\ p \in Sub(heap[n].left) /\ heap[p].right = c
  BY <1>1, <1>2, RightmostIsLast DEF Inv
<1>4. heap[n].left \in Refs(n)
  BY DEF Refs
<1>5. heap[n].left \in Tree /\ Sub(heap[n].left) \subseteq Tree /\ n \notin Sub(heap[n].left)
  <2>1. heap[n].left \in Tree /\ n \notin Sub(heap[n].left)
    BY <1>2, <1>4, Nodes1 DEF Inv
  <2> QED
    BY <1>2, <2>1, Nodes1 DEF Inv
<1>6. c \in Tree /\ c # n /\ c \in live /\ n \in live /\ p \in Tree /\ p \in live /\ Tree \subseteq live
  BY <1>2, <1>3, <1>5, TreeFits DEF Inv
<1>7. \A x, y \in Tree : \A d \in Refs(x) \cap Refs(y) : x = y
  BY <1>2, Nodes2 DEF Inv
<1>8. \A m \in Tree : heap[m].left = c \/ heap[m].right = c => c \in Refs(m)
  BY <1>6 DEF Refs
<1>9. CASE p = n
  <2>1. c = heap[n].left /\ \A m \in Tree \ {n} : heap[m].left # c /\ heap[m].right # c
    BY <1>3, <1>4, <1>5, <1>7, <1>8, <1>9
  <2>2. h = WithRight(heap, c, heap[n].right)
    BY <1>1, <1>9 DEF Moved, WithRight
  <2>3. /\ HeapType(h, spawned, spawned) /\ h[c] \in Node(spawned)
        /\ \A m \in 1 .. spawned : m # c => h[m] = heap[m]
        /\ h[c] = [key |-> heap[c].key, value |-> heap[c].value, left |-> heap[c].left,
                   right |-> heap[n].right]
    <3>1. c \in 1 .. spawned /\ heap[c] \in Node(spawned) /\ heap[n].right \in 0 .. spawned
      BY <1>2, <1>6
    <3> QED
      BY <1>2, <2>2, <3>1, RightSet
  <2>4. \A m \in live : h[m] \in Node(spawned) /\ h[m].key = heap[m].key /\ h[m].value = heap[m].value
    BY <1>2, <2>3
  <2> QED
    BY <1>2, <1>6, <2>1, <2>3, <2>4
<1>10. CASE p # n
  <2>1. p \in Tree /\ heap[p].right = c /\ c \in Refs(p)
    BY <1>3, <1>6, <1>8, <1>10
  <2>2. p # c
    BY <1>2, <1>6, <2>1, Nodes1 DEF Inv
  <2>3. /\ \A m \in Tree \ {p} : heap[m].left # c /\ heap[m].right # c
        /\ heap[p].left # c
    <3>1. \A m \in Tree \ {p} : heap[m].left # c /\ heap[m].right # c
      BY <1>7, <1>8, <2>1
    <3>2. heap[p].left # c
      BY <1>2, <1>6, <2>1, SidesDiffer DEF Inv
    <3> QED
      BY <3>1, <3>2
  <2>4. PICK h1 : h1 = WithRight(heap, p, heap[c].left)
    OBVIOUS
  <2>5. PICK h2 : h2 = WithLeft(h1, c, heap[n].left)
    OBVIOUS
  <2>6. h = WithRight(h2, c, heap[n].right)
    BY <1>1, <1>10, <2>4, <2>5 DEF Moved, WithRight, WithLeft
  <2>7. /\ c \in 1 .. spawned /\ p \in 1 .. spawned
        /\ heap[p] \in Node(spawned) /\ heap[c] \in Node(spawned)
        /\ heap[c].left \in 0 .. spawned /\ heap[n].left \in 0 .. spawned
        /\ heap[n].right \in 0 .. spawned
    BY <1>2, <1>6
  <2>8. /\ HeapType(h1, spawned, spawned) /\ h1[p] \in Node(spawned)
        /\ \A m \in 1 .. spawned : m # p => h1[m] = heap[m]
        /\ h1[p] = [key |-> heap[p].key, value |-> heap[p].value, left |-> heap[p].left,
                    right |-> heap[c].left]
    BY <1>2, <2>4, <2>7, RightSet
  <2>9. h1[c] = heap[c]
    BY <2>2, <2>7, <2>8
  <2>10. /\ HeapType(h2, spawned, spawned) /\ h2[c] \in Node(spawned)
         /\ \A m \in 1 .. spawned : m # c => h2[m] = h1[m]
         /\ h2[c] = [key |-> h1[c].key, value |-> h1[c].value, left |-> heap[n].left,
                     right |-> h1[c].right]
    BY <1>2, <2>5, <2>7, <2>8, <2>9, LeftSet
  <2>11. /\ HeapType(h, spawned, spawned) /\ h[c] \in Node(spawned)
         /\ \A m \in 1 .. spawned : m # c => h[m] = h2[m]
         /\ h[c] = [key |-> h2[c].key, value |-> h2[c].value, left |-> h2[c].left,
                    right |-> heap[n].right]
    <3>1. PICK r : r = heap[n].right
      OBVIOUS
    <3>2. /\ spawned \in Nat /\ HeapType(h2, spawned, spawned) /\ c \in 1 .. spawned
          /\ h2[c] \in Node(spawned) /\ r \in 0 .. spawned
      BY <1>2, <2>7, <2>10, <3>1
    <3>3. h = WithRight(h2, c, r)
      BY <2>6, <3>1
    <3>4. HeapType(WithRight(h2, c, r), spawned, spawned) /\ WithRight(h2, c, r)[c] \in Node(spawned)
      BY <3>2, RightSet
    <3>5. ASSUME NEW m \in 1 .. spawned, m # c PROVE WithRight(h2, c, r)[m] = h2[m]
      BY <3>2, <3>5, RightSetElsewhere
    <3>6. WithRight(h2, c, r)[c] =
            [key |-> h2[c].key, value |-> h2[c].value, left |-> h2[c].left, right |-> r]
      BY <3>2, RightSet
    <3> QED
      BY <3>1, <3>3, <3>4, <3>5, <3>6
  <2>12. /\ h[c].key = heap[c].key /\ h[c].value = heap[c].value
         /\ h[c].left = heap[n].left /\ h[c].right = heap[n].right
    BY <2>9, <2>10, <2>11
  <2>13. h[p] = h1[p] /\ \A m \in 1 .. spawned : m # c /\ m # p => h[m] = heap[m]
    BY <2>2, <2>7, <2>8, <2>10, <2>11
  <2>14. \A m \in live : h[m] \in Node(spawned) /\ h[m].key = heap[m].key /\ h[m].value = heap[m].value
    BY <1>2, <2>8, <2>11, <2>12, <2>13
  <2>15. heap[n].left # c
    BY <1>6, <1>10, <2>3
  <2>16. ASSUME NEW m \in Tree \ {n, c}
         PROVE  /\ h[m].left = IF heap[m].left = c THEN heap[c].left ELSE heap[m].left
                /\ h[m].right = IF heap[m].right = c THEN heap[c].left ELSE heap[m].right
    <3>1. CASE m = p
      BY <2>1, <2>3, <2>8, <2>13, <3>1
    <3>2. CASE m # p
      <4>1. h[m] = heap[m]
        BY <1>2, <1>6, <2>13, <3>2
      <4> QED
        BY <2>3, <3>2, <4>1
    <3> QED
      BY <3>1, <3>2
  <2> QED
    BY <2>11, <2>12, <2>14, <2>15, <2>16
<1> QED
  BY <1>9, <1>10

(* The reference to n is replaced.                                         *)
LEMMA Relinked ==
  ASSUME Inv, NEW k \in Keys, Delete(k), NEW n, n = Bottom(k),
         NEW h, h = Moved(n), HeapType(h, spawned, spawned),
         \A m \in live : h[m] \in Node(spawned) /\ h[m].key = heap[m].key /\ h[m].value = heap[m].value,
         NEW r \in 0 .. spawned, r = NewRoot(n)
  PROVE  /\ n \in Tree /\ heap[n].key = k
         /\ HeapType(heap', spawned, spawned)
         /\ \A m \in live : heap'[m] \in Node(spawned) /\ heap'[m].key = heap[m].key
                            /\ heap'[m].value = heap[m].value
         /\ root' = IF root = n THEN r ELSE root
         /\ \A m \in Tree :
              /\ heap'[m].left = IF heap[m].left = n THEN r ELSE h[m].left
              /\ heap'[m].right = IF heap[m].right = n THEN r ELSE h[m].right
<1>1. /\ Finite /\ spawned \in Nat /\ k \in Int /\ Shape
      /\ \A m \in live : m \in 1 .. spawned /\ heap[m].key \in Int
  BY Types, DictionaryAssumption DEF Inv
<1>2. root \in live /\ heap[n].key = k
  BY DEF Delete, Has
<1>3. n \in Tree /\ n \in live /\ Tree \subseteq live /\ root \in Tree /\ Tree = Sub(root)
  BY <1>1, <1>2, BottomIsFound, TreeFits
<1>4. \A m \in Tree : heap[m].left = n \/ heap[m].right = n => n \in Refs(m)
  BY <1>3 DEF Refs
<1>5. CASE n = root
  <2>1. \A m \in Tree : heap[m].left # n /\ heap[m].right # n
    <3> SUFFICES ASSUME NEW m \in Tree, n \in Refs(m) PROVE FALSE
      BY <1>4
    <3>1. m \notin Sub(n)
      BY <1>1, Nodes1
    <3> QED
      BY <1>3, <1>5, <3>1
  <2>2. root' = r /\ heap' = h
    BY <1>5 DEF Delete
  <2> QED
    BY <1>2, <1>3, <1>5, <2>1, <2>2
<1>6. CASE n # root
  <2>1. PICK a : a = Above(n, k)
    OBVIOUS
  <2>2. a \in Tree /\ a # n /\ Child(a, k) = n
    BY <1>1, <1>2, <1>6, <2>1, AboveRefers
  <2>3. a \in live /\ a \in 1 .. spawned /\ heap[a].key \in Int /\ h[a] \in Node(spawned)
    BY <1>1, <1>3, <2>2
  <2>4. \A m \in Tree : heap[m].left = n \/ heap[m].right = n => m = a
    <3>1. n \in Refs(a)
      BY <1>4, <2>2 DEF Child
    <3> QED
      BY <1>1, <1>4, <2>2, <3>1, Nodes2
  <2>5. CASE k < heap[a].key
    <3>1. heap[a].left = n /\ heap[a].right # n
      BY <1>1, <1>3, <2>2, <2>5, SidesDiffer DEF Child
    <3>2. root' = root /\ heap' = WithLeft(h, a, r)
      BY <1>6, <2>1, <2>5 DEF Delete, WithLeft
    <3>3. PICK g : g = WithLeft(h, a, r)
      OBVIOUS
    <3>4. /\ HeapType(g, spawned, spawned) /\ g[a] \in Node(spawned)
          /\ \A m \in 1 .. spawned : m # a => g[m] = h[m]
          /\ g[a] = [key |-> h[a].key, value |-> h[a].value, left |-> r, right |-> h[a].right]
      BY <1>1, <2>3, <3>3, LeftSet
    <3>5. \A m \in live : g[m] \in Node(spawned) /\ g[m].key = heap[m].key /\ g[m].value = heap[m].value
      BY <1>1, <3>4
    <3>6. ASSUME NEW m \in Tree
          PROVE  /\ g[m].left = IF heap[m].left = n THEN r ELSE h[m].left
                 /\ g[m].right = IF heap[m].right = n THEN r ELSE h[m].right
      <4>1. CASE m = a
        BY <3>1, <3>4, <4>1
      <4>2. CASE m # a
        BY <1>1, <1>3, <2>4, <3>4, <4>2
      <4> QED
        BY <4>1, <4>2
    <3> QED
      BY <1>2, <1>3, <1>6, <3>2, <3>3, <3>4, <3>5, <3>6
  <2>6. CASE ~(k < heap[a].key)
    <3>1. heap[a].right = n /\ heap[a].left # n
      BY <1>1, <1>3, <2>2, <2>6, SidesDiffer DEF Child
    <3>2. root' = root /\ heap' = WithRight(h, a, r)
      BY <1>6, <2>1, <2>6 DEF Delete, WithRight
    <3>3. PICK g : g = WithRight(h, a, r)
      OBVIOUS
    <3>4. /\ HeapType(g, spawned, spawned) /\ g[a] \in Node(spawned)
          /\ \A m \in 1 .. spawned : m # a => g[m] = h[m]
          /\ g[a] = [key |-> h[a].key, value |-> h[a].value, left |-> h[a].left, right |-> r]
      BY <1>1, <2>3, <3>3, RightSet
    <3>5. \A m \in live : g[m] \in Node(spawned) /\ g[m].key = heap[m].key /\ g[m].value = heap[m].value
      BY <1>1, <3>4
    <3>6. ASSUME NEW m \in Tree
          PROVE  /\ g[m].left = IF heap[m].left = n THEN r ELSE h[m].left
                 /\ g[m].right = IF heap[m].right = n THEN r ELSE h[m].right
      <4>1. CASE m = a
        BY <3>1, <3>4, <4>1
      <4>2. CASE m # a
        BY <1>1, <1>3, <2>4, <3>4, <4>2
      <4> QED
        BY <4>1, <4>2
    <3> QED
      BY <1>2, <1>3, <1>6, <3>2, <3>3, <3>4, <3>5, <3>6
  <2> QED
    BY <2>5, <2>6
<1> QED
  BY <1>5, <1>6

(* What hangs from a node that will vanish will as well.                   *)
LEMMA LostOnwards ==
  ASSUME Inv, NEW B, \A x \in Tree : x \in Lost => x \in B,
         \A x \in live : parent[x] \in live /\ parent[x] \in B => x \in B
  PROVE  \A y \in Tree : y \in B => Sub(y) \subseteq B
<1>1. Finite /\ Shape
  BY Types DEF Inv
<1>2. ASSUME NEW x \in Tree \cap B, NEW c \in Refs(x) PROVE c \in B
  <2> SUFFICES ASSUME c \notin B PROVE FALSE
    OBVIOUS
  <2>1. c \in Tree /\ c \in live /\ x \notin Sub(c) /\ Tree = Sub(root) /\ Tree \subseteq live
    BY <1>1, <1>2, Nodes1, TreeFits
  <2>2. c # root
    BY <2>1
  <2>3. parent[c] \in Tree /\ c \in Refs(parent[c])
    BY <2>1, <2>2 DEF SpawnedUnder, Inv
  <2>4. parent[c] = x
    BY <1>1, <2>3, Nodes2
  <2> QED
    BY <2>1, <2>3, <2>4
<1>3. \A y \in Tree \cap B : Sub(y) \subseteq B
  BY <1>1, <1>2, TreeOnwards
<1> QED
  BY <1>3

LEMMA DeleteStep ==
  ASSUME Inv, NEW k \in Keys, Delete(k)
  PROVE  /\ Inv'
         /\ \A m \in Tree : heap'[m].key = heap[m].key /\ heap'[m].value = heap[m].value
         /\ \E n \in Tree : heap[n].key = k /\ Tree' = Tree \ {n}
<1>1. /\ Finite /\ spawned \in Nat /\ k \in Int /\ Shape /\ HeapType(heap, spawned, spawned)
      /\ killed \subseteq live /\ Tree \subseteq live
      /\ \A m \in live : /\ m \in 1 .. spawned /\ heap[m] \in Node(spawned)
                         /\ heap[m].left \in 0 .. spawned /\ heap[m].right \in 0 .. spawned
  BY Types, TreeFits, DictionaryAssumption DEF Inv
<1>2. PICK n : n = Bottom(k)
  OBVIOUS
<1>3. PICK c : c = Rightmost(n)
  OBVIOUS
<1>4. PICK h : h = Moved(n)
  OBVIOUS
<1>5. PICK r : r = NewRoot(n)
  OBVIOUS
<1>6. /\ UNCHANGED <<spawned, parent, live>> /\ killed' = killed \cup {n} /\ Disturb
      /\ root \in live /\ heap[n].key = k
  BY <1>2 DEF Delete, Has
<1>7. n \in Tree /\ n \in live
  BY <1>1, <1>2, <1>6, BottomIsFound
<1>8. heap[n].left \in live =>
        /\ c \in Sub(heap[n].left) /\ c \in Tree /\ c \in live /\ heap[c].right \notin live
        /\ \A x \in Sub(heap[n].left) : x # c => heap[x].key < heap[c].key
        /\ heap[c].left # n
  <2> SUFFICES ASSUME heap[n].left \in live
               PROVE  /\ c \in Sub(heap[n].left) /\ c \in Tree /\ c \in live /\ heap[c].right \notin live
                      /\ \A x \in Sub(heap[n].left) : x # c => heap[x].key < heap[c].key
                      /\ heap[c].left # n
    OBVIOUS
  <2>1. /\ c \in Sub(heap[n].left) /\ heap[c].right \notin live
        /\ \A x \in Sub(heap[n].left) : x # c => heap[x].key < heap[c].key
    BY <1>1, <1>3, <1>7, RightmostIsLast
  <2>2. heap[n].left \in Refs(n)
    BY DEF Refs
  <2>3. heap[n].left \in Tree /\ n \notin Sub(heap[n].left)
    BY <1>1, <1>7, <2>2, Nodes1
  <2>4. c \in Tree /\ Refs(c) \subseteq Sub(heap[n].left)
    BY <1>1, <2>1, <2>3, Nodes1
  <2>5. heap[c].left # n
    BY <1>7, <2>3, <2>4 DEF Refs
  <2> QED
    BY <1>1, <2>1, <2>4, <2>5
<1>9. r \in 0 .. spawned /\ r = IF heap[n].left \in live THEN c ELSE heap[n].right
  BY <1>1, <1>3, <1>5, <1>7, <1>8 DEF NewRoot
<1>10. /\ HeapType(h, spawned, spawned)
       /\ \A m \in live : h[m] \in Node(spawned) /\ h[m].key = heap[m].key /\ h[m].value = heap[m].value
       /\ heap[n].left \notin live => h = heap
       /\ heap[n].left \in live =>
            /\ \A m \in Tree \ {n, c} :
                 /\ h[m].left = IF heap[m].left = c THEN heap[c].left ELSE heap[m].left
                 /\ h[m].right = IF heap[m].right = c THEN heap[c].left ELSE heap[m].right
            /\ h[c].left = IF heap[n].left = c THEN heap[c].left ELSE heap[n].left
            /\ h[c].right = heap[n].right
  <2>1. CASE heap[n].left \in live
    BY <1>3, <1>4, <1>7, <2>1, MovedIs
  <2>2. CASE heap[n].left \notin live
    <3>1. h = heap
      BY <1>4, <2>2 DEF Moved
    <3> QED
      BY <1>1, <2>2, <3>1
  <2> QED
    BY <2>1, <2>2
<1>11. /\ HeapType(heap', spawned, spawned)
       /\ \A m \in live : heap'[m] \in Node(spawned) /\ heap'[m].key = heap[m].key
                          /\ heap'[m].value = heap[m].value
       /\ root' = IF root = n THEN r ELSE root
       /\ \A m \in Tree :
            /\ heap'[m].left = IF heap[m].left = n THEN r ELSE h[m].left
            /\ heap'[m].right = IF heap[m].right = n THEN r ELSE h[m].right
  <2>1. r \in 0 .. spawned
    BY <1>9
  <2>2. HeapType(h, spawned, spawned)
    BY <1>10
  <2>3. \A m \in live : h[m] \in Node(spawned) /\ h[m].key = heap[m].key /\ h[m].value = heap[m].value
    BY <1>10
  <2> QED
    BY <1>2, <1>4, <1>5, <2>1, <2>2, <2>3, Relinked
<1>12. TypeInv' /\ Finite'
  <2>1. TreeTypes /\ IteratorTypes
    BY TypeParts DEF Inv
  <2>2. TreeTypes'
    BY <1>6, <1>7, <1>9, <1>11, <2>1 DEF TreeTypes
  <2>3. IteratorTypes'
    BY <1>1, <1>6, <2>1, Disturbed
  <2> QED
    BY <2>2, <2>3, TypePartsNext, TypesNext
<1>13. /\ Shape' /\ Tree' = Tree \ {n}
       /\ \A m \in Tree \ Sub(n) : \A x \in Refs(m) \ Sub(n) : x \in Refs(m)'
  <2>1. CASE heap[n].left \notin live
    <3>1. r = heap[n].right /\ h = heap
      BY <1>9, <1>10, <2>1
    <3>2. \A m \in Tree :
            /\ heap'[m].key = heap[m].key
            /\ m # n =>
                 /\ heap'[m].left = IF heap[m].left = n THEN heap[n].right ELSE heap[m].left
                 /\ heap'[m].right = IF heap[m].right = n THEN heap[n].right ELSE heap[m].right
      BY <1>1, <1>11, <3>1
    <3>3. root' = IF root = n THEN heap[n].right ELSE root
      BY <1>11, <3>1
    <3> QED
      BY <1>1, <1>6, <1>7, <1>12, <2>1, <3>2, <3>3, Removed
  <2>2. CASE heap[n].left \in live
    <3>1. r = c /\ root' = IF root = n THEN c ELSE root
      BY <1>9, <1>11, <2>2
    <3>2. \A m \in Tree : heap'[m].key = heap[m].key
      BY <1>1, <1>11
    <3>3. \A m \in Tree \ {n, c} :
            /\ heap'[m].left = IF heap[m].left = n THEN c
                               ELSE IF heap[m].left = c THEN heap[c].left ELSE heap[m].left
            /\ heap'[m].right = IF heap[m].right = n THEN c
                                ELSE IF heap[m].right = c THEN heap[c].left ELSE heap[m].right
      BY <1>10, <1>11, <2>2, <3>1
    <3>4. /\ heap'[c].left = IF heap[n].left = c THEN heap[c].left ELSE heap[n].left
          /\ heap'[c].right = heap[n].right
      <4>1. heap[c].right # n
        BY <1>7, <1>8, <2>2
      <4> QED
        BY <1>8, <1>10, <1>11, <2>2, <4>1
    <3>5. c \in Sub(heap[n].left) /\ heap[c].right \notin live
          /\ \A x \in Sub(heap[n].left) : x # c => heap[x].key < heap[c].key
      BY <1>8, <2>2
    <3>6. Shape /\ Finite /\ Finite' /\ UNCHANGED live /\ n \in Tree
      BY <1>1, <1>6, <1>7, <1>12
    <3> QED
      BY <2>2, <3>1, <3>2, <3>3, <3>4, <3>5, <3>6, Replaced
  <2> QED
    BY <2>1, <2>2
<1>14. \A x \in live : x \in Lost => x \in Lost'
  BY <1>6, <1>12, StillLost DEF Inv
<1>15. \A x \in live : x \in Lost' <=> x \in killed' \/ (parent[x] \in live /\ parent[x] \in Lost')
  BY <1>6, <1>12, LostIsNext
<1>16. n \in Lost' /\ Sub(n) \subseteq Lost'
  <2>1. PICK B : B = Lost'
    OBVIOUS
  <2>2. n \in B /\ (\A x \in Tree : x \in Lost => x \in B)
        /\ \A x \in live : parent[x] \in live /\ parent[x] \in B => x \in B
    BY <1>1, <1>6, <1>7, <1>14, <1>15, <2>1
  <2> QED
    BY <1>7, <2>1, <2>2, LostOnwards
<1>17. SpawnedUnder'
  <2> SUFFICES ASSUME NEW x \in Tree', x \notin Lost'
               PROVE  \/ x = root' /\ parent'[x] = Null
                      \/ \E p : p = parent'[x] /\ p \in Tree' /\ x \in Refs(p)'
    BY DEF SpawnedUnder, Refs
  <2>1. x \in Tree /\ x \in live /\ x # n /\ x \notin Lost /\ x \notin Sub(n)
    BY <1>1, <1>13, <1>14, <1>16
  <2>2. CASE x = root /\ parent[x] = Null
    BY <1>6, <1>11, <2>1, <2>2
  <2>3. CASE parent[x] \in Tree /\ x \in Refs(parent[x])
    <3>1. PICK p : p = parent[x]
      OBVIOUS
    <3>2. p \in Tree /\ x \in Refs(p) /\ p \in live
      BY <1>1, <2>3, <3>1
    <3>3. p \notin Lost'
      BY <1>15, <2>1, <3>1, <3>2
    <3>4. p \notin Sub(n) /\ p \in Tree'
      BY <1>13, <1>16, <3>2, <3>3
    <3> QED
      BY <1>6, <1>13, <2>1, <3>1, <3>2, <3>4
  <2> QED
    BY <2>1, <2>2, <2>3 DEF SpawnedUnder, Inv
<1> QED
  BY <1>1, <1>6, <1>7, <1>11, <1>12, <1>13, <1>17 DEF Inv

-----------------------------------------------------------------------------
(* The other steps.                                                        *)

LEMMA ClearStep ==
  ASSUME Inv, Clear
  PROVE  Inv' /\ Tree' = {}
<1>1. /\ UNCHANGED <<heap, spawned, parent, live>> /\ killed' = killed \cup ({root} \cap live)
      /\ root' = Null /\ Disturb
  BY DEF Clear
<1>2. TreeTypes /\ IteratorTypes /\ spawned \in Nat
  BY TypeParts, Types DEF Inv
<1>3. TreeTypes'
  <2>1. root' \in 0 .. spawned' /\ killed' \subseteq live'
    BY <1>1, <1>2 DEF TreeTypes, Null
  <2> QED
    BY <1>1, <1>2, <2>1 DEF TreeTypes
<1>4. IteratorTypes'
  BY <1>1, <1>2, Disturbed
<1>5. TypeInv' /\ Finite'
  BY <1>3, <1>4, TypePartsNext, TypesNext
<1>6. root' \notin live'
  BY <1>1, <1>5 DEF Finite
<1>7. Shape' /\ Tree' = {}
  BY <1>5, <1>6, Nothing
<1>8. SpawnedUnder'
  BY <1>7 DEF SpawnedUnder
<1> QED
  BY <1>5, <1>7, <1>8 DEF Inv

LEMMA TreeIsReached ==
  /\ Tree \subseteq Reachable
<1>1. Tree = Sub(root)
  BY DEF Tree, Sub
<1>2. Reachable = UNION {Sub(m) : m \in {root} \cup ToSet(cells) \cup Entry}
  BY ReachedIsUnion DEF Reachable
<1> QED
  BY <1>1, <1>2

(* Nodes that vanish other than by being below one that was killed are not *)
(* in the tree.                                                            *)
LEMMA OnlyLost ==
  ASSUME Inv, NEW S, \A x \in S : x \in live => x \in Lost \/ x \notin Reachable
  PROVE  \A x \in Tree : x \in Below(S) => x \in Lost
<1>1. Tree \subseteq live /\ Null \notin live
  BY Types, TreeFits DEF Inv, Finite
<1>2. PICK C : C = {x \in Tree : x \notin Lost}
  OBVIOUS
<1>3. ASSUME NEW x \in C PROVE x \notin S /\ (parent[x] \in live => parent[x] \in C)
  <2>1. x \in Tree /\ x \notin Lost /\ x \in live /\ x \in Reachable
    BY <1>1, <1>2, TreeIsReached
  <2>2. parent[x] \in live => parent[x] \in Tree /\ parent[x] \notin Lost
    BY <1>1, <2>1, LostIs DEF SpawnedUnder, Inv
  <2> QED
    BY <1>2, <2>1, <2>2
<1>4. \A x \in C : x \notin Below(S)
  BY <1>1, <1>2, <1>3, BelowApart DEF Inv
<1> QED
  BY <1>2, <1>4

LEMMA DestroyStep ==
  ASSUME Inv, NEW n \in live, n \in killed \/ n \notin Reachable, Destroy(n)
  PROVE  /\ Inv'
         /\ Tree' \subseteq Tree /\ \A m \in Tree' : heap'[m] = heap[m]
         /\ Tree \cap Lost = {} => Tree' = Tree
         /\ live' \subseteq live /\ live' # live
<1>1. PICK D : D = Below({n})
  OBVIOUS
<1>2. /\ Finite /\ spawned \in Nat /\ Shape /\ HeapType(heap, spawned, spawned)
      /\ killed \subseteq live /\ Tree \subseteq live /\ live \subseteq 1 .. spawned
      /\ Null \notin live
      /\ TreeTypes /\ IteratorTypes
  BY Types, TreeFits, TypeParts DEF Inv, Finite
<1>3. /\ live' = live \ D /\ killed' = killed \cap live'
      /\ heap' = [m \in 1 .. spawned |-> IF m \in live' THEN heap[m] ELSE Freed]
      /\ parent' = [m \in 1 .. spawned |-> IF m \in live' THEN parent[m] ELSE Null]
      /\ Disturb /\ UNCHANGED <<root, spawned>>
  BY <1>1 DEF Destroy
<1>4. \A x : x \in D <=> x \in live /\ (x = n \/ (parent[x] \in live /\ parent[x] \in D))
  BY <1>1, <1>2, BelowIs
<1>5. \A m \in live' : heap'[m] = heap[m] /\ parent'[m] = parent[m]
  BY <1>2, <1>3
<1>6. HeapType(heap', spawned, spawned)
  <2>1. \A m \in 1 .. spawned : heap'[m] \in Node(spawned) \cup {Freed}
    BY <1>2, <1>3 DEF HeapType
  <2>2. heap' \in [1 .. spawned -> Node(spawned) \cup {Freed}]
    BY <1>3, <2>1
  <2> QED
    BY <1>2, <2>2 DEF HeapType
<1>7. parent' \in Seq(0 .. spawned) /\ Len(parent') = spawned
  <2>1. \A m \in 1 .. spawned : parent'[m] \in 0 .. spawned
    BY <1>2, <1>3 DEF TreeTypes, Null
  <2>2. parent' \in [1 .. spawned -> 0 .. spawned]
    BY <1>3, <2>1
  <2> QED
    BY <1>2, <2>2
<1>8. \A m \in live' : /\ heap'[m] \in Node(spawned)
                       /\ parent'[m] \in live' \cup {Null} /\ parent'[m] < m
  <2>1. \A m \in live' : parent[m] \in live => parent[m] \in live'
    BY <1>3, <1>4
  <2> QED
    BY <1>2, <1>3, <1>5, <2>1 DEF TreeTypes
<1>9. TypeInv' /\ Finite'
  <2>1. TreeTypes'
    BY <1>2, <1>3, <1>6, <1>7, <1>8 DEF TreeTypes
  <2>2. IteratorTypes'
    BY <1>2, <1>3, Disturbed
  <2> QED
    BY <2>1, <2>2, TypePartsNext, TypesNext
<1>10. /\ Shape' /\ Tree' \subseteq Tree \ D
       /\ \A x \in Tree : (\A y \in Tree : x \in Sub(y) => y \notin D) => x \in Tree'
  <2>1. live' = live \ D /\ \A m \in live \ D : heap'[m] = heap[m]
    BY <1>3, <1>5
  <2>2. Shape' /\ Tree' \subseteq Tree \ D
    BY <1>2, <1>3, <1>9, <2>1, Shrunk
  <2>3. \A x \in Tree : (\A y \in Tree : x \in Sub(y) => y \notin D) => x \in Tree'
    BY <1>2, <1>3, <1>9, <2>1, Shrunk
  <2> QED
    BY <2>2, <2>3
<1>11. n \in killed => n \in Lost
  BY LostIs DEF Inv
<1>12. \A x \in Tree : x \in D => x \in Lost
  BY <1>1, <1>11, OnlyLost
<1>13. \A x \in live' : x \in Lost => x \in Lost'
  <2>1. \A x \in live' : parent[x] \in live => parent[x] \in live'
    BY <1>3, <1>4
  <2> QED
    BY <1>3, <1>5, <1>9, <2>1, StillLost DEF Inv
<1>14. \A y \in Tree : y \in Lost => Sub(y) \subseteq Lost
  <2>1. PICK B : B = Lost
    OBVIOUS
  <2>2. \A x \in live : parent[x] \in live /\ parent[x] \in B => x \in B
    BY <2>1, LostIs DEF Inv
  <2> QED
    BY <2>1, <2>2, LostOnwards
<1>15. \A x \in Tree : x \notin Lost => x \in Tree' /\ x \in live'
  BY <1>2, <1>3, <1>10, <1>12, <1>14
<1>16. SpawnedUnder'
  <2> SUFFICES ASSUME NEW x \in Tree', x \notin Lost'
               PROVE  \/ x = root' /\ parent'[x] = Null
                      \/ \E p : p = parent'[x] /\ p \in Tree' /\ x \in Refs(p)'
    BY DEF SpawnedUnder, Refs
  <2>1. x \in Tree /\ x \in live' /\ x \notin Lost /\ parent'[x] = parent[x] /\ x \in live
    BY <1>2, <1>3, <1>5, <1>10, <1>13
  <2>2. CASE x = root /\ parent[x] = Null
    BY <1>3, <2>1, <2>2
  <2>3. CASE parent[x] \in Tree /\ x \in Refs(parent[x])
    <3>1. PICK p : p = parent[x]
      OBVIOUS
    <3>2. p \in Tree /\ p \in live /\ p \notin Lost /\ x \in Refs(p)
      BY <1>2, <2>1, <2>3, <3>1, LostIs DEF Inv
    <3>3. p \in Tree' /\ heap'[p] = heap[p]
      BY <1>5, <1>15, <3>2
    <3>4. x \in Refs(p)'
      BY <2>1, <3>2, <3>3 DEF Refs
    <3> QED
      BY <2>1, <3>1, <3>3, <3>4
  <2> QED
    BY <2>1, <2>2, <2>3 DEF SpawnedUnder, Inv
<1>17. Tree \cap Lost = {} => Tree' = Tree
  BY <1>10, <1>15
<1>18. live' \subseteq live /\ live' # live
  BY <1>3, <1>4
<1>19. \A m \in Tree' : heap'[m] = heap[m]
  BY <1>2, <1>3, <1>5, <1>10
<1> QED
  BY <1>9, <1>10, <1>16, <1>17, <1>18, <1>19 DEF Inv

-----------------------------------------------------------------------------
(* The iterator.                                                           *)

LEMMA TreeKept ==
  ASSUME Inv, UNCHANGED treeVars, IteratorTypes'
  PROVE  /\ Inv' /\ Tree' = Tree /\ Lost' = Lost
         /\ \A m \in Tree : Sub(m)' = Sub(m)
<1>1. UNCHANGED <<root, heap, spawned, parent, live, killed>>
  BY DEF treeVars
<1>2. TreeTypes'
  <2>1. TreeTypes
    BY TypeParts DEF Inv
  <2> QED
    BY <1>1, <2>1 DEF TreeTypes
<1>3. TypeInv' /\ Finite'
  BY <1>2, TypePartsNext, TypesNext
<1>4. Shape' /\ Tree' = Tree /\ \A m \in Tree : Sub(m)' = Sub(m) /\ Refs(m)' = Refs(m)
  <2>1. \A m \in Tree : /\ heap'[m].key = heap[m].key
                        /\ heap'[m].left = heap[m].left /\ heap'[m].right = heap[m].right
    BY <1>1
  <2>2. Shape /\ Finite /\ UNCHANGED <<root, live>>
    BY <1>1, Types DEF Inv
  <2> QED
    BY <1>3, <2>1, <2>2, Same
<1>5. Lost' = Lost
  BY <1>1 DEF Lost, Below, End
<1>6. SpawnedUnder'
  BY <1>1, <1>4, <1>5 DEF SpawnedUnder, Inv
<1> QED
  BY <1>3, <1>4, <1>5, <1>6 DEF Inv

(* If nothing was removed: the iterator will visit nodes of the tree that  *)
(* are not the same from one cell to another, and are not among those that *)
(* it has returned, and none of those that were there is missing.          *)
WillVisit(c, y, s) ==
  /\ \A i \in 1 .. s : c[i] \in Tree
  /\ \A j \in 1 .. Len(y) : y[j] \in Tree /\ \A i \in 1 .. s : y[j] \notin Sub(c[i])
  /\ \A i, j \in 1 .. Len(y) : y[i] = y[j] => i = j
  /\ \A i, j \in 1 .. s : \A x \in Sub(c[i]) : x \in Sub(c[j]) => i = j
  /\ \A x \in expected : \/ \E j \in 1 .. Len(y) : x = y[j]
                         \/ \E i \in 1 .. s : x \in Sub(c[i])

Visits == ~disturbed => WillVisit(cells, yielded, size)

LEMMA InTree == Inv => \A m \in Tree : Sub(m) \subseteq Tree
BY Types, Nodes1 DEF Inv

LEMMA InTreeNext == (Inv => \A m \in Tree : Sub(m) \subseteq Tree)'
BY InTree, PTL

LEMMA VisitsGrows ==
  ASSUME Inv, Inv', Visits, UNCHANGED iteratorVars,
         \A m \in Tree : m \in Tree' /\ \A x \in live : x \in Sub(m)' <=> x \in Sub(m),
         \A x \in Tree' \ Tree : /\ x \notin live
                                 /\ \E b : \A m \in Tree : x \in Sub(m)' => b \in Sub(m)
  PROVE  Visits'
<1>1. UNCHANGED <<cells, size, yielded, expected, disturbed>>
  BY DEF iteratorVars
<1>2. Tree \subseteq live /\ \A m \in Tree : m \in live /\ Sub(m) \subseteq Tree
  BY Types, TreeFits, Nodes1 DEF Inv
<1>3. \A m \in Tree : \A x \in Sub(m)' : x \in live \/ x \in Tree' \ Tree
  <2>1. \A m \in Tree : Sub(m)' \subseteq Tree'
    BY InTreeNext
  <2> QED
    BY <1>2, <2>1
<1> SUFFICES ASSUME ~disturbed
             PROVE  /\ \A i \in 1 .. size : cells[i] \in Tree'
                    /\ \A j \in 1 .. Len(yielded) :
                         yielded[j] \in Tree' /\ \A i \in 1 .. size : yielded[j] \notin Sub(cells[i])'
                    /\ \A i, j \in 1 .. Len(yielded) : yielded[i] = yielded[j] => i = j
                    /\ \A i, j \in 1 .. size : \A x \in Sub(cells[i])' : x \in Sub(cells[j])' => i = j
                    /\ \A x \in expected : \/ \E j \in 1 .. Len(yielded) : x = yielded[j]
                                           \/ \E i \in 1 .. size : x \in Sub(cells[i])'
  BY <1>1 DEF Visits, WillVisit
<1>4. PICK c : c = cells
  OBVIOUS
<1>5. \A i : Sub(cells[i])' = Sub(c[i])'
  BY <1>1, <1>4
<1>6. /\ \A i \in 1 .. size : c[i] \in Tree
      /\ \A j \in 1 .. Len(yielded) :
           yielded[j] \in Tree /\ \A i \in 1 .. size : yielded[j] \notin Sub(c[i])
      /\ \A i, j \in 1 .. Len(yielded) : yielded[i] = yielded[j] => i = j
      /\ \A i, j \in 1 .. size : \A x \in Sub(c[i]) : x \in Sub(c[j]) => i = j
      /\ \A x \in expected : \/ \E j \in 1 .. Len(yielded) : x = yielded[j]
                             \/ \E i \in 1 .. size : x \in Sub(c[i])
  BY <1>4 DEF Visits, WillVisit
<1>7. ASSUME NEW j \in 1 .. Len(yielded)
      PROVE  yielded[j] \in Tree' /\ \A i \in 1 .. size : yielded[j] \notin Sub(c[i])'
  BY <1>2, <1>6
<1>8. ASSUME NEW i \in 1 .. size, NEW j \in 1 .. size, NEW x \in Sub(c[i])', x \in Sub(c[j])'
      PROVE  i = j
  <2>1. c[i] \in Tree /\ c[j] \in Tree
    BY <1>6
  <2>2. CASE x \in live
    BY <1>6, <1>8, <2>1, <2>2
  <2>3. CASE x \in Tree' \ Tree
    <3>1. PICK b : \A m \in Tree : x \in Sub(m)' => b \in Sub(m)
      BY <2>3
    <3> QED
      BY <1>6, <1>8, <2>1, <3>1
  <2> QED
    BY <1>3, <2>1, <2>2, <2>3
<1>9. ASSUME NEW x \in expected
      PROVE  \/ \E j \in 1 .. Len(yielded) : x = yielded[j]
             \/ \E i \in 1 .. size : x \in Sub(c[i])'
  <2>1. CASE \E i \in 1 .. size : x \in Sub(c[i])
    <3>1. PICK i \in 1 .. size : x \in Sub(c[i])
      BY <2>1
    <3>2. c[i] \in Tree /\ x \in live
      BY <1>2, <1>6, <3>1
    <3> QED
      BY <3>1, <3>2
  <2> QED
    BY <1>6, <2>1
<1> QED
  BY <1>4, <1>5, <1>6, <1>7, <1>8, <1>9

LEMMA IterateStep ==
  ASSUME Inv, Iterate
  PROVE  Inv' /\ Visits' /\ Tree' = Tree /\ Lost' = Lost
<1>1. /\ Finite /\ Shape /\ spawned \in Nat /\ Tree \subseteq live /\ live \subseteq 1 .. spawned
      /\ root \in live <=> root \in Tree
      /\ root \notin live => Tree = {}
      /\ Tree = Sub(root)
  BY Types, TreeFits DEF Inv
<1>2. /\ UNCHANGED treeVars /\ yielded' = << >> /\ expected' = Tree /\ disturbed' = FALSE
      /\ root \in live => cells' = <<root>> /\ size' = 1
      /\ root \notin live => cells' = <<Null>> /\ size' = 0
  BY DEF Iterate
<1>3. IteratorTypes'
  <2>1. spawned' = spawned
    BY <1>2 DEF treeVars
  <2>2. cells' \in Seq(0 .. spawned) /\ size' \in 0 .. Len(cells')
    <3>1. CASE root \in live
      <4>1. root \in 0 .. spawned /\ cells' = <<root>> /\ size' = 1
        BY <1>1, <1>2, <3>1
      <4>2. <<root>> \in Seq(0 .. spawned) /\ Len(<<root>>) = 1
        BY <4>1
      <4> QED
        BY <4>1, <4>2
    <3>2. CASE root \notin live
      <4>1. Null \in 0 .. spawned /\ cells' = <<Null>> /\ size' = 0
        BY <1>1, <1>2, <3>2 DEF Null
      <4>2. <<Null>> \in Seq(0 .. spawned) /\ Len(<<Null>>) = 1
        BY <4>1
      <4> QED
        BY <4>1, <4>2
    <3> QED
      BY <3>1, <3>2
  <2>3. yielded' \in Seq(1 .. spawned)
    BY <1>2
  <2> QED
    BY <1>1, <1>2, <2>1, <2>2, <2>3 DEF IteratorTypes
<1>4. Inv' /\ Tree' = Tree /\ Lost' = Lost /\ \A m \in Tree : Sub(m)' = Sub(m)
  BY <1>2, <1>3, TreeKept
<1>5. Visits'
  <2>1. CASE root \in live
    <3>1. cells'[1] = root /\ size' = 1 /\ root \in Tree /\ \A i \in 1 .. size' : i = 1
      BY <1>1, <1>2, <2>1
    <3>2. PICK t : t = root
      OBVIOUS
    <3>3. Sub(t)' = Tree
      BY <1>1, <1>4, <3>1, <3>2
    <3>4. Sub(cells[1])' = Sub(t)'
      BY <3>1, <3>2
    <3> QED
      BY <1>2, <1>4, <3>1, <3>3, <3>4 DEF Visits, WillVisit
  <2>2. CASE root \notin live
    BY <1>1, <1>2, <1>4, <2>2 DEF Visits, WillVisit
  <2> QED
    BY <2>1, <2>2
<1> QED
  BY <1>4, <1>5

(* Sequences that are put together.                                        *)
Joined(s, t) == s \o t

LEMMA JoinedIs ==
  ASSUME NEW S, NEW s \in Seq(S), NEW t \in Seq(S)
  PROVE  Joined(s, t) \in Seq(S) /\ Len(Joined(s, t)) = Len(s) + Len(t)
BY ConcatProperties DEF Joined

LEMMA JoinedLeft ==
  ASSUME NEW S, NEW s \in Seq(S), NEW t \in Seq(S), NEW i \in 1 .. Len(s)
  PROVE  Joined(s, t)[i] = s[i]
<1>1. \A j \in 1 .. Len(s) + Len(t) : (s \o t)[j] = IF j <= Len(s) THEN s[j] ELSE t[j - Len(s)]
  BY ConcatProperties
<1>2. i \in 1 .. Len(s) + Len(t) /\ i <= Len(s)
  OBVIOUS
<1> QED
  BY <1>1, <1>2 DEF Joined

LEMMA JoinedRight ==
  ASSUME NEW S, NEW s \in Seq(S), NEW t \in Seq(S),
         NEW i \in Len(s) + 1 .. Len(s) + Len(t)
  PROVE  Joined(s, t)[i] = t[i - Len(s)]
<1>1. \A j \in 1 .. Len(s) + Len(t) : (s \o t)[j] = IF j <= Len(s) THEN s[j] ELSE t[j - Len(s)]
  BY ConcatProperties
<1>2. i \in 1 .. Len(s) + Len(t) /\ ~(i <= Len(s))
  OBVIOUS
<1> QED
  BY <1>1, <1>2 DEF Joined

(* The children of the node, each of them once.                            *)
LEMMA PushedIs ==
  ASSUME Inv, NEW n \in live
  PROVE  /\ Pushed(n) \in Seq(live) /\ Len(Pushed(n)) \in 0 .. 2
         /\ \A i \in 1 .. Len(Pushed(n)) : Pushed(n)[i] \in Refs(n)
         /\ \A c \in Refs(n) : \E i \in 1 .. Len(Pushed(n)) : Pushed(n)[i] = c
         /\ n \in Tree => \A i, j \in 1 .. Len(Pushed(n)) : Pushed(n)[i] = Pushed(n)[j] => i = j
<1>1. PICK l, r : l = heap[n].left /\ r = heap[n].right
  OBVIOUS
<1>2. Refs(n) = {l, r} \cap live
  BY <1>1 DEF Refs
<1>3. Pushed(n) = (IF r \in live THEN <<r>> ELSE << >>) \o (IF l \in live THEN <<l>> ELSE << >>)
  BY <1>1 DEF Pushed, Existing
<1>4. n \in Tree /\ l \in live => l # r
  BY <1>1, Types, SidesDiffer DEF Inv
<1>5. CASE r \in live /\ l \in live
  <2>1. <<r>> \o <<l>> = <<r, l>>
    <3>1. <<r>> \in Seq(live) /\ <<l>> \in Seq(live)
      BY <1>5
    <3>2. /\ Joined(<<r>>, <<l>>) \in Seq(live)
          /\ Len(Joined(<<r>>, <<l>>)) = Len(<<r>>) + Len(<<l>>)
      BY <3>1, JoinedIs
    <3>3. 1 \in 1 .. Len(<<r>>) /\ <<r>>[1] = r /\ Len(<<r>>) = 1
      OBVIOUS
    <3>4. 1 \in 1 .. Len(<<l>>) /\ <<l>>[1] = l /\ Len(<<l>>) = 1
      OBVIOUS
    <3>5. PICK p : p = Joined(<<r>>, <<l>>)
      OBVIOUS
    <3>6. p \in Seq(live) /\ Len(p) = 2
      BY <3>2, <3>3, <3>4, <3>5
    <3>7. p[1] = r
      BY <3>1, <3>3, <3>5, JoinedLeft
    <3>8. p[2] = l
      <4>1. 2 \in Len(<<r>>) + 1 .. Len(<<r>>) + Len(<<l>>)
        BY <3>3, <3>4
      <4>2. Joined(<<r>>, <<l>>)[2] = <<l>>[2 - Len(<<r>>)]
        BY <3>1, <4>1, JoinedRight
      <4>3. 2 - Len(<<r>>) = 1
        BY <3>3
      <4> QED
        BY <3>4, <3>5, <4>2, <4>3
    <3>9. p = <<r, l>>
      BY <3>6, <3>7, <3>8
    <3> QED
      BY <3>5, <3>9 DEF Joined
  <2>2. Pushed(n) = <<r, l>>
    BY <1>3, <1>5, <2>1
  <2> QED
    BY <1>2, <1>4, <1>5, <2>2
<1>6. CASE r \in live /\ l \notin live
  <2>1. Pushed(n) = <<r>>
    BY <1>3, <1>6
  <2> QED
    BY <1>2, <1>4, <1>6, <2>1
<1>7. CASE r \notin live /\ l \in live
  <2>1. Pushed(n) = <<l>>
    BY <1>3, <1>7
  <2> QED
    BY <1>2, <1>4, <1>7, <2>1
<1>8. CASE r \notin live /\ l \notin live
  <2>1. Pushed(n) = << >>
    BY <1>3, <1>8
  <2> QED
    BY <1>2, <1>4, <1>8, <2>1
<1> QED
  BY <1>5, <1>6, <1>7, <1>8

LEMMA ThreeJoined ==
  ASSUME NEW S, NEW a \in Seq(S), NEW t \in Seq(S), NEW b \in Seq(S)
  PROVE  /\ Joined(Joined(a, t), b) \in Seq(S)
         /\ Len(a) + Len(t) \in 0 .. Len(Joined(Joined(a, t), b))
<1>1. Joined(a, t) \in Seq(S) /\ Len(Joined(a, t)) = Len(a) + Len(t)
  BY JoinedIs
<1>2. PICK d : d = Joined(a, t)
  OBVIOUS
<1>3. Joined(d, b) \in Seq(S) /\ Len(Joined(d, b)) = Len(d) + Len(b)
  BY <1>1, <1>2, JoinedIs
<1>4. Len(d) + Len(b) \in Nat /\ Len(d) \in 0 .. Len(d) + Len(b)
  BY <1>1, <1>2
<1> QED
  BY <1>1, <1>2, <1>3, <1>4

LEMMA ThreeLeft ==
  ASSUME NEW S, NEW a \in Seq(S), NEW t \in Seq(S), NEW b \in Seq(S), NEW i \in 1 .. Len(a)
  PROVE  Joined(Joined(a, t), b)[i] = a[i]
<1>1. Joined(a, t) \in Seq(S) /\ Len(Joined(a, t)) = Len(a) + Len(t)
  BY JoinedIs
<1>2. PICK d : d = Joined(a, t)
  OBVIOUS
<1>3. i \in 1 .. Len(d)
  BY <1>1, <1>2
<1>4. Joined(d, b)[i] = d[i]
  BY <1>1, <1>2, <1>3, JoinedLeft
<1>5. Joined(a, t)[i] = a[i]
  BY JoinedLeft
<1> QED
  BY <1>2, <1>4, <1>5

LEMMA ThreeMiddle ==
  ASSUME NEW S, NEW a \in Seq(S), NEW t \in Seq(S), NEW b \in Seq(S),
         NEW i \in Len(a) + 1 .. Len(a) + Len(t)
  PROVE  Joined(Joined(a, t), b)[i] = t[i - Len(a)]
<1>1. Joined(a, t) \in Seq(S) /\ Len(Joined(a, t)) = Len(a) + Len(t)
  BY JoinedIs
<1>2. PICK d : d = Joined(a, t)
  OBVIOUS
<1>3. i \in 1 .. Len(d)
  BY <1>1, <1>2
<1>4. Joined(d, b)[i] = d[i]
  BY <1>1, <1>2, <1>3, JoinedLeft
<1>5. Joined(a, t)[i] = t[i - Len(a)]
  BY JoinedRight
<1> QED
  BY <1>2, <1>4, <1>5

(* The cell s on top gives way to those of P.                              *)
NextCells(cs, s, P) ==
  Joined(Joined(SubSeq(cs, 1, s - 1), P), SubSeq(cs, s + Len(P), Len(cs)))

LEMMA Replacing ==
  ASSUME NEW S, NEW cs \in Seq(S), NEW s \in 1 .. Len(cs), NEW P \in Seq(S)
  PROVE  /\ NextCells(cs, s, P) \in Seq(S) /\ s - 1 + Len(P) \in 0 .. Len(NextCells(cs, s, P))
         /\ \A i \in 1 .. s - 1 : NextCells(cs, s, P)[i] = cs[i]
         /\ \A i \in 1 .. Len(P) : NextCells(cs, s, P)[s - 1 + i] = P[i]
<1>0. PICK cs1 : cs1 = NextCells(cs, s, P)
  OBVIOUS
<1>1. PICK a : a = SubSeq(cs, 1, s - 1)
  OBVIOUS
<1>2. PICK b : b = SubSeq(cs, s + Len(P), Len(cs))
  OBVIOUS
<1>3. a \in Seq(S) /\ Len(a) = s - 1 /\ \A i \in 1 .. s - 1 : a[i] = cs[i]
  <2>1. 1 \in Int /\ s - 1 \in Int /\ \A i \in 1 .. s - 1 : cs[i] \in S
    OBVIOUS
  <2>2. /\ SubSeq(cs, 1, s - 1) \in Seq(S)
        /\ Len(SubSeq(cs, 1, s - 1)) = IF 1 <= s - 1 THEN s - 1 - 1 + 1 ELSE 0
        /\ \A i \in 1 .. s - 1 - 1 + 1 : SubSeq(cs, 1, s - 1)[i] = cs[1 + i - 1]
    BY <2>1, SubSeqProperties
  <2> QED
    BY <1>1, <2>2
<1>4. b \in Seq(S)
  <2>1. Len(P) \in Nat /\ Len(cs) \in Nat
    OBVIOUS
  <2>2. s + Len(P) \in Int /\ Len(cs) \in Int /\ \A i \in s + Len(P) .. Len(cs) : cs[i] \in S
    BY <2>1
  <2> QED
    BY <1>2, <2>2, SubSeqProperties
<1>5. cs1 = Joined(Joined(a, P), b)
  BY <1>0, <1>1, <1>2 DEF NextCells
<1>6. /\ cs1 \in Seq(S)
      /\ Len(a) + Len(P) \in 0 .. Len(cs1)
      /\ \A i \in 1 .. Len(a) : cs1[i] = a[i]
      /\ \A i \in 1 .. Len(P) : cs1[Len(a) + i] = P[i]
  <2>1. cs1 \in Seq(S) /\ Len(a) + Len(P) \in 0 .. Len(cs1)
    BY <1>3, <1>4, <1>5, ThreeJoined
  <2>2. ASSUME NEW i \in 1 .. Len(a) PROVE cs1[i] = a[i]
    BY <1>3, <1>4, <1>5, ThreeLeft
  <2>3. ASSUME NEW i \in 1 .. Len(P) PROVE cs1[Len(a) + i] = P[i]
    <3>1. PICK j : j = Len(a) + i
      OBVIOUS
    <3>2. j \in Len(a) + 1 .. Len(a) + Len(P) /\ j - Len(a) = i
      <4>1. Len(a) \in Nat /\ Len(P) \in Nat /\ i \in 1 .. Len(P)
        BY <1>3
      <4> QED
        BY <3>1, <4>1
    <3>3. Joined(Joined(a, P), b)[j] = P[j - Len(a)]
      BY <1>3, <1>4, <3>2, ThreeMiddle
    <3>4. cs1[j] = P[i]
      BY <1>5, <3>2, <3>3
    <3> QED
      BY <3>1, <3>4
  <2> QED
    BY <2>1, <2>2, <2>3
<1> QED
  BY <1>0, <1>3, <1>6

LEMMA ReplacedLeft ==
  ASSUME NEW S, NEW cs \in Seq(S), NEW s \in 1 .. Len(cs), NEW P \in Seq(S), NEW i \in 1 .. s - 1
  PROVE  NextCells(cs, s, P)[i] = cs[i]
BY Replacing

LEMMA ReplacedMiddle ==
  ASSUME NEW S, NEW cs \in Seq(S), NEW s \in 1 .. Len(cs), NEW P \in Seq(S), NEW i \in 1 .. Len(P)
  PROVE  NextCells(cs, s, P)[s - 1 + i] = P[i]
BY Replacing

(* What the iterator is about to visit after it has returned n.            *)
LEMMA NextVisits ==
  ASSUME Inv, Visits, ~disturbed, size > 0, NEW n \in live, n = cells[size],
         NEW P, P = Pushed(n), NEW c1, NEW y1, NEW s1,
         \A i \in 1 .. size - 1 : c1[i] = cells[i],
         \A i \in 1 .. Len(P) : c1[size - 1 + i] = P[i],
         s1 = size - 1 + Len(P),
         Len(y1) = Len(yielded) + 1, y1[Len(yielded) + 1] = n,
         \A j \in 1 .. Len(yielded) : y1[j] = yielded[j]
  PROVE  WillVisit(c1, y1, s1)
<1>1. Shape /\ Finite /\ size \in Nat /\ size \in 1 .. size /\ Len(yielded) \in Nat
  <2>1. IteratorTypes
    BY TypeParts DEF Inv
  <2> QED
    BY <2>1, Types DEF IteratorTypes, Inv
<1>2. /\ \A i \in 1 .. size : cells[i] \in Tree
      /\ \A j \in 1 .. Len(yielded) :
           yielded[j] \in Tree /\ \A i \in 1 .. size : yielded[j] \notin Sub(cells[i])
      /\ \A i, j \in 1 .. Len(yielded) : yielded[i] = yielded[j] => i = j
      /\ \A i, j \in 1 .. size : \A x \in Sub(cells[i]) : x \in Sub(cells[j]) => i = j
      /\ \A x \in expected : \/ \E j \in 1 .. Len(yielded) : x = yielded[j]
                             \/ \E i \in 1 .. size : x \in Sub(cells[i])
  BY DEF Visits, WillVisit
<1>3. n \in Tree
  BY <1>1, <1>2
<1>4. /\ n \in Sub(n)
      /\ \A x : x \in Sub(n) <=> x = n \/ (\E c \in Refs(n) : x \in Sub(c))
      /\ \A c \in Refs(n) : c \in Tree /\ Sub(c) \subseteq Sub(n) /\ n \notin Sub(c)
  BY <1>1, <1>3, Nodes1
<1>5. /\ Len(P) \in 0 .. 2
      /\ \A i \in 1 .. Len(P) : P[i] \in Refs(n)
      /\ \A c \in Refs(n) : \E i \in 1 .. Len(P) : P[i] = c
      /\ \A i, j \in 1 .. Len(P) : P[i] = P[j] => i = j
  <2>1. Len(P) \in 0 .. 2 /\ \A i \in 1 .. Len(P) : P[i] \in Refs(n)
    BY PushedIs
  <2>2. \A c \in Refs(n) : \E i \in 1 .. Len(P) : P[i] = c
    BY PushedIs
  <2>3. \A i, j \in 1 .. Len(P) : P[i] = P[j] => i = j
    BY <1>3, PushedIs
  <2> QED
    BY <2>1, <2>2, <2>3
<1>6. \A i \in 1 .. s1 : \/ i \in 1 .. size - 1 /\ c1[i] = cells[i]
                         \/ \E h \in 1 .. Len(P) : i = size - 1 + h /\ c1[i] = P[h] /\ P[h] \in Refs(n)
  <2> SUFFICES ASSUME NEW i \in 1 .. s1, i \notin 1 .. size - 1
               PROVE  \E h \in 1 .. Len(P) : i = size - 1 + h /\ c1[i] = P[h] /\ P[h] \in Refs(n)
    OBVIOUS
  <2>1. PICK h : h = i - (size - 1)
    OBVIOUS
  <2>2. h \in 1 .. Len(P) /\ i = size - 1 + h
    BY <1>1, <1>5, <2>1
  <2> QED
    BY <1>5, <2>2
<1>7. ASSUME NEW i \in 1 .. size - 1, NEW x \in Sub(cells[i]) PROVE x \notin Sub(n)
  <2>1. i \in 1 .. size /\ i # size
    BY <1>1
  <2>2. x \in Sub(cells[size]) => i = size
    BY <1>1, <1>2, <2>1
  <2> QED
    BY <2>1, <2>2
<1>8. \A i \in 1 .. size - 1 : i \in 1 .. size
  BY <1>1
<1>9. ASSUME NEW i \in 1 .. s1 PROVE c1[i] \in Tree
  BY <1>2, <1>4, <1>6, <1>8
<1>10. \A j \in 1 .. Len(y1) : \/ j \in 1 .. Len(yielded) /\ y1[j] = yielded[j]
                               \/ j = Len(yielded) + 1 /\ y1[j] = n
  BY <1>1
<1>11. \A x : (\A i \in 1 .. size : x \notin Sub(cells[i])) => \A i \in 1 .. s1 : x \notin Sub(c1[i])
  <2> SUFFICES ASSUME NEW x, \A i \in 1 .. size : x \notin Sub(cells[i]), NEW i \in 1 .. s1
               PROVE  x \notin Sub(c1[i])
    OBVIOUS
  <2>1. x \notin Sub(n)
    BY <1>1
  <2> QED
    BY <1>4, <1>6, <1>8, <2>1
<1>12. \A i \in 1 .. s1 : n \notin Sub(c1[i])
  BY <1>4, <1>6, <1>7
<1>13. ASSUME NEW j \in 1 .. Len(y1)
       PROVE  y1[j] \in Tree /\ \A i \in 1 .. s1 : y1[j] \notin Sub(c1[i])
  <2>1. CASE y1[j] = n
    BY <1>3, <1>12, <2>1
  <2>2. CASE j \in 1 .. Len(yielded) /\ y1[j] = yielded[j]
    <3>1. yielded[j] \in Tree /\ \A i \in 1 .. size : yielded[j] \notin Sub(cells[i])
      BY <1>2, <2>2
    <3>2. \A i \in 1 .. s1 : yielded[j] \notin Sub(c1[i])
      BY <1>11, <3>1
    <3> QED
      BY <2>2, <3>1, <3>2
  <2> QED
    BY <1>10, <2>1, <2>2
<1>14. \A j \in 1 .. Len(yielded) : yielded[j] # n
  BY <1>1, <1>2, <1>4
<1>15. ASSUME NEW i \in 1 .. Len(y1), NEW j \in 1 .. Len(y1), y1[i] = y1[j] PROVE i = j
  BY <1>2, <1>10, <1>14, <1>15
<1>16. ASSUME NEW i \in 1 .. s1, NEW j \in 1 .. s1, NEW x \in Sub(c1[i]), x \in Sub(c1[j])
       PROVE  i = j
  <2>1. CASE i \in 1 .. size - 1 /\ c1[i] = cells[i] /\ j \in 1 .. size - 1 /\ c1[j] = cells[j]
    BY <1>2, <1>8, <1>16, <2>1
  <2>2. ASSUME NEW h \in 1 .. Len(P), c1[i] = P[h], P[h] \in Refs(n)
        PROVE  ~(j \in 1 .. size - 1 /\ c1[j] = cells[j])
    BY <1>4, <1>7, <1>16, <2>2
  <2>3. ASSUME NEW h \in 1 .. Len(P), c1[j] = P[h], P[h] \in Refs(n)
        PROVE  ~(i \in 1 .. size - 1 /\ c1[i] = cells[i])
    BY <1>4, <1>7, <1>16, <2>3
  <2>4. ASSUME NEW h \in 1 .. Len(P), i = size - 1 + h, c1[i] = P[h], P[h] \in Refs(n),
               NEW g \in 1 .. Len(P), j = size - 1 + g, c1[j] = P[g], P[g] \in Refs(n)
        PROVE  i = j
    <3>1. P[h] = P[g]
      BY <1>1, <1>3, <1>16, <2>4, Nodes2
    <3> QED
      BY <1>5, <2>4, <3>1
  <2> QED
    BY <1>6, <2>1, <2>2, <2>3, <2>4
<1>17. ASSUME NEW x \in expected
       PROVE  \/ \E j \in 1 .. Len(y1) : x = y1[j]
              \/ \E i \in 1 .. s1 : x \in Sub(c1[i])
  <2>1. CASE \E j \in 1 .. Len(yielded) : x = yielded[j]
    <3>1. \A j \in 1 .. Len(yielded) : j \in 1 .. Len(y1)
      BY <1>1
    <3> QED
      BY <2>1, <3>1
  <2>2. CASE x = n
    <3>1. Len(yielded) + 1 \in 1 .. Len(y1)
      BY <1>1
    <3> QED
      BY <2>2, <3>1
  <2>3. CASE \E i \in 1 .. size - 1 : x \in Sub(cells[i])
    <3>1. \A i \in 1 .. size - 1 : i \in 1 .. s1
      BY <1>1, <1>5
    <3> QED
      BY <2>3, <3>1
  <2>4. CASE x # n /\ x \in Sub(n)
    <3>1. PICK c \in Refs(n) : x \in Sub(c)
      BY <1>4, <2>4
    <3>2. PICK h \in 1 .. Len(P) : P[h] = c
      BY <1>5, <3>1
    <3>3. size - 1 + h \in 1 .. s1
      BY <1>1, <1>5
    <3>4. c1[size - 1 + h] = c
      BY <3>2
    <3> QED
      BY <3>1, <3>3, <3>4
  <2>5. \A i \in 1 .. size : i = size \/ i \in 1 .. size - 1
    BY <1>1
  <2> QED
    BY <1>2, <2>1, <2>2, <2>3, <2>4, <2>5
<1> QED
  BY <1>9, <1>13, <1>15, <1>16, <1>17 DEF WillVisit

LEMMA ItNextStep ==
  ASSUME Inv, Visits, ItNext
  PROVE  Inv' /\ Visits' /\ Tree' = Tree /\ Lost' = Lost
<1>1. PICK n : n = cells[size]
  OBVIOUS
<1>2. PICK P : P = Pushed(n)
  OBVIOUS
<1>3. /\ size > 0 /\ n \in live /\ size' = size - 1 + Len(P)
      /\ cells' = NextCells(cells, size, P)
      /\ yielded' = IF disturbed THEN <<n>> ELSE Append(yielded, n)
      /\ UNCHANGED <<treeVars, expected, disturbed>>
  BY <1>1, <1>2 DEF ItNext, NextCells, Joined
<1>4. IteratorTypes /\ spawned \in Nat /\ live \subseteq 1 .. spawned
  BY TypeParts, Types DEF Inv
<1>5. P \in Seq(0 .. spawned) /\ Len(P) \in 0 .. 2
  <2>1. P \in Seq(live) /\ Len(P) \in 0 .. 2
    BY <1>2, <1>3, PushedIs
  <2>2. live \subseteq 0 .. spawned
    BY <1>4
  <2> QED
    BY <2>1, <2>2, Wider
<1>6. /\ cells \in Seq(0 .. spawned) /\ size \in 1 .. Len(cells) /\ size \in Nat
      /\ yielded \in Seq(1 .. spawned) /\ Len(yielded) \in Nat
  BY <1>3, <1>4 DEF IteratorTypes
<1>7. /\ cells' \in Seq(0 .. spawned) /\ size' \in 0 .. Len(cells')
      /\ \A i \in 1 .. size - 1 : cells'[i] = cells[i]
      /\ \A i \in 1 .. Len(P) : cells'[size - 1 + i] = P[i]
  <2>1. PICK c1 : c1 = cells'
    OBVIOUS
  <2>2. c1 = NextCells(cells, size, P)
    BY <1>3, <2>1
  <2>3. c1 \in Seq(0 .. spawned) /\ size - 1 + Len(P) \in 0 .. Len(c1)
    BY <1>5, <1>6, <2>2, Replacing
  <2>4. ASSUME NEW i \in 1 .. size - 1 PROVE c1[i] = cells[i]
    BY <1>5, <1>6, <2>2, ReplacedLeft
  <2>5. ASSUME NEW i \in 1 .. Len(P) PROVE c1[size - 1 + i] = P[i]
    BY <1>5, <1>6, <2>2, ReplacedMiddle
  <2> QED
    BY <1>3, <2>1, <2>3, <2>4, <2>5
<1>8. n \in 1 .. spawned
  BY <1>3, <1>4
<1>9. yielded' \in Seq(1 .. spawned)
  <2>1. <<n>> \in Seq(1 .. spawned)
    BY <1>8
  <2>2. Append(yielded, n) \in Seq(1 .. spawned)
    BY <1>6, <1>8
  <2> QED
    BY <1>3, <2>1, <2>2
<1>10. IteratorTypes' /\ UNCHANGED treeVars
  BY <1>3, <1>4, <1>7, <1>9 DEF IteratorTypes, treeVars
<1>11. Inv' /\ Tree' = Tree /\ Lost' = Lost /\ \A m \in Tree : Sub(m)' = Sub(m)
  BY <1>10, TreeKept
<1>12. ASSUME ~disturbed' PROVE Visits'
  <2>1. ~disturbed /\ yielded' = Append(yielded, n) /\ expected' = expected
    BY <1>3, <1>12
  <2>2. PICK c1, y1, s1 : c1 = cells' /\ y1 = yielded' /\ s1 = size'
    OBVIOUS
  <2>3. /\ Len(y1) = Len(yielded) + 1 /\ y1[Len(yielded) + 1] = n
        /\ \A j \in 1 .. Len(yielded) : y1[j] = yielded[j]
    BY <1>6, <1>8, <2>1, <2>2
  <2>4. s1 = size - 1 + Len(P)
    BY <1>3, <2>2
  <2>5. WillVisit(c1, y1, s1)
    <3>1. \A i \in 1 .. size - 1 : c1[i] = cells[i]
      BY <1>7, <2>2
    <3>2. \A i \in 1 .. Len(P) : c1[size - 1 + i] = P[i]
      BY <1>7, <2>2
    <3>3. n \in live /\ size > 0 /\ ~disturbed
      BY <1>3, <2>1
    <3> QED
      BY <1>1, <1>2, <2>3, <2>4, <3>1, <3>2, <3>3, NextVisits
  <2>6. \A i \in 1 .. s1 : Sub(cells[i])' = Sub(c1[i])
    <3>1. \A i : Sub(cells[i])' = Sub(c1[i])'
      BY <2>2
    <3> QED
      BY <1>11, <2>5, <3>1 DEF WillVisit
  <2> QED
    <3>2. /\ \A i \in 1 .. size' : cells'[i] \in Tree'
          /\ \A i, j \in 1 .. Len(yielded') : yielded'[i] = yielded'[j] => i = j
      BY <1>11, <2>2, <2>5 DEF WillVisit
    <3>3. \A j \in 1 .. Len(yielded') :
            yielded'[j] \in Tree' /\ \A i \in 1 .. size' : yielded'[j] \notin Sub(cells[i])'
      BY <1>11, <2>2, <2>5, <2>6 DEF WillVisit
    <3>4. \A i, j \in 1 .. size' : \A x \in Sub(cells[i])' : x \in Sub(cells[j])' => i = j
      BY <2>2, <2>5, <2>6 DEF WillVisit
    <3>5. \A x \in expected' : \/ \E j \in 1 .. Len(yielded') : x = yielded'[j]
                               \/ \E i \in 1 .. size' : x \in Sub(cells[i])'
      BY <2>1, <2>2, <2>5, <2>6 DEF WillVisit
    <3> QED
      BY <3>2, <3>3, <3>4, <3>5 DEF Visits, WillVisit
<1>13. disturbed' => Visits'
  BY DEF Visits
<1> QED
  BY <1>11, <1>12, <1>13

LEMMA VisitsStay ==
  ASSUME Inv, Inv', Visits, UNCHANGED iteratorVars, Tree' = Tree, \A m \in Tree : Sub(m)' = Sub(m)
  PROVE  Visits'
<1>1. \A m \in Tree : m \in Tree' /\ \A x \in live : x \in Sub(m)' <=> x \in Sub(m)
  OBVIOUS
<1>2. \A x \in Tree' \ Tree : /\ x \notin live
                              /\ \E b : \A m \in Tree : x \in Sub(m)' => b \in Sub(m)
  OBVIOUS
<1> QED
  BY <1>1, <1>2, VisitsGrows

(* Every step keeps the invariant, and what the iterator will visit.       *)
LEMMA InvStep ==
  ASSUME Inv, Visits, [Next]_vars
  PROVE  Inv' /\ Visits'
<1>1. Disturb => Visits'
  BY DEF Disturb, Visits
<1>2. ASSUME NEW k \in Keys, NEW v \in Values, Set(k, v) PROVE Inv' /\ Visits'
  <2>1. Inv' /\ Grows(k, v)
    BY <1>2, SetStep
  <2>2. UNCHANGED iteratorVars
    BY <1>2 DEF Set
  <2>3. \A m \in Tree : m \in Tree' /\ \A x \in live : x \in Sub(m)' <=> x \in Sub(m)
    BY <2>1 DEF Grows
  <2>4. \A x \in Tree' \ Tree : /\ x \notin live
                                /\ \E b : \A m \in Tree : x \in Sub(m)' => b \in Sub(m)
    BY <2>1 DEF Grows
  <2> QED
    BY <2>1, <2>2, <2>3, <2>4, VisitsGrows
<1>3. ASSUME NEW k \in Keys, Delete(k) PROVE Inv' /\ Visits'
  BY <1>1, <1>3, DeleteStep DEF Delete
<1>4. CASE Clear
  BY <1>1, <1>4, ClearStep DEF Clear
<1>5. ASSUME NEW n \in live, n \in killed \/ n \notin Reachable, Destroy(n) PROVE Inv' /\ Visits'
  BY <1>1, <1>5, DestroyStep DEF Destroy
<1>6. CASE Frame
  BY <1>5, <1>6, Types DEF Frame, Inv
<1>7. CASE Sweep
  BY <1>5, <1>7 DEF Sweep
<1>8. CASE Iterate
  BY <1>8, IterateStep
<1>9. CASE ItNext
  BY <1>9, ItNextStep
<1>10. ASSUME NEW v \in Values, SetEntry(v) PROVE Inv' /\ Visits'
  <2>1. Inv' /\ Tree' = Tree /\ \A m \in Tree : Sub(m)' = Sub(m)
    BY <1>10, SetEntryStep
  <2>2. UNCHANGED iteratorVars
    BY <1>10 DEF SetEntry
  <2> QED
    BY <2>1, <2>2, VisitsStay
<1>11. CASE UNCHANGED vars
  <2>1. UNCHANGED treeVars /\ UNCHANGED iteratorVars
    BY <1>11 DEF vars
  <2>2. IteratorTypes'
    <3>1. IteratorTypes /\ spawned \in Nat
      BY TypeParts, Types DEF Inv
    <3>2. spawned' = spawned
      BY <2>1 DEF treeVars
    <3> QED
      BY <2>1, <3>1, <3>2, IteratorKept
  <2>3. Inv' /\ Tree' = Tree /\ \A m \in Tree : Sub(m)' = Sub(m)
    BY <2>1, <2>2, TreeKept
  <2> QED
    BY <2>1, <2>3, VisitsStay
<1> QED
  BY <1>2, <1>3, <1>4, <1>6, <1>7, <1>8, <1>9, <1>10, <1>11 DEF Next

LEMMA InvAtFirst == Init => Inv /\ Visits
<1> SUFFICES ASSUME Init PROVE Inv /\ Visits
  OBVIOUS
<1>1. TypeInv
  <2>1. 0 \in 0 .. MaxNodes
    BY DictionaryAssumption
  <2>2. /\ root = 0 /\ spawned = 0 /\ live = {} /\ killed = {} /\ expected = {}
        /\ disturbed \in BOOLEAN
    BY DEF Init, Null
  <2>3. /\ heap = << >> /\ parent = << >> /\ cells = << >> /\ yielded = << >>
        /\ spawned = 0 /\ size = 0
    BY DEF Init
  <2>4. /\ \A S : heap \in Seq(S) /\ parent \in Seq(S) /\ cells \in Seq(S) /\ yielded \in Seq(S)
        /\ Len(heap) = spawned /\ Len(parent) = spawned /\ size \in 0 .. Len(cells)
    BY <2>3
  <2>5. heap \in Seq([key : Keys, value : Values, left : 0 .. spawned, right : 0 .. spawned]
                       \cup {Freed})
    BY <2>4
  <2>6. TypeOK
    BY <2>1, <2>2, <2>4, <2>5 DEF TypeOK
  <2> QED
    BY <2>6 DEF Init, TypeInv
<1>2. Finite /\ root \notin live /\ size = 0 /\ yielded = << >> /\ expected = {}
  BY <1>1, Types DEF Init
<1>3. Shape /\ Tree = {}
  <2>1. PICK T1, sub1 : T1 = {} /\ sub1 = [m \in {} |-> {}]
    OBVIOUS
  <2>2. Fits(T1, sub1)
    BY <1>2, <2>1 DEF Fits
  <2>3. Describes(T1, sub1)
    BY <1>2, <2>2, ShapeBy
  <2> QED
    BY <1>2, <2>3 DEF Describes
<1>4. SpawnedUnder
  BY <1>3 DEF SpawnedUnder
<1>5. Visits
  BY <1>2 DEF Visits, WillVisit
<1> QED
  BY <1>1, <1>3, <1>4, <1>5 DEF Inv

LEMMA InvHolds == Spec => [](Inv /\ Visits)
<1>1. Inv /\ Visits /\ [Next]_vars => (Inv /\ Visits)'
  BY InvStep
<1> QED
  BY <1>1, InvAtFirst, PTL DEF Spec

(* Whatever is inserted, deleted, destroyed and iterated on, the nodes     *)
(* that exist have a key and a value, and the references of the nodes, the *)
(* nodes they were spawned on and the cells of the iterator denote nodes   *)
(* that have been spawned: for any keys, values and number of nodes.       *)
THEOREM TypesAreKept == Spec => []TypeOK
<1>1. Inv => TypeOK
  BY DEF Inv, TypeInv
<1> QED
  BY <1>1, InvHolds, PTL

(* fun_get() and fun_has() find exactly the nodes that bst_count() and the *)
(* iterators visit, after every insertion, after every removal, which      *)
(* reorders the tree, and when nodes vanish.                               *)
THEOREM SearchFindsTheTree == Spec => []NodesAreFound
<1>1. ASSUME Inv PROVE NodesAreFound
  <2>1. /\ Shape /\ Finite /\ Keys \subseteq Int /\ Tree \subseteq live
        /\ \A n \in live : heap[n].key \in Keys
    BY <1>1, Types, TreeFits, DictionaryAssumption DEF Inv
  <2>2. ASSUME NEW n \in Tree PROVE \E k \in Keys : Has(k) /\ n = Bottom(k)
    BY <2>1, ContentsFound
  <2>3. ASSUME NEW k \in Keys, Has(k) PROVE Bottom(k) \in Tree
    <3>1. root \in live /\ k \in Int
      BY <2>1, <2>3 DEF Has
    <3> QED
      BY <2>1, <3>1, BottomIsFound
  <2> QED
    BY <2>2, <2>3 DEF NodesAreFound
<1> QED
  BY <1>1, InvHolds, PTL

(* fun_it_next() returns no node twice, and it will have returned every    *)
(* node that was there when fun_it_constructor() was called, although      *)
(* nodes are added and values are changed meanwhile; unless something is   *)
(* removed.                                                                *)
THEOREM IteratorReturnsAll == Spec => []IteratesOnce
<1>1. ASSUME Inv, Visits PROVE IteratesOnce
  <2> SUFFICES ASSUME ~disturbed
               PROVE  /\ \A i, j \in 1 .. Len(yielded) : yielded[i] = yielded[j] => i = j
                      /\ expected \subseteq ToSet(yielded) \cup Reached(ToSet(Stack))
    BY DEF IteratesOnce
  <2>1. WillVisit(cells, yielded, size)
    BY <1>1 DEF Visits
  <2>2. /\ cells \in Seq(0 .. spawned) /\ size \in 0 .. Len(cells)
        /\ yielded \in Seq(1 .. spawned)
    BY <1>1, TypeParts DEF IteratorTypes, Inv
  <2>3. \A i \in 1 .. size : cells[i] \in ToSet(Stack)
    <3>1. /\ Len(SubSeq(cells, 1, size)) = size
          /\ \A i \in 1 .. size : SubSeq(cells, 1, size)[i] = cells[i]
      BY <2>2
    <3>2. PICK s : s = SubSeq(cells, 1, size)
      OBVIOUS
    <3>3. s \in Seq(0 .. spawned)
      <4>1. PICK S : S = 0 .. spawned
        OBVIOUS
      <4>2. cells \in Seq(S)
        BY <2>2, <4>1
      <4>3. Len(cells) \in Nat /\ \A i \in 1 .. Len(cells) : cells[i] \in S
        BY <4>2
      <4>4. 1 \in Int /\ size \in Int /\ \A i \in 1 .. size : cells[i] \in S
        BY <2>2, <4>3
      <4> QED
        BY <3>2, <4>1, <4>2, <4>4, SubSeqProperties
    <3>4. \A i \in 1 .. size : i \in DOMAIN s /\ s[i] = cells[i]
      BY <3>1, <3>2, <3>3
    <3> QED
      BY <3>2, <3>4 DEF ToSet, Stack
  <2>4. \A j \in 1 .. Len(yielded) : yielded[j] \in ToSet(yielded)
    BY <2>2 DEF ToSet
  <2>5. ASSUME NEW x \in expected PROVE x \in ToSet(yielded) \cup Reached(ToSet(Stack))
    <3>1. CASE \E j \in 1 .. Len(yielded) : x = yielded[j]
      BY <2>4, <3>1
    <3>2. CASE \E i \in 1 .. size : x \in Sub(cells[i])
      BY <2>3, <3>2, ReachedIsUnion
    <3> QED
      BY <2>1, <3>1, <3>2 DEF WillVisit
  <2> QED
    BY <2>1, <2>5 DEF WillVisit
<1> QED
  BY <1>1, InvHolds, PTL

-----------------------------------------------------------------------------
(* The map.                                                                *)

LEMMA FragileIs == Inv => (Fragile <=> \E x \in Tree : x \in Lost)
<1> SUFFICES ASSUME Inv PROVE Fragile <=> \E x \in Tree : x \in Lost
  OBVIOUS
<1>1. TypeInv /\ Null \notin live /\ killed \subseteq live /\ Tree \subseteq live
  BY Types, TreeFits DEF Inv, Finite
<1>2. ASSUME NEW x \in Tree, x \in Below(Condemned) PROVE x \in Lost
  <2>1. \A y \in Condemned : y \in live => y \in Lost \/ y \notin Reachable
    BY <1>1, LostIs DEF Condemned
  <2> QED
    BY <1>2, <2>1, OnlyLost
<1>3. ASSUME NEW x \in Tree, x \in Lost PROVE x \in Below(Condemned)
  <2>1. PICK C : C = {y \in live : y \notin Below(Condemned)}
    OBVIOUS
  <2>2. ASSUME NEW y \in C PROVE y \notin killed /\ (parent[y] \in live => parent[y] \in C)
    BY <1>1, <2>1, BelowIs DEF Condemned
  <2>3. \A y \in C : y \notin Below(killed)
    BY <1>1, <2>1, <2>2, BelowApart
  <2> QED
    BY <1>1, <1>3, <2>1, <2>3 DEF Lost
<1> QED
  BY <1>2, <1>3 DEF Fragile

LEMMA FragileIsNext == (Inv => (Fragile <=> \E x \in Tree : x \in Lost))'
BY FragileIs, PTL

(* What is in the map is what is in the tree.                              *)
LEMMA ContentsAre ==
  Inv => /\ \A k \in Keys : \A n \in Tree : heap[n].key = k => Get(k) = heap[n].value
         /\ \A k \in Keys : (\A n \in Tree : heap[n].key # k) => Get(k) = None
<1> SUFFICES ASSUME Inv
             PROVE  /\ \A k \in Keys : \A n \in Tree : heap[n].key = k => Get(k) = heap[n].value
                    /\ \A k \in Keys : (\A n \in Tree : heap[n].key # k) => Get(k) = None
  OBVIOUS
<1>1. Shape /\ Finite /\ Keys \subseteq Int
  BY Types, DictionaryAssumption DEF Inv
<1> QED
  BY <1>1, ContentsFound

LEMMA ContentsAreNext ==
  (Inv => /\ \A k \in Keys : \A n \in Tree : heap[n].key = k => Get(k) = heap[n].value
          /\ \A k \in Keys : (\A n \in Tree : heap[n].key # k) => Get(k) = None)'
BY ContentsAre, PTL

LEMMA ContentsNext == Contents' = [k \in Keys |-> Contents'[k]] /\ \A k \in Keys : Contents'[k] = Get(k)'
BY DEF Contents

(* Keys of the tree differ.                                                *)
LEMMA KeysDiffer ==
  ASSUME Inv
  PROVE  /\ Tree \subseteq live /\ \A n \in live : heap[n].key \in Keys
         /\ \A m, n \in Tree : heap[m].key = heap[n].key => m = n
<1>1. Shape /\ Finite
  BY Types DEF Inv
<1>2. Tree \subseteq live /\ \A n \in live : heap[n].key \in Keys
  BY <1>1, Types, TreeFits DEF Inv
<1>3. \A n \in Tree : Bottom(heap[n].key) = n
  BY <1>1, ContentsFound
<1> QED
  BY <1>2, <1>3

LEMMA KeysDifferNext ==
  (Inv => /\ Tree \subseteq live /\ \A n \in live : heap[n].key \in Keys
          /\ \A m, n \in Tree : heap[m].key = heap[n].key => m = n)'
<1>1. Inv => /\ Tree \subseteq live /\ \A n \in live : heap[n].key \in Keys
             /\ \A m, n \in Tree : heap[m].key = heap[n].key => m = n
  BY KeysDiffer
<1> QED
  BY <1>1, PTL

(* A key whose node stays as it is, or which still has none.               *)
LEMMA SameContents ==
  ASSUME Inv, Inv', NEW k \in Keys,
         \A n \in Tree : heap[n].key = k => n \in Tree' /\ heap'[n].key = k /\ heap'[n].value = heap[n].value,
         (\A n \in Tree : heap[n].key # k) => \A n \in Tree' : heap'[n].key # k
  PROVE  Contents'[k] = Contents[k]
<1>1. Contents[k] = Get(k) /\ Contents'[k] = Get(k)'
  BY DEF Contents
<1>2. CASE \E n \in Tree : heap[n].key = k
  <2>1. PICK n \in Tree : heap[n].key = k
    BY <1>2
  <2>2. n \in Tree' /\ heap'[n].key = k /\ heap'[n].value = heap[n].value
    BY <2>1
  <2>3. Get(k) = heap[n].value
    BY <2>1, ContentsAre
  <2>4. Get(k)' = heap'[n].value
    BY <2>2, ContentsAreNext
  <2> QED
    BY <1>1, <2>2, <2>3, <2>4
<1>3. CASE \A n \in Tree : heap[n].key # k
  <2>1. \A n \in Tree' : heap'[n].key # k
    BY <1>3
  <2>2. Get(k) = None
    BY <1>3, ContentsAre
  <2>3. Get(k)' = None
    BY <2>1, ContentsAreNext
  <2> QED
    BY <1>1, <2>2, <2>3
<1> QED
  BY <1>2, <1>3

LEMMA GoneContents ==
  ASSUME Inv', NEW k \in Keys, \A n \in Tree' : heap'[n].key # k
  PROVE  Contents'[k] = None
<1>1. Get(k)' = None
  BY ContentsAreNext
<1> QED
  BY <1>1, ContentsNext

(* The nodes of the tree stay, and their keys and values.                  *)
LEMMA KeepStep ==
  ASSUME Inv, Inv', Tree' = Tree, \A m \in Tree : heap'[m].key = heap[m].key /\ heap'[m].value = heap[m].value,
         \A x \in Tree : x \in Lost' => x \in Lost
  PROVE  M!Keep
<1>1. \A k \in Keys : Contents'[k] = Contents[k]
  BY SameContents
<1>2. Contents' = Contents
  BY <1>1, ContentsNext DEF Contents
<1>3. Fragile' => Fragile
  BY FragileIs, FragileIsNext
<1> QED
  BY <1>2, <1>3 DEF M!Keep

LEMMA GrowsStep ==
  ASSUME Inv, Inv', NEW k \in Keys, NEW v \in Values, Grows(k, v)
  PROVE  M!Set(k, v)
<1>1. Contents'[k] = v
  <2>1. PICK n \in Tree' : heap'[n].key = k /\ heap'[n].value = v
    BY DEF Grows
  <2>2. Get(k)' = heap'[n].value
    BY <2>1, ContentsAreNext
  <2> QED
    BY <2>1, <2>2, ContentsNext
<1>2. ASSUME NEW j \in Keys, j # k PROVE Contents'[j] = Contents[j]
  <2>1. \A n \in Tree : heap[n].key = j => n \in Tree' /\ heap'[n].key = j /\ heap'[n].value = heap[n].value
    BY <1>2 DEF Grows
  <2>2. (\A n \in Tree : heap[n].key # j) => \A n \in Tree' : heap'[n].key # j
    BY <1>2 DEF Grows
  <2> QED
    BY <2>1, <2>2, SameContents
<1>3. Contents' = [Contents EXCEPT ![k] = v]
  BY <1>1, <1>2, ContentsNext DEF Contents
<1>4. Fragile' => Fragile
  BY FragileIs, FragileIsNext DEF Grows
<1>5. live \subseteq live'
  BY DEF Grows
<1> QED
  BY <1>3, <1>4, <1>5 DEF M!Set

(* A node vanishes, with those that were spawned below it.                 *)
LEMMA VanishStep ==
  ASSUME Inv, NEW n \in live, n \in killed \/ n \notin Reachable, Destroy(n)
  PROVE  M!Keep \/ M!Lose
<1>1. /\ Inv' /\ Tree' \subseteq Tree /\ \A m \in Tree' : heap'[m] = heap[m]
      /\ (\A x \in Tree : x \notin Lost) => Tree' = Tree
      /\ live' \subseteq live /\ live' # live
  <2>1. Tree \cap Lost = {} <=> \A x \in Tree : x \notin Lost
    OBVIOUS
  <2> QED
    BY <2>1, DestroyStep
<1>2. CASE \A x \in Tree : x \notin Lost
  <2>1. Tree' = Tree /\ Tree \subseteq live /\ Tree' \subseteq live'
    <3>1. Tree \subseteq live
      BY KeysDiffer
    <3> QED
      BY <1>1, <1>2, <3>1, KeysDifferNext
  <2>2. \A x \in live' : x \in Lost' => x \in Lost
    <3>1. PICK C : C = live'
      OBVIOUS
    <3>2. /\ killed' \subseteq killed /\ live \subseteq 1 .. spawned /\ live' \subseteq live
          /\ parent' = [m \in 1 .. spawned |-> IF m \in live' THEN parent[m] ELSE Null]
      BY <1>1, Types DEF Destroy, Inv
    <3>3. \A x \in C : /\ parent'[x] = parent[x] /\ (x \in killed' => x \in killed)
                       /\ parent[x] \in live' => parent[x] \in C
      BY <3>1, <3>2
    <3>4. C \in SUBSET live /\ C \subseteq live'
      BY <3>1, <3>2
    <3>5. TypeInv /\ TypeInv'
      BY <1>1 DEF Inv
    <3> QED
      BY <3>1, <3>3, <3>4, <3>5, NotYetLost
  <2>3. \A x \in Tree : x \in Lost' => x \in Lost
    BY <2>1, <2>2
  <2>4. \A m \in Tree : heap'[m].key = heap[m].key /\ heap'[m].value = heap[m].value
    BY <1>1, <2>1
  <2> QED
    BY <1>1, <2>1, <2>3, <2>4, KeepStep
<1>3. CASE \E x \in Tree : x \in Lost
  <2>1. Fragile
    BY <1>3, FragileIs
  <2>2. ASSUME NEW k \in Keys PROVE Contents'[k] \in {Contents[k], None}
    <3>1. CASE \E m \in Tree' : heap'[m].key = k
      <4>1. PICK m \in Tree' : heap'[m].key = k
        BY <3>1
      <4>2. m \in Tree /\ heap[m].key = k
        BY <1>1, <4>1
      <4>3. \A x \in Tree : heap[x].key = k => x = m
        BY <4>2, KeysDiffer
      <4>4. Contents'[k] = Contents[k]
        BY <1>1, <4>1, <4>2, <4>3, SameContents
      <4> QED
        BY <4>4
    <3>2. CASE \A m \in Tree' : heap'[m].key # k
      BY <1>1, <3>2, GoneContents
    <3> QED
      BY <3>1, <3>2
  <2> QED
    BY <1>1, <2>1, <2>2, ContentsNext DEF M!Lose
<1> QED
  BY <1>2, <1>3

LEMMA RemovesStep ==
  ASSUME Inv, Inv', NEW k \in Keys, NEW n \in Tree, heap[n].key = k, Tree' = Tree \ {n},
         \A m \in Tree : heap'[m].key = heap[m].key /\ heap'[m].value = heap[m].value,
         live' = live
  PROVE  M!Delete(k)
<1>1. \A m \in Tree : heap[m].key = k => m = n
  BY KeysDiffer
<1>2. Contents'[k] = None
  <2>1. \A m \in Tree' : heap'[m].key # k
    BY <1>1
  <2> QED
    BY <2>1, GoneContents
<1>3. ASSUME NEW j \in Keys, j # k PROVE Contents'[j] = Contents[j]
  <2>1. \A m \in Tree : heap[m].key = j => m \in Tree' /\ heap'[m].key = j /\ heap'[m].value = heap[m].value
    BY <1>3
  <2>2. (\A m \in Tree : heap[m].key # j) => \A m \in Tree' : heap'[m].key # j
    OBVIOUS
  <2> QED
    BY <1>3, <2>1, <2>2, SameContents
<1>4. Contents' = [Contents EXCEPT ![k] = None]
  BY <1>2, <1>3, ContentsNext DEF Contents
<1> QED
  BY <1>4 DEF M!Delete

LEMMA MapStep ==
  ASSUME Inv, Visits, [Next]_vars
  PROVE  M!Next
<1>1. Inv'
  BY InvStep
<1>2. /\ M!Keep => M!Next
      /\ \A k \in Keys, v \in Values : M!Set(k, v) => M!Next
      /\ \A k \in Keys : M!Delete(k) => M!Next
      /\ M!Clear => M!Next
      /\ M!Lose => M!Next
  BY DEF M!Next
<1>3. ASSUME NEW k \in Keys, NEW v \in Values, Set(k, v) PROVE M!Next
  BY <1>1, <1>2, <1>3, SetStep, GrowsStep
<1>4. ASSUME NEW k \in Keys, Delete(k) PROVE M!Next
  <2>1. \A m \in Tree : heap'[m].key = heap[m].key /\ heap'[m].value = heap[m].value
    BY <1>4, DeleteStep
  <2>2. PICK n \in Tree : heap[n].key = k /\ Tree' = Tree \ {n}
    BY <1>4, DeleteStep
  <2>3. live' = live
    BY <1>4 DEF Delete
  <2>4. M!Delete(k)
    BY <1>1, <2>1, <2>2, <2>3, RemovesStep
  <2> QED
    BY <1>2, <2>4
<1>5. CASE Clear
  <2>1. Tree' = {} /\ live' = live
    BY <1>5, ClearStep DEF Clear
  <2>2. \A k \in Keys : Contents'[k] = None
    BY <1>1, <2>1, GoneContents
  <2>3. Contents' = [k \in Keys |-> None]
    BY <2>2, ContentsNext
  <2>4. ~Fragile'
    BY <1>1, <2>1, FragileIsNext
  <2> QED
    BY <1>2, <2>1, <2>3, <2>4 DEF M!Clear
<1>6. ASSUME NEW n \in live, n \in killed \/ n \notin Reachable, Destroy(n) PROVE M!Next
  BY <1>2, <1>6, VanishStep
<1>7. CASE Frame
  BY <1>6, <1>7, Types DEF Frame, Inv
<1>8. CASE Sweep
  BY <1>6, <1>8 DEF Sweep
<1>9. CASE Iterate \/ ItNext \/ UNCHANGED vars
  <2>1. Tree' = Tree /\ Lost' = Lost /\ heap' = heap
    <3>1. CASE Iterate
      BY <3>1, IterateStep DEF Iterate, treeVars
    <3>2. CASE ItNext
      BY <3>2, ItNextStep DEF ItNext, treeVars
    <3>3. CASE UNCHANGED vars
      <4>1. UNCHANGED treeVars
        BY <3>3 DEF vars
      <4>2. IteratorTypes'
        BY <1>1, TypePartsNext DEF Inv
      <4> QED
        BY <4>1, <4>2, TreeKept DEF treeVars
    <3> QED
      BY <1>9, <3>1, <3>2, <3>3
  <2>2. M!Keep
    BY <1>1, <2>1, KeepStep
  <2> QED
    BY <1>2, <2>2
<1>10. ASSUME NEW v \in Values, SetEntry(v) PROVE M!Next
  <2>1. Tree' = Tree /\ Lost' = Lost
    BY <1>10, SetEntryStep
  <2>2. CASE \A m \in Tree : heap'[m].key = heap[m].key /\ heap'[m].value = heap[m].value
    BY <1>1, <1>2, <2>1, <2>2, KeepStep
  <2>3. CASE \E n \in Tree : Grows(heap[n].key, v)
    <3>1. PICK n \in Tree : Grows(heap[n].key, v)
      BY <2>3
    <3>2. PICK k : k = heap[n].key
      OBVIOUS
    <3>3. k \in Keys
      BY <3>2, KeysDiffer
    <3>4. Grows(k, v)
      BY <3>1, <3>2
    <3> QED
      BY <1>1, <1>2, <3>3, <3>4, GrowsStep
  <2> QED
    BY <1>10, <2>2, <2>3, SetEntryStep
<1> QED
  BY <1>3, <1>4, <1>5, <1>7, <1>8, <1>9, <1>10 DEF Next

(* A dictionary is a map: fun_set() gives the key its value and changes    *)
(* no other, fun_delete() and bst_remove() take away that key alone, and   *)
(* iterating changes nothing.  Entries may be lost only when objects are   *)
(* destroyed while a node of the tree is below one that was killed, and    *)
(* only a deletion brings that about: KeyValueMap is implemented.          *)
THEOREM DictionaryIsMap == Spec => IsMap
<1>1. Init => M!Init
  <2> SUFFICES ASSUME Init PROVE M!Init
    OBVIOUS
  <2>1. root \notin live /\ live = {} /\ Inv
    BY InvAtFirst DEF Init
  <2>2. Tree = {}
    BY <2>1, KeysDiffer
  <2>3. \A k \in Keys : Get(k) = None
    BY <2>1, <2>2, ContentsAre
  <2>4. ~Fragile
    BY <2>1, <2>2, FragileIs
  <2>5. Fragile \in BOOLEAN
    BY DEF Fragile
  <2> QED
    BY <2>1, <2>3, <2>4, <2>5 DEF M!Init, Contents
<1>2. Inv /\ Visits /\ [Next]_vars => [M!Next]_(M!vars)
  BY MapStep
<1> QED
  BY <1>1, <1>2, InvHolds, PTL DEF Spec, IsMap, M!Spec
===============================================================================
