--------------------------------- MODULE List ---------------------------------
(***************************************************************************)
(* What an array promises: a list of values and, of each call, the result. *)
(* Elements that were never set are null.  While the array is rearranged   *)
(* two elements trade places at a time.                                    *)
(***************************************************************************)
EXTENDS Integers, Sequences, SequencesExt

CONSTANTS
  Elements,  \* the values that are stored
  Null, 
  This       \* the array itself, as a result

VARIABLES list, result

vars == <<list, result>>

Init == list = << >> /\ result = Null

Returns(x) == result' = x

(* Indices start at 0.                                                     *)
Get(i) == UNCHANGED list /\ Returns(IF i \in 0 .. Len(list) - 1 THEN list[i + 1] ELSE Null)

Length == UNCHANGED list /\ Returns(Len(list))

(* The first index of v, -1 if there is none.                              *)
IndexOf(v) ==
  /\ UNCHANGED list
  /\ \E i \in -1 .. Len(list) - 1 :
       /\ IF i = -1 THEN v \notin ToSet(list) ELSE list[i + 1] = v
       /\ \A j \in 1 .. i : list[j] # v
       /\ Returns(i)

(* Setting beyond the end fills the gap with nulls.                        *)
Set(i, v) ==
  /\ list' = [j \in 1 .. (IF i < Len(list) THEN Len(list) ELSE i + 1) |->
                IF j = i + 1 THEN v ELSE IF j <= Len(list) THEN list[j] ELSE Null]
  /\ Returns(Null)

Push(v)    == list' = Append(list, v) /\ Returns(Null)
Unshift(v) == list' = <<v>> \o list /\ Returns(Null)
Pop        == list # << >> /\ list' = Front(list) /\ Returns(Last(list))
Shift      == list # << >> /\ list' = Tail(list) /\ Returns(Head(list))
Nothing    == UNCHANGED list /\ Returns(Null)
Clear      == list' = << >> /\ Returns(Null)
Reversed   == list' = Reverse(list) /\ Returns(This)

Exchange(i, j) ==
  /\ list' = [list EXCEPT ![i] = list[j], ![j] = list[i]]
  /\ UNCHANGED result

Rearranged == UNCHANGED list /\ Returns(This)

Next ==
  \/ \E i \in 0 .. Len(list) + 1 : Get(i)
  \/ Length
  \/ \E v \in Elements \cup {Null} : IndexOf(v) \/ Push(v) \/ Unshift(v)
  \/ \E i \in 0 .. Len(list') - 1, v \in Elements \cup {Null} : Set(i, v)
  \/ Pop \/ Shift \/ Nothing \/ Clear \/ Reversed \/ Rearranged
  \/ \E i, j \in DOMAIN list : Exchange(i, j)

Spec == Init /\ [][Next]_vars
===============================================================================
