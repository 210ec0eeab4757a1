------------------------------- MODULE MCRegistry -------------------------------
(* Two classes with two programs and two tags each; their signatures       *)
(* collide, at the end of the table and beyond.                            *)
EXTENDS ClassRegistry

MCHash ==
  [s \in {"Object", "A"} \X {"f", "g", "s", "t"} |->
     CASE s[2] = "g" -> 0
       [] s[2] = "f" -> IF s[1] = "A" THEN 31 ELSE 7
       [] OTHER -> IF s[1] = "A" THEN 7 ELSE 15]
MCTagGroup == [t \in {"s", "t"} |-> 0]

(* A bound of the model: the pool is used or the tags are, as no operation *)
(* is about both.                                                          *)
MCNext ==
  \/ PoolNext /\ tagged = {}
  \/ TagNext /\ hash = H!Table(Capacity)

MCSpec == Init /\ [][MCNext]_vars
=================================================================================
