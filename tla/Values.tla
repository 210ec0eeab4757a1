-------------------------------- MODULE Values --------------------------------
(***************************************************************************)
(* The variables of SurgeScript (runtime/variable.c): tagged values, their *)
(* conversions, their comparison and the type codes that the instructions  *)
(* combine bit by bit.  Numbers are integers here, with the sign of zero   *)
(* and of NaN, which the raw bits and the texts show; fractions and        *)
(* infinities are left out, and so is toString(): an object is written as  *)
(* surgescript_var_to_string() writes it.                                  *)
(***************************************************************************)
EXTENDS Integers, Sequences, TLC, FiniteSetsExt

Float(n, minus) == [type |-> "number", v |-> n, minus |-> minus]

Null       == [type |-> "null",   v |-> 0]
Bool(b)    == [type |-> "bool",   v |-> b]
Number(n)  == Float(n, n < 0)
String(s)  == [type |-> "string", v |-> s]
Handle(h)  == [type |-> "object", v |-> h]
Raw(n)     == [type |-> "raw",    v |-> n]

(* NaN is a number that no program counts up to.                           *)
NotANumber == 1000000
NaN        == Float(NotANumber, FALSE)
IsNaN(x)   == x.v = NotANumber

(* typecode[]: 0 and the letters b, n, s, o, r.                            *)
typecode == [null |-> 0, bool |-> 98, number |-> 110, string |-> 115,
             object |-> 111, raw |-> 114]

(* Combinations of type codes, bit by bit.                                 *)
Bits(code) == {w \in {1, 2, 4, 8, 16, 32, 64} : (code \div w) % 2 = 1}
Xor(x, y) == SumSet((Bits(x) \cup Bits(y)) \ (Bits(x) \cap Bits(y)))
And(x, y) == SumSet(Bits(x) \cap Bits(y))

(* Zero if, and only if, the variable has the given type.                  *)
typecheck(var, type) == Xor(typecode[var.type], typecode[type])

get_bool(var) ==
  CASE var.type = "bool"   -> var.v
    [] var.type = "string" -> var.v # ""
    [] OTHER               -> var.v # 0

(* A string is converted if it spells a number, as the empty one does;     *)
(* the numerals that programs use are small integers.                      *)
Numerals == -99..99
Spelled(s) ==
  CASE s = ""   -> Number(0)
    [] s = "-0" -> Float(0, TRUE)
    [] \E n \in Numerals : ToString(n) = s -> Number(CHOOSE n \in Numerals : ToString(n) = s)
    [] OTHER    -> NaN

get_number(var) ==
  CASE var.type = "number" -> var
    [] var.type = "bool"   -> Number(IF var.v THEN 1 ELSE 0)
    [] var.type = "string" -> Spelled(var.v)
    [] var.type = "null"   -> Number(0)
    [] OTHER               -> NaN

(* printf() shows the sign of zero and of NaN.                             *)
Digits(x) == (IF x.minus THEN "-" ELSE "")
             \o (IF IsNaN(x) THEN "nan" ELSE ToString(IF x.v < 0 THEN -x.v ELSE x.v))

get_string(var) ==
  CASE var.type = "string" -> var.v
    [] var.type = "object" -> "[object]"
    [] var.type = "null"   -> "null"
    [] var.type = "bool"   -> IF var.v THEN "true" ELSE "false"
    [] var.type = "number" -> Digits(var)
    [] var.type = "raw"    -> "<raw>"

(* What the conditional jumps see of the bits of the union: whether there  *)
(* are any, and the sign.  That of minus zero is set.  A string is a       *)
(* pointer, whatever the text it points to.                                *)
rawbits(var) ==
  CASE var.type = "string" -> 1
    [] var.type = "bool"   -> IF var.v THEN 1 ELSE 0
    [] var.type = "number" -> IF var.minus THEN -1 ELSE IF var.v = 0 THEN 0 ELSE 1
    [] OTHER               -> var.v

Sign(x, y) == IF x = y THEN 0 ELSE IF x > y THEN 1 ELSE -1

(* strcmp(): the first character that differs decides; a text is before    *)
(* its continuations.  These are the characters of the scripts, in order.  *)
Ascii == " #-0123456789<>ABCDEFGHIJKLMNOPQRSTUVWXYZ[]abcdefghijklmnopqrstuvwxyz"
Code(s, i) ==
  IF i > Len(s) THEN 0
  ELSE CHOOSE k \in 1..Len(Ascii) : SubSeq(Ascii, k, k) = SubSeq(s, i, i)
strcmp(s, u) ==
  IF s = u THEN 0
  ELSE LET i == Min({i \in 1..Max({Len(s), Len(u)}) : Code(s, i) # Code(u, i)})
       IN  Sign(Code(s, i), Code(u, i))

(* Unordered numbers compare as if they were equal.                        *)
CompareNumbers(x, y) == IF IsNaN(x) \/ IsNaN(y) THEN 0 ELSE Sign(x.v, y.v)

(* What comparisons leave in a register never meets but its like.          *)
compare(a, b) ==
  LET either(type) == type \in {a.type, b.type}
      nonzero(var) == IF rawbits(var) = 0 THEN 0 ELSE 1
  IN  CASE a.type = b.type /\ a.type = "bool"   -> rawbits(a) - rawbits(b)
        [] a.type = b.type /\ a.type = "string" -> strcmp(a.v, b.v)
        [] a.type = b.type /\ a.type = "number" -> CompareNumbers(a, b)
        [] a.type = b.type                      -> Sign(a.v, b.v)
        [] a.type # b.type /\ either("null")    -> nonzero(a) - nonzero(b)
        [] a.type # b.type /\ ~either("null") /\ either("string")
                                                -> strcmp(get_string(a), get_string(b))
        [] a.type # b.type /\ ~either("null") /\ ~either("string") /\ either("number")
                                                -> CompareNumbers(get_number(a), get_number(b))
        [] OTHER -> Sign(IF get_bool(a) THEN 1 ELSE 0, IF get_bool(b) THEN 1 ELSE 0)

(* Arithmetic in IEEE-754.  An operand that is NaN is the result.  Nothing *)
(* is known of the sign of zero but what the operands say, and of fmod()   *)
(* that it takes the sign of the dividend.  The divisions of the scripts   *)
(* come out even; 0 / 0 and x % 0 make a NaN, with the sign of x86.        *)
Negated(x) == Float(IF IsNaN(x) THEN x.v ELSE -x.v, ~x.minus)
Magnitude(n) == IF n < 0 THEN -n ELSE n

Arith(op, a, b) ==
  LET x == get_number(a)
      y == get_number(b)
      made(n, minusZero) == Float(n, n < 0 \/ (n = 0 /\ minusZero))
      even == CHOOSE q \in -Magnitude(x.v)..Magnitude(x.v) : q * y.v = x.v
      rest == Magnitude(x.v) % Magnitude(y.v)
  IN  CASE IsNaN(x) -> x
        [] ~IsNaN(x) /\ IsNaN(y) -> y
        [] ~IsNaN(x) /\ ~IsNaN(y) -> CASE
           y.v = 0 /\ (op = "%" \/ (op = "/" /\ x.v = 0)) -> Float(NotANumber, TRUE)
        [] op = "+" -> made(x.v + y.v, x.minus /\ y.minus)
        [] op = "-" -> made(x.v - y.v, x.minus /\ ~y.minus)
        [] op = "*" -> made(x.v * y.v, x.minus # y.minus)
        [] op = "/" /\ y.v # 0 -> made(even, x.minus # y.minus)
        [] op = "%" /\ y.v # 0 -> made(IF x.minus THEN -rest ELSE rest, x.minus)
===============================================================================
