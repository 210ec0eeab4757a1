------------------------------ MODULE ScriptSyntax ------------------------------
(***************************************************************************)
(* Scripts as trees: what a programmer has in mind.  A tree is written as  *)
(* the text that the lexer reads, with no more parentheses than precedence *)
(* and associativity call for, and the rules of the language say whether   *)
(* it is to be accepted.  Nothing here depends on how it is compiled.      *)
(***************************************************************************)
EXTENDS Integers, Sequences, SequencesExt, FiniteSets, Lexer

----------------------------- (* expressions *) --------------------------------
None == [k |-> "none"]
Lit(v) == [k |-> "lit", v |-> v]               \* a tagged value
Name(x) == [k |-> "name", x |-> x]
Term(w) == [k |-> w]                           \* this, caller, state
Let(x, op, e) == [k |-> "let", x |-> x, op |-> op, e |-> e]
Become(e) == [k |-> "setstate", e |-> e]
Cond(a, b, c) == [k |-> "cond", a |-> a, b |-> b, c |-> c]
Bin(op, a, b) == [k |-> "bin", op |-> op, a |-> a, b |-> b]
Un(op, a) == [k |-> "un", op |-> op, a |-> a]   \* + - ! typeof timeout
IncDec(op, x, pre) == [k |-> "bump", op |-> op, x |-> x, pre |-> pre]
Invoke(o, f, args) == [k |-> "call", o |-> o, f |-> f, args |-> args]
Prop(o, p) == [k |-> "prop", o |-> o, p |-> p]
SetProp(o, p, op, e) == [k |-> "setprop", o |-> o, p |-> p, op |-> op, e |-> e]
BumpProp(o, p, op) == [k |-> "bumpprop", o |-> o, p |-> p, op |-> op]
At(o, i) == [k |-> "at", o |-> o, i |-> i]
SetAt(o, i, op, e) == [k |-> "setat", o |-> o, i |-> i, op |-> op, e |-> e]
BumpAt(o, i, op) == [k |-> "bumpat", o |-> o, i |-> i, op |-> op]
ArrayOf(elements) == [k |-> "array", e |-> elements]
DictOf(keys, values) == [k |-> "dict", keys |-> [i \in DOMAIN keys |-> keys[i].v], e |-> values]

------------------------------ (* statements *) --------------------------------
Do(e) == [k |-> "expr", e |-> e]
Block(body) == [k |-> "block", body |-> body]
If(e, yes, no) == [k |-> "if", e |-> e, yes |-> yes, no |-> no]
While(e, body) == [k |-> "while", e |-> e, body |-> body]
DoWhile(body, e) == [k |-> "do", e |-> e, body |-> body]
For(init, e, next, body) == [k |-> "for", init |-> init, e |-> e, next |-> next, body |-> body]
Foreach(x, e, body) == [k |-> "foreach", x |-> x, e |-> e, body |-> body]
Case(v, body) == [v |-> v, body |-> body]       \* v is None for the default
Switch(e, sections) == [k |-> "switch", e |-> e, sections |-> sections]
Go(jump) == [k |-> jump]                        \* break, continue
Ret(e) == [k |-> "return", e |-> e]
Claim(e)  == [k |-> "assert", e |-> e]
Empty == [k |-> "empty"]

-------------------------------- (* classes *) ---------------------------------
Field(x, kind, e) == [x |-> x, kind |-> kind, e |-> e]  \* "private", "public", "readonly"
State(name, body) == [name |-> name, body |-> body]
Fun(name, params, body) == [name |-> name, params |-> params, body |-> body]
Class(name, fields, states, funs) ==
  [name |-> name, fields |-> fields, states |-> states, funs |-> funs]

-------------------------------- (* the text *) --------------------------------
(* Precedence, from the comma (0) to what needs no parentheses (12).       *)
Precedence(e) ==
  CASE e.k \in {"let", "setstate", "setprop", "setat"} -> 1
    [] e.k = "cond" -> 2
    [] e.k = "bin"  -> (CASE e.op = ","  -> 0
                         [] e.op = "||" -> 3
                         [] e.op = "&&" -> 4
                         [] e.op \in {"==", "!=", "===", "!=="} -> 5
                         [] e.op \in {"<", ">", "<=", ">="}     -> 6
                         [] e.op \in {"+", "-"}                 -> 7
                         [] e.op \in {"*", "/", "%"}            -> 8)
    [] e.k = "un" \/ (e.k = "bump" /\ e.pre)      -> 9
    [] e.k \in {"bump", "bumpprop", "bumpat"}     -> 10
    [] e.k \in {"call", "prop", "at"}             -> 11
    [] OTHER                                      -> 12

Words(ws) == [i \in DOMAIN ws |-> Word(ws[i])]
W(w) == <<Word(w)>>
Separated(texts) == FlattenSeq([i \in DOMAIN texts |->
                      texts[i] \o (IF i < Len(texts) THEN W(",") ELSE << >>)])

LiteralText(v) ==
  CASE v.type = "number" -> <<NumberLiteral(v.v)>>
    [] v.type = "string" -> <<StringLiteral(v.v)>>
    [] v.type = "bool"   -> IF v.v THEN W("true") ELSE W("false")
    [] v.type = "null"   -> W("null")

RECURSIVE Text(_, _), ArgumentsText(_)

Texts(es) == Separated([i \in DOMAIN es |-> Text(es[i], 1)])

ArgumentsText(args) == W("(") \o Texts(args) \o W(")")

Text(e, least) ==
  LET p == Precedence(e)
      dotted == Text(e.o, 11) \o W(".") \o W(e.p)
      indexed == Text(e.o, 11) \o W("[") \o Text(e.i, 0) \o W("]")
      text ==
        CASE e.k = "lit"      -> LiteralText(e.v)
          [] e.k = "name"     -> W(e.x)
          [] e.k = "let"      -> W(e.x) \o W(e.op) \o Text(e.e, 1)
          [] e.k = "setstate" -> Words(<<"state", "=">>) \o Text(e.e, 1)
          [] e.k = "cond"     -> Text(e.a, 3) \o W("?") \o Text(e.b, 0) \o W(":") \o Text(e.c, 2)
          [] e.k = "bin"      -> Text(e.a, IF e.op = "," THEN 1 ELSE p) \o W(e.op)
                                   \o Text(e.b, IF e.op = "," THEN 0 ELSE p + 1)
          [] e.k = "un" /\ e.op \in {"typeof", "timeout"} -> W(e.op) \o W("(") \o Text(e.a, 1) \o W(")")
          [] e.k = "un" /\ e.op \notin {"typeof", "timeout"} -> W(e.op) \o Text(e.a, 9)
          [] e.k = "bump"     -> IF e.pre THEN W(e.op) \o W(e.x) ELSE W(e.x) \o W(e.op)
          [] e.k = "call"     -> (IF e.o = None THEN << >> ELSE Text(e.o, 11) \o W("."))
                                   \o W(e.f) \o ArgumentsText(e.args)
          [] e.k = "prop"     -> dotted
          [] e.k = "setprop"  -> dotted \o W(e.op) \o Text(e.e, 1)
          [] e.k = "bumpprop" -> dotted \o W(e.op)
          [] e.k = "at"       -> indexed
          [] e.k = "setat"    -> indexed \o W(e.op) \o Text(e.e, 1)
          [] e.k = "bumpat"   -> indexed \o W(e.op)
          [] e.k = "array"    -> W("[") \o Texts(e.e) \o W("]")
          [] e.k = "dict"     -> W("{") \o Separated([i \in DOMAIN e.keys |->
                                   LiteralText(e.keys[i]) \o W(":") \o Text(e.e[i], 1)]) \o W("}")
          [] OTHER            -> W(e.k)
  IN  IF p < least THEN W("(") \o text \o W(")") ELSE text

RECURSIVE StmtText(_)
BodyText(body) == FlattenSeq([i \in DOMAIN body |-> StmtText(body[i])])
Condition(e) == W("(") \o Text(e, 0) \o W(")")
IfAny(e) == IF e = None THEN << >> ELSE Text(e, 0)
SectionText(section) ==
  (IF section.v = None THEN W("default")
   ELSE W("case") \o (IF section.v.k = "lit" THEN LiteralText(section.v.v) ELSE Text(section.v, 9)))
    \o W(":") \o BodyText(section.body)

StmtText(s) ==
  CASE s.k = "expr"    -> Text(s.e, 0) \o W(";")
    [] s.k = "block"   -> W("{") \o BodyText(s.body) \o W("}")
    [] s.k = "if"      -> W("if") \o Condition(s.e) \o StmtText(s.yes)
                            \o (IF s.no = None THEN << >> ELSE W("else") \o StmtText(s.no))
    [] s.k = "while"   -> W("while") \o Condition(s.e) \o StmtText(s.body)
    [] s.k = "do"      -> W("do") \o StmtText(s.body) \o W("while") \o Condition(s.e) \o W(";")
    [] s.k = "for"     -> Words(<<"for", "(">>) \o IfAny(s.init) \o W(";") \o IfAny(s.e) \o W(";")
                            \o IfAny(s.next) \o W(")") \o StmtText(s.body)
    [] s.k = "foreach" -> Words(<<"foreach", "(", s.x, "in">>) \o Text(s.e, 0) \o W(")")
                            \o StmtText(s.body)
    [] s.k = "switch"  -> W("switch") \o Condition(s.e) \o W("{")
                            \o FlattenSeq([i \in DOMAIN s.sections |-> SectionText(s.sections[i])]) \o W("}")
    [] s.k = "return"  -> W("return") \o IfAny(s.e) \o W(";")
    [] s.k = "assert"  -> Words(<<"assert", "(">>) \o Text(s.e, 1) \o Words(<<")", ";">>)
    [] s.k = "empty"   -> W(";")
    [] OTHER           -> W(s.k) \o W(";")

Braced(body) == W("{") \o BodyText(body) \o W("}")
FieldText(f) ==
  (CASE f.kind = "private" -> << >> [] f.kind = "public" -> W("public")
     [] f.kind = "readonly" -> Words(<<"public", "readonly">>))
    \o W(f.x) \o W("=") \o Text(f.e, 2) \o W(";")

ClassText(class) ==
  W("object") \o <<StringLiteral(class.name)>> \o W("{")
    \o FlattenSeq([i \in DOMAIN class.fields |-> FieldText(class.fields[i])])
    \o FlattenSeq([i \in DOMAIN class.states |->
         W("state") \o <<StringLiteral(class.states[i].name)>> \o Braced(class.states[i].body)])
    \o FlattenSeq([i \in DOMAIN class.funs |->
         Words(<<"fun", class.funs[i].name, "(">>)
           \o Separated([j \in DOMAIN class.funs[i].params |-> W(class.funs[i].params[j])])
           \o W(")") \o Braced(class.funs[i].body)])
    \o W("}")

ScriptText(classes) == FlattenSeq([i \in DOMAIN classes |-> ClassText(classes[i])])

-------------------------------- (* the rules *) -------------------------------
(* The names that are known after an expression or a statement, with the   *)
(* mark of an error if a rule is broken.  A name is known from its first   *)
(* assignment on, whether or not it is executed.                           *)
Broken == "?"
Known(x, names) == IF x \in names THEN names ELSE names \cup {Broken}
Require(ok, names) == IF ok THEN names ELSE names \cup {Broken}

RECURSIVE After(_, _, _)
AfterAll(es, names, where) == FoldLeft(LAMBDA known, e : After(e, known, where), names, es)

(* A section of a switch leaves it, or it is empty and falls through to    *)
(* another one.                                                            *)
RECURSIVE Leaves(_)
Leaves(body) ==
  LET stmts == SelectSeq(body, LAMBDA s : s.k # "empty")
  IN  stmts # << >> /\ (Last(stmts).k \in {"break", "return"}
                          \/ (Last(stmts).k = "block" /\ Leaves(Last(stmts).body)))

SameConstant(c, d) == c.k = d.k /\ CASE c.k = "lit"  -> c.v.type = d.v.type /\ c.v.v = d.v.v
                                      [] c.k = "un"   -> c.op = d.op /\ c.a.v.v = d.a.v.v
                                      [] c.k = "none" -> TRUE

SectionsAllowed(sections) ==
  /\ \A i, j \in DOMAIN sections : SameConstant(sections[i].v, sections[j].v) => i = j
  /\ \A i \in DOMAIN sections :
       Leaves(sections[i].body) \/ (sections[i].body = << >> /\ i < Len(sections))

(* where: whether it is in a loop, in a switch, and in a state.            *)
After(s, names, where) ==
  LET loop == [where EXCEPT !.loop = TRUE]
  IN  CASE s.k = "name"     -> Known(s.x, names)
        [] s.k = "let"      -> Require(s.op # "%=", After(s.e, names, where) \cup {s.x})
        [] s.k = "cond"     -> AfterAll(<<s.a, s.b, s.c>>, names, where)
        [] s.k = "bin"      -> AfterAll(<<s.a, s.b>>, names, where)
        [] s.k = "un"       -> Require(s.op = "timeout" => where.state, After(s.a, names, where))
        [] s.k = "bump"     -> Known(s.x, names)
        [] s.k = "call"     -> Require(s.f \notin {"constructor", "destructor"},
                                       AfterAll(<<s.o>> \o s.args, names, where))
        [] s.k = "setprop"  -> Require(s.op # "%=", AfterAll(<<s.o, s.e>>, names, where))
        [] s.k \in {"prop", "bumpprop"} -> After(s.o, names, where)
        [] s.k \in {"at", "bumpat"}     -> AfterAll(<<s.o, s.i>>, names, where)
        [] s.k = "setat"    -> AfterAll(<<s.o, s.i, s.e>>, names, where)
        [] s.k \in {"array", "dict"} -> AfterAll(s.e, names, where)
        [] s.k \in {"expr", "setstate", "assert"} -> After(s.e, names, where)
        [] s.k = "block"    -> AfterAll(s.body, names, where)
        [] s.k = "if"       -> AfterAll(<<s.e, s.yes, s.no>>, names, where)
        [] s.k \in {"while", "do"} ->
             LET head == IF s.k = "while" THEN After(s.e, names, where) ELSE names
                 body == After(s.body, head, loop)
             IN  IF s.k = "while" THEN body ELSE After(s.e, body, where)
        [] s.k = "for"      -> After(s.body, AfterAll(<<s.init, s.e, s.next>>, names, where), loop)
        [] s.k = "foreach"  -> After(s.body, After(s.e, names, where) \cup {s.x}, loop)
        [] s.k = "switch"   ->
             LET inner == [where EXCEPT !.switch = TRUE]
             IN  Require(SectionsAllowed(s.sections),
                   FoldLeft(LAMBDA known, section : AfterAll(section.body, known, inner),
                            After(s.e, names, where), s.sections))
        [] s.k = "break"    -> Require(where.loop \/ where.switch, names)
        [] s.k = "continue" -> Require(where.loop, names)
        [] s.k = "return"   -> Require(s.e = None \/ ~where.state, After(s.e, names, where))
        [] OTHER            -> names

Outside == [loop |-> FALSE, switch |-> FALSE, state |-> FALSE]
Distinct(s) == IsInjective(s)

(* The functions that an object has without writing them.                  *)
AccessorsOf(f) == CASE f.kind = "private"  -> << >>
                    [] f.kind = "readonly" -> <<"get_" \o f.x>>
                    [] f.kind = "public"   -> <<"get_" \o f.x, "set_" \o f.x>>

ClassAllowed(class, predefined) ==
  LET fields == FoldLeft(LAMBDA known, f : After(f.e, known, Outside) \cup {f.x}, predefined, class.fields)
      funs == FlattenSeq([i \in DOMAIN class.fields |-> AccessorsOf(class.fields[i])])
                \o [i \in DOMAIN class.funs |-> class.funs[i].name]
  IN  /\ Broken \notin fields
      /\ Distinct(funs)
      /\ Distinct([i \in DOMAIN class.states |-> class.states[i].name])
      /\ \A s \in ToSet(class.states) :
           Broken \notin AfterAll(s.body, fields, [Outside EXCEPT !.state = TRUE])
      /\ \A f \in ToSet(class.funs) :
           Distinct(f.params) /\ Broken \notin AfterAll(f.body, fields \cup ToSet(f.params), Outside)
      /\ class.name = "Application" => \E s \in ToSet(class.states) : s.name = "main"

(* flags: what is to be done when a class is written twice.                *)
Allowed(classes, flags, predefined, builtin) ==
  /\ \A i \in DOMAIN classes : ClassAllowed(classes[i], predefined)
  /\ \A i, j \in DOMAIN classes :
       classes[i].name = classes[j].name =>
         i = j \/ flags = "skip" \/ (flags = "allow" /\ classes[i].name \notin builtin)
  /\ \A class \in ToSet(classes) : class.name \in builtin \ {"Application"} => flags = "skip"
================================================================================
