----------------------------- MODULE MCInterpreter -----------------------------
(* Model checking: the compiler and the interpreter run scripts that       *)
(* combine the constructs of the language two by two, and that break its   *)
(* rules one by one.                                                       *)
EXTENDS CompilerCorrectness

MCBuiltinObjects ==
  <<"System", "Application", "String", "Number", "Boolean", "__Temp", "__GC", "__TagSystem",
    "Math", "Time", "Date", "Console", "SurgeScript", "Plugin">>
MCAccessors(class) ==
  CASE class = "Object"      -> <<"parent", "__name", "__active", "__functions", "__children",
                                  "__timespent", "__memspent", "__file", "__childCount", "childCount">>
    [] class = "Application" -> <<"args">>
    [] OTHER                 -> << >>

(* A script with its trees; endless says that its recursion has no end.    *)
Written(classes, flags, endless) ==
  [trees |-> classes, flags |-> flags, endless |-> endless, text |-> ScriptText(classes)]
Plain(classes) == Written(classes, "default", FALSE)

Num(n) == Lit(Number(n))
Str(s) == Lit(String(s))
X == Name("x")
Y == Name("y")
Z == Name("z")
I == Name("i")
Say(e) == Do(Invoke(Name("Console"), "print", <<e>>))
Set(v, e) == Do(Let(v, "=", e))
Main(body) == State("main", body)
Application(fields, main, funs) == Class("Application", fields, <<Main(main)>>, funs)
App(body) == <<Application(<< >>, body, << >>)>>
Call3(f, args) == Do(Invoke(None, f, args))

(* The members of a sequence of sequences, in one sequence.                *)
All(s, F(_)) == [k \in DOMAIN s |-> F(s[k])] \o << >>
Pairs(s, u) == FlattenSeq(All(s, LAMBDA a : All(u, LAMBDA b : <<a, b>>)))

----------------------- (* expressions in expressions *) -----------------------
Numeric == <<Num(7), Num(2), Num(3)>>
Mixed == <<<<Str("a"), Num(1), Lit(Bool(TRUE))>>, <<Lit(Null), Str("2"), Lit(Bool(FALSE))>>>>

(* The expressions are printed by a function of three parameters.          *)
Expressions(values, es) ==
  Plain(<<Application(<< >>, All(values, LAMBDA v : Call3("f", v)),
                      <<Fun("f", <<"x", "y", "z">>, All(es, Say))>>)>>)

Outer == <<"===", ">", "+", "-", "%", "&&", "||">>
Inner == <<"==", "!==", ">=", "<=", "+", "-", "*", "&&", "||", ",">>
TwoOperators == All(Pairs(Outer, Inner), LAMBDA ops :
  Expressions(<<Numeric>> \o Mixed, <<Bin(ops[1], X, Bin(ops[2], Y, Z)), Bin(ops[1], Bin(ops[2], X, Y), Z)>>))

(* An expression inside of each other kind of expression.                  *)
Kinds(e) ==
  <<Un("-", e), Un("!", e), Un("+", e), Un("typeof", e), Cond(e, Num(1), Num(2)), Cond(X, e, Y),
    Cond(X, Y, e), Let("x", "=", e), Let("y", "-=", e), Let("w", "=", e),
    Bin("*", X, e), Bin("||", e, Y), Bin("+", e, Z), ArrayOf(<<X, e>>), At(ArrayOf(<<X, e>>), Num(1)),
    At(ArrayOf(<<Num(1), Num(2)>>), e), Prop(ArrayOf(<<e, e>>), "length"),
    At(DictOf(<<Str("k"), Num(2)>>, <<e, X>>), Str("k")), Invoke(None, "g", <<e, X>>), IncDec("++", "x", TRUE),
    IncDec("--", "z", FALSE)>>
Thirds(es) == All([k \in 1..(Len(es) \div 3) |-> k], LAMBDA k : SubSeq(es, 3 * k - 2, 3 * k))
Nested == FlattenSeq(All(Kinds(X), LAMBDA e : All(Thirds(Kinds(e)), LAMBDA es : Expressions(Mixed, es))))

----------------------- (* statements in statements *) -------------------------
(* Three rounds of a loop, or one of two branches, or of three sections.   *)
Round(kind, v, body) ==
  LET n == Name(v)
      more == Bin("<", n, Num(3))
      next == Let(v, "+=", Num(1))
      counted == Block(<<Do(IncDec("++", v, FALSE))>> \o body)
  IN  CASE kind = "while"   -> Block(<<Set(v, Num(0)), While(more, counted)>>)
        [] kind = "do"      -> Block(<<Set(v, Num(0)), DoWhile(counted, more)>>)
        [] kind = "for"     -> For(Let(v, "=", Num(1)), Bin("<=", n, Num(3)), next, Block(body))
        [] kind = "foreach" -> Foreach(v, ArrayOf(<<Num(1), Num(2), Num(3)>>), Block(body))
        [] kind = "if"      -> If(Bin("!=", X, Num(1)), Block(<<Set(v, Num(2))>> \o body), Say(Str("else")))
        [] kind = "switch"  ->
             Block(<<Set(v, Num(2)),
               Switch(X, <<Case(Num(1), Append(body, Go("break"))), Case(Num(2), << >>),
                           Case(None, <<Say(Str("default")), Go("break")>>),
                           Case(Str("3"), <<Ret(Num(0))>>)>>)>>)

Loops == <<"while", "do", "for", "foreach">>
Rounds == Loops \o <<"if", "switch">>

(* Jumps(s): what is inside of the rounds prints, jumps, and prints again. *)
Jumps(outer, inner, jump) ==
  LET at(v) == If(Bin("==", Name(v), Num(2)), IF jump = "return" THEN Ret(Str("r")) ELSE Go(jump), None)
      innermost == <<Say(I), at("i"), Say(Str("i"))>>
      v == IF outer = "switch" THEN "w" ELSE "x"
  IN  Round(outer, v, <<Round(inner, "i", innermost), Say(X), at("x"), Say(Str("x"))>>)

(* The statements run twice, as the body of a function with a local        *)
(* variable below them.                                                    *)
Twice(stmts) ==
  Plain(<<Application(<< >>, <<Say(Invoke(None, "f", <<Num(5)>>)), Say(Invoke(None, "f", <<Num(6)>>))>>,
            <<Fun("f", <<"y">>, <<Set("x", Num(1)), Set("z", Y)>> \o stmts \o <<Say(Z), Say(Y)>>)>>)>>)

JumpsOf(shape) ==
  LET where == shape[1]
  IN  IF "switch" \in ToSet(where) /\ shape[2] = "continue" THEN << >>
      ELSE <<Twice(<<Jumps(where[1], where[2], shape[2])>>)>>
StatementPairs == FlattenSeq(All(Pairs(Pairs(Append(Loops, "switch"), Rounds), <<"break", "continue", "return">>), JumpsOf))

-------------------- (* calls, objects and collections *) ----------------------
A(f, args) == Invoke(None, f, args)
Counter == Class("Counter",
  <<Field("count", "public", Num(3)), Field("id", "readonly", Bin("+", Str("#"), Name("count"))),
    Field("own", "private", Cond(Name("count"), ArrayOf(<<Num(4)>>), Lit(Null)))>>,
  << >>,
  <<Fun("constructor", << >>, <<Set("count", Bin("+", Name("count"), Num(1))), Say(Str("made"))>>),
    Fun("add", <<"n", "count">>, <<Do(Let("count", "+=", Name("n"))), Ret(Name("count"))>>),
    Fun("get", <<"k">>, <<Ret(Bin("*", Name("k"), Name("count")))>>),
    Fun("set", <<"k", "v">>, <<Say(Name("k")), Set("count", Name("v"))>>),
    Fun("who", << >>, <<Ret(Bin("==", Term("caller"), Name("parent")))>>),
    Fun("own", << >>, <<Ret(Name("own"))>>),
    Fun("call", <<"n">>, <<Ret(Bin("-", Name("count"), Name("n")))>>)>>)

(* Y is an object of that class in the variables of the application.       *)
WithCounter(stmts) ==
  Plain(<<Application(<<Field("y", "private", Invoke(Term("this"), "spawn", <<Str("Counter")>>))>>, stmts, << >>),
          Counter>>)

OnObjects ==
  <<WithCounter(<<Say(Prop(Y, "count")), Say(Prop(Y, "id")), Do(SetProp(Y, "count", "+=", Num(2))),
                  Say(SetProp(Y, "count", "*=", Num(3))), Say(BumpProp(Y, "count", "++")), Say(Prop(Y, "count"))>>),
    WithCounter(<<Say(Invoke(Y, "add", <<Num(1), Num(2)>>)), Say(Invoke(Y, "who", << >>)),
                  Say(Invoke(None, "y", <<Num(1)>>)), Say(Prop(Prop(Y, "parent"), "parent"))>>),
    WithCounter(<<Say(At(Y, Num(2))), Do(SetAt(Y, Num(1), "=", Num(9))), Do(SetAt(Y, Num(2), "-=", Num(4))),
                  Say(BumpAt(Y, Num(1), "--")), Say(At(Y, Num(1)))>>),
    WithCounter(<<Set("z", Invoke(Y, "own", << >>)), Do(Invoke(Z, "push", <<Num(5)>>)),
                  Say(At(Invoke(Y, "own", << >>), Num(1))), Say(Bin("===", Z, Invoke(Y, "own", << >>)))>>),
    WithCounter(<<Set("x", Y), Set("y", Invoke(Term("this"), "spawn", <<Str("Counter")>>)),
                  Do(SetProp(X, "count", "=", Num(8))), Say(Prop(Y, "count")), Say(Bin("==", X, Y)),
                  Say(Bin("!==", X, Term("this")))>>),
    WithCounter(<<Do(SetProp(Y, "id", "=", Num(1)))>>), WithCounter(<<Say(Prop(Y, "own"))>>),
    WithCounter(<<Say(Invoke(Y, "add", <<Num(1)>>))>>), WithCounter(<<Say(Invoke(Y, "gone", << >>))>>)>>

OnCollections ==
  <<App(<<Set("x", ArrayOf(<<Num(1), ArrayOf(<<Num(2), Num(3)>>)>>)), Say(At(At(X, Num(1)), Num(0))),
          Do(SetAt(At(X, Num(1)), Num(2), "=", Str("n"))), Say(Prop(At(X, Num(1)), "length")),
          Say(At(At(X, Num(1)), Num(2))), Say(At(X, Num(7)))>>),
    App(<<Set("x", ArrayOf(<< >>)), Do(SetAt(X, Num(2), "=", Num(6))), Do(SetAt(X, Num(2), "/=", Num(2))),
          Say(SetAt(X, Num(0), "+=", Num(5))), Do(SetAt(X, Num(2), "%=", Num(2))), Say(BumpAt(X, Num(2), "++")),
          Foreach("z", X, Say(Z))>>),
    App(<<Set("x", DictOf(<<Str("a"), Num(1)>>, <<Num(2), DictOf(<<Str("b")>>, <<Str("c")>>)>>)),
          Do(SetAt(X, Str("a"), "*=", Num(4))), Say(At(X, Str("a"))), Say(At(At(X, Num(1)), Str("b"))),
          Say(SetAt(X, Str("q"), "=", Num(1))), Say(BumpAt(X, Str("q"), "--")), Say(At(X, Str("q")))>>),
    App(<<Foreach("x", ArrayOf(<<Num(1), Num(2)>>), Foreach("z", ArrayOf(<<X, Num(5)>>),
            If(Bin("==", Z, Num(2)), Ret(None), Say(Bin("+", X, Z)))))>>),
    App(<<Set("x", Lit(Null)), Say(Prop(X, "length"))>>),
    App(<<Foreach("x", Num(3), Say(X))>>)>>

Factorial == Fun("f", <<"n">>, <<If(Bin("<=", Name("n"), Num(1)), Ret(Num(1)), None),
                Set("m", A("f", <<Bin("-", Name("n"), Num(1))>>)), Ret(Bin("*", Name("n"), Name("m")))>>)
OnCalls ==
  <<Plain(<<Application(<< >>, <<Say(A("f", <<Num(4)>>)), Say(Invoke(Term("this"), "f", <<Str("3")>>))>>, <<Factorial>>)>>),
    Plain(<<Application(<<Field("y", "private", Num(1))>>,
              <<Say(A("f", <<A("f", <<Num(1), Num(2)>>), A("g", << >>)>>)), Say(Y), Say(Term("state")),
                Do(Become(Str("main"))), Do(Become(Str("other"))), Say(Term("state"))>>,
              <<Fun("f", <<"a", "b">>, <<Set("t", Name("a")), Set("a", Name("b")), Set("b", Name("t")), Do(IncDec("++", "y", FALSE)),
                                        Ret(Bin("-", Name("a"), Bin("*", Name("b"), Name("y"))))>>),
                Fun("g", << >>, <<Set("a", Num(3)), Ret(Let("y", "+=", Name("a")))>>)>>)>>),
    Plain(<<Application(<< >>, <<Say(A("f", <<Num(1)>>)), Say(A("f", <<Num(0)>>)), Say(Str("unseen"))>>,
              <<Fun("f", <<"c">>, <<If(Name("c"), Empty, Say(Str("zero"))), Claim(Name("c"))>>)>>)>>),
    Plain(<<Class("Application", << >>, <<Main(<<If(Un("timeout", Num(0)), Say(Str("now")), None),
                                                If(Un("timeout", Num(5)), Say(Str("late")), Say(Str("early")))>>),
                                         State("other", <<Ret(None)>>)>>, << >>)>>),
    Plain(<<Class("Application", << >>, <<Main(<<Say(Become(Str("other"))), Say(Term("state")), Do(Become(Num(1)))>>),
                                         State("other", <<Ret(None)>>)>>, << >>)>>),
    Written(<<Application(<< >>, <<Do(A("f", <<Num(1)>>))>>, <<Fun("f", <<"n">>, <<Ret(A("f", <<Name("n")>>))>>)>>)>>, "default", TRUE)>>

(* Each class twice, with the three ways to treat duplicates.              *)
Bare == Class("Unit", << >>, << >>, <<Fun("f", << >>, <<Ret(Num(0))>>)>>)
Old == Class("Unit", <<Field("v", "public", Num(1))>>, <<Main(<< >>)>>, <<Fun("f", << >>, <<Ret(Str("old"))>>)>>)
New == Class("Unit", <<Field("v", "readonly", Num(2))>>, <<Main(<<Say(Str("m"))>>)>>, <<Fun("g", << >>, <<Ret(Str("new"))>>)>>)
Uses(f) == Application(<<Field("y", "private", Invoke(Term("this"), "spawn", <<Str("Unit")>>))>>,
             <<Say(Prop(Y, "v")), Say(Invoke(Y, f, << >>))>>, << >>)
OnDuplicates ==
  FlattenSeq(All(<<"default", "skip", "allow">>, LAMBDA flags :
    <<Written(<<Old, Uses("f"), New>>, flags, FALSE), Written(<<Old, New, Uses("g")>>, flags, FALSE),
      Written(<<New, Old, Uses("g"), Uses("f")>>, flags, FALSE),
      Written(<<Class("Console", << >>, << >>, << >>), Uses("f"), Old>>, flags, FALSE),
      Written(<<New, Uses("f"), Bare>>, flags, FALSE)>>))

--------------------------- (* broken rules *) ---------------------------------
InMain(body) == Plain(App(body))
InFun(body) == Plain(<<Application(<< >>, <<Say(A("f", <<Num(1), Num(2)>>))>>, <<Fun("f", <<"x", "y">>, body)>>)>>)
Sections2(first, second) == InFun(<<Switch(X, <<Case(Num(1), first), Case(Num(2), second)>>)>>)
OnRules ==
  <<InFun(<<Say(Z)>>), InFun(<<If(X, Set("z", Num(1)), None), Say(Z)>>), InFun(<<Do(IncDec("++", "z", TRUE))>>),
    InFun(<<Do(IncDec("--", "z", FALSE))>>), InFun(<<Say(Let("z", "=", Let("w", "=", Num(1)))), Say(Name("w"))>>),
    InFun(<<Go("break")>>), InFun(<<Go("continue")>>), InFun(<<While(X, Block(<< >>)), Go("break")>>),
    InFun(<<Switch(X, <<Case(Num(1), <<Go("continue")>>)>>)>>), InFun(<<If(X, Go("break"), None)>>),
    InFun(<<While(X, Switch(Y, <<Case(Num(2), <<Go("break")>>)>>)), Go("continue")>>),
    Sections2(<<Say(X)>>, <<Go("break")>>), Sections2(<<Go("break")>>, <<Say(X)>>), Sections2(<<Go("break")>>, << >>),
    Sections2(<< >>, <<Go("break"), Empty>>), Sections2(<<Block(<<Say(X), Go("break")>>)>>, <<Ret(X)>>),
    Sections2(<<If(X, Go("break"), None)>>, <<Ret(X)>>), Sections2(<<If(X, Go("break"), Go("break"))>>, <<Ret(X)>>),
    InFun(<<Switch(X, <<Case(Num(1), <<Go("break")>>), Case(Num(1), <<Go("break")>>)>>)>>),
    InFun(<<Switch(X, <<Case(Num(1), <<Go("break")>>), Case(Str("1"), <<Go("break")>>), Case(Lit(Null), <<Ret(X)>>)>>)>>),
    InFun(<<Switch(X, <<Case(None, <<Go("break")>>), Case(None, <<Go("break")>>)>>)>>),
    InFun(<<Switch(X, <<Case(Un("-", Num(1)), <<Go("break")>>), Case(Num(1), <<Say(Str("one")), Go("break")>>)>>)>>),
    InFun(<<Switch(X, <<Case(None, <<Ret(Str("d"))>>), Case(Num(2), << >>), Case(Num(3), <<Go("break")>>)>>), Say(Z)>>),
    InFun(<<Switch(X, << >>), Ret(Y)>>), InMain(<<Ret(None)>>), InMain(<<Ret(Num(1))>>), InFun(<<Say(Un("timeout", Num(1)))>>),
    InMain(<<Do(A("constructor", << >>))>>), InMain(<<Do(Let("x", "%=", Num(2)))>>), InMain(<<Do(SetProp(Term("this"), "p", "%=", Num(2)))>>),
    InMain(<<Foreach("x", ArrayOf(<<Num(1)>>), Block(<< >>)), Say(X)>>), InMain(<<Foreach("x", X, Block(<< >>))>>),
    InFun(<<For(None, None, None, Go("break")), Say(X), While(Y, Go("break")), Say(Y)>>),
    InMain(<<For(Let("x", "=", Num(0)), None, Let("x", "=", Z), Go("break"))>>),
    InMain(<<Set("System", Num(3)), Say(Un("typeof", Name("System"))), Say(Un("typeof", Name("__Temp")))>>),
    InMain(<<Set("System", Num(3)), Say(Un("typeof", Name("System")))>>),
    Plain(<<Application(<<Field("x", "public", Num(1)), Field("x", "private", Num(2))>>, <<Say(X)>>, << >>)>>),
    Plain(<<Application(<<Field("x", "public", Num(1)), Field("x", "readonly", Num(2))>>, <<Say(X)>>, << >>)>>),
    Plain(<<Application(<<Field("x", "public", Num(1))>>, <<Say(X)>>, <<Fun("set_x", <<"v">>, << >>)>>)>>),
    Plain(<<Application(<<Field("x", "readonly", Num(1))>>, <<Say(SetProp(Term("this"), "x", "=", Num(2)))>>, <<Fun("set_x", <<"v">>, <<Ret(X)>>)>>)>>),
    Plain(<<Application(<<Field("x", "private", Z)>>, <<Say(X)>>, << >>)>>),
    Plain(<<Application(<< >>, << >>, <<Fun("f", <<"x", "x">>, << >>)>>)>>),
    Plain(<<Application(<< >>, << >>, <<Fun("f", << >>, << >>), Fun("f", <<"x">>, << >>)>>)>>),
    Plain(<<Class("Application", << >>, <<Main(<< >>), Main(<< >>)>>, << >>)>>),
    Plain(<<Class("Application", << >>, <<State("other", << >>)>>, << >>)>>)>>

(* An assertion that is true, in a loop.                                   *)
Asserts == All(Loops, LAMBDA loop : Twice(<<Round(loop, "x", <<Say(X), Claim(Bin("<", X, Num(9)))>>)>>))

(* continue leaves a switch that is in a loop.                             *)
LeavesSwitch == All(Loops, LAMBDA loop : Twice(<<Jumps(loop, "switch", "continue")>>))

AllScripts == TwoOperators \o Nested \o StatementPairs \o OnObjects
               \o All(OnCollections, Plain) \o OnCalls \o OnDuplicates \o OnRules

(* Constants whose values TLC computes once.                              *)
MCScripts == LET scripts == AllScripts IN scripts
MCLeavesSwitch == LET scripts == LeavesSwitch IN scripts
MCAsserts == LET scripts == Asserts IN scripts
MCPrograms == LET programs == Output IN programs

(* How high the stack is along the lines that are reached, one by one; the *)
(* lines that are not yet are Undefined.                                   *)
RECURSIVE Flow(_, _, _)
Flow(code, map, reached) ==
  IF reached = {} THEN map
  ELSE LET ip == Min(reached)
           next == IF ip + 1 \in DOMAIN code THEN Follows(code[ip + 1], ip) ELSE {}
           new == {n \in next : map[n] = Undefined}
           used == map[ip] + Growth(code[ip + 1])
       IN  Flow(code, IF new = {} THEN map ELSE [map EXCEPT ![Min(new)] = used, ![Max(new)] = used],
                (reached \ {ip}) \cup new)
MCStackMap(program) ==
  LET code == program.code \o << >>
      map == Flow(code, [[ip \in 0..Len(code) |-> Undefined] EXCEPT ![0] = 0], {0})
  IN  [ip \in {ip \in DOMAIN map : map[ip] # Undefined} |-> map[ip]]
================================================================================
