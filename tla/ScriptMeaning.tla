----------------------------- MODULE ScriptMeaning -----------------------------
(***************************************************************************)
(* What a script means: its trees are evaluated as the language describes  *)
(* them, with neither code, nor stack, nor registers.  A machine m has the *)
(* value of the last expression (v), the local variables (env), the object *)
(* that runs (self) and the one that called it (caller), the objects, the  *)
(* printed text (log), and why the evaluation goes no further (jump):      *)
(* "break", "continue", "return", or "crash" after a run-time error.       *)
(***************************************************************************)
EXTENDS ScriptSyntax, Values

CONSTANTS
  Classes,        \* the trees of a script
  Flags,          \* "default", "skip" or "allow": what to do with duplicates
  BuiltinObjects  \* the sequence of the names of the built-in objects

(* The tree that a class is known by: the first one, or the last one.      *)
Defined(name) == {i \in DOMAIN Classes : Classes[i].name = name}
ClassOf(name) ==
  Classes[CHOOSE i \in Defined(name) :
            \A j \in Defined(name) : IF Flags = "allow" THEN j <= i ELSE i <= j]
IsScript(name) == Defined(name) # {} /\ name \notin ToSet(BuiltinObjects) \ {"Application"}

FieldsOf(name) == IF IsScript(name) THEN {f.x : f \in ToSet(ClassOf(name).fields)} ELSE {}
Named(things, name) == LET i == CHOOSE i \in DOMAIN things : things[i].name = name IN things[i]
HasState(name, state) == IsScript(name) /\ \E s \in ToSet(ClassOf(name).states) : s.name = state
HasFun(name, fun) == IsScript(name) /\ \E f \in ToSet(ClassOf(name).funs) : f.name = fun

Thing(class, parent, data) ==
  [class |-> class, parent |-> parent, state |-> "main", fields |-> << >>, data |-> data]
Start == [v |-> Null, env |-> << >>, self |-> 0, caller |-> 0, jump |-> "none", log |-> << >>,
          objs |-> [h \in DOMAIN BuiltinObjects |-> Thing(BuiltinObjects[h], 1, << >>)]]

Is(m, v) == [m EXCEPT !.v = v]
Crash(m) == [m EXCEPT !.jump = "crash"]
BuiltinHandle(name) == CHOOSE h \in DOMAIN BuiltinObjects : BuiltinObjects[h] = name
HandleFor(v) ==
  CASE v.type = "object" -> v.v
    [] v.type = "number" -> BuiltinHandle("Number")
    [] v.type = "string" -> BuiltinHandle("String")
    [] v.type = "bool"   -> BuiltinHandle("Boolean")
    [] OTHER             -> 0

---------------------------- (* names and operators *) -------------------------
(* Parameters hide the variables of the object, which hide what is built   *)
(* in; any other name is a local variable, null before it is assigned.     *)
Read(m, x) ==
  LET object == m.objs[m.self]
  IN  CASE x \in DOMAIN m.env -> m.env[x]
        [] x \notin DOMAIN m.env /\ x \in FieldsOf(object.class) -> object.fields[x]
        [] x \notin DOMAIN m.env \cup FieldsOf(object.class) /\ x = "parent" -> Handle(object.parent)
        [] x \notin DOMAIN m.env \cup FieldsOf(object.class) /\ x \in ToSet(BuiltinObjects) ->
             Handle(BuiltinHandle(x))
        [] OTHER -> Null

Write(m, x) ==
  CASE x \in DOMAIN m.env -> [m EXCEPT !.env[x] = m.v]
    [] x \notin DOMAIN m.env /\ x \in FieldsOf(m.objs[m.self].class) ->
         [m EXCEPT !.objs[m.self].fields = (x :> m.v) @@ @]
    [] x \notin DOMAIN m.env \cup FieldsOf(m.objs[m.self].class) /\ x \in ToSet(BuiltinObjects) -> m
    [] OTHER -> [m EXCEPT !.env = (x :> m.v) @@ @]

(* A condition holds of what has bits: of minus zero and of an empty text  *)
(* too, which the operator ! takes for false.                              *)
Holds(v) == rawbits(v) # 0

Equal(a, b) == compare(a, b) = 0

(* When both are NaN, a sum or a product has the sign of the second.       *)
Operate(op, a, b) ==
  CASE op = "+" /\ "string" \in {a.type, b.type} -> String(get_string(a) \o get_string(b))
    [] op = "+" /\ "string" \notin {a.type, b.type} -> Arith("+", b, a)
    [] op = "*" -> Arith(op, b, a)
    [] op \in {"-", "/", "%"} -> Arith(op, a, b)
    [] op = "=="  -> Bool(Equal(a, b))
    [] op = "!="  -> Bool(~Equal(a, b))
    [] op = "===" -> Bool(a.type = b.type /\ Equal(a, b))
    [] op = "!==" -> Bool(~(a.type = b.type /\ Equal(a, b)))
    [] op = "<"   -> Bool(compare(a, b) < 0)
    [] op = ">"   -> Bool(compare(a, b) > 0)
    [] op = "<="  -> Bool(compare(a, b) <= 0)
    [] op = ">="  -> Bool(compare(a, b) >= 0)

(* An assignment operator with its old and its given value.                *)
Assigned(op, old, new) ==
  CASE op = "="  -> new
    [] op = "+=" -> Operate("+", old, new)
    [] op = "-=" -> Operate("-", old, new)
    [] op = "*=" -> Operate("*", old, new)
    [] op = "/=" -> Operate("/", old, new)
    [] op = "%=" -> Operate("%", old, new)

Stepped(op, v) == Arith(IF op = "++" THEN "+" ELSE "-", v, Number(1))

Unary(op, v) ==
  CASE op = "-" -> Negated(get_number(v))
    [] op = "+" -> v
    [] op = "!" -> Bool(~get_bool(v))
    [] op = "typeof"  -> String(IF v.type = "bool" THEN "boolean" ELSE v.type)
    [] op = "timeout" -> Bool(get_number(v).v <= 0)

---------------------------- (* functions in C *) ------------------------------
Spawn(m, class, h, data) ==
  [m EXCEPT !.objs = Append(@, Thing(class, h, data)), !.v = Handle(Len(m.objs) + 1)]

Padded(data, n) == data \o [i \in 1..(n - Len(data)) |-> Null]

(* A function that the class has in C, or that all objects have; m crashes *)
(* if there is none with that name and that many arguments.                *)
Foreign(m, h, f, args) ==
  LET class == m.objs[h].class
      data == m.objs[h].data
      a == args[1]
      i == get_number(a).v
      Put(d) == Is([m EXCEPT !.objs[h].data = d], Null)
      is(name, arity, owner) == f = name /\ Len(args) = arity /\ class = owner
  IN  CASE is("print", 1, "Console")   -> Is([m EXCEPT !.log = Append(@, get_string(a))], Null)
        [] is("push", 1, "Array")      -> Put(Append(data, a))
        [] is("get_length", 0, "Array") -> Is(m, Number(Len(data)))
        [] is("get", 1, "Array")       -> Is(m, IF i \in 0..Len(data) - 1 THEN data[i + 1] ELSE Null)
        [] is("set", 2, "Array")       -> IF i < 0 THEN Crash(m)
                                          ELSE Put([Padded(data, i + 1) EXCEPT ![i + 1] = args[2]])
        [] is("get", 1, "Dictionary")  ->
             Is(m, IF get_string(a) \in DOMAIN data THEN data[get_string(a)] ELSE Null)
        [] is("set", 2, "Dictionary")  -> Put((get_string(a) :> args[2]) @@ data)
        [] f = "get_parent" /\ args = << >> -> Is(m, Handle(m.objs[h].parent))
        [] OTHER                       -> Crash(m)

--------------------------- (* expressions *) ----------------------------------
RECURSIVE Eval(_, _), EvalAll(_, _, _), Send(_, _, _, _), Exec(_, _), ExecAll(_, _),
          Repeat(_, _, _, _), Visit(_, _, _, _, _)

(* The values of some expressions, one after another.                      *)
EvalAll(es, m, values) ==
  IF es = << >> THEN [m |-> m, values |-> values]
  ELSE LET r == Eval(Head(es), m) IN EvalAll(Tail(es), r, Append(values, r.v))

(* A change of place o.f or o[i]: get, compute, set.                       *)
Change(m, o, get, set, keys, op, given) ==
  LET got == Send(m, o, get, keys)
      v == Assigned(op, got.v, given)
  IN  IF op = "=" THEN Is(Send(m, o, set, Append(keys, given)), given)
      ELSE Is(Send(got, o, set, Append(keys, v)), v)

ChangeByOne(m, o, get, set, keys, op) ==
  LET got == Send(m, o, get, keys)
  IN  Is(Send(got, o, set, Append(keys, Stepped(op, got.v))), get_number(got.v))

Eval(e, m) ==
  LET a == Eval(e.a, m)
      all(es) == EvalAll(es, m, << >>)
  IN  CASE m.jump = "crash" \/ e = None -> m
        [] m.jump # "crash" /\ e # None -> CASE
           e.k = "lit"      -> Is(m, e.v)
        [] e.k = "this"     -> Is(m, Handle(m.self))
        [] e.k = "caller"   -> Is(m, Handle(m.caller))
        [] e.k = "state"    -> Is(m, String(m.objs[m.self].state))
        [] e.k = "name"     -> Is(m, Read(m, e.x))
        [] e.k = "let"      -> LET r == Eval(e.e, m)
                               IN  Write(Is(r, Assigned(e.op, Read(r, e.x), r.v)), e.x)
        [] e.k = "setstate" -> LET r == Eval(e.e, m)
                                   state == get_string(r.v)
                                   me == r.objs[m.self]
                               IN  IF state = me.state \/ HasState(me.class, state)
                                   THEN [r EXCEPT !.objs[m.self].state = state] ELSE Crash(r)
        [] e.k = "cond"     -> IF Holds(a.v) THEN Eval(e.b, a) ELSE Eval(e.c, a)
        [] e.k = "bin"      ->
             LET b == Eval(e.b, a)
             IN  (CASE e.op = ","  -> b
                   [] e.op = "&&" -> IF Holds(a.v) THEN b ELSE a
                   [] e.op = "||" -> IF Holds(a.v) THEN a ELSE b
                   [] OTHER       -> IF b.jump = "crash" THEN b ELSE Is(b, Operate(e.op, a.v, b.v)))
        [] e.k = "un"       -> IF a.jump = "crash" THEN a ELSE Is(a, Unary(e.op, a.v))
        [] e.k = "bump"     -> LET old == Read(m, e.x)
                                   new == Write(Is(m, Stepped(e.op, old)), e.x)
                               IN  IF e.pre THEN new ELSE Is(new, old)
        [] e.k = "call" /\ e.o = None -> LET r == all(e.args)
                               IN  IF e.f \in DOMAIN m.env \cup FieldsOf(m.objs[m.self].class)
                                   THEN Send(r.m, Read(r.m, e.f), "call", r.values)
                                   ELSE Send(r.m, Handle(m.self), e.f, r.values)
        [] e.k = "call" /\ e.o # None -> LET r == all(<<e.o>> \o e.args)
                               IN  Send(r.m, r.values[1], e.f, Tail(r.values))
        [] e.k = "prop"     -> LET r == all(<<e.o>>) IN Send(r.m, r.values[1], "get_" \o e.p, << >>)
        [] e.k = "setprop"  -> LET r == all(<<e.o, e.e>>)
                               IN  Change(r.m, r.values[1], "get_" \o e.p, "set_" \o e.p, << >>,
                                          e.op, r.values[2])
        [] e.k = "bumpprop" -> LET r == all(<<e.o>>)
                               IN  ChangeByOne(r.m, r.values[1], "get_" \o e.p, "set_" \o e.p,
                                               << >>, e.op)
        [] e.k = "at"       -> LET r == all(<<e.o, e.i>>)
                               IN  Send(r.m, r.values[1], "get", <<r.values[2]>>)
        [] e.k = "setat"    -> LET r == all(<<e.o, e.i, e.e>>)
                               IN  Change(r.m, r.values[1], "get", "set", <<r.values[2]>>, e.op,
                                          r.values[3])
        [] e.k = "bumpat"   -> LET r == all(<<e.o, e.i>>)
                               IN  ChangeByOne(r.m, r.values[1], "get", "set", <<r.values[2]>>, e.op)
        [] e.k = "array"    -> LET r == all(e.e)
                               IN  Spawn(r.m, "Array", BuiltinHandle("__Temp"), r.values)
        [] e.k = "dict"     -> LET r == all(e.e)
                               IN  Spawn(r.m, "Dictionary", BuiltinHandle("__Temp"),
                                     [key \in {get_string(e.keys[i]) : i \in DOMAIN e.keys} |->
                                        r.values[CHOOSE i \in DOMAIN e.keys : get_string(e.keys[i]) = key]])

(* The body of a function or a state, in an environment of its own.        *)
RunBody(m, h, caller, env, body) ==
  LET r == ExecAll(body, [m EXCEPT !.self = h, !.caller = caller, !.env = env, !.v = Null])
  IN  [r EXCEPT !.v = IF r.jump = "return" THEN @ ELSE Null,
                !.jump = IF @ = "crash" THEN @ ELSE "none",
                !.self = m.self, !.caller = m.caller, !.env = m.env]

(* The variables of a new object get their values, then the constructor    *)
(* of the class runs.                                                      *)
Construct(m, h, class) ==
  LET inside == [m EXCEPT !.self = h, !.caller = 0, !.env = << >>,
                          !.objs[h].fields = [x \in FieldsOf(class) |-> Null]]
      r == FoldLeft(LAMBDA n, f : Write(Eval(f.e, n), f.x), inside, ClassOf(class).fields)
      made == [r EXCEPT !.self = m.self, !.caller = m.caller, !.env = m.env]
  IN  IF HasFun(class, "constructor")
      THEN RunBody(made, h, 0, << >>, Named(ClassOf(class).funs, "constructor").body)
      ELSE made

Send(m, o, f, args) ==
  LET h == HandleFor(o)
      class == m.objs[h].class
      fun == Named(ClassOf(class).funs, f)
      getters == {x \in FieldsOf(class) : f = "get_" \o x}
      setters == {x \in FieldsOf(class) : f = "set_" \o x}
      kinds(x) == {g.kind : g \in {g \in ToSet(ClassOf(class).fields) : g.x = x}}
      kind == args[1].v
  IN  CASE m.jump = "crash" -> m
        [] m.jump # "crash" /\ h = 0 -> Crash(m)
        [] m.jump # "crash" /\ h # 0 -> CASE
           HasFun(class, f) ->
             IF Len(args) # Len(fun.params) THEN Crash(m)
             ELSE RunBody(m, h, m.self,
                    [x \in ToSet(fun.params) |-> args[CHOOSE i \in DOMAIN args : fun.params[i] = x]],
                    fun.body)
        [] ~HasFun(class, f) /\ (\E x \in getters : "private" \notin kinds(x)) /\ args = << >> ->
             Is(m, m.objs[h].fields[CHOOSE x \in getters : TRUE])
        [] ~HasFun(class, f) /\ (\E x \in setters : "public" \in kinds(x)) /\ Len(args) = 1 ->
             Is([m EXCEPT !.objs[h].fields[CHOOSE x \in setters : TRUE] = args[1]], args[1])
        [] f = "spawn" /\ ~HasFun(class, f) /\ Len(args) = 1 ->
             IF kind \in {"Array", "Dictionary"} THEN Spawn(m, kind, h, << >>)
             ELSE IF IsScript(kind)
                  THEN Is(Construct(Spawn(m, kind, h, << >>), Len(m.objs) + 1, kind), Handle(Len(m.objs) + 1))
                  ELSE Crash(m)
        [] OTHER -> Foreign(m, h, f, args)

---------------------------- (* statements *) ----------------------------------
Stopped(m) == m.jump # "none"
ExecAll(body, m) == IF body = << >> \/ Stopped(m) THEN m ELSE ExecAll(Tail(body), Exec(Head(body), m))

(* A loop has caught the jumps that are meant for it.                      *)
Caught(m, jumps) == IF m.jump \in jumps THEN [m EXCEPT !.jump = "none"] ELSE m

(* Test, body and update, again and again.                                 *)
Repeat(e, next, body, m) ==
  LET test == IF e = None THEN Is(m, Bool(TRUE)) ELSE Eval(e, m)
      once == Caught(Exec(body, test), {"continue"})
  IN  IF Stopped(test) \/ ~Holds(test.v) THEN test
      ELSE IF Stopped(once) THEN Caught(once, {"break"})
      ELSE Repeat(e, next, body, Eval(next, once))

(* As many elements as there were at first.                                *)
Visit(s, m, array, i, n) ==
  LET once == Caught(Exec(s.body, Write(Is(m, m.objs[array].data[i]), s.x)), {"continue"})
  IN  IF i > n THEN m
      ELSE IF Stopped(once) THEN Caught(once, {"break"})
      ELSE Visit(s, once, array, i + 1, n)

(* The section whose value has the type and the value of the expression,   *)
(* or the default; then all that follow.                                   *)
Chosen(sections, v) ==
  LET value(i) == Eval(sections[i].v, Start).v
      hits == {i \in DOMAIN sections : sections[i].v # None /\ value(i).type = v.type /\ Equal(value(i), v)}
      defaults == {i \in DOMAIN sections : sections[i].v = None}
      any == IF hits # {} THEN hits ELSE defaults
  IN  IF any = {} THEN << >>
      ELSE LET first == CHOOSE i \in any : \A j \in any : i <= j
           IN  FlattenSeq([i \in 1..(Len(sections) - first + 1) |-> sections[first + i - 1].body])

Exec(s, m) ==
  LET test == Eval(s.e, m)
  IN  CASE s.k = "expr"    -> test
        [] s.k = "block"   -> ExecAll(s.body, m)
        [] s.k = "if"      -> IF Stopped(test) THEN test
                              ELSE IF Holds(test.v) THEN Exec(s.yes, test)
                              ELSE IF s.no = None THEN test ELSE Exec(s.no, test)
        [] s.k = "while"   -> Repeat(s.e, None, s.body, m)
        [] s.k = "do"      -> LET once == Caught(Exec(s.body, m), {"continue"})
                              IN  IF Stopped(once) THEN Caught(once, {"break"})
                                  ELSE LET again == Eval(s.e, once)
                                       IN  IF Stopped(again) \/ ~Holds(again.v) THEN again
                                           ELSE Exec(s, again)
        [] s.k = "for"     -> Repeat(s.e, s.next, s.body, Eval(s.init, m))
        [] s.k = "foreach" ->
             IF Stopped(test) THEN test
             ELSE IF test.v.type # "object" THEN Crash(test)
             ELSE IF test.objs[test.v.v].class # "Array" THEN Crash(test)
             ELSE Visit(s, test, test.v.v, 1, Len(test.objs[test.v.v].data))
        [] s.k = "switch"  -> IF Stopped(test) THEN test
                              ELSE Caught(ExecAll(Chosen(s.sections, test.v), test), {"break"})
        [] s.k = "return"  -> LET r == IF s.e = None THEN Is(m, Null) ELSE test
                              IN  IF Stopped(r) THEN r ELSE [r EXCEPT !.jump = "return"]
        [] s.k = "assert"  -> IF Stopped(test) \/ get_bool(test.v) THEN test ELSE Crash(test)
        [] s.k = "empty"   -> m
        [] OTHER           -> [m EXCEPT !.jump = s.k]

(* The application is constructed, then its main state runs once.          *)
Meaning ==
  LET app == BuiltinHandle("Application")
      made == Construct(Start, app, "Application")
  IN  IF made.jump = "crash" THEN made
      ELSE RunBody(made, app, 0, << >>, Named(ClassOf("Application").states, "main").body)
================================================================================
