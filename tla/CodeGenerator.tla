----------------------------- MODULE CodeGenerator -----------------------------
(***************************************************************************)
(* The code generator (compiler/asm.c): every emit operator appends lines  *)
(* to the program that is being compiled.  The record c carries what the   *)
(* source passes as the context: the lines (code), the labels, the scopes, *)
(* the arity, and whether an error ended the compilation.  Lines count     *)
(* from zero; a label that was not added yet is Undefined.                 *)
(***************************************************************************)
EXTENDS SymbolTable

Undefined == -1

(* A program of its own, and one that is written in C.                     *)
Program(c) == [native |-> FALSE, code |-> c.code, label |-> c.label, arity |-> c.arity,
               marks |-> c.marks]
Native == [native |-> TRUE, code |-> << >>, label |-> << >>, arity |-> 0, marks |-> << >>]

Emit(c, lines) == [c EXCEPT !.code = @ \o lines]
Label(c, label) == [c EXCEPT !.label[label] = Len(c.code)]
NewLabels(c, n) == [c EXCEPT !.label = @ \o [i \in 1..n |-> Undefined]]
Fresh(c, i) == Len(c.label) + i   \* the i-th label that NewLabels() creates

(* ssfatal(): the tokens that are left are not read.                       *)
Fatal(c) == [c EXCEPT !.error = TRUE, !.pos = Len(c.tokens) + 1]

Test(jump, label) == Op("TEST", 0, 0) \o Op(jump, label, 0)
Push(k) == Op("PUSH", k, 0)
Pop(k) == Op("POP", k, 0)
PopN(n) == Op("POPN", n, 0)

(* The instruction of an arithmetic operator, or of an assignment with it. *)
Instruction(op) ==
  CASE op \in {"-", "-="} -> "SUB"
    [] op \in {"*", "*="} -> "MUL"
    [] op \in {"/", "/="} -> "DIV"
    [] op \in {"%", "%="} -> "REM"

Bump(op) == IF op = "++" THEN "INC" ELSE "DEC"
Unbump(op) == IF op = "++" THEN "DEC" ELSE "INC"

(* ADD, or concatenation of t[first] and t[second] if either is a string.  *)
EmitSum(c, first, second) ==
  LET cat == Fresh(c, 1)
      end == Fresh(c, 2)
      add == Emit(NewLabels(c, 2), Op("TC01", "string", 0) \o Op("JE", cat, 0)
                                     \o Op("ADD", 0, 1) \o Op("JMP", end, 0))
      concat == Emit(Label(add, cat), Op("MOVO", 2, "String") \o Push(2) \o Push(first)
                                     \o Push(second) \o Call("concat", 2) \o PopN(3))
  IN  Label(concat, end)

------------------------------- (* objects *) ----------------------------------
emit_object_header(c, start, end) == Label(Emit(c, Op("JMP", end, 0)), start)

emit_object_footer(c, start, end) ==
  LET aloc == Fresh(c, 1)
      d == Label(Emit(NewLabels(c, 1), Op("RET", 0, 0)), end)
      e == Label(Emit(d, Op("MOVX", 2, local_count(d.scopes))), aloc)
  IN  Emit(e, Op("JE", start, 0) \o Op("ALLOC", 0, 0) \o Op("DEC", 2, 0) \o Op("JMP", aloc, 0))

emit_vardecl(c, id) ==
  LET d == IF has_symbol(c.scopes, id) THEN c
           ELSE [c EXCEPT !.scopes = put_symbol(@, id, "heap", local_count(c.scopes))]
  IN  Emit(d, emit_write(d.scopes, id, 0))

emit_vargetter(c, id) == Emit(c, emit_read(c.scopes, id, 0) \o Op("RET", 0, 0))

emit_varsetter(c, id) ==
  Emit(c, Op("SPEEK", 0, -1) \o emit_write(c.scopes, id, 0) \o Op("RET", 0, 0))

----------------------------- (* expressions *) --------------------------------
(* A name that is new becomes a local variable, in the next free cell of   *)
(* the frame: the parameters of the function are below its base.           *)
PutLocal(c, id) ==
  IF has_symbol(c.scopes, id) THEN c
  ELSE [c EXCEPT !.scopes = put_symbol(@, id, "stack", 1 + local_count(c.scopes) - c.arity)]

emit_assignexpr(c, op, id) ==
  LET d == PutLocal(c, id)
      read == Emit(d, emit_read(d.scopes, id, 1))
      computed == IF op = "+=" THEN EmitSum(read, 1, 0)
                  ELSE Emit(read, Op(Instruction(op), 1, 0) \o Op("XCHG", 0, 1))
  IN  IF op = "=" THEN Emit(d, emit_write(d.scopes, id, 0))
      ELSE IF op \notin {"+=", "-=", "*=", "/="} THEN Fatal(c)
      ELSE Emit(computed, emit_write(d.scopes, id, 0))

emit_conditionalexpr1(c, nope) == Emit(c, Test("JE", nope))
(* A deviation: the second value begins before the jump that skips it.     *)
JumpInSecondValue(c, nope, done) == Emit(Label(c, nope), Op("JMP", done, 0))

emit_conditionalexpr2(c, nope, done) == Label(Emit(c, Op("JMP", done, 0)), nope)
emit_conditionalexpr3(c, done) == Label(c, done)

emit_logicalorexpr1(c, done) == Emit(c, Test("JNE", done))
emit_logicalandexpr1(c, done) == Emit(c, Test("JE", done))

(* The left operand waits on the stack.                                    *)
emit_binary1(c) == Emit(c, Push(0))

emit_equalityexpr2(c, op) ==
  LET done == Fresh(c, 1)
      other == Fresh(c, 2)
      not == IF op \in {"==", "==="} THEN "LNOT" ELSE "LNOT2"
      compared == Op("CMP", 1, 0) \o Op(not, 0, 2)
      typed == Emit(NewLabels(c, 2), Pop(1) \o Op("TCMP", 1, 0) \o Op("JNE", other, 0)
                                       \o compared \o Op("JMP", done, 0))
  IN  IF op \in {"==", "!="} THEN Label(Emit(NewLabels(c, 1), Pop(1) \o compared), done)
      ELSE Label(Emit(Label(typed, other), Op("MOVB", 0, op = "!==")), done)

emit_relationalexpr2(c, op) ==
  LET done == Fresh(c, 1)
      jump == CASE op = ">=" -> "JGE" [] op = ">" -> "JG" [] op = "<" -> "JL" [] op = "<=" -> "JLE"
  IN  Label(Emit(NewLabels(c, 1), Pop(1) \o Op("CMP", 1, 0) \o Op("MOVB", 0, TRUE)
                                    \o Op(jump, done, 0) \o Op("MOVB", 0, FALSE)), done)

emit_additiveexpr2(c, op) ==
  IF op = "+" THEN EmitSum(Emit(c, Pop(1)), 1, 0)
  ELSE Emit(c, Pop(1) \o Op("SUB", 1, 0) \o Op("XCHG", 1, 0))

emit_multiplicativeexpr2(c, op) ==
  IF op = "*" THEN Emit(c, Pop(1) \o Op("MUL", 0, 1))
  ELSE Emit(c, Pop(1) \o Op(Instruction(op), 1, 0) \o Op("XCHG", 1, 0))

emit_unarysign(c, op) == IF op = "-" THEN Emit(c, Op("NEG", 0, 0)) ELSE c
emit_unarynot(c) == Emit(c, Op("LNOT", 0, 0))

emit_unaryincdec(c, op, id) ==
  IF ~has_symbol(c.scopes, id) THEN Fatal(c)
  ELSE Emit(c, emit_read(c.scopes, id, 0) \o Op(Bump(op), 0, 0) \o emit_write(c.scopes, id, 0))

emit_postincdec(c, op, id) ==
  IF ~has_symbol(c.scopes, id) THEN Fatal(c)
  ELSE Emit(c, emit_read(c.scopes, id, 0) \o Op("MOV", 1, 0) \o Op(Bump(op), 1, 0)
                 \o emit_write(c.scopes, id, 1))

(* One test after another: number, string, object, boolean, else null.     *)
emit_unarytype(c) ==
  LET types == <<"number", "string", "object", "bool">>
      names == <<"number", "string", "object", "boolean">>
      end == Fresh(c, 5)
      checked == FoldLeft(LAMBDA d, i :
                   Label(Emit(d, Op("TCHK", 0, types[i]) \o Op("JNE", Fresh(c, i), 0)
                                   \o Op("MOVS", 0, names[i]) \o Op("JMP", end, 0)), Fresh(c, i)),
                   NewLabels(c, 5), <<1, 2, 3, 4>>)
  IN  Label(Emit(checked, Op("MOVS", 0, "null")), end)

emit_pushparam(c) == Emit(c, Push(0))
emit_popparams(c, n) == Emit(c, PopN(n))
emit_funcall(c, name, n) == Emit(c, Call(name, n))

emit_identifier(c, id) ==
  IF has_symbol(c.scopes, id) THEN Emit(c, emit_read(c.scopes, id, 0)) ELSE Fatal(c)

-------------------- (* collections and properties *) --------------------------
emit_dictget(c) == Emit(c, Call("get", 1) \o PopN(2))

(* t[0] and t[1] become t[0] op t[1].                                      *)
EmitTerms(c, op) ==
  IF op = "+=" THEN EmitSum(c, 0, 1) ELSE Emit(c, Op(Instruction(op), 0, 1))

(* The object and the key are on the stack, the value is in t[0].          *)
emit_dictset(c, op) ==
  LET set == Push(0) \o Call("set", 2) \o Pop(0) \o PopN(2)
      get == Op("XCHG", 0, 3) \o Pop(1) \o Pop(0) \o Op("NOP", 0, 0) \o Push(0) \o Push(1)
               \o Push(3) \o Push(0) \o Push(1) \o Call("get", 1) \o PopN(2) \o Pop(1)
  IN  IF op = "=" THEN Emit(c, set) ELSE Emit(EmitTerms(Emit(c, get), op), set)

emit_dictincdec(c, op) ==
  Emit(c, Call("get", 1) \o Op(Bump(op), 0, 0) \o Push(0) \o Call("set", 2) \o Pop(0)
            \o Op(Unbump(op), 0, 0) \o PopN(2))

emit_getter(c, name) == Emit(c, Push(0) \o Call(Getter(name), 0) \o PopN(1))
emit_setter1(c, name) == Emit(c, Push(0) \o Call(Getter(name), 0) \o Push(0))

emit_setter2(c, name, op) ==
  LET terms == Emit(c, Pop(1) \o Op("XCHG", 0, 1))
      set(k) == Push(k) \o Call(Setter(name), 1) \o Pop(0) \o PopN(1)
  IN  IF op = "%=" THEN Fatal(c)
      ELSE IF op = "=" THEN Emit(terms, set(1))
      ELSE Emit(EmitTerms(terms, op), set(0))

emit_setterincdec(c, name, op) ==
  Emit(c, Push(0) \o Call(Getter(name), 0) \o Op(Bump(op), 0, 0) \o Push(0)
            \o Call(Setter(name), 1) \o Pop(0) \o Op(Unbump(op), 0, 0) \o PopN(1))

EmitSpawn(c, class) ==
  Emit(c, Op("MOVO", 0, "__Temp") \o Push(0) \o Op("MOVS", 0, class) \o Push(0)
            \o Call("spawn", 1) \o PopN(2) \o Push(0))

emit_arrayexpr1(c) == EmitSpawn(c, "Array")
emit_arrayelement(c) == Emit(c, Push(0) \o Call("push", 1) \o PopN(1))
emit_dictdecl1(c) == EmitSpawn(c, "Dictionary")
emit_dictdeclvalue(c) == Emit(c, Push(0) \o Call("set", 2) \o PopN(2))
emit_collection2(c) == Emit(c, Pop(0))   \* emit_arrayexpr2(), emit_dictdecl2()

emit_timeout(c) == Emit(c, Op("SELF", 1, 0) \o Push(1) \o Push(0) \o Call("__timeout", 1) \o PopN(2))

(* Five cells are pushed, and four are popped.                             *)
emit_assert(c, message) ==
  Emit(c, Op("SELF", 1, 0) \o Push(1) \o Push(0)
            \o (IF message = "" THEN Op("MOVN", 0, 0) ELSE Op("MOVS", 0, message)) \o Push(0)
            \o Op("MOVS", 0, "file") \o Push(0) \o Op("MOVF", 0, 0) \o Push(0)
            \o Call("__assert", 4) \o PopN(4))

------------------------------ (* statements *) --------------------------------
emit_if(c, nope) == Emit(c, Test("JE", nope))
emit_else(c, nope, done) == Label(Emit(c, Op("JMP", done, 0)), nope)
emit_endif(c, done) == Label(c, done)

emit_loop1(c, begin) == Label(c, begin)  \* emit_while1(), emit_dowhile1(), emit_for1()
emit_whilecheck(c, end) == Emit(c, Test("JE", end))
emit_while2(c, begin, end) == Label(Emit(c, Op("JMP", begin, 0)), end)
emit_dowhilecondition(c, condition) == Label(c, condition)
emit_dowhile2(c, begin, end) == Label(Emit(c, Test("JNE", begin)), end)

emit_forcheck(c, body, increment, end) ==
  Label(Emit(c, Test("JE", end) \o Op("JMP", body, 0)), increment)
emit_for2(c, begin, body) == Label(Emit(c, Op("JMP", begin, 0)), body)
emit_for3(c, increment, end) == Label(Emit(c, Op("JMP", increment, 0)), end)

(* The collection and its iterator stay on the stack during the loop.      *)
emit_foreach1(c, id, begin, end) ==
  LET started == PutLocal(Emit(c, Push(0) \o Call("iterator", 0) \o Push(0)), id)
  IN  Emit(Label(started, begin), Call("hasNext", 0) \o Test("JE", end) \o Call("next", 0)
                                    \o emit_write(started.scopes, id, 0))
(* A deviation: the collection and its iterator are never popped.          *)
KeepIterator(c, begin, end) == Label(Emit(c, Op("JMP", begin, 0)), end)

emit_foreach2(c, begin, end) == Emit(Label(Emit(c, Op("JMP", begin, 0)), end), PopN(2))


(* A deviation: inside of a loop, a break does what continue does.         *)
BreakContinues(c) ==
  IF c.loop_break = Undefined THEN Fatal(c)
  ELSE Emit(c, Op("JMP", IF c.loop_continue = Undefined THEN c.loop_break ELSE c.loop_continue, 0))

emit_break(c) == IF c.loop_break = Undefined THEN Fatal(c) ELSE Emit(c, Op("JMP", c.loop_break, 0))
emit_continue(c) ==
  IF c.loop_continue = Undefined THEN Fatal(c) ELSE Emit(c, Op("JMP", c.loop_continue, 0))

(* A switch has two paths: the test path goes from case to case until one  *)
(* matches, the other falls through the sections.  Its value is on the     *)
(* stack until the end.                                                    *)
emit_switch1(c, first_test) == Emit(c, Push(0) \o Op("JMP", first_test, 0))

(* A deviation: the sections are left for the line after the last one.     *)
EndBehindPop(c, end, def, final_test) ==
  LET d == Label(Emit(c, Op("JMP", end, 0)), final_test)
      e == IF def = Undefined THEN d ELSE Emit(d, Op("JMP", def, 0))
  IN  Label(Emit(e, Pop(0)), end)

emit_switch2(c, end, def, final_test) ==
  LET d == Label(Emit(c, Op("JMP", end, 0)), final_test)
      e == IF def = Undefined THEN d ELSE Emit(d, Op("JMP", def, 0))
  IN  Emit(Label(e, end), Pop(0))

emit_case1(c, skip, test) == Label(Emit(c, Op("JMP", skip, 0)), test)

emit_case2(c, skip, next_test) ==
  Label(Emit(c, Pop(1) \o Push(1) \o Op("TCMP", 1, 0) \o Op("JNE", next_test, 0)
                  \o Op("CMP", 1, 0) \o Op("JNE", next_test, 0)), skip)

emit_default(c, test, next_test, def) ==
  Label(Emit(Label(Emit(c, Op("JMP", def, 0)), test), Op("JMP", next_test, 0)), def)

------------------------------- (* functions *) --------------------------------
emit_function_header(c) == Emit(c, Op("NOP", 0, 0))   \* to be filled later

emit_function_footer(c, num_locals) ==
  Emit(IF num_locals > 0 THEN [c EXCEPT !.code[1] = Op("PUSHN", num_locals, 0)[1]] ELSE c,
       Op("MOVN", 0, 0) \o Op("RET", 0, 0))

(* A deviation: the arguments are thought to be one cell lower.            *)
ArgumentBelow(c, id, idx, argc) ==
  IF has_local_symbol(c.scopes, id) THEN Fatal(c)
  ELSE [c EXCEPT !.scopes = put_symbol(@, id, "stack", idx - argc - 1)]

emit_function_argument(c, id, idx, argc) ==
  IF has_local_symbol(c.scopes, id) THEN Fatal(c)
  ELSE [c EXCEPT !.scopes = put_symbol(@, id, "stack", idx - argc)]

emit_ret(c) == Emit(c, Op("RET", 0, 0))

------------------------ (* constants and variables *) -------------------------
emit_this(c) == Emit(c, Op("SELF", 0, 0))
emit_state(c) == Emit(c, Op("STATE", 0, 0))
emit_setstate(c) == Emit(c, Op("STATE", 0, -1))
emit_caller(c) == Emit(c, Op("CALLER", 0, 0))
emit_null(c) == Emit(c, Op("MOVN", 0, 0))
emit_bool(c, value) == Emit(c, Op("MOVB", 0, value))
emit_number(c, value) == Emit(c, Op("MOVF", 0, value))
emit_string(c, value) == Emit(c, Op("MOVS", 0, value))
================================================================================
