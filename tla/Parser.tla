-------------------------------- MODULE Parser --------------------------------
(***************************************************************************)
(* The parser (compiler/parser.c): a recursive descent that generates code *)
(* as it reads the tokens, one operator per nonterminal of the grammar.    *)
(* An operator takes the context and returns it, with the code that was    *)
(* emitted and with what was read.  Compiled programs go to the pool.      *)
(*                                                                         *)
(* The fields depth and marks of the context are not in the source: depth  *)
(* is how many cells of the stack the statements around keep in use, and   *)
(* marks remembers it at the line where each statement begins.             *)
(***************************************************************************)
EXTENDS CodeGenerator, Lexer, TLC

CONSTANT Accessors(_)  \* the sequence of the accessors that a class has in C

got_type(c, type) == c.pos <= Len(c.tokens) /\ c.tokens[c.pos].type = type
got_any_type(c, types) == \E type \in types : got_type(c, type)
has_token(c) == c.pos <= Len(c.tokens)
Lexeme(c) == IF has_token(c) THEN c.tokens[c.pos].lexeme ELSE ""

match(c, type) == IF got_type(c, type) THEN [c EXCEPT !.pos = @ + 1] ELSE Fatal(c)
expect(c, type) == IF got_type(c, type) THEN c ELSE Fatal(c)
match_exactly(c, type, lexeme) == IF Lexeme(c) = lexeme THEN match(c, type) ELSE Fatal(c)
optmatch(c, type) == IF got_type(c, type) THEN match(c, type) ELSE c
unmatch(c) == IF c.error THEN c ELSE [c EXCEPT !.pos = @ - 1]

(* Fields of the context that a function, a loop or a switch has its own.  *)
Inside(c, outer) == [c EXCEPT !.loop_break = outer.loop_break,
                              !.loop_continue = outer.loop_continue, !.depth = outer.depth]

-------------------------------- (* the pool *) --------------------------------
(* surgescript_programpool_put(): a class has one program of each name.    *)
Put(c, object, name, program) ==
  IF <<object, name>> \in DOMAIN c.pool THEN Fatal(c)
  ELSE [c EXCEPT !.pool = (<<object, name>> :> program) @@ @]

(* surgescript_programpool_shallowcheck(): is it a program of that class?  *)
shallowcheck(pool, object, name) == <<object, name>> \in DOMAIN pool

(* A program of the object that is compiled on its own.                    *)
Begin(c, scopes, arity, isState) ==
  [c EXCEPT !.code = << >>, !.label = << >>, !.scopes = scopes, !.arity = arity,
            !.loop_break = Undefined, !.loop_continue = Undefined,
            !.isState = isState, !.depth = 0, !.marks = << >>]

(* Back to the constructor of the object, with the program in the pool.    *)
Register(c, name, constructor) ==
  [Put(c, c.object, name, Program(c)) EXCEPT
            !.code = constructor.code, !.label = constructor.label,
            !.scopes = constructor.scopes, !.arity = constructor.arity,
            !.isState = constructor.isState, !.depth = constructor.depth,
            !.marks = constructor.marks,
            !.loop_break = constructor.loop_break, !.loop_continue = constructor.loop_continue]

create_getter(c, id) == Register(emit_vargetter(Begin(c, c.scopes, 0, FALSE), id), Getter(id), c)
create_setter(c, id) == Register(emit_varsetter(Begin(c, c.scopes, 1, FALSE), id), Setter(id), c)

make_file_program == [Native EXCEPT !.native = FALSE,
                                    !.code = Op("MOVS", 0, "file") \o Op("RET", 0, 0)]

(* All the programs of the object but the ones written in C.               *)
remove_object_definition(pool, object) ==
  LET kept == {k \in DOMAIN pool : k[1] = object => pool[k].native}
  IN  [k \in kept |-> pool[k]]

forbid_duplicates(object) == object \in ToSet(BuiltinObjects)

------------------------------ (* expressions *) -------------------------------
RECURSIVE expr(_), assignexpr(_), conditionalexpr(_), binaryexpr(_, _), unaryexpr(_),
          postfixexpr1(_), lambdacall(_), dictgetexpr(_), binaryrest(_, _),
          logicalorrest(_, _), logicalandrest(_, _), Arguments(_, _), Elements(_), Entries(_)

(* What may follow the comma operator.                                     *)
acceptable_lookaheads ==
  {"true", "false", "STRING", "NUMBER", "null", "IDENTIFIER", "this", "caller", "state",
   "typeof", "timeout", "(", "[", "{", "ADDITIVEOP", "INCDECOP", "!"}

expr(c) ==
  LET d == assignexpr(c)
      e == match(d, ",")
  IN  IF ~got_type(d, ",") THEN d
      ELSE IF got_any_type(e, acceptable_lookaheads) THEN expr(e) ELSE Fatal(e)

assignexpr(c) ==
  LET d == match(c, c.tokens[c.pos].type)   \* past the identifier, or past the state
      op == Lexeme(d)
  IN  IF ~got_any_type(c, {"IDENTIFIER", "state"}) \/ ~got_type(d, "ASSIGNOP")
      THEN conditionalexpr(c)
      ELSE IF got_type(c, "IDENTIFIER")
      THEN emit_assignexpr(assignexpr(match(d, "ASSIGNOP")), op, Lexeme(c))
      ELSE emit_setstate(assignexpr(match_exactly(d, "ASSIGNOP", "=")))

(* Each kind of left-associative operator, from the lowest precedence: the *)
(* left operand waits on the stack while the right one is computed.        *)
binary == <<"EQUALITYOP", "RELATIONALOP", "ADDITIVEOP", "MULTIPLICATIVEOP">>

emit_binary2(c, kind, op) ==
  CASE kind = "EQUALITYOP"       -> emit_equalityexpr2(c, op)
    [] kind = "RELATIONALOP"     -> emit_relationalexpr2(c, op)
    [] kind = "ADDITIVEOP"       -> emit_additiveexpr2(c, op)
    [] kind = "MULTIPLICATIVEOP" -> emit_multiplicativeexpr2(c, op)

Operand(c, level) == IF level = Len(binary) THEN unaryexpr(c) ELSE binaryexpr(c, level + 1)

binaryrest(c, level) ==
  IF ~got_type(c, binary[level]) THEN c
  ELSE LET right == Operand(emit_binary1(match(c, binary[level])), level)
       IN  binaryrest(emit_binary2(right, binary[level], Lexeme(c)), level)

binaryexpr(c, level) == binaryrest(Operand(c, level), level)

(* Evaluation stops at the first operand that decides the value.           *)
logicalandrest(c, done) ==
  IF ~got_type(c, "&&") THEN Label(c, done)
  ELSE logicalandrest(binaryexpr(emit_logicalandexpr1(match(c, "&&"), done), 1), done)
logicalandexpr(c) == logicalandrest(binaryexpr(NewLabels(c, 1), 1), Fresh(c, 1))

logicalorrest(c, done) ==
  IF ~got_type(c, "||") THEN Label(c, done)
  ELSE logicalorrest(logicalandexpr(emit_logicalorexpr1(match(c, "||"), done)), done)
logicalorexpr(c) == logicalorrest(logicalandexpr(NewLabels(c, 1)), Fresh(c, 1))

conditionalexpr(c) ==
  LET test == logicalorexpr(c)
      nope == Fresh(test, 1)
      done == Fresh(test, 2)
      yes == match(expr(emit_conditionalexpr1(NewLabels(match(test, "?"), 2), nope)), ":")
  IN  IF ~got_type(test, "?") THEN test
      ELSE emit_conditionalexpr3(conditionalexpr(emit_conditionalexpr2(yes, nope, done)), done)

constant(c) ==
  LET value == Lexeme(c)
      emitted == CASE got_type(c, "null")   -> emit_null(c)
                   [] got_type(c, "true")   -> emit_bool(c, TRUE)
                   [] got_type(c, "false")  -> emit_bool(c, FALSE)
                   [] got_type(c, "STRING") -> emit_string(c, value)
                   [] got_type(c, "NUMBER") -> emit_number(c, value)
  IN  IF got_any_type(c, {"null", "true", "false", "STRING", "NUMBER"})
      THEN [emitted EXCEPT !.pos = @ + 1] ELSE Fatal(c)

(* The literal after a case: the sign of a number belongs to it.           *)
RECURSIVE constexpr(_)
constexpr(c) ==
  LET d == match(c, "ADDITIVEOP")
      signed == emit_number(d, IF Lexeme(c) = "+" THEN Lexeme(d) ELSE -Lexeme(d))
  IN  IF got_type(c, "(") THEN match(constexpr(match(c, "(")), ")")
      ELSE IF ~got_type(c, "ADDITIVEOP") THEN constant(c)
      ELSE IF got_type(d, "NUMBER") THEN match(signed, "NUMBER") ELSE Fatal(d)

Elements(c) ==
  LET d == emit_arrayelement(assignexpr(c))
      e == optmatch(d, ",")
  IN  IF got_type(d, ",") /\ ~got_type(e, "]") THEN Elements(e) ELSE e
arrayexpr(c) ==
  LET d == emit_arrayexpr1(c)
  IN  emit_collection2(IF got_type(d, "]") THEN d ELSE Elements(d))

Entries(c) ==
  LET key == match(emit_binary1(constant(c)), ":")
      d == emit_dictdeclvalue(assignexpr(key))
      e == optmatch(d, ",")
  IN  IF ~got_any_type(c, {"STRING", "NUMBER"}) THEN Fatal(c)
      ELSE IF got_type(d, ",") /\ ~got_type(e, "}") THEN Entries(e) ELSE e
dictexpr(c) ==
  LET d == emit_dictdecl1(c)
  IN  emit_collection2(IF got_type(d, "}") THEN d ELSE Entries(d))

primaryexpr(c) ==
  LET d == match(c, c.tokens[c.pos].type)
      id == Lexeme(c)
  IN  CASE got_type(c, "(")      -> match(expr(d), ")")
        [] got_type(c, "[")      -> match(arrayexpr(d), "]")
        [] got_type(c, "{")      -> match(dictexpr(d), "}")
        [] got_type(c, "this")   -> emit_this(d)
        [] got_type(c, "state")  -> emit_state(d)
        [] got_type(c, "caller") -> emit_caller(d)
        [] got_type(c, "IDENTIFIER") -> match(emit_identifier(c, id), "IDENTIFIER")
        [] OTHER                 -> constant(c)

(* The arguments of a call, the object first; n were pushed already.       *)
Arguments(c, n) ==
  LET d == emit_pushparam(assignexpr(c))
  IN  IF got_type(d, ",") THEN Arguments(match(d, ","), n + 1) ELSE [c |-> d, n |-> n + 1]

funcallexpr(c, fun_name) ==
  LET d == emit_pushparam(match(c, "("))
      given == IF got_type(d, ")") THEN [c |-> d, n |-> 0] ELSE Arguments(d, 0)
      called == emit_popparams(emit_funcall(given.c, fun_name, given.n), 1 + given.n)
  IN  IF fun_name \in {"constructor", "destructor"} THEN Fatal(d) ELSE match(called, ")")

lambdacall(c) == IF got_type(c, "(") THEN lambdacall(funcallexpr(c, "call")) ELSE c

dictgetexpr(c) ==
  LET at == emit_binary1(match(expr(emit_binary1(match(c, "["))), "]"))
      op == Lexeme(at)
      got == emit_dictget(at)
  IN  CASE ~got_type(c, "[")          -> c
        [] got_type(at, "ASSIGNOP")   -> emit_dictset(assignexpr(match(at, "ASSIGNOP")), op)
        [] got_type(at, "INCDECOP")   -> match(emit_dictincdec(at, op), "INCDECOP")
        [] got_type(c, "[") /\ got_type(got, "[") -> dictgetexpr(got)
        [] OTHER                      -> postfixexpr1(got)

(* A chain of calls, properties and brackets.  An assignment ends it.      *)
postfixexpr1(c) ==
  LET name == match(c, ".")
      id == Lexeme(name)
      d == match(name, "IDENTIFIER")
      op == Lexeme(d)
      set == emit_setter2(assignexpr(emit_setter1(match(d, "ASSIGNOP"), id)), id, op)
      incdec == match(emit_setterincdec(d, id, op), "INCDECOP")
      link == dictgetexpr(lambdacall(IF got_type(d, "(") THEN funcallexpr(d, id)
                                     ELSE emit_getter(d, id)))
  IN  IF ~got_type(c, ".")                THEN dictgetexpr(lambdacall(c))
      ELSE IF got_type(d, "INCDECOP")     THEN incdec
      ELSE IF got_type(d, "ASSIGNOP")     THEN set
      ELSE IF got_type(link, ".")         THEN postfixexpr1(link) ELSE link

postfixexpr(c) ==
  LET id == Lexeme(c)
      d == match(c, "IDENTIFIER")
      symbol_read == Emit(d, emit_read(d.scopes, id, 0))
  IN  IF ~got_type(c, "IDENTIFIER") \/ ~got_any_type(d, {"INCDECOP", "("})
      THEN postfixexpr1(primaryexpr(c))
      ELSE IF got_type(d, "INCDECOP") THEN match(emit_postincdec(d, Lexeme(d), id), "INCDECOP")
      ELSE IF has_symbol(d.scopes, id) THEN postfixexpr1(funcallexpr(symbol_read, "call"))
      ELSE postfixexpr1(funcallexpr(emit_this(d), id))

unaryexpr(c) ==
  LET d == match(c, c.tokens[c.pos].type)
      op == Lexeme(c)
  IN  CASE got_type(c, "ADDITIVEOP") -> emit_unarysign(unaryexpr(d), op)
        [] got_type(c, "INCDECOP") ->
             IF got_type(d, "IDENTIFIER")
             THEN match(emit_unaryincdec(d, op, Lexeme(d)), "IDENTIFIER") ELSE Fatal(d)
        [] got_type(c, "!") -> emit_unarynot(unaryexpr(d))
        [] got_type(c, "typeof") ->
             IF got_type(d, "(") THEN match(emit_unarytype(expr(match(d, "("))), ")")
             ELSE emit_unarytype(unaryexpr(d))
        [] got_type(c, "timeout") ->
             IF c.isState THEN match(emit_timeout(assignexpr(match(d, "("))), ")") ELSE Fatal(d)
        [] OTHER -> postfixexpr(c)

------------------------------- (* statements *) -------------------------------
RECURSIVE stmt(_), stmtlist(_), Sections(_, _, _, _, _)

Mark(c) == [c EXCEPT !.marks = (Len(c.code) :> c.depth) @@ @]
StartsStmt(c) == has_token(c) /\ ~got_any_type(c, {"}", "case", "default"})
Body(c) == IF StartsStmt(c) THEN stmt(c) ELSE Fatal(c)
Parenthesized(c) == match(expr(match(c, "(")), ")")

stmtlist(c) == IF StartsStmt(c) THEN stmtlist(stmt(c)) ELSE c

condstmt(c) ==
  LET nope == Fresh(c, 1)
      yes == Body(emit_if(Parenthesized(match(NewLabels(c, 1), "if")), nope))
      done == Fresh(yes, 1)
      no == Body(emit_else(NewLabels(match(yes, "else"), 1), nope, done))
  IN  IF got_type(yes, "else") THEN emit_endif(no, done) ELSE emit_endif(yes, nope)

(* A deviation: the labels that come after the last line are not looked at.*)
LastLineTerminates(c, end) ==
  (Last(c.code).op = "JMP" /\ Last(c.code).a = end) \/ Last(c.code).op = "RET"

(* A section of a switch ends with a break or a return, and no label comes *)
(* after it, unless nothing follows its case.                              *)
Terminated(c, end) ==
  /\ Len(c.code) \notin ToSet(c.label)
  /\ \/ Last(c.code).op = "JMP" /\ Last(c.code).a = end
     \/ Last(c.code).op = "RET"

Section(c, end) ==
  LET d == stmtlist(c)
  IN  IF got_any_type(c, {"case", "default"}) \/ Terminated(d, end) THEN d ELSE Fatal(d)

Repeated(constants, line) == \E i \in DOMAIN constants :
                               constants[i].op = line.op /\ constants[i].b = line.b

Sections(c, end, def, next_test, constants) ==
  LET first == Fresh(c, 1)
      second == Fresh(c, 2)
      value == constexpr(emit_case1(NewLabels(match(c, "case"), 2), first, next_test))
      case == emit_case2(match(value, ":"), first, second)
      default == emit_default(NewLabels(match(match(c, "default"), ":"), 2), next_test, first, second)
  IN  IF got_type(c, "case") THEN
        IF value.error \/ Repeated(constants, Last(value.code)) THEN Fatal(value)
        ELSE Sections(Section(case, end), end, def, second, Append(constants, Last(value.code)))
      ELSE IF got_type(c, "default") THEN
        IF def # Undefined THEN Fatal(c)
        ELSE Sections(Section(default, end), end, second, first, constants)
      ELSE emit_switch2(match(c, "}"), end, def, next_test)

switchstmt(c) ==
  LET next_test == Fresh(c, 1)
      end == Fresh(c, 2)
      value == emit_switch1(Parenthesized(match(NewLabels(c, 2), "switch")), next_test)
      inside == [match(value, "{") EXCEPT !.loop_break = end, !.depth = @ + 1]
  IN  Inside(Sections(inside, end, Undefined, next_test, << >>), c)

Loop(c, break, continue) == [c EXCEPT !.loop_break = break, !.loop_continue = continue]

whilestmt(c, begin, end) ==
  LET head == emit_whilecheck(Parenthesized(emit_loop1(match(NewLabels(c, 2), "while"), begin)), end)
  IN  emit_while2(Body(Loop(head, end, begin)), begin, end)

dostmt(c, begin, end) ==
  LET condition == Fresh(c, 3)
      body == Body(Loop(emit_loop1(match(NewLabels(c, 3), "do"), begin), end, condition))
      test == emit_dowhilecondition(match(match(body, "while"), "("), condition)
  IN  emit_dowhile2(match(match(expr(test), ")"), ";"), begin, end)

forstmt(c, begin, end) ==
  LET body == Fresh(c, 3)
      increment == Fresh(c, 4)
      Optional(d, type) == IF got_type(d, type) THEN d ELSE expr(d)
      init == emit_loop1(Optional(match(match(NewLabels(c, 4), "for"), "("), ";"), begin)
      first == match(init, ";")
      check == match(IF got_type(first, ";") THEN emit_bool(first, TRUE) ELSE expr(first), ";")
      update == match(Optional(emit_forcheck(check, body, increment, end), ")"), ")")
      inside == Loop(emit_for2(update, begin, body), end, increment)
  IN  emit_for3(Body(inside), increment, end)

foreachstmt(c, begin, end) ==
  LET id == match(match(NewLabels(c, 2), "foreach"), "(")
      collection == match(expr(match(match(id, "IDENTIFIER"), "in")), ")")
      inside == Loop(emit_foreach1(collection, Lexeme(id), begin, end), end, begin)
  IN  emit_foreach2(Body([inside EXCEPT !.depth = @ + 2]), begin, end)

loopstmt(c) ==
  LET begin == Fresh(c, 1)
      end == Fresh(c, 2)
  IN  Inside(CASE got_type(c, "while")   -> whilestmt(c, begin, end)
               [] got_type(c, "do")      -> dostmt(c, begin, end)
               [] got_type(c, "for")     -> forstmt(c, begin, end)
               [] got_type(c, "foreach") -> foreachstmt(c, begin, end), c)

jumpstmt(c) ==
  IF got_type(c, "break") THEN emit_break(match(match(c, "break"), ";"))
  ELSE emit_continue(match(match(c, "continue"), ";"))

retstmt(c) ==
  LET d == match(c, "return")
  IN  IF got_type(d, ";") THEN emit_ret(emit_null(match(d, ";")))
      ELSE IF c.isState THEN Fatal(d) ELSE emit_ret(match(expr(d), ";"))

miscstmt(c) ==
  LET d == assignexpr(match(match(c, "assert"), "("))
      message == match(d, ",")
      asserted == IF got_type(d, ",") THEN emit_assert(match(message, "STRING"), Lexeme(message))
                  ELSE emit_assert(d, "")
  IN  match(match(asserted, ")"), ";")

stmt(c) ==
  LET d == Mark(c)
  IN  CASE got_type(c, "{")                             -> match(stmtlist(match(d, "{")), "}")
        [] got_type(c, "if")                            -> condstmt(d)
        [] got_type(c, "switch")                        -> switchstmt(d)
        [] got_any_type(c, {"while", "do", "for", "foreach"}) -> loopstmt(d)
        [] got_type(c, "return")                        -> retstmt(d)
        [] got_any_type(c, {"break", "continue"})       -> jumpstmt(d)
        [] got_type(c, "assert")                        -> miscstmt(d)
        [] got_type(c, ";")                             -> match(d, ";")
        [] OTHER                                        -> match(expr(d), ";")

-------------------------------- (* objects *) ---------------------------------
RECURSIVE importlist(_), Path(_, _), Tags(_), vardecllist(_), Parameters(_, _),
          statedecllist(_), fundecllist(_), annotations(_, _), objectlist(_)

(* Variables may use the accessors of the base class and those that the C  *)
(* part of the class has, if it has any.                                   *)
import_public_vars(c, class) ==
  [c EXCEPT !.scopes = FoldLeft(LAMBDA scopes, accessor :
                         IF has_symbol(scopes, accessor) THEN scopes
                         ELSE put_symbol(scopes, accessor, "accessor", 0), @, Accessors(class))]

vardecl(c) ==
  LET readonly == optmatch(c, "public")
      name == optmatch(readonly, "readonly")
      id == Lexeme(name)
      value == conditionalexpr(match_exactly(match(name, "IDENTIFIER"), "ASSIGNOP", "="))
      declared == emit_vardecl(match(value, ";"), id)
  IN  IF ~got_type(c, "public") \/ declared.error THEN declared
      ELSE IF got_type(readonly, "readonly") THEN create_getter(declared, id)
      ELSE create_setter(create_getter(declared, id), id)
vardecllist(c) == IF got_any_type(c, {"IDENTIFIER", "public"}) THEN vardecllist(vardecl(c)) ELSE c

(* The body of a function or of a state; its first line makes room for the *)
(* local variables once they are known.                                    *)
FunctionBody(c) ==
  LET d == stmtlist(emit_function_header(match(c, "{")))
  IN  match(emit_function_footer(d, local_count(d.scopes) - c.arity), "}")

statedecl(c) ==
  LET name == "state:" \o Lexeme(c)
      d == Begin(match(c, "STRING"), Append(c.scopes, << >>), 0, TRUE)
  IN  IF ~got_type(c, "STRING") \/ shallowcheck(c.pool, c.object, name) THEN Fatal(c)
      ELSE Register(FunctionBody(d), name, c)
statedecllist(c) ==
  IF got_type(c, "state") THEN statedecllist(statedecl(match(c, "state"))) ELSE c

Parameters(c, names) ==
  LET d == match(c, "IDENTIFIER")
      read == Append(names, Lexeme(c))
  IN  IF got_type(d, ",") THEN Parameters(match(d, ","), read) ELSE [c |-> d, names |-> read]

fundecl(c) ==
  LET name == Lexeme(c)
      open == match(match(c, "IDENTIFIER"), "(")
      given == IF got_type(open, ")") THEN [c |-> open, names |-> << >>] ELSE Parameters(open, << >>)
      argc == Len(given.names)
      d == Begin(match(given.c, ")"), Append(c.scopes, << >>), argc, FALSE)
      e == FoldLeft(LAMBDA f, i : emit_function_argument(f, given.names[i], i - 1, argc),
                    d, [i \in 1..argc |-> i])
  IN  IF ~got_type(c, "IDENTIFIER") \/ shallowcheck(c.pool, c.object, name) THEN Fatal(c)
      ELSE Register(FunctionBody(e), name, c)
fundecllist(c) == IF got_type(c, "fun") THEN fundecllist(fundecl(match(c, "fun"))) ELSE c

(* An object that has no main state does nothing; the application must     *)
(* have one.                                                               *)
validate_object(c) ==
  LET d == expect(c, "}")
  IN  IF shallowcheck(d.pool, d.object, "state:main") \/ d.error THEN d
      ELSE IF d.object = "Application" THEN Fatal(d)
      ELSE Put(d, d.object, "state:main", Native)

objectdecl(c) ==
  LET start == Fresh(c, 1)
      end == Fresh(c, 2)
      d == import_public_vars(import_public_vars(NewLabels(c, 2), "Object"), c.object)
      read == fundecllist(statedecllist(vardecllist(emit_object_header(d, start, end))))
  IN  emit_object_footer(validate_object(read), start, end)

Tags(c) ==
  LET d == match([c EXCEPT !.tags = @ \cup {<<c.object, Lexeme(c)>>}], "STRING")
  IN  IF ~got_type(c, "STRING") \/ Lexeme(c) = "" THEN Fatal(c)
      ELSE IF got_type(d, ",") THEN Tags(match(d, ",")) ELSE d
qualifiers(c) == IF got_type(c, "is") THEN Tags(match(c, "is")) ELSE c

annotations(c, read) ==
  IF got_type(c, "ANNOTATION") THEN annotations(match(c, "ANNOTATION"), TRUE) ELSE [c |-> c, read |-> read]

(* A class that was already compiled is an error, or it is read again in   *)
(* the place of the previous one, or it is read under a name that nobody   *)
(* knows and then removed.                                                 *)
object(c) ==
  LET noted == annotations(c, FALSE)
      named == expect(match(noted.c, "object"), "STRING")
      name == Lexeme(named)
      duplicate == shallowcheck(c.pool, name, "state:main")
      skip == duplicate /\ c.flags = "skip"
      allow == duplicate /\ c.flags = "allow" /\ ~forbid_duplicates(name)
      alias == ".dup." \o ToString(c.pos)   \* a random name
      start == [Begin(match(named, "STRING"), Append(c.scopes, << >>), 0, FALSE) EXCEPT
                  !.object = IF skip THEN alias ELSE name,
                  !.pool = IF allow THEN remove_object_definition(@, name) ELSE @]
      read == match(objectdecl(match(qualifiers(start), "{")), "}")
      plugged == IF noted.read THEN [read EXCEPT !.plugins = @ \cup {start.object}] ELSE read
      made == Put(plugged, start.object, "__ssconstructor", Program(plugged))
      filed == IF shallowcheck(made.pool, start.object, "get___file") THEN made
               ELSE Put(made, start.object, "get___file", make_file_program)
      left == IF skip THEN [filed EXCEPT !.pool = remove_object_definition(@, alias)] ELSE filed
  IN  IF named.error \/ name = "" \/ (duplicate /\ ~skip /\ ~allow) THEN Fatal(named)
      ELSE [left EXCEPT !.scopes = c.scopes]

objectlist(c) == IF has_token(c) THEN objectlist(object(c)) ELSE c

(* Plugins are imported by their path and known by its last name.          *)
Path(c, names) ==
  LET d == match(c, "IDENTIFIER")
      read == Append(names, Lexeme(c))
  IN  IF got_type(d, ".") THEN Path(match(d, "."), read) ELSE [c |-> match(d, ";"), names |-> read]

importlist(c) ==
  LET path == Path(match(c, "using"), << >>)
      plugin == Last(path.names)
      d == [path.c EXCEPT !.scopes = put_symbol(@, plugin, "plugin", path.names)]
  IN  IF ~got_type(c, "using") THEN c
      ELSE IF has_symbol(c.scopes, plugin) THEN Fatal(path.c) ELSE importlist(d)

(* Names that begin with an underscore cannot be used by scripts.          *)
base_table ==
  LET known == SelectSeq(BuiltinObjects, LAMBDA name : SubSeq(name, 1, 1) # "_")
  IN  [i \in DOMAIN known |-> [symbol |-> known[i], kind |-> "static", address |-> 0]]

(* surgescript_parser_parse(): the text is read into the pool.             *)
parse(pool, flags, text) ==
  objectlist(importlist(
    [code |-> << >>, label |-> << >>, scopes |-> <<base_table>>, arity |-> 0,
     loop_break |-> Undefined, loop_continue |-> Undefined, tokens |-> scan(text), pos |-> 1,
     error |-> FALSE, object |-> "", isState |-> FALSE, depth |-> 0, marks |-> << >>,
     pool |-> pool, flags |-> flags, tags |-> {}, plugins |-> {}]))
================================================================================
