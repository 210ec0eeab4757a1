------------------------------ MODULE Interpreter ------------------------------
(***************************************************************************)
(* The interpreter (runtime/program.c): one instruction of the program on  *)
(* top of the calls is run at each step, on the stack shared by all of     *)
(* them, on the four temporary variables of the environment and on the     *)
(* heap of the object.  A script is compiled, then the application object  *)
(* is constructed and its main state runs once.                            *)
(*                                                                         *)
(* Functions written in C take a single step, except that spawn() runs the *)
(* constructor of a class written in SurgeScript.  The inline cache of the *)
(* calls is left to the module CallSite: a call looks its program up.      *)
(***************************************************************************)
EXTENDS CodeGenerator, Values

CONSTANTS
  Scripts,        \* a sequence of records with the fields flags and text
  Programs,       \* what parse() makes of each of them, in the pool of natives
  StackMap(_),    \* of a program: how high the stack is at each line that may be reached
  Capacity        \* of the stack

(* The programs of a script are records, whatever it is compiled to.       *)
ASSUME ProgramsAssumption ==
  \A k \in DOMAIN Scripts :
    LET c == Programs[k]
    IN  c.error \/ \A key \in DOMAIN c.pool : DOMAIN c.pool[key] = DOMAIN Native

VARIABLES
  script,    \* which one of Scripts
  status,    \* "source", "running", "done", "rejected" or "fatal"
  pool,      \* the programs
  pending,   \* what the host has still to call of the application
  frames,    \* the calls in progress, the innermost last
  stack,     \* the cells of all calls
  tmp,       \* the temporary variables of the environment of each object
  objs,      \* the objects, by handle
  log        \* what was printed

vars == <<script, status, pool, pending, frames, stack, tmp, objs, log>>

SaveBase(bp) == Raw(bp)
BaseOf(var) == var.v
Stack == INSTANCE CallStack WITH Saved <- SaveBase, Restored <- BaseOf, Blank <- Null

HandleOf(name) == CHOOSE h \in DOMAIN BuiltinObjects : BuiltinObjects[h] = name
NewObject(class, parent, data) ==
  [class |-> class, parent |-> parent, state |-> "main", heap |-> << >>, data |-> data]
NewRegisters == [k \in 0..3 |-> Null]   \* surgescript_renv_create()

(* surgescript_object_init() pushes the object and calls its constructors. *)
Constructors == <<"__ssconstructor", "constructor">>

(* The functions in C that programs call, with the number of arguments.    *)
Library ==
  [Object        |-> [spawn |-> 1, get_parent |-> 0, __timeout |-> 1, __assert |-> 4],
   String        |-> [concat |-> 2],
   Console       |-> [print |-> 1],
   Array         |-> [push |-> 1, get |-> 1, set |-> 2, get_length |-> 0, iterator |-> 0],
   ArrayIterator |-> [hasNext |-> 0, next |-> 0],
   Dictionary    |-> [get |-> 1, set |-> 2]]

(* The natives that are in the pool before any script, with a main state   *)
(* for each class that is not written in SurgeScript.                      *)
NativePool ==
  LET bound == UNION {{<<class, name>> : name \in DOMAIN Library[class]} : class \in DOMAIN Library}
      mains == {<<class, "state:main">> :
                  class \in (DOMAIN Library \cup ToSet(BuiltinObjects)) \ {"Object", "Application"}}
  IN  [key \in bound \cup mains |->
         [Native EXCEPT !.arity = IF key \in bound THEN Library[key[1]][key[2]] ELSE 0]]

Init ==
  /\ script \in DOMAIN Scripts
  /\ status = "source"
  /\ pool = NativePool
  /\ pending = <<Constructors, <<"state:main">>>>
  /\ frames = << >>
  /\ stack = Stack!StackCreate
  /\ objs = [h \in DOMAIN BuiltinObjects |-> NewObject(BuiltinObjects[h], 1, << >>)]
  /\ tmp = [h \in DOMAIN BuiltinObjects |-> NewRegisters]
  /\ log = << >>

------------------------------ (* the programs *) ------------------------------
(* surgescript_programpool_get(): a class inherits what Object has.        *)
Lookup(class, name) == IF <<class, name>> \in DOMAIN pool THEN <<class, name>> ELSE <<"Object", name>>

is_jump_instruction(op) == op \in {"JMP", "JE", "JNE", "JG", "JGE", "JL", "JLE"}

(* Before its first run, the jumps of a program are given lines.           *)
remove_labels(program) ==
  LET resolved(line) == IF is_jump_instruction(line.op)
                        THEN [line EXCEPT !.a = program.label[line.a]] ELSE line
  IN  IF program.label = << >> THEN program
      ELSE [program EXCEPT !.label = << >>,
                           !.code = [i \in DOMAIN program.code |-> resolved(program.code[i])]]

Frame(self, key, caller, regs) ==
  [self |-> self, key |-> key, ip |-> 0, caller |-> caller, regs |-> regs, calls |-> << >>]

(* A function in C that calls programs of an object, in its environment.   *)
HostFrame(self, calls) == [Frame(self, << >>, 0, self) EXCEPT !.calls = calls]

Current == Last(frames)
InHost == frames # << >> /\ Current.key = << >>
Running == status = "running" /\ frames # << >> /\ ~InHost
Finished == Current.ip + 1 \notin DOMAIN pool[Current.key].code
Line == pool[Current.key].code[Current.ip + 1]
t(k) == tmp[Current.regs][k]
SetT(k, var) == tmp' = [tmp EXCEPT ![Current.regs][k] = var]
GoTo(line) == frames' = [frames EXCEPT ![Len(frames)].ip = line]
heap == objs[Current.self].heap

------------------------------ (* the callees *) -------------------------------
(* A primitive value is represented by the object of its type.             *)
get_objecthandle(var) ==
  CASE var.type = "object" -> var.v
    [] var.type = "number" -> HandleOf("Number")
    [] var.type = "string" -> HandleOf("String")
    [] var.type = "bool"   -> HandleOf("Boolean")
    [] OTHER               -> 0

Argument(i) == stack.data[Len(stack.data) - Line.b + i]
Callee == get_objecthandle(Argument(0))
Given == IF Argument(0).type = "object" THEN Line.b ELSE Line.b + 1
Key == Lookup(objs[Callee].class, Line.a)

(* What the object manager, the stack and the pool require of a call.      *)
Callable ==
  /\ Stack!CanPush(stack, 1)
  /\ Callee # 0
  /\ Key \in DOMAIN pool
  /\ pool[Key].arity = Given

Compiled(class) == <<class, "__ssconstructor">> \in DOMAIN pool

(* The current state is left as it is; another one needs a program.        *)
KnownState(name) ==
  LET object == objs[Current.self]
  IN  name = object.state \/ Lookup(object.class, "state:" \o name) \in DOMAIN pool

(* The instructions that end the program with an error.                    *)
Faulty ==
  CASE Line.op = "PUSH"               -> ~Stack!CanPush(stack, 1)
    [] Line.op = "PUSHN"              -> ~Stack!CanPush(stack, Line.a)
    [] Line.op = "POP"                -> ~Stack!CanPop(stack, 1)
    [] Line.op = "POPN"               -> ~Stack!CanPop(stack, Line.a)
    [] Line.op \in {"SPEEK", "SPOKE"} -> ~Stack!InBounds(stack, Line.b)
    [] Line.op \in {"PEEK", "POKE"}   -> Line.b >= Len(heap)
    [] Line.op = "CALL"               -> ~Callable
    [] Line.op = "STATE"              -> Line.b = -1 /\ ~KnownState(get_string(t(Line.a)))
    [] OTHER                          -> FALSE

Runs(ops) == Running /\ ~Finished /\ Line.op \in ops /\ ~Faulty

---------------------------- (* the instructions *) ----------------------------
Loaded ==
  CASE Line.op = "MOVN"   -> Null
    [] Line.op = "MOVB"   -> Bool(Line.b)
    [] Line.op = "MOVF"   -> Number(Line.b)
    [] Line.op = "MOVS"   -> String(Line.b)
    [] Line.op = "MOVO"   -> Handle(HandleOf(Line.b))
    [] Line.op = "MOVX"   -> Raw(Line.b)
    [] Line.op = "MOV"    -> t(Line.b)
    [] Line.op = "SELF"   -> Handle(Current.self)
    [] Line.op = "CALLER" -> Handle(Current.caller)
    [] Line.op = "STATE"  -> String(objs[Current.self].state)
    [] Line.op = "PEEK"   -> heap[Line.b + 1]
    [] Line.op = "SPEEK"  -> Stack!peek(stack, Line.b)

Load ==
  /\ Runs({"MOVN", "MOVB", "MOVF", "MOVS", "MOVO", "MOVX", "MOV", "SELF", "CALLER", "STATE",
           "PEEK", "SPEEK"})
  /\ Line.op = "STATE" => Line.b # -1
  /\ SetT(Line.a, Loaded)
  /\ GoTo(Current.ip + 1)
  /\ UNCHANGED <<script, status, pool, pending, stack, objs, log>>

Exchange ==
  /\ Runs({"XCHG"})
  /\ tmp' = [tmp EXCEPT ![Current.regs] =
               [@ EXCEPT ![Line.a] = t(Line.b), ![Line.b] = t(Line.a)]]
  /\ GoTo(Current.ip + 1)
  /\ UNCHANGED <<script, status, pool, pending, stack, objs, log>>

(* The third temporary variable counts in raw bits.                        *)
Added(var, n) == IF Line.a = 2 THEN Raw(var.v + n) ELSE Arith("+", var, Number(n))

Computed ==
  CASE Line.op = "INC"   -> Added(t(Line.a), 1)
    [] Line.op = "DEC"   -> Added(t(Line.a), -1)
    [] Line.op = "ADD"   -> Arith("+", t(Line.a), t(Line.b))
    [] Line.op = "SUB"   -> Arith("-", t(Line.a), t(Line.b))
    [] Line.op = "MUL"   -> Arith("*", t(Line.a), t(Line.b))
    [] Line.op = "DIV"   -> Arith("/", t(Line.a), t(Line.b))
    [] Line.op = "REM"   -> Arith("%", t(Line.a), t(Line.b))
    [] Line.op = "NEG"   -> Negated(get_number(t(Line.b)))
    [] Line.op = "LNOT"  -> Bool(~get_bool(t(Line.b)))
    [] Line.op = "LNOT2" -> Bool(get_bool(t(Line.b)))

Compute ==
  /\ Runs({"INC", "DEC", "ADD", "SUB", "MUL", "DIV", "REM", "NEG", "LNOT", "LNOT2"})
  /\ SetT(Line.a, Computed)
  /\ GoTo(Current.ip + 1)
  /\ UNCHANGED <<script, status, pool, pending, stack, objs, log>>

(* Tests leave their result in the third temporary variable.               *)
Tested ==
  CASE Line.op = "TEST" -> rawbits(t(Line.a))
    [] Line.op = "TCHK" -> typecheck(t(Line.a), Line.b)
    [] Line.op = "TC01" -> And(typecheck(t(0), Line.a), typecheck(t(1), Line.a))
    [] Line.op = "TCMP" -> Xor(typecode[t(Line.a).type], typecode[t(Line.b).type])
    [] Line.op = "CMP"  -> compare(t(Line.a), t(Line.b))

Compare ==
  /\ Runs({"TEST", "TCHK", "TC01", "TCMP", "CMP"})
  /\ SetT(2, Raw(Tested))
  /\ GoTo(Current.ip + 1)
  /\ UNCHANGED <<script, status, pool, pending, stack, objs, log>>

Taken ==
  CASE Line.op = "JMP" -> TRUE
    [] Line.op = "JE"  -> rawbits(t(2)) = 0
    [] Line.op = "JNE" -> rawbits(t(2)) # 0
    [] Line.op = "JL"  -> rawbits(t(2)) < 0
    [] Line.op = "JG"  -> rawbits(t(2)) > 0
    [] Line.op = "JLE" -> rawbits(t(2)) <= 0
    [] Line.op = "JGE" -> rawbits(t(2)) >= 0

Jump ==
  /\ Running /\ ~Finished /\ is_jump_instruction(Line.op)
  /\ GoTo(IF Taken THEN Line.a ELSE Current.ip + 1)
  /\ UNCHANGED <<script, status, pool, pending, stack, tmp, objs, log>>

NoOperation ==
  /\ Runs({"NOP"})
  /\ GoTo(Current.ip + 1)
  /\ UNCHANGED <<script, status, pool, pending, stack, tmp, objs, log>>

PushPop ==
  /\ Runs({"PUSH", "PUSHN", "POPN", "SPOKE"})
  /\ stack' = CASE Line.op = "PUSH"  -> Stack!push(stack, t(Line.a))
                [] Line.op = "PUSHN" -> Stack!pushn(stack, Line.a)
                [] Line.op = "POPN"  -> Stack!popn(stack, Line.a)
                [] Line.op = "SPOKE" -> Stack!poke(stack, Line.b, t(Line.a))
  /\ GoTo(Current.ip + 1)
  /\ UNCHANGED <<script, status, pool, pending, tmp, objs, log>>

PopTemp ==
  /\ Runs({"POP"})
  /\ SetT(Line.a, Stack!top(stack))
  /\ stack' = Stack!popn(stack, 1)
  /\ GoTo(Current.ip + 1)
  /\ UNCHANGED <<script, status, pool, pending, objs, log>>

Allocate ==
  /\ Runs({"ALLOC"})
  /\ SetT(Line.a, Number(Len(heap)))
  /\ objs' = [objs EXCEPT ![Current.self].heap = Append(@, Null)]
  /\ GoTo(Current.ip + 1)
  /\ UNCHANGED <<script, status, pool, pending, stack, log>>

StoreHeap ==
  /\ Runs({"POKE"})
  /\ objs' = [objs EXCEPT ![Current.self].heap[Line.b + 1] = t(Line.a)]
  /\ GoTo(Current.ip + 1)
  /\ UNCHANGED <<script, status, pool, pending, stack, tmp, log>>

SetState ==
  /\ Runs({"STATE"}) /\ Line.b = -1
  /\ objs' = [objs EXCEPT ![Current.self].state = get_string(t(Line.a))]
  /\ GoTo(Current.ip + 1)
  /\ UNCHANGED <<script, status, pool, pending, stack, tmp, log>>

---------------------------- (* calls and returns *) ---------------------------
(* What a function in C does: its value, the objects and the printed text. *)
GrowTo(data, n) == data \o [i \in 1..(n - Len(data)) |-> Null]

Outcome(value, objects, text) == [value |-> value, objs |-> objects, log |-> text]
Value(value) == Outcome(value, objs, log)
Store(data, value) == Outcome(value, [objs EXCEPT ![Callee].data = data], log)
Spawned(class, data) ==
  Outcome(Handle(Len(objs) + 1), Append(objs, NewObject(class, Callee, data)), log)

OfArray(name, data, a) ==
  LET i == get_number(a).v
  IN  CASE name = "push"       -> Store(Append(data, a), Null)
        [] name = "get"        -> Value(IF i \in 0..Len(data) - 1 THEN data[i + 1] ELSE Null)
        [] name = "set"        -> Store([GrowTo(data, i + 1) EXCEPT ![i + 1] = Argument(2)], Null)
        [] name = "get_length" -> Value(Number(Len(data)))
        [] name = "iterator"   -> Spawned("ArrayIterator", [count |-> 0, length |-> Len(data)])

OfIterator(name, data) ==
  CASE name = "hasNext" -> Value(Bool(data.count < data.length))
    [] name = "next" /\ data.count < data.length ->
         Store([data EXCEPT !.count = @ + 1], objs[objs[Callee].parent].data[data.count + 1])
    [] name = "next" /\ data.count >= data.length -> Value(Null)

OfDictionary(name, data, key) ==
  CASE name = "get" -> Value(IF key \in DOMAIN data THEN data[key] ELSE Null)
    [] name = "set" -> Store((key :> Argument(2)) @@ data, Null)

Effect ==
  LET name == Key[2]
      data == objs[Callee].data
      a == Argument(1)
  IN  CASE name = "concat"    -> Value(String(get_string(a) \o get_string(Argument(2))))
        [] name = "print"     -> Outcome(Null, objs, Append(log, get_string(a)))
        [] name = "spawn"     -> Spawned(a.v, << >>)
        [] name = "get_parent" -> Value(Handle(objs[Callee].parent))
        [] name = "__timeout" -> Value(Bool(get_number(a).v <= 0))
        [] name = "__assert"  -> Value(Null)
        [] name = "state:main" -> Value(Null)
        [] Key[1] = "Array"         /\ name # "state:main" -> OfArray(name, data, a)
        [] Key[1] = "ArrayIterator" /\ name # "state:main" -> OfIterator(name, data)
        [] Key[1] = "Dictionary"    /\ name # "state:main" -> OfDictionary(name, data, get_string(a))

(* The functions in C that end the program with an error.                  *)
Refused ==
  \/ Key[2] = "__assert" /\ ~get_bool(Argument(1))
  \/ Key[2] = "spawn" /\ get_string(Argument(1)) \notin {key[1] : key \in DOMAIN pool}
  \/ Key = <<"Array", "set">> /\ get_number(Argument(1)).v \notin 0..Len(objs[Callee].data) + 1023

Calls == Runs({"CALL"})
Returned == [frames EXCEPT ![Len(frames)].ip = @ + 3]   \* past the cache of the call

CallScript ==
  /\ Calls /\ ~pool[Key].native
  /\ stack' = Stack!pushenv(stack)
  /\ pool' = [pool EXCEPT ![Key] = remove_labels(@)]
  /\ frames' = Append(Returned, Frame(Callee, Key, Current.self, Current.regs))
  /\ UNCHANGED <<script, status, pending, tmp, objs, log>>

(* surgescript_object_init() of a class that is written in SurgeScript     *)
(* runs programs; the other functions in C take a single step.             *)
Constructs == Key[2] = "spawn" /\ Compiled(get_string(Argument(1)))

CallNative ==
  /\ Calls /\ pool[Key].native /\ ~Refused /\ ~Constructs
  /\ objs' = Effect.objs
  /\ log' = Effect.log
  /\ tmp' = [tmp EXCEPT ![Current.regs][0] = Effect.value]
              \o [i \in 1..(Len(objs') - Len(objs)) |-> NewRegisters]
  /\ frames' = Returned
  /\ UNCHANGED <<script, status, pool, pending, stack>>

CallSpawn ==
  /\ Calls /\ pool[Key].native /\ ~Refused /\ Constructs
  /\ Stack!CanPush(stack, 2)
  /\ objs' = Effect.objs
  /\ tmp' = Append(tmp, NewRegisters)
  /\ stack' = Stack!push(Stack!pushenv(stack), Effect.value)
  /\ frames' = Append(Returned, HostFrame(Effect.value.v, Constructors))
  /\ UNCHANGED <<script, status, pool, pending, log>>

(* The application is constructed, then its main state runs.               *)
HostBegins ==
  /\ status = "running" /\ frames = << >> /\ pending # << >>
  /\ LET app == HandleOf("Application")
     IN  /\ stack' = Stack!push(stack, Handle(app))
         /\ frames' = <<HostFrame(app, Head(pending))>>
  /\ pending' = Tail(pending)
  /\ UNCHANGED <<script, status, pool, tmp, objs, log>>

(* surgescript_program_call(), for the next of the programs to be called.  *)
HostKey == <<objs[Current.self].class, Head(Current.calls)>>
HostCalls ==
  /\ status = "running" /\ InHost /\ Current.calls # << >> /\ HostKey \in DOMAIN pool
  /\ pool[HostKey].arity = 0 /\ Stack!CanPush(stack, 1)
  /\ stack' = Stack!pushenv(stack)
  /\ pool' = [pool EXCEPT ![HostKey] = remove_labels(@)]
  /\ frames' = Append([frames EXCEPT ![Len(frames)].calls = Tail(@)],
                      Frame(Current.self, HostKey, 0, Current.self))
  /\ UNCHANGED <<script, status, pending, tmp, objs, log>>

(* A constructor that the class does not have is not called.               *)
Optional == Head(Current.calls) \in ToSet(Constructors)
HostSkips ==
  /\ status = "running" /\ InHost /\ Current.calls # << >>
  /\ HostKey \notin DOMAIN pool /\ Optional
  /\ frames' = [frames EXCEPT ![Len(frames)].calls = Tail(@)]
  /\ UNCHANGED <<script, status, pool, pending, stack, tmp, objs, log>>

HostReturns ==
  /\ status = "running" /\ InHost /\ Current.calls = << >>
  /\ frames' = Front(frames)
  /\ IF Len(frames) = 1
     THEN stack' = Stack!popn(stack, 1) /\ UNCHANGED tmp
     ELSE /\ stack' = Stack!popenv(Stack!popn(stack, 1))
          /\ tmp' = [tmp EXCEPT ![Last(Front(frames)).regs][0] = Handle(Current.self)]
  /\ UNCHANGED <<script, status, pool, pending, objs, log>>

(* A program ends at RET, or at its last line.                             *)
Return ==
  /\ Running /\ (Finished \/ Line.op = "RET")
  /\ stack' = Stack!popenv(stack)
  /\ frames' = Front(frames)
  /\ UNCHANGED <<script, status, pool, pending, tmp, objs, log>>

------------------------- (* the beginning and the end *) ----------------------
(* surgescript_parser_parse() is a function of the text and of the pool,   *)
(* which holds the natives: the constant Programs is its value.            *)
Compile ==
  /\ status = "source"
  /\ LET c == Programs[script]
     IN  IF c.error THEN status' = "rejected" /\ UNCHANGED pool
         ELSE status' = "running" /\ pool' = c.pool
  /\ UNCHANGED <<script, pending, frames, stack, tmp, objs, log>>

(* ssfatal(): the program ends with an error.                              *)
Fault ==
  /\ status = "running" /\ frames # << >>
  /\ IF InHost
     THEN /\ Current.calls # << >>
          /\ IF HostKey \in DOMAIN pool
             THEN ~(pool[HostKey].arity = 0 /\ Stack!CanPush(stack, 1))
             ELSE ~Optional
     ELSE /\ ~Finished
          /\ \/ Faulty
             \/ /\ ~Faulty /\ Line.op = "CALL" /\ pool[Key].native
                /\ Refused \/ (Constructs /\ ~Stack!CanPush(stack, 2))
  /\ status' = "fatal"
  /\ UNCHANGED <<script, pool, pending, frames, stack, tmp, objs, log>>

Done ==
  /\ status = "running" /\ frames = << >> /\ pending = << >>
  /\ status' = "done"
  /\ UNCHANGED <<script, pool, pending, frames, stack, tmp, objs, log>>

(* Nothing but its own program keeps a compiled script from going on.      *)
Step ==
  \/ HostBegins \/ HostCalls \/ HostSkips \/ HostReturns
  \/ Load \/ Exchange \/ Compute \/ Compare \/ Jump \/ NoOperation
  \/ PushPop \/ PopTemp \/ Allocate \/ StoreHeap \/ SetState
  \/ CallScript \/ CallNative \/ CallSpawn \/ Return \/ Fault \/ Done

Next == Compile \/ Step

Spec == Init /\ [][Next]_vars /\ WF_vars(Step)

------------------- (* what the stack asks of the code *) ----------------------
(* How many cells a line adds to the frame of its program, and the lines   *)
(* that may be next.                                                       *)
Growth(line) ==
  CASE line.op = "PUSH"  -> 1
    [] line.op = "PUSHN" -> line.a
    [] line.op = "POP"   -> -1
    [] line.op = "POPN"  -> -line.a
    [] OTHER             -> 0

Follows(line, ip) ==
  CASE line.op = "RET"  -> {}
    [] line.op = "JMP"  -> {line.a}
    [] line.op = "CALL" -> {ip + 3}
    [] is_jump_instruction(line.op) /\ line.op # "JMP" -> {line.a, ip + 1}
    [] OTHER            -> {ip + 1}

(* A line that is run when its program has that many cells in use pops and *)
(* passes no more than these, and it reads and writes these, but for the   *)
(* base pointer below them, and the arguments of the program.              *)
LineFits(line, arity, used) ==
  /\ line.op \in {"PUSHN", "POPN"} => line.a \in Nat
  /\ used + Growth(line) >= 0
  /\ line.op = "CALL" => line.b \in 0..used - 1
  /\ line.op \in {"SPEEK", "SPOKE"} => line.b \in (-arity..used) \ {0}

(* The cells that the local variables take at the beginning.               *)
Locals(program) == IF program.code[1].op = "PUSHN" THEN program.code[1].a ELSE 0

(* A program fits its map if that says how many cells are in use at every  *)
(* line that may be reached, the same whichever way it is reached; where a *)
(* statement begins, they are those of the local variables and those that  *)
(* the statements around it keep there.                                    *)
Fits(program, map) ==
  /\ program.label = << >> /\ program.arity \in Nat
  /\ map \in [DOMAIN map -> Nat]
  /\ 0 \in DOMAIN map /\ map[0] = 0
  /\ \A ip \in DOMAIN map :
       /\ ip \in DOMAIN program.marks => map[ip] = Locals(program) + program.marks[ip]
       /\ ip + 1 \in DOMAIN program.code =>
            LET line == program.code[ip + 1]
            IN  /\ LineFits(line, program.arity, map[ip])
                /\ \A next \in Follows(line, ip) :
                     next \in DOMAIN map /\ map[next] = map[ip] + Growth(line)

(* The programs of the script fit their maps.                              *)
Verified ==
  LET c == Programs[script]
  IN  c.error \/ \A key \in DOMAIN c.pool :
                    LET program == remove_labels(c.pool[key])
                    IN  Fits(program, StackMap(program))

(* Wherever a statement begins, the stack of the call holds its local      *)
(* variables and what the statements around it keep there: no statement    *)
(* leaves a value behind, whichever way its loops and switches were left.  *)
StackBalanced ==
  LET program == pool[Current.key]
  IN  Running /\ Current.ip \in DOMAIN program.marks =>
        Stack!sp(stack) - stack.bp = Locals(program) + program.marks[Current.ip]

(* No line of a program meets the bottom of its frame: it never pops what  *)
(* it has not pushed, nor names a cell that is not its own, and there is a *)
(* base pointer to return to (stack.c: the fatal errors of pop(), peek(),  *)
(* poke() and popenv()).                                                   *)
StackFault ==
  /\ Running
  /\ \/ ~Finished /\ Line.op \in {"POP", "POPN", "SPEEK", "SPOKE"} /\ Faulty
     \/ Stack!sp(stack) = 0

(* Whatever a program does, the cells of its callers stay as they are,     *)
(* but for the arguments of the call; and so does the base pointer that it *)
(* has saved, as long as it runs.                                          *)
SameCell(a, b) == a.type = b.type /\ a.v = b.v
CallersKept ==
  LET arity == IF Running THEN pool[Current.key].arity ELSE 0
  IN  frames # << >> =>
        \A k \in 0..stack.bp :
          (k < stack.bp - arity \/ k = stack.bp) /\ k < Len(stack'.data) =>
            SameCell(stack.data[k + 1], stack'.data[k + 1])
FramesProtected == [][CallersKept]_vars
================================================================================
