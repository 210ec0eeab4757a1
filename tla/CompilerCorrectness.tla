-------------------------- MODULE CompilerCorrectness --------------------------
(***************************************************************************)
(* What the compiler and the interpreter owe to a programmer: scripts that *)
(* follow the rules of the language are compiled and do what they mean.    *)
(* Scripts carry here the trees that their texts were written from.        *)
(***************************************************************************)
EXTENDS Interpreter, Parser, ScriptSyntax

Script == Scripts[script]
Meant(s) == INSTANCE ScriptMeaning WITH Classes <- s.trees, Flags <- s.flags

(* The constant Programs: every script is compiled into a pool that holds  *)
(* the natives and nothing else.                                           *)
Output ==
  LET scripts == Scripts
      natives == NativePool
  IN  [k \in DOMAIN scripts |-> parse(natives, scripts[k].flags, scripts[k].text)]

(* A script is rejected if, and only if, it breaks a rule of the language  *)
(* (parser.c: every ssfatal() of the recursive descent).                   *)
Predefined == {name \in ToSet(BuiltinObjects) : SubSeq(name, 1, 1) # "_"} \cup {"parent"}
RulesEnforced ==
  [][status = "source" =>
       (status' = "rejected" <=> ~Allowed(Script.trees, Script.flags, Predefined, ToSet(BuiltinObjects)))]_vars

(* When it ends, a script printed what it means, and it ended with an      *)
(* error only where its meaning is an error, or where a recursion without  *)
(* end has filled the stack (compiler/asm.c and run_instruction()).        *)
ReturnsMeaning ==
  [][status' \in {"done", "fatal"} =>
       IF Script.endless THEN status' = "fatal"
       ELSE LET m == Meant(Script)!Meaning
            IN  log' = m.log /\ (status' = "fatal" <=> m.jump = "crash")]_vars

(* The code of every script that is compiled has one height of the stack  *)
(* for each line, whichever way the line is reached: what a loop, a        *)
(* switch or an expression pushes is popped on all of their ways out.      *)
CodeIsVerified == [][status' = "running" /\ status = "source" => Verified]_vars

(* Every script that is compiled ends, one way or another: there is no     *)
(* loop that its meaning does not have.                                    *)
Ends == (status = "running") ~> (status \in {"done", "fatal"})
================================================================================
