------------------------------ MODULE SymbolTable ------------------------------
(***************************************************************************)
(* The symbol table (compiler/symtable.c): one table per scope, the table  *)
(* of the built-in objects at the bottom, then the one of the object, then *)
(* the one of the function.  A table is a sequence of entries; the scopes  *)
(* are a sequence of tables, the innermost last.  The code that reads and  *)
(* writes a symbol depends on where the symbol lives.                      *)
(***************************************************************************)
EXTENDS Integers, Sequences, SequencesExt

CONSTANT BuiltinObjects  \* the sequence of the names of the built-in objects

(* An instruction; the operands that are not used are zero.                *)
Op(op, a, b) == <<[op |-> op, a |-> a, b |-> b]>>

(* The lines of a call: the two NOPs are room for the inline cache.        *)
Call(name, n) == Op("CALL", name, n) \o Op("NOP", 0, 0) \o Op("NOP", 0, 0)

Getter(name) == "get_" \o name
Setter(name) == "set_" \o name

(* indexof_symbol(): zero when the symbol is not there.                    *)
indexof(table, symbol) ==
  LET found == {i \in DOMAIN table : table[i].symbol = symbol}
  IN  IF found = {} THEN 0 ELSE CHOOSE i \in found : \A j \in found : i <= j

has_local_symbol(scopes, symbol) == indexof(Last(scopes), symbol) # 0
has_symbol(scopes, symbol) == \E i \in DOMAIN scopes : indexof(scopes[i], symbol) # 0

(* The entry that a read or a write finds, from the innermost scope.       *)
entry(scopes, symbol) ==
  LET inner == CHOOSE i \in DOMAIN scopes :
                 /\ indexof(scopes[i], symbol) # 0
                 /\ \A j \in DOMAIN scopes : j > i => indexof(scopes[j], symbol) = 0
  IN  scopes[inner][indexof(scopes[inner], symbol)]

local_count(scopes) == Len(Last(scopes))

put_symbol(scopes, symbol, kind, address) ==
  [scopes EXCEPT ![Len(scopes)] =
     Append(@, [symbol |-> symbol, kind |-> kind, address |-> address])]

(* Built-in objects have a fixed handle or are children of the root.       *)
read_static(symbol, k) == Op("MOVO", k, symbol)

(* A plugin is reached from the Plugin object, one getter after another.   *)
read_plugin(path, k) ==
  Op("MOVO", 0, "Plugin")
    \o FlattenSeq([i \in DOMAIN path |->
         Op("PUSH", 0, 0) \o Call(Getter(path[i]), 0) \o Op("POPN", 1, 0)])
    \o (IF k # 0 THEN Op("MOV", k, 0) ELSE << >>)

read_from_getter(symbol, k) ==
  Op("SELF", 0, 0) \o Op("PUSH", 0, 0) \o Call(Getter(symbol), 0) \o Op("POPN", 1, 0)
    \o (IF k # 0 THEN Op("MOV", k, 0) ELSE << >>)

write_to_setter(symbol, k) ==
  LET w == (k + 1) % 2
  IN  Op("SELF", w, 0) \o Op("PUSH", w, 0) \o Op("PUSH", k, 0)
        \o Call(Setter(symbol), 1) \o Op("POPN", 2, 0)

(* Code that reads the symbol into t[k].                                   *)
emit_read(scopes, symbol, k) ==
  LET e == entry(scopes, symbol)
  IN  CASE e.kind = "heap"     -> Op("PEEK", k, e.address)
        [] e.kind = "stack"    -> Op("SPEEK", k, e.address)
        [] e.kind = "accessor" -> read_from_getter(symbol, k)
        [] e.kind = "static"   -> read_static(symbol, k)
        [] e.kind = "plugin"   -> read_plugin(e.address, k)

(* Code that writes t[k] to the symbol; built-in objects and plugins stay  *)
(* what they are.                                                          *)
emit_write(scopes, symbol, k) ==
  LET e == entry(scopes, symbol)
  IN  CASE e.kind = "heap"     -> Op("POKE", k, e.address)
        [] e.kind = "stack"    -> Op("SPOKE", k, e.address)
        [] e.kind = "accessor" -> write_to_setter(symbol, k)
        [] e.kind \in {"static", "plugin"} -> << >>
================================================================================
