---------------------------- MODULE ClassRegistry ----------------------------
(***************************************************************************)
(* What is known of the classes of objects: their programs, in the program *)
(* pool (runtime/program_pool.c), and their tags, in the tag system        *)
(* (runtime/tag_system.c).  Both keep a hash table, to be looked up fast,  *)
(* beside other views of the same facts.                                   *)
(*                                                                         *)
(* Signatures of names are assumed to be unique, and the names of programs *)
(* not to be those of tags.                                                *)
(***************************************************************************)
EXTENDS Integers, Sequences, SequencesExt, FiniteSets

CONSTANTS
  Objects,    \* the classes of objects, by name
  Object,     \* the common base of all objects, one of them
  Functions,  \* the names of their programs
  Tags,
  Hash,       \* of the signature of a class and a program, or a class and a tag
  TagGroup,   \* minihash64(): the group of each tag
  Capacity,   \* the capacity of the hash tables at first
  MaxCapacity \* bound of the model: what they may grow to

NULL == "null"

(* A program is native, or made by the compiler.                           *)
Programs == {"native", "script"}

Signatures == Objects \X Functions
TagSignatures == Objects \X Tags

(* fasthash_create() has at least four entries in a table.                 *)
ASSUME HashAssumption == Hash \in [Signatures \cup TagSignatures -> Nat]
ASSUME CapacityAssumption == Capacity \in Nat /\ Capacity >= 4
ASSUME ObjectAssumption == Object \in Objects
ASSUME GroupAssumption == DOMAIN TagGroup = Tags

H == INSTANCE FastHash

VARIABLES
  hash,       \* the programs, by signature
  meta,       \* the names of the programs of each class
  is_locked,
  fatal       \* a call was refused: the program ends

VARIABLES
  tag_table,         \* the signatures of tags
  inverse_tag_table, \* the objects of each tag
  tag_tree,          \* all tags
  bound_tag_system   \* of each object: its tags, in groups, and the set of groups in use

(* History.                                                                *)
VARIABLES
  defined,  \* the program that was last given to each signature
  tagged    \* the tags that were given to objects

pool == <<hash, meta, is_locked, fatal, defined>>
tags == <<tag_table, inverse_tag_table, tag_tree, bound_tag_system, tagged>>
vars == <<pool, tags>>

Init ==
  /\ hash = H!Table(Capacity)
  /\ meta = [o \in Objects |-> << >>]
  /\ is_locked = FALSE /\ fatal = FALSE
  /\ defined = [s \in Signatures |-> NULL]
  /\ tag_table = H!Table(Capacity)
  /\ inverse_tag_table = [t \in Tags |-> {}]
  /\ tag_tree = {}
  /\ bound_tag_system = [o \in Objects |-> [bitset |-> {}, tag_group |-> [g \in Range(TagGroup) |-> {}]]]
  /\ tagged = {}

-----------------------------------------------------------------------------

(* surgescript_programpool_is_compiled().                                  *)
is_compiled(o) == meta[o] # << >>

(* surgescript_programpool_get(): the table is changed by the search, and  *)
(* by the one for the program of the common base.                          *)
Searched(o, f) ==
  IF H!Lookup(hash, <<o, f>>) # NULL THEN H!Swap(hash, <<o, f>>)
                                     ELSE H!Swap(hash, <<Object, f>>)

Get(o, f) ==
  /\ ~fatal
  /\ hash' = Searched(o, f)
  /\ UNCHANGED <<meta, is_locked, fatal, defined, tags>>

(* Bound of the model.                                                     *)
MayGrow(t) == t.capacity < MaxCapacity \/ t.length < t.capacity \div H!SPARSITY

(* surgescript_programpool_put(), with surgescript_programpool_shallowcheck() *)
(* and insert_metadata().                                                  *)
Put(o, f, program) ==
  /\ ~fatal
  /\ IF (is_locked /\ ~is_compiled(o)) \/ H!Lookup(hash, <<o, f>>) # NULL
       THEN fatal' = TRUE /\ UNCHANGED <<hash, meta, defined>>
       ELSE /\ MayGrow(hash)
            /\ hash' = H!Put(hash, <<o, f>>, program)
            /\ meta' = [meta EXCEPT ![o] = Append(@, f)]
            /\ defined' = [defined EXCEPT ![<<o, f>>] = program]
            /\ UNCHANGED fatal
  /\ UNCHANGED <<is_locked, tags>>

(* surgescript_programpool_replace(), of a program that was not executed.  *)
Replace(o, f) ==
  /\ ~fatal
  /\ IF H!Lookup(hash, <<o, f>>) = NULL
       THEN Put(o, f, "native")
       ELSE /\ hash' = LET t == H!Swap(hash, <<o, f>>)
                       IN [t EXCEPT !.data = [k \in DOMAIN t.data |->
                             IF k \in H!Entries(t) /\ t.data[k].key = <<o, f>>
                               THEN [t.data[k] EXCEPT !.value = "native"] ELSE t.data[k]]]
            /\ defined' = [defined EXCEPT ![<<o, f>>] = "native"]
            /\ UNCHANGED <<meta, is_locked, fatal, tags>>

(* A table without the programs of a class that have the given names.      *)
Without(t, o, names) ==
  LET rest[n \in 0 .. Len(names)] ==
        IF n = 0 THEN t ELSE H!Delete(rest[n - 1], <<o, names[n]>>)
  IN rest[Len(names)]

(* The names of a sequence that are in a set, in their order.              *)
Chosen(names, S) ==
  LET some[n \in 0 .. Len(names)] ==
        IF n = 0 THEN << >>
        ELSE IF names[n] \in S THEN Append(some[n - 1], names[n]) ELSE some[n - 1]
  IN some[Len(names)]

Undefine(o, names) ==
  defined' = [s \in Signatures |->
                IF s[1] = o /\ s[2] \in ToSet(names) THEN NULL ELSE defined[s]]

(* surgescript_programpool_purge().                                        *)
Purge(o) ==
  /\ ~fatal
  /\ hash' = Without(hash, o, meta[o])
  /\ meta' = [meta EXCEPT ![o] = << >>]
  /\ Undefine(o, meta[o])
  /\ UNCHANGED <<is_locked, fatal, tags>>

(* pick_non_natives(): programs of a class are looked up.                  *)
LookedUp(t, o, names) ==
  LET looked[n \in 0 .. Len(names)] ==
        IF n = 0 THEN t ELSE H!Swap(looked[n - 1], <<o, names[n]>>)
  IN looked[Len(names)]

(* remove_object_definition() of the parser: each program is looked up,    *)
(* then surgescript_programpool_delete() is called for those that are not  *)
(* native.  The tags remain.                                               *)
RemoveDefinition(o) ==
  LET scripts == Chosen(meta[o], {f \in Functions : H!Lookup(hash, <<o, f>>) = "script"})
  IN /\ ~fatal
     /\ hash' = Without(LookedUp(hash, o, meta[o]), o, scripts)
     /\ meta' = [meta EXCEPT ![o] = Chosen(@, Functions \ ToSet(scripts))]
     /\ Undefine(o, scripts)
     /\ UNCHANGED <<is_locked, fatal, tags>>

(* surgescript_programpool_lock().                                         *)
Lock ==
  /\ ~fatal /\ ~is_locked
  /\ is_locked' = TRUE
  /\ UNCHANGED <<hash, meta, fatal, defined, tags>>

-----------------------------------------------------------------------------

(* surgescript_tagsystem_has_tag().                                        *)
HasTag(o, t) ==
  /\ ~fatal
  /\ tag_table' = H!Swap(tag_table, <<o, t>>)
  /\ UNCHANGED <<pool, inverse_tag_table, tag_tree, bound_tag_system, tagged>>

(* A deviation: the group of a tag is used without its bit.                *)
AddTagWithoutBit(o, t) ==
  /\ ~fatal
  /\ IF H!Lookup(tag_table, <<o, t>>) # NULL THEN UNCHANGED tags
     ELSE /\ MayGrow(tag_table)
          /\ tag_table' = H!Put(tag_table, <<o, t>>, "tag")
          /\ inverse_tag_table' = [inverse_tag_table EXCEPT ![t] = @ \cup {o}]
          /\ tag_tree' = tag_tree \cup {t}
          /\ bound_tag_system' =
               [bound_tag_system EXCEPT ![o].tag_group[TagGroup[t]] = @ \cup {t}]
          /\ tagged' = tagged \cup {<<o, t>>}
  /\ UNCHANGED pool

(* surgescript_tagsystem_add_tag().                                        *)
AddTag(o, t) ==
  /\ ~fatal
  /\ IF H!Lookup(tag_table, <<o, t>>) # NULL
       THEN /\ tag_table' = H!Swap(tag_table, <<o, t>>)
            /\ UNCHANGED <<inverse_tag_table, tag_tree, bound_tag_system, tagged>>
       ELSE /\ MayGrow(tag_table)
            /\ tag_table' = H!Put(tag_table, <<o, t>>, "tag")
            /\ inverse_tag_table' = [inverse_tag_table EXCEPT ![t] = @ \cup {o}]
            /\ tag_tree' = tag_tree \cup {t}
            /\ bound_tag_system' =
                 [bound_tag_system EXCEPT ![o].bitset = @ \cup {TagGroup[t]},
                                          ![o].tag_group[TagGroup[t]] = @ \cup {t}]
            /\ tagged' = tagged \cup {<<o, t>>}
  /\ UNCHANGED pool

(* surgescript_boundtagsystem_has_tag().                                   *)
BoundHasTag(o, t) ==
  /\ TagGroup[t] \in bound_tag_system[o].bitset
  /\ t \in bound_tag_system[o].tag_group[TagGroup[t]]

PoolNext ==
  \/ \E o \in Objects, f \in Functions :
       Get(o, f) \/ Put(o, f, "script") \/ Replace(o, f)
  \/ \E o \in Objects : Purge(o) \/ RemoveDefinition(o)
  \/ Lock

TagNext == \E o \in Objects, t \in Tags : AddTag(o, t) \/ HasTag(o, t)

Next == PoolNext \/ TagNext

Spec == Init /\ [][Next]_vars

-----------------------------------------------------------------------------

(* Whatever was put, deleted, looked up and moved, of whatever keys: a     *)
(* look-up finds what was last put with that very key, and nothing if it   *)
(* was deleted since; there is one entry for each (to be destroyed once),  *)
(* and enough blank ones for every search to end.                          *)
KeepsEntries ==
  /\ \A s \in Signatures : H!Lookup(hash, s) = defined[s]
  /\ \A s \in TagSignatures : H!Lookup(tag_table, s) # NULL <=> s \in tagged
  /\ Cardinality(H!Entries(hash)) = Cardinality({s \in Signatures : defined[s] # NULL})
  /\ \A t \in {hash, tag_table} :
       H!SPARSITY * Cardinality({k \in DOMAIN t.data : t.data[k].state # "BLANK"}) <= t.capacity

(* The views agree: each class lists the programs it has, once each, and   *)
(* the four views of the tags are about the same ones.                     *)
ViewsAgree ==
  /\ \A o \in Objects :
       /\ ToSet(meta[o]) = {f \in Functions : H!Lookup(hash, <<o, f>>) # NULL}
       /\ IsInjective(meta[o])
  /\ \A o \in Objects, t \in Tags :
       LET has == H!Lookup(tag_table, <<o, t>>) # NULL
       IN (has <=> o \in inverse_tag_table[t]) /\ (has <=> BoundHasTag(o, t))
  /\ tag_tree = {t \in Tags : inverse_tag_table[t] # {}}
================================================================================
