# A TLA+ model of SurgeScript

SurgeScript is a scripting language for games: objects live in a tree, each
object runs the code of its current state once per frame, and a virtual machine
in C compiles and interprets the scripts.  The specifications in this directory
model the core of that machine (`src/src/surgescript/`), TLC checks them on
small instances, and TLAPS proves their main properties for instances of every
size.  Paths below are relative to the repository.

The program is single-threaded.  What makes it hard is not parallelism but
**re-entrancy**: nearly every loop of the runtime calls back into script code,
which may spawn, kill and look up objects while the loop holds indices and
pointers.  The second difficulty is **work spread over frames** (the garbage
collector), the third **self-modifying code** (the call instruction).  No data
survives the process, and there are no messages or threads: there is no crash
recovery and no delivery to model.

## Inventory

| Component | State | Operations | What can go wrong | Module |
|---|---|---|---|---|
| Handle table (`runtime/object_manager.c`) | `data[]`, `next_handle`, `count` | spawn, delete, get | a handle handed out twice or never; the table growing without need | `HandleTable` |
| Object tree (`runtime/object.c`) | `parent`, `child[]`, `depth`, `is_killed` | add/remove child, kill, destroy (recursive, runs destructors), reparent | parent pointers and child lists that disagree, double destruction, orphans, stale depths | `ObjectTree` |
| Frame update (`runtime/vm.c`, `object.c`, `sslib/system.c`, `sslib/application.c`) | stack of the traversal, `is_active`, the exit flag of System | launch, update, set_active, exit, terminate | a traversal over lists that change under it; order of destruction at the exit | `FrameUpdate` |
| Garbage collector (`object_manager.c`, `sslib/gc.c`, `heap.c`, `stack.c`) | `is_reachable`, the queue of objects to scan | garbagecheck, garbagecollect | reachable objects swept, garbage kept for ever | `GarbageCollector` |
| Program pool (`runtime/program_pool.c`) | signature to program | get (with inheritance from `Object`), put, replace | an executed program destroyed or superseded | `ProgramPool` |
| Call instruction (`runtime/program.c`) | the three words of a CALL: class, count, cached program, lock | CALL, OPTCALL, de-optimisation | a rewrite under a recursive call, a stale cache | `CallSite`, `DynamicDispatch` |
| Interpreter (`program.c`, `stack.c`, `variable.c`, `renv.c`) | programs with labels, calls in progress, the shared stack, four temporary variables per object | the instruction set, calls of scripts and of C functions, run-time errors | unbalanced environments, cells of a caller overwritten, jumps to labels that were not resolved | `Interpreter`, `CallStack`, `Values` |
| Compiler (`compiler/`) | tokens, tables of symbols, the program under construction, the pool | parsing, generation of code, treatment of duplicates | operands left on the stack, wrong addresses of locals, wrong texts accepted | `Lexer`, `Parser`, `SymbolTable`, `CodeGenerator` |
| Dictionary (`sslib/dictionary.c`) | a search tree of objects, an iterator with a stack | set, get, delete, clear, iterate | entries lost with others, an order that is broken, entries missed or met twice | `Dictionary` |
| Heap and array (`runtime/heap.c`, `sslib/array.c`) | cells, an allocation pointer; the length and the elements in consecutive cells | malloc, free; push, pop, set, sort, iterate ... | a hole in the cells, a sort or an iterator disturbed by scripts | `Heap`, `ArrayObject` |
| Hash tables (`util/fasthash.c`), names of the pool, tag system (`tag_system.c`) | open addressing with ghosts; lists and bit sets of the same facts | put, get, delete, purge; add and query tags | duplicates, entries lost behind a ghost, views that disagree | `FastHash`, `ClassRegistry` |
| Time (`vm_time.c`, the time of states in `object.c`) | a time in milliseconds, a reference, a pause | update, pause, resume, set_state | jumps, a time that goes back, a negative age | `VMClock` |
| Plugins, temporary objects | children of system objects | spawn, accessors | | not modelled |
| Math, String, Date, Console, utilities, third party | none, or text | pure functions, input and output | | not modelled |

How they interact: the **compiler** fills the program pool; the **virtual
machine** locks it, spawns System, whose constructor spawns the system objects
and Application; each call of `surgescript_vm_update()` traverses the **object
tree** and runs the **interpreter** on the state of every active object; calls
go through the **program pool** or the cache of the **call instruction**;
`spawn()` takes a handle from the **handle table** and links the object to the
tree; `destroy()` sets a flag that a later traversal obeys; the main state of
the system object `__GC` advances the **garbage collector**, which reads the
**heaps** and the **stack** for references and deletes subtrees.

## Modules

* `HandleTable`: the operations of the table, which `ObjectTree` composes into
  actions.  `Allocate(h)` is the part of `surgescript_objectmanager_spawn()`
  that finds a handle, extends the table and rewinds `next_handle`; `Free(h)` is
  `..._delete()`.
* `ObjectTree` (extends `HandleTable`): the tree.  Destruction is recursive and
  runs destructors at every level, so it is not one action: `destroying` is the
  call stack of `surgescript_object_destroy()` and `cursor` the progress of each
  activation; between two steps of the recursion, while a destructor runs,
  scripts may spawn, kill and ask for a collection (`DestructorsSpawn`).
  `Sweep(o)` is the deletion of one object by `garbagecollect()`, which enters
  `surgescript_objectmanager_delete()` whatever is being destroyed already;
  `sweeping` is its place on the stack.  Which objects have marks is the matter of
  `GarbageCollector`; here it is any object below the root of which nothing is
  in use.  Nothing in the code keeps a sweep from an object that is in use: one that
  is being destroyed, visited, or waits for a call to return.  `SweepOvertakes`
  is that sweep.  The program then goes on with freed memory; `overtaken`, which
  is not in the code, records it, and the model takes no further step.
* `FrameUpdate` (extends `ObjectTree`): the traversal of the tree is recursive
  and runs states of objects at every level: `visiting` and `index` are its
  call stack.  `Update(o)` is `surgescript_object_update()`, `EndState` the
  return from the code of a state (that of System kills the root after an
  exit), `VisitChild` one turn of the loop, `Destruction` the recursion of
  `ObjectTree` going on in the midst of the traversal.  Scripts call
  `System.gc.collect()` in any state and any destructor, and the main state of the
  collector does once per interval: `SweepsGarbage` deletes an object that is not on
  the stack of the traversal, `SweepsInUse` one that is, or another one in use
  (`SweepOvertakes`).  `visited` and
  `shortened` are history variables, not in the code.
* `GarbageCollector`: scripts store, drop, spawn and delete in any order,
  between the steps of the collector (`GCMain`, once per frame, and
  `CollectCall`, any time).  `hidden` is not in the code: it records that a store
  has hidden a reference from the present cycle, as the collector has no write
  barrier.
* `ProgramPool`: one function name; which classes have a function of their own,
  and which programs have been executed.  `late` is not in the code: it records
  the classes that got a function of their own when the one they had inherited
  from `Object` had been executed already.
* `CallSite` (extends `ProgramPool`): one CALL instruction and the calls in
  progress through it; the code that is called may reach it again.
* `DynamicDispatch`: what a function call promises; `CallSite` implements it.
* `Dictionary`: the binary search tree under a dictionary.  Its nodes are objects
  of the tree of objects, where a node lies below the one it was inserted under,
  and stays there when the search tree is reordered.  `Frame` and `Sweep` are
  the two ways in which killed or unreachable nodes, with all that lies below
  them, are destroyed.  `yielded`, `expected` and `disturbed` are history
  variables.  One iterator is in use at a time.
* `KeyValueMap`: what a container with keys promises; `Dictionary` implements it,
  with the reservation that is expressed by `fragile`.
* `SweepDestructors` (extends `GarbageCollector`): the sweep one deletion at a
  time, with the destructors that run in between; `loops` holds the index of each
  activation of `surgescript_objectmanager_garbagecollect()`.
* `Values`: tagged values, their conversions and comparisons, with the type codes
  that instructions combine bit by bit.  Numbers are integers with the sign of
  zero and of NaN: minus zero has bits, which conditions and the comparison with null
  look at, and is written as `-0`.  `CallStack`: the stack of cells, with
  `pushenv` and `popenv`.
* `Lexer`, `SymbolTable`, `CodeGenerator`, `Parser`: the compiler as a function
  from a text and a pool to a pool.  There is one operator per nonterminal of the
  grammar and one per emit function of `asm.c`; the compilation context is passed
  along and returned, as the C code does by pointer.  Its fields `depth` and
  `marks` are not in the code: they record, at each statement, how many cells the
  statements around it keep on the stack.
* `Interpreter` (extends `CodeGenerator`, `Values`): one step per instruction.  A call
  of a script pushes a frame; a function in C is one step, except `spawn()`, which
  runs constructors.  The life of a script is `Compile`, then the construction of
  the application, then one run of its main state.  What `parse()` makes of each
  script is the constant `Programs`, which every configuration gives as the
  operator `Output` of `CompilerCorrectness`, so that TLC computes it once.
  `StackMap` gives the height of the stack at each line of a program, which
  `MCInterpreter` computes by following the program; neither the compiler nor the
  interpreter has such a map, and it takes no part in the steps: `Verified` says
  that the programs of a script fit their maps.
* `ScriptSyntax`: scripts as trees, how a tree is written as a text, and the rules
  of the language.  `ScriptMeaning`: what a tree means, evaluated directly, without
  code, stack or registers.  Both are written without looking at how the compiler
  works: they are what it is held against.
* `CompilerCorrectness`: what the compiler and the interpreter owe to a
  programmer, in terms of the two.
* `Heap`, `ArrayObject`: cells, and the array on top of them.  A call that runs
  scripts or a loop worth following (setting beyond the end, sorting, shuffling)
  is a `task` of several steps; between two of them a comparator may change
  the array.  `List` is what an array promises, and `ArrayObject` implements it.
* `FastHash`: the hash table, an operator per function.  `ClassRegistry` puts two
  of them beside the other views that the program pool and the tag system keep of
  the same facts; `defined` and `tagged` are history variables.
* `VMClock`: the clock of the machine and the time an object spends in a state,
  on a system clock that passes, and that may be adjusted.  `running`, `recent`,
  `dropped`, `ahead`, `behind` and `entry` are history variables.
* `FrameUpdateProofs` (with those of the handle table and of the object tree),
  `GarbageCollectorProofs`, `CallSiteProofs`, `InterpreterProofs`,
  `DictionaryProofs`, `ClassRegistryProofs`, `ArrayProofs`, `VMClockProofs`:
  theorems.
* `MC*`: instances for TLC.

In each module the definitions commented "A deviation" are plausible bugs of
the operation they stand next to.  They take no part in the specification: put
in its place they make a property fail, which shows that it can.

## Runs

| Run (configuration) | Instance | Shows |
|---|---|---|
| `object_tree` (`MCObjectTree`) | 5 handles, at most 4 objects, 4 slots at first, sweeps, a host that moves objects | the table is sound while it grows and recycles handles; links agree, one tree; destructions end |
| `frame_update` (`MCFrameUpdate`) | 6 objects: System, a service, Application, three more; changes of the active flag; exits through `Application.exit()` | nothing is visited twice, nothing is skipped but behind a deletion, depths, the order of the destruction; frames end, exits are carried out |
| `frame_host` (`FrameHost`) | 5 objects, 7 handles; destructors that spawn, sweeps in states and in destructors, exits, terminations, moves by the host | unless a sweep deletes an object in use, the traversal never meets an object that is gone or being destroyed, and nothing is destroyed twice; every step is one of `ObjectTree` |
| `garbage_collector` (`MCGarbageCollector`) | 4 handles, 1 reference each | tri-colour invariant; only garbage is swept, System never, and the garbage goes in the end |
| `collecting_destructor` (`SweepDestructors`, violated) | 4 handles, 1 reference each | see Findings |
| `call_site` (`MCCallSite`) | 3 classes, threshold 2, 3 calls deep | the instruction implements dynamic dispatch; late bindings destroy nothing that runs; every call is made |
| `compiled_programs` (`MCInterpreter`) | 378 scripts | what breaks a rule is rejected and nothing else is; what is compiled prints and ends as its tree means; every statement finds the stack as high as its nesting says; the code of each has one height of the stack at every line (`CodeIsVerified`); calls leave their callers' cells alone; scripts end |
| `continue_in_switch` (`ContinueInSwitch`, violated) | 4 scripts | see Findings |
| `dictionary` (`MCDictionary`) | 4 keys, 4 nodes, one value | the search tree stays ordered and acts as a map but for the entries below a removed node; an iterator returns each entry once |
| `array` (`MCArray`) | 2 values, a heap of 3 cells that grows to 6, and is exhausted then | the elements stay in consecutive cells, an array is a list, iterators visit what they were made for, sorts end in order |
| `registry` (`MCRegistry`) | 2 classes, 2 functions, 2 tags, colliding signatures, tables of 8 to 32 slots | a lookup finds what was last put, whatever ghosts and moves; the views of the pool and of the tags agree |
| `clock` (`VMClock`) | 5 ms, 8 ticks of the system clock, one adjustment of 1 or 3 ms in either direction while running | the time is that of the running machine but for what was adjusted; the age of a state is never negative and as exact |

**Bounds.**  `MaxHandle` and `MaxLive` bound the table and the objects: four
objects make a chain of three under the root and two branches, which is what
moves, nested destructions and reused handles need; six objects in
`FrameUpdate` leave three for the scripts beside System, a service and
Application.  `TableSize` is 65536 in the code; 4 lets the table grow within
the bound.  `MaxDepth` bounds the recursion through one call instruction: three
levels let a lock be taken, found taken, and found taken by a lookup.
`Threshold` is the number of consecutive calls before an optimisation; 2
stands for any number above 1.  `MaxRefs` bounds the references of an object.
The scripts of `MCInterpreter` combine the constructs of the language two by
two: 70 pairs of operators, an expression within each other kind of expression,
each loop and the switch around each loop, branch and switch with each way to
leave the inner and the outer one, calls, objects, collections, duplicate
classes under each of the three policies, and each rule of the language broken
once.  Bugs of a code generator show at the seam of two constructs; a third level
adds no seam.  `Capacity` is 60 cells instead of 65536, which only an endless
recursion reaches, and one of the scripts is one.
In `MCArray` a call of several steps begins only with no iterator in use and a
null result, and while an iterator is in use the calls are those that return an
element or nothing: this keeps apart combinations that no operation relates.
Two values give equal and unequal elements to a sort; a heap of 3 cells is doubled
once, and the bound of 12 refuses it a second time (twice makes a run of more than ten
times the states; `ArrayIsContiguous` is for any number of doublings).  `Gap` is how far beyond its end an array is set (1024 in the code).  In
`MCRegistry` either the pool or the tags are used, as no operation is about both;
the signatures make entries of different keys share a slot at the end of the
table and wrap around.
`MaxNodes` bounds the nodes that a dictionary ever spawns: four are the smallest
tree in which the node that replaces a removed one lies deeper than its child
and has something to its left.  One value is enough, because removals move
nodes and never values.
`frame_update` has no sweeps (`Sweeps`): its liveness properties would be about
frames that a collection may always interrupt, and need stronger fairness than
that of one thread.  Its safety properties are proved with sweeps.
`Reparent` has a bound on depths because stale depths grow without limit.
Most configurations switch off the check for deadlocks: the instances
stop where a bound is reached, and a machine whose root is gone has nothing to
do.

**Symmetry** is used only in `LostReference.cfg` (see below), for the handles of
scripted objects, as the collector does not order handles; never with
liveness.

**Fairness.**  The interpreter is one call stack of one thread.  Weak fairness
is asked of the steps that the C code takes by itself (the recursion of a
destruction, the loop of a traversal, the return from a state, the run of an
instruction), which cannot stop but by ending the program; `BeginFrame` is fair
because the host calls `surgescript_vm_update()` in its main loop, and
`GCMain(TRUE)` because frames go on and the interval elapses.  That a
state or a destructor returns is an assumption on scripts: it is part of the
fairness of `EndState` and of `DestructorReturns`.  In `Interpreter` the fairness of `Step`
says that the interpreter goes on; in `ArrayObject` that of `SortStep` says that
the sort goes on, which includes that a comparator returns.  Nothing is asked of
scripts or hosts otherwise.  `GarbageIsCollected` holds only for scripts that come to
leave their references alone, and says so.

## Findings

Two places where the code does not do what a document says, each the
counterexample of a run.

1. `collecting_destructor`: a destructor that the collector runs and that calls
   `System.gc.collect()` destroys the whole machine.  The sweep resets the marks
   before it deletes (`object_manager.c:512`), so the sweep within the sweep finds
   the root without a mark, and schedules it.  `docs/reference/gc.md:4` promises
   that what is reachable from the root is kept.  The compiled program confirms it:
   it stops with "null pointer exception".
2. `continue_in_switch`: a `continue` within a `switch` within a loop leaves the
   value of the switch on the stack (`asm.c:847`); in a `foreach` the next round
   calls the methods of the iterator on that value, and the program stops.
   `docs/tutorials/loops.md:165` promises the next iteration.

Seven more are reproduced by hand, with a configuration that no run uses or with
one line changed in one that a run does.

| What happens | What is said | How to see it |
|---|---|---|
| An object that a destructor spawns on its dying parent, with the handle of a sibling that is gone, is never linked (`object.c:559`) | "All other objects are descendants of System" (`docs/tutorials/object_tree.md:15`) | `OrphanSurvives.cfg`, `MCObjectTree` |
| The sibling after a deleted object misses one frame (`object.c:911`) | "once a state is active, its code will be repeated at every frame" (`docs/tutorials/objects.md:71`) | `SkippedObject.cfg`, `MCFrameUpdate` |
| `System.exit()` destroys the system objects before the application (`vm.c:305`) | its comment means to prevent that (`sslib/system.c:107`) | `ServicesGone.cfg`, `MCFrameUpdate` |
| A reachable object is swept when its only reference moves behind the collector's back (`object_manager.c:537`) | `docs/reference/gc.md:4` | `LostReference.cfg`, `MCGarbageCollector` |
| A sweep frees objects that are in use: an object that nothing refers to and whose state calls `System.gc.collect()` when its mark is gone, or whose ancestor's mark is, is freed under `surgescript_object_update()` (`object.c:891`), which goes on with it; compiled with an address sanitizer, such a program stops with a use after free (`program.c:463`) | `docs/reference/gc.md:4`: unreachable objects are disposed of, of running ones nothing is said | `SweepsInVisit` in place of `SweepsGarbage`: `TraversalIsPath` fails; likewise `SweepAnything` for `Sweep` and `DestroyedOnce` |
| Deleting an entry takes with it, one frame later, those that were inserted below it (`dictionary.c:817`) | it deletes "the entry having the specified key" (`docs/reference/dictionary.md:110`) | `PROPERTY OthersStay` in `MCDictionary.cfg` |
| An assertion that is true leaves a cell on the stack (`asm.c:714`); in a `foreach` the program stops | "If that condition turns out to be false, the program will be interrupted" (`docs/tutorials/advanced_features.md:46`), and not otherwise | `Scripts <- MCAsserts` in `ContinueInSwitch.cfg`; its code has no map of the stack (`CodeIsVerified` fails) |

Limits that were met and have no property of their own:

* The table of handles may double while nearly all its slots are free, for the
  search goes back only when the table is extended at a power of two
  (`object_manager.c:258`).  Moving an object leaves the depths of its descendants
  as they were (`object.c:615-662`): `DepthInTree` is for hosts that move
  nothing.  An object that a destructor spawns during a sweep keeps its mark into
  the next cycle, in which it is not scanned.
* A function that is bound to a class after a call instruction cached the
  inherited one does not reach that instruction (`program.c:792`): this is the
  exception that `DynamicDispatch` makes for the classes in `late`.
* Where duplicates are allowed, a class whose first definition had no main state
  is rejected if the second one has it (`parser.c:495-511`); tags of the first
  stay.  A duplicate that is skipped leaves its tags, an empty main state, and a
  plugin if it is one, under a made up name.
* `x %= e` is documented (`docs/tutorials/expressions.md:161`), and is an
  error for variables and properties.  A compound assignment to an accessor
  of the same object computes with its value twice.  `""` is true in a condition,
  while `!""` is true as well, and so is `-x` for an `x` that is null or 0, for
  minus zero has bits (`variable.c:607`, `program.c:652-654`); it is written as `-0`.
  `null` is less than any negative number, and than any other value that has bits
  (`variable.c:555`).  NaN equals every number.
* The hash table never counts deletions, so its length includes ghosts, and
  a delete stops at a ghost of the same key.  `purge` has no caller in `src/`.
* The time library and the interval of the collector follow the system clock;
  a timeout may come early by the part of the frame that had passed when the
  state was entered.
* `next()` of an array iterator stops the program if the array got shorter
  (`array.c:460`); a comparator that removes elements frees the pivot of the sort
  that is using it, which the model assumes not to happen.  Writing an array as
  text replaces its elements that are objects by their texts.

## Proofs

Each theorem is of the form `Spec => []P` or `Spec => [][A]_vars` (those about
the interpreter have `Spec /\ Verified` on the left), for all
values of the constants under the assumptions named in the modules
(`TableAssumption`, `TreeAssumption`, `GCAssumption`, `FrameAssumption`,
`PoolAssumption`, `SiteAssumption`, `ProgramsAssumption`, `DictionaryAssumption`, `HeapAssumption`,
`ArrayAssumption`, `ClockAssumption`; those of `ClassRegistry`, of which one says
something about the code: a table has at least four entries, as
`fasthash_create()` sees to at `fasthash.c:77`), which TLC evaluates in the runs.

* **Handle table.** `TableInv` is `TableOK` with types and the exact count; the
  only delicate step is `Allocate`, where the rewind to the middle of the table
  must stay above the null handle and the next search must not start past the
  end.
* **Object tree.** `LinksAgree` is not inductive by itself.  `TreeInv` adds what
  the recursion relies on: an object that is being destroyed is on the stack
  once, only the outermost can have a parent, cursors are zero off the stack and
  positive below its top but for the destructor that asked for a sweep, and list
  entries *behind* a cursor may be stale while
  those *ahead* of it (`Pending`) are exact.  `SweepOK` is about a
  sweep that a destructor asked for: there is a set of objects that holds the
  parents of its members, the object whose destructor runs among them, and nothing
  that the sweep destroys.  It stays such a set whatever the destructors in the sweep
  spawn and kill, so the recursion of the sweep never comes up from below to what
  is being destroyed outside of it.  From these follow `LinksAgree`,
  `DestroyedOnce` and `NoNullInDestroy`, with destructors that spawn, kill and
  sweep and hosts that move objects, as long as no sweep deletes an object in use.  `OneTree` needs destructors not to spawn (run
  `OrphanSurvives` shows why), `DepthsAreExact` a host that does not move
  objects.
* **Frame update.** Every step of a frame is one of `ObjectTree` or leaves the
  tree alone (`FramesImplementTree`), so what is proved of the tree holds in the
  midst of a traversal.  `FrameInv` adds two things.  `PathInv`: the stack of the
  recursion is a path of the tree from the root, without repetition and without
  an object that is being destroyed (`TraversalStaysOnPath`); a destruction
  cannot reach it because it only walks down from an object beside or below the
  path; that holds of a sweep as well, whose object has nothing in use below it.
  A sweep on the path itself is outside of the theorem (`overtaken`), as the code
  has no answer to it.  `ScanInv`: in the list of each object on that path, what is ahead of the
  index has not been visited and what is behind it has, unless the list lost an
  entry; the parent of a visited object was visited.  A removal moves entries
  only from *ahead* to *behind*, hence `VisitedOnce`, and objects are skipped
  only behind a deletion (`SkippedBehindDeletion`).
* **Exit** (`ServicesGoLast`). `ExitInv` says that, as long as there is an
  application, System has the system objects and the application as its
  children, in this order, and is killed only after the application and only
  when its own traversal leaves it; afterwards nothing but the system objects is
  left.  The last part is a closure argument (`OnlyUnderApplication`): in a tree
  there is no set of objects that are the children of each other only.  It
  assumes that destructors do not spawn, and that neither `System.exit()` nor the
  host ends the program; with `System.exit()` it is false (run `ServicesGone`).
* **Garbage collector.** `GCInv` joins the tri-colour invariant with the queue
  (only marked objects wait; until a cycle was started everything is marked;
  System's reference is marked or still to be scanned).  `OnlyGarbageIsSwept`
  then follows from a closure argument: when nothing waits, the marked objects
  contain all that is reachable.
* **Call instruction.** `SiteInv` says that the lock counts the calls in
  progress that took it, that a regular lookup happens only above such a call,
  that every such call finds the instruction as it left it, and that all that
  runs or is cached has been executed.  `DispatchInv` adds that the cached
  program and those running are ones that their class may run: what a lookup
  finds, or found before a late binding.  `BindKeepsCallees` is the step where
  the history variable `late` is needed.  `DispatchIsDynamic` is the refinement
  of `DynamicDispatch`.
* **Interpreter.** The stack is shared by all calls, and nothing in the C code but
  a fatal error keeps an instruction from cells that are not its own: that the
  code is balanced is up to the compiler.  The hypothesis `Verified` is what a
  bytecode verifier would ask of that code: for every line that may be reached
  there is one height of the stack, whichever way the line is reached; no line pops
  or names more than that, and at the beginning of a statement it is that of the
  local variables and of what the statements around it keep.  TLC checks that
  the compiler's code passes for all 378 scripts (`CodeIsVerified`), and finds
  that it does not for those of the findings about `continue` in a `switch` and
  about assertions in loops.  The theorems say what follows for programs of any
  size, objects of any number and calls of any depth.  `StackBalanced` and
  `FramesProtected` are not inductive: what a return finds depends on
  all frames below.  `StackInv` says that the frames lie on each other
  without a gap (`Chain`): for each, the base pointer that it saved is that of the
  frame below; the frame below ends where it begins and is as high as its map says
  at the line of the call, the arguments included, which belong to the caller.
  Five things can happen to it, with a lemma each: the innermost call runs a line
  (`Advance`), gets ready for another (`Prepare`), which begins (`Enter`), ends
  (`Leave`), or the run ends.  `StackIsBalanced`, `CallersAreProtected`,
  `NoStackFault` and `HostFindsEmptyStack` follow; for the last, a
  function in C that runs constructors is a frame as well.
* **Dictionary.** The walks along the tree (`End`) and the sets of nodes from a
  node on (`Reached`) are recursive functions on the nodes that exist, whatever
  the references: that such functions exist at all (`EndSolves`,
  `ReachedSolves`) is proved first, by a least fixed point, as there might
  be a cycle.  `Shape` says that the tree is a search tree, by the nodes from each
  node on: those to the left have smaller keys, those to the right greater ones.
  It excludes cycles, and whatever set fits a description of that kind is the tree
  (`Unique`), which gives the tree after a step by exhibiting it: with a node
  more (`Grown`), with one replaced (`Replaced`, `Removed`), and cut where nodes
  vanish (`Shrunk`).  What is found at the end of a search follows
  (`BottomIsFound`, `ContentsFound`), hence `SearchFindsTheTree`.
* **A dictionary is a map** (`DictionaryIsMap`).  `Inv` adds to `Shape` how the two
  trees over the nodes are related (`SpawnedUnder`): a node of the search
  tree that is not below a killed one was spawned on the node that refers to it.
  So only nodes below a killed one can vanish from the tree (`OnlyLost`), and
  with them goes all that they refer to (`LostOnwards`): this is the whole
  extent of the loss reported under Findings.
* **Iterating over a dictionary** (`IteratorReturnsAll`).  `Visits` is the
  invariant of the traversal with a stack: the parts of the tree from the nodes on
  the stack on are disjoint, no node that was returned is in one of them, and
  what was expected has been returned or is in one.  A node that is inserted meanwhile comes
  into a part of which its parent is one already (`VisitsGrows`).
* **Array.** `ArrayIsContiguous` is what the comment at `array.c:120` relies on.
  `Contiguous` is not inductive: which cell an allocation yields depends on
  where the pointer stands, and a task of several steps is in between.
  `ArrayInvariant` adds `HeapOK` (the cells in use are those of the length and of
  the elements, and the pointer is at most one past them: `Packed`) and `TaskOK`
  (a set that grows the array is short of its target, the bounds and the pivot of
  each part of a sort lie among the elements), and that no assertion failed.
  Growth never moves the pointer, so the next cell is always the one after the
  last element.
* **An array is a list** (`ArrayIsList`). There is a lemma for each operation; it
  says which step of `List` it is, or that it is none.  A set beyond the end has
  its effect when the value is stored, so while it runs the list is the one it
  began with (`Size`), and `SetOK` says that the cells since added are null and
  end at the index.  An exchange of a sort or of a shuffle is an exchange of the
  list.  `IteratorVisitsElements` needs that what was to be visited is still in
  its place as long as the iterator was not disturbed (`VisitInvariant`).
* **Sorting** (`SortedWhenDone`). `SortInvariant` is the argument for quicksort
  with an explicit stack: the ranges that wait and the one that is partitioned
  have no cell in common (`Apart`), two cells that are not in the same range are
  already in order (`Ordered`), and within the range that is partitioned those
  before `p` go before the pivot and those from `p` to `i` after it (`Divided`).
  Elements are exchanged only within a range (`SwapInRange`), so they never
  disturb `Ordered`; when no range is left everything is in order.  That sorting
  ends stays with TLC.
* **Hash tables** (`TableKeepsEntries`).  That a look-up finds what was put depends
  on where everything lies.  `TableInv` has three parts besides the types.
  `Room`: the length counts the places that are not blank, entries and ghosts,
  and is at most a quarter of the capacity, so every probe ends (`ProbeEnds`).
  `Reached`: no blank is between the home of a key and an entry or a ghost of it.
  `First`: an entry comes before all else that has its key, and all that is
  ghosts.  `First` is why `fasthash_delete()`, which stops at the first thing
  that has the key, deletes the entry, and it is what is delicate in
  `fasthash_get()`, which moves an entry to the first ghost on the way: that is
  before every ghost of its own key (`SwapKeeps`), and the ghost that takes the
  place of the entry, whatever its key, can still be reached, because two probes
  that pass a place go on together (`Between`).  `fasthash_put()` takes the first
  ghost (`InsertKeeps`), and growth puts the entries again without ghosts
  (`GrowKeeps`).  It holds for every key set and every hash, so the signatures
  may collide at will.  What the table has is stated by `Has`, and the two
  properties follow from that alone.
* **Views of the classes** (`ViewsStayInAgreement`).  `PoolInv` says that the table
  and the lists of names are about the programs last defined, `TagInv` that an
  object with a tag has the bit of its group, and that no tag is in the group of
  an object that does not have it; without the latter, the bit that another tag
  of the group sets would show it.
* **Time.** `ClockInvariant` adds to the two properties how the time that was not
  read yet is split (`Unread`), and that the entry of the state remembers the
  accounts as they were (`EntryIsTrue`); the rest is arithmetic.

Proved and not listed in a run: the type invariants of the tree, the frame, the
collector and the dictionary, `CountIsLive`, `NoNullInDestroy`, `StackInv`,
`HostFindsEmptyStack` and `NoStackFault`: their runs would repeat what
the theorems say.

Only model-checked: all liveness (fairness and `ENABLED` are out of the prover's
reach), so also the second half of `SortsTheArray`; and the compiler
(`RulesEnforced`, `ReturnsMeaning`, `CodeIsVerified`): `Parser` and the meaning of
scripts are written with recursive operators, which the prover does not take, and
that the code of every script, however long, passes verification is an induction
over the syntax.

## Not modelled, and why

Pure functions over numbers and text, input and output, logging, time
accounting and floating-point transforms have no control worth exploring.  A
call of a function that does not exist, a null dereference in a script and an
assertion that fails end the program: they are guards of the actions, and where
the C code relies on them not happening there is an invariant
(`NoNullInDestroy`, `TraversalIsPath`).

* **Interpreter**: the instructions NOT, AND, OR and XOR, which the compiler never
  emits; numbers other than small integers, minus zero and NaN; `toString()` of
  objects, in whose place the text is `[object]`; the pools that variables and strings
  are recycled in.  Only the state of the application is run, not those of objects
  that it spawns.
* **Compiler**: escapes, comments, numerals and the encoding of text, which the
  lexer turns into the words that `Lexer` begins with.  Imports and plugin
  annotations are in `Parser`, but no script of the runs has them.
* **Compilation after the launch** (`parser.c:504` deletes programs whether or not
  they have been executed) is outside the contract of the API.
* **Hash tables**: the perfect hash of class names, computed once.
* **Array**: `toString()`, which formats.
* **Frame update**: the updaters of the host, the change of the state of an object
  (modelled in `Interpreter` and, for its time, in `VMClock`), `vm_reset()`.
* What follows the destruction of System within a sweep is undefined behaviour,
  and `SweepDestructors` stops there.  So is what follows the sweep of an object in
  use, and `ObjectTree` and `FrameUpdate` stop there: no property of theirs says
  anything of the program from then on.  An object in use may also be one that is
  on neither stack, because a function of it was called; `SweepOvertakes` does not
  ask which it is.

## Plan

1. Two iterators of a dictionary, and removals while they are in use.
2. Updaters and `vm_reset()` in `FrameUpdate`; plugins and temporary objects.
3. The pools of variables and strings.
