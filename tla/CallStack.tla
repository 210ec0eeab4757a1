------------------------------- MODULE CallStack -------------------------------
(***************************************************************************)
(* The stack (runtime/stack.c): environments pushed and popped around the  *)
(* calls, each with the base pointer of the previous one in its first      *)
(* cell.  data holds the cells 0..sp; a cell that was popped is gone.      *)
(***************************************************************************)
EXTENDS Integers, Sequences

CONSTANT
  Capacity,        \* SSSTACK_INITIAL_SIZE: the stack never grows
  Saved(_),        \* the variable that stores a base pointer...
  Restored(_),     \* ...and the base pointer it stores
  Blank            \* an empty variable

StackCreate == [data |-> <<Saved(0)>>, bp |-> 0]

sp(stack) == Len(stack.data) - 1

InBounds(stack, offset) == stack.bp + offset \in 0..sp(stack)

(* Each operation is meaningful only where the program does not end with   *)
(* an error.                                                               *)
CanPush(stack, n) == sp(stack) + n < Capacity
CanPop(stack, n)  == sp(stack) - n >= stack.bp

push(stack, var) == [stack EXCEPT !.data = Append(@, var)]
pushn(stack, n) == [stack EXCEPT !.data = @ \o [i \in 1..n |-> Blank]]
popn(stack, n) == [stack EXCEPT !.data = SubSeq(@, 1, Len(@) - n)]
top(stack) == stack.data[sp(stack) + 1]
peek(stack, offset) == stack.data[stack.bp + offset + 1]
poke(stack, offset, var) == [stack EXCEPT !.data[stack.bp + offset + 1] = var]

pushenv(stack) == [data |-> Append(stack.data, Saved(stack.bp)), bp |-> sp(stack) + 1]
popenv(stack) == [data |-> SubSeq(stack.data, 1, stack.bp),
                  bp |-> Restored(stack.data[stack.bp + 1])]
================================================================================
