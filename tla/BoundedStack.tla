---------------------------- MODULE BoundedStack ----------------------------
(***************************************************************************)
(* What the stack of the virtual machine promises to a program that uses   *)
(* it through push, pop and dup only: a last-in first-out list of at most  *)
(* Capacity words, emptied whenever the machine is started.                *)
(***************************************************************************)
EXTENDS Naturals, Sequences, SequencesExt

CONSTANT Capacity

VARIABLES
  stack,     \* the words on the stack, bottom first
  request    \* what the program is about to do: its op and, for a push, value

vars == <<stack, request>>

Full  == Len(stack) = Capacity
Empty == stack = << >>

Init == Empty /\ request.op = "none"

Push ==
  /\ request.op = "push"
  /\ stack' = IF Full THEN stack ELSE Append(stack, request.value)

Pop ==
  /\ request.op = "pop"
  /\ stack' = IF Empty THEN stack ELSE Front(stack)

Dup ==
  /\ request.op = "dup"
  /\ stack' = IF Empty \/ Full THEN stack ELSE Append(stack, Last(stack))

(* Whatever else the machine does leaves the stack alone or starts anew.   *)
Other ==
  /\ request.op = "none"
  /\ UNCHANGED stack \/ stack' = << >>

Next == Push \/ Pop \/ Dup \/ Other

Spec == Init /\ [][Next]_vars
=============================================================================
