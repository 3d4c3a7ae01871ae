-------------------------------- MODULE Stack --------------------------------
(***************************************************************************)
(* What the growable arrays promise: a list that is pushed to and popped   *)
(* from at its end, and that hands out what it pops.  Its owner may die of *)
(* a push.                                                                 *)
(***************************************************************************)
EXTENDS Naturals, Sequences

CONSTANT Item

VARIABLES
  items,   \* the list
  out,     \* the last item popped
  alive    \* FALSE once the process has exited

stackVars == <<items, out, alive>>

Init == items = <<>> /\ alive = TRUE

Push(x) ==
  /\ alive
  /\ items' = Append(items, x)
  /\ UNCHANGED <<out, alive>>

Pop ==
  /\ alive /\ items # <<>>
  /\ out' = items[Len(items)]
  /\ items' = SubSeq(items, 1, Len(items) - 1)
  /\ UNCHANGED alive

Exit == alive /\ alive' = FALSE /\ UNCHANGED <<items, out>>

Next == (\E x \in Item : Push(x)) \/ Pop \/ Exit

Spec == Init /\ [][Next]_stackVars
=============================================================================
