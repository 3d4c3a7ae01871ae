------------------------------ MODULE DynArray ------------------------------
(***************************************************************************)
(* The growable array behind a peer bucket (peers.c) and behind a node's   *)
(* list of neighbors (nodes.c); the code of the two differs in the type of *)
(* the elements only.  The block of memory is modelled cell by cell:       *)
(* malloc and realloc leave arbitrary contents in the cells they add.      *)
(***************************************************************************)
EXTENDS Integers, Sequences

CONSTANTS
  Elem,         \* the values of peer_t or node_t that are stored
  Zero,         \* the all-zero element pop leaves behind
  INITIAL_CAP,  \* 2 in peers.h
  MaxLen        \* bound on the length

ASSUME DynArrayAssumption ==
  /\ Elem # {}
  /\ INITIAL_CAP \in Nat \ {0}
  /\ MaxLen \in Nat

Cell == Elem \cup {Zero}

VARIABLES
  cap,     \* d_arr->cap
  len,     \* d_arr->len
  data,    \* the block d_arr->data points to
  buf,     \* *peer_buf, where pop puts the element
  alive    \* FALSE once realloc has failed: exit(1)

vars == <<cap, len, data, buf, alive>>

Block(n) == [0 .. n - 1 -> Cell]

\* Slip: a new block without the contents of the old one.
reallocWithoutCopy(block, n) == Block(n)

\* A block of n cells that begins with the cells of the given one.
realloc(block, n) ==
  {b \in Block(n) : \A i \in DOMAIN block : b[i] = block[i]}

Init ==
  /\ cap = INITIAL_CAP
  /\ len = 0
  /\ data \in Block(INITIAL_CAP)
  /\ buf = Zero
  /\ alive = TRUE

\* Slip: the array is taken for full one element too late.
IsFullTooLate == len > cap

IsFull == len = cap

\* A full array is resized first: the capacity doubles.
push(x) ==
  /\ alive /\ len < MaxLen
  /\ \/ ~IsFull /\ UNCHANGED cap /\ data' = [data EXCEPT ![len] = x]
     \/ /\ IsFull
        /\ cap' = cap * 2
        /\ \E block \in realloc(data, cap * 2) :
             data' = [block EXCEPT ![len] = x]
  /\ len' = len + 1
  /\ UNCHANGED <<buf, alive>>

ReallocFails ==
  /\ alive /\ IsFull
  /\ alive' = FALSE
  /\ UNCHANGED <<cap, len, data, buf>>

\* On an empty array pop returns at once.
pop ==
  /\ alive /\ len >= 1
  /\ buf' = data[len - 1]
  /\ data' = [data EXCEPT ![len - 1] = Zero]
  /\ len' = len - 1
  /\ UNCHANGED <<cap, alive>>

Next == (\E x \in Elem : push(x)) \/ ReallocFails \/ pop

Spec == Init /\ [][Next]_vars

-----------------------------------------------------------------------------
\* The recorded length and capacity (peers.h, nodes.h) describe the block that
\* `data` points to: no push or pop writes outside the memory it was given,
\* through any sequence of pushes, resizes and pops.
FitsItsBlock ==
  /\ cap \in Nat \ {0} /\ len \in 0 .. cap
  /\ data \in Block(cap)
  /\ buf \in Cell /\ alive \in BOOLEAN

(***************************************************************************)
(* The elements up to len are a list.                                      *)
(***************************************************************************)
List == INSTANCE Stack
  WITH Item <- Elem, items <- [i \in 1 .. len |-> data[i - 1]], out <- buf

\* push and pop of peers.c and nodes.c behave as on a list: a resize moves
\* the elements unchanged, and what is popped is what was pushed last.
ImplementsList == List!Spec
=============================================================================
