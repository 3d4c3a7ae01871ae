--------------------------- MODULE DynArrayProofs ---------------------------
(***************************************************************************)
(* The growable array stays inside its block and implements a list, for    *)
(* every initial capacity and every length.                                *)
(***************************************************************************)
EXTENDS DynArray, SequenceTheorems, TLAPS

\* What a step of the array does to the block, for each operation.
LEMMA PushStep ==
  ASSUME FitsItsBlock, NEW x \in Elem, push(x)
  PROVE  /\ cap' \in Nat \ {0} /\ len' = len + 1 /\ len' \in 0 .. cap'
         /\ data' \in Block(cap')
         /\ data'[len] = x
         /\ \A i \in 0 .. len - 1 : data'[i] = data[i]
<1>1. CASE ~IsFull
  BY <1>1 DEF push, IsFull, FitsItsBlock, Block, Cell
<1>2. CASE IsFull
  <2>1. PICK block \in realloc(data, cap * 2) : data' = [block EXCEPT ![len] = x]
    BY <1>2 DEF push
  <2>2. block \in Block(cap * 2) /\ \A i \in 0 .. cap - 1 : block[i] = data[i]
    BY <2>1 DEF realloc, FitsItsBlock, Block
  <2>3. len = cap /\ cap' = cap * 2 /\ len' = len + 1 /\ cap \in Nat \ {0}
    BY <1>2 DEF push, IsFull, FitsItsBlock
  <2>4. len \in 0 .. cap' - 1 /\ len' \in 0 .. cap' /\ cap' \in Nat \ {0}
    BY <2>3
  <2> QED
    BY <2>1, <2>2, <2>3, <2>4 DEF Block, Cell
<1> QED
  BY <1>1, <1>2

LEMMA PopStep ==
  ASSUME FitsItsBlock, pop
  PROVE  /\ cap' = cap /\ len' = len - 1 /\ len' \in 0 .. cap
         /\ data' \in Block(cap)
         /\ buf' = data[len - 1] /\ buf' \in Cell
         /\ \A i \in 0 .. len - 2 : data'[i] = data[i]
BY DEF pop, FitsItsBlock, Block, Cell

LEMMA FitsStep == FitsItsBlock /\ [Next]_vars => FitsItsBlock'
<1> SUFFICES ASSUME FitsItsBlock, [Next]_vars PROVE FitsItsBlock'
  OBVIOUS
<1>1. ASSUME NEW x \in Elem, push(x) PROVE FitsItsBlock'
  <2>1. buf' = buf /\ alive' = alive
    BY <1>1 DEF push
  <2> QED
    BY <1>1, <2>1, PushStep DEF FitsItsBlock
<1>2. CASE pop
  <2>1. alive' = alive
    BY <1>2 DEF pop
  <2> QED
    BY <1>2, <2>1, PopStep DEF FitsItsBlock
<1>3. CASE ReallocFails
  BY <1>3 DEF ReallocFails, FitsItsBlock
<1>4. CASE UNCHANGED vars
  BY <1>4 DEF vars, FitsItsBlock
<1> QED
  BY <1>1, <1>2, <1>3, <1>4 DEF Next

LEMMA FitsInit == Init => FitsItsBlock
BY DynArrayAssumption DEF Init, FitsItsBlock, Block, Cell

\* Length and capacity always describe the block: pushes and pops stay inside
\* the memory malloc and realloc gave.
THEOREM FitsItsBlockAlways == Spec => []FitsItsBlock
BY FitsInit, FitsStep, PTL DEF Spec

LEMMA ListOfCells ==
  ASSUME NEW c \in Nat, NEW n \in 0 .. c, NEW d \in Block(c)
  PROVE  /\ [i \in 1 .. n |-> d[i - 1]] \in Seq(Cell)
         /\ Len([i \in 1 .. n |-> d[i - 1]]) = n
BY DEF Block

LEMMA AppendAt ==
  ASSUME NEW s \in Seq(Cell), NEW t \in Seq(Cell), NEW x \in Cell,
         Len(t) = Len(s) + 1, t[Len(s) + 1] = x,
         \A i \in 1 .. Len(s) : t[i] = s[i]
  PROVE  t = Append(s, x)
OBVIOUS

\* The growable array implements the list of Stack.
THEOREM ListRefinement == Spec => ImplementsList
<1> DEFINE items == [i \in 1 .. len |-> data[i - 1]]
<1>1. Init => List!Init
  BY DEF Init, List!Init
<1>2. FitsItsBlock /\ [Next]_vars => [List!Next]_(List!stackVars)
  <2> SUFFICES ASSUME FitsItsBlock, [Next]_vars
               PROVE  List!Next \/ UNCHANGED List!stackVars
    OBVIOUS
  <2>0. items \in Seq(Cell) /\ Len(items) = len
    BY ListOfCells DEF FitsItsBlock
  <2>1. ASSUME NEW x \in Elem, push(x) PROVE List!Push(x)
    <3>1. /\ len \in Nat /\ cap' \in Nat /\ len' = len + 1 /\ len' \in 0 .. cap'
          /\ data' \in Block(cap') /\ data'[len] = x
          /\ \A i \in 0 .. len - 1 : data'[i] = data[i]
      BY <2>1, PushStep DEF FitsItsBlock
    <3>2. /\ items' \in Seq(Cell) /\ Len(items') = len + 1
          /\ items'[len + 1] = x
          /\ \A i \in 1 .. len : items'[i] = items[i]
      <4>1. items' \in Seq(Cell) /\ Len(items') = len'
        BY <3>1, ListOfCells
      <4>2. \A i \in 1 .. len : items'[i] = data'[i - 1] /\ items[i] = data[i - 1]
        BY <3>1
      <4>3. \A i \in 1 .. len : data'[i - 1] = data[i - 1]
        BY <3>1
      <4>4. items'[len + 1] = x
        BY <3>1
      <4> QED
        BY <3>1, <4>1, <4>2, <4>3, <4>4
    <3>3. items' = Append(items, x)
      <4> HIDE DEF items
      <4> QED
        BY <2>0, <3>1, <3>2, AppendAt DEF Cell
    <3> QED
      BY <2>1, <3>3 DEF push, List!Push
  <2>2. ASSUME pop PROVE List!Pop
    <3>1. len \in Nat \ {0} /\ items[len] = data[len - 1] /\ items # <<>>
      BY <2>0, <2>2 DEF pop, FitsItsBlock
    <3>2. items' = SubSeq(items, 1, len - 1)
      BY <2>0, <2>2, <3>1, PopStep DEF FitsItsBlock
    <3> QED
      BY <2>0, <2>2, <3>1, <3>2 DEF pop, List!Pop
  <2>3. ASSUME ReallocFails PROVE List!Exit
    BY <2>3 DEF ReallocFails, List!Exit, FitsItsBlock
  <2>4. CASE UNCHANGED vars
    BY <2>4 DEF vars, List!stackVars
  <2> QED
    BY <2>1, <2>2, <2>3, <2>4 DEF Next, List!Next
<1> QED
  BY <1>1, <1>2, FitsInit, FitsStep, PTL DEF Spec, ImplementsList, List!Spec
=============================================================================
