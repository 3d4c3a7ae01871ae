--------------------------- MODULE JsonTreeProofs ---------------------------
(***************************************************************************)
(* Proofs about JsonTree, for every finite set of items and every set of   *)
(* names: whatever calls a program makes by the rules, the children of     *)
(* every item stay well linked, no item and no name is forgotten, and      *)
(* every call does what JsonForest says.                                   *)
(*                                                                         *)
(* First, what a call of lib/cjson does to a heap: the pointers of a heap  *)
(* draw sequences of children, and every call changes these sequences at   *)
(* one place, the way JsonForest says, and leaves the pointers of all      *)
(* others alone.  K is the function from the items to their sequences of   *)
(* children that the pointers stand for, and F the set of the items that   *)
(* the program holds itself.                                               *)
(***************************************************************************)
EXTENDS JsonTree, FiniteSetTheorems, SequenceTheorems, WellFoundedInduction, TLAPS

\* A set of natural numbers that is not empty has a least element.
LEMMA LeastExists ==
  ASSUME NEW S, S \subseteq Nat, S # {}
  PROVE  \E x \in S : \A y \in S : x <= y
<1>1. PICK x \in S : \A y \in S : <<y, x>> \notin OpToRel(<, Nat)
  BY WFMin, NatLessThanWellFounded, Zenon
<1>2. \A y \in S : ~(y < x)
  BY <1>1, Zenon DEF OpToRel
<1>3. QED
  BY <1>2
-----------------------------------------------------------------------------
(***************************************************************************)
(* Sequences of children, without pointers.  L is the set of live items    *)
(* and R tells which items are references.                                 *)
(***************************************************************************)
Els(s) == {s[i] : i \in 1 .. Len(s)}
Distinct(s) == \A i, j \in 1 .. Len(s) : s[i] = s[j] => i = j

\* What Delete walks through: all children except those a reference shows.
Closed(R, K, S) == \A y \in S : ~R[y] => Els(K[y]) \subseteq S

\* x and everything below it.
Sub(L, R, K, x) ==
  {y \in L : \A S \in SUBSET L : x \in S /\ Closed(R, K, S) => y \in S}

\* Only live items have children, and only live items are children.
Inside(L, R, K) ==
  /\ L \subseteq Item
  /\ R \in [Item -> BOOLEAN]
  /\ K \in [Item -> Seq(Item)]
  /\ \A p \in Item : Distinct(K[p]) /\ Els(K[p]) \subseteq L
  /\ \A p \in Item \ L : K[p] = <<>> /\ ~R[p]

\* An item is the child of one item, and of the references to that one.
Shared(R, K) ==
  \A p, q \in Item : \/ p = q \/ Els(K[p]) \cap Els(K[q]) = {}
                     \/ (R[p] \/ R[q]) /\ K[p] = K[q]

\* What the program holds is nobody's child, and everything is below it.
Free(L, K, F) == F \subseteq L /\ \A p \in Item : Els(K[p]) \cap F = {}
Reached(L, R, K, F) ==
  \A U \in SUBSET L : F \subseteq U /\ Closed(R, K, U) => U = L

Nested(L, R, K, F) ==
  Inside(L, R, K) /\ Shared(R, K) /\ Free(L, K, F) /\ Reached(L, R, K, F)

\* The tree below x holds x and is closed.
LEMMA SubClosed ==
  ASSUME NEW L, NEW R, NEW K, Inside(L, R, K), NEW x \in L
  PROVE  /\ Sub(L, R, K, x) \subseteq L
         /\ x \in Sub(L, R, K, x)
         /\ Closed(R, K, Sub(L, R, K, x))
<1>1. x \in Sub(L, R, K, x) /\ Sub(L, R, K, x) \subseteq L
  BY DEF Sub
<1>2. ASSUME NEW y \in Sub(L, R, K, x), ~R[y], NEW z \in Els(K[y])
      PROVE  z \in Sub(L, R, K, x)
  <2>1. z \in L
    BY <1>1 DEF Inside
  <2>2. ASSUME NEW S \in SUBSET L, x \in S, Closed(R, K, S)
        PROVE  z \in S
    <3>1. y \in S
      BY <2>2 DEF Sub
    <3>2. QED
      BY <1>2, <2>2, <3>1 DEF Closed
  <2>3. QED
    BY <2>1, <2>2 DEF Sub
<1>3. QED
  BY <1>1, <1>2 DEF Closed

\* It is the least closed set with x.
LEMMA SubLeast ==
  ASSUME NEW L, NEW R, NEW K, NEW x, NEW S, S \subseteq L, x \in S, Closed(R, K, S)
  PROVE  Sub(L, R, K, x) \subseteq S
BY DEF Sub

\* Nothing is below a reference, or an item without children.
LEMMA SubAlone ==
  ASSUME NEW L, NEW R, NEW K, NEW x \in L, R[x] \/ K[x] = <<>>
  PROVE  \A y \in Sub(L, R, K, x) : y = x
<1>1. Closed(R, K, {x})
  BY DEF Closed, Els
<1>2. {x} \subseteq L
  OBVIOUS
<1>3. Sub(L, R, K, x) \subseteq {x}
  BY <1>1, <1>2, SubLeast
<1>4. QED
  BY <1>3

\* Every other item of it is the child of an item of it that is no reference.
LEMMA SubParent ==
  ASSUME NEW L, NEW R, NEW K, Inside(L, R, K), NEW x \in L,
         NEW y \in Sub(L, R, K, x), y # x
  PROVE  \E p \in Sub(L, R, K, x) : ~R[p] /\ y \in Els(K[p])
<1> DEFINE T == Sub(L, R, K, x)
<1>1. SUFFICES ASSUME \A p \in T : ~R[p] => y \notin Els(K[p]) PROVE FALSE
  BY Zenon
<1>2. T \subseteq L /\ x \in T /\ Closed(R, K, T)
  BY SubClosed
<1> HIDE DEF T
<1>3. Closed(R, K, T \ {y})
  BY <1>1, <1>2 DEF Closed
<1>4. T \subseteq T \ {y}
  BY <1>2, <1>3, SubLeast DEF T
<1>5. QED
  BY <1>4 DEF T

\* What the program holds is in no tree but its own.
LEMMA SubFree ==
  ASSUME NEW L, NEW R, NEW K, NEW F, Inside(L, R, K), Free(L, K, F),
         NEW x \in L, NEW y \in F, y \in Sub(L, R, K, x)
  PROVE  y = x
<1>1. SUFFICES ASSUME y # x PROVE FALSE
  OBVIOUS
<1>2. PICK p \in Sub(L, R, K, x) : y \in Els(K[p])
  BY <1>1, SubParent
<1>3. p \in Item
  BY SubClosed DEF Inside
<1>4. QED
  BY <1>2, <1>3 DEF Free

\* No item is below one of its children.
LEMMA Acyclic ==
  ASSUME NEW L, NEW R, NEW K, NEW F, Nested(L, R, K, F),
         NEW p \in Item, ~R[p], NEW x \in Els(K[p])
  PROVE  x \in L /\ p \notin Sub(L, R, K, x)
<1> USE DEF Nested
<1> DEFINE T == Sub(L, R, K, x)
<1>1. x \in L
  BY DEF Inside
<1>2. SUFFICES ASSUME p \in T PROVE FALSE
  BY <1>1
<1>3. T \subseteq L /\ x \in T
  BY <1>1, SubClosed
<1>4. F \subseteq L \ T
  <2>1. x \notin F
    BY DEF Free
  <2>2. \A f \in F : f \notin T
    BY <1>1, <2>1, SubFree
  <2>3. QED
    BY <2>2 DEF Free
<1>5. ASSUME NEW q \in L \ T, ~R[q], NEW y \in Els(K[q])
      PROVE  y \in L \ T
  <2>1. q \in Item /\ y \in L
    BY DEF Inside
  <2>2. SUFFICES ASSUME y \in T PROVE FALSE
    BY <2>1
  <2>3. PICK r \in T : ~R[r] /\ y \in Els(K[r])
    <3>1. CASE y = x
      BY <1>2, <3>1
    <3>2. CASE y # x
      <4>1. \E r \in Sub(L, R, K, x) : ~R[r] /\ y \in Els(K[r])
        BY <1>1, <2>2, <3>2, SubParent
      <4>2. QED
        BY <4>1
    <3>3. QED
      BY <3>1, <3>2
  <2>4. r \in Item
    BY <1>3 DEF Inside
  <2>5. q = r
    BY <1>5, <2>1, <2>3, <2>4 DEF Shared
  <2>6. QED
    BY <1>5, <2>3, <2>5
<1>6. Closed(R, K, L \ T)
  BY <1>5 DEF Closed
<1>7. L \ T = L
  BY <1>4, <1>6 DEF Reached
<1>8. QED
  BY <1>1, <1>3, <1>7

\* A change of the children of an item outside of a tree leaves the tree alone.
LEMMA SubFrame ==
  ASSUME NEW L, NEW R, NEW K, NEW M, Inside(L, R, K), Inside(L, R, M),
         NEW p, NEW x \in L, p \notin Sub(L, R, K, x),
         \A q \in Item : q # p => M[q] = K[q]
  PROVE  Sub(L, R, M, x) = Sub(L, R, K, x)
<1> DEFINE T == Sub(L, R, K, x)
           V == Sub(L, R, M, x)
<1>1. T \subseteq L /\ x \in T /\ Closed(R, K, T)
  BY SubClosed
<1>2. V \subseteq L /\ x \in V /\ Closed(R, M, V)
  BY SubClosed
<1>3. L \subseteq Item
  BY DEF Inside
<1>4. V \subseteq T
  <2>1. Closed(R, M, T)
    <3> HIDE DEF T
    <3>1. p \notin T
      BY DEF T
    <3>2. QED
      BY <1>1, <1>3, <3>1 DEF Closed
  <2> HIDE DEF T
  <2>2. QED
    BY <1>1, <2>1, SubLeast
<1>5. T \subseteq V
  <2>1. Closed(R, K, V)
    <3>1. p \notin V
      BY <1>4
    <3> HIDE DEF V
    <3>2. QED
      BY <1>2, <1>3, <3>1 DEF Closed
  <2> HIDE DEF V
  <2>2. QED
    BY <1>2, <2>1, SubLeast
<1>6. QED
  BY <1>4, <1>5

\* An item may get any of its own children and of the held items for its
\* children, in any order, as long as it is not below one of them.
LEMMA NestedRelink ==
  ASSUME NEW L, NEW R, NEW K, NEW F, Nested(L, R, K, F),
         NEW p \in L, ~R[p],
         \A q \in Item : q # p => Els(K[p]) \cap Els(K[q]) = {},
         NEW s \in Seq(Item), Distinct(s), Els(s) \subseteq Els(K[p]) \cup F,
         \A n \in Els(s) \ Els(K[p]) : p \notin Sub(L, R, K, n)
  PROVE  Nested(L, R, [K EXCEPT ![p] = s],
                (F \ Els(s)) \cup (Els(K[p]) \ Els(s)))
<1> USE DEF Nested
<1> DEFINE M == [K EXCEPT ![p] = s]
           G == (F \ Els(s)) \cup (Els(K[p]) \ Els(s))
<1>1. /\ L \subseteq Item /\ p \in Item /\ F \subseteq L
      /\ Els(K[p]) \subseteq L /\ Els(s) \subseteq L /\ K \in [Item -> Seq(Item)]
  BY DEF Inside, Free
<1>2. M \in [Item -> Seq(Item)] /\ M[p] = s /\ \A q \in Item : q # p => M[q] = K[q]
  BY <1>1
<1> HIDE DEF M
<1>3. Inside(L, R, M)
  BY <1>1, <1>2 DEF Inside
<1>4. ASSUME NEW q \in Item, q # p
      PROVE  Els(M[p]) \cap Els(M[q]) = {}
  BY <1>1, <1>2, <1>4 DEF Free
<1>5. Shared(R, M)
  <2>1. ASSUME NEW q \in Item, NEW r \in Item
        PROVE  \/ q = r \/ Els(M[q]) \cap Els(M[r]) = {}
               \/ (R[q] \/ R[r]) /\ M[q] = M[r]
    <3>1. CASE q = p \/ r = p
      BY <1>4, <3>1
    <3>2. CASE q # p /\ r # p
      BY <1>2, <3>2 DEF Shared
    <3>3. QED
      BY <3>1, <3>2
  <2>2. QED
    BY <2>1 DEF Shared
<1>6. Free(L, M, G)
  <2>1. ASSUME NEW q \in Item
        PROVE  Els(M[q]) \cap G = {}
    <3>1. CASE q = p
      BY <1>2, <3>1
    <3>2. CASE q # p
      BY <1>2, <3>2 DEF Free
    <3>3. QED
      BY <3>1, <3>2
  <2>2. QED
    BY <1>1, <2>1 DEF Free
<1>7. ASSUME NEW U \in SUBSET L, G \subseteq U, Closed(R, M, U)
      PROVE  U = L
  <2> DEFINE N == Els(s) \ Els(K[p])
             W == U \cup UNION {Sub(L, R, K, n) : n \in N}
  <2>1. ASSUME NEW n \in N
        PROVE  /\ n \in L /\ Sub(L, R, K, n) \subseteq L /\ n \in Sub(L, R, K, n)
               /\ Closed(R, K, Sub(L, R, K, n)) /\ p \notin Sub(L, R, K, n)
    <3>1. n \in L
      BY <1>1
    <3>2. QED
      BY <3>1, SubClosed
  <2>2. W \subseteq L
    BY <2>1
  <2>3. F \subseteq W
    <3>1. ASSUME NEW f \in F PROVE f \in W
      <4>1. CASE f \in Els(s)
        <5>1. f \notin Els(K[p])
          BY <1>1 DEF Free
        <5>2. f \in N
          BY <4>1, <5>1
        <5>3. QED
          BY <2>1, <5>2
      <4>2. CASE f \notin Els(s)
        BY <1>7, <4>2
      <4>3. QED
        BY <4>1, <4>2
    <3>2. QED
      BY <3>1
  <2>4. ASSUME NEW y \in U, ~R[y]
        PROVE  Els(K[y]) \subseteq U
    <3>1. y \in Item /\ Els(M[y]) \subseteq U
      BY <1>1, <1>7, <2>4 DEF Closed
    <3>2. CASE y = p
      BY <1>2, <1>7, <3>1, <3>2
    <3>3. CASE y # p
      BY <1>2, <3>1, <3>3
    <3>4. QED
      BY <3>2, <3>3
  <2>5. Closed(R, K, U)
    BY <2>4 DEF Closed
  <2>6. Closed(R, K, W)
    <3>1. ASSUME NEW y \in W, ~R[y]
          PROVE  Els(K[y]) \subseteq W
      <4>1. CASE y \in U
        BY <2>4, <3>1, <4>1
      <4>2. CASE y \notin U
        <5>1. PICK n \in N : y \in Sub(L, R, K, n)
          BY <4>2
        <5>2. Els(K[y]) \subseteq Sub(L, R, K, n)
          BY <2>1, <3>1, <5>1 DEF Closed
        <5>3. QED
          BY <5>2
      <4>3. QED
        BY <4>1, <4>2
    <3> HIDE DEF W
    <3>2. QED
      BY <3>1 DEF Closed
  <2>7. W = L
    <3> HIDE DEF W
    <3>1. QED
      BY <2>2, <2>3, <2>6 DEF Reached
  <2>8. p \in U
    BY <2>1, <2>7
  <2>9. N \subseteq U
    BY <1>2, <1>7, <2>8 DEF Closed
  <2>10. ASSUME NEW n \in N
         PROVE  Sub(L, R, K, n) \subseteq U
    BY <2>5, <2>9, SubLeast
  <2>11. QED
    BY <2>7, <2>10
<1>8. Reached(L, R, M, G)
  BY <1>7 DEF Reached
<1>9. QED
  BY <1>3, <1>5, <1>6, <1>8 DEF M

\* A new item with new children belongs to the program.
LEMMA NestedGrow ==
  ASSUME NEW L, NEW R, NEW K, NEW F, Nested(L, R, K, F), NEW a \in Item \ L,
         NEW s \in Seq(Item), Distinct(s), Els(s) \cap (L \cup {a}) = {}
  PROVE  Nested(L \cup {a} \cup Els(s), R, [K EXCEPT ![a] = s], F \cup {a})
<1> USE DEF Nested
<1> DEFINE M == [K EXCEPT ![a] = s]
           G == F \cup {a}
           N == L \cup {a} \cup Els(s)
<1>1. /\ L \subseteq Item /\ a \in Item /\ F \subseteq L /\ K \in [Item -> Seq(Item)]
      /\ K[a] = <<>> /\ ~R[a]
  BY DEF Inside, Free
<1>2. M \in [Item -> Seq(Item)] /\ M[a] = s /\ \A q \in Item : q # a => M[q] = K[q]
  BY <1>1
<1> HIDE DEF M
<1>3. Els(s) \subseteq Item
  BY DEF Els
<1>4. ASSUME NEW q \in Item, q # a
      PROVE  Els(M[q]) \subseteq L /\ Els(M[q]) \cap Els(M[a]) = {}
  BY <1>2, <1>4 DEF Inside
<1>5. ASSUME NEW q \in Els(s)
      PROVE  q \in Item /\ q # a /\ K[q] = <<>> /\ ~R[q] /\ M[q] = <<>>
  BY <1>2, <1>3 DEF Inside
<1>6. Inside(N, R, M)
  <2>1. \A q \in Item : Distinct(M[q]) /\ Els(M[q]) \subseteq N
    <3>1. ASSUME NEW q \in Item
          PROVE  Distinct(M[q]) /\ Els(M[q]) \subseteq N
      <4>1. CASE q = a
        BY <1>2, <4>1
      <4>2. CASE q # a
        BY <1>2, <1>4, <4>2 DEF Inside
      <4>3. QED
        BY <4>1, <4>2
    <3>2. QED
      BY <3>1
  <2>2. \A q \in Item \ N : M[q] = <<>> /\ ~R[q]
    BY <1>2 DEF Inside
  <2>3. QED
    BY <1>1, <1>2, <1>3, <2>1, <2>2 DEF Inside
<1>7. Shared(R, M)
  <2>1. ASSUME NEW q \in Item, NEW r \in Item
        PROVE  \/ q = r \/ Els(M[q]) \cap Els(M[r]) = {}
               \/ (R[q] \/ R[r]) /\ M[q] = M[r]
    <3>1. CASE q = a \/ r = a
      BY <1>4, <3>1
    <3>2. CASE q # a /\ r # a
      BY <1>2, <3>2 DEF Shared
    <3>3. QED
      BY <3>1, <3>2
  <2>2. QED
    BY <2>1 DEF Shared
<1>8. Free(N, M, G)
  <2>1. ASSUME NEW q \in Item
        PROVE  Els(M[q]) \cap G = {}
    <3>1. CASE q = a
      BY <1>1, <1>2, <3>1
    <3>2. CASE q # a
      BY <1>2, <1>4, <3>2 DEF Free
    <3>3. QED
      BY <3>1, <3>2
  <2>2. QED
    BY <1>1, <2>1 DEF Free
<1>9. ASSUME NEW U \in SUBSET N, G \subseteq U, Closed(R, M, U)
      PROVE  U = N
  <2>1. Els(s) \subseteq U
    BY <1>1, <1>2, <1>9 DEF Closed
  <2>2. Closed(R, K, U \cap L)
    <3>1. ASSUME NEW y \in U \cap L, ~R[y]
          PROVE  Els(K[y]) \subseteq U \cap L
      <4>1. y \in Item /\ y # a
        BY <1>1
      <4>2. Els(M[y]) \subseteq U
        BY <1>9, <3>1 DEF Closed
      <4>3. QED
        BY <1>2, <1>4, <4>1, <4>2
    <3>2. QED
      BY <3>1 DEF Closed
  <2>3. U \cap L = L
    BY <1>1, <1>9, <2>2 DEF Reached
  <2>4. QED
    BY <1>9, <2>1, <2>3
<1>10. Reached(N, R, M, G)
  BY <1>9 DEF Reached
<1>11. QED
  BY <1>6, <1>7, <1>8, <1>10 DEF M

\* a is marked as a reference.
Marked(R, a) == [R EXCEPT ![a] = TRUE]

\* a has the children of y.
Showing(K, a, y) == [K EXCEPT ![a] = K[y]]

\* So does a new reference to the children of a live item.
LEMMA NestedRefer ==
  ASSUME NEW L, NEW R, NEW K, NEW F, Nested(L, R, K, F), NEW a \in Item \ L,
         NEW y \in L
  PROVE  Nested(L \cup {a}, Marked(R, a), Showing(K, a, y), F \cup {a})
<1> USE DEF Nested
<1> DEFINE M == Showing(K, a, y)
           Q == Marked(R, a)
           G == F \cup {a}
           N == L \cup {a}
<1>1. /\ L \subseteq Item /\ a \in Item /\ F \subseteq L /\ K \in [Item -> Seq(Item)]
      /\ K[a] = <<>> /\ ~R[a] /\ y \in Item /\ y # a /\ R \in [Item -> BOOLEAN]
  BY DEF Inside, Free
<1>2. /\ M \in [Item -> Seq(Item)] /\ M[a] = K[y]
      /\ \A q \in Item : q # a => M[q] = K[q]
  BY <1>1 DEF Showing
<1>3. Q \in [Item -> BOOLEAN] /\ Q[a] /\ \A q \in Item : q # a => Q[q] = R[q]
  BY <1>1 DEF Marked
<1> HIDE DEF M, Q
<1>4. ASSUME NEW q \in Item
      PROVE  Els(M[q]) \subseteq L /\ Distinct(M[q])
  <2>1. CASE q = a
    BY <1>1, <1>2, <2>1 DEF Inside
  <2>2. CASE q # a
    BY <1>2, <2>2 DEF Inside
  <2>3. QED
    BY <2>1, <2>2
<1>5. Inside(N, Q, M)
  BY <1>1, <1>2, <1>3, <1>4 DEF Inside
<1>6. ASSUME NEW q \in Item, q # a
      PROVE  Els(M[a]) \cap Els(M[q]) = {} \/ M[a] = M[q]
  BY <1>1, <1>2, <1>6 DEF Shared
<1>7. Shared(Q, M)
  <2>1. ASSUME NEW q \in Item, NEW r \in Item
        PROVE  \/ q = r \/ Els(M[q]) \cap Els(M[r]) = {}
               \/ (Q[q] \/ Q[r]) /\ M[q] = M[r]
    <3>1. CASE q = a \/ r = a
      BY <1>3, <1>6, <3>1
    <3>2. CASE q # a /\ r # a
      <4>1. Q[q] = R[q] /\ Q[r] = R[r] /\ M[q] = K[q] /\ M[r] = K[r]
        BY <1>2, <1>3, <3>2
      <4>2. \/ q = r \/ Els(K[q]) \cap Els(K[r]) = {}
            \/ (R[q] \/ R[r]) /\ K[q] = K[r]
        BY DEF Shared
      <4>3. QED
        BY <4>1, <4>2
    <3>3. QED
      BY <3>1, <3>2
  <2>2. QED
    BY <2>1 DEF Shared
<1>8. Free(N, M, G)
  <2>1. ASSUME NEW q \in Item
        PROVE  Els(M[q]) \cap G = {}
    <3>1. Els(M[q]) \cap F = {}
      <4>1. CASE q = a
        BY <1>1, <1>2, <4>1 DEF Free
      <4>2. CASE q # a
        BY <1>2, <4>2 DEF Free
      <4>3. QED
        BY <4>1, <4>2
    <3>2. QED
      BY <1>4, <3>1
  <2>2. QED
    BY <1>1, <2>1 DEF Free
<1>9. ASSUME NEW U \in SUBSET N, G \subseteq U, Closed(Q, M, U)
      PROVE  U = N
  <2>1. Closed(R, K, U \cap L)
    <3>1. ASSUME NEW z \in U \cap L, ~R[z]
          PROVE  Els(K[z]) \subseteq U \cap L
      <4>1. z \in Item /\ z # a /\ ~Q[z]
        BY <1>1, <1>3, <3>1
      <4>2. Els(M[z]) \subseteq U
        BY <1>9, <4>1 DEF Closed
      <4>3. QED
        BY <1>2, <1>4, <4>1, <4>2
    <3>2. QED
      BY <3>1 DEF Closed
  <2>2. U \cap L = L
    BY <1>1, <1>9, <2>1 DEF Reached
  <2>3. QED
    BY <1>9, <2>2
<1>10. Reached(N, Q, M, G)
  BY <1>9 DEF Reached
<1>11. QED
  BY <1>5, <1>7, <1>8, <1>10 DEF M, Q

\* What is left of the references and of the children without the items in D.
Unmarked(R, D) == [q \in Item |-> q \notin D /\ R[q]]
Pruned(K, D) == [q \in Item |-> IF q \in D THEN <<>> ELSE K[q]]

\* A held item may go with everything below it, when no reference that stays
\* shows a part of that.
LEMMA NestedPrune ==
  ASSUME NEW L, NEW R, NEW K, NEW F, Nested(L, R, K, F), NEW x \in F,
         NEW D, D = Sub(L, R, K, x),
         \A r \in L \ D : R[r] => Els(K[r]) \cap D = {}
  PROVE  Nested(L \ D, Unmarked(R, D), Pruned(K, D), F \ {x})
<1> USE DEF Nested
<1> DEFINE M == Pruned(K, D)
           Q == Unmarked(R, D)
           G == F \ {x}
           N == L \ D
<1>1. /\ L \subseteq Item /\ F \subseteq L /\ x \in L /\ K \in [Item -> Seq(Item)]
      /\ R \in [Item -> BOOLEAN]
  BY DEF Inside, Free
<1>2. D \subseteq L /\ x \in D /\ Closed(R, K, D)
  BY <1>1, SubClosed
<1>3. ASSUME NEW q \in Item \ D, NEW y \in Els(K[q]), y \in D
      PROVE  FALSE
  <2>1. y # x
    BY DEF Free
  <2>2. PICK p \in D : ~R[p] /\ y \in Els(K[p])
    <3>1. \E p \in Sub(L, R, K, x) : ~R[p] /\ y \in Els(K[p])
      BY <1>1, <1>3, <2>1, SubParent
    <3>2. QED
      BY <3>1
  <2>3. p \in Item /\ p # q
    BY <1>1, <1>2
  <2>4. R[q] /\ K[p] = K[q]
    BY <2>2, <2>3 DEF Shared
  <2>5. q \in L
    BY <2>4 DEF Inside
  <2>6. QED
    BY <1>3, <2>4, <2>5
<1>4. /\ M \in [Item -> Seq(Item)]
      /\ \A q \in Item : IF q \in D THEN M[q] = <<>> ELSE M[q] = K[q]
  BY <1>1 DEF Pruned
<1>5. Q \in [Item -> BOOLEAN] /\ \A q \in Item : Q[q] = (q \notin D /\ R[q])
  BY <1>1 DEF Unmarked
<1> HIDE DEF M, Q
<1>6. Els(<<>>) = {} /\ Distinct(<<>>)
  BY DEF Els, Distinct
<1>7. ASSUME NEW q \in Item
      PROVE  Els(M[q]) \subseteq N /\ Distinct(M[q])
  <2>1. CASE q \in D
    BY <1>4, <1>6, <2>1
  <2>2. CASE q \notin D
    <3>1. Els(K[q]) \subseteq L /\ Distinct(K[q]) /\ M[q] = K[q]
      BY <1>4, <2>2 DEF Inside
    <3>2. QED
      BY <1>3, <2>2, <3>1
  <2>3. QED
    BY <2>1, <2>2
<1>8. Inside(N, Q, M)
  <2>1. \A q \in Item \ N : M[q] = <<>> /\ ~Q[q]
    BY <1>4, <1>5 DEF Inside
  <2>2. QED
    BY <1>1, <1>4, <1>5, <1>7, <2>1 DEF Inside
<1>9. Shared(Q, M)
  <2>1. ASSUME NEW q \in Item, NEW r \in Item
        PROVE  \/ q = r \/ Els(M[q]) \cap Els(M[r]) = {}
               \/ (Q[q] \/ Q[r]) /\ M[q] = M[r]
    <3>1. CASE q \in D \/ r \in D
      BY <1>4, <1>6, <3>1
    <3>2. CASE q \notin D /\ r \notin D
      BY <1>4, <1>5, <3>2 DEF Shared
    <3>3. QED
      BY <3>1, <3>2
  <2>2. QED
    BY <2>1 DEF Shared
<1>10. Free(N, M, G)
  <2>1. G \subseteq N
    <3>1. \A f \in F : f \in D => f = x
      BY <1>1, SubFree
    <3>2. QED
      BY <1>1, <3>1
  <2>2. ASSUME NEW q \in Item
        PROVE  Els(M[q]) \cap G = {}
    <3>1. CASE q \in D
      BY <1>4, <1>6, <3>1
    <3>2. CASE q \notin D
      BY <1>4, <3>2 DEF Free
    <3>3. QED
      BY <3>1, <3>2
  <2>3. QED
    BY <2>1, <2>2 DEF Free
<1>11. ASSUME NEW U \in SUBSET N, G \subseteq U, Closed(Q, M, U)
       PROVE  U = N
  <2>1. Closed(R, K, U \cup D)
    <3>1. ASSUME NEW y \in U, ~R[y]
          PROVE  Els(K[y]) \subseteq U
      <4>1. y \in Item /\ y \notin D /\ ~Q[y]
        BY <1>1, <1>5, <3>1
      <4>2. QED
        BY <1>4, <1>11, <4>1 DEF Closed
    <3>2. QED
      BY <1>2, <3>1 DEF Closed
  <2>2. F \subseteq U \cup D
    BY <1>2, <1>11
  <2>3. U \cup D = L
    BY <1>1, <1>2, <2>1, <2>2 DEF Reached
  <2>4. QED
    BY <2>3
<1>12. Reached(N, Q, M, G)
  BY <1>11 DEF Reached
<1>13. QED
  BY <1>8, <1>9, <1>10, <1>12 DEF M, Q
-----------------------------------------------------------------------------
(***************************************************************************)
(* Pointers.                                                               *)
(***************************************************************************)
\* The children of p are linked in the order s.
Linked(h, p, s) ==
  /\ h.child[p] = IF s = <<>> THEN NULL ELSE s[1]
  /\ \A i \in 1 .. Len(s) :
       /\ h.next[s[i]] = IF i = Len(s) THEN NULL ELSE s[i + 1]
       /\ h.prev[s[i]] = IF i = 1 THEN s[Len(s)] ELSE s[i - 1]

\* Everything about an item that is not live is zero.
OthersBlank(h) ==
  \A x \in Item \ h.live : /\ h.next[x] = NULL /\ h.prev[x] = NULL
                           /\ h.child[x] = NULL /\ h.key[x] = NULL /\ ~h.const[x]

\* The pointers of h draw the sequences K, and F are the items held.
Shape(h, K, F) ==
  /\ h \in Heap
  /\ Nested(h.live, h.ref, K, F)
  /\ \A p \in Item : Linked(h, p, K[p])
  /\ \A x \in F : h.next[x] = NULL /\ h.prev[x] = NULL
  /\ OthersBlank(h)

\* Of the pointers only those of p's children have changed, from the order t
\* to the order s.
Relinked(h, g, p, t, s) ==
  /\ g \in Heap
  /\ g.live = h.live /\ g.ref = h.ref /\ g.key = h.key /\ g.const = h.const
  /\ g.strings = h.strings
  /\ Linked(g, p, s)
  /\ \A q \in Item \ {p} : g.child[q] = h.child[q]
  /\ \A y \in Item \ (Els(t) \cup Els(s)) : g.next[y] = h.next[y] /\ g.prev[y] = h.prev[y]
  /\ \A y \in Els(t) \ Els(s) : g.next[y] = NULL /\ g.prev[y] = NULL

\* The heap with other pointers is a heap with the same items and names.
WithPointers(h, N, P, C) == [h EXCEPT !.next = N, !.prev = P, !.child = C]

\* g is h with these next, prev and child pointers.
Pointing(h, g, N, P, C) ==
  /\ g \in Heap /\ g.next = N /\ g.prev = P /\ g.child = C
  /\ g.live = h.live /\ g.ref = h.ref /\ g.key = h.key /\ g.const = h.const
  /\ g.strings = h.strings

LEMMA SetPointers ==
  ASSUME NEW h \in Heap, NEW N \in [Item -> Pointer], NEW P \in [Item -> Pointer],
         NEW C \in [Item -> Pointer], NEW g, g = WithPointers(h, N, P, C)
  PROVE  Pointing(h, g, N, P, C)
BY DEF Heap, WithPointers, Pointing

\* An item at the end of a chain.
LEMMA AddRelinks ==
  ASSUME NEW h \in Heap, NEW p \in Item, NEW s \in Seq(Item), Distinct(s),
         Linked(h, p, s), NEW x \in Item \ Els(s), h.next[x] = NULL
  PROVE  Relinked(h, add_item_to_array(h, p, x), p, s, Append(s, x))
<1> DEFINE g == add_item_to_array(h, p, x)
           t == Append(s, x)
           n == Len(s)
<1>1. /\ n \in Nat /\ \A i \in 1 .. n : s[i] \in Item /\ s[i] \in Els(s)
      /\ NULL \notin Item
  BY ItemAssumption DEF Els
<1>2. /\ t \in Seq(Item) /\ Len(t) = n + 1 /\ t[n + 1] = x
      /\ \A i \in 1 .. n : t[i] = s[i]
  BY <1>1
<1> HIDE DEF t
<1>3. Els(t) = Els(s) \cup {x}
  <2>1. \A y \in Els(t) : y \in Els(s) \cup {x}
    BY <1>1, <1>2 DEF Els
  <2>2. x \in Els(t)
    BY <1>1, <1>2 DEF Els
  <2>3. \A i \in 1 .. n : s[i] \in Els(t)
    BY <1>1, <1>2 DEF Els
  <2>4. QED
    BY <2>1, <2>2, <2>3 DEF Els
<1>4. CASE s = <<>>
  <2> DEFINE N == [h.next EXCEPT ![x] = NULL]
             P == [h.prev EXCEPT ![x] = x]
             C == [h.child EXCEPT ![p] = x]
  <2>1. g = [h EXCEPT !.child[p] = x, !.prev[x] = x, !.next[x] = NULL]
    BY <1>4 DEF add_item_to_array, Linked
  <2>2. g = WithPointers(h, N, P, C)
    BY <2>1 DEF Heap, WithPointers
  <2>3. N \in [Item -> Pointer] /\ P \in [Item -> Pointer] /\ C \in [Item -> Pointer]
    BY DEF Heap, Pointer
  <2> HIDE DEF g, N, P, C
  <2>4. /\ g \in Heap /\ g.next = N /\ g.prev = P /\ g.child = C
        /\ g.live = h.live /\ g.ref = h.ref /\ g.key = h.key /\ g.const = h.const
        /\ g.strings = h.strings
    <3>1. Pointing(h, g, N, P, C)
      BY <2>2, <2>3, SetPointers
    <3>2. QED
      BY <3>1 DEF Pointing
  <2>5. /\ g.child[p] = x /\ g.next[x] = NULL /\ g.prev[x] = x
        /\ \A q \in Item \ {p} : g.child[q] = h.child[q]
        /\ \A y \in Item \ {x} : g.next[y] = h.next[y] /\ g.prev[y] = h.prev[y]
    BY <2>4 DEF Heap, N, P, C
  <2>6. n = 0 /\ Els(s) = {}
    BY <1>4 DEF Els
  <2>7. Linked(g, p, t)
    BY <1>2, <2>5, <2>6 DEF Linked
  <2>8. QED
    BY <1>3, <2>4, <2>5, <2>6, <2>7 DEF Relinked, g, t
<1>5. CASE s # <<>>
  <2> DEFINE c == s[1]
             l == s[n]
  <2>1. n >= 1 /\ c \in Els(s) /\ l \in Els(s) /\ c \in Item /\ l \in Item
        /\ h.child[p] = c /\ h.prev[c] = l /\ h.next[l] = NULL /\ x # c /\ x # l
    BY <1>1, <1>5 DEF Linked
  <2> HIDE DEF c, l
  <2>2. g = [suffix_object(h, l, x) EXCEPT !.prev[c] = x]
    BY <1>1, <2>1 DEF add_item_to_array
  <2> DEFINE N == [h.next EXCEPT ![l] = x]
             P == [h.prev EXCEPT ![x] = l, ![c] = x]
             C == h.child
  <2>3. g = WithPointers(h, N, P, C)
    BY <2>2 DEF suffix_object, Heap, WithPointers
  <2>4. N \in [Item -> Pointer] /\ P \in [Item -> Pointer]
        /\ C \in [Item -> Pointer]
    BY <2>1 DEF Heap, Pointer
  <2> HIDE DEF g, N, P, C
  <2>5. /\ g \in Heap /\ g.next = N /\ g.prev = P /\ g.child = C
        /\ g.live = h.live /\ g.ref = h.ref /\ g.key = h.key /\ g.const = h.const
        /\ g.strings = h.strings
    <3>1. Pointing(h, g, N, P, C)
      BY <2>3, <2>4, SetPointers
    <3>2. QED
      BY <3>1 DEF Pointing
  <2>6. /\ g.next[l] = x /\ \A y \in Item \ {l} : g.next[y] = h.next[y]
        /\ g.prev[x] = l /\ g.prev[c] = x
        /\ \A y \in Item \ {x, c} : g.prev[y] = h.prev[y]
    BY <2>1, <2>5 DEF Heap, N, P
  <2>7. g.child = h.child
    BY <2>5 DEF C
  <2>8. ASSUME NEW i \in 1 .. n
        PROVE  /\ g.next[t[i]] = t[i + 1]
               /\ g.prev[t[i]] = IF i = 1 THEN x ELSE t[i - 1]
    <3>1. /\ t[i] = s[i] /\ s[i] \in Item /\ s[i] # x
          /\ s[i] = l <=> i = n
          /\ s[i] = c <=> i = 1
      BY <1>1, <1>2, <2>1 DEF Distinct, c, l
    <3>2. g.next[t[i]] = t[i + 1]
      BY <1>1, <1>2, <2>1, <2>6, <3>1 DEF Linked
    <3>3. g.prev[t[i]] = IF i = 1 THEN x ELSE t[i - 1]
      <4>1. CASE i = 1
        BY <2>6, <3>1, <4>1
      <4>2. CASE i # 1
        <5>1. g.prev[s[i]] = s[i - 1] /\ i - 1 \in 1 .. n
          BY <1>1, <2>6, <3>1, <4>2 DEF Linked
        <5>2. QED
          BY <1>2, <3>1, <4>2, <5>1
      <4>3. QED
        BY <4>1, <4>2
    <3>4. QED
      BY <3>2, <3>3
  <2>9. Linked(g, p, t)
    <3>1. g.child[p] = t[1] /\ t # <<>>
      BY <1>1, <1>2, <2>1, <2>7 DEF c
    <3>2. g.next[t[n + 1]] = NULL /\ g.prev[t[n + 1]] = t[n]
      BY <1>1, <1>2, <2>1, <2>6 DEF l
    <3>3. n + 1 # 1
      BY <1>1, <2>1
    <3>4. QED
      BY <1>1, <1>2, <2>8, <3>1, <3>2, <3>3 DEF Linked
  <2>10. QED
    BY <1>3, <2>1, <2>5, <2>6, <2>9, <2>7 DEF Relinked, g, t
<1>6. QED
  BY <1>4, <1>5

\* What is known of the items of a chain, as the proofs below use it.
LEMMA LinksOf ==
  ASSUME NEW h \in Heap, NEW p \in Item, NEW s \in Seq(Item), Distinct(s),
         Linked(h, p, s), NEW i \in 1 .. Len(s)
  PROVE  /\ s[i] \in Item /\ s[i] \in Els(s) /\ s[i] # NULL
         /\ \A k \in 1 .. Len(s) : s[k] = s[i] => k = i
         /\ h.next[s[i]] = IF i = Len(s) THEN NULL ELSE s[i + 1]
         /\ h.prev[s[i]] = IF i = 1 THEN s[Len(s)] ELSE s[i - 1]
         /\ h.child[p] = s[1]
BY ItemAssumption DEF Linked, Distinct, Els

\* The sequence with x between the first j - 1 elements and the others.
LEMMA BetweenIs ==
  ASSUME NEW s \in Seq(Item), NEW j \in 1 .. Len(s) + 1, NEW x \in Item
  PROVE  LET t == Forest!Between(s, j - 1, x)
         IN  /\ t \in Seq(Item) /\ Len(t) = Len(s) + 1
             /\ \A k \in 1 .. Len(s) + 1 :
                  t[k] = IF k < j THEN s[k] ELSE IF k = j THEN x ELSE s[k - 1]
             /\ Els(t) = Els(s) \cup {x}
<1> DEFINE n == Len(s)
           a == SubSeq(s, 1, j - 1)
           b == SubSeq(s, j, n)
           t == Forest!Between(s, j - 1, x)
<1>1. n \in Nat /\ j \in Nat /\ 1 <= j /\ j <= n + 1 /\ (j - 1) + 1 = j
  OBVIOUS
<1>2. t = a \o <<x>> \o b
  BY <1>1 DEF Forest!Between
<1>3. a \in Seq(Item) /\ Len(a) = j - 1 /\ \A k \in 1 .. j - 1 : a[k] = s[k]
  BY <1>1
<1>4. b \in Seq(Item) /\ Len(b) = n - j + 1
      /\ \A k \in 1 .. n - j + 1 : b[k] = s[k + j - 1]
  BY <1>1
<1> HIDE DEF n, a, b, t
<1>5. /\ a \o <<x>> \in Seq(Item) /\ Len(a \o <<x>>) = j
      /\ \A k \in 1 .. j : (a \o <<x>>)[k] = IF k < j THEN s[k] ELSE x
  BY <1>1, <1>3
<1>6. /\ t \in Seq(Item) /\ Len(t) = n + 1
      /\ \A k \in 1 .. n + 1 :
           t[k] = IF k <= j THEN (a \o <<x>>)[k] ELSE b[k - j]
  <2> DEFINE c == a \o <<x>>
  <2>4. c \in Seq(Item) /\ Len(c) = j
    BY <1>5
  <2> HIDE DEF c
  <2>1. /\ c \o b \in Seq(Item) /\ Len(c \o b) = Len(c) + Len(b)
        /\ \A k \in 1 .. Len(c) + Len(b) :
             (c \o b)[k] = IF k <= Len(c) THEN c[k] ELSE b[k - Len(c)]
    BY <1>4, <2>4, ConcatProperties
  <2>2. Len(c) = j /\ Len(c) + Len(b) = n + 1
    BY <1>1, <1>4, <2>4
  <2>3. QED
    BY <1>2, <2>1, <2>2 DEF c
<1>7. ASSUME NEW k \in 1 .. n + 1
      PROVE  t[k] = IF k < j THEN s[k] ELSE IF k = j THEN x ELSE s[k - 1]
  <2>1. CASE k <= j
    BY <1>1, <1>5, <1>6, <2>1
  <2>2. CASE ~(k <= j)
    <3>1. k - j \in 1 .. n - j + 1 /\ (k - j) + j - 1 = k - 1 /\ ~(k < j) /\ k # j
      BY <1>1, <2>2
    <3>2. b[k - j] = s[(k - j) + j - 1]
      BY <1>4, <3>1
    <3>3. t[k] = b[k - j]
      BY <1>6, <2>2
    <3>4. QED
      BY <3>1, <3>2, <3>3
  <2>3. QED
    BY <2>1, <2>2
<1>8. Els(t) = Els(s) \cup {x}
  <2>1. ASSUME NEW k \in 1 .. n + 1
        PROVE  t[k] \in Els(s) \cup {x}
    <3>1. k < j => k \in 1 .. n
      BY <1>1
    <3>2. ~(k < j) /\ k # j => k - 1 \in 1 .. n
      BY <1>1
    <3>3. QED
      BY <1>7, <3>1, <3>2 DEF Els, n
  <2>2. j \in 1 .. n + 1 /\ t[j] = x
    BY <1>1, <1>7
  <2>3. ASSUME NEW k \in 1 .. n
        PROVE  s[k] \in Els(t)
    <3>1. k < j => k \in 1 .. n + 1 /\ t[k] = s[k]
      BY <1>1, <1>7
    <3>2. ~(k < j) => k + 1 \in 1 .. n + 1 /\ t[k + 1] = s[k]
      <4>1. SUFFICES ASSUME ~(k < j)
                     PROVE  k + 1 \in 1 .. n + 1 /\ t[k + 1] = s[k]
        OBVIOUS
      <4>2. k + 1 \in 1 .. n + 1 /\ ~(k + 1 < j) /\ k + 1 # j /\ (k + 1) - 1 = k
        BY <1>1, <4>1
      <4>3. QED
        BY <1>7, <4>2
    <3>3. QED
      BY <1>6, <3>1, <3>2 DEF Els
  <2>4. QED
    BY <1>6, <2>1, <2>2, <2>3 DEF Els, n
<1>9. QED
  BY <1>6, <1>7, <1>8 DEF t, n

\* The sequence without its element j.
LEMMA WithoutIs ==
  ASSUME NEW s \in Seq(Item), NEW j \in 1 .. Len(s), Distinct(s)
  PROVE  LET t == Forest!Without(s, j)
         IN  /\ t \in Seq(Item) /\ Len(t) = Len(s) - 1
             /\ \A k \in 1 .. Len(s) - 1 :
                  t[k] = IF k < j THEN s[k] ELSE s[k + 1]
             /\ Distinct(t)
             /\ Els(t) = Els(s) \ {s[j]}
<1> DEFINE n == Len(s)
           a == SubSeq(s, 1, j - 1)
           b == SubSeq(s, j + 1, n)
           t == Forest!Without(s, j)
<1>1. n \in Nat /\ j \in Nat /\ 1 <= j /\ j <= n
  OBVIOUS
<1>2. t = a \o b
  BY DEF Forest!Without
<1>3. a \in Seq(Item) /\ Len(a) = j - 1 /\ \A k \in 1 .. j - 1 : a[k] = s[k]
  BY <1>1
<1>4. b \in Seq(Item) /\ Len(b) = n - j
      /\ \A k \in 1 .. n - j : b[k] = s[k + j]
  BY <1>1
<1> HIDE DEF n, a, b, t
<1>5. /\ t \in Seq(Item) /\ Len(t) = n - 1
      /\ \A k \in 1 .. n - 1 :
           t[k] = IF k <= j - 1 THEN a[k] ELSE b[k - (j - 1)]
  <2>1. /\ a \o b \in Seq(Item) /\ Len(a \o b) = Len(a) + Len(b)
        /\ \A k \in 1 .. Len(a) + Len(b) :
             (a \o b)[k] = IF k <= Len(a) THEN a[k] ELSE b[k - Len(a)]
    BY <1>3, <1>4, ConcatProperties
  <2>2. Len(a) = j - 1 /\ Len(a) + Len(b) = n - 1
    BY <1>1, <1>3, <1>4
  <2>3. QED
    BY <1>2, <2>1, <2>2
<1>6. ASSUME NEW k \in 1 .. n - 1
      PROVE  t[k] = IF k < j THEN s[k] ELSE s[k + 1]
  <2>1. CASE k < j
    BY <1>1, <1>3, <1>5, <2>1
  <2>2. CASE ~(k < j)
    <3>1. k - (j - 1) \in 1 .. n - j /\ (k - (j - 1)) + j = k + 1 /\ ~(k <= j - 1)
      BY <1>1, <2>2
    <3>2. QED
      BY <1>1, <1>4, <1>5, <2>2, <3>1
  <2>3. QED
    BY <2>1, <2>2
<1>7. ASSUME NEW k \in 1 .. n - 1
      PROVE  k \in 1 .. n /\ k + 1 \in 1 .. n
  BY <1>1
<1>8. Distinct(t)
  <2>1. ASSUME NEW k \in 1 .. n - 1, NEW m \in 1 .. n - 1, t[k] = t[m]
        PROVE  k = m
    <3> DEFINE i == IF k < j THEN k ELSE k + 1
               l == IF m < j THEN m ELSE m + 1
    <3>1. t[k] = s[i] /\ t[m] = s[l] /\ i \in 1 .. n /\ l \in 1 .. n
      BY <1>6, <1>7
    <3>2. i = l
      BY <2>1, <3>1 DEF Distinct, n
    <3>3. QED
      BY <1>1, <3>2
  <2>2. QED
    BY <1>5, <2>1 DEF Distinct
<1>9. Els(t) = Els(s) \ {s[j]}
  <2>1. ASSUME NEW k \in 1 .. n - 1
        PROVE  t[k] \in Els(s) \ {s[j]}
    <3>1. k < j => t[k] = s[k] /\ k # j
      BY <1>1, <1>6
    <3>2. ~(k < j) => t[k] = s[k + 1] /\ k + 1 # j
      BY <1>1, <1>6
    <3>3. QED
      BY <1>1, <1>7, <3>1, <3>2 DEF Els, Distinct, n
  <2>2. ASSUME NEW k \in 1 .. n, k # j
        PROVE  s[k] \in Els(t)
    <3>1. CASE k < j
      <4>1. k \in 1 .. n - 1
        BY <1>1, <3>1
      <4>2. QED
        BY <1>5, <1>6, <3>1, <4>1 DEF Els
    <3>2. CASE ~(k < j)
      <4>1. k - 1 \in 1 .. n - 1 /\ ~(k - 1 < j) /\ (k - 1) + 1 = k
        BY <1>1, <2>2, <3>2
      <4>2. t[k - 1] = s[k]
        BY <1>6, <4>1
      <4>3. QED
        BY <1>5, <4>1, <4>2 DEF Els
    <3>3. QED
      BY <3>1, <3>2
  <2>3. QED
    BY <1>1, <1>5, <2>1, <2>2 DEF Els, n
<1>10. QED
  BY <1>5, <1>6, <1>8, <1>9 DEF t, n

\* An item in front of the item j of a chain.
LEMMA InsertRelinks ==
  ASSUME NEW h \in Heap, NEW p \in Item, NEW s \in Seq(Item), Distinct(s),
         Linked(h, p, s), NEW x \in Item \ Els(s), NEW j \in 1 .. Len(s)
  PROVE  Relinked(h, cJSON_InsertItemInArray(h, p, s[j], x), p, s,
                  Forest!Between(s, j - 1, x))
<1> DEFINE g == cJSON_InsertItemInArray(h, p, s[j], x)
           t == Forest!Between(s, j - 1, x)
           n == Len(s)
           a == s[j]
           b == s[j - 1]
           N == IF j = 1 THEN [h.next EXCEPT ![x] = a]
                ELSE [h.next EXCEPT ![x] = a, ![b] = x]
           P == [h.prev EXCEPT ![x] = h.prev[a], ![a] = x]
           C == IF j = 1 THEN [h.child EXCEPT ![p] = x] ELSE h.child
<1>1. n \in Nat /\ j \in Nat /\ 1 <= j /\ j <= n /\ j \in 1 .. n
  OBVIOUS
<1>2. ASSUME NEW k \in 1 .. n
      PROVE  /\ s[k] \in Item /\ s[k] # NULL /\ s[k] # x
             /\ \A m \in 1 .. n : s[m] = s[k] => m = k
             /\ h.next[s[k]] = IF k = n THEN NULL ELSE s[k + 1]
             /\ h.prev[s[k]] = IF k = 1 THEN s[n] ELSE s[k - 1]
             /\ h.child[p] = s[1]
  BY LinksOf
<1>3. /\ t \in Seq(Item) /\ Len(t) = n + 1 /\ Els(t) = Els(s) \cup {x}
      /\ \A k \in 1 .. n + 1 :
           t[k] = IF k < j THEN s[k] ELSE IF k = j THEN x ELSE s[k - 1]
  <2>1. j \in 1 .. Len(s) + 1
    BY <1>1
  <2>2. QED
    BY <2>1, BetweenIs
<1> HIDE DEF t, n
<1>4. /\ a \in Item /\ a # NULL /\ a # x /\ h.prev[a] = IF j = 1 THEN s[n] ELSE b
      /\ h.prev[a] \in Item
      /\ j # 1 => b \in Item /\ b # a /\ b # x /\ a # h.child[p] /\ j - 1 \in 1 .. n
      /\ j = 1 => a = h.child[p]
  <2>1. 1 \in 1 .. n /\ n \in 1 .. n /\ j \in 1 .. n
    BY <1>1
  <2>2. j # 1 => j - 1 \in 1 .. n /\ j - 1 # j
    BY <1>1
  <2>3. QED
    BY <1>2, <2>1, <2>2
<1>5. g = WithPointers(h, N, P, C)
  <2>1. CASE j = 1
    <3>1. g = [h EXCEPT !.next[x] = a, !.prev[x] = h.prev[a], !.prev[a] = x,
                        !.child[p] = x]
      BY <1>4, <2>1 DEF cJSON_InsertItemInArray, Heap
    <3>2. QED
      BY <2>1, <3>1 DEF WithPointers, Heap
  <2>2. CASE j # 1
    <3> DEFINE h1 == [h EXCEPT !.next[x] = a, !.prev[x] = h.prev[a], !.prev[a] = x]
    <3>1. h1.child = h.child /\ h1.prev[x] = b
      BY <1>4, <2>2 DEF Heap
    <3>2. h.prev[a] # NULL
      BY <1>4, ItemAssumption
    <3>3. g = [h1 EXCEPT !.next[h1.prev[x]] = x]
      <4> HIDE DEF h1
      <4>1. QED
        BY <1>4, <2>2, <3>1, <3>2 DEF cJSON_InsertItemInArray, h1
    <3>4. g = [h1 EXCEPT !.next[b] = x]
      <4> HIDE DEF h1
      <4>1. QED
        BY <3>1, <3>3
    <3>5. QED
      BY <2>2, <3>4 DEF WithPointers, Heap
  <2>3. QED
    BY <2>1, <2>2
<1>6. N \in [Item -> Pointer] /\ P \in [Item -> Pointer] /\ C \in [Item -> Pointer]
  BY <1>4 DEF Heap, Pointer
<1>7. /\ N[x] = a /\ P[x] = h.prev[a] /\ P[a] = x
      /\ \A y \in Item : y # x /\ (j = 1 \/ y # b) => N[y] = h.next[y]
      /\ j # 1 => N[b] = x
      /\ \A y \in Item : y # x /\ y # a => P[y] = h.prev[y]
      /\ C[p] = IF j = 1 THEN x ELSE h.child[p]
      /\ \A q \in Item \ {p} : C[q] = h.child[q]
  BY <1>4 DEF Heap
<1> HIDE DEF g, N, P, C
<1>8. /\ g \in Heap /\ g.next = N /\ g.prev = P /\ g.child = C
      /\ g.live = h.live /\ g.ref = h.ref /\ g.key = h.key /\ g.const = h.const
      /\ g.strings = h.strings
  <2>1. Pointing(h, g, N, P, C)
    BY <1>5, <1>6, SetPointers
  <2>2. QED
    BY <2>1 DEF Pointing
<1>9. ASSUME NEW k \in 1 .. n + 1
      PROVE  /\ N[t[k]] = IF k = n + 1 THEN NULL ELSE t[k + 1]
             /\ P[t[k]] = IF k = 1 THEN t[n + 1] ELSE t[k - 1]
  <2>1. CASE k < j
    <3>1. k \in 1 .. n /\ k + 1 \in 1 .. n + 1 /\ n + 1 \in 1 .. n + 1 /\ k # n + 1
          /\ k # n /\ k # j /\ n + 1 # j /\ ~(n + 1 < j) /\ (n + 1) - 1 = n
      BY <1>1, <2>1
    <3>2. t[k] = s[k] /\ t[n + 1] = s[n]
      BY <1>3, <2>1, <3>1
    <3>3. N[s[k]] = t[k + 1]
      <4>1. CASE k + 1 = j
        <5>1. j # 1 /\ k = j - 1
          BY <1>1, <4>1
        <5>2. QED
          BY <1>3, <1>7, <3>1, <4>1, <5>1
      <4>2. CASE k + 1 # j
        <5>1. k + 1 < j /\ k # j - 1
          BY <1>1, <2>1, <4>2
        <5>2. t[k + 1] = s[k + 1] /\ h.next[s[k]] = s[k + 1]
          BY <1>2, <1>3, <3>1, <5>1
        <5>3. s[k] # x /\ (j # 1 => s[k] # b)
          BY <1>2, <1>4, <3>1, <5>1
        <5>4. QED
          BY <1>2, <1>7, <3>1, <5>2, <5>3
      <4>3. QED
        BY <4>1, <4>2
    <3>4. P[s[k]] = h.prev[s[k]]
      BY <1>1, <1>2, <1>7, <3>1
    <3>5. k # 1 => k - 1 \in 1 .. n + 1 /\ k - 1 < j
      BY <1>1, <2>1
    <3>6. P[s[k]] = IF k = 1 THEN t[n + 1] ELSE t[k - 1]
      BY <1>2, <1>3, <3>1, <3>2, <3>4, <3>5
    <3>7. QED
      BY <3>1, <3>2, <3>3, <3>6
  <2>2. CASE k = j
    <3>1. t[k] = x /\ k + 1 \in 1 .. n + 1 /\ ~(k + 1 < j) /\ k + 1 # j /\ (k + 1) - 1 = j
          /\ k # n + 1
      BY <1>1, <1>3, <2>2
    <3>2. t[k + 1] = a
      BY <1>3, <3>1
    <3>3. n + 1 \in 1 .. n + 1 /\ ~(n + 1 < j) /\ n + 1 # j /\ (n + 1) - 1 = n
      BY <1>1
    <3>4. t[n + 1] = s[n]
      BY <1>3, <3>3
    <3>5. k # 1 => k - 1 \in 1 .. n + 1 /\ k - 1 < j
      BY <1>1, <2>2
    <3>6. k # 1 => t[k - 1] = b
      BY <1>3, <2>2, <3>5
    <3>7. QED
      BY <1>4, <1>7, <2>2, <3>1, <3>2, <3>4, <3>6
  <2>3. CASE ~(k < j) /\ k # j
    <3>1. k - 1 \in 1 .. n /\ k # 1 /\ (k - 1) + 1 = k /\ j <= k - 1
      BY <1>1, <2>3
    <3>2. t[k] = s[k - 1]
      BY <1>3, <2>3
    <3>3. s[k - 1] # x /\ (j # 1 => s[k - 1] # b)
      <4>1. j # 1 => j - 1 # k - 1
        BY <1>1, <3>1
      <4>2. QED
        BY <1>2, <1>4, <3>1, <4>1
    <3>4. N[t[k]] = IF k = n + 1 THEN NULL ELSE t[k + 1]
      <4>1. N[t[k]] = h.next[s[k - 1]]
        BY <1>2, <1>7, <3>1, <3>2, <3>3
      <4>2. CASE k = n + 1
        BY <1>1, <1>2, <3>1, <4>1, <4>2
      <4>3. CASE k # n + 1
        <5>1. k + 1 \in 1 .. n + 1 /\ ~(k + 1 < j) /\ k + 1 # j /\ (k + 1) - 1 = k
              /\ k - 1 # n
          BY <1>1, <3>1, <4>3
        <5>2. t[k + 1] = s[k]
          BY <1>3, <5>1
        <5>3. h.next[s[k - 1]] = s[k]
          BY <1>2, <3>1, <5>1
        <5>4. QED
          BY <4>1, <4>3, <5>2, <5>3
      <4>4. QED
        BY <4>2, <4>3
    <3>5. P[t[k]] = t[k - 1]
      <4>1. k - 1 \in 1 .. n + 1
        BY <1>1, <3>1
      <4>2. CASE k - 1 = j
        BY <1>1, <1>3, <1>7, <3>2, <4>1, <4>2
      <4>3. CASE k - 1 # j
        <5>1. ~(k - 1 < j) /\ k - 1 # 1
          BY <1>1, <3>1, <4>3
        <5>2. t[k - 1] = s[(k - 1) - 1]
          BY <1>3, <4>1, <4>3, <5>1
        <5>3. s[k - 1] # a
          BY <1>1, <1>2, <3>1, <4>3
        <5>4. QED
          BY <1>2, <1>7, <3>1, <3>2, <3>3, <5>1, <5>2, <5>3
      <4>4. QED
        BY <4>2, <4>3
    <3>6. QED
      BY <3>1, <3>4, <3>5
  <2>4. QED
    BY <2>1, <2>2, <2>3
<1>10. C[p] = t[1] /\ t # <<>>
  <2>1. 1 \in 1 .. n + 1 /\ (j # 1 => 1 < j) /\ n + 1 # 0 /\ 1 \in 1 .. n
    BY <1>1
  <2>2. t[1] = IF j = 1 THEN x ELSE s[1]
    BY <1>3, <2>1
  <2>3. QED
    BY <1>2, <1>3, <1>7, <2>1, <2>2
<1>11. Linked(g, p, t)
  <2>1. \A k \in 1 .. Len(t) :
          /\ g.next[t[k]] = IF k = Len(t) THEN NULL ELSE t[k + 1]
          /\ g.prev[t[k]] = IF k = 1 THEN t[Len(t)] ELSE t[k - 1]
    <3>1. 1 .. Len(t) = 1 .. n + 1 /\ Len(t) = n + 1
      BY <1>3
    <3>2. QED
      BY <1>8, <1>9, <3>1
  <2>2. QED
    BY <1>8, <1>10, <2>1 DEF Linked
<1>12. a \in Els(s) /\ (j # 1 => b \in Els(s))
  BY <1>4 DEF Els, n
<1>13. ASSUME NEW y \in Item \ (Els(s) \cup Els(t))
       PROVE  g.next[y] = h.next[y] /\ g.prev[y] = h.prev[y]
  BY <1>3, <1>7, <1>8, <1>12
<1>14. QED
  BY <1>3, <1>7, <1>8, <1>11, <1>13 DEF Relinked, g, t

\* The item j of a chain taken out.
LEMMA DetachRelinks ==
  ASSUME NEW h \in Heap, NEW p \in Item, NEW s \in Seq(Item), Distinct(s),
         Linked(h, p, s), NEW j \in 1 .. Len(s)
  PROVE  Relinked(h, cJSON_DetachItemViaPointer(h, p, s[j]), p, s,
                  Forest!Without(s, j))
<1> DEFINE g == cJSON_DetachItemViaPointer(h, p, s[j])
           t == Forest!Without(s, j)
           n == Len(s)
           x == s[j]
           b == s[j - 1]
           d == IF j = n THEN s[1] ELSE s[j + 1]
           N == IF j = 1 THEN [h.next EXCEPT ![x] = NULL]
                ELSE [h.next EXCEPT ![b] = h.next[x], ![x] = NULL]
           P == [h.prev EXCEPT ![d] = h.prev[x], ![x] = NULL]
           C == IF j = 1 THEN [h.child EXCEPT ![p] = h.next[x]] ELSE h.child
<1>1. n \in Nat /\ j \in Nat /\ 1 <= j /\ j <= n /\ j \in 1 .. n
  OBVIOUS
<1>2. ASSUME NEW k \in 1 .. n
      PROVE  /\ s[k] \in Item /\ s[k] # NULL /\ s[k] \in Els(s)
             /\ \A m \in 1 .. n : s[m] = s[k] => m = k
             /\ h.next[s[k]] = IF k = n THEN NULL ELSE s[k + 1]
             /\ h.prev[s[k]] = IF k = 1 THEN s[n] ELSE s[k - 1]
             /\ h.child[p] = s[1]
  BY LinksOf
<1>3. /\ t \in Seq(Item) /\ Len(t) = n - 1 /\ Els(t) = Els(s) \ {x}
      /\ \A k \in 1 .. n - 1 : t[k] = IF k < j THEN s[k] ELSE s[k + 1]
  BY WithoutIs
<1> HIDE DEF t, n, d
<1>4. /\ x \in Item /\ x # NULL /\ x \in Els(s) /\ h.prev[x] \in Item
      /\ h.prev[x] = IF j = 1 THEN s[n] ELSE b
      /\ h.next[x] = IF j = n THEN NULL ELSE s[j + 1]
      /\ (j = n) <=> (h.next[x] = NULL)
      /\ (j = 1) <=> (x = h.child[p])
      /\ j # 1 => b \in Item /\ b # x /\ b \in Els(s) /\ j - 1 \in 1 .. n
      /\ h.next[x] \in Pointer
  <2>1. 1 \in 1 .. n /\ n \in 1 .. n
    BY <1>1
  <2>2. j # 1 => j - 1 \in 1 .. n /\ j - 1 # j
    BY <1>1
  <2>3. j # n => j + 1 \in 1 .. n
    BY <1>1
  <2>4. QED
    BY <1>1, <1>2, <2>1, <2>2, <2>3 DEF Pointer
<1>5. /\ d \in Item /\ d \in Els(s) /\ (d = x <=> n = 1)
      /\ j = n => d = s[1]
      /\ j # n => d = s[j + 1]
  <2>1. CASE j = n
    <3>1. d = s[1] /\ 1 \in 1 .. n
      BY <1>1, <2>1 DEF d
    <3>2. QED
      BY <1>1, <1>2, <2>1, <3>1
  <2>2. CASE j # n
    <3>1. d = s[j + 1] /\ j + 1 \in 1 .. n /\ j + 1 # j /\ n # 1
      BY <1>1, <2>2 DEF d
    <3>2. QED
      BY <1>1, <1>2, <2>2, <3>1
  <2>3. QED
    BY <2>1, <2>2
<1> HIDE DEF x, b
<1>6. g = WithPointers(h, N, P, C)
  <2>1. CASE j = 1 /\ j = n
    <3>1. h.child[p] = x /\ h.next[x] = NULL /\ d = x
      BY <1>4, <1>5, <2>1
    <3>2. g = [h EXCEPT !.child[p] = h.next[x], !.prev[x] = NULL, !.next[x] = NULL]
      BY <3>1 DEF cJSON_DetachItemViaPointer, x
    <3>3. P = [h.prev EXCEPT ![x] = NULL]
      BY <1>4, <3>1 DEF Heap
    <3>4. N = [h.next EXCEPT ![x] = NULL] /\ C = [h.child EXCEPT ![p] = h.next[x]]
      BY <2>1
    <3> HIDE DEF g, N, P, C
    <3>5. g = WithPointers(h, [h.next EXCEPT ![x] = NULL], [h.prev EXCEPT ![x] = NULL],
                           [h.child EXCEPT ![p] = h.next[x]])
      BY <1>4, <3>2 DEF WithPointers, Heap
    <3>6. QED
      BY <3>3, <3>4, <3>5
  <2>2. CASE j = 1 /\ j # n
    <3>1. h.child[p] = x /\ h.next[x] # NULL /\ h.next[x] = d /\ d # x
      BY <1>1, <1>4, <1>5, <2>2
    <3> DEFINE h2 == [h EXCEPT !.prev[h.next[x]] = h.prev[x]]
    <3>2. h2.next = h.next
      BY DEF Heap
    <3>3. g = [h2 EXCEPT !.child[p] = h2.next[x], !.prev[x] = NULL, !.next[x] = NULL]
      BY <3>1 DEF cJSON_DetachItemViaPointer, x
    <3>4. g = [h2 EXCEPT !.child[p] = h.next[x], !.prev[x] = NULL, !.next[x] = NULL]
      <4> HIDE DEF h2
      <4>1. QED
        BY <3>2, <3>3
    <3>5. QED
      BY <1>4, <1>5, <2>2, <3>1, <3>4 DEF WithPointers, Heap
  <2>3. CASE j # 1 /\ j = n
    <3>1. h.child[p] # x /\ h.next[x] = NULL /\ h.child[p] = d /\ h.prev[x] = b /\ b # NULL
          /\ b # x
      <4>1. 1 \in 1 .. n
        BY <1>1
      <4>2. QED
        BY <1>2, <1>4, <1>5, <2>3, <4>1, ItemAssumption
    <3> DEFINE h1 == [h EXCEPT !.next[h.prev[x]] = h.next[x]]
    <3>2. h1.child = h.child /\ h1.prev = h.prev
      BY DEF Heap
    <3>3. g = [h1 EXCEPT !.prev[h1.child[p]] = h1.prev[x], !.prev[x] = NULL,
                         !.next[x] = NULL]
      BY <3>1 DEF cJSON_DetachItemViaPointer, x
    <3>4. g = [h1 EXCEPT !.prev[d] = h.prev[x], !.prev[x] = NULL, !.next[x] = NULL]
      <4> HIDE DEF h1
      <4>1. QED
        BY <3>1, <3>2, <3>3
    <3>5. QED
      BY <1>4, <1>5, <2>3, <3>1, <3>4 DEF WithPointers, Heap
  <2>4. CASE j # 1 /\ j # n
    <3>1. h.child[p] # x /\ h.next[x] # NULL /\ h.next[x] = d /\ h.prev[x] = b /\ b # NULL
          /\ b # x
      BY <1>4, <1>5, <2>4, ItemAssumption
    <3> DEFINE h1 == [h EXCEPT !.next[h.prev[x]] = h.next[x]]
    <3>2. h1.next[x] = h.next[x] /\ h1.prev = h.prev
      BY <1>4, <2>4, <3>1 DEF Heap
    <3>3. g = [[h1 EXCEPT !.prev[h1.next[x]] = h1.prev[x]]
                  EXCEPT !.prev[x] = NULL, !.next[x] = NULL]
      BY <3>1 DEF cJSON_DetachItemViaPointer, x
    <3>4. g = [[h1 EXCEPT !.prev[d] = h.prev[x]]
                  EXCEPT !.prev[x] = NULL, !.next[x] = NULL]
      <4> HIDE DEF h1
      <4>1. QED
        BY <3>1, <3>2, <3>3
    <3>5. QED
      BY <1>4, <1>5, <2>4, <3>1, <3>4 DEF WithPointers, Heap
  <2>5. QED
    BY <2>1, <2>2, <2>3, <2>4
<1>7. N \in [Item -> Pointer] /\ P \in [Item -> Pointer] /\ C \in [Item -> Pointer]
  BY <1>4, <1>5 DEF Heap, Pointer
<1>8. /\ N[x] = NULL /\ P[x] = NULL
      /\ d # x => P[d] = h.prev[x]
      /\ \A y \in Item : y # x /\ (j = 1 \/ y # b) => N[y] = h.next[y]
      /\ j # 1 => N[b] = h.next[x]
      /\ \A y \in Item : y # x /\ y # d => P[y] = h.prev[y]
      /\ C[p] = IF j = 1 THEN h.next[x] ELSE h.child[p]
      /\ \A q \in Item \ {p} : C[q] = h.child[q]
  BY <1>4, <1>5 DEF Heap
<1> HIDE DEF g, N, P, C
<1>9. /\ g \in Heap /\ g.next = N /\ g.prev = P /\ g.child = C
      /\ g.live = h.live /\ g.ref = h.ref /\ g.key = h.key /\ g.const = h.const
      /\ g.strings = h.strings
  <2>1. Pointing(h, g, N, P, C)
    BY <1>6, <1>7, SetPointers
  <2>2. QED
    BY <2>1 DEF Pointing
<1>10. ASSUME NEW k \in 1 .. n - 1
       PROVE  /\ N[t[k]] = IF k = n - 1 THEN NULL ELSE t[k + 1]
              /\ P[t[k]] = IF k = 1 THEN t[n - 1] ELSE t[k - 1]
  <2>1. /\ k \in 1 .. n /\ k + 1 \in 1 .. n /\ k # n /\ n # 1
        /\ k # n - 1 => k + 1 \in 1 .. n - 1
        /\ k # 1 => k - 1 \in 1 .. n - 1 /\ k - 1 \in 1 .. n
        /\ n - 1 \in 1 .. n - 1 /\ (n - 1) + 1 = n /\ (n - 1 < j <=> j = n)
    BY <1>1
  <2>2. t[n - 1] = IF j = n THEN s[n - 1] ELSE s[n]
    BY <1>3, <2>1
  <2>3. CASE k < j
    <3>1. t[k] = s[k] /\ s[k] # x /\ k # j
      BY <1>1, <1>2, <1>3, <2>1, <2>3 DEF x
    <3>2. N[s[k]] = IF k = n - 1 THEN NULL ELSE t[k + 1]
      <4>1. CASE k = j - 1
        <5>1. N[s[k]] = h.next[x] /\ k + 1 = j /\ ~(k + 1 < j)
          BY <1>1, <1>8, <2>3, <4>1 DEF b
        <5>2. h.next[x] = IF k = n - 1 THEN NULL ELSE s[j + 1]
          BY <1>1, <1>4, <4>1
        <5>3. k # n - 1 => t[k + 1] = s[j + 1]
          BY <1>3, <2>1, <5>1
        <5>4. QED
          BY <5>1, <5>2, <5>3
      <4>2. CASE k # j - 1
        <5>1. k + 1 < j /\ k # n - 1
          BY <1>1, <2>3, <4>2
        <5>2. j # 1 => s[k] # b
          BY <1>2, <1>4, <2>1, <4>2 DEF b
        <5>3. N[s[k]] = h.next[s[k]]
          BY <1>2, <1>8, <2>1, <3>1, <5>2
        <5>4. t[k + 1] = s[k + 1]
          BY <1>3, <2>1, <5>1
        <5>5. QED
          BY <1>2, <2>1, <5>1, <5>3, <5>4
      <4>3. QED
        BY <4>1, <4>2
    <3>3. P[s[k]] = IF k = 1 THEN t[n - 1] ELSE t[k - 1]
      <4>1. CASE k = 1 /\ j = n
        <5>1. s[k] = d /\ d # x /\ h.prev[x] = s[n - 1]
          BY <1>4, <1>5, <2>1, <4>1 DEF b
        <5>2. QED
          BY <1>8, <2>2, <4>1, <5>1
      <4>2. CASE ~(k = 1 /\ j = n)
        <5>1. s[k] # d
          <6>1. CASE j = n
            <7>1. k # 1 /\ 1 \in 1 .. n
              BY <1>1, <4>2, <6>1
            <7>2. QED
              BY <1>2, <1>5, <2>1, <6>1, <7>1
          <6>2. CASE j # n
            <7>1. k # j + 1 /\ j + 1 \in 1 .. n
              BY <1>1, <2>3, <6>2
            <7>2. QED
              <8>1. s[k] = s[j + 1] => k = j + 1
                BY <1>2, <2>1, <7>1
              <8>2. QED
                BY <1>5, <6>2, <7>1, <8>1
          <6>3. QED
            BY <6>1, <6>2
        <5>2. P[s[k]] = h.prev[s[k]]
          BY <1>2, <1>8, <2>1, <3>1, <5>1
        <5>3. k # 1 => t[k - 1] = s[k - 1]
          <6>1. k # 1 => k - 1 < j
            BY <1>1, <2>3
          <6>2. QED
            BY <1>3, <2>1, <6>1
        <5>4. QED
          BY <1>2, <2>1, <2>2, <4>2, <5>2, <5>3
      <4>3. QED
        BY <4>1, <4>2
    <3>4. QED
      BY <3>1, <3>2, <3>3
  <2>4. CASE ~(k < j)
    <3>1. t[k] = s[k + 1] /\ s[k + 1] # x /\ k + 1 # j /\ j # n /\ j # k + 1
      <4>1. k + 1 # j /\ j # n
        BY <1>1, <2>1, <2>4
      <4>2. QED
        BY <1>1, <1>2, <1>3, <2>1, <2>4, <4>1 DEF x
    <3>2. N[s[k + 1]] = IF k = n - 1 THEN NULL ELSE t[k + 1]
      <4>1. j # 1 => s[k + 1] # b
        <5>1. k + 1 # j - 1
          BY <1>1, <2>4
        <5>2. QED
          BY <1>2, <1>4, <2>1, <5>1 DEF b
      <4>2. N[s[k + 1]] = h.next[s[k + 1]]
        BY <1>2, <1>8, <2>1, <3>1, <4>1
      <4>3. (k + 1 = n) <=> (k = n - 1)
        BY <1>1
      <4>4. k # n - 1 => t[k + 1] = s[(k + 1) + 1]
        <5>1. ~(k + 1 < j)
          BY <1>1, <2>4
        <5>2. QED
          BY <1>3, <2>1, <5>1
      <4>5. QED
        BY <1>2, <2>1, <4>2, <4>3, <4>4
    <3>3. P[s[k + 1]] = IF k = 1 THEN t[n - 1] ELSE t[k - 1]
      <4>1. CASE k = j
        <5>1. s[k + 1] = d /\ d # x
          BY <1>5, <2>1, <3>1, <4>1
        <5>2. P[s[k + 1]] = h.prev[x]
          BY <1>8, <5>1
        <5>3. k # 1 => k - 1 < j
          BY <1>1, <4>1
        <5>4. k # 1 => t[k - 1] = s[k - 1]
          BY <1>3, <2>1, <5>3
        <5>5. QED
          BY <1>4, <2>2, <3>1, <4>1, <5>2, <5>4 DEF b
      <4>2. CASE k # j
        <5>1. k + 1 # j + 1 /\ j + 1 \in 1 .. n
          BY <1>1, <3>1, <4>2
        <5>2. s[k + 1] # d
          BY <1>2, <1>5, <2>1, <3>1, <5>1
        <5>3. P[s[k + 1]] = h.prev[s[k + 1]]
          BY <1>2, <1>8, <2>1, <3>1, <5>2
        <5>4. h.prev[s[k + 1]] = s[k]
          <6>1. k + 1 # 1 /\ (k + 1) - 1 = k
            BY <1>1
          <6>2. QED
            BY <1>2, <2>1, <6>1
        <5>5. k # 1 /\ ~(k - 1 < j) /\ (k - 1) + 1 = k
          BY <1>1, <2>4, <4>2
        <5>6. t[k - 1] = s[k]
          BY <1>3, <2>1, <5>5
        <5>7. QED
          BY <5>3, <5>4, <5>5, <5>6
      <4>3. QED
        BY <4>1, <4>2
    <3>4. QED
      BY <3>1, <3>2, <3>3
  <2>5. QED
    BY <2>3, <2>4
<1>11. C[p] = IF t = <<>> THEN NULL ELSE t[1]
  <2>1. CASE n = 1
    <3>1. t = <<>> /\ j = 1 /\ j = n
      BY <1>1, <1>3, <2>1
    <3>2. QED
      BY <1>4, <1>8, <3>1
  <2>2. CASE n # 1
    <3>1. t # <<>> /\ 1 \in 1 .. n - 1 /\ 1 \in 1 .. n /\ (1 < j <=> j # 1) /\ (j = 1 => j # n)
      BY <1>1, <1>3, <2>2
    <3>2. t[1] = IF j # 1 THEN s[1] ELSE s[1 + 1]
      BY <1>3, <3>1
    <3>3. QED
      BY <1>2, <1>4, <1>8, <3>1, <3>2
  <2>3. QED
    BY <2>1, <2>2
<1>12. Linked(g, p, t)
  <2>1. \A k \in 1 .. Len(t) :
          /\ g.next[t[k]] = IF k = Len(t) THEN NULL ELSE t[k + 1]
          /\ g.prev[t[k]] = IF k = 1 THEN t[Len(t)] ELSE t[k - 1]
    <3>1. 1 .. Len(t) = 1 .. n - 1 /\ Len(t) = n - 1
      BY <1>3
    <3>2. QED
      BY <1>9, <1>10, <3>1
  <2>2. QED
    BY <1>9, <1>11, <2>1 DEF Linked
<1>13. ASSUME NEW y \in Item \ (Els(s) \cup Els(t))
       PROVE  g.next[y] = h.next[y] /\ g.prev[y] = h.prev[y]
  <2>1. y # x /\ y # d /\ (j # 1 => y # b)
    BY <1>4, <1>5
  <2>2. QED
    BY <1>8, <1>9, <2>1
<1>14. \A y \in Els(s) \ Els(t) : g.next[y] = NULL /\ g.prev[y] = NULL
  BY <1>3, <1>8, <1>9
<1>15. \A q \in Item \ {p} : g.child[q] = h.child[q]
  BY <1>8, <1>9
<1>16. QED
  BY <1>9, <1>12, <1>13, <1>14, <1>15 DEF Relinked, g, t

\* The sequence with another element at place j.
Substitute(s, j, r) == [s EXCEPT ![j] = r]

\* The item j of a chain replaced.
LEMMA ReplaceRelinks ==
  ASSUME NEW h \in Heap, NEW p \in Item, NEW s \in Seq(Item), Distinct(s),
         Linked(h, p, s), NEW j \in 1 .. Len(s), NEW r \in Item \ Els(s)
  PROVE  /\ Relinked(h, ReplaceLinks(h, p, s[j], r), p, s, Substitute(s, j, r))
         /\ Substitute(s, j, r) \in Seq(Item) /\ Distinct(Substitute(s, j, r))
         /\ Els(Substitute(s, j, r)) = (Els(s) \ {s[j]}) \cup {r}
<1> DEFINE g == ReplaceLinks(h, p, s[j], r)
           t == Substitute(s, j, r)
           n == Len(s)
           x == s[j]
           b == s[j - 1]
           d == IF j = n THEN s[1] ELSE s[j + 1]
           N == IF j = 1 THEN [h.next EXCEPT ![r] = h.next[x], ![x] = NULL]
                ELSE [h.next EXCEPT ![r] = h.next[x], ![b] = r, ![x] = NULL]
           e == IF n = 1 THEN r ELSE h.prev[x]
           P == [h.prev EXCEPT ![r] = e, ![d] = r, ![x] = NULL]
           C == IF j = 1 THEN [h.child EXCEPT ![p] = r] ELSE h.child
<1>1. n \in Nat /\ j \in Nat /\ 1 <= j /\ j <= n /\ j \in 1 .. n
  OBVIOUS
<1>2. ASSUME NEW k \in 1 .. n
      PROVE  /\ s[k] \in Item /\ s[k] # NULL /\ s[k] \in Els(s) /\ s[k] # r
             /\ \A m \in 1 .. n : s[m] = s[k] => m = k
             /\ h.next[s[k]] = IF k = n THEN NULL ELSE s[k + 1]
             /\ h.prev[s[k]] = IF k = 1 THEN s[n] ELSE s[k - 1]
             /\ h.child[p] = s[1]
  BY LinksOf
<1>3. /\ t \in Seq(Item) /\ Len(t) = n
      /\ \A k \in 1 .. n : t[k] = IF k = j THEN r ELSE s[k]
  BY <1>1 DEF Substitute
<1> HIDE DEF t, n, d
<1>4. /\ x \in Item /\ x # NULL /\ x \in Els(s) /\ h.prev[x] \in Item /\ x # r
      /\ h.prev[x] = IF j = 1 THEN s[n] ELSE b
      /\ h.next[x] = IF j = n THEN NULL ELSE s[j + 1]
      /\ (j = n) <=> (h.next[x] = NULL)
      /\ (j = 1) <=> (x = h.child[p])
      /\ j # 1 => b \in Item /\ b # x /\ b # r /\ b \in Els(s) /\ j - 1 \in 1 .. n
      /\ h.next[x] \in Pointer
      /\ h.prev[x] = x <=> n = 1
  <2>1. 1 \in 1 .. n /\ n \in 1 .. n
    BY <1>1
  <2>2. j # 1 => j - 1 \in 1 .. n /\ j - 1 # j
    BY <1>1
  <2>3. j # n => j + 1 \in 1 .. n
    BY <1>1
  <2>4. h.prev[x] = x <=> n = 1
    <3>1. CASE j = 1
      BY <1>1, <1>2, <2>1, <3>1
    <3>2. CASE j # 1
      BY <1>1, <1>2, <2>2, <3>2
    <3>3. QED
      BY <3>1, <3>2
  <2>5. QED
    BY <1>1, <1>2, <2>1, <2>2, <2>3, <2>4 DEF Pointer
<1>5. /\ d \in Item /\ d \in Els(s) /\ (d = x <=> n = 1) /\ d # r
      /\ j = n => d = s[1]
      /\ j # n => d = s[j + 1]
  <2>1. CASE j = n
    <3>1. d = s[1] /\ 1 \in 1 .. n
      BY <1>1, <2>1 DEF d
    <3>2. QED
      BY <1>1, <1>2, <2>1, <3>1
  <2>2. CASE j # n
    <3>1. d = s[j + 1] /\ j + 1 \in 1 .. n /\ j + 1 # j /\ n # 1
      BY <1>1, <2>2 DEF d
    <3>2. QED
      BY <1>1, <1>2, <2>2, <3>1
  <2>3. QED
    BY <2>1, <2>2
<1> HIDE DEF x, b
<1>6. g = WithPointers(h, N, P, C)
  <2> DEFINE h1 == [h EXCEPT !.next[r] = h.next[x], !.prev[r] = h.prev[x]]
             h2 == IF h1.next[r] = NULL THEN h1 ELSE [h1 EXCEPT !.prev[h1.next[r]] = r]
             only == h2.prev[x] = x
             f == [h2 EXCEPT !.next[h2.prev[r]] = r]
             h3 == IF h2.child[p] = x
                     THEN [h2 EXCEPT !.prev[r] = IF only THEN r ELSE h2.prev[r],
                                     !.child[p] = r]
                   ELSE LET w == IF h2.prev[r] = NULL THEN h2 ELSE f
                        IN IF w.next[r] = NULL THEN [w EXCEPT !.prev[w.child[p]] = r]
                           ELSE w
  <2>1. g = [h3 EXCEPT !.next[x] = NULL, !.prev[x] = NULL]
    BY DEF ReplaceLinks, x
  <2>2. /\ h1.next = [h.next EXCEPT ![r] = h.next[x]]
        /\ h1.prev = [h.prev EXCEPT ![r] = h.prev[x]]
        /\ h1.child = h.child /\ h1.next[r] = h.next[x]
    BY DEF Heap
  <2>3. CASE j = n
    <3>1. h.next[x] = NULL
      BY <1>4, <2>3
    <3>2. h2 = h1
      <4> HIDE DEF h1
      <4>1. QED
        BY <2>2, <3>1
    <3>3. /\ h2.child = h.child /\ h2.prev[x] = h.prev[x] /\ h2.prev[r] = h.prev[x]
          /\ h2.next[r] = NULL
      <4>1. h1.prev[x] = h.prev[x] /\ h1.prev[r] = h.prev[x]
        <5> HIDE DEF h1
        <5>1. QED
          BY <1>4, <2>2 DEF Heap
      <4> HIDE DEF h1, h2
      <4>2. QED
        BY <2>2, <3>1, <3>2, <4>1
    <3>4. only <=> n = 1
      <4> HIDE DEF h2
      <4>1. QED
        BY <1>4, <3>3
    <3>5. CASE j = 1
      <4>1. n = 1 /\ d = x /\ e = r
        BY <1>5, <2>3, <3>5
      <4>2. h3 = [h2 EXCEPT !.prev[r] = r, !.child[p] = r]
        <5> HIDE DEF h2, only
        <5>1. QED
          BY <1>4, <3>3, <3>4, <3>5, <4>1
      <4>3. g = [h1 EXCEPT !.prev[r] = r, !.child[p] = r, !.next[x] = NULL,
                           !.prev[x] = NULL]
        <5> HIDE DEF h1, h2, h3, g
        <5>1. QED
          BY <2>1, <3>2, <4>2
      <4> HIDE DEF g, P, e
      <4>4. P = [h.prev EXCEPT ![r] = r, ![x] = NULL]
        BY <1>4, <4>1 DEF P, Heap
      <4> DEFINE P0 == [h.prev EXCEPT ![r] = r, ![x] = NULL]
      <4>5. g = [h EXCEPT !.next = [h.next EXCEPT ![r] = h.next[x], ![x] = NULL],
                          !.prev = [h.prev EXCEPT ![r] = h.prev[x], ![r] = r,
                                                  ![x] = NULL],
                          !.child = [h.child EXCEPT ![p] = r]]
        BY <4>3 DEF Heap
      <4>6. [h.prev EXCEPT ![r] = h.prev[x], ![r] = r, ![x] = NULL] = P0
        BY <1>4 DEF Heap
      <4> HIDE DEF P0
      <4>7. QED
        BY <3>5, <4>4, <4>5, <4>6 DEF WithPointers, P0
    <3>6. CASE j # 1
      <4>1. /\ n # 1 /\ e = b /\ h.prev[x] = b /\ b # NULL /\ h2.child[p] # x
            /\ h2.prev[r] # NULL /\ h2.child[p] = d /\ d # x
        <5>1. h.prev[x] = b /\ e = b /\ n # 1
          BY <1>1, <1>4, <2>3, <3>6
        <5>2. 1 \in 1 .. n
          BY <1>1
        <5>3. h.child[p] = d /\ h.child[p] # x /\ d # x
          BY <1>2, <1>4, <1>5, <2>3, <3>6, <5>1, <5>2
        <5> HIDE DEF h2, e
        <5>4. QED
          BY <1>4, <3>3, <5>1, <5>3, ItemAssumption
      <4>2. f.next[r] = NULL /\ f.child = h2.child
        <5>1. f = [h1 EXCEPT !.next[b] = r]
          <6> HIDE DEF h1, h2
          <6>1. QED
            BY <3>2, <3>3, <4>1
        <5> HIDE DEF f, h2
        <5>2. QED
          BY <1>4, <2>2, <3>1, <3>3, <3>6, <5>1 DEF Heap
      <4>3. h3 = [f EXCEPT !.prev[d] = r]
        <5> HIDE DEF h2, only, f
        <5>1. QED
          BY <4>1, <4>2
      <4>4. g = [h1 EXCEPT !.next[b] = r, !.prev[d] = r, !.next[x] = NULL,
                           !.prev[x] = NULL]
        <5>1. f = [h1 EXCEPT !.next[b] = r]
          <6> HIDE DEF h1, h2
          <6>1. QED
            BY <3>2, <3>3, <4>1
        <5> HIDE DEF h1, h2, h3, g, f
        <5>2. g = [[[h1 EXCEPT !.next[b] = r] EXCEPT !.prev[d] = r]
                     EXCEPT !.next[x] = NULL, !.prev[x] = NULL]
          BY <2>1, <4>3, <5>1
        <5>3. QED
          BY <5>2
      <4> HIDE DEF g
      <4>5. QED
        BY <1>4, <1>5, <3>6, <4>1, <4>4 DEF WithPointers, Heap
    <3>7. QED
      BY <3>5, <3>6
  <2>4. CASE j # n
    <3>1. h.next[x] = d /\ d # NULL /\ n # 1 /\ d # x /\ e = h.prev[x]
      BY <1>1, <1>4, <1>5, <2>4
    <3>2. h2 = [h1 EXCEPT !.prev[d] = r]
      <4> HIDE DEF h1
      <4>1. QED
        BY <2>2, <3>1
    <3>3. /\ h2.child = h.child /\ h2.prev[x] = h.prev[x] /\ h2.prev[r] = h.prev[x]
          /\ h2.next[r] = d
      <4>1. /\ h2.prev = [h.prev EXCEPT ![r] = h.prev[x], ![d] = r]
            /\ h2.next = [h.next EXCEPT ![r] = d] /\ h2.child = h.child
        <5> HIDE DEF h2
        <5>1. QED
          BY <3>1, <3>2 DEF Heap
      <4> HIDE DEF h2
      <4>2. QED
        BY <1>4, <1>5, <3>1, <4>1 DEF Heap
    <3>4. ~only
      <4> HIDE DEF h2
      <4>1. QED
        BY <1>4, <3>1, <3>3
    <3>5. CASE j = 1
      <4>1. h3 = [h2 EXCEPT !.prev[r] = h2.prev[r], !.child[p] = r]
        <5> HIDE DEF h2, only
        <5>1. QED
          BY <1>4, <3>3, <3>4, <3>5
      <4>2. g = [h1 EXCEPT !.prev[d] = r, !.prev[r] = h.prev[x], !.child[p] = r,
                           !.next[x] = NULL, !.prev[x] = NULL]
        <5> HIDE DEF h1, h2, h3, g
        <5>1. g = [[[h1 EXCEPT !.prev[d] = r]
                      EXCEPT !.prev[r] = h.prev[x], !.child[p] = r]
                     EXCEPT !.next[x] = NULL, !.prev[x] = NULL]
          BY <2>1, <3>2, <3>3, <4>1
        <5>2. QED
          BY <5>1
      <4> DEFINE P0 == [h.prev EXCEPT ![r] = h.prev[x], ![d] = r, ![x] = NULL]
      <4> HIDE DEF g, e
      <4>3. P = P0
        BY <3>1
      <4>4. P0 = [h.prev EXCEPT ![d] = r, ![r] = h.prev[x], ![x] = NULL]
        BY <1>4, <1>5, <3>1 DEF Heap
      <4> HIDE DEF P0
      <4>5. g = [h EXCEPT !.next = [h.next EXCEPT ![r] = h.next[x], ![x] = NULL],
                          !.prev = [h.prev EXCEPT ![r] = h.prev[x], ![d] = r,
                                                  ![r] = h.prev[x], ![x] = NULL],
                          !.child = [h.child EXCEPT ![p] = r]]
        BY <4>2 DEF Heap
      <4>6. [h.prev EXCEPT ![r] = h.prev[x], ![d] = r, ![r] = h.prev[x], ![x] = NULL] = P0
        BY <1>4, <1>5, <3>1, <4>4 DEF Heap
      <4> HIDE DEF P
      <4>7. QED
        BY <3>5, <4>3, <4>5, <4>6 DEF WithPointers
    <3>6. CASE j # 1
      <4>1. /\ h.prev[x] = b /\ b # NULL /\ h2.child[p] # x /\ h2.prev[r] # NULL
        <5> HIDE DEF h2
        <5>1. QED
          BY <1>4, <3>3, <3>6, ItemAssumption
      <4>2. f = [[h1 EXCEPT !.prev[d] = r] EXCEPT !.next[b] = r]
        <5> HIDE DEF h1, h2
        <5>1. QED
          BY <3>2, <3>3, <4>1
      <4>3. f.next[r] # NULL
        <5>1. f.next = [h.next EXCEPT ![r] = d, ![b] = r]
          <6> HIDE DEF f
          <6>1. QED
            BY <3>1, <4>2 DEF Heap
        <5> HIDE DEF f
        <5>2. QED
          BY <1>4, <3>1, <3>6, <5>1 DEF Heap
      <4>4. h3 = f
        <5> HIDE DEF h2, only, f
        <5>1. QED
          BY <4>1, <4>3
      <4>5. g = [[[h1 EXCEPT !.prev[d] = r] EXCEPT !.next[b] = r]
                   EXCEPT !.next[x] = NULL, !.prev[x] = NULL]
        <5> HIDE DEF h1, h2, h3, g, f
        <5>1. QED
          BY <2>1, <4>2, <4>4
      <4> HIDE DEF g
      <4>6. QED
        BY <1>4, <1>5, <3>1, <3>6, <4>1, <4>5 DEF WithPointers, Heap
    <3>7. QED
      BY <3>5, <3>6
  <2>5. QED
    BY <2>3, <2>4
<1>7. N \in [Item -> Pointer] /\ P \in [Item -> Pointer] /\ C \in [Item -> Pointer]
  BY <1>4, <1>5 DEF Heap, Pointer
<1>8. /\ N[x] = NULL /\ P[x] = NULL /\ N[r] = h.next[x] /\ P[r] = e
      /\ d # x => P[d] = r
      /\ \A y \in Item : y # x /\ y # r /\ (j = 1 \/ y # b) => N[y] = h.next[y]
      /\ j # 1 => N[b] = r
      /\ \A y \in Item : y # x /\ y # r /\ y # d => P[y] = h.prev[y]
      /\ C[p] = IF j = 1 THEN r ELSE h.child[p]
      /\ \A q \in Item \ {p} : C[q] = h.child[q]
  BY <1>4, <1>5 DEF Heap
<1> HIDE DEF g, N, P, C
<1>9. /\ g \in Heap /\ g.next = N /\ g.prev = P /\ g.child = C
      /\ g.live = h.live /\ g.ref = h.ref /\ g.key = h.key /\ g.const = h.const
      /\ g.strings = h.strings
  <2>1. Pointing(h, g, N, P, C)
    BY <1>6, <1>7, SetPointers
  <2>2. QED
    BY <2>1 DEF Pointing
<1>10. ASSUME NEW k \in 1 .. n
       PROVE  /\ N[t[k]] = IF k = n THEN NULL ELSE t[k + 1]
              /\ P[t[k]] = IF k = 1 THEN t[n] ELSE t[k - 1]
  <2>1. /\ n \in 1 .. n /\ 1 \in 1 .. n
        /\ k # n => k + 1 \in 1 .. n
        /\ k # 1 => k - 1 \in 1 .. n
    BY <1>1
  <2>2. CASE k = j
    <3>1. t[k] = r
      BY <1>3, <2>2
    <3>2. k # n => t[k + 1] = s[j + 1]
      <4>1. k + 1 # j
        BY <1>1, <2>2
      <4>2. QED
        BY <1>3, <2>1, <2>2, <4>1
    <3>3. N[r] = IF k = n THEN NULL ELSE t[k + 1]
      BY <1>4, <1>8, <2>2, <3>2
    <3>4. k # 1 => t[k - 1] = b /\ n # 1
      <4>1. k # 1 => k - 1 # j /\ n # 1
        BY <1>1, <2>2
      <4>2. QED
        BY <1>3, <2>1, <2>2, <4>1 DEF b
    <3>5. k = 1 => t[n] = IF n = 1 THEN r ELSE s[n]
      BY <1>3, <2>1, <2>2
    <3>6. P[r] = IF k = 1 THEN t[n] ELSE t[k - 1]
      BY <1>4, <1>8, <2>2, <3>4, <3>5
    <3>7. QED
      BY <3>1, <3>3, <3>6
  <2>3. CASE k # j
    <3>1. t[k] = s[k] /\ s[k] \in Item /\ s[k] # x /\ s[k] # r
      BY <1>1, <1>2, <1>3, <2>3 DEF x
    <3>2. N[s[k]] = IF k = n THEN NULL ELSE t[k + 1]
      <4>1. CASE k = j - 1
        <5>1. k # n /\ k + 1 = j /\ j # 1
          BY <1>1, <4>1
        <5>2. QED
          BY <1>3, <1>8, <2>1, <4>1, <5>1 DEF b
      <4>2. CASE k # j - 1
        <5>1. j # 1 => s[k] # b
          BY <1>2, <1>4, <4>2 DEF b
        <5>2. k + 1 # j
          BY <1>1, <4>2
        <5>3. k # n => t[k + 1] = s[k + 1]
          BY <1>3, <2>1, <5>2
        <5>4. QED
          BY <1>2, <1>8, <3>1, <5>1, <5>3
      <4>3. QED
        BY <4>1, <4>2
    <3>3. P[s[k]] = IF k = 1 THEN t[n] ELSE t[k - 1]
      <4>1. CASE j = n /\ k = 1
        <5>1. s[k] = d /\ d # x
          BY <1>5, <3>1, <4>1
        <5>2. t[n] = r
          BY <1>3, <2>1, <4>1
        <5>3. QED
          BY <1>8, <4>1, <5>1, <5>2
      <4>2. CASE k = j + 1
        <5>1. j # n /\ k # 1 /\ k - 1 = j
          BY <1>1, <4>2
        <5>2. s[k] = d /\ d # x
          BY <1>5, <3>1, <4>2, <5>1
        <5>3. t[k - 1] = r
          BY <1>1, <1>3, <5>1
        <5>4. QED
          BY <1>8, <5>1, <5>2, <5>3
      <4>3. CASE ~(j = n /\ k = 1) /\ k # j + 1
        <5>1. s[k] # d
          <6>1. CASE j = n
            <7>1. s[k] = s[1] => k = 1
              BY <1>2, <2>1
            <7>2. QED
              BY <1>5, <4>3, <6>1, <7>1
          <6>2. CASE j # n
            <7>1. j + 1 \in 1 .. n
              BY <1>1, <6>2
            <7>2. s[k] = s[j + 1] => k = j + 1
              BY <1>2, <7>1
            <7>3. QED
              BY <1>5, <4>3, <6>2, <7>2
          <6>3. QED
            BY <6>1, <6>2
        <5>2. P[s[k]] = h.prev[s[k]]
          BY <1>8, <3>1, <5>1
        <5>3. k # 1 => t[k - 1] = s[k - 1]
          <6>1. k - 1 # j
            BY <1>1, <4>3
          <6>2. QED
            BY <1>3, <2>1, <6>1
        <5>4. k = 1 => t[n] = s[n]
          BY <1>3, <2>1, <4>3
        <5>5. QED
          BY <1>2, <5>2, <5>3, <5>4
      <4>4. QED
        BY <4>1, <4>2, <4>3
    <3>4. QED
      BY <3>1, <3>2, <3>3
  <2>4. QED
    BY <2>2, <2>3
<1>11. C[p] = t[1] /\ t # <<>>
  <2>1. 1 \in 1 .. n /\ n # 0
    BY <1>1
  <2>2. t[1] = IF j = 1 THEN r ELSE s[1]
    BY <1>3, <2>1
  <2>3. QED
    BY <1>2, <1>3, <1>8, <2>1, <2>2
<1>12. Linked(g, p, t)
  <2>1. \A k \in 1 .. Len(t) :
          /\ g.next[t[k]] = IF k = Len(t) THEN NULL ELSE t[k + 1]
          /\ g.prev[t[k]] = IF k = 1 THEN t[Len(t)] ELSE t[k - 1]
    <3>1. 1 .. Len(t) = 1 .. n /\ Len(t) = n
      BY <1>3
    <3>2. QED
      BY <1>9, <1>10, <3>1
  <2>2. QED
    BY <1>9, <1>11, <2>1 DEF Linked
<1>13. Els(t) = (Els(s) \ {x}) \cup {r}
  <2>1. ASSUME NEW k \in 1 .. n
        PROVE  t[k] \in (Els(s) \ {x}) \cup {r}
    <3>1. CASE k = j
      BY <1>3, <3>1
    <3>2. CASE k # j
      <4>1. t[k] = s[k] /\ s[k] # s[j] /\ s[k] \in Els(s)
        BY <1>1, <1>2, <1>3, <3>2
      <4>2. QED
        BY <4>1 DEF x
    <3>3. QED
      BY <3>1, <3>2
  <2>2. t[j] = r
    BY <1>1, <1>3
  <2>3. ASSUME NEW k \in 1 .. n, s[k] # x
        PROVE  s[k] = t[k]
    BY <1>3, <2>3 DEF x
  <2>4. QED
    BY <1>1, <1>3, <2>1, <2>2, <2>3 DEF Els, n
<1>14. Distinct(t)
  <2>1. ASSUME NEW k \in 1 .. n, NEW m \in 1 .. n, t[k] = t[m]
        PROVE  k = m
    <3>1. CASE k = j \/ m = j
      BY <1>2, <1>3, <2>1, <3>1
    <3>2. CASE k # j /\ m # j
      BY <1>2, <1>3, <2>1, <3>2
    <3>3. QED
      BY <3>1, <3>2
  <2>2. QED
    BY <1>3, <2>1 DEF Distinct
<1>15. ASSUME NEW y \in Item \ (Els(s) \cup Els(t))
       PROVE  g.next[y] = h.next[y] /\ g.prev[y] = h.prev[y]
  <2>1. y # x /\ y # r /\ y # d /\ (j # 1 => y # b)
    BY <1>4, <1>5, <1>13
  <2>2. QED
    BY <1>8, <1>9, <2>1
<1>16. \A y \in Els(s) \ Els(t) : g.next[y] = NULL /\ g.prev[y] = NULL
  BY <1>8, <1>9, <1>13
<1>17. \A q \in Item \ {p} : g.child[q] = h.child[q]
  BY <1>8, <1>9
<1>18. Relinked(h, g, p, s, t)
  BY <1>9, <1>12, <1>15, <1>16, <1>17 DEF Relinked
<1>19. QED
  BY <1>3, <1>13, <1>14, <1>18 DEF g, t, x
-----------------------------------------------------------------------------
(***************************************************************************)
(* The sequences that the pointers draw.                                   *)
(***************************************************************************)
\* A sequence of different items is one of Chains.
LEMMA DistinctIsChain ==
  ASSUME NEW s \in Seq(Item), Distinct(s)
  PROVE  s \in Chains
<1> DEFINE n == Len(s)
<1>1. n \in Nat /\ s \in [1 .. n -> Item]
  OBVIOUS
<1>2. s \in Injection(1 .. n, Item)
  BY <1>1 DEF Distinct, Injection, IsInjective
<1>3. IsFiniteSet(1 .. n) /\ Cardinality(1 .. n) = n
  BY <1>1, FS_Interval
<1> HIDE DEF n
<1>4. Cardinality(1 .. n) <= Cardinality(Item)
  BY <1>2, FS_Injection, ItemAssumption
<1>5. Cardinality(Item) \in Nat
  BY FS_CardinalityType, ItemAssumption
<1>6. n \in 0 .. Cardinality(Item)
  BY <1>1, <1>3, <1>4, <1>5
<1>7. s \in {t \in [1 .. n -> Item] : \A i, j \in 1 .. n : t[i] = t[j] => i = j}
  BY <1>1 DEF Distinct, n
<1>8. QED
  BY <1>6, <1>7 DEF Chains

\* And the other way around.
LEMMA ChainIsDistinct ==
  ASSUME NEW s \in Chains
  PROVE  s \in Seq(Item) /\ Distinct(s)
<1>1. PICK n \in 0 .. Cardinality(Item) :
        s \in [1 .. n -> Item] /\ \A i, j \in 1 .. n : s[i] = s[j] => i = j
  BY DEF Chains
<1>2. Cardinality(Item) \in Nat
  BY FS_CardinalityType, ItemAssumption
<1>3. n \in Nat
  BY <1>2
<1>4. s \in Seq(Item) /\ Len(s) = n
  BY <1>1, <1>3
<1>5. QED
  BY <1>1, <1>4 DEF Distinct

\* A chain that is followed from the same item runs along any other one.
LEMMA ChainRunsAlong ==
  ASSUME NEW h, NEW p, NEW s \in Seq(Item), NEW t \in Seq(Item),
         IsChain(h, p, s), IsChain(h, p, t)
  PROVE  \A i \in 1 .. Len(s) : i \in 1 .. Len(t) /\ s[i] = t[i]
<1> DEFINE Off == {i \in 1 .. Len(s) : ~(i \in 1 .. Len(t) /\ s[i] = t[i])}
<1>1. SUFFICES ASSUME Off # {} PROVE FALSE
  OBVIOUS
<1>2. PICK i \in Off : \A k \in Off : i <= k
  <2>1. Off \subseteq Nat
    OBVIOUS
  <2> HIDE DEF Off
  <2>2. QED
    BY <1>1, <2>1, LeastExists
<1>3. i \in 1 .. Len(s) /\ ~(i \in 1 .. Len(t) /\ s[i] = t[i])
  OBVIOUS
<1>4. /\ Len(s) \in Nat /\ Len(t) \in Nat
      /\ \A k \in 1 .. Len(s) : s[k] \in Item /\ s[k] # NULL
      /\ \A k \in 1 .. Len(t) : t[k] \in Item /\ t[k] # NULL
      /\ DOMAIN s = 1 .. Len(s) /\ DOMAIN t = 1 .. Len(t)
      /\ (s = <<>> <=> Len(s) = 0) /\ (t = <<>> <=> Len(t) = 0)
  BY ItemAssumption
<1>5. i # 1
  <2>1. SUFFICES ASSUME i = 1 PROVE FALSE
    OBVIOUS
  <2>2. s # <<>> /\ h.child[p] = s[1] /\ s[1] # NULL
    BY <1>3, <1>4, <2>1 DEF IsChain
  <2>3. t # <<>> /\ t[1] = s[1]
    BY <2>2 DEF IsChain
  <2>4. 1 \in 1 .. Len(t)
    BY <1>4, <2>3
  <2>5. QED
    BY <1>3, <2>1, <2>3, <2>4
<1>6. i - 1 \in 1 .. Len(s) /\ i - 1 # Len(s) /\ (i - 1) + 1 = i /\ ~(i <= i - 1)
  BY <1>3, <1>4, <1>5
<1>7. i - 1 \in 1 .. Len(t) /\ s[i - 1] = t[i - 1]
  <2>1. i - 1 \notin Off
    BY <1>2, <1>6
  <2>2. QED
    BY <1>6, <2>1
<1> HIDE DEF Off
<1>8. h.next[s[i - 1]] = s[i]
  BY <1>4, <1>6 DEF IsChain
<1>9. s[i] # NULL
  BY <1>3, <1>4
<1>10. i - 1 # Len(t) /\ t[i] = s[i]
  BY <1>4, <1>6, <1>7, <1>8, <1>9 DEF IsChain
<1>11. i \in 1 .. Len(t)
  BY <1>3, <1>4, <1>7, <1>10
<1>12. QED
  BY <1>3, <1>10, <1>11

\* The loops over the children meet the sequence that the pointers draw.
LEMMA ChainIs ==
  ASSUME NEW h, NEW K, NEW F, Shape(h, K, F), NEW p \in Item
  PROVE  Chain(h, p) = K[p]
<1>1. K[p] \in Seq(Item) /\ Distinct(K[p]) /\ Linked(h, p, K[p])
  BY DEF Shape, Nested, Inside
<1>2. K[p] \in Chains
  BY <1>1, DistinctIsChain
<1>3. IsChain(h, p, K[p])
  <2>1. DOMAIN K[p] = 1 .. Len(K[p])
    BY <1>1
  <2>2. QED
    BY <1>1, <2>1 DEF Linked, IsChain
<1>4. CASE h.child[p] = NULL
  <2>1. K[p] = <<>>
    <3>1. SUFFICES ASSUME K[p] # <<>> PROVE FALSE
      OBVIOUS
    <3>2. h.child[p] = K[p][1] /\ K[p][1] \in Item
      BY <1>1, <3>1 DEF Linked
    <3>3. QED
      BY <1>4, <3>2, ItemAssumption
  <2>2. QED
    BY <1>4, <2>1 DEF Chain
<1>5. CASE h.child[p] # NULL
  <2> DEFINE c == CHOOSE s \in Chains : IsChain(h, p, s)
  <2>1. c \in Chains /\ IsChain(h, p, c)
    BY <1>2, <1>3, Zenon
  <2>2. Chain(h, p) = c
    BY <1>5 DEF Chain
  <2> HIDE DEF c
  <2>3. c \in Seq(Item)
    BY <2>1, ChainIsDistinct
  <2>4. /\ \A i \in 1 .. Len(c) : i \in 1 .. Len(K[p]) /\ c[i] = K[p][i]
        /\ \A i \in 1 .. Len(K[p]) : i \in 1 .. Len(c)
    BY <1>1, <1>3, <2>1, <2>3, ChainRunsAlong
  <2>5. Len(c) \in Nat /\ Len(K[p]) \in Nat
    BY <1>1, <2>3
  <2>6. Len(c) = Len(K[p])
    <3>1. Len(c) # 0 => Len(c) \in 1 .. Len(K[p])
      BY <2>4, <2>5
    <3>2. Len(K[p]) # 0 => Len(K[p]) \in 1 .. Len(c)
      BY <2>4, <2>5
    <3>3. QED
      BY <2>5, <3>1, <3>2
  <2>7. c = K[p]
    BY <1>1, <2>3, <2>4, <2>6, SeqEqual
  <2>8. QED
    BY <2>2, <2>7
<1>6. QED
  BY <1>4, <1>5

\* The functions from the items to their chains.
KidsOf(h) == [p \in Item |-> Chain(h, p)]

LEMMA KidsAre ==
  ASSUME NEW h, NEW K, NEW F, Shape(h, K, F)
  PROVE  KidsOf(h) = K
<1>1. K \in [Item -> Seq(Item)]
  BY DEF Shape, Nested, Inside
<1>2. \A p \in Item : Chain(h, p) = K[p]
  BY ChainIs
<1>3. QED
  BY <1>1, <1>2 DEF KidsOf

\* The child pointer and the next pointers stay among the children.
LEMMA PointersStay ==
  ASSUME NEW h, NEW K, NEW F, Shape(h, K, F), NEW p \in Item
  PROVE  /\ h.child[p] # NULL => h.child[p] \in Els(K[p])
         /\ \A y \in Els(K[p]) : h.next[y] # NULL => h.next[y] \in Els(K[p])
         /\ h.child[p] = NULL <=> K[p] = <<>>
<1> DEFINE s == K[p]
<1>1. s \in Seq(Item) /\ Len(s) \in Nat /\ Linked(h, p, s) /\ (s = <<>> <=> Len(s) = 0)
  BY DEF Shape, Nested, Inside
<1> HIDE DEF s
<1>2. h.child[p] = NULL <=> s = <<>>
  <2>1. s # <<>> => 1 \in 1 .. Len(s) /\ s[1] \in Item
    BY <1>1
  <2>2. QED
    BY <1>1, <2>1, ItemAssumption DEF Linked
<1>3. h.child[p] # NULL => h.child[p] \in Els(s)
  <2>1. s # <<>> => 1 \in 1 .. Len(s)
    BY <1>1
  <2>2. QED
    BY <1>1, <1>2, <2>1 DEF Linked, Els
<1>4. ASSUME NEW i \in 1 .. Len(s), h.next[s[i]] # NULL
      PROVE  h.next[s[i]] \in Els(s)
  <2>1. i # Len(s) /\ h.next[s[i]] = s[i + 1]
    BY <1>1, <1>4 DEF Linked
  <2>2. i + 1 \in 1 .. Len(s)
    BY <1>1, <2>1
  <2>3. QED
    BY <2>1, <2>2 DEF Els
<1>5. QED
  BY <1>2, <1>3, <1>4 DEF Els, s

\* A set that goes with the child of p and every next has all children of p.
LEMMA WalkStays ==
  ASSUME NEW h, NEW K, NEW F, Shape(h, K, F), NEW p \in Item, NEW S,
         h.child[p] # NULL => h.child[p] \in S,
         \A y \in S : h.next[y] # NULL => h.next[y] \in S
  PROVE  Els(K[p]) \subseteq S
<1> DEFINE s == K[p]
           Out == {i \in 1 .. Len(s) : s[i] \notin S}
<1>1. /\ s \in Seq(Item) /\ Len(s) \in Nat /\ Linked(h, p, s) /\ (s = <<>> <=> Len(s) = 0)
      /\ \A i \in 1 .. Len(s) : s[i] \in Item /\ s[i] # NULL
  BY ItemAssumption DEF Shape, Nested, Inside
<1> HIDE DEF s
<1>2. Out = {}
  <2>1. SUFFICES ASSUME Out # {} PROVE FALSE
    OBVIOUS
  <2>2. PICK i \in Out : \A k \in Out : i <= k
    <3>1. Out \subseteq Nat
      OBVIOUS
    <3> HIDE DEF Out
    <3>2. QED
      BY <2>1, <3>1, LeastExists
  <2>3. i \in 1 .. Len(s) /\ s[i] \notin S
    OBVIOUS
  <2>4. i # 1
    <3>1. s # <<>>
      BY <1>1, <2>3
    <3>2. QED
      BY <1>1, <2>3, <3>1 DEF Linked
  <2>5. i - 1 \in 1 .. Len(s) /\ i - 1 # Len(s) /\ (i - 1) + 1 = i /\ ~(i <= i - 1)
    BY <1>1, <2>3, <2>4
  <2>6. s[i - 1] \in S
    <3>1. i - 1 \notin Out
      BY <2>2, <2>5
    <3>2. QED
      BY <2>5, <3>1
  <2>7. h.next[s[i - 1]] = s[i]
    BY <1>1, <2>5 DEF Linked
  <2>8. QED
    BY <1>1, <2>3, <2>6, <2>7
<1>3. QED
  BY <1>2 DEF Els, s

\* A set that is closed for cJSON_Delete has the children of its items.
LEMMA IsClosedImpliesClosed ==
  ASSUME NEW h, NEW K, NEW F, Shape(h, K, F), NEW S, S \subseteq h.live,
         IsClosed(h, S)
  PROVE  Closed(h.ref, K, S)
<1>1. ASSUME NEW y \in S, ~h.ref[y]
      PROVE  Els(K[y]) \subseteq S
  <2>1. y \in Item
    BY DEF Shape, Nested, Inside
  <2>2. /\ h.child[y] # NULL => h.child[y] \in S
        /\ \A z \in S : h.next[z] # NULL => h.next[z] \in S
    BY <1>1 DEF IsClosed
  <2>3. QED
    BY <2>1, <2>2, WalkStays
<1>2. QED
  BY <1>1 DEF Closed

\* From an item without a next one cJSON_Delete visits the tree below it.
LEMMA BelowIs ==
  ASSUME NEW h, NEW K, NEW F, Shape(h, K, F), NEW x \in h.live, h.next[x] = NULL
  PROVE  Below(h, x) = Sub(h.live, h.ref, K, x)
<1> DEFINE T == Sub(h.live, h.ref, K, x)
<1>1. Inside(h.live, h.ref, K) /\ h.live \subseteq Item
  BY DEF Shape, Nested, Inside
<1>2. T \subseteq h.live /\ x \in T /\ Closed(h.ref, K, T)
  BY <1>1, SubClosed
<1>3. ASSUME NEW y \in T, y # x
      PROVE  \E p \in T : ~h.ref[p] /\ y \in Els(K[p])
  BY <1>1, <1>3, SubParent
<1> HIDE DEF T
<1>4. IsClosed(h, T)
  <2>1. ASSUME NEW y \in T, h.next[y] # NULL
        PROVE  h.next[y] \in T
    <3>1. PICK p \in T : ~h.ref[p] /\ y \in Els(K[p])
      BY <1>3, <2>1
    <3>2. p \in Item
      BY <1>1, <1>2
    <3>3. h.next[y] \in Els(K[p])
      BY <2>1, <3>1, <3>2, PointersStay
    <3>4. QED
      BY <1>2, <3>1, <3>3 DEF Closed
  <2>2. ASSUME NEW y \in T, ~h.ref[y], h.child[y] # NULL
        PROVE  h.child[y] \in T
    <3>1. y \in Item
      BY <1>1, <1>2
    <3>2. h.child[y] \in Els(K[y])
      BY <2>2, <3>1, PointersStay
    <3>3. QED
      BY <1>2, <2>2, <3>2 DEF Closed
  <2>3. QED
    BY <2>1, <2>2 DEF IsClosed
<1>5. Below(h, x) \subseteq T
  BY <1>2, <1>4 DEF Below
<1>6. ASSUME NEW y \in T, NEW S \in SUBSET h.live, x \in S, IsClosed(h, S)
      PROVE  y \in S
  <2>1. Closed(h.ref, K, S)
    BY <1>6, IsClosedImpliesClosed
  <2>2. QED
    BY <1>6, <2>1 DEF T, Sub
<1>7. T \subseteq Below(h, x)
  BY <1>2, <1>6 DEF Below
<1>8. QED
  BY <1>5, <1>7 DEF T

\* What follows a live item is live.
LEMMA NextIsLive ==
  ASSUME NEW h, NEW K, NEW F, Shape(h, K, F), NEW y \in h.live, h.next[y] # NULL
  PROVE  h.next[y] \in h.live
<1>1. Nested(h.live, h.ref, K, F) /\ h.live \subseteq Item
  BY DEF Shape, Nested, Inside
<1>2. y \notin F
  BY DEF Shape
<1>3. PICK p \in Item : y \in Els(K[p])
  <2>1. SUFFICES ASSUME \A p \in Item : y \notin Els(K[p]) PROVE FALSE
    OBVIOUS
  <2>2. F \subseteq h.live \ {y}
    BY <1>1, <1>2 DEF Nested, Free
  <2>3. Closed(h.ref, K, h.live \ {y})
    BY <1>1, <2>1 DEF Closed, Nested, Inside
  <2>4. h.live \ {y} = h.live
    BY <1>1, <2>2, <2>3 DEF Nested, Reached
  <2>5. QED
    BY <2>4
<1>4. h.next[y] \in Els(K[p])
  BY <1>3, PointersStay
<1>5. QED
  BY <1>1, <1>4 DEF Nested, Inside

\* x with what is below its first child is the tree below x.
LEMMA TreeIs ==
  ASSUME NEW h, NEW K, NEW F, Shape(h, K, F), NEW x \in h.live
  PROVE  Tree(h, x) = Sub(h.live, h.ref, K, x)
<1> DEFINE T == Sub(h.live, h.ref, K, x)
           B == Below(h, h.child[x])
<1>1. /\ Inside(h.live, h.ref, K) /\ h.live \subseteq Item /\ x \in Item
      /\ Nested(h.live, h.ref, K, F)
  BY DEF Shape, Nested, Inside
<1>2. T \subseteq h.live /\ x \in T /\ Closed(h.ref, K, T)
  BY <1>1, SubClosed
<1>3. ASSUME NEW y \in T, y # x
      PROVE  \E p \in T : ~h.ref[p] /\ y \in Els(K[p])
  BY <1>1, <1>3, SubParent
<1>4. ASSUME NEW p \in T, ~h.ref[p]
      PROVE  x \notin Els(K[p])
  BY <1>1, <1>2, <1>4, Acyclic
<1>5. ASSUME NEW S, S \subseteq h.live, x \in S, Closed(h.ref, K, S)
      PROVE  T \subseteq S
  BY <1>5, SubLeast
<1> HIDE DEF T
<1>6. CASE h.ref[x] \/ h.child[x] = NULL
  <2>1. Closed(h.ref, K, {x})
    <3>1. h.child[x] = NULL => Els(K[x]) = {}
      <4>1. h.child[x] = NULL => K[x] = <<>>
        BY <1>1, PointersStay
      <4>2. QED
        BY <4>1 DEF Els
    <3>2. QED
      BY <1>6, <3>1 DEF Closed
  <2>2. T = {x}
    BY <1>2, <1>5, <2>1
  <2>3. QED
    BY <1>6, <2>2 DEF Tree, T
<1>7. CASE ~h.ref[x] /\ h.child[x] # NULL
  <2>1. Tree(h, x) = {x} \cup B
    BY <1>7 DEF Tree
  <2>2. B \subseteq h.live
    BY DEF Below
  <2>3. h.child[x] \in Els(K[x]) /\ h.child[x] \in h.live
    <3>1. h.child[x] \in Els(K[x])
      BY <1>1, <1>7, PointersStay
    <3>2. QED
      BY <1>1, <3>1 DEF Inside
  <2>4. h.child[x] \in B
    BY <2>3 DEF Below
  <2>5. IsClosed(h, B)
    <3>1. ASSUME NEW y \in B, NEW z \in h.live,
                 \A S \in SUBSET h.live : y \in S /\ IsClosed(h, S) => z \in S
          PROVE  z \in B
      BY <3>1 DEF Below
    <3>2. ASSUME NEW y \in B, h.next[y] # NULL
          PROVE  h.next[y] \in B
      <4>1. h.next[y] \in h.live
        BY <2>2, <3>2, NextIsLive
      <4>2. \A S \in SUBSET h.live : y \in S /\ IsClosed(h, S) => h.next[y] \in S
        BY <3>2 DEF IsClosed
      <4> HIDE DEF B
      <4>3. QED
        BY <3>1, <4>1, <4>2
    <3>3. ASSUME NEW y \in B, ~h.ref[y], h.child[y] # NULL
          PROVE  h.child[y] \in B
      <4>1. h.child[y] \in h.live
        <5>1. y \in Item
          BY <1>1, <2>2
        <5>2. h.child[y] \in Els(K[y])
          BY <3>3, <5>1, PointersStay
        <5>3. QED
          BY <1>1, <5>1, <5>2 DEF Inside
      <4>2. \A S \in SUBSET h.live : y \in S /\ IsClosed(h, S) => h.child[y] \in S
        BY <3>3 DEF IsClosed
      <4> HIDE DEF B
      <4>3. QED
        BY <3>1, <4>1, <4>2
    <3> HIDE DEF B
    <3>4. QED
      BY <3>2, <3>3 DEF IsClosed
  <2>6. Closed(h.ref, K, {x} \cup B)
    <3> HIDE DEF B
    <3>1. Closed(h.ref, K, B)
      BY <2>2, <2>5, IsClosedImpliesClosed
    <3>2. Els(K[x]) \subseteq B
      <4>1. \A y \in B : h.next[y] # NULL => h.next[y] \in B
        BY <2>5 DEF IsClosed
      <4>2. QED
        BY <1>1, <2>4, <4>1, WalkStays
    <3>3. QED
      BY <3>1, <3>2 DEF Closed
  <2>7. T \subseteq {x} \cup B
    <3> HIDE DEF B
    <3>1. QED
      BY <1>5, <2>2, <2>6
  <2>8. IsClosed(h, T \ {x})
    <3>1. ASSUME NEW y \in T \ {x}, h.next[y] # NULL
          PROVE  h.next[y] \in T \ {x}
      <4>1. PICK p \in T : ~h.ref[p] /\ y \in Els(K[p])
        BY <1>3, <3>1
      <4>2. p \in Item
        BY <1>1, <1>2
      <4>3. h.next[y] \in Els(K[p])
        BY <3>1, <4>1, <4>2, PointersStay
      <4>4. QED
        BY <1>2, <1>4, <4>1, <4>3 DEF Closed
    <3>2. ASSUME NEW y \in T \ {x}, ~h.ref[y], h.child[y] # NULL
          PROVE  h.child[y] \in T \ {x}
      <4>1. y \in Item
        BY <1>1, <1>2
      <4>2. h.child[y] \in Els(K[y])
        BY <3>2, <4>1, PointersStay
      <4>3. QED
        BY <1>2, <1>4, <3>2, <4>2 DEF Closed
    <3>3. QED
      BY <3>1, <3>2 DEF IsClosed
  <2>9. h.child[x] \in T \ {x}
    BY <1>2, <1>4, <1>7, <2>3 DEF Closed
  <2>10. B \subseteq T
    BY <1>2, <2>8, <2>9 DEF Below
  <2> HIDE DEF B
  <2>11. QED
    BY <1>2, <2>1, <2>7, <2>10 DEF T
<1>8. QED
  BY <1>6, <1>7
-----------------------------------------------------------------------------
(***************************************************************************)
(* Every call of lib/cjson leaves a heap that draws sequences.             *)
(***************************************************************************)
\* A new element at any place of a sequence of different items.
LEMMA BetweenIsDistinct ==
  ASSUME NEW s \in Seq(Item), Distinct(s), NEW j \in 1 .. Len(s) + 1,
         NEW x \in Item \ Els(s)
  PROVE  Distinct(Forest!Between(s, j - 1, x))
<1> DEFINE n == Len(s)
           t == Forest!Between(s, j - 1, x)
<1>1. n \in Nat /\ j \in Nat /\ 1 <= j /\ j <= n + 1
  OBVIOUS
<1>2. /\ t \in Seq(Item) /\ Len(t) = n + 1
      /\ \A k \in 1 .. n + 1 :
           t[k] = IF k < j THEN s[k] ELSE IF k = j THEN x ELSE s[k - 1]
  BY BetweenIs
<1> HIDE DEF t
<1>3. ASSUME NEW k \in 1 .. n + 1, NEW m \in 1 .. n + 1, t[k] = t[m]
      PROVE  k = m
  <2> DEFINE at(i) == IF i < j THEN i ELSE i - 1
  <2>1. \A i \in 1 .. n + 1 : i # j => at(i) \in 1 .. n /\ t[i] = s[at(i)]
    BY <1>1, <1>2
  <2>2. \A i \in 1 .. n + 1 : i # j => t[i] # x
    BY <2>1 DEF Els
  <2>3. t[j] = x
    BY <1>1, <1>2
  <2>4. CASE k = j \/ m = j
    BY <1>3, <2>2, <2>3, <2>4
  <2>5. CASE k # j /\ m # j
    <3>1. at(k) \in 1 .. n /\ at(m) \in 1 .. n /\ s[at(k)] = s[at(m)]
      BY <1>3, <2>1, <2>5
    <3> HIDE DEF at
    <3>2. at(k) = at(m)
      BY <3>1 DEF Distinct
    <3>3. QED
      BY <1>1, <2>5, <3>2 DEF at
  <2>6. QED
    BY <2>4, <2>5
<1>4. QED
  BY <1>2, <1>3 DEF Distinct, t

\* Appending is putting the element behind the last one.
LEMMA AppendIsBetween ==
  ASSUME NEW s \in Seq(Item), NEW x \in Item
  PROVE  Append(s, x) = Forest!Between(s, Len(s), x)
<1> DEFINE n == Len(s)
           t == Forest!Between(s, n, x)
           j == n + 1
<1>1. n \in Nat /\ j \in 1 .. Len(s) + 1 /\ j - 1 = n
  OBVIOUS
<1>2. /\ t \in Seq(Item) /\ Len(t) = n + 1
      /\ \A k \in 1 .. n + 1 :
           t[k] = IF k < j THEN s[k] ELSE IF k = j THEN x ELSE s[k - 1]
  <2> HIDE DEF j
  <2>1. t = Forest!Between(s, j - 1, x)
    BY <1>1
  <2> HIDE DEF t
  <2>2. \A i \in 1 .. Len(s) + 1 :
          LET u == Forest!Between(s, i - 1, x)
          IN  /\ u \in Seq(Item) /\ Len(u) = Len(s) + 1
              /\ \A k \in 1 .. Len(s) + 1 :
                   u[k] = IF k < i THEN s[k] ELSE IF k = i THEN x ELSE s[k - 1]
    BY BetweenIs
  <2>3. QED
    BY <1>1, <2>1, <2>2
<1> HIDE DEF t
<1>3. Append(s, x) \in Seq(Item) /\ Len(Append(s, x)) = Len(t)
  BY <1>2
<1>4. \A k \in 1 .. Len(Append(s, x)) : Append(s, x)[k] = t[k]
  BY <1>1, <1>2
<1>5. Append(s, x) = t
  BY <1>2, <1>3, <1>4, SeqEqual
<1>6. QED
  BY <1>5 DEF t

\* Only the pointers differ.
SameItems(h, g) ==
  /\ g.live = h.live /\ g.ref = h.ref /\ g.key = h.key /\ g.const = h.const
  /\ g.strings = h.strings

\* No other item has a child of p, so that p is not a reference either.
Private(R, K, p) ==
  ~R[p] /\ \A q \in Item : q # p => Els(K[p]) \cap Els(K[q]) = {}

\* The rule for changing children is that no reference shows them.
LEMMA UnsharedIsPrivate ==
  ASSUME NEW K, Shape(heap, K, held), NEW p \in live, Unshared(p)
  PROVE  Private(heap.ref, K, p)
<1>1. /\ ~heap.ref[p]
      /\ \A r \in live : heap.ref[r] /\ heap.child[r] # NULL
                           => heap.child[r] # heap.child[p]
  BY DEF Unshared
<1>2. Inside(live, heap.ref, K) /\ Shared(heap.ref, K) /\ p \in Item
  BY DEF Shape, Nested, Inside, live
<1>3. ASSUME NEW q \in Item, q # p, NEW y \in Els(K[p]), y \in Els(K[q])
      PROVE  FALSE
  <2>1. heap.ref[q] /\ K[q] = K[p]
    BY <1>1, <1>2, <1>3 DEF Shared
  <2>2. q \in live
    BY <1>2, <2>1 DEF Inside
  <2>3. K[p] \in Seq(Item) /\ K[p] # <<>>
    BY <1>2, <1>3 DEF Inside, Els
  <2>4. K[p][1] \in Item
    BY <2>3
  <2>5. heap.child[q] = K[p][1] /\ heap.child[p] = K[p][1]
    BY <1>2, <2>1, <2>3 DEF Shape, Linked
  <2>6. QED
    BY <1>1, <2>1, <2>2, <2>4, <2>5, ItemAssumption
<1>4. QED
  BY <1>1, <1>3 DEF Private

\* A change of the pointers among the children of p and the held items.
LEMMA ShapeRelink ==
  ASSUME NEW h, NEW K, NEW F, Shape(h, K, F), NEW g, NEW p \in h.live,
         Private(h.ref, K, p),
         NEW s \in Seq(Item), Distinct(s), Els(s) \subseteq Els(K[p]) \cup F,
         \A n \in Els(s) \ Els(K[p]) : p \notin Sub(h.live, h.ref, K, n),
         Relinked(h, g, p, K[p], s)
  PROVE  /\ Shape(g, [K EXCEPT ![p] = s], (F \ Els(s)) \cup (Els(K[p]) \ Els(s)))
         /\ SameItems(h, g)
<1> DEFINE M == [K EXCEPT ![p] = s]
           G == (F \ Els(s)) \cup (Els(K[p]) \ Els(s))
<1>1. /\ Nested(h.live, h.ref, K, F) /\ h.live \subseteq Item /\ p \in Item
      /\ K \in [Item -> Seq(Item)] /\ Els(K[p]) \subseteq h.live /\ F \subseteq h.live
      /\ \A q \in Item : Els(K[q]) \cap F = {}
  BY DEF Shape, Nested, Inside, Free
<1>2. Els(s) \subseteq h.live
  BY <1>1
<1>3. g \in Heap /\ SameItems(h, g)
  BY DEF Relinked, SameItems
<1>4. Nested(g.live, g.ref, M, G)
  <2>1. Nested(h.live, h.ref, M, G)
    BY <1>1, NestedRelink DEF Private
  <2>2. QED
    BY <1>3, <2>1 DEF SameItems
<1>5. M[p] = s /\ \A q \in Item : q # p => M[q] = K[q]
  BY <1>1
<1> HIDE DEF M
<1>6. ASSUME NEW q \in Item
      PROVE  Linked(g, q, M[q])
  <2>1. CASE q = p
    BY <1>5, <2>1 DEF Relinked
  <2>2. CASE q # p
    <3>1. Linked(h, q, K[q]) /\ g.child[q] = h.child[q] /\ M[q] = K[q]
      BY <1>5, <2>2 DEF Shape, Relinked
    <3>2. ASSUME NEW i \in 1 .. Len(K[q])
          PROVE  g.next[K[q][i]] = h.next[K[q][i]] /\ g.prev[K[q][i]] = h.prev[K[q][i]]
      <4>1. K[q][i] \in Els(K[q]) /\ K[q][i] \in Item
        BY <1>1 DEF Els
      <4>2. K[q][i] \notin Els(K[p]) \cup Els(s)
        BY <1>1, <2>2, <4>1 DEF Private
      <4>3. QED
        BY <4>1, <4>2 DEF Relinked
    <3>3. QED
      BY <3>1, <3>2 DEF Linked
  <2>3. QED
    BY <2>1, <2>2
<1>7. ASSUME NEW x \in G
      PROVE  g.next[x] = NULL /\ g.prev[x] = NULL
  <2>1. CASE x \in F /\ x \notin Els(s)
    <3>1. x \in Item \ (Els(K[p]) \cup Els(s))
      BY <1>1, <2>1
    <3>2. QED
      BY <2>1, <3>1 DEF Relinked, Shape
  <2>2. CASE x \in Els(K[p]) \ Els(s)
    BY <2>2 DEF Relinked
  <2>3. QED
    BY <1>7, <2>1, <2>2
<1>8. OthersBlank(g)
  <2>1. ASSUME NEW x \in Item \ h.live
        PROVE  g.next[x] = h.next[x] /\ g.prev[x] = h.prev[x] /\ g.child[x] = h.child[x]
    BY <1>1, <1>2 DEF Relinked
  <2>2. QED
    BY <1>3, <2>1 DEF OthersBlank, Shape, SameItems
<1>9. QED
  BY <1>3, <1>4, <1>6, <1>7, <1>8 DEF Shape, M

\* A held item becomes a child of p in front of the child j, or the last one.
LEMMA ShapeInsert ==
  ASSUME NEW h, NEW K, NEW F, Shape(h, K, F), NEW p \in h.live,
         Private(h.ref, K, p), NEW x \in F, p \notin Sub(h.live, h.ref, K, x),
         NEW j \in 1 .. Len(K[p]) + 1, NEW g,
         Relinked(h, g, p, K[p], Forest!Between(K[p], j - 1, x))
  PROVE  /\ Shape(g, [K EXCEPT ![p] = Forest!Between(K[p], j - 1, x)], F \ {x})
         /\ SameItems(h, g)
<1> DEFINE s == K[p]
           t == Forest!Between(s, j - 1, x)
<1>1. /\ p \in Item /\ x \in Item /\ s \in Seq(Item) /\ Distinct(s)
      /\ Els(s) \cap F = {}
  BY DEF Shape, Nested, Inside, Free
<1>2. x \in Item \ Els(s) /\ j \in 1 .. Len(s) + 1
  BY <1>1
<1> HIDE DEF s
<1>3. t \in Seq(Item) /\ Distinct(t) /\ Els(t) = Els(s) \cup {x}
  BY <1>1, <1>2, BetweenIs, BetweenIsDistinct
<1> HIDE DEF t
<1>4. Els(t) \subseteq Els(s) \cup F
  BY <1>3
<1>5. \A n \in Els(t) \ Els(s) : p \notin Sub(h.live, h.ref, K, n)
  BY <1>3
<1>6. (F \ Els(t)) \cup (Els(s) \ Els(t)) = F \ {x}
  BY <1>1, <1>3
<1>7. Relinked(h, g, p, s, t)
  BY DEF s, t
<1>8. /\ Shape(g, [K EXCEPT ![p] = t], (F \ Els(t)) \cup (Els(s) \ Els(t)))
      /\ SameItems(h, g)
  BY <1>3, <1>4, <1>5, <1>7, ShapeRelink DEF s
<1>9. QED
  BY <1>6, <1>8 DEF t, s

\* add_item_to_array.
LEMMA AddShape ==
  ASSUME NEW h, NEW K, NEW F, Shape(h, K, F), NEW p \in h.live,
         Private(h.ref, K, p), NEW x \in F, p \notin Sub(h.live, h.ref, K, x)
  PROVE  LET g == add_item_to_array(h, p, x)
         IN  Shape(g, [K EXCEPT ![p] = Append(K[p], x)], F \ {x}) /\ SameItems(h, g)
<1> DEFINE s == K[p]
           g == add_item_to_array(h, p, x)
           j == Len(s) + 1
<1>1. /\ p \in Item /\ x \in Item /\ s \in Seq(Item) /\ Distinct(s)
      /\ Els(s) \cap F = {} /\ h \in Heap /\ Linked(h, p, s) /\ h.next[x] = NULL
  BY DEF Shape, Nested, Inside, Free
<1> HIDE DEF s
<1>2. Relinked(h, g, p, s, Append(s, x))
  BY <1>1, AddRelinks
<1>3. j \in 1 .. Len(s) + 1 /\ j - 1 = Len(s)
  BY <1>1
<1>4. Append(s, x) = Forest!Between(s, j - 1, x)
  BY <1>1, <1>3, AppendIsBetween
<1> HIDE DEF g, j
<1>5. /\ Shape(g, [K EXCEPT ![p] = Forest!Between(s, j - 1, x)], F \ {x})
      /\ SameItems(h, g)
  BY <1>2, <1>3, <1>4, ShapeInsert DEF s
<1>6. QED
  BY <1>4, <1>5 DEF s, g

\* cJSON_InsertItemInArray in front of a child.
LEMMA InsertShape ==
  ASSUME NEW h, NEW K, NEW F, Shape(h, K, F), NEW p \in h.live,
         Private(h.ref, K, p), NEW x \in F, p \notin Sub(h.live, h.ref, K, x),
         NEW j \in 1 .. Len(K[p])
  PROVE  LET g == cJSON_InsertItemInArray(h, p, K[p][j], x)
         IN  /\ Shape(g, [K EXCEPT ![p] = Forest!Between(K[p], j - 1, x)], F \ {x})
             /\ SameItems(h, g)
<1> DEFINE s == K[p]
           g == cJSON_InsertItemInArray(h, p, s[j], x)
<1>1. /\ p \in Item /\ x \in Item /\ s \in Seq(Item) /\ Distinct(s)
      /\ Els(s) \cap F = {} /\ h \in Heap /\ Linked(h, p, s)
  BY DEF Shape, Nested, Inside, Free
<1>2. j \in 1 .. Len(s)
  OBVIOUS
<1> HIDE DEF s
<1>3. Relinked(h, g, p, s, Forest!Between(s, j - 1, x))
  BY <1>1, <1>2, InsertRelinks
<1>4. j \in 1 .. Len(s) + 1
  BY <1>1, <1>2
<1> HIDE DEF g
<1>5. /\ Shape(g, [K EXCEPT ![p] = Forest!Between(s, j - 1, x)], F \ {x})
      /\ SameItems(h, g)
  BY <1>3, <1>4, ShapeInsert DEF s
<1>6. QED
  BY <1>5 DEF s, g

\* cJSON_DetachItemViaPointer.
LEMMA DetachShape ==
  ASSUME NEW h, NEW K, NEW F, Shape(h, K, F), NEW p \in h.live,
         Private(h.ref, K, p), NEW j \in 1 .. Len(K[p])
  PROVE  LET g == cJSON_DetachItemViaPointer(h, p, K[p][j])
         IN  /\ Shape(g, [K EXCEPT ![p] = Forest!Without(K[p], j)], F \cup {K[p][j]})
             /\ SameItems(h, g)
<1> DEFINE s == K[p]
           t == Forest!Without(s, j)
           g == cJSON_DetachItemViaPointer(h, p, s[j])
<1>1. /\ p \in Item /\ s \in Seq(Item) /\ Distinct(s)
      /\ Els(s) \cap F = {} /\ h \in Heap /\ Linked(h, p, s)
  BY DEF Shape, Nested, Inside, Free
<1>2. j \in 1 .. Len(s) /\ s[j] \in Els(s)
  BY DEF Els
<1> HIDE DEF s
<1>3. Relinked(h, g, p, s, t)
  BY <1>1, <1>2, DetachRelinks
<1>4. t \in Seq(Item) /\ Distinct(t) /\ Els(t) = Els(s) \ {s[j]}
  BY <1>1, <1>2, WithoutIs
<1> HIDE DEF g, t
<1>5. /\ Els(t) \subseteq Els(s) \cup F
      /\ \A n \in Els(t) \ Els(s) : p \notin Sub(h.live, h.ref, K, n)
      /\ (F \ Els(t)) \cup (Els(s) \ Els(t)) = F \cup {s[j]}
  BY <1>1, <1>2, <1>4
<1>6. /\ Shape(g, [K EXCEPT ![p] = t], (F \ Els(t)) \cup (Els(s) \ Els(t)))
      /\ SameItems(h, g)
  BY <1>3, <1>4, <1>5, ShapeRelink DEF s
<1>7. QED
  BY <1>5, <1>6 DEF s, t, g

\* cJSON_ReplaceItemViaPointer, before it deletes the replaced child.
LEMMA ReplaceShape ==
  ASSUME NEW h, NEW K, NEW F, Shape(h, K, F), NEW p \in h.live,
         Private(h.ref, K, p), NEW r \in F, p \notin Sub(h.live, h.ref, K, r),
         NEW j \in 1 .. Len(K[p])
  PROVE  LET g == ReplaceLinks(h, p, K[p][j], r)
         IN  /\ Shape(g, [K EXCEPT ![p] = Substitute(K[p], j, r)],
                      (F \ {r}) \cup {K[p][j]})
             /\ SameItems(h, g)
<1> DEFINE s == K[p]
           t == Substitute(s, j, r)
           g == ReplaceLinks(h, p, s[j], r)
<1>1. /\ p \in Item /\ r \in Item /\ s \in Seq(Item) /\ Distinct(s)
      /\ Els(s) \cap F = {} /\ h \in Heap /\ Linked(h, p, s)
  BY DEF Shape, Nested, Inside, Free
<1>2. j \in 1 .. Len(s) /\ s[j] \in Els(s)
  BY DEF Els
<1>3. r \in Item \ Els(s)
  BY <1>1
<1> HIDE DEF s
<1>4. /\ Relinked(h, g, p, s, t) /\ t \in Seq(Item) /\ Distinct(t)
      /\ Els(t) = (Els(s) \ {s[j]}) \cup {r}
  BY <1>1, <1>2, <1>3, ReplaceRelinks
<1> HIDE DEF g, t
<1>5. /\ Els(t) \subseteq Els(s) \cup F
      /\ \A n \in Els(t) \ Els(s) : p \notin Sub(h.live, h.ref, K, n)
  BY <1>3, <1>4
<1>6. (F \ Els(t)) \cup (Els(s) \ Els(t)) = (F \ {r}) \cup {s[j]}
  BY <1>1, <1>2, <1>3, <1>4
<1>7. /\ Shape(g, [K EXCEPT ![p] = t], (F \ Els(t)) \cup (Els(s) \ Els(t)))
      /\ SameItems(h, g)
  BY <1>4, <1>5, ShapeRelink DEF s
<1>8. QED
  BY <1>6, <1>7 DEF s, t, g

\* The live items that own a copy of their name.
Owners(h) == {x \in h.live : OwnsKey(h, x)}
Counted(h) == h.strings = Cardinality(Owners(h))

LEMMA OwnersAreFinite ==
  ASSUME NEW h \in Heap
  PROVE  IsFiniteSet(Owners(h)) /\ Cardinality(Owners(h)) \in Nat
<1>1. Owners(h) \subseteq Item
  BY DEF Owners, Heap
<1>2. IsFiniteSet(Owners(h))
  BY <1>1, ItemAssumption, FS_Subset
<1>3. QED
  BY <1>2, FS_CardinalityType

\* The same items with the same names keep the count.
LEMMA SameCounts ==
  ASSUME NEW h, NEW g, Counted(h), g.key = h.key, g.strings = h.strings,
         h.live \subseteq g.live,
         \A x \in h.live : g.const[x] = h.const[x],
         \A x \in g.live \ h.live : h.key[x] = NULL
  PROVE  Counted(g)
<1>1. Owners(g) = Owners(h)
  BY DEF Owners, OwnsKey
<1>2. QED
  BY <1>1 DEF Counted

\* The heap g draws the sequences M, its names are counted, and it has these
\* items, references and names.
Draws(g, M, F, L, R, Y) ==
  Shape(g, M, F) /\ Counted(g) /\ g.live = L /\ g.ref = R /\ g.key = Y

\* The heap with other items and pointers, and the same names.
WithItems(h, L, N, P, C, R, B) ==
  [h EXCEPT !.live = L, !.next = N, !.prev = P, !.child = C, !.ref = R, !.const = B]

\* g is h with these items, pointers and bits.
Holding(h, g, L, N, P, C, R, B) ==
  /\ g \in Heap /\ g.live = L /\ g.next = N /\ g.prev = P /\ g.child = C
  /\ g.ref = R /\ g.const = B /\ g.key = h.key /\ g.strings = h.strings

LEMMA SetItems ==
  ASSUME NEW h \in Heap, NEW L \in SUBSET Item, NEW N \in [Item -> Pointer],
         NEW P \in [Item -> Pointer], NEW C \in [Item -> Pointer],
         NEW R \in [Item -> BOOLEAN], NEW B \in [Item -> BOOLEAN],
         NEW g, g = WithItems(h, L, N, P, C, R, B)
  PROVE  Holding(h, g, L, N, P, C, R, B)
BY DEF Heap, WithItems, Holding

\* Memory that is handed out again was zero before.
LEMMA BlankIs ==
  ASSUME NEW h, NEW K, NEW F, Shape(h, K, F), NEW S, S \cap h.live = {}
  PROVE  Blank(h, S) = h
<1>1. h \in Heap /\ OthersBlank(h) /\ \A x \in Item \ h.live : ~h.ref[x]
  BY DEF Shape, Nested, Inside
<1> DEFINE Zero(f, z) == [x \in Item |-> IF x \in S THEN z ELSE f[x]]
<1>2. Zero(h.next, NULL) = h.next /\ Zero(h.prev, NULL) = h.prev
  BY <1>1 DEF Heap, OthersBlank
<1>3. Zero(h.child, NULL) = h.child /\ Zero(h.key, NULL) = h.key
  BY <1>1 DEF Heap, OthersBlank
<1>4. Zero(h.ref, FALSE) = h.ref /\ Zero(h.const, FALSE) = h.const
  BY <1>1 DEF Heap, OthersBlank
<1>5. Blank(h, S) = [h EXCEPT !.next = Zero(h.next, NULL), !.prev = Zero(h.prev, NULL),
                              !.child = Zero(h.child, NULL), !.key = Zero(h.key, NULL),
                              !.ref = Zero(h.ref, FALSE), !.const = Zero(h.const, FALSE)]
  BY DEF Blank
<1> HIDE DEF Zero
<1>6. Blank(h, S) = [h EXCEPT !.next = h.next, !.prev = h.prev, !.child = h.child,
                              !.key = h.key, !.ref = h.ref, !.const = h.const]
  BY <1>2, <1>3, <1>4, <1>5
<1>7. QED
  BY <1>1, <1>6 DEF Heap

\* A new item with new children that are linked in the order s.
LEMMA ShapeGrow ==
  ASSUME NEW h, NEW K, NEW F, Shape(h, K, F), NEW a \in Item \ h.live,
         NEW s \in Seq(Item), Distinct(s), Els(s) \cap (h.live \cup {a}) = {},
         NEW g \in Heap, g.live = h.live \cup {a} \cup Els(s), g.ref = h.ref,
         g.const = h.const, g.key = h.key, Linked(g, a, s),
         \A q \in Item \ {a} : g.child[q] = h.child[q],
         \A y \in Item \ Els(s) : g.next[y] = h.next[y] /\ g.prev[y] = h.prev[y]
  PROVE  Shape(g, [K EXCEPT ![a] = s], F \cup {a})
<1> DEFINE M == [K EXCEPT ![a] = s]
<1>1. /\ Nested(h.live, h.ref, K, F) /\ h.live \subseteq Item /\ F \subseteq h.live
      /\ K \in [Item -> Seq(Item)] /\ \A q \in Item : Els(K[q]) \subseteq h.live
      /\ OthersBlank(h) /\ h \in Heap
  BY DEF Shape, Nested, Inside, Free
<1>2. Nested(g.live, g.ref, M, F \cup {a})
  <2>1. Nested(h.live \cup {a} \cup Els(s), h.ref, M, F \cup {a})
    BY <1>1, NestedGrow
  <2>2. QED
    BY <2>1
<1>3. M[a] = s /\ \A q \in Item : q # a => M[q] = K[q]
  BY <1>1
<1> HIDE DEF M
<1>4. ASSUME NEW q \in Item
      PROVE  Linked(g, q, M[q])
  <2>1. CASE q = a
    BY <1>3, <2>1
  <2>2. CASE q # a
    <3>1. Linked(h, q, K[q]) /\ g.child[q] = h.child[q] /\ M[q] = K[q]
      BY <1>3, <2>2 DEF Shape
    <3>2. ASSUME NEW i \in 1 .. Len(K[q])
          PROVE  g.next[K[q][i]] = h.next[K[q][i]] /\ g.prev[K[q][i]] = h.prev[K[q][i]]
      <4>1. K[q][i] \in Els(K[q])
        BY DEF Els
      <4>2. K[q][i] \in Item \ Els(s)
        BY <1>1, <4>1
      <4>3. QED
        BY <4>2
    <3>3. QED
      BY <3>1, <3>2 DEF Linked
  <2>3. QED
    BY <2>1, <2>2
<1>5. ASSUME NEW x \in F \cup {a}
      PROVE  g.next[x] = NULL /\ g.prev[x] = NULL
  <2>1. x \in Item \ Els(s)
    BY <1>1
  <2>2. h.next[x] = NULL /\ h.prev[x] = NULL
    BY <1>1 DEF Shape, OthersBlank
  <2>3. QED
    BY <2>1, <2>2
<1>6. OthersBlank(g)
  BY <1>1 DEF OthersBlank
<1>7. QED
  BY <1>2, <1>4, <1>5, <1>6 DEF Shape, M

\* cJSON_New_Item.
LEMMA NewItemIs ==
  ASSUME NEW h, NEW K, NEW F, Shape(h, K, F), NEW x \in Item \ h.live
  PROVE  cJSON_New_Item(h, x) = [h EXCEPT !.live = h.live \cup {x}]
<1>1. {x} \cap h.live = {}
  OBVIOUS
<1>2. Blank(h, {x}) = h
  BY <1>1, BlankIs
<1>3. QED
  BY <1>2 DEF cJSON_New_Item

LEMMA NewShape ==
  ASSUME NEW h, NEW K, NEW F, Shape(h, K, F), Counted(h), NEW x \in Item \ h.live
  PROVE  Draws(cJSON_New_Item(h, x), K, F \cup {x}, h.live \cup {x}, h.ref, h.key)
<1> DEFINE g == cJSON_New_Item(h, x)
<1>1. /\ h \in Heap /\ OthersBlank(h) /\ h.live \subseteq Item /\ K \in [Item -> Seq(Item)]
      /\ K[x] = <<>>
  BY DEF Shape, Nested, Inside
<1>2. g = [h EXCEPT !.live = h.live \cup {x}]
  BY NewItemIs
<1> HIDE DEF g
<1>3. /\ g \in Heap /\ g.live = h.live \cup {x} /\ g.next = h.next /\ g.prev = h.prev
      /\ g.child = h.child /\ g.ref = h.ref /\ g.key = h.key /\ g.const = h.const
      /\ g.strings = h.strings
  BY <1>1, <1>2 DEF Heap
<1>4. /\ <<>> \in Seq(Item) /\ Distinct(<<>>) /\ Els(<<>>) = {}
      /\ [K EXCEPT ![x] = <<>>] = K
  BY <1>1 DEF Distinct, Els
<1>5. Linked(g, x, <<>>)
  BY <1>1, <1>3 DEF Linked, OthersBlank
<1>6. Shape(g, [K EXCEPT ![x] = <<>>], F \cup {x})
  <2>1. Els(<<>>) \cap (h.live \cup {x}) = {} /\ g.live = h.live \cup {x} \cup Els(<<>>)
    BY <1>3, <1>4
  <2>2. /\ \A q \in Item \ {x} : g.child[q] = h.child[q]
        /\ \A y \in Item \ Els(<<>>) : g.next[y] = h.next[y] /\ g.prev[y] = h.prev[y]
    BY <1>3
  <2>3. QED
    BY <1>3, <1>4, <1>5, <2>1, <2>2, ShapeGrow
<1>7. Shape(g, K, F \cup {x})
  BY <1>4, <1>6
<1>8. Counted(g)
  <2>1. \A y \in g.live \ h.live : h.key[y] = NULL
    BY <1>1, <1>3 DEF OthersBlank
  <2>2. QED
    BY <1>3, <2>1, SameCounts
<1>9. QED
  BY <1>3, <1>7, <1>8 DEF g, Draws

\* cJSON_CreateIntArray and its like.
LEMMA ArrayShape ==
  ASSUME NEW h, NEW K, NEW F, Shape(h, K, F), Counted(h), NEW a \in Item \ h.live,
         NEW s \in Seq(Item), Distinct(s), Els(s) \cap (h.live \cup {a}) = {}
  PROVE  Draws(CreateArrayOf(h, a, s), [K EXCEPT ![a] = s], F \cup {a},
               h.live \cup {a} \cup Els(s), h.ref, h.key)
<1> DEFINE g == CreateArrayOf(h, a, s)
           S == {s[i] : i \in DOMAIN s}
           index(x) == CHOOSE i \in DOMAIN s : s[i] = x
           L == h.live \cup {a} \cup S
           N == [x \in Item |-> IF x \in S /\ index(x) < Len(s)
                                  THEN s[index(x) + 1] ELSE h.next[x]]
           P == [x \in Item |-> IF x \notin S THEN h.prev[x]
                                ELSE IF index(x) = 1 THEN s[Len(s)]
                                ELSE s[index(x) - 1]]
           C == [h.child EXCEPT ![a] = IF s = <<>> THEN NULL ELSE s[1]]
           n == Len(s)
<1>1. /\ h \in Heap /\ OthersBlank(h) /\ h.live \subseteq Item
      /\ n \in Nat /\ DOMAIN s = 1 .. n /\ \A i \in 1 .. n : s[i] \in Item
      /\ (s = <<>> <=> n = 0)
  BY DEF Shape, Nested, Inside
<1>2. S = Els(s)
  BY DEF Els
<1>3. Blank(h, {a} \cup S) = h
  <2>1. ({a} \cup S) \cap h.live = {}
    BY <1>2
  <2> HIDE DEF S
  <2>2. QED
    BY <2>1, BlankIs
<1>4. \A i \in 1 .. n : s[i] \in S /\ index(s[i]) = i
  <2>1. ASSUME NEW i \in 1 .. n
        PROVE  index(s[i]) = i
    <3>1. \E k \in DOMAIN s : s[k] = s[i]
      BY <1>1
    <3>2. index(s[i]) \in DOMAIN s /\ s[index(s[i])] = s[i]
      BY <3>1, Zenon
    <3> HIDE DEF index
    <3>3. QED
      BY <1>1, <3>2 DEF Distinct
  <2> HIDE DEF index
  <2>2. QED
    BY <1>1, <2>1
<1>5. g = WithItems(h, L, N, P, C, h.ref, h.const)
  <2> DEFINE B == Blank(h, {a} \cup S)
  <2>1. g = [B EXCEPT
               !.live = @ \cup {a} \cup S,
               !.child[a] = IF s = <<>> THEN NULL ELSE s[1],
               !.next = [x \in Item |-> IF x \in S /\ index(x) < Len(s)
                                          THEN s[index(x) + 1] ELSE @[x]],
               !.prev = [x \in Item |-> IF x \notin S THEN @[x]
                                        ELSE IF index(x) = 1 THEN s[Len(s)]
                                        ELSE s[index(x) - 1]]]
    BY Zenon DEF CreateArrayOf
  <2>2. B = h
    BY <1>3
  <2> HIDE DEF B, index, S, g
  <2>3. g = [h EXCEPT !.live = L, !.child[a] = IF s = <<>> THEN NULL ELSE s[1],
                      !.next = N, !.prev = P]
    BY <2>1, <2>2
  <2> HIDE DEF L, N, P
  <2>4. QED
    BY <1>1, <2>3 DEF Heap, WithItems
<1>6. ASSUME NEW x \in Item
      PROVE  /\ N[x] \in Pointer /\ P[x] \in Pointer
             /\ x \notin S => N[x] = h.next[x] /\ P[x] = h.prev[x]
             /\ \A i \in 1 .. n : x = s[i] =>
                  /\ N[x] = IF i = n THEN NULL ELSE s[i + 1]
                  /\ P[x] = IF i = 1 THEN s[n] ELSE s[i - 1]
  <2>1. CASE x \notin S
    <3>1. \A i \in 1 .. n : x # s[i]
      BY <1>4, <2>1
    <3>2. N[x] = h.next[x] /\ P[x] = h.prev[x]
      BY <2>1
    <3>3. h.next[x] \in Pointer /\ h.prev[x] \in Pointer
      BY <1>1 DEF Heap
    <3>4. QED
      BY <3>1, <3>2, <3>3
  <2>2. CASE x \in S
    <3>1. PICK i \in 1 .. n : x = s[i]
      BY <1>1, <2>2
    <3>2. index(x) = i /\ x \notin h.live /\ \A k \in 1 .. n : x = s[k] => k = i
      BY <1>2, <1>4, <2>2, <3>1 DEF Distinct
    <3>3. h.next[x] = NULL
      BY <1>1, <3>2 DEF OthersBlank
    <3>4. N[x] = IF i < n THEN s[i + 1] ELSE h.next[x]
      BY <2>2, <3>2
    <3>5. P[x] = IF i = 1 THEN s[n] ELSE s[i - 1]
      BY <2>2, <3>2
    <3>6. /\ i < n => i + 1 \in 1 .. n
          /\ i # 1 => i - 1 \in 1 .. n
          /\ n \in 1 .. n /\ (i < n <=> i # n)
      <4> HIDE DEF n, S, N, P, index
      <4>1. n \in Nat /\ i \in 1 .. n
        BY <1>1, <3>1
      <4>2. QED
        BY <4>1
    <3> HIDE DEF N, P, S
    <3>7. QED
      BY <1>1, <2>2, <3>2, <3>3, <3>4, <3>5, <3>6 DEF Pointer
  <2>3. QED
    BY <2>1, <2>2
<1>7. /\ N \in [Item -> Pointer] /\ P \in [Item -> Pointer] /\ C \in [Item -> Pointer]
      /\ L \in SUBSET Item /\ h.ref \in [Item -> BOOLEAN] /\ h.const \in [Item -> BOOLEAN]
  <2>1. N \in [Item -> Pointer] /\ P \in [Item -> Pointer]
    BY <1>6
  <2>2. (IF s = <<>> THEN NULL ELSE s[1]) \in Pointer
    BY <1>1 DEF Pointer
  <2>3. h.child \in [Item -> Pointer] /\ h.ref \in [Item -> BOOLEAN]
        /\ h.const \in [Item -> BOOLEAN]
    BY <1>1 DEF Heap
  <2>4. C \in [Item -> Pointer]
    BY <2>2, <2>3
  <2>5. L \in SUBSET Item
    BY <1>1
  <2>6. QED
    BY <2>1, <2>3, <2>4, <2>5
<1>8. C[a] = (IF s = <<>> THEN NULL ELSE s[1]) /\ \A q \in Item \ {a} : C[q] = h.child[q]
  BY <1>1 DEF Heap
<1> HIDE DEF g, N, P, C, S
<1>9. /\ g \in Heap /\ g.live = L /\ g.next = N /\ g.prev = P /\ g.child = C
      /\ g.ref = h.ref /\ g.const = h.const /\ g.key = h.key /\ g.strings = h.strings
  <2>1. Holding(h, g, L, N, P, C, h.ref, h.const)
    BY <1>1, <1>5, <1>7, SetItems
  <2>2. QED
    BY <2>1 DEF Holding
<1>10. Linked(g, a, s)
  <2>1. g.child[a] = IF s = <<>> THEN NULL ELSE s[1]
    BY <1>8, <1>9
  <2>2. ASSUME NEW i \in 1 .. n
        PROVE  /\ g.next[s[i]] = IF i = n THEN NULL ELSE s[i + 1]
               /\ g.prev[s[i]] = IF i = 1 THEN s[n] ELSE s[i - 1]
    <3>1. s[i] \in Item
      BY <1>1
    <3>2. /\ N[s[i]] = IF i = n THEN NULL ELSE s[i + 1]
          /\ P[s[i]] = IF i = 1 THEN s[n] ELSE s[i - 1]
      BY <1>6, <3>1
    <3>3. QED
      BY <1>9, <3>2
  <2>3. QED
    BY <2>1, <2>2 DEF Linked
<1>11. Shape(g, [K EXCEPT ![a] = s], F \cup {a})
  <2>1. g.live = h.live \cup {a} \cup Els(s)
    BY <1>2, <1>9
  <2>2. \A q \in Item \ {a} : g.child[q] = h.child[q]
    BY <1>8, <1>9
  <2>3. \A y \in Item \ Els(s) : g.next[y] = h.next[y] /\ g.prev[y] = h.prev[y]
    BY <1>2, <1>6, <1>9
  <2>4. QED
    BY <1>9, <1>10, <2>1, <2>2, <2>3, ShapeGrow
<1>12. Counted(g)
  <2>1. \A y \in g.live \ h.live : h.key[y] = NULL
    BY <1>1, <1>7, <1>9 DEF OthersBlank
  <2>2. h.live \subseteq g.live
    BY <1>9
  <2>3. QED
    BY <1>9, <2>1, <2>2, SameCounts
<1>13. QED
  BY <1>2, <1>9, <1>11, <1>12 DEF g, Draws

\* The heap with a reference a to the children of y.
Referring(h, a, y, B) ==
  WithItems(h, h.live \cup {a}, h.next, h.prev, [h.child EXCEPT ![a] = h.child[y]],
            Marked(h.ref, a), B)

LEMMA ReferShape ==
  ASSUME NEW h, NEW K, NEW F, Shape(h, K, F), Counted(h),
         NEW a \in Item \ h.live, NEW y \in h.live,
         NEW B \in [Item -> BOOLEAN], \A x \in Item \ {a} : B[x] = h.const[x],
         NEW g, g = Referring(h, a, y, B)
  PROVE  Draws(g, Showing(K, a, y), F \cup {a}, h.live \cup {a}, Marked(h.ref, a), h.key)
<1> DEFINE M == Showing(K, a, y)
           C == [h.child EXCEPT ![a] = h.child[y]]
           R == Marked(h.ref, a)
           L == h.live \cup {a}
<1>1. /\ Nested(h.live, h.ref, K, F) /\ h.live \subseteq Item /\ F \subseteq h.live
      /\ K \in [Item -> Seq(Item)] /\ \A q \in Item : Els(K[q]) \subseteq h.live
      /\ OthersBlank(h) /\ h \in Heap /\ y \in Item
  BY DEF Shape, Nested, Inside, Free
<1>2. /\ C \in [Item -> Pointer] /\ C[a] = h.child[y]
      /\ \A q \in Item \ {a} : C[q] = h.child[q]
  BY <1>1 DEF Heap
<1>3. R \in [Item -> BOOLEAN] /\ L \in SUBSET Item
      /\ h.next \in [Item -> Pointer] /\ h.prev \in [Item -> Pointer]
  BY <1>1 DEF Heap, Marked
<1> HIDE DEF C, R, L
<1>4. g = WithItems(h, L, h.next, h.prev, C, R, B)
  BY DEF C, R, L, Referring
<1>5. /\ g \in Heap /\ g.live = L /\ g.next = h.next /\ g.prev = h.prev /\ g.child = C
      /\ g.ref = R /\ g.const = B /\ g.key = h.key /\ g.strings = h.strings
  <2>1. h \in Heap
    BY <1>1
  <2>2. Holding(h, g, L, h.next, h.prev, C, R, B)
    BY <1>2, <1>3, <1>4, <2>1, SetItems
  <2>3. QED
    BY <2>2 DEF Holding
<1>6. Nested(L, R, M, F \cup {a})
  <2>1. Nested(h.live, h.ref, K, F)
    BY <1>1
  <2>2. Nested(h.live \cup {a}, Marked(h.ref, a), Showing(K, a, y), F \cup {a})
    BY <2>1, NestedRefer
  <2>3. QED
    BY <2>2 DEF L, R
<1>7. M[a] = K[y] /\ \A q \in Item : q # a => M[q] = K[q]
  BY <1>1 DEF Showing
<1> HIDE DEF M
<1>8. ASSUME NEW q \in Item
      PROVE  Linked(g, q, M[q])
  <2>1. CASE q = a
    <3>1. Linked(h, y, K[y])
      BY <1>1 DEF Shape
    <3>2. QED
      BY <1>2, <1>5, <1>7, <2>1, <3>1 DEF Linked
  <2>2. CASE q # a
    <3>1. Linked(h, q, K[q])
      BY DEF Shape
    <3>2. QED
      BY <1>2, <1>5, <1>7, <2>2, <3>1 DEF Linked
  <2>3. QED
    BY <2>1, <2>2
<1>9. ASSUME NEW x \in F \cup {a}
      PROVE  g.next[x] = NULL /\ g.prev[x] = NULL
  BY <1>1, <1>5 DEF Shape, OthersBlank
<1>10. OthersBlank(g)
  <2>1. ASSUME NEW x \in Item \ L
        PROVE  x \in Item \ h.live /\ x # a
    BY DEF L
  <2>2. ASSUME NEW x \in Item \ L
        PROVE  /\ h.next[x] = NULL /\ h.prev[x] = NULL /\ h.child[x] = NULL
               /\ h.key[x] = NULL /\ ~B[x] /\ C[x] = h.child[x]
    BY <1>1, <1>2, <2>1 DEF OthersBlank
  <2>3. QED
    BY <1>5, <2>2 DEF OthersBlank
<1>11. Shape(g, M, F \cup {a})
  BY <1>5, <1>6, <1>8, <1>9, <1>10 DEF Shape
<1>12. Counted(g)
  <2>1. /\ \A x \in h.live : g.const[x] = h.const[x]
        /\ \A x \in g.live \ h.live : h.key[x] = NULL
        /\ h.live \subseteq g.live
    BY <1>1, <1>5 DEF OthersBlank, L
  <2>2. QED
    BY <1>5, <2>1, SameCounts
<1>13. QED
  BY <1>5, <1>11, <1>12 DEF M, L, R, Draws

\* cJSON_CreateArrayReference and create_reference.
LEMMA ReferenceIs ==
  ASSUME NEW h, NEW K, NEW F, Shape(h, K, F), NEW x \in Item \ h.live, NEW y \in h.live
  PROVE  /\ [cJSON_New_Item(h, x) EXCEPT !.child[x] = h.child[y], !.ref[x] = TRUE]
              = Referring(h, x, y, h.const)
         /\ create_reference(h, y, x)
              = Referring(h, x, y, [h.const EXCEPT ![x] = h.const[y]])
<1> DEFINE b == cJSON_New_Item(h, x)
<1>1. h \in Heap
  BY DEF Shape
<1>2. b = [h EXCEPT !.live = h.live \cup {x}]
  BY NewItemIs
<1>3. create_reference(h, y, x)
        = [b EXCEPT !.child[x] = h.child[y], !.const[x] = h.const[y], !.ref[x] = TRUE]
  BY DEF create_reference
<1> HIDE DEF b
<1>4. [b EXCEPT !.child[x] = h.child[y], !.ref[x] = TRUE]
        = Referring(h, x, y, h.const)
  BY <1>1, <1>2 DEF Heap, WithItems, Referring, Marked
<1>5. [b EXCEPT !.child[x] = h.child[y], !.const[x] = h.const[y], !.ref[x] = TRUE]
        = Referring(h, x, y, [h.const EXCEPT ![x] = h.const[y]])
  BY <1>1, <1>2 DEF Heap, WithItems, Referring, Marked
<1>6. QED
  BY <1>3, <1>4, <1>5 DEF b

\* The heap with another name for x.
Renamed(h, x, k, c, z) == [h EXCEPT !.key[x] = k, !.const[x] = c, !.strings = z]

LEMMA RenamedIs ==
  ASSUME NEW h \in Heap, NEW x \in Item, NEW k \in Key \cup {NULL}, NEW c \in BOOLEAN,
         NEW z \in Int, NEW g, g = Renamed(h, x, k, c, z)
  PROVE  /\ g \in Heap /\ g.live = h.live /\ g.next = h.next /\ g.prev = h.prev
         /\ g.child = h.child /\ g.ref = h.ref /\ g.key = [h.key EXCEPT ![x] = k]
         /\ g.const = [h.const EXCEPT ![x] = c] /\ g.strings = z
BY DEF Heap, Renamed

LEMMA RenameShape ==
  ASSUME NEW h, NEW K, NEW F, Shape(h, K, F), NEW x \in h.live,
         NEW k \in Key \cup {NULL}, NEW c \in BOOLEAN, NEW z \in Int,
         NEW g, g = Renamed(h, x, k, c, z)
  PROVE  /\ Shape(g, K, F) /\ g.live = h.live /\ g.ref = h.ref
         /\ g.key = [h.key EXCEPT ![x] = k] /\ g.const = [h.const EXCEPT ![x] = c]
         /\ g.strings = z
<1>1. h \in Heap /\ x \in Item /\ OthersBlank(h)
  BY DEF Shape, Nested, Inside
<1>2. /\ g \in Heap /\ g.live = h.live /\ g.next = h.next /\ g.prev = h.prev
      /\ g.child = h.child /\ g.ref = h.ref /\ g.key = [h.key EXCEPT ![x] = k]
      /\ g.const = [h.const EXCEPT ![x] = c] /\ g.strings = z
  BY <1>1, RenamedIs
<1>3. ASSUME NEW p \in Item
      PROVE  Linked(g, p, K[p])
  BY <1>2 DEF Shape, Linked
<1>4. OthersBlank(g)
  <2>1. ASSUME NEW y \in Item \ h.live
        PROVE  g.key[y] = h.key[y] /\ g.const[y] = h.const[y]
    <3>1. y # x
      OBVIOUS
    <3>2. QED
      BY <1>1, <1>2, <3>1 DEF Heap
  <2>2. QED
    BY <1>1, <1>2, <2>1 DEF OthersBlank
<1>5. QED
  BY <1>2, <1>3, <1>4 DEF Shape

\* set_key keeps the count of the copies.
LEMMA SetKeyCounts ==
  ASSUME NEW h, NEW K, NEW F, Shape(h, K, F), Counted(h), NEW x \in h.live,
         NEW k \in Key, NEW c \in BOOLEAN
  PROVE  LET g == set_key(h, x, k, c)
         IN  Draws(g, K, F, h.live, h.ref, [h.key EXCEPT ![x] = k])
<1> DEFINE g == set_key(h, x, k, c)
           z == h.strings - (IF OwnsKey(h, x) THEN 1 ELSE 0) + (IF c THEN 0 ELSE 1)
           O == Owners(h)
<1>1. h \in Heap /\ x \in Item /\ h.live \subseteq Item
  BY DEF Shape, Nested, Inside
<1>2. IsFiniteSet(O) /\ Cardinality(O) \in Nat /\ h.strings = Cardinality(O)
  BY <1>1, OwnersAreFinite DEF Counted
<1>3. z \in Int
  BY <1>2
<1>4. g = Renamed(h, x, k, c, z)
  BY DEF set_key, Renamed
<1> HIDE DEF g, z
<1>5. /\ Shape(g, K, F) /\ g.live = h.live /\ g.ref = h.ref
      /\ g.key = [h.key EXCEPT ![x] = k] /\ g.const = [h.const EXCEPT ![x] = c]
      /\ g.strings = z
  <2>1. k \in Key \cup {NULL}
    OBVIOUS
  <2>2. QED
    BY <1>3, <1>4, <2>1, RenameShape
<1>6. /\ x \in O <=> OwnsKey(h, x)
      /\ \A y \in h.live \ {x} : OwnsKey(g, y) <=> OwnsKey(h, y)
      /\ OwnsKey(g, x) <=> ~c
  <2>1. g.key[x] = k /\ g.const[x] = c /\ k # NULL
    BY <1>1, <1>5, KeyAssumption DEF Heap
  <2>2. ASSUME NEW y \in h.live \ {x}
        PROVE  g.key[y] = h.key[y] /\ g.const[y] = h.const[y]
    BY <1>1, <1>5 DEF Heap
  <2>3. QED
    BY <2>1, <2>2 DEF OwnsKey, Owners
<1>7. /\ Cardinality(O \ {x}) = IF x \in O THEN Cardinality(O) - 1 ELSE Cardinality(O)
      /\ Cardinality(O \cup {x}) = IF x \in O THEN Cardinality(O) ELSE Cardinality(O) + 1
  BY <1>2, FS_AddElement, FS_RemoveElement
<1>8. Owners(g) = IF c THEN O \ {x} ELSE O \cup {x}
  BY <1>5, <1>6 DEF Owners
<1>9. z = Cardinality(Owners(g))
  <2>1. CASE c
    BY <1>2, <1>6, <1>7, <1>8, <2>1 DEF z
  <2>2. CASE ~c
    BY <1>2, <1>6, <1>7, <1>8, <2>2 DEF z
  <2>3. QED
    BY <2>1, <2>2
<1>10. QED
  BY <1>5, <1>9 DEF Counted, Draws, g

\* So does clear_key.
LEMMA ClearKeyCounts ==
  ASSUME NEW h, NEW K, NEW F, Shape(h, K, F), Counted(h), NEW x \in h.live
  PROVE  LET g == clear_key(h, x)
         IN  Draws(g, K, F, h.live, h.ref, [h.key EXCEPT ![x] = NULL])
<1> DEFINE g == clear_key(h, x)
           z == h.strings - (IF OwnsKey(h, x) THEN 1 ELSE 0)
           O == Owners(h)
<1>1. h \in Heap /\ x \in Item /\ h.live \subseteq Item
  BY DEF Shape, Nested, Inside
<1>2. IsFiniteSet(O) /\ Cardinality(O) \in Nat /\ h.strings = Cardinality(O)
  BY <1>1, OwnersAreFinite DEF Counted
<1>3. z \in Int /\ h.const[x] \in BOOLEAN
  BY <1>1, <1>2 DEF Heap
<1>4. g = Renamed(h, x, NULL, h.const[x], z)
  <2>1. [h.const EXCEPT ![x] = h.const[x]] = h.const
    BY <1>1 DEF Heap
  <2>2. g = [h EXCEPT !.key[x] = NULL, !.strings = z]
    BY DEF clear_key
  <2> HIDE DEF g, z
  <2>3. QED
    BY <1>1, <2>1, <2>2 DEF Renamed, Heap
<1> HIDE DEF g, z
<1>5. /\ Shape(g, K, F) /\ g.live = h.live /\ g.ref = h.ref
      /\ g.key = [h.key EXCEPT ![x] = NULL]
      /\ g.const = [h.const EXCEPT ![x] = h.const[x]]
      /\ g.strings = z
  <2>1. NULL \in Key \cup {NULL}
    OBVIOUS
  <2>2. QED
    BY <1>3, <1>4, <2>1, RenameShape
<1>6. Owners(g) = O \ {x}
  <2>1. g.key[x] = NULL
    BY <1>1, <1>5 DEF Heap
  <2>2. ASSUME NEW y \in h.live \ {x}
        PROVE  g.key[y] = h.key[y] /\ g.const[y] = h.const[y]
    BY <1>1, <1>5 DEF Heap
  <2>3. QED
    BY <1>5, <2>1, <2>2 DEF OwnsKey, Owners
<1>7. Cardinality(O \ {x}) = IF x \in O THEN Cardinality(O) - 1 ELSE Cardinality(O)
  BY <1>2, FS_RemoveElement
<1>8. x \in O <=> OwnsKey(h, x)
  BY DEF Owners
<1>9. z = Cardinality(Owners(g))
  BY <1>2, <1>6, <1>7, <1>8 DEF z
<1>10. QED
  BY <1>5, <1>9 DEF Counted, Draws, g

\* The names that are left without the items in D.
Unnamed(Y, D) == [q \in Item |-> IF q \in D THEN NULL ELSE Y[q]]

\* cJSON_Delete of an item that the program holds.
LEMMA DeleteShape ==
  ASSUME NEW h, NEW K, NEW F, Shape(h, K, F), Counted(h), NEW x \in F,
         NEW D, D = Sub(h.live, h.ref, K, x),
         \A r \in h.live \ D : h.ref[r] => Els(K[r]) \cap D = {}
  PROVE  LET g == cJSON_Delete(h, x)
         IN  Draws(g, Pruned(K, D), F \ {x}, h.live \ D, Unmarked(h.ref, D),
                   Unnamed(h.key, D))
<1> DEFINE g == cJSON_Delete(h, x)
           M == Pruned(K, D)
           Zero(f, z) == [q \in Item |-> IF q \in D THEN z ELSE f[q]]
           z == h.strings - Cardinality({y \in D : OwnsKey(h, y)})
<1>1. /\ h \in Heap /\ Nested(h.live, h.ref, K, F) /\ h.live \subseteq Item
      /\ Inside(h.live, h.ref, K) /\ F \subseteq h.live /\ x \in h.live
      /\ K \in [Item -> Seq(Item)] /\ h.next[x] = NULL /\ OthersBlank(h)
  BY DEF Shape, Nested, Inside, Free
<1>2. Below(h, x) = D /\ D \subseteq h.live /\ x \in D
  BY <1>1, BelowIs, SubClosed
<1>3. /\ \A q \in Item \ D : \A y \in Els(K[q]) : y \notin D
      /\ Nested(h.live \ D, Unmarked(h.ref, D), M, F \ {x})
  <2> HIDE DEF M
  <2>1. Nested(h.live \ D, Unmarked(h.ref, D), Pruned(K, D), F \ {x})
    BY <1>1, NestedPrune
  <2>2. \A q \in Item : Els(Pruned(K, D)[q]) \subseteq h.live \ D
    BY <2>1 DEF Nested, Inside
  <2>3. \A q \in Item \ D : Pruned(K, D)[q] = K[q]
    BY DEF Pruned
  <2>4. \A q \in Item \ D : \A y \in Els(K[q]) : y \notin D
    BY <2>2, <2>3
  <2>5. QED
    BY <2>1, <2>4 DEF M
<1>4. \A q \in Item : M[q] = IF q \in D THEN <<>> ELSE K[q]
  BY DEF Pruned
<1>5. z \in Int
  <2>1. IsFiniteSet({y \in D : OwnsKey(h, y)})
    BY <1>1, <1>2, ItemAssumption, FS_Subset
  <2>2. Cardinality({y \in D : OwnsKey(h, y)}) \in Nat
    BY <2>1, FS_CardinalityType
  <2>3. h.strings \in Int
    BY <1>1 DEF Heap
  <2>4. QED
    BY <2>2, <2>3
<1>6. g = [Blank(h, D) EXCEPT !.live = h.live \ D, !.strings = z]
  <2>1. g = [Blank(h, D) EXCEPT
               !.live = @ \ D,
               !.strings = @ - Cardinality({y \in D : OwnsKey(h, y)})]
    BY <1>2 DEF cJSON_Delete
  <2>2. Blank(h, D).live = h.live /\ Blank(h, D).strings = h.strings
    BY <1>1 DEF Heap, Blank
  <2>3. QED
    BY <2>1, <2>2
<1> HIDE DEF g, M, z
<1>7. /\ g \in Heap /\ g.live = h.live \ D
      /\ g.next = Zero(h.next, NULL) /\ g.prev = Zero(h.prev, NULL)
      /\ g.child = Zero(h.child, NULL) /\ g.key = Zero(h.key, NULL)
      /\ g.ref = Zero(h.ref, FALSE) /\ g.const = Zero(h.const, FALSE)
      /\ g.strings = z
  <2> DEFINE b == [h EXCEPT !.next = Zero(h.next, NULL), !.prev = Zero(h.prev, NULL),
                            !.child = Zero(h.child, NULL), !.key = Zero(h.key, NULL),
                            !.ref = Zero(h.ref, FALSE), !.const = Zero(h.const, FALSE)]
  <2>1. Blank(h, D) = b
    BY DEF Blank
  <2>2. g = [b EXCEPT !.live = h.live \ D, !.strings = z]
    BY <1>6, <2>1
  <2>3. /\ Zero(h.next, NULL) \in [Item -> Pointer] /\ Zero(h.prev, NULL) \in [Item -> Pointer]
        /\ Zero(h.child, NULL) \in [Item -> Pointer]
        /\ Zero(h.key, NULL) \in [Item -> Key \cup {NULL}]
        /\ Zero(h.ref, FALSE) \in [Item -> BOOLEAN]
        /\ Zero(h.const, FALSE) \in [Item -> BOOLEAN]
        /\ h.live \ D \in SUBSET Item
    BY <1>1 DEF Heap, Pointer
  <2> HIDE DEF Zero
  <2>4. QED
    BY <1>1, <1>5, <2>2, <2>3 DEF Heap
<1>8. g.ref = Unmarked(h.ref, D)
  <2>1. \A q \in Item : h.ref[q] \in BOOLEAN
    BY <1>1 DEF Heap
  <2>2. \A q \in Item : (IF q \in D THEN FALSE ELSE h.ref[q]) = (q \notin D /\ h.ref[q])
    BY <2>1
  <2>3. QED
    BY <1>7, <2>2 DEF Unmarked
<1>9. ASSUME NEW y \in Item \ D
      PROVE  /\ g.next[y] = h.next[y] /\ g.prev[y] = h.prev[y] /\ g.child[y] = h.child[y]
             /\ g.key[y] = h.key[y] /\ g.const[y] = h.const[y]
  BY <1>7
<1>10. ASSUME NEW y \in D
       PROVE  /\ g.next[y] = NULL /\ g.prev[y] = NULL /\ g.child[y] = NULL
              /\ g.key[y] = NULL /\ ~g.const[y]
  <2>1. y \in Item
    BY <1>1, <1>2
  <2>2. QED
    BY <1>7, <2>1
<1> HIDE DEF Zero
<1>11. ASSUME NEW q \in Item
       PROVE  Linked(g, q, M[q])
  <2>1. CASE q \in D
    BY <1>4, <1>10, <2>1 DEF Linked
  <2>2. CASE q \notin D
    <3>1. Linked(h, q, K[q]) /\ M[q] = K[q] /\ g.child[q] = h.child[q]
      BY <1>4, <1>9, <2>2 DEF Shape
    <3>2. ASSUME NEW i \in 1 .. Len(K[q])
          PROVE  g.next[K[q][i]] = h.next[K[q][i]] /\ g.prev[K[q][i]] = h.prev[K[q][i]]
      <4>1. K[q][i] \in Els(K[q])
        BY DEF Els
      <4>2. K[q][i] \in Item \ D
        BY <1>1, <1>3, <2>2, <4>1 DEF Inside
      <4>3. QED
        BY <1>9, <4>2
    <3>3. QED
      BY <3>1, <3>2 DEF Linked
  <2>3. QED
    BY <2>1, <2>2
<1>12. ASSUME NEW y \in F \ {x}
       PROVE  g.next[y] = NULL /\ g.prev[y] = NULL
  <2>1. y \in Item /\ h.next[y] = NULL /\ h.prev[y] = NULL
    BY <1>1 DEF Shape
  <2>2. QED
    BY <1>9, <1>10, <2>1
<1>13. OthersBlank(g)
  <2>1. ASSUME NEW y \in Item \ (h.live \ D)
        PROVE  /\ g.next[y] = NULL /\ g.prev[y] = NULL /\ g.child[y] = NULL
               /\ g.key[y] = NULL /\ ~g.const[y]
    <3>1. CASE y \in D
      BY <1>10, <3>1
    <3>2. CASE y \notin D
      <4>1. y \in Item \ D /\ y \in Item \ h.live
        BY <3>2
      <4>2. QED
        BY <1>1, <1>9, <4>1 DEF OthersBlank
    <3>3. QED
      BY <3>1, <3>2
  <2>2. QED
    BY <1>7, <2>1 DEF OthersBlank
<1>14. Shape(g, M, F \ {x})
  <2>1. Nested(g.live, g.ref, M, F \ {x})
    BY <1>3, <1>7, <1>8
  <2>2. QED
    BY <1>7, <1>11, <1>12, <1>13, <2>1 DEF Shape
<1>15. Counted(g)
  <2> DEFINE O == Owners(h)
             E == {y \in D : OwnsKey(h, y)}
  <2>1. IsFiniteSet(O) /\ h.strings = Cardinality(O) /\ Cardinality(O) \in Nat
    BY <1>1, OwnersAreFinite DEF Counted
  <2>2. E \subseteq O
    BY <1>2 DEF Owners
  <2>3. Owners(g) = O \ E
    <3>1. \A y \in h.live \ D : OwnsKey(g, y) <=> OwnsKey(h, y)
      BY <1>1, <1>9 DEF OwnsKey
    <3>2. QED
      BY <1>7, <3>1 DEF Owners
  <2> HIDE DEF O, E
  <2>4. Cardinality(O \ E) = Cardinality(O) - Cardinality(O \cap E)
    BY <2>1, FS_Difference
  <2>5. O \cap E = E
    BY <2>2
  <2>6. z = Cardinality(Owners(g))
    BY <2>1, <2>3, <2>4, <2>5 DEF z, E
  <2>7. QED
    BY <1>7, <2>6 DEF Counted
<1>16. g.key = Unnamed(h.key, D)
  BY <1>7 DEF Zero, Unnamed
<1>17. QED
  BY <1>7, <1>8, <1>14, <1>15, <1>16 DEF g, M, Draws

\* The rule for deleting keeps references from showing what is deleted.
LEMMA DeletableIsHidden ==
  ASSUME NEW h, NEW K, NEW F, Shape(h, K, F), NEW x \in F,
         NEW D, D = Sub(h.live, h.ref, K, x),
         \A r \in h.live : h.ref[r] /\ h.child[r] \in D => r \in D
  PROVE  \A r \in h.live \ D : h.ref[r] => Els(K[r]) \cap D = {}
<1>1. /\ Inside(h.live, h.ref, K) /\ Shared(h.ref, K) /\ Free(h.live, K, F)
      /\ h.live \subseteq Item /\ x \in h.live
  BY DEF Shape, Nested, Inside, Free
<1>2. D \subseteq h.live /\ x \in D /\ Closed(h.ref, K, D)
  BY <1>1, SubClosed
<1>3. ASSUME NEW r \in h.live \ D, h.ref[r], NEW y \in Els(K[r]), y \in D
      PROVE  FALSE
  <2>1. y # x
    BY <1>1 DEF Free
  <2>2. PICK p \in D : ~h.ref[p] /\ y \in Els(K[p])
    <3>1. \E p \in Sub(h.live, h.ref, K, x) : ~h.ref[p] /\ y \in Els(K[p])
      BY <1>1, <1>3, <2>1, SubParent
    <3>2. QED
      BY <3>1
  <2>3. p \in Item /\ r \in Item /\ p # r
    BY <1>1, <1>2, <1>3, <2>2
  <2>4. K[p] = K[r]
    BY <1>1, <1>3, <2>2, <2>3 DEF Shared
  <2>5. K[r] \in Seq(Item) /\ K[r] # <<>>
    BY <1>1, <1>3, <2>3 DEF Inside, Els
  <2>6. h.child[r] = K[r][1]
    BY <2>3, <2>5 DEF Shape, Linked
  <2>7. K[r][1] \in Els(K[r])
    BY <2>5 DEF Els
  <2>8. h.child[r] \in D
    BY <1>2, <2>2, <2>4, <2>6, <2>7 DEF Closed
  <2>9. QED
    BY <1>3, <2>8
<1>4. QED
  BY <1>3

\* A child of p that has been taken out of p is deleted.
LEMMA RemoveShape ==
  ASSUME NEW h, NEW K, NEW F, Shape(h, K, F), Counted(h), NEW p \in h.live,
         Private(h.ref, K, p), NEW x \in Els(K[p]),
         NEW D, D = Sub(h.live, h.ref, K, x),
         \A r \in h.live : h.ref[r] /\ h.child[r] \in D => r \in D,
         NEW g, NEW s, NEW G, Shape(g, [K EXCEPT ![p] = s], G), SameItems(h, g), x \in G
  PROVE  Draws(cJSON_Delete(g, x), Pruned([K EXCEPT ![p] = s], D), G \ {x},
               h.live \ D, Unmarked(h.ref, D), Unnamed(h.key, D))
<1> DEFINE M == [K EXCEPT ![p] = s]
<1>1. /\ Nested(h.live, h.ref, K, F) /\ Inside(h.live, h.ref, K) /\ h.live \subseteq Item
      /\ p \in Item /\ ~h.ref[p]
  BY DEF Shape, Nested, Inside, Private
<1>2. x \in h.live /\ p \notin D
  BY <1>1, Acyclic
<1>3. g.live = h.live /\ g.ref = h.ref /\ g.key = h.key /\ Counted(g)
  BY SameCounts DEF SameItems
<1>4. \A q \in Item : q # p => M[q] = K[q]
  BY <1>1 DEF Inside
<1> HIDE DEF M
<1>5. Shape(g, M, G)
  BY DEF M
<1>6. D = Sub(g.live, g.ref, M, x)
  <2>1. Inside(h.live, h.ref, M)
    BY <1>3, <1>5 DEF Shape, Nested
  <2>2. Sub(h.live, h.ref, M, x) = Sub(h.live, h.ref, K, x)
    BY <1>1, <1>2, <1>4, <2>1, SubFrame
  <2>3. QED
    BY <1>3, <2>2
<1>7. ASSUME NEW r \in g.live, g.ref[r], g.child[r] \in D
      PROVE  r \in D
  <2>1. r \in Item /\ r # p
    BY <1>1, <1>3, <1>7
  <2>2. Linked(h, r, K[r]) /\ Linked(g, r, K[r])
    BY <1>4, <1>5, <2>1 DEF Shape
  <2>3. h.child[r] = g.child[r]
    BY <2>2 DEF Linked
  <2>4. QED
    BY <1>3, <1>7, <2>3
<1>8. \A r \in g.live \ D : g.ref[r] => Els(M[r]) \cap D = {}
  BY <1>5, <1>6, <1>7, DeletableIsHidden
<1>9. Draws(cJSON_Delete(g, x), Pruned(M, D), G \ {x}, g.live \ D,
            Unmarked(g.ref, D), Unnamed(g.key, D))
  BY <1>3, <1>5, <1>6, <1>8, DeleteShape
<1>10. QED
  BY <1>3, <1>9 DEF M

\* The child that a lookup answers is one of the children.
LEMMA ArrayItemIsChild ==
  ASSUME NEW h, NEW K, NEW F, Shape(h, K, F), NEW p \in Item, NEW i,
         get_array_item(h, p, i) # NULL
  PROVE  i + 1 \in 1 .. Len(K[p]) /\ get_array_item(h, p, i) = K[p][i + 1]
<1>1. Chain(h, p) = K[p] /\ K[p] \in Seq(Item)
  BY ChainIs DEF Shape, Nested, Inside
<1>2. get_array_item(h, p, i) = IF i + 1 \in DOMAIN K[p] THEN K[p][i + 1] ELSE NULL
  BY <1>1 DEF get_array_item
<1>3. DOMAIN K[p] = 1 .. Len(K[p])
  BY <1>1
<1>4. QED
  BY <1>2, <1>3

LEMMA ObjectItemIsChild ==
  ASSUME NEW h, NEW K, NEW F, Shape(h, K, F), NEW p \in Item, NEW k, NEW c,
         get_object_item(h, p, k, c) # NULL
  PROVE  \E j \in 1 .. Len(K[p]) : get_object_item(h, p, k, c) = K[p][j]
<1> DEFINE s == Chain(h, p)
           stops == {i \in DOMAIN s : StopsAt(h, s[i], k, c)}
           first == CHOOSE i \in stops : \A j \in stops : i <= j
<1>1. s = K[p] /\ s \in Seq(Item)
  <2>1. s = K[p]
    BY ChainIs
  <2>2. K[p] \in Seq(Item)
    BY DEF Shape, Nested, Inside
  <2>3. QED
    BY <2>1, <2>2
<1>2. get_object_item(h, p, k, c)
        = IF stops = {} THEN NULL
          ELSE IF h.key[s[first]] = NULL THEN NULL ELSE s[first]
  BY Zenon DEF get_object_item
<1>3. DOMAIN s = 1 .. Len(s) /\ stops \subseteq DOMAIN s
  BY <1>1
<1> HIDE DEF s, stops
<1>4. stops # {}
  BY <1>2
<1>5. \E i \in stops : \A j \in stops : i <= j
  <2>1. stops \subseteq Nat
    BY <1>3
  <2>2. QED
    BY <1>4, <2>1, LeastExists
<1>6. first \in stops
  BY <1>5, Zenon
<1> HIDE DEF first
<1>7. get_object_item(h, p, k, c) = s[first]
  BY <1>2
<1>8. QED
  BY <1>1, <1>3, <1>6, <1>7

LEMMA FoundIsChild ==
  ASSUME NEW K, Shape(heap, K, held), NEW p \in Item, NEW x \in Found(p)
  PROVE  \E j \in 1 .. Len(K[p]) : x = K[p][j]
<1>1. x # NULL
  BY DEF Found
<1>2. CASE \E i \in Index : x = get_array_item(heap, p, i)
  BY <1>1, <1>2, ArrayItemIsChild
<1>3. CASE \E k \in Key, s \in BOOLEAN : x = get_object_item(heap, p, k, s)
  BY <1>1, <1>3, ObjectItemIsChild
<1>4. QED
  BY <1>2, <1>3 DEF Found
-----------------------------------------------------------------------------
(***************************************************************************)
(* The invariant, and every action step by step.                           *)
(***************************************************************************)
Inv ==
  /\ Shape(heap, KidsOf(heap), held)
  /\ Counted(heap)
  /\ lost \subseteq Item \ live

\* What the invariant says of the state.
LEMMA InvIs ==
  ASSUME Inv
  PROVE  /\ Shape(heap, KidsOf(heap), held) /\ Counted(heap) /\ heap \in Heap
         /\ Nested(live, heap.ref, KidsOf(heap), held)
         /\ live \subseteq Item /\ held \subseteq live
         /\ KidsOf(heap) \in [Item -> Seq(Item)]
         /\ heap.key \in [Item -> Key \cup {NULL}] /\ heap.ref \in [Item -> BOOLEAN]
         /\ \A x \in Item \ live : heap.key[x] = NULL
BY DEF Inv, Shape, Nested, Inside, Free, Heap, OthersBlank, live

\* A step to a heap that draws the sequences M.
LEMMA InvStep ==
  ASSUME NEW M, Shape(heap', M, held'), Counted(heap'), lost' \subseteq Item \ heap'.live
  PROVE  Inv' /\ KidsOf(heap') = M
<1>1. KidsOf(heap') = M
  BY KidsAre
<1>2. QED
  BY <1>1 DEF Inv, live

\* The same, with what else is known of the new heap.
LEMMA DrawsStep ==
  ASSUME NEW M, NEW L, NEW R, NEW Y, Draws(heap', M, held', L, R, Y),
         lost' \subseteq Item \ L
  PROVE  Inv' /\ KidsOf(heap') = M /\ live' = L /\ heap'.ref = R /\ heap'.key = Y
<1>1. Inv' /\ KidsOf(heap') = M
  BY InvStep DEF Draws
<1>2. QED
  BY <1>1 DEF Draws, live

\* The rules for adding x to p.
LEMMA MayAddIs ==
  ASSUME Inv, NEW x \in live, NEW p, MayAdd(p, x)
  PROVE  /\ p \in live /\ Private(heap.ref, KidsOf(heap), p)
         /\ p \notin Sub(live, heap.ref, KidsOf(heap), x) /\ p # x
<1>1. p \in live /\ p \notin Tree(heap, x) /\ Unshared(p)
  BY DEF MayAdd
<1>2. Tree(heap, x) = Sub(live, heap.ref, KidsOf(heap), x)
  BY InvIs, TreeIs DEF live
<1>3. x \in Sub(live, heap.ref, KidsOf(heap), x)
  BY InvIs, SubClosed DEF Nested
<1>4. Private(heap.ref, KidsOf(heap), p)
  BY <1>1, InvIs, UnsharedIsPrivate
<1>5. QED
  BY <1>1, <1>2, <1>3, <1>4

\* The sequences that Forest!Create chooses from.
LEMMA CreatedIs ==
  ASSUME NEW L, NEW s \in Seq(Item), Distinct(s), Els(s) \cap L = {}
  PROVE  /\ Len(s) \in 0 .. Cardinality(Item) /\ s \in [1 .. Len(s) -> Item \ L]
         /\ Forest!Range(s) = Els(s)
         /\ \A i, j \in 1 .. Len(s) : s[i] = s[j] => i = j
<1>1. s \in Chains
  BY DistinctIsChain
<1>2. PICK n \in 0 .. Cardinality(Item) : s \in [1 .. n -> Item]
  BY <1>1 DEF Chains
<1>3. Len(s) \in Nat /\ DOMAIN s = 1 .. Len(s) /\ s \in [1 .. Len(s) -> Item]
  OBVIOUS
<1>4. Len(s) \in 0 .. Cardinality(Item)
  <2>1. Cardinality(Item) \in Nat
    BY ItemAssumption, FS_CardinalityType
  <2>2. n \in Nat /\ 1 .. n = 1 .. Len(s)
    BY <1>2, <1>3, <2>1
  <2>3. Len(s) # 0 => Len(s) \in 1 .. n
    <3>1. Len(s) # 0 => Len(s) \in 1 .. Len(s)
      BY <1>3
    <3>2. QED
      BY <2>2, <3>1
  <2>4. QED
    BY <1>2, <1>3, <2>1, <2>2, <2>3
<1>5. \A i \in 1 .. Len(s) : s[i] \in Item \ L
  BY <1>3 DEF Els
<1>6. s \in [1 .. Len(s) -> Item \ L]
  BY <1>3, <1>5
<1>7. QED
  BY <1>3, <1>4, <1>6 DEF Forest!Range, Els, Distinct

\* A step that creates an item with new children s.
LEMMA ForestCreates ==
  ASSUME NEW x, NEW s \in Seq(Item), Distinct(s), Els(s) \cap (live \cup {x}) = {},
         held' = held \cup {x}, live' = live \cup {x} \cup Els(s),
         heap'.key = heap.key, heap'.ref = heap.ref,
         KidsOf(heap') = [KidsOf(heap) EXCEPT ![x] = s]
  PROVE  Forest!Create(x)
<1>1. /\ Len(s) \in 0 .. Cardinality(Item) /\ s \in [1 .. Len(s) -> Item \ (live \cup {x})]
      /\ Forest!Range(s) = Els(s)
      /\ \A i, j \in 1 .. Len(s) : s[i] = s[j] => i = j
  BY CreatedIs
<1> DEFINE Made(t, n) ==
      /\ live' = live \cup {x} \cup Forest!Range(t)
      /\ \A i, j \in 1 .. n : t[i] = t[j] => i = j
      /\ KidsOf(heap)' = [KidsOf(heap) EXCEPT ![x] = t]
<1>2. Made(s, Len(s))
  BY <1>1
<1> HIDE DEF Made
<1>3. \E n \in 0 .. Cardinality(Item) : \E t \in [1 .. n -> Item \ (live \cup {x})] : Made(t, n)
  BY <1>1, <1>2
<1>4. held' = held \cup {x} /\ heap'.key = heap.key /\ heap'.ref = heap.ref
  OBVIOUS
<1>5. Forest!Cardinality(Item) = Cardinality(Item)
  BY DEF Forest!Cardinality, Cardinality
<1>6. QED
  BY <1>3, <1>4, <1>5 DEF Made, Forest!Create, KidsOf, live

\* Create.
LEMMA CreateStep ==
  ASSUME Inv, NEW x \in Item, Create(x)
  PROVE  Inv' /\ Forest!Create(x)
<1> DEFINE K == KidsOf(heap)
           g == cJSON_New_Item(heap, x)
<1>1. /\ x \in Item \ live /\ x \notin lost /\ heap' = g /\ held' = held \cup {x}
      /\ lost' = lost /\ lost \subseteq Item \ live
  BY DEF Create, Fresh, Inv
<1>2. Draws(g, K, held \cup {x}, live \cup {x}, heap.ref, heap.key)
  <2> HIDE DEF K
  <2>1. Shape(heap, K, held) /\ Counted(heap) /\ x \in Item \ heap.live
    BY <1>1, InvIs DEF K, live
  <2>2. QED
    BY <2>1, NewShape DEF live
<1> HIDE DEF g, K
<1>3. K[x] = <<>>
  BY <1>1, InvIs DEF Nested, Inside, K
<1>4. /\ Inv' /\ KidsOf(heap') = K /\ live' = live \cup {x}
      /\ heap'.ref = heap.ref /\ heap'.key = heap.key
  <2>1. Draws(heap', K, held', live \cup {x}, heap.ref, heap.key)
    BY <1>1, <1>2
  <2>2. lost' \subseteq Item \ (live \cup {x})
    BY <1>1
  <2>3. QED
    BY <2>1, <2>2, DrawsStep
<1>5. [K EXCEPT ![x] = <<>>] = K
  BY <1>3, InvIs DEF K
<1>6. Forest!Create(x)
  <2>1. <<>> \in Seq(Item) /\ Distinct(<<>>) /\ Els(<<>>) = {}
    BY DEF Distinct, Els
  <2>2. Els(<<>>) \cap (live \cup {x}) = {} /\ live' = live \cup {x} \cup Els(<<>>)
    BY <1>4, <2>1
  <2>3. QED
    BY <1>1, <1>4, <1>5, <2>1, <2>2, ForestCreates DEF K
<1>7. QED
  BY <1>4, <1>6

\* CreateReference.
LEMMA CreateReferenceStep ==
  ASSUME Inv, NEW x \in Item, NEW p \in live, CreateReference(x, p)
  PROVE  Inv' /\ Forest!Refer(x, p)
<1> DEFINE K == KidsOf(heap)
           g == [cJSON_New_Item(heap, x) EXCEPT !.child[x] = heap.child[p], !.ref[x] = TRUE]
<1>1. /\ x \in Item \ live /\ x \notin lost /\ heap' = g /\ held' = held \cup {x}
      /\ lost' = lost /\ lost \subseteq Item \ live
  BY DEF CreateReference, Fresh, Inv
<1>2. g = Referring(heap, x, p, heap.const)
  BY <1>1, InvIs, ReferenceIs DEF live
<1> HIDE DEF g, K
<1>3. heap.const \in [Item -> BOOLEAN]
  BY InvIs DEF Heap
<1>4. Draws(g, Showing(K, x, p), held \cup {x}, live \cup {x}, Marked(heap.ref, x),
            heap.key)
  <2> DEFINE B == heap.const
             M == Showing(K, x, p)
  <2>1. /\ Shape(heap, K, held) /\ Counted(heap)
        /\ x \in Item \ heap.live /\ p \in heap.live
    BY <1>1, InvIs DEF K, live
  <2>2. /\ g = Referring(heap, x, p, B) /\ B \in [Item -> BOOLEAN]
        /\ \A q \in Item \ {x} : B[q] = heap.const[q]
    BY <1>2, <1>3
  <2> HIDE DEF B
  <2>3. Draws(g, M, held \cup {x}, heap.live \cup {x}, Marked(heap.ref, x), heap.key)
    BY <2>1, <2>2, ReferShape
  <2>4. QED
    BY <2>3 DEF live
<1>5. lost' \subseteq Item \ (live \cup {x})
  BY <1>1
<1>6. /\ Inv' /\ KidsOf(heap') = Showing(K, x, p) /\ live' = live \cup {x}
      /\ heap'.ref = Marked(heap.ref, x) /\ heap'.key = heap.key
  <2>1. Draws(heap', Showing(K, x, p), held', live \cup {x}, Marked(heap.ref, x), heap.key)
    BY <1>1, <1>4
  <2>2. QED
    BY <1>5, <2>1, DrawsStep
<1>7. Forest!Refer(x, p)
  <2>1. KidsOf(heap)' = [KidsOf(heap) EXCEPT ![x] = KidsOf(heap)[p]]
    BY <1>6 DEF K, Showing
  <2>2. QED
    BY <1>1, <1>6, <2>1 DEF Forest!Refer, KidsOf, live, Marked
<1>8. QED
  BY <1>6, <1>7

\* CreateArray.
LEMMA CreateArrayStep ==
  ASSUME Inv, NEW a \in Item, NEW s \in Chains, CreateArray(a, s)
  PROVE  Inv' /\ Forest!Create(a)
<1> DEFINE K == KidsOf(heap)
           g == CreateArrayOf(heap, a, s)
<1>1. /\ a \in Item \ live /\ a \notin lost /\ heap' = g /\ held' = held \cup {a}
      /\ lost' = lost /\ lost \subseteq Item \ live
      /\ \A i \in DOMAIN s : s[i] \in Item \ (live \cup lost \cup {a})
  BY DEF CreateArray, Fresh, Inv
<1>2. s \in Seq(Item) /\ Distinct(s) /\ DOMAIN s = 1 .. Len(s)
  BY ChainIsDistinct
<1>3. Els(s) \cap (live \cup {a}) = {} /\ Els(s) \cap lost = {}
  BY <1>1, <1>2 DEF Els
<1> HIDE DEF g, K
<1>4. Draws(g, [K EXCEPT ![a] = s], held \cup {a}, live \cup {a} \cup Els(s),
            heap.ref, heap.key)
  <2>1. Shape(heap, K, held) /\ Counted(heap) /\ a \in Item \ heap.live
    BY <1>1, InvIs DEF K, live
  <2>2. Els(s) \cap (heap.live \cup {a}) = {}
    BY <1>3 DEF live
  <2>3. QED
    BY <1>2, <2>1, <2>2, ArrayShape DEF live, g
<1>5. lost' \subseteq Item \ (live \cup {a} \cup Els(s))
  BY <1>1, <1>3
<1>6. /\ Inv' /\ KidsOf(heap') = [K EXCEPT ![a] = s]
      /\ live' = live \cup {a} \cup Els(s) /\ heap'.ref = heap.ref /\ heap'.key = heap.key
  <2>1. Draws(heap', [K EXCEPT ![a] = s], held', live \cup {a} \cup Els(s), heap.ref,
              heap.key)
    BY <1>1, <1>4
  <2>2. QED
    BY <1>5, <2>1, DrawsStep
<1>7. Forest!Create(a)
  BY <1>1, <1>2, <1>3, <1>6, ForestCreates DEF K
<1>8. QED
  BY <1>6, <1>7

\* The last step of the proofs of actions that keep the items and the names.
LEMMA SameStep ==
  ASSUME Inv, NEW M, Shape(heap', M, held'), SameItems(heap, heap'), lost' = lost
  PROVE  /\ Inv' /\ KidsOf(heap') = M /\ live' = live
         /\ heap'.key = heap.key /\ heap'.ref = heap.ref
<1>1. Counted(heap')
  BY InvIs, SameCounts DEF SameItems
<1>2. lost' \subseteq Item \ heap'.live /\ live' = live
  BY DEF Inv, SameItems, live
<1>3. Inv' /\ KidsOf(heap') = M
  BY <1>1, <1>2, InvStep
<1>4. QED
  BY <1>2, <1>3 DEF SameItems

\* AddItemToArray.
LEMMA AddStep ==
  ASSUME Inv, NEW p \in live, NEW x \in Item, AddItemToArray(p, x)
  PROVE  Inv' /\ Forest!Add(p, x, heap.key[x])
<1> DEFINE K == KidsOf(heap)
           M == [K EXCEPT ![p] = Append(K[p], x)]
           g == add_item_to_array(heap, p, x)
<1>1. /\ x \in held /\ x \in live /\ MayAdd(p, x) /\ heap' = g /\ held' = held \ {x}
      /\ lost' = lost
  BY InvIs DEF AddItemToArray
<1> HIDE DEF K
<1>2. /\ Shape(heap, K, held) /\ p \in heap.live /\ Private(heap.ref, K, p)
      /\ p \notin Sub(heap.live, heap.ref, K, x)
  BY <1>1, InvIs, MayAddIs DEF K, live
<1>3. Shape(g, M, held \ {x}) /\ SameItems(heap, g)
  BY <1>1, <1>2, AddShape
<1> HIDE DEF g, M
<1>4. /\ Inv' /\ KidsOf(heap') = M /\ live' = live
      /\ heap'.key = heap.key /\ heap'.ref = heap.ref
  BY <1>1, <1>3, SameStep
<1>5. Forest!Add(p, x, heap.key[x])
  <2>1. live' = live \cup {x} /\ heap'.key = [heap.key EXCEPT ![x] = heap.key[x]]
    BY <1>1, <1>4, InvIs
  <2>2. KidsOf(heap)' = [KidsOf(heap) EXCEPT ![p] = Append(KidsOf(heap)[p], x)]
    BY <1>4 DEF M, K
  <2>3. QED
    BY <1>1, <1>4, <2>1, <2>2 DEF Forest!Add, KidsOf
<1>6. QED
  BY <1>4, <1>5

\* The name is set first, then the item added.
LEMMA NamedAddShape ==
  ASSUME NEW h, NEW K, NEW F, Shape(h, K, F), Counted(h), NEW p \in h.live,
         Private(h.ref, K, p), NEW x \in F, p \notin Sub(h.live, h.ref, K, x),
         NEW k \in Key, NEW c \in BOOLEAN
  PROVE  LET g == add_item_to_object(h, p, k, x, c)
         IN  Draws(g, [K EXCEPT ![p] = Append(K[p], x)], F \ {x}, h.live, h.ref,
                   [h.key EXCEPT ![x] = k])
<1> DEFINE n == set_key(h, x, k, c)
           g == add_item_to_array(n, p, x)
           M == [K EXCEPT ![p] = Append(K[p], x)]
<1>1. x \in h.live
  BY DEF Shape, Nested, Free
<1>2. /\ Shape(n, K, F) /\ Counted(n) /\ n.live = h.live /\ n.ref = h.ref
      /\ n.key = [h.key EXCEPT ![x] = k]
  BY <1>1, SetKeyCounts DEF Draws
<1> HIDE DEF n
<1>3. Shape(g, M, F \ {x}) /\ SameItems(n, g)
  <2>1. p \in n.live /\ Private(n.ref, K, p) /\ p \notin Sub(n.live, n.ref, K, x)
    BY <1>2
  <2>2. QED
    BY <1>2, <2>1, AddShape
<1> HIDE DEF g, M
<1>4. Counted(g)
  BY <1>2, <1>3, SameCounts DEF SameItems
<1>5. g = add_item_to_object(h, p, k, x, c)
  BY DEF g, n, add_item_to_object
<1>6. g.live = h.live /\ g.ref = h.ref /\ g.key = [h.key EXCEPT ![x] = k]
  BY <1>2, <1>3 DEF SameItems
<1>7. QED
  BY <1>3, <1>4, <1>5, <1>6 DEF M, Draws

\* AddItemToObject.
LEMMA AddNamedStep ==
  ASSUME Inv, NEW p \in live, NEW x \in Item, NEW k \in Key, NEW c \in BOOLEAN,
         AddItemToObject(p, k, x, c)
  PROVE  Inv' /\ Forest!Add(p, x, k)
<1> DEFINE K == KidsOf(heap)
           M == [K EXCEPT ![p] = Append(K[p], x)]
           g == add_item_to_object(heap, p, k, x, c)
<1>1. /\ x \in held /\ x \in live /\ MayAdd(p, x) /\ heap' = g /\ held' = held \ {x}
      /\ lost' = lost /\ lost \subseteq Item \ heap.live
  BY InvIs DEF AddItemToObject, Inv, live
<1> HIDE DEF K
<1>2. /\ Shape(heap, K, held) /\ p \in heap.live /\ Private(heap.ref, K, p)
      /\ p \notin Sub(heap.live, heap.ref, K, x)
  BY <1>1, InvIs, MayAddIs DEF K, live
<1>3. Draws(g, M, held \ {x}, heap.live, heap.ref, [heap.key EXCEPT ![x] = k])
  <2>1. Counted(heap)
    BY InvIs
  <2>2. QED
    BY <1>1, <1>2, <2>1, NamedAddShape
<1> HIDE DEF g, M
<1>4. /\ Inv' /\ KidsOf(heap') = M /\ live' = heap.live /\ heap'.ref = heap.ref
      /\ heap'.key = [heap.key EXCEPT ![x] = k]
  <2>1. Draws(heap', M, held', heap.live, heap.ref, [heap.key EXCEPT ![x] = k])
    BY <1>1, <1>3
  <2>2. QED
    BY <1>1, <2>1, DrawsStep
<1>5. Forest!Add(p, x, k)
  <2>1. live' = live \cup {x}
    BY <1>1, <1>4 DEF live
  <2>2. KidsOf(heap)' = [KidsOf(heap) EXCEPT ![p] = Append(KidsOf(heap)[p], x)]
    BY <1>4 DEF M, K
  <2>3. QED
    BY <1>1, <1>4, <2>1, <2>2 DEF Forest!Add, KidsOf
<1>6. QED
  BY <1>4, <1>5

\* AddNewToObject.
LEMMA AddNewStep ==
  ASSUME Inv, NEW p \in live, NEW x \in Item, NEW k \in Key, AddNewToObject(p, k, x)
  PROVE  Inv' /\ Forest!Add(p, x, k)
<1> DEFINE K == KidsOf(heap)
           M == [K EXCEPT ![p] = Append(K[p], x)]
           n == cJSON_New_Item(heap, x)
           g == add_item_to_object(n, p, k, x, FALSE)
<1>1. /\ x \in Item \ heap.live /\ x \notin lost /\ Unshared(p) /\ heap' = g
      /\ held' = held /\ lost' = lost /\ lost \subseteq Item \ heap.live
      /\ held \subseteq heap.live
  BY InvIs DEF AddNewToObject, Fresh, Inv, live
<1> HIDE DEF K
<1>2. Shape(heap, K, held) /\ p \in heap.live /\ p # x /\ Counted(heap)
  BY <1>1, InvIs DEF K, live
<1>3. Private(heap.ref, K, p)
  BY <1>1, <1>2, UnsharedIsPrivate
<1>4. Draws(n, K, held \cup {x}, heap.live \cup {x}, heap.ref, heap.key)
  BY <1>1, <1>2, NewShape
<1> HIDE DEF n
<1>5. /\ Shape(n, K, held \cup {x}) /\ Counted(n) /\ n.live = heap.live \cup {x}
      /\ n.ref = heap.ref /\ n.key = heap.key /\ K[x] = <<>> /\ x \in n.live
  BY <1>1, <1>2, <1>4 DEF Draws, Shape, Nested, Inside
<1>6. Draws(g, M, (held \cup {x}) \ {x}, n.live, n.ref, [n.key EXCEPT ![x] = k])
  <2>1. \A z \in Sub(n.live, n.ref, K, x) : z = x
    BY <1>5, SubAlone
  <2>2. /\ p \in n.live /\ Private(n.ref, K, p) /\ p \notin Sub(n.live, n.ref, K, x)
        /\ FALSE \in BOOLEAN /\ x \in held \cup {x}
    BY <1>2, <1>3, <1>5, <2>1
  <2>3. QED
    BY <1>5, <2>2, NamedAddShape
<1> HIDE DEF g, M
<1>7. (held \cup {x}) \ {x} = held /\ held \ {x} = held
  BY <1>1
<1>8. /\ Inv' /\ KidsOf(heap') = M /\ live' = heap.live \cup {x} /\ heap'.ref = heap.ref
      /\ heap'.key = [heap.key EXCEPT ![x] = k]
  <2>1. Draws(heap', M, held', heap.live \cup {x}, heap.ref, [heap.key EXCEPT ![x] = k])
    BY <1>1, <1>5, <1>6, <1>7
  <2>2. lost' \subseteq Item \ (heap.live \cup {x})
    BY <1>1
  <2>3. QED
    BY <2>1, <2>2, DrawsStep
<1>9. Forest!Add(p, x, k)
  <2>1. live' = live \cup {x} /\ held' = held \ {x}
    BY <1>1, <1>7, <1>8 DEF live
  <2>2. KidsOf(heap)' = [KidsOf(heap) EXCEPT ![p] = Append(KidsOf(heap)[p], x)]
    BY <1>8 DEF M, K
  <2>3. QED
    BY <1>8, <2>1, <2>2 DEF Forest!Add, KidsOf
<1>10. QED
  BY <1>8, <1>9

\* The new reference of the next two actions.
LEMMA CreatedReference ==
  ASSUME Inv, NEW p, NEW y \in live, NEW x \in Item \ live, MayAdd(p, y)
  PROVE  LET g == create_reference(heap, y, x)
             M == Showing(KidsOf(heap), x, y)
         IN  /\ Draws(g, M, held \cup {x}, live \cup {x}, Marked(heap.ref, x), heap.key)
             /\ p \in g.live /\ p # x
             /\ Private(g.ref, M, p) /\ p \notin Sub(g.live, g.ref, M, x)
<1> DEFINE K == KidsOf(heap)
           M == Showing(K, x, y)
           g == create_reference(heap, y, x)
           B == [heap.const EXCEPT ![x] = heap.const[y]]
<1> HIDE DEF K
<1>1. /\ Shape(heap, K, held) /\ x \in Item \ heap.live /\ y \in heap.live
      /\ p \in heap.live /\ Private(heap.ref, K, p) /\ p # y /\ p # x
      /\ y \in Item /\ p \in Item /\ heap \in Heap /\ K \in [Item -> Seq(Item)]
  BY InvIs, MayAddIs DEF K, live
<1>2. g = Referring(heap, x, y, B)
  BY <1>1, ReferenceIs
<1>3. B \in [Item -> BOOLEAN] /\ \A z \in Item \ {x} : B[z] = heap.const[z]
  BY <1>1 DEF Heap
<1> HIDE DEF B, M, g
<1>4. Draws(g, M, held \cup {x}, heap.live \cup {x}, Marked(heap.ref, x), heap.key)
  BY <1>1, <1>2, <1>3, InvIs, ReferShape DEF M
<1>5. /\ Shape(g, M, held \cup {x}) /\ Counted(g) /\ g.live = heap.live \cup {x}
      /\ g.ref = Marked(heap.ref, x)
  BY <1>4 DEF Draws
<1>6. Private(g.ref, M, p)
  <2>1. M[x] = K[y] /\ \A q \in Item \ {x} : M[q] = K[q]
    BY <1>1 DEF M, Showing
  <2>2. ~g.ref[p]
    BY <1>1, <1>5 DEF Marked, Private, Heap
  <2>3. ASSUME NEW q \in Item, q # p
        PROVE  Els(M[p]) \cap Els(M[q]) = {}
    <3>1. CASE q = x
      BY <1>1, <2>1, <3>1 DEF Private
    <3>2. CASE q # x
      BY <1>1, <2>1, <2>3, <3>2 DEF Private
    <3>3. QED
      BY <3>1, <3>2
  <2>4. QED
    BY <2>2, <2>3 DEF Private
<1>7. p \in g.live /\ p \notin Sub(g.live, g.ref, M, x)
  <2>1. g.ref[x] /\ x \in g.live
    BY <1>1, <1>5 DEF Marked, Heap
  <2>2. \A z \in Sub(g.live, g.ref, M, x) : z = x
    BY <2>1, SubAlone
  <2>3. QED
    BY <1>1, <1>5, <2>2
<1>8. QED
  BY <1>1, <1>4, <1>6, <1>7 DEF g, M, K, live

\* The step of the abstract calls that add a reference.
LEMMA ForestAddsReference ==
  ASSUME Inv, NEW p, NEW y, NEW x \in Item \ live, p # x, NEW k,
         KidsOf(heap') = [Showing(KidsOf(heap), x, y) EXCEPT
                            ![p] = Append(Showing(KidsOf(heap), x, y)[p], x)],
         p \in Item, held' = held, heap'.live = live \cup {x},
         heap'.ref = Marked(heap.ref, x), heap'.key = [heap.key EXCEPT ![x] = k]
  PROVE  Forest!AddReference(p, y, x, k)
<1> DEFINE K == KidsOf(heap)
<1>1. K \in [Item -> Seq(Item)]
  BY InvIs
<1> HIDE DEF K
<1>2. [Showing(K, x, y) EXCEPT ![p] = Append(Showing(K, x, y)[p], x)]
        = [K EXCEPT ![p] = Append(K[p], x), ![x] = K[y]]
  <2> DEFINE M == Showing(K, x, y)
             s == Append(K[p], x)
  <2>1. M[p] = K[p]
    BY <1>1 DEF Showing
  <2>2. M = [K EXCEPT ![x] = K[y]]
    BY DEF Showing
  <2> HIDE DEF M, s
  <2>3. [M EXCEPT ![p] = s] = [K EXCEPT ![p] = s, ![x] = K[y]]
    BY <1>1, <2>2
  <2>4. QED
    BY <2>1, <2>3 DEF M, s
<1>3. KidsOf(heap)' = [K EXCEPT ![p] = Append(K[p], x), ![x] = K[y]]
  BY <1>2 DEF K
<1>4. QED
  BY <1>3 DEF Forest!AddReference, KidsOf, K, live, Marked

\* AddItemReferenceToArray.
LEMMA AddReferenceStep ==
  ASSUME Inv, NEW p \in live, NEW y \in live, NEW x \in Item,
         AddItemReferenceToArray(p, y, x)
  PROVE  Inv' /\ Forest!AddReference(p, y, x, NULL)
<1> DEFINE K == KidsOf(heap)
           M == Showing(K, x, y)
           N == [M EXCEPT ![p] = Append(M[p], x)]
           n == create_reference(heap, y, x)
           g == add_item_to_array(n, p, x)
<1>1. /\ x \in Item \ live /\ x \notin lost /\ MayAdd(p, y) /\ heap' = g
      /\ held' = held /\ lost' = lost /\ lost \subseteq Item \ live
      /\ held \subseteq live /\ p \in Item
  BY InvIs DEF AddItemReferenceToArray, Fresh, Inv
<1>2. /\ Draws(n, M, held \cup {x}, live \cup {x}, Marked(heap.ref, x), heap.key)
      /\ p \in n.live /\ p # x
      /\ Private(n.ref, M, p) /\ p \notin Sub(n.live, n.ref, M, x)
  BY <1>1, CreatedReference
<1> HIDE DEF n, M, K
<1>3. Shape(n, M, held \cup {x}) /\ Counted(n)
  BY <1>2 DEF Draws
<1>4. Shape(g, N, (held \cup {x}) \ {x}) /\ SameItems(n, g)
  BY <1>2, <1>3, AddShape
<1> HIDE DEF g, N
<1>5. (held \cup {x}) \ {x} = held
  BY <1>1
<1>6. Counted(g)
  BY <1>3, <1>4, SameCounts DEF SameItems
<1>7. Draws(g, N, held, live \cup {x}, Marked(heap.ref, x), heap.key)
  BY <1>2, <1>4, <1>5, <1>6 DEF Draws, SameItems
<1>8. /\ Inv' /\ KidsOf(heap') = N /\ live' = live \cup {x}
      /\ heap'.ref = Marked(heap.ref, x) /\ heap'.key = heap.key
  <2>1. Draws(heap', N, held', live \cup {x}, Marked(heap.ref, x), heap.key)
    BY <1>1, <1>7
  <2>2. lost' \subseteq Item \ (live \cup {x})
    BY <1>1
  <2>3. QED
    BY <2>1, <2>2, DrawsStep
<1>9. heap'.key = [heap.key EXCEPT ![x] = NULL]
  BY <1>1, <1>8, InvIs
<1>10. Forest!AddReference(p, y, x, NULL)
  BY <1>1, <1>2, <1>8, <1>9, ForestAddsReference DEF N, M, K, live
<1>11. QED
  BY <1>8, <1>10

\* AddItemReferenceToObject.
LEMMA AddNamedReferenceStep ==
  ASSUME Inv, NEW p \in live, NEW y \in live, NEW x \in Item, NEW k \in Key,
         AddItemReferenceToObject(p, k, y, x)
  PROVE  Inv' /\ Forest!AddReference(p, y, x, k)
<1> DEFINE K == KidsOf(heap)
           M == Showing(K, x, y)
           N == [M EXCEPT ![p] = Append(M[p], x)]
           n == create_reference(heap, y, x)
           g == add_item_to_object(n, p, k, x, FALSE)
           Y == [heap.key EXCEPT ![x] = k]
<1>1. /\ x \in Item \ live /\ x \notin lost /\ MayAdd(p, y) /\ heap' = g
      /\ held' = held /\ lost' = lost /\ lost \subseteq Item \ live
      /\ held \subseteq live /\ p \in Item
  BY InvIs DEF AddItemReferenceToObject, Fresh, Inv
<1>2. /\ Draws(n, M, held \cup {x}, live \cup {x}, Marked(heap.ref, x), heap.key)
      /\ p \in n.live /\ p # x
      /\ Private(n.ref, M, p) /\ p \notin Sub(n.live, n.ref, M, x)
  BY <1>1, CreatedReference
<1> HIDE DEF n, M, K
<1>3. /\ Shape(n, M, held \cup {x}) /\ Counted(n) /\ n.live = live \cup {x}
      /\ n.ref = Marked(heap.ref, x) /\ n.key = heap.key
  BY <1>2 DEF Draws
<1>4. Draws(g, N, (held \cup {x}) \ {x}, n.live, n.ref, [n.key EXCEPT ![x] = k])
  <2>1. FALSE \in BOOLEAN /\ x \in held \cup {x}
    OBVIOUS
  <2>2. QED
    BY <1>2, <1>3, <2>1, NamedAddShape
<1> HIDE DEF g, N
<1>5. (held \cup {x}) \ {x} = held
  BY <1>1
<1>6. /\ Inv' /\ KidsOf(heap') = N /\ live' = live \cup {x}
      /\ heap'.ref = Marked(heap.ref, x) /\ heap'.key = Y
  <2>1. Draws(heap', N, held', live \cup {x}, Marked(heap.ref, x), Y)
    BY <1>1, <1>3, <1>4, <1>5
  <2>2. lost' \subseteq Item \ (live \cup {x})
    BY <1>1
  <2> HIDE DEF Y
  <2>3. QED
    BY <2>1, <2>2, DrawsStep
<1>7. Forest!AddReference(p, y, x, k)
  BY <1>1, <1>2, <1>6, ForestAddsReference DEF N, M, K, live
<1>8. QED
  BY <1>6, <1>7

\* LoseReference.
LEMMA LoseStep ==
  ASSUME Inv, NEW x \in Item, LoseReference(x)
  PROVE  Inv' /\ UNCHANGED <<heap, held>>
<1>1. /\ x \in Item \ live /\ heap' = heap /\ held' = held /\ lost' = lost \cup {x}
      /\ Shape(heap, KidsOf(heap), held) /\ Counted(heap) /\ lost \subseteq Item \ live
  BY DEF LoseReference, Fresh, Inv
<1>2. /\ Shape(heap', KidsOf(heap), held') /\ Counted(heap') /\ lost' \subseteq Item \ heap'.live
  BY <1>1 DEF live
<1>3. Inv'
  BY <1>2, InvStep
<1>4. QED
  BY <1>1, <1>3

\* Detach.
LEMMA DetachStep ==
  ASSUME Inv, NEW p \in live, NEW x \in Item, Detach(p, x)
  PROVE  Inv' /\ Forest!Detach(p, x)
<1> DEFINE K == KidsOf(heap)
           g == cJSON_DetachItemViaPointer(heap, p, x)
<1>1. /\ x \in Found(p) /\ Unshared(p) /\ heap' = g /\ held' = held \cup {x} /\ lost' = lost
  BY DEF Detach
<1> HIDE DEF K
<1>2. /\ Shape(heap, K, held) /\ p \in heap.live /\ p \in Item /\ Private(heap.ref, K, p)
      /\ K \in [Item -> Seq(Item)]
  BY <1>1, InvIs, UnsharedIsPrivate DEF K, live
<1>3. PICK j \in 1 .. Len(K[p]) : x = K[p][j]
  BY <1>1, <1>2, FoundIsChild
<1> DEFINE M == [K EXCEPT ![p] = Forest!Without(K[p], j)]
<1>4. Shape(g, M, held \cup {x}) /\ SameItems(heap, g)
  BY <1>2, <1>3, DetachShape
<1> HIDE DEF g, M
<1>5. /\ Inv' /\ KidsOf(heap') = M /\ live' = live
      /\ heap'.key = heap.key /\ heap'.ref = heap.ref
  BY <1>1, <1>4, SameStep
<1>6. Forest!Detach(p, x)
  <2>1. j \in DOMAIN KidsOf(heap)[p] /\ KidsOf(heap)[p][j] = x
    BY <1>2, <1>3 DEF K
  <2>2. KidsOf(heap)' = [KidsOf(heap) EXCEPT ![p] = Forest!Without(KidsOf(heap)[p], j)]
    BY <1>5 DEF M, K
  <2>3. QED
    BY <1>1, <1>5, <2>1, <2>2 DEF Forest!Detach, KidsOf
<1>7. QED
  BY <1>5, <1>6

\* InsertItemInArray.
LEMMA InsertStep ==
  ASSUME Inv, NEW p \in live, NEW x \in Item, NEW i \in Index, InsertItemInArray(p, i, x)
  PROVE  Inv' /\ Forest!Insert(p, x)
<1> DEFINE K == KidsOf(heap)
           a == get_array_item(heap, p, i)
           g == cJSON_InsertItemInArray(heap, p, a, x)
<1>1. /\ x \in held /\ x \in live /\ MayAdd(p, x) /\ heap' = g /\ held' = held \ {x}
      /\ lost' = lost
  BY InvIs DEF InsertItemInArray
<1> HIDE DEF K
<1>2. /\ Shape(heap, K, held) /\ p \in heap.live /\ Private(heap.ref, K, p)
      /\ p \notin Sub(heap.live, heap.ref, K, x) /\ p \in Item /\ K \in [Item -> Seq(Item)]
  BY <1>1, InvIs, MayAddIs DEF K, live
<1> HIDE DEF a
<1>3. \E j \in 0 .. Len(K[p]) :
        /\ Shape(g, [K EXCEPT ![p] = Forest!Between(K[p], j, x)], held \ {x})
        /\ SameItems(heap, g)
  <2>1. CASE a = NULL
    <3>1. g = add_item_to_array(heap, p, x)
      BY <2>1 DEF cJSON_InsertItemInArray
    <3> HIDE DEF g
    <3>2. Shape(g, [K EXCEPT ![p] = Append(K[p], x)], held \ {x}) /\ SameItems(heap, g)
      BY <1>1, <1>2, <3>1, AddShape
    <3>3. Append(K[p], x) = Forest!Between(K[p], Len(K[p]), x)
      BY <1>2, AppendIsBetween
    <3>4. Len(K[p]) \in 0 .. Len(K[p])
      BY <1>2
    <3>5. QED
      BY <3>2, <3>3, <3>4
  <2>2. CASE a # NULL
    <3> DEFINE j == i + 1
    <3>1. j \in 1 .. Len(K[p]) /\ a = K[p][j]
      BY <1>2, <2>2, ArrayItemIsChild DEF a
    <3> HIDE DEF j
    <3>2. g = cJSON_InsertItemInArray(heap, p, K[p][j], x)
      BY <3>1
    <3> HIDE DEF g
    <3>3. /\ Shape(g, [K EXCEPT ![p] = Forest!Between(K[p], j - 1, x)], held \ {x})
          /\ SameItems(heap, g)
      BY <1>1, <1>2, <3>1, <3>2, InsertShape
    <3>4. Len(K[p]) \in Nat
      BY <1>2
    <3>5. j - 1 \in 0 .. Len(K[p])
      BY <3>1, <3>4
    <3>6. QED
      BY <3>3, <3>5
  <2>3. QED
    BY <2>1, <2>2
<1> HIDE DEF g
<1>4. PICK j \in 0 .. Len(K[p]) :
        /\ Shape(g, [K EXCEPT ![p] = Forest!Between(K[p], j, x)], held \ {x})
        /\ SameItems(heap, g)
  BY <1>3
<1> DEFINE M == [K EXCEPT ![p] = Forest!Between(K[p], j, x)]
<1>5. Shape(g, M, held \ {x}) /\ SameItems(heap, g)
  BY <1>4
<1> HIDE DEF M
<1>6. /\ Inv' /\ KidsOf(heap') = M /\ live' = live
      /\ heap'.key = heap.key /\ heap'.ref = heap.ref
  BY <1>1, <1>5, SameStep
<1>7. Forest!Insert(p, x)
  <2>1. /\ j \in 0 .. Len(KidsOf(heap)[p])
        /\ KidsOf(heap)' = [KidsOf(heap) EXCEPT ![p] = Forest!Between(KidsOf(heap)[p], j, x)]
    BY <1>6 DEF M, K
  <2>2. QED
    BY <1>1, <1>6, <2>1 DEF Forest!Insert, KidsOf
<1>8. QED
  BY <1>6, <1>7

\* RenameOnly.
LEMMA RenameStep ==
  ASSUME Inv, NEW p, NEW k \in Key, NEW s, NEW r, RenameOnly(p, k, s, r)
  PROVE  Inv' /\ Forest!Rename(r, k)
<1> DEFINE K == KidsOf(heap)
           g == set_key(heap, r, k, FALSE)
           Y == [heap.key EXCEPT ![r] = k]
<1>1. /\ r \in held /\ r \in heap.live /\ heap' = g /\ held' = held /\ lost' = lost
      /\ lost \subseteq Item \ heap.live
  BY InvIs DEF RenameOnly, Inv, live
<1> HIDE DEF K
<1>2. Shape(heap, K, held) /\ Counted(heap) /\ FALSE \in BOOLEAN
  BY InvIs DEF K
<1>3. Draws(g, K, held, heap.live, heap.ref, Y)
  BY <1>1, <1>2, SetKeyCounts
<1> HIDE DEF g, Y
<1>4. Inv' /\ KidsOf(heap') = K /\ live' = live /\ heap'.ref = heap.ref /\ heap'.key = Y
  <2>1. Draws(heap', K, held', heap.live, heap.ref, Y)
    BY <1>1, <1>3
  <2>2. QED
    BY <1>1, <2>1, DrawsStep DEF live
<1>5. Forest!Rename(r, k)
  BY <1>1, <1>4 DEF Forest!Rename, KidsOf, Y, K
<1>6. QED
  BY <1>4, <1>5

\* NameLost.
LEMMA NameLostStep ==
  ASSUME Inv, NEW r, NameLost(r)
  PROVE  Inv' /\ Forest!Rename(r, NULL)
<1> DEFINE K == KidsOf(heap)
           g == clear_key(heap, r)
           Y == [heap.key EXCEPT ![r] = NULL]
<1>1. /\ r \in held /\ r \in heap.live /\ heap' = g /\ held' = held /\ lost' = lost
      /\ lost \subseteq Item \ heap.live
  BY InvIs DEF NameLost, Inv, live
<1> HIDE DEF K
<1>2. Shape(heap, K, held) /\ Counted(heap)
  BY InvIs DEF K
<1>3. Draws(g, K, held, heap.live, heap.ref, Y)
  BY <1>1, <1>2, ClearKeyCounts
<1> HIDE DEF g, Y
<1>4. Inv' /\ KidsOf(heap') = K /\ live' = live /\ heap'.ref = heap.ref /\ heap'.key = Y
  <2>1. Draws(heap', K, held', heap.live, heap.ref, Y)
    BY <1>1, <1>3
  <2>2. QED
    BY <1>1, <2>1, DrawsStep DEF live
<1>5. Forest!Rename(r, NULL)
  BY <1>1, <1>4 DEF Forest!Rename, KidsOf, Y, K
<1>6. QED
  BY <1>4, <1>5

\* The tree of the abstract calls is the one that the pointers draw.
LEMMA ForestTreeIs ==
  ASSUME Inv, NEW x
  PROVE  Forest!Tree(x) = Sub(live, heap.ref, KidsOf(heap), x)
<1> DEFINE K == KidsOf(heap)
<1>1. K \in [Item -> Seq(Item)] /\ live \subseteq Item
  BY InvIs
<1> HIDE DEF K
<1>2. \A z \in live : Forest!Range(K[z]) = Els(K[z])
  <2>1. ASSUME NEW z \in live
        PROVE  Forest!Range(K[z]) = Els(K[z])
    <3>1. DOMAIN K[z] = 1 .. Len(K[z])
      BY <1>1
    <3>2. QED
      BY <3>1 DEF Forest!Range, Els
  <2>2. QED
    BY <2>1
<1>3. Forest!Tree(x)
        = LET closed == {S \in SUBSET live :
                           x \in S /\ \A z \in S : ~heap.ref[z] => Forest!Range(K[z]) \subseteq S}
          IN  {y \in live : \A S \in closed : y \in S}
  BY DEF Forest!Tree, K, KidsOf
<1>4. \A S \in SUBSET live :
        (\A z \in S : ~heap.ref[z] => Forest!Range(K[z]) \subseteq S) <=> Closed(heap.ref, K, S)
  BY <1>2 DEF Closed
<1>5. QED
  BY <1>3, <1>4 DEF Sub, K

\* What a deletion leaves is what the abstract calls leave.
LEMMA ForestForgets ==
  ASSUME NEW D, NEW M, NEW Y, live' = live \ D, heap'.ref = Unmarked(heap.ref, D),
         heap'.key = Unnamed(Y, D), KidsOf(heap') = Pruned(M, D)
  PROVE  Forest!Forget(D, M, Y)
<1>1. KidsOf(heap)' = [x \in Item |-> IF x \in D THEN <<>> ELSE M[x]]
  BY DEF Pruned, KidsOf
<1>2. QED
  BY <1>1 DEF Forest!Forget, KidsOf, Unmarked, Unnamed

\* The rule for deleting, with the tree that the pointers draw.
LEMMA DeletableIs ==
  ASSUME Inv, NEW x \in live, Deletable(x),
         NEW D, D = Sub(live, heap.ref, KidsOf(heap), x)
  PROVE  \A r \in heap.live : heap.ref[r] /\ heap.child[r] \in D => r \in D
<1>1. Tree(heap, x) = D
  BY InvIs, TreeIs DEF live
<1>2. QED
  BY <1>1 DEF Deletable, live

\* Delete.
LEMMA DeleteStep ==
  ASSUME Inv, NEW x, Delete(x)
  PROVE  Inv' /\ Forest!Delete(x)
<1> DEFINE K == KidsOf(heap)
           D == Sub(heap.live, heap.ref, K, x)
           g == cJSON_Delete(heap, x)
<1>1. /\ x \in held /\ x \in live /\ Deletable(x) /\ heap' = g /\ held' = held \ {x}
      /\ lost' = lost /\ lost \subseteq Item \ live
  BY InvIs DEF Delete, Inv
<1> HIDE DEF K
<1>2. Shape(heap, K, held) /\ Counted(heap)
  BY InvIs DEF K
<1> HIDE DEF D
<1>3. \A r \in heap.live : heap.ref[r] /\ heap.child[r] \in D => r \in D
  BY <1>1, DeletableIs DEF D, K, live
<1>4. \A r \in heap.live \ D : heap.ref[r] => Els(K[r]) \cap D = {}
  BY <1>1, <1>2, <1>3, DeletableIsHidden DEF D
<1>5. Draws(g, Pruned(K, D), held \ {x}, heap.live \ D, Unmarked(heap.ref, D),
            Unnamed(heap.key, D))
  BY <1>1, <1>2, <1>4, DeleteShape DEF D
<1> HIDE DEF g
<1>6. /\ Inv' /\ KidsOf(heap') = Pruned(K, D) /\ live' = live \ D
      /\ heap'.ref = Unmarked(heap.ref, D) /\ heap'.key = Unnamed(heap.key, D)
  <2>1. Draws(heap', Pruned(K, D), held', live \ D, Unmarked(heap.ref, D),
              Unnamed(heap.key, D))
    BY <1>1, <1>5 DEF live
  <2>2. lost' \subseteq Item \ (live \ D)
    BY <1>1
  <2>3. QED
    BY <2>1, <2>2, DrawsStep
<1>7. Forest!Delete(x)
  <2>1. Forest!Forget(D, K, heap.key)
    BY <1>6, ForestForgets
  <2>2. Forest!Tree(x) = D
    BY ForestTreeIs DEF D, K, live
  <2>3. QED
    BY <1>1, <2>1, <2>2 DEF Forest!Delete, K, KidsOf
<1>8. QED
  BY <1>6, <1>7

\* DeleteItem.
LEMMA DeleteItemStep ==
  ASSUME Inv, NEW p \in live, NEW x \in Item, DeleteItem(p, x)
  PROVE  Inv' /\ Forest!Remove(p, x)
<1> DEFINE K == KidsOf(heap)
           n == cJSON_DetachItemViaPointer(heap, p, x)
           g == cJSON_Delete(n, x)
           D == Sub(heap.live, heap.ref, K, x)
<1>1. /\ x \in Found(p) /\ Unshared(p) /\ Deletable(x) /\ heap' = g /\ held' = held
      /\ lost' = lost /\ lost \subseteq Item \ live
  BY DEF DeleteItem, Inv
<1> HIDE DEF K
<1>2. /\ Shape(heap, K, held) /\ Counted(heap) /\ p \in heap.live /\ p \in Item
      /\ Private(heap.ref, K, p) /\ K \in [Item -> Seq(Item)]
      /\ Nested(heap.live, heap.ref, K, held)
  BY <1>1, InvIs, UnsharedIsPrivate DEF K, live
<1>3. PICK j \in 1 .. Len(K[p]) : x = K[p][j]
  BY <1>1, <1>2, FoundIsChild
<1> DEFINE s == Forest!Without(K[p], j)
           M == [K EXCEPT ![p] = s]
           G == held \cup {x}
<1>4. Shape(n, M, G) /\ SameItems(heap, n)
  BY <1>2, <1>3, DetachShape
<1> HIDE DEF n, s
<1>5. x \in Els(K[p]) /\ x \in live /\ x \notin held /\ x \in D
  <2>1. x \in Els(K[p])
    BY <1>3 DEF Els
  <2>2. x \in heap.live /\ x \notin held
    BY <1>2, <2>1 DEF Nested, Inside, Free
  <2>3. QED
    BY <1>2, <2>1, <2>2, SubClosed DEF Nested, live
<1> HIDE DEF D
<1>6. \A r \in heap.live : heap.ref[r] /\ heap.child[r] \in D => r \in D
  BY <1>1, <1>5, DeletableIs DEF D, K, live
<1>7. Draws(g, Pruned(M, D), G \ {x}, heap.live \ D, Unmarked(heap.ref, D),
            Unnamed(heap.key, D))
  <2>1. x \in G /\ D = Sub(heap.live, heap.ref, K, x)
    BY DEF D
  <2> HIDE DEF G
  <2>2. QED
    BY <1>2, <1>4, <1>5, <1>6, <2>1, RemoveShape
<1> HIDE DEF g, M
<1>8. G \ {x} = held
  BY <1>5
<1>9. /\ Inv' /\ KidsOf(heap') = Pruned(M, D) /\ live' = live \ D
      /\ heap'.ref = Unmarked(heap.ref, D) /\ heap'.key = Unnamed(heap.key, D)
  <2>1. Draws(heap', Pruned(M, D), held', live \ D, Unmarked(heap.ref, D),
              Unnamed(heap.key, D))
    BY <1>1, <1>7, <1>8 DEF live
  <2>2. lost' \subseteq Item \ (live \ D)
    BY <1>1
  <2>3. QED
    BY <2>1, <2>2, DrawsStep
<1>10. Forest!Remove(p, x)
  <2>1. Forest!Forget(D, M, heap.key)
    BY <1>9, ForestForgets
  <2>2. Forest!Tree(x) = D
    BY ForestTreeIs DEF D, K, live
  <2>3. j \in DOMAIN KidsOf(heap)[p] /\ KidsOf(heap)[p][j] = x
    BY <1>2, <1>3 DEF K
  <2>4. M = [KidsOf(heap) EXCEPT ![p] = Forest!Without(KidsOf(heap)[p], j)]
    BY DEF M, s, K
  <2>5. x \notin live'
    BY <1>5, <1>9
  <2>6. QED
    BY <1>1, <2>1, <2>2, <2>3, <2>4, <2>5 DEF Forest!Remove, KidsOf
<1>11. QED
  BY <1>9, <1>10

\* The replaced child is deleted.
LEMMA ReplacedShape ==
  ASSUME NEW h, NEW K, NEW F, Shape(h, K, F), Counted(h), NEW p \in h.live,
         Private(h.ref, K, p), NEW r \in F, p \notin Sub(h.live, h.ref, K, r),
         NEW j \in 1 .. Len(K[p]), NEW x, x = K[p][j],
         NEW D, D = Sub(h.live, h.ref, K, x),
         \A q \in h.live : h.ref[q] /\ h.child[q] \in D => q \in D
  PROVE  Draws(cJSON_Delete(ReplaceLinks(h, p, x, r), x),
               Pruned([K EXCEPT ![p] = Substitute(K[p], j, r)], D), F \ {r},
               h.live \ D, Unmarked(h.ref, D), Unnamed(h.key, D))
<1> DEFINE s == Substitute(K[p], j, r)
           g == ReplaceLinks(h, p, x, r)
           G == (F \ {r}) \cup {x}
<1>1. Shape(g, [K EXCEPT ![p] = s], G) /\ SameItems(h, g)
  BY ReplaceShape
<1>2. x \in Els(K[p]) /\ x \notin F /\ x \in G
  <2>1. x \in Els(K[p]) /\ p \in Item
    BY DEF Els, Shape, Nested, Inside
  <2>2. QED
    BY <2>1 DEF Shape, Nested, Free
<1>3. G \ {x} = F \ {r}
  BY <1>2
<1> HIDE DEF g, s, G
<1>4. Draws(cJSON_Delete(g, x), Pruned([K EXCEPT ![p] = s], D), G \ {x}, h.live \ D,
            Unmarked(h.ref, D), Unnamed(h.key, D))
  BY <1>1, <1>2, RemoveShape
<1>5. QED
  BY <1>3, <1>4 DEF g, s

\* The step of the abstract calls that replace a child.
LEMMA ForestReplaces ==
  ASSUME Inv, NEW p \in live, NEW r \in held, NEW j \in 1 .. Len(KidsOf(heap)[p]),
         NEW x, x = KidsOf(heap)[p][j], NEW k,
         NEW D, D = Sub(live, heap.ref, KidsOf(heap), x),
         held' = held \ {r}, live' = live \ D, heap'.ref = Unmarked(heap.ref, D),
         heap'.key = Unnamed([heap.key EXCEPT ![r] = k], D),
         KidsOf(heap') = Pruned([KidsOf(heap) EXCEPT
                                   ![p] = Substitute(KidsOf(heap)[p], j, r)], D)
  PROVE  Forest!Replace(p, x, r, k)
<1> DEFINE K == KidsOf(heap)
           M == [K EXCEPT ![p] = Substitute(K[p], j, r)]
           Y == [heap.key EXCEPT ![r] = k]
<1>1. /\ K \in [Item -> Seq(Item)] /\ Nested(live, heap.ref, K, held) /\ p \in Item
      /\ live \subseteq Item /\ r \in Item /\ r \in live
      /\ heap.key \in [Item -> Key \cup {NULL}]
  BY InvIs
<1> HIDE DEF K
<1>2. x \in Els(K[p]) /\ j \in DOMAIN K[p]
  BY <1>1 DEF Els, K
<1>3. x \in live /\ x \notin held /\ x \in D /\ r \notin D
  <2>1. x \in live /\ x \notin held
    BY <1>1, <1>2 DEF Nested, Inside, Free
  <2>2. D = Sub(live, heap.ref, K, x) /\ Inside(live, heap.ref, K) /\ Free(live, K, held)
    BY <1>1 DEF Nested, K
  <2>3. x \in D
    BY <2>1, <2>2, SubClosed
  <2>4. r \notin D
    BY <2>1, <2>2, SubFree
  <2>5. QED
    BY <2>1, <2>3, <2>4
<1>4. heap'.key[r] = k
  BY <1>1, <1>3 DEF Unnamed
<1>5. Forest!Forget(D, M, Y)
  <2>1. KidsOf(heap') = Pruned(M, D) /\ heap'.key = Unnamed(Y, D)
    BY DEF M, Y, K
  <2> HIDE DEF M, Y
  <2>2. QED
    BY <2>1, ForestForgets
<1>6. M = [K EXCEPT ![p][j] = r]
  BY <1>1 DEF Substitute
<1>7. Forest!Tree(x) = D
  BY ForestTreeIs
<1>8. /\ j \in DOMAIN K[p] /\ K[p][j] = x
      /\ Forest!Forget(Forest!Tree(x), [K EXCEPT ![p][j] = r], Y)
  BY <1>2, <1>5, <1>6, <1>7 DEF K
<1>9. x \notin live'
  BY <1>3
<1>10. QED
  BY <1>4, <1>8, <1>9 DEF Forest!Replace, K, KidsOf

\* ReplaceItem.
LEMMA ReplaceStep ==
  ASSUME Inv, NEW p \in live, NEW x \in Item, NEW r \in held, ReplaceItem(p, x, r)
  PROVE  Inv' /\ Forest!Replace(p, x, r, heap.key[r])
<1> DEFINE K == KidsOf(heap)
           g == cJSON_Delete(ReplaceLinks(heap, p, x, r), x)
           D == Sub(heap.live, heap.ref, K, x)
<1>1. /\ x \in Found(p) /\ MayAdd(p, r) /\ Deletable(x) /\ heap' = g
      /\ held' = held \ {r} /\ lost' = lost /\ lost \subseteq Item \ live /\ r \in live
      /\ heap.key \in [Item -> Key \cup {NULL}] /\ r \in Item
  BY InvIs DEF ReplaceItem, Inv
<1> HIDE DEF K
<1>2. /\ Shape(heap, K, held) /\ Counted(heap) /\ p \in heap.live /\ p \in Item
      /\ Private(heap.ref, K, p) /\ K \in [Item -> Seq(Item)]
      /\ p \notin Sub(heap.live, heap.ref, K, r)
      /\ Nested(heap.live, heap.ref, K, held)
  BY <1>1, InvIs, MayAddIs DEF K, live
<1>3. PICK j \in 1 .. Len(K[p]) : x = K[p][j]
  BY <1>1, <1>2, FoundIsChild
<1>4. x \in live
  BY <1>2, <1>3 DEF Nested, Inside, Els, live
<1> HIDE DEF D, g
<1>5. \A q \in heap.live : heap.ref[q] /\ heap.child[q] \in D => q \in D
  BY <1>1, <1>4, DeletableIs DEF D, K, live
<1> DEFINE M == [K EXCEPT ![p] = Substitute(K[p], j, r)]
<1>6. Draws(g, Pruned(M, D), held \ {r}, heap.live \ D, Unmarked(heap.ref, D),
            Unnamed(heap.key, D))
  BY <1>2, <1>3, <1>5, ReplacedShape DEF D, g
<1> HIDE DEF M
<1>7. /\ Inv' /\ KidsOf(heap') = Pruned(M, D) /\ live' = live \ D
      /\ heap'.ref = Unmarked(heap.ref, D) /\ heap'.key = Unnamed(heap.key, D)
  <2>1. Draws(heap', Pruned(M, D), held', live \ D, Unmarked(heap.ref, D),
              Unnamed(heap.key, D))
    BY <1>1, <1>6 DEF live
  <2>2. lost' \subseteq Item \ (live \ D)
    BY <1>1
  <2>3. QED
    BY <2>1, <2>2, DrawsStep
<1>8. Forest!Replace(p, x, r, heap.key[r])
  <2> DEFINE Y == [heap.key EXCEPT ![r] = heap.key[r]]
  <2>1. Y = heap.key
    BY <1>1
  <2> HIDE DEF Y
  <2>2. heap'.key = Unnamed(Y, D)
    BY <1>7, <2>1
  <2>3. QED
    BY <1>1, <1>3, <1>7, <2>2, ForestReplaces DEF M, D, K, Y, live
<1>9. QED
  BY <1>7, <1>8

\* ReplaceItemInObject.
LEMMA ReplaceNamedStep ==
  ASSUME Inv, NEW p \in live, NEW k \in Key, NEW c \in BOOLEAN, NEW r \in Item,
         ReplaceItemInObject(p, k, c, r)
  PROVE  /\ Inv' /\ r \in held
         /\ \E x \in live : Forest!Replace(p, x, r, k)
<1> DEFINE K == KidsOf(heap)
           x == get_object_item(heap, p, k, c)
           n == set_key(heap, r, k, FALSE)
           g == cJSON_Delete(ReplaceLinks(n, p, x, r), x)
           D == Sub(heap.live, heap.ref, K, x)
           Y == [heap.key EXCEPT ![r] = k]
<1>1. /\ x # NULL /\ r \in held /\ MayAdd(p, r) /\ Deletable(x) /\ heap' = g
      /\ held' = held \ {r} /\ lost' = lost /\ lost \subseteq Item \ live /\ r \in live
      /\ r \in heap.live /\ heap \in Heap
  BY InvIs DEF ReplaceItemInObject, Inv, live
<1> HIDE DEF K, n, g, D, Y
<1>2. /\ Shape(heap, K, held) /\ Counted(heap) /\ p \in heap.live /\ p \in Item
      /\ Private(heap.ref, K, p) /\ K \in [Item -> Seq(Item)]
      /\ p \notin Sub(heap.live, heap.ref, K, r)
      /\ Nested(heap.live, heap.ref, K, held)
  BY <1>1, InvIs, MayAddIs DEF K, live
<1>3. PICK j \in 1 .. Len(K[p]) : x = K[p][j]
  <2>1. \A a : get_object_item(heap, p, k, a) # NULL
                 => \E j \in 1 .. Len(K[p]) : get_object_item(heap, p, k, a) = K[p][j]
    BY <1>2, ObjectItemIsChild
  <2>2. \E j \in 1 .. Len(K[p]) : get_object_item(heap, p, k, c) = K[p][j]
    BY <1>1, <2>1, Zenon
  <2>3. QED
    BY <2>2
<1> HIDE DEF x
<1>4. x \in live
  BY <1>2, <1>3 DEF Nested, Inside, Els, live
<1>5. /\ Shape(n, K, held) /\ Counted(n) /\ n.live = heap.live /\ n.ref = heap.ref
      /\ n.key = Y /\ n.child = heap.child
  <2>1. FALSE \in BOOLEAN
    OBVIOUS
  <2>2. Draws(n, K, held, heap.live, heap.ref, Y)
    BY <1>1, <1>2, <2>1, SetKeyCounts DEF n, Y
  <2>3. n.child = heap.child
    BY <1>1 DEF set_key, Heap, n
  <2>4. QED
    BY <2>2, <2>3 DEF Draws
<1>6. \A q \in n.live : n.ref[q] /\ n.child[q] \in D => q \in D
  <2>1. \A q \in heap.live : heap.ref[q] /\ heap.child[q] \in D => q \in D
    BY <1>1, <1>4, DeletableIs DEF D, K, live
  <2>2. QED
    BY <1>5, <2>1
<1> DEFINE M == [K EXCEPT ![p] = Substitute(K[p], j, r)]
<1>7. Draws(g, Pruned(M, D), held \ {r}, n.live \ D, Unmarked(n.ref, D), Unnamed(n.key, D))
  <2>1. /\ p \in n.live /\ Private(n.ref, K, p) /\ p \notin Sub(n.live, n.ref, K, r)
        /\ D = Sub(n.live, n.ref, K, x)
    BY <1>2, <1>5 DEF D
  <2>2. QED
    BY <1>1, <1>3, <1>5, <1>6, <2>1, ReplacedShape DEF g
<1> HIDE DEF M
<1>8. /\ Inv' /\ KidsOf(heap') = Pruned(M, D) /\ live' = live \ D
      /\ heap'.ref = Unmarked(heap.ref, D) /\ heap'.key = Unnamed(Y, D)
  <2>1. Draws(heap', Pruned(M, D), held', live \ D, Unmarked(heap.ref, D), Unnamed(Y, D))
    BY <1>1, <1>5, <1>7 DEF live
  <2>2. lost' \subseteq Item \ (live \ D)
    BY <1>1
  <2>3. QED
    BY <2>1, <2>2, DrawsStep
<1>9. Forest!Replace(p, x, r, k)
  BY <1>1, <1>3, <1>8, ForestReplaces DEF M, D, K, Y, live
<1>10. QED
  BY <1>1, <1>4, <1>8, <1>9

\* The children that the program finds are live.
LEMMA FoundIsLive ==
  ASSUME Inv, NEW p \in live, NEW x \in Found(p)
  PROVE  x \in live
<1> DEFINE K == KidsOf(heap)
<1>1. Shape(heap, K, held) /\ Nested(live, heap.ref, K, held) /\ p \in Item
  BY InvIs
<1> HIDE DEF K
<1>2. PICK j \in 1 .. Len(K[p]) : x = K[p][j]
  BY <1>1, FoundIsChild
<1>3. QED
  BY <1>1, <1>2 DEF Nested, Inside, Els

\* Every step keeps the invariant, and is a step of the abstract calls or
\* none of their business.
LEMMA NextStep ==
  ASSUME Inv, Next
  PROVE  Inv' /\ (Forest!Next \/ UNCHANGED <<heap, held>>)
<1>1. /\ held \subseteq live /\ live \subseteq Item
      /\ heap.key \in [Item -> Key \cup {NULL}] /\ NULL \in Key \cup {NULL}
  BY InvIs
<1>2. ASSUME NEW x \in Item, Create(x)
      PROVE  Inv' /\ Forest!Next
  <2>1. x \in Item \ live
    BY <1>2 DEF Create, Fresh
  <2>2. QED
    BY <1>2, <2>1, CreateStep DEF Forest!Next
<1>3. ASSUME NEW x \in Item, LoseReference(x)
      PROVE  Inv' /\ UNCHANGED <<heap, held>>
  BY <1>3, LoseStep
<1>4. ASSUME NEW x \in Item, NameLost(x)
      PROVE  Inv' /\ Forest!Next
  <2>1. x \in held
    BY <1>4 DEF NameLost
  <2>2. QED
    BY <1>1, <1>4, <2>1, NameLostStep DEF Forest!Next
<1>5. ASSUME NEW x \in Item, Delete(x)
      PROVE  Inv' /\ Forest!Next
  <2>1. x \in held
    BY <1>5 DEF Delete
  <2>2. QED
    BY <1>5, <2>1, DeleteStep DEF Forest!Next
<1>6. ASSUME NEW a \in Item, NEW s \in Chains, CreateArray(a, s)
      PROVE  Inv' /\ Forest!Next
  <2>1. a \in Item \ live
    BY <1>6 DEF CreateArray, Fresh
  <2>2. QED
    BY <1>6, <2>1, CreateArrayStep DEF Forest!Next
<1>7. ASSUME NEW p \in live, NEW x \in Item, CreateReference(x, p)
      PROVE  Inv' /\ Forest!Next
  <2>1. x \in Item \ live
    BY <1>7 DEF CreateReference, Fresh
  <2>2. QED
    BY <1>7, <2>1, CreateReferenceStep DEF Forest!Next
<1>8. ASSUME NEW p \in live, NEW x \in Item, AddItemToArray(p, x)
      PROVE  Inv' /\ Forest!Next
  <2>1. x \in held /\ heap.key[x] \in Key \cup {NULL}
    BY <1>1, <1>8 DEF AddItemToArray
  <2>2. QED
    BY <1>8, <2>1, AddStep DEF Forest!Next
<1>9. ASSUME NEW p \in live, NEW x \in Item, Detach(p, x)
      PROVE  Inv' /\ Forest!Next
  <2>1. x \in live
    BY <1>9, FoundIsLive DEF Detach
  <2>2. QED
    BY <1>9, <2>1, DetachStep DEF Forest!Next
<1>10. ASSUME NEW p \in live, NEW x \in Item, DeleteItem(p, x)
       PROVE  Inv' /\ Forest!Next
  <2>1. x \in live
    BY <1>10, FoundIsLive DEF DeleteItem
  <2>2. QED
    BY <1>10, <2>1, DeleteItemStep DEF Forest!Next
<1>11. ASSUME NEW p \in live, NEW x \in Item, NEW y \in live,
              AddItemReferenceToArray(p, y, x)
       PROVE  Inv' /\ Forest!Next
  <2>1. x \in Item \ live
    BY <1>11 DEF AddItemReferenceToArray, Fresh
  <2>2. QED
    BY <1>1, <1>11, <2>1, AddReferenceStep DEF Forest!Next
<1>12. ASSUME NEW p \in live, NEW x \in Item, NEW r \in held, ReplaceItem(p, x, r)
       PROVE  Inv' /\ Forest!Next
  <2>1. x \in live
    BY <1>12, FoundIsLive DEF ReplaceItem
  <2>2. heap.key[r] \in Key \cup {NULL}
    BY <1>1
  <2>3. QED
    BY <1>12, <2>1, <2>2, ReplaceStep DEF Forest!Next
<1>13. ASSUME NEW p \in live, NEW x \in Item, NEW i \in Index, InsertItemInArray(p, i, x)
       PROVE  Inv' /\ Forest!Next
  <2>1. x \in held
    BY <1>13 DEF InsertItemInArray
  <2>2. QED
    BY <1>13, <2>1, InsertStep DEF Forest!Next
<1>14. ASSUME NEW p \in live, NEW x \in Item, NEW k \in Key, AddNewToObject(p, k, x)
       PROVE  Inv' /\ Forest!Next
  <2>1. x \in Item \ live
    BY <1>14 DEF AddNewToObject, Fresh
  <2>2. QED
    BY <1>14, <2>1, AddNewStep DEF Forest!Next
<1>15. ASSUME NEW p \in live, NEW x \in Item, NEW k \in Key, NEW c \in BOOLEAN,
              AddItemToObject(p, k, x, c)
       PROVE  Inv' /\ Forest!Next
  <2>1. x \in held
    BY <1>15 DEF AddItemToObject
  <2>2. Inv' /\ Forest!Add(p, x, k)
    BY <1>15, AddNamedStep
  <2>3. QED
    BY <2>1, <2>2 DEF Forest!Next
<1>16. ASSUME NEW p \in live, NEW x \in Item, NEW k \in Key, NEW y \in live,
              AddItemReferenceToObject(p, k, y, x)
       PROVE  Inv' /\ Forest!Next
  <2>1. x \in Item \ live
    BY <1>16 DEF AddItemReferenceToObject, Fresh
  <2>2. QED
    BY <1>16, <2>1, AddNamedReferenceStep DEF Forest!Next
<1>17. ASSUME NEW p \in live, NEW x \in Item, NEW k \in Key, NEW c \in BOOLEAN,
              ReplaceItemInObject(p, k, c, x)
       PROVE  Inv' /\ Forest!Next
  <2>1. Inv' /\ x \in held /\ \E y \in live : Forest!Replace(p, y, x, k)
    BY <1>17, ReplaceNamedStep
  <2>2. QED
    BY <2>1 DEF Forest!Next
<1>18. ASSUME NEW p \in live, NEW x \in Item, NEW k \in Key, NEW c \in BOOLEAN,
              RenameOnly(p, k, c, x)
       PROVE  Inv' /\ Forest!Next
  <2>1. x \in held
    BY <1>18 DEF RenameOnly
  <2>2. Inv' /\ Forest!Rename(x, k)
    BY <1>18, RenameStep
  <2>3. QED
    BY <2>1, <2>2 DEF Forest!Next
<1>19. QED
  BY <1>2, <1>3, <1>4, <1>5, <1>6, <1>7, <1>8, <1>9, <1>10, <1>11, <1>12, <1>13,
     <1>14, <1>15, <1>16, <1>17, <1>18 DEF Next

\* The heap before the first call.
LEMMA InitIs ==
  ASSUME Init
  PROVE  Inv /\ Forest!Init
<1> DEFINE K == [x \in Item |-> <<>>]
           N == [x \in Item |-> NULL]
           R == [x \in Item |-> FALSE]
<1>1. /\ heap \in Heap /\ heap.live = {} /\ heap.next = N /\ heap.prev = N
      /\ heap.child = N /\ heap.ref = R /\ heap.const = R /\ heap.key = N
      /\ heap.strings = 0 /\ held = {} /\ lost = {}
  BY DEF Init, EmptyHeap, Heap, Pointer
<1>2. \A p \in Item : Chain(heap, p) = <<>>
  BY <1>1 DEF Chain
<1>3. KidsOf(heap) = K
  BY <1>2 DEF KidsOf
<1>4. Nested({}, R, K, {})
  <2>1. <<>> \in Seq(Item) /\ Distinct(<<>>) /\ Els(<<>>) = {}
    BY DEF Distinct, Els
  <2>2. Inside({}, R, K)
    BY <2>1 DEF Inside
  <2>3. Shared(R, K) /\ Free({}, K, {})
    BY <2>1 DEF Shared, Free
  <2>4. Reached({}, R, K, {})
    BY DEF Reached
  <2>5. QED
    BY <2>2, <2>3, <2>4 DEF Nested
<1>5. \A p \in Item : Linked(heap, p, K[p])
  BY <1>1 DEF Linked
<1>6. OthersBlank(heap)
  BY <1>1 DEF OthersBlank
<1>7. Counted(heap)
  <2>1. Owners(heap) = {}
    BY <1>1 DEF Owners
  <2>2. QED
    BY <1>1, <2>1, FS_EmptySet DEF Counted
<1>8. Forest!Init
  BY <1>1, <1>3 DEF Forest!Init, KidsOf, live
<1> HIDE DEF K, N, R
<1>9. Shape(heap, K, held)
  BY <1>1, <1>4, <1>5, <1>6 DEF Shape
<1>10. Inv
  BY <1>1, <1>3, <1>7, <1>9 DEF Inv
<1>11. QED
  BY <1>8, <1>10

\* A step that changes nothing.
LEMMA StutterStep ==
  ASSUME Inv, UNCHANGED vars
  PROVE  Inv'
<1>1. /\ Shape(heap', KidsOf(heap), held') /\ Counted(heap')
      /\ lost' \subseteq Item \ heap'.live
  BY DEF Inv, vars, live
<1>2. QED
  BY <1>1, InvStep

\* The pointers draw sequences of children, names are counted and lost memory
\* is not used, in every state that the calls of lib/cjson reach.
THEOREM Safe == Spec => []Inv
<1>1. Init => Inv
  BY InitIs
<1>2. Inv /\ [Next]_vars => Inv'
  BY NextStep, StutterStep
<1>3. QED
  BY <1>1, <1>2, PTL DEF Spec
-----------------------------------------------------------------------------
(***************************************************************************)
(* What follows for the program.                                           *)
(***************************************************************************)
\* The children of an item.
LEMMA ChildrenAre ==
  ASSUME Inv, NEW p \in live
  PROVE  Children(p) = Els(KidsOf(heap)[p])
<1> DEFINE K == KidsOf(heap)
<1>1. Shape(heap, K, held) /\ p \in Item /\ K \in [Item -> Seq(Item)]
  BY InvIs
<1> HIDE DEF K
<1>2. Chain(heap, p) = K[p] /\ DOMAIN K[p] = 1 .. Len(K[p])
  BY <1>1, ChainIs
<1>3. QED
  BY <1>2 DEF Children, Els, K

\* Every item that the program can reach is one of the pool, what it holds is
\* reachable, and what it lost is not.
THEOREM TypeCorrect == Spec => []TypeOK
<1>1. Inv => TypeOK
  BY InvIs DEF TypeOK, Inv
<1>2. QED
  BY <1>1, Safe, PTL

\* After any calls of lib/cjson the children of an item are a chain that is
\* linked both ways, and chains do not meet.
THEOREM WellLinkedAlways == Spec => []ChainsWellLinked
<1>1. ASSUME Inv
      PROVE  ChainsWellLinked
  <2> DEFINE K == KidsOf(heap)
  <2>1. /\ Shape(heap, K, held) /\ live \subseteq Item /\ K \in [Item -> Seq(Item)]
        /\ Inside(live, heap.ref, K) /\ Shared(heap.ref, K) /\ Free(live, K, held)
    BY <1>1, InvIs DEF Nested
  <2>2. \A p \in live : Children(p) = Els(K[p])
    BY <1>1, ChildrenAre
  <2> HIDE DEF K
  <2>3. ASSUME NEW p \in live
        PROVE  \E s \in Chains : IsChain(heap, p, s) /\ WellLinked(p, s)
    <3> DEFINE s == K[p]
    <3>1. /\ s \in Seq(Item) /\ Distinct(s) /\ Linked(heap, p, s) /\ Els(s) \subseteq live
          /\ DOMAIN s = 1 .. Len(s)
      BY <2>1 DEF Shape, Inside
    <3> HIDE DEF s
    <3>2. s \in Chains
      BY <3>1, DistinctIsChain
    <3>3. IsChain(heap, p, s)
      BY <3>1 DEF Linked, IsChain
    <3>4. WellLinked(p, s)
      BY <3>1 DEF Linked, WellLinked, Els
    <3>5. QED
      BY <3>2, <3>3, <3>4
  <2>4. \A x \in held : heap.next[x] = NULL /\ heap.prev[x] = NULL
    BY <2>1 DEF Shape
  <2>5. \A p \in live : Children(p) \cap held = {}
    BY <2>1, <2>2 DEF Free
  <2>6. ASSUME NEW p \in live, NEW q \in live
        PROVE  \/ p = q
               \/ Children(p) \cap Children(q) = {}
               \/ (heap.ref[p] \/ heap.ref[q]) /\ Children(p) = Children(q)
    <3>1. Children(p) = Els(K[p]) /\ Children(q) = Els(K[q]) /\ p \in Item /\ q \in Item
      BY <2>1, <2>2
    <3>2. \/ p = q \/ Els(K[p]) \cap Els(K[q]) = {}
          \/ (heap.ref[p] \/ heap.ref[q]) /\ K[p] = K[q]
      BY <2>1, <3>1 DEF Shared
    <3>3. QED
      BY <3>1, <3>2
  <2>7. QED
    BY <2>3, <2>4, <2>5, <2>6 DEF ChainsWellLinked
<1>2. QED
  BY <1>1, Safe, PTL

\* No call forgets an item: deleting what the program holds frees everything.
THEOREM NothingLost == Spec => []NothingForgotten
<1>1. ASSUME Inv
      PROVE  NothingForgotten
  <2> DEFINE K == KidsOf(heap)
             U == UNION {Below(heap, r) : r \in held}
  <2>1. /\ Shape(heap, K, held) /\ Nested(live, heap.ref, K, held) /\ held \subseteq live
        /\ Inside(live, heap.ref, K) /\ \A r \in held : heap.next[r] = NULL
    BY <1>1, InvIs DEF Nested, Shape
  <2> HIDE DEF K
  <2>2. ASSUME NEW r \in held
        PROVE  /\ Below(heap, r) \subseteq live /\ r \in Below(heap, r)
               /\ Closed(heap.ref, K, Below(heap, r))
    <3>1. r \in live /\ r \in heap.live
      BY <2>1 DEF live
    <3>2. Below(heap, r) = Sub(live, heap.ref, K, r)
      BY <2>1, <3>1, BelowIs DEF live
    <3>3. QED
      BY <2>1, <3>1, <3>2, SubClosed
  <2>3. U \subseteq live /\ held \subseteq U
    BY <2>2
  <2>4. Closed(heap.ref, K, U)
    <3>1. ASSUME NEW y \in U, ~heap.ref[y]
          PROVE  Els(K[y]) \subseteq U
      <4>1. PICK r \in held : y \in Below(heap, r)
        OBVIOUS
      <4>2. Els(K[y]) \subseteq Below(heap, r)
        BY <2>2, <3>1, <4>1 DEF Closed
      <4>3. QED
        BY <4>2
    <3> HIDE DEF U
    <3>2. QED
      BY <3>1 DEF Closed
  <2>5. U = live
    <3> HIDE DEF U
    <3>1. QED
      BY <2>1, <2>3, <2>4 DEF Nested, Reached
  <2>6. QED
    BY <2>5 DEF NothingForgotten
<1>2. QED
  BY <1>1, Safe, PTL

\* The copies of names that are not freed are those of live items.
THEOREM NamesCounted == Spec => []NamesAccounted
<1>1. Inv => NamesAccounted
  BY DEF Inv, Counted, Owners, NamesAccounted, live
<1>2. QED
  BY <1>1, Safe, PTL

\* Every change of pointers is the change of sequences that the calls promise.
THEOREM Implements == Spec => ImplementsForest
<1>1. Init => Forest!Init
  BY InitIs
<1>2. Inv /\ [Next]_vars => [Forest!Next]_(Forest!vars)
  <2>1. ASSUME UNCHANGED <<heap, held>>
        PROVE  UNCHANGED Forest!vars
    BY <2>1 DEF Forest!vars, live
  <2>2. UNCHANGED vars => UNCHANGED <<heap, held>>
    BY DEF vars
  <2>3. Inv /\ Next => Forest!Next \/ UNCHANGED <<heap, held>>
    BY NextStep
  <2>4. QED
    BY <2>1, <2>2, <2>3
<1>3. QED
  BY <1>1, <1>2, Safe, PTL DEF Spec, ImplementsForest, Forest!Spec
=============================================================================
