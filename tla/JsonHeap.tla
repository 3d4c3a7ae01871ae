------------------------------ MODULE JsonHeap ------------------------------
(***************************************************************************)
(* The items of lib/cjson and their links.  The children of an array or    *)
(* object are a chain: child points at the first one, next at the          *)
(* following one and is NULL in the last, prev at the preceding one; the   *)
(* prev of the first points at the last, so that appending needs no walk.  *)
(*                                                                         *)
(* A heap is a record h.  live is the set of items the program can still   *)
(* reach; ref and const are the bits cJSON_IsReference and                 *)
(* cJSON_StringIsConst of type; key is the member name called string in    *)
(* the source, and strings counts the copies of names that cJSON_strdup    *)
(* made and nobody freed.  Names are elements of Key; Fold[k] is what a    *)
(* name becomes under tolower.                                             *)
(***************************************************************************)
EXTENDS Integers, Sequences, FiniteSets

CONSTANTS Item, Key, Fold, NULL

ASSUME ItemAssumption == IsFiniteSet(Item) /\ NULL \notin Item
ASSUME KeyAssumption == NULL \notin Key

Pointer == Item \cup {NULL}

Heap == [live : SUBSET Item, next : [Item -> Pointer], prev : [Item -> Pointer],
         child : [Item -> Pointer], ref : [Item -> BOOLEAN],
         const : [Item -> BOOLEAN], key : [Item -> Key \cup {NULL}],
         strings : Int]

EmptyHeap ==
  LET Null == [x \in Item |-> NULL]
      No == [x \in Item |-> FALSE]
  IN [live |-> {}, next |-> Null, prev |-> Null, child |-> Null, ref |-> No,
      const |-> No, key |-> Null, strings |-> 0]

\* The sequences of different items.
Chains ==
  UNION {{s \in [1..n -> Item] : \A i, j \in 1..n : s[i] = s[j] => i = j}
           : n \in 0..Cardinality(Item)}

\* Following next from the child of p meets s and ends there.
IsChain(h, p, s) ==
  /\ h.child[p] = IF s = <<>> THEN NULL ELSE s[1]
  /\ \A i \in DOMAIN s : h.next[s[i]] = IF i = Len(s) THEN NULL ELSE s[i + 1]

\* The loops over the children of p, which all run along next.
Chain(h, p) ==
  IF h.child[p] = NULL THEN <<>> ELSE CHOOSE s \in Chains : IsChain(h, p, s)

get_array_item(h, p, i) ==
  LET s == Chain(h, p) IN IF i + 1 \in DOMAIN s THEN s[i + 1] ELSE NULL

\* The case-sensitive loop also ends at a child without a name.
StopsAt(h, x, k, sensitive) ==
  IF sensitive THEN h.key[x] \in {k, NULL}
  ELSE h.key[x] # NULL /\ Fold[h.key[x]] = Fold[k]

get_object_item(h, p, k, sensitive) ==
  LET s == Chain(h, p)
      stops == {i \in DOMAIN s : StopsAt(h, s[i], k, sensitive)}
      first == CHOOSE i \in stops : \A j \in stops : i <= j
  IN IF stops = {} THEN NULL
     ELSE IF h.key[s[first]] = NULL THEN NULL ELSE s[first]

-----------------------------------------------------------------------------
\* The heap with the fields of the items in S zeroed.
Blank(h, S) ==
  LET Zero(f, z) == [x \in Item |-> IF x \in S THEN z ELSE f[x]]
  IN [h EXCEPT !.next = Zero(@, NULL), !.prev = Zero(@, NULL),
               !.child = Zero(@, NULL), !.key = Zero(@, NULL),
               !.ref = Zero(@, FALSE), !.const = Zero(@, FALSE)]

\* malloc and memset.
cJSON_New_Item(h, x) == [Blank(h, {x}) EXCEPT !.live = @ \cup {x}]

suffix_object(h, p, x) == [h EXCEPT !.next[p] = x, !.prev[x] = p]

\* The next of x is not touched when the chain has a first item already.
add_item_to_array(h, p, x) ==
  LET c == h.child[p] IN
  IF c = NULL
    THEN [h EXCEPT !.child[p] = x, !.prev[x] = x, !.next[x] = NULL]
    ELSE IF h.prev[c] = NULL THEN h
         ELSE [suffix_object(h, h.prev[c], x) EXCEPT !.prev[c] = x]

\* Whether x owns a copy of its name.
OwnsKey(h, x) == ~h.const[x] /\ h.key[x] # NULL

\* Slip: the old name is freed only if the new one is a copy as well.
set_keyLeaking(h, x, k, c) ==
  [h EXCEPT !.key[x] = k, !.const[x] = c,
            !.strings = IF c THEN @ ELSE @ + 1 - (IF OwnsKey(h, x) THEN 1 ELSE 0)]

\* The old name is freed if it is a copy; the new one is a copy if c is FALSE.
set_key(h, x, k, c) ==
  [h EXCEPT !.key[x] = k, !.const[x] = c,
            !.strings = @ - (IF OwnsKey(h, x) THEN 1 ELSE 0)
                          + (IF c THEN 0 ELSE 1)]

\* The name of x is freed, and no memory is left for the new one.
clear_key(h, x) ==
  [h EXCEPT !.key[x] = NULL,
            !.strings = @ - (IF OwnsKey(h, x) THEN 1 ELSE 0)]

add_item_to_object(h, p, k, x, c) == add_item_to_array(set_key(h, x, k, c), p, x)

\* memcpy of y into the new item x, which then points at the children of y.
create_reference(h, y, x) ==
  [cJSON_New_Item(h, x) EXCEPT !.child[x] = h.child[y], !.const[x] = h.const[y],
                               !.ref[x] = TRUE]

\* A new array a and its new children s, linked one after the other.
CreateArrayOf(h, a, s) ==
  LET kids == {s[i] : i \in DOMAIN s}
      index(x) == CHOOSE i \in DOMAIN s : s[i] = x
      new == Blank(h, {a} \cup kids)
  IN [new EXCEPT
       !.live = @ \cup {a} \cup kids,
       !.child[a] = IF s = <<>> THEN NULL ELSE s[1],
       !.next = [x \in Item |-> IF x \in kids /\ index(x) < Len(s)
                                  THEN s[index(x) + 1] ELSE @[x]],
       !.prev = [x \in Item |-> IF x \notin kids THEN @[x]
                                ELSE IF index(x) = 1 THEN s[Len(s)]
                                ELSE s[index(x) - 1]]]

\* Slip: the item keeps the link to the child that followed it.
DetachKeepingNext(h, p, x) ==
  LET first == x = h.child[p]
      last == h.next[x] = NULL
      h1 == IF first THEN h ELSE [h EXCEPT !.next[h.prev[x]] = h.next[x]]
      h2 == IF last THEN h1 ELSE [h1 EXCEPT !.prev[h1.next[x]] = h1.prev[x]]
  IN IF first THEN [h2 EXCEPT !.child[p] = h2.next[x], !.prev[x] = NULL]
     ELSE IF last THEN [h2 EXCEPT !.prev[h2.child[p]] = h2.prev[x], !.prev[x] = NULL]
     ELSE [h2 EXCEPT !.prev[x] = NULL]

\* Slip: when the last child goes, the first one still has it for its prev.
DetachKeepingTail(h, p, x) ==
  LET first == x = h.child[p]
      h1 == IF first THEN [h EXCEPT !.child[p] = h.next[x]]
            ELSE [h EXCEPT !.next[h.prev[x]] = h.next[x]]
      h2 == IF h.next[x] = NULL THEN h1
            ELSE [h1 EXCEPT !.prev[h.next[x]] = h.prev[x]]
  IN [h2 EXCEPT !.prev[x] = NULL, !.next[x] = NULL]

cJSON_DetachItemViaPointer(h, p, x) ==
  LET first == x = h.child[p]
      last == h.next[x] = NULL
      h1 == IF first THEN h ELSE [h EXCEPT !.next[h.prev[x]] = h.next[x]]
      h2 == IF last THEN h1 ELSE [h1 EXCEPT !.prev[h1.next[x]] = h1.prev[x]]
      h3 == IF first THEN [h2 EXCEPT !.child[p] = h2.next[x]]
            ELSE IF last THEN [h2 EXCEPT !.prev[h2.child[p]] = h2.prev[x]]
            ELSE h2
  IN IF ~first /\ h.prev[x] = NULL THEN h
     ELSE [h3 EXCEPT !.prev[x] = NULL, !.next[x] = NULL]

\* Slip: only a new first child is linked to from what precedes it.
InsertUnlinked(h, p, a, x) ==
  IF a = NULL THEN add_item_to_array(h, p, x)
  ELSE LET h1 == [h EXCEPT !.next[x] = a, !.prev[x] = h.prev[a], !.prev[a] = x]
       IN IF a = h1.child[p] THEN [h1 EXCEPT !.child[p] = x] ELSE h1

\* x is put in front of the child a of p, or at the end when there is no a.
cJSON_InsertItemInArray(h, p, a, x) ==
  IF a = NULL THEN add_item_to_array(h, p, x)
  ELSE IF a # h.child[p] /\ h.prev[a] = NULL THEN h
  ELSE LET h1 == [h EXCEPT !.next[x] = a, !.prev[x] = h.prev[a], !.prev[a] = x]
       IN IF a = h1.child[p] THEN [h1 EXCEPT !.child[p] = x]
          ELSE [h1 EXCEPT !.next[h1.prev[x]] = x]

\* r takes the place of the child x of p; x is not deleted yet.
ReplaceLinks(h, p, x, r) ==
  LET h1 == [h EXCEPT !.next[r] = h.next[x], !.prev[r] = h.prev[x]]
      h2 == IF h1.next[r] = NULL THEN h1 ELSE [h1 EXCEPT !.prev[h1.next[r]] = r]
      only == h2.prev[x] = x
      h3 == IF h2.child[p] = x
              THEN [h2 EXCEPT !.prev[r] = IF only THEN r ELSE @, !.child[p] = r]
            ELSE LET g == IF h2.prev[r] = NULL THEN h2
                          ELSE [h2 EXCEPT !.next[h2.prev[r]] = r]
                 IN IF g.next[r] = NULL THEN [g EXCEPT !.prev[g.child[p]] = r]
                    ELSE g
  IN [h3 EXCEPT !.next[x] = NULL, !.prev[x] = NULL]

\* Slip: the children of a reference are deleted with it.
IsClosedThroughReferences(h, S) ==
  \A y \in S : /\ h.next[y] # NULL => h.next[y] \in S
               /\ h.child[y] # NULL => h.child[y] \in S

\* What cJSON_Delete visits from x: the chain from there on, and below every
\* item that is no reference its children.
IsClosed(h, S) ==
  \A y \in S : /\ h.next[y] # NULL => h.next[y] \in S
               /\ ~h.ref[y] /\ h.child[y] # NULL => h.child[y] \in S

Below(h, x) ==
  LET closed == {S \in SUBSET h.live : x \in S /\ IsClosed(h, S)}
  IN {y \in h.live : \A S \in closed : y \in S}

\* x and what is below it, without the items that follow x in its chain.
Tree(h, x) ==
  IF h.ref[x] \/ h.child[x] = NULL THEN {x} ELSE {x} \cup Below(h, h.child[x])

\* Nobody reads freed memory, and its contents are forgotten.
cJSON_Delete(h, x) ==
  LET D == Below(h, x) IN
  [Blank(h, D) EXCEPT
     !.live = @ \ D,
     !.strings = @ - Cardinality({y \in D : OwnsKey(h, y)})]
=============================================================================
