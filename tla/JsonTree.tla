------------------------------ MODULE JsonTree ------------------------------
(***************************************************************************)
(* A program that builds, changes and deletes trees with the calls of      *)
(* lib/cjson, one call after the other.  held is what belongs to the       *)
(* program itself: what a create or detach call answered and no add call   *)
(* has taken over.  lost are the items that are allocated still but that   *)
(* nobody has a pointer to.                                                *)
(*                                                                         *)
(* The program keeps the rules the interface lives by: it passes pointers  *)
(* to items that exist, adds only items it holds and never an item below   *)
(* itself, deletes only what it holds, and neither changes nor deletes     *)
(* children that a reference elsewhere shows.                              *)
(*                                                                         *)
(* Memory may run out in every call.  A call that then answers NULL or     *)
(* false without a trace is a stuttering step; the ones that leave one are *)
(* actions.                                                                *)
(***************************************************************************)
EXTENDS JsonHeap

VARIABLES heap, held, lost
vars == <<heap, held, lost>>

live == heap.live
Fresh == Item \ (live \cup lost)
Children(p) == LET s == Chain(heap, p) IN {s[i] : i \in DOMAIN s}

\* No reference shows the children of p.
Unshared(p) ==
  /\ ~heap.ref[p]
  /\ \A r \in live : heap.ref[r] /\ heap.child[r] # NULL
                       => heap.child[r] # heap.child[p]

\* No reference outside of the tree below x shows children inside of it.
Deletable(x) ==
  LET D == Tree(heap, x)
  IN \A r \in live : heap.ref[r] /\ heap.child[r] \in D => r \in D

\* The rules for adding x to p.
MayAdd(p, x) == Unshared(p) /\ p \in live \ Tree(heap, x)
-----------------------------------------------------------------------------
Init == heap = EmptyHeap /\ held = {} /\ lost = {}

\* cJSON_CreateNull and its like; a string that cannot be copied takes its
\* item with it.
Create(x) ==
  /\ x \in Fresh
  /\ heap' = cJSON_New_Item(heap, x)
  /\ held' = held \cup {x}
  /\ UNCHANGED lost

\* cJSON_CreateArrayReference and cJSON_CreateObjectReference, given p->child.
CreateReference(x, p) ==
  /\ x \in Fresh /\ p \in live
  /\ heap' = [cJSON_New_Item(heap, x) EXCEPT !.child[x] = heap.child[p],
                                             !.ref[x] = TRUE]
  /\ held' = held \cup {x}
  /\ UNCHANGED lost

\* cJSON_CreateIntArray and its like.
CreateArray(a, s) ==
  /\ a \in Fresh /\ \A i \in DOMAIN s : s[i] \in Fresh \ {a}
  /\ heap' = CreateArrayOf(heap, a, s)
  /\ held' = held \cup {a}
  /\ UNCHANGED lost

AddItemToArray(p, x) ==
  /\ x \in held /\ MayAdd(p, x)
  /\ heap' = add_item_to_array(heap, p, x)
  /\ held' = held \ {x}
  /\ UNCHANGED lost

\* cJSON_AddItemToObject, and with c cJSON_AddItemToObjectCS.
AddItemToObject(p, k, x, c) ==
  /\ x \in held /\ MayAdd(p, x)
  /\ heap' = add_item_to_object(heap, p, k, x, c)
  /\ held' = held \ {x}
  /\ UNCHANGED lost

AddItemReferenceToArray(p, y, x) ==
  /\ x \in Fresh /\ y \in live /\ MayAdd(p, y)
  /\ heap' = add_item_to_array(create_reference(heap, y, x), p, x)
  /\ UNCHANGED <<held, lost>>

AddItemReferenceToObject(p, k, y, x) ==
  /\ x \in Fresh /\ y \in live /\ MayAdd(p, y)
  /\ heap' = add_item_to_object(create_reference(heap, y, x), p, k, x, FALSE)
  /\ UNCHANGED <<held, lost>>

\* The name cannot be copied: the reference made for the call is neither
\* added nor freed, and no pointer to it is left.
LoseReference(x) ==
  /\ x \in Fresh /\ live # {}
  /\ lost' = lost \cup {x}
  /\ UNCHANGED <<heap, held>>

\* cJSON_AddNullToObject and its like.
AddNewToObject(p, k, x) ==
  /\ x \in Fresh /\ p \in live /\ Unshared(p)
  /\ heap' = add_item_to_object(cJSON_New_Item(heap, x), p, k, x, FALSE)
  /\ UNCHANGED <<held, lost>>

\* The child a call finds by its index or by its name; the program can have
\* got the pointer from the same lookups.
Index == 0..Cardinality(Item)
Found(p) ==
  ({get_array_item(heap, p, i) : i \in Index}
     \cup {get_object_item(heap, p, k, s) : k \in Key, s \in BOOLEAN}) \ {NULL}

\* cJSON_DetachItemViaPointer, FromArray, FromObject and FromObjectCaseSensitive.
Detach(p, x) ==
  /\ x \in Found(p) /\ Unshared(p)
  /\ heap' = cJSON_DetachItemViaPointer(heap, p, x)
  /\ held' = held \cup {x}
  /\ UNCHANGED lost

\* The calls that detach an item and delete it.
DeleteItem(p, x) ==
  /\ x \in Found(p) /\ Unshared(p) /\ Deletable(x)
  /\ heap' = cJSON_Delete(cJSON_DetachItemViaPointer(heap, p, x), x)
  /\ UNCHANGED <<held, lost>>

InsertItemInArray(p, i, x) ==
  /\ x \in held /\ MayAdd(p, x)
  /\ heap' = cJSON_InsertItemInArray(heap, p, get_array_item(heap, p, i), x)
  /\ held' = held \ {x}
  /\ UNCHANGED lost

\* cJSON_ReplaceItemViaPointer and InArray: r takes the place of x.
ReplaceItem(p, x, r) ==
  /\ x \in Found(p) /\ r \in held /\ MayAdd(p, r) /\ Deletable(x)
  /\ heap' = cJSON_Delete(ReplaceLinks(heap, p, x, r), x)
  /\ held' = held \ {r}
  /\ UNCHANGED lost

\* cJSON_ReplaceItemInObject: r first gets a copy of the name.
ReplaceItemInObject(p, k, s, r) ==
  LET x == get_object_item(heap, p, k, s) IN
  /\ x # NULL /\ r \in held /\ MayAdd(p, r) /\ Deletable(x)
  /\ heap' = cJSON_Delete(ReplaceLinks(set_key(heap, r, k, FALSE), p, x, r), x)
  /\ held' = held \ {r}
  /\ UNCHANGED lost

\* There is no item k, or no memory for the name: r stays with the program,
\* but renamed or without a name.
RenameOnly(p, k, s, r) ==
  /\ r \in held /\ p \in live
  /\ get_object_item(heap, p, k, s) = NULL
  /\ heap' = set_key(heap, r, k, FALSE)
  /\ UNCHANGED <<held, lost>>

NameLost(r) ==
  /\ r \in held /\ live # {r}
  /\ heap' = clear_key(heap, r)
  /\ UNCHANGED <<held, lost>>

Delete(x) ==
  /\ x \in held /\ Deletable(x)
  /\ heap' = cJSON_Delete(heap, x)
  /\ held' = held \ {x}
  /\ UNCHANGED lost
-----------------------------------------------------------------------------
Next ==
  \/ \E x \in Item :
       Create(x) \/ LoseReference(x) \/ NameLost(x) \/ Delete(x)
  \/ \E a \in Item, s \in Chains : CreateArray(a, s)
  \/ \E p \in live, x \in Item :
       \/ CreateReference(x, p)
       \/ AddItemToArray(p, x)
       \/ Detach(p, x) \/ DeleteItem(p, x)
       \/ \E y \in live : AddItemReferenceToArray(p, y, x)
       \/ \E r \in held : ReplaceItem(p, x, r)
       \/ \E i \in Index : InsertItemInArray(p, i, x)
       \/ \E k \in Key : \/ AddNewToObject(p, k, x)
                         \/ \E c \in BOOLEAN : AddItemToObject(p, k, x, c)
                         \/ \E y \in live : AddItemReferenceToObject(p, k, y, x)
                         \/ \E s \in BOOLEAN : \/ ReplaceItemInObject(p, k, s, x)
                                               \/ RenameOnly(p, k, s, x)

Spec == Init /\ [][Next]_vars
-----------------------------------------------------------------------------
TypeOK == heap \in Heap /\ held \subseteq live /\ lost \subseteq Item \ live

\* The chain s of p can be walked both ways and appended to.
WellLinked(p, s) ==
  /\ \A i \in DOMAIN s : s[i] \in live
  /\ \A i \in DOMAIN s : heap.prev[s[i]] = IF i = 1 THEN s[Len(s)] ELSE s[i - 1]

\* Whatever calls have been made, the children of every item are a chain of
\* different live items that is linked in both directions and ends, the items
\* the program holds are in no chain, and no item is in two chains, except
\* that a reference shows the whole chain of its original.
ChainsWellLinked ==
  /\ \A p \in live : \E s \in Chains : IsChain(heap, p, s) /\ WellLinked(p, s)
  /\ \A x \in held : heap.next[x] = NULL /\ heap.prev[x] = NULL
  /\ \A p \in live : Children(p) \cap held = {}
  /\ \A p, q \in live : \/ p = q
                        \/ Children(p) \cap Children(q) = {}
                        \/ (heap.ref[p] \/ heap.ref[q]) /\ Children(p) = Children(q)

\* Every live item is below one that the program holds, so the program can
\* delete it: no call unlinks an item without answering or deleting it.  The
\* one item this does not speak of is the reference that LoseReference leaves
\* allocated: it is not live but lost, and NothingLeaks finds it.
NothingForgotten == \A x \in live : \E r \in held : x \in Below(heap, r)

\* cJSON.h:163-165 leaves it to the caller to free what the calls have made:
\* a program that has deleted all that it holds has left nothing allocated.
NothingLeaks == held = {} => live \cup lost = {}

\* The copies of names that are not freed are those that the live items own,
\* through every change between copied and constant names.
NamesAccounted == heap.strings = Cardinality({x \in live : OwnsKey(heap, x)})

Forest == INSTANCE JsonForest WITH
  nodes <- live, roots <- held, key <- heap.key, ref <- heap.ref,
  kids <- [p \in Item |-> Chain(heap, p)]

\* The changes of pointers are the changes of sequences that the calls
\* promise, and leave the children of every other item as they were.
ImplementsForest == Forest!Spec
=============================================================================
