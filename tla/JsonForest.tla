----------------------------- MODULE JsonForest -----------------------------
(***************************************************************************)
(* What the calls on a tree of lib/cjson promise: the children of an item  *)
(* are a sequence that a call appends to, inserts in, removes from or      *)
(* replaces in at one place, a removed child is the caller's again with    *)
(* everything below it, and a deleted one is gone with everything below    *)
(* it.  A reference shows the children its original had.                   *)
(***************************************************************************)
EXTENDS Integers, Sequences, FiniteSets

CONSTANTS Item, Key, NULL
VARIABLES
  nodes,  \* the items that exist
  kids,   \* the sequence of children of each item
  key,    \* the name of each item, or NULL
  ref,    \* whether an item is a reference
  roots   \* the items that belong to the caller itself
vars == <<nodes, kids, key, ref, roots>>

Range(s) == {s[i] : i \in DOMAIN s}

Init ==
  /\ nodes = {} /\ roots = {}
  /\ kids = [x \in Item |-> <<>>]
  /\ key = [x \in Item |-> NULL]
  /\ ref = [x \in Item |-> FALSE]

\* x and everything below it, without what a reference only shows.
Tree(x) ==
  LET closed == {S \in SUBSET nodes :
                   x \in S /\ \A z \in S : ~ref[z] => Range(kids[z]) \subseteq S}
  IN {y \in nodes : \A S \in closed : y \in S}

\* s with x between the first i and the others.
Between(s, i, x) == SubSeq(s, 1, i) \o <<x>> \o SubSeq(s, i + 1, Len(s))
Without(s, i) == SubSeq(s, 1, i - 1) \o SubSeq(s, i + 1, Len(s))

\* The items in D are gone, and the others have these children and names.
Forget(D, newKids, newKey) ==
  /\ nodes' = nodes \ D
  /\ ref' = [x \in Item |-> x \notin D /\ ref[x]]
  /\ key' = [x \in Item |-> IF x \in D THEN NULL ELSE newKey[x]]
  /\ kids' = [x \in Item |-> IF x \in D THEN <<>> ELSE newKids[x]]

\* A new item for the caller, with new children or those of an original.
Create(x) ==
  /\ roots' = roots \cup {x}
  /\ UNCHANGED <<key, ref>>
  /\ \E n \in 0..Cardinality(Item) : \E s \in [1..n -> Item \ (nodes \cup {x})] :
       /\ nodes' = nodes \cup {x} \cup Range(s)
       /\ \A i, j \in 1..n : s[i] = s[j] => i = j
       /\ kids' = [kids EXCEPT ![x] = s]

Refer(x, y) ==
  /\ roots' = roots \cup {x}
  /\ nodes' = nodes \cup {x}
  /\ ref' = [ref EXCEPT ![x] = TRUE]
  /\ UNCHANGED key
  /\ kids' = [kids EXCEPT ![x] = kids[y]]

\* One of the caller's items, or a new one, becomes the last child of p.
Add(p, x, k) ==
  /\ roots' = roots \ {x}
  /\ nodes' = nodes \cup {x}
  /\ key' = [key EXCEPT ![x] = k]
  /\ UNCHANGED ref
  /\ kids' = [kids EXCEPT ![p] = Append(@, x)]

\* One of the caller's items becomes a child of p at a place of its choice.
Insert(p, x) ==
  /\ roots' = roots \ {x}
  /\ UNCHANGED <<nodes, key, ref>>
  /\ \E i \in 0..Len(kids[p]) : kids' = [kids EXCEPT ![p] = Between(@, i, x)]

AddReference(p, y, x, k) ==
  /\ UNCHANGED roots
  /\ nodes' = nodes \cup {x}
  /\ key' = [key EXCEPT ![x] = k]
  /\ ref' = [ref EXCEPT ![x] = TRUE]
  /\ kids' = [kids EXCEPT ![p] = Append(@, x), ![x] = kids[y]]

\* The child x of p is the caller's, or is deleted.
Detach(p, x) ==
  /\ roots' = roots \cup {x}
  /\ UNCHANGED <<nodes, key, ref>>
  /\ \E i \in DOMAIN kids[p] :
       kids[p][i] = x /\ kids' = [kids EXCEPT ![p] = Without(@, i)]

Remove(p, x) ==
  /\ UNCHANGED roots /\ x \notin nodes'
  /\ \E i \in DOMAIN kids[p] :
       kids[p][i] = x /\ Forget(Tree(x), [kids EXCEPT ![p] = Without(@, i)], key)

Replace(p, x, r, k) ==
  /\ roots' = roots \ {r} /\ x \notin nodes' /\ key'[r] = k
  /\ \E i \in DOMAIN kids[p] :
       kids[p][i] = x /\ Forget(Tree(x), [kids EXCEPT ![p][i] = r],
                                [key EXCEPT ![r] = k])

Rename(x, k) ==
  UNCHANGED <<nodes, roots, ref>> /\ key' = [key EXCEPT ![x] = k] /\ UNCHANGED kids

Delete(x) == roots' = roots \ {x} /\ Forget(Tree(x), kids, key)

Next ==
  \/ \E x \in Item \ nodes :
       \/ Create(x)
       \/ \E y \in nodes : Refer(x, y)
       \/ \E p, y \in nodes, k \in Key \cup {NULL} : AddReference(p, y, x, k)
  \/ \E p \in nodes, x \in (Item \ nodes) \cup roots, k \in Key \cup {NULL} :
       Add(p, x, k)
  \/ \E p \in nodes, x \in roots : Insert(p, x)
  \/ \E p, x \in nodes :
       \/ Detach(p, x) \/ Remove(p, x)
       \/ \E r \in roots, k \in Key \cup {NULL} : Replace(p, x, r, k)
  \/ \E x \in roots : Delete(x) \/ \E k \in Key \cup {NULL} : Rename(x, k)

Spec == Init /\ [][Next]_vars
=============================================================================
