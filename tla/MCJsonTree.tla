----------------------------- MODULE MCJsonTree -----------------------------
(***************************************************************************)
(* Four items and one name; items without one are there as well.           *)
(***************************************************************************)
EXTENDS JsonTree, TLC

OneName == [k \in Key |-> "k"]
Symmetric == Permutations(Item)
=============================================================================
