---------------------------- MODULE MCP2PNetwork ----------------------------
(***************************************************************************)
(* Instances of P2PNetwork around the nodes of test/main.c: the peers      *)
(* p6969 and p4209 have no neighbors, n3000 -> n3001 -> n3002, and n3002   *)
(* has two neighbors and hence the two peers in its table.  The client of  *)
(* descriptor.json, c1, asks n3001.                                        *)
(***************************************************************************)
EXTENDS P2PNetwork

CONSTANTS p6969, p4209, n3000, n3001, n3002, c1, c2, c3, f13, f99

TwoPeers == <<p6969, p4209>>

Harness ==
  n3000 :> <<n3001>> @@ n3001 :> <<n3002>> @@ n3002 :> <<n3000, n3001>>
  @@ p6969 :> <<>> @@ p4209 :> <<>> @@ c1 :> <<n3001>>

\* c2 asks a peer that c1 joins, c3 asks c2.
HarnessNeighbors ==
  [n \in Node |-> (Harness @@ c2 :> <<p6969>> @@ c3 :> <<c2>>)[n]]

\* c1 asks the seeded node, c2 a peer that c1 joins.
DirectNeighbors ==
  [n \in Node |-> (n3002 :> <<c1, c2>> @@ c1 :> <<n3002>> @@ c2 :> <<p6969>>
                   @@ p6969 :> <<>> @@ p4209 :> <<>>)[n]]

\* Two nodes that know each other, and nobody who was seeded.
PairNeighbors ==
  [n \in Node |-> (n3000 :> <<n3001>> @@ n3001 :> <<n3000>>
                   @@ c1 :> <<n3000>> @@ p6969 :> <<>> @@ p4209 :> <<>>)[n]]

Keys == {f13, f99}
Hashes == f13 :> 1 @@ f99 :> 0
OneSlot == [k \in Keys |-> 0]
SameFile == [n \in Node |-> f13]
ClientsOwnFile == [n \in Node |-> IF n \in Client THEN f99 ELSE f13]

NoFaults == [f \in Faults |-> 0]
OneOfEach == [f \in Faults |-> 1]
Timeouts(k) == [NoFaults EXCEPT !["timeout"] = k]
CrashAndTimeout == [OneOfEach EXCEPT !["loss"] = 0, !["dup"] = 0]
TwoTimeouts == Timeouts(2)
ThreeTimeouts == Timeouts(3)
=============================================================================
