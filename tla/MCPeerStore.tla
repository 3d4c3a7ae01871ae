----------------------------- MODULE MCPeerStore -----------------------------
(***************************************************************************)
(* Instances of PeerStore: three slots, of which 1 is the next of 0 and 2  *)
(* is the last, and three info_hashes, of which two collide.               *)
(***************************************************************************)
EXTENDS PeerStore

CONSTANTS k1, k2, k3

Keys == {k1, k2, k3}
AllKeys == 0 .. KEY_MOD - 1

CollidingHash == [k \in Keys |-> IF k = k1 THEN 0 ELSE 2]
=============================================================================
