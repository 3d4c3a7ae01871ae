------------------------------ MODULE PeerStore ------------------------------
(***************************************************************************)
(* One peer table and one caller: the operations of peers.c in any order.  *)
(* The caller keeps the bucket pointer of its last get_peer_bucket, as     *)
(* client_test.c does for its whole life.                                  *)
(***************************************************************************)
EXTENDS PeerTable, SequencesExt

CONSTANTS
  Peer,     \* the peers that are stored
  MaxLen    \* bound on the length of a bucket

ASSUME MaxLenAssumption == MaxLen \in Nat

VARIABLES
  table,       \* node->peer_table
  bucket_buf   \* the caller's bucket pointer: a slot, or NULL

vars == <<table, bucket_buf>>

Init ==
  /\ table \in init_peer_table
  /\ bucket_buf = NULL

SetPeer(k, p) ==
  /\ table' = set_peer(table, k, p)
  /\ \A s \in Slot : Len(table'[s].data) <= MaxLen
  /\ UNCHANGED bucket_buf

GetPeerBucket(k) ==
  /\ bucket_buf' = get_peer_bucket(table, k)
  /\ UNCHANGED table

PopPeer ==
  /\ bucket_buf \in Slot
  /\ table' = [table EXCEPT ![bucket_buf] = pop_peer(@)]
  /\ UNCHANGED bucket_buf

Next ==
  \/ \E k \in Key : (\E p \in Peer : SetPeer(k, p)) \/ GetPeerBucket(k)
  \/ PopPeer

Spec == Init /\ [][Next]_vars

-----------------------------------------------------------------------------
\* Every bucket is a record of the right type and the caller's pointer is a
\* slot of the table or NULL (the types of peer_bucket_t in peers.h).
TypeOK ==
  /\ table \in [Slot -> Bucket(Peer)]
  /\ bucket_buf \in Slot \cup {NULL}

Owned(s) == table[s].active /\ table[s].key = s

\* Whatever malloc left in the buckets, a slot that set_peer has once taken
\* for its own keys stays taken, loses no peer except by pop_peer, and
\* get_peer_bucket finds it; and a slot that its own keys can use, as they can
\* if malloc left its `active` byte clear, stays one.
OwnershipIsPermanent ==
  [][\A s \in Slot :
       /\ Owned(s) =>
            /\ Owned(s)'
            /\ Reaches(table[s].key, s)
            /\ ~PopPeer => IsPrefix(table[s].data, table[s].data')
       /\ HomeUsable(table, s) => HomeUsable(table', s)]_vars

\* The loop of recv_rpc over a received array: one set_peer call per peer.
set_each_peer(t, k, ps) ==
  LET after[i \in 0 .. Len(ps)] ==
        IF i = 0 THEN t ELSE set_peer(after[i - 1], k, ps[i])
  IN after[Len(ps)]

\* Storing a received array in one go (set_peers) is the loop of set_peer
\* calls recv_rpc makes on it, from every reachable table.
SetPeersIsTheLoop ==
  \A k \in Key : \A ps \in TupleOf(Peer, 1) \cup TupleOf(Peer, 3) :
    set_peers(table, k, ps) = set_each_peer(table, k, ps)

-----------------------------------------------------------------------------
\* The peers that a caller finds under k.
Under(t, k) ==
  LET bucket == get_peer_bucket(t, k)
  IN IF bucket = NULL THEN <<>> ELSE t[bucket].data

\* A peer stored under an info_hash is found under it behind those that were
\* there, and nothing changes under the info_hashes of other slots, unless the
\* bytes that malloc left in the bucket make it look like that of another key.
AddedIsFound ==
  \A k \in Key, p \in Peer : HomeUsable(table, Hash[k]) =>
    LET after == set_peer(table, k, p)
    IN /\ Under(after, k) = Append(Under(table, k), p)
       /\ \A l \in Key : Hash[l] # Hash[k] => Under(after, l) = Under(table, l)

\* What the comment at peers.c:42-46 promises: when one of two info_hashes
\* that share a slot holds its bucket, peers of the other go elsewhere.
CollidersApart ==
  \A k, l \in Key, p \in Peer :
    k # l /\ Under(table, l) # <<>>
      => Under(set_peer(table, k, p), l) = Under(table, l)
=============================================================================
