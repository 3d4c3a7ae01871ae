------------------------------ MODULE PeerTable ------------------------------
(***************************************************************************)
(* The peer table of a node (peers.c): an array of MAX_PEER_BUCKETS        *)
(* buckets, each a growable array of peers, indexed by the hash of a       *)
(* torrent's info_hash.  This module holds the operations as functions of  *)
(* a table; PeerStore makes a state machine of them and P2PNetwork gives   *)
(* every process a table.                                                  *)
(*                                                                         *)
(* A bucket's array is a sequence here (its capacity and its memory are    *)
(* the subject of DynArray), and a key's FNV hash is an arbitrary function *)
(* into the slots, so that every pattern of collisions is covered.         *)
(***************************************************************************)
EXTENDS Integers, Sequences

CONSTANTS
  MAX_PEER_BUCKETS,  \* number of buckets; 10 in peers.h
  KEY_MOD,           \* 2^32, the modulus of the uint32_t bucket keys
  Key,               \* the info_hash strings in use
  Hash,              \* hash(): info_hash -> slot
  HeapActive,        \* what malloc may leave in a bucket's `active` ...
  HeapKey,           \* ... and in its `key`: new_peer_array sets neither
  NULL               \* the null bucket pointer

Slot == 0 .. MAX_PEER_BUCKETS - 1

ASSUME PeerTableAssumption ==
  /\ MAX_PEER_BUCKETS \in Nat \ {0}
  /\ KEY_MOD \in Nat
  /\ MAX_PEER_BUCKETS < KEY_MOD
  /\ Hash \in [Key -> Slot]
  /\ HeapActive \in SUBSET BOOLEAN
  /\ HeapKey \in SUBSET (0 .. KEY_MOD - 1)
  /\ NULL \notin Slot

Bucket(P) == [active : BOOLEAN, key : 0 .. KEY_MOD - 1, data : Seq(P)]

(***************************************************************************)
(* new_peer_array allocates a bucket and sets cap, len and data only:      *)
(* `active` and `key` hold whatever the heap held.                         *)
(***************************************************************************)
new_peer_array ==
  [active : HeapActive, key : HeapKey, data : {<<>>}]

init_peer_table == [Slot -> new_peer_array]

\* Slip: the peer is written at len - 1 of an array that is not empty.
push_peerOverLast(data, p) ==
  IF data = <<>> THEN <<p>> ELSE [data EXCEPT ![Len(data)] = p]

push_peer(data, p) == Append(data, p)

(***************************************************************************)
(* set_peer.  The home slot is used when it is free, when its key is the   *)
(* slot itself, or when it is the last one (the probing loop does not run  *)
(* and control falls through).  Otherwise the loop looks at one slot, the  *)
(* next: it is used if it is free, and then its key is set but not its     *)
(* `active` flag; if it is taken, the peer is dropped.                     *)
(***************************************************************************)
HomeUsable(t, h) ==
  ~t[h].active \/ t[h].key = h \/ h + 1 = MAX_PEER_BUCKETS

\* Slip: a bucket that holds peers but has no flag passes for free.
IsFreeByFlag(b) == ~b.active

IsFree(b) == b.data = <<>> /\ ~b.active

set_peer(t, k, p) ==
  LET h == Hash[k] IN
  IF HomeUsable(t, h)
    THEN [t EXCEPT ![h] = [active |-> TRUE, key |-> h,
                           data |-> push_peer(@.data, p)]]
  ELSE IF IsFree(t[h + 1])
    THEN [t EXCEPT ![h + 1] = [active |-> @.active, key |-> h + 1,
                               data |-> push_peer(@.data, p)]]
  ELSE t

(***************************************************************************)
(* set_peer for each element of a non-empty sequence, in order, under one  *)
(* key: the loop over a received peer array.  The first call settles the   *)
(* home slot for the rest, or takes the only slot probing would use.       *)
(* PeerStore's run checks this closed form against the loop.               *)
(***************************************************************************)
set_peers(t, k, ps) ==
  LET h == Hash[k] IN
  IF HomeUsable(t, h)
    THEN [t EXCEPT ![h] = [active |-> TRUE, key |-> h, data |-> @.data \o ps]]
    ELSE set_peer(t, k, Head(ps))

(***************************************************************************)
(* get_peer_bucket compares the slot with the bucket's key, then with the  *)
(* key's successors as long as these are below MAX_PEER_BUCKETS; uint32_t  *)
(* arithmetic wraps.  i is the number of increments made.                  *)
(***************************************************************************)
Reaches(key, h) ==
  \E i \in 0 .. KEY_MOD - 1 :
    /\ (key + i) % KEY_MOD = h
    /\ \A j \in 1 .. i : (key + j) % KEY_MOD < MAX_PEER_BUCKETS

\* Slip: the bucket is taken at its key instead of at the hash.
get_peer_bucketAtKey(t, k) ==
  IF Reaches(t[Hash[k]].key, Hash[k]) THEN t[Hash[k]].key ELSE NULL

get_peer_bucket(t, k) ==
  IF Reaches(t[Hash[k]].key, Hash[k]) THEN Hash[k] ELSE NULL

\* Slip: the bucket is released when its last peer is taken out.
pop_peerReleases(b) ==
  IF Len(b.data) < 1 THEN b
  ELSE [active |-> Len(b.data) > 1, key |-> b.key,
        data |-> SubSeq(b.data, 1, Len(b.data) - 1)]

pop_peer(b) ==
  IF Len(b.data) < 1 THEN b
  ELSE [active |-> b.active, key |-> b.key,
        data |-> SubSeq(b.data, 1, Len(b.data) - 1)]
=============================================================================
