--------------------------- MODULE PeerTableProofs ---------------------------
(***************************************************************************)
(* What the operations of PeerTable preserve, for tables of any kind of    *)
(* peers P: the lemmas the proofs about PeerStore and P2PNetwork rest on.  *)
(***************************************************************************)
EXTENDS PeerTable, SequenceTheorems, TLAPS

\* get_peer_bucket's scan succeeds at once when a bucket's key is its slot.
LEMMA HomeKeyIsFound ==
  ASSUME NEW s \in Slot
  PROVE  Reaches(s, s)
<1>1. s \in Nat /\ s < KEY_MOD /\ KEY_MOD \in Nat \ {0}
  BY PeerTableAssumption DEF Slot
<1>2. (s + 0) % KEY_MOD = s
  BY <1>1
<1>3. 0 \in 0 .. KEY_MOD - 1
  BY <1>1
<1> QED
  BY <1>2, <1>3 DEF Reaches

\* The bucket set_peer writes is a bucket.
LEMMA PushPeerType ==
  ASSUME NEW P, NEW b \in Bucket(P), NEW key \in 0 .. KEY_MOD - 1, NEW p \in P,
         NEW a \in BOOLEAN
  PROVE  [active |-> a, key |-> key, data |-> push_peer(b.data, p)] \in Bucket(P)
<1>1. push_peer(b.data, p) \in Seq(P)
  BY AppendProperties DEF Bucket, push_peer
<1> QED
  BY <1>1 DEF Bucket

\* When the home slot is not usable there is a next slot, and set_peer
\* either drops the peer or puts it there.
LEMMA SetPeerNext ==
  ASSUME NEW P, NEW t \in [Slot -> Bucket(P)], NEW k \in Key, NEW p \in P,
         ~HomeUsable(t, Hash[k])
  PROVE  /\ Hash[k] + 1 \in Slot
         /\ Hash[k] + 1 \in 0 .. KEY_MOD - 1
         /\ \/ set_peer(t, k, p) = t
            \/ /\ IsFree(t[Hash[k] + 1])
               /\ set_peer(t, k, p)
                   = [t EXCEPT ![Hash[k] + 1] =
                        [active |-> t[Hash[k] + 1].active, key |-> Hash[k] + 1,
                         data |-> push_peer(t[Hash[k] + 1].data, p)]]
<1>1. Hash[k] \in Slot /\ Hash[k] + 1 # MAX_PEER_BUCKETS
  BY PeerTableAssumption DEF HomeUsable
<1>2. Hash[k] + 1 \in Slot /\ Hash[k] + 1 \in 0 .. KEY_MOD - 1
  BY <1>1, PeerTableAssumption DEF Slot
<1> QED
  BY <1>2 DEF set_peer

\* set_peer keeps a table well typed.
LEMMA SetPeerType ==
  ASSUME NEW P, NEW t \in [Slot -> Bucket(P)], NEW k \in Key, NEW p \in P
  PROVE  set_peer(t, k, p) \in [Slot -> Bucket(P)]
<1>1. Hash[k] \in Slot /\ Hash[k] \in 0 .. KEY_MOD - 1
  BY PeerTableAssumption DEF Slot
<1>2. CASE HomeUsable(t, Hash[k])
  <2>1. t[Hash[k]] \in Bucket(P)
    BY <1>1
  <2>2. [active |-> TRUE, key |-> Hash[k], data |-> push_peer(t[Hash[k]].data, p)]
          \in Bucket(P)
    BY <1>1, <2>1, PushPeerType
  <2> QED
    BY <1>1, <1>2, <2>2 DEF set_peer
<1>3. CASE ~HomeUsable(t, Hash[k])
  <2> DEFINE n == Hash[k] + 1
  <2>1. n \in Slot /\ n \in 0 .. KEY_MOD - 1
    BY <1>3, SetPeerNext
  <2>2. t[n] \in Bucket(P) /\ t[n].active \in BOOLEAN
    BY <2>1 DEF Bucket
  <2>3. [active |-> t[n].active, key |-> n, data |-> push_peer(t[n].data, p)]
          \in Bucket(P)
    BY <2>1, <2>2, PushPeerType
  <2> QED
    BY <1>3, <2>1, <2>3, SetPeerNext
<1> QED
  BY <1>2, <1>3

\* A lookup answers a slot or NULL.
LEMMA GetPeerBucketType ==
  ASSUME NEW t, NEW k \in Key
  PROVE  get_peer_bucket(t, k) \in Slot \cup {NULL}
BY PeerTableAssumption DEF get_peer_bucket

\* A fresh bucket is a bucket, whatever malloc left in it.
LEMMA NewPeerArrayType ==
  ASSUME NEW P, NEW b \in new_peer_array
  PROVE  b \in Bucket(P)
<1>1. /\ b = [active |-> b.active, key |-> b.key, data |-> b.data]
      /\ b.active \in HeapActive /\ b.key \in HeapKey /\ b.data = <<>>
  BY DEF new_peer_array
<1>2. b.active \in BOOLEAN /\ b.key \in 0 .. KEY_MOD - 1
  BY <1>1, PeerTableAssumption
<1>3. b.data \in Seq(P)
  BY <1>1, EmptySeq
<1> QED
  BY <1>1, <1>2, <1>3 DEF Bucket

\* set_peers keeps a table well typed.
LEMMA SetPeersType ==
  ASSUME NEW P, NEW t \in [Slot -> Bucket(P)], NEW k \in Key,
         NEW ps \in Seq(P), ps # <<>>
  PROVE  set_peers(t, k, ps) \in [Slot -> Bucket(P)]
<1>1. Hash[k] \in Slot /\ Hash[k] \in 0 .. KEY_MOD - 1
  BY PeerTableAssumption DEF Slot
<1>2. CASE HomeUsable(t, Hash[k])
  <2>1. t[Hash[k]].data \o ps \in Seq(P)
    BY <1>1, ConcatProperties DEF Bucket
  <2>2. [active |-> TRUE, key |-> Hash[k], data |-> t[Hash[k]].data \o ps]
          \in Bucket(P)
    BY <1>1, <2>1 DEF Bucket
  <2> QED
    BY <1>1, <1>2, <2>2 DEF set_peers
<1>3. CASE ~HomeUsable(t, Hash[k])
  <2>1. Head(ps) \in P
    BY HeadTailProperties
  <2> QED
    BY <1>3, <2>1, SetPeerType DEF set_peers
<1> QED
  BY <1>2, <1>3
=============================================================================
