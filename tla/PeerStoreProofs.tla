--------------------------- MODULE PeerStoreProofs ---------------------------
(***************************************************************************)
(* Proofs about PeerStore, for every number of buckets, every hash, every  *)
(* set of keys and peers and every bound.                                  *)
(***************************************************************************)
EXTENDS PeerStore, PeerTableProofs, WellFoundedInduction

\* Taking the last element of a sequence off leaves a sequence.
LEMMA DropLastType ==
  ASSUME NEW S, NEW q \in Seq(S), Len(q) >= 1
  PROVE  SubSeq(q, 1, Len(q) - 1) \in Seq(S)
<1>1. Len(q) - 1 \in Int /\ \A i \in 1 .. Len(q) - 1 : q[i] \in S
  BY ElementOfSeq, LenProperties
<1> QED
  BY <1>1, SubSeqProperties

\* Appending to a sequence extends it.
LEMMA AppendExtends ==
  ASSUME NEW S, NEW q \in Seq(S), NEW e \in S
  PROVE  IsPrefix(q, Append(q, e))
<1>1. Len(q) \in Nat /\ Len(Append(q, e)) = Len(q) + 1
  BY AppendProperties, LenProperties
<1>2. Append(q, e) = q \o <<e>> /\ <<e>> \in Seq(S)
  BY AppendIsConcat
<1>3. CASE Len(q) = 0
  BY <1>1, <1>3, SubSeqEmpty DEF IsPrefix
<1>4. CASE Len(q) # 0
  <2>1. 1 \in 1 .. Len(q) /\ Len(q) \in 1 .. Len(q)
    BY <1>1, <1>4
  <2>2. SubSeq(q \o <<e>>, 1, Len(q)) = SubSeq(q, 1, Len(q))
    BY <1>2, <2>1, SubSeqOfConcat1
  <2> QED
    BY <1>1, <1>2, <2>2 DEF IsPrefix
<1> QED
  BY <1>3, <1>4

\* pop_peer keeps a bucket well typed, and its flag and key as they were.
LEMMA PopPeerType ==
  ASSUME NEW b \in Bucket(Peer)
  PROVE  /\ pop_peer(b) \in Bucket(Peer)
         /\ pop_peer(b).active = b.active
         /\ pop_peer(b).key = b.key
<1>1. CASE Len(b.data) < 1
  BY <1>1 DEF pop_peer
<1>2. CASE ~(Len(b.data) < 1)
  <2>1. b.data \in Seq(Peer) /\ Len(b.data) >= 1
    BY <1>2, LenProperties DEF Bucket
  <2>2. SubSeq(b.data, 1, Len(b.data) - 1) \in Seq(Peer)
    BY <2>1, DropLastType
  <2> QED
    BY <1>2, <2>2 DEF pop_peer, Bucket
<1> QED
  BY <1>1, <1>2

\* The types of peers.h hold whatever the callers of peers.c do and whatever
\* malloc left in the buckets.
THEOREM TypeCorrect == Spec => []TypeOK
<1>1. Init => TypeOK
  <2>2. ASSUME Init PROVE table \in [Slot -> new_peer_array] /\ bucket_buf = NULL
    BY <2>2 DEF Init, init_peer_table
  <2>3. [Slot -> new_peer_array] \subseteq [Slot -> Bucket(Peer)]
    BY NewPeerArrayType
  <2> QED
    BY <2>2, <2>3 DEF TypeOK
<1>2. TypeOK /\ [Next]_vars => TypeOK'
  <2> SUFFICES ASSUME TypeOK, [Next]_vars PROVE TypeOK'
    OBVIOUS
  <2>1. ASSUME NEW k \in Key, NEW p \in Peer, SetPeer(k, p) PROVE TypeOK'
    BY <2>1, SetPeerType DEF SetPeer, TypeOK
  <2>2. ASSUME NEW k \in Key, GetPeerBucket(k) PROVE TypeOK'
    BY <2>2, GetPeerBucketType DEF GetPeerBucket, TypeOK
  <2>3. CASE PopPeer
    BY <2>3, PopPeerType DEF PopPeer, TypeOK
  <2>4. CASE UNCHANGED vars
    BY <2>4 DEF vars, TypeOK
  <2> QED
    BY <2>1, <2>2, <2>3, <2>4 DEF Next
<1> QED
  BY <1>1, <1>2, PTL DEF Spec

-----------------------------------------------------------------------------
\* No operation makes a slot unusable for its own keys: set_peer gives every
\* slot it writes the slot's own key or leaves its flag alone, and pop_peer
\* touches neither.
LEMMA HomeStaysUsable ==
  ASSUME TypeOK, [Next]_vars, NEW s \in Slot, HomeUsable(table, s)
  PROVE  HomeUsable(table', s)
<1>1. ASSUME NEW k \in Key, NEW p \in Peer, SetPeer(k, p)
      PROVE  HomeUsable(table', s)
  <2> DEFINE h == Hash[k]
  <2>1. h \in Slot /\ table \in [Slot -> Bucket(Peer)]
        /\ table' = set_peer(table, k, p)
    BY <1>1, PeerTableAssumption DEF SetPeer, TypeOK
  <2>2. CASE HomeUsable(table, h)
    <3>1. table' = [table EXCEPT ![h] = [active |-> TRUE, key |-> h,
                      data |-> push_peer(table[h].data, p)]]
      BY <2>1, <2>2 DEF set_peer
    <3> QED
      BY <2>1, <3>1 DEF HomeUsable
  <2>3. CASE ~HomeUsable(table, h) /\ table' # table
    <3>1. /\ h + 1 \in Slot
          /\ table' = [table EXCEPT ![h + 1] =
               [active |-> table[h + 1].active, key |-> h + 1,
                data |-> push_peer(table[h + 1].data, p)]]
      BY <2>1, <2>3, SetPeerNext
    <3> QED
      BY <2>1, <3>1 DEF HomeUsable
  <2> QED
    BY <2>2, <2>3
<1>2. CASE PopPeer
  <2>1. /\ table[s] \in Bucket(Peer)
        /\ table'[s] \in {table[s], pop_peer(table[s])}
    BY <1>2 DEF PopPeer, TypeOK
  <2>2. table'[s].active = table[s].active /\ table'[s].key = table[s].key
    BY <2>1, PopPeerType
  <2> QED
    BY <2>2 DEF HomeUsable
<1>3. CASE UNCHANGED table
  BY <1>3 DEF HomeUsable
<1> QED
  BY <1>1, <1>2, <1>3 DEF Next, GetPeerBucket, vars

\* Every slot can be used by its own keys: set_peer never probes or drops.
EveryHomeUsable == \A s \in Slot : HomeUsable(table, s)

\* When malloc leaves `active` clear, as fresh pages do, the probing branch of
\* set_peer (peers.c:57-66) is dead and no peer is ever dropped.
THEOREM ClearFlagsDropNothing ==
  ASSUME HeapActive \subseteq {FALSE}
  PROVE  Spec => []EveryHomeUsable
<1>1. Init => EveryHomeUsable
  BY DEF Init, EveryHomeUsable, HomeUsable, init_peer_table, new_peer_array
<1>2. TypeOK /\ EveryHomeUsable /\ [Next]_vars => EveryHomeUsable'
  BY HomeStaysUsable DEF EveryHomeUsable, HomeUsable
<1> QED
  BY <1>1, <1>2, TypeCorrect, PTL DEF Spec

-----------------------------------------------------------------------------
\* Whatever malloc left in the buckets: a slot once owned by its keys stays
\* owned and visible to get_peer_bucket, and only pop_peer shortens it; a slot
\* that its keys can use stays usable.
THEOREM OwnershipPermanence == Spec => OwnershipIsPermanent
<1> DEFINE Keeps(s) == Owned(s) => /\ Owned(s)'
                                   /\ Reaches(table[s].key, s)
                                   /\ ~PopPeer => IsPrefix(table[s].data, table[s].data')
<1>1. ASSUME TypeOK, [Next]_vars, NEW s \in Slot PROVE Keeps(s)
  <2> SUFFICES ASSUME Owned(s)
               PROVE  Owned(s)' /\ (~PopPeer => IsPrefix(table[s].data, table[s].data'))
    BY HomeKeyIsFound DEF Owned
  <2>0. table[s] \in Bucket(Peer) /\ table[s].data \in Seq(Peer)
    BY <1>1 DEF TypeOK, Bucket
  <2>1. IsPrefix(table[s].data, table[s].data)
    BY <2>0, LenProperties DEF IsPrefix
  <2>2. ASSUME NEW k \in Key, NEW p \in Peer, SetPeer(k, p)
        PROVE  Owned(s)' /\ IsPrefix(table[s].data, table[s].data')
    <3> DEFINE h == Hash[k]
    <3>1. h \in Slot /\ table \in [Slot -> Bucket(Peer)]
          /\ table' = set_peer(table, k, p)
      BY <1>1, <2>2, PeerTableAssumption DEF SetPeer, TypeOK
    <3>2. IsPrefix(table[s].data, push_peer(table[s].data, p))
      BY <2>0, AppendExtends DEF push_peer
    <3>3. CASE HomeUsable(table, h)
      <4>1. table' = [table EXCEPT ![h] = [active |-> TRUE, key |-> h,
                        data |-> push_peer(table[h].data, p)]]
        BY <3>1, <3>3 DEF set_peer
      <4> QED
        BY <2>1, <3>1, <3>2, <4>1 DEF Owned
    <3>4. CASE ~HomeUsable(table, h)
      <4>1. CASE table' = table
        BY <2>1, <4>1 DEF Owned
      <4>2. CASE table' # table
        <5>1. /\ IsFree(table[h + 1])
              /\ h + 1 \in Slot
              /\ table' = [table EXCEPT ![h + 1] =
                   [active |-> table[h + 1].active, key |-> h + 1,
                    data |-> push_peer(table[h + 1].data, p)]]
          BY <3>1, <3>4, <4>2, SetPeerNext
        <5>2. s # h + 1
          BY <5>1 DEF Owned, IsFree
        <5> QED
          BY <2>1, <3>1, <5>1, <5>2 DEF Owned
      <4> QED
        BY <4>1, <4>2
    <3> QED
      BY <3>3, <3>4
  <2>3. ASSUME NEW k \in Key, GetPeerBucket(k)
        PROVE  Owned(s)' /\ IsPrefix(table[s].data, table[s].data')
    BY <2>1, <2>3 DEF GetPeerBucket, Owned
  <2>4. CASE PopPeer
    <3>1. table'[s] \in {table[s], pop_peer(table[s])}
      BY <1>1, <2>4 DEF PopPeer, TypeOK
    <3> QED
      BY <2>0, <2>4, <3>1, PopPeerType DEF Owned
  <2>5. CASE UNCHANGED vars
    BY <2>1, <2>5 DEF vars, Owned
  <2> QED
    BY <1>1, <2>2, <2>3, <2>4, <2>5 DEF Next
<1>2. TypeOK /\ [Next]_vars
        => [\A s \in Slot : /\ Keeps(s)
                            /\ HomeUsable(table, s) => HomeUsable(table', s)]_vars
  <2> HIDE DEF Keeps
  <2> QED
    BY <1>1, HomeStaysUsable
<1> QED
  BY <1>2, TypeCorrect, PTL DEF Spec, OwnershipIsPermanent

-----------------------------------------------------------------------------
\* A bucket that holds peers carries its own slot as its key: set_peer writes
\* the key with the peer (peers.c:52, 62).
Keyed == \A s \in Slot : table[s].data # <<>> => table[s].key = s

LEMMA KeyedInvariant == Spec => []Keyed
<1>1. Init => Keyed
  BY DEF Init, Keyed, init_peer_table, new_peer_array
<1>2. TypeOK /\ Keyed /\ [Next]_vars => Keyed'
  <2> SUFFICES ASSUME TypeOK, Keyed, [Next]_vars PROVE Keyed'
    OBVIOUS
  <2>1. ASSUME NEW k \in Key, NEW p \in Peer, SetPeer(k, p) PROVE Keyed'
    <3> DEFINE h == Hash[k]
    <3>1. h \in Slot /\ table \in [Slot -> Bucket(Peer)]
          /\ table' = set_peer(table, k, p)
      BY <2>1, PeerTableAssumption DEF SetPeer, TypeOK
    <3>2. CASE HomeUsable(table, h)
      <4>1. table' = [table EXCEPT ![h] = [active |-> TRUE, key |-> h,
                        data |-> push_peer(table[h].data, p)]]
        BY <3>1, <3>2 DEF set_peer
      <4> QED
        BY <3>1, <4>1 DEF Keyed
    <3>3. CASE ~HomeUsable(table, h) /\ table' # table
      <4>1. /\ h + 1 \in Slot
            /\ table' = [table EXCEPT ![h + 1] =
                 [active |-> table[h + 1].active, key |-> h + 1,
                  data |-> push_peer(table[h + 1].data, p)]]
        BY <3>1, <3>3, SetPeerNext
      <4> QED
        BY <3>1, <4>1 DEF Keyed
    <3> QED
      BY <3>2, <3>3 DEF Keyed
  <2>2. CASE PopPeer
    <3>1. ASSUME NEW s \in Slot PROVE (table[s].data # <<>> => table[s].key = s)'
      <4>1. /\ table[s] \in Bucket(Peer)
            /\ table'[s] \in {table[s], pop_peer(table[s])}
        BY <2>2 DEF PopPeer, TypeOK
      <4>2. CASE Len(table[s].data) < 1
        BY <4>1, <4>2 DEF pop_peer, Keyed
      <4>3. CASE ~(Len(table[s].data) < 1)
        <5>1. table[s].data # <<>>
          BY <4>3
        <5> QED
          BY <4>1, <5>1, PopPeerType DEF Keyed
      <4> QED
        BY <4>2, <4>3
    <3> QED
      BY <3>1 DEF Keyed
  <2>3. CASE UNCHANGED table
    BY <2>3 DEF Keyed
  <2> QED
    BY <2>1, <2>2, <2>3 DEF Next, GetPeerBucket, vars
<1> QED
  BY <1>1, <1>2, TypeCorrect, PTL DEF Spec

\* What set_peer stores is what get_peer_bucket finds (peers.c:34-95), for any
\* number of slots, any hash and whatever malloc left in the buckets, unless
\* these bytes make the bucket look like that of another key.
THEOREM AddedIsFoundCorrect == Spec => []AddedIsFound
<1>1. TypeOK /\ Keyed => AddedIsFound
  <2> SUFFICES ASSUME TypeOK, Keyed, NEW k \in Key, NEW p \in Peer,
                      HomeUsable(table, Hash[k])
               PROVE  LET after == set_peer(table, k, p)
                      IN /\ Under(after, k) = Append(Under(table, k), p)
                         /\ \A l \in Key : Hash[l] # Hash[k]
                              => Under(after, l) = Under(table, l)
    BY DEF AddedIsFound
  <2> DEFINE h == Hash[k]
             after == set_peer(table, k, p)
  <2>1. h \in Slot /\ NULL \notin Slot
    BY PeerTableAssumption
  <2>2. after = [table EXCEPT ![h] = [active |-> TRUE, key |-> h,
                                      data |-> push_peer(table[h].data, p)]]
    BY DEF set_peer
  <2>3. /\ after[h].key = h /\ after[h].data = Append(table[h].data, p)
        /\ \A s \in Slot : s # h => after[s] = table[s]
    BY <2>1, <2>2 DEF TypeOK, push_peer
  <2>4. Under(table, k) = table[h].data
    <3>1. CASE table[h].data # <<>>
      <4>1. get_peer_bucket(table, k) = h
        BY <2>1, <3>1, HomeKeyIsFound DEF Keyed, get_peer_bucket
      <4> QED
        BY <2>1, <4>1 DEF Under
    <3>2. CASE table[h].data = <<>>
      BY <3>2 DEF Under, get_peer_bucket
    <3> QED
      BY <3>1, <3>2
  <2>5. Under(after, k) = after[h].data
    <3>1. get_peer_bucket(after, k) = h
      BY <2>1, <2>3, HomeKeyIsFound DEF get_peer_bucket
    <3> QED
      BY <2>1, <3>1 DEF Under
  <2>6. ASSUME NEW l \in Key, Hash[l] # h PROVE Under(after, l) = Under(table, l)
    <3>1. Hash[l] \in Slot /\ after[Hash[l]] = table[Hash[l]]
      BY <2>3, <2>6, PeerTableAssumption
    <3> QED
      BY <3>1 DEF Under, get_peer_bucket
  <2> QED
    BY <2>3, <2>4, <2>5, <2>6
<1> QED
  BY <1>1, TypeCorrect, KeyedInvariant, PTL

-----------------------------------------------------------------------------
(***************************************************************************)
(* A received array stored in one go and peer by peer.                     *)
(***************************************************************************)
\* A set of natural numbers that is not empty has a least element.
LEMMA LeastExists ==
  ASSUME NEW S, S \subseteq Nat, S # {}
  PROVE  \E x \in S : \A y \in S : x <= y
<1>1. PICK x \in S : \A y \in S : <<y, x>> \notin OpToRel(<, Nat)
  BY WFMin, NatLessThanWellFounded, Zenon
<1>2. \A y \in S : ~(y < x)
  BY <1>1, Zenon DEF OpToRel
<1>3. QED
  BY <1>2

\* A beginning of a sequence, and one that is longer by one element.
LEMMA LongerPrefix ==
  ASSUME NEW P, NEW q \in Seq(P), NEW ps \in Seq(P), NEW i \in 2 .. Len(ps)
  PROVE  /\ SubSeq(ps, 1, i - 1) \in Seq(P)
         /\ SubSeq(ps, 1, i - 1) # <<>>
         /\ Head(SubSeq(ps, 1, i - 1)) = Head(ps)
         /\ Append(q \o SubSeq(ps, 1, i - 1), ps[i]) = q \o SubSeq(ps, 1, i)
<1> DEFINE a == SubSeq(ps, 1, i - 1)
           b == SubSeq(ps, 1, i)
<1>1. /\ Len(ps) \in Nat /\ Len(q) \in Nat
      /\ i - 1 \in 1 .. Len(ps) /\ i \in 1 .. Len(ps) /\ 1 \in 1 .. Len(ps)
  OBVIOUS
<1>2. /\ a \in Seq(P) /\ Len(a) = i - 1
      /\ \A j \in 1 .. i - 1 : a[j] = ps[j]
  BY <1>1
<1>3. /\ b \in Seq(P) /\ Len(b) = i
      /\ \A j \in 1 .. i : b[j] = ps[j]
  BY <1>1
<1>4. ps[i] \in P /\ i \in Nat /\ i - 1 \in Nat
  BY <1>1
<1> HIDE DEF a, b
<1>5. /\ q \o a \in Seq(P) /\ Len(q \o a) = Len(q) + (i - 1)
      /\ \A j \in 1 .. Len(q) + (i - 1) :
           (q \o a)[j] = IF j <= Len(q) THEN q[j] ELSE a[j - Len(q)]
  <2>1. /\ q \o a \in Seq(P) /\ Len(q \o a) = Len(q) + Len(a)
        /\ \A j \in 1 .. Len(q) + Len(a) :
             (q \o a)[j] = IF j <= Len(q) THEN q[j] ELSE a[j - Len(q)]
    BY <1>2, ConcatProperties
  <2>2. QED
    BY <1>2, <2>1
<1>6. /\ q \o b \in Seq(P) /\ Len(q \o b) = Len(q) + i
      /\ \A j \in 1 .. Len(q) + i :
           (q \o b)[j] = IF j <= Len(q) THEN q[j] ELSE b[j - Len(q)]
  BY <1>3, <1>4, ConcatProperties
<1> DEFINE c == Append(q \o a, ps[i])
<1>7. /\ c \in Seq(P) /\ Len(c) = Len(q) + i
      /\ \A j \in 1 .. Len(q) + (i - 1) : c[j] = (q \o a)[j]
      /\ c[Len(q) + i] = ps[i]
  <2> DEFINE m == q \o a
  <2>1. m \in Seq(P) /\ ps[i] \in P /\ Len(m) = Len(q) + (i - 1)
    BY <1>4, <1>5
  <2> HIDE DEF m
  <2>2. /\ Append(m, ps[i]) \in Seq(P) /\ Len(Append(m, ps[i])) = Len(m) + 1
        /\ \A j \in 1 .. Len(m) : Append(m, ps[i])[j] = m[j]
        /\ Append(m, ps[i])[Len(m) + 1] = ps[i]
    BY <2>1, AppendProperties
  <2>3. Len(m) + 1 = Len(q) + i
    BY <1>1, <2>1
  <2> QED
    BY <2>1, <2>2, <2>3 DEF m
<1> HIDE DEF c
<1>8. ASSUME NEW j \in 1 .. Len(q) + i
      PROVE  c[j] = (q \o b)[j]
  <2>1. CASE j = Len(q) + i
    BY <1>1, <1>3, <1>4, <1>6, <1>7, <2>1
  <2>2. CASE j # Len(q) + i
    <3>1. j \in 1 .. Len(q) + (i - 1)
      BY <1>1, <1>4, <2>2
    <3>2. ~(j <= Len(q)) => j - Len(q) \in 1 .. i - 1 /\ j - Len(q) \in 1 .. i
      BY <1>1, <1>4, <3>1
    <3>3. QED
      BY <1>2, <1>3, <1>5, <1>6, <1>7, <3>1, <3>2
  <2>3. QED
    BY <2>1, <2>2
<1>9. c = q \o b
  BY <1>6, <1>7, <1>8, SeqEqual
<1>10. a # <<>> /\ Head(a) = Head(ps)
  BY <1>1, <1>2
<1>11. QED
  BY <1>2, <1>9, <1>10 DEF a, b, c

\* One more call of set_peer stores one more peer of the array.
LEMMA SetOneMore ==
  ASSUME NEW P, NEW t \in [Slot -> Bucket(P)], NEW k \in Key,
         NEW ps \in Seq(P), NEW i \in 2 .. Len(ps)
  PROVE  set_peer(set_peers(t, k, SubSeq(ps, 1, i - 1)), k, ps[i])
           = set_peers(t, k, SubSeq(ps, 1, i))
<1> DEFINE h == Hash[k]
           n == Hash[k] + 1
           u == set_peers(t, k, SubSeq(ps, 1, i - 1))
<1>1. h \in Slot /\ h \in 0 .. KEY_MOD - 1
  BY PeerTableAssumption DEF Slot
<1>2. t[h] \in Bucket(P) /\ t[h].data \in Seq(P)
  BY <1>1 DEF Bucket
<1>3. CASE HomeUsable(t, h)
  <2> DEFINE a == [active |-> TRUE, key |-> h,
                   data |-> t[h].data \o SubSeq(ps, 1, i - 1)]
  <2>1. u = [t EXCEPT ![h] = a]
    BY <1>3 DEF set_peers
  <2>2. u[h] = a /\ a.key = h /\ a.data = t[h].data \o SubSeq(ps, 1, i - 1)
    BY <1>1, <2>1
  <2> HIDE DEF a, u
  <2>3. HomeUsable(u, h)
    BY <2>2 DEF HomeUsable
  <2>4. set_peer(u, k, ps[i])
          = [u EXCEPT ![h] = [active |-> TRUE, key |-> h,
                              data |-> push_peer(a.data, ps[i])]]
    BY <2>2, <2>3 DEF set_peer
  <2>5. push_peer(a.data, ps[i]) = t[h].data \o SubSeq(ps, 1, i)
    <3>1. Append(t[h].data \o SubSeq(ps, 1, i - 1), ps[i])
            = t[h].data \o SubSeq(ps, 1, i)
      BY <1>2, LongerPrefix
    <3>2. QED
      BY <2>2, <3>1 DEF push_peer
  <2>6. set_peer(u, k, ps[i])
          = [t EXCEPT ![h] = [active |-> TRUE, key |-> h,
                              data |-> t[h].data \o SubSeq(ps, 1, i)]]
    BY <1>1, <2>1, <2>4, <2>5
  <2>7. QED
    BY <1>3, <2>6 DEF set_peers, u
<1>4. CASE ~HomeUsable(t, h)
  <2>1. /\ u = set_peer(t, k, Head(ps))
        /\ set_peers(t, k, SubSeq(ps, 1, i)) = set_peer(t, k, Head(ps))
    <3>1. Head(SubSeq(ps, 1, i - 1)) = Head(ps)
      BY <1>2, LongerPrefix
    <3>2. i \in 1 .. Len(ps) /\ Len(ps) \in Nat
      OBVIOUS
    <3>3. Head(SubSeq(ps, 1, i)) = Head(ps)
      BY <3>2
    <3>4. QED
      BY <1>4, <3>1, <3>3 DEF set_peers
  <2>2. Head(ps) \in P
    BY HeadTailProperties
  <2>3. /\ n \in Slot /\ n # h
        /\ \/ u = t
           \/ /\ IsFree(t[n])
              /\ u = [t EXCEPT ![n] = [active |-> t[n].active, key |-> n,
                                       data |-> push_peer(t[n].data, Head(ps))]]
    <3>1. n \in Slot /\ n # h
      <4>1. n \in Slot
        BY <1>4, <2>2, SetPeerNext
      <4>2. n # h
        BY <1>1
      <4>3. QED
        BY <4>1, <4>2
    <3> HIDE DEF u
    <3>2. QED
      BY <1>4, <2>1, <2>2, <3>1, SetPeerNext
  <2>4. u[h] = t[h] /\ ~HomeUsable(u, h)
    BY <1>1, <1>4, <2>3 DEF HomeUsable
  <2>5. ~IsFree(u[n])
    <3>1. CASE u = t
      <4>1. ~IsFree(t[n])
        <5>1. SUFFICES ASSUME IsFree(t[n]) PROVE FALSE
          OBVIOUS
        <5>2. t = [t EXCEPT ![n] = [active |-> t[n].active, key |-> n,
                                    data |-> push_peer(t[n].data, Head(ps))]]
          BY <1>4, <2>1, <3>1, <5>1 DEF set_peer
        <5>3. t[n].data = push_peer(t[n].data, Head(ps))
          BY <2>3, <5>2
        <5>4. t[n].data \in Seq(P)
          BY <2>3 DEF Bucket
        <5>5. QED
          BY <2>2, <5>3, <5>4 DEF push_peer
      <4>2. QED
        BY <3>1, <4>1
    <3>2. CASE u # t
      <4> DEFINE b == [active |-> t[n].active, key |-> n,
                       data |-> push_peer(t[n].data, Head(ps))]
      <4>0. u[n] = b
        <5> HIDE DEF u
        <5>1. QED
          BY <2>3, <3>2
      <4>1. u[n].data = push_peer(t[n].data, Head(ps))
        <5> HIDE DEF u
        <5>1. QED
          BY <4>0
      <4>2. t[n].data \in Seq(P)
        BY <2>3 DEF Bucket
      <4>3. QED
        BY <2>2, <4>1, <4>2 DEF IsFree, push_peer
    <3>3. QED
      BY <3>1, <3>2
  <2>6. set_peer(u, k, ps[i]) = u
    BY <2>4, <2>5 DEF set_peer
  <2>7. QED
    BY <2>1, <2>6
<1>5. QED
  BY <1>3, <1>4

\* The first peer of an array goes where set_peer puts it.
LEMMA SetFirst ==
  ASSUME NEW P, NEW t \in [Slot -> Bucket(P)], NEW k \in Key,
         NEW ps \in Seq(P), ps # <<>>
  PROVE  set_peer(t, k, ps[1]) = set_peers(t, k, SubSeq(ps, 1, 1))
<1> DEFINE h == Hash[k]
<1>1. ps[1] \in P /\ 1 \in 1 .. Len(ps)
  OBVIOUS
<1>2. /\ SubSeq(ps, 1, 1) = <<ps[1]>> /\ Head(SubSeq(ps, 1, 1)) = ps[1]
  <2>1. SubSeq(ps, 1, 1) \in Seq(P) /\ Len(SubSeq(ps, 1, 1)) = 1
        /\ SubSeq(ps, 1, 1)[1] = ps[1]
    BY <1>1
  <2>2. <<ps[1]>> \in Seq(P) /\ Len(<<ps[1]>>) = 1 /\ <<ps[1]>>[1] = ps[1]
    BY <1>1
  <2>3. SubSeq(ps, 1, 1) = <<ps[1]>>
    <3> DEFINE a == SubSeq(ps, 1, 1)
               b == <<ps[1]>>
    <3>1. a \in Seq(P) /\ b \in Seq(P) /\ Len(a) = Len(b)
          /\ \A i \in 1 .. Len(a) : a[i] = b[i]
      BY <2>1, <2>2
    <3> HIDE DEF a, b
    <3>2. a = b
      BY <3>1, SeqEqual
    <3>3. QED
      BY <3>2 DEF a, b
  <2>4. QED
    BY <2>3
<1>3. h \in Slot /\ t[h].data \in Seq(P)
  BY PeerTableAssumption DEF Bucket
<1>4. push_peer(t[h].data, ps[1]) = t[h].data \o SubSeq(ps, 1, 1)
  BY <1>1, <1>2, <1>3, AppendIsConcat DEF push_peer
<1>5. QED
  BY <1>2, <1>4 DEF set_peers, set_peer

\* For every table and every array that is not empty, set_peers is the loop.
LEMMA SetPeersIsLoop ==
  ASSUME NEW P, NEW t \in [Slot -> Bucket(P)], NEW k \in Key,
         NEW ps \in Seq(P), ps # <<>>
  PROVE  set_peers(t, k, ps) = set_each_peer(t, k, ps)
<1> DEFINE n == Len(ps)
           step(f, i) == IF i = 0 THEN t ELSE set_peer(f[i - 1], k, ps[i])
           Loop(f) == f = [i \in 0 .. n |-> step(f, i)]
           stored(i) == IF i = 0 THEN t ELSE set_peers(t, k, SubSeq(ps, 1, i))
           g == [i \in 0 .. n |-> stored(i)]
           after == CHOOSE f : Loop(f)
<1>1. n \in Nat /\ n \in 1 .. n /\ 0 \in 0 .. n
  OBVIOUS
<1>2. ASSUME NEW i \in 1 .. n
      PROVE  /\ i - 1 \in 0 .. n /\ i \in 0 .. n /\ i # 0
             /\ stored(i) = set_peer(stored(i - 1), k, ps[i])
  <2>1. i - 1 \in 0 .. n /\ i \in 0 .. n /\ i # 0
    BY <1>1
  <2>2. CASE i = 1
    <3>1. stored(i) = set_peers(t, k, SubSeq(ps, 1, 1)) /\ stored(i - 1) = t
      BY <2>2
    <3>2. QED
      BY <2>1, <2>2, <3>1, SetFirst
  <2>3. CASE i # 1
    <3>1. i \in 2 .. Len(ps) /\ i - 1 # 0
      BY <1>1, <2>3
    <3>2. stored(i - 1) = set_peers(t, k, SubSeq(ps, 1, i - 1))
      BY <3>1
    <3>3. QED
      BY <2>1, <3>1, <3>2, SetOneMore
  <2>4. QED
    BY <2>2, <2>3
<1>3. Loop(g)
  <2>1. ASSUME NEW i \in 0 .. n
        PROVE  stored(i) = step(g, i)
    <3>1. CASE i = 0
      BY <3>1
    <3>2. CASE i # 0
      <4>1. i \in 1 .. n
        BY <1>1, <3>2
      <4>2. i - 1 \in 0 .. n
        BY <1>2, <4>1
      <4> HIDE DEF stored
      <4>3. g[i - 1] = stored(i - 1)
        BY <4>2
      <4>4. QED
        BY <1>2, <3>2, <4>1, <4>3
    <3>3. QED
      BY <3>1, <3>2
  <2> HIDE DEF stored
  <2>2. QED
    BY <2>1
<1>4. Loop(after)
  <2> HIDE DEF Loop, g
  <2>1. QED
    BY <1>3
<1>5. \A i \in 0 .. n : after[i] = step(after, i)
  <2> HIDE DEF after
  <2>1. QED
    BY <1>4
<1> DEFINE Wrong == {i \in 0 .. n : after[i] # stored(i)}
<1>6. Wrong = {}
  <2>1. SUFFICES ASSUME Wrong # {} PROVE FALSE
    OBVIOUS
  <2>2. PICK i \in Wrong : \A j \in Wrong : i <= j
    <3>1. Wrong \subseteq Nat
      OBVIOUS
    <3> HIDE DEF Wrong
    <3>2. QED
      BY <2>1, <3>1, LeastExists
  <2>3. i \in 0 .. n /\ after[i] # stored(i)
    OBVIOUS
  <2>4. i # 0
    <3> HIDE DEF after
    <3>1. QED
      BY <1>1, <1>5, <2>3
  <2>5. i \in 1 .. n /\ i - 1 \in 0 .. n /\ ~(i <= i - 1)
    BY <1>1, <2>3, <2>4
  <2>6. i - 1 \notin Wrong
    BY <2>2, <2>5
  <2>7. after[i - 1] = stored(i - 1)
    BY <2>5, <2>6
  <2> HIDE DEF after, stored, Wrong
  <2>8. after[i] = set_peer(after[i - 1], k, ps[i])
    BY <1>5, <2>3, <2>4
  <2>9. QED
    BY <1>2, <2>3, <2>5, <2>7, <2>8
<1>7. after[n] = stored(n)
  <2> HIDE DEF after, stored
  <2>1. QED
    BY <1>1, <1>6
<1>8. stored(n) = set_peers(t, k, ps)
  <2>1. SubSeq(ps, 1, n) = ps
    OBVIOUS
  <2>2. n # 0
    BY <1>1
  <2>3. QED
    BY <2>1, <2>2
<1>9. set_each_peer(t, k, ps) = after[n]
  BY DEF set_each_peer
<1>10. QED
  BY <1>7, <1>8, <1>9

\* recv_rpc stores a received array peer by peer; the closed form the models
\* use answers the same table, from every reachable table.
THEOREM LoopCorrect == Spec => []SetPeersIsTheLoop
<1>1. TypeOK => SetPeersIsTheLoop
  <2>1. SUFFICES ASSUME TypeOK, NEW k \in Key,
                        NEW ps \in TupleOf(Peer, 1) \cup TupleOf(Peer, 3)
                 PROVE  set_peers(table, k, ps) = set_each_peer(table, k, ps)
    BY DEF SetPeersIsTheLoop
  <2>2. ps \in Seq(Peer) /\ ps # <<>>
    <3>1. PICK n \in {1, 3} : ps \in [1 .. n -> Peer]
      BY DEF TupleOf
    <3>2. n \in Nat /\ n # 0
      OBVIOUS
    <3>3. ps \in Seq(Peer) /\ Len(ps) = n
      BY <3>1, <3>2
    <3>4. QED
      BY <3>2, <3>3
  <2>3. QED
    BY <2>1, <2>2, SetPeersIsLoop DEF TypeOK
<1>2. QED
  BY <1>1, TypeCorrect, PTL
=============================================================================
