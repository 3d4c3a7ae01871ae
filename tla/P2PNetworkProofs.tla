-------------------------- MODULE P2PNetworkProofs --------------------------
(***************************************************************************)
(* Proofs about P2PNetwork, for any processes, neighbors, files, hashes,   *)
(* buffers and fault budgets.                                              *)
(***************************************************************************)
EXTENDS FiniteSetTheorems, P2PNetwork, PeerTableProofs

BagOf(B, S) == DOMAIN B \subseteq S /\ B \in [DOMAIN B -> Nat \ {0}]

\* What the methods look like in network byte order.
LEMMA Wire ==
  /\ htons(GET_PEERS) = 0 /\ ntohs(0) = 0
  /\ htons(JOIN) = 256 /\ ntohs(256) = 1
  /\ GET_PEERS = 0 /\ JOIN = 1
BY DEF htons, ntohs, GET_PEERS, JOIN

\* A datagram recv_rpc takes for a call or a reply was sent as one.
LEMMA MessageKind ==
  ASSUME NEW m \in Message
  PROVE  /\ IsCall(m, GET_PEERS) => m \in GetPeersCalls
         /\ IsCall(m, JOIN) => m \in JoinCalls
         /\ IsReply(m, GET_PEERS) => m \in PeersReplies
         /\ m.to \in Node
BY Wire DEF Message, GetPeersCalls, JoinCalls, PeersReplies, JoinReplies,
            IsCall, IsReply

\* Bags of datagrams are closed under the operations the actions use.
LEMMA BagPlus ==
  ASSUME NEW S, NEW B, NEW C, BagOf(B, S), BagOf(C, S)
  PROVE  BagOf(B (+) C, S) /\ DOMAIN (B (+) C) = DOMAIN B \cup DOMAIN C
<1>1. DOMAIN (B (+) C) = DOMAIN B \cup DOMAIN C
  BY DEF (+)
<1>2. \A e \in DOMAIN B \cup DOMAIN C : (B (+) C)[e] \in Nat \ {0}
  BY DEF (+), BagOf
<1>3. B (+) C = [e \in DOMAIN (B (+) C) |-> (B (+) C)[e]]
  BY DEF (+)
<1> QED
  BY <1>1, <1>2, <1>3 DEF BagOf

LEMMA BagMinus ==
  ASSUME NEW S, NEW B, NEW x, BagOf(B, S)
  PROVE  /\ BagOf(B (-) SetToBag({x}), S)
         /\ DOMAIN (B (-) SetToBag({x})) \subseteq DOMAIN B
BY DEF (-), SetToBag, BagOf

LEMMA SetBag ==
  ASSUME NEW S, NEW T, T \subseteq S
  PROVE  BagOf(SetToBag(T), S) /\ DOMAIN SetToBag(T) = T
BY DEF SetToBag, BagOf

LEMMA NoBag ==
  ASSUME NEW S
  PROVE  BagOf(EmptyBag, S) /\ DOMAIN EmptyBag = {}
BY SetBag DEF EmptyBag

LEMMA LargerBag ==
  ASSUME NEW S, NEW T, NEW B, BagOf(B, S), S \subseteq T
  PROVE  BagOf(B, T)
BY DEF BagOf

\* The datagrams get_peers sends.
LEMMA GetPeersBag ==
  ASSUME NEW n \in Node, NEW k \in Key, NEW src \in Node, NEW r \in Node
  PROVE  /\ BagOf(get_peers(n, k, src, r), GetPeersCalls)
         /\ \A m \in DOMAIN get_peers(n, k, src, r) : m.src = src
<1> DEFINE nb == bootstrap_neigbors(Neighbors[n])
           others == {i \in DOMAIN nb : nb[i] # origin(r)}
           first == {i \in others : \A j \in others : i <= j}
           T == {GetPeersCall(n, nb[i].port, src, k) : i \in first}
<1>1. \A i \in DOMAIN nb : nb[i].port \in Node
  <2>1. Neighbors[n] \in Seq(Node)
    BY NetworkAssumption
  <2>2. \A i \in DOMAIN Neighbors[n] : Neighbors[n][i] \in Node
    BY <2>1
  <2> QED
    BY <2>2 DEF bootstrap_neigbors
<1>2. \A i \in DOMAIN nb : GetPeersCall(n, nb[i].port, src, k) \in GetPeersCalls
  BY <1>1 DEF GetPeersCall, GetPeersCalls
<1>3. T \subseteq GetPeersCalls /\ \A m \in T : m.src = src
  BY <1>2 DEF GetPeersCall
<1>4. get_peers(n, k, src, r) = SetToBag(T)
  BY DEF get_peers
<1>5. BagOf(SetToBag(T), GetPeersCalls) /\ DOMAIN SetToBag(T) = T
  BY <1>3, SetBag
<1> QED
  BY <1>3, <1>4, <1>5

\* The datagrams join_peers sends.
LEMMA JoinAllBag ==
  ASSUME NEW n \in Node, NEW ps \in Seq(Node)
  PROVE  /\ BagOf(JoinAll(n, ps), JoinCalls)
         /\ \A m \in DOMAIN JoinAll(n, ps) : m.origin = n /\ m.to \in ToSet(ps)
<1> DEFINE T == {JoinCall(n, p) : p \in ToSet(ps)}
           At(m) == {i \in DOMAIN ps : ps[i] = m.to}
<1>1. ToSet(ps) \subseteq Node
  BY DEF ToSet
<1>2. T \subseteq JoinCalls /\ \A m \in T : m.origin = n /\ m.to \in ToSet(ps)
  BY <1>1 DEF JoinCall, JoinCalls
<1>3. ASSUME NEW m \in T PROVE Cardinality(At(m)) \in Nat \ {0}
  <2>1. m.to \in ToSet(ps)
    BY <1>2
  <2>2. At(m) # {}
    BY <2>1 DEF ToSet
  <2>3. Len(ps) \in Nat /\ DOMAIN ps = 1 .. Len(ps)
    BY LenProperties
  <2>4. IsFiniteSet(1 .. Len(ps)) /\ At(m) \subseteq 1 .. Len(ps)
    BY <2>3, FS_Interval
  <2>5. IsFiniteSet(At(m))
    BY <2>4, FS_Subset
  <2> QED
    BY <2>2, <2>5, FS_CardinalityType, FS_EmptySet
<1>4. JoinAll(n, ps) = [m \in T |-> Cardinality(At(m))]
  BY DEF JoinAll
<1>5. DOMAIN JoinAll(n, ps) = T /\ \A m \in T : JoinAll(n, ps)[m] \in Nat \ {0}
  BY <1>3, <1>4
<1>6. JoinAll(n, ps) = [m \in T |-> JoinAll(n, ps)[m]]
  BY <1>4
<1>7. JoinAll(n, ps) \in [T -> Nat \ {0}]
  BY <1>5, <1>6
<1> QED
  BY <1>2, <1>5, <1>7 DEF BagOf

LEMMA JoinPeersBag ==
  ASSUME NEW n \in Node, NEW t \in [Slot -> Bucket(Node)]
  PROVE  /\ BagOf(join_peers(n, t), JoinCalls)
         /\ \A m \in DOMAIN join_peers(n, t) :
              m.origin = n /\ m.to \in ToSet(t[Home(n)].data)
<1>1. FileHash[n] \in Key /\ Home(n) \in Slot
  BY NetworkAssumption, PeerTableAssumption DEF Home
<1>2. get_peer_bucket(t, FileHash[n]) \in {Home(n), NULL}
  BY DEF get_peer_bucket, Home
<1>3. t[Home(n)].data \in Seq(Node)
  BY <1>1 DEF Bucket
<1> QED
  BY <1>2, <1>3, JoinAllBag, NoBag DEF join_peers

-----------------------------------------------------------------------------
\* Taking a datagram and leaving others.
LEMMA RespondType ==
  ASSUME NEW m, NEW B, BagOf(net, Message), BagOf(B, Message), Respond(m, B)
  PROVE  BagOf(net', Message) /\ DOMAIN net' \subseteq DOMAIN net \cup DOMAIN B
<1> DEFINE rest == net (-) SetToBag({m})
<1>1. BagOf(rest, Message) /\ DOMAIN rest \subseteq DOMAIN net
  BY BagMinus
<1>2. net' = rest (+) B
  BY DEF Respond
<1> HIDE DEF rest
<1>3. BagOf(rest (+) B, Message)
  BY <1>1, BagPlus
<1>4. DOMAIN (rest (+) B) = DOMAIN rest \cup DOMAIN B
  BY DEF (+)
<1> QED
  BY <1>1, <1>2, <1>3, <1>4

\* The replies are datagrams.
LEMMA ReplyType ==
  ASSUME NEW n \in Node, NEW ps \in Seq(Node)
  PROVE  /\ BagOf(SetToBag({Reply(GET_PEERS, n, ps)}), Message)
         /\ BagOf(SetToBag({Reply(GET_PEERS, n, <<>>)}), Message)
         /\ BagOf(SetToBag({Reply(JOIN, n, <<>>)}), Message)
         /\ DOMAIN SetToBag({Reply(GET_PEERS, n, ps)}) = {Reply(GET_PEERS, n, ps)}
         /\ DOMAIN SetToBag({Reply(GET_PEERS, n, <<>>)}) = {Reply(GET_PEERS, n, <<>>)}
         /\ DOMAIN SetToBag({Reply(JOIN, n, <<>>)}) = {Reply(JOIN, n, <<>>)}
<1>1. <<>> \in Seq(Node)
  BY EmptySeq
<1>2. /\ Reply(GET_PEERS, n, ps) \in Message
      /\ Reply(GET_PEERS, n, <<>>) \in Message
      /\ Reply(JOIN, n, <<>>) \in Message
  BY <1>1 DEF Reply, Message, PeersReplies, JoinReplies
<1> QED
  BY <1>2, SetBag

\* What a GET_PEERS call asks for is a list of peers.
LEMMA BucketPeersType ==
  ASSUME TypeOK, NEW n \in Node, NEW m \in GetPeersCalls, HasBucket(n, m)
  PROVE  /\ BucketPeers(n, m) \in Seq(Node)
         /\ BucketPeers(n, m) = table[n][Hash[m.hash]].data
         /\ Hash[m.hash] \in Slot
<1>1. Hash[m.hash] \in Slot
  BY PeerTableAssumption DEF GetPeersCalls
<1>2. get_peer_bucket(table[n], m.hash) = Hash[m.hash]
  BY DEF HasBucket, get_peer_bucket
<1>3. table[n][Hash[m.hash]].data \in Seq(Node)
  BY <1>1 DEF TypeOK, Bucket
<1> QED
  BY <1>1, <1>2, <1>3 DEF BucketPeers

\* The table a process starts with.
LEMMA BootTableType ==
  ASSUME NEW n \in Node, NEW raw \in init_peer_table
  PROVE  /\ raw \in [Slot -> Bucket(Node)]
         /\ BootTable(n, raw) \in [Slot -> Bucket(Node)]
<1>1. raw \in [Slot -> Bucket(Node)]
  BY NewPeerArrayType DEF init_peer_table
<1> QED
  BY <1>1, SetPeersType, NetworkAssumption DEF BootTable

LEMMA BootStatusType ==
  ASSUME NEW n, NEW t
  PROVE  BootStatus(n, t) \in {"off", "up", "exited", "crashed", "segv"}
BY DEF BootStatus

LEMMA SpendType ==
  ASSUME TypeOK, NEW f \in Faults, Spend(f)
  PROVE  budget' \in [Faults -> Nat]
BY DEF Spend, TypeOK

\* The common part of StorePeers and StoreTooMany.
LEMMA StoreAndJoinType ==
  ASSUME TypeOK, NEW n \in Node, NEW m \in PeersReplies, m.peers # <<>>,
         StoreAndJoin(n, m)
  PROVE  /\ table' \in [Node -> [Slot -> Bucket(Node)]]
         /\ wait' \in [Node -> BOOLEAN]
         /\ BagOf(net', Message)
         /\ DOMAIN net' \subseteq DOMAIN net
              \cup DOMAIN join_peers(n, set_peers(table[n], FileHash[n], m.peers))
<1> DEFINE t == set_peers(table[n], FileHash[n], m.peers)
<1>1. m.peers \in Seq(Node) /\ FileHash[n] \in Key
      /\ table[n] \in [Slot -> Bucket(Node)]
  BY NetworkAssumption DEF PeersReplies, TypeOK
<1>2. t \in [Slot -> Bucket(Node)]
  BY <1>1, SetPeersType
<1>3. BagOf(join_peers(n, t), JoinCalls)
  BY <1>2, JoinPeersBag
<1>4. BagOf(join_peers(n, t), Message) /\ BagOf(EmptyBag, Message)
      /\ DOMAIN EmptyBag = {} /\ BagOf(net, Message)
  BY <1>3, LargerBag, NoBag DEF Message, TypeOK, BagOf
<1>5. CASE EnoughPeers(n, t)
  <2>1. Respond(m, join_peers(n, t)) /\ wait' = [wait EXCEPT ![n] = FALSE]
    BY <1>5 DEF StoreAndJoin, SetWait
  <2>2. /\ BagOf(net', Message)
        /\ DOMAIN net' \subseteq DOMAIN net \cup DOMAIN join_peers(n, t)
    BY <1>4, <2>1, RespondType
  <2> QED
    BY <1>2, <2>1, <2>2 DEF StoreAndJoin, TypeOK
<1>6. CASE ~EnoughPeers(n, t)
  <2>1. Respond(m, EmptyBag) /\ wait' = wait
    BY <1>6 DEF StoreAndJoin
  <2>2. BagOf(net', Message) /\ DOMAIN net' \subseteq DOMAIN net
    BY <1>4, <2>1, RespondType
  <2> QED
    BY <1>2, <2>1, <2>2 DEF StoreAndJoin, TypeOK
<1> QED
  BY <1>5, <1>6

\* The types of the C structures and of the datagrams hold in every network,
\* whatever malloc leaves in the tables.
THEOREM NetworkTypeCorrect == Spec => []TypeOK
<1>1. Init => TypeOK
  <2> SUFFICES ASSUME Init PROVE TypeOK
    OBVIOUS
  <2>1. table \in [Node -> [Slot -> Bucket(Node)]]
    BY BootTableType DEF Init
  <2>2. status \in [Node -> {"off", "up", "exited", "crashed", "segv"}]
    BY BootStatusType DEF Init
  <2>3. BagOf(net, Message)
    BY NoBag DEF Init
  <2> QED
    BY <2>1, <2>2, <2>3, NetworkAssumption DEF Init, TypeOK, BagOf
<1>2. TypeOK /\ [Next]_vars => TypeOK'
  <2> SUFFICES ASSUME TypeOK, [Next]_vars PROVE TypeOK'
    OBVIOUS
  <2>0. BagOf(net, Message) /\ DOMAIN net \subseteq Message /\ BagToSet(net) = DOMAIN net
    BY DEF TypeOK, BagOf, BagToSet
  <2>1. ASSUME NEW c \in Client, StartClient(c) PROVE TypeOK'
    <3>1. c \in Node /\ FileHash[c] \in Key
      BY NetworkAssumption
    <3>2. BagOf(get_peers(c, FileHash[c], c, c), Message)
      BY <3>1, GetPeersBag, LargerBag DEF Message
    <3>3. BagOf(net', Message)
      BY <2>0, <2>1, <3>2, BagPlus DEF StartClient
    <3>4. get_peer_bucket(table[c], FileHash[c]) \in Slot \cup {NULL}
      BY <3>1, GetPeerBucketType
    <3> QED
      BY <2>1, <3>1, <3>3, <3>4 DEF StartClient, TypeOK, BagOf
  <2>2. ASSUME NEW n \in Node, NEW m \in DOMAIN net, AnswerNoBucket(n, m) PROVE TypeOK'
    <3>1. m \in GetPeersCalls
      BY <2>0, <2>2, MessageKind DEF AnswerNoBucket
    <3>2. m.origin \in Node
      BY <3>1 DEF GetPeersCalls
    <3>3. BagOf(net', Message)
      BY <2>0, <2>2, <3>2, EmptySeq, ReplyType, RespondType DEF AnswerNoBucket
    <3> QED
      BY <2>2, <3>3 DEF AnswerNoBucket, TypeOK, BagOf
  <2>3. ASSUME NEW n \in Node, NEW m \in DOMAIN net, ForwardGetPeers(n, m) PROVE TypeOK'
    <3>1. m \in GetPeersCalls
      BY <2>0, <2>3, MessageKind DEF ForwardGetPeers
    <3>2. m.origin \in Node /\ m.src \in Node /\ FileHash[n] \in Key
      BY <3>1, NetworkAssumption DEF GetPeersCalls
    <3>3. BagOf(get_peers(n, FileHash[n], m.src, m.origin), Message)
      BY <3>2, GetPeersBag, LargerBag DEF Message
    <3>4. BagOf(net', Message)
      BY <2>0, <2>3, <3>3, RespondType DEF ForwardGetPeers
    <3> QED
      BY <2>3, <3>4 DEF ForwardGetPeers, SetWait, TypeOK, BagOf
  <2>4. ASSUME NEW n \in Node, NEW m \in DOMAIN net, AnswerPeers(n, m) PROVE TypeOK'
    <3>1. m \in GetPeersCalls
      BY <2>0, <2>4, MessageKind DEF AnswerPeers
    <3>2. m.src \in Node /\ BucketPeers(n, m) \in Seq(Node)
      BY <2>4, <3>1, BucketPeersType DEF GetPeersCalls, AnswerPeers
    <3>3. BagOf(net', Message)
      BY <2>0, <2>4, <3>2, ReplyType, RespondType DEF AnswerPeers
    <3> QED
      BY <2>4, <3>3 DEF AnswerPeers, SetWait, TypeOK, BagOf
  <2>5. ASSUME NEW n \in Node, NEW m \in DOMAIN net, AnswerTooMany(n, m) PROVE TypeOK'
    <3>1. m \in GetPeersCalls
      BY <2>0, <2>5, MessageKind DEF AnswerTooMany
    <3>2. m.src \in Node /\ BucketPeers(n, m) \in Seq(Node)
      BY <2>5, <3>1, BucketPeersType DEF GetPeersCalls, AnswerTooMany
    <3>3. BagOf(net', Message)
      BY <2>0, <2>5, <3>2, ReplyType, NoBag, RespondType DEF AnswerTooMany
    <3> QED
      BY <2>5, <3>3 DEF AnswerTooMany, SetWait, TypeOK, BagOf
  <2>6. ASSUME NEW n \in Node, NEW m \in DOMAIN net, AcceptJoin(n, m) PROVE TypeOK'
    <3>1. m \in JoinCalls
      BY <2>0, <2>6, MessageKind DEF AcceptJoin
    <3>2. m.origin \in Node /\ FileHash[n] \in Key
          /\ table[n] \in [Slot -> Bucket(Node)]
      BY <3>1, NetworkAssumption DEF JoinCalls, TypeOK
    <3>3. BagOf(net', Message)
      BY <2>0, <2>6, <3>2, EmptySeq, ReplyType, RespondType DEF AcceptJoin
    <3>4. set_peer(table[n], FileHash[n], m.origin) \in [Slot -> Bucket(Node)]
      BY <3>2, SetPeerType
    <3> QED
      BY <2>6, <3>3, <3>4 DEF AcceptJoin, TypeOK, BagOf
  <2>7. ASSUME NEW n \in Node, NEW m \in DOMAIN net,
               IgnoreEmptyReply(n, m) \/ IgnoreReply(n, m)
        PROVE  TypeOK'
    <3>1. BagOf(net', Message)
      BY <2>0, <2>7, NoBag, RespondType DEF IgnoreEmptyReply, IgnoreReply
    <3> QED
      BY <2>7, <3>1 DEF IgnoreEmptyReply, IgnoreReply, TypeOK, BagOf
  <2>8. ASSUME NEW n \in Node, NEW m \in DOMAIN net, StorePeers(n, m) PROVE TypeOK'
    <3>1. m \in PeersReplies
      BY <2>0, <2>8, MessageKind DEF StorePeers
    <3> QED
      BY <2>8, <3>1, StoreAndJoinType DEF StorePeers, TypeOK, BagOf
  <2>9. ASSUME NEW n \in Node, NEW m \in DOMAIN net, StoreTooMany(n, m) PROVE TypeOK'
    <3>1. m \in PeersReplies
      BY <2>0, <2>9, MessageKind DEF StoreTooMany
    <3>2. m.peers # <<>>
      BY <2>9, PeerTableAssumption DEF StoreTooMany
    <3>3. CASE StoreAndJoin(n, m)
      BY <2>9, <3>1, <3>2, <3>3, StoreAndJoinType DEF StoreTooMany, TypeOK, BagOf
    <3>4. CASE Respond(m, EmptyBag) /\ UNCHANGED <<table, wait>>
      <4>1. BagOf(net', Message)
        BY <2>0, <3>4, NoBag, RespondType
      <4> QED
        BY <2>9, <3>4, <4>1 DEF StoreTooMany, TypeOK, BagOf
    <3> QED
      BY <2>9, <3>3, <3>4 DEF StoreTooMany
  <2>10. ASSUME NEW c \in Client, TimeoutNull(c) \/ TimeoutExit(c) PROVE TypeOK'
    BY <2>10 DEF TimeoutNull, TimeoutExit, TypeOK
  <2>11. ASSUME NEW c \in Client, TimeoutJoin(c) PROVE TypeOK'
    <3>1. c \in Node /\ table[c] \in [Slot -> Bucket(Node)]
      BY NetworkAssumption DEF TypeOK
    <3>2. BagOf(join_peers(c, table[c]), Message)
      BY <3>1, JoinPeersBag, LargerBag DEF Message
    <3>3. BagOf(net', Message)
      BY <2>0, <2>11, <3>2, BagPlus DEF TimeoutJoin
    <3>4. budget' \in [Faults -> Nat]
      BY <2>11, SpendType DEF TimeoutJoin, Faults
    <3> QED
      BY <2>11, <3>3, <3>4 DEF TimeoutJoin, TypeOK, BagOf
  <2>12. ASSUME NEW n \in Node, Crash(n) PROVE TypeOK'
    <3>1. budget' \in [Faults -> Nat]
      BY <2>12, SpendType DEF Crash, Faults
    <3> QED
      BY <2>12, <3>1 DEF Crash, TypeOK
  <2>13. ASSUME NEW n \in Server, RestartServer(n) PROVE TypeOK'
    <3>1. n \in Node
      BY DEF Server
    <3>2. table' \in [Node -> [Slot -> Bucket(Node)]]
      BY <2>13, <3>1, BootTableType DEF RestartServer, TypeOK
    <3>3. status' \in [Node -> {"off", "up", "exited", "crashed", "segv"}]
      BY <2>13, <3>1, BootStatusType DEF RestartServer, TypeOK
    <3> QED
      BY <2>13, <3>2, <3>3 DEF RestartServer, TypeOK
  <2>14. ASSUME NEW n \in Node, NEW m \in DOMAIN net, JoinReplyFails(n, m) PROVE TypeOK'
    <3>1. BagOf(net', Message)
      BY <2>0, <2>14, NoBag, RespondType DEF JoinReplyFails
    <3>2. budget' \in [Faults -> Nat]
      BY <2>14, SpendType DEF JoinReplyFails, Faults
    <3> QED
      BY <2>14, <3>1, <3>2 DEF JoinReplyFails, TypeOK, BagOf
  <2>15. ASSUME NEW m \in DOMAIN net, DropUnbound(m) PROVE TypeOK'
    <3>1. BagOf(net', Message)
      BY <2>0, <2>15, BagMinus DEF DropUnbound
    <3> QED
      BY <2>15, <3>1 DEF DropUnbound, TypeOK, BagOf
  <2>16. ASSUME NEW m \in DOMAIN net, Lose(m) PROVE TypeOK'
    <3>1. BagOf(net', Message)
      BY <2>0, <2>16, BagMinus DEF Lose
    <3>2. budget' \in [Faults -> Nat]
      BY <2>16, SpendType DEF Lose, Faults
    <3> QED
      BY <2>16, <3>1, <3>2 DEF Lose, TypeOK, BagOf
  <2>17. ASSUME NEW m \in DOMAIN net, Duplicate(m) PROVE TypeOK'
    <3>1. BagOf(SetToBag({m}), Message)
      BY <2>0, SetBag
    <3>2. BagOf(net', Message)
      BY <2>0, <2>17, <3>1, BagPlus DEF Duplicate
    <3>3. budget' \in [Faults -> Nat]
      BY <2>17, SpendType DEF Duplicate, Faults
    <3> QED
      BY <2>17, <3>2, <3>3 DEF Duplicate, TypeOK, BagOf
  <2>18. CASE UNCHANGED vars
    BY <2>18 DEF vars, TypeOK
  <2> QED
    BY <2>0, <2>1, <2>2, <2>3, <2>4, <2>5, <2>6, <2>7, <2>8, <2>9, <2>10,
       <2>11, <2>12, <2>13, <2>14, <2>15, <2>16, <2>17, <2>18
       DEF Next, Receive, Timeout
<1> QED
  BY <1>1, <1>2, PTL DEF Spec

-----------------------------------------------------------------------------
\* The elements of a longer sequence.
LEMMA ToSetAppend ==
  ASSUME NEW S, NEW q \in Seq(S), NEW e \in S
  PROVE  ToSet(Append(q, e)) = ToSet(q) \cup {e}
<1>1. /\ Len(q) \in Nat /\ DOMAIN q = 1 .. Len(q)
      /\ DOMAIN Append(q, e) = 1 .. Len(q) + 1
      /\ \A i \in 1 .. Len(q) : Append(q, e)[i] = q[i]
      /\ Append(q, e)[Len(q) + 1] = e
  BY AppendProperties, LenProperties
<1> QED
  BY <1>1 DEF ToSet

LEMMA ToSetConcat ==
  ASSUME NEW S, NEW q \in Seq(S), NEW r \in Seq(S)
  PROVE  ToSet(q \o r) = ToSet(q) \cup ToSet(r)
<1>1. /\ Len(q) \in Nat /\ DOMAIN q = 1 .. Len(q)
      /\ Len(r) \in Nat /\ DOMAIN r = 1 .. Len(r)
      /\ DOMAIN (q \o r) = 1 .. Len(q) + Len(r)
      /\ \A i \in 1 .. Len(q) + Len(r) :
           (q \o r)[i] = IF i <= Len(q) THEN q[i] ELSE r[i - Len(q)]
  BY ConcatProperties, LenProperties
<1>2. \A i \in 1 .. Len(r) : (q \o r)[i + Len(q)] = r[i]
  BY <1>1
<1>3. ToSet(q \o r) \subseteq ToSet(q) \cup ToSet(r)
  BY <1>1 DEF ToSet
<1>4. ToSet(q) \subseteq ToSet(q \o r)
  BY <1>1 DEF ToSet
<1>5. ToSet(r) \subseteq ToSet(q \o r)
  <2>1. \A i \in 1 .. Len(r) : i + Len(q) \in DOMAIN (q \o r)
    BY <1>1
  <2> QED
    BY <1>1, <1>2, <2>1 DEF ToSet
<1> QED
  BY <1>3, <1>4, <1>5

LEMMA ToSetEmpty ==
  ASSUME NEW S, NEW q \in Seq(S)
  PROVE  ToSet(q) = {} <=> q = <<>>
<1>1. Len(q) \in Nat /\ DOMAIN q = 1 .. Len(q)
  BY LenProperties
<1>2. ToSet(q) = {} <=> DOMAIN q = {}
  BY DEF ToSet
<1>3. CASE q = <<>>
  BY <1>2, <1>3
<1>4. CASE q # <<>>
  <2>1. 1 \in DOMAIN q
    BY <1>1, <1>4, EmptySeq
  <2> QED
    BY <1>2, <1>4, <2>1
<1> QED
  BY <1>3, <1>4

\* A table in which only slot h, the home of key k, is used: storing peers
\* under k appends them there and leaves the table that way.
UsesOnly(t, h) ==
  /\ t[h].active => t[h].key = h
  /\ \A s \in Slot \ {h} : t[s].data = <<>>

LEMMA SetPeerHome ==
  ASSUME NEW t \in [Slot -> Bucket(Node)], NEW k \in Key, NEW p \in Node,
         UsesOnly(t, Hash[k])
  PROVE  /\ UsesOnly(set_peer(t, k, p), Hash[k])
         /\ ToSet(set_peer(t, k, p)[Hash[k]].data) = ToSet(t[Hash[k]].data) \cup {p}
<1>1. Hash[k] \in Slot /\ t[Hash[k]].data \in Seq(Node)
  BY PeerTableAssumption DEF Bucket
<1>2. set_peer(t, k, p) = [t EXCEPT ![Hash[k]] =
        [active |-> TRUE, key |-> Hash[k], data |-> Append(t[Hash[k]].data, p)]]
  BY DEF set_peer, push_peer, HomeUsable, UsesOnly
<1> QED
  BY <1>1, <1>2, ToSetAppend DEF UsesOnly

LEMMA SetPeersHome ==
  ASSUME NEW t \in [Slot -> Bucket(Node)], NEW k \in Key, NEW ps \in Seq(Node),
         UsesOnly(t, Hash[k])
  PROVE  /\ UsesOnly(set_peers(t, k, ps), Hash[k])
         /\ ToSet(set_peers(t, k, ps)[Hash[k]].data)
              = ToSet(t[Hash[k]].data) \cup ToSet(ps)
<1>1. Hash[k] \in Slot /\ t[Hash[k]].data \in Seq(Node)
  BY PeerTableAssumption DEF Bucket
<1>2. set_peers(t, k, ps) = [t EXCEPT ![Hash[k]] =
        [active |-> TRUE, key |-> Hash[k], data |-> t[Hash[k]].data \o ps]]
  BY DEF set_peers, HomeUsable, UsesOnly
<1> QED
  BY <1>1, <1>2, ToSetConcat DEF UsesOnly

\* A process starts with the seeds in its home slot, or with nothing.
LEMMA BootTableHome ==
  ASSUME HeapActive \subseteq {FALSE}, NEW n \in Node, NEW raw \in init_peer_table
  PROVE  /\ UsesOnly(BootTable(n, raw), Home(n))
         /\ ToSet(BootTable(n, raw)[Home(n)].data) \subseteq ToSet(SeedPeers)
         /\ n \in Client => ToSet(BootTable(n, raw)[Home(n)].data) = {}
<1>1. /\ raw \in [Slot -> Bucket(Node)] /\ FileHash[n] \in Key
      /\ Home(n) \in Slot /\ Home(n) = Hash[FileHash[n]] /\ SeedPeers \in Seq(Node)
  BY BootTableType, NetworkAssumption, PeerTableAssumption DEF Home
<1>2. \A s \in Slot : raw[s].active = FALSE /\ raw[s].data = <<>>
  BY DEF init_peer_table, new_peer_array
<1>3. UsesOnly(raw, Home(n))
  BY <1>1, <1>2 DEF UsesOnly
<1>4. ToSet(raw[Home(n)].data) = {}
  BY <1>1, <1>2, ToSetEmpty, EmptySeq
<1> QED
  BY <1>1, <1>3, <1>4, SetPeersHome DEF BootTable, Seeded, Server

-----------------------------------------------------------------------------
\* The four kinds of datagrams are told apart by type and method.
LEMMA KindsDisjoint ==
  /\ \A m \in GetPeersCalls : m.type # "REPLY" /\ ~IsCall(m, JOIN)
  /\ \A m \in JoinCalls : m.type # "REPLY" /\ ~IsCall(m, GET_PEERS)
BY Wire DEF GetPeersCalls, JoinCalls, IsCall

LEMMA GetPeersCallOK ==
  ASSUME NEW m \in GetPeersCalls, m.src \in Client
  PROVE  MessageOK(m)
BY KindsDisjoint DEF MessageOK

LEMMA JoinCallOK ==
  ASSUME NEW m \in JoinCalls, m.origin \in Client, m.to \in Listed(m.origin)
  PROVE  MessageOK(m)
BY KindsDisjoint DEF MessageOK

LEMMA ReplyOK ==
  ASSUME NEW x, NEW n, NEW ps, \A p \in ToSet(ps) : Known(p),
         ps # <<>> => n \in Client
  PROVE  MessageOK(Reply(x, n, ps))
BY DEF MessageOK, Reply, IsCall

LEMMA EmptyReplyOK ==
  ASSUME NEW x, NEW n
  PROVE  MessageOK(Reply(x, n, <<>>))
<1>1. ToSet(<<>>) = {}
  BY ToSetEmpty, EmptySeq
<1> QED
  BY <1>1, ReplyOK

\* A step that leaves the tables alone.
LEMMA QuietStep ==
  ASSUME Provenance, JoinIsMutual, UNCHANGED table,
         \A m \in DOMAIN net' : m \in DOMAIN net \/ MessageOK(m),
         \A c \in Client : status'[c] = "exited" =>
                             status[c] = "exited" \/ Listed(c) = {}
  PROVE  Provenance' /\ JoinIsMutual'
<1>1. \A n : Listed(n)' = Listed(n) /\ (HomeOnly(n)' <=> HomeOnly(n))
  BY DEF Listed, HomeOnly, Home
<1>2. \A p : Known(p)' <=> Known(p)
  BY <1>1 DEF Known
<1>3. \A m : MessageOK(m)' <=> MessageOK(m)
  BY <1>1, <1>2 DEF MessageOK
<1>4. \A m \in DOMAIN net' : MessageOK(m)'
  BY <1>3 DEF Provenance, BagToSet
<1>5. Provenance'
  BY <1>1, <1>2, <1>4 DEF Provenance, BagToSet
<1> QED
  BY <1>1, <1>5 DEF JoinIsMutual

\* A step by which process n adds the peers New to its list.
LEMMA GrowStep ==
  ASSUME Provenance, JoinIsMutual, NEW n \in Node, NEW New,
         \A x \in Node : HomeOnly(x)',
         Listed(n)' = Listed(n) \cup New,
         \A x \in Node \ {n} : Listed(x)' = Listed(x),
         \A p \in New : Known(p),
         n \in Server => \A p \in New : p \in Client /\ n \in Listed(p),
         status[n] = "up",
         \A c \in Client : status'[c] = "exited" => status[c] = "exited",
         \A m \in DOMAIN net' : m \in DOMAIN net \/ MessageOK(m)'
  PROVE  Provenance' /\ JoinIsMutual'
<1>1. Client \subseteq Node
  BY NetworkAssumption
<1>2. \A x \in Node : Listed(x) \subseteq Listed(x)'
  OBVIOUS
<1>3. \A p : Known(p) => Known(p)'
  BY <1>1, <1>2 DEF Known
<1>4. ASSUME NEW m, MessageOK(m) PROVE MessageOK(m)'
  BY <1>1, <1>2, <1>3, <1>4 DEF MessageOK
<1>5. \A m \in DOMAIN net' : MessageOK(m)'
  BY <1>4 DEF Provenance, BagToSet
<1>6. \A x \in Node : \A p \in Listed(x)' : Known(p)'
  BY <1>3 DEF Provenance
<1>7. \A c \in Client : status'[c] = "exited" => Listed(c)' = {}
  <2> SUFFICES ASSUME NEW c \in Client, status'[c] = "exited" PROVE Listed(c)' = {}
    OBVIOUS
  <2>1. status[c] = "exited" /\ c # n /\ Listed(c) = {}
    BY DEF Provenance
  <2> QED
    BY <1>1, <2>1
<1>8. Provenance'
  BY <1>5, <1>6, <1>7 DEF Provenance, BagToSet
<1>9. JoinIsMutual'
  BY <1>1, <1>2 DEF JoinIsMutual, Server
<1> QED
  BY <1>8, <1>9

-----------------------------------------------------------------------------
\* A list recv_rpc sends out holds only known peers.
LEMMA BucketPeersKnown ==
  ASSUME TypeOK, Provenance, NEW n \in Node, NEW m \in GetPeersCalls, HasBucket(n, m)
  PROVE  \A p \in ToSet(BucketPeers(n, m)) : Known(p)
<1>1. /\ BucketPeers(n, m) = table[n][Hash[m.hash]].data
      /\ Hash[m.hash] \in Slot /\ BucketPeers(n, m) \in Seq(Node)
  BY BucketPeersType
<1>2. CASE Hash[m.hash] = Home(n)
  BY <1>1, <1>2 DEF Provenance, Listed
<1>3. CASE Hash[m.hash] # Home(n)
  <2>1. BucketPeers(n, m) = <<>>
    BY <1>1, <1>3 DEF Provenance, HomeOnly
  <2> QED
    BY <1>1, <2>1, ToSetEmpty
<1> QED
  BY <1>2, <1>3

\* Storing the peers of a reply and joining, the common part of StorePeers and
\* StoreTooMany.
LEMMA StoreAndJoinStep ==
  ASSUME TypeOK, Provenance, JoinIsMutual,
         NEW n \in Node, NEW m \in PeersReplies, m \in DOMAIN net,
         m.peers # <<>>, Arrives(n, m), StoreAndJoin(n, m),
         \A c \in Client : status'[c] = "exited" => status[c] = "exited"
  PROVE  Provenance' /\ JoinIsMutual'
<1> DEFINE t == set_peers(table[n], FileHash[n], m.peers)
<1>1. /\ m.peers \in Seq(Node) /\ FileHash[n] \in Key
      /\ table[n] \in [Slot -> Bucket(Node)]
      /\ Home(n) = Hash[FileHash[n]]
  BY NetworkAssumption DEF PeersReplies, TypeOK, Home
<1>2. UsesOnly(table[n], Home(n))
  BY DEF Provenance, HomeOnly, UsesOnly
<1>3. /\ UsesOnly(t, Home(n))
      /\ ToSet(t[Home(n)].data) = Listed(n) \cup ToSet(m.peers)
  BY <1>1, <1>2, SetPeersHome DEF Listed
<1>4. t \in [Slot -> Bucket(Node)]
  BY <1>1, SetPeersType
<1>5. table' = [table EXCEPT ![n] = t] /\ table \in [Node -> [Slot -> Bucket(Node)]]
  BY DEF StoreAndJoin, TypeOK
<1> HIDE DEF t
<1>6. /\ table'[n] = t
      /\ \A x \in Node \ {n} : table'[x] = table[x]
  BY <1>5
<1>7. /\ Listed(n)' = Listed(n) \cup ToSet(m.peers)
      /\ \A x \in Node \ {n} : Listed(x)' = Listed(x)
  BY <1>3, <1>6 DEF Listed, Home
<1>8. \A x \in Node : HomeOnly(x)'
  <2>1. HomeOnly(n)'
    BY <1>3, <1>6 DEF HomeOnly, UsesOnly, Home
  <2>2. \A x \in Node \ {n} : HomeOnly(x)'
    BY <1>6 DEF HomeOnly, Home, Provenance
  <2> QED
    BY <2>1, <2>2
<1>9. MessageOK(m) /\ m.type = "REPLY" /\ m.to = n /\ status[n] = "up"
  BY DEF Provenance, BagToSet, PeersReplies, Arrives
<1>10. n \in Client /\ \A p \in ToSet(m.peers) : Known(p)
  BY <1>9 DEF MessageOK
<1>11. DOMAIN net' \subseteq DOMAIN net \cup DOMAIN join_peers(n, t)
  BY StoreAndJoinType DEF t
<1>12. ASSUME NEW j \in DOMAIN join_peers(n, t) PROVE MessageOK(j)'
  <2>1. j \in JoinCalls /\ j.origin = n /\ j.to \in ToSet(t[Home(n)].data)
    BY <1>4, JoinPeersBag DEF BagOf
  <2>2. j.to \in Listed(j.origin)'
    BY <1>6, <2>1 DEF Listed, Home
  <2> QED
    BY <1>10, <2>1, <2>2, KindsDisjoint DEF MessageOK
<1> QED
  BY <1>7, <1>8, <1>9, <1>10, <1>11, <1>12, GrowStep DEF Server

\* One step of the network.
LEMMA InvariantStep ==
  ASSUME HeapActive \subseteq {FALSE}, TypeOK, Provenance, JoinIsMutual, [Next]_vars
  PROVE  Provenance' /\ JoinIsMutual'
<1>0. /\ BagOf(net, Message) /\ DOMAIN net \subseteq Message
      /\ BagToSet(net) = DOMAIN net /\ \A m \in DOMAIN net : MessageOK(m)
  BY DEF TypeOK, BagOf, BagToSet, Provenance
<1>1. ASSUME NEW c \in Client, StartClient(c) PROVE Provenance' /\ JoinIsMutual'
  <2> DEFINE B == get_peers(c, FileHash[c], c, c)
  <2>1. c \in Node /\ FileHash[c] \in Key
    BY NetworkAssumption
  <2>2. BagOf(B, GetPeersCalls) /\ \A m \in DOMAIN B : m.src = c
    BY <2>1, GetPeersBag
  <2>3. \A m \in DOMAIN B : MessageOK(m)
    BY <2>2, GetPeersCallOK DEF BagOf
  <2>4. net' = net (+) B /\ UNCHANGED table /\ status' = [status EXCEPT ![c] = "up"]
    BY <1>1 DEF StartClient
  <2> HIDE DEF B
  <2>5. DOMAIN net' = DOMAIN net \cup DOMAIN B
    BY <2>4 DEF (+)
  <2> QED
    BY <2>3, <2>4, <2>5, QuietStep DEF TypeOK
<1>2. ASSUME NEW n \in Node, NEW m \in DOMAIN net, AnswerNoBucket(n, m)
      PROVE  Provenance' /\ JoinIsMutual'
  <2>1. m \in GetPeersCalls /\ m.origin \in Node
    BY <1>0, <1>2, MessageKind DEF AnswerNoBucket, GetPeersCalls
  <2>2. DOMAIN net' \subseteq DOMAIN net \cup {Reply(GET_PEERS, m.origin, <<>>)}
    BY <1>0, <1>2, <2>1, EmptySeq, ReplyType, RespondType DEF AnswerNoBucket
  <2>3. UNCHANGED <<table, status>>
    BY <1>2 DEF AnswerNoBucket
  <2> QED
    BY <2>2, <2>3, EmptyReplyOK, QuietStep
<1>3. ASSUME NEW n \in Node, NEW m \in DOMAIN net, ForwardGetPeers(n, m)
      PROVE  Provenance' /\ JoinIsMutual'
  <2> DEFINE B == get_peers(n, FileHash[n], m.src, m.origin)
  <2>1. m \in GetPeersCalls /\ m.src \in Client
    BY <1>0, <1>3, MessageKind DEF ForwardGetPeers, MessageOK
  <2>2. m.origin \in Node /\ m.src \in Node /\ FileHash[n] \in Key
    BY <2>1, NetworkAssumption DEF GetPeersCalls
  <2>3. BagOf(B, GetPeersCalls) /\ \A x \in DOMAIN B : x.src = m.src
    BY <2>2, GetPeersBag
  <2>4. \A x \in DOMAIN B : MessageOK(x)
    BY <2>1, <2>3, GetPeersCallOK DEF BagOf
  <2>5. BagOf(B, Message)
    BY <2>3, LargerBag DEF Message
  <2>6. Respond(m, B) /\ UNCHANGED <<table, status>>
    BY <1>3 DEF ForwardGetPeers
  <2> HIDE DEF B
  <2>7. DOMAIN net' \subseteq DOMAIN net \cup DOMAIN B
    BY <1>0, <2>5, <2>6, RespondType
  <2> QED
    BY <2>4, <2>6, <2>7, QuietStep
<1>4. ASSUME NEW n \in Node, NEW m \in DOMAIN net,
             AnswerPeers(n, m) \/ AnswerTooMany(n, m)
      PROVE  Provenance' /\ JoinIsMutual'
  <2> DEFINE r == Reply(GET_PEERS, m.src, BucketPeers(n, m))
  <2>1. m \in GetPeersCalls /\ m.src \in Client /\ HasBucket(n, m)
    BY <1>0, <1>4, MessageKind DEF AnswerPeers, AnswerTooMany, MessageOK
  <2>2. m.src \in Node /\ BucketPeers(n, m) \in Seq(Node)
    BY <2>1, BucketPeersType DEF GetPeersCalls
  <2>3. MessageOK(r)
    BY <2>1, BucketPeersKnown, ReplyOK
  <2>4. DOMAIN net' \subseteq DOMAIN net \cup {r}
    <3>0. BagOf(SetToBag({r}), Message) /\ DOMAIN SetToBag({r}) = {r}
      BY <2>2, ReplyType
    <3>1. CASE Respond(m, SetToBag({r}))
      <4> HIDE DEF r
      <4> QED
        BY <1>0, <3>0, <3>1, RespondType
    <3>2. CASE Respond(m, EmptyBag)
      BY <1>0, <3>2, NoBag, RespondType
    <3> QED
      BY <1>4, <3>1, <3>2 DEF AnswerPeers, AnswerTooMany
  <2>5. /\ UNCHANGED table
        /\ status' = status \/ status' = [status EXCEPT ![n] = "segv"]
    BY <1>4 DEF AnswerPeers, AnswerTooMany
  <2>6. \A c \in Client : status'[c] = "exited" => status[c] = "exited"
    BY <2>5, NetworkAssumption DEF TypeOK
  <2> HIDE DEF r
  <2>7. \A x \in DOMAIN net' : x \in DOMAIN net \/ MessageOK(x)
    BY <2>3, <2>4
  <2> QED
    BY <2>5, <2>6, <2>7, QuietStep
<1>5. ASSUME NEW n \in Node, NEW m \in DOMAIN net, AcceptJoin(n, m)
      PROVE  Provenance' /\ JoinIsMutual'
  <2> DEFINE o == m.origin
             t == set_peer(table[n], FileHash[n], o)
  <2>1. m \in JoinCalls /\ o \in Client /\ n \in Listed(o) /\ status[n] = "up"
    BY <1>0, <1>5, MessageKind DEF AcceptJoin, MessageOK, Arrives
  <2>2. /\ o \in Node /\ FileHash[n] \in Key /\ Home(n) = Hash[FileHash[n]]
        /\ table \in [Node -> [Slot -> Bucket(Node)]]
    BY <2>1, NetworkAssumption DEF TypeOK, Home
  <2>3. UsesOnly(table[n], Home(n))
    BY DEF Provenance, HomeOnly, UsesOnly
  <2>4. UsesOnly(t, Home(n)) /\ ToSet(t[Home(n)].data) = Listed(n) \cup {o}
    <3>1. table[n] \in [Slot -> Bucket(Node)] /\ UsesOnly(table[n], Hash[FileHash[n]])
      BY <2>2, <2>3
    <3> DEFINE T == table[n]
               K == FileHash[n]
    <3> HIDE DEF o, T, K
    <3>2. /\ UsesOnly(set_peer(T, K, o), Hash[K])
          /\ ToSet(set_peer(T, K, o)[Hash[K]].data) = ToSet(T[Hash[K]].data) \cup {o}
      <4>1. T \in [Slot -> Bucket(Node)] /\ K \in Key /\ o \in Node
        BY <2>2, <3>1 DEF T, K
      <4>2. UsesOnly(T, Hash[K])
        BY <3>1 DEF T, K
      <4> QED
        BY <4>1, <4>2, SetPeerHome
    <3> QED
      BY <2>2, <3>2 DEF Listed, T, K
  <2>5. table' = [table EXCEPT ![n] = t] /\ UNCHANGED status
    BY <1>5 DEF AcceptJoin
  <2>6. DOMAIN net' \subseteq DOMAIN net \cup {Reply(JOIN, o, <<>>)}
    BY <1>0, <1>5, <2>2, EmptySeq, ReplyType, RespondType DEF AcceptJoin
  <2>7. Known(o)
    BY <2>1 DEF Known
  <2> HIDE DEF o, t
  <2>8. table'[n] = t /\ \A x \in Node \ {n} : table'[x] = table[x]
    BY <2>2, <2>5
  <2>9. /\ Listed(n)' = Listed(n) \cup {o}
        /\ \A x \in Node \ {n} : Listed(x)' = Listed(x)
    BY <2>4, <2>8 DEF Listed, Home
  <2>10. \A x \in Node : HomeOnly(x)'
    <3>1. HomeOnly(n)'
      BY <2>4, <2>8 DEF HomeOnly, UsesOnly, Home
    <3>2. \A x \in Node \ {n} : HomeOnly(x)'
      BY <2>8 DEF HomeOnly, Home, Provenance
    <3> QED
      BY <3>1, <3>2
  <2>11. ToSet(<<>>) = {}
    BY ToSetEmpty, EmptySeq
  <2>12. MessageOK(Reply(JOIN, o, <<>>))'
    BY <2>11 DEF MessageOK, Reply, IsCall
  <2>13. /\ \A p \in {o} : Known(p)
         /\ \A p \in {o} : p \in Client /\ n \in Listed(p)
         /\ \A x \in DOMAIN net' : x \in DOMAIN net \/ MessageOK(x)'
         /\ \A c \in Client : status'[c] = "exited" => status[c] = "exited"
    BY <2>1, <2>5, <2>6, <2>7, <2>12
  <2> QED
    BY <2>1, <2>9, <2>10, <2>13, GrowStep
<1>6. ASSUME NEW n \in Node, NEW m \in DOMAIN net,
             \/ IgnoreEmptyReply(n, m) \/ IgnoreReply(n, m) \/ JoinReplyFails(n, m)
      PROVE  Provenance' /\ JoinIsMutual'
  <2>1. Respond(m, EmptyBag) /\ UNCHANGED <<table, status>>
    BY <1>6 DEF IgnoreEmptyReply, IgnoreReply, JoinReplyFails
  <2>2. DOMAIN net' \subseteq DOMAIN net
    BY <1>0, <2>1, NoBag, RespondType
  <2> QED
    BY <2>1, <2>2, QuietStep
<1>7. ASSUME NEW n \in Node, NEW m \in DOMAIN net, StorePeers(n, m)
      PROVE  Provenance' /\ JoinIsMutual'
  <2>1. m \in PeersReplies
    BY <1>0, <1>7, MessageKind DEF StorePeers
  <2> QED
    BY <1>7, <2>1, StoreAndJoinStep DEF StorePeers
<1>8. ASSUME NEW n \in Node, NEW m \in DOMAIN net, StoreTooMany(n, m)
      PROVE  Provenance' /\ JoinIsMutual'
  <2>1. m \in PeersReplies /\ m.peers # <<>>
    BY <1>0, <1>8, MessageKind, PeerTableAssumption DEF StoreTooMany
  <2>2. \A c \in Client : status'[c] = "exited" => status[c] = "exited"
    BY <1>8, NetworkAssumption DEF StoreTooMany, TypeOK
  <2>3. CASE StoreAndJoin(n, m)
    BY <1>8, <2>1, <2>2, <2>3, StoreAndJoinStep DEF StoreTooMany
  <2>4. CASE Respond(m, EmptyBag) /\ UNCHANGED <<table, wait>>
    <3>1. DOMAIN net' \subseteq DOMAIN net
      BY <1>0, <2>4, NoBag, RespondType
    <3> QED
      BY <2>2, <2>4, <3>1, QuietStep
  <2> QED
    BY <1>8, <2>3, <2>4 DEF StoreTooMany
<1>9. ASSUME NEW c \in Client, TimeoutNull(c) PROVE Provenance' /\ JoinIsMutual'
  BY <1>9, QuietStep DEF TimeoutNull, TypeOK
<1>10. ASSUME NEW c \in Client, TimeoutExit(c) PROVE Provenance' /\ JoinIsMutual'
  <2>1. /\ UNCHANGED <<table, net>> /\ status' = [status EXCEPT ![c] = "exited"]
        /\ NoPeersToJoin(c, table[c])
    BY <1>10 DEF TimeoutExit
  <2>2. table[c][Home(c)].data = <<>>
    BY <2>1 DEF NoPeersToJoin, get_peer_bucket, Home
  <2>3. Listed(c) = {}
    BY <2>2, ToSetEmpty, EmptySeq DEF Listed
  <2> QED
    BY <2>1, <2>3, QuietStep DEF TypeOK
<1>11. ASSUME NEW c \in Client, TimeoutJoin(c) PROVE Provenance' /\ JoinIsMutual'
  <2> DEFINE B == join_peers(c, table[c])
  <2>1. c \in Node /\ table[c] \in [Slot -> Bucket(Node)]
    BY NetworkAssumption DEF TypeOK
  <2>2. BagOf(B, JoinCalls) /\ \A m \in DOMAIN B : m.origin = c /\ m.to \in Listed(c)
    BY <2>1, JoinPeersBag DEF Listed
  <2>3. \A m \in DOMAIN B : MessageOK(m)
    BY <2>2, JoinCallOK DEF BagOf
  <2>4. net' = net (+) B /\ UNCHANGED <<table, status>>
    BY <1>11 DEF TimeoutJoin
  <2> HIDE DEF B
  <2>5. DOMAIN net' = DOMAIN net \cup DOMAIN B
    BY <2>4 DEF (+)
  <2> QED
    BY <2>3, <2>4, <2>5, QuietStep
<1>12. ASSUME NEW n \in Node, Crash(n) PROVE Provenance' /\ JoinIsMutual'
  BY <1>12, QuietStep DEF Crash, TypeOK
<1>13. ASSUME NEW n \in Server, RestartServer(n) PROVE Provenance' /\ JoinIsMutual'
  <2>1. n \in Node /\ n \notin Client /\ Client \subseteq Node
    BY NetworkAssumption DEF Server
  <2>2. PICK raw \in init_peer_table : table' = [table EXCEPT ![n] = BootTable(n, raw)]
    BY <1>13 DEF RestartServer
  <2>3. /\ table'[n] = BootTable(n, raw)
        /\ \A x \in Node \ {n} : table'[x] = table[x]
    BY <2>1, <2>2 DEF TypeOK
  <2>4. HomeOnly(n)' /\ Listed(n)' \subseteq ToSet(SeedPeers)
    <3> DEFINE t == BootTable(n, raw)
    <3>1. UsesOnly(t, Home(n)) /\ ToSet(t[Home(n)].data) \subseteq ToSet(SeedPeers)
      BY <2>1, BootTableHome
    <3>2. table'[n] = t
      BY <2>3
    <3> HIDE DEF t
    <3> QED
      BY <3>1, <3>2 DEF HomeOnly, UsesOnly, Listed, Home
  <2>5. \A x \in Node \ {n} : HomeOnly(x)' /\ Listed(x)' = Listed(x)
    BY <2>3 DEF HomeOnly, Listed, Home, Provenance
  <2>6. \A p : Known(p) => Known(p)'
    BY <2>1, <2>5 DEF Known
  <2>7. ASSUME NEW m, MessageOK(m) PROVE MessageOK(m)'
    BY <2>1, <2>5, <2>6, <2>7 DEF MessageOK
  <2>8. \A m \in DOMAIN net' : MessageOK(m)'
    BY <1>0, <1>13, <2>7 DEF RestartServer
  <2>9. \A x \in Node : \A p \in Listed(x)' : Known(p)'
    BY <2>4, <2>5, <2>6 DEF Provenance, Known
  <2>10. \A c \in Client : status'[c] = status[c]
    BY <1>13, <2>1 DEF RestartServer, TypeOK
  <2>11. \A c \in Client : status'[c] = "exited" => Listed(c)' = {}
    BY <2>1, <2>5, <2>10 DEF Provenance
  <2>12. Provenance'
    BY <2>4, <2>5, <2>8, <2>9, <2>11 DEF Provenance, BagToSet
  <2>13. JoinIsMutual'
    BY <2>1, <2>4, <2>5 DEF JoinIsMutual, Server
  <2> QED
    BY <2>12, <2>13
<1>14. ASSUME NEW m \in DOMAIN net, DropUnbound(m) \/ Lose(m)
       PROVE  Provenance' /\ JoinIsMutual'
  <2>1. net' = net (-) SetToBag({m}) /\ UNCHANGED <<table, status>>
    BY <1>14 DEF DropUnbound, Lose
  <2>2. DOMAIN net' \subseteq DOMAIN net
    BY <1>0, <2>1, BagMinus
  <2> QED
    BY <2>1, <2>2, QuietStep
<1>15. ASSUME NEW m \in DOMAIN net, Duplicate(m) PROVE Provenance' /\ JoinIsMutual'
  <2>1. net' = net (+) SetToBag({m}) /\ UNCHANGED <<table, status>>
    BY <1>15 DEF Duplicate
  <2>2. DOMAIN net' \subseteq DOMAIN net
    BY <2>1 DEF (+), SetToBag
  <2> QED
    BY <2>1, <2>2, QuietStep
<1>16. CASE UNCHANGED vars
  BY <1>16, QuietStep DEF vars
<1> QED
  BY <1>0, <1>1, <1>2, <1>3, <1>4, <1>5, <1>6, <1>7, <1>8, <1>9, <1>10, <1>11,
     <1>12, <1>13, <1>14, <1>15, <1>16
     DEF Next, Receive, Timeout

\* In the initial state the only peers are the seeds.
LEMMA InvariantInit ==
  ASSUME HeapActive \subseteq {FALSE}, Init
  PROVE  Provenance /\ JoinIsMutual
<1>1. PICK raw \in [Node -> init_peer_table] :
        table = [n \in Node |-> BootTable(n, raw[n])]
  BY DEF Init
<1>2. \A n \in Node : HomeOnly(n) /\ Listed(n) \subseteq ToSet(SeedPeers)
  BY <1>1, BootTableHome DEF HomeOnly, UsesOnly, Listed
<1>3. BagToSet(net) = {}
  BY NoBag DEF Init, BagToSet
<1>4. \A c \in Client : status[c] = "off"
  BY NetworkAssumption DEF Init, BootStatus
<1>5. Provenance
  BY <1>2, <1>3, <1>4 DEF Provenance, Known
<1> QED
  BY <1>2, <1>5 DEF JoinIsMutual, Server

\* The inductive invariant.
LEMMA InvariantHolds ==
  ASSUME HeapActive \subseteq {FALSE}
  PROVE  Spec => [](Provenance /\ JoinIsMutual)
<1>1. Init => Provenance /\ JoinIsMutual
  BY InvariantInit
<1>2. TypeOK /\ (Provenance /\ JoinIsMutual) /\ [Next]_vars
        => (Provenance /\ JoinIsMutual)'
  BY InvariantStep
<1> QED
  BY <1>1, <1>2, NetworkTypeCorrect, PTL DEF Spec

\* Every peer a process lists or is told of is a seed or a client that found
\* peers; for every network, loss, duplication, reordering and crashes
\* included, as long as fresh buckets are inactive.
THEOREM ProvenanceCorrect ==
  ASSUME HeapActive \subseteq {FALSE}
  PROVE  Spec => []Provenance
BY InvariantHolds, PTL

\* A client in the table of an rpc_test node has that node in its own.
THEOREM JoinIsMutualCorrect ==
  ASSUME HeapActive \subseteq {FALSE}
  PROVE  Spec => []JoinIsMutual
BY InvariantHolds, PTL

\* A client that exits for want of peers is in nobody's table and in no reply.
THEOREM GaveUpIsForgottenCorrect ==
  ASSUME HeapActive \subseteq {FALSE}
  PROVE  Spec => []GaveUpIsForgotten
<1>1. Provenance => GaveUpIsForgotten
  <2> SUFFICES ASSUME Provenance, NEW c \in Client \ ToSet(SeedPeers),
                      status[c] = "exited"
               PROVE  /\ \A n \in Node : c \notin Listed(n)
                      /\ \A m \in BagToSet(net) :
                           m.type = "REPLY" => c \notin ToSet(m.peers)
    BY DEF GaveUpIsForgotten
  <2>1. ~Known(c)
    BY DEF Provenance, Known
  <2> QED
    BY <2>1 DEF Provenance, MessageOK
<1> QED
  BY <1>1, ProvenanceCorrect, PTL

-----------------------------------------------------------------------------
(***************************************************************************)
(* The pointer a client keeps.                                             *)
(***************************************************************************)

\* The lookup finds a bucket whose key is still 0, or its slot.
LEMMA LowKeyIsFound ==
  ASSUME NEW s \in Slot, NEW key \in {0, s}
  PROVE  Reaches(key, s)
<1>1. s \in Nat /\ s < MAX_PEER_BUCKETS /\ s < KEY_MOD /\ KEY_MOD \in Nat \ {0}
  BY PeerTableAssumption DEF Slot
<1>2. CASE key = s
  BY <1>2, HomeKeyIsFound
<1>3. CASE key = 0
  <2>1. \A j \in 0 .. s : (0 + j) % KEY_MOD = j
    BY <1>1
  <2>2. s \in 0 .. s /\ s \in 0 .. KEY_MOD - 1
    BY <1>1
  <2>3. ASSUME NEW j \in 1 .. s PROVE (0 + j) % KEY_MOD < MAX_PEER_BUCKETS
    <3>1. j \in 0 .. s /\ j <= s /\ MAX_PEER_BUCKETS \in Nat
      BY <1>1, PeerTableAssumption
    <3>2. (0 + j) % KEY_MOD = j
      BY <2>1, <3>1
    <3>3. j < MAX_PEER_BUCKETS
      BY <1>1, <3>1
    <3> QED
      BY <3>2, <3>3
  <2> QED
    BY <1>3, <2>1, <2>2, <2>3 DEF Reaches
<1> QED
  BY <1>2, <1>3

\* A client's own bucket is found, in every state it goes through.
Findable(t, h) == t[h].key \in {0, h} /\ (t[h].active => t[h].key = h)

FoundAndKept ==
  \A c \in Client : /\ Findable(table[c], Home(c))
                    /\ status[c] = "up" => bucket[c] = Home(c)

LEMMA FindableLookup ==
  ASSUME NEW t, NEW k \in Key, Findable(t, Hash[k])
  PROVE  get_peer_bucket(t, k) = Hash[k] /\ Hash[k] # NULL
BY LowKeyIsFound, PeerTableAssumption DEF Findable, get_peer_bucket

\* Storing peers under a key leaves its bucket findable.
LEMMA FindableStays ==
  ASSUME NEW t \in [Slot -> Bucket(Node)], NEW k \in Key, Findable(t, Hash[k])
  PROVE  /\ \A p : Findable(set_peer(t, k, p), Hash[k])
         /\ \A ps : Findable(set_peers(t, k, ps), Hash[k])
<1>1. Hash[k] \in Slot /\ HomeUsable(t, Hash[k])
  BY PeerTableAssumption DEF Findable, HomeUsable
<1> QED
  BY <1>1 DEF Findable, set_peer, set_peers

\* A step that leaves what a client has found alone, and starts no client.
LEMMA KeptStep ==
  ASSUME FoundAndKept, UNCHANGED bucket,
         \A c \in Client : table'[c] = table[c] \/ Findable(table'[c], Home(c)),
         \A c \in Client : status'[c] = "up" => status[c] = "up"
  PROVE  FoundAndKept'
<1>1. \A c \in Client : Findable(table'[c], Home(c))
  BY DEF FoundAndKept
<1>2. \A c : Home(c)' = Home(c)
  BY DEF Home
<1>3. \A c \in Client : Findable(table[c], Home(c))' <=> Findable(table'[c], Home(c))
  BY <1>2 DEF Findable
<1> QED
  BY <1>1, <1>2, <1>3 DEF FoundAndKept

LEMMA FoundAndKeptStep ==
  ASSUME TypeOK, FoundAndKept, [Next]_vars
  PROVE  FoundAndKept'
<1>0. /\ \A c \in Client : c \in Node /\ FileHash[c] \in Key /\ Home(c) = Hash[FileHash[c]]
      /\ \A n \in Node : table[n] \in [Slot -> Bucket(Node)]
      /\ BagToSet(net) = DOMAIN net
  BY NetworkAssumption DEF Home, TypeOK, BagToSet
<1>1. ASSUME NEW c \in Client, StartClient(c) PROVE FoundAndKept'
  <2>1. get_peer_bucket(table[c], FileHash[c]) = Home(c)
    BY <1>0, FindableLookup DEF FoundAndKept
  <2>2. /\ UNCHANGED table
        /\ status' = [status EXCEPT ![c] = "up"]
        /\ bucket' = [bucket EXCEPT ![c] = Home(c)]
    BY <1>1, <2>1 DEF StartClient
  <2>3. bucket'[c] = Home(c) /\ \A d \in Client \ {c} : /\ bucket'[d] = bucket[d]
                                                       /\ status'[d] = status[d]
    BY <2>2 DEF TypeOK
  <2> QED
    BY <2>2, <2>3 DEF FoundAndKept, Findable, Home
<1>2. ASSUME NEW n \in Node, NEW m \in DOMAIN net,
             \/ AnswerNoBucket(n, m) \/ ForwardGetPeers(n, m) \/ AnswerPeers(n, m)
             \/ IgnoreEmptyReply(n, m) \/ IgnoreReply(n, m) \/ JoinReplyFails(n, m)
      PROVE  FoundAndKept'
  <2>1. UNCHANGED <<table, status, bucket>>
    BY <1>2 DEF AnswerNoBucket, ForwardGetPeers, AnswerPeers, IgnoreEmptyReply,
                IgnoreReply, JoinReplyFails
  <2> QED
    BY <2>1, KeptStep
<1>3. ASSUME NEW n \in Node, NEW m \in DOMAIN net, AnswerTooMany(n, m)
      PROVE  FoundAndKept'
  <2>1. /\ UNCHANGED <<table, bucket>>
        /\ status' = status \/ status' = [status EXCEPT ![n] = "segv"]
    BY <1>3 DEF AnswerTooMany
  <2>2. \A c \in Client : status'[c] = "up" => status[c] = "up"
    BY <1>0, <2>1 DEF TypeOK
  <2> QED
    BY <2>1, <2>2, KeptStep
<1>4. ASSUME NEW n \in Node, NEW m \in DOMAIN net, AcceptJoin(n, m)
      PROVE  FoundAndKept'
  <2>1. /\ UNCHANGED <<status, bucket>>
        /\ table' = [table EXCEPT ![n] = set_peer(table[n], FileHash[n], m.origin)]
    BY <1>4 DEF AcceptJoin
  <2>2. ASSUME NEW c \in Client
        PROVE  table'[c] = table[c] \/ Findable(table'[c], Home(c))
    <3>1. CASE c = n
      <4>1. table'[c] = set_peer(table[c], FileHash[c], m.origin)
        BY <1>0, <2>1, <3>1 DEF TypeOK
      <4>2. Findable(set_peer(table[c], FileHash[c], m.origin), Home(c))
        BY <1>0, FindableStays DEF FoundAndKept
      <4> QED
        BY <4>1, <4>2
    <3>2. CASE c # n
      BY <1>0, <2>1, <3>2 DEF TypeOK
    <3> QED
      BY <3>1, <3>2
  <2> QED
    BY <2>1, <2>2, KeptStep
<1>5. ASSUME NEW n \in Node, NEW m \in DOMAIN net,
             StorePeers(n, m) \/ StoreTooMany(n, m)
      PROVE  FoundAndKept'
  <2>1. /\ UNCHANGED bucket
        /\ \/ UNCHANGED table
           \/ table' = [table EXCEPT ![n] = set_peers(table[n], FileHash[n], m.peers)]
        /\ status' = status \/ status' = [status EXCEPT ![n] = "segv"]
    BY <1>5 DEF StorePeers, StoreTooMany, StoreAndJoin
  <2>2. ASSUME NEW c \in Client
        PROVE  table'[c] = table[c] \/ Findable(table'[c], Home(c))
    <3>1. CASE UNCHANGED table
      BY <3>1
    <3>2. CASE ~(UNCHANGED table) /\ c = n
      <4>1. table'[c] = set_peers(table[c], FileHash[c], m.peers)
        BY <1>0, <2>1, <3>2 DEF TypeOK
      <4>2. Findable(set_peers(table[c], FileHash[c], m.peers), Home(c))
        BY <1>0, FindableStays DEF FoundAndKept
      <4> QED
        BY <4>1, <4>2
    <3>3. CASE c # n
      BY <1>0, <2>1, <3>3 DEF TypeOK
    <3> QED
      BY <3>1, <3>2, <3>3
  <2>3. \A c \in Client : status'[c] = "up" => status[c] = "up"
    BY <1>0, <2>1 DEF TypeOK
  <2> QED
    BY <2>1, <2>2, <2>3, KeptStep
<1>6. ASSUME NEW c \in Client, TimeoutNull(c) \/ TimeoutExit(c) \/ TimeoutJoin(c)
      PROVE  FoundAndKept'
  <2>1. /\ UNCHANGED <<table, bucket>>
        /\ \/ status' = status \/ status' = [status EXCEPT ![c] = "segv"]
           \/ status' = [status EXCEPT ![c] = "exited"]
    BY <1>6 DEF TimeoutNull, TimeoutExit, TimeoutJoin
  <2>2. \A d \in Client : status'[d] = "up" => status[d] = "up"
    BY <1>0, <2>1 DEF TypeOK
  <2> QED
    BY <2>1, <2>2, KeptStep
<1>7. ASSUME NEW n \in Node, Crash(n) PROVE FoundAndKept'
  <2>1. UNCHANGED <<table, bucket>> /\ status' = [status EXCEPT ![n] = "crashed"]
    BY <1>7 DEF Crash
  <2>2. \A d \in Client : status'[d] = "up" => status[d] = "up"
    BY <1>0, <2>1 DEF TypeOK
  <2> QED
    BY <2>1, <2>2, KeptStep
<1>8. ASSUME NEW n \in Server, RestartServer(n) PROVE FoundAndKept'
  <2>1. /\ UNCHANGED bucket
        /\ \A c \in Client : table'[c] = table[c] /\ status'[c] = status[c]
    BY <1>0, <1>8 DEF RestartServer, Server, TypeOK
  <2> QED
    BY <2>1, KeptStep
<1>9. ASSUME NEW m \in DOMAIN net, DropUnbound(m) \/ Lose(m) \/ Duplicate(m)
      PROVE  FoundAndKept'
  <2>1. UNCHANGED <<table, status, bucket>>
    BY <1>9 DEF DropUnbound, Lose, Duplicate
  <2> QED
    BY <2>1, KeptStep
<1>10. CASE UNCHANGED vars
  BY <1>10, KeptStep DEF vars
<1> QED
  BY <1>0, <1>1, <1>2, <1>3, <1>4, <1>5, <1>6, <1>7, <1>8, <1>9, <1>10
     DEF Next, Receive, Timeout

\* On a heap that malloc hands out zeroed, the pointer client_test looks up
\* before its loop stays what a fresh lookup would give, whatever the network
\* does: client_test.c:122.
THEOREM CachedBucketCorrect ==
  ASSUME HeapActive \subseteq {FALSE}, HeapKey \subseteq {0}
  PROVE  Spec => []CachedBucketIsCurrent
<1>1. Init => FoundAndKept
  <2> SUFFICES ASSUME Init, NEW c \in Client
               PROVE  Findable(table[c], Home(c)) /\ status[c] # "up"
    BY DEF FoundAndKept
  <2>1. c \in Node /\ Home(c) \in Slot
    BY NetworkAssumption, PeerTableAssumption DEF Home
  <2>2. status[c] = "off"
    BY <2>1 DEF Init, BootStatus
  <2>3. PICK raw \in [Node -> init_peer_table] :
          table = [n \in Node |-> BootTable(n, raw[n])]
    BY DEF Init
  <2>4. table[c] = raw[c]
    BY <2>1, <2>3 DEF BootTable, Seeded, Server
  <2>5. raw[c][Home(c)] \in new_peer_array
    BY <2>1 DEF init_peer_table
  <2>6. raw[c][Home(c)].key = 0 /\ raw[c][Home(c)].active = FALSE
    BY <2>5 DEF new_peer_array
  <2> QED
    BY <2>2, <2>4, <2>6 DEF Findable
<1>2. TypeOK /\ FoundAndKept /\ [Next]_vars => FoundAndKept'
  BY FoundAndKeptStep
<1>3. FoundAndKept => CachedBucketIsCurrent
  BY FindableLookup, NetworkAssumption DEF FoundAndKept, CachedBucketIsCurrent, Home
<1> QED
  BY <1>1, <1>2, <1>3, NetworkTypeCorrect, PTL DEF Spec
=============================================================================
