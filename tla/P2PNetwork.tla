----------------------------- MODULE P2PNetwork -----------------------------
(***************************************************************************)
(* The processes of the file distribution network and the datagrams        *)
(* between them: recv_rpc, call_rpc and reply_rpc (remote_procedure.c),    *)
(* get_peers, join_peers and bootstrap_neigbors (nodes.c), and the two     *)
(* drivers that run them, client_test.c (a Client, which looks for the     *)
(* peers of a file and joins them) and rpc_test.c (every other node).      *)
(*                                                                         *)
(* A process is named by its port.  Every process calls itself             *)
(* "localhost" and inet_pton rejects that name, so that all datagrams go   *)
(* to the wildcard address and the port alone decides who gets them.       *)
(***************************************************************************)
EXTENDS PeerTable, SequencesExt

CONSTANTS
  Node,           \* the ports of all processes
  Client,         \* those that run client_test
  Neighbors,      \* node -> ports of its descriptor file or its arguments
  FileHash,       \* node -> info_hash of the file the process is about
  SeedPeers,      \* the peers rpc_test stores when it has two neighbors
  INITIAL_CAP,    \* initial capacity of an array, 2 in peers.h
  PAYLOAD_PEERS,  \* peers that fit a payload: 25 = 1023 / sizeof(peer_t)
  PassesNodeArray,\* TRUE: rpc_test bootstraps with a node_array, as it stands
  Budget          \* bounds on faults and on repeated timeouts

Faults == {"loss", "dup", "crash", "timeout"}

ASSUME NetworkAssumption ==
  /\ Client \subseteq Node
  /\ Neighbors \in [Node -> Seq(Node)]
  /\ \A c \in Client : Len(Neighbors[c]) <= 1   \* see parse_descriptor_file
  /\ FileHash \in [Node -> Key]
  /\ SeedPeers \in Seq(Node) /\ SeedPeers # <<>>
  /\ INITIAL_CAP \in Nat \ {0}
  /\ PAYLOAD_PEERS \in Nat
  /\ PassesNodeArray \in BOOLEAN
  /\ Budget \in [Faults -> Nat]

VARIABLES
  table,    \* node->peer_table
  wait,     \* the driver's `wait` flag
  status,   \* "off", "up", "exited" (exit()), "crashed", or "segv"
  bucket,   \* client_test's peer_bucket_buf: a slot or NULL
  net,      \* the bag of datagrams in flight or in a socket buffer
  budget    \* what is left of Budget

vars == <<table, wait, status, bucket, net, budget>>

Server == Node \ Client

-----------------------------------------------------------------------------
(***************************************************************************)
(* Datagrams.  Methods travel in network byte order: recv_rpc converts the *)
(* method of a CALL back and leaves that of a REPLY as it came.            *)
(***************************************************************************)
GET_PEERS == 0
JOIN == 1
htons(x) == ((x % 256) * 256) + ((x \div 256) % 256)
ntohs(x) == htons(x)

GetPeersCall(from, to, src, hash) ==
  [type |-> "CALL", method |-> htons(GET_PEERS), origin |-> from, to |-> to,
   src |-> src, hash |-> hash]
JoinCall(from, to) ==
  [type |-> "CALL", method |-> htons(JOIN), origin |-> from, to |-> to]
\* Slip: the method of a reply is not converted to network byte order.
ReplyInHostOrder(method, to, peers) ==
  [type |-> "REPLY", method |-> method, to |-> to, peers |-> peers]
Reply(method, to, peers) ==
  [type |-> "REPLY", method |-> htons(method), to |-> to, peers |-> peers]

GetPeersCalls ==
  [type : {"CALL"}, method : {htons(GET_PEERS)}, origin : Node, to : Node,
   src : Node, hash : Key]
JoinCalls ==
  [type : {"CALL"}, method : {htons(JOIN)}, origin : Node, to : Node]
PeersReplies ==
  [type : {"REPLY"}, method : {htons(GET_PEERS)}, to : Node, peers : Seq(Node)]
JoinReplies ==
  [type : {"REPLY"}, method : {htons(JOIN)}, to : Node, peers : {<<>>}]
Message == GetPeersCalls \cup JoinCalls \cup PeersReplies \cup JoinReplies

IsCall(m, method) == m.type = "CALL" /\ ntohs(m.method) = method
IsReply(m, method) == m.type = "REPLY" /\ m.method = method

-----------------------------------------------------------------------------
(***************************************************************************)
(* bootstrap_neigbors takes over the ports, and copies the new entry's     *)
(* empty ip over the given one instead of the other way round.  All        *)
(* entries get the same id and hence the same distance, so that the sort   *)
(* of compare_hash, which is stable, leaves them in this order.            *)
(***************************************************************************)
origin(n) == [ip |-> "localhost", port |-> n]
bootstrap_neigbors(ports) ==
  [i \in DOMAIN ports |-> [ip |-> "", port |-> ports[i]]]

(***************************************************************************)
(* get_peers calls the first neighbor that is not reply_to and returns.    *)
(***************************************************************************)
get_peers(n, hash, src, reply_to) ==
  LET nb == bootstrap_neigbors(Neighbors[n])
      others == {i \in DOMAIN nb : nb[i] # origin(reply_to)}
      first == {i \in others : \A j \in others : i <= j}
  IN SetToBag({GetPeersCall(n, nb[i].port, src, hash) : i \in first})

(***************************************************************************)
(* join_peers sends a JOIN to each entry of the node's bucket, repeated    *)
(* entries included; NoPeersToJoin is its return value 1.                  *)
(***************************************************************************)
JoinAll(n, peers) ==
  [m \in {JoinCall(n, p) : p \in ToSet(peers)} |->
     Cardinality({i \in DOMAIN peers : peers[i] = m.to})]

join_peers(n, t) ==
  LET b == get_peer_bucket(t, FileHash[n])
  IN IF b = NULL THEN EmptyBag ELSE JoinAll(n, t[b].data)

NoPeersToJoin(n, t) ==
  LET b == get_peer_bucket(t, FileHash[n]) IN b # NULL /\ t[b].data = <<>>

-----------------------------------------------------------------------------
(***************************************************************************)
(* rpc_test seeds its table when it was given two neighbors or more.  Its  *)
(* call of bootstrap_neigbors hands over a node_array where an array of    *)
(* pointers is declared: reading the first pointer is undefined, and in    *)
(* the build a null dereference.                                           *)
(***************************************************************************)
Seeded(n) == n \in Server /\ Len(Neighbors[n]) > 1

BootTable(n, t) ==
  IF Seeded(n) THEN set_peers(t, FileHash[n], SeedPeers) ELSE t

BootStatus(n, t) ==
  IF n \in Client THEN "off"
  ELSE IF PassesNodeArray /\ Neighbors[n] # <<>> THEN "segv"
  ELSE IF Seeded(n) /\ get_peer_bucket(t, FileHash[n]) = NULL THEN "exited"
  ELSE "up"

Init ==
  /\ \E raw \in [Node -> init_peer_table] :
       table = [n \in Node |-> BootTable(n, raw[n])]
  /\ status = [n \in Node |-> BootStatus(n, table[n])]
  /\ wait = [n \in Node |-> FALSE]
  /\ bucket = [c \in Client |-> NULL]
  /\ net = EmptyBag
  /\ budget = Budget

Spend(fault) ==
  /\ budget[fault] > 0
  /\ budget' = [budget EXCEPT ![fault] = @ - 1]

\* client_test up to its receive loop: the first get_peers, then the lookup
\* whose result is used at every timeout.
StartClient(c) ==
  /\ status[c] = "off"
  /\ status' = [status EXCEPT ![c] = "up"]
  /\ net' = net (+) get_peers(c, FileHash[c], c, c)
  /\ bucket' = [bucket EXCEPT ![c] = get_peer_bucket(table[c], FileHash[c])]
  /\ wait' = [wait EXCEPT ![c] = TRUE]
  /\ UNCHANGED <<table, budget>>

-----------------------------------------------------------------------------
(***************************************************************************)
(* recv_rpc: process n takes the datagram m and leaves the datagrams B.    *)
(***************************************************************************)
Arrives(n, m) == m.to = n /\ status[n] = "up"
Respond(m, B) == net' = (net (-) SetToBag({m})) (+) B

SetWait(n, value) == wait' = [wait EXCEPT ![n] = value]

\* A GET_PEERS call for which get_peer_bucket finds no bucket.
AnswerNoBucket(n, m) ==
  /\ Arrives(n, m) /\ IsCall(m, GET_PEERS)
  /\ get_peer_bucket(table[n], m.hash) = NULL
  /\ Respond(m, SetToBag({Reply(GET_PEERS, m.origin, <<>>)}))
  /\ UNCHANGED <<table, wait, status, bucket, budget>>

HasBucket(n, m) == get_peer_bucket(table[n], m.hash) # NULL
BucketPeers(n, m) == table[n][get_peer_bucket(table[n], m.hash)].data

\* Slip: the forwarder names itself as the process the chain began with.
ForwardAsSource(n, m) ==
  /\ Arrives(n, m) /\ IsCall(m, GET_PEERS)
  /\ HasBucket(n, m) /\ BucketPeers(n, m) = <<>> /\ Neighbors[n] # <<>>
  /\ Respond(m, get_peers(n, FileHash[n], n, m.origin))
  /\ SetWait(n, TRUE)
  /\ UNCHANGED <<table, status, bucket, budget>>

\* An empty bucket and some neighbors: the call is passed on, for the hash
\* this process is about.
ForwardGetPeers(n, m) ==
  /\ Arrives(n, m) /\ IsCall(m, GET_PEERS)
  /\ HasBucket(n, m) /\ BucketPeers(n, m) = <<>> /\ Neighbors[n] # <<>>
  /\ Respond(m, get_peers(n, FileHash[n], m.src, m.origin))
  /\ SetWait(n, TRUE)
  /\ UNCHANGED <<table, status, bucket, budget>>

\* Slip: the answer goes to the caller instead of to the source.
AnswerCaller(n, m) ==
  /\ Arrives(n, m) /\ IsCall(m, GET_PEERS)
  /\ HasBucket(n, m) /\ (BucketPeers(n, m) # <<>> \/ Neighbors[n] = <<>>)
  /\ Len(BucketPeers(n, m)) <= PAYLOAD_PEERS
  /\ Respond(m, SetToBag({Reply(GET_PEERS, m.origin, BucketPeers(n, m))}))
  /\ SetWait(n, FALSE)
  /\ UNCHANGED <<table, status, bucket, budget>>

\* The bucket's peers, possibly none, go to the process the chain began with.
AnswerPeers(n, m) ==
  /\ Arrives(n, m) /\ IsCall(m, GET_PEERS)
  /\ HasBucket(n, m) /\ (BucketPeers(n, m) # <<>> \/ Neighbors[n] = <<>>)
  /\ Len(BucketPeers(n, m)) <= PAYLOAD_PEERS
  /\ Respond(m, SetToBag({Reply(GET_PEERS, m.src, BucketPeers(n, m))}))
  /\ SetWait(n, FALSE)
  /\ UNCHANGED <<table, status, bucket, budget>>

\* More peers than the stack buffer of the payload holds: undefined.  In the
\* builds the datagram goes out or is lost, and the process dies or, with the
\* overrun in unused stack, goes on.
AnswerTooMany(n, m) ==
  /\ Arrives(n, m) /\ IsCall(m, GET_PEERS)
  /\ HasBucket(n, m) /\ Len(BucketPeers(n, m)) > PAYLOAD_PEERS
  /\ \/ Respond(m, EmptyBag)
     \/ Respond(m, SetToBag({Reply(GET_PEERS, m.src, BucketPeers(n, m))}))
  /\ \/ status' = [status EXCEPT ![n] = "segv"] /\ UNCHANGED wait
     \/ SetWait(n, FALSE) /\ UNCHANGED status
  /\ UNCHANGED <<table, bucket, budget>>

\* A JOIN call is acknowledged first and stored then ...
AcceptJoin(n, m) ==
  /\ Arrives(n, m) /\ IsCall(m, JOIN)
  /\ Respond(m, SetToBag({Reply(JOIN, m.origin, <<>>)}))
  /\ table' = [table EXCEPT ![n] = set_peer(@, FileHash[n], m.origin)]
  /\ UNCHANGED <<wait, status, bucket, budget>>

\* ... and not stored when the acknowledgement cannot be sent.
JoinReplyFails(n, m) ==
  /\ Arrives(n, m) /\ IsCall(m, JOIN)
  /\ Spend("loss")
  /\ Respond(m, EmptyBag)
  /\ UNCHANGED <<table, wait, status, bucket>>

IgnoreEmptyReply(n, m) ==
  /\ Arrives(n, m) /\ IsReply(m, GET_PEERS)
  /\ m.peers = <<>>
  /\ Respond(m, EmptyBag)
  /\ UNCHANGED <<table, wait, status, bucket, budget>>

\* The peers of a reply are stored one by one; once the bucket holds
\* INITIAL_CAP of them, every peer in it is asked to join.
EnoughPeers(n, t) ==
  LET b == get_peer_bucket(t, FileHash[n])
  IN b # NULL /\ Len(t[b].data) >= INITIAL_CAP

\* Slip: `wait` is cleared whether or not there were enough peers to join.
StoreAndStopWaiting(n, m) ==
  LET t == set_peers(table[n], FileHash[n], m.peers) IN
  /\ table' = [table EXCEPT ![n] = t]
  /\ SetWait(n, FALSE)
  /\ \/ EnoughPeers(n, t) /\ Respond(m, join_peers(n, t))
     \/ ~EnoughPeers(n, t) /\ Respond(m, EmptyBag)

StoreAndJoin(n, m) ==
  LET t == set_peers(table[n], FileHash[n], m.peers) IN
  /\ table' = [table EXCEPT ![n] = t]
  /\ \/ EnoughPeers(n, t) /\ Respond(m, join_peers(n, t)) /\ SetWait(n, FALSE)
     \/ ~EnoughPeers(n, t) /\ Respond(m, EmptyBag) /\ UNCHANGED wait

StorePeers(n, m) ==
  /\ Arrives(n, m) /\ IsReply(m, GET_PEERS)
  /\ m.peers # <<>> /\ Len(m.peers) <= MAX_PEER_BUCKETS
  /\ StoreAndJoin(n, m)
  /\ UNCHANGED <<status, bucket, budget>>

\* Slip: the peers of the reply are joined before they are stored.
JoinThenStoreTooMany(n, m) ==
  /\ Arrives(n, m) /\ IsReply(m, GET_PEERS)
  /\ Len(m.peers) > MAX_PEER_BUCKETS
  /\ Respond(m, JoinAll(n, m.peers))
  /\ status' = [status EXCEPT ![n] = "segv"]
  /\ UNCHANGED <<table, wait, bucket, budget>>

\* p_buf has MAX_PEER_BUCKETS elements and the length of the reply is not
\* checked: undefined.  In the builds the handler does its work, or the
\* process dies, before or after it.
StoreTooMany(n, m) ==
  /\ Arrives(n, m) /\ IsReply(m, GET_PEERS)
  /\ Len(m.peers) > MAX_PEER_BUCKETS
  /\ \/ StoreAndJoin(n, m) /\ UNCHANGED status
     \/ /\ StoreAndJoin(n, m) \/ (Respond(m, EmptyBag) /\ UNCHANGED <<table, wait>>)
        /\ status' = [status EXCEPT ![n] = "segv"]
  /\ UNCHANGED <<bucket, budget>>

\* Every other method falls to the empty default of the switch, and so does
\* the reply to a JOIN, whose method was never converted.  The JOIN case of
\* the switch changes no state either.
IgnoreReply(n, m) ==
  /\ Arrives(n, m) /\ m.type = "REPLY" /\ m.method # GET_PEERS
  /\ Respond(m, EmptyBag)
  /\ UNCHANGED <<table, wait, status, bucket, budget>>

Receive(n) ==
  \E m \in BagToSet(net) :
    \/ AnswerNoBucket(n, m) \/ ForwardGetPeers(n, m)
    \/ AnswerPeers(n, m) \/ AnswerTooMany(n, m)
    \/ AcceptJoin(n, m)
    \/ IgnoreEmptyReply(n, m) \/ StorePeers(n, m) \/ StoreTooMany(n, m)
    \/ IgnoreReply(n, m)

-----------------------------------------------------------------------------
(***************************************************************************)
(* client_test's select() times out when nothing arrived for four seconds; *)
(* what is still on its way does not count.                                *)
(***************************************************************************)
TimesOut(c) == status[c] = "up" /\ wait[c]

\* The log line reads the length through the pointer looked up at the start.
TimeoutNull(c) ==
  /\ TimesOut(c) /\ bucket[c] = NULL
  /\ status' = [status EXCEPT ![c] = "segv"]
  /\ UNCHANGED <<table, wait, bucket, net, budget>>

\* Slip: the client exits whatever join_peers returned.
TimeoutExitAlways(c) ==
  /\ TimesOut(c) /\ bucket[c] # NULL
  /\ status' = [status EXCEPT ![c] = "exited"]
  /\ UNCHANGED <<table, wait, bucket, net, budget>>

TimeoutExit(c) ==
  /\ TimesOut(c) /\ bucket[c] # NULL
  /\ NoPeersToJoin(c, table[c])
  /\ status' = [status EXCEPT ![c] = "exited"]
  /\ UNCHANGED <<table, wait, bucket, net, budget>>

\* `continue`, with `wait` still set: the next timeout joins again.
TimeoutJoin(c) ==
  /\ TimesOut(c) /\ bucket[c] # NULL
  /\ ~NoPeersToJoin(c, table[c])
  /\ Spend("timeout")
  /\ net' = net (+) join_peers(c, table[c])
  /\ UNCHANGED <<table, wait, status, bucket>>

Timeout(c) == TimeoutNull(c) \/ TimeoutExit(c) \/ TimeoutJoin(c)

-----------------------------------------------------------------------------
(***************************************************************************)
(* The environment.  A datagram for a port nobody is bound to is dropped.  *)
(***************************************************************************)
DropUnbound(m) ==
  /\ status[m.to] # "up"
  /\ net' = net (-) SetToBag({m})
  /\ UNCHANGED <<table, wait, status, bucket, budget>>

Lose(m) ==
  /\ Spend("loss")
  /\ net' = net (-) SetToBag({m})
  /\ UNCHANGED <<table, wait, status, bucket>>

Duplicate(m) ==
  /\ Spend("dup")
  /\ net' = net (+) SetToBag({m})
  /\ UNCHANGED <<table, wait, status, bucket>>

Crash(n) ==
  /\ status[n] = "up"
  /\ Spend("crash")
  /\ status' = [status EXCEPT ![n] = "crashed"]
  /\ UNCHANGED <<table, wait, bucket, net>>

\* A node is started again: nothing was saved.
RestartServer(n) ==
  /\ status[n] = "crashed"
  /\ \E raw \in init_peer_table :
       table' = [table EXCEPT ![n] = BootTable(n, raw)]
  /\ status' = [status EXCEPT ![n] = BootStatus(n, table'[n])]
  /\ wait' = [wait EXCEPT ![n] = FALSE]
  /\ UNCHANGED <<bucket, net, budget>>

Next ==
  \/ \E c \in Client : StartClient(c) \/ Timeout(c)
  \/ \E n \in Node : Receive(n) \/ Crash(n)
  \/ \E n \in Server : RestartServer(n)
  \/ \E m \in BagToSet(net) :
       \/ \E n \in Node : JoinReplyFails(n, m)
       \/ DropUnbound(m) \/ Lose(m) \/ Duplicate(m)

Spec == Init /\ [][Next]_vars

(***************************************************************************)
(* A process that is not stopped takes the datagrams it gets, and select   *)
(* returns after four seconds.                                             *)
(***************************************************************************)
FairSpec ==
  /\ Spec
  /\ \A n \in Node : WF_vars(Receive(n))
  /\ \A c \in Client : WF_vars(Timeout(c))
-----------------------------------------------------------------------------
\* The types of the C structures, and datagrams of the four kinds the
\* processes send (remote_procedure.h).
TypeOK ==
  /\ table \in [Node -> [Slot -> Bucket(Node)]]
  /\ wait \in [Node -> BOOLEAN]
  /\ status \in [Node -> {"off", "up", "exited", "crashed", "segv"}]
  /\ bucket \in [Client -> Slot \cup {NULL}]
  /\ DOMAIN net \subseteq Message /\ net \in [DOMAIN net -> Nat \ {0}]
  /\ budget \in [Faults -> Nat]

Home(n) == Hash[FileHash[n]]

\* The peers process n lists for its own file.
Listed(n) == ToSet(table[n][Home(n)].data)

\* A node that stays on the receiving side (rpc_test) lists, besides the peers
\* it was seeded with, only clients that list it too: entries come from JOIN
\* calls alone (recv_rpc), and join_peers calls only what is in the caller's
\* own bucket, however datagrams are lost, repeated, delayed or reordered and
\* whichever processes crash.
JoinIsMutual ==
  \A n \in Server : \A c \in Listed(n) \ ToSet(SeedPeers) :
    c \in Client /\ n \in Listed(c)

\* A client that exits because it found no peers (the timeout branch of
\* client_test) is in no other process's table and no peer list on its way
\* names it: nobody will ever be sent to a client that gave up.
GaveUpIsForgotten ==
  \A c \in Client \ ToSet(SeedPeers) : status[c] = "exited" =>
    /\ \A n \in Node : c \notin Listed(n)
    /\ \A m \in BagToSet(net) : m.type = "REPLY" => c \notin ToSet(m.peers)

\* Where peers come from.  A process fills only the slot of its own file.
\* Whoever is listed, or named in a list on its way, is a seed or a client that
\* found peers itself; lists are sent to clients alone, a JOIN goes only to a
\* process its sender lists, and a client exits only with an empty list.  The
\* two invariants above follow (P2PNetworkProofs).
Known(p) == p \in ToSet(SeedPeers) \/ (p \in Client /\ Listed(p) # {})

HomeOnly(n) ==
  /\ table[n][Home(n)].active => table[n][Home(n)].key = Home(n)
  /\ \A s \in Slot \ {Home(n)} : table[n][s].data = <<>>

MessageOK(m) ==
  /\ IsCall(m, GET_PEERS) => m.src \in Client
  /\ IsCall(m, JOIN) => m.origin \in Client /\ m.to \in Listed(m.origin)
  /\ m.type = "REPLY" => /\ \A p \in ToSet(m.peers) : Known(p)
                         /\ m.peers # <<>> => m.to \in Client

Provenance ==
  /\ \A n \in Node : HomeOnly(n) /\ \A p \in Listed(n) : Known(p)
  /\ \A m \in BagToSet(net) : MessageOK(m)
  /\ \A c \in Client : status[c] = "exited" => Listed(c) = {}

\* The bucket pointer client_test looked up before its loop is, as long as the
\* client runs, what a fresh lookup would give, and not NULL: reading through
\* it at a timeout is safe.  (On a heap that malloc hands out zeroed.)
CachedBucketIsCurrent ==
  \A c \in Client : status[c] = "up" =>
    /\ bucket[c] = get_peer_bucket(table[c], FileHash[c])
    /\ bucket[c] # NULL

Faulty == \E f \in {"loss", "crash"} : budget[f] < Budget[f]

\* Unless a datagram is lost or a process stopped, a client that was started
\* finishes its business, however datagrams are delayed or repeated: it gives
\* up for want of peers, or every process it lists has stored it (join_peers
\* is called, and its JOINs are accepted).
ClientSettles ==
  \A c \in Client :
    status[c] = "up" ~>
      \/ Faulty \/ status[c] # "up"
      \/ /\ Listed(c) # {}
         /\ \A p \in Listed(c) : c \in Listed(p)

-----------------------------------------------------------------------------
\* "The existence of `reply_to` is to check if the current node is a neighbor
\* to the node that called it, and if so it does not send a `GET_PEERS` to
\* that neighbor to prevent an infinite call loop" (nodes.h): a chain of
\* GET_PEERS calls comes to an end.
ChainsEnd ==
  (BagToSet(net) \cap GetPeersCalls # {}) ~> (BagToSet(net) \cap GetPeersCalls = {})

\* "the key to the list is the `hash_key` of the file" (README.md): a client
\* lists the peers a node was seeded with only if both are about one file.
OneTorrent ==
  \A c \in Client, n \in Server :
    /\ Seeded(n)
    /\ \E p \in ToSet(SeedPeers) : p \in Listed(c)
    => FileHash[c] = FileHash[n]
=============================================================================
