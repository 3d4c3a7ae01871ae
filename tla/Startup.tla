------------------------------ MODULE Startup ------------------------------
(***************************************************************************)
(* How the processes of the network start, up to the neighbors they know:  *)
(* client_test reads a descriptor file with parse_descriptor_file and      *)
(* bootstraps with the nodes in it, rpc_test bootstraps with its arguments *)
(* and sorts.                                                              *)
(*                                                                         *)
(* What cJSON finds in a descriptor is a record of the kinds of its items; *)
(* "absent" is the NULL of a lookup, and list are the elements of nodes.   *)
(* Of a string only the length is kept, of a port its valueint.  A file is *)
(* its descriptor and its size, in units of which FILE_BUFFER_SIZE fit the *)
(* buffer.                                                                 *)
(***************************************************************************)
EXTENDS NeighborSort, FiniteSets

CONSTANTS
  FILE_BUFFER_SIZE, ID_SIZE, INET_ADDRSTRLEN,
  PORTS,             \* of a uint16_t: 2^16
  Descriptors, Sizes,
  MaxPorts,          \* bound on the arguments of rpc_test, and on a node_len
                     \* that strcpy has overwritten
  PassesNodeArray    \* TRUE: rpc_test bootstraps with a node_array, as it stands

Kind == {"absent", "string", "number", "object", "array", "other"}
Element == [ip : Kind, ip_len : Nat, port : Kind, valueint : Int]
Descriptor ==
  [file : Kind, path : Kind, name : Kind, length : Kind, hash_key : Kind,
   hash_len : Nat, piece_length : Kind, nodes : Kind, list : Seq(Element)]

\* Only an object has members with names, and only an array has elements.
ASSUME FileAssumption ==
  /\ Descriptors \subseteq Descriptor
  /\ \A d \in Descriptors :
       /\ d.file # "object" => {d.path, d.name, d.length} = {"absent"}
       /\ d.nodes # "array" => d.list = <<>>
  /\ FILE_BUFFER_SIZE \in Nat \ {0} /\ Sizes \subseteq Nat
  /\ ID_SIZE \in Nat /\ INET_ADDRSTRLEN \in Nat
  /\ PORTS \in Nat \ {0} /\ Port = 0..PORTS - 1
  /\ MaxPorts \in Nat /\ PassesNodeArray \in BOOLEAN

\* Where members of desciptor_file lie behind file_hash: after piece_length
\* and length the pointer name, then path, nodes and node_len.
NameAt == ID_SIZE + 12
NodesAt == ID_SIZE + 28
NodeLenAt == ID_SIZE + 36

\* An origin, or the pointer that malloc has left in its place.
Unset == [ip |-> "unset", port |-> -1]

VARIABLES
  file,       \* the descriptor in it, and its size
  buffer,     \* per cell the unit of the file it holds, or 0 for stack bytes
  position,   \* in the file
  json,       \* what was parsed: one descriptor or none
  nodes,      \* file->nodes
  known,      \* how many elements the loop over the nodes has seen
  node_len,
  file_hash,  \* "empty", the "own" one of the descriptor, or an "other" string
  status      \* what the process does next, or how it has ended
fileVars == <<file, buffer, position, json, nodes, known, node_len, file_hash>>
vars == <<sortVars, fileVars, status>>

-----------------------------------------------------------------------------
Files == [descriptor : Descriptors, size : Sizes]

Init ==
  /\ file \in Files
  /\ buffer = [c \in 1..FILE_BUFFER_SIZE |-> 0] /\ position = 0
  /\ json = <<>> /\ nodes = <<>> /\ known = 0
  /\ node_len = 0 /\ file_hash = "empty"
  /\ \/ status = "open"
     \/ status = "arguments" /\ file = CHOOSE f \in Files : TRUE   \* not read
  /\ Idle(<<>>)

Bootstrapped(ports) ==
  /\ neighbors' = [k \in DOMAIN ports |-> NewEntry(ports[k])]
  /\ given' = neighbors'
  /\ UNCHANGED <<i, j, sorting>>

Keep == UNCHANGED sortVars
To(next) == status' = next /\ Keep

\* open answers -1, the only result that main takes for an error.
OpenFails == status = "open" /\ To("exited") /\ UNCHANGED fileVars
Open == status = "open" /\ To("read") /\ UNCHANGED fileVars

\* Every read begins at the front of the buffer.
Read ==
  /\ status = "read" /\ position < file.size
  /\ LET n == IF file.size - position < FILE_BUFFER_SIZE
                THEN file.size - position ELSE FILE_BUFFER_SIZE
     IN /\ buffer' = [c \in DOMAIN buffer |-> IF c <= n THEN position + c ELSE buffer[c]]
        /\ position' = position + n
  /\ To("read")
  /\ UNCHANGED <<file, json, nodes, known, node_len, file_hash>>

\* read answers 0, or -1, which ends the loop as well.
Whole == \A c \in 1..file.size : c \in DOMAIN buffer /\ buffer[c] = c

\* cJSON_Parse: the descriptor, if its whole text is at the front of the
\* buffer, and else whatever the bytes in it amount to.
Parse ==
  /\ status = "read"
  /\ json' \in IF Whole /\ file.size > 0 THEN {<<file.descriptor>>}
               ELSE {<<>>} \cup {<<d>> : d \in Descriptors}
  /\ To("check")
  /\ UNCHANGED <<file, buffer, position, nodes, known, node_len, file_hash>>

\* The tests of the members outside of the nodes; some let a wrong kind pass.
Complete(d) ==
  /\ d.file # "absent"
  /\ d.path = "string" /\ d.name = "string" /\ d.length = "number"
  /\ d.hash_key # "absent" /\ d.piece_length # "absent"
  /\ d.nodes = "array"

\* The result is 1, and main goes on.
Reject ==
  /\ status = "check"
  /\ json # <<>> => ~Complete(json[1])
  /\ To("bootstrap") /\ UNCHANGED fileVars

\* Slip: the length is set with the allocation and not at the end.
AllocateNodesCounted ==
  /\ status = "check" /\ json # <<>> /\ Complete(json[1])
  /\ nodes' = [n \in DOMAIN json[1].list |-> Unset]
  /\ node_len' = Len(json[1].list)
  /\ To("nodes")
  /\ UNCHANGED <<file, buffer, position, json, known, file_hash>>

AllocateNodes ==
  /\ status = "check" /\ json # <<>> /\ Complete(json[1])
  /\ nodes' = [n \in DOMAIN json[1].list |-> Unset]
  /\ To("nodes")
  /\ UNCHANGED <<file, buffer, position, json, known, node_len, file_hash>>

Usable(node) == node.ip = "string" /\ node.port = "number"

\* A valueint loses its higher bits in the port.
OriginOf(node) == [ip |-> "given", port |-> node.valueint % PORTS]

\* Slip: the loop does not go on to the next element.
TakeNodeForEver ==
  /\ status = "nodes" /\ known < Len(json[1].list)
  /\ Usable(json[1].list[known + 1])
  /\ nodes' = [nodes EXCEPT ![1] = OriginOf(json[1].list[known + 1])]
  /\ To("nodes")
  /\ UNCHANGED <<file, buffer, position, json, known, node_len, file_hash>>

\* Each element is stored at the index 0.  An ip that is too long is copied
\* over what lies behind the origin on the heap; the process then dies, or
\* goes on if nobody needs what was there.
TakeNode ==
  /\ status = "nodes" /\ known < Len(json[1].list)
  /\ Usable(json[1].list[known + 1])
  /\ nodes' = [nodes EXCEPT ![1] = OriginOf(json[1].list[known + 1])]
  /\ known' = known + 1
  /\ \/ To("nodes")
     \/ json[1].list[known + 1].ip_len >= INET_ADDRSTRLEN /\ To("segv")
  /\ UNCHANGED <<file, buffer, position, json, node_len, file_hash>>

\* The result is 1 here too.
RejectNode ==
  /\ status = "nodes" /\ known < Len(json[1].list)
  /\ ~Usable(json[1].list[known + 1])
  /\ To("bootstrap") /\ UNCHANGED fileVars

\* strcpy of a hash_key of n characters into file_hash, behind which lie the
\* other members: nodes and node_len may be overwritten with them, and
\* piece_length is set over the characters that have come to lie there.
CopyHash(n) ==
  /\ file_hash' \in IF n < ID_SIZE THEN {"own"} ELSE {"own", "other"}
  /\ nodes' \in IF n < NodesAt THEN {nodes} ELSE {nodes, [k \in DOMAIN nodes |-> Unset]}
  /\ node_len' \in IF n < NodeLenAt THEN {Len(json[1].list)} ELSE 0..MaxPorts

\* Only a string has a valuestring.  The name and the nodes are printed,
\* through pointers that may never have been set, or no longer be right.
Finish ==
  /\ status = "nodes" /\ known = Len(json[1].list)
  /\ \/ /\ json[1].hash_key = "string"
        /\ CopyHash(json[1].hash_len)
        /\ \/ To("bootstrap")
           \/ (node_len' > 1 \/ json[1].hash_len >= NameAt) /\ To("segv")
     \/ /\ json[1].hash_key # "string"
        /\ node_len' = Len(json[1].list) /\ UNCHANGED <<nodes, file_hash>>
        /\ To("segv")
  /\ UNCHANGED <<file, buffer, position, json, known>>

\* The ip of each entry is copied over the one of its origin, and not the
\* other way round.
Emptied(n) ==
  [k \in DOMAIN nodes |-> IF k <= n THEN [nodes[k] EXCEPT !.ip = "empty"] ELSE nodes[k]]

HasFirst == nodes # <<>> /\ nodes[1] # Unset

\* Slip: the reading begins behind nodes[0].
ClientBootstrapBehind ==
  /\ status = "bootstrap"
  /\ \E ports \in [1..node_len -> Port] : Bootstrapped(ports)
  /\ nodes' = Emptied(node_len)
  /\ status' = "running"
  /\ UNCHANGED <<file, buffer, position, json, known, node_len, file_hash>>

\* bootstrap_neigbors reads the ports behind nodes[0] instead of through the
\* pointers, and writes through all pointers, also those never set.
ClientBootstrap ==
  /\ status = "bootstrap"
  /\ \/ /\ \E ports \in [1..node_len -> Port] :
             /\ node_len > 0 /\ HasFirst => ports[1] = nodes[1].port
             /\ Bootstrapped(ports)
        /\ nodes' = Emptied(node_len)
        /\ status' = "running"
     \/ /\ node_len > 1 \/ (node_len = 1 /\ ~HasFirst)
        /\ UNCHANGED nodes
        /\ To("segv")
  /\ UNCHANGED <<file, buffer, position, json, known, node_len, file_hash>>

\* rpc_test hands over its array of entries where an array of pointers is
\* declared; with PassesNodeArray FALSE the call does what it means to.
NodeBootstrap ==
  /\ status = "arguments"
  /\ \E n \in 0..MaxPorts : \E ports \in [1..n -> Port] :
       IF PassesNodeArray /\ n > 0 THEN To("segv")
       ELSE Bootstrapped(ports) /\ status' = "compare"
  /\ UNCHANGED fileVars

Compare ==
  /\ status = "compare" /\ status' = "sort"
  /\ \E hash \in Hash : Measure(hash)
  /\ UNCHANGED fileVars

Sort ==
  /\ status = "sort"
  /\ \/ (SwapDown \/ Advance) /\ status' = "sort"
     \/ Sorted /\ status' = "running"
  /\ UNCHANGED fileVars

Next ==
  \/ OpenFails \/ Open \/ Read \/ Parse \/ Reject \/ AllocateNodes
  \/ TakeNode \/ RejectNode \/ Finish \/ ClientBootstrap
  \/ NodeBootstrap \/ Compare \/ Sort

Spec == Init /\ [][Next]_vars /\ WF_vars(Next)
-----------------------------------------------------------------------------
Accepted(d) == Complete(d) /\ \A n \in DOMAIN d.list : Usable(d.list[n])

\* A client that runs although its file was rejected, at whatever place, has
\* no neighbor and no hash: nothing of a file half read gets into use.
RejectedLeavesNothing ==
  status = "bootstrap" /\ (json # <<>> => ~Accepted(json[1])) => node_len = 0 /\ file_hash = "empty"

ReadAtOnce == position > 0 /\ position = file.size /\ file.size <= FILE_BUFFER_SIZE

\* Every string of an accepted descriptor has room where it is copied.
Fits(d) ==
  d.hash_len < ID_SIZE /\ \A n \in DOMAIN d.list : d.list[n].ip_len < INET_ADDRSTRLEN

\* What a client that runs keeps of a file that fits the buffer and that it
\* accepted, with strings that fit: the hash, the number of the nodes, and as
\* the first neighbor, the one get_peers asks, the last node of the file, with
\* the lower 16 bits of its port.  Its ip is not kept.
StartsWithItsFile ==
  LET d == file.descriptor
  IN status = "running" /\ ReadAtOnce /\ Accepted(d) /\ Fits(d)
       => /\ file_hash = "own"
          /\ Len(neighbors) = Len(d.list)
          /\ d.list # <<>>
               => neighbors[1].port = d.list[Len(d.list)].valueint % PORTS

\* Every start comes to its end: the process runs, or has given up or died.
StartEnds == <>(status \in {"running", "exited", "segv"})
=============================================================================
