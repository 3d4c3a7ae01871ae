# Verification of peer2peer-file-distribution

TLA+ models of the peer-to-peer file distribution program in `src/`, checked
with TLC on small instances and, for the properties that matter most, proved
with TLAPS for all instances. `PROJECT.json` lists the runs, the source lines
behind every definition, the hazards, the findings and the theorems.

## The system

A process stands for one file (its `hash_key`) and keeps a table of peers for
it. Processes talk over UDP with two remote procedures:

- `GET_PEERS(src, hash)`: whoever has peers for the hash sends them to `src`,
  the process the chain of calls began with; whoever has none passes the call
  on to a neighbor;
- `JOIN`: the receiver stores the caller as a peer.

A client (`test/client_test.c`) reads a descriptor file, sends the first
`GET_PEERS`, stores the lists it receives and joins every peer in them. Nodes
and peers (`test/rpc_test.c`) only answer. Each process is single-threaded, so
a handler runs to its end before the next datagram is read; concurrency is
between processes and with the network.

| component | state | operations | interacts with |
|---|---|---|---|
| peer table (`peers.c`) | array of `MAX_PEER_BUCKETS` buckets: `active`, `key`, list of peers | `init_peer_table`, `set_peer`, `get_peer_bucket` | called by every handler and driver |
| growable arrays (`peers.c`, `nodes.c`) | `cap`, `len`, a heap block | `new_*_array`, `push_*`, `_resize_*_array`, `pop_*` | behind buckets and neighbor lists |
| neighbors (`nodes.c`) | the neighbor list of a process | `bootstrap_neigbors`, `XORdistance`, `compare_hash`, `get_peers`, `join_peers` | send datagrams through `call_rpc` |
| remote procedures (`remote_procedure.c`) | none of its own | `call_rpc`, `reply_rpc`, `recv_rpc` | table, neighbors, the driver's `wait` flag |
| client driver (`test/client_test.c`) | `wait`, a cached bucket pointer | start, receive loop with `select` timeout | all of the above |
| node driver (`test/rpc_test.c`) | `wait` (never read) | start with seeding, receive loop | all of the above |
| test harness (`test/main.c`) | child processes | forks five nodes | |
| descriptor parser (`test/client_test.c`, `test/file_test.c`) | a stack buffer, the file's node list and hash | `parse_descriptor_file` | cJSON, the client driver |
| cJSON trees (`lib/cjson`) | items linked by `next`, `prev`, `child`; member names | create, add, insert, detach, replace, reference, delete | the caller owns what no tree holds |
| cJSON texts (`lib/cjson`) | parse buffer, print buffer | `cJSON_Parse*`, `cJSON_Print*` | build and walk trees |
| file table (`file.h`) | none: declarations only | | |
| old demo (`main.c`) | none | prints datagrams undecoded | |

What is hard here, and what each part must get right:

- The table: buckets come from `malloc` with two fields unset, the hash has ten
  values, the lookup counts upwards from an arbitrary `uint32_t`. It is correct
  if peers stored for a hash are found again, in order, and none is lost.
- The arrays: length, capacity and block must agree through resizes and pops.
- The network: datagrams are lost, repeated and reordered, processes die and
  come back empty, the client's timeout races late answers, the `wait` flag is
  shared between the client's own search and the calls it serves. It is correct
  if nobody is listed who did not join, nobody is sent to a client that gave up,
  the client's cached pointer stays good, and a client ends up joined or gone.
- The start: a descriptor is read in pieces, tested member by member with
  returns in the middle, and the caller overlooks the result. It is correct if
  nothing of a rejected file gets into use and a good file is used as it is;
  where the code falls short of that is listed below.
- The sort of neighbors: distances wrap, and only the first entry is ever
  asked. It is correct if that is the nearest, ties in their given order.
- cJSON trees: three pointers per item, one of them doubling as tail pointer,
  are changed by some twenty calls in any order. They are correct if chains stay
  doubly linked and disjoint, nothing is forgotten, and each call does to the
  sequence of children what it promises.
- cJSON texts: the parser steps back and forth at the end of the text and
  unwinds from any depth; the printer writes now and measures later, in a buffer
  that grows, may run out or belong to the caller. They are correct if both stay
  inside their buffers, leak nothing and free nothing twice, and one reads what
  the other writes.

## Modules

| module | what it is |
|---|---|
| `PeerTable` | the operations of `peers.c` as functions of a table |
| `PeerStore` | a state machine of them: one table, one caller, any order of calls |
| `DynArray` | the growable array with its memory block |
| `Stack` | abstract: a list with push and pop at the end |
| `P2PNetwork` | all processes, the datagrams, timeouts and faults; uses `PeerTable` |
| `NeighborSort` | `XORdistance` and the insertion sort of `compare_hash`, one comparison or swap a step |
| `Startup` | both drivers up to their receive loops: the descriptor file, `bootstrap_neigbors`, the sort; uses `NeighborSort` |
| `JsonHeap` | the pointer operations of `cJSON.c` as functions of a heap |
| `JsonTree` | a state machine of them: one program, any order of calls, memory that may run out |
| `JsonForest` | abstract: every item has a sequence of children |
| `JsonValue` | values and characters, shared by the next four |
| `JsonParse` | `cJSON_ParseWithLengthOpts` with its recursion, one piece of text a step |
| `JsonPrint` | `cJSON_Print` and its variants with the print buffer, one write a step |
| `JsonLayout` | what both are measured by: the values a text can stand for, the text of each, a text without its blanks |
| `JsonText` | parse a text, print the value, parse the output again |
| `MC*` | instances for TLC |
| `PeerTableProofs`, `PeerStoreProofs`, `DynArrayProofs`, `P2PNetworkProofs`, `StartupProofs`, `JsonTreeProofs`, `JsonTextProofs`, `JsonReadProofs` | theorems and proofs |

`P2PNetwork` composes the components: every process has a table (`PeerTable`),
whose buckets are sequences; `DynArray` shows that the arrays behave as such.
`Startup` ends where `P2PNetwork` begins: with the neighbors of a process.

**PeerTable.** A bucket is `[active, key, data]`; a table maps slots to
buckets. `set_peer` has three outcomes: home slot, next slot (where `active` is
not set), dropped. `get_peer_bucket` answers the slot whose pointer the C code
hands out, or `NULL`. `Hash` is an arbitrary function from info_hashes to slots
(any collision pattern); `HeapActive` and `HeapKey` are the values `malloc` may
have left in the unset fields. `set_peers` is the loop over a received list in
closed form; `set_each_peer` of `PeerStore` is the loop itself, and
`SetPeersIsTheLoop` compares the two.

**P2PNetwork.** State per process: `table`, `wait`, `status`, and for clients
`bucket`, the cached pointer; `net` is a bag of datagrams. One action per path
through `recv_rpc`: `AnswerNoBucket`, `ForwardGetPeers`, `AnswerPeers`,
`AnswerTooMany`, `AcceptJoin`, `JoinReplyFails`, `IgnoreEmptyReply`,
`StorePeers`, `StoreTooMany`, `IgnoreReply`; one per path of the client's
timeout: `TimeoutNull`, `TimeoutExit`, `TimeoutJoin`. `StartClient` is
`client_test` up to its loop, `Init` and `RestartServer` are `rpc_test` up to
its loop. The environment loses, repeats and reorders datagrams and stops
processes.

`AddedIsFound` of `PeerStore` is the promise of the table: whatever was done
before, a peer stored under an info_hash is found under it, behind those that
were there, and nothing changes under the info_hashes of other slots. It holds for
any heap, but only of slots whose own keys can use them (`HomeUsable`): where
`malloc` left `active` set and another key, the code drops the peer or stores it
where no lookup finds it. `OwnershipIsPermanent` says that no operation makes a
slot unusable. About info_hashes of the same slot there is `CollidersApart`, which
the comment in `set_peer` promises and the code does not keep (`store_collision`).

**Startup.** A process is a client (`open` ... `running`) or a node
(`arguments` ... `running`). The client's file has a size in units of the
read buffer, and every `Read` writes the buffer from its front. `Parse` yields
the descriptor when the buffer holds all of it and otherwise any descriptor or
none. `Reject`, `AllocateNodes`, `TakeNode`, `RejectNode` and `Finish` are
`parse_descriptor_file` after that, with its tests as the source has them: some
accept an item of the wrong kind. Of a string only its length matters, since two
are copied without a bound: an ip behind the 16 bytes of an origin on the heap,
which the process survives or not (`TakeNode`), and `hash_key` behind the 36
bytes of `file_hash`, where `piece_length` is then written over some of it and
`name`, `nodes` and `node_len` may be overwritten by it (`CopyHash`, with the
places of the members on a 64-bit machine). A port keeps its lower bits
(`OriginOf`). The ip of an origin is given, empty or unset; `bootstrap_neigbors`
empties it (`Emptied`). `ClientBootstrap` and `NodeBootstrap` are the
calls of `bootstrap_neigbors`; a node then goes through `Measure`, `SwapDown`,
`Advance` and `Sorted`.

**JsonTree.** `heap` holds the three links, the flags and the name of every
item; `held` is what belongs to the program itself; `lost` are the items that are
allocated but that nobody has a pointer to. Each action is one call: its guard is what the interface asks of a caller
(no use of freed items, no cycles, no change below a reference), the rest is the
code's assignments in their order. Calls that fail for lack of memory stutter
if they leave no trace; the ones that do leave one (`LoseReference`,
`NameLost`, `RenameOnly`) are actions. `JsonForest` sees the sequence of
children that `Chain` reads off the pointers.

**JsonParse, JsonPrint, JsonLayout, JsonText.** `frames` are the running calls of
`parse_array` and `parse_object`, `blocks` the memory that is allocated, `out`
the size measured for the last string and what was written to it. Every
allocation may fail (`oom`); `ParseUnwind` returns through the fail labels.
`todo` is what the printer's running calls still have to do, as steps that ask
`ensure` for room (`need`), write (`chars`), and move the offset (`advance`) at
once or leave that to `update_offset`. `buffer` is the pointer of the
printbuffer and `buffers` counts what is allocated: where there is no memory for
a larger buffer, `ensure` frees the old one and clears the pointer
(`PrintNoMemory`), elsewhere it just answers `NULL` (`PrintRefuse`), and
`PrintFail` is the end of the call that has the buffer, each of the four in its
way. A `Mode` selects between the four print
functions. Characters are classes (`JsonValue` says which), so a literal, a
digit and a byte order mark are one character each. What a double loses of a
number is the constant `Rendered`: it gives the text of any numerals that
`print_number` prints differently than they were read, be it shorter (15 digits),
longer (17 digits), or as a `null`, when `strtod` has made the number infinite
(`cJSON.c:550-565`). `JsonLayout` describes texts
without saying how they come about: `Trees[n]` are the values that nest at most
`n` deep, `Layouts` is the text of each, formatted or not, and `Reading` is what
a text says when blanks are left out and strings are escaped as the printer
would. `Recoveries` is what is left of a value after a print and a parse: every
number is the one its printed text stands for. The recursive definitions are functions, so that they can be reasoned
about.

Points where the models follow the code rather than its intent:

- Every process calls itself `localhost`, which `inet_pton` rejects; datagrams
  go to the wildcard address and the port decides. Processes are named by port.
- `bootstrap_neigbors` leaves its entries with an empty ip, so the comparison
  with `reply_to` in `get_peers` never succeeds.
- The method of a reply is not converted back to host order. `GET_PEERS` is 0 in
  either order, `JOIN` is not.
- Neighbor entries all get one id and one distance, so that `compare_hash` keeps
  the order, which is what `Stable` shows; `P2PNetwork` therefore leaves the sort
  out. `NeighborSort` has arbitrary distances.
- `parse_descriptor_file` stores every node at index 0 and leaves the other
  pointers unset; what a client then reads is any port, or it dies.
- `parse_descriptor_file` answers 1 for an error, and `main` looks for negative
  results: a rejected file leads to a client without neighbors.
- Undefined behaviour is a choice between what builds of the code do: overruns
  of the two stack buffers kill the process, before or after its work, or leave
  it running. (Builds with and without stack protection show all of these.)
- `rpc_test` calls `bootstrap_neigbors` with an argument of the wrong type and
  dies of it if it has a neighbor. `PassesNodeArray = TRUE` is the code as it
  stands; with `FALSE` the call is taken to hand over the ports it means to,
  since nothing of the protocol, and no sort, could run otherwise. All passing
  runs use `FALSE`.
- Blank skipping in cJSON also skips the null character, so text behind it is
  read if the length says so.
- `cJSON_DetachItemViaPointer`, `get_object_item` and the reference calls are
  modelled with their asymmetries: a case-sensitive search by name ends at a
  child without one, a detached first child's successor keeps the tail pointer.

## Checks

Passing runs:

| run | shows | bounds |
|---|---|---|
| `array_list` | the array stays in its block and is a list | lengths to 5, hence two resizes (2, 4, 8) |
| `store` | any heap contents: a stored peer is found unless its slot looks taken, and disturbs no other slot; owned slots keep their peers, usable ones stay so; `set_peers` is the loop | 3 slots (home, next, last), all values of both unset fields, keys modulo 5 so that the lookup wraps, 3 info_hashes of which two collide, lists to 2 |
| `harness` | the network of `test/main.c` with two clients: nobody is listed who did not join, nobody who gave up is listed, cached pointers are current; unless a datagram is lost or a process stops, each client joins all it lists or gives up | one loss, one duplicate, one crash with restart, one repeated timeout, in all orders |
| `limits` | the same safety with `NULL` lookups (and the client that dies of one) and with lists that overrun the buffers | one slot, buffers of one peer, keys at and above the slot, one crash with restart, one repeated timeout |
| `json_tree` | any sequence of calls keeps chains linked both ways, forgets no item and no name, and does what `JsonForest` promises | 4 items (first, middle and last child, and one to put among them; two levels), 1 name or none, symmetry in the items |
| `json_text` | parsing, printing and parsing again: reads and writes stay in their buffers, nothing leaks or is freed twice, depth is counted right, output and input say the same but for what doubles lose, everything ends | all texts to 3 of 16 characters, 4 of 8, seven longer ones also cut at each length and with each character exchanged; nesting limit 2, `INT_MAX` 24 so that both limits of `ensure` are met; buffers of 0 to 20; numbers that are printed shorter, longer and as null; any allocation fails |
| `startup` | the sort ends with the nearest first and is stable; nothing of a rejected file is used; what a client keeps of a good file; every start ends | a buffer of 2 units and files of 0 to 3; the shipped descriptor with one member of each wrong kind, 0 to 2 nodes, a `hash_key` of 2, 35, 36, 40, 48, 64 or 72 characters (the last that fits, and those that reach the members behind), an ip of 9 or 16; ports -1, 1 and 5 modulo 3; 0 to 4 neighbors (an overwritten `node_len` is bounded by 4 too), distances modulo 8 that meet, wrap and are negative |

The client `c2` of `harness` asks a peer that `c1` joins, so that it
receives a list of one: the branch of `recv_rpc` that stores and does not join.
Deadlock is not checked in any run: when nothing is on its way and no client
waits, all processes block in `recvfrom`, and an array whose `realloc` failed
has exited; the programs of the last three runs end.

The bounds on faults and repeated timeouts (`Budget`) and on list lengths
(`MaxLen`) make the models finite; the theorems hold for any budget.

Fairness (`FairSpec`): a process that is up eventually takes a datagram that has
arrived, since its loop does nothing but receive; and `select` eventually
returns in a waiting client. A lost datagram or a stopped process may leave a
client waiting for ever, which is why `ClientSettles` lets it off then; delays,
duplicates and repeated timeouts are no excuse. Nothing is assumed about starting clients, about
faults, or about which datagram is taken first. `Startup` and `JsonText` are
sequential programs that never wait, so weak fairness of their next step says no
more than that a running program goes on. `JsonTree` has no fairness: the
program may stop calling.

Runs that show a disagreement between the code and what its comments and
documents say (details under `findings`):

| run | what happens |
|---|---|
| `store_collision` | two info_hashes of one slot share a list, where the comment promises a bucket of its own |
| `hang` | answering a `GET_PEERS` clears the client's own `wait`: it never joins the one peer it has |
| `call_loop` | two neighbors without peers call each other for ever |
| `one_torrent` | forwarded calls carry the forwarder's hash: a client gets another file's peers |
| `json_leak` | a reference whose name cannot be copied is neither added nor freed |

Further disagreements that the models contain, without a run of their own:

- `get_peers` asks the first neighbor only (`nodes.c:86`); the repository's
  README speaks of "every neighboring nodes".
- `get_peer_bucket` hands out buckets in which nothing was stored
  (`peers.c:84`); its comment promises `NULL`.
- The probing loop of `set_peer` gives up after one slot (`peers.c:63`); its
  comment speaks of traversing the table.
- A `JOIN` reply reaches the switch with its method in network order
  (`remote_procedure.c:103`); `remote_procedure.h:131` says the conversion is
  handled.
- A reply may announce more peers than the receiver's array holds
  (`remote_procedure.c:287`). Lists grow without bound: each timeout of a client
  sends the JOINs again (`client_test.c:130`), and `push_peer` lists it again.
- Nodes with neighbors die at start-up (`rpc_test.c:73`), which `test/test.md`
  uses as if it worked.
- `new_peer_array` sets neither `active` nor `key` (`peers.c:104`), so that a fresh
  bucket may look like that of another key: `set_peer` then drops the peer, or
  stores it where no lookup finds it. The README promises every node its list of
  peers per `hash_key`.
- Of a descriptor longer than `FILE_BUFFER_SIZE` each read overwrites the one
  before (`client_test.c:156`), and something else than the file is parsed.
- Of several nodes in a descriptor a client keeps the last: `i` is never
  incremented (`client_test.c:250`). The README speaks of a list of addresses.
- The tests of `hash_key` and `piece_length` (`client_test.c:204` and 210) let items
  of other kinds pass, although their messages are "key is is not String" and "key
  is is not Number". A `hash_key` that is no string is then copied from a null
  pointer.
- A `hash_key` of 36 characters, a UUID as `nodes.c:116` has it, does not fit
  `file_hash` with its null character (`client_test.c:254`), and line 255 writes
  `piece_length` behind it: the hash in use is another one. Longer ones reach
  `name`, `nodes` and `node_len` as well.
- An ip of 16 characters or more leaves its block on the heap
  (`client_test.c:249`); a port keeps its lower 16 bits (`client_test.c:248`).
- `main` of `client_test.c` ignores the result 1 of `parse_descriptor_file`
  (line 42) and goes on. `RejectedLeavesNothing` says that it then has nothing of
  the file.
- `cJSON.h:197-198` asks for five bytes more than the output in a preallocated
  buffer; `PreallocatedSuffices` shows that the output, its null character and
  one more byte are enough.

What is true of a client's start in spite of all this is
`StartsWithItsFile`: if the file fits the buffer, the descriptor is accepted and
its strings fit, the client has the file's hash, as many neighbors as the file
has nodes, and as the first of them, the one `get_peers` asks, the last node of
the file, with its port cut to 16 bits. `NothingForgotten` speaks of live items,
those that some pointer leads to; `json_leak` is about the others.

`RoundTrip` says what is read back, if there is memory for it: the value, with
each number as what its printed text stands for. A number that no double
holds comes back as a `null`. The largest double is printed with 15 digits, which
stand for an infinite number, and comes back as that.

## Proofs

All theorems hold for every value of the constants: every set of processes,
neighbor graph, hash function, number of slots and budget of faults; every
descriptor, file size and buffer; every finite set of items and every set of
names; every text and length, nesting limit, print mode, rendering of numbers and
`INT_MAX`. The named
assumptions are `PeerTableAssumption`, `NetworkAssumption`, `MaxLenAssumption`,
`DynArrayAssumption`, `SortAssumption`, `FileAssumption`, `ItemAssumption`,
`KeyAssumption`, `LimitAssumption`, `TextsAssumption`, `ModesAssumption`,
`IntMaxAssumption` and `RenderedAssumption`; every run evaluates its own.

- `DynArrayProofs`: `FitsItsBlock` is inductive as it stands (length, capacity
  and block change together); with it each operation maps to one of `Stack`.
- `PeerStoreProofs`, all but one for any heap. `OwnershipPermanence` from the types
  and one lemma, `HomeStaysUsable`. `AddedIsFoundCorrect` from the invariant
  `Keyed`: a bucket with peers carries its own slot as its key, so a lookup can
  miss only a slot without peers; `AddedIsFound` alone is not inductive, since it
  says nothing about buckets that were filled by probing. `ClearFlagsDropNothing` is
  for buckets whose `active` byte is clear: all slots are then usable, and remain
  so, and the condition of `AddedIsFound` is always met.
  `LoopCorrect`: from any table and for any heap, storing a list at once is the
  loop of `set_peer` calls. After the first peer the branch is decided for the
  others (`set_peers` of the first `i` peers, followed by `set_peer`, is
  `set_peers` of `i + 1`); the loop is a recursive function, which equals the
  closed form because a least place where they differ would contradict that.
- `P2PNetworkProofs`: `NetworkTypeCorrect` for any heap. For buckets whose
  `active` byte is clear, `JoinIsMutualCorrect` and `GaveUpIsForgottenCorrect`.
  Neither invariant is inductive: both speak of what was listed when a datagram
  was sent. The strengthening is `Provenance`: what a datagram on its way may
  say, that a process fills its own file's slot only, and that a client exits
  only with an empty list. Client lists only grow, so what `Provenance` says of
  a datagram stays true while it travels, however late it arrives.
  `CachedBucketCorrect` is for buckets whose key is zero as well: with
  `FoundAndKept`, a client's own bucket is found under its key, 0 or the slot,
  before and after every store, and where it was at the start.
- `StartupProofs`: `NearestFirstCorrect` from the loop invariant of an insertion
  sort (`Sinking`): up to `i` every entry is behind the nearer ones, except
  that the one at `j` may have to sink further. `Stable` is inductive with it: a
  swap exchanges two neighbors in the permutation, and only if their distances
  differ. `RejectedLeavesNothingCorrect` from `StartInv`: the length and the hash
  are set only in `Finish`, and the nodes seen before were usable.
  `StartsWithItsFileCorrect` from `FileInv`: a file that fits is read at one go
  (`Reading`), the descriptor parsed is then the file's (`Parsed`), `nodes[0]` is
  the element seen last (`Taking`), and strings that fit leave it there until
  `bootstrap_neigbors` reads it (`Handed`).
- `JsonTreeProofs`, first part: what one call does to a heap. `Shape(h, K, F)` says that the
  pointers of `h` draw the sequences `K` and that `F` are the items held:
  `Linked` (child, next and prev of every chain, with the tail behind the prev of
  the head), `OthersBlank` (the fields of an item that is not live are zero, so
  that memory handed out again needs no cleaning), and `Nested`, which speaks of
  sequences only: children are different and live (`Inside`), a child has one
  parent apart from references to it (`Shared`), held items are nobody's children
  (`Free`), and a set that holds `F` and the children of its members is all of the
  live items (`Reached`). The last part says that nothing is forgotten and, with
  the others, that no item is below itself (`Acyclic`): without it, adding an item
  below itself would keep every chain well linked. One group of lemmas changes
  `Nested` (`NestedRelink`, `NestedGrow`, `NestedRefer`, `NestedPrune`), one
  computes the pointers that each function leaves (`AddRelinks`, `InsertRelinks`,
  `DetachRelinks`, `ReplaceRelinks`, by place: first, middle, last, only child),
  and one combines them (`AddShape` ... `RemoveShape`). `ChainIs` shows that a loop
  along `next` meets the sequence, `BelowIs` and `TreeIs` that the recursion of
  `cJSON_Delete` meets what is below in the sequences.
- `JsonTreeProofs`, second part: the inductive invariant `Inv` is `Shape` of the sequences read
  off the heap, `Counted` (the copies of names are those of live items) and that
  lost memory stays out of use. One lemma per action shows that it keeps `Inv` and
  is the action of `JsonForest` of the same meaning (`NextStep` collects them);
  `LoseReference` is a stutter. From `Inv` follow `TypeOK`, `ChainsWellLinked`,
  `NothingForgotten` and `NamesAccounted`, and with the steps `ImplementsForest`.
- `JsonTextProofs`, parser: it keeps `Parsing`, four parts
  of which none stands alone. `Placed`: the offset is in the text, and strictly
  inside in the places that read without asking, which needs that skipping
  blanks never ends behind a character. `Typed`: values, names and children are
  trees that a closed set of values holds (there is no recursive type to state it
  with). `Nested`: the depth is the number of calls, unless the parse is failing.
  `Counted`: the blocks are those of the item returned, of each running call and
  of the value read last; a list of partial sums stands for the sum over calls.
  `ContentsLength` computes how long a string with escapes comes out, from which
  `StringMeasured` follows.
- `JsonTextProofs`, printer: it keeps `Printing`: `Buffered` (what is written fits
  the buffer and the offset is inside, `Fitting`; `Owned` says whose the buffer is,
  and that while a print fails it is allocated exactly if the pointer to it is set
  or the caller has it) and `Scheduled`, which
  says of every list of steps that may be left to do that each write fits what
  it asks for and that each `update_offset` comes behind a write that left a null
  character; `ValueProgram`, `ArrayProgram` and `ObjectProgram` show it of what
  the print functions expand to. With `Flags` the three make the inductive
  invariant `Inv`, from which `TypeOK`, `ReadsInside`, `DepthIsNesting`,
  `ParseFreesAll`, `BufferHolds`, `TerminatedAtUpdate` and `PrintFreesAll`
  follow; `StringsFit` is inductive relative to it.
- `JsonTextProofs`, both: `FullInv` adds three parts to `Inv`. `Treed`: the
  children of the `k`-th running call nest at most `CJSON_NESTING_LIMIT - k` deep
  and the value read last fits there, from which `ParsedNestsCorrect` follows.
  `Given`: what is printed is such a value, in a mode of `Modes`, and a buffer of
  the caller keeps its size. `Told`: what C sees in the buffer up to the offset,
  joined with what the steps in `todo` still spell (`Printout`), is the layout of
  what is left of the value, its numbers as `print_number` writes them.
  `PrintedIsLayout` says this only of the end, and is therefore not inductive;
  `Told` is, because `print_value` expands to steps that spell what they replace
  (`ValueBrings`), a write moves its characters from one side to the other, and a
  growing buffer keeps what was written. `PreallocatedSuffices` follows, since a
  step asks for at most one byte more than it writes (`RefusedTooLong`).
- `JsonReadProofs`: `ParsedIsTextCorrect`, with `Followed` as the inductive
  invariant beside `FullInv`. At every place of the parser it says what the
  `Reading` of the text up to the offset is: what each running call has read
  since its bracket (`OpenedText`: the bracket, its children, a comma behind each
  of them), the name before the next value (`Label`), and the value read last.
  The length that was given cuts the text, blanks may include null characters,
  and an error or a byte order mark in the wrong place ends in failure, so the
  invariant names these cases. A string is followed character by character
  (`HearString`), through escapes and past a null character, where C stops
  looking; a closed container is the layout of its children (`MoreTextIs`).
- `JsonReadProofs`, second part: `RoundTripCorrect`, with `Retraced` as the
  inductive invariant beside `FullInv`. `RoundTrip` speaks only of the end, and
  `Followed` only of what has been read; `Retraced` says of the second parse what
  is still to be read. There are values `g`, one inside of the other from
  `Recovered(first)` on, and words `r` behind each of them (`Trail`), such that every running call
  has read the first children of its value, as they are, and the rest of the text
  is the child in work followed by `r` (`Led`). Each step then meets what the
  printer wrote: the bracket, the comma, the colon or the quotation mark is there
  after blanks (`AheadSkip`), a number stops where it should because no digit
  follows (`Stops`), an escaped string is read back letter by letter (`SpeltMore`),
  and the depth suffices because the first parse built the value within it
  (`Treed`) and printing numbers differently does not change how it nests. A comma moves the trail on (`TrailNext`), a bracket takes a value off
  it (`TrailPop`) or puts one on it (`TrailPush`). The only failing steps left are
  those of a failing allocation. The start comes from `Told`: the second text is
  `Printout(first, mode.format)`, which is `Layout(Recovered(first), mode.format)`
  (`RecoveredText`): a number's text is a numeral again, or the word of a literal.
- `PeerTableProofs`: lemmas on the operators of `PeerTable`.

The recursive functions `Trees`, `Layouts`, `Recoveries` and `Reading` are unfolded where they
are used: that such a function exists is shown by taking the least argument for
which none would, and properties of all trees of a depth go up from one depth to
the next in the same way (`Climb`). The induction theorems of the library are not
used.

Of the two assumptions on print modes, `ModesAssumption` says what holds of any
call: the lengths given to `cJSON_PrintBuffered` and `cJSON_PrintPreallocated` are
`int`, and only `cJSON_Print` and `cJSON_PrintUnformatted`, which own their
buffer, trim it.

Only model-checked: liveness (`ClientSettles`, `StartEnds`, `Terminates`), which
is outside the prover's reach.

## Not modelled

- cJSON: `cJSON_Duplicate`, `cJSON_Compare`, `cJSON_Minify`,
  `cJSON_SetValuestring`, the `cJSON_Is*` tests and the memory hooks, none of
  which this program uses; UTF-16 escapes; which text a given number is printed
  as (`Rendered` is arbitrary, within what the branches of `print_number` can
  write); `valueint` and its saturation.
- The two passes of `parse_string` over an escape and `print_string_ptr` share one
  table of escapes, as long as UTF-16 escapes are left out: `StringsFit` shows that
  what is written fits what was measured, not that the tables agree.
- A client that is run again on its port after it has ended: only nodes restart.
  `JoinIsMutual` and `GaveUpIsForgotten` are about a client's first life. Peers are
  sets there, so that a client listed twice after repeated JOINs does not show.
- An allocation that fails inside of `cJSON_Parse` at the start of a client, which
  ends like a file that is not JSON; `json_text` has such failures.
- References whose original is changed: the interface forbids it.
- `ensure` copies `offset + 1` bytes (`cJSON.c:507`), the last of which may be
  unwritten; its value does not matter, since the write that follows covers it.
- The byte layout of `rpc_msg` beyond the method's byte order, and the one byte
  in which a bucket's length travels.
- Allocation failures at start-up (`peers.c:109`), failing `socket`, `bind`,
  `select` and `recvfrom` (the process exits), log output, including the loop of
  `nodes.c:108` that reads entries to print them.
- `test/main.c`'s forking and signal handling, the old `main.c` demo, `file.h`
  (declarations without code), `file_test.c` (an older copy of
  `parse_descriptor_file` with its own `main`).

## Plan

Done, in this order: `PeerTable`, `PeerStore`, `P2PNetwork`, `DynArray` and their
proofs; `NeighborSort` and `Startup` with proofs; `JsonTree` with `JsonForest` and
the proof that it implements it; `JsonText` with proofs. What is left:

1. `RpcMsg`: the union of call and reply bodies, and the offsets of `method` in
   each; encode and decode as inverse functions where they are.
2. `cJSON_Duplicate` and `cJSON_Compare` on `JsonHeap`: a duplicate compares
   equal and shares nothing with its original.
