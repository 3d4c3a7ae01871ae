--------------------------- MODULE StartupProofs ----------------------------
(***************************************************************************)
(* The insertion sort of compare_hash is right for any neighbors, any      *)
(* distances and any width of them, and a rejected descriptor leaves       *)
(* nothing behind, whatever the descriptors and the sizes of the files.    *)
(***************************************************************************)
EXTENDS Startup, TLAPS

\* What the sort needs of its variables.
SortTypes ==
  /\ neighbors \in Seq(Entry) /\ given \in Seq(Entry)
  /\ Len(given) = Len(neighbors)
  /\ i \in 0..Len(neighbors) /\ j \in 0..i
  /\ sorting \in BOOLEAN /\ (sorting /\ i = Len(neighbors) => j = i)

\* Up to the outer index everything is in order, except that the entry at the
\* inner index has not sunk far enough yet.
Sinking ==
  sorting => \A k, l \in 1..Len(neighbors) :
               k < l /\ l <= i + 1 /\ l # j + 1
                 => neighbors[k].distance <= neighbors[l].distance

SortInv == SortTypes /\ Sinking /\ NearestFirst /\ Stable

\* What has just been given is a rearrangement of itself.
LEMMA SameIsStable ==
  ASSUME NEW n \in Nat, Len(neighbors') = n, given' = neighbors'
  PROVE  Stable'
<1> DEFINE id == [k \in 1..n |-> k]
<1>1. id \in [1..Len(given') -> 1..Len(given')] /\ Len(given') = n
  OBVIOUS
<1>2. \A k \in 1..n : id[k] = k
  OBVIOUS
<1> HIDE DEF id
<1>3. \A k \in 1..Len(given') : neighbors'[k] = given'[id[k]]
  BY <1>1, <1>2
<1>4. \A k, l \in 1..Len(given') :
        k < l => /\ id[k] # id[l]
                 /\ neighbors'[k].distance = neighbors'[l].distance => id[k] < id[l]
  BY <1>1, <1>2
<1> QED BY <1>1, <1>3, <1>4 DEF Stable

LEMMA UnchangedStable ==
  ASSUME Stable, neighbors' = neighbors, given' = given
  PROVE  Stable'
BY DEF Stable

LEMMA InitSort == Idle(<<>>) => SortInv
<1> SUFFICES ASSUME Idle(<<>>) PROVE SortInv
  OBVIOUS
<1>1. neighbors = <<>> /\ given = <<>> /\ i = 0 /\ j = 0 /\ sorting = FALSE
  BY DEF Idle
<1>2. SortTypes
  <2>1. Len(neighbors) = 0 /\ neighbors \in Seq(Entry)
    BY <1>1
  <2>2. ~sorting /\ sorting \in BOOLEAN
    BY <1>1, Zenon
  <2>3. i \in 0..Len(neighbors) /\ j \in 0..i /\ given \in Seq(Entry)
    BY <1>1, <2>1
  <2> QED BY <1>1, <2>1, <2>2, <2>3, Zenon DEF SortTypes
<1>3. Sinking /\ NearestFirst
  BY <1>1 DEF Sinking, NearestFirst
<1>4. Stable
  <2> DEFINE id == [k \in 1..0 |-> k]
  <2>1. id \in [1..Len(given) -> 1..Len(given)] /\ Len(given) = 0 /\ Len(neighbors) = 0
    BY <1>1
  <2>2. \A k \in 1..Len(given) : FALSE
    BY <2>1
  <2> HIDE DEF id
  <2> QED BY <2>1, <2>2 DEF Stable
<1> QED BY <1>2, <1>3, <1>4 DEF SortInv

\* Fresh entries all have the distance 0.
LEMMA BootstrapSort ==
  ASSUME SortInv, ~sorting, i = 0, j = 0,
         NEW n \in Nat, NEW ports \in [1..n -> Port], Bootstrapped(ports)
  PROVE  SortInv'
<1>1. /\ neighbors' \in Seq(Entry) /\ Len(neighbors') = n
      /\ \A k \in 1..n : neighbors'[k].distance = 0
  <2>1. \A k \in 1..n : NewEntry(ports[k]) \in Entry /\ NewEntry(ports[k]).distance = 0
    BY SortAssumption DEF NewEntry, Entry, Ip
  <2>2. neighbors' = [k \in 1..n |-> NewEntry(ports[k])]
    BY DEF Bootstrapped
  <2> QED BY <2>1, <2>2
<1>2. given' = neighbors' /\ i' = 0 /\ j' = 0 /\ sorting' = FALSE
  BY DEF Bootstrapped, SortInv, SortTypes
<1>3. SortTypes' /\ Sinking'
  <2>1. SortTypes'
    <3>1. ~sorting' /\ sorting' \in BOOLEAN
      BY <1>2, Zenon
    <3>2. /\ i' \in 0..Len(neighbors') /\ j' \in 0..i'
          /\ given' \in Seq(Entry) /\ Len(given') = Len(neighbors')
      BY <1>1, <1>2
    <3> QED BY <1>1, <3>1, <3>2, Zenon DEF SortTypes
  <2>2. Sinking'
    BY <1>2 DEF Sinking
  <2> QED BY <2>1, <2>2
<1>4. NearestFirst'
  BY <1>1, <1>2 DEF NearestFirst
<1>5. Stable'
  BY <1>1, <1>2, SameIsStable
<1> QED BY <1>3, <1>4, <1>5 DEF SortInv

LEMMA DistanceType ==
  ASSUME neighbors \in Seq(Entry)
  PROVE  \A k \in 1..Len(neighbors) : neighbors[k].distance \in Nat
<1>1. 0..Width - 1 \subseteq Nat
  BY SortAssumption
<1>2. \A e \in Entry : e.distance \in Nat
  BY <1>1 DEF Entry
<1> QED BY <1>2

LEMMA XorType ==
  ASSUME NEW hash \in Hash, NEW e \in Entry
  PROVE  XORdistance(hash, e) \in Entry
<1>1. e.distance \in Int /\ Xor[hash][e.port] \in Int
  BY SortAssumption DEF Entry
<1>2. (e.distance + Xor[hash][e.port]) % Width \in 0..Width - 1
  BY <1>1, SortAssumption
<1> QED BY <1>2 DEF XORdistance, Entry

\* Measuring starts a sort.
LEMMA MeasureSort ==
  ASSUME SortInv, NEW hash \in Hash, Measure(hash)
  PROVE  SortInv'
<1>1. /\ neighbors' \in Seq(Entry) /\ Len(neighbors') = Len(neighbors)
      /\ given' = neighbors' /\ i' = 0 /\ j' = 0 /\ sorting' = TRUE
  BY XorType DEF SortInv, SortTypes, Measure
<1>2. SortTypes'
  BY <1>1 DEF SortInv, SortTypes
<1>3. Sinking' /\ NearestFirst'
  BY <1>1 DEF Sinking, NearestFirst
<1>4. Stable'
  BY <1>1, SameIsStable DEF SortInv, SortTypes
<1> QED BY <1>2, <1>3, <1>4 DEF SortInv

\* A swap moves the sinking entry over a strictly larger one: no order among
\* the others changes, and entries at one distance never pass each other.
LEMMA SwapSort ==
  ASSUME SortInv, SwapDown
  PROVE  SortInv'
<1> USE DEF SortInv, SortTypes
<1>1. /\ neighbors \in Seq(Entry) /\ Len(given) = Len(neighbors)
      /\ i \in Nat /\ i < Len(neighbors) /\ j \in 1..i /\ sorting
      /\ neighbors[j].distance > neighbors[j + 1].distance
  BY DEF SwapDown, Disorder
<1>2. /\ neighbors' \in Seq(Entry) /\ Len(neighbors') = Len(neighbors)
      /\ neighbors'[j] = neighbors[j + 1] /\ neighbors'[j + 1] = neighbors[j]
      /\ \A k \in 1..Len(neighbors) : k \notin {j, j + 1} => neighbors'[k] = neighbors[k]
      /\ j' = j - 1 /\ i' = i /\ sorting' = sorting /\ given' = given
  BY <1>1 DEF SwapDown
<1>3. \A k \in 1..Len(neighbors) : neighbors[k].distance \in Nat
  BY DistanceType
<1>4. SortTypes'
  BY <1>1, <1>2
<1>5. Sinking'
  <2> SUFFICES ASSUME NEW k \in 1..Len(neighbors), NEW l \in 1..Len(neighbors),
                      k < l, l <= i + 1, l # j
               PROVE  neighbors'[k].distance <= neighbors'[l].distance
    BY <1>1, <1>2 DEF Sinking
  <2>1. CASE l = j + 1
    <3>1. CASE k = j
      BY <1>1, <1>2, <1>3, <2>1, <3>1
    <3>2. CASE k < j
      <4>1. neighbors[k].distance <= neighbors[j].distance
        BY <1>1, <3>2 DEF Sinking
      <4> QED BY <1>1, <1>2, <2>1, <3>2, <4>1
    <3> QED BY <1>1, <2>1, <3>1, <3>2
  <2>2. CASE l # j + 1
    <3>1. neighbors'[l] = neighbors[l]
      BY <1>1, <1>2, <2>2
    <3>2. PICK m \in 1..Len(neighbors) : m < l /\ neighbors'[k] = neighbors[m]
      <4>1. CASE k = j
        BY <1>1, <1>2, <2>2, <4>1
      <4>2. CASE k = j + 1
        BY <1>1, <1>2, <2>2, <4>2
      <4>3. CASE k \notin {j, j + 1}
        BY <1>2, <4>3
      <4> QED BY <4>1, <4>2, <4>3
    <3> QED BY <1>1, <2>2, <3>1, <3>2 DEF Sinking
  <2> QED BY <2>1, <2>2
<1>6. NearestFirst'
  BY <1>1, <1>2 DEF NearestFirst
<1>7. Stable'
  <2>1. PICK p \in [1..Len(given) -> 1..Len(given)] :
          /\ \A k \in 1..Len(given) : neighbors[k] = given[p[k]]
          /\ \A k, l \in 1..Len(given) :
               k < l => /\ p[k] # p[l]
                        /\ neighbors[k].distance = neighbors[l].distance => p[k] < p[l]
    BY DEF Stable
  <2> DEFINE q == [p EXCEPT ![j] = p[j + 1], ![j + 1] = p[j]]
  <2>2. /\ q \in [1..Len(given) -> 1..Len(given)]
        /\ q[j] = p[j + 1] /\ q[j + 1] = p[j]
        /\ \A k \in 1..Len(given) : k \notin {j, j + 1} => q[k] = p[k]
    <3>1. p \in [1..Len(given) -> 1..Len(given)]
      BY <2>1
    <3>2. j \in 1..Len(given) /\ j + 1 \in 1..Len(given) /\ j # j + 1
      BY <1>1
    <3> HIDE DEF SortInv, SortTypes
    <3> QED BY <3>1, <3>2
  <2> HIDE DEF q
  <2>3. \A k \in 1..Len(given) : neighbors'[k] = given'[q[k]]
    BY <1>1, <1>2, <2>1, <2>2
  <2>4. ASSUME NEW k \in 1..Len(given), NEW l \in 1..Len(given), k < l
        PROVE  /\ q[k] # q[l]
               /\ neighbors'[k].distance = neighbors'[l].distance => q[k] < q[l]
    <3>1. CASE k = j /\ l = j + 1
      <4>1. j \in 1..Len(given) /\ j + 1 \in 1..Len(given) /\ j < j + 1
        BY <1>1
      <4>2. p[j] # p[j + 1]
        BY <2>1, <4>1
      <4>3. neighbors'[j].distance # neighbors'[j + 1].distance
        BY <1>1, <1>2, <1>3, <4>1
      <4> QED BY <2>2, <3>1, <4>2, <4>3
    <3>2. CASE k = j /\ l > j + 1
      BY <1>1, <1>2, <2>1, <2>2, <2>4, <3>2
    <3>3. CASE k = j + 1
      BY <1>1, <1>2, <2>1, <2>2, <2>4, <3>3
    <3>4. CASE l = j
      BY <1>1, <1>2, <2>1, <2>2, <2>4, <3>4
    <3>5. CASE l = j + 1 /\ k < j
      BY <1>1, <1>2, <2>1, <2>2, <2>4, <3>5
    <3>6. CASE k \notin {j, j + 1} /\ l \notin {j, j + 1}
      BY <1>1, <1>2, <2>1, <2>2, <2>4, <3>6
    <3> QED BY <1>1, <2>4, <3>1, <3>2, <3>3, <3>4, <3>5, <3>6
  <2>5. given' = given /\ Len(neighbors') = Len(given')
    BY <1>1, <1>2
  <2> QED BY <2>2, <2>3, <2>4, <2>5 DEF Stable
<1> QED BY <1>4, <1>5, <1>6, <1>7

\* The inner loop has ended: the next entry starts to sink.
LEMMA AdvanceSort ==
  ASSUME SortInv, Advance
  PROVE  SortInv'
<1> USE DEF SortInv, SortTypes
<1>1. /\ i \in Nat /\ i < Len(neighbors) /\ j \in 0..i /\ sorting
      /\ i' = i + 1 /\ j' = i + 1
      /\ neighbors' = neighbors /\ sorting' = sorting /\ given' = given
  BY DEF Advance
<1>2. \A k \in 1..Len(neighbors) : neighbors[k].distance \in Nat
  BY DistanceType
<1>3. SortTypes'
  BY <1>1
<1>4. Sinking'
  <2> SUFFICES ASSUME NEW k \in 1..Len(neighbors), NEW l \in 1..Len(neighbors),
                      k < l, l <= i + 1
               PROVE  neighbors[k].distance <= neighbors[l].distance
    BY <1>1 DEF Sinking
  <2>1. CASE l # j + 1
    BY <1>1, <2>1 DEF Sinking
  <2>2. CASE l = j + 1
    <3>1. neighbors[j].distance <= neighbors[j + 1].distance
      BY <1>1, <1>2, <2>2 DEF Advance, Disorder
    <3>2. CASE k = j
      BY <2>2, <3>1, <3>2
    <3>3. CASE k < j
      <4>1. neighbors[k].distance <= neighbors[j].distance
        BY <1>1, <3>3 DEF Sinking
      <4> QED BY <1>1, <1>2, <2>2, <3>1, <3>3, <4>1
    <3> QED BY <1>1, <2>2, <3>2, <3>3
  <2> QED BY <2>1, <2>2
<1>5. NearestFirst'
  BY <1>1 DEF NearestFirst
<1>6. Stable'
  BY <1>1, UnchangedStable
<1> QED BY <1>3, <1>4, <1>5, <1>6

\* The outer loop has ended, and the whole array is in order.
LEMMA SortedSort ==
  ASSUME SortInv, Sorted
  PROVE  SortInv'
<1>1. SortTypes' /\ Sinking'
  BY DEF SortInv, SortTypes, Sinking, Sorted
<1>2. NearestFirst'
  <2>1. neighbors' = neighbors /\ sorting /\ i = Len(neighbors) /\ j = i /\ i \in Nat
    BY DEF SortInv, SortTypes, Sorted
  <2> QED BY <2>1 DEF SortInv, Sinking, NearestFirst
<1>3. Stable'
  BY DEF SortInv, Stable, Sorted
<1> QED BY <1>1, <1>2, <1>3 DEF SortInv

LEMMA StutterSort ==
  ASSUME SortInv, UNCHANGED sortVars
  PROVE  SortInv'
<1>1. SortTypes' /\ Sinking' /\ NearestFirst'
  BY DEF SortInv, SortTypes, Sinking, NearestFirst, sortVars
<1>2. Stable'
  BY DEF SortInv, Stable, sortVars
<1> QED BY <1>1, <1>2 DEF SortInv
-----------------------------------------------------------------------------
Before == {"open", "read", "check", "nodes", "bootstrap", "arguments", "compare"}

\* The process sorts at most once, after everything else, and what a rejected
\* file could leave behind is set only when all of it has been accepted.
StartInv ==
  /\ file \in [descriptor : Descriptors, size : Sizes]
  /\ json = <<>> \/ \E d \in Descriptors : json = <<d>>
  /\ node_len \in Nat /\ known \in Nat
  /\ status \in Before => ~sorting /\ i = 0 /\ j = 0
  /\ status \in {"open", "read", "check", "nodes", "arguments"}
       => node_len = 0 /\ file_hash = "empty"
  /\ status \in {"open", "read", "check"} => known = 0
  /\ status = "nodes" => /\ json # <<>> /\ Complete(json[1])
                         /\ \A n \in 1..known : Usable(json[1].list[n])
  /\ RejectedLeavesNothing

Quiet == OpenFails \/ Open \/ Read \/ Parse \/ Reject \/ AllocateNodes
           \/ TakeNode \/ RejectNode \/ Finish

LEMMA StartInit == Init => SortInv /\ StartInv
<1> SUFFICES ASSUME Init PROVE SortInv /\ StartInv
  OBVIOUS
<1>1. SortInv
  BY InitSort DEF Init
<1>2. StartInv
  <2>1. file \in [descriptor : Descriptors, size : Sizes]
    BY DEF Init, Files
  <2> QED BY <2>1 DEF Init, StartInv, Idle, RejectedLeavesNothing
<1> QED BY <1>1, <1>2

LEMMA SortStep ==
  ASSUME SortInv, StartInv, [Next]_vars
  PROVE  SortInv'
<1>1. CASE Quiet \/ UNCHANGED vars
  <2>1. UNCHANGED sortVars
    BY <1>1 DEF Quiet, OpenFails, Open, Read, Parse, Reject, AllocateNodes, TakeNode,
                RejectNode, Finish, To, Keep, vars
  <2> QED BY <2>1, StutterSort
<1>2. CASE ClientBootstrap
  <2>1. CASE UNCHANGED sortVars
    BY <2>1, StutterSort
  <2>2. ASSUME NEW ports \in [1..node_len -> Port], Bootstrapped(ports)
        PROVE  SortInv'
    <3>1. node_len \in Nat /\ ~sorting /\ i = 0 /\ j = 0
      BY <1>2 DEF ClientBootstrap, StartInv, Before
    <3> QED BY <2>2, <3>1, BootstrapSort
  <2> QED BY <1>2, <2>1, <2>2 DEF ClientBootstrap, To, Keep
<1>3. CASE NodeBootstrap
  <2>1. CASE UNCHANGED sortVars
    BY <2>1, StutterSort
  <2>2. ASSUME NEW n \in 0..MaxPorts, NEW ports \in [1..n -> Port], Bootstrapped(ports)
        PROVE  SortInv'
    <3>1. n \in Nat /\ ~sorting /\ i = 0 /\ j = 0
      BY <1>3, FileAssumption DEF NodeBootstrap, StartInv, Before
    <3> QED BY <2>2, <3>1, BootstrapSort
  <2> QED BY <1>3, <2>1, <2>2 DEF NodeBootstrap, To, Keep
<1>4. CASE Compare
  BY <1>4, MeasureSort DEF Compare
<1>5. CASE Sort
  BY <1>5, SwapSort, AdvanceSort, SortedSort DEF Sort
<1> QED BY <1>1, <1>2, <1>3, <1>4, <1>5 DEF Next, Quiet

LEMMA StartStep ==
  ASSUME SortInv, StartInv, [Next]_vars
  PROVE  StartInv'
<1> USE DEF StartInv, RejectedLeavesNothing, Before
<1>1. CASE OpenFails \/ Open \/ Read
  BY <1>1 DEF OpenFails, Open, Read, To, Keep, fileVars, sortVars
<1>2. CASE Parse
  BY <1>2 DEF Parse, To, Keep, sortVars
<1>3. CASE Reject
  <2>1. json # <<>> => ~Accepted(json[1])
    BY <1>3 DEF Reject, Accepted
  <2> QED BY <1>3, <2>1 DEF Reject, To, Keep, fileVars, sortVars
<1>4. CASE AllocateNodes
  BY <1>4 DEF AllocateNodes, To, Keep, sortVars
<1>5. CASE TakeNode
  <2>1. known \in Nat /\ known' = known + 1 /\ json' = json
    BY <1>5 DEF TakeNode
  <2>2. \A n \in 1..known' : Usable(json'[1].list[n])
    <3> TAKE n \in 1..known'
    <3>1. CASE n = known + 1
      BY <1>5, <2>1, <3>1 DEF TakeNode
    <3>2. CASE n # known + 1
      BY <1>5, <2>1, <3>2 DEF TakeNode
    <3> QED BY <3>1, <3>2
  <2>3. known' \in Nat
    BY <2>1
  <2> QED BY <1>5, <2>2, <2>3 DEF TakeNode, To, Keep, sortVars
<1>6. CASE RejectNode
  <2>1. PICK d \in Descriptors : json = <<d>>
    BY <1>6 DEF RejectNode
  <2>2. known + 1 \in DOMAIN json[1].list /\ ~Usable(json[1].list[known + 1])
    BY <1>6, <2>1, FileAssumption DEF RejectNode, Descriptor
  <2>3. ~Accepted(json[1])
    BY <2>2 DEF Accepted
  <2> QED BY <1>6, <2>3 DEF RejectNode, To, Keep, fileVars, sortVars
<1>7. CASE Finish
  <2>1. PICK d \in Descriptors : json = <<d>>
    BY <1>7 DEF Finish
  <2>2. Len(json[1].list) \in Nat /\ DOMAIN json[1].list = 1..Len(json[1].list)
    BY <2>1, FileAssumption DEF Descriptor
  <2>3. Accepted(json[1])
    BY <1>7, <2>2 DEF Finish, Accepted
  <2>4. node_len' \in Nat
    BY <1>7, <2>2, FileAssumption DEF Finish, CopyHash
  <2>5. status' \in {"bootstrap", "segv"} /\ UNCHANGED <<file, json, known, sortVars>>
    BY <1>7 DEF Finish, To, Keep
  <2>6. ~sorting /\ i = 0 /\ j = 0
    BY <1>7 DEF Finish
  <2>7. json' # <<>> /\ Accepted(json'[1])
    BY <2>1, <2>3, <2>5
  <2> QED BY <2>4, <2>5, <2>6, <2>7 DEF sortVars
<1>8. CASE ClientBootstrap
  BY <1>8 DEF ClientBootstrap, Bootstrapped, To, Keep, fileVars, sortVars
<1>9. CASE NodeBootstrap
  BY <1>9 DEF NodeBootstrap, Bootstrapped, To, Keep, fileVars, sortVars
<1>10. CASE Compare \/ Sort
  BY <1>10 DEF Compare, Sort, fileVars
<1>11. CASE UNCHANGED vars
  BY <1>11 DEF vars, fileVars, sortVars
<1> QED BY <1>1, <1>2, <1>3, <1>4, <1>5, <1>6, <1>7, <1>8, <1>9, <1>10, <1>11 DEF Next

LEMMA StartCorrect == Spec => [](SortInv /\ StartInv)
<1>1. SortInv /\ StartInv /\ [Next]_vars => SortInv' /\ StartInv'
  BY SortStep, StartStep
<1> QED BY StartInit, <1>1, PTL DEF Spec

\* The neighbors a node has sorted are in ascending order of their distances,
\* for every number of them and every width of a distance.
THEOREM NearestFirstCorrect == Spec => []NearestFirst
<1>1. SortInv /\ StartInv => NearestFirst
  BY DEF SortInv
<1> QED BY <1>1, StartCorrect, PTL

\* The sort never loses or doubles an entry, and it is stable.
THEOREM StableCorrect == Spec => []Stable
<1>1. SortInv /\ StartInv => Stable
  BY DEF SortInv
<1> QED BY <1>1, StartCorrect, PTL

\* parse_descriptor_file sets what the client goes on with only when it has
\* accepted the whole descriptor.
THEOREM RejectedLeavesNothingCorrect == Spec => []RejectedLeavesNothing
<1>1. SortInv /\ StartInv => RejectedLeavesNothing
  BY DEF StartInv
<1> QED BY <1>1, StartCorrect, PTL

-----------------------------------------------------------------------------
(***************************************************************************)
(* A file that is read at one go is the one that is parsed, and what is    *)
(* parsed is what the process bootstraps with.                             *)
(***************************************************************************)
\* The buffer holds what has been read of a file that fits.
Reading ==
  /\ DOMAIN buffer = 1..FILE_BUFFER_SIZE /\ position \in 0..file.size
  /\ status \in {"open", "arguments", "compare", "sort"} => position = 0
  /\ file.size <= FILE_BUFFER_SIZE /\ position > 0 => position = file.size /\ Whole

Parsed ==
  ReadAtOnce /\ status \in {"check", "nodes", "bootstrap", "running"}
    => json = <<file.descriptor>>

\* nodes[0] is the element seen last.
Taking ==
  status = "nodes" =>
    /\ known <= Len(json[1].list)
    /\ DOMAIN nodes = DOMAIN json[1].list
    /\ known > 0 => nodes[1] = OriginOf(json[1].list[known])

Handed ==
  LET d == file.descriptor IN
  status = "bootstrap" /\ ReadAtOnce /\ Accepted(d) /\ Fits(d) =>
    /\ node_len = Len(d.list) /\ file_hash = "own"
    /\ node_len > 0 => nodes # <<>> /\ nodes[1] = OriginOf(d.list[Len(d.list)])

FileInv == Reading /\ Parsed /\ Taking /\ Handed /\ StartsWithItsFile

LEMMA FileInit == Init => FileInv
<1> SUFFICES ASSUME Init PROVE FileInv
  OBVIOUS
<1>1. file.size \in Nat
  BY FileAssumption DEF Init, Files
<1> QED
  BY <1>1 DEF Init, FileInv, Reading, Parsed, Taking, Handed, ReadAtOnce,
              StartsWithItsFile

\* A read takes all of a file that fits.
LEMMA ReadReads ==
  ASSUME StartInv, Reading, Read
  PROVE  Reading'
<1>1. /\ file.size \in Nat /\ FILE_BUFFER_SIZE \in Nat \ {0}
      /\ position \in Nat /\ position < file.size
      /\ file' = file /\ status' = "read"
  <2>1. file.size \in Nat /\ FILE_BUFFER_SIZE \in Nat \ {0}
    BY FileAssumption DEF StartInv
  <2>2. position < file.size /\ file' = file /\ status' = "read"
    BY DEF Read, To
  <2> QED
    BY <2>1, <2>2 DEF Reading
<1> DEFINE n == IF file.size - position < FILE_BUFFER_SIZE
                  THEN file.size - position ELSE FILE_BUFFER_SIZE
<1>2. /\ buffer' = [c \in DOMAIN buffer |-> IF c <= n THEN position + c ELSE buffer[c]]
      /\ position' = position + n
  BY DEF Read
<1>3. n \in Nat \ {0} /\ n <= file.size - position
  BY <1>1
<1>4. position' \in 0..file.size /\ DOMAIN buffer' = 1..FILE_BUFFER_SIZE
  <2> HIDE DEF n
  <2>1. QED
    BY <1>1, <1>2, <1>3 DEF Reading
<1>5. ASSUME file.size <= FILE_BUFFER_SIZE PROVE position' = file.size /\ Whole'
  <2>1. position = 0
    BY <1>1, <1>5 DEF Reading
  <2>2. n = file.size
    BY <1>1, <1>5, <2>1
  <2> HIDE DEF n
  <2>3. position' = file.size
    BY <1>1, <1>2, <2>1, <2>2
  <2>4. ASSUME NEW c \in 1..file.size PROVE c \in DOMAIN buffer' /\ buffer'[c] = c
    <3>1. c \in 1..FILE_BUFFER_SIZE /\ c \in DOMAIN buffer /\ c <= n
      BY <1>1, <1>5, <2>2 DEF Reading
    <3>2. buffer'[c] = position + c
      BY <1>2, <3>1
    <3> QED
      BY <1>4, <2>1, <3>1, <3>2
  <2> QED
    BY <1>1, <2>3, <2>4 DEF Whole
<1> QED
  BY <1>1, <1>4, <1>5 DEF Reading

LEMMA FileStep ==
  ASSUME StartInv, FileInv, [Next]_vars
  PROVE  FileInv'
<1>0. /\ file.size \in Nat
      /\ json # <<>> => /\ json = <<json[1]>> /\ json[1].list \in Seq(Element)
      /\ known \in Nat
  <2>1. file.size \in Nat /\ known \in Nat
    BY FileAssumption DEF StartInv
  <2>2. ASSUME json # <<>>
        PROVE  json = <<json[1]>> /\ json[1].list \in Seq(Element)
    <3>1. PICK d \in Descriptors : json = <<d>>
      BY <2>2 DEF StartInv
    <3>2. d.list \in Seq(Element)
      BY FileAssumption DEF Descriptor
    <3> QED
      BY <3>1, <3>2
  <2> QED
    BY <2>1, <2>2
<1>1. CASE OpenFails \/ Open \/ UNCHANGED vars
  BY <1>1 DEF OpenFails, Open, To, Keep, fileVars, sortVars, vars, FileInv, Reading,
              Parsed, Taking, Handed, ReadAtOnce, StartsWithItsFile, Whole
<1>2. CASE Read
  <2>1. Reading' /\ status' = "read"
    BY <1>2, ReadReads DEF FileInv, Read, To
  <2> QED
    BY <2>1 DEF FileInv, Parsed, Taking, Handed, StartsWithItsFile
<1>3. CASE Parse
  <2>1. /\ status = "read" /\ status' = "check" /\ UNCHANGED <<file, buffer, position>>
        /\ Whole /\ file.size > 0 => json' = <<file.descriptor>>
    BY <1>3 DEF Parse, To
  <2>2. Reading' /\ Parsed'
    BY <2>1 DEF FileInv, Reading, Parsed, ReadAtOnce, Whole
  <2> QED
    BY <2>1, <2>2 DEF FileInv, Taking, Handed, StartsWithItsFile
<1>4. CASE Reject
  <2>1. /\ status = "check" /\ status' = "bootstrap" /\ UNCHANGED fileVars
        /\ json # <<>> => ~Complete(json[1])
    BY <1>4 DEF Reject, To
  <2>2. Reading' /\ Parsed'
    BY <2>1 DEF FileInv, Reading, Parsed, ReadAtOnce, Whole, fileVars
  <2>3. ReadAtOnce => ~Accepted(file.descriptor)
    BY <2>1 DEF FileInv, Parsed, Accepted
  <2>4. Handed'
    BY <2>1, <2>3 DEF Handed, ReadAtOnce, fileVars
  <2> QED
    BY <2>1, <2>2, <2>4 DEF FileInv, Taking, StartsWithItsFile
<1>5. CASE AllocateNodes
  <2>1. /\ status = "check" /\ status' = "nodes" /\ json # <<>>
        /\ nodes' = [n \in DOMAIN json[1].list |-> Unset]
        /\ UNCHANGED <<file, buffer, position, json, known>>
    BY <1>5 DEF AllocateNodes, To
  <2>2. known = 0
    BY <2>1 DEF StartInv
  <2>3. Reading' /\ Parsed'
    BY <2>1 DEF FileInv, Reading, Parsed, ReadAtOnce, Whole
  <2>4. Len(json[1].list) \in Nat
    BY <1>0, <2>1
  <2>5. Taking'
    BY <2>1, <2>2, <2>4 DEF Taking
  <2> QED
    BY <2>1, <2>3, <2>5 DEF FileInv, Handed, StartsWithItsFile
<1>6. CASE TakeNode
  <2>1. /\ status = "nodes" /\ status' \in {"nodes", "segv"} /\ known < Len(json[1].list)
        /\ nodes' = [nodes EXCEPT ![1] = OriginOf(json[1].list[known + 1])]
        /\ known' = known + 1
        /\ UNCHANGED <<file, buffer, position, json>>
    BY <1>6 DEF TakeNode, To
  <2>2. Reading' /\ Parsed'
    BY <2>1 DEF FileInv, Reading, Parsed, ReadAtOnce, Whole
  <2>3. json # <<>>
    BY <2>1 DEF StartInv
  <2>4. Len(json[1].list) \in Nat /\ DOMAIN json[1].list = 1..Len(json[1].list)
    BY <1>0, <2>3
  <2>5. 1 \in DOMAIN nodes /\ known + 1 <= Len(json[1].list)
    BY <1>0, <2>1, <2>4 DEF FileInv, Taking
  <2>6. Taking'
    BY <2>1, <2>5 DEF FileInv, Taking
  <2> QED
    BY <2>1, <2>2, <2>6 DEF FileInv, Handed, StartsWithItsFile
<1>7. CASE RejectNode
  <2>1. /\ status = "nodes" /\ status' = "bootstrap" /\ UNCHANGED fileVars
        /\ known < Len(json[1].list) /\ ~Usable(json[1].list[known + 1])
    BY <1>7 DEF RejectNode, To
  <2>2. Reading' /\ Parsed'
    BY <2>1 DEF FileInv, Reading, Parsed, ReadAtOnce, Whole, fileVars
  <2>3. json # <<>>
    BY <2>1 DEF StartInv
  <2>4. known + 1 \in DOMAIN json[1].list
    BY <1>0, <2>1, <2>3
  <2>5. ~Accepted(json[1])
    BY <2>1, <2>4 DEF Accepted
  <2>6. ReadAtOnce => ~Accepted(file.descriptor)
    BY <2>1, <2>5 DEF FileInv, Parsed
  <2>7. Handed'
    BY <2>1, <2>6 DEF Handed, ReadAtOnce, fileVars
  <2> QED
    BY <2>1, <2>2, <2>7 DEF FileInv, Taking, StartsWithItsFile
<1>8. CASE Finish
  <2>1. /\ status = "nodes" /\ known = Len(json[1].list)
        /\ \/ status' = "bootstrap" /\ CopyHash(json[1].hash_len)
           \/ status' = "segv"
        /\ UNCHANGED <<file, buffer, position, json>>
    BY <1>8 DEF Finish, To
  <2>2. Reading' /\ Parsed'
    BY <2>1 DEF FileInv, Reading, Parsed, ReadAtOnce, Whole
  <2>3. ReadAtOnce => json = <<file.descriptor>> /\ json[1] = file.descriptor
    BY <2>1 DEF FileInv, Parsed
  <2>4. ASSUME ReadAtOnce, Fits(file.descriptor), status' = "bootstrap"
        PROVE  /\ node_len' = Len(file.descriptor.list) /\ file_hash' = "own"
               /\ node_len' > 0 => /\ nodes' # <<>>
                                  /\ nodes'[1] = OriginOf(file.descriptor.list[node_len'])
    <3>1. json # <<>> /\ json[1] = file.descriptor
      BY <2>3, <2>4
    <3>2. Len(json[1].list) \in Nat /\ DOMAIN json[1].list = 1..Len(json[1].list)
      BY <1>0, <3>1
    <3>3. json[1].hash_len < ID_SIZE /\ json[1].hash_len \in Nat /\ ID_SIZE \in Nat
      <4>1. file.descriptor \in Descriptor
        BY FileAssumption DEF StartInv
      <4> QED
        BY <2>4, <3>1, <4>1, FileAssumption DEF Fits, Descriptor
    <3>4. /\ file_hash' = "own" /\ nodes' = nodes
          /\ node_len' = Len(json[1].list)
      BY <2>1, <2>4, <3>3 DEF CopyHash, NodesAt, NodeLenAt
    <3>5. ASSUME node_len' > 0
          PROVE  nodes # <<>> /\ nodes[1] = OriginOf(json[1].list[known])
      <4>1. known > 0 /\ 1 \in DOMAIN json[1].list
        BY <2>1, <3>2, <3>4, <3>5
      <4>2. 1 \in DOMAIN nodes
        BY <2>1, <4>1 DEF FileInv, Taking
      <4>3. nodes # <<>>
        BY <4>2
      <4> QED
        BY <2>1, <4>1, <4>3 DEF FileInv, Taking
    <3> QED
      BY <2>1, <3>1, <3>4, <3>5
  <2>5. Handed'
    BY <2>1, <2>4 DEF Handed, ReadAtOnce
  <2> QED
    BY <2>1, <2>2, <2>5 DEF FileInv, Taking, StartsWithItsFile
<1>9. CASE ClientBootstrap
  <2>1. /\ status = "bootstrap" /\ status' \in {"running", "segv"}
        /\ UNCHANGED <<file, buffer, position, json, known, node_len, file_hash>>
    BY <1>9 DEF ClientBootstrap, To
  <2>2. Reading' /\ Parsed'
    BY <2>1 DEF FileInv, Reading, Parsed, ReadAtOnce, Whole
  <2> DEFINE d == file.descriptor
             Kept == /\ file_hash = "own"
                     /\ Len(neighbors') = Len(d.list)
                     /\ d.list # <<>>
                          => neighbors'[1].port = d.list[Len(d.list)].valueint % PORTS
  <2>3. ASSUME status' = "running", ReadAtOnce, Accepted(d), Fits(d)
        PROVE  Kept
    <3>1. PICK ports \in [1..node_len -> Port] :
             /\ node_len > 0 /\ HasFirst => ports[1] = nodes[1].port
             /\ Bootstrapped(ports)
      BY <1>9, <2>3 DEF ClientBootstrap, To
    <3>2. /\ node_len = Len(d.list) /\ file_hash = "own"
          /\ node_len > 0 => nodes # <<>> /\ nodes[1] = OriginOf(d.list[Len(d.list)])
      BY <2>1, <2>3 DEF FileInv, Handed
    <3>3. json = <<d>>
      BY <2>1, <2>3 DEF FileInv, Parsed
    <3>4. Len(d.list) \in Nat /\ (d.list # <<>> => Len(d.list) > 0)
      BY <1>0, <3>3
    <3>5. neighbors' = [k \in 1..node_len |-> NewEntry(ports[k])]
      BY <3>1 DEF Bootstrapped
    <3>6. Len(neighbors') = node_len
      BY <3>2, <3>4, <3>5
    <3>7. ASSUME d.list # <<>>
          PROVE  neighbors'[1].port = d.list[Len(d.list)].valueint % PORTS
      <4>1. node_len > 0 /\ nodes # <<>> /\ nodes[1] = OriginOf(d.list[Len(d.list)])
        BY <3>2, <3>4, <3>7
      <4>2. nodes[1].ip = "given" /\ nodes[1].port = d.list[Len(d.list)].valueint % PORTS
        BY <4>1 DEF OriginOf
      <4>3. HasFirst
        BY <4>1, <4>2 DEF HasFirst, Unset
      <4>4. 1 \in 1..node_len
        BY <3>2, <3>4, <4>1
      <4>5. neighbors'[1].port = ports[1]
        BY <3>5, <4>4 DEF NewEntry
      <4> QED
        BY <3>1, <4>1, <4>2, <4>3, <4>5
    <3> QED
      BY <3>2, <3>6, <3>7
  <2> HIDE DEF Kept
  <2>4. StartsWithItsFile'
    <3>1. ReadAtOnce' = ReadAtOnce /\ file' = file /\ file_hash' = file_hash
      BY <2>1 DEF ReadAtOnce
    <3> QED
      BY <2>3, <3>1 DEF StartsWithItsFile, Kept
  <2> QED
    BY <2>1, <2>2, <2>4 DEF FileInv, Taking, Handed
<1>10. CASE NodeBootstrap \/ Compare \/ Sort
  <2>1. /\ status \in {"arguments", "compare", "sort"} /\ UNCHANGED fileVars
        /\ status' \in {"segv", "compare", "sort", "running"}
    BY <1>10 DEF NodeBootstrap, Compare, Sort, To
  <2>2. position = 0
    BY <2>1 DEF FileInv, Reading
  <2>3. position' = 0 /\ ~ReadAtOnce'
    BY <2>1, <2>2 DEF ReadAtOnce, fileVars
  <2>4. Reading'
    BY <2>1, <2>2, <2>3 DEF FileInv, Reading, fileVars
  <2> QED
    BY <2>1, <2>3, <2>4 DEF FileInv, Parsed, Taking, Handed, StartsWithItsFile, ReadAtOnce
<1> QED
  BY <1>1, <1>2, <1>3, <1>4, <1>5, <1>6, <1>7, <1>8, <1>9, <1>10 DEF Next

\* A client that runs with a file that fits the buffer and strings that fit
\* their places has the hash of the file, as many neighbors as it has nodes,
\* and as the first one the last node, for every descriptor, every list and
\* all sizes: client_test.c:146 to 268 and nodes.c:92 to 103.
THEOREM StartsWithItsFileCorrect == Spec => []StartsWithItsFile
<1>1. StartInv /\ FileInv /\ [Next]_vars => FileInv'
  BY FileStep
<1>2. FileInv => StartsWithItsFile
  BY DEF FileInv
<1> QED
  BY FileInit, StartCorrect, <1>1, <1>2, PTL DEF Spec
=============================================================================
