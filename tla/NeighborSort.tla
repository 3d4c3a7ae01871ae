---------------------------- MODULE NeighborSort ----------------------------
(***************************************************************************)
(* compare_hash: the distance of every neighbor to an info_hash is added   *)
(* up, and an insertion sort puts the nearest neighbor first, for          *)
(* get_peers calls the first one.  Entries are compared and swapped one    *)
(* pair after the other, with the indices i and j of the two loops.        *)
(***************************************************************************)
EXTENDS Integers, Sequences

CONSTANTS
  Port,    \* of a neighbor
  Hash,
  Xor,     \* Hash -> Port -> the sum of the XORs of the characters of both ids
  Width    \* of the member distance: 2^32 in nodes.h

ASSUME SortAssumption ==
  /\ Width \in Nat \ {0}
  /\ Xor \in [Hash -> [Port -> Int]]

\* What an ip holds: nothing malloc or strcpy has put there, the one that was
\* given, or the empty string.
Ip == {"unset", "given", "empty"}

\* The ip of a new entry is never set, which leaves it empty.
Entry == [ip : Ip, port : Port, distance : 0..Width - 1]
NewEntry(port) == [ip |-> "empty", port |-> port, distance |-> 0]

VARIABLES
  neighbors, i, j,
  sorting,
  given      \* the entries with their distances, in the order before sorting
sortVars == <<neighbors, i, j, sorting, given>>

\* A distance is added to the one of earlier calls.
XORdistance(hash, e) ==
  [e EXCEPT !.distance = (@ + Xor[hash][e.port]) % Width]

Idle(entries) ==
  /\ neighbors = entries /\ given = entries
  /\ i = 0 /\ j = 0 /\ sorting = FALSE

\* compare_hash up to its loops.
Measure(hash) ==
  /\ ~sorting
  /\ neighbors' = [k \in DOMAIN neighbors |-> XORdistance(hash, neighbors[k])]
  /\ given' = neighbors'
  /\ i' = 0 /\ j' = 0 /\ sorting' = TRUE

\* The entries j - 1 and j, counted from 0 as in the source, are in disorder.
Disorder == j > 0 /\ neighbors[j].distance > neighbors[j + 1].distance

\* Slip: the entry is written over the other one without a temporary.
SwapDownDoubling ==
  /\ sorting /\ i < Len(neighbors) /\ Disorder
  /\ neighbors' = [neighbors EXCEPT ![j + 1] = neighbors[j]]
  /\ j' = j - 1
  /\ UNCHANGED <<i, sorting, given>>

SwapDown ==
  /\ sorting /\ i < Len(neighbors) /\ Disorder
  /\ neighbors' = [neighbors EXCEPT ![j] = neighbors[j + 1], ![j + 1] = neighbors[j]]
  /\ j' = j - 1
  /\ UNCHANGED <<i, sorting, given>>

Advance ==
  /\ sorting /\ i < Len(neighbors) /\ ~Disorder
  /\ i' = i + 1 /\ j' = i + 1
  /\ UNCHANGED <<neighbors, sorting, given>>

\* Slip: the outer loop ends one entry early.
SortedEarly ==
  /\ sorting /\ i + 1 >= Len(neighbors)
  /\ sorting' = FALSE
  /\ UNCHANGED <<neighbors, i, j, given>>

Sorted ==
  /\ sorting /\ i = Len(neighbors)
  /\ sorting' = FALSE
  /\ UNCHANGED <<neighbors, i, j, given>>

SortNext == (\E hash \in Hash : Measure(hash)) \/ SwapDown \/ Advance \/ Sorted
-----------------------------------------------------------------------------
\* When the sort has ended, the nearest neighbor is the first one, and so on.
NearestFirst ==
  ~sorting => \A k, l \in 1..Len(neighbors) :
                k < l => neighbors[k].distance <= neighbors[l].distance

\* At every step the entries are those that were given, none lost and none
\* doubled, and neighbors at the same distance have kept their order, which
\* get_peers and its choice of the first one rely on as long as all of them
\* have the same id.
Stable ==
  \E p \in [1..Len(given) -> 1..Len(given)] :
    /\ Len(neighbors) = Len(given)
    /\ \A k \in 1..Len(given) : neighbors[k] = given[p[k]]
    /\ \A k, l \in 1..Len(given) :
         k < l => /\ p[k] # p[l]
                  /\ neighbors[k].distance = neighbors[l].distance => p[k] < p[l]
=============================================================================
