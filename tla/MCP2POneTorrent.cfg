CONSTANTS
  p6969 = p6969
  p4209 = p4209
  n3000 = n3000
  n3001 = n3001
  n3002 = n3002
  c1 = c1
  c2 = c2
  c3 = c3
  f13 = f13
  f99 = f99
  Node = {p6969, p4209, n3000, n3001, n3002, c1}
  Client = {c1}
  Neighbors <- HarnessNeighbors
  FileHash <- ClientsOwnFile
  SeedPeers <- TwoPeers
  INITIAL_CAP = 2
  PAYLOAD_PEERS = 25
  PassesNodeArray = FALSE
  Budget <- NoFaults
  MAX_PEER_BUCKETS = 10
  KEY_MOD = 16
  Key <- Keys
  Hash <- Hashes
  HeapActive = {FALSE}
  HeapKey = {0}
  NULL = NULL
SPECIFICATION Spec
INVARIANTS OneTorrent
CHECK_DEADLOCK FALSE
