CONSTANTS
  p6969 = p6969
  p4209 = p4209
  n3000 = n3000
  n3001 = n3001
  n3002 = n3002
  c1 = c1
  c2 = c2
  c3 = c3
  f13 = f13
  f99 = f99
  Node = {n3002, p6969, p4209, c1, c2}
  Client = {c1, c2}
  Neighbors <- DirectNeighbors
  FileHash <- SameFile
  SeedPeers <- TwoPeers
  INITIAL_CAP = 2
  PAYLOAD_PEERS = 1
  PassesNodeArray = FALSE
  Budget <- CrashAndTimeout
  MAX_PEER_BUCKETS = 1
  KEY_MOD = 4
  Key <- Keys
  Hash <- OneSlot
  HeapActive = {FALSE}
  HeapKey = {0, 2}
  NULL = NULL
SPECIFICATION Spec
INVARIANTS JoinIsMutual GaveUpIsForgotten
CHECK_DEADLOCK FALSE
