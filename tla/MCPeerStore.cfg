CONSTANTS
  MAX_PEER_BUCKETS = 3
  KEY_MOD = 5
  k1 = k1
  k2 = k2
  k3 = k3
  Key <- Keys
  Hash <- CollidingHash
  HeapActive = {TRUE, FALSE}
  HeapKey <- AllKeys
  NULL = NULL
  Peer = {p1, p2}
  MaxLen = 2
SPECIFICATION Spec
INVARIANTS TypeOK SetPeersIsTheLoop AddedIsFound
PROPERTIES OwnershipIsPermanent
CHECK_DEADLOCK FALSE
