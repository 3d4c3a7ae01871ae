CONSTANTS
  Port <- MCPort
  PORTS = 3
  Hash = {"same", "mixed"}
  Xor <- MCXor
  Width = 8
  FILE_BUFFER_SIZE = 2
  ID_SIZE = 36
  INET_ADDRSTRLEN = 16
  Sizes = {0, 1, 2, 3}
  Descriptors <- MCDescriptors
  MaxPorts = 4
  PassesNodeArray = FALSE
SPECIFICATION Spec
INVARIANTS NearestFirst Stable RejectedLeavesNothing StartsWithItsFile
PROPERTY StartEnds
CHECK_DEADLOCK FALSE
