CONSTANTS
  Elem = {a, b}
  Zero = zero
  INITIAL_CAP = 2
  MaxLen = 5
SPECIFICATION Spec
INVARIANT FitsItsBlock
PROPERTY ImplementsList
CHECK_DEADLOCK FALSE
