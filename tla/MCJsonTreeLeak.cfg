CONSTANTS
  Item = {a,b,c,d}
  Key = {"k"}
  Fold <- OneName
  NULL = NULL
SPECIFICATION Spec
CHECK_DEADLOCK FALSE
INVARIANT NothingLeaks
