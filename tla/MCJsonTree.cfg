CONSTANTS
  Item = {a,b,c,d}
  Key = {"k"}
  Fold <- OneName
  NULL = NULL
SPECIFICATION Spec
INVARIANTS TypeOK ChainsWellLinked NothingForgotten NamesAccounted
SYMMETRY Symmetric
CHECK_DEADLOCK FALSE
PROPERTY ImplementsForest
