CONSTANTS
  CJSON_NESTING_LIMIT = 2
  INT_MAX = 24
  Texts <- MCTexts
  Modes <- MCModes
  Rendered <- MCRendered
SPECIFICATION Spec
INVARIANTS TypeOK ReadsInside DepthIsNesting StringsFit ParseFreesAll
  BufferHolds TerminatedAtUpdate PrintFreesAll RoundTrip PrintedIsLayout
  ParsedIsText
  PreallocatedSuffices
PROPERTY Terminates
CHECK_DEADLOCK FALSE
