SPECIFICATION Spec
CONSTANTS
  Window = 7
  Block = 4
  MaxBatch = 4
  MaxRows = 4
  MaxCtx = 20
  MaxRequests = 2
INVARIANTS
  RoundsFit
  WindowCovered
  RowsTrue
CHECK_DEADLOCK FALSE
