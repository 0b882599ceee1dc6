CONSTANTS
  Token <- MCToken
  NoToken = NoToken
  StopToken <- MCStopToken
  Argmax <- MCArgmax
  Prompts <- MCPrompts
  ConvK = 3
  MaxNew = 5
  MaxK = 3
  MaxBatch = 2
  MaxCtx = 11

SPECIFICATION Spec

INVARIANT Restored
INVARIANT Lossless

CHECK_DEADLOCK FALSE
