CONSTANTS
  Token <- MCToken
  StopToken <- MCStopToken
  Argmax <- MCArgmax
  NoToken = NoToken
  Prompts <- MCPrompts
  NumSlots = 0
  MaxCtx = 8
  NumLayers = 2
  MaxNew = 3
  Chunk = 2
  BlockSize = 3
  HasDraft = TRUE
  MinRounds = 1
  MaxRequests = 2

SPECIFICATION FairSpec

INVARIANT EmptyDequeCoherent

CHECK_DEADLOCK FALSE
PROPERTY RequestEnds
PROPERTY Generates
