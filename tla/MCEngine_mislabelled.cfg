CONSTANTS
  Token <- MCToken
  StopToken <- MCStopToken
  Argmax <- MCArgmax
  NoToken = NoToken
  Prompts <- MCPrompts
  NumSlots = 2
  MaxCtx = 8
  NumLayers = 2
  MaxNew = 3
  Chunk = 2
  BlockSize = 3
  HasDraft = TRUE
  MinRounds = 1
  MaxRequests = 3

SPECIFICATION Spec

INVARIANT SlotSound

CHECK_DEADLOCK FALSE
