CONSTANTS
  Token <- MCToken
  StopToken <- MCStopToken
  Argmax <- MCArgmax
  NoToken = NoToken
  Prompts <- MCPrompts
  NumSlots = 3
  MaxCtx = 5
  NumLayers = 2
  MaxNew = 3
  Chunk = 2
  BlockSize = 3
  HasDraft = FALSE
  MinRounds = 1
  MaxRequests = 3

SPECIFICATION Spec

INVARIANTS
  NoDuplicateSlots
  SlotSound
  Lossless
  KvTruthful
  TurnsResume

CHECK_DEADLOCK FALSE
