CONSTANTS
  Halvings = 3
  Weights <- MCWeights
  TopKs = {0, 1, 2, 3, 4}
  MinPs = {0, 3}
  TopPs = {0, 4, 7, 10}
  Resolution = 24
  ThreadCounts = {1, 2, 4}
  Factor = 2
  MinPixels = 16
  MaxPixels = 64
  Aspect = 4
  MaxSide = 20
  MaxGrid = 3
  Vocabulary <- MCVocabulary
  Pad = "pad"
  Images <- MCImages
  MaxPrompt = 3
  Chunks = {1, 2, 3}
  Merges <- MCMerges
  Added <- MCAdded
  MaxText = 4
  TextAlphabet <- MCTextAlphabet
  Messages <- MCMessages
  Answers <- MCAnswers
  Options <- MCOptions
  Spread = 3
  DEC_WARPS = 2
  QT = 2
  KVT = 2
  NQ = 2
  Scores = {0, 1, 3}
  MaxSplits = 4
  MaxCtx = 5
  Prefills <- MCPrefills
  Products <- MCProducts
  Stripe = 16
  MMA_BN = 32
  MMA_BK = 32
  MaxM = 3
  GemvMaxT = 2
  MmaMaxT = 18
  GgufChunk = 3
  GgufQxRows = 4
  kGgufGemmMinRows = 6
  UU = 2
  Machines = {16, 82, 128}
  VocabSize = 248320
  GroupCounts = {40, 48, 136, 160, 192, 544}
  MaxBlocks = 1100
  Batches = {1, 2, 16}
  LayerTypes <- MCLayerTypes
  NV = 6
  NK = 2
  sms = 82
  MaxPosition = 262144
  PerToken = 32
  Limits = {0, 4096, 50000}
  Frees <- MCFrees
  Deltas <- MCDeltas
  PriorCalls <- MCCalls
  MaxCalls = 2
  Places <- MCPlaces
  MaxRows = 3
  NKV = 2
  D = 64
  Rot = 8
  Wide = 3
  KvSlots = 4
  Peaks = {1, 2, 3, 4, 5, 6, 7, 8, 9}
  MinExp <- MCMinExp
  MaxExp = 9
  Freq <- MCFreq
  Points <- MCPoints
  Vectors <- MCVectors

SPECIFICATION Spec

INVARIANTS
  DrawsInProportion
  GreedyIsFirst
  NucleusIsSmallest
  MatchesPattern
  EncodesAsTrained
  PositionsDistinct
  EmbeddingsInPlace
  ImagesFitTokens
  NextTurnExtends
  LanesReadAsBlocks
  EveryBitOnce
  ProductsComplete
  ScratchFits
  SoftmaxExact
  CacheReadBack
  CheckpointsAgree
  PassesAgree

CHECK_DEADLOCK FALSE
