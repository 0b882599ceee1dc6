CONSTANTS
  r1 = r1
  r2 = r2
  r3 = r3
  NoRequest = NoRequest
  Request = {r1, r2}
  Asked <- PairAsked
  MaxImages <- PairImages
  Fickle = {r1}
  Workers = 2
  Kernels = 2
  MaxDeltas = 0

SPECIFICATION Spec

INVARIANT OwnImages

CHECK_DEADLOCK FALSE
