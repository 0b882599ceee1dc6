CONSTANTS
  r1 = r1
  r2 = r2
  r3 = r3
  NoRequest = NoRequest
  Request = {r1}
  Asked <- StreamAsked
  MaxImages <- StreamImages
  Fickle = {r1}
  Workers = 1
  Kernels = 1
  MaxDeltas = 3

SPECIFICATION Spec

INVARIANT WellFormed
INVARIANT CompleteUnlessCut

CHECK_DEADLOCK FALSE
