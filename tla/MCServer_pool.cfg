CONSTANTS
  r1 = r1
  r2 = r2
  r3 = r3
  NoRequest = NoRequest
  Request = {r1, r2, r3}
  Asked <- PoolAsked
  MaxImages <- NoImages
  Fickle = {r1}
  Workers = 2
  Kernels = 1
  MaxDeltas = 0

SPECIFICATION FairSpec

INVARIANT OneHolder
INVARIANT GaugeCounts
PROPERTY Answered
PROPERTY Drains

CHECK_DEADLOCK FALSE
