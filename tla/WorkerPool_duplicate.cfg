\* A database reopened while its old worker still saves.
SPECIFICATION Spec
CONSTANTS
  Paths = {p1}
  Ids = {i1, i2}
  Sessions = {s1}
  Requests = {r1, r2}
  MaxWorkers = 1
  MaxObjects = 2
  Cancels = FALSE
  Manual = {}
  NoPath = NoPath
  NoId = NoId
  NoSession = NoSession
CHECK_DEADLOCK FALSE
SYMMETRY Symmetry
INVARIANTS
  NoDuplicateWorkers
