\* Two databases of one session: keep_open=False shuts several workers
\* down, and any request may be cancelled.
SPECIFICATION Spec
CONSTANTS
  Paths = {p1, p2}
  Ids = {i1, i2}
  Sessions = {s1}
  Requests = {r1, r2}
  MaxWorkers = 2
  MaxObjects = 2
  Cancels = TRUE
  Manual = {}
  NoPath = NoPath
  NoId = NoId
  NoSession = NoSession
CHECK_DEADLOCK FALSE
SYMMETRY Symmetry
INVARIANTS
  PoolInv
PROPERTIES
  DeadIsFinal
