\* Shutdowns end, and only one database may be open.  (No symmetry: a liveness check.)
SPECIFICATION FairSpec
CONSTANTS
  Paths = {p1, p2}
  Ids = {i1, i2}
  Sessions = {s1}
  Requests = {r1}
  MaxWorkers = 1
  MaxObjects = 2
  Cancels = FALSE
  Manual = {}
  NoPath = NoPath
  NoId = NoId
  NoSession = NoSession
CHECK_DEADLOCK FALSE
INVARIANTS
  CapRespected
PROPERTIES
  ShutdownsEnd
  StoppingEnds
