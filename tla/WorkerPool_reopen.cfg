\* One database, opened and reopened by two sessions; no request is cancelled.
SPECIFICATION Spec
CONSTANTS
  Paths = {p1}
  Ids = {i1, i2}
  Sessions = {s1, s2}
  Requests = {r1, r2}
  MaxWorkers = 1
  MaxObjects = 2
  Cancels = FALSE
  Manual = {s2}
  NoPath = NoPath
  NoId = NoId
  NoSession = NoSession
CHECK_DEADLOCK FALSE
SYMMETRY Symmetry
INVARIANTS
  TypeOK
  OneShutdown
  NoAttachedSessionLosesItsWorker
  AttachedSessionsWillDetach
  OrphansReplaceAnother
  EntriesMatchProcesses
PROPERTIES
  ImplementsLease
