\* One database, two requests that wait, analyze and are withdrawn.  (No
\* symmetry: a liveness check.)
SPECIFICATION FairSpec
CONSTANTS
  Dbs = {d1}
  Callers = {c1, c2}
  MaxExplicit = 1
CHECK_DEADLOCK FALSE
INVARIANTS
  AnalysisInv
  WaitsForOpening
  OnlyCloseCancelsAnalysis
PROPERTIES
  AnalysedOnce
  CloseTerminates
  WaitersReleased
