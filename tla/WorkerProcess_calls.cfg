\* Two calls, of any kind, beside signals and the end of stdin.  (No symmetry: a
\* liveness check.)
SPECIFICATION FairSpec
CONSTANTS
  Calls = {c1, c2}
  Stop = Stop
  None = None
  HandlesUsr1 = TRUE
CHECK_DEADLOCK FALSE
INVARIANTS
  ProcessInv
  StopDrains
PROPERTIES
  CallsEnd
  ProcessEnds
