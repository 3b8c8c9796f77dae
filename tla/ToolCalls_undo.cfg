\* Any three calls of any tools of a backend.
SPECIFICATION Spec
CONSTANTS
  Tools <- MCTools
  Parts <- MCParts
  Transactional <- MCTransactional
  Exempt <- MCExempt
  Splitting <- MCSplitting
  Partial <- MCPartial
  Misreporting <- MCMisreporting
  Limit = 2
  MaxCalls = 3
CHECK_DEADLOCK FALSE
INVARIANTS
  CallsInv
  FailedCallLeavesNothing
  UndoLandsBetweenCalls
  UndoTakesBackTheCall
PROPERTIES
  ImplementsHistory
