\* Two databases and a snapshot, two edits.
SPECIFICATION Spec
CONSTANTS
  Databases = {d1, d2}
  Snapshots = {s1}
  Renamed = {d2}
  None = None
  MaxWork = 2
CHECK_DEADLOCK FALSE
INVARIANTS
  SessionInv
  AnalyzedMeansAnalyzed
  LocksFollowSession
PROPERTIES
  NoWorkDroppedSilently
  SavedWorkStays
