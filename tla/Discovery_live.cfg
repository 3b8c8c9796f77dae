\* Proxies and stops end, beside daemons started by hand.  (No symmetry: a liveness check.)
SPECIFICATION FairSpec
CONSTANTS
  Proxies = {p1, p2}
  Stops = {s1}
  Versions = {unknown}
  Unknown = unknown
  MaxDaemons = 3
  Interrupts = TRUE
  Manual = {3}
CHECK_DEADLOCK FALSE
PROPERTIES
  ProcsEnd
