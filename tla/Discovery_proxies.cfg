\* Proxies of two versions race; daemons crash and stop by themselves.
SPECIFICATION Spec
CONSTANTS
  Proxies = {p1, p2, p3}
  Stops = {}
  Versions = {v1, v2, unknown}
  Unknown = unknown
  MaxDaemons = 3
  Interrupts = FALSE
  Manual = {}
SYMMETRY Symmetry
CHECK_DEADLOCK FALSE
INVARIANTS
  DiscoveryInv
  OneDaemonUp
  Discoverable
