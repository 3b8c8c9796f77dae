\* Two clients, each a proxy or not; the daemon may end.
SPECIFICATION FairSpec
CONSTANTS
  Clients = {p1, p2}
  MaxOps = 2
  PollInterval = 1
  KeepaliveTimeout = 2
  IdleLimit = 1
  MaxSilence = 2
CHECK_DEADLOCK FALSE
INVARIANTS
  GatewayInv
  BatchTells
PROPERTIES
  LiveProxyKeepsDaemon
  DaemonExits
