CONSTANTS
  h = h
  a = a
  b = b
  Hub = h
  Leaves = {a, b}
  Links <- Chain
  Keepalive <- HubLinks
  HubReady = TRUE
  FaultKinds = {"apply", "after"}
  MaxLen = 2
  MaxDrops = 0
  MaxFaults = 1
SPECIFICATION FairSpec
INVARIANTS TypeOK NoDeadWait
PROPERTIES Converges
CHECK_DEADLOCK FALSE
