CONSTANTS
  h = h
  a = a
  b = b
  Hub = h
  Leaves = {a}
  Links <- Twice
  Keepalive <- HubLinks
  HubReady = FALSE
  FaultKinds = {"tick"}
  MaxLen = 2
  MaxDrops = 1
  MaxFaults = 1
SPECIFICATION Spec
INVARIANTS UpgradesAnswerable
PROPERTIES Mirrors
CHECK_DEADLOCK FALSE
