CONSTANTS
  Control = ctl
  x = x
  y = y
  Cores = {x, y}
  c1 = c1
  c2 = c2
  Announce <- TwoEntries
  Conns = {c1}
  Dialed = {c1}
  FaultKinds = {}
  MaxDrops = 0
  MaxCloses = 0
  MaxRestarts = 0
  MaxFaults = 0
SPECIFICATION FairSpec
PROPERTY Learns
CHECK_DEADLOCK FALSE
