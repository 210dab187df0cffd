CONSTANTS
  Control = ctl
  x = x
  y = y
  Cores = {x}
  c1 = c1
  c2 = c2
  Announce <- OneCore
  Conns = {c1, c2}
  Dialed = {c1, c2}
  FaultKinds = {}
  MaxDrops = 0
  MaxCloses = 0
  MaxRestarts = 0
  MaxFaults = 0
SPECIFICATION FairSpec
PROPERTY MirrorsRegistry
CHECK_DEADLOCK FALSE
