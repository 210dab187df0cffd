CONSTANTS
  Control = ctl
  x = x
  y = y
  Cores = {x}
  c1 = c1
  c2 = c2
  Announce <- OneCore
  Conns = {c1, c2}
  Dialed = {c1}
  FaultKinds = {"add"}
  MaxDrops = 1
  MaxCloses = 0
  MaxRestarts = 1
  MaxFaults = 1
SPECIFICATION Spec
INVARIANT OneWriter
CHECK_DEADLOCK FALSE
