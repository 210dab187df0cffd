CONSTANTS
  Control = ctl
  x = x
  y = y
  Cores = {x, y}
  c1 = c1
  c2 = c2
  Announce <- TwoEntries
  Conns = {c1}
  Dialed = {c1}
  FaultKinds = {"skip", "after", "add"}
  MaxDrops = 0
  MaxCloses = 1
  MaxRestarts = 1
  MaxFaults = 1
SPECIFICATION FairSpec
INVARIANT TypeOK
INVARIANT OneOpen
INVARIANT NothingForgotten
PROPERTY MirrorsRegistry
PROPERTY LearnsUnlessLost
CHECK_DEADLOCK FALSE
