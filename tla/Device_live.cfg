CONSTANTS
  home = home
  cabin = cabin
  note = note
  strong = strong
  weak = weak
  Centrals = {phone}
  Payloads = {home, cabin, note}
  Good = {home, cabin}
  Size <- Sizes
  MaxParts = 2
  Zero = zero
  NoOne = noone
  MaxMishaps = 2
  Networks <- TwoNetworks
  Addrs = {a1}
  NoNet = nonet
  Turns = 2
  MaxUpsets = 1
SPECIFICATION DeviceSpec
INVARIANT DeviceTypeOK
INVARIANT AckedIsStored
INVARIANT WholeUnlessRaced
INVARIANT HoldEarned
PROPERTY Serves
CHECK_DEADLOCK FALSE
