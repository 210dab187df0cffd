CONSTANTS
  home = home
  cabin = cabin
  note = note
  strong = strong
  weak = weak
  Centrals = {phone}
  Payloads = {home, cabin, note}
  Good = {home, cabin}
  Size <- Sizes
  MaxParts = 2
  Zero = zero
  NoOne = noone
  MaxMishaps = 2
  Networks <- TwoNetworks
  Addrs = {a1}
  NoNet = nonet
  Turns = 2
  MaxUpsets = 1
SPECIFICATION DeviceSpec
PROPERTY FindsHub
CHECK_DEADLOCK FALSE
