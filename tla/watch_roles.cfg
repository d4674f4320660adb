SPECIFICATION FairSpec
CONSTANTS
  p1 = p1
  p2 = p2
  None = None
  NoProfile = NoProfile
  Empty = Empty
  Garbled = Garbled
  Missing = Missing
  Proxies = {p1, p2}
  Contents = {p1, p2, NoProfile, Empty, Garbled, Missing}
  Installed = {p1, p2}
  Roles <- ControllerRole
  MaxEdits = 2
  MaxPending = 2
PROPERTIES
  NewestInForce
CHECK_DEADLOCK FALSE
