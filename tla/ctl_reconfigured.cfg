SPECIFICATION FairReconfSpec
CONSTANTS
  z = z
  p1 = p1
  p2 = p2
  c1 = c1
  c2 = c2
  None = None
  NoProfile = NoProfile
  Empty = Empty
  Garbled = Garbled
  Missing = Missing
  Calls = {c1, c2}
  Volumes = {z}
  Proxies = {p1, p2}
  Fs <- AllZfs
  Sizes = {4}
  MB = 2
  GB = 4
  Updates <- AllUpdates
  Faults <- AllFaults
  MaxFaults = 2
  Strict = FALSE
  Impatient = {c1}
  Contents = {p2, NoProfile, Garbled}
  Installed = {p1}
  Roles <- AllRoles
  MaxEdits = 1
  MaxPending = 1
INVARIANTS
  TypeOK
  PvBacked
  OnlyLoadedConfigs
PROPERTIES
  NewestInForce
  DeleteEndsOncePatient
  ImplementsController
CHECK_DEADLOCK FALSE
