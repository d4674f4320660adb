SPECIFICATION PatientSpec
CONSTANTS
  z = z
  l = l
  p1 = p1
  p2 = p2
  c1 = c1
  c2 = c2
  None = None
  Calls = {c1, c2}
  Volumes = {z, l}
  Proxies = {p1}
  Fs <- ZfsAndLustre
  Sizes = {4, 5, 6}
  MB = 2
  GB = 4
  Updates <- AllUpdates
  Faults <- StorageFaults
  MaxFaults = 2
  Strict = TRUE
SYMMETRY HandlerSymmetry
INVARIANTS
  CapacityWithinMB
  DeletedIsGone
  NeverAsksToShrink
PROPERTIES
  KeepsContract
CHECK_DEADLOCK FALSE
