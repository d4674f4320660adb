SPECIFICATION PatientSpec
CONSTANTS
  z = z
  l = l
  p1 = p1
  p2 = p2
  c1 = c1
  c2 = c2
  None = None
  Calls = {c1}
  Volumes = {l}
  Proxies = {p1}
  Fs <- ZfsAndLustre
  Sizes = {4, 6, 8}
  MB = 2
  GB = 4
  Updates <- NoUpdates
  Faults <- LookupFault
  MaxFaults = 2
  Strict = TRUE
INVARIANTS
  NeverAsksToShrink
CHECK_DEADLOCK FALSE
