SPECIFICATION PatientSpec
CONSTANTS
  z = z
  l = l
  p1 = p1
  p2 = p2
  c1 = c1
  c2 = c2
  None = None
  Calls = {c1}
  Volumes = {z}
  Proxies = {p1}
  Fs <- ZfsAndLustre
  Sizes = {4}
  MB = 2
  GB = 4
  Updates <- NoUpdates
  Faults <- LostAnswer
  MaxFaults = 1
  Strict = TRUE
INVARIANTS
  AnswersNameVolume
CHECK_DEADLOCK FALSE
