SPECIFICATION Spec
CONSTANTS
  t1 = t1
  t2 = t2
  t3 = t3
  t4 = t4
  v1 = v1
  v2 = v2
  p = p
  q = q
  rw = rw
  ro = ro
  s1 = s1
  s2 = s2
  c1 = c1
  c2 = c2
  NoServer = NoServer
  Local = Local
  None = None
  Calls = {c1, c2}
  Targets = {t1, t2}
  Volumes = {v1}
  PVCs = {p}
  Options = {rw, ro}
  Servers = {s1}
  ReadOnly = {ro}
  VolumeOf <- SuccessorVolumeOf
  PvcOf <- OnePvcOf
  VipOf <- OneVipOf
  MountText <- OwnText
  FirstAnn <- MixedAnn
  Edits <- NoEdits
  Faults <- NoFaults
  Timeouts = FALSE
  Restarts = FALSE
INVARIANTS
  UnpublishReturns
CHECK_DEADLOCK FALSE
