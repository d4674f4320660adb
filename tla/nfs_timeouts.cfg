SPECIFICATION FairSpec
CONSTANTS
  t1 = t1
  t2 = t2
  t3 = t3
  t4 = t4
  v1 = v1
  v2 = v2
  p = p
  q = q
  rw = rw
  ro = ro
  s1 = s1
  s2 = s2
  c1 = c1
  c2 = c2
  NoServer = NoServer
  Local = Local
  None = None
  Calls = {c1, c2}
  Targets = {t1, t2}
  Volumes = {v1, v2}
  PVCs = {p, q}
  Options = {rw}
  Servers = {s1}
  ReadOnly = {}
  VolumeOf <- TwoClaimsOf
  PvcOf <- OwnPvcOf
  VipOf <- OneVipOf
  MountText <- OwnText
  FirstAnn <- SameAnn
  Edits <- NoEdits
  Faults <- NoFaults
  Timeouts = TRUE
  Restarts = FALSE
INVARIANTS
  ClaimsIsolated
PROPERTIES
  UnpublishEndsOncePatient
CHECK_DEADLOCK FALSE
