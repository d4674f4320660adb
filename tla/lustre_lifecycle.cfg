SPECIFICATION FairSpec
CONSTANTS
  t1 = t1
  t2 = t2
  m1 = m1
  m2 = m2
  m3 = m3
  c1 = c1
  c2 = c2
  Local = Local
  None = None
  Calls = {c1, c2}
  Targets = {t1, t2}
  ReadOnly = {t1}
  Mounts = {m1, m2, m3}
  Faults <- AllFaults
  MaxFaults = 2
INVARIANTS
  TypeOK
  DataKept
  ReadOnlyUnlessCut
  UnstagedIsClean
PROPERTIES
  VolumeLeaves
  KeepsNodeContract
CHECK_DEADLOCK FALSE
