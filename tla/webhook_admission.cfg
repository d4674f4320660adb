SPECIFICATION Spec
CONSTANTS
  job = job
  otherJob = otherJob
  mine = mine
  some = some
  path = path
  Submitted <- SmallPods
  JobIds = {job, otherJob}
  NoJobId = NoJobId
  JobVar = JobVar
  Names = {JobVar, path}
  Values = {job, otherJob, mine, some}
  Foreign <- ForeignEnv
  MaxForeign = 2
  MaxSubmits = 2
  None = None
INVARIANTS
  TypeOK
  PatchApplies
  EveryContainerNamed
  Idempotent
PROPERTIES
  EnvOnlyGrows
CHECK_DEADLOCK FALSE
