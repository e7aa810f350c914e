SPECIFICATION DeploySpec
CONSTANTS
  p1 = p1
  p2 = p2
  p3 = p3
  Pods <- ThreePods
  Watched = {p1}
  Job = Job
  Runners <- AllRunners
  Desired = 2
  MaxCrash = 1
INVARIANTS
  SchemaIsReplayed
  CompleteMeansEntities
  NewPodsWork
PROPERTIES
  DeployEnds
  ReplicasComeUp
CHECK_DEADLOCK FALSE
