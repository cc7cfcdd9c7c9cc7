SPECIFICATION FairSpec
CONSTANTS
  o1 = o1
  o2 = o2
  o3 = o3
  builtin = builtin
  custom = custom
  None = None
  Null = Null
  Empty = Empty
  NotANumber = NotANumber
  NoTarget = NoTarget
  Ops = {o1, o2, o3}
  Kinds = {builtin, custom}
  Kubeconfig <- MCKubeconfig
  Workloads <- MCWorkloads
  MaxFaults = 1
INVARIANTS
  TypeOK
  NoCircularWait
  FailuresAreContained
  BlockDecides
PROPERTIES
  ServedKindsWork
  EveryOperationEnds
