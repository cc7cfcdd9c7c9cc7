SPECIFICATION FairSpec
CONSTANTS
  l1 = l1
  l2 = l2
  p = p
  c = c
  i = i
  v1 = v1
  v2 = v2
  None = None
  Leaves = {l1, l2, p, c, i}
  Vals = {v1, v2}
  Labels <- LabelsPath
  Listed <- NoPaths
  Blocks <- FieldsBlocks
  MaxEdits = 2
  MaxOutside = 2
  MaxFaults = 1
INVARIANTS
  TypeOK
  PlanIsValid
  DriftDoesNotReplace
  ComputedDriftIsNoDiff
  NoOpMeansNoDrift
PROPERTIES
  Settles
