CONSTANTS
  Numbers <- FewNumbers
  Blocks <- OnlyLiteral
  Overlays <- DottedOverlays
  Schemas <- TwoSchemas
  Writes <- NoWrites
  Defaults <- ServerDefaults
  ItemDefaults <- ServerItemDefaults
  Computed <- LabelPaths
  ServerSide <- ServerSidePaths
  Dots <- DottedKeys
  Secret <- TheSecret
  None = None
  Tree <- TreeOf
  AMap = AMap
  AList = AList
  ANull = ANull
  MaxEdits = 1
  MaxWrites = 1
  MaxRuns = 3
SPECIFICATION Spec
INVARIANT
  ObjectHidesSecrets
CHECK_DEADLOCK FALSE
