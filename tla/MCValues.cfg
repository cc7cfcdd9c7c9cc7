CONSTANTS
  Numbers <- FewNumbers
  Blocks <- AllBlocks
  Overlays <- AllOverlays
  Schemas <- TwoSchemas
  Writes <- AllWrites
  Defaults <- ServerDefaults
  ItemDefaults <- ServerItemDefaults
  Computed <- LabelPaths
  ServerSide <- ServerSidePaths
  Dots <- DottedKeys
  Secret <- TheSecret
  None = None
  Tree <- TreeOf
  AMap = AMap
  AList = AList
  ANull = ANull
  MaxEdits = 1
  MaxWrites = 1
  MaxRuns = 3
SPECIFICATION Spec
INVARIANTS
  TypeOK
  SecretsHidden
  OverlayWins
  RefreshShowsCluster
  ReadersAgree
  AppliedIsNoDiff
  PlanIsAccepted
  MorphAccepts
  DataSourceShowsCluster
  AppliedIsKept
PROPERTIES
  TreesKept
CHECK_DEADLOCK FALSE
