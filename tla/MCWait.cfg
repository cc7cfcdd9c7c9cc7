SPECIFICATION Spec
CONSTANTS
  Blocks <- WaitBlocks
  Errs <- ErrorBlocks
  Deadline = 2
  MaxTime = 4
  MaxFaults = 1
INVARIANT TypeOK
PROPERTIES
  PromiseKept
  BothEnd
