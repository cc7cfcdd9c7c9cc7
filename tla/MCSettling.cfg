SPECIFICATION FairSpec
CONSTANTS
  a = a
  b = b
  s1 = s1
  s2 = s2
  w1 = w1
  w2 = w2
  None = None
  Names = {a, b}
  Specs = {s1, s2}
  Secrets = {w1, w2}
  Configs <- SettlingConfigs
  Namespaced = TRUE
  RetryCount = 1
  MaxAttempts = 2
  MaxEdits = 1
  MaxFaults = 2
  MaxOutside = 1
INVARIANTS
  FlaggedIsNotUpdated
PROPERTIES
  FlagEndsWithSuccess
  Settles
