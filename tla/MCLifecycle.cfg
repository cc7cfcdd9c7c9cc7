SPECIFICATION Spec
CONSTANTS
  a = a
  b = b
  s1 = s1
  s2 = s2
  w1 = w1
  w2 = w2
  None = None
  Names = {a, b}
  Specs = {s1, s2}
  Secrets = {w1}
  Configs <- LifecycleConfigs
  Namespaced = TRUE
  RetryCount = 1
  MaxAttempts = 2
  MaxEdits = 2
  MaxFaults = 2
  MaxOutside = 1
INVARIANTS
  TypeOK
  SecretsStayOut
  CreatedIsTracked
  SuccessMeansApplied
PROPERTIES
  DeletedIsGone
  ForgottenOnlyIfGone
