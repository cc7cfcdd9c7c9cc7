SPECIFICATION Spec
CONSTANTS
  a = a
  b = b
  s1 = s1
  s2 = s2
  w1 = w1
  w2 = w2
  None = None
  Names = {a}
  Specs = {s1}
  Secrets = {w1, w2}
  Configs <- SecretConfigs
  Namespaced = TRUE
  RetryCount = 1
  MaxAttempts = 2
  MaxEdits = 0
  MaxFaults = 1
  MaxOutside = 0
INVARIANTS
  RetryKeepsSecretsOut
