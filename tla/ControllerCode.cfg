SPECIFICATION Spec
CONSTANTS
  Attempts = {a1, a2}
  Lifetime = 2
  Backlog = 1
  ProbeAttempts = 1
  MaxTime = 2
  MaxSecrets = 3
CHECK_DEADLOCK FALSE
PROPERTIES
  CodeGoodUntilUsed
