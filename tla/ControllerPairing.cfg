SPECIFICATION Spec
CONSTANTS
  Attempts = {a1, a2}
  Lifetime = 2
  Backlog = 2
  ProbeAttempts = 2
  MaxTime = 3
  MaxSecrets = 4
SYMMETRY AttemptSymmetry
CHECK_DEADLOCK FALSE
INVARIANTS
  TypeOK
  SecretOpensOneSession
  SessionHasItsPhone
  PairedPhoneHasItsSession
  SecretLifetime
