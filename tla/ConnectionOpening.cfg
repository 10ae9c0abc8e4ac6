SPECIFICATION Spec
CONSTANTS
  MaxGeneration = 2
  MaxDepth = 1
  Senders = {s1}
CHECK_DEADLOCK FALSE
INVARIANTS
  StreamerFindsConnection
