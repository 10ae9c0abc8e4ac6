SPECIFICATION FairSpec
CONSTANTS
  MaxGeneration = 2
  MaxDepth = 2
  Senders = {s1}
CHECK_DEADLOCK FALSE
INVARIANTS
  TypeOK
  CurrentIsLatest
  NoSocketLeaks
PROPERTIES
  LockIsReleased
  LossIsNoticed
