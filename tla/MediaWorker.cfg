SPECIFICATION FairSpec
CONSTANTS
  Sessions = 2
CHECK_DEADLOCK FALSE
INVARIANTS
  TypeOK
  FailureHasReason
  NothingLeaks
  NoSilentExit
  SettledAtEnd
PROPERTIES
  FailureIsFinal
  StopCompletes
  FailureEndsSession
