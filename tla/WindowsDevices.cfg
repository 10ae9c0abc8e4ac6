SPECIFICATION FairSpec
CONSTANTS
  Devices = {d1, d2, d3}
CHECK_DEADLOCK FALSE
INVARIANTS
  TypeOK
  IndexesAgree
  ThreadIsJoined
PROPERTIES
  GuiResponds
