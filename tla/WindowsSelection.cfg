SPECIFICATION Spec
CONSTANTS
  Devices = {d1, d2}
CHECK_DEADLOCK FALSE
INVARIANTS
  GoneDeviceIsDeselected
