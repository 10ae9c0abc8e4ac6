SPECIFICATION Spec
CONSTANTS
  Repertoires <- Peers
  Sizes = {1, 2}
  Rates = {1, 2}
  Effects = {"sepia"}
  Corrections = {"gamma"}
  Values = {1, 2}
  Axes = {"horizontal"}
  MaxSurfaces = 2
CHECK_DEADLOCK FALSE
INVARIANTS
  TypeOK
  ModeFollowsOptions
  StaleUrlFails
  FacingFollowsOptions
  FiltersAreRecorded
  OneFilterPerCorrection
