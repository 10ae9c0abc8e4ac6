SPECIFICATION Spec
CONSTANTS
  None = None
  Names = {"pixel", "tablet", "old"}
  Offers <- MCOffers
  Effects = {"sepia"}
  OtherFilters = {"cartoon"}
  Bitrates = {500, 25000}
  Values = {100}
  Users <- MCUsers
CHECK_DEADLOCK FALSE
INVARIANTS
  TypeOK
  BitratesStaySerializable
  SteadySessionKeepsPresets
  PhoneFollowsRegistry
  RefusedOnlyForKnownReasons
PROPERTIES
  PresetsComeBack
