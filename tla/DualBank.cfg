CONSTANTS
  v0 = v0
  v1 = v1
  Ver = {v0, v1}
  Factory = v0
  Blank = blank
  Garbled = garbled
  Unknown = unknown
  None = none
  Uses <- MCCommands
  MaxCrashes = 1
  MaxErrors = 1
  MaxRaces = 1
SPECIFICATION Spec
INVARIANTS
  TypeOK
  FieldNeverRunsTorn
  FieldPowerCycleBoots
  RecordedImagesRunWhole
CHECK_DEADLOCK FALSE
