CONSTANTS
  v0 = v0
  v1 = v1
  Ver = {v0, v1}
  Factory = v0
  Blank = blank
  Garbled = garbled
  Unknown = unknown
  None = none
  Uses <- MCAgain
  MaxCrashes = 0
  MaxErrors = 0
  MaxRaces = 1
SPECIFICATION Spec
PROPERTY RunsWhatIsDue
