CONSTANTS
  v0 = v0
  v1 = v1
  Ver = {v0, v1}
  Factory = v0
  Blank = blank
  Garbled = garbled
  Unknown = unknown
  None = none
  Uses <- MCTool
  MaxCrashes = 2
  MaxErrors = 0
  MaxRaces = 1
SPECIFICATION FairSpec
PROPERTIES
  RunsWhatIsDue
  DueImageStarts
