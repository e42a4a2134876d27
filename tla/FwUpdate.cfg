CONSTANTS
  v0 = v0
  v1 = v1
  Ver = {v0, v1}
  N = 2
  Region = 3
  Blank = blank
  Garbled = garbled
  None = none
  Uses <- MCUses
  Targets = {1}
  MaxIdle = 1
SPECIFICATION Spec
INVARIANTS
  TypeOK
  DoneMeansWritten
  CommittedWholeUnraced
  FlashLockedAtRest
PROPERTIES
  RecordsWhatIsThere
  SessionEnds
