CONSTANTS
  v0 = v0
  v1 = v1
  Ver = {v0, v1}
  N = 2
  Region = 3
  Blank = blank
  Garbled = garbled
  None = none
  Uses <- MCAborting
  Targets = {1}
  MaxIdle = 1
SPECIFICATION Spec
INVARIANT CommittedWhole
