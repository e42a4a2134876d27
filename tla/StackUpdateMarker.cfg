CONSTANTS
  LastBlock = 3
  Retries = 3
  StartRetries = 2
  MaxFaults = 2
  MaxDrifts = 2
  Releases = 2
  Uses <- MCUses
SPECIFICATION Spec
INVARIANT MarkerNamesWhole
CHECK_DEADLOCK FALSE
