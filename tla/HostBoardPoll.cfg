CONSTANTS
  Writers <- MCWriters
  Retries = 2
  ErrorLimit = 2
  MaxReconf = 1
  Uses <- MCUses
SPECIFICATION Spec
INVARIANT PollLives
