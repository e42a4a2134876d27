CONSTANTS
  Ring = 4
  LineMax = 2
  Uses <- MCUses
SPECIFICATION Spec
INVARIANTS
  TypeOK
  OncePerSend
  LineDiscipline
PROPERTIES
  Serves
CHECK_DEADLOCK FALSE
