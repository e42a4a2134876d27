CONSTANTS
  Scales = {x}
  HalfCounter = 2
  HalfWord = 2
  HalfInt = 4
  CycleRange = 3
  Clock = 4
  Accel = 1
  Moves <- MCMoves
  Sessions <- MCSessions
  Nums <- MCNums
  Dens <- MCDens
  MaxSpeeds <- MCMaxSpeeds
  JogSpeeds <- MCJogSpeeds
  IndexSpeeds = {1}
  Targets <- MCTargets
  Presets = {1}
  Defaults <- MCDefaults
SPECIFICATION Spec
INVARIANTS
  TypeOK
  FollowerExact
  OffStaysOff
PROPERTIES
  CountFollowsPins
  DirLeadsStep
  CatchesUp
