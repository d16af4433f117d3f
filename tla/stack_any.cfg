SPECIFICATION Spec
CONSTANTS
  QueueDepth = 2
  NoParameter = NoParameter
  MaxPresses = 4
  MaxForeign = 1
  MayRestart = TRUE
  Patient = FALSE
  Keys <- MCAllKeys
  ForeignTwists <- MCTwists
  ForeignPostures <- MCPostures
  ForeignEstops <- MCEstops
INVARIANT TypeOK
INVARIANT MovesPrecedeDamp
PROPERTY GateSpec
CHECK_DEADLOCK FALSE
