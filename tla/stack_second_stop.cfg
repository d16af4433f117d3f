SPECIFICATION Spec
CONSTANTS
  QueueDepth = 2
  NoParameter = NoParameter
  MaxPresses = 5
  MaxForeign = 2
  MayRestart = FALSE
  Patient = TRUE
  Keys <- MCBalanceKeys
  ForeignTwists <- MCTwists
  ForeignPostures <- MCNoTwists
  ForeignEstops <- MCNoTwists
INVARIANT StopDampsRobot
CHECK_DEADLOCK FALSE
