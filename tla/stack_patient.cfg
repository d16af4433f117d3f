SPECIFICATION Spec
CONSTANTS
  QueueDepth = 2
  NoParameter = NoParameter
  MaxPresses = 5
  MaxForeign = 2
  MayRestart = FALSE
  Patient = TRUE
  Keys <- MCStopKeys
  ForeignTwists <- MCTwists
  ForeignPostures <- MCNoTwists
  ForeignEstops <- MCNoTwists
INVARIANT StopSticks
INVARIANT StopDampsRobot
CHECK_DEADLOCK FALSE
