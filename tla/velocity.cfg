SPECIFICATION FairSpec
CONSTANTS
  NaN = NaN
  Twists <- MCTwists
  MaxLinear = 1
  MaxAngular = 2
  Timeout = 3
  Period = 2
  EstopDepth = 2
  WireCap = 2
INVARIANT LimitsHold
INVARIANT StopIsLastWord
INVARIANT MotionIsRecent
PROPERTY RobotComesToRest
CHECK_DEADLOCK FALSE
