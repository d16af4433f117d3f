SPECIFICATION FairSpec
CONSTANTS
  QueueDepth = 8
  NoParameter = NoParameter
  MaxPresses = 4
  MaxForeign = 0
  MayRestart = FALSE
  Patient = FALSE
  Keys <- MCDriveKeys
  ForeignTwists <- MCNoTwists
  ForeignPostures <- MCPostures
  ForeignEstops <- MCEstops
INVARIANT ReleaseKeyReleases
INVARIANT NoPhantomStop
INVARIANT QuitLeavesNoMotion
PROPERTY StopReachesRobot
CHECK_DEADLOCK FALSE
