SPECIFICATION FairSpec
CONSTANTS
  Capacity = 1
  MaxWork = 1
  Configs <- Sources
  TimeoutsSet = TRUE
  Careful = TRUE
  NotifyIsLate = TRUE
INVARIANTS OnlyInitOutlivesLidar OneDecoder CloudsAreCorrected
PROPERTIES StartReturns StopReturns
CHECK_DEADLOCK FALSE
