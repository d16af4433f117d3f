SPECIFICATION FairSpec
CONSTANTS
  Capacity = 1
  MaxWork = 1
  Configs <- TwoSockets
  TimeoutsSet = TRUE
  Careful = TRUE
  NotifyIsLate = TRUE
PROPERTY ReceiveThreadExits
CHECK_DEADLOCK FALSE
