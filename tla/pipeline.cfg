SPECIFICATION FairSpec
CONSTANTS
  MaxPackets = 5
  ThreadCounts = {1, 2, 3}
  BufferSize = 5
  SleepDrains = TRUE
  MayResize = FALSE
  None = None
INVARIANTS FramesWhole CallbackAlone
PROPERTIES NoTornPacket WaitEnds
