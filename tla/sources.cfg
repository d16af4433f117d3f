SPECIFICATION Spec
CONSTANTS
  Lines <- SerialLines
  OneRecv = 4
  DataMax = 7
  AckCap = 1
  PointCap = 1
  PortCap = 5
  MaxCloses = 1
  DropIsAtomic = TRUE
  Packets = 4
  PacketLen = 2
  TcpDataMax = 9
  Slack = 4
  RingCap = 1
  MaxResets = 1
  Recordings <- UpToThree
  ChunkSize = 3
  BufMax = 5
  TcpMax = 3
  TcpSlack = 1
  Cuts = {0}
  MaxLoops = 2
  Lidars <- FourKinds
  Circle = 16
  Stride = 12
  FrameLen = 5
  Tolerance = 2
  Acceptance = 2
  VoteMax = 3
  VoteScale = 2
  SeqMax = 3
  MaxPackets = 10
  MaxLost = 2
  MaxRun = 1
  MaxOdd = 1
  InOrder = TRUE
  TimeoutIsLast = TRUE
  OddIsInside = TRUE
  Contents <- OneOrTwo
  MaxInFrame = 3
  PerPoints = 2
  MinPoints = 1
  Rates = {1, 2}
  AziScan = 2
  ElevScan = 2
  Resolution = 2
  MaxClouds = 2
  ForwardCopy = TRUE
  NoneBelow = TRUE
  GridsFit = TRUE
INVARIANTS StreamsFaithful PlaybackExact FramesAreTurns PacketsComputedOnce CountsExact
           CloudsAreExact GridsAreExact
PROPERTIES CloseReturns PlaybackEnds
\* A source stops when the lidar, the recording or the bound is at its end.
CHECK_DEADLOCK FALSE
