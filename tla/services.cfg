SPECIFICATION Spec
CONSTANTS
  Queries = {"sn"}
  Blocks = 2
  MaxCalls = 2
  MaxLost = 1
  OnlyDoneIsZero = TRUE
  Settled = TRUE
  Callers = {c1, c2}
  Cmds = {"sn"}
  Packages = 2
  BodyLen = 1
  OldUpgrade = FALSE
  MaxQueries = 2
  MaxResets = 1
  Receivers = {c1, c2}
  MaxPackets = 3
  MaxStarts = 2
  CacheMax = 2
  BufferSize = 4
  CreationIsAtomic = TRUE
  MaxLines = 3
  NotifyIsLate = TRUE
  c1 = c1
INVARIANTS ChangesUndone UpgradeSound AnswerIsOwn RecordingComplete
PROPERTIES QueryReturns LoggerServes
\* All stop when the calls are used up.
CHECK_DEADLOCK FALSE
