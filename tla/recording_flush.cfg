SPECIFICATION Spec
CONSTANTS
  Receivers = {c, d}
  MaxPackets = 2
  MaxStarts = 1
  CacheMax = 2
  BufferSize = 4
  CreationIsAtomic = TRUE
PROPERTY DumpedIsWritten
CHECK_DEADLOCK FALSE
