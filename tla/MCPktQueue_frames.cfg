CONSTANTS
  Frames = {f1, f2, f3}
  CacheSize = 2
  SendCap = 2
  RecvCap = 2
  Batch = 2
  Builds = {TRUE, FALSE}
  Errors = TRUE
  SockBuf = 1
  MaxIn = 3
  MaxPkt = 4
SPECIFICATION FairSpec
INVARIANTS Owned Fifo Announced
PROPERTY Drained
CHECK_DEADLOCK FALSE
