CONSTANTS
  PushLen = 1
  SndWnd = 2
  KcpFlush = 0
  DialTimeout = 0
  SessionTimeout = 0
  SessionKeepalive = 0
  Linger = 0
  TimeWait = 0
  ResetInterval = 0
  AgeCap = 1
  TcpFaults = TRUE
  Oom = FALSE
  MaxKeepalive = 1
  RcvWnd = 2
  MaxBlk <- OneUp
  MaxStray = 1
  MaxRestart = 1
  Punctual = FALSE
SPECIFICATION ClockSpec
INVARIANTS Lifecycle EofMeansComplete
PROPERTIES Released
CHECK_DEADLOCK FALSE
