CONSTANTS
  PushLen = 2
  SndWnd = 2
  KcpFlush = 2
  DialTimeout = 0
  SessionTimeout = 0
  SessionKeepalive = 0
  Linger = 0
  TimeWait = 0
  ResetInterval = 0
  AgeCap = 0
  TcpFaults = TRUE
  Oom = FALSE
  MaxKeepalive = 0
  RcvWnd = 2
  MaxBlk <- TwoUpOneDown
  MaxStray = 0
  MaxRestart = 0
  Punctual = FALSE
SPECIFICATION NetSpec
INVARIANTS BufferSafety NoLostWakeup StreamFidelity
PROPERTIES CloseReachesPeer Delivered
CHECK_DEADLOCK FALSE
