CONSTANTS
  PushLen = 1
  SndWnd = 2
  KcpFlush = 1
  DialTimeout = 1
  SessionTimeout = 3
  SessionKeepalive = 1
  Linger = 1
  TimeWait = 4
  ResetInterval = 0
  AgeCap = 5
  TcpFaults = TRUE
  Oom = TRUE
  MaxKeepalive = 1
  RcvWnd = 2
  MaxBlk <- NoData
  MaxStray = 0
  MaxRestart = 0
  Punctual = TRUE
SPECIFICATION ClockSpec
INVARIANT SingleDial
PROPERTY Released
CHECK_DEADLOCK FALSE
