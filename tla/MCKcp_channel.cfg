CONSTANTS
  Wrap = 12
  snd_wnd = 2
  rcv_wnd = 2
  IKCP_WND_RCV = 2
  IKCP_THRESH_MIN = 2
  mss = 2
  nocwnd = FALSE
  fastresend = 1
  fastlimit = 1
  MtuSegs = 3
  MaxSend <- OneWay
  Starts <- BeforeWrap
  MaxNet <- DataReordered
  MaxAck = 1
  Lifetime = 1
SPECIFICATION FairSpec
INVARIANTS Windows Kept Unambiguous
PROPERTIES ServerChannel Settles
