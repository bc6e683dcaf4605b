CONSTANTS
  NULL = NULL
  Addrs = {1, 2}
  Ports = {4, 5}
  Modes <- Both
  OBFS_MAX_CONTEXTS = 2
  STARTUP_LIMIT_START = 0
  STARTUP_LIMIT_FULL = 1
  MaxRedial = 1
  Garbage <- Zero
  Byte = 3
  IpHdr = 1
  TcpHdr = 1
  Hosts = {0, 1, 2, 3}
  PortNumbers = {0, 1, 2}
  MaxPayload = 3
SPECIFICATION FairSpec
INVARIANTS Owned Counted Reachable Dialling PacketsOpen
PROPERTIES Reconnects
