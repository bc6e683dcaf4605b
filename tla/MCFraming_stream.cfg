CONSTANTS
  SESSION_BUF_SIZE = 8
  MAX_PACKET_SIZE = 3
  TLV_HEADER_SIZE = 2
  Mss = 3
  MaxBytes = 12
SPECIFICATION FairSpec
INVARIANTS Aligned NoStall
PROPERTY AllConsumed
CHECK_DEADLOCK FALSE
