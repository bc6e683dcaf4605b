SPECIFICATION Spec
CONSTANTS
  NULL = NULL
  prime_list <- Primes
  COLLISION_THRESHOLD = 0
  GET_HASH <- Hash
  HTTP_MAX_REQUEST = 9
  MaxResponse = 3
  Files <- OnlyBroker
  AllFiles <- Everything
  Peers <- OnePeer
  CONV_MAX = 3
  MAX_SESSIONS = 2
  Callers <- TwoCallers
  Requests <- Asked
  MaxBacklog = 2
  MaxReload = 1
INVARIANT ConsumeAssertion
CHECK_DEADLOCK FALSE
