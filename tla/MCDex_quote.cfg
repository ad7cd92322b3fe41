\* An exchange Badge -> BKC.
CONSTANTS
  s0 = s0
  s1 = s1
  Shard = {s0, s1}
  Init_Balance = 2
  InitReserve = 4
  Token = {2}
  Addr <- OneAddr
  Addr2Shard <- OneShard
  Swap <- BothWays
  Transfer <- NoTransfer
  Handler = {h1}
  BlockSize = 2
  MaxRequests = 3
SPECIFICATION Spec
INVARIANT QuoteIsPaid
CHECK_DEADLOCK FALSE
