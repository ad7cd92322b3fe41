\* Transfers across shards and exchanges in both directions, one exchange at a time.
CONSTANTS
  s0 = s0
  s1 = s1
  Shard = {s0, s1}
  Init_Balance = 2
  InitReserve = 5
  Token = {2}
  Addr <- MCAddr
  Addr2Shard <- MCAddr2Shard
  Swap <- BothWays
  Transfer <- ToCarol
  Handler = {h1}
  BlockSize = 2
  MaxRequests = 3
SPECIFICATION Spec
INVARIANTS TypeOK   OnCurve QuoteNotNegative BKCQuoteIsPaid
CHECK_DEADLOCK FALSE
