\* One collector of two order books; one collector of candles and a backfill.
CONSTANTS
  s1 = s1
  s2 = s2
  Symbols = {s1, s2}
  Prices = {1, 2, 3}
  MaxQuantity = 2
  Books <- ThreeBooks
  MaxUpdates <- Moving
  Messages = 4
  ReconnectAttempts = 1
  Limit = 2
  LastCandle = 4
  None = None
SPECIFICATION MarketSpec
INVARIANTS
  IInv
  LatestBookIsReal
  BlindOnlyUnrecorded
  HolesAreReported
PROPERTIES
  EveryCommandReturns
