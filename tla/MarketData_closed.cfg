\* A backfill and a collector of the same candles.
CONSTANTS
  s1 = s1
  s2 = s2
  Symbols = {s1}
  Prices = {1, 2, 3}
  MaxQuantity = 2
  Books <- ThreeBooks
  MaxUpdates <- Standing
  Messages = 3
  ReconnectAttempts = 1
  Limit = 2
  LastCandle = 1
  None = None
SPECIFICATION TwoWritersSpec
INVARIANTS
  ClosedCandleIsFinal
