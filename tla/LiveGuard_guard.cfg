\* Two commands of any kind over two symbols: what their verdicts mean.
CONSTANTS
  c1 = c1
  c2 = c2
  btc = btc
  eth = eth
  flat = flat
  liquidated = liquidated
  x = x
  none = none
  Commands = {c1, c2}
  Kinds <- KindSet
  Symbols = {btc, eth}
  Exposures = {flat, liquidated}
  Flat = flat
  Abnormal = {liquidated}
  Ids = {x}
  MaxAge = 0
  BaselineMaxAge = 0
  MaxClock = 1
  None = none
SYMMETRY CommandSymmetry
SPECIFICATION Spec
INVARIANTS IInv ReadyIsBacked ClearIsBacked LastWordHolds GuardHolds
