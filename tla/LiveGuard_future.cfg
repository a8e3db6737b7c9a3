\* One preflight and a clock that moves while the exchange answers.
CONSTANTS
  c1 = c1
  c2 = c2
  btc = btc
  eth = eth
  flat = flat
  liquidated = liquidated
  x = x
  none = none
  Commands = {c1}
  Kinds <- PreflightOnly
  Symbols = {btc, eth}
  Exposures = {flat, liquidated}
  Flat = flat
  Abnormal = {liquidated}
  Ids = {x}
  MaxAge = 1
  BaselineMaxAge = 1
  MaxClock = 1
  None = none
SPECIFICATION Spec
INVARIANT OwnSnapshotIsNotFuture
