\* Two runs, two decisions, a POST that is repeated, fairness of the runs alone.
CONSTANTS
  r1 = r1
  r2 = r2
  None = None
  Runs = {r1, r2}
  Decisions = {1, 2}
  Eligible = {1, 2}
  MaxRetries = 1
  MaxQuantity = 1
  MaxClock = 1
SPECIFICATION MCSpec
CHECK_DEADLOCK FALSE
INVARIANTS
  IInv
  OneSelector
  AckIsTruthful
  OnlyWriterPosts
  DoneIsReconciled
PROPERTIES
  ExposureBounded
  EveryRunEnds
  ImplementsLifecycle
