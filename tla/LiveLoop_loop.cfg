\* Two loops of two iterations with every failure, or one whose time runs out.
CONSTANTS
  r1 = r1
  r2 = r2
  Runs = {r1, r2}
  MaxIterations = 2
  MaxRuntime = 3
  IterationTimeout = 2
  Limit = 2
  MaxClock = 5
SPECIFICATION MCSpec
CHECK_DEADLOCK FALSE
INVARIANTS
  IInv
  FinishedRowAgrees
  SuccessIsDurable
  ClearMeansIdle
  DeadlineWithinRuntime
PROPERTIES
  KillSwitchHonoured
  EveryLoopReturns
