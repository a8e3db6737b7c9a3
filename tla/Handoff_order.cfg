\* The way to a first order and to its review.
CONSTANTS
  c1 = c1
  c2 = c2
  Checks = {c1, c2}
  NoCheck = NoCheck
  Rehearsed = 3
  SmokeRun = "smoke"
  SmokeAuditLimit = 1
  Decisions = {1, 2, 3}
  MicroSized = {2, 3}
  RunIds = {"first"}
  MaxAge = 0
  ReviewMaxAge = 1
  NoRun = NoRun
  Scripts <- MCScripts
  Requests <- MCRequests
  Handoffs <- MCHandoffs
  MaxTime = 1
  MaxEvents = 1
  MaxRuns = 2
  MaxSmokes = 2
SPECIFICATION MCSpec
INVARIANTS
  IInv
  HandoffHolds
  ReviewIsEarned
  IdleIsReviewed
  NoOrderAfterSmoke
  QuietCheckIsRight
CHECK_DEADLOCK FALSE
