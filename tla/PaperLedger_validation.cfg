\* Lifecycle commands, settlements and cycles, the only writers of fills.
CONSTANTS
  c1 = c1
  c2 = c2
  c3 = c3
  t1 = t1
  t2 = t2
  t3 = t3
  Commands = {c1, c2}
  Tickets = {t1, t2, t3}
  Kinds = {"start", "complete", "cancel", "ticket", "settle", "auto-exit", "auto-cycle"}
  Pnls <- Results
  InitialBalance = 2
  MinimumDays = 1
  PositionScanLimit = 1
  PendingScanLimit = 3
  MaxClock = 1
  Toggles = TRUE
SPECIFICATION MCSpec
SYMMETRY Symmetry
INVARIANTS
  IInv
  OneActiveInSight
PROPERTIES
  AccountImplemented
  LateWritesWereChecked
