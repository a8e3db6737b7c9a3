\* Cycles with a scan of one position.
CONSTANTS
  c1 = c1
  c2 = c2
  c3 = c3
  t1 = t1
  t2 = t2
  t3 = t3
  Commands = {c1}
  Tickets = {t1, t2, t3}
  Kinds = {"auto-cycle"}
  Pnls <- Gain
  InitialBalance = 1
  MinimumDays = 1
  PositionScanLimit = 1
  PendingScanLimit = 3
  MaxClock = 1
  Toggles = FALSE
SPECIFICATION Spec
SYMMETRY Symmetry
INVARIANTS
  OneActivePosition
