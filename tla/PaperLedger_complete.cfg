\* A completion that races with an entry.
CONSTANTS
  c1 = c1
  c2 = c2
  c3 = c3
  t1 = t1
  t2 = t2
  t3 = t3
  Commands = {c1, c2}
  Tickets = {t1}
  Kinds = {"complete", "enter"}
  Pnls <- Gain
  InitialBalance = 1
  MinimumDays = 1
  PositionScanLimit = 1
  PendingScanLimit = 1
  MaxClock = 2
  Toggles = FALSE
SPECIFICATION Spec
SYMMETRY Symmetry
INVARIANTS
  CompletedIsSettled
