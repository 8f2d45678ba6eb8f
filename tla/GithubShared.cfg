SPECIFICATION Spec
CONSTANTS
  Task = {t1, t2}
  MaxAttempts = 1
  Body = {b1, b2}
  Snapshot = {s1}
  AllowAutomaticUpdates = TRUE
  SettlementCovers = FALSE
  Tampering = TRUE
  Edited = Edited
  Unmarked = Unmarked
  None = None
SYMMETRY Symmetry
CHECK_DEADLOCK FALSE
INVARIANT
  RowConstraints
PROPERTY
  ParkedForGood
