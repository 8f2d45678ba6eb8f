SPECIFICATION Spec
CONSTANTS
  Task = {t1}
  MaxAttempts = 3
  Body = {b1, b2}
  Snapshot = {s1}
  AllowAutomaticUpdates = TRUE
  SettlementCovers = TRUE
  Tampering = FALSE
  Edited = Edited
  Unmarked = Unmarked
  None = None
SYMMETRY Symmetry
CHECK_DEADLOCK FALSE
INVARIANT
  WritesDoNotOverlap
