SPECIFICATION Spec
CONSTANTS
  Task = {t1}
  MaxAttempts = 2
  Body = {b1}
  Snapshot = {s1}
  AllowAutomaticUpdates = FALSE
  SettlementCovers = TRUE
  Tampering = FALSE
  Edited = Edited
  Unmarked = Unmarked
  None = None
SYMMETRY Symmetry
CHECK_DEADLOCK FALSE
INVARIANT
  ReplacementProceeds
