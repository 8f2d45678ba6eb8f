SPECIFICATION Spec
CONSTANTS
  Task = {t1, t2, t3}
  MaxAttempts = 1
  Body = {b1}
  Snapshot = {s1}
  AllowAutomaticUpdates = FALSE
  SettlementCovers = TRUE
  Tampering = FALSE
  Edited = Edited
  Unmarked = Unmarked
  None = None
SYMMETRY Symmetry
CHECK_DEADLOCK FALSE
INVARIANT
  AtMostOneComment
