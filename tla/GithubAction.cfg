SPECIFICATION Spec
CONSTANTS
  Task = {t1}
  MaxAttempts = 3
  Body = {b1, b2}
  Snapshot = {s1, s2}
  AllowAutomaticUpdates = TRUE
  SettlementCovers = TRUE
  Tampering = TRUE
  Edited = Edited
  Unmarked = Unmarked
  None = None
SYMMETRY Symmetry
CHECK_DEADLOCK FALSE
INVARIANTS
  TypeOK
  RowConstraints
  AtMostOneComment
  CreateIsAlone
  SuccessIsCurrent
  SuccessIsShown
PROPERTIES
  BoundForGood
