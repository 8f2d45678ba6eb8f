SPECIFICATION Spec
CONSTANTS
  Task = {t1, t2}
  MaxAttempts = 2
  Evidence = {v1, v2}
  None = None
SYMMETRY Symmetry
CHECK_DEADLOCK FALSE
INVARIANTS
  TypeOK
  RowConstraints
  AtMostOnePost
  TruthfulRow
PROPERTIES
  ClosedForGood
  ImplementsNotification
