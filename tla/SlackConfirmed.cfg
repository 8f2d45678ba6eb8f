SPECIFICATION Spec
CONSTANTS
  Task = {t1, t2}
  MaxAttempts = 1
  Evidence = {v1}
  None = None
SYMMETRY Symmetry
CHECK_DEADLOCK FALSE
INVARIANTS
  ConfirmedIsRecorded
