SPECIFICATION Spec
CONSTANTS
  Task = {t1}
  Worker = {w1, w2}
  MaxAttempts = 2
  NoTask = NoTask
  NoWorker = NoWorker
  Supervised = {w1, w2}
SYMMETRY Symmetry
INVARIANTS
  TypeOK
  TableConstraints
  AttemptLedger
  RetryBudget
  OneHandlerPerProcess
  RunnerState
PROPERTIES
  AttemptsAppendOnly
  OutcomesAgree
  ImplementsContract
  ImplementsFence
