SPECIFICATION FairSpec
CONSTANTS
  Task = {t1}
  Worker = {w1}
  MaxAttempts = 2
  NoTask = NoTask
  NoWorker = NoWorker
  Supervised = {w1}
PROPERTIES
  EventuallyTerminal
  CancellationServed
