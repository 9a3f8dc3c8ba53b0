SPECIFICATION Spec
CONSTANTS
  Jobs = {1}
  Linked = {}
  Workers = {w1, w2}
  NoWorker = NoWorker
  MaxAttempts = 2
  MaxReconciles = 0
  MaxFaults = 0
  LateWrites = TRUE
INVARIANTS UncertainWasNotRetried
CHECK_DEADLOCK FALSE
