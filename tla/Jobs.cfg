SPECIFICATION Spec
CONSTANTS
  Jobs = {1}
  Linked = {1}
  Workers = {w1}
  NoWorker = NoWorker
  MaxAttempts = 2
  MaxReconciles = 1
  MaxFaults = 2
  LateWrites = FALSE
CHECK_DEADLOCK FALSE
INVARIANTS TypeOK OutcomeIsFiled   AutoResumeOnlyOnce
PROPERTY NoStaleWrite
