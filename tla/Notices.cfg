SPECIFICATION LiveSpec
CONSTANTS
  Job = {j1}
  Kinds <- MCKinds
  Parts = 2
  ReconcileMaxAttempts = 2
  Threaded = TRUE
  Page = 2
  NoNotice = NoNotice
  MaxFaults = 1
  MaxRestarts = 1
INVARIANTS TypeOK PostedOnceInOrder OutcomeIsTrue
PROPERTY EveryJobIsHeard
CHECK_DEADLOCK FALSE
