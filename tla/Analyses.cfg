SPECIFICATION LiveSpec
CONSTANTS
  Analysis = {a1}
  Leaves = 2
  Citing = {0}
  FanIn = 2
  Concurrency = 2
  None = None
  MaxFaults = 2
  MaxRestarts = 1
INVARIANTS TypeOK AnswerIsWhole
PROPERTIES EveryAnalysisEnds
CHECK_DEADLOCK FALSE
