SPECIFICATION Spec
CONSTANTS
  Analysis = {a1, a2}
  Leaves = 1
  Citing = {0}
  FanIn = 2
  Concurrency = 1
  None = None
  MaxFaults = 0
  MaxRestarts = 0
INVARIANT EvidenceIsKept
CHECK_DEADLOCK FALSE
