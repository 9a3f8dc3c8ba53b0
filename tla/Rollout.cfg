SPECIFICATION Spec
CONSTANTS
  Jobs = {1, 2}
  Facts = {f}
  Docs = {d}
  Refs = {r}
  Process = {p1, p2}
  NoDatabase = NoDatabase
  Missing = Missing
  Partial = Partial
  None = None
  Found <- MCFound
  Times = {1, 2}
  StepsBack = FALSE
  MaxFaults = 1
  MaxCrashes = 1
  MaxWrites = 1
  MaxRemovals = 1
SYMMETRY Symmetry
INVARIANTS TypeOK DatabaseClassifies BackedUp UpgradedDataIsWhole
PROPERTIES ServedAlone
CHECK_DEADLOCK FALSE
