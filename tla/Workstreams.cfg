SPECIFICATION Spec
CONSTANTS
  Workstream = {w1, w2}
  Task = {t1, t2}
  Job = {j1, j2}
  Decision = {d1}
  Question = {q1}
  Call = {c1}
  Nothing = Nothing
  MaxRecords = 6
SYMMETRY Symmetry
INVARIANTS TypeOK JournalTellsState AppliedAsSeen  TaskFollowsJob
CHECK_DEADLOCK FALSE
