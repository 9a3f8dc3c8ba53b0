SPECIFICATION SummariesSpec
CONSTANTS
  ToolCall = {c1}
  RecentTurns = 1
  MaxSourceTurns = 2
  MaxAttempts = 2
  MaxEvents = 8
  Floor = 20
  MaxFaults = 1
  MaxRestarts = 1
INVARIANTS SummariesTypeOK SummaryIsFaithful RequestIsKept
PROPERTY CatchesUp
CHECK_DEADLOCK FALSE
