SPECIFICATION Spec
CONSTANTS
  Claim = {c1, c2, c3}
  Pref = {p1}
  Subject = {s1, s2}
  Event = {e1, e2, e3}
  Copies = {"lexical", "vector", "bundle", "none"}
  VectorBatch = 2
  MaxAttempts = 2
  MaxRetries = 0
  MaxClaims = 3
  MaxCommands <- FewCommands
  MaxGeneration = 3
  MaxTriggers = 2
  MaxRestarts = 1
  None = None
SYMMETRY Symmetry
INVARIANTS TypeOK TakesEffectOnce CopiesTellTruth
CHECK_DEADLOCK FALSE
