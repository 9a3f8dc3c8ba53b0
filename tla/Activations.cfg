SPECIFICATION LiveSpec
CONSTANTS
  Activation = {1}
  Conversation = {{1}}
  Revocable = {1}
  LongReply = {1}
  OffPage = {}
  MaxAttempts = 2
  NoActivation = NoActivation
  MaxFaults = 2
  MaxRestarts = 1
  MaxHumanTurns = 1
INVARIANTS TypeOK AnsweredOnce
PROPERTIES EveryActivationSettles ImplementsRootTurn
CHECK_DEADLOCK FALSE
