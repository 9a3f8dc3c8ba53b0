SPECIFICATION Spec
CONSTANTS
  m1 = m1
  m2 = m2
  m3 = m3
  c1 = c1
  c2 = c2
  u1 = u1
  u2 = u2
  Handler = {h1, h2}
  Main = Main
  Message = {m1, m2, m3}
  Call = {w1, w2}
  User = {u1, u2}
  NoMessage = NoMessage
  NoCall = NoCall
  NoUser = NoUser
  NoConversation = NoConversation
  ConversationOf <- MCConversationOf
  AuthorOf <- MCAuthorOf
  MaxConcurrent = 2
  MaxStarts = 2
SYMMETRY Symmetry
INVARIANTS TypeOK DecidedOnce OneDriver PostedOnce
CHECK_DEADLOCK FALSE
