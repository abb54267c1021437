SPECIFICATION FairSpec
CONSTANTS
  c1 = c1
  c2 = c2
  c3 = c3
  Clients = {c1, c2, c3}
  Workers = {w1, w2}
  NULL = null
  Scripts <- JobScripts
  NoFile = nofile
  RespRoom = 2
  MaxFaults = 1
INVARIANTS TypeOK AnswersAreWhole
PROPERTIES ImplementsConversation CallsAreAnswered ClientsFinish
CHECK_DEADLOCK FALSE
