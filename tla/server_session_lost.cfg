SPECIFICATION FairSpec
CONSTANTS
  c1 = c1
  c2 = c2
  c3 = c3
  Clients = {c1, c2, c3}
  Workers = {w1, w2}
  NULL = null
  Scripts <- LeaverScripts
  NoFile = nofile
  RespRoom = 2
  MaxFaults = 0
PROPERTIES ThreadsComeBack
CHECK_DEADLOCK FALSE
