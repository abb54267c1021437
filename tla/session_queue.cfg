SPECIFICATION FairSpec
CONSTANTS
  Clients = {c1, c2, c3}
  Strays = {s1}
  Workers = {w1, w2}
  Main = main
  NULL = null
  MaxClientsWaiting = 1
  PipeRoom = 1
  MaxSignals = 1
  MaxSpurious = 1
  MallocFails = TRUE
INVARIANTS TypeOK NoLostWakeup ListEndsAtTail
PROPERTIES ImplementsLine ClientIsServed
CHECK_DEADLOCK FALSE
