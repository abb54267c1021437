SPECIFICATION Spec
CONSTANTS
  Workers = {w1, w2}
  Main = main
  NoThread = noThread
  EventIds = {1, 2}
  Dims <- OneByTwo
  Requests <- PairRequests
  Preloaded <- OneEvent
  MaxCalls = 2
  MallocFails = FALSE
INVARIANTS ShowIsOneMoment
SYMMETRY WorkerSymmetry
CHECK_DEADLOCK FALSE
