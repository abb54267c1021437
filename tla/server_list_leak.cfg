SPECIFICATION FairSpec
CONSTANTS
  Workers = {w1, w2}
  Main = main
  NoThread = noThread
  EventIds = {1, 2}
  Dims <- OneByTwo
  Requests <- PairRequests
  Preloaded <- EmptyList
  MaxCalls = 1
  MallocFails = FALSE
PROPERTIES CreateReturns
CHECK_DEADLOCK FALSE
