SPECIFICATION FairSpec
CONSTANTS
  Workers = {w1, w2}
  Main = main
  NoThread = noThread
  EventIds = {1}
  Dims <- OneByTwo
  Requests <- PairRequests
  Preloaded <- OneEvent
  MaxCalls = 2
  MallocFails = FALSE
PROPERTIES CallsReturn
