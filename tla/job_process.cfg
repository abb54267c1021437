SPECIFICATION FairProcess
CONSTANTS
  MaxThreads = 2
  StoreCommands <- AnyStoreCommand
  JobFiles <- AllFiles
  MallocFails = FALSE
  EventIds = {1}
INVARIANTS BarriersGiveFileOrder OneReserveSucceeds
PROPERTIES ImplementsParts JobEnds
