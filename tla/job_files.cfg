SPECIFICATION FairSpec
CONSTANTS
  MaxThreads = 2
  StoreCommands <- OneStoreCommand
  JobFiles <- SomeFiles
  MaxLines = 3
  MallocFails = TRUE
INVARIANTS TypeOK BarrierOrder AllLinesRead DelaysAreKept
PROPERTIES JobEnds
