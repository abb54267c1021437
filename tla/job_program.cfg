SPECIFICATION FairSpec
CONSTANTS
  Directories <- AllDirectories
  JobsFiles <- AllJobsFiles
  Texts <- AllTexts
  Keywords <- ShortKeywords
  UIntMax = 15
  MaxCoords = 3
  MaxProc = 2
  MaxForkFails = 2
  MaxChildFails = 1
INVARIANTS PoolTypeOK ChildrenBounded FewFailuresSkipNothing ParentWaits ReadsStartAtLines LinesAreCommands EveryFileIsRead
PROPERTIES ProgramEnds
