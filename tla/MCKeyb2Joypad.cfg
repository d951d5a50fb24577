CONSTANTS
  Files <- MCFiles
  Bindings <- MCBindings
  MaxLines = 5
  BUCKETS = 2
  SLOTS = 2
  MaxOffset = 65535
  MaxMapCount = 255
  COMMON_ACTIONS <- MCCommon
  FP <- MCFP
  MaxGames = 3

SPECIFICATION PipelineSpec

INVARIANTS
  TypeOK
  WellFormedFileRead
  TitlesIdentified


\* Every file is emitted or rejected: the program stops.
CHECK_DEADLOCK FALSE
