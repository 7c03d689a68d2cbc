SPECIFICATION StorageSpec
CONSTANTS
  Levels = 2
  MaxChunks = 2
  MaxOpens = 2
  Values = {v1}
  Zero = Zero
  MaxCount = 3
  MaxPins = 2
  M = 2
  EfConstruction = 2
  MaxLevel = 1
  Coordinates <- MCCoordinates
  Writers = {"user", "bg"}
  Labels = {1}
  Batches <- MCBatches
  Capacities = {2, 4}
  MaxLives = 2
  MaxCalls = 2
  CellCount = 3
  Candidates <- ChainedPairs
  Queries = {q1, q2}
  Externals = {x1}
  LargestClass = 3
  Configs <- MergeConfigs
  None = None
CHECK_DEADLOCK FALSE
INVARIANTS
  NoSlotGivenTwice
  ChunksReadBack
  NextChunkIsPristine
  ListsStayAllocated
  ConsolidatedIsIndexed
  QuietSaveComesBack
  VectorsWhereSnapshotSays
  FinalIsCurrent
PROPERTIES
  MergesPersist
