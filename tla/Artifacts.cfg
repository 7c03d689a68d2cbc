SPECIFICATION CachedSpec
CONSTANTS
  SectorLen = 40
  CoordBytes = 4
  FloatBytes = 4
  IdBytes = 4
  PageBytes = 16
  ChunkClasses <- MCChunkClasses
  PositionLimit = 3
  HintFanout = 2
  MaxU8 = 8
  Bases <- MCBases
  Sidecars <- MCSidecars
  RcniRows <- MCRcniRows
  BuildRequests <- MCBuildRequests
  LoadRequests <- MCLoadRequests
  CellTarget = 2
  CellSamples = 2
  CellDegree = 1
  Replacements <- MCReplacements
  InitialFiles <- MCInitialFiles
  MaxJobs = 2
  MaxRebuilds = 1
  MaxCrashes = 1
  BaseSets <- MCBaseSets
  BuildParams <- MCBuildParams
  Graphs <- MCGraphs
  Closest <- MCClosest
  Orders <- MCOrders
  Samples <- MCSamples
  MaxTraining = 4
  MaxPqChunks = 4
  MaxGraphDegree = 3
  CacheShare = 2
  CacheRequest = 3
  MaxParts = 5
  MaxDiskBuilds = 2
  MaxKills = 1
  Unit = 288
  ByteTop = 3
  NumCenters = 2
  KMeansReps = 3
  PqCases <- MCPqCases
  t1 = t1
  t2 = t2
  f1 = f1
  f2 = f2
  Threads = {t1, t2}
  Pages = {1, 2, 3}
  Frames = {f1, f2}
  Capacities = {1, 2}
  AccessUsed = {"DEMAND", "PREFETCH", "GATEWAY_PREFETCH"}
  MaxHeld = 2
  MaxBatch = 2
  NoThread = NoThread
  NoFrame = NoFrame
  NoPage = NoPage
SYMMETRY Symmetry
INVARIANTS
  FramesHaveOneUse
  PinsMatchHolders
  ReservedPageStays
  SleepersHaveLoads
  PrefetchEvictionBounded
  LoadedIndexDescribesBase
  CompletedBuildLoads
  CellPagesHoldTheirCell
  CompletedDiskBuildLoads
  MergedListsAreUnions
  OwnCodeIsNearest

CHECK_DEADLOCK FALSE
