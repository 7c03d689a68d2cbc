SPECIFICATION ArtifactsSpec
CONSTANTS
  SectorLen = 40
  CoordBytes = 4
  FloatBytes = 4
  IdBytes = 4
  PageBytes = 16
  ChunkClasses <- MCChunkClasses
  PositionLimit = 3
  HintFanout = 2
  MaxU8 = 8
  Bases <- MCBases
  Sidecars <- MCSidecars
  RcniRows <- MCRcniRows
  BuildRequests <- MCBuildRequests
  LoadRequests <- MCLoadRequests
  CellTarget = 2
  CellSamples = 2
  CellDegree = 1
  Replacements <- MCReplacements
  InitialFiles <- MCInitialFiles
  MaxJobs = 2
  MaxRebuilds = 1
  MaxCrashes = 1
  BaseSets <- MCBaseSets
  BuildParams <- MCBuildParams
  Graphs <- MCGraphs
  Closest <- MCClosest
  Orders <- MCOrders
  Samples <- MCSamples
  MaxTraining = 4
  MaxPqChunks = 4
  MaxGraphDegree = 3
  CacheShare = 2
  CacheRequest = 3
  MaxParts = 5
  MaxDiskBuilds = 2
  MaxKills = 1
  Unit = 288
  ByteTop = 3
  NumCenters = 2
  KMeansReps = 3
  PqCases <- MCPqCases
INVARIANT LabelsReachIndex
CHECK_DEADLOCK FALSE
