SPECIFICATION DriverSpec
CONSTANTS
  NodeCell <- MCNodeCell
  NodeBlock <- MCNodeBlock
  BlockCell <- MCBlockCell
  CellCommunity <- MCCellCommunity
  GraphOnly = {}
  Superedges <- MCSuperedges
  Hubs <- MCHubs
  Entry = 0
  NodeAt <- MCNodeAt
  CellAt <- MCCellAt
  CommunityAt <- MCCommunityAt
  CommunityRadius <- MCCommunityRadius
  RouteProfile <- MCRouteProfile
  Adjacency <- MCAdjacency
  PqAt <- MCPqAt
  NodePage <- MCNodePage
  CachedNodes = {5}
  Medoids <- MCMedoids
  CellNeighbors <- MCCellNeighbors
  MemgraphDegree = 2
  MemgraphScores = 4
  Requests <- MCRequests
  MaxQueries = 2
  IoLimit = 5
  Calls <- MCCalls
  MaxCalls = 2
  Supported <- MCSupported
  Switches <- MCSwitches
  Call <- MCCall
  TriedSizes <- MCTriedSizes
  Reads <- MCReads
  TruthQueries = 3
  TruthDepth = 3
  CellRanges <- MCCellRanges
  CellBound = 5
  VectorFile <- MCVectorFile
  Sidecar <- MCSidecar
  LoadedIndex <- MCLoadedIndex
  NodeDegree <- MCNodeDegree
  NodeKey <- MCNodeKey
  RcniRows <- MCRcniRows
INVARIANTS
  QueryStartsFresh ExactRoutingFindsNearest GraphGuardHolds
  AcceptedOptionsLoad PointsAsAlone SavedFilesAreWhole
PROPERTIES
  QueryEnds
