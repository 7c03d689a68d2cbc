SPECIFICATION Spec
CONSTANTS
  CellCount = 2
  Candidates <- OnePair
  Queries = {q1}
  Externals = {}
  LargestClass = 2
  Configs <- DrainConfigs
  None = None
CHECK_DEADLOCK FALSE
PROPERTIES
  DrainReturns
