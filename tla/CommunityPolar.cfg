SPECIFICATION Spec
CONSTANTS
  NodeCount = 5
  CommunityCount = 2
  Workers = 2
  Inputs <- MCInputs
  Configs <- MCConfigs
  Selections <- MCSelections
  Profiles <- MCProfiles
  RepackConfigs <- MCRepackConfigs
  LocalityCells <- MCLocalityCells
  Requests <- MCRequests
  Selected <- MCSelected
  Widths = {8, 16}
  MaxGenerations = 1
  MaxJobs = 2
INVARIANTS
  GatewaysAsFullSort BuiltIndexIsValid SearchedSidecarFits
CHECK_DEADLOCK FALSE
