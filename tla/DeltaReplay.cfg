SPECIFICATION ApiSpec
CONSTANTS
  M = 2
  EfConstruction = 2
  MaxLevel = 1
  Coordinates <- MCCoordinates
  Writers = {"user", "bg"}
  Labels = {1}
  Batches <- MCBatches
  Capacities = {2}
  MaxLives = 2
  MaxCalls = 2
CHECK_DEADLOCK FALSE
INVARIANTS
  SavedComesBack
