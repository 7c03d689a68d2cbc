CONSTANTS
  t1 = t1
  t2 = t2
  f1 = f1
  f2 = f2
  Threads = {t1}
  Pages = {1, 2, 3}
  Frames = {f1, f2}
  Capacities = {1, 2}
  AccessUsed = {"DEMAND"}
  MaxHeld = 4
  MaxBatch = 2
  NoThread = NoThread
  NoFrame = NoFrame
  NoPage = NoPage
  Options <- PrefetchAndCells
SPECIFICATION QuerySpec
CHECK_DEADLOCK FALSE
PROPERTY
  QueriesEnd
