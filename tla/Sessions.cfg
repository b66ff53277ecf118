SPECIFICATION MCSpec
CONSTANTS
  MaxTurns = 2
  MaxItems = 0
  MaxBatch = 1
  MaxRetries = 1
  Capacity = 2
  MaxFailures = 1
  MaxPanics = 1
  MaxResets = 1
  Callers = {actor, worker}
  Nobody = Nobody
  MaxCalls = 3
  MaxWriteFailures = 2
  MaxCrashes = 1
  MaxEvictions = 0
  MaxDrops = 0
  TornWrites = TRUE
  Calls = {1, 2}
  MaxEntries = 8
  Paths = {1, 2}
  Foreign = 9
  MaxStamp = 3
  MaxFaults = 2
  MaxRepairs = 2
SYMMETRY CallerSymmetry
INVARIANTS
  HistoryIsStored
  AckedIsReloaded
  ViewAndFileAreOneLog
  TreeIsTrue
  IndexIsTrue
CHECK_DEADLOCK FALSE
