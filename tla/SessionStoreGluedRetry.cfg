SPECIFICATION StoreSpec
CONSTANTS
  Callers = {actor, worker}
  Nobody = Nobody
  MaxCalls = 2
  MaxWriteFailures = 1
  MaxCrashes = 0
  MaxEvictions = 0
  MaxDrops = 0
  TornWrites = TRUE
INVARIANT
  RecoveredEntriesAreStored
CHECK_DEADLOCK FALSE
