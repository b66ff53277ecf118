SPECIFICATION MCSpec
CONSTANTS
  Callers = {actor, worker}
  Nobody = Nobody
  MaxCalls = 2
  MaxWriteFailures = 2
  MaxCrashes = 1
  MaxEvictions = 1
  MaxDrops = 1
  TornWrites = FALSE
  MaxRequests = 3
  MaxCancels = 2
INVARIANTS
  LoadedIsLatest
  AnswerIsComing
  AnsweredOnce
PROPERTIES
  ImplementsLog
  EveryCallReturns
  LoadingEnds
CHECK_DEADLOCK FALSE
