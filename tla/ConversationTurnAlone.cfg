SPECIFICATION Spec
CONSTANTS
  MaxTurns = 1
  MaxItems = 3
  MaxBatch = 2
  MaxRetries = 1
  Capacity = 3
  MaxFailures = 1
  MaxPanics = 1
  MaxResets = 1
INVARIANTS
  CallsAreAnsweredOnce
  VerdictIsTrue
  NothingOutlivesItsTurn
PROPERTIES
  CancelledTurnEnds
CHECK_DEADLOCK FALSE
