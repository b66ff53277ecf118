SPECIFICATION Spec
CONSTANTS
  MaxTurns = 1
  MaxItems = 1
  MaxBatch = 2
  MaxRetries = 1
  Capacity = 4
  MaxFailures = 0
  MaxPanics = 0
  MaxResets = 0
INVARIANTS
  SentMessageIsKept
CHECK_DEADLOCK FALSE
