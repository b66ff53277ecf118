SPECIFICATION Spec
CONSTANTS
  MaxTurns = 2
  MaxCommands = 1
  MaxFailures = 0
  MaxPanics = 0
  Kinds = {"truncate"}
  Users = {"hurries"}
INVARIANTS
  HistoryIsTheStoredPath
CHECK_DEADLOCK FALSE
