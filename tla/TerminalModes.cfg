SPECIFICATION TerminalSpec
CONSTANTS
  MaxFaults = 0
  MaxEditors = 1
INVARIANTS
  EveryFrameHasItsMouseMode
CHECK_DEADLOCK FALSE
