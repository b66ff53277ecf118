SPECIFICATION MCSpec
CONSTANTS
  Producers = {p1, p2}
  Input = input
  Capacity = 2
  MaxPending = 1
  MaxBurst = 2
  MaxKeys = 2
  MaxFaults = 2
  MaxEditors = 2
  QueueCapacity = 2
  MaxCopies = 4
  StoreMayFail = FALSE
INVARIANTS
  WakeIsNotLost
  KeysInOrder
  EditorOwnsTheTerminal
  TerminalIsAsPromised
  CopiesAreAnswered
  ApprovalsAreTold
PROPERTIES
  WakesAreServed
  CommandsReturn
  PillFollowsTheRequest
