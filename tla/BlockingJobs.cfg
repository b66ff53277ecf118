SPECIFICATION MCSpec
CONSTANTS
  Turns = {t1, t2}
  Lines = {a}
  NoFile = NoFile
  RacingUser = FALSE
  MaxCalls = 3
  MaxSaves = 2
  MaxOutput = 1
  MaxChunks = 4
INVARIANTS
  NothingUnseenIsOverwritten
  ApprovedIsWhatHappens
  CommandOutcomeIsTrue
PROPERTIES
  WaitEnds
  CommandEnds
CHECK_DEADLOCK FALSE
