SPECIFICATION MCSpec
CONSTANTS
  MaxTurns = 2
  MaxCommands = 2
  MaxFailures = 1
  MaxPanics = 1
  Kinds = {"list", "resume", "switch", "rewind", "truncate"}
  Users = {"waits", "hurries"}
  Skills <- MCOneSkill
  GlobalSkills <- MCGlobalSkills
  Tools <- MCTools
  Projects = {p1, p2}
  Gestures = {"toggle", "move", "prompts", "skills", "tools", "bodies"}
  MaxEdits = 2
  MaxFailedSaves = 1
INVARIANTS
  PromptIsTrue
  GesturesAreLocal
  
PROPERTIES
  ScopesKeepApart
  LockOutEnds
  AnswersFindWhoAsked
CHECK_DEADLOCK FALSE
