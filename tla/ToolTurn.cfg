SPECIFICATION MCSpec
CONSTANTS
  r1 = r1
  r2 = r2
  r3 = r3
  t1 = t1
  t2 = t2
  s1 = s1
  s2 = s2
  NoScope = NoScope
  Requests = {r1, r2, r3}
  Turns = {t1, t2}
  Scopes = {s1, s2}
  TurnOf <- MCTurnOf
  ScopeOf <- MCScopeOf
  Covers <- MCCovers
  MaxGeneration = 2
  CallIds = {a, b}
  NoId = NoId
  Indexes = {0, 1}
  MaxToolTurns = 2
  Window = 1
  MaxFrames = 3
  MaxPrinted = 1
SYMMETRY CallSymmetry
INVARIANTS
  RulesAreOfThisContext
  AllowNeedsConsent
  HonouredRulesStay
  DismissalIsComing
  
CHECK_DEADLOCK FALSE
