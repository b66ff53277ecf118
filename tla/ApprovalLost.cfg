SPECIFICATION ApprovalSpec
CONSTANT
  StoreMayFail = TRUE
INVARIANT
  WaitingTurnHasItsPanel
