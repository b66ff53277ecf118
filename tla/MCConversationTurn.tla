------------------------- MODULE MCConversationTurn -------------------------
(* Instances of ConversationTurn for TLC.  Turns are numbered in the order  *)
(* they are submitted, so there is no symmetry to use.                      *)
EXTENDS ConversationTurn
=============================================================================
