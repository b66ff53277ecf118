------------------------------ MODULE MCSessions ------------------------------
(* What is stored of a conversation and how it is found again, for TLC: two  *)
(* overlapping turns, the store with writes that may tear a line, the session*)
(* tree and the session index.  The modules share no state, so a behaviour   *)
(* runs one of them and the others stay where they start.                    *)
EXTENDS ConversationTurn, MCSessionStore, SessionTree, SessionIndex

VARIABLE part

MCInit ==
  /\ part \in {"turns", "store", "tree", "index"}
  /\ Init /\ StoreInit /\ TreeInit /\ IndexInit

MCNext ==
  /\ UNCHANGED part
  /\ \/ part = "turns" /\ Next /\ UNCHANGED <<storeVars, treeVars, indexVars>>
     \/ part = "store" /\ StoreNext /\ UNCHANGED <<vars, treeVars, indexVars>>
     \/ part = "tree" /\ TreeNext /\ UNCHANGED <<vars, storeVars, indexVars>>
     \/ part = "index" /\ IndexNext /\ UNCHANGED <<vars, storeVars, treeVars>>

MCSpec == MCInit /\ [][MCNext]_<<part, vars, storeVars, treeVars, indexVars>>
=============================================================================
