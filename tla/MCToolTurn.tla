------------------------------ MODULE MCToolTurn ------------------------------
(* A turn's tools for TLC: the permission broker and the tool loop.  They    *)
(* share no state, so a behaviour runs one of them and the other stays where *)
(* it starts.  Call ids are interchangeable, broker requests are not.         *)
EXTENDS MCPermissionBroker, ToolLoop

VARIABLE part

MCInit ==
  /\ part \in {"broker", "loop"}
  /\ Init /\ LoopInit
  /\ part # "loop" => format = "chat"

MCNext ==
  /\ UNCHANGED part
  /\ \/ part = "broker" /\ Next /\ UNCHANGED loopVars
     \/ part = "loop" /\ LoopNext /\ UNCHANGED vars

CallSymmetry == Permutations(CallIds)

MCSpec == MCInit /\ [][MCNext]_<<part, vars, loopVars>>
=============================================================================
