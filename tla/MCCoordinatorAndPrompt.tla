------------------------ MODULE MCCoordinatorAndPrompt ------------------------
(* The coordinator for TLC, and the commands for the system prompt, which it *)
(* answers by itself.  They share no state, so a behaviour runs one of them  *)
(* and the other stays where it starts, where nothing of it is enabled that  *)
(* fairness asks for.  The prompt is edited by one process with every gesture*)
(* there is, or by two that write prompts of their own.                      *)
EXTENDS Coordinator, MCPromptEdit

VARIABLE part

Two == INSTANCE PromptEdit WITH Gestures <- {"prompts"}

EditNext == IF processes = Projects THEN Two!PromptNext ELSE PromptNext

OneProcess == {CHOOSE p \in Projects : TRUE}

MCInit ==
  /\ part \in {"coordinator", "prompt"}
  /\ Init /\ PromptInit
  /\ processes \in (IF part = "prompt" THEN {OneProcess, Projects} ELSE {{}})
  /\ part # "coordinator" => user = "waits"

MCNext ==
  /\ UNCHANGED part
  /\ \/ part = "coordinator" /\ Next /\ UNCHANGED promptVars
     \/ part = "prompt" /\ EditNext /\ UNCHANGED vars

MCSpec == MCInit /\ [][MCNext]_<<part, vars, promptVars>> /\ CoordinatorFairness
=============================================================================
