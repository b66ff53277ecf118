---------------------------- MODULE MCBlockingJobs ----------------------------
(* Tool calls that block, for TLC: the file tools, which run in threads of   *)
(* their own, and a shell command.  They share no state, so a behaviour runs *)
(* one of them and the other stays where it starts, where nothing of it is   *)
(* enabled that fairness asks for.                                           *)
EXTENDS WorkspaceFiles, BashCommand

VARIABLE part

MCInit ==
  /\ part \in {"files", "bash"}
  /\ FilesInit /\ BashInit
  /\ part # "files" => file = Absent
  /\ part # "bash" => ~request.timeout

MCNext ==
  /\ UNCHANGED part
  /\ \/ part = "files" /\ FilesNext /\ UNCHANGED bashVars
     \/ part = "bash" /\ BashNext /\ UNCHANGED fileVars

MCSpec == MCInit /\ [][MCNext]_<<part, fileVars, bashVars>> /\ FilesFairness /\ BashFairness
=============================================================================
