---------------------------- MODULE MCCoordinator ----------------------------
(* Instances of Coordinator for TLC: every constant is given by the .cfg.   *)
EXTENDS Coordinator
=============================================================================
