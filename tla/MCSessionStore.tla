--------------------------- MODULE MCSessionStore ---------------------------
(* Instances of SessionStore for TLC.  The callers are interchangeable: no   *)
(* action or safety property names one of them, so permuting them is a       *)
(* symmetry of the safety runs; the liveness run does without it.            *)
EXTENDS SessionStore, TLC

CallerSymmetry == Permutations(Callers)
=============================================================================
