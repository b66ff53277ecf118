------------------------- MODULE MCPermissionBroker -------------------------
(* Instances of PermissionBroker for TLC.  r1 and r2 belong to different     *)
(* turns, each may leave a rule of its own, and either rule may decide r2;   *)
(* r3 is a call that cannot be remembered (relative scope unknown).          *)
EXTENDS PermissionBroker, TLC

CONSTANTS r1, r2, r3, t1, t2, s1, s2

MCTurnOf  == [r \in Requests |-> IF r = r1 THEN t1 ELSE t2]
MCScopeOf == [r \in Requests |-> CASE r = r1 -> s1 [] r = r2 -> s2 [] OTHER -> NoScope]
MCCovers  == [s \in Scopes |-> Requests \cap (IF s = s1 THEN {r1, r2} ELSE {r2, r3})]
=============================================================================
