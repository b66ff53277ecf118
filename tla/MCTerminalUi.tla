----------------------------- MODULE MCTerminalUi -----------------------------
(* The UI thread's surroundings for TLC: the event pump, the terminal's      *)
(* modes, the clipboard and the approvals on the screen.  They share no      *)
(* state, so a behaviour runs one of them and the others stay where they     *)
(* start; fairness is the pump's, whose part alone has liveness to check.    *)
(* The others may come to their end, the pump may not stop.                  *)
EXTENDS LoopEventPump, TerminalLifecycle, ClipboardWorker, ApprovalPanel

VARIABLE part

MCInit ==
  /\ Init /\ TerminalInit /\ ClipboardInit /\ ApprovalInit
  /\ part \in {"pump", "terminal", "clipboard", "approval"}
  /\ part # "approval" => screen.roomy

MCNext ==
  /\ UNCHANGED part
  /\ \/ part = "pump" /\ Next /\ UNCHANGED <<terminalVars, clipboardVars, approvalVars>>
     \/ part = "terminal" /\ TerminalNext /\ UNCHANGED <<vars, clipboardVars, approvalVars>>
     \/ part = "clipboard" /\ ClipboardNext /\ UNCHANGED <<vars, terminalVars, approvalVars>>
     \/ part = "approval" /\ ApprovalNext /\ UNCHANGED <<vars, terminalVars, clipboardVars>>
     \/ part # "pump" /\ UNCHANGED <<vars, terminalVars, clipboardVars, approvalVars>>

MCSpec ==
  MCInit /\ [][MCNext]_<<part, vars, terminalVars, clipboardVars, approvalVars>> /\ Fairness
=============================================================================
