-------------------------- MODULE TerminalLifecycle --------------------------
(* What the program owes the terminal: terminal-ui/src/terminal_lifecycle.rs *)
(* with its users, the main session (runner/terminal.rs, runner/mod.rs), the *)
(* precheck's minimal session (terminal_session.rs), the external editor     *)
(* (runner/external_io.rs) and the panic hook (terminal_panic.rs).           *)
(*                                                                           *)
(* A guard method is a plan: the terminal operations it still has to perform,*)
(* one per step.  An operation may fail, and a failed write may still have   *)
(* reached the terminal ("late").  tty is what the terminal is like, owed    *)
(* the must_* flags of the guard.                                            *)
EXTENDS Naturals, Sequences, SequenceFilters

CONSTANTS MaxFaults,   \* operations that fail
          MaxEditors   \* external editors opened

ASSUME TerminalAssumption == MaxFaults \in Nat /\ MaxEditors \in Nat

VARIABLES phase,    \* what the UI thread is doing
          plan,     \* the operations still to be performed
          error,    \* the plan has recorded an error
          tty,      \* the terminal: features switched on, screens with a pushed keyboard mode
          owed,     \* TerminalLifecycleState: inverses still to be performed
          claim,    \* the guard holds the panic restore claim
          layer,    \* the top modal layer
          mode,     \* the runner's mouse_mode
          dirty,    \* render_needed
          spent,    \* [faults, editors] used so far
          failed    \* features whose inverse failed and was not repeated

terminalVars ==
  <<phase, plan, error, tty, owed, claim, layer, mode, dirty, spent, failed>>

Layers == {"none", "list", "preview"}

\* TerminalMouseMode::from_preference of modal_mouse_mode_preference: the
\* main screen captures the mouse, a list also wants alternate scroll, a
\* preview leaves the mouse to the terminal.
Preferred(l) == CASE l = "none"    -> {"mouse"}
                  [] l = "list"    -> {"mouse", "scroll"}
                  [] l = "preview" -> {"scroll"}

Do(what, f) == [do |-> what, f |-> f]
All(what, fs) == [i \in DOMAIN fs |-> Do(what, fs[i])]

\* restore_modes_collecting_error and restore_all_with, in their order; a
\* suspension shows the cursor and then restores the modes, which is the same.
Modes   == <<"keyboard", "paste", "mouse", "scroll", "alt", "raw">>
RestoreAll   == All("restore", <<"cursor">> \o Modes)
\* restore_terminal_after_panic: a state that owes everything.
RestoreAfterPanic == All("force", <<"cursor">> \o Modes)

\* activate_main_with, activate_minimal_with, then hide_cursor_with.
ActivateMain == All("on", <<"raw", "alt">>) \o <<Do("calm", "scroll")>>
                  \o All("on", <<"mouse", "paste", "keyboard">>)
ActivateMinimal == All("on", <<"raw", "alt">>)
Hide == <<Do("on", "cursor")>>

\* apply_mouse_mode_with: what must go first, then what must come.
ApplyMouseMode(wanted) ==
  All("off", Select(<<"mouse", "scroll">>, {"mouse", "scroll"} \ wanted))
    \o All("on", Select(<<"scroll", "mouse">>, wanted))

Screen(t) == IF "alt" \in t.on THEN "alt" ELSE "main"

\* What the terminal does with an operation.  The keyboard stack belongs to
\* the screen that is shown.
Handled(t, op) ==
  LET adds == op.do = "on"
  IN IF op.f = "keyboard"
     THEN [t EXCEPT !.pushed = IF adds THEN @ \cup {Screen(t)} ELSE @ \ {Screen(t)}]
     ELSE [t EXCEPT !.on = IF adds THEN @ \cup {op.f} ELSE @ \ {op.f}]

Changed(t) == t.on \cup (IF t.pushed = {} THEN {} ELSE {"keyboard"})

\* An operation is performed with a result: ok, or an error that the terminal
\* never saw (lost), or one whose bytes it did handle (late).
Perform(op, result) ==
  /\ result \in {"lost", "late"} => spent.faults < MaxFaults
  /\ spent' = IF result \in {"lost", "late"} THEN [spent EXCEPT !.faults = @ + 1] ELSE spent
  /\ tty' = IF result \in {"ok", "late"} THEN Handled(tty, op) ELSE tty

\* An error ends the plan: a failed activation restores everything by itself,
\* and in every case the session is dropped, which restores what is left.
Abort ==
  /\ plan' = (IF phase \in {"resuming", "reactivating", "activating", "prechecking"}
              THEN RestoreAll ELSE <<>>) \o RestoreAll
  /\ phase' = "ending"
  /\ error' = FALSE

Advance == plan' = Tail(plan) /\ UNCHANGED <<phase, error>>

Start(next, ops) ==
  /\ plan' = ops /\ phase' = next /\ error' = FALSE
  /\ claim' = (claim \/ ops # <<>>)

Quiet == plan = <<>>

TerminalInit ==
  /\ phase = "shell" /\ plan = <<>> /\ error = FALSE
  /\ tty = [on |-> {}, pushed |-> {}] /\ owed = {} /\ claim = FALSE
  /\ layer = "none" /\ mode = {"mouse"} /\ dirty = TRUE
  /\ spent = [faults |-> 0, editors |-> 0] /\ failed = {}

------------------------------------------------------------------------------
(* One operation of a plan *)

\* Mutant: the obligation is registered only when the operation succeeded.
RegisteredOnSuccess(f, result) == IF result = "ok" THEN owed \cup {f} ELSE owed

\* enable_*_with: an inverse that is owed means there is nothing to do;
\* otherwise it is owed before the operation is tried.  The keyboard mode is
\* best effort, and only "unsupported" means that nothing was written.
Registered(f, result) == IF result = "unsupported" THEN owed ELSE owed \cup {f}

SwitchOn ==
  /\ ~Quiet /\ Head(plan).do = "on"
  /\ LET op == Head(plan)
     IN \/ op.f \in owed /\ op.f # "cursor" /\ Advance /\ UNCHANGED <<tty, owed, spent>>
        \/ /\ op.f \notin owed \/ op.f = "cursor"
           /\ \E result \in {"ok", "lost", "late", "unsupported"} :
                /\ result = "unsupported" => op.f = "keyboard"
                /\ Perform(op, result)
                /\ owed' = Registered(op.f, result)
                /\ IF result = "ok" \/ op.f = "keyboard" THEN Advance ELSE Abort
  /\ UNCHANGED <<claim, layer, mode, dirty, failed>>

\* enforce_alternate_scroll_disabled_with, and disable_*_with of a mouse mode.
SwitchOff ==
  /\ ~Quiet /\ Head(plan).do \in {"off", "calm"}
  /\ LET op == Head(plan)
     IN \/ op.do = "off" /\ op.f \notin owed /\ Advance /\ UNCHANGED <<tty, owed, spent>>
        \/ /\ op.do = "off" => op.f \in owed
           /\ \E result \in {"ok", "lost", "late"} :
                /\ Perform(op, result)
                /\ IF result = "ok" THEN owed' = owed \ {op.f} /\ Advance
                   ELSE UNCHANGED owed /\ Abort
  /\ UNCHANGED <<claim, layer, mode, dirty, failed>>

\* One line of restore_all_with: an error is kept, the obligation too, and the
\* rest of the plan goes on.
Restore ==
  /\ ~Quiet /\ Head(plan).do = "restore"
  /\ LET op == Head(plan)
     IN \/ op.f \notin owed /\ Advance /\ UNCHANGED <<tty, owed, spent, failed>>
        \/ /\ op.f \in owed
           /\ \E result \in {"ok", "lost", "late"} :
                /\ Perform(op, result)
                /\ owed' = IF result = "ok" THEN owed \ {op.f} ELSE owed
                /\ failed' = IF result # "ok" THEN failed \cup {op.f}
                             ELSE IF op.f = "keyboard" THEN failed ELSE failed \ {op.f}
                /\ error' = (error \/ result # "ok")
           /\ plan' = Tail(plan) /\ UNCHANGED phase
  /\ UNCHANGED <<claim, layer, mode, dirty>>

\* One line of the panic hook: the guard's own obligations are not touched.
ForceRestore ==
  /\ ~Quiet /\ Head(plan).do = "force"
  /\ \E result \in {"ok", "lost", "late"} :
       /\ Perform(Head(plan), result)
       /\ failed' = IF result # "ok" THEN failed \cup {Head(plan).f} ELSE failed
  /\ Advance
  /\ UNCHANGED <<owed, claim, layer, mode, dirty>>

\* resume: terminal.clear() is the last thing that can fail.
ClearScreen ==
  /\ ~Quiet /\ Head(plan).do = "clear"
  /\ \E result \in {"ok", "lost"} :
       /\ result = "lost" => spent.faults < MaxFaults
       /\ spent' = IF result = "lost" THEN [spent EXCEPT !.faults = @ + 1] ELSE spent
       /\ IF result = "ok" THEN Advance ELSE Abort
  /\ UNCHANGED <<tty, owed, claim, layer, mode, dirty, failed>>

------------------------------------------------------------------------------
(* The end of a plan *)

\* sync_panic_restore_claim (a dropped guard drops its claim whatever it still
\* owes), then what the caller does next.  TerminalSession
\* hides the cursor after its activation; a suspension that recorded an error
\* ends the session; a mouse mode is remembered once it was applied.
After ==
  CASE phase = "activating"   -> [to |-> "hiding", ops |-> Hide]
    [] phase = "reactivating" -> [to |-> "resuming", ops |-> Hide \o <<Do("clear", "screen")>>]
    [] phase = "prechecking"  -> [to |-> "hiding-precheck", ops |-> Hide]
    [] phase = "hiding-precheck" -> [to |-> "precheck", ops |-> <<>>]
    [] phase = "suspending"   -> IF error THEN [to |-> "ending", ops |-> RestoreAll]
                                 ELSE [to |-> "editing", ops |-> <<>>]
    [] phase = "ending-precheck" -> [to |-> "between", ops |-> <<>>]
    [] phase = "panicking"    -> [to |-> "reporting", ops |-> <<>>]
    [] phase = "ending"       -> [to |-> "ended", ops |-> <<>>]
    [] OTHER                  -> [to |-> "running", ops |-> <<>>]

PlanEnds ==
  /\ Quiet
  /\ phase \in {"activating", "hiding", "prechecking", "hiding-precheck", "reactivating",
                "resuming", "applying", "suspending", "ending-precheck", "panicking", "ending"}
  /\ phase' = After.to /\ plan' = After.ops /\ error' = FALSE
  /\ claim' = (After.to \notin {"between", "ended"} /\ (owed # {} \/ After.ops # <<>>))
  /\ mode' = IF phase = "applying" THEN Preferred(layer) ELSE mode
  /\ dirty' = CASE phase = "applying" -> FALSE [] phase = "resuming" -> TRUE [] OTHER -> dirty
  /\ UNCHANGED <<tty, owed, layer, spent, failed>>

------------------------------------------------------------------------------
(* The program *)

\* MinimalTerminalSession::enter, for the precheck's screen.
EnterPrecheck ==
  /\ phase = "shell" /\ Start("prechecking", ActivateMinimal)
  /\ UNCHANGED <<tty, owed, layer, mode, dirty, spent, failed>>

\* Its Drop: show the cursor, restore the modes; then the guard's own Drop.
LeavePrecheck ==
  /\ phase = "precheck"
  /\ Start("ending-precheck", RestoreAll \o RestoreAll)
  /\ UNCHANGED <<tty, owed, layer, mode, dirty, spent, failed>>

\* TerminalSession::enter.  A new session has a new guard.
EnterMain ==
  /\ phase \in {"shell", "between"}
  /\ Start("activating", ActivateMain) /\ owed' = {}
  /\ UNCHANGED <<tty, layer, mode, dirty, spent, failed>>

\* A frame: drawn when something changed, and then the mouse mode follows the
\* layer if it differs from the one the runner remembers.
Draw ==
  /\ phase = "running" /\ dirty
  /\ IF Preferred(layer) # mode
     THEN Start("applying", ApplyMouseMode(Preferred(layer))) /\ UNCHANGED dirty
     ELSE dirty' = FALSE /\ UNCHANGED <<phase, plan, error, claim>>
  /\ UNCHANGED <<tty, owed, layer, mode, spent, failed>>

\* A key opens or closes a layer.  Keys of one burst are handled without a
\* frame between them.
Show(l) ==
  /\ phase = "running" /\ l # layer
  /\ layer' = l /\ dirty' = TRUE
  /\ UNCHANGED <<phase, plan, error, tty, owed, claim, mode, spent, failed>>

\* Ctrl-G: on the composer, or on the selected source of the prompt overlay,
\* which is a list.  suspend: the cursor, then the modes, the first error kept.
OpenEditor ==
  /\ phase = "running" /\ layer # "preview" /\ spent.editors < MaxEditors
  /\ spent' = [spent EXCEPT !.editors = @ + 1]
  /\ Start("suspending", RestoreAll)
  /\ UNCHANGED <<tty, owed, layer, mode, dirty, failed>>

\* The editor ends; resume activates the main modes again.
CloseEditor ==
  /\ phase = "editing" /\ Start("reactivating", ActivateMain)
  /\ UNCHANGED <<tty, owed, layer, mode, dirty, spent, failed>>

\* The user quits, or a `?` of the runner returns: the session is dropped.
LeaveSession ==
  /\ phase = "running" /\ Start("ending", RestoreAll)
  /\ UNCHANGED <<tty, owed, layer, mode, dirty, spent, failed>>

\* A panic of the UI thread.  The hook restores if this thread holds the claim,
\* the panic is reported, and unwinding drops the session.
UiPanics ==
  /\ phase = "running"
  /\ IF claim THEN Start("panicking", RestoreAfterPanic)
     ELSE phase' = "reporting" /\ UNCHANGED <<plan, error, claim>>
  /\ UNCHANGED <<tty, owed, layer, mode, dirty, spent, failed>>

Unwind ==
  /\ phase = "reporting" /\ Start("ending", RestoreAll)
  /\ UNCHANGED <<tty, owed, layer, mode, dirty, spent, failed>>

TerminalNext ==
  \/ SwitchOn \/ SwitchOff \/ Restore \/ ForceRestore \/ ClearScreen \/ PlanEnds
  \/ EnterPrecheck \/ LeavePrecheck \/ EnterMain
  \/ Draw \/ \E l \in Layers : Show(l)
  \/ OpenEditor \/ CloseEditor \/ LeaveSession \/ UiPanics \/ Unwind

TerminalSpec == TerminalInit /\ [][TerminalNext]_terminalVars

------------------------------------------------------------------------------
(* Properties *)

\* Whoever reads the terminal outside a session, the editor, the precheck's
\* successor, the panic report or the shell, finds it as it was, but for a
\* feature whose own inverse failed; and while a session runs, whatever it
\* changed is owed, so no way out can forget it.
TerminalIsGivenBack ==
  /\ phase \in {"editing", "between", "reporting", "ended"} => Changed(tty) \subseteq failed
  /\ Changed(tty) \subseteq owed \cup failed
  /\ (owed # {} /\ phase \notin {"between", "ended"}) => claim

\* Until an editor has been used, a drawn frame has the mouse mode its layer
\* asks for.
MouseModeFollowsTheLayer ==
  phase = "running" /\ ~dirty /\ spent.editors = 0
    => tty.on \cap {"mouse", "scroll"} = Preferred(layer)

\* Every reader of the terminal finds the modes it was promised: see the two
\* above (the guard's drop, suspend_for_editor, sync_mouse_mode).
TerminalIsAsPromised == TerminalIsGivenBack /\ MouseModeFollowsTheLayer

\* The same at every time: what the comment of runner/mod.rs says of every
\* full-screen layer.
EveryFrameHasItsMouseMode ==
  phase = "running" /\ ~dirty => tty.on \cap {"mouse", "scroll"} = Preferred(layer)

=============================================================================
