---------------------------- MODULE ContextBudget ----------------------------
(* How /context gets its snapshot: the ContextBudgetWorker of               *)
(* terminal-app/src/runtime/context_budget_worker.rs, its thread, and what  *)
(* the overlay of terminal-ui makes of the answers.                         *)
(*                                                                          *)
(* A request is given a generation.  Cancelling one, or making a new one,   *)
(* only moves the shared generation on: the thread may notice between two   *)
(* phases of its projection or go on to the end, and an answer of an older  *)
(* generation is dropped when it is read.  One request is active, one more  *)
(* may be queued behind it and is sent from the next drain.                 *)
EXTENDS Integers, Sequences

CONSTANTS
  MaxRequests,    \* bound: requests of one behaviour
  MaxCancels      \* bound: cancellations and resets of one behaviour

ASSUME BoundsAssumption == MaxRequests \in Nat /\ MaxCancels \in Nat

Requests    == 1..MaxRequests
Generations == Nat \ {0}
Outcomes    == {"loaded", "failed", "cancelled"}

(* ContextBudgetWorkerCommand, ActiveContextBudgetRequest.                  *)
Commands  == [id : Requests, gen : Generations]
None      == [id |-> 0, gen |-> 0]
Shutdown  == [id |-> 0, gen |-> 1]
Envelopes == [id : Requests, gen : Generations, outcome : Outcomes]
Events    == [id : Requests, outcome : {"loaded", "failed"}]
Failure(r) == [id |-> r, outcome |-> "failed"]

VARIABLES
  generation,    \* current_generation, shared with the thread
  tx,            \* whether worker_tx is there
  active,        \* active_request
  queued,        \* queued_command
  inbox,         \* the thread's commands
  worker,        \* where it is: see below
  job,           \* what it projects
  results,       \* envelopes it has sent
  woken,         \* whether the UI thread is to drain once more (LoopEventPump)
  ui,            \* where the UI thread is in drain_events
  events,        \* what this drain has collected
  deferred,      \* failures in pending_runtime_events
  cancelWanted,  \* pending_context_budget_cancellation
  open,          \* whether the overlay is there
  awaited        \* the request it is loading, or 0

(* History, for the properties and the bounds only.                         *)
VARIABLES
  made,          \* requests made
  cancels,       \* cancellations made
  latest,        \* the last request the worker accepted, 0 once cancelled
  told           \* requests whose answer the UI was given

threadVars  == <<worker, job>>
ownVars     == <<active, queued, tx>>
overlayVars == <<cancelWanted, open, awaited>>
ghostVars   == <<made, cancels, latest, told>>
vars == <<generation, ownVars, inbox, threadVars, results, woken, ui, events, deferred,
          overlayVars, ghostVars>>

Init ==
  /\ generation = 0 /\ tx = TRUE /\ active = None /\ queued = None
  /\ inbox = <<>> /\ worker = "idle" /\ job = None /\ results = <<>>
  /\ woken = TRUE /\ ui = "idle" /\ events = {} /\ deferred = {}
  /\ cancelWanted = FALSE /\ open = FALSE /\ awaited = 0
  /\ made = 0 /\ cancels = 0 /\ latest = 0 /\ told = {}

-----------------------------------------------------------------------------
(* The thread.                                                              *)

(* It is idle or busy; it notifies the UI thread of an envelope; or it      *)
(* ends: it drops its sender, then its receiver, and notifies at last.      *)
Disconnected == worker \in {"closing", "leaving", "gone"}
Deaf         == worker \in {"leaving", "gone"}
Latest       == inbox[Len(inbox)]

Answer(command, outcome) ==
  results' = Append(results, [id |-> command.id, gen |-> command.gen, outcome |-> outcome])

(* recv and coalesce_worker_controls: the latest command counts, a shutdown *)
(* more than any.  One that was cancelled meanwhile is answered at once.    *)
Take ==
  /\ worker = "idle" /\ inbox # <<>>
  /\ \/ /\ \E i \in DOMAIN inbox : inbox[i] = Shutdown
        /\ worker' = "closing" /\ UNCHANGED <<inbox, job, results>>
     \/ /\ \A i \in DOMAIN inbox : inbox[i] # Shutdown
        /\ inbox' = <<>>
        /\ \/ /\ Latest.gen = generation
              /\ worker' = "busy" /\ job' = Latest /\ results' = results
           \/ /\ Latest.gen # generation
              /\ worker' = "notify" /\ job' = None /\ Answer(Latest, "cancelled")
  /\ UNCHANGED <<generation, ownVars, woken, ui, events, deferred, overlayVars, ghostVars>>

(* The projection looks at the generation between its phases.               *)
Finish ==
  /\ worker = "busy"
  /\ \E outcome \in Outcomes :
       /\ outcome = "cancelled" => generation # job.gen
       /\ Answer(job, outcome)
  /\ worker' = "notify" /\ job' = None
  /\ UNCHANGED <<generation, ownVars, inbox, woken, ui, events, deferred, overlayVars,
                 ghostVars>>

(* The projection panics.                                                   *)
Panic ==
  /\ worker = "busy"
  /\ worker' = "closing" /\ job' = None
  /\ UNCHANGED <<generation, ownVars, inbox, results, woken, ui, events, deferred,
                 overlayVars, ghostVars>>

DropReceiver ==
  /\ worker = "closing"
  /\ worker' = "leaving" /\ inbox' = <<>>
  /\ UNCHANGED <<generation, ownVars, job, results, woken, ui, events, deferred, overlayVars,
                 ghostVars>>

(* Mutant: the end of the thread wakes nobody.                              *)
NotifyAliveOnly ==
  /\ worker \in {"notify", "leaving"}
  /\ woken' = (woken \/ worker = "notify")
  /\ worker' = IF worker = "notify" THEN "idle" ELSE "gone"
  /\ UNCHANGED <<generation, ownVars, inbox, job, results, ui, events, deferred, overlayVars,
                 ghostVars>>

(* NotifyingSender::send after the envelope is queued, and notify_on_drop.  *)
Notify ==
  /\ worker \in {"notify", "leaving"}
  /\ woken' = TRUE
  /\ worker' = IF worker = "notify" THEN "idle" ELSE "gone"
  /\ UNCHANGED <<generation, ownVars, inbox, job, results, ui, events, deferred, overlayVars,
                 ghostVars>>

-----------------------------------------------------------------------------
(* The UI thread.                                                           *)

(* Mutant: the request is active even if it could not be sent.              *)
SendUnchecked(command) ==
  /\ active' = command
  /\ inbox' = IF Deaf THEN inbox ELSE Append(inbox, command)

(* dispatch_command, to a thread that still has its receiver.               *)
Send(command) ==
  IF Deaf
  THEN UNCHANGED <<inbox, active>>
  ELSE inbox' = Append(inbox, command) /\ active' = command

(* load_snapshot.  An error of it is reported with the next drain.          *)
LoadSnapshot(r) ==
  \/ /\ ~tx
     /\ deferred' = deferred \cup {r}
     /\ UNCHANGED <<generation, active, queued, inbox, latest>>
  \/ /\ tx
     /\ generation' = generation + 1 /\ latest' = r
     /\ LET command == [id |-> r, gen |-> generation'] IN
        IF active # None
        THEN queued' = command /\ UNCHANGED <<active, inbox, deferred>>
        ELSE /\ Send(command) /\ queued' = queued
             /\ deferred' = IF Deaf THEN deferred \cup {r} ELSE deferred

(* LoadContextBudgetSnapshot.  The overlay is opened first; a cancellation  *)
(* that is still wanted goes before it.  The screen has the overlay closed  *)
(* in between; the coordinator takes a request also on top of another one.  *)
(* A model whose provider is gone is reported without the worker.           *)
Load ==
  /\ ui = "idle" /\ ~cancelWanted /\ made < MaxRequests
  /\ made' = made + 1 /\ open' = TRUE /\ awaited' = made'
  /\ \/ LoadSnapshot(made')
     \/ /\ deferred' = deferred \cup {made'}
        /\ UNCHANGED <<generation, active, queued, inbox, latest>>
  /\ woken' = TRUE
  /\ UNCHANGED <<tx, threadVars, results, ui, events, cancelWanted, cancels, told>>

(* The user, or a panel that takes its place, closes the overlay.           *)
Close ==
  /\ ui = "idle" /\ open
  /\ open' = FALSE /\ cancelWanted' = TRUE /\ awaited' = 0 /\ woken' = TRUE
  /\ UNCHANGED <<generation, ownVars, inbox, threadVars, results, ui, events, deferred,
                 ghostVars>>

(* Mutant: a cancellation leaves the generation alone.                      *)
CancelKeepsGeneration ==
  /\ generation' = generation /\ latest' = 0
  /\ active' = None /\ queued' = None /\ results' = <<>>

(* cancel_pending.                                                          *)
CancelPending ==
  /\ generation' = generation + 1 /\ latest' = 0
  /\ active' = None /\ queued' = None /\ results' = <<>>

(* CancelContextBudgetSnapshot, before the effect of the next input.        *)
Cancel ==
  /\ ui = "idle" /\ cancelWanted /\ cancels < MaxCancels
  /\ cancelWanted' = FALSE /\ cancels' = cancels + 1
  /\ CancelPending /\ woken' = TRUE
  /\ UNCHANGED <<tx, inbox, threadVars, ui, events, deferred, open, awaited, made, told>>

(* Reset: the composer, and /clear with it, is blocked while the overlay is *)
(* open.  Events that wait for the next drain go too.                       *)
Reset ==
  /\ ui = "idle" /\ ~open /\ ~cancelWanted /\ cancels < MaxCancels
  /\ cancels' = cancels + 1
  /\ CancelPending /\ woken' = TRUE
  /\ deferred' = {}
  /\ UNCHANGED <<tx, inbox, threadVars, ui, events, overlayVars, made, told>>

(* shutdown, when the program ends.  The thread is not waited for.          *)
Stop ==
  /\ ui = "idle" /\ tx
  /\ tx' = FALSE /\ inbox' = IF Deaf THEN inbox ELSE Append(inbox, Shutdown)
  /\ CancelPending
  /\ open' = FALSE /\ awaited' = 0 /\ cancelWanted' = FALSE
  /\ UNCHANGED <<threadVars, woken, ui, events, deferred, made, cancels, told>>

(* drain_runtime_events, after every wake and every input.  Others wake the *)
(* UI thread, too.                                                          *)
Drain ==
  /\ ui = "idle" /\ woken' = FALSE
  /\ events' = {Failure(r) : r \in deferred} /\ deferred' = {}
  /\ ui' = "collect"
  /\ UNCHANGED <<generation, ownVars, inbox, threadVars, results, overlayVars, ghostVars>>

(* runtime_event_from_envelope: only an answer of this generation counts.   *)
EventsOf(envelope) ==
  IF envelope.gen = generation /\ envelope.outcome # "cancelled"
  THEN {[id |-> envelope.id, outcome |-> envelope.outcome]}
  ELSE {}

(* Mutant: any answer frees the worker for the next request.                *)
CollectFreesAny ==
  /\ ui \in {"collect", "recollect"} /\ results # <<>>
  /\ results' = Tail(results)
  /\ active' = None
  /\ events' = events \cup EventsOf(Head(results))
  /\ UNCHANGED <<generation, queued, tx, inbox, threadVars, woken, ui, deferred, overlayVars,
                 ghostVars>>

(* collect_finished_events.                                                 *)
Collect ==
  /\ ui \in {"collect", "recollect"} /\ results # <<>>
  /\ results' = Tail(results)
  /\ active' = IF active.gen = Head(results).gen THEN None ELSE active
  /\ events' = events \cup EventsOf(Head(results))
  /\ UNCHANGED <<generation, queued, tx, inbox, threadVars, woken, ui, deferred, overlayVars,
                 ghostVars>>

CollectEmpty ==
  /\ ui \in {"collect", "recollect"} /\ results = <<>> /\ ~Disconnected
  /\ ui' = IF ui = "recollect" THEN "apply"
           ELSE IF active = None /\ queued # None THEN "dispatch" ELSE "recollect"
  /\ UNCHANGED <<generation, ownVars, inbox, threadVars, results, woken, events, deferred,
                 overlayVars, ghostVars>>

(* Mutant: the end of the thread is reported also when nobody asked.        *)
ReportAnyway ==
  /\ ui \in {"collect", "recollect"} /\ results = <<>> /\ Disconnected
  /\ events' = events \cup {Failure(c.id) : c \in {active, queued}}
  /\ active' = None /\ queued' = None /\ tx' = FALSE
  /\ ui' = IF ui = "recollect" THEN "apply" ELSE "recollect"
  /\ UNCHANGED <<generation, inbox, threadVars, results, woken, deferred, overlayVars,
                 ghostVars>>

(* The thread is gone: whoever waits for it is told.                        *)
CollectDisconnected ==
  /\ ui \in {"collect", "recollect"} /\ results = <<>> /\ Disconnected
  /\ events' = events \cup {Failure(c.id) : c \in {active, queued} \ {None}}
  /\ active' = None /\ queued' = None /\ tx' = FALSE
  /\ ui' = IF ui = "recollect" THEN "apply" ELSE "recollect"
  /\ UNCHANGED <<generation, inbox, threadVars, results, woken, deferred, overlayVars,
                 ghostVars>>

(* The request that waited is sent.                                         *)
DispatchQueued ==
  /\ ui = "dispatch"
  /\ Send(queued)
  /\ events' = IF Deaf THEN events \cup {Failure(queued.id)} ELSE events
  /\ queued' = None
  /\ ui' = "recollect"
  /\ UNCHANGED <<generation, tx, threadVars, results, woken, deferred, overlayVars,
                 ghostVars>>

(* apply_runtime_event: the overlay takes the answer to its own request.    *)
Apply ==
  /\ ui = "apply"
  /\ awaited' = IF \E e \in events : e.id = awaited THEN 0 ELSE awaited
  /\ told' = told \cup {e.id : e \in events}
  /\ events' = {} /\ ui' = "idle"
  /\ UNCHANGED <<generation, ownVars, inbox, threadVars, results, woken, deferred, cancelWanted,
                 open, made, cancels, latest>>

-----------------------------------------------------------------------------
DrainStep == Collect \/ CollectEmpty \/ CollectDisconnected \/ DispatchQueued \/ Apply

Next ==
  \/ Take \/ Finish \/ Panic \/ DropReceiver \/ Notify
  \/ Load \/ Close \/ Cancel \/ Reset \/ Stop
  \/ Drain \/ DrainStep

Spec == Init /\ [][Next]_vars

(* The thread runs on, a projection ends, and the UI thread drains when it  *)
(* was woken or has taken an input (LoopEventPump).                         *)
Fairness ==
  /\ WF_vars(Take) /\ WF_vars(Finish) /\ WF_vars(DropReceiver) /\ WF_vars(Notify)
  /\ WF_vars(woken /\ Drain) /\ WF_vars(DrainStep)
FairSpec == Spec /\ Fairness

-----------------------------------------------------------------------------
(* Properties.                                                              *)

TypeOK ==
  /\ generation \in Nat
  /\ tx \in BOOLEAN /\ cancelWanted \in BOOLEAN /\ open \in BOOLEAN
  /\ active \in Commands \cup {None} /\ queued \in Commands \cup {None}
  /\ job \in Commands \cup {None}
  /\ inbox \in Seq(Commands \cup {Shutdown}) /\ results \in Seq(Envelopes)
  /\ worker \in {"idle", "busy", "notify", "closing", "leaving", "gone"}
  /\ woken \in BOOLEAN
  /\ ui \in {"idle", "collect", "dispatch", "recollect", "apply"}
  /\ events \subseteq Events
  /\ deferred \subseteq Requests /\ told \subseteq Requests
  /\ awaited \in 0..MaxRequests /\ made \in 0..MaxRequests
  /\ cancels \in 0..MaxCancels /\ latest \in 0..MaxRequests

(* Soft cancel (cancel_pending): the thread may finish a request that was   *)
(* cancelled or replaced, but its snapshot never leaves the worker; what is *)
(* handed to the UI is of the latest request, not cancelled since.          *)
LoadedIsLatest == \A e \in events : e.outcome = "loaded" => e.id = latest

(* A request the overlay waits for has an answer coming: a failure is to be *)
(* reported; or it is active and its command, its projection or its         *)
(* envelope is under way, or the thread has ended; or it is queued, behind  *)
(* an active one or with a drain to come that sends it.  Where only a drain *)
(* can go on, one is on its way.                                            *)
DrainIsComing == woken \/ worker \in {"notify", "closing", "leaving"}
UnderWay(command) ==
  \/ inbox # <<>> /\ Latest.gen = command.gen
  \/ job.gen = command.gen
  \/ /\ \E i \in DOMAIN results : results[i].gen = command.gen
     /\ DrainIsComing \/ ui \in {"collect", "recollect"}
  \/ Disconnected /\ (DrainIsComing \/ ui \in {"collect", "dispatch", "recollect"})
AnswerIsComing ==
  /\ awaited # 0 =>
       \/ \E e \in events : e.id = awaited
       \/ awaited \in deferred /\ DrainIsComing
       \/ active.id = awaited \/ queued.id = awaited
  /\ active # None => UnderWay(active)
  /\ queued # None => active # None \/ DrainIsComing \/ ui \in {"collect", "dispatch"}

(* Nobody is told twice: a request that was answered is neither active nor  *)
(* queued, and no envelope of the current generation is left of it.         *)
AnsweredOnce ==
  \A r \in told \cup {e.id : e \in events} :
    /\ active.id # r /\ queued.id # r /\ r \notin deferred
    /\ \A i \in DOMAIN results : results[i].gen = generation => results[i].id # r

(* The overlay does not load for ever, whatever becomes of the thread and   *)
(* however requests are replaced.                                           *)
LoadingEnds == \A r \in Requests : awaited = r ~> awaited # r

=============================================================================
