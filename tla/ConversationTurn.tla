-------------------------- MODULE ConversationTurn --------------------------
(* The life of a conversation turn: conversation/session of the             *)
(* conversation-runtime crate, driven by the coordinator of terminal-app.   *)
(*                                                                          *)
(* Submitting a turn starts a worker thread.  Its worker task streams the   *)
(* provider's answer, runs the tools it calls, retries an attempt that      *)
(* produced nothing and repairs a cancelled one; its persistence actor      *)
(* takes commands from a bounded queue and writes them to the session       *)
(* store.  Both report on one channel, which the UI thread drains into the  *)
(* conversation's history.  A reset drops the channel and forgets the       *)
(* worker, which goes on until it notices the cancelled token.              *)
(*                                                                          *)
(* A store call either succeeds or fails, as SessionStore models it, and a  *)
(* permission question is open or closed, as PermissionBroker models it.    *)
EXTENDS Integers, Sequences, FiniteSets, SequencesExt, SequenceFilters

CONSTANTS
  MaxTurns,         \* bound: turns submitted in one behaviour
  MaxItems,         \* bound: context items after which the provider calls no tool
  MaxBatch,         \* bound: tool calls in one answer
  MaxRetries,       \* RuntimeRequestPolicy::attempts
  Capacity,         \* SESSION_PERSISTENCE_QUEUE_CAPACITY
  MaxFailures,      \* bound: failing store calls
  MaxPanics,        \* bound: worker threads that panic
  MaxResets         \* bound: conversations cleared

ASSUME BoundsAssumption ==
  /\ {MaxTurns, MaxBatch, Capacity} \subseteq Nat \ {0}
  /\ {MaxItems, MaxRetries, MaxFailures, MaxPanics, MaxResets} \subseteq Nat

Turns == 1..MaxTurns
None  == 0           \* no turn, or a conversation that has no session yet

(* An item of the provider's context.  A session is named by the turn whose *)
(* actor created it.                                                        *)
Item(t, kind, calls, try) == [turn |-> t, kind |-> kind, calls |-> calls, try |-> try]
Items == [turn : Turns, kind : {"user", "answer", "call", "result"},
          calls : SUBSET Nat, try : 0..MaxRetries]
User(t) == Item(t, "user", {}, 0)

(* What is said on the channel: two session deltas, applied silently, and   *)
(* plain events, returned to the coordinator.  "lost" is a Failed sent      *)
(* because persistence failed, "failed" one that the provider caused.       *)
TurnDelta(s)    == [kind |-> "turn", session |-> s]
ItemDelta(i)    == [kind |-> "item", item |-> i]
Plain(kind)     == [kind |-> kind]
Terminal        == {"finished", "interrupted", "failed", "lost"}
Delta           == {"turn", "item"}
ItemDeltas      == [kind : {"item"}, item : Items]
ItemsIn(events) == LET deltas == Select(events, ItemDeltas)
                   IN  [n \in DOMAIN deltas |-> deltas[n].item]

VARIABLES
  active,     \* the turn whose receiver the ConversationWorker holds, or None
  inbox,      \* what that receiver has yet to read
  session,    \* ProviderConversation: persistence.session_id
  history,    \* ProviderConversation: persisted_history
  pending,    \* ProviderConversation: the turn whose pending_user_items wait
  phase,      \* where the worker task of each turn is
  attempt,    \* its current attempt
  cancelled,  \* its CancellationToken
  attemptCancelled, \* the child token of its attempt, cancelled on its own
  ledger,     \* ProviderContextRepairLedger: calls without a result
  outcome,    \* the terminal event it is about to send
  queue,      \* its commands to the persistence actor
  actor,      \* whether the actor still takes them
  where,      \* the session the turn is persisted to
  stored,     \* what the store holds of each session
  asking,     \* turns with an open permission question in the shared broker
  spent       \* failures, panics and resets so far

(* History of the behaviour, read by the properties only.                   *)
VARIABLES emitted,  \* context items the worker produced, in order
          verdict,  \* the terminal event the coordinator saw
          stopped,  \* turns the user interrupted
          era       \* the conversation a turn was submitted to

uiVars     == <<session, history, pending>>
tokens     == <<cancelled, attemptCancelled>>
workerVars == <<phase, attempt, ledger, outcome, emitted>>
actorVars  == <<actor, where, stored>>
ghostVars  == <<verdict, stopped, era>>
vars == <<active, inbox, uiVars, workerVars, tokens, queue, actorVars, asking,
          spent, ghostVars>>

Init ==
  /\ active = None /\ inbox = <<>> /\ session = None /\ history = <<>> /\ pending = None
  /\ phase     = [t \in Turns |-> "unborn"]
  /\ attempt   = [t \in Turns |-> 0]
  /\ cancelled = [t \in Turns |-> FALSE]
  /\ attemptCancelled = [t \in Turns |-> FALSE]
  /\ ledger    = [t \in Turns |-> {}]
  /\ outcome   = [t \in Turns |-> "none"]
  /\ queue     = [t \in Turns |-> <<>>]
  /\ actor     = [t \in Turns |-> TRUE]
  /\ where     = [t \in Turns |-> None]
  /\ stored    = [s \in Turns |-> <<>>]
  /\ asking = {} /\ spent = [failures |-> 0, panics |-> 0, resets |-> 0]
  /\ emitted   = [t \in Turns |-> <<>>]
  /\ verdict   = [t \in Turns |-> "none"]
  /\ stopped = {} /\ era = [t \in Turns |-> 0]

Spend(what) == spent' = [spent EXCEPT ![what] = @ + 1]

(* A send to a receiver that was dropped is lost.                           *)
Sent(t, events) == IF active = t THEN inbox \o events ELSE inbox
Send(t, events) == inbox' = Sent(t, events)

-----------------------------------------------------------------------------
(* The UI thread: commands of the coordinator.                              *)

(* SubmitConversationTurn with nothing to observe first.                    *)
Submit(t) ==
  /\ active = None /\ pending = None
  /\ phase[t] = "unborn" /\ \A u \in 1..(t - 1) : phase[u] # "unborn"
  /\ pending' = t /\ active' = t /\ inbox' = <<>>
  /\ phase' = [phase EXCEPT ![t] = "start"]
  /\ where' = [where EXCEPT ![t] = session]
  /\ era'   = [era EXCEPT ![t] = spent.resets]
  /\ UNCHANGED <<session, history, attempt, ledger, outcome, emitted, tokens, queue,
                 actor, stored, asking, spent, verdict, stopped>>

Interrupt ==
  /\ active # None
  /\ cancelled' = [cancelled EXCEPT ![active] = TRUE]
  /\ asking' = {}
  /\ stopped' = stopped \cup {active}
  /\ UNCHANGED <<active, inbox, uiVars, workerVars, attemptCancelled, queue, actorVars, spent,
                 verdict, era>>

FreshConversation ==
  /\ spent.resets < MaxResets /\ Spend("resets")
  /\ cancelled' = [t \in Turns |-> cancelled[t] \/ t = active]
  /\ session' = None /\ history' = <<>> /\ pending' = None
  /\ UNCHANGED <<workerVars, attemptCancelled, queue, actorVars, ghostVars>>

(* Mutations of Reset: the receiver, or the broker, is forgotten.           *)
ResetKeepsReceiver == FreshConversation /\ asking' = {} /\ UNCHANGED <<active, inbox>>
ResetKeepsQuestions == FreshConversation /\ active' = None /\ inbox' = <<>> /\ UNCHANGED asking

(* RuntimeCommand::Reset: the worker is cancelled and forgotten, its        *)
(* questions are dismissed.                                                 *)
Reset == FreshConversation /\ active' = None /\ inbox' = <<>> /\ asking' = {}

(* RespondPermission, which ends the wait of the tool that asked.  The user  *)
(* sees a question once its event was drained.                              *)
Answer(t) ==
  /\ active # None /\ t \in asking
  /\ Plain("question") \notin ToSet(inbox)
  /\ asking' = asking \ {t}
  /\ UNCHANGED <<active, inbox, uiVars, workerVars, tokens, queue, actorVars, spent,
                 ghostVars>>

-----------------------------------------------------------------------------
(* The UI thread: one try_recv_event and what drain_runtime_events does     *)
(* with its result.  The call swallows deltas up to the first plain event.  *)

PlainAt  == {i \in DOMAIN inbox : inbox[i].kind \notin Delta}
NextEvent == CHOOSE i \in PlainAt : \A j \in PlainAt : i <= j
Deltas   == IF PlainAt = {} THEN inbox ELSE SubSeq(inbox, 1, NextEvent - 1)
NewItems == ItemsIn(Deltas)
TurnDeltas == {e \in ToSet(Deltas) : e.kind = "turn"}

(* A question is committed to the history once its turn is known to have    *)
(* started, and leaves `pending` with it.                                   *)
Commits == TurnDeltas # {} /\ pending # None
CommitPendingUser ==
  /\ history' = history \o (IF Commits THEN <<User(pending)>> ELSE <<>>) \o NewItems
  /\ pending' = IF Commits THEN None ELSE pending

(* reconcile_conversation_updates                                           *)
Reconcile ==
  /\ session' = IF TurnDeltas = {} THEN session ELSE (CHOOSE e \in TurnDeltas : TRUE).session
  /\ CommitPendingUser

Judge(event) ==
  /\ asking' = {}
  /\ verdict' = [verdict EXCEPT ![active] = event]
  /\ UNCHANGED session
ReleaseReceiver == active' = None /\ inbox' = <<>>
AppendNewItems  == history' = history \o NewItems
RollbackPendingUser == pending' = None

(* clear_runtime_state, which forgets a user entry and a session not yet    *)
(* reconciled, then the reconciliation of the items, which it leaves, then  *)
(* rollback_pending_user.                                                   *)
EndTurn(event) ==
  Judge(event) /\ ReleaseReceiver /\ AppendNewItems /\ RollbackPendingUser

DrainUnchanged == UNCHANGED <<workerVars, tokens, queue, actorVars, spent, stopped, era>>

DrainDeltas ==
  /\ active # None /\ PlainAt = {} /\ inbox # <<>>
  /\ phase[active] # "done"
  /\ Reconcile
  /\ inbox' = <<>>
  /\ DrainUnchanged /\ UNCHANGED <<active, asking, verdict>>

DrainProgress ==
  /\ active # None /\ PlainAt # {} /\ inbox[NextEvent].kind \notin Terminal
  /\ Reconcile
  /\ inbox' = SubSeq(inbox, NextEvent + 1, Len(inbox))
  /\ DrainUnchanged /\ UNCHANGED <<active, asking, verdict>>

DrainVerdict ==
  /\ active # None /\ PlainAt # {} /\ inbox[NextEvent].kind \in Terminal
  /\ EndTurn(inbox[NextEvent].kind)
  /\ DrainUnchanged

(* TryRecvError::Disconnected                                               *)
DrainDisconnected ==
  /\ active # None /\ PlainAt = {} /\ phase[active] = "done"
  /\ EndTurn("vanished")
  /\ DrainUnchanged

Drain == DrainDeltas \/ DrainProgress \/ DrainVerdict \/ DrainDisconnected

-----------------------------------------------------------------------------
(* The worker task.                                                         *)

(* The attempt runs on a child of the turn's token.                         *)
Stopped(t) == cancelled[t] \/ attemptCancelled[t]

ItemCommand(i) == [kind |-> "item", item |-> i]

Room(t) == IF actor[t] THEN Capacity - Len(queue[t]) ELSE 0

(* A burst of try_send_session_persistence: nothing is awaited in between,  *)
(* so what does not fit is dropped, each drop with a Failed of its own.     *)
(* Only the attempt's token is cancelled, so the grace period is not begun. *)
Burst(t, commands, kept) ==
  LET fits == IF Len(commands) <= Room(t) THEN Len(commands) ELSE Room(t) IN
  /\ queue' = [queue EXCEPT ![t] = @ \o SubSeq(commands, 1, fits)]
  /\ attemptCancelled' = [attemptCancelled EXCEPT ![t] = @ \/ fits < Len(commands)]
  /\ Send(t, [i \in 1..(Len(commands) - fits) |-> Plain("lost")] \o kept)

(* A worker that was cancelled before it ran says so and writes nothing.    *)
WorkerStarts(t) ==
  /\ phase[t] = "start"
  /\ IF cancelled[t]
       THEN /\ Send(t, <<Plain("interrupted")>>)
            /\ phase' = [phase EXCEPT ![t] = "done"]
            /\ UNCHANGED queue
       ELSE /\ queue' = [queue EXCEPT ![t] = Append(@, Plain("turn"))]
            /\ phase' = [phase EXCEPT ![t] = "attempt"]
            /\ UNCHANGED inbox
  /\ UNCHANGED <<active, uiVars, attempt, ledger, outcome, emitted, tokens, actorVars,
                 asking, spent, ghostVars>>

Streaming(t) == phase[t] = "attempt" /\ ledger[t] = {}

(* Text, reasoning and token events.  One event stands for a run of them.   *)
StreamDelta(t) ==
  /\ Streaming(t) /\ active = t
  /\ inbox # <<>> => Last(inbox).kind # "progress"
  /\ Send(t, <<Plain("progress")>>)
  /\ UNCHANGED <<active, uiVars, workerVars, tokens, queue, actorVars, asking, spent,
                 ghostVars>>

(* The provider answers with tool calls: the item is recorded and the first *)
(* tool is announced.  A "replay" command stands for the transcript entries *)
(* of the tools' activities, which are no items of the context.             *)
RespondWithCalls(t, n) ==
  LET calls == {Len(emitted[t]) + i : i \in 1..n}
      item  == Item(t, "call", calls, attempt[t])
  IN
  /\ Streaming(t) /\ Len(emitted[t]) < MaxItems
  /\ emitted' = [emitted EXCEPT ![t] = Append(@, item)]
  /\ ledger'  = [ledger EXCEPT ![t] = calls]
  /\ Burst(t, <<ItemCommand(item), Plain("replay")>>, <<Plain("progress")>>)
  /\ UNCHANGED <<active, uiVars, phase, attempt, outcome, cancelled, actorVars, asking, spent,
                 ghostVars>>

Ask(t) ==
  /\ phase[t] = "attempt" /\ ledger[t] # {} /\ ~Stopped(t) /\ t \notin asking
  /\ asking' = asking \cup {t}
  /\ Send(t, <<Plain("question")>>)
  /\ UNCHANGED <<active, uiVars, workerVars, tokens, queue, actorVars, spent, ghostVars>>

Nth(calls, n) == CHOOSE c \in calls : Cardinality({d \in calls : d <= c}) = n
Results(t) == [n \in 1..Cardinality(ledger[t]) |->
                 Item(t, "result", {Nth(ledger[t], n)}, attempt[t])]
ResultCommands(t) == [i \in DOMAIN Results(t) |-> ItemCommand(Results(t)[i])]

(* Every tool of the batch has run, was refused, or was told to stop.  The  *)
(* loop looks at the token before it calls the provider again.              *)
ToolsFinish(t) ==
  /\ phase[t] = "attempt" /\ ledger[t] # {}
  /\ t \in asking => Stopped(t)
  /\ emitted' = [emitted EXCEPT ![t] = @ \o Results(t)]
  /\ ledger'  = [ledger EXCEPT ![t] = {}]
  /\ Burst(t, <<Plain("replay")>> \o ResultCommands(t), <<Plain("progress")>>)
  /\ IF cancelled[t] \/ attemptCancelled'[t]
       THEN /\ asking' = {}
            /\ outcome' = [outcome EXCEPT ![t] = "interrupted"]
            /\ phase'   = [phase EXCEPT ![t] = "ending"]
       ELSE asking' = asking \ {t} /\ UNCHANGED <<outcome, phase>>
  /\ UNCHANGED <<active, uiVars, attempt, cancelled, actorVars, spent, ghostVars>>

(* The mutation forgets that cancelled calls need a result too.             *)
NoRepairs(t) == <<>>

(* take_repair_items: a result that says interrupted for every call left.   *)
Repairs(t) == Results(t)

(* The attempt ended: every open question is dismissed, what the ledger     *)
(* still holds is answered (send_repair_items gives up at the first command *)
(* refused), and the worker goes on to flush.                               *)
AttemptEnds(t, event) ==
  LET repairs == Repairs(t)
      fits    == IF Len(repairs) <= Room(t) THEN Len(repairs) ELSE Room(t)
  IN
  /\ asking' = {}
  /\ emitted' = [emitted EXCEPT ![t] = @ \o repairs]
  /\ ledger'  = [ledger EXCEPT ![t] = {}]
  /\ queue' = [queue EXCEPT ![t] = @ \o [i \in 1..fits |-> ItemCommand(repairs[i])]]
  /\ cancelled' = [cancelled EXCEPT ![t] = @ \/ fits < Len(repairs)]
  /\ Send(t, IF fits < Len(repairs) THEN <<Plain("lost")>> ELSE <<>>)
  /\ outcome' = [outcome EXCEPT ![t] = event]
  /\ phase'   = [phase EXCEPT ![t] = "ending"]
  /\ UNCHANGED <<active, uiVars, attempt, attemptCancelled, actorVars, spent, ghostVars>>

(* The provider answers without calls, and the attempt completes.           *)
RespondFinal(t) ==
  LET item == Item(t, "answer", {}, attempt[t]) IN
  /\ Streaming(t)
  /\ emitted' = [emitted EXCEPT ![t] = Append(@, item)]
  /\ Burst(t, <<ItemCommand(item)>>, <<>>)
  /\ asking' = {}
  /\ outcome' = [outcome EXCEPT ![t] = "finished"]
  /\ phase'   = [phase EXCEPT ![t] = "ending"]
  /\ UNCHANGED <<active, uiVars, attempt, ledger, cancelled, actorVars, spent, ghostVars>>

(* can_retry_from_original_request                                          *)
MayRetry(t) == attempt[t] < MaxRetries /\ emitted[t] = <<>>

ProviderFails(t) ==
  /\ Streaming(t) /\ ~MayRetry(t)
  /\ AttemptEnds(t, "failed")

ProviderFailsEarly(t) ==
  /\ Streaming(t) /\ MayRetry(t)
  /\ asking' = {}
  /\ phase' = [phase EXCEPT ![t] = "retry"]
  /\ Send(t, <<Plain("progress")>>)
  /\ UNCHANGED <<active, uiVars, attempt, ledger, outcome, emitted, tokens, queue,
                 actorVars, spent, ghostVars>>

(* The delay is over: the next attempt, with a child token of its own.      *)
NextAttempt(t) ==
  /\ phase[t] = "retry" /\ ~cancelled[t]
  /\ attempt' = [attempt EXCEPT ![t] = @ + 1]
  /\ attemptCancelled' = [attemptCancelled EXCEPT ![t] = FALSE]
  /\ phase'   = [phase EXCEPT ![t] = "attempt"]
  /\ UNCHANGED <<active, inbox, uiVars, ledger, outcome, emitted, cancelled, queue,
                 actorVars, asking, spent, ghostVars>>

(* Cancelled while it waits.  When the delay ends at the same time, the     *)
(* next attempt does the same: it looks at the token first.                 *)
RetryCancelled(t) ==
  /\ phase[t] = "retry" /\ cancelled[t]
  /\ outcome' = [outcome EXCEPT ![t] = "interrupted"]
  /\ phase'   = [phase EXCEPT ![t] = "ending"]
  /\ UNCHANGED <<active, inbox, uiVars, attempt, ledger, emitted, tokens, queue,
                 actorVars, asking, spent, ghostVars>>

(* stream_provider_turn noticed the token.                                  *)
AttemptCancelled(t) ==
  /\ Streaming(t) /\ Stopped(t)
  /\ AttemptEnds(t, "interrupted")

(* The mutation waits for the attempt however long it takes.                *)
NoGrace(t) == phase[t] = "none" /\ UNCHANGED vars

(* CancelledAfterGrace: the attempt did not return within CANCEL_REPAIR_GRACE *)
(* and its future is dropped, whatever it was doing.                        *)
GraceExpires(t) ==
  /\ phase[t] = "attempt" /\ cancelled[t]
  /\ AttemptEnds(t, "interrupted")

(* The mutation reports before the queue was written.                       *)
VerdictBeforeFlush(t) ==
  /\ phase[t] = "ending"
  /\ phase' = [phase EXCEPT ![t] = "flushed"]
  /\ UNCHANGED <<active, inbox, uiVars, attempt, ledger, outcome, emitted, tokens, queue,
                 actorVars, asking, spent, ghostVars>>

(* flush_session_persistence waits for room, and for the acknowledgement.   *)
SendFlush(t) ==
  /\ phase[t] = "ending"
  /\ \/ /\ actor[t] /\ Len(queue[t]) < Capacity
        /\ queue' = [queue EXCEPT ![t] = Append(@, Plain("flush"))]
        /\ phase' = [phase EXCEPT ![t] = "flushing"]
        /\ UNCHANGED outcome
     \/ /\ ~actor[t]
        /\ outcome' = [outcome EXCEPT ![t] = "lost"]
        /\ phase'   = [phase EXCEPT ![t] = "flushed"]
        /\ UNCHANGED queue
  /\ UNCHANGED <<active, inbox, uiVars, attempt, ledger, emitted, tokens, actorVars,
                 asking, spent, ghostVars>>

SendVerdict(t) ==
  /\ phase[t] = "flushed"
  /\ Send(t, <<Plain(outcome[t])>>)
  /\ phase' = [phase EXCEPT ![t] = "done"]
  /\ UNCHANGED <<active, uiVars, attempt, ledger, outcome, emitted, tokens, queue,
                 actorVars, asking, spent, ghostVars>>

(* A panic in a tool or in the provider client unwinds the worker thread:   *)
(* both tasks and both channels are dropped as they are.                    *)
WorkerPanics(t) ==
  /\ phase[t] = "attempt"
  /\ spent.panics < MaxPanics /\ Spend("panics")
  /\ phase' = [phase EXCEPT ![t] = "done"]
  /\ actor' = [actor EXCEPT ![t] = FALSE]
  /\ queue' = [queue EXCEPT ![t] = <<>>]
  /\ UNCHANGED <<active, inbox, uiVars, attempt, ledger, outcome, emitted, tokens,
                 where, stored, asking, ghostVars>>

-----------------------------------------------------------------------------
(* The persistence actor.                                                   *)

Command(t) == Head(queue[t]).kind
Pops(t) == queue' = [queue EXCEPT ![t] = Tail(@)]
Home(t) == IF where[t] = None THEN t ELSE where[t]

(* persist_turn_start: the session is created if there is none.             *)
PersistTurn(t) ==
  /\ where'  = [where EXCEPT ![t] = Home(t)]
  /\ stored' = [stored EXCEPT ![Home(t)] = Append(@, User(t))]
  /\ Send(t, <<TurnDelta(Home(t))>>)
  /\ UNCHANGED phase

PersistItem(t) ==
  /\ stored' = [stored EXCEPT ![where[t]] = Append(@, Head(queue[t]).item)]
  /\ Send(t, <<ItemDelta(Head(queue[t]).item)>>)
  /\ UNCHANGED <<where, phase>>

PersistReplay == UNCHANGED <<where, stored, inbox, phase>>

PersistFlush(t) ==
  /\ phase' = [phase EXCEPT ![t] = "flushed"]
  /\ UNCHANGED <<where, stored, inbox>>

Persist(t) ==
  /\ actor[t] /\ queue[t] # <<>>
  /\ Pops(t)
  /\ \/ Command(t) = "turn"   /\ PersistTurn(t)
     \/ Command(t) = "item"   /\ PersistItem(t)
     \/ Command(t) = "replay" /\ PersistReplay
     \/ Command(t) = "flush"  /\ PersistFlush(t)
  /\ UNCHANGED <<active, uiVars, attempt, ledger, outcome, emitted, tokens, actor, asking,
                 spent, ghostVars>>

(* The store refuses.  The entry may be there all the same: a line whose    *)
(* write was reported as failed is written again later, and the append of   *)
(* the transcript entry that follows an item may be what failed.            *)
MayStay(t) ==
  \/ UNCHANGED <<where, stored>>
  \/ /\ Command(t) = "turn"
     /\ where'  = [where EXCEPT ![t] = Home(t)]
     /\ stored' = [stored EXCEPT ![Home(t)] = Append(@, User(t))]
  \/ /\ Command(t) = "item"
     /\ stored' = [stored EXCEPT ![where[t]] = Append(@, Head(queue[t]).item)]
     /\ UNCHANGED where

(* The actor cancels the turn, reports, answers a flush that waits, drops   *)
(* the other commands and stops.                                            *)
PersistFails(t) ==
  /\ actor[t] /\ queue[t] # <<>>
  /\ spent.failures < MaxFailures /\ Spend("failures")
  /\ MayStay(t)
  /\ cancelled' = [cancelled EXCEPT ![t] = TRUE]
  /\ Send(t, <<Plain("lost")>>)
  /\ actor' = [actor EXCEPT ![t] = FALSE]
  /\ queue' = [queue EXCEPT ![t] = <<>>]
  /\ IF phase[t] = "flushing"
       THEN /\ outcome' = [outcome EXCEPT ![t] = "lost"]
            /\ phase'   = [phase EXCEPT ![t] = "flushed"]
       ELSE UNCHANGED <<outcome, phase>>
  /\ UNCHANGED <<active, uiVars, attempt, ledger, emitted, attemptCancelled, asking, ghostVars>>

-----------------------------------------------------------------------------
Ends(t) == GraceExpires(t) \/ RetryCancelled(t) \/ NextAttempt(t) \/ SendFlush(t) \/ SendVerdict(t)

Next ==
  \/ \E t \in Turns : Submit(t)
  \/ Interrupt \/ Reset \/ Drain
  \/ \E t \in Turns :
       \/ Answer(t) \/ WorkerStarts(t) \/ StreamDelta(t) \/ Ask(t)
       \/ \E n \in 1..MaxBatch : RespondWithCalls(t, n)
       \/ ToolsFinish(t) \/ RespondFinal(t)
       \/ ProviderFails(t) \/ ProviderFailsEarly(t) \/ AttemptCancelled(t)
       \/ Ends(t) \/ WorkerPanics(t)
       \/ Persist(t) \/ PersistFails(t)

(* Neither the provider, a tool nor the user is fair.  Threads, timers and  *)
(* the store's calls are, and the UI drains whenever it was woken.          *)
Fairness ==
  /\ WF_vars(Drain)
  /\ \A t \in Turns : WF_vars(WorkerStarts(t)) /\ WF_vars(Ends(t)) /\ WF_vars(Persist(t))

Spec == Init /\ [][Next]_vars /\ Fairness

-----------------------------------------------------------------------------
(* Every variable keeps its type.                                           *)
TypeOK ==
  /\ active \in Turns \cup {None} /\ session \in Turns \cup {None}
  /\ pending \in Turns \cup {None}
  /\ \A i \in DOMAIN inbox :
       inbox[i].kind \in Delta \cup Terminal \cup {"progress", "question"}
  /\ history \in Seq(Items)
  /\ phase \in [Turns -> {"unborn", "start", "attempt", "retry", "ending", "flushing",
                          "flushed", "done"}]
  /\ attempt \in [Turns -> 0..MaxRetries]
  /\ {cancelled, attemptCancelled} \subseteq [Turns -> BOOLEAN]
  /\ ledger \in [Turns -> SUBSET Nat]
  /\ outcome \in [Turns -> Terminal \cup {"none"}]
  /\ \A t \in Turns : Len(queue[t]) <= Capacity
  /\ actor \in [Turns -> BOOLEAN] /\ where \in [Turns -> Turns \cup {None}]
  /\ \A t \in Turns : stored[t] \in Seq(Items) /\ emitted[t] \in Seq(Items)
  /\ asking \subseteq Turns /\ stopped \subseteq Turns
  /\ verdict \in [Turns -> Terminal \cup {"none", "vanished"}]
  /\ spent \in [failures : 0..MaxFailures, panics : 0..MaxPanics, resets : 0..MaxResets]
  /\ era \in [Turns -> 0..MaxResets]

Of(t, items)   == Select(items, {i \in Items : i.turn = t})
Said(t, items) == Select(items, {i \in Items : i.turn = t /\ i.kind # "user"})
Current(t)     == era[t] = spent.resets
(* The store, the queue and the thread of the turn all held.                *)
Judged(t)      == verdict[t] \in {"finished", "interrupted", "failed"}

(* What the conversation shows the provider is on disk, in the session the  *)
(* turn was persisted to, and was submitted to this conversation: the       *)
(* worker of a cleared one never writes to its successor's history.         *)
HistoryIsStored ==
  \A i \in DOMAIN history :
    LET t == history[i].turn IN
    /\ Current(t)
    /\ where[t] # None /\ history[i] \in ToSet(stored[where[t]])

(* A turn that finished, failed at the provider or was interrupted left in  *)
(* its session its message and all it produced, repairs included, in order: *)
(* the terminal event comes after the flush and the flush after the items.  *)
(* Unless the conversation was cleared, the history has the same items.     *)
JudgedTurnIsKept ==
  \A t \in Turns : Judged(t) =>
    /\ emitted[t] # <<>> =>
         where[t] # None /\ Of(t, stored[where[t]]) = <<User(t)>> \o emitted[t]
    /\ Current(t) => Said(t, history) = emitted[t]

(* A retry starts from the original request: nothing of a failed attempt is *)
(* kept, so all that is stored of a turn comes from one attempt.            *)
OneAttemptIsStored ==
  \A s \in Turns : \A i, j \in DOMAIN stored[s] :
    LET a == stored[s][i]  b == stored[s][j] IN
    a.turn = b.turn /\ "user" \notin {a.kind, b.kind} => a.try = b.try

(* Every tool call of a judged turn has exactly one result in what the next *)
(* request carries: the provider refuses a request with an unresolved call, *)
(* and the results of a failed attempt would be a second answer.            *)
CallsAreAnsweredOnce ==
  /\ OneAttemptIsStored
  /\ \A t \in Turns : Judged(t) /\ Current(t) =>
       \A i \in DOMAIN history : \A c \in history[i].calls :
         history[i].turn = t /\ history[i].kind = "call" =>
           Cardinality({j \in DOMAIN history :
                          /\ history[j].turn = t /\ history[j].kind = "result"
                          /\ history[j].calls = {c} /\ j > i}) = 1

(* The verdict says what happened.  Of a judged turn everything is kept.    *)
(* Interrupted is the answer to an interrupt: the token is also cancelled   *)
(* when persistence fails, and then a Failed that says so comes first.  A   *)
(* worker that does not panic never goes without a terminal event.          *)
VerdictIsTrue ==
  /\ JudgedTurnIsKept
  /\ \A t \in Turns :
       /\ verdict[t] = "interrupted" => t \in stopped
       /\ verdict[t] = "vanished" => spent.panics > 0

(* A permission question is open only for the turn on the screen, and with  *)
(* no turn running the conversation takes the next one: no message of an    *)
(* earlier turn is left pending, which prepare_turn would refuse.  Every    *)
(* variable keeps its type.                                                 *)
NothingOutlivesItsTurn ==
  /\ TypeOK
  /\ asking \subseteq {active}
  /\ active = None => pending = None

(* A turn whose token was cancelled ends, on the screen and in its thread,  *)
(* whatever the provider, its tools and the user do: the grace period       *)
(* bounds it.  (A full queue cancels the attempt only: then the screen is   *)
(* told, and the thread ends as soon as the tools heed their token.)        *)
CancelledTurnEnds ==
  \A t \in Turns : cancelled[t] ~> (phase[t] = "done" /\ active # t)

(* commit_pending_user and rollback_pending_user, by their comments: only a *)
(* message that was not sent yet is dropped.  A turn whose answer is in the *)
(* history has its question there.                                          *)
SentMessageIsKept ==
  \A t \in Turns : active = None /\ Said(t, history) # <<>> =>
    User(t) \in ToSet(history)

=============================================================================
