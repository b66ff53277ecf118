---------------------------- MODULE LoopEventPump ----------------------------
(* How the UI thread of terminal-ui sleeps and is woken: the LoopEventPump  *)
(* and LoopEventWaker of runner/loop_event_pump.rs, the loop of             *)
(* runner/mod.rs that waits on them, and the NotifyingSender of             *)
(* conversation-runtime through which every worker reports.                 *)
(*                                                                          *)
(* A producer puts its payload in a channel of its own and then wakes the   *)
(* loop.  Wakes are merged: is_pending says that a marker is already on its *)
(* way.  Markers share a bounded queue with the terminal's events, so that  *)
(* the marker may find it full.  The UI thread blocks on that queue without *)
(* a timeout, so a lost wake would leave a payload unseen until the next    *)
(* key.  The terminal is read by a thread of its own, which the UI thread   *)
(* pauses while an external editor runs.                                    *)
(*                                                                          *)
(* Atomic operations are sequentially consistent here.                      *)
EXTENDS Integers, Sequences, FiniteSets

CONSTANTS
  Producers,   \* worker and clipboard threads that wake the loop
  Input,       \* the thread that reads the terminal; it wakes the loop if it panics
  Capacity,    \* LOOP_EVENT_CHANNEL_CAPACITY
  MaxBurst,    \* MAX_READY_TERMINAL_EVENTS_PER_FRAME
  MaxKeys,     \* bound: terminal events of one behaviour
  MaxPending   \* bound: events set aside, above which no payload arrives

ASSUME ConstantsAssumption ==
  /\ Input \notin Producers
  /\ Capacity \in Nat \ {0} /\ MaxBurst \in Nat \ {0}
  /\ MaxKeys \in Nat /\ MaxPending \in Nat

Wakers == Producers \cup {Input}

(* LoopEvent.  Terminal events are numbered as they are read.               *)
Key(k)  == [kind |-> "key", no |-> k]
Ready   == [kind |-> "ready", no |-> 0]
Failed  == [kind |-> "failed", no |-> 0]
Nothing == [kind |-> "nothing", no |-> 0]
LoopEvents == {Key(k) : k \in 1..MaxKeys} \cup {Ready, Failed}

IsKey(event) == event.kind = "key"
KeysOf(s)    == {s[i].no : i \in {j \in DOMAIN s : IsKey(s[j])}}

VARIABLES
  queue,      \* the bounded channel of loop events
  isPending,  \* LoopEventWakeState::is_pending
  unseen,     \* producers whose receiver holds something
  wake,       \* how far each thread is in LoopEventWaker::wake
  ui,         \* where the UI thread is
  unread,     \* receivers it has still to drain in this round
  got,        \* the event wait has received
  pending,    \* pending_events
  burst,      \* terminal events collected, then applied one by one
  failure,    \* input_failure
  alive,      \* whether the input thread runs
  source,     \* whether it reads the terminal
  held,       \* its pending_event
  permit,     \* the permit stored in capacity_available
  command     \* the command it has not acknowledged

(* History, for the properties only.                                        *)
VARIABLES
  read,       \* terminal events read so far
  applied,    \* the last one the model was given
  discarded   \* later ones dropped on purpose

queueVars == <<queue, permit>>
wakeVars  == <<isPending, unseen, wake>>
uiVars    == <<ui, unread, got, pending, burst>>
inputVars == <<alive, source, held, read>>
ghostVars == <<applied, discarded>>
vars == <<queueVars, wakeVars, uiVars, failure, inputVars, command, ghostVars>>

Init ==
  /\ queue = <<>> /\ permit = FALSE
  /\ isPending = FALSE /\ unseen = {} /\ wake = [w \in Wakers |-> "idle"]
  /\ ui = "drain" /\ unread = Producers /\ got = Nothing /\ pending = <<>> /\ burst = <<>>
  /\ failure = FALSE /\ command = "none"
  /\ alive = TRUE /\ source = TRUE /\ held = Nothing /\ read = 0
  /\ applied = 0 /\ discarded = {}

-----------------------------------------------------------------------------
(* A producer.                                                              *)

HasRoom   == Len(queue) < Capacity
At(w, pc) == wake[w] = pc /\ ui # "closed"
Goto(w, pc) == wake' = [wake EXCEPT ![w] = pc]

(* NotifyingSender::send queues the payload before it notifies.  The guard  *)
(* notify_on_drop wakes the loop in the same way for the end of a channel.  *)
Push(p) ==
  /\ wake[p] = "idle" /\ (Len(pending) <= MaxPending \/ ui = "closed")
  /\ unseen' = unseen \cup {p} /\ Goto(p, "swap")
  /\ UNCHANGED <<queueVars, isPending, uiVars, failure, inputVars, command, ghostVars>>

Swap(w) ==
  /\ wake[w] = "swap"
  /\ isPending' = TRUE
  /\ Goto(w, IF isPending THEN "idle" ELSE "send")
  /\ UNCHANGED <<queueVars, unseen, uiVars, failure, inputVars, command, ghostVars>>

(* Mutant: send instead of try_send, into a queue without a bound.          *)
SendAnyway(w) ==
  /\ At(w, "send")
  /\ queue' = Append(queue, Ready) /\ Goto(w, "idle")
  /\ UNCHANGED <<permit, isPending, unseen, uiVars, failure, inputVars, command, ghostVars>>

(* try_send of the marker.                                                  *)
SendMarker(w) ==
  /\ At(w, "send")
  /\ \/ /\ HasRoom
        /\ queue' = Append(queue, Ready) /\ Goto(w, "idle")
     \/ /\ ~HasRoom
        /\ queue' = queue /\ Goto(w, "full")
  /\ UNCHANGED <<permit, isPending, unseen, uiVars, failure, inputVars, command, ghostVars>>

(* Mutant: the marker is not tried again after the flag is cleared.         *)
ClearAndReturn(w) ==
  /\ wake[w] = "full"
  /\ isPending' = FALSE /\ Goto(w, "idle")
  /\ UNCHANGED <<queueVars, unseen, uiVars, failure, inputVars, command, ghostVars>>

(* The queue was full.  Another wake may have been merged into this one, so *)
(* the flag is cleared and the marker tried once more.                      *)
ClearPending(w) ==
  /\ wake[w] = "full"
  /\ isPending' = FALSE /\ Goto(w, "resend")
  /\ UNCHANGED <<queueVars, unseen, uiVars, failure, inputVars, command, ghostVars>>

ResendMarker(w) ==
  /\ At(w, "resend")
  /\ queue' = IF HasRoom THEN Append(queue, Ready) ELSE queue
  /\ Goto(w, "idle")
  /\ UNCHANGED <<permit, isPending, unseen, uiVars, failure, inputVars, command, ghostVars>>

(* The pump is gone and the queue with it.                                  *)
SendToNobody(w) ==
  /\ ui = "closed" /\ wake[w] \in {"send", "resend"}
  /\ isPending' = IF wake[w] = "send" THEN FALSE ELSE isPending
  /\ Goto(w, "idle")
  /\ UNCHANGED <<queueVars, unseen, uiVars, failure, inputVars, command, ghostVars>>

Wake(w) == Swap(w) \/ SendMarker(w) \/ ClearPending(w) \/ ResendMarker(w) \/ SendToNobody(w)

-----------------------------------------------------------------------------
(* The input thread.                                                        *)

(* Mutant: an event that finds the queue full is lost.                      *)
TryQueueOrDrop(event) ==
  /\ queue' = IF HasRoom THEN Append(queue, event) ELSE queue
  /\ held' = Nothing

(* try_queue_loop_event: an event that finds the queue full is held back.   *)
TryQueue(event) ==
  IF HasRoom
  THEN queue' = Append(queue, event) /\ held' = Nothing
  ELSE queue' = queue /\ held' = event

ReadTerminal ==
  /\ alive /\ source /\ held = Nothing
  /\ \/ /\ read < MaxKeys
        /\ TryQueue(Key(read + 1))
        /\ read' = read + 1 /\ source' = TRUE
     \/ /\ TryQueue(Failed)                  \* an error, or the end of the stream
        /\ source' = FALSE /\ read' = read
  /\ UNCHANGED <<permit, wakeVars, uiVars, failure, alive, command, ghostVars>>

(* capacity_available.notified()                                            *)
RetryHeld ==
  /\ alive /\ held # Nothing /\ permit
  /\ permit' = FALSE
  /\ TryQueue(held)
  /\ UNCHANGED <<wakeVars, uiVars, failure, alive, source, read, command, ghostVars>>

(* An event held back is dropped without a word.                            *)
DroppedHeld == discarded' = discarded \cup KeysOf(<<held>>)

(* Mutant: a pause keeps the event held back.                               *)
PauseKeepsHeld ==
  /\ alive /\ command = "pause"
  /\ source' = FALSE
  /\ command' = "none"
  /\ UNCHANGED <<queueVars, wakeVars, uiVars, failure, alive, held, read, ghostVars>>

(* Mutant: the thread sleeps until its event is queued before it listens.   *)
PauseAfterHeld ==
  /\ alive /\ command = "pause" /\ held = Nothing
  /\ source' = FALSE
  /\ command' = "none"
  /\ UNCHANGED <<queueVars, wakeVars, uiVars, failure, alive, held, read, ghostVars>>

(* Commands are taken at any time, also while an event is held back.        *)
ObeyPause ==
  /\ alive /\ command = "pause"
  /\ source' = FALSE /\ held' = Nothing /\ DroppedHeld
  /\ command' = "none"
  /\ UNCHANGED <<queueVars, wakeVars, uiVars, failure, alive, read, applied>>

ObeyResume ==
  /\ alive /\ command = "resume"
  /\ source' = TRUE
  /\ command' = "none"
  /\ UNCHANGED <<queueVars, wakeVars, uiVars, failure, alive, held, read, ghostVars>>

ObeyShutdown ==
  /\ alive /\ command = "shutdown"
  /\ alive' = FALSE /\ source' = FALSE /\ held' = Nothing /\ DroppedHeld
  /\ command' = "none"
  /\ UNCHANGED <<queueVars, wakeVars, uiVars, failure, read, applied>>

(* Polling the source may panic, and so may opening it anew.                *)
MayPanic == IF source THEN held = Nothing ELSE command = "resume"

(* A panic is caught: the failure is stored for the UI thread, then the     *)
(* loop is woken.                                                           *)
Panic ==
  /\ alive /\ MayPanic
  /\ alive' = FALSE /\ source' = FALSE
  /\ failure' = TRUE /\ Goto(Input, "swap")
  /\ UNCHANGED <<queueVars, isPending, unseen, uiVars, held, read, command, ghostVars>>

-----------------------------------------------------------------------------
(* The UI thread.                                                           *)

(* Mutant: receivers are drained only when a marker was received.           *)
RoundOnMarker == ui' = "drain" /\ unread' = IF got = Ready THEN Producers ELSE {}

StartRound == ui' = "drain" /\ unread' = Producers
Leave      == ui' = "closing" /\ command' = "shutdown" /\ unread' = unread

(* The top of the loop: every receiver is drained, whatever woke the loop.  *)
Drain(p) ==
  /\ ui = "drain" /\ p \in unread
  /\ unread' = unread \ {p} /\ unseen' = unseen \ {p}
  /\ UNCHANGED <<queueVars, isPending, wake, ui, got, pending, burst, failure, inputVars,
                 command, ghostVars>>

EndRound ==
  /\ ui = "drain" /\ unread = {}
  /\ ui' = "wait"
  /\ UNCHANGED <<queueVars, wakeVars, unread, got, pending, burst, failure, inputVars,
                 command, ghostVars>>

TakeFailure ==
  /\ failure
  /\ failure' = FALSE /\ Leave

(* wait looks for a failure of the input thread, and then receives.         *)
Wait ==
  /\ ui = "wait"
  /\ \/ TakeFailure
     \/ /\ ~failure
        /\ ui' = "receive"
        /\ UNCHANGED <<unread, failure, command>>
  /\ UNCHANGED <<queueVars, wakeVars, got, pending, burst, inputVars, ghostVars>>

(* The next event, of pending_events first.  A slot given back in the queue *)
(* leaves a permit for the input thread.                                    *)
IsQuiet   == pending = <<>> /\ queue = <<>>
NextEvent == IF pending # <<>> THEN Head(pending) ELSE Head(queue)
Others    == IF pending # <<>> THEN Tail(pending) ELSE pending
TakeNext  ==
  IF pending # <<>>
  THEN UNCHANGED queueVars
  ELSE queue' = Tail(queue) /\ permit' = TRUE

Receive ==
  /\ ui = "receive"
  /\ \/ /\ ~IsQuiet
        /\ got' = NextEvent /\ TakeNext /\ pending' = Others
     \/ /\ IsQuiet                           \* a deadline of the model has passed
        /\ got' = Nothing /\ UNCHANGED <<queueVars, pending>>
  /\ ui' = "handle"
  /\ UNCHANGED <<wakeVars, unread, burst, failure, inputVars, command, ghostVars>>

Handle ==
  /\ ui = "handle"
  /\ got' = Nothing
  /\ \/ /\ TakeFailure
        /\ pending' = IF got = Nothing THEN pending ELSE <<got>> \o pending
        /\ UNCHANGED <<isPending, burst>>
     \/ /\ ~failure /\ got = Ready
        /\ isPending' = FALSE /\ StartRound  \* mark_delivered
        /\ UNCHANGED <<pending, burst, failure, command>>
     \/ /\ ~failure /\ got = Nothing
        /\ StartRound
        /\ UNCHANGED <<isPending, pending, burst, failure, command>>
     \/ /\ ~failure /\ got = Failed
        /\ Leave
        /\ UNCHANGED <<isPending, pending, burst, failure>>
     \/ /\ ~failure /\ IsKey(got)
        /\ burst' = <<got>> /\ ui' = "burst"
        /\ UNCHANGED <<isPending, unread, pending, failure, command>>
  /\ UNCHANGED <<queueVars, unseen, wake, inputVars, ghostVars>>

(* collect_terminal_burst.  A marker ends the burst and is put back.        *)
Collect ==
  /\ ui = "burst" /\ Len(burst) < MaxBurst /\ ~IsQuiet
  /\ TakeNext
  /\ \/ /\ IsKey(NextEvent)
        /\ burst' = Append(burst, NextEvent) /\ pending' = Others
        /\ UNCHANGED <<ui, unread, command>>
     \/ /\ NextEvent = Ready
        /\ pending' = <<Ready>> \o Others
        /\ ui' = "apply"
        /\ UNCHANGED <<burst, unread, command>>
     \/ /\ NextEvent = Failed
        /\ pending' = burst \o Others /\ burst' = <<>>
        /\ Leave
  /\ UNCHANGED <<wakeVars, got, failure, inputVars, ghostVars>>

EndBurst ==
  /\ ui = "burst" /\ (Len(burst) = MaxBurst \/ IsQuiet)
  /\ ui' = "apply"
  /\ UNCHANGED <<queueVars, wakeVars, unread, got, pending, burst, failure, inputVars,
                 command, ghostVars>>

Later(keys) == {k \in keys : k > Head(burst).no}

(* apply_terminal_input_actions.  What the model does with an event may     *)
(* launch the editor, whose first step is to pause the input, or quit: the  *)
(* rest of the burst is then forgotten.                                     *)
ApplyKey ==
  /\ ui = "apply" /\ burst # <<>>
  /\ applied' = Head(burst).no
  /\ \/ /\ burst' = Tail(burst)
        /\ discarded' = Later(discarded)
        /\ UNCHANGED <<ui, unread, command>>
     \/ /\ burst' = Tail(burst)
        /\ discarded' = Later(discarded)
        /\ ui' = "pausing" /\ command' = "pause"
        /\ UNCHANGED unread
     \/ /\ burst' = <<>> /\ Leave
        /\ discarded' = Later(discarded) \cup KeysOf(Tail(burst))
  /\ UNCHANGED <<queueVars, wakeVars, got, pending, failure, inputVars>>

EndApply ==
  /\ ui = "apply" /\ burst = <<>>
  /\ StartRound
  /\ UNCHANGED <<queueVars, wakeVars, got, pending, burst, failure, inputVars, command,
                 ghostVars>>

(* pending_events.retain: keys go.  A deque without keys is left as it is.  *)
Retained(s) ==
  IF \E i \in DOMAIN s : IsKey(s[i])
  THEN SelectSeq(s, LAMBDA event : ~IsKey(event))
  ELSE s

(* pause_terminal_input goes on to discard_queued_terminal_input.           *)
PauseAcknowledged ==
  /\ ui = "pausing" /\ command = "none"
  /\ pending' = Retained(pending) /\ discarded' = discarded \cup KeysOf(pending)
  /\ ui' = "discard"
  /\ UNCHANGED <<queueVars, wakeVars, unread, got, burst, failure, inputVars, command,
                 applied>>

Discard ==
  /\ ui = "discard" /\ queue # <<>>
  /\ queue' = Tail(queue) /\ permit' = TRUE
  /\ \/ /\ IsKey(Head(queue))
        /\ discarded' = discarded \cup {Head(queue).no} /\ pending' = pending
     \/ /\ ~IsKey(Head(queue))
        /\ pending' = Append(pending, Head(queue)) /\ discarded' = discarded
  /\ UNCHANGED <<wakeVars, ui, unread, got, burst, failure, inputVars, command, applied>>

EndDiscard ==
  /\ ui = "discard" /\ queue = <<>>
  /\ ui' = "editor"
  /\ UNCHANGED <<queueVars, wakeVars, unread, got, pending, burst, failure, inputVars,
                 command, ghostVars>>

(* The editor has ended; the terminal is taken back, or cannot be.          *)
EndEditor ==
  /\ ui = "editor"
  /\ \/ /\ ui' = "resuming" /\ command' = "resume" /\ unread' = unread
     \/ Leave
  /\ UNCHANGED <<queueVars, wakeVars, got, pending, burst, failure, inputVars, ghostVars>>

ResumeAcknowledged ==
  /\ ui = "resuming" /\ command = "none"
  /\ ui' = "apply"
  /\ UNCHANGED <<queueVars, wakeVars, unread, got, pending, burst, failure, inputVars,
                 command, ghostVars>>

(* The input thread has gone, and with it the other end of the command.     *)
InputIsGone ==
  /\ ui \in {"pausing", "resuming"} /\ command # "none" /\ ~alive
  /\ Leave
  /\ UNCHANGED <<queueVars, wakeVars, got, pending, burst, failure, inputVars, ghostVars>>

(* Dropping the pump joins the input thread, its last wake included.        *)
JoinInput ==
  /\ ui = "closing" /\ ~alive /\ wake[Input] = "idle"
  /\ ui' = "closed" /\ queue' = <<>> /\ discarded' = discarded \cup KeysOf(queue)
  /\ UNCHANGED <<permit, wakeVars, unread, got, pending, burst, failure, inputVars, command,
                 applied>>

-----------------------------------------------------------------------------
InputStep == ReadTerminal \/ RetryHeld \/ ObeyPause \/ ObeyResume \/ ObeyShutdown \/ Panic

(* What the UI thread does without waiting for the user.                    *)
LoopStep ==
  \/ \E p \in Producers : Drain(p)
  \/ EndRound \/ Wait \/ (~IsQuiet /\ Receive) \/ Handle \/ Collect \/ EndBurst
  \/ ApplyKey \/ EndApply \/ PauseAcknowledged \/ Discard \/ EndDiscard
  \/ ResumeAcknowledged \/ InputIsGone \/ JoinInput

Next ==
  \/ \E p \in Producers : Push(p)
  \/ \E w \in Wakers : Wake(w)
  \/ InputStep
  \/ LoopStep
  \/ Receive
  \/ EndEditor

Spec == Init /\ [][Next]_vars

(* Threads run on.  Nothing is assumed of the terminal, of the model's      *)
(* deadlines or of the person in the editor; select! polls its branches in  *)
(* a random order, so a command is taken however many events there are.     *)
Fairness ==
  /\ \A w \in Wakers : WF_vars(Wake(w))
  /\ WF_vars(RetryHeld)
  /\ WF_vars(ObeyPause \/ ObeyResume \/ ObeyShutdown)
  /\ WF_vars(LoopStep)

FairSpec == Spec /\ Fairness

-----------------------------------------------------------------------------
(* Properties.                                                              *)

TypeOK ==
  /\ queue \in Seq(LoopEvents) /\ Len(queue) <= Capacity
  /\ pending \in Seq(LoopEvents) /\ burst \in Seq({Key(k) : k \in 1..MaxKeys})
  /\ got \in LoopEvents \cup {Nothing} /\ held \in (LoopEvents \cup {Nothing}) \ {Ready}
  /\ isPending \in BOOLEAN /\ failure \in BOOLEAN /\ permit \in BOOLEAN
  /\ alive \in BOOLEAN /\ source \in BOOLEAN
  /\ unseen \subseteq Producers /\ unread \subseteq Producers
  /\ wake \in [Wakers -> {"idle", "swap", "send", "full", "resend"}]
  /\ ui \in {"drain", "wait", "receive", "handle", "burst", "apply", "pausing", "discard",
             "editor", "resuming", "closing", "closed"}
  /\ command \in {"none", "pause", "resume", "shutdown"}
  /\ read \in 0..MaxKeys /\ applied \in 0..MaxKeys /\ discarded \subseteq 1..MaxKeys

(* "Duplicates are allowed so that no wake is lost" (LoopEventWaker::wake): *)
(* when the UI thread may block, a payload it has not drained, or a failure *)
(* it has not reported, has a marker or some other event on its way, or a   *)
(* thread that will still send one.                                         *)
MarkerOnItsWay ==
  \/ queue # <<>> \/ pending # <<>>
  \/ \E w \in Wakers : wake[w] \in {"send", "full", "resend"}
WakeIsNotLost ==
  ui \in {"wait", "receive"} =>
    /\ \A p \in Producers : p \in unseen /\ wake[p] = "idle" => MarkerOnItsWay
    /\ failure /\ wake[Input] = "idle" /\ ui = "receive" => MarkerOnItsWay

(* The input thread holds an event back only behind a full queue, or with   *)
(* the permit that lets it try again (capacity_available).                  *)
HeldBehindAFullQueue ==
  held # Nothing => permit \/ Len(queue) = Capacity \/ ui = "closed"

(* Terminal events reach the model in the order they were read, and one     *)
(* that is not applied is still on its way or was dropped on purpose, by a  *)
(* pause or by leaving: the full queue, the put-back of a marker and the    *)
(* burst lose and reorder none.                                             *)
OnItsWay   == burst \o <<got>> \o pending \o queue \o <<held>>
InOrder(s) ==
  \A i, j \in DOMAIN s : i < j /\ IsKey(s[i]) /\ IsKey(s[j]) => s[i].no < s[j].no
KeysInOrder ==
  /\ InOrder(OnItsWay)
  /\ KeysOf(OnItsWay) \cup discarded = (applied + 1)..read
  /\ KeysOf(OnItsWay) \cap discarded = {}

(* While the editor owns the terminal nothing reads it and nothing typed    *)
(* before is still queued; a wake that was queued is.                       *)
EditorOwnsTheTerminal ==
  ui = "editor" =>
    /\ ~source /\ held = Nothing
    /\ KeysOf(pending \o queue) = {}
    /\ isPending => MarkerOnItsWay

(* Every wake is served: a payload is drained, unless the loop ends or the  *)
(* editor keeps it, and a panic of the input thread ends the loop instead   *)
(* of leaving it deaf.                                                      *)
Away == ui \in {"editor", "closing", "closed"}
WakesAreServed ==
  /\ \A p \in Producers : p \in unseen ~> p \notin unseen \/ Away
  /\ failure ~> ui \in {"closing", "closed"}

(* Pausing, resuming and shutting down the input thread never hang, not     *)
(* even if its event queue is full or it has panicked.                      *)
CommandsReturn ==
  \A waiting \in {"pausing", "resuming", "closing"} : ui = waiting ~> ui # waiting

=============================================================================
