-------------------------- MODULE TerminalUiProofs --------------------------
(***************************************************************************)
(* Proofs of what the UI thread and its surroundings promise: LoopEventPump*)
(* for every set of producers and every capacity and bound, ClipboardWorker*)
(* for every capacity of its queue, TerminalLifecycle for every number of  *)
(* failing operations and editors, ApprovalPanel for every behaviour.      *)
(*                                                                         *)
(* The argument for the wakes: while is_pending is set, a marker is in the *)
(* queue, is set aside, is in the UI thread's hands, or is about to be     *)
(* sent (FlagHasAMarker).  So a wake that is merged leaves a marker behind *)
(* it, one that is not sends its own or meets a full queue, and nothing is *)
(* taken from the queue between a round and the next receive               *)
(* (DrainedIsMarked).                                                      *)
(*                                                                         *)
(* The argument for the keys: they wait in five places, one behind the     *)
(* other (KeysInLine), and a step moves one from the front of a place to   *)
(* the end of the place before it.  That an event is put back before those *)
(* set aside, and that one is taken from the queue only if none is, keeps  *)
(* the places in line.                                                     *)
(*                                                                         *)
(* The argument for the clipboard: what was accepted is, in its order,     *)
(* told, answered, in the worker's hand and queued (CopiesInLine), and a   *)
(* step moves one text from a place to the place before it.                *)
(*                                                                         *)
(* The argument for the terminal: what differs from the shell's terminal   *)
(* is owed or failed (Owes), and while the session is left every feature   *)
(* that is owed is still in the plan (RestoreComes), after a panic every   *)
(* one that differs (ForceComes).  The keyboard mode is popped from the    *)
(* screen it was pushed on, because every plan pops it before it leaves    *)
(* the alternate screen and pushes it after it enters it (Poppable).       *)
(*                                                                         *)
(* The argument for the approvals: each operator on a screen ends with its *)
(* pills true (Told), and none but a move of the viewport away hides a     *)
(* panel (PanelKept), whose pill is left alone when it is hidden already.  *)
(***************************************************************************)
EXTENDS LoopEventPump, ClipboardWorker, TerminalLifecycle, ApprovalPanel, SequenceFilterProofs

HasReady(s) == \E i \in DOMAIN s : s[i] = Ready

FlagHasAMarker ==
  isPending =>
    \/ HasReady(queue) \/ HasReady(pending)
    \/ \E w \in Wakers : wake[w] \in {"send", "full"}
    \/ got = Ready \/ ui \in {"closing", "closed"}

OnlyHandleHolds == ui # "handle" => got = Nothing

RoundIsOver == ui \in {"wait", "receive"} => unread = {}

DrainedIsMarked ==
  ui \in {"drain", "wait", "receive"} =>
    \A p \in Producers :
      p \in unseen /\ p \notin unread /\ wake[p] = "idle" => MarkerOnItsWay

(* Only a panic makes the input thread wake the loop. *)
LivingInputSendsNothing == alive => wake[Input] = "idle"

FailureIsMarked ==
  ui = "receive" /\ failure /\ wake[Input] = "idle" => MarkerOnItsWay

(* Keys are put back only by a burst that fails, and that loop leaves. *)
KeysAreNotSetAside ==
  ui \notin {"closing", "closed"} => \A i \in DOMAIN pending : ~IsKey(pending[i])

(* A pause is over when it is acknowledged, and lasts until the resume. *)
PausedInputIsSilent ==
  /\ ui \in {"discard", "editor"} => command = "none"
  /\ ui = "pausing" => command \in {"pause", "none"}
  /\ \/ ui \in {"discard", "editor"}
     \/ ui = "pausing" /\ command = "none"
     => ~source /\ held = Nothing
  /\ ui = "editor" => \A i \in DOMAIN queue : ~IsKey(queue[i])

(* What is collected for a burst is applied before the loop starts a round. *)
BurstIsApplied == ui \in {"drain", "wait", "receive", "handle"} => burst = <<>>

(* Every key of one set was read before every key of the other. *)
Before(K, L) == \A k \in K, l \in L : k < l

(* The keys of the five places they wait in, in the order they were read, with
   the discarded ones account for all that was read and is not yet applied. *)
Accounted(B, G, P, Q, H, D, a, r) ==
  /\ Before(B, G) /\ Before(B, P) /\ Before(B, Q) /\ Before(B, H)
  /\ Before(G, P) /\ Before(G, Q) /\ Before(G, H)
  /\ Before(P, Q) /\ Before(P, H) /\ Before(Q, H)
  /\ a <= r /\ B \cup G \cup P \cup Q \cup H \cup D = (a + 1)..r
  /\ (B \cup G \cup P \cup Q \cup H) \cap D = {}

KeysInLine ==
  /\ InOrder(burst) /\ InOrder(pending) /\ InOrder(queue)
  /\ Accounted(KeysOf(burst), KeysOf(<<got>>), KeysOf(pending), KeysOf(queue), KeysOf(<<held>>),
               discarded, applied, read)

IInv ==
  /\ TypeOK
  /\ FlagHasAMarker
  /\ OnlyHandleHolds
  /\ RoundIsOver
  /\ DrainedIsMarked
  /\ LivingInputSendsNothing
  /\ FailureIsMarked
  /\ KeysAreNotSetAside
  /\ PausedInputIsSilent
  /\ HeldBehindAFullQueue
  /\ BurstIsApplied
  /\ KeysInLine

-----------------------------------------------------------------------------
(* Sequences. *)

LEMMA TailType ==
  ASSUME NEW S, NEW s \in Seq(S), s # <<>>
  PROVE  /\ Head(s) \in S /\ Tail(s) \in Seq(S) /\ Len(Tail(s)) = Len(s) - 1
         /\ s[1] = Head(s) /\ 1 \in DOMAIN s
         /\ \A i \in DOMAIN Tail(s) : i + 1 \in DOMAIN s /\ Tail(s)[i] = s[i + 1]
  OBVIOUS

(* A marker survives when something else is taken from the front. *)
LEMMA TailKeepsReady ==
  ASSUME NEW S, NEW s \in Seq(S), s # <<>>, Head(s) # Ready, HasReady(s)
  PROVE  HasReady(Tail(s))
<1>1. PICK i \in DOMAIN s : s[i] = Ready
  BY DEF HasReady
<1>2. i # 1 /\ i - 1 \in DOMAIN Tail(s) /\ Tail(s)[i - 1] = Ready
  BY <1>1, TailType
<1> QED
  BY <1>2 DEF HasReady

LEMMA AppendKeepsReady ==
  ASSUME NEW S, NEW s \in Seq(S), NEW e \in S
  PROVE  /\ HasReady(s) => HasReady(Append(s, e))
         /\ e = Ready => HasReady(Append(s, e))
         /\ Append(s, e) # <<>> /\ Append(s, e) \in Seq(S)
         /\ Len(Append(s, e)) = Len(s) + 1
         /\ \A i \in DOMAIN Append(s, e) :
              \/ Append(s, e)[i] = e
              \/ i \in DOMAIN s /\ Append(s, e)[i] = s[i]
<1>1. Append(s, e) \in Seq(S) /\ Len(Append(s, e)) = Len(s) + 1
  OBVIOUS
<1>7. Append(s, e) # <<>>
  <2>1. Len(s) \in Nat
    OBVIOUS
  <2>2. Len(<<>>) = 0
    OBVIOUS
  <2> QED
    BY <1>1, <2>1, <2>2
<1>2. \A i \in DOMAIN s : i \in DOMAIN Append(s, e) /\ Append(s, e)[i] = s[i]
  OBVIOUS
<1>3. Len(s) + 1 \in DOMAIN Append(s, e) /\ Append(s, e)[Len(s) + 1] = e
  OBVIOUS
<1>4. \A i \in DOMAIN Append(s, e) : i = Len(s) + 1 \/ i \in DOMAIN s
  BY <1>1
<1>5. HasReady(s) => HasReady(Append(s, e))
  BY <1>2 DEF HasReady
<1>6. e = Ready => HasReady(Append(s, e))
  BY <1>3 DEF HasReady
<1> QED
  BY <1>1, <1>2, <1>3, <1>4, <1>5, <1>6, <1>7

LEMMA PutBack ==
  ASSUME NEW S, NEW e \in S, NEW s \in Seq(S)
  PROVE  /\ <<e>> \o s \in Seq(S) /\ <<e>> \o s # <<>>
         /\ e = Ready => HasReady(<<e>> \o s)
         /\ HasReady(s) => HasReady(<<e>> \o s)
         /\ \A i \in DOMAIN (<<e>> \o s) :
              \/ i = 1 /\ (<<e>> \o s)[i] = e
              \/ i - 1 \in DOMAIN s /\ (<<e>> \o s)[i] = s[i - 1]
<1>1. <<e>> \o s \in Seq(S) /\ Len(<<e>> \o s) = Len(s) + 1
  OBVIOUS
<1>2. (<<e>> \o s)[1] = e /\ 1 \in DOMAIN (<<e>> \o s)
  OBVIOUS
<1>3. \A i \in DOMAIN s : i + 1 \in DOMAIN (<<e>> \o s) /\ (<<e>> \o s)[i + 1] = s[i]
  OBVIOUS
<1>4. \A i \in DOMAIN (<<e>> \o s) : i = 1 \/ i - 1 \in DOMAIN s
  BY <1>1
<1>5. HasReady(s) => HasReady(<<e>> \o s)
  BY <1>3 DEF HasReady
<1>6. e = Ready => HasReady(<<e>> \o s)
  BY <1>2 DEF HasReady
<1>7. <<e>> \o s # <<>>
  BY <1>1
<1>8. ASSUME NEW i \in DOMAIN (<<e>> \o s), i # 1
      PROVE  i - 1 \in DOMAIN s /\ (<<e>> \o s)[i] = s[i - 1]
  BY <1>3, <1>4, <1>8
<1> QED
  BY <1>1, <1>2, <1>5, <1>6, <1>7, <1>8

LEMMA EventKinds ==
  /\ Ready \in LoopEvents /\ Failed \in LoopEvents
  /\ ~IsKey(Ready) /\ ~IsKey(Failed) /\ ~IsKey(Nothing)
  /\ Ready # Failed /\ Ready # Nothing /\ Failed # Nothing
  /\ Nothing \notin LoopEvents
  /\ \A k \in 1..MaxKeys : Key(k) \in LoopEvents
  /\ \A e \in LoopEvents :
       /\ IsKey(e) => e.no \in 1..MaxKeys /\ e \in {Key(k) : k \in 1..MaxKeys} /\ e # Ready
       /\ ~IsKey(e) => e \in {Ready, Failed}
<1> USE DEF Key, Ready, Failed, Nothing, IsKey
<1>1. Ready \in LoopEvents /\ Failed \in LoopEvents
  BY DEF LoopEvents
<1>2. ~IsKey(Ready) /\ ~IsKey(Failed) /\ ~IsKey(Nothing)
  OBVIOUS
<1>3. Ready.kind = "ready" /\ Failed.kind = "failed" /\ Nothing.kind = "nothing"
  OBVIOUS
<1>4. \A k \in 1..MaxKeys : Key(k) \in LoopEvents
  BY DEF LoopEvents
<1>5. \A k : Key(k).kind = "key" /\ Key(k).no = k
  OBVIOUS
<1>6. Ready # Failed /\ Ready # Nothing /\ Failed # Nothing
  BY <1>3
<1>7. Nothing \notin LoopEvents
  BY <1>3, <1>5 DEF LoopEvents
<1>8. ASSUME NEW e \in LoopEvents, IsKey(e)
      PROVE  e.no \in 1..MaxKeys /\ e \in {Key(k) : k \in 1..MaxKeys} /\ e # Ready
  <2>1. e # Ready /\ e # Failed
    BY <1>2, <1>8
  <2>2. PICK k \in 1..MaxKeys : e = Key(k)
    BY <2>1 DEF LoopEvents
  <2> QED
    BY <1>5, <2>1, <2>2
<1>9. ASSUME NEW e \in LoopEvents, ~IsKey(e) PROVE e \in {Ready, Failed}
  BY <1>5, <1>9 DEF LoopEvents
<1> QED
  BY <1>1, <1>2, <1>4, <1>6, <1>7, <1>8, <1>9

LEMMA KeysOfType ==
  ASSUME NEW s \in Seq(LoopEvents \cup {Nothing})
  PROVE  KeysOf(s) \subseteq 1..MaxKeys
  BY EventKinds DEF KeysOf

-----------------------------------------------------------------------------
(* Types. *)

LEMMA TypeInit == Init => TypeOK
<1> SUFFICES ASSUME Init PROVE TypeOK
  OBVIOUS
<1>1. queue \in Seq(LoopEvents) /\ Len(queue) <= Capacity
  BY ConstantsAssumption DEF Init
<1>2. pending \in Seq(LoopEvents) /\ burst \in Seq({Key(k) : k \in 1..MaxKeys})
  BY DEF Init
<1>3. got \in LoopEvents \cup {Nothing} /\ held \in (LoopEvents \cup {Nothing}) \ {Ready}
  BY EventKinds DEF Init
<1>4. wake \in [Wakers -> {"idle", "swap", "send", "full", "resend"}]
  BY DEF Init
<1>5. read \in 0..MaxKeys /\ applied \in 0..MaxKeys /\ discarded \subseteq 1..MaxKeys
  BY ConstantsAssumption DEF Init
<1> QED
  BY <1>1, <1>2, <1>3, <1>4, <1>5 DEF Init, TypeOK

(* An event that the input thread tries to queue is queued or held back. *)
LEMMA TryQueueType ==
  ASSUME TypeOK, NEW e \in LoopEvents \ {Ready}, TryQueue(e)
  PROVE  /\ queue' \in Seq(LoopEvents) /\ Len(queue') <= Capacity
         /\ held' \in (LoopEvents \cup {Nothing}) \ {Ready}
<1> USE ConstantsAssumption DEF TypeOK
<1>1. CASE HasRoom
  <2>1. queue' = Append(queue, e) /\ held' = Nothing
    BY <1>1 DEF TryQueue
  <2>2. queue' \in Seq(LoopEvents) /\ Len(queue') = Len(queue) + 1
    BY <2>1, AppendKeepsReady
  <2>3. Len(queue') <= Capacity
    BY <1>1, <2>2 DEF HasRoom
  <2> QED
    BY <2>1, <2>2, <2>3, EventKinds
<1>2. CASE ~HasRoom
  BY <1>2 DEF TryQueue
<1> QED
  BY <1>1, <1>2

(* Taking the next event, set aside or queued. *)
LEMMA TakeNextType ==
  ASSUME TypeOK, ~IsQuiet, TakeNext
  PROVE  /\ NextEvent \in LoopEvents /\ Others \in Seq(LoopEvents)
         /\ queue' \in Seq(LoopEvents) /\ Len(queue') <= Capacity /\ permit' \in BOOLEAN
<1> USE DEF TypeOK, TakeNext, NextEvent, Others, IsQuiet, queueVars
<1>1. CASE pending # <<>>
  BY <1>1, TailType
<1>2. CASE pending = <<>>
  <2>1. queue # <<>> /\ queue' = Tail(queue) /\ NextEvent = Head(queue) /\ Others = pending
    BY <1>2
  <2>2. Head(queue) \in LoopEvents /\ Tail(queue) \in Seq(LoopEvents)
        /\ Len(Tail(queue)) = Len(queue) - 1
    BY <2>1, TailType
  <2>3. Len(Tail(queue)) <= Capacity
    BY <2>2, ConstantsAssumption
  <2> QED
    BY <1>2, <2>1, <2>2, <2>3
<1> QED
  BY <1>1, <1>2

(* Every step keeps the queue within its capacity and every variable well
   typed; what a pause retains needs that no key is set aside. *)
LEMMA TypeStep == TypeOK /\ KeysAreNotSetAside /\ [Next]_vars => TypeOK'
<1> SUFFICES ASSUME TypeOK, KeysAreNotSetAside, [Next]_vars PROVE TypeOK'
  OBVIOUS
<1> USE ConstantsAssumption, EventKinds DEF TypeOK, Wakers, queueVars, wakeVars,
     uiVars, inputVars, ghostVars, Goto, At
<1>1. ASSUME NEW p \in Producers, Push(p) PROVE TypeOK'
  BY <1>1 DEF Push
<1>2. ASSUME NEW w \in Wakers, Swap(w) PROVE TypeOK'
  BY <1>2 DEF Swap
<1>3. ASSUME NEW w \in Wakers, SendMarker(w) PROVE TypeOK'
  <2>1. queue' \in Seq(LoopEvents) /\ Len(queue') <= Capacity
    <3>1. CASE HasRoom /\ queue' = Append(queue, Ready)
      <4>1. queue' \in Seq(LoopEvents) /\ Len(queue') = Len(queue) + 1
        BY <3>1, AppendKeepsReady
      <4> QED
        BY <3>1, <4>1 DEF HasRoom
    <3>2. CASE queue' = queue
      BY <3>2
    <3>3. (HasRoom /\ queue' = Append(queue, Ready)) \/ queue' = queue
      BY ONLY <1>3 DEF SendMarker
    <3> QED
      BY ONLY <3>1, <3>2, <3>3
  <2>2. wake' \in [Wakers -> {"idle", "swap", "send", "full", "resend"}]
    BY <1>3 DEF SendMarker
  <2>3. UNCHANGED <<permit, isPending, unseen, uiVars, failure, inputVars, command, ghostVars>>
    BY <1>3 DEF SendMarker
  <2> QED
    BY <2>1, <2>2, <2>3
<1>4. ASSUME NEW w \in Wakers, ClearPending(w) PROVE TypeOK'
  <2>1. wake' \in [Wakers -> {"idle", "swap", "send", "full", "resend"}]
    BY <1>4 DEF ClearPending
  <2>2. /\ isPending' \in BOOLEAN
        /\ UNCHANGED <<queueVars, unseen, uiVars, failure, inputVars, command, ghostVars>>
    BY ONLY <1>4 DEF ClearPending
  <2> QED
    BY <2>1, <2>2
<1>5. ASSUME NEW w \in Wakers, ResendMarker(w) PROVE TypeOK'
  <2>1. queue' \in Seq(LoopEvents) /\ Len(queue') <= Capacity
    <3>1. CASE HasRoom /\ queue' = Append(queue, Ready)
      <4>1. queue' \in Seq(LoopEvents) /\ Len(queue') = Len(queue) + 1
        BY <3>1, AppendKeepsReady
      <4> QED
        BY <3>1, <4>1 DEF HasRoom
    <3>2. CASE queue' = queue
      BY <3>2
    <3>3. (HasRoom /\ queue' = Append(queue, Ready)) \/ queue' = queue
      BY ONLY <1>5 DEF ResendMarker
    <3> QED
      BY ONLY <3>1, <3>2, <3>3
  <2>2. wake' \in [Wakers -> {"idle", "swap", "send", "full", "resend"}]
    BY <1>5 DEF ResendMarker
  <2>3. UNCHANGED <<permit, unseen, uiVars, failure, inputVars, command, ghostVars>>
        /\ isPending' \in BOOLEAN
    BY <1>5 DEF ResendMarker
  <2> QED
    BY <2>1, <2>2, <2>3
<1>6. ASSUME NEW w \in Wakers, SendToNobody(w) PROVE TypeOK'
  BY <1>6 DEF SendToNobody
<1>7. CASE ReadTerminal
  <2>1. CASE read < MaxKeys /\ TryQueue(Key(read + 1)) /\ read' = read + 1 /\ source' = TRUE
    <3>1. Key(read + 1) \in LoopEvents \ {Ready} /\ read' \in 0..MaxKeys
      BY <2>1 DEF Key, Ready
    <3>2. /\ queue' \in Seq(LoopEvents) /\ Len(queue') <= Capacity
          /\ held' \in (LoopEvents \cup {Nothing}) \ {Ready}
      BY <2>1, <3>1, TryQueueType
    <3> QED
      BY <1>7, <2>1, <3>1, <3>2 DEF ReadTerminal
  <2>2. CASE TryQueue(Failed) /\ source' = FALSE /\ read' = read
    <3>1. /\ queue' \in Seq(LoopEvents) /\ Len(queue') <= Capacity
          /\ held' \in (LoopEvents \cup {Nothing}) \ {Ready}
      BY <2>2, TryQueueType
    <3> QED
      BY <1>7, <2>2, <3>1 DEF ReadTerminal
  <2> QED
    BY <1>7, <2>1, <2>2 DEF ReadTerminal
<1>8. CASE RetryHeld
  <2>1. /\ queue' \in Seq(LoopEvents) /\ Len(queue') <= Capacity
        /\ held' \in (LoopEvents \cup {Nothing}) \ {Ready}
    BY <1>8, TryQueueType DEF RetryHeld
  <2> QED
    BY <1>8, <2>1 DEF RetryHeld
<1>9. CASE ObeyPause
  <2>1. discarded' \subseteq 1..MaxKeys
    <3>1. <<held>> \in Seq(LoopEvents \cup {Nothing})
      OBVIOUS
    <3>2. KeysOf(<<held>>) \subseteq 1..MaxKeys
      BY <3>1, KeysOfType
    <3>3. discarded' = discarded \cup KeysOf(<<held>>)
      BY <1>9 DEF ObeyPause, DroppedHeld
    <3> QED
      BY <3>2, <3>3
  <2> QED
    BY <1>9, <2>1 DEF ObeyPause
<1>10. CASE ObeyResume
  BY <1>10 DEF ObeyResume
<1>11. CASE ObeyShutdown
  <2>1. discarded' \subseteq 1..MaxKeys
    <3>1. <<held>> \in Seq(LoopEvents \cup {Nothing})
      OBVIOUS
    <3>2. KeysOf(<<held>>) \subseteq 1..MaxKeys
      BY <3>1, KeysOfType
    <3>3. discarded' = discarded \cup KeysOf(<<held>>)
      BY <1>11 DEF ObeyShutdown, DroppedHeld
    <3> QED
      BY <3>2, <3>3
  <2> QED
    BY <1>11, <2>1 DEF ObeyShutdown
<1>12. CASE Panic
  BY <1>12 DEF Panic
<1>13. ASSUME NEW p \in Producers, Drain(p) PROVE TypeOK'
  BY <1>13 DEF Drain
<1>14. CASE EndRound
  BY <1>14 DEF EndRound
<1>15. CASE Wait
  BY <1>15 DEF Wait, TakeFailure, Leave
<1>16. CASE Receive
  <2>1. CASE ~IsQuiet /\ got' = NextEvent /\ TakeNext /\ pending' = Others
    <3>1. /\ NextEvent \in LoopEvents /\ Others \in Seq(LoopEvents)
          /\ queue' \in Seq(LoopEvents) /\ Len(queue') <= Capacity /\ permit' \in BOOLEAN
      BY <2>1, TakeNextType
    <3> QED
      BY <1>16, <2>1, <3>1 DEF Receive
  <2>2. CASE got' = Nothing /\ UNCHANGED <<queueVars, pending>>
    BY <1>16, <2>2 DEF Receive
  <2> QED
    BY <1>16, <2>1, <2>2 DEF Receive
<1>17. CASE Handle
  <2>1. pending' \in Seq(LoopEvents)
    <3>1. got # Nothing => <<got>> \o pending \in Seq(LoopEvents)
      BY PutBack
    <3>2. \/ pending' = pending
          \/ got # Nothing /\ pending' = <<got>> \o pending
      <4>1. CASE pending' = IF got = Nothing THEN pending ELSE <<got>> \o pending
        BY <4>1
      <4>2. CASE pending' = pending
        BY <4>2
      <4> QED
        BY <1>17, <4>1, <4>2 DEF Handle
    <3> QED
      BY <3>1, <3>2
  <2>2. burst' \in Seq({Key(k) : k \in 1..MaxKeys})
    <3>1. CASE IsKey(got)
      <4>1. <<got>> \in Seq({Key(k) : k \in 1..MaxKeys})
        BY <3>1
      <4> QED
        BY <1>17, <4>1 DEF Handle
    <3>2. CASE ~IsKey(got)
      BY <1>17, <3>2 DEF Handle
    <3> QED
      BY <3>1, <3>2
  <2>3. isPending' \in BOOLEAN /\ failure' \in BOOLEAN
    BY <1>17 DEF Handle, TakeFailure
  <2>4. ui' \in {"drain", "burst", "closing"} /\ command' \in {"shutdown", command}
        /\ unread' \subseteq Producers
    BY <1>17 DEF Handle, TakeFailure, Leave, StartRound
  <2> QED
    BY <1>17, <2>1, <2>2, <2>3, <2>4 DEF Handle
<1>18. CASE Collect
  <2>1. /\ NextEvent \in LoopEvents /\ Others \in Seq(LoopEvents)
        /\ queue' \in Seq(LoopEvents) /\ Len(queue') <= Capacity /\ permit' \in BOOLEAN
    BY <1>18, TakeNextType DEF Collect
  <2>2. pending' \in Seq(LoopEvents)
    <3>1. <<Ready>> \o Others \in Seq(LoopEvents)
      BY <2>1, PutBack
    <3>2. burst \in Seq(LoopEvents)
      OBVIOUS
    <3>3. burst \o Others \in Seq(LoopEvents)
      BY <2>1, <3>2
    <3>4. \/ pending' = Others
          \/ pending' = <<Ready>> \o Others
          \/ pending' = burst \o Others
      BY <1>18 DEF Collect
    <3> QED
      BY <2>1, <3>1, <3>3, <3>4
  <2>3. burst' \in Seq({Key(k) : k \in 1..MaxKeys})
    <3>1. IsKey(NextEvent)
          => Append(burst, NextEvent) \in Seq({Key(k) : k \in 1..MaxKeys})
      BY <2>1
    <3>2. \/ IsKey(NextEvent) /\ burst' = Append(burst, NextEvent)
          \/ burst' = burst
          \/ burst' = <<>>
      BY <1>18 DEF Collect
    <3>3. <<>> \in Seq({Key(k) : k \in 1..MaxKeys})
      OBVIOUS
    <3>4. CASE IsKey(NextEvent) /\ burst' = Append(burst, NextEvent)
      BY <3>1, <3>4
    <3>5. CASE burst' = burst
      BY <3>5
    <3>6. CASE burst' = <<>>
      BY <3>3, <3>6
    <3> QED
      BY <3>2, <3>4, <3>5, <3>6
  <2>4. ui' \in {"burst", "apply", "closing"} /\ command' \in {"shutdown", command}
        /\ unread' = unread
    BY <1>18 DEF Collect, Leave
  <2> QED
    BY <1>18, <2>1, <2>2, <2>3, <2>4 DEF Collect
<1>19. CASE EndBurst
  BY <1>19 DEF EndBurst
<1>20. CASE ApplyKey
  <2>1. Head(burst) \in {Key(k) : k \in 1..MaxKeys}
        /\ Tail(burst) \in Seq({Key(k) : k \in 1..MaxKeys})
    BY <1>20, TailType DEF ApplyKey
  <2>2. applied' \in 0..MaxKeys
    BY <1>20, <2>1 DEF ApplyKey, Key
  <2>3. burst' \in Seq({Key(k) : k \in 1..MaxKeys})
    <3>1. <<>> \in Seq({Key(k) : k \in 1..MaxKeys})
      OBVIOUS
    <3>2. CASE burst' = Tail(burst)
      BY <2>1, <3>2
    <3>3. CASE burst' = <<>>
      BY <3>1, <3>3
    <3> QED
      BY <1>20, <3>2, <3>3 DEF ApplyKey
  <2>4. discarded' \subseteq 1..MaxKeys
    <3>1. KeysOf(Tail(burst)) \subseteq 1..MaxKeys
      <4>1. Tail(burst) \in Seq(LoopEvents \cup {Nothing})
        BY <2>1
      <4> QED
        BY <4>1, KeysOfType
    <3>2. Later(discarded) \subseteq 1..MaxKeys
      BY DEF Later
    <3>3. discarded' \in {Later(discarded), Later(discarded) \cup KeysOf(Tail(burst))}
      BY ONLY <1>20 DEF ApplyKey
    <3> QED
      BY ONLY <3>1, <3>2, <3>3
  <2>5. ui' \in {"apply", "pausing", "closing"} /\ unread' = unread
        /\ command' \in {"shutdown", "pause", command}
    BY <1>20 DEF ApplyKey, Leave
  <2> QED
    BY <1>20, <2>2, <2>3, <2>4, <2>5, SMTT(30) DEF ApplyKey
<1>21. CASE EndApply
  BY <1>21 DEF EndApply, StartRound
<1>22. CASE PauseAcknowledged
  <2>1. pending' = pending
    BY <1>22 DEF PauseAcknowledged, Retained, KeysAreNotSetAside
  <2>2. discarded' \subseteq 1..MaxKeys
    <3>1. pending \in Seq(LoopEvents \cup {Nothing})
      OBVIOUS
    <3> QED
      BY <1>22, <3>1, KeysOfType DEF PauseAcknowledged
  <2> QED
    BY <1>22, <2>1, <2>2 DEF PauseAcknowledged
<1>23. CASE Discard
  <2>1. Head(queue) \in LoopEvents /\ Tail(queue) \in Seq(LoopEvents)
        /\ Len(Tail(queue)) = Len(queue) - 1
    BY <1>23, TailType DEF Discard
  <2>2. queue' \in Seq(LoopEvents) /\ Len(queue') <= Capacity /\ permit' = TRUE
    <3>1. queue' = Tail(queue) /\ permit' = TRUE
      BY <1>23 DEF Discard
    <3> QED
      BY <2>1, <3>1
  <2>3. pending' \in Seq(LoopEvents)
    <3>1. Append(pending, Head(queue)) \in Seq(LoopEvents)
      BY <2>1
    <3>2. pending' = pending \/ pending' = Append(pending, Head(queue))
      BY <1>23 DEF Discard
    <3> QED
      BY <3>1, <3>2
  <2>4. discarded' \subseteq 1..MaxKeys
    <3>1. IsKey(Head(queue)) => Head(queue).no \in 1..MaxKeys
      BY <2>1
    <3>2. \/ discarded' = discarded
          \/ IsKey(Head(queue)) /\ discarded' = discarded \cup {Head(queue).no}
      BY <1>23 DEF Discard
    <3> QED
      BY <3>1, <3>2
  <2> QED
    BY <1>23, <2>2, <2>3, <2>4 DEF Discard
<1>24. CASE EndDiscard
  BY <1>24 DEF EndDiscard
<1>25. CASE EndEditor
  BY <1>25 DEF EndEditor, Leave
<1>26. CASE ResumeAcknowledged
  BY <1>26 DEF ResumeAcknowledged
<1>27. CASE InputIsGone
  BY <1>27 DEF InputIsGone, Leave
<1>28. CASE JoinInput
  <2>1. queue' \in Seq(LoopEvents) /\ Len(queue') <= Capacity
    BY <1>28 DEF JoinInput
  <2>2. discarded' \subseteq 1..MaxKeys
    <3>1. queue \in Seq(LoopEvents \cup {Nothing})
      OBVIOUS
    <3> QED
      BY <1>28, <3>1, KeysOfType DEF JoinInput
  <2> QED
    BY <1>28, <2>1, <2>2 DEF JoinInput
<1>29. CASE UNCHANGED vars
  BY <1>29 DEF vars
<1> QED
  BY <1>1, <1>2, <1>3, <1>4, <1>5, <1>6, <1>7, <1>8, <1>9, <1>10, <1>11,
     <1>12, <1>13, <1>14, <1>15, <1>16, <1>17, <1>18, <1>19, <1>20,
     <1>21, <1>22, <1>23, <1>24, <1>25, <1>26, <1>27, <1>28, <1>29 DEF Next, Wake, InputStep, LoopStep

-----------------------------------------------------------------------------
(* The UI thread and the input thread. *)

(* Only wait has an event in its hands. *)
LEMMA OnlyHandleHoldsStep == OnlyHandleHolds /\ [Next]_vars => OnlyHandleHolds'
<1> SUFFICES ASSUME OnlyHandleHolds, [Next]_vars PROVE OnlyHandleHolds'
  OBVIOUS
<1> USE DEF OnlyHandleHolds, queueVars, wakeVars, uiVars, inputVars, ghostVars,
     Goto, At
<1>1. ASSUME NEW p \in Producers, Push(p) PROVE OnlyHandleHolds'
  BY <1>1 DEF Push
<1>2. ASSUME NEW w \in Wakers, Swap(w) PROVE OnlyHandleHolds'
  BY <1>2 DEF Swap
<1>3. ASSUME NEW w \in Wakers, SendMarker(w) PROVE OnlyHandleHolds'
  BY <1>3 DEF SendMarker
<1>4. ASSUME NEW w \in Wakers, ClearPending(w) PROVE OnlyHandleHolds'
  BY <1>4 DEF ClearPending
<1>5. ASSUME NEW w \in Wakers, ResendMarker(w) PROVE OnlyHandleHolds'
  BY <1>5 DEF ResendMarker
<1>6. ASSUME NEW w \in Wakers, SendToNobody(w) PROVE OnlyHandleHolds'
  BY <1>6 DEF SendToNobody
<1>7. CASE ReadTerminal
  BY <1>7 DEF ReadTerminal
<1>8. CASE RetryHeld
  BY <1>8 DEF RetryHeld
<1>9. CASE ObeyPause
  BY <1>9 DEF ObeyPause
<1>10. CASE ObeyResume
  BY <1>10 DEF ObeyResume
<1>11. CASE ObeyShutdown
  BY <1>11 DEF ObeyShutdown
<1>12. CASE Panic
  BY <1>12 DEF Panic
<1>13. ASSUME NEW p \in Producers, Drain(p) PROVE OnlyHandleHolds'
  BY <1>13 DEF Drain
<1>14. CASE EndRound
  BY <1>14 DEF EndRound
<1>15. CASE Wait
  BY <1>15 DEF Wait
<1>16. CASE Receive
  BY <1>16 DEF Receive
<1>17. CASE Handle
  BY <1>17 DEF Handle, StartRound, Leave, TakeFailure
<1>18. CASE Collect
  BY <1>18 DEF Collect
<1>19. CASE EndBurst
  BY <1>19 DEF EndBurst
<1>20. CASE ApplyKey
  BY <1>20 DEF ApplyKey
<1>21. CASE EndApply
  BY <1>21 DEF EndApply
<1>22. CASE PauseAcknowledged
  BY <1>22 DEF PauseAcknowledged
<1>23. CASE Discard
  BY <1>23 DEF Discard
<1>24. CASE EndDiscard
  BY <1>24 DEF EndDiscard
<1>25. CASE EndEditor
  BY <1>25 DEF EndEditor
<1>26. CASE ResumeAcknowledged
  BY <1>26 DEF ResumeAcknowledged
<1>27. CASE InputIsGone
  BY <1>27 DEF InputIsGone
<1>28. CASE JoinInput
  BY <1>28 DEF JoinInput
<1>29. CASE UNCHANGED vars
  BY <1>29 DEF vars
<1> QED
  BY <1>1, <1>2, <1>3, <1>4, <1>5, <1>6, <1>7, <1>8, <1>9, <1>10, <1>11,
     <1>12, <1>13, <1>14, <1>15, <1>16, <1>17, <1>18, <1>19, <1>20,
     <1>21, <1>22, <1>23, <1>24, <1>25, <1>26, <1>27, <1>28, <1>29 DEF Next, Wake, InputStep, LoopStep

(* The UI thread looks for work only when every receiver was drained. *)
LEMMA RoundIsOverStep == RoundIsOver /\ [Next]_vars => RoundIsOver'
<1> SUFFICES ASSUME RoundIsOver, [Next]_vars PROVE RoundIsOver'
  OBVIOUS
<1> USE DEF RoundIsOver, queueVars, wakeVars, uiVars, inputVars, ghostVars, Goto, At
<1>1. ASSUME NEW p \in Producers, Push(p) PROVE RoundIsOver'
  BY <1>1 DEF Push
<1>2. ASSUME NEW w \in Wakers, Swap(w) PROVE RoundIsOver'
  BY <1>2 DEF Swap
<1>3. ASSUME NEW w \in Wakers, SendMarker(w) PROVE RoundIsOver'
  BY <1>3 DEF SendMarker
<1>4. ASSUME NEW w \in Wakers, ClearPending(w) PROVE RoundIsOver'
  BY <1>4 DEF ClearPending
<1>5. ASSUME NEW w \in Wakers, ResendMarker(w) PROVE RoundIsOver'
  BY <1>5 DEF ResendMarker
<1>6. ASSUME NEW w \in Wakers, SendToNobody(w) PROVE RoundIsOver'
  BY <1>6 DEF SendToNobody
<1>7. CASE ReadTerminal
  BY <1>7 DEF ReadTerminal
<1>8. CASE RetryHeld
  BY <1>8 DEF RetryHeld
<1>9. CASE ObeyPause
  BY <1>9 DEF ObeyPause
<1>10. CASE ObeyResume
  BY <1>10 DEF ObeyResume
<1>11. CASE ObeyShutdown
  BY <1>11 DEF ObeyShutdown
<1>12. CASE Panic
  BY <1>12 DEF Panic
<1>13. ASSUME NEW p \in Producers, Drain(p) PROVE RoundIsOver'
  BY <1>13 DEF Drain
<1>14. CASE EndRound
  BY <1>14 DEF EndRound
<1>15. CASE Wait
  BY <1>15 DEF Wait, Leave, TakeFailure
<1>16. CASE Receive
  BY <1>16 DEF Receive
<1>17. CASE Handle
  BY <1>17 DEF Handle, StartRound, Leave, TakeFailure
<1>18. CASE Collect
  BY <1>18 DEF Collect, Leave
<1>19. CASE EndBurst
  BY <1>19 DEF EndBurst
<1>20. CASE ApplyKey
  BY <1>20 DEF ApplyKey, Leave
<1>21. CASE EndApply
  BY <1>21 DEF EndApply, StartRound
<1>22. CASE PauseAcknowledged
  BY <1>22 DEF PauseAcknowledged
<1>23. CASE Discard
  BY <1>23 DEF Discard
<1>24. CASE EndDiscard
  BY <1>24 DEF EndDiscard
<1>25. CASE EndEditor
  BY <1>25 DEF EndEditor, Leave
<1>26. CASE ResumeAcknowledged
  BY <1>26 DEF ResumeAcknowledged
<1>27. CASE InputIsGone
  BY <1>27 DEF InputIsGone, Leave
<1>28. CASE JoinInput
  BY <1>28 DEF JoinInput
<1>29. CASE UNCHANGED vars
  BY <1>29 DEF vars
<1> QED
  BY <1>1, <1>2, <1>3, <1>4, <1>5, <1>6, <1>7, <1>8, <1>9, <1>10, <1>11,
     <1>12, <1>13, <1>14, <1>15, <1>16, <1>17, <1>18, <1>19, <1>20,
     <1>21, <1>22, <1>23, <1>24, <1>25, <1>26, <1>27, <1>28, <1>29 DEF Next, Wake, InputStep, LoopStep

(* Markers and failures are put back, never a key. *)
LEMMA KeysAreNotSetAsideStep ==
  /\ TypeOK
  /\ KeysAreNotSetAside
  /\ [Next]_vars
  => KeysAreNotSetAside'
<1> SUFFICES ASSUME TypeOK, KeysAreNotSetAside, [Next]_vars PROVE
     KeysAreNotSetAside'
  OBVIOUS
<1> USE EventKinds DEF KeysAreNotSetAside, queueVars, wakeVars, uiVars, inputVars,
     ghostVars, Goto, At
<1>1. ASSUME NEW p \in Producers, Push(p) PROVE KeysAreNotSetAside'
  BY <1>1 DEF Push
<1>2. ASSUME NEW w \in Wakers, Swap(w) PROVE KeysAreNotSetAside'
  BY <1>2 DEF Swap
<1>3. ASSUME NEW w \in Wakers, SendMarker(w) PROVE KeysAreNotSetAside'
  BY <1>3 DEF SendMarker
<1>4. ASSUME NEW w \in Wakers, ClearPending(w) PROVE KeysAreNotSetAside'
  BY <1>4 DEF ClearPending
<1>5. ASSUME NEW w \in Wakers, ResendMarker(w) PROVE KeysAreNotSetAside'
  BY <1>5 DEF ResendMarker
<1>6. ASSUME NEW w \in Wakers, SendToNobody(w) PROVE KeysAreNotSetAside'
  BY <1>6 DEF SendToNobody
<1>7. CASE ReadTerminal
  BY <1>7 DEF ReadTerminal
<1>8. CASE RetryHeld
  BY <1>8 DEF RetryHeld
<1>9. CASE ObeyPause
  BY <1>9 DEF ObeyPause
<1>10. CASE ObeyResume
  BY <1>10 DEF ObeyResume
<1>11. CASE ObeyShutdown
  BY <1>11 DEF ObeyShutdown
<1>12. CASE Panic
  BY <1>12 DEF Panic
<1>13. ASSUME NEW p \in Producers, Drain(p) PROVE KeysAreNotSetAside'
  BY <1>13 DEF Drain
<1>14. CASE EndRound
  BY <1>14 DEF EndRound
<1>15. CASE Wait
  BY <1>15 DEF Wait, Leave, TakeFailure
<1>16. CASE Receive
  <2>1. ui = "receive" /\ (pending' = pending \/ pending' = Others)
    BY <1>16 DEF Receive
  <2>2. pending \in Seq(LoopEvents)
    BY DEF TypeOK
  <2>3. Others = pending \/ (pending # <<>> /\ Others = Tail(pending))
    BY DEF Others
  <2>4. \A i \in DOMAIN Others : ~IsKey(Others[i])
    BY <2>1, <2>2, <2>3, TailType
  <2> QED
    BY <2>1, <2>4
<1>17. CASE Handle
  <2>1. pending' = pending \/ ui' = "closing"
    BY <1>17 DEF Handle, TakeFailure, Leave
  <2> QED
    BY <1>17, <2>1 DEF Handle
<1>18. CASE Collect
  <2>1. ui = "burst"
    BY <1>18 DEF Collect
  <2>2. pending \in Seq(LoopEvents)
    BY DEF TypeOK
  <2>3. Others = pending \/ (pending # <<>> /\ Others = Tail(pending))
    BY DEF Others
  <2>4. \A i \in DOMAIN Others : ~IsKey(Others[i])
    BY <2>1, <2>2, <2>3, TailType
  <2>5. Others \in Seq(LoopEvents)
    BY <2>2, <2>3, TailType
  <2>6. \A i \in DOMAIN (<<Ready>> \o Others) : ~IsKey((<<Ready>> \o Others)[i])
    BY <2>4, <2>5, PutBack
  <2>7. pending' = Others \/ pending' = <<Ready>> \o Others \/ ui' = "closing"
    BY <1>18 DEF Collect, Leave
  <2> QED
    BY <2>4, <2>6, <2>7
<1>19. CASE EndBurst
  BY <1>19 DEF EndBurst
<1>20. CASE ApplyKey
  BY <1>20 DEF ApplyKey, Leave
<1>21. CASE EndApply
  BY <1>21 DEF EndApply, StartRound
<1>22. CASE PauseAcknowledged
  BY <1>22 DEF PauseAcknowledged, Retained
<1>23. CASE Discard
  <2>1. Head(queue) \in LoopEvents /\ pending \in Seq(LoopEvents)
    BY <1>23, TailType DEF Discard, TypeOK
  <2>2. \/ pending' = pending
        \/ ~IsKey(Head(queue)) /\ pending' = Append(pending, Head(queue))
    BY <1>23 DEF Discard
  <2>3. ui' = ui /\ ui = "discard"
    BY <1>23 DEF Discard
  <2> QED
    BY <2>1, <2>2, <2>3, AppendKeepsReady
<1>24. CASE EndDiscard
  BY <1>24 DEF EndDiscard
<1>25. CASE EndEditor
  BY <1>25 DEF EndEditor, Leave
<1>26. CASE ResumeAcknowledged
  BY <1>26 DEF ResumeAcknowledged
<1>27. CASE InputIsGone
  BY <1>27 DEF InputIsGone, Leave
<1>28. CASE JoinInput
  BY <1>28 DEF JoinInput
<1>29. CASE UNCHANGED vars
  BY <1>29 DEF vars
<1> QED
  BY <1>1, <1>2, <1>3, <1>4, <1>5, <1>6, <1>7, <1>8, <1>9, <1>10, <1>11,
     <1>12, <1>13, <1>14, <1>15, <1>16, <1>17, <1>18, <1>19, <1>20,
     <1>21, <1>22, <1>23, <1>24, <1>25, <1>26, <1>27, <1>28, <1>29 DEF Next, Wake, InputStep, LoopStep

(* What a pause establishes lasts until the thread is told to resume. *)
LEMMA PausedInputIsSilentStep ==
  /\ TypeOK
  /\ PausedInputIsSilent
  /\ [Next]_vars
  => PausedInputIsSilent'
<1> SUFFICES ASSUME TypeOK, PausedInputIsSilent, [Next]_vars PROVE
     PausedInputIsSilent'
  OBVIOUS
<1> USE EventKinds DEF PausedInputIsSilent, queueVars, wakeVars, uiVars, inputVars,
     ghostVars, Goto, At
<1>1. ASSUME NEW p \in Producers, Push(p) PROVE PausedInputIsSilent'
  BY <1>1 DEF Push
<1>2. ASSUME NEW w \in Wakers, Swap(w) PROVE PausedInputIsSilent'
  BY <1>2 DEF Swap
<1>3. ASSUME NEW w \in Wakers, SendMarker(w) PROVE PausedInputIsSilent'
  <2>1. UNCHANGED <<ui, command, source, held>> /\ (queue' = queue \/ queue' = Append(queue, Ready))
    BY <1>3 DEF SendMarker
  <2>2. queue \in Seq(LoopEvents)
    BY DEF TypeOK
  <2> QED
    BY <2>1, <2>2, AppendKeepsReady
<1>4. ASSUME NEW w \in Wakers, ClearPending(w) PROVE PausedInputIsSilent'
  BY <1>4 DEF ClearPending
<1>5. ASSUME NEW w \in Wakers, ResendMarker(w) PROVE PausedInputIsSilent'
  <2>1. UNCHANGED <<ui, command, source, held>> /\ (queue' = queue \/ queue' = Append(queue, Ready))
    BY <1>5 DEF ResendMarker
  <2>2. queue \in Seq(LoopEvents)
    BY DEF TypeOK
  <2> QED
    BY <2>1, <2>2, AppendKeepsReady
<1>6. ASSUME NEW w \in Wakers, SendToNobody(w) PROVE PausedInputIsSilent'
  BY <1>6 DEF SendToNobody
<1>7. CASE ReadTerminal
  BY <1>7 DEF ReadTerminal
<1>8. CASE RetryHeld
  BY <1>8 DEF RetryHeld
<1>9. CASE ObeyPause
  BY <1>9 DEF ObeyPause
<1>10. CASE ObeyResume
  BY <1>10 DEF ObeyResume
<1>11. CASE ObeyShutdown
  BY <1>11 DEF ObeyShutdown
<1>12. CASE Panic
  BY <1>12 DEF Panic
<1>13. ASSUME NEW p \in Producers, Drain(p) PROVE PausedInputIsSilent'
  BY <1>13 DEF Drain
<1>14. CASE EndRound
  BY <1>14 DEF EndRound
<1>15. CASE Wait
  BY <1>15 DEF Wait, Leave, TakeFailure
<1>16. CASE Receive
  BY <1>16 DEF Receive
<1>17. CASE Handle
  BY <1>17 DEF Handle, StartRound, Leave, TakeFailure
<1>18. CASE Collect
  BY <1>18 DEF Collect, Leave
<1>19. CASE EndBurst
  BY <1>19 DEF EndBurst
<1>20. CASE ApplyKey
  BY <1>20 DEF ApplyKey, Leave
<1>21. CASE EndApply
  BY <1>21 DEF EndApply, StartRound
<1>22. CASE PauseAcknowledged
  BY <1>22 DEF PauseAcknowledged
<1>23. CASE Discard
  BY <1>23 DEF Discard
<1>24. CASE EndDiscard
  <2>1. DOMAIN queue' = {}
    BY <1>24 DEF EndDiscard
  <2>2. ui = "discard" /\ UNCHANGED <<command, source, held>>
    BY <1>24 DEF EndDiscard
  <2> QED
    BY <1>24, <2>1, <2>2 DEF EndDiscard
<1>25. CASE EndEditor
  BY <1>25 DEF EndEditor, Leave
<1>26. CASE ResumeAcknowledged
  BY <1>26 DEF ResumeAcknowledged
<1>27. CASE InputIsGone
  BY <1>27 DEF InputIsGone, Leave
<1>28. CASE JoinInput
  BY <1>28 DEF JoinInput
<1>29. CASE UNCHANGED vars
  BY <1>29 DEF vars
<1> QED
  BY <1>1, <1>2, <1>3, <1>4, <1>5, <1>6, <1>7, <1>8, <1>9, <1>10, <1>11,
     <1>12, <1>13, <1>14, <1>15, <1>16, <1>17, <1>18, <1>19, <1>20,
     <1>21, <1>22, <1>23, <1>24, <1>25, <1>26, <1>27, <1>28, <1>29 DEF Next, Wake, InputStep, LoopStep

(* An event is held back only when the queue is full, and each slot given back
   leaves a permit. *)
LEMMA HeldBehindAFullQueueStep ==
  /\ TypeOK
  /\ HeldBehindAFullQueue
  /\ [Next]_vars
  => HeldBehindAFullQueue'
<1> SUFFICES ASSUME TypeOK, HeldBehindAFullQueue, [Next]_vars PROVE
     HeldBehindAFullQueue'
  OBVIOUS
<1> USE ConstantsAssumption DEF HeldBehindAFullQueue, queueVars, wakeVars, uiVars,
     inputVars, ghostVars, Goto, At
<1>1. ASSUME NEW p \in Producers, Push(p) PROVE HeldBehindAFullQueue'
  BY <1>1 DEF Push
<1>2. ASSUME NEW w \in Wakers, Swap(w) PROVE HeldBehindAFullQueue'
  BY <1>2 DEF Swap
<1>3. ASSUME NEW w \in Wakers, SendMarker(w) PROVE HeldBehindAFullQueue'
  <2>1. UNCHANGED <<ui, permit, held>> /\ (queue' = queue \/ HasRoom)
    BY <1>3 DEF SendMarker
  <2> QED
    BY <2>1, <1>3 DEF HasRoom, SendMarker
<1>4. ASSUME NEW w \in Wakers, ClearPending(w) PROVE HeldBehindAFullQueue'
  BY <1>4 DEF ClearPending
<1>5. ASSUME NEW w \in Wakers, ResendMarker(w) PROVE HeldBehindAFullQueue'
  <2>1. UNCHANGED <<ui, permit, held>> /\ (queue' = queue \/ HasRoom)
    BY <1>5 DEF ResendMarker
  <2> QED
    BY <2>1, <1>5 DEF HasRoom, ResendMarker
<1>6. ASSUME NEW w \in Wakers, SendToNobody(w) PROVE HeldBehindAFullQueue'
  BY <1>6 DEF SendToNobody
<1>7. CASE ReadTerminal
  <2>1. held' = Nothing \/ (~HasRoom /\ queue' = queue)
    BY <1>7 DEF ReadTerminal, TryQueue
  <2> QED
    BY <2>1 DEF HasRoom, TypeOK
<1>8. CASE RetryHeld
  <2>1. held' = Nothing \/ (~HasRoom /\ queue' = queue)
    BY <1>8 DEF RetryHeld, TryQueue
  <2> QED
    BY <2>1 DEF HasRoom, TypeOK
<1>9. CASE ObeyPause
  BY <1>9 DEF ObeyPause
<1>10. CASE ObeyResume
  BY <1>10 DEF ObeyResume
<1>11. CASE ObeyShutdown
  BY <1>11 DEF ObeyShutdown
<1>12. CASE Panic
  BY <1>12 DEF Panic
<1>13. ASSUME NEW p \in Producers, Drain(p) PROVE HeldBehindAFullQueue'
  BY <1>13 DEF Drain
<1>14. CASE EndRound
  BY <1>14 DEF EndRound
<1>15. CASE Wait
  BY <1>15 DEF Wait, Leave, TakeFailure
<1>16. CASE Receive
  BY <1>16 DEF Receive, TakeNext
<1>17. CASE Handle
  BY <1>17 DEF Handle, StartRound, Leave, TakeFailure
<1>18. CASE Collect
  BY <1>18 DEF Collect, Leave, TakeNext
<1>19. CASE EndBurst
  BY <1>19 DEF EndBurst
<1>20. CASE ApplyKey
  BY <1>20 DEF ApplyKey, Leave
<1>21. CASE EndApply
  BY <1>21 DEF EndApply, StartRound
<1>22. CASE PauseAcknowledged
  BY <1>22 DEF PauseAcknowledged
<1>23. CASE Discard
  BY <1>23 DEF Discard
<1>24. CASE EndDiscard
  BY <1>24 DEF EndDiscard
<1>25. CASE EndEditor
  BY <1>25 DEF EndEditor, Leave
<1>26. CASE ResumeAcknowledged
  BY <1>26 DEF ResumeAcknowledged
<1>27. CASE InputIsGone
  BY <1>27 DEF InputIsGone, Leave
<1>28. CASE JoinInput
  BY <1>28 DEF JoinInput
<1>29. CASE UNCHANGED vars
  BY <1>29 DEF vars
<1> QED
  BY <1>1, <1>2, <1>3, <1>4, <1>5, <1>6, <1>7, <1>8, <1>9, <1>10, <1>11,
     <1>12, <1>13, <1>14, <1>15, <1>16, <1>17, <1>18, <1>19, <1>20,
     <1>21, <1>22, <1>23, <1>24, <1>25, <1>26, <1>27, <1>28, <1>29 DEF Next, Wake, InputStep, LoopStep

(* The input thread wakes the loop only on its way out. *)
LEMMA LivingInputSendsNothingStep ==
  /\ TypeOK
  /\ LivingInputSendsNothing
  /\ [Next]_vars
  => LivingInputSendsNothing'
<1> SUFFICES ASSUME TypeOK, LivingInputSendsNothing, [Next]_vars PROVE
     LivingInputSendsNothing'
  OBVIOUS
<1> USE ConstantsAssumption DEF LivingInputSendsNothing, TypeOK, Wakers, queueVars,
     wakeVars, uiVars, inputVars, ghostVars, Goto, At
<1>1. ASSUME NEW p \in Producers, Push(p) PROVE LivingInputSendsNothing'
  BY <1>1 DEF Push
<1>2. ASSUME NEW w \in Wakers, Swap(w) PROVE LivingInputSendsNothing'
  BY <1>2 DEF Swap
<1>3. ASSUME NEW w \in Wakers, SendMarker(w) PROVE LivingInputSendsNothing'
  BY <1>3 DEF SendMarker
<1>4. ASSUME NEW w \in Wakers, ClearPending(w) PROVE LivingInputSendsNothing'
  BY <1>4 DEF ClearPending
<1>5. ASSUME NEW w \in Wakers, ResendMarker(w) PROVE LivingInputSendsNothing'
  BY <1>5 DEF ResendMarker
<1>6. ASSUME NEW w \in Wakers, SendToNobody(w) PROVE LivingInputSendsNothing'
  BY <1>6 DEF SendToNobody
<1>7. CASE ReadTerminal
  BY <1>7 DEF ReadTerminal
<1>8. CASE RetryHeld
  BY <1>8 DEF RetryHeld
<1>9. CASE ObeyPause
  BY <1>9 DEF ObeyPause
<1>10. CASE ObeyResume
  BY <1>10 DEF ObeyResume
<1>11. CASE ObeyShutdown
  BY <1>11 DEF ObeyShutdown
<1>12. CASE Panic
  BY <1>12 DEF Panic
<1>13. ASSUME NEW p \in Producers, Drain(p) PROVE LivingInputSendsNothing'
  BY <1>13 DEF Drain
<1>14. CASE EndRound
  BY <1>14 DEF EndRound
<1>15. CASE Wait
  BY <1>15 DEF Wait
<1>16. CASE Receive
  BY <1>16 DEF Receive
<1>17. CASE Handle
  BY <1>17 DEF Handle
<1>18. CASE Collect
  BY <1>18 DEF Collect
<1>19. CASE EndBurst
  BY <1>19 DEF EndBurst
<1>20. CASE ApplyKey
  BY <1>20 DEF ApplyKey
<1>21. CASE EndApply
  BY <1>21 DEF EndApply
<1>22. CASE PauseAcknowledged
  BY <1>22 DEF PauseAcknowledged
<1>23. CASE Discard
  BY <1>23 DEF Discard
<1>24. CASE EndDiscard
  BY <1>24 DEF EndDiscard
<1>25. CASE EndEditor
  BY <1>25 DEF EndEditor
<1>26. CASE ResumeAcknowledged
  BY <1>26 DEF ResumeAcknowledged
<1>27. CASE InputIsGone
  BY <1>27 DEF InputIsGone
<1>28. CASE JoinInput
  BY <1>28 DEF JoinInput
<1>29. CASE UNCHANGED vars
  BY <1>29 DEF vars
<1> QED
  BY <1>1, <1>2, <1>3, <1>4, <1>5, <1>6, <1>7, <1>8, <1>9, <1>10, <1>11,
     <1>12, <1>13, <1>14, <1>15, <1>16, <1>17, <1>18, <1>19, <1>20,
     <1>21, <1>22, <1>23, <1>24, <1>25, <1>26, <1>27, <1>28, <1>29 DEF Next, Wake, InputStep, LoopStep

(* What the input thread does to the queue. *)
LEMMA InputQueues ==
  ASSUME TypeOK, ReadTerminal \/ RetryHeld
  PROVE  queue' = queue \/ \E e \in LoopEvents : queue' = Append(queue, e)
<1> USE DEF TryQueue
<1>1. CASE RetryHeld
  BY <1>1 DEF RetryHeld, TypeOK
<1>2. CASE ReadTerminal
  <2>1. CASE read < MaxKeys /\ TryQueue(Key(read + 1))
    <3>1. Key(read + 1) \in LoopEvents
      <4>1. read \in 0..MaxKeys /\ MaxKeys \in Nat
        BY ConstantsAssumption DEF TypeOK
      <4>2. read + 1 \in 1..MaxKeys
        BY <2>1, <4>1
      <4> QED
        BY <4>2, EventKinds
    <3> QED
      BY <2>1, <3>1
  <2>2. CASE TryQueue(Failed)
    BY <2>2, EventKinds
  <2> QED
    BY <1>2, <2>1, <2>2 DEF ReadTerminal
<1> QED
  BY <1>1, <1>2

-----------------------------------------------------------------------------
(* Markers. *)

(* The flag is set by a thread that goes on to send a marker, and the marker is
   not lost before the UI thread clears the flag. *)
LEMMA FlagHasAMarkerStep ==
  /\ TypeOK
  /\ OnlyHandleHolds
  /\ KeysAreNotSetAside
  /\ LivingInputSendsNothing
  /\ FlagHasAMarker
  /\ [Next]_vars
  => FlagHasAMarker'
<1> SUFFICES ASSUME TypeOK, OnlyHandleHolds, KeysAreNotSetAside,
     LivingInputSendsNothing, FlagHasAMarker, [Next]_vars PROVE FlagHasAMarker'
  OBVIOUS
<1> USE EventKinds DEF FlagHasAMarker, queueVars, wakeVars, uiVars, inputVars,
     ghostVars, Goto, At
<1>1. ASSUME NEW p \in Producers, Push(p) PROVE FlagHasAMarker'
  BY <1>1 DEF Push
<1>2. ASSUME NEW w \in Wakers, Swap(w) PROVE FlagHasAMarker'
  <2>1. UNCHANGED <<queue, pending, got, ui>> /\ wake[w] = "swap"
    BY <1>2 DEF Swap
  <2>2. CASE isPending
    <3>1. \A v \in Wakers : wake[v] \in {"send", "full"} => wake'[v] = wake[v]
      BY <1>2, <2>1 DEF Swap, TypeOK
    <3> QED
      BY <2>1, <2>2, <3>1
  <2>3. CASE ~isPending
    <3>1. wake'[w] = "send"
      BY <1>2, <2>3 DEF Swap, TypeOK
    <3> QED
      BY <3>1
  <2> QED
    BY <2>2, <2>3
<1>3. ASSUME NEW w \in Wakers, SendMarker(w) PROVE FlagHasAMarker'
  <2>1. UNCHANGED <<isPending, pending, got, ui>> /\ queue \in Seq(LoopEvents)
    BY <1>3 DEF SendMarker, TypeOK
  <2>2. CASE queue' = Append(queue, Ready)
    BY <2>1, <2>2, AppendKeepsReady
  <2>3. CASE Goto(w, "full")
    <3>1. wake'[w] = "full"
      BY <2>3 DEF TypeOK
    <3> QED
      BY <3>1
  <2> QED
    BY <1>3, <2>2, <2>3 DEF SendMarker
<1>4. ASSUME NEW w \in Wakers, ClearPending(w) PROVE FlagHasAMarker'
  <2> QED
    BY <1>4 DEF ClearPending
<1>5. ASSUME NEW w \in Wakers, ResendMarker(w) PROVE FlagHasAMarker'
  <2>1. UNCHANGED <<isPending, pending, got, ui>> /\ queue \in Seq(LoopEvents)
    BY <1>5 DEF ResendMarker, TypeOK
  <2>2. HasReady(queue) => HasReady(queue')
    BY <1>5, <2>1, AppendKeepsReady DEF ResendMarker
  <2>3. \A v \in Wakers : wake[v] \in {"send", "full"} => wake'[v] = wake[v]
    BY <1>5 DEF ResendMarker, TypeOK
  <2> QED
    BY <2>1, <2>2, <2>3
<1>6. ASSUME NEW w \in Wakers, SendToNobody(w) PROVE FlagHasAMarker'
  <2> QED
    BY <1>6 DEF SendToNobody
<1>7. CASE ReadTerminal
  <2>1. UNCHANGED <<isPending, pending, got, ui, wake>> /\ queue \in Seq(LoopEvents)
    BY <1>7 DEF ReadTerminal, TypeOK
  <2>2. \/ \E e \in LoopEvents : queue' = Append(queue, e)
        \/ queue' = queue
    BY <1>7, InputQueues
  <2>3. HasReady(queue) => HasReady(queue')
    BY <2>1, <2>2, AppendKeepsReady
  <2> QED
    BY <2>1, <2>3
<1>8. CASE RetryHeld
  <2>1. UNCHANGED <<isPending, pending, got, ui, wake>> /\ queue \in Seq(LoopEvents)
    BY <1>8 DEF RetryHeld, TypeOK
  <2>2. \/ \E e \in LoopEvents : queue' = Append(queue, e)
        \/ queue' = queue
    BY <1>8 DEF RetryHeld, TryQueue, TypeOK
  <2>3. HasReady(queue) => HasReady(queue')
    BY <2>1, <2>2, AppendKeepsReady
  <2> QED
    BY <2>1, <2>3
<1>9. CASE ObeyPause
  BY <1>9 DEF ObeyPause
<1>10. CASE ObeyResume
  BY <1>10 DEF ObeyResume
<1>11. CASE ObeyShutdown
  BY <1>11 DEF ObeyShutdown
<1>12. CASE Panic
  <2>1. /\ UNCHANGED <<queue, pending, got, ui, isPending, unseen, unread>>
        /\ wake[Input] = "idle" /\ wake'[Input] = "swap"
        /\ \A v \in Wakers \ {Input} : wake'[v] = wake[v]
    BY <1>12 DEF Panic, TypeOK, LivingInputSendsNothing, Wakers
  <2> QED
    BY <2>1, ConstantsAssumption DEF Wakers
<1>13. ASSUME NEW p \in Producers, Drain(p) PROVE FlagHasAMarker'
  BY <1>13 DEF Drain
<1>14. CASE EndRound
  BY <1>14 DEF EndRound
<1>15. CASE Wait
  BY <1>15 DEF Wait, Leave, TakeFailure
<1>16. CASE Receive
  <2>1. UNCHANGED <<isPending, wake>> /\ ui = "receive" /\ queue \in Seq(LoopEvents)
        /\ pending \in Seq(LoopEvents)
    BY <1>16 DEF Receive, TypeOK
  <2>2. CASE ~IsQuiet /\ got' = NextEvent /\ TakeNext /\ pending' = Others
    <3>1. CASE pending # <<>>
      <4>1. queue' = queue /\ pending' = Tail(pending) /\ got' = Head(pending)
        BY <2>2, <3>1 DEF TakeNext, NextEvent, Others
      <4>2. HasReady(pending) => got' = Ready \/ HasReady(pending')
        BY <2>1, <3>1, <4>1, TailKeepsReady
      <4> QED
        BY <2>1, <4>1, <4>2 DEF OnlyHandleHolds
    <3>2. CASE pending = <<>>
      <4>1. queue' = Tail(queue) /\ pending' = pending /\ got' = Head(queue) /\ queue # <<>>
        BY <2>2, <3>2 DEF TakeNext, NextEvent, Others, IsQuiet
      <4>2. HasReady(queue) => got' = Ready \/ HasReady(queue')
        BY <2>1, <4>1, TailKeepsReady
      <4> QED
        BY <2>1, <4>1, <4>2 DEF OnlyHandleHolds
    <3> QED
      BY <3>1, <3>2
  <2>3. CASE got' = Nothing /\ UNCHANGED <<queueVars, pending>>
    BY <2>1, <2>3 DEF OnlyHandleHolds
  <2> QED
    BY <1>16, <2>2, <2>3 DEF Receive
<1>17. CASE Handle
  <2>1. UNCHANGED <<queue, wake>>
    BY <1>17 DEF Handle
  <2>2. \/ ui' = "closing" \/ ~isPending'
        \/ (got # Ready /\ UNCHANGED <<isPending, pending>>)
    BY <1>17 DEF Handle, TakeFailure, Leave
  <2>3. ui = "handle"
    BY <1>17 DEF Handle
  <2> QED
    BY <2>1, <2>2, <2>3
<1>18. CASE Collect
  <2>1. UNCHANGED <<isPending, wake, got>> /\ ui = "burst" /\ ~IsQuiet /\ TakeNext
        /\ queue \in Seq(LoopEvents) /\ pending \in Seq(LoopEvents)
    BY <1>18 DEF Collect, TypeOK
  <2>2. CASE IsKey(NextEvent) /\ pending' = Others
    <3>1. NextEvent # Ready
      BY <2>2
    <3>2. CASE pending # <<>>
      <4>1. queue' = queue /\ pending' = Tail(pending) /\ Head(pending) # Ready
        BY <2>1, <2>2, <3>1, <3>2 DEF TakeNext, NextEvent, Others
      <4>2. HasReady(pending) => HasReady(pending')
        BY <2>1, <3>2, <4>1, TailKeepsReady
      <4> QED
        BY <2>1, <4>1, <4>2
    <3>3. CASE pending = <<>>
      <4>1. queue' = Tail(queue) /\ pending' = pending /\ Head(queue) # Ready /\ queue # <<>>
        BY <2>1, <2>2, <3>1, <3>3 DEF TakeNext, NextEvent, Others, IsQuiet
      <4>2. HasReady(queue) => HasReady(queue')
        BY <2>1, <4>1, TailKeepsReady
      <4> QED
        BY <2>1, <4>1, <4>2
    <3> QED
      BY <3>2, <3>3
  <2>3. CASE pending' = <<Ready>> \o Others
    <3>1. Others \in Seq(LoopEvents)
      BY <2>1, TailType DEF Others
    <3>2. HasReady(pending')
      BY <2>3, <3>1, PutBack
    <3> QED
      BY <3>2
  <2>4. CASE Leave
    BY <2>4 DEF Leave
  <2> QED
    BY <1>18, <2>2, <2>3, <2>4 DEF Collect
<1>19. CASE EndBurst
  BY <1>19 DEF EndBurst
<1>20. CASE ApplyKey
  BY <1>20 DEF ApplyKey, Leave
<1>21. CASE EndApply
  BY <1>21 DEF EndApply, StartRound
<1>22. CASE PauseAcknowledged
  <2>1. pending' = pending
    BY <1>22 DEF PauseAcknowledged, Retained, KeysAreNotSetAside
  <2> QED
    BY <1>22, <2>1 DEF PauseAcknowledged, OnlyHandleHolds
<1>23. CASE Discard
  <2>1. UNCHANGED <<isPending, wake, got, ui>> /\ queue # <<>> /\ queue' = Tail(queue)
        /\ queue \in Seq(LoopEvents) /\ pending \in Seq(LoopEvents)
    BY <1>23 DEF Discard, TypeOK
  <2>2. Head(queue) \in LoopEvents
    BY <2>1, TailType
  <2>3. HasReady(queue) => HasReady(queue') \/ Head(queue) = Ready
    BY <2>1, TailKeepsReady
  <2>4. CASE IsKey(Head(queue)) /\ pending' = pending
    BY <2>1, <2>2, <2>3, <2>4
  <2>5. CASE pending' = Append(pending, Head(queue))
    <3>1. /\ HasReady(pending) => HasReady(pending')
          /\ Head(queue) = Ready => HasReady(pending')
      BY <2>1, <2>2, <2>5, AppendKeepsReady
    <3> QED
      BY <2>1, <2>3, <3>1
  <2> QED
    BY <1>23, <2>4, <2>5 DEF Discard
<1>24. CASE EndDiscard
  BY <1>24 DEF EndDiscard
<1>25. CASE EndEditor
  BY <1>25 DEF EndEditor, Leave
<1>26. CASE ResumeAcknowledged
  BY <1>26 DEF ResumeAcknowledged
<1>27. CASE InputIsGone
  BY <1>27 DEF InputIsGone, Leave
<1>28. CASE JoinInput
  BY <1>28 DEF JoinInput
<1>29. CASE UNCHANGED vars
  BY <1>29 DEF vars
<1> QED
  BY <1>1, <1>2, <1>3, <1>4, <1>5, <1>6, <1>7, <1>8, <1>9, <1>10, <1>11,
     <1>12, <1>13, <1>14, <1>15, <1>16, <1>17, <1>18, <1>19, <1>20,
     <1>21, <1>22, <1>23, <1>24, <1>25, <1>26, <1>27, <1>28, <1>29 DEF Next, Wake, InputStep, LoopStep

LEMMA NotEmpty == ASSUME NEW s, HasReady(s) PROVE s # <<>>
<1>1. DOMAIN <<>> = {}
  OBVIOUS
<1> QED
  BY <1>1 DEF HasReady

(* A payload behind a drained receiver has a marker: the thread that brought it
   sends one, or was merged into a wake that has one (FlagHasAMarker). *)
LEMMA DrainedIsMarkedStep ==
  /\ TypeOK
  /\ FlagHasAMarker
  /\ OnlyHandleHolds
  /\ LivingInputSendsNothing
  /\ DrainedIsMarked
  /\ [Next]_vars
  => DrainedIsMarked'
<1> SUFFICES ASSUME TypeOK, FlagHasAMarker, OnlyHandleHolds,
     LivingInputSendsNothing, DrainedIsMarked, [Next]_vars PROVE DrainedIsMarked'
  OBVIOUS
<1> USE DEF DrainedIsMarked, MarkerOnItsWay, queueVars, wakeVars, uiVars, inputVars,
     ghostVars, Goto, At
<1>1. ASSUME NEW p \in Producers, Push(p) PROVE DrainedIsMarked'
  <2>1. UNCHANGED <<queue, pending, unread, ui, failure>>
    BY <1>1 DEF Push
  <2>2. /\ wake[p] = "idle" /\ wake'[p] = "swap" /\ unseen' = unseen \cup {p}
        /\ \A v \in Wakers \ {p} : wake'[v] = wake[v]
    BY <1>1 DEF Push, TypeOK, Wakers
  <2>3. MarkerOnItsWay => MarkerOnItsWay'
    BY <2>1, <2>2
  <2> QED
    BY <2>1, <2>2, <2>3, ConstantsAssumption DEF Wakers
<1>2. ASSUME NEW w \in Wakers, Swap(w) PROVE DrainedIsMarked'
  <2>1. UNCHANGED <<queue, pending, unread, unseen, ui, failure>> /\ wake[w] = "swap"
    BY <1>2 DEF Swap
  <2>2. \A v \in Wakers \ {w} : wake'[v] = wake[v]
    BY <1>2 DEF Swap, TypeOK
  <2>3. MarkerOnItsWay => MarkerOnItsWay'
    BY <2>1, <2>2
  <2>4. CASE ui # "handle" /\ ui \notin {"closing", "closed"}
    <3>1. CASE isPending
      <4>1. got # Ready
        BY <2>4, EventKinds DEF OnlyHandleHolds
      <4>2. /\ HasReady(queue) => queue # <<>>
            /\ HasReady(pending) => pending # <<>>
        BY NotEmpty
      <4>3. MarkerOnItsWay
        BY <2>4, <3>1, <4>1, <4>2 DEF FlagHasAMarker
      <4> QED
        BY <2>3, <4>3
    <3>2. CASE ~isPending
      <4>1. wake'[w] = "send"
        BY <1>2, <3>2 DEF Swap, TypeOK
      <4> QED
        BY <4>1
    <3> QED
      BY <3>1, <3>2
  <2>5. CASE ui \in {"handle", "closing", "closed"}
    BY <2>1, <2>5
  <2> QED
    BY <2>4, <2>5
<1>3. ASSUME NEW w \in Wakers, SendMarker(w) PROVE DrainedIsMarked'
  <2>1. UNCHANGED <<pending, unread, unseen, ui, failure>> /\ queue \in Seq(LoopEvents)
    BY <1>3 DEF SendMarker, TypeOK
  <2>2. CASE queue' = Append(queue, Ready)
    <3>1. queue' # <<>>
      BY <2>1, <2>2, AppendKeepsReady
    <3> QED
      BY <3>1
  <2>3. CASE Goto(w, "full")
    <3>1. wake'[w] = "full"
      BY <2>3 DEF TypeOK
    <3> QED
      BY <3>1
  <2> QED
    BY <1>3, <2>2, <2>3 DEF SendMarker
<1>4. ASSUME NEW w \in Wakers, ClearPending(w) PROVE DrainedIsMarked'
  <2>1. wake'[w] = "resend"
    BY <1>4 DEF ClearPending, TypeOK
  <2> QED
    BY <2>1
<1>5. ASSUME NEW w \in Wakers, ResendMarker(w) PROVE DrainedIsMarked'
  <2>1. queue \in Seq(LoopEvents) /\ Capacity > 0
    BY ConstantsAssumption DEF TypeOK
  <2>2. queue' # <<>>
    <3>1. CASE HasRoom
      <4>1. queue' = Append(queue, Ready)
        BY <1>5, <3>1 DEF ResendMarker
      <4> QED
        BY <2>1, <4>1, AppendKeepsReady
    <3>2. CASE ~HasRoom
      <4>1. queue' = queue
        BY <1>5, <3>2 DEF ResendMarker
      <4>2. Len(queue) # 0
        BY <2>1, <3>2, ConstantsAssumption DEF HasRoom
      <4> QED
        BY <4>1, <4>2
    <3> QED
      BY <3>1, <3>2
  <2> QED
    BY <2>2
<1>6. ASSUME NEW w \in Wakers, SendToNobody(w) PROVE DrainedIsMarked'
  BY <1>6 DEF SendToNobody
<1>7. CASE ReadTerminal
  <2>1. UNCHANGED <<unseen, unread, wake, pending, ui, failure>> /\ queue \in Seq(LoopEvents)
    BY <1>7 DEF ReadTerminal, TypeOK
  <2>2. \/ \E e \in LoopEvents : queue' = Append(queue, e)
        \/ queue' = queue
    BY <1>7, InputQueues
  <2>3. queue # <<>> => queue' # <<>>
    BY <2>1, <2>2, AppendKeepsReady
  <2> QED
    BY <2>1, <2>3
<1>8. CASE RetryHeld
  <2>1. UNCHANGED <<unseen, unread, wake, pending, ui, failure>> /\ queue \in Seq(LoopEvents)
    BY <1>8 DEF RetryHeld, TypeOK
  <2>2. \/ \E e \in LoopEvents : queue' = Append(queue, e)
        \/ queue' = queue
    BY <1>8, InputQueues
  <2>3. queue # <<>> => queue' # <<>>
    BY <2>1, <2>2, AppendKeepsReady
  <2> QED
    BY <2>1, <2>3
<1>9. CASE ObeyPause
  BY <1>9 DEF ObeyPause
<1>10. CASE ObeyResume
  BY <1>10 DEF ObeyResume
<1>11. CASE ObeyShutdown
  BY <1>11 DEF ObeyShutdown
<1>12. CASE Panic
  <2>1. /\ UNCHANGED <<queue, pending, got, ui, isPending, unseen, unread>>
        /\ wake[Input] = "idle" /\ wake'[Input] = "swap"
        /\ \A v \in Wakers \ {Input} : wake'[v] = wake[v]
    BY <1>12 DEF Panic, TypeOK, LivingInputSendsNothing, Wakers
  <2> QED
    BY <2>1, ConstantsAssumption DEF Wakers
<1>13. ASSUME NEW p \in Producers, Drain(p) PROVE DrainedIsMarked'
  BY <1>13 DEF Drain
<1>14. CASE EndRound
  BY <1>14 DEF EndRound
<1>15. CASE Wait
  BY <1>15 DEF Wait, Leave, TakeFailure
<1>16. CASE Receive
  <2>1. ui' = "handle"
    BY <1>16 DEF Receive
  <2> QED
    BY <2>1
<1>17. CASE Handle
  BY <1>17 DEF Handle, StartRound, Leave, TakeFailure
<1>18. CASE Collect
  <2>1. ui' \in {"burst", "apply", "closing"}
    BY <1>18 DEF Collect, Leave
  <2> QED
    BY <2>1
<1>19. CASE EndBurst
  BY <1>19 DEF EndBurst
<1>20. CASE ApplyKey
  <2>1. ui' \in {"apply", "pausing", "closing"}
    BY <1>20 DEF ApplyKey, Leave
  <2> QED
    BY <2>1
<1>21. CASE EndApply
  BY <1>21 DEF EndApply, StartRound
<1>22. CASE PauseAcknowledged
  <2>1. ui' = "discard"
    BY <1>22 DEF PauseAcknowledged
  <2> QED
    BY <2>1
<1>23. CASE Discard
  <2>1. ui' = "discard"
    BY <1>23 DEF Discard
  <2> QED
    BY <2>1
<1>24. CASE EndDiscard
  BY <1>24 DEF EndDiscard
<1>25. CASE EndEditor
  BY <1>25 DEF EndEditor, Leave
<1>26. CASE ResumeAcknowledged
  BY <1>26 DEF ResumeAcknowledged
<1>27. CASE InputIsGone
  BY <1>27 DEF InputIsGone, Leave
<1>28. CASE JoinInput
  <2>1. ui' = "closed"
    BY <1>28 DEF JoinInput
  <2> QED
    BY <2>1
<1>29. CASE UNCHANGED vars
  BY <1>29 DEF vars
<1> QED
  BY <1>1, <1>2, <1>3, <1>4, <1>5, <1>6, <1>7, <1>8, <1>9, <1>10, <1>11,
     <1>12, <1>13, <1>14, <1>15, <1>16, <1>17, <1>18, <1>19, <1>20,
     <1>21, <1>22, <1>23, <1>24, <1>25, <1>26, <1>27, <1>28, <1>29 DEF Next, Wake, InputStep, LoopStep

(* The same for a failure that comes after the UI thread has looked for one. *)
LEMMA FailureIsMarkedStep ==
  /\ TypeOK
  /\ FlagHasAMarker
  /\ OnlyHandleHolds
  /\ FailureIsMarked
  /\ [Next]_vars
  => FailureIsMarked'
<1> SUFFICES ASSUME TypeOK, FlagHasAMarker, OnlyHandleHolds, FailureIsMarked,
     [Next]_vars PROVE FailureIsMarked'
  OBVIOUS
<1> USE DEF FailureIsMarked, MarkerOnItsWay, queueVars, wakeVars, uiVars, inputVars,
     ghostVars, Goto, At
<1>1. ASSUME NEW p \in Producers, Push(p) PROVE FailureIsMarked'
  <2>1. UNCHANGED <<queue, pending, unread, ui, failure>>
    BY <1>1 DEF Push
  <2>2. /\ wake[p] = "idle" /\ wake'[p] = "swap" /\ unseen' = unseen \cup {p}
        /\ \A v \in Wakers \ {p} : wake'[v] = wake[v]
    BY <1>1 DEF Push, TypeOK, Wakers
  <2>3. MarkerOnItsWay => MarkerOnItsWay'
    BY <2>1, <2>2
  <2> QED
    BY <2>1, <2>2, <2>3, ConstantsAssumption DEF Wakers
<1>2. ASSUME NEW w \in Wakers, Swap(w) PROVE FailureIsMarked'
  <2>1. UNCHANGED <<queue, pending, unread, unseen, ui, failure>> /\ wake[w] = "swap"
    BY <1>2 DEF Swap
  <2>2. \A v \in Wakers \ {w} : wake'[v] = wake[v]
    BY <1>2 DEF Swap, TypeOK
  <2>3. MarkerOnItsWay => MarkerOnItsWay'
    BY <2>1, <2>2
  <2>4. CASE ui # "handle" /\ ui \notin {"closing", "closed"}
    <3>1. CASE isPending
      <4>1. got # Ready
        BY <2>4, EventKinds DEF OnlyHandleHolds
      <4>2. /\ HasReady(queue) => queue # <<>>
            /\ HasReady(pending) => pending # <<>>
        BY NotEmpty
      <4>3. MarkerOnItsWay
        BY <2>4, <3>1, <4>1, <4>2 DEF FlagHasAMarker
      <4> QED
        BY <2>3, <4>3
    <3>2. CASE ~isPending
      <4>1. wake'[w] = "send"
        BY <1>2, <3>2 DEF Swap, TypeOK
      <4> QED
        BY <4>1
    <3> QED
      BY <3>1, <3>2
  <2>5. CASE ui \in {"handle", "closing", "closed"}
    BY <2>1, <2>5
  <2> QED
    BY <2>4, <2>5
<1>3. ASSUME NEW w \in Wakers, SendMarker(w) PROVE FailureIsMarked'
  <2>1. UNCHANGED <<pending, unread, unseen, ui, failure>> /\ queue \in Seq(LoopEvents)
    BY <1>3 DEF SendMarker, TypeOK
  <2>2. CASE queue' = Append(queue, Ready)
    <3>1. queue' # <<>>
      BY <2>1, <2>2, AppendKeepsReady
    <3> QED
      BY <3>1
  <2>3. CASE Goto(w, "full")
    <3>1. wake'[w] = "full"
      BY <2>3 DEF TypeOK
    <3> QED
      BY <3>1
  <2> QED
    BY <1>3, <2>2, <2>3 DEF SendMarker
<1>4. ASSUME NEW w \in Wakers, ClearPending(w) PROVE FailureIsMarked'
  <2>1. wake'[w] = "resend"
    BY <1>4 DEF ClearPending, TypeOK
  <2> QED
    BY <2>1
<1>5. ASSUME NEW w \in Wakers, ResendMarker(w) PROVE FailureIsMarked'
  <2>1. queue \in Seq(LoopEvents) /\ Capacity > 0
    BY ConstantsAssumption DEF TypeOK
  <2>2. queue' # <<>>
    <3>1. CASE HasRoom
      <4>1. queue' = Append(queue, Ready)
        BY <1>5, <3>1 DEF ResendMarker
      <4> QED
        BY <2>1, <4>1, AppendKeepsReady
    <3>2. CASE ~HasRoom
      <4>1. queue' = queue
        BY <1>5, <3>2 DEF ResendMarker
      <4>2. Len(queue) # 0
        BY <2>1, <3>2, ConstantsAssumption DEF HasRoom
      <4> QED
        BY <4>1, <4>2
    <3> QED
      BY <3>1, <3>2
  <2> QED
    BY <2>2
<1>6. ASSUME NEW w \in Wakers, SendToNobody(w) PROVE FailureIsMarked'
  BY <1>6 DEF SendToNobody
<1>7. CASE ReadTerminal
  <2>1. UNCHANGED <<unseen, unread, wake, pending, ui, failure>> /\ queue \in Seq(LoopEvents)
    BY <1>7 DEF ReadTerminal, TypeOK
  <2>2. \/ \E e \in LoopEvents : queue' = Append(queue, e)
        \/ queue' = queue
    BY <1>7, InputQueues
  <2>3. queue # <<>> => queue' # <<>>
    BY <2>1, <2>2, AppendKeepsReady
  <2> QED
    BY <2>1, <2>3
<1>8. CASE RetryHeld
  <2>1. UNCHANGED <<unseen, unread, wake, pending, ui, failure>> /\ queue \in Seq(LoopEvents)
    BY <1>8 DEF RetryHeld, TypeOK
  <2>2. \/ \E e \in LoopEvents : queue' = Append(queue, e)
        \/ queue' = queue
    BY <1>8, InputQueues
  <2>3. queue # <<>> => queue' # <<>>
    BY <2>1, <2>2, AppendKeepsReady
  <2> QED
    BY <2>1, <2>3
<1>9. CASE ObeyPause
  BY <1>9 DEF ObeyPause
<1>10. CASE ObeyResume
  BY <1>10 DEF ObeyResume
<1>11. CASE ObeyShutdown
  BY <1>11 DEF ObeyShutdown
<1>12. CASE Panic
  <2>1. wake'[Input] = "swap"
    BY <1>12 DEF Panic, TypeOK, Wakers
  <2> QED
    BY <2>1
<1>13. ASSUME NEW p \in Producers, Drain(p) PROVE FailureIsMarked'
  BY <1>13 DEF Drain
<1>14. CASE EndRound
  BY <1>14 DEF EndRound
<1>15. CASE Wait
  BY <1>15 DEF Wait, Leave, TakeFailure
<1>16. CASE Receive
  <2>1. ui' = "handle"
    BY <1>16 DEF Receive
  <2> QED
    BY <2>1
<1>17. CASE Handle
  BY <1>17 DEF Handle, StartRound, Leave, TakeFailure
<1>18. CASE Collect
  <2>1. ui' \in {"burst", "apply", "closing"}
    BY <1>18 DEF Collect, Leave
  <2> QED
    BY <2>1
<1>19. CASE EndBurst
  BY <1>19 DEF EndBurst
<1>20. CASE ApplyKey
  <2>1. ui' \in {"apply", "pausing", "closing"}
    BY <1>20 DEF ApplyKey, Leave
  <2> QED
    BY <2>1
<1>21. CASE EndApply
  BY <1>21 DEF EndApply, StartRound
<1>22. CASE PauseAcknowledged
  <2>1. ui' = "discard"
    BY <1>22 DEF PauseAcknowledged
  <2> QED
    BY <2>1
<1>23. CASE Discard
  <2>1. ui' = "discard"
    BY <1>23 DEF Discard
  <2> QED
    BY <2>1
<1>24. CASE EndDiscard
  BY <1>24 DEF EndDiscard
<1>25. CASE EndEditor
  BY <1>25 DEF EndEditor, Leave
<1>26. CASE ResumeAcknowledged
  BY <1>26 DEF ResumeAcknowledged
<1>27. CASE InputIsGone
  BY <1>27 DEF InputIsGone, Leave
<1>28. CASE JoinInput
  <2>1. ui' = "closed"
    BY <1>28 DEF JoinInput
  <2> QED
    BY <2>1
<1>29. CASE UNCHANGED vars
  BY <1>29 DEF vars
<1> QED
  BY <1>1, <1>2, <1>3, <1>4, <1>5, <1>6, <1>7, <1>8, <1>9, <1>10, <1>11,
     <1>12, <1>13, <1>14, <1>15, <1>16, <1>17, <1>18, <1>19, <1>20,
     <1>21, <1>22, <1>23, <1>24, <1>25, <1>26, <1>27, <1>28, <1>29 DEF Next, Wake, InputStep, LoopStep

-----------------------------------------------------------------------------
(* The keys of a sequence and their order. *)

LEMMA KeysOfOne ==
  ASSUME NEW e
  PROVE  /\ KeysOf(<<e>>) = IF IsKey(e) THEN {e.no} ELSE {}
         /\ InOrder(<<e>>)
         /\ KeysOf(<<>>) = {} /\ InOrder(<<>>)
<1>1. DOMAIN <<e>> = {1} /\ <<e>>[1] = e /\ DOMAIN <<>> = {}
  OBVIOUS
<1>2. KeysOf(<<e>>) = IF IsKey(e) THEN {e.no} ELSE {}
  BY <1>1 DEF KeysOf
<1>3. InOrder(<<e>>)
  BY <1>1 DEF InOrder
<1>4. KeysOf(<<>>) = {} /\ InOrder(<<>>)
  BY <1>1 DEF KeysOf, InOrder
<1> QED
  BY <1>2, <1>3, <1>4

(* Two sequences put together are in order when each is and the one was read
   before the other. *)
LEMMA KeysOfBoth ==
  ASSUME NEW T, NEW s \in Seq(T), NEW u \in Seq(T)
  PROVE  /\ KeysOf(s \o u) = KeysOf(s) \cup KeysOf(u)
         /\ InOrder(s \o u) <=> InOrder(s) /\ InOrder(u) /\ Before(KeysOf(s), KeysOf(u))
<1> DEFINE both == s \o u  n == Len(s)
<1>1. /\ n \in Nat /\ Len(u) \in Nat /\ Len(both) = n + Len(u)
      /\ DOMAIN both = 1..(n + Len(u)) /\ DOMAIN s = 1..n /\ DOMAIN u = 1..Len(u)
  OBVIOUS
<1>2. \A i \in DOMAIN s : i \in DOMAIN both /\ both[i] = s[i]
  OBVIOUS
<1>3. \A i \in DOMAIN u : n + i \in DOMAIN both /\ both[n + i] = u[i]
  OBVIOUS
<1> HIDE DEF both, n
<1>4. ASSUME NEW i \in DOMAIN both
      PROVE  \/ i \in DOMAIN s /\ both[i] = s[i]
             \/ \E j \in DOMAIN u : i = n + j /\ both[i] = u[j]
  <2>1. CASE i <= n
    BY <1>1, <1>2, <2>1
  <2>2. CASE i > n
    <3>1. i - n \in DOMAIN u /\ n + (i - n) = i
      BY <1>1, <2>2
    <3> QED
      BY <1>3, <3>1
  <2> QED
    BY <1>1, <2>1, <2>2
<1>5. KeysOf(both) = KeysOf(s) \cup KeysOf(u)
  <2>1. ASSUME NEW k \in KeysOf(both) PROVE k \in KeysOf(s) \cup KeysOf(u)
    <3>1. PICK i \in DOMAIN both : IsKey(both[i]) /\ k = both[i].no
      BY DEF KeysOf
    <3> QED
      BY <1>4, <3>1 DEF KeysOf
  <2>2. ASSUME NEW k \in KeysOf(s) PROVE k \in KeysOf(both)
    <3>1. PICK i \in DOMAIN s : IsKey(s[i]) /\ k = s[i].no
      BY DEF KeysOf
    <3> QED
      BY <1>2, <3>1 DEF KeysOf
  <2>3. ASSUME NEW k \in KeysOf(u) PROVE k \in KeysOf(both)
    <3>1. PICK i \in DOMAIN u : IsKey(u[i]) /\ k = u[i].no
      BY DEF KeysOf
    <3> QED
      BY <1>3, <3>1 DEF KeysOf
  <2> QED
    BY <2>1, <2>2, <2>3
<1>6. ASSUME InOrder(both) PROVE InOrder(s) /\ InOrder(u) /\ Before(KeysOf(s), KeysOf(u))
  <2>1. InOrder(s)
    BY <1>2, <1>6 DEF InOrder
  <2>2. InOrder(u)
    <3> SUFFICES ASSUME NEW i \in DOMAIN u, NEW j \in DOMAIN u, i < j, IsKey(u[i]), IsKey(u[j])
                 PROVE  u[i].no < u[j].no
      BY DEF InOrder
    <3>1. n + i \in DOMAIN both /\ n + j \in DOMAIN both /\ n + i < n + j
      BY <1>1, <1>3
    <3> QED
      BY <1>3, <1>6, <3>1 DEF InOrder
  <2>3. ASSUME NEW k \in KeysOf(s), NEW l \in KeysOf(u) PROVE k < l
    <3>1. PICK i \in DOMAIN s : IsKey(s[i]) /\ k = s[i].no
      BY DEF KeysOf
    <3>2. PICK j \in DOMAIN u : IsKey(u[j]) /\ l = u[j].no
      BY DEF KeysOf
    <3>3. i \in DOMAIN both /\ n + j \in DOMAIN both /\ i < n + j
      BY <1>1, <1>2, <1>3
    <3>4. both[i] = s[i] /\ both[n + j] = u[j]
      BY <1>2, <1>3
    <3> QED
      BY <1>6, <3>1, <3>2, <3>3, <3>4 DEF InOrder
  <2> QED
    BY <2>1, <2>2, <2>3 DEF Before
<1>7. ASSUME InOrder(s), InOrder(u), Before(KeysOf(s), KeysOf(u)) PROVE InOrder(both)
  <2> SUFFICES ASSUME NEW i \in DOMAIN both, NEW j \in DOMAIN both, i < j,
                      IsKey(both[i]), IsKey(both[j])
               PROVE  both[i].no < both[j].no
    BY DEF InOrder
  <2>1. CASE i \in DOMAIN s /\ j \in DOMAIN s
    BY <1>2, <1>7, <2>1 DEF InOrder
  <2>2. CASE i \in DOMAIN s /\ j \notin DOMAIN s
    <3>1. PICK m \in DOMAIN u : j = n + m /\ both[j] = u[m]
      BY <1>4, <2>2
    <3>2. both[i] = s[i]
      BY <1>2, <2>2
    <3>3. s[i].no \in KeysOf(s) /\ u[m].no \in KeysOf(u)
      BY <2>2, <3>1, <3>2 DEF KeysOf
    <3> QED
      BY <1>7, <3>1, <3>2, <3>3 DEF Before
  <2>3. CASE i \notin DOMAIN s
    <3>1. PICK l \in DOMAIN u : i = n + l /\ both[i] = u[l]
      BY <1>4, <2>3
    <3>2. j \notin DOMAIN s
      BY <1>1, <2>3
    <3>3. PICK m \in DOMAIN u : j = n + m /\ both[j] = u[m]
      BY <1>4, <3>2
    <3>4. l < m
      BY <1>1, <3>1, <3>3
    <3> QED
      BY <1>7, <3>1, <3>3, <3>4 DEF InOrder
  <2> QED
    BY <2>1, <2>2, <2>3
<1> QED
  BY <1>5, <1>6, <1>7 DEF both

(* An event put at the end. *)
LEMMA KeysOfMore ==
  ASSUME NEW T, NEW s \in Seq(T), NEW e \in T
  PROVE  /\ KeysOf(Append(s, e)) = KeysOf(s) \cup KeysOf(<<e>>)
         /\ InOrder(Append(s, e)) <=> InOrder(s) /\ Before(KeysOf(s), KeysOf(<<e>>))
<1>1. <<e>> \in Seq(T) /\ Append(s, e) = s \o <<e>>
  OBVIOUS
<1>2. InOrder(<<e>>)
  BY KeysOfOne
<1> DEFINE last == <<e>>
<1> HIDE DEF last
<1>3. last \in Seq(T) /\ Append(s, e) = s \o last /\ InOrder(last)
  BY <1>1, <1>2 DEF last
<1>4. /\ KeysOf(Append(s, e)) = KeysOf(s) \cup KeysOf(last)
      /\ InOrder(Append(s, e)) <=> InOrder(s) /\ Before(KeysOf(s), KeysOf(last))
  BY <1>3, KeysOfBoth
<1> QED
  BY <1>4 DEF last

(* An event put in front. *)
LEMMA KeysOfFront ==
  ASSUME NEW T, NEW s \in Seq(T), NEW e \in T
  PROVE  /\ KeysOf(<<e>> \o s) = KeysOf(<<e>>) \cup KeysOf(s)
         /\ InOrder(<<e>> \o s) <=> InOrder(s) /\ Before(KeysOf(<<e>>), KeysOf(s))
<1> DEFINE first == <<e>>
<1>1. first \in Seq(T)
  OBVIOUS
<1>3. InOrder(first)
  BY KeysOfOne
<1> HIDE DEF first
<1>2. /\ KeysOf(first \o s) = KeysOf(first) \cup KeysOf(s)
      /\ InOrder(first \o s) <=> InOrder(s) /\ Before(KeysOf(first), KeysOf(s))
  BY <1>1, <1>3, KeysOfBoth
<1> QED
  BY <1>2 DEF first

(* The event in front taken. *)
LEMMA KeysOfRest ==
  ASSUME NEW T, NEW s \in Seq(T), s # <<>>
  PROVE  /\ KeysOf(s) = KeysOf(<<Head(s)>>) \cup KeysOf(Tail(s))
         /\ InOrder(s) => InOrder(Tail(s)) /\ Before(KeysOf(<<Head(s)>>), KeysOf(Tail(s)))
         /\ Head(s) \in T /\ Tail(s) \in Seq(T)
<1> DEFINE e == Head(s)  u == Tail(s)
<1>1. e \in T /\ u \in Seq(T) /\ s = <<e>> \o u
  OBVIOUS
<1> HIDE DEF e, u
<1>2. /\ KeysOf(<<e>> \o u) = KeysOf(<<e>>) \cup KeysOf(u)
      /\ InOrder(<<e>> \o u) <=> InOrder(u) /\ Before(KeysOf(<<e>>), KeysOf(u))
  BY <1>1, KeysOfFront
<1> QED
  BY <1>1, <1>2 DEF e, u

-----------------------------------------------------------------------------
(* The line of keys. *)

(* A burst is collected after a round and applied before the next. *)
LEMMA BurstIsAppliedStep == BurstIsApplied /\ [Next]_vars => BurstIsApplied'
<1> SUFFICES ASSUME BurstIsApplied, [Next]_vars PROVE BurstIsApplied'
  OBVIOUS
<1> USE DEF BurstIsApplied, queueVars, wakeVars, uiVars, inputVars, ghostVars, Goto, At
<1>1. ASSUME NEW p \in Producers, Push(p) PROVE BurstIsApplied'
  BY <1>1 DEF Push
<1>2. ASSUME NEW w \in Wakers, Swap(w) PROVE BurstIsApplied'
  BY <1>2 DEF Swap
<1>3. ASSUME NEW w \in Wakers, SendMarker(w) PROVE BurstIsApplied'
  BY <1>3 DEF SendMarker
<1>4. ASSUME NEW w \in Wakers, ClearPending(w) PROVE BurstIsApplied'
  BY <1>4 DEF ClearPending
<1>5. ASSUME NEW w \in Wakers, ResendMarker(w) PROVE BurstIsApplied'
  BY <1>5 DEF ResendMarker
<1>6. ASSUME NEW w \in Wakers, SendToNobody(w) PROVE BurstIsApplied'
  BY <1>6 DEF SendToNobody
<1>7. CASE ReadTerminal
  BY <1>7 DEF ReadTerminal
<1>8. CASE RetryHeld
  BY <1>8 DEF RetryHeld
<1>9. CASE ObeyPause
  BY <1>9 DEF ObeyPause
<1>10. CASE ObeyResume
  BY <1>10 DEF ObeyResume
<1>11. CASE ObeyShutdown
  BY <1>11 DEF ObeyShutdown
<1>12. CASE Panic
  BY <1>12 DEF Panic
<1>13. ASSUME NEW p \in Producers, Drain(p) PROVE BurstIsApplied'
  BY <1>13 DEF Drain
<1>14. CASE EndRound
  BY <1>14 DEF EndRound
<1>15. CASE Wait
  BY <1>15 DEF Wait, Leave, TakeFailure
<1>16. CASE Receive
  BY <1>16 DEF Receive
<1>17. CASE Handle
  BY <1>17 DEF Handle, StartRound, Leave, TakeFailure
<1>18. CASE Collect
  BY <1>18 DEF Collect, Leave
<1>19. CASE EndBurst
  BY <1>19 DEF EndBurst
<1>20. CASE ApplyKey
  BY <1>20 DEF ApplyKey, Leave
<1>21. CASE EndApply
  BY <1>21 DEF EndApply, StartRound
<1>22. CASE PauseAcknowledged
  BY <1>22 DEF PauseAcknowledged
<1>23. CASE Discard
  BY <1>23 DEF Discard
<1>24. CASE EndDiscard
  BY <1>24 DEF EndDiscard
<1>25. CASE EndEditor
  BY <1>25 DEF EndEditor, Leave
<1>26. CASE ResumeAcknowledged
  BY <1>26 DEF ResumeAcknowledged
<1>27. CASE InputIsGone
  BY <1>27 DEF InputIsGone, Leave
<1>28. CASE JoinInput
  BY <1>28 DEF JoinInput
<1>29. CASE UNCHANGED vars
  BY <1>29 DEF vars
<1> QED
  BY <1>1, <1>2, <1>3, <1>4, <1>5, <1>6, <1>7, <1>8, <1>9, <1>10, <1>11,
     <1>12, <1>13, <1>14, <1>15, <1>16, <1>17, <1>18, <1>19, <1>20,
     <1>21, <1>22, <1>23, <1>24, <1>25, <1>26, <1>27, <1>28, <1>29 DEF Next, Wake, InputStep, LoopStep

(* The key in front of the burst is applied: the later ones still account for
   what was read, be those collected with it kept or discarded. *)
LEMMA FrontIsApplied ==
  ASSUME NEW B, NEW G, NEW P, NEW Q, NEW H, NEW D, NEW a \in Nat, NEW r \in Nat,
         NEW k, NEW O, Accounted(B, G, P, Q, H, D, a, r), B = {k} \cup O, Before({k}, O),
         NEW L, L = {l \in D : l > k}
  PROVE  /\ Accounted(O, G, P, Q, H, L, k, r)
         /\ Accounted({}, G, P, Q, H, L \cup O, k, r)
<1> DEFINE all == O \cup G \cup P \cup Q \cup H
<1>1. k \in (a + 1)..r
  BY DEF Accounted
<1>2. all \cup D \cup {k} = (a + 1)..r
  BY DEF Accounted
<1>3. \A l \in all : k < l
  BY DEF Accounted, Before
<1>4. all \cap D = {}
  BY DEF Accounted
<1>5. all \cup L = (k + 1)..r
  <2> HIDE DEF all
  <2>1. ASSUME NEW x \in all \cup L PROVE x \in (k + 1)..r
    BY <1>1, <1>2, <1>3
  <2>2. ASSUME NEW x \in (k + 1)..r PROVE x \in all \cup L
    <3>1. x \in (a + 1)..r /\ x # k /\ x > k
      BY <1>1
    <3> QED
      BY <1>2, <3>1
  <2> QED
    BY <2>1, <2>2
<1>6. all \cap L = {} /\ k <= r
  BY <1>1, <1>4
<1>7. /\ Before(O, G) /\ Before(O, P) /\ Before(O, Q) /\ Before(O, H)
      /\ Before(G, P) /\ Before(G, Q) /\ Before(G, H)
      /\ Before(P, Q) /\ Before(P, H) /\ Before(Q, H)
  BY DEF Accounted, Before
<1>8. Accounted(O, G, P, Q, H, L, k, r)
  <2> QED
    BY <1>5, <1>6, <1>7 DEF Accounted
<1>9. Accounted({}, G, P, Q, H, L \cup O, k, r)
  <2>1. O \cap (G \cup P \cup Q \cup H) = {}
    <3> SUFFICES ASSUME NEW x \in O, x \in G \cup P \cup Q \cup H PROVE FALSE
      OBVIOUS
    <3>1. x < x
      BY <1>7 DEF Before
    <3>2. x \in Int
      BY <1>2
    <3> QED
      BY <3>1, <3>2
  <2>2. \A K : Before({}, K)
    BY DEF Before
  <2>3. {} \cup G \cup P \cup Q \cup H \cup (L \cup O) = (k + 1)..r
    BY <1>5
  <2>4. ({} \cup G \cup P \cup Q \cup H) \cap (L \cup O) = {}
    BY <1>6, <2>1
  <2> QED
    BY <1>6, <1>7, <2>2, <2>3, <2>4 DEF Accounted
<1> QED
  BY <1>8, <1>9

(* The key in front of the queue is discarded. *)
LEMMA FrontIsDiscarded ==
  ASSUME NEW B, NEW G, NEW P, NEW Q, NEW H, NEW D, NEW a \in Nat, NEW r \in Nat,
         NEW k, NEW O, Accounted(B, G, P, Q, H, D, a, r), Q = {k} \cup O, Before({k}, O)
  PROVE  Accounted(B, G, P, O, H, D \cup {k}, a, r)
<1>1. k \in Int
  BY DEF Accounted
<1>2. k \notin B \cup G \cup P \cup O \cup H
  BY <1>1 DEF Accounted, Before
<1>3. /\ B \cup G \cup P \cup O \cup H \cup (D \cup {k}) = (a + 1)..r
      /\ (B \cup G \cup P \cup O \cup H) \cap (D \cup {k}) = {}
  BY <1>2 DEF Accounted
<1> QED
  BY <1>3 DEF Accounted, Before

(* What is taken next was read before all that follows it. *)
LEMMA TakeNextInLine ==
  ASSUME TypeOK, KeysInLine, got = Nothing, ~IsQuiet, TakeNext
  PROVE  /\ InOrder(Others) /\ InOrder(queue')
         /\ Others \in Seq(LoopEvents) /\ NextEvent \in LoopEvents
         /\ Accounted(KeysOf(burst), KeysOf(<<NextEvent>>), KeysOf(Others), KeysOf(queue'),
                      KeysOf(<<held>>), discarded, applied, read)
<1> DEFINE B == KeysOf(burst)  P == KeysOf(pending)  Q == KeysOf(queue)  H == KeysOf(<<held>>)
<1>1. pending \in Seq(LoopEvents) /\ queue \in Seq(LoopEvents)
  BY DEF TypeOK
<1>2. InOrder(pending) /\ InOrder(queue) /\ Accounted(B, {}, P, Q, H, discarded, applied, read)
  BY KeysOfOne, EventKinds DEF KeysInLine
<1> HIDE DEF B, P, Q, H
<1>3. CASE pending # <<>>
  <2> DEFINE e == Head(pending)  o == Tail(pending)
  <2>1. NextEvent = e /\ Others = o /\ queue' = queue
    BY <1>3 DEF NextEvent, Others, TakeNext, queueVars
  <2>2. /\ P = KeysOf(<<e>>) \cup KeysOf(o) /\ Before(KeysOf(<<e>>), KeysOf(o))
        /\ InOrder(o) /\ e \in LoopEvents /\ o \in Seq(LoopEvents)
    BY <1>1, <1>2, <1>3, KeysOfRest DEF P
  <2> HIDE DEF e, o
  <2>3. Accounted(B, KeysOf(<<e>>), KeysOf(o), Q, H, discarded, applied, read)
    BY <1>2, <2>2 DEF Accounted, Before
  <2> QED
    BY <1>2, <2>1, <2>2, <2>3 DEF B, H, Q
<1>4. CASE pending = <<>>
  <2> DEFINE e == Head(queue)  o == Tail(queue)
  <2>1. NextEvent = e /\ Others = pending /\ queue' = o /\ queue # <<>> /\ P = {}
    BY <1>4, KeysOfOne DEF NextEvent, Others, TakeNext, IsQuiet, P
  <2>2. /\ Q = KeysOf(<<e>>) \cup KeysOf(o) /\ Before(KeysOf(<<e>>), KeysOf(o))
        /\ InOrder(o) /\ e \in LoopEvents
    BY <1>1, <1>2, <2>1, KeysOfRest DEF Q
  <2> HIDE DEF e, o
  <2>3. Accounted(B, KeysOf(<<e>>), P, KeysOf(o), H, discarded, applied, read)
    BY <1>2, <2>1, <2>2 DEF Accounted, Before
  <2> QED
    BY <1>1, <1>2, <2>1, <2>2, <2>3 DEF B, H, P
<1> QED
  BY <1>3, <1>4

(* What the line of keys depends on. *)
keyVars == <<burst, got, pending, queue, held, discarded, applied, read>>

(* A key goes from one place to the next in the line, is applied from its front,
   or is discarded: no step puts one behind a later one or forgets it. *)
LEMMA KeysInLineStep ==
  /\ TypeOK /\ OnlyHandleHolds /\ BurstIsApplied /\ KeysAreNotSetAside
  /\ KeysInLine
  /\ [Next]_vars
  => KeysInLine'
<1> SUFFICES ASSUME TypeOK, OnlyHandleHolds, BurstIsApplied, KeysAreNotSetAside, KeysInLine,
                    [Next]_vars
             PROVE  KeysInLine'
  OBVIOUS
<1> DEFINE B == KeysOf(burst)  G == KeysOf(<<got>>)  P == KeysOf(pending)
           Q == KeysOf(queue)  H == KeysOf(<<held>>)
<1>t. /\ queue \in Seq(LoopEvents) /\ pending \in Seq(LoopEvents) /\ burst \in Seq(LoopEvents)
      /\ got \in LoopEvents \cup {Nothing} /\ held \in LoopEvents \cup {Nothing}
      /\ read \in Nat /\ applied \in Nat
  BY EventKinds DEF TypeOK
<1>l. /\ InOrder(burst) /\ InOrder(pending) /\ InOrder(queue)
      /\ Accounted(B, G, P, Q, H, discarded, applied, read)
  BY DEF KeysInLine
<1>n. KeysOf(<<Nothing>>) = {} /\ KeysOf(<<Ready>>) = {} /\ KeysOf(<<Failed>>) = {}
  BY KeysOfOne, EventKinds
<1> USE DEF queueVars, wakeVars, uiVars, inputVars, ghostVars
<1>0. ASSUME UNCHANGED keyVars PROVE KeysInLine'
  BY <1>0 DEF KeysInLine, keyVars, InOrder, KeysOf
<1> HIDE DEF B, G, P, Q, H
<1>k. ASSUME InOrder(burst'), InOrder(pending'), InOrder(queue'),
             Accounted(KeysOf(burst'), KeysOf(<<got'>>), KeysOf(pending'), KeysOf(queue'),
                       KeysOf(<<held'>>), discarded', applied', read')
      PROVE  KeysInLine'
  BY ONLY <1>k DEF KeysInLine, Accounted, Before, InOrder, KeysOf
<1>m. ASSUME UNCHANGED <<burst, got, pending, held, discarded, applied, read>>,
             queue' \in {queue, Append(queue, Ready)}
      PROVE  KeysInLine'
  <2>1. InOrder(queue') /\ KeysOf(queue') = Q
    <3>1. /\ KeysOf(Append(queue, Ready)) = Q \cup KeysOf(<<Ready>>)
          /\ InOrder(Append(queue, Ready)) <=> InOrder(queue) /\ Before(Q, KeysOf(<<Ready>>))
      BY <1>t, KeysOfMore, EventKinds DEF Q
    <3>2. Before(Q, {})
      BY DEF Before
    <3> QED
      BY <1>m, <1>l, <1>n, <3>1, <3>2 DEF Q
  <2> QED
    BY <1>m, <2>1, <1>k, <1>l DEF B, G, P, H
<1>q. ASSUME NEW e \in LoopEvents, TryQueue(e),
             UNCHANGED <<burst, got, pending, discarded, applied>>,
             Accounted(B, G, P, Q, KeysOf(<<e>>), discarded, applied, read')
      PROVE  KeysInLine'
  <2> DEFINE E == KeysOf(<<e>>)
  <2> HIDE DEF E
  <2>1. CASE HasRoom
    <3>1. queue' = Append(queue, e) /\ held' = Nothing
      BY <1>q, <2>1 DEF TryQueue
    <3>2. Before(Q, E) /\ Accounted(B, G, P, Q \cup E, {}, discarded, applied, read')
      BY <1>q DEF Accounted, Before, E
    <3>3. KeysOf(queue') = Q \cup E /\ InOrder(queue')
      BY <3>1, <3>2, <1>t, <1>l, <1>q, KeysOfMore DEF Q, E
    <3>4. KeysOf(<<held'>>) = {}
      BY <3>1, <1>n
    <3> QED
      BY <1>q, <1>k, <1>l, <3>2, <3>3, <3>4 DEF B, G, P
  <2>2. CASE ~HasRoom
    <3>1. queue' = queue /\ held' = e
      BY <1>q, <2>2 DEF TryQueue
    <3> QED
      BY <1>q, <1>k, <1>l, <3>1 DEF B, G, P, Q
  <2> QED
    BY <2>1, <2>2
<1>d. ASSUME UNCHANGED <<burst, got, pending, queue, applied, read>>,
             held' = Nothing, DroppedHeld
      PROVE  KeysInLine'
  <2>1. discarded' = discarded \cup H /\ KeysOf(<<held'>>) = {}
    BY <1>d, <1>n DEF DroppedHeld, H
  <2>2. Accounted(B, G, P, Q, {}, discarded', applied, read)
    BY <2>1, <1>l DEF Accounted, Before
  <2> QED
    BY <1>d, <1>k, <1>l, <2>1, <2>2 DEF B, G, P, Q
<1>1. ASSUME NEW p \in Producers, Push(p) PROVE KeysInLine'
  BY ONLY <1>0, <1>1 DEF Push, keyVars, queueVars, wakeVars, uiVars, inputVars, ghostVars
<1>2. ASSUME NEW w \in Wakers, Swap(w) PROVE KeysInLine'
  BY ONLY <1>0, <1>2 DEF Swap, keyVars, queueVars, wakeVars, uiVars, inputVars, ghostVars
<1>3. ASSUME NEW w \in Wakers, SendMarker(w) PROVE KeysInLine'
  <2>1. queue' \in {queue, Append(queue, Ready)}
    BY ONLY <1>3 DEF SendMarker
  <2>2. UNCHANGED <<burst, got, pending, held, discarded, applied, read>>
    BY <1>3 DEF SendMarker
  <2> QED
    BY <2>1, <2>2, <1>m
<1>4. ASSUME NEW w \in Wakers, ClearPending(w) PROVE KeysInLine'
  BY ONLY <1>0, <1>4 DEF ClearPending, keyVars, queueVars, wakeVars, uiVars, inputVars, ghostVars
<1>5. ASSUME NEW w \in Wakers, ResendMarker(w) PROVE KeysInLine'
  <2>1. queue' \in {queue, Append(queue, Ready)}
    BY ONLY <1>5 DEF ResendMarker
  <2>2. UNCHANGED <<burst, got, pending, held, discarded, applied, read>>
    BY <1>5 DEF ResendMarker
  <2> QED
    BY <2>1, <2>2, <1>m
<1>6. ASSUME NEW w \in Wakers, SendToNobody(w) PROVE KeysInLine'
  BY ONLY <1>0, <1>6 DEF SendToNobody, keyVars, queueVars, wakeVars, uiVars, inputVars, ghostVars
<1>7. CASE ReadTerminal
  <2>1. UNCHANGED <<burst, got, pending, discarded, applied>>
    BY <1>7 DEF ReadTerminal
  <2>2. H = {}
    BY <1>7, <1>n DEF ReadTerminal, H
  <2>3. CASE TryQueue(Key(read + 1)) /\ read' = read + 1 /\ read < MaxKeys
    <3>1. Key(read + 1) \in LoopEvents
      BY <1>t, <2>3, EventKinds, ConstantsAssumption
    <3>2. KeysOf(<<Key(read + 1)>>) = {read + 1}
      <4>1. IsKey(Key(read + 1)) /\ Key(read + 1).no = read + 1
        BY DEF Key, IsKey
      <4> QED
        BY <4>1, KeysOfOne
    <3>3. Accounted(B, G, P, Q, {read + 1}, discarded, applied, read')
      BY <1>l, <1>t, <2>2, <2>3 DEF Accounted, Before
    <3> QED
      BY <1>q, <2>1, <2>3, <3>1, <3>2, <3>3
  <2>4. CASE TryQueue(Failed) /\ read' = read
    <3>1. Accounted(B, G, P, Q, KeysOf(<<Failed>>), discarded, applied, read')
      BY <1>l, <1>n, <2>2, <2>4
    <3> QED
      BY <1>q, <2>1, <2>4, <3>1, EventKinds
  <2> QED
    BY <1>7, <2>3, <2>4 DEF ReadTerminal
<1>8. CASE RetryHeld
  <2>1. held \in LoopEvents /\ TryQueue(held)
    BY <1>8, <1>t DEF RetryHeld
  <2>2. UNCHANGED <<burst, got, pending, discarded, applied, read>>
    BY <1>8 DEF RetryHeld
  <2>3. Accounted(B, G, P, Q, KeysOf(<<held>>), discarded, applied, read')
    BY <1>l, <2>2 DEF H
  <2> QED
    BY <1>q, <2>1, <2>2, <2>3
<1>9. CASE ObeyPause
  BY <1>9, <1>d DEF ObeyPause
<1>10. CASE ObeyResume
  BY ONLY <1>0, <1>10 DEF ObeyResume, keyVars, queueVars, wakeVars, uiVars, inputVars, ghostVars
<1>11. CASE ObeyShutdown
  BY <1>11, <1>d DEF ObeyShutdown
<1>12. CASE Panic
  BY ONLY <1>0, <1>12 DEF Panic, keyVars, queueVars, wakeVars, uiVars, inputVars, ghostVars
<1>13. ASSUME NEW p \in Producers, Drain(p) PROVE KeysInLine'
  BY ONLY <1>0, <1>13 DEF Drain, keyVars, queueVars, wakeVars, uiVars, inputVars, ghostVars
<1>14. CASE EndRound
  BY ONLY <1>0, <1>14 DEF EndRound, keyVars, queueVars, wakeVars, uiVars, inputVars, ghostVars
<1>15. CASE Wait
  BY ONLY <1>0, <1>15 DEF Wait, keyVars, queueVars, wakeVars, uiVars, inputVars, ghostVars
<1>16. CASE Receive
  <2>1. got = Nothing /\ UNCHANGED <<burst, held, discarded, applied, read>>
    BY <1>16 DEF Receive, OnlyHandleHolds
  <2>2. CASE ~IsQuiet /\ got' = NextEvent /\ TakeNext /\ pending' = Others
    <3>1. /\ InOrder(Others) /\ InOrder(queue')
          /\ Accounted(KeysOf(burst), KeysOf(<<NextEvent>>), KeysOf(Others), KeysOf(queue'),
                       KeysOf(<<held>>), discarded, applied, read)
      BY <2>1, <2>2, TakeNextInLine
    <3> QED
      BY <1>k, <1>l, <2>1, <2>2, <3>1
  <2>3. CASE got' = Nothing /\ UNCHANGED <<queueVars, pending>>
    BY <1>0, <2>1, <2>3 DEF keyVars
  <2> QED
    BY <1>16, <2>2, <2>3 DEF Receive
<1>17. CASE Handle
  <2>1. /\ burst = <<>> /\ B = {} /\ got' = Nothing /\ KeysOf(<<got'>>) = {}
        /\ UNCHANGED <<queue, held, discarded, applied, read>>
    BY <1>17, <1>n, KeysOfOne DEF Handle, BurstIsApplied, B
  <2>2. CASE pending' = <<got>> \o pending /\ got # Nothing /\ burst' = burst
    <3>1. /\ KeysOf(pending') = G \cup P
          /\ InOrder(pending') <=> InOrder(pending) /\ Before(G, P)
      BY <1>t, <2>2, KeysOfFront DEF G, P
    <3>2. Before(G, P) /\ Accounted(B, {}, G \cup P, Q, H, discarded, applied, read)
      BY <1>l DEF Accounted, Before
    <3> QED
      BY <1>k, <1>l, <2>1, <2>2, <3>1, <3>2 DEF B, Q, H
  <2>3. CASE pending' = pending /\ burst' = burst /\ ~IsKey(got)
    <3>1. G = {}
      BY <2>3, KeysOfOne DEF G
    <3> QED
      BY <1>k, <1>l, <2>1, <2>3, <3>1 DEF B, P, Q, H
  <2>4. CASE pending' = pending /\ burst' = <<got>>
    <3>1. KeysOf(burst') = G /\ InOrder(burst')
      BY <2>4, KeysOfOne DEF G
    <3>2. Accounted(G, {}, P, Q, H, discarded, applied, read)
      BY <1>l, <2>1 DEF Accounted, Before
    <3> QED
      BY <1>k, <1>l, <2>1, <2>4, <3>1, <3>2 DEF P, Q, H
  <2>5. \/ pending' = <<got>> \o pending /\ got # Nothing /\ burst' = burst
        \/ pending' = pending /\ burst' = burst /\ got \in {Nothing, Ready, Failed}
        \/ pending' = pending /\ burst' = <<got>>
    BY <1>17 DEF Handle
  <2> QED
    BY <2>2, <2>3, <2>4, <2>5, EventKinds
<1>18. CASE Collect
  <2> DEFINE e == NextEvent  o == Others  E == KeysOf(<<e>>)  O == KeysOf(o)  R == KeysOf(queue')
  <2>1. got = Nothing /\ G = {} /\ UNCHANGED <<got, held, discarded, applied, read>>
    BY <1>18, <1>n DEF Collect, OnlyHandleHolds, G
  <2>2. /\ InOrder(o) /\ InOrder(queue') /\ o \in Seq(LoopEvents) /\ e \in LoopEvents
        /\ Accounted(B, E, O, R, H, discarded, applied, read)
    BY <1>18, <2>1, TakeNextInLine DEF Collect, B, H
  <2>3. \/ burst' = Append(burst, e) /\ pending' = o
        \/ burst' = burst /\ e = Ready /\ pending' = <<Ready>> \o o
        \/ burst' = <<>> /\ e = Failed /\ pending' = burst \o o
    BY <1>18 DEF Collect
  <2> HIDE DEF e, o, R
  <2>4. CASE burst' = Append(burst, e) /\ pending' = o
    <3>1. Before(B, E) /\ Accounted(B \cup E, {}, O, R, H, discarded, applied, read)
      BY <2>2 DEF Accounted, Before
    <3>2. KeysOf(burst') = B \cup E /\ InOrder(burst')
      BY <1>l, <1>t, <2>2, <2>4, <3>1, KeysOfMore DEF B
    <3> QED
      BY <1>k, <1>n, <2>1, <2>2, <2>4, <3>1, <3>2 DEF R, H
  <2>5. CASE burst' = burst /\ e = Ready /\ pending' = <<Ready>> \o o
    <3>1. E = {}
      BY <1>n, <2>5
    <3>2. KeysOf(pending') = O /\ InOrder(pending')
      <4>1. Ready \in LoopEvents /\ o \in Seq(LoopEvents)
        BY <2>2, EventKinds
      <4>2. /\ KeysOf(<<Ready>> \o o) = KeysOf(<<Ready>>) \cup O
            /\ InOrder(<<Ready>> \o o) <=> InOrder(o) /\ Before(KeysOf(<<Ready>>), O)
        BY <4>1, KeysOfFront
      <4>3. Before({}, O)
        BY DEF Before
      <4> QED
        BY <1>n, <2>2, <2>5, <4>2, <4>3
    <3> QED
      BY <1>k, <1>l, <1>n, <2>1, <2>2, <2>5, <3>1, <3>2 DEF B, R, H
  <2>6. CASE burst' = <<>> /\ e = Failed /\ pending' = burst \o o
    <3>1. E = {}
      BY <1>n, <2>6
    <3>2. Before(B, O) /\ Accounted({}, {}, B \cup O, R, H, discarded, applied, read)
      BY <2>2, <3>1 DEF Accounted, Before
    <3>3. KeysOf(pending') = B \cup O /\ InOrder(pending')
      BY <1>l, <1>t, <2>2, <2>6, <3>2, KeysOfBoth DEF B
    <3>4. KeysOf(burst') = {} /\ InOrder(burst')
      BY <2>6, KeysOfOne
    <3> QED
      BY <1>k, <1>n, <2>1, <2>2, <3>2, <3>3, <3>4 DEF R, H
  <2> QED
    BY <2>3, <2>4, <2>5, <2>6
<1>19. CASE EndBurst
  BY ONLY <1>0, <1>19 DEF EndBurst, keyVars, queueVars, wakeVars, uiVars, inputVars, ghostVars
<1>20. CASE ApplyKey
  <2> DEFINE e == Head(burst)  o == Tail(burst)  O == KeysOf(o)
  <2>1. burst # <<>> /\ applied' = e.no /\ UNCHANGED <<got, pending, queue, held, read>>
    BY <1>20 DEF ApplyKey
  <2>2. \/ burst' = o /\ discarded' = Later(discarded)
        \/ burst' = <<>> /\ discarded' = Later(discarded) \cup O
    BY <1>20 DEF ApplyKey
  <2>3. IsKey(e)
    BY <2>1 DEF TypeOK, Key, IsKey
  <2>8. KeysOf(<<e>>) = {e.no}
    BY <2>3, KeysOfOne
  <2>9. B = KeysOf(<<e>>) \cup O /\ InOrder(o) /\ Before(KeysOf(<<e>>), O)
    BY <1>l, <1>t, <2>1, KeysOfRest DEF B
  <2>4. B = {e.no} \cup O /\ InOrder(o) /\ Before({e.no}, O)
    BY <2>8, <2>9
  <2>5. Later(discarded) = {k \in discarded : k > e.no}
    BY DEF Later
  <2> HIDE DEF e, o, O
  <2>6. CASE burst' = o /\ discarded' = Later(discarded)
    <3>1. Accounted(O, G, P, Q, H, Later(discarded), e.no, read)
      BY <1>l, <1>t, <2>4, <2>5, FrontIsApplied
    <3> QED
      BY <1>k, <1>l, <2>1, <2>4, <2>5, <2>6, <3>1 DEF G, P, Q, H, O
  <2>7. CASE burst' = <<>> /\ discarded' = Later(discarded) \cup O
    <3>1. Accounted({}, G, P, Q, H, Later(discarded) \cup O, e.no, read)
      BY <1>l, <1>t, <2>4, <2>5, FrontIsApplied
    <3>2. KeysOf(burst') = {} /\ InOrder(burst')
      BY <2>7, KeysOfOne
    <3> QED
      BY <1>k, <1>l, <2>1, <2>5, <2>7, <3>1, <3>2 DEF G, P, Q, H
  <2> QED
    BY <2>2, <2>6, <2>7
<1>21. CASE EndApply
  BY ONLY <1>0, <1>21 DEF EndApply, keyVars, queueVars, wakeVars, uiVars, inputVars, ghostVars
<1>22. CASE PauseAcknowledged
  <2>1. ~\E i \in DOMAIN pending : IsKey(pending[i])
    BY <1>22 DEF PauseAcknowledged, KeysAreNotSetAside
  <2>2. pending' = pending /\ KeysOf(pending) = {}
    BY <1>22, <2>1 DEF PauseAcknowledged, Retained, KeysOf
  <2>3. UNCHANGED keyVars
    BY <1>22, <2>2 DEF PauseAcknowledged, keyVars
  <2> QED
    BY <1>0, <2>3
<1>23. CASE Discard
  <2> DEFINE e == Head(queue)  o == Tail(queue)  E == KeysOf(<<e>>)  O == KeysOf(o)
  <2>1. queue # <<>> /\ queue' = o /\ UNCHANGED <<burst, got, held, applied, read>>
    BY <1>23 DEF Discard
  <2>2. \/ IsKey(e) /\ discarded' = discarded \cup {e.no} /\ pending' = pending
        \/ ~IsKey(e) /\ pending' = Append(pending, e) /\ discarded' = discarded
    BY <1>23 DEF Discard
  <2>3. Q = E \cup O /\ InOrder(o) /\ Before(E, O) /\ e \in LoopEvents
    BY <1>l, <1>t, <2>1, KeysOfRest DEF Q
  <2>4. E = IF IsKey(e) THEN {e.no} ELSE {}
    BY KeysOfOne
  <2> HIDE DEF e, o, E, O
  <2>5. CASE IsKey(e) /\ discarded' = discarded \cup {e.no} /\ pending' = pending
    <3>1. Accounted(B, G, P, O, H, discarded \cup {e.no}, applied, read)
      BY <1>l, <1>t, <2>3, <2>4, <2>5, FrontIsDiscarded
    <3> QED
      BY <1>k, <1>l, <2>1, <2>3, <2>5, <3>1 DEF B, G, P, H, O
  <2>6. CASE ~IsKey(e) /\ pending' = Append(pending, e) /\ discarded' = discarded
    <3>1. Accounted(B, G, P, O, H, discarded', applied, read)
      BY <1>l, <2>3, <2>4, <2>6 DEF Accounted, Before
    <3>2. KeysOf(pending') = P /\ InOrder(pending')
      <4>1. /\ KeysOf(pending') = P \cup E
            /\ InOrder(pending') <=> InOrder(pending) /\ Before(P, E)
        BY <1>t, <2>3, <2>6, KeysOfMore DEF P, E
      <4>2. E = {} /\ Before(P, {})
        BY <2>4, <2>6 DEF Before
      <4> QED
        BY <1>l, <4>1, <4>2
    <3> QED
      BY <1>k, <1>l, <2>1, <2>3, <3>1, <3>2 DEF B, G, H, O
  <2> QED
    BY <2>2, <2>5, <2>6
<1>24. CASE EndDiscard
  BY ONLY <1>0, <1>24 DEF EndDiscard, keyVars, queueVars, wakeVars, uiVars, inputVars, ghostVars
<1>25. CASE EndEditor
  BY ONLY <1>0, <1>25 DEF EndEditor, keyVars, queueVars, wakeVars, uiVars, inputVars, ghostVars
<1>26. CASE ResumeAcknowledged
  BY ONLY <1>0, <1>26 DEF ResumeAcknowledged, keyVars, queueVars, wakeVars, uiVars, inputVars, ghostVars
<1>27. CASE InputIsGone
  BY ONLY <1>0, <1>27 DEF InputIsGone, keyVars, queueVars, wakeVars, uiVars, inputVars, ghostVars
<1>28. CASE JoinInput
  <2>1. /\ queue' = <<>> /\ discarded' = discarded \cup Q
        /\ UNCHANGED <<burst, got, pending, held, applied, read>>
    BY <1>28 DEF JoinInput, Q
  <2>2. KeysOf(queue') = {} /\ InOrder(queue')
    BY <2>1, KeysOfOne
  <2>3. Accounted(B, G, P, {}, H, discarded', applied, read)
    BY <1>l, <2>1 DEF Accounted, Before
  <2> QED
    BY <1>k, <1>l, <2>1, <2>2, <2>3 DEF B, G, P, H
<1>29. CASE UNCHANGED vars
  BY ONLY <1>0, <1>29 DEF vars, keyVars, queueVars, wakeVars, uiVars, inputVars, ghostVars
<1> QED
  BY <1>1, <1>2, <1>3, <1>4, <1>5, <1>6, <1>7, <1>8, <1>9, <1>10, <1>11,
     <1>12, <1>13, <1>14, <1>15, <1>16, <1>17, <1>18, <1>19, <1>20,
     <1>21, <1>22, <1>23, <1>24, <1>25, <1>26, <1>27, <1>28, <1>29 DEF Next, Wake, InputStep, LoopStep

LEMMA KeysInLineInit == Init => BurstIsApplied /\ KeysInLine
<1> SUFFICES ASSUME Init PROVE BurstIsApplied /\ KeysInLine
  OBVIOUS
<1>1. KeysOf(<<>>) = {} /\ InOrder(<<>>) /\ KeysOf(<<Nothing>>) = {}
  BY KeysOfOne, EventKinds
<1>2. Accounted({}, {}, {}, {}, {}, {}, 0, 0)
  BY DEF Accounted, Before
<1> QED
  BY <1>1, <1>2 DEF Init, BurstIsApplied, KeysInLine

(* Whatever is put back, held back, collected, discarded or given up, the keys
   that wait are in the order they were read, all later than those applied, and
   none is lost. *)
LEMMA LineIsInOrder == TypeOK /\ KeysInLine => KeysInOrder
<1> SUFFICES ASSUME TypeOK, KeysInLine PROVE KeysInOrder
  OBVIOUS
<1> DEFINE T == LoopEvents \cup {Nothing}
           B == KeysOf(burst)  G == KeysOf(<<got>>)  P == KeysOf(pending)
           Q == KeysOf(queue)  H == KeysOf(<<held>>)
           g == <<got>>  h == <<held>>
           s2 == burst \o g  s3 == s2 \o pending  s4 == s3 \o queue  s5 == s4 \o h
<1>1. burst \in Seq(T) /\ g \in Seq(T) /\ pending \in Seq(T) /\ queue \in Seq(T) /\ h \in Seq(T)
  BY EventKinds DEF TypeOK
<1>2. /\ InOrder(burst) /\ InOrder(g) /\ InOrder(pending) /\ InOrder(queue) /\ InOrder(h)
      /\ Accounted(B, G, P, Q, H, discarded, applied, read)
  BY KeysOfOne DEF KeysInLine
<1>3. KeysOf(g) = G /\ KeysOf(h) = H
  OBVIOUS
<1>4. OnItsWay = s5
  BY DEF OnItsWay
<1> HIDE DEF B, G, P, Q, H, g, h, T
<1>5. s2 \in Seq(T) /\ s3 \in Seq(T) /\ s4 \in Seq(T)
  BY <1>1
<1> HIDE DEF s2, s3, s4, s5
<1>6. KeysOf(s2) = B \cup G /\ InOrder(s2)
  BY <1>1, <1>2, <1>3, KeysOfBoth DEF s2, B, Accounted
<1>7. Before(B \cup G, P)
  BY <1>2 DEF Accounted, Before
<1>8. KeysOf(s3) = B \cup G \cup P /\ InOrder(s3)
  <2>1. /\ KeysOf(s3) = KeysOf(s2) \cup P
        /\ InOrder(s3) <=> InOrder(s2) /\ InOrder(pending) /\ Before(KeysOf(s2), P)
    BY <1>1, <1>3, <1>5, KeysOfBoth DEF s3, P
  <2> QED
    BY <2>1, <1>2, <1>6, <1>7
<1>9. Before(B \cup G \cup P, Q)
  BY <1>2 DEF Accounted, Before
<1>10. KeysOf(s4) = B \cup G \cup P \cup Q /\ InOrder(s4)
  <2>1. /\ KeysOf(s4) = KeysOf(s3) \cup Q
        /\ InOrder(s4) <=> InOrder(s3) /\ InOrder(queue) /\ Before(KeysOf(s3), Q)
    BY <1>1, <1>3, <1>5, KeysOfBoth DEF s4, Q
  <2> QED
    BY <2>1, <1>2, <1>8, <1>9
<1>11. Before(B \cup G \cup P \cup Q, H)
  BY <1>2 DEF Accounted, Before
<1>12. KeysOf(s5) = B \cup G \cup P \cup Q \cup H /\ InOrder(s5)
  <2>1. /\ KeysOf(s5) = KeysOf(s4) \cup H
        /\ InOrder(s5) <=> InOrder(s4) /\ InOrder(h) /\ Before(KeysOf(s4), H)
    BY <1>1, <1>3, <1>5, KeysOfBoth DEF s5
  <2> QED
    BY <2>1, <1>2, <1>10, <1>11
<1> QED
  BY <1>2, <1>4, <1>12 DEF KeysInOrder, Accounted

-----------------------------------------------------------------------------
(* The theorems. *)

LEMMA InvariantInit == Init => IInv
<1> SUFFICES ASSUME Init PROVE IInv
  OBVIOUS
<1>1. TypeOK
  BY TypeInit
<1>2. FlagHasAMarker /\ OnlyHandleHolds /\ RoundIsOver
  BY DEF Init, FlagHasAMarker, OnlyHandleHolds, RoundIsOver
<1>3. DrainedIsMarked /\ FailureIsMarked
  BY DEF Init, DrainedIsMarked, FailureIsMarked
<1>4. LivingInputSendsNothing /\ PausedInputIsSilent /\ HeldBehindAFullQueue
  BY DEF Init, LivingInputSendsNothing, PausedInputIsSilent, HeldBehindAFullQueue, Wakers
<1>5. KeysAreNotSetAside
  <2>1. DOMAIN pending = {}
    BY DEF Init
  <2> QED
    BY <2>1 DEF KeysAreNotSetAside
<1> QED
  BY <1>1, <1>2, <1>3, <1>4, <1>5, KeysInLineInit DEF IInv

LEMMA InvariantStep == IInv /\ [Next]_vars => IInv'
<1> SUFFICES ASSUME IInv, [Next]_vars PROVE IInv'
  OBVIOUS
<1>1. TypeOK'
  BY TypeStep DEF IInv
<1>2. FlagHasAMarker'
  BY FlagHasAMarkerStep DEF IInv
<1>3. OnlyHandleHolds' /\ RoundIsOver'
  BY OnlyHandleHoldsStep, RoundIsOverStep DEF IInv
<1>4. DrainedIsMarked' /\ FailureIsMarked'
  BY DrainedIsMarkedStep, FailureIsMarkedStep DEF IInv
<1>5. LivingInputSendsNothing' /\ KeysAreNotSetAside'
  BY LivingInputSendsNothingStep, KeysAreNotSetAsideStep DEF IInv
<1>6. PausedInputIsSilent' /\ HeldBehindAFullQueue'
  BY PausedInputIsSilentStep, HeldBehindAFullQueueStep DEF IInv
<1>7. BurstIsApplied' /\ KeysInLine'
  BY BurstIsAppliedStep, KeysInLineStep DEF IInv
<1> QED
  BY <1>1, <1>2, <1>3, <1>4, <1>5, <1>6, <1>7 DEF IInv

(* The strengthened invariant holds in every behaviour of the wake mechanism:
   it is what the theorems below follow from. *)
THEOREM InvariantHolds == Spec => []IInv
<1> QED
  BY InvariantInit, InvariantStep, PTL DEF Spec

(* The queue of loop events never exceeds its capacity, and no marker is held
   back in the place of a terminal event (try_send, try_queue_loop_event). *)
THEOREM TypeCorrect == Spec => []TypeOK
<1>1. IInv => TypeOK
  BY DEF IInv
<1> QED
  BY <1>1, InvariantHolds, PTL

(* However many threads wake the UI loop, and however small the queue: before the
   loop may block, each payload it has not drained and a failure it has not seen
   has a marker, another event, or a thread about to send one
   (LoopEventWaker::wake, LoopEventPump::wait). *)
THEOREM NoWakeIsLost == Spec => []WakeIsNotLost
<1>1. ASSUME IInv PROVE WakeIsNotLost
  <2>1. ASSUME ui \in {"wait", "receive"}, NEW p \in Producers,
               p \in unseen, wake[p] = "idle"
        PROVE  MarkerOnItsWay
    BY <1>1, <2>1 DEF IInv, RoundIsOver, DrainedIsMarked
  <2>2. ASSUME failure, wake[Input] = "idle", ui = "receive"
        PROVE  MarkerOnItsWay
    BY <1>1, <2>2 DEF IInv, FailureIsMarked
  <2> QED
    BY <2>1, <2>2 DEF WakeIsNotLost
<1> QED
  BY <1>1, InvariantHolds, PTL

(* The input thread never holds an event back behind a queue with room without the
   permit that lets it try again (capacity_available). *)
THEOREM HeldEventMayBeRetried == Spec => []HeldBehindAFullQueue
<1>1. IInv => HeldBehindAFullQueue
  BY DEF IInv
<1> QED
  BY <1>1, InvariantHolds, PTL

(* Terminal events reach the model in the order they were read, and none is lost
   other than by a pause or by leaving, whatever the capacity of the queue and of
   a burst (try_queue_loop_event, collect_terminal_burst, pending_events). *)
THEOREM KeysArriveInOrder == Spec => []KeysInOrder
<1>1. IInv => KeysInOrder
  BY LineIsInOrder DEF IInv
<1> QED
  BY <1>1, InvariantHolds, PTL

(* While the external editor runs, the terminal is read by nobody else, nothing
   typed earlier is still queued, and a wake that was merged meanwhile has its
   marker (pause_terminal_input, discard_queued_terminal_input). *)
THEOREM TerminalIsTheEditors == Spec => []EditorOwnsTheTerminal
<1>1. ASSUME IInv PROVE EditorOwnsTheTerminal
  <2> SUFFICES ASSUME ui = "editor" PROVE EditorOwnsTheTerminal
    BY DEF EditorOwnsTheTerminal
  <2>1. ~source /\ held = Nothing
    BY <1>1 DEF IInv, PausedInputIsSilent
  <2>2. KeysOf(pending \o queue) = {}
    <3>1. /\ \A i \in DOMAIN pending : ~IsKey(pending[i])
          /\ \A i \in DOMAIN queue : ~IsKey(queue[i])
      BY <1>1 DEF IInv, KeysAreNotSetAside, PausedInputIsSilent
    <3>2. pending \in Seq(LoopEvents) /\ queue \in Seq(LoopEvents)
      BY <1>1 DEF IInv, TypeOK
    <3>3. \A i \in DOMAIN (pending \o queue) : ~IsKey((pending \o queue)[i])
      <4> TAKE i \in DOMAIN (pending \o queue)
      <4>1. CASE i \in DOMAIN pending
        <5>1. (pending \o queue)[i] = pending[i]
          BY <3>2, <4>1
        <5> QED
          BY <3>1, <4>1, <5>1
      <4>2. CASE i \notin DOMAIN pending
        <5>1. i - Len(pending) \in DOMAIN queue
              /\ (pending \o queue)[i] = queue[i - Len(pending)]
          BY <3>2, <4>2
        <5> QED
          BY <3>1, <5>1
      <4> QED
        BY <4>1, <4>2
    <3> QED
      BY <3>3 DEF KeysOf
  <2>3. isPending => MarkerOnItsWay
    <3>1. got # Ready
      BY <1>1, EventKinds DEF IInv, OnlyHandleHolds
    <3>2. /\ HasReady(queue) => queue # <<>>
          /\ HasReady(pending) => pending # <<>>
      BY NotEmpty
    <3> QED
      BY <1>1, <3>1, <3>2 DEF IInv, FlagHasAMarker, MarkerOnItsWay
  <2> QED
    BY <2>1, <2>2, <2>3 DEF EditorOwnsTheTerminal
<1> QED
  BY <1>1, InvariantHolds, PTL

-----------------------------------------------------------------------------
(* The clipboard *)

Reports  == [text : Nat, how : {"copied", "fallback"}]
Tellings == [text : Nat, how : {"copied", "fallback", "rejected"}]
Spoken   == [text : Nat, how : {"copied", "fallback", "rejected", "failed", "panicked", "stopped"}]
Answers  == [text : Nat, how : {"copied", "failed", "panicked", "stopped"}]

ClipboardTypeOK ==
  /\ jobs \in Seq(Nat) /\ accepted \in Seq(Nat)
  /\ worker \in [at : {"waiting", "writing", "sending", "waking", "exiting", "gone"},
                 text : Nat, how : {"none", "copied", "failed", "panicked", "stopped"}]
  /\ worker.at = "sending" => worker.how # "none"
  /\ canWrite \in BOOLEAN /\ awakened \in BOOLEAN
  /\ answers \in Seq(Answers) /\ told \in Seq(Tellings)
  /\ copies \in Nat

CopiesInLine ==
  loop # "gone" =>
    /\ Texts(Answered) \o Texts(answers) \o InHand \o jobs = accepted
    /\ inFlight = Len(answers) + Len(InHand) + Len(jobs)

AnswerWakes ==
  loop \in {"deciding", "sleeping"} /\ answers # <<>> => awakened \/ worker.at = "waking"

(* Who would still write has seen no panic.                                  *)
NoWriteAfterPanic ==
  /\ \A i, j \in DOMAIN answers : i < j /\ answers[i].how = "panicked" => answers[j].how = "stopped"
  /\ \A i \in DOMAIN answers : answers[i].how = "panicked" =>
       ~canWrite /\ (worker.at = "sending" => worker.how = "stopped")
  /\ worker.at = "sending" /\ worker.how = "panicked" => ~canWrite

ClipboardInv == ClipboardTypeOK /\ CopiesInLine /\ AnswerWakes /\ NoWriteAfterPanic

LEMMA TextsOfAll ==
  ASSUME NEW s \in Seq(Spoken)
  PROVE  Texts(s) \in Seq(Nat) /\ Len(Texts(s)) = Len(s) /\ \A i \in 1..Len(s) : Texts(s)[i] = s[i].text
<1>1. Len(s) \in Nat /\ \A i \in 1..Len(s) : s[i].text \in Nat
  <2>1. \A e \in Spoken : e.text \in Nat
    BY DEF Spoken
  <2> QED BY <2>1
<1>2. Texts(s) = [i \in 1..Len(s) |-> s[i].text]
  BY DEF Texts
<1> DEFINE t == [i \in 1..Len(s) |-> s[i].text]
<1>3. t \in [1..Len(s) -> Nat]
  BY <1>1
<1>4. t \in Seq(Nat) /\ Len(t) = Len(s)
  BY <1>1, <1>3
<1> QED BY <1>1, <1>2, <1>4

LEMMA TextsConcat ==
  ASSUME NEW s \in Seq(Spoken), NEW u \in Seq(Spoken)
  PROVE  Texts(s \o u) = Texts(s) \o Texts(u)
<1> DEFINE w == s \o u
           x == Texts(s)
           y == Texts(u)
           z == Texts(w)
<1>1. w \in Seq(Spoken)
  OBVIOUS
<1>2. x \in Seq(Nat) /\ Len(x) = Len(s) /\ \A i \in 1..Len(s) : x[i] = s[i].text
  BY TextsOfAll
<1>3. y \in Seq(Nat) /\ Len(y) = Len(u) /\ \A i \in 1..Len(u) : y[i] = u[i].text
  BY TextsOfAll
<1>4. z \in Seq(Nat) /\ Len(z) = Len(w) /\ \A i \in 1..Len(w) : z[i] = w[i].text
  BY <1>1, TextsOfAll
<1>5. /\ Len(w) = Len(s) + Len(u) /\ Len(s) \in Nat /\ Len(u) \in Nat
      /\ \A i \in 1..Len(w) : w[i] = IF i <= Len(s) THEN s[i] ELSE u[i - Len(s)]
  OBVIOUS
<1> HIDE DEF w, x, y, z
<1>6. /\ x \o y \in Seq(Nat) /\ Len(x \o y) = Len(x) + Len(y)
      /\ \A i \in 1..(Len(x) + Len(y)) : (x \o y)[i] = IF i <= Len(x) THEN x[i] ELSE y[i - Len(x)]
  BY <1>2, <1>3, ConcatProperties
<1>7. ASSUME NEW i \in 1..Len(w) PROVE z[i] = (x \o y)[i]
  <2>1. CASE i <= Len(s)
    <3>1. i \in 1..Len(s) /\ i \in 1..(Len(x) + Len(y))
      BY <2>1, <1>2, <1>3, <1>5
    <3> QED BY <3>1, <2>1, <1>2, <1>4, <1>5, <1>6
  <2>2. CASE ~(i <= Len(s))
    <3>1. i - Len(s) \in 1..Len(u) /\ i \in 1..(Len(x) + Len(y))
      BY <2>2, <1>2, <1>3, <1>5
    <3> QED BY <3>1, <2>2, <1>2, <1>3, <1>4, <1>5, <1>6
  <2> QED BY <2>1, <2>2
<1>8. z = x \o y
  <2>1. Len(z) = Len(x \o y) /\ \A i \in 1..Len(z) : z[i] = (x \o y)[i]
    BY <1>2, <1>3, <1>4, <1>5, <1>6, <1>7
  <2> QED BY <2>1, <1>4, <1>6, SeqEqual
<1> QED BY <1>8 DEF w, x, y, z

LEMMA TextsAppend ==
  ASSUME NEW s \in Seq(Spoken), NEW e \in Spoken
  PROVE  Texts(Append(s, e)) = Texts(s) \o <<e.text>>
<1>1. Append(s, e) = s \o <<e>> /\ <<e>> \in Seq(Spoken)
  OBVIOUS
<1>2. Texts(<<e>>) = <<e.text>>
  BY DEF Texts
<1> QED BY <1>1, <1>2, TextsConcat

LEMMA AllHaveTexts ==
  ASSUME NEW s, s \in Seq(Reports) \/ s \in Seq(Answers) \/ s \in Seq(Tellings)
  PROVE  s \in Seq(Spoken)
<1>1. /\ Reports \subseteq Spoken
      /\ Answers \subseteq Spoken
      /\ Tellings \subseteq Spoken
  BY DEF Reports, Answers, Tellings, Spoken
<1>2. \A T, U : T \subseteq U => Seq(T) \subseteq Seq(U)
  OBVIOUS
<1> QED BY <1>1, <1>2

LEMMA AnsweredType ==
  ASSUME told \in Seq(Tellings)
  PROVE  Answered \in Seq(Reports) /\ Texts(Answered) \in Seq(Nat)
<1>1. Select(told, Reports) \in Seq(Tellings)
  BY SelectType
<1>2. \A k \in 1..Len(Select(told, Reports)) : Select(told, Reports)[k] \in Reports
  BY SelectRange
<1>3. Select(told, Reports) \in Seq(Reports)
  BY <1>1, <1>2, SequenceInto
<1>4. Answered = Select(told, Reports)
  BY DEF Answered, Reports
<1> QED BY <1>3, <1>4, AllHaveTexts, TextsOfAll

(* A text enters the line at its end, and passes from place to place.       *)
LEMMA TextEnters ==
  ASSUME NEW s \in Seq(Nat), NEW j \in Seq(Nat), NEW e \in Nat
  PROVE  s \o Append(j, e) = Append(s \o j, e)
BY ConcatAppend

LEMMA TextsAssociate ==
  ASSUME NEW a \in Seq(Nat), NEW b \in Seq(Nat), NEW c \in Seq(Nat)
  PROVE  (a \o b) \o c = a \o (b \o c)
BY ConcatAssociative, SMTT(30)

LEMMA TextIsTaken ==
  ASSUME NEW s \in Seq(Nat), NEW j \in Seq(Nat), j # <<>>
  PROVE  s \o <<>> \o j = s \o <<Head(j)>> \o Tail(j) /\ Head(j) \in Nat /\ Tail(j) \in Seq(Nat)
<1>1. /\ Head(j) \in Nat /\ Tail(j) \in Seq(Nat) /\ Len(Tail(j)) = Len(j) - 1
      /\ \A i \in 1..Len(Tail(j)) : Tail(j)[i] = j[i + 1]
  BY HeadTailProperties
<1>2. j = <<Head(j)>> \o Tail(j)
  <2> DEFINE h == <<Head(j)>>
             r == Tail(j)
  <2>1. h \in Seq(Nat) /\ r \in Seq(Nat) /\ Len(h) = 1 /\ h[1] = j[1] /\ Len(j) = 1 + Len(r)
        /\ \A i \in 1..Len(r) : r[i] = j[i + 1]
    BY <1>1
  <2> HIDE DEF h, r
  <2>2. /\ h \o r \in Seq(Nat) /\ Len(h \o r) = Len(h) + Len(r)
        /\ \A i \in 1..(Len(h) + Len(r)) : (h \o r)[i] = IF i <= Len(h) THEN h[i] ELSE r[i - Len(h)]
    BY <2>1, ConcatProperties
  <2>3. ASSUME NEW i \in 1..Len(j) PROVE j[i] = (h \o r)[i]
    <3>1. CASE i = 1
      BY <2>1, <2>2, <3>1
    <3>2. CASE i # 1
      <4>1. i - 1 \in 1..Len(r) /\ (i - 1) + 1 = i /\ ~(i <= 1) /\ i \in 1..(Len(h) + Len(r))
        BY <2>1, <3>2
      <4> QED BY <2>1, <2>2, <4>1
    <3> QED BY <3>1, <3>2
  <2>4. Len(j) = Len(h \o r)
    BY <2>1, <2>2
  <2>5. j = h \o r
    BY <2>2, <2>3, <2>4, SeqEqual
  <2> QED BY <2>5 DEF h, r
<1>3. s \o <<>> = s
  BY ConcatEmptySeq
<1>4. (s \o <<Head(j)>>) \o Tail(j) = s \o (<<Head(j)>> \o Tail(j))
  <2> DEFINE h == <<Head(j)>>
             r == Tail(j)
  <2>1. ASSUME NEW e \in Nat PROVE <<e>> \in Seq(Nat)
    OBVIOUS
  <2> DEFINE first == Head(j)
  <2>5. first \in Nat
    BY <1>1
  <2> HIDE DEF first
  <2>6. <<first>> \in Seq(Nat)
    BY <2>1, <2>5
  <2>3. h \in Seq(Nat)
    BY <2>6 DEF first
  <2>4. r \in Seq(Nat)
    BY <1>1
  <2> HIDE DEF h, r
  <2>2. (s \o h) \o r = s \o (h \o r)
    BY <2>3, <2>4, TextsAssociate, ZenonT(40)
  <2> QED BY <2>2 DEF h, r
<1> QED BY <1>1, <1>2, <1>3, <1>4

LEMMA TextIsAnswered ==
  ASSUME NEW s \in Seq(Nat), NEW b \in Seq(Nat), NEW e \in Nat
  PROVE  s \o b \o <<e>> = s \o (b \o <<e>>) \o <<>>
<1>1. <<e>> \in Seq(Nat) /\ b \o <<e>> \in Seq(Nat)
  OBVIOUS
<1>2. s \o (b \o <<e>>) \in Seq(Nat)
  BY <1>1
<1>3. s \o (b \o <<e>>) \o <<>> = s \o (b \o <<e>>)
  BY <1>2, ConcatEmptySeq
<1> QED BY <1>1, <1>3, TextsAssociate

-----------------------------------------------------------------------------
LEMMA ClipboardTypes ==
  ASSUME ClipboardTypeOK
  PROVE  /\ Texts(Answered) \in Seq(Nat) /\ Texts(answers) \in Seq(Nat)
         /\ InHand \in Seq(Nat) /\ Texts(Answered) \o Texts(answers) \in Seq(Nat)
         /\ Texts(Answered) \o Texts(answers) \o InHand \in Seq(Nat)
         /\ Len(answers) \in Nat /\ Len(jobs) \in Nat
         /\ Len(InHand) = IF worker.at \in {"writing", "sending"} THEN 1 ELSE 0
<1>1. Texts(Answered) \in Seq(Nat) /\ Texts(answers) \in Seq(Nat)
  BY AnsweredType, AllHaveTexts, TextsOfAll DEF ClipboardTypeOK
<1>2. InHand \in Seq(Nat) /\ Len(InHand) = IF worker.at \in {"writing", "sending"} THEN 1 ELSE 0
  BY DEF ClipboardTypeOK, InHand
<1>3. \A s, u \in Seq(Nat) : s \o u \in Seq(Nat)
  OBVIOUS
<1> QED BY <1>1, <1>2, <1>3 DEF ClipboardTypeOK

LEMMA CopySelectionKeeps == ASSUME ClipboardInv, CopySelection PROVE ClipboardInv'
<1> USE DEF ClipboardInv
<1>1. ClipboardTypeOK'
  <2>1. copies' \in Nat /\ Said(copies', "rejected") \in Tellings
    BY DEF CopySelection, ClipboardTypeOK, Said, Tellings
  <2>2. /\ jobs' \in {jobs, Append(jobs, copies')} /\ accepted' \in {accepted, Append(accepted, copies')}
        /\ told' \in {told, Append(told, Said(copies', "rejected"))}
        /\ UNCHANGED <<worker, canWrite, answers, awakened>>
    BY DEF CopySelection
  <2>3. jobs' \in Seq(Nat) /\ accepted' \in Seq(Nat) /\ told' \in Seq(Tellings)
    <3>1. /\ jobs \in Seq(Nat) /\ accepted \in Seq(Nat) /\ told \in Seq(Tellings)
      BY DEF ClipboardTypeOK
    <3>2. Append(jobs, copies') \in Seq(Nat)
      BY <2>1, <3>1
    <3>3. Append(accepted, copies') \in Seq(Nat)
      BY <2>1, <3>1
    <3>4. Append(told, Said(copies', "rejected")) \in Seq(Tellings)
      BY <2>1, <3>1
    <3> QED BY <2>2, <3>1, <3>2, <3>3, <3>4
  <2> QED BY <2>1, <2>2, <2>3 DEF ClipboardTypeOK
<1>2. CopiesInLine'
  <2>1. copies' \in Nat /\ loop # "gone"
    BY DEF CopySelection, ClipboardTypeOK
  <2>2. CASE Len(jobs) < QueueCapacity
    <3>1. /\ jobs' = Append(jobs, copies') /\ accepted' = Append(accepted, copies')
          /\ inFlight' = inFlight + 1 /\ told' = told /\ answers' = answers /\ worker' = worker
      BY <2>2 DEF CopySelection
    <3>2. Texts(Answered)' = Texts(Answered) /\ Texts(answers)' = Texts(answers) /\ InHand' = InHand
      BY <3>1 DEF Texts, Answered, InHand
    <3> DEFINE s == Texts(Answered) \o Texts(answers) \o InHand
    <3>3. s \in Seq(Nat) /\ s \o jobs = accepted /\ jobs \in Seq(Nat)
      BY <2>1, ClipboardTypes DEF CopiesInLine, ClipboardTypeOK
    <3>4. s \o jobs' = accepted'
      BY <2>1, <3>1, <3>3, TextEnters
    <3>5. inFlight' = Len(answers) + Len(InHand) + Len(jobs')
      <4>1. Len(jobs') = Len(jobs) + 1
        BY <3>1, <3>3
      <4> QED BY <2>1, <3>1, <4>1, ClipboardTypes DEF CopiesInLine
    <3> QED BY <3>1, <3>2, <3>4, <3>5 DEF CopiesInLine
  <2>3. CASE ~(Len(jobs) < QueueCapacity)
    <3>1. /\ told' = Append(told, Said(copies', "rejected"))
          /\ UNCHANGED <<jobs, accepted, inFlight, worker, answers>>
      BY <2>3 DEF CopySelection
    <3>2. Answered' = Answered
      <4>1. Said(copies', "rejected") \in Tellings /\ Said(copies', "rejected") \notin Reports
        BY <2>1 DEF Said, Tellings, Reports
      <4>2. Select(told', Reports) = Select(told, Reports)
        BY <3>1, <4>1, SelectAppend DEF ClipboardTypeOK
      <4> QED BY <4>2 DEF Answered, Reports
    <3> QED BY <2>1, <3>1, <3>2 DEF CopiesInLine, Texts, InHand
  <2> QED BY <2>2, <2>3
<1>3. AnswerWakes' /\ NoWriteAfterPanic'
  BY DEF CopySelection, AnswerWakes, NoWriteAfterPanic
<1> QED BY <1>1, <1>2, <1>3

(* What is drained and told.                                                *)
LEMMA Retold ==
  ASSUME ClipboardTypeOK, told' = Tell(answers)
  PROVE  told' \in Seq(Tellings) /\ Texts(Answered)' = Texts(Answered) \o Texts(answers)
<1> DEFINE more == [i \in DOMAIN answers |-> Said(answers[i].text, Reported(answers[i].how))]
<1>1. more \in Seq(Reports) /\ more \in Seq(Tellings) /\ Texts(more) = Texts(answers)
  <2>1. Len(answers) \in Nat /\ DOMAIN answers = 1..Len(answers)
        /\ \A i \in 1..Len(answers) : answers[i] \in Answers
    BY DEF ClipboardTypeOK
  <2>2. \A e \in Answers : /\ Said(e.text, Reported(e.how)) \in Reports
                            /\ Said(e.text, Reported(e.how)) \in Tellings
                            /\ Said(e.text, Reported(e.how)).text = e.text
    BY DEF Answers, Said, Reported, Reports, Tellings
  <2>3. /\ more = [i \in 1..Len(answers) |-> Said(answers[i].text, Reported(answers[i].how))]
        /\ more \in [1..Len(answers) -> Reports] /\ more \in [1..Len(answers) -> Tellings]
    BY <2>1, <2>2
  <2>4. more \in Seq(Reports) /\ more \in Seq(Tellings)
    BY <2>1, <2>3
  <2>5. DOMAIN more = DOMAIN answers /\ \A i \in DOMAIN answers : more[i].text = answers[i].text
    BY <2>1, <2>2
  <2>6. Texts(more) = Texts(answers)
    <3> HIDE DEF more
    <3> QED BY <2>5 DEF Texts
  <2> QED BY <2>4, <2>6
<1>2. told' = told \o more
  BY DEF Tell
<1> HIDE DEF more
<1>3. told \in Seq(Tellings) /\ told' \in Seq(Tellings)
  BY <1>1, <1>2 DEF ClipboardTypeOK
<1>4. Select(told', Reports) = Select(told, Reports) \o more
  <2>1. Select(told \o more, Reports) = Select(told, Reports) \o Select(more, Reports)
    BY <1>1, <1>3, SelectConcat
  <2>2. Select(more, Reports) = more
    BY <1>1, SelectAll
  <2> QED BY <1>2, <2>1, <2>2
<1>5. Answered' = Answered \o more
  BY <1>4 DEF Answered, Reports
<1>6. Texts(Answered \o more) = Texts(Answered) \o Texts(more)
  BY <1>1, <1>3, AnsweredType, AllHaveTexts, TextsConcat
<1>7. Texts(Answered)' = Texts(Answered \o more)
  BY <1>5 DEF Texts
<1> QED BY <1>1, <1>3, <1>6, <1>7

LEMMA DrainAnswersKeeps == ASSUME ClipboardInv, DrainAnswers PROVE ClipboardInv'
<1> USE DEF ClipboardInv
<1>1. /\ loop = "draining" /\ answers' = <<>> /\ told' = Tell(answers)
      /\ inFlight' = inFlight - Len(answers)
      /\ UNCHANGED <<jobs, worker, canWrite, awakened, loop, copies, accepted>>
  BY DEF DrainAnswers
<1>2. told' \in Seq(Tellings) /\ Texts(Answered)' = Texts(Answered) \o Texts(answers)
  BY <1>1, Retold
<1>3. ClipboardTypeOK'
  BY <1>1, <1>2 DEF ClipboardTypeOK
<1>4. CopiesInLine'
  <2>1. Texts(answers)' = <<>> /\ InHand' = InHand
    BY <1>1 DEF Texts, InHand
  <2> DEFINE s == Texts(Answered) \o Texts(answers)
  <2>2. s \in Seq(Nat)
    BY ClipboardTypes
  <2>3. s \o <<>> = s
    BY <2>2, ConcatEmptySeq
  <2>4. Texts(Answered)' \o Texts(answers)' \o InHand' \o jobs' = accepted'
    BY <1>1, <1>2, <2>1, <2>3 DEF CopiesInLine
  <2>5. inFlight' = Len(answers') + Len(InHand') + Len(jobs')
    BY <1>1, <2>1, ClipboardTypes DEF CopiesInLine
  <2> QED BY <2>4, <2>5 DEF CopiesInLine
<1>5. AnswerWakes' /\ NoWriteAfterPanic'
  BY <1>1 DEF AnswerWakes, NoWriteAfterPanic
<1> QED BY <1>3, <1>4, <1>5

LEMMA QuitLoopKeeps == ASSUME ClipboardInv, QuitLoop PROVE ClipboardInv'
<1> USE DEF ClipboardInv
<1>1. /\ loop' = "gone" /\ answers' = <<>> /\ told' = Tell(answers)
      /\ UNCHANGED <<jobs, worker, canWrite, awakened, copies, accepted>>
  BY DEF QuitLoop
<1>2. told' \in Seq(Tellings)
  BY <1>1, Retold
<1> QED BY <1>1, <1>2 DEF ClipboardTypeOK, CopiesInLine, AnswerWakes, NoWriteAfterPanic

LEMMA LoopKeeps ==
  ASSUME ClipboardInv, Sleep \/ WaitForEvents \/ LoopIsWoken \/ KeyArrives
  PROVE  ClipboardInv'
<1>1. /\ loop # "gone" /\ awakened' \in {awakened, FALSE}
      /\ UNCHANGED <<jobs, worker, canWrite, answers, copies, accepted, inFlight, told>>
  BY DEF Sleep, WaitForEvents, LoopIsWoken, KeyArrives
<1>2. ClipboardTypeOK'
  BY <1>1 DEF ClipboardInv, ClipboardTypeOK
<1>3. CopiesInLine'
  BY <1>1 DEF ClipboardInv, CopiesInLine, Texts, Answered, InHand
<1>4. AnswerWakes'
  BY DEF ClipboardInv, AnswerWakes, Sleep, WaitForEvents, LoopIsWoken, KeyArrives
<1>5. NoWriteAfterPanic'
  BY <1>1 DEF ClipboardInv, NoWriteAfterPanic
<1> QED BY <1>2, <1>3, <1>4, <1>5 DEF ClipboardInv

LEMMA TakeJobKeeps == ASSUME ClipboardInv, TakeJob PROVE ClipboardInv'
<1>1. /\ worker.at = "waiting" /\ jobs # <<>> /\ jobs' = Tail(jobs)
      /\ worker' = [at |-> "writing", text |-> Head(jobs), how |-> "none"]
      /\ UNCHANGED <<canWrite, answers, awakened, loop, copies, accepted, inFlight, told>>
  BY DEF TakeJob
<1>2. jobs \in Seq(Nat) /\ Head(jobs) \in Nat /\ Tail(jobs) \in Seq(Nat) /\ Len(jobs') = Len(jobs) - 1
  BY <1>1, HeadTailProperties DEF ClipboardInv, ClipboardTypeOK
<1>3. ClipboardTypeOK'
  BY <1>1, <1>2 DEF ClipboardInv, ClipboardTypeOK
<1>4. CopiesInLine'
  <2> DEFINE s == Texts(Answered) \o Texts(answers)
  <2>1. /\ Answered' = Answered /\ Texts(Answered)' = Texts(Answered) /\ Texts(answers)' = Texts(answers)
        /\ InHand = <<>> /\ InHand' = <<Head(jobs)>>
    BY <1>1 DEF Texts, Answered, InHand
  <2>2. s \in Seq(Nat)
    BY ClipboardTypes DEF ClipboardInv
  <2>3. s \o <<>> \o jobs = s \o <<Head(jobs)>> \o Tail(jobs)
    BY <1>1, <1>2, <2>2, TextIsTaken
  <2>4. loop # "gone" => Texts(Answered)' \o Texts(answers)' \o InHand' \o jobs' = accepted'
    BY <1>1, <2>1, <2>3 DEF ClipboardInv, CopiesInLine
  <2>5. loop # "gone" => inFlight' = Len(answers') + Len(InHand') + Len(jobs')
    BY <1>1, <1>2, <2>1, ClipboardTypes DEF ClipboardInv, CopiesInLine
  <2> QED BY <1>1, <2>4, <2>5 DEF CopiesInLine
<1>5. AnswerWakes' /\ NoWriteAfterPanic'
  BY <1>1 DEF ClipboardInv, AnswerWakes, NoWriteAfterPanic
<1> QED BY <1>3, <1>4, <1>5 DEF ClipboardInv

LEMMA WriteClipboardKeeps == ASSUME ClipboardInv, WriteClipboard PROVE ClipboardInv'
<1>1. PICK how \in IF canWrite THEN {"copied", "failed", "panicked"} ELSE {"stopped"} :
           /\ worker' = [worker EXCEPT !.at = "sending", !.how = how]
           /\ canWrite' = (canWrite /\ ~StopsWriting(how))
  BY DEF WriteClipboard
<1>2. /\ worker.at = "writing"
      /\ UNCHANGED <<jobs, answers, awakened, loop, copies, accepted, inFlight, told>>
  BY DEF WriteClipboard
<1>3. worker'.at = "sending" /\ worker'.how = how /\ worker'.text = worker.text
  BY <1>1 DEF ClipboardInv, ClipboardTypeOK
<1>4. ClipboardTypeOK'
  BY <1>1, <1>2, <1>3 DEF ClipboardInv, ClipboardTypeOK
<1>5. CopiesInLine'
  BY <1>2, <1>3 DEF ClipboardInv, CopiesInLine, Texts, Answered, InHand
<1>6. AnswerWakes'
  BY <1>2, <1>3 DEF ClipboardInv, AnswerWakes
<1>7. NoWriteAfterPanic'
  <2>1. (\E i \in DOMAIN answers : answers[i].how = "panicked") => ~canWrite
    BY DEF ClipboardInv, NoWriteAfterPanic
  <2>2. ~canWrite => ~canWrite' /\ how = "stopped"
    BY <1>1
  <2>3. how = "panicked" => ~canWrite'
    BY <1>1 DEF StopsWriting
  <2> QED BY <1>2, <1>3, <2>1, <2>2, <2>3 DEF ClipboardInv, NoWriteAfterPanic
<1> QED BY <1>4, <1>5, <1>6, <1>7 DEF ClipboardInv

LEMMA SendAnswerKeeps == ASSUME ClipboardInv, SendAnswer PROVE ClipboardInv'
<1>0. /\ worker.at = "sending"
      /\ UNCHANGED <<jobs, canWrite, awakened, loop, copies, accepted, inFlight, told>>
  BY DEF SendAnswer
<1>1. CASE loop = "gone"
  <2>1. answers' = answers /\ worker' = [worker EXCEPT !.at = "exiting"]
    BY <1>1 DEF SendAnswer
  <2>2. worker'.at = "exiting" /\ worker'.how = worker.how /\ worker'.text = worker.text
    BY <2>1 DEF ClipboardInv, ClipboardTypeOK
  <2> QED BY <1>0, <1>1, <2>1, <2>2
          DEF ClipboardInv, ClipboardTypeOK, CopiesInLine, AnswerWakes, NoWriteAfterPanic
<1>2. CASE loop # "gone"
  <2> DEFINE e == Said(worker.text, worker.how)
  <2>1. answers' = Append(answers, e) /\ worker' = [worker EXCEPT !.at = "waking"]
    BY <1>2 DEF SendAnswer
  <2>2. worker'.at = "waking" /\ worker'.how = worker.how /\ worker'.text = worker.text
    BY <2>1 DEF ClipboardInv, ClipboardTypeOK
  <2>3. e \in Answers /\ e.text = worker.text /\ e.how = worker.how /\ worker.text \in Nat
    BY <1>0 DEF ClipboardInv, ClipboardTypeOK, Said, Answers
  <2> HIDE DEF e
  <2>4. /\ answers \in Seq(Answers) /\ answers' \in Seq(Answers) /\ Len(answers') = Len(answers) + 1
        /\ DOMAIN answers' = 1..(Len(answers) + 1) /\ DOMAIN answers = 1..Len(answers)
        /\ Len(answers) \in Nat /\ answers'[Len(answers) + 1] = e
        /\ \A i \in 1..Len(answers) : answers'[i] = answers[i]
    BY <2>1, <2>3 DEF ClipboardInv, ClipboardTypeOK
  <2>5. ClipboardTypeOK'
    BY <1>0, <2>1, <2>2, <2>4 DEF ClipboardInv, ClipboardTypeOK
  <2>6. CopiesInLine'
    <3>1. Texts(Answered)' = Texts(Answered) /\ InHand = <<worker.text>> /\ InHand' = <<>>
      BY <1>0, <2>2 DEF Texts, Answered, InHand
    <3>2. Texts(answers)' = Texts(answers) \o <<worker.text>>
      <4>1. Texts(Append(answers, e)) = Texts(answers) \o <<e.text>>
        <5>1. \A a \in Answers : a \in Spoken
          BY DEF Answers, Spoken
        <5> QED BY <2>3, <2>4, <5>1, AllHaveTexts, TextsAppend
      <4>2. Texts(answers)' = Texts(Append(answers, e))
        BY <2>1 DEF Texts
      <4> QED BY <2>3, <4>1, <4>2
    <3> DEFINE s == Texts(Answered)
               b == Texts(answers)
    <3>3. s \in Seq(Nat) /\ b \in Seq(Nat)
      BY ClipboardTypes DEF ClipboardInv
    <3>4. s \o b \o <<worker.text>> = s \o (b \o <<worker.text>>) \o <<>>
      BY <2>3, <3>3, TextIsAnswered
    <3>5. Texts(Answered)' \o Texts(answers)' \o InHand' \o jobs' = accepted'
      BY <1>0, <1>2, <3>1, <3>2, <3>4 DEF ClipboardInv, CopiesInLine
    <3>6. inFlight' = Len(answers') + Len(InHand') + Len(jobs')
      BY <1>0, <1>2, <2>4, <3>1, ClipboardTypes DEF ClipboardInv, CopiesInLine
    <3> QED BY <3>5, <3>6 DEF CopiesInLine
  <2>7. AnswerWakes'
    BY <2>2 DEF AnswerWakes
  <2>8. NoWriteAfterPanic'
    <3>1. \A i, j \in DOMAIN answers : i < j /\ answers[i].how = "panicked" => answers[j].how = "stopped"
      BY DEF ClipboardInv, NoWriteAfterPanic
    <3>2. \A i \in DOMAIN answers : answers[i].how = "panicked" => ~canWrite /\ worker.how = "stopped"
      BY <1>0 DEF ClipboardInv, NoWriteAfterPanic
    <3>3. worker.how = "panicked" => ~canWrite
      BY <1>0 DEF ClipboardInv, NoWriteAfterPanic
    <3>4. \A i \in DOMAIN answers' : i \in DOMAIN answers \/ i = Len(answers) + 1
      BY <2>4
    <3>5. \A i \in DOMAIN answers' : answers'[i].how = "panicked" => ~canWrite
      BY <2>3, <2>4, <3>2, <3>3, <3>4
    <3>6. ASSUME NEW i \in DOMAIN answers', NEW j \in DOMAIN answers', i < j, answers'[i].how = "panicked"
          PROVE  answers'[j].how = "stopped"
      <4>1. i \in DOMAIN answers /\ answers[i].how = "panicked"
        BY <2>4, <3>4, <3>6
      <4>2. CASE j \in DOMAIN answers
        BY <2>4, <3>1, <3>6, <4>1, <4>2
      <4>3. CASE j = Len(answers) + 1
        BY <2>3, <2>4, <3>2, <4>1, <4>3
      <4> QED BY <3>4, <4>2, <4>3
    <3> QED BY <1>0, <2>2, <3>5, <3>6 DEF NoWriteAfterPanic
  <2> QED BY <2>5, <2>6, <2>7, <2>8 DEF ClipboardInv
<1> QED BY <1>1, <1>2

LEMMA WorkerRestsKeeps ==
  ASSUME ClipboardInv, WakeLoop \/ QueueClosed
  PROVE  ClipboardInv'
<1>1. /\ worker.at \in {"waking", "exiting", "waiting"}
      /\ worker'.at \in {"gone", "waiting", "exiting"} /\ worker'.how = "none" /\ worker'.text = 0
      /\ worker' = [at |-> worker'.at, text |-> 0, how |-> "none"]
      /\ UNCHANGED <<jobs, canWrite, answers, loop, copies, accepted, inFlight, told>>
      /\ (awakened' = TRUE \/ (awakened' = awakened /\ worker.at = "waiting"))
  <2>1. CASE WakeLoop
    BY <2>1 DEF WakeLoop, AfterWake, Idle
  <2>2. CASE QueueClosed
    BY <2>2 DEF QueueClosed, Idle
  <2> QED BY <2>1, <2>2
<1>2. ClipboardTypeOK'
  <2>1. worker' \in [at : {"waiting", "writing", "sending", "waking", "exiting", "gone"},
                    text : Nat, how : {"none", "copied", "failed", "panicked", "stopped"}]
    BY <1>1
  <2>2. awakened' \in BOOLEAN
    BY <1>1 DEF ClipboardInv, ClipboardTypeOK
  <2> QED BY <1>1, <2>1, <2>2 DEF ClipboardInv, ClipboardTypeOK
<1>3. CopiesInLine'
  BY <1>1 DEF ClipboardInv, CopiesInLine, Texts, Answered, InHand
<1>4. AnswerWakes' /\ NoWriteAfterPanic'
  BY <1>1 DEF ClipboardInv, AnswerWakes, NoWriteAfterPanic
<1> QED BY <1>2, <1>3, <1>4 DEF ClipboardInv

LEMMA ClipboardStarts == ASSUME ClipboardInit PROVE ClipboardInv
<1>1. ClipboardTypeOK
  <2>1. jobs \in Seq(Nat) /\ accepted \in Seq(Nat)
    BY DEF ClipboardInit
  <2>2. answers \in Seq(Answers) /\ told \in Seq(Tellings)
    BY DEF ClipboardInit
  <2> QED BY <2>1, <2>2 DEF ClipboardInit, ClipboardTypeOK, Idle
<1>2. Answered = <<>> /\ Texts(Answered) = <<>> /\ Texts(answers) = <<>> /\ InHand = <<>>
  <2>1. Answered = <<>>
    BY SelectOfNothing DEF ClipboardInit, Answered
  <2> QED BY <2>1 DEF ClipboardInit, Texts, InHand, Idle
<1>3. CopiesInLine
  BY <1>2 DEF ClipboardInit, CopiesInLine
<1>4. AnswerWakes /\ NoWriteAfterPanic
  <2>1. answers = <<>> /\ DOMAIN answers = {} /\ worker.at = "waiting"
    BY DEF ClipboardInit, Idle
  <2> QED BY <2>1 DEF AnswerWakes, NoWriteAfterPanic
<1> QED BY <1>1, <1>3, <1>4 DEF ClipboardInv

LEMMA ClipboardStays == ASSUME ClipboardInv, UNCHANGED clipboardVars PROVE ClipboardInv'
BY DEF ClipboardInv, clipboardVars, ClipboardTypeOK, CopiesInLine, AnswerWakes, NoWriteAfterPanic,
       Texts, Answered, InHand

(* Every text the queue of the clipboard took is answered in its turn, and  *)
(* counted in pending_clipboard_writes until it is told; the answer wakes a *)
(* loop that sleeps; and after a panic of the library nothing is written,   *)
(* for any capacity of the queue and any number of copies                   *)
(* (runner/external_io.rs).                                                 *)
THEOREM CopiesAreTold == ClipboardInit /\ [][ClipboardNext]_clipboardVars => []CopiesAreAnswered
<1>1. ClipboardInv /\ [ClipboardNext]_clipboardVars => ClipboardInv'
  BY CopySelectionKeeps, DrainAnswersKeeps, QuitLoopKeeps, LoopKeeps, TakeJobKeeps,
     WriteClipboardKeeps, SendAnswerKeeps, WorkerRestsKeeps, ClipboardStays DEF ClipboardNext
<1>2. ClipboardInv => CopiesAreAnswered
  BY DEF ClipboardInv, CopiesInLine, AnswerWakes, NoWriteAfterPanic, CopiesAreAnswered
<1> QED BY <1>1, <1>2, ClipboardStarts, PTL

-----------------------------------------------------------------------------
(* The terminal *)

(* The phases, by what the guard is doing in them.                          *)
Screens  == {"alt", "main"}
Features == {"cursor", "keyboard", "paste", "mouse", "scroll", "alt", "raw"}
Mouse    == {"mouse", "scroll"}
Ops == [do : {"on", "off", "calm", "restore", "force", "clear"}, f : Features \cup {"screen"}]

BeforeMain     == {"shell", "prechecking", "hiding-precheck", "precheck", "ending-precheck", "between"}
Activating == {"activating", "reactivating"}
Restoring  == {"suspending", "ending", "ending-precheck"}
Resting == {"shell", "precheck", "between", "running", "editing", "reporting", "ended"}
Phases == BeforeMain \cup Activating \cup Restoring \cup
            {"hiding", "running", "applying", "editing", "resuming", "panicking", "reporting", "ended"}

(* What a plan is made of, what is still in it, and what comes before what. *)
OpsIn(s, S) == \A i \in 1..Len(s) : s[i] \in S
Has(s, o) == \E i \in 1..Len(s) : s[i] = o
Precedes(s, a, b) == \A i \in 1..Len(s) : s[i] = b => \E j \in 1..(i - 1) : s[j] = a

(* What the plan of a phase may hold.                                       *)
Each(what, S) == {Do(what, f) : f \in S}
Activation  == Each("on", {"raw", "alt", "mouse", "paste", "keyboard"}) \cup Each("calm", {"scroll"})
ModeOps(w)  == Each("on", w) \cup Each("off", Mouse \ w)

TerminalTypeOK ==
  /\ phase \in Phases /\ plan \in Seq(Ops) /\ error \in BOOLEAN
  /\ tty \in [on : SUBSET (Features \ {"keyboard"}), pushed : SUBSET Screens]
  /\ owed \in SUBSET Features /\ failed \in SUBSET Features
  /\ claim \in BOOLEAN /\ dirty \in BOOLEAN /\ layer \in Layers /\ mode \in SUBSET Mouse
  /\ spent \in [faults : Nat, editors : Nat]

PlanFits ==
  /\ phase \in Activating => OpsIn(plan, Activation)
  /\ phase = "prechecking" => OpsIn(plan, Each("on", {"raw", "alt"}))
  /\ phase \in {"hiding", "hiding-precheck"} => OpsIn(plan, Each("on", {"cursor"}))
  /\ phase = "resuming" => OpsIn(plan, Each("on", {"cursor"}) \cup Each("clear", {"screen"}))
  /\ phase = "applying" => OpsIn(plan, ModeOps(Preferred(layer)))
  /\ phase \in Restoring => OpsIn(plan, Each("restore", Features))
  /\ phase = "panicking" => OpsIn(plan, Each("force", Features))
  /\ phase \in Resting => plan = <<>>

(* No way out can forget a change: it is owed, unless its inverse failed.   *)
Owes == Changed(tty) \subseteq owed \cup failed

(* The next pop of the keyboard mode is one from the screen it was pushed on. *)
Poppable == "keyboard" \in failed \/ tty.pushed = {} \/ (tty.pushed = {"alt"} /\ "alt" \in tty.on)

(* The panic hook may act for whoever owes or is about to.                  *)
Claimed == plan # <<>> \/ (owed # {} /\ phase \notin {"between", "ended"}) => claim

(* What is owed when the session is left is restored by what is still       *)
(* planned, and the keyboard mode before the alternate screen.              *)
RestoreComes ==
  /\ phase \in Restoring =>
       /\ \A f \in owed : f \in failed \/ Has(plan, Do("restore", f))
       /\ \/ "keyboard" \notin owed \/ "keyboard" \in failed
          \/ Precedes(plan, Do("restore", "keyboard"), Do("restore", "alt"))
  /\ phase = "suspending" /\ ~error => \A f \in owed : Has(plan, Do("restore", f))
  /\ phase = "editing" => owed = {}

ForceComes ==   \* the same of the panic hook, which restores whatever differs
  phase = "panicking" =>
    /\ \A f \in Changed(tty) : f \in failed \/ Has(plan, Do("force", f))
    /\ \/ "keyboard" \notin Changed(tty) \/ "keyboard" \in failed
       \/ Precedes(plan, Do("force", "keyboard"), Do("force", "alt"))

(* The keyboard mode is pushed on the alternate screen.                     *)
AltFirst ==
  phase \in Activating =>
    /\ "alt" \in owed => "alt" \in tty.on
    /\ "alt" \in tty.on \/ Precedes(plan, Do("on", "alt"), Do("on", "keyboard"))

(* Outside a session the terminal is as it was.                             *)
GivenBack == phase \in {"shell", "editing", "between", "reporting", "ended"} => Changed(tty) \subseteq failed

(* The first activation sets the mode the runner starts with.               *)
FirstMode ==
  /\ phase \in BeforeMain \cup {"activating", "hiding"} => mode = {"mouse"} /\ dirty
  /\ phase \in BeforeMain => tty.on \cap Mouse = {}
  /\ phase \in {"activating", "hiding"} =>
       "scroll" \notin owed /\ ("mouse" \in owed \/ Has(plan, Do("on", "mouse")))

(* Until an editor is used, the runner's mode is the guard's and the        *)
(* terminal's.                                                              *)
ModeIsSet ==
  /\ phase \in {"activating", "hiding", "running", "applying"} => tty.on \cap Mouse = owed \cap Mouse
  /\ phase = "running" => owed \cap Mouse = mode
  /\ phase = "applying" =>
       \A f \in Mouse : IF f \in Preferred(layer) THEN f \in owed \/ Has(plan, Do("on", f))
                        ELSE f \notin owed \/ Has(plan, Do("off", f))

MouseInv ==
  /\ spent.editors = 0 => phase \notin {"suspending", "editing", "reactivating", "resuming"}
  /\ phase = "running" /\ ~dirty => mode = Preferred(layer)
  /\ FirstMode
  /\ spent.editors = 0 => ModeIsSet

Obliged == Owes /\ Poppable /\ Claimed /\ GivenBack
Planned == PlanFits /\ RestoreComes /\ ForceComes /\ AltFirst
TerminalInv == TerminalTypeOK /\ Obliged /\ Planned /\ MouseInv

(* What is in a plan, and what its steps take away.                         *)
LEMMA PlanStep ==
  ASSUME NEW s \in Seq(Ops), s # <<>>
  PROVE  /\ Head(s) \in Ops /\ Tail(s) \in Seq(Ops)
         /\ \A S : OpsIn(s, S) => Head(s) \in S /\ OpsIn(Tail(s), S)
         /\ \A o : Has(s, o) => Head(s) = o \/ Has(Tail(s), o)
         /\ \A a, b : Precedes(s, a, b) => Head(s) # b /\ (Head(s) = a \/ Precedes(Tail(s), a, b))
<1> DEFINE t == Tail(s)
<1>1. /\ Head(s) \in Ops /\ t \in Seq(Ops) /\ Len(t) = Len(s) - 1
      /\ \A i \in 1..Len(t) : t[i] = s[i + 1]
  BY HeadTailProperties
<1>2. Head(s) = s[1] /\ Len(s) \in Nat \ {0}
  OBVIOUS
<1> HIDE DEF t
<1>3. \A i \in 1..Len(t) : i + 1 \in 1..Len(s) /\ t[i] = s[i + 1]
  BY <1>1, <1>2
<1>4. ASSUME NEW i \in 1..Len(s) PROVE i = 1 \/ (i - 1 \in 1..Len(t) /\ t[i - 1] = s[i])
  BY <1>1, <1>2
<1>5. \A S : OpsIn(s, S) => Head(s) \in S /\ OpsIn(t, S)
  BY <1>2, <1>3 DEF OpsIn
<1>6. \A o : Has(s, o) => Head(s) = o \/ Has(t, o)
  BY <1>2, <1>4 DEF Has
<1>7. ASSUME NEW a, NEW b, Precedes(s, a, b) PROVE Head(s) # b /\ (Head(s) = a \/ Precedes(t, a, b))
  <2>1. Head(s) # b
    BY <1>2, <1>7 DEF Precedes
  <2>2. ASSUME Head(s) # a, NEW i \in 1..Len(t), t[i] = b PROVE \E j \in 1..(i - 1) : t[j] = a
    <3>1. i + 1 \in 1..Len(s) /\ s[i + 1] = b
      BY <1>3, <2>2
    <3>2. PICK j \in 1..((i + 1) - 1) : s[j] = a
      BY <1>7, <3>1 DEF Precedes
    <3>3. j # 1 /\ j \in 1..Len(s) /\ j - 1 \in 1..(i - 1)
      BY <1>2, <2>2, <3>1, <3>2
    <3>4. t[j - 1] = a
      BY <1>4, <3>2, <3>3
    <3> QED BY <3>3, <3>4
  <2> QED BY <2>1, <2>2 DEF Precedes
<1> QED BY <1>1, <1>5, <1>6, <1>7 DEF t

(* One plan after the other.                                                *)
LEMMA PlansJoined ==
  ASSUME NEW s \in Seq(Ops), NEW t \in Seq(Ops)
  PROVE  /\ s \o t \in Seq(Ops)
         /\ \A S : OpsIn(s, S) /\ OpsIn(t, S) => OpsIn(s \o t, S)
         /\ \A o : Has(s, o) \/ Has(t, o) => Has(s \o t, o)
         /\ \A a, b : Precedes(s, a, b) /\ (Precedes(t, a, b) \/ Has(s, a)) => Precedes(s \o t, a, b)
<1> DEFINE w == s \o t
<1>1. /\ w \in Seq(Ops) /\ Len(w) = Len(s) + Len(t) /\ Len(s) \in Nat /\ Len(t) \in Nat
      /\ \A i \in 1..(Len(s) + Len(t)) : w[i] = IF i <= Len(s) THEN s[i] ELSE t[i - Len(s)]
  BY ConcatProperties
<1> HIDE DEF w
<1>2. \A i \in 1..Len(s) : i \in 1..Len(w) /\ w[i] = s[i]
  BY <1>1
<1>3. \A i \in 1..Len(t) : Len(s) + i \in 1..Len(w) /\ w[Len(s) + i] = t[i]
  <2> TAKE i \in 1..Len(t)
  <2>1. Len(s) + i \in 1..(Len(s) + Len(t)) /\ ~(Len(s) + i <= Len(s)) /\ (Len(s) + i) - Len(s) = i
    BY <1>1
  <2> QED BY <1>1, <2>1
<1>4. ASSUME NEW i \in 1..Len(w)
      PROVE  \/ i \in 1..Len(s) /\ w[i] = s[i]
             \/ i - Len(s) \in 1..Len(t) /\ w[i] = t[i - Len(s)] /\ i > Len(s)
  BY <1>1
<1>5. \A S : OpsIn(s, S) /\ OpsIn(t, S) => OpsIn(w, S)
  BY <1>4 DEF OpsIn, ModeOps
<1>6. \A o : Has(s, o) \/ Has(t, o) => Has(w, o)
  BY <1>2, <1>3 DEF Has
<1>7. ASSUME NEW a, NEW b, Precedes(s, a, b), Precedes(t, a, b) \/ Has(s, a) PROVE Precedes(w, a, b)
  <2> SUFFICES ASSUME NEW i \in 1..Len(w), w[i] = b PROVE \E j \in 1..(i - 1) : w[j] = a
    BY DEF Precedes
  <2>1. CASE i \in 1..Len(s) /\ w[i] = s[i]
    <3>1. PICK j \in 1..(i - 1) : s[j] = a
      BY <1>7, <2>1 DEF Precedes
    <3>2. j \in 1..Len(s)
      BY <1>1, <2>1, <3>1
    <3> QED BY <1>2, <3>1, <3>2
  <2>2. CASE i - Len(s) \in 1..Len(t) /\ w[i] = t[i - Len(s)] /\ i > Len(s)
    <3>1. CASE Has(s, a)
      <4>1. PICK j \in 1..Len(s) : s[j] = a
        BY <3>1 DEF Has
      <4>2. j \in 1..(i - 1)
        BY <1>1, <2>2, <4>1
      <4> QED BY <1>2, <4>1, <4>2
    <3>2. CASE Precedes(t, a, b)
      <4>1. PICK j \in 1..((i - Len(s)) - 1) : t[j] = a
        BY <2>2, <3>2 DEF Precedes
      <4>2. j \in 1..Len(t) /\ Len(s) + j \in 1..(i - 1)
        BY <1>1, <2>2, <4>1
      <4> QED BY <1>3, <4>1, <4>2
    <3> QED BY <1>7, <3>1, <3>2
  <2> QED BY <1>4, <2>1, <2>2
<1> QED BY <1>1, <1>5, <1>6, <1>7 DEF w

Verbs == {"on", "off", "calm", "restore", "force"}

LEMMA AllOf ==
  ASSUME NEW what \in Verbs, NEW fs \in Seq(Features)
  PROVE  /\ All(what, fs) \in Seq(Ops) /\ Len(All(what, fs)) = Len(fs)
         /\ \A i \in 1..Len(fs) : All(what, fs)[i] = Do(what, fs[i])
<1>1. All(what, fs) = [i \in 1..Len(fs) |-> Do(what, fs[i])] /\ Len(fs) \in Nat
  BY DEF All
<1>2. \A f \in Features : Do(what, f) \in Ops
  BY DEF Verbs, Do, Ops
<1>3. \A i \in 1..Len(fs) : Do(what, fs[i]) \in Ops
  BY <1>2
<1> QED BY <1>1, <1>3

(* The plans that undo every feature, the keyboard mode before the screen.  *)
LEMMA EveryFeature ==
  ASSUME NEW what \in Verbs
  PROVE  LET s == All(what, <<"cursor">> \o Modes)
         IN  /\ s \in Seq(Ops) /\ s # <<>> /\ OpsIn(s, Each(what, Features))
             /\ \A f \in Features : Has(s, Do(what, f))
             /\ Precedes(s, Do(what, "keyboard"), Do(what, "alt"))
<1> DEFINE fs == <<"cursor">> \o Modes
           s == All(what, fs)
<1>1. /\ Modes \in Seq(Features) /\ Len(Modes) = 6
      /\ Modes[1] = "keyboard" /\ Modes[2] = "paste" /\ Modes[3] = "mouse"
      /\ Modes[4] = "scroll" /\ Modes[5] = "alt" /\ Modes[6] = "raw"
  <2>1. /\ "keyboard" \in Features /\ "paste" \in Features /\ "mouse" \in Features
        /\ "scroll" \in Features /\ "alt" \in Features /\ "raw" \in Features
    BY DEF Features
  <2>2. Modes \in Seq(Features)
    BY <2>1 DEF Modes
  <2>3. Len(Modes) = 6
    BY DEF Modes
  <2>4. /\ Modes[1] = "keyboard" /\ Modes[2] = "paste" /\ Modes[3] = "mouse"
        /\ Modes[4] = "scroll" /\ Modes[5] = "alt" /\ Modes[6] = "raw"
    BY DEF Modes
  <2> QED BY <2>2, <2>3, <2>4
<1>2. <<"cursor">> \in Seq(Features) /\ Len(<<"cursor">>) = 1
  BY DEF Features
<1> DEFINE one == <<"cursor">>
<1> HIDE DEF one
<1>a. one \in Seq(Features) /\ Len(one) = 1 /\ one[1] = "cursor"
  BY <1>2 DEF one
<1> DEFINE six == Modes
<1>e. /\ six \in Seq(Features) /\ Len(six) = 6
      /\ six[1] = "keyboard" /\ six[2] = "paste" /\ six[3] = "mouse"
      /\ six[4] = "scroll" /\ six[5] = "alt" /\ six[6] = "raw"
  BY <1>1
<1> HIDE DEF six
<1>f. /\ one \o six \in Seq(Features) /\ Len(one \o six) = Len(one) + Len(six)
      /\ \A i \in 1..(Len(one) + Len(six)) :
           (one \o six)[i] = IF i <= Len(one) THEN one[i] ELSE six[i - Len(one)]
  BY <1>a, <1>e, ConcatProperties
<1>b. /\ one \o six \in Seq(Features) /\ Len(one \o six) = 7
      /\ \A i \in 1..7 : (one \o six)[i] = IF i <= 1 THEN one[i] ELSE six[i - 1]
  BY <1>a, <1>e, <1>f
<1>c. fs = one \o six
  BY DEF one, six
<1> HIDE DEF fs
<1>d. fs \in Seq(Features) /\ Len(fs) = 7 /\ \A i \in 1..7 : fs[i] = IF i <= 1 THEN one[i] ELSE six[i - 1]
  BY <1>b, <1>c
<1>g. fs[1] = one[1] /\ \A i \in 2..7 : fs[i] = six[i - 1]
  BY <1>d
<1>3. /\ fs[1] = "cursor" /\ fs[2] = "keyboard" /\ fs[3] = "paste" /\ fs[4] = "mouse"
      /\ fs[5] = "scroll" /\ fs[6] = "alt" /\ fs[7] = "raw"
  BY <1>a, <1>e, <1>g
<1>4. s \in Seq(Ops) /\ Len(s) = 7 /\ \A i \in 1..7 : s[i] = Do(what, fs[i])
  BY <1>d, AllOf
<1> HIDE DEF s
<1>5. \A i \in 1..7 : fs[i] \in Features
  BY <1>3 DEF Features
<1>6. OpsIn(s, Each(what, Features))
  BY <1>4, <1>5 DEF OpsIn, Each
<1>7. ASSUME NEW f \in Features PROVE Has(s, Do(what, f))
  <2>1. \E i \in 1..7 : fs[i] = f
    BY <1>3 DEF Features
  <2> QED BY <1>4, <2>1 DEF Has
<1>8. Precedes(s, Do(what, "keyboard"), Do(what, "alt"))
  <2> SUFFICES ASSUME NEW i \in 1..7, s[i] = Do(what, "alt")
               PROVE  \E j \in 1..(i - 1) : s[j] = Do(what, "keyboard")
    BY <1>4 DEF Precedes
  <2>1. fs[i] = "alt"
    BY <1>4 DEF Do
  <2>2. i = 6
    BY <1>3, <2>1
  <2> QED BY <1>3, <1>4, <2>2
<1>9. s # <<>>
  BY <1>4
<1> QED BY <1>4, <1>6, <1>7, <1>8, <1>9 DEF s, fs

LEMMA RestoreIsComplete ==
  ASSUME NEW p, p = RestoreAll \/ p = RestoreAll \o RestoreAll
  PROVE  /\ p \in Seq(Ops) /\ p # <<>> /\ OpsIn(p, Each("restore", Features))
         /\ \A f \in Features : Has(p, Do("restore", f))
         /\ Precedes(p, Do("restore", "keyboard"), Do("restore", "alt"))
<1>1. /\ RestoreAll \in Seq(Ops) /\ RestoreAll # <<>>
      /\ OpsIn(RestoreAll, Each("restore", Features))
      /\ \A f \in Features : Has(RestoreAll, Do("restore", f))
      /\ Precedes(RestoreAll, Do("restore", "keyboard"), Do("restore", "alt"))
  BY EveryFeature DEF RestoreAll, Verbs
<1> DEFINE r == RestoreAll
           S == Each("restore", Features)
           a == Do("restore", "keyboard")
           b == Do("restore", "alt")
<1> HIDE DEF r, S, a, b
<1>2. /\ r \in Seq(Ops) /\ r # <<>> /\ OpsIn(r, S) /\ Precedes(r, a, b)
      /\ \A f \in Features : Has(r, Do("restore", f))
  BY <1>1 DEF r, S, a, b
<1>3. r \o r # <<>>
  BY <1>2
<1>4. /\ r \o r \in Seq(Ops) /\ OpsIn(r \o r, S) /\ Precedes(r \o r, a, b)
      /\ \A f \in Features : Has(r \o r, Do("restore", f))
  BY <1>2, PlansJoined
<1>5. p = r \/ p = r \o r
  BY DEF r
<1>6. /\ p \in Seq(Ops) /\ p # <<>> /\ OpsIn(p, S) /\ Precedes(p, a, b)
      /\ \A f \in Features : Has(p, Do("restore", f))
  BY <1>2, <1>3, <1>4, <1>5
<1> QED BY <1>6 DEF S, a, b

LEMMA ForceIsComplete ==
  /\ RestoreAfterPanic \in Seq(Ops) /\ RestoreAfterPanic # <<>>
  /\ OpsIn(RestoreAfterPanic, Each("force", Features))
  /\ \A f \in Features : Has(RestoreAfterPanic, Do("force", f))
  /\ Precedes(RestoreAfterPanic, Do("force", "keyboard"), Do("force", "alt"))
BY EveryFeature DEF RestoreAfterPanic, Verbs

LEMMA NothingPlanned ==
  /\ <<>> \in Seq(Ops) /\ \A o : ~Has(<<>>, o)
  /\ \A S : OpsIn(<<>>, S) /\ \A a, b : Precedes(<<>>, a, b)
BY DEF Has, OpsIn, Precedes

LEMMA OnePlanned ==
  ASSUME NEW a \in Ops
  PROVE  <<a>> \in Seq(Ops) /\ <<a>> # <<>> /\ Has(<<a>>, a) /\ \A S : a \in S => OpsIn(<<a>>, S)
BY DEF OpsIn, Has

(* The activations, in the order they switch things on.                     *)
LEMMA ActivationPlan ==
  /\ ActivateMain \in Seq(Ops) /\ ActivateMain # <<>>
  /\ OpsIn(ActivateMain, Activation)
  /\ Has(ActivateMain, Do("on", "mouse"))
  /\ Precedes(ActivateMain, Do("on", "alt"), Do("on", "keyboard"))
  /\ ActivateMinimal \in Seq(Ops) /\ ActivateMinimal # <<>>
  /\ OpsIn(ActivateMinimal, Each("on", {"raw", "alt"}))
<1> DEFINE first == All("on", <<"raw", "alt">>)
           calm == <<Do("calm", "scroll")>>
           last == All("on", <<"mouse", "paste", "keyboard">>)
           S == Activation
           alt == Do("on", "alt")
           kb == Do("on", "keyboard")
<1>1. /\ first \in Seq(Ops) /\ Len(first) = 2 /\ first[1] = Do("on", "raw") /\ first[2] = alt
  <2> DEFINE fs == <<"raw", "alt">>
  <2>1. fs \in Seq(Features) /\ Len(fs) = 2
    BY DEF Features
  <2>2. fs[1] = "raw" /\ fs[2] = "alt"
    OBVIOUS
  <2> HIDE DEF fs
  <2>3. /\ All("on", fs) \in Seq(Ops) /\ Len(All("on", fs)) = Len(fs)
        /\ \A i \in 1..Len(fs) : All("on", fs)[i] = Do("on", fs[i])
    BY <2>1, AllOf DEF Verbs
  <2> QED BY <2>1, <2>2, <2>3 DEF fs
<1>2. /\ last \in Seq(Ops) /\ Len(last) = 3 /\ last[1] = Do("on", "mouse")
      /\ last[2] = Do("on", "paste") /\ last[3] = kb
  <2> DEFINE fs == <<"mouse", "paste", "keyboard">>
  <2>1. fs \in Seq(Features) /\ Len(fs) = 3
    BY DEF Features
  <2>2. fs[1] = "mouse" /\ fs[2] = "paste" /\ fs[3] = "keyboard"
    OBVIOUS
  <2> HIDE DEF fs
  <2>3. /\ All("on", fs) \in Seq(Ops) /\ Len(All("on", fs)) = Len(fs)
        /\ \A i \in 1..Len(fs) : All("on", fs)[i] = Do("on", fs[i])
    BY <2>1, AllOf DEF Verbs
  <2> QED BY <2>1, <2>2, <2>3 DEF fs
<1>3. calm \in Seq(Ops) /\ Len(calm) = 1 /\ calm[1] = Do("calm", "scroll")
  BY DEF Ops, Do, Features
<1>4. alt # kb /\ Do("on", "raw") # kb
  BY DEF Do
<1>5. ActivateMain = (first \o calm) \o last /\ ActivateMinimal = first
  BY DEF ActivateMain, ActivateMinimal
<1> HIDE DEF first, calm, last, S, alt, kb
<1>6. OpsIn(first, S) /\ OpsIn(calm, S) /\ OpsIn(last, S)
  <2>1. /\ Do("on", "raw") \in S /\ alt \in S /\ Do("calm", "scroll") \in S
        /\ Do("on", "mouse") \in S /\ Do("on", "paste") \in S /\ kb \in S
    BY DEF S, Activation, Each, alt, kb
  <2> QED BY <1>1, <1>2, <1>3, <2>1 DEF OpsIn
<1>7. OpsIn(first, Each("on", {"raw", "alt"})) /\ first # <<>>
  BY <1>1 DEF OpsIn, alt, Each
<1>8. Has(first, alt) /\ Has(last, Do("on", "mouse"))
  BY <1>1, <1>2 DEF Has
<1>9. Precedes(first, alt, kb)
  BY <1>1, <1>4 DEF Precedes
<1>10. /\ first \o calm \in Seq(Ops) /\ OpsIn(first \o calm, S)
       /\ Has(first \o calm, alt) /\ Precedes(first \o calm, alt, kb)
  BY <1>1, <1>3, <1>6, <1>8, <1>9, PlansJoined
<1> DEFINE w == first \o calm
<1> HIDE DEF w
<1>11. w \in Seq(Ops) /\ OpsIn(w, S) /\ Has(w, alt) /\ Precedes(w, alt, kb)
  BY <1>10 DEF w
<1>12. /\ w \o last \in Seq(Ops) /\ OpsIn(w \o last, S) /\ Has(w \o last, Do("on", "mouse"))
       /\ Precedes(w \o last, alt, kb)
  BY <1>2, <1>6, <1>8, <1>11, PlansJoined
<1>13. w \o last # <<>>
  BY <1>12 DEF Has
<1>14. ActivateMain = w \o last
  BY <1>5 DEF w
<1> QED BY <1>1, <1>5, <1>7, <1>12, <1>13, <1>14 DEF S, alt, kb

(* The plan that makes the mouse mode the wanted one.                       *)
LEMMA ModePlan ==
  ASSUME NEW wanted \in SUBSET Mouse
  PROVE  /\ ApplyMouseMode(wanted) \in Seq(Ops)
         /\ OpsIn(ApplyMouseMode(wanted), ModeOps(wanted))
         /\ \A f \in Mouse : IF f \in wanted THEN Has(ApplyMouseMode(wanted), Do("on", f))
                             ELSE Has(ApplyMouseMode(wanted), Do("off", f))
<1> DEFINE offs == Select(<<"mouse", "scroll">>, Mouse \ wanted)
           ons == Select(<<"scroll", "mouse">>, wanted)
           S == ModeOps(wanted)
<1>1. ASSUME NEW s \in {<<"mouse", "scroll">>, <<"scroll", "mouse">>}, NEW W \in SUBSET Mouse
      PROVE  /\ Select(s, W) \in Seq(Features)
             /\ \A k \in 1..Len(Select(s, W)) : Select(s, W)[k] \in W
             /\ \A f \in W : \E k \in 1..Len(Select(s, W)) : Select(s, W)[k] = f
  <2>1. s \in Seq(Features) /\ Len(s) = 2 /\ \A f \in Mouse : \E i \in 1..2 : s[i] = f
    BY SMTT(30) DEF Features, Mouse
  <2>2. Select(s, W) \in Seq(Features)
    BY <2>1, SelectType
  <2>3. \A k \in 1..Len(Select(s, W)) : Select(s, W)[k] \in W
    BY <2>1, SelectRange
  <2>4. \A i \in 1..Len(s) : s[i] \in W => \E k \in 1..Len(Select(s, W)) : Select(s, W)[k] = s[i]
    BY <2>1, SelectRange
  <2>5. \A f \in W : \E k \in 1..Len(Select(s, W)) : Select(s, W)[k] = f
    BY <2>1, <2>4
  <2> QED BY <2>2, <2>3, <2>5
<1>2. ASSUME NEW what \in {"on", "off"}, NEW fs \in Seq(Features), NEW W \in SUBSET Mouse,
             \A k \in 1..Len(fs) : fs[k] \in W, \A f \in W : \E k \in 1..Len(fs) : fs[k] = f
      PROVE  /\ All(what, fs) \in Seq(Ops) /\ OpsIn(All(what, fs), Each(what, W))
             /\ \A f \in W : Has(All(what, fs), Do(what, f))
  <2>1. All(what, fs) \in Seq(Ops) /\ Len(All(what, fs)) = Len(fs)
        /\ \A i \in 1..Len(fs) : All(what, fs)[i] = Do(what, fs[i])
    BY AllOf DEF Verbs
  <2> QED BY <1>2, <2>1 DEF OpsIn, Has, Each
<1>3. ApplyMouseMode(wanted) = All("off", offs) \o All("on", ons)
  BY DEF ApplyMouseMode, Mouse
<1>4. /\ All("off", offs) \in Seq(Ops) /\ OpsIn(All("off", offs), Each("off", Mouse \ wanted))
      /\ \A f \in Mouse \ wanted : Has(All("off", offs), Do("off", f))
  <2>1. /\ offs \in Seq(Features) /\ \A k \in 1..Len(offs) : offs[k] \in Mouse \ wanted
        /\ \A f \in Mouse \ wanted : \E k \in 1..Len(offs) : offs[k] = f
    BY <1>1
  <2> HIDE DEF offs
  <2> QED BY <1>2, <2>1
<1>5. /\ All("on", ons) \in Seq(Ops) /\ OpsIn(All("on", ons), Each("on", wanted))
      /\ \A f \in wanted : Has(All("on", ons), Do("on", f))
  <2>1. /\ ons \in Seq(Features) /\ \A k \in 1..Len(ons) : ons[k] \in wanted
        /\ \A f \in wanted : \E k \in 1..Len(ons) : ons[k] = f
    BY <1>1
  <2> HIDE DEF ons
  <2> QED BY <1>2, <2>1
<1> DEFINE a == All("off", offs)
           b == All("on", ons)
<1>6. ApplyMouseMode(wanted) = a \o b
  BY <1>3
<1>7. a \in Seq(Ops) /\ OpsIn(a, S) /\ \A f \in Mouse \ wanted : Has(a, Do("off", f))
  BY <1>4 DEF OpsIn, ModeOps
<1>8. b \in Seq(Ops) /\ OpsIn(b, S) /\ \A f \in wanted : Has(b, Do("on", f))
  BY <1>5 DEF OpsIn, ModeOps
<1> HIDE DEF a, b, S
<1>9. /\ a \o b \in Seq(Ops) /\ OpsIn(a \o b, S)
      /\ \A f \in Mouse \ wanted : Has(a \o b, Do("off", f))
      /\ \A f \in wanted : Has(a \o b, Do("on", f))
  BY <1>7, <1>8, PlansJoined
<1> QED BY <1>6, <1>9 DEF S

Switches == Activating \cup {"prechecking", "hiding", "hiding-precheck", "resuming", "applying"}

LEMMA EachHas ==
  ASSUME NEW what, NEW S, NEW op, op \in Each(what, S)
  PROVE  op.do = what /\ op.f \in S /\ op = Do(what, op.f)
BY DEF Each, Do

(* The next operation of a plan belongs to its phase.                       *)
LEMMA NextOperation ==
  ASSUME TerminalTypeOK, PlanFits, plan # <<>>
  PROVE  LET op == Head(plan)
         IN  /\ op \in Ops /\ op = Do(op.do, op.f)
             /\ op.do = "on" =>
                  /\ phase \in Switches /\ op.f \in Features
                  /\ phase \in Activating => op.f \in {"raw", "alt", "mouse", "paste", "keyboard"}
                  /\ phase = "prechecking" => op.f \in {"raw", "alt"}
                  /\ phase \in {"hiding", "hiding-precheck", "resuming"} => op.f = "cursor"
                  /\ phase = "applying" => op.f \in Mouse
             /\ op.do = "off" => phase = "applying" /\ op.f \in Mouse
             /\ op.do = "calm" => phase \in Activating /\ op.f = "scroll"
             /\ op.do = "restore" => phase \in Restoring /\ op.f \in Features
             /\ op.do = "force" => phase = "panicking" /\ op.f \in Features
             /\ op.do = "clear" => phase = "resuming"
<1> DEFINE op == Head(plan)
<1>1. plan \in Seq(Ops) /\ phase \in Phases
  BY DEF TerminalTypeOK
<1>2. op \in Ops /\ \A S : OpsIn(plan, S) => op \in S
  BY <1>1, PlanStep
<1>3. op = Do(op.do, op.f)
  BY <1>2 DEF Ops, Do
<1> HIDE DEF op
<1>4. \A w \in SUBSET Mouse : op \in ModeOps(w) => op.do \in {"on", "off"} /\ op.f \in Mouse
  BY EachHas DEF ModeOps
<1>5. Preferred(layer) \in SUBSET Mouse
  BY DEF TerminalTypeOK, Layers, Preferred, Mouse
<1>6. phase \notin Resting
  BY DEF PlanFits
<1>7. phase \in Activating => (op.do = "on" /\ op.f \in {"raw", "alt", "mouse", "paste", "keyboard"})
                              \/ (op.do = "calm" /\ op.f = "scroll")
  <2> SUFFICES ASSUME phase \in Activating
               PROVE (op.do = "on" /\ op.f \in {"raw", "alt", "mouse", "paste", "keyboard"})
                              \/ (op.do = "calm" /\ op.f = "scroll")
    OBVIOUS
  <2>1. op \in Each("on", {"raw", "alt", "mouse", "paste", "keyboard"}) \/ op \in Each("calm", {"scroll"})
    BY <1>2 DEF PlanFits, Activation
  <2> QED BY <2>1, EachHas
<1>8. phase = "prechecking" => op.do = "on" /\ op.f \in {"raw", "alt"}
  BY <1>2, EachHas DEF PlanFits
<1>9. phase \in {"hiding", "hiding-precheck"} => op.do = "on" /\ op.f = "cursor"
  <2>1. phase \in {"hiding", "hiding-precheck"} => op \in Each("on", {"cursor"})
    BY <1>2 DEF PlanFits
  <2> QED BY <2>1, EachHas
<1>10. phase = "resuming" => (op.do = "on" /\ op.f = "cursor") \/ op.do = "clear"
  <2>1. phase = "resuming" => op \in Each("on", {"cursor"}) \/ op \in Each("clear", {"screen"})
    BY <1>2 DEF PlanFits
  <2> QED BY <2>1, EachHas
<1>11. phase = "applying" => op.do \in {"on", "off"} /\ op.f \in Mouse
  BY <1>2, <1>4, <1>5 DEF PlanFits
<1>12. phase \in Restoring => op.do = "restore" /\ op.f \in Features
  BY <1>2, EachHas DEF PlanFits
<1>13. phase = "panicking" => op.do = "force" /\ op.f \in Features
  BY <1>2, EachHas DEF PlanFits
<1>14. Mouse \subseteq Features /\ {"raw", "alt", "mouse", "paste", "keyboard", "cursor"} \subseteq Features
  BY DEF Mouse, Features
<1>15. phase \in Switches \cup Restoring \cup {"panicking"}
  BY <1>1, <1>6 DEF Phases, BeforeMain, Switches, Resting, Restoring
<1>16. op.do = "on" => phase \in Switches /\ op.f \in Features
  BY <1>7, <1>8, <1>9, <1>10, <1>11, <1>12, <1>13, <1>14, <1>15 DEF Switches
<1>17. op.do = "on" =>
         /\ phase \in Activating => op.f \in {"raw", "alt", "mouse", "paste", "keyboard"}
         /\ phase = "prechecking" => op.f \in {"raw", "alt"}
         /\ phase \in {"hiding", "hiding-precheck", "resuming"} => op.f = "cursor"
         /\ phase = "applying" => op.f \in Mouse
  BY <1>7, <1>8, <1>9, <1>10, <1>11
<1>18. /\ op.do = "off" => phase = "applying" /\ op.f \in Mouse
       /\ op.do = "calm" => phase \in Activating /\ op.f = "scroll"
       /\ op.do = "restore" => phase \in Restoring /\ op.f \in Features
       /\ op.do = "force" => phase = "panicking" /\ op.f \in Features
       /\ op.do = "clear" => phase = "resuming"
  BY <1>7, <1>8, <1>9, <1>10, <1>11, <1>12, <1>13, <1>15 DEF Switches
<1> QED BY <1>2, <1>3, <1>16, <1>17, <1>18 DEF op

(* Taking the first operation off a plan keeps the plan one of its phase.   *)
LEMMA TailFits ==
  ASSUME TerminalTypeOK, PlanFits, plan # <<>>, plan' = Tail(plan), UNCHANGED <<phase, layer>>
  PROVE  PlanFits' /\ plan' \in Seq(Ops)
<1>1. plan' \in Seq(Ops) /\ \A S : OpsIn(plan, S) => OpsIn(plan', S)
  BY PlanStep DEF TerminalTypeOK
<1>2. phase \notin Resting /\ phase' = phase /\ layer' = layer
  BY DEF PlanFits
<1> QED BY <1>1, <1>2 DEF PlanFits

(* A session that is dropped after an error restores all it owes.           *)
LEMMA AbortKeepsInv ==
  ASSUME TerminalInv, plan # <<>>, Abort, UNCHANGED <<claim, layer, mode, dirty>>,
         tty' \in [on : SUBSET (Features \ {"keyboard"}), pushed : SUBSET Screens],
         owed' \in SUBSET Features, failed' \in SUBSET Features,
         spent' \in [faults : Nat, editors : Nat], Owes', Poppable'
  PROVE  TerminalInv'
<1>1. plan' = RestoreAll \/ plan' = RestoreAll \o RestoreAll
  <2>1. RestoreAll \in Seq(Ops) 
    BY RestoreIsComplete
  <2> DEFINE r == RestoreAll
  <2> HIDE DEF r
  <2>2. r \in Seq(Ops)
    BY <2>1 DEF r
  <2>3. <<>> \o r = r
    BY <2>2, ConcatEmptySeq
  <2>4. plan' = r \o r \/ plan' = <<>> \o r
    BY DEF Abort, r
  <2> QED BY <2>3, <2>4 DEF r
<1>2. /\ plan' \in Seq(Ops) /\ plan' # <<>> /\ OpsIn(plan', Each("restore", Features))
      /\ \A f \in Features : Has(plan', Do("restore", f))
      /\ Precedes(plan', Do("restore", "keyboard"), Do("restore", "alt"))
  BY <1>1, RestoreIsComplete
<1>3. phase' = "ending" /\ error' = FALSE /\ claim' = claim /\ layer' = layer /\ mode' = mode /\ dirty' = dirty
  BY DEF Abort
<1>4. claim /\ claim \in BOOLEAN /\ dirty \in BOOLEAN /\ layer \in Layers /\ mode \in SUBSET Mouse
  BY DEF TerminalInv, Obliged, Claimed, TerminalTypeOK
<1>5. /\ phase' \in Phases /\ phase' \in Restoring /\ phase' \notin Activating /\ phase' \notin Resting
      /\ phase' \notin BeforeMain
  BY <1>3 DEF Phases, Restoring, Activating, Resting, BeforeMain
<1>6. TerminalTypeOK'
  BY <1>2, <1>3, <1>4, <1>5 DEF TerminalTypeOK
<1>7. Obliged'
  BY <1>3, <1>4 DEF Obliged, Claimed, GivenBack
<1>8. PlanFits'
  BY <1>2, <1>3, <1>5 DEF PlanFits
<1>9. RestoreComes' /\ ForceComes' /\ AltFirst'
  BY <1>2, <1>3, <1>5 DEF RestoreComes, ForceComes, AltFirst
<1>10. MouseInv'
  BY <1>3, <1>5 DEF MouseInv, FirstMode, ModeIsSet
<1> QED BY <1>6, <1>7, <1>8, <1>9, <1>10 DEF TerminalInv, Planned

(* What one operation does to the terminal.                                 *)
LEMMA OperationDone ==
  ASSUME TerminalTypeOK, NEW op, op.f \in Features, NEW result, Perform(op, result)
  PROVE  /\ tty' \in [on : SUBSET (Features \ {"keyboard"}), pushed : SUBSET Screens]
         /\ spent' \in [faults : Nat, editors : Nat] /\ spent'.editors = spent.editors
         /\ result \notin {"ok", "late"} => tty' = tty
         /\ op.f # "keyboard" =>
              /\ tty'.pushed = tty.pushed
              /\ op.do = "on" => tty'.on = tty.on \/ tty'.on = tty.on \cup {op.f}
              /\ op.do # "on" => tty'.on = tty.on \/ tty'.on = tty.on \ {op.f}
              /\ result = "ok" => tty'.on = IF op.do = "on" THEN tty.on \cup {op.f} ELSE tty.on \ {op.f}
         /\ op.f = "keyboard" =>
              /\ tty'.on = tty.on
              /\ op.do = "on" => tty'.pushed = tty.pushed \/ tty'.pushed = tty.pushed \cup {Screen(tty)}
              /\ op.do # "on" => tty'.pushed = tty.pushed \/ tty'.pushed = tty.pushed \ {Screen(tty)}
              /\ result = "ok" => tty'.pushed = IF op.do = "on" THEN tty.pushed \cup {Screen(tty)}
                                                ELSE tty.pushed \ {Screen(tty)}
<1>1. /\ tty \in [on : SUBSET (Features \ {"keyboard"}), pushed : SUBSET Screens]
      /\ spent \in [faults : Nat, editors : Nat]
  BY DEF TerminalTypeOK
<1>2. Screen(tty) \in Screens
  BY DEF Screen, Screens
<1>3. spent' \in [faults : Nat, editors : Nat] /\ spent'.editors = spent.editors
  BY <1>1 DEF Perform
<1>4. tty' = IF result \in {"ok", "late"} THEN Handled(tty, op) ELSE tty
  BY DEF Perform
<1> DEFINE h == Handled(tty, op)
<1>5. op.f # "keyboard" => 
  h = [on |-> IF op.do = "on" THEN tty.on \cup {op.f} ELSE tty.on \ {op.f}, pushed |-> tty.pushed]
  BY <1>1 DEF Handled
<1>6. op.f = "keyboard" => 
  h = [on |-> tty.on,
       pushed |-> IF op.do = "on" THEN tty.pushed \cup {Screen(tty)} ELSE tty.pushed \ {Screen(tty)}]
  BY <1>1 DEF Handled
<1> HIDE DEF h
<1>7. h \in [on : SUBSET (Features \ {"keyboard"}), pushed : SUBSET Screens]
  BY <1>1, <1>2, <1>5, <1>6
<1>8. tty' = h \/ tty' = tty
  BY <1>4 DEF h
<1>9. result = "ok" => tty' = h
  BY <1>4 DEF h
<1>10. tty' \in [on : SUBSET (Features \ {"keyboard"}), pushed : SUBSET Screens]
  BY <1>1, <1>7, <1>8
<1>11. result \notin {"ok", "late"} => tty' = tty
  BY <1>4
<1>12. op.f = "keyboard" =>
         /\ h.on = tty.on
         /\ h.pushed = IF op.do = "on" THEN tty.pushed \cup {Screen(tty)} ELSE tty.pushed \ {Screen(tty)}
  BY <1>6
<1>13. op.f # "keyboard" =>
         /\ h.pushed = tty.pushed
         /\ h.on = IF op.do = "on" THEN tty.on \cup {op.f} ELSE tty.on \ {op.f}
  BY <1>5
<1>14. CASE op.f = "keyboard"
  BY <1>3, <1>8, <1>9, <1>10, <1>11, <1>12, <1>14
<1>15. CASE op.f # "keyboard"
  BY <1>3, <1>8, <1>9, <1>10, <1>11, <1>13, <1>15
<1> QED BY <1>14, <1>15

(* What it does to the features that differ from the shell's terminal.      *)
LEMMA ChangedAfter ==
  ASSUME TerminalTypeOK, NEW op, op.f \in Features, NEW result, Perform(op, result)
  PROVE  /\ op.do = "on" => Changed(tty') \subseteq Changed(tty) \cup {op.f}
         /\ op.do # "on" => Changed(tty') \subseteq Changed(tty)
         /\ op.do # "on" /\ result = "ok" /\ op.f # "keyboard" => op.f \notin Changed(tty')
         /\ result \notin {"ok", "late"} => Changed(tty') = Changed(tty)
         /\ "keyboard" \in Changed(tty) <=> tty.pushed # {}
         /\ "keyboard" \in Changed(tty') <=> tty'.pushed # {}
<1>1. /\ tty \in [on : SUBSET (Features \ {"keyboard"}), pushed : SUBSET Screens]
      /\ tty' \in [on : SUBSET (Features \ {"keyboard"}), pushed : SUBSET Screens]
  BY OperationDone DEF TerminalTypeOK
<1>2. CASE op.f = "keyboard"
  BY <1>1, <1>2, OperationDone DEF Changed
<1>3. CASE op.f # "keyboard"
  BY <1>1, <1>3, OperationDone DEF Changed
<1> QED BY <1>2, <1>3

-----------------------------------------------------------------------------
(* One operation of a plan: it goes on, or the error ends the session.      *)
LEMMA SwitchOnKeepsInv ==
  ASSUME TerminalInv, SwitchOn
  PROVE  TerminalInv'
<1> DEFINE op == Head(plan)
<1>1. /\ plan # <<>> /\ op.do = "on" /\ op \in Ops /\ op = Do("on", op.f) /\ op.f \in Features
      /\ phase \in Switches
      /\ phase \in Activating => op.f \in {"raw", "alt", "mouse", "paste", "keyboard"}
      /\ phase = "prechecking" => op.f \in {"raw", "alt"}
      /\ phase \in {"hiding", "hiding-precheck", "resuming"} => op.f = "cursor"
      /\ phase = "applying" => op.f \in Mouse
  BY NextOperation DEF SwitchOn, Quiet, TerminalInv, Planned
<1>2. UNCHANGED <<claim, layer, mode, dirty, failed>> /\ claim
  BY <1>1 DEF SwitchOn, TerminalInv, Obliged, Claimed
<1>3. TerminalTypeOK /\ Owes /\ Poppable /\ PlanFits /\ AltFirst /\ MouseInv
  BY DEF TerminalInv, Obliged, Planned
<1>4. /\ \A o : Has(plan, o) => op = o \/ Has(Tail(plan), o)
      /\ \A a, b : Precedes(plan, a, b) => op # b /\ (op = a \/ Precedes(Tail(plan), a, b))
  BY <1>1, <1>3, PlanStep DEF TerminalTypeOK
<1>5. \A f : op = Do("on", f) => op.f = f
  BY DEF Do
<1>6. phase \notin Restoring \cup Resting \cup {"panicking"}
  BY <1>1 DEF Switches, Activating, Restoring, Resting
<1>7. CASE op.f \in owed /\ op.f # "cursor" /\ Advance /\ UNCHANGED <<tty, owed, spent>>
  <2>1. plan' = Tail(plan) /\ phase' = phase /\ error' = error
    BY <1>7 DEF Advance
  <2>2. PlanFits' /\ plan' \in Seq(Ops)
    BY <1>1, <1>2, <1>3, <2>1, TailFits
  <2>3. TerminalTypeOK'
    BY <1>2, <1>3, <1>7, <2>1, <2>2 DEF TerminalTypeOK
  <2>4. Obliged'
    BY <1>2, <1>3, <1>6, <1>7, <2>1 DEF Obliged, Owes, Poppable, Claimed, GivenBack, Resting
  <2>5. RestoreComes' /\ ForceComes'
    BY <1>6, <2>1 DEF RestoreComes, ForceComes, Resting, Restoring
  <2>6. AltFirst'
    BY <1>3, <1>4, <1>5, <1>7, <2>1 DEF AltFirst
  <2>7. FirstMode'
    BY <1>2, <1>3, <1>4, <1>5, <1>7, <2>1 DEF MouseInv, FirstMode
  <2>8. spent'.editors = 0 => ModeIsSet'
    <3>1. Do("on", "mouse") # Do("off", "mouse") /\ \A f : op # Do("off", f)
      BY <1>1 DEF Do
    <3> QED BY <1>2, <1>3, <1>4, <1>5, <1>6, <1>7, <2>1, <3>1 DEF MouseInv, ModeIsSet, Resting
  <2>9. MouseInv'
    BY <1>2, <1>3, <1>6, <1>7, <2>1, <2>7, <2>8 DEF MouseInv, Resting
  <2> QED BY <2>2, <2>3, <2>4, <2>5, <2>6, <2>9 DEF TerminalInv, Planned
<1>8. ASSUME NEW result \in {"ok", "lost", "late", "unsupported"},
             result = "unsupported" => op.f = "keyboard",
             Perform(op, result), owed' = Registered(op.f, result),
             IF result = "ok" \/ op.f = "keyboard" THEN Advance ELSE Abort
      PROVE  TerminalInv'
  <2>1. /\ tty' \in [on : SUBSET (Features \ {"keyboard"}), pushed : SUBSET Screens]
        /\ spent' \in [faults : Nat, editors : Nat] /\ spent'.editors = spent.editors
    BY <1>1, <1>3, <1>8, OperationDone
  <2>2. /\ op.f # "keyboard" =>
              /\ tty'.pushed = tty.pushed
              /\ tty'.on = tty.on \/ tty'.on = tty.on \cup {op.f}
              /\ result = "ok" => tty'.on = tty.on \cup {op.f}
        /\ op.f = "keyboard" =>
              /\ tty'.on = tty.on
              /\ tty'.pushed = tty.pushed \/ tty'.pushed = tty.pushed \cup {Screen(tty)}
    BY <1>1, <1>3, <1>8, OperationDone
  <2>3. owed' \in SUBSET Features /\ owed \subseteq owed' /\ owed' \subseteq owed \cup {op.f}
        /\ (result # "unsupported" => op.f \in owed') /\ failed' = failed
    BY <1>1, <1>2, <1>3, <1>8 DEF Registered, TerminalTypeOK
  <2>4. Owes'
    <3>1. Changed(tty') \subseteq Changed(tty) \cup {op.f}
      BY <1>1, <1>3, <1>8, ChangedAfter
    <3>2. result = "unsupported" => Changed(tty') = Changed(tty)
      BY <1>1, <1>3, <1>8, ChangedAfter
    <3> QED BY <1>3, <2>3, <3>1, <3>2 DEF Owes
  <2>5. Poppable'
    <3>1. CASE op.f # "keyboard"
      BY <1>3, <2>2, <2>3, <3>1 DEF Poppable
    <3>2. CASE op.f = "keyboard"
      <4>1. phase \in Activating
        BY <1>1, <3>2 DEF Switches, Mouse
      <4>2. "alt" \in tty.on
        BY <1>1, <1>3, <1>4, <3>2, <4>1 DEF AltFirst
      <4>3. Screen(tty) = "alt"
        BY <4>2 DEF Screen
      <4> QED BY <1>3, <2>2, <2>3, <3>2, <4>2, <4>3 DEF Poppable
    <3> QED BY <3>1, <3>2
  <2>6. CASE Abort
    <3>1. failed' \in SUBSET Features
      BY <1>3, <2>3 DEF TerminalTypeOK
    <3> QED BY <1>1, <1>2, <2>1, <2>3, <2>4, <2>5, <2>6, <3>1, AbortKeepsInv
  <2>7. CASE Advance /\ (result = "ok" \/ op.f = "keyboard")
    <3>1. plan' = Tail(plan) /\ phase' = phase /\ error' = error
      BY <2>7 DEF Advance
    <3>2. PlanFits' /\ plan' \in Seq(Ops)
      BY <1>1, <1>2, <1>3, <3>1, TailFits
    <3>3. TerminalTypeOK'
      BY <1>2, <1>3, <2>1, <2>3, <3>1, <3>2 DEF TerminalTypeOK
    <3>4. Obliged'
      BY <1>2, <1>6, <2>4, <2>5, <3>1 DEF Obliged, Claimed, GivenBack, Resting
    <3>5. RestoreComes' /\ ForceComes'
      BY <1>6, <3>1 DEF RestoreComes, ForceComes, Resting, Restoring
    <3>6. AltFirst'
      <4>1. phase \in Activating => tty.on \subseteq tty'.on /\ (op.f = "alt" => "alt" \in tty'.on)
        BY <2>2, <2>7
      <4>2. "alt" \in owed' => "alt" \in owed \/ op.f = "alt"
        BY <2>3
      <4> QED BY <1>3, <1>4, <1>5, <3>1, <4>1, <4>2 DEF AltFirst
    <3>7. op.f \in Mouse => tty'.on = tty.on \cup {op.f} /\ owed' = owed \cup {op.f}
      BY <2>2, <2>3, <2>7, <1>8 DEF Mouse, Registered
    <3>8. op.f \notin Mouse => tty'.on \cap Mouse = tty.on \cap Mouse /\ owed' \cap Mouse = owed \cap Mouse
      BY <2>2, <2>3
    <3>9. FirstMode'
      <4>1. phase \in BeforeMain => op.f \notin Mouse
        BY <1>1 DEF BeforeMain, Switches, Activating, Mouse
      <4>2. phase \in {"activating", "hiding"} => op.f # "scroll"
        BY <1>1 DEF Activating
      <4>3. phase \in {"activating", "hiding"} => "scroll" \notin owed' 
        BY <1>3, <2>3, <4>2 DEF MouseInv, FirstMode
      <4>4. "mouse" \in owed \/ op.f = "mouse" => "mouse" \in owed'
        BY <2>3, <3>7 DEF Mouse
      <4> QED BY <1>2, <1>3, <1>4, <1>5, <3>1, <3>8, <4>1, <4>3, <4>4 DEF MouseInv, FirstMode
    <3>10. spent'.editors = 0 => ModeIsSet'
      <4> SUFFICES ASSUME spent.editors = 0 PROVE ModeIsSet'
        BY <2>1
      <4>1. ModeIsSet /\ phase # "running"
        BY <1>3, <1>6 DEF MouseInv, Resting
      <4>2. phase \in {"activating", "hiding", "running", "applying"} => tty'.on \cap Mouse = owed' \cap Mouse
        BY <3>7, <3>8, <4>1 DEF ModeIsSet
      <4>3. ASSUME phase = "applying", NEW f \in Mouse
            PROVE  IF f \in Preferred(layer) THEN f \in owed' \/ Has(plan', Do("on", f))
                   ELSE f \notin owed' \/ Has(plan', Do("off", f))
        <5>1. IF f \in Preferred(layer) THEN f \in owed \/ Has(plan, Do("on", f))
              ELSE f \notin owed \/ Has(plan, Do("off", f))
          BY <4>1, <4>3 DEF ModeIsSet
        <5>2. op.f \in Preferred(layer)
          <6>1. op \in ModeOps(Preferred(layer))
            BY <1>1, <1>3, <4>3, PlanStep DEF PlanFits, TerminalTypeOK
          <6>2. op \notin Each("off", Mouse \ Preferred(layer))
            BY <1>1, EachHas
          <6> QED BY <6>1, <6>2, EachHas DEF ModeOps
        <5>3. CASE f \in Preferred(layer)
          BY <1>4, <1>5, <2>3, <3>1, <3>7, <4>3, <5>1, <5>3
        <5>4. CASE f \notin Preferred(layer)
          <6>1. op # Do("off", f)
            BY <1>1 DEF Do
          <6> QED BY <1>4, <2>3, <3>1, <5>1, <5>2, <5>4, <6>1
        <5> QED BY <5>3, <5>4
      <4> QED BY <1>2, <3>1, <4>1, <4>2, <4>3 DEF ModeIsSet
    <3>11. MouseInv'
      BY <1>2, <1>3, <1>6, <2>1, <3>1, <3>9, <3>10 DEF MouseInv, Resting
    <3> QED BY <3>2, <3>3, <3>4, <3>5, <3>6, <3>11 DEF TerminalInv, Planned
  <2> QED BY <1>8, <2>6, <2>7
<1> QED BY <1>7, <1>8 DEF SwitchOn

LEMMA SwitchOffKeepsInv ==
  ASSUME TerminalInv, SwitchOff
  PROVE  TerminalInv'
<1> DEFINE op == Head(plan)
<1>1. /\ plan # <<>> /\ op.do \in {"off", "calm"} /\ op \in Ops /\ op = Do(op.do, op.f)
      /\ op.f \in Mouse /\ op.f \in Features
      /\ op.do = "off" => phase = "applying"
      /\ op.do = "calm" => phase \in Activating /\ op.f = "scroll"
  BY NextOperation DEF SwitchOff, Quiet, TerminalInv, Planned, Mouse, Features
<1>2. UNCHANGED <<claim, layer, mode, dirty, failed>> /\ claim
  BY <1>1 DEF SwitchOff, TerminalInv, Obliged, Claimed
<1>3. TerminalTypeOK /\ Owes /\ Poppable /\ PlanFits /\ AltFirst /\ MouseInv
  BY DEF TerminalInv, Obliged, Planned
<1>4. /\ \A o : Has(plan, o) => op = o \/ Has(Tail(plan), o)
      /\ \A a, b : Precedes(plan, a, b) => op # b /\ (op = a \/ Precedes(Tail(plan), a, b))
  BY <1>1, <1>3, PlanStep DEF TerminalTypeOK
<1>5. \A f : op # Do("on", f) /\ (op = Do("off", f) => op.f = f)
  BY <1>1 DEF Do
<1>6. phase \in Activating \cup {"applying"} /\ phase \notin Restoring \cup Resting \cup BeforeMain \cup {"panicking"}
  BY <1>1 DEF Activating, Restoring, Resting, BeforeMain
<1>7. CASE op.do = "off" /\ op.f \notin owed /\ Advance /\ UNCHANGED <<tty, owed, spent>>
  <2>1. plan' = Tail(plan) /\ phase' = phase /\ error' = error /\ phase = "applying"
    BY <1>1, <1>7 DEF Advance
  <2>2. PlanFits' /\ plan' \in Seq(Ops)
    BY <1>1, <1>2, <1>3, <2>1, TailFits
  <2>3. TerminalTypeOK'
    BY <1>2, <1>3, <1>7, <2>1, <2>2 DEF TerminalTypeOK
  <2>4. Obliged'
    BY <1>2, <1>3, <1>6, <1>7, <2>1 DEF Obliged, Owes, Poppable, Claimed, GivenBack, Resting
  <2>5. RestoreComes' /\ ForceComes' /\ AltFirst'
    BY <2>1 DEF RestoreComes, ForceComes, AltFirst, Restoring, Activating
  <2>6. FirstMode'
    BY <1>6, <2>1 DEF FirstMode, BeforeMain
  <2>7. spent'.editors = 0 => ModeIsSet'
    BY <1>2, <1>3, <1>4, <1>5, <1>7, <2>1 DEF MouseInv, ModeIsSet
  <2>8. MouseInv'
    BY <1>2, <1>3, <1>7, <2>1, <2>6, <2>7 DEF MouseInv
  <2> QED BY <2>2, <2>3, <2>4, <2>5, <2>8 DEF TerminalInv, Planned
<1>8. ASSUME NEW result \in {"ok", "lost", "late"}, op.do = "off" => op.f \in owed,
             Perform(op, result),
             IF result = "ok" THEN owed' = owed \ {op.f} /\ Advance ELSE UNCHANGED owed /\ Abort
      PROVE  TerminalInv'
  <2>1. /\ tty' \in [on : SUBSET (Features \ {"keyboard"}), pushed : SUBSET Screens]
        /\ spent' \in [faults : Nat, editors : Nat] /\ spent'.editors = spent.editors
    BY <1>1, <1>3, <1>8, OperationDone
  <2>2. /\ tty'.pushed = tty.pushed
        /\ tty'.on = tty.on \/ tty'.on = tty.on \ {op.f}
        /\ result = "ok" => tty'.on = tty.on \ {op.f}
    <3>1. op.f # "keyboard" /\ op.do # "on"
      BY <1>1 DEF Mouse
    <3> QED BY <1>1, <1>3, <1>8, <3>1, OperationDone
  <2>3. owed' \in SUBSET Features /\ failed' = failed /\ failed' \in SUBSET Features
    BY <1>2, <1>3, <1>8 DEF TerminalTypeOK
  <2>4. Owes'
    <3>1. Changed(tty') \subseteq Changed(tty) /\ (result = "ok" => op.f \notin Changed(tty'))
      BY <1>1, <1>3, <1>8, ChangedAfter DEF Mouse
    <3> QED BY <1>3, <1>8, <2>3, <3>1 DEF Owes
  <2>5. Poppable'
    <3>1. op.f # "alt"
      BY <1>1 DEF Mouse
    <3> QED BY <1>3, <2>2, <2>3, <3>1 DEF Poppable
  <2>6. CASE Abort
    BY <1>1, <1>2, <2>1, <2>3, <2>4, <2>5, <2>6, AbortKeepsInv
  <2>7. CASE result = "ok" /\ owed' = owed \ {op.f} /\ Advance
    <3>1. plan' = Tail(plan) /\ phase' = phase /\ error' = error
      BY <2>7 DEF Advance
    <3>2. PlanFits' /\ plan' \in Seq(Ops)
      BY <1>1, <1>2, <1>3, <3>1, TailFits
    <3>3. TerminalTypeOK'
      BY <1>2, <1>3, <2>1, <2>3, <3>1, <3>2 DEF TerminalTypeOK
    <3>4. Obliged'
      BY <1>2, <1>6, <2>4, <2>5, <3>1 DEF Obliged, Claimed, GivenBack, Resting
    <3>5. RestoreComes' /\ ForceComes'
      BY <1>6, <3>1 DEF RestoreComes, ForceComes, Resting, Restoring
    <3>6. tty'.on = tty.on \ {op.f} /\ owed' = owed \ {op.f} /\ op.f # "alt"
      BY <1>1, <2>2, <2>7 DEF Mouse
    <3>7. AltFirst'
      BY <1>3, <1>4, <1>5, <3>1, <3>6 DEF AltFirst
    <3>8. FirstMode'
      <4>1. phase \in {"activating", "hiding"} => op.f = "scroll"
        BY <1>1
      <4> QED BY <1>2, <1>3, <1>4, <1>5, <1>6, <3>1, <3>6, <4>1 DEF MouseInv, FirstMode
    <3>9. spent'.editors = 0 => ModeIsSet'
      <4> SUFFICES ASSUME spent.editors = 0 PROVE ModeIsSet'
        BY <2>1
      <4>1. ModeIsSet /\ phase # "running"
        BY <1>3, <1>6 DEF MouseInv, Resting
      <4>2. phase \in {"activating", "hiding", "running", "applying"} => tty'.on \cap Mouse = owed' \cap Mouse
        BY <3>6, <4>1 DEF ModeIsSet
      <4>3. ASSUME phase = "applying", NEW f \in Mouse
            PROVE  IF f \in Preferred(layer) THEN f \in owed' \/ Has(plan', Do("on", f))
                   ELSE f \notin owed' \/ Has(plan', Do("off", f))
        <5>1. IF f \in Preferred(layer) THEN f \in owed \/ Has(plan, Do("on", f))
              ELSE f \notin owed \/ Has(plan, Do("off", f))
          BY <4>1, <4>3 DEF ModeIsSet
        <5>2. op.f \notin Preferred(layer)
          <6>1. op \in ModeOps(Preferred(layer))
            BY <1>1, <1>3, <4>3, PlanStep DEF PlanFits, TerminalTypeOK
          <6>2. op \notin Each("on", Preferred(layer))
            BY <1>1, EachHas
          <6> QED BY <6>1, <6>2, EachHas DEF ModeOps
        <5> QED BY <1>4, <1>5, <3>1, <3>6, <5>1, <5>2
      <4> QED BY <1>2, <3>1, <4>1, <4>2, <4>3 DEF ModeIsSet
    <3>10. MouseInv'
      BY <1>2, <1>3, <1>6, <2>1, <3>1, <3>8, <3>9 DEF MouseInv, Resting
    <3> QED BY <3>2, <3>3, <3>4, <3>5, <3>7, <3>10 DEF TerminalInv, Planned
  <2> QED BY <1>8, <2>6, <2>7
<1> QED BY <1>7, <1>8 DEF SwitchOff

LEMMA RestoreKeepsInv ==
  ASSUME TerminalInv, Restore
  PROVE  TerminalInv'
<1> DEFINE op == Head(plan)
<1>1. /\ plan # <<>> /\ op.do = "restore" /\ op \in Ops /\ op = Do("restore", op.f)
      /\ phase \in Restoring /\ op.f \in Features
  BY NextOperation DEF Restore, Quiet, TerminalInv, Planned
<1>2. UNCHANGED <<claim, layer, mode, dirty>> /\ claim
  BY <1>1 DEF Restore, TerminalInv, Obliged, Claimed
<1>3. TerminalTypeOK /\ Owes /\ Poppable /\ PlanFits /\ RestoreComes /\ MouseInv
  BY DEF TerminalInv, Obliged, Planned
<1>4. /\ \A o : Has(plan, o) => op = o \/ Has(Tail(plan), o)
      /\ \A a, b : Precedes(plan, a, b) => op # b /\ (op = a \/ Precedes(Tail(plan), a, b))
  BY <1>1, <1>3, PlanStep DEF TerminalTypeOK
<1>5. \A f : op = Do("restore", f) => op.f = f
  BY DEF Do
<1>6. phase \notin Resting \cup Activating \cup {"panicking", "hiding", "applying"}
  BY <1>1 DEF Restoring, Resting, Activating
<1>7. plan' = Tail(plan) /\ phase' = phase
  BY DEF Restore, Advance
<1>8. PlanFits' /\ plan' \in Seq(Ops)
  BY <1>1, <1>2, <1>3, <1>7, TailFits
<1>9. ForceComes' /\ AltFirst'
  BY <1>6, <1>7 DEF ForceComes, AltFirst
<1>10. CASE op.f \notin owed /\ Advance /\ UNCHANGED <<tty, owed, spent, failed>>
  <2>1. error' = error
    BY <1>10 DEF Advance
  <2>2. TerminalTypeOK'
    BY <1>2, <1>3, <1>7, <1>8, <1>10, <2>1 DEF TerminalTypeOK
  <2>3. Obliged'
    BY <1>2, <1>3, <1>6, <1>7, <1>10 DEF Obliged, Owes, Poppable, Claimed, GivenBack, Resting
  <2>4. RestoreComes'
    BY <1>3, <1>4, <1>5, <1>6, <1>7, <1>10, <2>1 DEF RestoreComes, Resting
  <2>5. MouseInv'
    BY <1>2, <1>3, <1>6, <1>7, <1>10 DEF MouseInv, FirstMode, ModeIsSet, Resting, Activating
  <2> QED BY <1>8, <1>9, <2>2, <2>3, <2>4, <2>5 DEF TerminalInv, Planned
<1>11. ASSUME NEW result \in {"ok", "lost", "late"}, op.f \in owed, Perform(op, result),
              owed' = IF result = "ok" THEN owed \ {op.f} ELSE owed,
              failed' = IF result # "ok" THEN failed \cup {op.f}
                        ELSE IF op.f = "keyboard" THEN failed ELSE failed \ {op.f},
              error' = (error \/ result # "ok")
       PROVE  TerminalInv'
  <2>1. /\ tty' \in [on : SUBSET (Features \ {"keyboard"}), pushed : SUBSET Screens]
        /\ spent' \in [faults : Nat, editors : Nat] /\ spent'.editors = spent.editors
        /\ op.f # "keyboard" =>
              /\ tty'.pushed = tty.pushed
              /\ tty'.on = tty.on \/ tty'.on = tty.on \ {op.f}
        /\ op.f = "keyboard" =>
              /\ tty'.on = tty.on
              /\ tty'.pushed = tty.pushed \/ tty'.pushed = tty.pushed \ {Screen(tty)}
              /\ result = "ok" => tty'.pushed = tty.pushed \ {Screen(tty)}
    BY <1>1, <1>3, <1>11, OperationDone
  <2>2. owed' \in SUBSET Features /\ failed' \in SUBSET Features /\ error' \in BOOLEAN
    BY <1>1, <1>3, <1>11 DEF TerminalTypeOK
  <2>3. TerminalTypeOK'
    BY <1>2, <1>3, <1>7, <1>8, <2>1, <2>2 DEF TerminalTypeOK
  <2>4. /\ Changed(tty') \subseteq Changed(tty)
        /\ result = "ok" /\ op.f # "keyboard" => op.f \notin Changed(tty')
        /\ "keyboard" \in Changed(tty) <=> tty.pushed # {}
        /\ "keyboard" \in Changed(tty') <=> tty'.pushed # {}
    BY <1>1, <1>3, <1>11, ChangedAfter
  <2>5. CASE op.f = "keyboard" /\ result = "ok"
    <3>1. failed' = failed /\ owed' = owed \ {"keyboard"} /\ error' = error /\ error \in BOOLEAN
      BY <1>3, <1>11, <2>5 DEF TerminalTypeOK
    <3>2. "keyboard" \in failed \/ tty'.pushed = {}
      <4>1. "alt" \in tty.on => Screen(tty) = "alt"
        BY DEF Screen
      <4> QED BY <1>3, <2>1, <2>5, <4>1 DEF Poppable
    <3>3. Owes'
      BY <1>3, <2>4, <3>1, <3>2 DEF Owes
    <3>4. Poppable'
      BY <3>1, <3>2 DEF Poppable
    <3>5. RestoreComes'
      BY <1>3, <1>4, <1>5, <1>6, <1>7, <2>5, <3>1 DEF RestoreComes, Resting
    <3>6. MouseInv'
      BY <1>2, <1>3, <1>6, <1>7, <2>1, <2>5 DEF MouseInv, FirstMode, ModeIsSet, Resting, Activating
    <3>7. Obliged'
      BY <1>2, <1>6, <1>7, <3>3, <3>4 DEF Obliged, Claimed, GivenBack, Resting
    <3> QED BY <1>8, <1>9, <2>3, <3>5, <3>6, <3>7 DEF TerminalInv, Planned
  <2>6. CASE op.f # "keyboard" \/ result # "ok"
    <3>1. "keyboard" \in failed => "keyboard" \in failed'
      BY <1>11, <2>6
    <3>2. Owes'
      BY <1>3, <1>11, <2>4, <2>6 DEF Owes
    <3>3. Poppable'
      <4>1. CASE op.f = "alt"
        <5>1. op = Do("restore", "alt")
          BY <1>1, <4>1
        <5>2. "keyboard" \notin owed \/ "keyboard" \in failed
          BY <1>1, <1>3, <1>4, <5>1 DEF RestoreComes
        <5>3. "keyboard" \in failed' \/ "keyboard" \notin Changed(tty')
          BY <1>3, <2>4, <3>1, <5>2 DEF Owes
        <5> QED BY <2>4, <5>3 DEF Poppable
      <4>2. CASE op.f = "keyboard"
        BY <1>11, <2>6, <4>2 DEF Poppable
      <4>3. CASE op.f \notin {"alt", "keyboard"}
        BY <1>3, <2>1, <3>1, <4>3 DEF Poppable
      <4> QED BY <4>1, <4>2, <4>3
    <3>4. RestoreComes'
      <4>1. ASSUME NEW f \in owed' PROVE f \in failed' \/ Has(plan', Do("restore", f))
        BY <1>1, <1>3, <1>4, <1>5, <1>7, <1>11, <4>1 DEF RestoreComes
      <4>2. \/ "keyboard" \notin owed' \/ "keyboard" \in failed'
            \/ Precedes(plan', Do("restore", "keyboard"), Do("restore", "alt"))
        BY <1>1, <1>3, <1>4, <1>5, <1>7, <1>11, <2>6, <3>1 DEF RestoreComes
      <4>3. ASSUME phase' = "suspending", ~error', NEW f \in owed' PROVE Has(plan', Do("restore", f))
        BY <1>3, <1>4, <1>5, <1>7, <1>11, <4>3 DEF RestoreComes
      <4> QED BY <1>6, <1>7, <4>1, <4>2, <4>3 DEF RestoreComes, Resting
    <3>5. MouseInv'
      <4>1. tty'.on \subseteq tty.on
        BY <2>1
      <4> QED BY <1>2, <1>3, <1>6, <1>7, <2>1, <4>1 DEF MouseInv, FirstMode, ModeIsSet, Resting, Activating
    <3>6. Obliged'
      BY <1>2, <1>6, <1>7, <3>2, <3>3 DEF Obliged, Claimed, GivenBack, Resting
    <3> QED BY <1>8, <1>9, <2>3, <3>4, <3>5, <3>6 DEF TerminalInv, Planned
  <2> QED BY <2>5, <2>6
<1> QED BY <1>10, <1>11 DEF Restore

LEMMA ForceRestoreKeepsInv ==
  ASSUME TerminalInv, ForceRestore
  PROVE  TerminalInv'
<1> DEFINE op == Head(plan)
<1>1. /\ plan # <<>> /\ op.do = "force" /\ op \in Ops /\ op = Do("force", op.f)
      /\ phase = "panicking" /\ op.f \in Features
  BY NextOperation DEF ForceRestore, Quiet, TerminalInv, Planned
<1>2. UNCHANGED <<claim, layer, mode, dirty, owed>> /\ claim
  BY <1>1 DEF ForceRestore, TerminalInv, Obliged, Claimed
<1>3. TerminalTypeOK /\ Owes /\ Poppable /\ PlanFits /\ ForceComes /\ MouseInv
  BY DEF TerminalInv, Obliged, Planned
<1>4. /\ \A o : Has(plan, o) => op = o \/ Has(Tail(plan), o)
      /\ \A a, b : Precedes(plan, a, b) => op # b /\ (op = a \/ Precedes(Tail(plan), a, b))
  BY <1>1, <1>3, PlanStep DEF TerminalTypeOK
<1>5. \A f : op = Do("force", f) => op.f = f
  BY DEF Do
<1>6. PICK result \in {"ok", "lost", "late"} :
        Perform(op, result) /\ failed' = IF result # "ok" THEN failed \cup {op.f} ELSE failed
  BY DEF ForceRestore
<1>7. plan' = Tail(plan) /\ phase' = phase /\ error' = error
  BY DEF ForceRestore, Advance
<1>8. PlanFits' /\ plan' \in Seq(Ops)
  BY <1>1, <1>2, <1>3, <1>7, TailFits
<1>9. RestoreComes' /\ AltFirst'
  BY <1>1, <1>7 DEF RestoreComes, AltFirst, Restoring, Activating
<1>10. /\ tty' \in [on : SUBSET (Features \ {"keyboard"}), pushed : SUBSET Screens]
       /\ spent' \in [faults : Nat, editors : Nat] /\ spent'.editors = spent.editors
       /\ op.f # "keyboard" =>
             /\ tty'.pushed = tty.pushed
             /\ tty'.on = tty.on \/ tty'.on = tty.on \ {op.f}
       /\ op.f = "keyboard" =>
             /\ tty'.on = tty.on
             /\ tty'.pushed = tty.pushed \/ tty'.pushed = tty.pushed \ {Screen(tty)}
             /\ result = "ok" => tty'.pushed = tty.pushed \ {Screen(tty)}
  BY <1>1, <1>3, <1>6, OperationDone
<1>11. /\ Changed(tty') \subseteq Changed(tty)
       /\ result = "ok" /\ op.f # "keyboard" => op.f \notin Changed(tty')
       /\ "keyboard" \in Changed(tty) <=> tty.pushed # {}
       /\ "keyboard" \in Changed(tty') <=> tty'.pushed # {}
  BY <1>1, <1>3, <1>6, ChangedAfter
<1>12. failed' \in SUBSET Features /\ failed \subseteq failed' /\ (result # "ok" => op.f \in failed')
  BY <1>1, <1>3, <1>6 DEF TerminalTypeOK
<1>13. TerminalTypeOK'
  BY <1>2, <1>3, <1>7, <1>8, <1>10, <1>12 DEF TerminalTypeOK
<1>14. op.f = "keyboard" /\ result = "ok" => "keyboard" \in failed' \/ "keyboard" \notin Changed(tty')
  <2>1. "alt" \in tty.on => Screen(tty) = "alt"
    BY DEF Screen
  <2> QED BY <1>3, <1>10, <1>11, <1>12, <2>1 DEF Poppable
<1>15. op.f \in failed' \/ op.f \notin Changed(tty')
  BY <1>6, <1>11, <1>12, <1>14
<1>16. Owes'
  BY <1>2, <1>3, <1>11, <1>12 DEF Owes
<1>17. Poppable'
  <2>1. CASE op.f = "alt"
    <3>1. op = Do("force", "alt")
      BY <1>1, <2>1
    <3>2. "keyboard" \notin Changed(tty) \/ "keyboard" \in failed
      BY <1>1, <1>3, <1>4, <3>1 DEF ForceComes
    <3> QED BY <1>11, <1>12, <3>2 DEF Poppable
  <2>2. CASE op.f = "keyboard"
    BY <1>11, <1>15, <2>2 DEF Poppable
  <2>3. CASE op.f \notin {"alt", "keyboard"}
    BY <1>3, <1>10, <1>12, <2>3 DEF Poppable
  <2> QED BY <2>1, <2>2, <2>3
<1>18. ForceComes'
  <2>1. ASSUME NEW f \in Changed(tty') PROVE f \in failed' \/ Has(plan', Do("force", f))
    BY <1>1, <1>3, <1>4, <1>5, <1>7, <1>11, <1>12, <1>15, <2>1 DEF ForceComes
  <2>2. \/ "keyboard" \notin Changed(tty') \/ "keyboard" \in failed'
        \/ Precedes(plan', Do("force", "keyboard"), Do("force", "alt"))
    BY <1>1, <1>3, <1>4, <1>5, <1>7, <1>11, <1>12, <1>15 DEF ForceComes
  <2> QED BY <2>1, <2>2 DEF ForceComes
<1>19. Obliged'
  BY <1>1, <1>2, <1>7, <1>16, <1>17 DEF Obliged, Claimed, GivenBack
<1>20. MouseInv'
  BY <1>1, <1>2, <1>3, <1>7, <1>10 DEF MouseInv, FirstMode, ModeIsSet, BeforeMain
<1> QED BY <1>8, <1>9, <1>13, <1>18, <1>19, <1>20 DEF TerminalInv, Planned

LEMMA ClearScreenKeepsInv ==
  ASSUME TerminalInv, ClearScreen
  PROVE  TerminalInv'
<1>1. plan # <<>> /\ phase = "resuming"
  BY NextOperation DEF ClearScreen, Quiet, TerminalInv, Planned
<1>2. UNCHANGED <<tty, owed, claim, layer, mode, dirty, failed>> /\ claim
  BY <1>1 DEF ClearScreen, TerminalInv, Obliged, Claimed
<1>3. TerminalTypeOK /\ Owes /\ Poppable /\ PlanFits /\ MouseInv
  BY DEF TerminalInv, Obliged, Planned
<1>4. spent' \in [faults : Nat, editors : Nat] /\ spent'.editors = spent.editors
  BY <1>3 DEF ClearScreen, TerminalTypeOK
<1>5. Owes' /\ Poppable'
  BY <1>2, <1>3 DEF Owes, Poppable
<1>6. CASE Abort
  BY <1>1, <1>2, <1>3, <1>4, <1>5, <1>6, AbortKeepsInv DEF TerminalTypeOK
<1>7. CASE Advance
  <2>1. plan' = Tail(plan) /\ phase' = phase /\ error' = error
    BY <1>7 DEF Advance
  <2>2. PlanFits' /\ plan' \in Seq(Ops)
    BY <1>1, <1>2, <1>3, <2>1, TailFits
  <2>3. TerminalTypeOK'
    BY <1>2, <1>3, <1>4, <2>1, <2>2 DEF TerminalTypeOK
  <2>4. Obliged'
    BY <1>1, <1>2, <1>5, <2>1 DEF Obliged, Claimed, GivenBack
  <2>5. RestoreComes' /\ ForceComes' /\ AltFirst'
    BY <1>1, <2>1 DEF RestoreComes, ForceComes, AltFirst, Restoring, Activating
  <2>6. MouseInv'
    BY <1>1, <1>2, <1>3, <1>4, <2>1 DEF MouseInv, FirstMode, ModeIsSet, BeforeMain
  <2> QED BY <2>2, <2>3, <2>4, <2>5, <2>6 DEF TerminalInv, Planned
<1> QED BY <1>6, <1>7 DEF ClearScreen

LEMMA CursorPlans ==
  /\ Hide \in Seq(Ops) /\ Hide # <<>> /\ OpsIn(Hide, Each("on", {"cursor"}))
  /\ LET p == Hide \o <<Do("clear", "screen")>>
     IN p \in Seq(Ops) /\ p # <<>> /\ OpsIn(p, Each("on", {"cursor"}) \cup Each("clear", {"screen"}))
<1> DEFINE a == Do("on", "cursor")
           b == Do("clear", "screen")
<1>1. a \in Ops /\ b \in Ops /\ a \in Each("on", {"cursor"}) /\ b \in Each("clear", {"screen"})
  BY DEF Do, Ops, Features, Each
<1>2. Hide = <<a>> /\ Hide \o <<Do("clear", "screen")>> = <<a>> \o <<b>>
  BY DEF Hide
<1> HIDE DEF a, b
<1>3. /\ <<a>> \in Seq(Ops) /\ <<a>> # <<>> /\ Has(<<a>>, a) /\ OpsIn(<<a>>, Each("on", {"cursor"}))
      /\ OpsIn(<<a>>, Each("on", {"cursor"}) \cup Each("clear", {"screen"}))
  BY <1>1, OnePlanned
<1>4. <<b>> \in Seq(Ops) /\ OpsIn(<<b>>, Each("on", {"cursor"}) \cup Each("clear", {"screen"}))
  BY <1>1, OnePlanned
<1> DEFINE s == <<a>>
           t == <<b>>
           S == Each("on", {"cursor"}) \cup Each("clear", {"screen"})
<1>5. s \in Seq(Ops) /\ Has(s, a) /\ OpsIn(s, S) /\ t \in Seq(Ops) /\ OpsIn(t, S)
  BY <1>3, <1>4
<1> HIDE DEF s, t, S
<1>6. s \o t \in Seq(Ops) /\ Has(s \o t, a) /\ OpsIn(s \o t, S)
  BY <1>5, PlansJoined
<1>7. s \o t # <<>>
  BY <1>6, NothingPlanned
<1> QED BY <1>2, <1>3, <1>6, <1>7 DEF s, t, S

(* The types of the next state, of what a plan's start or end touches.      *)
LEMMA NextTypes ==
  ASSUME TerminalTypeOK, phase' \in Phases, plan' \in Seq(Ops), error' \in BOOLEAN, claim' \in BOOLEAN,
         tty' = tty, owed' \in SUBSET Features, failed' = failed, layer' \in Layers, dirty' \in BOOLEAN,
         mode' \in SUBSET Mouse, spent' \in [faults : Nat, editors : Nat]
  PROVE  TerminalTypeOK'
BY DEF TerminalTypeOK

(* What happens after a plan: see After, sorted by phase.                   *)
LEMMA AfterEach ==
  ASSUME phase \in Phases
  PROVE  /\ phase = "activating" => After = [to |-> "hiding", ops |-> Hide]
         /\ phase = "reactivating" => After = [to |-> "resuming", ops |-> Hide \o <<Do("clear", "screen")>>]
         /\ phase = "prechecking" => After = [to |-> "hiding-precheck", ops |-> Hide]
         /\ phase = "hiding-precheck" => After = [to |-> "precheck", ops |-> <<>>]
         /\ phase = "suspending" /\ error => After = [to |-> "ending", ops |-> RestoreAll]
         /\ phase = "suspending" /\ ~error => After = [to |-> "editing", ops |-> <<>>]
         /\ phase = "ending-precheck" => After = [to |-> "between", ops |-> <<>>]
         /\ phase = "panicking" => After = [to |-> "reporting", ops |-> <<>>]
         /\ phase = "ending" => After = [to |-> "ended", ops |-> <<>>]
         /\ phase \in {"hiding", "resuming", "applying"} => After = [to |-> "running", ops |-> <<>>]
BY DEF After

(* The end of a plan, phase by phase.                                       *)
LEMMA PlanEndsKeepsInv ==
  ASSUME TerminalInv, PlanEnds
  PROVE  TerminalInv'
<1>1. /\ plan = <<>> /\ phase' = After.to /\ plan' = After.ops /\ error' = FALSE
      /\ claim' = (After.to \notin {"between", "ended"} /\ (owed # {} \/ After.ops # <<>>))
      /\ mode' = (IF phase = "applying" THEN Preferred(layer) ELSE mode)
      /\ dirty' = (CASE phase = "applying" -> FALSE [] phase = "resuming" -> TRUE [] OTHER -> dirty)
      /\ UNCHANGED <<tty, owed, layer, spent, failed>>
      /\ phase \in {"activating", "hiding", "prechecking", "hiding-precheck", "reactivating",
                    "resuming", "applying", "suspending", "ending-precheck", "panicking", "ending"}
  BY DEF PlanEnds, Quiet
<1>2. TerminalTypeOK /\ Owes /\ Poppable /\ RestoreComes /\ ForceComes /\ AltFirst /\ MouseInv
  BY DEF TerminalInv, Obliged, Planned
<1>3. \A o : ~Has(plan, o)
  BY <1>1, NothingPlanned
<1>4. Preferred(layer) \in SUBSET Mouse
  BY <1>2 DEF TerminalTypeOK, Layers, Preferred, Mouse
<1>5. Owes' /\ Poppable'
  BY <1>1, <1>2 DEF Owes, Poppable
<1>6. dirty' \in BOOLEAN /\ mode' \in SUBSET Mouse /\ claim' \in BOOLEAN /\ error' \in BOOLEAN /\ phase \in Phases
  <2>1. dirty' \in BOOLEAN
    BY <1>1, <1>2 DEF TerminalTypeOK
  <2>2. mode' \in SUBSET Mouse
    BY <1>1, <1>2, <1>4 DEF TerminalTypeOK
  <2>3. claim' \in BOOLEAN
    BY <1>1
  <2> QED BY <1>1, <1>2, <2>1, <2>2, <2>3 DEF TerminalTypeOK
<1>7. Claimed'
  <2>1. After.to \in {"between", "ended"} => After.ops = <<>>
    BY <1>1, <1>6, AfterEach
  <2> QED BY <1>1, <2>1 DEF Claimed
<1>8. ASSUME phase' \in Phases, plan' \in Seq(Ops) PROVE TerminalTypeOK'
  BY <1>1, <1>2, <1>6, <1>8, NextTypes DEF TerminalTypeOK
<1>9. ASSUME phase' \in Phases, plan' \in Seq(Ops), phase' \notin Activating \cup {"panicking"},
             PlanFits', RestoreComes', GivenBack', MouseInv'
      PROVE  TerminalInv'
  BY <1>5, <1>7, <1>8, <1>9 DEF TerminalInv, Obliged, Planned, ForceComes, AltFirst
<1>10. CASE phase = "activating"
  <2>1. phase' = "hiding" /\ plan' = Hide /\ mode' = mode /\ dirty' = dirty
    BY <1>1, <1>6, <1>10, AfterEach
  <2>2. phase' \in Phases /\ phase' \notin Activating \cup {"panicking"} \cup Restoring \cup Resting
    BY <2>1 DEF Phases, Activating, Restoring, Resting
  <2>3. MouseInv'
    BY <1>1, <1>2, <1>3, <1>10, <2>1 DEF MouseInv, FirstMode, ModeIsSet, BeforeMain
  <2>4. PlanFits' /\ plan' \in Seq(Ops) /\ RestoreComes' /\ GivenBack'
    BY <2>1, <2>2, CursorPlans DEF PlanFits, RestoreComes, GivenBack, Resting
  <2> QED BY <1>9, <2>2, <2>3, <2>4
<1>11. CASE phase = "reactivating"
  <2>1. phase' = "resuming" /\ plan' = Hide \o <<Do("clear", "screen")>> /\ mode' = mode /\ dirty' = dirty
    BY <1>1, <1>6, <1>11, AfterEach
  <2>2. phase' \in Phases /\ phase' \notin Activating \cup {"panicking"} \cup Restoring \cup Resting
    BY <2>1 DEF Phases, Activating, Restoring, Resting
  <2>3. MouseInv'
    BY <1>1, <1>2, <1>11, <2>1 DEF MouseInv, FirstMode, ModeIsSet, BeforeMain
  <2>4. PlanFits' /\ plan' \in Seq(Ops) /\ RestoreComes' /\ GivenBack'
    BY <2>1, <2>2, CursorPlans DEF PlanFits, RestoreComes, GivenBack, Resting
  <2> QED BY <1>9, <2>2, <2>3, <2>4
<1>12. CASE phase = "prechecking"
  <2>1. phase' = "hiding-precheck" /\ plan' = Hide /\ mode' = mode /\ dirty' = dirty
    BY <1>1, <1>6, <1>12, AfterEach
  <2>2. phase' \in Phases /\ phase' \notin Activating \cup {"panicking"} \cup Restoring \cup Resting
    BY <2>1 DEF Phases, BeforeMain, Activating, Restoring, Resting
  <2>3. MouseInv'
    BY <1>1, <1>2, <1>12, <2>1 DEF MouseInv, FirstMode, ModeIsSet, BeforeMain
  <2>4. PlanFits' /\ plan' \in Seq(Ops) /\ RestoreComes' /\ GivenBack'
    BY <2>1, <2>2, CursorPlans DEF PlanFits, RestoreComes, GivenBack, Resting
  <2> QED BY <1>9, <2>2, <2>3, <2>4
<1>13. CASE phase = "hiding-precheck"
  <2>1. phase' = "precheck" /\ plan' = <<>> /\ mode' = mode /\ dirty' = dirty
    BY <1>1, <1>6, <1>13, AfterEach
  <2>2. phase' \in Phases /\ phase' \notin Activating \cup {"panicking"} \cup Restoring
    BY <2>1 DEF Phases, BeforeMain, Activating, Restoring
  <2>3. MouseInv'
    BY <1>1, <1>2, <1>13, <2>1 DEF MouseInv, FirstMode, ModeIsSet, BeforeMain
  <2>4. PlanFits' /\ plan' \in Seq(Ops) /\ RestoreComes' /\ GivenBack'
    BY <2>1, <2>2, NothingPlanned DEF PlanFits, RestoreComes, GivenBack
  <2> QED BY <1>9, <2>2, <2>3, <2>4
<1>14. CASE phase = "suspending" /\ error
  <2>1. phase' = "ending" /\ plan' = RestoreAll /\ mode' = mode /\ dirty' = dirty
    BY <1>1, <1>6, <1>14, AfterEach
  <2>2. phase' \in Phases /\ phase' \notin Activating \cup {"panicking"} \cup Resting \cup BeforeMain
    BY <2>1 DEF Phases, BeforeMain, Activating, Restoring, Resting
  <2>3. MouseInv'
    BY <1>1, <1>2, <1>14, <2>1, <2>2 DEF MouseInv, FirstMode, ModeIsSet
  <2>4. PlanFits' /\ plan' \in Seq(Ops)
    BY <2>1, <2>2, RestoreIsComplete DEF PlanFits
  <2>5. RestoreComes'
    <3>1. owed' \subseteq Features /\ error' = FALSE
      BY <1>1, <1>2 DEF TerminalTypeOK
    <3> QED BY <2>1, <3>1, RestoreIsComplete DEF RestoreComes
  <2>6. GivenBack'
    BY <2>1 DEF GivenBack
  <2> QED BY <1>9, <2>2, <2>3, <2>4, <2>5, <2>6
<1>15. CASE phase = "suspending" /\ ~error
  <2>1. phase' = "editing" /\ plan' = <<>> /\ mode' = mode /\ dirty' = dirty
    BY <1>1, <1>6, <1>15, AfterEach
  <2>2. phase' \in Phases /\ phase' \notin Activating \cup {"panicking"} \cup Restoring \cup BeforeMain
    BY <2>1 DEF Phases, BeforeMain, Activating, Restoring
  <2>3. MouseInv'
    BY <1>1, <1>2, <1>15, <2>1, <2>2 DEF MouseInv, FirstMode, ModeIsSet
  <2>4. owed = {}
    BY <1>2, <1>3, <1>15 DEF RestoreComes
  <2>5. PlanFits' /\ plan' \in Seq(Ops) /\ RestoreComes'
    BY <1>1, <2>1, <2>2, <2>4, NothingPlanned DEF PlanFits, RestoreComes
  <2>6. GivenBack'
    BY <1>1, <1>2, <2>4 DEF Owes, GivenBack
  <2> QED BY <1>9, <2>2, <2>3, <2>5, <2>6
<1>16. CASE phase = "ending-precheck"
  <2>1. phase' = "between" /\ plan' = <<>> /\ mode' = mode /\ dirty' = dirty
    BY <1>1, <1>6, <1>16, AfterEach
  <2>2. phase' \in Phases /\ phase' \notin Activating \cup {"panicking"} \cup Restoring
    BY <2>1 DEF Phases, BeforeMain, Activating, Restoring
  <2>3. MouseInv'
    BY <1>1, <1>2, <1>16, <2>1 DEF MouseInv, FirstMode, ModeIsSet, BeforeMain
  <2>4. PlanFits' /\ plan' \in Seq(Ops) /\ RestoreComes'
    BY <1>1, <2>1, <2>2, NothingPlanned DEF PlanFits, RestoreComes
  <2>5. GivenBack'
    BY <1>1, <1>2, <1>3, <1>16 DEF Owes, GivenBack, RestoreComes, Restoring
  <2> QED BY <1>9, <2>2, <2>3, <2>4, <2>5
<1>17. CASE phase = "panicking"
  <2>1. phase' = "reporting" /\ plan' = <<>> /\ mode' = mode /\ dirty' = dirty
    BY <1>1, <1>6, <1>17, AfterEach
  <2>2. phase' \in Phases /\ phase' \notin Activating \cup {"panicking"} \cup Restoring \cup BeforeMain
    BY <2>1 DEF Phases, BeforeMain, Activating, Restoring
  <2>3. MouseInv'
    BY <1>1, <1>2, <1>17, <2>1, <2>2 DEF MouseInv, FirstMode, ModeIsSet
  <2>4. PlanFits' /\ plan' \in Seq(Ops) /\ RestoreComes'
    BY <1>1, <2>1, <2>2, NothingPlanned DEF PlanFits, RestoreComes
  <2>5. GivenBack'
    BY <1>1, <1>2, <1>3, <1>17 DEF GivenBack, ForceComes
  <2> QED BY <1>9, <2>2, <2>3, <2>4, <2>5
<1>18. CASE phase = "ending"
  <2>1. phase' = "ended" /\ plan' = <<>> /\ mode' = mode /\ dirty' = dirty
    BY <1>1, <1>6, <1>18, AfterEach
  <2>2. phase' \in Phases /\ phase' \notin Activating \cup {"panicking"} \cup Restoring \cup BeforeMain
    BY <2>1 DEF Phases, BeforeMain, Activating, Restoring
  <2>3. MouseInv'
    BY <1>1, <1>2, <1>18, <2>1, <2>2 DEF MouseInv, FirstMode, ModeIsSet
  <2>4. PlanFits' /\ plan' \in Seq(Ops) /\ RestoreComes'
    BY <1>1, <2>1, <2>2, NothingPlanned DEF PlanFits, RestoreComes
  <2>5. GivenBack'
    BY <1>1, <1>2, <1>3, <1>18 DEF Owes, GivenBack, RestoreComes, Restoring
  <2> QED BY <1>9, <2>2, <2>3, <2>4, <2>5
<1>19. CASE phase \in {"hiding", "resuming", "applying"}
  <2>1. phase' = "running" /\ plan' = <<>>
    BY <1>1, <1>6, <1>19, AfterEach
  <2>2. phase' \in Phases /\ phase' \notin Activating \cup {"panicking"} \cup Restoring \cup BeforeMain
    BY <2>1 DEF Phases, BeforeMain, Activating, Restoring
  <2>3. PlanFits' /\ plan' \in Seq(Ops) /\ RestoreComes' /\ GivenBack'
    BY <1>1, <2>1, <2>2, NothingPlanned DEF PlanFits, RestoreComes, GivenBack
  <2>4. FirstMode'
    BY <2>1, <2>2 DEF FirstMode
  <2>5. ~dirty' => mode' = Preferred(layer)
    <3>1. phase = "hiding" => dirty
      BY <1>2 DEF MouseInv, FirstMode
    <3> QED BY <1>1, <1>19, <3>1
  <2>6. ASSUME spent.editors = 0 PROVE ModeIsSet'
    <3>1. phase \in {"hiding", "applying"} /\ ModeIsSet /\ FirstMode
      BY <1>2, <1>19, <2>6 DEF MouseInv
    <3>2. tty.on \cap Mouse = owed \cap Mouse
      BY <3>1 DEF ModeIsSet
    <3>3. owed \cap Mouse = mode'
      <4>1. CASE phase = "hiding"
        <5>1. mode = {"mouse"} /\ "scroll" \notin owed /\ "mouse" \in owed
          BY <1>3, <3>1, <4>1 DEF FirstMode
        <5> QED BY <1>1, <4>1, <5>1 DEF Mouse
      <4>2. CASE phase = "applying"
        <5>1. \A f \in Mouse : f \in Preferred(layer) <=> f \in owed
          BY <1>3, <3>1, <4>2 DEF ModeIsSet
        <5> QED BY <1>1, <1>4, <4>2, <5>1
      <4> QED BY <3>1, <4>1, <4>2
    <3> QED BY <1>1, <2>1, <3>2, <3>3 DEF ModeIsSet
  <2>7. MouseInv'
    BY <1>1, <2>1, <2>4, <2>5, <2>6 DEF MouseInv
  <2> QED BY <1>9, <2>2, <2>3, <2>7
<1> QED BY <1>1, <1>10, <1>11, <1>12, <1>13, <1>14, <1>15, <1>16, <1>17, <1>18, <1>19

(* A plan that starts is claimed, and leaves the terminal as it is.         *)
LEMMA StartKeepsInv ==
  ASSUME TerminalInv, NEW next \in Phases, NEW ops \in Seq(Ops), Start(next, ops),
         next \notin {"shell", "editing", "between", "reporting", "ended"},
         ops # <<>> \/ owed' = {} \/ claim,
         UNCHANGED <<tty, layer, mode, failed>>, owed' \in SUBSET Features, dirty' \in BOOLEAN,
         spent' \in [faults : Nat, editors : Nat],
         Owes', PlanFits', RestoreComes', ForceComes', AltFirst', MouseInv'
  PROVE  TerminalInv'
<1>1. /\ plan' = ops /\ phase' = next /\ error' = FALSE /\ claim' = (claim \/ ops # <<>>)
  BY DEF Start
<1>2. TerminalTypeOK /\ Poppable
  BY DEF TerminalInv, Obliged
<1>3. TerminalTypeOK'
  BY <1>1, <1>2, NextTypes DEF TerminalTypeOK
<1>4. Poppable'
  BY <1>2 DEF Poppable
<1>5. Claimed' /\ GivenBack'
  BY <1>1 DEF Claimed, GivenBack
<1> QED BY <1>3, <1>4, <1>5 DEF TerminalInv, Obliged, Planned

(* Dropping the session: everything owed is in the plan.                    *)
LEMMA LeavingKeepsInv ==
  ASSUME TerminalInv, NEW next \in Restoring, NEW ops, ops = RestoreAll \/ ops = RestoreAll \o RestoreAll,
         Start(next, ops), UNCHANGED <<tty, owed, layer, mode, dirty, failed>>,
         spent' \in [faults : Nat, editors : Nat],
         next = "suspending" => spent'.editors # 0,
         next = "ending-precheck" => phase \in BeforeMain
  PROVE  TerminalInv'
<1>1. /\ plan' = ops /\ phase' = next /\ error' = FALSE
  BY DEF Start
<1>2. TerminalTypeOK /\ Owes /\ MouseInv
  BY DEF TerminalInv, Obliged
<1>3. /\ ops \in Seq(Ops) /\ ops # <<>> /\ OpsIn(ops, Each("restore", Features))
      /\ \A f \in Features : Has(ops, Do("restore", f))
      /\ Precedes(ops, Do("restore", "keyboard"), Do("restore", "alt"))
  BY RestoreIsComplete
<1>4. next \in Phases /\ next \notin Activating \cup Resting \cup {"panicking", "hiding", "running", "applying"}
  BY DEF Restoring, Activating, Resting, Phases, BeforeMain
<1>5. PlanFits'
  BY <1>1, <1>3, <1>4 DEF PlanFits, Restoring
<1>6. RestoreComes' /\ ForceComes' /\ AltFirst'
  <2>1. owed' \subseteq Features
    BY <1>2 DEF TerminalTypeOK
  <2> QED BY <1>1, <1>3, <1>4, <2>1 DEF RestoreComes, ForceComes, AltFirst, Resting
<1>7. MouseInv'
  <2>1. FirstMode'
    <3>1. next \in BeforeMain => phase \in BeforeMain
      BY DEF Restoring, BeforeMain
    <3> QED BY <1>1, <1>2, <1>4, <3>1 DEF MouseInv, FirstMode, Activating
  <2>2. next \notin {"running", "editing", "reactivating", "resuming", "activating"}
    BY <1>4 DEF Resting, Restoring
  <2> QED BY <1>1, <1>4, <2>1, <2>2 DEF MouseInv, ModeIsSet
<1>8. Owes'
  BY <1>2 DEF Owes
<1>9. next \notin {"shell", "editing", "between", "reporting", "ended"}
  BY <1>4 DEF Resting
<1> QED BY <1>2, <1>3, <1>4, <1>5, <1>6, <1>7, <1>8, <1>9, StartKeepsInv DEF TerminalTypeOK

LEMMA PrecheckKeepsInv ==
  ASSUME TerminalInv, EnterPrecheck \/ LeavePrecheck
  PROVE  TerminalInv'
<1>1. TerminalTypeOK /\ Owes /\ MouseInv
  BY DEF TerminalInv, Obliged
<1>2. CASE EnterPrecheck
  <2>1. phase = "shell" /\ Start("prechecking", ActivateMinimal)
        /\ UNCHANGED <<tty, owed, layer, mode, dirty, spent, failed>>
    BY <1>2 DEF EnterPrecheck
  <2>2. phase' = "prechecking" /\ plan' = ActivateMinimal
    BY <2>1 DEF Start
  <2>3. PlanFits' /\ RestoreComes' /\ ForceComes' /\ AltFirst'
    BY <2>2, ActivationPlan DEF PlanFits, RestoreComes, ForceComes, AltFirst, Resting, Activating, Restoring
  <2>4. MouseInv'
    BY <1>1, <2>1, <2>2 DEF MouseInv, FirstMode, ModeIsSet, BeforeMain
  <2>5. Owes'
    BY <1>1, <2>1 DEF Owes
  <2>6. "prechecking" \in Phases
    BY DEF Phases, BeforeMain
  <2> QED BY <1>1, <2>1, <2>3, <2>4, <2>5, <2>6, ActivationPlan, StartKeepsInv DEF TerminalTypeOK
<1>3. CASE LeavePrecheck
  <2>1. phase \in BeforeMain /\ "ending-precheck" \in Restoring
    BY <1>3 DEF LeavePrecheck, BeforeMain, Restoring
  <2> QED BY <1>1, <1>3, <2>1, LeavingKeepsInv DEF LeavePrecheck, TerminalTypeOK
<1> QED BY <1>2, <1>3

(* A session whose guard owes nothing activates the main modes.             *)
LEMMA ActivatingKeepsInv ==
  ASSUME TerminalInv, EnterMain \/ CloseEditor
  PROVE  TerminalInv'
<1>1. TerminalTypeOK /\ Owes /\ GivenBack /\ RestoreComes /\ MouseInv
  BY DEF TerminalInv, Obliged, Planned
<1>2. PICK next \in Activating : Start(next, ActivateMain) /\ UNCHANGED <<tty, layer, mode, dirty, spent, failed>>
                                  /\ owed' = {}
                                  /\ (next = "activating" => phase \in {"shell", "between"})
                                  /\ (next = "reactivating" => phase = "editing")
                                  /\ phase \in {"shell", "between", "editing"}
  BY <1>1 DEF EnterMain, CloseEditor, Activating, RestoreComes
<1>3. phase' = next /\ plan' = ActivateMain
  BY <1>2 DEF Start
<1>4. PlanFits'
  BY <1>3, ActivationPlan DEF PlanFits, Activating, Restoring, Resting
<1>5. RestoreComes' /\ ForceComes'
  BY <1>3 DEF RestoreComes, ForceComes, Activating, Restoring
<1>6. AltFirst'
  BY <1>2, <1>3, ActivationPlan DEF AltFirst
<1>7. Owes'
  BY <1>1, <1>2 DEF GivenBack, Owes
<1>8. MouseInv'
  <2>1. CASE next = "activating"
    <3>1. phase \in BeforeMain /\ mode = {"mouse"} /\ dirty /\ tty.on \cap Mouse = {}
      BY <1>1, <1>2, <2>1 DEF MouseInv, FirstMode, BeforeMain
    <3>2. FirstMode'
      BY <1>2, <1>3, <2>1, <3>1, ActivationPlan DEF FirstMode, BeforeMain
    <3>3. ModeIsSet'
      BY <1>2, <1>3, <2>1, <3>1 DEF ModeIsSet
    <3> QED BY <1>3, <2>1, <3>2, <3>3 DEF MouseInv
  <2>2. CASE next = "reactivating"
    <3>1. spent'.editors # 0
      BY <1>1, <1>2, <2>2 DEF MouseInv
    <3> QED BY <1>3, <2>2, <3>1 DEF MouseInv, FirstMode, ModeIsSet, BeforeMain
  <2> QED BY <2>1, <2>2 DEF Activating
<1>9. next \in Phases /\ next \notin {"shell", "editing", "between", "reporting", "ended"}
  BY DEF Activating, Phases
<1> QED BY <1>1, <1>2, <1>4, <1>5, <1>6, <1>7, <1>8, <1>9, ActivationPlan, StartKeepsInv DEF TerminalTypeOK

LEMMA DrawKeepsInv ==
  ASSUME TerminalInv, Draw
  PROVE  TerminalInv'
<1>1. TerminalTypeOK /\ Owes /\ Poppable /\ Claimed /\ PlanFits /\ MouseInv /\ phase = "running" /\ dirty
  BY DEF TerminalInv, Obliged, Planned, Draw
<1>2. CASE Preferred(layer) # mode
  <2>1. /\ Start("applying", ApplyMouseMode(Preferred(layer)))
        /\ UNCHANGED <<tty, owed, layer, mode, spent, failed, dirty>>
    BY <1>2 DEF Draw
  <2>2. phase' = "applying" /\ plan' = ApplyMouseMode(Preferred(layer))
    BY <2>1 DEF Start
  <2>3. Preferred(layer) \in SUBSET Mouse
    BY <1>1 DEF TerminalTypeOK, Layers, Preferred, Mouse
  <2>4. /\ plan' \in Seq(Ops) /\ OpsIn(plan', ModeOps(Preferred(layer)))
        /\ \A f \in Mouse : IF f \in Preferred(layer) THEN Has(plan', Do("on", f)) ELSE Has(plan', Do("off", f))
    BY <2>2, <2>3, ModePlan
  <2>5. PlanFits'
    BY <2>1, <2>2, <2>4 DEF PlanFits, Activating, Restoring, Resting
  <2>6. RestoreComes' /\ ForceComes' /\ AltFirst'
    BY <2>2 DEF RestoreComes, ForceComes, AltFirst, Activating, Restoring
  <2>7. spent.editors = 0 => ModeIsSet'
    BY <1>1, <2>1, <2>2, <2>4 DEF MouseInv, ModeIsSet
  <2>8. MouseInv'
    BY <2>1, <2>2, <2>7 DEF MouseInv, FirstMode, BeforeMain
  <2>9. Owes'
    BY <1>1, <2>1 DEF Owes
  <2>10. ApplyMouseMode(Preferred(layer)) # <<>>
    <3>1. Has(plan', Do("on", "mouse")) \/ Has(plan', Do("off", "mouse"))
      BY <2>4 DEF Mouse
    <3> QED BY <2>2, <3>1, NothingPlanned
  <2>11. "applying" \in Phases
    BY DEF Phases
  <2> QED BY <1>1, <2>1, <2>2, <2>4, <2>5, <2>6, <2>8, <2>9, <2>10, <2>11, StartKeepsInv DEF TerminalTypeOK
<1>3. CASE Preferred(layer) = mode
  <2>1. dirty' = FALSE /\ UNCHANGED <<phase, plan, error, claim, tty, owed, layer, mode, spent, failed>>
    BY <1>3 DEF Draw
  <2>2. TerminalTypeOK'
    BY <1>1, <2>1, NextTypes DEF TerminalTypeOK
  <2>3. Obliged' /\ Planned'
    BY <2>1 DEF TerminalInv, Obliged, Owes, Poppable, Claimed, GivenBack, Planned, PlanFits, RestoreComes,
                ForceComes, AltFirst
  <2>4. MouseInv'
    BY <1>1, <1>3, <2>1 DEF MouseInv, FirstMode, ModeIsSet, BeforeMain
  <2> QED BY <2>2, <2>3, <2>4 DEF TerminalInv
<1> QED BY <1>2, <1>3

LEMMA ShowKeepsInv ==
  ASSUME TerminalInv, NEW l \in Layers, Show(l)
  PROVE  TerminalInv'
<1>1. TerminalTypeOK /\ PlanFits /\ MouseInv
  BY DEF TerminalInv, Planned
<1>2. phase = "running" /\ layer' = l /\ dirty' = TRUE
      /\ UNCHANGED <<phase, plan, error, tty, owed, claim, mode, spent, failed>>
  BY DEF Show
<1>3. TerminalTypeOK'
  BY <1>1, <1>2, NextTypes DEF TerminalTypeOK
<1>4. Obliged'
  BY <1>2 DEF TerminalInv, Obliged, Owes, Poppable, Claimed, GivenBack
<1>5. PlanFits'
  BY <1>1, <1>2 DEF PlanFits, Resting, Activating, Restoring
<1>6. RestoreComes' /\ ForceComes' /\ AltFirst'
  BY <1>2 DEF RestoreComes, ForceComes, AltFirst, Activating, Restoring
<1>7. MouseInv'
  BY <1>1, <1>2 DEF MouseInv, FirstMode, ModeIsSet, BeforeMain
<1> QED BY <1>3, <1>4, <1>5, <1>6, <1>7 DEF TerminalInv, Planned

LEMMA LeaveKeepsInv ==
  ASSUME TerminalInv, OpenEditor \/ LeaveSession \/ Unwind
  PROVE  TerminalInv'
<1>1. TerminalTypeOK
  BY DEF TerminalInv
<1>2. "suspending" \in Restoring /\ "ending" \in Restoring
  BY DEF Restoring
<1>3. CASE OpenEditor
  <2>1. spent' \in [faults : Nat, editors : Nat] /\ spent'.editors # 0
    BY <1>1, <1>3 DEF OpenEditor, TerminalTypeOK
  <2> QED BY <1>2, <1>3, <2>1, LeavingKeepsInv DEF OpenEditor
<1>4. CASE LeaveSession \/ Unwind
  BY <1>1, <1>2, <1>4, LeavingKeepsInv DEF LeaveSession, Unwind, TerminalTypeOK
<1> QED BY <1>3, <1>4

LEMMA PanicKeepsInv ==
  ASSUME TerminalInv, UiPanics
  PROVE  TerminalInv'
<1>1. TerminalTypeOK /\ Owes /\ Poppable /\ Claimed /\ PlanFits /\ MouseInv /\ phase = "running"
      /\ UNCHANGED <<tty, owed, layer, mode, dirty, spent, failed>>
  BY DEF TerminalInv, Obliged, Planned, UiPanics
<1>2. CASE claim
  <2>1. Start("panicking", RestoreAfterPanic)
    BY <1>2 DEF UiPanics
  <2>2. phase' = "panicking" /\ plan' = RestoreAfterPanic
    BY <2>1 DEF Start
  <2>3. PlanFits'
    BY <2>2, ForceIsComplete DEF PlanFits, Activating, Restoring, Resting
  <2>4. RestoreComes' /\ AltFirst'
    BY <2>2 DEF RestoreComes, AltFirst, Activating, Restoring
  <2>5. Changed(tty') \subseteq Features
    <3>1. tty'.on \subseteq Features
      BY <1>1 DEF TerminalTypeOK
    <3> QED BY <3>1 DEF Changed, Features
  <2>6. ForceComes'
    BY <2>2, <2>5, ForceIsComplete DEF ForceComes
  <2>7. MouseInv'
    BY <2>2 DEF MouseInv, FirstMode, ModeIsSet, BeforeMain
  <2>8. Owes'
    BY <1>1 DEF Owes
  <2>9. "panicking" \in Phases
    BY DEF Phases
  <2> QED BY <1>1, <1>2, <2>1, <2>3, <2>4, <2>6, <2>7, <2>8, <2>9, ForceIsComplete, StartKeepsInv DEF TerminalTypeOK
<1>3. CASE ~claim
  <2>1. phase' = "reporting" /\ UNCHANGED <<plan, error, claim>>
    BY <1>3 DEF UiPanics
  <2>2. plan = <<>> /\ owed = {}
    BY <1>1, <1>3 DEF Claimed
  <2>3. TerminalTypeOK'
    <3>1. "reporting" \in Phases
      BY DEF Phases
    <3> QED BY <1>1, <2>1, <3>1, NextTypes DEF TerminalTypeOK
  <2>4. Obliged'
    BY <1>1, <2>1, <2>2 DEF Obliged, Owes, Poppable, Claimed, GivenBack
  <2>5. Planned'
    BY <2>1, <2>2 DEF Planned, PlanFits, RestoreComes, ForceComes, AltFirst, Activating, Restoring
  <2>6. MouseInv'
    BY <2>1 DEF MouseInv, FirstMode, ModeIsSet, BeforeMain
  <2> QED BY <2>3, <2>4, <2>5, <2>6 DEF TerminalInv
<1> QED BY <1>2, <1>3

LEMMA TerminalInitInv == TerminalInit => TerminalInv
<1> SUFFICES ASSUME TerminalInit PROVE TerminalInv
  OBVIOUS
<1>1. TerminalTypeOK
  <2>1. "shell" \in Phases /\ "mouse" \in Mouse
    BY DEF Phases, BeforeMain, Mouse
  <2>2. plan \in Seq(Ops)
    BY NothingPlanned DEF TerminalInit
  <2> QED BY <2>1, <2>2 DEF TerminalInit, TerminalTypeOK, Layers
<1>2. Obliged
  BY DEF TerminalInit, Obliged, Owes, Poppable, Claimed, GivenBack, Changed
<1>3. Planned
  BY DEF TerminalInit, Planned, PlanFits, RestoreComes, ForceComes, AltFirst, Activating, Restoring
<1>4. MouseInv
  BY DEF TerminalInit, MouseInv, FirstMode, ModeIsSet, BeforeMain
<1> QED BY <1>1, <1>2, <1>3, <1>4 DEF TerminalInv

LEMMA TerminalInvIsInductive == TerminalInv /\ [TerminalNext]_terminalVars => TerminalInv'
<1> SUFFICES ASSUME TerminalInv, [TerminalNext]_terminalVars PROVE TerminalInv'
  OBVIOUS
<1>1. CASE SwitchOn \/ SwitchOff \/ Restore \/ ForceRestore \/ ClearScreen \/ PlanEnds
  BY <1>1, SwitchOnKeepsInv, SwitchOffKeepsInv, RestoreKeepsInv, ForceRestoreKeepsInv, ClearScreenKeepsInv,
     PlanEndsKeepsInv
<1>2. CASE EnterPrecheck \/ LeavePrecheck \/ EnterMain \/ CloseEditor
  BY <1>2, PrecheckKeepsInv, ActivatingKeepsInv
<1>3. CASE Draw \/ \E l \in Layers : Show(l)
  BY <1>3, DrawKeepsInv, ShowKeepsInv
<1>4. CASE OpenEditor \/ LeaveSession \/ UiPanics \/ Unwind
  BY <1>4, LeaveKeepsInv, PanicKeepsInv
<1>5. CASE UNCHANGED terminalVars
  BY <1>5 DEF terminalVars, TerminalInv, TerminalTypeOK, Obliged, Owes, Poppable, Claimed, GivenBack, Planned,
              PlanFits, RestoreComes, ForceComes, AltFirst, MouseInv, FirstMode, ModeIsSet
<1> QED BY <1>1, <1>2, <1>3, <1>4, <1>5 DEF TerminalNext

LEMMA TerminalInvIsEnough == TerminalInv => TerminalIsAsPromised
<1> SUFFICES ASSUME TerminalInv PROVE TerminalIsAsPromised
  OBVIOUS
<1>1. TerminalIsGivenBack
  BY DEF TerminalInv, Obliged, Owes, Claimed, GivenBack, TerminalIsGivenBack
<1>2. MouseModeFollowsTheLayer
  BY DEF TerminalInv, MouseInv, ModeIsSet, MouseModeFollowsTheLayer, Mouse
<1> QED BY <1>1, <1>2 DEF TerminalIsAsPromised

(* Whoever reads the terminal outside a session finds it as it was, but for *)
(* a feature whose own inverse failed; whatever a session changed is owed   *)
(* and claimed by the panic hook; and until an editor was used a drawn frame*)
(* has the mouse mode of its layer: for any number of failing operations    *)
(* and editors (terminal_lifecycle.rs, runner/terminal.rs,                  *)
(* terminal_session.rs, terminal_panic.rs).                                 *)
THEOREM TerminalKeepsItsPromises == TerminalSpec => []TerminalIsAsPromised
<1>1. TerminalInit => TerminalInv
  BY TerminalInitInv
<1>2. TerminalInv /\ [TerminalNext]_terminalVars => TerminalInv'
  BY TerminalInvIsInductive
<1>3. TerminalInv => TerminalIsAsPromised
  BY TerminalInvIsEnough
<1> QED BY <1>1, <1>2, <1>3, PTL DEF TerminalSpec

-----------------------------------------------------------------------------
(* The approval panel and its pills. *)

UiScreens ==
  [layers : SUBSET ModalLayers, panel : {"none", "runtime", "debug"},
   tall : BOOLEAN, full : BOOLEAN, view : Views,
   inline : {"none", "model", "budget"}, unread : BOOLEAN,
   pending : BOOLEAN, busy : BOOLEAN, roomy : BOOLEAN]

(* A preview takes the window only where it is too tall for it. *)
FullIsTall(s) == s.full => s.panel # "none" /\ s.tall /\ ~s.roomy

(* A screen in the middle of a handler: its pills may not have been seen to. *)
Sound(s) == s \in UiScreens /\ FullIsTall(s) /\ (s.pending => s.panel = "runtime")

(* A screen at the end of one. *)
Told(s) ==
  /\ Sound(s)
  /\ s.pending => ~Visible(s)
  /\ s.unread => ~AtEnd(s)

(* What the operators on a screen do about its panel, one after the other. *)
PanelKept(s, t) ==
  /\ t.panel = s.panel
  /\ Visible(s) => Visible(t)
  /\ s.pending /\ ~t.pending => Visible(t)

ApprovalHeld ==
  /\ Told(screen)
  /\ turn \in {"none", "running", "cancelling"}
  /\ asked \in BOOLEAN
  /\ loads \in SUBSET Loads
  /\ ~StoreMayFail => WaitingTurnHasItsPanel

LEMMA TopIsThere ==
  ASSUME NEW s \in UiScreens
  PROVE  /\ Top(s) = "none" <=> ~s.full /\ s.layers = {}
         /\ Top(s) = "approval" <=> s.full
         /\ Top(s) \in ModalLayers => Top(s) \in s.layers /\ ~s.full
         /\ Top(s) \in ModalLayers \cup {"none", "approval"}
<1>0. s.layers \in SUBSET ModalLayers /\ s.full \in BOOLEAN
  BY DEF UiScreens
<1>1. CASE s.full
  BY <1>0, <1>1 DEF Top, ModalLayers
<1>2. CASE ~s.full /\ "transcript" \in s.layers
  BY <1>0, <1>2 DEF Top, ModalLayers
<1>3. CASE ~s.full /\ "transcript" \notin s.layers /\ "prompt" \in s.layers
  BY <1>0, <1>3 DEF Top, ModalLayers
<1>4. CASE ~s.full /\ s.layers \cap {"transcript", "prompt"} = {} /\ "preview" \in s.layers
  BY <1>0, <1>4 DEF Top, ModalLayers
<1>5. CASE ~s.full /\ s.layers \subseteq {"picker", "list"} /\ "picker" \in s.layers
  BY <1>0, <1>5 DEF Top, ModalLayers
<1>6. CASE ~s.full /\ s.layers = {"list"}
  BY <1>0, <1>6 DEF Top, ModalLayers
<1>7. CASE ~s.full /\ s.layers = {}
  BY <1>0, <1>7 DEF Top, ModalLayers
<1> QED BY <1>0, <1>1, <1>2, <1>3, <1>4, <1>5, <1>6, <1>7 DEF ModalLayers

LEMMA Seen ==
  ASSUME NEW s \in UiScreens
  PROVE  /\ AtEnd(s) <=> s.view = "bottom" /\ ~s.full /\ s.layers = {}
         /\ Visible(s) <=> s.panel # "none" /\ (s.full \/ (s.view = "bottom" /\ s.layers = {}))
BY TopIsThere DEF AtEnd, Visible

LEMMA SyncPreviewSeen ==
  ASSUME NEW s \in UiScreens
  PROVE  /\ SyncPreview(s) \in UiScreens
         /\ FullIsTall(SyncPreview(s))
         /\ Visible(SyncPreview(s)) => Visible(s)
         /\ FullIsTall(s) => (Visible(SyncPreview(s)) <=> Visible(s)) /\ (AtEnd(SyncPreview(s)) => AtEnd(s))
         /\ SyncPreview(s).panel = s.panel /\ SyncPreview(s).pending = s.pending
         /\ SyncPreview(s).unread = s.unread /\ SyncPreview(s).view = s.view
         /\ SyncPreview(s).layers = s.layers
<1> DEFINE t == SyncPreview(s)
<1>1. /\ t \in UiScreens /\ t.full = (Visible(s) /\ s.tall /\ ~s.roomy)
      /\ t.panel = s.panel /\ t.pending = s.pending /\ t.unread = s.unread /\ t.view = s.view
      /\ t.layers = s.layers /\ t.tall = s.tall /\ t.roomy = s.roomy
  BY DEF SyncPreview, UiScreens
<1> HIDE DEF t
<1>2. /\ AtEnd(t) <=> t.view = "bottom" /\ ~t.full /\ t.layers = {}
      /\ Visible(t) <=> t.panel # "none" /\ (t.full \/ (t.view = "bottom" /\ t.layers = {}))
  BY <1>1, Seen
<1>3. /\ AtEnd(s) <=> s.view = "bottom" /\ ~s.full /\ s.layers = {}
      /\ Visible(s) <=> s.panel # "none" /\ (s.full \/ (s.view = "bottom" /\ s.layers = {}))
  BY Seen
<1>4. FullIsTall(t) /\ (Visible(t) => Visible(s))
  BY <1>1, <1>2, <1>3 DEF FullIsTall
<1>5. ASSUME FullIsTall(s) PROVE (Visible(t) <=> Visible(s)) /\ (AtEnd(t) => AtEnd(s))
  <2>1. s.full => t.full
    BY <1>1, <1>3, <1>5 DEF FullIsTall
  <2>2. t.full => s.full \/ (s.view = "bottom" /\ s.layers = {} /\ s.panel # "none")
    BY <1>1, <1>3
  <2> QED BY <1>1, <1>2, <1>3, <2>1, <2>2
<1> QED BY <1>1, <1>4, <1>5 DEF t

LEMMA ViewsAreViews ==
  ASSUME NEW s \in UiScreens
  PROVE  Home(s) \in Views /\ s.view \in Views /\ (s.view = "bottom" => Home(s) = "bottom")
BY DEF UiScreens, Views, Home

(* A placed viewport has its pills seen to. *)
LEMMA PlaceTells ==
  ASSUME NEW s, Sound(s), NEW view \in Views
  PROVE  /\ Told(Place(s, view))
         /\ Place(s, view).panel = s.panel
         /\ Place(s, view).view = view /\ Place(s, view).layers = s.layers
         /\ view = "bottom" \/ s.view # "bottom" => PanelKept(s, Place(s, view))
         /\ s.pending /\ ~Place(s, view).pending => Visible(Place(s, view))
<1> DEFINE turned == [s EXCEPT !.view = view]
           cleared == ClearUnread(turned)
           moved == SyncPill(cleared)
           t == SyncPreview(moved)
<1>1. /\ turned \in UiScreens /\ turned.view = view /\ turned.panel = s.panel
      /\ turned.full = s.full /\ turned.layers = s.layers /\ turned.tall = s.tall
      /\ turned.roomy = s.roomy /\ turned.pending = s.pending /\ turned.unread = s.unread
  BY DEF Sound, UiScreens
<1>2. /\ cleared \in UiScreens /\ cleared.view = view /\ cleared.panel = s.panel
      /\ cleared.full = s.full /\ cleared.layers = s.layers /\ cleared.tall = s.tall
      /\ cleared.roomy = s.roomy /\ cleared.pending = s.pending
      /\ cleared.unread = (s.unread /\ ~AtEnd(turned))
  <2> HIDE DEF turned
  <2> QED BY <1>1 DEF ClearUnread, UiScreens
<1>3. /\ moved \in UiScreens /\ moved.view = view /\ moved.panel = s.panel
      /\ moved.full = s.full /\ moved.layers = s.layers /\ moved.tall = s.tall
      /\ moved.roomy = s.roomy
      /\ moved.pending = (s.pending /\ s.panel # "none" /\ ~Visible(cleared))
      /\ moved.unread = (s.unread /\ ~AtEnd(turned))
  <2> HIDE DEF cleared
  <2> QED BY <1>2 DEF SyncPill, UiScreens
<1> HIDE DEF turned, cleared, moved
<1>4. (AtEnd(moved) <=> AtEnd(turned)) /\ (Visible(moved) <=> Visible(cleared))
  BY <1>1, <1>2, <1>3, Seen
<1>5. FullIsTall(moved)
  BY <1>3 DEF FullIsTall, Sound
<1>6. Told(moved)
  BY <1>3, <1>4, <1>5 DEF Told, Sound
<1>7. /\ Told(t) /\ t.panel = s.panel /\ t.pending = moved.pending /\ t.view = view
      /\ t.layers = s.layers
      /\ Visible(t) <=> Visible(moved)
  BY <1>3, <1>5, <1>6, SyncPreviewSeen DEF Told, Sound
<1>8. s.pending /\ ~moved.pending => Visible(moved)
  BY <1>3, <1>4 DEF Sound
<1>9. (view = "bottom" \/ s.view # "bottom") /\ Visible(s) => Visible(moved)
  BY <1>3, Seen DEF Sound
<1>10. Place(s, view) = moved \/ Place(s, view) = t
  BY DEF Place, moved, cleared, turned
<1> HIDE DEF t
<1> QED BY <1>3, <1>6, <1>7, <1>8, <1>9, <1>10 DEF PanelKept

LEMMA KeptIsTransitive ==
  ASSUME NEW s, NEW t, NEW u, PanelKept(s, t), PanelKept(t, u)
  PROVE  PanelKept(s, u)
BY DEF PanelKept

LEMMA KeptIsReflexive == \A s : PanelKept(s, s)
BY DEF PanelKept

LEMMA PlaceKeeps ==
  ASSUME NEW s, Sound(s), NEW view \in {s.view, Home(s), "bottom"}
  PROVE  Told(Place(s, view)) /\ PanelKept(s, Place(s, view))
<1>1. view \in Views /\ "bottom" \in Views
  BY ViewsAreViews DEF Sound, Views
<1>2. view = "bottom" \/ s.view # "bottom"
  BY ViewsAreViews DEF Sound
<1> QED BY <1>1, <1>2, PlaceTells

LEMMA StayKeeps ==
  ASSUME NEW s, Sound(s)
  PROVE  Told(Stay(s)) /\ PanelKept(s, Stay(s))
BY PlaceKeeps DEF Stay

LEMMA FollowCursorTells ==
  ASSUME NEW s, Sound(s)
  PROVE  Told(FollowCursor(s)) /\ FollowCursor(s).panel = s.panel
<1>1. {"bottom", "composer"} \subseteq Views
  BY DEF Views
<1> QED BY <1>1, PlaceTells DEF FollowCursor

LEMMA RefreshedKeeps ==
  ASSUME NEW s, Sound(s), NEW t \in Refreshed(s)
  PROVE  Told(t) /\ PanelKept(s, t)
<1>1. CASE t = Stay(s)
  BY <1>1, StayKeeps
<1>2. CASE t = Place(s, Home(s))
  BY <1>2, PlaceKeeps
<1>3. CASE t = Place([s EXCEPT !.view = "bottom"], "bottom")
  <2> DEFINE u == [s EXCEPT !.view = "bottom"]
  <2>1. /\ u \in UiScreens /\ u.panel = s.panel /\ u.full = s.full /\ u.layers = s.layers
        /\ u.tall = s.tall /\ u.roomy = s.roomy /\ u.pending = s.pending /\ u.view = "bottom"
    BY DEF Sound, UiScreens, Views
  <2> HIDE DEF u
  <2>2. Sound(u)
    BY <2>1 DEF Sound, FullIsTall
  <2>3. Visible(s) => Visible(u)
    BY <2>1, Seen DEF Sound
  <2>4. Told(Place(u, "bottom")) /\ PanelKept(u, Place(u, "bottom"))
    BY <2>2, PlaceKeeps
  <2>5. t = Place(u, "bottom")
    BY <1>3 DEF u
  <2> QED BY <2>1, <2>3, <2>4, <2>5 DEF PanelKept
<1> QED BY <1>1, <1>2, <1>3 DEF Refreshed, Settled

LEMMA OrRefreshedKeeps ==
  ASSUME NEW s, Sound(s), NEW t \in OrRefreshed({s})
  PROVE  t = s \/ (Told(t) /\ PanelKept(s, t))
BY RefreshedKeeps DEF OrRefreshed

LEMMA OrRefreshedTells ==
  ASSUME NEW S, \A s \in S : Told(s), NEW t \in OrRefreshed(S)
  PROVE  /\ Told(t)
         /\ \E s \in S : PanelKept(s, t)
<1>1. \/ t \in S
      \/ \E s \in S : t \in Refreshed(s)
  BY DEF OrRefreshed
<1>2. CASE t \in S
  BY <1>2, KeptIsReflexive
<1>3. ASSUME NEW s \in S, t \in Refreshed(s) PROVE Told(t) /\ PanelKept(s, t)
  BY <1>3, RefreshedKeeps DEF Told
<1> QED BY <1>1, <1>2, <1>3

(* After a key: the layer it went to is gone, or nothing was hidden. *)
LEMMA LayerClosedTells ==
  ASSUME NEW s, Sound(s), NEW before, Top(s) # before \/ Told(s)
  PROVE  Told(LayerClosed(s, before)) /\ PanelKept(s, LayerClosed(s, before))
<1>1. CASE Top(s) = before
  BY <1>1, KeptIsReflexive DEF LayerClosed
<1>2. CASE Top(s) # before
  <2> DEFINE synced == SyncPreview(s)
             pilled == SyncPill(synced)
             t == ClearUnread(pilled)
  <2>1. /\ Sound(synced) /\ synced.panel = s.panel /\ synced.pending = s.pending
        /\ Visible(synced) <=> Visible(s)
    BY SyncPreviewSeen DEF Sound
  <2> HIDE DEF synced
  <2>2. /\ pilled \in UiScreens /\ pilled.panel = synced.panel /\ pilled.view = synced.view
        /\ pilled.full = synced.full /\ pilled.layers = synced.layers /\ pilled.tall = synced.tall
        /\ pilled.roomy = synced.roomy
        /\ pilled.pending = (synced.pending /\ synced.panel # "none" /\ ~Visible(synced))
    BY <2>1 DEF SyncPill, UiScreens, Sound
  <2> HIDE DEF pilled
  <2>3. /\ t \in UiScreens /\ t.panel = pilled.panel /\ t.view = pilled.view
        /\ t.full = pilled.full /\ t.layers = pilled.layers /\ t.tall = pilled.tall
        /\ t.roomy = pilled.roomy /\ t.pending = pilled.pending
        /\ t.unread => ~AtEnd(pilled)
    BY <2>2 DEF ClearUnread, UiScreens
  <2> HIDE DEF t
  <2>4. (AtEnd(t) <=> AtEnd(pilled)) /\ (Visible(t) <=> Visible(synced))
    BY <2>1, <2>2, <2>3, Seen DEF Sound
  <2>5. FullIsTall(t)
    BY <2>1, <2>2, <2>3 DEF Sound, FullIsTall
  <2>6. Told(t)
    BY <2>1, <2>2, <2>3, <2>4, <2>5 DEF Told, Sound
  <2>7. PanelKept(s, t)
    BY <2>1, <2>2, <2>3, <2>4 DEF PanelKept, Sound
  <2>8. LayerClosed(s, before) = t
    BY <1>2 DEF LayerClosed, t, pilled, synced
  <2> QED BY <2>6, <2>7, <2>8
<1> QED BY <1>1, <1>2

(* A layer less: what it covered may be seen. *)
LEMMA Unlayered ==
  ASSUME NEW s, Sound(s), NEW layers \in SUBSET s.layers
  PROVE  LET t == [s EXCEPT !.layers = layers]
         IN  /\ Sound(t) /\ t.layers = layers /\ t.full = s.full
             /\ PanelKept(s, t)
<1> DEFINE t == [s EXCEPT !.layers = layers]
<1>1. /\ t \in UiScreens /\ t.panel = s.panel /\ t.view = s.view /\ t.full = s.full
      /\ t.layers = layers /\ t.tall = s.tall /\ t.roomy = s.roomy /\ t.pending = s.pending
  BY DEF Sound, UiScreens
<1> HIDE DEF t
<1>2. Sound(t)
  BY <1>1 DEF Sound, FullIsTall
<1>3. Visible(s) => Visible(t)
  BY <1>1, Seen DEF Sound
<1> QED BY <1>1, <1>2, <1>3 DEF t, PanelKept

(* What is not about the panel changes nothing of what is told. *)
LEMMA BusyIsNotTold ==
  ASSUME NEW s, Told(s), NEW busy \in BOOLEAN
  PROVE  LET t == [s EXCEPT !.busy = busy] IN Told(t) /\ PanelKept(s, t)
<1> DEFINE t == [s EXCEPT !.busy = busy]
<1>1. /\ t \in UiScreens /\ t.panel = s.panel /\ t.view = s.view /\ t.full = s.full
      /\ t.layers = s.layers /\ t.tall = s.tall /\ t.roomy = s.roomy /\ t.pending = s.pending
      /\ t.unread = s.unread
  BY DEF Told, Sound, UiScreens
<1> HIDE DEF t
<1>2. (Visible(t) <=> Visible(s)) /\ (AtEnd(t) <=> AtEnd(s))
  BY <1>1, Seen DEF Told, Sound
<1>3. Sound(t)
  BY <1>1 DEF Told, Sound, FullIsTall
<1> QED BY <1>1, <1>2, <1>3 DEF t, Told, PanelKept

LEMMA WithoutKeeps ==
  ASSUME NEW s, Sound(s), NEW cover, NEW t \in Without(s, cover)
  PROVE  /\ Sound(t) /\ PanelKept(s, t)
         /\ Told(t) \/ t = [s EXCEPT !.layers = @ \ {cover}]
<1> DEFINE closed == [s EXCEPT !.layers = s.layers \ {cover}]
<1>1. Sound(closed) /\ PanelKept(s, closed)
  BY Unlayered
<1>2. t = closed \/ t \in OrRefreshed({closed})
  BY DEF Without
<1> HIDE DEF closed
<1>3. t = closed \/ (Told(t) /\ PanelKept(closed, t))
  BY <1>1, <1>2, OrRefreshedKeeps
<1>4. Sound(t) /\ PanelKept(s, t)
  BY <1>1, <1>3, KeptIsTransitive DEF Told
<1> QED BY <1>3, <1>4 DEF closed

LEMMA UncoveredKeeps ==
  ASSUME NEW s, Sound(s), NEW t \in Uncovered(s)
  PROVE  /\ Sound(t) /\ PanelKept(s, t)
         /\ ~s.full => t.layers = {}
<1>1. CASE s.full
  BY <1>1, KeptIsReflexive DEF Uncovered
<1>2. CASE ~s.full
  <2>1. PICK u \in Without(s, "transcript") :
          \E v \in (IF "prompt" \in s.layers THEN Without(u, "prompt") ELSE {u}) :
            t = [v EXCEPT !.layers = {}]
    BY <1>2 DEF Uncovered
  <2>2. PICK v : /\ v = u \/ v \in Without(u, "prompt")
                 /\ t = [v EXCEPT !.layers = {}]
    BY <2>1
  <2>3. Sound(u) /\ PanelKept(s, u)
    BY WithoutKeeps
  <2>4. Sound(v) /\ PanelKept(u, v)
    BY <2>2, <2>3, WithoutKeeps, KeptIsReflexive
  <2>5. PanelKept(s, v)
    BY <2>3, <2>4, KeptIsTransitive
  <2>6. Sound(t) /\ t.layers = {} /\ PanelKept(v, t)
    BY <2>2, <2>4, Unlayered
  <2> QED BY <2>5, <2>6, KeptIsTransitive
<1> QED BY <1>1, <1>2

LEMMA CloseInlineTells ==
  ASSUME NEW s, Told(s)
  PROVE  Told(CloseInline(s)) /\ CloseInline(s).panel = s.panel
<1> DEFINE u == [s EXCEPT !.inline = "none"]
<1>1. /\ u \in UiScreens /\ u.panel = s.panel /\ u.full = s.full
      /\ u.tall = s.tall /\ u.roomy = s.roomy /\ u.pending = s.pending
  BY DEF Told, Sound, UiScreens
<1> HIDE DEF u
<1>2. Sound(u)
  BY <1>1 DEF Told, Sound, FullIsTall
<1>3. CloseInline(s) = s \/ CloseInline(s) = FollowCursor(u)
  BY DEF CloseInline, u
<1> QED BY <1>1, <1>2, <1>3, FollowCursorTells

LEMMA OpenPanelTells ==
  ASSUME NEW s, Told(s), NEW origin \in {"runtime", "debug"}, NEW tall \in BOOLEAN,
         origin = "debug" => s.panel = "none"
  PROVE  LET t == OpenPanel(s, origin, tall)
         IN  /\ Told(t) /\ t.panel = origin
             /\ origin = "runtime" => Visible(t) \/ t.pending
<1> DEFINE away == CloseInline(s)
           put == [away EXCEPT !.panel = origin, !.tall = tall, !.full = FALSE]
           opened == SyncPreview(put)
           placed == Place(opened, IF origin = "runtime" THEN opened.view ELSE "bottom")
           marked == [placed EXCEPT !.pending = placed.pending \/ ~Visible(placed)]
<1>1. Told(away) /\ away.panel = s.panel
  BY CloseInlineTells
<1> HIDE DEF away
<1>2. /\ put \in UiScreens /\ put.panel = origin /\ put.pending = away.pending
  BY <1>1 DEF Told, Sound, UiScreens
<1> HIDE DEF put
<1>3. put.pending => put.panel = "runtime"
  BY <1>1, <1>2 DEF Told, Sound
<1>4. Sound(opened) /\ opened.panel = origin /\ opened.view \in Views
  BY <1>2, <1>3, SyncPreviewSeen, ViewsAreViews DEF Sound
<1> HIDE DEF opened
<1>5. Told(placed) /\ placed.panel = origin
  BY <1>4, PlaceKeeps DEF PanelKept
<1> HIDE DEF placed
<1>6. CASE origin = "runtime"
  <2>1. /\ marked \in UiScreens /\ marked.panel = placed.panel /\ marked.view = placed.view
        /\ marked.full = placed.full /\ marked.layers = placed.layers /\ marked.tall = placed.tall
        /\ marked.roomy = placed.roomy /\ marked.unread = placed.unread
        /\ marked.pending = (placed.pending \/ ~Visible(placed))
    BY <1>5 DEF Told, Sound, UiScreens
  <2> HIDE DEF marked
  <2>2. (Visible(marked) <=> Visible(placed)) /\ (AtEnd(marked) <=> AtEnd(placed))
    BY <1>5, <2>1, Seen DEF Told, Sound
  <2>3. Told(marked) /\ (Visible(marked) \/ marked.pending)
    BY <1>5, <1>6, <2>1, <2>2 DEF Told, Sound, FullIsTall
  <2> DEFINE t == SyncPreview(marked)
  <2>4. /\ t \in UiScreens /\ FullIsTall(t) /\ (Visible(t) <=> Visible(marked))
        /\ AtEnd(t) => AtEnd(marked)
        /\ t.panel = marked.panel /\ t.pending = marked.pending /\ t.unread = marked.unread
    BY <2>3, SyncPreviewSeen DEF Told, Sound
  <2>5. OpenPanel(s, origin, tall) = t
    BY <1>6 DEF OpenPanel, marked, placed, opened, put, away
  <2> HIDE DEF t
  <2>6. Told(t) /\ t.panel = origin /\ (Visible(t) \/ t.pending)
    BY <1>5, <2>1, <2>3, <2>4 DEF Told, Sound
  <2> QED BY <2>5, <2>6
<1>7. CASE origin = "debug"
  <2>1. OpenPanel(s, origin, tall) = placed
    BY <1>7 DEF OpenPanel, placed, opened, put, away
  <2> QED BY <1>5, <1>7, <2>1
<1> QED BY <1>6, <1>7

LEMMA ClosePanelTells ==
  ASSUME NEW s, Told(s), NEW t \in ClosePanel(s)
  PROVE  Told(t) /\ t.panel = "none"
<1>1. CASE s.panel = "none"
  BY <1>1 DEF ClosePanel
<1>2. CASE s.panel # "none"
  <2> DEFINE closed == [s EXCEPT !.panel = "none", !.tall = FALSE, !.full = FALSE, !.pending = FALSE]
  <2>1. /\ closed \in UiScreens /\ closed.panel = "none" /\ ~closed.full /\ ~closed.pending
    BY DEF Told, Sound, UiScreens
  <2>2. PICK u \in OrRefreshed({closed}) : t = Stay(u)
    BY <1>2 DEF ClosePanel
  <2> HIDE DEF closed
  <2>3. Sound(closed)
    BY <2>1 DEF Sound, FullIsTall
  <2>4. Sound(u) /\ u.panel = "none"
    BY <2>1, <2>3, OrRefreshedKeeps DEF Told, PanelKept
  <2> QED BY <2>2, <2>4, StayKeeps DEF PanelKept
<1> QED BY <1>1, <1>2

LEMMA CloseRuntimePanelTells ==
  ASSUME NEW s, Told(s), NEW t \in CloseRuntimePanel(s)
  PROVE  Told(t) /\ t.panel # "runtime"
BY ClosePanelTells DEF CloseRuntimePanel

LEMMA OverTells ==
  ASSUME NEW s, Told(s), NEW t \in Over(s)
  PROVE  Told(t)
<1>1. PICK u \in OrRefreshed(CloseRuntimePanel(s)) : t = Finished(u)
  BY DEF Over
<1>2. Told(u)
  BY CloseRuntimePanelTells, OrRefreshedTells
<1> QED BY <1>1, <1>2, BusyIsNotTold DEF Finished

(* A layer more hides, it shows nothing. *)
LEMMA Covered ==
  ASSUME NEW s, Told(s), NEW layers \in SUBSET ModalLayers, layers = {} => s.layers = {}
  PROVE  LET t == [s EXCEPT !.layers = layers]
         IN  Told(t) /\ t.panel = s.panel /\ t.pending = s.pending
<1> DEFINE t == [s EXCEPT !.layers = layers]
<1>1. /\ t \in UiScreens /\ t.panel = s.panel /\ t.view = s.view /\ t.full = s.full
      /\ t.layers = layers /\ t.tall = s.tall /\ t.roomy = s.roomy
      /\ t.pending = s.pending /\ t.unread = s.unread
  BY DEF Told, Sound, UiScreens
<1> HIDE DEF t
<1>2. (Visible(t) => Visible(s)) /\ (AtEnd(t) => AtEnd(s))
  BY <1>1, Seen DEF Told, Sound
<1>3. Told(t)
  BY <1>1, <1>2 DEF Told, Sound, FullIsTall
<1> QED BY <1>1, <1>3 DEF t

PillStep ==
  /\ asked' /\ ~asked => Visible(screen') \/ screen'.pending
  /\ screen.pending /\ ~screen'.pending => Visible(screen') \/ ~asked'

ApprovalStep == ApprovalHeld' /\ (~StoreMayFail => PillStep)

(* A step after which nobody waits. *)
LEMMA NobodyWaits ==
  ASSUME ApprovalHeld, Told(screen)', ~asked', asked' \in BOOLEAN,
         turn' \in {"none", "running", "cancelling"}, loads' \in SUBSET Loads
  PROVE  ApprovalStep
BY DEF ApprovalStep, PillStep, ApprovalHeld, WaitingTurnHasItsPanel

(* A step that leaves the panel where it is, or finds none. *)
LEMMA PanelStays ==
  ASSUME ApprovalHeld, Told(screen)', asked' = asked, loads' \in SUBSET Loads,
         turn' \in {"none", "running", "cancelling"},
         \/ screen.panel = "none"
         \/ /\ turn' = turn /\ screen'.panel = screen.panel
            /\ screen.pending /\ ~screen'.pending => Visible(screen')
  PROVE  ApprovalStep
BY DEF ApprovalStep, PillStep, ApprovalHeld, WaitingTurnHasItsPanel, Told, Sound

LEMMA RuntimeEventsStep ==
  ASSUME ApprovalHeld, RuntimeEvents
  PROVE  ApprovalStep
<1>0. Told(screen) /\ Sound(screen) /\ screen \in UiScreens /\ asked \in BOOLEAN /\ loads \subseteq Loads
  BY DEF ApprovalHeld, Told, Sound
<1>1. CASE Request
  <2>1. PICK tall \in BOOLEAN, s \in OrRefreshed({screen}) : screen' = OpenPanel(s, "runtime", tall)
    BY <1>1 DEF Request
  <2>2. Told(s)
    BY <1>0, OrRefreshedTells
  <2>3. Told(screen') /\ screen'.panel = "runtime" /\ (Visible(screen') \/ screen'.pending)
    BY <2>1, <2>2, OpenPanelTells
  <2>4. /\ asked' = (turn = "running") /\ turn' = turn /\ loads' = loads
    BY <1>1 DEF Request
  <2> QED BY <2>3, <2>4 DEF ApprovalHeld, ApprovalStep, PillStep, WaitingTurnHasItsPanel
<1>2. CASE RequestLapses
  BY <1>0, <1>2, NobodyWaits DEF RequestLapses
<1>3. CASE Content
  <2>1. PICK s \in OrRefreshed({screen}), busy \in {screen.busy, TRUE} : screen' = [s EXCEPT !.busy = busy]
    BY <1>3 DEF Content
  <2>2. Told(s) /\ busy \in BOOLEAN
    BY <1>0, OrRefreshedTells DEF UiScreens
  <2>3. Told(screen')
    BY <2>1, <2>2, BusyIsNotTold
  <2> QED BY <1>0, <1>3, <2>3, NobodyWaits DEF Content, ApprovalHeld
<1>4. CASE Retrying
  <2>1. PICK s \in CloseRuntimePanel(screen) : screen' \in OrRefreshed({[s EXCEPT !.busy = TRUE]})
    BY <1>4 DEF Retrying
  <2> DEFINE u == [s EXCEPT !.busy = TRUE]
  <2>2. Told(u)
    BY <1>0, CloseRuntimePanelTells, BusyIsNotTold
  <2> HIDE DEF u
  <2>3. screen' \in OrRefreshed({u})
    BY <2>1 DEF u
  <2>4. Told(screen')
    BY <2>2, <2>3, OrRefreshedTells
  <2> QED BY <1>0, <1>4, <2>4, NobodyWaits DEF Retrying, ApprovalHeld
<1>5. CASE MessageFinished
  <2>1. PICK s \in Over(screen) : screen' = [s EXCEPT !.unread = s.unread \/ ~AtEnd(s)]
    BY <1>5 DEF MessageFinished
  <2>2. Told(s)
    BY <1>0, OverTells
  <2> DEFINE t == [s EXCEPT !.unread = s.unread \/ ~AtEnd(s)]
  <2>3. /\ t \in UiScreens /\ t.panel = s.panel /\ t.view = s.view /\ t.full = s.full
        /\ t.layers = s.layers /\ t.tall = s.tall /\ t.roomy = s.roomy /\ t.pending = s.pending
        /\ t.unread = (s.unread \/ ~AtEnd(s))
    BY <2>2 DEF Told, Sound, UiScreens
  <2> HIDE DEF t
  <2>4. (Visible(t) <=> Visible(s)) /\ (AtEnd(t) <=> AtEnd(s))
    BY <2>2, <2>3, Seen DEF Told, Sound
  <2>5. Told(t)
    BY <2>2, <2>3, <2>4 DEF Told, Sound, FullIsTall
  <2>6. Told(screen')
    BY <2>1, <2>5 DEF t
  <2> QED BY <1>0, <1>5, <2>6, NobodyWaits DEF MessageFinished, ApprovalHeld
<1>6. CASE TurnEnds
  <2>1. Told(screen')
    BY <1>0, <1>6, OverTells DEF TurnEnds
  <2> QED BY <1>0, <1>6, <2>1, NobodyWaits DEF TurnEnds
<1>7. CASE SessionResumed
  <2>1. PICK s \in CloseRuntimePanel(screen) :
          screen' = Place([s EXCEPT !.pending = FALSE, !.unread = FALSE, !.busy = FALSE,
                                    !.view = IF ByHand(s) THEN s.view ELSE "bottom"], "bottom")
    BY <1>7 DEF SessionResumed
  <2> DEFINE emptied == [s EXCEPT !.pending = FALSE, !.unread = FALSE, !.busy = FALSE,
                                  !.view = IF ByHand(s) THEN s.view ELSE "bottom"]
  <2>2. Told(s)
    BY <1>0, CloseRuntimePanelTells
  <2>3. /\ emptied \in UiScreens /\ emptied.panel = s.panel /\ emptied.full = s.full
        /\ emptied.tall = s.tall /\ emptied.roomy = s.roomy /\ ~emptied.pending
    BY <2>2 DEF Told, Sound, UiScreens, Views
  <2> HIDE DEF emptied
  <2>4. Sound(emptied)
    BY <2>2, <2>3 DEF Told, Sound, FullIsTall
  <2>5. screen' = Place(emptied, "bottom")
    BY <2>1 DEF emptied
  <2>6. Told(screen')
    BY <2>4, <2>5, PlaceKeeps
  <2> QED BY <1>0, <1>7, <2>6, NobodyWaits DEF SessionResumed
<1>8. ASSUME NEW load \in Loads, LayerLoaded(load) PROVE ApprovalStep
  <2> DEFINE layers == screen.layers \cup {IF load = "preview" THEN "preview" ELSE "picker"}
             t == [screen EXCEPT !.layers = layers]
  <2>1. layers \in SUBSET ModalLayers /\ screen.layers \subseteq layers
    BY <1>0 DEF UiScreens, ModalLayers
  <2> HIDE DEF layers
  <2>2. Told(t) /\ t.panel = screen.panel /\ t.pending = screen.pending
    BY <1>0, <2>1, Covered
  <2>3. screen' = t /\ turn' = turn /\ asked' = asked
    BY <1>8 DEF LayerLoaded, layers
  <2>4. loads' \in SUBSET Loads
    BY <1>0, <1>8 DEF LayerLoaded, Loads
  <2>7. Told(screen') /\ screen'.panel = screen.panel /\ screen'.pending = screen.pending
    BY <2>2, <2>3
  <2> QED BY <2>3, <2>4, <2>7, PanelStays DEF ApprovalHeld
<1>9. ASSUME NEW load \in Loads, NothingLoaded(load) PROVE ApprovalStep
  <2>1. UNCHANGED <<screen, turn, asked>> /\ loads' \subseteq Loads
    BY <1>0, <1>9 DEF NothingLoaded
  <2> QED BY <1>0, <2>1, PanelStays DEF ApprovalHeld
<1>10. ASSUME NEW load \in Loads, StoreFailed(load) PROVE ApprovalStep
  <2>1. Told(screen')
    BY <1>0, <1>10, OverTells DEF StoreFailed
  <2>2. turn' = turn /\ asked' = asked /\ loads' \in SUBSET Loads /\ (StoreMayFail \/ ~asked)
    BY <1>0, <1>10 DEF StoreFailed
  <2>3. CASE StoreMayFail
    BY <2>1, <2>2, <2>3 DEF ApprovalStep, ApprovalHeld
  <2>4. CASE ~asked
    BY <2>1, <2>2, <2>4, NobodyWaits DEF ApprovalHeld
  <2> QED BY <2>2, <2>3, <2>4
<1> QED BY <1>1, <1>2, <1>3, <1>4, <1>5, <1>6, <1>7, <1>8, <1>9, <1>10 DEF RuntimeEvents

LEMMA CommandedTells ==
  ASSUME NEW s, Told(s), NEW t \in Commanded(s)
  PROVE  Told(t) /\ t.panel = s.panel
<1>1. t = s \/ t = Place(s, Home(s))
  BY DEF Commanded
<1>2. Sound(s)
  BY DEF Told
<1>3. Told(Place(s, Home(s))) /\ PanelKept(s, Place(s, Home(s)))
  BY <1>2, PlaceKeeps
<1> QED BY <1>1, <1>3 DEF PanelKept

LEMMA ScrolledTells ==
  ASSUME NEW s, Told(s), NEW t \in Scrolled(s) \cup {Place(s, "composer")}
  PROVE  /\ Told(t) /\ t.panel = s.panel
         /\ s.pending /\ ~t.pending => Visible(t)
<1>1. PICK view \in Views : t = Place(s, view)
  BY ViewsAreViews DEF Scrolled, Views, Told, Sound
<1> QED BY <1>1, PlaceTells DEF Told

LEMMA ResizeTells ==
  ASSUME NEW s, Told(s), NEW roomy \in BOOLEAN,
         NEW t \in Settled(SyncPreview([s EXCEPT !.roomy = roomy]))
  PROVE  /\ Told(t) /\ t.panel = s.panel
         /\ s.pending /\ ~t.pending => Visible(t)
<1> DEFINE u == [s EXCEPT !.roomy = roomy]
           synced == SyncPreview(u)
<1>1. u \in UiScreens /\ u.panel = s.panel /\ u.pending = s.pending
  BY DEF Told, Sound, UiScreens
<1> HIDE DEF u
<1>2. Sound(synced) /\ synced.panel = s.panel /\ synced.pending = s.pending
  BY <1>1, SyncPreviewSeen DEF Told, Sound
<1>3. t = Stay(synced) \/ t = Place(synced, Home(synced))
  BY DEF Settled, u
<1> HIDE DEF synced
<1>4. Told(t) /\ PanelKept(synced, t)
  BY <1>2, <1>3, StayKeeps, PlaceKeeps
<1> QED BY <1>2, <1>4 DEF PanelKept

LEMMA ClickApprovalTells ==
  ASSUME ApprovalHeld, ClickApproval
  PROVE  Told(screen') /\ screen'.panel = screen.panel /\ Visible(screen')
<1>0. Told(screen) /\ Sound(screen) /\ screen.pending /\ screen.panel = "runtime" /\ ~screen.full
  BY Seen DEF ApprovalHeld, Told, Sound, ClickApproval
<1>1. PICK s \in Uncovered(screen) : screen' = [SyncPreview(Place(s, "bottom")) EXCEPT !.pending = FALSE]
  BY DEF ClickApproval
<1> DEFINE placed == Place(s, "bottom")
           synced == SyncPreview(placed)
           t == [synced EXCEPT !.pending = FALSE]
<1>2. Sound(s) /\ s.panel = "runtime" /\ s.layers = {}
  BY <1>0, UncoveredKeeps DEF PanelKept
<1>3. Told(placed) /\ placed.panel = "runtime" /\ placed.layers = {} /\ placed.view = "bottom"
  BY <1>2, PlaceTells DEF Views
<1>4. Visible(placed)
  BY <1>3, Seen DEF Told, Sound
<1> HIDE DEF placed
<1>5. /\ Sound(synced) /\ synced.panel = "runtime" /\ Visible(synced)
      /\ synced.unread => ~AtEnd(synced)
  BY <1>3, <1>4, SyncPreviewSeen DEF Told, Sound
<1> HIDE DEF synced
<1>6. /\ t \in UiScreens /\ t.panel = synced.panel /\ t.view = synced.view /\ t.full = synced.full
      /\ t.layers = synced.layers /\ t.tall = synced.tall /\ t.roomy = synced.roomy
      /\ ~t.pending /\ t.unread = synced.unread
  BY <1>5 DEF Sound, UiScreens
<1> HIDE DEF t
<1>7. (Visible(t) <=> Visible(synced)) /\ (AtEnd(t) <=> AtEnd(synced))
  BY <1>5, <1>6, Seen DEF Sound
<1>8. screen' = t
  BY <1>1 DEF t, synced, placed
<1> QED BY <1>0, <1>5, <1>6, <1>7, <1>8 DEF Told, Sound, FullIsTall

LEMMA ClickMessagesTells ==
  ASSUME ApprovalHeld, ClickMessages
  PROVE  /\ Told(screen') /\ screen'.panel = screen.panel
         /\ screen.pending /\ ~screen'.pending => Visible(screen')
<1>0. Told(screen) /\ Sound(screen)
  BY DEF ApprovalHeld, Told
<1>1. PICK s \in Uncovered(screen) :
        screen' = SyncPill([Place(SyncPreview(s), "bottom") EXCEPT !.unread = FALSE])
  BY DEF ClickMessages
<1> DEFINE synced == SyncPreview(s)
           placed == Place(synced, "bottom")
           cleared == [placed EXCEPT !.unread = FALSE]
           t == SyncPill(cleared)
<1>2. Sound(s) /\ PanelKept(screen, s)
  BY <1>0, UncoveredKeeps
<1>3. Sound(synced) /\ PanelKept(s, synced)
  BY <1>2, SyncPreviewSeen DEF Sound, PanelKept
<1> HIDE DEF synced
<1>4. Told(placed) /\ PanelKept(synced, placed)
  BY <1>3, PlaceKeeps
<1> HIDE DEF placed
<1>5. /\ cleared \in UiScreens /\ cleared.panel = placed.panel /\ cleared.view = placed.view
      /\ cleared.full = placed.full /\ cleared.layers = placed.layers /\ cleared.tall = placed.tall
      /\ cleared.roomy = placed.roomy /\ cleared.pending = placed.pending /\ ~cleared.unread
  BY <1>4 DEF Told, Sound, UiScreens
<1> HIDE DEF cleared
<1>6. /\ t \in UiScreens /\ t.panel = placed.panel /\ t.view = placed.view
      /\ t.full = placed.full /\ t.layers = placed.layers /\ t.tall = placed.tall
      /\ t.roomy = placed.roomy /\ ~t.unread
      /\ t.pending = (placed.pending /\ placed.panel # "none" /\ ~Visible(cleared))
  BY <1>5 DEF SyncPill, UiScreens
<1> HIDE DEF t
<1>7. (Visible(t) <=> Visible(placed)) /\ (Visible(cleared) <=> Visible(placed))
  BY <1>4, <1>5, <1>6, Seen DEF Told, Sound
<1>8. Told(t)
  BY <1>4, <1>6, <1>7 DEF Told, Sound, FullIsTall
<1>9. PanelKept(placed, t)
  BY <1>4, <1>6, <1>7 DEF PanelKept, Told, Sound
<1>10. PanelKept(screen, t)
  BY <1>2, <1>3, <1>4, <1>9, KeptIsTransitive
<1>11. screen' = t
  BY <1>1 DEF t, cleared, placed, synced
<1> QED BY <1>8, <1>10, <1>11 DEF PanelKept

LEMMA UserActsStep ==
  ASSUME ApprovalHeld, UserActs
  PROVE  ApprovalStep
<1>0. /\ Told(screen) /\ Sound(screen) /\ screen \in UiScreens /\ asked \in BOOLEAN
      /\ turn \in {"none", "running", "cancelling"} /\ loads \in SUBSET Loads
  BY DEF ApprovalHeld, Told, Sound
<1>1. ASSUME NEW cover \in ModalLayers, OpenLayer(cover) PROVE ApprovalStep
  <2>1. PICK s \in Commanded(screen) : screen' = [s EXCEPT !.layers = s.layers \cup {cover}]
    BY <1>1 DEF OpenLayer
  <2>2. Told(s)
    BY <1>0, CommandedTells
  <2>3. s.layers \cup {cover} \in SUBSET ModalLayers
    BY <2>2 DEF Told, Sound, UiScreens
  <2>4. Told(screen')
    BY <2>1, <2>2, <2>3, Covered
  <2>5. asked' = asked /\ turn' = turn /\ loads' \in SUBSET Loads /\ screen.panel = "none"
    BY <1>0, <1>1 DEF OpenLayer, MainKeys, Loads
  <2> QED BY <1>0, <2>4, <2>5, PanelStays
<1>2. CASE OpenTranscriptOverModels
  <2>1. Told(CloseInline(screen))
    BY <1>0, CloseInlineTells
  <2>2. Told(screen')
    BY <1>2, <2>1, Covered DEF OpenTranscriptOverModels, ModalLayers
  <2> QED BY <1>0, <1>2, <2>2, PanelStays DEF OpenTranscriptOverModels, OnlyScreen
<1>3. ASSUME NEW panel \in {"model", "budget"}, OpenInline(panel) PROVE ApprovalStep
  <2>1. PICK s \in Commanded(screen) : screen' = FollowCursor([s EXCEPT !.inline = panel])
    BY <1>3 DEF OpenInline
  <2> DEFINE u == [s EXCEPT !.inline = panel]
  <2>2. Told(s)
    BY <1>0, CommandedTells
  <2>3. /\ u \in UiScreens /\ u.panel = s.panel /\ u.full = s.full /\ u.tall = s.tall
        /\ u.roomy = s.roomy /\ u.pending = s.pending
    BY <2>2 DEF Told, Sound, UiScreens
  <2>4. screen' = FollowCursor(u)
    BY <2>1
  <2> HIDE DEF u
  <2>5. Sound(u)
    BY <2>2, <2>3 DEF Told, Sound, FullIsTall
  <2>6. Told(screen')
    BY <2>4, <2>5, FollowCursorTells
  <2> QED BY <1>0, <1>3, <2>6, PanelStays DEF OpenInline, MainKeys, OnlyScreen
<1>4. CASE LeaveInline
  <2>1. Told(screen')
    BY <1>0, <1>4, CloseInlineTells DEF LeaveInline
  <2> QED BY <1>0, <1>4, <2>1, PanelStays DEF LeaveInline, OnlyScreen
<1>5. CASE OpenDebugPanel
  <2>1. PICK s \in Commanded(screen), tall \in BOOLEAN : screen' = OpenPanel(s, "debug", tall)
    BY <1>5 DEF OpenDebugPanel
  <2>2. Told(s) /\ s.panel = "none"
    BY <1>0, <1>5, CommandedTells DEF OpenDebugPanel, MainKeys
  <2>3. Told(screen')
    BY <2>1, <2>2, OpenPanelTells
  <2> QED BY <1>0, <1>5, <2>3, PanelStays DEF OpenDebugPanel, MainKeys, OnlyScreen
<1>6. CASE Compose \/ Scroll
  <2>1. screen' \in Scrolled(screen) \cup {Place(screen, "composer")} /\ UNCHANGED <<turn, asked, loads>>
    BY <1>6 DEF Compose, Scroll, OnlyScreen
  <2>2. /\ Told(screen') /\ screen'.panel = screen.panel
        /\ screen.pending /\ ~screen'.pending => Visible(screen')
    BY <1>0, <2>1, ScrolledTells
  <2> QED BY <1>0, <2>1, <2>2, PanelStays
<1>7. CASE ClearInput
  <2>1. Told(screen') /\ PanelKept(screen, screen')
    BY <1>0, <1>7, PlaceKeeps DEF ClearInput
  <2> QED BY <1>0, <1>7, <2>1, PanelStays DEF ClearInput, OnlyScreen, PanelKept
<1>8. CASE Send
  <2>1. Told(Place(screen, "bottom")) /\ (turn = "none") \in BOOLEAN
    BY <1>0, PlaceKeeps
  <2>2. Told(screen')
    BY <1>8, <2>1, BusyIsNotTold DEF Send
  <2>3. /\ asked' = asked /\ loads' = loads /\ screen.panel = "none"
        /\ turn' \in {"none", "running", "cancelling"}
    BY <1>0, <1>8 DEF Send, MainKeys
  <2> QED BY <1>0, <2>2, <2>3, PanelStays
<1>9. CASE Interrupt
  <2>1. PICK s \in OrRefreshed({screen}) : screen' = Finished(s)
    BY <1>9 DEF Interrupt
  <2>2. Told(screen')
    BY <1>0, <2>1, OrRefreshedTells, BusyIsNotTold DEF Finished
  <2> QED BY <1>0, <1>9, <2>2, NobodyWaits DEF Interrupt
<1>10. CASE Clear
  <2> DEFINE t == [screen EXCEPT !.view = "bottom", !.unread = FALSE, !.pending = FALSE, !.busy = FALSE]
  <2>1. /\ t \in UiScreens /\ t.panel = screen.panel /\ t.full = screen.full /\ t.tall = screen.tall
        /\ t.roomy = screen.roomy /\ ~t.pending /\ ~t.unread
    BY <1>0 DEF UiScreens, Views
  <2>2. screen' = t
    BY <1>10 DEF Clear
  <2> HIDE DEF t
  <2>3. Told(t)
    BY <1>0, <2>1 DEF Told, Sound, FullIsTall
  <2> QED BY <1>0, <1>10, <2>2, <2>3, NobodyWaits DEF Clear
<1>11. CASE LeaveLayer
  <2>1. PICK s \in Without(screen, Top(screen)) : screen' = LayerClosed(s, Top(screen))
    BY <1>11 DEF LeaveLayer
  <2>2. /\ Sound(s) /\ PanelKept(screen, s)
        /\ Told(s) \/ s = [screen EXCEPT !.layers = screen.layers \ {Top(screen)}]
    BY <1>0, WithoutKeeps
  <2>3. s = [screen EXCEPT !.layers = screen.layers \ {Top(screen)}] => Top(screen) \notin s.layers
    BY <1>0, Unlayered
  <2>4. Top(s) # Top(screen) \/ Told(s)
    BY <1>11, <2>2, <2>3, TopIsThere DEF LeaveLayer, Sound
  <2>5. Told(screen') /\ PanelKept(s, screen')
    BY <2>1, <2>2, <2>4, LayerClosedTells
  <2>6. PanelKept(screen, screen')
    BY <2>2, <2>5, KeptIsTransitive
  <2> QED BY <1>0, <1>11, <2>5, <2>6, PanelStays DEF LeaveLayer, OnlyScreen, PanelKept
<1>12. CASE PreviewSession
  <2>1. UNCHANGED <<screen, turn, asked>> /\ loads' \in SUBSET Loads
    BY <1>0, <1>12 DEF PreviewSession, Loads
  <2> QED BY <1>0, <2>1, PanelStays
<1>13. CASE ResumeSession
  <2> DEFINE closed == [screen EXCEPT !.layers = screen.layers \ {"picker", "preview"}]
  <2>1. Sound(closed) /\ PanelKept(screen, closed) /\ closed.layers = screen.layers \ {"picker", "preview"}
    BY <1>0, Unlayered
  <2>2. screen' = LayerClosed(closed, Top(screen)) /\ Top(screen) \in {"picker", "preview"}
    BY <1>13 DEF ResumeSession
  <2> HIDE DEF closed
  <2>3. Top(closed) # Top(screen)
    BY <2>1, <2>2, TopIsThere DEF Sound, ModalLayers
  <2>4. Told(screen') /\ PanelKept(closed, screen')
    BY <2>1, <2>2, <2>3, LayerClosedTells
  <2>5. PanelKept(screen, screen')
    BY <2>1, <2>4, KeptIsTransitive
  <2>6. asked' = asked /\ turn' = turn /\ loads' \in SUBSET Loads
    BY <1>0, <1>13 DEF ResumeSession, Loads
  <2> QED BY <1>0, <2>4, <2>5, <2>6, PanelStays DEF PanelKept
<1>14. CASE Recall
  <2> DEFINE closed == [screen EXCEPT !.layers = screen.layers \ {"list"}]
  <2>1. Sound(closed) /\ PanelKept(screen, closed) /\ closed.layers = screen.layers \ {"list"}
    BY <1>0, Unlayered
  <2>2. PICK s \in {closed, Place(closed, Home(closed)), Place(closed, "bottom")} :
          screen' = LayerClosed(s, "list")
    BY <1>14 DEF Recall
  <2> HIDE DEF closed
  <2>3. s = closed \/ (Told(s) /\ PanelKept(closed, s))
    BY <2>1, <2>2, PlaceKeeps
  <2>4. Top(closed) # "list"
    BY <2>1, TopIsThere DEF Sound, ModalLayers
  <2>5. Sound(s) /\ PanelKept(screen, s) /\ (Top(s) # "list" \/ Told(s))
    BY <2>1, <2>3, <2>4, KeptIsTransitive DEF Told
  <2>6. Told(screen') /\ PanelKept(s, screen')
    BY <2>2, <2>5, LayerClosedTells
  <2>7. PanelKept(screen, screen')
    BY <2>5, <2>6, KeptIsTransitive
  <2>8. asked' = asked /\ turn' = turn /\ loads' \in SUBSET Loads
    BY <1>0, <1>14 DEF Recall, Resumes, Loads
  <2> QED BY <1>0, <2>6, <2>7, <2>8, PanelStays DEF PanelKept
<1>15. CASE Revisit
  <2> DEFINE uncovered == [screen EXCEPT !.layers = screen.layers \ {"transcript"}]
             closed == [screen EXCEPT !.layers = screen.layers \ {"transcript"}, !.view = "bottom"]
  <2>1. Sound(uncovered) /\ PanelKept(screen, uncovered)
    BY <1>0, Unlayered
  <2>2. closed = [uncovered EXCEPT !.view = "bottom"]
    BY <1>0 DEF UiScreens
  <2> HIDE DEF uncovered
  <2>3. /\ closed \in UiScreens /\ closed.panel = uncovered.panel /\ closed.full = uncovered.full
        /\ closed.layers = uncovered.layers /\ closed.view = "bottom" /\ closed.tall = uncovered.tall
        /\ closed.roomy = uncovered.roomy /\ closed.pending = uncovered.pending
    BY <2>1, <2>2 DEF Sound, UiScreens, Views
  <2>4. screen' = LayerClosed(Place(closed, "bottom"), "transcript")
    BY <1>15 DEF Revisit
  <2> HIDE DEF closed
  <2>5. Sound(closed) /\ (Visible(uncovered) => Visible(closed))
    BY <2>1, <2>3, Seen DEF Sound, FullIsTall
  <2>6. PanelKept(screen, closed)
    BY <2>1, <2>3, <2>5 DEF PanelKept
  <2> DEFINE placed == Place(closed, "bottom")
  <2>7. Told(placed) /\ PanelKept(closed, placed)
    BY <2>5, PlaceKeeps
  <2> HIDE DEF placed
  <2>8. Told(screen') /\ PanelKept(placed, screen')
    BY <2>4, <2>7, LayerClosedTells DEF Told, placed
  <2>9. PanelKept(screen, screen')
    BY <2>6, <2>7, <2>8, KeptIsTransitive
  <2>10. asked' = asked /\ turn' = turn /\ loads' \in SUBSET Loads
    BY <1>0, <1>15 DEF Revisit, Loads
  <2> QED BY <1>0, <2>8, <2>9, <2>10, PanelStays DEF PanelKept
<1>16. CASE AnswerPanel
  <2>1. PICK s \in (IF screen.panel = "debug" THEN OrRefreshed(ClosePanel(screen))
                    ELSE ClosePanel(screen)) :
          screen' = IF screen.full THEN LayerClosed(s, "approval") ELSE s
    BY <1>16 DEF AnswerPanel
  <2>2. Told(s)
    BY <1>0, <2>1, ClosePanelTells, OrRefreshedTells
  <2>3. Told(screen')
    BY <2>1, <2>2, LayerClosedTells DEF Told
  <2>4. turn' = turn /\ loads' = loads /\ asked' = (asked /\ screen.panel # "runtime")
    BY <1>16 DEF AnswerPanel
  <2>5. CASE ~asked'
    BY <1>0, <2>3, <2>4, <2>5, NobodyWaits
  <2>6. CASE asked'
    <3>1. asked /\ screen.panel # "runtime" /\ StoreMayFail /\ asked' \in BOOLEAN
      BY <1>0, <2>4, <2>6 DEF ApprovalHeld, WaitingTurnHasItsPanel
    <3> QED BY <1>0, <2>3, <2>4, <3>1 DEF ApprovalStep, ApprovalHeld
  <2> QED BY <2>5, <2>6
<1>17. CASE ClickApproval
  BY <1>0, <1>17, ClickApprovalTells, PanelStays DEF ClickApproval, OnlyScreen
<1>18. CASE ClickMessages
  BY <1>0, <1>18, ClickMessagesTells, PanelStays DEF ClickMessages, OnlyScreen
<1>19. CASE Resize
  <2>1. PICK roomy \in BOOLEAN : screen' \in Settled(SyncPreview([screen EXCEPT !.roomy = roomy]))
    BY <1>19 DEF Resize
  <2>2. /\ Told(screen') /\ screen'.panel = screen.panel
        /\ screen.pending /\ ~screen'.pending => Visible(screen')
    BY <1>0, <2>1, ResizeTells
  <2> QED BY <1>0, <1>19, <2>2, PanelStays DEF Resize, OnlyScreen
<1> QED BY <1>1, <1>2, <1>3, <1>4, <1>5, <1>6, <1>7, <1>8, <1>9, <1>10, <1>11, <1>12,
           <1>13, <1>14, <1>15, <1>16, <1>17, <1>18, <1>19 DEF UserActs

LEMMA StutterStep ==
  ASSUME ApprovalHeld, UNCHANGED approvalVars
  PROVE  ApprovalStep
BY PanelStays DEF approvalVars, ApprovalHeld

LEMMA ApprovalStarts == ApprovalInit => ApprovalHeld
<1> SUFFICES ASSUME ApprovalInit PROVE ApprovalHeld
  OBVIOUS
<1>1. /\ screen \in UiScreens /\ ~screen.full /\ ~screen.pending /\ ~screen.unread
  BY DEF ApprovalInit, UiScreens, Views
<1>2. Told(screen)
  BY <1>1 DEF Told, Sound, FullIsTall
<1> QED BY <1>2 DEF ApprovalInit, ApprovalHeld, WaitingTurnHasItsPanel

LEMMA HeldIsTold ==
  ASSUME ApprovalHeld
  PROVE  /\ ApprovalTypeOK /\ PillIsTrue
         /\ ~StoreMayFail => ApprovalsAreTold
<1>1. ApprovalTypeOK
  BY DEF ApprovalHeld, Told, Sound, FullIsTall, UiScreens, ApprovalTypeOK
<1> QED BY <1>1 DEF ApprovalHeld, Told, Sound, PillIsTrue, ApprovalsAreTold

(* Neither pill claims what is not there or is in view already, whichever   *)
(* layers and whatever scrolling it has lived through, and even where a load*)
(* of the session store fails while a turn waits (attention_pill/state.rs). *)
THEOREM PillsAreTrue == ApprovalSpec => [](ApprovalTypeOK /\ PillIsTrue)
<1>1. ApprovalHeld /\ [ApprovalNext]_approvalVars => ApprovalHeld'
  BY RuntimeEventsStep, UserActsStep, StutterStep DEF ApprovalNext, ApprovalStep
<1>2. ApprovalHeld => ApprovalTypeOK /\ PillIsTrue
  BY HeldIsTold
<1> QED BY <1>1, <1>2, ApprovalStarts, PTL DEF ApprovalSpec

(* As long as no load fails while a turn waits, which is a finding of its    *)
(* own, a turn that waits has its panel on the screen or under it, and the  *)
(* pills are true (tool_approval_panel/mod.rs, attention_pill/state.rs).    *)
THEOREM RequestsReachTheUser ==
  ASSUME ~StoreMayFail
  PROVE  ApprovalSpec => []ApprovalsAreTold
<1>1. ApprovalHeld /\ [ApprovalNext]_approvalVars => ApprovalHeld'
  BY RuntimeEventsStep, UserActsStep, StutterStep DEF ApprovalNext, ApprovalStep
<1>2. ApprovalHeld => ApprovalsAreTold
  BY HeldIsTold
<1> QED BY <1>1, <1>2, ApprovalStarts, PTL DEF ApprovalSpec

(* Under the same assumption a request is seen or has its pill from the step *)
(* that brings it, and no step takes the pill away but one that shows the   *)
(* panel or ends the wait.                                                  *)
THEOREM RequestsAreFollowed ==
  ASSUME ~StoreMayFail
  PROVE  ApprovalSpec => PillFollowsTheRequest
<1>1. ApprovalHeld /\ [ApprovalNext]_approvalVars => ApprovalHeld'
  BY RuntimeEventsStep, UserActsStep, StutterStep DEF ApprovalNext, ApprovalStep
<1>2. ApprovalHeld /\ [ApprovalNext]_approvalVars =>
        [PillStep]_approvalVars
  BY RuntimeEventsStep, UserActsStep DEF ApprovalNext, ApprovalStep
<1> QED BY <1>1, <1>2, ApprovalStarts, PTL DEF ApprovalSpec, PillFollowsTheRequest, PillStep
=============================================================================
