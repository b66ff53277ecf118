----------------------------- MODULE Coordinator -----------------------------
(* AppRuntimeCoordinator of the terminal-app crate: the UI thread's commands *)
(* over three threads that answer later.                                    *)
(*                                                                          *)
(*   - the session store worker takes resume, branch, rewind, leaf and list *)
(*     commands in order and answers with events; a conversation it restored *)
(*     replaces the current one when its event is drained;                  *)
(*   - the dynamic environment worker observes the workspace for a turn that *)
(*     is being prepared, which starts when the observation is drained;     *)
(*   - the conversation worker of a turn writes the session and reports the *)
(*     entries it wrote.  ConversationTurn models it in detail; here a turn *)
(*     writes its message, its answer and the transcript line of each.      *)
(*                                                                          *)
(* The three drains of one drain_runtime_events call are separate actions:  *)
(* a command between two of them is a payload that arrived after the call.  *)
EXTENDS FiniteSets, SequencesExt, SequenceFilters

CONSTANTS
  MaxTurns,      \* bound: turns submitted in one behaviour
  MaxCommands,   \* bound: Reset and commands for the session store worker
  MaxFailures,   \* bound: store calls of the session store worker that fail
  MaxPanics,     \* bound: session store workers that die (there is only one)
  Kinds,         \* the session commands the user gives in this behaviour
  Users          \* the users there are: some let every thread finish first

AllKinds == {"list", "resume", "switch", "rewind", "truncate"}

ASSUME BoundsAssumption ==
  /\ {MaxTurns, MaxCommands, MaxFailures, MaxPanics} \subseteq Nat
  /\ Kinds \subseteq AllKinds
  /\ Users \subseteq {"waits", "hurries"}

Turns == 1..MaxTurns
None  == -1           \* no turn, no session, no request

(* A session is named by the turn that created it; session 0 was stored by  *)
(* an earlier run of the program.                                           *)
Sessions == 0..MaxTurns

(* The tree of a session.  An entry never changes and never moves, so it is *)
(* named by its path from the header, which is <<>>.  A turn appends four:  *)
(* an item and the transcript line that replays it, twice.                  *)
Steps == <<"user", "userLine", "answer", "answerLine">>
Entry(t, step) == [turn |-> t, kind |-> Steps[step]]
Entries == [turn : Sessions, kind : {Steps[i] : i \in 1..4}]
Items == {"user", "answer"}
IsItem(path) == path # <<>> /\ Last(path).kind \in Items

(* load_session: the items on the path to a leaf, each with its entry.      *)
Ancestors(path) == [i \in 1..Len(path) |-> SubSeq(path, 1, i)]
HistoryOf(path) == Select(Ancestors(path), {p \in Seq(Entries) : IsItem(p)})

OldPath == [step \in 1..4 |-> Entry(0, step)]

VARIABLES
  conv,       \* provider_conversation: its session and persisted_history
  active,     \* the turn whose receiver conversation_worker holds, or None
  inbox,      \* what that receiver has yet to read
  preparing,  \* pending_conversation_turn
  env,        \* DynamicEnvironmentWorker: its generations, tasks and results
  written,    \* how many entries each turn wrote
  item,       \* the last item among them
  phase,      \* whether a turn's worker thread lives
  home,       \* the session a turn was prepared for
  tree,       \* the store: the entries of each session
  leaf,       \* and the leaf its next entry goes under
  worker,     \* SessionStoreWorker: queue, command in progress, events, counters
  spent,      \* commands and failures so far
  user        \* who gives the commands of this behaviour

(* History of the behaviour, read by the properties only.                   *)
VARIABLES era,        \* how many times provider_conversation was replaced
          born,       \* the era a turn was started in
          unsaved     \* a truncation whose set_leaf failed

convVars  == <<conv, era>>
turnVars  == <<written, item, phase, home>>
storeVars == <<tree, leaf>>
vars == <<convVars, active, inbox, preparing, env, turnVars, storeVars, worker, spent, born,
          unsaved, user>>

Fresh == [session |-> None, history |-> <<>>]

Init ==
  /\ conv = Fresh /\ era = 0
  /\ active = None /\ inbox = <<>> /\ preparing = None
  /\ env = [generation |-> 0, active |-> None, tasks |-> <<>>, results |-> <<>>]
  /\ written = [t \in Turns |-> 0] /\ item = [t \in Turns |-> <<>>]
  /\ phase = [t \in Turns |-> "new"] /\ home = [t \in Turns |-> None]
  /\ tree = [s \in Sessions |-> IF s = 0 THEN {SubSeq(OldPath, 1, i) : i \in 0..4} ELSE {}]
  /\ leaf = [s \in Sessions |-> IF s = 0 THEN OldPath ELSE <<>>]
  /\ worker = [queue |-> <<>>, job |-> <<>>, events |-> <<>>, commands |-> 0, mutations |-> 0,
               alive |-> TRUE]
  /\ spent = [commands |-> 0, failures |-> 0]
  /\ born = [t \in Turns |-> None] /\ unsaved = FALSE
  /\ user \in Users

-----------------------------------------------------------------------------
(* The session store worker, as the UI thread sees it.                      *)

(* Commands that change the session or the conversation.                    *)
Mutations == {"resume", "switch", "rewind", "setLeaf"}
Command(kind, s, path) == [kind |-> kind, session |-> s, path |-> path, loaded |-> FALSE,
                           history |-> <<>>]

(* A user who waits gives a command when nothing is under way.              *)
Quiet ==
  /\ worker.queue \o worker.job = <<>> /\ worker.events = <<>>
  /\ preparing = None /\ \A t \in Turns : phase[t] # "live"
MayCommand == user = "waits" => Quiet

SpendCommand ==
  spent.commands < MaxCommands /\ spent' = [spent EXCEPT !.commands = @ + 1]

(* send_command, which counts what it could send.                           *)
SendCommand(command) ==
  /\ SpendCommand
  /\ worker' = IF ~worker.alive THEN worker
               ELSE [worker EXCEPT !.queue = Append(@, command), !.commands = @ + 1,
                                   !.mutations = IF command.kind \in Mutations THEN @ + 1 ELSE @]

CommandUnchanged == UNCHANGED <<active, inbox, preparing, env, turnVars, storeVars, born>>

(* A mutation is refused while a turn runs or the counter says that another *)
(* one does.                                                                *)
MutationAllowed == active = None /\ worker.mutations = 0

ListSessions ==
  /\ "list" \in Kinds /\ MayCommand
  /\ SendCommand(Command("list", None, <<>>))
  /\ CommandUnchanged /\ UNCHANGED <<convVars, unsaved>>

(* The picker shows every session of the project but the active one.        *)
ResumeSession(s) ==
  /\ "resume" \in Kinds /\ MayCommand /\ MutationAllowed
  /\ tree[s] # {} /\ s # conv.session
  /\ SendCommand(Command("resume", s, <<>>))
  /\ CommandUnchanged /\ UNCHANGED <<convVars, unsaved>>

(* A branch is named by its newest entry when the picker was loaded; more   *)
(* may have been written below it since.                                    *)
SwitchBranch ==
  /\ "switch" \in Kinds /\ MayCommand /\ MutationAllowed
  /\ conv.session # None
  /\ \E p \in tree[conv.session] \ {<<>>} : SendCommand(Command("switch", conv.session, p))
  /\ CommandUnchanged /\ UNCHANGED <<convVars, unsaved>>

(* The picker may show rows that have left the path since it was loaded.    *)
SelectEntryRewind ==
  /\ "rewind" \in Kinds /\ MayCommand /\ MutationAllowed
  /\ conv.session # None
  /\ \E p \in {q \in tree[conv.session] : IsItem(q)} :
       SendCommand(Command("rewind", conv.session, p))
  /\ CommandUnchanged /\ UNCHANGED <<convVars, unsaved>>

(* truncate_after_user_turns keeps the turns before a message at once; the  *)
(* leaf, which is the entry of the last item kept, follows in the worker.    *)
(* The picker counts messages of the transcript: there may be more of them   *)
(* than the history has, and then nothing is cut.                            *)
UserPositions == {i \in 1..Len(conv.history) : Last(conv.history[i]).kind = "user"}
LastEntry(kept) == IF kept = <<>> THEN <<>> ELSE Last(kept)

TruncateConversation(i) ==
  /\ "truncate" \in Kinds /\ MayCommand /\ MutationAllowed
  /\ i \in UserPositions \cup {Len(conv.history) + 1} /\ conv.session # None
  /\ LET kept == SubSeq(conv.history, 1, i - 1)
     IN  /\ conv' = [conv EXCEPT !.history = kept]
         /\ SendCommand(Command("setLeaf", conv.session, LastEntry(kept)))
  /\ unsaved' = (unsaved \/ ~worker.alive)
  /\ CommandUnchanged /\ UNCHANGED era

-----------------------------------------------------------------------------
(* Turns, as the UI thread sees them.                                       *)

(* ConversationWorker::start with what the conversation is now.             *)
StartTurn(t) ==
  /\ active' = t /\ inbox' = <<>>
  /\ phase' = [phase EXCEPT ![t] = "live"]
  /\ home'  = [home EXCEPT ![t] = conv.session]
  /\ born'  = [born EXCEPT ![t] = era]
  /\ UNCHANGED <<written, item>>

(* start_conversation_turn, which observes the workspace first when the     *)
(* session's configuration asks for it.                                     *)
SubmitAllowed(t) ==
  /\ MayCommand /\ active = None /\ preparing = None
  /\ phase[t] = "new" /\ \A u \in 1..(t - 1) : phase[u] # "new"

SubmitTurn(t) ==
  /\ SubmitAllowed(t)
  /\ StartTurn(t)
  /\ UNCHANGED <<convVars, preparing, env, storeVars, worker, spent, unsaved>>

PrepareTurn(t) ==
  /\ SubmitAllowed(t) /\ env.active = None
  /\ preparing' = t
  /\ phase' = [phase EXCEPT ![t] = "waiting"]
  /\ LET generation == env.generation + 1
     IN  env' = [env EXCEPT !.generation = generation, !.active = generation,
                            !.tasks = Append(@, [generation |-> generation, turn |-> t])]
  /\ UNCHANGED <<convVars, active, inbox, written, item, home, storeVars, worker, spent,
                 born, unsaved>>

(* DynamicEnvironmentWorker::cancel_pending.                                *)
CancelPending == env' = [env EXCEPT !.generation = @ + 1, !.active = None, !.results = <<>>]
Forgotten == IF preparing = None THEN phase ELSE [phase EXCEPT ![preparing] = "over"]

InterruptPreparing ==
  /\ preparing # None
  /\ CancelPending /\ preparing' = None /\ phase' = Forgotten
  /\ UNCHANGED <<convVars, active, inbox, written, item, home, storeVars, worker, spent,
                 born, unsaved>>

(* reset_after_clear: the turn is forgotten with its receiver.  Its thread is *)
(* cancelled, which it may notice at any time, or never: it goes on writing.  *)
ForgetWorker == active' = None /\ inbox' = <<>>

(* RuntimeCommand::Reset.                                                   *)
Reset ==
  /\ MayCommand /\ SpendCommand
  /\ CancelPending /\ preparing' = None /\ phase' = Forgotten
  /\ ForgetWorker
  /\ conv' = Fresh /\ era' = era + 1 /\ unsaved' = FALSE
  /\ UNCHANGED <<written, item, home, storeVars, worker, born>>

(* drain_dynamic_environment_events_into: an observation of an older        *)
(* generation is dropped, the current one starts the waiting turn.          *)
Observed == Head(env.results)

(* Mutant: any observation will do while one is awaited.                    *)
AcceptsAny(result) == env.active # None

Accepts(result) == result.generation = env.active /\ result.generation = env.generation

DrainObservation ==
  /\ env.results # <<>>
  /\ IF Accepts(Observed)
     THEN /\ env' = [env EXCEPT !.results = Tail(@), !.active = None]
          /\ preparing' = None
          /\ IF preparing = None THEN UNCHANGED <<active, inbox, turnVars, born>>
             ELSE StartTurn(preparing)
     ELSE /\ env' = [env EXCEPT !.results = Tail(@)]
          /\ UNCHANGED <<preparing, active, inbox, turnVars, born>>
  /\ UNCHANGED <<convVars, storeVars, worker, spent, unsaved>>

(* An event of the turn: its message or its answer was written, or it ended. *)
DrainTurn ==
  /\ active # None /\ inbox # <<>>
  /\ LET event == Head(inbox) IN
     IF event.kind = "end"
     THEN active' = None /\ inbox' = <<>> /\ UNCHANGED conv
     ELSE /\ conv' = [session |-> event.session, history |-> Append(conv.history, event.entry)]
          /\ inbox' = Tail(inbox) /\ UNCHANGED active
  /\ UNCHANGED <<era, preparing, env, turnVars, storeVars, worker, spent, born, unsaved>>

-----------------------------------------------------------------------------
(* The conversation worker of a turn and its persistence actor.             *)

Told(t, events) == inbox' = IF active = t THEN inbox \o events ELSE inbox

(* The next entry goes under the leaf the session has in the store; the UI  *)
(* hears of an item when its transcript line is written as well.  A turn    *)
(* of a conversation without a session creates one.                         *)
WriteEntry(t) ==
  /\ phase[t] = "live" /\ written[t] < Len(Steps)
  /\ LET s    == IF home[t] = None THEN t ELSE home[t]
         path == Append(leaf[s], Entry(t, written[t] + 1))
     IN  /\ leaf' = [leaf EXCEPT ![s] = path]
         /\ tree' = [tree EXCEPT ![s] = @ \cup {<<>>, path}]
         /\ home' = [home EXCEPT ![t] = s]
         /\ IF IsItem(path)
            THEN item' = [item EXCEPT ![t] = path] /\ UNCHANGED inbox
            ELSE Told(t, <<[kind |-> "entry", session |-> s, entry |-> item[t]]>>)
                 /\ UNCHANGED item
  /\ written' = [written EXCEPT ![t] = @ + 1]
  /\ UNCHANGED <<convVars, active, preparing, env, phase, worker, spent, born, unsaved>>

(* The turn ends between two items, whether it succeeded or not.  Its       *)
(* terminal event is read in a later call than the start of the turn:       *)
(* ConversationTurn shows what happens to the message otherwise.            *)
TurnEnds(t) ==
  /\ phase[t] = "live" /\ written[t] \in {0, 2, 4}
  /\ (active = t => inbox = <<>>)
  /\ phase' = [phase EXCEPT ![t] = "over"]
  /\ Told(t, <<[kind |-> "end"]>>)
  /\ UNCHANGED <<convVars, active, preparing, env, written, item, home, storeVars, worker,
                 spent, born, unsaved>>

(* An observation is done, or was cancelled: the next one starts after it.  *)
ObservationEnds ==
  /\ env.tasks # <<>>
  /\ env' = [env EXCEPT !.results = Append(@, Head(env.tasks)), !.tasks = Tail(@)]
  /\ UNCHANGED <<convVars, active, inbox, preparing, turnVars, storeVars, worker, spent, born,
                 unsaved>>

-----------------------------------------------------------------------------
(* run_session_worker: one command at a time, in order.                     *)

Job == worker.job[1]
WorkerUnchanged == UNCHANGED <<convVars, active, inbox, preparing, env, turnVars, born>>

TakeCommand ==
  /\ worker.alive /\ worker.job = <<>> /\ worker.queue # <<>>
  /\ worker' = [worker EXCEPT !.job = <<Head(worker.queue)>>, !.queue = Tail(@)]
  /\ WorkerUnchanged /\ UNCHANGED <<storeVars, spent, unsaved>>

Event(result, history) ==
  [of |-> Job.kind, result |-> result, session |-> Job.session, history |-> history]
Finish(result, history) ==
  worker' = [worker EXCEPT !.job = <<>>, !.events = Append(@, Event(result, history))]

(* The repaired list is sent when it differs from the cached one.           *)
AnswerList ==
  /\ worker.job # <<>> /\ Job.kind = "list"
  /\ \E result \in {"rows", "noop"} : Finish(result, <<>>)
  /\ WorkerUnchanged /\ UNCHANGED <<storeVars, spent, unsaved>>

AnswerResume ==
  /\ worker.job # <<>> /\ Job.kind = "resume"
  /\ Finish("restored", HistoryOf(leaf[Job.session]))
  /\ WorkerUnchanged /\ UNCHANGED <<storeVars, spent, unsaved>>

(* Rewinding to a message goes to the entry before it, rewinding to an      *)
(* answer to the last of the transcript lines that follow it: which one,    *)
(* when they fork, is left open.                                            *)
AfterItem(s, p) ==
  {q \in tree[s] : IsPrefix(p, q) /\ \A i \in (Len(p) + 1)..Len(q) : q[i].kind \notin Items}
RewindTargets(s, p) ==
  IF Last(p).kind = "user" THEN {Front(p)}
  ELSE {q \in AfterItem(s, p) : \A r \in AfterItem(s, p) : ~IsStrictPrefix(q, r)}

(* A row in the middle of a batch of tool calls has no target.              *)
RewindsNothing ==
  /\ worker.job # <<>> /\ Job.kind = "rewind" /\ ~Job.loaded
  /\ Finish("noop", <<>>)
  /\ WorkerUnchanged /\ UNCHANGED <<storeVars, spent, unsaved>>

(* The row is looked up on the path the session is on now.                  *)
RowNotFound ==
  /\ worker.job # <<>> /\ Job.kind = "rewind" /\ ~Job.loaded
  /\ ~IsPrefix(Job.path, leaf[Job.session])
  /\ Finish("failed", <<>>)
  /\ WorkerUnchanged /\ UNCHANGED <<storeVars, spent, unsaved>>

Targets ==
  IF Job.kind = "switch" THEN {Job.path}
  ELSE IF IsPrefix(Job.path, leaf[Job.session]) THEN RewindTargets(Job.session, Job.path) ELSE {}
Loaded(path) ==
  worker' = [worker EXCEPT !.job = <<[Job EXCEPT !.loaded = TRUE, !.path = path,
                                                 !.history = HistoryOf(path)]>>]

(* Mutant: the leaf is moved before the conversation is restored.           *)
LoadAfterMove ==
  /\ worker.job # <<>> /\ Job.kind \in {"switch", "rewind"} /\ ~Job.loaded
  /\ \E path \in Targets : Loaded(path) /\ leaf' = [leaf EXCEPT ![Job.session] = path]
  /\ WorkerUnchanged /\ UNCHANGED <<tree, spent, unsaved>>

(* switch_branch and select_entry_rewind restore the conversation first and *)
(* move the leaf last.                                                      *)
LoadTarget ==
  /\ worker.job # <<>> /\ Job.kind \in {"switch", "rewind"} /\ ~Job.loaded
  /\ \E path \in Targets : Loaded(path)
  /\ WorkerUnchanged /\ UNCHANGED <<storeVars, spent, unsaved>>

MoveLeaf ==
  /\ worker.job # <<>>
  /\ (Job.kind = "setLeaf" \/ Job.loaded)
  /\ leaf' = [leaf EXCEPT ![Job.session] = Job.path]
  /\ IF Job.kind = "setLeaf" THEN Finish("noop", <<>>) ELSE Finish("restored", Job.history)
  /\ WorkerUnchanged /\ UNCHANGED <<tree, spent, unsaved>>

(* Any store call of a command may fail, and ends it.                       *)
CommandFails ==
  /\ worker.job # <<>>
  /\ spent.failures < MaxFailures /\ spent' = [spent EXCEPT !.failures = @ + 1]
  /\ Finish("failed", <<>>)
  /\ unsaved' = (unsaved \/ Job.kind = "setLeaf")
  /\ WorkerUnchanged /\ UNCHANGED storeVars

(* A panic in a store call; what was queued is dropped with the receiver.   *)
WorkerDies ==
  /\ worker.job # <<>> /\ MaxPanics > 0
  /\ unsaved' = (unsaved \/ \E c \in ToSet(worker.queue \o worker.job) : c.kind = "setLeaf")
  /\ worker' = [worker EXCEPT !.alive = FALSE, !.queue = <<>>, !.job = <<>>]
  /\ WorkerUnchanged /\ UNCHANGED <<storeVars, spent>>

(* drain_events, one event: the counters, then the event.                   *)
Less(n) == IF n = 0 THEN 0 ELSE n - 1
IsMutationResult(event) ==
  \/ event.result \in {"restored", "noop"}
  \/ event.result = "failed" /\ event.of \in Mutations

Counted(event) ==
  worker' = [worker EXCEPT !.events = Tail(@), !.commands = Less(@),
               !.mutations = IF IsMutationResult(event) THEN Less(@) ELSE @]

(* A restored conversation replaces the current one, whatever it is doing.  *)
DrainRestored ==
  /\ worker.events # <<>> /\ Head(worker.events).result = "restored"
  /\ Counted(Head(worker.events))
  /\ conv' = [session |-> Head(worker.events).session, history |-> Head(worker.events).history]
  /\ era' = era + 1 /\ unsaved' = FALSE
  /\ ForgetWorker
  /\ UNCHANGED <<preparing, env, written, item, phase, home, storeVars, spent, born>>

DrainAnswer ==
  /\ worker.events # <<>> /\ Head(worker.events).result # "restored"
  /\ Counted(Head(worker.events))
  /\ WorkerUnchanged /\ UNCHANGED <<storeVars, spent, unsaved>>

(* Mutant: the commands are forgotten, the mutations are not.               *)
StoppedForgetsCommands ==
  /\ ~worker.alive /\ worker.events = <<>> /\ worker.commands > 0
  /\ worker' = [worker EXCEPT !.commands = 0]
  /\ WorkerUnchanged /\ UNCHANGED <<storeVars, spent, unsaved>>

(* The worker is gone and everything it sent was read.                      *)
DrainStopped ==
  /\ ~worker.alive /\ worker.events = <<>> /\ worker.commands > 0
  /\ worker' = [worker EXCEPT !.commands = 0, !.mutations = 0]
  /\ WorkerUnchanged /\ UNCHANGED <<storeVars, spent, unsaved>>

-----------------------------------------------------------------------------
User ==
  \/ ListSessions \/ SwitchBranch \/ SelectEntryRewind
  \/ \E s \in Sessions : ResumeSession(s)
  \/ \E i \in 1..(Len(conv.history) + 1) : TruncateConversation(i)
  \/ \E t \in Turns : SubmitTurn(t) \/ PrepareTurn(t)
  \/ InterruptPreparing \/ Reset

DrainStore == DrainRestored \/ DrainAnswer \/ DrainStopped
Drain      == DrainStore \/ DrainObservation \/ DrainTurn

StoreWorker ==
  TakeCommand \/ AnswerList \/ AnswerResume \/ RewindsNothing \/ RowNotFound \/ LoadTarget \/ MoveLeaf
  \/ CommandFails

Next ==
  /\ \/ User \/ Drain \/ StoreWorker \/ WorkerDies \/ ObservationEnds
     \/ \E t \in Turns : WriteEntry(t) \/ TurnEnds(t)
  /\ UNCHANGED user

Spec == Init /\ [][Next]_vars

(* The UI loop drains when it is woken, every event and the end of the      *)
(* worker's thread wake it, and a store call returns or panics.             *)
CoordinatorFairness ==
  WF_vars(DrainStore /\ UNCHANGED user) /\ WF_vars(StoreWorker /\ UNCHANGED user)

FairSpec == Spec /\ CoordinatorFairness

-----------------------------------------------------------------------------
Paths == {<<>>} \cup UNION {tree[s] : s \in Sessions}
Generations == 0..(MaxTurns + MaxTurns + MaxCommands)
Observations == [generation : Generations, turn : Turns]

(* Types, for the counters above all: they never go below zero.             *)
TypeOK ==
  /\ conv.session \in Sessions \cup {None} /\ ToSet(conv.history) \subseteq Paths
  /\ {active, preparing} \subseteq Turns \cup {None}
  /\ written \in [Turns -> 0..4] /\ phase \in [Turns -> {"new", "waiting", "live", "over"}]
  /\ item \in [Turns -> Paths] /\ home \in [Turns -> Sessions \cup {None}]
  /\ \A s \in Sessions : leaf[s] \in tree[s] \cup {<<>>}
  /\ env.generation \in Generations /\ env.active \in Generations \cup {None}
  /\ ToSet(env.tasks \o env.results) \subseteq Observations
  /\ \A c \in ToSet(worker.queue \o worker.job) :
       c.kind \in Mutations \cup {"list"} /\ c.path \in Paths /\ Len(worker.job) <= 1
  /\ {worker.commands, worker.mutations} \subseteq 0..MaxCommands

(* "Cannot resume session while a session mutation is running" is not said  *)
(* for ever: the counter is given back when the mutation is answered, when  *)
(* it fails, and when the worker is found dead.                             *)
LockOutEnds == worker.mutations > 0 ~> worker.mutations = 0

(* A turn that waits for its observation will hear of it: the generation    *)
(* the UI waits for is the one that is being made or was made for that turn, *)
(* and it starts with that one, never with what an interrupted turn left.   *)
AwaitedObservationIsComing ==
  /\ (preparing # None) <=> (env.active # None)
  /\ preparing # None =>
       [generation |-> env.active, turn |-> preparing] \in ToSet(env.tasks \o env.results)
StartsWithItsObservation ==
  \A t \in Turns : phase[t] = "waiting" /\ phase'[t] = "live" => Observed.turn = t
ObservationReachesItsTurn ==
  []AwaitedObservationIsComing /\ [][StartsWithItsObservation]_vars

(* What a turn reports enters the conversation that it was started in, not  *)
(* one that replaced it.                                                    *)
ReportsStayInTheirConversation ==
  [][era' = era /\ Len(conv'.history) > Len(conv.history)
       => born[Last(Last(conv'.history)).turn] = era]_vars

(* What comes back from another thread is taken by what asked for it, and   *)
(* no variable, the counters above all, leaves its type on the way.         *)
AnswersFindWhoAsked ==
  ObservationReachesItsTurn /\ ReportsStayInTheirConversation /\ []TypeOK

(* Once everything is done, what the next request would carry is what a     *)
(* resume of the session would restore, unless a truncation was not saved.  *)
Settled == Quiet /\ active = None
HistoryIsTheStoredPath ==
  Settled /\ ~unsaved /\ conv.session # None => conv.history = HistoryOf(leaf[conv.session])

(* ... which holds for a user who lets every command and turn end before    *)
(* the next one, whatever fails.                                            *)
WaitersHistoryIsTheStoredPath == user = "waits" => HistoryIsTheStoredPath
=============================================================================
