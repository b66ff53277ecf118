# Hunea: TLA+ models, model checking and proofs

Hunea is a terminal client for coding agents, written in Rust (`crates/`). A
person types a message; a worker thread streams the answer of a language model,
runs the tools it asks for, asks for permission where a tool needs it, and
writes everything to a session file from which the conversation can be resumed,
rewound or branched. Nearly every part is small and sequential. What is hard is
where the parts meet: a UI thread that never blocks on work, half a dozen
threads that answer it later, a store that must survive partial writes, and
cancellation that may come at any moment. This directory models those meetings
in TLA+, checks them with TLC and proves the central invariants with TLAPS.

Contents: 1 the system, 2 the modules and how they correspond to the code,
3 what the runs show, 4 bounds, 5 fairness, 6 what is proved, 7 findings,
8 what is not modelled, 9 plan.

## 1. The system

### 1.1 Components and their state

| Component (crate, files) | State it keeps | Operations |
|---|---|---|
| Permission broker (`conversation-runtime/src/conversation/permission.rs`, `tool-runtime/src/permission_rules.rs`) | context generation, map of waiting calls to one-shot senders, set of always-rules | `request_permission`, `respond_permission`, `cancel_all`, `clear_permission_context` |
| Conversation turn (`conversation-runtime/src/conversation/session/`, `.../provider_conversation/`) | worker thread, attempt and its cancellation token, ledger of unanswered tool calls, bounded persistence queue and its actor, event channel, history and pending message | start, interrupt, reset, retry, cancel with grace, repair, flush, drain, commit, rollback |
| Tool loop (`tool-loop-runtime`) | the items of the current attempt, the calls of an answer, the counters of a turn | stream an answer, run a batch of tools call by call, record results, count tokens |
| OpenAI-compatible provider (`openai-compat-provider/src/stream/`, `request/`) | per stream: text, partial tool calls by index | apply a frame, finish; validate a history |
| Session store (`session-store/src/store/`) | map of open handles, per handle an in-memory view, deferred entries and an operation lock; the index row | create, append, append many, set leaf, flush, flush all, evict, shutdown |
| Recorder and JSONL file (`session-store/src/recorder.rs`, `jsonl.rs`) | entries not yet written; the file | buffer, persist, close; scan |
| Session tree (`session-store/src/session_tree/`) | none: pure functions of the entries | resolve, rewind target, branches, replay |
| Session index (`session-store/src/metadata*`) | SQLite rows derived from the files | upsert, list, backfill, repair |
| Runtime coordinator (`terminal-app/src/runtime/mod.rs`, `*_commands.rs`) | the provider conversation, the turn being prepared, events deferred to the next frame | every `RuntimeCommand`, `drain_runtime_events` |
| Session store worker (`terminal-app/src/runtime/session_worker.rs`) | command queue, counters of pending commands and mutations, event queue | list, resume, switch branch, rewind, set leaf; die |
| Dynamic environment worker (`.../dynamic_environment_worker.rs`) | generation, active generation, results | load, cancel pending, receive |
| Context budget worker (`.../context_budget_worker.rs`, `context_budget_command.rs`) | generation, active and queued request, results | load, replace, cancel, drain, shut down |
| UI event loop (`terminal-ui/src/runner/loop_event_pump.rs`, `runner/mod.rs`, `conversation-runtime/src/event_notifier.rs`) | bounded queue, pending-wake flag, events set aside, the input thread's held event | wake, wait, burst, pause, resume, shut down |
| External editor and clipboard (`terminal-ui/src/runner/external_io.rs`) | who owns the terminal; the clipboard's job queue, worker and answers | pause, run, discard, resume; copy, drain, shut down |
| Terminal lifecycle (`terminal-ui/src/terminal_lifecycle.rs`, `terminal_panic.rs`, `terminal_session.rs`, `runner/terminal.rs`) | what was switched on and must be switched off, the claim of the panic hook, the mouse mode | enter, suspend, resume, change the mouse mode, leave, restore after a panic |
| Workspace file tools (`tool-runtime/src/builtin/workspace_file/`) | read snapshots, set of paths being written | read, write, edit, preview |
| Shell command tool (`tool-runtime/src/builtin/command/`) | process group, pipes, output accumulator with its spill file | run, time out, cancel, drain |
| UI model (`terminal-ui/src/tool_approval_panel/`, `attention_pill/`, `modal_layer.rs`, `document/`, `runtime/event_apply.rs`, `update.rs`) | the approval panel and its preview, the stack of full-screen layers, where the viewport stands, the pills, the activity line | apply a runtime event, take a key, a click, a turn of the wheel, a resize |
| Prompt assembly (`runtime-domain/src/prompt_assembly/`, `terminal-app/src/prompt_assembly/`, `session-store/src/prompt_assembly.rs`, `terminal-ui/src/prompt_overlay/`) | the user's record in the index database, the project's under `.hunea/`, the edit session of the overlay, the options of the next conversation | resolve, open, each gesture, commit (save, announce), restart |
| Message history, model catalogue refresh, rendering, search tools, configuration | see PROJECT.json | not modelled, section 8 |

### 1.2 How they interact

```
 terminal --keys--> input thread --+
                                   |  bounded queue of loop events
 every worker --wake (merged)------+--> UI thread: wait, drain all, apply
                                         |     ^ events
              commands                   v     |
        +------------+-----------+--------------+--------------+
        |            |           |              |              |
   session store  dynamic    context       conversation    permission
   worker         environm.  budget        worker (a turn)  broker
        |                                    |       |         ^
        |                          bounded queue   tool loop --+ asks
        |                                    |       |
        +-------> session store <-- persistence    workspace files
                  (lock per session)  actor
```

- The UI thread sends commands over channels and never waits for an answer. A
  worker puts its answer in its own channel and then wakes the loop. Wakes are
  merged, so after a wake *every* channel has to be read.
- A turn has two tasks on one current-thread runtime: the worker, and the
  persistence actor that takes its commands from a bounded queue. Both report on
  one channel. A reset drops the receiver; the thread runs on until it notices.
- The session store is called by the persistence actor of a turn and by the
  session store worker, possibly for the same session at the same time.
- The permission broker is shared by all turns of a conversation and by the UI
  thread; rules and waiting calls belong to an approval *context*.
- The file tools of a turn that was left behind run beside those of the next.

### 1.3 What is hard, and what makes each component correct

PROJECT.json lists the hazards by line. In short:

| Component | What is hard | What must hold |
|---|---|---|
| Broker | an answer, a cancellation and a reset race with a waiting call over two locks | no rule outlives its context; no call is let through without consent of its context; a dismissed call is told |
| Store | partial writes and their retry, concurrent opening of one session, eviction with entries retained, a crash at any point | what was acknowledged reloads; view and file agree; entries form one sequence; a failure frees the lock |
| Turn | the terminal event against the flush, the queue and the repair; a retry; an interrupt within a tool batch; a reset with the worker running | file, history and verdict agree; each call has one result; one attempt is stored; a cancelled turn ends |
| Coordinator | answers that arrive after the conversation was replaced; counters whose commands fail or vanish | answers reach the conversation they are for; the user is never locked out; memory and leaf agree |
| Event loop | merged wakes against a full queue; pause against back pressure; a panic while the UI thread blocks | no lost wake, no lost or reordered key, nothing waits for ever |
| Context budget | soft cancellation, a queue of one, the thread's death between two reads | a cancelled snapshot is never shown; each request is answered once |
| Tool loop and provider | frames that restate what was streamed, calls without ids, a cancellation between any two calls of a batch | the history can be sent again; what is stored and run is what was shown; nothing is counted twice |
| Session tree | rewinds, branches, rows and switches are computed apart from each other | a rewind keeps what the row showed and cuts no batch; a switch shows what was previewed; every message can be reached |
| Session index | files change while they are read, each statement commits on its own | a mark never hides a change; a repair's list is the files |
| Shell command | exit, end of output, cancellation and timeout race; children keep the pipe | the result tells what happened, output is whole, the call ends |
| Terminal and clipboard | writes that fail or fail late, panics, an editor in between; a queue that is full | the terminal is given back; each copy is answered, in order |
| Files | check and write are apart; the approved preview is older than the file | no update is lost; what was approved is what happens |
| Prompt assembly | two records saved one after the other, one of them shared by all processes; defaults that are shown before they are stored; an event that arrives after the next keys | no text is lost, a key changes its row only, the next prompt is what is on disk |
| UI model | a request, or the end of one, meets the screen in any of its states; a dozen ways lead out of each | the request is seen or its pill is; no pill stands for nothing; the panel stays while a call waits |

## 2. The modules

| Module | Models | Composed with |
|---|---|---|
| `PermissionBroker` | the broker, its callers and the UI thread | — |
| `ToolTurnProofs` | the invariants of the broker, for any set of calls, turns and scopes, and that the tool loop is sound, for any stream, batch and output | extends `PermissionBroker` and `ToolLoop` |
| `SessionLog` | what the store promises: a log that only grows | abstract specification |
| `SessionStore` | store, handles, recorder, file and index row of one session | implements `SessionLog` |
| `SessionStoreProofs` | that what is acknowledged is reloaded, that the file implements `SessionLog`, and that view and file are one log, for any callers and bounds; and that what the session index says is true | extends `SessionStore` and `SessionIndex` |
| `ConversationTurn` | turns: worker, tool loop, retries, actor, channel, history | takes a store call as success or failure, a question as open or closed |
| `ConversationTurnProofs` | that the history is stored, verdicts are true and calls are answered once, for any turns, retries and failures | extends it |
| `SequenceFilters`, `SequenceFilterProofs` | `Select`, the elements of a sequence that are in a set, and what it preserves | used by `ConversationTurn`, `Coordinator`, `ClipboardWorker` and `TerminalLifecycle`; its induction and the order of a finite set also by `ToolTurnProofs` and `PromptProofs` |
| `Coordinator` | the coordinator with store worker, environment worker and turns | takes a turn as four entries that are written one by one |
| `CoordinatorProofs` | that answers find who asked and that a waiter's conversation is the stored one, for any bounds | extends it |
| `LoopEventPump` | event loop, waker, input thread, editor | gives the others "a drain follows every wake" |
| `TerminalUiProofs` | the invariants of the pump, the clipboard, the terminal and the approvals, for any producers, capacities, failures and editors | extends `LoopEventPump`, `ClipboardWorker`, `TerminalLifecycle` and `ApprovalPanel` |
| `ContextBudget` | worker, thread, drains and overlay of `/context` | uses what `LoopEventPump` gives |
| `WorkspaceFiles` | read, write, edit on one file by overlapping turns | — |
| `ToolLoop` | one request's provider turns: both stream formats, the batch of tools, the counters, the history | asks `PermissionBroker` (a call may be refused) |
| `SessionTree` | the entries the runtime can write and everything `/tree` computes from them | its entries are what `SessionStore` stores |
| `SessionIndex` | files, rows, marks, a writer and the repair | rows are what `SessionStore` upserts |
| `BashCommand` | shell, background process, pipe, reader, `select!` loop, accumulator | a tool of `ToolLoop` |
| `BlockingJobsProofs` | that no update is lost and approvals are kept, that the outcome of a command is told truly, and the invariants of the context budget, for any turns, lines, requests and bounds | extends `WorkspaceFiles`, `BashCommand` and `ContextBudget` |
| `TerminalLifecycle` | the terminal's modes, the guard, its users and the panic hook | the editor of `LoopEventPump`, seen from the terminal |
| `ClipboardWorker` | queue, worker, answers and wake of the clipboard | one of the producers of `LoopEventPump` |
| `ApprovalPanel` | the approval panel, the layers, the viewport and the pills of the UI, with the events of the turn and of the store | shows what `PermissionBroker` asks; the failures of `Coordinator`'s store worker |
| `PromptAssembly` | the two records and what they resolve to: pure operators | used by `PromptEdit` |
| `PromptEdit` | the overlay, its edit session, commit, failures, several processes | extends it |
| `PromptProofs` | that the records are written apart, that the next conversation is configured with what is on disk and that no text is lost, for any processes, skills, tools and bounds | extends `PromptEdit` |
| `MC...` | the instance TLC runs; those of several modules let a behaviour run one of them | extends them |

Every module says at its head what it leaves out. Operators carry the names of
the functions they stand for. An operator marked "Mutant" is not part of a
specification: it is the definition after it with a plausible bug, kept to show
that the properties notice it.

### 2.1 PermissionBroker

A call of `request_permission` is an element of `Requests`; `pc` says between
which two critical sections it is. `Start` reads the generation, `EvaluateRules`
takes the rules' lock, `Recheck` compares generations again, `Register` enters
the pending map, `Announce` sends the request to the UI, `Wake...` is the
`select!` on answer and cancellation, `Apply` is `insert_rule_if_active`.
`InvalidatePending` is the one helper of `cancel_all` and
`clear_permission_context`: it moves the generation and takes the map under the
locks; the dismissals it sends after it let them go are `outbox` and `Send`. A
turn's calls run one after the other (`IsNextCall`), and dropping a turn's
future may end a call only at an await (`DropTurn`). `clears` and `epoch` are
history: which approval context a call began in. Which calls a rule matches is
the constant `Covers`; deny rules win.

### 2.2 SessionStore and SessionLog

The file is kept as what `scan_entries` makes of it: `lines`, the readable
entries without repetition, and `tail`, the text after the last newline (nothing,
half a line, or a whole entry that lacks its newline). `Written` is
`write_batch` stopping after any line or inside one. Each handle has the `view`,
the entries of a failed persist (`pendingState`) and what its recorder has `buffered`.
A call walks through `Lookup`, `LoadFile`, `InsertHandle` (double-checked under
the map's lock), `Acquire`, `Recover`, `WriteEntries` or `Flush`, `UpsertIndex`;
each of them has a failing twin where the code has an error path. The
environment evicts idle handles (which happens when other sessions are opened),
drops a call in its middle, shuts down and crashes. `SessionLog` is the abstract
specification: entries are only added, each after its parent, and a promise
concerns what is there. The refinement maps the log to what a reload would give
and the promises to what callers were told.

### 2.3 ConversationTurn

`Submit` starts the thread of a turn; `WorkerStarts` queues the message for the
persistence actor. Then come the provider's actions, in the order in which
`run_tool_loop` records things: `StreamDelta` (text), `RespondWithCalls` (an
answer with a batch of tool calls, entered in the repair ledger), `Ask`,
`ToolsFinish`, `RespondFinal`, `ProviderFails` and `ProviderFailsEarly` (the
attempt is retried when it has stored nothing). Items go through `Burst`: what
does not fit into the bounded persistence queue is dropped, each drop with a
`Failed` event, and the child token of the attempt is cancelled. A turn whose own
token is cancelled has a grace period: either the tools still finish or
`GraceExpires`; `Repairs` adds a result for every call the ledger lists. The
terminal event is sent (`SendVerdict`) only after a flush has come back through
the same queue (`SendFlush`, `Persist`). `PersistFails` stops the actor, which
cancels the turn, reports, and answers a flush that waits. `Drain...` is one
`try_recv_event`, which applies any number of deltas before it returns one event,
together with the reconciliation and the rollback of `drain_runtime_events`.

### 2.4 Coordinator

The three drains of `drain_runtime_events` are separate actions, since the
threads they read from do not stop in between. A session's tree is a set of
paths; a turn appends an item and its transcript line twice. Users are of two
kinds: one who waits until nothing is under way before the next command, and
one who does not; some properties only hold of the first, and section 7 says
what happens to the other. The session store worker executes one command at a
time and may fail or die in it.

### 2.5 LoopEventPump

`wake` is `LoopEventWaker::wake` step by step: swap the flag, `try_send`, on a
full queue clear the flag and swap again. The UI thread drains its receivers one
after the other (a payload that comes after its receiver was read waits for the
next round), blocks in `Receive`, collects a burst, puts a marker back. The
input thread holds one event back when the queue is full and has a permit to try
again; pause, resume and shutdown are commands it acknowledges. A panic sets the
failure and wakes the loop like a producer.

### 2.6 ContextBudget

Generation numbers are shared between the worker object and its thread, so the
thread may see a cancellation at any phase or never. One request is active, one
may be queued. `drain_events` is split where the thread can act in between:
collect, dispatch the queued one, collect again, apply. The thread drops its
sender and its receiver separately when it ends.

### 2.7 WorkspaceFiles

A content is a set of lines and its own fingerprint. A mutation previews (before
it is approved and before it queues), takes the path, stats, looks for a
snapshot, compares, reads again, truncates and fills. Reads take no lock and may
see the file truncated. `RacingUser` lets others save between the comparison and
the write.

### 2.8 ToolLoop

A frame of the stream is an action: `TextDelta`, `ReasoningDelta`, `CallDelta`
(which may bring an id, a name and a piece of arguments, in any combination the
formats allow), `FinishReason`, and the frames of the responses format that
restate a whole (`FinalTextReplaces`, `FinalArgumentsReplace`). `FinishStream` is
the end of the stream and of the accumulator: `FinalCalls`, `StoredText`, and the
loop's decision to run tools or to end. A batch is run call by call:
`ReturnWithoutRunning` (refused, cancelled, arguments that do not parse),
`RunTool`, and then a command that prints, a terminal whose snapshots overlap, or
a write. `EndBatch` appends the results and stops, completes or goes on. `seen`
is `RuntimeTurnState`: its maps by index and by id decide what is counted.
Pieces know where they belong, so shown, stored, run and counted can be compared.

### 2.9 SessionTree

Entries are numbered in file order and point to an earlier parent. The actions
are the writes of `persistence.rs` and the moves of the leaf (rewind, switch,
truncation), so that only trees the program can write are looked at. Every
function of `session_tree/` is an operator with its name, loops over a path being
folds; the properties compare them with each other and with what a reload reads.

### 2.10 SessionIndex

A file is a session and a stamp, which stands for content and fingerprint. The
writer creates and extends files and upserts its row once the file is written.
The repair is one action for each statement, because each commits alone:
collect, load and plan, delete mark and row of a stale session, extract, forget,
upsert row, upsert mark, list. Files vanish or are replaced by hand, the index is
locked, lost and rebuilt, and the process may end between any two statements.

### 2.11 BashCommand

The shell and one process it leaves behind write chunks into a pipe, which the
reader task moves to the channel of the loop. `InLoop` actions are the branches
of the `select!`; each is taken whenever it is ready. After the exit the drain
timer is armed, and `DrainExpires` gives the output up. `Appended`, `Truncated`
and `Shown` are the accumulator. `Kill...` kills the group; an error drops the
child and kills the shell alone (`DropChild`).

### 2.12 TerminalLifecycle

A method of the guard is a plan of operations, performed one per step; each
succeeds, fails, or fails although it took effect. `tty` is the terminal, `owed`
the flags `must_*`, `claim` the guard's registration with the panic hook. The
main session draws, follows the top layer with its mouse mode, lends the terminal
to an editor and leaves; the prechecks use the minimal session; a panic on the UI
thread runs the hook first and the unwinding after it.

### 2.13 ClipboardWorker

`CopySelection` queues a text, or is refused when the queue is full or the worker
gone. The worker takes, writes (or fails, or panics inside the library, after
which it stops writing), answers and wakes. The loop drains before it sleeps.

### 2.14 ApprovalPanel

`screen` is what decides what the user sees: the full-screen layers by kind, the
panel and who opened it, whether its preview is taller than the window (`tall`,
`roomy`) and therefore full-screen (`full`), where the viewport stands, the panel
in the place of the composer (`inline`), the two pills and the activity line. Of
the viewport four positions are kept: it follows the end, it follows the cursor,
or the user holds it and it remembers which of the two to return to. `Place` is
`apply_document_viewport_position`, where the pills and the preview are brought
up to date; everything that moves the viewport goes through it, as in the code.
`LayerClosed` is the other such place, after a key of a layer. An event whose
printing may or may not move the viewport is `OrRefreshed`. `turn` and `asked` are
the worker's side: a tool call that waits prints nothing until it is answered.
`loads` are the answers the store worker owes, each of which arrives in any
later state of the screen. `StoreMayFail` lets such an answer be a failure while a
call waits.

### 2.15 PromptAssembly and PromptEdit

`PromptAssembly` has no state. A record is what `PromptAssemblyScopeState` holds;
an operator takes the pair of records and returns the changed pair, or the prompt.
`Effective` adds the defaults a record does not hold yet; `Materialized` stores the
one a gesture is about; `Ordered`, `Normalized` and `MoveActiveSource` are the order
of the entries; `Merged` is the list of skills or tools as both records have it;
`Active`, `BodyOf` and `SessionConfig` are the resolution of a conversation's
configuration. A title is its place in the order of titles, a text a serial
number, a list of entries a function of their ids.

`PromptEdit` is one process per project (`processes`) over one user's record. What a
key asks for is computed from `shown` (the snapshot on the screen), what it changes is
the `work` of the `editSession`, and `base` says what of it is dirty. `Commit` and its failures are
the save of the user's record, then of the project's, file by file (`HalfSaved`),
then of the options, the conversation (`Refreshed`) and the `event`, which is applied
at some later frame (`ApplyEvent`). A session whose commit failed is kept and taken
up by the next `Open`, or dropped by `ResetConversation`, `Quit` or the end of the process in the
middle of a save (`CommitDies`). The last four variables are history.

### 2.16 Modules that are checked together

`MCToolTurn`, `MCSessions`, `MCBlockingJobs`, `MCStoreAndContext`,
`MCCoordinatorAndPrompt` and `MCTerminalUi` instantiate several modules that share no variable. Their initial states choose a `part`, and
a behaviour then takes steps of that part only: the states are the sum, not the
product, of those of the parts, and a property of one part is checked in all of
its behaviours. Nothing is lost by it, since no action of one reads a variable of
another; where two parts do act on each other in the program, the module itself
has the other's part in it (a refused call in `ToolLoop`, the wake in
`ClipboardWorker`, the editor in `TerminalLifecycle`).

## 3. What the runs show

Each run is the check of one question; PROJECT.json lists for every property a
plausible bug of the code (a mutant) with which TLC finds it violated.

| Run | Question | Answer |
|---|---|---|
| `tool_turn` | Can an answer, an always-rule or a verdict cross from one approval context into another, and is every dismissed call told? Is what the loop stores, runs, sends and counts what the provider streamed? | No, and yes: `RulesAreOfThisContext`, `AllowNeedsConsent`, `HonouredRulesStay`, `DismissalIsComing`. Yes: `LoopIsSound`, for a provider that does not use an id twice |
| `sessions` | What is left after writes that stop anywhere, their retry, and a crash? Do turns mix? Do tree, rewind and branches agree? Is the index true after a repair? | `AckedIsReloaded`, `ViewAndFileAreOneLog` hold, as long as nothing was written after an unterminated line; `HistoryIsStored`, `TreeIsTrue`, `IndexIsTrue` hold |
| `store_glued_retry` | And if something was? | violated: the retried entry is lost (section 7) |
| `store_and_context` | Does the store implement the abstract log when handles are evicted and reopened, a call is dropped by a panic and the process ends? Does every call return? Is a stale context snapshot ever shown, a request forgotten or answered twice? | `ImplementsLog`, `EveryCallReturns` hold for writes that stop between lines. No: `LoadedIsLatest`, `AnswerIsComing`, `AnsweredOnce`, `LoadingEnds` |
| `turn_alone` | Do file, history and verdict of one turn agree, whatever fails, is interrupted, retried or reset, and does a cancelled turn end? | yes: `CallsAreAnsweredOnce`, `VerdictIsTrue`, `NothingOutlivesItsTurn`, `CancelledTurnEnds` |
| `turn_coalesced` | Is a message that was sent ever rolled back? | violated: when start and end are read in one call (section 7) |
| `coordinator` | Do the coordinator's books match what is under way? Does a key of the prompt overlay do what it says, and is the next prompt what was edited, also when saves fail or stop half way and two processes share a record? | counters come back (`LockOutEnds`); observations and reports reach their turn and conversation (`AnswersFindWhoAsked`); for a user who waits, history and stored path agree (`WaitersHistoryIsTheStoredPath`); `GesturesAreLocal`, `ScopesKeepApart` hold, and `PromptIsTrue` with the exceptions that `OptionsFollowDisk` names: a save that failed, or another process that wrote the user's record |
| `coordinator_truncate` | And for one who does not wait? | violated: a turn that overtakes a truncation is stored on both branches (section 7) |
| `terminal_ui` | Can a wake or a key be lost, can the loop or a command hang? Is the terminal ever left changed, a copy unanswered, an approval unseen and untold? | no: `WakeIsNotLost`, `KeysInOrder`, `EditorOwnsTheTerminal`, `WakesAreServed`, `CommandsReturn`; `TerminalIsAsPromised`, of the mouse mode until an editor was used; `CopiesAreAnswered`; `ApprovalsAreTold`, `PillFollowsTheRequest` while no load of the store fails during an approval |
| `approval_lost` | And if one does? | violated: the panel is closed and the call waits on (section 7) |
| `terminal_modes` | And after an editor? | violated: an overlay is drawn without its alternate scroll (section 7) |
| `blocking_jobs` | Is an update lost, does anything but the approved change happen, does a waiter starve? Does a command's result tell its end, and does it end? | no, for users who do not save between a check and its write: `NothingUnseenIsOverwritten`, `ApprovedIsWhatHappens`, `WaitEnds`. Yes: `CommandOutcomeIsTrue`, `CommandEnds` |

Several of these properties are conjunctions of named parts, each with a comment
of its own in its module: `AnswersFindWhoAsked`, `VerdictIsTrue`,
`CallsAreAnsweredOnce`, `LoopIsSound`, `TreeIsTrue`, `IndexIsTrue`,
`CommandOutcomeIsTrue`, `ApprovalsAreTold` (which has the types, `PillIsTrue` and
`WaitingTurnHasItsPanel`), `ViewAndFileAreOneLog`, `TerminalIsAsPromised`,
`PromptIsTrue`, `GesturesAreLocal`. The type invariants of the broker, the pump and
the context budget are proved (section 6) and left out of the runs.

Deadlock is checked in `terminal_ui` for the event pump: after the loop is closed
its producers still send. Elsewhere the system may stop: a bound is used up, a
process has ended, or everyone waits for the person at the terminal.

## 4. Bounds

Every bound is a constant; none is hidden in a guard.

- `tool_turn`, broker: three calls are what "the context is cleared and filled again
  before a verdict is returned" takes: one that granted a rule, one that grants
  it again after the reset, one that is decided by it. Two calls belong to one
  turn, and the third cannot be remembered. Two generations let an old call meet
  a context that was replaced twice. The theorems of section 6 cover any number.
  Loop: three frames with a delta are a call that is announced, completed and
  restated, or two calls, or a text and a call; two provider turns show what the
  first leaves to the second; a window of one piece is left by two.
- `sessions`, store: three calls and two failures: a batch that fails, its retry
  that fails, and a retry that succeeds; batches of two can be cut in the middle.
- `store_and_context`, store: two calls are enough for a failure, an eviction and a reopening
  with the old handle still to be closed, next to a panic and a restart.
- `turn_alone`: three items are a call with its results and a second round, or
  a batch of two; a queue of three places is filled by one batch, so that a
  result may be dropped between others. In `sessions` two turns without
  tools overlap: what could cross over is the channel, not its contents.
- `sessions`, tree: eight entries after the header hold two branches with a batch
  of two calls, or three turns with two moves of the leaf. Index: two files, two
  repairs and two faults are what one repair needs to find what an earlier one,
  interrupted, left behind.
- `coordinator`: two turns and two commands or resets; one failure, one death
  of the worker. Two commands are what the counters need to disagree (a listing
  and a mutation), and what a stale answer needs (a resume and a reset).
- `terminal_ui`, pump: a queue of two places is full with a marker and a key; two
  producers are needed for one wake to be merged into another; two keys to be
  reordered. One event may be set aside before payloads stop arriving.
  Terminal: two failing operations, so that a restoration may fail after an
  activation did, and two editors. Clipboard: a queue of two places (eight in the
  code) and four copies, so that one is in hand, two are queued and one refused.
  Approvals: none; the screen has finitely many states, and all that can be reached
  are. Counts, texts and rows are not in it.
  Context: one request active, one queued, one that replaces it; two
  cancellations.
- `blocking_jobs`, files: one line gives three contents (absent, empty, the line), two turns,
  three calls (a read and two mutations, or three mutations), two saves by others.
  Command: a result of one chunk, so that the second spills and the third leaves
  what is kept in memory; four chunks.
- `coordinator`, prompt: two gestures, of any family in one process, or one each or two
  of one where two processes write prompts of their own; one save that fails or dies.
  That is a prompt that is created and moved, switched, edited or deleted, two that
  collide in both scopes, what one process overwrites of the other's, and what is
  kept, taken up and committed again. One skill, found in the project or with the
  user, and two tools: a tool may be moved past another.

## 5. Fairness

Safety is checked without it. The liveness properties assume only this:

- Threads run on. A worker's step, the persistence actor, the recorder and the
  tasks of `spawn_blocking` are weakly fair; store calls return or panic.
- The UI loop drains after every wake. `NotifyingSender` notifies after each
  send and `notify_on_drop` when a thread ends, and `LoopEventPump` shows that no
  such wake is lost (`WakesAreServed`). So `Coordinator`, `ConversationTurn`
  and `ContextBudget` may take "drain" as weakly fair.
- `tokio::sync::Mutex` serves its waiters in order: `SF_vars(Acquire(c))` in
  `SessionStore`.
- `tokio::select!` polls its branches in a random order: a command to the input
  thread is taken although terminal events keep coming (`LoopEventPump`).
- A timer fires: the grace period and the retry delay of a turn, the drain timeout
  of a command (its own timeout need not: `CommandEnds` starts when it did). The
  branches of the command's `select!` are weakly fair, its processes are not.

Nothing is assumed of the person, the terminal, the provider or a tool: a
provider may hang for ever, a tool may ignore its cancellation. `PermissionBroker`
has no liveness run, since a call may rightly wait for ever for an answer;
`DismissalIsComing` is the part that depends on the code.

## 6. What is proved

TLAPS checks eight proof modules, one of them of lemmas only. They hold for every value of the constants
that their named assumptions admit: `ConstantsOK` (the scopes of requests are
scopes, a bound is a number), `ConstantsAssumption` (the queue has at least one
place), `BoundsAssumption` (the bounds are numbers, one in `ContextBudget`,
one in `ConversationTurn` and one in `Coordinator`), `FilesAssumption` and
`NoFileAssumption` (the bounds of the file tools are numbers; the mark for an
absent file is not a line), and `StoreConstantsOK` (the mark for "nobody" is
neither a caller nor a number, and the bounds are numbers), `ToolLoopConstantsOK` (indexes and
bounds are numbers, a snapshot shows at least one piece, "no name" is no name), `BashConstantsOK`,
`ApprovalAssumption`, `ClipboardAssumption` (the queue has a place), `TerminalAssumption` and
`PromptAssumption` (the bounds are numbers), `AssemblyAssumption` (skills and tools are lists of
names) and `IndexConstantsOK` (files are numbered in the order of
their names, the session a replaced file brings is of none of them, and the
bounds are numbers).

| Theorem | Says |
|---|---|
| `ToolTurnProofs!TypeCorrect`, `NoRuleOutlivesItsContext`, `NoStalePendingRequest`, `ConsentBeforeAllow`, `HonouredRulesSurvive`, `DismissalsArrive` | its types, the broker's invariants in run `tool_turn`, and that only calls of the current generation wait in the map |
| `ToolTurnProofs!LoopStaysSound` | `LoopIsSound` of run `tool_turn`, for any names and indexes of calls, any limits of turns, frames and output, and any window of a snapshot |
| `TerminalUiProofs!TypeCorrect`, `NoWakeIsLost`, `HeldEventMayBeRetried`, `KeysArriveInOrder`, `TerminalIsTheEditors` | the pump's types, its invariants in run `terminal_ui`, and that a held event may be retried |
| `TerminalUiProofs!CopiesAreTold` | `CopiesAreAnswered` of run `terminal_ui`, for any capacity of the clipboard's queue and any number of copies |
| `TerminalUiProofs!TerminalKeepsItsPromises` | `TerminalIsAsPromised` of run `terminal_ui`, however many operations fail, with or without effect, and whatever opens, panics or leaves |
| `TerminalUiProofs!PillsAreTrue`, `RequestsReachTheUser`, `RequestsAreFollowed` | that no pill claims what is not so, also when loads of the store fail; `ApprovalsAreTold` and `PillFollowsTheRequest` of run `terminal_ui` where none fails while a turn waits (`~StoreMayFail`; with it, run `approval_lost` refutes the first) |
| `BlockingJobsProofs!TypeCorrect`, `LoadedIsTheLatest`, `AnswersAreSingle`, `AnswerAlwaysComing` | its types, and its invariants in run `store_and_context` |
| `SessionStoreProofs!StoreTypes`, `WhatIsAckedIsReloaded`, `StoreImplementsLog` | its types; `AckedIsReloaded` of run `sessions`, whatever fails, is evicted, dropped or crashes; and, when failing writes stop between lines, the refinement of `SessionLog` in run `store_and_context` |
| `SessionStoreProofs!ViewAndFileStayOneLog`, `OneLogWithoutEvictions` | `ViewAndFileAreOneLog` of run `sessions`, whatever fails, tears a line or crashes, until the first eviction or dropped call; and at all times where there are none |
| `SessionStoreProofs!PickerListsWhatIsThere` | `IndexIsTrue` of run `sessions`, for any files and writes, whatever is removed, replaced, locked or lost and wherever the process ends |
| `ConversationTurnProofs!Invariant`, `NothingOutlives`, `HistoryStored`, `VerdictTrue`, `CallsAnswered` | the four invariants of `ConversationTurn` in runs `turn_alone` and `sessions`, with clears, interrupts, failing stores, full queues and panics at any point |
| `CoordinatorProofs!CoordinatorInvariant`, `AnswersFind`, `WaitersHistory` | the two safety properties of `Coordinator` in run `coordinator`: with any commands, resets, failures and a dying worker, whether the user waits or not; and for a user who waits |
| `BlockingJobsProofs!OnePathOneHolder`, `NoUpdateIsLost`, `ApprovalsAreKept` | while nobody saves between a tool's check and its write: one call holds a path, and the two properties of the file tools in run `blocking_jobs` |
| `BlockingJobsProofs!CommandInvariant`, `CommandIsToldTruly` | `CommandOutcomeIsTrue` of run `blocking_jobs`, whatever the processes, the timers and the user do |
| `PromptProofs!RecordsAreWrittenApart`, `PromptStaysTrue` (with `ConfigurationFollowsDisk`) | `ScopesKeepApart` and `PromptIsTrue` of run `coordinator`, for any number of processes, gestures, texts and saves that fail or die half way |

Each of them follows from an inductive invariant, whose preservation is
proved one conjunct at a time, with one step for each action.

- **Broker.** That a rule belongs to the present context is not inductive: a
  call between `Recheck` and `Apply` carries a generation, not a context. The
  link is `GenerationOrder`: whoever holds the current generation started in the
  current context. `QuietBeforeRegister` and `VerdictMeansDone` say that answers
  only exist for calls that were registered; `StoredAllowWasGranted` carries the
  consent behind a stored allow across the gap between evaluating the rules and
  comparing the generation again, the gap in which a reset may come.
- **Event loop.** "A payload has a marker on its way" is not inductive because
  a merged wake relies on a flag that another thread set. `FlagHasAMarker` says
  that behind a set flag there is a marker in the queue, one set aside, one in
  the UI thread's hand, or a thread that will send or take back the flag;
  `DrainedIsMarked` says the same of a receiver that was filled again after it
  was drained in this round; `RoundIsOver` lets the UI thread block only with
  every receiver read. `LivingInputSendsNothing` and `FailureIsMarked` do it for
  the panic, `KeysAreNotSetAside` and `PausedInputIsSilent` for the editor.
  For the order of keys, `KeysInLine` splits the line they wait in into its five
  places (burst, in hand, set aside, queue, held back): each is in order and was
  read before the next, and with the discarded keys they are exactly what was read
  after the last one applied. `BurstIsApplied` and `OnlyHandleHolds` say which
  places are empty when a key enters one.
- **Clipboard.** That a text is counted until it is told, and told in its turn, is a
  matter of where it is: what was told (rejections left out), what the answers hold,
  what the worker has in hand and what the queue holds are, in this order, what was
  accepted, and the counter is the length of the last three (`CopiesInLine`).
  `AnswerWakes` needs the step between an answer and its wake: the worker that sent it
  has yet to wake the loop. `NoWriteAfterPanic` follows a panic from the worker's hand
  to the answers.
- **Terminal.** That the terminal is given back is not inductive: a plan is
  performed one operation at a time, and each may fail with or without effect. `Owes`
  says that what differs from the shell's terminal is owed or has failed, which holds
  because an inverse is registered before its operation is tried. `RestoreComes` says
  that while the session is left every owed feature is still in the plan (or failed),
  and `ForceComes` the same of whatever differs while the panic hook works: when the
  plan is empty, nothing is left. `Claimed` has the hook registered whenever something
  is owed or planned, so that a panic without the claim finds nothing to restore. The
  keyboard mode is a stack of the screen that is shown, and a pop on the wrong screen
  would leave it behind: `Poppable` says that it was pushed on the alternate screen and
  that this one is shown, which needs the order of the operations, on the way in
  (`AltFirst`) and out. The mouse mode needs that the runner's memory, the guard's
  flags and the terminal agree (`ModeIsSet`), which an editor breaks: resuming
  activates the first mode again, and the runner remembers the other (finding in
  section 7).
- **Approvals.** That a pill is true holds at the end of a handler and not within one:
  a handler is a chain of operators on the screen, and only some of them look after
  the pills. `Sound` is what a screen is in between (a preview fills the window only
  where it is too tall for it, and the approval pill is of a runtime panel), `Told` what it
  is at the end, and each operator is shown to lead from one to the other. `PanelKept`
  follows the panel through the chain: an operator that takes the pill away shows
  the panel, and those that come after it leave it in view. With it, every handler
  either ends the wait (`NobodyWaits`) or leaves panel and pill as they should be
  (`PanelStays`).
- **Context budget.** That a snapshot is of the latest request needs the
  ids and generations of everything under way to agree (`AllLawful`), nothing to
  carry a generation that was not given out yet (`NothingFromTheFuture`), and
  the latest request to be in one place only (`InOnePlace`); that an answer
  comes needs `ResultsAreAnnounced` and `ThreadsAgree`. `AnsweredIsOver` is
  `AnsweredOnce` with its reason: an answered generation is in the past.
- **Session store.** That what was acknowledged is on file is not inductive: a
  call acknowledges what a handle believes to be on file, and after a failed or
  partial write it believes less than there is. `DataOK` ties the three together:
  what a handle has in its view or what a caller loaded is on file, what waits for
  a retry is on file or buffered, and the file together with the recorder has
  every parent before its child (`Grounded`). A retry writes what `New` keeps of the
  batch, and filtering by id leaves out exactly what is there because two entries
  never share an id (`DataOK` once more, with the counter the ids come from). `Control`
  says who may hold what at which step: one handle is registered, its number was
  given out, only who waits for or holds the lock has a call under way.
  `DataOK` is claimed while no write has joined an unterminated line (`glued`,
  finding 1). `New` is a recursive function; what it keeps is proved by induction up
  to the length of the batch, which `InductionUpTo` gets from the
  well-foundedness of `<`. For the refinement, `FileStep` says that a step leaves
  the readable entries or adds to them, and `CleanFile` that without torn writes
  nothing unreadable is ever at the end of the file.
  That view and file are one log is a matter of order, which sets do not show.
  `OneLog` speaks of the log as the open handle will leave it (`Whole`: its view
  followed by what the recorder retains): its ids differ and were given out, each of
  its entries continues the branch before it, and the readable file is a start of
  it, with the view as a start of the file (`LogInv`). A failed batch may be on file
  up to any place, also inside a line; the retry writes all of it again, and
  `NewOfContinuation` says that what `New` keeps of it is what lies past the end of
  the file. A caller must continue the right log: who holds or waits for a lock has
  the open handle, who writes has recovered it first, and what a caller loaded is still
  the file as long as no handle is open (`CallInv`). The last of these is what an
  eviction breaks: loaded, opened by another caller, appended to, evicted, and opened
  on the stale entries (section 7). A dropped call breaks the first: the recorder
  writes entries the view does not learn of. So the theorem ends with the first of
  them, and the retained entries of an evicted handle need no part in the invariant.
- **Session index.** That a mark which fits its file has a fresh row is not
  inductive: the repair writes row and mark in two statements and derives both from
  what it found and read before. The stamps put these in order: a file's only grows,
  a removed path does not come back, and a file that holds a foreign session does not
  change any more (`FilesInv`). So a mark is not ahead of what the repair found
  (`FoundInv`), that not of what it read, and that not of the file (`ReadInv`): when
  the mark is as late as the file, the row is of the same content. The other side of
  `ReadInv` is a session that was moved to another path by hand, whose old mark must
  not fit while its new row is written: the other file was written since it was
  found. That the list is complete needs `PlanInv`: a file that is not planned any more
  is listed, unless a file changed since the repair began; and forgetting the session
  a path was indexed under takes no row that another file needs. A row may be
  indexed without its mark after a crash, so the plan's freshness rests on
  `MarksInv` and, for the foreign session, on what its row says (`RowsInv`).
- **Conversation turn.** None of the four properties is inductive. That the
  history is stored (`Remembered`) needs that an item event is sent only after the
  item was filed, which `Screen` says of all events in the channel, and that the
  turn of the message the history was given is still the conversation's, which
  `Screen` says of the turn on it. That a verdict is true (`Settled`) needs the way
  of every item: `Complete` says that history, channel and queue put together are
  what the turn produced, and that file and queue put together are the message
  followed by the same, as long as nothing of the turn was refused (then a `lost`
  event is in the channel) and its worker did not panic. A verdict is the last event
  of the channel and comes from a worker that is done, and a queue whose worker is
  done is empty (`Lined`: the flush is the last command), so that with the verdict
  only history and file are left in the two equations. `Thread` ties the tokens
  and what was produced to the phase of the worker; in particular an attempt is
  repeated only if it has produced nothing, from which it follows that a file has
  items of one attempt. That calls are answered once needs `Produced`: the id of a
  call is the place before its result, and the calls without one are those in the
  repair ledger, which is an interval after all that was produced. Since the
  history has the same items as the turn produced (`Settled`), in order
  (`SelectPlaces` of `SequenceFilterProofs`), the result at that place is the only
  one. `Filed` says of a file what `Produced` says of the turn. `Select` is a
  recursive function, like `New` of the session store, and what it keeps of a
  concatenation is proved in the same way.
- **Tool loop.** `LoopIsSound` relates four things that are kept apart: the stream, the
  counters, the batch and the history. `LoopIInv` carries each from where it arises to
  where it is relied on. A history is in order up to the calls of the batch that is
  under way (`HistoryInOrder`): a message with calls opens them, the results close them
  in their order (`ResultsAnswer`), and no step that ends the loop leaves the batch
  before `EndBatch`; the names of calls must be fresh, which is a hypothesis of the
  property. What is stored is what was shown because text only grows at the last output
  (`StoredAppend`). Arguments are counted once because the counted ones are those of the
  calls being put together (`ArgumentsOnce`), and a call that was completed counts its
  "no arguments" only where nothing was heard under its index or its name
  (`AllCompletedIs`, an induction over both passes). Output is counted once because what
  was counted is what the last snapshot ended with (`OutputsOnce`), and the overlap that
  `TerminalDelta` finds is never shorter than the true one (`SnapshotIsNew`). A write
  counts nothing, because its call is known by name when its tool runs.
- **Coordinator.** That an answer finds who asked for it (`AnswersInv`) needs, of
  observations, that a generation is given once and that the awaited one is still
  under way when a turn waits (`ObservationsAreNumbered`): then the result that is
  accepted is the one of the waiting turn. Of reports it needs that an inbox belongs to the
  active turn and that this turn was started in the present conversation
  (`InboxIsOfTheTurn`): every step that replaces the conversation drops the
  receiver. `GenerationsAreBounded` counts, for the type of the generations, two
  for each turn and one for each Reset. That the conversation of a user who waits
  is what the session holds is not inductive, since it is false while a turn has
  something to report and while a command is under way. `InStep` is what is true
  then: the history, what the inbox has yet to report and an item whose line is not
  written, in this order, are the history on the path to the leaf, unless a command
  is about to move the leaf or to replace the conversation; and `OneAtATime` says of that
  command that the history it brings is the one of the path it moves to. A
  truncation keeps a history that is the path to its own last entry
  (`HistoryKept`), which is an induction up to the length of the path.
- **File tools.** That nothing unseen is overwritten is not inductive: the write
  comes three steps after the comparison. `CheckedIsOnDisk` carries what was
  compared to the write, and holds because nobody else writes in between: a user
  by hypothesis (`~RacingUser`), another call by `OneHolder`, the queue of the
  path. That the approved is what happens needs besides that the compared content
  is the one of the preview (`BasisIsThePreview`), and that the plan is computed
  from it (`PlanIsTheResult`, `PromiseIsOfThePreview`). The hypothesis is needed:
  the code compares before it reads again and writes, and a save that falls in
  between is lost.
- **Shell command.** That the output is complete needs the way of every chunk:
  `OutputIsOnItsWay` says that what was received, the channel and the pipe put
  together are what was written, while the loop runs, and that a reader that is
  done has left nothing and nobody behind it; so a channel closed by its reader
  has handed over everything (`ClosedMeansRead`), and one that was not was given
  up by the drain timeout. `OutputIsKept` says what memory and file hold of what
  was received; that cutting the end again and again loses none of the end is
  `LastOfMore`. `StatusIsTheExit` and `KilledForAReason` tie the answer to the
  shell and to the requests. `BashConstantsOK` is the assumption: at least one
  chunk is shown.
- **Prompt overlay.** That a record on disk is only written by a session whose
  gestures were about its scope is not inductive: a commit writes what differs from
  what the session was loaded from. `Held` says that the copy differs in the scopes the
  gestures were aimed at only. Each gesture is shown to change no other record
  (`GestureIsAimed`); this takes some care where a section is stored before it is
  changed and may thereby come to belong to another record (`OwnerOfMaterialized`). That
  the options follow the disk needs, for a record which a commit leaves alone, that the
  session was loaded from what is on disk still, unless another process wrote it or a
  save stopped half way (`Configured`).
  That no text is lost is the longest of these arguments. The records stay well formed
  through every gesture (`AllShaped`): a list that is merged from both records holds
  every known name at one place (`MergedIsWhole`, by counting those before it, and
  `OneAtEachPlace`), and a new prompt gets an id and a title that are not taken
  (`FreshIdIsFresh`, `NextTitleIsTitle`). What a gesture does to the texts is one of three things
  (`GestureIs`): it keeps them, sets one, or deletes one. A text has one place in the
  project's record, the same in the copy as on disk (`Placed`), so a save that dies half
  way finds the old and the new under one id and costs at most that file
  (`HalfKeepsText`). And what is owed is in the copy, and on disk too if it is in what the
  copy was loaded from (`Backed`), because a commit skips a record that did not change.

Only model-checked: every liveness property and whatever needs `ENABLED` (out of
the prover's reach), `EveryCallReturns` of `SessionStore` and `LockOutEnds` of `Coordinator` among them;
`GesturesAreLocal` of `PromptEdit` (it is about the order of rows that are numbered again, and
its two parts compare whole outlines); and all of `SessionTree` (folds over trees). The states of `ApprovalPanel` are few, and TLC visits them all; it has its theorems
because its handlers are long and each is argued for by the same few lemmas.

## 7. Findings

Five runs show the code doing something else than its comments or tests say.

1. **A retried write can be lost** (`store_glued_retry`). `write_batch` appends
   without looking at how the file ends. After a write that stopped inside a
   line, the retry continues that line; `scan_entries` skips the joined line; the
   entry was acknowledged. Entries written later have a missing parent after a
   restart, and the session fails to load.
2. **A sent message can be rolled back** (`turn_coalesced`). When
   `ProviderTurnStarted` and the terminal event are read in one
   `try_recv_event`, the ids of the turn are cleared before the coordinator
   reconciles them: the message, which is on disk and was answered, is dropped
   from the history, and the conversation forgets its session.
3. **A turn can overtake a truncation** (`coordinator_truncate`).
   `truncate_conversation` cuts the history at once and queues the move of the
   leaf; a turn that starts in between is stored on both sides of the move.
4. **An overlay loses its mouse mode** (`terminal_modes`). The loop remembers the
   mode it applied last. An editor that is opened from the prompt overlay suspends
   and resumes the terminal, which activates plain capture; the remembered mode
   still equals what the overlay wants, so nothing is applied and the overlay is
   drawn without alternate scroll until another layer asks for something else.
5. **A failed listing closes the approval panel** (`approval_lost`). `/resume` and
   the preview of a session may be opened while a turn runs. If such a load fails,
   the store worker's failure reaches the UI as `RuntimeEvent::Failed` without a
   target, and the UI takes every `Failed` for the end of the turn: it closes the
   turn's approval panel and takes its activity line away. The tool call still
   waits; no key answers it, `Esc` asks for the activity line before it interrupts,
   and a new message is refused because the turn runs. Only `/clear` helps.

Seen while modelling, without a run of their own, most of them because no document
of the repository promises otherwise; the models contain them, and the properties
that hold are stated so that they do not deny them:

- The maps by index of `RuntimeTurnState` are not cleared between provider turns:
  arguments that the second turn completes without streaming them count as counted
  if the first turn had a call of that index. `tests/token_accounting.rs` expects
  such arguments to be counted, for one turn; `EveryArgumentIsCounted` states it
  for all and is violated by the model as by the code.
- A provider that uses the id of a call twice is not refused when it does, and the
  conversation is refused ever after (`HistoryCanBeContinued` excludes it).
- A chat stream cut off before its finish reason is taken as complete.
- Two rows of the index may hold one path, after a file was replaced in the middle
  of a repair; one of them is then listed for ever. A file that vanishes or has no
  header yet ends a whole repair.
- A rewind restores the observations of the environment from the latest
  configuration on its path, which may be that of the turn it drops.
- An error while a command runs kills the shell and not its group.
- A panic on the UI thread, or a cleanup that is repeated, may pop the keyboard
  mode of the main screen rather than the alternate one.
- The fallback of an older copy may overwrite a newer one (`ClipboardWorker` shows
  only that answers keep their order).
- The `Noop` that ends a listing is counted as the result of a mutation, so that
  a second mutation may be accepted while the first is under way (`Coordinator`).
- A turn submitted while a resume is under way is cancelled and forgotten when
  the resume's answer arrives.
- The leaf of a truncation is the entry of the last item kept, not the
  transcript line after it: a replay of the session lacks the last answer kept.
- A user's save between a tool's comparison and its write is overwritten
  (`RacingUser`).
- A caller that read the file before another one opened, used and lost the handle
  opens its own on the stale entries, and its next entry forks the session. So
  does an append after one whose caller panicked: the recorder wrote a batch the
  view never learnt of. Nothing acknowledged is lost (`ImplementsLog`).
- The approval pill is set when a request arrives unseen. A panel that was seen
  and is then scrolled away, or covered by a session list or preview that arrives
  late, has none (`PillFollowsTheRequest` speaks of the request's arrival).
- The repaired list opens the session picker again if the user closed it after
  the cached one was shown (`LayerLoaded`).
- A panel that opens in the place of the model list or the context overview lets
  the viewport follow the cursor, also one the user holds by hand.
- When printed text brings the viewport from the cursor to the end, `follow_bottom`
  is set before the position is applied, which then sees no change: a preview that
  was waiting to become full-screen goes on waiting (`Refreshed`).
- The first custom prompts of the two scopes get the same order; the first move
  between them only makes their orders differ (`MovesOneRow` leaves equal ones out).
- The skill section may have an entry in both records, and is then in the prompt
  twice. The box of a user's skill is read from the user's record while its choice is
  stored where the section belongs, so ticking it may show no effect.
- A commit of the prompt overlay that saves the user's record and fails on the
  project's returns before it updates anything. If the project's edit is then taken
  back, the next commit has nothing to save and announces nothing: the next
  conversation starts with the prompt from before both (`excuse` "failed" in
  `OptionsFollowDisk`).
- The event of a commit is applied at the next frame. If the keys of the same burst
  reopen the overlay and edit again, it replaces what these edits put on the screen,
  and the next key computes its toggle from it (`UpToDate` in `GesturesAreLocal`).
- With a choice of skills in the project's record and the entry of the section in the
  user's, a switch stores the entry in the row's scope and looks for it in the other:
  nothing happens (`TogglesOneRow` leaves the skill section out).
- `.hunea/prompt-assembly.toml` is written in place: cut short, it can no longer be
  read, and neither the overlay nor the next start in that project gets past it.
- `AGENTS.md` edited from the overlay is written at once; the prompt takes it up with
  the next commit that saves something, or the next start.
- A full persistence queue cancels the attempt and not the turn: no grace period
  bounds a tool that ignores its token, although the screen is told.

## 8. What is not modelled

Within the modelled components: the texts of messages, previews and errors;
usage reports and durations; how a rule matches a command line (the constant `Covers`); the
search for an edited text; paths, links and encodings; hash collisions; the
panic of the environment worker's thread; the wrap-around of 64-bit generations;
weak memory orders (atomics are sequentially consistent; the code orders them
acquire/release around one flag). Other sessions appear in `SessionStore` only
through the evictions they cause.

Components without a module, and why:

- Message history: each call is one SQLite transaction of one caller, a bounded
  list without adjacent duplicates; nothing happens between its steps.
- Prompt assembly, the rest of it: the choice of dynamic environment sources,
  long-lived skills, files edited from the overlay in place (`AGENTS.md`, skills), the
  user's own instruction files, two processes in one project, the text of overridden
  bodies, and files cut short that can no longer be read (a title is read again from
  its text by the code, and kept by the model).
- Model catalogue refresh: one thread and one receiver, the shape of the dynamic
  environment worker, which `Coordinator` has.
- Rendering and the rest of the UI model (two thirds of the lines): layout,
  drawing, the composer's text, selections and the contents of pickers are computed
  by one thread from its own state. `ApprovalPanel` leaves out the pause of the
  activity line, the menus that float over the composer, the scrolling of a dragged
  selection, the folding of reasoning and the change of the palette, and takes
  events as applied in the order they are sent.
- Search tools (read-only walks), provider protocol (types), configuration (read
  once), the bytes and JSON of the provider's requests.

## 9. Plan

The order was: first the parts in which a mistake costs data or consent (broker,
store, turn), then those that connect them (coordinator, event loop), then the
smaller workers, then the tool loop, the tree, the index, the shell, the
terminal, the approval panel and the prompt overlay. What would come next:

1. Proofs for what is only checked: the session tree, the
   gestures on rows of the prompt overlay; and what of `ViewAndFileAreOneLog` is left
   after an eviction.
2. `Coordinator` with the rewind of `SessionTree` in the place of its outcome.
3. A composition of turn, store and broker for one session: what a resume
   restores after any ending of a turn.
