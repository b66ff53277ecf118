--------------------------- MODULE ClipboardWorker ---------------------------
(* The system clipboard behind a bounded queue and a thread of its own:      *)
(* terminal-ui/src/runner/external_io.rs.  The UI thread submits a text, the *)
(* worker writes it, sends what became of it and wakes the event loop; the   *)
(* loop drains the answers before it sleeps and falls back to the terminal's *)
(* own clipboard for a text the system did not take.                         *)
EXTENDS Naturals, Sequences, SequenceFilters

CONSTANTS QueueCapacity,   \* CLIPBOARD_JOB_QUEUE_CAPACITY, 8 in the code
          MaxCopies        \* texts copied

ASSUME ClipboardAssumption == QueueCapacity \in Nat \ {0} /\ MaxCopies \in Nat

VARIABLES jobs,       \* the bounded channel, open or not
          open,       \* the UI still holds jobs_sender
          worker,     \* [at, text, how] of the worker thread
          canWrite,   \* can_write_system_clipboard
          answers,    \* the events channel
          awakened,   \* a wake the loop has not consumed
          loop,       \* the UI thread: draining, sleeping or gone
          copies,     \* texts numbered in the order of the copies
          accepted,   \* those the queue took, in that order
          inFlight,   \* pending_clipboard_writes
          told        \* SelectionCopyCompleted, [text, how] in order

clipboardVars == <<jobs, open, worker, canWrite, answers, awakened, loop, copies,
                   accepted, inFlight, told>>

Idle == [at |-> "waiting", text |-> 0, how |-> "none"]
Said(text, how) == [text |-> text, how |-> how]

ClipboardInit ==
  /\ jobs = <<>> /\ open = TRUE /\ worker = Idle /\ canWrite = TRUE
  /\ answers = <<>> /\ awakened = FALSE /\ loop = "draining"
  /\ copies = 0 /\ accepted = <<>> /\ inFlight = 0 /\ told = <<>>

------------------------------------------------------------------------------
(* The UI thread *)

\* start_copy_selection: the queue takes the text, or the copy is reported as
\* failed at once.  The worker never ends while the UI holds the queue, so
\* WorkerStopped cannot come from here.
CopySelection ==
  /\ loop = "draining" /\ copies < MaxCopies
  /\ copies' = copies + 1
  /\ IF Len(jobs) < QueueCapacity
     THEN /\ jobs' = Append(jobs, copies') /\ accepted' = Append(accepted, copies')
          /\ inFlight' = inFlight + 1 /\ UNCHANGED told
     ELSE told' = Append(told, Said(copies', "rejected")) /\ UNCHANGED <<jobs, accepted, inFlight>>
  /\ UNCHANGED <<open, worker, canWrite, answers, awakened, loop>>

\* drain_events and apply_external_io_event: everything that is there; a text
\* the system clipboard did not take goes to the terminal's.
Reported(how) == IF how = "copied" THEN how ELSE "fallback"
Tell(events) == told \o [i \in DOMAIN events |-> Said(events[i].text, Reported(events[i].how))]

DrainAnswers ==
  /\ loop = "draining" /\ answers # <<>>
  /\ told' = Tell(answers) /\ answers' = <<>>
  /\ inFlight' = inFlight - Len(answers)
  /\ UNCHANGED <<jobs, open, worker, canWrite, awakened, loop, copies, accepted>>

\* loop_events.wait: only a loop that saw no answer sleeps, but an answer may
\* come between the two; a wake or a key ends the sleep.
Sleep ==
  /\ loop = "draining" /\ loop' = "deciding"
  /\ answers = <<>>
  /\ UNCHANGED <<jobs, open, worker, canWrite, answers, awakened, copies, accepted, inFlight, told>>

WaitForEvents ==
  /\ loop = "deciding"
  /\ loop' = IF awakened THEN "draining" ELSE "sleeping"
  /\ awakened' = FALSE
  /\ UNCHANGED <<jobs, open, worker, canWrite, answers, copies, accepted, inFlight, told>>

LoopIsWoken ==
  /\ loop = "sleeping" /\ awakened
  /\ loop' = "draining" /\ awakened' = FALSE
  /\ UNCHANGED <<jobs, open, worker, canWrite, answers, copies, accepted, inFlight, told>>

KeyArrives ==
  /\ loop = "sleeping" /\ copies < MaxCopies
  /\ loop' = "draining"
  /\ UNCHANGED <<jobs, open, worker, canWrite, answers, awakened, copies, accepted, inFlight, told>>

\* shutdown_and_drain_events: the queue is closed, what was answered is told,
\* and the thread is not waited for.
QuitLoop ==
  /\ loop = "draining" /\ loop' = "gone" /\ open' = FALSE
  /\ told' = Tell(answers) /\ answers' = <<>> /\ inFlight' = 0
  /\ UNCHANGED <<jobs, worker, canWrite, awakened, copies, accepted>>

------------------------------------------------------------------------------
(* The worker thread *)

TakeJob ==
  /\ worker.at = "waiting" /\ jobs # <<>>
  /\ jobs' = Tail(jobs) /\ worker' = [at |-> "writing", text |-> Head(jobs), how |-> "none"]
  /\ UNCHANGED <<open, canWrite, answers, awakened, loop, copies, accepted, inFlight, told>>

\* Mutant: a panic of the library counts as an ordinary failure.
NothingStopsWriting(how) == FALSE

\* A panic of the clipboard library is caught and ends all further writes.
StopsWriting(how) == how = "panicked"

WriteClipboard ==
  /\ worker.at = "writing"
  /\ \E how \in IF canWrite THEN {"copied", "failed", "panicked"} ELSE {"stopped"} :
       /\ worker' = [worker EXCEPT !.at = "sending", !.how = how]
       /\ canWrite' = (canWrite /\ ~StopsWriting(how))
  /\ UNCHANGED <<jobs, open, answers, awakened, loop, copies, accepted, inFlight, told>>

\* events_sender.send fails once the UI is gone, which ends the thread.
SendAnswer ==
  /\ worker.at = "sending"
  /\ IF loop = "gone" THEN UNCHANGED answers /\ worker' = [worker EXCEPT !.at = "exiting"]
     ELSE /\ answers' = Append(answers, Said(worker.text, worker.how))
          /\ worker' = [worker EXCEPT !.at = "waking"]
  /\ UNCHANGED <<jobs, open, canWrite, awakened, loop, copies, accepted, inFlight, told>>

\* The wake follows the answer.  A closed and empty queue ends the thread,
\* whose exit wakes once more.
AfterWake == [Idle EXCEPT !.at = IF worker.at = "exiting" THEN "gone" ELSE "waiting"]

WakeLoop ==
  /\ worker.at \in {"waking", "exiting"}
  /\ awakened' = TRUE /\ worker' = AfterWake
  /\ UNCHANGED <<jobs, open, canWrite, answers, loop, copies, accepted, inFlight, told>>

QueueClosed ==
  /\ worker.at = "waiting" /\ jobs = <<>> /\ ~open
  /\ worker' = [Idle EXCEPT !.at = "exiting"]
  /\ UNCHANGED <<jobs, open, canWrite, answers, awakened, loop, copies, accepted, inFlight, told>>

ClipboardNext ==
  \/ CopySelection \/ DrainAnswers \/ Sleep \/ WaitForEvents \/ LoopIsWoken \/ KeyArrives
  \/ QuitLoop \/ TakeJob \/ WriteClipboard \/ SendAnswer \/ WakeLoop \/ QueueClosed

------------------------------------------------------------------------------
(* Properties *)

Texts(s) == [i \in DOMAIN s |-> s[i].text]
InHand == IF worker.at \in {"writing", "sending"} THEN <<worker.text>> ELSE <<>>
Answered == Select(told, [text : Nat, how : {"copied", "fallback"}])

\* While the UI lives, every text the queue took is in exactly one place, in
\* the order of the copies, and counted; once the library panicked no later
\* text is reported as copied; and a loop that sleeps on an answer has a wake
\* on its way.
CopiesAreAnswered ==
  /\ loop # "gone" =>
       /\ Texts(Answered) \o Texts(answers) \o InHand \o jobs = accepted
       /\ inFlight = Len(answers) + Len(InHand) + Len(jobs)
  /\ loop = "sleeping" /\ answers # <<>> => awakened \/ worker.at = "waking"
  /\ \A i, j \in DOMAIN answers :
       i < j /\ answers[i].how = "panicked" => answers[j].how = "stopped"

=============================================================================
