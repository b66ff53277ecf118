---------------------------- MODULE BashCommand ----------------------------
(***************************************************************************)
(* The bash tool: a shell in a process group of its own, perhaps with a    *)
(* process it left in the background, the pipe they write to, the task     *)
(* that reads it, and the select loop that collects the output and waits   *)
(* for the exit, a cancellation, a timeout and, after the exit, the drain  *)
(* timeout.  When several branches are ready any of them may be taken.     *)
(* The two pipes are one here: their order was never promised.  Output is  *)
(* counted in chunks, whose numbers tell them apart.                       *)
(***************************************************************************)
EXTENDS Naturals, SequencesExt

CONSTANTS
  MaxOutput,    (* chunks the result shows at most; twice as many are kept *)
  MaxChunks     (* bound: chunks written to the pipe                       *)

ASSUME BashConstantsOK == MaxOutput \in Nat \ {0} /\ MaxChunks \in Nat

VARIABLES
  shell,        (* "new", "running", "exited", "killed" or "reaped"           *)
  exit,         (* how the shell ended: "none", "ok", "code" or "signal"      *)
  background,   (* a process of the shell: "none", "grouped", "escaped", "gone" *)
  written,      (* chunks written so far                                      *)
  pipe,         (* chunks in the pipe                                         *)
  channel,      (* chunks the reader has sent to the loop                     *)
  reader,       (* "open", or "done" once it saw the end of the pipe          *)
  request,      (* [cancelled, timeout, expired]: what was asked of the tool  *)
  select,       (* [status, closed, reason, drain] of the loop                *)
  output,       (* OutputAccumulator: [prefix, tail, file]                    *)
  received,     (* history: the chunks that were appended                     *)
  terminal,     (* snapshots: "none", "open" or "released"                    *)
  result        (* "none", "success", "failed", "timedOut", "aborted", "error" *)

shellVars == <<shell, exit, background, written>>
pipeVars  == <<pipe, channel, reader>>
bashVars  == <<shell, exit, background, written, pipe, channel, reader, request, select,
               output, received, terminal, result>>

NoSpill == <<0>>
Alive      == shell = "running" \/ background \in {"grouped", "escaped"}
Running    == result = "none" /\ shell # "new"
HasExited  == select.status # "none"

BashInit ==
  /\ shell = "new" /\ exit = "none" /\ background = "none" /\ written = 0
  /\ pipe = <<>> /\ channel = <<>> /\ reader = "open"
  /\ request \in [cancelled : {FALSE}, timeout : BOOLEAN, expired : {FALSE}]
  /\ select = [status |-> "none", closed |-> FALSE, reason |-> "exited", drain |-> "off"]
  /\ output = [prefix |-> <<>>, tail |-> <<>>, file |-> NoSpill]
  /\ received = <<>> /\ terminal = "none" /\ result = "none"

(* execute_bash up to the loop: a call that was cancelled before, whose     *)
(* arguments are refused or whose shell does not start answers at once.     *)
RefuseCommand ==
  /\ shell = "new" /\ result = "none"
  /\ result' = "error"
  /\ UNCHANGED <<shellVars, pipeVars, request, select, output, received>>
  /\ \/ UNCHANGED terminal
     \/ ~request.cancelled /\ terminal' = "open"
Spawn ==
  /\ shell = "new" /\ result = "none" /\ ~request.cancelled
  /\ shell' = "running" /\ terminal' = "open"
  /\ UNCHANGED <<exit, background, written, pipeVars, request, select, output, received,
                 result>>

-----------------------------------------------------------------------------
(* The processes and the reader.                                            *)

WriteChunk ==
  /\ Alive /\ written < MaxChunks
  /\ written' = written + 1 /\ pipe' = Append(pipe, written + 1)
  /\ UNCHANGED <<shell, exit, background, channel, reader, request, select, output, received,
                 terminal, result>>
Detach ==
  /\ shell = "running" /\ background = "none"
  /\ background' \in {"grouped", "escaped"}
  /\ UNCHANGED <<shell, exit, written, pipeVars, request, select, output, received, terminal,
                 result>>
ShellExits ==
  /\ shell = "running" /\ shell' = "exited" /\ exit' \in {"ok", "code", "signal"}
  /\ UNCHANGED <<background, written, pipeVars, request, select, output, received, terminal,
                 result>>
BackgroundExits ==
  /\ background \in {"grouped", "escaped"} /\ background' = "gone"
  /\ UNCHANGED <<shell, exit, written, pipeVars, request, select, output, received, terminal,
                 result>>

(* read_pipe, which stops when nobody receives any more.                    *)
ReadChunk ==
  /\ reader = "open" /\ pipe # <<>> /\ shell # "new"
  /\ IF result = "none" THEN channel' = Append(channel, Head(pipe)) /\ UNCHANGED reader
     ELSE reader' = "done" /\ UNCHANGED channel
  /\ pipe' = Tail(pipe)
  /\ UNCHANGED <<shellVars, request, select, output, received, terminal, result>>
ReadEnd ==
  /\ reader = "open" /\ pipe = <<>> /\ shell # "new" /\ ~Alive
  /\ reader' = "done"
  /\ UNCHANGED <<shellVars, pipe, channel, request, select, output, received, terminal, result>>

CancelCommand ==
  /\ ~request.cancelled /\ result = "none"
  /\ request' = [request EXCEPT !.cancelled = TRUE]
  /\ UNCHANGED <<shellVars, pipeVars, select, output, received, terminal, result>>
TimeoutExpires ==
  /\ Running /\ request.timeout /\ ~request.expired
  /\ request' = [request EXCEPT !.expired = TRUE]
  /\ UNCHANGED <<shellVars, pipeVars, select, output, received, terminal, result>>

-----------------------------------------------------------------------------
(* OutputAccumulator.                                                       *)

LastOf(s, n) == IF Len(s) <= n THEN s ELSE SubSeq(s, Len(s) - n + 1, Len(s))

(* Mutant: the file starts with the chunk that was too much.                *)
AppendedWithoutPrefix(acc, seen, chunk) ==
  [prefix |-> acc.prefix,
   tail   |-> LastOf(Append(acc.tail, chunk), 2 * MaxOutput),
   file   |-> IF acc.file # NoSpill THEN Append(acc.file, chunk)
              ELSE IF Len(seen) + 1 > MaxOutput THEN <<chunk>> ELSE NoSpill]

(* append_text: everything is kept in memory until it is too much for the   *)
(* result; from then on the file has it all and memory only the end.        *)
Appended(acc, seen, chunk) ==
  IF acc.file = NoSpill /\ Len(seen) + 1 <= MaxOutput
  THEN [prefix |-> Append(acc.prefix, chunk), tail |-> Append(acc.tail, chunk),
        file   |-> NoSpill]
  ELSE [prefix |-> <<>>,
        tail   |-> LastOf(Append(acc.tail, chunk), 2 * MaxOutput),
        file   |-> Append(IF acc.file = NoSpill THEN acc.prefix ELSE acc.file, chunk)]

Truncated == Len(received) > MaxOutput
Shown == IF Truncated THEN LastOf(output.tail, MaxOutput) ELSE output.tail

-----------------------------------------------------------------------------
(* The branches of the select loop.                                         *)

InLoop == Running /\ ~(HasExited /\ select.closed)

(* The temporary file may fail to be created or written: the tool answers   *)
(* with the error, and dropping the child kills the shell alone.            *)
DropChild ==
  /\ shell' = IF shell = "running" THEN "killed" ELSE shell
  /\ exit'  = IF shell = "running" THEN "signal" ELSE exit
AppendChunk ==
  /\ InLoop /\ ~select.closed /\ channel # <<>>
  /\ channel' = Tail(channel)
  /\ \/ /\ received' = Append(received, Head(channel))
        /\ output' = Appended(output, received, Head(channel))
        /\ UNCHANGED <<shell, exit, result>>
     \/ /\ Len(received) + 1 > MaxOutput
        /\ result' = "error" /\ DropChild
        /\ UNCHANGED <<received, output>>
  /\ UNCHANGED <<background, written, pipe, reader, request, select, terminal>>

ChannelEnds ==
  /\ InLoop /\ ~select.closed /\ channel = <<>> /\ reader = "done"
  /\ select' = [select EXCEPT !.closed = TRUE]
  /\ UNCHANGED <<shellVars, pipeVars, request, output, received, terminal, result>>

(* Mutant: the output is waited for as long as it takes.                    *)
NoDrain == "off"

(* The drain timeout is armed with the exit.                                *)
DrainArmed == "armed"

WaitReturns ==
  /\ InLoop /\ ~HasExited /\ shell \in {"exited", "killed"}
  /\ shell' = "reaped"
  /\ select' = [select EXCEPT !.status = exit, !.drain = DrainArmed]
  /\ UNCHANGED <<exit, background, written, pipeVars, request, output, received, terminal,
                 result>>

(* kill_process_tree: the group of the shell, which is not reaped yet.      *)
KilledWithGroup(process) == IF process = "grouped" THEN "gone" ELSE process

Kill(reason) ==
  /\ InLoop /\ ~HasExited /\ select.reason = "exited"
  /\ select' = [select EXCEPT !.reason = reason]
  /\ DropChild
  /\ background' = KilledWithGroup(background)
  /\ UNCHANGED <<written, pipeVars, request, output, received, terminal, result>>
KillOnCancel  == request.cancelled /\ Kill("cancelled")
KillOnTimeout == request.expired /\ Kill("timedOut")

DrainExpires ==
  /\ InLoop /\ HasExited /\ ~select.closed /\ select.drain = "armed"
  /\ select' = [select EXCEPT !.closed = TRUE, !.drain = "expired"]
  /\ UNCHANGED <<shellVars, pipeVars, request, output, received, terminal, result>>

(* The end of execute_bash.                                                 *)
AnswerCall ==
  /\ Running /\ HasExited /\ select.closed
  /\ result' = CASE select.reason = "timedOut"  -> "timedOut"
                 [] select.reason = "cancelled" -> "aborted"
                 [] OTHER -> IF select.status = "ok" THEN "success" ELSE "failed"
  /\ terminal' = "released"
  /\ UNCHANGED <<shellVars, pipeVars, request, select, output, received>>

Loop == AppendChunk \/ ChannelEnds \/ WaitReturns \/ KillOnCancel \/ KillOnTimeout \/ AnswerCall
BashNext ==
  \/ RefuseCommand \/ Spawn
  \/ WriteChunk \/ Detach \/ ShellExits \/ BackgroundExits \/ ReadChunk \/ ReadEnd
  \/ CancelCommand \/ TimeoutExpires
  \/ Loop \/ DrainExpires

(* Once the shell was started the tool's task, its readers and its timers   *)
(* run; nothing is assumed of the processes it started.                     *)
BashFairness ==
  /\ WF_bashVars(AppendChunk) /\ WF_bashVars(ChannelEnds)
  /\ WF_bashVars(WaitReturns) /\ WF_bashVars(KillOnCancel) /\ WF_bashVars(KillOnTimeout)
  /\ WF_bashVars(AnswerCall) /\ WF_bashVars(DrainExpires)
  /\ WF_bashVars(ReadChunk) /\ WF_bashVars(ReadEnd)

-----------------------------------------------------------------------------
(* A result of success means a shell that ended by itself with code 0, and  *)
(* one that says aborted or timed out that it was asked to and was in time. *)
ResultTellsTheEnd ==
  /\ result = "success" => exit = "ok" /\ select.reason = "exited"
  /\ result = "aborted" => request.cancelled
  /\ result = "timedOut" => request.expired
  /\ result \in {"aborted", "timedOut"} => shell = "reaped"

(* A command that was killed leaves no process of its group behind.         *)
NoneOfTheGroupSurvives ==
  result \in {"aborted", "timedOut"} => background # "grouped"

(* What the command wrote is in the result, or its end is and all of it is  *)
(* in the file; nothing that was written before the end is missing unless   *)
(* the wait for the output was given up.                                    *)
NoOutputIsLost ==
  result \notin {"none", "error"} =>
    /\ Truncated => output.file = received /\ Shown = LastOf(received, MaxOutput)
    /\ ~Truncated => Shown = received
    /\ select.drain # "expired" => received = [i \in 1..written |-> i]

CommandOutcomeIsTrue == ResultTellsTheEnd /\ NoneOfTheGroupSurvives /\ NoOutputIsLost

(* The tool answers once the shell has ended or was cancelled or timed out, *)
(* whoever still holds the pipe.                                            *)
CommandEnds ==
  (Running /\ (shell # "running" \/ request.cancelled \/ request.expired)) ~> (result # "none")
=============================================================================
