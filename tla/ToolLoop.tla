------------------------------ MODULE ToolLoop ------------------------------
(***************************************************************************)
(* run_tool_loop with the OpenAI-compatible provider under it: the frames  *)
(* of a response, the accumulator that puts its tool calls together, the   *)
(* state of the turn that counts what was generated, the batch of tools    *)
(* and the history the next request is made of.                            *)
(*                                                                         *)
(* Text, arguments and output come in pieces that know where they belong,  *)
(* so that what is shown, stored and counted can be compared.  A frame     *)
(* carries one delta.  The count of output tokens is the set of the pieces *)
(* counted; text is always counted as it is shown, which is left out, as   *)
(* are request options, usage reports and durations.                       *)
(***************************************************************************)
EXTENDS Integers, SequencesExt

CONSTANTS
  CallIds,        (* what a provider names its tool calls                  *)
  NoId,           (* no name yet                                           *)
  Indexes,        (* positions of a response's outputs                     *)
  MaxToolTurns,   (* tool_max_turns                                        *)
  Window,         (* pieces of a command's output a snapshot shows         *)
  MaxFrames,      (* bound: frames that carry a delta                      *)
  MaxPrinted      (* bound: pieces of output of one command                *)

ASSUME ToolLoopConstantsOK ==
  /\ NoId \notin CallIds /\ Indexes \subseteq Nat /\ MaxToolTurns \in Nat
  /\ Window \in Nat \ {0} /\ MaxFrames \in Nat /\ MaxPrinted \in Nat

VARIABLES
  format,         (* "chat" or "responses"                                 *)
  place,          (* "next", "stream", "batch", "running" or how it ended  *)
  stopping,       (* the token                                             *)
  items,          (* the history of the request, as emitted and appended   *)
  toolTurns,      (* tool_turns                                            *)
  acc,            (* what the stream state has put together                *)
  frames,         (* deltas so far                                         *)
  seen,           (* RuntimeTurnState                                      *)
  shown,          (* history: text of this response as it was shown        *)
  calls,          (* the tool calls of the response, in order              *)
  results,        (* the results of the batch so far                       *)
  printed         (* output of the command that runs                       *)

loopVars == <<format, place, stopping, items, toolTurns, acc, frames, seen, shown, calls,
              results, printed>>
streamVars == <<acc, frames, shown>>
Ended == {"completed", "cancelled", "limit", "error"}

Piece(of, at, n) == [turn |-> toolTurns, of |-> of, at |-> at, n |-> n]
Nothing == [i \in {} |-> <<>>]
At(f, x) == IF x \in DOMAIN f THEN f[x] ELSE <<>>
Set(f, x, v) == [y \in DOMAIN f \cup {x} |-> IF y = x THEN v ELSE f[y]]
NewPartial == [id |-> NoId, named |-> FALSE, args |-> <<>>]
NewAcc == [partials |-> [i \in {} |-> NewPartial], started |-> {}, text |-> Nothing,
           thought |-> FALSE, finish |-> "none"]

-----------------------------------------------------------------------------
(* state.rs: what each event of the stream does to the state of the turn.   *)

Counted(s, pieces) ==
  [s EXCEPT !.counted = @ \cup ToSet(pieces),
            !.twice = @ \/ ToSet(pieces) \cap s.counted # {}]

ObserveText(s) == [s EXCEPT !.thinking = FALSE]
ObserveReasoning(s) == [s EXCEPT !.thinking = TRUE]
ObserveStarted(s, i, id) ==
  [s EXCEPT !.idOf = Set(@, i, id),
            !.byId = IF i \in DOMAIN s.byIndex THEN Set(@, id, s.byIndex[i]) ELSE @]
ObserveArguments(s, i, piece) ==
  LET args == Append(At(s.byIndex, i), piece)
  IN  Counted([s EXCEPT !.thinking = FALSE, !.byIndex = Set(@, i, args),
                        !.byId = IF i \in DOMAIN s.idOf THEN Set(@, s.idOf[i], args) ELSE @],
              <<piece>>)

ObserveCompleted(s, i, id, args) ==
  LET known == [s EXCEPT !.idOf = Set(@, i, id)] IN
  IF id \in DOMAIN s.byId
  THEN [known EXCEPT !.byIndex = IF i \in DOMAIN @ THEN @ ELSE Set(@, i, s.byId[id])]
  ELSE IF i \in DOMAIN s.byIndex
  THEN [known EXCEPT !.byId = Set(@, id, s.byIndex[i])]
  ELSE Counted([known EXCEPT !.thinking = FALSE, !.byIndex = Set(@, i, args),
                             !.byId = Set(@, id, args)], args)

(* terminal_output_delta: what a snapshot shows that the one before did not.*)
TerminalDelta(previous, current) ==
  IF IsPrefix(previous, current) THEN SubSeq(current, Len(previous) + 1, Len(current))
  ELSE LET overlap == {n \in 0..Len(current) : IsSuffix(SubSeq(current, 1, n), previous)}
       IN  SubSeq(current, Max(overlap) + 1, Len(current))

ObserveSnapshot(s, id, output) ==
  [Counted(s, TerminalDelta(At(s.terminal, id), output))
     EXCEPT !.terminal = Set(@, id, output)]

(* observe_tool_activity_output: the result of a tool, unless it repeats    *)
(* arguments that were counted.                                             *)
ObserveResult(s, id, content, repeats) ==
  IF repeats /\ id \in DOMAIN s.byId THEN s
  ELSE Counted(s, TerminalDelta(At(s.terminal, id), content))

-----------------------------------------------------------------------------
(* The stream: chat.rs, responses.rs and tool_calls.rs.                     *)

LoopInit ==
  /\ format \in {"chat", "responses"}
  /\ place = "next" /\ stopping = FALSE /\ toolTurns = 0
  /\ items = <<[kind |-> "user", calls |-> <<>>]>>
  /\ acc = NewAcc /\ frames = 0 /\ shown = <<>>
  /\ seen = [thinking |-> FALSE, idOf |-> [i \in {} |-> NoId], byIndex |-> Nothing,
             byId |-> Nothing, terminal |-> Nothing, counted |-> {}, twice |-> FALSE]
  /\ calls = <<>> /\ results = <<>> /\ printed = <<>>

(* validate_openai_projection_items: every call is answered before the next *)
(* message or thought, no result is unasked for, no id is used twice.       *)
IdsOf(item) == {item.calls[k].id : k \in DOMAIN item.calls}
Validate(st, item) ==
  LET new == IdsOf(item) IN
  IF item.kind = "result"
  THEN [ok |-> st.ok /\ new \subseteq st.open, open |-> st.open \ new, all |-> st.all]
  ELSE [ok |-> /\ st.ok /\ st.open = {} /\ new \cap st.all = {}
               /\ Cardinality(new) = Len(item.calls),
        open |-> new, all |-> st.all \cup new]
Validated(history) ==
  LET after[k \in 0..Len(history)] ==
        IF k = 0 THEN [ok |-> TRUE, open |-> {}, all |-> {}]
        ELSE Validate(after[k - 1], history[k])
  IN  after[Len(history)]
Valid(history) == Validated(history).ok /\ Validated(history).open = {}

(* stream_provider_turn up to the first frame.  A history the provider      *)
(* cannot project is an error before anything is sent.                      *)
StartProviderTurn ==
  /\ place = "next"
  /\ place' = IF stopping THEN "cancelled" ELSE IF Valid(items) THEN "stream" ELSE "error"
  /\ acc' = NewAcc /\ shown' = <<>>
  /\ UNCHANGED <<format, stopping, items, toolTurns, frames, seen, calls, results, printed>>

Frame ==
  /\ place = "stream" /\ frames < MaxFrames /\ acc.finish = "none"
  /\ frames' = frames + 1
  /\ UNCHANGED <<format, stopping, items, toolTurns, calls, results, printed>>
FrameFails == place' = "error" /\ UNCHANGED <<acc, seen, shown>>

(* A text delta; or the final text of an output, which may hold more than   *)
(* was streamed, but nothing else.  Outputs come one after the other, and   *)
(* chat has only one.                                                       *)
TextDelta(i) ==
  /\ Frame /\ i \notin DOMAIN acc.partials
  /\ \A j \in DOMAIN acc.text : j <= i
  /\ format = "chat" => i = 0
  /\ LET piece == Piece("text", i, Len(At(acc.text, i)) + 1)
     IN  /\ acc' = [acc EXCEPT !.text = Set(@, i, Append(At(@, i), piece))]
         /\ shown' = Append(shown, piece) /\ seen' = ObserveText(seen)
  /\ UNCHANGED place
FinalTextReplaces == Frame /\ format = "responses" /\ DOMAIN acc.text # {} /\ FrameFails

ReasoningDelta ==
  /\ Frame /\ acc' = [acc EXCEPT !.thought = TRUE]
  /\ seen' = ObserveReasoning(seen) /\ UNCHANGED <<place, shown>>

(* apply_call_id and apply_name: neither may change once it was announced.  *)
ChangesStarted(a, i, id, named) ==
  i \in a.started /\ \/ id \notin {NoId, a.partials[i].id}
                     \/ named = "other"

(* apply_chat_delta, apply_responses_item and append_arguments_delta: an    *)
(* id, a name and a piece of arguments, each of them perhaps.               *)
CallDelta(i, id, named, more) ==
  /\ Frame /\ i \notin DOMAIN acc.text
  /\ id # NoId \/ named # "no" \/ more
  /\ IF ChangesStarted(acc, i, id, named) THEN FrameFails
     ELSE LET old == IF i \in DOMAIN acc.partials THEN acc.partials[i] ELSE NewPartial
              piece == Piece("args", i, Len(old.args) + 1)
              new == [id |-> IF id = NoId THEN old.id ELSE id,
                      named |-> old.named \/ named # "no",
                      args |-> IF more THEN Append(old.args, piece) ELSE old.args]
              starts == i \notin acc.started /\ new.id # NoId /\ new.named
              heard == IF more THEN ObserveArguments(seen, i, piece) ELSE seen
          IN  /\ acc' = [acc EXCEPT !.partials = Set(@, i, new),
                                    !.started = IF starts THEN @ \cup {i} ELSE @]
              /\ seen' = IF starts THEN ObserveStarted(heard, i, new.id) ELSE heard
              /\ UNCHANGED <<place, shown>>
(* replace_arguments: final arguments that are not an extension.            *)
FinalArgumentsReplace ==
  /\ Frame /\ format = "responses"
  /\ \E i \in DOMAIN acc.partials : acc.partials[i].args # <<>>
  /\ FrameFails

(* finish_reason, or the terminal event of a response.                      *)
FinishReason(reason) ==
  /\ place = "stream" /\ acc.finish = "none"
  /\ reason \in {"stop", "length"} \cup (IF format = "chat" THEN {"tool_calls"} ELSE {})
  /\ acc' = [acc EXCEPT !.finish = reason]
  /\ UNCHANGED <<format, place, stopping, items, toolTurns, frames, seen, shown, calls, results,
                 printed>>

(* finalized_calls: in the order of their indexes; no arguments are "{}".   *)
Ascending(S) ==
  [k \in 1..Cardinality(S) |-> CHOOSE i \in S : Cardinality({j \in S : j < i}) = k - 1]
Indexed(a) == Ascending(DOMAIN a.partials)
FinalArguments(a, i) ==
  IF a.partials[i].args = <<>> THEN <<Piece("args", i, 0)>> ELSE a.partials[i].args
FinalCalls(a) ==
  [k \in DOMAIN Indexed(a) |->
     LET i == Indexed(a)[k]
     IN  [index |-> i, id |-> a.partials[i].id, args |-> FinalArguments(a, i)]]
TakesCalls(a) ==
  \/ a.finish \in {"tool_calls", "stop"}
  \/ a.finish = "none" /\ format = "chat"
StoredText(a) ==
  LET at == Ascending(DOMAIN a.text)
      upTo[k \in 0..Len(at)] == IF k = 0 THEN <<>> ELSE upTo[k - 1] \o a.text[at[k]]
  IN  upTo[Len(at)]

(* The two passes over the completed calls: under their own indexes, then   *)
(* under their positions.                                                   *)
AllCompleted(s, final) ==
  LET flat == [k \in DOMAIN final |-> [final[k] EXCEPT !.index = k - 1]]
      both == final \o flat
      after[k \in 0..Len(both)] ==
        IF k = 0 THEN s
        ELSE ObserveCompleted(after[k - 1], both[k].index, both[k].id, both[k].args)
  IN  after[Len(both)]

(* The items of a response: its thoughts, and the message with its calls.   *)
Emitted(a, final) ==
  (IF a.thought THEN <<[kind |-> "reasoning", calls |-> <<>>]>> ELSE <<>>)
  \o (IF final # <<>> \/ StoredText(a) # <<>>
      THEN <<[kind |-> "assistant", calls |-> final]>> ELSE <<>>)

(* finish, when the stream ends, and what run_tool_loop makes of it: an     *)
(* answer, one batch too many, or a batch.                                  *)
FinishStream ==
  /\ place = "stream"
  /\ LET final == IF TakesCalls(acc) THEN FinalCalls(acc) ELSE <<>>
         missing == \E k \in DOMAIN final : \/ final[k].id = NoId
                                            \/ ~acc.partials[final[k].index].named
     IN  IF missing \/ (format = "responses" /\ acc.finish = "none")
         THEN place' = "error" /\ UNCHANGED <<items, toolTurns, seen, calls, results>>
         ELSE /\ seen' = AllCompleted(seen, final) /\ calls' = final /\ results' = <<>>
              /\ IF final = <<>>
                 THEN /\ place' = "completed" /\ items' = items \o Emitted(acc, final)
                      /\ UNCHANGED toolTurns
                 ELSE IF toolTurns >= MaxToolTurns
                 THEN place' = "limit" /\ UNCHANGED <<items, toolTurns>>
                 ELSE /\ place' = "batch" /\ items' = items \o Emitted(acc, final)
                      /\ toolTurns' = toolTurns + 1
  /\ UNCHANGED <<format, stopping, acc, frames, shown, printed>>

(* Failed, error, a connection that broke, or the cancellation.             *)
StreamFails ==
  /\ place = "stream" /\ place' = IF stopping THEN "cancelled" ELSE "error"
  /\ UNCHANGED <<format, stopping, items, toolTurns, streamVars, seen, calls, results, printed>>
Cancel ==
  /\ ~stopping /\ place \notin Ended /\ stopping' = TRUE
  /\ UNCHANGED <<format, place, items, toolTurns, streamVars, seen, calls, results, printed>>

-----------------------------------------------------------------------------
(* The batch.                                                               *)

Call == calls[Len(results) + 1]
CallsWait == Len(results) < Len(calls)

(* A result is made of its tool's output, or of a message of the loop.      *)
ReturnResult(content, repeats, terminates) ==
  /\ results' = Append(results, [id |-> Call.id, terminates |-> terminates])
  /\ seen' = ObserveResult(seen, Call.id, content, repeats)
  /\ place' = "batch" /\ printed' = <<>>
  /\ UNCHANGED <<format, stopping, items, toolTurns, streamVars, calls>>

(* Interrupted by the cancellation, arguments that are no JSON, a call that *)
(* was denied, or whose preview failed: no tool runs.                       *)
ReturnWithoutRunning == place = "batch" /\ CallsWait /\ ReturnResult(<<>>, FALSE, FALSE)
RunTool ==
  /\ place = "batch" /\ CallsWait /\ ~stopping
  /\ place' = "running" /\ printed' = <<>>
  /\ UNCHANGED <<format, stopping, items, toolTurns, streamVars, seen, calls, results>>

LastPieces(output) ==
  IF Len(output) <= Window THEN output
  ELSE SubSeq(output, Len(output) - Window + 1, Len(output))
CommandPrints ==
  /\ place = "running" /\ Len(printed) < MaxPrinted
  /\ printed' = Append(printed, Piece("output", Call.index, Len(printed) + 1))
  /\ UNCHANGED <<format, place, stopping, items, toolTurns, streamVars, seen, calls, results>>
TerminalUpdated ==
  /\ place = "running" /\ printed # <<>>
  /\ seen' = ObserveSnapshot(seen, Call.id, LastPieces(printed))
  /\ UNCHANGED <<format, place, stopping, items, toolTurns, streamVars, calls, results, printed>>
(* A command ends with its output, a write with what it changed; either may *)
(* end the turn.                                                            *)
CommandReturns ==
  /\ place = "running" /\ \E terminates \in BOOLEAN : ReturnResult(LastPieces(printed), FALSE, terminates)
WriteReturns ==
  /\ place = "running" /\ printed = <<>>
  /\ ReturnResult(<<Piece("diff", Call.index, 1)>>, TRUE, FALSE)

(* Mutant: a stopping batch leaves the results it does not send again.     *)
ResultsUnlessCancelled ==
  IF stopping THEN <<>>
  ELSE [k \in DOMAIN results |-> [kind |-> "result", calls |-> <<calls[k]>>]]

ResultItems == [k \in DOMAIN results |-> [kind |-> "result", calls |-> <<calls[k]>>]]
EndBatch ==
  /\ place = "batch" /\ ~CallsWait
  /\ items' = items \o ResultItems
  /\ place' = IF stopping THEN "cancelled"
           ELSE IF \A k \in DOMAIN results : results[k].terminates THEN "completed" ELSE "next"
  /\ UNCHANGED <<format, stopping, toolTurns, streamVars, seen, calls, results, printed>>

LoopNext ==
  \/ StartProviderTurn \/ ReasoningDelta \/ FinalTextReplaces \/ FinalArgumentsReplace
  \/ \E i \in Indexes : TextDelta(i)
  \/ \E i \in Indexes, id \in CallIds \cup {NoId}, named \in {"no", "yes", "other"},
        more \in BOOLEAN : CallDelta(i, id, named, more)
  \/ \E reason \in {"stop", "length", "tool_calls"} : FinishReason(reason)
  \/ FinishStream \/ StreamFails \/ Cancel
  \/ ReturnWithoutRunning \/ RunTool \/ CommandPrints \/ TerminalUpdated \/ CommandReturns
  \/ WriteReturns \/ EndBatch

LoopSpec == LoopInit /\ [][LoopNext]_loopVars
-----------------------------------------------------------------------------
(* What the user, the next request and the counters rely on.                *)

NamesAreFresh ==
  \A k, m \in {n \in DOMAIN items : items[n].kind = "assistant"} :
    \A i \in DOMAIN items[k].calls, j \in DOMAIN items[m].calls :
      items[k].calls[i].id = items[m].calls[j].id => k = m /\ i = j

(* Whenever the loop stops, finished, cancelled or failed, in a stream or   *)
(* within a batch, the history it leaves can be sent again: each call has   *)
(* its one result.  A provider that uses the name of a call twice is the    *)
(* exception, and spoils the history for good.                              *)
HistoryCanBeContinued ==
  place \in Ended \cup {"next"} /\ NamesAreFresh => Valid(items)

(* What was shown while the response came in is what is stored of it, and a *)
(* call that runs has the name it was announced with, its arguments in the  *)
(* order in which they came, and none that belong to another.               *)
CompletionIsWhatWasStreamed ==
  /\ place # "error" => StoredText(acc) = shown
  /\ place \in {"batch", "running"} =>
       \A k \in DOMAIN calls :
         LET c == calls[k] IN
         /\ c.index \in acc.started /\ acc.partials[c.index].id = c.id
         /\ c.args # <<>>
         /\ \A n \in DOMAIN c.args :
              /\ c.args[n].at = c.index /\ c.args[n].turn = toolTurns - 1
              /\ c.args[n].n \in {0, n}

(* Nothing that was generated or printed is counted twice: not when the     *)
(* call is complete, nor when snapshots overlap, nor as the change that a   *)
(* write made of its arguments.                                             *)
NothingIsCountedTwice ==
  /\ ~seen.twice
  /\ \A p \in seen.counted, q \in seen.counted :
       ~(p.of = "args" /\ q.of = "diff" /\ q.turn = p.turn + 1 /\ q.at = p.at)

(* The arguments of every call are counted by the time its tool may run.    *)
EveryArgumentIsCounted ==
  place = "batch" /\ NamesAreFresh =>
    \A k \in DOMAIN calls : ToSet(calls[k].args) \subseteq seen.counted

LoopIsSound ==
  HistoryCanBeContinued /\ CompletionIsWhatWasStreamed /\ NothingIsCountedTwice
=============================================================================
