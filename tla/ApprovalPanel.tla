---------------------------- MODULE ApprovalPanel ----------------------------
(* How a permission request reaches the eyes of the user: the approval panel *)
(* of the terminal UI, the fullscreen layers that may cover it, the document *)
(* viewport that may be scrolled away from it, and the two pills on the left *)
(* edge that stand for what is not seen.  A runtime event is applied by the  *)
(* loop between two keys, so it meets the screen in any of its states.       *)
(*                                                                           *)
(* The text, the transcript and the composer are abstracted to what moves    *)
(* the viewport; events are applied in the order they are sent.              *)

CONSTANT StoreMayFail  \* a load of the session store may fail while a turn waits

ASSUME ApprovalAssumption == StoreMayFail \in BOOLEAN

ModalLayers == {"transcript", "prompt", "preview", "picker", "list"}
Views == {"bottom", "composer", "fromBottom", "fromComposer"}
Loads == {"list", "repaired", "preview", "resume", "leaf"}

VARIABLES
  screen,  \* what the model of the UI shows, see ApprovalTypeOK
  turn,    \* the conversation worker: "none", "running" or "cancelling"
  asked,   \* a tool call waits for the user's answer
  loads    \* session loads the store worker has still to answer

approvalVars == <<screen, turn, asked, loads>>

ApprovalInit ==
  /\ screen \in [layers : {{}}, panel : {"none"}, tall : {FALSE}, full : {FALSE},
                 view : {"bottom"}, inline : {"none"}, unread : {FALSE},
                 pending : {FALSE}, busy : {FALSE}, roomy : BOOLEAN]
  /\ turn = "none"
  /\ asked = FALSE
  /\ loads = {}

-----------------------------------------------------------------------------
(* What is seen.                                                             *)

\* The layer keys go to, from the top down.
Top(s) ==
  CASE s.full -> "approval"
    [] ~s.full /\ "transcript" \in s.layers -> "transcript"
    [] ~s.full /\ "transcript" \notin s.layers /\ "prompt" \in s.layers -> "prompt"
    [] ~s.full /\ s.layers \cap {"transcript", "prompt"} = {} /\ "preview" \in s.layers -> "preview"
    [] ~s.full /\ s.layers \subseteq {"picker", "list"} /\ "picker" \in s.layers -> "picker"
    [] ~s.full /\ s.layers = {"list"} -> "list"
    [] OTHER -> "none"

AtEnd(s) == s.view = "bottom" /\ Top(s) = "none"

Visible(s) == s.panel # "none" /\ (s.full \/ AtEnd(s))

\* A preview too tall for the window takes the whole of it, once it is seen.
SyncPreview(s) == [s EXCEPT !.full = Visible(s) /\ s.tall /\ ~s.roomy]

SyncPill(s) == [s EXCEPT !.pending = @ /\ s.panel # "none" /\ ~Visible(s)]

ClearUnread(s) == [s EXCEPT !.unread = @ /\ ~AtEnd(s)]

-----------------------------------------------------------------------------
(* The viewport.  It follows the end, or the composer's cursor, or the user  *)
(* holds it by hand and it remembers which of the two to return to.          *)

ByHand(s) == s.view \in {"fromBottom", "fromComposer"}
Home(s) == IF s.view \in {"bottom", "fromBottom"} THEN "bottom" ELSE "composer"

\* A mutation: the viewport moves and the pills are left as they were.
PlaceOnly(s, view) ==
  LET moved == [s EXCEPT !.view = view]
  IN  IF s.view # "bottom" /\ view = "bottom" THEN SyncPreview(moved) ELSE moved

Place(s, view) ==
  LET moved == SyncPill(ClearUnread([s EXCEPT !.view = view]))
  IN  IF s.view # "bottom" /\ view = "bottom" THEN SyncPreview(moved) ELSE moved

Stay(s) == Place(s, s.view)
FollowCursor(s) == Place(s, IF s.view = "bottom" THEN "bottom" ELSE "composer")

\* New lines may bring a viewport held by hand to where it would return.
Settled(s) == {Stay(s)} \cup (IF ByHand(s) THEN {Place(s, Home(s))} ELSE {})

\* What the runtime writes is followed, unless the user holds the viewport.
Refreshed(s) == IF ByHand(s) THEN Settled(s) ELSE {Place([s EXCEPT !.view = "bottom"], "bottom")}

OrRefreshed(S) == S \cup UNION {Refreshed(s) : s \in S}

-----------------------------------------------------------------------------
(* Layers and panels.                                                        *)

\* After a key that the top layer took.
LayerClosed(s, before) ==
  IF Top(s) = before THEN s ELSE ClearUnread(SyncPill(SyncPreview(s)))

\* Closing the prompt overlay may write a notice.
Without(s, layer) ==
  LET closed == {[s EXCEPT !.layers = @ \ {layer}]}
  IN  IF layer = "prompt" THEN OrRefreshed(closed) ELSE closed

\* All fullscreen layers but the approval's own, one after the other.
Uncovered(s) ==
  IF s.full THEN {s}
  ELSE {[t EXCEPT !.layers = {}] :
          t \in UNION {IF "prompt" \in s.layers THEN Without(u, "prompt") ELSE {u} :
                         u \in Without(s, "transcript")}}

CloseInline(s) == IF s.inline = "none" THEN s ELSE FollowCursor([s EXCEPT !.inline = "none"])

OpenPanel(s, source, tall) ==
  LET opened == SyncPreview([CloseInline(s) EXCEPT !.panel = source, !.tall = tall, !.full = FALSE])
      placed == Place(opened, IF source = "runtime" THEN opened.view ELSE "bottom")
  IN  IF source = "runtime"
      THEN SyncPreview([placed EXCEPT !.pending = @ \/ ~Visible(placed)])
      ELSE placed

ClosePanel(s) ==
  IF s.panel = "none" THEN {s}
  ELSE {Stay(t) : t \in OrRefreshed({[s EXCEPT !.panel = "none", !.tall = FALSE,
                                               !.full = FALSE, !.pending = FALSE]})}

CloseRuntimePanel(s) == IF s.panel = "runtime" THEN ClosePanel(s) ELSE {s}

-----------------------------------------------------------------------------
(* Events of the runtime.                                                    *)

Finished(t) == [t EXCEPT !.busy = FALSE]

\* A turn's end, as far as the screen goes: its approval panel is closed, what
\* is left to print is printed and the activity line is taken away.
Over(s) == {Finished(t) : t \in OrRefreshed(CloseRuntimePanel(s))}

\* A mutation: only a layer on top of the panel makes the pill appear.
RequestUnmarked ==
  /\ turn = "running" /\ ~asked
  /\ asked' = TRUE
  /\ \E tall \in BOOLEAN, s \in OrRefreshed({screen}) :
       screen' = [OpenPanel(s, "runtime", tall) EXCEPT !.pending = @ /\ s.layers # {}]
  /\ UNCHANGED <<turn, loads>>

\* The turn asks; a request on its way when the turn is cancelled is shown too.
Request ==
  /\ turn # "none" /\ ~asked /\ screen.panel # "runtime"
  /\ asked' = (turn = "running")
  /\ \E tall \in BOOLEAN, s \in OrRefreshed({screen}) : screen' = OpenPanel(s, "runtime", tall)
  /\ UNCHANGED <<turn, loads>>

\* The worker gives up the turn that waits; the screen learns of it at its end.
RequestLapses ==
  /\ asked
  /\ asked' = FALSE
  /\ turn' = "cancelling"
  /\ UNCHANGED <<screen, loads>>

\* Text, reasoning, tool activity: only a turn that is not waiting speaks.
Content ==
  /\ turn # "none" /\ ~asked
  /\ \E s \in OrRefreshed({screen}), busy \in {screen.busy, TRUE} : screen' = [s EXCEPT !.busy = busy]
  /\ UNCHANGED <<turn, asked, loads>>

Retrying ==
  /\ turn # "none" /\ ~asked
  /\ \E s \in CloseRuntimePanel(screen) : screen' \in OrRefreshed({[s EXCEPT !.busy = TRUE]})
  /\ UNCHANGED <<turn, asked, loads>>

MessageFinished ==
  /\ turn # "none" /\ ~asked
  /\ \E s \in Over(screen) : screen' = [s EXCEPT !.unread = @ \/ ~AtEnd(s)]
  /\ turn' = "none"
  /\ UNCHANGED <<asked, loads>>

\* Failed, Interrupted or Stopped, of the turn's own.
TurnEnds ==
  /\ turn # "none"
  /\ turn' = "none" /\ asked' = FALSE
  /\ screen' \in Over(screen)
  /\ UNCHANGED loads

\* The list is shown twice, as cached and as repaired; either opens the picker.
LayerLoaded(load) ==
  /\ load \in loads \cap {"list", "repaired", "preview"}
  /\ loads' = (loads \ {load}) \cup (IF load = "list" THEN {"repaired"} ELSE {})
  /\ screen' = [screen EXCEPT !.layers = @ \cup {IF load = "preview" THEN "preview" ELSE "picker"}]
  /\ UNCHANGED <<turn, asked>>

\* The repaired list is the cached one, the rewind is to where the session is,
\* or the leaf is set: nothing to show.
NothingLoaded(load) ==
  /\ load \in loads \cap {"repaired", "resume", "leaf"}
  /\ loads' = loads \ {load}
  /\ UNCHANGED <<screen, turn, asked>>

\* Another conversation takes the place of this one, its worker is reset.
SessionResumed ==
  /\ "resume" \in loads
  /\ loads' = loads \ {"resume"}
  /\ turn' = "none" /\ asked' = FALSE
  /\ \E s \in CloseRuntimePanel(screen) :
       LET emptied == [s EXCEPT !.pending = FALSE, !.unread = FALSE, !.busy = FALSE,
                                !.view = IF ByHand(s) THEN @ ELSE "bottom"]
       IN  screen' = Place(emptied, "bottom")

\* A load that fails is told as a failure without a target, and a failure is
\* taken for the end of the turn.
StoreFailed(load) ==
  /\ StoreMayFail \/ ~asked
  /\ load \in loads
  /\ loads' = loads \ {load}
  /\ screen' \in Over(screen)
  /\ UNCHANGED <<turn, asked>>

RuntimeEvents ==
  \/ Request \/ RequestLapses \/ Content \/ Retrying \/ MessageFinished \/ TurnEnds
  \/ SessionResumed
  \/ \E load \in Loads : LayerLoaded(load) \/ NothingLoaded(load) \/ StoreFailed(load)

-----------------------------------------------------------------------------
(* Keys and clicks.                                                          *)

OnlyScreen == UNCHANGED <<turn, asked, loads>>

\* Nothing stands between the keys and the composer.
MainKeys == Top(screen) = "none" /\ screen.panel = "none" /\ screen.inline = "none"

\* A command is a shortcut, or it is typed and its text is taken away.
Commanded(s) == {s, Place(s, Home(s))}

OpenLayer(layer) ==
  /\ MainKeys
  /\ layer \in ModalLayers \ {"preview"}
  /\ \E s \in Commanded(screen) : screen' = [s EXCEPT !.layers = @ \cup {layer}]
  /\ loads' = loads \cup (IF layer = "picker" THEN {"list"} ELSE {})
  /\ UNCHANGED <<turn, asked>>

OpenTranscriptOverModels ==
  /\ Top(screen) = "none" /\ screen.panel = "none" /\ screen.inline = "model"
  /\ screen' = [CloseInline(screen) EXCEPT !.layers = {"transcript"}]
  /\ OnlyScreen

OpenInline(panel) ==
  /\ MainKeys
  /\ \E s \in Commanded(screen) : screen' = FollowCursor([s EXCEPT !.inline = panel])
  /\ OnlyScreen

LeaveInline ==
  /\ Top(screen) = "none" /\ screen.panel = "none" /\ screen.inline # "none"
  /\ screen' = CloseInline(screen)
  /\ OnlyScreen

\* The preview of a panel that a command of the debug build opens.
OpenDebugPanel ==
  /\ MainKeys
  /\ \E s \in Commanded(screen), tall \in BOOLEAN : screen' = OpenPanel(s, "debug", tall)
  /\ OnlyScreen

Scrolled(s) ==
  {Place(s, IF Home(s) = "bottom" THEN "fromBottom" ELSE "fromComposer"),
   Place(s, Home(s)), Place(s, "bottom")}

\* Typing, moving the cursor, paging through the text.
Compose ==
  /\ MainKeys
  /\ screen' \in Scrolled(screen) \cup {Place(screen, "composer")}
  /\ OnlyScreen

\* The wheel reaches the document whichever panel stands in it.
Scroll ==
  /\ Top(screen) = "none"
  /\ screen' \in Scrolled(screen)
  /\ OnlyScreen

\* Ctrl-C empties the composer under any layer but the transcript.
ClearInput ==
  /\ Top(screen) # "transcript"
  /\ screen' = Place(screen, Home(screen))
  /\ OnlyScreen

\* The activity line appears when the worker takes the turn; it takes one only.
Send ==
  /\ MainKeys /\ ~screen.busy
  /\ screen' = [Place(screen, "bottom") EXCEPT !.busy = (turn = "none")]
  /\ turn' = IF turn = "none" THEN "running" ELSE turn
  /\ UNCHANGED <<asked, loads>>

\* Esc reaches the turn past all panels but that of the models.
Interrupt ==
  /\ Top(screen) = "none" /\ screen.panel = "none" /\ screen.inline # "budget"
  /\ screen.busy /\ turn # "none"
  /\ turn' = "cancelling" /\ asked' = FALSE
  /\ \E s \in OrRefreshed({screen}) : screen' = Finished(s)
  /\ UNCHANGED loads

\* The whole screen and the conversation start anew.
Clear ==
  /\ MainKeys
  /\ screen' = [screen EXCEPT !.view = "bottom", !.unread = FALSE, !.pending = FALSE, !.busy = FALSE]
  /\ turn' = "none" /\ asked' = FALSE
  /\ UNCHANGED loads

LeaveLayer ==
  /\ Top(screen) \in ModalLayers
  /\ screen' \in {LayerClosed(s, Top(screen)) : s \in Without(screen, Top(screen))}
  /\ OnlyScreen

PreviewSession ==
  /\ Top(screen) = "picker"
  /\ loads' = loads \cup {"preview"}
  /\ UNCHANGED <<screen, turn, asked>>

\* A session is resumed, or an entry gone back to, only between turns.
Resumes == {loads} \cup (IF turn = "none" THEN {loads \cup {"resume"}} ELSE {})

ResumeSession ==
  /\ Top(screen) \in {"picker", "preview"}
  /\ screen' = LayerClosed([screen EXCEPT !.layers = @ \ {"picker", "preview"}], Top(screen))
  /\ loads' = IF turn = "none" THEN loads \cup {"resume"} ELSE loads
  /\ UNCHANGED <<turn, asked>>

\* What is picked from a list may be put in the composer or gone back to.
Recall ==
  /\ Top(screen) = "list"
  /\ LET closed == [screen EXCEPT !.layers = @ \ {"list"}]
     IN  \E s \in {closed, Place(closed, Home(closed)), Place(closed, "bottom")} :
           screen' = LayerClosed(s, "list")
  /\ loads' \in Resumes
  /\ UNCHANGED <<turn, asked>>

\* A message is taken back from the transcript, with all that followed it.
Revisit ==
  /\ Top(screen) = "transcript" /\ ~screen.busy
  /\ LET closed == [screen EXCEPT !.layers = @ \ {"transcript"}, !.view = "bottom"]
     IN  screen' = LayerClosed(Place(closed, "bottom"), "transcript")
  /\ loads' = IF turn = "none" THEN loads \cup {"leaf"} ELSE loads
  /\ UNCHANGED <<turn, asked>>

\* Keys for a panel that is not seen are swallowed.
AnswerPanel ==
  /\ Visible(screen)
  /\ LET closed == ClosePanel(screen)
     IN  \E s \in IF screen.panel = "debug" THEN OrRefreshed(closed) ELSE closed :
           screen' = IF screen.full THEN LayerClosed(s, "approval") ELSE s
  /\ asked' = (asked /\ screen.panel # "runtime")
  /\ UNCHANGED <<turn, loads>>

ClickApproval ==
  /\ screen.pending
  /\ \E s \in Uncovered(screen) :
       screen' = [SyncPreview(Place(s, "bottom")) EXCEPT !.pending = FALSE]
  /\ OnlyScreen

ClickMessages ==
  /\ screen.unread
  /\ \E s \in Uncovered(screen) :
       screen' = SyncPill([Place(SyncPreview(s), "bottom") EXCEPT !.unread = FALSE])
  /\ OnlyScreen

Resize ==
  /\ \E roomy \in BOOLEAN : screen' \in Settled(SyncPreview([screen EXCEPT !.roomy = roomy]))
  /\ OnlyScreen

UserActs ==
  \/ \E layer \in ModalLayers : OpenLayer(layer)
  \/ \E panel \in {"model", "budget"} : OpenInline(panel)
  \/ OpenTranscriptOverModels \/ LeaveInline \/ OpenDebugPanel
  \/ Compose \/ Scroll \/ ClearInput \/ Send \/ Interrupt \/ Clear
  \/ LeaveLayer \/ PreviewSession \/ ResumeSession \/ Recall \/ Revisit
  \/ AnswerPanel \/ ClickApproval \/ ClickMessages \/ Resize

ApprovalNext == RuntimeEvents \/ UserActs

ApprovalSpec == ApprovalInit /\ [][ApprovalNext]_approvalVars

-----------------------------------------------------------------------------
\* The types of the variables; a panel's preview is fullscreen only where there
\* is a panel.
ApprovalTypeOK ==
  /\ screen \in [layers : SUBSET ModalLayers, panel : {"none", "runtime", "debug"},
                 tall : BOOLEAN, full : BOOLEAN, view : Views,
                 inline : {"none", "model", "budget"}, unread : BOOLEAN,
                 pending : BOOLEAN, busy : BOOLEAN, roomy : BOOLEAN]
  /\ screen.full => screen.panel # "none"
  /\ turn \in {"none", "running", "cancelling"}
  /\ asked \in BOOLEAN
  /\ loads \in SUBSET Loads

\* A pill stands for what is really there and really unseen, wherever the
\* layers and the viewport have gone since it was set: the approval pill for an
\* open runtime panel that cannot be seen, the other for messages the viewport
\* has not come back to (attention_pill/state.rs, "cleared once visible").
PillIsTrue ==
  /\ screen.pending => screen.panel = "runtime" /\ ~Visible(screen)
  /\ screen.unread => ~AtEnd(screen)

\* A turn that waits for the user's answer has its panel, visible or not: were
\* it closed by the event of something else, no key could answer the request,
\* or interrupt the turn, whose activity line goes with it.
WaitingTurnHasItsPanel == asked => screen.panel = "runtime" /\ turn = "running"

\* What the pills and the panel owe the user, in every state of the screen.
ApprovalsAreTold == ApprovalTypeOK /\ PillIsTrue /\ WaitingTurnHasItsPanel

\* A request is seen in the step that brings it or the pill says that it is
\* there, and the pill goes away only in a step that shows the panel or after
\* which nobody waits for it.
PillFollowsTheRequest ==
  [][ /\ asked' /\ ~asked => Visible(screen') \/ screen'.pending
      /\ screen.pending /\ ~screen'.pending => Visible(screen') \/ ~asked' ]_approvalVars
=============================================================================
