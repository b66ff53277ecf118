------------------------------ MODULE PromptEdit ------------------------------
(* The /prompt overlay of one hunea process per project: it loads a working *)
(* copy of the user's record, which all processes share, and of its own     *)
(* project's, changes the copy key by key, and saves what differs when it   *)
(* closes.  A save may fail or die half way, and what a save changed reaches*)
(* the screen as an event that the keys of the same burst overtake.         *)
EXTENDS PromptAssembly

CONSTANTS
  Projects,      \* project directories, each with a process at most
  Gestures,      \* the families of gestures the users make
  MaxEdits,      \* bound: gestures in all
  MaxFailedSaves \* bound: saves that fail or die half way

ASSUME PromptAssumption ==
  /\ Gestures \subseteq {"toggle", "move", "prompts", "skills", "tools", "bodies"}
  /\ MaxEdits \in Nat /\ MaxFailedSaves \in Nat

VARIABLES
  processes,     \* the projects with a process in this behaviour
  globalStore,   \* the user's record in the index database
  projectFiles,  \* each project's record under .hunea/
  editSession,   \* the edit session of each process, {} or one of [work, base]
  overlay,       \* whether the overlay is open
  shown,         \* the pair of records the screen was last resolved from
  event,         \* PromptAssemblyUpdated not yet applied, {} or one pair
  options,       \* the configuration of the next conversation
  conversation,  \* the current one: its configuration, and whether it started
  tally,         \* gestures and failures so far, texts written so far
  owedTexts,     \* history: texts a user has written and not taken back
  torn,          \* history: texts a write cut short may have damaged
  aimed,         \* history: the scopes the gestures of a session were about
  excuse         \* history: why the options may differ from what is saved

promptVars == <<processes, globalStore, projectFiles, editSession, overlay, shown, event,
                options, conversation, tally, owedTexts, torn, aimed, excuse>>
surroundings == <<globalStore, projectFiles, event, options, conversation>>

Saved(p) == [global |-> globalStore, project |-> projectFiles[p]]
Work(p) == (CHOOSE s \in editSession[p] : TRUE).work
Base(p) == (CHOOSE s \in editSession[p] : TRUE).base

PromptInit ==
  /\ processes \in SUBSET Projects
  /\ globalStore = EmptyScope
  /\ projectFiles = [p \in processes |-> EmptyScope]
  /\ editSession = [p \in processes |-> {}]
  /\ overlay = [p \in processes |-> FALSE]
  /\ shown = [p \in processes |-> Saved(p)]
  /\ event = [p \in processes |-> {}]
  /\ options = [p \in processes |-> SessionConfig(Saved(p))]
  /\ conversation = [p \in processes |-> [config |-> options[p], started |-> FALSE]]
  /\ tally = [edits |-> 0, failures |-> 0, texts |-> 0]
  /\ owedTexts = [p \in processes |-> {}]
  /\ torn = [p \in processes |-> {}]
  /\ aimed = [p \in processes |-> {}]
  /\ excuse = [p \in processes |-> {}]

-----------------------------------------------------------------------------
(* Gestures: what a key asks for comes from the screen, what it changes is  *)
(* the working copy.                                                        *)

\* Mutant: a session that is kept is loaded again all the same.
OpenReloads(p) ==
  /\ ~overlay[p]
  /\ overlay' = [overlay EXCEPT ![p] = TRUE]
  /\ editSession' = [editSession EXCEPT ![p] = {[work |-> Saved(p), base |-> Saved(p)]}]
  /\ aimed' = [aimed EXCEPT ![p] = {}]
  /\ shown' = [shown EXCEPT ![p] = Saved(p)]
  /\ UNCHANGED <<surroundings, tally, owedTexts, torn, excuse>>

\* A session kept from a commit that failed is taken up again.
Open(p) ==
  /\ ~overlay[p]
  /\ overlay' = [overlay EXCEPT ![p] = TRUE]
  /\ editSession' = [editSession EXCEPT ![p] =
       IF @ = {} THEN {[work |-> Saved(p), base |-> Saved(p)]} ELSE @]
  /\ aimed' = [aimed EXCEPT ![p] = IF editSession[p] = {} THEN {} ELSE @]
  /\ shown' = [shown EXCEPT ![p] = IF editSession[p] = {} THEN Saved(p) ELSE Work(p)]
  /\ UNCHANGED <<surroundings, tally, owedTexts, torn, excuse>>

Apply(p, family, work, scopes) ==
  /\ family \in Gestures /\ overlay[p] /\ tally.edits < MaxEdits
  /\ UNCHANGED overlay
  /\ editSession' = [editSession EXCEPT ![p] = {[work |-> work, base |-> Base(p)]}]
  /\ shown' = [shown EXCEPT ![p] = work]
  /\ aimed' = [aimed EXCEPT ![p] = @ \cup scopes]
  /\ UNCHANGED <<surroundings, torn, excuse>>

\* A gesture that leaves the texts as they are.
Gesture(p, family, work, scopes) ==
  /\ tally' = [tally EXCEPT !.edits = @ + 1]
  /\ UNCHANGED owedTexts
  /\ Apply(p, family, work, scopes)

ScreenRows(p) == AllRows(Effective(shown[p]))
IsShown(p, row) == ~Shadowed(Effective(shown[p]), row)

Aim(p, row) == {row.scope, EffectiveScope(Work(p), row.id, row.scope)}

\* A row that another shadows is only listed under it, and only switched off.
Toggled(p, row) ==
  SetEnabled(Work(p), row, IsShown(p, row) /\ ~EntryAt(Effective(shown[p]), row).on)

ToggleRow(p, row) == Gesture(p, "toggle", Toggled(p, row), Aim(p, row))

MoveRow(p, row, step) ==
  /\ IsShown(p, row)
  /\ Gesture(p, "move", MoveActiveSource(Work(p), row, step), Scopes)

RemoveRow(p, row) ==
  /\ IsPrompt(row.id)
  /\ Gesture(p, "prompts", RemoveEntry(Work(p), row.scope, row.id), {row.scope})

NewText(title) == [id |-> tally.texts + 1, title |-> title]

\* A gesture that writes a text: it is owed from now on, what it replaces is not.
WriteText(p, work, scope, replaced) ==
  /\ Apply(p, "prompts", work, {scope})
  /\ tally' = [tally EXCEPT !.edits = @ + 1, !.texts = @ + 1]
  /\ owedTexts' = [owedTexts EXCEPT ![p] = (@ \ replaced) \cup {<<scope, tally.texts + 1>>}]

TextOf(work, scope, id) ==
  IF id \in DOMAIN work[scope].prompts THEN {<<scope, work[scope].prompts[id].id>>} ELSE {}

Create(p, scope) ==
  LET text == NewText(NextDefaultTitle(Effective(shown[p])[scope]))
  IN  WriteText(p, CreatePrompt(Work(p), scope, text), scope, {})

Edit(p, scope, id) ==
  /\ id \in DOMAIN shown[p][scope].prompts \cup DOMAIN shown[p][scope].entries
  /\ IsPrompt(id)
  /\ WriteText(p, EditPrompt(Work(p), scope, id, NewText(ReviewTitle)), scope,
               TextOf(Work(p), scope, id))

PickPrompt(p, scope, id) ==
  /\ id \in DOMAIN shown[p][scope].prompts
  /\ Gesture(p, "prompts",
             IF id \in DOMAIN shown[p][scope].entries THEN RemoveEntry(Work(p), scope, id)
             ELSE SelectPrompt(Work(p), scope, id), {scope})

Delete(p, scope, id) ==
  /\ id \in DOMAIN shown[p][scope].prompts
  /\ Apply(p, "prompts", DeletePrompt(Work(p), scope, id), {scope})
  /\ tally' = [tally EXCEPT !.edits = @ + 1]
  /\ owedTexts' = [owedTexts EXCEPT ![p] = @ \ TextOf(Work(p), scope, id)]

\* The lists, each gesture in the scope the screen gives for the list.
Tick(p, name) ==
  LET all == Effective(shown[p])
  IN  Gesture(p, "skills",
              SetSelected(Work(p), SkillScope(all), "skills", name, ~SkillChecked(all, name)),
              {SkillScope(all)})

MoveSkill(p, name, step) ==
  LET scope == SkillScope(Effective(shown[p]))
  IN  Gesture(p, "skills", MoveListed(Work(p), scope, "skills", name, step), {scope})

ResetSkills(p) ==
  LET scope == SkillScope(Effective(shown[p]))
  IN  Gesture(p, "skills", ResetSkillOrder(Work(p), scope), {scope})

Guide(p, name) ==
  LET all == Effective(shown[p])
      list == Merged(all, "tools")
      scope == PartScope(Work(p), "tools", ToolScope(all))
  IN  /\ ToolEnabled(all, name)
      /\ Gesture(p, "tools", SetSelected(Work(p), scope, "tools", name,
                                         ~list[IndexOfName(list, name)].on), {scope})

MoveTool(p, name, step) ==
  LET scope == PartScope(Work(p), "tools", ToolScope(Effective(shown[p])))
  IN  Gesture(p, "tools", MoveListed(Work(p), scope, "tools", name, step), {scope})

SwitchTool(p, name) ==
  LET all == Effective(shown[p])
      scope == ToolScope(all)
  IN  Gesture(p, "tools", SetToolEnabled(Work(p), scope, name, ~ToolEnabled(all, name)),
              {PartScope(Work(p), "tools", scope)})

\* The body of a standard section is edited; the core one always the project's.
OverrideBody(p, row) ==
  /\ row.id \in {SkillsId, ToolsId}
  /\ Gesture(p, "bodies", OverridePart(Work(p), row.scope, row.id[1]), Aim(p, row))

OverrideCore(p) == Gesture(p, "bodies", SetOverride(Work(p), "project", "core"), {"project"})

RestoreCore(p) ==
  Gesture(p, "bodies", [Work(p) EXCEPT !.project.custom = @ \ {"core"}], {"project"})

-----------------------------------------------------------------------------
(* The end of a session.                                                    *)

\* Mutant: one dirty flag for both records.
EitherChanged(p) == Work(p) # Base(p)

GlobalChanged(p) == Work(p).global # Base(p).global
ProjectChanged(p) == Work(p).project # Base(p).project

\* The whole record replaces the one in the database, whoever wrote it.
SaveGlobal(p) ==
  /\ globalStore' = IF GlobalChanged(p) THEN Work(p).global ELSE globalStore

\* A text of another process in the user's record that p's copy has not is gone.
OverwriteOthers(p) ==
  owedTexts' = [r \in processes |->
    IF r = p \/ ~GlobalChanged(p) THEN owedTexts[r]
    ELSE {t \in owedTexts[r] : t[1] = "global" =>
            t[2] \in {x.id : x \in Range(Work(p).global.prompts)}}]

ExcuseOthers(p, mine) ==
  excuse' = [r \in processes |->
    IF r = p THEN mine
    ELSE IF GlobalChanged(p) THEN excuse[r] \cup {"others"} ELSE excuse[r]]

Closed(p) == overlay' = [overlay EXCEPT ![p] = FALSE]

CommitClean(p) ==
  /\ overlay[p] /\ ~GlobalChanged(p) /\ ~ProjectChanged(p)
  /\ Closed(p)
  /\ editSession' = [editSession EXCEPT ![p] = {}]
  /\ UNCHANGED <<surroundings, shown, tally, owedTexts, torn, aimed, excuse>>

\* A conversation that has not started takes the new configuration at once.
Refreshed(c, config) == IF c.started THEN c ELSE [c EXCEPT !.config = config]

Commit(p) ==
  /\ overlay[p] /\ (GlobalChanged(p) \/ ProjectChanged(p))
  /\ Closed(p)
  /\ SaveGlobal(p)
  /\ projectFiles' = [projectFiles EXCEPT ![p] = IF ProjectChanged(p) THEN Work(p).project ELSE @]
  /\ editSession' = [editSession EXCEPT ![p] = {}]
  /\ event' = [event EXCEPT ![p] = {Work(p)}]
  /\ options' = [options EXCEPT ![p] = SessionConfig(Work(p))]
  /\ conversation' = [conversation EXCEPT ![p] = Refreshed(@, SessionConfig(Work(p)))]
  /\ OverwriteOthers(p)
  /\ ExcuseOthers(p, (IF GlobalChanged(p) THEN excuse[p] \ {"others"} ELSE excuse[p])
                     \ (IF ProjectChanged(p) THEN {"failed", "dropped"} ELSE {}))
  /\ UNCHANGED <<shown, tally, torn, aimed>>

SaveMayFail == tally.failures < MaxFailedSaves
CountFailure == tally' = [tally EXCEPT !.failures = @ + 1]

CommitGlobalFails(p) ==
  /\ overlay[p] /\ GlobalChanged(p) /\ SaveMayFail
  /\ Closed(p) /\ CountFailure
  /\ UNCHANGED <<surroundings, editSession, shown, owedTexts, torn, aimed, excuse>>

\* A project is saved file by file: the texts, the bodies, what is no longer
\* wanted, and last the list of entries.  A text whose write is cut short is
\* neither the old nor the new.
CutShort(text) == [text EXCEPT !.id = 0]

\* What a map is after all of another is inserted.
Over(f, g) == [x \in DOMAIN f \cup DOMAIN g |-> IF x \in DOMAIN f THEN f[x] ELSE g[x]]

Halves(old, new) ==
  LET texts(written) == Over(Restrict(new.prompts, written), old.prompts)
      whole == DOMAIN new.prompts
      bodies(done) == (new.custom \cap done) \cup (old.custom \ done)
  IN  {<<texts(written), old.custom>> : written \in SUBSET whole}
      \cup {<<Put(texts(written), id, CutShort(new.prompts[id])), old.custom>> :
              id \in whole, written \in SUBSET whole}
      \cup {<<texts(whole), bodies(done)>> : done \in {{"core"}, {"core", "skills"}}}
      \cup {<<Over(new.prompts, Restrict(old.prompts, left)), new.custom>> :
              left \in SUBSET DOMAIN old.prompts}

HalfSaved(old, new) ==
  {[old EXCEPT !.prompts = half[1], !.custom = half[2]] : half \in Halves(old, new)}

Damaged(files, old, new) ==
  {t.id : t \in UNION {{f[id] : id \in DOMAIN f \cap
      {x \in DOMAIN files.prompts : files.prompts[x].id = 0}} : f \in {old.prompts, new.prompts}}}

SaveHalf(p) ==
  \E files \in HalfSaved(projectFiles[p], Work(p).project) :
    /\ projectFiles' = [projectFiles EXCEPT ![p] = files]
    /\ torn' = [torn EXCEPT ![p] = @ \cup Damaged(files, projectFiles[p], Work(p).project)]

\* What was saved of the user's record is no longer dirty, the rest is kept.
CommitProjectFails(p) ==
  /\ overlay[p] /\ ProjectChanged(p) /\ SaveMayFail
  /\ Closed(p) /\ CountFailure
  /\ SaveGlobal(p) /\ SaveHalf(p)
  /\ editSession' = [editSession EXCEPT ![p] =
       {[work |-> Work(p), base |-> [Base(p) EXCEPT !.global = Work(p).global]]}]
  /\ OverwriteOthers(p)
  /\ ExcuseOthers(p, excuse[p] \cup {"failed"})
  /\ UNCHANGED <<shown, event, options, conversation, aimed>>

Texts(s) == {t.id : t \in Range(s.prompts)}
SavedTexts(p) == {<<"global", n>> : n \in Texts(globalStore)}
                 \cup {<<"project", n>> : n \in Texts(projectFiles[p])}

\* The process ends; the next one in the project loads what is saved.
Restart(p) ==
  /\ Closed(p)
  /\ editSession' = [editSession EXCEPT ![p] = {}]
  /\ shown' = [shown EXCEPT ![p] = Saved(p)']
  /\ event' = [event EXCEPT ![p] = {}]
  /\ options' = [options EXCEPT ![p] = SessionConfig(Saved(p)')]
  /\ conversation' = [conversation EXCEPT ![p] =
       [config |-> SessionConfig(Saved(p)'), started |-> FALSE]]
  /\ UNCHANGED aimed

Quit(p) ==
  /\ UNCHANGED <<globalStore, projectFiles, tally, torn>>
  /\ Restart(p)
  /\ owedTexts' = [owedTexts EXCEPT ![p] = @ \cap SavedTexts(p)]
  /\ excuse' = [excuse EXCEPT ![p] = {}]

CommitDies(p) ==
  /\ overlay[p] /\ ProjectChanged(p) /\ SaveMayFail /\ CountFailure
  /\ SaveGlobal(p) /\ SaveHalf(p)
  /\ Restart(p)
  /\ owedTexts' = [r \in processes |->
       IF r = p THEN owedTexts[p] \cap SavedTexts(p)
       ELSE {t \in owedTexts[r] : GlobalChanged(p) /\ t[1] = "global" =>
               t[2] \in Texts(Work(p).global)}]
  /\ ExcuseOthers(p, {})

-----------------------------------------------------------------------------
(* The rest of the process.                                                 *)

ApplyEvent(p) ==
  /\ event[p] # {}
  /\ shown' = [shown EXCEPT ![p] = CHOOSE st \in event[p] : TRUE]
  /\ event' = [event EXCEPT ![p] = {}]
  /\ UNCHANGED <<globalStore, projectFiles, editSession, overlay, options, conversation,
                 tally, owedTexts, torn, aimed, excuse>>

SendFirstTurn(p) ==
  /\ ~overlay[p] /\ ~conversation[p].started
  /\ conversation' = [conversation EXCEPT ![p].started = TRUE]
  /\ UNCHANGED <<globalStore, projectFiles, editSession, overlay, shown, event, options,
                 tally, owedTexts, torn, aimed, excuse>>

\* A new conversation drops a session that could not be saved, and the event.
ResetConversation(p) ==
  /\ ~overlay[p]
  /\ editSession' = [editSession EXCEPT ![p] = {}]
  /\ event' = [event EXCEPT ![p] = {}]
  /\ conversation' = [conversation EXCEPT ![p] = [config |-> options[p], started |-> FALSE]]
  /\ owedTexts' = [owedTexts EXCEPT ![p] = IF editSession[p] = {} THEN @ ELSE @ \cap SavedTexts(p)]
  /\ excuse' = [excuse EXCEPT ![p] = IF editSession[p] = {} THEN @ ELSE @ \cup {"dropped"}]
  /\ UNCHANGED <<globalStore, projectFiles, overlay, shown, options, tally, torn, aimed>>

GestureNext(p) ==
  \/ \E row \in ScreenRows(p) : ToggleRow(p, row)
  \/ \E row \in ScreenRows(p), step \in {-1, 1} : MoveRow(p, row, step)
  \/ \E row \in ScreenRows(p) : RemoveRow(p, row)
  \/ \E scope \in Scopes : Create(p, scope)
  \/ \E scope \in Scopes : \E id \in DOMAIN shown[p][scope].prompts
                                   \cup DOMAIN shown[p][scope].entries : Edit(p, scope, id)
  \/ \E scope \in Scopes : \E id \in DOMAIN shown[p][scope].prompts : PickPrompt(p, scope, id)
  \/ \E scope \in Scopes : \E id \in DOMAIN shown[p][scope].prompts : Delete(p, scope, id)
  \/ \E name \in ToSet(Skills) : Tick(p, name)
  \/ \E name \in ToSet(Skills), step \in {-1, 1} : MoveSkill(p, name, step)
  \/ ResetSkills(p)
  \/ \E name \in ToSet(Tools) : Guide(p, name)
  \/ \E name \in ToSet(Tools), step \in {-1, 1} : MoveTool(p, name, step)
  \/ \E name \in ToSet(Tools) : SwitchTool(p, name)
  \/ \E row \in ScreenRows(p) : OverrideBody(p, row)
  \/ OverrideCore(p)
  \/ RestoreCore(p)

PromptStep(p) ==
  \/ Open(p) \/ ApplyEvent(p) \/ SendFirstTurn(p) \/ ResetConversation(p) \/ Quit(p)
  \/ overlay[p] /\ tally.edits < MaxEdits /\ GestureNext(p)
  \/ CommitClean(p) \/ Commit(p)
  \/ CommitGlobalFails(p) \/ CommitProjectFails(p) \/ CommitDies(p)

PromptNext == UNCHANGED processes /\ \E p \in processes : PromptStep(p)

PromptSpec == PromptInit /\ [][PromptNext]_promptVars
-----------------------------------------------------------------------------
(* Properties.                                                              *)

IsScope(s) ==
  /\ DOMAIN s = DOMAIN EmptyScope
  /\ \A id \in DOMAIN s.prompts : IsPrompt(id) /\ s.prompts[id].id \in 0..tally.texts
  /\ \A part \in {"skills", "tools"} :
       {e.name : e \in ToSet(s[part])} \in {{}, ToSet(Names[part])}
  /\ DOMAIN s.enabled \subseteq ToSet(Tools) /\ s.custom \subseteq {"core", "skills", "tools"}

IsPair(st) == IsScope(st.global) /\ IsScope(st.project)

\* Every record a process holds or keeps on disk is well formed, an open
\* overlay has its session, and a list is stored whole or not at all
\* (PromptManagementEditSession, PromptAssemblyState).
PromptTypeOK ==
  /\ tally.edits \in 0..MaxEdits /\ tally.failures \in 0..MaxFailedSaves
  /\ \A p \in processes :
       /\ IsPair(Saved(p)) /\ IsPair(shown[p])
       /\ \A s \in editSession[p] : IsPair(s.work) /\ IsPair(s.base)
       /\ \A st \in event[p] : IsPair(st)
       /\ overlay[p] => editSession[p] # {}
       /\ owedTexts[p] \subseteq Scopes \X (1..tally.texts)
       /\ excuse[p] \subseteq {"others", "failed", "dropped"}

\* A text the user wrote is in the working copy or on disk until the user takes
\* it back, discards the session or ends the process, whatever saves fail: a
\* failed commit keeps its session, and a save that dies half way costs at most
\* the one file it was writing (commit, save_prompt_texts).
TextSurvives ==
  \A p \in processes : \A t \in owedTexts[p] :
    \/ t \in SavedTexts(p) \/ t[2] \in torn[p]
    \/ editSession[p] # {} /\ t[2] \in Texts(Work(p)[t[1]])

\* Unless another process wrote the user's record, or a save failed, the next
\* conversation is configured with what is on disk: the options resolved from
\* the working copy and those the next start would load are the same
\* (commit_prompt_assembly_edits, apply_prompt_assembly_update).
OptionsFollowDisk ==
  \A p \in processes : excuse[p] = {} => options[p] = SessionConfig(Saved(p))

\* An empty conversation never keeps a prompt that edits have outdated: its
\* first turn is sent with the configuration of the options.
EmptyFollowsOptions ==
  \A p \in processes : ~conversation[p].started => conversation[p].config = options[p]

\* A record on disk is only written by a session whose gestures were about its
\* scope: closing the overlay after a change of the project's leaves alone what
\* another process saved of the user's meanwhile (is_dirty per scope in commit).
ScopesKeepApart ==
  [][/\ globalStore' # globalStore => \E p \in processes : overlay[p] /\ "global" \in aimed[p]
     /\ \A p \in processes : projectFiles[p]' # projectFiles[p]
          => overlay[p] /\ "project" \in aimed[p]]_promptVars

\* The prompt as a reader sees it: the entries in order, each on or off.
Outline(st) ==
  LET all == Effective(st)
      rows == Ordered(all, AllRows(all))
  IN  [i \in DOMAIN rows |-> [id |-> rows[i].id, on |-> EntryAt(all, rows[i]).on]]

\* The screen shows the working copy.  What the rest of the process is at then
\* has no part in a gesture, so it is looked at with nothing else under way.
UpToDate(p) ==
  overlay[p] /\ shown[p] = Work(p) /\ event[p] = {} /\ ~conversation[p].started

\* Switching a row of a screen that shows the working copy changes that row and
\* nothing else: storing the defaults first moves no entry and switches none.
\* The skill section is left out, whose switch may be another record's.
TogglesOneRow ==
  \A p \in processes : UpToDate(p) =>
    LET rows == Ordered(Effective(Work(p)), ScreenRows(p))
        old == Outline(Work(p))
    IN  \A i \in DOMAIN rows : rows[i].id # SkillsId =>
          Outline(Toggled(p, rows[i])) = [old EXCEPT ![i].on = ~@ /\ IsShown(p, rows[i])]

DistinctOrders(st) ==
  \A a, b \in AllRows(st) : EntryAt(st, a).order = EntryAt(st, b).order => a = b

\* Moving a row swaps it with its neighbour and moves no other, and nothing at
\* either end, although the defaults are stored and the orders renumbered in
\* both records; rows of equal order are left out, of which a move sets two by
\* the same number.
MovesOneRow ==
  \A p \in processes : UpToDate(p) /\ DistinctOrders(Effective(Work(p))) =>
    LET rows == Ordered(Effective(Work(p)), ScreenRows(p))
        old == Outline(Work(p))
    IN  \A i \in DOMAIN rows, step \in {-1, 1} : IsShown(p, rows[i]) =>
          Outline(MoveActiveSource(Work(p), rows[i], step)) =
            IF i + step \notin DOMAIN old THEN old
            ELSE [old EXCEPT ![i] = old[i + step], ![i + step] = old[i]]

\* A gesture is about one row: see the two above (toggle, move_active_source).
GesturesAreLocal == TogglesOneRow /\ MovesOneRow

\* What the user is shown, what is saved and what the next conversation is sent
\* with are one prompt, each when the code says so: see the four above.
PromptIsTrue == PromptTypeOK /\ TextSurvives /\ OptionsFollowDisk /\ EmptyFollowsOptions
=============================================================================
