---------------------------- MODULE PromptAssembly ----------------------------
(* What the system prompt of the next conversation is made of.  Two records  *)
(* of the same shape, the user's and the project's, each hold the entries of *)
(* the prompt with their place, the texts of custom prompts, the choice of   *)
(* skills and tools, and which standard bodies are overridden.  The          *)
(* operators take the pair of records as it is before a change and return    *)
(* the pair as it is after, or the prompt the pair resolves to.              *)
(*                                                                           *)
(* A title is a number that stands for its place in the natural order of     *)
(* titles, a text a serial number with its title.  An entry list is a        *)
(* function of the entry's id: the order the file keeps is that of the sort. *)
EXTENDS Integers, SequencesExt

CONSTANTS
  Skills,        \* discovered skills, in discovery order
  GlobalSkills,  \* those found under the user's own directory
  Tools          \* registered tools, in registry order, all with guidelines

ASSUME AssemblyAssumption ==
  /\ Skills \in Seq(STRING) /\ Tools \in Seq(STRING)
  /\ GlobalSkills \subseteq ToSet(Skills)

Scopes == {"global", "project"}

\* An id is a kind and, for a custom prompt, the slug of its reference id.
AgentsId == <<"agents", 0>>
BaselineId == <<"baseline", 0>>
ChangesId == <<"changes", 0>>
SkillsId == <<"skills", 0>>
ToolsId == <<"tools", 0>>
PromptId(slug) == <<"prompt", slug>>
IsPrompt(id) == id[1] = "prompt"

TitleOf == [agents |-> 1, baseline |-> 2, changes |-> 3, skills |-> 30, tools |-> 40]
DefaultTitle(n) == 10 + n
ReviewTitle == 20  \* a title of the user's, between the defaults and "Skill discovery"

EmptyScope ==
  [entries |-> <<>>, prompts |-> <<>>, skills |-> <<>>, tools |-> <<>>,
   enabled |-> <<>>, custom |-> {}]

HasPromptContent(s) ==
  \/ s.custom # {} \/ s.skills # <<>> \/ s.tools # <<>>
  \/ DOMAIN s.entries # {} \/ DOMAIN s.prompts # {}

-----------------------------------------------------------------------------
(* Defaults that appear without having been stored.                          *)

\* What a map is after an insertion.
Put(f, x, v) == [y \in DOMAIN f \cup {x} |-> IF y = x THEN v ELSE f[y]]

Upsert(st, scope, id, order, title) ==
  [st EXCEPT ![scope].entries = Put(@, id, [on |-> TRUE, order |-> order, title |-> title])]

EnsureEntry(st, scope, id, order) ==
  IF id \in DOMAIN st[scope].entries THEN st ELSE Upsert(st, scope, id, order, TitleOf[id[1]])

\* The scope that has a say about the skill or the tool section.
Claims(s, part) == part \in s.custom \/ s[part] # <<>> \/ <<part, 0>> \in DOMAIN s.entries

PartScope(st, part, fallback) ==
  IF Claims(st.project, part) THEN "project"
  ELSE IF Claims(st.global, part) THEN "global" ELSE fallback

EffectiveScope(st, id, fallback) ==
  CASE id \in {SkillsId, ToolsId} -> PartScope(st, id[1], fallback)
    [] id \in {BaselineId, ChangesId} -> "global"
    [] OTHER -> fallback

EnsureSkills(st, scope) == EnsureEntry(st, scope, SkillsId, 30)
EnsureTools(st, scope) == EnsureEntry(st, scope, ToolsId, 10)

EnsureDefaultSkills(st) ==
  IF \E scope \in Scopes : SkillsId \in DOMAIN st[scope].entries THEN st
  ELSE EnsureSkills(st, IF HasPromptContent(st.project) \/ ~HasPromptContent(st.global)
                        THEN "project" ELSE "global")

EnsureDefaultTools(st) ==
  IF \E scope \in Scopes : ToolsId \in DOMAIN st[scope].entries THEN st
  ELSE EnsureTools(st, PartScope(st, "tools", "global"))

EnsureDynamic(st) ==
  EnsureEntry(EnsureEntry(st, "global", BaselineId, 15), "global", ChangesId, 16)

EnsureInstructions(st) == EnsureEntry(st, "project", AgentsId, 20)

\* The records as the overlay shows them, every default in its place.
Effective(st) == EnsureInstructions(EnsureDynamic(EnsureDefaultTools(EnsureDefaultSkills(st))))

\* The entry a gesture is about is stored before the gesture changes it.
Materialized(st, scope, id) ==
  CASE id = SkillsId -> EnsureSkills(st, scope)
    [] id = ToolsId -> EnsureTools(st, EffectiveScope(st, id, scope))
    [] id \in {BaselineId, ChangesId} -> EnsureDynamic(st)
    [] id = AgentsId -> EnsureInstructions(st)
    [] OTHER -> st

-----------------------------------------------------------------------------
(* The order of the prompt.                                                  *)

AllRows(st) ==
  UNION {{[scope |-> scope, id |-> id] : id \in DOMAIN st[scope].entries} : scope \in Scopes}

EntryAt(st, row) == st[row.scope].entries[row.id]

\* By requested order, then title, then reference id, then scope.
SortKey(st, row) ==
  LET e == EntryAt(st, row)
  IN  ((e.order * 100 + e.title) * 100 + row.id[2]) * 2 + (IF row.scope = "project" THEN 1 ELSE 0)

Ordered(st, rows) ==
  LET keyed == {<<SortKey(st, row), row>> : row \in rows}
      insert(pair, seq) == SelectSeq(seq, LAMBDA q : q[1] < pair[1]) \o <<pair>>
                           \o SelectSeq(seq, LAMBDA q : q[1] > pair[1])
      sorted == FoldSet(insert, <<>>, keyed)
  IN  [i \in DOMAIN sorted |-> sorted[i][2]]

NextOrder(s) ==
  IF DOMAIN s.entries = {} THEN 40 ELSE Max({e.order : e \in Range(s.entries)}) + 10

WithOrder(st, row, order) == [st EXCEPT ![row.scope].entries[row.id].order = order]

Normalized(st) ==
  LET rows == Ordered(st, AllRows(st))
      place(row) == 10 * (CHOOSE i \in DOMAIN rows : rows[i] = row)
      renumbered(scope) ==
        [st[scope] EXCEPT !.entries =
           [id \in DOMAIN @ |-> [@[id] EXCEPT !.order = place([scope |-> scope, id |-> id])]]]
  IN  [global |-> renumbered("global"), project |-> renumbered("project")]

\* Mutant: the defaults are left out of the renumbering.
MoveStored(st, row, step) ==
  LET all == Materialized(st, row.scope, row.id)
      rows == Ordered(all, AllRows(all))
      at == {i \in DOMAIN rows : rows[i] = row /\ i + step \in DOMAIN rows}
  IN  IF at = {} THEN all
      ELSE LET i == CHOOSE x \in at : TRUE
               neighbour == rows[i + step]
           IN  Normalized(WithOrder(WithOrder(all, row, EntryAt(all, neighbour).order),
                                    neighbour, EntryAt(all, row).order))

\* The row trades orders with its neighbour, step = -1 up and 1 down.
MoveActiveSource(st, row, step) ==
  LET all == Materialized(Effective(st), row.scope, row.id)
      rows == Ordered(all, AllRows(all))
      at == {i \in DOMAIN rows : rows[i] = row /\ i + step \in DOMAIN rows}
  IN  IF at = {} THEN all
      ELSE LET i == CHOOSE x \in at : TRUE
               neighbour == rows[i + step]
           IN  Normalized(WithOrder(WithOrder(all, row, EntryAt(all, neighbour).order),
                                    neighbour, EntryAt(all, row).order))
-----------------------------------------------------------------------------
(* The lists of skills and of tools: who is listed, in which order.          *)

Names == [skills |-> Skills, tools |-> Tools]

RecordOf(list, name) == {e \in Range(list) : e.name = name}

\* Each known name, as the project records it, else the user, else by default;
\* a tie goes by name, which is how the known names are listed.
Merged(st, part) ==
  LET names == Names[part]
      default(i) == [name |-> names[i], on |-> TRUE, order |-> i]
      known(i) ==
        LET own == RecordOf(st.project[part], names[i])
        IN  IF own # {} THEN own ELSE RecordOf(st.global[part], names[i])
      merged(i) == CHOOSE e \in known(i) \cup {default(i)} : e \in known(i) \/ known(i) = {}
      keyed == {<<i, merged(i)>> : i \in DOMAIN names}
      before(a, b) == \/ a[2].order < b[2].order
                      \/ a[2].order = b[2].order /\ a[1] < b[1]
      at(k) == CHOOSE a \in keyed : Cardinality({b \in keyed : before(b, a)}) = k - 1
  IN  [k \in DOMAIN names |-> at(k)[2]]

IndexOfName(list, name) == CHOOSE i \in DOMAIN list : list[i].name = name

SetSelected(st, scope, part, name, on) ==
  LET list == Merged(st, part)
  IN  [st EXCEPT ![scope][part] = [list EXCEPT ![IndexOfName(list, name)].on = on]]

Renumbered(list) == [i \in DOMAIN list |-> [list[i] EXCEPT !.order = i]]

MoveListed(st, scope, part, name, step) ==
  LET list == Merged(st, part)
      i == IndexOfName(list, name)
  IN  [st EXCEPT ![scope][part] =
         IF i + step \notin DOMAIN list THEN list
         ELSE Renumbered([list EXCEPT ![i] = list[i + step], ![i + step] = list[i]])]

ResetSkillOrder(st, scope) ==
  LET list == Merged(st, "skills")
  IN  [st EXCEPT ![scope].skills =
         [i \in DOMAIN Skills |->
            [name |-> Skills[i], order |-> i, on |-> list[IndexOfName(list, Skills[i])].on]]]

\* The box of a skill: by the record of the scope the skill comes from, if any.
SkillChecked(st, name) ==
  LET own == RecordOf(st[IF name \in GlobalSkills THEN "global" ELSE "project"].skills, name)
      list == Merged(st, "skills")
  IN  IF own # {} THEN \E e \in own : e.on ELSE list[IndexOfName(list, name)].on

SkillScope(st) == PartScope(st, "skills", "project")
ToolScope(st) == PartScope(st, "tools", "global")

ToolEnabled(st, tool) ==
  IF tool \in DOMAIN st.project.enabled THEN st.project.enabled[tool]
  ELSE IF tool \in DOMAIN st.global.enabled THEN st.global.enabled[tool] ELSE TRUE

SetToolEnabled(st, scope, tool, on) ==
  [st EXCEPT ![PartScope(st, "tools", scope)].enabled = Put(@, tool, on)]

-----------------------------------------------------------------------------
(* Custom prompts.                                                           *)

\* The slug of a title, then the same with a suffix: "new-prompt-1-2".
FreshId(s, title) ==
  LET base == 10 * (title - 10)
      taken == DOMAIN s.prompts \cup {id \in DOMAIN s.entries : IsPrompt(id)}
  IN  PromptId(base + Min({n \in 1..Cardinality(taken) + 1 : PromptId(base + n) \notin taken}))

\* "New prompt" is numbered past the highest number a title of the scope has.
NextDefaultTitle(s) ==
  LET titles == {e.title : e \in Range(s.entries)} \cup {t.title : t \in Range(s.prompts)}
      numbers == {n \in 1..9 : DefaultTitle(n) \in titles}
  IN  DefaultTitle(Max(numbers \cup {0}) + 1)

Omit(f, x) == Restrict(f, DOMAIN f \ {x})

CreatePrompt(st, scope, text) ==
  LET id == FreshId(st[scope], text.title)
  IN  [Upsert(st, scope, id, NextOrder(st[scope]), text.title)
         EXCEPT ![scope].prompts = Put(@, id, text)]

EditPrompt(st, scope, id, text) ==
  LET entered ==
        IF id \in DOMAIN st[scope].entries
        THEN [st EXCEPT ![scope].entries[id].title = text.title]
        ELSE Upsert(st, scope, id, NextOrder(st[scope]), text.title)
  IN  [entered EXCEPT ![scope].prompts = Put(@, id, text)]

RemoveEntry(st, scope, id) == [st EXCEPT ![scope].entries = Omit(@, id)]

DeletePrompt(st, scope, id) ==
  [RemoveEntry(st, scope, id) EXCEPT ![scope].prompts = Omit(@, id)]

SelectPrompt(st, scope, id) ==
  IF id \notin DOMAIN st[scope].prompts \/ id \in DOMAIN st[scope].entries THEN st
  ELSE Upsert(st, scope, id, NextOrder(st[scope]), st[scope].prompts[id].title)

\* The entry is stored in the row's scope, the switch is that of the section's.
SetEnabled(st, row, on) ==
  LET stored == Materialized(st, row.scope, row.id)
      scope == EffectiveScope(stored, row.id, row.scope)
  IN  IF row.id \notin DOMAIN stored[scope].entries THEN stored
      ELSE [stored EXCEPT ![scope].entries[row.id].on = on]

SetOverride(st, scope, part) == [st EXCEPT ![scope].custom = @ \cup {part}]

OverridePart(st, scope, part) ==
  LET owner == PartScope(st, part, scope)
      changed == SetOverride(st, owner, part)
  IN  IF part = "skills" THEN EnsureSkills(changed, owner) ELSE EnsureTools(changed, owner)

-----------------------------------------------------------------------------
(* What the pair resolves to.                                                *)

Resolvable(st, row) == IsPrompt(row.id) => row.id \in DOMAIN st[row.scope].prompts

\* Two prompts of one reference id: the project's, unless it is switched off.
CollisionWinner(st, row) ==
  LET rivals == {r \in AllRows(st) : r.id = row.id /\ EntryAt(st, r).on}
  IN  row.scope = "project" \/ \A r \in rivals : r.scope = "global"

Shadowed(st, row) == IsPrompt(row.id) /\ EntryAt(st, row).on /\ ~CollisionWinner(st, row)

Active(st) ==
  {row \in AllRows(st) : EntryAt(st, row).on /\ Resolvable(st, row) /\ ~Shadowed(st, row)}

Listed(st, part) ==
  LET kept == SelectSeq(Merged(st, part),
                        LAMBDA e : e.on /\ (part = "tools" => ToolEnabled(st, e.name)))
  IN  [i \in DOMAIN kept |-> kept[i].name]

Overridden(st, scope, part) ==
  part \in st.global.custom \/ (scope = "project" /\ part \in st.project.custom)

BodyOf(st, row) ==
  CASE IsPrompt(row.id) -> <<"text", st[row.scope].prompts[row.id]>>
    [] row.id \in {SkillsId, ToolsId} ->
         <<"list", Listed(st, row.id[1]), Overridden(st, row.scope, row.id[1])>>
    [] OTHER -> <<"standard">>

IsEmptyBody(body) == body[1] = "list" /\ body[2] = <<>> /\ ~body[3]

CoreOrigin(st) ==
  IF "core" \in st.project.custom THEN "project"
  ELSE IF "core" \in st.global.custom THEN "global" ELSE "builtin"

\* What a conversation is started with.
SessionConfig(st) ==
  LET all == Effective(st)
      active == Active(all)
      rows == {row \in active : row.id # ChangesId /\ ~IsEmptyBody(BodyOf(all, row))}
      order == Ordered(all, rows)
  IN  [core |-> CoreOrigin(st),
       prelude |-> [i \in DOMAIN order |-> <<order[i], BodyOf(all, order[i])>>],
       changes |-> \E row \in active : row.id = ChangesId,
       disabled |-> {tool \in ToSet(Tools) : ~ToolEnabled(st, tool)}]
=============================================================================
