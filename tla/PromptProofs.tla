---------------------------- MODULE PromptProofs ----------------------------
(* Proofs, for any projects, skills, tools and bounds, of what the prompt    *)
(* overlay saves, what the next conversation is configured with, and that no *)
(* text is lost.                                                             *)
(*                                                                           *)
(* That a record is only written by a session whose gestures were about its  *)
(* scope is not inductive: a commit writes what differs from what the        *)
(* session was loaded from.  Held says of the copy that it differs in the    *)
(* scopes the gestures were aimed at, and each gesture changes no other      *)
(* (GestureIsAimed): a section whose entry is stored before it is changed    *)
(* belongs afterwards where it belonged, or to the row (OwnerOfMaterialized).*)
(*                                                                           *)
(* That the options follow the disk needs, for a record a commit leaves      *)
(* alone, that the session was loaded from what is on disk still, unless     *)
(* there is an excuse (Configured).                                          *)
(*                                                                           *)
(* That a text survives needs three facts of records.  They stay well formed *)
(* through every gesture (AllShaped), for which the stored lists are shown   *)
(* to hold each known name once and a new prompt an id of its own.  A text   *)
(* has one place in the project's record, the same in the copy as on disk    *)
(* (Placed), so a save that dies half way finds it under one id.  And a text *)
(* that is owed is in the copy, and on disk if the copy was loaded with it,  *)
(* since a commit skips a record that did not change (Backed).               *)
EXTENDS PromptEdit, SequenceFilterProofs, FiniteSetTheorems

-----------------------------------------------------------------------------
(* The prompt overlay: what a gesture changes of the two records             *)

IsRecord(s) ==
  s = [entries |-> s.entries, prompts |-> s.prompts, skills |-> s.skills, tools |-> s.tools,
       enabled |-> s.enabled, custom |-> s.custom]

(* The instructions of AGENTS.md are an entry of the project's record only.  *)
NoAgents(s) == AgentsId \notin DOMAIN s.entries /\ AgentsId \notin DOMAIN s.prompts

IsUsers(s) == IsRecord(s) /\ NoAgents(s)

IsRecords(st) ==
  /\ st = [global |-> st.global, project |-> st.project]
  /\ IsUsers(st.global) /\ IsRecord(st.project)

(* The records stay records, and only those of the scopes differ.            *)
Changes(st, new, scopes) ==
  /\ IsRecords(new)
  /\ "global" \in scopes \/ new.global = st.global
  /\ "project" \in scopes \/ new.project = st.project

LEMMA ChangesNothing ==
  ASSUME NEW st, IsRecords(st), NEW scopes
  PROVE  Changes(st, st, scopes)
BY DEF Changes

LEMMA ChangesTwice ==
  ASSUME NEW st, NEW mid, NEW new, NEW one, NEW two, NEW scopes,
         Changes(st, mid, one), Changes(mid, new, two), one \subseteq scopes, two \subseteq scopes
  PROVE  Changes(st, new, scopes)
BY DEF Changes

LEMMA ScopeSet ==
  ASSUME NEW st, IsRecords(st), NEW scope \in Scopes, NEW s, IsRecord(s),
         scope = "global" => NoAgents(s)
  PROVE  Changes(st, [st EXCEPT ![scope] = s], {scope})
<1>0. st = [global |-> st.global, project |-> st.project]
  BY DEF IsRecords
<1>1. CASE scope = "global"
  <2>2. [st EXCEPT !.global = s] = [global |-> s, project |-> st.project]
    BY <1>0
  <2>1. [st EXCEPT ![scope] = s] = [global |-> s, project |-> st.project]
    BY <1>1, <2>2
  <2> QED BY <2>1, <1>1 DEF Changes, IsRecords, IsUsers
<1>2. CASE scope = "project"
  <2>2. [st EXCEPT !.project = s] = [global |-> st.global, project |-> s]
    BY <1>0
  <2>1. [st EXCEPT ![scope] = s] = [global |-> st.global, project |-> s]
    BY <1>2, <2>2
  <2> QED BY <2>1, <1>2 DEF Changes, IsRecords
<1> QED BY <1>1, <1>2 DEF Scopes

LEMMA ScopeIs ==
  ASSUME NEW st, IsRecords(st), NEW scope \in Scopes
  PROVE  IsRecord(st[scope]) /\ (scope = "global" => NoAgents(st[scope]))
BY DEF IsRecords, IsUsers, Scopes

LEMMA SetEntries ==
  ASSUME NEW st, IsRecords(st), NEW scope \in Scopes, NEW e,
         scope = "global" => AgentsId \notin DOMAIN e
  PROVE  Changes(st, [st EXCEPT ![scope].entries = e], {scope})
<1> DEFINE s == [st[scope] EXCEPT !.entries = e]
<1>1. IsRecord(s) /\ s.entries = e /\ s.prompts = st[scope].prompts
  <2> DEFINE r == st[scope]
  <2>1. IsRecord(r)
    BY ScopeIs
  <2> HIDE DEF r
  <2>2. LET n == [r EXCEPT !.entries = e]
        IN  IsRecord(n) /\ n.entries = e /\ n.prompts = r.prompts
    BY <2>1 DEF IsRecord
  <2> QED BY <2>2 DEF r
<1>2. scope = "global" => NoAgents(s)
  BY <1>1, ScopeIs DEF NoAgents
<1> HIDE DEF s
<1>3. Changes(st, [st EXCEPT ![scope] = s], {scope})
  BY <1>1, <1>2, ScopeSet
<1> QED BY <1>3 DEF s

LEMMA SetPrompts ==
  ASSUME NEW st, IsRecords(st), NEW scope \in Scopes, NEW e,
         scope = "global" => AgentsId \notin DOMAIN e
  PROVE  Changes(st, [st EXCEPT ![scope].prompts = e], {scope})
<1> DEFINE s == [st[scope] EXCEPT !.prompts = e]
<1>1. IsRecord(s) /\ s.prompts = e /\ s.entries = st[scope].entries
  <2> DEFINE r == st[scope]
  <2>1. IsRecord(r)
    BY ScopeIs
  <2> HIDE DEF r
  <2>2. LET n == [r EXCEPT !.prompts = e]
        IN  IsRecord(n) /\ n.entries = r.entries /\ n.prompts = e
    BY <2>1 DEF IsRecord
  <2> QED BY <2>2 DEF r
<1>2. scope = "global" => NoAgents(s)
  BY <1>1, ScopeIs DEF NoAgents
<1> HIDE DEF s
<1>3. Changes(st, [st EXCEPT ![scope] = s], {scope})
  BY <1>1, <1>2, ScopeSet
<1> QED BY <1>3 DEF s

LEMMA SetEnabledTools ==
  ASSUME NEW st, IsRecords(st), NEW scope \in Scopes, NEW e
  PROVE  Changes(st, [st EXCEPT ![scope].enabled = e], {scope})
<1> DEFINE s == [st[scope] EXCEPT !.enabled = e]
<1>1. IsRecord(s) /\ s.prompts = st[scope].prompts /\ s.entries = st[scope].entries
  <2> DEFINE r == st[scope]
  <2>1. IsRecord(r)
    BY ScopeIs
  <2> HIDE DEF r
  <2>2. LET n == [r EXCEPT !.enabled = e]
        IN  IsRecord(n) /\ n.entries = r.entries /\ n.prompts = r.prompts
    BY <2>1 DEF IsRecord
  <2> QED BY <2>2 DEF r
<1>2. scope = "global" => NoAgents(s)
  BY <1>1, ScopeIs DEF NoAgents
<1> HIDE DEF s
<1>3. Changes(st, [st EXCEPT ![scope] = s], {scope})
  BY <1>1, <1>2, ScopeSet
<1> QED BY <1>3 DEF s

LEMMA SetCustom ==
  ASSUME NEW st, IsRecords(st), NEW scope \in Scopes, NEW e
  PROVE  Changes(st, [st EXCEPT ![scope].custom = e], {scope})
<1> DEFINE s == [st[scope] EXCEPT !.custom = e]
<1>1. IsRecord(s) /\ s.prompts = st[scope].prompts /\ s.entries = st[scope].entries
  <2> DEFINE r == st[scope]
  <2>1. IsRecord(r)
    BY ScopeIs
  <2> HIDE DEF r
  <2>2. LET n == [r EXCEPT !.custom = e]
        IN  IsRecord(n) /\ n.entries = r.entries /\ n.prompts = r.prompts
    BY <2>1 DEF IsRecord
  <2> QED BY <2>2 DEF r
<1>2. scope = "global" => NoAgents(s)
  BY <1>1, ScopeIs DEF NoAgents
<1> HIDE DEF s
<1>3. Changes(st, [st EXCEPT ![scope] = s], {scope})
  BY <1>1, <1>2, ScopeSet
<1> QED BY <1>3 DEF s

LEMMA SetList ==
  ASSUME NEW st, IsRecords(st), NEW scope \in Scopes, NEW part \in {"skills", "tools"}, NEW list
  PROVE  Changes(st, [st EXCEPT ![scope][part] = list], {scope})
<1> DEFINE s == [st[scope] EXCEPT ![part] = list]
<1>1. IsRecord(s) /\ s.prompts = st[scope].prompts /\ s.entries = st[scope].entries
  <2> DEFINE r == st[scope]
  <2>1. IsRecord(r)
    BY ScopeIs
  <2> HIDE DEF r
  <2>2. LET n == [r EXCEPT ![part] = list]
        IN  IsRecord(n) /\ n.entries = r.entries /\ n.prompts = r.prompts
    <3>1. LET n == [r EXCEPT !.skills = list]
          IN  IsRecord(n) /\ n.entries = r.entries /\ n.prompts = r.prompts
      BY <2>1 DEF IsRecord
    <3>2. LET n == [r EXCEPT !.tools = list]
          IN  IsRecord(n) /\ n.entries = r.entries /\ n.prompts = r.prompts
      BY <2>1 DEF IsRecord
    <3> QED BY <3>1, <3>2
  <2> QED BY <2>2 DEF r
<1>2. scope = "global" => NoAgents(s)
  BY <1>1, ScopeIs DEF NoAgents
<1> HIDE DEF s
<1>3. Changes(st, [st EXCEPT ![scope] = s], {scope})
  BY <1>1, <1>2, ScopeSet
<1> QED BY <1>3 DEF s

-----------------------------------------------------------------------------
(* The operators                                                             *)

LEMMA OneMore ==
  ASSUME NEW f, NEW id, NEW e
  PROVE  DOMAIN Put(f, id, e) = {id} \cup DOMAIN f
BY DEF Put

LEMMA EntriesOf ==
  ASSUME NEW st, IsRecords(st), NEW scope \in Scopes
  PROVE  scope = "global" => AgentsId \notin DOMAIN st[scope].entries
                             /\ AgentsId \notin DOMAIN st[scope].prompts
BY ScopeIs DEF NoAgents

LEMMA UpsertChanges ==
  ASSUME NEW st, IsRecords(st), NEW scope \in Scopes, NEW id, NEW order, NEW title,
         scope = "global" => id # AgentsId
  PROVE  Changes(st, Upsert(st, scope, id, order, title), {scope})
<1> DEFINE more == Put(st[scope].entries, id, [on |-> TRUE, order |-> order, title |-> title])
<1>1. DOMAIN more = {id} \cup DOMAIN st[scope].entries
  BY OneMore
<1>2. Upsert(st, scope, id, order, title) = [st EXCEPT ![scope].entries = more]
  BY DEF Upsert
<1> HIDE DEF more
<1>3. scope = "global" => AgentsId \notin DOMAIN more
  BY <1>1, EntriesOf
<1>4. Changes(st, [st EXCEPT ![scope].entries = more], {scope})
  BY <1>3, SetEntries
<1> QED BY <1>2, <1>4

LEMMA EnsureChanges ==
  ASSUME NEW st, IsRecords(st), NEW scope \in Scopes, NEW id, NEW order,
         scope = "global" => id # AgentsId
  PROVE  Changes(st, EnsureEntry(st, scope, id, order), {scope})
BY UpsertChanges, ChangesNothing DEF EnsureEntry

LEMMA Ids ==
  /\ SkillsId # AgentsId /\ ToolsId # AgentsId /\ BaselineId # AgentsId /\ ChangesId # AgentsId
  /\ SkillsId # ToolsId /\ \A id \in {BaselineId, ChangesId} : id \notin {SkillsId, ToolsId}
  /\ \A id : IsPrompt(id) => id # AgentsId
  /\ \A slug : PromptId(slug) # AgentsId
  /\ SkillsId[1] = "skills" /\ ToolsId[1] = "tools"
  /\ <<"skills", 0>> = SkillsId /\ <<"tools", 0>> = ToolsId
BY DEF SkillsId, ToolsId, AgentsId, BaselineId, ChangesId, IsPrompt, PromptId

LEMMA EnsureSkillsChanges ==
  ASSUME NEW st, IsRecords(st), NEW scope \in Scopes
  PROVE  Changes(st, EnsureSkills(st, scope), {scope})
BY EnsureChanges, Ids DEF EnsureSkills

LEMMA EnsureToolsChanges ==
  ASSUME NEW st, IsRecords(st), NEW scope \in Scopes
  PROVE  Changes(st, EnsureTools(st, scope), {scope})
BY EnsureChanges, Ids DEF EnsureTools

LEMMA EnsureDynamicChanges ==
  ASSUME NEW st, IsRecords(st)
  PROVE  Changes(st, EnsureDynamic(st), {"global"})
<1> DEFINE one == EnsureEntry(st, "global", BaselineId, 15)
<1>1. "global" \in Scopes
  BY DEF Scopes
<1>2. Changes(st, one, {"global"})
  BY <1>1, EnsureChanges, Ids
<1> HIDE DEF one
<1>3. Changes(one, EnsureEntry(one, "global", ChangesId, 16), {"global"})
  BY <1>1, <1>2, EnsureChanges, Ids DEF Changes
<1>4. Changes(st, EnsureEntry(one, "global", ChangesId, 16), {"global"})
  BY <1>2, <1>3, ChangesTwice
<1> QED BY <1>4 DEF EnsureDynamic, one

LEMMA EnsureInstructionsChanges ==
  ASSUME NEW st, IsRecords(st)
  PROVE  Changes(st, EnsureInstructions(st), {"project"})
<1>1. "project" \in Scopes /\ "project" # "global"
  BY DEF Scopes
<1> QED BY <1>1, EnsureChanges DEF EnsureInstructions

LEMMA PartScopeIsScope ==
  ASSUME NEW st, NEW part, NEW fallback \in Scopes
  PROVE  PartScope(st, part, fallback) \in Scopes
BY DEF PartScope, Scopes

LEMMA EffectiveScopeIs ==
  ASSUME NEW st, NEW scope \in Scopes
  PROVE  /\ \A id : EffectiveScope(st, id, scope) \in Scopes
         /\ EffectiveScope(st, SkillsId, scope) = PartScope(st, "skills", scope)
         /\ EffectiveScope(st, ToolsId, scope) = PartScope(st, "tools", scope)
         /\ \A id \in {BaselineId, ChangesId} : EffectiveScope(st, id, scope) = "global"
         /\ \A id : id \notin {SkillsId, ToolsId, BaselineId, ChangesId}
                     => EffectiveScope(st, id, scope) = scope
<1>1. \A id \in {SkillsId, ToolsId} : EffectiveScope(st, id, scope) = PartScope(st, id[1], scope)
  BY Ids DEF EffectiveScope
<1>2. \A id \in {BaselineId, ChangesId} : EffectiveScope(st, id, scope) = "global"
  BY Ids DEF EffectiveScope
<1>3. \A id : id \notin {SkillsId, ToolsId, BaselineId, ChangesId} => EffectiveScope(st, id, scope) = scope
  BY DEF EffectiveScope
<1>4. "global" \in Scopes
  BY DEF Scopes
<1>5. \A id : EffectiveScope(st, id, scope) \in Scopes
  BY <1>1, <1>2, <1>3, <1>4, PartScopeIsScope
<1> QED BY <1>1, <1>2, <1>3, <1>5, Ids

LEMMA EffectiveIsRecords ==
  ASSUME NEW st, IsRecords(st)
  PROVE  IsRecords(Effective(st))
<1>1. "project" \in Scopes /\ "global" \in Scopes
  BY DEF Scopes
<1> DEFINE a == EnsureDefaultSkills(st)
           b == EnsureDefaultTools(a)
           c == EnsureDynamic(b)
<1>2. IsRecords(a)
  BY <1>1, EnsureSkillsChanges DEF EnsureDefaultSkills, Changes
<1> HIDE DEF a
<1>3. IsRecords(b)
  BY <1>1, <1>2, EnsureToolsChanges, PartScopeIsScope DEF EnsureDefaultTools, Changes
<1> HIDE DEF b
<1>4. IsRecords(c)
  BY <1>3, EnsureDynamicChanges DEF Changes
<1> HIDE DEF c
<1>5. IsRecords(EnsureInstructions(c))
  BY <1>4, EnsureInstructionsChanges DEF Changes
<1> QED BY <1>5 DEF Effective, a, b, c

(* The scopes a gesture on a row is about.                                   *)
AimAt(st, scope, id) == {scope, EffectiveScope(st, id, scope)}

LEMMA MaterializedChanges ==
  ASSUME NEW st, IsRecords(st), NEW scope \in Scopes, NEW id,
         id = AgentsId => scope = "project"
  PROVE  Changes(st, Materialized(st, scope, id), AimAt(st, scope, id))
<1> DEFINE aim == AimAt(st, scope, id)
<1>0. scope \in aim /\ EffectiveScope(st, id, scope) \in aim
  BY DEF AimAt
<1>1. CASE id = SkillsId
  <2>1. Materialized(st, scope, id) = EnsureSkills(st, scope)
    BY <1>1, Ids DEF Materialized
  <2> QED BY <2>1, <1>0, EnsureSkillsChanges DEF Changes
<1>2. CASE id = ToolsId
  <2>1. Materialized(st, scope, id) = EnsureTools(st, EffectiveScope(st, id, scope))
    BY <1>2, Ids DEF Materialized
  <2>2. EffectiveScope(st, id, scope) \in Scopes
    BY EffectiveScopeIs
  <2>3. Changes(st, EnsureTools(st, EffectiveScope(st, id, scope)), {EffectiveScope(st, id, scope)})
    BY <2>2, EnsureToolsChanges
  <2> QED BY <2>1, <2>3, <1>0 DEF Changes
<1>3. CASE id \in {BaselineId, ChangesId}
  <2>1. Materialized(st, scope, id) = EnsureDynamic(st)
    BY <1>3, Ids DEF Materialized
  <2>2. EffectiveScope(st, id, scope) = "global"
    BY <1>3, EffectiveScopeIs
  <2> QED BY <2>1, <2>2, <1>0, EnsureDynamicChanges DEF Changes
<1>4. CASE id = AgentsId
  <2>1. Materialized(st, scope, id) = EnsureInstructions(st)
    BY <1>4, Ids DEF Materialized
  <2>2. scope = "project"
    BY <1>4
  <2> QED BY <2>1, <2>2, <1>0, EnsureInstructionsChanges DEF Changes
<1>5. CASE id \notin {SkillsId, ToolsId, BaselineId, ChangesId, AgentsId}
  <2>1. Materialized(st, scope, id) = st
    BY <1>5 DEF Materialized
  <2> QED BY <2>1, ChangesNothing
<1> QED BY <1>1, <1>2, <1>3, <1>4, <1>5

(* A section stored where it belongs, or where it is asked for, belongs to   *)
(* one of the two afterwards.                                                *)
LEMMA OwnerStays ==
  ASSUME NEW st, NEW new, NEW part, NEW fallback \in Scopes,
         NEW owner \in {fallback, PartScope(st, part, fallback)},
         Changes(st, new, {owner}), <<part, 0>> \in DOMAIN new[owner].entries
  PROVE  PartScope(new, part, fallback) \in {fallback, PartScope(st, part, fallback)}
<1>1. Claims(new[owner], part)
  BY DEF Claims
<1>2. CASE owner = "project"
  <2>1. PartScope(new, part, fallback) = "project"
    BY <1>1, <1>2 DEF PartScope
  <2> QED BY <2>1, <1>2
<1>3. CASE owner = "global"
  <2>1. new.project = st.project
    BY <1>3 DEF Changes
  <2>2. CASE Claims(st.project, part)
    BY <2>1, <2>2 DEF PartScope
  <2>3. CASE ~Claims(st.project, part)
    <3>1. PartScope(new, part, fallback) = "global"
      BY <1>1, <1>3, <2>1, <2>3 DEF PartScope
    <3> QED BY <3>1, <1>3
  <2> QED BY <2>2, <2>3
<1>4. owner \in Scopes
  BY PartScopeIsScope
<1> QED BY <1>2, <1>3, <1>4 DEF Scopes

LEMMA EnsuredIsThere ==
  ASSUME NEW st, IsRecords(st), NEW scope \in Scopes, NEW id, NEW order
  PROVE  id \in DOMAIN EnsureEntry(st, scope, id, order)[scope].entries
<1>1. CASE id \in DOMAIN st[scope].entries
  BY <1>1 DEF EnsureEntry
<1>2. CASE id \notin DOMAIN st[scope].entries
  <2> DEFINE more == Put(st[scope].entries, id, [on |-> TRUE, order |-> order, title |-> TitleOf[id[1]]])
             s == [st[scope] EXCEPT !.entries = more]
  <2>1. EnsureEntry(st, scope, id, order) = [st EXCEPT ![scope] = s]
    BY <1>2 DEF EnsureEntry, Upsert
  <2>2. DOMAIN more = {id} \cup DOMAIN st[scope].entries
    BY OneMore
  <2> HIDE DEF more
  <2>3. s.entries = more
    <3> DEFINE r == st[scope]
    <3>1. IsRecord(r)
      BY ScopeIs
    <3> HIDE DEF r
    <3>2. [r EXCEPT !.entries = more].entries = more
      BY <3>1 DEF IsRecord
    <3> QED BY <3>2 DEF r
  <2> HIDE DEF s
  <2>4. scope \in DOMAIN st
    BY DEF IsRecords, Scopes
  <2>5. [st EXCEPT ![scope] = s][scope] = s
    BY <2>4
  <2> QED BY <2>1, <2>2, <2>3, <2>5
<1> QED BY <1>1, <1>2

LEMMA OwnerOfMaterialized ==
  ASSUME NEW st, IsRecords(st), NEW scope \in Scopes, NEW id
  PROVE  EffectiveScope(Materialized(st, scope, id), id, scope) \in AimAt(st, scope, id)
<1>1. CASE id = SkillsId
  <2> DEFINE new == EnsureSkills(st, scope)
  <2>1. Materialized(st, scope, id) = new
    BY <1>1, Ids DEF Materialized
  <2>2. Changes(st, new, {scope}) /\ <<"skills", 0>> \in DOMAIN new[scope].entries
    BY EnsureSkillsChanges, EnsuredIsThere, Ids DEF EnsureSkills
  <2> HIDE DEF new
  <2>3. PartScope(new, "skills", scope) \in {scope, PartScope(st, "skills", scope)}
    BY <2>2, OwnerStays
  <2> QED BY <2>1, <2>3, <1>1, EffectiveScopeIs DEF AimAt
<1>2. CASE id = ToolsId
  <2> DEFINE owner == PartScope(st, "tools", scope)
             new == EnsureTools(st, owner)
  <2>0. owner \in Scopes
    BY PartScopeIsScope
  <2>1. Materialized(st, scope, id) = new
    BY <1>2, Ids, EffectiveScopeIs DEF Materialized
  <2> HIDE DEF owner
  <2>2. Changes(st, new, {owner}) /\ <<"tools", 0>> \in DOMAIN new[owner].entries
    BY <2>0, EnsureToolsChanges, EnsuredIsThere, Ids DEF EnsureTools
  <2> HIDE DEF new
  <2>3. PartScope(new, "tools", scope) \in {scope, PartScope(st, "tools", scope)}
    BY <2>2, OwnerStays DEF owner
  <2> QED BY <2>1, <2>3, <1>2, EffectiveScopeIs DEF AimAt
<1>3. CASE id \notin {SkillsId, ToolsId}
  <2>1. CASE id \in {BaselineId, ChangesId}
    BY <2>1, EffectiveScopeIs DEF AimAt
  <2>2. CASE id \notin {BaselineId, ChangesId}
    BY <1>3, <2>2, EffectiveScopeIs DEF AimAt
  <2> QED BY <2>1, <2>2
<1> QED BY <1>1, <1>2, <1>3

LEMMA SetEnabledChanges ==
  ASSUME NEW st, IsRecords(st), NEW row, row.scope \in Scopes, NEW on,
         row.id = AgentsId => row.scope = "project"
  PROVE  Changes(st, SetEnabled(st, row, on), AimAt(st, row.scope, row.id))
<1> DEFINE stored == Materialized(st, row.scope, row.id)
           scope == EffectiveScope(stored, row.id, row.scope)
           entries == [stored[scope].entries EXCEPT ![row.id].on = on]
           aim == AimAt(st, row.scope, row.id)
<1>1. Changes(st, stored, aim)
  BY MaterializedChanges
<1>2. scope \in aim
  BY OwnerOfMaterialized
<1>3. scope \in Scopes
  BY EffectiveScopeIs
<1>4. SetEnabled(st, row, on) = IF row.id \notin DOMAIN stored[scope].entries THEN stored
                                ELSE [stored EXCEPT ![scope].entries = entries]
  BY DEF SetEnabled
<1>5. DOMAIN entries = DOMAIN stored[scope].entries
  OBVIOUS
<1> HIDE DEF stored, scope, aim, entries
<1>6. IsRecords(stored)
  BY <1>1 DEF Changes
<1>7. scope = "global" => AgentsId \notin DOMAIN entries
  BY <1>3, <1>5, <1>6, EntriesOf
<1>8. Changes(stored, [stored EXCEPT ![scope].entries = entries], {scope})
  BY <1>3, <1>6, <1>7, SetEntries
<1>9. Changes(st, [stored EXCEPT ![scope].entries = entries], aim)
  BY <1>1, <1>2, <1>8, ChangesTwice
<1> QED BY <1>1, <1>4, <1>9 DEF aim

LEMMA OmitLess ==
  ASSUME NEW f, NEW x, NEW y, y \notin DOMAIN f
  PROVE  y \notin DOMAIN Omit(f, x)
BY DEF Omit, Restrict

LEMMA RemoveEntryChanges ==
  ASSUME NEW st, IsRecords(st), NEW scope \in Scopes, NEW id
  PROVE  Changes(st, RemoveEntry(st, scope, id), {scope})
<1> DEFINE less == Omit(st[scope].entries, id)
<1>1. RemoveEntry(st, scope, id) = [st EXCEPT ![scope].entries = less]
  BY DEF RemoveEntry
<1>2. scope = "global" => AgentsId \notin DOMAIN less
  BY EntriesOf, OmitLess
<1> HIDE DEF less
<1>3. Changes(st, [st EXCEPT ![scope].entries = less], {scope})
  BY <1>2, SetEntries
<1> QED BY <1>1, <1>3

LEMMA PutPromptChanges ==
  ASSUME NEW st, IsRecords(st), NEW scope \in Scopes, NEW id, id # AgentsId, NEW text
  PROVE  Changes(st, [st EXCEPT ![scope].prompts = Put(@, id, text)], {scope})
<1> DEFINE more == Put(st[scope].prompts, id, text)
<1>4. DOMAIN more = {id} \cup DOMAIN st[scope].prompts
  BY OneMore
<1>2. [st EXCEPT ![scope].prompts = Put(@, id, text)] = [st EXCEPT ![scope].prompts = more]
  OBVIOUS
<1> HIDE DEF more
<1>1. scope = "global" => AgentsId \notin DOMAIN more
  BY <1>4, EntriesOf
<1>3. Changes(st, [st EXCEPT ![scope].prompts = more], {scope})
  BY <1>1, SetPrompts
<1> QED BY <1>2, <1>3

LEMMA CreatePromptChanges ==
  ASSUME NEW st, IsRecords(st), NEW scope \in Scopes, NEW text
  PROVE  Changes(st, CreatePrompt(st, scope, text), {scope})
<1> DEFINE id == FreshId(st[scope], text.title)
           mid == Upsert(st, scope, id, NextOrder(st[scope]), text.title)
<1>1. id # AgentsId
  BY Ids DEF FreshId
<1>2. CreatePrompt(st, scope, text) = [mid EXCEPT ![scope].prompts = Put(@, id, text)]
  BY DEF CreatePrompt
<1> HIDE DEF id
<1>3. Changes(st, mid, {scope})
  BY <1>1, UpsertChanges
<1> HIDE DEF mid
<1>4. IsRecords(mid)
  BY <1>3 DEF Changes
<1>5. Changes(mid, [mid EXCEPT ![scope].prompts = Put(@, id, text)], {scope})
  BY <1>1, <1>4, PutPromptChanges
<1> QED BY <1>2, <1>3, <1>5, ChangesTwice

LEMMA EditPromptChanges ==
  ASSUME NEW st, IsRecords(st), NEW scope \in Scopes, NEW id, id # AgentsId, NEW text
  PROVE  Changes(st, EditPrompt(st, scope, id, text), {scope})
<1> DEFINE titled == [st[scope].entries EXCEPT ![id].title = text.title]
           one == [st EXCEPT ![scope].entries = titled]
           two == Upsert(st, scope, id, NextOrder(st[scope]), text.title)
           mid == IF id \in DOMAIN st[scope].entries THEN one ELSE two
<1>1. scope = "global" => AgentsId \notin DOMAIN titled
  BY EntriesOf
<1>2. EditPrompt(st, scope, id, text) = [mid EXCEPT ![scope].prompts = Put(@, id, text)]
  BY DEF EditPrompt
<1>3. Changes(st, two, {scope})
  BY UpsertChanges
<1> HIDE DEF titled, two
<1>4. Changes(st, one, {scope})
  BY <1>1, SetEntries
<1> HIDE DEF one
<1>5. Changes(st, mid, {scope})
  BY <1>3, <1>4
<1> HIDE DEF mid
<1>6. IsRecords(mid)
  BY <1>5 DEF Changes
<1>7. Changes(mid, [mid EXCEPT ![scope].prompts = Put(@, id, text)], {scope})
  BY <1>6, PutPromptChanges
<1> QED BY <1>2, <1>5, <1>7, ChangesTwice

LEMMA SelectPromptChanges ==
  ASSUME NEW st, IsRecords(st), NEW scope \in Scopes, NEW id
  PROVE  Changes(st, SelectPrompt(st, scope, id), {scope})
<1>1. CASE id \notin DOMAIN st[scope].prompts \/ id \in DOMAIN st[scope].entries
  BY <1>1, ChangesNothing DEF SelectPrompt
<1>2. CASE id \in DOMAIN st[scope].prompts /\ id \notin DOMAIN st[scope].entries
  <2>1. scope = "global" => id # AgentsId
    BY <1>2, EntriesOf
  <2> QED BY <1>2, <2>1, UpsertChanges DEF SelectPrompt
<1> QED BY <1>1, <1>2

LEMMA DeletePromptChanges ==
  ASSUME NEW st, IsRecords(st), NEW scope \in Scopes, NEW id
  PROVE  Changes(st, DeletePrompt(st, scope, id), {scope})
<1> DEFINE mid == RemoveEntry(st, scope, id)
           less == Omit(mid[scope].prompts, id)
<1>1. DeletePrompt(st, scope, id) = [mid EXCEPT ![scope].prompts = less]
  BY DEF DeletePrompt
<1>2. Changes(st, mid, {scope})
  BY RemoveEntryChanges
<1> HIDE DEF mid
<1>3. IsRecords(mid)
  BY <1>2 DEF Changes
<1>4. scope = "global" => AgentsId \notin DOMAIN less
  BY <1>3, EntriesOf, OmitLess
<1> HIDE DEF less
<1>5. Changes(mid, [mid EXCEPT ![scope].prompts = less], {scope})
  BY <1>3, <1>4, SetPrompts
<1> QED BY <1>1, <1>2, <1>5, ChangesTwice

LEMMA ListChanges ==
  ASSUME NEW st, IsRecords(st), NEW scope \in Scopes, NEW part \in {"skills", "tools"},
         NEW name, NEW step, NEW on
  PROVE  /\ Changes(st, SetSelected(st, scope, part, name, on), {scope})
         /\ Changes(st, MoveListed(st, scope, part, name, step), {scope})
<1>1. Changes(st, SetSelected(st, scope, part, name, on), {scope})
  BY SetList DEF SetSelected
<1>2. Changes(st, MoveListed(st, scope, part, name, step), {scope})
  BY SetList DEF MoveListed
<1> QED BY <1>1, <1>2

LEMMA ResetChanges ==
  ASSUME NEW st, IsRecords(st), NEW scope \in Scopes
  PROVE  Changes(st, ResetSkillOrder(st, scope), {scope})
<1>1. \A list : Changes(st, [st EXCEPT ![scope]["skills"] = list], {scope})
  BY SetList
<1> QED BY <1>1 DEF ResetSkillOrder

LEMMA SetToolEnabledChanges ==
  ASSUME NEW st, IsRecords(st), NEW scope \in Scopes, NEW tool, NEW on
  PROVE  Changes(st, SetToolEnabled(st, scope, tool, on), {PartScope(st, "tools", scope)})
<1> DEFINE owner == PartScope(st, "tools", scope)
           more == Put(st[owner].enabled, tool, on)
<1>1. owner \in Scopes
  BY PartScopeIsScope
<1>2. SetToolEnabled(st, scope, tool, on) = [st EXCEPT ![owner].enabled = more]
  BY DEF SetToolEnabled
<1> HIDE DEF more
<1>3. Changes(st, [st EXCEPT ![owner].enabled = more], {owner})
  BY <1>1, SetEnabledTools
<1> QED BY <1>2, <1>3

LEMMA SetOverrideChanges ==
  ASSUME NEW st, IsRecords(st), NEW scope \in Scopes, NEW part
  PROVE  Changes(st, SetOverride(st, scope, part), {scope})
BY SetCustom DEF SetOverride

LEMMA OverridePartChanges ==
  ASSUME NEW st, IsRecords(st), NEW scope \in Scopes, NEW part
  PROVE  Changes(st, OverridePart(st, scope, part), {PartScope(st, part, scope)})
<1> DEFINE owner == PartScope(st, part, scope)
           mid == SetOverride(st, owner, part)
<1>1. owner \in Scopes
  BY PartScopeIsScope
<1>2. OverridePart(st, scope, part)
        = IF part = "skills" THEN EnsureSkills(mid, owner) ELSE EnsureTools(mid, owner)
  BY DEF OverridePart
<1> HIDE DEF owner
<1>3. Changes(st, mid, {owner})
  BY <1>1, SetOverrideChanges
<1> HIDE DEF mid
<1>4. IsRecords(mid)
  BY <1>3 DEF Changes
<1>5. Changes(mid, EnsureSkills(mid, owner), {owner}) /\ Changes(mid, EnsureTools(mid, owner), {owner})
  BY <1>1, <1>4, EnsureSkillsChanges, EnsureToolsChanges
<1>6. Changes(st, EnsureSkills(mid, owner), {owner}) /\ Changes(st, EnsureTools(mid, owner), {owner})
  BY <1>3, <1>5, ChangesTwice
<1> QED BY <1>2, <1>6 DEF owner

LEMMA WithOrderKeeps ==
  ASSUME NEW st, IsRecords(st), NEW row, NEW order
  PROVE  IsRecords(WithOrder(st, row, order))
<1> DEFINE entries == [st[row.scope].entries EXCEPT ![row.id].order = order]
<1>1. WithOrder(st, row, order) = [st EXCEPT ![row.scope].entries = entries]
  BY DEF WithOrder
<1>2. CASE row.scope \in Scopes
  <2>1. row.scope = "global" => AgentsId \notin DOMAIN entries
    BY <1>2, EntriesOf
  <2> HIDE DEF entries
  <2>2. Changes(st, [st EXCEPT ![row.scope].entries = entries], {row.scope})
    BY <1>2, <2>1, SetEntries
  <2> QED BY <1>1, <2>2 DEF Changes
<1>3. CASE row.scope \notin Scopes
  <2>1. st = [global |-> st.global, project |-> st.project]
    BY DEF IsRecords
  <2>2. DOMAIN st = Scopes
    BY <2>1 DEF Scopes
  <2> HIDE DEF entries
  <2>3. [st EXCEPT ![row.scope].entries = entries] = st
    BY <1>3, <2>1, <2>2
  <2> QED BY <1>1, <2>3
<1> QED BY <1>2, <1>3

LEMMA NormalizedKeeps ==
  ASSUME NEW st, IsRecords(st)
  PROVE  IsRecords(Normalized(st))
<1> DEFINE rows == Ordered(st, AllRows(st))
           place(row) == 10 * (CHOOSE i \in DOMAIN rows : rows[i] = row)
           new(scope) == [id \in DOMAIN st[scope].entries |->
                            [st[scope].entries[id] EXCEPT !.order = place([scope |-> scope, id |-> id])]]
           renumbered(scope) == [st[scope] EXCEPT !.entries = new(scope)]
<1>1. Normalized(st) = [global |-> renumbered("global"), project |-> renumbered("project")]
  BY DEF Normalized
<1>2. DOMAIN new("global") = DOMAIN st["global"].entries
  OBVIOUS
<1> HIDE DEF new
<1>3. IsRecord(st.global) /\ IsRecord(st.project) /\ NoAgents(st.global)
  BY DEF IsRecords, IsUsers
<1>4. \A r, e : IsRecord(r) => /\ IsRecord([r EXCEPT !.entries = e])
                               /\ [r EXCEPT !.entries = e].entries = e
                               /\ [r EXCEPT !.entries = e].prompts = r.prompts
  BY DEF IsRecord
<1>5. IsRecord(renumbered("global")) /\ IsRecord(renumbered("project"))
  BY <1>3, <1>4
<1>6. renumbered("global").entries = new("global") /\ renumbered("global").prompts = st.global.prompts
  BY <1>3, <1>4
<1> HIDE DEF renumbered
<1>7. NoAgents(renumbered("global"))
  BY <1>2, <1>3, <1>6 DEF NoAgents
<1> QED BY <1>1, <1>5, <1>7 DEF IsRecords, IsUsers

LEMMA MoveKeeps ==
  ASSUME NEW st, IsRecords(st), NEW row, row.scope \in Scopes, NEW step,
         row.id = AgentsId => row.scope = "project"
  PROVE  Changes(st, MoveActiveSource(st, row, step), Scopes)
<1> DEFINE all == Materialized(Effective(st), row.scope, row.id)
<1>1. IsRecords(all)
  BY EffectiveIsRecords, MaterializedChanges DEF Changes
<1>2. \A a, b, m, n : IsRecords(Normalized(WithOrder(WithOrder(all, a, m), b, n)))
  <2> SUFFICES ASSUME NEW a, NEW b, NEW m, NEW n
               PROVE  IsRecords(Normalized(WithOrder(WithOrder(all, a, m), b, n)))
    OBVIOUS
  <2> HIDE DEF all
  <2>1. IsRecords(WithOrder(all, a, m))
    BY <1>1, WithOrderKeeps
  <2>2. IsRecords(WithOrder(WithOrder(all, a, m), b, n))
    BY <2>1, WithOrderKeeps
  <2> QED BY <2>2, NormalizedKeeps
<1>3. IsRecords(MoveActiveSource(st, row, step))
  <2> DEFINE rows == Ordered(all, AllRows(all))
             at == {i \in DOMAIN rows : rows[i] = row /\ i + step \in DOMAIN rows}
             x == CHOOSE x \in at : TRUE
             neighbour == rows[x + step]
  <2>1. MoveActiveSource(st, row, step) =
          IF at = {} THEN all
          ELSE Normalized(WithOrder(WithOrder(all, row, EntryAt(all, neighbour).order),
                                    neighbour, EntryAt(all, row).order))
    BY DEF MoveActiveSource
  <2> HIDE DEF all, at, neighbour
  <2> QED BY <1>1, <1>2, <2>1
<1> QED BY <1>3 DEF Changes, Scopes

-----------------------------------------------------------------------------
(* The processes                                                             *)

(* What a process holds and keeps on disk are records, an open overlay has   *)
(* its session, and the copy differs from what it was loaded from in the     *)
(* scopes its gestures were about.                                           *)
Held(p) ==
  /\ IsRecord(projectFiles[p]) /\ IsRecords(shown[p])
  /\ \A st \in event[p] : IsRecords(st)
  /\ \A s \in editSession[p] : IsRecords(s.base) /\ Changes(s.base, s.work, aimed[p])
  /\ overlay[p] => editSession[p] # {}

PromptDomains ==
  /\ DOMAIN projectFiles = processes /\ DOMAIN editSession = processes
  /\ DOMAIN overlay = processes /\ DOMAIN shown = processes /\ DOMAIN event = processes
  /\ DOMAIN options = processes /\ DOMAIN conversation = processes
  /\ DOMAIN aimed = processes /\ DOMAIN excuse = processes

PromptHeld == PromptDomains /\ IsUsers(globalStore) /\ \A p \in processes : Held(p)

LEMMA SavedIsRecords ==
  ASSUME PromptHeld, NEW p \in processes
  PROVE  IsRecords(Saved(p))
BY DEF PromptHeld, Held, IsRecords, Saved, IsUsers

LEMMA SessionIsThere ==
  ASSUME PromptHeld, NEW p \in processes, editSession[p] # {}
  PROVE  /\ \E s \in editSession[p] : Work(p) = s.work /\ Base(p) = s.base
         /\ IsRecords(Work(p)) /\ IsRecords(Base(p)) /\ Changes(Base(p), Work(p), aimed[p])
BY DEF PromptHeld, Held, Work, Base, Changes

LEMMA PromptInitHeld ==
  ASSUME PromptInit PROVE PromptHeld
<1>1. IsRecord(EmptyScope)
  BY DEF IsRecord, EmptyScope
<1>2. NoAgents(EmptyScope)
  BY DEF NoAgents, EmptyScope
<1>3. PromptDomains
  BY DEF PromptInit, PromptDomains
<1>4. IsUsers(globalStore)
  BY <1>1, <1>2 DEF PromptInit, IsUsers
<1>5. ASSUME NEW p \in processes PROVE Held(p)
  <2>1. projectFiles[p] = EmptyScope /\ shown[p] = Saved(p) /\ event[p] = {} /\ editSession[p] = {}
        /\ overlay[p] = FALSE
    BY DEF PromptInit
  <2>2. IsRecords(Saved(p))
    BY <1>1, <1>4, <2>1 DEF IsRecords, Saved, IsUsers
  <2> QED BY <1>1, <2>1, <2>2 DEF Held
<1> QED BY <1>3, <1>4, <1>5 DEF PromptHeld

LEMMA RowIsOfScope ==
  ASSUME NEW st, IsRecords(st), NEW row \in AllRows(st)
  PROVE  row.scope \in Scopes /\ (row.id = AgentsId => row.scope = "project")
<1>1. PICK scope \in Scopes : \E id \in DOMAIN st[scope].entries : row = [scope |-> scope, id |-> id]
  BY DEF AllRows
<1>2. row.scope = scope /\ row.id \in DOMAIN st[scope].entries
  BY <1>1
<1> QED BY <1>2, EntriesOf DEF Scopes

(* Each gesture changes the working copy in the scopes it is about.          *)
LEMMA GestureIsAimed ==
  ASSUME PromptHeld, NEW p \in processes, overlay[p], GestureNext(p)
  PROVE  \E family, work, scopes : Apply(p, family, work, scopes) /\ Changes(Work(p), work, scopes)
<1>1. IsRecords(Work(p))
  BY SessionIsThere DEF PromptHeld, Held
<1>2. IsRecords(shown[p]) /\ IsRecords(Effective(shown[p]))
  BY EffectiveIsRecords DEF PromptHeld, Held
<1>3. ASSUME NEW row \in ScreenRows(p)
      PROVE  row.scope \in Scopes /\ (row.id = AgentsId => row.scope = "project")
  BY <1>2, RowIsOfScope DEF ScreenRows
<1>4. "project" \in Scopes /\ "global" \in Scopes
  BY DEF Scopes
<1>5. \A st : SkillScope(st) \in Scopes /\ ToolScope(st) \in Scopes
  BY <1>4, PartScopeIsScope DEF SkillScope, ToolScope
<1>6. CASE \E row \in ScreenRows(p) : ToggleRow(p, row)
  <2>1. PICK row \in ScreenRows(p) : ToggleRow(p, row)
    BY <1>6
  <2>2. Changes(Work(p), Toggled(p, row), AimAt(Work(p), row.scope, row.id))
    BY <1>1, <1>3, SetEnabledChanges DEF Toggled
  <2>3. Apply(p, "toggle", Toggled(p, row), AimAt(Work(p), row.scope, row.id))
    BY <2>1 DEF ToggleRow, Gesture, Aim, AimAt
  <2> QED BY <2>2, <2>3
<1>7. CASE \E row \in ScreenRows(p), step \in {-1, 1} : MoveRow(p, row, step)
  <2>1. PICK row \in ScreenRows(p), step \in {-1, 1} : MoveRow(p, row, step)
    BY <1>7
  <2>2. Changes(Work(p), MoveActiveSource(Work(p), row, step), Scopes)
    BY <1>1, <1>3, MoveKeeps
  <2>3. Apply(p, "move", MoveActiveSource(Work(p), row, step), Scopes)
    BY <2>1 DEF MoveRow, Gesture
  <2> QED BY <2>2, <2>3
<1>8. CASE \E row \in ScreenRows(p) : RemoveRow(p, row)
  <2>1. PICK row \in ScreenRows(p) : RemoveRow(p, row)
    BY <1>8
  <2>2. Changes(Work(p), RemoveEntry(Work(p), row.scope, row.id), {row.scope})
    BY <1>1, <1>3, RemoveEntryChanges
  <2>3. Apply(p, "prompts", RemoveEntry(Work(p), row.scope, row.id), {row.scope})
    BY <2>1 DEF RemoveRow, Gesture
  <2> QED BY <2>2, <2>3
<1>9. CASE \E scope \in Scopes : Create(p, scope)
  <2>1. PICK scope \in Scopes : Create(p, scope)
    BY <1>9
  <2>2. \A text : Changes(Work(p), CreatePrompt(Work(p), scope, text), {scope})
    BY <1>1, CreatePromptChanges
  <2>3. \E text : Apply(p, "prompts", CreatePrompt(Work(p), scope, text), {scope})
    BY <2>1 DEF Create, WriteText
  <2> QED BY <2>2, <2>3
<1>10. CASE \E scope \in Scopes : \E id \in DOMAIN shown[p][scope].prompts
                                   \cup DOMAIN shown[p][scope].entries : Edit(p, scope, id)
  <2>1. PICK scope \in Scopes : \E id \in DOMAIN shown[p][scope].prompts
                                   \cup DOMAIN shown[p][scope].entries : Edit(p, scope, id)
    BY <1>10
  <2>2. PICK id : Edit(p, scope, id)
    BY <2>1
  <2>3. id # AgentsId
    BY <2>2, Ids DEF Edit
  <2>4. \A text : Changes(Work(p), EditPrompt(Work(p), scope, id, text), {scope})
    BY <1>1, <2>3, EditPromptChanges
  <2>5. \E text : Apply(p, "prompts", EditPrompt(Work(p), scope, id, text), {scope})
    BY <2>2 DEF Edit, WriteText
  <2> QED BY <2>4, <2>5
<1>11. CASE \E scope \in Scopes : \E id \in DOMAIN shown[p][scope].prompts : PickPrompt(p, scope, id)
  <2>10. PICK scope \in Scopes : \E id \in DOMAIN shown[p][scope].prompts : PickPrompt(p, scope, id)
    BY <1>11
  <2>1. PICK id : PickPrompt(p, scope, id)
    BY <2>10
  <2>2. Changes(Work(p), RemoveEntry(Work(p), scope, id), {scope})
    BY <1>1, RemoveEntryChanges
  <2>3. Changes(Work(p), SelectPrompt(Work(p), scope, id), {scope})
    BY <1>1, SelectPromptChanges
  <2>4. \/ Apply(p, "prompts", RemoveEntry(Work(p), scope, id), {scope})
        \/ Apply(p, "prompts", SelectPrompt(Work(p), scope, id), {scope})
    BY <2>1 DEF PickPrompt, Gesture
  <2> QED BY <2>2, <2>3, <2>4
<1>12. CASE \E scope \in Scopes : \E id \in DOMAIN shown[p][scope].prompts : Delete(p, scope, id)
  <2>10. PICK scope \in Scopes : \E id \in DOMAIN shown[p][scope].prompts : Delete(p, scope, id)
    BY <1>12
  <2>1. PICK id : Delete(p, scope, id)
    BY <2>10
  <2>2. Changes(Work(p), DeletePrompt(Work(p), scope, id), {scope})
    BY <1>1, DeletePromptChanges
  <2>3. Apply(p, "prompts", DeletePrompt(Work(p), scope, id), {scope})
    BY <2>1 DEF Delete
  <2> QED BY <2>2, <2>3
<1> DEFINE skillScope == SkillScope(Effective(shown[p]))
           toolScope == ToolScope(Effective(shown[p]))
           owner == PartScope(Work(p), "tools", toolScope)
<1>20. skillScope \in Scopes /\ toolScope \in Scopes
  BY <1>5
<1>21. owner \in Scopes
  BY <1>20, PartScopeIsScope
<1>22. \A name, step, on :
         /\ Changes(Work(p), SetSelected(Work(p), skillScope, "skills", name, on), {skillScope})
         /\ Changes(Work(p), MoveListed(Work(p), skillScope, "skills", name, step), {skillScope})
         /\ Changes(Work(p), SetSelected(Work(p), owner, "tools", name, on), {owner})
         /\ Changes(Work(p), MoveListed(Work(p), owner, "tools", name, step), {owner})
         /\ Changes(Work(p), SetToolEnabled(Work(p), toolScope, name, on), {owner})
  <2> SUFFICES ASSUME NEW name, NEW step, NEW on
      PROVE
         /\ Changes(Work(p), SetSelected(Work(p), skillScope, "skills", name, on), {skillScope})
         /\ Changes(Work(p), MoveListed(Work(p), skillScope, "skills", name, step), {skillScope})
         /\ Changes(Work(p), SetSelected(Work(p), owner, "tools", name, on), {owner})
         /\ Changes(Work(p), MoveListed(Work(p), owner, "tools", name, step), {owner})
         /\ Changes(Work(p), SetToolEnabled(Work(p), toolScope, name, on), {owner})
    OBVIOUS
  <2>1. Changes(Work(p), SetToolEnabled(Work(p), toolScope, name, on), {owner})
    BY <1>1, <1>20, SetToolEnabledChanges
  <2> HIDE DEF skillScope, toolScope, owner
  <2> QED BY <1>1, <1>20, <1>21, <2>1, ListChanges
<1>13. CASE \E name \in ToSet(Skills) : Tick(p, name)
  <2>1. \E name, on : Apply(p, "skills", SetSelected(Work(p), skillScope, "skills", name, on), {skillScope})
    BY <1>13 DEF Tick, Gesture
  <2> HIDE DEF skillScope
  <2> QED BY <2>1, <1>22
<1>14. CASE \E name \in ToSet(Skills), step \in {-1, 1} : MoveSkill(p, name, step)
  <2>1. \E name, step : Apply(p, "skills", MoveListed(Work(p), skillScope, "skills", name, step), {skillScope})
    BY <1>14 DEF MoveSkill, Gesture
  <2> HIDE DEF skillScope
  <2> QED BY <2>1, <1>22
<1>15. CASE ResetSkills(p)
  <2>1. Apply(p, "skills", ResetSkillOrder(Work(p), skillScope), {skillScope})
    BY <1>15 DEF ResetSkills, Gesture
  <2> HIDE DEF skillScope
  <2>2. Changes(Work(p), ResetSkillOrder(Work(p), skillScope), {skillScope})
    BY <1>1, <1>20, ResetChanges
  <2> QED BY <2>1, <2>2
<1>16. CASE \E name \in ToSet(Tools) : Guide(p, name)
  <2>1. \E name, on : Apply(p, "tools", SetSelected(Work(p), owner, "tools", name, on), {owner})
    BY <1>16 DEF Guide, Gesture
  <2> HIDE DEF owner
  <2> QED BY <2>1, <1>22
<1>17. CASE \E name \in ToSet(Tools), step \in {-1, 1} : MoveTool(p, name, step)
  <2>1. \E name, step : Apply(p, "tools", MoveListed(Work(p), owner, "tools", name, step), {owner})
    BY <1>17 DEF MoveTool, Gesture
  <2> HIDE DEF owner
  <2> QED BY <2>1, <1>22
<1>18. CASE \E name \in ToSet(Tools) : SwitchTool(p, name)
  <2>1. \E name, on : Apply(p, "tools", SetToolEnabled(Work(p), toolScope, name, on), {owner})
    BY <1>18 DEF SwitchTool, Gesture
  <2> HIDE DEF owner, toolScope
  <2> QED BY <2>1, <1>22
<1>19. CASE \E row \in ScreenRows(p) : OverrideBody(p, row)
  <2>1. PICK row \in ScreenRows(p) : OverrideBody(p, row)
    BY <1>19
  <2>2. row.id \in {SkillsId, ToolsId}
        /\ Apply(p, "bodies", OverridePart(Work(p), row.scope, row.id[1]), Aim(p, row))
    BY <2>1 DEF OverrideBody, Gesture
  <2>3. row.scope \in Scopes
    BY <1>3
  <2>4. EffectiveScope(Work(p), row.id, row.scope) = PartScope(Work(p), row.id[1], row.scope)
    BY <2>2, <2>3, EffectiveScopeIs, Ids
  <2>5. PartScope(Work(p), row.id[1], row.scope) \in Aim(p, row)
    BY <2>4 DEF Aim
  <2>6. Changes(Work(p), OverridePart(Work(p), row.scope, row.id[1]),
                {PartScope(Work(p), row.id[1], row.scope)})
    BY <1>1, <2>3, OverridePartChanges
  <2>7. Changes(Work(p), OverridePart(Work(p), row.scope, row.id[1]), Aim(p, row))
    BY <2>5, <2>6 DEF Changes
  <2> QED BY <2>2, <2>7
<1>23. CASE OverrideCore(p)
  <2>1. Changes(Work(p), SetOverride(Work(p), "project", "core"), {"project"})
    BY <1>1, <1>4, SetOverrideChanges
  <2>2. Apply(p, "bodies", SetOverride(Work(p), "project", "core"), {"project"})
    BY <1>23 DEF OverrideCore, Gesture
  <2> QED BY <2>1, <2>2
<1>24. CASE RestoreCore(p)
  <2> DEFINE less == Work(p)["project"].custom \ {"core"}
  <2>1. Apply(p, "bodies", [Work(p) EXCEPT !["project"].custom = less], {"project"})
    BY <1>24 DEF RestoreCore, Gesture
  <2> HIDE DEF less
  <2>2. Changes(Work(p), [Work(p) EXCEPT !["project"].custom = less], {"project"})
    BY <1>1, <1>4, SetCustom
  <2> QED BY <2>1, <2>2
<1> HIDE DEF skillScope, toolScope, owner
<1> QED BY <1>6, <1>7, <1>8, <1>9, <1>10, <1>11, <1>12, <1>13, <1>14, <1>15, <1>16, <1>17,
           <1>18, <1>19, <1>23, <1>24 DEF GestureNext

-----------------------------------------------------------------------------
(* The steps                                                                 *)

LEMMA HalfSavedIsRecord ==
  ASSUME NEW old, NEW new, IsRecord(old), NEW files \in HalfSaved(old, new)
  PROVE  IsRecord(files)
<1>1. PICK half \in Halves(old, new) : files = [old EXCEPT !.prompts = half[1], !.custom = half[2]]
  BY Zenon DEF HalfSaved
<1> DEFINE mid == [old EXCEPT !.prompts = half[1]]
<1>2. IsRecord(mid)
  BY DEF IsRecord
<1>3. files = [mid EXCEPT !.custom = half[2]]
  BY <1>1
<1> HIDE DEF mid
<1>4. IsRecord([mid EXCEPT !.custom = half[2]])
  BY <1>2 DEF IsRecord
<1> QED BY <1>3, <1>4

LEMMA SaveGlobalKeeps ==
  ASSUME PromptHeld, NEW p \in processes, overlay[p], SaveGlobal(p)
  PROVE  IsUsers(globalStore')
BY SessionIsThere DEF PromptHeld, Held, SaveGlobal, IsRecords

LEMMA SaveHalfKeeps ==
  ASSUME PromptHeld, NEW p \in processes, SaveHalf(p)
  PROVE  /\ DOMAIN projectFiles' = processes
         /\ \A q \in processes : IsRecord(projectFiles'[q])
         /\ \A q \in processes \ {p} : projectFiles'[q] = projectFiles[q]
<1>1. PICK files \in HalfSaved(projectFiles[p], Work(p).project) :
        projectFiles' = [projectFiles EXCEPT ![p] = files]
  BY DEF SaveHalf
<1>2. IsRecord(files)
  BY HalfSavedIsRecord DEF PromptHeld, Held
<1> QED BY <1>1, <1>2 DEF PromptHeld, PromptDomains, Held

LEMMA ApplyHeld ==
  ASSUME PromptHeld, NEW p \in processes, UNCHANGED processes, NEW family, NEW work, NEW scopes,
         Apply(p, family, work, scopes), Changes(Work(p), work, scopes)
  PROVE  PromptHeld'
<1>1. Changes(Base(p), Work(p), aimed[p]) /\ IsRecords(Base(p))
  BY SessionIsThere DEF PromptHeld, Held, Apply
<1>2. Changes(Base(p), work, aimed[p] \cup scopes)
  BY <1>1, ChangesTwice
<1>3. Held(p)'
  <2>1. IsRecords(work)
    BY DEF Changes
  <2>2. /\ editSession'[p] = {[work |-> work, base |-> Base(p)]}
        /\ shown'[p] = work /\ aimed'[p] = aimed[p] \cup scopes
    BY DEF PromptHeld, PromptDomains, Apply
  <2>3. \A s \in editSession'[p] : s.base = Base(p) /\ s.work = work
    BY <2>2
  <2>4. \A s \in editSession'[p] : IsRecords(s.base) /\ Changes(s.base, s.work, aimed'[p])
    BY <1>1, <1>2, <2>2, <2>3
  <2>5. editSession'[p] # {}
    BY <2>2
  <2> QED BY <2>1, <2>2, <2>4, <2>5 DEF PromptHeld, Held, Apply, surroundings
<1>4. ASSUME NEW q \in processes, q # p PROVE Held(q)'
  BY <1>4 DEF PromptHeld, PromptDomains, Held, Apply, surroundings
<1>5. PromptDomains'
  BY DEF PromptHeld, PromptDomains, Apply, surroundings
<1> QED BY <1>3, <1>4, <1>5 DEF PromptHeld, Apply, surroundings

LEMMA OpenHeld ==
  ASSUME PromptHeld, NEW p \in processes, UNCHANGED processes, Open(p)
  PROVE  PromptHeld'
<1>1. Held(p)'
  <2>1. IsRecords(Saved(p))
    BY SavedIsRecords
  <2>2. CASE editSession[p] = {}
    <3>1. editSession'[p] = {[work |-> Saved(p), base |-> Saved(p)]} /\ shown'[p] = Saved(p)
      BY <2>2 DEF Open, PromptHeld, PromptDomains
    <3>2. Changes(Saved(p), Saved(p), aimed'[p])
      BY <2>1, ChangesNothing
    <3>3. \A s \in editSession'[p] : s.base = Saved(p) /\ s.work = Saved(p)
      BY <3>1
    <3>4. editSession'[p] # {}
      BY <3>1
    <3> QED BY <2>1, <3>1, <3>2, <3>3, <3>4 DEF PromptHeld, Held, Open, surroundings
  <2>3. CASE editSession[p] # {}
    <3>1. editSession'[p] = editSession[p] /\ shown'[p] = Work(p) /\ aimed'[p] = aimed[p]
      BY <2>3 DEF Open, PromptHeld, PromptDomains
    <3>2. IsRecords(Work(p))
      BY <2>3, SessionIsThere
    <3> QED BY <2>3, <3>1, <3>2 DEF PromptHeld, Held, Open, surroundings
  <2> QED BY <2>2, <2>3
<1>2. ASSUME NEW q \in processes, q # p PROVE Held(q)'
  BY <1>2 DEF PromptHeld, PromptDomains, Held, Open, surroundings
<1>3. PromptDomains'
  BY DEF PromptHeld, PromptDomains, Open, surroundings
<1> QED BY <1>1, <1>2, <1>3 DEF PromptHeld, Open, surroundings

LEMMA CommitHeld ==
  ASSUME PromptHeld, NEW p \in processes, UNCHANGED processes, Commit(p)
  PROVE  PromptHeld'
<1>1. IsRecords(Work(p))
  BY SessionIsThere DEF PromptHeld, Held, Commit
<1>2. IsRecord(Work(p).project)
  BY <1>1 DEF IsRecords
<1>3. Held(p)'
  <2>1. IsRecord(projectFiles'[p])
    BY <1>2 DEF PromptHeld, PromptDomains, Held, Commit
  <2>2. event'[p] = {Work(p)} /\ editSession'[p] = {} /\ overlay'[p] = FALSE /\ shown'[p] = shown[p]
    BY DEF PromptHeld, PromptDomains, Commit, Closed
  <2> QED BY <1>1, <2>1, <2>2 DEF PromptHeld, Held
<1>4. ASSUME NEW q \in processes, q # p PROVE Held(q)'
  BY <1>4 DEF PromptHeld, PromptDomains, Held, Commit, Closed
<1>5. PromptDomains'
  BY DEF PromptHeld, PromptDomains, Commit, Closed, ExcuseOthers
<1>6. IsUsers(globalStore')
  BY SaveGlobalKeeps DEF Commit
<1> QED BY <1>3, <1>4, <1>5, <1>6 DEF PromptHeld

LEMMA RestartHeld ==
  ASSUME PromptHeld, NEW p \in processes, UNCHANGED processes, Restart(p),
         IsUsers(globalStore'), DOMAIN projectFiles' = processes, DOMAIN excuse' = processes,
         \A q \in processes : IsRecord(projectFiles'[q])
  PROVE  PromptHeld'
<1>1. Held(p)'
  <2>1. editSession'[p] = {} /\ event'[p] = {} /\ overlay'[p] = FALSE /\ shown'[p] = Saved(p)'
    BY DEF PromptHeld, PromptDomains, Restart, Closed
  <2>2. IsRecords(Saved(p)')
    BY DEF IsRecords, Saved, IsUsers
  <2> QED BY <2>1, <2>2 DEF Held
<1>2. ASSUME NEW q \in processes, q # p PROVE Held(q)'
  BY <1>2 DEF PromptHeld, PromptDomains, Held, Restart, Closed
<1>3. PromptDomains'
  BY DEF PromptHeld, PromptDomains, Restart, Closed
<1> QED BY <1>1, <1>2, <1>3 DEF PromptHeld

LEMMA CommitProjectFailsHeld ==
  ASSUME PromptHeld, NEW p \in processes, UNCHANGED processes, CommitProjectFails(p)
  PROVE  PromptHeld'
<1> DEFINE base == [Base(p) EXCEPT !.global = Work(p).global]
<1>1. IsRecords(Work(p)) /\ IsRecords(Base(p)) /\ Changes(Base(p), Work(p), aimed[p])
  BY SessionIsThere DEF PromptHeld, Held, CommitProjectFails
<1>2. base = [global |-> Work(p).global, project |-> Base(p).project]
  BY <1>1 DEF IsRecords
<1> HIDE DEF base
<1>3. IsRecords(base)
  BY <1>1, <1>2 DEF IsRecords
<1>4. Changes(base, Work(p), aimed[p])
  BY <1>1, <1>2 DEF Changes
<1>5. Held(p)'
  <2>1. editSession'[p] = {[work |-> Work(p), base |-> base]}
    BY DEF PromptHeld, PromptDomains, CommitProjectFails, base
  <2>2. overlay'[p] = FALSE /\ shown'[p] = shown[p] /\ event'[p] = event[p] /\ aimed'[p] = aimed[p]
    BY DEF PromptHeld, PromptDomains, CommitProjectFails, Closed
  <2>3. IsRecord(projectFiles'[p])
    BY SaveHalfKeeps DEF CommitProjectFails
  <2>4. \A s \in editSession'[p] : s.base = base /\ s.work = Work(p)
    BY <2>1
  <2>5. \A s \in editSession'[p] : IsRecords(s.base) /\ Changes(s.base, s.work, aimed'[p])
    BY <1>3, <1>4, <2>2, <2>4
  <2> QED BY <2>2, <2>3, <2>5 DEF PromptHeld, Held
<1>6. ASSUME NEW q \in processes, q # p PROVE Held(q)'
  <2>1. IsRecord(projectFiles'[q])
    BY SaveHalfKeeps DEF CommitProjectFails
  <2> QED BY <1>6, <2>1 DEF PromptHeld, PromptDomains, Held, CommitProjectFails, Closed
<1>7. PromptDomains'
  <2>1. DOMAIN projectFiles' = processes
    BY SaveHalfKeeps DEF CommitProjectFails
  <2> QED BY <2>1 DEF PromptHeld, PromptDomains, CommitProjectFails, Closed, ExcuseOthers
<1>8. IsUsers(globalStore')
  BY SaveGlobalKeeps DEF CommitProjectFails
<1> QED BY <1>5, <1>6, <1>7, <1>8 DEF PromptHeld

LEMMA StepHeld ==
  ASSUME PromptHeld, NEW p \in processes, UNCHANGED processes, PromptStep(p)
  PROVE  PromptHeld'
<1>1. CASE Open(p)
  BY <1>1, OpenHeld
<1>2. CASE ApplyEvent(p)
  <2>1. Held(p)'
    BY <1>2 DEF PromptHeld, PromptDomains, Held, ApplyEvent
  <2>2. ASSUME NEW q \in processes, q # p PROVE Held(q)'
    BY <1>2, <2>2 DEF PromptHeld, PromptDomains, Held, ApplyEvent
  <2>3. PromptDomains'
    BY <1>2 DEF PromptHeld, PromptDomains, ApplyEvent
  <2> QED BY <1>2, <2>1, <2>2, <2>3 DEF PromptHeld, ApplyEvent
<1>3. CASE SendFirstTurn(p)
  BY <1>3 DEF PromptHeld, PromptDomains, Held, SendFirstTurn
<1>4. CASE ResetConversation(p)
  <2>1. Held(p)'
    BY <1>4 DEF PromptHeld, PromptDomains, Held, ResetConversation
  <2>2. ASSUME NEW q \in processes, q # p PROVE Held(q)'
    BY <1>4, <2>2 DEF PromptHeld, PromptDomains, Held, ResetConversation
  <2>3. PromptDomains'
    BY <1>4 DEF PromptHeld, PromptDomains, ResetConversation
  <2> QED BY <1>4, <2>1, <2>2, <2>3 DEF PromptHeld, ResetConversation
<1>5. CASE Quit(p)
  <2>1. Restart(p) /\ UNCHANGED <<globalStore, projectFiles>> /\ DOMAIN excuse' = DOMAIN excuse
    BY <1>5 DEF Quit
  <2> QED BY <2>1, RestartHeld DEF PromptHeld, PromptDomains, Held
<1>6. CASE overlay[p] /\ tally.edits < MaxEdits /\ GestureNext(p)
  BY <1>6, GestureIsAimed, ApplyHeld
<1>7. CASE CommitClean(p)
  <2>1. Held(p)'
    BY <1>7 DEF PromptHeld, PromptDomains, Held, CommitClean, surroundings, Closed
  <2>2. ASSUME NEW q \in processes, q # p PROVE Held(q)'
    BY <1>7, <2>2 DEF PromptHeld, PromptDomains, Held, CommitClean, surroundings, Closed
  <2>3. PromptDomains'
    BY <1>7 DEF PromptHeld, PromptDomains, CommitClean, surroundings, Closed
  <2> QED BY <1>7, <2>1, <2>2, <2>3 DEF PromptHeld, CommitClean, surroundings
<1>8. CASE Commit(p)
  BY <1>8, CommitHeld
<1>9. CASE CommitGlobalFails(p)
  <2>1. Held(p)'
    BY <1>9 DEF PromptHeld, PromptDomains, Held, CommitGlobalFails, surroundings, Closed
  <2>2. ASSUME NEW q \in processes, q # p PROVE Held(q)'
    BY <1>9, <2>2 DEF PromptHeld, PromptDomains, Held, CommitGlobalFails, surroundings, Closed
  <2>3. PromptDomains'
    BY <1>9 DEF PromptHeld, PromptDomains, CommitGlobalFails, surroundings, Closed
  <2> QED BY <1>9, <2>1, <2>2, <2>3 DEF PromptHeld, CommitGlobalFails, surroundings
<1>10. CASE CommitProjectFails(p)
  BY <1>10, CommitProjectFailsHeld
<1>11. CASE CommitDies(p)
  <2>1. Restart(p) /\ overlay[p] /\ SaveGlobal(p) /\ SaveHalf(p) /\ DOMAIN excuse' = processes
    BY <1>11 DEF CommitDies, ExcuseOthers
  <2>2. IsUsers(globalStore')
    BY <2>1, SaveGlobalKeeps
  <2> QED BY <2>1, <2>2, SaveHalfKeeps, RestartHeld
<1> QED BY <1>1, <1>2, <1>3, <1>4, <1>5, <1>6, <1>7, <1>8, <1>9, <1>10, <1>11 DEF PromptStep

LEMMA SpecHeld == PromptSpec => []PromptHeld
<1>1. PromptInit => PromptHeld
  BY PromptInitHeld
<1>2. PromptHeld /\ [PromptNext]_promptVars => PromptHeld'
  <2> SUFFICES ASSUME PromptHeld, [PromptNext]_promptVars PROVE PromptHeld'
    OBVIOUS
  <2>1. CASE PromptNext
    BY <2>1, StepHeld DEF PromptNext
  <2>2. CASE UNCHANGED promptVars
    BY <2>2 DEF promptVars, PromptHeld, PromptDomains, Held
  <2> QED BY <2>1, <2>2
<1> QED BY <1>1, <1>2, PTL DEF PromptSpec

(* A record on disk is only written by a session whose gestures were about   *)
(* its scope, however many processes share the user's record.                *)
THEOREM RecordsAreWrittenApart == PromptSpec => ScopesKeepApart
<1> DEFINE Apart ==
      /\ globalStore' # globalStore => \E p \in processes : overlay[p] /\ "global" \in aimed[p]
      /\ \A p \in processes : projectFiles[p]' # projectFiles[p]
           => overlay[p] /\ "project" \in aimed[p]
<1>1. ASSUME PromptHeld, [PromptNext]_promptVars PROVE [Apart]_promptVars
  <2> SUFFICES ASSUME PromptNext PROVE Apart
    BY <1>1
  <2>1. PICK p \in processes : PromptStep(p)
    BY DEF PromptNext
  <2>2. PromptStep(p) => \/ UNCHANGED <<globalStore, projectFiles>>
                         \/ overlay[p] /\ SaveGlobal(p) /\ (SaveHalf(p) /\ ProjectChanged(p))
                         \/ /\ overlay[p] /\ SaveGlobal(p)
                            /\ projectFiles' = [projectFiles EXCEPT ![p] =
                                 IF ProjectChanged(p) THEN Work(p).project ELSE @]
    <3>1. overlay[p] /\ GestureNext(p) => UNCHANGED <<globalStore, projectFiles>>
      BY <1>1, GestureIsAimed DEF Apply, surroundings
    <3> QED BY <3>1 DEF PromptStep, Open, ApplyEvent, SendFirstTurn, ResetConversation, Quit,
                 CommitClean, Commit, CommitGlobalFails, CommitProjectFails, CommitDies, surroundings
  <2>3. overlay[p] => Changes(Base(p), Work(p), aimed[p])
    BY <1>1, SessionIsThere DEF PromptHeld, Held
  <2>4. overlay[p] /\ GlobalChanged(p) => "global" \in aimed[p]
    BY <2>3 DEF GlobalChanged, Changes
  <2>5. overlay[p] /\ ProjectChanged(p) => "project" \in aimed[p]
    BY <2>3 DEF ProjectChanged, Changes
  <2>6. ASSUME globalStore' # globalStore
        PROVE  \E q \in processes : overlay[q] /\ "global" \in aimed[q]
    BY <2>1, <2>2, <2>4, <2>6 DEF SaveGlobal
  <2>7. ASSUME NEW q \in processes, projectFiles[q]' # projectFiles[q]
        PROVE  overlay[q] /\ "project" \in aimed[q]
    <3>1. SaveHalf(p) => (q # p => projectFiles'[q] = projectFiles[q])
      BY <1>1, SaveHalfKeeps
    <3>2. DOMAIN projectFiles = processes
      BY <1>1 DEF PromptHeld, PromptDomains
    <3>3. overlay[p] /\ ProjectChanged(p) /\ q = p
      BY <2>1, <2>2, <2>7, <3>1, <3>2
    <3> QED BY <2>5, <3>3
  <2> QED BY <2>6, <2>7
<1> QED BY <1>1, SpecHeld, PTL DEF PromptSpec, ScopesKeepApart

-----------------------------------------------------------------------------
(* The configuration of the next conversation                                *)

(* What a session was loaded from is what is on disk, unless another process *)
(* wrote it or a save failed; the options follow the disk, and a conversation*)
(* that has not started the options.                                         *)
Configured(p) ==
  /\ conversation[p] = [config |-> conversation[p].config, started |-> conversation[p].started]
  /\ conversation[p].started \in BOOLEAN
  /\ ~conversation[p].started => conversation[p].config = options[p]
  /\ excuse[p] = {} => options[p] = SessionConfig(Saved(p))
  /\ \A s \in editSession[p] : /\ "others" \in excuse[p] \/ s.base.global = globalStore
                               /\ "failed" \in excuse[p] \/ s.base.project = projectFiles[p]

AllConfigured == \A p \in processes : Configured(p)

LEMMA PromptInitConfigured ==
  ASSUME PromptInit PROVE AllConfigured
BY DEF PromptInit, AllConfigured, Configured, Saved

(* The processes a step is not about keep what they were, or are excused.    *)
LEMMA OthersConfigured ==
  ASSUME PromptHeld, AllConfigured, NEW p \in processes, NEW q \in processes, q # p,
         conversation'[q] = conversation[q], options'[q] = options[q],
         editSession'[q] = editSession[q], projectFiles'[q] = projectFiles[q],
         (globalStore' = globalStore /\ excuse'[q] = excuse[q])
           \/ excuse'[q] = excuse[q] \cup {"others"}
  PROVE  Configured(q)'
BY DEF AllConfigured, Configured, Saved

LEMMA StoreOrExcuse ==
  ASSUME PromptHeld, NEW p \in processes, NEW q \in processes, q # p, SaveGlobal(p), NEW mine,
         ExcuseOthers(p, mine)
  PROVE  (globalStore' = globalStore /\ excuse'[q] = excuse[q])
           \/ excuse'[q] = excuse[q] \cup {"others"}
BY DEF SaveGlobal, ExcuseOthers

LEMMA CommitConfigured ==
  ASSUME PromptHeld, AllConfigured, NEW p \in processes, UNCHANGED processes, Commit(p)
  PROVE  AllConfigured'
<1> DEFINE mine == (IF GlobalChanged(p) THEN excuse[p] \ {"others"} ELSE excuse[p])
                     \ (IF ProjectChanged(p) THEN {"failed", "dropped"} ELSE {})
           config == SessionConfig(Work(p))
<1>1. Configured(p)'
  <2>1. /\ conversation'[p] = Refreshed(conversation[p], config) /\ options'[p] = config
        /\ editSession'[p] = {} /\ excuse'[p] = mine
    BY DEF PromptHeld, PromptDomains, Commit, ExcuseOthers
  <2>2. PICK s \in editSession[p] : Work(p) = s.work /\ Base(p) = s.base
    BY SessionIsThere DEF PromptHeld, Held, Commit
  <2>3. /\ "others" \in excuse[p] \/ Base(p).global = globalStore
        /\ "failed" \in excuse[p] \/ Base(p).project = projectFiles[p]
    BY <2>2 DEF AllConfigured, Configured
  <2>4. IsRecords(Work(p))
    BY SessionIsThere DEF PromptHeld, Held, Commit
  <2>5. ASSUME mine = {} PROVE Saved(p)' = Work(p)
    <3>1. globalStore' = Work(p).global
      BY <2>3, <2>5 DEF Commit, SaveGlobal, GlobalChanged
    <3>2. projectFiles'[p] = Work(p).project
      BY <2>3, <2>5 DEF Commit, ProjectChanged, PromptHeld, PromptDomains
    <3> QED BY <3>1, <3>2, <2>4 DEF Saved, IsRecords
  <2> HIDE DEF config, mine
  <2>6. mine = {} => options'[p] = SessionConfig(Saved(p)')
    BY <2>1, <2>5 DEF config
  <2>7. /\ conversation[p] = [config |-> conversation[p].config, started |-> conversation[p].started]
        /\ conversation[p].started \in BOOLEAN
    BY DEF AllConfigured, Configured
  <2>8. /\ conversation'[p].started = conversation[p].started
        /\ ~conversation[p].started => conversation'[p].config = config
        /\ conversation'[p] = [config |-> conversation'[p].config, started |-> conversation'[p].started]
    BY <2>1, <2>7 DEF Refreshed
  <2> QED BY <2>1, <2>6, <2>7, <2>8 DEF Configured
<1>2. ASSUME NEW q \in processes, q # p PROVE Configured(q)'
  <2>1. /\ conversation'[q] = conversation[q] /\ options'[q] = options[q]
        /\ editSession'[q] = editSession[q] /\ projectFiles'[q] = projectFiles[q]
    BY <1>2 DEF PromptHeld, PromptDomains, Commit
  <2>2. SaveGlobal(p) /\ ExcuseOthers(p, mine)
    BY DEF Commit
  <2> HIDE DEF mine
  <2>3. (globalStore' = globalStore /\ excuse'[q] = excuse[q]) \/ excuse'[q] = excuse[q] \cup {"others"}
    BY <1>2, <2>2, StoreOrExcuse
  <2> QED BY <1>2, <2>1, <2>3, OthersConfigured
<1> QED BY <1>1, <1>2 DEF AllConfigured

LEMMA CommitProjectFailsConfigured ==
  ASSUME PromptHeld, AllConfigured, NEW p \in processes, UNCHANGED processes, CommitProjectFails(p)
  PROVE  AllConfigured'
<1> DEFINE base == [Base(p) EXCEPT !.global = Work(p).global]
           mine == excuse[p] \cup {"failed"}
<1>1. Configured(p)'
  <2>1. /\ conversation' = conversation /\ options' = options /\ excuse'[p] = mine
        /\ editSession'[p] = {[work |-> Work(p), base |-> base]}
    BY DEF PromptHeld, PromptDomains, CommitProjectFails, ExcuseOthers
  <2>2. PICK s \in editSession[p] : Work(p) = s.work /\ Base(p) = s.base
    BY SessionIsThere DEF PromptHeld, Held, CommitProjectFails
  <2>3. "others" \in excuse[p] \/ Base(p).global = globalStore
    BY <2>2 DEF AllConfigured, Configured
  <2>4. IsRecords(Base(p))
    BY SessionIsThere DEF PromptHeld, Held, CommitProjectFails
  <2>5. base.global = Work(p).global
    BY <2>4 DEF IsRecords
  <2>6. "others" \in excuse[p] \/ globalStore' = Work(p).global
    BY <2>3 DEF CommitProjectFails, SaveGlobal, GlobalChanged
  <2> HIDE DEF base
  <2>7. \A e \in editSession'[p] : e.base = base
    BY <2>1
  <2> QED BY <2>1, <2>5, <2>6, <2>7 DEF AllConfigured, Configured
<1>2. ASSUME NEW q \in processes, q # p PROVE Configured(q)'
  <2>1. /\ conversation'[q] = conversation[q] /\ options'[q] = options[q]
        /\ editSession'[q] = editSession[q]
    BY <1>2 DEF PromptHeld, PromptDomains, CommitProjectFails
  <2>2. SaveGlobal(p) /\ ExcuseOthers(p, mine) /\ SaveHalf(p)
    BY DEF CommitProjectFails
  <2>4. projectFiles'[q] = projectFiles[q]
    BY <1>2, <2>2, SaveHalfKeeps
  <2> HIDE DEF mine
  <2>3. (globalStore' = globalStore /\ excuse'[q] = excuse[q]) \/ excuse'[q] = excuse[q] \cup {"others"}
    BY <1>2, <2>2, StoreOrExcuse
  <2> QED BY <1>2, <2>1, <2>3, <2>4, OthersConfigured
<1> QED BY <1>1, <1>2 DEF AllConfigured

LEMMA RestartConfigured ==
  ASSUME PromptHeld, AllConfigured, NEW p \in processes, UNCHANGED processes, Restart(p),
         \A q \in processes \ {p} : /\ projectFiles'[q] = projectFiles[q]
                                    /\ (globalStore' = globalStore /\ excuse'[q] = excuse[q])
                                         \/ excuse'[q] = excuse[q] \cup {"others"}
  PROVE  AllConfigured'
<1>1. Configured(p)'
  <2>1. /\ conversation'[p] = [config |-> SessionConfig(Saved(p)'), started |-> FALSE]
        /\ options'[p] = SessionConfig(Saved(p)') /\ editSession'[p] = {}
    BY DEF PromptHeld, PromptDomains, Restart
  <2> QED BY <2>1 DEF Configured
<1>2. ASSUME NEW q \in processes, q # p PROVE Configured(q)'
  <2>1. /\ conversation'[q] = conversation[q] /\ options'[q] = options[q]
        /\ editSession'[q] = editSession[q]
    BY <1>2 DEF PromptHeld, PromptDomains, Restart
  <2>2. /\ projectFiles'[q] = projectFiles[q]
        /\ (globalStore' = globalStore /\ excuse'[q] = excuse[q])
             \/ excuse'[q] = excuse[q] \cup {"others"}
    BY <1>2
  <2> QED BY <1>2, <2>1, <2>2, OthersConfigured
<1> QED BY <1>1, <1>2 DEF AllConfigured

LEMMA StepConfigured ==
  ASSUME PromptHeld, AllConfigured, NEW p \in processes, UNCHANGED processes, PromptStep(p)
  PROVE  AllConfigured'
<1>1. CASE Open(p)
  <2>1. editSession'[p] = editSession[p] \/ editSession'[p] = {[work |-> Saved(p), base |-> Saved(p)]}
    BY <1>1 DEF Open, PromptHeld, PromptDomains
  <2>2. \A s \in editSession'[p] : s \in editSession[p] \/ s.base = Saved(p)
    BY <2>1
  <2>3. Saved(p).global = globalStore /\ Saved(p).project = projectFiles[p]
    BY DEF Saved
  <2>4. Configured(p)'
    BY <1>1, <2>2, <2>3 DEF AllConfigured, Configured, Open, surroundings, Saved
  <2>5. ASSUME NEW q \in processes, q # p PROVE Configured(q)'
    BY <1>1, <2>5 DEF AllConfigured, Configured, Open, surroundings, Saved, PromptHeld, PromptDomains
  <2> QED BY <2>4, <2>5 DEF AllConfigured
<1>2. CASE ApplyEvent(p)
  BY <1>2 DEF AllConfigured, Configured, ApplyEvent, Saved
<1>3. CASE SendFirstTurn(p)
  <2>1. Configured(p)'
    <3>1. conversation'[p] = [conversation[p] EXCEPT !.started = TRUE]
      BY <1>3 DEF SendFirstTurn, PromptHeld, PromptDomains
    <3>2. conversation[p] = [config |-> conversation[p].config, started |-> conversation[p].started]
      BY DEF AllConfigured, Configured
    <3>3. conversation'[p] = [config |-> conversation[p].config, started |-> TRUE]
      BY <3>1, <3>2
    <3>4. /\ conversation'[p] = [config |-> conversation'[p].config, started |-> conversation'[p].started]
          /\ conversation'[p].started = TRUE
      BY <3>3
    <3> QED BY <1>3, <3>4 DEF AllConfigured, Configured, SendFirstTurn, Saved
  <2>2. ASSUME NEW q \in processes, q # p PROVE Configured(q)'
    BY <1>3, <2>2 DEF AllConfigured, Configured, SendFirstTurn, Saved, PromptHeld, PromptDomains
  <2> QED BY <2>1, <2>2 DEF AllConfigured
<1>4. CASE ResetConversation(p)
  <2>1. Configured(p)'
    <3>1. /\ conversation'[p] = [config |-> options[p], started |-> FALSE]
          /\ editSession'[p] = {} /\ options' = options
          /\ excuse'[p] = excuse[p] \/ excuse'[p] # {}
      BY <1>4 DEF ResetConversation, PromptHeld, PromptDomains
    <3>2. /\ conversation'[p] = [config |-> conversation'[p].config, started |-> conversation'[p].started]
          /\ conversation'[p].started = FALSE /\ conversation'[p].config = options'[p]
      BY <3>1
    <3> QED BY <1>4, <3>1, <3>2 DEF AllConfigured, Configured, ResetConversation, Saved
  <2>2. ASSUME NEW q \in processes, q # p PROVE Configured(q)'
    BY <1>4, <2>2 DEF AllConfigured, Configured, ResetConversation, Saved, PromptHeld, PromptDomains
  <2> QED BY <2>1, <2>2 DEF AllConfigured
<1>5. CASE Quit(p)
  <2>1. Restart(p) /\ UNCHANGED <<globalStore, projectFiles>>
    BY <1>5 DEF Quit
  <2>2. \A q \in processes \ {p} : excuse'[q] = excuse[q]
    BY <1>5 DEF Quit, PromptHeld, PromptDomains
  <2> QED BY <2>1, <2>2, RestartConfigured
<1>6. CASE overlay[p] /\ tally.edits < MaxEdits /\ GestureNext(p)
  <2>1. PICK family, work, scopes : Apply(p, family, work, scopes)
    BY <1>6, GestureIsAimed
  <2>2. PICK s \in editSession[p] : Base(p) = s.base
    BY <1>6, SessionIsThere DEF PromptHeld, Held
  <2>3. editSession'[p] = {[work |-> work, base |-> Base(p)]}
    BY <2>1 DEF Apply, PromptHeld, PromptDomains
  <2>4. \A z \in editSession'[p] : z.base = s.base
    BY <2>2, <2>3
  <2>5. Configured(p)'
    BY <2>1, <2>4 DEF AllConfigured, Configured, Apply, surroundings, Saved
  <2>6. ASSUME NEW q \in processes, q # p PROVE Configured(q)'
    BY <2>1, <2>6 DEF AllConfigured, Configured, Apply, surroundings, Saved, PromptHeld, PromptDomains
  <2> QED BY <2>5, <2>6 DEF AllConfigured
<1>7. CASE CommitClean(p)
  <2>1. editSession'[p] = {}
    BY <1>7 DEF CommitClean, PromptHeld, PromptDomains
  <2>2. Configured(p)'
    BY <1>7, <2>1 DEF AllConfigured, Configured, CommitClean, surroundings, Saved
  <2>3. ASSUME NEW q \in processes, q # p PROVE Configured(q)'
    BY <1>7, <2>3 DEF AllConfigured, Configured, CommitClean, surroundings, Saved, PromptHeld, PromptDomains
  <2> QED BY <2>2, <2>3 DEF AllConfigured
<1>8. CASE Commit(p)
  BY <1>8, CommitConfigured
<1>9. CASE CommitGlobalFails(p)
  BY <1>9 DEF AllConfigured, Configured, CommitGlobalFails, surroundings, Saved
<1>10. CASE CommitProjectFails(p)
  BY <1>10, CommitProjectFailsConfigured
<1>11. CASE CommitDies(p)
  <2>1. Restart(p) /\ SaveGlobal(p) /\ SaveHalf(p) /\ ExcuseOthers(p, {})
    BY <1>11 DEF CommitDies
  <2>2. ASSUME NEW q \in processes \ {p}
        PROVE  (globalStore' = globalStore /\ excuse'[q] = excuse[q])
                 \/ excuse'[q] = excuse[q] \cup {"others"}
    BY <2>1, StoreOrExcuse
  <2> QED BY <2>1, <2>2, SaveHalfKeeps, RestartConfigured
<1> QED BY <1>1, <1>2, <1>3, <1>4, <1>5, <1>6, <1>7, <1>8, <1>9, <1>10, <1>11 DEF PromptStep

LEMMA SpecConfigured == PromptSpec => []AllConfigured
<1>1. PromptInit => AllConfigured
  BY PromptInitConfigured
<1>2. PromptHeld /\ AllConfigured /\ [PromptNext]_promptVars => AllConfigured'
  <2> SUFFICES ASSUME PromptHeld, AllConfigured, [PromptNext]_promptVars PROVE AllConfigured'
    OBVIOUS
  <2>1. CASE PromptNext
    BY <2>1, StepConfigured DEF PromptNext
  <2>2. CASE UNCHANGED promptVars
    BY <2>2 DEF promptVars, AllConfigured, Configured, Saved
  <2> QED BY <2>1, <2>2
<1> QED BY <1>1, <1>2, SpecHeld, PTL DEF PromptSpec

(* Unless another process wrote the user's record or a save failed, the next *)
(* conversation is configured with what is on disk, and a conversation that  *)
(* has not started with what the next one would be.                          *)
THEOREM ConfigurationFollowsDisk ==
  PromptSpec => [](OptionsFollowDisk /\ EmptyFollowsOptions)
<1>1. AllConfigured => OptionsFollowDisk /\ EmptyFollowsOptions
  BY DEF AllConfigured, Configured, OptionsFollowDisk, EmptyFollowsOptions
<1> QED BY <1>1, SpecConfigured, PTL

-----------------------------------------------------------------------------
(* Numbers, places and titles                                                *)

Less == {ss \in Nat \X Nat : ss[1] < ss[2]}

LEMMA LessIsWellFounded == IsWellFoundedOn(Less, Nat)
BY NatLessThanWellFounded DEF Less, OpToRel

LEMMA LeastNumber ==
  ASSUME NEW S \in SUBSET Nat, S # {}
  PROVE  Min(S) \in S /\ \A y \in S : Min(S) =< y
<1>1. PICK x \in S : \A y \in S : ~(<<y, x>> \in Less)
  BY LessIsWellFounded, WFMin
<1>2. \A y \in S : x =< y
  <2> TAKE y \in S
  <2>1. x \in Nat /\ y \in Nat /\ <<y, x>> \notin Less
    BY <1>1
  <2>2. <<y, x>> \in Less <=> y < x
    BY <2>1 DEF Less
  <2> QED BY <2>1, <2>2
<1>3. \E z \in S : \A y \in S : z =< y
  BY <1>2
<1> QED BY <1>3 DEF Min

LEMMA GreatestNumber ==
  ASSUME NEW k \in Nat, NEW S \in SUBSET (0..k), S # {}
  PROVE  Max(S) \in S
<1> DEFINE T == {n \in 0..k : k - n \in S}
<1>0. T \in SUBSET Nat
  OBVIOUS
<1>1. T # {}
  <2>1. PICK y \in S : TRUE
    OBVIOUS
  <2>2. k - y \in 0..k /\ k - (k - y) = y
    OBVIOUS
  <2>3. k - y \in T
    BY <2>2
  <2> QED BY <2>3
<1>2. PICK x \in T : \A y \in T : x =< y
  <2> HIDE DEF T
  <2> QED BY <1>0, <1>1, LeastNumber
<1>3. \A y \in S : k - x >= y
  <2> TAKE y \in S
  <2>1. k - y \in 0..k /\ k - (k - y) = y
    OBVIOUS
  <2>2. x =< k - y
    BY <1>2, <2>1
  <2> QED BY <2>1, <2>2
<1>4. k - x \in S
  BY <1>2
<1> QED BY <1>3, <1>4 DEF Max

(* The numbers a suffix may have are more than the ids that are taken.       *)
LEMMA FreshIdIsFresh ==
  ASSUME NEW s, IsFiniteSet(DOMAIN s.prompts), IsFiniteSet(DOMAIN s.entries), NEW title \in Int
  PROVE  IsPrompt(FreshId(s, title)) /\ FreshId(s, title) \notin DOMAIN s.prompts
<1> DEFINE base == 10 * (title - 10)
           taken == DOMAIN s.prompts \cup {id \in DOMAIN s.entries : IsPrompt(id)}
           free == {n \in 1..Cardinality(taken) + 1 : PromptId(base + n) \notin taken}
<1>1. IsFiniteSet(taken)
  <2>1. IsFiniteSet({id \in DOMAIN s.entries : IsPrompt(id)})
    BY FS_Subset
  <2> QED BY <2>1, FS_Union
<1>2. base \in Int
  OBVIOUS
<1>3. FreshId(s, title) = PromptId(base + Min(free))
  BY DEF FreshId
<1>10. DOMAIN s.prompts \subseteq taken
  OBVIOUS
<1> HIDE DEF base, taken
<1> DEFINE k == Cardinality(taken)
<1>4. k \in Nat
  BY <1>1, FS_CardinalityType
<1> HIDE DEF k
<1>5. \A m, n \in Int : PromptId(base + m) = PromptId(base + n) => m = n
  BY <1>2 DEF PromptId
<1>6. free # {}
  <2> SUFFICES ASSUME free = {} PROVE FALSE
    OBVIOUS
  <2> DEFINE f == [n \in 1..k + 1 |-> PromptId(base + n)]
  <2>1. f \in [1..k + 1 -> taken]
    BY DEF k
  <2>2. IsFiniteSet(1..k + 1) /\ Cardinality(1..k + 1) = k + 1
    BY <1>4, FS_Interval
  <2>3. Cardinality(taken) < Cardinality(1..k + 1)
    BY <1>4, <2>2 DEF k
  <2>4. \E x, y \in 1..k + 1 : x # y /\ f[x] = f[y]
    <3> DEFINE S == 1..k + 1
    <3> HIDE DEF f, S
    <3>1. IsFiniteSet(S) /\ Cardinality(taken) < Cardinality(S) /\ f \in [S -> taken]
      BY <2>1, <2>2, <2>3 DEF S
    <3>2. \E x, y \in S : x # y /\ f[x] = f[y]
      BY <3>1, <1>1, FS_PigeonHole
    <3> QED BY <3>2 DEF S
  <2> QED BY <1>4, <1>5, <2>4
<1>7. free \in SUBSET Nat
  BY <1>4 DEF k
<1>8. Min(free) \in free
  <2> HIDE DEF free
  <2> QED BY <1>6, <1>7, LeastNumber
<1>9. PromptId(base + Min(free)) \notin taken
  BY <1>8
<1> QED BY <1>3, <1>9, <1>10 DEF IsPrompt, PromptId

LEMMA NextTitleIsTitle ==
  ASSUME NEW s PROVE NextDefaultTitle(s) \in Int
<1> DEFINE titles == {e.title : e \in Range(s.entries)} \cup {t.title : t \in Range(s.prompts)}
           numbers == {n \in 1..9 : DefaultTitle(n) \in titles}
<1>1. NextDefaultTitle(s) = DefaultTitle(Max(numbers \cup {0}) + 1)
  BY DEF NextDefaultTitle
<1>2. numbers \cup {0} \in SUBSET (0..9) /\ numbers \cup {0} # {}
  OBVIOUS
<1> HIDE DEF numbers
<1>3. Max(numbers \cup {0}) \in 0..9
  BY <1>2, GreatestNumber
<1> QED BY <1>1, <1>3 DEF DefaultTitle

-----------------------------------------------------------------------------
(* The lists of skills and tools                                             *)

IsListEntry(e) == e = [name |-> e.name, on |-> e.on, order |-> e.order] /\ e.order \in Int

(* A list is whole or empty.                                                 *)
IsListOf(list, names) ==
  /\ \A i \in DOMAIN list : IsListEntry(list[i])
  /\ {e.name : e \in ToSet(list)} \in {{}, ToSet(names)}

(* A whole list has the places of the names.                                 *)
IsWhole(list, names) ==
  /\ DOMAIN list = DOMAIN names
  /\ \A i \in DOMAIN list : IsListEntry(list[i]) /\ list[i].name \in ToSet(names)
  /\ \A name \in ToSet(names) : \E i \in DOMAIN list : list[i].name = name

LEMMA WholeIsList ==
  ASSUME NEW list, NEW names, IsWhole(list, names)
  PROVE  IsListOf(list, names)
<1>1. {e.name : e \in ToSet(list)} = ToSet(names)
  <2>1. \A x \in {e.name : e \in ToSet(list)} : x \in ToSet(names)
    BY DEF IsWhole, ToSet
  <2>2. \A x \in ToSet(names) : x \in {e.name : e \in ToSet(list)}
    <3> TAKE x \in ToSet(names)
    <3>1. PICK i \in DOMAIN list : list[i].name = x
      BY DEF IsWhole
    <3>2. list[i] \in ToSet(list)
      BY DEF ToSet
    <3> QED BY <3>1, <3>2
  <2> QED BY <2>1, <2>2
<1> QED BY <1>1 DEF IsListOf, IsWhole

LEMMA RecordOfIsEntry ==
  ASSUME NEW list, NEW names, IsListOf(list, names), NEW name, NEW e \in RecordOf(list, name)
  PROVE  IsListEntry(e) /\ e.name = name
BY DEF RecordOf, IsListOf, Range

LEMMA MergedIsWhole ==
  ASSUME NEW st, NEW part \in {"skills", "tools"},
         IsListOf(st.global[part], Names[part]), IsListOf(st.project[part], Names[part])
  PROVE  IsWhole(Merged(st, part), Names[part])
<1> DEFINE names == Names[part]
           n == Len(names)
           default(i) == [name |-> names[i], on |-> TRUE, order |-> i]
           known(i) ==
             LET own == RecordOf(st.project[part], names[i])
             IN  IF own # {} THEN own ELSE RecordOf(st.global[part], names[i])
           merged(i) == CHOOSE e \in known(i) \cup {default(i)} : e \in known(i) \/ known(i) = {}
           keyed == {<<i, merged(i)>> : i \in DOMAIN names}
           before(a, b) == \/ a[2].order < b[2].order
                           \/ a[2].order = b[2].order /\ a[1] < b[1]
           at(k) == CHOOSE a \in keyed : Cardinality({b \in keyed : before(b, a)}) = k - 1
<1>1. names \in Seq(STRING) /\ n \in Nat /\ DOMAIN names = 1..n
  BY AssemblyAssumption DEF Names
<1>2. Merged(st, part) = [k \in 1..n |-> at(k)[2]]
  BY <1>1 DEF Merged
<1>3. \A i \in 1..n : IsListEntry(merged(i)) /\ merged(i).name = names[i]
  <2> TAKE i \in 1..n
  <2>1. IsListEntry(default(i)) /\ default(i).name = names[i]
    BY DEF IsListEntry
  <2>2. \A e \in known(i) : IsListEntry(e) /\ e.name = names[i]
    BY RecordOfIsEntry
  <2> HIDE DEF default, known
  <2>3. merged(i) \in known(i) \cup {default(i)}
    OBVIOUS
  <2> QED BY <2>1, <2>2, <2>3
<1> HIDE DEF merged
<1> DEFINE value == [i \in 1..n |-> merged(i)]
<1>4. keyed = {<<i, value[i]>> : i \in 1..n}
  BY <1>1
<1>5. \A i \in 1..n : value[i].order \in Int /\ value[i].name = names[i] /\ IsListEntry(value[i])
  BY <1>3 DEF IsListEntry
<1> HIDE DEF value, keyed, names, n
<1>6. \A a \in keyed : a[1] \in 1..n /\ a[2] = value[a[1]] /\ a = <<a[1], a[2]>>
  BY <1>4
<1>7. \A i \in 1..n : <<i, value[i]>> \in keyed
  BY <1>4
<1>8. IsFiniteSet(keyed) /\ Cardinality(keyed) = n
  <2> DEFINE f == [i \in 1..n |-> <<i, value[i]>>]
             places == 1..n
  <2>1. f \in [places -> keyed]
    BY <1>7
  <2>2. \A i, j \in places : f[i] = f[j] => i = j
    OBVIOUS
  <2>3. \A a \in keyed : \E i \in places : f[i] = a
    BY <1>6
  <2>4. IsFiniteSet(places) /\ Cardinality(places) = n
    BY <1>1, FS_Interval
  <2> HIDE DEF f, places
  <2>5. f \in Bijection(places, keyed)
    BY <2>1, <2>2, <2>3 DEF Bijection, Injection, IsInjective, Surjection
  <2>6. ExistsBijection(places, keyed)
    BY <2>5 DEF ExistsBijection
  <2> QED BY <2>4, <2>6, FS_Bijection
<1> DEFINE below(a) == {b \in keyed : before(b, a)}
           under == [a \in keyed |-> below(a)]
<1>9. \A a \in keyed : under[a] = below(a)
  OBVIOUS
<1>10. \A a, b \in keyed : b \in below(a) <=> before(b, a)
  OBVIOUS
<1>11. \A a \in keyed : a[1] \in Int /\ a[2].order \in Int
  BY <1>1, <1>5, <1>6
<1>12. \A a, b \in keyed : a[1] = b[1] => a = b
  BY <1>6
<1>13. \A a \in keyed : under[a] \in SUBSET (keyed \ {a})
  BY <1>11
<1>14. \A a, b \in keyed : a \in under[b] => under[a] \subseteq under[b]
  <2> TAKE a, b \in keyed
  <2> HAVE a \in under[b]
  <2>1. before(a, b)
    BY <1>9
  <2>2. \A c \in keyed : before(c, a) => before(c, b)
    BY <1>11, <2>1
  <2> QED BY <2>2
<1>15. \A a, b \in keyed : a # b => a \in under[b] \/ b \in under[a]
  BY <1>11, <1>12
<1> HIDE DEF under, below, before
<1>16. /\ \A k \in 1..n : \E a \in keyed : Cardinality(under[a]) = k - 1
       /\ \A a \in keyed : Cardinality(under[a]) + 1 \in 1..n
       /\ \A a, b \in keyed : Cardinality(under[a]) = Cardinality(under[b]) => a = b
  BY <1>1, <1>8, <1>13, <1>14, <1>15, OneAtEachPlace
<1>17. \A k \in 1..n : at(k) \in keyed /\ Cardinality(under[at(k)]) = k - 1
  <2> TAKE k \in 1..n
  <2>1. at(k) = CHOOSE a \in keyed : Cardinality(below(a)) = k - 1
    BY DEF below
  <2>2. \E a \in keyed : Cardinality(below(a)) = k - 1
    BY <1>9, <1>16
  <2> HIDE DEF at
  <2> QED BY <1>9, <2>1, <2>2
<1> HIDE DEF at
<1> DEFINE m == Merged(st, part)
<1>18. \A k \in 1..n : m[k] = value[at(k)[1]] /\ at(k)[1] \in 1..n
  BY <1>2, <1>6, <1>17
<1>19. DOMAIN m = 1..n
  BY <1>2
<1> HIDE DEF m
<1>20. \A k \in DOMAIN m : IsListEntry(m[k]) /\ m[k].name \in ToSet(names)
  <2> TAKE k \in DOMAIN m
  <2>1. names[at(k)[1]] \in ToSet(names)
    BY <1>1, <1>18, <1>19 DEF ToSet
  <2> QED BY <1>5, <1>18, <1>19, <2>1
<1>21. \A name \in ToSet(names) : \E k \in DOMAIN m : m[k].name = name
  <2> TAKE name \in ToSet(names)
  <2>1. PICK i \in 1..n : names[i] = name
    BY <1>1 DEF ToSet
  <2> DEFINE a == <<i, value[i]>>
             k == Cardinality(under[a]) + 1
  <2>2. a \in keyed /\ a[1] = i
    BY <1>7
  <2> HIDE DEF a
  <2>3. k \in 1..n
    BY <1>16, <2>2
  <2>4. Cardinality(under[at(k)]) = Cardinality(under[a])
    <3>1. Cardinality(under[a]) + 1 \in 1..n /\ Cardinality(under[at(k)]) = k - 1
      BY <1>17, <2>3
    <3>2. IsFiniteSet(under[a])
      BY <1>8, <1>13, <2>2, FS_Subset, FS_RemoveElement
    <3>3. Cardinality(under[a]) \in Nat
      BY <3>2, FS_CardinalityType
    <3> QED BY <3>1, <3>3
  <2>5. at(k) = a
    BY <1>16, <1>17, <2>2, <2>3, <2>4
  <2> HIDE DEF k
  <2>6. m[k].name = name
    BY <1>5, <1>18, <2>1, <2>2, <2>3, <2>5
  <2> QED BY <1>19, <2>3, <2>6
<1>22. IsWhole(m, names)
  BY <1>1, <1>19, <1>20, <1>21 DEF IsWhole
<1> QED BY <1>22 DEF m, names

-----------------------------------------------------------------------------
(* Records with their texts                                                  *)

IsText(t, n) == t = [id |-> t.id, title |-> t.title] /\ t.id \in 0..n

HasTexts(prompts, n) ==
  /\ IsFiniteSet(DOMAIN prompts)
  /\ \A id \in DOMAIN prompts : IsPrompt(id) /\ IsText(prompts[id], n)

(* A record, of which n texts may have been written.                         *)
IsShaped(s, n) ==
  /\ IsRecord(s)
  /\ IsFiniteSet(DOMAIN s.entries) /\ HasTexts(s.prompts, n)
  /\ IsListOf(s.skills, Skills) /\ IsListOf(s.tools, Tools)
  /\ DOMAIN s.enabled \subseteq ToSet(Tools) /\ s.custom \subseteq {"core", "skills", "tools"}

AreShaped(st, n) ==
  /\ st = [global |-> st.global, project |-> st.project]
  /\ IsShaped(st.global, n) /\ IsShaped(st.project, n)

(* The records are still records, and of texts they have those they had.     *)
KeepsTexts(st, new, n) ==
  /\ AreShaped(new, n)
  /\ \A scope \in Scopes : new[scope].prompts = st[scope].prompts

(* Those of a scope are now others.                                          *)
SetsTexts(st, new, n, scope, prompts) ==
  /\ AreShaped(new, n)
  /\ new[scope].prompts = prompts
  /\ \A other \in Scopes \ {scope} : new[other].prompts = st[other].prompts

LEMMA KeepsAll ==
  ASSUME NEW st, NEW n, AreShaped(st, n)
  PROVE  KeepsTexts(st, st, n)
BY DEF KeepsTexts

LEMMA KeepsTwice ==
  ASSUME NEW st, NEW mid, NEW new, NEW n, KeepsTexts(st, mid, n), KeepsTexts(mid, new, n)
  PROVE  KeepsTexts(st, new, n)
BY DEF KeepsTexts

LEMMA KeepsThenSets ==
  ASSUME NEW st, NEW mid, NEW new, NEW n, NEW scope \in Scopes, NEW prompts,
         KeepsTexts(st, mid, n), SetsTexts(mid, new, n, scope, prompts)
  PROVE  SetsTexts(st, new, n, scope, prompts)
BY DEF KeepsTexts, SetsTexts

LEMMA ShapedScope ==
  ASSUME NEW st, NEW n, AreShaped(st, n), NEW scope \in Scopes
  PROVE  IsShaped(st[scope], n)
BY DEF AreShaped, Scopes

LEMMA ScopeSetSets ==
  ASSUME NEW st, NEW n, AreShaped(st, n), NEW scope \in Scopes, NEW s, IsShaped(s, n)
  PROVE  SetsTexts(st, [st EXCEPT ![scope] = s], n, scope, s.prompts)
<1>0. st = [global |-> st.global, project |-> st.project]
  BY DEF AreShaped
<1>1. CASE scope = "global"
  <2>2. [st EXCEPT !.global = s] = [global |-> s, project |-> st.project]
    BY <1>0
  <2>1. [st EXCEPT ![scope] = s] = [global |-> s, project |-> st.project]
    BY <1>1, <2>2
  <2> QED BY <2>1, <1>1 DEF SetsTexts, AreShaped, Scopes
<1>2. CASE scope = "project"
  <2>2. [st EXCEPT !.project = s] = [global |-> st.global, project |-> s]
    BY <1>0
  <2>1. [st EXCEPT ![scope] = s] = [global |-> st.global, project |-> s]
    BY <1>2, <2>2
  <2> QED BY <2>1, <1>2 DEF SetsTexts, AreShaped, Scopes
<1> QED BY <1>1, <1>2 DEF Scopes

LEMMA ScopeSetKeeps ==
  ASSUME NEW st, NEW n, AreShaped(st, n), NEW scope \in Scopes, NEW s, IsShaped(s, n),
         s.prompts = st[scope].prompts
  PROVE  KeepsTexts(st, [st EXCEPT ![scope] = s], n)
<1>1. SetsTexts(st, [st EXCEPT ![scope] = s], n, scope, s.prompts)
  BY ScopeSetSets
<1> QED BY <1>1 DEF SetsTexts, KeepsTexts

LEMMA EntriesShape ==
  ASSUME NEW r, NEW n, IsShaped(r, n), NEW e, IsFiniteSet(DOMAIN e)
  PROVE  IsShaped([r EXCEPT !.entries = e], n) /\ [r EXCEPT !.entries = e].prompts = r.prompts
<1>1. [r EXCEPT !.entries = e]
        = [entries |-> e, prompts |-> r.prompts, skills |-> r.skills, tools |-> r.tools,
           enabled |-> r.enabled, custom |-> r.custom]
  BY DEF IsShaped, IsRecord
<1> QED BY <1>1 DEF IsShaped, IsRecord

LEMMA EntriesKeep ==
  ASSUME NEW st, NEW n, AreShaped(st, n), NEW scope \in Scopes, NEW e, IsFiniteSet(DOMAIN e)
  PROVE  KeepsTexts(st, [st EXCEPT ![scope].entries = e], n)
<1> DEFINE r == st[scope]
           s == [r EXCEPT !.entries = e]
<1>1. IsShaped(r, n)
  BY ShapedScope
<1> HIDE DEF r
<1>2. IsShaped(s, n) /\ s.prompts = r.prompts
  BY <1>1, EntriesShape
<1> HIDE DEF s
<1>3. KeepsTexts(st, [st EXCEPT ![scope] = s], n)
  BY <1>2, ScopeSetKeeps DEF r
<1> QED BY <1>3 DEF s, r

LEMMA PromptsSet ==
  ASSUME NEW st, NEW n, AreShaped(st, n), NEW scope \in Scopes, NEW e, HasTexts(e, n)
  PROVE  SetsTexts(st, [st EXCEPT ![scope].prompts = e], n, scope, e)
<1> DEFINE s == [st[scope] EXCEPT !.prompts = e]
<1>1. IsShaped(s, n) /\ s.prompts = e
  <2> DEFINE r == st[scope]
  <2>1. IsShaped(r, n)
    BY ShapedScope
  <2> HIDE DEF r
  <2>2. LET m == [r EXCEPT !.prompts = e]
        IN  m = [entries |-> r.entries, prompts |-> e, skills |-> r.skills, tools |-> r.tools,
                 enabled |-> r.enabled, custom |-> r.custom]
    BY <2>1 DEF IsShaped, IsRecord
  <2>3. LET m == [r EXCEPT !.prompts = e]
        IN  IsShaped(m, n) /\ m.prompts = e
    BY <2>1, <2>2 DEF IsShaped, IsRecord
  <2> QED BY <2>3 DEF r
<1> HIDE DEF s
<1>2. SetsTexts(st, [st EXCEPT ![scope] = s], n, scope, e)
  BY <1>1, ScopeSetSets
<1> QED BY <1>2 DEF s

LEMMA EnabledKeeps ==
  ASSUME NEW st, NEW n, AreShaped(st, n), NEW scope \in Scopes, NEW e, DOMAIN e \subseteq ToSet(Tools)
  PROVE  KeepsTexts(st, [st EXCEPT ![scope].enabled = e], n)
<1> DEFINE s == [st[scope] EXCEPT !.enabled = e]
<1>1. IsShaped(s, n) /\ s.prompts = st[scope].prompts
  <2> DEFINE r == st[scope]
  <2>1. IsShaped(r, n)
    BY ShapedScope
  <2> HIDE DEF r
  <2>2. LET m == [r EXCEPT !.enabled = e]
        IN  m = [entries |-> r.entries, prompts |-> r.prompts, skills |-> r.skills,
                 tools |-> r.tools, enabled |-> e, custom |-> r.custom]
    BY <2>1 DEF IsShaped, IsRecord
  <2>3. LET m == [r EXCEPT !.enabled = e]
        IN  IsShaped(m, n) /\ m.prompts = r.prompts
    BY <2>1, <2>2 DEF IsShaped, IsRecord
  <2> QED BY <2>3 DEF r
<1> HIDE DEF s
<1>2. KeepsTexts(st, [st EXCEPT ![scope] = s], n)
  BY <1>1, ScopeSetKeeps
<1> QED BY <1>2 DEF s

LEMMA CustomKeeps ==
  ASSUME NEW st, NEW n, AreShaped(st, n), NEW scope \in Scopes, NEW e,
         e \subseteq {"core", "skills", "tools"}
  PROVE  KeepsTexts(st, [st EXCEPT ![scope].custom = e], n)
<1> DEFINE s == [st[scope] EXCEPT !.custom = e]
<1>1. IsShaped(s, n) /\ s.prompts = st[scope].prompts
  <2> DEFINE r == st[scope]
  <2>1. IsShaped(r, n)
    BY ShapedScope
  <2> HIDE DEF r
  <2>2. LET m == [r EXCEPT !.custom = e]
        IN  m = [entries |-> r.entries, prompts |-> r.prompts, skills |-> r.skills,
                 tools |-> r.tools, enabled |-> r.enabled, custom |-> e]
    BY <2>1 DEF IsShaped, IsRecord
  <2>3. LET m == [r EXCEPT !.custom = e]
        IN  IsShaped(m, n) /\ m.prompts = r.prompts
    BY <2>1, <2>2 DEF IsShaped, IsRecord
  <2> QED BY <2>3 DEF r
<1> HIDE DEF s
<1>2. KeepsTexts(st, [st EXCEPT ![scope] = s], n)
  BY <1>1, ScopeSetKeeps
<1> QED BY <1>2 DEF s

LEMMA ListKeeps ==
  ASSUME NEW st, NEW n, AreShaped(st, n), NEW scope \in Scopes, NEW part \in {"skills", "tools"},
         NEW list, IsListOf(list, Names[part])
  PROVE  KeepsTexts(st, [st EXCEPT ![scope][part] = list], n)
<1> DEFINE s == [st[scope] EXCEPT ![part] = list]
<1>1. IsShaped(s, n) /\ s.prompts = st[scope].prompts
  <2> DEFINE r == st[scope]
  <2>1. IsShaped(r, n)
    BY ShapedScope
  <2> HIDE DEF r
  <2>2. CASE part = "skills"
    <3>1. [r EXCEPT !.skills = list]
            = [entries |-> r.entries, prompts |-> r.prompts, skills |-> list, tools |-> r.tools,
               enabled |-> r.enabled, custom |-> r.custom]
      BY <2>1 DEF IsShaped, IsRecord
    <3>2. IsListOf(list, Skills)
      BY <2>2 DEF Names
    <3>3. LET m == [r EXCEPT !.skills = list]
          IN  IsShaped(m, n) /\ m.prompts = r.prompts
      BY <2>1, <3>1, <3>2 DEF IsShaped, IsRecord
    <3> QED BY <2>2, <3>3 DEF r
  <2>3. CASE part = "tools"
    <3>1. [r EXCEPT !.tools = list]
            = [entries |-> r.entries, prompts |-> r.prompts, skills |-> r.skills, tools |-> list,
               enabled |-> r.enabled, custom |-> r.custom]
      BY <2>1 DEF IsShaped, IsRecord
    <3>2. IsListOf(list, Tools)
      BY <2>3 DEF Names
    <3>3. LET m == [r EXCEPT !.tools = list]
          IN  IsShaped(m, n) /\ m.prompts = r.prompts
      BY <2>1, <3>1, <3>2 DEF IsShaped, IsRecord
    <3> QED BY <2>3, <3>3 DEF r
  <2> QED BY <2>2, <2>3
<1> HIDE DEF s
<1>2. KeepsTexts(st, [st EXCEPT ![scope] = s], n)
  BY <1>1, ScopeSetKeeps
<1> QED BY <1>2 DEF s

LEMMA EmptyIsShaped == IsShaped(EmptyScope, 0)
<1>1. IsRecord(EmptyScope)
  BY DEF IsRecord, EmptyScope
<1>2. /\ DOMAIN EmptyScope.entries = {} /\ DOMAIN EmptyScope.prompts = {}
      /\ EmptyScope.skills = <<>> /\ EmptyScope.tools = <<>>
      /\ DOMAIN EmptyScope.enabled = {} /\ EmptyScope.custom = {}
  BY DEF EmptyScope
<1>3. \A names : IsListOf(<<>>, names)
  <2> TAKE names
  <2>1. ToSet(<<>>) = {} /\ DOMAIN <<>> = {}
    BY DEF ToSet
  <2>2. {e.name : e \in ToSet(<<>>)} = {}
    BY <2>1
  <2> QED BY <2>1, <2>2 DEF IsListOf
<1>4. HasTexts(EmptyScope.prompts, 0)
  BY <1>2, FS_EmptySet DEF HasTexts
<1> QED BY <1>1, <1>2, <1>3, <1>4, FS_EmptySet DEF IsShaped

(* A text more may have been written.                                        *)
LEMMA ShapedStays ==
  ASSUME NEW n \in Nat, NEW m \in Nat, n =< m
  PROVE  /\ \A s : IsShaped(s, n) => IsShaped(s, m)
         /\ \A st : AreShaped(st, n) => AreShaped(st, m)
<1>1. \A t : IsText(t, n) => IsText(t, m)
  BY DEF IsText
<1>2. \A prompts : HasTexts(prompts, n) => HasTexts(prompts, m)
  BY <1>1 DEF HasTexts
<1>3. \A s : IsShaped(s, n) => IsShaped(s, m)
  BY <1>2 DEF IsShaped
<1> QED BY <1>3 DEF AreShaped

-----------------------------------------------------------------------------
(* The operators that leave the texts alone                                  *)

LEMMA UpsertKeeps ==
  ASSUME NEW st, NEW n, AreShaped(st, n), NEW scope \in Scopes, NEW id, NEW order, NEW title
  PROVE  KeepsTexts(st, Upsert(st, scope, id, order, title), n)
<1> DEFINE more == Put(st[scope].entries, id, [on |-> TRUE, order |-> order, title |-> title])
<1>1. DOMAIN more = DOMAIN st[scope].entries \cup {id}
  BY DEF Put
<1>2. Upsert(st, scope, id, order, title) = [st EXCEPT ![scope].entries = more]
  BY DEF Upsert
<1>3. IsFiniteSet(DOMAIN st[scope].entries)
  BY ShapedScope DEF IsShaped
<1> HIDE DEF more
<1>4. IsFiniteSet(DOMAIN more)
  BY <1>1, <1>3, FS_AddElement
<1>5. KeepsTexts(st, [st EXCEPT ![scope].entries = more], n)
  BY <1>4, EntriesKeep
<1> QED BY <1>2, <1>5

LEMMA EnsureKeeps ==
  ASSUME NEW st, NEW n, AreShaped(st, n), NEW scope \in Scopes
  PROVE  /\ \A id, order : KeepsTexts(st, EnsureEntry(st, scope, id, order), n)
         /\ KeepsTexts(st, EnsureSkills(st, scope), n)
         /\ KeepsTexts(st, EnsureTools(st, scope), n)
<1>1. \A id, order : KeepsTexts(st, EnsureEntry(st, scope, id, order), n)
  BY UpsertKeeps, KeepsAll DEF EnsureEntry
<1> QED BY <1>1 DEF EnsureSkills, EnsureTools

LEMMA EnsureDynamicKeeps ==
  ASSUME NEW st, NEW n, AreShaped(st, n)
  PROVE  KeepsTexts(st, EnsureDynamic(st), n)
<1> DEFINE one == EnsureEntry(st, "global", BaselineId, 15)
<1>1. "global" \in Scopes
  BY DEF Scopes
<1>2. KeepsTexts(st, one, n)
  BY <1>1, EnsureKeeps
<1> HIDE DEF one
<1>3. KeepsTexts(one, EnsureEntry(one, "global", ChangesId, 16), n)
  BY <1>1, <1>2, EnsureKeeps DEF KeepsTexts
<1>4. KeepsTexts(st, EnsureEntry(one, "global", ChangesId, 16), n)
  BY <1>2, <1>3, KeepsTwice
<1> QED BY <1>4 DEF EnsureDynamic, one

LEMMA EnsureInstructionsKeeps ==
  ASSUME NEW st, NEW n, AreShaped(st, n)
  PROVE  KeepsTexts(st, EnsureInstructions(st), n)
BY EnsureKeeps DEF EnsureInstructions, Scopes

LEMMA EffectiveKeeps ==
  ASSUME NEW st, NEW n, AreShaped(st, n)
  PROVE  KeepsTexts(st, Effective(st), n)
<1>1. "project" \in Scopes /\ "global" \in Scopes
  BY DEF Scopes
<1> DEFINE a == EnsureDefaultSkills(st)
           b == EnsureDefaultTools(a)
           c == EnsureDynamic(b)
<1>2. KeepsTexts(st, a, n)
  BY <1>1, EnsureKeeps, KeepsAll DEF EnsureDefaultSkills
<1> HIDE DEF a
<1>3. KeepsTexts(a, b, n)
  <2>1. AreShaped(a, n)
    BY <1>2 DEF KeepsTexts
  <2> DEFINE owner == PartScope(a, "tools", "global")
  <2>2. owner \in Scopes
    BY <1>1, PartScopeIsScope
  <2>3. b = a \/ b = EnsureTools(a, owner)
    BY DEF EnsureDefaultTools
  <2> HIDE DEF owner, b
  <2> QED BY <2>1, <2>2, <2>3, EnsureKeeps, KeepsAll
<1> HIDE DEF b
<1>4. KeepsTexts(b, c, n)
  BY <1>3, EnsureDynamicKeeps DEF KeepsTexts
<1> HIDE DEF c
<1>5. KeepsTexts(c, EnsureInstructions(c), n)
  BY <1>4, EnsureInstructionsKeeps DEF KeepsTexts
<1>6. KeepsTexts(st, EnsureInstructions(c), n)
  BY <1>2, <1>3, <1>4, <1>5, KeepsTwice
<1> QED BY <1>6 DEF Effective, a, b, c

LEMMA MaterializedKeeps ==
  ASSUME NEW st, NEW n, AreShaped(st, n), NEW scope \in Scopes, NEW id
  PROVE  KeepsTexts(st, Materialized(st, scope, id), n)
<1>1. EffectiveScope(st, id, scope) \in Scopes
  BY EffectiveScopeIs
<1>2. Materialized(st, scope, id) \in {EnsureSkills(st, scope), EnsureDynamic(st),
        EnsureTools(st, EffectiveScope(st, id, scope)), EnsureInstructions(st), st}
  BY Ids DEF Materialized
<1>3. /\ KeepsTexts(st, EnsureSkills(st, scope), n)
      /\ KeepsTexts(st, EnsureTools(st, EffectiveScope(st, id, scope)), n)
  BY <1>1, EnsureKeeps
<1> QED BY <1>2, <1>3, EnsureDynamicKeeps, EnsureInstructionsKeeps, KeepsAll

LEMMA SetEnabledKeeps ==
  ASSUME NEW st, NEW n, AreShaped(st, n), NEW row, row.scope \in Scopes, NEW on
  PROVE  KeepsTexts(st, SetEnabled(st, row, on), n)
<1> DEFINE stored == Materialized(st, row.scope, row.id)
           scope == EffectiveScope(stored, row.id, row.scope)
           entries == [stored[scope].entries EXCEPT ![row.id].on = on]
<1>1. KeepsTexts(st, stored, n)
  BY MaterializedKeeps
<1>3. scope \in Scopes
  BY EffectiveScopeIs
<1>4. SetEnabled(st, row, on) = IF row.id \notin DOMAIN stored[scope].entries THEN stored
                                ELSE [stored EXCEPT ![scope].entries = entries]
  BY DEF SetEnabled
<1>5. DOMAIN entries = DOMAIN stored[scope].entries
  OBVIOUS
<1> HIDE DEF stored, scope, entries
<1>6. AreShaped(stored, n)
  BY <1>1 DEF KeepsTexts
<1>7. IsFiniteSet(DOMAIN entries)
  BY <1>3, <1>5, <1>6, ShapedScope DEF IsShaped
<1>8. KeepsTexts(stored, [stored EXCEPT ![scope].entries = entries], n)
  BY <1>3, <1>6, <1>7, EntriesKeep
<1>9. KeepsTexts(st, [stored EXCEPT ![scope].entries = entries], n)
  BY <1>1, <1>8, KeepsTwice
<1> QED BY <1>1, <1>4, <1>9

LEMMA WithOrderKeepsTexts ==
  ASSUME NEW st, NEW n, AreShaped(st, n), NEW row, NEW order
  PROVE  KeepsTexts(st, WithOrder(st, row, order), n)
<1> DEFINE entries == [st[row.scope].entries EXCEPT ![row.id].order = order]
<1>1. WithOrder(st, row, order) = [st EXCEPT ![row.scope].entries = entries]
  BY DEF WithOrder
<1>2. CASE row.scope \in Scopes
  <2>1. DOMAIN entries = DOMAIN st[row.scope].entries
    OBVIOUS
  <2> HIDE DEF entries
  <2>2. IsFiniteSet(DOMAIN entries)
    BY <1>2, <2>1, ShapedScope DEF IsShaped
  <2>3. KeepsTexts(st, [st EXCEPT ![row.scope].entries = entries], n)
    BY <1>2, <2>2, EntriesKeep
  <2> QED BY <1>1, <2>3
<1>3. CASE row.scope \notin Scopes
  <2>1. st = [global |-> st.global, project |-> st.project]
    BY DEF AreShaped
  <2>2. DOMAIN st = Scopes
    BY <2>1 DEF Scopes
  <2> HIDE DEF entries
  <2>3. [st EXCEPT ![row.scope].entries = entries] = st
    BY <1>3, <2>1, <2>2
  <2> QED BY <1>1, <2>3, KeepsAll
<1> QED BY <1>2, <1>3

LEMMA NormalizedKeepsTexts ==
  ASSUME NEW st, NEW n, AreShaped(st, n)
  PROVE  KeepsTexts(st, Normalized(st), n)
<1> DEFINE rows == Ordered(st, AllRows(st))
           place(row) == 10 * (CHOOSE i \in DOMAIN rows : rows[i] = row)
           new(scope) == [id \in DOMAIN st[scope].entries |->
                            [st[scope].entries[id] EXCEPT !.order = place([scope |-> scope, id |-> id])]]
           renumbered(scope) == [st[scope] EXCEPT !.entries = new(scope)]
<1>0. "project" \in Scopes /\ "global" \in Scopes
  BY DEF Scopes
<1>1. Normalized(st) = [global |-> renumbered("global"), project |-> renumbered("project")]
  BY DEF Normalized
<1>2. \A scope \in Scopes : DOMAIN new(scope) = DOMAIN st[scope].entries
  OBVIOUS
<1> HIDE DEF new
<1>3. ASSUME NEW scope \in Scopes
      PROVE  IsShaped(renumbered(scope), n) /\ renumbered(scope).prompts = st[scope].prompts
  <2> DEFINE r == st[scope]
  <2>1. IsShaped(r, n)
    BY ShapedScope
  <2>2. IsFiniteSet(DOMAIN new(scope))
    BY <1>2, <2>1 DEF IsShaped
  <2> HIDE DEF r
  <2>3. /\ IsShaped([r EXCEPT !.entries = new(scope)], n)
        /\ [r EXCEPT !.entries = new(scope)].prompts = r.prompts
    BY <2>1, <2>2, EntriesShape
  <2> QED BY <2>3 DEF r
<1> HIDE DEF renumbered
<1>4. IsShaped(renumbered("global"), n) /\ IsShaped(renumbered("project"), n)
  BY <1>0, <1>3
<1> QED BY <1>0, <1>1, <1>3, <1>4 DEF KeepsTexts, AreShaped, Scopes

LEMMA MoveKeepsTexts ==
  ASSUME NEW st, NEW n, AreShaped(st, n), NEW row, row.scope \in Scopes, NEW step
  PROVE  KeepsTexts(st, MoveActiveSource(st, row, step), n)
<1> DEFINE all == Materialized(Effective(st), row.scope, row.id)
<1>1. KeepsTexts(st, all, n)
  <2>1. KeepsTexts(st, Effective(st), n)
    BY EffectiveKeeps
  <2> DEFINE e == Effective(st)
  <2> HIDE DEF e
  <2>2. KeepsTexts(e, Materialized(e, row.scope, row.id), n)
    BY <2>1, MaterializedKeeps DEF KeepsTexts, e
  <2> QED BY <2>1, <2>2, KeepsTwice DEF e
<1> HIDE DEF all
<1>2. \A a, b, k, m : KeepsTexts(st, Normalized(WithOrder(WithOrder(all, a, k), b, m)), n)
  <2> SUFFICES ASSUME NEW a, NEW b, NEW k, NEW m
               PROVE  KeepsTexts(st, Normalized(WithOrder(WithOrder(all, a, k), b, m)), n)
    OBVIOUS
  <2> DEFINE one == WithOrder(all, a, k)
             two == WithOrder(one, b, m)
  <2>1. KeepsTexts(all, one, n)
    BY <1>1, WithOrderKeepsTexts DEF KeepsTexts
  <2> HIDE DEF one
  <2>2. KeepsTexts(one, two, n)
    BY <2>1, WithOrderKeepsTexts DEF KeepsTexts
  <2> HIDE DEF two
  <2>3. KeepsTexts(two, Normalized(two), n)
    BY <2>2, NormalizedKeepsTexts DEF KeepsTexts
  <2>4. KeepsTexts(st, Normalized(two), n)
    BY <1>1, <2>1, <2>2, <2>3, KeepsTwice
  <2> QED BY <2>4 DEF two, one
<1> DEFINE rows == Ordered(all, AllRows(all))
           at == {i \in DOMAIN rows : rows[i] = row /\ i + step \in DOMAIN rows}
           x == CHOOSE x \in at : TRUE
           neighbour == rows[x + step]
<1>3. MoveActiveSource(st, row, step) =
        IF at = {} THEN all
        ELSE Normalized(WithOrder(WithOrder(all, row, EntryAt(all, neighbour).order),
                                  neighbour, EntryAt(all, row).order))
  BY DEF MoveActiveSource, all
<1> HIDE DEF at, neighbour
<1> QED BY <1>1, <1>2, <1>3

LEMMA OmitIs ==
  ASSUME NEW f, NEW x
  PROVE  /\ DOMAIN Omit(f, x) = DOMAIN f \ {x}
         /\ \A y \in DOMAIN f \ {x} : Omit(f, x)[y] = f[y]
BY DEF Omit, Restrict

LEMMA RemoveEntryKeeps ==
  ASSUME NEW st, NEW n, AreShaped(st, n), NEW scope \in Scopes, NEW id
  PROVE  KeepsTexts(st, RemoveEntry(st, scope, id), n)
<1> DEFINE less == Omit(st[scope].entries, id)
<1>1. RemoveEntry(st, scope, id) = [st EXCEPT ![scope].entries = less]
  BY DEF RemoveEntry
<1>2. DOMAIN less = DOMAIN st[scope].entries \ {id}
  BY OmitIs
<1>3. IsFiniteSet(DOMAIN st[scope].entries)
  BY ShapedScope DEF IsShaped
<1> HIDE DEF less
<1>4. IsFiniteSet(DOMAIN less)
  BY <1>2, <1>3, FS_RemoveElement
<1>5. KeepsTexts(st, [st EXCEPT ![scope].entries = less], n)
  BY <1>4, EntriesKeep
<1> QED BY <1>1, <1>5

LEMMA SelectPromptKeeps ==
  ASSUME NEW st, NEW n, AreShaped(st, n), NEW scope \in Scopes, NEW id
  PROVE  KeepsTexts(st, SelectPrompt(st, scope, id), n)
BY UpsertKeeps, KeepsAll DEF SelectPrompt

LEMMA MergedOfShaped ==
  ASSUME NEW st, NEW n, AreShaped(st, n), NEW part \in {"skills", "tools"}
  PROVE  IsWhole(Merged(st, part), Names[part])
<1>1. IsShaped(st.global, n) /\ IsShaped(st.project, n)
  BY DEF AreShaped
<1>2. IsListOf(st.global[part], Names[part]) /\ IsListOf(st.project[part], Names[part])
  <2>1. CASE part = "skills"
    BY <1>1, <2>1 DEF IsShaped, Names
  <2>2. CASE part = "tools"
    BY <1>1, <2>2 DEF IsShaped, Names
  <2> QED BY <2>1, <2>2
<1> QED BY <1>2, MergedIsWhole

LEMMA SwitchedIsWhole ==
  ASSUME NEW list, NEW names, IsWhole(list, names), NEW i, NEW on
  PROVE  IsWhole([list EXCEPT ![i].on = on], names)
<1> DEFINE new == [list EXCEPT ![i].on = on]
<1>1. DOMAIN new = DOMAIN list
  OBVIOUS
<1>2. \A j \in DOMAIN list : IsListEntry(new[j]) /\ new[j].name = list[j].name
  <2> TAKE j \in DOMAIN list
  <2> DEFINE e == list[j]
  <2>1. IsListEntry(e)
    BY DEF IsWhole
  <2>2. new[j] = IF j = i THEN [e EXCEPT !.on = on] ELSE e
    OBVIOUS
  <2> HIDE DEF e, new
  <2>3. [e EXCEPT !.on = on] = [name |-> e.name, on |-> on, order |-> e.order]
    BY <2>1 DEF IsListEntry
  <2>4. IsListEntry(new[j]) /\ new[j].name = e.name
    BY <2>1, <2>2, <2>3 DEF IsListEntry
  <2> QED BY <2>4 DEF e
<1> HIDE DEF new
<1>3. IsWhole(new, names)
  BY <1>1, <1>2 DEF IsWhole
<1> QED BY <1>3 DEF new

LEMMA RenumberedIsWhole ==
  ASSUME NEW list, NEW names \in Seq(STRING), IsWhole(list, names)
  PROVE  IsWhole(Renumbered(list), names)
<1> DEFINE new == Renumbered(list)
<1>1. DOMAIN new = DOMAIN list /\ \A j \in DOMAIN list : new[j] = [list[j] EXCEPT !.order = j]
  BY DEF Renumbered
<1> HIDE DEF new
<1>2. \A j \in DOMAIN list : IsListEntry(new[j]) /\ new[j].name = list[j].name
  <2> TAKE j \in DOMAIN list
  <2> DEFINE e == list[j]
  <2>1. IsListEntry(e) /\ j \in Int
    BY DEF IsWhole
  <2>2. new[j] = [e EXCEPT !.order = j]
    BY <1>1
  <2> HIDE DEF e
  <2>3. [e EXCEPT !.order = j] = [name |-> e.name, on |-> e.on, order |-> j]
    BY <2>1 DEF IsListEntry
  <2>4. IsListEntry(new[j]) /\ new[j].name = e.name
    BY <2>1, <2>2, <2>3 DEF IsListEntry
  <2> QED BY <2>4 DEF e
<1>3. IsWhole(new, names)
  BY <1>1, <1>2 DEF IsWhole
<1> QED BY <1>3 DEF new

LEMMA SwappedIsWhole ==
  ASSUME NEW list, NEW names, IsWhole(list, names), NEW i \in DOMAIN list, NEW j \in DOMAIN list
  PROVE  IsWhole([list EXCEPT ![i] = list[j], ![j] = list[i]], names)
<1> DEFINE new == [list EXCEPT ![i] = list[j], ![j] = list[i]]
<1>1. DOMAIN new = DOMAIN list
  OBVIOUS
<1>2. \A k \in DOMAIN list : new[k] = list[IF k = j THEN i ELSE IF k = i THEN j ELSE k]
  OBVIOUS
<1> HIDE DEF new
<1>3. \A name \in ToSet(names) : \E k \in DOMAIN new : new[k].name = name
  <2> TAKE name \in ToSet(names)
  <2>1. PICK k \in DOMAIN list : list[k].name = name
    BY DEF IsWhole
  <2>2. \E l \in DOMAIN list : new[l] = list[k]
    BY <1>2
  <2> QED BY <1>1, <2>1, <2>2
<1>4. \A k \in DOMAIN new : \E l \in DOMAIN list : new[k] = list[l]
  BY <1>1, <1>2
<1>5. IsWhole(new, names)
  BY <1>1, <1>3, <1>4 DEF IsWhole
<1> QED BY <1>5 DEF new

LEMMA NameIsThere ==
  ASSUME NEW list, NEW names, IsWhole(list, names), NEW name \in ToSet(names)
  PROVE  IndexOfName(list, name) \in DOMAIN list /\ list[IndexOfName(list, name)].name = name
BY DEF IndexOfName, IsWhole

LEMMA ListOpsKeep ==
  ASSUME NEW st, NEW n, AreShaped(st, n), NEW scope \in Scopes, NEW part \in {"skills", "tools"},
         NEW name \in ToSet(Names[part])
  PROVE  /\ \A on : KeepsTexts(st, SetSelected(st, scope, part, name, on), n)
         /\ \A step : KeepsTexts(st, MoveListed(st, scope, part, name, step), n)
<1> DEFINE list == Merged(st, part)
           names == Names[part]
           i == IndexOfName(list, name)
           moved(step) == IF i + step \notin DOMAIN list THEN list
                          ELSE Renumbered([list EXCEPT ![i] = list[i + step], ![i + step] = list[i]])
<1>1. IsWhole(list, names)
  BY MergedOfShaped
<1>2. names \in Seq(STRING)
  BY AssemblyAssumption DEF Names
<1>3. \A on : SetSelected(st, scope, part, name, on)
                = [st EXCEPT ![scope][part] = [list EXCEPT ![i].on = on]]
  BY DEF SetSelected
<1>4. \A step : MoveListed(st, scope, part, name, step) = [st EXCEPT ![scope][part] = moved(step)]
  BY DEF MoveListed
<1> HIDE DEF list, names
<1>5. i \in DOMAIN list
  BY <1>1, NameIsThere DEF names
<1> HIDE DEF i
<1>6. \A on : IsWhole([list EXCEPT ![i].on = on], names)
  BY <1>1, SwitchedIsWhole
<1>7. \A step : IsWhole(moved(step), names)
  <2> TAKE step
  <2>1. CASE i + step \in DOMAIN list
    <3> DEFINE swapped == [list EXCEPT ![i] = list[i + step], ![i + step] = list[i]]
    <3>1. IsWhole(swapped, names)
      BY <1>1, <1>5, <2>1, SwappedIsWhole
    <3> HIDE DEF swapped
    <3>2. IsWhole(Renumbered(swapped), names)
      BY <1>2, <3>1, RenumberedIsWhole
    <3> QED BY <2>1, <3>2 DEF swapped
  <2> QED BY <1>1, <2>1
<1> HIDE DEF moved
<1>8. \A l : IsWhole(l, names) => KeepsTexts(st, [st EXCEPT ![scope][part] = l], n)
  BY WholeIsList, ListKeeps DEF names
<1>9. ASSUME NEW on PROVE KeepsTexts(st, SetSelected(st, scope, part, name, on), n)
  <2> DEFINE l == [list EXCEPT ![i].on = on]
  <2>1. IsWhole(l, names) /\ SetSelected(st, scope, part, name, on) = [st EXCEPT ![scope][part] = l]
    BY <1>3, <1>6
  <2> HIDE DEF l
  <2> QED BY <2>1, <1>8
<1>10. ASSUME NEW step PROVE KeepsTexts(st, MoveListed(st, scope, part, name, step), n)
  <2> DEFINE l == moved(step)
  <2>1. IsWhole(l, names) /\ MoveListed(st, scope, part, name, step) = [st EXCEPT ![scope][part] = l]
    BY <1>4, <1>7
  <2> HIDE DEF l
  <2> QED BY <2>1, <1>8
<1> QED BY <1>9, <1>10

LEMMA ResetKeeps ==
  ASSUME NEW st, NEW n, AreShaped(st, n), NEW scope \in Scopes
  PROVE  KeepsTexts(st, ResetSkillOrder(st, scope), n)
<1> DEFINE list == Merged(st, "skills")
           l == [i \in DOMAIN Skills |->
                   [name |-> Skills[i], order |-> i, on |-> list[IndexOfName(list, Skills[i])].on]]
<1>1. ResetSkillOrder(st, scope) = [st EXCEPT ![scope]["skills"] = l]
  BY DEF ResetSkillOrder
<1>2. Names["skills"] = Skills /\ Skills \in Seq(STRING)
  BY AssemblyAssumption DEF Names
<1>3. IsWhole(l, Skills)
  <2> HIDE DEF list
  <2>1. DOMAIN l = DOMAIN Skills /\ \A i \in DOMAIN Skills : IsListEntry(l[i]) /\ l[i].name = Skills[i]
    BY <1>2 DEF IsListEntry
  <2> HIDE DEF l
  <2> QED BY <1>2, <2>1 DEF IsWhole, ToSet
<1> HIDE DEF l
<1>4. IsListOf(l, Names["skills"])
  BY <1>2, <1>3, WholeIsList
<1>5. KeepsTexts(st, [st EXCEPT ![scope]["skills"] = l], n)
  BY <1>4, ListKeeps
<1> QED BY <1>1, <1>5

LEMMA SetToolEnabledKeeps ==
  ASSUME NEW st, NEW n, AreShaped(st, n), NEW scope \in Scopes, NEW tool \in ToSet(Tools), NEW on
  PROVE  KeepsTexts(st, SetToolEnabled(st, scope, tool, on), n)
<1> DEFINE owner == PartScope(st, "tools", scope)
           more == Put(st[owner].enabled, tool, on)
<1>1. owner \in Scopes
  BY PartScopeIsScope
<1>2. SetToolEnabled(st, scope, tool, on) = [st EXCEPT ![owner].enabled = more]
  BY DEF SetToolEnabled
<1>3. DOMAIN more = DOMAIN st[owner].enabled \cup {tool}
  BY DEF Put
<1> HIDE DEF owner, more
<1>4. DOMAIN more \subseteq ToSet(Tools)
  BY <1>1, <1>3, ShapedScope DEF IsShaped
<1>5. KeepsTexts(st, [st EXCEPT ![owner].enabled = more], n)
  BY <1>1, <1>4, EnabledKeeps
<1> QED BY <1>2, <1>5

LEMMA SetOverrideKeeps ==
  ASSUME NEW st, NEW n, AreShaped(st, n), NEW scope \in Scopes, NEW part \in {"core", "skills", "tools"}
  PROVE  KeepsTexts(st, SetOverride(st, scope, part), n)
<1> DEFINE more == st[scope].custom \cup {part}
<1>1. SetOverride(st, scope, part) = [st EXCEPT ![scope].custom = more]
  BY DEF SetOverride
<1>2. more \subseteq {"core", "skills", "tools"}
  BY ShapedScope DEF IsShaped
<1> HIDE DEF more
<1>3. KeepsTexts(st, [st EXCEPT ![scope].custom = more], n)
  BY <1>2, CustomKeeps
<1> QED BY <1>1, <1>3

LEMMA OverridePartKeeps ==
  ASSUME NEW st, NEW n, AreShaped(st, n), NEW scope \in Scopes, NEW part \in {"skills", "tools"}
  PROVE  KeepsTexts(st, OverridePart(st, scope, part), n)
<1> DEFINE owner == PartScope(st, part, scope)
           mid == SetOverride(st, owner, part)
<1>1. owner \in Scopes
  BY PartScopeIsScope
<1>2. OverridePart(st, scope, part)
        = IF part = "skills" THEN EnsureSkills(mid, owner) ELSE EnsureTools(mid, owner)
  BY DEF OverridePart
<1> HIDE DEF owner
<1>3. KeepsTexts(st, mid, n)
  BY <1>1, SetOverrideKeeps
<1> HIDE DEF mid
<1>4. AreShaped(mid, n)
  BY <1>3 DEF KeepsTexts
<1>5. KeepsTexts(mid, EnsureSkills(mid, owner), n) /\ KeepsTexts(mid, EnsureTools(mid, owner), n)
  BY <1>1, <1>4, EnsureKeeps
<1>6. KeepsTexts(st, EnsureSkills(mid, owner), n) /\ KeepsTexts(st, EnsureTools(mid, owner), n)
  BY <1>3, <1>5, KeepsTwice
<1> QED BY <1>2, <1>6

-----------------------------------------------------------------------------
(* The operators that write and delete a text                                *)

LEMMA PutHasTexts ==
  ASSUME NEW prompts, NEW n, HasTexts(prompts, n), NEW id, IsPrompt(id), NEW text, IsText(text, n)
  PROVE  HasTexts(Put(prompts, id, text), n)
<1> DEFINE new == Put(prompts, id, text)
<1>1. DOMAIN new = DOMAIN prompts \cup {id}
      /\ \A y \in DOMAIN new : new[y] = IF y = id THEN text ELSE prompts[y]
  BY DEF Put
<1> HIDE DEF new
<1>2. IsFiniteSet(DOMAIN new)
  BY <1>1, FS_AddElement DEF HasTexts
<1>3. HasTexts(new, n)
  BY <1>1, <1>2 DEF HasTexts
<1> QED BY <1>3 DEF new

LEMMA OmitHasTexts ==
  ASSUME NEW prompts, NEW n, HasTexts(prompts, n), NEW id
  PROVE  HasTexts(Omit(prompts, id), n)
<1> DEFINE new == Omit(prompts, id)
<1>1. DOMAIN new = DOMAIN prompts \ {id} /\ \A y \in DOMAIN new : new[y] = prompts[y]
  BY OmitIs
<1> HIDE DEF new
<1>2. IsFiniteSet(DOMAIN new)
  BY <1>1, FS_RemoveElement DEF HasTexts
<1>3. HasTexts(new, n)
  BY <1>1, <1>2 DEF HasTexts
<1> QED BY <1>3 DEF new

LEMMA CreatePromptSets ==
  ASSUME NEW st, NEW n, AreShaped(st, n), NEW scope \in Scopes, NEW text, IsText(text, n),
         text.title \in Int
  PROVE  \E id : id \notin DOMAIN st[scope].prompts
           /\ SetsTexts(st, CreatePrompt(st, scope, text), n, scope, Put(st[scope].prompts, id, text))
<1> DEFINE id == FreshId(st[scope], text.title)
           mid == Upsert(st, scope, id, NextOrder(st[scope]), text.title)
           more == Put(st[scope].prompts, id, text)
<1>1. CreatePrompt(st, scope, text) = [mid EXCEPT ![scope].prompts = Put(mid[scope].prompts, id, text)]
  BY DEF CreatePrompt
<1>2. IsShaped(st[scope], n)
  BY ShapedScope
<1>3. IsPrompt(id) /\ id \notin DOMAIN st[scope].prompts
  BY <1>2, FreshIdIsFresh DEF IsShaped, HasTexts
<1> HIDE DEF id
<1>4. KeepsTexts(st, mid, n)
  BY UpsertKeeps
<1> HIDE DEF mid
<1>5. HasTexts(more, n)
  BY <1>2, <1>3, PutHasTexts DEF IsShaped
<1>6. Put(mid[scope].prompts, id, text) = more
  BY <1>4 DEF KeepsTexts
<1> HIDE DEF more
<1>7. SetsTexts(mid, [mid EXCEPT ![scope].prompts = more], n, scope, more)
  BY <1>4, <1>5, PromptsSet DEF KeepsTexts
<1>8. SetsTexts(st, CreatePrompt(st, scope, text), n, scope, more)
  BY <1>1, <1>4, <1>6, <1>7, KeepsThenSets
<1> QED BY <1>3, <1>8 DEF more

LEMMA EditPromptSets ==
  ASSUME NEW st, NEW n, AreShaped(st, n), NEW scope \in Scopes, NEW id, IsPrompt(id),
         NEW text, IsText(text, n)
  PROVE  SetsTexts(st, EditPrompt(st, scope, id, text), n, scope, Put(st[scope].prompts, id, text))
<1> DEFINE titled == [st[scope].entries EXCEPT ![id].title = text.title]
           one == [st EXCEPT ![scope].entries = titled]
           two == Upsert(st, scope, id, NextOrder(st[scope]), text.title)
           mid == IF id \in DOMAIN st[scope].entries THEN one ELSE two
           more == Put(st[scope].prompts, id, text)
<1>1. DOMAIN titled = DOMAIN st[scope].entries
  OBVIOUS
<1>2. EditPrompt(st, scope, id, text) = [mid EXCEPT ![scope].prompts = Put(mid[scope].prompts, id, text)]
  BY DEF EditPrompt
<1>3. KeepsTexts(st, two, n)
  BY UpsertKeeps
<1> HIDE DEF titled, two
<1>0. IsShaped(st[scope], n)
  BY ShapedScope
<1>4. KeepsTexts(st, one, n)
  BY <1>0, <1>1, EntriesKeep DEF IsShaped
<1> HIDE DEF one
<1>5. KeepsTexts(st, mid, n)
  BY <1>3, <1>4
<1> HIDE DEF mid
<1>6. HasTexts(more, n)
  BY <1>0, PutHasTexts DEF IsShaped
<1>7. Put(mid[scope].prompts, id, text) = more
  BY <1>5 DEF KeepsTexts
<1> HIDE DEF more
<1>8. SetsTexts(mid, [mid EXCEPT ![scope].prompts = more], n, scope, more)
  BY <1>5, <1>6, PromptsSet DEF KeepsTexts
<1>9. SetsTexts(st, EditPrompt(st, scope, id, text), n, scope, more)
  BY <1>2, <1>5, <1>7, <1>8, KeepsThenSets
<1> QED BY <1>9 DEF more

LEMMA DeletePromptSets ==
  ASSUME NEW st, NEW n, AreShaped(st, n), NEW scope \in Scopes, NEW id
  PROVE  SetsTexts(st, DeletePrompt(st, scope, id), n, scope, Omit(st[scope].prompts, id))
<1> DEFINE mid == RemoveEntry(st, scope, id)
           less == Omit(st[scope].prompts, id)
<1>1. DeletePrompt(st, scope, id) = [mid EXCEPT ![scope].prompts = Omit(mid[scope].prompts, id)]
  BY DEF DeletePrompt
<1>2. KeepsTexts(st, mid, n)
  BY RemoveEntryKeeps
<1> HIDE DEF mid
<1>3. HasTexts(less, n)
  BY ShapedScope, OmitHasTexts DEF IsShaped
<1>4. Omit(mid[scope].prompts, id) = less
  BY <1>2 DEF KeepsTexts
<1> HIDE DEF less
<1>5. SetsTexts(mid, [mid EXCEPT ![scope].prompts = less], n, scope, less)
  BY <1>2, <1>3, PromptsSet DEF KeepsTexts
<1>6. SetsTexts(st, DeletePrompt(st, scope, id), n, scope, less)
  BY <1>1, <1>2, <1>4, <1>5, KeepsThenSets
<1> QED BY <1>6 DEF less

-----------------------------------------------------------------------------
(* Texts and their places                                                    *)

LEMMA TextsAre ==
  ASSUME NEW s, NEW n
  PROVE  n \in Texts(s) <=> \E x \in DOMAIN s.prompts : s.prompts[x].id = n
BY DEF Texts, Range

LEMMA SameTexts ==
  ASSUME NEW s, NEW r, s.prompts = r.prompts
  PROVE  Texts(s) = Texts(r)
BY DEF Texts

(* A text is at one place only, in two stages of a project's prompts.        *)
OnePlace(f, g) ==
  \A x \in DOMAIN f, y \in DOMAIN g : f[x].id = g[y].id /\ f[x].id # 0 => x = y

(* The prompts a save leaves that dies half way: of each id the old text or  *)
(* the new, whole or cut short, and none is missing that is in both.         *)
IsMixOf(h, f, g) ==
  /\ DOMAIN h \subseteq DOMAIN f \cup DOMAIN g
  /\ DOMAIN f \cap DOMAIN g \subseteq DOMAIN h
  /\ \A x \in DOMAIN h : \/ x \in DOMAIN f /\ h[x] = f[x]
                         \/ x \in DOMAIN g /\ h[x] \in {g[x], CutShort(g[x])}

LEMMA CutShortIs ==
  ASSUME NEW t, NEW n \in Nat, IsText(t, n)
  PROVE  CutShort(t).id = 0 /\ IsText(CutShort(t), n)
<1>1. [t EXCEPT !.id = 0] = [id |-> 0, title |-> t.title]
  BY DEF IsText
<1> QED BY <1>1 DEF CutShort, IsText

LEMMA RestrictIs ==
  ASSUME NEW f, NEW S
  PROVE  DOMAIN Restrict(f, S) = S /\ \A x \in S : Restrict(f, S)[x] = f[x]
BY DEF Restrict

LEMMA HalfIsMix ==
  ASSUME NEW old, NEW new, old.custom \subseteq {"core", "skills", "tools"},
         new.custom \subseteq {"core", "skills", "tools"}, NEW half \in Halves(old, new)
  PROVE  IsMixOf(half[1], old.prompts, new.prompts) /\ half[2] \subseteq {"core", "skills", "tools"}
<1> DEFINE f == old.prompts
           g == new.prompts
           texts(written) == Over(Restrict(g, written), f)
           bodies(done) == (new.custom \cap done) \cup (old.custom \ done)
           rest(left) == Over(g, Restrict(f, left))
<1>1. ASSUME NEW written \in SUBSET DOMAIN g
      PROVE  /\ DOMAIN texts(written) = written \cup DOMAIN f
             /\ \A x \in DOMAIN texts(written) :
                  texts(written)[x] = IF x \in written THEN g[x] ELSE f[x]
  <2> DEFINE r == Restrict(g, written)
  <2>1. DOMAIN r = written /\ \A x \in written : r[x] = g[x]
    BY RestrictIs
  <2>2. texts(written) = Over(r, f)
    OBVIOUS
  <2> HIDE DEF r, f, texts
  <2>3. /\ DOMAIN Over(r, f) = written \cup DOMAIN f
        /\ \A x \in written \cup DOMAIN f : Over(r, f)[x] = IF x \in written THEN g[x] ELSE f[x]
    BY <2>1 DEF Over
  <2> QED BY <2>2, <2>3
<1>2. ASSUME NEW left \in SUBSET DOMAIN f
      PROVE  /\ DOMAIN rest(left) = DOMAIN g \cup left
             /\ \A x \in DOMAIN rest(left) :
                  rest(left)[x] = IF x \in DOMAIN g THEN g[x] ELSE f[x]
  <2> DEFINE r == Restrict(f, left)
  <2>1. DOMAIN r = left /\ \A x \in left : r[x] = f[x]
    BY RestrictIs
  <2>2. rest(left) = Over(g, r)
    OBVIOUS
  <2> HIDE DEF r, g, rest
  <2>3. /\ DOMAIN Over(g, r) = DOMAIN g \cup left
        /\ \A x \in DOMAIN g \cup left : Over(g, r)[x] = IF x \in DOMAIN g THEN g[x] ELSE f[x]
    BY <2>1 DEF Over
  <2> QED BY <2>2, <2>3
<1>3. \/ \E written \in SUBSET DOMAIN g : half = <<texts(written), old.custom>>
      \/ \E id \in DOMAIN g, written \in SUBSET DOMAIN g :
           half = <<Put(texts(written), id, CutShort(g[id])), old.custom>>
      \/ \E done : half = <<texts(DOMAIN g), bodies(done)>>
      \/ \E left \in SUBSET DOMAIN f : half = <<rest(left), new.custom>>
  <2> DEFINE A == {<<texts(written), old.custom>> : written \in SUBSET DOMAIN g}
             B == {<<Put(texts(written), id, CutShort(g[id])), old.custom>> :
                     id \in DOMAIN g, written \in SUBSET DOMAIN g}
             C == {<<texts(DOMAIN g), bodies(done)>> : done \in {{"core"}, {"core", "skills"}}}
             D == {<<rest(left), new.custom>> : left \in SUBSET DOMAIN f}
  <2>1. Halves(old, new) = A \cup B \cup C \cup D
    BY DEF Halves
  <2> HIDE DEF texts, rest, f, g, bodies
  <2>2. half \in A => \E written \in SUBSET DOMAIN g : half = <<texts(written), old.custom>>
    OBVIOUS
  <2>3. half \in B => \E id \in DOMAIN g, written \in SUBSET DOMAIN g :
           half = <<Put(texts(written), id, CutShort(g[id])), old.custom>>
    OBVIOUS
  <2>4. half \in C => \E done : half = <<texts(DOMAIN g), bodies(done)>>
    OBVIOUS
  <2>5. half \in D => \E left \in SUBSET DOMAIN f : half = <<rest(left), new.custom>>
    OBVIOUS
  <2> HIDE DEF A, B, C, D
  <2> QED BY <2>1, <2>2, <2>3, <2>4, <2>5
<1> HIDE DEF texts, rest, f, g
<1>4. ASSUME NEW written \in SUBSET DOMAIN g
      PROVE  IsMixOf(texts(written), f, g)
  <2> DEFINE h == texts(written)
  <2>1. /\ DOMAIN h = written \cup DOMAIN f
        /\ \A x \in DOMAIN h : h[x] = IF x \in written THEN g[x] ELSE f[x]
    BY <1>1
  <2> HIDE DEF h
  <2>2. DOMAIN h \subseteq DOMAIN f \cup DOMAIN g /\ DOMAIN f \cap DOMAIN g \subseteq DOMAIN h
    BY <2>1
  <2>3. ASSUME NEW x \in DOMAIN h
        PROVE  \/ x \in DOMAIN f /\ h[x] = f[x]
               \/ x \in DOMAIN g /\ h[x] \in {g[x], CutShort(g[x])}
    <3>1. CASE x \in written
      BY <2>1, <3>1
    <3>2. CASE x \notin written
      BY <2>1, <3>2
    <3> QED BY <3>1, <3>2
  <2>4. IsMixOf(h, f, g)
    BY <2>2, <2>3 DEF IsMixOf
  <2> QED BY <2>4 DEF h
<1>5. ASSUME NEW left \in SUBSET DOMAIN f
      PROVE  IsMixOf(rest(left), f, g)
  <2> DEFINE h == rest(left)
  <2>1. /\ DOMAIN h = DOMAIN g \cup left
        /\ \A x \in DOMAIN h : h[x] = IF x \in DOMAIN g THEN g[x] ELSE f[x]
    BY <1>2
  <2> HIDE DEF h
  <2>2. DOMAIN h \subseteq DOMAIN f \cup DOMAIN g /\ DOMAIN f \cap DOMAIN g \subseteq DOMAIN h
    BY <2>1
  <2>3. ASSUME NEW x \in DOMAIN h
        PROVE  \/ x \in DOMAIN f /\ h[x] = f[x]
               \/ x \in DOMAIN g /\ h[x] \in {g[x], CutShort(g[x])}
    <3>1. CASE x \in DOMAIN g
      BY <2>1, <3>1
    <3>2. CASE x \notin DOMAIN g
      BY <2>1, <3>2
    <3> QED BY <3>1, <3>2
  <2>4. IsMixOf(h, f, g)
    BY <2>2, <2>3 DEF IsMixOf
  <2> QED BY <2>4 DEF h
<1>6. ASSUME NEW written \in SUBSET DOMAIN g, NEW id \in DOMAIN g
      PROVE  IsMixOf(Put(texts(written), id, CutShort(g[id])), f, g)
  <2> DEFINE h == texts(written)
             k == Put(h, id, CutShort(g[id]))
  <2>1. DOMAIN k = DOMAIN h \cup {id} /\ \A y \in DOMAIN k : k[y] = IF y = id THEN CutShort(g[id]) ELSE h[y]
    BY DEF Put
  <2>2. IsMixOf(h, f, g)
    BY <1>4
  <2> HIDE DEF h, k
  <2>3. IsMixOf(k, f, g)
    BY <2>1, <2>2 DEF IsMixOf
  <2> QED BY <2>3 DEF k, h
<1>7. CASE \E written \in SUBSET DOMAIN g : half = <<texts(written), old.custom>>
  BY <1>4, <1>7 DEF f, g
<1>8. CASE \E id \in DOMAIN g, written \in SUBSET DOMAIN g :
             half = <<Put(texts(written), id, CutShort(g[id])), old.custom>>
  <2>1. PICK id \in DOMAIN g, written \in SUBSET DOMAIN g :
             half = <<Put(texts(written), id, CutShort(g[id])), old.custom>>
    BY <1>8
  <2>2. half[1] = Put(texts(written), id, CutShort(g[id])) /\ half[2] = old.custom
    BY <2>1
  <2> QED BY <1>6, <2>2 DEF f, g
<1>9. CASE \E done : half = <<texts(DOMAIN g), bodies(done)>>
  <2>1. PICK done : half = <<texts(DOMAIN g), bodies(done)>>
    BY <1>9
  <2>2. half[1] = texts(DOMAIN g) /\ half[2] = bodies(done)
    BY <2>1
  <2>3. IsMixOf(texts(DOMAIN g), f, g)
    BY <1>4
  <2> QED BY <2>2, <2>3 DEF f, g
<1>10. CASE \E left \in SUBSET DOMAIN f : half = <<rest(left), new.custom>>
  BY <1>5, <1>10 DEF f, g
<1> QED BY <1>3, <1>7, <1>8, <1>9, <1>10

LEMMA HalfSavedIs ==
  ASSUME NEW n \in Nat, NEW old, NEW new, IsShaped(old, n), IsShaped(new, n),
         NEW files \in HalfSaved(old, new)
  PROVE  IsShaped(files, n) /\ IsMixOf(files.prompts, old.prompts, new.prompts)
<1>1. PICK half \in Halves(old, new) : files = [old EXCEPT !.prompts = half[1], !.custom = half[2]]
  BY Zenon DEF HalfSaved
<1> DEFINE h == half[1]
           f == old.prompts
           g == new.prompts
<1>2. IsMixOf(h, f, g) /\ half[2] \subseteq {"core", "skills", "tools"}
  BY HalfIsMix DEF IsShaped
<1> DEFINE mid == [old EXCEPT !.prompts = h]
<1>3. files = [mid EXCEPT !.custom = half[2]]
  BY <1>1
<1>4. HasTexts(f, n) /\ HasTexts(g, n)
  BY DEF IsShaped
<1> HIDE DEF h, f, g
<1>5. HasTexts(h, n)
  <2>1. IsFiniteSet(DOMAIN h)
    <3>1. IsFiniteSet(DOMAIN f \cup DOMAIN g)
      BY <1>4, FS_Union DEF HasTexts
    <3>2. DOMAIN h \in SUBSET (DOMAIN f \cup DOMAIN g)
      BY <1>2 DEF IsMixOf
    <3> QED BY <3>1, <3>2, FS_Subset
  <2>2. ASSUME NEW id \in DOMAIN h
        PROVE  IsPrompt(id) /\ IsText(h[id], n)
    BY <1>2, <1>4, CutShortIs DEF IsMixOf, HasTexts
  <2> QED BY <2>1, <2>2 DEF HasTexts
<1>6. mid = [entries |-> old.entries, prompts |-> h, skills |-> old.skills, tools |-> old.tools,
             enabled |-> old.enabled, custom |-> old.custom]
  BY DEF IsShaped, IsRecord
<1> HIDE DEF mid
<1>7. files = [entries |-> old.entries, prompts |-> h, skills |-> old.skills, tools |-> old.tools,
               enabled |-> old.enabled, custom |-> half[2]]
  BY <1>3, <1>6
<1>8. IsShaped(files, n) /\ files.prompts = h
  BY <1>2, <1>5, <1>7 DEF IsShaped, IsRecord
<1> QED BY <1>2, <1>8 DEF f, g

LEMMA MixIsOnePlace ==
  ASSUME NEW n \in Nat, NEW f, NEW g, NEW h, HasTexts(f, n), HasTexts(g, n), IsMixOf(h, f, g),
         OnePlace(f, f), OnePlace(g, g), OnePlace(f, g)
  PROVE  OnePlace(h, h) /\ OnePlace(h, g)
<1>1. \A x \in DOMAIN h : \/ h[x].id = 0
                          \/ x \in DOMAIN f /\ h[x].id = f[x].id
                          \/ x \in DOMAIN g /\ h[x].id = g[x].id
  BY CutShortIs DEF IsMixOf, HasTexts
<1> QED BY <1>1 DEF OnePlace

(* A text that is in both is in the half that is saved, or damaged.          *)
LEMMA HalfKeepsText ==
  ASSUME NEW n \in Nat, NEW old, NEW new, IsShaped(old, n), IsShaped(new, n),
         NEW files \in HalfSaved(old, new), OnePlace(old.prompts, new.prompts),
         NEW m \in 1..n, m \in Texts(old), m \in Texts(new)
  PROVE  m \in Texts(files) \/ m \in Damaged(files, old, new)
<1>1. PICK x \in DOMAIN old.prompts : old.prompts[x].id = m
  BY TextsAre
<1>2. PICK y \in DOMAIN new.prompts : new.prompts[y].id = m
  BY TextsAre
<1>3. x = y
  BY <1>1, <1>2 DEF OnePlace
<1>4. IsMixOf(files.prompts, old.prompts, new.prompts)
  BY HalfSavedIs
<1>5. x \in DOMAIN files.prompts
  BY <1>3, <1>4 DEF IsMixOf
<1>6. files.prompts[x].id \in {m, 0}
  <2>1. IsText(new.prompts[x], n)
    BY <1>3 DEF IsShaped, HasTexts
  <2>2. CutShort(new.prompts[x]).id = 0
    BY <2>1, CutShortIs
  <2> QED BY <1>1, <1>2, <1>3, <1>4, <1>5, <2>2 DEF IsMixOf
<1>7. CASE files.prompts[x].id = m
  BY <1>5, <1>7, TextsAre
<1>8. CASE files.prompts[x].id = 0
  <2> DEFINE cut == {z \in DOMAIN files.prompts : files.prompts[z].id = 0}
             lost == {old.prompts[id] : id \in DOMAIN old.prompts \cap cut}
             all == UNION {{f[id] : id \in DOMAIN f \cap cut} : f \in {old.prompts, new.prompts}}
  <2>1. old.prompts[x] \in lost
    BY <1>1, <1>5, <1>8
  <2>2. lost \in {{f[id] : id \in DOMAIN f \cap cut} : f \in {old.prompts, new.prompts}}
    OBVIOUS
  <2> HIDE DEF lost
  <2>3. old.prompts[x] \in all
    BY <2>1, <2>2
  <2>4. Damaged(files, old, new) = {t.id : t \in all}
    BY DEF Damaged
  <2> HIDE DEF all
  <2> QED BY <1>1, <2>3, <2>4
<1> QED BY <1>6, <1>7, <1>8

LEMMA PutIsOnePlace ==
  ASSUME NEW n \in Nat, NEW f, NEW w, HasTexts(f, n), HasTexts(w, n), OnePlace(w, w), OnePlace(f, w),
         NEW id, NEW text, text.id = n + 1
  PROVE  LET new == Put(w, id, text) IN OnePlace(new, new) /\ OnePlace(f, new)
<1> DEFINE new == Put(w, id, text)
<1>1. DOMAIN new = DOMAIN w \cup {id}
      /\ \A y \in DOMAIN new : new[y] = IF y = id THEN text ELSE w[y]
  BY DEF Put
<1>2. (\A x \in DOMAIN w : w[x].id \in 0..n) /\ (\A x \in DOMAIN f : f[x].id \in 0..n)
  BY DEF HasTexts, IsText
<1> HIDE DEF new
<1>3. OnePlace(new, new)
  BY <1>1, <1>2 DEF OnePlace
<1>4. OnePlace(f, new)
  BY <1>1, <1>2 DEF OnePlace
<1> QED BY <1>3, <1>4 DEF new

LEMMA OmitIsOnePlace ==
  ASSUME NEW f, NEW w, OnePlace(w, w), OnePlace(f, w), NEW id
  PROVE  LET new == Omit(w, id) IN OnePlace(new, new) /\ OnePlace(f, new)
<1> DEFINE new == Omit(w, id)
<1>1. DOMAIN new = DOMAIN w \ {id} /\ \A y \in DOMAIN new : new[y] = w[y]
  BY OmitIs
<1> HIDE DEF new
<1>3. OnePlace(new, new) /\ OnePlace(f, new)
  BY <1>1 DEF OnePlace
<1> QED BY <1>3 DEF new

-----------------------------------------------------------------------------
(* What a gesture does to the texts                                          *)

Shaped(p) ==
  /\ IsShaped(projectFiles[p], tally.texts) /\ AreShaped(shown[p], tally.texts)
  /\ \A st \in event[p] : AreShaped(st, tally.texts)
  /\ \A s \in editSession[p] : AreShaped(s.work, tally.texts) /\ AreShaped(s.base, tally.texts)
  /\ owedTexts[p] \subseteq Scopes \X (1..tally.texts)
  /\ excuse[p] \subseteq {"others", "failed", "dropped"}

(* Records are well formed, and the texts in them have been written.         *)
AllShaped ==
  /\ tally = [edits |-> tally.edits, failures |-> tally.failures, texts |-> tally.texts]
  /\ tally.edits \in 0..MaxEdits /\ tally.failures \in 0..MaxFailedSaves /\ tally.texts \in Nat
  /\ IsShaped(globalStore, tally.texts)
  /\ DOMAIN owedTexts = processes /\ DOMAIN torn = processes
  /\ \A p \in processes : Shaped(p)

GestureKeeps(p, work) ==
  /\ KeepsTexts(Work(p), work, tally.texts)
  /\ UNCHANGED owedTexts
  /\ tally' = [tally EXCEPT !.edits = @ + 1]

GestureWrites(p, work, scope, id, text) ==
  /\ SetsTexts(Work(p), work, tally.texts + 1, scope, Put(Work(p)[scope].prompts, id, text))
  /\ text.id = tally.texts + 1
  /\ owedTexts' = [owedTexts EXCEPT ![p] =
       (@ \ TextOf(Work(p), scope, id)) \cup {<<scope, tally.texts + 1>>}]
  /\ tally' = [tally EXCEPT !.edits = @ + 1, !.texts = @ + 1]

GestureDeletes(p, work, scope, id) ==
  /\ SetsTexts(Work(p), work, tally.texts, scope, Omit(Work(p)[scope].prompts, id))
  /\ owedTexts' = [owedTexts EXCEPT ![p] = @ \ TextOf(Work(p), scope, id)]
  /\ tally' = [tally EXCEPT !.edits = @ + 1]

GestureIs(p, work) ==
  \/ GestureKeeps(p, work)
  \/ \E scope \in Scopes : \E id, text : GestureWrites(p, work, scope, id, text)
  \/ \E scope \in Scopes : \E id : GestureDeletes(p, work, scope, id)

LEMMA WorkIsShaped ==
  ASSUME PromptHeld, AllShaped, NEW p \in processes, editSession[p] # {}
  PROVE  /\ \E s \in editSession[p] : Work(p) = s.work /\ Base(p) = s.base
         /\ AreShaped(Work(p), tally.texts) /\ AreShaped(Base(p), tally.texts)
BY SessionIsThere DEF AllShaped, Shaped

LEMMA GestureIsOne ==
  ASSUME PromptHeld, AllShaped, NEW p \in processes, overlay[p], GestureNext(p)
  PROVE  \E family, work, scopes : Apply(p, family, work, scopes) /\ GestureIs(p, work)
<1> DEFINE n == tally.texts
           w == Work(p)
<1>1. AreShaped(w, n) /\ n \in Nat
  BY WorkIsShaped DEF PromptHeld, Held, AllShaped
<1>2. AreShaped(w, n + 1) /\ n + 1 \in Nat
  BY <1>1, ShapedStays
<1>3. IsRecords(shown[p]) /\ IsRecords(Effective(shown[p]))
  BY EffectiveIsRecords DEF PromptHeld, Held
<1>4. ASSUME NEW row \in ScreenRows(p) PROVE row.scope \in Scopes
  BY <1>3, RowIsOfScope DEF ScreenRows
<1>5. "project" \in Scopes /\ "global" \in Scopes
  BY DEF Scopes
<1> DEFINE skillScope == SkillScope(Effective(shown[p]))
           toolScope == ToolScope(Effective(shown[p]))
           owner == PartScope(Work(p), "tools", toolScope)
<1>6. skillScope \in Scopes /\ toolScope \in Scopes
  BY <1>5, PartScopeIsScope DEF SkillScope, ToolScope
<1>7. owner \in Scopes
  BY <1>6, PartScopeIsScope
<1>8. \A family, work, scopes :
        Gesture(p, family, work, scopes) /\ KeepsTexts(w, work, n)
          => Apply(p, family, work, scopes) /\ GestureIs(p, work)
  BY DEF Gesture, GestureIs, GestureKeeps
<1>9. Names["skills"] = Skills /\ Names["tools"] = Tools
  BY DEF Names
<1> HIDE DEF skillScope, toolScope, owner
<1>10. CASE \E row \in ScreenRows(p) : ToggleRow(p, row)
  <2>1. PICK row \in ScreenRows(p) : ToggleRow(p, row)
    BY <1>10
  <2>2. KeepsTexts(w, Toggled(p, row), n)
    BY <1>1, <1>4, SetEnabledKeeps DEF Toggled
  <2>3. \E scopes : Gesture(p, "toggle", Toggled(p, row), scopes)
    BY <2>1 DEF ToggleRow
  <2> QED BY <1>8, <2>2, <2>3
<1>11. CASE \E row \in ScreenRows(p), step \in {-1, 1} : MoveRow(p, row, step)
  <2>1. PICK row \in ScreenRows(p), step \in {-1, 1} : MoveRow(p, row, step)
    BY <1>11
  <2>2. KeepsTexts(w, MoveActiveSource(Work(p), row, step), n)
    BY <1>1, <1>4, MoveKeepsTexts
  <2>3. Gesture(p, "move", MoveActiveSource(Work(p), row, step), Scopes)
    BY <2>1 DEF MoveRow
  <2> QED BY <1>8, <2>2, <2>3
<1>12. CASE \E row \in ScreenRows(p) : RemoveRow(p, row)
  <2>1. PICK row \in ScreenRows(p) : RemoveRow(p, row)
    BY <1>12
  <2>2. KeepsTexts(w, RemoveEntry(Work(p), row.scope, row.id), n)
    BY <1>1, <1>4, RemoveEntryKeeps
  <2>3. Gesture(p, "prompts", RemoveEntry(Work(p), row.scope, row.id), {row.scope})
    BY <2>1 DEF RemoveRow
  <2> QED BY <1>8, <2>2, <2>3
<1>13. CASE \E scope \in Scopes : Create(p, scope)
  <2>1. PICK scope \in Scopes : Create(p, scope)
    BY <1>13
  <2> DEFINE title == NextDefaultTitle(Effective(shown[p])[scope])
             text == NewText(title)
             work == CreatePrompt(w, scope, text)
  <2>2. title \in Int
    BY NextTitleIsTitle
  <2>3. text = [id |-> n + 1, title |-> title]
    BY DEF NewText
  <2>4. WriteText(p, work, scope, {})
    BY <2>1 DEF Create
  <2> HIDE DEF title, text
  <2>5. IsText(text, n + 1) /\ text.title \in Int /\ text.id = n + 1
    BY <1>2, <2>2, <2>3 DEF IsText
  <2>6. PICK id : /\ id \notin DOMAIN w[scope].prompts
                  /\ SetsTexts(w, work, n + 1, scope, Put(w[scope].prompts, id, text))
    BY <1>2, <2>5, CreatePromptSets
  <2> HIDE DEF work
  <2>7. TextOf(w, scope, id) = {}
    BY <2>6 DEF TextOf
  <2>8. owedTexts' = [owedTexts EXCEPT ![p] =
          (@ \ TextOf(Work(p), scope, id)) \cup {<<scope, tally.texts + 1>>}]
    BY <2>4, <2>7 DEF WriteText
  <2>9. GestureWrites(p, work, scope, id, text)
    BY <2>4, <2>5, <2>6, <2>8 DEF WriteText, GestureWrites
  <2> QED BY <2>4, <2>9 DEF WriteText, GestureIs
<1>14. CASE \E scope \in Scopes : \E id \in DOMAIN shown[p][scope].prompts
                                   \cup DOMAIN shown[p][scope].entries : Edit(p, scope, id)
  <2>1. PICK scope \in Scopes : \E id \in DOMAIN shown[p][scope].prompts
                                   \cup DOMAIN shown[p][scope].entries : Edit(p, scope, id)
    BY <1>14
  <2>2. PICK id : Edit(p, scope, id)
    BY <2>1
  <2> DEFINE text == NewText(ReviewTitle)
             work == EditPrompt(w, scope, id, text)
  <2>3. text = [id |-> n + 1, title |-> ReviewTitle]
    BY DEF NewText
  <2>4. WriteText(p, work, scope, TextOf(Work(p), scope, id)) /\ IsPrompt(id)
    BY <2>2 DEF Edit
  <2> HIDE DEF text
  <2>5. IsText(text, n + 1) /\ text.id = n + 1
    BY <1>2, <2>3 DEF IsText
  <2>6. SetsTexts(w, work, n + 1, scope, Put(w[scope].prompts, id, text))
    BY <1>2, <2>4, <2>5, EditPromptSets
  <2> HIDE DEF work
  <2>9. GestureWrites(p, work, scope, id, text)
    BY <2>4, <2>5, <2>6 DEF WriteText, GestureWrites
  <2> QED BY <2>4, <2>9 DEF WriteText, GestureIs
<1>15. CASE \E scope \in Scopes : \E id \in DOMAIN shown[p][scope].prompts : PickPrompt(p, scope, id)
  <2>10. PICK scope \in Scopes : \E id \in DOMAIN shown[p][scope].prompts : PickPrompt(p, scope, id)
    BY <1>15
  <2>1. PICK id : PickPrompt(p, scope, id)
    BY <2>10
  <2>2. KeepsTexts(w, RemoveEntry(Work(p), scope, id), n)
    BY <1>1, RemoveEntryKeeps
  <2>3. KeepsTexts(w, SelectPrompt(Work(p), scope, id), n)
    BY <1>1, SelectPromptKeeps
  <2>4. \/ Gesture(p, "prompts", RemoveEntry(Work(p), scope, id), {scope})
        \/ Gesture(p, "prompts", SelectPrompt(Work(p), scope, id), {scope})
    BY <2>1 DEF PickPrompt
  <2> QED BY <1>8, <2>2, <2>3, <2>4
<1>16. CASE \E scope \in Scopes : \E id \in DOMAIN shown[p][scope].prompts : Delete(p, scope, id)
  <2>10. PICK scope \in Scopes : \E id \in DOMAIN shown[p][scope].prompts : Delete(p, scope, id)
    BY <1>16
  <2>1. PICK id : Delete(p, scope, id)
    BY <2>10
  <2> DEFINE work == DeletePrompt(Work(p), scope, id)
  <2>2. SetsTexts(w, work, n, scope, Omit(w[scope].prompts, id))
    BY <1>1, DeletePromptSets
  <2>3. Apply(p, "prompts", work, {scope})
    BY <2>1 DEF Delete
  <2> HIDE DEF work
  <2>4. GestureDeletes(p, work, scope, id)
    BY <2>1, <2>2 DEF Delete, GestureDeletes
  <2> QED BY <2>3, <2>4 DEF GestureIs
<1>17. CASE \E name \in ToSet(Skills) : Tick(p, name)
  <2>1. \E name \in ToSet(Skills) : \E on :
          Gesture(p, "skills", SetSelected(Work(p), skillScope, "skills", name, on), {skillScope})
    BY <1>17 DEF Tick, skillScope
  <2>2. \A name \in ToSet(Skills) : \A on :
          KeepsTexts(w, SetSelected(Work(p), skillScope, "skills", name, on), n)
    BY <1>1, <1>6, <1>9, ListOpsKeep
  <2> QED BY <1>8, <2>1, <2>2
<1>18. CASE \E name \in ToSet(Skills), step \in {-1, 1} : MoveSkill(p, name, step)
  <2>1. \E name \in ToSet(Skills) : \E step :
          Gesture(p, "skills", MoveListed(Work(p), skillScope, "skills", name, step), {skillScope})
    BY <1>18 DEF MoveSkill, skillScope
  <2>2. \A name \in ToSet(Skills) : \A step :
          KeepsTexts(w, MoveListed(Work(p), skillScope, "skills", name, step), n)
    BY <1>1, <1>6, <1>9, ListOpsKeep
  <2> QED BY <1>8, <2>1, <2>2
<1>19. CASE ResetSkills(p)
  <2>1. Gesture(p, "skills", ResetSkillOrder(Work(p), skillScope), {skillScope})
    BY <1>19 DEF ResetSkills, skillScope
  <2>2. KeepsTexts(w, ResetSkillOrder(Work(p), skillScope), n)
    BY <1>1, <1>6, ResetKeeps
  <2> QED BY <1>8, <2>1, <2>2
<1>20. CASE \E name \in ToSet(Tools) : Guide(p, name)
  <2>1. \E name \in ToSet(Tools) : \E on :
          Gesture(p, "tools", SetSelected(Work(p), owner, "tools", name, on), {owner})
    BY <1>20 DEF Guide, owner, toolScope
  <2>2. \A name \in ToSet(Tools) : \A on :
          KeepsTexts(w, SetSelected(Work(p), owner, "tools", name, on), n)
    BY <1>1, <1>7, <1>9, ListOpsKeep
  <2> QED BY <1>8, <2>1, <2>2
<1>21. CASE \E name \in ToSet(Tools), step \in {-1, 1} : MoveTool(p, name, step)
  <2>1. \E name \in ToSet(Tools) : \E step :
          Gesture(p, "tools", MoveListed(Work(p), owner, "tools", name, step), {owner})
    BY <1>21 DEF MoveTool, owner, toolScope
  <2>2. \A name \in ToSet(Tools) : \A step :
          KeepsTexts(w, MoveListed(Work(p), owner, "tools", name, step), n)
    BY <1>1, <1>7, <1>9, ListOpsKeep
  <2> QED BY <1>8, <2>1, <2>2
<1>22. CASE \E name \in ToSet(Tools) : SwitchTool(p, name)
  <2>1. \E name \in ToSet(Tools) : \E on, scopes :
          Gesture(p, "tools", SetToolEnabled(Work(p), toolScope, name, on), scopes)
    BY <1>22 DEF SwitchTool, toolScope
  <2>2. \A name \in ToSet(Tools) : \A on :
          KeepsTexts(w, SetToolEnabled(Work(p), toolScope, name, on), n)
    BY <1>1, <1>6, SetToolEnabledKeeps
  <2> QED BY <1>8, <2>1, <2>2
<1>23. CASE \E row \in ScreenRows(p) : OverrideBody(p, row)
  <2>1. PICK row \in ScreenRows(p) : OverrideBody(p, row)
    BY <1>23
  <2>2. row.id \in {SkillsId, ToolsId}
        /\ Gesture(p, "bodies", OverridePart(Work(p), row.scope, row.id[1]), Aim(p, row))
    BY <2>1 DEF OverrideBody
  <2>3. row.id[1] \in {"skills", "tools"} /\ row.scope \in Scopes
    BY <1>4, <2>2, Ids
  <2>4. KeepsTexts(w, OverridePart(Work(p), row.scope, row.id[1]), n)
    BY <1>1, <2>3, OverridePartKeeps
  <2> QED BY <1>8, <2>2, <2>4
<1>24. CASE OverrideCore(p)
  <2>1. KeepsTexts(w, SetOverride(Work(p), "project", "core"), n)
    BY <1>1, <1>5, SetOverrideKeeps
  <2> QED BY <1>8, <1>24, <2>1 DEF OverrideCore
<1>25. CASE RestoreCore(p)
  <2> DEFINE less == Work(p)["project"].custom \ {"core"}
  <2>1. Gesture(p, "bodies", [Work(p) EXCEPT !["project"].custom = less], {"project"})
    BY <1>25 DEF RestoreCore
  <2>2. less \subseteq {"core", "skills", "tools"}
    BY <1>1, <1>5, ShapedScope DEF IsShaped
  <2> HIDE DEF less
  <2>3. KeepsTexts(w, [Work(p) EXCEPT !["project"].custom = less], n)
    BY <1>1, <1>5, <2>2, CustomKeeps
  <2> QED BY <1>8, <2>1, <2>3
<1> QED BY <1>10, <1>11, <1>12, <1>13, <1>14, <1>15, <1>16, <1>17, <1>18, <1>19, <1>20,
           <1>21, <1>22, <1>23, <1>24, <1>25 DEF GestureNext

-----------------------------------------------------------------------------
(* The records stay well formed                                              *)

LEMMA ShapedSaved ==
  ASSUME AllShaped, NEW p \in processes
  PROVE  AreShaped(Saved(p), tally.texts)
BY DEF AllShaped, Shaped, Saved, AreShaped

LEMMA PromptInitShaped ==
  ASSUME PromptInit PROVE AllShaped
<1>1. tally.texts = 0 /\ tally.edits = 0 /\ tally.failures = 0
  BY DEF PromptInit
<1>2. \A p \in processes : Saved(p) = [global |-> EmptyScope, project |-> EmptyScope]
  BY DEF PromptInit, Saved
<1>3. \A p \in processes : AreShaped(Saved(p), 0)
  BY <1>2, EmptyIsShaped DEF AreShaped
<1>4. \A p \in processes : Shaped(p)
  BY <1>1, <1>3, EmptyIsShaped DEF PromptInit, Shaped
<1> QED BY <1>1, <1>4, EmptyIsShaped, PromptAssumption DEF PromptInit, AllShaped

(* What a step leaves alone of a process is as well formed as it was.        *)
LEMMA OtherShaped ==
  ASSUME AllShaped, NEW q \in processes,
         tally'.texts \in Nat, tally.texts =< tally'.texts,
         projectFiles'[q] = projectFiles[q], shown'[q] = shown[q], event'[q] = event[q],
         editSession'[q] = editSession[q], owedTexts'[q] \subseteq owedTexts[q],
         excuse'[q] \subseteq excuse[q] \cup {"others"}
  PROVE  Shaped(q)'
<1> DEFINE n == tally.texts
           m == tally.texts'
<1>1. n \in Nat /\ m \in Nat /\ n =< m
  BY DEF AllShaped
<1>2. Shaped(q)
  BY DEF AllShaped
<1>3. IsShaped(projectFiles'[q], m) /\ AreShaped(shown'[q], m)
  BY <1>1, <1>2, ShapedStays DEF Shaped
<1>4. \A st \in event'[q] : AreShaped(st, m)
  BY <1>1, <1>2, ShapedStays DEF Shaped
<1>5. \A s \in editSession'[q] : AreShaped(s.work, m) /\ AreShaped(s.base, m)
  BY <1>1, <1>2, ShapedStays DEF Shaped
<1>6. owedTexts'[q] \subseteq Scopes \X (1..m)
  BY <1>1, <1>2 DEF Shaped
<1>7. excuse'[q] \subseteq {"others", "failed", "dropped"}
  BY <1>2 DEF Shaped
<1> HIDE DEF n, m
<1> QED BY <1>3, <1>4, <1>5, <1>6, <1>7 DEF Shaped, m

LEMMA GestureShaped ==
  ASSUME PromptHeld, AllShaped, NEW p \in processes, UNCHANGED processes,
         NEW family, NEW work, NEW scopes, Apply(p, family, work, scopes), GestureIs(p, work)
  PROVE  AllShaped' /\ AreShaped(work, tally'.texts)
<1> DEFINE n == tally.texts
           m == tally.texts'
<1>0. n \in Nat /\ tally = [edits |-> tally.edits, failures |-> tally.failures, texts |-> n]
      /\ tally.edits \in Nat
  BY DEF AllShaped
<1>1. /\ tally' = [edits |-> tally.edits + 1, failures |-> tally.failures, texts |-> m]
      /\ m \in {n, n + 1} /\ m \in Nat /\ n =< m
      /\ AreShaped(work, m)
  <2>1. CASE GestureKeeps(p, work)
    <3>1. tally' = [edits |-> tally.edits + 1, failures |-> tally.failures, texts |-> n]
      BY <1>0, <2>1 DEF GestureKeeps
    <3> QED BY <1>0, <2>1, <3>1 DEF GestureKeeps, KeepsTexts
  <2>2. CASE \E scope \in Scopes : \E id, text : GestureWrites(p, work, scope, id, text)
    <3>0. PICK scope \in Scopes : \E id, text : GestureWrites(p, work, scope, id, text)
      BY <2>2
    <3>5. PICK id, text : GestureWrites(p, work, scope, id, text)
      BY <3>0
    <3> DEFINE one == [tally EXCEPT !.edits = @ + 1]
    <3>1. tally' = [one EXCEPT !.texts = @ + 1]
      BY <3>5 DEF GestureWrites
    <3>2. one = [edits |-> tally.edits + 1, failures |-> tally.failures, texts |-> n]
      BY <1>0
    <3> HIDE DEF one
    <3>3. tally' = [edits |-> tally.edits + 1, failures |-> tally.failures, texts |-> n + 1]
      BY <3>1, <3>2
    <3>4. AreShaped(work, n + 1)
      BY <3>5 DEF GestureWrites, SetsTexts
    <3> QED BY <1>0, <3>3, <3>4
  <2>3. CASE \E scope \in Scopes : \E id : GestureDeletes(p, work, scope, id)
    <3>1. tally' = [edits |-> tally.edits + 1, failures |-> tally.failures, texts |-> n]
      BY <1>0, <2>3 DEF GestureDeletes
    <3>2. AreShaped(work, n)
      BY <2>3 DEF GestureDeletes, SetsTexts
    <3> QED BY <1>0, <3>1, <3>2
  <2> QED BY <2>1, <2>2, <2>3 DEF GestureIs
<1>2. \A s : IsShaped(s, n) => IsShaped(s, m)
  BY <1>0, <1>1, ShapedStays
<1>3. \A st : AreShaped(st, n) => AreShaped(st, m)
  BY <1>0, <1>1, ShapedStays
<1>4. editSession[p] # {}
  BY DEF PromptHeld, Held, Apply
<1>5. AreShaped(Base(p), n)
  BY <1>4, WorkIsShaped
<1>6. DOMAIN owedTexts' = DOMAIN owedTexts
      /\ \A q \in processes \ {p} : owedTexts'[q] = owedTexts[q]
  BY DEF AllShaped, GestureIs, GestureKeeps, GestureWrites, GestureDeletes
<1>7. owedTexts'[p] \subseteq Scopes \X (1..m)
  <2>1. owedTexts[p] \subseteq Scopes \X (1..n)
    BY DEF AllShaped, Shaped
  <2>2. CASE owedTexts'[p] \subseteq owedTexts[p]
    BY <1>0, <1>1, <2>1, <2>2
  <2>3. CASE \E scope \in Scopes : m = n + 1 /\ owedTexts'[p] \subseteq owedTexts[p] \cup {<<scope, n + 1>>}
    BY <1>0, <2>1, <2>3
  <2>4. DOMAIN owedTexts = processes
    BY DEF AllShaped
  <2>5. GestureKeeps(p, work) => owedTexts'[p] = owedTexts[p]
    BY DEF GestureKeeps
  <2>6. ASSUME NEW scope \in Scopes, NEW id, GestureDeletes(p, work, scope, id)
        PROVE  owedTexts'[p] \subseteq owedTexts[p]
    BY <2>4, <2>6 DEF GestureDeletes
  <2>7. ASSUME NEW scope \in Scopes, NEW id, NEW text, GestureWrites(p, work, scope, id, text)
        PROVE  m = n + 1 /\ owedTexts'[p] \subseteq owedTexts[p] \cup {<<scope, n + 1>>}
    <3>1. owedTexts'[p] \subseteq owedTexts[p] \cup {<<scope, n + 1>>}
      BY <2>4, <2>7 DEF GestureWrites
    <3> DEFINE one == [tally EXCEPT !.edits = @ + 1]
    <3>2. tally' = [one EXCEPT !.texts = @ + 1]
      BY <2>7 DEF GestureWrites
    <3>3. one = [edits |-> tally.edits + 1, failures |-> tally.failures, texts |-> n]
      BY <1>0
    <3> HIDE DEF one
    <3>4. tally' = [edits |-> tally.edits + 1, failures |-> tally.failures, texts |-> n + 1]
      BY <3>2, <3>3
    <3> QED BY <3>1, <3>4
  <2> QED BY <2>2, <2>3, <2>5, <2>6, <2>7 DEF GestureIs
<1>8. Shaped(p)'
  <2>1. editSession'[p] = {[work |-> work, base |-> Base(p)]} /\ shown'[p] = work
    BY DEF PromptHeld, PromptDomains, Apply
  <2>2. \A s \in editSession'[p] : s.work = work /\ s.base = Base(p)
    BY <2>1
  <2>3. \A s \in editSession'[p] : AreShaped(s.work, m) /\ AreShaped(s.base, m)
    BY <1>1, <1>3, <1>5, <2>2
  <2>4. projectFiles' = projectFiles /\ event' = event /\ excuse' = excuse
    BY DEF Apply, surroundings
  <2>5. Shaped(p)
    BY DEF AllShaped
  <2>6. IsShaped(projectFiles'[p], m) /\ \A st \in event'[p] : AreShaped(st, m)
    BY <1>2, <1>3, <2>4, <2>5 DEF Shaped
  <2>7. excuse'[p] \subseteq {"others", "failed", "dropped"}
    BY <2>4, <2>5 DEF Shaped
  <2> HIDE DEF n
  <2> QED BY <1>1, <1>7, <2>1, <2>3, <2>6, <2>7 DEF Shaped
<1>9. ASSUME NEW q \in processes, q # p PROVE Shaped(q)'
  <2>1. /\ projectFiles'[q] = projectFiles[q] /\ shown'[q] = shown[q] /\ event'[q] = event[q]
        /\ editSession'[q] = editSession[q] /\ excuse'[q] = excuse[q]
    BY <1>9 DEF PromptHeld, PromptDomains, Apply, surroundings
  <2> QED BY <1>1, <1>6, <1>9, <2>1, OtherShaped
<1>10. tally.edits < MaxEdits /\ globalStore' = globalStore /\ torn' = torn
  BY DEF Apply, surroundings
<1>11. tally.edits + 1 \in 0..MaxEdits
  BY <1>10, PromptAssumption DEF AllShaped
<1>12. IsShaped(globalStore', m)
  BY <1>2, <1>10 DEF AllShaped
<1>13. AllShaped'
  <2>1. tally'.edits = tally.edits + 1 /\ tally'.failures = tally.failures /\ tally'.texts = m
    BY <1>1
  <2>2. tally' = [edits |-> tally'.edits, failures |-> tally'.failures, texts |-> tally'.texts]
    BY <1>1, <2>1
  <2>3. tally'.failures \in 0..MaxFailedSaves
    BY <2>1 DEF AllShaped
  <2>4. DOMAIN owedTexts' = processes' /\ DOMAIN torn' = processes'
    BY <1>6, <1>10 DEF AllShaped
  <2>5. \A q \in processes' : Shaped(q)'
    BY <1>8, <1>9
  <2> HIDE DEF n
  <2> QED BY <1>1, <1>11, <1>12, <2>1, <2>2, <2>3, <2>4, <2>5 DEF AllShaped
<1> QED BY <1>1, <1>13

LEMMA SaveGlobalShaped ==
  ASSUME PromptHeld, AllShaped, NEW p \in processes, overlay[p], SaveGlobal(p)
  PROVE  IsShaped(globalStore', tally.texts)
<1>1. AreShaped(Work(p), tally.texts)
  BY WorkIsShaped DEF PromptHeld, Held
<1> QED BY <1>1 DEF AreShaped, AllShaped, SaveGlobal

LEMMA SaveHalfIs ==
  ASSUME PromptHeld, AllShaped, NEW p \in processes, overlay[p], SaveHalf(p)
  PROVE  /\ IsShaped(projectFiles'[p], tally.texts)
         /\ projectFiles'[p] \in HalfSaved(projectFiles[p], Work(p).project)
         /\ torn'[p] = torn[p] \cup Damaged(projectFiles'[p], projectFiles[p], Work(p).project)
         /\ \A q \in processes \ {p} : projectFiles'[q] = projectFiles[q] /\ torn'[q] = torn[q]
         /\ DOMAIN torn' = processes
<1>1. PICK files \in HalfSaved(projectFiles[p], Work(p).project) :
        /\ projectFiles' = [projectFiles EXCEPT ![p] = files]
        /\ torn' = [torn EXCEPT ![p] = @ \cup Damaged(files, projectFiles[p], Work(p).project)]
  BY DEF SaveHalf
<1>2. IsShaped(Work(p).project, tally.texts)
  BY WorkIsShaped DEF PromptHeld, Held, AreShaped
<1>3. IsShaped(files, tally.texts)
  BY <1>2, HalfSavedIs DEF AllShaped, Shaped
<1> QED BY <1>1, <1>3 DEF PromptHeld, PromptDomains, AllShaped

LEMMA CountFailureIs ==
  ASSUME AllShaped, SaveMayFail, CountFailure
  PROVE  /\ tally' = [edits |-> tally'.edits, failures |-> tally'.failures, texts |-> tally'.texts]
         /\ tally'.edits \in 0..MaxEdits /\ tally'.failures \in 0..MaxFailedSaves
         /\ tally'.texts = tally.texts
<1>1. tally' = [edits |-> tally.edits, failures |-> tally.failures + 1, texts |-> tally.texts]
  BY DEF CountFailure, AllShaped
<1>2. tally.failures + 1 \in 0..MaxFailedSaves
  BY PromptAssumption DEF SaveMayFail, AllShaped
<1> QED BY <1>1, <1>2 DEF AllShaped

(* A step that leaves the tally of texts, and the others but their excuse.   *)
LEMMA StoredShaped ==
  ASSUME AllShaped, NEW p \in processes, UNCHANGED processes, Shaped(p)',
         tally' = [edits |-> tally'.edits, failures |-> tally'.failures, texts |-> tally'.texts],
         tally'.edits \in 0..MaxEdits, tally'.failures \in 0..MaxFailedSaves,
         tally'.texts = tally.texts, IsShaped(globalStore', tally.texts),
         DOMAIN owedTexts' = processes, DOMAIN torn' = processes,
         \A q \in processes \ {p} :
           /\ projectFiles'[q] = projectFiles[q] /\ shown'[q] = shown[q] /\ event'[q] = event[q]
           /\ editSession'[q] = editSession[q] /\ owedTexts'[q] \subseteq owedTexts[q]
           /\ excuse'[q] \subseteq excuse[q] \cup {"others"}
  PROVE  AllShaped'
<1>1. ASSUME NEW q \in processes, q # p PROVE Shaped(q)'
  <2>1. tally.texts \in Nat
    BY DEF AllShaped
  <2> QED BY <1>1, <2>1, OtherShaped
<1>2. \A q \in processes' : Shaped(q)'
  BY <1>1
<1> QED BY <1>2 DEF AllShaped

LEMMA OthersFilterIs ==
  ASSUME AllShaped, PromptHeld, NEW p \in processes
  PROVE  /\ OverwriteOthers(p) => /\ DOMAIN owedTexts' = processes /\ owedTexts'[p] = owedTexts[p]
                                  /\ \A q \in processes : owedTexts'[q] \subseteq owedTexts[q]
         /\ \A mine : ExcuseOthers(p, mine) =>
              /\ excuse'[p] = mine
              /\ \A q \in processes \ {p} : excuse'[q] \subseteq excuse[q] \cup {"others"}
BY DEF OverwriteOthers, ExcuseOthers

LEMMA RestartShaped ==
  ASSUME PromptHeld, AllShaped, NEW p \in processes, UNCHANGED processes, Restart(p),
         IsShaped(globalStore', tally.texts), IsShaped(projectFiles'[p], tally.texts),
         tally'.texts = tally.texts, owedTexts'[p] \subseteq owedTexts[p], excuse'[p] = {}
  PROVE  Shaped(p)'
<1>1. editSession'[p] = {} /\ event'[p] = {} /\ shown'[p] = Saved(p)'
  BY DEF PromptHeld, PromptDomains, Restart
<1>2. AreShaped(Saved(p)', tally.texts)
  BY DEF AreShaped, Saved
<1>3. owedTexts[p] \subseteq Scopes \X (1..tally.texts)
  BY DEF AllShaped, Shaped
<1> QED BY <1>1, <1>2, <1>3 DEF Shaped

LEMMA StepShaped ==
  ASSUME PromptHeld, AllShaped, NEW p \in processes, UNCHANGED processes, PromptStep(p)
  PROVE  AllShaped'
<1>0. /\ tally = [edits |-> tally.edits, failures |-> tally.failures, texts |-> tally.texts]
      /\ tally.edits \in 0..MaxEdits /\ tally.failures \in 0..MaxFailedSaves
      /\ IsShaped(globalStore, tally.texts) /\ DOMAIN owedTexts = processes /\ DOMAIN torn = processes
      /\ Shaped(p)
  BY DEF AllShaped
<1>1. CASE Open(p)
  <2>1. AreShaped(Saved(p), tally.texts)
    BY ShapedSaved
  <2>2. Shaped(p)'
    <3>1. CASE editSession[p] = {}
      <4>1. editSession'[p] = {[work |-> Saved(p), base |-> Saved(p)]} /\ shown'[p] = Saved(p)
        BY <1>1, <3>1 DEF Open, PromptHeld, PromptDomains
      <4>2. \A s \in editSession'[p] : s.work = Saved(p) /\ s.base = Saved(p)
        BY <4>1
      <4> QED BY <1>0, <1>1, <2>1, <4>1, <4>2 DEF Shaped, Open, surroundings
    <3>2. CASE editSession[p] # {}
      <4>1. editSession'[p] = editSession[p] /\ shown'[p] = Work(p)
        BY <1>1, <3>2 DEF Open, PromptHeld, PromptDomains
      <4>2. AreShaped(Work(p), tally.texts)
        BY <3>2, WorkIsShaped
      <4> QED BY <1>0, <1>1, <4>1, <4>2 DEF Shaped, Open, surroundings
    <3> QED BY <3>1, <3>2
  <2>3. \A q \in processes \ {p} : editSession'[q] = editSession[q] /\ shown'[q] = shown[q]
    BY <1>1 DEF Open, PromptHeld, PromptDomains
  <2>4. UNCHANGED <<tally, globalStore, projectFiles, event, owedTexts, torn, excuse>>
    BY <1>1 DEF Open, surroundings
  <2> QED BY <1>0, <2>2, <2>3, <2>4, StoredShaped
<1>2. CASE ApplyEvent(p)
  <2>1. event'[p] = {} /\ shown'[p] \in event[p]
    BY <1>2 DEF ApplyEvent, PromptHeld, PromptDomains
  <2>2. \A q \in processes \ {p} : event'[q] = event[q] /\ shown'[q] = shown[q]
    BY <1>2 DEF ApplyEvent, PromptHeld, PromptDomains
  <2>3. UNCHANGED <<tally, globalStore, projectFiles, editSession, owedTexts, torn, excuse>>
    BY <1>2 DEF ApplyEvent
  <2>4. Shaped(p)'
    BY <1>0, <2>1, <2>3 DEF Shaped
  <2> QED BY <1>0, <2>2, <2>3, <2>4, StoredShaped
<1>3. CASE SendFirstTurn(p)
  <2>3. UNCHANGED <<tally, globalStore, projectFiles, editSession, shown, event, owedTexts, torn, excuse>>
    BY <1>3 DEF SendFirstTurn
  <2>4. Shaped(p)'
    BY <1>0, <2>3 DEF Shaped
  <2> QED BY <1>0, <2>3, <2>4, StoredShaped
<1>4. CASE ResetConversation(p)
  <2>1. /\ event'[p] = {} /\ editSession'[p] = {} /\ owedTexts'[p] \subseteq owedTexts[p]
        /\ excuse'[p] \subseteq excuse[p] \cup {"dropped"} /\ DOMAIN owedTexts' = processes
    BY <1>0, <1>4 DEF ResetConversation, PromptHeld, PromptDomains
  <2>2. \A q \in processes \ {p} : /\ event'[q] = event[q] /\ editSession'[q] = editSession[q]
                                   /\ owedTexts'[q] = owedTexts[q] /\ excuse'[q] = excuse[q]
    BY <1>0, <1>4 DEF ResetConversation, PromptHeld, PromptDomains
  <2>3. UNCHANGED <<tally, globalStore, projectFiles, shown, torn>>
    BY <1>4 DEF ResetConversation
  <2>4. Shaped(p)'
    BY <1>0, <2>1, <2>3 DEF Shaped
  <2> QED BY <1>0, <2>1, <2>2, <2>3, <2>4, StoredShaped
<1>5. CASE Quit(p)
  <2>1. /\ Restart(p) /\ UNCHANGED <<globalStore, projectFiles, tally, torn>>
        /\ owedTexts'[p] \subseteq owedTexts[p] /\ DOMAIN owedTexts' = processes /\ excuse'[p] = {}
    BY <1>0, <1>5 DEF Quit, PromptHeld, PromptDomains
  <2>2. \A q \in processes \ {p} : /\ event'[q] = event[q] /\ editSession'[q] = editSession[q]
                                   /\ owedTexts'[q] = owedTexts[q] /\ excuse'[q] = excuse[q]
                                   /\ shown'[q] = shown[q]
    BY <1>0, <1>5 DEF Quit, Restart, PromptHeld, PromptDomains
  <2>4. Shaped(p)'
    BY <1>0, <2>1, RestartShaped DEF Shaped
  <2> QED BY <1>0, <2>1, <2>2, <2>4, StoredShaped
<1>6. CASE overlay[p] /\ tally.edits < MaxEdits /\ GestureNext(p)
  BY <1>6, GestureIsOne, GestureShaped
<1>7. CASE CommitClean(p)
  <2>1. editSession'[p] = {}
    BY <1>7 DEF CommitClean, PromptHeld, PromptDomains
  <2>2. \A q \in processes \ {p} : editSession'[q] = editSession[q]
    BY <1>7 DEF CommitClean, PromptHeld, PromptDomains
  <2>3. UNCHANGED <<tally, globalStore, projectFiles, shown, event, owedTexts, torn, excuse>>
    BY <1>7 DEF CommitClean, surroundings
  <2>4. Shaped(p)'
    BY <1>0, <2>1, <2>3 DEF Shaped
  <2> QED BY <1>0, <2>2, <2>3, <2>4, StoredShaped
<1>8. CASE Commit(p)
  <2> DEFINE mine == (IF GlobalChanged(p) THEN excuse[p] \ {"others"} ELSE excuse[p])
                       \ (IF ProjectChanged(p) THEN {"failed", "dropped"} ELSE {})
  <2>1. /\ editSession'[p] = {} /\ event'[p] = {Work(p)}
        /\ projectFiles'[p] = IF ProjectChanged(p) THEN Work(p).project ELSE projectFiles[p]
    BY <1>8 DEF Commit, PromptHeld, PromptDomains
  <2>2. \A q \in processes \ {p} : /\ editSession'[q] = editSession[q] /\ event'[q] = event[q]
                                   /\ projectFiles'[q] = projectFiles[q]
    BY <1>8 DEF Commit, PromptHeld, PromptDomains
  <2>3. UNCHANGED <<tally, shown, torn>> /\ overlay[p] /\ SaveGlobal(p) /\ OverwriteOthers(p)
    BY <1>8 DEF Commit
  <2>4. ExcuseOthers(p, mine)
    BY <1>8 DEF Commit
  <2>5. mine \subseteq excuse[p]
    OBVIOUS
  <2> HIDE DEF mine
  <2>6. excuse'[p] \subseteq excuse[p]
        /\ \A q \in processes \ {p} : excuse'[q] \subseteq excuse[q] \cup {"others"}
    BY <2>4, <2>5, OthersFilterIs
  <2>7. /\ DOMAIN owedTexts' = processes /\ owedTexts'[p] = owedTexts[p]
        /\ \A q \in processes : owedTexts'[q] \subseteq owedTexts[q]
    BY <2>3, OthersFilterIs
  <2>8. AreShaped(Work(p), tally.texts)
    BY <2>3, WorkIsShaped DEF PromptHeld, Held
  <2>9. Shaped(p)'
    BY <1>0, <2>1, <2>3, <2>6, <2>7, <2>8 DEF Shaped, AreShaped
  <2>10. IsShaped(globalStore', tally.texts)
    BY <2>3, SaveGlobalShaped
  <2> QED BY <1>0, <2>2, <2>3, <2>6, <2>7, <2>9, <2>10, StoredShaped
<1>9. CASE CommitGlobalFails(p)
  <2>1. UNCHANGED <<globalStore, projectFiles, shown, event, editSession, owedTexts, torn, excuse>>
        /\ SaveMayFail /\ CountFailure
    BY <1>9 DEF CommitGlobalFails, surroundings
  <2>2. /\ tally' = [edits |-> tally'.edits, failures |-> tally'.failures, texts |-> tally'.texts]
        /\ tally'.edits \in 0..MaxEdits /\ tally'.failures \in 0..MaxFailedSaves
        /\ tally'.texts = tally.texts
    BY <2>1, CountFailureIs
  <2>3. Shaped(p)'
    BY <1>0, <2>1, <2>2 DEF Shaped
  <2> QED BY <1>0, <2>1, <2>2, <2>3, StoredShaped
<1>10. CASE CommitProjectFails(p)
  <2> DEFINE base == [Base(p) EXCEPT !.global = Work(p).global]
  <2>1. editSession'[p] = {[work |-> Work(p), base |-> base]}
        /\ \A q \in processes \ {p} : editSession'[q] = editSession[q]
    BY <1>10 DEF CommitProjectFails, PromptHeld, PromptDomains
  <2>2. UNCHANGED <<shown, event>> /\ overlay[p] /\ SaveGlobal(p) /\ SaveHalf(p)
        /\ OverwriteOthers(p) /\ ExcuseOthers(p, excuse[p] \cup {"failed"})
        /\ SaveMayFail /\ CountFailure
    BY <1>10 DEF CommitProjectFails
  <2>3. AreShaped(Work(p), tally.texts) /\ AreShaped(Base(p), tally.texts)
    BY <2>2, WorkIsShaped DEF PromptHeld, Held
  <2>4. base = [global |-> Work(p).global, project |-> Base(p).project]
    BY <2>3 DEF AreShaped
  <2> HIDE DEF base
  <2>5. AreShaped(base, tally.texts)
    BY <2>3, <2>4 DEF AreShaped
  <2>6. \A s \in editSession'[p] : s.work = Work(p) /\ s.base = base
    BY <2>1
  <2>7. /\ tally' = [edits |-> tally'.edits, failures |-> tally'.failures, texts |-> tally'.texts]
        /\ tally'.edits \in 0..MaxEdits /\ tally'.failures \in 0..MaxFailedSaves
        /\ tally'.texts = tally.texts
    BY <2>2, CountFailureIs
  <2>8. excuse'[p] = excuse[p] \cup {"failed"}
        /\ \A q \in processes \ {p} : excuse'[q] \subseteq excuse[q] \cup {"others"}
    BY <2>2, OthersFilterIs
  <2>9. /\ DOMAIN owedTexts' = processes /\ owedTexts'[p] = owedTexts[p]
        /\ \A q \in processes : owedTexts'[q] \subseteq owedTexts[q]
    BY <2>2, OthersFilterIs
  <2>10. /\ IsShaped(projectFiles'[p], tally.texts) /\ DOMAIN torn' = processes
         /\ \A q \in processes \ {p} : projectFiles'[q] = projectFiles[q]
    BY <2>2, SaveHalfIs
  <2>11. IsShaped(globalStore', tally.texts)
    BY <2>2, SaveGlobalShaped
  <2>12. Shaped(p)'
    BY <1>0, <2>2, <2>3, <2>5, <2>6, <2>7, <2>8, <2>9, <2>10 DEF Shaped
  <2> QED BY <1>0, <2>1, <2>2, <2>7, <2>8, <2>9, <2>10, <2>11, <2>12, StoredShaped
<1>11. CASE CommitDies(p)
  <2>1. overlay[p] /\ SaveGlobal(p) /\ SaveHalf(p) /\ Restart(p) /\ ExcuseOthers(p, {})
        /\ SaveMayFail /\ CountFailure
    BY <1>11 DEF CommitDies
  <2>2. DOMAIN owedTexts' = processes /\ \A q \in processes : owedTexts'[q] \subseteq owedTexts[q]
    BY <1>11 DEF CommitDies
  <2>3. excuse'[p] = {}
        /\ \A q \in processes \ {p} : excuse'[q] \subseteq excuse[q] \cup {"others"}
    BY <2>1, OthersFilterIs
  <2>4. /\ tally' = [edits |-> tally'.edits, failures |-> tally'.failures, texts |-> tally'.texts]
        /\ tally'.edits \in 0..MaxEdits /\ tally'.failures \in 0..MaxFailedSaves
        /\ tally'.texts = tally.texts
    BY <2>1, CountFailureIs
  <2>5. /\ IsShaped(projectFiles'[p], tally.texts) /\ DOMAIN torn' = processes
        /\ \A q \in processes \ {p} : projectFiles'[q] = projectFiles[q]
    BY <2>1, SaveHalfIs
  <2>6. IsShaped(globalStore', tally.texts)
    BY <2>1, SaveGlobalShaped
  <2>7. Shaped(p)'
    BY <2>1, <2>2, <2>3, <2>4, <2>5, <2>6, RestartShaped
  <2>8. \A q \in processes \ {p} : /\ event'[q] = event[q] /\ editSession'[q] = editSession[q]
                                   /\ shown'[q] = shown[q]
    BY <2>1 DEF Restart, PromptHeld, PromptDomains
  <2> QED BY <2>2, <2>3, <2>4, <2>5, <2>6, <2>7, <2>8, StoredShaped
<1> QED BY <1>1, <1>2, <1>3, <1>4, <1>5, <1>6, <1>7, <1>8, <1>9, <1>10, <1>11 DEF PromptStep

LEMMA SpecShaped == PromptSpec => []AllShaped
<1>1. PromptInit => AllShaped
  BY PromptInitShaped
<1>2. PromptHeld /\ AllShaped /\ [PromptNext]_promptVars => AllShaped'
  <2> SUFFICES ASSUME PromptHeld, AllShaped, [PromptNext]_promptVars PROVE AllShaped'
    OBVIOUS
  <2>1. CASE PromptNext
    BY <2>1, StepShaped DEF PromptNext
  <2>2. CASE UNCHANGED promptVars
    BY <2>2 DEF promptVars, AllShaped, Shaped
  <2> QED BY <2>1, <2>2
<1> QED BY <1>1, <1>2, SpecHeld, PTL DEF PromptSpec

-----------------------------------------------------------------------------
(* The texts the users wrote                                                 *)

TextIn(t, st) == t[2] \in Texts(st[t[1]])

(* A text of the project has one place, in the copy as on disk.              *)
Placed(p) ==
  /\ OnePlace(projectFiles[p].prompts, projectFiles[p].prompts)
  /\ \A s \in editSession[p] : /\ OnePlace(s.work.project.prompts, s.work.project.prompts)
                               /\ OnePlace(projectFiles[p].prompts, s.work.project.prompts)

(* A text that is owed is in the copy, or on disk if there is none; and it is*)
(* on disk already if the copy was loaded with it.                           *)
Backed(p) ==
  \A t \in owedTexts[p] :
    \/ t[2] \in torn[p]
    \/ /\ editSession[p] = {} => TextIn(t, Saved(p))
       /\ \A s \in editSession[p] : TextIn(t, s.work) /\ (TextIn(t, s.base) => TextIn(t, Saved(p)))

AllBacked == \A p \in processes : Placed(p) /\ Backed(p)

LEMMA OwedIs ==
  ASSUME AllShaped, NEW p \in processes, NEW t \in owedTexts[p]
  PROVE  t[1] \in {"global", "project"} /\ t[2] \in 1..tally.texts /\ t = <<t[1], t[2]>>
BY DEF AllShaped, Shaped, Scopes

LEMMA SavedIs ==
  ASSUME NEW p, NEW t, t[1] \in {"global", "project"}, t = <<t[1], t[2]>>
  PROVE  t \in SavedTexts(p) <=> TextIn(t, Saved(p))
<1> DEFINE g == Texts(globalStore)
           f == Texts(projectFiles[p])
<1>1. SavedTexts(p) = {<<"global", n>> : n \in g} \cup {<<"project", n>> : n \in f}
  BY DEF SavedTexts
<1>2. TextIn(t, Saved(p)) <=> t[2] \in IF t[1] = "global" THEN g ELSE f
  BY DEF TextIn, Saved
<1> HIDE DEF g, f
<1>3. CASE t[1] = "global"
  <2>1. t \in {<<"global", n>> : n \in g} <=> t[2] \in g
    BY <1>3
  <2>2. t \notin {<<"project", n>> : n \in f}
    BY <1>3
  <2> QED BY <1>1, <1>2, <1>3, <2>1, <2>2
<1>4. CASE t[1] = "project"
  <2>1. t \in {<<"project", n>> : n \in f} <=> t[2] \in f
    BY <1>4
  <2>2. t \notin {<<"global", n>> : n \in g}
    BY <1>4
  <2> QED BY <1>1, <1>2, <1>4, <2>1, <2>2
<1> QED BY <1>3, <1>4

LEMMA PromptInitBacked ==
  ASSUME PromptInit PROVE AllBacked
<1>1. DOMAIN EmptyScope.prompts = {}
  BY DEF EmptyScope
<1>2. OnePlace(EmptyScope.prompts, EmptyScope.prompts)
  BY <1>1 DEF OnePlace
<1> QED BY <1>2 DEF PromptInit, AllBacked, Placed, Backed

(* A process of which a step takes no text but those of another's that the   *)
(* user's record has not any more.                                           *)
LEMMA OtherBacked ==
  ASSUME AllShaped, AllBacked, NEW q \in processes,
         projectFiles'[q] = projectFiles[q], editSession'[q] = editSession[q], torn'[q] = torn[q],
         owedTexts'[q] \subseteq owedTexts[q],
         \A t \in owedTexts'[q] : t[1] = "global" =>
           globalStore' = globalStore \/ t[2] \in Texts(globalStore')
  PROVE  (Placed(q) /\ Backed(q))'
<1>1. Placed(q) /\ Backed(q)
  BY DEF AllBacked
<1>2. Placed(q)'
  BY <1>1 DEF Placed
<1>3. ASSUME NEW t \in owedTexts'[q]
      PROVE  TextIn(t, Saved(q)) => TextIn(t, Saved(q)')
  <2>1. t[1] \in {"global", "project"}
    BY OwedIs
  <2>2. CASE t[1] = "global"
    BY <2>2 DEF TextIn, Saved
  <2>3. CASE t[1] = "project"
    BY <2>3 DEF TextIn, Saved
  <2> QED BY <2>1, <2>2, <2>3
<1>4. Backed(q)'
  BY <1>1, <1>3 DEF Backed
<1> QED BY <1>2, <1>4

LEMMA GesturePlaced ==
  ASSUME PromptHeld, AllShaped, AllBacked, NEW p \in processes, editSession[p] # {}, NEW work, GestureIs(p, work)
  PROVE  /\ OnePlace(work.project.prompts, work.project.prompts)
         /\ OnePlace(projectFiles[p].prompts, work.project.prompts)
<1> DEFINE f == projectFiles[p].prompts
           w == Work(p).project.prompts
           new == work.project.prompts
           n == tally.texts
<1>1. OnePlace(w, w) /\ OnePlace(f, w)
  BY WorkIsShaped DEF AllBacked, Placed
<1>2. n \in Nat /\ HasTexts(f, n) /\ HasTexts(w, n)
  BY WorkIsShaped DEF AllShaped, Shaped, AreShaped, IsShaped
<1>3. "project" \in Scopes
  BY DEF Scopes
<1>4. CASE GestureKeeps(p, work)
  <2>1. new = w
    BY <1>3, <1>4 DEF GestureKeeps, KeepsTexts
  <2> QED BY <1>1, <2>1
<1>5. CASE \E scope \in Scopes : \E id, text : GestureWrites(p, work, scope, id, text)
  <2>1. PICK scope \in Scopes : \E id, text : GestureWrites(p, work, scope, id, text)
    BY <1>5
  <2>2. PICK id, text : GestureWrites(p, work, scope, id, text)
    BY <2>1
  <2>3. CASE scope = "project"
    <3>1. new = Put(w, id, text) /\ text.id = n + 1
      BY <2>2, <2>3 DEF GestureWrites, SetsTexts
    <3> HIDE DEF f, w, new, n
    <3>2. OnePlace(new, new) /\ OnePlace(f, new)
      BY <1>1, <1>2, <3>1, PutIsOnePlace
    <3> QED BY <3>2 DEF f, new
  <2>4. CASE scope # "project"
    <3>1. new = w
      BY <1>3, <2>2, <2>4 DEF GestureWrites, SetsTexts
    <3> QED BY <1>1, <3>1
  <2> QED BY <2>3, <2>4
<1>6. CASE \E scope \in Scopes : \E id : GestureDeletes(p, work, scope, id)
  <2>1. PICK scope \in Scopes : \E id : GestureDeletes(p, work, scope, id)
    BY <1>6
  <2>2. PICK id : GestureDeletes(p, work, scope, id)
    BY <2>1
  <2>3. CASE scope = "project"
    <3>1. new = Omit(w, id)
      BY <2>2, <2>3 DEF GestureDeletes, SetsTexts
    <3> HIDE DEF f, w, new
    <3>2. OnePlace(new, new) /\ OnePlace(f, new)
      BY <1>1, <3>1, OmitIsOnePlace
    <3> QED BY <3>2 DEF f, new
  <2>4. CASE scope # "project"
    <3>1. new = w
      BY <1>3, <2>2, <2>4 DEF GestureDeletes, SetsTexts
    <3> QED BY <1>1, <3>1
  <2> QED BY <2>3, <2>4
<1> QED BY <1>4, <1>5, <1>6 DEF GestureIs

(* What is owed after a gesture is in the copy, and what is new is nowhere   *)
(* else.                                                                     *)
LEMMA GestureOwes ==
  ASSUME PromptHeld, AllShaped, NEW p \in processes, editSession[p] # {}, NEW work,
         GestureIs(p, work), NEW t \in owedTexts'[p]
  PROVE  \/ t \in owedTexts[p] /\ (TextIn(t, Work(p)) => TextIn(t, work))
         \/ TextIn(t, work) /\ ~TextIn(t, Base(p))
<1> DEFINE n == tally.texts
<1>0. DOMAIN owedTexts = processes /\ n \in Nat
  BY DEF AllShaped
<1>1. AreShaped(Work(p), n) /\ AreShaped(Base(p), n)
  BY WorkIsShaped
<1>2. \A u \in owedTexts[p] : u[1] \in Scopes /\ u = <<u[1], u[2]>>
  BY OwedIs DEF Scopes
<1>3. CASE GestureKeeps(p, work)
  <2>1. t \in owedTexts[p]
    BY <1>3 DEF GestureKeeps
  <2>2. Texts(work[t[1]]) = Texts(Work(p)[t[1]])
    BY <1>2, <1>3, <2>1, SameTexts DEF GestureKeeps, KeepsTexts
  <2> QED BY <2>1, <2>2 DEF TextIn
<1>4. ASSUME NEW scope \in Scopes, NEW id, NEW prompts, NEW m,
             SetsTexts(Work(p), work, m, scope, prompts),
             \A x \in DOMAIN Work(p)[scope].prompts \ {id} :
               x \in DOMAIN prompts /\ prompts[x] = Work(p)[scope].prompts[x],
             t \in owedTexts[p], t \notin TextOf(Work(p), scope, id)
      PROVE  TextIn(t, Work(p)) => TextIn(t, work)
  <2>1. t[1] \in Scopes /\ t = <<t[1], t[2]>>
    BY <1>2, <1>4
  <2>2. CASE t[1] # scope
    <3>1. Texts(work[t[1]]) = Texts(Work(p)[t[1]])
      BY <1>4, <2>1, <2>2, SameTexts DEF SetsTexts
    <3> QED BY <3>1 DEF TextIn
  <2>3. CASE t[1] = scope
    <3> SUFFICES ASSUME TextIn(t, Work(p)) PROVE TextIn(t, work)
      OBVIOUS
    <3>1. PICK x \in DOMAIN Work(p)[scope].prompts : Work(p)[scope].prompts[x].id = t[2]
      BY <2>3, TextsAre DEF TextIn
    <3>2. x # id
      BY <1>4, <2>1, <2>3, <3>1 DEF TextOf
    <3>3. work[scope].prompts = prompts
      BY <1>4 DEF SetsTexts
    <3>4. x \in DOMAIN work[scope].prompts /\ work[scope].prompts[x].id = t[2]
      BY <1>4, <3>1, <3>2, <3>3
    <3>5. t[2] \in Texts(work[scope])
      BY <3>4, TextsAre
    <3> QED BY <2>3, <3>5 DEF TextIn
  <2> QED BY <2>2, <2>3
<1>5. ASSUME NEW scope \in Scopes, NEW id, NEW text, GestureWrites(p, work, scope, id, text)
      PROVE  \/ t \in owedTexts[p] /\ (TextIn(t, Work(p)) => TextIn(t, work))
             \/ TextIn(t, work) /\ ~TextIn(t, Base(p))
  <2> DEFINE old == Work(p)[scope].prompts
             prompts == Put(old, id, text)
  <2>1. DOMAIN prompts = DOMAIN old \cup {id}
        /\ \A y \in DOMAIN prompts : prompts[y] = IF y = id THEN text ELSE old[y]
    BY DEF Put
  <2>2. SetsTexts(Work(p), work, n + 1, scope, prompts) /\ text.id = n + 1
    BY <1>5 DEF GestureWrites
  <2>3. t \in (owedTexts[p] \ TextOf(Work(p), scope, id)) \cup {<<scope, n + 1>>}
    BY <1>0, <1>5 DEF GestureWrites
  <2> HIDE DEF prompts
  <2>4. \A x \in DOMAIN old \ {id} : x \in DOMAIN prompts /\ prompts[x] = old[x]
    BY <2>1
  <2>5. CASE t \in owedTexts[p] \ TextOf(Work(p), scope, id)
    <3>1. TextIn(t, Work(p)) => TextIn(t, work)
      BY <1>4, <2>2, <2>4, <2>5
    <3> QED BY <2>5, <3>1
  <2>6. CASE t = <<scope, n + 1>>
    <3>1. work[scope].prompts = prompts /\ id \in DOMAIN prompts /\ prompts[id].id = n + 1
      BY <2>1, <2>2 DEF SetsTexts
    <3>2. n + 1 \in Texts(work[scope])
      BY <3>1, TextsAre
    <3>3. \A x \in DOMAIN Base(p)[scope].prompts : Base(p)[scope].prompts[x].id \in 0..n
      BY <1>1, ShapedScope DEF IsShaped, HasTexts, IsText
    <3>4. n + 1 \notin Texts(Base(p)[scope])
      BY <1>0, <3>3, TextsAre
    <3> QED BY <2>6, <3>2, <3>4 DEF TextIn
  <2> QED BY <2>3, <2>5, <2>6
<1>6. ASSUME NEW scope \in Scopes, NEW id, GestureDeletes(p, work, scope, id)
      PROVE  t \in owedTexts[p] /\ (TextIn(t, Work(p)) => TextIn(t, work))
  <2> DEFINE old == Work(p)[scope].prompts
             prompts == Omit(old, id)
  <2>1. DOMAIN prompts = DOMAIN old \ {id} /\ \A y \in DOMAIN prompts : prompts[y] = old[y]
    BY OmitIs
  <2>2. SetsTexts(Work(p), work, n, scope, prompts)
    BY <1>6 DEF GestureDeletes
  <2>3. t \in owedTexts[p] \ TextOf(Work(p), scope, id)
    BY <1>0, <1>6 DEF GestureDeletes
  <2> HIDE DEF prompts
  <2>4. \A x \in DOMAIN old \ {id} : x \in DOMAIN prompts /\ prompts[x] = old[x]
    BY <2>1
  <2>5. TextIn(t, Work(p)) => TextIn(t, work)
    BY <1>4, <2>2, <2>3, <2>4
  <2> QED BY <2>3, <2>5
<1> QED BY <1>3, <1>5, <1>6 DEF GestureIs

LEMMA GestureBacked ==
  ASSUME PromptHeld, AllShaped, AllBacked, NEW p \in processes, UNCHANGED processes,
         NEW family, NEW work, NEW scopes, Apply(p, family, work, scopes), GestureIs(p, work)
  PROVE  AllBacked'
<1>1. editSession[p] # {} /\ DOMAIN owedTexts = processes
  BY DEF PromptHeld, Held, Apply, AllShaped
<1>2. UNCHANGED <<globalStore, projectFiles, torn>>
  BY DEF Apply, surroundings
<1>3. editSession'[p] = {[work |-> work, base |-> Base(p)]}
      /\ \A q \in processes \ {p} : editSession'[q] = editSession[q]
  BY DEF PromptHeld, PromptDomains, Apply
<1>4. \A s \in editSession'[p] : s.work = work /\ s.base = Base(p)
  BY <1>3
<1>5. Placed(p)'
  <2>1. OnePlace(projectFiles'[p].prompts, projectFiles'[p].prompts)
    BY <1>2 DEF AllBacked, Placed
  <2>2. /\ OnePlace(work.project.prompts, work.project.prompts)
        /\ OnePlace(projectFiles'[p].prompts, work.project.prompts)
    BY <1>1, <1>2, GesturePlaced
  <2> QED BY <1>4, <2>1, <2>2 DEF Placed
<1>6. Backed(p)'
  <2> SUFFICES ASSUME NEW t \in owedTexts'[p], t[2] \notin torn'[p]
               PROVE  TextIn(t, work) /\ (TextIn(t, Base(p)) => TextIn(t, Saved(p)'))
    BY <1>3, <1>4 DEF Backed
  <2>1. PICK s \in editSession[p] : Work(p) = s.work /\ Base(p) = s.base
    BY <1>1, WorkIsShaped
  <2>2. Saved(p)' = Saved(p)
    BY <1>2 DEF Saved
  <2>3. CASE t \in owedTexts[p] /\ (TextIn(t, Work(p)) => TextIn(t, work))
    <3>1. TextIn(t, Work(p)) /\ (TextIn(t, Base(p)) => TextIn(t, Saved(p)))
      BY <1>2, <2>1, <2>3 DEF AllBacked, Backed
    <3> QED BY <2>2, <2>3, <3>1
  <2>4. CASE TextIn(t, work) /\ ~TextIn(t, Base(p))
    BY <2>4
  <2> QED BY <1>1, <2>3, <2>4, GestureOwes
<1>7. ASSUME NEW q \in processes, q # p PROVE (Placed(q) /\ Backed(q))'
  <2>1. owedTexts'[q] = owedTexts[q]
    BY <1>1, <1>7 DEF GestureIs, GestureKeeps, GestureWrites, GestureDeletes
  <2> QED BY <1>2, <1>3, <1>7, <2>1, OtherBacked
<1> QED BY <1>5, <1>6, <1>7 DEF AllBacked

(* What is owed is in the copy, and on disk where the copy is as it was.     *)
LEMMA WorkIsBacked ==
  ASSUME PromptHeld, AllShaped, AllBacked, NEW p \in processes, editSession[p] # {},
         NEW t \in owedTexts[p], t[2] \notin torn[p]
  PROVE  TextIn(t, Work(p)) /\ (TextIn(t, Base(p)) => TextIn(t, Saved(p)))
<1>1. PICK s \in editSession[p] : Work(p) = s.work /\ Base(p) = s.base
  BY WorkIsShaped
<1> QED BY <1>1 DEF AllBacked, Backed

LEMMA WorkIsPlaced ==
  ASSUME PromptHeld, AllShaped, AllBacked, NEW p \in processes, editSession[p] # {}
  PROVE  LET f == projectFiles[p].prompts
             w == Work(p).project.prompts
         IN  OnePlace(f, f) /\ OnePlace(w, w) /\ OnePlace(f, w)
BY WorkIsShaped DEF AllBacked, Placed

(* A process whose session has ended, with what is owed on disk.             *)
LEMMA EndedBacked ==
  ASSUME NEW p, editSession'[p] = {}, OnePlace(projectFiles'[p].prompts, projectFiles'[p].prompts),
         \A t \in owedTexts'[p] : t[2] \in torn'[p] \/ TextIn(t, Saved(p)')
  PROVE  (Placed(p) /\ Backed(p))'
BY DEF Placed, Backed

(* What the copy holds of the user's record is on disk once it is saved.     *)
LEMMA GlobalTextIsSaved ==
  ASSUME NEW p, NEW t, t[1] = "global", SaveGlobal(p),
         TextIn(t, Work(p)), TextIn(t, Base(p)) => TextIn(t, Saved(p))
  PROVE  t[2] \in Texts(globalStore')
<1>1. t[2] \in Texts(Work(p).global)
  BY DEF TextIn
<1>2. CASE GlobalChanged(p)
  BY <1>1, <1>2 DEF SaveGlobal
<1>3. CASE ~GlobalChanged(p)
  <2>1. t[2] \in Texts(Base(p).global)
    BY <1>1, <1>3 DEF GlobalChanged
  <2>2. t[2] \in Texts(globalStore)
    BY <2>1 DEF TextIn, Saved
  <2> QED BY <1>3, <2>2 DEF SaveGlobal
<1> QED BY <1>2, <1>3

(* What is owed of the project is in what a save that dies has written, or   *)
(* in the one text it was writing.                                           *)
LEMMA HalfTextIsSaved ==
  ASSUME PromptHeld, AllShaped, AllBacked, NEW p \in processes, overlay[p], SaveHalf(p),
         NEW t \in owedTexts[p], t[1] = "project", TextIn(t, Work(p)), TextIn(t, Saved(p))
  PROVE  t[2] \in torn'[p] \/ t[2] \in Texts(projectFiles'[p])
<1> DEFINE n == tally.texts
           old == projectFiles[p]
           new == Work(p).project
           files == projectFiles'[p]
           m == t[2]
<1>0. editSession[p] # {}
  BY DEF PromptHeld, Held
<1>1. n \in Nat /\ IsShaped(old, n) /\ IsShaped(new, n)
  BY <1>0, WorkIsShaped DEF AllShaped, Shaped, AreShaped
<1>2. files \in HalfSaved(old, new) /\ Damaged(files, old, new) \subseteq torn'[p]
  BY SaveHalfIs
<1>3. OnePlace(old.prompts, new.prompts)
  BY <1>0, WorkIsPlaced
<1>4. m \in 1..n
  BY OwedIs
<1>5. m \in Texts(old) /\ m \in Texts(new)
  BY DEF TextIn, Saved
<1> HIDE DEF n, old, new, files, m
<1>6. m \in Texts(files) \/ m \in Damaged(files, old, new)
  BY <1>1, <1>2, <1>3, <1>4, <1>5, HalfKeepsText
<1>7. m \in torn'[p] \/ m \in Texts(files)
  BY <1>2, <1>6
<1> QED BY <1>7 DEF m, files

LEMMA HalfIsPlaced ==
  ASSUME PromptHeld, AllShaped, AllBacked, NEW p \in processes, overlay[p], SaveHalf(p)
  PROVE  LET h == projectFiles'[p].prompts
             w == Work(p).project.prompts
         IN  OnePlace(h, h) /\ OnePlace(w, w) /\ OnePlace(h, w)
<1> DEFINE n == tally.texts
           old == projectFiles[p]
           new == Work(p).project
           files == projectFiles'[p]
           f == old.prompts
           w == new.prompts
           h == files.prompts
<1>0. editSession[p] # {}
  BY DEF PromptHeld, Held
<1>1. n \in Nat /\ IsShaped(old, n) /\ IsShaped(new, n)
  BY <1>0, WorkIsShaped DEF AllShaped, Shaped, AreShaped
<1>2. files \in HalfSaved(old, new)
  BY SaveHalfIs
<1>3. OnePlace(f, f) /\ OnePlace(w, w) /\ OnePlace(f, w)
  BY <1>0, WorkIsPlaced
<1> HIDE DEF n, old, new, files
<1>4. IsMixOf(h, f, w) /\ HasTexts(f, n) /\ HasTexts(w, n)
  BY <1>1, <1>2, HalfSavedIs DEF IsShaped
<1> HIDE DEF f, w, h
<1>5. OnePlace(h, h) /\ OnePlace(h, w)
  BY <1>1, <1>3, <1>4, MixIsOnePlace
<1> QED BY <1>3, <1>5 DEF f, w, h, old, new, files

(* The other processes are owed what the record that is saved has.           *)
LEMMA OthersAreFiltered ==
  ASSUME PromptHeld, AllShaped, NEW p \in processes, NEW q \in processes, q # p, SaveGlobal(p),
         OverwriteOthers(p) \/ CommitDies(p)
  PROVE  /\ owedTexts'[q] \subseteq owedTexts[q]
         /\ \A t \in owedTexts'[q] : t[1] = "global" =>
              globalStore' = globalStore \/ t[2] \in Texts(globalStore')
<1>1. CASE ~GlobalChanged(p)
  <2>1. globalStore' = globalStore
    BY <1>1 DEF SaveGlobal
  <2>2. owedTexts'[q] \subseteq owedTexts[q]
    BY DEF OverwriteOthers, CommitDies
  <2> QED BY <2>1, <2>2
<1>2. CASE GlobalChanged(p)
  <2> DEFINE kept == Texts(Work(p).global)
  <2>1. Texts(globalStore') = kept
    BY <1>2 DEF SaveGlobal
  <2>2. {x.id : x \in Range(Work(p).global.prompts)} = kept
    BY DEF Texts
  <2> HIDE DEF kept
  <2>3. CASE OverwriteOthers(p)
    <3>1. owedTexts'[q] = {t \in owedTexts[q] : t[1] = "global" =>
                             t[2] \in {x.id : x \in Range(Work(p).global.prompts)}}
      BY <1>2, <2>3 DEF OverwriteOthers
    <3>2. owedTexts'[q] = {t \in owedTexts[q] : t[1] = "global" => t[2] \in kept}
      BY <2>2, <3>1
    <3> QED BY <2>1, <3>2
  <2>4. CASE CommitDies(p)
    <3>1. owedTexts'[q] = {t \in owedTexts[q] : GlobalChanged(p) /\ t[1] = "global" =>
                             t[2] \in Texts(Work(p).global)}
      BY <2>4 DEF CommitDies
    <3>2. \A t \in owedTexts'[q] : t \in owedTexts[q] /\ (t[1] = "global" => t[2] \in kept)
      BY <1>2, <3>1 DEF kept
    <3> QED BY <2>1, <3>2
  <2> QED BY <2>3, <2>4
<1> QED BY <1>1, <1>2

(* A step of one process that leaves the others their own.                   *)
LEMMA StoredBacked ==
  ASSUME AllShaped, AllBacked, NEW p \in processes, UNCHANGED processes, (Placed(p) /\ Backed(p))',
         \A q \in processes \ {p} :
           /\ projectFiles'[q] = projectFiles[q] /\ editSession'[q] = editSession[q]
           /\ torn'[q] = torn[q] /\ owedTexts'[q] \subseteq owedTexts[q]
           /\ \A t \in owedTexts'[q] : t[1] = "global" =>
                globalStore' = globalStore \/ t[2] \in Texts(globalStore')
  PROVE  AllBacked'
<1>1. ASSUME NEW q \in processes, q # p PROVE (Placed(q) /\ Backed(q))'
  BY <1>1, OtherBacked
<1> QED BY <1>1 DEF AllBacked

LEMMA OwedAndSaved ==
  ASSUME AllShaped, NEW p \in processes, NEW t \in owedTexts[p] \cap SavedTexts(p)
  PROVE  TextIn(t, Saved(p))
<1>1. t[1] \in {"global", "project"} /\ t = <<t[1], t[2]>>
  BY OwedIs
<1> QED BY <1>1, SavedIs

LEMMA OpenBacked ==
  ASSUME PromptHeld, AllShaped, AllBacked, NEW p \in processes, UNCHANGED processes, Open(p)
  PROVE  AllBacked'
<1>1. UNCHANGED <<globalStore, projectFiles, owedTexts, torn>>
      /\ \A q \in processes \ {p} : editSession'[q] = editSession[q]
  BY DEF Open, surroundings, PromptHeld, PromptDomains
<1>2. Placed(p) /\ Backed(p)
  BY DEF AllBacked
<1>3. CASE editSession[p] # {}
  <2>1. editSession'[p] = editSession[p]
    BY <1>3 DEF Open, PromptHeld, PromptDomains
  <2>2. Saved(p)' = Saved(p)
    BY <1>1 DEF Saved
  <2>3. (Placed(p) /\ Backed(p))'
    BY <1>1, <1>2, <2>1, <2>2 DEF Placed, Backed
  <2> QED BY <1>1, <2>3, StoredBacked
<1>4. CASE editSession[p] = {}
  <2>1. editSession'[p] = {[work |-> Saved(p), base |-> Saved(p)]}
    BY <1>4 DEF Open, PromptHeld, PromptDomains
  <2>2. Saved(p)' = Saved(p) /\ Saved(p).project = projectFiles[p]
    BY <1>1 DEF Saved
  <2>3. \A s \in editSession'[p] : s.work = Saved(p) /\ s.base = Saved(p)
    BY <2>1
  <2>4. Placed(p)'
    BY <1>1, <1>2, <2>2, <2>3 DEF Placed
  <2>5. Backed(p)'
    BY <1>1, <1>2, <1>4, <2>1, <2>2, <2>3 DEF Backed
  <2> QED BY <1>1, <2>4, <2>5, StoredBacked
<1> QED BY <1>3, <1>4

(* A step that leaves the records, the session and what is owed alone.       *)
LEMMA SameBacked ==
  ASSUME AllBacked, UNCHANGED <<processes, globalStore, projectFiles, editSession, owedTexts, torn>>
  PROVE  AllBacked'
BY DEF AllBacked, Placed, Backed, Saved

(* A step that ends the session, if any, and saves nothing.                  *)
LEMMA DroppedBacked ==
  ASSUME PromptHeld, AllShaped, AllBacked, NEW p \in processes,
         UNCHANGED <<processes, globalStore, projectFiles, torn>>, editSession'[p] = {},
         owedTexts'[p] = IF editSession[p] = {} THEN owedTexts[p] ELSE owedTexts[p] \cap SavedTexts(p),
         \A q \in processes \ {p} : editSession'[q] = editSession[q] /\ owedTexts'[q] = owedTexts[q]
  PROVE  AllBacked'
<1>1. Placed(p) /\ Backed(p)
  BY DEF AllBacked
<1>2. Saved(p)' = Saved(p)
  BY DEF Saved
<1>3. \A t \in owedTexts'[p] : t[2] \in torn'[p] \/ TextIn(t, Saved(p)')
  <2> SUFFICES ASSUME NEW t \in owedTexts'[p] PROVE t[2] \in torn[p] \/ TextIn(t, Saved(p))
    BY <1>2
  <2>1. CASE editSession[p] = {}
    BY <1>1, <2>1 DEF Backed
  <2>2. CASE editSession[p] # {}
    BY <2>2, OwedAndSaved
  <2> QED BY <2>1, <2>2
<1>4. (Placed(p) /\ Backed(p))'
  BY <1>1, <1>3, EndedBacked DEF Placed
<1> QED BY <1>4, StoredBacked

LEMMA QuitBacked ==
  ASSUME PromptHeld, AllShaped, AllBacked, NEW p \in processes, UNCHANGED processes, Quit(p)
  PROVE  AllBacked'
<1>1. UNCHANGED <<globalStore, projectFiles, torn>> /\ editSession'[p] = {}
      /\ owedTexts'[p] = owedTexts[p] \cap SavedTexts(p)
      /\ \A q \in processes \ {p} : editSession'[q] = editSession[q] /\ owedTexts'[q] = owedTexts[q]
  BY DEF Quit, Restart, PromptHeld, PromptDomains, AllShaped
<1>2. Saved(p)' = Saved(p)
  BY <1>1 DEF Saved
<1>3. \A t \in owedTexts'[p] : t[2] \in torn'[p] \/ TextIn(t, Saved(p)')
  BY <1>1, <1>2, OwedAndSaved
<1>4. (Placed(p) /\ Backed(p))'
  BY <1>1, <1>3, EndedBacked DEF Placed, AllBacked
<1> QED BY <1>1, <1>4, StoredBacked

LEMMA CommitCleanBacked ==
  ASSUME PromptHeld, AllShaped, AllBacked, NEW p \in processes, UNCHANGED processes, CommitClean(p)
  PROVE  AllBacked'
<1>1. UNCHANGED <<globalStore, projectFiles, owedTexts, torn>> /\ editSession'[p] = {}
      /\ \A q \in processes \ {p} : editSession'[q] = editSession[q]
  BY DEF CommitClean, surroundings, PromptHeld, PromptDomains
<1>2. Saved(p)' = Saved(p)
  BY <1>1 DEF Saved
<1>3. editSession[p] # {}
  BY DEF CommitClean, PromptHeld, Held
<1>4. Work(p).global = Base(p).global /\ Work(p).project = Base(p).project
  BY DEF CommitClean, GlobalChanged, ProjectChanged
<1>5. ASSUME NEW t \in owedTexts'[p], t[2] \notin torn'[p] PROVE TextIn(t, Saved(p)')
  <2>1. TextIn(t, Work(p)) /\ (TextIn(t, Base(p)) => TextIn(t, Saved(p)))
    BY <1>1, <1>3, <1>5, WorkIsBacked
  <2>2. t[1] \in {"global", "project"}
    BY <1>1, OwedIs
  <2>3. TextIn(t, Base(p))
    BY <1>4, <2>1, <2>2 DEF TextIn
  <2> QED BY <1>2, <2>1, <2>3
<1>6. (Placed(p) /\ Backed(p))'
  BY <1>1, <1>5, EndedBacked DEF Placed, AllBacked
<1> QED BY <1>1, <1>6, StoredBacked

LEMMA CommitBacked ==
  ASSUME PromptHeld, AllShaped, AllBacked, NEW p \in processes, UNCHANGED processes, Commit(p)
  PROVE  AllBacked'
<1>1. /\ UNCHANGED torn /\ editSession'[p] = {} /\ SaveGlobal(p) /\ OverwriteOthers(p)
      /\ projectFiles'[p] = IF ProjectChanged(p) THEN Work(p).project ELSE projectFiles[p]
      /\ \A q \in processes \ {p} : /\ editSession'[q] = editSession[q]
                                    /\ projectFiles'[q] = projectFiles[q]
  BY DEF Commit, PromptHeld, PromptDomains
<1>2. owedTexts'[p] = owedTexts[p]
  BY <1>1, OthersFilterIs
<1>3. editSession[p] # {}
  BY DEF Commit, PromptHeld, Held
<1>4. ASSUME NEW t \in owedTexts'[p], t[2] \notin torn'[p] PROVE TextIn(t, Saved(p)')
  <2>1. TextIn(t, Work(p)) /\ (TextIn(t, Base(p)) => TextIn(t, Saved(p)))
    BY <1>1, <1>2, <1>3, <1>4, WorkIsBacked
  <2>2. CASE t[1] = "global"
    <3>1. t[2] \in Texts(globalStore')
      BY <1>1, <2>1, <2>2, GlobalTextIsSaved
    <3> QED BY <2>2, <3>1 DEF TextIn, Saved
  <2>3. CASE t[1] = "project"
    <3>1. CASE ProjectChanged(p)
      BY <1>1, <2>1, <2>3, <3>1 DEF TextIn, Saved
    <3>2. CASE ~ProjectChanged(p)
      <4>1. TextIn(t, Saved(p))
        BY <2>1, <2>3, <3>2 DEF TextIn, ProjectChanged
      <4> QED BY <1>1, <2>3, <3>2, <4>1 DEF TextIn, Saved
    <3> QED BY <3>1, <3>2
  <2> QED BY <1>2, <2>2, <2>3, OwedIs
<1>5. OnePlace(projectFiles'[p].prompts, projectFiles'[p].prompts)
  BY <1>1, <1>3, WorkIsPlaced
<1>6. (Placed(p) /\ Backed(p))'
  BY <1>1, <1>4, <1>5, EndedBacked
<1>7. ASSUME NEW q \in processes \ {p}
      PROVE  /\ owedTexts'[q] \subseteq owedTexts[q]
             /\ \A t \in owedTexts'[q] : t[1] = "global" =>
                  globalStore' = globalStore \/ t[2] \in Texts(globalStore')
  BY <1>1, OthersAreFiltered
<1> QED BY <1>1, <1>6, <1>7, StoredBacked

LEMMA CommitProjectFailsBacked ==
  ASSUME PromptHeld, AllShaped, AllBacked, NEW p \in processes, UNCHANGED processes,
         CommitProjectFails(p)
  PROVE  AllBacked'
<1> DEFINE base == [Base(p) EXCEPT !.global = Work(p).global]
<1>1. /\ overlay[p] /\ SaveGlobal(p) /\ SaveHalf(p) /\ OverwriteOthers(p)
      /\ editSession'[p] = {[work |-> Work(p), base |-> base]}
      /\ \A q \in processes \ {p} : editSession'[q] = editSession[q]
  BY DEF CommitProjectFails, PromptHeld, PromptDomains
<1>2. owedTexts'[p] = owedTexts[p]
  BY <1>1, OthersFilterIs
<1>3. editSession[p] # {}
  BY <1>1 DEF PromptHeld, Held
<1>4. base = [global |-> Work(p).global, project |-> Base(p).project]
  BY <1>3, WorkIsShaped DEF AreShaped
<1>5. \A s \in editSession'[p] : s.work = Work(p) /\ s.base = base
  BY <1>1
<1>6. base.global = Work(p).global /\ base.project = Base(p).project
  BY <1>4
<1> HIDE DEF base
<1>7. torn[p] \subseteq torn'[p]
      /\ \A q \in processes \ {p} : projectFiles'[q] = projectFiles[q] /\ torn'[q] = torn[q]
  BY <1>1, SaveHalfIs
<1>8. Placed(p)'
  BY <1>1, <1>5, HalfIsPlaced DEF Placed
<1>9. ASSUME NEW t \in owedTexts'[p], t[2] \notin torn'[p]
      PROVE  TextIn(t, Work(p)) /\ (TextIn(t, base) => TextIn(t, Saved(p)'))
  <2>1. t \in owedTexts[p] /\ t[2] \notin torn[p]
    BY <1>2, <1>7, <1>9
  <2>2. TextIn(t, Work(p)) /\ (TextIn(t, Base(p)) => TextIn(t, Saved(p)))
    BY <1>3, <2>1, WorkIsBacked
  <2>3. CASE t[1] = "global"
    <3>1. t[2] \in Texts(globalStore')
      BY <1>1, <2>2, <2>3, GlobalTextIsSaved
    <3>2. TextIn(t, Saved(p)')
      BY <2>3, <3>1 DEF TextIn, Saved
    <3> QED BY <2>2, <3>2
  <2>4. CASE t[1] = "project"
    <3> SUFFICES ASSUME TextIn(t, base) PROVE TextIn(t, Saved(p)')
      BY <2>2
    <3>1. TextIn(t, Base(p))
      BY <1>6, <2>4 DEF TextIn
    <3>2. t[2] \in torn'[p] \/ t[2] \in Texts(projectFiles'[p])
      BY <1>1, <2>1, <2>2, <2>4, <3>1, HalfTextIsSaved
    <3> QED BY <1>9, <2>4, <3>2 DEF TextIn, Saved
  <2> QED BY <2>1, <2>3, <2>4, OwedIs
<1>10. Backed(p)'
  BY <1>1, <1>5, <1>9 DEF Backed
<1>11. ASSUME NEW q \in processes \ {p}
       PROVE  /\ owedTexts'[q] \subseteq owedTexts[q]
              /\ \A t \in owedTexts'[q] : t[1] = "global" =>
                   globalStore' = globalStore \/ t[2] \in Texts(globalStore')
  BY <1>1, OthersAreFiltered
<1> QED BY <1>1, <1>7, <1>8, <1>10, <1>11, StoredBacked

LEMMA CommitDiesBacked ==
  ASSUME PromptHeld, AllShaped, AllBacked, NEW p \in processes, UNCHANGED processes, CommitDies(p)
  PROVE  AllBacked'
<1>1. /\ overlay[p] /\ SaveGlobal(p) /\ SaveHalf(p) /\ editSession'[p] = {}
      /\ \A q \in processes \ {p} : editSession'[q] = editSession[q]
  BY DEF CommitDies, Restart, PromptHeld, PromptDomains
<1>2. owedTexts'[p] = owedTexts[p] \cap SavedTexts(p)
  BY DEF CommitDies
<1>3. editSession[p] # {}
  BY <1>1 DEF PromptHeld, Held
<1>4. torn[p] \subseteq torn'[p]
      /\ \A q \in processes \ {p} : projectFiles'[q] = projectFiles[q] /\ torn'[q] = torn[q]
  BY <1>1, SaveHalfIs
<1>5. ASSUME NEW t \in owedTexts'[p], t[2] \notin torn'[p] PROVE TextIn(t, Saved(p)')
  <2>1. t \in owedTexts[p] /\ t[2] \notin torn[p]
    BY <1>2, <1>4, <1>5
  <2>2. TextIn(t, Work(p)) /\ TextIn(t, Saved(p))
    BY <1>2, <1>3, <2>1, WorkIsBacked, OwedAndSaved
  <2>3. CASE t[1] = "global"
    <3>1. t[2] \in Texts(globalStore')
      BY <1>1, <2>2, <2>3, GlobalTextIsSaved
    <3> QED BY <2>3, <3>1 DEF TextIn, Saved
  <2>4. CASE t[1] = "project"
    <3>1. t[2] \in torn'[p] \/ t[2] \in Texts(projectFiles'[p])
      BY <1>1, <2>1, <2>2, <2>4, HalfTextIsSaved
    <3> QED BY <1>5, <2>4, <3>1 DEF TextIn, Saved
  <2> QED BY <2>1, <2>3, <2>4, OwedIs
<1>6. OnePlace(projectFiles'[p].prompts, projectFiles'[p].prompts)
  BY <1>1, HalfIsPlaced
<1>7. (Placed(p) /\ Backed(p))'
  BY <1>1, <1>5, <1>6, EndedBacked
<1>8. ASSUME NEW q \in processes \ {p}
      PROVE  /\ owedTexts'[q] \subseteq owedTexts[q]
             /\ \A t \in owedTexts'[q] : t[1] = "global" =>
                  globalStore' = globalStore \/ t[2] \in Texts(globalStore')
  BY <1>1, OthersAreFiltered
<1> QED BY <1>1, <1>4, <1>7, <1>8, StoredBacked

LEMMA StepBacked ==
  ASSUME PromptHeld, AllShaped, AllBacked, NEW p \in processes, UNCHANGED processes, PromptStep(p)
  PROVE  AllBacked'
<1>1. CASE Open(p)
  BY <1>1, OpenBacked
<1>2. CASE ApplyEvent(p) \/ SendFirstTurn(p) \/ CommitGlobalFails(p)
  <2>1. UNCHANGED <<globalStore, projectFiles, editSession, owedTexts, torn>>
    BY <1>2 DEF ApplyEvent, SendFirstTurn, CommitGlobalFails, surroundings
  <2> QED BY <2>1, SameBacked
<1>3. CASE ResetConversation(p)
  <2>1. /\ UNCHANGED <<globalStore, projectFiles, torn>> /\ editSession'[p] = {}
        /\ owedTexts'[p] = IF editSession[p] = {} THEN owedTexts[p]
                           ELSE owedTexts[p] \cap SavedTexts(p)
        /\ \A q \in processes \ {p} : editSession'[q] = editSession[q] /\ owedTexts'[q] = owedTexts[q]
    BY <1>3 DEF ResetConversation, PromptHeld, PromptDomains, AllShaped
  <2> QED BY <2>1, DroppedBacked
<1>4. CASE Quit(p)
  BY <1>4, QuitBacked
<1>5. CASE overlay[p] /\ tally.edits < MaxEdits /\ GestureNext(p)
  BY <1>5, GestureIsOne, GestureBacked
<1>6. CASE CommitClean(p)
  BY <1>6, CommitCleanBacked
<1>7. CASE Commit(p)
  BY <1>7, CommitBacked
<1>8. CASE CommitProjectFails(p)
  BY <1>8, CommitProjectFailsBacked
<1>9. CASE CommitDies(p)
  BY <1>9, CommitDiesBacked
<1> QED BY <1>1, <1>2, <1>3, <1>4, <1>5, <1>6, <1>7, <1>8, <1>9 DEF PromptStep

LEMMA SpecBacked == PromptSpec => []AllBacked
<1>1. PromptInit => AllBacked
  BY PromptInitBacked
<1>2. PromptHeld /\ AllShaped /\ AllBacked /\ [PromptNext]_promptVars => AllBacked'
  <2> SUFFICES ASSUME PromptHeld, AllShaped, AllBacked, [PromptNext]_promptVars PROVE AllBacked'
    OBVIOUS
  <2>1. CASE PromptNext
    BY <2>1, StepBacked DEF PromptNext
  <2>2. CASE UNCHANGED promptVars
    BY <2>2, SameBacked DEF promptVars
  <2> QED BY <2>1, <2>2
<1> QED BY <1>1, <1>2, SpecHeld, SpecShaped, PTL DEF PromptSpec

LEMMA ShapedIsScope ==
  ASSUME NEW s, IsShaped(s, tally.texts)
  PROVE  IsScope(s)
<1>1. DOMAIN s = DOMAIN EmptyScope
  BY DEF IsShaped, IsRecord, EmptyScope
<1>2. ASSUME NEW id \in DOMAIN s.prompts PROVE IsPrompt(id) /\ s.prompts[id].id \in 0..tally.texts
  BY DEF IsShaped, HasTexts, IsText
<1>3. ASSUME NEW part \in {"skills", "tools"}
      PROVE  {e.name : e \in ToSet(s[part])} \in {{}, ToSet(Names[part])}
  BY DEF IsShaped, IsListOf, Names
<1>4. DOMAIN s.enabled \subseteq ToSet(Tools) /\ s.custom \subseteq {"core", "skills", "tools"}
  BY DEF IsShaped
<1> QED BY <1>1, <1>2, <1>3, <1>4 DEF IsScope

LEMMA ShapedIsTyped ==
  ASSUME PromptHeld, AllShaped PROVE PromptTypeOK
<1>1. \A st : AreShaped(st, tally.texts) => IsPair(st)
  BY ShapedIsScope DEF AreShaped, IsPair
<1>2. ASSUME NEW p \in processes
      PROVE  /\ IsPair(Saved(p)) /\ IsPair(shown[p])
             /\ \A s \in editSession[p] : IsPair(s.work) /\ IsPair(s.base)
             /\ \A st \in event[p] : IsPair(st)
             /\ overlay[p] => editSession[p] # {}
             /\ owedTexts[p] \subseteq Scopes \X (1..tally.texts)
             /\ excuse[p] \subseteq {"others", "failed", "dropped"}
  BY <1>1, ShapedSaved DEF AllShaped, Shaped, PromptHeld, Held
<1>3. tally.edits \in 0..MaxEdits /\ tally.failures \in 0..MaxFailedSaves
  BY DEF AllShaped
<1> QED BY <1>2, <1>3 DEF PromptTypeOK

LEMMA BackedSurvives ==
  ASSUME PromptHeld, AllShaped, AllBacked PROVE TextSurvives
<1> SUFFICES ASSUME NEW p \in processes, NEW t \in owedTexts[p], t[2] \notin torn[p]
             PROVE  \/ t \in SavedTexts(p)
                    \/ editSession[p] # {} /\ t[2] \in Texts(Work(p)[t[1]])
  BY DEF TextSurvives
<1>1. CASE editSession[p] = {}
  <2>1. TextIn(t, Saved(p))
    BY <1>1 DEF AllBacked, Backed
  <2>2. t[1] \in {"global", "project"} /\ t = <<t[1], t[2]>>
    BY OwedIs
  <2> QED BY <2>1, <2>2, SavedIs
<1>2. CASE editSession[p] # {}
  BY <1>2, WorkIsBacked DEF TextIn
<1> QED BY <1>1, <1>2

(* What the user is shown, what is saved and what the next conversation is   *)
(* sent with are one prompt: records stay whole, no text the user wrote and  *)
(* did not take back is lost to a save that fails, but the one a save that   *)
(* dies was writing, and the options are those of the disk.                  *)
THEOREM PromptStaysTrue == PromptSpec => []PromptIsTrue
<1>1. PromptHeld /\ AllShaped => PromptTypeOK
  BY ShapedIsTyped
<1>2. PromptHeld /\ AllShaped /\ AllBacked => TextSurvives
  BY BackedSurvives
<1>3. PromptTypeOK /\ TextSurvives /\ OptionsFollowDisk /\ EmptyFollowsOptions => PromptIsTrue
  BY DEF PromptIsTrue
<1> QED BY <1>1, <1>2, <1>3, SpecHeld, SpecShaped, SpecBacked, ConfigurationFollowsDisk, PTL
=============================================================================
