----------------------------- MODULE MCPromptEdit -----------------------------
(* Bounds for PromptEdit: one skill, in the project or of the user, two tools. *)
EXTENDS PromptEdit

MCGlobalSkills == {"tidy"}
MCOneSkill == <<"tidy">>
MCTools == <<"bash", "read">>
=============================================================================
