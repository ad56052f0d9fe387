----------------------------- MODULE MCContent -----------------------------
(***************************************************************************)
(* What the server keeps outside its database, the browser's layout, and   *)
(* the forms in which answers and roles travel, for TLC in one run: as in  *)
(* MCServer, an initial state picks the component that moves and the       *)
(* others stay at their initial state.                                     *)
(***************************************************************************)
EXTENDS RoleRepo, RoleTree, RoleLineage, PromptModules, Worktrees, Migrations, Layout, AskAnswers, TLC

VARIABLE part

OneLabel == [a \in WtAgents |-> "l"]
NoPrefix == {<<>>}
OnePlace == {<<"m">>}

\* Two sessions of one workspace, and one of another.
SeatOf == ("a1" :> "A") @@ ("a2" :> "A") @@ ("b1" :> "B")

TwoLabels == <<"a", "b">>
TypedStrings == {Blank, Text("t"), List(<<"b">>)}

\* A skill and a program of one segment each, a name with a slash, two triggers of one slug.
OneSkill == {<<"s">>}
SlashedSkills == {<<"s">>, <<"s", "t">>}
OneProgram == {<<"p">>}
OneFile == {<<"f">>}
SlugOf == ("t1" :> "x") @@ ("t2" :> "x") @@ ("t3" :> "y")

TwoShipped == <<"m", "x">>

\* A module of the workspace that the next release ships, and one that it may have in the older layout.
TwoReleases == <<{}, {"v"}>>

Slots == Permutations(Desks) \cup Permutations(WtReqs)

(* Databases that releases of the server have left.                        *)
Current == [t \in Tables \cup Copies |-> IF t \in Copies THEN NoTable ELSE Table(SchemaOf[t], {})]
Fresh == [t \in Tables \cup Copies |-> NoTable]
\* before the dials of a session were kept
Undialed == [Current EXCEPT
  !["roles"] = Table(RoleCols, {{"workspace_id", "current_commit_sha"}}),
  !["workspaces"].held = {{}},
  !["agents"] = Table({"label"}, {{"label"}}),
  !["sessions"] = Table(SessionCols, {{"model"}}),
  !["notifications"] = Table({"type", "logical_key"}, {{"type"}})]
\* before roles were pinned to commits
Versioned == [Undialed EXCEPT
  !["roles"] = LET cols == {"name", "workspace_id", "allowed_tools", "current_version_id"}
               IN Table(cols, {cols}),
  !["role_versions"] = Table({"allowed_tools_json", "wake_programs_json"}, {{}}),
  !["sessions"] = Table({"wake_program", "role_version_id"}, {{}}),
  !["agent_questions"] = Table({"question"}, {{"question"}}),
  !["notifications"] = NoTable]
\* before roles belonged to a workspace, and without one
First == [Fresh EXCEPT
  !["workspaces"] = Table({}, {}),
  !["roles"] = LET cols == {"name", "unique_name", "allowed_tools"}
               IN Table(cols, {{"name", "allowed_tools"}})]
\* with a role that the engine does not ship and that was never pinned
Invented == [Current EXCEPT
  !["roles"].held = {{"workspace_id"}}, !["workspaces"].held = {{"theme"}},
  !["agents"].held = {{"label"}}, !["sessions"].held = {{"label", "model"}},
  !["agent_questions"].held = {{"questions_json"}}]
AllEras == {Fresh, Undialed, Versioned, First, Invented}
NoEra == {Fresh}
OneEra == {Fresh, Undialed}

Init ==
    /\ part \in {"roles", "files", "lineage", "modules", "worktrees", "boot", "layout", "answers"}
    /\ RoleInit /\ TreeInit /\ LineInit /\ PmInit /\ WtInit /\ MigInit /\ LayoutInit /\ AnswerInit
    /\ part # "roles" => dispatch = {}
    /\ part # "files" => wanted.prompt = "c"
    /\ part # "modules" => seeds = {} /\ stands("r")
    /\ part # "worktrees" => policy.on /\ hired = {}
    /\ part # "boot" => db = Fresh
    /\ part # "layout" => born = {} /\ \A p \in Pages : page[p].space = "A"
    /\ part # "answers" => asks = <<>>

Still(p, vars) == part # p => UNCHANGED vars

Next ==
    /\ UNCHANGED part
    /\ \/ part = "roles" /\ RoleNext
       \/ part = "files" /\ TreeNext
       \/ part = "lineage" /\ LineNext
       \/ part = "modules" /\ PmNext
       \/ part = "worktrees" /\ WtNext
       \/ part = "boot" /\ MigNext
       \/ part = "layout" /\ LayoutNext
       \/ part = "answers" /\ AnswerNext
    /\ Still("roles", roleVars) /\ Still("files", treeVars) /\ Still("lineage", lineVars)
    /\ Still("modules", pmVars) /\ Still("worktrees", wtVars) /\ Still("boot", migVars) /\ Still("layout", layoutVars)
    /\ Still("answers", answerVars)

Spec == Init /\ [][Next]_<<part, roleVars, treeVars, lineVars, pmVars, wtVars, migVars, layoutVars, answerVars>>
=============================================================================
