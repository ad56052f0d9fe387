----------------------------- MODULE Migrations -----------------------------
(***************************************************************************)
(* The boot of the database (packages/server/src/db.ts, schema.ts and the  *)
(* *-migration.ts files).  Every start of the server runs one program of   *)
(* SQL statements over whatever database it finds, each statement          *)
(* committed on its own; the process may be killed between two of them.    *)
(* While it is up the server writes rows.                                  *)
(*                                                                         *)
(* One row per table is followed.  A row is the set of its columns that    *)
(* hold something other than their default; of the name of a role matters  *)
(* whether the engine ships a bundle of that name, and a row holds "name"  *)
(* if it does.                                                             *)
(***************************************************************************)
EXTENDS Naturals, Sequences, SequencesExt

CONSTANTS Eras,                     \* the releases that may have left a database
          MaxWrites, MaxCuts        \* bounds on writes and on interrupted boots

VARIABLES db,         \* the tables: their columns and the row, if there is one
          mode,       \* the server process
          pc,         \* booting: the block and the statement that come next
          written,    \* history: <<table, column>> that must hold a value
          writes,     \* the server's writes so far
          cuts        \* boots that were cut short

migVars == <<db, mode, pc, written, writes, cuts>>

NoTable == [cols |-> {}, held |-> {}, made |-> FALSE]
Table(cols, held) == [cols |-> cols, held |-> held, made |-> TRUE]

-----------------------------------------------------------------------------
(* Statements, and blocks of statements behind one look at a column.       *)

Has(t, c) == [t |-> t, c |-> c, is |-> TRUE]
Lacks(t, c) == [t |-> t, c |-> c, is |-> FALSE]
Always == [t |-> "workspaces", c |-> "", is |-> FALSE]
Block(guard, stmts) == [guard |-> guard, do |-> stmts]

Add(t, c) == [k |-> "add", t |-> t, c |-> c]
DropColumn(t, c) == [k |-> "drop column", t |-> t, c |-> c]
\* a value of one column is derived from another one, where there is none yet
Fill(t, c, t2, c2) == [k |-> "fill", t |-> t, c |-> c, from |-> <<t2, c2>>]
Create(t, n, cols) == [k |-> "create", t |-> n, of |-> t, cols |-> cols]
Copy(t, n, cols) == [k |-> "copy", t |-> n, of |-> t, cols |-> cols]
Drop(t) == [k |-> "drop", t |-> t]
Rename(n, t) == [k |-> "rename", t |-> n, to |-> t]

ensureColumn(t, c) == <<Block(Lacks(t, c), <<Add(t, c)>>)>>
ensureColumns(t, cs) == FlattenSeq([i \in 1..Len(cs) |-> ensureColumn(t, cs[i])])

\* Variant: the copy is made after the table it is made from was dropped.
RebuildDropsFirst(t, n, cols) ==
  <<Create(t, n, cols), Drop(t), Copy(t, n, cols), Rename(n, t)>>

Rebuild(t, n, cols) ==
  <<Create(t, n, cols), Copy(t, n, cols), Drop(t), Rename(n, t)>>

-----------------------------------------------------------------------------
(* The schema and the migrations, in the order db.ts runs them.  Columns   *)
(* that are added for the same reason stand for each other.                *)

RoleCols == {"name", "workspace_id", "effort", "model", "current_commit_sha"}
SessionCols ==
  {"label", "runtime_provider", "provider_thread_id", "wake_program", "role_commit_sha",
   "was_live_at_shutdown", "composed_system_prompt", "model"}
Dials == {"op_level_addon", "model_override", "effort_override"}

SchemaOf == [
  workspaces      |-> {"perms_scope", "theme"},
  roles           |-> RoleCols,
  role_versions   |-> {"allowed_tools_json", "wake_programs_json", "contract_version"},
  agents          |-> {"label", "spawner_agent_id"},
  sessions        |-> SessionCols \cup Dials,
  session_tokens  |-> {"scope_json"},
  agent_status_log |-> {},
  agent_message_tokens |-> {},
  agent_questions |-> {"questions_json"},
  notifications   |-> {"type", "logical_key", "delivery_mode"}]
Tables == DOMAIN SchemaOf
Copies == {"roles_new", "sessions_new"}
\* the tables whose rows hang on a role, and go with it (ON DELETE CASCADE)
OfRole == {"roles", "role_versions", "agents", "sessions", "session_tokens", "agent_status_log",
           "agent_message_tokens", "agent_questions", "notifications"}

migrateRoleContractVersion == ensureColumn("role_versions", "contract_version")

dropLegacyGlobalUniqueName ==
  <<Block(Has("roles", "unique_name"),
          Rebuild("roles", "roles_new", {"name", "allowed_tools", "workspace_id", "current_version_id"}))>>

backfillRoleVersions == <<Block(Always, <<[k |-> "version"]>>)>>
\* the versions of shipped roles get what their bundles declare
backfillsFromBundles == <<Block(Always, <<[k |-> "shipped"]>>)>>
backfillUnseededWorkspaces == <<Block(Always, <<[k |-> "seed"]>>)>>

migrateRoleVersions ==
  ensureColumns("roles", <<"workspace_id", "current_version_id">>)
    \o ensureColumn("sessions", "role_version_id")
    \o ensureColumn("role_versions", "wake_programs_json")
    \o ensureColumn("sessions", "wake_program")
    \o dropLegacyGlobalUniqueName \o backfillRoleVersions
    \o backfillsFromBundles \o backfillUnseededWorkspaces

migrateSessionLabel ==
  ensureColumn("sessions", "label")
    \o <<Block(Always, <<Fill("sessions", "label", "agents", "label")>>)>>
migrateSessionRuntime == ensureColumns("sessions", <<"runtime_provider", "provider_thread_id">>)
migrateWorkspaceConfig == ensureColumn("workspaces", "perms_scope")

migrateAgentQuestions ==
  <<Block(Lacks("agent_questions", "questions_json"),
          <<Add("agent_questions", "questions_json"),
            Fill("agent_questions", "questions_json", "agent_questions", "question"),
            DropColumn("agent_questions", "question")>>)>>

migrateRoleEffort == ensureColumn("roles", "effort")
migrateRoleModel == ensureColumn("roles", "model")
migrateSessionWasLive == ensureColumn("sessions", "was_live_at_shutdown")
migrateSessionComposedPrompt == ensureColumn("sessions", "composed_system_prompt")

\* what the role's own list of tools says goes into a version first
migrateRoleAllowedToolsColumnDrop ==
  <<Block(Has("roles", "allowed_tools"),
          <<Fill("role_versions", "allowed_tools_json", "roles", "allowed_tools")>>
            \o Rebuild("roles", "roles_new", {"name", "effort", "model", "workspace_id", "current_version_id"}))>>

migrateRoleCommitPin ==
  ensureColumn("roles", "current_commit_sha") \o ensureColumn("sessions", "role_commit_sha")
migrateWorkspaceTheme == ensureColumn("workspaces", "theme")
migrateSessionModelEffort == ensureColumn("sessions", "model")
migrateAuditRowProvenance == ensureColumn("agent_status_log", "commit")
migrateRoleCommitProvenance == ensureColumn("agent_status_log", "role_commit_sha")

dropRoleCurrentVersionId ==
  <<Block(Has("roles", "current_version_id"), Rebuild("roles", "roles_new", RoleCols))>>
dropSessionRoleVersionId ==
  <<Block(Has("sessions", "role_version_id"), Rebuild("sessions", "sessions_new", SessionCols))>>
migrateRoleVersionPinDrop == dropRoleCurrentVersionId \o dropSessionRoleVersionId

migrateSessionOpLevel == ensureColumn("sessions", "op_level_addon")
migrateSessionDialOverrides == ensureColumns("sessions", <<"model_override", "effort_override">>)
migrateSessionTokenScope == ensureColumn("session_tokens", "scope_json")
migrateNotificationLogicalKey == ensureColumn("notifications", "logical_key")
migrateNotificationDeliveryMode == ensureColumn("notifications", "delivery_mode")
migrateNotificationCategory ==
  <<Block(Lacks("notifications", "category"),
          <<Add("notifications", "category"),
            Fill("notifications", "category", "notifications", "type")>>)>>
migrateAgentSpawner == ensureColumn("agents", "spawner_agent_id")
migrateAgentMessageTokenAgentIds == ensureColumn("agent_message_tokens", "recipient_agent_id")
migrateSessionContextTokens == ensureColumn("sessions", "context_tokens")

Boot ==
  <<Block(Always, <<[k |-> "schema"]>>)>>
    \o migrateRoleContractVersion \o migrateRoleVersions \o migrateSessionLabel
    \o migrateSessionRuntime \o migrateWorkspaceConfig \o migrateAgentQuestions
    \o migrateRoleEffort \o migrateRoleModel \o migrateSessionWasLive
    \o migrateSessionComposedPrompt \o migrateRoleAllowedToolsColumnDrop
    \o migrateRoleCommitPin \o migrateWorkspaceTheme \o migrateSessionModelEffort
    \o migrateAuditRowProvenance \o migrateRoleCommitProvenance \o migrateRoleVersionPinDrop
    \o migrateSessionOpLevel \o migrateSessionDialOverrides \o migrateSessionTokenScope
    \o migrateNotificationLogicalKey \o migrateNotificationDeliveryMode
    \o migrateNotificationCategory \o migrateAgentSpawner
    \o migrateAgentMessageTokenAgentIds \o migrateSessionContextTokens

-----------------------------------------------------------------------------
(* What a statement does to the database, and when it throws.              *)

filled(t, c) == \E r \in db[t].held : c \in r
give(t, c) == [db EXCEPT ![t].held = {r \cup {c} : r \in @}]

Throws(s) ==
  CASE s.k = "create" -> db[s.t].made
    [] s.k = "copy" -> ~s.cols \subseteq db[s.of].cols
    [] s.k = "seed" ->
         /\ db["workspaces"].held # {} /\ ~filled("roles", "workspace_id")
         /\ ~{"effort", "model", "current_commit_sha"} \subseteq db["roles"].cols
    [] OTHER -> FALSE

\* a role that has no version gets the one that its shipped bundle and its own list
\* of tools make; if there is no such bundle, it is deleted with all that hangs on it
versioned ==
  LET tools == IF filled("roles", "allowed_tools") THEN {"allowed_tools_json"} ELSE {}
  IN IF filled("roles", "name")
     THEN [give("roles", "current_version_id") EXCEPT !["role_versions"].held = {tools}]
     ELSE [t \in DOMAIN db |-> IF t \in OfRole THEN [db[t] EXCEPT !.held = {}] ELSE db[t]]

unversioned == /\ db["roles"].held # {} /\ db["role_versions"].held = {}
               /\ ~filled("roles", "current_version_id")

\* Variant: the pin of a role is not looked at.
versionPinned == IF unversioned THEN versioned ELSE db

version == IF unversioned /\ ~filled("roles", "current_commit_sha") THEN versioned ELSE db

effect(s) ==
  CASE s.k = "schema" ->
         [t \in DOMAIN db |-> IF t \in Tables /\ ~db[t].made THEN Table(SchemaOf[t], {}) ELSE db[t]]
    [] s.k = "add" -> [db EXCEPT ![s.t].cols = @ \cup {s.c}]
    [] s.k = "drop column" ->
         [db EXCEPT ![s.t].cols = @ \ {s.c}, ![s.t].held = {r \ {s.c} : r \in @}]
    [] s.k = "fill" -> IF filled(s.from[1], s.from[2]) THEN give(s.t, s.c) ELSE db
    [] s.k = "version" -> version
    [] s.k = "shipped" ->
         IF filled("roles", "name") THEN give("role_versions", "wake_programs_json") ELSE db
    [] s.k = "seed" ->
         IF db["workspaces"].held # {} /\ db["roles"].held = {}
         THEN [db EXCEPT !["roles"].held = {{"name", "workspace_id"}},
                         !["role_versions"].held = {{"wake_programs_json"}}] ELSE db
    [] s.k = "create" -> [db EXCEPT ![s.t] = Table(s.cols, {})]
    [] s.k = "copy" -> [db EXCEPT ![s.t].held = {r \cap s.cols : r \in db[s.of].held}]
    [] s.k = "drop" -> [db EXCEPT ![s.t] = NoTable]
    [] s.k = "rename" -> [db EXCEPT ![s.t] = NoTable, ![s.to] = db[s.t]]

-----------------------------------------------------------------------------
(* The boot, the server's writes, and the end of the process.              *)

\* the columns the running server fills in
Columns ==
  {<<"sessions", c>> : c \in (SessionCols \ {"label", "runtime_provider"}) \cup Dials \cup {"context_tokens"}}
    \cup {<<"roles", "current_commit_sha">>, <<"roles", "model">>, <<"agents", "spawner_agent_id">>,
          <<"agent_questions", "questions_json">>, <<"notifications", "category">>,
          <<"workspaces", "theme">>}

\* what a row of an old table has to end up with
Owed(d) ==
  {x \in {<<"role_versions", "allowed_tools_json">>, <<"sessions", "label">>,
           <<"agent_questions", "questions_json">>, <<"notifications", "category">>} :
     LET from == CASE x[1] = "role_versions" -> <<"roles", "allowed_tools">>
                   [] x[1] = "sessions" -> <<"agents", "label">>
                   [] x[1] = "agent_questions" -> <<"agent_questions", "question">>
                   [] x[1] = "notifications" -> <<"notifications", "type">>
     IN \E r \in d[from[1]].held : from[2] \in r}

\* a role of no shipped name that was given neither a version nor a pin
Orphaned(d) ==
  /\ d["roles"].held # {} /\ d["role_versions"].held = {}
  /\ \A r \in d["roles"].held : {"name", "current_version_id", "current_commit_sha"} \cap r = {}

MigInit ==
  /\ db \in Eras
  /\ mode = "down" /\ pc = <<1, 1>>
  /\ written = {x \in Owed(db) \cup {y \in Columns : filled(y[1], y[2])} :
                   Orphaned(db) => x[1] \notin OfRole}
  /\ writes = 0 /\ cuts = 0

Starts ==
  /\ mode = "down"
  /\ mode' = "booting" /\ pc' = <<1, 1>>
  /\ UNCHANGED <<db, written, writes, cuts>>

block == Boot[pc[1]]
next(i) == IF pc[2] < i THEN <<pc[1], pc[2] + 1>> ELSE <<pc[1] + 1, 1>>
passed == pc[2] = 1 /\ (block.guard.c \in db[block.guard.t].cols) # block.guard.is

PassesOver ==
  /\ mode = "booting" /\ pc[1] <= Len(Boot) /\ passed
  /\ pc' = next(1)
  /\ UNCHANGED <<db, mode, written, writes, cuts>>

Executes ==
  /\ mode = "booting" /\ pc[1] <= Len(Boot) /\ ~passed
  /\ LET s == block.do[pc[2]]
     IN IF Throws(s) THEN mode' = "down" /\ UNCHANGED <<db, pc>>
        ELSE db' = effect(s) /\ pc' = next(Len(block.do)) /\ UNCHANGED mode
  /\ UNCHANGED <<written, writes, cuts>>

ComesUp ==
  /\ mode = "booting" /\ pc[1] > Len(Boot)
  /\ mode' = "up"
  /\ UNCHANGED <<db, pc, written, writes, cuts>>

\* an old column that must have a value refuses new rows
refuses(t) == t = "agent_questions" /\ "question" \in db[t].cols

\* a role that the server makes is pinned to a commit at once
blank(t) == IF t = "roles" THEN {"workspace_id", "current_commit_sha"} ELSE {}

Writes(t, c) ==
  /\ mode = "up" /\ writes < MaxWrites
  /\ ~refuses(t)
  /\ db' = [db EXCEPT ![t].held = IF @ = {} THEN {blank(t) \cup {c}} ELSE {r \cup {c} : r \in @}]
  /\ written' = written \cup {<<t, c>>} /\ writes' = writes + 1
  /\ UNCHANGED <<mode, pc, cuts>>

Stops ==
  /\ mode = "up"
  /\ mode' = "down"
  /\ UNCHANGED <<db, pc, written, writes, cuts>>

Killed ==
  /\ mode = "booting" /\ cuts < MaxCuts
  /\ mode' = "down" /\ cuts' = cuts + 1
  /\ UNCHANGED <<db, pc, written, writes>>

MigNext ==
  \/ Starts \/ PassesOver \/ Executes \/ ComesUp \/ Stops \/ Killed
  \/ \E x \in Columns : Writes(x[1], x[2])

MigSpec == MigInit /\ [][MigNext]_migVars

-----------------------------------------------------------------------------
(* Properties.                                                             *)

\* A database of any release comes up with the columns of this one, and what
\* the old columns said and the server has written is still there, as long as
\* no boot was interrupted.  Two things are lost, and only these: a role of no
\* shipped name that was never versioned or pinned is deleted, with its agents
\* and sessions; and the rebuild of the sessions table, which every boot
\* repeats, forgets the columns that it does not know.
RebuildForgets == {<<"sessions", c>> : c \in Dials \cup {"context_tokens"}}
UpgradeKeeps ==
  mode = "up" /\ cuts = 0 =>
    /\ \A x \in written \ RebuildForgets : filled(x[1], x[2])
    /\ \A t \in Tables : SchemaOf[t] \subseteq db[t].cols
    /\ \A n \in Copies : ~db[n].made

\* Whenever the process may be killed, each row that a rebuild copies is whole
\* in the old table or in the new one.
CarriedBy(t) == IF t = "roles" THEN RoleCols ELSE SessionCols
NoRowLost ==
  \A x \in {<<"roles", "roles_new">>, <<"sessions", "sessions_new">>} :
    LET must == {c \in CarriedBy(x[1]) : <<x[1], c>> \in written \ {<<"sessions", "label">>}}
    IN must # {} => \E t \in {x[1], x[2]} : \E r \in db[t].held : must \subseteq r

\* What a session was started or reconfigured with outlives the restarts of
\* the server (session-dial-override-migration.ts, session-op-level-migration.ts).
DialsOutliveRestarts ==
  mode = "up" => \A c \in Dials : <<"sessions", c>> \in written => filled("sessions", c)
=============================================================================
