------------------------------ MODULE RoleRepo ------------------------------
(***************************************************************************)
(* Role content under git (packages/server/src/role-*.ts, fork-role.ts,    *)
(* delete-role.ts and their routes).  A workspace has a clone of the       *)
(* engine's upstream repository; a role is a row whose pin names a commit. *)
(* An agent edits a role through a checkout on its desk, or in one request *)
(* (a one-shot patch); the operator edits it from the web editor.  Every   *)
(* handler runs to its end without an await, so requests do not interleave *)
(* inside one; a crash may stop the ones that write several things after   *)
(* any of them, and the server boots again.                                *)
(*                                                                         *)
(* A commit is an index into `commits`, whose entry is the content of its  *)
(* tree: the set of edits it holds and whether it declares triggers.       *)
(***************************************************************************)
EXTENDS Naturals, Sequences, FiniteSets, Functions

CONSTANTS Desks,        \* the desks of the agents that edit roles
          Names,        \* role names
          Shipped,      \* the roles the engine ships
          MaxCommits, MaxEdits, MaxRows  \* bounds

ASSUME RoleNames == /\ Shipped \subseteq Names /\ IsFiniteSet(Shipped)
                    /\ {MaxCommits, MaxEdits, MaxRows} \subseteq Nat

VARIABLES commits,    \* the content of every commit made
          upstream,   \* the engine's repository: the commits of <name>-default
          objects,    \* the commits the workspace's clone holds ({}: not cloned)
          branches,   \* the local branch of a name in the clone (0: none)
          rows,       \* the role rows, by name
          rowCount, edits,  \* ids and edits given out
          desk,       \* the checkout open on a desk
          draft,      \* what a read-modify-write client has read
          dispatch,   \* the ids of the roles whose triggers the scheduler has registered
          kept        \* history: the edits acknowledged and not overridden

roleVars == <<commits, upstream, objects, branches, rows, rowCount, edits, desk, draft, dispatch, kept>>

None == [id |-> 0]
Pins == [own : BOOLEAN, sha : 0..MaxCommits]
RoleTypeOK ==
  /\ commits \in Seq([edits : SUBSET (1..MaxEdits), triggers : BOOLEAN])
  /\ upstream \in [Shipped -> Seq(1..MaxCommits)] /\ objects \subseteq 1..MaxCommits
  /\ branches \in [Names -> 0..MaxCommits]
  /\ \A n \in Names : rows[n].id # 0 => rows[n].pin \in Pins
  /\ dispatch \subseteq 1..MaxRows /\ kept \in [Names -> SUBSET (1..MaxEdits)]

-----------------------------------------------------------------------------
(* The row, its content and the clone.                                     *)

role(n) == rows[n].id # 0
pinned(n) == role(n) /\ rows[n].pin.sha # 0
content(n) == commits[rows[n].pin.sha]
engine == UNION {Range(upstream[s]) : s \in Shipped}
clone == IF objects = {} THEN engine ELSE objects

resolvable(n) == pinned(n) /\ rows[n].pin.sha \in clone

\* what the scheduler registers for the roles R, per agent of a role
registered(R, C) == {R[n].id : n \in {m \in Names :
                       /\ R[m].id # 0 /\ R[m].agent /\ R[m].persistent
                       /\ R[m].pin.sha # 0 /\ C[R[m].pin.sha].triggers}}

\* a boot establishes the agents of the persistent roles that have none
established(R) == [n \in Names |-> IF R[n].id = 0 THEN R[n]
                                   ELSE [R[n] EXCEPT !.agent = @ \/ R[n].persistent]]

-----------------------------------------------------------------------------
(* Boot: the upstream repository is materialized once and then advanced,   *)
(* never rewritten; the workspace is seeded with pins on its tips.         *)

RoleInit ==
  LET many == Cardinality(Shipped) IN
  \E number \in Injection(Shipped, 1 .. many), p \in [1 .. many -> BOOLEAN] :
    /\ commits = [c \in 1 .. many |-> [edits |-> {}, triggers |-> p[c]]]
    /\ upstream = [s \in Shipped |-> <<number[s]>>]
    /\ objects = {} /\ branches = [n \in Names |-> 0]
    /\ rows = [n \in Names |-> IF n \notin Shipped THEN None
              ELSE [id |-> number[n], pin |-> [own |-> FALSE, sha |-> number[n]],
                    persistent |-> p[number[n]], agent |-> p[number[n]]]]
    /\ rowCount = many /\ edits = 0
    /\ desk = [d \in Desks |-> None] /\ draft = None
    /\ dispatch = registered(rows, commits) /\ kept = [n \in Names |-> {}]

\* Variant: the bundle's branch is rewritten instead of advanced
advanceRewriting(s, c) == [upstream EXCEPT ![s] = <<c>>]

advance(s, c) == [upstream EXCEPT ![s] = Append(@, c)]

\* a boot; a shipped bundle that changed advances its branch, no pin follows
EngineBoots(s, drifted) ==
  /\ IF drifted
     THEN /\ Len(upstream[s]) < 2 /\ Len(commits) < MaxCommits
          /\ commits' = Append(commits, [edits |-> {}, triggers |-> FALSE])
          /\ upstream' = advance(s, Len(commits'))
     ELSE UNCHANGED <<commits, upstream>>
  /\ rows' = established(rows)
  /\ dispatch' = registered(rows', commits')
  /\ UNCHANGED <<objects, branches, rowCount, edits, desk, draft, kept>>

\* an agent of the role is spawned from the browser
Establish(n) ==
  /\ resolvable(n) /\ ~rows[n].agent
  /\ rows' = [rows EXCEPT ![n].agent = TRUE]
  /\ dispatch' = dispatch \cup (registered(rows', commits) \cap {rows[n].id})
  /\ UNCHANGED <<commits, upstream, objects, branches, rowCount, edits, desk, draft, kept>>

FetchUpstream == /\ objects' = clone \cup engine
                 /\ UNCHANGED <<commits, upstream, branches, rows, rowCount, edits, desk, draft, dispatch, kept>>

-----------------------------------------------------------------------------
(* The substrate of every edit: put the role's own branch on the pin,      *)
(* commit on it, pin the commit, write the manifest columns, reload.       *)

Reaches == {"committed", "pinned", "columns", "answered"}

editBranch(n) == [branches EXCEPT ![n] = rows[n].pin.sha]

\* Variant: only a commit that declares triggers reloads.
reloadsDeclared(tree, persistent, base) ==
  persistent /\ tree.triggers /\ ~commits[base].triggers

reloads(tree, persistent, base) == persistent /\ tree.triggers # commits[base].triggers

reloaded(id, R, C) == (dispatch \ {id}) \cup (registered(R, C) \cap {id})

\* `at` the branches the commit is made on; `reach` how far a crash lets it go
Finalize(n, at, tree, persistent, base, reach) ==
  LET sha == Len(commits) + 1
      row == [rows[n] EXCEPT !.pin = [own |-> TRUE, sha |-> sha]] IN
  /\ tree.triggers => persistent
  /\ sha <= MaxCommits
  /\ commits' = Append(commits, tree)
  /\ objects' = clone \cup {sha}
  /\ branches' = [at EXCEPT ![n] = sha]
  /\ LET after == [rows EXCEPT ![n] = CASE reach = "committed" -> @
                                        [] reach = "pinned" -> row
                                        [] OTHER -> [row EXCEPT !.persistent = persistent]]
     IN  rows' = IF reach = "answered" THEN after ELSE established(after)
  /\ dispatch' = IF reach # "answered" THEN registered(rows', commits')
                 ELSE IF reloads(tree, persistent, base) THEN reloaded(rows[n].id, rows', commits')
                 ELSE dispatch
  /\ UNCHANGED <<upstream, rowCount>>

\* an edit made knowingly over others (`over`) ends their promise with the pin
keeps(n, tree, over, reach) ==
  LET rest == IF over THEN kept[n] \cap tree.edits ELSE kept[n] IN
  [kept EXCEPT ![n] = CASE reach = "committed" -> @
                        [] reach = "answered" -> rest \cup tree.edits
                        [] OTHER -> rest]

-----------------------------------------------------------------------------
(* The working-copy verbs.                                                 *)

open(d) == desk[d].id # 0

OpenCheckout(d, n) ==
  /\ resolvable(n)
  /\ open(d) => desk[d].id = rows[n].id
  /\ objects' = clone
  /\ branches' = editBranch(n)
  /\ desk' = [desk EXCEPT ![d] = [id |-> rows[n].id, branch |-> n, base |-> rows[n].pin.sha]]
  /\ UNCHANGED <<commits, upstream, rows, rowCount, edits, draft, dispatch, kept>>

\* Variant: the local branch is compared with the pin of the row
staleByPin(d) == branches[desk[d].branch] # rows[desk[d].branch].pin.sha

stale(d) == branches[desk[d].branch] # desk[d].base

\* the agent has edited its files: what it commits is the content it checked
\* out, with an edit of its own, with or without triggers
CommitCheckout(d, force, triggers, persistent, reach) ==
  LET n == desk[d].branch
      tree == [edits |-> commits[desk[d].base].edits \cup {edits'}, triggers |-> triggers] IN
  /\ open(d) /\ rows[n].id = desk[d].id /\ branches[n] # 0
  /\ stale(d) => force
  /\ edits < MaxEdits /\ edits' = edits + 1
  /\ Finalize(n, branches, tree, persistent, desk[d].base, reach)
  /\ desk' = IF reach = "answered" THEN [desk EXCEPT ![d] = None] ELSE desk
  /\ kept' = keeps(n, tree, force, reach)
  /\ UNCHANGED draft

DiscardCheckout(d) ==
  /\ open(d)
  /\ desk' = [desk EXCEPT ![d] = None]
  /\ UNCHANGED <<commits, upstream, objects, branches, rows, rowCount, edits, draft, dispatch, kept>>

-----------------------------------------------------------------------------
(* The one-shot patches: the content is read in the request that writes it. *)

\* `over`: the patch holds more than what it read in the same request
Patch(n, tree, over, reach) ==
  /\ resolvable(n)
  /\ Finalize(n, editBranch(n), tree, rows[n].persistent, rows[n].pin.sha, reach)
  /\ kept' = keeps(n, tree, over, reach)
  /\ UNCHANGED desk

ApplyEdit(n, triggers, reach) ==
  /\ edits < MaxEdits /\ edits' = edits + 1
  /\ Patch(n, [edits |-> content(n).edits \cup {edits'}, triggers |-> triggers], FALSE, reach)
  /\ UNCHANGED draft

\* an agent with a checkout of the role on its desk is refused
elsewhere(n) == \E d \in Desks : desk[d].id # rows[n].id

EditByAgent(n, triggers, reach) == resolvable(n) /\ elsewhere(n) /\ ApplyEdit(n, triggers, reach)

EditByOperator(n, triggers, reach) == resolvable(n) /\ ApplyEdit(n, triggers, reach)

EditWakePrograms(n, reach) == resolvable(n) /\ elsewhere(n) /\ ApplyEdit(n, content(n).triggers, reach)

EditPromptModules(n, reach) == resolvable(n) /\ elsewhere(n) /\ ApplyEdit(n, content(n).triggers, reach)

\* a session grants its own role a skill of the workspace, or releases it
EditSelfSkills(n, reach) ==
  /\ resolvable(n) /\ elsewhere(n) /\ rows[n].persistent
  /\ ApplyEdit(n, content(n).triggers, reach)

ApplyTriggers(n, reach) ==
  /\ resolvable(n)
  /\ Patch(n, [content(n) EXCEPT !.triggers = ~@], FALSE, reach)
  /\ UNCHANGED <<edits, draft>>

(* The clients that read the role in one request and write a whole field   *)
(* in another.                                                             *)

ReadRole(n) ==
  /\ resolvable(n) /\ objects' = clone
  /\ draft' = [id |-> rows[n].id, name |-> n, edits |-> content(n).edits]
  /\ UNCHANGED <<commits, upstream, branches, rows, rowCount, edits, desk, dispatch, kept>>

WriteBack(reach) ==
  LET n == draft.name IN
  /\ draft.id # 0 /\ rows[n].id = draft.id /\ resolvable(n) /\ edits < MaxEdits
  /\ edits' = edits + 1
  /\ Patch(n, [content(n) EXCEPT !.edits = draft.edits \cup {edits'}], TRUE, reach)
  /\ draft' = None

EditorSaves(reach) == WriteBack(reach)

MergedSkills(reach) == draft.id # 0 /\ elsewhere(draft.name) /\ WriteBack(reach)

-----------------------------------------------------------------------------
(* Fork and delete.                                                        *)

ForkReaches == {"committed", "inserted", "answered"}

ForkRole(src, new, reach) ==
  /\ resolvable(src) /\ ~role(new) /\ branches[new] = 0
  /\ rowCount < MaxRows /\ Len(commits) < MaxCommits
  /\ commits' = Append(commits, content(src))
  /\ objects' = clone \cup {Len(commits')}
  /\ branches' = [branches EXCEPT ![new] = Len(commits')]
  /\ rowCount' = rowCount + 1
  /\ LET row == [id |-> rowCount', persistent |-> rows[src].persistent, agent |-> FALSE,
                 pin |-> [own |-> TRUE, sha |-> IF reach = "inserted" THEN 0 ELSE Len(commits')]]
         after == IF reach = "committed" THEN rows ELSE [rows EXCEPT ![new] = row]
     IN  rows' = IF reach = "answered" THEN after ELSE established(after)
  /\ kept' = IF reach = "answered" THEN [kept EXCEPT ![new] = content(src).edits] ELSE kept
  /\ dispatch' = IF reach = "answered" THEN dispatch ELSE registered(rows', commits')
  /\ UNCHANGED <<upstream, edits, desk, draft>>

\* `use`: the role has a live session, agents spawned under its ceiling, or none
Uses == {"none", "spawned", "live"}
blocked(n, force, use) == \/ use = "live"
                          \/ ~force /\ (rows[n].persistent \/ use = "spawned")

DeleteReaches == {"unbranched", "answered"}

\* the row takes its agents with it, so the reload that follows finds none to
\* clear: what they had registered stays until a boot

DeleteRole(n, reach) ==
  /\ role(n) /\ \E force \in BOOLEAN, use \in Uses : ~blocked(n, force, use)
  /\ IF pinned(n) /\ rows[n].pin.own
     THEN /\ branches[n] # 0
          /\ branches' = [branches EXCEPT ![n] = 0]
          /\ objects' = clone
     ELSE UNCHANGED <<branches, objects>>
  /\ rows' = IF reach = "answered" THEN [rows EXCEPT ![n] = None] ELSE established(rows)
  /\ kept' = IF reach = "answered" THEN [kept EXCEPT ![n] = {}] ELSE kept
  /\ dispatch' = IF reach = "answered" THEN dispatch ELSE registered(rows', commits)
  /\ UNCHANGED <<commits, upstream, rowCount, edits, desk, draft>>

RoleNext ==
  \/ \E s \in Shipped, drifted \in BOOLEAN : EngineBoots(s, drifted)
  \/ FetchUpstream
  \/ \E d \in Desks :
       \/ DiscardCheckout(d)
       \/ \E n \in Names : OpenCheckout(d, n)
       \/ \E f, t, p \in BOOLEAN, r \in Reaches : CommitCheckout(d, f, t, p, r)
  \/ \E r \in Reaches :
       \/ EditorSaves(r) \/ MergedSkills(r)
       \/ \E n \in Names :
            \/ EditWakePrograms(n, r) \/ EditPromptModules(n, r) \/ EditSelfSkills(n, r)
            \/ ApplyTriggers(n, r)
            \/ \E t \in BOOLEAN : EditByAgent(n, t, r) \/ EditByOperator(n, t, r)
  \/ \E n \in Names :
       \/ ReadRole(n)
       \/ Establish(n)
       \/ \E m \in Names, r \in ForkReaches : ForkRole(m, n, r)
       \/ \E r \in DeleteReaches : DeleteRole(n, r)

RoleSpec == RoleInit /\ [][RoleNext]_roleVars

-----------------------------------------------------------------------------
(* Every pin names a commit its repository holds, over boots that advance  *)
(* the engine's branches, clones made late and crashes in the middle of an *)
(* edit (the pin is written after the commit, and the engine never drops   *)
(* the commit a role was seeded with).                                     *)
PinResolves == \A n \in Names : pinned(n) => rows[n].pin.sha \in clone

(* An edit that was acknowledged stays in the content the role is pinned   *)
(* to, whatever other desks, one-shot patches and crashes do, until a      *)
(* commit is forced over it, a client writes back a field it read before   *)
(* it, or the role is deleted.                                             *)
AckedEditsKept == \A n \in Names : pinned(n) => kept[n] \subseteq content(n).edits

(* The scheduler has the triggers of an agent exactly when its role is     *)
(* persistent and the content it is pinned to declares them.  Every        *)
(* commit, patch, boot and crash keeps it so, with two exceptions in       *)
(* finalizeRoleCommit: a commit forced over a newer one compares its       *)
(* triggers with the base of the desk, not with the pin it replaces, and   *)
(* a commit that changes only whether the role is persistent reloads       *)
(* nothing.                                                                *)
inStep(n) ==
  pinned(n) /\ rows[n].agent =>
    (rows[n].id \in dispatch <=> rows[n].persistent /\ content(n).triggers)
turned(n) == role(n) /\ role(n)' /\ rows[n].persistent # rows'[n].persistent
forcedOver(d) == open(d) /\ stale(d) /\ ~open(d)'
TriggersStayInStep ==
  [][(\A n \in Names : inStep(n) /\ ~turned(n)) /\ (\A d \in Desks : ~forcedOver(d))
       => \A n \in Names : inStep(n)']_roleVars
=============================================================================
