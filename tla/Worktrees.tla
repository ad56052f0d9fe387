----------------------------- MODULE Worktrees -----------------------------
(***************************************************************************)
(* The working directories of agents (packages/server/src/                 *)
(* spawn-worktree.ts, routes/agent-worktrees.ts).  With the workspace's    *)
(* policy on, an agent works in a git worktree whose branch and path are   *)
(* derived from its label at the first attach and kept on its row.  An     *)
(* attach or a resume reads the row, waits, may add a worktree, waits for  *)
(* the install of its dependencies and then starts the process; other      *)
(* requests, moves and removals by hand come in between.                   *)
(*                                                                         *)
(* A path is a sequence of names, so that a directory may hold another; a  *)
(* branch is its prefix and the label.                                     *)
(***************************************************************************)
EXTENDS Naturals, Sequences, SequencesExt, Functions

CONSTANTS WtAgents, WtReqs,    \* agents; attaches and resumes in flight
          Label,               \* the label of each agent
          Roots, BranchPrefixes,     \* what the workspace may configure
          Places,              \* where a worktree may be moved to
          Backfilled,          \* the agents of an older database
          MaxHands,            \* bound on moves, edits and removals by hand
          MaxBoots             \* bound on restarts

ASSUME WtNames == /\ Label \in [WtAgents -> STRING] /\ Roots \subseteq STRING
                  /\ Places \cup BranchPrefixes \subseteq Seq(STRING)

VARIABLES policy,    \* the workspace's spawn_worktree
          ident,     \* worktree_branch and worktree_path of an agent's row
          disk,      \* the worktrees: the branch checked out at a path
          refs,      \* the branches of the repository
          att,       \* the attaches and resumes in flight
          running,   \* the processes of live sessions and their directories
          hands,     \* moves, edits and removals by hand so far
          boots,     \* restarts so far
          hired,     \* the agents that have a row
          veterans,  \* the agents that have a session to resume
          reported,  \* history: branches that a failed command of git left behind, and the
                     \* error of the request named
          stranded   \* history: branches whose creation a restart cut short, whose
                     \* directory a move took away under the install, whose row a second
                     \* attach of the agent, under another policy, replaced, or whose
                     \* roll-back failed where nobody looks at its errors

wtVars == <<policy, ident, disk, refs, att, running, hands, boots, hired, veterans, reported, stranded>>

NoTree == [branch |-> <<>>, path |-> <<>>]
Idle == [st |-> "none"]
Repo == <<"repo">>

branchFor(pol, a) == Append(pol.prefix, Label[a])
pathFor(pol, a) == <<pol.root, Label[a]>>

\* migrateAgentWorktreeIdentity, at every boot: with the policy on, the agents A that
\* have no identity are given one, whose worktree is not made
backfilled(pol, A, id) ==
  [a \in WtAgents |-> IF pol.on /\ a \in A /\ id[a] = NoTree
                      THEN [branch |-> <<"clobber", Label[a]>>, path |-> <<"siblings", Label[a]>>]
                      ELSE id[a]]

\* after a boot that found the agents of an older database; a standing role has its
\* agent before the first session
WtInit ==
  /\ policy \in [on : BOOLEAN, prefix : BranchPrefixes, root : Roots]
  /\ veterans \in SUBSET Backfilled
  /\ hired \in {A \in SUBSET WtAgents : veterans \subseteq A}
  /\ ident = backfilled(policy, veterans, [a \in WtAgents |-> NoTree])
  /\ disk = << >> /\ refs = {} /\ running = {} /\ hands = 0 /\ boots = 0
  /\ reported = {} /\ stranded = {}
  /\ att = [h \in WtReqs |-> Idle]

-----------------------------------------------------------------------------
(* git.                                                                    *)

exists(p) == p \in DOMAIN disk
added(b, p) == [q \in DOMAIN disk \cup {p} |-> IF q = p THEN b ELSE disk[q]]
removed(p) == Restrict(disk, {q \in DOMAIN disk : ~IsPrefix(p, q)})

\* a move into a directory that exists goes below it
landing(from, to) == IF exists(to) THEN Append(to, Last(from)) ELSE to
carried(q, from, to) == IF IsPrefix(from, q)
                        THEN landing(from, to) \o SubSeq(q, Len(from) + 1, Len(q)) ELSE q

\* Variant: the branch is left behind
rollbackTreeOnly(b, p, said) == disk' = removed(p) /\ UNCHANGED <<refs, reported, stranded>>

\* `worktree remove --force` and `branch -D`: each may fail, and git refuses to
\* delete a branch that is checked out.  The caller says in its error what
\* failed, or it does not.
rollback(b, p, said) ==
  /\ disk' \in {disk, removed(p)}
  /\ refs' \in IF b \in Range(disk') THEN {refs} ELSE {refs, refs \ {b}}
  /\ LET failed == disk' # removed(p) \/ (b \notin Range(disk') /\ b \in refs')
     IN /\ reported' = IF failed /\ said THEN reported \cup {b} ELSE reported
        /\ stranded' = IF failed /\ ~said THEN stranded \cup {b} ELSE stranded

-----------------------------------------------------------------------------
(* resolveSpawnCwd.                                                        *)

live(a) == \E r \in running : r.agent = a

WtBegins(h, a, mode) ==
  /\ att[h] = Idle /\ ~live(a) /\ (mode = "resume" => a \in veterans)
  /\ att' = [att EXCEPT ![h] = [st |-> "read", agent |-> a, mode |-> mode, seen |-> ident[a], pol |-> policy]]
  /\ hired' = hired \cup {a}
  /\ UNCHANGED <<policy, ident, disk, refs, running, hands, boots, veterans, reported, stranded>>

wtFails(h) == att' = [att EXCEPT ![h] = Idle] /\ UNCHANGED running

\* a process cannot be started in a directory that is not there
wtStarts(h, cwd) ==
  /\ att' = [att EXCEPT ![h] = Idle]
  /\ running' = IF exists(cwd) \/ cwd = Repo
                THEN running \cup {[agent |-> att[h].agent, cwd |-> cwd]} ELSE running

\* createWorktree until the install: a fetch may fail, git refuses a branch or a
\* path that exists.  It makes the branch before it looks at the path, and the
\* error of a refusal names both.
creates(h, b, p, first) ==
  \/ wtFails(h) /\ UNCHANGED <<disk, refs, reported>>
  \/ /\ b \notin refs
     /\ wtFails(h)
     /\ refs' = refs \cup {b} /\ reported' = reported \cup {b} /\ UNCHANGED disk
  \/ /\ b \notin refs /\ ~exists(p)
     /\ disk' = added(b, p) /\ refs' = refs \cup {b}
     /\ att' = [att EXCEPT ![h] = [st |-> "install", agent |-> @.agent, branch |-> b, path |-> p, first |-> first]]
     /\ UNCHANGED <<running, reported>>

starts(h, cwd) == wtStarts(h, cwd) /\ UNCHANGED <<disk, refs, reported>>

Resolves(h) ==
  LET r == att[h] IN
  /\ r.st = "read"
  /\ CASE ~r.pol.on -> starts(h, Repo)
       [] r.pol.on /\ r.seen # NoTree ->
            IF exists(r.seen.path) THEN starts(h, r.seen.path)
            ELSE creates(h, r.seen.branch, r.seen.path, FALSE)
       [] OTHER ->
            IF r.mode = "resume" THEN starts(h, pathFor(r.pol, r.agent))
            ELSE creates(h, branchFor(r.pol, r.agent), pathFor(r.pol, r.agent), TRUE)
  /\ UNCHANGED <<policy, ident, hands, boots, hired, veterans, stranded>>

\* the install ends well, or fails or is killed at its timeout; the identity of a
\* first attach may fail to be written, and then the errors of the roll-back are lost
Installed(h) ==
  LET r == att[h] IN
  /\ r.st = "install"
  /\ \/ /\ ident' = IF r.first THEN [ident EXCEPT ![r.agent] = [branch |-> r.branch, path |-> r.path]] ELSE ident
        /\ stranded' = IF r.first THEN stranded \cup ({ident[r.agent].branch} \ {NoTree.branch, r.branch})
                       ELSE stranded
        /\ starts(h, r.path)
     \/ \E said \in BOOLEAN : /\ said \/ r.first
                              /\ rollback(r.branch, r.path, said) /\ wtFails(h) /\ UNCHANGED ident
  /\ UNCHANGED <<policy, hands, boots, hired, veterans>>

WtEnds(r) == /\ running' = running \ {r} /\ veterans' = veterans \cup {r.agent}
             /\ UNCHANGED <<policy, ident, disk, refs, att, hands, boots, hired, reported, stranded>>

-----------------------------------------------------------------------------
(* The routes, the operator's hands and a restart.                         *)

hand == hands < MaxHands /\ hands' = hands + 1 /\ UNCHANGED <<boots, hired, veterans, reported>>

\* `worktrees set` by the session itself, `set-agent` when the agent is idle
MovesTree(a, to, own) ==
  LET from == ident[a].path
      at(q) == carried(q, from, to) IN
  /\ hand /\ own = live(a) /\ ident[a] # NoTree
  /\ exists(from) /\ ~IsPrefix(from, to) /\ ~exists(landing(from, to))
  /\ disk' = [q \in {at(p) : p \in DOMAIN disk} |-> disk[CHOOSE p \in DOMAIN disk : at(p) = q]]
  /\ running' = {[r EXCEPT !.cwd = at(@)] : r \in running}
  /\ ident' = [ident EXCEPT ![a].path = to]
  /\ stranded' = stranded \cup {att[h].branch : h \in {i \in WtReqs :
                     att[i].st = "install" /\ IsPrefix(from, att[i].path)}}
  /\ UNCHANGED <<policy, refs, att>>

\* `worktrees set-default` keeps a field that is absent and turns the policy on
SetDefault(prefix, root) ==
  /\ hand
  /\ policy' = [on |-> TRUE, prefix |-> prefix, root |-> root]
  /\ UNCHANGED <<ident, disk, refs, att, running, stranded>>

PolicyOff == /\ hand /\ policy' = [policy EXCEPT !.on = FALSE]
             /\ UNCHANGED <<ident, disk, refs, att, running, stranded>>

\* worktrees nobody works in are cleaned up by hand, with or without the branch
Cleaned(p, andBranch) ==
  /\ hand /\ exists(p)
  /\ \A h \in WtReqs : att[h].st = "install" => att[h].branch \in Range(removed(p))
  /\ \A r \in running : ~IsPrefix(p, r.cwd)
  /\ disk' = removed(p)
  /\ refs' = IF andBranch /\ disk[p] \notin Range(disk') THEN refs \ {disk[p]} ELSE refs
  /\ UNCHANGED <<policy, ident, att, running, stranded>>

\* the attaches that wait and the sessions are gone; createDatabase backfills
WtRestart ==
  /\ boots < MaxBoots /\ boots' = boots + 1
  /\ stranded' = stranded \cup {att[h].branch : h \in {i \in WtReqs : att[i].st = "install"}}
  /\ att' = [h \in WtReqs |-> Idle] /\ running' = {}
  /\ veterans' = veterans \cup {r.agent : r \in running}
  /\ ident' = backfilled(policy, hired, ident)
  /\ UNCHANGED <<policy, disk, refs, hands, hired, reported>>

WtNext ==
  \/ \E h \in WtReqs : \/ \E a \in WtAgents, m \in {"attach", "resume"} : WtBegins(h, a, m)
                       \/ Resolves(h) \/ Installed(h)
  \/ \E r \in running : WtEnds(r)
  \/ \E a \in WtAgents, to \in Places, own \in BOOLEAN : MovesTree(a, to, own)
  \/ \E x \in BranchPrefixes, r \in Roots : SetDefault(x, r)
  \/ PolicyOff \/ WtRestart
  \/ \E p \in DOMAIN disk, b \in BOOLEAN : Cleaned(p, b)

WtSpec == WtInit /\ [][WtNext]_wtVars

-----------------------------------------------------------------------------
(* A creation that fails leaves nothing behind that nobody knows of: every *)
(* branch is named by the row of an agent, or is being installed, or a git *)
(* command failed on it and the error of the request named it; a roll-back *)
(* does not find its branch checked out elsewhere.  Not so where a restart *)
(* or a move came in the middle, two attaches of one agent overlapped      *)
(* under two policies, or the roll-back after an identity that could not   *)
(* be written failed as well.                                              *)
NoResidue ==
  \A b \in refs : \/ \E a \in WtAgents : ident[a].branch = b
                  \/ \E h \in WtReqs : att[h].st = "install" /\ att[h].branch = b
                  \/ b \in reported \cup stranded

(* No silent reuse: two agents never work in one worktree.                 *)
NoSharedTree == \A r, s \in running : r.cwd = s.cwd /\ r.agent # s.agent => r.cwd = Repo

=============================================================================
