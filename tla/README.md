# TLA+ specifications of clobber

clobber runs coding agents (claude or codex child processes) for a workspace: a
Fastify server on Bun with a SQLite database (`packages/server`), a package that
starts the children (`packages/runtime`), a command line the agents call back
with (`packages/cli`), and a web client (`packages/web`). This directory holds
TLA+ modules of the parts whose behaviour depends on order, overlap, failure or
stale state, TLC configurations that check them on small instances, and theorems
that TLAPS proves for every instance.

Paths are relative to the repository; `server/` stands for `packages/server/src/`.

## The system

The server is one thread. A handler runs without interruption to its next
`await`, and any other handler, hook, timer or exit callback may run there. What
is in SQLite, in git or in a file survives a restart; the registry of live
children, the waiters, the parked requests, the timers, the queues and the exit
callbacks do not. Hard behaviour comes from those two facts, and from children
that exit, drop connections and die with the server or without it.

| Component | State | Operations | Talks to | Must hold |
|---|---|---|---|---|
| Session lifecycle (`server/spawn-pipeline.ts`, `resume-pipeline.ts`, `cycle-pipeline.ts`, `session-lifecycle.ts`, `boot-reap.ts`, `inject-prompt.ts`) | `agents` and `sessions` rows, bearer tokens, registry of live handles | spawn, wake, resume, confirm-resume, turn resume, cycle, kill, exit, SessionEnd, boot reap | every other component ends or wakes sessions through it | row, registry and token name one child; somebody is left to end every active row; ceilings; an agent stays seated across a cycle |
| Codex turns (`packages/runtime`, `server/runtime-event-binder.ts`) | a child and a stream for each turn, the provider's thread id | resume, bind, read, exit | lifecycle | the thread a turn announced is the one the next turn goes on with |
| Ask channel (`server/agent-question-*.ts`, `routes/agent-ask.ts`, `ask-user-question-bridge.ts`, `cli/src/commands/ask.ts`) | `agent_questions`, waiters, parked requests | ask, poll, answer, supersede, cancel at the end of the session | lifecycle (end), web client (answer) | one open question; whoever asked is told, and told what was chosen |
| Notification spine, messages, replies, confirm-resume, inbox (`notification-*.ts`, `routes/agent-messages.ts`, `routes/session-resume.ts`) | `notifications` rows, single-use tokens | emit, deliver, re-arm, message, reply, confirm, decline, acknowledge | lifecycle (inject, resume, attach) | delivered iff landed; coalescing loses nothing that is not replaced; one authorization, one resume |
| Triggers (`trigger-*.ts`) | timers, keyed indexes | fire, dispatch, reload | spine | one timer for an enabled trigger; nothing cleared is dispatched |
| Completion wakes (`completion-wake*.ts`, `agent-work-queue.ts`) | rows, a queue for each busy manager | status, end, walk, Stop, re-arm | spine | every manager has a row for every completion |
| Tool-token gate (`tool-token-gate.ts`, `routes/agent-cycle.ts`) | `tool_tokens` | mint, redeem, revoke | lifecycle (inject, cycle) | a token lives until it fired, and no longer than the next one |
| Final-report consumer (`final-report-consumer.ts`) | a cursor for each workspace | poll, run the callback, advance | status log | every report is handed over, in order |
| Hooks and task events (`routes/hooks.ts`, `habit-receiver.ts`, `task-event-handler.ts`) | latches, task snapshots, log rows | a request for each hook | lifecycle (SessionEnd), spine (quiet rows) | the log replays what tasks went through; a quiet row is said once |
| Embodiment and prompt composition (`spawn-context.ts`, `resume-pipeline.ts`, `compose-*.ts`, `workspace-prompt-module-catalog.ts`) | role content, dials, scope, prompt modules | spawn, resume, reconfigure, edits of modules | role content, lifecycle | a session comes back as it was; its header and its scope are honest; every listed module resolves |
| Role content and git (`role-*.ts`, `fork-role.ts`, `delete-role.ts`) | the engine's and the workspace's repository, pins, checkouts | one-shot edits, checkouts, fork, delete, boots | triggers, embodiment | a pin resolves and reads; an acknowledged edit is kept |
| Worktrees (`spawn-worktree.ts`) | directories, branches, identities of agents | attach, resume, install, move, remove | lifecycle | a failed attach leaves nothing behind that nobody knows of |
| Schema and migrations (`db.ts`, `schema.ts`, `*-migration.ts`) | the database | every boot | all | a boot keeps what was written, whatever cut an earlier one short |
| Transcripts (`session-health.ts`, `transcript-*.ts`, `packages/web/src/hooks/useAppendPoll.ts`) | a file of lines, a cursor | append, repair, poll, read in windows | lifecycle (resume), web client | a repair takes only a broken turn; the viewer shows each line once |
| Events and layout (`server/layout-event-store.ts`, `packages/web/src/layout/`) | panes, local storage, a ring of events | drag, open, close, poll, swap at a cycle | web client | a layout stays with its workspace; what was grabbed stays put |
| Workspaces and seeding, shared schemas | rows; none | single requests; parsing | all | (not modelled) |

`PROJECT.json` lists every component with its status and what is left out of it,
and every hazard at its line with the properties that are about it.

## Modules

| Module | Stands for | Proofs | Checked in |
|---|---|---|---|
| `SessionLifecycle` | the sessions of one role in one workspace | `SessionLifecycleProofs` | `MCServer`, `MCSessions`, `MCFair`, `MCSessionLifecycle` |
| `AskPromise`, `AskChannel` | what the ask channel promises; the channel of the code, which implements it | `AskPromiseProofs`, `AskChannelProofs`, `AskRefinementProofs` | `MCFair`, `MCAskChannel` |
| `Notifications` | rows, delivery, re-arm passes, replies, confirm-resume | `NotificationsProofs` | `MCNotifications` |
| `ToolTokenGate`, `TriggerScheduler`, `CompletionWakes`, `FinalReports`, `Embodiment` | the five components of those names | `ServerProofs` | `MCServer` |
| `Hooks`, `CodexTurns` | the hook route; the turns of a session on codex | `SessionsProofs` | `MCSessions` |
| `Transcripts` | the transcript file, its repair and its readers | `SessionsProofs` | `MCSessions` |
| `Subsequences` | what `filter` keeps of a list, for the two rows above | | |
| `RoleRepo`, `RoleTree`, `PromptModules` | the commits, pins and checkouts of roles; their files; their references to prompt modules | `ContentProofs` | `MCContent` |
| `Worktrees`, `Layout`, `AskAnswers` | the worktrees of agents; the panes of the browser; what is chosen in the ask widget | `ContentProofs` | `MCContent` |
| `RoleLineage` | the commit graph, and the default a role is compared with | `ContentProofs` | `MCContent` |
| `Migrations` | the boot's program of migrations | | `MCContent` |

`MCServer`, `MCSessions`, `MCContent` and `MCFair` check several components in one
run. An initial state picks, with the variable `part`, the component that moves,
and the others stay where they start. The components share no variable, so a step
of one neither enables nor disables a step of another, and their interleavings
would add states but no behaviour of any of them. Where two components do touch
(a session's end closes its questions, a wake attaches a session), the module at
the receiving end has an action for what the other one does.

Operators with a "Variant" comment are not part of a specification: each is a
definition with one plausible mistake. Put in the place of the definition that
follows it, it must break the property that `PROJECT.json` names, which shows that
the property looks at that code.

### SessionLifecycle

`agents`, `session`, `registry`, `token` are the rows and maps of the code under
their names; `proc` are the operating-system processes with the state of their
`exited.then` callback; `req` holds the handlers that wait at an `await`, each
with what it read before and will use after it. `hist` is a history variable: who
ended a session, and whether its session-ended wake was fired.

Each action is a handler up to its first `await`, or from one `await` to the next:
`SpawnReuse`, `SpawnNew`, `Wake`, `ConfirmResume`, `ResumeEnded`, `ResumeTurn`,
`Cycle` begin; `AttachDone`, `ResumeDone`, `ResumeSpawn`, `ResumeStarted`,
`RespawnDone`, `Reseat` and the failures continue; `Terminate`, `InjectReap`,
`SessionEndHook`, `ExitHandled`, `ProcExits`, `Restart` are the ends. `endSession`,
`Kill`, `bindLiveSession`, `attachSessionToAgent` are shared operators, as they
are shared functions in the code.

Abstractions. `ended_at` is a counter, because only its order is used. One role,
so the ceiling counts every row. A prompt, a worktree or a bundle that cannot be
prepared is a failure the handler may meet. The window between a cycle's fresh
session and the kill of the old one holds only promise callbacks in the code; here
any step may fall in it, which allows more than the code does.

### AskChannel and AskPromise

`waiter` is the map of `agent-question-waiter.ts`: one entry a question, taken over
by a later poll and deleted by the timer of an earlier one. A `parked` handler
survives its client's connection, as it does in the server. `client` are the two
kinds of clients: the command, which polls again while it is told `pending` and
posts again when it was never told an id, and the AskUserQuestion hook, whose one
request waits to the end. `KeepsPromise` maps `asked` to the question the client
got and `told` to what it was told, with every failure mapped to `gone`.

### Notifications

Two agents, because the recipient's role decides: a persistent manager is woken by
a pending row, a worker is not. `note` are the rows, numbered in the order of
`created_at`; `landed` is a history variable, the sessions a body was written to;
`sess` are the sessions in the order of `started_at`, a `deaf` one being active
without a registered child (the child died unnoticed, or survived a restart of the
server); `job` are the handlers and passes that wait. A wake may resume the
recipient's last session or attach a fresh one, whichever the lifecycle allows.
Writing a body and `markDelivered` are one step, since no `await` separates them
that matters here.

### The five components of MCServer

- `ToolTokenGate`. `row` is `tool_tokens`; `seat` the sessions a token may name;
  `gateJob` a handler that waits for a resumed child (`inject`), for `executeCycle`
  (`cycle`), or that comes back from it (`consume`). `mintAndInject` revokes, mints
  and prompts; `RedeemCycle`/`CycleSeats`/`Consume` and `RedeemTest` are the two
  actions behind the gate. `told`, `fired`, `failed` count what happened to a token.
- `TriggerScheduler`. `entry` holds every entry that was ever registered, in order;
  a live one is in the indexes, an armed one has a timer. `registerAgent`,
  `clearAgent` and the reloads are operators on it; a `fire` is a timer or a request
  that walks the live `Set` of its key and awaits a dispatch for each entry, while
  reloads change the `Set` (`orphaned`: the `Set` a walk holds has left the index).
- `CompletionWakes`. A status, a report and an end of a worker append to `log`; each
  completion walks the managers registered at that moment; `wake` are their rows,
  with a logical key made of the completions they tell of; `queue` is what waits for
  the Stop of a busy manager on a runtime without live injection.
- `FinalReports`. `drain` is the poll loop with the rows it selected; a callback may
  succeed, fail or never end; a restart keeps `cursor` only.
- `Embodiment`. `versions` are the contents of the role by commit, `perms` the
  workspace's scope, `sess` the rows with dials, scope and op-level layer, `embJob` a
  spawn or resume with what it read before it waited. `EmbRestart` loses the children
  and the handlers, and does to the rows what the statements in `Migrations` do: the
  op-level layer and the overrides come back empty. `first`, `forgot` and `tiers` are
  history: what a session was spawned with, whether a restart found it, and what was
  allowed at each moment.

### Hooks, Transcripts and CodexTurns

- `Hooks`. `cli` is the claude CLI of a session, external: its turn and the tasks it
  has made. `slot` are requests in flight; a handler is split where it waits: at the
  context length (`LengthRead`) and at the flush of the transcript (`Flushed`).
  `ToolArrives` runs the guards and the habits in their order, `PostToolUse` applies
  the task event first, `StopArrives` and `SessionEndArrives` are the other two
  kinds. `snapshot` and `moves` are the log rows of tasks. Answers may be lost.
- `Transcripts`. `file` is a sequence of lines by what a reader tells apart. The
  child is external, taken from what `session-health.ts` and its tests say. A repair
  is `RepairReads` and `RepairWrites`, with the child's appends in between; a tick of
  the browser is sent, answered and landed, and ticks overlap. `formatEntry`,
  `classify` and the windows are operators on the lines.
- `CodexTurns`. `kid` is a child with what the server has not split into lines yet of
  all it writes (`pipe`), and whether its consumer is bound. `Data` splits a chunk,
  `End` and `Close` are the end of stdout and of the child, `Launch` the start-up a
  resume waits for. An action is one tick of the event loop together with the
  promise callbacks that run before the next.

### The parts of MCContent

- `RoleRepo`. `commits` are contents by number, `branches`, `objects` and `upstream`
  the two repositories, `rows` the roles and their pins, `desk` the checkouts. A
  handler that writes several things may be stopped after any of them (its *reach*),
  and the server boots again. `kept` is history: edits acknowledged and not overridden.
- `RoleTree`. The file tree of a role as a function from paths; `PatchRole` rewrites
  all of it from the parsed contract, a checkout changes it file by file.
- `RoleLineage`. The commit graph as a parent function; the branch with the nearest
  merge base is the one a role is compared with.
- `PromptModules`. What ships, what the workspace wrote, what an older layout left;
  which of them a role's commits list, and what the cache knows of a pin. `loose` is
  history: references that were made to a module that does not exist, or that were left
  behind by a forced deletion or by a release that no longer ships the module.
- `Worktrees`. `disk` maps paths to branches, `ident` is what an agent's row stores,
  `att` the attaches and resumes in flight, `hired` the agents that have a row. Every
  boot gives those of them that have no identity one (`backfilled`), and either command
  of a roll-back may fail (`rollback`). `reported` and `stranded` are history: branches
  that a failed command left behind with an error that names them; and those whose
  creation a restart or a move cut short, whose row another attach of the same agent
  overwrote, or whose failed roll-back nobody is told of.
- `Migrations`. The boot is a program of SQL statements over the tables `db`, built
  from the source's lists of columns, and runs one statement at a time from a
  database of one of five releases. A kill may come between any two. A role that has
  no version and no pin is given the version of the bundle of its name, and is deleted
  with all that hangs on it if the engine ships none (`version`).
- `Layout`. A page's panes as a sequence; gestures, polls and events change them.
- `AskAnswers`. The widget's selections, the one string they are encoded into, and
  the three readers that take it apart again.

## Runs

Passing runs. Every property is also checked against at least one mutant.

| Run | Part and its bounds | Properties |
|---|---|---|
| Server | lifecycle, worker role on a turn runtime: 2 handlers, 2 agents, 2 sessions, 2 children, 1 restart | none: it fires the actions of a codex runtime, whose invariants are theorems |
| | tool-token gate: 2 handlers, 2 tokens, 3 sessions, 1 restart | `NoStaleFire`, `LiveUntilFired` |
| | triggers: an agent with two triggers and one with one, 5 entries, 1 fire at work, a clock of 2 instants | `OneTimerEach`, `NoDispatchCleared` |
| | completion wakes: 1 manager, 1 worker, 1 walk or pass, 3 log rows, 2 wakes, 1 reload or restart | `CompletionHasRow` |
| | final reports: 2 workspaces, 5 rows, 1 restart | `HandedOver` |
| | embodiment: 1 session, 1 handler, 1 verb, 1 dial value, 2 edits or restarts | `ResumesSame`, `HeaderHonest`, `OneMoment` |
| Sessions | lifecycle, persistent role with ceiling 1, session runtime: 2 handlers, a second agent asked for, 2 sessions, 2 children, 1 restart | `HandlesAgree`, `KilledChildUnreachable`, `ReaperOwed`, `FlaggedByReaper` |
| | hooks: 2 sessions of one agent, 2 requests at once, 3 hooks, 3 task rows, 1 quiet row, 1 restart | `QuietSaid`, `TransitionsReplay` |
| | transcript: 5 lines and 2 resumes; with a viewer 2 lines and 2 reads; windows of 2 | `RepairSpares`, `ViewerTracks`, `WindowsTile` |
| | codex: 1 resume at a time, 2 children, 2 threads, 2 lines each | `TurnHeard` |
| Notifications | 2 handlers or passes; 3 rows with 2 sessions, or 2 rows with 3; 1 restart | `DeliveredIffLanded`, `NewestTriggerKept`, `NoDoubleResume` |
| Content | role content: 2 desks, 2 names of which 1 ships and is advanced by one release, 3 commits, 2 edits; a crash after any step of an edit | `PinResolves`, `AckedEditsKept`, `TriggersStayInStep` |
| | files: 1 skill, program, companion file; 3 triggers of which 2 share a slug; 3 edits | `RoleReads` |
| | lineage: 2 shipped and 2 other names, 6 commits | `ComparedWithOrigin` |
| | prompt modules: 2 names, 2 roles, 2 releases, 3 commits | `RefsResolve` |
| | worktrees: 2 agents of one label, 2 attaches at once, 1 intervention by hand, 1 restart, commands of git that fail | `NoResidue` |
| | boots: databases of 5 releases, 1 write of the server, 1 kill | `UpgradeKeeps`, `NoRowLost` |
| | layout: 2 workspaces, 3 sessions, 1 page, 2 gestures, 2 polls, a ring of 2 | `LayoutsStayHome`, `HoldsGrabbed` |
| | answers: panels of 2 questions, 2 options, 3 typed strings, 2 asks, 3 calls, 2 clicks | `AnswerArrives` |
| Fair | lifecycle: 1 handler, 1 agent, 2 sessions, 3 children, 1 retry; fairness | `CycleKeepsAgentSeated`, `RequestsEnd`, `DeadChildReaped` |
| | ask channel: 2 commands, 1 hook, 3 questions, 3 parked requests, 1 fault, 1 resume; fairness | `EndedHasNoOpenAsk`, `AskerTold`, `KeepsPromise` |

Why the bounds are enough to be interesting. A race in a single-threaded server
needs two handlers that wait at once. Stale handles need a second child for a
session. A restart matters once: what it loses is lost in one step. Supersede
needs two questions and a third shows that the second is not affected by the
first one's timer. Coalescing needs two triggers, and a third for the second of
two passes. A fresh session in the place of a dead worker's needs the manager's
session, the dead one and a third. Two desks and a fork are the least that make a
commit stale. A kill during a boot matters once, for the next boot begins from
whatever was left. Handlers, slots, desks and sessions of one agent are symmetric,
and symmetry is only used where no liveness is checked. Deadlock is not checked:
every one of these systems may come to rest, for nobody has to ask, spawn or send.

Some bounds of Server are the smallest there are (one manager, one session, one
dial): the properties of those components are theorems, and their runs are there to
show the mutants and to fire every action. What no theorem covers has the larger
instances.

### What the violations show

- **LifecycleTwoLive** (`OneLiveSession`). Identity and active sessions are looked up
  before an `await`; two spawns, or a spawn and a wake, both attach. The README
  promises at most one live session of a persistent role.
- **LifecycleLateReaper** (`SecondReaperIsNoop`). Kill, resume, and only then the exit
  of the killed child: its callback ends the resumed session and drops the new
  child's handle.
- **AskReconnect** (`ReconnectKeepsQuestion`). Before the first window ends the command
  does not know the question's id; it posts anew and cancels its own question.
- **NotificationsCycle** (`RearmedOutlivesCycle`). The pass of a cycle runs to its first
  `await` before the old session is killed, and `deliver` takes the oldest active
  session. The row is written to the child that is killed next and counts as
  delivered. What softens it: the fresh session's first prompt lists rows that are
  delivered and not acknowledged.
- **WorktreeReuse** (`NoSharedTree`). A resume of an agent without a stored identity
  takes the path derived from its label, unchecked; another agent of that label may
  have created the worktree meanwhile. It needs no restart; a boot has the same effect,
  for its backfill gives two agents of one label the same identity.
- **RestartDials** (`DialsOutliveRestarts`). Every boot adds the dropped columns again,
  rebuilds the sessions table to drop them, and copies a list of columns without the
  dials and the op-level layer. `ResumesSame` speaks of what a resumed session is left
  with for that reason: its content always, its op-level layer until the next restart.
- **SkillSlash** (`PinReads`). A skill named `s/t` is committed and pinned as a tree
  that cannot be read back.

### What else was seen

Behaviour met while modelling, of which no document says the opposite clearly
enough to state it as a violated property.

- Lifecycle. `OneLiveSession` also fails serially: a crash between the fresh session
  of a cycle and the kill of the old one leaves two. A kill fires no session-ended
  wake. `performResume` does not catch a `WorktreeError`.
- Codex. A thread id is recorded only while the row is not ended; a child that exits
  with 0 or is severed by a restart before its thread line is read leaves an active
  row that cannot be prompted. A bare resume throws in `buildCodexRequest` outside
  any `try`, after confirm-resume has redeemed its token. With two resumes in flight
  the older child's announcement may end the row; `TurnHeard` speaks of a child that
  was alone.
- Runtime. One plugin directory for each role name is rewritten by every spawn and
  resume, so sessions pinned to different commits overwrite each other's skills.
- Hooks. The session-length latch is read before an `await` and set after it: two
  parallel hooks may both inject the hint. A latch set before a later habit throws
  loses the hint. A `bash` or `match` that throws ahead of a refusing habit makes the
  hook answer 500, and the call goes on. The stop-stall latch is lost at a restart.
- Migrations. A kill during a rebuild leaves a `*_new` table at which every later boot
  fails; between `DROP` and `RENAME` the table comes back empty; between an added
  column and its backfill the backfill is lost. `UpgradeKeeps` therefore speaks of
  boots that no kill cut short, and `NoRowLost`, of all, says that the row is in the
  table or in its copy.
  A role that was never versioned or pinned and whose name the engine does not ship is
  deleted at the upgrade, with its agents, sessions and all that hangs on them
  (`role-version-migration.ts:253-263`; `tests/role-versions.test.ts:141-161` asserts
  it). `UpgradeKeeps` leaves out these rows (`Orphaned`) and the columns that
  RestartDials is about. The seeding of
  roles prepares an `INSERT` over columns that a later migration adds: a database from
  before roles had an effort, with a workspace without roles, comes to no boot.
- Prompt modules. A release that no longer ships a module leaves the roles that list
  it as they are; their next spawn throws until the reference is taken out.
- Roles. The triggers of a deleted role may stay registered until a restart; the
  local branch a seeded role left makes a later fork fail; a crash after
  `branch -D` makes a retry of a delete fail; read-modify-write clients lose updates.
  A role named like a shipped one is compared with that default whatever it was
  forked from. A non-standing role whose pin the cache does not hold is missed by
  the guard on deleting a prompt module.
- Worktrees. `git worktree move` into an existing directory lands below it while the
  row stores the path given (the passing run moves to fresh places). Two attaches of one
  agent that overlap while the policy of branch names is changed both create a branch,
  and the row keeps the second: the first stays with its directory, and no agent owns it.
  `git worktree add -b` may make the branch and then refuse the path. The two commands
  of a roll-back may fail. The error of the request says so after an install that
  failed; after an identity that could not be written the errors of the roll-back are
  thrown away (`spawn-worktree.ts:66-68`), though the comment at 186-188 says that the
  caller surfaces them. The label cannot be used again until somebody cleans up.
- Tool tokens. Two redemptions of one token that both pass the lookup before either
  consumes it run the action twice.
- Layout. The sequence of layout events restarts at 0 with the server while the client
  keeps its cursor; overlapping ticks apply events twice; a reload replays old swaps.
- Transcripts. The viewer appends the same lines twice when a tick is answered after
  the next was sent (`ViewerTracks` excludes `raced`); a repair drops unanswered
  prompts and is not atomic; a killed child that writes on after a resume can break a
  second turn (`tampered`).
- Answers. A one-question answer with a note reaches `clobber ask` as the raw envelope;
  typed text that is JSON is decoded as such (excluded by `Plain`); two late answers at
  once both inject a message.

## Fairness

`SessionLifecycle`: weak fairness of the continuations of a handler (every promise
it waits for settles: the install step of a worktree has a timeout, the pause of a
respawn is a timer, a runtime that does not start exits) and of exit callbacks
(Node delivers an exit). `AskChannel`: weak fairness of the timer of a poll window
and of a command's next request. Nobody has to answer, ask, exit or spawn, and no
child is assumed to obey SIGTERM. The other modules claim safety only.

## Proofs

Every theorem is of the form `Spec => []P`, `Spec => [][A]_vars` or
`Spec => AbstractSpec`, and holds for every value of the constants under the named
assumption of its module: bounds are naturals, the two agents differ, the sets of
managers and of shipped roles are finite, the triggers of one agent are distinct,
there is a release, what ships has a name, labels and roots are strings, an
envelope that somebody types is a list of parts, null is not the content of a file
and the base branch is no role's default. One, `RoleFilesReadBack`, has a hypothesis of its own. Each rests on an inductive
invariant, and on one lemma for each action that changes what the invariant speaks
of. `PROJECT.json` lists the theorems.

### Session lifecycle (`SessionLifecycleProofs`)

`IInv` is type correctness, five safety invariants and the two conjuncts without
which they are not inductive:

- `WaitsOK`: what a handler read before its `await` still names existing rows, and
  a start-up under way owns a child no one else has a handle on. Without it
  `revive` could bind a child that another start-up was given, or that was killed.
- `ChildrenOK`: the pid of a row and an entry of the registry name a child of that
  very session. Without it `HandlesAgree` would not survive `ExitHandled`, which
  unregisters by session, nor `KilledChildUnreachable` survive `Kill` through
  another session.

The single invariants follow: `TypeCorrect`, `HandlesAlwaysAgree`,
`KilledStaysUnreachable`, `SomebodyReaps`, `CeilingHolds`, `OnlyReapedAreWoken`.
`FlaggedByReaper` is checked in Sessions; `AgentRowCeiling` and `IInv` are proved and in
no run.

### Ask channel (`AskPromiseProofs`, `AskChannelProofs`, `AskRefinementProofs`)

`AskPromise` never has two open questions and never tells a client anything but what
became of its question. `ChannelInv` holds, beside the safety invariants, `ParkedOK`
(a parked request is its client's only one and waits on that client's question, else
a notification could end the wait of another), `AskersOK` (nobody shares a question,
and who is not done was told nothing) and `ConnectedOK` (without faults whoever is
parked is the waiter of its question). `ChannelKeepsPromise` is the refinement: an ask
maps to `Ask`, an answer to `Answer`, the end of the session and a reaping restart to
`Close`, every other step to `Quiet`, and in each of them whoever is told something
had been told nothing before, which is where `AskersOK` and `ParkedOK` are needed.
`WaiterIsParked` and `PromptWhenConnected` are proved and in no run of their own.

### Notifications (`NotificationsProofs`)

`SpineIInv` strengthens the three properties of the run by what makes them inductive:

- a row that does not exist counts as pending and has landed nowhere, and a handler
  or pass holds rows that exist (`AbsentIsPending`, `HoldsRows`): else a step of a
  pass could deliver what nobody emitted;
- there is one confirm prompt for a dead session, and who resumes by it has redeemed
  its token (`OnePrompt`, `RedeemedFirst`), which is why two resumes of one session
  cannot be under way: the second one's redemption fails.

That coalescing keeps the newest trigger needs no more than the order in which a pass
takes its snapshot and cancels it in the same step. The sessions are not typed in this
invariant: the order in which they ended is kept as a sequence that is filtered and
sorted, whose library definitions are recursive, and nothing here depends on it.

### ToolTokenGate, TriggerScheduler, CompletionWakes, FinalReports, Embodiment (`ServerProofs`)

- `GateIInv`. Of the tokens of a target and a tool only the last minted may be live
  (`LiveIsLatest`), tokens are minted in order, and a handler that waits knows a token
  that was minted and, before it consumes it, has fired (`JobsOfTokens`). So no
  redemption of a stale token begins (`NoStaleToken`), and what leaves the store was
  fired, replaced, or revoked after a failed delivery (`TokenLivesUntilFired`).
- `TrigIInv`. Entries were registered one after another; a live entry is of an enabled
  trigger and the only one of its agent and kind; it is armed iff it is a cron entry;
  nothing is live while the scheduler is stopped. `TimersMatchEntries` is a part of it,
  `ClearedIsNotDispatched` an action property that follows from it. The recursion over
  agents at a start is a function on naturals, whose invariant is proved by
  well-founded induction on its least counterexample.
- `WakeIInv`. Registrations are numbered and distinct (`StampsFit`), and a walk has a
  row for every manager registered before it began that it is past (`WalkFits`); at its
  end it is past all. Reloads number a manager anew, which is why the walk's bound is
  a part of its record. `CompletionsHaveRows` is the action property at the walk's end.
  That a start numbers the managers at all takes the existence of a bijection from a
  finite set (`FiniteSetTheorems`).
- `ConsumerIInv`. A callback at work holds the first unconsumed reports of its
  workspace, and any report that came later comes after them (`DrainOK`): hence the
  cursor, which is moved to the row of the callback, passes none. What is neither
  consumed nor at a callback was handed over at most once for each restart
  (`HandedOnce`).
- `EmbIInv`. What workspace and role allow now was recorded (`TierNow`); a spawn is
  alone with its session, a resume embodies what the session was spawned with, and
  both bake a scope of one moment (`JobFits`); row, token and child agree (`SessFits`).
  The op-level layer of a row is that of the spawn, or empty if a restart found the row
  (`opOf`); nothing is in flight at a restart, so no resume can carry the old one over.
  `ResumeIsFaithful`, `HeaderIsHonest` and `ScopeOfOneMoment` are consequences.

### Hooks, CodexTurns and Transcripts (`SessionsProofs`)

- `QuietIInv`: the rows have their shape, and `QuietSaid`. It is inductive by itself,
  since a handler drains the rows and answers with them in one step, on every path.
- `TurnIInv`. A child whose stdout has ended has an empty pipe; all that an unbound
  child says is still before it; a child that is alone is the only one (`KidFits`). The
  registered child is bound, and if it is alone its session is active and its thread is
  in the row or still in the pipe (`LiveFits`); a resume waits for a child that nobody
  has bound (`WaitFits`). Without `KidFits` a start-up resolved by the exit could bind
  a stream whose thread line had been thrown away.
- `HistoryIInv`. `TransitionsReplay` reads a log back, task by task. That a call adds
  the right row needs the lists to name each task once (`TaskList`): the diff looks the
  status up by id, and with two tasks of one id it would write two rows that start at
  the same status. The rows of one task are the elements of a sequence at a set of its
  places; `RowAdded` says what a new row does to them, and stands for the
  induction over the log.
- `RepairIInv`. The child writes what it says in order, so that the turn after an
  unfinished one is its result (`WellTurned`) unless a killed one wrote behind a resume.
  That is what makes a cut before the last turn leave a history without a gap: the
  search for the cut stops at the last turn, and no earlier one can be open.
- `ViewIInv`. A view adds the lines of an answer to those it shows when the answer
  lands, and the file may have grown by then. `TickOK` says of the one answer under way
  that landing it would make the view whole. It stays so by `ReadOn`: what a reader sees
  only grows at its end, wherever in the file the lines are that it cannot read.
- `WindowsTile` needs no more of the file than its type. A page shows the entries of an
  interval that the detail has (`Formatted`), and the intervals of the pages lie end to
  end (`WindowsOf`). A list of numbers that grows is told by which numbers it holds
  (`GrowsOnce`), so that the order of the entries need not be followed from page to page:
  `PagesGrow` gives the entries that the pages up to one hold together, over the function
  behind `FlattenSeq`.

### PromptModules, Worktrees, RoleRepo, AskAnswers, Layout, RoleTree and RoleLineage (`ContentProofs`)

- `PmTypeOK` and `RefsResolve`, which is inductive once pins are typed: a commit on the
  references of a role adds no unresolved pair (`CommitRefsUnresolved`), and the guard of
  a deletion sees every role whose pin has a row in the cache (`ModulesResolve`).
- `WtIInv`. What a roll-back removes is the directory and the branch that the request
  remembers. So no two requests may install on one branch (`OwnBranches`), a branch that
  is being installed on is checked out nowhere else (`OneDirectory`), and a request acts
  for the branch of its agent's row unless that was given up meanwhile (`RowFollowed`).
  Then every branch has an owner or was reported (`WorktreesLeaveNoResidue`). That a
  directory which cannot be removed keeps its branch is no harm to it: git refuses to
  delete the branch, and the failure is recorded. The backfill of a boot changes only
  rows without an identity, whose branch nobody counts on. Without the refusal of git
  to add a branch that exists, `OwnBranches` fails at the second attach.
- `RoleIInv`. A desk commits on the base it checked out; `DesksFollow` says that where the
  role's branch is still at that base, the role is pinned to it, which is why a desk that
  is not stale commits on the content of the pin and keeps the edits promised
  (`AcknowledgedEditsStay`). `RowsNumbered` (ids are given out once, and a pin names a
  commit that was made) carries `PinsResolve` and, for the agents of a deleted role,
  `SchedulerFollowsPins`. Every edit ends in `Finalize` at whatever point a crash comes,
  so its lemma is proved once for all of them and for every reach.
- `AnswerIInv`. `AnswerArrives` speaks of what has been read. That the next reading is
  right too rests on every answer under way having been encoded from a panel that fits
  the questions of its ask (`InflightOK`), and on the widget being mounted anew when
  another question takes its place (`PanelOK`): the mutant that keeps it sends a selection
  of options the question does not have. That the three readers take the envelope apart
  into what was chosen is `PartsDecoded`, `LabelsRead`, `HookReads`, `MessageReads` and
  `CommandReads`, for panels, options and texts of any number. The newest open ask is the
  greatest element of a set of naturals, whose existence takes a least bound
  (`WellFoundedInduction`).
- `LayoutIInv`. A page takes its panes from the storage at a mount and from the saved
  layouts and the ring of closed panes at a click, so each of them must be of its
  workspace (`LayoutsStay`). A drag finds its pane by an id: `GrabbedIsHeld` needs that no
  two panes share one, which rests on `newPaneId` finding one that is free (`IdIsFree`: of
  n + 1 ids, n panes leave one), and that what comes in from outside (events, answered
  calls, deep links) adds tabs at the ends of panes and renames tabs where they stand
  (`Grown`, `SwapGood`).
- `TreeIInv`. `RoleReads` compares what the pinned files read as with what the edits
  asked for. A commit writes the whole contract, so the invariant is that the pinned tree
  is what `serializeRoleTree` makes of it, and that the contract gives every file a path
  of its own. `PartsApart` is why: the first two segments of a path tell the part it
  belongs to. Then reading undoes writing (`RoundTrip`), and what is read of any tree
  an agent has left on a desk can be written again (`ReadOK`). The theorem
  (`RoleFilesReadBack`) has a hypothesis, `PlainNames`: a skill and a program are named by
  one segment, and no companion has the path of the body. The schema of an edit asks for
  neither, and `SkillSlash` shows what a name of two segments does.
- `LineIInv`. Every shipped default starts a line of its own at the base layer, and a
  fetched tip or a pin is on the line of the role it comes from. `Reach` is recursive in
  the parents: `ReachIsDefined` gives the function, as the least sets closed under
  parents, and `Everywhere` (what holds of a number when it holds of the smaller ones
  holds of each) what is proved of it. The commits that one commit reaches lie on one
  line (`ReachLine`), so that two lines share the base layer only (`LinesApart`) and a
  merge base deeper than it gives the origin away (`OriginIsBest`).

### Only model-checked

- Liveness (`CycleKeepsAgentSeated`, `RequestsEnd`, `DeadChildReaped`, `AskerTold`): the
  prover does not reason about fairness.
- `UpgradeKeeps` and `NoRowLost`. What they say depends on the databases that the
  releases left behind, the constant `Eras`, and a boot runs a concrete list of statements
  taken from the source: there is nothing to be general in.
- `OneLiveSession`, whose run shows it violated, and the properties of the other
  violation runs.

A proof that needs induction over data takes it from the library's well-founded
relation on the naturals, by way of a least counterexample: `LeastNat`, `GreatestIn`
and `Everywhere` in `ServerProofs`, `SessionsProofs` and `ContentProofs`.

## Not modelled

- Creation and seeding of workspaces: sequential, within single requests. The
  role-contract sweep has no callers, and the cutover of role state acts on nothing
  once roles are pinned to commits.
- The wording of prompts, briefs, layers and messages; the event store; rendering,
  settings and drafts of the web client; the argv and temporary files of a child; the
  parsing of cron expressions; which package manager installs; the merge with
  upstream, which an agent runs with git itself.
- Quiet rows in `Notifications` (they are in `Hooks`), low priority, and recipients that
  are users. Interrupts and the busy flag in `SessionLifecycle` (the busy flag is in
  `CompletionWakes`). Several cron triggers of one agent in `TriggerScheduler`, which
  names a trigger by its kind.
- The catalogs are seeded at the first boot: a database that grew through every release
  is modelled for its tables only (`Migrations`).

## Plan

1. The composer's drafts and the runtime's plugin directory, both read before and
   written after an `await`.
2. Habits in the files of a role, kept one to a file as triggers are.
