-------------------------- MODULE SessionLifecycle --------------------------
(***************************************************************************)
(* The life of the sessions of one role in one workspace, as the server    *)
(* (packages/server/src) runs it: rows of the sessions table, the          *)
(* in-memory registry of live children, the bearer tokens, the child       *)
(* processes, and the request handlers that spawn, resume, wake, cycle and *)
(* kill them.                                                              *)
(*                                                                         *)
(* The server is one thread.  A handler runs without interruption up to    *)
(* its next await; every await of a handler is a point where any other     *)
(* handler, hook or exit event may run.  A handler that is waiting is a    *)
(* record of `req`: it holds what the handler read before the await and    *)
(* will use after it.                                                      *)
(***************************************************************************)
EXTENDS Naturals, FiniteSets

CONSTANTS
    Persistent,   \* role.persistent
    Lifetime,     \* capabilities.processLifetime: "session" (claude), "turn" (codex)
    Ceiling,      \* workspace_roles.max_concurrent of the role, 0 when it has no row
    Retries,      \* RESPAWN_MAX_RETRIES
    Reqs,         \* bound: handlers that may be waiting at the same time
    MaxAgents,    \* bound: agent rows ever created
    MaxSessions,  \* bound: session rows ever created
    MaxProcs,     \* bound: child processes ever spawned
    MaxRestarts   \* bound: restarts of the server

ASSUME RoleAssumption == /\ Persistent \in BOOLEAN
                         /\ Lifetime \in {"session", "turn"}
ASSUME BoundAssumption == /\ Ceiling \in Nat
                          /\ Retries \in Nat
                          /\ MaxAgents \in Nat
                          /\ MaxSessions \in Nat
                          /\ MaxProcs \in Nat
                          /\ MaxRestarts \in Nat

Agents == 1 .. MaxAgents
Sessions == 1 .. MaxSessions
Procs == 1 .. MaxProcs
None == 0

VARIABLES
    agents,    \* agent rows are 1 .. agents, in the order of their created_at
    session,   \* session rows
    proc,      \* child processes
    registry,  \* the process whose stdin and kill the registry holds
    token,     \* the process that was given the session's current bearer token
    req,       \* the handlers waiting at an await
    clock,     \* ended_at of the last session to end
    restarts,  \* restarts so far
    hist       \* who ended a session, and whether its session-ended wake was fired

vars == <<agents, session, proc, registry, token, req, clock, restarts, hist>>

\* A session row; agent = None when there is no row, ended_at = 0 for NULL.
Rows == [agent: 0 .. MaxAgents, pid: 0 .. MaxProcs, ended_at: Nat, was_live: BOOLEAN]

\* `handler` is the `spawned.exited.then` callback: not attached, pending,
\* run, or lost with the server that attached it.
Children == [st: {"none", "running", "signalled", "leaving", "dead"},
             sess: 0 .. MaxSessions,
             handler: {"none", "pending", "ran", "lost"}]

\* Where a handler waits: attach, respawn (prepareSpawnContext of a fresh
\* session), resume (repair and prepareSpawnContext), startup
\* (waitForRuntimeStartup), backoff (sleep between two respawns), reseat (the
\* fresh session of a cycle is up, the old one is not killed yet).
Waits == {"attach", "resume", "startup", "respawn", "backoff", "reseat"}
\* `attach` is the attach the handler performs, or falls back to when its resume
\* is refused: with an opening message, idle, or none.
Attaches == {"none", "kick", "idle"}
Requests == [at: Waits \cup {"idle"}, attach: Attaches, agent: 0 .. MaxAgents,
             sess: 0 .. MaxSessions, proc: 0 .. MaxProcs, tries: 0 .. Retries]
Idle == [at |-> "idle", attach |-> "none", agent |-> None, sess |-> None,
         proc |-> None, tries |-> 0]

Reapers == {"none", "exit", "hook", "kill", "reap", "inject", "resume", "cycle"}

TypeOK ==
    /\ agents \in 0 .. MaxAgents
    /\ session \in [Sessions -> Rows]
    /\ proc \in [Procs -> Children]
    /\ registry \in [Sessions -> 0 .. MaxProcs]
    /\ token \in [Sessions -> 0 .. MaxProcs]
    /\ req \in [Reqs -> Requests]
    /\ clock \in Nat
    /\ restarts \in 0 .. MaxRestarts
    /\ hist \in [Sessions -> [by: Reapers, woken: BOOLEAN]]

-----------------------------------------------------------------------------
(* The queries of session-store.ts and agent-store.ts.                     *)

Exists(s) == session[s].agent # None
Active(s) == Exists(s) /\ session[s].ended_at = 0
Ended(s) == Exists(s) /\ session[s].ended_at # 0

countActive == Cardinality({s \in Sessions : Active(s)})
countActiveExcluding(x) == Cardinality({s \in Sessions \ {x} : Active(s)})
activeForAgent(a) == {s \in Sessions : Active(s) /\ session[s].agent = a}

\* The agent's most recently ended session when the boot reaper flagged it.
latestShutdownIfTip(a) ==
    {s \in Sessions :
        /\ Ended(s)
        /\ session[s].agent = a
        /\ session[s].was_live
        /\ \A t \in Sessions : Ended(t) /\ session[t].agent = a
                                  => session[t].ended_at <= session[s].ended_at}

\* Variant: the newest agent row, session-less or not.
findReusableAnyAgent == {a \in 1 .. agents : \A b \in 1 .. agents : b <= a}

\* A session-less agent row, the newest first.
findReusableSessionlessAgent ==
    {a \in 1 .. agents :
        /\ activeForAgent(a) = {}
        /\ \A b \in 1 .. agents : activeForAgent(b) = {} => b <= a}

Live(p) == proc[p].st \in {"running", "signalled", "leaving"}
FreshSession(s) == ~Exists(s) /\ \A t \in Sessions : t < s => Exists(t)
FreshProc(p) == proc[p].st = "none" /\ \A q \in Procs : q < p => proc[q].st # "none"

NotEnded == [by |-> "none", woken |-> FALSE]

-----------------------------------------------------------------------------
Init ==
    /\ agents = 0
    /\ session = [s \in Sessions |->
                    [agent |-> None, pid |-> None, ended_at |-> 0, was_live |-> FALSE]]
    /\ proc = [p \in Procs |-> [st |-> "none", sess |-> None, handler |-> "none"]]
    /\ registry = [s \in Sessions |-> None]
    /\ token = [s \in Sessions |-> None]
    /\ req = [r \in Reqs |-> Idle]
    /\ clock = 0
    /\ restarts = 0
    /\ hist = [s \in Sessions |-> NotEnded]

\* Variant: the token is not revoked.
endSessionKeepingToken(s, by, wakes) ==
    IF Active(s)
    THEN /\ session' = [session EXCEPT ![s].ended_at = clock + 1]
         /\ clock' = clock + 1
         /\ hist' = [hist EXCEPT ![s] = [by |-> by, woken |-> wakes]]
         /\ UNCHANGED token
    ELSE UNCHANGED <<session, clock, token, hist>>

(***************************************************************************)
(* endSession: nothing on a missing or already ended row; otherwise marks  *)
(* the row ended and revokes the token.  `wakes` tells whether the caller  *)
(* uses the returned identity to fire the session-ended wake.  The         *)
(* questions it cancels are modelled in AskChannel.                        *)
(***************************************************************************)
endSession(s, by, wakes) ==
    IF Active(s)
    THEN /\ session' = [session EXCEPT ![s].ended_at = clock + 1]
         /\ clock' = clock + 1
         /\ token' = [token EXCEPT ![s] = None]
         /\ hist' = [hist EXCEPT ![s] = [by |-> by, woken |-> wakes]]
    ELSE UNCHANGED <<session, clock, token, hist>>

\* Variant: the killed child stays registered.
KillOnly(s) ==
    /\ proc' = [p \in Procs |->
                  IF p = registry[s] /\ proc[p].st = "running"
                  THEN [proc[p] EXCEPT !.st = "signalled"] ELSE proc[p]]
    /\ UNCHANGED registry

\* live.kill("SIGTERM") and registry.unregister, when the registry has a handle.
Kill(s) ==
    /\ registry' = [registry EXCEPT ![s] = None]
    /\ proc' = [p \in Procs |->
                  IF p = registry[s] /\ proc[p].st = "running"
                  THEN [proc[p] EXCEPT !.st = "signalled"] ELSE proc[p]]

\* bindLiveSession: the token, the registry entry and the exit callback.
bindLiveSession(s, p) ==
    /\ token' = [token EXCEPT ![s] = p]
    /\ registry' = [registry EXCEPT ![s] = p]
    /\ proc' = [proc EXCEPT ![p] = [st |-> IF @.st = "none" THEN "running" ELSE @.st,
                                    sess |-> s, handler |-> "pending"]]

\* The end of attachSessionToAgent: the runtime is spawned, the row inserted
\* and the live handles bound in one go.
attachSessionToAgent(a, s, p) ==
    /\ FreshSession(s)
    /\ FreshProc(p)
    /\ session' = [session EXCEPT ![s] = [agent |-> a, pid |-> p, ended_at |-> 0,
                                          was_live |-> FALSE]]
    /\ bindLiveSession(s, p)

-----------------------------------------------------------------------------
(* Requests up to their first await.                                       *)

Waiting(at, attach, a, s) == [at |-> at, attach |-> attach, agent |-> a, sess |-> s,
                              proc |-> None, tries |-> 0]
Attach(a, kick) == Waiting("attach", kick, a, None)
Begin(r, w) == req[r] = Idle /\ req' = [req EXCEPT ![r] = w]

\* executeSpawn: a persistent role wakes the session-less identity it has ...
SpawnReuse(r) ==
    /\ Persistent
    /\ \E a \in findReusableSessionlessAgent : Begin(r, Attach(a, "kick"))
    /\ UNCHANGED <<agents, session, proc, registry, token, clock, restarts, hist>>

\* ... and otherwise creates an agent row, below its ceiling of rows; any other
\* role creates one while it has fewer active sessions than its ceiling.
mayCreateAgent ==
    IF Persistent
    THEN findReusableSessionlessAgent = {} /\ agents < Ceiling
    ELSE countActive < Ceiling

SpawnNew(r) ==
    /\ mayCreateAgent
    /\ agents < MaxAgents
    /\ agents' = agents + 1
    /\ Begin(r, Attach(agents + 1, "kick"))
    /\ UNCHANGED <<session, proc, registry, token, clock, restarts, hist>>

\* resumeEndedSession checks the ceiling before it continues to performResume;
\* a caller with a fallback goes on to attach when resume refuses.
resumeOrElse(s, kick) ==
    IF countActive < Ceiling
    THEN Waiting("resume", kick, session[s].agent, s)
    ELSE Attach(session[s].agent, kick)

\* POST /sessions/:id/resume, POST /agent/sessions/:id/resume.
ResumeEnded(r, s) ==
    /\ Ended(s)
    /\ countActive < Ceiling
    /\ Begin(r, Waiting("resume", "none", session[s].agent, s))
    /\ UNCHANGED <<agents, session, proc, registry, token, clock, restarts, hist>>

\* deliver(), for a high notification to an agent with no active session: only
\* a persistent role is woken; resume the shutdown tip, else attach.
Wake(r, a) ==
    /\ Persistent
    /\ a \in 1 .. agents
    /\ activeForAgent(a) = {}
    /\ IF latestShutdownIfTip(a) = {}
       THEN Begin(r, Attach(a, "kick"))
       ELSE \E s \in latestShutdownIfTip(a) : Begin(r, resumeOrElse(s, "kick"))
    /\ UNCHANGED <<agents, session, proc, registry, token, clock, restarts, hist>>

\* POST /sessions/:id/confirm-resume, with a valid token: resume, else attach.
\* The token is only ever issued for a non-persistent agent.
ConfirmResume(r, s) ==
    /\ ~Persistent
    /\ Ended(s)
    /\ Begin(r, resumeOrElse(s, "idle"))
    /\ UNCHANGED <<agents, session, proc, registry, token, clock, restarts, hist>>

\* injectPrompt with no live child: a turn-lifetime session is continued, a
\* session-lifetime one is reaped on the spot.
ResumeTurn(r, s) ==
    /\ Lifetime = "turn"
    /\ Active(s)
    /\ registry[s] = None
    /\ Begin(r, Waiting("resume", "none", session[s].agent, s))
    /\ UNCHANGED <<agents, session, proc, registry, token, clock, restarts, hist>>

InjectReap(s) ==
    /\ Lifetime = "session"
    /\ Active(s)
    /\ registry[s] = None
    /\ endSession(s, "inject", FALSE)
    /\ UNCHANGED <<agents, proc, registry, req, restarts>>

\* Variants: one retry too many; retries that are not counted.
bootFailedOnceMore(w) ==
    IF w.tries <= Retries THEN [w EXCEPT !.at = "backoff", !.tries = @ + 1] ELSE Idle
bootFailedUncounted(w) == [w EXCEPT !.at = "backoff"]

\* A failed boot attempt of a cycle: retried after a pause, at most Retries times.
bootFailed(w) ==
    IF w.tries < Retries THEN [w EXCEPT !.at = "backoff", !.tries = @ + 1] ELSE Idle

\* respawnOnce: the capacity check leaves the kill target out.
respawnOnce(w) ==
    IF countActiveExcluding(w.sess) < Ceiling
    THEN [w EXCEPT !.at = "respawn"] ELSE bootFailed(w)

\* executeCycle, called by the session's own bearer.
Cycle(r, s) ==
    /\ Persistent
    /\ Active(s)
    /\ token[s] # None
    /\ Begin(r, respawnOnce(Waiting("backoff", "none", session[s].agent, s)))
    /\ UNCHANGED <<agents, session, proc, registry, token, clock, restarts, hist>>

-----------------------------------------------------------------------------
(* Requests after an await.                                                *)

Finish(r) == req' = [req EXCEPT ![r] = Idle]

\* codex requires a prompt: it is not attached idle.
AttachDone(r) ==
    /\ req[r].at = "attach"
    /\ Lifetime = "session" \/ req[r].attach = "kick"
    /\ \E s \in Sessions, p \in Procs : attachSessionToAgent(req[r].agent, s, p)
    /\ Finish(r)
    /\ UNCHANGED <<agents, clock, restarts, hist>>

\* No bundle, no prompt or no worktree.  An agent row created for it stays.
AttachFailed(r) ==
    /\ req[r].at = "attach"
    /\ Finish(r)
    /\ UNCHANGED <<agents, session, proc, registry, token, clock, restarts, hist>>

\* Variants: the flag is kept; the pid is not updated.
reviveKeepingFlag(s, p) ==
    /\ session' = [session EXCEPT ![s] = [@ EXCEPT !.ended_at = 0, !.pid = p]]
    /\ hist' = [hist EXCEPT ![s] = NotEnded]
    /\ bindLiveSession(s, p)
reviveKeepingPid(s, p) ==
    /\ session' = [session EXCEPT ![s] = [@ EXCEPT !.ended_at = 0, !.was_live = FALSE]]
    /\ hist' = [hist EXCEPT ![s] = NotEnded]
    /\ bindLiveSession(s, p)

\* performResume after the spawn: markActive, updatePid, bindLiveSession.
revive(s, p) ==
    /\ session' = [session EXCEPT ![s] = [@ EXCEPT !.ended_at = 0, !.was_live = FALSE, !.pid = p]]
    /\ hist' = [hist EXCEPT ![s] = NotEnded]
    /\ bindLiveSession(s, p)

\* claude has no startup handshake: the session is revived at once.
ResumeDone(r) ==
    /\ req[r].at = "resume"
    /\ Lifetime = "session"
    /\ \E p \in Procs : FreshProc(p) /\ revive(req[r].sess, p)
    /\ Finish(r)
    /\ UNCHANGED <<agents, clock, restarts>>

\* codex is spawned, then waited for.
ResumeSpawn(r) ==
    /\ req[r].at = "resume"
    /\ Lifetime = "turn"
    /\ \E p \in Procs :
        /\ FreshProc(p)
        /\ proc' = [proc EXCEPT ![p] = [st |-> "running", sess |-> req[r].sess,
                                        handler |-> "none"]]
        /\ req' = [req EXCEPT ![r].at = "startup", ![r].proc = p]
    /\ UNCHANGED <<agents, session, registry, token, clock, restarts, hist>>

ResumeStarted(r) ==
    /\ req[r].at = "startup"
    /\ revive(req[r].sess, req[r].proc)
    /\ Finish(r)
    /\ UNCHANGED <<agents, clock, restarts>>

\* A refused resume: a provider thread that is gone ends the session.  The wake
\* and the confirmed resume fall back to a fresh attach.
ResumeFailed(r) ==
    /\ req[r].at \in {"resume", "startup"}
    /\ \/ UNCHANGED <<session, clock, token, hist>>
       \/ endSession(req[r].sess, "resume", FALSE)
    /\ req' = [req EXCEPT ![r] = IF @.attach # "none"
                                 THEN Attach(@.agent, @.attach) ELSE Idle]
    /\ UNCHANGED <<agents, proc, registry, restarts>>

RespawnFailed(r) ==
    /\ req[r].at = "respawn"
    /\ req' = [req EXCEPT ![r] = bootFailed(@)]
    /\ UNCHANGED <<agents, session, proc, registry, token, clock, restarts, hist>>

RespawnRetry(r) ==
    /\ req[r].at = "backoff"
    /\ req' = [req EXCEPT ![r] = respawnOnce(@)]
    /\ UNCHANGED <<agents, session, proc, registry, token, clock, restarts, hist>>

RespawnDone(r) ==
    /\ req[r].at = "respawn"
    /\ \E s \in Sessions, p \in Procs : attachSessionToAgent(req[r].agent, s, p)
    /\ req' = [req EXCEPT ![r].at = "reseat"]
    /\ UNCHANGED <<agents, clock, restarts, hist>>

\* Variant: nobody looks after the agent once the old session is killed.
unsupervisedCycle(r) == Finish(r)

\* superviseCycle: no active session left for the agent attaches an idle one;
\* with two or more it ends the kill target, which is already ended.
superviseCycle(r) ==
    req' = [req EXCEPT ![r] =
              IF \E s \in Sessions \ {@.sess} : Active(s) /\ session[s].agent = @.agent
              THEN Idle ELSE Attach(@.agent, "idle")]

Reseat(r) ==
    /\ req[r].at = "reseat"
    /\ Kill(req[r].sess)
    /\ endSession(req[r].sess, "cycle", FALSE)
    /\ superviseCycle(r)
    /\ UNCHANGED <<agents, restarts>>

-----------------------------------------------------------------------------
(* Kills, exits, hooks, restarts.                                          *)

\* terminateSession, from POST /sessions/:id/end and the kill route.
Terminate(s) ==
    /\ Active(s) \/ (Exists(s) /\ registry[s] # None)
    /\ Kill(s)
    /\ endSession(s, "kill", FALSE)
    /\ UNCHANGED <<agents, req, restarts>>

\* A child exits, by itself or after SIGTERM.
ProcExits(p) ==
    /\ Live(p)
    /\ proc' = [proc EXCEPT ![p].st = "dead"]
    /\ UNCHANGED <<agents, session, registry, token, req, clock, restarts, hist>>

\* The SessionEnd hook a claude child posts on its way out.
SessionEndHook(p) ==
    /\ Lifetime = "session"
    /\ proc[p].st \in {"running", "signalled"}
    /\ proc' = [proc EXCEPT ![p].st = "leaving"]
    /\ endSession(proc[p].sess, "hook", TRUE)
    /\ UNCHANGED <<agents, registry, req, restarts>>

\* Variant: a clean exit leaves the row to somebody else.
ExitUnregisters(p) ==
    /\ proc[p].st = "dead"
    /\ proc[p].handler = "pending"
    /\ proc' = [proc EXCEPT ![p].handler = "ran"]
    /\ registry' = [registry EXCEPT ![proc[p].sess] = None]
    /\ \/ endSession(proc[p].sess, "exit", TRUE)
       \/ UNCHANGED <<session, clock, token, hist>>
    /\ UNCHANGED <<agents, req, restarts>>

\* The exit callback of bindLiveSession.  It knows the session, not the process.
ExitHandled(p) ==
    /\ proc[p].st = "dead"
    /\ proc[p].handler = "pending"
    /\ proc' = [proc EXCEPT ![p].handler = "ran"]
    /\ registry' = [registry EXCEPT ![proc[p].sess] = None]
    /\ \/ endSession(proc[p].sess, "exit", TRUE)
       \/ Lifetime = "turn" /\ UNCHANGED <<session, clock, token, hist>>
    /\ UNCHANGED <<agents, req, restarts>>

(***************************************************************************)
(* The server stops and boots again.  Some children die with it; waiting   *)
(* handlers, the registry and the exit callbacks are lost; then            *)
(* reapOrphanedSessions runs before anything is served: it ends the active *)
(* rows whose pid is dead, oldest first (turn-lifetime rows are flagged    *)
(* and left active).                                                       *)
(***************************************************************************)
reaped(dead) == {s \in Sessions : /\ Lifetime = "session"
                                  /\ Active(s)
                                  /\ proc[session[s].pid].st = "dead" \/ session[s].pid \in dead}

Restart(dead) ==
    /\ restarts < MaxRestarts
    /\ restarts' = restarts + 1
    /\ proc' = [p \in Procs |->
                  [proc[p] EXCEPT !.st = IF p \in dead THEN "dead" ELSE @,
                                  !.handler = IF proc[p].st # "none" /\ @ # "ran"
                                              THEN "lost" ELSE @]]
    /\ registry' = [s \in Sessions |-> None]
    /\ req' = [r \in Reqs |-> Idle]
    /\ LET R == reaped(dead) IN
        /\ session' = [s \in Sessions |->
              IF s \in R
              THEN [session[s] EXCEPT !.was_live = TRUE,
                                      !.ended_at = clock + Cardinality({t \in R : t <= s})]
              ELSE [session[s] EXCEPT !.was_live = @ \/ (Lifetime = "turn" /\ Active(s))]]
        /\ clock' = clock + Cardinality(R)
        /\ token' = [s \in Sessions |-> IF s \in R THEN None ELSE token[s]]
        /\ hist' = [s \in Sessions |->
              IF s \in R THEN [by |-> "reap", woken |-> FALSE] ELSE hist[s]]
    /\ UNCHANGED agents

-----------------------------------------------------------------------------
Request(r) ==
    \/ SpawnReuse(r) \/ SpawnNew(r)
    \/ \E s \in Sessions : \/ ResumeEnded(r, s) \/ ConfirmResume(r, s)
                           \/ ResumeTurn(r, s) \/ Cycle(r, s)
    \/ \E a \in Agents : Wake(r, a)

Continue(r) ==
    \/ AttachDone(r) \/ AttachFailed(r)
    \/ ResumeDone(r) \/ ResumeSpawn(r) \/ ResumeStarted(r) \/ ResumeFailed(r)
    \/ RespawnFailed(r) \/ RespawnRetry(r) \/ RespawnDone(r) \/ Reseat(r)

Next ==
    \/ \E r \in Reqs : Request(r) \/ Continue(r)
    \/ \E s \in Sessions : Terminate(s) \/ InjectReap(s)
    \/ \E p \in Procs : ProcExits(p) \/ SessionEndHook(p) \/ ExitHandled(p)
    \/ \E dead \in SUBSET {p \in Procs : Live(p)} : Restart(dead)

Spec == Init /\ [][Next]_vars

\* Node runs every continuation whose promise has settled, and every promise a
\* handler waits for settles: the install step of a worktree has a timeout, the
\* respawn pause is a timer, a runtime that does not start exits.  A child is
\* never obliged to exit, a user never to ask.
Fairness == /\ \A r \in Reqs : WF_vars(Continue(r))
            /\ \A p \in Procs : WF_vars(ExitHandled(p))

FairSpec == Spec /\ Fairness

-----------------------------------------------------------------------------
(* Properties.                                                             *)

\* The row's pid, the stdin handle in the registry and the process holding the
\* bearer token are one and the same process, however resumes, kills, exits and
\* restarts interleave; and an ended session has no token (attach and resume
\* write the three in separate stores).
HandlesAgree ==
    \A s \in Sessions :
        /\ token[s] # None => Active(s) /\ token[s] = session[s].pid
        /\ registry[s] # None => registry[s] = session[s].pid

\* After SIGTERM no prompt can be written to the child any more: the registry
\* never offers a child that was killed, not even through another session.
KilledChildUnreachable ==
    \A s \in Sessions : registry[s] # None => proc[registry[s]].st # "signalled"

\* An active row of a session-lifetime runtime always has somebody left to end
\* it: the exit callback of the process it names has not run yet, or was lost in
\* a restart (and then the next boot reap or prompt ends the row).
ReaperOwed ==
    Lifetime = "session" =>
        \A s \in Sessions : Active(s) =>
            proc[session[s].pid].handler \in {"pending", "lost"}

\* A persistent role never has more identities than its ceiling, although spawns
\* and wakes overlap: the count and the insert of an agent row share one step.
AgentRowCeiling == Persistent => agents <= Ceiling

\* The flag that lets a wake resume a session is only ever on a row the boot
\* reaper ended: no kill, exit or hook leaves it on a row it ends, also of a session
\* that was woken before, so a wake never chooses one that somebody closed.
FlaggedByReaper ==
    Lifetime = "session" =>
        \A s \in Sessions : session[s].was_live => Ended(s) /\ hist[s].by = "reap"

\* A persistent agent has at most one live session, or two while a cycle has its
\* fresh session up and the old one not yet killed.
OneLiveSession ==
    Persistent =>
        \A a \in Agents :
            Cardinality(activeForAgent(a)) <=
                IF \E r \in Reqs : req[r].at = "reseat" /\ req[r].agent = a THEN 2 ELSE 1

\* When a cycle ends the old session, the agent still has an active one or the
\* supervisor has started to attach one: also when the fresh child died, or was
\* killed, before the old one was.
CycleKeepsAgentSeated ==
    [][\A s \in Sessions :
         Active(s) /\ ~Active(s)' /\ hist'[s].by = "cycle" =>
            \/ \E t \in Sessions : Active(t)' /\ session'[t].agent = session[s].agent
            \/ \E r \in Reqs : req'[r].at = "attach" /\ req'[r].agent = session[s].agent]_vars

\* What makes the invariants above inductive.  What a waiting handler read before
\* its await still names an agent row, a session row and, for a codex start-up, a
\* child of its own that nothing else has a handle on ...
WaitOK(w) ==
    /\ w.at # "idle" => w.agent \in Agents
    /\ w.at \notin {"idle", "attach"} => w.sess \in Sessions /\ Exists(w.sess)
    /\ w.at = "startup" => /\ w.proc \in Procs
                           /\ proc[w.proc].sess = w.sess
                           /\ proc[w.proc].handler = "none"
                           /\ proc[w.proc].st \notin {"none", "signalled"}
WaitsOK ==
    /\ \A r \in Reqs : WaitOK(req[r])
    /\ \A r, q \in Reqs : r # q /\ req[r].at = "startup" /\ req[q].at = "startup"
                            => req[r].proc # req[q].proc

\* ... and a row's pid and a registry entry name a child of that very session.
ChildrenOK ==
    /\ \A s \in Sessions :
        /\ Exists(s) => /\ session[s].pid \in Procs
                        /\ proc[session[s].pid].sess = s
                        /\ proc[session[s].pid].handler # "none"
        /\ registry[s] # None => /\ proc[registry[s]].sess = s
                                 /\ proc[registry[s]].handler = "pending"
    /\ \A p \in Procs : /\ proc[p].st = "none" => proc[p].handler = "none"
                        /\ proc[p].st # "none" => proc[p].sess \in Sessions

IInv == /\ TypeOK /\ WaitsOK /\ ChildrenOK
        /\ HandlesAgree /\ KilledChildUnreachable /\ ReaperOwed
        /\ AgentRowCeiling /\ FlaggedByReaper

\* Whatever a handler waits for, it ends: a cycle that keeps failing gives up.
RequestsEnd == \A r \in Reqs : req[r] # Idle ~> req[r] = Idle

\* A session whose child has died while its exit callback is attached does not
\* stay active on that child.
DeadChildReaped ==
    \A s \in Sessions :
        (/\ Lifetime = "session"
         /\ Active(s)
         /\ proc[session[s].pid].st = "dead"
         /\ proc[session[s].pid].handler = "pending")
        ~> ~(Active(s) /\ proc[session[s].pid].st = "dead")

\* What session-lifecycle.ts says of the two reaper paths: whichever runs first
\* wins, the second is a no-op.  So a session that an exit or a SessionEnd hook
\* ended has no child that is still at work.
SecondReaperIsNoop ==
    \A s \in Sessions :
        Ended(s) /\ hist[s].by \in {"exit", "hook"} =>
            proc[session[s].pid].st \in {"dead", "leaving"}

=============================================================================
