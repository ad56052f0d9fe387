---------------------------- MODULE CompletionWakes ----------------------------
(***************************************************************************)
(* What wakes a manager when its workers come to an end: a worker that     *)
(* posts the status done fires `worker-done`, a session that ends fires    *)
(* `session-ended`.  Each fire builds an item that names the session and   *)
(* the log row of the completion, and walks the managers of the workspace; *)
(* the notification of a manager has a logical key made of those items, so *)
(* that a repeated fire is a duplicate.  On a runtime without live         *)
(* injection the item of a busy manager is also queued in memory until the *)
(* manager's Stop.  Rows survive a restart, queues and walks do not.       *)
(***************************************************************************)
EXTENDS Naturals, Sequences, FiniteSets, FiniteSetsExt

CONSTANTS
    WakeManagers,   \* agents of a persistent role that declares both triggers
    Workers,        \* sessions of a role that is not persistent
    WakeJobs,       \* bound: walks and passes in flight
    MaxLog,         \* bound: rows of agent_status_log
    MaxWakes,       \* bound: notification rows
    MaxResets       \* bound: reloads of a manager's triggers and restarts of the server

ASSUME WakeAssumption == /\ IsFiniteSet(WakeManagers)
                         /\ MaxLog \in Nat
                         /\ MaxWakes \in Nat
                         /\ MaxResets \in Nat

WakeKinds == {"session-ended", "worker-done"}

VARIABLES
    injects,     \* capabilities.livePromptInjection of the runtime
    mgr,         \* a manager's session: none, a live child that is idle or busy, no live child
    worker,      \* a worker's session and its row of agent_statuses
    log,         \* agent_status_log: status and final-report rows of the workers
    wake,        \* trigger notifications, in the order of their creation
    stamp,       \* when a manager's triggers were registered; 0 while they are not
    stamps,      \* registrations so far
    queue,       \* items of each scheduler that wait for a manager's Stop
    wakeJob,
    wakeRestarts

wakeVars == <<injects, mgr, worker, log, wake, stamp, stamps, queue, wakeJob, wakeRestarts>>

Items == [sess: Workers, completionId: 0 .. MaxLog]
Wakes == [kind: WakeKinds, to: WakeManagers, ended: SUBSET Items,
          st: {"pending", "delivered", "cancelled"}]

\* A walk that began after registration `since` has visited those up to `after`; a
\* pass has `left` to deliver.
NoWakeJob == [at |-> "idle", pass |-> FALSE, kind |-> "worker-done", ended |-> {}, since |-> 0,
              after |-> 0, row |-> 0, left |-> {}]

WakeTypeOK ==
    /\ injects \in BOOLEAN
    /\ mgr \in [WakeManagers -> {"gone", "idle", "busy", "deaf"}]
    /\ worker \in [Workers -> [active: BOOLEAN, state: {"none", "working", "done"}]]
    /\ log \in Seq([sess: Workers, kind: {"status", "final-report"}])
    /\ wake \in Seq(Wakes)
    /\ stamp \in [WakeManagers -> Nat]
    /\ stamps \in Nat
    /\ queue \in [WakeManagers \X WakeKinds -> SUBSET Items]
    /\ wakeRestarts \in 0 .. MaxResets

\* start: every manager, in the order of the agent rows.
startStamps(n) == CHOOSE f \in [WakeManagers -> n + 1 .. n + Cardinality(WakeManagers)] :
                     \A m, k \in WakeManagers : f[m] = f[k] => m = k
LastStamp == Cardinality(WakeManagers) * (MaxResets + 1) + MaxResets
reloads == stamps - Cardinality(WakeManagers) * (wakeRestarts + 1)

WakeInit ==
    /\ injects \in BOOLEAN
    /\ mgr = [m \in WakeManagers |-> "gone"]
    /\ worker = [w \in Workers |-> [active |-> TRUE, state |-> "none"]]
    /\ log = <<>>
    /\ wake = <<>>
    /\ stamp = startStamps(0)
    /\ stamps = Cardinality(WakeManagers)
    /\ queue = [q \in WakeManagers \X WakeKinds |-> {}]
    /\ wakeJob = [j \in WakeJobs |-> NoWakeJob]
    /\ wakeRestarts = 0

-----------------------------------------------------------------------------
(* One dispatch: the row, and deliver.                                     *)

\* Variant: the key of an item is its session.
sameKeyBySession(r, kind, m, ended) ==
    r.kind = kind /\ r.to = m /\ {i.sess : i \in r.ended} = {i.sess : i \in ended}

\* triggerSourceId and the logical key of the row: kind, recipient and the sorted
\* items, each by its session and completion id.
sameKey(r, kind, m, ended) == r.kind = kind /\ r.to = m /\ r.ended = ended

duplicate(kind, m, ended) ==
    \E i \in DOMAIN wake : sameKey(wake[i], kind, m, ended)

newRow(kind, m, ended, st) == Append(wake, [kind |-> kind, to |-> m, ended |-> ended, st |-> st])

lands(m) == injects /\ mgr[m] \in {"idle", "busy"}
waits(m) == ~injects /\ mgr[m] = "busy"

\* The row of an undisturbed dispatch, injected or left pending.
put(kind, m, ended) ==
    newRow(kind, m, ended, IF lands(m) THEN "delivered" ELSE "pending")
busied(m) == IF lands(m) THEN [mgr EXCEPT ![m] = "busy"] ELSE mgr
enqueued(kind, m, ended) == IF waits(m) THEN [queue EXCEPT ![<<m, kind>>] = @ \cup ended] ELSE queue

-----------------------------------------------------------------------------
(* The workers.                                                            *)

\* fire: the item is built, and the walk begins.
fireWake(kind, item, job) ==
    wakeJob' = [wakeJob EXCEPT ![job] = [NoWakeJob EXCEPT !.at = "walk", !.kind = kind,
                                                          !.ended = {item}, !.since = stamps]]
free(j) == wakeJob[j].at = "idle"

\* POST /agent/status: only the step into done fires.
PostStatus(j, w, st) ==
    /\ worker[w].active
    /\ Len(log) < MaxLog
    /\ log' = Append(log, [sess |-> w, kind |-> "status"])
    /\ worker' = [worker EXCEPT ![w].state = st]
    /\ IF st = "done" /\ worker[w].state # "done"
       THEN free(j) /\ fireWake("worker-done", [sess |-> w, completionId |-> Len(log) + 1], j)
       ELSE UNCHANGED wakeJob
    /\ UNCHANGED <<injects, mgr, wake, stamp, stamps, queue, wakeRestarts>>

reportOf(w) == {i \in DOMAIN log : log[i].sess = w /\ log[i].kind = "final-report"}

\* POST /agent/report: once per session.
PostReport(w) ==
    /\ worker[w].active
    /\ Len(log) < MaxLog
    /\ reportOf(w) = {}
    /\ log' = Append(log, [sess |-> w, kind |-> "final-report"])
    /\ UNCHANGED <<injects, mgr, worker, wake, stamp, stamps, queue, wakeJob, wakeRestarts>>

\* The hook or the exit ends the session first, and fires; the item names the
\* final report, when there is one.
WorkerEnds(j, w) ==
    /\ worker[w].active
    /\ free(j)
    /\ worker' = [worker EXCEPT ![w].active = FALSE]
    /\ fireWake("session-ended",
             [sess |-> w, completionId |-> IF reportOf(w) = {} THEN 0 ELSE Max(reportOf(w))], j)
    /\ UNCHANGED <<injects, mgr, log, wake, stamp, stamps, queue, wakeRestarts>>

\* A kill fires nothing; a resume keeps the session, its status row and its log.
WorkerKilled(w) == /\ worker[w].active
                   /\ worker' = [worker EXCEPT ![w].active = FALSE]
                   /\ UNCHANGED <<injects, mgr, log, wake, stamp, stamps, queue, wakeJob, wakeRestarts>>

WorkerResumed(w) == /\ ~worker[w].active
                    /\ worker' = [worker EXCEPT ![w].active = TRUE]
                    /\ UNCHANGED <<injects, mgr, log, wake, stamp, stamps, queue, wakeJob, wakeRestarts>>

-----------------------------------------------------------------------------
(* The walk over the managers of the workspace.                            *)

unvisited(j) == {m \in WakeManagers : stamp[m] > wakeJob[j].after}

\* The next entry of the live Set.  A manager without a session is spawned or
\* resumed, and that is awaited; what is registered behind the walk meanwhile is
\* still visited.
WalkWakes(j) ==
    /\ wakeJob[j].at = "walk"
    /\ IF unvisited(j) = {}
       THEN wakeJob' = [wakeJob EXCEPT ![j] = NoWakeJob] /\ UNCHANGED <<mgr, wake, queue>>
       ELSE LET kind == wakeJob[j].kind
                ended == wakeJob[j].ended
                m == CHOOSE x \in unvisited(j) : \A y \in unvisited(j) : stamp[x] <= stamp[y]
                on == [wakeJob EXCEPT ![j].after = stamp[m]]
            IN \/ /\ duplicate(kind, m, ended)
                  /\ wakeJob' = on
                  /\ UNCHANGED <<mgr, wake, queue>>
               \/ /\ ~duplicate(kind, m, ended)
                  /\ Len(wake) < MaxWakes
                  /\ wake' = put(kind, m, ended)
                  /\ mgr' = busied(m)
                  /\ queue' = enqueued(kind, m, ended)
                  /\ wakeJob' = IF mgr[m] # "gone" THEN on
                                ELSE [on EXCEPT ![j].at = "wake", ![j].row = Len(wake) + 1]
    /\ UNCHANGED <<injects, worker, log, stamp, stamps, wakeRestarts>>

delivered(i) == [wake EXCEPT ![i].st = IF @ = "pending" THEN "delivered" ELSE @]
back(j) == [wakeJob EXCEPT ![j].at = IF wakeJob[j].pass THEN "pass" ELSE "walk"]

ManagerWoken(j) ==
    /\ wakeJob[j].at = "wake"
    /\ wake' = delivered(wakeJob[j].row)
    /\ mgr' = [mgr EXCEPT ![wake[wakeJob[j].row].to] = "busy"]
    /\ wakeJob' = back(j)
    /\ UNCHANGED <<injects, worker, log, stamp, stamps, queue, wakeRestarts>>

WakeErrs(j) == /\ wakeJob[j].at = "wake"
               /\ wakeJob' = back(j)
               /\ UNCHANGED <<injects, mgr, worker, log, wake, stamp, stamps, queue, wakeRestarts>>

-----------------------------------------------------------------------------
(* The managers.                                                           *)

\* Its own turns, a child that leaves, a session that ends, starts or, on a
\* turn-lifetime runtime, takes the next prompt.
ManagerMoves(m, to) ==
    /\ \/ mgr[m] = "idle" /\ to = "busy" /\ injects
       \/ mgr[m] \in {"idle", "busy"} /\ to = "deaf"
       \/ mgr[m] \in {"idle", "busy", "deaf"} /\ to = "gone"
       \/ mgr[m] = "gone" /\ to = "busy"
       \/ mgr[m] = "deaf" /\ to = "busy" /\ ~injects
    /\ mgr' = [mgr EXCEPT ![m] = to]
    /\ UNCHANGED <<injects, worker, log, wake, stamp, stamps, queue, wakeJob, wakeRestarts>>

\* flushPendingWakes of one scheduler: what was queued is one dispatch.  On a
\* runtime that queues, an idle child takes no prompt, and the row stays pending.
flushed(kind, m) ==
    IF \/ queue[<<m, kind>>] = {} \/ stamp[m] = 0
       \/ duplicate(kind, m, queue[<<m, kind>>])
    THEN <<>> ELSE <<[kind |-> kind, to |-> m, ended |-> queue[<<m, kind>>], st |-> "pending"]>>

\* Stop: idle, and both queues are drained, session-ended first.
StopHook(m) ==
    LET rows == flushed("session-ended", m) \o flushed("worker-done", m) IN
    /\ mgr[m] \in {"idle", "busy"}
    /\ Len(wake) + Len(rows) <= MaxWakes
    /\ mgr' = [mgr EXCEPT ![m] = "idle"]
    /\ wake' = wake \o rows
    /\ queue' = [q \in DOMAIN queue |-> IF q[1] = m THEN {} ELSE queue[q]]
    /\ UNCHANGED <<injects, worker, log, stamp, stamps, wakeJob, wakeRestarts>>

\* reloadAgent: the entries are new, at the end of their Sets, or disabled; what
\* was queued is dropped.  A walk over a Set that the reload emptied goes no further.
ManagerReloads(m, on) ==
    /\ reloads + wakeRestarts < MaxResets
    /\ stamps' = stamps + 1
    /\ stamp' = [stamp EXCEPT ![m] = IF on THEN stamps + 1 ELSE 0]
    /\ queue' = [q \in DOMAIN queue |-> IF q[1] = m THEN {} ELSE queue[q]]
    /\ wakeJob' = IF \E k \in WakeManagers \ {m} : stamp[k] # 0 THEN wakeJob
                  ELSE [j \in WakeJobs |-> IF wakeJob[j].pass THEN wakeJob[j]
                                           ELSE [wakeJob[j] EXCEPT !.after = LastStamp]]
    /\ UNCHANGED <<injects, mgr, worker, log, wake, wakeRestarts>>

-----------------------------------------------------------------------------
(* Re-arm.                                                                 *)

pendingFor(m) == {i \in DOMAIN wake : wake[i].st = "pending" /\ wake[i].to = m}

\* rearmPending: of each manager's pending wakes only the newest goes on.
newest(M) == {Max(pendingFor(m)) : m \in {k \in M : pendingFor(k) # {}}}
coalesced(M) ==
    [i \in DOMAIN wake |-> IF wake[i].st = "pending" /\ wake[i].to \in M /\ i \notin newest(M)
                           THEN [wake[i] EXCEPT !.st = "cancelled"] ELSE wake[i]]

\* The pass of a cycle, for one manager.
Rearm(j, m) ==
    /\ free(j)
    /\ mgr[m] # "gone"
    /\ pendingFor(m) # {}
    /\ wake' = coalesced({m})
    /\ wakeJob' = [wakeJob EXCEPT ![j] = [NoWakeJob EXCEPT !.at = "pass", !.pass = TRUE,
                                                           !.left = newest({m})]]
    /\ UNCHANGED <<injects, mgr, worker, log, stamp, stamps, queue, wakeRestarts>>

PassNext(j) ==
    /\ wakeJob[j].at = "pass"
    /\ \/ /\ wakeJob[j].left = {}
          /\ wakeJob' = [wakeJob EXCEPT ![j] = NoWakeJob]
          /\ UNCHANGED <<mgr, wake>>
       \/ \E i \in wakeJob[j].left :
            LET m == wake[i].to
                on == [wakeJob EXCEPT ![j].left = @ \ {i}, ![j].row = i]
            IN
            /\ wake' = IF lands(m) THEN delivered(i) ELSE wake
            /\ mgr' = busied(m)
            /\ wakeJob' = IF mgr[m] = "gone" THEN [on EXCEPT ![j].at = "wake"] ELSE on
    /\ UNCHANGED <<injects, worker, log, stamp, stamps, queue, wakeRestarts>>

\* Children that survive have lost their handle; D are the managers whose sessions
\* are ended at boot.  The pass of the boot goes first, then the registrations.
WakeRestart(j, D) ==
    /\ reloads + wakeRestarts < MaxResets
    /\ wakeRestarts' = wakeRestarts + 1
    /\ mgr' = [m \in WakeManagers |-> IF m \in D \/ mgr[m] = "gone" THEN "gone" ELSE "deaf"]
    /\ wake' = coalesced(WakeManagers)
    /\ stamp' = startStamps(stamps)
    /\ stamps' = stamps + Cardinality(WakeManagers)
    /\ queue' = [q \in DOMAIN queue |-> {}]
    /\ wakeJob' = [i \in WakeJobs |->
                     IF i = j THEN [NoWakeJob EXCEPT !.at = "pass", !.pass = TRUE,
                                                     !.left = newest(WakeManagers)] ELSE NoWakeJob]
    /\ UNCHANGED <<injects, worker, log>>

-----------------------------------------------------------------------------
WakeNext ==
    \/ \E j \in WakeJobs, w \in Workers, st \in {"working", "done"} : PostStatus(j, w, st)
    \/ \E w \in Workers : PostReport(w) \/ WorkerKilled(w) \/ WorkerResumed(w)
    \/ \E j \in WakeJobs, w \in Workers : WorkerEnds(j, w)
    \/ \E j \in WakeJobs : WalkWakes(j) \/ ManagerWoken(j) \/ WakeErrs(j) \/ PassNext(j)
    \/ \E m \in WakeManagers, to \in {"gone", "busy", "deaf"} : ManagerMoves(m, to)
    \/ \E m \in WakeManagers : StopHook(m)
    \/ \E m \in WakeManagers, on \in BOOLEAN : ManagerReloads(m, on)
    \/ \E j \in WakeJobs, m \in WakeManagers : Rearm(j, m)
    \/ \E j \in WakeJobs, D \in SUBSET WakeManagers : WakeRestart(j, D)

WakeSpec == WakeInit /\ [][WakeNext]_wakeVars

-----------------------------------------------------------------------------
(* Properties.                                                             *)

\* A worker that is given more work completes again: when the walk of a completion
\* comes to its end, every manager that was registered all along has a row with
\* exactly this completion, whatever was awaited, reloaded or queued in between.
CompletionHasRow == [][\A j \in WakeJobs :
    wakeJob[j].at = "walk" /\ wakeJob'[j].at = "idle" /\ wakeRestarts' = wakeRestarts =>
        \A m \in WakeManagers : stamp[m] \in 1 .. wakeJob[j].since =>
            \E i \in DOMAIN wake : /\ wake[i].kind = wakeJob[j].kind
                                   /\ wake[i].to = m
                                   /\ wake[i].ended = wakeJob[j].ended]_wakeVars

===============================================================================
