---------------------------- MODULE Notifications ----------------------------
(***************************************************************************)
(* The notification spine: rows of the notifications table, the emitters   *)
(* (triggers, messages, replies) that create a row and deliver it, the     *)
(* passes of rearmPending that deliver what is still pending after a boot, *)
(* a cycle or a confirmed resume, and the confirm-resume prompts.  Two     *)
(* agents: a persistent one and a worker it spawned.  The runtime is one   *)
(* that takes a prompt on stdin at any time (claude).                      *)
(*                                                                         *)
(* A handler that waits for a session to be woken, and a pass between two  *)
(* rows, is a record of `job`; sessions come and go as SessionLifecycle    *)
(* has it, here in one step each.                                          *)
(***************************************************************************)
EXTENDS Naturals, Sequences, SequencesExt, FiniteSetsExt

CONSTANTS
    Manager, Worker,  \* the agents; the worker's spawner is the manager
    Nobody,
    Jobs,             \* bound: handlers and passes in flight
    MaxNotes,         \* bound: rows ever created
    MaxSessions,      \* bound: sessions ever created, one less when MaxNotes rows are
    MaxRestarts       \* bound: restarts of the server

ASSUME SpineAssumption == /\ MaxNotes \in Nat
                          /\ MaxSessions \in Nat
                          /\ MaxRestarts \in Nat
                          /\ Manager # Worker
                          /\ Nobody \notin {Manager, Worker}

Agents == {Manager, Worker}
Notes == 1 .. MaxNotes
Sessions == 1 .. MaxSessions

VARIABLES
    note,    \* notification rows, in the order of their created_at
    landed,  \* the sessions a row's body was written to
    sess,    \* sessions, in the order of their started_at; a deaf one is active
             \* and has no live child in the registry
    ended,   \* the ended sessions, in the order of their ended_at
    job,
    restarts

vars == <<note, landed, sess, ended, job, restarts>>

\* `re` is what the row's logical key is about: the message that a reply answers,
\* the dead session of a confirm-resume prompt.  `token` is the reply token of a
\* message and the authorization of a prompt.
Rows == [kind: {"none", "trigger", "message", "reply", "confirm"},
         state: {"pending", "delivered", "acked", "cancelled"},
         re: 0 .. MaxNotes + MaxSessions,
         token: {"none", "open", "used", "declined"}]
Absent == [kind |-> "none", state |-> "pending", re |-> 0, token |-> "none"]

\* `note` is the row a wake is under way for, `sess` the session it may resume,
\* `todo` and `keys` the rest of a pass's snapshot and its recipients.
JobStates == [at: {"idle", "emit", "rearm", "confirm"}, note: 0 .. MaxNotes,
              sess: 0 .. MaxSessions, todo: SUBSET Notes, keys: SUBSET Agents]
Idle == [at |-> "idle", note |-> 0, sess |-> 0, todo |-> {}, keys |-> {}]

TypeOK ==
    /\ note \in [Notes -> Rows]
    /\ landed \in [Notes -> SUBSET Sessions]
    /\ sess \in [Sessions -> [agent: Agents \cup {Nobody},
                              st: {"none", "live", "deaf", "ended"}]]
    /\ ToSet(ended) = {s \in Sessions : sess[s].st = "ended"}
    /\ IsInjective(ended)
    /\ job \in [Jobs -> JobStates]
    /\ restarts \in 0 .. MaxRestarts

Init ==
    /\ note = [n \in Notes |-> Absent]
    /\ landed = [n \in Notes |-> {}]
    /\ sess = [s \in Sessions |-> [agent |-> Nobody, st |-> "none"]]
    /\ ended = <<>>
    /\ job = [j \in Jobs |-> Idle]
    /\ restarts = 0

-----------------------------------------------------------------------------
(* Queries.                                                                *)

IsRow(n) == note[n].kind # "none"
IsSession(s) == sess[s].st # "none"
FreshNote(n) == /\ ~IsRow(n) /\ \A m \in 1 .. n - 1 : IsRow(m)
                /\ n = MaxNotes => ~IsSession(MaxSessions)
FreshSession(s) == /\ ~IsSession(s) /\ \A t \in 1 .. s - 1 : IsSession(t)
                   /\ s = MaxSessions => ~IsRow(MaxNotes)

recipient(n) == IF note[n].kind = "message" THEN Worker ELSE Manager
transient(n) == note[n].kind = "trigger"

\* listActiveForWorkspace, filtered by agent, oldest first.
activeForAgent(a) == {s \in Sessions : sess[s].agent = a /\ sess[s].st \in {"live", "deaf"}}
oldest(S) == Min(S)
latestForAgent(a) == {s \in Sessions : /\ sess[s].agent = a
                                       /\ \A t \in Sessions : sess[t].agent = a => t <= s}
endedOf(a) == SelectSeq(ended, LAMBDA s : sess[s].agent = a)
latestEnded(a) == IF endedOf(a) = <<>> THEN 0 ELSE Last(endedOf(a))

-----------------------------------------------------------------------------
(* Sessions.                                                               *)

Start(s, a) == /\ FreshSession(s)
               /\ sess' = [sess EXCEPT ![s] = [agent |-> a, st |-> "live"]]
               /\ UNCHANGED ended

\* Variant: the revived session stays among the ended ones.
ReviveKeepingEnded(s) == /\ sess' = [sess EXCEPT ![s].st = "live"]
                         /\ UNCHANGED ended

Revive(s) == /\ sess' = [sess EXCEPT ![s].st = "live"]
             /\ ended' = SelectSeq(ended, LAMBDA t : t # s)

End(s) == /\ sess' = [sess EXCEPT ![s].st = "ended"]
          /\ ended' = Append(ended, s)

\* A worker role's spawn makes a new agent: a worker comes back by a resume.
Spawn(a) == /\ IF a = Manager THEN activeForAgent(a) = {} ELSE latestForAgent(a) = {}
            /\ \E s \in Sessions : Start(s, a)
            /\ UNCHANGED <<note, landed, job, restarts>>

Resume(s) == /\ sess[s].st = "ended"
             /\ activeForAgent(sess[s].agent) = {}
             /\ Revive(s)
             /\ UNCHANGED <<note, landed, job, restarts>>

ChildDies(s) == /\ sess[s].st = "live"
                /\ sess' = [sess EXCEPT ![s].st = "deaf"]
                /\ UNCHANGED <<note, landed, ended, job, restarts>>

SessionEnds(s) == /\ sess[s].st \in {"live", "deaf"}
                  /\ End(s)
                  /\ UNCHANGED <<note, landed, job, restarts>>

-----------------------------------------------------------------------------
(* deliver.                                                                *)

\* What deliver does for a high row: nobody active wakes a persistent recipient
\* only; the first active session gets the body when its child is registered.
outcome(a) ==
    CASE activeForAgent(a) = {} -> IF a = Manager THEN "wake" ELSE "queued"
      [] OTHER -> IF sess[oldest(activeForAgent(a))].st = "live"
                  THEN "injected" ELSE "skipped-busy"

\* Variants: the landing is not recorded; the update has no state guard.
markNothing(n) == note
markDeliveredAnyway(n) == [note EXCEPT ![n].state = "delivered"]

markDelivered(n) == [note EXCEPT ![n].state = IF @ = "pending" THEN "delivered" ELSE @]

Land(n, s) == landed' = [landed EXCEPT ![n] = @ \cup {s}]

\* Waits for the session that is to be woken with row n: latestShutdownIfTip may
\* offer the recipient's last session.
Wake(j, at, n, todo, keys) ==
    \E t \in {0, latestEnded(recipient(n))} :
        job' = [job EXCEPT ![j] = [at |-> at, note |-> n, sess |-> t,
                                   todo |-> todo, keys |-> keys]]

\* Redeems the token of message m; no message, no token.
redeem(rows, m) == IF m = 0 THEN rows ELSE [rows EXCEPT ![m].token = "used"]

-----------------------------------------------------------------------------
(* Emitters.                                                               *)

\* emit, for a row to the manager.  An outcome that is not an error redeems the
\* token of the message m that is answered; the outcome of a wake comes later.
Emit(j, n, row, m) ==
    LET rows == [note EXCEPT ![n] = row]
        o == outcome(Manager)
    IN
    /\ FreshNote(n)
    /\ \/ /\ o = "wake"
          /\ job[j] = Idle
          /\ note' = rows
          /\ \E t \in {0, latestEnded(Manager)} :
                job' = [job EXCEPT ![j] = [Idle EXCEPT !.at = "emit", !.note = n, !.sess = t]]
          /\ UNCHANGED landed
       \/ /\ o = "injected"
          /\ note' = redeem([rows EXCEPT ![n].state = "delivered"], m)
          /\ Land(n, oldest(activeForAgent(Manager)))
          /\ UNCHANGED job
       \/ /\ o = "skipped-busy"
          /\ note' = redeem(rows, m)
          /\ UNCHANGED <<landed, job>>
    /\ UNCHANGED <<sess, ended, restarts>>

\* dispatchTrigger.  A second fire of the same occurrence changes nothing.
Trigger(j, n) == Emit(j, n, [Absent EXCEPT !.kind = "trigger"], 0)

\* POST /agent/messages, by the manager.  A message for a session that is active
\* without a child ends it; its row stays, and so does its token.
Message(n) ==
    LET row == [Absent EXCEPT !.kind = "message", !.token = "open"] IN
    /\ FreshNote(n)
    /\ activeForAgent(Manager) # {}
    /\ \E s \in latestForAgent(Worker) :
        \/ /\ sess[s].st = "live"
           /\ note' = [note EXCEPT ![n] = [row EXCEPT !.state = "delivered"]]
           /\ Land(n, s)
           /\ UNCHANGED <<sess, ended>>
        \/ /\ sess[s].st = "deaf"
           /\ note' = [note EXCEPT ![n] = row]
           /\ End(s)
           /\ UNCHANGED landed
    /\ UNCHANGED <<job, restarts>>

\* POST /agent/messages/replies, by the worker, for message m: the first reply
\* creates the row, another one is a duplicate and only redeems the token.
Reply(j, m) ==
    /\ note[m].kind = "message"
    /\ note[m].token = "open"
    /\ activeForAgent(Worker) # {}
    /\ \/ /\ \A n \in Notes : ~(note[n].kind = "reply" /\ note[n].re = m)
          /\ \E n \in Notes : Emit(j, n, [Absent EXCEPT !.kind = "reply", !.re = m], m)
       \/ /\ \E n \in Notes : note[n].kind = "reply" /\ note[n].re = m
          /\ note' = redeem(note, m)
          /\ UNCHANGED <<landed, sess, ended, job, restarts>>

\* POST /agent/notifications/:id/ack.
Ack(n) ==
    /\ IsRow(n)
    /\ activeForAgent(recipient(n)) # {}
    /\ note[n].state \in {"pending", "delivered"}
    /\ note' = [note EXCEPT ![n].state = "acked"]
    /\ UNCHANGED <<landed, sess, ended, job, restarts>>

-----------------------------------------------------------------------------
(* The wakes that an emitter or a pass waits for.                          *)

AfterWake(j) == IF job[j].at = "emit" THEN Idle ELSE [job[j] EXCEPT !.note = 0, !.sess = 0]
answeredBy(j) ==
    IF job[j].at = "emit" /\ note[job[j].note].kind = "reply" THEN note[job[j].note].re ELSE 0

\* The session is resumed, or a fresh one attached, with the row's body.
Woken(j) ==
    LET n == job[j].note IN
    /\ job[j].at \in {"emit", "rearm"}
    /\ n # 0
    /\ \E s \in Sessions :
        /\ (s = job[j].sess /\ Revive(s)) \/ Start(s, recipient(n))
        /\ Land(n, s)
    /\ note' = redeem(markDelivered(n), answeredBy(j))
    /\ job' = [job EXCEPT ![j] = AfterWake(j)]
    /\ UNCHANGED restarts

\* Neither could be done: the row stays as it is, and a reply's token with it.
WakeFails(j) ==
    /\ job[j].at \in {"emit", "rearm"}
    /\ job[j].note # 0
    /\ job' = [job EXCEPT ![j] = AfterWake(j)]
    /\ UNCHANGED <<note, landed, sess, ended, restarts>>

-----------------------------------------------------------------------------
(* rearmPending.                                                           *)

pendingFor(A) == {n \in Notes : IsRow(n) /\ note[n].state = "pending" /\ recipient(n) \in A}

\* Variant: the newest one is cancelled too.
staleAll(P) == {n \in P : transient(n)}

\* The transient rows of a snapshot that a newer one replaces.
stale(P) == {n \in P : transient(n) /\ \E m \in P : transient(m) /\ m > n}

\* The snapshot that a pass for the agents of A works through, and the rows after
\* its stale ones were cancelled.
snapshot(A) == [Idle EXCEPT !.at = "rearm",
                            !.todo = pendingFor(A) \ stale(pendingFor(A)),
                            !.keys = {recipient(n) : n \in pendingFor(A)}]
coalesced(A) == [n \in Notes |-> IF n \in stale(pendingFor(A))
                                 THEN [note[n] EXCEPT !.state = "cancelled"] ELSE note[n]]

\* The rows that may come next: the transient one first, then oldest first by
\* recipient.
next(T) ==
    IF \E n \in T : transient(n) THEN {n \in T : transient(n)}
    ELSE {n \in T : \A m \in T : recipient(m) = recipient(n) => n <= m}

\* deliverAndMark, of the row as the snapshot has it.
RearmNext(j) ==
    /\ job[j].at = "rearm"
    /\ job[j].note = 0
    /\ \E n \in next(job[j].todo) :
        LET a == recipient(n)
            rest == job[j].todo \ {n}
        IN
        \/ /\ outcome(a) = "wake"
           /\ Wake(j, "rearm", n, rest, job[j].keys)
           /\ UNCHANGED <<note, landed>>
        \/ /\ outcome(a) = "injected"
           /\ note' = markDelivered(n)
           /\ Land(n, oldest(activeForAgent(a)))
           /\ job' = [job EXCEPT ![j].todo = rest]
        \/ /\ outcome(a) \in {"queued", "skipped-busy"}
           /\ job' = [job EXCEPT ![j].todo = rest]
           /\ UNCHANGED <<note, landed>>
    /\ UNCHANGED <<sess, ended, restarts>>

\* maybeEmitConfirmToOwner, at the end of a pass: a dead worker that had pending
\* rows gets its spawner one prompt for its last session, which is only stored.
RearmEnds(j) ==
    LET dead == latestEnded(Worker)
        asks == /\ Worker \in job[j].keys
                /\ activeForAgent(Worker) = {}
                /\ dead # 0
                /\ \A n \in Notes : ~(note[n].kind = "confirm" /\ note[n].re = dead)
    IN
    /\ job[j].at = "rearm"
    /\ job[j].note = 0
    /\ job[j].todo = {}
    /\ IF asks
       THEN \E n \in Notes :
                /\ FreshNote(n)
                /\ note' = [note EXCEPT ![n] = [Absent EXCEPT !.kind = "confirm", !.re = dead,
                                                              !.token = "open"]]
       ELSE UNCHANGED note
    /\ job' = [job EXCEPT ![j] = Idle]
    /\ UNCHANGED <<landed, sess, ended, restarts>>

\* The end of executeCycle: with the fresh session up, the pass for the agent runs
\* until its first await, which comes after its first row; then the old session
\* is killed and ended.
Cycle(j, old) ==
    LET first == oldest(activeForAgent(Manager))
        rows == next(snapshot({Manager}).todo)
        heard == IF sess[first].st = "live" THEN rows ELSE {}
    IN
    /\ job[j] = Idle
    /\ old \in activeForAgent(Manager)
    /\ \E s \in Sessions :
        /\ FreshSession(s)
        /\ sess' = [sess EXCEPT ![s] = [agent |-> Manager, st |-> "live"],
                                ![old].st = "ended"]
    /\ ended' = Append(ended, old)
    /\ note' = [n \in Notes |-> IF n \in heard THEN [note[n] EXCEPT !.state = "delivered"]
                                ELSE coalesced({Manager})[n]]
    /\ landed' = [n \in Notes |-> IF n \in heard THEN landed[n] \cup {first} ELSE landed[n]]
    /\ job' = [job EXCEPT ![j] = [snapshot({Manager}) EXCEPT !.todo = @ \ rows]]
    /\ UNCHANGED restarts

\* The server stops: what waits is lost, and so are the live handles of the
\* children that survive.  At boot the sessions of D, whose children are dead, are
\* ended, oldest first, and a pass for every agent starts.
Restart(j, D) ==
    /\ restarts < MaxRestarts
    /\ restarts' = restarts + 1
    /\ sess' = [s \in Sessions |->
                  IF s \in D THEN [sess[s] EXCEPT !.st = "ended"]
                  ELSE [sess[s] EXCEPT !.st = IF @ = "live" THEN "deaf" ELSE @]]
    /\ ended' = ended \o SetToSortSeq(D, <)
    /\ note' = coalesced(Agents)
    /\ job' = [i \in Jobs |-> IF i = j THEN snapshot(Agents) ELSE Idle]
    /\ UNCHANGED landed

-----------------------------------------------------------------------------
(* The confirm-resume routes.                                              *)

mayConfirm(n) == /\ note[n].kind = "confirm"
                 /\ note[n].token = "open"
                 /\ sess[note[n].re].st = "ended"

\* Variant: the token is still open while the session is resumed.
ConfirmRedeemingLate(j, n) ==
    /\ job[j] = Idle
    /\ mayConfirm(n)
    /\ job' = [job EXCEPT ![j] = [Idle EXCEPT !.at = "confirm", !.sess = note[n].re]]
    /\ UNCHANGED <<note, landed, sess, ended, restarts>>

\* The token is redeemed before the session is resumed.
Confirm(j, n) ==
    /\ job[j] = Idle
    /\ mayConfirm(n)
    /\ note' = redeem(note, n)
    /\ job' = [job EXCEPT ![j] = [Idle EXCEPT !.at = "confirm", !.sess = note[n].re]]
    /\ UNCHANGED <<landed, sess, ended, restarts>>

\* Resumed, or else a fresh session; then a pass for the worker.
Confirmed(j) ==
    /\ job[j].at = "confirm"
    /\ Revive(job[j].sess) \/ \E s \in Sessions : Start(s, Worker)
    /\ note' = coalesced({Worker})
    /\ job' = [job EXCEPT ![j] = snapshot({Worker})]
    /\ UNCHANGED <<landed, restarts>>

ConfirmFails(j) ==
    /\ job[j].at = "confirm"
    /\ job' = [job EXCEPT ![j] = Idle]
    /\ UNCHANGED <<note, landed, sess, ended, restarts>>

Decline(n) ==
    /\ mayConfirm(n)
    /\ note' = [note EXCEPT ![n].token = "declined"]
    /\ UNCHANGED <<landed, sess, ended, job, restarts>>

-----------------------------------------------------------------------------
Next ==
    \/ \E a \in Agents : Spawn(a)
    \/ \E s \in Sessions : Resume(s) \/ ChildDies(s) \/ SessionEnds(s)
    \/ \E j \in Jobs, n \in Notes : Trigger(j, n) \/ Reply(j, n) \/ Confirm(j, n)
    \/ \E n \in Notes : Message(n) \/ Ack(n) \/ Decline(n)
    \/ \E j \in Jobs : \/ Woken(j) \/ WakeFails(j)
                       \/ RearmNext(j) \/ RearmEnds(j)
                       \/ Confirmed(j) \/ ConfirmFails(j)
    \/ \E j \in Jobs, s \in Sessions : Cycle(j, s)
    \/ \E j \in Jobs, D \in SUBSET {s \in Sessions : sess[s].st \in {"live", "deaf"}} :
            Restart(j, D)

Spec == Init /\ [][Next]_vars

-----------------------------------------------------------------------------
(* Properties.                                                             *)

\* A row advances to delivered iff it landed, through whichever of two handlers
\* that hold it at once, in whatever order their wakes come to an end.
DeliveredIffLanded == \A n \in Notes :
    /\ note[n].state = "delivered" => landed[n] # {}
    /\ note[n].state = "pending" => landed[n] = {}

\* Coalescing cancels only what a newer trigger replaces: passes with overlapping
\* snapshots never cancel the last one between them, nor a message or a reply.
NewestTriggerKept == \A n \in Notes :
    note[n].state = "cancelled" =>
        transient(n) /\ \E m \in n + 1 .. MaxNotes : transient(m) /\ note[m].state # "cancelled"

\* One authorization resumes a dead session once, however often the prompt is
\* confirmed while the resume is under way.
NoDoubleResume == \A i, j \in Jobs :
    job[i].at = "confirm" /\ job[j].at = "confirm" /\ job[i].sess = job[j].sess => i = j

\* What cycle-pipeline.ts says of the pass of a cycle: it re-arms what the old
\* session left.  So no row is delivered to a session in the step that ends it.
RearmedOutlivesCycle == [][\A n \in Notes, s \in Sessions :
    s \in landed'[n] \ landed[n] => sess'[s].st # "ended"]_vars
=============================================================================
