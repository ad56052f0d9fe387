----------------------------- MODULE CodexTurns -----------------------------
(***************************************************************************)
(* One session of a turn-lifetime runtime (codex): every turn is a child   *)
(* process of its own, and what carries the conversation from one to the   *)
(* next is the provider's thread id, which a child announces as a line of  *)
(* JSON on its stdout (packages/runtime/src/spawn-agent.ts and             *)
(* codex-jsonl.ts, packages/server/src/runtime-event-binder.ts).  The      *)
(* stream of a resumed child is read before anyone consumes its events:    *)
(* the handler waits for the start-up, and only then binds the session.    *)
(*                                                                         *)
(* A tick of the server's event loop is one action, together with the      *)
(* promise callbacks that run before the next tick.  The limits on         *)
(* sessions, the tokens and the end hooks are in SessionLifecycle.         *)
(***************************************************************************)
EXTENDS Naturals, Sequences, FiniteSets

CONSTANTS
    TurnSlots,       \* bound: resumes in flight
    MaxKids,         \* bound: children at a time
    MaxThreads,      \* bound: provider threads in use at a time
    MaxOut           \* bound: lines a child writes

ASSUME TurnAssumption == MaxKids \in Nat /\ MaxThreads \in Nat /\ MaxOut \in Nat

Kids == 1 .. MaxKids
Threads == 1 .. MaxThreads

NoThread == 0
NoChild == 0

VARIABLES
    row,       \* the session's row: does it exist, is it ended, its provider_thread_id
    kid,       \* the children, and what the server holds of each one's stream
    live,      \* the child the registry holds
    resuming   \* the resumes at an await: what each read before it

turnVars == <<row, kid, live, resuming>>

\* The lines of stdout, by the type of their JSON: "item" stands
\* for all that is acted on nowhere, a thread.started without its id and malformed
\* lines included.
Lines == {"thread.started", "turn.started", "item"}

\* How a child exits; "missing" is a failure whose stderr says that the thread is
\* gone, without any sign of life.
Codes == {"zero", "failed", "missing", "signal"}

\* `pipe` is what the server has not split into lines yet of all that the child
\* writes, whose last line may end without a newline (`ragged`).
\* A child is "ended" when its stdout ended after its exit.  `said` and `alone`
\* are records for the properties: what it announces, and that the session had
\* no other child meanwhile.
NoKid == [st |-> "none", thread |-> NoThread, killed |-> FALSE, bound |-> FALSE,
          pipe |-> <<>>, ragged |-> FALSE, said |-> {}, alone |-> TRUE]

\* A child that outlived the server: nobody reads it any more.
Severed == [NoKid EXCEPT !.st = "severed"]

Free == [at |-> "idle", thread |-> NoThread, child |-> NoChild]

TurnInit ==
    /\ row = [st |-> "none", thread |-> NoThread]
    /\ kid = [k \in Kids |-> NoKid]
    /\ live = NoChild
    /\ resuming = [h \in TurnSlots |-> Free]

Present(k) == kid[k].st \notin {"none", "severed"}
InUse(thread) ==
    \/ thread = row.thread
    \/ \E k \in Kids : thread = kid[k].thread
    \/ \E h \in TurnSlots : thread = resuming[h].thread

\* The places for a new child and a new thread are taken in order.
FreshKid(k) == ~Present(k) /\ \A j \in Kids : j < k => Present(j)
Fresh(thread) == ~InUse(thread) /\ \A t \in Threads : t < thread => InUse(t)

-----------------------------------------------------------------------------
(* The stream of one child.                                                *)

\* normalizeCodexExecEvent: what is of no known type is an unknown event, on
\* which, as on messages, tool calls and the end of the turn, nothing acts.
normalizeCodexExecEvent(line) ==
    CASE line = "thread.started" -> "provider-thread-started"
      [] line = "turn.started" -> "turn-started"
      [] OTHER -> "unknown"

isStartupReady(event) == event \in {"provider-thread-started", "turn-started"}

\* The resume that waits for k's start-up.
Waiter(k) == {h \in TurnSlots : resuming[h].at = "startup" /\ resuming[h].child = k}

\* bindRuntimeEvents: every announcement that is consumed is stored; the
\* statement reaches no ended row.
consumed(r, events, thread) ==
    IF r.st = "active" /\ "provider-thread-started" \in events
    THEN [r EXCEPT !.thread = thread] ELSE r

(***************************************************************************)
(* flushLine and push for the lines of one tick, and the callbacks they    *)
(* release in that tick.  The first sign of life resolves the start-up,    *)
(* and the resume that waits for it marks the row active and binds the     *)
(* session; a bound session's consumer takes all that is queued.  What an  *)
(* unbound stream has queued before are events that nothing acts on.       *)
(***************************************************************************)
push(k, lines, left) ==
    LET events == {normalizeCodexExecEvent(lines[i]) : i \in DOMAIN lines}
        starts == ~kid[k].bound /\ \E e \in events : isStartupReady(e)
        base == IF starts THEN [row EXCEPT !.st = "active"] ELSE row
    IN /\ row' = IF kid[k].bound \/ starts THEN consumed(base, events, kid[k].thread) ELSE base
       /\ live' = IF starts THEN k ELSE live
       /\ kid' = [kid EXCEPT ![k] = [left EXCEPT !.bound = @ \/ starts]]
       /\ resuming' = [h \in TurnSlots |-> IF starts /\ h \in Waiter(k) THEN Free ELSE resuming[h]]

\* stdout.on("data"): the complete lines in the buffer are flushed.  A chunk ends
\* anywhere; one that completes no line changes only the buffer.
Data(k) ==
    LET c == kid[k]
    IN /\ c.st \in {"running", "exited"}
       /\ \E n \in 1 .. Len(c.pipe) :
            /\ c.ragged => n < Len(c.pipe)
            /\ push(k, SubSeq(c.pipe, 1, n), [c EXCEPT !.pipe = SubSeq(@, n + 1, Len(@))])

\* stdout.on("end"): a last line without a newline is flushed.
End(k) ==
    /\ kid[k].st = "exited"
    /\ Len(kid[k].pipe) = IF kid[k].ragged THEN 1 ELSE 0
    /\ push(k, kid[k].pipe, [kid[k] EXCEPT !.st = "ended", !.pipe = <<>>, !.ragged = FALSE])

(***************************************************************************)
(* `exited` resolves.  A start-up still open is decided by the exit code:  *)
(* with 0 the resume goes on and binds the session, otherwise it is        *)
(* refused, and a thread that is gone ends the session.  Then the exit     *)
(* callback of a bound session unregisters it, whichever child is          *)
(* registered, and ends it when the turn failed.                           *)
(***************************************************************************)
exited(k, code) ==
    LET c == kid[k]
        waits == Waiter(k) # {}
        bound == c.bound \/ (waits /\ code = "zero")
        base == IF waits /\ bound THEN [row EXCEPT !.st = "active"] ELSE row
        gone == waits /\ code = "missing"
        fails == bound /\ code \in {"failed", "missing"}
    IN /\ code = "signal" => c.killed
       /\ code = "missing" => c.said = {}
       /\ row' = IF base.st = "active" /\ (gone \/ fails) THEN [base EXCEPT !.st = "ended"] ELSE base
       /\ live' = IF bound THEN NoChild ELSE live
       /\ kid' = [kid EXCEPT ![k] = NoKid]
       /\ resuming' = [h \in TurnSlots |-> IF h \in Waiter(k) THEN Free ELSE resuming[h]]

\* Variant: at the exit of the process, whether or not stdout was read to its end.
CloseOnExit(k) == kid[k].st \in {"exited", "ended"} /\ \E code \in Codes : exited(k, code)

\* child.on("close"): the process is gone and its stdout has ended.
Close(k) == kid[k].st = "ended" /\ \E code \in Codes : exited(k, code)

-----------------------------------------------------------------------------
(* The handlers.                                                           *)

\* What a child may write, announcing its thread at most once.
Outputs == {out \in UNION {[1 .. n -> Lines] : n \in 0 .. MaxOut} :
              \A i, j \in DOMAIN out : out[i] = "thread.started" /\ out[j] = out[i] => i = j}

\* The children once k was started with that thread, to write that.
started(k, thread, bound, out, ragged) ==
    [j \in Kids |->
        IF j = k
        THEN [NoKid EXCEPT !.st = "running", !.thread = thread, !.bound = bound,
                           !.pipe = out, !.ragged = ragged /\ out # <<>>,
                           !.said = {out[i] : i \in DOMAIN out} \ {"item"},
                           !.alone = \A i \in Kids : ~Present(i)]
        ELSE IF Present(j) THEN [kid[j] EXCEPT !.alone = FALSE] ELSE NoKid]

\* POST spawn: the row, the child and its consumer come in one go; the row has
\* no thread until the child announces one (initialProviderThreadId).
Spawn(k) ==
    /\ row.st = "none" /\ FreshKid(k)
    /\ \E thread \in Threads, out \in Outputs, ragged \in BOOLEAN :
          Fresh(thread) /\ kid' = started(k, thread, TRUE, out, ragged)
    /\ row' = [st |-> "active", thread |-> NoThread]
    /\ live' = k
    /\ UNCHANGED resuming

\* injectPrompt and resumeEndedSession, up to the await: an active session must
\* have no child, an ended one is revived; the thread is read here.
Resume(h) ==
    /\ resuming[h].at = "idle"
    /\ \/ row.st = "active" /\ live = NoChild
       \/ row.st = "ended"
    /\ row.thread # NoThread
    /\ resuming' = [resuming EXCEPT ![h] = [at |-> "prepare", thread |-> row.thread, child |-> NoChild]]
    /\ UNCHANGED <<row, kid, live>>

\* The rest of performResume up to the start-up: the context is prepared, and
\* `codex exec resume <thread>` is started, or cannot be.  The child goes on with
\* that thread, or forks it into one of its own.
Launch(h, k) ==
    /\ resuming[h].at = "prepare"
    /\ \/ /\ FreshKid(k)
          /\ \E thread \in Threads, out \in Outputs, ragged \in BOOLEAN :
                /\ thread = resuming[h].thread \/ Fresh(thread)
                /\ kid' = started(k, thread, FALSE, out, ragged)
          /\ resuming' = [resuming EXCEPT ![h] = [at |-> "startup", thread |-> NoThread, child |-> k]]
       \/ resuming' = [resuming EXCEPT ![h] = Free] /\ UNCHANGED kid
    /\ UNCHANGED <<row, live>>

\* terminateSession: SIGTERM for the child in the registry, and the row ends.
endTurns ==
    /\ row.st # "none"
    /\ kid' = [k \in Kids |-> IF k = live THEN [kid[k] EXCEPT !.killed = TRUE] ELSE kid[k]]
    /\ live' = NoChild
    /\ row' = [row EXCEPT !.st = "ended"]
    /\ UNCHANGED resuming

\* A restart severs the pipes; the boot reaper leaves a turn-lifetime row active.
TurnRestart ==
    /\ live' = NoChild
    /\ kid' = [k \in Kids |-> IF Present(k) THEN Severed ELSE NoKid]
    /\ resuming' = [h \in TurnSlots |-> Free]
    /\ UNCHANGED row

-----------------------------------------------------------------------------
(* The child.                                                              *)

\* It exits, having written what it writes.
Exit(k) ==
    /\ kid[k].st = "running"
    /\ kid' = [kid EXCEPT ![k].st = "exited"]
    /\ UNCHANGED <<row, live, resuming>>

TurnNext ==
    \/ \E k \in Kids : Data(k) \/ End(k) \/ Close(k) \/ Spawn(k) \/ Exit(k)
    \/ \E h \in TurnSlots : Resume(h) \/ \E k \in Kids : Launch(h, k)
    \/ endTurns
    \/ TurnRestart

TurnSpec == TurnInit /\ [][TurnNext]_turnVars

-----------------------------------------------------------------------------
(* Properties.                                                             *)

\* A resume's child leaves, and what it said on its way is not lost.  A child
\* that showed a sign of life belongs to the session: no resume is answered as
\* failed although the turn had begun.  And when the turn of a child that had
\* the session for itself is over, the row knows the thread it announced, however
\* its output was cut into chunks and whenever it was bound: the next turn goes
\* on with this conversation and no other.
TurnHeard ==
    [][\A k \in Kids : Present(k) /\ kid'[k].st = "none"
         => /\ kid[k].said # {} => kid[k].bound
            /\ kid[k].alone /\ "thread.started" \in kid[k].said /\ live = k
                 => row'.thread = kid[k].thread]_turnVars
=============================================================================
