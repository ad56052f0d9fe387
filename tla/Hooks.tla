------------------------------- MODULE Hooks -------------------------------
(***************************************************************************)
(* The hook route: what the CLI of a session posts before and after each   *)
(* tool call, at a prompt, at the end of a turn and of the session, and    *)
(* what the handler does before it answers: guards, the habits of the role,*)
(* the task list, and the quiet notifications it hands over.  Tool calls   *)
(* of one turn run in parallel, so handlers of one session overlap at the  *)
(* places where they wait.  A hook that is not answered stops nothing.     *)
(***************************************************************************)
EXTENDS Naturals, Sequences, FiniteSets, SequencesExt, Subsequences

CONSTANTS HookSessions, HookAgents,
          Works,              \* the agent of a session
          Keeps,              \* the agents whose role is persistent
          HookSlots,          \* requests in flight
          HabitLists,         \* lists of habits a role may have
          ToolCalls,             \* the tool calls a CLI may make
          MaxHooks, MaxTaskRows, MaxQuiet, MaxHookRestarts  \* bounds

VARIABLES cli,       \* a session's CLI: its turn, the tasks it has made
          slot,      \* the requests in flight
          habits,    \* the habits of the role
          size,      \* the context length of a session, 2 is past max_tokens
          tokens,    \* the context length in the session's row
          ended,     \* the sessions whose row has ended
          reported,  \* the sessions with a final report
          snapshot,  \* the newest task-snapshot of an agent
          moves,     \* the phase-transition rows of an agent; a row names its
                     \* phase, and id is the task it is about
          quiet,     \* quiet notifications
          fired,     \* sessionLengthFired
          blocked,   \* stopStallBlocked
          posted, hookRestarts

hookVars == <<cli, slot, habits, size, tokens, ended, reported, snapshot, moves, quiet,
              fired, blocked, posted, hookRestarts>>

NoHook == [st |-> "free"]

At(h) == slot[h].ev
Outstanding(s) == {h \in HookSlots : slot[h] # NoHook /\ At(h).s = s}

(***************************************************************************)
(* Habits.                                                                 *)
(***************************************************************************)
eventsOf(hb) ==
    CASE hb.path = "self.tool-use" -> {hb.phase}
      [] hb.path = "self.session-length" -> {"PostToolUse", "UserPromptSubmit"}
      [] hb.path = "self.session-message" -> {"UserPromptSubmit"}
      [] hb.path = "self.stop" -> {"Stop"}
      [] OTHER -> {}

matchesHabit(hb, ev, luck) ==
    /\ ev.name \in eventsOf(hb)
    /\ hb.path = "self.tool-use" => ev.call.tool \in hb.tools
    /\ hb.rand => luck

\* Where a call is seen to write: a command is read by guesswork.
writeTargets(ev) == IF ev.call.plain THEN {ev.call.at} ELSE {}

isPathJailed(hb, ev) == writeTargets(ev) \cap hb.jail # {}

refuses(hb, ev, luck) ==
    /\ hb.kind = "refuse" /\ ev.name = "PreToolUse"
    /\ matchesHabit(hb, ev, luck)
    /\ hb.jail # {} => isPathJailed(hb, ev)

injects(hb, ev, luck) == hb.kind = "inject" /\ matchesHabit(hb, ev, luck)

waits(i, ev, luck) ==
    /\ habits[i].path = "self.session-length"
    /\ injects(habits[i], ev, luck)
    /\ <<ev.s, i>> \notin fired

\* The command of a habit is run by the handler, and its failure fails it.
breaks(i, ev, luck, bad) ==
    /\ habits[i].path # "self.session-length"
    /\ injects(habits[i], ev, luck)
    /\ habits[i].bash /\ bad

\* The first habit after the k-th at which the evaluation does not just go on.
stopsAt(k, ev, luck, bad) ==
    LET S == {i \in k + 1 .. Len(habits) : \/ refuses(habits[i], ev, luck)
                                           \/ waits(i, ev, luck) \/ breaks(i, ev, luck, bad)}
    IN  IF S = {} THEN 0 ELSE CHOOSE i \in S : \A j \in S : i <= j

(***************************************************************************)
(* Guards.                                                                 *)
(***************************************************************************)
guardOfficeBoundary(ev) ==
    /\ ev.call.tool \in {"Write", "Bash"}
    /\ \/ "others' office" \in writeTargets(ev)
       \/ "own office" \in writeTargets(ev) /\ Works[ev.s] \notin Keeps

guardHabitEdit(ev) ==
    /\ ev.call.tool = "Write"
    /\ ev.call.at = "desk habit"
    /\ ev.call.what \in {"unresolved", "malformed", "ungranted"}

readHasPendingTasks(a) ==
    \E k \in DOMAIN snapshot[a] : snapshot[a][k].status \in {"pending", "in_progress"}

guardStopStall(s) ==
    /\ Works[s] \notin Keeps
    /\ s \notin blocked
    /\ readHasPendingTasks(Works[s])
    /\ s \notin reported

(***************************************************************************)
(* The task list of an agent, put together from the calls of its sessions. *)
(***************************************************************************)
reduce(list, m) ==
    CASE m.kind = "create" ->
           LET item == [id |-> m.id, content |-> m.content, status |-> "pending"]
           IN  IF \E k \in DOMAIN list : list[k].id = m.id
               THEN [k \in DOMAIN list |-> IF list[k].id = m.id THEN item ELSE list[k]]
               ELSE Append(list, item)
      [] m.kind = "remove" -> ElementsAt(list, {k \in DOMAIN list : list[k].id # m.id})
      [] m.kind = "status" ->
           [k \in DOMAIN list |-> IF list[k].id = m.id THEN [list[k] EXCEPT !.status = m.status]
                                  ELSE list[k]]
      [] m.kind = "rename" ->
           [k \in DOMAIN list |-> IF list[k].id = m.id THEN [list[k] EXCEPT !.content = m.content]
                                  ELSE list[k]]
      [] OTHER -> list

statusIn(list, id) ==
    IF \E k \in DOMAIN list : list[k].id = id
    THEN list[CHOOSE k \in DOMAIN list : list[k].id = id].status ELSE "(absent)"

\* Variant: a task that is gone is passed over.
diffTransitionsOfThese(old, new) ==
    LET changed == ElementsAt(new, {k \in DOMAIN new : statusIn(old, new[k].id) # new[k].status})
    IN  [k \in DOMAIN changed |->
           [id |-> changed[k].id, phase |-> changed[k].content,
            prev |-> statusIn(old, changed[k].id), new |-> changed[k].status]]

diffTransitions(old, new) ==
    LET changed == ElementsAt(new, {k \in DOMAIN new : statusIn(old, new[k].id) # new[k].status})
        gone == ElementsAt(old, {k \in DOMAIN old : statusIn(new, old[k].id) = "(absent)"})
    IN  [k \in DOMAIN changed |->
           [id |-> changed[k].id, phase |-> changed[k].content,
            prev |-> statusIn(old, changed[k].id), new |-> changed[k].status]]
        \o [k \in DOMAIN gone |-> [id |-> gone[k].id, phase |-> gone[k].content,
                                prev |-> gone[k].status, new |-> "removed"]]

applyTaskEvent(ev) ==
    LET a == Works[ev.s]
        current == reduce(snapshot[a], ev.done)
    IN  /\ snapshot' = [snapshot EXCEPT ![a] = current]
        /\ moves' = [moves EXCEPT ![a] = @ \o diffTransitions(snapshot[a], current)]

(***************************************************************************)
(* Quiet notifications.                                                    *)
(***************************************************************************)
drainQuietForAgent(a) ==
    [n \in DOMAIN quiet |-> IF quiet[n].to = a /\ quiet[n].state = "pending"
                            THEN [quiet[n] EXCEPT !.state = "delivered"] ELSE quiet[n]]
SaidOf(rows) ==
    [n \in DOMAIN rows |-> IF rows[n].state = "delivered" /\ quiet[n].state = "pending"
                           THEN [rows[n] EXCEPT !.said = @ + 1] ELSE rows[n]]

(***************************************************************************)
(* What the CLI does with an answer, or without one.  A call that was let  *)
(* through has an effect, and is posted again when it is over.             *)
(***************************************************************************)
NoCall == [tool |-> "none", plain |-> FALSE, at |-> "nowhere", what |-> "nothing"]
Nothing == [kind |-> "nothing"]
Event(s, name, call, done) == [s |-> s, name |-> name, call |-> call, done |-> done]

Effects(s, call) ==
    CASE call.tool = "TaskCreate" -> {[kind |-> "create", id |-> cli[s].made + 1, content |-> s]}
      [] call.tool = "TaskUpdate" /\ cli[s].made > 0 ->
           [kind : {"status"}, id : 1 .. cli[s].made, status : {"in_progress", "completed"}]
           \cup [kind : {"remove"}, id : 1 .. cli[s].made]
           \cup [kind : {"rename"}, id : 1 .. cli[s].made, content : {"renamed"}]
      \* `clobber report` and what else a shell can do
      [] call.tool = "Bash" -> {Nothing, [kind |-> "report"]}
      [] OTHER -> {Nothing}

GoesOn(h) ==
    LET ev == At(h)
    IN  CASE ev.name = "PreToolUse" ->
               \E done \in Effects(ev.s, ev.call) :
                  /\ slot' = [slot EXCEPT ![h] =
                        [st |-> "sent", at |-> 0, ev |-> Event(ev.s, "PostToolUse", ev.call, done)]]
                  /\ cli' = [cli EXCEPT ![ev.s].made = IF done.kind = "create" THEN @ + 1 ELSE @]
                  /\ reported' = IF done.kind = "report" THEN reported \cup {ev.s} ELSE reported
                  /\ \E long \in {FALSE, ev.call.tool = "Bash"} :
                        size' = IF long THEN [size EXCEPT ![ev.s] = 2] ELSE size
          [] ev.name = "Stop" ->
               /\ slot' = [slot EXCEPT ![h] = NoHook]
               /\ cli' = [cli EXCEPT ![ev.s].turn = "idle"]
               /\ UNCHANGED <<size, reported>>
          [] OTHER ->
               /\ slot' = [slot EXCEPT ![h] = NoHook]
               /\ UNCHANGED <<cli, size, reported>>

Denied(h) == slot' = [slot EXCEPT ![h] = NoHook] /\ UNCHANGED <<cli, size, reported>>

Posts(s, name, call) ==
    /\ posted < MaxHooks
    /\ posted' = posted + 1
    /\ \E h \in HookSlots :
          /\ slot[h] = NoHook
          /\ slot' = [slot EXCEPT ![h] = [st |-> "sent", at |-> 0, ev |-> Event(s, name, call, Nothing)]]
    /\ UNCHANGED <<habits, size, tokens, ended, reported, snapshot, moves, quiet, fired, blocked,
                   hookRestarts>>

UserPromptSubmit(s) ==
    /\ cli[s].turn = "idle" /\ Outstanding(s) = {}
    /\ cli' = [cli EXCEPT ![s].turn = "on"]
    /\ Posts(s, "UserPromptSubmit", NoCall)

\* The calls of a turn run side by side.
PreToolUse(s) ==
    /\ cli[s].turn = "on"
    /\ \A h \in Outstanding(s) : At(h).name \in {"PreToolUse", "PostToolUse"}
    /\ \E call \in ToolCalls : Posts(s, "PreToolUse", call)
    /\ UNCHANGED cli

Stop(s) ==
    /\ cli[s].turn = "on" /\ Outstanding(s) = {}
    /\ Posts(s, "Stop", NoCall)
    /\ UNCHANGED cli

\* A child that is ended says so, whatever it was doing.
SessionEnd(s) ==
    /\ cli[s].turn # "gone"
    /\ cli' = [cli EXCEPT ![s].turn = "gone"]
    /\ Posts(s, "SessionEnd", NoCall)

(***************************************************************************)
(* The handler.  It stops for good, or until what it waits for is there.   *)
(***************************************************************************)
HookMoves == UNCHANGED <<habits, ended, posted, hookRestarts>>

\* Variant: the quiet rows are taken before the habits are looked at.
EvaluateDrained(h, k) ==
    LET ev == At(h)
    IN  \E luck, bad \in BOOLEAN :
          LET i == stopsAt(k, ev, luck, bad)
              takes == ev.name \in {"UserPromptSubmit", "PostToolUse"} /\ k = 0
              rows == IF takes THEN drainQuietForAgent(Works[ev.s]) ELSE quiet
          IN  IF i = 0 THEN /\ quiet' = SaidOf(rows) /\ GoesOn(h)
              ELSE /\ quiet' = rows
                   /\ IF refuses(habits[i], ev, luck) THEN Denied(h)
                      ELSE IF waits(i, ev, luck)
                      THEN /\ slot' = [slot EXCEPT ![h].st = "length", ![h].at = i]
                           /\ UNCHANGED <<cli, size, reported>>
                      ELSE GoesOn(h)

(* From the habit after the k-th to the answer, which carries the hints    *)
(* and the quiet rows of the agent, unless a habit refuses or fails.       *)
Evaluate(h, k) ==
    LET ev == At(h)
    IN  \E luck, bad \in BOOLEAN :
          LET i == stopsAt(k, ev, luck, bad)
          IN  IF i = 0
              THEN /\ quiet' = IF ev.name \in {"UserPromptSubmit", "PostToolUse"}
                               THEN SaidOf(drainQuietForAgent(Works[ev.s])) ELSE quiet
                   /\ GoesOn(h)
              ELSE /\ UNCHANGED quiet
                   /\ IF refuses(habits[i], ev, luck) THEN Denied(h)
                      ELSE IF waits(i, ev, luck)
                      THEN /\ slot' = [slot EXCEPT ![h].st = "length", ![h].at = i]
                           /\ UNCHANGED <<cli, size, reported>>
                      ELSE GoesOn(h)

ToolArrives(h) ==
    /\ slot[h].st = "sent"
    /\ At(h).name \in {"PreToolUse", "UserPromptSubmit"}
    /\ IF At(h).name = "PreToolUse" /\ (guardOfficeBoundary(At(h)) \/ guardHabitEdit(At(h)))
       THEN Denied(h) /\ UNCHANGED quiet
       ELSE Evaluate(h, 0)
    /\ HookMoves /\ UNCHANGED <<tokens, snapshot, moves, fired, blocked>>

PostToolUse(h) ==
    /\ slot[h].st = "sent" /\ At(h).name = "PostToolUse"
    /\ Len(moves[Works[At(h).s]]) < MaxTaskRows
    /\ applyTaskEvent(At(h))
    /\ Evaluate(h, 0)
    /\ HookMoves /\ UNCHANGED <<tokens, fired, blocked>>

\* The tail of the transcript is there.
LengthRead(h) ==
    /\ slot[h].st = "length"
    /\ LET i == slot[h].at
           s == At(h).s
           long == size[s] = 2
       IN  /\ fired' = IF long THEN fired \cup {<<s, i>>} ELSE fired
           /\ \/ Evaluate(h, i)
              \/ long /\ habits[i].bash /\ GoesOn(h) /\ UNCHANGED quiet
    /\ HookMoves /\ UNCHANGED <<tokens, snapshot, moves, blocked>>

StopArrives(h) ==
    /\ slot[h].st = "sent" /\ At(h).name = "Stop"
    /\ LET s == At(h).s
       IN  IF guardStopStall(s)
           THEN /\ blocked' = blocked \cup {s}
                /\ Denied(h)
           ELSE /\ slot' = [slot EXCEPT ![h].st = "flush"]
                /\ UNCHANGED <<blocked, cli, size, reported>>
    /\ HookMoves /\ UNCHANGED <<tokens, snapshot, moves, quiet, fired>>

\* The wakes are out and the tail is read.
Flushed(h) ==
    /\ slot[h].st = "flush"
    /\ tokens' = [tokens EXCEPT ![At(h).s] = size[At(h).s]]
    /\ Evaluate(h, 0)
    /\ HookMoves /\ UNCHANGED <<snapshot, moves, fired, blocked>>

SessionEndArrives(h) ==
    /\ slot[h].st = "sent" /\ At(h).name = "SessionEnd"
    /\ ended' = ended \cup {At(h).s}
    /\ GoesOn(h)
    /\ UNCHANGED <<habits, tokens, snapshot, moves, quiet, fired, blocked, posted, hookRestarts>>

(***************************************************************************)
(* The rest of the server.                                                 *)
(***************************************************************************)
QuietSent(a) ==
    /\ Len(quiet) < MaxQuiet
    /\ quiet' = Append(quiet, [to |-> a, state |-> "pending", said |-> 0])
    /\ UNCHANGED <<cli, slot, habits, size, tokens, ended, reported, snapshot, moves, fired, blocked,
                   posted, hookRestarts>>

\* What was sent or worked on is never answered, and the CLI goes on.
HookLost(h) ==
    /\ hookRestarts > 0 /\ slot[h] # NoHook /\ slot[h].st = "lost"
    /\ GoesOn(h)
    /\ HookMoves /\ UNCHANGED <<tokens, snapshot, moves, quiet, fired, blocked>>

HookRestart ==
    /\ hookRestarts < MaxHookRestarts
    /\ hookRestarts' = hookRestarts + 1
    /\ slot' = [h \in HookSlots |-> IF slot[h] = NoHook THEN NoHook ELSE [slot[h] EXCEPT !.st = "lost"]]
    /\ fired' = {} /\ blocked' = {}
    /\ UNCHANGED <<cli, habits, size, tokens, ended, reported, snapshot, moves, quiet, posted>>

HookInit ==
    /\ \E turn \in {"idle", "on"} : cli = [s \in HookSessions |-> [turn |-> turn, made |-> 0]]
    /\ slot = [h \in HookSlots |-> NoHook]
    /\ habits \in HabitLists
    /\ size = [s \in HookSessions |-> 1]
    /\ tokens = [s \in HookSessions |-> 0]
    /\ ended = {} /\ reported = {} /\ fired = {} /\ blocked = {}
    /\ snapshot = [a \in HookAgents |-> <<>>]
    /\ moves = [a \in HookAgents |-> <<>>]
    /\ quiet = <<>>
    /\ posted = 0 /\ hookRestarts = 0

HookNext ==
    \/ \E s \in HookSessions : \/ UserPromptSubmit(s) \/ PreToolUse(s) \/ Stop(s) \/ SessionEnd(s)
    \/ \E h \in HookSlots : \/ ToolArrives(h) \/ PostToolUse(h) \/ LengthRead(h) \/ StopArrives(h)
                            \/ Flushed(h) \/ SessionEndArrives(h) \/ HookLost(h)
    \/ \E a \in HookAgents : QuietSent(a)
    \/ HookRestart

HookSpec == HookInit /\ [][HookNext]_hookVars

(***************************************************************************)
(* Properties.                                                             *)
(***************************************************************************)
(* A quiet row that counts as delivered was put into the answer of exactly *)
(* one hook, whichever habits failed or waited before the answer, whichever*)
(* hooks of the agent's sessions overlapped and whatever a restart cut off.*)
QuietSaid == \A n \in DOMAIN quiet : quiet[n].said = IF quiet[n].state = "delivered" THEN 1 ELSE 0

(* The phase transitions an agent's log shows are one history: each starts *)
(* where the one before it on the same task ended, and the last one ends   *)
(* where the newest snapshot is, also when sessions of the agent number    *)
(* their tasks alike and the hooks of parallel calls come in any order.    *)
TransitionsReplay ==
    \A a \in HookAgents :
        LET of(id) == ElementsAt(moves[a], {k \in DOMAIN moves[a] : moves[a][k].id = id})
            after(m) == IF m.new = "removed" THEN "(absent)" ELSE m.new
        IN  \A id \in 1 .. MaxHooks :
              /\ \A k \in DOMAIN of(id) :
                    of(id)[k].prev = IF k = 1 THEN "(absent)" ELSE after(of(id)[k - 1])
              /\ statusIn(snapshot[a], id) =
                    IF of(id) = <<>> THEN "(absent)" ELSE after(of(id)[Len(of(id))])
=============================================================================
