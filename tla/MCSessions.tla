----------------------------- MODULE MCSessions -----------------------------
(***************************************************************************)
(* What happens to and in a session, for TLC in one run: its life, its     *)
(* hooks, its transcript and the turns of one on codex.  As in MCServer,   *)
(* an initial state picks the component that moves and the others stay at  *)
(* their initial state.  The transcript is taken twice: while it is        *)
(* written and repaired, and, with fewer lines, while a browser follows    *)
(* it.                                                                     *)
(***************************************************************************)
EXTENDS SessionLifecycle, Hooks, Transcripts, CodexTurns, TLC

CONSTANT MaxViewed  \* bound: lines written while a browser follows

VARIABLE part

(* One agent, whose sessions overlap at a cycle, and its role's habits.    *)
OneAgent == [s \in HookSessions |-> "A"]

habit(path, phase, kind, tools, jail, bash) ==
    [path |-> path, phase |-> phase, kind |-> kind, tools |-> tools, jail |-> jail,
     rand |-> FALSE, bash |-> bash]
RoleHabits ==
    {<<habit("self.session-length", "PostToolUse", "inject", {}, {}, FALSE),
       habit("self.tool-use", "PreToolUse", "refuse", {"Bash"}, {"outside"}, FALSE),
       habit("self.session-message", "UserPromptSubmit", "inject", {}, {}, TRUE)>>}

call(tool, plain, at) == [tool |-> tool, plain |-> plain, at |-> at, what |-> "fine"]
Calls == {call("TaskCreate", TRUE, "nowhere"), call("TaskUpdate", TRUE, "nowhere"),
          call("Bash", TRUE, "outside"), call("Bash", FALSE, "outside")}

Slots == Permutations(Reqs) \cup Permutations(HookSessions) \cup Permutations(HookSlots)

others == <<hookVars, transVars, turnVars>>

SessionsInit ==
    /\ part \in {"life", "hooks", "transcript", "view", "turns"}
    /\ Init /\ HookInit /\ TransInit /\ TurnInit
    /\ part # "hooks" => \A s \in HookSessions : cli[s].turn = "idle"
    /\ part # "view" => prefix

SessionsNext ==
    /\ UNCHANGED part
    /\ \/ part = "life" /\ Next /\ UNCHANGED others
       \/ part = "hooks" /\ HookNext /\ UNCHANGED <<vars, transVars, turnVars>>
       \/ part = "transcript" /\ UNCHANGED <<vars, hookVars, turnVars, viewVars>> /\ TransNext
       \/ part = "view" /\ TransNext /\ written' <= MaxViewed /\ UNCHANGED <<vars, hookVars, turnVars>>
       \/ part = "turns" /\ TurnNext /\ UNCHANGED <<vars, hookVars, transVars>>

SessionsSpec == SessionsInit /\ [][SessionsNext]_<<part, vars, others>>
=============================================================================
