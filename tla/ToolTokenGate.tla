----------------------------- MODULE ToolTokenGate -----------------------------
(***************************************************************************)
(* The tool-token interlock: a call of a high-repercussion tool without a  *)
(* token mints one and injects it into the transcript of the session that  *)
(* bears the consequence; the bearer redeems it, the tool's action runs,   *)
(* and only then the token is consumed.  Two tools use the gate: `cycle`,  *)
(* which awaits a fresh session and ends the bearer's, and `test-tool`,    *)
(* whose action is synchronous and fails as often as its arguments say.    *)
(*                                                                         *)
(* Rows of tool_tokens outlive a restart; handlers that wait do not.       *)
(***************************************************************************)
EXTENDS Naturals

CONSTANTS
    Lead, Help,      \* the agents: a persistent one and one of a worker role
    Unseated,
    GateReqs,        \* bound: handlers in flight
    MaxToolTokens,   \* bound: tokens ever minted
    MaxSeats,        \* bound: sessions ever created
    MaxGateRestarts

ASSUME GateAssumption == /\ MaxToolTokens \in Nat
                         /\ MaxSeats \in Nat \ {0, 1}
                         /\ MaxGateRestarts \in Nat
                         /\ Lead # Help
                         /\ Unseated \notin {Lead, Help}

ToolTokens == 1 .. MaxToolTokens
Seats == 1 .. MaxSeats
Tools == {"cycle", "test-tool"}

VARIABLES
    lifetime,  \* the runtime's processLifetime
    seat,      \* sessions: a deaf one is active and has no live child
    row,       \* tokens, in the order in which they were minted
    told,      \* the tokens whose interjection reached their target's transcript
    fired,     \* how many actions of a token's redemptions came to their end
    failed,    \* the attempts map of the test-tool
    gateJob,
    gateRestarts

gateVars == <<lifetime, seat, row, told, fired, failed, gateJob, gateRestarts>>

\* A revoked, replaced or consumed row is deleted: "gone".
ToolTokenRows == [st: {"none", "live", "gone"}, target: 0 .. MaxSeats, tool: Tools,
                  failAttempts: 0 .. 1]
NoRow == [st |-> "none", target |-> 0, tool |-> "cycle", failAttempts |-> 0]

GateJobs == [at: {"idle", "inject", "cycle", "consume"}, token: 0 .. MaxToolTokens]
GateIdle == [at |-> "idle", token |-> 0]

GateTypeOK ==
    /\ lifetime \in {"session", "turn"}
    /\ seat \in [Seats -> [agent: {Lead, Help, Unseated}, st: {"none", "live", "deaf", "ended"}]]
    /\ row \in [ToolTokens -> ToolTokenRows]
    /\ told \subseteq ToolTokens
    /\ fired \in [ToolTokens -> Nat]
    /\ failed \in [ToolTokens -> 0 .. 1]
    /\ gateJob \in [GateReqs -> GateJobs]
    /\ gateRestarts \in 0 .. MaxGateRestarts

GateInit ==
    /\ lifetime \in {"session", "turn"}
    /\ seat = [s \in Seats |-> CASE s = 1 -> [agent |-> Lead, st |-> "live"]
                                 [] s = 2 -> [agent |-> Help, st |-> "live"]
                                 [] OTHER -> [agent |-> Unseated, st |-> "none"]]
    /\ row = [t \in ToolTokens |-> NoRow]
    /\ told = {}
    /\ fired = [t \in ToolTokens |-> 0]
    /\ failed = [t \in ToolTokens |-> 0]
    /\ gateJob = [h \in GateReqs |-> GateIdle]
    /\ gateRestarts = 0

-----------------------------------------------------------------------------
(* The store.                                                              *)

FreshToken(t) == row[t].st = "none" /\ \A u \in 1 .. t - 1 : row[u].st # "none"
rowsOf(target, tool) ==
    {t \in ToolTokens : row[t].st = "live" /\ row[t].target = target /\ row[t].tool = tool}

Deleted(T) == [t \in ToolTokens |-> IF t \in T THEN [row[t] EXCEPT !.st = "gone"] ELSE row[t]]

\* Variant: the earlier token of the target and the tool stays.
mintBeside(t, target, tool, n) ==
    [row EXCEPT ![t] = [st |-> "live", target |-> target, tool |-> tool, failAttempts |-> n]]

\* Revoke and replace, in one call without an await.
mint(t, target, tool, n) ==
    [Deleted(rowsOf(target, tool)) EXCEPT
        ![t] = [st |-> "live", target |-> target, tool |-> tool, failAttempts |-> n]]

revoke(target, tool) == Deleted(rowsOf(target, tool))

consume(t) == Deleted({t})

-----------------------------------------------------------------------------
(* Sessions.                                                               *)

isLive(s) == seat[s].st \in {"live", "deaf"}
seated(a) == {s \in Seats : seat[s].agent = a /\ isLive(s)}
FreshSeat(s) == seat[s].st = "none" /\ \A u \in 1 .. s - 1 : seat[u].st # "none"

ChildLeaves(s) == /\ seat[s].st = "live"
                  /\ seat' = [seat EXCEPT ![s].st = "deaf"]
                  /\ UNCHANGED <<lifetime, row, told, fired, failed, gateJob, gateRestarts>>

\* The next prompt of a turn-lifetime session.
TurnBegins(s) == /\ lifetime = "turn"
                 /\ seat[s].st = "deaf"
                 /\ seat' = [seat EXCEPT ![s].st = "live"]
                 /\ UNCHANGED <<lifetime, row, told, fired, failed, gateJob, gateRestarts>>

SeatEnds(s) == /\ isLive(s)
               /\ seat' = [seat EXCEPT ![s].st = "ended"]
               /\ UNCHANGED <<lifetime, row, told, fired, failed, gateJob, gateRestarts>>

SeatResumes(s) == /\ seat[s].st = "ended"
                  /\ seated(seat[s].agent) = {}
                  /\ seat' = [seat EXCEPT ![s].st = "live"]
                  /\ UNCHANGED <<lifetime, row, told, fired, failed, gateJob, gateRestarts>>

-----------------------------------------------------------------------------
(* mintAndInject.                                                          *)

\* injectPrompt: a live child's stdin takes the interjection on a session-lifetime
\* runtime; without one the session is ended there.  A turn-lifetime child that
\* runs is busy; one that does not is resumed, and that is awaited.
Inject(h, t, target, rows) ==
    \/ /\ lifetime = "session"
       /\ seat[target].st = "live"
       /\ row' = rows
       /\ told' = told \cup {t}
       /\ UNCHANGED <<seat, gateJob>>
    \/ /\ lifetime = "session"
       /\ seat[target].st = "deaf"
       /\ seat' = [seat EXCEPT ![target].st = "ended"]
       /\ row' = [rows EXCEPT ![t].st = "gone"]
       /\ UNCHANGED <<told, gateJob>>
    \/ /\ lifetime = "turn"
       /\ seat[target].st = "live"
       /\ row' = [rows EXCEPT ![t].st = "gone"]
       /\ UNCHANGED <<seat, told, gateJob>>
    \/ /\ lifetime = "turn"
       /\ seat[target].st = "deaf"
       /\ row' = rows
       /\ gateJob' = [gateJob EXCEPT ![h] = [at |-> "inject", token |-> t]]
       /\ UNCHANGED <<seat, told>>

mintAndInject(h, t, caller, target, tool, n) ==
    /\ gateJob[h] = GateIdle
    /\ FreshToken(t)
    /\ isLive(caller)
    /\ isLive(target)
    /\ Inject(h, t, target, mint(t, target, tool, n))
    /\ UNCHANGED <<lifetime, fired, failed, gateRestarts>>

\* POST /agent/cycle and /agent/test-tool without a token: a cycle is for a
\* persistent agent's session.
MintCycle(h, t, caller, target) ==
    /\ seat[target].agent = Lead
    /\ mintAndInject(h, t, caller, target, "cycle", 0)

MintTest(h, t, caller, target, n) == mintAndInject(h, t, caller, target, "test-tool", n)

\* What clobber cycle posts: a brief, or a token and nothing else.
CycleCommand(h) == \E t \in ToolTokens, c, s \in Seats : MintCycle(h, t, c, s)
TestCommand(h) == \E t \in ToolTokens, c, s \in Seats, n \in 0 .. 1 : MintTest(h, t, c, s, n)

InjectResumed(h) ==
    LET t == gateJob[h].token IN
    /\ gateJob[h].at = "inject"
    /\ seat' = [seat EXCEPT ![row[t].target].st = "live"]
    /\ told' = told \cup {t}
    /\ gateJob' = [gateJob EXCEPT ![h] = GateIdle]
    /\ UNCHANGED <<lifetime, row, fired, failed, gateRestarts>>

\* The token that is revoked is the one that the target and the tool have now.
InjectFailed(h) ==
    LET t == gateJob[h].token IN
    /\ gateJob[h].at = "inject"
    /\ row' = revoke(row[t].target, row[t].tool)
    /\ gateJob' = [gateJob EXCEPT ![h] = GateIdle]
    /\ UNCHANGED <<lifetime, seat, told, fired, failed, gateRestarts>>

-----------------------------------------------------------------------------
(* redeem.                                                                 *)

\* The bearer alone, and for the tool it was minted for.  A token is presented by
\* whoever learned it from a transcript.
mayRedeem(caller, t, tool) ==
    /\ isLive(caller)
    /\ t \in told
    /\ row[t].st = "live"
    /\ row[t].tool = tool
    /\ row[t].target = caller

\* Variant: the token is consumed before the action runs.
RedeemCycleConsuming(h, caller, t) ==
    /\ gateJob[h] = GateIdle
    /\ mayRedeem(caller, t, "cycle")
    /\ row' = consume(t)
    /\ gateJob' = [gateJob EXCEPT ![h] = [at |-> "cycle", token |-> t]]
    /\ UNCHANGED <<lifetime, seat, told, fired, failed, gateRestarts>>

RedeemCycle(h, caller, t) ==
    /\ gateJob[h] = GateIdle
    /\ mayRedeem(caller, t, "cycle")
    /\ gateJob' = [gateJob EXCEPT ![h] = [at |-> "cycle", token |-> t]]
    /\ UNCHANGED <<lifetime, seat, row, told, fired, failed, gateRestarts>>

\* executeCycle throws BootFailureError, and the old session was never touched.
CycleBootFails(h) ==
    /\ gateJob[h].at = "cycle"
    /\ gateJob' = [gateJob EXCEPT ![h] = GateIdle]
    /\ UNCHANGED <<lifetime, seat, row, told, fired, failed, gateRestarts>>

\* The fresh session is up and the bearer's is ended, however it stands.
CycleSeats(h) ==
    LET t == gateJob[h].token
        old == row[t].target
    IN
    /\ gateJob[h].at = "cycle"
    /\ \E s \in Seats : /\ FreshSeat(s)
                        /\ seat' = [seat EXCEPT ![s] = [agent |-> seat[old].agent, st |-> "live"],
                                                ![old].st = "ended"]
    /\ fired' = [fired EXCEPT ![t] = @ + 1]
    /\ gateJob' = [gateJob EXCEPT ![h].at = "consume"]
    /\ UNCHANGED <<lifetime, row, told, failed, gateRestarts>>

Consume(h) ==
    /\ gateJob[h].at = "consume"
    /\ row' = consume(gateJob[h].token)
    /\ gateJob' = [gateJob EXCEPT ![h] = GateIdle]
    /\ UNCHANGED <<lifetime, seat, told, fired, failed, gateRestarts>>

RedeemTest(caller, t) ==
    /\ mayRedeem(caller, t, "test-tool")
    /\ \/ /\ failed[t] < row[t].failAttempts
          /\ failed' = [failed EXCEPT ![t] = @ + 1]
          /\ UNCHANGED <<row, fired>>
       \/ /\ failed[t] >= row[t].failAttempts
          /\ fired' = [fired EXCEPT ![t] = @ + 1]
          /\ row' = consume(t)
          /\ UNCHANGED failed
    /\ UNCHANGED <<lifetime, seat, told, gateJob, gateRestarts>>

-----------------------------------------------------------------------------
\* What waits is lost, with the attempts; children that survive lose their live
\* handle, and the sessions of D, whose children died, are ended at boot.
GateRestart(D) ==
    /\ gateRestarts < MaxGateRestarts
    /\ gateRestarts' = gateRestarts + 1
    /\ seat' = [s \in Seats |->
                  IF s \in D THEN [seat[s] EXCEPT !.st = "ended"]
                  ELSE [seat[s] EXCEPT !.st = IF @ = "live" THEN "deaf" ELSE @]]
    /\ failed' = [t \in ToolTokens |-> 0]
    /\ gateJob' = [h \in GateReqs |-> GateIdle]
    /\ UNCHANGED <<lifetime, row, told, fired>>

GateNext ==
    \/ \E s \in Seats : ChildLeaves(s) \/ TurnBegins(s) \/ SeatEnds(s) \/ SeatResumes(s)
    \/ \E h \in GateReqs : \/ CycleCommand(h) \/ TestCommand(h)
                           \/ InjectResumed(h) \/ InjectFailed(h)
                           \/ CycleBootFails(h) \/ CycleSeats(h) \/ Consume(h)
    \/ \E h \in GateReqs, s \in Seats, t \in ToolTokens : RedeemCycle(h, s, t)
    \/ \E s \in Seats, t \in ToolTokens : RedeemTest(s, t)
    \/ \E D \in SUBSET {s \in Seats : isLive(s)} : GateRestart(D)

GateSpec == GateInit /\ [][GateNext]_gateVars

-----------------------------------------------------------------------------
(* Properties.                                                             *)

\* The redemptions that begin in a step.
Begins(t) == \/ row[t].tool = "test-tool" /\ (fired'[t] > fired[t] \/ failed'[t] > failed[t])
             \/ \E h \in GateReqs : gateJob[h] = GateIdle /\ gateJob'[h] = [at |-> "cycle", token |-> t]

\* Re-issuing revokes: once fresh arguments are bound for a target and a tool, no
\* redemption of an earlier token of theirs begins, whatever failed, was retried
\* or was lost in a restart in between.
NoStaleFire == [][\A t \in ToolTokens : Begins(t) =>
    \A u \in t + 1 .. MaxToolTokens :
        row[u].st # "none" => row[u].target # row[t].target \/ row[u].tool # row[t].tool]_gateVars

\* Retry until success: a token that was delivered leaves the store only when its
\* action has come to its end, or its target and tool get another one, or a
\* delivery to them fails; a throw, a boot failure or a restart leaves it.
LiveUntilFired == [][\A t \in ToolTokens :
    row[t].st = "live" /\ row'[t].st = "gone" =>
        \/ fired'[t] > 0
        \/ \E u \in ToolTokens : /\ row[u].st = "none" /\ row'[u].st # "none"
                                 /\ row'[u].target = row[t].target /\ row'[u].tool = row[t].tool
        \/ \E h \in GateReqs : /\ gateJob[h].at = "inject" /\ gateJob'[h] = GateIdle
                               /\ row[gateJob[h].token].target = row[t].target
                               /\ row[gateJob[h].token].tool = row[t].tool]_gateVars

===============================================================================
