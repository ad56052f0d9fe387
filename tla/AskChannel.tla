----------------------------- MODULE AskChannel -----------------------------
(***************************************************************************)
(* The ask channel of one session: the rows of agent_questions, the map of *)
(* waiters in memory, the request handlers that are parked on a question   *)
(* for one poll window, and the clients on the other side: the `clobber    *)
(* ask` command, which polls again while it is told `pending`, and the     *)
(* AskUserQuestion hook, whose one request stays parked until the end.     *)
(* Connections drop, polls overlap, the session ends, resumes, and the     *)
(* server restarts.                                                        *)
(***************************************************************************)
EXTENDS Naturals

CONSTANTS
    Clis, Bridges,  \* the clients: commands and hooks
    Nobody,         \* no handler, no client
    MaxQuestions,   \* bound: questions ever asked
    MaxHandlers,    \* bound: requests parked in the server at a time
    MaxResumes,     \* bound: times the session is resumed
    MaxFaults       \* bound: dropped connections, unreachable servers, restarts

ASSUME AskAssumption == /\ MaxQuestions \in Nat
                        /\ MaxHandlers \in Nat
                        /\ MaxResumes \in Nat
                        /\ MaxFaults \in Nat
                        /\ Clis \cap Bridges = {}
                        /\ Nobody \notin Clis \cup Bridges
                        /\ Nobody \notin 1 .. MaxHandlers

Clients == Clis \cup Bridges
Questions == 1 .. MaxQuestions
Handlers == 1 .. MaxHandlers

VARIABLES
    status,  \* agent_questions.status; none: no row
    waiter,  \* the waiter registered for a question: the handler it resolves
    parked,  \* handlers: the question waited on, whether the request blocks until
             \* the end, and the client while its connection lasts
    client,
    active,  \* the session is not ended
    bearers,   \* bearer tokens minted for the session; the last one is valid
    faults

askVars == <<status, waiter, parked, client, active, bearers, faults>>

Free == [q |-> 0, blocking |-> FALSE, client |-> Nobody]

\* st: asking and polling are about to send a POST or a GET; q is the question
\* the server created for the client and `knows` whether it was told its id.
ClientStates == [st: {"idle", "asking", "parked", "polling", "done"},
                 q: 0 .. MaxQuestions, knows: BOOLEAN, token: 0 .. MaxResumes,
                 got: {"none", "answered", "cancelled", "undeliverable", "error", "lost"}]

AskTypeOK ==
    /\ status \in [Questions -> {"none", "pending", "answered", "cancelled"}]
    /\ waiter \in [Questions -> Handlers \cup {Nobody}]
    /\ parked \in [Handlers -> [q: 0 .. MaxQuestions, blocking: BOOLEAN,
                                client: Clients \cup {Nobody}]]
    /\ client \in [Clients -> ClientStates]
    /\ active \in BOOLEAN
    /\ bearers \in 0 .. MaxResumes
    /\ faults \in 0 .. MaxFaults

AskInit ==
    /\ status = [q \in Questions |-> "none"]
    /\ waiter = [q \in Questions |-> Nobody]
    /\ parked = [h \in Handlers |-> Free]
    /\ client = [c \in Clients |-> [st |-> "idle", q |-> 0, knows |-> FALSE,
                                    token |-> 0, got |-> "none"]]
    /\ active = TRUE
    /\ bearers = 0
    /\ faults = 0

-----------------------------------------------------------------------------
Pending == {q \in Questions : status[q] = "pending"}
FreshQuestion(q) == status[q] = "none" /\ \A p \in 1 .. q - 1 : status[p] # "none"
FreeHandler(h) == parked[h].q = 0 /\ \A g \in 1 .. h - 1 : parked[g].q # 0

\* Variants: only an answer ends the wait; a row is taken for resolved as it is.
resolveTerminalAnsweredOnly(q) == status[q] = "answered"
resolveTerminalAny(q) == TRUE

resolveTerminal(q) == status[q] # "pending"

Update(Q, s) == [q \in Questions |-> IF q \in Q THEN s ELSE status[q]]

\* The clients whose connection one of the handlers still holds.
clientsOf(H) == {c \in Clients : \E h \in H : parked[h].client = c}
Told(c, s) == [client[c] EXCEPT !.st = "done", !.got = s]
TellAll(C, s) == [c \in Clients |-> IF c \in C THEN Told(c, s) ELSE client[c]]

\* Variant: nobody is notified.
notifyNobody(Q) == {}

\* The handlers that notify() resolves for the questions of Q.
notify(Q) == {h \in Handlers : \E q \in Q : waiter[q] = h}

\* The waiter entries and the handlers after the questions of Q were notified.
waiterWithout(Q) == [q \in Questions |-> IF q \in Q THEN Nobody ELSE waiter[q]]
parkedWithout(H) == [h \in Handlers |-> IF h \in H THEN Free ELSE parked[h]]

\* Variant: the entry of an elapsed wait stays in the map.
timerDeletesNothing(q) == waiter

\* The timer removes the waiter of its question, whoever registered it.
timerDeletes(q) == waiterWithout({q})

\* resolveCallerSession: the token is the session's, and the session is active.
authorized(c) == active /\ client[c].token = bearers

-----------------------------------------------------------------------------
(* Clients.                                                                *)

\* createAndAwaitAnswer: cancel and notify the open question, create the new one,
\* wait one window on it.
createAndAwaitAnswer(c, t) ==
    \E q \in Questions, h \in Handlers :
        LET woken == notify(Pending)
        IN  /\ FreshQuestion(q)
            /\ FreeHandler(h)
            /\ status' = [Update(Pending, "cancelled") EXCEPT ![q] = "pending"]
            /\ waiter' = [waiterWithout(Pending) EXCEPT ![q] = h]
            /\ parked' = [parkedWithout(woken) EXCEPT
                            ![h] = [q |-> q, blocking |-> c \in Bridges, client |-> c]]
            /\ client' = [TellAll(clientsOf(woken), "cancelled") EXCEPT
                            ![c] = [st |-> "parked", q |-> q, knows |-> FALSE,
                                    token |-> t, got |-> "none"]]
            /\ UNCHANGED <<active, bearers, faults>>

\* POST /agent/ask by a command that its session starts.
CliAsks(c) ==
    /\ client[c].st = "idle"
    /\ active
    /\ createAndAwaitAnswer(c, bearers)

\* The POST is sent again when its connection was lost.
CliAsksAgain(c) ==
    /\ client[c].st = "asking"
    /\ authorized(c)
    /\ createAndAwaitAnswer(c, client[c].token)

\* The hook asks for the session its payload names, ended or not.
BridgeAsks(c) ==
    /\ client[c].st = "idle"
    /\ createAndAwaitAnswer(c, bearers)

\* GET /agent/ask/:id: answered at once when the question is resolved, else parked
\* for one window; the new waiter takes the place of an older one.
CliPolls(c) ==
    LET q == client[c].q IN
    /\ client[c].st = "polling"
    /\ authorized(c)
    /\ \/ /\ resolveTerminal(q)
          /\ client' = [client EXCEPT ![c] = Told(c, status[q])]
          /\ UNCHANGED <<waiter, parked>>
       \/ /\ ~resolveTerminal(q)
          /\ \E h \in Handlers :
                /\ FreeHandler(h)
                /\ waiter' = [waiter EXCEPT ![q] = h]
                /\ parked' = [parked EXCEPT ![h] = [q |-> q, blocking |-> FALSE,
                                                    client |-> c]]
          /\ client' = [client EXCEPT ![c].st = "parked"]
    /\ UNCHANGED <<status, active, bearers, faults>>

\* 401: the command fails, and not with the notice of a closed question.
CliRefused(c) ==
    /\ client[c].st \in {"asking", "polling"}
    /\ ~authorized(c)
    /\ client' = [client EXCEPT ![c] = Told(c, "error")]
    /\ UNCHANGED <<status, waiter, parked, active, bearers, faults>>

\* The retry budget is spent and the server still cannot be reached.
CliGivesUp(c) ==
    /\ client[c].st \in {"asking", "polling"}
    /\ faults < MaxFaults
    /\ faults' = faults + 1
    /\ client' = [client EXCEPT ![c] = Told(c, "undeliverable")]
    /\ UNCHANGED <<status, waiter, parked, active, bearers>>

\* A client that loses its connection: a hook is over, a command tries again.
Disconnected(c) ==
    IF c \in Bridges THEN Told(c, "lost")
    ELSE [client[c] EXCEPT !.st = IF client[c].knows THEN "polling" ELSE "asking"]

\* The handler of a dropped connection stays parked.
Drop(c) ==
    /\ client[c].st = "parked"
    /\ faults < MaxFaults
    /\ faults' = faults + 1
    /\ client' = [client EXCEPT ![c] = Disconnected(c)]
    /\ parked' = [h \in Handlers |-> IF parked[h].client = c
                                     THEN [parked[h] EXCEPT !.client = Nobody] ELSE parked[h]]
    /\ UNCHANGED <<status, waiter, active, bearers>>

-----------------------------------------------------------------------------
(* The server.                                                             *)

\* A poll window elapses: the handler looks at the row once more; then the hook's
\* request waits again, and the command is told `pending`.
TimerFires(h) ==
    LET q == parked[h].q
        C == clientsOf({h})
    IN
    /\ q # 0
    /\ \/ /\ resolveTerminal(q)
          /\ client' = TellAll(C, status[q])
          /\ parked' = parkedWithout({h})
          /\ waiter' = timerDeletes(q)
       \/ /\ ~resolveTerminal(q)
          /\ parked[h].blocking
          /\ waiter' = [waiter EXCEPT ![q] = h]
          /\ UNCHANGED <<client, parked>>
       \/ /\ ~resolveTerminal(q)
          /\ ~parked[h].blocking
          /\ client' = [c \in Clients |->
                IF c \in C THEN [client[c] EXCEPT !.st = "polling", !.knows = TRUE]
                ELSE client[c]]
          /\ parked' = parkedWithout({h})
          /\ waiter' = timerDeletes(q)
    /\ UNCHANGED <<status, active, bearers, faults>>

\* The questions of Q are resolved to s, and whoever waits for one is notified.
Resolve(Q, s) ==
    /\ status' = Update(Q, s)
    /\ waiter' = waiterWithout(Q)
    /\ parked' = parkedWithout(notify(Q))
    /\ client' = TellAll(clientsOf(notify(Q)), s)

\* Variant: the update has no status guard.
AnswerAnyTime(q) ==
    /\ status[q] # "none"
    /\ Resolve({q}, "answered")
    /\ UNCHANGED <<active, bearers, faults>>

\* POST /sessions/:id/answer on a pending question.
Answer(q) ==
    /\ q \in Pending
    /\ Resolve({q}, "answered")
    /\ UNCHANGED <<active, bearers, faults>>

\* Variant: the open question outlives its session.
closeAsksOnly == active /\ active' = FALSE
                  /\ UNCHANGED <<status, waiter, parked, client, bearers, faults>>

\* endSession, as SessionLifecycle has it, and what it does to the channel.
closeAsks ==
    /\ active
    /\ active' = FALSE
    /\ Resolve(Pending, "cancelled")
    /\ UNCHANGED <<bearers, faults>>

\* performResume: the session is active again, under a new token.
ResumeSession ==
    /\ ~active
    /\ bearers < MaxResumes
    /\ active' = TRUE
    /\ bearers' = bearers + 1
    /\ UNCHANGED <<status, waiter, parked, client, faults>>

\* The parked requests and the waiters are lost; the boot reaper may end the
\* session, before anything is served.
AskRestart(reap) ==
    /\ faults < MaxFaults
    /\ faults' = faults + 1
    /\ parked' = [h \in Handlers |-> Free]
    /\ waiter' = [q \in Questions |-> Nobody]
    /\ client' = [c \in Clients |-> IF client[c].st = "parked" THEN Disconnected(c)
                                    ELSE client[c]]
    /\ reap => active
    /\ active' = (active /\ ~reap)
    /\ status' = IF reap THEN Update(Pending, "cancelled") ELSE status
    /\ UNCHANGED bearers

CliSteps(c) == CliAsksAgain(c) \/ CliPolls(c) \/ CliRefused(c)

AskNext ==
    \/ \E c \in Clis : CliAsks(c) \/ CliSteps(c) \/ CliGivesUp(c)
    \/ \E c \in Bridges : BridgeAsks(c)
    \/ \E c \in Clients : Drop(c)
    \/ \E h \in Handlers : TimerFires(h)
    \/ \E q \in Questions : Answer(q)
    \/ closeAsks
    \/ ResumeSession
    \/ \E reap \in BOOLEAN : AskRestart(reap)

AskSpec == AskInit /\ [][AskNext]_askVars

\* A poll window is a timer; a command that was told `pending`, or that lost its
\* connection, sends its next request.  Nobody has to answer, nor to ask.
AskFairness == /\ \A h \in Handlers : WF_askVars(TimerFires(h))
            /\ \A c \in Clis : WF_askVars(CliSteps(c))

AskFairSpec == AskSpec /\ AskFairness

-----------------------------------------------------------------------------
(* Properties.                                                             *)

\* A waiter entry always leads to a handler that is parked on that question: a
\* notification is never spent on a wait that is over.
WaiterIsParked == \A q \in Questions :
    waiter[q] # Nobody => parked[waiter[q]].q = q /\ status[q] = "pending"

\* While no connection is lost, a resolved question has nobody left parked on it:
\* an answer, a supersede and the end of the session reach the asker at once.
PromptWhenConnected == faults = 0 =>
    \A h \in Handlers : parked[h].q # 0 => status[parked[h].q] = "pending"

\* An open question of an ended session is a hook's: what a command asks is
\* cancelled with its session, however polls and resumes race with the end.
EndedHasNoOpenAsk == ~active =>
    \A q \in Pending : \E c \in Bridges : client[c].q = q

\* What makes these inductive.  A parked request is its client's only one and waits
\* on the question the client asked; nobody shares a question, and who has none was
\* told nothing; while no connection is lost, whoever is parked is the waiter.
ParkedOK ==
    /\ \A h \in Handlers : parked[h].client # Nobody =>
            /\ parked[h].q # 0
            /\ client[parked[h].client].st = "parked"
            /\ client[parked[h].client].q = parked[h].q
    /\ \A h, g \in Handlers :
            parked[h].client = parked[g].client /\ parked[h].client # Nobody => h = g
AskersOK ==
    /\ \A c \in Clients :
            /\ client[c].st = "idle" <=> client[c].q = 0
            /\ client[c].q # 0 => status[client[c].q] # "none"
            /\ client[c].st # "done" => client[c].got = "none"
    /\ \A c, d \in Clients : client[c].q = client[d].q /\ client[c].q # 0 => c = d
ConnectedOK == faults = 0 =>
    \A h \in Handlers : parked[h].q # 0 =>
        parked[h].client # Nobody /\ waiter[parked[h].q] = h

ChannelInv == /\ AskTypeOK /\ ParkedOK /\ AskersOK /\ ConnectedOK
              /\ WaiterIsParked /\ PromptWhenConnected /\ EndedHasNoOpenAsk

\* A client that waits for a resolved question comes to its end, or loses its
\* connection before it knows the question's id and asks anew: no answer is lost
\* in the gap between two polls, or to a waiter that another poll removed.
AskerTold == \A c \in Clients, q \in Questions :
    /\ client[c].q = q /\ client[c].st \in {"parked", "polling"} /\ status[q] # "pending"
    ~> client[c].st \in {"asking", "done"}

\* The channel keeps the promise of AskPromise.
toldOf(c) == CASE client[c].got \in {"none", "answered", "cancelled"} -> client[c].got
               [] OTHER -> "gone"
Promise == INSTANCE AskPromise WITH asked <- [c \in Clients |-> client[c].q],
                                    told <- [c \in Clients |-> toldOf(c)]
KeepsPromise == Promise!Spec

\* What routes/agent-ask.ts says of a dropped connection: it just reconnects.  So a
\* command never supersedes its own question.
ReconnectKeepsQuestion ==
    [][\A c \in Clis : client[c].q # 0 => client'[c].q = client[c].q]_askVars
=============================================================================
