------------------------ MODULE AskRefinementProofs ------------------------
(***************************************************************************)
(* The ask channel of the code keeps the promise of AskPromise: every step *)
(* of AskChannel is a step of the promise, or changes nothing it speaks of.*)
(***************************************************************************)
EXTENDS AskChannelProofs

Gone == {"undeliverable", "error", "lost"}
Resolved == {"answered", "cancelled"}

\* What one step may tell a client: nothing, what its own question resolved to, or
\* that the channel is gone, and only to a client that was told nothing before.
ToldRight(c) ==
    \/ client'[c].got = client[c].got
    \/ /\ client[c].got = "none"
       /\ client'[c].q \in Questions
       /\ \/ client'[c].got \in Gone
          \/ client'[c].got \in Resolved /\ client'[c].got = status'[client'[c].q]

LEMMA SameOpen == Promise!Questions = Questions /\ Promise!Open = Pending
BY DEF Promise!Questions, Questions, Promise!Open, Pending

LEMMA Tells ==
    ASSUME ChannelInv, ChannelInv', \A c \in Clients : ToldRight(c)
    PROVE  \E S, G \in SUBSET Clients : Promise!Tell(S, G)
<1> DEFINE New == {c \in Clients : client'[c].got # client[c].got}
           S == {c \in New : client'[c].got \in Resolved}
           G == {c \in New : client'[c].got \in Gone}
<1>1. \A c \in Clients : toldOf(c) = IF client[c].got \in {"none", "answered", "cancelled"}
                                     THEN client[c].got ELSE "gone"
  BY DEF toldOf
<1>2. \A c \in Clients : toldOf(c)' = IF client'[c].got \in {"none", "answered", "cancelled"}
                                      THEN client'[c].got ELSE "gone"
  BY DEF toldOf
<1>3. \A c \in S : /\ toldOf(c) = "none" /\ client'[c].q \in Questions
                   /\ status'[client'[c].q] \in Resolved
                   /\ toldOf(c)' = status'[client'[c].q]
  BY <1>1, <1>2 DEF ToldRight, Gone, Resolved
<1>4. \A c \in G : /\ toldOf(c) = "none" /\ client'[c].q \in Questions
                   /\ toldOf(c)' = "gone" /\ c \notin S
  BY <1>1, <1>2 DEF ToldRight, Gone, Resolved
<1>5. \A c \in Clients : c \notin S /\ c \notin G => toldOf(c)' = toldOf(c)
  BY <1>1, <1>2 DEF ToldRight
<1>6. S \in SUBSET Clients /\ G \in SUBSET Clients
  OBVIOUS
<1> HIDE DEF S, G, New
<1>7. Promise!Tell(S, G)
  <2>1. \A c \in S : /\ [d \in Clients |-> toldOf(d)][c] = "none"
                     /\ [d \in Clients |-> client'[d].q][c] \in Promise!Questions
                     /\ status'[[d \in Clients |-> client'[d].q][c]] \in Promise!Terminal
    BY <1>3, <1>6, SameOpen DEF Promise!Terminal, Resolved
  <2>2. \A c \in G : /\ [d \in Clients |-> toldOf(d)][c] = "none"
                     /\ [d \in Clients |-> client'[d].q][c] \in Promise!Questions
    BY <1>4, <1>6, SameOpen
  <2>3. [c \in Clients |-> toldOf(c)'] =
            [c \in Clients |-> IF c \in S THEN status'[[d \in Clients |-> client'[d].q][c]]
                              ELSE IF c \in G THEN "gone" ELSE [d \in Clients |-> toldOf(d)][c]]
    BY <1>3, <1>4, <1>5
  <2> QED BY <2>1, <2>2, <2>3 DEF Promise!Tell
<1> QED BY <1>6, <1>7 DEF Promise!Tell

\* A step that leaves the questions alone.
LEMMA QuietStep ==
    ASSUME ChannelInv, ChannelInv', UNCHANGED status,
           \A c \in Clients : client'[c].q = client[c].q, \A c \in Clients : ToldRight(c)
    PROVE  Promise!Next
<1>1. Promise!Quiet
  BY DEF Promise!Quiet
<1> QED BY <1>1, Tells DEF Promise!Next

\* Whoever is parked waits on a question of its own and was told nothing yet.
LEMMA ParkedAsker ==
    ASSUME ChannelInv, NEW c \in Clients, client[c].st # "done"
    PROVE  /\ client[c].got = "none"
           /\ client[c].st # "idle" => client[c].q \in Questions /\ status[client[c].q] # "none"
BY DEF ChannelInv, AskersOK, AskTypeOK, ClientStates, Questions

LEMMA NotifiedAsker ==
    ASSUME ChannelInv, NEW Q \in SUBSET Questions, NEW c \in clientsOf(notify(Q))
    PROVE  /\ c \in Clients /\ client[c].q \in Q /\ client[c].got = "none"
           /\ client[c].st = "parked"
<1>1. PICK h \in Handlers, q \in Q : c \in Clients /\ parked[h].client = c /\ waiter[q] = h
  BY DEF clientsOf, notify
<1>2. parked[h].q = q /\ parked[h].client # Nobody
  BY <1>1, Constants DEF ChannelInv, WaiterIsParked
<1>3. client[c].q = q /\ client[c].st = "parked"
  BY <1>1, <1>2 DEF ChannelInv, ParkedOK
<1> QED BY <1>1, <1>3, ParkedAsker

LEMMA ResolveTells ==
    ASSUME ChannelInv, NEW Q \in SUBSET Questions, NEW s \in Resolved, Resolve(Q, s)
    PROVE  \A c \in Clients : ToldRight(c) /\ client'[c].q = client[c].q
<1> SUFFICES ASSUME NEW c \in Clients PROVE ToldRight(c) /\ client'[c].q = client[c].q
  OBVIOUS
<1> DEFINE C == clientsOf(notify(Q))
<1>1. CASE c \in C
  <2>1. client[c].q \in Q /\ client[c].got = "none"
    BY <1>1, NotifiedAsker
  <2>2. client'[c] = Told(c, s)
    BY <1>1 DEF Resolve, TellAll
  <2>3. client'[c].got = s /\ client'[c].q = client[c].q
    BY <2>2, ToldType DEF ChannelInv, Resolved, Got
  <2>4. status'[client[c].q] = s
    BY <2>1 DEF Resolve, Update
  <2> QED BY <2>1, <2>3, <2>4 DEF ToldRight
<1>2. CASE c \notin C
  BY <1>2 DEF Resolve, TellAll, ToldRight
<1> QED BY <1>1, <1>2

LEMMA AskImplements ==
    ASSUME ChannelInv, ChannelInv', NEW c \in Clients, NEW t,
           client[c].st # "done", createAndAwaitAnswer(c, t)
    PROVE  Promise!Next
<1>1. PICK q \in Questions, h \in Handlers :
        /\ FreshQuestion(q)
        /\ status' = [Update(Pending, "cancelled") EXCEPT ![q] = "pending"]
        /\ client' = [TellAll(clientsOf(notify(Pending)), "cancelled") EXCEPT
                        ![c] = [st |-> "parked", q |-> q, knows |-> FALSE,
                                token |-> t, got |-> "none"]]
  BY DEF createAndAwaitAnswer
<1> DEFINE C == clientsOf(notify(Pending))
<1>2. client'[c].q = q /\ client'[c].got = "none" /\ client[c].got = "none"
  BY <1>1, ParkedAsker DEF TellAll
<1>3. ASSUME NEW d \in Clients \ {c} PROVE ToldRight(d) /\ client'[d].q = client[d].q
  <2>1. CASE d \in C
    <3>1. client[d].q \in Pending /\ client[d].got = "none"
      BY <2>1, NotifiedAsker DEF Pending
    <3>2. client'[d] = Told(d, "cancelled")
      BY <1>1, <1>3, <2>1 DEF TellAll
    <3>3. client'[d].got = "cancelled" /\ client'[d].q = client[d].q
      BY <3>2, ToldType DEF ChannelInv, Got
    <3>4. status'[client[d].q] = "cancelled"
      BY <1>1, <3>1 DEF Update, FreshQuestion, Pending
    <3> QED BY <3>1, <3>3, <3>4 DEF ToldRight, Resolved, Pending
  <2>2. CASE d \notin C
    BY <1>1, <1>3, <2>2 DEF TellAll, ToldRight
  <2> QED BY <2>1, <2>2
<1>4. Promise!Ask(c, q)
  <2>1. toldOf(c) = "none"
    BY <1>2 DEF toldOf
  <2>2. status[q] = "none"
    BY <1>1 DEF FreshQuestion
  <2>3. status' = [Promise!Resolve(Promise!Open, "cancelled") EXCEPT ![q] = "pending"]
    BY <1>1, SameOpen DEF Promise!Resolve, Update
  <2>4. [d \in Clients |-> client'[d].q] = [[d \in Clients |-> client[d].q] EXCEPT ![c] = q]
    BY <1>2, <1>3
  <2> QED BY <2>1, <2>2, <2>3, <2>4 DEF Promise!Ask
<1>5. \A d \in Clients : ToldRight(d)
  BY <1>2, <1>3 DEF ToldRight
<1>6. \E S, G \in SUBSET Clients : Promise!Tell(S, G)
  BY <1>5, Tells
<1> QED BY <1>4, <1>6, SameOpen DEF Promise!Next

LEMMA ResolveImplements ==
    ASSUME ChannelInv, ChannelInv', NEW Q \in SUBSET Questions, NEW s \in Resolved,
           Resolve(Q, s), \/ Q = Pending /\ s = "cancelled"
                          \/ s = "answered" /\ \E q \in Pending : Q = {q}
    PROVE  Promise!Next
<1>1. \A c \in Clients : ToldRight(c) /\ client'[c].q = client[c].q
  BY ResolveTells
<1>2. [c \in Clients |-> client'[c].q] = [c \in Clients |-> client[c].q]
  BY <1>1
<1>3. status' = Promise!Resolve(Q, s)
  BY SameOpen DEF Resolve, Update, Promise!Resolve
<1>4. Promise!Close \/ \E q \in Promise!Questions : Promise!Answer(q)
  <2>1. CASE Q = Pending /\ s = "cancelled"
    BY <1>2, <1>3, <2>1, SameOpen DEF Promise!Close
  <2>2. CASE s = "answered" /\ \E q \in Pending : Q = {q}
    <3>1. PICK q \in Pending : Q = {q}
      BY <2>2
    <3>2. Promise!Answer(q)
      BY <1>2, <1>3, <2>2, <3>1, SameOpen DEF Promise!Answer
    <3> QED BY <3>2, SameOpen DEF Pending
  <2> QED BY <2>1, <2>2
<1> QED BY <1>1, <1>4, Tells DEF Promise!Next

LEMMA PollImplements ==
    ASSUME ChannelInv, ChannelInv', NEW c \in Clients, CliPolls(c) PROVE Promise!Next
<1>0. /\ client[c].st = "polling" /\ client[c].got = "none" /\ UNCHANGED status
      /\ client[c].q \in Questions /\ status[client[c].q] # "none"
  BY ParkedAsker DEF CliPolls
<1>1. CASE client' = [client EXCEPT ![c] = Told(c, status[client[c].q])]
            /\ resolveTerminal(client[c].q)
  <2>1. status[client[c].q] \in Resolved
    BY <1>0, <1>1 DEF resolveTerminal, ChannelInv, AskTypeOK, Resolved
  <2>2. client'[c].got = status[client[c].q] /\ client'[c].q = client[c].q
    BY <1>1, <2>1, ToldType DEF ChannelInv, AskTypeOK, Resolved, Got
  <2>3. \A d \in Clients \ {c} : client'[d] = client[d]
    BY <1>1 DEF ChannelInv, AskTypeOK
  <2>4. \A d \in Clients : ToldRight(d) /\ client'[d].q = client[d].q
    BY <1>0, <2>1, <2>2, <2>3 DEF ToldRight
  <2> QED BY <1>0, <2>4, QuietStep
<1>2. CASE client' = [client EXCEPT ![c].st = "parked"]
  <2>1. \A d \in Clients : client'[d].got = client[d].got /\ client'[d].q = client[d].q
    BY <1>2 DEF ChannelInv, AskTypeOK, ClientStates
  <2>2. \A d \in Clients : ToldRight(d)
    BY <2>1 DEF ToldRight
  <2> QED BY <1>0, <2>1, <2>2, QuietStep
<1> QED BY <1>1, <1>2 DEF CliPolls

\* A client learns that the channel is gone.
LEMMA EndImplements ==
    ASSUME ChannelInv, ChannelInv', NEW c \in Clients, client[c].st \notin {"idle", "done"},
           NEW s \in Gone, client' = [client EXCEPT ![c] = Told(c, s)], UNCHANGED status
    PROVE  Promise!Next
<1>1. client'[c].got = s /\ client'[c].q = client[c].q
  BY ToldType DEF ChannelInv, AskTypeOK, Gone, Got
<1>2. \A d \in Clients \ {c} : client'[d] = client[d]
  BY DEF ChannelInv, AskTypeOK
<1>3. \A d \in Clients : ToldRight(d) /\ client'[d].q = client[d].q
  BY <1>1, <1>2, ParkedAsker DEF ToldRight
<1> QED BY <1>3, QuietStep

\* What a lost connection does to a parked client.
LEMMA DisconnectedTells ==
    ASSUME ChannelInv, NEW c \in Clients, client[c].st = "parked", client'[c] = Disconnected(c)
    PROVE  ToldRight(c) /\ client'[c].q = client[c].q
<1>1. CASE c \in Bridges
  <2>1. client'[c].got = "lost" /\ client'[c].q = client[c].q
    BY <1>1, ToldType DEF Disconnected, ChannelInv, Got
  <2> QED BY <2>1, ParkedAsker DEF ToldRight, Gone
<1>2. CASE c \notin Bridges
  BY <1>2 DEF Disconnected, ToldRight, ChannelInv, AskTypeOK, ClientStates
<1> QED BY <1>1, <1>2

LEMMA DropImplements ==
    ASSUME ChannelInv, ChannelInv', NEW c \in Clients, Drop(c) PROVE Promise!Next
<1>1. client'[c] = Disconnected(c) /\ \A d \in Clients \ {c} : client'[d] = client[d]
  BY DEF Drop, ChannelInv, AskTypeOK
<1>2. \A d \in Clients : ToldRight(d) /\ client'[d].q = client[d].q
  BY <1>1, DisconnectedTells DEF Drop, ToldRight
<1> QED BY <1>2, QuietStep DEF Drop

LEMMA TimerImplements ==
    ASSUME ChannelInv, ChannelInv', NEW h \in Handlers, TimerFires(h) PROVE Promise!Next
<1> DEFINE q == parked[h].q
           C == clientsOf({h})
<1>0. UNCHANGED status
  BY DEF TimerFires
<1>1. CASE resolveTerminal(q) /\ client' = TellAll(C, status[q])
  <2>1. ASSUME NEW c \in Clients PROVE ToldRight(c) /\ client'[c].q = client[c].q
    <3>1. CASE c \in C
      <4>1. client[c].q = q /\ client[c].got = "none" /\ client[c].st = "parked"
        BY <3>1, ParkedClient
      <4>2. q \in Questions /\ status[q] \in Resolved
        BY <1>1, <4>1, ParkedAsker DEF resolveTerminal, ChannelInv, AskTypeOK, Resolved
      <4>3. client'[c] = Told(c, status[q])
        BY <1>1, <3>1 DEF TellAll
      <4>4. client'[c].got = status[q] /\ client'[c].q = q
        BY <4>1, <4>2, <4>3, ToldType DEF ChannelInv, Resolved, Got
      <4> QED BY <1>0, <4>1, <4>2, <4>4 DEF ToldRight
    <3>2. CASE c \notin C
      BY <1>1, <3>2 DEF TellAll, ToldRight
    <3> QED BY <3>1, <3>2
  <2> QED BY <1>0, <2>1, QuietStep
<1>2. CASE UNCHANGED client
  BY <1>0, <1>2, QuietStep DEF ToldRight
<1>3. CASE client' = [c \in Clients |->
                IF c \in C THEN [client[c] EXCEPT !.st = "polling", !.knows = TRUE]
                ELSE client[c]]
  <2>1. ASSUME NEW c \in Clients
        PROVE  client'[c].got = client[c].got /\ client'[c].q = client[c].q
    <3>1. \/ client'[c] = client[c]
          \/ client'[c] = [client[c] EXCEPT !.st = "polling", !.knows = TRUE]
      BY <1>3
    <3> QED BY <3>1 DEF ChannelInv, AskTypeOK, ClientStates
  <2> QED BY <1>0, <2>1, QuietStep DEF ToldRight
<1> QED BY <1>1, <1>2, <1>3 DEF TimerFires

LEMMA RestartImplements ==
    ASSUME ChannelInv, ChannelInv', NEW reap \in BOOLEAN, AskRestart(reap) PROVE Promise!Next
<1>1. \A c \in Clients : ToldRight(c) /\ client'[c].q = client[c].q
  BY DisconnectedTells DEF AskRestart, ToldRight
<1>2. CASE ~reap
  BY <1>1, <1>2, QuietStep DEF AskRestart
<1>3. CASE reap
  <2>1. status' = Promise!Resolve(Promise!Open, "cancelled")
    BY <1>3, SameOpen DEF AskRestart, Update, Promise!Resolve
  <2>2. [c \in Clients |-> client'[c].q] = [c \in Clients |-> client[c].q]
    BY <1>1
  <2>3. Promise!Close
    BY <2>1, <2>2 DEF Promise!Close
  <2> QED BY <1>1, <2>3, Tells DEF Promise!Next
<1> QED BY <1>2, <1>3

-----------------------------------------------------------------------------
LEMMA InitImplements == AskInit => Promise!Init
<1> SUFFICES ASSUME AskInit PROVE Promise!Init
  OBVIOUS
<1>1. \A c \in Clients : client[c].q = 0 /\ toldOf(c) = "none"
  BY DEF AskInit, toldOf
<1> QED BY <1>1, SameOpen DEF AskInit, Promise!Init

LEMMA NextImplements == ASSUME ChannelInv, ChannelInv', [AskNext]_askVars
                        PROVE  [Promise!Next]_(Promise!vars)
<1>1. ASSUME NEW c \in Clis, CliAsks(c) \/ CliAsksAgain(c) PROVE Promise!Next
  BY <1>1, AskImplements, Constants DEF CliAsks, CliAsksAgain
<1>2. ASSUME NEW c \in Clis, CliPolls(c) PROVE Promise!Next
  BY <1>2, PollImplements, Constants
<1>3. ASSUME NEW c \in Clis, CliRefused(c) \/ CliGivesUp(c) PROVE Promise!Next
  BY <1>3, EndImplements, Constants DEF CliRefused, CliGivesUp, Gone
<1>4. ASSUME NEW c \in Bridges, BridgeAsks(c) PROVE Promise!Next
  BY <1>4, AskImplements, Constants DEF BridgeAsks
<1>5. ASSUME NEW q \in Questions, Answer(q) PROVE Promise!Next
  BY <1>5, ResolveImplements DEF Answer, Resolved
<1>6. ASSUME closeAsks PROVE Promise!Next
  BY <1>6, ResolveImplements DEF closeAsks, Pending, Resolved
<1>7. ASSUME ResumeSession PROVE Promise!Next
  BY <1>7, QuietStep DEF ResumeSession, ToldRight
<1>8. ASSUME UNCHANGED askVars PROVE Promise!Next
  BY <1>8, QuietStep DEF askVars, ToldRight
<1> QED
  BY <1>1, <1>2, <1>3, <1>4, <1>5, <1>6, <1>7, <1>8,
     DropImplements, TimerImplements, RestartImplements DEF AskNext, CliSteps

\* The ask channel keeps its promise: at most one open question, resolved once, and
\* every asker is told what became of its own question or that the channel is gone,
\* whatever polls, timers, answers, dropped connections and restarts interleave.
THEOREM ChannelKeepsPromise == AskSpec => KeepsPromise
<1>1. AskInit => Promise!Init
  BY InitImplements
<1>2. ChannelInv /\ ChannelInv' /\ [AskNext]_askVars => [Promise!Next]_(Promise!vars)
  BY NextImplements
<1> QED BY <1>1, <1>2, ChannelInvariance, PTL DEF AskSpec, KeepsPromise, Promise!Spec
=============================================================================
