-------------------------- MODULE AskChannelProofs --------------------------
(***************************************************************************)
(* Proofs about AskChannel, for any number of clients, questions, parked   *)
(* requests, resumes and faults: its invariant and what follows from it.   *)
(***************************************************************************)
EXTENDS AskChannel, TLAPS

Got == {"none", "answered", "cancelled", "undeliverable", "error", "lost"}

LEMMA Constants == /\ Clients = Clis \cup Bridges /\ Clis \cap Bridges = {}
                   /\ Nobody \notin Clients /\ Nobody \notin Handlers
                   /\ 0 \notin Questions /\ Questions \subseteq 0 .. MaxQuestions
                   /\ 0 \in 0 .. MaxQuestions /\ 0 \in 0 .. MaxResumes
BY AskAssumption DEF Clients, Handlers, Questions

LEMMA InitInv == AskInit => ChannelInv
<1> SUFFICES ASSUME AskInit PROVE ChannelInv
  OBVIOUS
<1> USE DEF AskInit, Free
<1>1. AskTypeOK
  BY AskAssumption, Constants DEF AskTypeOK, ClientStates
<1>2. ParkedOK /\ AskersOK /\ ConnectedOK
  BY Constants DEF ParkedOK, AskersOK, ConnectedOK
<1>3. WaiterIsParked /\ PromptWhenConnected /\ EndedHasNoOpenAsk
  BY Constants DEF WaiterIsParked, PromptWhenConnected, EndedHasNoOpenAsk
<1> QED BY <1>1, <1>2, <1>3 DEF ChannelInv

-----------------------------------------------------------------------------
(* Operators.                                                              *)

\* The client of a notified handler asked the very question the waiter was for, and
\* no other handler has it.
LEMMA NotifiedClients ==
    ASSUME ChannelInv, NEW Q \in SUBSET Questions, NEW c \in clientsOf(notify(Q))
    PROVE  /\ c \in Clients
           /\ client[c].st = "parked" /\ client[c].q \in Q /\ client[c].q \in Pending
           /\ client[c].got = "none"
           /\ \A h \in Handlers : parked[h].client = c => h \in notify(Q)
<1>1. PICK h \in notify(Q) : c \in Clients /\ parked[h].client = c
  BY DEF clientsOf
<1>2. PICK q \in Q : waiter[q] = h /\ h \in Handlers
  BY <1>1 DEF notify
<1>3. parked[h].q = q /\ status[q] = "pending"
  BY <1>2, Constants DEF ChannelInv, WaiterIsParked
<1>4. client[c].st = "parked" /\ client[c].q = q
  BY <1>1, <1>2, <1>3, Constants DEF ChannelInv, ParkedOK
<1>5. client[c].got = "none"
  BY <1>1, <1>4 DEF ChannelInv, AskersOK
<1>6. \A g \in Handlers : parked[g].client = c => g = h
  BY <1>1, <1>2, Constants DEF ChannelInv, ParkedOK
<1> QED BY <1>1, <1>2, <1>3, <1>4, <1>5, <1>6 DEF Pending

LEMMA ToldType == ASSUME AskTypeOK, NEW c \in Clients, NEW s \in Got
                  PROVE  /\ Told(c, s) \in ClientStates
                         /\ Told(c, s).st = "done" /\ Told(c, s).got = s
                         /\ Told(c, s).q = client[c].q
BY DEF AskTypeOK, Told, ClientStates, Got

LEMMA UpdateType ==
    ASSUME AskTypeOK, NEW Q \in SUBSET Questions, NEW s \in {"answered", "cancelled"}
    PROVE  Update(Q, s) \in [Questions -> {"none", "pending", "answered", "cancelled"}]
BY DEF AskTypeOK, Update

LEMMA WithoutType ==
    ASSUME AskTypeOK
    PROVE  /\ \A Q : waiterWithout(Q) \in [Questions -> Handlers \cup {Nobody}]
           /\ \A H : parkedWithout(H) \in [Handlers -> [q: 0 .. MaxQuestions, blocking: BOOLEAN,
                                                        client: Clients \cup {Nobody}]]
           /\ \A C, s : s \in Got => TellAll(C, s) \in [Clients -> ClientStates]
<1>1. \A Q : waiterWithout(Q) \in [Questions -> Handlers \cup {Nobody}]
  BY DEF AskTypeOK, waiterWithout
<1>2. \A H : parkedWithout(H) \in [Handlers -> [q: 0 .. MaxQuestions, blocking: BOOLEAN,
                                                client: Clients \cup {Nobody}]]
  BY Constants DEF AskTypeOK, parkedWithout, Free
<1>3. ASSUME NEW C, NEW s \in Got PROVE TellAll(C, s) \in [Clients -> ClientStates]
  BY <1>3, ToldType DEF AskTypeOK, TellAll
<1> QED BY <1>1, <1>2, <1>3

-----------------------------------------------------------------------------
(* What the server does to its own rows and waiters.                       *)

\* Resolving open questions and notifying whoever waits for them.
LEMMA ResolveKeeps ==
    ASSUME ChannelInv, NEW Q \in SUBSET Pending, NEW s \in {"answered", "cancelled"},
           Resolve(Q, s), active' \in BOOLEAN, UNCHANGED <<bearers, faults>>,
           active' = active \/ Q = Pending
    PROVE  ChannelInv'
<1> DEFINE H == notify(Q)
<1>0. Q \subseteq Questions /\ Q \subseteq Pending
  BY DEF Pending
<1>1. \A q \in Questions : status'[q] = IF q \in Q THEN s ELSE status[q]
  BY DEF Resolve, Update
<1>2. \A q \in Questions : waiter'[q] = IF q \in Q THEN Nobody ELSE waiter[q]
  BY DEF Resolve, waiterWithout
<1>3. \A h \in Handlers : parked'[h] = IF h \in H THEN Free ELSE parked[h]
  BY DEF Resolve, parkedWithout
<1>4. \A c \in Clients : client'[c] = IF c \in clientsOf(H) THEN Told(c, s) ELSE client[c]
  BY DEF Resolve, TellAll
<1>5. \A c \in Clients :
        /\ client'[c].q = client[c].q
        /\ c \notin clientsOf(H) => client'[c] = client[c]
        /\ c \in clientsOf(H) => client'[c].st = "done" /\ client[c].st = "parked"
  BY <1>0, <1>4, ToldType, NotifiedClients DEF ChannelInv, Got
<1> HIDE DEF H
<1>6. AskTypeOK'
  BY <1>0, UpdateType, WithoutType DEF ChannelInv, AskTypeOK, Resolve, Got
<1>7. ParkedOK'
  <2>1. \A h \in Handlers : parked'[h].client # Nobody =>
            /\ h \notin H /\ parked'[h] = parked[h]
            /\ client'[parked[h].client] = client[parked[h].client]
    <3> SUFFICES ASSUME NEW h \in Handlers, parked'[h].client # Nobody
                 PROVE  /\ h \notin H /\ parked'[h] = parked[h]
                        /\ client'[parked[h].client] = client[parked[h].client]
      OBVIOUS
    <3>1. h \notin H /\ parked'[h] = parked[h]
      BY <1>3 DEF Free
    <3>2. parked[h].client \in Clients
      BY <3>1 DEF ChannelInv, AskTypeOK
    <3>3. parked[h].client \notin clientsOf(H)
      BY <1>0, <3>1, NotifiedClients DEF H
    <3> QED BY <1>5, <3>1, <3>2, <3>3
  <2> QED BY <2>1 DEF ChannelInv, ParkedOK
<1>8. AskersOK'
  <2>1. ASSUME NEW c \in Clients
        PROVE  /\ client'[c].st = "idle" <=> client'[c].q = 0
               /\ client'[c].st # "done" => client'[c].got = "none"
    BY <1>5 DEF ChannelInv, AskersOK
  <2>2. ASSUME NEW c \in Clients, client'[c].q # 0 PROVE status'[client'[c].q] # "none"
    <3>1. client[c].q \in Questions /\ status[client[c].q] # "none"
      BY <1>5, <2>2 DEF ChannelInv, AskersOK, AskTypeOK, ClientStates, Questions
    <3> QED BY <1>1, <1>5, <3>1
  <2>3. \A c, d \in Clients : client'[c].q = client'[d].q /\ client'[c].q # 0 => c = d
    BY <1>5 DEF ChannelInv, AskersOK
  <2> QED BY <2>1, <2>2, <2>3 DEF AskersOK
<1>9. WaiterIsParked'
  <2> SUFFICES ASSUME NEW q \in Questions, waiter'[q] # Nobody
               PROVE  parked'[waiter'[q]].q = q /\ status'[q] = "pending"
    BY DEF WaiterIsParked
  <2>1. q \notin Q /\ waiter'[q] = waiter[q] /\ waiter[q] \in Handlers
    BY <1>2 DEF ChannelInv, AskTypeOK
  <2>2. parked[waiter[q]].q = q /\ status[q] = "pending"
    BY <2>1 DEF ChannelInv, WaiterIsParked
  <2>3. waiter[q] \notin H
    <3>1. \A p \in Q : waiter[p] = waiter[q] => p = q
      BY <1>0, <2>1, <2>2 DEF ChannelInv, WaiterIsParked
    <3> QED BY <2>1, <3>1 DEF H, notify
  <2> QED BY <1>1, <1>3, <2>1, <2>2, <2>3
<1>10. ConnectedOK' /\ PromptWhenConnected'
  <2> SUFFICES ASSUME faults' = 0, NEW h \in Handlers, parked'[h].q # 0
               PROVE  /\ parked'[h].client # Nobody /\ waiter'[parked'[h].q] = h
                      /\ status'[parked'[h].q] = "pending"
    BY DEF ConnectedOK, PromptWhenConnected
  <2>1. h \notin H /\ parked'[h] = parked[h]
    BY <1>3 DEF Free
  <2>2. parked[h].q \in Questions
    BY <2>1 DEF ChannelInv, AskTypeOK, Questions
  <2>3. parked[h].client # Nobody /\ waiter[parked[h].q] = h /\ status[parked[h].q] = "pending"
    BY <2>1 DEF ChannelInv, ConnectedOK, PromptWhenConnected
  <2>4. parked[h].q \notin Q
    BY <2>1, <2>3 DEF H, notify
  <2> QED BY <1>1, <1>2, <2>1, <2>2, <2>3, <2>4
<1>11. EndedHasNoOpenAsk'
  BY <1>0, <1>1, <1>5, Constants DEF ChannelInv, EndedHasNoOpenAsk, Pending
<1> QED BY <1>6, <1>7, <1>8, <1>9, <1>10, <1>11 DEF ChannelInv

\* A new question supersedes the open one.
LEMMA AskKeeps ==
    ASSUME ChannelInv, NEW c \in Clients, NEW t \in 0 .. MaxResumes,
           client[c].st \in {"idle", "asking"}, createAndAwaitAnswer(c, t),
           active \/ c \in Bridges
    PROVE  ChannelInv'
<1> DEFINE H == notify(Pending)
           new(q) == [st |-> "parked", q |-> q, knows |-> FALSE, token |-> t, got |-> "none"]
<1>1. PICK q \in Questions, h \in Handlers :
        /\ FreshQuestion(q)
        /\ FreeHandler(h)
        /\ status' = [Update(Pending, "cancelled") EXCEPT ![q] = "pending"]
        /\ waiter' = [waiterWithout(Pending) EXCEPT ![q] = h]
        /\ parked' = [parkedWithout(H) EXCEPT
                        ![h] = [q |-> q, blocking |-> c \in Bridges, client |-> c]]
        /\ client' = [TellAll(clientsOf(H), "cancelled") EXCEPT ![c] = new(q)]
        /\ UNCHANGED <<active, bearers, faults>>
  BY DEF createAndAwaitAnswer
<1>2. status[q] = "none" /\ parked[h].q = 0 /\ parked[h].client = Nobody /\ h \notin H
  <2>1. status[q] = "none" /\ parked[h].q = 0
    BY <1>1 DEF FreshQuestion, FreeHandler
  <2>2. parked[h].client = Nobody
    BY <2>1 DEF ChannelInv, ParkedOK
  <2>3. h \notin H
    BY <2>1, Constants DEF ChannelInv, WaiterIsParked, notify, Pending
  <2> QED BY <2>1, <2>2, <2>3
<1>3. \A d \in Clients : client[d].q # q
  BY <1>2, Constants DEF ChannelInv, AskersOK
<1>4. c \notin clientsOf(H)
  BY NotifiedClients DEF Pending
<1>5. \A p \in Questions : status'[p] = IF p = q THEN "pending"
                                        ELSE IF p \in Pending THEN "cancelled" ELSE status[p]
  BY <1>1 DEF Update
<1>6. \A p \in Questions : waiter'[p] = IF p = q THEN h
                                        ELSE IF p \in Pending THEN Nobody ELSE waiter[p]
  BY <1>1 DEF waiterWithout
<1>7. /\ parked'[h] = [q |-> q, blocking |-> c \in Bridges, client |-> c]
      /\ \A g \in Handlers \ {h} : parked'[g] = IF g \in H THEN Free ELSE parked[g]
  BY <1>1 DEF parkedWithout
<1>8. /\ client'[c] = new(q)
      /\ \A d \in Clients \ {c} :
            client'[d] = IF d \in clientsOf(H) THEN Told(d, "cancelled") ELSE client[d]
  BY <1>1 DEF TellAll
<1>9. \A d \in Clients \ {c} :
        /\ client'[d].q = client[d].q
        /\ d \notin clientsOf(H) => client'[d] = client[d]
        /\ d \in clientsOf(H) => client'[d].st = "done" /\ client[d].st = "parked"
  <2>1. \A d \in clientsOf(H) : client[d].st = "parked"
    BY NotifiedClients DEF Pending
  <2>2. \A d \in Clients : /\ Told(d, "cancelled").st = "done"
                           /\ Told(d, "cancelled").q = client[d].q
    BY ToldType DEF ChannelInv, Got
  <2> QED BY <1>8, <2>1, <2>2
<1> HIDE DEF H
<1>10. AskTypeOK'
  <2>1. new(q) \in ClientStates
    BY Constants DEF ClientStates
  <2>2. [q |-> q, blocking |-> c \in Bridges, client |-> c]
          \in [q: 0 .. MaxQuestions, blocking: BOOLEAN, client: Clients \cup {Nobody}]
    BY Constants
  <2>3. Pending \in SUBSET Questions /\ "cancelled" \in Got
    BY DEF Pending, Got
  <2>4. TellAll(clientsOf(H), "cancelled") \in [Clients -> ClientStates]
    BY <2>3, WithoutType DEF ChannelInv
  <2>5. Update(Pending, "cancelled") \in [Questions -> {"none", "pending", "answered", "cancelled"}]
    BY <2>3, UpdateType DEF ChannelInv
  <2> HIDE DEF new
  <2> QED BY <1>1, <2>1, <2>2, <2>4, <2>5, WithoutType DEF ChannelInv, AskTypeOK
<1>11. \A g \in Handlers \ {h} : parked'[g].client # Nobody =>
          /\ g \notin H /\ parked'[g] = parked[g] /\ parked[g].client \in Clients
          /\ parked[g].client # c
          /\ client'[parked[g].client] = client[parked[g].client]
  <2> SUFFICES ASSUME NEW g \in Handlers \ {h}, parked'[g].client # Nobody
               PROVE  /\ g \notin H /\ parked'[g] = parked[g] /\ parked[g].client \in Clients
                      /\ parked[g].client # c
                      /\ client'[parked[g].client] = client[parked[g].client]
    OBVIOUS
  <2>1. g \notin H /\ parked'[g] = parked[g]
    BY <1>7 DEF Free
  <2>2. parked[g].client \in Clients
    BY <2>1 DEF ChannelInv, AskTypeOK
  <2>3. parked[g].client # c
    BY <2>1, <2>2 DEF ChannelInv, ParkedOK
  <2>4. parked[g].client \notin clientsOf(H)
    BY <2>1, NotifiedClients DEF H, Pending
  <2> QED BY <1>9, <2>1, <2>2, <2>3, <2>4
<1>12. ParkedOK'
  <2>1. \A g \in Handlers : parked'[g].client # Nobody =>
            /\ parked'[g].q # 0
            /\ client'[parked'[g].client].st = "parked"
            /\ client'[parked'[g].client].q = parked'[g].q
    BY <1>7, <1>8, <1>11, Constants DEF ChannelInv, ParkedOK
  <2>2. \A g, f \in Handlers :
            parked'[g].client = parked'[f].client /\ parked'[g].client # Nobody => g = f
    BY <1>7, <1>11 DEF ChannelInv, ParkedOK
  <2> QED BY <2>1, <2>2 DEF ParkedOK
<1>13. AskersOK'
  <2>1. ASSUME NEW d \in Clients
        PROVE  /\ client'[d].st = "idle" <=> client'[d].q = 0
               /\ client'[d].st # "done" => client'[d].got = "none"
    BY <1>8, <1>9, Constants DEF ChannelInv, AskersOK
  <2>2. ASSUME NEW d \in Clients, client'[d].q # 0 PROVE status'[client'[d].q] # "none"
    <3>1. CASE d = c
      BY <1>5, <1>8, <3>1
    <3>2. CASE d # c
      <4>1. client[d].q \in Questions /\ status[client[d].q] # "none"
        BY <1>9, <2>2, <3>2 DEF ChannelInv, AskersOK, AskTypeOK, ClientStates, Questions
      <4> QED BY <1>5, <1>9, <3>2, <4>1
    <3> QED BY <3>1, <3>2
  <2>3. \A d, e \in Clients : client'[d].q = client'[e].q /\ client'[d].q # 0 => d = e
    BY <1>3, <1>8, <1>9 DEF ChannelInv, AskersOK
  <2> QED BY <2>1, <2>2, <2>3 DEF AskersOK
<1>14. WaiterIsParked'
  <2> SUFFICES ASSUME NEW p \in Questions, waiter'[p] # Nobody
               PROVE  parked'[waiter'[p]].q = p /\ status'[p] = "pending"
    BY DEF WaiterIsParked
  <2>1. p # q => p \in Pending \/ waiter[p] = Nobody
    BY DEF ChannelInv, WaiterIsParked, Pending
  <2> QED BY <1>5, <1>6, <1>7, <2>1
<1>15. ConnectedOK' /\ PromptWhenConnected'
  <2> SUFFICES ASSUME faults' = 0, NEW g \in Handlers, parked'[g].q # 0
               PROVE  /\ parked'[g].client # Nobody /\ waiter'[parked'[g].q] = g
                      /\ status'[parked'[g].q] = "pending"
    BY DEF ConnectedOK, PromptWhenConnected
  <2>1. CASE g = h
    BY <1>5, <1>6, <1>7, <2>1, Constants
  <2>2. CASE g # h
    <3>1. g \notin H /\ parked'[g] = parked[g] /\ faults = 0
      BY <1>1, <1>7, <2>2 DEF Free
    <3>2. parked[g].q \in Questions
      BY <3>1 DEF ChannelInv, AskTypeOK, Questions
    <3>3. waiter[parked[g].q] = g /\ status[parked[g].q] = "pending"
      BY <3>1 DEF ChannelInv, ConnectedOK, PromptWhenConnected
    <3> QED BY <3>1, <3>2, <3>3 DEF H, notify, Pending
  <2> QED BY <2>1, <2>2
<1>16. EndedHasNoOpenAsk'
  BY <1>1, <1>5, <1>8 DEF EndedHasNoOpenAsk, Pending, ChannelInv
<1> QED BY <1>10, <1>12, <1>13, <1>14, <1>15, <1>16 DEF ChannelInv

\* A command that is not parked learns how its ask ended.
LEMMA ClientEnds ==
    ASSUME ChannelInv, NEW c \in Clients, NEW s \in Got, client[c].st \in {"asking", "polling"},
           client' = [client EXCEPT ![c] = Told(c, s)],
           UNCHANGED <<status, waiter, parked, active, bearers>>,
           faults' \in 0 .. MaxFaults, faults' = 0 => faults = 0
    PROVE  ChannelInv'
<1>1. /\ client'[c].st = "done" /\ client'[c].q = client[c].q /\ client[c].q # 0
      /\ \A d \in Clients \ {c} : client'[d] = client[d]
  BY ToldType DEF ChannelInv, AskTypeOK, AskersOK
<1>2. AskTypeOK'
  BY ToldType DEF ChannelInv, AskTypeOK
<1>3. ParkedOK'
  <2>1. \A h \in Handlers : parked[h].client # Nobody => client'[parked[h].client] = client[parked[h].client]
    BY <1>1 DEF ChannelInv, ParkedOK, AskTypeOK
  <2> QED BY <2>1 DEF ChannelInv, ParkedOK
<1>4. AskersOK'
  BY <1>1 DEF ChannelInv, AskersOK
<1>5. EndedHasNoOpenAsk'
  <2>1. \A d \in Bridges : client'[d].q = client[d].q
    BY <1>1, Constants
  <2> QED BY <2>1 DEF ChannelInv, EndedHasNoOpenAsk, Pending
<1> QED
  BY <1>2, <1>3, <1>4, <1>5
     DEF ChannelInv, ConnectedOK, PromptWhenConnected, WaiterIsParked

LEMMA CliPollsKeeps == ASSUME ChannelInv, NEW c \in Clis, CliPolls(c) PROVE ChannelInv'
<1> DEFINE q == client[c].q
<1>0. /\ c \in Clients /\ client[c].st = "polling" /\ q \in Questions /\ status[q] # "none"
      /\ UNCHANGED <<status, active, bearers, faults>>
  BY Constants DEF CliPolls, ChannelInv, AskTypeOK, AskersOK, ClientStates, Questions
<1>1. CASE resolveTerminal(q)
  <2>1. client' = [client EXCEPT ![c] = Told(c, status[q])] /\ UNCHANGED <<waiter, parked>>
    BY <1>1 DEF CliPolls
  <2>2. status[q] \in Got
    BY <1>0, <1>1 DEF ChannelInv, AskTypeOK, resolveTerminal, Got
  <2> QED BY <1>0, <2>1, <2>2, ClientEnds DEF ChannelInv, AskTypeOK
<1>2. CASE ~resolveTerminal(q)
  <2>1. PICK h \in Handlers :
          /\ FreeHandler(h)
          /\ waiter' = [waiter EXCEPT ![q] = h]
          /\ parked' = [parked EXCEPT ![h] = [q |-> q, blocking |-> FALSE, client |-> c]]
    BY <1>2 DEF CliPolls
  <2>2. client' = [client EXCEPT ![c].st = "parked"] /\ status[q] = "pending"
    BY <1>2 DEF CliPolls, resolveTerminal
  <2>3. /\ parked[h].q = 0 /\ parked[h].client = Nobody
        /\ \A p \in Questions : waiter[p] # h
    BY <2>1, Constants DEF FreeHandler, ChannelInv, ParkedOK, WaiterIsParked
  <2>4. \A g \in Handlers : parked[g].client # c
    BY <1>0, Constants DEF ChannelInv, ParkedOK
  <2>5. /\ client'[c].st = "parked" /\ client'[c].q = q /\ client'[c].got = client[c].got
        /\ \A d \in Clients \ {c} : client'[d] = client[d]
    BY <1>0, <2>2 DEF ChannelInv, AskTypeOK, ClientStates
  <2>6. /\ parked'[h] = [q |-> q, blocking |-> FALSE, client |-> c]
        /\ \A g \in Handlers \ {h} : parked'[g] = parked[g]
    BY <2>1 DEF ChannelInv, AskTypeOK
  <2>7. AskTypeOK'
    <3>1. client' \in [Clients -> ClientStates]
      BY <1>0, <2>2 DEF ChannelInv, AskTypeOK, ClientStates
    <3>2. [q |-> q, blocking |-> FALSE, client |-> c]
            \in [q: 0 .. MaxQuestions, blocking: BOOLEAN, client: Clients \cup {Nobody}]
      BY <1>0, Constants
    <3> HIDE DEF q
    <3> QED BY <1>0, <2>1, <3>1, <3>2 DEF ChannelInv, AskTypeOK
  <2> HIDE DEF q
  <2>8. ParkedOK'
    <3>1. \A g \in Handlers \ {h} : parked[g].client # Nobody =>
              client'[parked[g].client] = client[parked[g].client]
      BY <2>4, <2>5 DEF ChannelInv, AskTypeOK
    <3>2. q # 0
      BY <1>0, Constants
    <3> QED BY <2>4, <2>5, <2>6, <3>1, <3>2, Constants DEF ChannelInv, ParkedOK
  <2>9. AskersOK'
    BY <1>0, <2>5, Constants DEF ChannelInv, AskersOK, q
  <2>10. WaiterIsParked'
    <3>1. \A p \in Questions : waiter'[p] = IF p = q THEN h ELSE waiter[p]
      BY <2>1 DEF ChannelInv, AskTypeOK
    <3> SUFFICES ASSUME NEW p \in Questions, waiter'[p] # Nobody
                 PROVE  parked'[waiter'[p]].q = p /\ status'[p] = "pending"
      BY DEF WaiterIsParked
    <3>2. CASE p = q
      BY <1>0, <2>2, <2>6, <3>1, <3>2 DEF q
    <3>3. CASE p # q
      <4>1. waiter'[p] = waiter[p] /\ waiter[p] \in Handlers \ {h}
        BY <2>3, <3>1, <3>3 DEF ChannelInv, AskTypeOK
      <4> QED BY <1>0, <2>6, <4>1 DEF ChannelInv, WaiterIsParked
    <3> QED BY <3>2, <3>3
  <2>11. ConnectedOK' /\ PromptWhenConnected'
    <3> SUFFICES ASSUME faults' = 0, NEW g \in Handlers, parked'[g].q # 0
                 PROVE  /\ parked'[g].client # Nobody /\ waiter'[parked'[g].q] = g
                        /\ status'[parked'[g].q] = "pending"
      BY DEF ConnectedOK, PromptWhenConnected
    <3>1. CASE g = h
      BY <1>0, <2>1, <2>2, <2>6, <3>1, Constants DEF ChannelInv, AskTypeOK
    <3>2. CASE g # h
      <4>1. parked'[g] = parked[g] /\ faults = 0
        BY <1>0, <2>6, <3>2
      <4>2. /\ parked[g].client \in Clients /\ waiter[parked[g].q] = g
            /\ status[parked[g].q] = "pending"
        BY <4>1 DEF ChannelInv, ConnectedOK, PromptWhenConnected, AskTypeOK
      <4>3. parked[g].q # q
        <5> DEFINE d == parked[g].client
        <5>1. d \in Clients /\ d # c /\ client[d].q = parked[g].q /\ parked[g].q # 0
          BY <2>4, <4>1, <4>2, Constants DEF ChannelInv, ParkedOK
        <5> QED BY <1>0, <5>1 DEF ChannelInv, AskersOK, q
      <4> QED BY <1>0, <2>1, <4>1, <4>2, <4>3, Constants DEF ChannelInv, AskTypeOK
    <3> QED BY <3>1, <3>2
  <2>12. EndedHasNoOpenAsk'
    <3>1. \A d \in Clients : client'[d].q = client[d].q
      BY <1>0, <2>5 DEF q
    <3> QED BY <1>0, <3>1, Constants DEF ChannelInv, EndedHasNoOpenAsk, Pending
  <2> QED BY <2>7, <2>8, <2>9, <2>10, <2>11, <2>12 DEF ChannelInv
<1> QED BY <1>1, <1>2

LEMMA DropKeeps == ASSUME ChannelInv, NEW c \in Clients, Drop(c) PROVE ChannelInv'
<1>0. /\ client[c].st = "parked" /\ faults' # 0 /\ faults' \in 0 .. MaxFaults
      /\ UNCHANGED <<status, waiter, active, bearers>>
  BY AskAssumption DEF Drop, ChannelInv, AskTypeOK
<1>1. client' = [client EXCEPT ![c] = Disconnected(c)]
  BY DEF Drop
<1>2. /\ Disconnected(c) \in ClientStates /\ Disconnected(c).q = client[c].q
      /\ Disconnected(c).st \in {"done", "polling", "asking"}
      /\ Disconnected(c).st # "done" => Disconnected(c).got = client[c].got
  <2>1. CASE c \in Bridges
    BY <2>1, ToldType DEF Disconnected, ChannelInv, Got
  <2>2. CASE c \notin Bridges
    BY <2>2 DEF Disconnected, ChannelInv, AskTypeOK, ClientStates
  <2> QED BY <2>1, <2>2
<1>3. client'[c] = Disconnected(c) /\ \A d \in Clients \ {c} : client'[d] = client[d]
  BY <1>1 DEF ChannelInv, AskTypeOK
<1>4. \A h \in Handlers : /\ parked'[h].q = parked[h].q
                          /\ parked'[h].client = IF parked[h].client = c THEN Nobody
                                                 ELSE parked[h].client
  BY DEF Drop, ChannelInv, AskTypeOK
<1>5. AskTypeOK'
  <2>1. client' \in [Clients -> ClientStates]
    BY <1>1, <1>2 DEF ChannelInv, AskTypeOK
  <2>2. parked' \in [Handlers -> [q: 0 .. MaxQuestions, blocking: BOOLEAN,
                                  client: Clients \cup {Nobody}]]
    BY DEF Drop, ChannelInv, AskTypeOK
  <2> QED BY <1>0, <2>1, <2>2 DEF ChannelInv, AskTypeOK
<1>6. ParkedOK'
  <2>1. \A h \in Handlers : parked'[h].client # Nobody =>
            /\ parked'[h].client = parked[h].client
            /\ client'[parked[h].client] = client[parked[h].client]
    BY <1>3, <1>4 DEF ChannelInv, AskTypeOK
  <2> QED BY <1>4, <2>1 DEF ChannelInv, ParkedOK
<1>7. AskersOK'
  BY <1>0, <1>2, <1>3 DEF ChannelInv, AskersOK
<1>8. WaiterIsParked'
  BY <1>0, <1>4 DEF ChannelInv, WaiterIsParked, AskTypeOK
<1>9. EndedHasNoOpenAsk'
  BY <1>0, <1>2, <1>3, Constants DEF ChannelInv, EndedHasNoOpenAsk, Pending
<1> QED BY <1>0, <1>5, <1>6, <1>7, <1>8, <1>9
        DEF ChannelInv, ConnectedOK, PromptWhenConnected

LEMMA RestartKeeps == ASSUME ChannelInv, NEW reap \in BOOLEAN, AskRestart(reap) PROVE ChannelInv'
<1>0. faults' # 0 /\ faults' \in 0 .. MaxFaults /\ active' \in BOOLEAN /\ UNCHANGED bearers
  BY AskAssumption DEF AskRestart, ChannelInv, AskTypeOK
<1>1. ASSUME NEW c \in Clients
      PROVE  /\ client'[c] \in ClientStates /\ client'[c].q = client[c].q
             /\ client'[c].st = "idle" <=> client[c].st = "idle"
             /\ client'[c].st # "done" => client[c].st # "done" /\ client'[c].got = client[c].got
  <2>1. CASE client[c].st # "parked"
    BY <2>1 DEF AskRestart, ChannelInv, AskTypeOK
  <2>2. CASE client[c].st = "parked" /\ c \in Bridges
    <3>1. client'[c] = Told(c, "lost")
      BY <2>2 DEF AskRestart, Disconnected
    <3> QED BY <2>2, <3>1, ToldType DEF ChannelInv, Got
  <2>3. CASE client[c].st = "parked" /\ c \notin Bridges
    BY <2>3 DEF AskRestart, Disconnected, ChannelInv, AskTypeOK, ClientStates
  <2> QED BY <2>1, <2>2, <2>3
<1>2. \A q \in Questions :
        /\ status'[q] \in {"none", "pending", "answered", "cancelled"}
        /\ status'[q] = "none" <=> status[q] = "none"
        /\ status'[q] = "pending" => status[q] = "pending" /\ ~reap
  BY DEF AskRestart, Update, Pending, ChannelInv, AskTypeOK
<1>3. \A h \in Handlers : parked'[h] = Free
  BY DEF AskRestart
<1>4. AskTypeOK'
  <2>1. client' \in [Clients -> ClientStates]
    BY <1>1 DEF AskRestart
  <2>2. status' \in [Questions -> {"none", "pending", "answered", "cancelled"}]
    BY <1>2 DEF AskRestart, Update, ChannelInv, AskTypeOK
  <2> QED BY <1>0, <2>1, <2>2, Constants DEF AskRestart, Free, ChannelInv, AskTypeOK
<1>5. ParkedOK' /\ WaiterIsParked'
  BY <1>3 DEF ParkedOK, WaiterIsParked, Free, AskRestart
<1>6. AskersOK'
  <2>1. ASSUME NEW c \in Clients, client'[c].q # 0 PROVE status'[client'[c].q] # "none"
    <3>1. client[c].q \in Questions /\ status[client[c].q] # "none"
      BY <1>1, <2>1 DEF ChannelInv, AskersOK, AskTypeOK, ClientStates, Questions
    <3> QED BY <1>1, <1>2, <3>1
  <2> QED BY <1>1, <2>1 DEF ChannelInv, AskersOK
<1>7. EndedHasNoOpenAsk'
  <2>1. ASSUME ~active', NEW q \in Pending'
        PROVE  ~active /\ q \in Pending
    BY <1>2, <2>1 DEF AskRestart, Pending
  <2>2. \A c \in Bridges : client'[c].q = client[c].q
    BY <1>1, Constants
  <2> QED BY <2>1, <2>2 DEF ChannelInv, EndedHasNoOpenAsk
<1> QED BY <1>0, <1>4, <1>5, <1>6, <1>7 DEF ChannelInv, ConnectedOK, PromptWhenConnected

LEMMA ParkedClient ==
    ASSUME ChannelInv, NEW h \in Handlers, NEW c \in clientsOf({h})
    PROVE  /\ c \in Clients /\ client[c].st = "parked" /\ client[c].q = parked[h].q
           /\ client[c].got = "none" /\ parked[h].client = c
BY Constants DEF clientsOf, ChannelInv, ParkedOK, AskersOK

\* The request of handler h returns, and its client, when it still has one, is done
\* or polls.
LEMMA HandlerReturns ==
    ASSUME ChannelInv, AskTypeOK', NEW h \in Handlers, NEW C \in SUBSET Clients,
           \A c \in Clients : c \in C <=> parked[h].client = c,
           \A c \in C : /\ client'[c].st \in {"done", "polling"}
                        /\ client'[c].q = client[c].q
                        /\ client'[c].st # "done" => client'[c].got = "none",
           \A c \in Clients \ C : client'[c] = client[c],
           \A g \in Handlers : parked'[g] = IF g = h THEN Free ELSE parked[g],
           \A p \in Questions : waiter'[p] = IF p = parked[h].q THEN Nobody ELSE waiter[p],
           UNCHANGED <<status, active, bearers, faults>>
    PROVE  ChannelInv'
<1>1. \A g \in Handlers : parked'[g].client # Nobody \/ parked'[g].q # 0 =>
            g # h /\ parked'[g] = parked[g]
  BY DEF Free
<1>2. \A c \in Clients : client'[c].q = client[c].q
  OBVIOUS
<1>3. \A c \in C : client[c].st = "parked" /\ client[c].q \in Questions
  BY Constants DEF ChannelInv, ParkedOK, AskTypeOK, Questions
<1>4. ParkedOK'
  <2>1. \A g \in Handlers : parked'[g].client # Nobody =>
            /\ g # h /\ parked'[g] = parked[g]
            /\ client'[parked[g].client] = client[parked[g].client]
    <3> SUFFICES ASSUME NEW g \in Handlers, parked'[g].client # Nobody
                 PROVE  client'[parked[g].client] = client[parked[g].client]
      BY <1>1
    <3>1. g # h /\ parked'[g] = parked[g] /\ parked[g].client \in Clients
      BY <1>1 DEF ChannelInv, AskTypeOK
    <3>2. parked[h].client # parked[g].client
      BY <1>1, <3>1 DEF ChannelInv, ParkedOK
    <3> QED BY <3>1, <3>2
  <2> QED BY <2>1 DEF ChannelInv, ParkedOK
<1>5. AskersOK'
  <2>1. ASSUME NEW c \in Clients
        PROVE  /\ client'[c].st = "idle" <=> client'[c].q = 0
               /\ client'[c].st # "done" => client'[c].got = "none"
    <3>1. CASE c \in C
      BY <1>2, <1>3, <3>1, Constants DEF Questions
    <3>2. CASE c \notin C
      BY <3>2 DEF ChannelInv, AskersOK
    <3> QED BY <3>1, <3>2
  <2> QED BY <1>2, <2>1 DEF ChannelInv, AskersOK
<1>6. WaiterIsParked'
  <2> SUFFICES ASSUME NEW p \in Questions, waiter'[p] # Nobody
               PROVE  parked'[waiter'[p]].q = p /\ status'[p] = "pending"
    BY DEF WaiterIsParked
  <2>1. p # parked[h].q /\ waiter'[p] = waiter[p] /\ waiter[p] \in Handlers
    BY DEF ChannelInv, AskTypeOK
  <2>2. parked[waiter[p]].q = p /\ status[p] = "pending"
    BY <2>1 DEF ChannelInv, WaiterIsParked
  <2> QED BY <2>1, <2>2
<1>7. ConnectedOK' /\ PromptWhenConnected'
  <2> SUFFICES ASSUME faults' = 0, NEW g \in Handlers, parked'[g].q # 0
               PROVE  /\ parked'[g].client # Nobody /\ waiter'[parked'[g].q] = g
                      /\ status'[parked'[g].q] = "pending"
    BY DEF ConnectedOK, PromptWhenConnected
  <2>1. g # h /\ parked'[g] = parked[g] /\ parked[g].q \in Questions
    BY <1>1 DEF ChannelInv, AskTypeOK, Questions
  <2>2. /\ parked[g].client # Nobody /\ waiter[parked[g].q] = g
        /\ parked[h].q # 0 => waiter[parked[h].q] = h
        /\ status[parked[g].q] = "pending"
    BY <2>1 DEF ChannelInv, ConnectedOK, PromptWhenConnected
  <2>3. parked[g].q # parked[h].q
    BY <2>1, <2>2, Constants DEF Questions
  <2> QED BY <2>1, <2>2, <2>3
<1>8. EndedHasNoOpenAsk'
  <2>1. \A c \in Bridges : client'[c].q = client[c].q
    BY <1>2, Constants
  <2> QED BY <2>1 DEF ChannelInv, EndedHasNoOpenAsk, Pending
<1> QED BY <1>4, <1>5, <1>6, <1>7, <1>8 DEF ChannelInv

LEMMA TimerFiresKeeps == ASSUME ChannelInv, NEW h \in Handlers, TimerFires(h) PROVE ChannelInv'
<1> DEFINE q == parked[h].q
           C == clientsOf({h})
<1>0. q \in Questions /\ UNCHANGED <<status, active, bearers, faults>>
  <2>1. q # 0 /\ UNCHANGED <<status, active, bearers, faults>>
    BY DEF TimerFires
  <2> QED BY <2>1 DEF ChannelInv, AskTypeOK, Questions
<1>c. C \in SUBSET Clients /\ \A c \in Clients : c \in C <=> parked[h].client = c
  BY DEF clientsOf
<1>w. ASSUME parked' = parkedWithout({h}), waiter' = timerDeletes(q),
             client' \in [Clients -> ClientStates]
      PROVE  /\ AskTypeOK'
             /\ \A g \in Handlers : parked'[g] = IF g = h THEN Free ELSE parked[g]
             /\ \A p \in Questions : waiter'[p] = IF p = parked[h].q THEN Nobody ELSE waiter[p]
  <2>1. AskTypeOK'
    BY <1>0, <1>w, WithoutType DEF ChannelInv, AskTypeOK, timerDeletes
  <2>2. \A g \in Handlers : parked'[g] = IF g = h THEN Free ELSE parked[g]
    BY <1>w DEF parkedWithout
  <2>3. \A p \in Questions : waiter'[p] = IF p = parked[h].q THEN Nobody ELSE waiter[p]
    BY <1>w DEF timerDeletes, waiterWithout
  <2> QED BY <2>1, <2>2, <2>3
<1>1. CASE /\ resolveTerminal(q)
           /\ client' = TellAll(C, status[q])
           /\ parked' = parkedWithout({h})
           /\ waiter' = timerDeletes(q)
  <2>1. status[q] \in Got
    BY <1>0, <1>1 DEF ChannelInv, AskTypeOK, Got, resolveTerminal
  <2>2. client' \in [Clients -> ClientStates]
    BY <1>1, <2>1, WithoutType DEF ChannelInv
  <2>3. \A c \in C : client'[c].st = "done" /\ client'[c].q = client[c].q
    BY <1>1, <1>c, <2>1, ToldType DEF ChannelInv, TellAll
  <2>4. \A c \in Clients \ C : client'[c] = client[c]
    BY <1>1 DEF TellAll
  <2> HIDE DEF C, q
  <2> QED BY <1>0, <1>1, <1>c, <1>w, <2>2, <2>3, <2>4, HandlerReturns
<1>2. CASE /\ ~resolveTerminal(q)
           /\ waiter' = [waiter EXCEPT ![q] = h]
           /\ UNCHANGED <<client, parked>>
  <2>1. \A p \in Questions : waiter'[p] = IF p = q THEN h ELSE waiter[p]
    BY <1>2 DEF ChannelInv, AskTypeOK
  <2>2. WaiterIsParked'
    BY <1>0, <1>2, <2>1 DEF ChannelInv, WaiterIsParked, resolveTerminal, AskTypeOK
  <2>3. AskTypeOK'
    BY <1>0, <1>2 DEF ChannelInv, AskTypeOK
  <2>4. ConnectedOK'
    <3> SUFFICES ASSUME faults = 0, NEW g \in Handlers, parked[g].q # 0
                 PROVE  parked[g].client # Nobody /\ waiter'[parked[g].q] = g
      BY <1>0, <1>2 DEF ConnectedOK
    <3>1. parked[g].client # Nobody /\ waiter[parked[g].q] = g /\ parked[g].q \in Questions
      BY DEF ChannelInv, ConnectedOK, AskTypeOK, Questions
    <3>2. waiter[q] = h
      BY <1>0, Constants DEF ChannelInv, ConnectedOK
    <3> QED BY <2>1, <3>1, <3>2
  <2> QED
    BY <1>0, <1>2, <2>2, <2>3, <2>4
       DEF ChannelInv, ParkedOK, AskersOK, PromptWhenConnected, EndedHasNoOpenAsk, Pending
<1>3. CASE /\ ~resolveTerminal(q)
           /\ client' = [c \in Clients |->
                IF c \in C THEN [client[c] EXCEPT !.st = "polling", !.knows = TRUE]
                ELSE client[c]]
           /\ parked' = parkedWithout({h})
           /\ waiter' = timerDeletes(q)
  <2>1. client' \in [Clients -> ClientStates]
    BY <1>3 DEF ChannelInv, AskTypeOK, ClientStates
  <2>2. ASSUME NEW c \in C
        PROVE  /\ client'[c].st = "polling"
               /\ client'[c].q = client[c].q /\ client'[c].got = "none"
    <3>1. c \in Clients /\ client[c].got = "none" /\ client[c] \in ClientStates
      BY <2>2, ParkedClient DEF ChannelInv, AskTypeOK
    <3>2. client'[c] = [client[c] EXCEPT !.st = "polling", !.knows = TRUE]
      BY <1>3, <2>2, <3>1
    <3> QED BY <3>1, <3>2 DEF ClientStates
  <2>3. \A c \in Clients \ C : client'[c] = client[c]
    BY <1>3
  <2> HIDE DEF C, q
  <2> QED BY <1>0, <1>3, <1>c, <1>w, <2>1, <2>2, <2>3, HandlerReturns
<1> QED BY <1>1, <1>2, <1>3 DEF TimerFires

-----------------------------------------------------------------------------
LEMMA NextKeepsInv == ASSUME ChannelInv, [AskNext]_askVars PROVE ChannelInv'
<1>1. ASSUME NEW c \in Clis, CliAsks(c) \/ CliAsksAgain(c) PROVE ChannelInv'
  <2>1. c \in Clients /\ client[c].token \in 0 .. MaxResumes /\ bearers \in 0 .. MaxResumes
    BY Constants DEF ChannelInv, AskTypeOK, ClientStates
  <2> QED BY <1>1, <2>1, AskKeeps DEF CliAsks, CliAsksAgain, authorized
<1>2. ASSUME NEW c \in Bridges, BridgeAsks(c) PROVE ChannelInv'
  <2>1. c \in Clients /\ bearers \in 0 .. MaxResumes
    BY Constants DEF ChannelInv, AskTypeOK
  <2> QED BY <1>2, <2>1, AskKeeps DEF BridgeAsks
<1>3. ASSUME NEW c \in Clis, CliRefused(c) PROVE ChannelInv'
  BY <1>3, ClientEnds, Constants DEF CliRefused, Got, ChannelInv, AskTypeOK
<1>4. ASSUME NEW c \in Clis, CliGivesUp(c) PROVE ChannelInv'
  <2>1. faults' \in 0 .. MaxFaults /\ faults' # 0
    BY <1>4, AskAssumption DEF CliGivesUp, ChannelInv, AskTypeOK
  <2> QED BY <1>4, <2>1, ClientEnds, Constants DEF CliGivesUp, Got
<1>5. ASSUME NEW q \in Questions, Answer(q) PROVE ChannelInv'
  BY <1>5, ResolveKeeps DEF Answer, ChannelInv, AskTypeOK
<1>6. ASSUME closeAsks PROVE ChannelInv'
  BY <1>6, ResolveKeeps DEF closeAsks, ChannelInv, AskTypeOK
<1>7. ASSUME ResumeSession PROVE ChannelInv'
  <2>1. AskTypeOK'
    BY <1>7, AskAssumption DEF ResumeSession, ChannelInv, AskTypeOK
  <2> QED
    BY <1>7, <2>1
       DEF ResumeSession, ChannelInv, ParkedOK, AskersOK, ConnectedOK, WaiterIsParked,
           PromptWhenConnected, EndedHasNoOpenAsk
<1>8. ASSUME UNCHANGED askVars PROVE ChannelInv'
  BY <1>8 DEF askVars, ChannelInv, AskTypeOK, ParkedOK, AskersOK, ConnectedOK, WaiterIsParked,
              PromptWhenConnected, EndedHasNoOpenAsk, Pending
<1> QED
  BY <1>1, <1>2, <1>3, <1>4, <1>5, <1>6, <1>7, <1>8,
     CliPollsKeeps, DropKeeps, RestartKeeps, TimerFiresKeeps DEF AskNext, CliSteps

\* The invariant of the ask channel holds in every reachable state.
THEOREM ChannelInvariance == AskSpec => []ChannelInv
BY InitInv, NextKeepsInv, PTL DEF AskSpec

\* A waiter entry always leads to a handler parked on that very question.
THEOREM WaitersAreParked == AskSpec => []WaiterIsParked
<1>1. ChannelInv => WaiterIsParked
  BY DEF ChannelInv
<1> QED BY <1>1, ChannelInvariance, PTL

\* Without faults nobody is left parked on a resolved question.
THEOREM PromptAnswers == AskSpec => []PromptWhenConnected
<1>1. ChannelInv => PromptWhenConnected
  BY DEF ChannelInv
<1> QED BY <1>1, ChannelInvariance, PTL

\* What a command asks does not outlive its session.
THEOREM NoOpenAskAfterEnd == AskSpec => []EndedHasNoOpenAsk
<1>1. ChannelInv => EndedHasNoOpenAsk
  BY DEF ChannelInv
<1> QED BY <1>1, ChannelInvariance, PTL
=============================================================================
