----------------------------- MODULE AskPromise -----------------------------
(***************************************************************************)
(* What the ask channel promises, without polls, waiters and connections:  *)
(* a session has at most one open question, a question is resolved once    *)
(* and for good, and whoever asked it is told what it resolved to, or      *)
(* learns that the channel is gone.                                        *)
(***************************************************************************)
EXTENDS Naturals

CONSTANTS Clients, MaxQuestions

Questions == 1 .. MaxQuestions
Statuses == {"none", "pending", "answered", "cancelled"}
Terminal == {"answered", "cancelled"}

VARIABLES
    status,  \* of each question
    asked,   \* the last question a client asked, 0 for none
    told     \* what the client was told of it: none, a terminal status, or gone

vars == <<status, asked, told>>

TypeOK == /\ status \in [Questions -> Statuses]
          /\ asked \in [Clients -> {0} \cup Questions]
          /\ told \in [Clients -> Terminal \cup {"none", "gone"}]

Init == /\ status = [q \in Questions |-> "none"]
        /\ asked = [c \in Clients |-> 0]
        /\ told = [c \in Clients |-> "none"]

\* The open questions become `s`.
Resolve(Q, s) == [q \in Questions |-> IF q \in Q THEN s ELSE status[q]]
Open == {q \in Questions : status[q] = "pending"}

\* A new question supersedes the open one.
Ask(c, q) == /\ told[c] = "none"
             /\ status[q] = "none"
             /\ status' = [Resolve(Open, "cancelled") EXCEPT ![q] = "pending"]
             /\ asked' = [asked EXCEPT ![c] = q]

Answer(q) == /\ q \in Open
             /\ status' = Resolve({q}, "answered")
             /\ UNCHANGED asked

\* The session ends.
Close == /\ status' = Resolve(Open, "cancelled")
         /\ UNCHANGED asked

Quiet == UNCHANGED <<status, asked>>

\* In the same step some clients are told what their question resolved to, and
\* some lose the channel.
Tell(S, G) ==
    /\ \A c \in S : /\ told[c] = "none" /\ asked'[c] \in Questions
                    /\ status'[asked'[c]] \in Terminal
    /\ \A c \in G : told[c] = "none" /\ asked'[c] \in Questions
    /\ told' = [c \in Clients |-> IF c \in S THEN status'[asked'[c]]
                                  ELSE IF c \in G THEN "gone" ELSE told[c]]

Next == /\ \/ \E c \in Clients, q \in Questions : Ask(c, q)
           \/ \E q \in Questions : Answer(q)
           \/ Close
           \/ Quiet
        /\ \E S, G \in SUBSET Clients : Tell(S, G)

Spec == Init /\ [][Next]_vars

\* At most one question is open, although asks overlap and race with answers.
OneOpen == \A p, q \in Open : p = q

\* A client that was told anything was told what became of its own question: no
\* answer goes to the asker of another, and none is taken back.
ToldTruth == \A c \in Clients :
    told[c] \in Terminal => asked[c] \in Questions /\ status[asked[c]] = told[c]
=============================================================================
