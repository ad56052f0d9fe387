-------------------------- MODULE AskPromiseProofs --------------------------
(***************************************************************************)
(* What follows from the promise of the ask channel, for any number of     *)
(* clients and questions.                                                  *)
(***************************************************************************)
EXTENDS AskPromise, TLAPS

Inv == TypeOK /\ OneOpen /\ ToldTruth

\* A step changes at most the open question's status, or opens a new one in its
\* place.
LEMMA StatusSteps ==
    ASSUME TypeOK, OneOpen, Next
    PROVE  /\ status' \in [Questions -> Statuses]
           /\ OneOpen'
           /\ \A q \in Questions : status[q] \in Terminal => status'[q] = status[q]
<1>1. CASE \E c \in Clients, q \in Questions : Ask(c, q)
  <2>1. PICK c \in Clients, q \in Questions : Ask(c, q)
    BY <1>1
  <2>2. \A p \in Questions :
          status'[p] = IF p = q THEN "pending"
                       ELSE IF p \in Open THEN "cancelled" ELSE status[p]
    BY <2>1 DEF Ask, Resolve
  <2>3. status' \in [Questions -> Statuses]
    BY <2>1 DEF Ask, Resolve, TypeOK, Statuses
  <2>4. OneOpen'
    BY <2>2 DEF OneOpen, Open
  <2>5. \A p \in Questions : status[p] \in Terminal => status'[p] = status[p]
    BY <2>1, <2>2 DEF Ask, Open, Terminal
  <2> QED BY <2>3, <2>4, <2>5
<1>2. CASE \E q \in Questions : Answer(q)
  BY <1>2 DEF Answer, Resolve, Open, TypeOK, OneOpen, Statuses, Terminal
<1>3. CASE Close
  BY <1>3 DEF Close, Resolve, Open, TypeOK, OneOpen, Statuses, Terminal
<1>4. CASE Quiet
  BY <1>4 DEF Quiet, Open, TypeOK, OneOpen
<1> QED BY <1>1, <1>2, <1>3, <1>4 DEF Next

\* A client changes its question only while it was told nothing.
LEMMA AskedSteps ==
    ASSUME TypeOK, Next
    PROVE  /\ asked' \in [Clients -> {0} \cup Questions]
           /\ \A c \in Clients : told[c] # "none" => asked'[c] = asked[c]
<1>1. CASE \E c \in Clients, q \in Questions : Ask(c, q)
  <2>1. PICK c \in Clients, q \in Questions : Ask(c, q)
    BY <1>1
  <2> QED BY <2>1 DEF Ask, TypeOK
<1>2. CASE UNCHANGED asked
  BY <1>2 DEF TypeOK
<1> QED BY <1>1, <1>2 DEF Next, Answer, Close, Quiet

LEMMA NextKeepsInv == ASSUME Inv, Next PROVE Inv'
<1>0. TypeOK /\ OneOpen /\ ToldTruth
  BY DEF Inv
<1>1. PICK S \in SUBSET Clients, G \in SUBSET Clients : Tell(S, G)
  BY DEF Next
<1>2. told' \in [Clients -> Terminal \cup {"none", "gone"}]
  BY <1>0, <1>1 DEF Tell, TypeOK
<1>3. ToldTruth'
  <2> SUFFICES ASSUME NEW c \in Clients, told'[c] \in Terminal
               PROVE  asked'[c] \in Questions /\ status'[asked'[c]] = told'[c]
    BY DEF ToldTruth
  <2>1. CASE c \in S
    BY <1>1, <2>1 DEF Tell
  <2>2. CASE c \notin S
    <3>1. told[c] \in Terminal /\ told'[c] = told[c]
      BY <1>1, <2>2 DEF Tell, Terminal
    <3>2. asked[c] \in Questions /\ status[asked[c]] = told[c] /\ asked'[c] = asked[c]
      BY <1>0, <3>1, AskedSteps DEF ToldTruth, Terminal
    <3> QED BY <1>0, <3>1, <3>2, StatusSteps
  <2> QED BY <2>1, <2>2
<1> QED BY <1>0, <1>2, <1>3, StatusSteps, AskedSteps DEF Inv, TypeOK

\* At most one question is open, and nobody is told anything but what became of
\* its own question.
THEOREM PromiseIsKept == Spec => [](OneOpen /\ ToldTruth)
<1>1. Init => Inv
  BY DEF Init, Inv, TypeOK, OneOpen, ToldTruth, Open, Statuses, Terminal
<1>2. Inv /\ [Next]_vars => Inv'
  <2>1. ASSUME Inv, UNCHANGED vars PROVE Inv'
    BY <2>1 DEF vars, Inv, TypeOK, OneOpen, ToldTruth, Open
  <2> QED BY <2>1, NextKeepsInv
<1>3. Inv => OneOpen /\ ToldTruth
  BY DEF Inv
<1> QED BY <1>1, <1>2, <1>3, PTL DEF Spec
=============================================================================
