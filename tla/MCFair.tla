------------------------------- MODULE MCFair -------------------------------
(***************************************************************************)
(* The two components whose liveness is checked, for TLC in one run: an    *)
(* initial state picks the component that moves, and the other stays at    *)
(* its initial state.  They share no state: a session's end reaches the    *)
(* ask channel as closeAsks of AskChannel.                                 *)
(***************************************************************************)
EXTENDS SessionLifecycle, AskChannel

VARIABLE part

PartsInit == part \in {"sessions", "ask"} /\ Init /\ AskInit

PartsNext ==
    /\ UNCHANGED part
    /\ \/ part = "sessions" /\ Next /\ UNCHANGED askVars
       \/ part = "ask" /\ AskNext /\ UNCHANGED vars

PartsSpec == /\ PartsInit /\ [][PartsNext]_<<part, vars, askVars>>
             /\ Fairness /\ AskFairness
=============================================================================
