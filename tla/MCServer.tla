------------------------------ MODULE MCServer ------------------------------
(***************************************************************************)
(* The components of the server that share no state with each other, for   *)
(* TLC in one run: an initial state picks the component that moves, and    *)
(* the others stay at their initial state.  A step of one disables and     *)
(* enables nothing in another, so their interleavings would add states and *)
(* no behaviour of a component.                                            *)
(***************************************************************************)
EXTENDS SessionLifecycle, ToolTokenGate, TriggerScheduler, CompletionWakes,
        FinalReports, Embodiment

\* The triggers of the agents of TriggerScheduler.
TwoAgents == <<<<"cron", "workspace-open">>, <<"workspace-open">>>>

VARIABLE part

others == <<gateVars, trigVars, wakeVars, consumerVars, embVars>>

ServerInit ==
    /\ part \in {"life", "gate", "triggers", "wakes", "reports", "embodiment"}
    /\ Init /\ GateInit /\ TrigInit /\ WakeInit /\ ConsumerInit /\ EmbInit
    /\ part # "gate" => lifetime = "session"
    /\ part # "wakes" => injects
    /\ part # "embodiment" => /\ ~turnLife
                              /\ versions = <<[allow |-> Verbs, task |-> TRUE]>>
                              /\ \A s \in EmbSessions : sess[s].st = "none"

ServerNext ==
    /\ UNCHANGED part
    /\ \/ part = "life" /\ Next /\ UNCHANGED others
       \/ part = "gate" /\ GateNext /\ UNCHANGED <<vars, trigVars, wakeVars, consumerVars, embVars>>
       \/ part = "triggers" /\ TrigNext /\ UNCHANGED <<vars, gateVars, wakeVars, consumerVars, embVars>>
       \/ part = "wakes" /\ WakeNext /\ UNCHANGED <<vars, gateVars, trigVars, consumerVars, embVars>>
       \/ part = "reports" /\ ConsumerNext /\ UNCHANGED <<vars, gateVars, trigVars, wakeVars, embVars>>
       \/ part = "embodiment" /\ EmbNext /\ UNCHANGED <<vars, gateVars, trigVars, wakeVars, consumerVars>>

ServerSpec == ServerInit /\ [][ServerNext]_<<part, vars, others>>
=============================================================================
