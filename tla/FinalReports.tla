------------------------------ MODULE FinalReports ------------------------------
(***************************************************************************)
(* The consumer of final reports: a loop that polls the status log, hands  *)
(* each final report of each workspace to that workspace's callback, and   *)
(* moves the durable cursor of the workspace when the callback has come to *)
(* its end, however it ended.  A callback is awaited, and may never end; a *)
(* restart forgets the drain and the timer and keeps the cursors.          *)
(***************************************************************************)
EXTENDS Naturals, Sequences, FiniteSets, FiniteSetsExt

CONSTANTS
    MaxSpaces,           \* bound: workspaces
    MaxReportRows,       \* bound: rows of agent_status_log
    MaxConsumerRestarts  \* bound

ASSUME ConsumerAssumption == /\ MaxSpaces \in Nat \ {0}
                             /\ MaxReportRows \in Nat
                             /\ MaxConsumerRestarts \in Nat

Spaces == 1 .. MaxSpaces

VARIABLES
    spaces,      \* workspaces are 1 .. spaces, in the order of their rows
    entries,     \* agent_status_log, by id
    cursor,      \* final_report_consumer_state.last_consumed_id
    drain,       \* the poll loop: waiting for its timer, or at a row's callback
    handed,      \* for each row, how often a callback was started with it
    consumerRestarts

consumerVars == <<spaces, entries, cursor, drain, handed, consumerRestarts>>

LogRows == [ws: Spaces, kind: {"final-report", "callback-error"}]

Undrained == [at |-> "timer", ws |-> 0, rows |-> {}, upTo |-> 0]

ConsumerTypeOK ==
    /\ spaces \in Spaces
    /\ entries \in Seq(LogRows)
    /\ cursor \in [Spaces -> 0 .. MaxReportRows]
    /\ drain \in [at: {"timer", "callback"}, ws: 0 .. MaxSpaces,
                  rows: SUBSET (1 .. MaxReportRows), upTo: 0 .. MaxSpaces]
    /\ handed \in [1 .. MaxReportRows -> Nat]
    /\ consumerRestarts \in 0 .. MaxConsumerRestarts

ConsumerInit ==
    /\ spaces = 1
    /\ entries = <<>>
    /\ cursor = [w \in Spaces |-> 0]
    /\ drain = Undrained
    /\ handed = [i \in 1 .. MaxReportRows |-> 0]
    /\ consumerRestarts = 0

-----------------------------------------------------------------------------
WorkspaceAdded == /\ spaces < MaxSpaces
                  /\ spaces' = spaces + 1
                  /\ UNCHANGED <<entries, cursor, drain, handed, consumerRestarts>>

Reported(w) == /\ w <= spaces
               /\ Len(entries) < MaxReportRows
               /\ entries' = Append(entries, [ws |-> w, kind |-> "final-report"])
               /\ UNCHANGED <<spaces, cursor, drain, handed, consumerRestarts>>

\* Variant: rows from the cursor on, the cursor's own among them.
unconsumedFrom(w, cur, table) ==
    {i \in DOMAIN table : table[i].ws = w /\ table[i].kind = "final-report" /\ i >= cur[w]}

unconsumed(w, cur, table) ==
    {i \in DOMAIN table : table[i].ws = w /\ table[i].kind = "final-report" /\ i > cur[w]}

\* On to the next row: of this workspace as it was selected, or of the next one of
\* the list, which is selected now.
goOn(w, rows, upTo, cur, table) ==
    LET later == {v \in w + 1 .. upTo : unconsumed(v, cur, table) # {}} IN
    IF rows # {} THEN [at |-> "callback", ws |-> w, rows |-> rows, upTo |-> upTo]
    ELSE IF later = {} THEN Undrained
    ELSE [at |-> "callback", ws |-> Min(later), upTo |-> upTo,
          rows |-> unconsumed(Min(later), cur, table)]

begun(d) == IF d.at = "callback" THEN [handed EXCEPT ![Min(d.rows)] = @ + 1] ELSE handed

\* The timer: drainOnce lists the workspaces and starts the first callback.
DrainBegins ==
    /\ drain.at = "timer"
    /\ drain' = goOn(0, {}, spaces, cursor, entries)
    /\ handed' = begun(drain')
    /\ UNCHANGED <<spaces, entries, cursor, consumerRestarts>>

\* Variant: the cursor is moved to the last row of the workspace's selection.
CallbackEndsSelection(ok) ==
    LET i == Max(drain.rows)
        cur == [cursor EXCEPT ![drain.ws] = i]
    IN
    /\ drain.at = "callback"
    /\ ok
    /\ cursor' = cur
    /\ drain' = goOn(drain.ws, {}, drain.upTo, cur, entries)
    /\ handed' = begun(drain')
    /\ UNCHANGED <<spaces, entries, consumerRestarts>>

\* The callback has ended; a failure is logged, and is not tried again.
CallbackEnds(ok) ==
    LET i == Min(drain.rows)
        cur == [cursor EXCEPT ![drain.ws] = i]
        table == IF ok THEN entries
                 ELSE Append(entries, [ws |-> drain.ws, kind |-> "callback-error"])
    IN
    /\ drain.at = "callback"
    /\ ok \/ Len(entries) < MaxReportRows
    /\ entries' = table
    /\ cursor' = cur
    /\ drain' = goOn(drain.ws, drain.rows \ {i}, drain.upTo, cur, table)
    /\ handed' = begun(drain')
    /\ UNCHANGED <<spaces, consumerRestarts>>

ConsumerRestart ==
    /\ consumerRestarts < MaxConsumerRestarts
    /\ consumerRestarts' = consumerRestarts + 1
    /\ drain' = Undrained
    /\ UNCHANGED <<spaces, entries, cursor, handed>>

ConsumerNext == \/ WorkspaceAdded \/ DrainBegins \/ ConsumerRestart
                \/ \E w \in Spaces : Reported(w)
                \/ \E ok \in BOOLEAN : CallbackEnds(ok)

ConsumerSpec == ConsumerInit /\ [][ConsumerNext]_consumerVars

-----------------------------------------------------------------------------
(* Properties.                                                             *)

\* At least once, and more than once only for a crash: whatever reports come in
\* during a drain and however callbacks fail, the cursor never passes a report
\* that was not handed over, and a report is handed over again only after a restart.
HandedOver ==
    /\ \A i \in DOMAIN entries :
         entries[i].kind = "final-report" /\ i <= cursor[entries[i].ws] => handed[i] > 0
    /\ \A i \in 1 .. MaxReportRows : handed[i] <= 1 + consumerRestarts
=================================================================================
