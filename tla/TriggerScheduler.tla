--------------------------- MODULE TriggerScheduler ---------------------------
(***************************************************************************)
(* The trigger scheduler's own event sources: cron timers, webhooks and    *)
(* workspace-open.  It keeps one entry per enabled trigger of every agent  *)
(* of a persistent role, in an index by agent and one by event key, and    *)
(* rebuilds an agent's entries whenever its role, its version or the       *)
(* workspace's overrides change.  All agents are of one workspace.        *)
(*                                                                         *)
(* A fire walks the live Set of its key and awaits a dispatch per entry,   *)
(* so registrations change under it.  The audit rows, which nothing here   *)
(* reads, are left out; the delivery of a dispatch is in Notifications.    *)
(***************************************************************************)
EXTENDS Naturals, Sequences, FiniteSets, FiniteSetsExt, SequencesExt

CONSTANTS
    Triggers,       \* of the agents of persistent roles, in the order of their rows, the
                    \* triggers that the agent's role declares, in their order
    Fires,          \* bound: timers, webhook and open requests at work
    Debounce,       \* debounce_ms, in ticks
    MaxEntries,     \* bound: entries ever registered
    MaxTicks        \* bound: the clock

Kinds == {"cron", "webhook", "workspace-open"}

\* A role's triggers are distinct: they have distinct files in its tree.  A kind
\* stands for one trigger of that kind and for its triggerId.
ASSUME TriggerAssumption == /\ Triggers \in Seq(Seq(Kinds))
                            /\ \A a \in 1 .. Len(Triggers) : \A i, j \in 1 .. Len(Triggers[a]) :
                                    Triggers[a][i] = Triggers[a][j] => i = j
                            /\ Debounce \in Nat
                            /\ MaxEntries \in Nat
                            /\ MaxTicks \in Nat

NTrigAgents == Len(Triggers)
TrigAgents == 1 .. NTrigAgents
Declared(a) == ToSet(Triggers[a])
Entries == 1 .. MaxEntries

VARIABLES
    started,
    now,
    entry,      \* the entries, in the order of their registration
    disabled,   \* trigger_overrides of the workspace: disabled triggers of an agent
    deleted,    \* agents whose row is gone
    guardFile,  \* the guard's file exists in the repository
    fire        \* timers and requests at work: the entry visited last or being dispatched

trigVars == <<started, now, entry, disabled, deleted, guardFile, fire>>

\* `live` is membership in the indexes, `armed` a timer handle of a cron entry,
\* `fired` lastFiredAt of a workspace-open entry (0 for null, else the time + 1).
EntryRecords == [agent: 0 .. NTrigAgents, kind: Kinds, live: BOOLEAN,
                 armed: BOOLEAN, fired: 0 .. MaxTicks + 1]
NoEntry == [agent |-> 0, kind |-> "cron", live |-> FALSE, armed |-> FALSE, fired |-> 0]

FireStates == [at: {"idle", "walk", "dispatch"}, kind: Kinds, entry: 0 .. MaxEntries,
               now: 0 .. MaxTicks, over: BOOLEAN]
NoFire == [at |-> "idle", kind |-> "webhook", entry |-> 0, now |-> 0, over |-> FALSE]

TrigTypeOK ==
    /\ started \in BOOLEAN
    /\ now \in 0 .. MaxTicks
    /\ entry \in [Entries -> EntryRecords]
    /\ disabled \subseteq TrigAgents \X Kinds
    /\ deleted \subseteq TrigAgents
    /\ guardFile \in BOOLEAN
    /\ fire \in [Fires -> FireStates]

TrigInit ==
    /\ started = FALSE
    /\ now = 0
    /\ entry = [e \in Entries |-> NoEntry]
    /\ disabled = {}
    /\ deleted = {}
    /\ guardFile = FALSE
    /\ fire = [r \in Fires |-> NoFire]

-----------------------------------------------------------------------------
(* The indexes.                                                            *)

live(kind) == {e \in Entries : entry[e].live /\ entry[e].kind = kind}
registered(table) == {e \in Entries : table[e].agent # 0}

\* A trigger that the workspace does not disable, of an agent whose row is there.
enabled(a, kind, dis) == a \notin deleted /\ <<a, kind>> \notin dis

\* registerAgent: an entry per enabled trigger, at the end of its Sets; a cron
\* entry gets its first timer.  (The entry of one that is not enabled is never live.)
Registered(table, a, dis) ==
    LET n == Cardinality(registered(table)) IN
    [e \in Entries |->
        IF e \in n + 1 .. n + Len(Triggers[a])
        THEN LET kind == Triggers[a][e - n] IN
             [agent |-> a, kind |-> kind, live |-> enabled(a, kind, dis),
              armed |-> enabled(a, kind, dis) /\ kind = "cron", fired |-> 0]
        ELSE table[e]]

\* Variant: the timers of the entries stay armed.
ClearedArmed(table, a) ==
    [e \in Entries |-> IF table[e].agent = a THEN [table[e] EXCEPT !.live = FALSE] ELSE table[e]]

\* clearAgent: out of both indexes, and the timers cleared.
Cleared(table, a) ==
    [e \in Entries |-> IF table[e].agent = a
                       THEN [table[e] EXCEPT !.live = FALSE, !.armed = FALSE, !.fired = 0]
                       ELSE table[e]]

\* A Set that loses its last entry is dropped from the index by key: who walks it
\* sees nothing that is registered later.
orphaned(A) == [r \in Fires |->
    IF fire[r].at # "idle" /\ fire[r].kind # "cron" /\ \A e \in live(fire[r].kind) : entry[e].agent \in A
    THEN [fire[r] EXCEPT !.over = TRUE] ELSE fire[r]]

-----------------------------------------------------------------------------
(* start, stop and the reloads.                                            *)

\* The bound on entries: the agents of A can be registered.
Room(A) == Cardinality(registered(entry)) + MapThenSumSet(LAMBDA a : Len(Triggers[a]), A) <= MaxEntries

RegisteredAll ==
    LET upTo[a \in 0 .. NTrigAgents] ==
            IF a = 0 THEN entry ELSE Registered(upTo[a - 1], a, disabled)
    IN upTo[NTrigAgents]

SchedulerStarts ==
    /\ ~started
    /\ Room(TrigAgents)
    /\ started' = TRUE
    /\ entry' = RegisteredAll
    /\ UNCHANGED <<now, disabled, deleted, guardFile, fire>>

\* The server closes, after the requests in flight: only timers' dispatches remain.
SchedulerStops ==
    /\ started
    /\ \A r \in Fires : fire[r].at # "idle" => fire[r].kind = "cron"
    /\ started' = FALSE
    /\ entry' = [e \in Entries |-> [entry[e] EXCEPT !.live = FALSE, !.armed = FALSE, !.fired = 0]]
    /\ UNCHANGED <<now, disabled, deleted, guardFile, fire>>

\* reloadAgent: cleared and, while the scheduler runs, registered again.
reload(a, dis) ==
    /\ Room({a})
    /\ entry' = IF started THEN Registered(Cleared(entry, a), a, dis) ELSE Cleared(entry, a)
    /\ fire' = orphaned({a})

\* A commit of the agent's role, an edit of its skills, a new spawn of the role.
RoleChanges(a) == /\ reload(a, disabled)
                  /\ UNCHANGED <<started, now, disabled, deleted, guardFile>>

\* PATCH of the workspace's trigger_overrides for the agent's role.
OverridesChange(a, D) ==
    LET dis == {p \in disabled : p[1] # a} \cup ({a} \X D) IN
    /\ disabled' = dis
    /\ reload(a, dis)
    /\ UNCHANGED <<started, now, deleted, guardFile>>

\* Nothing reloads the triggers of an agent whose row is deleted.
AgentDeleted(a) == /\ a \notin deleted
                   /\ deleted' = deleted \cup {a}
                   /\ UNCHANGED <<started, now, entry, disabled, guardFile, fire>>

GuardFileAppears == /\ ~guardFile
                    /\ guardFile' = TRUE
                    /\ UNCHANGED <<started, now, entry, disabled, deleted, fire>>

Tick == /\ now < MaxTicks
        /\ now' = now + 1
        /\ UNCHANGED <<started, entry, disabled, deleted, guardFile, fire>>

-----------------------------------------------------------------------------
(* cron.                                                                   *)

\* The timer's callback: the dispatch begins and, before it ends, the next tick is
\* scheduled if the entry is still tracked.  An agent that is gone is not
\* dispatched to, and its timer goes on.
CronFires(r, e) ==
    /\ entry[e].armed
    /\ fire[r].at = "idle"
    /\ entry[e].agent \notin deleted
    /\ fire' = [fire EXCEPT ![r] = [NoFire EXCEPT !.at = "dispatch", !.kind = "cron", !.entry = e]]
    /\ entry' = [entry EXCEPT ![e].armed = started /\ entry[e].live]
    /\ UNCHANGED <<started, now, disabled, deleted, guardFile>>

-----------------------------------------------------------------------------
(* webhooks and workspace-open.                                            *)

\* POST /webhook-triggers and POST /workspaces/:id/open: the Set of the key, as it
\* is from here on; an open takes the time once.
Fire(r, kind) ==
    /\ fire[r].at = "idle"
    /\ live(kind) # {}
    /\ fire' = [fire EXCEPT ![r] = [at |-> "walk", kind |-> kind, entry |-> 0,
                                    now |-> now, over |-> FALSE]]
    /\ UNCHANGED <<started, now, entry, disabled, deleted, guardFile>>

\* The entries of the Set that the walk has not reached.
ahead(r) == IF fire[r].over THEN {} ELSE {e \in live(fire[r].kind) : e > fire[r].entry}

debounced(r, e) == entry[e].fired # 0 /\ fire[r].now - (entry[e].fired - 1) < Debounce

\* An open passes over an entry that is debounced or whose guard's file exists; an
\* agent that is gone is passed over, too.
passedOver(r, e) == \/ fire[r].kind = "workspace-open" /\ (debounced(r, e) \/ guardFile)
                    \/ entry[e].agent \in deleted

\* Variant: the walk goes on over the entries that were registered when it began,
\* in a copy of the Set.
WalkCopy(r) ==
    LET todo == {e \in Entries : /\ entry[e].kind = fire[r].kind
                                 /\ entry[e].agent # 0
                                 /\ e > fire[r].entry}
    IN
    /\ fire[r].at = "walk"
    /\ IF todo = {} THEN fire' = [fire EXCEPT ![r] = NoFire]
       ELSE fire' = [fire EXCEPT ![r].entry = Min(todo),
                                 ![r].at = IF passedOver(r, Min(todo)) THEN "walk" ELSE "dispatch"]
    /\ UNCHANGED <<started, now, entry, disabled, deleted, guardFile>>

Walk(r) ==
    /\ fire[r].at = "walk"
    /\ IF ahead(r) = {} THEN fire' = [fire EXCEPT ![r] = NoFire]
       ELSE LET e == Min(ahead(r)) IN
            fire' = [fire EXCEPT ![r].entry = e,
                                 ![r].at = IF passedOver(r, e) THEN "walk" ELSE "dispatch"]
    /\ UNCHANGED <<started, now, entry, disabled, deleted, guardFile>>

\* The dispatch landed, and an open stamps its entry with the time it took; what was
\* cleared meanwhile has no more use for it.
Dispatched(r) ==
    /\ fire[r].at = "dispatch"
    /\ fire' = IF fire[r].kind = "cron" THEN [fire EXCEPT ![r] = NoFire]
               ELSE [fire EXCEPT ![r].at = "walk"]
    /\ entry' = IF fire[r].kind = "workspace-open" /\ entry[fire[r].entry].live
                THEN [entry EXCEPT ![fire[r].entry].fired = fire[r].now + 1] ELSE entry
    /\ UNCHANGED <<started, now, disabled, deleted, guardFile>>

-----------------------------------------------------------------------------
TrigNext ==
    \/ SchedulerStarts \/ SchedulerStops \/ GuardFileAppears \/ Tick
    \/ \E a \in TrigAgents : RoleChanges(a) \/ AgentDeleted(a)
    \/ \E a \in TrigAgents : \E D \in SUBSET Declared(a) : OverridesChange(a, D)
    \/ \E r \in Fires, e \in Entries : CronFires(r, e)
    \/ \E r \in Fires : Walk(r) \/ Dispatched(r)
    \/ \E r \in Fires, kind \in Kinds \ {"cron"} : Fire(r, kind)

TrigSpec == TrigInit /\ [][TrigNext]_trigVars

-----------------------------------------------------------------------------
(* Properties.                                                             *)

\* Through starts, stops and reloads in any order an enabled trigger has one entry
\* and a cron entry one timer: no timer outlives its entry, which would wake the
\* agent for a trigger that was disabled, and none is lost.
OneTimerEach ==
    /\ \A e \in Entries : entry[e].armed <=> entry[e].live /\ entry[e].kind = "cron"
    /\ \A d, e \in Entries : /\ entry[d].live /\ entry[e].live
                              /\ entry[d].agent = entry[e].agent /\ entry[d].kind = entry[e].kind
                              => d = e
    /\ \A e \in Entries : entry[e].live => started /\ <<entry[e].agent, entry[e].kind>> \notin disabled

\* A reload in the middle of a fire counts at once: no dispatch begins for an entry
\* that was cleared, so none for a trigger that is disabled now.
NoDispatchCleared == [][\A e \in Entries :
    (\E r \in Fires : fire[r].at # "dispatch" /\ fire'[r].at = "dispatch" /\ fire'[r].entry = e)
    => /\ started /\ entry[e].live
       /\ <<entry[e].agent, entry[e].kind>> \notin disabled
       /\ entry[e].agent \notin deleted]_trigVars
===============================================================================
