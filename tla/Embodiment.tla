------------------------------- MODULE Embodiment -------------------------------
(***************************************************************************)
(* What a session is embodied with: the content of its role at a commit,   *)
(* the layers of its system prompt, its model and effort dials, and the    *)
(* scope of commands its token carries.  A spawn and a resume read the     *)
(* rows they need, wait (for the repair of the transcript, the providers   *)
(* of prompt modules, the worktree, the runtime), and then start a child   *)
(* and write the session's row and token; the role, the permissions of the *)
(* workspace and the dials change meanwhile.  The server is restarted, and *)
(* its boot forgets part of the rows (Migrations has the statements).      *)
(***************************************************************************)
EXTENDS Naturals, Sequences

CONSTANTS
    Verbs,           \* the registry of CLI capabilities
    DialValues,
    Unset,
    EmbSessions,     \* bound: sessions
    EmbJobs,         \* bound: spawns and resumes in flight
    MaxEdits         \* bound: commits and edits of the role, PATCHes of the permissions,
                     \* reconfigures, and restarts

ASSUME EmbodimentAssumption == /\ MaxEdits \in Nat
                               /\ EmbSessions # {}
                               /\ Unset \notin DialValues

Dials == {"model", "effort"}
DialSettings == [Dials -> DialValues \cup {Unset}]
NoDials == [d \in Dials |-> Unset]

\* The built-in wake-programs, and one that the role's author may write.
WakePrograms == {"idle", "custom", "task"}

\* What a spawn may open with: a cycle passes its orientation as the op-level addon
\* of a `custom`, the composer a system addon.
Openings == [program: {"idle", "task"}, op: {FALSE}, addon: {FALSE}]
            \cup {o \in [program: {"custom"}, op: BOOLEAN, addon: BOOLEAN] : ~(o.op /\ o.addon)}

MaxVersions == MaxEdits + 1

VARIABLES
    turnLife,  \* the runtime's processLifetime is "turn"; it takes no live reconfigure then
    perms,     \* the verbs that workspace.perms_scope allows and does not deny
    versions,  \* the role's contents, by commit: its allow-list and whether it has "task"
    dflt,      \* the role's own model and effort
    sess,      \* the rows of sessions and their tokens
    child,      \* the child of a session that the registry holds
    embJob,
    first,     \* what each session was embodied with when it was spawned
    forgot,    \* history: the sessions that a restart found
    tiers,     \* the verbs that workspace and role allowed together, at every moment so far
    edits

embVars == <<turnLife, perms, versions, dflt, sess, child, embJob, first, forgot, tiers, edits>>

Layers == [version: 0 .. MaxVersions, program: WakePrograms, op: BOOLEAN, addon: BOOLEAN]
NoLayers == [version |-> 0, program |-> "idle", op |-> FALSE, addon |-> FALSE]

\* A token of before the scopes were stored has scope "null".
SessRows == [st: {"none", "live", "ended"}, pin: 0 .. MaxVersions, program: WakePrograms,
             op: BOOLEAN, override: DialSettings, dial: DialSettings,
             baked: BOOLEAN, scope: SUBSET Verbs]
NoSess == [st |-> "none", pin |-> 0, program |-> "idle", op |-> FALSE, override |-> NoDials,
           dial |-> NoDials, baked |-> FALSE, scope |-> {}]

Incarnations == [on: BOOLEAN, with: Layers, dial: DialSettings]
NoProc == [on |-> FALSE, with |-> NoLayers, dial |-> NoDials]

\* `perms`, `tip` and `dflt` are rows as they were read.
EmbJobStates == [at: {"idle", "attach", "repair", "resume"}, s: EmbSessions, perms: SUBSET Verbs,
                 tip: 0 .. MaxVersions, dflt: DialSettings, with: Layers,
                 override: DialSettings, scope: SUBSET Verbs]
IdleJob == [at |-> "idle", s |-> CHOOSE s \in EmbSessions : TRUE, perms |-> {}, tip |-> 0,
            dflt |-> NoDials, with |-> NoLayers, override |-> NoDials, scope |-> {}]

EmbTypeOK ==
    /\ turnLife \in BOOLEAN
    /\ perms \subseteq Verbs
    /\ versions \in Seq([allow: SUBSET Verbs, task: BOOLEAN])
    /\ Len(versions) \in 1 .. MaxVersions
    /\ dflt \in DialSettings
    /\ sess \in [EmbSessions -> SessRows]
    /\ child \in [EmbSessions -> Incarnations]
    /\ embJob \in [EmbJobs -> EmbJobStates]
    /\ first \in [EmbSessions -> Layers]
    /\ forgot \subseteq EmbSessions
    /\ tiers \subseteq SUBSET Verbs
    /\ edits \in 0 .. MaxEdits

EmbInit ==
    /\ turnLife \in BOOLEAN
    /\ perms = Verbs
    /\ \E A \in SUBSET Verbs : /\ versions = <<[allow |-> A, task |-> TRUE]>>
                               /\ tiers = {A}
    /\ dflt = NoDials
    /\ \E legacy \in BOOLEAN :
         sess = [s \in EmbSessions |->
                   IF legacy THEN [NoSess EXCEPT !.st = "live", !.pin = 1] ELSE NoSess]
    /\ child = [s \in EmbSessions |-> NoProc]
    /\ embJob = [j \in EmbJobs |-> IdleJob]
    /\ first = [s \in EmbSessions |-> [NoLayers EXCEPT !.version = sess[s].pin]]
    /\ forgot = {}
    /\ edits = 0

-----------------------------------------------------------------------------
(* The rows that change under a spawn or a resume.                         *)

Tip == Len(versions)
edit == edits < MaxEdits /\ edits' = edits + 1

RoleCommitted(A, task) ==
    /\ edit
    /\ versions' = Append(versions, [allow |-> A, task |-> task])
    /\ tiers' = tiers \cup {perms \cap A}
    /\ UNCHANGED <<turnLife, perms, dflt, sess, child, embJob, first, forgot>>

RoleRetuned(d) ==
    /\ edit
    /\ dflt' = d
    /\ UNCHANGED <<turnLife, perms, versions, sess, child, embJob, first, forgot, tiers>>

PermsSet(P) ==
    /\ edit
    /\ perms' = P
    /\ tiers' = tiers \cup {P \cap versions[Tip].allow}
    /\ UNCHANGED <<turnLife, versions, dflt, sess, child, embJob, first, forgot>>

-----------------------------------------------------------------------------
(* prepareSpawnContext.                                                    *)

\* Variant: the role is read again when the bake begins.
bakeFresh(ws, tip, agentScope) == ws \cap versions[Tip].allow \cap agentScope

\* The bake: what workspace, role and agent all allow, from the rows as they were
\* read.  A resume passes no override of the agent's.
bake(ws, tip, agentScope) == ws \cap versions[tip].allow \cap agentScope

resolves(tip, program) == program = "task" => versions[tip].task

\* The layer-C addon of the built-in `custom` is the caller's, and only a spawn has one.
layers(pin, program, op, addon) ==
    [version |-> pin, program |-> program, op |-> op, addon |-> program = "custom" /\ addon]

\* A dial: the session's own, or else the role's.
effective(job) == [d \in Dials |-> IF job.override[d] = Unset THEN job.dflt[d] ELSE job.override[d]]

\* The child starts, and the rows, the token and the handle are written.
bind(j, row) ==
    LET s == embJob[j].s IN
    /\ sess' = [sess EXCEPT ![s] = [row EXCEPT !.st = "live", !.dial = effective(embJob[j]),
                                               !.baked = TRUE, !.scope = embJob[j].scope]]
    /\ child' = [child EXCEPT ![s] = [on |-> TRUE, with |-> embJob[j].with,
                                    dial |-> effective(embJob[j])]]
    /\ embJob' = [embJob EXCEPT ![j] = IdleJob]

-----------------------------------------------------------------------------
(* Spawn.                                                                  *)

\* executeSpawn to its first await: the pin is the role's commit, and all rows are
\* of this moment.
SpawnBegins(j, s, o, override, agentScope) ==
    /\ embJob[j].at = "idle"
    /\ sess[s].st = "none"
    /\ \A i \in EmbJobs : embJob[i].at # "idle" => embJob[i].s # s
    /\ resolves(Tip, o.program)
    /\ embJob' = [embJob EXCEPT ![j] =
         [at |-> "attach", s |-> s, perms |-> perms, tip |-> Tip, dflt |-> dflt,
          with |-> layers(Tip, o.program, o.op, o.addon), override |-> override,
          scope |-> bake(perms, Tip, agentScope)]]
    /\ UNCHANGED <<turnLife, perms, versions, dflt, sess, child, first, forgot, tiers, edits>>

\* A provider, the worktree or the runtime fails: no row was written.
SpawnFails(j) ==
    /\ embJob[j].at = "attach"
    /\ embJob' = [embJob EXCEPT ![j] = IdleJob]
    /\ UNCHANGED <<turnLife, perms, versions, dflt, sess, child, first, forgot, tiers, edits>>

Spawned(j) ==
    LET job == embJob[j] IN
    /\ job.at = "attach"
    /\ bind(j, [sess[job.s] EXCEPT !.pin = job.with.version, !.program = job.with.program,
                                   !.op = job.with.op, !.override = job.override])
    /\ first' = [first EXCEPT ![job.s] = job.with]
    /\ UNCHANGED <<turnLife, perms, versions, dflt, forgot, tiers, edits>>

-----------------------------------------------------------------------------
(* Resume.                                                                 *)

\* An ended session of either runtime, or the next turn of a turn-lifetime one.
resumable(s) == \/ sess[s].st = "ended"
                \/ sess[s].st = "live" /\ turnLife /\ ~child[s].on

\* performResume to the repair of the transcript.
ResumeBegins(j, s) ==
    /\ embJob[j].at = "idle"
    /\ resumable(s)
    /\ embJob' = [embJob EXCEPT ![j] =
         [IdleJob EXCEPT !.at = "repair", !.s = s, !.perms = perms, !.tip = Tip, !.dflt = dflt,
                         !.override = sess[s].override,
                         !.with = layers(sess[s].pin, sess[s].program, sess[s].op, FALSE)]]
    /\ UNCHANGED <<turnLife, perms, versions, dflt, sess, child, first, forgot, tiers, edits>>

\* Variant: the role is embodied at its current commit.
ResumePreparesTip(j) ==
    /\ embJob[j].at = "repair"
    /\ embJob' = [embJob EXCEPT ![j].at = "resume", ![j].with.version = embJob[j].tip,
                                ![j].scope = bake(embJob[j].perms, embJob[j].tip, Verbs)]
    /\ UNCHANGED <<turnLife, perms, versions, dflt, sess, child, first, forgot, tiers, edits>>

\* prepareSpawnContext: a wake-program that the pinned content lacks throws.
ResumePrepares(j) ==
    LET job == embJob[j] IN
    /\ job.at = "repair"
    /\ embJob' = [embJob EXCEPT ![j] =
         IF resolves(job.with.version, job.with.program)
         THEN [job EXCEPT !.at = "resume", !.scope = bake(job.perms, job.tip, Verbs)]
         ELSE IdleJob]
    /\ UNCHANGED <<turnLife, perms, versions, dflt, sess, child, first, forgot, tiers, edits>>

\* Variant: the row keeps the model and the effort of the last wake.
ResumedQuietly(j) ==
    LET s == embJob[j].s IN
    /\ embJob[j].at = "resume"
    /\ sess' = [sess EXCEPT ![s].st = "live", ![s].baked = TRUE, ![s].scope = embJob[j].scope]
    /\ child' = [child EXCEPT ![s] = [on |-> TRUE, with |-> embJob[j].with,
                                    dial |-> effective(embJob[j])]]
    /\ embJob' = [embJob EXCEPT ![j] = IdleJob]
    /\ UNCHANGED <<turnLife, perms, versions, dflt, first, forgot, tiers, edits>>

Resumed(j) ==
    /\ embJob[j].at = "resume"
    /\ bind(j, sess[embJob[j].s])
    /\ UNCHANGED <<turnLife, perms, versions, dflt, first, forgot, tiers, edits>>

\* The runtime does not come up; a provider thread that is missing ends the session.
ResumeFails(j, gone) ==
    LET s == embJob[j].s IN
    /\ embJob[j].at \in {"repair", "resume"}
    /\ gone => embJob[j].at = "resume"
    /\ sess' = IF gone THEN [sess EXCEPT ![s].st = "ended"] ELSE sess
    /\ child' = IF gone THEN [child EXCEPT ![s] = NoProc] ELSE child
    /\ embJob' = [embJob EXCEPT ![j] = IdleJob]
    /\ UNCHANGED <<turnLife, perms, versions, dflt, first, forgot, tiers, edits>>

-----------------------------------------------------------------------------
(* The session.                                                            *)

\* Variant: the dials that the change leaves out are cleared.
recordedClearing(s, change) == change

\* recordDialOverrides.
recorded(s, change) ==
    [d \in Dials |-> IF change[d] = Unset THEN sess[s].override[d] ELSE change[d]]

merged(old, change) == [d \in Dials |-> IF change[d] = Unset THEN old[d] ELSE change[d]]

\* POST /sessions/:id/config: recorded, and pushed to a child that takes it.
Reconfigure(s, change) ==
    LET live == child[s].on /\ ~turnLife IN
    /\ edit
    /\ sess[s].st # "none"
    /\ change # NoDials
    /\ sess' = [sess EXCEPT ![s].override = recorded(s, change),
                            ![s].dial = IF live THEN merged(@, change) ELSE @]
    /\ child' = IF live THEN [child EXCEPT ![s].dial = merged(@, change)] ELSE child
    /\ UNCHANGED <<turnLife, perms, versions, dflt, embJob, first, forgot, tiers>>

\* The end of a session takes its token; a turn that ends leaves both.
SessEnds(s) == /\ sess[s].st = "live"
               /\ sess' = [sess EXCEPT ![s].st = "ended"]
               /\ child' = [child EXCEPT ![s] = NoProc]
               /\ UNCHANGED <<turnLife, perms, versions, dflt, embJob, first, forgot, tiers, edits>>

TurnEnds(s) == /\ turnLife /\ child[s].on
               /\ child' = [child EXCEPT ![s] = NoProc]
               /\ UNCHANGED <<turnLife, perms, versions, dflt, sess, embJob, first, forgot, tiers, edits>>

\* A restart: the children and what was in flight are gone, and the boot rebuilds the
\* rows of sessions without the op-level layer and the overrides, which come back
\* empty.  The boot's reaper ends what it ends in a step of its own (SessEnds).
EmbRestart ==
    /\ edit
    /\ child' = [s \in EmbSessions |-> NoProc]
    /\ embJob' = [j \in EmbJobs |-> IdleJob]
    /\ sess' = [s \in EmbSessions |-> [sess[s] EXCEPT !.op = FALSE, !.override = NoDials]]
    /\ forgot' = forgot \cup {s \in EmbSessions : sess[s].st # "none"}
    /\ UNCHANGED <<turnLife, perms, versions, dflt, first, tiers>>

\* authorizeCommand: the baked scope alone; without one, role and workspace as they are.
commandsOf(s) == IF sess[s].st # "live" THEN {}
                 ELSE IF sess[s].baked THEN sess[s].scope
                 ELSE versions[Tip].allow \cap perms

-----------------------------------------------------------------------------
EmbNext ==
    \/ \E A \in SUBSET Verbs, task \in BOOLEAN : RoleCommitted(A, task)
    \/ \E d \in DialSettings : RoleRetuned(d)
    \/ \E P \in SUBSET Verbs : PermsSet(P)
    \/ \E j \in EmbJobs, s \in EmbSessions, o \in Openings,
          override \in DialSettings, A \in SUBSET Verbs : SpawnBegins(j, s, o, override, A)
    \/ \E j \in EmbJobs : SpawnFails(j) \/ Spawned(j) \/ ResumePrepares(j) \/ Resumed(j)
    \/ \E j \in EmbJobs, s \in EmbSessions : ResumeBegins(j, s)
    \/ \E j \in EmbJobs, gone \in BOOLEAN : ResumeFails(j, gone)
    \/ \E s \in EmbSessions, change \in DialSettings : Reconfigure(s, change)
    \/ \E s \in EmbSessions : SessEnds(s) \/ TurnEnds(s)
    \/ EmbRestart

EmbSpec == EmbInit /\ [][EmbNext]_embVars

-----------------------------------------------------------------------------
(* Properties.                                                             *)

\* A session comes back as it was spawned, whatever its role became meanwhile: the
\* same content and the same opening move, which that content still has.  The op-level
\* layer comes back as well until the server is restarted; after that it is always
\* gone, also from a session that is ended and resumed only later.
ResumesSame == \A s \in EmbSessions :
    child[s].on => /\ child[s].with = [first[s] EXCEPT !.addon = child[s].with.addon,
                                                     !.op = IF s \in forgot THEN FALSE ELSE @]
                   /\ resolves(child[s].with.version, child[s].with.program)

\* The header is honest: the model and effort of a session's row are those that its
\* child runs with, through resumes, edits of the role and reconfigures.
HeaderHonest == \A s \in EmbSessions : child[s].on => sess[s].dial = child[s].dial

\* The commands of a session are of one moment: workspace and role allowed all of
\* them together, never one of them before a change and the other after it.
OneMoment == \A s \in EmbSessions : \E T \in tiers : commandsOf(s) \subseteq T

=============================================================================
