----------------------- MODULE SessionLifecycleProofs -----------------------
(***************************************************************************)
(* Proofs about SessionLifecycle, for every role, ceiling, number of       *)
(* handlers and bound.  IInv is the inductive invariant: the properties    *)
(* themselves, the typing, and what waiting handlers and session rows know *)
(* of the children they name.                                              *)
(***************************************************************************)
EXTENDS SessionLifecycle, FiniteSetTheorems, TLAPS

USE DEF None

LEMMA SessionsFinite == ASSUME NEW S \in SUBSET Sessions
                        PROVE  IsFiniteSet(S) /\ Cardinality(S) \in Nat
<1>1. IsFiniteSet(Sessions)
  BY FS_Interval, BoundAssumption DEF Sessions
<1>2. IsFiniteSet(S)
  BY <1>1, FS_Subset
<1> QED BY <1>2, FS_CardinalityType

LEMMA InitIInv == Init => IInv
<1> SUFFICES ASSUME Init PROVE IInv
  OBVIOUS
<1> USE DEF Init, Idle, NotEnded
<1>1. TypeOK
  BY BoundAssumption DEF TypeOK, Rows, Children, Requests, Waits, Attaches, Reapers
<1>2. WaitsOK /\ ChildrenOK
  BY DEF WaitsOK, WaitOK, ChildrenOK, Exists
<1>3. HandlesAgree /\ KilledChildUnreachable /\ ReaperOwed
  BY DEF HandlesAgree, KilledChildUnreachable, ReaperOwed, Active, Exists
<1>4. AgentRowCeiling /\ FlaggedByReaper
  BY BoundAssumption DEF AgentRowCeiling, FlaggedByReaper
<1> QED BY <1>1, <1>2, <1>3, <1>4 DEF IInv

-----------------------------------------------------------------------------
(* A step that only moves waiting handlers, or adds an agent row below the *)
(* ceiling, keeps the invariant when what the handler now waits with is    *)
(* well formed and no start-up is added.                                   *)

LEMMA WaitingStep ==
    ASSUME IInv, NEW r \in Reqs, NEW w \in Requests,
           WaitOK(w), w.at # "startup",
           req' = [req EXCEPT ![r] = w],
           agents' \in 0 .. MaxAgents, Persistent => agents' <= Ceiling,
           UNCHANGED <<session, proc, registry, token, clock, restarts, hist>>
    PROVE  IInv'
<1>1. TypeOK'
  BY DEF IInv, TypeOK
<1>2. WaitsOK'
  <2>1. ASSUME NEW q \in Reqs PROVE WaitOK(req[q])'
    <3>1. CASE q = r
      BY <3>1 DEF IInv, TypeOK, WaitOK, Exists
    <3>2. CASE q # r
      BY <3>2 DEF IInv, TypeOK, WaitsOK, WaitOK, Exists
    <3> QED BY <3>1, <3>2
  <2>2. ASSUME NEW p \in Reqs, NEW q \in Reqs, p # q,
               req'[p].at = "startup", req'[q].at = "startup"
        PROVE  req'[p].proc # req'[q].proc
    BY <2>2 DEF IInv, TypeOK, WaitsOK
  <2> QED BY <2>1, <2>2 DEF WaitsOK
<1>3. ChildrenOK' /\ HandlesAgree' /\ KilledChildUnreachable'
  BY DEF IInv, ChildrenOK, HandlesAgree, KilledChildUnreachable, Exists, Active
<1>4. ReaperOwed' /\ FlaggedByReaper' /\ AgentRowCeiling'
  BY DEF IInv, ReaperOwed, FlaggedByReaper, AgentRowCeiling, Exists, Active, Ended
<1> QED BY <1>1, <1>2, <1>3, <1>4 DEF IInv

\* The waits that requests start with.
LEMMA AttachOK == ASSUME NEW a \in Agents, NEW kick \in Attaches
                  PROVE  /\ Attach(a, kick) \in Requests
                         /\ WaitOK(Attach(a, kick)) /\ Attach(a, kick).at # "startup"
BY BoundAssumption DEF Attach, Waiting, Requests, Waits, Attaches, Agents, WaitOK

LEMMA WaitingOK ==
    ASSUME TypeOK, NEW s \in Sessions, Exists(s), NEW kick \in Attaches,
           NEW at \in {"resume", "backoff"}
    PROVE  LET w == Waiting(at, kick, session[s].agent, s)
           IN  w \in Requests /\ WaitOK(w) /\ w.at = at /\ w.tries = 0
<1>1. session[s].agent \in Agents
  BY BoundAssumption DEF TypeOK, Rows, Exists, Agents
<1> QED
  BY <1>1, BoundAssumption DEF Waiting, Requests, Waits, Attaches, Agents, Sessions, WaitOK

LEMMA resumeOrElseOK ==
    ASSUME TypeOK, NEW s \in Sessions, Exists(s), NEW kick \in Attaches
    PROVE  /\ resumeOrElse(s, kick) \in Requests
           /\ WaitOK(resumeOrElse(s, kick)) /\ resumeOrElse(s, kick).at # "startup"
<1>1. session[s].agent \in Agents
  BY BoundAssumption DEF TypeOK, Rows, Exists, Agents
<1> QED BY <1>1, AttachOK, WaitingOK DEF resumeOrElse

LEMMA IdleOK == Idle \in Requests /\ WaitOK(Idle) /\ Idle.at # "startup"
BY BoundAssumption DEF Idle, Requests, Waits, Attaches, WaitOK

LEMMA respawnOK ==
    ASSUME NEW w \in Requests, WaitOK(w), w.at \in {"backoff", "respawn"}
    PROVE  /\ bootFailed(w) \in Requests /\ WaitOK(bootFailed(w))
           /\ bootFailed(w).at # "startup"
           /\ respawnOnce(w) \in Requests /\ WaitOK(respawnOnce(w))
           /\ respawnOnce(w).at # "startup"
<1>1. /\ bootFailed(w) \in Requests /\ WaitOK(bootFailed(w))
      /\ bootFailed(w).at # "startup"
  <2>1. CASE w.tries < Retries
    <3> DEFINE v == [w EXCEPT !.at = "backoff", !.tries = @ + 1]
    <3>1. bootFailed(w) = v
      BY <2>1 DEF bootFailed
    <3>2. w.tries + 1 \in 0 .. Retries
      BY <2>1, BoundAssumption DEF Requests
    <3>3. v \in Requests
      BY <3>2 DEF Requests, Waits
    <3>4. v.at = "backoff" /\ v.agent = w.agent /\ v.sess = w.sess
      BY DEF Requests
    <3> HIDE DEF v
    <3> QED BY <3>1, <3>3, <3>4 DEF WaitOK
  <2>2. CASE ~(w.tries < Retries)
    BY <2>2, IdleOK DEF bootFailed
  <2> QED BY <2>1, <2>2
<1>2. respawnOnce(w) \in Requests /\ WaitOK(respawnOnce(w)) /\ respawnOnce(w).at # "startup"
  BY <1>1 DEF respawnOnce, Requests, Waits, WaitOK
<1> QED BY <1>1, <1>2

LEMMA RequestKeepsIInv ==
    ASSUME IInv, NEW r \in Reqs, Request(r) PROVE IInv'
<1> USE DEF Begin
<1>0. TypeOK /\ AgentRowCeiling
  BY DEF IInv
<1>1. CASE SpawnReuse(r)
  <2>1. PICK a \in findReusableSessionlessAgent : req' = [req EXCEPT ![r] = Attach(a, "kick")]
    BY <1>1 DEF SpawnReuse
  <2>2. a \in Agents
    BY <1>0, BoundAssumption DEF TypeOK, findReusableSessionlessAgent, Agents
  <2> QED BY <1>0, <1>1, <2>1, <2>2, AttachOK, WaitingStep
          DEF SpawnReuse, TypeOK, AgentRowCeiling, Attaches
<1>2. CASE SpawnNew(r)
  <2>1. agents + 1 \in Agents /\ agents' = agents + 1
    BY <1>0, <1>2, BoundAssumption DEF SpawnNew, TypeOK, Agents
  <2>2. Persistent => agents' <= Ceiling
    BY <1>0, <1>2, <2>1, BoundAssumption DEF SpawnNew, mayCreateAgent, TypeOK
  <2>3. agents' \in 0 .. MaxAgents
    BY <2>1, BoundAssumption DEF Agents
  <2> QED BY <1>2, <2>1, <2>2, <2>3, AttachOK, WaitingStep DEF SpawnNew, Attaches
<1>3. ASSUME NEW s \in Sessions, ResumeEnded(r, s) PROVE IInv'
  BY <1>0, <1>3, WaitingOK, WaitingStep
     DEF ResumeEnded, Ended, TypeOK, AgentRowCeiling, Attaches
<1>4. ASSUME NEW s \in Sessions, ConfirmResume(r, s) PROVE IInv'
  BY <1>0, <1>4, resumeOrElseOK, WaitingStep
     DEF ConfirmResume, Ended, TypeOK, AgentRowCeiling, Attaches
<1>5. ASSUME NEW s \in Sessions, ResumeTurn(r, s) PROVE IInv'
  BY <1>0, <1>5, WaitingOK, WaitingStep
     DEF ResumeTurn, Active, TypeOK, AgentRowCeiling, Attaches
<1>6. ASSUME NEW s \in Sessions, Cycle(r, s) PROVE IInv'
  BY <1>0, <1>6, WaitingOK, respawnOK, WaitingStep
     DEF Cycle, Active, TypeOK, AgentRowCeiling, Attaches
<1>7. ASSUME NEW a \in Agents, Wake(r, a) PROVE IInv'
  <2>1. CASE latestShutdownIfTip(a) = {}
    BY <1>0, <1>7, <2>1, AttachOK, WaitingStep
       DEF Wake, TypeOK, AgentRowCeiling, Attaches
  <2>2. CASE latestShutdownIfTip(a) # {}
    <3>1. PICK s \in latestShutdownIfTip(a) :
              req' = [req EXCEPT ![r] = resumeOrElse(s, "kick")]
      BY <1>7, <2>2 DEF Wake
    <3>2. s \in Sessions /\ Exists(s)
      BY DEF latestShutdownIfTip, Ended
    <3> QED BY <1>0, <1>7, <3>1, <3>2, resumeOrElseOK, WaitingStep
            DEF Wake, TypeOK, AgentRowCeiling, Attaches
  <2> QED BY <2>1, <2>2
<1> QED BY <1>1, <1>2, <1>3, <1>4, <1>5, <1>6, <1>7 DEF Request

-----------------------------------------------------------------------------
(* Steps on which a session ends, or its children grow older.              *)

\* Children keep their session; only a pending exit callback can run; only a
\* child with a pending callback is signalled.
ChildrenAge ==
    /\ proc' \in [Procs -> Children]
    /\ \A p \in Procs :
        /\ proc'[p].sess = proc[p].sess
        /\ proc'[p].st = "none" <=> proc[p].st = "none"
        /\ proc'[p].st = "signalled" => \/ proc[p].st = "signalled"
                                        \/ proc[p].handler = "pending"
        /\ \/ proc'[p].handler = proc[p].handler
           \/ proc[p].handler = "pending" /\ proc'[p].handler = "ran"

LEMMA AgeKeepsWaits ==
    ASSUME WaitsOK, ChildrenAge, NEW w, WaitOK(w),
           \A s \in Sessions : Exists(s) => Exists(s)'
    PROVE  /\ w.at # "idle" => w.agent \in Agents
           /\ w.at \notin {"idle", "attach"} => w.sess \in Sessions /\ Exists(w.sess)'
           /\ w.at = "startup" => /\ w.proc \in Procs
                                  /\ proc'[w.proc].sess = w.sess
                                  /\ proc'[w.proc].handler = "none"
                                  /\ proc'[w.proc].st \notin {"none", "signalled"}
BY DEF ChildrenAge, WaitOK

LEMMA EndingStep ==
    ASSUME IInv, NEW s \in Sessions, NEW by \in Reapers, NEW wakes \in BOOLEAN,
           \/ endSession(s, by, wakes)
           \/ UNCHANGED <<session, clock, token, hist>>,
           ChildrenAge,
           registry' \in [Sessions -> 0 .. MaxProcs],
           \A t \in Sessions : registry'[t] # None =>
                /\ registry'[t] = registry[t]
                /\ proc'[registry[t]].handler = "pending"
                /\ proc'[registry[t]].st # "signalled",
           \A p \in Procs : \/ proc'[p].handler = proc[p].handler
                             \/ Lifetime = "turn"
                             \/ \A t \in Sessions : session[t].pid = p => ~Active(t)',
           req' \in [Reqs -> Requests],
           NEW w, WaitOK(w), w.at # "startup",
           \A r \in Reqs : req'[r] = req[r] \/ req'[r] = w,
           UNCHANGED <<agents, restarts>>
    PROVE  IInv'
<1>0. TypeOK /\ WaitsOK /\ ChildrenOK /\ HandlesAgree /\ ReaperOwed
      /\ FlaggedByReaper /\ AgentRowCeiling
  BY DEF IInv
<1>1. \* What ending a session does to the rows.
      /\ session' \in [Sessions -> Rows] /\ clock' \in Nat
      /\ token' \in [Sessions -> 0 .. MaxProcs]
      /\ hist' \in [Sessions -> [by : Reapers, woken : BOOLEAN]]
      /\ \A t \in Sessions :
            /\ session'[t].agent = session[t].agent
            /\ session'[t].pid = session[t].pid
            /\ session'[t].was_live = session[t].was_live
            /\ \/ session'[t].ended_at = session[t].ended_at /\ hist'[t] = hist[t]
                  /\ token'[t] = token[t]
               \/ Active(t) /\ session'[t].ended_at # 0 /\ token'[t] = None
  <2>1. CASE endSession(s, by, wakes) /\ Active(s)
    <3>1. clock' = clock + 1 /\ clock' \in Nat /\ clock' # 0
      BY <1>0, <2>1 DEF endSession, TypeOK
    <3>2. session' = [session EXCEPT ![s].ended_at = clock']
      BY <2>1, <3>1 DEF endSession
    <3>3. token' = [token EXCEPT ![s] = None]
          /\ hist' = [hist EXCEPT ![s] = [by |-> by, woken |-> wakes]]
      BY <2>1 DEF endSession
    <3>4. session' \in [Sessions -> Rows]
      BY <1>0, <3>1, <3>2 DEF TypeOK, Rows
    <3>5. /\ token' \in [Sessions -> 0 .. MaxProcs]
          /\ hist' \in [Sessions -> [by : Reapers, woken : BOOLEAN]]
      BY <1>0, <3>3, BoundAssumption DEF TypeOK
    <3>6. ASSUME NEW t \in Sessions, t # s
          PROVE  session'[t] = session[t] /\ hist'[t] = hist[t] /\ token'[t] = token[t]
      BY <1>0, <3>2, <3>3, <3>6 DEF TypeOK
    <3>7. /\ session'[s].agent = session[s].agent
          /\ session'[s].pid = session[s].pid
          /\ session'[s].was_live = session[s].was_live
          /\ session'[s].ended_at # 0 /\ token'[s] = None
      BY <1>0, <3>1, <3>2, <3>3 DEF TypeOK, Rows
    <3> QED BY <2>1, <3>1, <3>4, <3>5, <3>6, <3>7
  <2>2. CASE UNCHANGED <<session, clock, token, hist>>
    BY <1>0, <2>2 DEF TypeOK
  <2> QED BY <2>1, <2>2 DEF endSession
<1>2. TypeOK'
  BY <1>0, <1>1 DEF TypeOK, ChildrenAge
<1>3. \A t \in Sessions : /\ Exists(t)' <=> Exists(t)
                          /\ Active(t)' => Active(t)
  BY <1>1 DEF Exists, Active
<1>4. WaitsOK'
  <2>1. ASSUME NEW r \in Reqs PROVE WaitOK(req[r])'
    <3>1. WaitOK(req'[r])
      <4>1. WaitOK(req[r])
        BY <1>0 DEF WaitsOK
      <4> QED BY <4>1 DEF WaitOK
    <3> QED BY <1>0, <1>3, <3>1, AgeKeepsWaits DEF WaitOK
  <2>2. ASSUME NEW r \in Reqs, NEW q \in Reqs, r # q,
               req'[r].at = "startup", req'[q].at = "startup"
        PROVE  req'[r].proc # req'[q].proc
    BY <1>0, <2>2 DEF WaitsOK
  <2> QED BY <2>1, <2>2 DEF WaitsOK
<1>5. ChildrenOK'
  <2>1. ASSUME NEW t \in Sessions, Exists(t)'
        PROVE  /\ session'[t].pid \in Procs
               /\ proc'[session'[t].pid].sess = t
               /\ proc'[session'[t].pid].handler # "none"
    BY <1>0, <1>1, <1>3, <2>1 DEF ChildrenOK, ChildrenAge
  <2>2. ASSUME NEW t \in Sessions, registry'[t] # None
        PROVE  proc'[registry'[t]].sess = t /\ proc'[registry'[t]].handler = "pending"
    <3>1. registry[t] \in Procs
      BY <1>0, <2>2, BoundAssumption DEF TypeOK, Procs
    <3> QED BY <1>0, <2>2, <3>1 DEF ChildrenOK, ChildrenAge
  <2>3. ASSUME NEW p \in Procs
        PROVE  /\ proc'[p].st = "none" => proc'[p].handler = "none"
               /\ proc'[p].st # "none" => proc'[p].sess \in Sessions
    BY <1>0, <2>3 DEF ChildrenOK, ChildrenAge
  <2> QED BY <2>1, <2>2, <2>3 DEF ChildrenOK
<1>6. HandlesAgree' /\ KilledChildUnreachable'
  <2>1. ASSUME NEW t \in Sessions, token'[t] # None
        PROVE  Active(t)' /\ token'[t] = session'[t].pid
    BY <1>0, <1>1, <2>1 DEF HandlesAgree, Active, Exists
  <2>2. ASSUME NEW t \in Sessions, registry'[t] # None
        PROVE  registry'[t] = session'[t].pid /\ proc'[registry'[t]].st # "signalled"
    BY <1>0, <1>1, <2>2 DEF HandlesAgree
  <2> QED BY <2>1, <2>2 DEF HandlesAgree, KilledChildUnreachable
<1>7. ReaperOwed'
  <2> SUFFICES ASSUME Lifetime = "session", NEW t \in Sessions, Active(t)'
               PROVE  proc'[session'[t].pid].handler \in {"pending", "lost"}
    BY DEF ReaperOwed
  <2>1. Active(t) /\ session'[t].pid = session[t].pid /\ session[t].pid \in Procs
    BY <1>0, <1>1, <1>3 DEF ChildrenOK, Active
  <2> QED BY <1>0, <2>1 DEF ReaperOwed
<1>8. FlaggedByReaper'
  <2> SUFFICES ASSUME Lifetime = "session", NEW t \in Sessions, session'[t].was_live
               PROVE  Ended(t)' /\ hist'[t].by = "reap"
    BY DEF FlaggedByReaper
  <2>1. Ended(t) /\ hist[t].by = "reap"
    BY <1>0, <1>1 DEF FlaggedByReaper
  <2> QED BY <1>1, <2>1 DEF Ended, Exists, Active
<1>9. AgentRowCeiling'
  BY <1>0 DEF AgentRowCeiling
<1> QED BY <1>2, <1>4, <1>5, <1>6, <1>7, <1>8, <1>9 DEF IInv

-----------------------------------------------------------------------------
(* Steps that give a session a child: attach and revive.                   *)

LEMMA BindStep ==
    ASSUME IInv, NEW s \in Sessions, NEW p \in Procs, NEW r \in Reqs, NEW x \in Rows,
           x.agent # None, x.pid = p, x.ended_at = 0, ~x.was_live,
           session' = [session EXCEPT ![s] = x],
           bindLiveSession(s, p),
           \/ proc[p].st = "none"
           \/ req[r].at = "startup" /\ req[r].proc = p,
           proc[p].handler = "none", proc[p].st # "signalled",
           hist' \in [Sessions -> [by : Reapers, woken : BOOLEAN]],
           \A t \in Sessions : t # s => hist'[t] = hist[t],
           NEW w \in Requests, WaitOK(w)', w.at # "startup",
           req' = [req EXCEPT ![r] = w],
           UNCHANGED <<agents, clock, restarts>>
    PROVE  IInv'
<1>0. TypeOK /\ WaitsOK /\ ChildrenOK /\ HandlesAgree /\ KilledChildUnreachable
      /\ ReaperOwed /\ FlaggedByReaper /\ AgentRowCeiling
  BY DEF IInv
<1> DEFINE st == IF proc[p].st = "none" THEN "running" ELSE proc[p].st
<1>1. /\ token' = [token EXCEPT ![s] = p]
      /\ registry' = [registry EXCEPT ![s] = p]
      /\ proc' = [proc EXCEPT ![p] = [st |-> st, sess |-> s, handler |-> "pending"]]
  BY <1>0 DEF bindLiveSession, TypeOK
<1>2. /\ st \in {"none", "running", "signalled", "leaving", "dead"}
      /\ st # "none" /\ st # "signalled"
  BY <1>0 DEF TypeOK, Children
<1> HIDE DEF st
<1>3. s \in 0 .. MaxSessions /\ p \in 0 .. MaxProcs /\ p # None
  BY BoundAssumption DEF Sessions, Procs
<1>4. TypeOK'
  <2>1. session' \in [Sessions -> Rows]
    BY <1>0 DEF TypeOK
  <2>2. /\ proc' \in [Procs -> Children]
        /\ registry' \in [Sessions -> 0 .. MaxProcs]
        /\ token' \in [Sessions -> 0 .. MaxProcs]
    BY <1>0, <1>1, <1>2, <1>3 DEF TypeOK, Children
  <2>3. req' \in [Reqs -> Requests]
    BY <1>0 DEF TypeOK
  <2> QED BY <1>0, <2>1, <2>2, <2>3 DEF TypeOK
<1>5. /\ session'[s] = x
      /\ token'[s] = p /\ registry'[s] = p
      /\ proc'[p] = [st |-> st, sess |-> s, handler |-> "pending"]
      /\ Exists(s)' /\ Active(s)'
  BY <1>0, <1>1, <1>3 DEF TypeOK, Exists, Active
<1>6. \A t \in Sessions : t # s => /\ session'[t] = session[t]
                                   /\ token'[t] = token[t] /\ registry'[t] = registry[t]
                                   /\ Exists(t)' = Exists(t) /\ Active(t)' = Active(t)
  BY <1>0, <1>1 DEF TypeOK, Exists, Active
<1>7. \A q \in Procs : q # p => proc'[q] = proc[q]
  BY <1>0, <1>1 DEF TypeOK
<1>8. \* The child is nobody else's.
      \A t \in Sessions : /\ Exists(t) => session[t].pid # p
                          /\ registry[t] # None => registry[t] # p
  BY <1>0 DEF ChildrenOK
<1>9. WaitsOK'
  <2>1. ASSUME NEW q \in Reqs, q # r PROVE WaitOK(req[q])'
    <3>1. req'[q] = req[q] /\ WaitOK(req[q])
      BY <1>0, <2>1 DEF WaitsOK, TypeOK
    <3>2. req[q].at = "startup" => req[q].proc # p
      BY <1>0, <2>1, <3>1 DEF WaitsOK, WaitOK
    <3> QED BY <1>5, <1>6, <1>7, <3>1, <3>2 DEF WaitOK
  <2>2. req'[r] = w
    BY <1>0 DEF TypeOK
  <2>3. ASSUME NEW y \in Reqs, NEW q \in Reqs, y # q,
               req'[y].at = "startup", req'[q].at = "startup"
        PROVE  req'[y].proc # req'[q].proc
    BY <1>0, <2>3 DEF WaitsOK, TypeOK
  <2> QED BY <2>1, <2>2, <2>3 DEF WaitsOK, WaitOK
<1>10. ChildrenOK'
  <2>1. ASSUME NEW t \in Sessions, Exists(t)'
        PROVE  /\ session'[t].pid \in Procs
               /\ proc'[session'[t].pid].sess = t
               /\ proc'[session'[t].pid].handler # "none"
    BY <1>0, <1>5, <1>6, <1>7, <1>8, <2>1 DEF ChildrenOK
  <2>2. ASSUME NEW t \in Sessions, registry'[t] # None
        PROVE  proc'[registry'[t]].sess = t /\ proc'[registry'[t]].handler = "pending"
    <3>1. registry'[t] \in Procs
      BY <1>4, <2>2, BoundAssumption DEF TypeOK, Procs
    <3> QED BY <1>0, <1>5, <1>6, <1>7, <1>8, <2>2, <3>1 DEF ChildrenOK
  <2>3. ASSUME NEW q \in Procs
        PROVE  /\ proc'[q].st = "none" => proc'[q].handler = "none"
               /\ proc'[q].st # "none" => proc'[q].sess \in Sessions
    BY <1>0, <1>2, <1>5, <1>7, <2>3 DEF ChildrenOK
  <2> QED BY <2>1, <2>2, <2>3 DEF ChildrenOK
<1>11. HandlesAgree'
  BY <1>0, <1>5, <1>6 DEF HandlesAgree
<1>12. KilledChildUnreachable'
  <2> SUFFICES ASSUME NEW t \in Sessions, registry'[t] # None
               PROVE  proc'[registry'[t]].st # "signalled"
    BY DEF KilledChildUnreachable
  <2>1. registry'[t] \in Procs
    BY <1>4, BoundAssumption DEF TypeOK, Procs
  <2> QED BY <1>0, <1>2, <1>5, <1>6, <1>7, <1>8, <2>1 DEF KilledChildUnreachable
<1>13. ReaperOwed'
  <2> SUFFICES ASSUME Lifetime = "session", NEW t \in Sessions, Active(t)'
               PROVE  proc'[session'[t].pid].handler \in {"pending", "lost"}
    BY DEF ReaperOwed
  <2>1. CASE t = s
    BY <1>5, <2>1
  <2>2. CASE t # s
    <3>1. Exists(t) /\ Active(t)
      BY <1>6, <2>2 DEF Active
    <3>2. session[t].pid \in Procs /\ session[t].pid # p
      BY <1>0, <1>8, <3>1 DEF ChildrenOK
    <3> QED BY <1>0, <1>6, <1>7, <2>2, <3>1, <3>2 DEF ReaperOwed
  <2> QED BY <2>1, <2>2
<1>14. FlaggedByReaper'
  BY <1>0, <1>5, <1>6 DEF FlaggedByReaper, Ended
<1>15. AgentRowCeiling'
  BY <1>0 DEF AgentRowCeiling
<1> QED BY <1>4, <1>9, <1>10, <1>11, <1>12, <1>13, <1>14, <1>15 DEF IInv

LEMMA ReviveStep ==
    ASSUME IInv, NEW r \in Reqs, NEW p \in Procs,
           req[r].at \in {"resume", "startup"},
           proc[p].st = "none" \/ (req[r].at = "startup" /\ req[r].proc = p),
           revive(req[r].sess, p), Finish(r), UNCHANGED <<agents, clock, restarts>>
    PROVE  IInv'
<1> DEFINE s == req[r].sess
<1>0. TypeOK /\ WaitOK(req[r]) /\ ChildrenOK
  BY DEF IInv, WaitsOK
<1>1. s \in Sessions /\ Exists(s)
  BY <1>0 DEF WaitOK
<1> HIDE DEF s
<1>2. PICK row \in Rows : row = session[s]
  BY <1>0, <1>1 DEF TypeOK
<1> DEFINE x == [row EXCEPT !.ended_at = 0, !.was_live = FALSE, !.pid = p]
<1>3. session' = [session EXCEPT ![s] = x]
  BY <1>2 DEF revive, s
<1>4. /\ x \in Rows /\ x.agent = row.agent /\ x.pid = p
      /\ x.ended_at = 0 /\ ~x.was_live
  <2>1. p \in 0 .. MaxProcs
    BY BoundAssumption DEF Procs
  <2>2. x \in Rows
    BY <2>1 DEF Rows
  <2>3. x.agent = row.agent /\ x.pid = p /\ x.ended_at = 0
    BY DEF Rows
  <2>4. ~x.was_live
    BY DEF Rows
  <2> QED BY <2>2, <2>3, <2>4
<1>5. x.agent # None
  BY <1>1, <1>2, <1>4 DEF Exists
<1> HIDE DEF x
<1>6. /\ hist' \in [Sessions -> [by : Reapers, woken : BOOLEAN]]
      /\ \A t \in Sessions : t # s => hist'[t] = hist[t]
  <2>1. hist' = [hist EXCEPT ![s] = NotEnded]
    BY DEF revive, s
  <2> QED BY <1>0, <2>1 DEF TypeOK, NotEnded, Reapers
<1>7. proc[p].handler = "none" /\ proc[p].st # "signalled"
  BY <1>0 DEF ChildrenOK, WaitOK
<1>8. WaitOK(Idle)' /\ Idle.at # "startup" /\ Idle \in Requests
  BY IdleOK DEF WaitOK, Idle
<1>9. bindLiveSession(s, p) /\ req' = [req EXCEPT ![r] = Idle]
  BY DEF revive, Finish, s
<1> QED BY <1>1, <1>3, <1>4, <1>5, <1>6, <1>7, <1>8, <1>9, BindStep

LEMMA AttachStep ==
    ASSUME IInv, NEW r \in Reqs, NEW s \in Sessions, NEW p \in Procs,
           req[r].at \in {"attach", "respawn"},
           attachSessionToAgent(req[r].agent, s, p),
           NEW w \in Requests, WaitOK(w)', w.at # "startup", req' = [req EXCEPT ![r] = w],
           UNCHANGED <<agents, clock, restarts, hist>>
    PROVE  IInv'
<1>1. TypeOK /\ WaitOK(req[r]) /\ ChildrenOK
  BY DEF IInv, WaitsOK
<1>2. req[r].agent \in Agents
  BY <1>1 DEF WaitOK
<1>3. proc[p].st = "none" /\ proc[p].handler = "none"
  BY <1>1 DEF attachSessionToAgent, FreshProc, ChildrenOK
<1> DEFINE x == [agent |-> req[r].agent, pid |-> p, ended_at |-> 0, was_live |-> FALSE]
<1>4. x \in Rows /\ x.agent # None /\ x.pid = p /\ x.ended_at = 0 /\ ~x.was_live
  BY <1>2, BoundAssumption DEF Rows, Agents, Procs
<1>5. session' = [session EXCEPT ![s] = x]
  BY DEF attachSessionToAgent
<1> HIDE DEF x
<1> QED BY <1>1, <1>3, <1>4, <1>5, BindStep DEF attachSessionToAgent, TypeOK

-----------------------------------------------------------------------------
(* The handlers after an await.                                            *)

\* A codex child is up, and only the handler that waits for it knows it.
LEMMA SpawnStep ==
    ASSUME IInv, NEW r \in Reqs, NEW p \in Procs,
           req[r].at = "resume", proc[p].st = "none",
           proc' = [proc EXCEPT ![p] = [st |-> "running", sess |-> req[r].sess,
                                        handler |-> "none"]],
           req' = [req EXCEPT ![r].at = "startup", ![r].proc = p],
           UNCHANGED <<agents, session, registry, token, clock, restarts, hist>>
    PROVE  IInv'
<1>0. TypeOK /\ WaitsOK /\ ChildrenOK /\ HandlesAgree /\ KilledChildUnreachable
      /\ ReaperOwed /\ FlaggedByReaper /\ AgentRowCeiling
  BY DEF IInv
<1>1. /\ req[r] \in Requests /\ req[r].sess \in Sessions /\ Exists(req[r].sess)
      /\ req[r].agent \in Agents
  BY <1>0 DEF TypeOK, WaitsOK, WaitOK
<1>2. proc[p].handler = "none"
  BY <1>0 DEF ChildrenOK
<1>3. /\ proc'[p] = [st |-> "running", sess |-> req[r].sess, handler |-> "none"]
      /\ \A q \in Procs : q # p => proc'[q] = proc[q]
      /\ proc' \in [Procs -> Children]
  BY <1>0, <1>1 DEF TypeOK, Children, Requests
<1>4. /\ req'[r].at = "startup" /\ req'[r].proc = p
      /\ req'[r].agent = req[r].agent /\ req'[r].sess = req[r].sess
      /\ \A q \in Reqs : q # r => req'[q] = req[q]
      /\ req' \in [Reqs -> Requests]
  <2>1. p \in 0 .. MaxProcs
    BY BoundAssumption DEF Procs
  <2> QED BY <1>0, <1>1, <2>1 DEF TypeOK, Requests, Waits
<1>5. TypeOK'
  BY <1>0, <1>3, <1>4 DEF TypeOK
<1>6. WaitsOK'
  <2>1. \A q \in Reqs : req[q].at = "startup" => req[q].proc # p
    BY <1>0 DEF WaitsOK, WaitOK
  <2>2. WaitOK(req[r])'
    BY <1>1, <1>3, <1>4 DEF WaitOK, Exists
  <2>3. ASSUME NEW q \in Reqs, q # r PROVE WaitOK(req[q])'
    <3>1. WaitOK(req[q]) /\ req'[q] = req[q]
      BY <1>0, <1>4, <2>3 DEF WaitsOK
    <3> QED BY <1>3, <2>1, <3>1 DEF WaitOK, Exists
  <2>4. ASSUME NEW x \in Reqs, NEW q \in Reqs, x # q,
               req'[x].at = "startup", req'[q].at = "startup"
        PROVE  req'[x].proc # req'[q].proc
    BY <1>0, <1>4, <2>1, <2>4 DEF WaitsOK
  <2> QED BY <2>2, <2>3, <2>4 DEF WaitsOK
<1>7. \A t \in Sessions : /\ Exists(t) => session[t].pid # p
                          /\ registry[t] # None => registry[t] # p /\ registry[t] \in Procs
  BY <1>0, <1>2, BoundAssumption DEF ChildrenOK, TypeOK, Procs
<1>8. ChildrenOK'
  BY <1>0, <1>1, <1>3, <1>7 DEF ChildrenOK, Exists
<1>9. HandlesAgree' /\ FlaggedByReaper' /\ AgentRowCeiling'
  BY <1>0 DEF HandlesAgree, FlaggedByReaper, AgentRowCeiling, Active, Exists, Ended
<1>10. KilledChildUnreachable' /\ ReaperOwed'
  BY <1>0, <1>3, <1>7 DEF KilledChildUnreachable, ReaperOwed, ChildrenOK, Active, Exists
<1> QED BY <1>5, <1>6, <1>8, <1>9, <1>10 DEF IInv

\* With the registry and the callbacks untouched, and nobody signalled, what
\* EndingStep asks of them is what the invariant says.
LEMMA KeptHandles ==
    ASSUME IInv, UNCHANGED registry, ChildrenAge,
           \A p \in Procs : /\ proc'[p].handler = proc[p].handler
                            /\ proc'[p].st = "signalled" => proc[p].st = "signalled"
    PROVE  /\ registry' \in [Sessions -> 0 .. MaxProcs]
           /\ \A t \in Sessions : registry'[t] # None =>
                /\ registry'[t] = registry[t]
                /\ proc'[registry[t]].handler = "pending"
                /\ proc'[registry[t]].st # "signalled"
<1>1. \A t \in Sessions : registry[t] # None => registry[t] \in Procs
  BY BoundAssumption DEF IInv, TypeOK, Procs
<1> QED BY <1>1 DEF IInv, TypeOK, ChildrenOK, KilledChildUnreachable

\* A kill takes the child out of the registry as it signals it.
LEMMA KillKeeps ==
    ASSUME IInv, NEW s \in Sessions, Kill(s)
    PROVE  /\ ChildrenAge
           /\ registry' \in [Sessions -> 0 .. MaxProcs]
           /\ \A t \in Sessions : registry'[t] # None =>
                /\ registry'[t] = registry[t]
                /\ proc'[registry[t]].handler = "pending"
                /\ proc'[registry[t]].st # "signalled"
           /\ \A p \in Procs : proc'[p].handler = proc[p].handler
<1>0. TypeOK /\ ChildrenOK /\ KilledChildUnreachable
  BY DEF IInv
<1>1. \A p \in Procs : registry[s] = p => proc[p].handler = "pending"
  BY <1>0, BoundAssumption DEF ChildrenOK, TypeOK, Procs
<1>2. \A p \in Procs :
        /\ proc'[p] \in Children
        /\ proc'[p].sess = proc[p].sess /\ proc'[p].handler = proc[p].handler
        /\ proc'[p].st = proc[p].st \/ (p = registry[s] /\ proc'[p].st = "signalled"
                                         /\ proc[p].st = "running")
  BY <1>0 DEF Kill, TypeOK, Children
<1>3. ChildrenAge
  BY <1>1, <1>2 DEF ChildrenAge, Kill
<1>4. ASSUME NEW t \in Sessions, registry'[t] # None
      PROVE  /\ registry'[t] = registry[t]
             /\ proc'[registry[t]].handler = "pending"
             /\ proc'[registry[t]].st # "signalled"
  <2>1. t # s /\ registry'[t] = registry[t] /\ registry[t] \in Procs
    BY <1>0, <1>4, BoundAssumption DEF Kill, TypeOK, Procs
  <2>2. /\ proc[registry[t]].handler = "pending" /\ proc[registry[t]].sess = t
        /\ proc[registry[t]].st # "signalled"
    BY <1>0, <2>1 DEF ChildrenOK, KilledChildUnreachable, Procs
  <2>3. registry[t] # registry[s]
    BY <1>0, <2>1, <2>2, BoundAssumption DEF ChildrenOK, Procs
  <2> QED BY <1>2, <2>1, <2>2, <2>3
<1>5. registry' \in [Sessions -> 0 .. MaxProcs]
  BY <1>0, BoundAssumption DEF Kill, TypeOK
<1> QED BY <1>2, <1>3, <1>4, <1>5

LEMMA ContinueKeepsIInv ==
    ASSUME IInv, NEW r \in Reqs, Continue(r) PROVE IInv'
<1>0. TypeOK /\ WaitOK(req[r]) /\ WaitsOK /\ ChildrenOK /\ AgentRowCeiling
      /\ req[r] \in Requests
  BY DEF IInv, TypeOK, WaitsOK
<1>1. Idle \in Requests /\ Idle.at # "startup" /\ WaitOK(Idle) /\ WaitOK(Idle)'
  BY IdleOK DEF WaitOK, Idle
<1>2. CASE AttachDone(r)
  <2>1. PICK s \in Sessions, p \in Procs : attachSessionToAgent(req[r].agent, s, p)
    BY <1>2 DEF AttachDone
  <2> QED BY <1>1, <1>2, <2>1, AttachStep DEF AttachDone, Finish
<1>3. CASE AttachFailed(r)
  BY <1>0, <1>1, <1>3, WaitingStep DEF AttachFailed, Finish, TypeOK, AgentRowCeiling
<1>4. CASE ResumeDone(r)
  <2>1. PICK p \in Procs : FreshProc(p) /\ revive(req[r].sess, p)
    BY <1>4 DEF ResumeDone
  <2> QED BY <1>4, <2>1, ReviveStep DEF ResumeDone, FreshProc
<1>5. CASE ResumeStarted(r)
  <2>1. req[r].proc \in Procs
    BY <1>0, <1>5 DEF ResumeStarted, WaitOK
  <2> QED BY <1>5, <2>1, ReviveStep DEF ResumeStarted
<1>6. CASE RespawnFailed(r)
  BY <1>0, <1>6, respawnOK, WaitingStep DEF RespawnFailed, TypeOK, AgentRowCeiling
<1>7. CASE RespawnRetry(r)
  BY <1>0, <1>7, respawnOK, WaitingStep DEF RespawnRetry, TypeOK, AgentRowCeiling
<1>8. CASE RespawnDone(r)
  <2>1. PICK s \in Sessions, p \in Procs : attachSessionToAgent(req[r].agent, s, p)
    BY <1>8 DEF RespawnDone
  <2>2. PICK w \in Requests : /\ w.at = "reseat" /\ w.agent = req[r].agent
                              /\ w.sess = req[r].sess /\ req' = [req EXCEPT ![r] = w]
    <3> DEFINE v == [req[r] EXCEPT !.at = "reseat"]
    <3>1. /\ v \in Requests /\ v.at = "reseat" /\ v.agent = req[r].agent
          /\ v.sess = req[r].sess
      BY <1>0 DEF Requests, Waits
    <3>2. req' = [req EXCEPT ![r] = v]
      BY <1>8 DEF RespawnDone
    <3> QED BY <3>1, <3>2
  <2>3. w.agent \in Agents /\ w.sess \in Sessions /\ Exists(w.sess)
    BY <1>0, <1>8, <2>2 DEF WaitOK, RespawnDone
  <2>4. Exists(w.sess)'
    BY <1>0, <2>1, <2>3 DEF attachSessionToAgent, FreshSession, TypeOK, Exists
  <2>5. WaitOK(w)'
    BY <2>2, <2>3, <2>4 DEF WaitOK
  <2> QED BY <1>8, <2>1, <2>2, <2>5, AttachStep DEF RespawnDone
<1>9. CASE ResumeSpawn(r)
  <2>1. PICK p \in Procs :
          /\ FreshProc(p)
          /\ proc' = [proc EXCEPT ![p] = [st |-> "running", sess |-> req[r].sess,
                                          handler |-> "none"]]
          /\ req' = [req EXCEPT ![r].at = "startup", ![r].proc = p]
    BY <1>9 DEF ResumeSpawn
  <2> QED BY <1>9, <2>1, SpawnStep DEF ResumeSpawn, FreshProc
<1>10. CASE ResumeFailed(r)
  <2>1. req[r].sess \in Sessions /\ req[r].agent \in Agents /\ req[r].attach \in Attaches
    BY <1>0, <1>10 DEF ResumeFailed, WaitOK, Requests
  <2>2. PICK w : /\ req' = [req EXCEPT ![r] = w]
                 /\ w = Idle \/ w = Attach(req[r].agent, req[r].attach)
    BY <1>0, <1>10 DEF ResumeFailed, TypeOK
  <2>3. w \in Requests /\ WaitOK(w) /\ w.at # "startup"
    BY <1>1, <2>1, <2>2, AttachOK
  <2>4. /\ req' \in [Reqs -> Requests]
        /\ \A q \in Reqs : req'[q] = req[q] \/ req'[q] = w
    BY <1>0, <2>2, <2>3 DEF TypeOK
  <2>5. ChildrenAge
    BY <1>0, <1>10 DEF ResumeFailed, ChildrenAge, TypeOK
  <2> QED BY <1>0, <1>10, <2>1, <2>3, <2>4, <2>5, EndingStep, KeptHandles
          DEF ResumeFailed, Reapers
<1>11. CASE Reseat(r)
  <2>1. req[r].sess \in Sessions /\ req[r].agent \in Agents
    BY <1>0, <1>11 DEF Reseat, WaitOK
  <2>2. PICK w : /\ req' = [req EXCEPT ![r] = w]
                 /\ w = Idle \/ w = Attach(req[r].agent, "idle")
    BY <1>0, <1>11 DEF Reseat, superviseCycle, TypeOK
  <2>3. w \in Requests /\ WaitOK(w) /\ w.at # "startup"
    BY <1>1, <2>1, <2>2, AttachOK DEF Attaches
  <2>4. /\ req' \in [Reqs -> Requests]
        /\ \A q \in Reqs : req'[q] = req[q] \/ req'[q] = w
    BY <1>0, <2>2, <2>3 DEF TypeOK
  <2> QED BY <1>11, <2>1, <2>3, <2>4, KillKeeps, EndingStep DEF Reseat, Reapers
<1> QED BY <1>2, <1>3, <1>4, <1>5, <1>6, <1>7, <1>8, <1>9, <1>10, <1>11 DEF Continue

-----------------------------------------------------------------------------
(* Kills, exits, hooks, restarts.                                          *)

LEMMA TerminateKeepsIInv ==
    ASSUME IInv, NEW s \in Sessions, Terminate(s) PROVE IInv'
<1>1. Kill(s) /\ endSession(s, "kill", FALSE) /\ UNCHANGED <<agents, req, restarts>>
  BY DEF Terminate
<1>2. req' \in [Reqs -> Requests] /\ \A r \in Reqs : req'[r] = req[r]
  BY <1>1 DEF IInv, TypeOK
<1>3. "kill" \in Reapers
  BY DEF Reapers
<1> QED BY <1>1, <1>2, <1>3, KillKeeps, IdleOK, EndingStep

LEMMA InjectReapKeepsIInv ==
    ASSUME IInv, NEW s \in Sessions, InjectReap(s) PROVE IInv'
<1>1. endSession(s, "inject", FALSE) /\ UNCHANGED <<agents, proc, registry, req, restarts>>
  BY DEF InjectReap
<1>2. req' \in [Reqs -> Requests] /\ \A r \in Reqs : req'[r] = req[r]
  BY <1>1 DEF IInv, TypeOK
<1>3. ChildrenAge
  BY <1>1 DEF IInv, TypeOK, ChildrenAge
<1>4. "inject" \in Reapers
  BY DEF Reapers
<1> QED BY <1>1, <1>2, <1>3, <1>4, KeptHandles, IdleOK, EndingStep

LEMMA ProcExitsKeepsIInv ==
    ASSUME IInv, NEW p \in Procs, ProcExits(p) PROVE IInv'
<1>0. TypeOK /\ ChildrenOK
  BY DEF IInv
<1>1. /\ UNCHANGED <<agents, session, registry, token, req, clock, restarts, hist>>
      /\ proc' = [proc EXCEPT ![p].st = "dead"]
      /\ proc[p].st # "none"
  BY DEF ProcExits, Live
<1>2. \A q \in Procs : /\ proc'[q] \in Children
                       /\ proc'[q].sess = proc[q].sess
                       /\ proc'[q].handler = proc[q].handler
                       /\ proc'[q].st = proc[q].st \/ (q = p /\ proc'[q].st = "dead")
  BY <1>0, <1>1 DEF TypeOK, Children
<1>3. ChildrenAge
  BY <1>0, <1>1, <1>2 DEF ChildrenAge, TypeOK
<1>4. req' \in [Reqs -> Requests] /\ \A r \in Reqs : req'[r] = req[r]
  BY <1>0, <1>1 DEF TypeOK
<1>5. PICK s \in Sessions : s = proc[p].sess
  BY <1>0, <1>1 DEF ChildrenOK
<1>6. "exit" \in Reapers
  BY DEF Reapers
<1> QED BY <1>1, <1>2, <1>3, <1>4, <1>5, <1>6, KeptHandles, IdleOK, EndingStep

LEMMA SessionEndHookKeepsIInv ==
    ASSUME IInv, NEW p \in Procs, SessionEndHook(p) PROVE IInv'
<1>0. TypeOK /\ ChildrenOK
  BY DEF IInv
<1>1. /\ endSession(proc[p].sess, "hook", TRUE)
      /\ UNCHANGED <<agents, registry, req, restarts>>
      /\ proc' = [proc EXCEPT ![p].st = "leaving"]
      /\ proc[p].st # "none"
  BY DEF SessionEndHook
<1>2. \A q \in Procs : /\ proc'[q] \in Children
                       /\ proc'[q].sess = proc[q].sess
                       /\ proc'[q].handler = proc[q].handler
                       /\ proc'[q].st = proc[q].st \/ (q = p /\ proc'[q].st = "leaving")
  BY <1>0, <1>1 DEF TypeOK, Children
<1>3. ChildrenAge
  BY <1>0, <1>1, <1>2 DEF ChildrenAge, TypeOK
<1>4. req' \in [Reqs -> Requests] /\ \A r \in Reqs : req'[r] = req[r]
  BY <1>0, <1>1 DEF TypeOK
<1>5. proc[p].sess \in Sessions
  BY <1>0, <1>1 DEF ChildrenOK
<1>6. "hook" \in Reapers
  BY DEF Reapers
<1> QED BY <1>1, <1>2, <1>3, <1>4, <1>5, <1>6, KeptHandles, IdleOK, EndingStep

LEMMA ExitHandledKeepsIInv ==
    ASSUME IInv, NEW p \in Procs, ExitHandled(p) PROVE IInv'
<1> DEFINE s == proc[p].sess
<1>0. TypeOK /\ ChildrenOK /\ KilledChildUnreachable
  BY DEF IInv
<1>1. /\ proc[p].st = "dead" /\ proc[p].handler = "pending"
      /\ proc' = [proc EXCEPT ![p].handler = "ran"]
      /\ registry' = [registry EXCEPT ![s] = None]
      /\ \/ endSession(s, "exit", TRUE)
         \/ Lifetime = "turn" /\ UNCHANGED <<session, clock, token, hist>>
      /\ UNCHANGED <<agents, req, restarts>>
  BY DEF ExitHandled
<1>2. s \in Sessions
  BY <1>0, <1>1 DEF ChildrenOK
<1>3. \A q \in Procs : /\ proc'[q] \in Children
                       /\ proc'[q].sess = proc[q].sess /\ proc'[q].st = proc[q].st
                       /\ proc'[q].handler = proc[q].handler
                          \/ (q = p /\ proc'[q].handler = "ran")
  BY <1>0, <1>1 DEF TypeOK, Children
<1>4. ChildrenAge
  BY <1>0, <1>1, <1>3 DEF ChildrenAge, TypeOK
<1>5. req' \in [Reqs -> Requests] /\ \A r \in Reqs : req'[r] = req[r]
  BY <1>0, <1>1 DEF TypeOK
<1>6. registry' \in [Sessions -> 0 .. MaxProcs]
  <2>1. registry \in [Sessions -> 0 .. MaxProcs] /\ None \in 0 .. MaxProcs
    BY <1>0, BoundAssumption DEF TypeOK
  <2> HIDE DEF s
  <2> QED BY <1>1, <2>1
<1>7. ASSUME NEW t \in Sessions, registry'[t] # None
      PROVE  /\ registry'[t] = registry[t]
             /\ proc'[registry[t]].handler = "pending"
             /\ proc'[registry[t]].st # "signalled"
  <2>1. t # s /\ registry'[t] = registry[t] /\ registry[t] \in Procs
    BY <1>0, <1>1, <1>2, <1>7, BoundAssumption DEF TypeOK, Procs
  <2>2. registry[t] # p
    BY <1>0, <2>1 DEF ChildrenOK, Procs
  <2> QED BY <1>0, <1>1, <1>3, <2>1, <2>2 DEF ChildrenOK, KilledChildUnreachable, TypeOK, Procs
<1>8. ASSUME Lifetime # "turn", NEW t \in Sessions, session[t].pid = p PROVE ~Active(t)'
  <2>1. endSession(s, "exit", TRUE)
    BY <1>1, <1>8
  <2>2. Exists(t) => t = s
    BY <1>0, <1>8 DEF ChildrenOK
  <2>3. CASE Active(s)
    <3>1. session' = [session EXCEPT ![s].ended_at = clock + 1] /\ clock + 1 # 0
      BY <1>0, <2>1, <2>3 DEF endSession, TypeOK
    <3>2. session'[s].ended_at = clock + 1 /\ (t # s => session'[t] = session[t])
      BY <1>0, <1>2, <3>1 DEF TypeOK, Rows
    <3> QED BY <2>2, <3>1, <3>2 DEF Active, Exists
  <2>4. CASE ~Active(s)
    BY <2>1, <2>2, <2>4 DEF endSession, Active, Exists
  <2> QED BY <2>3, <2>4
<1>9. \A q \in Procs : \/ proc'[q].handler = proc[q].handler
                       \/ Lifetime = "turn"
                       \/ \A t \in Sessions : session[t].pid = q => ~Active(t)'
  BY <1>3, <1>8
<1>10. "exit" \in Reapers
  BY DEF Reapers
<1> HIDE DEF s
<1> QED BY <1>1, <1>2, <1>4, <1>5, <1>6, <1>7, <1>9, <1>10, IdleOK, EndingStep

\* A restart forgets the waiting handlers and the registry, and flags only rows
\* that it ends.
LEMMA RestartKeepsIInv ==
    ASSUME IInv, NEW dead \in SUBSET {p \in Procs : Live(p)}, Restart(dead)
    PROVE  IInv'
<1> DEFINE R == reaped(dead)
           Rank(s) == Cardinality({t \in R : t <= s})
<1>0. TypeOK /\ WaitsOK /\ ChildrenOK /\ HandlesAgree /\ KilledChildUnreachable
      /\ ReaperOwed /\ FlaggedByReaper /\ AgentRowCeiling
  BY DEF IInv
<1>1. \A s \in Sessions : /\ Rank(s) \in Nat /\ (s \in R => Rank(s) # 0)
                          /\ Cardinality(R) \in Nat
  <2> TAKE s \in Sessions
  <2>1. R \in SUBSET Sessions /\ {t \in R : t <= s} \in SUBSET Sessions
    BY DEF reaped
  <2>2. /\ Cardinality(R) \in Nat /\ Rank(s) \in Nat
        /\ IsFiniteSet({t \in R : t <= s})
    BY <2>1, SessionsFinite
  <2>3. s \in R => s \in {t \in R : t <= s}
    BY BoundAssumption DEF Sessions
  <2> QED BY <2>2, <2>3, FS_EmptySet
<1>2. Cardinality(R) \in Nat
  BY SessionsFinite DEF reaped
<1>3. \A s \in R : s \in Sessions /\ Active(s) /\ Lifetime = "session"
  BY DEF reaped
<1>4. /\ restarts < MaxRestarts /\ restarts' = restarts + 1
      /\ agents' = agents
      /\ proc' = [p \in Procs |->
                    [proc[p] EXCEPT !.st = IF p \in dead THEN "dead" ELSE @,
                                    !.handler = IF proc[p].st # "none" /\ @ # "ran"
                                                THEN "lost" ELSE @]]
      /\ registry' = [s \in Sessions |-> None]
      /\ req' = [r \in Reqs |-> Idle]
      /\ session' = [s \in Sessions |->
            IF s \in R
            THEN [session[s] EXCEPT !.was_live = TRUE, !.ended_at = clock + Rank(s)]
            ELSE [session[s] EXCEPT !.was_live = @ \/ (Lifetime = "turn" /\ Active(s))]]
      /\ clock' = clock + Cardinality(R)
      /\ token' = [s \in Sessions |-> IF s \in R THEN None ELSE token[s]]
      /\ hist' = [s \in Sessions |->
            IF s \in R THEN [by |-> "reap", woken |-> FALSE] ELSE hist[s]]
  BY DEF Restart
<1> HIDE DEF R, Rank
<1>5. ASSUME NEW p \in Procs
      PROVE  /\ proc'[p] \in Children /\ proc'[p].sess = proc[p].sess
             /\ proc'[p].st = "none" <=> proc[p].st = "none"
             /\ proc'[p].handler = IF proc[p].st # "none" /\ proc[p].handler # "ran"
                                   THEN "lost" ELSE proc[p].handler
  <2>1. proc[p] \in Children /\ (p \in dead => proc[p].st # "none")
    BY <1>0 DEF TypeOK, Live
  <2> QED BY <1>4, <2>1 DEF Children
<1>6. ASSUME NEW s \in Sessions
      PROVE  /\ session'[s] \in Rows
             /\ session'[s].agent = session[s].agent /\ session'[s].pid = session[s].pid
             /\ s \in R => session'[s].ended_at # 0
             /\ s \notin R => session'[s].ended_at = session[s].ended_at
             /\ s \notin R /\ Lifetime = "session" =>
                   (session'[s].was_live <=> session[s].was_live)
  <2>1. session[s] \in Rows /\ clock \in Nat
    BY <1>0 DEF TypeOK
  <2>2. CASE s \in R
    <3>1. session'[s] = [session[s] EXCEPT !.was_live = TRUE, !.ended_at = clock + Rank(s)]
      BY <1>4, <2>2
    <3>2. clock + Rank(s) \in Nat /\ clock + Rank(s) # 0
      BY <1>1, <2>1, <2>2
    <3>3. session'[s] \in Rows
      BY <2>1, <3>1, <3>2 DEF Rows
    <3>4. /\ session'[s].agent = session[s].agent /\ session'[s].pid = session[s].pid
          /\ session'[s].ended_at = clock + Rank(s)
      BY <2>1, <3>1 DEF Rows
    <3> QED BY <2>2, <3>2, <3>3, <3>4
  <2>3. CASE s \notin R
    <3> DEFINE flag == session[s].was_live \/ (Lifetime = "turn" /\ Active(s))
    <3>1. session'[s] = [session[s] EXCEPT !.was_live = flag]
      BY <1>4, <2>3
    <3>2. flag \in BOOLEAN /\ (Lifetime = "session" => (flag <=> session[s].was_live))
      OBVIOUS
    <3> HIDE DEF flag
    <3>3. session'[s] \in Rows
      BY <2>1, <3>1, <3>2 DEF Rows
    <3>4. /\ session'[s].agent = session[s].agent /\ session'[s].pid = session[s].pid
          /\ session'[s].ended_at = session[s].ended_at
      BY <2>1, <3>1 DEF Rows
    <3>5. session'[s].was_live <=> flag
      BY <2>1, <3>1, <3>2 DEF Rows
    <3> QED BY <2>3, <3>2, <3>3, <3>4, <3>5
  <2> QED BY <2>2, <2>3
<1>7. \A s \in Sessions : /\ Exists(s)' <=> Exists(s)
                          /\ Active(s)' <=> Active(s) /\ s \notin R
  BY <1>6 DEF Exists, Active
<1>8. TypeOK'
  <2>1. session' \in [Sessions -> Rows]
    BY <1>4, <1>6
  <2>2. proc' \in [Procs -> Children]
    BY <1>4, <1>5
  <2>3. registry' \in [Sessions -> 0 .. MaxProcs] /\ token' \in [Sessions -> 0 .. MaxProcs]
    <3>1. None \in 0 .. MaxProcs
      BY BoundAssumption
    <3>2. \A s \in Sessions : token[s] \in 0 .. MaxProcs
      BY <1>0 DEF TypeOK
    <3> QED BY <1>4, <3>1, <3>2
  <2>4. req' \in [Reqs -> Requests]
    BY <1>4, IdleOK
  <2>5. clock' \in Nat /\ restarts' \in 0 .. MaxRestarts /\ agents' \in 0 .. MaxAgents
    <3>1. clock \in Nat /\ restarts \in 0 .. MaxRestarts /\ agents \in 0 .. MaxAgents
      BY <1>0 DEF TypeOK
    <3>2. clock' = clock + Cardinality(R) /\ restarts' = restarts + 1
          /\ restarts < MaxRestarts /\ agents' = agents
      BY <1>4
    <3>3. clock' \in Nat
      BY <1>2, <3>1, <3>2
    <3>4. restarts' \in 0 .. MaxRestarts
      BY <3>1, <3>2, BoundAssumption
    <3> QED BY <3>1, <3>2, <3>3, <3>4
  <2>6. hist' \in [Sessions -> [by : Reapers, woken : BOOLEAN]]
    BY <1>0, <1>4 DEF TypeOK, Reapers
  <2> QED BY <2>1, <2>2, <2>3, <2>4, <2>5, <2>6 DEF TypeOK
<1>9. WaitsOK'
  BY <1>4 DEF WaitsOK, WaitOK, Idle
<1>10. ChildrenOK'
  <2>1. ASSUME NEW s \in Sessions, Exists(s)'
        PROVE  /\ session'[s].pid \in Procs
               /\ proc'[session'[s].pid].sess = s
               /\ proc'[session'[s].pid].handler # "none"
    <3>1. /\ session[s].pid \in Procs /\ proc[session[s].pid].sess = s
          /\ proc[session[s].pid].handler # "none"
      BY <1>0, <1>7, <2>1 DEF ChildrenOK
    <3> QED BY <1>5, <1>6, <3>1
  <2>2. ASSUME NEW p \in Procs
        PROVE  /\ proc'[p].st = "none" => proc'[p].handler = "none"
               /\ proc'[p].st # "none" => proc'[p].sess \in Sessions
    BY <1>0, <1>5 DEF ChildrenOK
  <2> QED BY <1>4, <2>1, <2>2 DEF ChildrenOK
<1>11. HandlesAgree' /\ KilledChildUnreachable'
  BY <1>0, <1>4, <1>6, <1>7 DEF HandlesAgree, KilledChildUnreachable
<1>12. ReaperOwed'
  <2> SUFFICES ASSUME Lifetime = "session", NEW s \in Sessions, Active(s)'
               PROVE  proc'[session'[s].pid].handler \in {"pending", "lost"}
    BY DEF ReaperOwed
  <2>1. /\ Active(s) /\ session'[s].pid = session[s].pid
        /\ session[s].pid \in Procs
    BY <1>0, <1>6, <1>7 DEF Active, ChildrenOK
  <2>2. /\ proc[session[s].pid].handler \in {"pending", "lost"}
        /\ proc[session[s].pid].st # "none"
    BY <1>0, <2>1 DEF ReaperOwed, ChildrenOK
  <2> QED BY <1>5, <2>1, <2>2
<1>13. FlaggedByReaper'
  <2> SUFFICES ASSUME Lifetime = "session", NEW s \in Sessions, session'[s].was_live
               PROVE  Ended(s)' /\ hist'[s].by = "reap"
    BY DEF FlaggedByReaper
  <2>1. CASE s \in R
    BY <1>3, <1>4, <1>6, <1>7, <2>1 DEF Ended, Active
  <2>2. CASE s \notin R
    <3>1. Ended(s) /\ hist[s].by = "reap"
      BY <1>0, <1>6, <2>2 DEF FlaggedByReaper
    <3> QED BY <1>4, <1>6, <1>7, <2>2, <3>1 DEF Ended
  <2> QED BY <2>1, <2>2
<1>14. AgentRowCeiling'
  BY <1>0, <1>4 DEF AgentRowCeiling
<1> QED BY <1>8, <1>9, <1>10, <1>11, <1>12, <1>13, <1>14 DEF IInv

LEMMA StutterKeepsIInv == ASSUME IInv, UNCHANGED vars PROVE IInv'
BY DEF IInv, vars, TypeOK, WaitsOK, WaitOK, ChildrenOK, HandlesAgree,
       KilledChildUnreachable, ReaperOwed, AgentRowCeiling, FlaggedByReaper,
       Exists, Active, Ended

-----------------------------------------------------------------------------
(* The theorems.                                                           *)

\* IInv holds in every reachable state, for every role and every bound.
THEOREM Invariance == Spec => []IInv
<1>1. ASSUME IInv, [Next]_vars PROVE IInv'
  <2>1. ASSUME NEW r \in Reqs, Request(r) PROVE IInv'
    BY <1>1, <2>1, RequestKeepsIInv
  <2>2. ASSUME NEW r \in Reqs, Continue(r) PROVE IInv'
    BY <1>1, <2>2, ContinueKeepsIInv
  <2>3. ASSUME NEW s \in Sessions, Terminate(s) \/ InjectReap(s) PROVE IInv'
    BY <1>1, <2>3, TerminateKeepsIInv, InjectReapKeepsIInv
  <2>4. ASSUME NEW p \in Procs, ProcExits(p) \/ SessionEndHook(p) \/ ExitHandled(p)
        PROVE  IInv'
    BY <1>1, <2>4, ProcExitsKeepsIInv, SessionEndHookKeepsIInv, ExitHandledKeepsIInv
  <2>5. ASSUME NEW dead \in SUBSET {p \in Procs : Live(p)}, Restart(dead) PROVE IInv'
    BY <1>1, <2>5, RestartKeepsIInv
  <2>6. CASE UNCHANGED vars
    BY <1>1, <2>6, StutterKeepsIInv
  <2> QED BY <1>1, <2>1, <2>2, <2>3, <2>4, <2>5, <2>6 DEF Next
<1> QED BY <1>1, InitIInv, PTL DEF Spec

\* Every variable keeps its type.
THEOREM TypeCorrect == Spec => []TypeOK
<1>1. IInv => TypeOK
  BY DEF IInv
<1> QED BY <1>1, Invariance, PTL

\* The pid of the row, the stdin handle and the bearer token are of one process,
\* and an ended session has no token, under every interleaving of spawns, resumes,
\* wakes, cycles, kills, hooks, exits and restarts.
THEOREM HandlesAlwaysAgree == Spec => []HandlesAgree
<1>1. IInv => HandlesAgree
  BY DEF IInv
<1> QED BY <1>1, Invariance, PTL

\* No prompt can be written to a child that was killed.
THEOREM KilledStaysUnreachable == Spec => []KilledChildUnreachable
<1>1. IInv => KilledChildUnreachable
  BY DEF IInv
<1> QED BY <1>1, Invariance, PTL

\* An active session of a session-lifetime runtime always has somebody left to
\* end it: a pending exit callback, or the next boot.
THEOREM SomebodyReaps == Spec => []ReaperOwed
<1>1. IInv => ReaperOwed
  BY DEF IInv
<1> QED BY <1>1, Invariance, PTL

\* A persistent role never exceeds its ceiling of identities.
THEOREM CeilingHolds == Spec => []AgentRowCeiling
<1>1. IInv => AgentRowCeiling
  BY DEF IInv
<1> QED BY <1>1, Invariance, PTL

\* Only a session that the boot reaper ended can be resumed by a wake.
THEOREM OnlyReapedAreWoken == Spec => []FlaggedByReaper
<1>1. IInv => FlaggedByReaper
  BY DEF IInv
<1> QED BY <1>1, Invariance, PTL
=============================================================================
