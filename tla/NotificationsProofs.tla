------------------------- MODULE NotificationsProofs -------------------------
(***************************************************************************)
(* Proofs about the notification spine: what counts as delivered was put   *)
(* into a session, coalescing keeps the newest trigger of an agent, and a  *)
(* prompt wakes its agent once.  The shape of the rows that the invariant  *)
(* needs is weaker than Notifications!TypeOK.                              *)
(***************************************************************************)
EXTENDS Notifications, WellFoundedInduction, FiniteSetTheorems, TLAPS

-----------------------------------------------------------------------------
(* Numbers.                                                                *)

\* A set of numbers has a least one.
LEMMA LeastNat == ASSUME NEW T \in SUBSET Nat, T # {}
                  PROVE  \E x \in T : \A y \in T : x <= y
<1> DEFINE R == OpToRel(<, Nat)
<1>1. \A x, y \in Nat : y < x => <<y, x>> \in R
  BY DEF OpToRel
<1>2. IsWellFoundedOn(R, Nat)
  BY NatLessThanWellFounded
<1> HIDE DEF R
<1>3. PICK x \in T : \A y \in T : ~(<<y, x>> \in R)
  BY <1>2, WFMin
<1>4. \A y \in T : ~(y < x)
  BY <1>1, <1>3
<1>5. \A y \in T : x <= y
  BY <1>4
<1> QED BY <1>5

\* Min of the community modules gives it.
LEMMA MinOf == ASSUME NEW T \in SUBSET Nat, T # {}
               PROVE  Min(T) \in T /\ \A y \in T : Min(T) <= y
BY LeastNat DEF Min

\* The same for the greatest.
LEMMA MaxOf == ASSUME NEW T \in SUBSET Nat, NEW n \in Nat, T # {}, \A x \in T : x <= n
               PROVE  Max(T) \in T /\ \A y \in T : Max(T) >= y
<1> DEFINE U == {k \in Nat : n - k \in T}
<1>1. U \subseteq Nat /\ U # {}
  <2>1. PICK x \in T : TRUE
    OBVIOUS
  <2>2. n - x \in U
    BY <2>1
  <2> QED BY <2>2
<1>3. \A y \in T : n - y \in U
  OBVIOUS
<1>5. \A k \in U : n - k \in T /\ k \in Nat
  OBVIOUS
<1> HIDE DEF U
<1>2. PICK u \in U : \A y \in U : u <= y
  BY <1>1, LeastNat
<1>4. \A y \in T : n - u >= y
  <2> TAKE y \in T
  <2>1. u <= n - y /\ u \in Nat
    BY <1>2, <1>3, <1>5
  <2> QED BY <2>1
<1>6. n - u \in T
  BY <1>2, <1>5
<1> QED BY <1>4, <1>6 DEF Max

-----------------------------------------------------------------------------
(* The invariant.                                                          *)

\* The shape of the rows and of the jobs.  What a row is about, and the session that a
\* wake may resume, come from the order of ended sessions, which nothing here needs.
IsNote(x) == DOMAIN x = {"kind", "state", "re", "token"}
IsJob(x) == DOMAIN x = {"at", "note", "sess", "todo", "keys"}
Formed(rows) == rows = [n \in Notes |-> rows[n]] /\ \A n \in Notes : IsNote(rows[n])
SpineForm == /\ Formed(note)
             /\ landed = [n \in Notes |-> landed[n]]
             /\ job = [j \in Jobs |-> job[j]] /\ \A j \in Jobs : IsJob(job[j])

AbsentIsPending == \A n \in Notes : ~IsRow(n) => note[n].state = "pending"

\* A pass and a wake are for rows.
HoldsRows(j) == /\ job[j].note # 0 => job[j].note \in Notes /\ IsRow(job[j].note)
                /\ \A n \in job[j].todo : n \in Notes /\ IsRow(n)

\* A dead session has one prompt, and who resumes it by one has redeemed it.
OnePrompt == \A m, n \in Notes :
    note[m].kind = "confirm" /\ note[n].kind = "confirm" /\ note[m].re = note[n].re => m = n
RedeemedFirst(j) == job[j].at = "confirm" =>
    \E n \in Notes : note[n].kind = "confirm" /\ note[n].re = job[j].sess /\ note[n].token # "open"

\* The inductive invariant of Notifications.
SpineIInv == /\ SpineForm
             /\ AbsentIsPending
             /\ \A j \in Jobs : HoldsRows(j) /\ RedeemedFirst(j)
             /\ OnePrompt
             /\ DeliveredIffLanded
             /\ NewestTriggerKept
             /\ NoDoubleResume

-----------------------------------------------------------------------------
(* What a step does to the rows.                                           *)

\* The row keeps what it is and what it is about, and no token opens again.
Aged(n) == /\ note'[n].kind = note[n].kind /\ note'[n].re = note[n].re
           /\ note'[n].token = "open" => note[n].token = "open"
Created(n) == ~IsRow(n) /\ note'[n].kind # "none"

\* States only advance, and a row that is delivered now has landed.
Advanced(n) == /\ note'[n].state = "delivered" => landed'[n] # {}
               /\ note'[n].state = "pending" => note[n].state = "pending" /\ landed'[n] = landed[n]
               /\ note'[n].kind = "none" => note'[n].state = note[n].state

RowsAdvance == \A n \in Notes : (Aged(n) \/ Created(n)) /\ Advanced(n)

\* redeem changes at most one token, and keeps the shape of the rows.
LEMMA RedeemForm ==
    ASSUME NEW rows, Formed(rows), NEW m
    PROVE  /\ Formed(redeem(rows, m))
           /\ \A n \in Notes : /\ redeem(rows, m)[n].kind = rows[n].kind
                               /\ redeem(rows, m)[n].state = rows[n].state
                               /\ redeem(rows, m)[n].re = rows[n].re
                               /\ redeem(rows, m)[n].token \in {rows[n].token, "used"}
                               /\ n = m /\ m # 0 => redeem(rows, m)[n].token = "used"
<1>1. CASE m = 0
  BY <1>1 DEF redeem
<1>2. CASE m # 0
  <2>1. redeem(rows, m) = [n \in Notes |-> IF n = m THEN [rows[n] EXCEPT !.token = "used"] ELSE rows[n]]
    BY <1>2 DEF redeem, Formed
  <2>2. \A n \in Notes : [rows[n] EXCEPT !.token = "used"] =
                         [kind |-> rows[n].kind, state |-> rows[n].state, re |-> rows[n].re, token |-> "used"]
    BY DEF Formed, IsNote
  <2> QED BY <1>2, <2>1, <2>2 DEF Formed, IsNote
<1> QED BY <1>1, <1>2

InState(rows, m, st) == [rows EXCEPT ![m].state = st]

\* InState changes the state of one row,
LEMMA StateForm ==
    ASSUME NEW rows, Formed(rows), NEW m \in Notes, NEW st
    PROVE  /\ Formed(InState(rows, m, st))
           /\ \A n \in Notes : /\ InState(rows, m, st)[n].kind = rows[n].kind
                               /\ InState(rows, m, st)[n].re = rows[n].re
                               /\ InState(rows, m, st)[n].token = rows[n].token
                               /\ InState(rows, m, st)[n].state = IF n = m THEN st ELSE rows[n].state
<1> DEFINE new == InState(rows, m, st)
<1>1. new = [n \in Notes |-> IF n = m THEN [rows[n] EXCEPT !.state = st] ELSE rows[n]]
  BY DEF Formed, InState
<1>2. \A n \in Notes : [rows[n] EXCEPT !.state = st] =
                       [kind |-> rows[n].kind, state |-> st, re |-> rows[n].re, token |-> rows[n].token]
  BY DEF Formed, IsNote
<1> HIDE DEF new
<1>3. Formed(new) /\ \A n \in Notes : /\ new[n].kind = rows[n].kind /\ new[n].re = rows[n].re
                                      /\ new[n].token = rows[n].token
                                      /\ new[n].state = IF n = m THEN st ELSE rows[n].state
  BY <1>1, <1>2 DEF Formed, IsNote
<1> QED BY <1>3 DEF new

\* markDelivered that of a pending row,
LEMMA MarkForm ==
    ASSUME Formed(note), NEW m \in Notes
    PROVE  /\ Formed(markDelivered(m))
           /\ \A n \in Notes : /\ markDelivered(m)[n].kind = note[n].kind
                               /\ markDelivered(m)[n].re = note[n].re
                               /\ markDelivered(m)[n].token = note[n].token
                               /\ markDelivered(m)[n].state =
                                     IF n = m /\ note[n].state = "pending" THEN "delivered" ELSE note[n].state
<1> DEFINE new == markDelivered(m)
           st(n) == IF note[n].state = "pending" THEN "delivered" ELSE note[n].state
<1>1. new = [n \in Notes |-> IF n = m THEN [note[n] EXCEPT !.state = st(n)] ELSE note[n]]
  BY DEF markDelivered, Formed
<1>2. \A n \in Notes : [note[n] EXCEPT !.state = st(n)] =
                       [kind |-> note[n].kind, state |-> st(n), re |-> note[n].re, token |-> note[n].token]
  BY DEF Formed, IsNote
<1> HIDE DEF new
<1>3. Formed(new) /\ \A n \in Notes : /\ new[n].kind = note[n].kind /\ new[n].re = note[n].re
                                      /\ new[n].token = note[n].token
                                      /\ new[n].state = IF n = m THEN st(n) ELSE note[n].state
  BY <1>1, <1>2 DEF Formed, IsNote
<1> QED BY <1>3 DEF new

\* and coalesced those of the stale rows.
LEMMA CoalescedForm ==
    ASSUME Formed(note), NEW A
    PROVE  /\ Formed(coalesced(A))
           /\ \A n \in Notes : /\ coalesced(A)[n].kind = note[n].kind
                               /\ coalesced(A)[n].re = note[n].re
                               /\ coalesced(A)[n].token = note[n].token
                               /\ coalesced(A)[n].state =
                                     IF n \in stale(pendingFor(A)) THEN "cancelled" ELSE note[n].state
<1>1. \A n \in Notes : [note[n] EXCEPT !.state = "cancelled"] =
           [kind |-> note[n].kind, state |-> "cancelled", re |-> note[n].re, token |-> note[n].token]
  BY DEF Formed, IsNote
<1> QED BY <1>1 DEF coalesced, Formed, IsNote

\* Landing adds to where one row landed.
LEMMA LandForm ==
    ASSUME SpineForm, NEW n \in Notes, NEW s, Land(n, s)
    PROVE  /\ landed' = [m \in Notes |-> landed'[m]]
           /\ landed'[n] # {}
           /\ \A m \in Notes \ {n} : landed'[m] = landed[m]
BY DEF Land, SpineForm

\* No step but a coalescing one cancels a row.
LEMMA NothingCancelled ==
    ASSUME SpineIInv, RowsAdvance,
           \A n \in Notes : note'[n].state = "cancelled" => Aged(n) /\ note[n].state = "cancelled"
    PROVE  NewestTriggerKept'
<1> SUFFICES ASSUME NEW n \in Notes, note'[n].state = "cancelled"
             PROVE  /\ note'[n].kind = "trigger"
                    /\ \E m \in n + 1 .. MaxNotes : note'[m].kind = "trigger" /\ note'[m].state # "cancelled"
  BY DEF NewestTriggerKept, transient
<1>1. Aged(n) /\ note[n].state = "cancelled"
  OBVIOUS
<1>2. note[n].kind = "trigger"
  BY <1>1 DEF SpineIInv, NewestTriggerKept, transient
<1>3. PICK m \in n + 1 .. MaxNotes : note[m].kind = "trigger" /\ note[m].state # "cancelled"
  BY <1>1 DEF SpineIInv, NewestTriggerKept, transient
<1>4. m \in Notes
  BY <1>3, SpineAssumption DEF Notes
<1>5. Aged(m) /\ note'[m].state # "cancelled"
  BY <1>3, <1>4 DEF RowsAdvance, Created, IsRow
<1> QED BY <1>1, <1>2, <1>3, <1>5 DEF Aged

\* Coalescing cancels all pending triggers but the last, which also takes the place of
\* whatever it had replaced.
LEMMA LastTriggerStays ==
    ASSUME SpineIInv, NEW A, \A n \in Notes : Aged(n),
           \A n \in Notes : note'[n].state = "cancelled" => note[n].state = "cancelled" \/ n \in stale(pendingFor(A))
    PROVE  NewestTriggerKept'
<1> DEFINE P == pendingFor(A)
           T == {n \in P : transient(n)}
<1>1. T \in SUBSET Nat /\ \A n \in T : n <= MaxNotes /\ n \in Notes
  BY SpineAssumption DEF pendingFor, Notes
<1>2. MaxNotes \in Nat
  BY SpineAssumption
<1>3. \A n \in stale(P) : n \in T /\ \E m \in T : m > n
  BY DEF stale
<1>4. \A n \in T : note[n].kind = "trigger" /\ note[n].state = "pending"
  BY DEF transient, pendingFor
<1>5. stale(P) = {n \in T : \E m \in T : m > n}
  BY DEF stale
<1> HIDE DEF T, P
<1>6. ASSUME NEW n \in T
      PROVE  \E x \in T : x >= n /\ note'[x].kind = "trigger" /\ note'[x].state # "cancelled"
  <2>1. Max(T) \in T /\ \A y \in T : Max(T) >= y
    BY <1>1, <1>2, <1>6, MaxOf
  <2> DEFINE x == Max(T)
  <2>2. x \in Nat /\ x \in T /\ \A y \in T : x >= y /\ y \in Nat
    BY <1>1, <2>1
  <2> HIDE DEF x
  <2>3. x \notin stale(P)
    BY <1>5, <2>2
  <2>4. x \in Notes /\ note[x].kind = "trigger" /\ note[x].state = "pending"
    BY <1>1, <1>4, <2>2
  <2>5. note'[x].state # "cancelled" /\ note'[x].kind = "trigger"
    BY <2>3, <2>4 DEF Aged, P
  <2> QED BY <2>2, <2>5
<1>7. SUFFICES ASSUME NEW n \in Notes, note'[n].state = "cancelled"
               PROVE  /\ note'[n].kind = "trigger"
                      /\ \E m \in n + 1 .. MaxNotes : note'[m].kind = "trigger" /\ note'[m].state # "cancelled"
  BY DEF NewestTriggerKept, transient
<1>8. n \in Nat
  BY DEF Notes
<1>9. CASE n \in stale(P)
  <2>1. n \in T
    BY <1>3, <1>9
  <2>2. PICK m \in T : m > n
    BY <1>3, <1>9
  <2>3. PICK x \in T : x >= m /\ note'[x].kind = "trigger" /\ note'[x].state # "cancelled"
    BY <1>6
  <2>4. x \in n + 1 .. MaxNotes
    BY <1>1, <1>2, <1>8, <2>2, <2>3
  <2>5. note'[n].kind = "trigger"
    BY <1>4, <2>1 DEF Aged
  <2> QED BY <2>3, <2>4, <2>5
<1>10. CASE note[n].state = "cancelled"
  <2>1. note[n].kind = "trigger"
    BY <1>10 DEF SpineIInv, NewestTriggerKept, transient
  <2>2. PICK m \in n + 1 .. MaxNotes : note[m].kind = "trigger" /\ note[m].state # "cancelled"
    BY <1>10 DEF SpineIInv, NewestTriggerKept, transient
  <2>3. m \in Notes /\ m \in Nat /\ m > n
    BY <1>2, <1>8, <2>2 DEF Notes
  <2>4. note'[n].kind = "trigger" /\ note'[m].kind = "trigger"
    BY <2>1, <2>2, <2>3 DEF Aged
  <2>5. CASE note'[m].state # "cancelled"
    BY <2>2, <2>4, <2>5
  <2>6. CASE note'[m].state = "cancelled"
    <3>1. m \in stale(P)
      BY <2>2, <2>3, <2>6 DEF P
    <3>2. m \in T
      BY <1>3, <3>1
    <3>3. PICK x \in T : x >= m /\ note'[x].kind = "trigger" /\ note'[x].state # "cancelled"
      BY <1>6, <3>2
    <3>4. x \in n + 1 .. MaxNotes
      BY <1>1, <1>2, <1>8, <2>3, <3>3
    <3> QED BY <2>4, <3>3, <3>4
  <2> QED BY <2>5, <2>6
<1> QED BY <1>7, <1>9, <1>10 DEF P

\* What keeps the invariant: the rows advance, the prompts stay one a session, and a
\* job that changes holds rows and resumes by no prompt.
LEMMA SpineKeeps ==
    ASSUME SpineIInv, SpineForm', RowsAdvance, NewestTriggerKept',
           \A n \in Notes : Created(n) /\ note'[n].kind = "confirm" =>
               \A m \in Notes \ {n} : note'[m].kind = "confirm" => note'[m].re # note'[n].re,
           \A j \in Jobs : job'[j] = job[j] \/ (HoldsRows(j)' /\ job'[j].at # "confirm")
    PROVE  SpineIInv'
<1>1. \A n \in Notes : IsRow(n) => Aged(n) /\ IsRow(n)'
  BY DEF RowsAdvance, Created, Aged, IsRow
<1>2. AbsentIsPending'
  <2> SUFFICES ASSUME NEW n \in Notes, note'[n].kind = "none" PROVE note'[n].state = "pending"
    BY DEF AbsentIsPending, IsRow
  <2>1. note[n].kind = "none" /\ note'[n].state = note[n].state
    BY DEF RowsAdvance, Advanced, Aged, Created
  <2> QED BY <2>1 DEF SpineIInv, AbsentIsPending, IsRow
<1>3. ASSUME NEW j \in Jobs PROVE HoldsRows(j)' /\ RedeemedFirst(j)'
  <2>1. CASE job'[j] = job[j]
    <3>1. HoldsRows(j) /\ RedeemedFirst(j)
      BY DEF SpineIInv
    <3>2. HoldsRows(j)'
      BY <1>1, <2>1, <3>1 DEF HoldsRows
    <3>3. ASSUME job'[j].at = "confirm"
          PROVE  \E n \in Notes : note'[n].kind = "confirm" /\ note'[n].re = job'[j].sess /\ note'[n].token # "open"
      <4>1. PICK n \in Notes : note[n].kind = "confirm" /\ note[n].re = job[j].sess /\ note[n].token # "open"
        BY <2>1, <3>1, <3>3 DEF RedeemedFirst
      <4>2. Aged(n)
        BY <1>1, <4>1 DEF IsRow
      <4> QED BY <2>1, <4>1, <4>2 DEF Aged
    <3> QED BY <3>2, <3>3 DEF RedeemedFirst
  <2>2. CASE HoldsRows(j)' /\ job'[j].at # "confirm"
    BY <2>2 DEF RedeemedFirst
  <2> QED BY <2>1, <2>2
<1>4. OnePrompt'
  <2> SUFFICES ASSUME NEW m \in Notes, NEW n \in Notes, m # n,
                      note'[m].kind = "confirm", note'[n].kind = "confirm", note'[m].re = note'[n].re
               PROVE  FALSE
    BY DEF OnePrompt
  <2>1. Aged(m) /\ Aged(n)
    BY DEF RowsAdvance
  <2> QED BY <2>1 DEF Aged, SpineIInv, OnePrompt
<1>5. DeliveredIffLanded'
  <2> SUFFICES ASSUME NEW n \in Notes
               PROVE  /\ note'[n].state = "delivered" => landed'[n] # {}
                      /\ note'[n].state = "pending" => landed'[n] = {}
    BY DEF DeliveredIffLanded
  <2> QED BY DEF RowsAdvance, Advanced, SpineIInv, DeliveredIffLanded
<1>6. NoDoubleResume'
  <2> SUFFICES ASSUME NEW i \in Jobs, NEW j \in Jobs, job'[i].at = "confirm", job'[j].at = "confirm",
                      job'[i].sess = job'[j].sess
               PROVE  i = j
    BY DEF NoDoubleResume
  <2>1. job'[i] = job[i] /\ job'[j] = job[j]
    OBVIOUS
  <2> QED BY <2>1 DEF SpineIInv, NoDoubleResume
<1> QED BY <1>2, <1>3, <1>4, <1>5, <1>6 DEF SpineIInv

\* Many steps leave the rows alone.
LEMMA RowsAlone ==
    ASSUME SpineIInv, UNCHANGED <<note, landed>>
    PROVE  /\ RowsAdvance /\ NewestTriggerKept' /\ Formed(note)' /\ landed' = [n \in Notes |-> landed'[n]]
           /\ \A n \in Notes : ~Created(n) /\ (IsRow(n)' <=> IsRow(n))
<1>1. /\ \A n \in Notes : Aged(n) /\ Advanced(n) /\ ~Created(n)
      /\ \A n \in Notes : IsRow(n)' <=> IsRow(n)
  BY DEF Aged, Advanced, Created, IsRow, SpineIInv, DeliveredIffLanded
<1>2. NewestTriggerKept'
  BY DEF SpineIInv, NewestTriggerKept, transient
<1>3. Formed(note)' /\ landed' = [n \in Notes |-> landed'[n]]
  BY DEF SpineIInv, SpineForm, Formed
<1> QED BY <1>1, <1>2, <1>3 DEF RowsAdvance

\* A job is replaced by another one.
LEMMA JobForm ==
    ASSUME SpineForm, NEW j \in Jobs, NEW x, IsJob(x), job' = [job EXCEPT ![j] = x]
    PROVE  /\ job' = [i \in Jobs |-> job'[i]] /\ \A i \in Jobs : IsJob(job'[i])
           /\ job'[j] = x /\ \A i \in Jobs \ {j} : job'[i] = job[i]
BY DEF SpineForm

\* A pass holds rows that exist, and is at rest when it is idle.
LEMMA SnapshotForm ==
    ASSUME SpineForm, NEW A
    PROVE  /\ IsJob(snapshot(A)) /\ IsJob(Idle) /\ Idle.at = "idle" /\ Idle.note = 0 /\ Idle.todo = {}
           /\ snapshot(A).at = "rearm" /\ snapshot(A).note = 0
           /\ snapshot(A).todo = pendingFor(A) \ stale(pendingFor(A))
           /\ \A n \in snapshot(A).todo : n \in Notes /\ IsRow(n)
<1> DEFINE T == pendingFor(A) \ stale(pendingFor(A))
           K == {recipient(n) : n \in pendingFor(A)}
<1>1. T \subseteq {n \in Notes : IsRow(n)}
  BY DEF pendingFor
<1>2. /\ Idle = [at |-> "idle", note |-> 0, sess |-> 0, todo |-> {}, keys |-> {}]
      /\ snapshot(A) = [Idle EXCEPT !.at = "rearm", !.todo = T, !.keys = K]
  BY DEF Idle, snapshot
<1> HIDE DEF T, K
<1>5. IsJob(snapshot(A)) /\ IsJob(Idle)
  BY <1>2 DEF IsJob
<1>3. snapshot(A).at = "rearm" /\ snapshot(A).note = 0 /\ snapshot(A).todo = T
  BY <1>2 DEF IsJob
<1>6. \A n \in T : n \in Notes /\ IsRow(n)
  BY <1>1
<1> QED BY <1>2, <1>3, <1>5, <1>6 DEF T

\* A step that writes one row, marks it delivered, redeems another or none, and moves
\* one job or none.
LEMMA EmitKeeps ==
    ASSUME SpineIInv, NEW j \in Jobs, NEW n \in Notes, NEW row, NEW m,
           IsNote(row), row.kind \in {"trigger", "reply"}, row.state = "pending",
           Emit(j, n, row, m)
    PROVE  SpineIInv'
<1> DEFINE rows == [note EXCEPT ![n] = row]
<1>1. /\ ~IsRow(n) /\ SpineForm /\ Formed(note)
  BY DEF Emit, FreshNote, SpineIInv, SpineForm
<1>2. /\ Formed(rows) /\ rows[n] = row /\ \A k \in Notes \ {n} : rows[k] = note[k]
  BY <1>1 DEF Formed
<1>3. note[n].kind = "none" /\ note[n].state = "pending"
  BY <1>1 DEF SpineIInv, AbsentIsPending, IsRow
<1> HIDE DEF rows
<1>4. CASE /\ note' = rows
           /\ \E t \in {0, latestEnded(Manager)} :
                job' = [job EXCEPT ![j] = [Idle EXCEPT !.at = "emit", !.note = n, !.sess = t]]
           /\ UNCHANGED landed
  <2>1. PICK t : job' = [job EXCEPT ![j] = [Idle EXCEPT !.at = "emit", !.note = n, !.sess = t]]
    BY <1>4
  <2> DEFINE x == [Idle EXCEPT !.at = "emit", !.note = n, !.sess = t]
  <2>2. IsJob(x) /\ x.at = "emit" /\ x.note = n /\ x.todo = {}
    BY DEF Idle, IsJob
  <2> HIDE DEF x
  <2>3. /\ job' = [i \in Jobs |-> job'[i]] /\ \A i \in Jobs : IsJob(job'[i])
        /\ job'[j] = x /\ \A i \in Jobs \ {j} : job'[i] = job[i]
    BY <1>1, <2>1, <2>2, JobForm DEF x
  <2>4. SpineForm'
    BY <1>1, <1>2, <1>4, <2>3 DEF SpineForm
  <2>5. HoldsRows(j)' /\ job'[j].at # "confirm"
    BY <1>2, <1>4, <2>2, <2>3 DEF HoldsRows, IsRow
  <2>6. RowsAdvance
    <3>1. Created(n) /\ Advanced(n)
      BY <1>1, <1>2, <1>3, <1>4 DEF Created, Advanced
    <3>2. \A k \in Notes \ {n} : Aged(k) /\ Advanced(k)
      <4>1. note' = rows /\ landed' = landed
        BY <1>4
      <4>2. DeliveredIffLanded
        BY DEF SpineIInv
      <4> QED BY <1>2, <4>1, <4>2 DEF Aged, Advanced, DeliveredIffLanded
    <3> QED BY <3>1, <3>2 DEF RowsAdvance
  <2>7. \A k \in Notes : note'[k].state = "cancelled" => Aged(k) /\ note[k].state = "cancelled"
    BY <1>2, <1>4 DEF Aged
  <2>8. NewestTriggerKept'
    BY <2>6, <2>7, NothingCancelled
  <2>9. \A k \in Notes : Created(k) => note'[k].kind # "confirm"
    BY <1>2, <1>4 DEF Created, IsRow
  <2> QED BY <2>3, <2>4, <2>5, <2>6, <2>8, <2>9, SpineKeeps
<1>5. CASE \/ /\ note' = redeem([rows EXCEPT ![n].state = "delivered"], m)
              /\ Land(n, oldest(activeForAgent(Manager)))
              /\ UNCHANGED job
           \/ /\ note' = redeem(rows, m)
              /\ UNCHANGED <<landed, job>>
  <2>1. /\ Formed(note')
        /\ note'[n].kind = row.kind /\ note'[n].state \in {"pending", "delivered"}
        /\ note'[n].state = "delivered" => landed'[n] # {}
        /\ note'[n].state = "pending" => landed'[n] = landed[n]
        /\ \A k \in Notes \ {n} : /\ landed'[k] = landed[k]
                                  /\ note'[k].kind = note[k].kind /\ note'[k].state = note[k].state
                                  /\ note'[k].re = note[k].re /\ note'[k].token \in {note[k].token, "used"}
        /\ landed' = [k \in Notes |-> landed'[k]]
        /\ UNCHANGED job
    <3>1. CASE /\ note' = redeem([rows EXCEPT ![n].state = "delivered"], m)
               /\ Land(n, oldest(activeForAgent(Manager)))
               /\ UNCHANGED job
      <4> DEFINE done == InState(rows, n, "delivered")
      <4>1. /\ Formed(done)
            /\ \A k \in Notes : /\ done[k].kind = rows[k].kind /\ done[k].re = rows[k].re
                                /\ done[k].token = rows[k].token
                                /\ done[k].state = IF k = n THEN "delivered" ELSE rows[k].state
        BY <1>2, StateForm
      <4> HIDE DEF done
      <4>4. note' = redeem(done, m)
        BY <3>1 DEF done, InState
      <4>2. /\ Formed(note')
            /\ \A k \in Notes : /\ note'[k].kind = done[k].kind /\ note'[k].state = done[k].state
                                /\ note'[k].re = done[k].re /\ note'[k].token \in {done[k].token, "used"}
        BY <4>1, <4>4, RedeemForm
      <4>3. /\ landed' = [k \in Notes |-> landed'[k]] /\ landed'[n] # {}
            /\ \A k \in Notes \ {n} : landed'[k] = landed[k]
        BY <1>1, <3>1, LandForm
      <4>5. UNCHANGED job
        BY <3>1
      <4>6. /\ note'[n].kind = row.kind /\ note'[n].state = "delivered"
            /\ \A k \in Notes \ {n} : /\ note'[k].kind = note[k].kind /\ note'[k].state = note[k].state
                                      /\ note'[k].re = note[k].re /\ note'[k].token \in {note[k].token, "used"}
        BY ONLY <1>2, <4>1, <4>2
      <4> QED BY ONLY <4>2, <4>3, <4>5, <4>6
    <3>2. CASE note' = redeem(rows, m) /\ UNCHANGED <<landed, job>>
      <4>1. /\ Formed(note')
            /\ \A k \in Notes : /\ note'[k].kind = rows[k].kind /\ note'[k].state = rows[k].state
                                /\ note'[k].re = rows[k].re /\ note'[k].token \in {rows[k].token, "used"}
        BY <1>2, <3>2, RedeemForm
      <4> QED BY <1>1, <1>2, <3>2, <4>1 DEF SpineForm
    <3> QED BY <1>5, <3>1, <3>2
  <2>2. SpineForm'
    BY <1>1, <2>1 DEF SpineForm
  <2>3. RowsAdvance
    <3>1. Created(n) /\ Advanced(n)
      BY <1>1, <1>3, <2>1 DEF Created, Advanced
    <3>2. \A k \in Notes \ {n} : Aged(k) /\ Advanced(k)
      <4>1. DeliveredIffLanded
        BY DEF SpineIInv
      <4> QED BY <2>1, <4>1 DEF Aged, Advanced, DeliveredIffLanded
    <3> QED BY <3>1, <3>2 DEF RowsAdvance
  <2>4. \A k \in Notes : note'[k].state = "cancelled" => Aged(k) /\ note[k].state = "cancelled"
    BY <2>1 DEF Aged
  <2>5. NewestTriggerKept'
    BY <2>3, <2>4, NothingCancelled
  <2>6. \A k \in Notes : Created(k) => note'[k].kind # "confirm"
    BY <2>1 DEF Created, IsRow
  <2> QED BY <2>1, <2>2, <2>3, <2>5, <2>6, SpineKeeps
<1> QED BY <1>4, <1>5 DEF Emit, rows

\* A row that was there may be redeemed, declined, delivered or acked.
Touched(n) ==
    /\ note'[n].kind = note[n].kind /\ note'[n].re = note[n].re
    /\ note'[n].token \in {note[n].token, "used", "declined"}
    /\ \/ note'[n].state = note[n].state /\ landed'[n] = landed[n]
       \/ note'[n].state = note[n].state /\ note[n].state # "pending" /\ landed'[n] # {}
       \/ note'[n].state = "delivered" /\ landed'[n] # {} /\ IsRow(n)
       \/ note'[n].state = "acked" /\ IsRow(n)

\* A row that is touched goes forward.
LEMMA TouchedAdvance ==
    ASSUME SpineIInv, \A n \in Notes : Touched(n)
    PROVE  /\ RowsAdvance /\ NewestTriggerKept'
           /\ \A n \in Notes : ~Created(n) /\ (IsRow(n)' <=> IsRow(n))
<1>1. DeliveredIffLanded
  BY DEF SpineIInv
<1>2. \A n \in Notes : Aged(n) /\ Advanced(n)
  <2> SUFFICES ASSUME NEW n \in Notes PROVE Aged(n) /\ Advanced(n)
    OBVIOUS
  <2>1. Touched(n)
    OBVIOUS
  <2>2. Aged(n)
    BY <2>1 DEF Touched, Aged
  <2>3. Advanced(n)
    BY <1>1, <2>1 DEF Touched, Advanced, DeliveredIffLanded, IsRow
  <2> QED BY <2>2, <2>3
<1>3. \A n \in Notes : note'[n].state = "cancelled" => Aged(n) /\ note[n].state = "cancelled"
  <2> SUFFICES ASSUME NEW n \in Notes, note'[n].state = "cancelled" PROVE note[n].state = "cancelled"
    BY <1>2
  <2>1. Touched(n)
    OBVIOUS
  <2> QED BY <2>1 DEF Touched
<1>4. RowsAdvance
  BY <1>2 DEF RowsAdvance
<1>5. \A n \in Notes : ~Created(n) /\ (IsRow(n)' <=> IsRow(n))
  <2>1. \A n \in Notes : note'[n].kind = note[n].kind
    BY DEF Touched
  <2> QED BY <2>1 DEF Created, IsRow
<1> QED BY <1>3, <1>4, <1>5, NothingCancelled

\* The spine starts in its invariant.
LEMMA SpineStart == Init => SpineIInv
<1> SUFFICES ASSUME Init PROVE SpineIInv
  OBVIOUS
<1>1. \A n \in Notes : /\ IsNote(note[n]) /\ note[n].kind = "none" /\ note[n].state = "pending"
                       /\ landed[n] = {}
  BY DEF Init, Absent, IsNote
<1>2. \A j \in Jobs : IsJob(job[j]) /\ job[j].at = "idle" /\ job[j].note = 0 /\ job[j].todo = {}
  BY DEF Init, Idle, IsJob
<1>3. SpineForm
  BY <1>1, <1>2 DEF Init, SpineForm, Formed
<1>4. AbsentIsPending /\ OnePrompt /\ DeliveredIffLanded /\ NewestTriggerKept
  BY <1>1 DEF AbsentIsPending, OnePrompt, DeliveredIffLanded, NewestTriggerKept
<1>5. NoDoubleResume /\ \A j \in Jobs : HoldsRows(j) /\ RedeemedFirst(j)
  BY <1>2 DEF NoDoubleResume, HoldsRows, RedeemedFirst
<1> QED BY <1>3, <1>4, <1>5 DEF SpineIInv

\* Sessions come and go, and the rows and jobs stay.
LEMMA SessionsOnly == ASSUME SpineIInv, UNCHANGED <<note, landed, job>> PROVE SpineIInv'
<1>1. /\ RowsAdvance /\ NewestTriggerKept' /\ Formed(note)' /\ landed' = [n \in Notes |-> landed'[n]]
      /\ \A n \in Notes : ~Created(n) /\ (IsRow(n)' <=> IsRow(n))
  BY RowsAlone
<1>2. SpineForm'
  BY <1>1 DEF SpineIInv, SpineForm
<1> QED BY <1>1, <1>2, SpineKeeps

\* The rows stay, and one job moves on.
LEMMA OneJob ==
    ASSUME SpineIInv, UNCHANGED <<note, landed>>, NEW j \in Jobs, NEW x, IsJob(x),
           job' = [job EXCEPT ![j] = x], x.at # "confirm",
           x.note # 0 => x.note \in Notes /\ IsRow(x.note),
           \A n \in x.todo : n \in Notes /\ IsRow(n)
    PROVE  SpineIInv'
<1>1. /\ RowsAdvance /\ NewestTriggerKept' /\ Formed(note)' /\ landed' = [n \in Notes |-> landed'[n]]
      /\ \A n \in Notes : ~Created(n) /\ (IsRow(n)' <=> IsRow(n))
  BY RowsAlone
<1>2. /\ job' = [i \in Jobs |-> job'[i]] /\ \A i \in Jobs : IsJob(job'[i])
      /\ job'[j] = x /\ \A i \in Jobs \ {j} : job'[i] = job[i]
  BY JobForm DEF SpineIInv
<1>3. SpineForm'
  BY <1>1, <1>2 DEF SpineForm
<1>4. HoldsRows(j)'
  BY <1>1, <1>2 DEF HoldsRows
<1> QED BY <1>1, <1>2, <1>3, <1>4, SpineKeeps

\* Rows are touched, and one job moves on or none.
LEMMA TouchKeeps ==
    ASSUME SpineIInv, \A n \in Notes : Touched(n), Formed(note)', landed' = [n \in Notes |-> landed'[n]],
           NEW x, IsJob(x), x.at # "confirm",
           x.note # 0 => x.note \in Notes /\ IsRow(x.note),
           \A n \in x.todo : n \in Notes /\ IsRow(n),
           UNCHANGED job \/ \E j \in Jobs : job' = [job EXCEPT ![j] = x]
    PROVE  SpineIInv'
<1>1. /\ RowsAdvance /\ NewestTriggerKept'
      /\ \A n \in Notes : ~Created(n) /\ (IsRow(n)' <=> IsRow(n))
  BY TouchedAdvance
<1>2. CASE UNCHANGED job
  <2>1. SpineForm'
    BY <1>2 DEF SpineIInv, SpineForm
  <2> QED BY <1>1, <1>2, <2>1, SpineKeeps
<1>3. ASSUME NEW j \in Jobs, job' = [job EXCEPT ![j] = x] PROVE SpineIInv'
  <2>1. /\ job' = [i \in Jobs |-> job'[i]] /\ \A i \in Jobs : IsJob(job'[i])
        /\ job'[j] = x /\ \A i \in Jobs \ {j} : job'[i] = job[i]
    BY <1>3, JobForm DEF SpineIInv
  <2>2. SpineForm'
    BY <2>1 DEF SpineForm
  <2>3. HoldsRows(j)'
    BY <1>1, <2>1 DEF HoldsRows
  <2> QED BY <1>1, <2>1, <2>2, <2>3, SpineKeeps
<1> QED BY <1>2, <1>3

\* A coalescing pass begins.
LEMMA CoalesceKeeps ==
    ASSUME SpineIInv, NEW A, UNCHANGED landed, note' = coalesced(A),
           job' = [i \in Jobs |-> job'[i]], \A i \in Jobs : IsJob(job'[i]),
           \A i \in Jobs : job'[i] = job[i] \/ job'[i] = Idle \/ job'[i] = snapshot(A)
    PROVE  SpineIInv'
<1>1. SpineForm /\ Formed(note) /\ DeliveredIffLanded
  BY DEF SpineIInv, SpineForm
<1>2. /\ Formed(note')
      /\ \A n \in Notes : /\ note'[n].kind = note[n].kind /\ note'[n].re = note[n].re
                          /\ note'[n].token = note[n].token
                          /\ note'[n].state = IF n \in stale(pendingFor(A)) THEN "cancelled" ELSE note[n].state
  BY <1>1, CoalescedForm
<1>3. \A n \in stale(pendingFor(A)) : n \in Notes /\ IsRow(n)
  BY DEF stale, pendingFor
<1>4. \A n \in Notes : Aged(n) /\ Advanced(n) /\ (IsRow(n)' <=> IsRow(n))
  <2> SUFFICES ASSUME NEW n \in Notes PROVE Aged(n) /\ Advanced(n) /\ (IsRow(n)' <=> IsRow(n))
    OBVIOUS
  <2>1. Aged(n) /\ (IsRow(n)' <=> IsRow(n))
    BY <1>2 DEF Aged, IsRow
  <2>2. landed'[n] = landed[n]
    OBVIOUS
  <2>3. Advanced(n)
    BY <1>1, <1>2, <1>3, <2>2 DEF Advanced, DeliveredIffLanded, IsRow
  <2> QED BY <2>1, <2>3
<1>5. RowsAdvance
  BY <1>4 DEF RowsAdvance
<1>6. NewestTriggerKept'
  BY <1>2, <1>4, LastTriggerStays
<1>7. SpineForm'
  BY <1>1, <1>2 DEF SpineForm
<1>8. \A n \in Notes : ~Created(n)
  BY <1>2 DEF Created, IsRow
<1>9. \A i \in Jobs : job'[i] = job[i] \/ (HoldsRows(i)' /\ job'[i].at # "confirm")
  BY <1>1, <1>4, SnapshotForm DEF HoldsRows
<1> QED BY <1>5, <1>6, <1>7, <1>8, <1>9, SpineKeeps

\* A row is created, and one job is over or none.
LEMMA CreateKeeps ==
    ASSUME SpineIInv, NEW n \in Notes, ~IsRow(n), NEW row, IsNote(row), row.kind # "none",
           row.state \in {"pending", "delivered"}, note' = [note EXCEPT ![n] = row],
           landed' = [k \in Notes |-> landed'[k]], \A k \in Notes \ {n} : landed'[k] = landed[k],
           row.state = "delivered" => landed'[n] # {}, row.state = "pending" => landed'[n] = landed[n],
           row.kind = "confirm" => \A m \in Notes : ~(note[m].kind = "confirm" /\ note[m].re = row.re),
           UNCHANGED job \/ \E j \in Jobs : job' = [job EXCEPT ![j] = Idle]
    PROVE  SpineIInv'
<1>1. SpineForm /\ Formed(note) /\ DeliveredIffLanded /\ note[n].state = "pending" /\ note[n].kind = "none"
  BY DEF SpineIInv, SpineForm, AbsentIsPending, IsRow
<1>2. Formed(note') /\ note'[n] = row /\ \A k \in Notes \ {n} : note'[k] = note[k]
  BY <1>1 DEF Formed
<1>3. Created(n) /\ Advanced(n)
  BY <1>1, <1>2 DEF Created, Advanced
<1>4. \A k \in Notes \ {n} : Aged(k) /\ Advanced(k) /\ ~Created(k)
  BY <1>1, <1>2 DEF Aged, Advanced, Created, IsRow, DeliveredIffLanded
<1>5. RowsAdvance
  BY <1>3, <1>4 DEF RowsAdvance
<1>6. \A k \in Notes : note'[k].state = "cancelled" => Aged(k) /\ note[k].state = "cancelled"
  BY <1>2, <1>4
<1>7. NewestTriggerKept'
  BY <1>5, <1>6, NothingCancelled
<1>8. \A k \in Notes : Created(k) /\ note'[k].kind = "confirm" =>
               \A m \in Notes \ {k} : note'[m].kind = "confirm" => note'[m].re # note'[k].re
  BY <1>2, <1>4
<1>9. job' = [i \in Jobs |-> job'[i]] /\ \A i \in Jobs : IsJob(job'[i]) /\ (job'[i] = job[i] \/ job'[i] = Idle)
  <2>1. CASE UNCHANGED job
    BY <1>1, <2>1 DEF SpineForm
  <2>2. ASSUME NEW j \in Jobs, job' = [job EXCEPT ![j] = Idle]
        PROVE  /\ job' = [i \in Jobs |-> job'[i]]
               /\ \A i \in Jobs : IsJob(job'[i]) /\ (job'[i] = job[i] \/ job'[i] = Idle)
    BY <1>1, <2>2, JobForm, SnapshotForm
  <2> QED BY <2>1, <2>2
<1>10. SpineForm'
  BY <1>2, <1>9 DEF SpineForm
<1>11. \A i \in Jobs : job'[i] = job[i] \/ (HoldsRows(i)' /\ job'[i].at # "confirm")
  BY <1>1, <1>9, SnapshotForm DEF HoldsRows
<1> QED BY <1>5, <1>7, <1>8, <1>10, <1>11, SpineKeeps

\* A message is sent.
LEMMA MessageKeeps == ASSUME SpineIInv, NEW n \in Notes, Message(n) PROVE SpineIInv'
<1> DEFINE row == [Absent EXCEPT !.kind = "message", !.token = "open"]
           done == [row EXCEPT !.state = "delivered"]
<1>1. /\ IsNote(row) /\ row.kind = "message" /\ row.state = "pending"
      /\ IsNote(done) /\ done.kind = "message" /\ done.state = "delivered"
  BY DEF Absent, IsNote
<1>2. ~IsRow(n) /\ UNCHANGED job /\ SpineForm
  BY DEF Message, FreshNote, SpineIInv
<1>3. ASSUME NEW s, note' = [note EXCEPT ![n] = done], Land(n, s) PROVE SpineIInv'
  <2>1. /\ landed' = [m \in Notes |-> landed'[m]] /\ landed'[n] # {}
        /\ \A m \in Notes \ {n} : landed'[m] = landed[m]
    BY <1>2, <1>3, LandForm
  <2> HIDE DEF row, done
  <2> QED BY <1>1, <1>2, <1>3, <2>1, CreateKeeps
<1>4. CASE note' = [note EXCEPT ![n] = row] /\ UNCHANGED landed
  <2>1. landed' = [k \in Notes |-> landed'[k]]
    BY <1>2, <1>4 DEF SpineForm
  <2> HIDE DEF row, done
  <2> QED BY <1>1, <1>2, <1>4, <2>1, CreateKeeps
<1> QED BY <1>3, <1>4 DEF Message

\* A message is replied to.
LEMMA ReplyKeeps == ASSUME SpineIInv, NEW j \in Jobs, NEW m \in Notes, Reply(j, m) PROVE SpineIInv'
<1>1. ASSUME NEW n \in Notes, Emit(j, n, [Absent EXCEPT !.kind = "reply", !.re = m], m) PROVE SpineIInv'
  <2> DEFINE row == [Absent EXCEPT !.kind = "reply", !.re = m]
  <2>1. IsNote(row) /\ row.kind = "reply" /\ row.state = "pending"
    BY DEF Absent, IsNote
  <2>2. Emit(j, n, row, m)
    BY <1>1
  <2> HIDE DEF row
  <2> QED BY <2>1, <2>2, EmitKeeps
<1>2. CASE note' = redeem(note, m) /\ UNCHANGED <<landed, sess, ended, job, restarts>>
  <2>1. SpineForm /\ Formed(note)
    BY DEF SpineIInv, SpineForm
  <2>2. /\ Formed(note')
        /\ \A n \in Notes : /\ note'[n].kind = note[n].kind /\ note'[n].state = note[n].state
                            /\ note'[n].re = note[n].re /\ note'[n].token \in {note[n].token, "used"}
    BY <1>2, <2>1, RedeemForm
  <2>3. \A n \in Notes : Touched(n)
    BY <1>2, <2>2 DEF Touched
  <2>4. landed' = [n \in Notes |-> landed'[n]] /\ UNCHANGED job
    BY <1>2, <2>1 DEF SpineForm
  <2> QED BY <2>1, <2>2, <2>3, <2>4, SnapshotForm, TouchKeeps
<1> QED BY <1>1, <1>2 DEF Reply

\* A notification is acknowledged.
LEMMA AckKeeps == ASSUME SpineIInv, NEW n \in Notes, Ack(n) PROVE SpineIInv'
<1>1. SpineForm /\ Formed(note) /\ IsRow(n) /\ UNCHANGED <<landed, job>> /\ note' = InState(note, n, "acked")
  BY DEF SpineIInv, SpineForm, Ack, InState
<1>2. /\ Formed(note')
      /\ \A k \in Notes : /\ note'[k].kind = note[k].kind /\ note'[k].re = note[k].re
                          /\ note'[k].token = note[k].token
                          /\ note'[k].state = IF k = n THEN "acked" ELSE note[k].state
  BY <1>1, StateForm
<1>3. \A k \in Notes : Touched(k)
  BY <1>1, <1>2 DEF Touched
<1>4. landed' = [k \in Notes |-> landed'[k]]
  BY <1>1 DEF SpineForm
<1> QED BY <1>1, <1>2, <1>3, <1>4, SnapshotForm, TouchKeeps

\* A prompt's token is taken, by a confirm or a decline.
LEMMA TokenTaken ==
    ASSUME SpineIInv, NEW n \in Notes, NEW tok \in {"used", "declined"}, note' = [note EXCEPT ![n].token = tok],
           UNCHANGED landed
    PROVE  /\ Formed(note') /\ landed' = [k \in Notes |-> landed'[k]]
           /\ \A k \in Notes : Touched(k)
           /\ note'[n].token = tok
<1>1. Formed(note) /\ SpineForm
  BY DEF SpineIInv, SpineForm
<1>2. note' = [k \in Notes |-> IF k = n THEN [note[k] EXCEPT !.token = tok] ELSE note[k]]
  BY <1>1 DEF Formed
<1>3. \A k \in Notes : [note[k] EXCEPT !.token = tok] =
                       [kind |-> note[k].kind, state |-> note[k].state, re |-> note[k].re, token |-> tok]
  BY <1>1 DEF Formed, IsNote
<1>4. /\ Formed(note')
      /\ \A k \in Notes : /\ note'[k].kind = note[k].kind /\ note'[k].re = note[k].re
                          /\ note'[k].token = IF k = n THEN tok ELSE note[k].token
                          /\ note'[k].state = note[k].state
  BY <1>2, <1>3 DEF Formed, IsNote
<1>5. \A k \in Notes : Touched(k)
  BY <1>4 DEF Touched
<1> QED BY <1>1, <1>4, <1>5 DEF SpineForm

\* A prompt is declined.
LEMMA DeclineKeeps == ASSUME SpineIInv, NEW n \in Notes, Decline(n) PROVE SpineIInv'
<1>1. note' = [note EXCEPT ![n].token = "declined"] /\ UNCHANGED <<landed, job>> /\ SpineForm
  BY DEF Decline, SpineIInv
<1>2. Formed(note') /\ landed' = [k \in Notes |-> landed'[k]] /\ \A k \in Notes : Touched(k)
  BY <1>1, TokenTaken
<1> QED BY <1>1, <1>2, SnapshotForm, TouchKeeps

\* Who confirms finds the prompt open: nobody else resumes its session.
LEMMA ConfirmKeeps == ASSUME SpineIInv, NEW j \in Jobs, NEW n \in Notes, Confirm(j, n) PROVE SpineIInv'
<1> DEFINE x == [Idle EXCEPT !.at = "confirm", !.sess = note[n].re]
<1>1. /\ note[n].kind = "confirm" /\ note[n].token = "open" /\ note' = [note EXCEPT ![n].token = "used"]
      /\ job' = [job EXCEPT ![j] = x] /\ UNCHANGED landed /\ SpineForm
  <2>1. n # 0
    BY DEF Notes
  <2> QED BY <2>1 DEF Confirm, mayConfirm, redeem, SpineIInv
<1>2. /\ Formed(note') /\ landed' = [k \in Notes |-> landed'[k]] /\ \A k \in Notes : Touched(k)
      /\ note'[n].token = "used"
  BY <1>1, TokenTaken
<1>3. /\ RowsAdvance /\ NewestTriggerKept'
      /\ \A k \in Notes : ~Created(k) /\ (IsRow(k)' <=> IsRow(k))
  BY <1>2, TouchedAdvance
<1>4. IsJob(x) /\ x.at = "confirm" /\ x.note = 0 /\ x.todo = {} /\ x.sess = note[n].re
  BY DEF Idle, IsJob
<1> HIDE DEF x
<1>5. /\ job' = [i \in Jobs |-> job'[i]] /\ \A i \in Jobs : IsJob(job'[i])
      /\ job'[j] = x /\ \A i \in Jobs \ {j} : job'[i] = job[i]
  BY <1>1, <1>4, JobForm
<1>6. SpineForm'
  BY <1>2, <1>5 DEF SpineForm
<1>7. \A m \in Notes : note'[m].kind = note[m].kind /\ note'[m].re = note[m].re
                       /\ (note'[m].token = "open" => note[m].token = "open")
  BY <1>2 DEF Touched
<1>8. \A i \in Jobs \ {j} : job[i].at = "confirm" => job[i].sess # note[n].re
  <2> SUFFICES ASSUME NEW i \in Jobs \ {j}, job[i].at = "confirm", job[i].sess = note[n].re PROVE FALSE
    OBVIOUS
  <2>1. PICK m \in Notes : note[m].kind = "confirm" /\ note[m].re = job[i].sess /\ note[m].token # "open"
    BY DEF SpineIInv, RedeemedFirst
  <2>2. m = n
    BY <1>1, <2>1 DEF SpineIInv, OnePrompt
  <2> QED BY <1>1, <2>1, <2>2
<1>9. ASSUME NEW i \in Jobs PROVE HoldsRows(i)' /\ RedeemedFirst(i)'
  <2>1. CASE i = j
    <3>1. HoldsRows(j)'
      BY <1>4, <1>5 DEF HoldsRows
    <3>2. RedeemedFirst(j)'
      BY <1>1, <1>2, <1>4, <1>5, <1>7 DEF RedeemedFirst
    <3> QED BY <2>1, <3>1, <3>2
  <2>2. CASE i # j
    <3>1. HoldsRows(i) /\ RedeemedFirst(i) /\ job'[i] = job[i]
      BY <1>5, <2>2 DEF SpineIInv
    <3>2. HoldsRows(i)'
      BY <1>3, <3>1 DEF HoldsRows
    <3>3. RedeemedFirst(i)'
      BY <1>7, <3>1 DEF RedeemedFirst
    <3> QED BY <3>2, <3>3
  <2> QED BY <2>1, <2>2
<1>10. OnePrompt'
  BY <1>7 DEF SpineIInv, OnePrompt
<1>11. NoDoubleResume'
  <2> SUFFICES ASSUME NEW i \in Jobs, NEW k \in Jobs, job'[i].at = "confirm", job'[k].at = "confirm",
                      job'[i].sess = job'[k].sess, i # k
               PROVE  FALSE
    BY DEF NoDoubleResume
  <2>1. CASE i # j /\ k # j
    BY <1>5, <2>1 DEF SpineIInv, NoDoubleResume
  <2>2. CASE i = j \/ k = j
    BY <1>4, <1>5, <1>8, <2>2
  <2> QED BY <2>1, <2>2
<1>12. DeliveredIffLanded'
  <2> SUFFICES ASSUME NEW m \in Notes
               PROVE  /\ note'[m].state = "delivered" => landed'[m] # {}
                      /\ note'[m].state = "pending" => landed'[m] = {}
    BY DEF DeliveredIffLanded
  <2> QED BY <1>3 DEF RowsAdvance, Advanced, SpineIInv, DeliveredIffLanded
<1>13. AbsentIsPending'
  <2> SUFFICES ASSUME NEW m \in Notes, note'[m].kind = "none" PROVE note'[m].state = "pending"
    BY DEF AbsentIsPending, IsRow
  <2>1. note[m].kind = "none" /\ note'[m].state = note[m].state
    BY <1>3, <1>7 DEF RowsAdvance, Advanced
  <2> QED BY <2>1 DEF SpineIInv, AbsentIsPending, IsRow
<1> QED BY <1>3, <1>6, <1>9, <1>10, <1>11, <1>12, <1>13 DEF SpineIInv

\* A job goes on after a wake with rows that exist.
LEMMA AfterWakeForm ==
    ASSUME SpineIInv, NEW j \in Jobs, job[j].at \in {"emit", "rearm"}
    PROVE  /\ IsJob(AfterWake(j)) /\ AfterWake(j).at # "confirm" /\ AfterWake(j).note = 0
           /\ \A n \in AfterWake(j).todo : n \in Notes /\ IsRow(n)
<1>1. IsJob(job[j]) /\ HoldsRows(j)
  BY DEF SpineIInv, SpineForm
<1>2. CASE job[j].at = "emit"
  BY <1>2 DEF AfterWake, Idle, IsJob
<1>3. CASE job[j].at = "rearm"
  <2> DEFINE x == [job[j] EXCEPT !.note = 0, !.sess = 0]
  <2>1. AfterWake(j) = x
    BY <1>3 DEF AfterWake
  <2>2. IsJob(x) /\ x.at = "rearm" /\ x.note = 0 /\ x.todo = job[j].todo
    BY <1>1, <1>3 DEF IsJob
  <2> QED BY <1>1, <2>1, <2>2 DEF HoldsRows
<1> QED BY <1>2, <1>3

\* However many handlers wait with the same row, the one that lands it marks it.
LEMMA WokenKeeps == ASSUME SpineIInv, NEW j \in Jobs, Woken(j) PROVE SpineIInv'
<1> DEFINE n == job[j].note
<1>1. PICK s \in Sessions : Land(n, s)
  BY DEF Woken
<1>2. /\ job[j].at \in {"emit", "rearm"} /\ n # 0 /\ note' = redeem(markDelivered(n), answeredBy(j))
      /\ job' = [job EXCEPT ![j] = AfterWake(j)]
  BY DEF Woken
<1>3. n \in Notes /\ IsRow(n) /\ SpineForm /\ Formed(note)
  BY <1>2 DEF SpineIInv, HoldsRows, SpineForm
<1> DEFINE rows == markDelivered(n)
           m == answeredBy(j)
<1> HIDE DEF n
<1>4. /\ Formed(rows)
      /\ \A k \in Notes : /\ rows[k].kind = note[k].kind /\ rows[k].re = note[k].re
                          /\ rows[k].token = note[k].token
                          /\ rows[k].state = IF k = n /\ note[k].state = "pending" THEN "delivered" ELSE note[k].state
  BY <1>3, MarkForm
<1>5. note' = redeem(rows, m)
  BY <1>2
<1> HIDE DEF rows, m
<1>6. /\ Formed(note')
      /\ \A k \in Notes : /\ note'[k].kind = rows[k].kind /\ note'[k].state = rows[k].state
                          /\ note'[k].re = rows[k].re /\ note'[k].token \in {rows[k].token, "used"}
  BY <1>4, <1>5, RedeemForm
<1>7. /\ landed' = [k \in Notes |-> landed'[k]] /\ landed'[n] # {}
      /\ \A k \in Notes \ {n} : landed'[k] = landed[k]
  BY <1>1, <1>3, LandForm
<1>8. ASSUME NEW k \in Notes PROVE Touched(k)
  <2>1. CASE k = n
    <3>1. IF note[k].state = "pending" THEN note'[k].state = "delivered" ELSE note'[k].state = note[k].state
      BY <1>4, <1>6, <2>1
    <3> QED BY <1>3, <1>4, <1>6, <1>7, <2>1, <3>1 DEF Touched
  <2>2. CASE k # n
    BY <1>4, <1>6, <1>7, <2>2 DEF Touched
  <2> QED BY <2>1, <2>2
<1>9. /\ IsJob(AfterWake(j)) /\ AfterWake(j).at # "confirm" /\ AfterWake(j).note = 0
      /\ \A k \in AfterWake(j).todo : k \in Notes /\ IsRow(k)
  BY <1>2, AfterWakeForm
<1> DEFINE x == AfterWake(j)
<1> HIDE DEF x
<1>10. /\ IsJob(x) /\ x.at # "confirm" /\ x.note = 0 /\ \A k \in x.todo : k \in Notes /\ IsRow(k)
       /\ job' = [job EXCEPT ![j] = x]
  BY <1>2, <1>9 DEF x
<1> QED BY <1>6, <1>7, <1>8, <1>10, TouchKeeps

\* A wake fails.
LEMMA WakeFailsKeeps == ASSUME SpineIInv, NEW j \in Jobs, WakeFails(j) PROVE SpineIInv'
<1> DEFINE x == AfterWake(j)
<1>1. job[j].at \in {"emit", "rearm"} /\ job' = [job EXCEPT ![j] = x] /\ UNCHANGED <<note, landed>>
  BY DEF WakeFails
<1>2. /\ IsJob(x) /\ x.at # "confirm" /\ x.note = 0 /\ \A k \in x.todo : k \in Notes /\ IsRow(k)
  BY <1>1, AfterWakeForm
<1> HIDE DEF x
<1> QED BY <1>1, <1>2, OneJob

\* A pass takes its next row.
LEMMA RearmNextKeeps == ASSUME SpineIInv, NEW j \in Jobs, RearmNext(j) PROVE SpineIInv'
<1>1. PICK n \in next(job[j].todo) :
        LET a == recipient(n)
            rest == job[j].todo \ {n}
        IN
        \/ /\ outcome(a) = "wake"
           /\ Wake(j, "rearm", n, rest, job[j].keys)
           /\ UNCHANGED <<note, landed>>
        \/ /\ outcome(a) = "injected"
           /\ note' = markDelivered(n)
           /\ Land(n, oldest(activeForAgent(a)))
           /\ job' = [job EXCEPT ![j].todo = rest]
        \/ /\ outcome(a) \in {"queued", "skipped-busy"}
           /\ job' = [job EXCEPT ![j].todo = rest]
           /\ UNCHANGED <<note, landed>>
  BY DEF RearmNext
<1> DEFINE rest == job[j].todo \ {n}
           x == [job[j] EXCEPT !.todo = rest]
<1>2. /\ HoldsRows(j) /\ SpineForm /\ Formed(note) /\ IsJob(job[j])
      /\ job[j].at = "rearm" /\ job[j].note = 0
  BY DEF SpineIInv, SpineForm, RearmNext
<1>3. n \in job[j].todo
  BY DEF next
<1>4. n \in Notes /\ IsRow(n) /\ \A k \in rest : k \in Notes /\ IsRow(k)
  BY <1>2, <1>3 DEF HoldsRows
<1> HIDE DEF rest
<1>5. IsJob(x) /\ x.at = "rearm" /\ x.note = 0 /\ x.todo = rest
  BY <1>2 DEF IsJob
<1>6. job' = [job EXCEPT ![j].todo = rest] => job' = [job EXCEPT ![j] = x]
  BY <1>2 DEF SpineForm
<1> HIDE DEF x
<1>7. CASE Wake(j, "rearm", n, rest, job[j].keys) /\ UNCHANGED <<note, landed>>
  <2>1. PICK t : job' = [job EXCEPT ![j] = [at |-> "rearm", note |-> n, sess |-> t,
                                           todo |-> rest, keys |-> job[j].keys]]
    BY <1>7 DEF Wake
  <2> DEFINE y == [at |-> "rearm", note |-> n, sess |-> t, todo |-> rest, keys |-> job[j].keys]
  <2>2. IsJob(y) /\ y.at = "rearm" /\ y.note = n /\ y.todo = rest
    BY DEF IsJob
  <2>3. job' = [job EXCEPT ![j] = y]
    BY <2>1
  <2> HIDE DEF y
  <2> QED BY <1>4, <1>7, <2>2, <2>3, OneJob
<1>8. CASE /\ note' = markDelivered(n)
           /\ Land(n, oldest(activeForAgent(recipient(n))))
           /\ job' = [job EXCEPT ![j].todo = rest]
  <2>1. /\ Formed(note')
        /\ \A k \in Notes : /\ note'[k].kind = note[k].kind /\ note'[k].re = note[k].re
                            /\ note'[k].token = note[k].token
                            /\ note'[k].state = IF k = n /\ note[k].state = "pending"
                                                THEN "delivered" ELSE note[k].state
    BY <1>2, <1>4, <1>8, MarkForm
  <2>2. /\ landed' = [k \in Notes |-> landed'[k]] /\ landed'[n] # {}
        /\ \A k \in Notes \ {n} : landed'[k] = landed[k]
    BY <1>2, <1>4, <1>8, LandForm
  <2>3. ASSUME NEW k \in Notes PROVE Touched(k)
    <3>1. CASE k = n
      <4>1. IF note[k].state = "pending" THEN note'[k].state = "delivered" ELSE note'[k].state = note[k].state
        BY <2>1, <3>1
      <4> QED BY <1>4, <2>1, <2>2, <3>1, <4>1 DEF Touched
    <3>2. CASE k # n
      BY <2>1, <2>2, <3>2 DEF Touched
    <3> QED BY <3>1, <3>2
  <2> QED BY <1>4, <1>5, <1>6, <1>8, <2>1, <2>2, <2>3, TouchKeeps
<1>9. CASE job' = [job EXCEPT ![j].todo = rest] /\ UNCHANGED <<note, landed>>
  BY <1>4, <1>5, <1>6, <1>9, OneJob
<1> QED BY <1>1, <1>7, <1>8, <1>9 DEF rest

\* A pass is over.
LEMMA RearmEndsKeeps == ASSUME SpineIInv, NEW j \in Jobs, RearmEnds(j) PROVE SpineIInv'
<1>1. job' = [job EXCEPT ![j] = Idle] /\ UNCHANGED landed /\ SpineForm
  BY DEF RearmEnds, SpineIInv
<1>2. CASE UNCHANGED note
  <2>1. Idle.at # "confirm" /\ Idle.note = 0 /\ Idle.todo = {} /\ IsJob(Idle)
    BY <1>1, SnapshotForm
  <2> QED BY <1>1, <1>2, <2>1, OneJob
<1>3. CASE ~UNCHANGED note
  <2> DEFINE dead == latestEnded(Worker)
             row == [Absent EXCEPT !.kind = "confirm", !.re = dead, !.token = "open"]
  <2>1. PICK n \in Notes :
            /\ FreshNote(n) /\ note' = [note EXCEPT ![n] = row]
            /\ \A m \in Notes : ~(note[m].kind = "confirm" /\ note[m].re = dead)
    BY <1>3 DEF RearmEnds
  <2> HIDE DEF dead
  <2>2. IsNote(row) /\ row.kind = "confirm" /\ row.re = dead /\ row.state = "pending"
    BY DEF Absent, IsNote
  <2> HIDE DEF row
  <2>3. ~IsRow(n) /\ landed' = [k \in Notes |-> landed'[k]]
    BY <1>1, <2>1 DEF FreshNote, SpineForm
  <2> QED BY <1>1, <2>1, <2>2, <2>3, CreateKeeps
<1> QED BY <1>2, <1>3

\* A confirmed resume goes through.
LEMMA ConfirmedKeeps == ASSUME SpineIInv, NEW j \in Jobs, Confirmed(j) PROVE SpineIInv'
<1>1. /\ note' = coalesced({Worker}) /\ job' = [job EXCEPT ![j] = snapshot({Worker})] /\ UNCHANGED landed
      /\ SpineForm
  BY DEF Confirmed, SpineIInv
<1>2. /\ job' = [i \in Jobs |-> job'[i]] /\ \A i \in Jobs : IsJob(job'[i])
      /\ \A i \in Jobs : job'[i] = job[i] \/ job'[i] = snapshot({Worker})
  <2> DEFINE x == snapshot({Worker})
  <2>1. IsJob(x) /\ job' = [job EXCEPT ![j] = x]
    BY <1>1, SnapshotForm
  <2> HIDE DEF x
  <2>2. /\ job' = [i \in Jobs |-> job'[i]] /\ \A i \in Jobs : IsJob(job'[i])
        /\ job'[j] = x /\ \A i \in Jobs \ {j} : job'[i] = job[i]
    BY <1>1, <2>1, JobForm
  <2> QED BY <2>2 DEF x
<1> QED BY <1>1, <1>2, CoalesceKeeps

\* A confirmed resume fails.
LEMMA ConfirmFailsKeeps == ASSUME SpineIInv, NEW j \in Jobs, ConfirmFails(j) PROVE SpineIInv'
<1>1. job' = [job EXCEPT ![j] = Idle] /\ UNCHANGED <<note, landed>> /\ SpineForm
  BY DEF ConfirmFails, SpineIInv
<1>2. Idle.at # "confirm" /\ Idle.note = 0 /\ Idle.todo = {} /\ IsJob(Idle)
  BY <1>1, SnapshotForm
<1> QED BY <1>1, <1>2, OneJob

\* The server restarts.
LEMMA RestartKeeps == ASSUME SpineIInv, NEW j \in Jobs, NEW D, Restart(j, D) PROVE SpineIInv'
<1>1. /\ note' = coalesced(Agents) /\ UNCHANGED landed /\ SpineForm
      /\ job' = [i \in Jobs |-> IF i = j THEN snapshot(Agents) ELSE Idle]
  BY DEF Restart, SpineIInv
<1>2. IsJob(snapshot(Agents)) /\ IsJob(Idle)
  BY <1>1, SnapshotForm
<1>3. /\ job' = [i \in Jobs |-> job'[i]] /\ \A i \in Jobs : IsJob(job'[i])
      /\ \A i \in Jobs : job'[i] = job[i] \/ job'[i] = Idle \/ job'[i] = snapshot(Agents)
  <2> DEFINE x == snapshot(Agents)
  <2>1. job' = [i \in Jobs |-> IF i = j THEN x ELSE Idle] /\ IsJob(x)
    BY <1>1, <1>2
  <2> HIDE DEF x
  <2>2. /\ job' = [i \in Jobs |-> job'[i]] /\ \A i \in Jobs : IsJob(job'[i])
        /\ \A i \in Jobs : job'[i] = Idle \/ job'[i] = x
    BY <1>2, <2>1
  <2> QED BY <2>2 DEF x
<1> QED BY <1>1, <1>3, CoalesceKeeps

\* A cycle's pass coalesces and, in the same step, hands the first rows to the session
\* that is about to end.
LEMMA CycleKeeps == ASSUME SpineIInv, NEW j \in Jobs, NEW old \in Sessions, Cycle(j, old) PROVE SpineIInv'
<1> DEFINE A == {Manager}
           first == oldest(activeForAgent(Manager))
           rows == next(snapshot(A).todo)
           heard == IF sess[first].st = "live" THEN rows ELSE {}
           x == [snapshot(A) EXCEPT !.todo = @ \ rows]
<1>1. /\ SpineForm /\ Formed(note) /\ DeliveredIffLanded
      /\ note' = [n \in Notes |-> IF n \in heard THEN [note[n] EXCEPT !.state = "delivered"]
                                  ELSE coalesced(A)[n]]
      /\ landed' = [n \in Notes |-> IF n \in heard THEN landed[n] \cup {first} ELSE landed[n]]
      /\ job' = [job EXCEPT ![j] = x]
  BY DEF Cycle, SpineIInv, SpineForm
<1>2. /\ IsJob(snapshot(A)) /\ snapshot(A).at = "rearm" /\ snapshot(A).note = 0
      /\ snapshot(A).todo = pendingFor(A) \ stale(pendingFor(A))
      /\ \A n \in snapshot(A).todo : n \in Notes /\ IsRow(n)
  BY <1>1, SnapshotForm
<1>3. rows \subseteq snapshot(A).todo
  BY DEF next
<1>4. IsJob(x) /\ x.at = "rearm" /\ x.note = 0 /\ \A n \in x.todo : n \in Notes /\ IsRow(n)
  BY <1>2 DEF IsJob
<1>5. \A n \in heard : n \in Notes /\ IsRow(n) /\ n \notin stale(pendingFor(A))
  BY <1>2, <1>3
<1> HIDE DEF x, heard, first, rows
<1>6. /\ Formed(coalesced(A))
      /\ \A n \in Notes : /\ coalesced(A)[n].kind = note[n].kind
                          /\ coalesced(A)[n].re = note[n].re
                          /\ coalesced(A)[n].token = note[n].token
                          /\ coalesced(A)[n].state =
                                IF n \in stale(pendingFor(A)) THEN "cancelled" ELSE note[n].state
  BY <1>1, CoalescedForm
<1>7. \A n \in Notes : /\ IsNote([note[n] EXCEPT !.state = "delivered"])
                       /\ [note[n] EXCEPT !.state = "delivered"].kind = note[n].kind
                       /\ [note[n] EXCEPT !.state = "delivered"].re = note[n].re
                       /\ [note[n] EXCEPT !.state = "delivered"].token = note[n].token
                       /\ [note[n] EXCEPT !.state = "delivered"].state = "delivered"
  BY <1>1 DEF Formed, IsNote
<1>8. /\ Formed(note')
      /\ \A n \in Notes : /\ note'[n].kind = note[n].kind /\ note'[n].re = note[n].re
                          /\ note'[n].token = note[n].token
                          /\ note'[n].state = IF n \in heard THEN "delivered"
                                              ELSE IF n \in stale(pendingFor(A)) THEN "cancelled"
                                              ELSE note[n].state
  BY <1>1, <1>6, <1>7 DEF Formed
<1>9. \A n \in Notes : IF n \in heard THEN landed'[n] # {} ELSE landed'[n] = landed[n]
  BY <1>1
<1>10. \A n \in stale(pendingFor(A)) : IsRow(n)
  BY DEF stale, pendingFor
<1>11. ASSUME NEW n \in Notes PROVE Aged(n) /\ Advanced(n) /\ (IsRow(n)' <=> IsRow(n))
  <2>1. Aged(n) /\ (IsRow(n)' <=> IsRow(n))
    BY <1>8 DEF Aged, IsRow
  <2>2. CASE n \in heard
    <3>1. note'[n].state = "delivered" /\ landed'[n] # {} /\ note'[n].kind # "none"
      BY <1>5, <1>8, <1>9, <2>2 DEF IsRow
    <3> QED BY <2>1, <3>1 DEF Advanced
  <2>3. CASE n \notin heard
    <3>1. landed'[n] = landed[n]
      BY <1>9, <2>3
    <3>2. Advanced(n)
      BY <1>1, <1>8, <1>10, <2>3, <3>1 DEF Advanced, DeliveredIffLanded, IsRow
    <3> QED BY <2>1, <3>2
  <2> QED BY <2>2, <2>3
<1>12. RowsAdvance /\ \A n \in Notes : Aged(n) /\ ~Created(n)
  BY <1>8, <1>11 DEF RowsAdvance, Created, IsRow
<1>13. NewestTriggerKept'
  <2>1. \A n \in Notes : note'[n].state = "cancelled" => note[n].state = "cancelled" \/ n \in stale(pendingFor(A))
    BY <1>8
  <2> QED BY <1>12, <2>1, LastTriggerStays
<1>14. /\ job' = [i \in Jobs |-> job'[i]] /\ \A i \in Jobs : IsJob(job'[i])
       /\ job'[j] = x /\ \A i \in Jobs \ {j} : job'[i] = job[i]
  BY <1>1, <1>4, JobForm
<1>15. SpineForm'
  <2>1. landed' = [n \in Notes |-> landed'[n]]
    BY <1>1
  <2> QED BY <1>8, <1>14, <2>1 DEF SpineForm
<1>16. HoldsRows(j)' /\ job'[j].at # "confirm"
  BY <1>4, <1>11, <1>14 DEF HoldsRows
<1> QED BY <1>12, <1>13, <1>14, <1>15, <1>16, SpineKeeps

\* Every step keeps the invariant.
LEMMA SpineStep == ASSUME SpineIInv, [Next]_vars PROVE SpineIInv'
<1>1. CASE UNCHANGED vars
  <2>1. UNCHANGED <<note, landed, job>>
    BY <1>1 DEF vars
  <2> QED BY <2>1, SessionsOnly
<1>2. ASSUME NEW a \in Agents, Spawn(a) PROVE SpineIInv'
  <2>1. UNCHANGED <<note, landed, job>>
    BY <1>2 DEF Spawn
  <2> QED BY <2>1, SessionsOnly
<1>3. ASSUME NEW s \in Sessions, Resume(s) \/ ChildDies(s) \/ SessionEnds(s) PROVE SpineIInv'
  <2>1. UNCHANGED <<note, landed, job>>
    BY <1>3 DEF Resume, ChildDies, SessionEnds
  <2> QED BY <2>1, SessionsOnly
<1>4. ASSUME NEW j \in Jobs, NEW n \in Notes, Trigger(j, n) PROVE SpineIInv'
  <2> DEFINE row == [Absent EXCEPT !.kind = "trigger"]
  <2>1. IsNote(row) /\ row.kind = "trigger" /\ row.state = "pending"
    BY DEF Absent, IsNote
  <2>2. Emit(j, n, row, 0)
    BY <1>4 DEF Trigger
  <2> HIDE DEF row
  <2> QED BY <2>1, <2>2, EmitKeeps
<1>5. ASSUME NEW j \in Jobs, NEW n \in Notes, Reply(j, n) \/ Confirm(j, n) PROVE SpineIInv'
  BY <1>5, ReplyKeeps, ConfirmKeeps
<1>6. ASSUME NEW n \in Notes, Message(n) \/ Ack(n) \/ Decline(n) PROVE SpineIInv'
  BY <1>6, MessageKeeps, AckKeeps, DeclineKeeps
<1>7. ASSUME NEW j \in Jobs, \/ Woken(j) \/ WakeFails(j) \/ RearmNext(j) \/ RearmEnds(j)
                             \/ Confirmed(j) \/ ConfirmFails(j)
      PROVE  SpineIInv'
  BY <1>7, WokenKeeps, WakeFailsKeeps, RearmNextKeeps, RearmEndsKeeps, ConfirmedKeeps, ConfirmFailsKeeps
<1>8. ASSUME NEW j \in Jobs, NEW s \in Sessions, Cycle(j, s) PROVE SpineIInv'
  BY <1>8, CycleKeeps
<1>9. ASSUME NEW j \in Jobs, NEW D, Restart(j, D) PROVE SpineIInv'
  BY <1>9, RestartKeeps
<1> QED BY <1>1, <1>2, <1>3, <1>4, <1>5, <1>6, <1>7, <1>8, <1>9 DEF Next

\* So it always holds.
LEMMA SpineInvariant == Spec => []SpineIInv
<1> QED BY SpineStart, SpineStep, PTL DEF Spec

\* A row is delivered iff its body was written to a session, whatever handlers and
\* passes hold it at once and wherever a restart or a cycle cuts them.
THEOREM DeliveredMeansLanded == Spec => []DeliveredIffLanded
<1>1. SpineIInv => DeliveredIffLanded
  BY DEF SpineIInv
<1> QED BY <1>1, SpineInvariant, PTL

\* Passes with overlapping snapshots never cancel the last trigger, nor anything else.
THEOREM LastTriggerKept == Spec => []NewestTriggerKept
<1>1. SpineIInv => NewestTriggerKept
  BY DEF SpineIInv
<1> QED BY <1>1, SpineInvariant, PTL

\* No two confirmations resume the same dead session at once.
THEOREM PromptResumesOnce == Spec => []NoDoubleResume
<1>1. SpineIInv => NoDoubleResume
  BY DEF SpineIInv
<1> QED BY <1>1, SpineInvariant, PTL

==============================================================================
