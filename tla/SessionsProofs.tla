--------------------------- MODULE SessionsProofs ---------------------------
(***************************************************************************)
(* Proofs about what happens to and in a session, next to its life (see    *)
(* SessionLifecycleProofs): the quiet rows that its hooks hand over, the   *)
(* turns of a session on codex, the task history that its hooks write, and *)
(* the repair of its transcript and whoever watches it.                    *)
(***************************************************************************)
EXTENDS RoleLineage, Hooks, CodexTurns, Transcripts, FiniteSetTheorems, SequenceTheorems,
        WellFoundedInduction, TLAPS

-----------------------------------------------------------------------------
(* The quiet rows that hooks hand over (Hooks).                            *)

QuietRows == [to : HookAgents, state : {"pending", "delivered"}, said : Nat]

QuietIInv == quiet \in Seq(QuietRows) /\ QuietSaid

\* Draining the rows of an agent into an answer says each of them once.
LEMMA DrainSays ==
    ASSUME QuietIInv, NEW a
    PROVE  /\ SaidOf(drainQuietForAgent(a)) \in Seq(QuietRows)
           /\ \A n \in DOMAIN SaidOf(drainQuietForAgent(a)) :
                SaidOf(drainQuietForAgent(a))[n].said =
                  IF SaidOf(drainQuietForAgent(a))[n].state = "delivered" THEN 1 ELSE 0
<1> DEFINE rows == drainQuietForAgent(a)
           new == SaidOf(rows)
<1>1. quiet \in Seq(QuietRows) /\ \A n \in DOMAIN quiet : quiet[n] \in QuietRows
  BY DEF QuietIInv
<1>2. /\ rows = [n \in DOMAIN quiet |-> rows[n]]
      /\ \A n \in DOMAIN quiet :
           rows[n] = IF quiet[n].to = a /\ quiet[n].state = "pending"
                     THEN [quiet[n] EXCEPT !.state = "delivered"] ELSE quiet[n]
  BY DEF drainQuietForAgent
<1> HIDE DEF rows
<1>3. DOMAIN rows = DOMAIN quiet
  BY <1>2
<1>4. /\ new = [n \in DOMAIN quiet |-> new[n]]
      /\ \A n \in DOMAIN quiet :
           new[n] = IF rows[n].state = "delivered" /\ quiet[n].state = "pending"
                    THEN [rows[n] EXCEPT !.said = @ + 1] ELSE rows[n]
  BY <1>3 DEF SaidOf
<1> HIDE DEF new
<1>5. ASSUME NEW n \in DOMAIN quiet
      PROVE  new[n] \in QuietRows /\ new[n].said = IF new[n].state = "delivered" THEN 1 ELSE 0
  <2>1. quiet[n].said = IF quiet[n].state = "delivered" THEN 1 ELSE 0
    BY DEF QuietIInv, QuietSaid
  <2>2. CASE quiet[n].to = a /\ quiet[n].state = "pending"
    <3>1. rows[n] = [quiet[n] EXCEPT !.state = "delivered"]
      BY <1>2, <2>2
    <3>2. rows[n] \in QuietRows /\ rows[n].state = "delivered" /\ rows[n].said = 0
      BY <1>1, <2>1, <2>2, <3>1 DEF QuietRows
    <3>3. new[n] = [rows[n] EXCEPT !.said = @ + 1]
      BY <1>4, <2>2, <3>2
    <3> QED BY <3>2, <3>3 DEF QuietRows
  <2>3. CASE ~(quiet[n].to = a /\ quiet[n].state = "pending")
    BY <1>1, <1>2, <1>4, <2>1, <2>3 DEF QuietRows
  <2> QED BY <2>2, <2>3
<1>6. DOMAIN quiet = 1 .. Len(quiet) /\ Len(quiet) \in Nat
  BY <1>1
<1>7. DOMAIN new = DOMAIN quiet
  BY <1>4
<1>8. new \in Seq(QuietRows)
  BY <1>4, <1>5, <1>6
<1> QED BY <1>5, <1>7, <1>8 DEF new, rows

\* However far the evaluation of the habits gets, the rows are drained into the answer
\* or left alone.
LEMMA EvaluateSays ==
    ASSUME QuietIInv, NEW h, NEW k, Evaluate(h, k)
    PROVE  QuietIInv'
<1>1. PICK luck \in BOOLEAN, bad \in BOOLEAN :
        quiet' = quiet \/ quiet' = SaidOf(drainQuietForAgent(Works[At(h).s]))
  BY DEF Evaluate
<1>2. CASE quiet' = quiet
  BY <1>2 DEF QuietIInv, QuietSaid
<1>3. CASE quiet' = SaidOf(drainQuietForAgent(Works[At(h).s]))
  BY <1>3, DrainSays DEF QuietIInv, QuietSaid
<1> QED BY <1>1, <1>2, <1>3

\* Every step keeps the invariant.
LEMMA QuietStep == ASSUME QuietIInv, [HookNext]_hookVars PROVE QuietIInv'
<1>1. CASE UNCHANGED quiet
  BY <1>1 DEF QuietIInv, QuietSaid
<1>2. ASSUME NEW s \in HookSessions, UserPromptSubmit(s) \/ PreToolUse(s) \/ Stop(s) \/ SessionEnd(s)
      PROVE  QuietIInv'
  BY <1>1, <1>2 DEF UserPromptSubmit, PreToolUse, Stop, SessionEnd, Posts
<1>3. ASSUME NEW h \in HookSlots, ToolArrives(h) PROVE QuietIInv'
  BY <1>1, <1>3, EvaluateSays DEF ToolArrives
<1>4. ASSUME NEW h \in HookSlots, PostToolUse(h) PROVE QuietIInv'
  BY <1>4, EvaluateSays DEF PostToolUse
<1>5. ASSUME NEW h \in HookSlots, LengthRead(h) PROVE QuietIInv'
  BY <1>1, <1>5, EvaluateSays DEF LengthRead
<1>6. ASSUME NEW h \in HookSlots, Flushed(h) PROVE QuietIInv'
  BY <1>6, EvaluateSays DEF Flushed
<1>7. ASSUME NEW h \in HookSlots, StopArrives(h) \/ SessionEndArrives(h) \/ HookLost(h) PROVE QuietIInv'
  BY <1>1, <1>7 DEF StopArrives, SessionEndArrives, HookLost
<1>8. ASSUME NEW a \in HookAgents, QuietSent(a) PROVE QuietIInv'
  <2> DEFINE fresh == [to |-> a, state |-> "pending", said |-> 0]
  <2>1. quiet' = Append(quiet, fresh) /\ quiet \in Seq(QuietRows)
    BY <1>8 DEF QuietSent, QuietIInv
  <2>2. fresh \in QuietRows /\ fresh.said = IF fresh.state = "delivered" THEN 1 ELSE 0
    BY DEF QuietRows
  <2> HIDE DEF fresh
  <2>3. /\ quiet' \in Seq(QuietRows)
        /\ \A n \in DOMAIN quiet' : \/ n \in DOMAIN quiet /\ quiet'[n] = quiet[n]
                                    \/ quiet'[n] = fresh
    BY <2>1, <2>2
  <2> QED BY <2>2, <2>3 DEF QuietIInv, QuietSaid
<1>9. CASE HookRestart
  BY <1>1, <1>9 DEF HookRestart
<1>10. CASE UNCHANGED hookVars
  BY <1>1, <1>10 DEF hookVars
<1> QED BY <1>2, <1>3, <1>4, <1>5, <1>6, <1>7, <1>8, <1>9, <1>10 DEF HookNext

\* A quiet row that counts as delivered is in the answer of exactly one hook, whatever
\* habit failed or waited before the answer (drainQuietForAgent in hooks.ts).
THEOREM QuietRowsAreSaid == HookSpec => []QuietSaid
<1>1. HookInit => QuietIInv
  BY DEF HookInit, QuietIInv, QuietSaid
<1>2. QuietIInv /\ [HookNext]_hookVars => QuietIInv'
  BY QuietStep
<1>3. QuietIInv => QuietSaid
  BY DEF QuietIInv
<1> QED BY <1>1, <1>2, <1>3, PTL DEF HookSpec

-----------------------------------------------------------------------------
(* The turns of a session on codex (CodexTurns).                           *)

\* What a piece of output says of its child.
Told(out) == {out[i] : i \in DOMAIN out} \ {"item"}

KidRows == [st : {"none", "running", "exited", "ended", "severed"}, thread : 0 .. MaxThreads,
            killed : BOOLEAN, bound : BOOLEAN, pipe : Seq(Lines), ragged : BOOLEAN,
            said : SUBSET {"thread.started", "turn.started"}, alone : BOOLEAN]
Resumes == [at : {"idle", "prepare", "startup"}, thread : 0 .. MaxThreads, child : 0 .. MaxKids]

TurnTypeOK ==
    /\ row \in [st : {"none", "active", "ended"}, thread : 0 .. MaxThreads]
    /\ kid \in [Kids -> KidRows]
    /\ live \in 0 .. MaxKids
    /\ resuming \in [TurnSlots -> Resumes]

\* A child whose stdout has ended has nothing left to be read; one that nobody has
\* bound has all that it says still before it; one that is alone is the only one.
KidFits(k) ==
    /\ kid[k].st = "ended" => kid[k].pipe = <<>>
    /\ Present(k) /\ ~kid[k].bound => kid[k].said \subseteq Told(kid[k].pipe)
    /\ Present(k) /\ kid[k].alone => \A j \in Kids : Present(j) => j = k

\* The registered child is bound.  If it is alone its session is active, and the
\* thread it announces is in the row or still to be read.
LiveFits == live # NoChild =>
    /\ Present(live) /\ kid[live].bound
    /\ kid[live].alone =>
         /\ row.st = "active"
         /\ "thread.started" \in kid[live].said =>
              "thread.started" \in Told(kid[live].pipe) \/ row.thread = kid[live].thread

\* A resume waits for a child that nobody has bound.
WaitFits == \A h \in TurnSlots : resuming[h].at = "startup" =>
    \E k \in Kids : resuming[h].child = k /\ Present(k) /\ ~kid[k].bound

TurnIInv == TurnTypeOK /\ (\A k \in Kids : KidFits(k)) /\ LiveFits /\ WaitFits

\* A chunk and what it leaves say together what was there to read.
LEMMA ChunkSplits ==
    ASSUME NEW out \in Seq(Lines), NEW n \in 1 .. Len(out)
    PROVE  /\ SubSeq(out, 1, n) \in Seq(Lines) /\ SubSeq(out, n + 1, Len(out)) \in Seq(Lines)
           /\ Told(out) \subseteq Told(SubSeq(out, 1, n)) \cup Told(SubSeq(out, n + 1, Len(out)))
<1> DEFINE head == SubSeq(out, 1, n)
           tail == SubSeq(out, n + 1, Len(out))
<1>1. head \in Seq(Lines) /\ Len(head) = n /\ \A i \in 1 .. n : head[i] = out[i]
  OBVIOUS
<1>2. /\ tail \in Seq(Lines) /\ Len(tail) = Len(out) - n
      /\ \A i \in 1 .. Len(out) - n : tail[i] = out[i + n]
  OBVIOUS
<1> HIDE DEF head, tail
<1>3. ASSUME NEW i \in DOMAIN out, out[i] # "item" PROVE out[i] \in Told(head) \cup Told(tail)
  <2>1. i \in 1 .. Len(out)
    OBVIOUS
  <2>2. CASE i <= n
    <3>1. i \in DOMAIN head /\ head[i] = out[i]
      BY <1>1, <2>1, <2>2
    <3> QED BY <1>3, <3>1 DEF Told
  <2>3. CASE ~(i <= n)
    <3>1. i - n \in DOMAIN tail /\ tail[i - n] = out[i]
      BY <1>2, <2>1, <2>3
    <3> QED BY <1>3, <3>1 DEF Told
  <2> QED BY <2>2, <2>3
<1> QED BY <1>1, <1>2, <1>3 DEF Told, head, tail

\* What push does: a sign of life binds the child and makes it the live one, and a
\* bound child's thread is stored in a row that is active.
LEMMA PushDoes ==
    ASSUME NEW k \in Kids, NEW lines \in Seq(Lines), NEW left \in KidRows,
           TurnTypeOK, push(k, lines, left), left.bound = kid[k].bound
    PROVE  \E starts \in BOOLEAN :
             /\ starts <=> ~kid[k].bound /\ Told(lines) # {}
             /\ row' \in [st : {"none", "active", "ended"}, thread : 0 .. MaxThreads]
             /\ row'.st = IF starts THEN "active" ELSE row.st
             /\ row'.thread = IF /\ kid[k].bound \/ starts
                                 /\ row'.st = "active" /\ "thread.started" \in Told(lines)
                              THEN kid[k].thread ELSE row.thread
             /\ live' = IF starts THEN k ELSE live
             /\ kid' = [kid EXCEPT ![k] = [left EXCEPT !.bound = kid[k].bound \/ starts]]
             /\ resuming' = [h \in TurnSlots |-> IF starts /\ h \in Waiter(k) THEN Free ELSE resuming[h]]
<1> DEFINE events == {normalizeCodexExecEvent(lines[i]) : i \in DOMAIN lines}
           starts == ~kid[k].bound /\ \E e \in events : isStartupReady(e)
           base == IF starts THEN [row EXCEPT !.st = "active"] ELSE row
<1>1. \A i \in DOMAIN lines : lines[i] \in Lines
  OBVIOUS
<1>2. (\E e \in events : isStartupReady(e)) <=> Told(lines) # {}
  BY <1>1 DEF normalizeCodexExecEvent, isStartupReady, Told, Lines
<1>3. "provider-thread-started" \in events <=> "thread.started" \in Told(lines)
  BY <1>1 DEF normalizeCodexExecEvent, Told, Lines
<1>4. /\ row' = IF kid[k].bound \/ starts THEN consumed(base, events, kid[k].thread) ELSE base
      /\ live' = IF starts THEN k ELSE live
      /\ kid' = [kid EXCEPT ![k] = [left EXCEPT !.bound = @ \/ starts]]
      /\ resuming' = [h \in TurnSlots |-> IF starts /\ h \in Waiter(k) THEN Free ELSE resuming[h]]
  BY DEF push
<1>5. starts \in BOOLEAN /\ (starts <=> ~kid[k].bound /\ Told(lines) # {})
  BY <1>2
<1>6. [left EXCEPT !.bound = @ \/ starts] = [left EXCEPT !.bound = kid[k].bound \/ starts]
  OBVIOUS
<1> HIDE DEF starts
<1>7. /\ base \in [st : {"none", "active", "ended"}, thread : 0 .. MaxThreads]
      /\ base.st = IF starts THEN "active" ELSE row.st
      /\ base.thread = row.thread
  BY DEF TurnTypeOK
<1>8. kid[k].thread \in 0 .. MaxThreads
  BY DEF TurnTypeOK, KidRows
<1> HIDE DEF base, events
<1>9. /\ row' \in [st : {"none", "active", "ended"}, thread : 0 .. MaxThreads]
      /\ row'.st = IF starts THEN "active" ELSE row.st
      /\ row'.thread = IF /\ kid[k].bound \/ starts
                          /\ row'.st = "active" /\ "thread.started" \in Told(lines)
                       THEN kid[k].thread ELSE row.thread
  BY <1>3, <1>4, <1>7, <1>8 DEF consumed
<1> QED BY <1>4, <1>5, <1>6, <1>9

\* Reading a child's output keeps the invariant.
LEMMA PushKeeps ==
    ASSUME TurnIInv, NEW k \in Kids, kid[k].st \in {"running", "exited"},
           NEW lines \in Seq(Lines), NEW left \in KidRows, push(k, lines, left),
           left.st \in {"running", "exited", "ended"}, left.st = "ended" => left.pipe = <<>>,
           left.thread = kid[k].thread, left.bound = kid[k].bound,
           left.said = kid[k].said, left.alone = kid[k].alone,
           Told(kid[k].pipe) \subseteq Told(lines) \cup Told(left.pipe)
    PROVE  TurnIInv'
<1>0. TurnTypeOK /\ (\A j \in Kids : KidFits(j)) /\ LiveFits /\ WaitFits
  BY DEF TurnIInv
<1>1. PICK starts \in BOOLEAN :
        /\ starts <=> ~kid[k].bound /\ Told(lines) # {}
        /\ row' \in [st : {"none", "active", "ended"}, thread : 0 .. MaxThreads]
        /\ row'.st = IF starts THEN "active" ELSE row.st
        /\ row'.thread = IF /\ kid[k].bound \/ starts
                            /\ row'.st = "active" /\ "thread.started" \in Told(lines)
                         THEN kid[k].thread ELSE row.thread
        /\ live' = IF starts THEN k ELSE live
        /\ kid' = [kid EXCEPT ![k] = [left EXCEPT !.bound = kid[k].bound \/ starts]]
        /\ resuming' = [h \in TurnSlots |-> IF starts /\ h \in Waiter(k) THEN Free ELSE resuming[h]]
  BY <1>0, PushDoes
<1> DEFINE new == [left EXCEPT !.bound = kid[k].bound \/ starts]
<1>2. kid \in [Kids -> KidRows] /\ kid[k] \in KidRows /\ k \in 1 .. MaxKids /\ kid[k].bound \in BOOLEAN
  BY <1>0 DEF TurnTypeOK, KidRows, Kids
<1>3. /\ new \in KidRows /\ new.st = left.st /\ new.pipe = left.pipe /\ new.said = left.said
      /\ new.alone = left.alone /\ new.thread = left.thread
  BY <1>2 DEF KidRows
<1>4. new.bound = (kid[k].bound \/ starts)
  BY DEF KidRows
<1>5. kid' = [kid EXCEPT ![k] = new]
  BY <1>1
<1> HIDE DEF new
<1>6. /\ kid' \in [Kids -> KidRows] /\ kid'[k] = new
      /\ \A j \in Kids \ {k} : kid'[j] = kid[j]
  BY <1>2, <1>3, <1>5
<1>7. \A j \in Kids : Present(j)' <=> Present(j)
  BY <1>3, <1>6 DEF Present
<1>8. Present(k) /\ Present(k)'
  BY <1>7 DEF Present
<1>9. resuming' \in [TurnSlots -> Resumes] /\ live' \in 0 .. MaxKids
  <2>1. Free \in Resumes
    BY TurnAssumption DEF Free, Resumes, NoThread, NoChild
  <2> QED BY <1>0, <1>1, <1>2, <2>1 DEF TurnTypeOK
<1>10. TurnTypeOK'
  BY <1>1, <1>6, <1>9 DEF TurnTypeOK
<1>11. ASSUME NEW j \in Kids PROVE KidFits(j)'
  <2>1. CASE j # k
    BY <1>0, <1>6, <1>7, <2>1 DEF KidFits
  <2>2. CASE j = k
    <3>1. kid'[k].st = "ended" => kid'[k].pipe = <<>>
      BY <1>3, <1>6
    <3>2. ~kid'[k].bound => ~kid[k].bound /\ ~starts
      BY <1>4, <1>6
    <3>3. ~kid'[k].bound => kid'[k].said \subseteq Told(kid'[k].pipe)
      <4> SUFFICES ASSUME ~kid'[k].bound PROVE kid'[k].said \subseteq Told(kid'[k].pipe)
        OBVIOUS
      <4>1. Told(lines) = {}
        BY <1>1, <3>2
      <4>2. kid[k].said \subseteq Told(kid[k].pipe)
        BY <1>0, <1>8, <3>2 DEF KidFits
      <4> QED BY <1>3, <1>6, <4>1, <4>2
    <3>4. kid'[k].alone => \A i \in Kids : Present(i)' => i = k
      BY <1>0, <1>3, <1>6, <1>7, <1>8 DEF KidFits
    <3> QED BY <2>2, <3>1, <3>3, <3>4 DEF KidFits
  <2> QED BY <2>1, <2>2
<1>12. LiveFits'
  <2>1. CASE live' = k
    <3>0. live = k => /\ kid[k].bound
                      /\ kid[k].alone => row.st = "active"
                      /\ kid[k].alone /\ "thread.started" \in kid[k].said =>
                           "thread.started" \in Told(kid[k].pipe) \/ row.thread = kid[k].thread
      <4> SUFFICES ASSUME live = k
                   PROVE  /\ kid[live].bound
                          /\ kid[live].alone => row.st = "active"
                          /\ kid[live].alone /\ "thread.started" \in kid[live].said =>
                               "thread.started" \in Told(kid[live].pipe) \/ row.thread = kid[live].thread
        OBVIOUS
      <4>1. live # NoChild
        BY <1>2 DEF NoChild
      <4> QED BY <1>0, <4>1 DEF LiveFits
    <3>1. kid[k].bound \/ starts
      BY <1>1, <2>1, <3>0
    <3>2. kid'[k].bound
      BY <1>4, <1>6, <3>1
    <3>3. kid'[k].alone => row'.st = "active"
      BY <1>1, <1>3, <1>6, <2>1, <3>0
    <3>4. ASSUME kid'[k].alone, "thread.started" \in kid'[k].said
          PROVE  "thread.started" \in Told(kid'[k].pipe) \/ row'.thread = kid'[k].thread
      <4>1. "thread.started" \in Told(kid[k].pipe) \/ row.thread = kid[k].thread
        <5>1. CASE kid[k].bound
          <6>1. live = k
            BY <1>1, <2>1, <5>1
          <6> QED BY <1>3, <1>6, <3>0, <3>4, <6>1
        <5>2. CASE ~kid[k].bound
          BY <1>0, <1>3, <1>6, <1>8, <3>4, <5>2 DEF KidFits
        <5> QED BY <5>1, <5>2
      <4>2. "thread.started" \in Told(lines) => row'.thread = kid[k].thread
        BY <1>1, <3>1, <3>3, <3>4
      <4>3. row.thread = kid[k].thread => row'.thread = kid[k].thread
        BY <1>1
      <4> QED BY <1>3, <1>6, <4>1, <4>2, <4>3
    <3> QED BY <1>8, <2>1, <3>2, <3>3, <3>4 DEF LiveFits
  <2>2. CASE live' # k
    <3>1. live' = live /\ live # k
      BY <1>1, <2>2
    <3>2. CASE live = NoChild
      BY <3>1, <3>2 DEF LiveFits
    <3>3. CASE live # NoChild
      <4>1. live \in Kids /\ Present(live) /\ kid[live].bound
        BY <1>0, <3>3 DEF LiveFits, Kids, NoChild, TurnTypeOK
      <4>2. ~kid[live].alone
        BY <1>0, <1>8, <3>1, <4>1 DEF KidFits
      <4>3. kid'[live] = kid[live] /\ Present(live)'
        BY <1>6, <1>7, <3>1, <4>1
      <4> QED BY <3>1, <4>1, <4>2, <4>3 DEF LiveFits, Present
    <3> QED BY <3>2, <3>3
  <2> QED BY <2>1, <2>2
<1>13. WaitFits'
  <2> SUFFICES ASSUME NEW h \in TurnSlots, resuming'[h].at = "startup"
               PROVE  \E c \in Kids : resuming'[h].child = c /\ Present(c)' /\ ~kid'[c].bound
    BY DEF WaitFits
  <2>1. resuming'[h] = resuming[h] /\ ~(starts /\ h \in Waiter(k))
    BY <1>1 DEF Free
  <2>2. PICK c \in Kids : resuming[h].child = c /\ Present(c) /\ ~kid[c].bound
    BY <1>0, <2>1 DEF WaitFits
  <2>3. CASE c = k
    <3>1. ~starts
      BY <2>1, <2>2, <2>3 DEF Waiter
    <3>2. ~kid'[k].bound
      BY <1>4, <1>6, <2>2, <2>3, <3>1
    <3> QED BY <1>7, <2>1, <2>2, <2>3, <3>2
  <2>4. CASE c # k
    BY <1>6, <1>7, <2>1, <2>2, <2>4
  <2> QED BY <2>3, <2>4
<1> QED BY <1>10, <1>11, <1>12, <1>13 DEF TurnIInv

\* It makes no child leave.
LEMMA PushKind ==
    ASSUME TurnTypeOK, NEW k \in Kids, NEW lines \in Seq(Lines), NEW left \in KidRows,
           push(k, lines, left), left.bound = kid[k].bound, left.st \in {"running", "exited", "ended"}
    PROVE  \A j \in Kids : Present(j) => kid'[j].st # "none"
<1>1. PICK starts \in BOOLEAN : kid' = [kid EXCEPT ![k] = [left EXCEPT !.bound = kid[k].bound \/ starts]]
  BY PushDoes
<1>2. [left EXCEPT !.bound = kid[k].bound \/ starts].st = left.st
  BY DEF KidRows
<1>3. \A j \in Kids \ {k} : kid'[j] = kid[j]
  BY <1>1 DEF TurnTypeOK
<1>4. kid'[k].st = left.st
  BY <1>1, <1>2 DEF TurnTypeOK
<1> QED BY <1>3, <1>4 DEF Present

\* A child that is started has all that it says before it, and from now on no other
\* child is alone.
LEMMA StartedDoes ==
    ASSUME TurnTypeOK, NEW k \in Kids, ~Present(k), NEW thread \in Threads, NEW bound \in BOOLEAN,
           NEW out \in Outputs, NEW ragged \in BOOLEAN, kid' = started(k, thread, bound, out, ragged)
    PROVE  /\ kid' \in [Kids -> KidRows] /\ kid'[k].st = "running"
           /\ kid'[k].thread = thread /\ kid'[k].bound = bound
           /\ kid'[k].said \subseteq Told(kid'[k].pipe)
           /\ kid'[k].alone => \A j \in Kids : ~Present(j)
           /\ \A j \in Kids \ {k} : Present(j) => /\ ~kid'[j].alone /\ kid'[j].bound = kid[j].bound
                                                  /\ kid'[j].st = kid[j].st
                                                  /\ kid'[j].pipe = kid[j].pipe /\ kid'[j].said = kid[j].said
           /\ \A j \in Kids \ {k} : ~Present(j) => kid'[j] = NoKid
<1> DEFINE alone == \A i \in Kids : ~Present(i)
           tail == ragged /\ out # <<>>
           new(al, r) == [NoKid EXCEPT !.st = "running", !.thread = thread, !.bound = bound,
                            !.pipe = out, !.ragged = r,
                            !.said = Told(out), !.alone = al]
           born == new(alone, tail)
           old(j) == IF Present(j) THEN [kid[j] EXCEPT !.alone = FALSE] ELSE NoKid
<1>1. kid' = [j \in Kids |-> IF j = k THEN born ELSE old(j)]
  BY DEF started, Told
<1>2. out \in Seq(Lines)
  <2>1. PICK n \in 0 .. MaxOut : out \in [1 .. n -> Lines]
    BY DEF Outputs
  <2> QED BY <2>1, TurnAssumption
<1>3. Told(out) \subseteq {"thread.started", "turn.started"}
  BY <1>2 DEF Told, Lines
<1>4. thread \in 0 .. MaxThreads
  BY TurnAssumption DEF Threads
<1>5. ASSUME NEW al \in BOOLEAN, NEW r \in BOOLEAN
      PROVE  /\ new(al, r) \in KidRows
             /\ new(al, r).st = "running" /\ new(al, r).thread = thread /\ new(al, r).bound = bound
             /\ new(al, r).pipe = out /\ new(al, r).said = Told(out) /\ new(al, r).alone = al
  <2>1. NoKid \in KidRows
    BY TurnAssumption DEF NoKid, KidRows, NoThread
  <2> QED BY <1>2, <1>3, <1>4, <2>1 DEF KidRows
<1>6. alone \in BOOLEAN /\ tail \in BOOLEAN
  OBVIOUS
<1> HIDE DEF alone, tail, new
<1>7. /\ born \in KidRows /\ born.st = "running" /\ born.thread = thread /\ born.bound = bound
      /\ born.said = Told(born.pipe) /\ born.alone = alone
  BY <1>2, <1>3, <1>5, <1>6, <1>4 DEF KidRows
<1>8. NoKid \in KidRows
  BY TurnAssumption DEF NoKid, KidRows, NoThread
<1>9. ASSUME NEW j \in Kids, Present(j)
      PROVE  /\ [kid[j] EXCEPT !.alone = FALSE] \in KidRows
             /\ ~[kid[j] EXCEPT !.alone = FALSE].alone
             /\ [kid[j] EXCEPT !.alone = FALSE].bound = kid[j].bound
             /\ [kid[j] EXCEPT !.alone = FALSE].st = kid[j].st
             /\ [kid[j] EXCEPT !.alone = FALSE].pipe = kid[j].pipe
             /\ [kid[j] EXCEPT !.alone = FALSE].said = kid[j].said
  BY DEF TurnTypeOK, KidRows
<1>10. \A j \in Kids : kid'[j] = IF j = k THEN born ELSE old(j)
  BY <1>1
<1>11. \A j \in Kids : old(j) \in KidRows
  BY <1>8, <1>9
<1>12. /\ kid'[k].st = "running" /\ kid'[k].thread = thread /\ kid'[k].bound = bound
       /\ kid'[k].said = Told(kid'[k].pipe) /\ kid'[k].alone = alone
  BY <1>7, <1>10
<1>13. \A j \in Kids \ {k} : Present(j) => kid'[j] = [kid[j] EXCEPT !.alone = FALSE]
  BY <1>10
<1>14. \A j \in Kids \ {k} : ~Present(j) => kid'[j] = NoKid
  BY <1>10
<1> HIDE DEF born, old
<1>15. kid' \in [Kids -> KidRows]
  BY <1>1, <1>7, <1>11
<1> QED BY <1>9, <1>12, <1>13, <1>14, <1>15 DEF alone

\* What follows for the children.
LEMMA StartKeeps ==
    ASSUME TurnTypeOK, \A j \in Kids : KidFits(j), NEW k \in Kids, ~Present(k), NEW thread \in Threads,
           NEW bound \in BOOLEAN, NEW out \in Outputs, NEW ragged \in BOOLEAN,
           kid' = started(k, thread, bound, out, ragged)
    PROVE  /\ \A j \in Kids : KidFits(j)'
           /\ \A j \in Kids : Present(j)' <=> j = k \/ Present(j)
<1>1. /\ kid' \in [Kids -> KidRows] /\ kid'[k].st = "running"
      /\ kid'[k].said \subseteq Told(kid'[k].pipe)
      /\ kid'[k].alone => \A j \in Kids : ~Present(j)
      /\ \A j \in Kids \ {k} : Present(j) => /\ ~kid'[j].alone /\ kid'[j].bound = kid[j].bound
                                             /\ kid'[j].st = kid[j].st
                                             /\ kid'[j].pipe = kid[j].pipe /\ kid'[j].said = kid[j].said
      /\ \A j \in Kids \ {k} : ~Present(j) => kid'[j] = NoKid
  BY StartedDoes
<1>2. \A j \in Kids : Present(j)' <=> j = k \/ Present(j)
  BY <1>1 DEF Present, NoKid
<1>3. ASSUME NEW j \in Kids, j # k, Present(j) PROVE KidFits(j)'
  <2>1. kid'[j].st = "ended" => kid'[j].pipe = <<>>
    BY <1>1, <1>3 DEF KidFits
  <2>2. ~kid'[j].bound => kid'[j].said \subseteq Told(kid'[j].pipe)
    BY <1>1, <1>3 DEF KidFits
  <2> QED BY <1>1, <1>3, <2>1, <2>2 DEF KidFits
<1>4. ASSUME NEW j \in Kids, j # k, ~Present(j) PROVE KidFits(j)'
  <2>1. kid'[j] = NoKid /\ ~Present(j)'
    BY <1>1, <1>2, <1>4
  <2> QED BY <2>1 DEF KidFits, NoKid
<1>5. KidFits(k)'
  <2>1. kid'[k].alone => \A j \in Kids : Present(j)' => j = k
    BY <1>1, <1>2
  <2> QED BY <1>1, <2>1 DEF KidFits
<1> QED BY <1>2, <1>3, <1>4, <1>5

\* A spawn binds its child at once.
LEMMA SpawnKeeps == ASSUME TurnIInv, NEW k \in Kids, Spawn(k) PROVE TurnIInv'
<1>1. PICK thread \in Threads, out \in Outputs, ragged \in BOOLEAN :
        kid' = started(k, thread, TRUE, out, ragged)
  BY DEF Spawn
<1>2. /\ ~Present(k) /\ row' = [st |-> "active", thread |-> NoThread] /\ live' = k /\ resuming' = resuming
  BY DEF Spawn, FreshKid
<1>3. TurnTypeOK /\ (\A j \in Kids : KidFits(j)) /\ WaitFits
  BY DEF TurnIInv
<1>4. /\ kid' \in [Kids -> KidRows] /\ kid'[k].bound
      /\ kid'[k].said \subseteq Told(kid'[k].pipe)
      /\ \A j \in Kids \ {k} : Present(j) => kid'[j].bound = kid[j].bound
  BY <1>1, <1>2, <1>3, StartedDoes
<1>5. (\A j \in Kids : KidFits(j)') /\ \A j \in Kids : Present(j)' <=> j = k \/ Present(j)
  BY <1>1, <1>2, <1>3, StartKeeps
<1>6. TurnTypeOK'
  BY <1>2, <1>3, <1>4, TurnAssumption DEF TurnTypeOK, Kids, NoThread
<1>7. LiveFits'
  BY <1>2, <1>4, <1>5 DEF LiveFits, Present
<1>8. WaitFits'
  <2> SUFFICES ASSUME NEW h \in TurnSlots, resuming[h].at = "startup"
               PROVE  \E c \in Kids : resuming[h].child = c /\ Present(c)' /\ ~kid'[c].bound
    BY <1>2 DEF WaitFits
  <2>1. PICK c \in Kids : resuming[h].child = c /\ Present(c) /\ ~kid[c].bound
    BY <1>3 DEF WaitFits
  <2> QED BY <1>2, <1>4, <1>5, <2>1
<1> QED BY <1>5, <1>6, <1>7, <1>8 DEF TurnIInv

\* A resume starts a child that it waits for.
LEMMA LaunchKeeps == ASSUME TurnIInv, NEW h \in TurnSlots, NEW k \in Kids, Launch(h, k) PROVE TurnIInv'
<1>0. TurnTypeOK /\ (\A j \in Kids : KidFits(j)) /\ LiveFits /\ WaitFits
  BY DEF TurnIInv
<1>1. UNCHANGED <<row, live>>
  BY DEF Launch
<1>2. Free \in Resumes
  BY TurnAssumption DEF Free, Resumes, NoThread, NoChild
<1>3. CASE resuming' = [resuming EXCEPT ![h] = Free] /\ UNCHANGED kid
  <2>1. TurnTypeOK'
    BY <1>0, <1>1, <1>2, <1>3 DEF TurnTypeOK
  <2>2. \A j \in Kids : KidFits(j)' /\ (Present(j)' <=> Present(j))
    BY <1>0, <1>3 DEF KidFits, Present
  <2>3. LiveFits'
    BY <1>0, <1>1, <1>3 DEF LiveFits, Present
  <2>4. WaitFits'
    BY <1>0, <1>3, <2>2 DEF WaitFits, TurnTypeOK, Free
  <2> QED BY <2>1, <2>2, <2>3, <2>4 DEF TurnIInv
<1>4. CASE /\ FreshKid(k)
           /\ \E thread \in Threads, out \in Outputs, ragged \in BOOLEAN :
                kid' = started(k, thread, FALSE, out, ragged)
           /\ resuming' = [resuming EXCEPT ![h] = [at |-> "startup", thread |-> NoThread, child |-> k]]
  <2>1. PICK thread \in Threads, out \in Outputs, ragged \in BOOLEAN :
          kid' = started(k, thread, FALSE, out, ragged)
    BY <1>4
  <2>2. ~Present(k)
    BY <1>4 DEF FreshKid
  <2>3. FALSE \in BOOLEAN
    OBVIOUS
  <2>4. /\ kid' \in [Kids -> KidRows] /\ kid'[k].bound = FALSE
        /\ \A j \in Kids \ {k} : Present(j) => kid'[j].bound = kid[j].bound /\ ~kid'[j].alone
    BY <1>0, <2>1, <2>2, <2>3, StartedDoes
  <2>5. (\A j \in Kids : KidFits(j)') /\ \A j \in Kids : Present(j)' <=> j = k \/ Present(j)
    BY <1>0, <2>1, <2>2, <2>3, StartKeeps
  <2>6. [at |-> "startup", thread |-> NoThread, child |-> k] \in Resumes
    BY TurnAssumption DEF Resumes, NoThread, Kids
  <2>7. TurnTypeOK'
    BY <1>0, <1>1, <1>4, <2>4, <2>6 DEF TurnTypeOK
  <2>8. LiveFits'
    <3> SUFFICES ASSUME live # NoChild PROVE Present(live)' /\ kid'[live].bound /\ ~kid'[live].alone
      BY <1>1 DEF LiveFits, Present
    <3>1. live \in Kids /\ Present(live) /\ kid[live].bound
      BY <1>0 DEF LiveFits, TurnTypeOK, Kids, NoChild
    <3> QED BY <1>1, <2>2, <2>4, <2>5, <3>1
  <2>9. WaitFits'
    <3> SUFFICES ASSUME NEW g \in TurnSlots, resuming'[g].at = "startup"
                 PROVE  \E c \in Kids : resuming'[g].child = c /\ Present(c)' /\ ~kid'[c].bound
      BY DEF WaitFits
    <3>1. CASE g = h
      <4>1. resuming'[g].child = k
        BY <1>0, <1>4, <3>1 DEF TurnTypeOK
      <4> QED BY <2>4, <2>5, <4>1
    <3>2. CASE g # h
      <4>1. resuming'[g] = resuming[g]
        BY <1>0, <1>4, <3>2 DEF TurnTypeOK
      <4>2. PICK c \in Kids : resuming[g].child = c /\ Present(c) /\ ~kid[c].bound
        BY <1>0, <4>1 DEF WaitFits
      <4> QED BY <2>2, <2>4, <2>5, <4>1, <4>2
    <3> QED BY <3>1, <3>2
  <2> QED BY <2>5, <2>7, <2>8, <2>9 DEF TurnIInv
<1> QED BY <1>3, <1>4 DEF Launch

\* Steps that leave the row, the registry and what is bound and said as they are.
LEMMA QuietTurns ==
    ASSUME TurnIInv, UNCHANGED <<row, live>>, resuming' \in [TurnSlots -> Resumes],
           \A h \in TurnSlots : resuming'[h].at = "startup" => resuming'[h] = resuming[h],
           kid' \in [Kids -> KidRows],
           \A k \in Kids : /\ kid'[k].bound = kid[k].bound /\ kid'[k].pipe = kid[k].pipe
                           /\ kid'[k].said = kid[k].said /\ kid'[k].alone = kid[k].alone
                           /\ kid'[k].thread = kid[k].thread
                           /\ (kid'[k].st = "ended" <=> kid[k].st = "ended")
                           /\ (Present(k)' <=> Present(k))
    PROVE  TurnIInv'
<1>0. TurnTypeOK /\ (\A j \in Kids : KidFits(j)) /\ LiveFits /\ WaitFits
  BY DEF TurnIInv
<1>1. TurnTypeOK'
  BY <1>0 DEF TurnTypeOK
<1>2. ASSUME NEW k \in Kids PROVE KidFits(k)'
  <2>1. KidFits(k)
    BY <1>0
  <2>2. Present(k)' /\ ~kid'[k].bound => kid'[k].said \subseteq Told(kid'[k].pipe)
    BY <2>1 DEF KidFits
  <2>3. Present(k)' /\ kid'[k].alone => \A j \in Kids : Present(j)' => j = k
    BY <2>1 DEF KidFits
  <2> QED BY <2>1, <2>2, <2>3 DEF KidFits
<1>3. LiveFits'
  <2> SUFFICES ASSUME live # NoChild
               PROVE  /\ Present(live)' /\ kid'[live].bound
                      /\ kid'[live].alone =>
                           /\ row.st = "active"
                           /\ "thread.started" \in kid'[live].said =>
                                "thread.started" \in Told(kid'[live].pipe) \/ row.thread = kid'[live].thread
    BY DEF LiveFits, Present
  <2>1. live \in Kids
    BY <1>0 DEF TurnTypeOK, Kids, NoChild
  <2> QED BY <1>0, <2>1 DEF LiveFits
<1>4. WaitFits'
  <2> SUFFICES ASSUME NEW h \in TurnSlots, resuming'[h].at = "startup"
               PROVE  \E c \in Kids : resuming'[h].child = c /\ Present(c)' /\ ~kid'[c].bound
    BY DEF WaitFits
  <2>1. resuming'[h] = resuming[h]
    OBVIOUS
  <2>2. PICK c \in Kids : resuming[h].child = c /\ Present(c) /\ ~kid[c].bound
    BY <1>0, <2>1 DEF WaitFits
  <2> QED BY <2>1, <2>2
<1> QED BY <1>1, <1>2, <1>3, <1>4 DEF TurnIInv

\* A child is closed: who waited for it does not wait any more, and if it was the
\* registered one, or any other was, none is registered now.
LEMMA ExitedKeeps ==
    ASSUME TurnIInv, NEW k \in Kids, kid[k].st = "ended", NEW code \in Codes, exited(k, code)
    PROVE  /\ TurnIInv'
           /\ row'.thread = row.thread
           /\ kid[k].said # {} => kid[k].bound
           /\ \A j \in Kids : kid'[j].st = "none" => j = k \/ ~Present(j)
<1>0. TurnTypeOK /\ (\A j \in Kids : KidFits(j)) /\ LiveFits /\ WaitFits
  BY DEF TurnIInv
<1>1. kid' = [kid EXCEPT ![k] = NoKid]
  BY DEF exited
<1>2. resuming' = [h \in TurnSlots |-> IF h \in Waiter(k) THEN Free ELSE resuming[h]]
  BY DEF exited
<1>3. /\ row' \in [st : {"none", "active", "ended"}, thread : 0 .. MaxThreads]
      /\ row'.thread = row.thread
  BY <1>0 DEF exited, TurnTypeOK
<1>4. live' = IF kid[k].bound \/ (Waiter(k) # {} /\ code = "zero") THEN NoChild ELSE live
  BY DEF exited
<1>5. kid[k].said # {} => kid[k].bound
  BY <1>0 DEF KidFits, Present, Told
<1>6. NoKid \in KidRows /\ Free \in Resumes /\ NoChild \in 0 .. MaxKids
  BY TurnAssumption DEF NoKid, KidRows, NoThread, Free, Resumes, NoChild
<1>7. TurnTypeOK'
  BY <1>0, <1>1, <1>2, <1>3, <1>4, <1>6 DEF TurnTypeOK
<1>8. kid'[k] = NoKid /\ \A j \in Kids \ {k} : kid'[j] = kid[j]
  BY <1>0, <1>1 DEF TurnTypeOK
<1>9. Present(k) /\ ~Present(k)' /\ \A j \in Kids \ {k} : Present(j)' <=> Present(j)
  BY <1>8 DEF Present, NoKid
<1>10. ASSUME NEW j \in Kids PROVE KidFits(j)'
  <2>1. CASE j = k
    BY <1>8, <1>9, <2>1 DEF KidFits, NoKid
  <2>2. CASE j # k
    BY <1>0, <1>8, <1>9, <2>2 DEF KidFits
  <2> QED BY <2>1, <2>2
<1>11. LiveFits'
  <2> SUFFICES ASSUME live' # NoChild PROVE LiveFits'
    BY DEF LiveFits
  <2>1. live' = live /\ ~kid[k].bound /\ live # NoChild
    BY <1>4
  <2>2. live \in Kids /\ Present(live) /\ kid[live].bound
    BY <1>0, <2>1 DEF LiveFits, TurnTypeOK, Kids, NoChild
  <2>3. live # k
    BY <2>1, <2>2
  <2>4. ~kid[live].alone
    BY <1>0, <1>9, <2>2, <2>3 DEF KidFits
  <2>5. kid'[live] = kid[live] /\ Present(live)'
    BY <1>8, <1>9, <2>1, <2>2, <2>3
  <2> QED BY <2>1, <2>2, <2>4, <2>5 DEF LiveFits, Present
<1>12. WaitFits'
  <2> SUFFICES ASSUME NEW h \in TurnSlots, resuming'[h].at = "startup"
               PROVE  \E c \in Kids : resuming'[h].child = c /\ Present(c)' /\ ~kid'[c].bound
    BY DEF WaitFits
  <2>1. resuming'[h] = resuming[h] /\ h \notin Waiter(k)
    BY <1>2 DEF Free
  <2>2. PICK c \in Kids : resuming[h].child = c /\ Present(c) /\ ~kid[c].bound
    BY <1>0, <2>1 DEF WaitFits
  <2>3. c # k
    BY <2>1, <2>2 DEF Waiter
  <2> QED BY <1>8, <1>9, <2>1, <2>2, <2>3
<1>13. TurnIInv'
  BY <1>7, <1>10, <1>11, <1>12 DEF TurnIInv
<1>14. \A j \in Kids : kid'[j].st = "none" => j = k \/ ~Present(j)
  BY <1>8 DEF Present
<1> QED BY <1>3, <1>5, <1>13, <1>14

\* A session is ended, or the server restarts: no child is registered.
LEMMA SilencedKeeps == ASSUME TurnIInv, endTurns \/ TurnRestart PROVE TurnIInv'
<1>0. TurnTypeOK /\ (\A j \in Kids : KidFits(j)) /\ LiveFits /\ WaitFits
  BY DEF TurnIInv
<1>1. live' = NoChild
  BY DEF endTurns, TurnRestart
<1>2. LiveFits'
  BY <1>1 DEF LiveFits
<1>3. CASE endTurns
  <2>1. /\ kid' = [k \in Kids |-> IF k = live THEN [kid[k] EXCEPT !.killed = TRUE] ELSE kid[k]]
        /\ row' = [row EXCEPT !.st = "ended"] /\ resuming' = resuming
    BY <1>3 DEF endTurns
  <2>2. ASSUME NEW k \in Kids
        PROVE  /\ kid'[k] \in KidRows /\ kid'[k].bound = kid[k].bound /\ kid'[k].pipe = kid[k].pipe
               /\ kid'[k].said = kid[k].said /\ kid'[k].alone = kid[k].alone
               /\ kid'[k].st = kid[k].st
    BY <1>0, <2>1 DEF TurnTypeOK, KidRows
  <2>3. TurnTypeOK'
    <3>1. kid' \in [Kids -> KidRows]
      BY <2>1, <2>2
    <3> QED BY <1>0, <1>1, <2>1, <3>1, TurnAssumption DEF TurnTypeOK, NoChild
  <2>4. \A k \in Kids : Present(k)' <=> Present(k)
    BY <2>2 DEF Present
  <2>5. ASSUME NEW k \in Kids PROVE KidFits(k)'
    <3>1. Present(k)' /\ ~kid'[k].bound => kid'[k].said \subseteq Told(kid'[k].pipe)
      BY <1>0, <2>2, <2>4 DEF KidFits
    <3>2. Present(k)' /\ kid'[k].alone => \A j \in Kids : Present(j)' => j = k
      BY <1>0, <2>2, <2>4 DEF KidFits
    <3> QED BY <1>0, <2>2, <3>1, <3>2 DEF KidFits
  <2>6. WaitFits'
    <3> SUFFICES ASSUME NEW h \in TurnSlots, resuming[h].at = "startup"
                 PROVE  \E c \in Kids : resuming[h].child = c /\ Present(c)' /\ ~kid'[c].bound
      BY <2>1 DEF WaitFits
    <3>1. PICK c \in Kids : resuming[h].child = c /\ Present(c) /\ ~kid[c].bound
      BY <1>0 DEF WaitFits
    <3> QED BY <2>2, <2>4, <3>1
  <2> QED BY <1>2, <2>3, <2>5, <2>6 DEF TurnIInv
<1>4. CASE TurnRestart
  <2>1. /\ kid' = [k \in Kids |-> IF Present(k) THEN Severed ELSE NoKid]
        /\ row' = row /\ resuming' = [h \in TurnSlots |-> Free]
    BY <1>4 DEF TurnRestart
  <2>2. NoKid \in KidRows /\ Free \in Resumes /\ NoChild \in 0 .. MaxKids
    BY TurnAssumption DEF NoKid, KidRows, NoThread, Free, Resumes, NoChild
  <2>3. Severed \in KidRows /\ Severed.st = "severed" /\ NoKid.st = "none"
    BY <2>2 DEF Severed, NoKid, KidRows
  <2>4. TurnTypeOK'
    BY <1>0, <1>1, <2>1, <2>2, <2>3 DEF TurnTypeOK
  <2>5. ASSUME NEW k \in Kids PROVE KidFits(k)'
    BY <2>1, <2>3 DEF KidFits, Present
  <2>6. WaitFits'
    BY <2>1 DEF WaitFits, Free
  <2> QED BY <1>2, <2>4, <2>5, <2>6 DEF TurnIInv
<1> QED BY <1>3, <1>4

\* What a step owes a child that leaves.
Heard(k) ==
    Present(k) /\ kid'[k].st = "none"
      => /\ kid[k].said # {} => kid[k].bound
         /\ kid[k].alone /\ "thread.started" \in kid[k].said /\ live = k
              => row'.thread = kid[k].thread

\* Every step keeps the invariant, and a child that leaves was heard.
LEMMA TurnStep == ASSUME TurnIInv, [TurnNext]_turnVars PROVE TurnIInv' /\ \A k \in Kids : Heard(k)
<1>0. TurnTypeOK /\ (\A j \in Kids : KidFits(j)) /\ LiveFits /\ WaitFits
  BY DEF TurnIInv
<1> DEFINE Stays == \A k \in Kids : Present(k) => kid'[k].st # "none"
<1>1. Stays => \A k \in Kids : Heard(k)
  BY DEF Heard
<1>2. CASE UNCHANGED turnVars
  <2>1. TurnIInv'
    BY <1>2 DEF turnVars, TurnIInv, TurnTypeOK, KidFits, LiveFits, WaitFits, Present
  <2>2. Stays
    BY <1>2 DEF turnVars, Present
  <2> QED BY <1>1, <2>1, <2>2
<1>3. ASSUME NEW k \in Kids, Data(k) PROVE TurnIInv' /\ Stays
  <2>1. PICK n \in 1 .. Len(kid[k].pipe) :
          push(k, SubSeq(kid[k].pipe, 1, n), [kid[k] EXCEPT !.pipe = SubSeq(@, n + 1, Len(@))])
    BY <1>3 DEF Data
  <2> DEFINE lines == SubSeq(kid[k].pipe, 1, n)
             rest == SubSeq(kid[k].pipe, n + 1, Len(kid[k].pipe))
             left == [kid[k] EXCEPT !.pipe = rest]
  <2>2. kid[k] \in KidRows /\ kid[k].pipe \in Seq(Lines) /\ kid[k].st \in {"running", "exited"}
    BY <1>0, <1>3 DEF TurnTypeOK, KidRows, Data
  <2>3. lines \in Seq(Lines) /\ rest \in Seq(Lines) /\ Told(kid[k].pipe) \subseteq Told(lines) \cup Told(rest)
    BY <2>2, ChunkSplits
  <2>4. push(k, lines, left)
    BY <2>1
  <2> HIDE DEF lines, rest
  <2>5. /\ left \in KidRows /\ left.pipe = rest /\ left.st = kid[k].st /\ left.thread = kid[k].thread
        /\ left.bound = kid[k].bound /\ left.said = kid[k].said /\ left.alone = kid[k].alone
    BY <2>2, <2>3 DEF KidRows
  <2> HIDE DEF left
  <2>6. TurnIInv'
    BY <2>2, <2>3, <2>4, <2>5, PushKeeps
  <2>7. Stays
    BY <1>0, <2>2, <2>3, <2>4, <2>5, PushKind
  <2> QED BY <2>6, <2>7
<1>4. ASSUME NEW k \in Kids, End(k) PROVE TurnIInv' /\ Stays
  <2> DEFINE lines == kid[k].pipe
             left == [kid[k] EXCEPT !.st = "ended", !.pipe = <<>>, !.ragged = FALSE]
  <2>1. push(k, lines, left) /\ kid[k].st = "exited"
    BY <1>4 DEF End
  <2>2. kid[k] \in KidRows /\ kid[k].pipe \in Seq(Lines) /\ <<>> \in Seq(Lines)
    BY <1>0 DEF TurnTypeOK, KidRows
  <2>3. /\ left \in KidRows /\ left.pipe = <<>> /\ left.st = "ended" /\ left.thread = kid[k].thread
        /\ left.bound = kid[k].bound /\ left.said = kid[k].said /\ left.alone = kid[k].alone
    BY <2>2 DEF KidRows
  <2> HIDE DEF left
  <2>4. TurnIInv'
    BY <2>1, <2>2, <2>3, PushKeeps
  <2>5. Stays
    BY <1>0, <2>1, <2>2, <2>3, PushKind
  <2> QED BY <2>4, <2>5
<1>5. ASSUME NEW k \in Kids, Close(k) PROVE TurnIInv' /\ \A j \in Kids : Heard(j)
  <2>1. PICK code \in Codes : exited(k, code)
    BY <1>5 DEF Close
  <2>2. kid[k].st = "ended"
    BY <1>5 DEF Close
  <2>3. /\ TurnIInv' /\ row'.thread = row.thread /\ (kid[k].said # {} => kid[k].bound)
        /\ \A j \in Kids : kid'[j].st = "none" => j = k \/ ~Present(j)
    BY <2>1, <2>2, ExitedKeeps
  <2>4. Heard(k)
    <3> SUFFICES ASSUME kid[k].alone, "thread.started" \in kid[k].said, live = k
                 PROVE  row.thread = kid[k].thread
      BY <2>3 DEF Heard
    <3>1. Told(kid[k].pipe) = {}
      BY <1>0, <2>2 DEF KidFits, Told
    <3>2. k # NoChild
      BY DEF Kids, NoChild
    <3> QED BY <1>0, <3>1, <3>2 DEF LiveFits
  <2> QED BY <2>3, <2>4 DEF Heard
<1>6. ASSUME NEW k \in Kids, Spawn(k) PROVE TurnIInv' /\ Stays
  <2>1. TurnIInv'
    BY <1>6, SpawnKeeps
  <2>2. PICK thread \in Threads, out \in Outputs, ragged \in BOOLEAN :
          kid' = started(k, thread, TRUE, out, ragged)
    BY <1>6 DEF Spawn
  <2>3. ~Present(k)
    BY <1>6 DEF Spawn, FreshKid
  <2>4. \A j \in Kids : Present(j)' <=> j = k \/ Present(j)
    BY <1>0, <2>2, <2>3, StartKeeps
  <2> QED BY <2>1, <2>4 DEF Present
<1>7. ASSUME NEW k \in Kids, Exit(k) PROVE TurnIInv' /\ Stays
  <2>1. /\ kid[k].st = "running" /\ kid' = [kid EXCEPT ![k].st = "exited"]
        /\ row' = row /\ live' = live /\ resuming' = resuming
    BY <1>7 DEF Exit
  <2>2. kid' \in [Kids -> KidRows]
    <3>1. [kid[k] EXCEPT !.st = "exited"] \in KidRows
      BY <1>0 DEF TurnTypeOK, KidRows
    <3> QED BY <1>0, <2>1, <3>1 DEF TurnTypeOK
  <2>3. ASSUME NEW j \in Kids
        PROVE  /\ kid'[j].bound = kid[j].bound /\ kid'[j].pipe = kid[j].pipe
               /\ kid'[j].said = kid[j].said /\ kid'[j].alone = kid[j].alone
               /\ kid'[j].thread = kid[j].thread
               /\ (kid'[j].st = "ended" <=> kid[j].st = "ended")
               /\ (Present(j)' <=> Present(j))
    BY <1>0, <2>1 DEF TurnTypeOK, KidRows, Present
  <2>4. TurnIInv'
    BY <1>0, <2>1, <2>2, <2>3, QuietTurns DEF TurnTypeOK
  <2> QED BY <2>3, <2>4 DEF Present
<1>8. ASSUME NEW h \in TurnSlots, Resume(h) PROVE TurnIInv' /\ Stays
  <2>1. /\ resuming' = [resuming EXCEPT ![h] = [at |-> "prepare", thread |-> row.thread, child |-> NoChild]]
        /\ row' = row /\ live' = live /\ kid' = kid
    BY <1>8 DEF Resume
  <2>2. [at |-> "prepare", thread |-> row.thread, child |-> NoChild] \in Resumes
    BY <1>0, TurnAssumption DEF TurnTypeOK, Resumes, NoChild
  <2>3. /\ resuming' \in [TurnSlots -> Resumes]
        /\ \A g \in TurnSlots : resuming'[g].at = "startup" => resuming'[g] = resuming[g]
    BY <1>0, <2>1, <2>2 DEF TurnTypeOK
  <2>4. \A j \in Kids : kid'[j] = kid[j] /\ (Present(j)' <=> Present(j))
    BY <2>1 DEF Present
  <2>5. TurnIInv'
    BY <1>0, <2>1, <2>3, <2>4, QuietTurns DEF TurnTypeOK
  <2> QED BY <2>4, <2>5 DEF Present
<1>9. ASSUME NEW h \in TurnSlots, NEW k \in Kids, Launch(h, k) PROVE TurnIInv' /\ Stays
  <2>1. TurnIInv'
    BY <1>9, LaunchKeeps
  <2>2. Stays
    <3>1. CASE kid' = kid
      BY <3>1 DEF Present
    <3>2. CASE FreshKid(k) /\ \E thread \in Threads, out \in Outputs, ragged \in BOOLEAN :
                                 kid' = started(k, thread, FALSE, out, ragged)
      <4>1. PICK thread \in Threads, out \in Outputs, ragged \in BOOLEAN :
              kid' = started(k, thread, FALSE, out, ragged)
        BY <3>2
      <4>2. ~Present(k) /\ FALSE \in BOOLEAN
        BY <3>2 DEF FreshKid
      <4>3. \A j \in Kids : Present(j)' <=> j = k \/ Present(j)
        BY <1>0, <4>1, <4>2, StartKeeps
      <4> QED BY <4>3 DEF Present
    <3> QED BY <1>9, <3>1, <3>2 DEF Launch
  <2> QED BY <2>1, <2>2
<1>10. ASSUME endTurns \/ TurnRestart PROVE TurnIInv' /\ Stays
  <2>1. TurnIInv'
    BY <1>10, SilencedKeeps
  <2>2. ASSUME endTurns PROVE Stays
    <3>1. kid' = [k \in Kids |-> IF k = live THEN [kid[k] EXCEPT !.killed = TRUE] ELSE kid[k]]
      BY <2>2 DEF endTurns
    <3>2. ASSUME NEW k \in Kids PROVE kid'[k].st = kid[k].st
      BY <1>0, <3>1 DEF TurnTypeOK, KidRows
    <3> QED BY <3>2 DEF Present
  <2>3. ASSUME TurnRestart PROVE Stays
    <3>1. kid' = [k \in Kids |-> IF Present(k) THEN Severed ELSE NoKid]
      BY <2>3 DEF TurnRestart
    <3>2. Severed.st = "severed"
      BY DEF Severed, NoKid
    <3>3. \A k \in Kids : Present(k) => kid'[k] = Severed
      BY <3>1
    <3> QED BY <3>2, <3>3
  <2> QED BY <1>10, <2>1, <2>2, <2>3
<1> HIDE DEF Stays
<1> QED BY <1>1, <1>2, <1>3, <1>4, <1>5, <1>6, <1>7, <1>8, <1>9, <1>10 DEF TurnNext

\* It starts in it.
LEMMA TurnStart == TurnInit => TurnIInv
<1> SUFFICES ASSUME TurnInit PROVE TurnIInv
  OBVIOUS
<1>1. NoKid \in KidRows /\ Free \in Resumes /\ NoChild \in 0 .. MaxKids /\ NoThread \in 0 .. MaxThreads
  BY TurnAssumption DEF NoKid, KidRows, NoThread, Free, Resumes, NoChild
<1>2. TurnTypeOK
  BY <1>1 DEF TurnInit, TurnTypeOK
<1> QED BY <1>2 DEF TurnIInv, TurnInit, KidFits, LiveFits, WaitFits, Present, NoKid, Free

\* A child of a codex session that leaves was heard: what it announced before it left
\* bound it to its session, and the thread of a turn that had the session for itself
\* is in the row (bindRuntimeEvents, push and the exit callbacks of spawn-agent.ts).
THEOREM EveryTurnIsHeard == TurnSpec => TurnHeard
<1>1. TurnInit => TurnIInv
  BY TurnStart
<1>2. TurnIInv /\ [TurnNext]_turnVars => TurnIInv'
  BY TurnStep
<1>3. TurnIInv /\ [TurnNext]_turnVars =>
        [\A k \in Kids : Present(k) /\ kid'[k].st = "none"
           => /\ kid[k].said # {} => kid[k].bound
              /\ kid[k].alone /\ "thread.started" \in kid[k].said /\ live = k
                   => row'.thread = kid[k].thread]_turnVars
  BY TurnStep DEF Heard
<1> QED BY <1>1, <1>2, <1>3, PTL DEF TurnSpec, TurnHeard

-----------------------------------------------------------------------------
(* The elements of a list at some of its places (Subsequences), which the  *)
(* task history and the transcripts are read with.                         *)

\* A list of anything.
IsSeq(s) == \E S : s \in Seq(S)

\* A function on the first naturals is a list.
LEMMA SeqMade ==
  ASSUME NEW n \in Nat, NEW s, s = [k \in 1 .. n |-> s[k]]
  PROVE  IsSeq(s) /\ Len(s) = n
<1> DEFINE S == {s[k] : k \in 1 .. n}
<1>1. s \in [1 .. n -> S]
  OBVIOUS
<1> HIDE DEF S
<1>2. s \in Seq(S) /\ Len(s) = n
  BY <1>1
<1> QED BY <1>2 DEF IsSeq

\* A set of naturals that is not empty has a least element.
LEMMA LeastNat == ASSUME NEW T \in SUBSET Nat, T # {}
                  PROVE  \E x \in T : \A y \in T : x <= y
<1> DEFINE R == OpToRel(<, Nat)
<1>1. \A x, y \in Nat : y < x => <<y, x>> \in R
  BY DEF OpToRel
<1>2. IsWellFoundedOn(R, Nat)
  BY NatLessThanWellFounded
<1> HIDE DEF R
<1>3. PICK x \in T : \A y \in T : ~(<<y, x>> \in R)
  BY <1>2, WFMin
<1>4. \A y \in T : ~(y < x)
  BY <1>1, <1>3
<1>5. \A y \in T : x <= y
  BY <1>4
<1> QED BY <1>5

\* The places of a list up to n that are in I.
Below(I, n) == {j \in I : j <= n}

\* Places are finitely many, and so are those up to one of them.
LEMMA PlacesFinite ==
  ASSUME NEW n \in Nat, NEW I \in SUBSET (1 .. n)
  PROVE  /\ IsFiniteSet(I) /\ Cardinality(I) \in Nat
         /\ \A m : IsFiniteSet(Below(I, m)) /\ Cardinality(Below(I, m)) \in Nat
<1>1. IsFiniteSet(1 .. n)
  BY FS_Interval
<1>2. IsFiniteSet(I)
  BY <1>1, FS_Subset
<1>3. ASSUME NEW m PROVE IsFiniteSet(Below(I, m))
  <2>1. Below(I, m) \subseteq I
    BY DEF Below
  <2> QED BY <1>2, <2>1, FS_Subset
<1> QED BY <1>2, <1>3, FS_CardinalityType

\* Every number up to the number of places is the rank of one place.
LEMMA RankExists ==
  ASSUME NEW n \in Nat, NEW I \in SUBSET (1 .. n), NEW k \in 1 .. Cardinality(I)
  PROVE  \E i \in I : Rank(I, i) = k
<1> DEFINE c(m) == Cardinality(Below(I, m))
           T == {m \in Nat : c(m) >= k}
<1>0. k \in Nat /\ k >= 1
  BY PlacesFinite
<1>01. \A j \in I : j \in Nat /\ 1 <= j /\ j <= n
  OBVIOUS
<1>1. n \in T
  <2>1. Below(I, n) = I
    BY <1>01 DEF Below
  <2> QED BY <2>1, PlacesFinite
<1>2. PICK m \in T : \A y \in T : m <= y
  BY <1>1, LeastNat
<1>3. m \in Nat /\ c(m) >= k
  OBVIOUS
<1>4. m # 0
  <2>3. \A j \in I : ~(j <= 0)
    BY <1>01
  <2>1. Below(I, 0) = {}
    BY <2>3 DEF Below
  <2>2. c(0) = 0
    BY <2>1, FS_EmptySet
  <2> QED BY <1>0, <1>3, <2>2
<1>5. m - 1 \in Nat /\ m - 1 \notin T
  BY <1>2, <1>3, <1>4
<1>6. c(m - 1) < k /\ c(m - 1) \in Nat /\ c(m) \in Nat
  <2>1. c(m - 1) \in Nat /\ c(m) \in Nat
    BY PlacesFinite
  <2>2. ~(c(m - 1) >= k)
    BY <1>5
  <2> HIDE DEF c
  <2> QED BY <2>1, <2>2, <1>0
<1>7. m \in I
  <2> SUFFICES ASSUME m \notin I PROVE FALSE
    OBVIOUS
  <2>1. \A j \in I : j <= m <=> j <= m - 1
    <3>1. m \in Nat
      BY <1>3
    <3> HIDE DEF T
    <3> QED BY <1>01, <3>1
  <2>3. Below(I, m) = Below(I, m - 1)
    BY <2>1 DEF Below
  <2>2. c(m) = c(m - 1)
    BY <2>3
  <2> HIDE DEF c
  <2> QED BY <1>3, <1>6, <2>2, <1>0
<1>8. c(m) = c(m - 1) + 1
  <2>0. /\ \A j \in I : j <= m <=> j <= m - 1 \/ j = m
        /\ ~(m <= m - 1)
    <3>1. m \in Nat
      BY <1>3
    <3> HIDE DEF T
    <3> QED BY <1>01, <3>1
  <2>1. Below(I, m) = Below(I, m - 1) \cup {m} /\ m \notin Below(I, m - 1)
    BY <2>0, <1>7 DEF Below
  <2>2. IsFiniteSet(Below(I, m - 1))
    BY PlacesFinite
  <2> QED BY <2>1, <2>2, FS_AddElement
<1>9. c(m) = k
  <2> HIDE DEF c
  <2> QED BY <1>0, <1>3, <1>6, <1>8
<1>10. Rank(I, m) = k
  BY <1>9 DEF Rank, Below
<1> QED BY <1>7, <1>10

\* And of no other.
LEMMA RankUnique ==
  ASSUME NEW n \in Nat, NEW I \in SUBSET (1 .. n), NEW i \in I, NEW j \in I, Rank(I, i) = Rank(I, j)
  PROVE  i = j
<1>1. ASSUME NEW a \in I, NEW b \in I, a < b PROVE Rank(I, a) # Rank(I, b)
  <2>0. /\ \A x \in I : x <= a => x <= b
        /\ b <= b /\ ~(b <= a)
    BY <1>1
  <2>1. Below(I, a) \subseteq Below(I, b)
    BY <2>0 DEF Below
  <2>2. b \in Below(I, b) /\ b \notin Below(I, a)
    BY <2>0 DEF Below
  <2>3. IsFiniteSet(Below(I, b))
    BY PlacesFinite
  <2>4. Cardinality(Below(I, b)) # Cardinality(Below(I, a))
    BY <2>1, <2>2, <2>3, FS_Subset
  <2> QED BY <2>4 DEF Rank, Below
<1>2. i \in Nat /\ j \in Nat
  OBVIOUS
<1>3. i < j \/ j < i \/ i = j
  BY <1>2
<1> QED BY <1>1, <1>3

\* The k-th element is the one at the place of rank k.
LEMMA ElementsForm ==
  ASSUME NEW s, NEW n \in Nat, NEW I \in SUBSET (1 .. n)
  PROVE  /\ IsSeq(ElementsAt(s, I)) /\ Len(ElementsAt(s, I)) = Cardinality(I)
         /\ ElementsAt(s, I) = [k \in 1 .. Cardinality(I) |-> ElementsAt(s, I)[k]]
         /\ Cardinality(I) \in Nat
         /\ \A i \in I : Rank(I, i) \in 1 .. Cardinality(I) /\ ElementsAt(s, I)[Rank(I, i)] = s[i]
         /\ \A k \in 1 .. Cardinality(I) : \E i \in I : Rank(I, i) = k
<1> DEFINE e == ElementsAt(s, I)
           c == Cardinality(I)
<1>1. c \in Nat
  BY PlacesFinite
<1>2. e = [k \in 1 .. c |-> e[k]]
  BY DEF ElementsAt
<1>3. IsSeq(e) /\ Len(e) = c
  <2> HIDE DEF e, c
  <2> QED BY <1>1, <1>2, SeqMade
<1>4. ASSUME NEW i \in I PROVE Rank(I, i) \in 1 .. c /\ e[Rank(I, i)] = s[i]
  <2>1. Rank(I, i) = Cardinality(Below(I, i))
    BY DEF Rank, Below
  <2>2. Below(I, i) \subseteq I /\ i \in Below(I, i)
    BY DEF Below
  <2>3. Cardinality(Below(I, i)) <= c /\ Cardinality(Below(I, i)) \in Nat
    BY <2>2, PlacesFinite, FS_Subset
  <2>4. Cardinality(Below(I, i)) # 0
    BY <2>2, PlacesFinite, FS_EmptySet
  <2>5. Rank(I, i) \in 1 .. c
    BY <1>1, <2>1, <2>3, <2>4
  <2> DEFINE k == Rank(I, i)
             j == CHOOSE x \in I : Rank(I, x) = k
  <2>6. j \in I /\ Rank(I, j) = k
    OBVIOUS
  <2> HIDE DEF j
  <2>7. j = i
    BY <2>6, RankUnique
  <2>8. e[k] = s[j]
    BY <2>5 DEF ElementsAt, j
  <2> QED BY <2>5, <2>7, <2>8
<1>5. \A k \in 1 .. c : \E i \in I : Rank(I, i) = k
  BY RankExists
<1> QED BY <1>1, <1>2, <1>3, <1>4, <1>5

\* The elements depend on nothing but what is at the places.
LEMMA ElementsSame ==
  ASSUME NEW s, NEW t, NEW n \in Nat, NEW I \in SUBSET (1 .. n), \A i \in I : s[i] = t[i]
  PROVE  ElementsAt(s, I) = ElementsAt(t, I)
<1> DEFINE c == Cardinality(I)
           e == ElementsAt(s, I)
           f == ElementsAt(t, I)
<1>1. e = [k \in 1 .. c |-> e[k]] /\ f = [k \in 1 .. c |-> f[k]]
  BY DEF ElementsAt
<1>2. ASSUME NEW k \in 1 .. c PROVE e[k] = f[k]
  <2>1. PICK i \in I : Rank(I, i) = k
    BY RankExists
  <2>2. e[Rank(I, i)] = s[i] /\ f[Rank(I, i)] = t[i]
    BY ElementsForm
  <2> QED BY <2>1, <2>2
<1> HIDE DEF e, f, c
<1>3. e = f
  BY <1>1, <1>2
<1> QED BY <1>3 DEF e, f

\* A list starts with another one.
StartsWith(f, e) == \A k \in 1 .. Len(e) : f[k] = e[k]

\* One more place, behind the others, is one more element at the end.
LEMMA ElementsGrow ==
  ASSUME NEW s, NEW n \in Nat, NEW I \in SUBSET (1 .. n), NEW m \in Nat, m > n
  PROVE  /\ Len(ElementsAt(s, I \cup {m})) = Len(ElementsAt(s, I)) + 1
         /\ ElementsAt(s, I \cup {m})[Len(ElementsAt(s, I)) + 1] = s[m]
         /\ StartsWith(ElementsAt(s, I \cup {m}), ElementsAt(s, I))
<1> DEFINE J == I \cup {m}
           e == ElementsAt(s, I)
           f == ElementsAt(s, J)
<1>1. J \in SUBSET (1 .. m) /\ m \notin I
  OBVIOUS
<1>2. Cardinality(J) = Cardinality(I) + 1
  BY <1>1, PlacesFinite, FS_AddElement
<1>3. Len(e) = Cardinality(I) /\ Cardinality(I) \in Nat
  BY ElementsForm
<1>4. Len(f) = Cardinality(J)
  BY <1>1, ElementsForm
<1>5. Rank(J, m) = Cardinality(J)
  <2>0. \A j \in J : j <= m
    BY <1>1
  <2> HIDE DEF J
  <2>1. {j \in J : j <= m} = J
    BY <2>0
  <2> QED BY <2>1 DEF Rank
<1>6. f[Rank(J, m)] = s[m]
  <2>1. m \in J
    OBVIOUS
  <2> HIDE DEF J
  <2> QED BY <1>1, <2>1, ElementsForm
<1>7. ASSUME NEW k \in 1 .. Cardinality(I) PROVE f[k] = e[k]
  <2>1. PICK i \in I : Rank(I, i) = k
    BY RankExists
  <2>2. {j \in J : j <= i} = {j \in I : j <= i}
    OBVIOUS
  <2>3. Rank(J, i) = k
    BY <2>1, <2>2 DEF Rank
  <2>4. e[Rank(I, i)] = s[i]
    BY ElementsForm
  <2>5. f[Rank(J, i)] = s[i]
    <3>1. i \in J
      OBVIOUS
    <3> HIDE DEF J
    <3> QED BY <1>1, <3>1, ElementsForm
  <2> QED BY <2>1, <2>3, <2>4, <2>5
<1> HIDE DEF e, f
<1>8. StartsWith(f, e)
  BY <1>3, <1>7 DEF StartsWith
<1> QED BY <1>2, <1>3, <1>4, <1>5, <1>6, <1>8 DEF e, f

\* No place, no element; one place, one element.
LEMMA ElementsFew ==
  ASSUME NEW s
  PROVE  /\ ElementsAt(s, {}) = <<>>
         /\ \A i \in Nat : ElementsAt(s, {i}) = <<s[i]>>
<1>1. ElementsAt(s, {}) = <<>>
  BY FS_EmptySet DEF ElementsAt
<1>2. ASSUME NEW i \in Nat PROVE ElementsAt(s, {i}) = <<s[i]>>
  <2> DEFINE e == ElementsAt(s, {i})
  <2>1. Cardinality({i}) = 1
    BY FS_Singleton
  <2>2. {j \in {i} : j <= i} = {i}
    OBVIOUS
  <2>3. Rank({i}, i) = 1
    BY <2>1, <2>2 DEF Rank
  <2>4. (CHOOSE j \in {i} : Rank({i}, j) = 1) = i
    BY <2>3
  <2>7. e = [k \in 1 .. 1 |-> s[CHOOSE j \in {i} : Rank({i}, j) = k]]
    BY <2>1 DEF ElementsAt
  <2> DEFINE place(k) == CHOOSE j \in {i} : Rank({i}, j) = k
  <2>5. e = [k \in 1 .. 1 |-> s[place(k)]] /\ place(1) = i
    BY <2>4, <2>7
  <2> HIDE DEF e, place
  <2>8. e = [k \in 1 .. 1 |-> e[k]] /\ e[1] = s[i]
    BY <2>5
  <2>6. e = <<s[i]>>
    BY <2>8
  <2> QED BY <2>6 DEF e
<1> QED BY <1>1, <1>2

-----------------------------------------------------------------------------
(* The history of an agent's tasks (Hooks).                                *)

Statuses == {"pending", "in_progress", "completed"}
ItemOK(r) == \E x, y, z : r = [id |-> x, content |-> y, status |-> z] /\ z \in Statuses

\* A task list: no two tasks with one id.
TaskList(list) ==
  /\ IsSeq(list)
  /\ \A k \in DOMAIN list : ItemOK(list[k])
  /\ \A i, j \in DOMAIN list : list[i].id = list[j].id => i = j

\* The only status that a call can set is one of a task that is there.
DoneOK(d) == d.kind = "status" => d.status \in {"in_progress", "completed"}

After(m) == IF m.new = "removed" THEN "(absent)" ELSE m.new

\* In a task list the status of an id is the one its task has.
LEMMA StatusAt ==
  ASSUME NEW list, TaskList(list)
  PROVE  /\ \A k \in DOMAIN list : /\ statusIn(list, list[k].id) = list[k].status
                                   /\ list[k].status \in Statuses
         /\ \A id : (\A k \in DOMAIN list : list[k].id # id) => statusIn(list, id) = "(absent)"
<1>1. ASSUME NEW k \in DOMAIN list
      PROVE  statusIn(list, list[k].id) = list[k].status /\ list[k].status \in Statuses
  <2>1. PICK x, y, z : list[k] = [id |-> x, content |-> y, status |-> z] /\ z \in Statuses
    BY DEF TaskList, ItemOK
  <2> DEFINE c == CHOOSE i \in DOMAIN list : list[i].id = list[k].id
  <2>2. c \in DOMAIN list /\ list[c].id = list[k].id
    OBVIOUS
  <2>3. statusIn(list, list[k].id) = list[c].status
    BY DEF statusIn
  <2> HIDE DEF c
  <2>4. c = k
    BY <2>2 DEF TaskList
  <2> QED BY <2>1, <2>3, <2>4
<1>2. ASSUME NEW id, \A k \in DOMAIN list : list[k].id # id PROVE statusIn(list, id) = "(absent)"
  BY <1>2 DEF statusIn
<1> QED BY <1>1, <1>2

\* Two lists that differ in one task at most differ in one row at most, and it says how.
LEMMA DiffOne ==
  ASSUME NEW old, NEW new, TaskList(old), TaskList(new), NEW i,
         \A id : id # i => statusIn(new, id) = statusIn(old, id)
  PROVE  \/ diffTransitions(old, new) = <<>> /\ statusIn(new, i) = statusIn(old, i)
         \/ \E move : /\ diffTransitions(old, new) = <<move>> /\ move.id = i
                     /\ move.prev = statusIn(old, i) /\ statusIn(new, i) = After(move)
<1> DEFINE C == {k \in DOMAIN new : statusIn(old, new[k].id) # new[k].status}
           G == {k \in DOMAIN old : statusIn(new, old[k].id) = "(absent)"}
           changed == ElementsAt(new, C)
           gone == ElementsAt(old, G)
           rowsC == [k \in DOMAIN changed |->
                      [id |-> changed[k].id, phase |-> changed[k].content,
                       prev |-> statusIn(old, changed[k].id), new |-> changed[k].status]]
           rowsG == [k \in DOMAIN gone |-> [id |-> gone[k].id, phase |-> gone[k].content,
                                            prev |-> gone[k].status, new |-> "removed"]]
<1>1. diffTransitions(old, new) = rowsC \o rowsG
  BY DEF diffTransitions
<1>2. /\ \A k \in DOMAIN new : statusIn(new, new[k].id) = new[k].status /\ new[k].status \in Statuses
      /\ \A k \in DOMAIN old : statusIn(old, old[k].id) = old[k].status /\ old[k].status \in Statuses
      /\ \A id : (\A k \in DOMAIN new : new[k].id # id) => statusIn(new, id) = "(absent)"
      /\ \A id : (\A k \in DOMAIN old : old[k].id # id) => statusIn(old, id) = "(absent)"
  BY StatusAt
<1>3. \A s \in Statuses : s # "(absent)" /\ s # "removed"
  BY DEF Statuses
<1>4. \A k \in C : new[k].id = i
  BY <1>2
<1>5. \A k \in G : old[k].id = i
  BY <1>2, <1>3
<1>6. (\A k \in DOMAIN old : k \in Nat) /\ (\A k \in DOMAIN new : k \in Nat)
  BY DEF TaskList, IsSeq
<1>7. CASE C = {} /\ G = {}
  <2>1. rowsC = <<>> /\ rowsG = <<>>
    <3>1. changed = <<>> /\ gone = <<>>
      BY <1>7, ElementsFew
    <3> HIDE DEF changed, gone
    <3> QED BY <3>1
  <2>2. statusIn(new, i) = statusIn(old, i)
    <3>1. CASE \E k \in DOMAIN new : new[k].id = i
      BY <1>2, <1>7, <3>1
    <3>2. CASE ~(\E k \in DOMAIN new : new[k].id = i)
      <4>1. statusIn(new, i) = "(absent)"
        BY <1>2, <3>2
      <4>2. \A k \in DOMAIN old : old[k].id # i
        BY <1>7, <4>1
      <4> QED BY <1>2, <4>1, <4>2
    <3> QED BY <3>1, <3>2
  <2>3. diffTransitions(old, new) = <<>>
    <3> HIDE DEF rowsC, rowsG
    <3> QED BY <1>1, <2>1
  <2> QED BY <2>2, <2>3
<1>8. ASSUME NEW c \in C
      PROVE  \E move : /\ diffTransitions(old, new) = <<move>> /\ move.id = i
                      /\ move.prev = statusIn(old, i) /\ statusIn(new, i) = After(move)
  <2>1. new[c].id = i /\ statusIn(new, i) = new[c].status /\ new[c].status \in Statuses /\ c \in Nat
    BY <1>2, <1>4, <1>6
  <2>2. C = {c}
    BY <1>4 DEF TaskList
  <2>3. G = {}
    BY <1>3, <1>5, <2>1
  <2> DEFINE move == [id |-> new[c].id, phase |-> new[c].content,
                     prev |-> statusIn(old, new[c].id), new |-> new[c].status]
  <2>4. changed = <<new[c]>> /\ gone = <<>>
    BY <2>1, <2>2, <2>3, ElementsFew
  <2> HIDE DEF changed, gone, C, G
  <2>5. rowsC = <<move>> /\ rowsG = <<>>
    BY <2>4
  <2>6. move.id = i /\ move.prev = statusIn(old, i) /\ statusIn(new, i) = After(move)
    BY <1>3, <2>1 DEF After
  <2> HIDE DEF rowsC, rowsG, move
  <2>7. diffTransitions(old, new) = <<move>>
    BY <1>1, <2>5
  <2> QED BY <2>6, <2>7
<1>9. ASSUME C = {}, NEW g \in G
      PROVE  \E move : /\ diffTransitions(old, new) = <<move>> /\ move.id = i
                      /\ move.prev = statusIn(old, i) /\ statusIn(new, i) = After(move)
  <2>1. old[g].id = i /\ statusIn(new, i) = "(absent)" /\ statusIn(old, i) = old[g].status /\ g \in Nat
    BY <1>2, <1>5, <1>6
  <2>2. G = {g}
    BY <1>5 DEF TaskList
  <2> DEFINE move == [id |-> old[g].id, phase |-> old[g].content,
                     prev |-> old[g].status, new |-> "removed"]
  <2>4. changed = <<>> /\ gone = <<old[g]>>
    BY <1>9, <2>1, <2>2, ElementsFew
  <2> HIDE DEF changed, gone, C, G
  <2>5. rowsC = <<>> /\ rowsG = <<move>>
    BY <2>4
  <2>6. move.id = i /\ move.prev = statusIn(old, i) /\ statusIn(new, i) = After(move)
    BY <2>1 DEF After
  <2> HIDE DEF rowsC, rowsG, move
  <2>7. diffTransitions(old, new) = <<move>>
    BY <1>1, <2>5
  <2> QED BY <2>6, <2>7
<1> QED BY <1>7, <1>8, <1>9

\* Lists with the same tasks at the same places, of which one may have changed.
LEMMA SamePlaces ==
  ASSUME NEW old, TaskList(old), NEW new, NEW i, new = [k \in DOMAIN old |-> new[k]],
         \A k \in DOMAIN old : ItemOK(new[k]) /\ new[k].id = old[k].id /\ (old[k].id # i => new[k].status = old[k].status)
  PROVE  /\ TaskList(new)
         /\ \A id : id # i => statusIn(new, id) = statusIn(old, id)
<1>1. PICK n \in Nat : DOMAIN old = 1 .. n
  BY DEF TaskList, IsSeq
<1>2. IsSeq(new) /\ DOMAIN new = DOMAIN old
  BY <1>1, SeqMade
<1>3. TaskList(new)
  BY <1>2 DEF TaskList
<1>4. ASSUME NEW id, id # i PROVE statusIn(new, id) = statusIn(old, id)
  <2>1. ASSUME NEW k \in DOMAIN old, old[k].id = id PROVE statusIn(new, id) = statusIn(old, id)
    BY <1>2, <1>3, <1>4, <2>1, StatusAt
  <2>2. CASE \A k \in DOMAIN old : old[k].id # id
    <3>1. statusIn(old, id) = "(absent)"
      BY <2>2, StatusAt
    <3>2. \A k \in DOMAIN new : new[k].id # id
      BY <1>2, <2>2
    <3>3. statusIn(new, id) = "(absent)"
      BY <1>3, <3>2, StatusAt
    <3> QED BY <3>1, <3>3
  <2> QED BY <2>1, <2>2
<1> QED BY <1>3, <1>4

\* A call changes one task of a list at most.
LEMMA ReduceOne ==
  ASSUME NEW list, TaskList(list), NEW m, DoneOK(m)
  PROVE  /\ TaskList(reduce(list, m))
         /\ \A id : id # m.id => statusIn(reduce(list, m), id) = statusIn(list, id)
<1> DEFINE new == reduce(list, m)
<1>0. \A k \in DOMAIN list : ItemOK(list[k])
  BY DEF TaskList
<1>1. CASE m.kind = "create" /\ \E k \in DOMAIN list : list[k].id = m.id
  <2> DEFINE item == [id |-> m.id, content |-> m.content, status |-> "pending"]
  <2>1. new = [k \in DOMAIN list |-> IF list[k].id = m.id THEN item ELSE list[k]]
    BY <1>1 DEF reduce
  <2>2. ItemOK(item) /\ item.id = m.id
    BY DEF ItemOK, Statuses
  <2> HIDE DEF item, new
  <2>3. /\ new = [k \in DOMAIN list |-> new[k]]
        /\ \A k \in DOMAIN list : new[k] = IF list[k].id = m.id THEN item ELSE list[k]
    BY <2>1
  <2>4. \A k \in DOMAIN list : ItemOK(new[k]) /\ new[k].id = list[k].id /\ (list[k].id # m.id => new[k].status = list[k].status)
    BY <1>0, <2>2, <2>3
  <2>5. TaskList(new) /\ \A id : id # m.id => statusIn(new, id) = statusIn(list, id)
    BY <2>3, <2>4, SamePlaces
  <2> QED BY <2>5 DEF new
<1>2. CASE m.kind = "create" /\ ~(\E k \in DOMAIN list : list[k].id = m.id)
  <2> DEFINE item == [id |-> m.id, content |-> m.content, status |-> "pending"]
             n == Len(list) + 1
  <2>1. new = Append(list, item)
    BY <1>2 DEF reduce
  <2>2. ItemOK(item) /\ item.id = m.id
    BY DEF ItemOK, Statuses
  <2> HIDE DEF item, new
  <2>3. PICK S : list \in Seq(S)
    BY DEF TaskList, IsSeq
  <2>4. list \in Seq(S \cup {item}) /\ item \in S \cup {item}
    BY <2>3, SeqMonotonic
  <2>5. /\ new \in Seq(S \cup {item}) /\ DOMAIN new = 1 .. n /\ n \in Nat /\ n >= 1 /\ new[n] = item
        /\ DOMAIN list = 1 .. n - 1 /\ \A k \in DOMAIN list : new[k] = list[k]
    BY <2>1, <2>4
  <2> HIDE DEF n
  <2>6. /\ \A k \in DOMAIN new : k = n \/ k \in DOMAIN list
        /\ \A k \in DOMAIN list : k \in DOMAIN new /\ k # n
    BY <2>5
  <2>7. IsSeq(new) /\ \A k \in DOMAIN new : ItemOK(new[k])
    BY <1>0, <2>2, <2>5, <2>6 DEF IsSeq
  <2>8. ASSUME NEW i \in DOMAIN new, NEW j \in DOMAIN new, new[i].id = new[j].id PROVE i = j
    <3>1. CASE i = n
      BY <1>2, <2>2, <2>5, <2>6, <2>8, <3>1
    <3>2. CASE j = n
      BY <1>2, <2>2, <2>5, <2>6, <2>8, <3>2
    <3>3. CASE i # n /\ j # n
      BY <2>5, <2>6, <2>8, <3>3 DEF TaskList
    <3> QED BY <3>1, <3>2, <3>3
  <2>9. TaskList(new)
    BY <2>7, <2>8 DEF TaskList
  <2>10. ASSUME NEW id, id # m.id PROVE statusIn(new, id) = statusIn(list, id)
    <3>1. ASSUME NEW k \in DOMAIN list, list[k].id = id PROVE statusIn(new, id) = statusIn(list, id)
      BY <2>5, <2>6, <2>9, <3>1, StatusAt
    <3>2. CASE \A k \in DOMAIN list : list[k].id # id
      <4>1. \A k \in DOMAIN new : new[k].id # id
        BY <2>2, <2>5, <2>6, <2>10, <3>2
      <4> QED BY <2>9, <3>2, <4>1, StatusAt
    <3> QED BY <3>1, <3>2
  <2> QED BY <2>9, <2>10 DEF new
<1>3. CASE m.kind = "remove"
  <2> DEFINE I == {k \in DOMAIN list : list[k].id # m.id}
             c == Cardinality(I)
  <2>1. new = ElementsAt(list, I)
    BY <1>3 DEF reduce
  <2>2. PICK n \in Nat : DOMAIN list = 1 .. n
    BY DEF TaskList, IsSeq
  <2>3. I \in SUBSET (1 .. n)
    BY <2>2
  <2>4. /\ IsSeq(new) /\ DOMAIN new = 1 .. c
        /\ \A i \in I : Rank(I, i) \in 1 .. c /\ new[Rank(I, i)] = list[i]
        /\ \A k \in 1 .. c : \E i \in I : Rank(I, i) = k
    <3> HIDE DEF new, I
    <3>1. IsSeq(new) /\ new = [k \in 1 .. c |-> new[k]]
      <4>1. /\ IsSeq(ElementsAt(list, I))
            /\ ElementsAt(list, I) = [k \in 1 .. Cardinality(I) |-> ElementsAt(list, I)[k]]
        BY <2>2, <2>3, ElementsForm
      <4> QED BY <2>1, <4>1
    <3>2. \A i \in I : Rank(I, i) \in 1 .. c /\ new[Rank(I, i)] = list[i]
      BY <2>1, <2>3, ElementsForm
    <3>3. \A k \in 1 .. c : \E i \in I : Rank(I, i) = k
      BY <2>3, ElementsForm
    <3> QED BY <3>1, <3>2, <3>3
  <2>5. \A i \in I : i \in DOMAIN list /\ list[i].id # m.id
    OBVIOUS
  <2>6. \A i \in DOMAIN list : list[i].id # m.id => i \in I
    OBVIOUS
  <2> HIDE DEF new, I, c
  <2>7. \A k \in DOMAIN new : \E i \in I : Rank(I, i) = k /\ new[k] = list[i]
    BY <2>4
  <2>8. \A k \in DOMAIN new : ItemOK(new[k])
    BY <1>0, <2>5, <2>7
  <2>9. ASSUME NEW k \in DOMAIN new, NEW j \in DOMAIN new, new[k].id = new[j].id PROVE k = j
    <3>1. PICK x \in I : Rank(I, x) = k /\ new[k] = list[x]
      BY <2>7
    <3>2. PICK y \in I : Rank(I, y) = j /\ new[j] = list[y]
      BY <2>7
    <3>3. x = y
      BY <2>5, <2>9, <3>1, <3>2 DEF TaskList
    <3> QED BY <3>1, <3>2, <3>3
  <2>10. TaskList(new)
    BY <2>4, <2>8, <2>9 DEF TaskList
  <2>11. ASSUME NEW id, id # m.id PROVE statusIn(new, id) = statusIn(list, id)
    <3>1. ASSUME NEW k \in DOMAIN list, list[k].id = id PROVE statusIn(new, id) = statusIn(list, id)
      <4>1. k \in I
        BY <2>6, <2>11, <3>1
      <4>2. Rank(I, k) \in DOMAIN new /\ new[Rank(I, k)] = list[k]
        BY <2>4, <4>1
      <4>3. statusIn(new, list[k].id) = list[k].status
        BY <2>10, <4>2, StatusAt
      <4> QED BY <3>1, <4>3, StatusAt
    <3>2. CASE \A k \in DOMAIN list : list[k].id # id
      <4>1. \A k \in DOMAIN new : new[k].id # id
        BY <2>5, <2>7, <3>2
      <4> QED BY <2>10, <3>2, <4>1, StatusAt
    <3> QED BY <3>1, <3>2
  <2> QED BY <2>10, <2>11 DEF new
<1>4. CASE m.kind = "status"
  <2>1. new = [k \in DOMAIN list |-> IF list[k].id = m.id THEN [list[k] EXCEPT !.status = m.status] ELSE list[k]]
    BY <1>4 DEF reduce
  <2> HIDE DEF new
  <2>2. /\ new = [k \in DOMAIN list |-> new[k]]
        /\ \A k \in DOMAIN list : new[k] = IF list[k].id = m.id THEN [list[k] EXCEPT !.status = m.status] ELSE list[k]
    BY <2>1
  <2>3. ASSUME NEW k \in DOMAIN list
        PROVE  ItemOK(new[k]) /\ new[k].id = list[k].id /\ (list[k].id # m.id => new[k].status = list[k].status)
    <3>1. PICK x, y, z : list[k] = [id |-> x, content |-> y, status |-> z] /\ z \in Statuses
      BY <1>0 DEF ItemOK
    <3>2. [list[k] EXCEPT !.status = m.status] = [id |-> x, content |-> y, status |-> m.status]
      BY <3>1
    <3>3. m.status \in Statuses
      BY <1>4 DEF DoneOK, Statuses
    <3>4. CASE list[k].id = m.id
      <4>1. new[k] = [id |-> x, content |-> y, status |-> m.status]
        BY <2>2, <3>2, <3>4
      <4>2. ItemOK([id |-> x, content |-> y, status |-> m.status])
        BY <3>1, <3>3 DEF ItemOK
      <4>3. new[k].id = x /\ list[k].id = x
        BY <3>1, <4>1
      <4> QED BY <3>4, <4>1, <4>2, <4>3
    <3>5. CASE list[k].id # m.id
      BY <1>0, <2>2, <3>5
    <3> QED BY <3>4, <3>5
  <2>4. \A k \in DOMAIN list : ItemOK(new[k]) /\ new[k].id = list[k].id /\ (list[k].id # m.id => new[k].status = list[k].status)
    BY <2>3
  <2>5. TaskList(new) /\ \A id : id # m.id => statusIn(new, id) = statusIn(list, id)
    <3>1. PICK f : f = new
      OBVIOUS
    <3>2. f = [k \in DOMAIN list |-> f[k]]
      BY <2>2, <3>1
    <3>3. \A k \in DOMAIN list : ItemOK(f[k]) /\ f[k].id = list[k].id /\ (list[k].id # m.id => f[k].status = list[k].status)
      BY <2>4, <3>1
    <3>4. TaskList(f) /\ \A id : id # m.id => statusIn(f, id) = statusIn(list, id)
      BY <3>2, <3>3, SamePlaces
    <3> QED BY <3>1, <3>4
  <2> QED BY <2>5 DEF new
<1>5. CASE m.kind = "rename"
  <2>1. new = [k \in DOMAIN list |-> IF list[k].id = m.id THEN [list[k] EXCEPT !.content = m.content] ELSE list[k]]
    BY <1>5 DEF reduce
  <2> HIDE DEF new
  <2>2. /\ new = [k \in DOMAIN list |-> new[k]]
        /\ \A k \in DOMAIN list : new[k] = IF list[k].id = m.id THEN [list[k] EXCEPT !.content = m.content] ELSE list[k]
    BY <2>1
  <2>3. ASSUME NEW k \in DOMAIN list
        PROVE  ItemOK(new[k]) /\ new[k].id = list[k].id /\ (list[k].id # m.id => new[k].status = list[k].status)
    <3>1. PICK x, y, z : list[k] = [id |-> x, content |-> y, status |-> z] /\ z \in Statuses
      BY <1>0 DEF ItemOK
    <3>2. [list[k] EXCEPT !.content = m.content] = [id |-> x, content |-> m.content, status |-> z]
      BY <3>1
    <3>4. CASE list[k].id = m.id
      <4>1. new[k] = [id |-> x, content |-> m.content, status |-> z]
        BY <2>2, <3>2, <3>4
      <4>2. ItemOK([id |-> x, content |-> m.content, status |-> z])
        BY <3>1 DEF ItemOK
      <4>3. new[k].id = x /\ list[k].id = x
        BY <3>1, <4>1
      <4> QED BY <3>4, <4>1, <4>2, <4>3
    <3>5. CASE list[k].id # m.id
      BY <1>0, <2>2, <3>5
    <3> QED BY <3>4, <3>5
  <2>4. \A k \in DOMAIN list : ItemOK(new[k]) /\ new[k].id = list[k].id /\ (list[k].id # m.id => new[k].status = list[k].status)
    BY <2>3
  <2>5. TaskList(new) /\ \A id : id # m.id => statusIn(new, id) = statusIn(list, id)
    <3>1. PICK f : f = new
      OBVIOUS
    <3>2. f = [k \in DOMAIN list |-> f[k]]
      BY <2>2, <3>1
    <3>3. \A k \in DOMAIN list : ItemOK(f[k]) /\ f[k].id = list[k].id /\ (list[k].id # m.id => f[k].status = list[k].status)
      BY <2>4, <3>1
    <3>4. TaskList(f) /\ \A id : id # m.id => statusIn(f, id) = statusIn(list, id)
      BY <3>2, <3>3, SamePlaces
    <3> QED BY <3>1, <3>4
  <2> QED BY <2>5 DEF new
<1>6. CASE m.kind \notin {"create", "remove", "status", "rename"}
  <2>1. new = list
    BY <1>6 DEF reduce
  <2> QED BY <2>1
<1> QED BY <1>1, <1>2, <1>3, <1>4, <1>5, <1>6

\* The rows about one task.
Of(rows, id) == ElementsAt(rows, {k \in DOMAIN rows : rows[k].id = id})

\* The rows about a task are one history, and it ends where the list is.
Replays(rows, list, id) ==
  /\ \A k \in DOMAIN Of(rows, id) :
       Of(rows, id)[k].prev = IF k = 1 THEN "(absent)" ELSE After(Of(rows, id)[k - 1])
  /\ statusIn(list, id) =
       IF Of(rows, id) = <<>> THEN "(absent)" ELSE After(Of(rows, id)[Len(Of(rows, id))])

\* One row more.
LEMMA RowAdded ==
  ASSUME NEW rows, IsSeq(rows), NEW move
  PROVE  /\ IsSeq(rows \o <<move>>)
         /\ \A id : id # move.id => Of(rows \o <<move>>, id) = Of(rows, id)
         /\ LET e == Of(rows, move.id)
                f == Of(rows \o <<move>>, move.id)
            IN  /\ Len(e) \in Nat /\ DOMAIN e = 1 .. Len(e) /\ IsSeq(e)
                /\ Len(f) = Len(e) + 1 /\ DOMAIN f = 1 .. Len(f)
                /\ f[Len(e) + 1] = move /\ StartsWith(f, e)
<1> DEFINE new == rows \o <<move>>
           n == Len(rows)
<1>1. PICK S : rows \in Seq(S)
  BY DEF IsSeq
<1>2. rows \in Seq(S \cup {move}) /\ <<move>> \in Seq(S \cup {move})
  BY <1>1, SeqMonotonic
<1>3. /\ new \in Seq(S \cup {move}) /\ n \in Nat /\ DOMAIN rows = 1 .. n /\ DOMAIN new = 1 .. n + 1
      /\ new[n + 1] = move /\ \A k \in 1 .. n : new[k] = rows[k]
  <2>1. new \in Seq(S \cup {move}) /\ Len(new) = n + 1
    BY <1>2, ConcatProperties
  <2>2. \A i \in 1 .. n + 1 : new[i] = IF i <= n THEN rows[i] ELSE <<move>>[i - n]
    BY <1>2, ConcatProperties
  <2>3. n \in Nat /\ DOMAIN rows = 1 .. n
    BY <1>1
  <2> HIDE DEF new, n
  <2>4. new[n + 1] = move
    BY <2>2, <2>3
  <2>5. \A k \in 1 .. n : new[k] = rows[k]
    BY <2>2, <2>3
  <2> QED BY <2>1, <2>3, <2>4, <2>5
<1> HIDE DEF new, n
<1>4. /\ \A k \in DOMAIN new : k = n + 1 \/ k \in DOMAIN rows
      /\ \A k \in DOMAIN rows : k \in DOMAIN new /\ k # n + 1 /\ new[k] = rows[k]
      /\ n + 1 \in DOMAIN new /\ n + 1 \in Nat /\ n + 1 > n
  BY <1>3
<1>5. ASSUME NEW id, id # move.id PROVE Of(new, id) = Of(rows, id)
  <2> DEFINE I == {k \in DOMAIN rows : rows[k].id = id}
  <2>1. {k \in DOMAIN new : new[k].id = id} = I
    BY <1>3, <1>4, <1>5
  <2>2. I \in SUBSET (1 .. n) /\ \A k \in I : new[k] = rows[k]
    BY <1>3
  <2> HIDE DEF I
  <2>3. ElementsAt(new, I) = ElementsAt(rows, I)
    BY <1>3, <2>2, ElementsSame
  <2> QED BY <2>1, <2>3 DEF Of, I
<1>6. LET e == Of(rows, move.id)
          f == Of(new, move.id)
      IN  /\ Len(e) \in Nat /\ DOMAIN e = 1 .. Len(e) /\ IsSeq(e)
          /\ Len(f) = Len(e) + 1 /\ DOMAIN f = 1 .. Len(f)
          /\ f[Len(e) + 1] = move /\ StartsWith(f, e)
  <2> DEFINE I == {k \in DOMAIN rows : rows[k].id = move.id}
             J == I \cup {n + 1}
             e == ElementsAt(rows, I)
             f == ElementsAt(new, J)
  <2>1. {k \in DOMAIN new : new[k].id = move.id} = J
    BY <1>3, <1>4
  <2>2. I \in SUBSET (1 .. n) /\ \A k \in I : new[k] = rows[k]
    BY <1>3
  <2>3. Of(rows, move.id) = e /\ Of(new, move.id) = f
    BY <2>1 DEF Of
  <2> HIDE DEF I
  <2>4. ElementsAt(new, I) = e
    BY <1>3, <2>2, ElementsSame
  <2>5. /\ Len(ElementsAt(new, I \cup {n + 1})) = Len(ElementsAt(new, I)) + 1
        /\ ElementsAt(new, I \cup {n + 1})[Len(ElementsAt(new, I)) + 1] = new[n + 1]
        /\ StartsWith(ElementsAt(new, I \cup {n + 1}), ElementsAt(new, I))
    BY <1>3, <1>4, <2>2, ElementsGrow
  <2>6. Len(f) = Len(e) + 1 /\ f[Len(e) + 1] = move /\ StartsWith(f, e)
    BY <1>3, <2>4, <2>5
  <2>7. Cardinality(I) \in Nat /\ Len(e) = Cardinality(I) /\ IsSeq(e) /\ DOMAIN e = 1 .. Cardinality(I)
    <3>1. /\ IsSeq(ElementsAt(rows, I)) /\ Len(ElementsAt(rows, I)) = Cardinality(I) /\ Cardinality(I) \in Nat
          /\ ElementsAt(rows, I) = [k \in 1 .. Cardinality(I) |-> ElementsAt(rows, I)[k]]
      BY <1>3, <2>2, ElementsForm
    <3> QED BY <3>1
  <2>8. DOMAIN f = 1 .. Len(f)
    <3>0. J \in SUBSET (1 .. n + 1) /\ n + 1 \in Nat
      BY <1>3, <2>2
    <3> HIDE DEF J
    <3>1. /\ Len(ElementsAt(new, J)) = Cardinality(J)
          /\ ElementsAt(new, J) = [k \in 1 .. Cardinality(J) |-> ElementsAt(new, J)[k]]
      BY <3>0, ElementsForm
    <3> QED BY <3>1
  <2> HIDE DEF e, f
  <2> QED BY <2>3, <2>6, <2>7, <2>8
<1>7. IsSeq(new)
  BY <1>3 DEF IsSeq
<1> QED BY <1>5, <1>6, <1>7 DEF new

\* The rows that one call adds keep every history.
LEMMA ReplaysOn ==
  ASSUME NEW rows, IsSeq(rows), NEW list, TaskList(list), NEW m, DoneOK(m),
         \A id : Replays(rows, list, id)
  PROVE  LET current == reduce(list, m)
             on == rows \o diffTransitions(list, current)
         IN  IsSeq(on) /\ TaskList(current) /\ \A id : Replays(on, current, id)
<1> DEFINE current == reduce(list, m)
           on == rows \o diffTransitions(list, current)
<1>1. TaskList(current) /\ \A id : id # m.id => statusIn(current, id) = statusIn(list, id)
  BY ReduceOne
<1> HIDE DEF current
<1>2. CASE diffTransitions(list, current) = <<>> /\ statusIn(current, m.id) = statusIn(list, m.id)
  <2>1. on = rows
    <3>1. PICK S : rows \in Seq(S)
      BY DEF IsSeq
    <3> QED BY <1>2, <3>1, ConcatEmptySeq
  <2>2. \A id : statusIn(current, id) = statusIn(list, id)
    BY <1>1, <1>2
  <2> HIDE DEF on
  <2>3. \A id : Replays(on, current, id)
    BY <2>1, <2>2 DEF Replays
  <2> QED BY <1>1, <2>1, <2>3 DEF current, on
<1>3. ASSUME NEW move, diffTransitions(list, current) = <<move>>, move.id = m.id,
             move.prev = statusIn(list, m.id), statusIn(current, m.id) = After(move)
      PROVE  IsSeq(on) /\ \A id : Replays(on, current, id)
  <2>1. on = rows \o <<move>>
    BY <1>3
  <2> HIDE DEF on
  <2>2. IsSeq(on) /\ \A id : id # m.id => Of(on, id) = Of(rows, id)
    <3>1. /\ IsSeq(rows \o <<move>>)
          /\ \A id : id # move.id => Of(rows \o <<move>>, id) = Of(rows, id)
      BY RowAdded
    <3> QED BY <1>3, <2>1, <3>1
  <2>3. ASSUME NEW id, id # m.id PROVE Replays(on, current, id)
    BY <1>1, <2>2, <2>3 DEF Replays
  <2>4. PICK e, f : e = Of(rows, m.id) /\ f = Of(on, m.id)
    OBVIOUS
  <2>5. /\ Len(e) \in Nat /\ DOMAIN e = 1 .. Len(e) /\ IsSeq(e)
        /\ Len(f) = Len(e) + 1 /\ DOMAIN f = 1 .. Len(f)
        /\ f[Len(e) + 1] = move /\ StartsWith(f, e)
    <3>1. LET a == Of(rows, move.id)
              b == Of(rows \o <<move>>, move.id)
          IN  /\ Len(a) \in Nat /\ DOMAIN a = 1 .. Len(a) /\ IsSeq(a)
              /\ Len(b) = Len(a) + 1 /\ DOMAIN b = 1 .. Len(b)
              /\ b[Len(a) + 1] = move /\ StartsWith(b, a)
      BY RowAdded
    <3>2. e = Of(rows, move.id) /\ f = Of(rows \o <<move>>, move.id)
      BY <1>3, <2>1, <2>4
    <3> QED BY <3>1, <3>2
  <2>6. PICK n \in Nat : n = Len(e)
    BY <2>5
  <2>7. /\ DOMAIN e = 1 .. n /\ DOMAIN f = 1 .. n + 1 /\ Len(f) = n + 1
        /\ f[n + 1] = move /\ \A k \in 1 .. n : f[k] = e[k]
    BY <2>5, <2>6 DEF StartsWith
  <2>8. /\ \A k \in DOMAIN e : e[k].prev = IF k = 1 THEN "(absent)" ELSE After(e[k - 1])
        /\ statusIn(list, m.id) = IF e = <<>> THEN "(absent)" ELSE After(e[n])
    BY <2>4, <2>6 DEF Replays
  <2>9. e = <<>> <=> n = 0
    BY <2>5, <2>6 DEF IsSeq
  <2>10. ASSUME NEW k \in 1 .. n + 1
         PROVE  f[k].prev = IF k = 1 THEN "(absent)" ELSE After(f[k - 1])
    <3>1. CASE k = n + 1
      <4>1. f[k].prev = statusIn(list, m.id)
        BY <1>3, <2>7, <3>1
      <4>2. CASE n = 0
        BY <2>8, <2>9, <3>1, <4>1, <4>2
      <4>3. CASE n # 0
        <5>1. k # 1 /\ k - 1 = n /\ n \in 1 .. n /\ e # <<>>
          BY <2>9, <3>1, <4>3
        <5>2. f[k - 1] = e[n]
          BY <2>7, <5>1
        <5> QED BY <2>8, <4>1, <5>1, <5>2
      <4> QED BY <4>2, <4>3
    <3>2. CASE k # n + 1
      <4>1. k \in 1 .. n /\ (k # 1 => k - 1 \in 1 .. n)
        BY <3>2
      <4>2. f[k] = e[k] /\ (k # 1 => f[k - 1] = e[k - 1]) /\ k \in DOMAIN e
        BY <2>7, <4>1
      <4> QED BY <2>8, <4>2
    <3> QED BY <3>1, <3>2
  <2>11. f # <<>>
    BY <2>6, <2>7
  <2>12. Replays(on, current, m.id)
    BY <1>3, <2>4, <2>7, <2>10, <2>11 DEF Replays
  <2> QED BY <2>2, <2>3, <2>12
<1>4. \/ diffTransitions(list, current) = <<>> /\ statusIn(current, m.id) = statusIn(list, m.id)
      \/ \E move : /\ diffTransitions(list, current) = <<move>> /\ move.id = m.id
                  /\ move.prev = statusIn(list, m.id) /\ statusIn(current, m.id) = After(move)
  BY <1>1, DiffOne
<1>5. IsSeq(on) /\ \A id : Replays(on, current, id)
  <2>1. CASE diffTransitions(list, current) = <<>> /\ statusIn(current, m.id) = statusIn(list, m.id)
    BY <1>2, <2>1 DEF current
  <2> HIDE DEF on
  <2> QED BY <1>3, <1>4, <2>1
<1> HIDE DEF on
<1> QED BY <1>1, <1>5 DEF current, on

\* What a slot holds, and what a hook tells of the call it is about.
RequestOK(r) == \E st, at, ev : r = [st |-> st, at |-> at, ev |-> ev] /\ DoneOK(ev.done)

SlotsOK ==
  /\ DOMAIN slot = HookSlots
  /\ \A h \in HookSlots : slot[h] = NoHook \/ RequestOK(slot[h])

HistoryIInv ==
  /\ SlotsOK
  /\ DOMAIN snapshot = HookAgents /\ DOMAIN moves = HookAgents
  /\ \A a \in HookAgents : /\ IsSeq(moves[a]) /\ TaskList(snapshot[a])
                           /\ \A id : Replays(moves[a], snapshot[a], id)

\* A slot gets a request, or is free.
LEMMA SlotSet ==
  ASSUME SlotsOK, NEW h \in HookSlots, NEW r, r = NoHook \/ RequestOK(r), slot' = [slot EXCEPT ![h] = r]
  PROVE  SlotsOK'
<1>1. DOMAIN slot' = HookSlots /\ \A g \in HookSlots : slot'[g] = IF g = h THEN r ELSE slot[g]
  BY DEF SlotsOK
<1> QED BY <1>1 DEF SlotsOK, NoHook

\* What a call does sets no other status.
LEMMA EffectsOK == \A s, call : \A done \in Effects(s, call) : DoneOK(done)
<1> SUFFICES ASSUME NEW s, NEW call, NEW done \in Effects(s, call) PROVE DoneOK(done)
  OBVIOUS
<1>1. CASE call.tool = "TaskCreate"
  BY <1>1 DEF Effects, DoneOK
<1>2. CASE call.tool # "TaskCreate" /\ call.tool = "TaskUpdate" /\ cli[s].made > 0
  <2>1. \/ done \in [kind : {"status"}, id : 1 .. cli[s].made, status : {"in_progress", "completed"}]
        \/ done \in [kind : {"remove"}, id : 1 .. cli[s].made]
        \/ done \in [kind : {"rename"}, id : 1 .. cli[s].made, content : {"renamed"}]
    BY <1>2 DEF Effects
  <2> QED BY <2>1 DEF DoneOK
<1>3. CASE call.tool = "Bash"
  <2>1. done \in {Nothing, [kind |-> "report"]}
    BY <1>3 DEF Effects
  <2> QED BY <2>1 DEF DoneOK, Nothing
<1>4. CASE call.tool # "TaskCreate" /\ ~(call.tool = "TaskUpdate" /\ cli[s].made > 0) /\ call.tool # "Bash"
  <2>1. done = Nothing
    BY <1>4 DEF Effects
  <2> QED BY <2>1 DEF DoneOK, Nothing
<1> QED BY <1>1, <1>2, <1>3, <1>4

\* The CLI goes on: a call that was let through is posted again.
LEMMA GoesOnKeeps == ASSUME SlotsOK, NEW h \in HookSlots, GoesOn(h) PROVE SlotsOK'
<1>1. CASE At(h).name = "PreToolUse"
  <2>1. PICK done \in Effects(At(h).s, At(h).call) :
          slot' = [slot EXCEPT ![h] =
                     [st |-> "sent", at |-> 0, ev |-> Event(At(h).s, "PostToolUse", At(h).call, done)]]
    BY <1>1 DEF GoesOn
  <2> DEFINE e == Event(At(h).s, "PostToolUse", At(h).call, done)
  <2>2. DoneOK(e.done)
    BY EffectsOK DEF Event
  <2> HIDE DEF e
  <2>3. RequestOK([st |-> "sent", at |-> 0, ev |-> e])
    BY <2>2 DEF RequestOK
  <2>4. slot' = [slot EXCEPT ![h] = [st |-> "sent", at |-> 0, ev |-> e]]
    BY <2>1 DEF e
  <2> QED BY <2>3, <2>4, SlotSet
<1>2. CASE At(h).name # "PreToolUse"
  <2>1. slot' = [slot EXCEPT ![h] = NoHook]
    <3>1. CASE At(h).name = "Stop"
      BY <1>2, <3>1 DEF GoesOn
    <3>2. CASE At(h).name # "Stop"
      BY <1>2, <3>2 DEF GoesOn
    <3> QED BY <3>1, <3>2
  <2> QED BY <2>1, SlotSet
<1> QED BY <1>1, <1>2

\* A call that is refused frees its slot.
LEMMA DeniedKeeps == ASSUME SlotsOK, NEW h \in HookSlots, Denied(h) PROVE SlotsOK'
BY SlotSet DEF Denied

\* A request that goes on is the same request.
LEMMA WaitsKeeps ==
  ASSUME SlotsOK, NEW h \in HookSlots, slot[h].st # "free", NEW r,
         slot' = [slot EXCEPT ![h] = r],
         \E x, y : r = [slot[h] EXCEPT !.st = x, !.at = y] \/ r = [slot[h] EXCEPT !.st = x]
  PROVE  SlotsOK'
<1>1. RequestOK(slot[h])
  BY DEF SlotsOK, NoHook
<1>2. PICK st, at, ev : slot[h] = [st |-> st, at |-> at, ev |-> ev] /\ DoneOK(ev.done)
  BY <1>1 DEF RequestOK
<1>3. PICK x, y : r = [slot[h] EXCEPT !.st = x, !.at = y] \/ r = [slot[h] EXCEPT !.st = x]
  OBVIOUS
<1>4. r = [st |-> x, at |-> y, ev |-> ev] \/ r = [st |-> x, at |-> at, ev |-> ev]
  <2>1. CASE r = [slot[h] EXCEPT !.st = x, !.at = y]
    <3>1. r = [[st |-> st, at |-> at, ev |-> ev] EXCEPT !.st = x, !.at = y]
      BY <1>2, <2>1
    <3>2. r = [st |-> x, at |-> y, ev |-> ev]
      BY ONLY <3>1
    <3> QED BY <3>2
  <2>2. CASE r = [slot[h] EXCEPT !.st = x]
    <3>1. r = [[st |-> st, at |-> at, ev |-> ev] EXCEPT !.st = x]
      BY <1>2, <2>2
    <3>2. r = [st |-> x, at |-> at, ev |-> ev]
      BY ONLY <3>1
    <3> QED BY <3>2
  <2> QED BY <1>3, <2>1, <2>2
<1>5. RequestOK(r)
  BY <1>2, <1>4 DEF RequestOK
<1> QED BY <1>5, SlotSet

\* The habits are evaluated.
LEMMA EvaluateKeeps ==
  ASSUME SlotsOK, NEW h \in HookSlots, slot[h].st # "free", NEW k, Evaluate(h, k)
  PROVE  SlotsOK'
<1>1. \/ GoesOn(h) \/ Denied(h)
      \/ \E i : slot' = [slot EXCEPT ![h].st = "length", ![h].at = i]
  BY DEF Evaluate
<1>2. ASSUME NEW i, slot' = [slot EXCEPT ![h].st = "length", ![h].at = i] PROVE SlotsOK'
  <2>1. h \in DOMAIN slot
    BY DEF SlotsOK
  <2> DEFINE r == [slot[h] EXCEPT !.st = "length", !.at = i]
  <2>2. slot' = [slot EXCEPT ![h] = r]
    BY <1>2, <2>1
  <2>3. \E x, y : r = [slot[h] EXCEPT !.st = x, !.at = y]
    OBVIOUS
  <2> HIDE DEF r
  <2> QED BY <2>2, <2>3, WaitsKeeps
<1> QED BY <1>1, <1>2, GoesOnKeeps, DeniedKeeps

\* A hook that is handled after a call is the only one that touches the lists.
LEMMA TaskEventKeeps ==
  ASSUME HistoryIInv, NEW ev, DoneOK(ev.done), applyTaskEvent(ev)
  PROVE  /\ DOMAIN snapshot' = HookAgents /\ DOMAIN moves' = HookAgents
         /\ \A a \in HookAgents : /\ IsSeq(moves'[a]) /\ TaskList(snapshot'[a])
                                  /\ \A id : Replays(moves'[a], snapshot'[a], id)
<1> DEFINE b == Works[ev.s]
<1>1. PICK rows, lists : rows = moves /\ lists = snapshot
  OBVIOUS
<1> DEFINE current == reduce(lists[b], ev.done)
           on == rows[b] \o diffTransitions(lists[b], current)
<1>2. snapshot' = [lists EXCEPT ![b] = current] /\ moves' = [rows EXCEPT ![b] = on]
  BY <1>1 DEF applyTaskEvent
<1>3. /\ DOMAIN lists = HookAgents /\ DOMAIN rows = HookAgents
      /\ \A a \in HookAgents : /\ IsSeq(rows[a]) /\ TaskList(lists[a])
                               /\ \A id : Replays(rows[a], lists[a], id)
  BY <1>1 DEF HistoryIInv
<1>4. ASSUME b \in HookAgents PROVE IsSeq(on) /\ TaskList(current) /\ \A id : Replays(on, current, id)
  <2>1. PICK list, log : list = lists[b] /\ log = rows[b]
    OBVIOUS
  <2>2. IsSeq(log) /\ TaskList(list) /\ \A id : Replays(log, list, id)
    BY <1>3, <1>4, <2>1
  <2>3. LET now == reduce(list, ev.done)
            then == log \o diffTransitions(list, now)
        IN  IsSeq(then) /\ TaskList(now) /\ \A id : Replays(then, now, id)
    BY <2>2, ReplaysOn
  <2> QED BY <2>1, <2>3
<1> HIDE DEF current, on, b
<1> QED BY <1>2, <1>3, <1>4

\* Every step keeps the slots, the lists and their histories.
LEMMA HistoryIInvSteps ==
  ASSUME HistoryIInv, [HookNext]_hookVars
  PROVE  HistoryIInv'
<1>0. SlotsOK /\ DOMAIN slot = HookSlots
  BY DEF HistoryIInv, SlotsOK
<1>1. ASSUME SlotsOK', UNCHANGED <<snapshot, moves>> PROVE HistoryIInv'
  BY <1>1 DEF HistoryIInv
<1>2. ASSUME NEW s, NEW name, NEW call, Posts(s, name, call) PROVE HistoryIInv'
  <2>1. PICK h \in HookSlots :
          slot' = [slot EXCEPT ![h] = [st |-> "sent", at |-> 0, ev |-> Event(s, name, call, Nothing)]]
    BY <1>2 DEF Posts
  <2> DEFINE e == Event(s, name, call, Nothing)
  <2>2. DoneOK(e.done)
    BY DEF Event, Nothing, DoneOK
  <2> HIDE DEF e
  <2>3. RequestOK([st |-> "sent", at |-> 0, ev |-> e])
    BY <2>2 DEF RequestOK
  <2>4. slot' = [slot EXCEPT ![h] = [st |-> "sent", at |-> 0, ev |-> e]]
    BY <2>1 DEF e
  <2>5. SlotsOK'
    BY <1>0, <2>3, <2>4, SlotSet
  <2>6. UNCHANGED <<snapshot, moves>>
    BY <1>2 DEF Posts
  <2> QED BY <1>1, <2>5, <2>6
<1>3. ASSUME NEW h \in HookSlots, PostToolUse(h) PROVE HistoryIInv'
  <2>1. slot[h].st = "sent" /\ applyTaskEvent(At(h)) /\ Evaluate(h, 0)
    BY <1>3 DEF PostToolUse
  <2>2. SlotsOK'
    BY <1>0, <2>1, EvaluateKeeps
  <2>3. DoneOK(At(h).done)
    <3>1. RequestOK(slot[h])
      BY <1>0, <2>1 DEF SlotsOK, NoHook
    <3> QED BY <3>1 DEF RequestOK, At
  <2>4. PICK ev : ev = At(h)
    OBVIOUS
  <2> QED BY <2>1, <2>2, <2>3, <2>4, TaskEventKeeps DEF HistoryIInv
<1>4. ASSUME NEW h \in HookSlots, ToolArrives(h) PROVE HistoryIInv'
  <2>1. slot[h].st = "sent" /\ (Denied(h) \/ Evaluate(h, 0)) /\ UNCHANGED <<snapshot, moves>>
    BY <1>4 DEF ToolArrives
  <2> QED BY <1>0, <1>1, <2>1, DeniedKeeps, EvaluateKeeps
<1>5. ASSUME NEW h \in HookSlots, LengthRead(h) PROVE HistoryIInv'
  <2>1. slot[h].st = "length" /\ UNCHANGED <<snapshot, moves>>
    BY <1>5 DEF LengthRead
  <2>2. GoesOn(h) \/ \E k : Evaluate(h, k)
    BY <1>5 DEF LengthRead
  <2> QED BY <1>0, <1>1, <2>1, <2>2, GoesOnKeeps, EvaluateKeeps
<1>6. ASSUME NEW h \in HookSlots, StopArrives(h) PROVE HistoryIInv'
  <2>1. slot[h].st = "sent" /\ (Denied(h) \/ slot' = [slot EXCEPT ![h].st = "flush"]) /\ UNCHANGED <<snapshot, moves>>
    BY <1>6 DEF StopArrives
  <2>2. ASSUME slot' = [slot EXCEPT ![h].st = "flush"] PROVE SlotsOK'
    <3> DEFINE r == [slot[h] EXCEPT !.st = "flush"]
    <3>1. slot' = [slot EXCEPT ![h] = r]
      BY <1>0, <2>2
    <3>2. \E x, y : r = [slot[h] EXCEPT !.st = x, !.at = y] \/ r = [slot[h] EXCEPT !.st = x]
      OBVIOUS
    <3> HIDE DEF r
    <3> QED BY <1>0, <2>1, <3>1, <3>2, WaitsKeeps
  <2> QED BY <1>0, <1>1, <2>1, <2>2, DeniedKeeps
<1>7. ASSUME NEW h \in HookSlots, Flushed(h) PROVE HistoryIInv'
  <2>1. slot[h].st = "flush" /\ Evaluate(h, 0) /\ UNCHANGED <<snapshot, moves>>
    BY <1>7 DEF Flushed
  <2> QED BY <1>0, <1>1, <2>1, EvaluateKeeps
<1>8. ASSUME NEW h \in HookSlots, SessionEndArrives(h) \/ HookLost(h) PROVE HistoryIInv'
  <2>1. GoesOn(h) /\ UNCHANGED <<snapshot, moves>>
    BY <1>8 DEF SessionEndArrives, HookLost
  <2> QED BY <1>0, <1>1, <2>1, GoesOnKeeps
<1>9. ASSUME HookRestart PROVE HistoryIInv'
  <2>1. /\ slot' = [h \in HookSlots |-> IF slot[h] = NoHook THEN NoHook ELSE [slot[h] EXCEPT !.st = "lost"]]
        /\ UNCHANGED <<snapshot, moves>>
    BY <1>9 DEF HookRestart
  <2>2. ASSUME NEW h \in HookSlots PROVE slot'[h] = NoHook \/ RequestOK(slot'[h])
    <3>1. CASE slot[h] = NoHook
      BY <2>1, <3>1
    <3>2. CASE slot[h] # NoHook
      <4>1. PICK st, at, ev : slot[h] = [st |-> st, at |-> at, ev |-> ev] /\ DoneOK(ev.done)
        BY <1>0, <3>2 DEF SlotsOK, RequestOK
      <4>2. slot'[h] = [slot[h] EXCEPT !.st = "lost"]
        BY <2>1, <3>2
      <4>3. slot'[h] = [st |-> "lost", at |-> at, ev |-> ev]
        BY <4>1, <4>2
      <4> QED BY <4>1, <4>3 DEF RequestOK
    <3> QED BY <3>1, <3>2
  <2>3. DOMAIN slot' = HookSlots
    BY <2>1
  <2>4. SlotsOK'
    BY <2>2, <2>3 DEF SlotsOK, NoHook
  <2> QED BY <1>1, <2>1, <2>4
<1>10. ASSUME NEW a, QuietSent(a) PROVE HistoryIInv'
  <2>1. UNCHANGED <<slot, snapshot, moves>>
    BY <1>10 DEF QuietSent
  <2>2. SlotsOK'
    BY <1>0, <2>1 DEF SlotsOK, NoHook
  <2> QED BY <1>1, <2>1, <2>2
<1>11. CASE UNCHANGED hookVars
  <2>1. UNCHANGED <<slot, snapshot, moves>>
    BY <1>11 DEF hookVars
  <2>2. SlotsOK'
    BY <1>0, <2>1 DEF SlotsOK, NoHook
  <2> QED BY <1>1, <2>1, <2>2
<1>12. ASSUME NEW s, UserPromptSubmit(s) \/ PreToolUse(s) \/ Stop(s) \/ SessionEnd(s) PROVE HistoryIInv'
  BY <1>2, <1>12 DEF UserPromptSubmit, PreToolUse, Stop, SessionEnd
<1> QED BY <1>3, <1>4, <1>5, <1>6, <1>7, <1>8, <1>9, <1>10, <1>11, <1>12 DEF HookNext

\* The phase transitions in an agent's log are one history of each task, and it ends where
\* the newest snapshot is (applyTaskEvent in task-event-handler.ts): no two tasks of a list share an
\* id, a call changes one task at most, and then the diff is one row that starts where the
\* task was.
THEOREM TransitionsAreReplayed == HookSpec => []TransitionsReplay
<1>1. HookInit => HistoryIInv
  <2> SUFFICES ASSUME HookInit PROVE HistoryIInv
    OBVIOUS
  <2>1. SlotsOK
    BY DEF HookInit, SlotsOK
  <2>2. IsSeq(<<>>) /\ TaskList(<<>>)
    BY DEF IsSeq, TaskList
  <2>3. ASSUME NEW id PROVE Replays(<<>>, <<>>, id)
    <3>1. Of(<<>>, id) = <<>>
      <4>1. {k \in DOMAIN <<>> : <<>>[k].id = id} = {}
        OBVIOUS
      <4> QED BY <4>1, ElementsFew DEF Of
    <3>2. statusIn(<<>>, id) = "(absent)"
      BY DEF statusIn
    <3> QED BY <3>1, <3>2 DEF Replays
  <2>4. /\ DOMAIN snapshot = HookAgents /\ DOMAIN moves = HookAgents
        /\ \A a \in HookAgents : snapshot[a] = <<>> /\ moves[a] = <<>>
    BY DEF HookInit
  <2> QED BY <2>1, <2>2, <2>3, <2>4 DEF HistoryIInv
<1>2. HistoryIInv => TransitionsReplay
  <2> SUFFICES ASSUME HistoryIInv, NEW a \in HookAgents, NEW id \in 1 .. MaxHooks
               PROVE  /\ \A k \in DOMAIN Of(moves[a], id) :
                           Of(moves[a], id)[k].prev =
                             IF k = 1 THEN "(absent)" ELSE After(Of(moves[a], id)[k - 1])
                      /\ statusIn(snapshot[a], id) =
                           IF Of(moves[a], id) = <<>> THEN "(absent)"
                           ELSE After(Of(moves[a], id)[Len(Of(moves[a], id))])
    BY DEF TransitionsReplay, Of, After
  <2>1. Replays(moves[a], snapshot[a], id)
    BY DEF HistoryIInv
  <2> QED BY <2>1 DEF Replays
<1> QED BY <1>1, <1>2, HistoryIInvSteps, PTL DEF HookSpec

-----------------------------------------------------------------------------
(* The repair of a transcript and its viewer (Transcripts).                *)

LineKinds == {"prompt", "note", "tool", "text", "result", "think", "synth", "torn", "scrap"}
LineRows == [id : Nat, kind : LineKinds]

TransTypeOK ==
  /\ file \in Seq(LineRows) /\ written \in Nat
  /\ child \in {"none", "live"} /\ turn \in {"idle", "on", "stopping"}
  /\ bricked \in BOOLEAN /\ dying \in BOOLEAN /\ tampered \in BOOLEAN /\ prefix \in BOOLEAN
  /\ repair \in [st : {"none", "read", "done"}, lines : Seq(LineRows), dropped : Nat]
  /\ repair.st # "none" => child = "none"

\* The next turn after an unfinished one, if there is any, is the result it waits for.
WellTurned(lines) ==
  \A i, j \in DOMAIN lines :
    (/\ i < j /\ Unfinished(lines[i].kind) /\ lines[j].kind \in Turns
     /\ \A k \in DOMAIN lines : i < k /\ k < j => lines[k].kind \notin Turns)
    => lines[j].kind = "result"

\* The turns of two lists of lines are the same, at the same places.
SameTurns(f, g) ==
  /\ Len(f) = Len(g)
  /\ \A i \in DOMAIN f : f[i].kind \in Turns \/ g[i].kind \in Turns => f[i].kind = g[i].kind

\* A set of places that is not empty has a greatest one.
LEMMA Greatest ==
  ASSUME NEW n \in Nat, NEW T \in SUBSET (1 .. n), T # {}
  PROVE  \E x \in T : \A y \in T : y <= x
<1> DEFINE U == {m \in Nat : \A y \in T : y <= m}
<1>0. \A y \in T : y \in Nat /\ 1 <= y /\ y <= n
  OBVIOUS
<1>1. n \in U
  BY <1>0
<1>2. PICK m \in U : \A x \in U : m <= x
  BY <1>1, LeastNat
<1>3. m \in Nat /\ \A y \in T : y <= m
  OBVIOUS
<1>4. m \in T
  <2> SUFFICES ASSUME m \notin T PROVE FALSE
    OBVIOUS
  <2>1. PICK y \in T : TRUE
    OBVIOUS
  <2>2. m - 1 \in Nat
    BY <1>0, <1>3, <2>1
  <2>3. \A x \in T : x <= m - 1
    BY <1>0, <1>3
  <2>4. m - 1 \in U
    BY <2>2, <2>3
  <2> HIDE DEF U
  <2> QED BY <1>2, <1>3, <2>4
<1> QED BY <1>3, <1>4

\* The last turn: there is none, or it is behind all others.
LEMMA LastTurnHas ==
  ASSUME NEW lines \in Seq(LineRows)
  PROVE  \/ LastTurn(lines) = "none" /\ \A i \in DOMAIN lines : lines[i].kind \notin Turns
         \/ \E i \in DOMAIN lines : /\ lines[i].kind \in Turns /\ LastTurn(lines) = lines[i].kind
                                    /\ \A j \in DOMAIN lines : lines[j].kind \in Turns => j <= i
<1> DEFINE T == {i \in DOMAIN lines : lines[i].kind \in Turns}
           b == CHOOSE i \in T : \A j \in T : j <= i
<1>1. CASE T = {}
  BY <1>1 DEF LastTurn
<1>2. CASE T # {}
  <2>1. T \in SUBSET (1 .. Len(lines)) /\ Len(lines) \in Nat
    OBVIOUS
  <2>2. b \in T /\ \A j \in T : j <= b
    BY <1>2, <2>1, Greatest
  <2>3. LastTurn(lines) = lines[b].kind
    BY <1>2 DEF LastTurn
  <2> HIDE DEF b
  <2> QED BY <2>2, <2>3
<1> QED BY <1>1, <1>2

\* The turn behind which there is no other is the last.
LEMMA LastTurnIs ==
  ASSUME NEW lines \in Seq(LineRows), NEW i \in DOMAIN lines, lines[i].kind \in Turns,
         \A j \in DOMAIN lines : lines[j].kind \in Turns => j <= i
  PROVE  LastTurn(lines) = lines[i].kind
<1>1. \A j \in DOMAIN lines : j \in Nat
  OBVIOUS
<1>2. PICK k \in DOMAIN lines : /\ lines[k].kind \in Turns /\ LastTurn(lines) = lines[k].kind
                                /\ \A j \in DOMAIN lines : lines[j].kind \in Turns => j <= k
  BY LastTurnHas
<1>3. k = i
  BY <1>1, <1>2
<1> QED BY <1>2, <1>3

\* What is said of the turns of a list holds of one with the same turns.
LEMMA SameTurnsKeep ==
  ASSUME NEW f \in Seq(LineRows), NEW g \in Seq(LineRows), SameTurns(f, g)
  PROVE  LastTurn(g) = LastTurn(f) /\ (WellTurned(f) => WellTurned(g))
<1>1. DOMAIN f = DOMAIN g /\ \A i \in DOMAIN f : i \in Nat
  BY DEF SameTurns
<1>2. \A i \in DOMAIN f : /\ f[i].kind \in Turns <=> g[i].kind \in Turns
                          /\ f[i].kind \in Turns => f[i].kind = g[i].kind
  BY DEF SameTurns
<1>3. LastTurn(g) = LastTurn(f)
  <2>1. CASE LastTurn(f) = "none" /\ \A i \in DOMAIN f : f[i].kind \notin Turns
    <3>1. ~(\E i \in DOMAIN g : g[i].kind \in Turns)
      BY <1>1, <1>2, <2>1
    <3>2. LastTurn(g) = "none"
      BY <3>1, LastTurnHas
    <3> QED BY <2>1, <3>2
  <2>2. ASSUME NEW i \in DOMAIN f, f[i].kind \in Turns, LastTurn(f) = f[i].kind,
               \A j \in DOMAIN f : f[j].kind \in Turns => j <= i
        PROVE  LastTurn(g) = LastTurn(f)
    <3>1. i \in DOMAIN g /\ g[i].kind \in Turns /\ \A j \in DOMAIN g : g[j].kind \in Turns => j <= i
      BY <1>1, <1>2, <2>2
    <3>2. LastTurn(g) = g[i].kind
      BY <3>1, LastTurnIs
    <3> QED BY <1>2, <2>2, <3>2
  <2> QED BY <2>1, <2>2, LastTurnHas
<1>4. ASSUME WellTurned(f) PROVE WellTurned(g)
  <2> SUFFICES ASSUME NEW i \in DOMAIN g, NEW j \in DOMAIN g, i < j, Unfinished(g[i].kind), g[j].kind \in Turns,
                      \A k \in DOMAIN g : i < k /\ k < j => g[k].kind \notin Turns
               PROVE  g[j].kind = "result"
    BY DEF WellTurned
  <2>1. Unfinished(f[i].kind) /\ f[j].kind \in Turns /\ f[j].kind = g[j].kind
    BY <1>1, <1>2 DEF Unfinished, Turns
  <2>2. \A k \in DOMAIN f : i < k /\ k < j => f[k].kind \notin Turns
    BY <1>1, <1>2
  <2>3. f[j].kind = "result"
    BY <1>1, <1>4, <2>1, <2>2 DEF WellTurned
  <2> QED BY <2>1, <2>3
<1> QED BY <1>3, <1>4

\* A line at the end.
LEMMA LineAppended ==
  ASSUME NEW f \in Seq(LineRows), NEW l \in LineRows
  PROVE  LET g == Append(f, l)
         IN  /\ LastTurn(g) = IF l.kind \in Turns THEN l.kind ELSE LastTurn(f)
             /\ WellTurned(f) /\ (Unfinished(LastTurn(f)) /\ l.kind \in Turns => l.kind = "result")
                  => WellTurned(g)
<1> DEFINE g == Append(f, l)
           n == Len(f) + 1
<1>1. /\ g \in Seq(LineRows) /\ n \in Nat /\ n >= 1 /\ Len(g) = n
      /\ DOMAIN f = 1 .. n - 1 /\ DOMAIN g = 1 .. n
      /\ g[n] = l /\ \A i \in 1 .. n - 1 : g[i] = f[i]
  OBVIOUS
<1> HIDE DEF g, n
<1>2. CASE l.kind \in Turns
  <2>1. LastTurn(g) = l.kind
    <3>1. n \in DOMAIN g /\ \A j \in DOMAIN g : j <= n
      BY <1>1
    <3>2. LastTurn(g) = g[n].kind
      BY <1>1, <1>2, <3>1, LastTurnIs
    <3> QED BY <1>1, <3>2
  <2>2. ASSUME WellTurned(f), Unfinished(LastTurn(f)) => l.kind = "result" PROVE WellTurned(g)
    <3> SUFFICES ASSUME NEW i \in DOMAIN g, NEW j \in DOMAIN g, i < j, Unfinished(g[i].kind), g[j].kind \in Turns,
                        \A k \in DOMAIN g : i < k /\ k < j => g[k].kind \notin Turns
                 PROVE  g[j].kind = "result"
      BY DEF WellTurned
    <3>0. i \in DOMAIN f /\ g[i] = f[i] /\ i \in Nat
      BY <1>1
    <3>1. CASE j = n
      <4>1. \A k \in DOMAIN f : f[k].kind \in Turns => k <= i
        BY <1>1, <3>0, <3>1
      <4>2. f[i].kind \in Turns
        BY <3>0 DEF Unfinished, Turns
      <4>3. LastTurn(f) = f[i].kind
        BY <3>0, <4>1, <4>2, LastTurnIs
      <4> QED BY <1>1, <2>2, <3>0, <3>1, <4>3
    <3>2. CASE j # n
      <4>1. j \in DOMAIN f /\ g[j] = f[j]
        BY <1>1, <3>2
      <4>2. \A k \in DOMAIN f : i < k /\ k < j => f[k].kind \notin Turns
        BY <1>1
      <4> QED BY <2>2, <3>0, <4>1, <4>2 DEF WellTurned
    <3> QED BY <3>1, <3>2
  <2> QED BY <1>2, <2>1, <2>2 DEF g
<1>3. CASE l.kind \notin Turns
  <2>1. LastTurn(g) = LastTurn(f)
    <3>1. CASE LastTurn(f) = "none" /\ \A i \in DOMAIN f : f[i].kind \notin Turns
      <4>1. ~(\E i \in DOMAIN g : g[i].kind \in Turns)
        BY <1>1, <1>3, <3>1
      <4> QED BY <1>1, <3>1, <4>1, LastTurnHas
    <3>2. ASSUME NEW i \in DOMAIN f, f[i].kind \in Turns, LastTurn(f) = f[i].kind,
                 \A j \in DOMAIN f : f[j].kind \in Turns => j <= i
          PROVE  LastTurn(g) = LastTurn(f)
      <4>1. i \in DOMAIN g /\ g[i] = f[i] /\ \A j \in DOMAIN g : g[j].kind \in Turns => j <= i
        BY <1>1, <1>3, <3>2
      <4>2. LastTurn(g) = g[i].kind
        BY <1>1, <3>2, <4>1, LastTurnIs
      <4> QED BY <3>2, <4>1, <4>2
    <3> QED BY <3>1, <3>2, LastTurnHas
  <2>2. ASSUME WellTurned(f) PROVE WellTurned(g)
    <3> SUFFICES ASSUME NEW i \in DOMAIN g, NEW j \in DOMAIN g, i < j, Unfinished(g[i].kind), g[j].kind \in Turns,
                        \A k \in DOMAIN g : i < k /\ k < j => g[k].kind \notin Turns
                 PROVE  g[j].kind = "result"
      BY DEF WellTurned
    <3>1. i \in DOMAIN f /\ g[i] = f[i] /\ j \in DOMAIN f /\ g[j] = f[j]
      BY <1>1, <1>3
    <3>2. \A k \in DOMAIN f : i < k /\ k < j => f[k].kind \notin Turns
      BY <1>1
    <3> QED BY <2>2, <3>1, <3>2 DEF WellTurned
  <2> QED BY <1>3, <2>1, <2>2 DEF g
<1> QED BY <1>2, <1>3

\* What a writer adds: a line of its kind, or what ends a line that was cut off.
LEMMA AppendsForm ==
  ASSUME NEW kind \in LineKinds, file \in Seq(LineRows), written \in Nat, Appends(kind)
  PROVE  /\ file' \in Seq(LineRows) /\ written' \in Nat
         /\ \/ \E l \in LineRows : l.kind = kind /\ file' = Append(file, l)
            \/ /\ file # <<>> /\ Len(file') = Len(file)
               /\ file[Len(file)].kind = "torn" /\ file'[Len(file)].kind \in {"torn", "scrap"}
               /\ \A i \in 1 .. Len(file) - 1 : file'[i] = file[i]
<1>1. CASE file # <<>> /\ Last(file).kind = "torn"
  <2> DEFINE n == Len(file)
             l == [file[n] EXCEPT !.kind = IF kind = "torn" THEN "torn" ELSE "scrap"]
  <2>1. file' = [file EXCEPT ![n] = l]
    BY <1>1 DEF Appends
  <2>2. n \in Nat /\ n \in DOMAIN file /\ file[n] \in LineRows /\ file[n].kind = "torn"
    BY <1>1 DEF Last
  <2>3. l \in LineRows /\ l.kind \in {"torn", "scrap"}
    BY <2>2 DEF LineRows, LineKinds
  <2> HIDE DEF l
  <2>4. file' \in Seq(LineRows) /\ Len(file') = n /\ file'[n] = l /\ \A i \in 1 .. n - 1 : file'[i] = file[i]
    BY <2>1, <2>2, <2>3
  <2>5. written' \in Nat
    BY DEF Appends
  <2> QED BY <1>1, <2>2, <2>3, <2>4, <2>5
<1>2. CASE ~(file # <<>> /\ Last(file).kind = "torn")
  <2>1. file' = Append(file, [id |-> written', kind |-> kind]) /\ written' \in Nat
    BY <1>2 DEF Appends
  <2>2. [id |-> written', kind |-> kind] \in LineRows
    BY <2>1 DEF LineRows
  <2> QED BY <2>1, <2>2
<1> QED BY <1>1, <1>2

\* So the last turn is the old one or the new one, and a turn that may follow may be added.
LEMMA AppendsTurns ==
  ASSUME NEW kind \in LineKinds, file \in Seq(LineRows), written \in Nat, Appends(kind)
  PROVE  /\ LastTurn(file') \in {LastTurn(file)} \cup ({kind} \cap Turns)
         /\ WellTurned(file) /\ (Unfinished(LastTurn(file)) /\ kind \in Turns => kind = "result")
              => WellTurned(file')
<1>1. PICK f, g : f = file /\ g = file'
  OBVIOUS
<1>2. f \in Seq(LineRows) /\ g \in Seq(LineRows)
  BY <1>1, AppendsForm
<1>3. CASE \E l \in LineRows : l.kind = kind /\ g = Append(f, l)
  BY <1>1, <1>2, <1>3, LineAppended
<1>4. CASE /\ f # <<>> /\ Len(g) = Len(f)
           /\ f[Len(f)].kind = "torn" /\ g[Len(f)].kind \in {"torn", "scrap"}
           /\ \A i \in 1 .. Len(f) - 1 : g[i] = f[i]
  <2>1. SameTurns(f, g)
    <3>1. \A i \in DOMAIN f : i = Len(f) \/ i \in 1 .. Len(f) - 1
      BY <1>2
    <3> QED BY <1>4, <3>1 DEF SameTurns, Turns
  <2> QED BY <1>1, <1>2, <2>1, SameTurnsKeep
<1> QED BY <1>1, <1>3, <1>4, AppendsForm

\* What a repair cuts: nothing if nothing is poisoned, else no turn but the unfinished one
\* it starts with.
LEMMA CutSpares ==
  ASSUME NEW lines \in Seq(LineRows)
  PROVE  LET found == detectTranscriptPoison(lines)
         IN  /\ found.cut \in 1 .. Len(lines) + 1
             /\ \A i \in found.cut .. Len(lines) :
                  lines[i].kind \in Turns => i = found.cut /\ Unfinished(lines[i].kind)
             /\ WellTurned(lines) =>
                  /\ ~Broken(SubSeq(lines, 1, found.cut - 1))
                  /\ LastTurn(SubSeq(lines, 1, found.cut - 1)) # "think"
<1> DEFINE bounds == {i \in DOMAIN lines : lines[i].kind \in Turns}
           b == IF bounds = {} THEN 0 ELSE CHOOSE i \in bounds : \A j \in bounds : j <= i
           clean == b = 0 \/ ~Unfinished(lines[b].kind)
           cut == IF clean THEN b + 1 ELSE b
           head == SubSeq(lines, 1, cut - 1)
<1>1. detectTranscriptPoison(lines).cut = cut
  BY DEF detectTranscriptPoison
<1>2. Len(lines) \in Nat /\ DOMAIN lines = 1 .. Len(lines)
  OBVIOUS
<1>3. /\ b \in 0 .. Len(lines)
      /\ \A j \in DOMAIN lines : lines[j].kind \in Turns => j <= b
      /\ b # 0 => lines[b].kind \in Turns
  <2>1. CASE bounds = {}
    BY <1>2, <2>1
  <2>2. CASE bounds # {}
    <3>1. b \in bounds /\ \A j \in bounds : j <= b
      BY <1>2, <2>2, Greatest
    <3> HIDE DEF b
    <3> QED BY <1>2, <3>1
  <2> QED BY <2>1, <2>2
<1> HIDE DEF b
<1>4. cut \in 1 .. Len(lines) + 1 /\ (clean => cut = b + 1) /\ (~clean => cut = b)
  BY <1>2, <1>3
<1>5. \A i \in cut .. Len(lines) : lines[i].kind \in Turns => i = cut /\ Unfinished(lines[i].kind)
  <2> SUFFICES ASSUME NEW i \in cut .. Len(lines), lines[i].kind \in Turns
               PROVE  i = cut /\ Unfinished(lines[i].kind)
    OBVIOUS
  <2>1. i \in DOMAIN lines /\ i <= b
    BY <1>2, <1>3, <1>4
  <2> QED BY <1>3, <1>4, <2>1
<1>6. /\ head \in Seq(LineRows) /\ Len(head) = cut - 1 /\ DOMAIN head = 1 .. cut - 1
      /\ \A i \in 1 .. cut - 1 : head[i] = lines[i]
  <2>1. cut - 1 \in 0 .. Len(lines)
    BY <1>2, <1>4
  <2> HIDE DEF cut
  <2> QED BY <1>2, <2>1
<1>7. ASSUME WellTurned(lines) PROVE ~Unfinished(LastTurn(head))
  <2> HIDE DEF head
  <2>1. CASE LastTurn(head) = "none"
    BY <2>1 DEF Unfinished
  <2>2. ASSUME NEW i \in DOMAIN head, head[i].kind \in Turns, LastTurn(head) = head[i].kind,
               \A j \in DOMAIN head : head[j].kind \in Turns => j <= i
        PROVE  ~Unfinished(LastTurn(head))
    <3>1. i \in 1 .. cut - 1 /\ i \in DOMAIN lines /\ lines[i] = head[i] /\ i <= b
      BY <1>2, <1>3, <1>4, <1>6, <2>2
    <3>2. CASE clean
      <4>1. b \in DOMAIN head /\ head[b].kind \in Turns
        BY <1>2, <1>3, <1>4, <1>6, <3>1, <3>2
      <4>2. i = b
        BY <1>3, <2>2, <3>1, <4>1
      <4> QED BY <2>2, <3>1, <3>2, <4>2, <1>2
    <3>3. CASE ~clean
      <4>1. b \in DOMAIN lines /\ i < b /\ lines[b].kind \in Turns
        BY <1>2, <1>3, <1>4, <3>1, <3>3
      <4>2. \A k \in DOMAIN lines : i < k /\ k < b => lines[k].kind \notin Turns
        BY <1>2, <1>3, <1>4, <1>6, <2>2, <3>1, <3>3
      <4>3. Unfinished(lines[b].kind)
        BY <3>3
      <4>4. Unfinished(lines[i].kind) => lines[b].kind = "result"
        BY <1>7, <3>1, <4>1, <4>2 DEF WellTurned
      <4> QED BY <2>2, <3>1, <4>3, <4>4 DEF Unfinished
    <3> QED BY <3>2, <3>3
  <2> QED BY <1>6, <2>1, <2>2, LastTurnHas
<1>8. ASSUME WellTurned(lines) PROVE ~Broken(head) /\ LastTurn(head) # "think"
  BY <1>7, <1>8 DEF Broken, Unfinished
<1> HIDE DEF cut
<1> QED BY <1>1, <1>4, <1>5, <1>8

\* A repair that is done has cut what was found, or nothing.  Unless a killed child wrote
\* behind a resume, the file is well turned, and so is what a repair has read; and who
\* may write a turn does not follow a thought that was broken off.
RepairIInv ==
  /\ TransTypeOK
  /\ repair.st = "read" => repair.dropped = 0
  /\ repair.st = "done" => repair.dropped \in {0, Len(repair.lines) - detectTranscriptPoison(repair.lines).cut + 1}
  /\ ~tampered =>
       /\ WellTurned(file)
       /\ repair.st # "none" => WellTurned(repair.lines)
       /\ child = "live" /\ turn # "idle" /\ ~bricked => LastTurn(file) # "think"
       /\ dying /\ child # "live" => LastTurn(file) # "think"

\* The child writes.
LEMMA ChildWrites ==
  ASSUME RepairIInv, Prompted \/ Proceeds \/ Fails \/ Interrupt \/ StopsShort \/ Reconfigure
  PROVE  RepairIInv'
<1>1. /\ repair' = repair /\ tampered' = tampered /\ dying' = dying /\ child' = child /\ prefix' = prefix
      /\ TransTypeOK
  BY DEF Prompted, Proceeds, Fails, Interrupt, StopsShort, Reconfigure, resumeVars, viewVars, childVars, RepairIInv
<1>2. ASSUME Prompted PROVE RepairIInv'
  <2>1. child = "live" /\ Appends("prompt") /\ turn' = "on" /\ bricked' \in BOOLEAN
        /\ (LastTurn(file) = "think" => bricked') /\ (bricked => bricked')
    BY <1>1, <1>2 DEF Prompted, Broken, TransTypeOK, Unfinished
  <2>2. /\ file' \in Seq(LineRows) /\ written' \in Nat
        /\ LastTurn(file') = LastTurn(file)
        /\ WellTurned(file) => WellTurned(file')
    BY <1>1, <2>1, AppendsForm, AppendsTurns DEF TransTypeOK, LineKinds, Turns
  <2> QED BY <1>1, <2>1, <2>2 DEF RepairIInv, TransTypeOK
<1>3. ASSUME Proceeds PROVE RepairIInv'
  <2>1. PICK kind \in Proceeding : Appends(kind) /\ turn' = IF kind = "text" THEN "idle" ELSE "on"
    BY <1>3 DEF Proceeds
  <2>2. child = "live" /\ turn = "on" /\ ~bricked /\ bricked' = bricked
    BY <1>3 DEF Proceeds
  <2>3. kind \in {"result", "tool", "text"} /\ (LastTurn(file) = "tool" => kind = "result")
    BY DEF Proceeding
  <2>4. kind \in LineKinds
    BY <2>3 DEF LineKinds
  <2>5. /\ file' \in Seq(LineRows) /\ written' \in Nat
        /\ LastTurn(file') \in {LastTurn(file)} \cup {kind}
        /\ WellTurned(file) /\ (Unfinished(LastTurn(file)) => kind = "result") => WellTurned(file')
    BY <1>1, <2>1, <2>4, AppendsForm, AppendsTurns DEF TransTypeOK
  <2>6. ~tampered => LastTurn(file) # "think"
    BY <2>2 DEF RepairIInv
  <2>7. Unfinished(LastTurn(file)) => LastTurn(file) \in {"think", "tool"}
    BY DEF Unfinished
  <2>8. turn' \in {"idle", "on"}
    BY <2>1
  <2> QED BY <1>1, <2>2, <2>3, <2>5, <2>6, <2>7, <2>8 DEF RepairIInv, TransTypeOK
<1>4. ASSUME Fails PROVE RepairIInv'
  <2>1. Appends("synth") /\ turn' = "idle" /\ bricked' = bricked /\ child = "live"
    BY <1>4 DEF Fails
  <2>2. /\ file' \in Seq(LineRows) /\ written' \in Nat
        /\ WellTurned(file) => WellTurned(file')
    BY <1>1, <2>1, AppendsForm, AppendsTurns DEF TransTypeOK, LineKinds, Turns
  <2> QED BY <1>1, <2>1, <2>2 DEF RepairIInv, TransTypeOK
<1>5. ASSUME Interrupt \/ Reconfigure PROVE RepairIInv'
  <2>1. /\ Appends("note") /\ bricked' = bricked
        /\ turn' = turn \/ (turn = "on" /\ turn' = "stopping")
    <3>1. CASE Interrupt
      BY <3>1 DEF Interrupt, appendTranscriptNotification
    <3>2. CASE Reconfigure
      <4>1. Appends("note") /\ UNCHANGED childVars
        BY <3>2 DEF Reconfigure, appendTranscriptNotification
      <4>2. bricked' = bricked /\ turn' = turn
        BY <4>1 DEF childVars
      <4> QED BY <4>1, <4>2
    <3> QED BY <1>5, <3>1, <3>2
  <2>2. /\ file' \in Seq(LineRows) /\ written' \in Nat
        /\ LastTurn(file') = LastTurn(file)
        /\ WellTurned(file) => WellTurned(file')
    BY <1>1, <2>1, AppendsForm, AppendsTurns DEF TransTypeOK, LineKinds, Turns
  <2> QED BY <1>1, <2>1, <2>2 DEF RepairIInv, TransTypeOK
<1>6. ASSUME StopsShort PROVE RepairIInv'
  <2>1. child = "live" /\ turn = "stopping" /\ turn' = "idle" /\ bricked' = bricked
    BY <1>6 DEF StopsShort
  <2>2. CASE UNCHANGED fileVars
    BY <1>1, <2>1, <2>2 DEF RepairIInv, TransTypeOK, fileVars
  <2>3. ASSUME ~bricked, NEW kind \in BrokenOff, Appends(kind) PROVE RepairIInv'
    <3>1. kind \in {"result", "think"} /\ (LastTurn(file) = "tool" => kind = "result")
      BY DEF BrokenOff
    <3>2. kind \in LineKinds
      BY <3>1 DEF LineKinds
    <3>3. /\ file' \in Seq(LineRows) /\ written' \in Nat
          /\ WellTurned(file) /\ (Unfinished(LastTurn(file)) => kind = "result") => WellTurned(file')
      BY <1>1, <2>3, <3>2, AppendsForm, AppendsTurns DEF TransTypeOK
    <3>4. ~tampered => LastTurn(file) # "think"
      BY <2>1, <2>3 DEF RepairIInv
    <3>5. Unfinished(LastTurn(file)) => LastTurn(file) \in {"think", "tool"}
      BY DEF Unfinished
    <3> QED BY <1>1, <2>1, <3>1, <3>3, <3>4, <3>5 DEF RepairIInv, TransTypeOK
  <2> QED BY <1>6, <2>2, <2>3 DEF StopsShort
<1> QED BY <1>2, <1>3, <1>4, <1>5, <1>6

\* The child is killed, and its last words come.
LEMMA ChildDies ==
  ASSUME RepairIInv, KillChild \/ Dies
  PROVE  RepairIInv'
<1>1. TransTypeOK /\ repair' = repair /\ prefix' = prefix
  BY DEF KillChild, Dies, resumeVars, viewVars, RepairIInv
<1>2. ASSUME KillChild PROVE RepairIInv'
  <2>1. /\ child = "live" /\ child' = "none" /\ turn' = "idle" /\ bricked' = FALSE
        /\ dying' = (turn = "on" /\ ~bricked) /\ file' = file /\ written' = written /\ tampered' = tampered
    BY <1>2 DEF KillChild, fileVars, resumeVars
  <2> QED BY <1>1, <2>1 DEF RepairIInv, TransTypeOK
<1>3. ASSUME Dies PROVE RepairIInv'
  <2>1. dying /\ dying' = FALSE /\ child' = child /\ turn' = turn /\ bricked' = bricked
    BY <1>3 DEF Dies
  <2>2. CASE UNCHANGED <<fileVars, tampered>>
    BY <1>1, <2>1, <2>2 DEF RepairIInv, TransTypeOK, fileVars
  <2>3. ASSUME NEW kind \in Proceeding \cup BrokenOff \cup {"torn"}, Appends(kind),
               tampered' = (tampered \/ repair.st # "none" \/ child = "live")
        PROVE  RepairIInv'
    <3>1. /\ kind \in {"result", "tool", "text", "think", "torn"}
          /\ LastTurn(file) = "tool" /\ kind \in Turns => kind = "result"
      BY DEF Proceeding, BrokenOff, Turns
    <3>2. kind \in LineKinds
      BY <3>1 DEF LineKinds
    <3>3. /\ file' \in Seq(LineRows) /\ written' \in Nat
          /\ WellTurned(file) /\ (Unfinished(LastTurn(file)) /\ kind \in Turns => kind = "result") => WellTurned(file')
      BY <1>1, <2>3, <3>2, AppendsForm, AppendsTurns DEF TransTypeOK
    <3>4. ~tampered' => ~tampered /\ repair.st = "none" /\ child # "live" /\ LastTurn(file) # "think"
      BY <2>1, <2>3 DEF RepairIInv
    <3>5. Unfinished(LastTurn(file)) => LastTurn(file) \in {"think", "tool"}
      BY DEF Unfinished
    <3>6. tampered' \in BOOLEAN
      BY <2>3
    <3> QED BY <1>1, <2>1, <3>1, <3>3, <3>4, <3>5, <3>6 DEF RepairIInv, TransTypeOK
  <2> QED BY <1>3, <2>2, <2>3 DEF Dies
<1> QED BY <1>2, <1>3

\* Lines that are written again keep their turns.
LEMMA RewrittenTurns ==
  ASSUME NEW lines \in Seq(LineRows)
  PROVE  /\ Rewritten(lines) \in Seq(LineRows)
         /\ LastTurn(Rewritten(lines)) = LastTurn(lines)
         /\ WellTurned(lines) => WellTurned(Rewritten(lines))
<1> DEFINE g == Rewritten(lines)
<1>1. /\ g = [i \in DOMAIN lines |-> g[i]]
      /\ \A i \in DOMAIN lines : g[i] = IF lines[i].kind = "torn" THEN [lines[i] EXCEPT !.kind = "scrap"] ELSE lines[i]
  BY DEF Rewritten
<1> HIDE DEF g
<1>2. \A i \in DOMAIN lines : lines[i] \in LineRows
  OBVIOUS
<1>3. \A i \in DOMAIN lines : g[i] \in LineRows /\ (g[i].kind = lines[i].kind \/ (lines[i].kind = "torn" /\ g[i].kind = "scrap"))
  <2> TAKE i \in DOMAIN lines
  <2>1. PICK l \in LineRows : l = lines[i]
    BY <1>2
  <2>2. CASE l.kind = "torn"
    <3>1. g[i] = [l EXCEPT !.kind = "scrap"]
      BY <1>1, <2>1, <2>2
    <3>2. [l EXCEPT !.kind = "scrap"] \in LineRows /\ [l EXCEPT !.kind = "scrap"].kind = "scrap"
      BY DEF LineRows, LineKinds
    <3> QED BY <2>1, <2>2, <3>1, <3>2
  <2>3. CASE l.kind # "torn"
    <3>1. g[i] = l
      BY <1>1, <2>1, <2>3
    <3> QED BY <2>1, <3>1
  <2> QED BY <2>2, <2>3
<1>4. DOMAIN lines = 1 .. Len(lines) /\ Len(lines) \in Nat
  OBVIOUS
<1>5. g \in Seq(LineRows) /\ Len(g) = Len(lines)
  BY <1>1, <1>3, <1>4
<1>6. SameTurns(lines, g)
  BY <1>3, <1>5 DEF SameTurns, Turns
<1> QED BY <1>5, <1>6, SameTurnsKeep DEF g

\* A resume reads the file, cuts it and starts a child.
LEMMA RepairWorks ==
  ASSUME RepairIInv, RepairReads \/ RepairWrites \/ Respawned
  PROVE  RepairIInv'
<1>1. TransTypeOK /\ prefix' = prefix /\ written' = written /\ tampered' = tampered /\ turn' = turn /\ dying' = dying
  BY DEF RepairReads, RepairWrites, Respawned, resumeVars, viewVars, childVars, fileVars, RepairIInv
<1>2. ASSUME RepairReads PROVE RepairIInv'
  <2>1. /\ child = "none" /\ child' = child /\ bricked' = bricked /\ file' = file
        /\ repair' = [st |-> "read", lines |-> file, dropped |-> 0]
    BY <1>2 DEF RepairReads, fileVars, childVars
  <2>2. repair'.st = "read" /\ repair'.lines = file
        /\ repair' \in [st : {"none", "read", "done"}, lines : Seq(LineRows), dropped : Nat]
    BY <1>1, <2>1 DEF TransTypeOK
  <2> QED BY <1>1, <2>1, <2>2 DEF RepairIInv, TransTypeOK
<1>3. ASSUME RepairWrites PROVE RepairIInv'
  <2> DEFINE found == detectTranscriptPoison(repair.lines)
             lines == repair.lines
             cut == found.cut
  <2>1. repair.st = "read" /\ child' = child /\ bricked' = bricked /\ child = "none"
    BY <1>1, <1>3 DEF RepairWrites, childVars, TransTypeOK
  <2>2. /\ lines \in Seq(LineRows) /\ Len(lines) \in Nat
        /\ repair = [st |-> repair.st, lines |-> lines, dropped |-> repair.dropped] /\ repair.dropped = repair.dropped
    BY <1>1 DEF TransTypeOK
  <2>3. cut \in 1 .. Len(lines) + 1
    BY <2>2, CutSpares
  <2>4. CASE found.poisoned
    <3> DEFINE d == Len(lines) - cut + 1
               head == SubSeq(lines, 1, cut - 1)
    <3>1. file' = Rewritten(head) /\ repair' = [repair EXCEPT !.st = "done", !.dropped = d]
      BY <1>3, <2>4 DEF RepairWrites
    <3> HIDE DEF found
    <3>2. d \in Nat /\ head \in Seq(LineRows)
      <4> HIDE DEF cut, lines
      <4> QED BY <2>2, <2>3
    <3> HIDE DEF d, cut, lines
    <3>3. /\ repair' \in [st : {"none", "read", "done"}, lines : Seq(LineRows), dropped : Nat]
          /\ repair'.st = "done" /\ repair'.lines = lines /\ repair'.dropped = d
      <4>1. PICK p \in [st : {"none", "read", "done"}, lines : Seq(LineRows), dropped : Nat] : p = repair
        BY <1>1 DEF TransTypeOK
      <4> DEFINE q == [p EXCEPT !.st = "done", !.dropped = d]
      <4>2. /\ q \in [st : {"none", "read", "done"}, lines : Seq(LineRows), dropped : Nat]
            /\ q.st = "done" /\ q.lines = p.lines /\ q.dropped = d
        BY <3>2
      <4>3. repair' = q /\ p.lines = lines
        BY <3>1, <4>1 DEF lines
      <4> HIDE DEF q
      <4> QED BY <4>2, <4>3
    <3>4. WellTurned(lines) => LastTurn(head) # "think" /\ WellTurned(head)
      <4>1. WellTurned(lines) => LastTurn(head) # "think"
        BY <2>2, CutSpares DEF found, cut
      <4>2. \A i \in DOMAIN head : i \in DOMAIN lines /\ head[i] = lines[i] /\ i \in Nat
        BY <2>2, <2>3
      <4>3. \A k \in DOMAIN lines, j \in DOMAIN head : k < j => k \in DOMAIN head
        BY <2>2, <2>3
      <4> HIDE DEF head
      <4>4. ASSUME WellTurned(lines) PROVE WellTurned(head)
        BY <4>2, <4>3, <4>4 DEF WellTurned
      <4> QED BY <4>1, <4>4
    <3>5. /\ file' \in Seq(LineRows) /\ LastTurn(file') = LastTurn(head)
          /\ WellTurned(head) => WellTurned(file')
      BY <3>1, <3>2, RewrittenTurns
    <3>6. ~tampered => WellTurned(lines)
      BY <2>1 DEF RepairIInv, lines
    <3>7. d = Len(repair'.lines) - detectTranscriptPoison(repair'.lines).cut + 1
      BY <3>3 DEF d, cut, found, lines
    <3> HIDE DEF head
    <3> QED BY <1>1, <2>1, <3>3, <3>4, <3>5, <3>6, <3>7 DEF RepairIInv, TransTypeOK
  <2>5. CASE ~found.poisoned
    <3>1. file' = file /\ repair' = [repair EXCEPT !.st = "done"]
      BY <1>3, <2>5 DEF RepairWrites
    <3>2. repair.dropped = 0
      BY <2>1 DEF RepairIInv
    <3>3. /\ repair' \in [st : {"none", "read", "done"}, lines : Seq(LineRows), dropped : Nat]
          /\ repair'.st = "done" /\ repair'.lines = repair.lines /\ repair'.dropped = 0
      <4>1. PICK p \in [st : {"none", "read", "done"}, lines : Seq(LineRows), dropped : Nat] : p = repair
        BY <1>1 DEF TransTypeOK
      <4> DEFINE q == [p EXCEPT !.st = "done"]
      <4>2. /\ q \in [st : {"none", "read", "done"}, lines : Seq(LineRows), dropped : Nat]
            /\ q.st = "done" /\ q.lines = p.lines /\ q.dropped = p.dropped
        OBVIOUS
      <4>3. repair' = q /\ p.lines = repair.lines /\ p.dropped = 0
        BY <3>1, <3>2, <4>1
      <4> HIDE DEF q
      <4> QED BY <4>2, <4>3
    <3> QED BY <1>1, <2>1, <3>1, <3>3 DEF RepairIInv, TransTypeOK
  <2> QED BY <2>4, <2>5
<1>4. ASSUME Respawned PROVE RepairIInv'
  <2>1. /\ repair.st = "done" /\ repair' = NoRepair /\ file' = file
        /\ \/ child' = "live" /\ bricked' = Broken(file)
           \/ child' = child /\ bricked' = bricked
    BY <1>4 DEF Respawned, fileVars
  <2>2. NoRepair \in [st : {"none", "read", "done"}, lines : Seq(LineRows), dropped : Nat] /\ NoRepair.st = "none"
    BY DEF NoRepair
  <2>3. Broken(file) \in BOOLEAN /\ (LastTurn(file) = "think" => Broken(file))
    BY DEF Broken, Unfinished
  <2> QED BY <1>1, <2>1, <2>2, <2>3 DEF RepairIInv, TransTypeOK
<1> QED BY <1>2, <1>3, <1>4


\* What the browser does, and its readers, keeps the file and the repair.
LEMMA ViewKeepsRepair ==
  ASSUME RepairIInv, UNCHANGED <<file, written, child, turn, bricked, dying, repair, tampered, prefix>>
  PROVE  RepairIInv'
BY DEF RepairIInv, TransTypeOK

\* Every step keeps the invariant.
LEMMA RepairIInvSteps ==
  ASSUME RepairIInv, [TransNext]_transVars
  PROVE  RepairIInv'
<1>1. CASE Prompted \/ Proceeds \/ Fails \/ Interrupt \/ StopsShort \/ Reconfigure
  BY <1>1, ChildWrites
<1>2. CASE KillChild \/ Dies
  BY <1>2, ChildDies
<1>3. CASE RepairReads \/ RepairWrites \/ Respawned
  BY <1>3, RepairWorks
<1>4. CASE TickSent \/ Reopened \/ \E k \in DOMAIN ticks : TickAnswered(k) \/ TickLands(k) \/ TickLost(k)
  <2>1. ViewStays
    BY <1>4 DEF TickSent, Reopened, TickAnswered, TickLands, TickLost
  <2> QED BY <2>1, ViewKeepsRepair DEF ViewStays, fileVars, childVars, resumeVars
<1>5. CASE UNCHANGED transVars
  BY <1>5, ViewKeepsRepair DEF transVars, fileVars, childVars, resumeVars, viewVars
<1> QED BY <1>1, <1>2, <1>3, <1>4, <1>5 DEF TransNext

\* So it holds always.
LEMMA RepairIInvHolds == TransSpec => []RepairIInv
<1>1. TransInit => RepairIInv
  <2> SUFFICES ASSUME TransInit PROVE RepairIInv
    OBVIOUS
  <2>1. NoRepair \in [st : {"none", "read", "done"}, lines : Seq(LineRows), dropped : Nat] /\ NoRepair.st = "none"
    BY DEF NoRepair
  <2>2. WellTurned(<<>>)
    BY DEF WellTurned
  <2>3. file = <<>> /\ repair = NoRepair /\ <<>> \in Seq(LineRows) /\ repair.st = "none"
    BY <2>1 DEF TransInit
  <2>4. WellTurned(file)
    BY <2>2, <2>3
  <2>5. TransTypeOK
    BY <2>1, <2>3 DEF TransInit, TransTypeOK
  <2>6. turn = "idle" /\ ~dying
    BY DEF TransInit
  <2> QED BY <2>3, <2>4, <2>5, <2>6 DEF RepairIInv
<1> QED BY <1>1, RepairIInvSteps, PTL DEF TransSpec

\* What the invariant says of a repair that is done is what a reader wants to know.
LEMMA RepairIInvSuffices == RepairIInv => RepairSpares
<1> SUFFICES ASSUME RepairIInv, repair.st = "done"
             PROVE  LET lines == repair.lines
                        first == Len(lines) - repair.dropped + 1
                    IN  /\ \A i \in first .. Len(lines) :
                              lines[i].kind \in Turns => i = first /\ Unfinished(lines[i].kind)
                        /\ repair.dropped > 0 /\ ~tampered => ~Broken(SubSeq(lines, 1, first - 1))
  BY DEF RepairSpares
<1>1. PICK lines \in Seq(LineRows), d \in Nat : lines = repair.lines /\ d = repair.dropped
  BY DEF RepairIInv, TransTypeOK
<1> DEFINE cut == detectTranscriptPoison(lines).cut
           first == Len(lines) - d + 1
<1>2. cut \in 1 .. Len(lines) + 1 /\ Len(lines) \in Nat
  BY CutSpares
<1>3. /\ \A i \in cut .. Len(lines) : lines[i].kind \in Turns => i = cut /\ Unfinished(lines[i].kind)
      /\ WellTurned(lines) => ~Broken(SubSeq(lines, 1, cut - 1))
  BY CutSpares
<1>4. d \in {0, Len(lines) - cut + 1} /\ (~tampered => WellTurned(lines))
  BY <1>1 DEF RepairIInv
<1> HIDE DEF cut
<1>5. d = 0 => \A i \in first .. Len(lines) : FALSE
  BY <1>2
<1>6. d # 0 => first = cut
  BY <1>2, <1>4
<1>7. d > 0 => d # 0
  OBVIOUS
<1> HIDE DEF first
<1>8. /\ \A i \in first .. Len(lines) : lines[i].kind \in Turns => i = first /\ Unfinished(lines[i].kind)
      /\ d > 0 /\ ~tampered => ~Broken(SubSeq(lines, 1, first - 1))
  BY <1>3, <1>4, <1>5, <1>6, <1>7
<1> QED BY <1>1, <1>8 DEF first

\* A repair cuts no finished answer and no result of a call, and leaves a history that the
\* next turn can build on (detectTranscriptPoison and repairTranscript in session-health.ts):
\* behind the last turn there are none, and what comes before an unfinished turn is finished
\* or its call got the result, since nobody writes a turn behind a thought that was broken
\* off.
THEOREM RepairsSpare == TransSpec => []RepairSpares
BY RepairIInvHolds, RepairIInvSuffices, PTL

-----------------------------------------------------------------------------
(* The viewer of a transcript.                                             *)

\* What is before the first line of a transcript, and the ids of the first c lines.
Heading == IF prefix THEN <<0>> ELSE <<>>
IdsUpTo(c) == [i \in 1 .. c |-> readTranscript[i].id]

\* A view s with cursor c is the transcript up to there.
Tracks(c, s) == c \in Nat /\ c <= Len(readTranscript) /\ s = Heading \o IdsUpTo(c)

\* A tick asks for what the view lacks, and its answer makes the view whole.
TickOK(t) ==
  \/ t.st = "sent" /\ t.since = cursor
  \/ t.st = "answered" /\ Tracks(t.cursor, IF cursor = -1 THEN t.lines ELSE shown \o t.lines)

ViewIInv ==
  ~raced =>
    /\ cursor = -1 \/ Tracks(cursor, shown)
    /\ ticks = <<>> \/ \E t : ticks = <<t>> /\ TickOK(t)

\* The lines that a reader sees, and what it sees of a file that got a line more.
Readable(f) == {i \in DOMAIN f : f[i].kind \notin {"torn", "scrap"}}

\* What a reader sees is a list.
LEMMA ReadableForm ==
  ASSUME NEW f \in Seq(LineRows)
  PROVE  /\ Readable(f) \in SUBSET (1 .. Len(f)) /\ Len(f) \in Nat
         /\ Len(ElementsAt(f, Readable(f))) \in Nat
         /\ DOMAIN ElementsAt(f, Readable(f)) = 1 .. Len(ElementsAt(f, Readable(f)))
<1>1. Readable(f) \in SUBSET (1 .. Len(f)) /\ Len(f) \in Nat
  BY DEF Readable
<1> DEFINE e == ElementsAt(f, Readable(f))
           c == Cardinality(Readable(f))
<1>2. Len(e) = c /\ c \in Nat /\ e = [k \in 1 .. c |-> e[k]]
  BY <1>1, ElementsForm
<1> HIDE DEF e, c
<1>3. DOMAIN e = 1 .. Len(e) /\ Len(e) \in Nat
  BY <1>2
<1> QED BY <1>1, <1>3 DEF e

\* A line more changes nothing a reader saw before.
LEMMA ReadOn ==
  ASSUME NEW kind \in LineKinds, file \in Seq(LineRows), written \in Nat, Appends(kind)
  PROVE  /\ Len(readTranscript) \in Nat /\ Len(readTranscript') \in Nat
         /\ Len(readTranscript) <= Len(readTranscript')
         /\ \A i \in 1 .. Len(readTranscript) : readTranscript'[i] = readTranscript[i]
<1>1. PICK f, g : f = file /\ g = file'
  OBVIOUS
<1>2. f \in Seq(LineRows) /\ g \in Seq(LineRows) /\ Len(f) \in Nat
  BY <1>1, AppendsForm
<1> DEFINE e == ElementsAt(f, Readable(f))
           h == ElementsAt(g, Readable(g))
<1>3. readTranscript = e /\ readTranscript' = h
  BY <1>1 DEF readTranscript, Readable
<1>4. Readable(f) \in SUBSET (1 .. Len(f)) /\ Len(e) \in Nat /\ Len(h) \in Nat
  BY <1>2, ReadableForm
<1>5. ASSUME Readable(g) = Readable(f), \A i \in Readable(f) : g[i] = f[i]
      PROVE  e = h
  <2>1. ElementsAt(f, Readable(f)) = ElementsAt(g, Readable(f))
    BY <1>2, <1>4, <1>5, ElementsSame
  <2> QED BY <1>5, <2>1
<1>6. ASSUME NEW l \in LineRows, g = Append(f, l)
      PROVE  Len(e) <= Len(h) /\ \A i \in 1 .. Len(e) : h[i] = e[i]
  <2> DEFINE n == Len(f) + 1
  <2>1. /\ DOMAIN f = 1 .. Len(f) /\ DOMAIN g = 1 .. n
        /\ g[n] = l /\ \A i \in 1 .. Len(f) : g[i] = f[i]
    BY <1>2, <1>6
  <2>2. \A i \in Readable(f) : g[i] = f[i]
    BY <1>4, <2>1
  <2>3. \A i \in DOMAIN g : i = n \/ i \in DOMAIN f
    BY <1>2, <2>1
  <2>4. n \in DOMAIN g /\ n \notin DOMAIN f /\ n \in Nat /\ n > Len(f) /\ \A i \in DOMAIN f : i \in DOMAIN g
    BY <1>2, <2>1
  <2> HIDE DEF n
  <2>5. CASE l.kind \in {"torn", "scrap"}
    <3>1. Readable(g) = Readable(f)
      BY <2>1, <2>3, <2>4, <2>5 DEF Readable
    <3>2. e = h
      BY <1>5, <2>2, <3>1
    <3> HIDE DEF e, h
    <3> QED BY <1>4, <3>2
  <2>6. CASE l.kind \notin {"torn", "scrap"}
    <3>1. Readable(g) = Readable(f) \cup {n}
      BY <2>1, <2>3, <2>4, <2>6 DEF Readable
    <3> DEFINE d == ElementsAt(g, Readable(f))
    <3>2. d = e
      BY <1>2, <1>4, <2>2, ElementsSame
    <3>3. Len(h) = Len(d) + 1 /\ \A i \in 1 .. Len(d) : h[i] = d[i]
      <4>0. /\ Len(ElementsAt(g, Readable(f) \cup {n})) = Len(ElementsAt(g, Readable(f))) + 1
            /\ StartsWith(ElementsAt(g, Readable(f) \cup {n}), ElementsAt(g, Readable(f)))
        BY <1>2, <1>4, <2>4, ElementsGrow
      <4>1. Len(h) = Len(d) + 1 /\ StartsWith(h, d)
        BY <3>1, <4>0
      <4> HIDE DEF d, h
      <4> QED BY <4>1 DEF StartsWith
    <3> HIDE DEF d, e, h
    <3> QED BY <1>4, <3>2, <3>3
  <2> QED BY <2>5, <2>6
<1>7. ASSUME f # <<>>, Len(g) = Len(f),
             f[Len(f)].kind = "torn", g[Len(f)].kind \in {"torn", "scrap"},
             \A i \in 1 .. Len(f) - 1 : g[i] = f[i]
      PROVE  Len(e) <= Len(h) /\ \A i \in 1 .. Len(e) : h[i] = e[i]
  <2>1. DOMAIN f = DOMAIN g /\ \A i \in DOMAIN f : i = Len(f) \/ i \in 1 .. Len(f) - 1
    BY <1>2, <1>7
  <2>2. Readable(g) = Readable(f) /\ \A i \in Readable(f) : g[i] = f[i]
    BY <1>7, <2>1 DEF Readable
  <2>3. e = h
    BY <1>5, <2>2
  <2> HIDE DEF e, h
  <2> QED BY <1>4, <2>3
<1>8. \/ \E l \in LineRows : g = Append(f, l)
      \/ /\ f # <<>> /\ Len(g) = Len(f)
         /\ f[Len(f)].kind = "torn" /\ g[Len(f)].kind \in {"torn", "scrap"}
         /\ \A i \in 1 .. Len(f) - 1 : g[i] = f[i]
  BY <1>1, AppendsForm
<1>9. Len(e) <= Len(h) /\ \A i \in 1 .. Len(e) : h[i] = e[i]
  BY <1>6, <1>7, <1>8
<1> QED BY <1>3, <1>4, <1>9

\* A view that tracks the transcript does so when the file grows.
LEMMA TracksOn ==
  ASSUME Len(readTranscript) \in Nat, Len(readTranscript') \in Nat,
         Len(readTranscript) <= Len(readTranscript'),
         \A i \in 1 .. Len(readTranscript) : readTranscript'[i] = readTranscript[i],
         prefix' = prefix, NEW c, NEW s, Tracks(c, s)
  PROVE  c \in Nat /\ c <= Len(readTranscript') /\ s = Heading' \o IdsUpTo(c)'
<1>1. PICK q, r : q = readTranscript /\ r = readTranscript'
  OBVIOUS
<1>2. /\ c \in Nat /\ c <= Len(q) /\ Len(q) \in Nat /\ Len(r) \in Nat /\ Len(q) <= Len(r)
      /\ \A i \in 1 .. Len(q) : r[i] = q[i]
  BY <1>1 DEF Tracks
<1>3. \A i \in 1 .. c : r[i] = q[i]
  BY <1>2
<1>4. [i \in 1 .. c |-> r[i].id] = [i \in 1 .. c |-> q[i].id]
  BY <1>3
<1>5. IdsUpTo(c) = [i \in 1 .. c |-> q[i].id] /\ IdsUpTo(c)' = [i \in 1 .. c |-> r[i].id]
  BY <1>1 DEF IdsUpTo
<1>6. Heading' = Heading
  BY DEF Heading
<1>7. c <= Len(r)
  BY <1>2
<1> QED BY <1>1, <1>2, <1>4, <1>5, <1>6, <1>7 DEF Tracks

\* The file grows or stays, and the view stays.
LEMMA GrowthKeepsView ==
  ASSUME ViewIInv, TransTypeOK, UNCHANGED <<prefix, shown, cursor, ticks, raced>>,
         UNCHANGED file \/ \E kind \in LineKinds : Appends(kind)
  PROVE  ViewIInv'
<1>1. /\ Len(readTranscript) \in Nat /\ Len(readTranscript') \in Nat
      /\ Len(readTranscript) <= Len(readTranscript')
      /\ \A i \in 1 .. Len(readTranscript) : readTranscript'[i] = readTranscript[i]
  <2>1. CASE UNCHANGED file
    <3>1. readTranscript' = readTranscript
      BY <2>1 DEF readTranscript
    <3>2. Len(readTranscript) \in Nat
      BY ReadableForm DEF TransTypeOK, readTranscript, Readable
    <3> QED BY <3>1, <3>2
  <2>2. CASE \E kind \in LineKinds : Appends(kind)
    BY <2>2, ReadOn DEF TransTypeOK
  <2> QED BY <2>1, <2>2
<1>2. \A c, s : Tracks(c, s) => (c \in Nat /\ c <= Len(readTranscript') /\ s = Heading' \o IdsUpTo(c)')
  BY <1>1, TracksOn
<1>3. ASSUME NEW c, NEW s, Tracks(c, s) PROVE Tracks(c, s)'
  BY <1>2, <1>3 DEF Tracks
<1>5. PICK c, s : c = cursor /\ s = shown
  OBVIOUS
<1>6. ~raced => c = -1 \/ Tracks(c, s)'
  BY <1>3, <1>5 DEF ViewIInv
<1>7. ASSUME NEW t, ticks = <<t>>, TickOK(t) PROVE TickOK(t)'
  <2>1. CASE t.st = "sent" /\ t.since = c
    BY <1>5, <2>1 DEF TickOK
  <2>2. CASE t.st = "answered" /\ Tracks(t.cursor, IF c = -1 THEN t.lines ELSE s \o t.lines)
    <3>1. Tracks(t.cursor, IF c = -1 THEN t.lines ELSE s \o t.lines)'
      BY <1>3, <2>2
    <3> QED BY <1>5, <2>2, <3>1 DEF TickOK
  <2> QED BY <1>5, <1>7, <2>1, <2>2 DEF TickOK
<1>8. /\ cursor' = c /\ shown' = s /\ ticks' = ticks /\ raced' = raced
  BY <1>5
<1>9. ~raced => ticks = <<>> \/ \E t : ticks = <<t>> /\ TickOK(t)'
  BY <1>7 DEF ViewIInv
<1>10. Tracks(c, s)' => Tracks(cursor, shown)'
  BY <1>8 DEF Tracks
<1> QED BY <1>6, <1>8, <1>9, <1>10 DEF ViewIInv

\* The browser asks, and is answered.
LEMMA TickSentKeeps == ASSUME ViewIInv, TickSent PROVE ViewIInv'
<1>1. PICK c, s, t : c = cursor /\ s = shown /\ t = [st |-> "sent", since |-> c]
  OBVIOUS
<1>2. /\ ticks' = Append(ticks, t) /\ raced' = (raced \/ ticks # <<>>) /\ cursor' = c /\ shown' = s
      /\ UNCHANGED <<file, prefix>>
  BY <1>1 DEF TickSent, ViewStays, fileVars
<1>3. SUFFICES ASSUME ~raced' PROVE ViewIInv'
  BY DEF ViewIInv
<1>4. ~raced /\ ticks = <<>> /\ raced' = FALSE
  BY <1>2, <1>3
<1>5. ticks' = <<t>>
  BY <1>2, <1>4
<1>6. c = -1 \/ Tracks(c, s)
  BY <1>1, <1>4 DEF ViewIInv
<1>7. Tracks(c, s) => Tracks(cursor, shown)'
  BY <1>2 DEF Tracks, IdsUpTo, Heading, readTranscript
<1>8. TickOK(t)'
  BY <1>1, <1>2 DEF TickOK
<1> QED BY <1>2, <1>5, <1>6, <1>7, <1>8 DEF ViewIInv

\* The answer to a tick has what the view lacks.
LEMMA RouteAnswers ==
  ASSUME TransTypeOK, cursor = -1 \/ Tracks(cursor, shown)
  PROVE  LET a == transcriptRoute(cursor)
         IN  Tracks(a.cursor, IF cursor = -1 THEN a.lines ELSE shown \o a.lines)
<1> DEFINE lines == readTranscript
           n == Len(lines)
           ids == [i \in DOMAIN lines |-> lines[i].id]
           S == {lines[i].id : i \in 1 .. n} \cup {0}
           a == transcriptRoute(cursor)
<1>1. n \in Nat /\ DOMAIN lines = 1 .. n
  BY ReadableForm DEF TransTypeOK, readTranscript, Readable
<1>2. a.cursor = Len(ids) /\ (cursor = -1 => a.lines = Heading \o ids)
      /\ (cursor # -1 => a.lines = SubSeq(ids, cursor + 1, Len(ids)))
  BY DEF transcriptRoute, Heading
<1> HIDE DEF a, lines
<1>3. ids \in Seq(S) /\ Len(ids) = n /\ ids = IdsUpTo(n)
  <2>1. \A i \in 1 .. n : lines[i].id \in S
    OBVIOUS
  <2> HIDE DEF S, n
  <2>2. ids \in [1 .. n -> S]
    BY <1>1, <2>1
  <2>3. ids = IdsUpTo(n)
    BY <1>1 DEF IdsUpTo, lines
  <2> HIDE DEF ids
  <2>4. ids \in Seq(S) /\ Len(ids) = n
    BY <1>1, <2>2
  <2> QED BY <2>3, <2>4
<1>4. Heading \in Seq(S)
  <2>1. 0 \in S
    OBVIOUS
  <2> HIDE DEF S
  <2> QED BY <2>1 DEF Heading
<1>5. a.cursor = n
  BY <1>2, <1>3
<1>6. CASE cursor = -1
  <2>1. a.lines = Heading \o IdsUpTo(n)
    <3> HIDE DEF ids
    <3> QED BY <1>2, <1>3, <1>6
  <2> HIDE DEF n
  <2>2. Tracks(n, a.lines)
    <3>1. n <= Len(readTranscript)
      BY <1>1 DEF n, lines
    <3> QED BY <1>1, <2>1, <3>1 DEF Tracks
  <2> QED BY <1>5, <1>6, <2>2 DEF a
<1>7. CASE cursor # -1
  <2>1. PICK c \in Nat : c = cursor /\ c <= n /\ shown = Heading \o IdsUpTo(c)
    BY <1>7 DEF Tracks, lines
  <2>2. c \in 0 .. n
    BY <1>1, <2>1
  <2>3. IdsUpTo(c) = SubSeq(ids, 1, c)
    <3>1. SubSeq(ids, 1, c) = [i \in 1 .. c |-> ids[i]]
      BY <1>3, <2>2
    <3>2. \A i \in 1 .. c : ids[i] = readTranscript[i].id
      BY <1>1, <2>2 DEF lines
    <3> HIDE DEF ids
    <3> QED BY <3>1, <3>2 DEF IdsUpTo
  <2> HIDE DEF ids, n, S
  <2>4. SubSeq(ids, 1, c) \in Seq(S) /\ SubSeq(ids, c + 1, n) \in Seq(S)
    <3>1. \A i \in 1 .. n : ids[i] \in S
      BY <1>1, <1>3
    <3>2. \A i \in 1 .. c : i \in 1 .. n
      BY <1>1, <2>2
    <3>3. \A i \in c + 1 .. n : i \in 1 .. n
      BY <1>1, <2>2
    <3>4. c \in Int /\ n \in Int /\ c + 1 \in Int /\ 1 \in Int
      BY <1>1, <2>2
    <3>5. SubSeq(ids, 1, c) \in Seq(S)
      BY <3>1, <3>2, <3>4, SubSeqProperties
    <3>6. SubSeq(ids, c + 1, n) \in Seq(S)
      BY <3>1, <3>3, <3>4, SubSeqProperties
    <3> QED BY <3>5, <3>6
  <2>5. SubSeq(ids, 1, c) \o SubSeq(ids, c + 1, n) = ids
    <3>1. /\ 1 \in 1 .. Len(ids) + 1 /\ c \in 1 - 1 .. Len(ids) /\ n \in c .. Len(ids)
      BY <1>1, <1>3, <2>2
    <3>2. SubSeq(ids, 1, c) \o SubSeq(ids, c + 1, n) = SubSeq(ids, 1, n)
      BY <1>3, <3>1, ConcatAdjacentSubSeq
    <3>3. SubSeq(ids, 1, n) = ids
      BY <1>3, SubSeqFull
    <3> QED BY <3>2, <3>3
  <2>6. (Heading \o SubSeq(ids, 1, c)) \o SubSeq(ids, c + 1, n) = Heading \o ids
    <3>1. PICK x \in Seq(S), y \in Seq(S), z \in Seq(S) :
                 x = Heading /\ y = SubSeq(ids, 1, c) /\ z = SubSeq(ids, c + 1, n)
      BY <1>4, <2>4
    <3>2. (x \o y) \o z = x \o (y \o z)
      BY ConcatAssociative
    <3> QED BY <2>5, <3>1, <3>2
  <2>7. shown \o a.lines = Heading \o IdsUpTo(n)
    BY <1>2, <1>3, <1>7, <2>1, <2>3, <2>6
  <2>8. n <= Len(readTranscript)
    BY <1>1 DEF n, lines
  <2>9. Tracks(n, shown \o a.lines)
    BY <1>1, <2>7, <2>8 DEF Tracks
  <2> QED BY <1>5, <1>7, <2>9 DEF a
<1> QED BY <1>6, <1>7

\* The answer makes the view whole when it lands.
LEMMA TickAnsweredKeeps ==
  ASSUME ViewIInv, TransTypeOK, NEW k \in DOMAIN ticks, TickAnswered(k)
  PROVE  ViewIInv'
<1>1. PICK a : a = transcriptRoute(ticks[k].since)
  OBVIOUS
<1> DEFINE u == [st |-> "answered", lines |-> a.lines, cursor |-> a.cursor]
<1>2. /\ ticks[k].st = "sent" /\ ticks' = [ticks EXCEPT ![k] = u]
      /\ UNCHANGED <<file, prefix, shown, cursor, raced>>
  BY <1>1 DEF TickAnswered, ViewStays, fileVars
<1>3. u.st = "answered" /\ u.lines = a.lines /\ u.cursor = a.cursor
  OBVIOUS
<1> HIDE DEF u
<1>4. SUFFICES ASSUME ~raced PROVE ViewIInv'
  BY <1>2 DEF ViewIInv
<1>5. PICK t : ticks = <<t>> /\ TickOK(t)
  BY <1>4 DEF ViewIInv
<1>6. k = 1 /\ t.st = "sent" /\ t.since = cursor /\ ticks' = <<u>>
  <2>1. k = 1
    BY <1>5
  <2>2. ticks[k] = t
    BY <1>5, <2>1
  <2>3. t.st = "sent" /\ t.since = cursor
    BY <1>2, <1>5, <2>2 DEF TickOK
  <2>4. ticks' = <<u>>
    BY <1>2, <1>5, <2>1
  <2> QED BY <2>1, <2>3, <2>4
<1>7. a = transcriptRoute(cursor)
  BY <1>1, <1>5, <1>6
<1>8. Tracks(a.cursor, IF cursor = -1 THEN a.lines ELSE shown \o a.lines)
  BY <1>4, <1>7, RouteAnswers DEF ViewIInv
<1>9. PICK c, s : c = cursor /\ s = shown
  OBVIOUS
<1>10. Tracks(u.cursor, IF c = -1 THEN u.lines ELSE s \o u.lines)'
  BY <1>2, <1>3, <1>8, <1>9 DEF Tracks, IdsUpTo, Heading, readTranscript
<1>11. TickOK(u)'
  BY <1>2, <1>3, <1>9, <1>10 DEF TickOK
<1>12. cursor = -1 \/ Tracks(cursor, shown)
  BY <1>4 DEF ViewIInv
<1>13. (cursor = -1 \/ Tracks(cursor, shown))'
  BY <1>2, <1>12 DEF Tracks, IdsUpTo, Heading, readTranscript
<1> QED BY <1>6, <1>11, <1>13 DEF ViewIInv

\* An answer lands or is lost.
LEMMA TickEnds ==
  ASSUME ViewIInv, NEW k \in DOMAIN ticks, TickLands(k) \/ TickLost(k)
  PROVE  ViewIInv'
<1>1. raced' = raced /\ UNCHANGED <<file, prefix>> /\ ticks' = RemoveAt(ticks, k)
  BY DEF TickLands, TickLost, ViewStays, fileVars
<1>2. SUFFICES ASSUME ~raced PROVE ViewIInv'
  BY <1>1 DEF ViewIInv
<1>3. PICK t : ticks = <<t>> /\ TickOK(t)
  BY <1>2 DEF ViewIInv
<1>4. k = 1 /\ ticks[k] = t
  BY <1>3
<1>5. ticks' = <<>>
  <2>1. SubSeq(<<t>>, 1, 0) = <<>> /\ SubSeq(<<t>>, 2, 1) = <<>>
    BY SubSeqEmpty
  <2>2. ticks' = SubSeq(<<t>>, 1, 0) \o SubSeq(<<t>>, 2, 1)
    BY <1>1, <1>3, <1>4 DEF RemoveAt
  <2> QED BY <2>1, <2>2
<1>6. CASE TickLands(k)
  <2>1. t.st = "answered" /\ cursor' = t.cursor
        /\ shown' = IF cursor = -1 THEN t.lines ELSE shown \o t.lines
    BY <1>4, <1>6 DEF TickLands
  <2>2. PICK c, s : c = t.cursor /\ s = IF cursor = -1 THEN t.lines ELSE shown \o t.lines
    OBVIOUS
  <2>3. Tracks(c, s)
    BY <1>3, <2>1, <2>2 DEF TickOK
  <2>4. Tracks(cursor, shown)'
    BY <1>1, <2>1, <2>2, <2>3 DEF Tracks, IdsUpTo, Heading, readTranscript
  <2> QED BY <1>5, <2>4 DEF ViewIInv
<1>7. CASE TickLost(k)
  <2>1. UNCHANGED <<shown, cursor>>
    BY <1>7 DEF TickLost
  <2>2. cursor = -1 \/ Tracks(cursor, shown)
    BY <1>2 DEF ViewIInv
  <2>3. (cursor = -1 \/ Tracks(cursor, shown))'
    BY <1>1, <2>1, <2>2 DEF Tracks, IdsUpTo, Heading, readTranscript
  <2> QED BY <1>5, <2>3 DEF ViewIInv
<1> QED BY <1>6, <1>7

\* Every step keeps the view.
LEMMA ViewIInvSteps ==
  ASSUME RepairIInv, ViewIInv, [TransNext]_transVars
  PROVE  ViewIInv'
<1>0. TransTypeOK
  BY DEF RepairIInv
<1>1. CASE Prompted \/ Proceeds \/ Fails \/ Interrupt \/ StopsShort \/ Reconfigure \/ KillChild \/ Dies
  <2>1. UNCHANGED viewVars
    BY <1>1 DEF Prompted, Proceeds, Fails, Interrupt, StopsShort, Reconfigure, KillChild, Dies
  <2>2. UNCHANGED file \/ \E kind \in LineKinds : Appends(kind)
    <3>1. Proceeding \subseteq LineKinds /\ BrokenOff \subseteq LineKinds /\ {"prompt", "note", "synth", "torn"} \subseteq LineKinds
      BY DEF Proceeding, BrokenOff, LineKinds
    <3>2. CASE Prompted \/ Interrupt \/ Reconfigure \/ Fails
      BY <3>1, <3>2 DEF Prompted, Interrupt, Reconfigure, Fails, appendTranscriptNotification
    <3>3. CASE Proceeds
      BY <3>1, <3>3 DEF Proceeds
    <3>4. CASE StopsShort
      BY <3>1, <3>4 DEF StopsShort, fileVars
    <3>5. CASE KillChild
      BY <3>5 DEF KillChild, fileVars
    <3>6. CASE Dies
      BY <3>1, <3>6 DEF Dies, fileVars
    <3> QED BY <1>1, <3>2, <3>3, <3>4, <3>5, <3>6
  <2> QED BY <1>0, <2>1, <2>2, GrowthKeepsView DEF viewVars
<1>2. CASE RepairReads \/ Respawned
  <2>1. UNCHANGED viewVars /\ UNCHANGED fileVars
    BY <1>2 DEF RepairReads, Respawned
  <2> QED BY <1>0, <2>1, GrowthKeepsView DEF viewVars, fileVars
<1>3. CASE RepairWrites
  <2>1. UNCHANGED <<prefix, shown, cursor, ticks>>
    BY <1>3 DEF RepairWrites
  <2>2. CASE UNCHANGED <<file, raced>>
    BY <1>0, <2>1, <2>2, GrowthKeepsView
  <2>3. CASE raced' = (raced \/ cursor # -1 \/ ticks # <<>>)
    BY <2>1, <2>3 DEF ViewIInv
  <2> QED BY <1>3, <2>2, <2>3 DEF RepairWrites
<1>4. CASE TickSent
  BY <1>4, TickSentKeeps
<1>5. CASE Reopened
  BY <1>5 DEF Reopened, ViewIInv
<1>6. CASE \E k \in DOMAIN ticks : TickAnswered(k) \/ TickLands(k) \/ TickLost(k)
  BY <1>0, <1>6, TickAnsweredKeeps, TickEnds
<1>7. CASE UNCHANGED transVars
  BY <1>0, <1>7, GrowthKeepsView DEF transVars, viewVars, fileVars
<1> QED BY <1>1, <1>2, <1>3, <1>4, <1>5, <1>6, <1>7 DEF TransNext

\* While its ticks do not overlap and no repair cuts the file, an open view shows the system
\* prompt and the lines up to its cursor, each once (useAppendPoll over the transcript route):
\* the one answer that is under way continues the view, however the file grew meanwhile.
THEOREM ViewsTrack == TransSpec => []ViewerTracks
<1>1. TransInit => ViewIInv
  BY DEF TransInit, ViewIInv
<1>2. ViewIInv => ViewerTracks
  BY DEF ViewIInv, ViewerTracks, Tracks, IdsUpTo, Heading
<1> QED BY <1>1, <1>2, ViewIInvSteps, RepairIInvHolds, PTL DEF TransSpec

-----------------------------------------------------------------------------
(* The windows of a transcript.                                            *)

\* What holds of a number when it holds of the smaller ones holds of each.
LEMMA Everywhere == ASSUME NEW n \in Nat, NEW S,
                           \A k \in 0 .. n : (\A j \in 0 .. n : j < k => j \in S) => k \in S
                    PROVE  \A k \in 0 .. n : k \in S
<1> DEFINE R == OpToRel(<, Nat)
           T == {k \in 0 .. n : k \notin S}
<1>1. \A x, y \in Nat : y < x => <<y, x>> \in R
  BY DEF OpToRel
<1>2. IsWellFoundedOn(R, Nat)
  BY NatLessThanWellFounded
<1>3. T \subseteq Nat
  OBVIOUS
<1> SUFFICES ASSUME T # {} PROVE FALSE
  OBVIOUS
<1> HIDE DEF R
<1>4. PICK m \in T : \A y \in T : ~(<<y, m>> \in R)
  <2> HIDE DEF T
  <2> QED BY <1>2, <1>3, WFMin
<1>5. \A j \in 0 .. n : j < m => j \in S
  BY <1>1, <1>3, <1>4
<1> QED BY <1>4, <1>5

\* A list of numbers that grow is told by which they are.
Grows(s, E) ==
  /\ IsSeq(s)
  /\ \A i \in DOMAIN s : s[i] \in E /\ s[i] \in Int
  /\ \A i, j \in DOMAIN s : i < j => s[i] < s[j]
  /\ \A x \in E : \E i \in DOMAIN s : s[i] = x

\* What is called a sequence has a length, and is what it holds at each place.
LEMMA ListForm == ASSUME NEW s, IsSeq(s)
                  PROVE  Len(s) \in Nat /\ DOMAIN s = 1 .. Len(s) /\ s = [i \in 1 .. Len(s) |-> s[i]]
<1>1. PICK S : s \in Seq(S)
  BY DEF IsSeq
<1> QED BY <1>1

\* Two lists that grow and hold the same numbers are one list.
LEMMA GrowsOnce == ASSUME NEW s, NEW t, NEW E, Grows(s, E), Grows(t, E) PROVE s = t
<1> DEFINE n == Len(s)
           m == Len(t)
<1>1. /\ n \in Nat /\ DOMAIN s = 1 .. n /\ s = [i \in 1 .. n |-> s[i]]
      /\ m \in Nat /\ DOMAIN t = 1 .. m /\ t = [i \in 1 .. m |-> t[i]]
  BY ListForm DEF Grows
<1> HIDE DEF n, m
<1>2. /\ \A i \in 1 .. n : s[i] \in E /\ s[i] \in Int
      /\ \A i, j \in 1 .. n : i < j => s[i] < s[j]
      /\ \A x \in E : \E i \in 1 .. n : s[i] = x
      /\ \A i \in 1 .. m : t[i] \in E /\ t[i] \in Int
      /\ \A i, j \in 1 .. m : i < j => t[i] < t[j]
      /\ \A x \in E : \E i \in 1 .. m : t[i] = x
  BY <1>1 DEF Grows
<1> DEFINE S == {k \in 0 .. n + m : /\ k \in 1 .. n => k \in 1 .. m /\ t[k] = s[k]
                                    /\ k \in 1 .. m => k \in 1 .. n /\ t[k] = s[k]}
<1>3. \A k \in 0 .. n + m : (\A j \in 0 .. n + m : j < k => j \in S) => k \in S
  <2> SUFFICES ASSUME NEW k \in 0 .. n + m, \A j \in 0 .. n + m : j < k => j \in S
               PROVE  k \in S
    OBVIOUS
  <2>1. \A j \in 1 .. n : j < k => j \in 1 .. m /\ t[j] = s[j]
    <3> SUFFICES ASSUME NEW j \in 1 .. n, j < k PROVE j \in 1 .. m /\ t[j] = s[j]
      OBVIOUS
    <3>1. j \in 0 .. n + m
      BY <1>1
    <3> QED BY <3>1
  <2>2. \A j \in 1 .. m : j < k => j \in 1 .. n /\ t[j] = s[j]
    <3> SUFFICES ASSUME NEW j \in 1 .. m, j < k PROVE j \in 1 .. n /\ t[j] = s[j]
      OBVIOUS
    <3>1. j \in 0 .. n + m
      BY <1>1
    <3> QED BY <3>1
  <2>3. ASSUME k \in 1 .. n PROVE k \in 1 .. m /\ t[k] = s[k]
    <3>1. PICK i \in 1 .. m : t[i] = s[k]
      BY <1>2, <2>3
    <3>2. ~(i < k)
      BY <1>2, <2>2, <2>3, <3>1
    <3>3. k \in 1 .. m
      BY <1>1, <2>3, <3>2
    <3>4. ~(k < i)
      <4> SUFFICES ASSUME k < i PROVE FALSE
        OBVIOUS
      <4>1. t[k] < s[k]
        BY <1>2, <3>1, <3>3
      <4>2. PICK l \in 1 .. n : s[l] = t[k]
        BY <1>2, <3>3
      <4>3. l < k
        <5>1. ~(k < l) /\ k # l
          BY <1>2, <2>3, <4>1, <4>2
        <5> QED BY <2>3, <5>1
      <4>4. t[l] = t[k] /\ l \in 1 .. m
        BY <2>1, <4>2, <4>3
      <4> QED BY <1>2, <3>3, <4>3, <4>4
    <3> QED BY <2>3, <3>1, <3>2, <3>3, <3>4
  <2>4. ASSUME k \in 1 .. m PROVE k \in 1 .. n /\ t[k] = s[k]
    <3>1. PICK i \in 1 .. n : s[i] = t[k]
      BY <1>2, <2>4
    <3>2. ~(i < k)
      BY <1>2, <2>1, <2>4, <3>1
    <3>3. k \in 1 .. n
      BY <1>1, <2>4, <3>2
    <3> QED BY <2>3, <3>3
  <2> QED BY <2>3, <2>4
<1>4. \A k \in 0 .. n + m : k \in S
  <2>1. n + m \in Nat
    BY <1>1
  <2> HIDE DEF S
  <2> QED BY <1>3, <2>1, Everywhere
<1>5. \A k \in 1 .. n : k \in 1 .. m /\ t[k] = s[k]
  <2> SUFFICES ASSUME NEW k \in 1 .. n PROVE k \in 1 .. m /\ t[k] = s[k]
    OBVIOUS
  <2>1. k \in 0 .. n + m
    BY <1>1
  <2> QED BY <1>4, <2>1
<1>6. \A k \in 1 .. m : k \in 1 .. n
  <2> SUFFICES ASSUME NEW k \in 1 .. m PROVE k \in 1 .. n
    OBVIOUS
  <2>1. k \in 0 .. n + m
    BY <1>1
  <2> QED BY <1>4, <2>1
<1>7. 1 .. n = 1 .. m
  BY <1>5, <1>6
<1> QED BY <1>1, <1>5, <1>7

\* Two such lists one after the other.
LEMMA GrowsConcat ==
  ASSUME NEW s, NEW t, NEW E, NEW F, Grows(s, E), Grows(t, F), \A x \in E, y \in F : x < y
  PROVE  Grows(s \o t, E \cup F)
<1>1. PICK S : s \in Seq(S)
  BY DEF Grows, IsSeq
<1>2. PICK T : t \in Seq(T)
  BY DEF Grows, IsSeq
<1> DEFINE n == Len(s)
           m == Len(t)
           u == s \o t
<1>3. /\ n \in Nat /\ DOMAIN s = 1 .. n /\ m \in Nat /\ DOMAIN t = 1 .. m
  BY <1>1, <1>2
<1>4. /\ u \in Seq(S \cup T) /\ Len(u) = n + m /\ DOMAIN u = 1 .. n + m
      /\ \A i \in 1 .. n : u[i] = s[i]
      /\ \A i \in 1 .. m : u[n + i] = t[i]
  <2>1. s \in Seq(S \cup T) /\ t \in Seq(S \cup T)
    BY <1>1, <1>2
  <2>2. u \in Seq(S \cup T) /\ Len(u) = n + m
    BY <2>1
  <2>3. \A i \in 1 .. n : u[i] = s[i]
    BY <2>1
  <2>4. \A i \in 1 .. m : u[n + i] = t[i]
    BY <2>1
  <2> QED BY <2>2, <2>3, <2>4
<1> HIDE DEF n, m, u
<1>5. /\ \A i \in 1 .. n : s[i] \in E /\ s[i] \in Int
      /\ \A i, j \in 1 .. n : i < j => s[i] < s[j]
      /\ \A x \in E : \E i \in 1 .. n : s[i] = x
      /\ \A i \in 1 .. m : t[i] \in F /\ t[i] \in Int
      /\ \A i, j \in 1 .. m : i < j => t[i] < t[j]
      /\ \A x \in F : \E i \in 1 .. m : t[i] = x
  BY <1>3 DEF Grows
<1>6. \A i \in 1 .. n + m : i \in 1 .. n \/ (i - n \in 1 .. m /\ i = n + (i - n))
  BY <1>3
<1>7. \A i \in 1 .. n + m : u[i] = IF i \in 1 .. n THEN s[i] ELSE t[i - n]
  BY <1>3, <1>4, <1>6
<1>8. \A i \in 1 .. n + m : u[i] \in E \cup F /\ u[i] \in Int
  BY <1>5, <1>6, <1>7
<1>9. ASSUME NEW i \in 1 .. n + m, NEW j \in 1 .. n + m, i < j PROVE u[i] < u[j]
  <2>1. CASE j \in 1 .. n
    <3>1. i \in 1 .. n
      BY <1>3, <1>9, <2>1
    <3> QED BY <1>5, <1>7, <1>9, <2>1, <3>1
  <2>2. CASE j \notin 1 .. n /\ i \in 1 .. n
    <3>1. j - n \in 1 .. m /\ u[j] = t[j - n] /\ u[i] = s[i]
      BY <1>6, <1>7, <2>2
    <3> QED BY <1>5, <2>2, <3>1
  <2>3. CASE j \notin 1 .. n /\ i \notin 1 .. n
    <3>1. j - n \in 1 .. m /\ u[j] = t[j - n] /\ i - n \in 1 .. m /\ u[i] = t[i - n]
      BY <1>6, <1>7, <2>3
    <3>2. i - n < j - n
      BY <1>3, <1>9
    <3> QED BY <1>5, <3>1, <3>2
  <2> QED BY <2>1, <2>2, <2>3
<1>10. ASSUME NEW x \in E \cup F PROVE \E i \in 1 .. n + m : u[i] = x
  <2>1. CASE x \in E
    <3>1. PICK i \in 1 .. n : s[i] = x
      BY <1>5, <2>1
    <3>2. i \in 1 .. n + m /\ u[i] = x
      BY <1>3, <1>4, <3>1
    <3> QED BY <3>2
  <2>2. CASE x \in F
    <3>1. PICK i \in 1 .. m : t[i] = x
      BY <1>5, <2>2
    <3>2. n + i \in 1 .. n + m /\ u[n + i] = x
      BY <1>3, <1>4, <3>1
    <3> QED BY <3>2
  <2> QED BY <2>1, <2>2
<1>11. IsSeq(u)
  BY <1>4 DEF IsSeq
<1>12. Grows(u, E \cup F)
  BY <1>4, <1>8, <1>9, <1>10, <1>11 DEF Grows
<1> QED BY <1>12 DEF u

\* What is taken of such a list.
LEMMA GrowsTaken ==
  ASSUME NEW s, NEW E, Grows(s, E), NEW I, I \subseteq DOMAIN s
  PROVE  Grows(ElementsAt(s, I), {s[i] : i \in I})
<1> DEFINE n == Len(s)
           e == ElementsAt(s, I)
           c == Cardinality(I)
<1>1. n \in Nat /\ DOMAIN s = 1 .. n
  BY ListForm DEF Grows
<1>2. /\ \A i \in 1 .. n : s[i] \in Int
      /\ \A i, j \in 1 .. n : i < j => s[i] < s[j]
  BY <1>1 DEF Grows
<1>3. I \in SUBSET (1 .. n)
  BY <1>1
<1> HIDE DEF n
<1>4. /\ IsSeq(e) /\ Len(e) = c /\ c \in Nat
      /\ \A i \in I : Rank(I, i) \in 1 .. c /\ e[Rank(I, i)] = s[i]
      /\ \A k \in 1 .. c : \E i \in I : Rank(I, i) = k
  BY <1>1, <1>3, ElementsForm
<1>5. DOMAIN e = 1 .. c
  BY <1>4, ListForm
<1>6. ASSUME NEW i \in I, NEW j \in I, Rank(I, i) < Rank(I, j) PROVE i < j
  <2> SUFFICES ASSUME ~(i < j) PROVE FALSE
    OBVIOUS
  <2>1. j <= i
    BY <1>3
  <2>2. Below(I, j) \subseteq Below(I, i)
    <3>1. \A x \in I : x <= j => x <= i
      BY <1>3, <2>1
    <3> QED BY <3>1 DEF Below
  <2>3. IsFiniteSet(Below(I, i)) /\ Cardinality(Below(I, i)) \in Nat /\ Cardinality(Below(I, j)) \in Nat
    BY <1>1, <1>3, PlacesFinite
  <2>4. Cardinality(Below(I, j)) <= Cardinality(Below(I, i))
    BY <2>2, <2>3, FS_Subset
  <2>5. Rank(I, i) = Cardinality(Below(I, i)) /\ Rank(I, j) = Cardinality(Below(I, j))
    BY DEF Rank, Below
  <2> QED BY <1>6, <2>3, <2>4, <2>5
<1> HIDE DEF e, c
<1>7. ASSUME NEW k \in 1 .. c PROVE e[k] \in {s[i] : i \in I} /\ e[k] \in Int
  <2>1. PICK i \in I : Rank(I, i) = k
    BY <1>4
  <2>2. e[k] = s[i]
    BY <1>4, <2>1
  <2> QED BY <1>2, <1>3, <2>2
<1>8. ASSUME NEW k \in 1 .. c, NEW l \in 1 .. c, k < l PROVE e[k] < e[l]
  <2>1. PICK i \in I : Rank(I, i) = k
    BY <1>4
  <2>2. PICK j \in I : Rank(I, j) = l
    BY <1>4
  <2>3. e[k] = s[i] /\ e[l] = s[j]
    BY <1>4, <2>1, <2>2
  <2>4. i < j
    BY <1>6, <1>8, <2>1, <2>2
  <2> QED BY <1>2, <1>3, <2>3, <2>4
<1>9. ASSUME NEW x \in {s[i] : i \in I} PROVE \E k \in 1 .. c : e[k] = x
  <2>1. PICK i \in I : s[i] = x
    BY <1>9
  <2> QED BY <1>4, <2>1
<1>10. Grows(e, {s[i] : i \in I})
  BY <1>4, <1>5, <1>7, <1>8, <1>9 DEF Grows
<1> QED BY <1>10 DEF e

\* The numbers of an interval.
LEMMA IntervalGrows ==
  ASSUME NEW a \in Int, NEW b \in Int
  PROVE  /\ Grows(Interval(a, b), a .. b)
         /\ \A i \in DOMAIN Interval(a, b) : Interval(a, b)[i] = a + i - 1
<1> DEFINE n == IF b < a THEN 0 ELSE b - a + 1
           s == Interval(a, b)
<1>1. n \in Nat /\ \A i \in 1 .. n : a + i - 1 \in a .. b
  OBVIOUS
<1>2. s = [i \in 1 .. n |-> a + i - 1]
  BY DEF Interval
<1>3. \A x \in a .. b : x - a + 1 \in 1 .. n /\ a + (x - a + 1) - 1 = x
  OBVIOUS
<1> HIDE DEF n, s
<1>4. DOMAIN s = 1 .. n /\ \A i \in 1 .. n : s[i] = a + i - 1
  BY <1>2
<1>5. s = [i \in 1 .. n |-> s[i]]
  BY <1>2
<1>6. IsSeq(s)
  BY <1>1, <1>5, SeqMade
<1>7. \A i \in 1 .. n : s[i] \in a .. b /\ s[i] \in Int
  <2>1. \A x \in a .. b : x \in Int
    OBVIOUS
  <2> QED BY <1>1, <1>4, <2>1
<1>8. \A i, j \in 1 .. n : i < j => s[i] < s[j]
  BY <1>4
<1>9. \A x \in a .. b : \E i \in 1 .. n : s[i] = x
  BY <1>3, <1>4
<1> QED BY <1>4, <1>6, <1>7, <1>8, <1>9 DEF Grows, s

\* The concatenation of pages is made page by page.
Joins(A, n, f) == /\ n >= 1 => f[1] = A[1]
                  /\ \A i \in 2 .. n : f[i] = f[i - 1] \o A[i]

\* Such a list of concatenations exists.
LEMMA JoinsExists == ASSUME NEW n \in Nat, NEW A PROVE \E f : f = [i \in 1 .. n |-> f[i]] /\ Joins(A, n, f)
<1> DEFINE S == {m \in 0 .. n : \E f : f = [i \in 1 .. m |-> f[i]] /\ Joins(A, m, f)}
<1>1. \A k \in 0 .. n : (\A j \in 0 .. n : j < k => j \in S) => k \in S
  <2> SUFFICES ASSUME NEW k \in 0 .. n, \A j \in 0 .. n : j < k => j \in S
               PROVE  k \in S
    OBVIOUS
  <2>1. CASE k = 0
    <3> DEFINE f == [i \in 1 .. 0 |-> A[i]]
    <3>1. f = [i \in 1 .. k |-> f[i]] /\ Joins(A, k, f)
      BY <2>1 DEF Joins
    <3> HIDE DEF f
    <3> QED BY <3>1
  <2>2. CASE k # 0
    <3>1. k - 1 \in 0 .. n /\ k - 1 < k /\ k \in Nat /\ k >= 1
      BY <2>2
    <3>2. PICK f : f = [i \in 1 .. k - 1 |-> f[i]] /\ Joins(A, k - 1, f)
      <4>1. k - 1 \in S
        BY <3>1
      <4> QED BY <4>1
    <3> DEFINE g == [i \in 1 .. k |-> IF i < k THEN f[i] ELSE IF k = 1 THEN A[1] ELSE f[k - 1] \o A[k]]
    <3>3. g = [i \in 1 .. k |-> g[i]]
      OBVIOUS
    <3>4. \A i \in 1 .. k : g[i] = IF i < k THEN f[i] ELSE IF k = 1 THEN A[1] ELSE f[k - 1] \o A[k]
      OBVIOUS
    <3> HIDE DEF g
    <3>5. g[1] = A[1]
      <4>1. 1 \in 1 .. k /\ (1 < k => k - 1 >= 1)
        BY <3>1
      <4>2. 1 < k => f[1] = A[1]
        BY <3>2, <4>1 DEF Joins
      <4>3. ~(1 < k) => k = 1
        BY <3>1
      <4> QED BY <3>4, <4>1, <4>2, <4>3
    <3>6. ASSUME NEW i \in 2 .. k PROVE g[i] = g[i - 1] \o A[i]
      <4>1. i \in 1 .. k /\ i - 1 \in 1 .. k /\ i - 1 < k
        BY <3>1
      <4>2. CASE i < k
        <5>1. i \in 2 .. k - 1
          BY <3>1, <4>2
        <5>2. f[i] = f[i - 1] \o A[i]
          BY <3>2, <5>1 DEF Joins
        <5> QED BY <3>4, <4>1, <4>2, <5>2
      <4>3. CASE i = k
        <5>1. k # 1 /\ ~(i < k)
          BY <4>3
        <5> QED BY <3>4, <4>1, <4>3, <5>1
      <4>4. i < k \/ i = k
        BY <3>1
      <4> QED BY <4>2, <4>3, <4>4
    <3>7. Joins(A, k, g)
      BY <3>5, <3>6 DEF Joins
    <3> QED BY <3>3, <3>7
  <2> QED BY <2>1, <2>2
<1>2. \A k \in 0 .. n : k \in S
  <2> HIDE DEF S
  <2> QED BY <1>1, Everywhere
<1>3. n \in 0 .. n
  OBVIOUS
<1> QED BY <1>2, <1>3

\* What FlattenSeq returns is the last of the concatenations.
LEMMA FlattenForm ==
  ASSUME NEW n \in Nat, n >= 1, NEW A, A = [k \in 1 .. n |-> A[k]]
  PROVE  \E f : FlattenSeq(A) = f[n] /\ Joins(A, n, f)
<1>1. Len(A) = n
  BY SeqMade
<1> DEFINE Solves(f) == f = [i \in 1 .. n |-> IF i = 1 THEN A[i] ELSE f[i - 1] \o A[i]]
           f == CHOOSE g : Solves(g)
<1>2. FlattenSeq(A) = f[n]
  BY <1>1 DEF FlattenSeq
<1>3. \E g : Solves(g)
  <2>1. PICK g : g = [i \in 1 .. n |-> g[i]] /\ Joins(A, n, g)
    BY JoinsExists
  <2>2. \A i \in 1 .. n : g[i] = IF i = 1 THEN A[i] ELSE g[i - 1] \o A[i]
    <3> SUFFICES ASSUME NEW i \in 1 .. n PROVE g[i] = IF i = 1 THEN A[i] ELSE g[i - 1] \o A[i]
      OBVIOUS
    <3>1. i # 1 => i \in 2 .. n
      OBVIOUS
    <3> QED BY <2>1, <3>1 DEF Joins
  <2>3. Solves(g)
    BY <2>1, <2>2
  <2> QED BY <2>3
<1>4. Solves(f)
  <2> HIDE DEF Solves
  <2> QED BY <1>3
<1> HIDE DEF f
<1>5. \A i \in 1 .. n : f[i] = IF i = 1 THEN A[i] ELSE f[i - 1] \o A[i]
  <2> DEFINE h == [i \in 1 .. n |-> IF i = 1 THEN A[i] ELSE f[i - 1] \o A[i]]
  <2>1. \A i \in 1 .. n : h[i] = IF i = 1 THEN A[i] ELSE f[i - 1] \o A[i]
    OBVIOUS
  <2>2. f = h
    BY <1>4
  <2> HIDE DEF h
  <2> QED BY <2>1, <2>2
<1>6. f[1] = A[1]
  BY <1>5
<1>7. \A i \in 2 .. n : f[i] = f[i - 1] \o A[i]
  <2> SUFFICES ASSUME NEW i \in 2 .. n PROVE f[i] = f[i - 1] \o A[i]
    OBVIOUS
  <2>1. i \in 1 .. n /\ i # 1
    OBVIOUS
  <2> QED BY <1>5, <2>1
<1> QED BY <1>2, <1>6, <1>7 DEF Joins

\* Pages that go on where the one before ended make a list that grows, of what they show.
LEMMA PagesGrow ==
  ASSUME NEW n \in Nat, NEW A, A = [k \in 1 .. n |-> A[k]], NEW E, NEW F, E[0] = {},
         \A k \in 1 .. n : /\ Grows(A[k], F[k])
                           /\ E[k] = E[k - 1] \cup F[k]
                           /\ \A x \in E[k - 1], y \in F[k] : x < y
  PROVE  Grows(FlattenSeq(A), E[n])
<1>1. CASE n = 0
  <2>1. A = <<>> /\ Len(A) = 0
    BY <1>1
  <2>2. FlattenSeq(A) = <<>>
    BY <2>1 DEF FlattenSeq
  <2>3. Grows(<<>>, {})
    <3>1. <<>> \in Seq({}) /\ DOMAIN <<>> = {}
      OBVIOUS
    <3> QED BY <3>1 DEF Grows, IsSeq
  <2> QED BY <1>1, <2>2, <2>3
<1>2. CASE n >= 1
  <2>1. PICK f : FlattenSeq(A) = f[n] /\ Joins(A, n, f)
    BY <1>2, FlattenForm
  <2> DEFINE S == {k \in 0 .. n : k # 0 => Grows(f[k], E[k])}
  <2>2. \A k \in 0 .. n : (\A j \in 0 .. n : j < k => j \in S) => k \in S
    <3> SUFFICES ASSUME NEW k \in 0 .. n, \A j \in 0 .. n : j < k => j \in S
                 PROVE  k \in S
      OBVIOUS
    <3>1. CASE k = 0
      BY <3>1
    <3>2. CASE k = 1
      <4>1. f[1] = A[1] /\ k \in 1 .. n /\ k - 1 = 0
        BY <1>2, <2>1, <3>2 DEF Joins
      <4>2. Grows(A[1], F[1]) /\ E[1] = {} \cup F[1]
        BY <3>2, <4>1
      <4>3. E[1] = F[1]
        BY <4>2
      <4> QED BY <3>2, <4>1, <4>2, <4>3
    <3>3. CASE k \in 2 .. n
      <4>1. k \in 1 .. n /\ k - 1 \in 0 .. n /\ k - 1 < k /\ k - 1 # 0
        BY <3>3
      <4>2. f[k] = f[k - 1] \o A[k]
        BY <2>1, <3>3 DEF Joins
      <4>3. Grows(f[k - 1], E[k - 1])
        BY <4>1
      <4>4. Grows(A[k], F[k]) /\ E[k] = E[k - 1] \cup F[k] /\ \A x \in E[k - 1], y \in F[k] : x < y
        BY <4>1
      <4>5. Grows(f[k - 1] \o A[k], E[k - 1] \cup F[k])
        BY <4>3, <4>4, GrowsConcat
      <4> QED BY <4>2, <4>4, <4>5
    <3> QED BY <3>1, <3>2, <3>3
  <2>3. \A k \in 0 .. n : k \in S
    <3> HIDE DEF S
    <3> QED BY <2>2, Everywhere
  <2>4. n \in 0 .. n /\ n # 0
    BY <1>2
  <2> QED BY <2>1, <2>3, <2>4
<1> QED BY <1>1, <1>2

\* How many pages of w there are of n lines.
LEMMA PageCount ==
  ASSUME NEW n \in Nat, NEW w \in Nat, w >= 1
  PROVE  LET p == (n + w - 1) \div w
         IN  /\ p \in Nat /\ p * w >= n /\ p * w < n + w
             /\ n > 0 => p >= 1
<1> DEFINE a == n + w - 1
           p == a \div w
<1>1. a \in Nat /\ p \in Int
  OBVIOUS
<1>2. w * p <= a /\ a < w * (p + 1)
  OBVIOUS
<1>3. w * (p + 1) = w * p + w /\ w * p \in Int
  BY <1>1
<1>4. p * w = w * p
  BY <1>1
<1>5. p * w >= n /\ p * w < n + w
  BY <1>1, <1>2, <1>3, <1>4
<1>6. p >= 0
  <2> SUFFICES ASSUME p <= -1 PROVE FALSE
    BY <1>1
  <2>1. w * p <= w * (-1)
    BY <1>1
  <2> QED BY <1>5, <1>4, <2>1
<1>7. n > 0 => p # 0
  <2> SUFFICES ASSUME n > 0, p = 0 PROVE FALSE
    OBVIOUS
  <2>1. p * w = 0
    BY <1>4
  <2> QED BY <1>5, <2>1
<1> HIDE DEF p, a
<1>8. p \in Nat /\ (n > 0 => p >= 1)
  BY <1>1, <1>6, <1>7
<1> QED BY <1>5, <1>8 DEF p, a

\* What is read of a query.
LEMMA ParsedFrom ==
  ASSUME NEW q, NEW d, NEW x, NEW w, w # 0, q = [detail |-> d, from |-> x, limit |-> w]
  PROVE  LET p == parseTranscriptQuery(q)
         IN  p.ok /\ p.detail = d /\ p.selection = [kind |-> "from", id |-> x, n |-> w]
<1>1. DOMAIN q = {"detail", "from", "limit"} /\ q.detail = d /\ q.from = x /\ q.limit = w
  OBVIOUS
<1>2. DOMAIN q \cap {"last", "entry", "from", "to"} = {"from"} /\ "grep" \notin DOMAIN q
  BY <1>1
<1>3. parseGrepFilter(q).ok
  BY <1>1 DEF parseGrepFilter
<1>4. Cardinality({"from"}) = 1
  BY FS_Singleton
<1> DEFINE sel == [kind |-> "from", id |-> x, n |-> w]
           r == [ok |-> TRUE, selection |-> sel, detail |-> d, filter |-> parseGrepFilter(q)]
<1>5. {"from"} # {"last"} /\ {"from"} # {"entry"}
  OBVIOUS
<1>6. parseTranscriptQuery(q) = r
  BY <1>1, <1>2, <1>3, <1>4, <1>5 DEF parseTranscriptQuery
<1> QED BY <1>6

\* Pages back.
LEMMA ParsedTo ==
  ASSUME NEW q, NEW d, NEW x, NEW w, w # 0, q = [detail |-> d, to |-> x, limit |-> w]
  PROVE  LET p == parseTranscriptQuery(q)
         IN  p.ok /\ p.detail = d /\ p.selection = [kind |-> "to", id |-> x, n |-> w]
<1>1. DOMAIN q = {"detail", "to", "limit"} /\ q.detail = d /\ q.to = x /\ q.limit = w
  OBVIOUS
<1>2. DOMAIN q \cap {"last", "entry", "from", "to"} = {"to"} /\ "grep" \notin DOMAIN q
  BY <1>1
<1>3. parseGrepFilter(q).ok
  BY <1>1 DEF parseGrepFilter
<1>4. Cardinality({"to"}) = 1
  BY FS_Singleton
<1> DEFINE sel == [kind |-> "to", id |-> x, n |-> w]
           r == [ok |-> TRUE, selection |-> sel, detail |-> d, filter |-> parseGrepFilter(q)]
<1>5. {"to"} # {"last"} /\ {"to"} # {"entry"} /\ {"to"} # {"from"}
  OBVIOUS
<1>6. parseTranscriptQuery(q) = r
  BY <1>1, <1>2, <1>3, <1>4, <1>5 DEF parseTranscriptQuery
<1> QED BY <1>6

\* The last entries.
LEMMA ParsedLast ==
  ASSUME NEW q, NEW d, NEW w, w # 0, q = [detail |-> d, last |-> w]
  PROVE  LET p == parseTranscriptQuery(q)
         IN  p.ok /\ p.detail = d /\ p.selection = [kind |-> "last", n |-> w]
<1>1. DOMAIN q = {"detail", "last"} /\ q.detail = d /\ q.last = w
  OBVIOUS
<1>2. DOMAIN q \cap {"last", "entry", "from", "to"} = {"last"} /\ "grep" \notin DOMAIN q
  BY <1>1
<1>3. parseGrepFilter(q).ok
  BY <1>1 DEF parseGrepFilter
<1>4. Cardinality({"last"}) = 1
  BY FS_Singleton
<1> DEFINE sel == [kind |-> "last", n |-> w]
           r == [ok |-> TRUE, selection |-> sel, detail |-> d, filter |-> parseGrepFilter(q)]
<1>6. parseTranscriptQuery(q) = r
  BY <1>1, <1>2, <1>3, <1>4 DEF parseTranscriptQuery
<1> QED BY <1>6

\* A page back of a search.
LEMMA ParsedSearchTo ==
  ASSUME NEW q, NEW d, NEW m, NEW x, NEW w, w # 0,
         q = [detail |-> d, grep |-> m, to |-> x, limit |-> w]
  PROVE  LET p == parseTranscriptQuery(q)
         IN  /\ p.ok /\ p.detail = d /\ p.selection = [kind |-> "to", id |-> x, n |-> w]
             /\ p.filter.match = m /\ p.filter.context = 0
<1>1. /\ DOMAIN q = {"detail", "grep", "to", "limit"}
      /\ q.detail = d /\ q.to = x /\ q.limit = w /\ q.grep = m
  OBVIOUS
<1>2. DOMAIN q \cap {"last", "entry", "from", "to"} = {"to"} /\ "grep" \in DOMAIN q
  BY <1>1
<1> DEFINE g == [ok |-> TRUE, match |-> m, context |-> 0]
<1>3. parseGrepFilter(q) = g
  BY <1>1 DEF parseGrepFilter
<1>4. Cardinality({"to"}) = 1
  BY FS_Singleton
<1> DEFINE sel == [kind |-> "to", id |-> x, n |-> w]
           r == [ok |-> TRUE, selection |-> sel, detail |-> d, filter |-> parseGrepFilter(q)]
<1>7. parseGrepFilter(q).ok
  BY <1>3
<1> HIDE DEF g
<1>5. {"to"} # {"last"} /\ {"to"} # {"entry"} /\ {"to"} # {"from"}
  OBVIOUS
<1>6. parseTranscriptQuery(q) = r
  BY <1>1, <1>2, <1>4, <1>5, <1>7 DEF parseTranscriptQuery
<1>8. g.match = m /\ g.context = 0
  BY DEF g
<1> QED BY <1>3, <1>6, <1>8

\* A search of the whole file.
LEMMA ParsedSearch ==
  ASSUME NEW q, NEW d, NEW m, q = [detail |-> d, grep |-> m]
  PROVE  LET p == parseTranscriptQuery(q)
         IN  /\ p.ok /\ p.detail = d /\ p.selection = [kind |-> "all"]
             /\ p.filter.match = m /\ p.filter.context = 0
<1>1. DOMAIN q = {"detail", "grep"} /\ q.detail = d /\ q.grep = m
  OBVIOUS
<1>2. DOMAIN q \cap {"last", "entry", "from", "to"} = {} /\ "grep" \in DOMAIN q
  BY <1>1
<1> DEFINE g == [ok |-> TRUE, match |-> m, context |-> 0]
<1>3. parseGrepFilter(q) = g
  BY <1>1 DEF parseGrepFilter
<1>4. Cardinality({}) = 0
  BY FS_EmptySet
<1> DEFINE sel == [kind |-> "all"]
           r == [ok |-> TRUE, selection |-> sel, detail |-> d, filter |-> parseGrepFilter(q)]
<1>5. {} # {"last"} /\ {} # {"entry"} /\ {} # {"from"} /\ {} # {"to"}
  OBVIOUS
<1>6. parseTranscriptQuery(q) = r
  BY <1>1, <1>2, <1>3, <1>4, <1>5 DEF parseTranscriptQuery
<1> QED BY <1>3, <1>6

\* The entries of a window.
LEMMA Selected ==
  ASSUME NEW n \in Nat, NEW w \in Nat, w >= 1
  PROVE  /\ applySelection(n, [kind |-> "all"]) = Interval(0, n - 1)
         /\ applySelection(n, [kind |-> "last", n |-> w]) = Interval(IF n < w THEN 0 ELSE n - w, n - 1)
         /\ \A x \in 0 .. n - 1 :
              /\ applySelection(n, [kind |-> "from", id |-> x, n |-> w])
                   = Interval(x, IF x + w > n THEN n - 1 ELSE x + w - 1)
              /\ applySelection(n, [kind |-> "to", id |-> x, n |-> w])
                   = Interval(IF x + 1 < w THEN 0 ELSE x - w + 1, x)
<1>1. applySelection(n, [kind |-> "all"]) = Interval(0, n - 1)
  <2> DEFINE s == [kind |-> "all"]
  <2>1. s.kind = "all"
    OBVIOUS
  <2> HIDE DEF s
  <2>2. applySelection(n, s) = Interval(0, n - 1)
    BY <2>1 DEF applySelection
  <2> QED BY <2>2 DEF s
<1>2. applySelection(n, [kind |-> "last", n |-> w]) = Interval(IF n < w THEN 0 ELSE n - w, n - 1)
  <2> DEFINE s == [kind |-> "last", n |-> w]
  <2>1. s.kind = "last" /\ s.n = w
    OBVIOUS
  <2> HIDE DEF s
  <2>2. applySelection(n, s) = Interval(IF n < s.n THEN 0 ELSE n - s.n, n - 1)
    BY <2>1 DEF applySelection
  <2>3. applySelection(n, s) = Interval(IF n < w THEN 0 ELSE n - w, n - 1)
    BY <2>1, <2>2
  <2> QED BY <2>3 DEF s
<1>3. ASSUME NEW x \in 0 .. n - 1
      PROVE  applySelection(n, [kind |-> "from", id |-> x, n |-> w])
               = Interval(x, IF x + w > n THEN n - 1 ELSE x + w - 1)
  <2> DEFINE s == [kind |-> "from", id |-> x, n |-> w]
  <2>1. s.kind = "from" /\ s.id = x /\ s.n = w
    OBVIOUS
  <2> HIDE DEF s
  <2>2. parseIndex(s.id, n)
    BY <2>1 DEF parseIndex
  <2>3. applySelection(n, s) = Interval(s.id, IF s.id + s.n > n THEN n - 1 ELSE s.id + s.n - 1)
    BY <2>1, <2>2 DEF applySelection
  <2>4. applySelection(n, s) = Interval(x, IF x + w > n THEN n - 1 ELSE x + w - 1)
    BY <2>1, <2>3
  <2> QED BY <2>4 DEF s
<1>4. ASSUME NEW x \in 0 .. n - 1
      PROVE  applySelection(n, [kind |-> "to", id |-> x, n |-> w])
               = Interval(IF x + 1 < w THEN 0 ELSE x - w + 1, x)
  <2> DEFINE s == [kind |-> "to", id |-> x, n |-> w]
  <2>1. s.kind = "to" /\ s.id = x /\ s.n = w
    OBVIOUS
  <2> HIDE DEF s
  <2>2. parseIndex(s.id, n)
    BY <2>1 DEF parseIndex
  <2>3. applySelection(n, s) = Interval(IF s.id + 1 < s.n THEN 0 ELSE s.id - s.n + 1, s.id)
    BY <2>1, <2>2 DEF applySelection
  <2>4. applySelection(n, s) = Interval(IF x + 1 < w THEN 0 ELSE x - w + 1, x)
    BY <2>1, <2>3
  <2> QED BY <2>4 DEF s
<1> QED BY <1>1, <1>2, <1>3, <1>4

\* The entries from a to b that a detail has, and of them those that match.
Shows(lines, d, a, b) == {e \in a .. b : formatEntry(lines[e + 1], d)}
Hits(lines, d, m, a, b) == {e \in Shows(lines, d, a, b) : lines[e + 1].kind \in m}

\* A sequence of shown entries.
LEMMA Formatted ==
  ASSUME NEW lines, NEW q, NEW d, NEW a \in Int, NEW b \in Int,
         parseTranscriptQuery(q).ok, parseTranscriptQuery(q).detail = d,
         applySelection(Len(lines), parseTranscriptQuery(q).selection) = Interval(a, b)
  PROVE  /\ "grep" \notin DOMAIN q => Grows(formatTranscript(lines, q), Shows(lines, d, a, b))
         /\ \A m : "grep" \in DOMAIN q /\ parseTranscriptQuery(q).filter.match = m
                   /\ parseTranscriptQuery(q).filter.context = 0
                   => Grows(formatTranscript(lines, q), Hits(lines, d, m, a, b))
<1>1. PICK p : p = parseTranscriptQuery(q)
  OBVIOUS
<1> DEFINE window == Interval(a, b)
           I == {i \in DOMAIN window : formatEntry(lines[window[i] + 1], d)}
           entries == ElementsAt(window, I)
<1>2. formatTranscript(lines, q) =
        IF "grep" \in DOMAIN q THEN applyGrep(lines, entries, p.filter) ELSE entries
  BY <1>1 DEF formatTranscript
<1>3. /\ Grows(window, a .. b)
      /\ DOMAIN window = DOMAIN window
  BY IntervalGrows
<1> HIDE DEF window
<1>4. Grows(entries, {window[i] : i \in I})
  <2>1. I \subseteq DOMAIN window
    OBVIOUS
  <2> HIDE DEF I
  <2> QED BY <1>3, <2>1, GrowsTaken
<1>5. {window[i] : i \in I} = Shows(lines, d, a, b)
  <2>1. \A i \in DOMAIN window : window[i] \in a .. b
    BY <1>3 DEF Grows
  <2>2. \A x \in a .. b : \E i \in DOMAIN window : window[i] = x
    BY <1>3 DEF Grows
  <2> QED BY <2>1, <2>2 DEF Shows
<1>6. Grows(entries, Shows(lines, d, a, b))
  BY <1>4, <1>5
<1> HIDE DEF entries
<1>7. ASSUME NEW m, "grep" \in DOMAIN q, p.filter.match = m, p.filter.context = 0
      PROVE  Grows(formatTranscript(lines, q), Hits(lines, d, m, a, b))
  <2> DEFINE J == {j \in DOMAIN entries : lines[entries[j] + 1].kind \in m}
  <2>1. applyGrep(lines, entries, p.filter)
          = ElementsAt(entries, {i \in DOMAIN entries : \E j \in J : i - j \in -0 .. 0})
    BY <1>7 DEF applyGrep
  <2>2. {i \in DOMAIN entries : \E j \in J : i - j \in -0 .. 0} = J
    <3>1. \A i \in DOMAIN entries : i \in Int
      BY <1>6, ListForm DEF Grows
    <3>2. \A i, j \in Int : i - j \in -0 .. 0 <=> i = j
      OBVIOUS
    <3>3. \A j \in J : j \in DOMAIN entries
      OBVIOUS
    <3> HIDE DEF J
    <3> QED BY <3>1, <3>2, <3>3
  <2>3. J \subseteq DOMAIN entries
    OBVIOUS
  <2>4. {entries[j] : j \in J} = Hits(lines, d, m, a, b)
    <3>1. \A i \in DOMAIN entries : entries[i] \in Shows(lines, d, a, b)
      BY <1>6 DEF Grows
    <3>2. \A x \in Shows(lines, d, a, b) : \E i \in DOMAIN entries : entries[i] = x
      BY <1>6 DEF Grows
    <3> QED BY <3>1, <3>2 DEF Hits
  <2> HIDE DEF J
  <2>5. Grows(ElementsAt(entries, J), Hits(lines, d, m, a, b))
    BY <1>6, <2>3, <2>4, GrowsTaken
  <2> QED BY <1>2, <1>7, <2>1, <2>2, <2>5
<1> QED BY <1>1, <1>2, <1>6, <1>7

\* Pages forward, pages back, and pages of a search.
LEMMA WindowsOf ==
  ASSUME NEW lines, NEW d, NEW m, NEW w \in Nat, w >= 1, Len(lines) \in Nat
  PROVE  LET n == Len(lines)
             pages == (n + w - 1) \div w
             last(k) == n - 1 - (pages - k) * w
         IN  /\ Grows(FlattenSeq([k \in 1 .. pages |->
                        formatTranscript(lines, [detail |-> d, from |-> (k - 1) * w, limit |-> w])]),
                      Shows(lines, d, 0, n - 1))
             /\ Grows(FlattenSeq([k \in 1 .. pages |->
                        formatTranscript(lines, [detail |-> d, to |-> last(k), limit |-> w])]),
                      Shows(lines, d, 0, n - 1))
             /\ Grows(FlattenSeq([k \in 1 .. pages |->
                        formatTranscript(lines, [detail |-> d, grep |-> m, to |-> last(k), limit |-> w])]),
                      Hits(lines, d, m, 0, n - 1))
             /\ n > 0 => formatTranscript(lines, [detail |-> d, last |-> w])
                           = formatTranscript(lines, [detail |-> d, to |-> last(pages), limit |-> w])
<1> DEFINE n == Len(lines)
           pages == (n + w - 1) \div w
           last(k) == n - 1 - (pages - k) * w
           forward == [k \in 1 .. pages |->
                        formatTranscript(lines, [detail |-> d, from |-> (k - 1) * w, limit |-> w])]
           back == [k \in 1 .. pages |->
                      formatTranscript(lines, [detail |-> d, to |-> last(k), limit |-> w])]
           searched == [k \in 1 .. pages |->
                          formatTranscript(lines, [detail |-> d, grep |-> m, to |-> last(k), limit |-> w])]
<1>1. n \in Nat /\ n = Len(lines)
  OBVIOUS
<1>2. pages \in Nat /\ pages * w >= n /\ pages * w < n + w /\ (n > 0 => pages >= 1)
  <2> HIDE DEF n
  <2> QED BY <1>1, PageCount
<1>3. \A k \in 1 .. pages :
        /\ forward[k] = formatTranscript(lines, [detail |-> d, from |-> (k - 1) * w, limit |-> w])
        /\ back[k] = formatTranscript(lines, [detail |-> d, to |-> last(k), limit |-> w])
        /\ searched[k] = formatTranscript(lines, [detail |-> d, grep |-> m, to |-> last(k), limit |-> w])
  OBVIOUS
<1>4. /\ forward = [k \in 1 .. pages |-> forward[k]] /\ back = [k \in 1 .. pages |-> back[k]]
      /\ searched = [k \in 1 .. pages |-> searched[k]]
  OBVIOUS
<1> HIDE DEF n, pages, forward, back, searched
<1>5. ASSUME NEW k \in 0 .. pages
      PROVE  /\ k * w \in Nat /\ (pages - k) * w \in Nat /\ (pages - k) * w = pages * w - k * w
             /\ k >= 1 => /\ (k - 1) * w \in Nat /\ (k - 1) * w = k * w - w /\ (k - 1) * w < n
                          /\ (pages - (k - 1)) * w = (pages - k) * w + w
                          /\ (pages - k) * w < n
  <2>1. k \in Nat /\ pages - k \in Nat
    BY <1>2
  <2>2. k * w \in Nat /\ (pages - k) * w \in Nat
    BY <2>1
  <2>3. (pages - k) * w = pages * w - k * w
    BY <1>2, <2>1
  <2>4. ASSUME k >= 1
        PROVE  /\ (k - 1) * w \in Nat /\ (k - 1) * w = k * w - w /\ (k - 1) * w < n
               /\ (pages - (k - 1)) * w = (pages - k) * w + w
               /\ (pages - k) * w < n
    <3>1. k - 1 \in Nat
      BY <2>1, <2>4
    <3>2. (k - 1) * w \in Nat
      BY <3>1
    <3>3. (k - 1) * w = k * w - w
      BY <2>1
    <3>4. (pages - (k - 1)) * w = (pages - k) * w + w
      BY <1>2, <2>1
    <3>5. k * w >= w
      BY <3>2, <3>3, <2>2
    <3>6. pages * w \in Nat
      BY <1>2
    <3>7. k * w <= pages * w
      BY <2>2, <2>3, <3>6
    <3> QED BY <1>1, <1>2, <2>2, <2>3, <3>2, <3>3, <3>4, <3>5, <3>6, <3>7
  <2> QED BY <2>2, <2>3, <2>4
<1>6. \A k \in 1 .. pages : last(k) \in 0 .. n - 1 /\ last(k - 1) = last(k) - w /\ last(k) \in Int
  <2> SUFFICES ASSUME NEW k \in 1 .. pages
               PROVE  last(k) \in 0 .. n - 1 /\ last(k - 1) = last(k) - w /\ last(k) \in Int
    OBVIOUS
  <2>1. k \in 0 .. pages /\ k >= 1
    BY <1>2
  <2>2. (pages - k) * w \in Nat /\ (pages - (k - 1)) * w = (pages - k) * w + w /\ (pages - k) * w < n
    BY <1>5, <2>1
  <2> QED BY <1>1, <2>2
<1>7. last(pages) = n - 1 /\ last(0) < 0 /\ last(0) \in Int
  <2>1. (pages - pages) * w = 0 /\ (pages - 0) * w = pages * w /\ pages * w \in Nat
    BY <1>2
  <2> QED BY <1>1, <1>2, <2>1
<1> HIDE DEF last
<1>8. Grows(FlattenSeq(forward), Shows(lines, d, 0, n - 1))
  <2> DEFINE end(k) == IF k * w > n THEN n - 1 ELSE k * w - 1
             E == [k \in 0 .. pages |-> Shows(lines, d, 0, end(k))]
             F == [k \in 1 .. pages |-> Shows(lines, d, (k - 1) * w, end(k))]
  <2>1. /\ \A k \in 0 .. pages : E[k] = Shows(lines, d, 0, end(k))
        /\ \A k \in 1 .. pages : F[k] = Shows(lines, d, (k - 1) * w, end(k))
    OBVIOUS
  <2> HIDE DEF E, F
  <2>2. end(0) = -1
    <3>1. 0 * w = 0
      OBVIOUS
    <3> QED BY <1>1, <3>1
  <2>3. E[0] = {}
    <3>1. 0 \in 0 .. pages /\ 0 .. -1 = {}
      BY <1>2
    <3> QED BY <2>1, <2>2, <3>1 DEF Shows
  <2>4. ASSUME NEW k \in 1 .. pages
        PROVE  /\ Grows(forward[k], F[k])
               /\ E[k] = E[k - 1] \cup F[k]
               /\ \A x \in E[k - 1], y \in F[k] : x < y
    <3>1. k \in 0 .. pages /\ k >= 1 /\ k - 1 \in 0 .. pages
      BY <1>2
    <3>2. PICK a : a = (k - 1) * w
      OBVIOUS
    <3>3. a \in Nat /\ a < n /\ k * w = a + w /\ k * w \in Nat
      BY <1>5, <3>1, <3>2
    <3>4. end(k) = (IF a + w > n THEN n - 1 ELSE a + w - 1) /\ end(k - 1) = a - 1
      BY <1>1, <3>2, <3>3
    <3>5. PICK b : b = end(k)
      OBVIOUS
    <3>6. b \in Int /\ b >= a - 1 /\ b = IF a + w > n THEN n - 1 ELSE a + w - 1
      BY <1>1, <3>3, <3>4, <3>5
    <3>7. E[k] = Shows(lines, d, 0, b) /\ E[k - 1] = Shows(lines, d, 0, a - 1) /\ F[k] = Shows(lines, d, a, b)
      BY <2>1, <3>1, <3>2, <3>4, <3>5
    <3> HIDE DEF end
    <3>8. Grows(forward[k], Shows(lines, d, a, b))
      <4> DEFINE q == [detail |-> d, from |-> a, limit |-> w]
      <4>1. "grep" \notin DOMAIN q
        OBVIOUS
      <4>2. PICK r : r = q
        OBVIOUS
      <4>3. w # 0 /\ r = [detail |-> d, from |-> a, limit |-> w] /\ "grep" \notin DOMAIN r
        BY <4>1, <4>2
      <4>4. /\ parseTranscriptQuery(r).ok /\ parseTranscriptQuery(r).detail = d
            /\ parseTranscriptQuery(r).selection = [kind |-> "from", id |-> a, n |-> w]
        BY <4>3, ParsedFrom
      <4>5. applySelection(n, [kind |-> "from", id |-> a, n |-> w]) = Interval(a, b)
        <5>1. a \in 0 .. n - 1
          BY <1>1, <3>3
        <5> QED BY <1>1, <3>6, <5>1, Selected
      <4>6. a \in Int /\ applySelection(Len(lines), parseTranscriptQuery(r).selection) = Interval(a, b)
        BY <1>1, <3>3, <4>4, <4>5
      <4>8. b \in Int
        BY <3>6
      <4> HIDE DEF q
      <4>9. Grows(formatTranscript(lines, r), Shows(lines, d, a, b))
        BY <4>3, <4>4, <4>6, <4>8, Formatted
      <4>7. forward[k] = formatTranscript(lines, r)
        BY <1>3, <3>2, <4>3
      <4> QED BY <4>7, <4>9
    <3>9. 0 .. b = 0 .. a - 1 \cup a .. b /\ \A x \in 0 .. a - 1, y \in a .. b : x < y
      BY <3>3, <3>6
    <3>10. Shows(lines, d, 0, b) = Shows(lines, d, 0, a - 1) \cup Shows(lines, d, a, b)
      BY <3>9 DEF Shows
    <3>11. \A x \in Shows(lines, d, 0, a - 1), y \in Shows(lines, d, a, b) : x < y
      BY <3>9 DEF Shows
    <3> QED BY <3>7, <3>8, <3>10, <3>11
  <2>5. E[pages] = Shows(lines, d, 0, n - 1)
    <3>1. pages \in 0 .. pages /\ end(pages) = n - 1
      BY <1>1, <1>2
    <3> QED BY <2>1, <3>1
  <2>6. Grows(FlattenSeq(forward), E[pages])
    BY <1>2, <1>4, <2>3, <2>4, PagesGrow
  <2> QED BY <2>5, <2>6
<1>9. ASSUME NEW k \in 1 .. pages
      PROVE  /\ Grows(back[k], Shows(lines, d, IF last(k) + 1 < w THEN 0 ELSE last(k) - w + 1, last(k)))
             /\ Grows(searched[k], Hits(lines, d, m, IF last(k) + 1 < w THEN 0 ELSE last(k) - w + 1, last(k)))
  <2>1. PICK x : x = last(k)
    OBVIOUS
  <2>2. PICK a : a = IF x + 1 < w THEN 0 ELSE x - w + 1
    OBVIOUS
  <2>3. x \in 0 .. n - 1 /\ x \in Int /\ a \in Int /\ w # 0
    BY <1>6, <2>1, <2>2
  <2>4. applySelection(n, [kind |-> "to", id |-> x, n |-> w]) = Interval(a, x)
    BY <1>1, <2>2, <2>3, Selected
  <2>5. Grows(back[k], Shows(lines, d, a, x))
    <3>1. "grep" \notin DOMAIN [detail |-> d, to |-> x, limit |-> w]
      OBVIOUS
    <3>2. PICK r : r = [detail |-> d, to |-> x, limit |-> w]
      OBVIOUS
    <3>3. "grep" \notin DOMAIN r
      BY <3>1, <3>2
    <3>4. /\ parseTranscriptQuery(r).ok /\ parseTranscriptQuery(r).detail = d
          /\ parseTranscriptQuery(r).selection = [kind |-> "to", id |-> x, n |-> w]
      BY <2>3, <3>2, ParsedTo
    <3>5. Grows(formatTranscript(lines, r), Shows(lines, d, a, x))
      BY <1>1, <2>3, <2>4, <3>3, <3>4, Formatted
    <3>6. back[k] = formatTranscript(lines, r)
      BY <1>3, <2>1, <3>2
    <3> QED BY <3>5, <3>6
  <2>6. Grows(searched[k], Hits(lines, d, m, a, x))
    <3>1. "grep" \in DOMAIN [detail |-> d, grep |-> m, to |-> x, limit |-> w]
      OBVIOUS
    <3>2. PICK r : r = [detail |-> d, grep |-> m, to |-> x, limit |-> w]
      OBVIOUS
    <3>3. "grep" \in DOMAIN r
      BY <3>1, <3>2
    <3>4. /\ parseTranscriptQuery(r).ok /\ parseTranscriptQuery(r).detail = d
          /\ parseTranscriptQuery(r).selection = [kind |-> "to", id |-> x, n |-> w]
          /\ parseTranscriptQuery(r).filter.match = m /\ parseTranscriptQuery(r).filter.context = 0
      BY <2>3, <3>2, ParsedSearchTo
    <3>5. Grows(formatTranscript(lines, r), Hits(lines, d, m, a, x))
      BY <1>1, <2>3, <2>4, <3>3, <3>4, Formatted
    <3>6. searched[k] = formatTranscript(lines, r)
      BY <1>3, <2>1, <3>2
    <3> QED BY <3>5, <3>6
  <2> QED BY <2>1, <2>2, <2>5, <2>6
<1>10. ASSUME NEW k \in 1 .. pages, NEW a, a = IF last(k) + 1 < w THEN 0 ELSE last(k) - w + 1
       PROVE  /\ 0 .. last(k) = 0 .. last(k - 1) \cup a .. last(k)
              /\ \A x \in 0 .. last(k - 1), y \in a .. last(k) : x < y
  <2>1. PICK z : z = last(k)
    OBVIOUS
  <2>2. z \in Int /\ z >= 0 /\ last(k - 1) = z - w /\ a = IF z + 1 < w THEN 0 ELSE z - w + 1
    BY <1>6, <1>10, <2>1
  <2>3. 0 .. z = 0 .. z - w \cup a .. z /\ \A x \in 0 .. z - w, y \in a .. z : x < y
    BY <2>2
  <2> QED BY <2>1, <2>2, <2>3
<1>11. Grows(FlattenSeq(back), Shows(lines, d, 0, n - 1))
  <2> DEFINE a(k) == IF last(k) + 1 < w THEN 0 ELSE last(k) - w + 1
             E == [k \in 0 .. pages |-> Shows(lines, d, 0, last(k))]
             F == [k \in 1 .. pages |-> Shows(lines, d, a(k), last(k))]
  <2>1. /\ \A k \in 0 .. pages : E[k] = Shows(lines, d, 0, last(k))
        /\ \A k \in 1 .. pages : F[k] = Shows(lines, d, a(k), last(k))
    OBVIOUS
  <2> HIDE DEF E, F
  <2>2. E[0] = {}
    <3>1. 0 \in 0 .. pages
      BY <1>2
    <3>2. 0 .. last(0) = {}
      BY <1>7
    <3> QED BY <2>1, <3>1, <3>2 DEF Shows
  <2>3. ASSUME NEW k \in 1 .. pages
        PROVE  /\ Grows(back[k], F[k])
               /\ E[k] = E[k - 1] \cup F[k]
               /\ \A x \in E[k - 1], y \in F[k] : x < y
    <3>1. k \in 0 .. pages /\ k - 1 \in 0 .. pages
      BY <1>2
    <3>2. E[k] = Shows(lines, d, 0, last(k)) /\ E[k - 1] = Shows(lines, d, 0, last(k - 1))
      BY <2>1, <3>1
    <3>3. Grows(back[k], F[k])
      BY <1>9, <2>1
    <3>4. PICK b : b = a(k)
      OBVIOUS
    <3>5. 0 .. last(k) = 0 .. last(k - 1) \cup b .. last(k)
          /\ \A x \in 0 .. last(k - 1), y \in b .. last(k) : x < y
      BY <1>10, <3>4
    <3>6. F[k] = Shows(lines, d, b, last(k))
      BY <2>1, <3>4
    <3>7. E[k] = E[k - 1] \cup F[k]
      BY <3>2, <3>5, <3>6 DEF Shows
    <3>8. \A x \in E[k - 1], y \in F[k] : x < y
      BY <3>2, <3>5, <3>6 DEF Shows
    <3> QED BY <3>3, <3>7, <3>8
  <2>4. E[pages] = Shows(lines, d, 0, n - 1)
    <3>1. pages \in 0 .. pages
      BY <1>2
    <3> QED BY <1>7, <2>1, <3>1
  <2>5. Grows(FlattenSeq(back), E[pages])
    BY <1>2, <1>4, <2>2, <2>3, PagesGrow
  <2> QED BY <2>4, <2>5
<1>12. Grows(FlattenSeq(searched), Hits(lines, d, m, 0, n - 1))
  <2> DEFINE a(k) == IF last(k) + 1 < w THEN 0 ELSE last(k) - w + 1
             E == [k \in 0 .. pages |-> Hits(lines, d, m, 0, last(k))]
             F == [k \in 1 .. pages |-> Hits(lines, d, m, a(k), last(k))]
  <2>1. /\ \A k \in 0 .. pages : E[k] = Hits(lines, d, m, 0, last(k))
        /\ \A k \in 1 .. pages : F[k] = Hits(lines, d, m, a(k), last(k))
    OBVIOUS
  <2> HIDE DEF E, F
  <2>2. E[0] = {}
    <3>1. 0 \in 0 .. pages
      BY <1>2
    <3>2. 0 .. last(0) = {}
      BY <1>7
    <3> QED BY <2>1, <3>1, <3>2 DEF Shows, Hits
  <2>3. ASSUME NEW k \in 1 .. pages
        PROVE  /\ Grows(searched[k], F[k])
               /\ E[k] = E[k - 1] \cup F[k]
               /\ \A x \in E[k - 1], y \in F[k] : x < y
    <3>1. k \in 0 .. pages /\ k - 1 \in 0 .. pages
      BY <1>2
    <3>2. E[k] = Hits(lines, d, m, 0, last(k)) /\ E[k - 1] = Hits(lines, d, m, 0, last(k - 1))
      BY <2>1, <3>1
    <3>3. Grows(searched[k], F[k])
      BY <1>9, <2>1
    <3>4. PICK b : b = a(k)
      OBVIOUS
    <3>5. 0 .. last(k) = 0 .. last(k - 1) \cup b .. last(k)
          /\ \A x \in 0 .. last(k - 1), y \in b .. last(k) : x < y
      BY <1>10, <3>4
    <3>6. F[k] = Hits(lines, d, m, b, last(k))
      BY <2>1, <3>4
    <3>7. E[k] = E[k - 1] \cup F[k]
      BY <3>2, <3>5, <3>6 DEF Shows, Hits
    <3>8. \A x \in E[k - 1], y \in F[k] : x < y
      BY <3>2, <3>5, <3>6 DEF Shows, Hits
    <3> QED BY <3>3, <3>7, <3>8
  <2>4. E[pages] = Hits(lines, d, m, 0, n - 1)
    <3>1. pages \in 0 .. pages
      BY <1>2
    <3> QED BY <1>7, <2>1, <3>1
  <2>5. Grows(FlattenSeq(searched), E[pages])
    BY <1>2, <1>4, <2>2, <2>3, PagesGrow
  <2> QED BY <2>4, <2>5
<1>13. ASSUME n > 0
       PROVE  formatTranscript(lines, [detail |-> d, last |-> w])
                = formatTranscript(lines, [detail |-> d, to |-> last(pages), limit |-> w])
  <2>1. PICK r : r = [detail |-> d, last |-> w]
    OBVIOUS
  <2>2. "grep" \notin DOMAIN r /\ w # 0
    <3>1. "grep" \notin DOMAIN [detail |-> d, last |-> w]
      OBVIOUS
    <3> QED BY <2>1, <3>1
  <2>3. /\ parseTranscriptQuery(r).ok /\ parseTranscriptQuery(r).detail = d
        /\ parseTranscriptQuery(r).selection = [kind |-> "last", n |-> w]
    BY <2>1, <2>2, ParsedLast
  <2>4. PICK a : a = IF n < w THEN 0 ELSE n - w
    OBVIOUS
  <2>5. a \in Int /\ n - 1 \in Int
    BY <1>1, <2>4
  <2>6. applySelection(n, [kind |-> "last", n |-> w]) = Interval(a, n - 1)
    BY <1>1, <2>4, Selected
  <2>7. Grows(formatTranscript(lines, r), Shows(lines, d, a, n - 1))
    BY <1>1, <2>2, <2>3, <2>5, <2>6, Formatted
  <2>8. pages \in 1 .. pages
    BY <1>2, <1>13
  <2>9. a = IF last(pages) + 1 < w THEN 0 ELSE last(pages) - w + 1
    BY <1>1, <1>7, <2>4
  <2>10. Grows(back[pages], Shows(lines, d, a, n - 1))
    BY <1>7, <1>9, <2>8, <2>9
  <2>11. formatTranscript(lines, r) = back[pages]
    BY <2>7, <2>10, GrowsOnce
  <2> QED BY <1>3, <2>1, <2>8, <2>11
<1> QED BY <1>8, <1>11, <1>12, <1>13 DEF n, pages, last, forward, back, searched

\* Whoever pages through a transcript sees every entry that the detail has, once and in order,
\* whichever way and also of a search (transcript-formatter.ts): a page shows the entries of an
\* interval that the detail has, the intervals of the pages lie end to end and cover the file,
\* and a list that grows is told by which its numbers are.
THEOREM WindowsTileTheFile == TransSpec => []WindowsTile
<1>1. TransTypeOK => WindowsTile
  <2> SUFFICES ASSUME TransTypeOK, NEW w \in 1 .. MaxWindow, NEW detail \in {"low", "medium", "full"}
               PROVE  LET lines == readTranscript
                          n == Len(lines)
                          pages == (n + w - 1) \div w
                          sees(q) == formatTranscript(lines, q)
                          match == {"prompt", "tool"}
                          forward(k) == [detail |-> detail, from |-> (k - 1) * w, limit |-> w]
                          last(k) == n - 1 - (pages - k) * w
                          back(k) == [detail |-> detail, to |-> last(k), limit |-> w]
                          searched(k) == [detail |-> detail, grep |-> match, to |-> last(k), limit |-> w]
                          all == ElementsAt(Interval(0, n - 1),
                                   {i \in 1 .. n : detail = "low" => lines[i].kind \notin Turns \ {"text"}})
                      IN  /\ FlattenSeq([k \in 1 .. pages |-> sees(forward(k))]) = all
                          /\ FlattenSeq([k \in 1 .. pages |-> sees(back(k))]) = all
                          /\ FlattenSeq([k \in 1 .. pages |-> sees(searched(k))])
                               = sees([detail |-> detail, grep |-> match])
                          /\ n > 0 => sees([detail |-> detail, last |-> w]) = sees(back(pages))
    BY DEF WindowsTile
  <2>1. PICK lines : lines = readTranscript
    OBVIOUS
  <2>2. PICK n : n = Len(lines)
    OBVIOUS
  <2>3. n \in Nat /\ \A i \in 1 .. n : lines[i].kind \in LineKinds \ {"torn", "scrap"}
    <3>1. file \in Seq(LineRows)
      BY DEF TransTypeOK
    <3>2. lines = ElementsAt(file, Readable(file))
      BY <2>1 DEF readTranscript, Readable
    <3>3. Readable(file) \in SUBSET (1 .. Len(file)) /\ Len(file) \in Nat
      BY <3>1, ReadableForm
    <3>4. /\ Len(lines) = Cardinality(Readable(file)) /\ Cardinality(Readable(file)) \in Nat
          /\ \A i \in Readable(file) : lines[Rank(Readable(file), i)] = file[i]
          /\ \A k \in 1 .. Cardinality(Readable(file)) : \E i \in Readable(file) : Rank(Readable(file), i) = k
      BY <3>2, <3>3, ElementsForm
    <3>5. ASSUME NEW k \in 1 .. n PROVE lines[k].kind \in LineKinds \ {"torn", "scrap"}
      <4>1. PICK i \in Readable(file) : Rank(Readable(file), i) = k
        BY <2>2, <3>4
      <4>2. lines[k] = file[i] /\ i \in 1 .. Len(file) /\ file[i].kind \notin {"torn", "scrap"}
        BY <3>3, <3>4, <4>1 DEF Readable
      <4>3. file[i] \in LineRows
        BY <3>1, <4>2
      <4> QED BY <4>2, <4>3 DEF LineRows
    <3> QED BY <2>2, <3>4, <3>5
  <2>4. w \in Nat /\ w >= 1
    OBVIOUS
  <2> DEFINE pages == (n + w - 1) \div w
             match == {"prompt", "tool"}
             last(k) == n - 1 - (pages - k) * w
             forward(k) == [detail |-> detail, from |-> (k - 1) * w, limit |-> w]
             back(k) == [detail |-> detail, to |-> last(k), limit |-> w]
             searched(k) == [detail |-> detail, grep |-> match, to |-> last(k), limit |-> w]
             all == ElementsAt(Interval(0, n - 1),
                      {i \in 1 .. n : detail = "low" => lines[i].kind \notin Turns \ {"text"}})
  <2>5. /\ Grows(FlattenSeq([k \in 1 .. pages |-> formatTranscript(lines, forward(k))]),
                 Shows(lines, detail, 0, n - 1))
        /\ Grows(FlattenSeq([k \in 1 .. pages |-> formatTranscript(lines, back(k))]),
                 Shows(lines, detail, 0, n - 1))
        /\ Grows(FlattenSeq([k \in 1 .. pages |-> formatTranscript(lines, searched(k))]),
                 Hits(lines, detail, match, 0, n - 1))
        /\ n > 0 => formatTranscript(lines, [detail |-> detail, last |-> w])
                      = formatTranscript(lines, back(pages))
    <3> HIDE DEF match
    <3> QED BY <2>2, <2>3, <2>4, WindowsOf
  <2>6. Grows(all, Shows(lines, detail, 0, n - 1))
    <3> DEFINE whole == Interval(0, n - 1)
               I == {i \in 1 .. n : detail = "low" => lines[i].kind \notin Turns \ {"text"}}
    <3>1. Grows(whole, 0 .. n - 1) /\ \A i \in DOMAIN whole : whole[i] = 0 + i - 1
      <4>1. 0 \in Int /\ n - 1 \in Int
        BY <2>3
      <4> QED BY <4>1, IntervalGrows
    <3>2. DOMAIN whole = 1 .. n
      <4>1. whole = [i \in 1 .. (IF n - 1 < 0 THEN 0 ELSE n - 1 - 0 + 1) |-> 0 + i - 1]
        BY DEF Interval
      <4>2. (IF n - 1 < 0 THEN 0 ELSE n - 1 - 0 + 1) = n
        BY <2>3
      <4> QED BY <4>1, <4>2
    <3> HIDE DEF whole
    <3>3. I \subseteq DOMAIN whole
      BY <3>2
    <3>4. {whole[i] : i \in I} = Shows(lines, detail, 0, n - 1)
      <4>1. \A i \in 1 .. n : (detail = "low" => lines[i].kind \notin Turns \ {"text"})
                                <=> formatEntry(lines[i], detail)
        <5> SUFFICES ASSUME NEW i \in 1 .. n
                     PROVE (detail = "low" => lines[i].kind \notin Turns \ {"text"})
                             <=> formatEntry(lines[i], detail)
          OBVIOUS
        <5>1. PICK kind : kind = lines[i].kind
          OBVIOUS
        <5>2. kind \in {"prompt", "note", "tool", "text", "result", "think", "synth"}
          BY <2>3, <5>1 DEF LineKinds
        <5>3. classify(lines[i]) = "message" <=> kind \in {"prompt", "note", "text", "synth"}
          BY <5>1 DEF classify
        <5>4. kind \notin Turns \ {"text"} <=> kind \in {"prompt", "note", "text", "synth"}
          BY <5>2 DEF Turns
        <5> QED BY <5>1, <5>3, <5>4 DEF formatEntry
      <4>2. \A i \in 1 .. n : whole[i] = i - 1 /\ whole[i] \in 0 .. n - 1 /\ whole[i] + 1 = i
        BY <2>3, <3>1, <3>2
      <4>3. \A e \in 0 .. n - 1 : e + 1 \in 1 .. n /\ whole[e + 1] = e
        BY <2>3, <3>1, <3>2
      <4>4. \A i \in I : whole[i] \in Shows(lines, detail, 0, n - 1)
        BY <4>1, <4>2 DEF Shows
      <4>5. \A e \in Shows(lines, detail, 0, n - 1) : \E i \in I : whole[i] = e
        BY <4>1, <4>3 DEF Shows
      <4> HIDE DEF I
      <4> QED BY <4>4, <4>5
    <3>5. Grows(ElementsAt(whole, I), Shows(lines, detail, 0, n - 1))
      <4> HIDE DEF I
      <4> QED BY <3>1, <3>3, <3>4, GrowsTaken
    <3> QED BY <3>5 DEF whole
  <2>7. Grows(formatTranscript(lines, [detail |-> detail, grep |-> match]), Hits(lines, detail, match, 0, n - 1))
    <3> HIDE DEF match
    <3>1. "grep" \in DOMAIN [detail |-> detail, grep |-> match]
      OBVIOUS
    <3>2. PICK r : r = [detail |-> detail, grep |-> match]
      OBVIOUS
    <3>3. "grep" \in DOMAIN r
      BY <3>1, <3>2
    <3>4. /\ parseTranscriptQuery(r).ok /\ parseTranscriptQuery(r).detail = detail
          /\ parseTranscriptQuery(r).selection = [kind |-> "all"]
          /\ parseTranscriptQuery(r).filter.match = match /\ parseTranscriptQuery(r).filter.context = 0
      BY <3>2, ParsedSearch
    <3>5. applySelection(n, [kind |-> "all"]) = Interval(0, n - 1)
      <4>1. n \in Nat
        BY <2>3
      <4> QED BY <2>4, <4>1, Selected
    <3>6. n - 1 \in Int /\ 0 \in Int
      BY <2>3
    <3>7. Grows(formatTranscript(lines, r), Hits(lines, detail, match, 0, n - 1))
      BY <2>2, <3>3, <3>4, <3>5, <3>6, Formatted
    <3> QED BY <3>2, <3>7
  <2> HIDE DEF all
  <2>8. FlattenSeq([k \in 1 .. pages |-> formatTranscript(lines, forward(k))]) = all
    BY <2>5, <2>6, GrowsOnce
  <2>9. FlattenSeq([k \in 1 .. pages |-> formatTranscript(lines, back(k))]) = all
    BY <2>5, <2>6, GrowsOnce
  <2>10. FlattenSeq([k \in 1 .. pages |-> formatTranscript(lines, searched(k))])
           = formatTranscript(lines, [detail |-> detail, grep |-> match])
    BY <2>5, <2>7, GrowsOnce
  <2> QED BY <2>1, <2>2, <2>5, <2>8, <2>9, <2>10 DEF all
<1>2. RepairIInv => TransTypeOK
  BY DEF RepairIInv
<1> QED BY <1>1, <1>2, RepairIInvHolds, PTL

=============================================================================
