---------------------------- MODULE ServerProofs ----------------------------
(***************************************************************************)
(* Proofs about the components of the server that keep a state of their    *)
(* own: the consumer of final reports, the tool-token interlock, the       *)
(* trigger scheduler, what a session is embodied with and what wakes a     *)
(* manager when its workers come to an end.  For each, an inductive        *)
(* invariant, one lemma per kind of step, and the properties of the        *)
(* component's module as theorems for every value of its constants.        *)
(***************************************************************************)
EXTENDS ToolTokenGate, TriggerScheduler, CompletionWakes, FinalReports, Embodiment,
        WellFoundedInduction, FiniteSetTheorems, TLAPS

-----------------------------------------------------------------------------
(* Numbers.                                                                *)

\* A set of numbers has a least one.
LEMMA LeastNat == ASSUME NEW T \in SUBSET Nat, T # {}
                  PROVE  \E x \in T : \A y \in T : x <= y
<1> DEFINE R == OpToRel(<, Nat)
<1>1. \A x, y \in Nat : y < x => <<y, x>> \in R
  BY DEF OpToRel
<1>2. IsWellFoundedOn(R, Nat)
  BY NatLessThanWellFounded
<1> HIDE DEF R
<1>3. PICK x \in T : \A y \in T : ~(<<y, x>> \in R)
  BY <1>2, WFMin
<1>4. \A y \in T : ~(y < x)
  BY <1>1, <1>3
<1>5. \A y \in T : x <= y
  BY <1>4
<1> QED BY <1>5

\* Min of the community modules gives it.
LEMMA MinOf == ASSUME NEW T \in SUBSET Nat, T # {}
               PROVE  Min(T) \in T /\ \A y \in T : Min(T) <= y
BY LeastNat DEF Min

\* The same for the greatest.
LEMMA MaxOf == ASSUME NEW T \in SUBSET Nat, NEW n \in Nat, T # {}, \A x \in T : x <= n
               PROVE  Max(T) \in T /\ \A y \in T : Max(T) >= y
<1> DEFINE U == {k \in Nat : n - k \in T}
<1>1. U \subseteq Nat /\ U # {}
  <2>1. PICK x \in T : TRUE
    OBVIOUS
  <2>2. n - x \in U
    BY <2>1
  <2> QED BY <2>2
<1>3. \A y \in T : n - y \in U
  OBVIOUS
<1>5. \A k \in U : n - k \in T /\ k \in Nat
  OBVIOUS
<1> HIDE DEF U
<1>2. PICK u \in U : \A y \in U : u <= y
  BY <1>1, LeastNat
<1>4. \A y \in T : n - u >= y
  <2> TAKE y \in T
  <2>1. u <= n - y /\ u \in Nat
    BY <1>2, <1>3, <1>5
  <2> QED BY <2>1
<1>6. n - u \in T
  BY <1>2, <1>5
<1> QED BY <1>4, <1>6 DEF Max

-----------------------------------------------------------------------------
(* The consumer of final reports (FinalReports).                           *)

\* A callback at work holds the first of the reports that its workspace has not
\* consumed: a report that is not among its rows comes after all of them.
DrainOK ==
    drain.at = "callback" =>
        /\ drain.ws \in Spaces
        /\ drain.rows # {}
        /\ drain.rows \subseteq unconsumed(drain.ws, cursor, entries)
        /\ \A i \in unconsumed(drain.ws, cursor, entries) \ drain.rows :
              \A r \in drain.rows : r < i
        /\ handed[Min(drain.rows)] > 0

calledBack(i) == drain.at = "callback" /\ i = Min(drain.rows)

\* What is neither consumed nor at a callback was handed over by drains that a
\* restart cut short, at most once by each.
HandedOnce == \A i \in 1 .. MaxReportRows :
    (i \in DOMAIN entries => i > cursor[entries[i].ws]) /\ ~calledBack(i)
        => handed[i] <= consumerRestarts

\* The inductive invariant of FinalReports.
ConsumerIInv == /\ ConsumerTypeOK
                /\ Len(entries) <= MaxReportRows
                /\ \A w \in Spaces : cursor[w] <= Len(entries)
                /\ DrainOK
                /\ HandedOnce
                /\ HandedOver

\* What goOn returns: the timer, or the rows it was given, or a workspace of the
\* list with all that it has not consumed.
LEMMA GoOn ==
    ASSUME NEW cur \in [Spaces -> Nat],
           NEW table \in Seq(LogRows),
           NEW w \in 0 .. MaxSpaces, NEW upTo \in 0 .. MaxSpaces, NEW rows
    PROVE  \/ rows = {} /\ goOn(w, rows, upTo, cur, table) = Undrained
           \/ /\ rows # {}
              /\ goOn(w, rows, upTo, cur, table) =
                    [at |-> "callback", ws |-> w, rows |-> rows, upTo |-> upTo]
           \/ \E v \in Spaces :
                /\ rows = {} /\ unconsumed(v, cur, table) # {}
                /\ goOn(w, rows, upTo, cur, table) =
                     [at |-> "callback", ws |-> v, upTo |-> upTo, rows |-> unconsumed(v, cur, table)]
<1> DEFINE later == {v \in w + 1 .. upTo : unconsumed(v, cur, table) # {}}
<1>1. CASE rows # {}
  BY <1>1 DEF goOn
<1>2. CASE rows = {} /\ later = {}
  BY <1>2 DEF goOn
<1>3. CASE rows = {} /\ later # {}
  <2>1. later \subseteq Nat
    BY ConsumerAssumption
  <2>2. Min(later) \in later
    BY <1>3, <2>1, MinOf
  <2>5. \A v \in later : v \in Spaces /\ unconsumed(v, cur, table) # {}
    BY ConsumerAssumption DEF Spaces
  <2>3. Min(later) \in Spaces /\ unconsumed(Min(later), cur, table) # {}
    BY <2>2, <2>5
  <2>4. goOn(w, rows, upTo, cur, table) =
          [at |-> "callback", ws |-> Min(later), upTo |-> upTo,
           rows |-> unconsumed(Min(later), cur, table)]
    BY <1>3 DEF goOn
  <2> QED BY <1>3, <2>3, <2>4
<1> QED BY <1>1, <1>2, <1>3

\* goOn: the consumer is idle, or at work on a workspace with something unconsumed.
LEMMA GoneOn ==
    ASSUME NEW w \in 0 .. MaxSpaces, NEW upTo \in 0 .. MaxSpaces, NEW rows,
           entries' \in Seq(LogRows),
           cursor' \in [Spaces -> Nat],
           drain' = goOn(w, rows, upTo, cursor', entries')
    PROVE  \/ drain' = Undrained
           \/ rows # {} /\ drain' = [at |-> "callback", ws |-> w, rows |-> rows, upTo |-> upTo]
           \/ \E v \in Spaces : /\ rows = {}
                                /\ unconsumed(v, cursor', entries') # {}
                                /\ drain' = [at |-> "callback", ws |-> v, upTo |-> upTo,
                                            rows |-> unconsumed(v, cursor', entries')]
<1>1. \/ rows = {} /\ goOn(w, rows, upTo, cursor', entries') = Undrained
      \/ /\ rows # {}
         /\ goOn(w, rows, upTo, cursor', entries') =
               [at |-> "callback", ws |-> w, rows |-> rows, upTo |-> upTo]
      \/ \E v \in Spaces :
            /\ rows = {} /\ unconsumed(v, cursor', entries') # {}
            /\ goOn(w, rows, upTo, cursor', entries') =
                 [at |-> "callback", ws |-> v, upTo |-> upTo, rows |-> unconsumed(v, cursor', entries')]
  BY GoOn
<1> QED BY <1>1

\* A step that moves the loop on: `drain'` is what goOn gives for cursors and rows
\* that the invariant's other parts hold of, and its first row is handed over.
LEMMA DrainStep ==
    ASSUME ConsumerIInv, NEW w \in 0 .. MaxSpaces, NEW upTo \in 0 .. MaxSpaces, NEW rows,
           entries' \in Seq(LogRows),
           Len(entries') <= MaxReportRows,
           cursor' \in [Spaces -> 0 .. Len(entries')],
           rows # {} => /\ w \in Spaces
                        /\ rows \subseteq unconsumed(w, cursor', entries')
                        /\ \A i \in unconsumed(w, cursor', entries') \ rows : \A r \in rows : r < i,
           \A i \in DOMAIN entries' : entries'[i].kind = "final-report" /\ i <= cursor'[entries'[i].ws]
                => handed[i] > 0,
           \A i \in 1 .. MaxReportRows : 
                (i \in DOMAIN entries' => i > cursor'[entries'[i].ws]) => handed[i] <= consumerRestarts,
           drain' = goOn(w, rows, upTo, cursor', entries'),
           handed' = begun(drain'),
           UNCHANGED <<spaces, consumerRestarts>>
    PROVE  ConsumerIInv'
<1>0. /\ ConsumerTypeOK
      /\ \A i \in 1 .. MaxReportRows : handed[i] <= 1 + consumerRestarts
      /\ entries' \in Seq(LogRows)
      /\ cursor' \in [Spaces -> Nat]
  BY ConsumerAssumption DEF ConsumerIInv, HandedOver, ConsumerTypeOK
<1>1. \/ drain' = Undrained
      \/ /\ drain' \in [at: {"callback"}, ws: Spaces, rows: SUBSET (1 .. MaxReportRows), upTo: 0 .. MaxSpaces]
         /\ drain'.rows # {}
         /\ drain'.rows \subseteq unconsumed(drain'.ws, cursor', entries')
         /\ \A i \in unconsumed(drain'.ws, cursor', entries') \ drain'.rows :
              \A r \in drain'.rows : r < i
  <2>1. \A v \in Spaces : unconsumed(v, cursor', entries') \subseteq 1 .. MaxReportRows
    BY <1>0, ConsumerAssumption DEF unconsumed
  <2>2. CASE rows # {} /\ drain' = [at |-> "callback", ws |-> w, rows |-> rows, upTo |-> upTo]
    BY <2>1, <2>2
  <2>3. CASE \E v \in Spaces : /\ rows = {}
                               /\ unconsumed(v, cursor', entries') # {}
                               /\ drain' = [at |-> "callback", ws |-> v, upTo |-> upTo,
                                           rows |-> unconsumed(v, cursor', entries')]
    BY <2>1, <2>3
  <2>4. \/ drain' = Undrained
        \/ rows # {} /\ drain' = [at |-> "callback", ws |-> w, rows |-> rows, upTo |-> upTo]
        \/ \E v \in Spaces : /\ rows = {}
                             /\ unconsumed(v, cursor', entries') # {}
                             /\ drain' = [at |-> "callback", ws |-> v, upTo |-> upTo,
                                         rows |-> unconsumed(v, cursor', entries')]
    BY <1>0, GoneOn
  <2> QED BY <2>2, <2>3, <2>4
<1>2. CASE drain' = Undrained
  <2>1. handed' = handed
    BY <1>2 DEF begun, Undrained
  <2>2. ConsumerTypeOK'
    BY <1>0, <1>2, <2>1, ConsumerAssumption DEF ConsumerTypeOK, Undrained, Spaces
  <2>3. HandedOver' /\ HandedOnce'
    BY <1>0, <2>1 DEF HandedOver, HandedOnce
  <2>4. DrainOK'
    BY <1>2 DEF DrainOK, Undrained
  <2> QED BY <2>2, <2>3, <2>4 DEF ConsumerIInv
<1>3. CASE drain'.at = "callback"
  <2> DEFINE k == Min(drain'.rows)
  <2>0. /\ drain' \in [at: {"callback"}, ws: Spaces, rows: SUBSET (1 .. MaxReportRows), upTo: 0 .. MaxSpaces]
        /\ drain'.rows # {}
        /\ drain'.rows \subseteq unconsumed(drain'.ws, cursor', entries')
    BY <1>1, <1>3 DEF Undrained
  <2>1. k \in drain'.rows
    <3>1. drain'.rows \subseteq Nat
      BY <2>0, ConsumerAssumption
    <3> QED BY <2>0, <3>1, MinOf
  <2> HIDE DEF k
  <2>2. /\ k \in 1 .. MaxReportRows /\ k \in DOMAIN entries'
        /\ entries'[k].ws = drain'.ws /\ k > cursor'[entries'[k].ws]
    BY <2>0, <2>1 DEF unconsumed
  <2>3. handed' = [handed EXCEPT ![k] = @ + 1]
    BY <1>3 DEF begun, k
  <2>4. handed[k] <= consumerRestarts
    BY <2>2
  <2>5. ConsumerTypeOK'
    <3>1. handed' \in [1 .. MaxReportRows -> Nat]
      <4>1. handed \in [1 .. MaxReportRows -> Nat] /\ k \in 1 .. MaxReportRows
        BY <1>0, <2>2 DEF ConsumerTypeOK
      <4> QED BY <2>3, <4>1
    <3>2. cursor' \in [Spaces -> 0 .. MaxReportRows]
      BY ConsumerAssumption
    <3>3. drain' \in [at: {"timer", "callback"}, ws: 0 .. MaxSpaces,
                      rows: SUBSET (1 .. MaxReportRows), upTo: 0 .. MaxSpaces]
      BY <2>0, ConsumerAssumption DEF Spaces
    <3> QED BY <1>0, <3>1, <3>2, <3>3 DEF ConsumerTypeOK
  <2>6. HandedOver'
    <3>1. /\ handed'[k] = handed[k] + 1 /\ handed[k] \in Nat
          /\ \A i \in 1 .. MaxReportRows : i # k => handed'[i] = handed[i]
      BY <1>0, <2>2, <2>3 DEF ConsumerTypeOK
    <3>2. DOMAIN entries' \subseteq 1 .. MaxReportRows
      BY <1>0, ConsumerAssumption
    <3>3. ASSUME NEW i \in DOMAIN entries', entries'[i].kind = "final-report",
                 i <= cursor'[entries'[i].ws]
          PROVE  handed'[i] > 0
      <4>1. handed[i] > 0 /\ i \in 1 .. MaxReportRows
        BY <3>2, <3>3
      <4> QED BY <3>1, <4>1
    <3>4. ASSUME NEW i \in 1 .. MaxReportRows PROVE handed'[i] <= 1 + consumerRestarts'
      <4>1. consumerRestarts \in Nat /\ consumerRestarts' = consumerRestarts
        BY <1>0, ConsumerAssumption DEF ConsumerTypeOK
      <4>2. CASE i = k
        BY <2>4, <3>1, <4>1, <4>2
      <4>3. CASE i # k
        BY <1>0, <3>1, <4>1, <4>3
      <4> QED BY <4>2, <4>3
    <3> QED BY <3>3, <3>4 DEF HandedOver
  <2>7. DrainOK'
    <3>1. handed'[k] > 0
      <4>1. handed[k] \in Nat /\ handed'[k] = handed[k] + 1
        BY <1>0, <2>2, <2>3 DEF ConsumerTypeOK
      <4> QED BY <4>1
    <3> QED BY <1>1, <1>3, <2>0, <3>1 DEF DrainOK, k, Undrained
  <2>8. HandedOnce'
    <3>1. ASSUME NEW i \in 1 .. MaxReportRows,
                 i \in DOMAIN entries' => i > cursor'[entries'[i].ws],
                 i # k
          PROVE  handed'[i] <= consumerRestarts'
      BY <1>0, <2>3, <3>1 DEF ConsumerTypeOK
    <3> QED BY <1>3, <3>1 DEF HandedOnce, calledBack, k
  <2> QED BY <2>5, <2>6, <2>7, <2>8 DEF ConsumerIInv
<1> QED BY <1>1, <1>2, <1>3

\* Every step of the consumer keeps the invariant.
LEMMA ConsumerStep == ConsumerIInv /\ [ConsumerNext]_consumerVars => ConsumerIInv'
<1> SUFFICES ASSUME ConsumerIInv, [ConsumerNext]_consumerVars PROVE ConsumerIInv'
  OBVIOUS
<1>0. ConsumerTypeOK
  BY DEF ConsumerIInv
<1>1. CASE WorkspaceAdded
  <2>1. spaces' \in Spaces /\ UNCHANGED <<entries, cursor, drain, handed, consumerRestarts>>
    BY <1>0, <1>1, ConsumerAssumption DEF WorkspaceAdded, ConsumerTypeOK, Spaces
  <2>2. ConsumerTypeOK'
    BY <1>0, <2>1 DEF ConsumerTypeOK
  <2>3. DrainOK' /\ HandedOnce' /\ HandedOver'
    BY <2>1 DEF ConsumerIInv, DrainOK, HandedOnce, HandedOver, calledBack
  <2> QED BY <2>1, <2>2, <2>3 DEF ConsumerIInv
<1>2. CASE DrainBegins
  <2>1. /\ entries' = entries /\ cursor' = cursor
        /\ drain' = goOn(0, {}, spaces, cursor', entries')
        /\ handed' = begun(drain')
    BY <1>2 DEF DrainBegins
  <2>2. \A i \in 1 .. MaxReportRows : ~calledBack(i)
    BY <1>2 DEF DrainBegins, calledBack
  <2>3. spaces \in 0 .. MaxSpaces /\ 0 \in 0 .. MaxSpaces
    BY <1>0, ConsumerAssumption DEF ConsumerTypeOK, Spaces
  <2>4. cursor \in [Spaces -> 0 .. Len(entries)]
    BY DEF ConsumerIInv, ConsumerTypeOK
  <2>5. \A i \in 1 .. MaxReportRows : 
          (i \in DOMAIN entries => i > cursor[entries[i].ws]) => handed[i] <= consumerRestarts
    BY <2>2 DEF ConsumerIInv, HandedOnce
  <2> QED BY <1>0, <1>2, <2>1, <2>3, <2>4, <2>5, DrainStep
          DEF DrainBegins, ConsumerIInv, HandedOver, ConsumerTypeOK
<1>3. CASE ConsumerRestart
  <2>1. \A i \in 1 .. MaxReportRows : handed[i] <= 1 + consumerRestarts
    BY DEF ConsumerIInv, HandedOver
  <2> QED BY <1>0, <1>3, <2>1, ConsumerAssumption
          DEF ConsumerRestart, ConsumerIInv, ConsumerTypeOK, Spaces, DrainOK, HandedOnce, HandedOver,
              Undrained
<1>4. ASSUME NEW w \in Spaces, Reported(w) PROVE ConsumerIInv'
  <2> DEFINE e == [ws |-> w, kind |-> "final-report"]
  <2>1. /\ entries' = Append(entries, e) /\ Len(entries) < MaxReportRows
        /\ UNCHANGED <<spaces, cursor, drain, handed, consumerRestarts>>
    BY <1>4 DEF Reported
  <2>2. /\ Len(entries') = Len(entries) + 1
        /\ entries' \in Seq(LogRows)
        /\ \A i \in DOMAIN entries : entries'[i] = entries[i]
        /\ entries'[Len(entries) + 1] = e
        /\ DOMAIN entries' = DOMAIN entries \cup {Len(entries) + 1}
    <3>1. e \in LogRows /\ entries \in Seq(LogRows)
      BY <1>0 DEF ConsumerTypeOK, LogRows
    <3> QED BY <2>1, <3>1
  <2>3. \A v \in Spaces :
          /\ unconsumed(v, cursor, entries) \subseteq unconsumed(v, cursor', entries')
          /\ \A i \in unconsumed(v, cursor', entries') \ unconsumed(v, cursor, entries) : i = Len(entries) + 1
    BY <2>1, <2>2 DEF unconsumed
  <2>4. \A v \in Spaces : \A i \in unconsumed(v, cursor, entries) : i < Len(entries) + 1
    BY <1>0 DEF unconsumed, ConsumerTypeOK
  <2>5. DrainOK'
    BY <2>1, <2>3, <2>4 DEF ConsumerIInv, DrainOK
  <2>6. HandedOnce'
    BY <1>0, <2>1, <2>2 DEF ConsumerIInv, HandedOnce, calledBack
  <2>7. HandedOver'
    BY <1>0, <2>1, <2>2 DEF ConsumerIInv, HandedOver, ConsumerTypeOK
  <2>8. ConsumerTypeOK'
    BY <1>0, <2>1, <2>2 DEF ConsumerTypeOK
  <2>9. Len(entries') <= MaxReportRows /\ \A v \in Spaces : cursor'[v] <= Len(entries')
    <3>1. Len(entries) \in Nat /\ \A v \in Spaces : cursor[v] \in Nat /\ cursor[v] <= Len(entries)
      BY <1>0 DEF ConsumerIInv, ConsumerTypeOK
    <3> QED BY <2>1, <2>2, <3>1, ConsumerAssumption
  <2> QED BY <2>5, <2>6, <2>7, <2>8, <2>9 DEF ConsumerIInv
<1>5. ASSUME NEW ok \in BOOLEAN, CallbackEnds(ok) PROVE ConsumerIInv'
  <2> DEFINE i == Min(drain.rows)
             w == drain.ws
  <2>0. drain.at = "callback"
    BY <1>5 DEF CallbackEnds
  <2>1. /\ w \in Spaces /\ drain.rows # {}
        /\ drain.rows \subseteq unconsumed(w, cursor, entries)
        /\ \A j \in unconsumed(w, cursor, entries) \ drain.rows : \A r \in drain.rows : r < j
        /\ handed[i] > 0
    BY <2>0 DEF ConsumerIInv, DrainOK
  <2>2. i \in drain.rows /\ \A r \in drain.rows : i <= r
    <3>1. drain.rows \subseteq Nat
      BY <1>0, ConsumerAssumption DEF ConsumerTypeOK
    <3> QED BY <2>1, <3>1, MinOf
  <2>3. /\ i \in DOMAIN entries /\ entries[i].ws = w /\ i > cursor[w] /\ i \in Nat
        /\ \A j \in unconsumed(w, cursor, entries) : i <= j
    BY <1>0, <2>1, <2>2 DEF unconsumed, ConsumerTypeOK
  <2>4. /\ cursor' = [cursor EXCEPT ![w] = i]
        /\ drain' = goOn(w, drain.rows \ {i}, drain.upTo, cursor', entries')
        /\ handed' = begun(drain')
        /\ UNCHANGED <<spaces, consumerRestarts>>
    BY <1>5 DEF CallbackEnds
  <2>5. \/ entries' = entries
        \/ /\ entries' = Append(entries, [ws |-> w, kind |-> "callback-error"])
           /\ Len(entries) < MaxReportRows
    BY <1>5 DEF CallbackEnds
  <2> HIDE DEF i
  <2>6. /\ entries' \in Seq(LogRows)
        /\ Len(entries') <= MaxReportRows /\ Len(entries) <= Len(entries')
        /\ \A j \in DOMAIN entries : j \in DOMAIN entries' /\ entries'[j] = entries[j]
        /\ \A j \in DOMAIN entries' \ DOMAIN entries :
              j = Len(entries) + 1 /\ entries'[j] = [ws |-> w, kind |-> "callback-error"]
    <3>1. /\ entries \in Seq(LogRows)
          /\ Len(entries) <= MaxReportRows
      BY <1>0 DEF ConsumerIInv, ConsumerTypeOK
    <3>2. [ws |-> w, kind |-> "callback-error"] \in LogRows
      BY <2>1 DEF LogRows
    <3>3. CASE entries' = entries
      BY <3>1, <3>3
    <3>4. CASE /\ entries' = Append(entries, [ws |-> w, kind |-> "callback-error"])
               /\ Len(entries) < MaxReportRows
      <4>1. /\ entries' \in Seq(LogRows)
            /\ Len(entries') = Len(entries) + 1 /\ Len(entries) \in Nat
            /\ DOMAIN entries = 1 .. Len(entries) /\ DOMAIN entries' = 1 .. Len(entries')
            /\ entries'[Len(entries) + 1] = [ws |-> w, kind |-> "callback-error"]
            /\ \A j \in 1 .. Len(entries) : entries'[j] = entries[j]
        BY <3>1, <3>2, <3>4
      <4> QED BY <3>4, <4>1, ConsumerAssumption
    <3> QED BY <2>5, <3>3, <3>4
  <2>7. cursor' \in [Spaces -> 0 .. Len(entries')]
    <3>1. i \in 0 .. Len(entries') /\ Len(entries) \in Nat /\ Len(entries') \in Nat
      BY <1>0, <2>3, <2>6 DEF ConsumerTypeOK
    <3>2. \A v \in Spaces : cursor[v] \in 0 .. Len(entries')
      BY <1>0, <2>6, <3>1 DEF ConsumerIInv, ConsumerTypeOK
    <3> QED BY <1>0, <2>1, <2>4, <3>1, <3>2 DEF ConsumerTypeOK
  <2>8. /\ \A j \in unconsumed(w, cursor', entries') : j \in unconsumed(w, cursor, entries) /\ j # i
        /\ \A j \in unconsumed(w, cursor, entries) : j # i => j \in unconsumed(w, cursor', entries')
    <3>1. cursor'[w] = i /\ cursor[w] \in Nat
      BY <1>0, <2>1, <2>4 DEF ConsumerTypeOK
    <3>2. ASSUME NEW j \in unconsumed(w, cursor', entries')
          PROVE  j \in unconsumed(w, cursor, entries) /\ j # i
      <4>1. /\ j \in DOMAIN entries' /\ entries'[j].ws = w
            /\ entries'[j].kind = "final-report" /\ j > i
        BY <3>1 DEF unconsumed
      <4>2. j \in DOMAIN entries /\ entries'[j] = entries[j] /\ j \in Nat
        BY <1>0, <2>6, <4>1 DEF ConsumerTypeOK
      <4>3. j > cursor[w]
        BY <2>3, <3>1, <4>1, <4>2
      <4> QED BY <2>3, <4>1, <4>2, <4>3 DEF unconsumed
    <3>3. ASSUME NEW j \in unconsumed(w, cursor, entries), j # i
          PROVE  j \in unconsumed(w, cursor', entries')
      <4>1. /\ j \in DOMAIN entries /\ entries[j].ws = w
            /\ entries[j].kind = "final-report" /\ j \in Nat
        BY <1>0 DEF unconsumed, ConsumerTypeOK
      <4>2. j > i
        BY <2>3, <3>3, <4>1
      <4> QED BY <2>6, <3>1, <4>1, <4>2 DEF unconsumed
    <3> QED BY <3>2, <3>3
  <2>9. \A j \in DOMAIN entries' :
          entries'[j].kind = "final-report" /\ j <= cursor'[entries'[j].ws] => handed[j] > 0
    <3>1. ASSUME NEW j \in DOMAIN entries', entries'[j].kind = "final-report",
                 j <= cursor'[entries'[j].ws]
          PROVE  handed[j] > 0
      <4>1. j \in DOMAIN entries /\ entries'[j] = entries[j]
        BY <2>6, <3>1
      <4>2. CASE entries[j].ws # w
        BY <1>0, <2>4, <3>1, <4>1, <4>2 DEF ConsumerIInv, HandedOver, ConsumerTypeOK
      <4>3. CASE entries[j].ws = w /\ j <= cursor[w]
        BY <3>1, <4>1, <4>3 DEF ConsumerIInv, HandedOver
      <4>4. CASE entries[j].ws = w /\ ~(j <= cursor[w])
        <5>1. j <= i
          BY <1>0, <2>1, <2>4, <3>1, <4>1, <4>4 DEF ConsumerTypeOK
        <5>2. j \in unconsumed(w, cursor, entries)
          BY <1>0, <2>1, <3>1, <4>1, <4>4 DEF unconsumed, ConsumerTypeOK
        <5>3. j = i
          BY <1>0, <2>3, <4>1, <5>1, <5>2 DEF ConsumerTypeOK
        <5> QED BY <2>1, <5>3 DEF i
      <4> QED BY <4>2, <4>3, <4>4
    <3> QED BY <3>1
  <2>10. \A j \in 1 .. MaxReportRows :
           (j \in DOMAIN entries' => j > cursor'[entries'[j].ws]) => handed[j] <= consumerRestarts
    <3>1. ASSUME NEW j \in 1 .. MaxReportRows,
                 j \in DOMAIN entries' => j > cursor'[entries'[j].ws]
          PROVE  handed[j] <= consumerRestarts
      <4>1. j # i
        <5>1. cursor'[w] = i
          BY <1>0, <2>1, <2>4 DEF ConsumerTypeOK
        <5>2. i \in DOMAIN entries' /\ entries'[i].ws = w
          BY <2>3, <2>6
        <5> QED BY <2>3, <3>1, <5>1, <5>2
      <4>2. j \in DOMAIN entries => j > cursor[entries[j].ws]
        <5>1. CASE j \in DOMAIN entries /\ entries[j].ws = w
          <6>1. cursor'[w] = i /\ cursor[w] \in Nat
            BY <1>0, <2>1, <2>4 DEF ConsumerTypeOK
          <6>2. j > i
            BY <2>6, <3>1, <5>1, <6>1
          <6> QED BY <2>3, <5>1, <6>1, <6>2
        <5>2. CASE j \in DOMAIN entries /\ entries[j].ws # w
          <6>1. entries[j].ws \in Spaces
            <7>1. entries \in Seq(LogRows)
              BY <1>0 DEF ConsumerTypeOK
            <7>2. entries[j] \in LogRows
              BY <5>2, <7>1
            <7> QED BY <7>2 DEF LogRows
          <6>2. cursor'[entries[j].ws] = cursor[entries[j].ws]
            BY <1>0, <2>4, <5>2, <6>1 DEF ConsumerTypeOK
          <6> QED BY <2>6, <3>1, <5>2, <6>2
        <5> QED BY <5>1, <5>2
      <4> QED BY <4>1, <4>2 DEF ConsumerIInv, HandedOnce, calledBack, i
    <3> QED BY <3>1
  <2>11. w \in 0 .. MaxSpaces /\ drain.upTo \in 0 .. MaxSpaces
    BY <1>0 DEF ConsumerTypeOK
  <2>12. /\ drain.rows \ {i} \subseteq unconsumed(w, cursor', entries')
         /\ \A j \in unconsumed(w, cursor', entries') \ (drain.rows \ {i}) :
              \A r \in drain.rows \ {i} : r < j
    BY <2>1, <2>8
  <2> HIDE DEF w
  <2> QED BY <2>1, <2>4, <2>6, <2>7, <2>9, <2>10, <2>11, <2>12, DrainStep
<1>6. CASE UNCHANGED consumerVars
  BY <1>6 DEF consumerVars, ConsumerIInv, ConsumerTypeOK, DrainOK, HandedOnce, HandedOver,
              calledBack, unconsumed
<1> QED BY <1>1, <1>2, <1>3, <1>4, <1>5, <1>6 DEF ConsumerNext

\* The consumer starts in it.
LEMMA ConsumerStart == ConsumerInit => ConsumerIInv
BY ConsumerAssumption
DEF ConsumerInit, ConsumerIInv, ConsumerTypeOK, Spaces, DrainOK, HandedOnce, HandedOver, Undrained

\* No cursor of a workspace passes a final report whose callback was never started,
\* and a callback is started with the same report again only after a restart.
THEOREM ReportsHandedOver == ConsumerSpec => []HandedOver
<1>1. ConsumerIInv => HandedOver
  BY DEF ConsumerIInv
<1> QED BY <1>1, ConsumerStart, ConsumerStep, PTL DEF ConsumerSpec

-----------------------------------------------------------------------------
(* The tool-token interlock (ToolTokenGate).                               *)

\* Of a target and a tool only the token minted last can be live.
LiveIsLatest == \A t \in ToolTokens : row[t].st = "live" =>
    \A u \in t + 1 .. MaxToolTokens :
        row[u].st # "none" => row[u].target # row[t].target \/ row[u].tool # row[t].tool

MintedInOrder == \A t \in ToolTokens : row[t].st # "none" =>
    \A u \in 1 .. t - 1 : row[u].st # "none"

TargetsSeated == \A t \in ToolTokens : row[t].st # "none" => row[t].target \in Seats

\* What a handler that waits knows of its token: it was minted, a cycle redeems
\* only a cycle's, and what is to be consumed has fired.
JobsOfTokens == \A h \in GateReqs :
    LET t == gateJob[h].token IN
    /\ gateJob[h].at # "idle" => t \in ToolTokens /\ row[t].st # "none"
    /\ gateJob[h].at \in {"cycle", "consume"} => row[t].tool = "cycle"
    /\ gateJob[h].at = "consume" => fired[t] > 0

\* The inductive invariant of ToolTokenGate.
GateIInv == GateTypeOK /\ LiveIsLatest /\ MintedInOrder /\ TargetsSeated /\ JobsOfTokens

\* The interlock starts in its invariant.
LEMMA GateStart == GateInit => GateIInv
BY GateAssumption
DEF GateInit, GateIInv, GateTypeOK, LiveIsLatest, MintedInOrder, TargetsSeated, JobsOfTokens, NoRow, GateIdle,
    GateJobs, ToolTokenRows, ToolTokens, Tools, Seats

\* Deleting tokens, and nothing else, keeps what is said of the rows.
LEMMA DeletedOK ==
    ASSUME GateIInv, NEW T
    PROVE  /\ Deleted(T) \in [ToolTokens -> ToolTokenRows]
           /\ \A t \in ToolTokens : /\ Deleted(T)[t].target = row[t].target
                                    /\ Deleted(T)[t].tool = row[t].tool
                                    /\ Deleted(T)[t].failAttempts = row[t].failAttempts
                                    /\ Deleted(T)[t].st = IF t \in T THEN "gone" ELSE row[t].st
BY DEF Deleted, GateIInv, GateTypeOK, ToolTokenRows

\* What a step that mints nothing may do to the tokens and the jobs.
LEMMA NothingMinted ==
    ASSUME GateIInv, GateTypeOK', NEW T \in SUBSET {t \in ToolTokens : row[t].st = "live"},
           row' = Deleted(T) \/ UNCHANGED row,
           \A t \in ToolTokens : fired'[t] >= fired[t],
           \A h \in GateReqs : \/ gateJob'[h] = gateJob[h]
                               \/ gateJob'[h] = GateIdle
                               \/ /\ gateJob'[h].token \in ToolTokens
                                  /\ row[gateJob'[h].token].st # "none"
                                  /\ row[gateJob'[h].token].tool = "cycle"
                                  /\ gateJob'[h].at = "consume" => fired'[gateJob'[h].token] > 0
    PROVE  GateIInv'
<1>1. \A t \in ToolTokens : /\ row'[t].target = row[t].target
                            /\ row'[t].tool = row[t].tool
                            /\ row'[t].st = "live" => row[t].st = "live"
                            /\ row'[t].st # "none" <=> row[t].st # "none"
  <2>1. CASE row' = row
    BY <2>1
  <2>2. CASE row' = Deleted(T)
    BY <2>2, DeletedOK
  <2> QED BY <2>1, <2>2
<1>2. LiveIsLatest' /\ MintedInOrder' /\ TargetsSeated'
  <2>1. LiveIsLatest'
    <3>1. \A t \in ToolTokens : \A u \in t + 1 .. MaxToolTokens : u \in ToolTokens
      BY DEF ToolTokens
    <3> QED BY <1>1, <3>1 DEF GateIInv, LiveIsLatest
  <2>2. MintedInOrder'
    <3>1. \A t \in ToolTokens : \A u \in 1 .. t - 1 : u \in ToolTokens
      BY GateAssumption DEF ToolTokens
    <3> QED BY <1>1, <3>1 DEF GateIInv, MintedInOrder
  <2> QED BY <1>1, <2>1, <2>2 DEF GateIInv, TargetsSeated
<1>3. JobsOfTokens'
  <2> SUFFICES ASSUME NEW h \in GateReqs
               PROVE  /\ gateJob'[h].at # "idle" => /\ gateJob'[h].token \in ToolTokens
                                                    /\ row'[gateJob'[h].token].st # "none"
                      /\ gateJob'[h].at \in {"cycle", "consume"} => row'[gateJob'[h].token].tool = "cycle"
                      /\ gateJob'[h].at = "consume" => fired'[gateJob'[h].token] > 0
    BY DEF JobsOfTokens
  <2>1. CASE gateJob'[h] = gateJob[h]
    BY <1>1, <2>1 DEF GateIInv, GateTypeOK, JobsOfTokens
  <2>2. CASE gateJob'[h] = GateIdle
    BY <2>2 DEF GateIdle
  <2> QED BY <1>1, <2>1, <2>2
<1> QED BY <1>2, <1>3 DEF GateIInv

\* A mint: whatever becomes of the injection, the new token is the last one of its
\* target and tool, and the earlier ones are gone.
LEMMA Minted ==
    ASSUME GateIInv, NEW h \in GateReqs, NEW t \in ToolTokens, NEW caller \in Seats,
           NEW target \in Seats, NEW tool \in Tools, NEW n \in 0 .. 1,
           mintAndInject(h, t, caller, target, tool, n)
    PROVE  /\ GateIInv'
           /\ row[t].st = "none" /\ row'[t].st # "none"
           /\ row'[t].target = target /\ row'[t].tool = tool
           /\ \A u \in ToolTokens \ {t} :
                /\ row'[u].target = row[u].target /\ row'[u].tool = row[u].tool
                /\ row'[u].st = IF u \in rowsOf(target, tool) THEN "gone" ELSE row[u].st
<1> DEFINE rows == mint(t, target, tool, n)
<1>1. /\ row[t].st = "none" /\ \A u \in 1 .. t - 1 : row[u].st # "none"
      /\ UNCHANGED <<lifetime, fired, failed, gateRestarts>>
      /\ gateJob[h] = GateIdle
  BY DEF mintAndInject, FreshToken
<1>2. /\ rows \in [ToolTokens -> ToolTokenRows]
      /\ rows[t] = [st |-> "live", target |-> target, tool |-> tool, failAttempts |-> n]
      /\ \A u \in ToolTokens \ {t} :
                /\ rows[u].target = row[u].target /\ rows[u].tool = row[u].tool
                /\ rows[u].st = IF u \in rowsOf(target, tool) THEN "gone" ELSE row[u].st
  BY DeletedOK, GateAssumption DEF mint, ToolTokenRows, Seats
<1> HIDE DEF rows
<1>3. /\ \/ row' = rows
         \/ row' = [rows EXCEPT ![t].st = "gone"]
      /\ seat' = seat \/ seat' = [seat EXCEPT ![target].st = "ended"]
      /\ told' = told \/ told' = told \cup {t}
      /\ gateJob' = gateJob \/ gateJob' = [gateJob EXCEPT ![h] = [at |-> "inject", token |-> t]]
  BY DEF mintAndInject, Inject, rows
<1>4. /\ row' \in [ToolTokens -> ToolTokenRows]
      /\ row'[t].st \in {"live", "gone"} /\ row'[t].target = target /\ row'[t].tool = tool
      /\ \A u \in ToolTokens \ {t} :
                /\ row'[u].target = row[u].target /\ row'[u].tool = row[u].tool
                /\ row'[u].st = IF u \in rowsOf(target, tool) THEN "gone" ELSE row[u].st
  BY <1>2, <1>3 DEF ToolTokenRows
<1>5. GateTypeOK'
  <2>1. seat' \in [Seats -> [agent: {Lead, Help, Unseated}, st: {"none", "live", "deaf", "ended"}]]
    BY <1>3 DEF GateIInv, GateTypeOK
  <2>2. gateJob' \in [GateReqs -> GateJobs]
    BY <1>3 DEF GateIInv, GateTypeOK, GateJobs, ToolTokens
  <2> QED BY <1>1, <1>3, <1>4, <2>1, <2>2 DEF GateIInv, GateTypeOK
<1>6. \A u \in ToolTokens : u > t => row[u].st = "none"
  BY <1>1 DEF GateIInv, MintedInOrder, ToolTokens
<1>7. LiveIsLatest'
  <2> SUFFICES ASSUME NEW u \in ToolTokens, row'[u].st = "live",
                      NEW v \in u + 1 .. MaxToolTokens, row'[v].st # "none"
               PROVE  row'[v].target # row'[u].target \/ row'[v].tool # row'[u].tool
    BY DEF LiveIsLatest
  <2>0. v \in ToolTokens /\ v > u
    BY DEF ToolTokens
  <2>1. CASE u = t
    BY <1>4, <1>6, <2>0, <2>1 DEF rowsOf
  <2>2. CASE u # t /\ v = t
    <3>1. row[u].st = "live" /\ u \notin rowsOf(target, tool)
      BY <1>4, <2>2
    <3>2. row[u].target # target \/ row[u].tool # tool
      BY <3>1 DEF rowsOf
    <3> QED BY <1>4, <2>2, <3>2
  <2>3. CASE u # t /\ v # t
    <3>1. row[u].st = "live" /\ row[v].st # "none"
      BY <1>4, <2>0, <2>3 DEF rowsOf
    <3> QED BY <1>4, <2>0, <2>3, <3>1 DEF GateIInv, LiveIsLatest
  <2> QED BY <2>1, <2>2, <2>3
<1>8. MintedInOrder'
  <2>1. \A u \in ToolTokens \ {t} : row'[u].st # "none" <=> row[u].st # "none"
    BY <1>4 DEF rowsOf
  <2> SUFFICES ASSUME NEW u \in ToolTokens, row'[u].st # "none", NEW v \in 1 .. u - 1
               PROVE  row'[v].st # "none"
    BY DEF MintedInOrder
  <2>2. v \in ToolTokens /\ v < u
    BY GateAssumption DEF ToolTokens
  <2>3. CASE u = t
    BY <1>1, <2>1, <2>2, <2>3
  <2>4. CASE u # t
    BY <1>1, <1>4, <2>1, <2>2, <2>4 DEF GateIInv, MintedInOrder
  <2> QED BY <2>3, <2>4
<1>10. TargetsSeated'
  BY <1>4 DEF GateIInv, TargetsSeated, rowsOf
<1>9. JobsOfTokens'
  <2> SUFFICES ASSUME NEW g \in GateReqs
               PROVE  /\ gateJob'[g].at # "idle" => /\ gateJob'[g].token \in ToolTokens
                                                    /\ row'[gateJob'[g].token].st # "none"
                      /\ gateJob'[g].at \in {"cycle", "consume"} => row'[gateJob'[g].token].tool = "cycle"
                      /\ gateJob'[g].at = "consume" => fired'[gateJob'[g].token] > 0
    BY DEF JobsOfTokens
  <2>1. CASE gateJob'[g] = gateJob[g] /\ gateJob[g].at # "idle"
    <3>1. gateJob[g].token \in ToolTokens \ {t}
      BY <1>1, <2>1 DEF GateIInv, JobsOfTokens
    <3> QED BY <1>1, <1>4, <2>1, <3>1 DEF GateIInv, JobsOfTokens, rowsOf
  <2>2. CASE gateJob'[g] = gateJob[g] /\ gateJob[g].at = "idle"
    BY <2>2
  <2>3. CASE gateJob'[g] = [at |-> "inject", token |-> t]
    BY <1>4, <2>3
  <2> QED BY <1>3, <2>1, <2>2, <2>3 DEF GateIInv, GateTypeOK
<1> QED BY <1>1, <1>4, <1>5, <1>7, <1>8, <1>9, <1>10 DEF GateIInv

\* A redemption needs a live token, so the last one of its target and tool.
LEMMA RedeemedIsLatest ==
    ASSUME GateIInv, NEW caller, NEW t \in ToolTokens, NEW tool, mayRedeem(caller, t, tool)
    PROVE  /\ row[t].st = "live" /\ row[t].tool = tool
           /\ \A u \in t + 1 .. MaxToolTokens :
                row[u].st # "none" => row[u].target # row[t].target \/ row[u].tool # row[t].tool
BY DEF GateIInv, LiveIsLatest, mayRedeem

\* What one step does, with respect to one token; the two properties in one.
StaleNeverFires(t) == Begins(t) =>
    \A u \in t + 1 .. MaxToolTokens :
        row[u].st # "none" => row[u].target # row[t].target \/ row[u].tool # row[t].tool
LeavesForAReason(t) == row[t].st = "live" /\ row'[t].st = "gone" =>
        \/ fired'[t] > 0
        \/ \E u \in ToolTokens : /\ row[u].st = "none" /\ row'[u].st # "none"
                                 /\ row'[u].target = row[t].target /\ row'[u].tool = row[t].tool
        \/ \E h \in GateReqs : /\ gateJob[h].at = "inject" /\ gateJob'[h] = GateIdle
                               /\ row[gateJob[h].token].target = row[t].target
                               /\ row[gateJob[h].token].tool = row[t].tool
StepOK == GateIInv' /\ \A t \in ToolTokens : StaleNeverFires(t) /\ LeavesForAReason(t)

\* A step that begins no redemption and touches no token.
LEMMA QuietGateStep ==
    ASSUME GateIInv, GateTypeOK', UNCHANGED <<row, fired>>,
           failed' = failed \/ failed' = [t \in ToolTokens |-> 0],
           \A h \in GateReqs : gateJob'[h] \in {gateJob[h], GateIdle}
    PROVE  StepOK
<1>1. GateIInv'
  <2>1. \A t \in ToolTokens : fired'[t] >= fired[t]
    BY DEF GateIInv, GateTypeOK
  <2> QED BY <2>1, NothingMinted
<1>2. \A t \in ToolTokens : ~(fired'[t] > fired[t]) /\ ~(failed'[t] > failed[t])
  BY DEF GateIInv, GateTypeOK
<1>3. \A t \in ToolTokens, h \in GateReqs : 
        gateJob[h] = GateIdle => gateJob'[h] # [at |-> "cycle", token |-> t]
  BY DEF GateIdle
<1>4. \A t \in ToolTokens : ~Begins(t)
  BY <1>2, <1>3 DEF Begins
<1> QED BY <1>1, <1>4 DEF StepOK, StaleNeverFires, LeavesForAReason

\* Every step keeps it, and a token that begins to fire is not stale.
LEMMA GateStep == GateIInv /\ [GateNext]_gateVars => StepOK
<1> SUFFICES ASSUME GateIInv, [GateNext]_gateVars PROVE StepOK
  OBVIOUS
<1>0. GateTypeOK
  BY DEF GateIInv
<1>1. ASSUME NEW s \in Seats, ChildLeaves(s) \/ TurnBegins(s) \/ SeatEnds(s) \/ SeatResumes(s)
      PROVE  StepOK
  <2>1. /\ UNCHANGED <<lifetime, row, told, fired, failed, gateJob, gateRestarts>>
        /\ seat' \in [Seats -> [agent: {Lead, Help, Unseated}, st: {"none", "live", "deaf", "ended"}]]
    BY <1>0, <1>1 DEF ChildLeaves, TurnBegins, SeatEnds, SeatResumes, GateTypeOK
  <2>2. GateTypeOK'
    BY <1>0, <2>1 DEF GateTypeOK
  <2> QED BY <2>1, <2>2, QuietGateStep
<1>2. ASSUME NEW h \in GateReqs, CycleCommand(h) \/ TestCommand(h)
      PROVE  StepOK
  <2>1. PICK t \in ToolTokens, caller, target \in Seats, tool \in Tools, n \in 0 .. 1 :
            mintAndInject(h, t, caller, target, tool, n)
    BY <1>2 DEF CycleCommand, TestCommand, MintCycle, MintTest, Tools
  <2>2. /\ GateIInv'
        /\ row[t].st = "none" /\ row'[t].st # "none"
        /\ row'[t].target = target /\ row'[t].tool = tool
        /\ \A u \in ToolTokens \ {t} :
              row'[u].st = IF u \in rowsOf(target, tool) THEN "gone" ELSE row[u].st
    BY <2>1, Minted
  <2>3. \A u \in ToolTokens : LeavesForAReason(u)
    <3> SUFFICES ASSUME NEW u \in ToolTokens, row[u].st = "live", row'[u].st = "gone"
                 PROVE  row[u].target = target /\ row[u].tool = tool
      BY <2>2 DEF LeavesForAReason
    <3> QED BY <2>2 DEF rowsOf
  <2>4. \A u \in ToolTokens : ~Begins(u)
    <3>1. UNCHANGED <<fired, failed>>
      BY <2>1 DEF mintAndInject
    <3>2. gateJob' = gateJob \/ gateJob' = [gateJob EXCEPT ![h] = [at |-> "inject", token |-> t]]
      BY <2>1 DEF mintAndInject, Inject
    <3>3. \A u \in ToolTokens, g \in GateReqs :
            gateJob[g] = GateIdle => gateJob'[g] # [at |-> "cycle", token |-> u]
      BY <1>0, <3>2 DEF GateIdle, GateTypeOK
    <3>4. \A u \in ToolTokens : ~(fired'[u] > fired[u]) /\ ~(failed'[u] > failed[u])
      BY <1>0, <3>1 DEF GateTypeOK
    <3> QED BY <3>3, <3>4 DEF Begins
  <2> QED BY <2>2, <2>3, <2>4 DEF StepOK, StaleNeverFires
<1>3. ASSUME NEW h \in GateReqs, InjectResumed(h) PROVE StepOK
  <2> DEFINE t == gateJob[h].token
  <2>1. /\ seat' = [seat EXCEPT ![row[t].target].st = "live"]
        /\ told' = told \cup {t} /\ t \in ToolTokens
        /\ gateJob' = [gateJob EXCEPT ![h] = GateIdle]
        /\ UNCHANGED <<lifetime, row, fired, failed, gateRestarts>>
    BY <1>3 DEF InjectResumed, GateIInv, JobsOfTokens
  <2>2. GateTypeOK'
    <3>1. seat' \in [Seats -> [agent: {Lead, Help, Unseated}, st: {"none", "live", "deaf", "ended"}]]
      BY <1>0, <2>1 DEF GateTypeOK
    <3>2. gateJob' \in [GateReqs -> GateJobs]
      BY <1>0, <2>1, GateAssumption DEF GateTypeOK, GateIdle, GateJobs
    <3> QED BY <1>0, <2>1, <3>1, <3>2 DEF GateTypeOK
  <2> QED BY <1>0, <2>1, <2>2, QuietGateStep DEF GateTypeOK
<1>4. ASSUME NEW h \in GateReqs, InjectFailed(h) PROVE StepOK
  <2> DEFINE t == gateJob[h].token
             T == rowsOf(row[t].target, row[t].tool)
  <2>1. /\ gateJob[h].at = "inject" /\ row' = Deleted(T)
        /\ gateJob' = [gateJob EXCEPT ![h] = GateIdle]
        /\ UNCHANGED <<lifetime, seat, told, fired, failed, gateRestarts>>
    BY <1>4 DEF InjectFailed, revoke
  <2>2. T \in SUBSET {u \in ToolTokens : row[u].st = "live"}
    BY DEF rowsOf
  <2>3. GateTypeOK'
    <3>1. row' \in [ToolTokens -> ToolTokenRows]
      BY <2>1, DeletedOK
    <3>2. gateJob' \in [GateReqs -> GateJobs]
      BY <1>0, <2>1, GateAssumption DEF GateTypeOK, GateIdle, GateJobs
    <3> QED BY <1>0, <2>1, <3>1, <3>2 DEF GateTypeOK
  <2>4. GateIInv'
    <3>1. \A u \in ToolTokens : fired'[u] >= fired[u]
      BY <1>0, <2>1 DEF GateTypeOK
    <3>2. \A g \in GateReqs : gateJob'[g] = gateJob[g] \/ gateJob'[g] = GateIdle
      BY <1>0, <2>1 DEF GateTypeOK
    <3> HIDE DEF T
    <3> QED BY <2>1, <2>2, <2>3, <3>1, <3>2, NothingMinted
  <2>5. \A u \in ToolTokens : LeavesForAReason(u)
    <3> SUFFICES ASSUME NEW u \in ToolTokens, row[u].st = "live", row'[u].st = "gone"
                 PROVE  row[u].target = row[t].target /\ row[u].tool = row[t].tool
      BY <1>0, <2>1 DEF LeavesForAReason, GateTypeOK
    <3>1. u \in T
      BY <2>1, DeletedOK
    <3> QED BY <3>1 DEF rowsOf
  <2>6. \A u \in ToolTokens : ~Begins(u)
    BY <1>0, <2>1 DEF Begins, GateTypeOK, GateIdle
  <2> QED BY <2>4, <2>5, <2>6 DEF StepOK, StaleNeverFires
<1>5. ASSUME NEW h \in GateReqs, CycleBootFails(h) PROVE StepOK
  <2>1. GateTypeOK' /\ gateJob' = [gateJob EXCEPT ![h] = GateIdle] /\ UNCHANGED <<row, fired, failed>>
    BY <1>0, <1>5, GateAssumption DEF CycleBootFails, GateTypeOK, GateIdle, GateJobs
  <2> QED BY <1>0, <2>1, QuietGateStep DEF GateTypeOK
<1>6. ASSUME NEW h \in GateReqs, CycleSeats(h) PROVE StepOK
  <2> DEFINE t == gateJob[h].token
  <2>1. /\ t \in ToolTokens /\ row[t].st # "none" /\ row[t].tool = "cycle"
        /\ gateJob[h].at = "cycle"
        /\ fired' = [fired EXCEPT ![t] = @ + 1]
        /\ gateJob' = [gateJob EXCEPT ![h].at = "consume"]
        /\ UNCHANGED <<lifetime, row, told, failed, gateRestarts>>
    BY <1>6 DEF CycleSeats, GateIInv, JobsOfTokens
  <2>2. GateTypeOK'
    <3>1. row[t].target \in Seats
      BY <2>1 DEF GateIInv, TargetsSeated
    <3>2. seat' \in [Seats -> [agent: {Lead, Help, Unseated}, st: {"none", "live", "deaf", "ended"}]]
      <4>1. PICK s \in Seats :
              seat' = [seat EXCEPT ![s] = [agent |-> seat[row[t].target].agent, st |-> "live"],
                                   ![row[t].target].st = "ended"]
        BY <1>6 DEF CycleSeats
      <4>2. seat[row[t].target].agent \in {Lead, Help, Unseated}
        BY <1>0, <3>1 DEF GateTypeOK
      <4> DEFINE seats == [seat EXCEPT ![s] = [agent |-> seat[row[t].target].agent, st |-> "live"]]
      <4>3. seats \in [Seats -> [agent: {Lead, Help, Unseated}, st: {"none", "live", "deaf", "ended"}]]
        BY <1>0, <4>2 DEF GateTypeOK
      <4>4. seat' = [seats EXCEPT ![row[t].target].st = "ended"]
        BY <4>1
      <4> HIDE DEF seats
      <4> QED BY <4>3, <4>4
    <3>3. gateJob' \in [GateReqs -> GateJobs] /\ fired' \in [ToolTokens -> Nat]
      BY <1>0, <2>1 DEF GateTypeOK, GateJobs
    <3> QED BY <1>0, <2>1, <3>2, <3>3 DEF GateTypeOK
  <2>3. /\ \A u \in ToolTokens : fired'[u] >= fired[u]
        /\ fired'[t] > 0
        /\ \A u \in ToolTokens \ {t} : ~(fired'[u] > fired[u])
        /\ \A u \in ToolTokens : ~(failed'[u] > failed[u])
    BY <1>0, <2>1 DEF GateTypeOK
  <2>4. /\ gateJob'[h].token = t /\ gateJob'[h].at = "consume"
        /\ \A g \in GateReqs : g # h => gateJob'[g] = gateJob[g]
    BY <1>0, <2>1 DEF GateTypeOK, GateJobs
  <2>5. GateIInv'
    BY <2>1, <2>2, <2>3, <2>4, NothingMinted
  <2>6. \A u \in ToolTokens : ~Begins(u)
    BY <2>1, <2>3, <2>4 DEF Begins, GateIdle
  <2> QED BY <2>1, <2>5, <2>6 DEF StepOK, StaleNeverFires, LeavesForAReason
<1>7. ASSUME NEW h \in GateReqs, Consume(h) PROVE StepOK
  <2> DEFINE t == gateJob[h].token
  <2>1. /\ t \in ToolTokens /\ row[t].st # "none" /\ fired[t] > 0
        /\ row' = Deleted({t})
        /\ gateJob' = [gateJob EXCEPT ![h] = GateIdle]
        /\ UNCHANGED <<lifetime, seat, told, fired, failed, gateRestarts>>
    BY <1>7 DEF Consume, consume, GateIInv, JobsOfTokens
  <2> HIDE DEF t
  <2>2. GateTypeOK'
    <3>1. row' \in [ToolTokens -> ToolTokenRows]
      BY <2>1, DeletedOK
    <3>2. gateJob' \in [GateReqs -> GateJobs]
      BY <1>0, <2>1, GateAssumption DEF GateTypeOK, GateIdle, GateJobs
    <3> QED BY <1>0, <2>1, <3>1, <3>2 DEF GateTypeOK
  <2>3. \A g \in GateReqs : gateJob'[g] = gateJob[g] \/ gateJob'[g] = GateIdle
    BY <1>0, <2>1 DEF GateTypeOK
  <2>4. GateIInv'
    <3>1. \A u \in ToolTokens : fired'[u] >= fired[u]
      BY <1>0, <2>1 DEF GateTypeOK
    <3>2. CASE row[t].st = "live"
      BY <2>1, <2>2, <2>3, <3>1, <3>2, NothingMinted
    <3>3. CASE row[t].st = "gone"
      <4>1. Deleted({t}) = row
        BY <1>0, <3>3 DEF Deleted, GateTypeOK, ToolTokenRows
      <4> QED BY <2>1, <2>2, <2>3, <3>1, <4>1, NothingMinted
    <3> QED BY <1>0, <2>1, <3>2, <3>3 DEF GateTypeOK, ToolTokenRows
  <2>5. \A u \in ToolTokens : LeavesForAReason(u)
    <3> SUFFICES ASSUME NEW u \in ToolTokens, row[u].st = "live", row'[u].st = "gone"
                 PROVE  fired'[u] > 0
      BY DEF LeavesForAReason
    <3>1. u = t
      BY <2>1, DeletedOK
    <3> QED BY <2>1, <3>1
  <2>6. \A u \in ToolTokens : ~Begins(u)
    BY <1>0, <2>1, <2>3 DEF Begins, GateTypeOK, GateIdle
  <2> QED BY <2>4, <2>5, <2>6 DEF StepOK, StaleNeverFires
<1>8. ASSUME NEW h \in GateReqs, NEW s \in Seats, NEW t \in ToolTokens, RedeemCycle(h, s, t)
      PROVE  StepOK
  <2>1. /\ gateJob[h] = GateIdle /\ mayRedeem(s, t, "cycle")
        /\ gateJob' = [gateJob EXCEPT ![h] = [at |-> "cycle", token |-> t]]
        /\ UNCHANGED <<lifetime, seat, row, told, fired, failed, gateRestarts>>
    BY <1>8 DEF RedeemCycle
  <2>2. /\ row[t].st = "live" /\ row[t].tool = "cycle" /\ StaleNeverFires(t)
    BY <2>1, RedeemedIsLatest DEF StaleNeverFires
  <2>3. GateTypeOK'
    BY <1>0, <2>1 DEF GateTypeOK, GateJobs, ToolTokens
  <2>4. /\ gateJob'[h] = [at |-> "cycle", token |-> t]
        /\ \A g \in GateReqs : g # h => gateJob'[g] = gateJob[g]
    BY <1>0, <2>1 DEF GateTypeOK
  <2>5. GateIInv'
    <3>1. \A u \in ToolTokens : fired'[u] >= fired[u]
      BY <1>0, <2>1 DEF GateTypeOK
    <3>2. \A g \in GateReqs : \/ gateJob'[g] = gateJob[g]
                              \/ /\ gateJob'[g].token = t /\ gateJob'[g].at = "cycle"
                                 /\ row[gateJob'[g].token].st # "none"
                                 /\ row[gateJob'[g].token].tool = "cycle"
      BY <2>2, <2>4
    <3>3. {} \in SUBSET {u \in ToolTokens : row[u].st = "live"} /\ UNCHANGED row
      BY <2>1
    <3> QED BY <2>3, <3>1, <3>2, <3>3, NothingMinted
  <2>6. ASSUME NEW u \in ToolTokens, u # t PROVE ~Begins(u)
    <3>1. ~(fired'[u] > fired[u]) /\ ~(failed'[u] > failed[u])
      BY <1>0, <2>1 DEF GateTypeOK
    <3>2. \A g \in GateReqs : gateJob[g] = GateIdle => gateJob'[g] # [at |-> "cycle", token |-> u]
      BY <2>4, <2>6 DEF GateIdle
    <3> QED BY <3>1, <3>2 DEF Begins
  <2> QED BY <2>1, <2>2, <2>5, <2>6 DEF StepOK, StaleNeverFires, LeavesForAReason
<1>9. ASSUME NEW s \in Seats, NEW t \in ToolTokens, RedeemTest(s, t) PROVE StepOK
  <2>1. /\ mayRedeem(s, t, "test-tool") /\ UNCHANGED <<lifetime, seat, told, gateJob, gateRestarts>>
        /\ \/ /\ failed[t] < row[t].failAttempts
              /\ failed' = [failed EXCEPT ![t] = @ + 1]
              /\ UNCHANGED <<row, fired>>
           \/ /\ fired' = [fired EXCEPT ![t] = @ + 1]
              /\ row' = Deleted({t})
              /\ UNCHANGED failed
    BY <1>9 DEF RedeemTest, consume
  <2>2. row[t].st = "live" /\ StaleNeverFires(t)
    BY <2>1, RedeemedIsLatest DEF StaleNeverFires
  <2>3. GateTypeOK'
    <3>1. row' \in [ToolTokens -> ToolTokenRows]
      BY <1>0, <2>1, DeletedOK DEF GateTypeOK
    <3>2. failed[t] < row[t].failAttempts => failed[t] + 1 \in 0 .. 1
      BY <1>0 DEF GateTypeOK, ToolTokenRows
    <3>3. fired' \in [ToolTokens -> Nat] /\ failed' \in [ToolTokens -> 0 .. 1]
      BY <1>0, <2>1, <3>2 DEF GateTypeOK
    <3> QED BY <1>0, <2>1, <3>1, <3>3 DEF GateTypeOK
  <2>4. /\ \A u \in ToolTokens : fired'[u] >= fired[u]
        /\ \A u \in ToolTokens \ {t} : ~(fired'[u] > fired[u]) /\ ~(failed'[u] > failed[u])
        /\ row' = row \/ fired'[t] > 0
    BY <1>0, <2>1 DEF GateTypeOK
  <2>5. GateIInv'
    BY <2>1, <2>2, <2>3, <2>4, NothingMinted
  <2>6. ASSUME NEW u \in ToolTokens, u # t PROVE ~Begins(u)
    BY <2>1, <2>4, <2>6 DEF Begins, GateIdle
  <2>7. ASSUME NEW u \in ToolTokens PROVE LeavesForAReason(u)
    <3>1. CASE row' = row
      BY <3>1 DEF LeavesForAReason
    <3>2. CASE row' # row
      <4>1. row' = Deleted({t}) /\ fired'[t] > 0
        BY <2>1, <2>4, <3>2
      <4>2. row[u].st = "live" /\ row'[u].st = "gone" => u = t
        BY <4>1, DeletedOK
      <4> QED BY <4>1, <4>2 DEF LeavesForAReason
    <3> QED BY <3>1, <3>2
  <2> QED BY <2>2, <2>5, <2>6, <2>7 DEF StepOK, StaleNeverFires
<1>10. ASSUME NEW D, GateRestart(D) PROVE StepOK
  <2>1. /\ UNCHANGED <<row, fired>> /\ failed' = [t \in ToolTokens |-> 0]
        /\ gateJob' = [h \in GateReqs |-> GateIdle]
    BY <1>10 DEF GateRestart
  <2>2. GateTypeOK'
    <3>1. seat' \in [Seats -> [agent: {Lead, Help, Unseated}, st: {"none", "live", "deaf", "ended"}]]
      BY <1>0, <1>10 DEF GateRestart, GateTypeOK
    <3>2. gateJob' \in [GateReqs -> GateJobs] /\ failed' \in [ToolTokens -> 0 .. 1]
      BY <2>1, GateAssumption DEF GateIdle, GateJobs
    <3>3. gateRestarts' \in 0 .. MaxGateRestarts
      BY <1>0, <1>10, GateAssumption DEF GateRestart, GateTypeOK
    <3> QED BY <1>0, <1>10, <3>1, <3>2, <3>3 DEF GateRestart, GateTypeOK
  <2> QED BY <2>1, <2>2, QuietGateStep
<1>11. CASE UNCHANGED gateVars
  <2>1. GateTypeOK' /\ UNCHANGED <<row, fired, failed, gateJob>>
    BY <1>0, <1>11 DEF gateVars, GateTypeOK
  <2> QED BY <2>1, QuietGateStep
<1> QED BY <1>1, <1>2, <1>3, <1>4, <1>5, <1>6, <1>7, <1>8, <1>9, <1>10, <1>11 DEF GateNext

\* A redemption always begins with the token minted last for its target and tool:
\* fresh arguments revoke, for any number of agents' sessions, handlers and retries.
THEOREM NoStaleToken == GateSpec => NoStaleFire
<1>1. GateIInv /\ [GateNext]_gateVars => GateIInv' /\ [\A t \in ToolTokens : StaleNeverFires(t)]_gateVars
  BY GateStep DEF StepOK
<1>2. [\A t \in ToolTokens : StaleNeverFires(t)]_gateVars <=> 
      [\A t \in ToolTokens : Begins(t) =>
         \A u \in t + 1 .. MaxToolTokens :
            row[u].st # "none" => row[u].target # row[t].target \/ row[u].tool # row[t].tool]_gateVars
  BY DEF StaleNeverFires
<1> QED BY <1>1, <1>2, GateStart, PTL DEF GateSpec, NoStaleFire

\* A token leaves the store only fired, replaced, or undeliverable: no throw, boot
\* failure or restart loses it, for any number of sessions, handlers and tokens.
THEOREM TokenLivesUntilFired == GateSpec => LiveUntilFired
<1>1. GateIInv /\ [GateNext]_gateVars => GateIInv' /\ [\A t \in ToolTokens : LeavesForAReason(t)]_gateVars
  BY GateStep DEF StepOK
<1>2. [\A t \in ToolTokens : LeavesForAReason(t)]_gateVars =>
      [\A t \in ToolTokens : row[t].st = "live" /\ row'[t].st = "gone" =>
        \/ fired'[t] > 0
        \/ \E u \in ToolTokens : /\ row[u].st = "none" /\ row'[u].st # "none"
                                 /\ row'[u].target = row[t].target /\ row'[u].tool = row[t].tool
        \/ \E h \in GateReqs : /\ gateJob[h].at = "inject" /\ gateJob'[h] = GateIdle
                               /\ row[gateJob[h].token].target = row[t].target
                               /\ row[gateJob[h].token].tool = row[t].tool]_gateVars
  BY DEF LeavesForAReason
<1> QED BY <1>1, <1>2, GateStart, PTL DEF GateSpec, LiveUntilFired

-----------------------------------------------------------------------------
(* Timers, webhooks and workspace-open (TriggerScheduler).                 *)

\* The entries were registered one after the other.
Contiguous(table) == \E m \in 0 .. MaxEntries : \A e \in Entries : table[e].agent # 0 <=> e <= m

LiveOnce(table) == \A d, e \in Entries :
    /\ table[d].live /\ table[e].live
    /\ table[d].agent = table[e].agent /\ table[d].kind = table[e].kind
    => d = e

LiveEnabled(table, dis) == \A e \in Entries :
    /\ table[e].armed <=> table[e].live /\ table[e].kind = "cron"
    /\ table[e].live => table[e].agent # 0 /\ <<table[e].agent, table[e].kind>> \notin dis

TableOK(table, dis) == /\ table \in [Entries -> EntryRecords]
                       /\ Contiguous(table)
                       /\ LiveOnce(table)
                       /\ LiveEnabled(table, dis)

\* The inductive invariant of TriggerScheduler.
TrigIInv == /\ TrigTypeOK
            /\ TableOK(entry, disabled)
            /\ \A e \in Entries : entry[e].live => started

\* What a contiguous table holds is an interval, whose size is its upper end.
LEMMA RegisteredCount ==
    ASSUME NEW table \in [Entries -> EntryRecords], Contiguous(table)
    PROVE  /\ Cardinality(registered(table)) \in 0 .. MaxEntries
           /\ \A e \in Entries : table[e].agent # 0 <=> e <= Cardinality(registered(table))
<1>1. PICK m \in 0 .. MaxEntries : \A e \in Entries : table[e].agent # 0 <=> e <= m
  BY DEF Contiguous
<1>2. registered(table) = 1 .. m
  BY <1>1, TriggerAssumption DEF registered, Entries
<1>3. Cardinality(1 .. m) = m
  <2>1. m \in Nat /\ m = (m - 1) + 1
    BY TriggerAssumption
  <2> QED BY <2>1, FS_Interval
<1> QED BY <1>1, <1>2, <1>3

\* clearAgent leaves no live entry of the agent and touches no other.
LEMMA ClearKeeps ==
    ASSUME NEW table, NEW dis, NEW after, TableOK(table, dis), NEW a \in TrigAgents,
           \A p \in dis \cup after : p[1] # a => (p \in dis <=> p \in after)
    PROVE  /\ TableOK(Cleared(table, a), after)
           /\ \A e \in Entries : Cleared(table, a)[e].agent = a => ~Cleared(table, a)[e].live
<1> DEFINE new == Cleared(table, a)
<1>1. table \in [Entries -> EntryRecords] /\ a # 0
  BY DEF TableOK, TrigAgents
<1>2. /\ new \in [Entries -> EntryRecords]
      /\ \A e \in Entries :
           /\ new[e].agent = table[e].agent /\ new[e].kind = table[e].kind
           /\ table[e].agent # a => new[e] = table[e]
           /\ table[e].agent = a => ~new[e].live /\ ~new[e].armed
  <2>1. 0 \in 0 .. MaxTicks + 1
    BY TriggerAssumption
  <2>2. \A e \in Entries : [table[e] EXCEPT !.live = FALSE, !.armed = FALSE, !.fired = 0] \in EntryRecords
    BY <1>1, <2>1 DEF EntryRecords
  <2>3. \A e \in Entries : new[e] = IF table[e].agent = a
                 THEN [table[e] EXCEPT !.live = FALSE, !.armed = FALSE, !.fired = 0] ELSE table[e]
    BY DEF Cleared
  <2>4. new \in [Entries -> EntryRecords]
    BY <1>1, <2>2 DEF Cleared
  <2>5. \A e \in Entries : table[e] \in EntryRecords
    BY <1>1
  <2> HIDE DEF new
  <2> QED BY <2>3, <2>4, <2>5 DEF EntryRecords
<1>3. Contiguous(table) /\ LiveOnce(table) /\ LiveEnabled(table, dis)
  BY DEF TableOK
<1> HIDE DEF new
<1>4. Contiguous(new)
  BY <1>2, <1>3 DEF Contiguous
<1>5. LiveOnce(new)
  BY <1>2, <1>3 DEF LiveOnce
<1>6. LiveEnabled(new, after)
  <2> SUFFICES ASSUME NEW e \in Entries
               PROVE  /\ new[e].armed <=> new[e].live /\ new[e].kind = "cron"
                      /\ new[e].live => new[e].agent # 0 /\ <<new[e].agent, new[e].kind>> \notin after
    BY DEF LiveEnabled
  <2>1. CASE table[e].agent = a
    BY <1>2, <2>1
  <2>2. CASE table[e].agent # a
    BY <1>2, <1>3, <2>2 DEF LiveEnabled
  <2> QED BY <2>1, <2>2
<1> QED BY <1>2, <1>4, <1>5, <1>6 DEF TableOK, new

\* registerAgent keeps the table, when no entry of the agent is live.
LEMMA RegisterKeeps ==
    ASSUME NEW table, NEW dis, TableOK(table, dis), NEW a \in TrigAgents,
           \A e \in Entries : table[e].agent = a => ~table[e].live
    PROVE  /\ TableOK(Registered(table, a, dis), dis)
           /\ \A e \in Entries : \/ Registered(table, a, dis)[e] = table[e]
                                 \/ Registered(table, a, dis)[e].agent = a
<1> DEFINE new == Registered(table, a, dis)
           n == Cardinality(registered(table))
           len == Len(Triggers[a])
<1>1. /\ table \in [Entries -> EntryRecords] /\ a # 0 /\ a \in 0 .. NTrigAgents
      /\ Contiguous(table) /\ LiveOnce(table) /\ LiveEnabled(table, dis)
  BY TriggerAssumption DEF TableOK, TrigAgents, NTrigAgents
<1>2. n \in 0 .. MaxEntries /\ \A e \in Entries : table[e].agent # 0 <=> e <= n
  BY <1>1, RegisteredCount
<1>3. /\ len \in Nat /\ \A i \in 1 .. len : Triggers[a][i] \in Kinds
      /\ \A i, j \in 1 .. len : Triggers[a][i] = Triggers[a][j] => i = j
  <2>1. Triggers[a] \in Seq(Kinds) /\ a \in 1 .. Len(Triggers)
    BY TriggerAssumption DEF TrigAgents, NTrigAgents
  <2> QED BY <2>1, TriggerAssumption
<1> DEFINE added == {e \in Entries : e \in n + 1 .. n + len}
           line(e) == [agent |-> a, kind |-> Triggers[a][e - n],
                      live |-> enabled(a, Triggers[a][e - n], dis),
                      armed |-> enabled(a, Triggers[a][e - n], dis) /\ Triggers[a][e - n] = "cron",
                      fired |-> 0]
<1>4. \A e \in Entries : new[e] = IF e \in added THEN line(e) ELSE table[e]
  BY DEF Registered
<1>5. \A e \in added : /\ e \in Entries /\ e - n \in 1 .. len /\ ~(e <= n)
                       /\ line(e) \in EntryRecords
  <2>1. \A e \in added : e \in Entries /\ e - n \in 1 .. len /\ ~(e <= n)
    BY <1>2, <1>3 DEF Entries
  <2>2. \A k \in Kinds : enabled(a, k, dis) \in BOOLEAN
    BY DEF enabled
  <2>3. \A e \in added : Triggers[a][e - n] \in Kinds
    BY <1>3, <2>1
  <2>4. 0 \in 0 .. MaxTicks + 1
    BY TriggerAssumption
  <2> QED BY <1>1, <2>1, <2>2, <2>3, <2>4 DEF EntryRecords
<1>6. \A e \in added : /\ line(e).agent = a /\ line(e).kind = Triggers[a][e - n]
                       /\ line(e).live = enabled(a, Triggers[a][e - n], dis)
                       /\ line(e).armed <=> line(e).live /\ line(e).kind = "cron"
  OBVIOUS
<1>7. new \in [Entries -> EntryRecords]
  BY <1>1, <1>4, <1>5 DEF Registered
<1>8. \A d, e \in added : d - n = e - n => d = e
  BY <1>2 DEF Entries
<1>14. \A e \in Entries : e \in added <=> n < e /\ e <= n + len
  BY <1>2, <1>3 DEF Entries
<1> HIDE DEF new, added, line
<1>9. Contiguous(new)
  <2> DEFINE m == IF n + len <= MaxEntries THEN n + len ELSE MaxEntries
  <2>1. m \in 0 .. MaxEntries
    BY <1>2, <1>3, TriggerAssumption
  <2>2. \A e \in Entries : e <= m <=> e <= n \/ e \in added
    BY <1>2, <1>3, <1>14, TriggerAssumption DEF Entries
  <2> HIDE DEF m
  <2>3. \A e \in Entries : new[e].agent # 0 <=> e <= n \/ e \in added
    BY <1>1, <1>2, <1>4, <1>6
  <2> QED BY <2>1, <2>2, <2>3 DEF Contiguous
<1>10. LiveOnce(new)
  <2> SUFFICES ASSUME NEW d \in Entries, NEW e \in Entries, new[d].live, new[e].live,
                      new[d].agent = new[e].agent, new[d].kind = new[e].kind
               PROVE  d = e
    BY DEF LiveOnce
  <2>1. CASE d \in added /\ e \in added
    <3>1. Triggers[a][d - n] = Triggers[a][e - n]
      BY <1>4, <1>6, <2>1
    <3>2. d - n \in 1 .. len /\ e - n \in 1 .. len
      BY <1>5, <2>1
    <3> QED BY <1>3, <1>8, <2>1, <3>1, <3>2
  <2>2. CASE d \notin added /\ e \notin added
    BY <1>1, <1>4, <2>2 DEF LiveOnce
  <2>3. CASE d \in added /\ e \notin added
    BY <1>4, <1>6, <2>3
  <2>4. CASE d \notin added /\ e \in added
    BY <1>4, <1>6, <2>4
  <2> QED BY <2>1, <2>2, <2>3, <2>4
<1>11. LiveEnabled(new, dis)
  <2> SUFFICES ASSUME NEW e \in Entries
               PROVE  /\ new[e].armed <=> new[e].live /\ new[e].kind = "cron"
                      /\ new[e].live => new[e].agent # 0 /\ <<new[e].agent, new[e].kind>> \notin dis
    BY DEF LiveEnabled
  <2>1. CASE e \in added
    BY <1>1, <1>4, <1>6, <2>1 DEF enabled
  <2>2. CASE e \notin added
    BY <1>1, <1>4, <2>2 DEF LiveEnabled
  <2> QED BY <2>1, <2>2
<1>12. \A e \in Entries : new[e] = table[e] \/ new[e].agent = a
  BY <1>4, <1>6
<1>13. TableOK(new, dis)
  BY <1>7, <1>9, <1>10, <1>11 DEF TableOK
<1> QED BY <1>12, <1>13 DEF new

\* What the start of the scheduler has registered after the first a agents.
RegisteredFrom(f, m) ==
    f = [a \in 0 .. m |-> IF a = 0 THEN entry ELSE Registered(f[a - 1], a, disabled)]

\* RegisteredAll is a recursive function: it exists, by the least agent for which it
\* would not.
LEMMA RegisteredExists == ASSUME NEW m \in Nat PROVE \E f : RegisteredFrom(f, m)
<1> DEFINE Bad == {n \in Nat : ~\E f : RegisteredFrom(f, n)}
<1>1. SUFFICES ASSUME Bad # {} PROVE FALSE
  OBVIOUS
<1>2. PICK n \in Bad : \A k \in Bad : n <= k
  <2>1. Bad \in SUBSET Nat
    OBVIOUS
  <2> HIDE DEF Bad
  <2> QED BY <1>1, <2>1, LeastNat
<1>3. CASE n = 0
  <2> DEFINE f == [a \in 0 .. 0 |-> entry]
  <2>1. f = [a \in 0 .. 0 |-> IF a = 0 THEN entry ELSE Registered(f[a - 1], a, disabled)]
    OBVIOUS
  <2> QED BY <1>2, <1>3, <2>1 DEF RegisteredFrom
<1>4. CASE n # 0
  <2>1. n \in Nat /\ n - 1 \in Nat /\ ~(n <= n - 1)
    BY <1>4
  <2>2. PICK f : RegisteredFrom(f, n - 1)
    BY <1>2, <2>1
  <2> DEFINE g == [a \in 0 .. n |-> IF a = n THEN Registered(f[n - 1], n, disabled) ELSE f[a]]
             h == [a \in 0 .. n |-> IF a = 0 THEN entry ELSE Registered(g[a - 1], a, disabled)]
  <2>3. \A a \in 0 .. n : g[a] = h[a]
    <3> SUFFICES ASSUME NEW a \in 0 .. n PROVE g[a] = h[a]
      OBVIOUS
    <3>1. CASE a = n
      <4>1. n - 1 \in 0 .. n /\ n - 1 # n /\ n \in 0 .. n
        BY <2>1
      <4>2. g[n - 1] = f[n - 1]
        BY <4>1
      <4>3. g[n] = Registered(f[n - 1], n, disabled)
        BY <4>1
      <4>4. h[n] = Registered(g[n - 1], n, disabled)
        BY <1>4, <4>1
      <4> QED BY <3>1, <4>2, <4>3, <4>4
    <3>2. CASE a # n
      <4>1. a \in 0 .. n - 1 /\ (a # 0 => a - 1 \in 0 .. n /\ a - 1 # n)
        BY <2>1, <3>2
      <4>2. f[a] = IF a = 0 THEN entry ELSE Registered(f[a - 1], a, disabled)
        BY <2>2, <4>1 DEF RegisteredFrom
      <4>3. g[a] = f[a]
        BY <3>2
      <4>4. a # 0 => g[a - 1] = f[a - 1]
        BY <4>1
      <4> QED BY <4>2, <4>3, <4>4
    <3> QED BY <3>1, <3>2
  <2>4. g = h
    BY <2>3
  <2>5. RegisteredFrom(g, n)
    BY <2>4 DEF RegisteredFrom
  <2> QED BY <1>2, <2>5
<1> QED BY <1>3, <1>4

\* Starting from a table without a live entry, the start registers every agent once.
LEMMA StartKeeps ==
    ASSUME TrigIInv, ~started
    PROVE  TableOK(RegisteredAll, disabled)
<1> DEFINE upTo == CHOOSE f : RegisteredFrom(f, NTrigAgents)
<1>1. NTrigAgents \in Nat
  BY TriggerAssumption DEF NTrigAgents
<1>2. /\ RegisteredFrom(upTo, NTrigAgents)
      /\ RegisteredAll = upTo[NTrigAgents]
  BY <1>1, RegisteredExists DEF RegisteredAll, RegisteredFrom
<1> HIDE DEF upTo
<1>3. /\ upTo[0] = entry
      /\ \A a \in TrigAgents : upTo[a] = Registered(upTo[a - 1], a, disabled)
  BY <1>1, <1>2 DEF RegisteredFrom, TrigAgents
<1> DEFINE Good(a) == /\ TableOK(upTo[a], disabled)
                      /\ \A e \in Entries : upTo[a][e].live => upTo[a][e].agent <= a
           Bad == {a \in 0 .. NTrigAgents : ~Good(a)}
<1>4. Good(0)
  BY <1>3 DEF TrigIInv
<1>5. ASSUME NEW a \in TrigAgents, Good(a - 1) PROVE Good(a)
  <2>1. a \in Nat /\ a # 0 /\ a - 1 \in Nat /\ ~(a <= a - 1)
    BY <1>1 DEF TrigAgents
  <2>2. \A e \in Entries : upTo[a - 1][e].agent = a => ~upTo[a - 1][e].live
    BY <1>5, <2>1
  <2>3. TableOK(upTo[a - 1], disabled)
    BY <1>5
  <2>4. /\ TableOK(upTo[a], disabled)
        /\ \A e \in Entries : upTo[a][e] = upTo[a - 1][e] \/ upTo[a][e].agent = a
    BY <1>3, <2>2, <2>3, RegisterKeeps
  <2>5. \A e \in Entries : upTo[a - 1][e].agent \in Nat
    BY <1>1, <2>3 DEF TableOK, EntryRecords
  <2>6. \A e \in Entries : upTo[a][e].live => upTo[a][e].agent <= a
    BY <1>5, <2>1, <2>4, <2>5
  <2> QED BY <2>4, <2>6
<1>6. Bad = {}
  <2> SUFFICES ASSUME Bad # {} PROVE FALSE
    OBVIOUS
  <2>1. PICK n \in Bad : \A k \in Bad : n <= k
    <3>1. Bad \in SUBSET Nat
      BY <1>1
    <3> HIDE DEF Bad
    <3> QED BY <3>1, LeastNat
  <2>2. n # 0 /\ n \in 0 .. NTrigAgents /\ ~Good(n)
    BY <1>4, <2>1
  <2>3. n \in TrigAgents /\ n - 1 \in 0 .. NTrigAgents /\ ~(n <= n - 1)
    BY <1>1, <2>2 DEF TrigAgents
  <2>4. Good(n - 1)
    BY <2>1, <2>3
  <2> HIDE DEF Good
  <2> QED BY <1>5, <2>2, <2>3, <2>4
<1>7. Good(NTrigAgents)
  BY <1>1, <1>6
<1> QED BY <1>2, <1>7

\* The scheduler starts in its invariant.
LEMMA TrigStart == TrigInit => TrigIInv
<1> SUFFICES ASSUME TrigInit PROVE TrigIInv
  OBVIOUS
<1>1. NTrigAgents \in Nat
  BY TriggerAssumption DEF NTrigAgents
<1>2. NoEntry \in EntryRecords
  BY <1>1, TriggerAssumption DEF NoEntry, EntryRecords, Kinds
<1>3. NoFire \in FireStates
  BY TriggerAssumption DEF NoFire, FireStates, Kinds
<1>4. TrigTypeOK
  <2>1. 0 \in 0 .. MaxTicks
    BY TriggerAssumption
  <2> QED BY <1>2, <1>3, <2>1 DEF TrigInit, TrigTypeOK
<1>5. \A e \in Entries : entry[e].agent = 0 /\ ~entry[e].live /\ ~entry[e].armed
  BY DEF TrigInit, NoEntry
<1>6. Contiguous(entry)
  <2>1. 0 \in 0 .. MaxEntries /\ \A e \in Entries : ~(e <= 0)
    BY TriggerAssumption DEF Entries
  <2> QED BY <1>5, <2>1 DEF Contiguous
<1> QED BY <1>2, <1>4, <1>5, <1>6 DEF TrigIInv, TableOK, LiveOnce, LiveEnabled, TrigInit

\* What a change of single fields of the entries keeps: the rows stay, and what is
\* live stays so.
LEMMA EntryTouched ==
    ASSUME TrigIInv, NEW table \in [Entries -> EntryRecords],
           \A e \in Entries : /\ table[e].agent = entry[e].agent
                              /\ table[e].kind = entry[e].kind
                              /\ table[e].live = entry[e].live
                              /\ table[e].armed = entry[e].armed
    PROVE  TableOK(table, disabled)
<1>1. TableOK(entry, disabled)
  BY DEF TrigIInv
<1>2. Contiguous(table)
  BY <1>1 DEF TableOK, Contiguous
<1>3. LiveOnce(table)
  BY <1>1 DEF TableOK, LiveOnce
<1>4. LiveEnabled(table, disabled)
  BY <1>1 DEF TableOK, LiveEnabled
<1> QED BY <1>2, <1>3, <1>4 DEF TableOK

\* The effect of a reload on the entries, for the overrides that the workspace has
\* afterwards.
LEMMA ReloadKeeps ==
    ASSUME TrigIInv, NEW a \in TrigAgents, NEW dis \in SUBSET (TrigAgents \X Kinds),
           \A p \in disabled \cup dis : p[1] # a => (p \in disabled <=> p \in dis),
           reload(a, dis)
    PROVE  /\ TableOK(entry', dis)
           /\ \A e \in Entries : entry'[e].live => started
           /\ fire' \in [Fires -> FireStates]
           /\ \A r \in Fires : fire'[r].at = fire[r].at
<1> DEFINE cl == Cleared(entry, a)
<1>1. /\ TableOK(cl, dis)
      /\ \A e \in Entries : cl[e].agent = a => ~cl[e].live
  BY ClearKeeps DEF TrigIInv
<1>2. \A e \in Entries : cl[e].live => entry[e].live
  BY DEF Cleared
<1> HIDE DEF cl
<1>3. TableOK(entry', dis) /\ \A e \in Entries : entry'[e].live => started
  <2>1. CASE started
    <3>1. entry' = Registered(cl, a, dis)
      BY <2>1 DEF reload, cl
    <3> QED BY <1>1, <2>1, <3>1, RegisterKeeps
  <2>2. CASE ~started
    <3>1. entry' = cl
      BY <2>2 DEF reload, cl
    <3> QED BY <1>1, <1>2, <3>1 DEF TrigIInv
  <2> QED BY <2>1, <2>2
<1>4. /\ fire' \in [Fires -> FireStates]
      /\ \A r \in Fires : fire'[r].at = fire[r].at
  <2>1. fire \in [Fires -> FireStates] /\ fire' = orphaned({a})
    BY DEF TrigIInv, TrigTypeOK, reload
  <2>2. \A r \in Fires : fire[r] \in FireStates
    BY <2>1
  <2>3. \A r \in Fires : /\ [fire[r] EXCEPT !.over = TRUE] \in FireStates
                         /\ [fire[r] EXCEPT !.over = TRUE].at = fire[r].at
    BY <2>2 DEF FireStates
  <2>4. \A r \in Fires : fire'[r] = fire[r] \/ fire'[r] = [fire[r] EXCEPT !.over = TRUE]
    BY <2>1 DEF orphaned
  <2>5. fire' \in [Fires -> FireStates]
    BY <2>1, <2>2, <2>3, <2>4 DEF orphaned
  <2>6. \A r \in Fires : fire'[r].at = fire[r].at
    BY <2>3, <2>4
  <2> QED BY <2>5, <2>6
<1> QED BY <1>3, <1>4

\* Who begins a dispatch, and of which entry.
Dispatches(e) == \E r \in Fires : fire[r].at # "dispatch" /\ fire'[r].at = "dispatch" /\ fire'[r].entry = e

\* An entry may be dispatched.
Due(e) == /\ started /\ entry[e].live
          /\ <<entry[e].agent, entry[e].kind>> \notin disabled
          /\ entry[e].agent \notin deleted

\* Every step keeps it, and what begins to dispatch is due.
LEMMA TrigStep ==
    ASSUME TrigIInv, [TrigNext]_trigVars
    PROVE  TrigIInv' /\ \A e \in Entries : Dispatches(e) => Due(e)
<1> USE DEF TrigIInv
<1>0. /\ TrigTypeOK /\ entry \in [Entries -> EntryRecords] /\ fire \in [Fires -> FireStates]
      /\ now \in 0 .. MaxTicks /\ disabled \subseteq TrigAgents \X Kinds
      /\ LiveOnce(entry) /\ LiveEnabled(entry, disabled) /\ Contiguous(entry)
  BY DEF TrigTypeOK, TableOK
<1>1. CASE UNCHANGED trigVars
  BY <1>1 DEF trigVars, TrigTypeOK, TableOK, Contiguous, LiveOnce, LiveEnabled, Dispatches
<1>2. CASE SchedulerStarts
  <2>1. TableOK(entry', disabled) /\ UNCHANGED <<now, disabled, deleted, guardFile, fire>> /\ started'
    BY <1>2, StartKeeps DEF SchedulerStarts
  <2>2. TrigTypeOK'
    BY <1>0, <2>1 DEF TrigTypeOK, TableOK
  <2> QED BY <2>1, <2>2 DEF Dispatches
<1>3. CASE SchedulerStops
  <2>1. /\ UNCHANGED <<now, disabled, deleted, guardFile, fire>> /\ started' = FALSE
        /\ entry' = [e \in Entries |-> [entry[e] EXCEPT !.live = FALSE, !.armed = FALSE, !.fired = 0]]
    BY <1>3 DEF SchedulerStops
  <2>2. \A e \in Entries : /\ [entry[e] EXCEPT !.live = FALSE, !.armed = FALSE, !.fired = 0] \in EntryRecords
                           /\ entry'[e] = [entry[e] EXCEPT !.live = FALSE, !.armed = FALSE, !.fired = 0]
    <3>1. 0 \in 0 .. MaxTicks + 1 /\ \A e \in Entries : entry[e] \in EntryRecords
      BY <1>0, TriggerAssumption
    <3> QED BY <2>1, <3>1 DEF EntryRecords
  <2>3. entry' \in [Entries -> EntryRecords]
    BY <2>1, <2>2
  <2>4. \A e \in Entries : /\ entry'[e].agent = entry[e].agent
                           /\ ~entry'[e].live /\ ~entry'[e].armed
    <3>1. \A e \in Entries : entry[e] \in EntryRecords
      BY <1>0
    <3> QED BY <2>2, <3>1 DEF EntryRecords
  <2>5. TableOK(entry', disabled)
    <3>1. Contiguous(entry')
      BY <1>0, <2>4 DEF Contiguous
    <3>2. LiveOnce(entry') /\ LiveEnabled(entry', disabled)
      BY <2>4 DEF LiveOnce, LiveEnabled
    <3> QED BY <2>3, <3>1, <3>2 DEF TableOK
  <2>6. TrigTypeOK'
    BY <1>0, <2>1, <2>3 DEF TrigTypeOK
  <2> QED BY <2>1, <2>4, <2>5, <2>6 DEF Dispatches
<1>4. CASE GuardFileAppears
  BY <1>0, <1>4 DEF GuardFileAppears, TrigTypeOK, TableOK, Contiguous, LiveOnce, LiveEnabled, Dispatches
<1>5. CASE Tick
  <2>1. now' \in 0 .. MaxTicks
    BY <1>0, <1>5, TriggerAssumption DEF Tick
  <2> QED BY <1>0, <1>5, <2>1 DEF Tick, TrigTypeOK, Dispatches
<1>6. ASSUME NEW a \in TrigAgents, RoleChanges(a)
      PROVE  TrigIInv' /\ \A e \in Entries : Dispatches(e) => Due(e)
  <2>1. reload(a, disabled) /\ UNCHANGED <<started, now, disabled, deleted, guardFile>>
    BY <1>6 DEF RoleChanges
  <2>2. /\ TableOK(entry', disabled) /\ \A e \in Entries : entry'[e].live => started
        /\ fire' \in [Fires -> FireStates] /\ \A r \in Fires : fire'[r].at = fire[r].at
    BY <1>0, <2>1, ReloadKeeps
  <2>3. TrigTypeOK'
    BY <1>0, <2>1, <2>2 DEF TrigTypeOK, TableOK
  <2> QED BY <2>1, <2>2, <2>3 DEF Dispatches
<1>7. ASSUME NEW a \in TrigAgents, AgentDeleted(a)
      PROVE  TrigIInv' /\ \A e \in Entries : Dispatches(e) => Due(e)
  BY <1>0, <1>7 DEF AgentDeleted, TrigTypeOK, Dispatches
<1>8. ASSUME NEW a \in TrigAgents, NEW D \in SUBSET Declared(a), OverridesChange(a, D)
      PROVE  TrigIInv' /\ \A e \in Entries : Dispatches(e) => Due(e)
  <2> DEFINE dis == {p \in disabled : p[1] # a} \cup ({a} \X D)
  <2>1. reload(a, dis) /\ disabled' = dis /\ UNCHANGED <<started, now, deleted, guardFile>>
    BY <1>8 DEF OverridesChange
  <2>2. D \subseteq Kinds
    <3>1. Triggers[a] \in Seq(Kinds)
      BY TriggerAssumption DEF TrigAgents, NTrigAgents
    <3> QED BY <3>1 DEF Declared, ToSet
  <2>3. dis \in SUBSET (TrigAgents \X Kinds)
    BY <1>0, <2>2
  <2>4. \A p \in disabled \cup dis : p[1] # a => (p \in disabled <=> p \in dis)
    OBVIOUS
  <2> HIDE DEF dis
  <2>5. /\ TableOK(entry', dis) /\ \A e \in Entries : entry'[e].live => started
        /\ fire' \in [Fires -> FireStates] /\ \A r \in Fires : fire'[r].at = fire[r].at
    BY <2>1, <2>3, <2>4, ReloadKeeps
  <2>6. TrigTypeOK'
    BY <1>0, <2>1, <2>3, <2>5 DEF TrigTypeOK, TableOK
  <2> QED BY <2>1, <2>5, <2>6 DEF Dispatches
<1>9. ASSUME NEW r \in Fires, NEW e \in Entries, CronFires(r, e)
      PROVE  TrigIInv' /\ \A d \in Entries : Dispatches(d) => Due(d)
  <2> DEFINE f == [NoFire EXCEPT !.at = "dispatch", !.kind = "cron", !.entry = e]
  <2>1. /\ entry[e].armed /\ entry[e].agent \notin deleted /\ fire' = [fire EXCEPT ![r] = f]
        /\ entry' = [entry EXCEPT ![e].armed = started /\ entry[e].live]
        /\ UNCHANGED <<started, now, disabled, deleted, guardFile>>
    BY <1>9 DEF CronFires
  <2>2. entry[e].live /\ started /\ <<entry[e].agent, entry[e].kind>> \notin disabled
    BY <1>0, <2>1 DEF LiveEnabled
  <2>3. /\ entry' \in [Entries -> EntryRecords]
        /\ \A d \in Entries : /\ entry'[d].agent = entry[d].agent /\ entry'[d].kind = entry[d].kind
                              /\ entry'[d].live = entry[d].live /\ entry'[d].armed = entry[d].armed
    BY <1>0, <2>1, <2>2 DEF EntryRecords
  <2>4. TableOK(entry', disabled)
    BY <2>3, EntryTouched
  <2>5. f \in FireStates /\ f.entry = e /\ f.at = "dispatch"
    <3>1. 0 \in 0 .. MaxTicks /\ e \in 0 .. MaxEntries
      BY TriggerAssumption DEF Entries
    <3> QED BY <3>1 DEF NoFire, FireStates, Kinds
  <2> HIDE DEF f
  <2>6. fire' \in [Fires -> FireStates] /\ fire'[r] = f /\ \A q \in Fires \ {r} : fire'[q] = fire[q]
    BY <1>0, <2>1, <2>5
  <2>7. TrigTypeOK'
    BY <1>0, <2>1, <2>3, <2>6 DEF TrigTypeOK
  <2>8. \A d \in Entries : Dispatches(d) => d = e
    BY <2>5, <2>6 DEF Dispatches
  <2> QED BY <2>1, <2>2, <2>3, <2>4, <2>7, <2>8 DEF Due
<1>10. ASSUME NEW r \in Fires, Walk(r)
       PROVE  TrigIInv' /\ \A d \in Entries : Dispatches(d) => Due(d)
  <2> DEFINE e == Min(ahead(r))
             f == [fire[r] EXCEPT !.entry = e, !.at = IF passedOver(r, e) THEN "walk" ELSE "dispatch"]
  <2>1. UNCHANGED <<started, now, entry, disabled, deleted, guardFile>>
    BY <1>10 DEF Walk
  <2>2. CASE ahead(r) = {}
    <3>1. fire' = [fire EXCEPT ![r] = NoFire] /\ NoFire.at = "idle"
      BY <1>10, <2>2 DEF Walk, NoFire
    <3>2. NoFire \in FireStates
      BY TriggerAssumption DEF NoFire, FireStates, Kinds
    <3>3. TrigTypeOK'
      BY <1>0, <2>1, <3>1, <3>2 DEF TrigTypeOK
    <3>4. \A d \in Entries : ~Dispatches(d)
      BY <1>0, <3>1 DEF Dispatches
    <3> QED BY <2>1, <3>3, <3>4
  <2>3. CASE ahead(r) # {}
    <3>1. ahead(r) \in SUBSET Nat
      BY DEF ahead, live, Entries
    <3>2. e \in ahead(r)
      BY <2>3, <3>1, MinOf
    <3>3. e \in Entries /\ entry[e].live /\ started /\ <<entry[e].agent, entry[e].kind>> \notin disabled
      BY <1>0, <3>2 DEF ahead, live, LiveEnabled
    <3>4. fire' = [fire EXCEPT ![r] = f]
      BY <1>10, <2>3 DEF Walk
    <3>5. f \in FireStates /\ f.entry = e /\ (f.at = "dispatch" => entry[e].agent \notin deleted)
      <4>1. fire[r] \in FireStates /\ e \in 0 .. MaxEntries
        BY <1>0, <3>3 DEF Entries
      <4>2. ~passedOver(r, e) => entry[e].agent \notin deleted
        BY DEF passedOver
      <4> HIDE DEF e
      <4> QED BY <4>1, <4>2 DEF FireStates
    <3> HIDE DEF f, e
    <3>6. fire' \in [Fires -> FireStates] /\ fire'[r] = f /\ \A q \in Fires \ {r} : fire'[q] = fire[q]
      BY <1>0, <3>4, <3>5
    <3>7. TrigTypeOK'
      BY <1>0, <2>1, <3>6 DEF TrigTypeOK
    <3>8. \A d \in Entries : Dispatches(d) => d = e /\ f.at = "dispatch"
      BY <3>5, <3>6 DEF Dispatches
    <3> QED BY <2>1, <3>3, <3>5, <3>7, <3>8 DEF Due
  <2> QED BY <2>2, <2>3
<1>11. ASSUME NEW r \in Fires, Dispatched(r)
       PROVE  TrigIInv' /\ \A d \in Entries : Dispatches(d) => Due(d)
  <2>1. UNCHANGED <<started, now, disabled, deleted, guardFile>> /\ fire[r] \in FireStates
    BY <1>0, <1>11 DEF Dispatched
  <2>2. fire' \in [Fires -> FireStates] /\ \A q \in Fires : fire'[q].at = "dispatch" => fire[q].at = "dispatch"
    <3>1. NoFire \in FireStates /\ NoFire.at = "idle"
      BY TriggerAssumption DEF NoFire, FireStates, Kinds
    <3>2. [fire[r] EXCEPT !.at = "walk"] \in FireStates /\ [fire[r] EXCEPT !.at = "walk"].at = "walk"
      BY <2>1 DEF FireStates
    <3>3. \/ fire' = [fire EXCEPT ![r] = NoFire]
          \/ fire' = [fire EXCEPT ![r] = [fire[r] EXCEPT !.at = "walk"]]
      BY <1>0, <1>11 DEF Dispatched
    <3> QED BY <1>0, <3>1, <3>2, <3>3
  <2>3. /\ entry' \in [Entries -> EntryRecords]
        /\ \A d \in Entries : /\ entry'[d].agent = entry[d].agent /\ entry'[d].kind = entry[d].kind
                              /\ entry'[d].live = entry[d].live /\ entry'[d].armed = entry[d].armed
    <3>1. CASE entry' = entry
      BY <1>0, <3>1
    <3>2. CASE /\ fire[r].kind = "workspace-open" /\ entry[fire[r].entry].live
               /\ entry' = [entry EXCEPT ![fire[r].entry].fired = fire[r].now + 1]
      <4>1. fire[r].now + 1 \in 0 .. MaxTicks + 1
        BY <2>1, TriggerAssumption DEF FireStates
      <4> DEFINE x == fire[r].entry
                 t == fire[r].now + 1
      <4>2. entry' = [entry EXCEPT ![x].fired = t] /\ t \in 0 .. MaxTicks + 1
        BY <3>2, <4>1
      <4> HIDE DEF x, t
      <4> QED BY <1>0, <4>2 DEF EntryRecords
    <3> QED BY <1>11, <3>1, <3>2 DEF Dispatched
  <2>4. TableOK(entry', disabled)
    BY <2>3, EntryTouched
  <2>5. TrigTypeOK'
    BY <1>0, <2>1, <2>2, <2>3 DEF TrigTypeOK
  <2> QED BY <2>1, <2>2, <2>3, <2>4, <2>5 DEF Dispatches
<1>12. ASSUME NEW r \in Fires, NEW kind \in Kinds \ {"cron"}, Fire(r, kind)
       PROVE  TrigIInv' /\ \A d \in Entries : Dispatches(d) => Due(d)
  <2> DEFINE f == [at |-> "walk", kind |-> kind, entry |-> 0, now |-> now, over |-> FALSE]
  <2>1. UNCHANGED <<started, now, entry, disabled, deleted, guardFile>> /\ fire' = [fire EXCEPT ![r] = f]
    BY <1>12 DEF Fire
  <2>2. f \in FireStates /\ f.at = "walk"
    BY <1>0, <1>12, TriggerAssumption DEF FireStates
  <2> HIDE DEF f
  <2>3. TrigTypeOK'
    BY <1>0, <2>1, <2>2 DEF TrigTypeOK
  <2>4. \A d \in Entries : ~Dispatches(d)
    BY <1>0, <2>1, <2>2 DEF Dispatches
  <2> QED BY <2>1, <2>3, <2>4
<1> QED BY <1>1, <1>2, <1>3, <1>4, <1>5, <1>6, <1>7, <1>8, <1>9, <1>10, <1>11, <1>12 DEF TrigNext

\* Every enabled trigger has one entry and every live cron entry one timer, and
\* nothing that was cleared or disabled keeps either, whatever the triggers of the
\* roles, the reloads and the fires under way.
THEOREM TimersMatchEntries == TrigSpec => []OneTimerEach
<1>1. TrigInit => TrigIInv
  BY TrigStart
<1>2. TrigIInv /\ [TrigNext]_trigVars => TrigIInv'
  BY TrigStep
<1>3. TrigIInv => OneTimerEach
  BY DEF TrigIInv, TableOK, LiveOnce, LiveEnabled, OneTimerEach
<1> QED BY <1>1, <1>2, <1>3, PTL DEF TrigSpec

\* No dispatch begins for an entry that was cleared while the fire was walking, nor
\* for a trigger disabled or an agent deleted meanwhile.
THEOREM ClearedIsNotDispatched == TrigSpec => NoDispatchCleared
<1>1. TrigInit => TrigIInv
  BY TrigStart
<1>2. TrigIInv /\ [TrigNext]_trigVars => TrigIInv' /\ [\A e \in Entries : Dispatches(e) => Due(e)]_trigVars
  BY TrigStep
<1>3. [\A e \in Entries : Dispatches(e) => Due(e)]_trigVars =>
      [\A e \in Entries :
        (\E r \in Fires : fire[r].at # "dispatch" /\ fire'[r].at = "dispatch" /\ fire'[r].entry = e)
        => /\ started /\ entry[e].live
           /\ <<entry[e].agent, entry[e].kind>> \notin disabled
           /\ entry[e].agent \notin deleted]_trigVars
  BY DEF Dispatches, Due
<1> QED BY <1>1, <1>2, <1>3, PTL DEF TrigSpec, NoDispatchCleared

-----------------------------------------------------------------------------
(* What a session is embodied with (Embodiment).                           *)

\* The op-level layer that session s comes back with.
opOf(s, f, F) == IF s \in F THEN FALSE ELSE f[s].op

SameLayers(x, s, f, F) ==
    x.version = f[s].version /\ x.program = f[s].program /\ x.op = opOf(s, f, F)

\* What workspace and role allow now was recorded.
TierNow == perms \cap versions[Tip].allow \in tiers

\* A spawn is alone with its session, which has no row yet; a resume embodies what
\* the session was spawned with; and the rows that either has read are of one moment.
JobFits(j) ==
    /\ embJob[j].at # "idle" =>
         /\ embJob[j].with.version \in 1 .. Tip /\ embJob[j].tip \in 1 .. Tip
         /\ embJob[j].perms \cap versions[embJob[j].tip].allow \in tiers
    /\ embJob[j].at \in {"attach", "resume"} =>
         /\ resolves(embJob[j].with.version, embJob[j].with.program)
         /\ \E T \in tiers : embJob[j].scope \subseteq T
    /\ embJob[j].at = "attach" =>
         /\ sess[embJob[j].s].st = "none"
         /\ \A i \in EmbJobs \ {j} : embJob[i].at # "idle" => embJob[i].s # embJob[j].s
    /\ embJob[j].at \in {"repair", "resume"} =>
         sess[embJob[j].s].st # "none" /\ SameLayers(embJob[j].with, embJob[j].s, first, forgot)

\* The row of a session says what it was spawned with, its token holds commands of
\* one moment, and its child agrees with both.
SessFits(s) ==
    /\ sess[s].st = "none" => s \notin forgot
    /\ sess[s].st # "none" =>
         /\ first[s].version \in 1 .. Tip
         /\ first[s].version = sess[s].pin /\ first[s].program = sess[s].program
         /\ sess[s].op = opOf(s, first, forgot)
         /\ sess[s].baked => \E T \in tiers : sess[s].scope \subseteq T
    /\ child[s].on =>
         /\ sess[s].st # "none"
         /\ resolves(child[s].with.version, child[s].with.program)
         /\ SameLayers(child[s].with, s, first, forgot)
         /\ sess[s].dial = child[s].dial

\* The inductive invariant of Embodiment.
EmbIInv == /\ EmbTypeOK
           /\ Tip <= edits + 1
           /\ TierNow
           /\ \A j \in EmbJobs : JobFits(j)
           /\ \A s \in EmbSessions : SessFits(s)

\* The values that stand for nothing have their types.
LEMMA NullsTyped ==
    /\ NoDials \in DialSettings /\ NoLayers \in Layers /\ NoSess \in SessRows
    /\ NoProc \in Incarnations /\ IdleJob \in EmbJobStates /\ IdleJob.at = "idle"
    /\ MaxVersions \in Nat
<1>1. NoDials \in DialSettings
  BY DEF NoDials, DialSettings
<1>2. MaxVersions \in Nat /\ 0 \in 0 .. MaxVersions
  BY EmbodimentAssumption DEF MaxVersions
<1>3. NoLayers \in Layers
  BY <1>2 DEF NoLayers, Layers, WakePrograms
<1>4. NoSess \in SessRows
  BY <1>1, <1>2 DEF NoSess, SessRows, WakePrograms
<1>5. (CHOOSE s \in EmbSessions : TRUE) \in EmbSessions
  BY EmbodimentAssumption
<1>6. IdleJob \in EmbJobStates /\ IdleJob.at = "idle"
  BY <1>1, <1>2, <1>3, <1>5 DEF IdleJob, EmbJobStates
<1>7. NoProc \in Incarnations
  BY <1>1, <1>3 DEF NoProc, Incarnations
<1> QED BY <1>1, <1>2, <1>3, <1>4, <1>6, <1>7

\* Embodiment starts in its invariant.
LEMMA EmbStart == EmbInit => EmbIInv
<1> SUFFICES ASSUME EmbInit PROVE EmbIInv
  OBVIOUS
<1>1. PICK A \in SUBSET Verbs : versions = <<[allow |-> A, task |-> TRUE]>> /\ tiers = {A}
  BY DEF EmbInit
<1>2. PICK legacy \in BOOLEAN :
         sess = [s \in EmbSessions |->
                   IF legacy THEN [NoSess EXCEPT !.st = "live", !.pin = 1] ELSE NoSess]
  BY DEF EmbInit
<1>3. /\ versions \in Seq([allow: SUBSET Verbs, task: BOOLEAN]) /\ Len(versions) = 1
      /\ versions[1] = [allow |-> A, task |-> TRUE]
  BY <1>1
<1>4. 1 \in 0 .. MaxVersions /\ 1 \in 1 .. MaxVersions
  BY EmbodimentAssumption DEF MaxVersions
<1>5. \A s \in EmbSessions : /\ sess[s] \in SessRows /\ ~sess[s].baked
                             /\ sess[s].program = "idle" /\ sess[s].op = FALSE
                             /\ sess[s].st # "none" => sess[s].pin = 1
  <2>1. NoSess \in SessRows /\ [NoSess EXCEPT !.st = "live", !.pin = 1] \in SessRows
    BY <1>4, NullsTyped DEF SessRows
  <2> QED BY <1>2, <2>1 DEF NoSess
<1>6. \A s \in EmbSessions : /\ [NoLayers EXCEPT !.version = sess[s].pin] \in Layers
                             /\ first[s] = [NoLayers EXCEPT !.version = sess[s].pin]
                             /\ first[s].version = sess[s].pin
                             /\ first[s].program = "idle" /\ first[s].op = FALSE
  <2>1. \A s \in EmbSessions : sess[s].pin \in 0 .. MaxVersions
    BY <1>5 DEF SessRows
  <2>2. \A v \in 0 .. MaxVersions : /\ [NoLayers EXCEPT !.version = v] \in Layers
                                    /\ [NoLayers EXCEPT !.version = v].version = v
                                    /\ [NoLayers EXCEPT !.version = v].program = "idle"
                                    /\ [NoLayers EXCEPT !.version = v].op = FALSE
    BY DEF Layers, NoLayers, WakePrograms
  <2> QED BY <2>1, <2>2 DEF EmbInit
<1>7. /\ sess \in [EmbSessions -> SessRows] /\ first \in [EmbSessions -> Layers]
  BY <1>2, <1>5, <1>6 DEF EmbInit
<1>8. EmbTypeOK
  <2>1. perms \subseteq Verbs /\ turnLife \in BOOLEAN /\ edits = 0 /\ 0 \in 0 .. MaxEdits
    BY EmbodimentAssumption DEF EmbInit
  <2>2. /\ dflt \in DialSettings /\ child \in [EmbSessions -> Incarnations]
        /\ embJob \in [EmbJobs -> EmbJobStates]
    BY NullsTyped DEF EmbInit
  <2>3. forgot \subseteq EmbSessions
    BY DEF EmbInit
  <2> QED BY <1>1, <1>3, <1>4, <1>7, <2>1, <2>2, <2>3 DEF EmbTypeOK
<1>9. TierNow
  <2>1. perms \cap A = A
    BY DEF EmbInit
  <2> QED BY <1>1, <1>3, <2>1 DEF TierNow, Tip
<1>10. \A j \in EmbJobs : JobFits(j)
  BY NullsTyped DEF EmbInit, JobFits
<1>11. \A s \in EmbSessions : SessFits(s)
  <2> SUFFICES ASSUME NEW s \in EmbSessions PROVE SessFits(s)
    OBVIOUS
  <2>1. ~child[s].on
    BY DEF EmbInit, NoProc
  <2>2. sess[s].st # "none" => first[s].version \in 1 .. Tip
    <3>1. 1 \in 1 .. Tip
      BY <1>3 DEF Tip
    <3> QED BY <1>5, <1>6, <3>1
  <2>3. s \notin forgot
    BY DEF EmbInit
  <2> QED BY <1>5, <1>6, <2>1, <2>2, <2>3 DEF SessFits, opOf
<1>12. Tip <= edits + 1
  BY <1>3 DEF EmbInit, Tip
<1> QED BY <1>8, <1>9, <1>10, <1>11, <1>12 DEF EmbIInv

\* New commits and new tiers take nothing from what was said of the old ones.
LEMMA HistoryGrows ==
    ASSUME EmbIInv, EmbTypeOK', TierNow', Tip' <= edits' + 1, UNCHANGED <<sess, child, embJob, first, forgot>>,
           Len(versions) <= Len(versions'), tiers \subseteq tiers',
           \A v \in 1 .. Len(versions) : versions'[v] = versions[v]
    PROVE  EmbIInv'
<1>1. Tip \in Nat /\ Tip' \in Nat /\ \A v \in 1 .. Tip : v \in 1 .. Tip' /\ versions'[v] = versions[v]
  BY DEF EmbIInv, EmbTypeOK, Tip
<1>2. ASSUME NEW j \in EmbJobs PROVE JobFits(j)'
  <2>1. JobFits(j) /\ UNCHANGED <<embJob, sess, first, forgot>>
    BY DEF EmbIInv
  <2> QED BY <1>1, <2>1 DEF JobFits, resolves
<1>3. ASSUME NEW s \in EmbSessions PROVE SessFits(s)'
  <2>1. SessFits(s) /\ UNCHANGED <<sess, child, first, forgot>>
    BY DEF EmbIInv
  <2>2. child[s].on => child[s].with.version \in 1 .. Tip
    BY <2>1 DEF SessFits, SameLayers
  <2> QED BY <1>1, <2>1, <2>2 DEF SessFits, resolves
<1> QED BY <1>2, <1>3 DEF EmbIInv

\* A step of one spawn or resume that writes no row.
LEMMA JobMoves ==
    ASSUME EmbIInv, NEW j \in EmbJobs, NEW job \in EmbJobStates, embJob' = [embJob EXCEPT ![j] = job],
           UNCHANGED <<turnLife, perms, versions, dflt, sess, child, first, forgot, tiers, edits>>,
           \A i \in EmbJobs \ {j} : /\ embJob[i].at = "attach" /\ job.at # "idle" => job.s # embJob[i].s,
           JobFits(j)'
    PROVE  EmbIInv'
<1>1. embJob \in [EmbJobs -> EmbJobStates] /\ Tip' = Tip
  BY DEF EmbIInv, EmbTypeOK, Tip
<1>2. EmbTypeOK'
  BY <1>1 DEF EmbIInv, EmbTypeOK
<1>3. TierNow'
  BY <1>1 DEF EmbIInv, TierNow
<1>4. ASSUME NEW i \in EmbJobs PROVE JobFits(i)'
  <2>1. CASE i = j
    BY <2>1
  <2>2. CASE i # j
    <3>1. JobFits(i) /\ embJob'[i] = embJob[i] /\ embJob'[j] = job
      BY <1>1, <2>2 DEF EmbIInv
    <3>2. \A k \in EmbJobs \ {i, j} : embJob'[k] = embJob[k]
      BY <1>1
    <3>3. embJob[i].at = "attach" => \A k \in EmbJobs \ {i} : embJob'[k].at # "idle" => embJob'[k].s # embJob'[i].s
      BY <2>2, <3>1, <3>2 DEF JobFits
    <3> QED BY <1>1, <3>1, <3>3 DEF JobFits, resolves
  <2> QED BY <2>1, <2>2
<1>5. ASSUME NEW s \in EmbSessions PROVE SessFits(s)'
  BY <1>1 DEF EmbIInv, SessFits, resolves
<1>6. (Tip <= edits + 1)'
  BY <1>1 DEF EmbIInv
<1> QED BY <1>2, <1>3, <1>4, <1>5, <1>6 DEF EmbIInv

\* A step that writes the row of one session, its child or both, and ends at most
\* one spawn or resume.
LEMMA SessMoves ==
    ASSUME EmbIInv, EmbTypeOK', NEW s \in EmbSessions,
           UNCHANGED <<perms, versions, forgot, tiers>>, edits' = edits \/ edits' = edits + 1,
           \A r \in EmbSessions \ {s} : sess'[r] = sess[r] /\ child'[r] = child[r] /\ first'[r] = first[r],
           \A i \in EmbJobs : embJob'[i].at = "idle" \/ embJob'[i] = embJob[i],
           \A i \in EmbJobs : embJob'[i].at # "idle" /\ embJob'[i].s = s =>
               sess[s].st # "none" /\ sess'[s].st # "none" /\ first'[s] = first[s],
           SessFits(s)'
    PROVE  EmbIInv'
<1>1. Tip' = Tip /\ TierNow' /\ Tip' <= edits' + 1
  <2>1. Tip' = Tip /\ TierNow'
    BY DEF EmbIInv, TierNow, Tip
  <2>2. Tip \in Nat /\ edits \in Nat /\ Tip <= edits + 1
    BY DEF EmbIInv, EmbTypeOK, Tip
  <2> QED BY <2>1, <2>2
<1>2. ASSUME NEW i \in EmbJobs PROVE JobFits(i)'
  <2>1. CASE embJob'[i].at = "idle"
    BY <2>1 DEF JobFits
  <2>2. CASE embJob'[i].at # "idle"
    <3>1. embJob'[i] = embJob[i] /\ JobFits(i) /\ embJob[i].s \in EmbSessions
      BY <2>2 DEF EmbIInv, EmbTypeOK, EmbJobStates
    <3>2. /\ sess'[embJob[i].s].st = "none" <=> sess[embJob[i].s].st = "none"
          /\ first'[embJob[i].s] = first[embJob[i].s]
      BY <2>2, <3>1
    <3>3. embJob[i].at = "attach" => \A k \in EmbJobs \ {i} : embJob'[k].at # "idle" => embJob'[k].s # embJob'[i].s
      BY <3>1 DEF JobFits
    <3>4. embJob[i].at \in {"repair", "resume"} =>
             SameLayers(embJob[i].with, embJob[i].s, first', forgot')
      BY <3>1, <3>2 DEF JobFits, SameLayers, opOf
    <3> QED BY <1>1, <3>1, <3>2, <3>3, <3>4 DEF JobFits, resolves
  <2> QED BY <2>1, <2>2
<1>3. ASSUME NEW r \in EmbSessions PROVE SessFits(r)'
  <2>1. CASE r = s
    BY <2>1
  <2>2. CASE r # s
    <3>1. SessFits(r) /\ sess'[r] = sess[r] /\ child'[r] = child[r] /\ first'[r] = first[r]
      BY <2>2 DEF EmbIInv
    <3>2. opOf(r, first', forgot') = opOf(r, first, forgot)
      BY <3>1 DEF opOf
    <3>3. SameLayers(child[r].with, r, first, forgot) => SameLayers(child[r].with, r, first', forgot')
      BY <3>1, <3>2 DEF SameLayers
    <3> QED BY <1>1, <3>1, <3>2, <3>3 DEF SessFits, resolves
  <2> QED BY <2>1, <2>2
<1> QED BY <1>1, <1>2, <1>3 DEF EmbIInv

\* What a request reads before its awaits has its type.
LEMMA ReadsTyped ==
    ASSUME EmbIInv
    PROVE  /\ Tip \in 1 .. MaxVersions /\ perms \in SUBSET Verbs /\ dflt \in DialSettings
           /\ \A v \in 1 .. Tip : versions[v].allow \subseteq Verbs /\ versions[v].task \in BOOLEAN
           /\ \A j \in EmbJobs : embJob[j] \in EmbJobStates
           /\ \A s \in EmbSessions : sess[s] \in SessRows /\ child[s] \in Incarnations /\ first[s] \in Layers
<1>1. EmbTypeOK
  BY DEF EmbIInv
<1>2. Tip \in 1 .. MaxVersions /\ perms \in SUBSET Verbs /\ dflt \in DialSettings
  BY <1>1 DEF EmbTypeOK, Tip
<1>3. ASSUME NEW v \in 1 .. Tip PROVE versions[v].allow \subseteq Verbs /\ versions[v].task \in BOOLEAN
  <2> DEFINE R == [allow: SUBSET Verbs, task: BOOLEAN]
  <2>1. versions \in Seq(R) /\ v \in 1 .. Len(versions)
    BY <1>1, <1>3 DEF EmbTypeOK, Tip
  <2> HIDE DEF R
  <2>2. versions[v] \in R
    BY <2>1
  <2> QED BY <2>2 DEF R
<1>4. /\ \A j \in EmbJobs : embJob[j] \in EmbJobStates
      /\ \A s \in EmbSessions : sess[s] \in SessRows /\ child[s] \in Incarnations /\ first[s] \in Layers
  BY <1>1 DEF EmbTypeOK
<1> QED BY <1>2, <1>3, <1>4

\* layers keeps its arguments, and is typed: for a spawn,
LEMMA LayersTyped ==
    ASSUME NEW pin \in 0 .. MaxVersions, NEW program \in WakePrograms, NEW op \in BOOLEAN, NEW addon \in BOOLEAN
    PROVE  /\ layers(pin, program, op, addon) \in Layers
           /\ layers(pin, program, op, addon).version = pin
           /\ layers(pin, program, op, addon).program = program
           /\ layers(pin, program, op, addon).op = op
BY DEF layers, Layers

\* and for a resume, which has no addon.
LEMMA ResumedLayers ==
    ASSUME NEW pin \in 0 .. MaxVersions, NEW program \in WakePrograms, NEW op \in BOOLEAN
    PROVE  /\ layers(pin, program, op, FALSE) \in Layers
           /\ layers(pin, program, op, FALSE).version = pin
           /\ layers(pin, program, op, FALSE).program = program
           /\ layers(pin, program, op, FALSE).op = op
BY DEF layers, Layers

\* Merged dials are dials.
LEMMA DialsTyped ==
    ASSUME NEW old \in DialSettings, NEW change \in DialSettings
    PROVE  /\ merged(old, change) \in DialSettings
           /\ [d \in Dials |-> IF change[d] = Unset THEN old[d] ELSE change[d]] \in DialSettings
BY DEF merged, DialSettings

\* A child starts as its job says.
LEMMA BindKeeps ==
    ASSUME EmbIInv, NEW j \in EmbJobs, embJob[j].at \in {"attach", "resume"},
           NEW s \in EmbSessions, embJob[j].s = s, NEW kept \in SessRows, bind(j, kept),
           UNCHANGED <<turnLife, perms, versions, dflt, forgot, tiers, edits>>,
           first' \in [EmbSessions -> Layers],
           \A r \in EmbSessions \ {s} : first'[r] = first[r],
           SameLayers(embJob[j].with, s, first', forgot),
           kept.pin = embJob[j].with.version, kept.program = embJob[j].with.program,
           kept.op = embJob[j].with.op,
           embJob[j].at = "resume" => first' = first
    PROVE  EmbIInv'
<1> DEFINE job == embJob[j]
           new == [kept EXCEPT !.st = "live", !.dial = effective(job), !.baked = TRUE, !.scope = job.scope]
           proc == [on |-> TRUE, with |-> job.with, dial |-> effective(job)]
<1>1. /\ sess \in [EmbSessions -> SessRows] /\ child \in [EmbSessions -> Incarnations]
      /\ embJob \in [EmbJobs -> EmbJobStates] /\ job \in EmbJobStates
      /\ Tip' = Tip
  BY DEF EmbIInv, EmbTypeOK, EmbJobStates, Tip
<1>2. effective(job) \in DialSettings
  BY <1>1 DEF effective, EmbJobStates, DialSettings
<1>3. /\ new \in SessRows /\ new.st = "live" /\ new.dial = effective(job) /\ new.scope = job.scope
      /\ new.pin = kept.pin /\ new.program = kept.program /\ new.op = kept.op
  <2>1. job.scope \in SUBSET Verbs
    BY <1>1 DEF EmbJobStates
  <2> HIDE DEF job
  <2> QED BY <1>2, <2>1 DEF SessRows
<1>4. proc \in Incarnations /\ proc.on /\ proc.with = job.with /\ proc.dial = effective(job)
  <2>1. job.with \in Layers
    BY <1>1 DEF EmbJobStates
  <2> QED BY <1>2, <2>1 DEF Incarnations
<1>5. /\ sess' = [sess EXCEPT ![s] = new] /\ child' = [child EXCEPT ![s] = proc]
      /\ embJob' = [embJob EXCEPT ![j] = IdleJob]
  BY DEF bind
<1>6. JobFits(j)
  BY DEF EmbIInv
<1> HIDE DEF new, proc
<1>7. EmbTypeOK'
  <2>1. /\ sess' \in [EmbSessions -> SessRows] /\ child' \in [EmbSessions -> Incarnations]
        /\ embJob' \in [EmbJobs -> EmbJobStates]
    BY <1>1, <1>3, <1>4, <1>5, NullsTyped
  <2> QED BY <2>1 DEF EmbIInv, EmbTypeOK
<1>8. sess'[s] = new /\ child'[s] = proc
  BY <1>1, <1>5
<1>9. \A r \in EmbSessions \ {s} : sess'[r] = sess[r] /\ child'[r] = child[r] /\ first'[r] = first[r]
  BY <1>1, <1>5
<1>10. \A i \in EmbJobs : embJob'[i].at = "idle" \/ (i # j /\ embJob'[i] = embJob[i])
  BY <1>1, <1>5, NullsTyped
<1>11. ASSUME NEW i \in EmbJobs, embJob'[i].at # "idle", embJob'[i].s = s
       PROVE  sess[s].st # "none" /\ sess'[s].st # "none" /\ first'[s] = first[s]
  <2>1. i # j /\ embJob[i].at # "idle" /\ embJob[i].s = s
    BY <1>10, <1>11
  <2>2. embJob[j].at = "resume"
    BY <1>6, <2>1 DEF JobFits
  <2> QED BY <1>3, <1>6, <1>8, <2>2 DEF JobFits
<1>12. SessFits(s)'
  <2>1. /\ job.with.version \in 1 .. Tip /\ resolves(job.with.version, job.with.program)
        /\ \E T \in tiers : job.scope \subseteq T
    BY <1>6 DEF JobFits
  <2> QED BY <1>1, <1>3, <1>4, <1>8, <2>1 DEF SessFits, SameLayers, resolves
<1>13. UNCHANGED <<perms, versions, forgot, tiers>>
  OBVIOUS
<1> QED BY <1>1, <1>7, <1>9, <1>10, <1>11, <1>12, <1>13, SessMoves

\* Every step keeps the invariant.
LEMMA EmbStep == ASSUME EmbIInv, [EmbNext]_embVars PROVE EmbIInv'
<1>0. /\ Tip \in 1 .. MaxVersions /\ perms \in SUBSET Verbs /\ dflt \in DialSettings
      /\ sess \in [EmbSessions -> SessRows] /\ child \in [EmbSessions -> Incarnations]
      /\ embJob \in [EmbJobs -> EmbJobStates] /\ edits \in 0 .. MaxEdits
      /\ TierNow /\ Tip <= edits + 1
  BY ReadsTyped DEF EmbIInv, EmbTypeOK
<1>1. CASE UNCHANGED embVars
  BY <1>1 DEF embVars, EmbIInv, EmbTypeOK, TierNow, Tip, JobFits, SessFits, resolves
<1>2. ASSUME NEW A \in SUBSET Verbs, NEW task \in BOOLEAN, RoleCommitted(A, task)
      PROVE  EmbIInv'
  <2> DEFINE v == [allow |-> A, task |-> task]
  <2>1. /\ versions' = Append(versions, v) /\ edits < MaxEdits /\ edits' = edits + 1
        /\ tiers' = tiers \cup {perms \cap A}
        /\ UNCHANGED <<turnLife, perms, dflt, sess, child, embJob, first, forgot>>
    BY <1>2 DEF RoleCommitted, edit
  <2>2. /\ versions \in Seq([allow: SUBSET Verbs, task: BOOLEAN]) /\ v \in [allow: SUBSET Verbs, task: BOOLEAN]
        /\ v.allow = A /\ tiers \subseteq SUBSET Verbs
    BY DEF EmbIInv, EmbTypeOK
  <2> HIDE DEF v
  <2>3. /\ versions' \in Seq([allow: SUBSET Verbs, task: BOOLEAN])
        /\ Len(versions') = Len(versions) + 1 /\ versions'[Len(versions) + 1] = v
        /\ \A k \in 1 .. Len(versions) : versions'[k] = versions[k]
        /\ Len(versions) \in Nat
    BY <2>1, <2>2
  <2>4. Len(versions') \in 1 .. MaxVersions /\ edits' \in 0 .. MaxEdits
    BY <1>0, <2>1, <2>3, EmbodimentAssumption DEF MaxVersions, Tip
  <2>5. EmbTypeOK'
    BY <2>1, <2>2, <2>3, <2>4 DEF EmbIInv, EmbTypeOK
  <2>6. TierNow'
    BY <2>1, <2>2, <2>3 DEF TierNow, Tip
  <2>7. /\ Tip' <= edits' + 1 /\ Len(versions) <= Len(versions') /\ tiers \subseteq tiers'
        /\ UNCHANGED <<sess, child, embJob, first, forgot>>
    BY <1>0, <2>1, <2>3 DEF Tip
  <2> QED BY <2>3, <2>5, <2>6, <2>7, HistoryGrows
<1>3. ASSUME NEW d \in DialSettings, RoleRetuned(d) PROVE EmbIInv'
  <2>1. /\ dflt' = d /\ edits' \in 0 .. MaxEdits /\ edits' = edits + 1
        /\ UNCHANGED <<turnLife, perms, versions, sess, child, embJob, first, forgot, tiers>>
    BY <1>0, <1>3, EmbodimentAssumption DEF RoleRetuned, edit
  <2>2. EmbTypeOK'
    BY <2>1 DEF EmbIInv, EmbTypeOK
  <2>3. TierNow' /\ Tip' <= edits' + 1 /\ Len(versions) <= Len(versions')
    BY <1>0, <2>1 DEF TierNow, Tip
  <2> QED BY <2>1, <2>2, <2>3, HistoryGrows
<1>4. ASSUME NEW P \in SUBSET Verbs, PermsSet(P) PROVE EmbIInv'
  <2>1. /\ perms' = P /\ edits' \in 0 .. MaxEdits /\ edits' = edits + 1
        /\ tiers' = tiers \cup {P \cap versions[Tip].allow}
        /\ UNCHANGED <<turnLife, versions, dflt, sess, child, embJob, first, forgot>>
    BY <1>0, <1>4, EmbodimentAssumption DEF PermsSet, edit
  <2>2. EmbTypeOK'
    BY <2>1 DEF EmbIInv, EmbTypeOK
  <2>3. TierNow' /\ Tip' <= edits' + 1 /\ Len(versions) <= Len(versions')
    BY <1>0, <2>1 DEF TierNow, Tip
  <2> QED BY <2>1, <2>2, <2>3, HistoryGrows
<1>5. ASSUME NEW j \in EmbJobs, NEW s \in EmbSessions, NEW o \in Openings,
             NEW override \in DialSettings, NEW A \in SUBSET Verbs, SpawnBegins(j, s, o, override, A)
      PROVE  EmbIInv'
  <2> DEFINE lay == layers(Tip, o.program, o.op, o.addon)
             sc == bake(perms, Tip, A)
             job == [at |-> "attach", s |-> s, perms |-> perms, tip |-> Tip, dflt |-> dflt,
                     with |-> lay, override |-> override, scope |-> sc]
  <2>1. /\ sess[s].st = "none" /\ \A i \in EmbJobs : embJob[i].at # "idle" => embJob[i].s # s
        /\ resolves(Tip, o.program) /\ embJob' = [embJob EXCEPT ![j] = job]
        /\ UNCHANGED <<turnLife, perms, versions, dflt, sess, child, first, forgot, tiers, edits>>
    BY <1>5 DEF SpawnBegins
  <2>2. o.program \in WakePrograms /\ o.op \in BOOLEAN /\ o.addon \in BOOLEAN
    BY DEF Openings, WakePrograms
  <2>3. lay \in Layers /\ lay.version = Tip /\ lay.program = o.program
    <3>1. Tip \in 0 .. MaxVersions
      BY <1>0
    <3> QED BY <2>2, <3>1, LayersTyped
  <2>4. sc \in SUBSET Verbs /\ sc \subseteq perms \cap versions[Tip].allow
    BY <1>0 DEF bake
  <2> HIDE DEF lay, sc
  <2>5. job \in EmbJobStates
    BY <1>0, <2>3, <2>4 DEF EmbJobStates
  <2>6. embJob'[j] = job /\ \A i \in EmbJobs \ {j} : embJob'[i] = embJob[i]
    BY <1>0, <2>1
  <2>7. JobFits(j)'
    <3>1. Tip' = Tip /\ Tip \in 1 .. Tip
      BY <1>0, <2>1 DEF Tip
    <3>2. \E T \in tiers : sc \subseteq T
      BY <1>0, <2>4 DEF TierNow
    <3> QED BY <1>0, <2>1, <2>3, <2>6, <3>1, <3>2 DEF JobFits, TierNow, resolves
  <2>8. \A i \in EmbJobs \ {j} : embJob[i].at = "attach" /\ job.at # "idle" => job.s # embJob[i].s
    BY <2>1
  <2> HIDE DEF job
  <2> QED BY <2>1, <2>5, <2>7, <2>8, JobMoves
<1>6. ASSUME NEW j \in EmbJobs, SpawnFails(j) PROVE EmbIInv'
  <2>1. /\ embJob' = [embJob EXCEPT ![j] = IdleJob]
        /\ UNCHANGED <<turnLife, perms, versions, dflt, sess, child, first, forgot, tiers, edits>>
    BY <1>6 DEF SpawnFails
  <2>2. JobFits(j)'
    BY <1>0, <2>1, NullsTyped DEF JobFits
  <2> QED BY <2>1, <2>2, NullsTyped, JobMoves
<1>7. ASSUME NEW j \in EmbJobs, Spawned(j) PROVE EmbIInv'
  <2> DEFINE s == embJob[j].s
  <2>1. PICK x \in EmbSessions : embJob[j].s = x
    BY ReadsTyped DEF EmbJobStates
  <2>2. /\ embJob[j].at = "attach" /\ first' = [first EXCEPT ![x] = embJob[j].with]
        /\ bind(j, [sess[x] EXCEPT !.pin = embJob[j].with.version, !.program = embJob[j].with.program,
                                   !.op = embJob[j].with.op, !.override = embJob[j].override])
        /\ UNCHANGED <<turnLife, perms, versions, dflt, forgot, tiers, edits>>
    BY <1>7, <2>1 DEF Spawned
  <2> DEFINE w == embJob[j].with
             ov == embJob[j].override
             kept == [sess[x] EXCEPT !.pin = w.version, !.program = w.program, !.op = w.op, !.override = ov]
  <2>3. w \in Layers /\ ov \in DialSettings /\ sess[x] \in SessRows
    BY ReadsTyped DEF EmbJobStates
  <2>4. /\ first \in [EmbSessions -> Layers] /\ first' = [first EXCEPT ![x] = w]
        /\ bind(j, kept)
    BY <2>2 DEF EmbIInv, EmbTypeOK
  <2> HIDE DEF w, ov
  <2>8. x \notin forgot
    BY <2>1, <2>2 DEF EmbIInv, JobFits, SessFits
  <2>5. w.version \in 0 .. MaxVersions /\ w.program \in WakePrograms /\ w.op \in BOOLEAN
    BY <2>3 DEF Layers
  <2>6. kept \in SessRows /\ kept.pin = w.version /\ kept.program = w.program /\ kept.op = w.op
    BY <2>3, <2>5 DEF SessRows
  <2>7. /\ first' \in [EmbSessions -> Layers] /\ SameLayers(w, x, first', forgot)
        /\ \A r \in EmbSessions \ {x} : first'[r] = first[r]
    BY <2>3, <2>4, <2>8 DEF SameLayers, opOf
  <2> HIDE DEF kept
  <2> QED BY <2>1, <2>2, <2>4, <2>6, <2>7, BindKeeps DEF w
<1>8. ASSUME NEW j \in EmbJobs, NEW s \in EmbSessions, ResumeBegins(j, s) PROVE EmbIInv'
  <2> DEFINE lay == layers(sess[s].pin, sess[s].program, sess[s].op, FALSE)
             ov == sess[s].override
             job == [IdleJob EXCEPT !.at = "repair", !.s = s, !.perms = perms, !.tip = Tip, !.dflt = dflt,
                                    !.override = ov, !.with = lay]
  <2>1. /\ sess[s].st # "none" /\ embJob' = [embJob EXCEPT ![j] = job]
        /\ UNCHANGED <<turnLife, perms, versions, dflt, sess, child, first, forgot, tiers, edits>>
    BY <1>8 DEF ResumeBegins, resumable
  <2>2. sess[s] \in SessRows
    BY ReadsTyped
  <2>3. /\ lay \in Layers /\ lay.version = sess[s].pin /\ lay.program = sess[s].program
        /\ lay.op = sess[s].op /\ ov \in DialSettings
    <3>1. /\ sess[s].pin \in 0 .. MaxVersions /\ sess[s].program \in WakePrograms
          /\ sess[s].op \in BOOLEAN /\ ov \in DialSettings
      BY <2>2 DEF SessRows
    <3> DEFINE p == sess[s].pin
               g == sess[s].program
               o == sess[s].op
    <3>2. p \in 0 .. MaxVersions /\ g \in WakePrograms /\ o \in BOOLEAN /\ lay = layers(p, g, o, FALSE)
      BY <3>1
    <3> HIDE DEF p, g, o, lay
    <3>3. lay \in Layers /\ lay.version = p /\ lay.program = g /\ lay.op = o
      BY <3>2, ResumedLayers
    <3> QED BY <3>1, <3>3 DEF p, g, o
  <2>4. SessFits(s)
    BY DEF EmbIInv
  <2>5. SameLayers(lay, s, first, forgot) /\ lay.version \in 1 .. Tip
    BY <2>1, <2>3, <2>4 DEF SessFits, SameLayers
  <2> HIDE DEF lay, ov
  <2>6. /\ job \in EmbJobStates /\ job.at = "repair" /\ job.s = s /\ job.perms = perms
        /\ job.tip = Tip /\ job.with = lay
    <3>1. IdleJob \in EmbJobStates /\ Tip \in 0 .. MaxVersions
      BY <1>0, NullsTyped
    <3> QED BY <1>0, <2>3, <3>1 DEF EmbJobStates
  <2> HIDE DEF job
  <2>7. JobFits(j)'
    <3>1. Tip' = Tip /\ Tip \in 1 .. Tip /\ embJob'[j] = job
      BY <1>0, <2>1 DEF Tip
    <3> QED BY <1>0, <2>1, <2>5, <2>6, <3>1 DEF JobFits, TierNow
  <2>8. \A i \in EmbJobs \ {j} : embJob[i].at = "attach" /\ job.at # "idle" => job.s # embJob[i].s
    BY <2>1, <2>6 DEF EmbIInv, JobFits
  <2> QED BY <2>1, <2>6, <2>7, <2>8, JobMoves
<1>9. ASSUME NEW j \in EmbJobs, ResumePrepares(j) PROVE EmbIInv'
  <2> DEFINE old == embJob[j]
             sc == bake(old.perms, old.tip, Verbs)
             job == [old EXCEPT !.at = "resume", !.scope = sc]
  <2>1. /\ old.at = "repair" /\ old \in EmbJobStates /\ JobFits(j)
        /\ UNCHANGED <<turnLife, perms, versions, dflt, sess, child, first, forgot, tiers, edits>>
    BY <1>9, ReadsTyped DEF ResumePrepares, EmbIInv
  <2>2. CASE resolves(old.with.version, old.with.program)
    <3>1. embJob' = [embJob EXCEPT ![j] = job]
      BY <1>9, <2>2 DEF ResumePrepares
    <3>2. old.tip \in 1 .. Tip /\ old.perms \cap versions[old.tip].allow \in tiers
      BY <2>1 DEF JobFits
    <3>3. sc \in SUBSET Verbs /\ sc \subseteq old.perms \cap versions[old.tip].allow
      BY <2>1, <3>2 DEF bake, EmbJobStates
    <3> HIDE DEF sc
    <3>4. /\ job \in EmbJobStates /\ job.at = "resume" /\ job.s = old.s /\ job.perms = old.perms
          /\ job.tip = old.tip /\ job.with = old.with /\ job.scope = sc
      <4> HIDE DEF old
      <4> QED BY <2>1, <3>3 DEF EmbJobStates
    <3> HIDE DEF job
    <3>5. JobFits(j)'
      <4>1. Tip' = Tip /\ embJob'[j] = job
        BY <1>0, <2>1, <3>1 DEF Tip
      <4>2. \E T \in tiers : job.scope \subseteq T
        BY <3>2, <3>3, <3>4
      <4>3. sess[old.s].st # "none" /\ SameLayers(old.with, old.s, first, forgot) /\ old.with.version \in 1 .. Tip
        BY <2>1 DEF JobFits
      <4>4. /\ embJob'[j].at = "resume" /\ embJob'[j].with = old.with /\ embJob'[j].s = old.s
            /\ embJob'[j].tip = old.tip /\ embJob'[j].perms = old.perms /\ embJob'[j].scope = sc
        BY <3>4, <4>1
      <4> QED BY <2>1, <2>2, <3>2, <3>3, <4>1, <4>3, <4>4 DEF JobFits, resolves
    <3>6. \A i \in EmbJobs \ {j} : embJob[i].at = "attach" /\ job.at # "idle" => job.s # embJob[i].s
      BY <2>1, <3>4 DEF EmbIInv, JobFits
    <3> QED BY <2>1, <3>1, <3>4, <3>5, <3>6, JobMoves
  <2>3. CASE ~resolves(old.with.version, old.with.program)
    <3>1. embJob' = [embJob EXCEPT ![j] = IdleJob]
      BY <1>9, <2>3 DEF ResumePrepares
    <3>2. JobFits(j)'
      BY <1>0, <3>1, NullsTyped DEF JobFits
    <3> QED BY <2>1, <3>1, <3>2, NullsTyped, JobMoves
  <2> QED BY <2>2, <2>3
<1>10. ASSUME NEW j \in EmbJobs, Resumed(j) PROVE EmbIInv'
  <2>1. PICK x \in EmbSessions : embJob[j].s = x
    BY ReadsTyped DEF EmbJobStates
  <2>2. /\ embJob[j].at = "resume" /\ bind(j, sess[x])
        /\ UNCHANGED <<turnLife, perms, versions, dflt, first, forgot, tiers, edits>>
    BY <1>10, <2>1 DEF Resumed
  <2>3. sess[x] \in SessRows /\ first \in [EmbSessions -> Layers] /\ JobFits(j) /\ SessFits(x)
    BY ReadsTyped DEF EmbIInv, EmbTypeOK
  <2>4. /\ SameLayers(embJob[j].with, x, first, forgot)
        /\ sess[x].pin = embJob[j].with.version /\ sess[x].program = embJob[j].with.program
        /\ sess[x].op = embJob[j].with.op
    BY <2>1, <2>2, <2>3 DEF JobFits, SessFits, SameLayers
  <2> QED BY <2>1, <2>2, <2>3, <2>4, BindKeeps
<1>11. ASSUME NEW j \in EmbJobs, NEW gone \in BOOLEAN, ResumeFails(j, gone) PROVE EmbIInv'
  <2>1. PICK x \in EmbSessions : embJob[j].s = x
    BY ReadsTyped DEF EmbJobStates
  <2>2. /\ embJob[j].at \in {"repair", "resume"} /\ embJob' = [embJob EXCEPT ![j] = IdleJob]
        /\ UNCHANGED <<turnLife, perms, versions, dflt, first, forgot, tiers, edits>>
        /\ sess' = IF gone THEN [sess EXCEPT ![x].st = "ended"] ELSE sess
        /\ child' = IF gone THEN [child EXCEPT ![x] = NoProc] ELSE child
    BY <1>11, <2>1 DEF ResumeFails
  <2>3. JobFits(j) /\ SessFits(x) /\ sess[x] \in SessRows /\ sess[x].st # "none"
    BY <2>1, <2>2, ReadsTyped DEF EmbIInv, JobFits
  <2>4. CASE gone
    <3> DEFINE kept == [sess[x] EXCEPT !.st = "ended"]
    <3>1. /\ kept \in SessRows /\ kept.st = "ended" /\ kept.pin = sess[x].pin /\ kept.program = sess[x].program
          /\ kept.op = sess[x].op /\ kept.baked = sess[x].baked /\ kept.scope = sess[x].scope
      BY <2>3 DEF SessRows
    <3>2. sess' = [sess EXCEPT ![x] = kept] /\ child' = [child EXCEPT ![x] = NoProc]
      BY <1>0, <2>2, <2>4
    <3> HIDE DEF kept
    <3>3. /\ sess' \in [EmbSessions -> SessRows] /\ child' \in [EmbSessions -> Incarnations]
          /\ embJob' \in [EmbJobs -> EmbJobStates] /\ sess'[x] = kept /\ child'[x] = NoProc
          /\ \A r \in EmbSessions \ {x} : sess'[r] = sess[r] /\ child'[r] = child[r]
          /\ \A i \in EmbJobs : embJob'[i].at = "idle" \/ embJob'[i] = embJob[i]
      BY <1>0, <2>2, <3>1, <3>2, NullsTyped
    <3>4. EmbTypeOK'
      BY <2>2, <3>3 DEF EmbIInv, EmbTypeOK
    <3>5. SessFits(x)'
      <4>1. Tip' = Tip /\ ~NoProc.on
        BY <2>2 DEF Tip, NoProc
      <4> QED BY <2>2, <2>3, <3>1, <3>3, <4>1 DEF SessFits
    <3> QED BY <2>2, <2>3, <3>1, <3>3, <3>4, <3>5, SessMoves
  <2>5. CASE ~gone
    <3>1. JobFits(j)'
      BY <1>0, <2>2, NullsTyped DEF JobFits
    <3> QED BY <2>2, <2>5, <3>1, NullsTyped, JobMoves
  <2> QED BY <2>4, <2>5
<1>12. ASSUME NEW s \in EmbSessions, NEW change \in DialSettings, Reconfigure(s, change) PROVE EmbIInv'
  <2> DEFINE alive == child[s].on /\ ~turnLife
             rec == recorded(s, change)
             dial == IF alive THEN merged(sess[s].dial, change) ELSE sess[s].dial
             cdial == IF alive THEN merged(child[s].dial, change) ELSE child[s].dial
             kept == [sess[s] EXCEPT !.override = rec, !.dial = dial]
             proc == [child[s] EXCEPT !.dial = cdial]
  <2>1. sess[s] \in SessRows /\ child[s] \in Incarnations /\ SessFits(s)
    BY ReadsTyped DEF EmbIInv
  <2>2. sess[s].dial \in DialSettings /\ sess[s].override \in DialSettings /\ child[s].dial \in DialSettings
    BY <2>1 DEF SessRows, Incarnations
  <2>3. rec \in DialSettings /\ dial \in DialSettings /\ cdial \in DialSettings
    BY <2>2, DialsTyped DEF recorded
  <2>4. /\ sess[s].st # "none" /\ edits < MaxEdits /\ edits' = edits + 1
        /\ sess' = [sess EXCEPT ![s] = kept] /\ child' = [child EXCEPT ![s] = proc]
        /\ UNCHANGED <<turnLife, perms, versions, dflt, embJob, first, forgot, tiers>>
    <3>1. /\ sess[s].st # "none" /\ edits < MaxEdits /\ edits' = edits + 1
          /\ UNCHANGED <<turnLife, perms, versions, dflt, embJob, first, forgot, tiers>>
      BY <1>12 DEF Reconfigure, edit
    <3>2. sess' = [sess EXCEPT ![s] = kept]
      BY <1>0, <1>12 DEF Reconfigure
    <3>3. child' = [child EXCEPT ![s] = proc]
      <4>1. CASE alive
        BY <1>0, <1>12, <4>1 DEF Reconfigure
      <4>2. CASE ~alive
        <5>1. child' = child
          BY <1>12, <4>2 DEF Reconfigure
        <5>2. proc = child[s]
          BY <2>1, <4>2 DEF Incarnations
        <5> QED BY <1>0, <5>1, <5>2
      <4> QED BY <4>1, <4>2
    <3> QED BY <3>1, <3>2, <3>3
  <2>5. child[s].on => dial = cdial
    BY <2>1 DEF SessFits
  <2> HIDE DEF rec, dial, cdial, alive
  <2>6. /\ kept \in SessRows /\ kept.st = sess[s].st /\ kept.pin = sess[s].pin /\ kept.program = sess[s].program
        /\ kept.op = sess[s].op /\ kept.baked = sess[s].baked /\ kept.scope = sess[s].scope /\ kept.dial = dial
    BY <2>1, <2>3 DEF SessRows
  <2>7. proc \in Incarnations /\ proc.on = child[s].on /\ proc.with = child[s].with /\ proc.dial = cdial
    BY <2>1, <2>3 DEF Incarnations
  <2> HIDE DEF kept, proc
  <2>8. /\ sess' \in [EmbSessions -> SessRows] /\ child' \in [EmbSessions -> Incarnations]
        /\ sess'[s] = kept /\ child'[s] = proc /\ edits' \in 0 .. MaxEdits
        /\ \A r \in EmbSessions \ {s} : sess'[r] = sess[r] /\ child'[r] = child[r] /\ first'[r] = first[r]
    BY <1>0, <2>4, <2>6, <2>7, EmbodimentAssumption
  <2>9. EmbTypeOK'
    BY <2>4, <2>8 DEF EmbIInv, EmbTypeOK
  <2>10. SessFits(s)'
    <3>1. Tip' = Tip
      BY <2>4 DEF Tip
    <3> QED BY <2>1, <2>4, <2>5, <2>6, <2>7, <2>8, <3>1 DEF SessFits, resolves
  <2> QED BY <2>4, <2>6, <2>8, <2>9, <2>10, SessMoves
<1>13. ASSUME NEW s \in EmbSessions, SessEnds(s) PROVE EmbIInv'
  <2> DEFINE kept == [sess[s] EXCEPT !.st = "ended"]
  <2>1. /\ sess[s].st = "live" /\ sess' = [sess EXCEPT ![s] = kept] /\ child' = [child EXCEPT ![s] = NoProc]
        /\ UNCHANGED <<turnLife, perms, versions, dflt, embJob, first, forgot, tiers, edits>>
    BY <1>0, <1>13 DEF SessEnds
  <2>2. sess[s] \in SessRows /\ SessFits(s)
    BY ReadsTyped DEF EmbIInv
  <2>3. /\ kept \in SessRows /\ kept.st = "ended" /\ kept.pin = sess[s].pin /\ kept.program = sess[s].program
        /\ kept.op = sess[s].op /\ kept.baked = sess[s].baked /\ kept.scope = sess[s].scope
    BY <2>2 DEF SessRows
  <2> HIDE DEF kept
  <2>4. /\ sess' \in [EmbSessions -> SessRows] /\ child' \in [EmbSessions -> Incarnations]
        /\ sess'[s] = kept /\ child'[s] = NoProc
        /\ \A r \in EmbSessions \ {s} : sess'[r] = sess[r] /\ child'[r] = child[r] /\ first'[r] = first[r]
    BY <1>0, <2>1, <2>3, NullsTyped
  <2>5. EmbTypeOK'
    BY <2>1, <2>4 DEF EmbIInv, EmbTypeOK
  <2>6. SessFits(s)'
    <3>1. Tip' = Tip /\ ~NoProc.on
      BY <2>1 DEF Tip, NoProc
    <3> QED BY <2>1, <2>2, <2>3, <2>4, <3>1 DEF SessFits
  <2> QED BY <2>1, <2>3, <2>4, <2>5, <2>6, SessMoves
<1>14. ASSUME NEW s \in EmbSessions, TurnEnds(s) PROVE EmbIInv'
  <2>1. /\ child' = [child EXCEPT ![s] = NoProc]
        /\ UNCHANGED <<turnLife, perms, versions, dflt, sess, embJob, first, forgot, tiers, edits>>
        /\ SessFits(s) /\ child[s].on
    BY <1>14 DEF TurnEnds, EmbIInv
  <2>2. /\ child' \in [EmbSessions -> Incarnations] /\ child'[s] = NoProc
        /\ \A r \in EmbSessions \ {s} : child'[r] = child[r]
    BY <1>0, <2>1, NullsTyped
  <2>3. EmbTypeOK'
    BY <2>1, <2>2 DEF EmbIInv, EmbTypeOK
  <2>4. SessFits(s)'
    <3>1. Tip' = Tip /\ ~NoProc.on
      BY <2>1 DEF Tip, NoProc
    <3> QED BY <2>1, <2>2, <3>1 DEF SessFits
  <2>5. sess[s].st # "none"
    BY <2>1 DEF SessFits
  <2> QED BY <2>1, <2>2, <2>3, <2>4, <2>5, SessMoves
<1>15. CASE EmbRestart
  <2>1. sess' = [s \in EmbSessions |-> [sess[s] EXCEPT !.op = FALSE, !.override = NoDials]]
    BY <1>15, Zenon DEF EmbRestart
  <2>2. /\ edit /\ child' = [s \in EmbSessions |-> NoProc] /\ embJob' = [j \in EmbJobs |-> IdleJob]
        /\ forgot' = forgot \cup {s \in EmbSessions : sess[s].st # "none"}
        /\ UNCHANGED <<turnLife, perms, versions, dflt, first, tiers>>
    BY <1>15, Zenon DEF EmbRestart
  <2>3. edits' \in 0 .. MaxEdits /\ edits' = edits + 1
    BY <1>0, <2>2, EmbodimentAssumption DEF edit
  <2>4. ASSUME NEW s \in EmbSessions
        PROVE  /\ sess'[s] \in SessRows /\ sess'[s].st = sess[s].st /\ sess'[s].pin = sess[s].pin
               /\ sess'[s].program = sess[s].program /\ sess'[s].op = FALSE
               /\ sess'[s].baked = sess[s].baked /\ sess'[s].scope = sess[s].scope
    <3> DEFINE cleared(x) == [x EXCEPT !.op = FALSE, !.override = NoDials]
    <3>1. PICK x \in SessRows : sess[s] = x
      BY <1>0
    <3>2. /\ cleared(x) \in SessRows /\ cleared(x).st = x.st /\ cleared(x).pin = x.pin /\ cleared(x).program = x.program
          /\ cleared(x).op = FALSE /\ cleared(x).baked = x.baked /\ cleared(x).scope = x.scope
      BY NullsTyped DEF SessRows
    <3>3. sess'[s] = cleared(sess[s])
      BY <2>1, Zenon
    <3> HIDE DEF cleared
    <3> QED BY <3>1, <3>2, <3>3
  <2>5. EmbTypeOK'
    <3>1. sess' \in [EmbSessions -> SessRows]
      <4> DEFINE F(s) == [sess[s] EXCEPT !.op = FALSE, !.override = NoDials]
      <4>1. sess' = [s \in EmbSessions |-> F(s)]
        BY <2>1, Zenon
      <4> HIDE DEF F
      <4> QED BY <2>4, <4>1
    <3>2. /\ child' \in [EmbSessions -> Incarnations] /\ embJob' \in [EmbJobs -> EmbJobStates]
          /\ forgot' \subseteq EmbSessions
      BY <2>2, NullsTyped DEF EmbIInv, EmbTypeOK
    <3> QED BY <2>2, <2>3, <3>1, <3>2 DEF EmbIInv, EmbTypeOK
  <2>6. Tip' = Tip /\ TierNow' /\ Tip' <= edits' + 1
    <3>1. Tip' = Tip /\ TierNow'
      BY <1>0, <2>2 DEF TierNow, Tip
    <3> QED BY <1>0, <2>3, <3>1
  <2>7. ASSUME NEW j \in EmbJobs PROVE JobFits(j)'
    <3>1. embJob'[j].at = "idle"
      BY <2>2, NullsTyped
    <3> QED BY <3>1 DEF JobFits
  <2>8. ASSUME NEW s \in EmbSessions PROVE SessFits(s)'
    <3>1. SessFits(s) /\ ~child'[s].on
      BY <2>2 DEF EmbIInv, NoProc
    <3>2. s \in forgot' <=> sess[s].st # "none"
      BY <2>2, <3>1 DEF SessFits
    <3> QED BY <2>2, <2>4, <2>6, <3>1, <3>2 DEF SessFits, opOf
  <2> QED BY <2>5, <2>6, <2>7, <2>8 DEF EmbIInv
<1> QED BY <1>1, <1>2, <1>3, <1>4, <1>5, <1>6, <1>7, <1>8, <1>9, <1>10, <1>11, <1>12, <1>13, <1>14, <1>15 DEF EmbNext

\* The three properties from the invariant.
LEMMA EmbInvariant == EmbSpec => []EmbIInv
<1> QED BY EmbStart, EmbStep, PTL DEF EmbSpec

\* However often a session is resumed, and whatever is committed to its role meanwhile,
\* its child runs with the content and the opening of its spawn, and with the op-level
\* layer of its spawn exactly if the server was not restarted since.
THEOREM ResumeIsFaithful == EmbSpec => []ResumesSame
<1>1. EmbIInv => ResumesSame
  <2> SUFFICES ASSUME EmbIInv, NEW s \in EmbSessions, child[s].on
               PROVE  /\ child[s].with = [first[s] EXCEPT !.addon = child[s].with.addon,
                                                         !.op = IF s \in forgot THEN FALSE ELSE @]
                      /\ resolves(child[s].with.version, child[s].with.program)
    BY Zenon DEF ResumesSame
  <2>1. SessFits(s) /\ child[s].with \in Layers /\ first[s] \in Layers
    BY ReadsTyped DEF EmbIInv, Incarnations
  <2> QED BY <2>1 DEF SessFits, SameLayers, opOf, Layers
<1> QED BY <1>1, EmbInvariant, PTL

\* The model and the effort that a session's row shows are its child's.
THEOREM HeaderIsHonest == EmbSpec => []HeaderHonest
<1>1. EmbIInv => HeaderHonest
  BY DEF EmbIInv, SessFits, HeaderHonest
<1> QED BY <1>1, EmbInvariant, PTL

\* A token never mixes the permissions of two moments.
THEOREM ScopeOfOneMoment == EmbSpec => []OneMoment
<1>1. EmbIInv => OneMoment
  <2> SUFFICES ASSUME EmbIInv, NEW s \in EmbSessions
               PROVE  \E T \in tiers : commandsOf(s) \subseteq T
    BY DEF OneMoment
  <2>1. SessFits(s) /\ TierNow
    BY DEF EmbIInv
  <2> QED BY <2>1 DEF SessFits, TierNow, commandsOf
<1> QED BY <1>1, EmbInvariant, PTL

-----------------------------------------------------------------------------
(* What wakes a manager (CompletionWakes).                                 *)

\* The shape of a job; what it has left of a pass is not needed.
WakeJobForm(x) ==
    /\ DOMAIN x = {"at", "pass", "kind", "ended", "since", "after", "row", "left"}
    /\ x.pass \in BOOLEAN
    /\ x.kind \in WakeKinds
    /\ x.ended \in SUBSET Items
    /\ x.since \in Nat
    /\ x.after \in Nat
    /\ x.at = "walk" => ~x.pass
    /\ x.at = "pass" => x.pass

WakeForm ==
    /\ log \in Seq([sess : Workers, kind : {"status", "final-report"}]) /\ Len(log) <= MaxLog
    /\ wake \in Seq(Wakes)
    /\ stamp \in [WakeManagers -> Nat]
    /\ stamps \in Nat
    /\ queue \in [WakeManagers \X WakeKinds -> SUBSET Items]
    /\ wakeJob = [j \in WakeJobs |-> wakeJob[j]]
    /\ \A j \in WakeJobs : WakeJobForm(wakeJob[j])
    /\ wakeRestarts \in Nat

\* A registration is newer than all before it.
StampsFit ==
    /\ \A m \in WakeManagers : stamp[m] <= stamps
    /\ \A m, k \in WakeManagers : stamp[m] = stamp[k] /\ stamp[m] # 0 => m = k

HasRow(rows, x, m) ==
    \E i \in DOMAIN rows : rows[i].kind = x.kind /\ rows[i].to = m /\ rows[i].ended = x.ended

\* A walk knows no later registration than the last, and every manager registered
\* before it began that it is past has the row.
WalkFits(x, rows) ==
    /\ x.since <= stamps
    /\ x.at # "idle" /\ ~x.pass =>
         \A m \in WakeManagers : stamp[m] \in 1 .. x.since /\ stamp[m] <= x.after => HasRow(rows, x, m)

WakeIInv == WakeForm /\ StampsFit /\ \A j \in WakeJobs : WalkFits(wakeJob[j], wake)

\* Rows are added, and change their state only.
RowsRemain ==
    /\ wake' \in Seq(Wakes)
    /\ \A i \in DOMAIN wake : /\ i \in DOMAIN wake' /\ wake'[i].kind = wake[i].kind
                              /\ wake'[i].to = wake[i].to /\ wake'[i].ended = wake[i].ended

\* A job at rest.
LEMMA WakeIdle ==
    /\ WakeJobForm(NoWakeJob) /\ NoWakeJob.at = "idle" /\ NoWakeJob.since = 0 /\ NoWakeJob.after = 0
BY DEF WakeJobForm, NoWakeJob, WakeKinds

\* The registrations of a boot are new, and of each manager its own.
LEMMA StampsExist ==
    ASSUME NEW n \in Nat
    PROVE  /\ Cardinality(WakeManagers) \in Nat
           /\ startStamps(n) \in [WakeManagers -> n + 1 .. n + Cardinality(WakeManagers)]
           /\ \A m, k \in WakeManagers : startStamps(n)[m] = startStamps(n)[k] => m = k
<1> DEFINE c == Cardinality(WakeManagers)
           Fits(f) == /\ f \in [WakeManagers -> n + 1 .. n + c]
                      /\ \A m, k \in WakeManagers : f[m] = f[k] => m = k
<1>1. c \in Nat
  BY WakeAssumption, FS_CardinalityType
<1>2. ExistsBijection(1 .. c, WakeManagers)
  BY WakeAssumption, FS_CardinalityType
<1>3. PICK g \in [1 .. c -> WakeManagers] :
        /\ \A x, y \in 1 .. c : x # y => g[x] # g[y]
        /\ \A m \in WakeManagers : \E x \in 1 .. c : g[x] = m
  BY <1>2, Zenon DEF ExistsBijection, Bijection, Injection, Surjection, IsInjective
<1> HIDE DEF c
<1> DEFINE at(m) == CHOOSE x \in 1 .. c : g[x] = m
           f == [m \in WakeManagers |-> n + at(m)]
<1>4. ASSUME NEW m \in WakeManagers PROVE at(m) \in 1 .. c /\ g[at(m)] = m
  BY <1>3
<1> HIDE DEF at
<1>5. Fits(f)
  BY <1>1, <1>4
<1> HIDE DEF f
<1>6. Fits(startStamps(n))
  <2>1. startStamps(n) = CHOOSE h \in [WakeManagers -> n + 1 .. n + c] :
                           \A m, k \in WakeManagers : h[m] = h[k] => m = k
    BY DEF startStamps, c
  <2> QED BY <1>5, <2>1
<1> QED BY <1>1, <1>6 DEF c

\* Steps that leave the registrations alone, and move at most one job.
LEMMA WakesMove ==
    ASSUME WakeIInv, RowsRemain, UNCHANGED <<wakeRestarts, stamp, stamps>>,
           log' \in Seq([sess : Workers, kind : {"status", "final-report"}]), Len(log') <= MaxLog,
           queue' \in [WakeManagers \X WakeKinds -> SUBSET Items],
           NEW j \in WakeJobs, NEW x, WakeJobForm(x), wakeJob' = [wakeJob EXCEPT ![j] = x],
           WalkFits(x, wake')
    PROVE  WakeIInv'
<1>0. WakeForm /\ StampsFit /\ \A i \in WakeJobs : WalkFits(wakeJob[i], wake)
  BY DEF WakeIInv
<1>1. /\ wakeJob' = [i \in WakeJobs |-> wakeJob'[i]] /\ wakeJob'[j] = x
      /\ \A i \in WakeJobs \ {j} : wakeJob'[i] = wakeJob[i]
  BY <1>0 DEF WakeForm
<1>2. WakeForm'
  BY <1>0, <1>1 DEF WakeForm, RowsRemain
<1>3. StampsFit'
  BY <1>0 DEF StampsFit
<1>4. ASSUME NEW i \in WakeJobs PROVE WalkFits(wakeJob'[i], wake')
  <2>1. CASE i = j
    BY <1>1, <2>1
  <2>2. CASE i # j
    BY <1>0, <1>1, <2>2 DEF WalkFits, HasRow, RowsRemain
  <2> QED BY <2>1, <2>2
<1>5. ASSUME NEW i \in WakeJobs PROVE WalkFits(wakeJob[i], wake)'
  BY <1>4 DEF WalkFits
<1> QED BY <1>2, <1>3, <1>5 DEF WakeIInv

\* The same with no job that moves.
LEMMA WakesRest ==
    ASSUME WakeIInv, RowsRemain, UNCHANGED <<wakeRestarts, stamp, stamps, wakeJob>>,
           log' \in Seq([sess : Workers, kind : {"status", "final-report"}]), Len(log') <= MaxLog,
           queue' \in [WakeManagers \X WakeKinds -> SUBSET Items]
    PROVE  WakeIInv'
<1>0. WakeForm /\ StampsFit /\ \A i \in WakeJobs : WalkFits(wakeJob[i], wake)
  BY DEF WakeIInv
<1>1. WakeForm'
  BY <1>0 DEF WakeForm, RowsRemain
<1>2. StampsFit'
  BY <1>0 DEF StampsFit
<1>3. ASSUME NEW i \in WakeJobs PROVE WalkFits(wakeJob[i], wake')
  BY <1>0 DEF WalkFits, HasRow, RowsRemain
<1>4. ASSUME NEW i \in WakeJobs PROVE WalkFits(wakeJob[i], wake)'
  BY <1>3 DEF WalkFits
<1> QED BY <1>1, <1>2, <1>4 DEF WakeIInv

\* What the three ways of writing rows leave of them.
LEMMA WakeRowsKept ==
    ASSUME wake \in Seq(Wakes)
    PROVE  /\ UNCHANGED wake => RowsRemain
           /\ \A i : wake' = delivered(i) => RowsRemain
           /\ \A M : wake' = coalesced(M) => RowsRemain
           /\ \A new \in Seq(Wakes) : wake' = wake \o new => RowsRemain
<1>0. \A i \in DOMAIN wake : wake[i] \in Wakes
  OBVIOUS
<1>1. ASSUME UNCHANGED wake PROVE RowsRemain
  BY <1>1 DEF RowsRemain
<1>2. ASSUME NEW i, wake' = delivered(i) PROVE RowsRemain
  <2>1. CASE i \in DOMAIN wake
    <3> DEFINE new == [wake[i] EXCEPT !.st = IF @ = "pending" THEN "delivered" ELSE @]
    <3>1. new \in Wakes /\ new.kind = wake[i].kind /\ new.to = wake[i].to /\ new.ended = wake[i].ended
      BY <1>0, <2>1 DEF Wakes
    <3>2. wake' = [wake EXCEPT ![i] = new]
      BY <1>2 DEF delivered
    <3> HIDE DEF new
    <3>3. wake' \in Seq(Wakes)
      BY <2>1, <3>1, <3>2
    <3> QED BY <2>1, <3>1, <3>2, <3>3 DEF RowsRemain
  <2>2. CASE i \notin DOMAIN wake
    <3>1. wake' = wake
      BY <1>2, <2>2 DEF delivered
    <3> QED BY <3>1 DEF RowsRemain
  <2> QED BY <2>1, <2>2
<1>3. ASSUME NEW M, wake' = coalesced(M) PROVE RowsRemain
  <2>1. ASSUME NEW i \in DOMAIN wake
        PROVE  /\ i \in DOMAIN wake' /\ wake'[i] \in Wakes /\ wake'[i].kind = wake[i].kind
               /\ wake'[i].to = wake[i].to /\ wake'[i].ended = wake[i].ended
    <3>1. /\ i \in DOMAIN wake'
          /\ wake'[i] = wake[i] \/ wake'[i] = [wake[i] EXCEPT !.st = "cancelled"]
      BY <1>3 DEF coalesced
    <3> QED BY <1>0, <3>1 DEF Wakes
  <2>2. DOMAIN wake' = DOMAIN wake /\ wake' = [i \in DOMAIN wake |-> wake'[i]]
    BY <1>3 DEF coalesced
  <2>3. DOMAIN wake = 1 .. Len(wake) /\ Len(wake) \in Nat
    OBVIOUS
  <2>4. wake' \in Seq(Wakes)
    BY <2>1, <2>2, <2>3
  <2> QED BY <2>1, <2>4 DEF RowsRemain
<1>4. ASSUME NEW new \in Seq(Wakes), wake' = wake \o new PROVE RowsRemain
  BY <1>4 DEF RowsRemain
<1> QED BY <1>1, <1>2, <1>3, <1>4

\* What a fired completion is named is typed.
LEMMA ItemsTyped ==
    ASSUME WakeForm, NEW w \in Workers
    PROVE  /\ Len(log) < MaxLog => [sess |-> w, completionId |-> Len(log) + 1] \in Items
           /\ [sess |-> w, completionId |-> IF reportOf(w) = {} THEN 0 ELSE Max(reportOf(w))] \in Items
<1>1. Len(log) \in Nat /\ Len(log) <= MaxLog /\ MaxLog \in Nat
  BY WakeAssumption DEF WakeForm
<1>2. ASSUME reportOf(w) # {} PROVE Max(reportOf(w)) \in 0 .. MaxLog
  <2>1. reportOf(w) \in SUBSET Nat /\ \A i \in reportOf(w) : i <= Len(log)
    BY DEF reportOf, WakeForm
  <2>2. Max(reportOf(w)) \in reportOf(w)
    BY <1>1, <1>2, <2>1, MaxOf
  <2> QED BY <1>1, <2>1, <2>2
<1> QED BY <1>1, <1>2 DEF Items

\* A walk begins before all registrations.
LEMMA FireKeeps ==
    ASSUME WakeIInv, NEW j \in WakeJobs, NEW kind \in WakeKinds, NEW item \in Items, fireWake(kind, item, j),
           UNCHANGED <<wakeRestarts, wake, stamp, stamps, queue>>,
           log' \in Seq([sess : Workers, kind : {"status", "final-report"}]), Len(log') <= MaxLog
    PROVE  WakeIInv'
<1> DEFINE x == [NoWakeJob EXCEPT !.at = "walk", !.kind = kind, !.ended = {item}, !.since = stamps]
<1>1. WakeForm
  BY DEF WakeIInv
<1>2. stamps \in Nat /\ {item} \in SUBSET Items
  BY <1>1 DEF WakeForm
<1>3. WakeJobForm(x) /\ x.since = stamps /\ x.after = 0
  BY <1>2 DEF WakeJobForm, NoWakeJob
<1>4. wakeJob' = [wakeJob EXCEPT ![j] = x]
  BY DEF fireWake
<1> HIDE DEF x
<1>5. WalkFits(x, wake')
  BY <1>1, <1>2, <1>3 DEF WalkFits, WakeForm
<1>6. RowsRemain
  BY <1>1, WakeRowsKept DEF WakeForm
<1>7. queue' \in [WakeManagers \X WakeKinds -> SUBSET Items]
  BY <1>1 DEF WakeForm
<1> QED BY <1>3, <1>4, <1>5, <1>6, <1>7, WakesMove

\* The next entry of a walk: every manager it is past has its row.
LEMMA WalkKeeps ==
    ASSUME WakeIInv, NEW j \in WakeJobs, WalkWakes(j)
    PROVE  /\ WakeIInv'
           /\ wakeJob'[j].at = "idle" =>
                \A m \in WakeManagers : stamp[m] \in 1 .. wakeJob[j].since => HasRow(wake, wakeJob[j], m)
<1> DEFINE x == wakeJob[j]
<1>0. WakeForm /\ StampsFit /\ WalkFits(x, wake) /\ WakeJobForm(x)
  BY DEF WakeIInv, WakeForm
<1>1. x.at = "walk" /\ ~x.pass /\ UNCHANGED <<wakeRestarts, stamp, stamps>> /\ UNCHANGED log
  BY <1>0 DEF WalkWakes, WakeJobForm
<1>2. /\ log \in Seq([sess : Workers, kind : {"status", "final-report"}]) /\ Len(log) <= MaxLog
      /\ wake \in Seq(Wakes) /\ queue \in [WakeManagers \X WakeKinds -> SUBSET Items]
      /\ stamp \in [WakeManagers -> Nat] /\ stamps \in Nat
      /\ wakeJob = [i \in WakeJobs |-> wakeJob[i]]
  BY <1>0 DEF WakeForm
<1>3. CASE unvisited(j) = {}
  <2>1. wakeJob' = [wakeJob EXCEPT ![j] = NoWakeJob] /\ wake' = wake /\ queue' = queue
    BY <1>3 DEF WalkWakes
  <2>2. \A m \in WakeManagers : stamp[m] <= x.after
    BY <1>0, <1>2, <1>3 DEF unvisited, WakeJobForm
  <2>3. \A m \in WakeManagers : stamp[m] \in 1 .. x.since => HasRow(wake, x, m)
    BY <1>0, <1>1, <2>2 DEF WalkFits
  <2>4. RowsRemain /\ WalkFits(NoWakeJob, wake')
    BY <1>2, <2>1, WakeRowsKept, WakeIdle DEF WalkFits
  <2>5. WakeIInv'
    BY <1>1, <1>2, <2>1, <2>4, WakeIdle, WakesMove
  <2> QED BY <2>3, <2>5
<1>4. CASE unvisited(j) # {}
  <2> DEFINE m == CHOOSE z \in unvisited(j) : \A y \in unvisited(j) : stamp[z] <= stamp[y]
  <2>1. m \in unvisited(j) /\ \A y \in unvisited(j) : stamp[m] <= stamp[y]
    <3> DEFINE T == {stamp[z] : z \in unvisited(j)}
    <3>1. T \in SUBSET Nat /\ T # {}
      BY <1>2, <1>4 DEF unvisited
    <3>2. PICK t \in T : \A y \in T : t <= y
      BY <3>1, LeastNat
    <3>3. \E z \in unvisited(j) : \A y \in unvisited(j) : stamp[z] <= stamp[y]
      BY <3>2
    <3> QED BY <3>3
  <2> DEFINE on == [x EXCEPT !.after = stamp[m]]
             parked == [[x EXCEPT !.after = stamp[m]] EXCEPT !.at = "wake", !.row = Len(wake) + 1]
             new == [kind |-> x.kind, to |-> m, ended |-> x.ended,
                     st |-> IF lands(m) THEN "delivered" ELSE "pending"]
  <2>2. \/ duplicate(x.kind, m, x.ended) /\ wake' = wake /\ queue' = queue
           /\ wakeJob' = [wakeJob EXCEPT ![j] = on]
        \/ wake' = Append(wake, new) /\ queue' = enqueued(x.kind, m, x.ended)
           /\ \/ wakeJob' = [wakeJob EXCEPT ![j] = on]
              \/ wakeJob' = [wakeJob EXCEPT ![j] = parked]
    <3>1. \/ /\ duplicate(x.kind, m, x.ended)
             /\ wakeJob' = [wakeJob EXCEPT ![j].after = stamp[m]]
             /\ UNCHANGED <<mgr, wake, queue>>
          \/ /\ wake' = put(x.kind, m, x.ended)
             /\ queue' = enqueued(x.kind, m, x.ended)
             /\ wakeJob' = IF mgr[m] # "gone" THEN [wakeJob EXCEPT ![j].after = stamp[m]]
                           ELSE [[wakeJob EXCEPT ![j].after = stamp[m]] EXCEPT ![j].at = "wake", ![j].row = Len(wake) + 1]
      BY <1>4 DEF WalkWakes
    <3>2. [wakeJob EXCEPT ![j].after = stamp[m]] = [wakeJob EXCEPT ![j] = on]
      BY <1>2
    <3>3. [[wakeJob EXCEPT ![j].after = stamp[m]] EXCEPT ![j].at = "wake", ![j].row = Len(wake) + 1] =
            [wakeJob EXCEPT ![j] = parked]
      <4> DEFINE moved == [wakeJob EXCEPT ![j] = on]
      <4>1. parked = [on EXCEPT !.at = "wake", !.row = Len(wake) + 1]
        OBVIOUS
      <4>2. [wakeJob EXCEPT ![j].after = stamp[m]] = moved
        BY <3>2
      <4> HIDE DEF parked, on
      <4>3. moved = [i \in WakeJobs |-> moved[i]] /\ moved[j] = on
        BY <1>2
      <4>4. [moved EXCEPT ![j] = parked] = [wakeJob EXCEPT ![j] = parked]
        BY <1>2
      <4> HIDE DEF moved
      <4>5. [moved EXCEPT ![j].at = "wake", ![j].row = Len(wake) + 1] =
              [moved EXCEPT ![j] = [on EXCEPT !.at = "wake", !.row = Len(wake) + 1]]
        BY <4>3
      <4> QED BY <4>1, <4>2, <4>4, <4>5
    <3> HIDE DEF on, parked, m
    <3> QED BY <3>1, <3>2, <3>3 DEF put, newRow
  <2> HIDE DEF m
  <2>3. m \in WakeManagers /\ stamp[m] > x.after /\ stamp[m] \in Nat
    BY <1>2, <2>1 DEF unvisited
  <2>4. new \in Wakes /\ new.kind = x.kind /\ new.to = m /\ new.ended = x.ended
    BY <1>0, <2>3 DEF Wakes, WakeJobForm
  <2>5. /\ WakeJobForm(on) /\ on.at = x.at /\ on.pass = x.pass /\ on.kind = x.kind /\ on.ended = x.ended
        /\ on.since = x.since /\ on.after = stamp[m]
    BY <1>0, <2>3 DEF WakeJobForm
  <2>6. /\ WakeJobForm(parked) /\ parked.at = "wake" /\ parked.kind = x.kind /\ parked.ended = x.ended
        /\ parked.since = x.since /\ parked.after = stamp[m]
    BY <1>0, <2>3 DEF WakeJobForm
  <2> HIDE DEF on, parked, new
  <2>7. /\ RowsRemain /\ queue' \in [WakeManagers \X WakeKinds -> SUBSET Items]
        /\ HasRow(wake', x, m)
    <3>1. CASE duplicate(x.kind, m, x.ended) /\ wake' = wake /\ queue' = queue
      BY <1>2, <3>1, WakeRowsKept DEF duplicate, sameKey, HasRow
    <3>2. CASE wake' = Append(wake, new) /\ queue' = enqueued(x.kind, m, x.ended)
      <4>1. RowsRemain
        <5>1. <<new>> \in Seq(Wakes) /\ wake' = wake \o <<new>>
          BY <1>2, <2>4, <3>2
        <5> QED BY <1>2, <5>1, WakeRowsKept
      <4>2. Len(wake) + 1 \in DOMAIN wake' /\ wake'[Len(wake) + 1] = new
        BY <1>2, <2>4, <3>2
      <4>3. HasRow(wake', x, m)
        BY <2>4, <4>2 DEF HasRow
      <4>4. x.ended \in SUBSET Items /\ x.kind \in WakeKinds
        BY <1>0 DEF WakeJobForm
      <4>5. enqueued(x.kind, m, x.ended) \in [WakeManagers \X WakeKinds -> SUBSET Items]
        BY <1>2, <2>3, <4>4 DEF enqueued
      <4> QED BY <3>2, <4>1, <4>3, <4>5
    <3> QED BY <2>2, <3>1, <3>2
  <2>8. ASSUME NEW k \in WakeManagers, stamp[k] \in 1 .. x.since, stamp[k] <= stamp[m]
        PROVE  HasRow(wake', x, k)
    <3>1. CASE stamp[k] <= x.after
      <4>1. HasRow(wake, x, k)
        BY <1>0, <1>1, <2>8, <3>1 DEF WalkFits
      <4> QED BY <2>7, <4>1 DEF HasRow, RowsRemain
    <3>2. CASE ~(stamp[k] <= x.after)
      <4>1. stamp[k] = stamp[m]
        <5>1. k \in unvisited(j) /\ stamp[k] \in Nat
          BY <1>0, <1>2, <3>2 DEF unvisited, WakeJobForm
        <5> QED BY <2>1, <2>3, <2>8, <5>1
      <4>2. k = m
        BY <1>0, <2>3, <2>8, <4>1 DEF StampsFit
      <4> QED BY <2>7, <4>2
    <3> QED BY <3>1, <3>2
  <2>9. WalkFits(on, wake') /\ WalkFits(parked, wake')
    BY <1>0, <2>5, <2>6, <2>8 DEF WalkFits, HasRow
  <2>10. WakeIInv'
    BY <1>1, <1>2, <2>2, <2>5, <2>6, <2>7, <2>9, WakesMove
  <2>11. wakeJob'[j].at # "idle"
    BY <1>1, <1>2, <2>2, <2>5, <2>6
  <2> QED BY <2>10, <2>11
<1> QED BY <1>3, <1>4

\* The wait of a job is over: it goes on where it was.
LEMMA BackKeeps ==
    ASSUME WakeIInv, NEW j \in WakeJobs, wakeJob[j].at = "wake", wakeJob' = back(j), RowsRemain,
           UNCHANGED <<wakeRestarts, log, stamp, stamps, queue>>
    PROVE  WakeIInv'
<1> DEFINE x == wakeJob[j]
           y == [x EXCEPT !.at = IF x.pass THEN "pass" ELSE "walk"]
<1>0. WakeForm /\ WalkFits(x, wake) /\ WakeJobForm(x)
  BY DEF WakeIInv, WakeForm
<1>1. /\ log \in Seq([sess : Workers, kind : {"status", "final-report"}]) /\ Len(log) <= MaxLog
      /\ queue \in [WakeManagers \X WakeKinds -> SUBSET Items]
      /\ wakeJob = [i \in WakeJobs |-> wakeJob[i]]
  BY <1>0 DEF WakeForm
<1>2. wakeJob' = [wakeJob EXCEPT ![j] = y]
  BY <1>1 DEF back
<1>3. /\ WakeJobForm(y) /\ y.pass = x.pass /\ y.kind = x.kind /\ y.ended = x.ended
      /\ y.since = x.since /\ y.after = x.after
  BY <1>0 DEF WakeJobForm
<1> HIDE DEF y
<1>4. WalkFits(y, wake')
  BY <1>0, <1>3 DEF WalkFits, HasRow, RowsRemain
<1> QED BY <1>1, <1>2, <1>3, <1>4, WakesMove

\* A pass re-arms rows, and no walk is touched.
LEMMA PassKeeps ==
    ASSUME WakeIInv, NEW j \in WakeJobs, NEW x, wakeJob' = [wakeJob EXCEPT ![j] = x],
           WakeJobForm(x), x.pass \/ x.at = "idle", x.since \in {0, wakeJob[j].since}, RowsRemain,
           UNCHANGED <<wakeRestarts, log, stamp, stamps, queue>>
    PROVE  WakeIInv'
<1>0. WakeForm /\ WalkFits(wakeJob[j], wake)
  BY DEF WakeIInv
<1>1. /\ log \in Seq([sess : Workers, kind : {"status", "final-report"}]) /\ Len(log) <= MaxLog
      /\ queue \in [WakeManagers \X WakeKinds -> SUBSET Items] /\ stamps \in Nat
  BY <1>0 DEF WakeForm
<1>2. WalkFits(x, wake')
  BY <1>0, <1>1 DEF WalkFits
<1> QED BY <1>1, <1>2, WakesMove

\* A manager's triggers are registered anew or not at all.
LEMMA ManagerReloadsKeeps ==
    ASSUME WakeIInv, NEW m \in WakeManagers, NEW on \in BOOLEAN, ManagerReloads(m, on)
    PROVE  WakeIInv'
<1>0. WakeForm /\ StampsFit /\ \A j \in WakeJobs : WalkFits(wakeJob[j], wake) /\ WakeJobForm(wakeJob[j])
  BY DEF WakeIInv, WakeForm
<1>1. /\ stamps' = stamps + 1
      /\ stamp' = [stamp EXCEPT ![m] = IF on THEN stamps + 1 ELSE 0]
      /\ queue' = [q \in DOMAIN queue |-> IF q[1] = m THEN {} ELSE queue[q]]
      /\ log' = log /\ wake' = wake /\ wakeRestarts' = wakeRestarts
  BY DEF ManagerReloads
<1>2. /\ stamp \in [WakeManagers -> Nat] /\ stamps \in Nat
      /\ queue \in [WakeManagers \X WakeKinds -> SUBSET Items]
      /\ wakeJob = [j \in WakeJobs |-> wakeJob[j]]
  BY <1>0 DEF WakeForm
<1>3. LastStamp \in Nat
  <2>1. Cardinality(WakeManagers) \in Nat /\ MaxResets \in Nat
    BY WakeAssumption, FS_CardinalityType
  <2> QED BY <2>1 DEF LastStamp
<1>4. /\ stamp' \in [WakeManagers -> Nat] /\ stamps' \in Nat
      /\ stamp'[m] \in {0, stamps + 1} /\ \A k \in WakeManagers \ {m} : stamp'[k] = stamp[k]
  BY <1>1, <1>2
<1>5. queue' \in [WakeManagers \X WakeKinds -> SUBSET Items]
  BY <1>1, <1>2
<1>6. StampsFit'
  <2>1. \A k \in WakeManagers : stamp'[k] <= stamps'
    BY <1>0, <1>1, <1>2, <1>4 DEF StampsFit
  <2>2. \A i, k \in WakeManagers : stamp'[i] = stamp'[k] /\ stamp'[i] # 0 => i = k
    BY <1>0, <1>2, <1>4 DEF StampsFit
  <2> QED BY <2>1, <2>2 DEF StampsFit
<1> DEFINE moved(j) == [wakeJob[j] EXCEPT !.after = LastStamp]
<1>7. ASSUME NEW j \in WakeJobs
      PROVE  \/ wakeJob'[j] = wakeJob[j]
             \/ wakeJob'[j] = moved(j) /\ \A k \in WakeManagers \ {m} : stamp[k] = 0
  BY <1>2 DEF ManagerReloads
<1>8. wakeJob' = [j \in WakeJobs |-> wakeJob'[j]]
  BY <1>2 DEF ManagerReloads
<1>9. ASSUME NEW j \in WakeJobs PROVE WakeJobForm(wakeJob'[j]) /\ WalkFits(wakeJob[j], wake)'
  <2>1. ASSUME NEW i \in WakeManagers, stamp'[i] \in 1 .. wakeJob[j].since PROVE i # m /\ stamp'[i] = stamp[i]
    <3>1. wakeJob[j].since \in Nat /\ wakeJob[j].since <= stamps
      BY <1>0 DEF WalkFits, WakeJobForm
    <3> QED BY <1>2, <1>4, <2>1, <3>1
  <2>2. CASE wakeJob'[j] = wakeJob[j]
    <3>1. WalkFits(wakeJob[j], wake)
      BY <1>0
    <3>2. wakeJob[j].since <= stamps'
      BY <1>0, <1>1, <1>2, <3>1 DEF WalkFits, WakeJobForm
    <3> QED BY <1>0, <1>1, <2>1, <2>2, <3>1, <3>2 DEF WalkFits, HasRow
  <2>3. CASE wakeJob'[j] = moved(j) /\ \A k \in WakeManagers \ {m} : stamp[k] = 0
    <3>1. WakeJobForm(moved(j)) /\ moved(j).since = wakeJob[j].since
      BY <1>0, <1>3 DEF WakeJobForm
    <3>2. \A i \in WakeManagers : ~(stamp'[i] \in 1 .. wakeJob[j].since)
      BY <2>1, <2>3
    <3>3. wakeJob[j].since <= stamps'
      BY <1>0, <1>1, <1>2 DEF WalkFits, WakeJobForm
    <3> HIDE DEF moved
    <3> QED BY <2>3, <3>1, <3>2, <3>3 DEF WalkFits
  <2> QED BY <1>7, <2>2, <2>3
<1>10. WakeForm'
  BY <1>0, <1>1, <1>4, <1>5, <1>8, <1>9 DEF WakeForm
<1> QED BY <1>6, <1>9, <1>10 DEF WakeIInv

\* Nothing walks over the registrations of a boot.
LEMMA WakeRestartKeeps ==
    ASSUME WakeIInv, NEW j \in WakeJobs, NEW D, WakeRestart(j, D)
    PROVE  WakeIInv'
<1>0. WakeForm
  BY DEF WakeIInv
<1> DEFINE x == [NoWakeJob EXCEPT !.at = "pass", !.pass = TRUE, !.left = newest(WakeManagers)]
<1>1. /\ wake' = coalesced(WakeManagers) /\ stamp' = startStamps(stamps)
      /\ stamps' = stamps + Cardinality(WakeManagers)
      /\ queue' = [q \in DOMAIN queue |-> {}] /\ log' = log /\ wakeRestarts' = wakeRestarts + 1
      /\ wakeJob' = [i \in WakeJobs |-> IF i = j THEN x ELSE NoWakeJob]
  BY DEF WakeRestart
<1>2. wake \in Seq(Wakes) /\ stamps \in Nat /\ queue \in [WakeManagers \X WakeKinds -> SUBSET Items]
  BY <1>0 DEF WakeForm
<1>3. RowsRemain
  BY <1>1, <1>2, WakeRowsKept
<1>4. WakeJobForm(x) /\ x.pass /\ x.since = 0
  BY WakeIdle DEF WakeJobForm, NoWakeJob
<1> HIDE DEF x
<1>5. \A i \in WakeJobs : WakeJobForm(wakeJob'[i]) /\ wakeJob'[i].since = 0
                          /\ (wakeJob'[i].pass \/ wakeJob'[i].at = "idle")
  BY <1>1, <1>4, WakeIdle
<1>6. /\ stamps' \in Nat /\ stamp' \in [WakeManagers -> Nat]
      /\ \A m \in WakeManagers : stamp'[m] <= stamps'
      /\ \A m, k \in WakeManagers : stamp'[m] = stamp'[k] => m = k
  <2> DEFINE c == Cardinality(WakeManagers)
  <2>1. /\ c \in Nat /\ stamp' \in [WakeManagers -> stamps + 1 .. stamps + c]
        /\ \A m, k \in WakeManagers : stamp'[m] = stamp'[k] => m = k
    BY <1>1, <1>2, StampsExist
  <2>2. stamps' = stamps + c
    BY <1>1
  <2> HIDE DEF c
  <2>3. \A m \in WakeManagers : stamp'[m] \in stamps + 1 .. stamps + c
    BY <2>1
  <2> QED BY <1>2, <2>1, <2>2, <2>3
<1>7. WakeForm'
  BY <1>0, <1>1, <1>2, <1>3, <1>5, <1>6 DEF WakeForm, RowsRemain
<1>8. \A i \in WakeJobs : WalkFits(wakeJob[i], wake)'
  BY <1>5, <1>6 DEF WalkFits
<1> QED BY <1>6, <1>7, <1>8 DEF WakeIInv, StampsFit

\* What a Stop flushes are rows.
LEMMA FlushedTyped ==
    ASSUME WakeForm, NEW kind \in WakeKinds, NEW m \in WakeManagers
    PROVE  flushed(kind, m) \in Seq(Wakes)
<1>1. queue[<<m, kind>>] \in SUBSET Items
  BY DEF WakeForm
<1>2. [kind |-> kind, to |-> m, ended |-> queue[<<m, kind>>], st |-> "pending"] \in Wakes
  BY <1>1 DEF Wakes
<1> QED BY <1>2 DEF flushed

\* A walk that ends has reached every manager that was registered when it began.
Reached(j) ==
    wakeJob[j].at = "walk" /\ wakeJob'[j].at = "idle" /\ wakeRestarts' = wakeRestarts =>
        \A m \in WakeManagers : stamp[m] \in 1 .. wakeJob[j].since => HasRow(wake, wakeJob[j], m)

\* What every step does: it keeps the invariant, and ends no walk early.
LEMMA WakeStep == ASSUME WakeIInv, [WakeNext]_wakeVars PROVE WakeIInv' /\ \A j \in WakeJobs : Reached(j)
<1> DEFINE Walking(i) == wakeJob[i].at = "walk" => wakeJob'[i].at # "idle"
           LogRow == [sess : Workers, kind : {"status", "final-report"}]
<1>0. /\ WakeForm /\ wake \in Seq(Wakes) /\ log \in Seq(LogRow) /\ Len(log) <= MaxLog
      /\ queue \in [WakeManagers \X WakeKinds -> SUBSET Items]
      /\ wakeJob = [j \in WakeJobs |-> wakeJob[j]]
      /\ \A j \in WakeJobs : WakeJobForm(wakeJob[j])
  BY DEF WakeIInv, WakeForm
<1> SUFFICES WakeIInv' /\ \A j \in WakeJobs : Walking(j) \/ Reached(j)
  BY DEF Reached
<1>1. CASE UNCHANGED wakeVars
  BY <1>1 DEF wakeVars, WakeIInv, WakeForm, StampsFit, WalkFits, HasRow
<1>2. ASSUME NEW j \in WakeJobs, NEW w \in Workers, NEW st \in {"working", "done"}, PostStatus(j, w, st)
      PROVE  WakeIInv' /\ \A i \in WakeJobs : Walking(i)
  <2>1. /\ Len(log) < MaxLog /\ log' = Append(log, [sess |-> w, kind |-> "status"])
        /\ UNCHANGED <<wakeRestarts, wake, stamp, stamps, queue>>
    BY <1>2 DEF PostStatus
  <2>2. log' \in Seq(LogRow) /\ Len(log') <= MaxLog
    BY <1>0, <2>1, WakeAssumption
  <2>3. CASE UNCHANGED wakeJob
    BY <1>0, <2>1, <2>2, <2>3, WakeRowsKept, WakesRest
  <2>4. CASE free(j) /\ fireWake("worker-done", [sess |-> w, completionId |-> Len(log) + 1], j)
    <3>1. [sess |-> w, completionId |-> Len(log) + 1] \in Items /\ "worker-done" \in WakeKinds
      BY <1>0, <2>1, ItemsTyped DEF WakeKinds
    <3>2. WakeIInv'
      BY <2>1, <2>2, <2>4, <3>1, FireKeeps
    <3>3. \A i \in WakeJobs \ {j} : wakeJob'[i] = wakeJob[i]
      BY <1>0, <2>4 DEF fireWake
    <3> QED BY <2>4, <3>2, <3>3 DEF free
  <2> QED BY <1>2, <2>3, <2>4 DEF PostStatus
<1>3. ASSUME NEW w \in Workers, PostReport(w) \/ WorkerKilled(w) \/ WorkerResumed(w)
      PROVE  WakeIInv' /\ \A i \in WakeJobs : Walking(i)
  <2>1. UNCHANGED <<wakeRestarts, wake, stamp, stamps, queue, wakeJob>>
    BY <1>3 DEF PostReport, WorkerKilled, WorkerResumed
  <2>2. log' \in Seq(LogRow) /\ Len(log') <= MaxLog
    <3>1. CASE PostReport(w)
      <4>1. Len(log) < MaxLog /\ log' = Append(log, [sess |-> w, kind |-> "final-report"])
        BY <3>1 DEF PostReport
      <4> QED BY <1>0, <4>1, WakeAssumption
    <3>2. CASE WorkerKilled(w) \/ WorkerResumed(w)
      BY <1>0, <3>2 DEF WorkerKilled, WorkerResumed
    <3> QED BY <1>3, <3>1, <3>2
  <2> QED BY <1>0, <2>1, <2>2, WakeRowsKept, WakesRest
<1>4. ASSUME NEW j \in WakeJobs, NEW w \in Workers, WorkerEnds(j, w)
      PROVE  WakeIInv' /\ \A i \in WakeJobs : Walking(i)
  <2> DEFINE item == [sess |-> w, completionId |-> IF reportOf(w) = {} THEN 0 ELSE Max(reportOf(w))]
  <2>1. /\ free(j) /\ fireWake("session-ended", item, j)
        /\ UNCHANGED <<wakeRestarts, log, wake, stamp, stamps, queue>>
    BY <1>4 DEF WorkerEnds
  <2>2. item \in Items /\ "session-ended" \in WakeKinds
    BY <1>0, ItemsTyped DEF WakeKinds
  <2> HIDE DEF item
  <2>3. WakeIInv'
    BY <1>0, <2>1, <2>2, FireKeeps
  <2>4. \A i \in WakeJobs \ {j} : wakeJob'[i] = wakeJob[i]
    BY <1>0, <2>1 DEF fireWake
  <2> QED BY <2>1, <2>3, <2>4 DEF free
<1>5. ASSUME NEW j \in WakeJobs, WalkWakes(j) PROVE WakeIInv' /\ \A i \in WakeJobs : Walking(i) \/ Reached(i)
  <2>1. \A i \in WakeJobs \ {j} : wakeJob'[i] = wakeJob[i]
    BY <1>0, <1>5 DEF WalkWakes
  <2>2. WakeIInv' /\ Reached(j)
    BY <1>5, WalkKeeps DEF Reached
  <2> QED BY <2>1, <2>2
<1>6. ASSUME NEW j \in WakeJobs, ManagerWoken(j) \/ WakeErrs(j) PROVE WakeIInv' /\ \A i \in WakeJobs : Walking(i)
  <2>1. wakeJob[j].at = "wake" /\ wakeJob' = back(j) /\ UNCHANGED <<wakeRestarts, log, stamp, stamps, queue>>
    BY <1>6 DEF ManagerWoken, WakeErrs
  <2>2. RowsRemain
    <3>1. wake' = wake \/ wake' = delivered(wakeJob[j].row)
      BY <1>6 DEF ManagerWoken, WakeErrs
    <3> QED BY <1>0, <3>1, WakeRowsKept
  <2>3. WakeIInv'
    BY <2>1, <2>2, BackKeeps
  <2>4. \A i \in WakeJobs \ {j} : wakeJob'[i] = wakeJob[i]
    BY <1>0, <2>1 DEF back
  <2> QED BY <2>1, <2>3, <2>4
<1>7. ASSUME NEW m \in WakeManagers, NEW to \in {"gone", "busy", "deaf"}, ManagerMoves(m, to)
      PROVE  WakeIInv' /\ \A i \in WakeJobs : Walking(i)
  <2>1. UNCHANGED <<wakeRestarts, log, wake, stamp, stamps, queue, wakeJob>>
    BY <1>7 DEF ManagerMoves
  <2> QED BY <1>0, <2>1, WakeRowsKept, WakesRest
<1>8. ASSUME NEW m \in WakeManagers, StopHook(m) PROVE WakeIInv' /\ \A i \in WakeJobs : Walking(i)
  <2> DEFINE rows == flushed("session-ended", m) \o flushed("worker-done", m)
  <2>1. /\ wake' = wake \o rows /\ queue' = [q \in DOMAIN queue |-> IF q[1] = m THEN {} ELSE queue[q]]
        /\ UNCHANGED <<wakeRestarts, log, stamp, stamps, wakeJob>>
    BY <1>8 DEF StopHook
  <2>2. rows \in Seq(Wakes)
    <3>1. flushed("session-ended", m) \in Seq(Wakes) /\ flushed("worker-done", m) \in Seq(Wakes)
      BY <1>0, FlushedTyped DEF WakeKinds
    <3> QED BY <3>1
  <2> HIDE DEF rows
  <2>3. RowsRemain
    BY <1>0, <2>1, <2>2, WakeRowsKept
  <2>4. queue' \in [WakeManagers \X WakeKinds -> SUBSET Items]
    BY <1>0, <2>1
  <2> QED BY <1>0, <2>1, <2>3, <2>4, WakesRest
<1>9. ASSUME NEW m \in WakeManagers, NEW on \in BOOLEAN, ManagerReloads(m, on)
      PROVE  WakeIInv' /\ \A i \in WakeJobs : Walking(i)
  <2>1. ASSUME NEW i \in WakeJobs PROVE wakeJob'[i].at = wakeJob[i].at
    <3>1. wakeJob'[i] = wakeJob[i] \/ wakeJob'[i] = [wakeJob[i] EXCEPT !.after = LastStamp]
      BY <1>0, <1>9 DEF ManagerReloads
    <3> QED BY <1>0, <3>1 DEF WakeJobForm
  <2> QED BY <1>9, <2>1, ManagerReloadsKeeps
<1>10. ASSUME NEW j \in WakeJobs, NEW m \in WakeManagers, Rearm(j, m)
       PROVE  WakeIInv' /\ \A i \in WakeJobs : Walking(i)
  <2> DEFINE x == [NoWakeJob EXCEPT !.at = "pass", !.pass = TRUE, !.left = newest({m})]
  <2>1. /\ free(j) /\ wake' = coalesced({m}) /\ wakeJob' = [wakeJob EXCEPT ![j] = x]
        /\ UNCHANGED <<wakeRestarts, log, stamp, stamps, queue>>
    BY <1>10 DEF Rearm
  <2>2. WakeJobForm(x) /\ x.pass /\ x.since = 0
    BY WakeIdle DEF WakeJobForm, NoWakeJob
  <2> HIDE DEF x
  <2>3. RowsRemain
    BY <1>0, <2>1, WakeRowsKept
  <2>4. WakeIInv'
    BY <2>1, <2>2, <2>3, PassKeeps
  <2> QED BY <1>0, <2>1, <2>4 DEF free
<1>11. ASSUME NEW j \in WakeJobs, PassNext(j) PROVE WakeIInv' /\ \A i \in WakeJobs : Walking(i)
  <2>1. wakeJob[j].at = "pass" /\ UNCHANGED <<wakeRestarts, log, stamp, stamps, queue>>
    BY <1>11 DEF PassNext
  <2>2. CASE wakeJob' = [wakeJob EXCEPT ![j] = NoWakeJob] /\ UNCHANGED wake
    <3>1. WakeIInv'
      BY <1>0, <2>1, <2>2, WakeRowsKept, WakeIdle, PassKeeps
    <3> QED BY <1>0, <2>1, <2>2, <3>1
  <2>3. ASSUME NEW i \in wakeJob[j].left,
               wake' = IF lands(wake[i].to) THEN delivered(i) ELSE wake,
               wakeJob' = IF mgr[wake[i].to] = "gone"
                          THEN [[wakeJob EXCEPT ![j].left = @ \ {i}, ![j].row = i] EXCEPT ![j].at = "wake"]
                          ELSE [wakeJob EXCEPT ![j].left = @ \ {i}, ![j].row = i]
        PROVE  WakeIInv' /\ \A k \in WakeJobs : Walking(k)
    <3> DEFINE x == wakeJob'[j]
    <3>1. wakeJob' = [wakeJob EXCEPT ![j] = x]
      BY <1>0, <2>3
    <3>2. /\ WakeJobForm(x) /\ x.pass = wakeJob[j].pass /\ x.since = wakeJob[j].since
      BY <1>0, <2>1, <2>3 DEF WakeJobForm
    <3>3. RowsRemain
      BY <1>0, <2>3, WakeRowsKept
    <3>4. wakeJob[j].pass
      BY <1>0, <2>1 DEF WakeJobForm
    <3> HIDE DEF x
    <3>5. WakeIInv'
      BY <2>1, <3>1, <3>2, <3>3, <3>4, PassKeeps
    <3> QED BY <1>0, <2>1, <3>1, <3>5
  <2> QED BY <1>11, <2>2, <2>3 DEF PassNext
<1>12. ASSUME NEW j \in WakeJobs, NEW D \in SUBSET WakeManagers, WakeRestart(j, D)
       PROVE  WakeIInv' /\ \A i \in WakeJobs : Reached(i)
  <2>1. wakeRestarts' # wakeRestarts
    BY <1>12 DEF WakeRestart, WakeIInv, WakeForm
  <2> QED BY <1>12, <2>1, WakeRestartKeeps DEF Reached
<1> HIDE DEF Walking
<1> QED BY <1>1, <1>2, <1>3, <1>4, <1>5, <1>6, <1>7, <1>8, <1>9, <1>10, <1>11, <1>12 DEF WakeNext

\* It starts in it.
LEMMA WakeStart == WakeInit => WakeIInv
<1> SUFFICES ASSUME WakeInit PROVE WakeIInv
  OBVIOUS
<1>1. stamp = startStamps(0) /\ stamps = Cardinality(WakeManagers)
  BY DEF WakeInit
<1> DEFINE c == Cardinality(WakeManagers)
<1>2. /\ c \in Nat /\ stamp \in [WakeManagers -> 1 .. c]
      /\ \A m, k \in WakeManagers : stamp[m] = stamp[k] => m = k
  BY <1>1, StampsExist
<1> HIDE DEF c
<1>3. stamps = c
  BY <1>1 DEF c
<1>4. WakeForm
  BY <1>2, <1>3, WakeIdle, WakeAssumption DEF WakeInit, WakeForm
<1>5. StampsFit
  BY <1>2, <1>3 DEF StampsFit
<1>6. \A j \in WakeJobs : WalkFits(wakeJob[j], wake)
  BY <1>2, <1>3, WakeIdle DEF WakeInit, WalkFits
<1> QED BY <1>4, <1>5, <1>6 DEF WakeIInv

\* When the walk of a completion is over, each manager that was registered all along has
\* a row with this completion, however the walk was interrupted (fire and the dispatch of
\* triggers/session-ended.ts and worker-done.ts).
THEOREM CompletionsHaveRows == WakeSpec => CompletionHasRow
<1>1. WakeInit => WakeIInv
  BY WakeStart
<1>2. WakeIInv /\ [WakeNext]_wakeVars => WakeIInv'
  BY WakeStep
<1>3. WakeIInv /\ [WakeNext]_wakeVars =>
        [\A j \in WakeJobs :
           wakeJob[j].at = "walk" /\ wakeJob'[j].at = "idle" /\ wakeRestarts' = wakeRestarts =>
             \A m \in WakeManagers : stamp[m] \in 1 .. wakeJob[j].since =>
               \E i \in DOMAIN wake : /\ wake[i].kind = wakeJob[j].kind
                                      /\ wake[i].to = m
                                      /\ wake[i].ended = wakeJob[j].ended]_wakeVars
  BY WakeStep DEF Reached, HasRow
<1> QED BY <1>1, <1>2, <1>3, PTL DEF WakeSpec, CompletionHasRow

=============================================================================
