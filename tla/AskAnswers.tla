----------------------------- MODULE AskAnswers -----------------------------
(***************************************************************************)
(* What becomes of an answer between the panel the user clicks in and the  *)
(* agent that asked: the widget's selections and notes, the one string     *)
(* they are encoded into, the row it is recorded in, and its three         *)
(* readers: the AskUserQuestion hook, the `clobber ask` command, and, for  *)
(* a question an older release left as timed out, the message injected     *)
(* into the session.  Who waits for an answer, and for how long, is in     *)
(* AskChannel.                                                             *)
(***************************************************************************)
EXTENDS Naturals, Sequences, FiniteSets, SequencesExt

CONSTANTS
    AskLabels,   \* the options of a question that has any
    Typed,       \* what may stand in a text field, trimmed
    MaxPanel,    \* bound: questions in one ask
    MaxAsks,     \* bound: asks of the session
    MaxCalls,    \* bound: asks and answers, together
    MaxTouches   \* bound: clicks and texts in the panel

(* The strings the properties tell apart: a text, the JSON of a list of    *)
(* labels, and the JSON of an envelope of answers.                         *)
Text(s) == [text |-> s]
List(labels) == [list |-> labels]
Envelope(parts) == [parts |-> parts]
Blank == Text("")
IsList(str) == "list" \in DOMAIN str
IsEnvelope(str) == "parts" \in DOMAIN str
IsJson(str) == IsList(str) \/ IsEnvelope(str)

\* The parts of an envelope are a list, also of one that is typed.
ASSUME AnswerTexts == \A str \in Typed : IsEnvelope(str) => DOMAIN str.parts = 1 .. Len(str.parts)

Question == [options: {<<>>, AskLabels}, multi: BOOLEAN]

\* A hook asks a panel of questions of at least two options; /agent/ask one question.
AskUserQuestionInput ==
    {qs \in UNION {[1 .. n -> Question] : n \in 1 .. MaxPanel} :
        \A i \in DOMAIN qs : Len(qs[i].options) >= 2}
AgentAskRequest == [1 .. 1 -> Question]

VARIABLES
    asks,      \* the session's agent_questions, oldest first
    panel,     \* the widget of the open question: what is selected and typed, and
               \* the request it waits for
    inflight,  \* answers on their way, or being injected; `meant` is the panel's state
    told,      \* what the agent read
    touches, submits

answerVars == <<asks, panel, inflight, told, touches, submits>>

NoPanel == [ask |-> 0, selected |-> <<>>, free |-> <<>>, sending |-> 0]

AnswerInit ==
    /\ asks \in {<<>>} \cup {<<[from |-> "hook", questions |-> qs, status |-> "timed_out"]>> :
                               qs \in AskUserQuestionInput}
    /\ panel = NoPanel
    /\ inflight = {}
    /\ told = {}
    /\ touches = 0
    /\ submits = 0

-----------------------------------------------------------------------------
(* The strings.                                                            *)

encodePanelAnswer(parts) ==
    IF Len(parts) = 1 /\ parts[1].notes = Blank THEN parts[1].raw ELSE Envelope(parts)

\* The parts of an answer to an ask of n questions; none when it is a partial one.
decodePanelAnswer(str, n) ==
    IF IsEnvelope(str) /\ Len(str.parts) = n THEN str.parts
    ELSE IF n = 1 THEN <<[raw |-> str, notes |-> Blank]>> ELSE <<>>

\* What a string offers as labels: those of a list, or itself.
LabelsIn(str) == IF IsList(str) THEN [k \in DOMAIN str.list |-> Text(str.list[k])] ELSE <<str>>

parseAnswerLabels(raw, multi) == IF multi THEN LabelsIn(raw) ELSE <<raw>>

\* The place of a label among the options; none is 0.
option_index(label, options) ==
    LET at == {k \in DOMAIN options : Text(options[k]) = label}
    IN  IF at = {} THEN 0 ELSE CHOOSE k \in at : TRUE

parseSelections(raw, q) ==
    LET labels == parseAnswerLabels(raw, q.multi)
    IN  [k \in DOMAIN labels |-> [label |-> labels[k],
                                  option_index |-> option_index(labels[k], q.options)]]

renderContext(qs, str) ==
    LET parts == decodePanelAnswer(str, Len(qs))
    IN  [i \in DOMAIN parts |-> [selections |-> parseSelections(parts[i].raw, qs[i]),
                                 notes |-> parts[i].notes]]

\* The message of a late answer joins the labels of any list.
formatLateAnswer(qs, str) ==
    LET parts == decodePanelAnswer(str, Len(qs))
    IN  [i \in DOMAIN parts |-> [choice |-> LabelsIn(parts[i].raw), notes |-> parts[i].notes]]

-----------------------------------------------------------------------------
(* Asking, and the browser.                                                *)

Asked(from, qs) ==
    /\ Len(asks) < MaxAsks
    /\ Len(asks) + submits < MaxCalls
    /\ asks' = Append([k \in DOMAIN asks |-> IF asks[k].status = "pending"
                                             THEN [asks[k] EXCEPT !.status = "cancelled"]
                                             ELSE asks[k]],
                      [from |-> from, questions |-> qs, status |-> "pending"])
    /\ UNCHANGED <<panel, inflight, told, touches, submits>>

\* The newest question of the session that is pending or timed out; none is 0.
open_question ==
    LET open == {k \in DOMAIN asks : asks[k].status \in {"pending", "timed_out"}}
    IN  IF open = {} THEN 0 ELSE CHOOSE k \in open : \A j \in open : j <= k

Widget(a) == IF a = 0 THEN NoPanel
             ELSE [ask |-> a, selected |-> [i \in DOMAIN asks[a].questions |-> <<>>],
                   free |-> [i \in DOMAIN asks[a].questions |-> Blank], sending |-> 0]

\* Variant: a widget of the same number of questions is kept.
ShowUnkeyed(a) ==
    IF a # 0 /\ panel.ask # 0 /\ Len(panel.free) = Len(asks[a].questions)
    THEN [panel EXCEPT !.ask = a] ELSE Widget(a)

\* The widget is mounted anew for each question.
Show(a) == IF a = panel.ask THEN panel ELSE Widget(a)

\* A poll of the sessions, or the page loaded again.
Polled ==
    /\ panel' = Show(open_question)
    /\ UNCHANGED <<asks, inflight, told, touches, submits>>

Reloaded ==
    /\ panel.sending # 0
    /\ panel' = Widget(open_question)
    /\ UNCHANGED <<asks, inflight, told, touches, submits>>

Shown == asks[panel.ask].questions

\* A label that is selected is so once: what is filtered is one place.
toggle(i, label) ==
    LET sel == panel.selected[i]
        on == {k \in DOMAIN sel : sel[k] = label}
    IN  panel' = [panel EXCEPT !.selected[i] =
                    IF on = {} THEN IF Shown[i].multi THEN Append(sel, label) ELSE <<label>>
                    ELSE IF Shown[i].multi THEN RemoveAt(sel, CHOOSE k \in on : TRUE) ELSE <<>>]

setFreeAt(i, str) == panel' = [panel EXCEPT !.free[i] = str]

Touched ==
    /\ touches < MaxTouches
    /\ touches' = touches + 1
    /\ panel.ask # 0
    /\ panel.sending = 0
    /\ \E i \in DOMAIN Shown :
          \/ \E k \in DOMAIN Shown[i].options : toggle(i, Shown[i].options[k])
          \/ \E str \in Typed : setFreeAt(i, str)
    /\ UNCHANGED <<asks, inflight, told, submits>>

answered(i) == panel.selected[i] # <<>> \/ panel.free[i] # Blank

\* The answer to question i, q, in the panel p.
buildPart(p, q, i) ==
    LET sel == p.selected[i] IN
    IF sel = <<>> THEN [raw |-> p.free[i], notes |-> Blank]
    ELSE [raw |-> IF q.multi THEN List(sel) ELSE Text(sel[1]), notes |-> p.free[i]]

Sent(a, str, meant) ==
    /\ Len(asks) + submits < MaxCalls
    /\ submits' = submits + 1
    /\ inflight' = inflight \cup {[id |-> submits', ask |-> a, answer |-> str,
                                   meant |-> meant, stage |-> "sent"]}
    /\ UNCHANGED <<asks, told, touches>>

submit ==
    /\ panel.ask # 0
    /\ panel.sending = 0
    /\ \A i \in DOMAIN Shown : answered(i)
    /\ Sent(panel.ask, encodePanelAnswer([i \in DOMAIN Shown |-> buildPart(panel, Shown[i], i)]), panel)
    /\ panel' = [panel EXCEPT !.sending = submits']

\* Another client of the API answers with a bare text, whatever was asked.
AnsweredElsewhere ==
    /\ \E a \in DOMAIN asks, str \in {t \in Typed \ {Blank} : ~IsJson(t)} : Sent(a, str, NoPanel)
    /\ UNCHANGED panel

-----------------------------------------------------------------------------
(* POST /sessions/:id/answer.                                              *)

Done(s) == /\ inflight' = inflight \ {s}
           /\ panel' = IF panel.sending = s.id THEN [panel EXCEPT !.sending = 0] ELSE panel

\* Variant: a partial answer is recorded.
coversAny(s) == TRUE

covers(s) == decodePanelAnswer(s.answer, Len(asks[s.ask].questions)) # <<>>

Read(s, by, what) == told' = told \cup {[ask |-> s.ask, by |-> by, read |-> what, meant |-> s.meant]}

\* A pending ask is answered, and the one who waits for it reads the row.
Recorded(s) ==
    /\ s.stage = "sent"
    /\ covers(s)
    /\ asks[s.ask].status = "pending"
    /\ asks' = [asks EXCEPT ![s.ask].status = "answered"]
    /\ IF asks[s.ask].from = "hook"
       THEN LET context == renderContext(asks[s.ask].questions, s.answer)
            IN  IF context = <<>> THEN UNCHANGED told ELSE Read(s, "hook", context)
       ELSE Read(s, "command", s.answer)
    /\ Done(s)
    /\ UNCHANGED <<touches, submits>>

AnswerRefused(s) ==
    /\ s.stage = "sent"
    /\ ~covers(s) \/ asks[s.ask].status \in {"answered", "cancelled"}
    /\ Done(s)
    /\ UNCHANGED <<asks, told, touches, submits>>

\* The answer to a timed-out ask is injected first and recorded then.
InjectionStarts(s) ==
    /\ s.stage = "sent"
    /\ covers(s)
    /\ asks[s.ask].status = "timed_out"
    /\ inflight' = (inflight \ {s}) \cup {[s EXCEPT !.stage = "injecting"]}
    /\ UNCHANGED <<asks, panel, told, touches, submits>>

Injected(s) ==
    /\ s.stage = "injecting"
    /\ Read(s, "message", formatLateAnswer(asks[s.ask].questions, s.answer))
    /\ asks' = [asks EXCEPT ![s.ask].status = IF @ = "timed_out" THEN "answered" ELSE @]
    /\ Done(s)
    /\ UNCHANGED <<touches, submits>>

InjectionFails(s) ==
    /\ s.stage = "injecting"
    /\ Done(s)
    /\ UNCHANGED <<asks, told, touches, submits>>

AnswerNext ==
    \/ \E qs \in AskUserQuestionInput : Asked("hook", qs)
    \/ \E qs \in AgentAskRequest : Asked("command", qs)
    \/ Polled \/ Reloaded \/ Touched \/ submit \/ AnsweredElsewhere
    \/ \E s \in inflight : \/ Recorded(s) \/ AnswerRefused(s)
                           \/ InjectionStarts(s) \/ Injected(s) \/ InjectionFails(s)

AnswerSpec == AnswerInit /\ [][AnswerNext]_answerVars

-----------------------------------------------------------------------------
\* The user clicked, or typed something that is not itself JSON: typed JSON is taken
\* for a list of labels or for an envelope.
Plain(p) == p.ask # 0 /\ \A i \in DOMAIN p.free : p.selected[i] = <<>> => ~IsJson(p.free[i])

\* What question i of a panel was answered with, and the note beside it.
Chosen(p, i) == IF p.selected[i] = <<>> THEN <<p.free[i]>>
                ELSE [k \in DOMAIN p.selected[i] |-> Text(p.selected[i][k])]
Note(p, i) == IF p.selected[i] = <<>> THEN Blank ELSE p.free[i]

ReadsRight(t, qs) ==
    LET p == t.meant IN
    CASE t.by = "hook" ->
           \A i \in DOMAIN qs :
              /\ t.read[i].notes = Note(p, i)
              /\ [k \in DOMAIN t.read[i].selections |-> t.read[i].selections[k].label] = Chosen(p, i)
              /\ \A k \in DOMAIN p.selected[i] :
                    qs[i].options[t.read[i].selections[k].option_index] = p.selected[i][k]
      [] t.by = "message" ->
           \A i \in DOMAIN qs : t.read[i] = [choice |-> Chosen(p, i), notes |-> Note(p, i)]
      [] t.by = "command" ->
           Note(p, 1) = Blank => LabelsIn(t.read) = Chosen(p, 1)

\* Whoever reads an answer reads what the user chose in the panel, for each question
\* its own choice in the order of the clicks, at its place among that question's
\* options, with its note; and every answer that is recorded is read: none leaves the
\* agent with nothing.
AnswerArrives ==
    /\ \A t \in told : Plain(t.meant) => ReadsRight(t, asks[t.ask].questions)
    /\ \A a \in DOMAIN asks : asks[a].status = "answered" => \E t \in told : t.ask = a
=============================================================================
