---------------------------- MODULE Transcripts ----------------------------
(***************************************************************************)
(* The transcript of one session: a file of lines that the child appends   *)
(* to, that the server appends its notices to and cuts back before it      *)
(* resumes a session, and that the browser follows with a cursor and       *)
(* agents read in windows.  How the child writes is external: it is what   *)
(* session-health.ts and its tests say of it.                              *)
(***************************************************************************)
EXTENDS Integers, Sequences, FiniteSets, SequencesExt, Subsequences

CONSTANTS MaxLines, MaxResumes, MaxReads, MaxWindow  \* bounds

VARIABLES file,      \* the lines, [id, kind]
          written,   \* lines ever written, the source of ids
          child,     \* the child of the session: "none" or "live"
          turn,      \* what the child does
          bricked,   \* the child holds a history that the API refuses
          dying,     \* a killed child is still there, and was in a turn
          repair,    \* the repair of a resume
          tampered,  \* a killed child has written behind a resume
          resumes,
          prefix,    \* the session has a system prompt to show
          shown, cursor, ticks,  \* the browser's hook
          raced, reads

fileVars == <<file, written>>
childVars == <<child, turn, bricked, dying>>
resumeVars == <<repair, tampered, resumes>>
viewVars == <<prefix, shown, cursor, ticks, raced, reads>>
transVars == <<fileVars, childVars, resumeVars, viewVars>>

NoRepair == [st |-> "none", lines |-> <<>>, dropped |-> 0]

Turns == {"think", "tool", "text", "result"}
Unfinished(kind) == kind \in {"think", "tool"}

LastTurn(lines) == LET T == {i \in DOMAIN lines : lines[i].kind \in Turns}
                   IN  IF T = {} THEN "none" ELSE lines[CHOOSE i \in T : \A j \in T : j <= i].kind

\* The latest turn of the assistant is one it can neither go on with nor resend.
Broken(lines) == Unfinished(LastTurn(lines))

(***************************************************************************)
(* Lines.  A line that was cut off has no end: what is appended next       *)
(* becomes part of it, and ends it.  Readers pass over what they cannot    *)
(* parse.                                                                  *)
(***************************************************************************)
Appends(kind) ==
    /\ written < MaxLines
    /\ written' = written + 1
    /\ file' = IF file # <<>> /\ Last(file).kind = "torn"
               THEN [file EXCEPT ![Len(file)].kind = IF kind = "torn" THEN "torn" ELSE "scrap"]
               ELSE Append(file, [id |-> written', kind |-> kind])

readTranscript == ElementsAt(file, {i \in DOMAIN file : file[i].kind \notin {"torn", "scrap"}})

\* An interrupt or a change of the dials is noted, whether a child runs or not.
appendTranscriptNotification == Appends("note")

(***************************************************************************)
(* The child.                                                              *)
(***************************************************************************)
Proceeding == IF LastTurn(file) = "tool" THEN {"result"} ELSE {"tool", "text"}
BrokenOff == IF LastTurn(file) = "tool" THEN {"result"} ELSE {"think"}

\* A prompt behind a thought that was broken off is refused; behind a call
\* without a result it may be.
Prompted ==
    /\ child = "live" /\ Appends("prompt")
    /\ turn' = "on"
    /\ \E hurt \in IF LastTurn(file) = "think" THEN {TRUE} ELSE {FALSE, Broken(file)} :
          bricked' = (bricked \/ hurt)
    /\ UNCHANGED <<child, dying, resumeVars, viewVars>>

Proceeds ==
    /\ child = "live" /\ turn = "on" /\ ~bricked
    /\ \E kind \in Proceeding :
          Appends(kind) /\ turn' = IF kind = "text" THEN "idle" ELSE "on"
    /\ UNCHANGED <<child, bricked, dying, resumeVars, viewVars>>

\* What the API refuses, and what fails for the moment, leaves a placeholder.
Fails ==
    /\ child = "live" /\ turn = "on"
    /\ Appends("synth") /\ turn' = "idle"
    /\ UNCHANGED <<child, bricked, dying, resumeVars, viewVars>>

Interrupt ==
    /\ child = "live" /\ turn = "on"
    /\ appendTranscriptNotification
    /\ turn' = "stopping"
    /\ UNCHANGED <<child, bricked, dying, resumeVars, viewVars>>

StopsShort ==
    /\ child = "live" /\ turn = "stopping"
    /\ turn' = "idle"
    /\ \/ ~bricked /\ \E kind \in BrokenOff : Appends(kind)
       \/ UNCHANGED fileVars
    /\ UNCHANGED <<child, bricked, dying, resumeVars, viewVars>>

Reconfigure ==
    /\ appendTranscriptNotification
    /\ UNCHANGED <<childVars, resumeVars, viewVars>>

KillChild ==
    /\ child = "live" /\ ~dying
    /\ child' = "none" /\ turn' = "idle" /\ bricked' = FALSE
    /\ dying' = (turn = "on" /\ ~bricked)
    /\ UNCHANGED <<fileVars, resumeVars, viewVars>>

Dies ==
    /\ dying /\ dying' = FALSE
    /\ \/ UNCHANGED <<fileVars, tampered>>
       \/ /\ \E kind \in Proceeding \cup BrokenOff \cup {"torn"} : Appends(kind)
          /\ tampered' = (tampered \/ repair.st # "none" \/ child = "live")
    /\ UNCHANGED <<child, turn, bricked, repair, resumes, viewVars>>

(***************************************************************************)
(* A resume: what detectTranscriptPoison says of the lines read is cut off,*)
(* and what others append between the read and the write is lost with it.  *)
(***************************************************************************)
\* Variant: the result of a call is not seen as a boundary.
detectPastResults(lines) ==
    LET bounds == {i \in DOMAIN lines : lines[i].kind \in Turns \ {"result"}}
        b == IF bounds = {} THEN 0 ELSE CHOOSE i \in bounds : \A j \in bounds : j <= i
        clean == b = 0 \/ lines[b].kind = "text"
    IN  [cut |-> IF clean THEN b + 1 ELSE b,
         poisoned |-> \E i \in b + 1 .. Len(lines) : lines[i].kind = "synth"]

detectTranscriptPoison(lines) ==
    LET bounds == {i \in DOMAIN lines : lines[i].kind \in Turns}
        b == IF bounds = {} THEN 0 ELSE CHOOSE i \in bounds : \A j \in bounds : j <= i
        clean == b = 0 \/ ~Unfinished(lines[b].kind)
    IN  [cut |-> IF clean THEN b + 1 ELSE b,
         poisoned |-> \E i \in b + 1 .. Len(lines) : lines[i].kind = "synth"]

Rewritten(lines) == [i \in DOMAIN lines |-> IF lines[i].kind = "torn"
                                            THEN [lines[i] EXCEPT !.kind = "scrap"] ELSE lines[i]]

RepairReads ==
    /\ child = "none" /\ repair.st = "none" /\ resumes < MaxResumes
    /\ resumes' = resumes + 1
    /\ repair' = [st |-> "read", lines |-> file, dropped |-> 0]
    /\ UNCHANGED <<fileVars, childVars, tampered, viewVars>>

RepairWrites ==
    /\ repair.st = "read"
    /\ LET found == detectTranscriptPoison(repair.lines)
       IN  IF found.poisoned
           THEN /\ file' = Rewritten(SubSeq(repair.lines, 1, found.cut - 1))
                /\ repair' = [repair EXCEPT !.st = "done",
                                            !.dropped = Len(repair.lines) - found.cut + 1]
                /\ raced' = (raced \/ cursor # -1 \/ ticks # <<>>)
           ELSE repair' = [repair EXCEPT !.st = "done"] /\ UNCHANGED <<file, raced>>
    /\ UNCHANGED <<written, childVars, tampered, resumes, prefix, shown, cursor, ticks, reads>>

\* The new child reads the file; or it does not come up.
Respawned ==
    /\ repair.st = "done" /\ repair' = NoRepair
    /\ \/ child' = "live" /\ bricked' = Broken(file)
       \/ UNCHANGED <<child, bricked>>
    /\ UNCHANGED <<fileVars, turn, dying, tampered, resumes, viewVars>>

(***************************************************************************)
(* The browser: useAppendPoll over GET /sessions/:id/transcript.  A tick   *)
(* is sent every second, whether the one before was answered or not.       *)
(***************************************************************************)
\* Variant: the cursor counts the line of the system prompt.
transcriptRouteCounted(since) ==
    LET lines == readTranscript
        ids == [i \in DOMAIN lines |-> lines[i].id]
        all == (IF prefix THEN <<0>> ELSE <<>>) \o ids
    IN  IF since = -1 THEN [lines |-> all, cursor |-> Len(all)]
        ELSE [lines |-> SubSeq(ids, since + 1, Len(ids)), cursor |-> Len(ids)]

transcriptRoute(since) ==
    LET lines == readTranscript
        ids == [i \in DOMAIN lines |-> lines[i].id]
    IN  [lines |-> IF since = -1 THEN (IF prefix THEN <<0>> ELSE <<>>) \o ids
                   ELSE SubSeq(ids, since + 1, Len(ids)),
         cursor |-> Len(ids)]

ViewStays == UNCHANGED <<fileVars, childVars, resumeVars, prefix>>

TickSent ==
    /\ reads < MaxReads /\ Len(ticks) < 2
    /\ reads' = reads + 1
    /\ ticks' = Append(ticks, [st |-> "sent", since |-> cursor])
    /\ raced' = (raced \/ ticks # <<>>)
    /\ ViewStays /\ UNCHANGED <<shown, cursor>>

TickAnswered(k) ==
    /\ ticks[k].st = "sent"
    /\ LET answer == transcriptRoute(ticks[k].since)
       IN  ticks' = [ticks EXCEPT ![k] = [st |-> "answered", lines |-> answer.lines, cursor |-> answer.cursor]]
    /\ ViewStays /\ UNCHANGED <<shown, cursor, raced, reads>>

TickLands(k) ==
    /\ ticks[k].st = "answered"
    /\ shown' = IF cursor = -1 THEN ticks[k].lines ELSE shown \o ticks[k].lines
    /\ cursor' = ticks[k].cursor
    /\ ticks' = RemoveAt(ticks, k)
    /\ ViewStays /\ UNCHANGED <<raced, reads>>

TickLost(k) ==
    /\ ticks' = RemoveAt(ticks, k)
    /\ ViewStays /\ UNCHANGED <<shown, cursor, raced, reads>>

\* Another session was opened in between: what is under way is dropped.
Reopened ==
    /\ shown' = <<>> /\ cursor' = -1 /\ ticks' = <<>> /\ raced' = FALSE
    /\ ViewStays /\ UNCHANGED reads

(***************************************************************************)
(* An agent's `clobber transcript`.  A query is a function of the          *)
(* parameters that were given; grep is the kinds of line that match.       *)
(***************************************************************************)
DEFAULT_N == 20
DEFAULT_LIMIT == 20

parseGrepFilter(q) ==
    IF "grep" \notin DOMAIN q THEN [ok |-> DOMAIN q \cap {"context", "caseSensitive"} = {}]
    ELSE [ok |-> TRUE, match |-> q.grep, context |-> IF "context" \in DOMAIN q THEN q.context ELSE 0]

Refused == [ok |-> FALSE]

parseTranscriptQuery(q) ==
    LET given == DOMAIN q \cap {"last", "entry", "from", "to"}
        limit == IF "limit" \in DOMAIN q THEN q.limit ELSE DEFAULT_LIMIT
        detail == IF "detail" \in DOMAIN q THEN q.detail ELSE "medium"
        Selects(sel) == [ok |-> TRUE, selection |-> sel, detail |-> detail, filter |-> parseGrepFilter(q)]
    IN  IF ~parseGrepFilter(q).ok \/ Cardinality(given) > 1 THEN Refused
        ELSE CASE given = {"last"} ->
                    IF q.last = 0 THEN Refused ELSE Selects([kind |-> "last", n |-> q.last])
               [] given = {"entry"} ->
                    IF "limit" \in DOMAIN q THEN Refused ELSE Selects([kind |-> "entry", id |-> q.entry])
               [] given = {"from"} ->
                    IF limit = 0 THEN Refused ELSE Selects([kind |-> "from", id |-> q.from, n |-> limit])
               [] given = {"to"} ->
                    IF limit = 0 THEN Refused ELSE Selects([kind |-> "to", id |-> q.to, n |-> limit])
               [] given = {} /\ "grep" \in DOMAIN q -> Selects([kind |-> "all"])
               [] OTHER -> Selects([kind |-> "last", n |-> DEFAULT_N])

parseIndex(id, length) == id \in 0 .. length - 1

Interval(a, b) == [i \in 1 .. (IF b < a THEN 0 ELSE b - a + 1) |-> a + i - 1]

\* Variant: a window that ends at an entry starts one too early.
applySelectionWide(length, sel) ==
    CASE sel.kind = "all" -> Interval(0, length - 1)
      [] sel.kind = "last" -> Interval(IF length < sel.n THEN 0 ELSE length - sel.n, length - 1)
      [] OTHER ->
           IF ~parseIndex(sel.id, length) THEN <<>>
           ELSE CASE sel.kind = "entry" -> <<sel.id>>
                  [] sel.kind = "from" ->
                       Interval(sel.id, IF sel.id + sel.n > length THEN length - 1 ELSE sel.id + sel.n - 1)
                  [] sel.kind = "to" ->
                       Interval(IF sel.id < sel.n THEN 0 ELSE sel.id - sel.n, sel.id)

\* The entries of a window, which are numbered from 0.
applySelection(length, sel) ==
    CASE sel.kind = "all" -> Interval(0, length - 1)
      [] sel.kind = "last" -> Interval(IF length < sel.n THEN 0 ELSE length - sel.n, length - 1)
      [] OTHER ->
           IF ~parseIndex(sel.id, length) THEN <<>>
           ELSE CASE sel.kind = "entry" -> <<sel.id>>
                  [] sel.kind = "from" ->
                       Interval(sel.id, IF sel.id + sel.n > length THEN length - 1 ELSE sel.id + sel.n - 1)
                  [] sel.kind = "to" ->
                       Interval(IF sel.id + 1 < sel.n THEN 0 ELSE sel.id - sel.n + 1, sel.id)

\* What matches, with its neighbours in the window.
applyGrep(lines, entries, filter) ==
    LET hits == {j \in DOMAIN entries : lines[entries[j] + 1].kind \in filter.match}
        near == {i \in DOMAIN entries : \E j \in hits : i - j \in -filter.context .. filter.context}
    IN  ElementsAt(entries, near)

\* What a user or the assistant said in plain text is a message, a thought, a
\* call or its result an event.
classify(line) == IF line.kind \in {"prompt", "note", "text", "synth"} THEN "message" ELSE "event"

\* The least detail has the messages only.
formatEntry(line, detail) == detail = "low" => classify(line) = "message"

\* The entries an answer shows: of the window, what the detail has, and of that what matches.
formatTranscript(lines, q) ==
    LET parsed == parseTranscriptQuery(q)
        window == applySelection(Len(lines), parsed.selection)
        entries == ElementsAt(window, {i \in DOMAIN window : formatEntry(lines[window[i] + 1], parsed.detail)})
    IN  IF ~parsed.ok THEN <<>>
        ELSE IF "grep" \in DOMAIN q THEN applyGrep(lines, entries, parsed.filter) ELSE entries

TransInit ==
    /\ file = <<>> /\ written = 0
    /\ child = "live" /\ turn = "idle" /\ bricked = FALSE /\ dying = FALSE
    /\ repair = NoRepair /\ tampered = FALSE /\ resumes = 0
    /\ prefix \in BOOLEAN
    /\ shown = <<>> /\ cursor = -1 /\ ticks = <<>> /\ raced = FALSE /\ reads = 0

TransNext ==
    \/ Prompted \/ Proceeds \/ Fails \/ Interrupt \/ StopsShort \/ Reconfigure \/ KillChild \/ Dies
    \/ RepairReads \/ RepairWrites \/ Respawned
    \/ TickSent \/ Reopened
    \/ \E k \in DOMAIN ticks : TickAnswered(k) \/ TickLands(k) \/ TickLost(k)

TransSpec == TransInit /\ [][TransNext]_transVars

(***************************************************************************)
(* Properties.                                                             *)
(***************************************************************************)
(* What a repair cuts of the lines it read never holds a finished answer,  *)
(* or the result of a call, and holds at most one unfinished turn, at its  *)
(* start: a wrongful cut is data loss.  And what it leaves when it cut     *)
(* something is a history that the next turn can build on: the broken turn *)
(* is gone with the debris, and no earlier one comes to light.  (A killed  *)
(* child that writes on after a resume is out of the server's hands.)      *)
RepairSpares ==
    repair.st = "done" =>
        LET lines == repair.lines
            first == Len(lines) - repair.dropped + 1
        IN  /\ \A i \in first .. Len(lines) :
                  lines[i].kind \in Turns => i = first /\ Unfinished(lines[i].kind)
            /\ repair.dropped > 0 /\ ~tampered => ~Broken(SubSeq(lines, 1, first - 1))

(* While the ticks of an open view do not overlap and no repair has cut    *)
(* the file under it, it shows the system prompt, if there is one, and the *)
(* lines up to its cursor, each once, whatever was appended in between.    *)
ViewerTracks ==
    ~raced /\ cursor # -1 =>
        LET lines == readTranscript
        IN  /\ cursor <= Len(lines)
            /\ shown = (IF prefix THEN <<0>> ELSE <<>>) \o [i \in 1 .. cursor |-> lines[i].id]

(* Whoever pages through a transcript, forward with --from or back with    *)
(* --to, sees every entry that the detail has once, also of a search, the  *)
(* newest entries are the window that ends at the last one, and a search   *)
(* without a window is one of all pages.                                   *)
WindowsTile ==
    \A w \in 1 .. MaxWindow, detail \in {"low", "medium", "full"} :
        LET lines == readTranscript
            n == Len(lines)
            pages == (n + w - 1) \div w
            sees(q) == formatTranscript(lines, q)
            match == {"prompt", "tool"}
            forward(k) == [detail |-> detail, from |-> (k - 1) * w, limit |-> w]
            last(k) == n - 1 - (pages - k) * w
            back(k) == [detail |-> detail, to |-> last(k), limit |-> w]
            searched(k) == [detail |-> detail, grep |-> match, to |-> last(k), limit |-> w]
            all == ElementsAt(Interval(0, n - 1),
                              {i \in 1 .. n : detail = "low" => lines[i].kind \notin Turns \ {"text"}})
        IN  /\ FlattenSeq([k \in 1 .. pages |-> sees(forward(k))]) = all
            /\ FlattenSeq([k \in 1 .. pages |-> sees(back(k))]) = all
            /\ FlattenSeq([k \in 1 .. pages |-> sees(searched(k))]) = sees([detail |-> detail, grep |-> match])
            /\ n > 0 => sees([detail |-> detail, last |-> w]) = sees(back(pages))
=============================================================================
