------------------------------ MODULE EventLog ------------------------------
(* What the backend makes of the events an agent's claude process reports    *)
(* (stream.py): every event is stored, and then the row of the agent, the    *)
(* session results and the feed are brought up to date from it, with an      *)
(* await between the reads and the writes.  A consumer handles its events    *)
(* one at a time, on a copy of the row that it loaded when it connected; when *)
(* the link breaks or the agent is restarted a second consumer takes over    *)
(* while the first still drains what it received.                            *)
EXTENDS Naturals, Sequences

CONSTANTS
  MaxEvents,   \* bound: events that the runtime sends
  MaxQueued,   \* bound: events received and not yet handled
  EventFaults  \* what may happen beside the events: records of counters

VARIABLES
  source,   \* the runtime: its topic, turn, conversation, money spent, events sent, link
  inbound,  \* per consumer, the events received and not yet handled
  frame,    \* per consumer, the handler it is in, and its copy of the row
  view,     \* the columns of the Agent row derived from the events
  journal,  \* StreamEvent rows, and the restarts, mode changes and readiness among them
  billed,   \* SessionResult rows
  told,     \* feed items of results: what assistant event each one quotes
  doubt,    \* ghost: columns and items whose last handler was crossed or raised
  faults    \* faults and calls left

el_vars == <<source, inbound, frame, view, journal, billed, told, doubt, faults>>

Consumers == {1, 2}
Conversations == {1, 2}
Columns == {"status", "snap", "phase", "session", "perm", "mode"}

-----------------------------------------------------------------------------
(* Events, and what each kind writes.                                       *)

\* adapters/claude_code: permission modes of the process and the modes they stand for.
PermToMode == [bypassPermissions |-> "auto", acceptEdits |-> "supervised", default |-> "supervised"]
ModeToPerm == [auto |-> "bypassPermissions", supervised |-> "default"]

\* The columns of the row, and the bill, that the handler of an event may write.
Writes(e) ==
  CASE e.kind = "assistant"          -> {"status", "snap"}
    [] e.kind = "result"             -> {"status", "snap", "phase", "bill"}
    [] e.kind = "init"               -> {"session"}
    [] e.kind = "status"             -> {"perm", "mode"}
    [] e.kind \in {"block", "stop"}  -> {"phase"}

\* Mutant: the snapshot of a result is taken from the consumer's copy.
Refresh_NotSnapshot(e) ==
  CASE e.kind = "assistant"            -> {"status", "mode"}
    [] e.kind = "result"               -> {"status", "phase"}
    [] e.kind \in {"init", "status"}   -> {"session", "perm", "mode", "status", "phase"}
    [] e.kind \in {"block", "stop"}    -> {"phase"}
\* The columns that the handler reads again before it decides.
Refresh(e) ==
  CASE e.kind = "assistant"            -> {"status", "mode"}
    [] e.kind = "result"               -> {"snap", "status", "phase"}
    [] e.kind \in {"init", "status"}   -> {"session", "perm", "mode", "status", "phase"}
    [] e.kind \in {"block", "stop"}    -> {"phase"}

\* A block starts a phase; the end of a message ends the input of a tool.
NextPhase(e, phase) ==
  IF e.kind = "block" THEN e.phase
  ELSE IF phase = "tool-input" THEN "tool-use" ELSE phase

NewView(status) ==
  [status |-> status, snap |-> [assistant |-> 0, result |-> 0], phase |-> "", session |-> 0,
   perm |-> "default", mode |-> "supervised"]

Closed(copy) == [at |-> "free", event |-> 0, crossed |-> FALSE, copy |-> copy]

EventsInit ==
  /\ source \in [topic : {"answers", "phases", "modes"}, turn : {FALSE}, session : {1},
                 spent : {[s \in Conversations |-> 0]}, sent : {0}, link : {1}, up : {TRUE}]
  /\ inbound = [c \in Consumers |-> <<>>]
  /\ frame = [c \in Consumers |-> Closed(NewView("idle"))]
  /\ view = NewView("idle")
  /\ journal = <<>> /\ billed = <<>> /\ told = [i \in {} |-> 0]
  /\ doubt = [columns |-> {}, items |-> {}]
  /\ faults \in EventFaults

-----------------------------------------------------------------------------
(* The claude process, as the runtime forwards it.                          *)

Send(e) ==
  /\ source.up /\ source.sent < MaxEvents /\ Len(inbound[source.link]) < MaxQueued
  /\ inbound' = [inbound EXCEPT ![source.link] = Append(@, e)]
  /\ UNCHANGED <<frame, view, journal, billed, told, doubt, faults>>

\* A turn begins in the conversation or in a new one.
BeginTurn ==
  \E s \in {source.session, source.session + 1} \cap Conversations :
    /\ ~source.turn
    /\ source' = [source EXCEPT !.turn = TRUE, !.session = s, !.sent = @ + 1]
    /\ Send([kind |-> "init", session |-> s])

Speak ==
  /\ source.turn
  /\ source' = [source EXCEPT !.sent = @ + 1]
  /\ \/ \E t \in BOOLEAN : source.topic = "answers" /\ Send([kind |-> "assistant", text |-> t])
     \/ source.topic = "phases" /\ Send([kind |-> "assistant", text |-> TRUE])
     \/ \E p \in {"responding", "tool-input"} :
          source.topic = "phases" /\ Send([kind |-> "block", phase |-> p])
     \/ source.topic = "phases" /\ Send([kind |-> "stop"])
     \/ \E p \in {"bypassPermissions", "acceptEdits", "unknown"} :
          source.topic = "modes" /\ Send([kind |-> "status", perm |-> p])

\* The result names the cost of the conversation so far.
FinishTurn ==
  \E error \in BOOLEAN :
    LET s == source.session
    IN  /\ source.turn
        /\ source' = [source EXCEPT !.turn = FALSE, !.sent = @ + 1, !.spent[s] = @ + 1]
        /\ Send([kind |-> "result", session |-> s, cost |-> source.spent[s] + 1, error |-> error])

\* A process that fails is reported by an execution event of its own type
\* (process_exit), which the consumer does not look into: the turn just ends.
ProcessFails ==
  /\ source.turn /\ source.topic = "answers"
  /\ source' = [source EXCEPT !.turn = FALSE]
  /\ UNCHANGED <<inbound, frame, view, journal, billed, told, doubt, faults>>

-----------------------------------------------------------------------------
(* Handling an event: Store, Read, then the writes of its kind.             *)

EventIn(c) == journal[frame[c].event]
OpenIn(f) == f.at # "free"
Touching(columns) == {c \in Consumers : OpenIn(frame[c]) /\ Writes(EventIn(c)) \cap columns # {}}

\* Another write to the columns crosses the handlers that are open on them.
Cross(columns) == [c \in Consumers |->
                     IF c \in Touching(columns) THEN [frame[c] EXCEPT !.crossed = TRUE] ELSE frame[c]]

\* A handler ends: what it wrote alone is known again, what it shared or left is not.
EndAs(c, copy, sound, healed) ==
  LET e == EventIn(c)
      shaky == frame[c].crossed \/ ~sound
      lost == Writes(e) \ (IF frame[c].crossed THEN {} ELSE {"bill"})
  IN  /\ frame' = [frame EXCEPT ![c] = Closed(copy)]
      /\ doubt' = [columns |-> IF shaky THEN doubt.columns \cup lost ELSE doubt.columns \ healed,
                   items |-> IF shaky THEN doubt.items \cup {frame[c].event} ELSE doubt.items]
\* relay.event_failed: the exception is logged and the rest of the handler is left out.
HandlerRaises(c, copy) == EndAs(c, copy, FALSE, {})
GoOn(c, at, copy) ==
  /\ frame' = [frame EXCEPT ![c].at = at, ![c].copy = copy]
  /\ UNCHANGED doubt

Store(c) ==
  /\ ~OpenIn(frame[c]) /\ inbound[c] # <<>>
  /\ LET e == Head(inbound[c])
     IN  /\ journal' = Append(journal, e)
         /\ frame' = [Cross(Writes(e)) EXCEPT
                        ![c] = [at |-> "read", event |-> Len(journal) + 1,
                                crossed |-> Touching(Writes(e)) # {}, copy |-> frame[c].copy]]
  /\ inbound' = [inbound EXCEPT ![c] = Tail(@)]
  /\ UNCHANGED <<source, view, billed, told, doubt, faults>>

Read(c) ==
  /\ frame[c].at = "read"
  /\ LET e == EventIn(c)
         copy == [k \in Columns |-> IF k \in Refresh(e) THEN view[k] ELSE frame[c].copy[k]]
         goOn(at) == GoOn(c, at, copy)
         nothing == EndAs(c, copy, TRUE, {})
     IN  \/ /\ e.kind = "assistant"
            /\ \/ copy.status = "running" /\ goOn("save")
               \/ copy.status = "idle" /\ goOn("promote")
               \/ copy.status = "deploying" /\ HandlerRaises(c, copy)
         \/ /\ e.kind = "result"
            /\ frame' = [frame EXCEPT ![c].at = "insert", ![c].copy = copy]
            /\ doubt' = [doubt EXCEPT !.items =
                           IF "snap" \in doubt.columns THEN @ \cup {frame[c].event} ELSE @]
         \/ e.kind = "init" /\ IF e.session = copy.session THEN nothing ELSE goOn("save")
         \/ e.kind = "status" /\ IF e.perm = copy.perm THEN nothing ELSE goOn("save")
         \/ /\ e.kind \in {"block", "stop"}
            /\ IF NextPhase(e, copy.phase) = copy.phase THEN nothing ELSE goOn("save")
  /\ UNCHANGED <<source, inbound, view, journal, billed, told, faults>>

\* _maybe_set_running saves the status before the snapshot.
Promote(c) ==
  /\ frame[c].at = "promote"
  /\ view' = [view EXCEPT !.status = "running"]
  /\ GoOn(c, "save", [frame[c].copy EXCEPT !.status = "running"])
  /\ UNCHANGED <<source, inbound, journal, billed, told, faults>>

\* The result is billed first; an agent that is idle already cannot become idle.
InsertResult(c) ==
  LET copy == frame[c].copy
  IN  /\ frame[c].at = "insert"
      /\ billed' = Append(billed, [session |-> EventIn(c).session, cost |-> EventIn(c).cost])
      /\ IF copy.status = "idle" THEN HandlerRaises(c, copy) ELSE GoOn(c, "save", copy)
      /\ UNCHANGED <<source, inbound, view, journal, told, faults>>

\* last_output of the snapshot: the text of its assistant event.
HasText(snap) == snap.assistant # 0 /\ journal[snap.assistant].text

SaveAssistant(c) ==
  LET snap == [assistant |-> frame[c].event, result |-> 0]
  IN  /\ frame[c].at = "save" /\ EventIn(c).kind = "assistant"
      /\ view' = [view EXCEPT !.snap = snap]
      /\ EndAs(c, [frame[c].copy EXCEPT !.snap = snap], TRUE, {"status", "snap"})
      /\ UNCHANGED <<source, inbound, journal, billed, told, faults>>

SaveResult(c) ==
  LET snap == [frame[c].copy.snap EXCEPT !.result = frame[c].event]
      copy == [frame[c].copy EXCEPT !.snap = snap, !.status = "idle", !.phase = ""]
  IN  /\ frame[c].at = "save" /\ EventIn(c).kind = "result"
      /\ view' = [view EXCEPT !.snap = snap, !.status = "idle", !.phase = ""]
      /\ IF EventIn(c).error \/ HasText(snap) THEN GoOn(c, "tell", copy)
                                             ELSE EndAs(c, copy, TRUE, {"status", "phase"})
      /\ UNCHANGED <<source, inbound, journal, billed, told, faults>>

TellResult(c) ==
  LET snap == frame[c].copy.snap
      quoted == IF HasText(snap) THEN snap.assistant ELSE 0
  IN  /\ frame[c].at = "tell"
      /\ told' = [i \in DOMAIN told \cup {frame[c].event} |->
                    IF i = frame[c].event THEN quoted ELSE told[i]]
      /\ EndAs(c, frame[c].copy, TRUE, {"status", "phase"})
      /\ UNCHANGED <<source, inbound, view, journal, billed, faults>>

\* Init, status and phase events write their own columns only.
SaveColumn(c) ==
  LET e == EventIn(c)
      copy == frame[c].copy
      known == e.perm \in DOMAIN PermToMode
      written ==
        CASE e.kind = "init"   -> [copy EXCEPT !.session = e.session]
          [] e.kind = "status" -> [copy EXCEPT !.perm = e.perm,
                                               !.mode = IF known THEN PermToMode[e.perm] ELSE @]
          [] e.kind \in {"block", "stop"} -> [copy EXCEPT !.phase = NextPhase(e, copy.phase)]
      changed == {k \in Columns : written[k] # copy[k]}
      healed == CASE e.kind = "status" /\ known -> changed
                  [] e.kind = "status" -> {"perm"}
                  [] e.kind = "stop" -> {}
                  [] OTHER -> Writes(e)
  IN  /\ frame[c].at = "save" /\ e.kind \in {"init", "status", "block", "stop"}
      /\ view' = [k \in Columns |-> IF k \in changed THEN written[k] ELSE view[k]]
      /\ EndAs(c, written, TRUE, healed)
      /\ UNCHANGED <<source, inbound, journal, billed, told, faults>>

-----------------------------------------------------------------------------
(* The user, the link and the container.                                    *)

\* An entry of the journal that is no event, with the columns it writes.
Note(entry, columns) ==
  /\ journal' = Append(journal, entry)
  /\ doubt' = [doubt EXCEPT !.columns = @ \ columns]

\* set_agent_mode: refused unless the agent runs or is idle, and not repeated.
SetMode ==
  \E m \in DOMAIN ModeToPerm :
    /\ source.topic = "modes" /\ faults.modes > 0
    /\ view.status \in {"running", "idle"} /\ view.mode # m
    /\ view' = [view EXCEPT !.mode = m, !.perm = ModeToPerm[m]]
    /\ frame' = Cross({"perm", "mode"})
    /\ Note([kind |-> "set", perm |-> ModeToPerm[m]], {"perm", "mode"})
    /\ faults' = [faults EXCEPT !.modes = @ - 1]
    /\ UNCHANGED <<source, inbound, billed, told>>

\* The link is lost with what was under way; the consumer handles what it has.
Leave ==
  \E n \in 0 .. Len(inbound[1]) : inbound' = [inbound EXCEPT ![1] = SubSeq(@, 1, n)]

LinkBreaks ==
  /\ source.link = 1 /\ faults.breaks > 0
  /\ Leave
  /\ source' = [source EXCEPT !.link = 2, !.up = FALSE]
  /\ faults' = [faults EXCEPT !.breaks = @ - 1]
  /\ UNCHANGED <<frame, view, journal, billed, told, doubt>>

\* _atomic_reset_for_restart: a running agent cannot be deployed again.
HardRestart ==
  /\ source.link = 1 /\ faults.restarts > 0 /\ view.status = "idle"
  /\ Leave
  /\ source' = [source EXCEPT !.link = 2, !.up = FALSE, !.turn = FALSE]
  /\ view' = [NewView("deploying") EXCEPT !.perm = view.perm, !.mode = view.mode]
  /\ frame' = Cross({"status", "snap", "phase", "session"})
  /\ Note([kind |-> "restart"], {"status", "snap", "phase", "session"})
  /\ faults' = [faults EXCEPT !.restarts = @ - 1]
  /\ UNCHANGED <<billed, told>>

\* RelayConsumer.connect of the next link loads the row.
LinkOpens ==
  /\ ~source.up
  /\ source' = [source EXCEPT !.up = TRUE]
  /\ frame' = [frame EXCEPT ![2].copy = view]
  /\ UNCHANGED <<inbound, view, journal, billed, told, doubt, faults>>

\* runtime_status of the new runtime, decided on the copy that connect loaded.
RuntimeReady ==
  /\ source.up /\ source.link = 2
  /\ ~OpenIn(frame[2]) /\ frame[2].copy.status = "deploying"
  /\ view' = [view EXCEPT !.status = "idle"]
  /\ frame' = [Cross({"status"}) EXCEPT ![2].copy = view']
  /\ Note([kind |-> "ready"], {"status"})
  /\ UNCHANGED <<source, inbound, billed, told, faults>>

EventsNext ==
  \/ BeginTurn \/ Speak \/ FinishTurn \/ ProcessFails
  \/ SetMode \/ LinkBreaks \/ HardRestart \/ LinkOpens \/ RuntimeReady
  \/ \E c \in Consumers :
       \/ Store(c) \/ Read(c) \/ Promote(c) \/ InsertResult(c)
       \/ SaveAssistant(c) \/ SaveResult(c) \/ TellResult(c) \/ SaveColumn(c)

EventsSpec == EventsInit /\ [][EventsNext]_el_vars

-----------------------------------------------------------------------------
(* What the first n entries of the log say, column by column.               *)

Newest(at) == IF at = {} THEN 0 ELSE CHOOSE i \in at : \A j \in at : j <= i
Latest(n, kinds) == Newest({i \in 1 .. n : journal[i].kind \in kinds})

LogStatus(n) ==
  LET i == Latest(n, {"assistant", "result", "restart", "ready"})
  IN  IF i = 0 THEN "idle"
      ELSE CASE journal[i].kind = "assistant" -> "running"
             [] journal[i].kind = "restart"   -> "deploying"
             [] OTHER                         -> "idle"

\* The last assistant event since the reset, and the result after it.
LogSnap(n) ==
  LET reset == Latest(n, {"restart"})
      a == Latest(n, {"assistant"})
      r == Latest(n, {"result"})
      answer == IF a > reset THEN a ELSE 0
  IN  [assistant |-> answer, result |-> IF r > reset /\ r > answer THEN r ELSE 0]

LogPhase(n) ==
  LET i == Latest(n, {"block", "result", "restart"})
      begun == IF i = 0 \/ journal[i].kind # "block" THEN "" ELSE journal[i].phase
  IN  IF begun = "tool-input" /\ Latest(n, {"stop"}) > i THEN "tool-use" ELSE begun

LogSession(n) ==
  LET i == Latest(n, {"init", "restart"})
  IN  IF i = 0 \/ journal[i].kind = "restart" THEN 0 ELSE journal[i].session

LogPerm(n) ==
  LET i == Latest(n, {"status", "set"}) IN IF i = 0 THEN "default" ELSE journal[i].perm

LogMode(n) ==
  LET i == Newest({j \in 1 .. n : /\ journal[j].kind \in {"status", "set"}
                                  /\ journal[j].perm \in DOMAIN PermToMode})
  IN  IF i = 0 THEN "supervised" ELSE PermToMode[journal[i].perm]

Log(column, n) ==
  CASE column = "status"  -> LogStatus(n)
    [] column = "snap"    -> LogSnap(n)
    [] column = "phase"   -> LogPhase(n)
    [] column = "session" -> LogSession(n)
    [] column = "perm"    -> LogPerm(n)
    [] column = "mode"    -> LogMode(n)

\* The last cost of a conversation, in the log and in the bill
\* (_compute_agent_total_cost_sync).
LogCost(s, n) ==
  LET i == Newest({j \in 1 .. n : journal[j].kind = "result" /\ journal[j].session = s})
  IN  IF i = 0 THEN 0 ELSE journal[i].cost
BilledCost(s) ==
  LET i == Newest({j \in DOMAIN billed : billed[j].session = s})
  IN  IF i = 0 THEN 0 ELSE billed[i].cost

Known(column) == column \notin doubt.columns /\ Touching({column}) = {}

\* The row mirrors the log: a column that no open handler is about to write, and whose
\* last handler neither raised nor crossed another write of it, is what the stored events
\* say: the last pair of answer and result, the status and phase they leave, the
\* conversation, the permission mode and the mode it stands for.
RowMirrorsLog == \A k \in Columns : Known(k) => view[k] = Log(k, Len(journal))

\* The bill of an agent is the last cost of each of its conversations, also when the
\* handler of a result raises; and it never exceeds what the runtime reported.
BillFollowsLog ==
  \A s \in Conversations : /\ Known("bill") => BilledCost(s) = LogCost(s, Len(journal))
                           /\ BilledCost(s) <= source.spent[s]

\* A result has its feed item: an error always, a summary when the answer before it has
\* text, and the text is of that answer; unless its handler raised, was crossed, or found
\* a snapshot in doubt.
ResultsAreTold ==
  \A i \in DOMAIN journal :
    (/\ journal[i].kind = "result" /\ i \notin doubt.items
     /\ \A c \in Consumers : frame[c].event # i) =>
      LET a == LogSnap(i).assistant
      IN  /\ i \in DOMAIN told <=> (journal[i].error \/ HasText(LogSnap(i)))
          /\ i \in DOMAIN told => told[i] = IF HasText(LogSnap(i)) THEN a ELSE 0

\* What the dashboard shows of an agent is what its events say.
ViewFollowsLog == RowMirrorsLog /\ BillFollowsLog /\ ResultsAreTold
=============================================================================
