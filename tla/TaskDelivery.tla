---------------------------- MODULE TaskDelivery ----------------------------
(***************************************************************************)
(* How a message reaches the executor of one agent.  The backend appends   *)
(* a line to _abox/inbox.jsonl and pushes a reload command; the transport  *)
(* thread of the runtime reads the lines after its durable cursor, queues  *)
(* them in memory and moves the cursor; the task-runner thread executes    *)
(* them one by one.  The updates its observers send back to the backend    *)
(* over the same websocket have no effect on any of this and are left out. *)
(*                                                                         *)
(* Line m of the inbox is message m, and the cursor counts lines (bytes in *)
(* the code).  The store is the shared filesystem of the Docker backend.   *)
(***************************************************************************)
EXTENDS Naturals, Sequences

CONSTANTS
    MaxMessages,   \* bound: messages sent
    MaxClears,     \* bound: clear signals
    MaxDrops,      \* bound: losses of the websocket
    MaxCrashes,    \* bound: deaths of the runtime process
    Faults         \* which of FaultKinds happen

\* torn: a reader can see part of the line being appended.
\* cursorFails: writing the cursor file raises.
\* refusedPush: push_to_relay finds relay_connected FALSE although the link is
\* up: before connect() has saved it, or after an older consumer cleared it.
FaultKinds == {"torn", "cursorFails", "refusedPush"}

ASSUME DeliveryAssumption ==
    /\ MaxMessages \in Nat \ {0}
    /\ MaxClears \in Nat
    /\ MaxDrops \in Nat
    /\ MaxCrashes \in Nat
    /\ Faults \subseteq FaultKinds

VARIABLES
    sent,      \* complete lines of inbox.jsonl
    writing,   \* a further line is partly written
    pushed,    \* messages whose append_task returned and whose reload was pushed
    wire,      \* commands on the websocket, towards the runtime
    clears,    \* clear signals sent
    cursor,    \* last offset saved in inbox.cursor.json
    damaged,   \* that file is truncated and not yet rewritten
    seen,      \* _last_inbox_signature
    tx,        \* the transport thread
    tasks,     \* TaskRunner._tasks: the state of each record
    queue,     \* TaskRunner._queue
    hand,      \* the request the runner thread has taken from the queue
    fate,      \* history: what earlier lives of the runtime did with a message
    drops, crashes

file   == <<sent, writing, cursor, damaged>>
memory == <<seen, tasks, queue, hand>>
ends   == <<fate, drops, crashes>>
vars   == <<sent, writing, pushed, wire, clears, cursor, damaged, seen, tx, tasks,
            queue, hand, fate, drops, crashes>>

Messages == 1..MaxMessages
TaskStates == {"none", "queued", "running", "finished", "cleared"}
Fates == {"none", "finished", "cleared", "lost"}
None == 0
Unsigned == MaxMessages + 1   \* the signature is None or that of a partial line

Command == [kind : {"reload", "clear"}, after : 0..MaxMessages]

Steps == {"down", "load", "submit", "store", "sign", "poll", "recv"}

\* The transport thread: its step; whether a poll or a command made it load;
\* the lines loaded, and the next of them to submit.
Transport == [pc : Steps, polled : BOOLEAN, upto : 0..MaxMessages,
              at : 1..(MaxMessages + 1)]

Down == [pc |-> "down", polled |-> FALSE, upto |-> 0, at |-> 1]

TypeOK ==
    /\ sent \in 0..MaxMessages /\ writing \in BOOLEAN
    /\ pushed \in 0..MaxMessages
    /\ wire \in Seq(Command)
    /\ clears \in 0..MaxClears
    /\ cursor \in 0..MaxMessages /\ damaged \in BOOLEAN
    /\ seen \in 0..Unsigned
    /\ tx \in Transport
    /\ tasks \in [Messages -> TaskStates]
    /\ queue \in Seq(Messages)
    /\ hand \in Messages \union {None}
    /\ fate \in [Messages -> Fates]
    /\ drops \in 0..MaxDrops /\ crashes \in 0..MaxCrashes

Init ==
    /\ sent = 0 /\ writing = FALSE /\ pushed = 0
    /\ wire = <<>> /\ clears = 0
    /\ cursor = 0 /\ damaged = FALSE
    /\ seen = Unsigned
    /\ tx = Down
    /\ tasks = [m \in Messages |-> "none"]
    /\ queue = <<>> /\ hand = None
    /\ fate = [m \in Messages |-> "none"]
    /\ drops = 0 /\ crashes = 0

-----------------------------------------------------------------------------
\* Backend

\* AgentMachine.append_inbox.  A long line reaches the file in pieces.
AppendPart ==
    /\ "torn" \in Faults
    /\ sent < MaxMessages /\ ~writing
    /\ writing' = TRUE
    /\ UNCHANGED <<sent, pushed, wire, clears, cursor, damaged, tx, memory, ends>>

Append1 ==
    /\ sent < MaxMessages
    /\ sent' = sent + 1
    /\ writing' = FALSE
    /\ UNCHANGED <<pushed, wire, clears, cursor, damaged, tx, memory, ends>>

\* deliver_input after the append: push_to_relay.
Push ==
    /\ pushed < sent
    /\ pushed' = pushed + 1
    /\ \/ /\ tx.pc # "down"
          /\ wire' = Append(wire, [kind |-> "reload", after |-> 0])
       \/ /\ tx.pc = "down" \/ "refusedPush" \in Faults
          /\ UNCHANGED wire
    /\ UNCHANGED <<clears, file, tx, memory, ends>>

\* clear_agent_session.  `after` is history: what was pushed before the signal.
SendClear ==
    /\ clears < MaxClears
    /\ clears' = clears + 1
    /\ tx.pc # "down"
    /\ wire' = Append(wire, [kind |-> "clear", after |-> pushed])
    /\ UNCHANGED <<pushed, file, tx, memory, ends>>

-----------------------------------------------------------------------------
\* Transport thread: _run_connector and _default_connector

\* The connector raised or the link broke: everything on the link is lost.
Disconnected == tx' = Down /\ wire' = <<>>

\* Mutant: a reconnect relies on polling.
Connect_PollsOnly ==
    /\ tx.pc = "down"
    /\ tx' = [Down EXCEPT !.pc = "poll"]
    /\ UNCHANGED <<pushed, wire, clears, file, memory, ends>>

\* mark_connected, then on_connected reconciles the inbox.
Connect ==
    /\ tx.pc = "down"
    /\ tx' = [Down EXCEPT !.pc = "load"]
    /\ UNCHANGED <<pushed, wire, clears, file, memory, ends>>

\* load_new_inbox_entries: every complete line after the cursor.
Load ==
    /\ tx.pc = "load"
    /\ ~writing /\ ~damaged
    /\ tx' = [tx EXCEPT !.pc = IF cursor = sent THEN "sign" ELSE "submit",
                        !.upto = sent, !.at = cursor + 1]
    /\ UNCHANGED <<pushed, wire, clears, file, memory, ends>>

\* A partial line or an empty cursor file does not parse: the exception ends
\* the connection, and none of the complete lines is submitted.
LoadFails ==
    /\ tx.pc = "load"
    /\ writing \/ damaged
    /\ Disconnected
    /\ UNCHANGED <<pushed, clears, file, memory, ends>>

\* Mutant: submit_request without the check for a known id.
Submit_Again ==
    /\ tx.pc = "submit" /\ tx.at <= tx.upto
    /\ tasks' = [tasks EXCEPT ![tx.at] = "queued"]
    /\ queue' = Append(queue, tx.at)
    /\ tx' = [tx EXCEPT !.at = @ + 1]
    /\ UNCHANGED <<pushed, wire, clears, file, seen, hand, ends>>

\* submit_request: a known id is skipped.
Submit ==
    /\ tx.pc = "submit" /\ tx.at <= tx.upto
    /\ IF tasks[tx.at] = "none"
         THEN /\ tasks' = [tasks EXCEPT ![tx.at] = "queued"]
              /\ queue' = Append(queue, tx.at)
         ELSE UNCHANGED <<tasks, queue>>
    /\ tx' = [tx EXCEPT !.at = @ + 1]
    /\ UNCHANGED <<pushed, wire, clears, file, seen, hand, ends>>

\* store_inbox_cursor is Path.write_text: truncate, then write.
Truncate ==
    /\ tx.pc = "submit" /\ tx.at > tx.upto
    /\ damaged' = TRUE
    /\ tx' = [tx EXCEPT !.pc = "store"]
    /\ UNCHANGED <<pushed, wire, clears, sent, writing, cursor, memory, ends>>

\* The file cannot be opened.
CursorFails ==
    /\ "cursorFails" \in Faults
    /\ drops < MaxDrops
    /\ tx.pc = "submit" /\ tx.at > tx.upto
    /\ drops' = drops + 1
    /\ Disconnected
    /\ UNCHANGED <<pushed, clears, file, memory, fate, crashes>>

\* Mutant: the offset saved is the size of the file, not where reading ended.
Store_Size ==
    /\ tx.pc = "store"
    /\ cursor' = sent /\ damaged' = FALSE
    /\ tx' = [tx EXCEPT !.pc = "sign"]
    /\ UNCHANGED <<pushed, wire, clears, sent, writing, memory, ends>>

Store ==
    /\ tx.pc = "store"
    /\ cursor' = tx.upto /\ damaged' = FALSE
    /\ tx' = [tx EXCEPT !.pc = "sign"]
    /\ UNCHANGED <<pushed, wire, clears, sent, writing, memory, ends>>

\* _inbox_signature after the reconcile: it may cover lines that were appended
\* since Load.
Signature == IF writing THEN Unsigned ELSE sent

Sign ==
    /\ tx.pc = "sign"
    /\ seen' = Signature
    /\ tx' = [tx EXCEPT !.pc = IF tx.polled THEN "recv" ELSE "poll", !.polled = FALSE]
    /\ UNCHANGED <<pushed, wire, clears, file, tasks, queue, hand, ends>>

\* on_transport_poll
Poll ==
    /\ tx.pc = "poll"
    /\ IF seen = Signature /\ seen # Unsigned
         THEN tx' = [tx EXCEPT !.pc = "recv"]
         ELSE tx' = [tx EXCEPT !.pc = "load", !.polled = TRUE]
    /\ UNCHANGED <<pushed, wire, clears, file, memory, ends>>

\* ws.recv times out.
RecvNothing ==
    /\ tx.pc = "recv" /\ wire = <<>>
    /\ tx' = [tx EXCEPT !.pc = "poll"]
    /\ UNCHANGED <<pushed, wire, clears, file, memory, ends>>

\* Mutant: a reload of the inbox is left to the next poll.
RecvReload_Polls ==
    /\ tx.pc = "recv" /\ wire # <<>> /\ Head(wire).kind = "reload"
    /\ wire' = Tail(wire)
    /\ tx' = [tx EXCEPT !.pc = "poll"]
    /\ UNCHANGED <<pushed, clears, file, memory, ends>>

RecvReload ==
    /\ tx.pc = "recv" /\ wire # <<>> /\ Head(wire).kind = "reload"
    /\ wire' = Tail(wire)
    /\ tx' = [tx EXCEPT !.pc = "load"]
    /\ UNCHANGED <<pushed, clears, file, memory, ends>>

\* clear_pending: every request left in the queue is cleared.  The drain does
\* not exclude the runner thread, which when idle may win one of them.
RecvClear ==
    /\ tx.pc = "recv" /\ wire # <<>> /\ Head(wire).kind = "clear"
    /\ \E won \in 0..Len(queue) :
         LET dropped == {queue[i] : i \in (1..Len(queue)) \ {won}} IN
         /\ won # 0 => hand = None
         /\ hand' = IF won = 0 THEN hand ELSE queue[won]
         /\ tasks' = [m \in Messages |-> IF m \in dropped THEN "cleared" ELSE tasks[m]]
    /\ queue' = <<>>
    /\ wire' = Tail(wire)
    /\ tx' = [tx EXCEPT !.pc = "poll"]
    /\ UNCHANGED <<pushed, clears, file, seen, ends>>

\* The link breaks, which the thread notices when it next sends or receives.
LinkDrops ==
    /\ drops < MaxDrops
    /\ tx.pc = "recv"
    /\ drops' = drops + 1
    /\ Disconnected
    /\ UNCHANGED <<pushed, clears, file, memory, fate, crashes>>

TransportThread ==
    \/ Connect \/ Load \/ LoadFails \/ Submit \/ Truncate \/ Store
    \/ Sign \/ Poll \/ RecvNothing \/ RecvReload \/ RecvClear

-----------------------------------------------------------------------------
\* Task-runner thread: TaskRunner._run

Take ==
    /\ hand = None /\ queue # <<>>
    /\ hand' = Head(queue)
    /\ queue' = Tail(queue)
    /\ UNCHANGED <<pushed, wire, clears, file, tx, seen, tasks, ends>>

Start ==
    /\ hand # None /\ tasks[hand] # "running"
    /\ tasks' = [tasks EXCEPT ![hand] = "running"]
    /\ UNCHANGED <<pushed, wire, clears, file, tx, seen, queue, hand, ends>>

\* completed and failed are one state here.
Finish ==
    /\ hand # None /\ tasks[hand] = "running"
    /\ tasks' = [tasks EXCEPT ![hand] = "finished"]
    /\ hand' = None
    /\ UNCHANGED <<pushed, wire, clears, file, tx, seen, queue, ends>>

Runner == Take \/ Start \/ Finish

-----------------------------------------------------------------------------
\* The process dies: its memory is gone, the files stay.
Crash ==
    /\ crashes < MaxCrashes
    /\ crashes' = crashes + 1
    /\ fate' = [m \in Messages |->
                  CASE tasks[m] = "none" -> fate[m]
                    [] tasks[m] \in {"queued", "running"} -> "lost"
                    [] OTHER -> tasks[m]]
    /\ tasks' = [m \in Messages |-> "none"]
    /\ queue' = <<>> /\ hand' = None
    /\ seen' = Unsigned
    /\ Disconnected
    /\ UNCHANGED <<pushed, clears, file, drops>>

Next ==
    \/ AppendPart \/ Append1 \/ Push \/ SendClear
    \/ TransportThread \/ CursorFails \/ LinkDrops
    \/ Runner
    \/ Crash

Spec == Init /\ [][Next]_vars

\* An append that began ends, a request that appended pushes, both threads run
\* and the executor returns.  Sending, faults and crashes are not forced.
FairSpec ==
    /\ Spec
    /\ WF_vars(writing /\ Append1)
    /\ WF_vars(Push)
    /\ WF_vars(TransportThread)
    /\ WF_vars(Runner)

-----------------------------------------------------------------------------
\* Properties

\* The cursor never passes a line that no life of the runtime has queued: a
\* line appended while entries are submitted is not skipped.
CursorNeverSkips ==
    \A m \in 1..cursor : tasks[m] # "none" \/ fate[m] # "none"

\* A clear does not overtake the messages whose send had returned before it:
\* when the runtime acts on it, it has read them all, so they are cleared with
\* the rest and do not start afterwards as leftovers of the old session.
ClearCoversEarlier ==
    [][ (tx.pc = "recv" /\ wire # <<>> /\ Head(wire).kind = "clear" /\ wire' = Tail(wire))
        => \A m \in 1..Head(wire).after : tasks[m] # "none" \/ fate[m] # "none" ]_vars

\* What TaskPromise says of the messages, as this module's state shows it.
Status(m) ==
    IF m > sent THEN "unsent"
    ELSE CASE tasks[m] = "queued" -> "pending"
           [] tasks[m] \in {"running", "finished", "cleared"} -> tasks[m]
           [] tasks[m] = "none" /\ m > cursor -> "pending"
           [] OTHER -> fate[m]

Promise == INSTANCE TaskPromise WITH status <- [m \in Messages |-> Status(m)]

\* Messages start one at a time, in order, at most once per life of the
\* runtime, and a clear spares at most one that was read.
KeepsPromise == Promise!Spec

\* Every message that was sent is executed or cleared in the end, across lost
\* links, partial lines and a cursor file that cannot be written, unless the
\* runtime crashes: a behaviour sends finitely many, so one day all are settled.
AllSettled == \A m \in 1..sent : tasks[m] \in {"finished", "cleared"}
EverySettles == <>(crashes > 0) \/ <>[]AllSettled
=============================================================================
