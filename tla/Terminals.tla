------------------------------ MODULE Terminals ------------------------------
(***************************************************************************)
(* The terminal of an agent: browsers attach over TerminalConsumer, their  *)
(* commands cross the relay to the transport thread of the runtime, and    *)
(* PtySessionManager keeps one pty whose reader thread publishes output.   *)
(* The reader shares the session object with the transport thread without  *)
(* the manager's lock.  The dashboard knows one terminal id, "main".       *)
(***************************************************************************)
EXTENDS Integers, Sequences, FiniteSets, SequencesExt

CONSTANTS
    Viewers,          \* browsers
    MaxProcs,         \* bound: processes (and session objects) spawned
    MaxBuffer,        \* maxlen of PtySession.buffer
    Asked,            \* the programs viewers ask for
    TerminalLimits    \* bounds of a behaviour: joins and inputs, chunks of output of a
                      \* process, links lost; whether claude exists

ASSUME TerminalsAssumption ==
    /\ MaxProcs \in Nat \ {0} /\ MaxBuffer \in Nat \ {0}
    /\ Asked \subseteq {"shell", "claude"}
    /\ TerminalLimits \subseteq [ops : Nat, chunks : Nat, drops : Nat, claude : BOOLEAN]

VARIABLES
    viewer,   \* per browser: its consumer, the process it was told of, what it was shown
    relay,    \* the agent is connected
    down, events, \* commands to the runtime; events published and not yet forwarded
    table,    \* PtySessionManager._sessions["main"]: an object, or 0
    obj,      \* the PtySession objects
    process,  \* the processes: state, and whether the master of their pty is open
    reader,   \* per process, the thread that open() started with it
    thread,   \* the transport thread inside a command
    reopened, \* objects reopened before the reader of their last process was done
    left,     \* what is left of the limits
    broken    \* a link broke

tm_vars == <<viewer, relay, down, events, table, obj, process, reader, thread, reopened, left, broken>>

Procs == 1..MaxProcs
Objs == 1..MaxProcs
Programs == {"shell", "claude"}
Chunks == Procs \X (1..left.chunks)
Gone == [pc |-> "away", told |-> 0, seen |-> {}]
Resting == [pc |-> "idle", obj |-> 0, text |-> {}]
NoReader == [pc |-> "none", obj |-> 0, fd |-> 0, chunk |-> {}]

\* Events of the runtime: a terminal that opened, output, a process that ended.
\* (Its "error" events, which change nothing, are left out.)
Opened(p) == [kind |-> "opened", proc |-> p, data |-> {}]
Frame(cs) == [kind |-> "frame", proc |-> 0, data |-> cs]
Exited(p) == [kind |-> "exited", proc |-> p, data |-> {}]
Events == [kind : {"opened", "frame", "exited"}, proc : 0..MaxProcs, data : SUBSET Chunks]
Commands == {<<"input">>, <<"resize">>, <<"close">>} \union {<<"open", g>> : g \in Programs}
Uses == {<<"input">>, <<"resize">>}

TermTypeOK ==
    /\ viewer \in [Viewers -> [pc : {"away", "joined", "attached"}, told : 0..MaxProcs,
                               seen : SUBSET (Chunks \union {<<p, 0>> : p \in Procs})]]
    /\ relay \in BOOLEAN /\ table \in 0..MaxProcs
    /\ \A i \in DOMAIN events : events[i] \in Events
    /\ ToSet(down) \subseteq Commands
    /\ obj \in [Objs -> [proc : 0..MaxProcs, fd : 0..MaxProcs, program : Programs,
                         buffer : Seq(Chunks), used : BOOLEAN]]
    /\ \A o \in Objs : Len(obj[o].buffer) <= MaxBuffer
    /\ process \in [Procs -> [state : {"none", "running", "signalled", "dying", "exited"},
                           program : Programs, out : 0..left.chunks, open : BOOLEAN]]
    /\ reader \in [Procs -> [pc : {"none", "start", "load", "read", "publish", "wait",
                                   "announce", "release", "done"},
                             obj : 0..MaxProcs, fd : 0..MaxProcs, chunk : SUBSET Chunks]]
    /\ thread.pc \in {"idle", "reply", "snapshot", "spawn", "started", "announce", "write"}

TermInit ==
    /\ viewer = [v \in Viewers |-> Gone]
    /\ relay = TRUE /\ down = <<>> /\ events = <<>> /\ table = 0
    /\ obj = [o \in Objs |-> [proc |-> 0, fd |-> 0, program |-> "shell", buffer |-> <<>>, used |-> FALSE]]
    /\ process = [p \in Procs |-> [state |-> "none", program |-> "shell", out |-> 0, open |-> FALSE]]
    /\ reader = [p \in Procs |-> NoReader]
    /\ thread = Resting /\ reopened = {}
    /\ left \in TerminalLimits /\ broken = FALSE

Spend == left.ops > 0 /\ left' = [left EXCEPT !.ops = @ - 1] /\ UNCHANGED broken

-----------------------------------------------------------------------------
\* Browsers and TerminalConsumer

\* push_to_relay: refused while no runtime is connected.  (The viewer is then
\* told "agent relay is not connected", which no property is about.)
Push(c) == down' = IF relay THEN Append(down, c) ELSE down

\* Authenticated: group_add, before the terminal is opened.
Join(v) ==
    /\ viewer[v].pc = "away" /\ Spend
    /\ viewer' = [viewer EXCEPT ![v] = [Gone EXCEPT !.pc = "joined"]]
    /\ UNCHANGED <<relay, down, events, table, obj, process, reader, thread, reopened>>

PushOpen(v) ==
    /\ viewer[v].pc = "joined"
    /\ \E g \in Asked : Push(<<"open", g>>)
    /\ viewer' = [viewer EXCEPT ![v].pc = "attached"]
    /\ UNCHANGED <<relay, events, table, obj, process, reader, thread, reopened, left, broken>>

\* Keys and new window sizes.
Type(v, c) ==
    /\ viewer[v].pc = "attached" /\ c \in Uses /\ Spend
    /\ Push(c)
    /\ UNCHANGED <<viewer, relay, events, table, obj, process, reader, thread, reopened>>

\* The pane is unmounted: it sends "close" for the terminal that all share.
\* Or the browser is gone without a word.
Leave(v) ==
    /\ viewer[v].pc # "away"
    /\ viewer' = [viewer EXCEPT ![v] = Gone]
    /\ \/ viewer[v].pc = "attached" /\ Push(<<"close">>)
       \/ UNCHANGED down
    /\ UNCHANGED <<relay, events, table, obj, process, reader, thread, reopened, left, broken>>

\* terminal_event: the relay consumer forwards the event to everyone in the group.
Forward ==
    /\ relay /\ events # <<>>
    /\ LET e == Head(events) IN
       viewer' = [v \in Viewers |->
          IF viewer[v].pc = "away" THEN viewer[v]
          ELSE [viewer[v] EXCEPT
                  !.told = IF e.kind = "opened" THEN e.proc ELSE @,
                  !.seen = @ \union e.data \union (IF e.kind = "exited" THEN {<<e.proc, 0>>} ELSE {})]]
    /\ events' = Tail(events)
    /\ UNCHANGED <<relay, down, table, obj, process, reader, thread, reopened, left, broken>>

\* The link breaks: commands under way are gone, and so is what the client had
\* drained from its mailbox.
LosesLink ==
    /\ relay' = FALSE /\ down' = <<>>
    /\ \E k \in 0..Len(events) : events' = SubSeq(events, k + 1, Len(events))
    /\ broken' = TRUE

LinkBreaks ==
    /\ relay /\ thread = Resting /\ LosesLink
    /\ left.drops > 0 /\ left' = [left EXCEPT !.drops = @ - 1]
    /\ UNCHANGED <<viewer, table, obj, process, reader, thread, reopened>>

LinkReturns ==
    /\ ~relay /\ relay' = TRUE
    /\ UNCHANGED <<viewer, down, events, table, obj, process, reader, thread, reopened, left, broken>>

-----------------------------------------------------------------------------
\* The transport thread: PtySessionManager and PtySession

Receives(c) == thread = Resting /\ down # <<>> /\ Head(down) = c /\ down' = Tail(down)
Alive(p) == p # 0 /\ process[p].state \in {"running", "signalled", "dying"}   \* poll() is None

\* PtySessionManager.open: find or make the session, note the program asked
\* for; PtySession.open asks whether its process still runs.
HandleOpen(g) ==
    /\ Receives(<<"open", g>>)
    /\ \E o \in Objs :
        /\ IF table # 0 THEN o = table
           ELSE ~obj[o].used /\ \A q \in 1..(o - 1) : obj[q].used
        /\ table' = o
        /\ obj' = [obj EXCEPT ![o].used = TRUE, ![o].program = g]
        /\ thread' = [Resting EXCEPT !.obj = o, !.pc = IF Alive(obj[o].proc) THEN "reply" ELSE "spawn"]
    /\ UNCHANGED <<viewer, relay, events, process, reader, reopened, left, broken>>

\* Mutant: the newcomer is not answered when the program runs already.
Reply_Silent ==
    /\ thread.pc = "reply"
    /\ thread' = Resting
    /\ UNCHANGED <<viewer, relay, down, events, table, obj, process, reader, reopened, left, broken>>

\* It runs: "opened" and the buffered output are published for the newcomer, to
\* all.
Reply ==
    /\ thread.pc = "reply"
    /\ LET text == ToSet(obj[thread.obj].buffer) IN
       thread' = IF text = {} THEN Resting ELSE [thread EXCEPT !.pc = "snapshot", !.text = text]
    /\ events' = Append(events, Opened(obj[thread.obj].proc))
    /\ UNCHANGED <<viewer, relay, down, table, obj, process, reader, reopened, left, broken>>

Snapshot ==
    /\ thread.pc = "snapshot"
    /\ events' = Append(events, Frame(thread.text))
    /\ thread' = Resting
    /\ UNCHANGED <<viewer, relay, down, table, obj, process, reader, reopened, left, broken>>

\* A new pty and a process on it; a missing claude falls back to a shell.  The
\* object gets the new master.
Spawn ==
    /\ thread.pc = "spawn"
    /\ \E p \in Procs :
        /\ process[p].state = "none" /\ \A q \in 1..(p - 1) : process[q].state # "none"
        /\ LET o == thread.obj
               actual == IF left.claude THEN obj[o].program ELSE "shell" IN
           /\ process' = [process EXCEPT ![p] = [@ EXCEPT !.state = "running", !.program = actual, !.open = TRUE]]
           /\ obj' = [obj EXCEPT ![o].fd = p, ![o].program = actual]
           /\ reopened' = IF \E q \in Procs : reader[q].obj = o /\ reader[q].pc # "done"
                       THEN reopened \union {o} ELSE reopened
           /\ thread' = [thread EXCEPT !.pc = "started", !.text = {p}]
    /\ UNCHANGED <<viewer, relay, down, events, table, reader, left, broken>>

\* Then the process and its reader thread.
Started ==
    /\ thread.pc = "started"
    /\ \E p \in thread.text :
        /\ obj' = [obj EXCEPT ![thread.obj].proc = p]
        /\ reader' = [reader EXCEPT ![p] = [NoReader EXCEPT !.pc = "start", !.obj = thread.obj]]
    /\ thread' = [thread EXCEPT !.pc = "announce"]
    /\ UNCHANGED <<viewer, relay, down, events, table, process, reopened, left, broken>>

\* "opened" comes last: frames, or even the end, can be published before it.
Announce ==
    /\ thread.pc = "announce"
    /\ \E p \in thread.text : events' = Append(events, Opened(p))
    /\ thread' = Resting
    /\ UNCHANGED <<viewer, relay, down, table, obj, process, reader, reopened, left, broken>>

\* input and resize use the master in two steps: is it there, then the call.
HandleUse(c) ==
    /\ Receives(c) /\ c \in Uses
    /\ thread' = IF table # 0 /\ obj[table].fd # 0 THEN [Resting EXCEPT !.pc = "write", !.obj = table] ELSE Resting
    /\ UNCHANGED <<viewer, relay, events, table, obj, process, reader, reopened, left, broken>>

\* When the reader took the master away in between, os.write(None) raises out
\* of on_command and takes the link down.
Write ==
    /\ thread.pc = "write"
    /\ thread' = Resting
    /\ IF obj[thread.obj].fd = 0 THEN LosesLink ELSE UNCHANGED <<relay, down, events, broken>>
    /\ UNCHANGED <<left, viewer, table, obj, process, reader, reopened>>

\* SIGTERM: claude goes, an interactive shell ignores it.
Terminated(p) ==
    [process EXCEPT ![p].state = IF @ = "running" /\ process[p].program = "claude" THEN "signalled" ELSE @]
MasterClosed(ps, fd) == IF fd = 0 THEN ps ELSE [ps EXCEPT ![fd].open = FALSE]

\* close: the session leaves the table, its process is signalled, its master
\* closed.
HandleClose ==
    /\ Receives(<<"close">>)
    /\ table' = 0
    /\ IF table = 0 THEN UNCHANGED <<obj, process>>
       ELSE LET s == obj[table] IN
            /\ process' = MasterClosed(IF Alive(s.proc) THEN Terminated(s.proc) ELSE process, s.fd)
            /\ obj' = [obj EXCEPT ![table].fd = 0]
    /\ UNCHANGED <<viewer, relay, events, reader, thread, reopened, left, broken>>

-----------------------------------------------------------------------------
\* The reader thread of process p: PtySession._read_loop

At(p, pc) == reader[p].pc = pc
My(p) == obj[reader[p].obj]
Goes(p, pc) == reader' = [reader EXCEPT ![p].pc = pc]
Keeps == UNCHANGED <<viewer, relay, down, table, thread, reopened, left, broken>>

\* assert self.master_fd is not None, outside the try.
ReaderStarts(p) ==
    /\ At(p, "start")
    /\ Goes(p, IF My(p).fd = 0 THEN "done" ELSE "load")
    /\ Keeps /\ UNCHANGED <<events, obj, process>>

\* os.read(self.master_fd): whatever master the object has now; None raises.
ReaderLoads(p) ==
    /\ At(p, "load")
    /\ reader' = [reader EXCEPT ![p].fd = My(p).fd, ![p].pc = IF My(p).fd = 0 THEN "wait" ELSE "read"]
    /\ Keeps /\ UNCHANGED <<events, obj, process>>

\* The process wrote something: into the buffer, then to the mailbox.
ReaderReads(p) ==
    /\ At(p, "read")
    /\ LET q == reader[p].fd
           c == <<q, process[q].out + 1>> IN
       /\ process[q].state \in {"running", "signalled"} /\ process[q].out < left.chunks
       /\ process' = [process EXCEPT ![q].out = @ + 1]
       /\ obj' = [obj EXCEPT ![reader[p].obj].buffer =
                     LET b == Append(@, c) IN
                     IF Len(b) > MaxBuffer THEN Tail(b) ELSE b]
       /\ reader' = [reader EXCEPT ![p].pc = "publish", ![p].fd = 0, ![p].chunk = {c}]
    /\ Keeps /\ UNCHANGED events

ReaderPublishes(p) ==
    /\ At(p, "publish")
    /\ events' = Append(events, Frame(reader[p].chunk))
    /\ reader' = [reader EXCEPT ![p].pc = "load", ![p].chunk = {}]
    /\ Keeps /\ UNCHANGED <<obj, process>>

\* Mutant: an error ends the thread without the final clause.
ReaderFails_Returns(p) ==
    /\ At(p, "read") /\ process[reader[p].fd].state \in {"dying", "exited"}
    /\ reader' = [reader EXCEPT ![p].pc = "done", ![p].fd = 0]
    /\ Keeps /\ UNCHANGED <<events, obj, process>>

\* The other side of the pty is closed: EIO.
ReaderFails(p) ==
    /\ At(p, "read") /\ process[reader[p].fd].state \in {"dying", "exited"}
    /\ reader' = [reader EXCEPT ![p].pc = "wait", ![p].fd = 0]
    /\ Keeps /\ UNCHANGED <<events, obj, process>>

\* finally: self.process.wait(timeout=1), whichever process the object has now;
\* one that keeps running raises TimeoutExpired and ends the thread.
ReaderWaits(p) ==
    /\ At(p, "wait")
    /\ LET s == process[My(p).proc].state IN
       \/ s = "exited" /\ Goes(p, "announce")
       \/ s \in {"running", "signalled"} /\ Goes(p, "done")
    /\ Keeps /\ UNCHANGED <<events, obj, process>>

ReaderAnnounces(p) ==
    /\ At(p, "announce")
    /\ events' = Append(events, Exited(p)) /\ Goes(p, "release")
    /\ Keeps /\ UNCHANGED <<obj, process>>

\* Close the master of the object, if it has one.
ReaderReleases(p) ==
    /\ At(p, "release")
    /\ process' = MasterClosed(process, My(p).fd)
    /\ obj' = [obj EXCEPT ![reader[p].obj].fd = 0]
    /\ Goes(p, "done")
    /\ Keeps /\ UNCHANGED events

-----------------------------------------------------------------------------
\* Processes and the kernel

\* The process exits: its end of the pty closes, then it can be waited for.
Exits(p) ==
    /\ process[p].state \in {"running", "signalled", "dying"}
    /\ process' = [process EXCEPT ![p].state = IF @ = "dying" THEN "exited" ELSE "dying"]
    /\ Keeps /\ UNCHANGED <<events, obj, reader>>

\* The master is gone when it is closed and no thread is blocked in a read of
\* it; only then is the process hung up on.
HangsUp(p) ==
    /\ process[p].state = "running" /\ ~process[p].open
    /\ ~\E q \in Procs : At(q, "read") /\ reader[q].fd = p
    /\ process' = [process EXCEPT ![p].state = "signalled"]
    /\ Keeps /\ UNCHANGED <<events, obj, reader>>

Browser == \E v \in Viewers : Join(v) \/ (\E c \in Uses : Type(v, c)) \/ Leave(v)
TransportThread ==
    \/ (\E g \in Programs : HandleOpen(g)) \/ Reply \/ Snapshot \/ Spawn \/ Started \/ Announce
    \/ (\E c \in Uses : HandleUse(c)) \/ Write \/ HandleClose
ReaderThread(p) ==
    \/ ReaderStarts(p) \/ ReaderLoads(p) \/ ReaderReads(p) \/ ReaderPublishes(p) \/ ReaderFails(p)
    \/ ReaderWaits(p) \/ ReaderAnnounces(p) \/ ReaderReleases(p)

TermNext ==
    \/ Browser \/ (\E v \in Viewers : PushOpen(v)) \/ Forward \/ LinkBreaks \/ LinkReturns
    \/ TransportThread
    \/ \E p \in Procs : ReaderThread(p) \/ Exits(p) \/ HangsUp(p)

TermSpec == TermInit /\ [][TermNext]_tm_vars

\* Threads run, what is published is forwarded, the consumer goes on to open;
\* a process that was told to go goes, one that is going is gone.
TermFairness ==
    /\ \A v \in Viewers : WF_tm_vars(PushOpen(v))
    /\ WF_tm_vars(Forward) /\ WF_tm_vars(LinkReturns) /\ WF_tm_vars(TransportThread)
    /\ \A p \in Procs :
        /\ WF_tm_vars(ReaderThread(p)) /\ WF_tm_vars(HangsUp(p))
        /\ WF_tm_vars(process[p].state \in {"signalled", "dying"} /\ Exits(p))

FairTermSpec == TermSpec /\ TermFairness

-----------------------------------------------------------------------------
\* Properties

\* What is under way to the viewers: published, about to be, or in a snapshot.
UnderWay ==
    (UNION ({events[i].data : i \in DOMAIN events} \union {reader[p].chunk : p \in Procs}))
      \union (IF thread.pc = "snapshot" THEN thread.text ELSE {})

\* Every open has been answered: none on the way, none being handled.
NoOpenUnderWay ==
    /\ \A v \in Viewers : viewer[v].pc # "joined"
    /\ \A g \in Programs : <<"open", g>> \notin ToSet(down)
    /\ thread.pc \in {"idle", "snapshot", "write"}

\* Once its open was handled, a viewer that was told of the running program has
\* been shown, or will be, all the buffer holds of it, whenever it joined between
\* the reader's append, its frame and the snapshot; unless a link broke with
\* events on it.  (Output of a program that ended before is not shown again.)
NothingMissed ==
    ~broken /\ NoOpenUnderWay /\ table # 0 /\ table \notin reopened =>
        \A v \in Viewers : viewer[v].told # 0 /\ viewer[v].told = obj[table].proc =>
            \A c \in ToSet(obj[table].buffer) :
                c[1] = obj[table].proc => c \in viewer[v].seen \union UnderWay

\* A running process whose terminal is open takes input: its master is not
\* given up before its end, except when the terminal was reopened before the
\* reader of the process before it was done.
OpenTakesInput ==
    table # 0 /\ thread = Resting /\ table \notin reopened =>
        LET s == obj[table] IN s.proc # 0 /\ process[s.proc].state = "running" => s.fd = s.proc

\* When a process of an open terminal has ended and its reader is done, every
\* viewer that was told of it has heard of the end or will; also the one that
\* came between the end and its announcement.
EndIsHeard ==
    \A p \in Procs :
        /\ At(p, "done") /\ process[p].state = "exited" /\ ~broken
        /\ thread = Resting /\ down = <<>> /\ \A v \in Viewers : viewer[v].pc # "joined"
        /\ table = reader[p].obj /\ obj[table].proc = p /\ table \notin reopened
        => \A v \in Viewers : viewer[v].told = p =>
              <<p, 0>> \in viewer[v].seen \/ \E i \in DOMAIN events : events[i] = Exited(p)

\* A viewer that joined is answered, or leaves: the answer is not published
\* before the viewer is in the group.  Except when a link breaks, or a process
\* beyond the bound would be needed.
OpenIsAnswered ==
    \A v \in Viewers :
        viewer[v].pc # "away" ~>
            \/ viewer[v].pc = "away" \/ viewer[v].told # 0 \/ broken
            \/ \A p \in Procs : process[p].state # "none"

\* A program whose terminal was closed ends, although the reader blocked in a
\* read keeps the master alive; a shell, which ignores SIGTERM, need not.
ClosedProgramEnds ==
    \A p \in Procs :
        (process[p].program = "claude" /\ At(p, "read") /\ reader[p].obj # table) ~> process[p].state = "exited"

\* What the viewers of one terminal are shown and told stays right however their
\* comings and goings meet the reader threads and the kernel (pty_manager.py).
ViewersAreServed == TermTypeOK /\ NothingMissed /\ OpenTakesInput /\ EndIsHeard

\* Opening a terminal is answered, closing it ends its program.
TerminalAnswers == OpenIsAnswered /\ ClosedProgramEnds
=============================================================================
