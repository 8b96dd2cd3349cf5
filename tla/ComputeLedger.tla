---------------------------- MODULE ComputeLedger ----------------------------
(***************************************************************************)
(* What an agent is charged for: the running total Agent.compute_seconds   *)
(* and the ledger of RuntimeSegment rows.  A period opens when the relay   *)
(* connects (deployed_at) and is closed by whoever ends it: kill, restart, *)
(* the reconciler or the VNC proxy.  Each of them reads the row, and later *)
(* adds the elapsed time with an F() expression and writes the row; only   *)
(* the restart holds a row lock while it does so.                          *)
(***************************************************************************)
EXTENDS Integers

CONSTANTS
    MaxTime,   \* bound: seconds in one behaviour
    Closers    \* which closers run, a subset of AllClosers

\* kill, restart: user requests.  unavailable, reap: the reconciler's
\* mark_agent_runtime_unavailable and _mark_stopped.  vnc: the VNC proxy's
\* mark_agent_runtime_unavailable.  fail: provisioning fails after a connect.
AllClosers == {"kill", "restart", "unavailable", "reap", "vnc", "fail"}

ASSUME LedgerAssumption == MaxTime \in Nat \ {0} /\ Closers \subseteq AllClosers

VARIABLES
    now,       \* the clock; period 0 is "no period", so it starts at 1
    status,    \* Agent.status, "UP" for IDLE, RUNNING and WAITING
    deployed,  \* Agent.deployed_at: the start of the open period, or None
    opened,    \* the start of the last period
    compute,   \* Agent.compute_seconds
    segments,  \* RuntimeSegment rows of the agent
    relay,     \* the RelayConsumer: cached status, and whether it will open
    task       \* task[t]: a closer between its statements, with its snapshot

vars == <<now, status, deployed, opened, compute, segments, relay, task>>

None == 0
Time == 1..MaxTime
Tasks == {"kill", "reconciler", "vnc"}
Segment == [start : Time, end : Time]
Idle == [pc |-> "idle", kind |-> "none", start |-> None, legal |-> FALSE]
Task == [pc : {"idle", "charge", "segment", "write"}, kind : AllClosers \union {"none"},
         start : Time \union {None}, legal : BOOLEAN]
Consumer == [pc : {"off", "auth", "open"}, deploying : BOOLEAN, opens : BOOLEAN]
Off == [pc |-> "off", deploying |-> FALSE, opens |-> FALSE]

TypeOK ==
    /\ now \in Time
    /\ status \in {"DEPLOYING", "UP", "ERROR", "STOPPED"}
    /\ deployed \in Time \union {None}
    /\ opened \in Time \union {None}
    /\ compute \in Nat
    /\ segments \subseteq Segment
    /\ relay \in Consumer
    /\ task \in [Tasks -> Task]

Init ==
    /\ now = 1
    /\ status = "DEPLOYING"
    /\ deployed = None
    /\ opened = None
    /\ compute = 0
    /\ segments = {}
    /\ relay = Off
    /\ task = [t \in Tasks |-> Idle]

Tick ==
    /\ now < MaxTime
    /\ now' = now + 1
    /\ UNCHANGED <<status, deployed, opened, compute, segments, relay, task>>

\* RelayConsumer.connect: read the row, and after two awaits save deployed_at.
\* One consumer at a time.  Timestamps have microseconds: two periods never
\* start at the same instant.
ConnectRead ==
    /\ relay = Off
    /\ relay' = [pc |-> "auth", deploying |-> status = "DEPLOYING",
                 opens |-> status = "DEPLOYING" /\ deployed = None]
    /\ UNCHANGED <<now, status, deployed, opened, compute, segments, task>>

ConnectSave ==
    /\ relay.pc = "auth"
    /\ relay' = [relay EXCEPT !.pc = "open"]
    /\ IF relay.opens
         THEN now > opened /\ deployed' = now /\ opened' = now
         ELSE UNCHANGED <<deployed, opened>>
    /\ UNCHANGED <<now, status, compute, segments, task>>

\* receive_json "runtime_status" at the ready boundary: the cached status
\* decides, the update is blind.
Ready ==
    /\ relay.pc = "open"
    /\ relay.deploying
    /\ status' = "UP"
    /\ relay' = [relay EXCEPT !.deploying = FALSE]
    /\ UNCHANGED <<now, deployed, opened, compute, segments, task>>

Disconnect ==
    /\ relay.pc = "open"
    /\ relay' = Off
    /\ UNCHANGED <<now, status, deployed, opened, compute, segments, task>>

\* _save_agent_failed leaves deployed_at alone.
Fail ==
    /\ "fail" \in Closers
    /\ status = "DEPLOYING"
    /\ status' = "ERROR"
    /\ UNCHANGED <<now, deployed, opened, compute, segments, relay, task>>

\* Mutant: a segment is inserted although the period has one.
Record_Inserts(start) ==
    segments \union (IF start = None THEN {} ELSE {[start |-> start, end |-> now]})

\* record_runtime_segment_sync: get_or_create on the unique start.
Record(start) ==
    IF start = None \/ \E g \in segments : g.start = start
    THEN segments
    ELSE segments \union {[start |-> start, end |-> now]}

\* F("compute_seconds") + elapsed
Charge(start) == IF start = None THEN 0 ELSE now - start

\* _atomic_reset_for_restart: one transaction under the row lock.
Restart ==
    /\ "restart" \in Closers
    /\ status # "DEPLOYING"
    /\ compute' = compute + Charge(deployed)
    /\ segments' = Record(deployed)
    /\ status' = "DEPLOYING"
    /\ deployed' = None
    /\ UNCHANGED <<now, opened, relay, task>>

\* kill_agent: read; record the segment; validate the transition against the
\* snapshot; one UPDATE that adds the elapsed time and closes the period.
KillRead ==
    /\ "kill" \in Closers
    /\ task["kill"] = Idle
    /\ task' = [task EXCEPT !["kill"] = [pc |-> "segment", kind |-> "kill",
                                         start |-> deployed,
                                         legal |-> status # "STOPPED"]]
    /\ UNCHANGED <<now, status, deployed, opened, compute, segments, relay>>

KillSegment ==
    /\ task["kill"].pc = "segment"
    /\ segments' = Record(task["kill"].start)
    /\ task' = IF task["kill"].legal THEN [task EXCEPT !["kill"].pc = "write"]
                                     ELSE [task EXCEPT !["kill"] = Idle]
    /\ UNCHANGED <<now, status, deployed, opened, compute, relay>>

KillWrite ==
    /\ task["kill"].pc = "write"
    /\ compute' = compute + Charge(task["kill"].start)
    /\ status' = "STOPPED"
    /\ deployed' = None
    /\ task' = [task EXCEPT !["kill"] = Idle]
    /\ UNCHANGED <<now, opened, segments, relay>>

\* mark_agent_runtime_unavailable and _mark_stopped: read; add the elapsed
\* time; record the segment (not in _mark_stopped); save the row, forced.
Suspected(t, kind) ==
    \/ t = "reconciler" /\ kind = "unavailable" /\ status \in {"DEPLOYING", "UP"}
    \/ t = "reconciler" /\ kind = "reap" /\ status = "ERROR"
    \/ t = "vnc" /\ kind = "vnc" /\ status = "UP"

MarkRead(t, kind) ==
    /\ kind \in Closers
    /\ task[t] = Idle
    /\ Suspected(t, kind)
    /\ task' = [task EXCEPT ![t] = [pc |-> "charge", kind |-> kind,
                                    start |-> deployed, legal |-> TRUE]]
    /\ UNCHANGED <<now, status, deployed, opened, compute, segments, relay>>

MarkCharge(t) ==
    /\ task[t].pc = "charge"
    /\ compute' = compute + Charge(task[t].start)
    /\ task' = [task EXCEPT ![t].pc = IF task[t].kind = "reap" THEN "write"
                                                               ELSE "segment"]
    /\ UNCHANGED <<now, status, deployed, opened, segments, relay>>

MarkSegment(t) ==
    /\ t # "kill"
    /\ task[t].pc = "segment"
    /\ segments' = Record(task[t].start)
    /\ task' = [task EXCEPT ![t].pc = "write"]
    /\ UNCHANGED <<now, status, deployed, opened, compute, relay>>

MarkWrite(t) ==
    /\ t # "kill"
    /\ task[t].pc = "write"
    /\ status' = IF task[t].kind = "reap" THEN "STOPPED" ELSE "ERROR"
    /\ deployed' = None
    /\ task' = [task EXCEPT ![t] = Idle]
    /\ UNCHANGED <<now, opened, compute, segments, relay>>

Next ==
    \/ Tick \/ ConnectRead \/ ConnectSave \/ Ready \/ Disconnect \/ Fail \/ Restart
    \/ KillRead \/ KillSegment \/ KillWrite
    \/ \E t \in Tasks : \/ \E kind \in Closers : MarkRead(t, kind)
                        \/ MarkCharge(t) \/ MarkSegment(t) \/ MarkWrite(t)

Spec == Init /\ [][Next]_vars

-----------------------------------------------------------------------------
\* Properties

\* No second of the agent's life is in two segments.
SegmentsDisjoint ==
    \A g, h \in segments : g # h => g.end <= h.start \/ h.end <= g.start

\* compute_seconds never exceeds the seconds that have passed ("F-expression
\* avoids races", lifecycle.py).
BilledOnce == compute <= now - 1
=============================================================================
