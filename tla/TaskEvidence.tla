---------------------------- MODULE TaskEvidence ----------------------------
(***************************************************************************)
(* What the backend can tell about the task of an agent after the fact.    *)
(* The runtime sends task updates, execution events and status documents   *)
(* through one mailbox; the backend keeps StreamEvent rows, two stamps and *)
(* the last status; an incident bundle judges the task from these: is it   *)
(* healthy (task_health), and do rows and status agree (incident)?  The    *)
(* second part of the bundle is what the desktop did, folded from the log. *)
(***************************************************************************)
EXTENDS Naturals, Sequences, FiniteSets, SequencesExt

CONSTANTS
    MaxTasks,   \* bound: tasks, run one after the other
    LateTasks,  \* bound: tasks whose "queued" is published after "running" may be
    MaxTime,    \* bound: time, in units of FAILED_FAST_WINDOW_S
    MaxLosses,  \* bound: link losses and rows that cannot be written
    FailedFast, Silent, Hung,   \* thresholds of task_health
    Window,     \* window_minutes of a bundle
    MaxLog      \* bound: runtime log lines

\* FAILED_FAST_WINDOW_S, SILENT_TASK_GRACE_S <= HUNG_TASK_GRACE_S
ASSUME EvidenceConstants ==
    /\ {MaxTasks, MaxTime, MaxLosses, FailedFast, Silent, Hung, Window, MaxLog} \subseteq Nat
    /\ Silent <= Hung

VARIABLES
    now,       \* the time; 0 stands for a null stamp
    job,       \* the runtime: current task and state, "idle" before the first
    late,      \* the task whose "queued" notification is not published yet
    letters,   \* mailbox and wire, in order
    said,      \* job as of the last status document the runtime published
    rows,      \* StreamEvent rows of task updates, by creation
    started,   \* Agent.task_started_at
    active,    \* Agent.last_execution_event_at
    shown,     \* task and task_state of Agent.runtime_status_projection
    sign,      \* when the backend last received anything of the current task
    worked,    \* it received an execution event of the current task
    losses,
    lines      \* the runtime log of the machine

ev_vars == <<now, job, late, letters, said, rows, started, active, shown, sign, worked,
             losses, lines>>

Never == 0
NoJob == [task |-> 0, state |-> "idle"]
Jobs == 1..MaxTasks
Terminal == {"completed", "failed"}
JobStates == Terminal \cup {"idle", "queued", "running"}
Letter(kind, job_) == [kind |-> kind, task |-> job_.task, state |-> job_.state]
Queued(task) == [kind |-> "update", task |-> task, state |-> "queued"]

EvidenceInit ==
    /\ now = 1 /\ job = NoJob /\ late = 0 /\ letters = <<>> /\ said = NoJob
    /\ rows = <<>> /\ started = Never /\ active = Never /\ shown = NoJob
    /\ sign = Never /\ worked = FALSE /\ losses = 0 /\ lines = <<>>

-----------------------------------------------------------------------------
\* The runtime

\* submit_request and _run: the notification of the submission may come late,
\* with the state it read.
StartJob ==
    /\ job.state \in Terminal \cup {"idle"} /\ late = 0
    /\ job.task < MaxTasks
    /\ job' = [task |-> job.task + 1, state |-> "running"]
    /\ late' = IF job'.task \in LateTasks THEN job'.task ELSE 0
    /\ letters' = letters \o (IF late' = 0 THEN <<Queued(job'.task)>> ELSE <<>>)
                          \o <<Letter("update", job')>>
    /\ sign' = Never /\ worked' = FALSE
    /\ UNCHANGED <<now, said, rows, started, active, shown, losses, lines>>

SayQueued ==
    /\ late # 0
    /\ late' = 0
    /\ letters' = Append(letters, Queued(late))
    /\ UNCHANGED <<now, job, said, rows, started, active, shown, sign, worked, losses, lines>>

\* on_execution_event; bound: one event of a task is on its way or received in a
\* unit of time.
Work ==
    /\ job.state = "running" /\ ~(worked /\ active = now)
    /\ \A i \in DOMAIN letters : letters[i].kind # "event"
    /\ letters' = Append(letters, Letter("event", job))
    /\ UNCHANGED <<now, job, late, said, rows, started, active, shown, sign, worked, losses,
                   lines>>

FinishJob ==
    /\ job.state = "running"
    /\ \E result \in Terminal : job' = [job EXCEPT !.state = result]
    /\ letters' = Append(letters, Letter("update", job'))
    /\ UNCHANGED <<now, late, said, rows, started, active, shown, sign, worked, losses, lines>>

\* The observer publishes a status that differs from the last one.
SayStatus ==
    /\ said # job
    /\ said' = job
    /\ letters' = Append(letters, Letter("status", job))
    /\ UNCHANGED <<now, job, late, rows, started, active, shown, sign, worked, losses, lines>>

\* The link breaks and comes back: what was sent is lost, and the change of the
\* transport makes the next status a new one.
LoseLetters ==
    /\ letters # <<>> /\ losses < MaxLosses
    /\ losses' = losses + 1
    /\ letters' = <<>> /\ said' = NoJob
    /\ UNCHANGED <<now, job, late, rows, started, active, shown, sign, worked, lines>>

-----------------------------------------------------------------------------
\* The backend: RelayConsumer.receive_json

Signs(letter) ==
    /\ sign' = IF letter.task = job.task THEN now ELSE sign
    /\ worked' = (worked \/ (letter.kind = "event" /\ letter.task = job.task))

\* A row for every update, unless it cannot be written; a stamp for "running".
ReceiveUpdate ==
    /\ letters # <<>> /\ Head(letters).kind = "update"
    /\ LET letter == Head(letters) IN
         /\ \/ /\ rows' = Append(rows, [task |-> letter.task, state |-> letter.state,
                                        at |-> now])
               /\ losses' = losses
            \/ rows' = rows /\ losses < MaxLosses /\ losses' = losses + 1
         /\ started' = IF letter.state = "running" THEN now ELSE started
         /\ Signs(letter)
    /\ letters' = Tail(letters)
    /\ UNCHANGED <<now, job, late, said, active, shown, lines>>

ReceiveEvent ==
    /\ letters # <<>> /\ Head(letters).kind = "event"
    /\ active' = now
    /\ Signs(Head(letters))
    /\ letters' = Tail(letters)
    /\ UNCHANGED <<now, job, late, said, rows, started, shown, losses, lines>>

ReceiveStatus ==
    /\ letters # <<>> /\ Head(letters).kind = "status"
    /\ shown' = [task |-> Head(letters).task, state |-> Head(letters).state]
    /\ letters' = Tail(letters)
    /\ UNCHANGED <<now, job, late, said, rows, started, active, sign, worked, losses, lines>>

\* hard_restart_agent: a new runtime; stamps and projection are reset, rows stay.
RestartRuntime ==
    /\ job.task > 0 /\ losses < MaxLosses
    /\ losses' = losses + 1
    /\ job' = [job EXCEPT !.state = "idle"] /\ said' = NoJob /\ late' = 0
    /\ letters' = <<>>
    /\ started' = Never /\ active' = Never /\ shown' = NoJob
    /\ sign' = Never /\ worked' = FALSE
    /\ UNCHANGED <<now, rows, lines>>

\* Messages are quick against the thresholds, and so is the observer.
Tick ==
    /\ now < MaxTime /\ letters = <<>> /\ said = job /\ late = 0
    /\ now' = now + 1
    /\ UNCHANGED <<job, late, letters, said, rows, started, active, shown, sign, worked,
                   losses, lines>>

-----------------------------------------------------------------------------
\* classify_task_health

Age(stamp) == now - stamp
NoVerdict == "none"

\* The offset of the last event is not below zero.
Health ==
    CASE started = Never \/ shown.state \notin {"running", "failed"} -> NoVerdict
      [] shown.state = "running" /\ active = Never ->
            IF Age(started) >= Silent THEN "silent" ELSE "in_progress"
      [] shown.state = "running" /\ active # Never ->
            IF Age(active) >= Hung THEN "hung" ELSE "in_progress"
      [] shown.state = "failed" ->
            IF active = Never \/ active <= started + FailedFast THEN "failed_fast"
            ELSE "failed"

\* Mutant: the rows of all tasks.
Evidence_AnyTask(cut) == {i \in DOMAIN rows : rows[i].at + Window >= now /\ i > cut}

\* _compute_task_state_discrepancy: the rows of the window that are about the task
\* of the status, and what the newest of them says.  A bundle has the newest
\* MAX_STREAM_EVENTS rows of any type: cut is how many of these, the oldest, that
\* leaves out.
Evidence(cut) == {i \in DOMAIN rows : /\ rows[i].at + Window >= now /\ i > cut
                                      /\ rows[i].task = shown.task}
Newest(S) == CHOOSE i \in S : \A j \in S : j <= i
Persisted(cut) == IF Evidence(cut) = {} THEN "none" ELSE rows[Newest(Evidence(cut))].state

\* What the bundle says of the newest row against the status.
Discrepancy(cut) ==
    CASE shown.task = 0 -> NoVerdict
      [] Persisted(cut) = shown.state -> "agree"
      [] shown.state \notin Terminal -> "in_progress"
      [] Persisted(cut) \notin Terminal -> "missing_terminal_update"
      [] OTHER -> "state_mismatch"

-----------------------------------------------------------------------------
\* _extract_applied: the handlers see the log from its end and fill what is empty.

LogEvents == {"consumer_applied", "consumer_failed", "display_ready", "display_timeout",
              "launch_requested", "other"}
NoSignal == [notify |-> "null", error |-> FALSE, display |-> "null", launched |-> FALSE]

LogLine ==
    /\ Len(lines) < MaxLog
    /\ \E e \in LogEvents : lines' = Append(lines, e)
    /\ UNCHANGED <<now, job, late, letters, said, rows, started, active, shown, sign, worked,
                   losses>>

\* Mutant: the error stays when a later result was a success.
Handle_KeepsError(s, e) ==
    CASE e = "consumer_applied" /\ s.notify = "null" -> [s EXCEPT !.notify = "succeeded"]
      [] e = "consumer_failed" -> [s EXCEPT !.notify = IF @ = "null" THEN "failed" ELSE @,
                                            !.error = TRUE]
      [] e = "display_ready" /\ s.display = "null" -> [s EXCEPT !.display = "ready"]
      [] e = "display_timeout" /\ s.display = "null" -> [s EXCEPT !.display = "timeout"]
      [] e = "launch_requested" -> [s EXCEPT !.launched = TRUE]
      [] OTHER -> s

\* _APPLIED_HANDLERS
Handle(s, e) ==
    CASE e = "consumer_applied" /\ s.notify = "null" -> [s EXCEPT !.notify = "succeeded"]
      [] e = "consumer_failed" /\ s.notify = "null" -> [s EXCEPT !.notify = "failed",
                                                                 !.error = TRUE]
      [] e = "display_ready" /\ s.display = "null" -> [s EXCEPT !.display = "ready"]
      [] e = "display_timeout" /\ s.display = "null" -> [s EXCEPT !.display = "timeout"]
      [] e = "launch_requested" -> [s EXCEPT !.launched = TRUE]
      [] OTHER -> s
Applied == FoldLeft(Handle, NoSignal, Reverse(lines))

EvidenceNext ==
    \/ StartJob \/ SayQueued \/ Work \/ FinishJob \/ SayStatus \/ LoseLetters
    \/ ReceiveUpdate \/ ReceiveEvent \/ ReceiveStatus \/ RestartRuntime
    \/ Tick \/ LogLine

EvidenceSpec == EvidenceInit /\ [][EvidenceNext]_ev_vars

-----------------------------------------------------------------------------
\* Properties

\* Everything the runtime has said so far was received.
AllReceived == letters = <<>> /\ said = job /\ late = 0

\* A running task the backend has heard nothing of for Hung is not called
\* healthy, however its stamps and those of earlier tasks came to be.
StallNoticed ==
    AllReceived /\ job.state = "running" /\ losses = 0 /\ Age(sign) >= Hung
        => Health \in {"silent", "hung"}

\* task_health: "failed_fast: task failed ... without any execution events".
SilentFailureIsFast ==
    AllReceived /\ losses = 0 /\ job.state = "failed" /\ ~worked => Health = "failed_fast"

\* The end of a task that never became a row is flagged, whatever the bundle leaves
\* out; one that is left out may be flagged too.
LossIsFlagged ==
    AllReceived /\ shown.state \in Terminal /\ shown.task # 0
    /\ (\A i \in DOMAIN rows : rows[i].task = shown.task => rows[i].state \notin Terminal)
        => \A cut \in 0..Len(rows) : Discrepancy(cut) = "missing_terminal_update"

\* Rows and status never name two different ends of one task.
NeverTwoEnds == \A cut \in 0..Len(rows) : Discrepancy(cut) # "state_mismatch"

\* The verdicts on a task and the flags of its incident bundle hold whatever was
\* lost, late, or left over from another task (task_health.py, incident.py).
EvidenceIsSound == StallNoticed /\ SilentFailureIsFast /\ LossIsFlagged /\ NeverTwoEnds

\* What the desktop did last is what the bundle reports, and an error belongs
\* to the result it stands beside (_extract_applied).
AppliedIsNewest ==
    LET Latest(S) == LET at == {i \in DOMAIN lines : lines[i] \in S} IN
          IF at = {} THEN "null" ELSE lines[Newest(at)]
    IN /\ (Applied.notify = "failed") = (Latest({"consumer_applied", "consumer_failed"})
                                           = "consumer_failed")
       /\ Applied.error = (Applied.notify = "failed")
       /\ (Applied.display = "ready") = (Latest({"display_ready", "display_timeout"})
                                           = "display_ready")
=============================================================================
