---------------------------- MODULE RuntimeStatus ----------------------------
(***************************************************************************)
(* What a managed runtime says about itself, and how it gets to the        *)
(* backend.  Four threads share the state store: the transport thread owns *)
(* the websocket, the observer folds its state (and that of the desktop    *)
(* services) into the store, the runner marks tasks, the main thread boots *)
(* and shuts down.  Observer and main thread project the store to          *)
(* _abox/status.json and publish it into the mailbox that the transport    *)
(* drains; no lock spans the steps of a projection, and the two threads    *)
(* overlap at the end of the boot.                                         *)
(***************************************************************************)
EXTENDS Naturals, Sequences

CONSTANTS
    MaxTasks,   \* bound: tasks of a behaviour, numbered in order of submission
    Limits      \* bounds of the environment, see Limit: a behaviour has one of them

VARIABLES
    client,   \* AgentoboxTransportClient._snapshot.state
    up,     \* the websocket is open
    post,     \* ManagedRelaySession._outbound_messages: its last status, its updates
    desktop,  \* the required service process runs
    store,    \* RuntimeStateStore
    seen,     \* LifecycleCoordinator._last_transport_snapshot.state
    file,     \* _abox/status.json
    last,     \* RuntimeStatusProjector._last_payload
    crossed,  \* history: the latest document published was not the file's and last
    obs,      \* observer thread: step, and the transport snapshot it holds
    main,     \* main thread: the same
    job,      \* _project_status of either thread: step, and the document it holds
    tasks,    \* TaskRunner._tasks: state of each record, "none" before it
    queue,    \* TaskRunner._queue
    run,      \* runner thread: step and task
    sub,      \* submit_request and clear_pending of the transport thread
    view,     \* Agent.runtime_status_projection
    heard,    \* StreamEvent rows of task updates: <<task, state>>
    limit,    \* bounds of this behaviour
    breaks, clears

store_vars == <<store, seen, file, last, crossed>>
thread_vars == <<obs, main, job>>
link_vars == <<client, up, view, heard, breaks, limit>>
task_vars == <<tasks, queue, run, sub, clears>>
rs_vars == <<client, up, post, desktop, store, seen, file, last, crossed, obs, main, job,
             tasks, queue, run, sub, view, heard, limit, breaks, clears>>

Ids == 1..MaxTasks
NoTask == 0
TaskStates == {"none", "queued", "running", "completed", "failed", "cleared"}

\* tasks submitted, links that break or cannot be opened, clear signals, whether
\* the desktop may exit, whether the behaviour begins after the boot, whether main
\* thread and observer may meet inside sync_transport and project, and how tasks may end.
Limit == [tasks : 0..MaxTasks, breaks : Nat, clears : Nat, exits : BOOLEAN,
          booted : BOOLEAN, meets : BOOLEAN, results : SUBSET {"completed", "failed"}]
ASSUME StatusConstants == MaxTasks \in Nat /\ Limits \subseteq Limit

\* The fields of MutableRuntimeState that change after the boot.
Booting == [stage |-> "services_starting", state |-> "starting", transport |-> "disabled",
            task |-> NoTask, task_state |-> "idle", active |-> FALSE,
            services |-> "up", fatal |-> FALSE]
Nowhere == [Booting EXCEPT !.stage = "none"]   \* no status was projected yet

\* The mailbox, by what the backend will make of it: the last status wins, every
\* update <<task, state>> is kept.
Empty == [status |-> Nowhere, updates |-> {}]

\* A thread at a step, and one that projects nothing.
At(pc) == [pc |-> pc, held |-> "none"]
Free == [step |-> "none", doc |-> Nowhere]
Projectors == {"observer", "main"}

Clients == {"connecting", "connected", "degraded", "fatal", "stopped"}
Document == [stage : {"none", "services_starting", "transport_connecting", "managed_ready",
                      "degraded", "fatal"},
             state : {"starting", "ready", "busy", "degraded", "stopped", "fatal"},
             transport : Clients \cup {"disabled"},
             task : Ids \cup {NoTask}, task_state : {"idle", "running", "completed", "failed"},
             active : BOOLEAN, services : {"up", "down"}, fatal : BOOLEAN]

StatusTypeOK ==
    /\ client \in Clients /\ up \in BOOLEAN /\ desktop \in BOOLEAN
    /\ {store, file, last, view, post.status} \subseteq Document /\ crossed \in BOOLEAN
    /\ tasks \in [Ids -> TaskStates]
    /\ queue \in Seq(Ids)
    /\ limit \in Limit /\ breaks \in 0..limit.breaks /\ clears \in 0..limit.clears

\* Mutant: the reason of a fatal error is not kept.
Transition_NoReason(s, snapshot) ==
    CASE snapshot = "connected" -> [s EXCEPT !.stage = "managed_ready", !.state = "ready",
                                             !.transport = snapshot]
      [] snapshot = "connecting" -> [s EXCEPT !.stage = "transport_connecting",
                                              !.state = "starting", !.transport = snapshot]
      [] OTHER -> [s EXCEPT !.stage = "degraded", !.state = "degraded",
                            !.transport = snapshot]

\* transition_transport
Transition(s, snapshot) ==
    CASE snapshot = "connected" -> [s EXCEPT !.stage = "managed_ready", !.state = "ready",
                                             !.transport = snapshot]
      [] snapshot = "connecting" -> [s EXCEPT !.stage = "transport_connecting",
                                              !.state = "starting", !.transport = snapshot]
      [] snapshot = "fatal" -> [s EXCEPT !.stage = "fatal", !.state = "fatal",
                                         !.fatal = TRUE, !.transport = snapshot]
      [] OTHER -> [s EXCEPT !.stage = "degraded", !.state = "degraded",
                            !.transport = snapshot]

\* boot: services and runner are started, the transport connects, the observer
\* runs; the main thread has yet to sync the transport and project the status,
\* unless it has done so already.
StatusInit ==
    /\ client = "connecting" /\ up = FALSE
    /\ desktop = TRUE
    /\ limit \in Limits
    /\ IF limit.booted
       THEN /\ main = At("serve") /\ seen = client
            /\ store = Transition(Booting, client) /\ last = store
       ELSE main = At("sync") /\ seen = "none" /\ store = Booting /\ last = Nowhere
    /\ post = [Empty EXCEPT !.status = last]
    /\ file = last /\ crossed = FALSE
    /\ obs = At("services") /\ job = [p \in Projectors |-> Free]
    /\ tasks = [t \in Ids |-> "none"] /\ queue = <<>>
    /\ run = [pc |-> "get", task |-> NoTask]
    /\ sub = [pc |-> "none", task |-> NoTask, state |-> "none"]
    /\ view = Nowhere /\ heard = {}
    /\ breaks = 0 /\ clears = 0

-----------------------------------------------------------------------------
\* publish_runtime_status, _publish_task_update
PublishStatus(doc) == post' = [post EXCEPT !.status = doc]
PublishUpdates(updates) == post' = [post EXCEPT !.updates = @ \cup updates]

-----------------------------------------------------------------------------
\* The transport thread

\* The backend accepts (_default_connector), refuses for good or is not there.
\* The loop waits 1 s before it dials again, the observer looks every 0.1 s:
\* the degradation has been projected by then.
Dial ==
    /\ ~up /\ client \in {"connecting", "degraded"}
    /\ client = "degraded" => last.transport = client
    /\ \/ /\ up' = TRUE /\ client' = "connected" /\ breaks' = breaks
       \/ /\ breaks < limit.breaks /\ breaks' = breaks + 1
          /\ up' = up /\ client' \in {"degraded", "fatal"}
    /\ UNCHANGED <<post, desktop, store_vars, thread_vars, task_vars, view, heard, limit>>

\* RelayConsumer.receive_json: a status replaces the projection of the row, an
\* update becomes a StreamEvent.
Hear(status, updates) ==
    /\ heard' = heard \cup updates
    /\ view' = IF status = Nowhere THEN view ELSE status

\* The loop of the connector drains the mailbox and sends, and the backend
\* reads: nothing here depends on when.
Upload ==
    /\ up /\ sub.pc = "none"
    /\ post # Empty
    /\ Hear(post.status, post.updates) /\ post' = Empty
    /\ UNCHANGED <<client, up, breaks, limit, desktop, store_vars, thread_vars, task_vars>>

\* A link that breaks, also with a fatal close code, which ends the thread.
\* When the mailbox was drained, what the backend has not read is lost.
Break ==
    /\ up /\ breaks < limit.breaks /\ sub.pc = "none"
    /\ breaks' = breaks + 1
    /\ up' = FALSE /\ client' \in {"degraded", "fatal"}
    /\ \/ UNCHANGED <<post, view, heard>>
       \/ /\ post' = Empty
          /\ \E updates \in SUBSET post.updates : Hear(Nowhere, updates)
    /\ UNCHANGED <<desktop, store_vars, thread_vars, task_vars, limit>>

-----------------------------------------------------------------------------
\* Tasks: submitted and cleared by the transport thread, run by the runner

\* submit_request: the record and the queue ...
Submit(t) ==
    /\ up /\ sub.pc = "none"
    /\ t <= limit.tasks /\ tasks[t] = "none" /\ \A u \in 1..(t - 1) : tasks[u] # "none"
    /\ tasks' = [tasks EXCEPT ![t] = "queued"]
    /\ queue' = Append(queue, t)
    /\ sub' = [pc |-> "read", task |-> t, state |-> "none"]
    /\ UNCHANGED <<link_vars, post, desktop, store_vars, thread_vars, run, clears>>

\* ... and the observer: it reads the record when it builds the message.
ReadQueued ==
    /\ sub.pc = "read"
    /\ sub' = [sub EXCEPT !.pc = "publish", !.state = tasks[sub.task]]
    /\ UNCHANGED <<link_vars, post, desktop, store_vars, thread_vars, tasks, queue, run, clears>>
NotifyQueued ==
    /\ sub.pc = "publish"
    /\ PublishUpdates({<<sub.task, sub.state>>})
    /\ sub' = [pc |-> "none", task |-> NoTask, state |-> "none"]
    /\ UNCHANGED <<link_vars, desktop, store_vars, thread_vars, tasks, queue, run, clears>>

\* Mutant: the records of all tasks are cleared.
ClearPending_All ==
    /\ up /\ sub.pc = "none"
    /\ clears < limit.clears /\ queue # <<>>
    /\ clears' = clears + 1
    /\ tasks' = [t \in Ids |-> IF tasks[t] = "none" THEN "none" ELSE "cleared"]
    /\ PublishUpdates({<<t, "cleared">> : t \in {queue[i] : i \in DOMAIN queue}})
    /\ queue' = <<>>
    /\ sub' = IF store.state = "busy" THEN sub ELSE [sub EXCEPT !.pc = "idle"]
    /\ UNCHANGED <<link_vars, desktop, store_vars, thread_vars, run>>

\* clear_pending: every queued task, then a look at the runtime state ...
ClearPending ==
    /\ up /\ sub.pc = "none"
    /\ clears < limit.clears /\ queue # <<>>
    /\ clears' = clears + 1
    /\ LET cleared == {queue[i] : i \in DOMAIN queue} IN
         /\ tasks' = [t \in Ids |-> IF t \in cleared THEN "cleared" ELSE tasks[t]]
         /\ PublishUpdates({<<t, "cleared">> : t \in cleared})
    /\ queue' = <<>>
    /\ sub' = IF store.state = "busy" THEN sub ELSE [sub EXCEPT !.pc = "idle"]
    /\ UNCHANGED <<link_vars, desktop, store_vars, thread_vars, run>>

\* ... and, when it is not BUSY, an idle task.
ShowIdle ==
    /\ sub.pc = "idle"
    /\ sub' = [sub EXCEPT !.pc = "none"]
    /\ store' = [store EXCEPT !.task = NoTask, !.task_state = "idle", !.active = FALSE]
    /\ UNCHANGED <<link_vars, post, desktop, seen, file, last, crossed, thread_vars, tasks, queue, run, clears>>

\* _run: the steps of one task, each visible to the other threads.
Take ==
    /\ run.pc = "get" /\ queue # <<>>
    /\ queue' = Tail(queue)
    /\ tasks' = [tasks EXCEPT ![Head(queue)] = "running"]
    /\ run' = [pc |-> "busy", task |-> Head(queue)]
    /\ UNCHANGED <<link_vars, post, desktop, store_vars, thread_vars, sub, clears>>

MarkBusy ==
    /\ run.pc = "busy"
    /\ store' = [store EXCEPT !.state = "busy"]
    /\ run' = [run EXCEPT !.pc = "show"]
    /\ UNCHANGED <<link_vars, post, desktop, seen, file, last, crossed, thread_vars, tasks, queue, sub, clears>>

\* set_task, then on_task_running
Begin ==
    /\ run.pc = "show"
    /\ store' = [store EXCEPT !.task = run.task, !.task_state = "running", !.active = TRUE]
    /\ PublishUpdates({<<run.task, "running">>})
    /\ run' = [run EXCEPT !.pc = "execute"]
    /\ UNCHANGED <<link_vars, desktop, seen, file, last, crossed, thread_vars, tasks, queue, sub, clears>>

\* Mutant: a task that fails is not reported.
End_FailsSilently ==
    /\ run.pc = "execute"
    /\ \E result \in limit.results :
         /\ tasks' = [tasks EXCEPT ![run.task] = result]
         /\ IF result = "failed" THEN post' = post ELSE PublishUpdates({<<run.task, result>>})
    /\ run' = [run EXCEPT !.pc = "unshow"]
    /\ UNCHANGED <<link_vars, desktop, store_vars, thread_vars, queue, sub, clears>>

End ==
    /\ run.pc = "execute"
    /\ \E result \in limit.results :
         /\ tasks' = [tasks EXCEPT ![run.task] = result]
         /\ PublishUpdates({<<run.task, result>>})
    /\ run' = [run EXCEPT !.pc = "unshow"]
    /\ UNCHANGED <<link_vars, desktop, store_vars, thread_vars, queue, sub, clears>>

Unshow ==
    /\ run.pc = "unshow"
    /\ store' = [store EXCEPT !.task = run.task, !.task_state = tasks[run.task],
                              !.active = FALSE]
    /\ run' = [run EXCEPT !.pc = "ready"]
    /\ UNCHANGED <<link_vars, post, desktop, seen, file, last, crossed, thread_vars, tasks, queue, sub, clears>>

\* READY, whatever the observer wrote meanwhile.
MarkReady ==
    /\ run.pc = "ready"
    /\ store' = [store EXCEPT !.state = "ready"]
    /\ run' = [pc |-> "get", task |-> NoTask]
    /\ UNCHANGED <<link_vars, post, desktop, seen, file, last, crossed, thread_vars, tasks, queue, sub, clears>>

-----------------------------------------------------------------------------
\* The observer and the main thread

\* Mutant: only the stage and the task decide whether there is news.
News_StageOnly(doc) == last = Nowhere \/ doc.stage # last.stage \/ doc.task # last.task

\* project does nothing with the payload it projected last.
News(doc) == doc # last

\* _project_status, on a document taken before: project replaces status.json ...
ReplaceFile(p) ==
    /\ limit.meets /\ job[p].step = "replace"
    /\ IF News(job[p].doc)
       THEN file' = job[p].doc /\ job' = [job EXCEPT ![p].step = "set"]
       ELSE job' = [job EXCEPT ![p] = Free] /\ UNCHANGED file
    /\ UNCHANGED <<link_vars, post, desktop, store, seen, last, crossed, obs, main, task_vars>>

\* ... and keeps the document as the last one; ...
KeepLast(p) ==
    /\ job[p].step = "set"
    /\ last' = job[p].doc /\ job' = [job EXCEPT ![p].step = "publish"]
    /\ UNCHANGED <<link_vars, post, desktop, store, seen, file, crossed, obs, main, task_vars>>

\* ... it is published then, whatever the other thread did meanwhile.
PublishDocument(p) ==
    /\ job[p].step = "publish"
    /\ PublishStatus(job[p].doc)
    /\ crossed' = ({file, last} # {job[p].doc})
    /\ job' = [job EXCEPT ![p] = Free]
    /\ UNCHANGED <<link_vars, desktop, store, seen, file, last, obs, main, task_vars>>

\* The same with no other projection in between: the steps are one then, since no
\* other thread reads the file or last.
ProjectAlone(p) ==
    /\ ~limit.meets /\ job[p].step = "replace"
    /\ LET doc == job[p].doc IN
         IF News(doc) THEN file' = doc /\ last' = doc /\ PublishStatus(doc)
         ELSE UNCHANGED <<file, last, post>>
    /\ job' = [job EXCEPT ![p] = Free]
    /\ UNCHANGED <<link_vars, desktop, store, seen, crossed, obs, main, task_vars>>

Project(p) == ReplaceFile(p) \/ KeepLast(p) \/ PublishDocument(p) \/ ProjectAlone(p)
\* A thread takes the status to project it; unless the two meet, the observer waits
\* for the main thread's projection.
Takes(p, doc) ==
    /\ job[p] = Free /\ (p = "main" \/ limit.meets \/ job["main"] = Free)
    /\ job' = [job EXCEPT ![p] = [step |-> "replace", doc |-> doc]]

DesktopExits ==
    /\ desktop /\ limit.exits
    /\ desktop' = FALSE
    /\ UNCHANGED <<link_vars, post, store_vars, thread_vars, task_vars>>

\* A pass of _observe_runtime_facets: sync_services and a projection ...
ObserveServices ==
    /\ obs.pc = "services"
    /\ store' = [store EXCEPT !.services = IF desktop THEN "up" ELSE "down"]
    /\ Takes("observer", store')
    /\ obs' = At("transport")
    /\ UNCHANGED <<link_vars, post, desktop, seen, file, last, crossed, main, task_vars>>

\* ... sync_transport: the snapshot, to be applied unless it is the one seen last ...
ObserveTransport ==
    /\ obs.pc = "transport" /\ job["observer"] = Free
    /\ seen' = client
    /\ obs' = [pc |-> "apply", held |-> IF client = seen THEN "none" ELSE client]
    /\ UNCHANGED <<link_vars, post, desktop, store, file, last, crossed, main, job, task_vars>>

\* Mutant: a busy runtime does not take the transport's word.
ObserverApplies_NotBusy ==
    /\ obs.pc = "apply"
    /\ store' = IF obs.held = "none" \/ store.state = "busy" THEN store
                ELSE Transition(store, obs.held)
    /\ Takes("observer", store')
    /\ obs' = At(IF main.pc = "join" THEN "off" ELSE "services")
    /\ UNCHANGED <<link_vars, post, desktop, seen, file, last, crossed, main, task_vars>>

\* ... and another projection.
ObserverApplies ==
    /\ obs.pc = "apply"
    /\ store' = IF obs.held = "none" THEN store ELSE Transition(store, obs.held)
    /\ Takes("observer", store')
    /\ obs' = At(IF main.pc = "join" THEN "off" ELSE "services")
    /\ UNCHANGED <<link_vars, post, desktop, seen, file, last, crossed, main, task_vars>>

\* The end of boot: _sync_transport_state(force=True) with its projection, and
\* another _project_status.
MainSyncs ==
    /\ main.pc = "sync"
    /\ limit.meets \/ obs.held = "none"
    /\ seen' = client
    /\ IF limit.meets
       THEN main' = [pc |-> "apply", held |-> client] /\ store' = store
       ELSE main' = At("synced") /\ store' = Transition(store, client)
    /\ UNCHANGED <<link_vars, post, desktop, file, last, crossed, obs, job, task_vars>>
MainApplies ==
    /\ main.pc = "apply"
    /\ store' = Transition(store, main.held)
    /\ main' = At("synced")
    /\ UNCHANGED <<link_vars, post, desktop, seen, file, last, crossed, obs, job, task_vars>>
MainTakes ==
    /\ main.pc \in {"synced", "booted", "final"}
    /\ Takes("main", store)
    /\ main' = At(CASE main.pc = "synced" -> "booted"
                    [] main.pc = "booted" -> "serve"
                    [] main.pc = "final"  -> "ended")
    /\ UNCHANGED <<link_vars, post, desktop, store_vars, obs, task_vars>>

\* run_forever sees the fatal reason of the store and shuts down: it joins the
\* observer ...
StopObserver ==
    /\ main.pc = "serve" /\ job["main"] = Free /\ store.fatal
    /\ main' = At("join")
    /\ UNCHANGED <<link_vars, post, desktop, store_vars, obs, job, task_vars>>

\* ... and the transport, stops the desktop and says STOPPED.  A task that still
\* executes outlives the join of the runner.
ShutDown ==
    /\ main.pc = "join" /\ obs.pc = "off" /\ job["observer"] = Free
    /\ main' = At("final")
    /\ client' = "stopped" /\ up' = FALSE
    /\ desktop' = FALSE
    /\ store' = [store EXCEPT !.state = "stopped"]
    /\ UNCHANGED <<post, seen, file, last, crossed, obs, job, task_vars, view, heard, breaks, limit>>

Observer == ObserveServices \/ ObserveTransport \/ ObserverApplies \/ Project("observer")
Main == \/ MainSyncs \/ MainApplies \/ MainTakes \/ StopObserver \/ ShutDown
        \/ Project("main")
Runner == Take \/ MarkBusy \/ Begin \/ Unshow \/ MarkReady

StatusNext ==
    \/ Dial \/ Break \/ Upload
    \/ \E t \in Ids : Submit(t)
    \/ ReadQueued \/ NotifyQueued \/ ClearPending \/ ShowIdle
    \/ Runner \/ End
    \/ DesktopExits
    \/ Observer \/ Main

StatusSpec == StatusInit /\ [][StatusNext]_rs_vars

\* Every thread runs, the transport dials again, the backend reads what
\* arrives; a task ends in the end.  Nobody has to submit, and the backend
\* need not accept.
StatusFairness ==
    /\ WF_rs_vars(Dial) /\ WF_rs_vars(Upload)
    /\ WF_rs_vars(ReadQueued \/ NotifyQueued \/ ShowIdle)
    /\ WF_rs_vars(Runner \/ End)
    /\ WF_rs_vars(Observer) /\ WF_rs_vars(Main)

FairStatusSpec == StatusSpec /\ StatusFairness

-----------------------------------------------------------------------------
\* Properties

\* What is said of a task agrees with its record: it got at least that far, and when
\* the record says how it ended, in the same way.
Agrees(t, s) ==
    CASE s = "queued" -> tasks[t] # "none"
      [] s = "running" -> tasks[t] \in {"running", "completed", "failed"}
      [] OTHER -> tasks[t] = s

\* The updates of a task that the backend has heard never contradict its record or each
\* other: a task reported as running is not cleared, one that ended has one end.  The
\* same holds for what status file and projection show, although a notification reads
\* the record late and documents are projected long after they were taken.
ReportsAreTrue ==
    /\ \A update \in heard : Agrees(update[1], update[2])
    /\ \A doc \in {store, file, view} : doc.task # NoTask => Agrees(doc.task, doc.task_state)

\* What the backend is told of tasks and runtime has its type and is true
\* (runner.py, state.py, managed_session.py).
ReportsAreSound == StatusTypeOK /\ ReportsAreTrue

\* Once the link stays up backend and status file end up with the status of the
\* runtime, although messages die with a link and two threads project documents
\* they took at different times; unless their projections crossed at the end of
\* the boot, with an older document replacing the file or published last, and no
\* other has followed.
BackendCatchesUp == <>[]up => <>[](crossed \/ (view = store /\ file = store))

\* A connection that stays is reported as managed_ready in the end: no older
\* transport snapshot wins, unless the end of the boot met the observer.
ConnectedIsReported == ~limit.meets /\ <>[]up => <>[](store.stage = "managed_ready")

\* A task is shown as active only while one waits or runs, whatever clear_pending
\* wrote over it.
ActivityIsReal == store.active => \E t \in Ids : tasks[t] \in {"queued", "running"}

\* As long as no link broke, the end of a task has reached the backend.
Ended == {"completed", "failed", "cleared"}
EndsAreHeard == breaks = 0 => \A t \in Ids : tasks[t] \in Ended => <<t, tasks[t]>> \in heard

\* A rejected runtime has shut down, and its status file keeps the reason; the stage
\* says so too unless the end of the boot met the observer.
RejectionIsRecorded ==
    client \in {"fatal", "stopped"} =>
        main.pc = "ended" /\ file.fatal /\ (file.stage = "fatal" \/ limit.meets)

\* What ends in the runtime ends for the backend: a task that is done is in the end not
\* reported as the running one, its end is heard while the link holds, and a
\* refused token stops the runtime with a status that says so.
EndsReachBackend == <>[](ActivityIsReal /\ EndsAreHeard /\ RejectionIsRecorded)
=============================================================================
