--------------------------- MODULE AgentLifecycle ---------------------------
(***************************************************************************)
(* The lifecycle of ONE agent of the control plane: its database row, the  *)
(* deployments that are created for it, the relay connections of their     *)
(* containers and the reconciler, all interleaved at the awaits of the     *)
(* backend.                                                                *)
(*                                                                         *)
(* A deployment d is what one call of create_agent or hard_restart_agent   *)
(* starts: a provisioning task, a container, a relay token and a lifecycle *)
(* attempt.  They are created together, so d names all four.               *)
(***************************************************************************)
EXTENDS Naturals, FiniteSets

CONSTANTS
    MaxDeployments,  \* bound: deployments in one behaviour
    MaxCrashes,      \* bound: crashes of the backend process
    MaxCalls,        \* bound: kill, remove and VNC calls, one at a time
    Slots,           \* relay consumers that can exist at the same time
    Runtime,         \* "docker" or "modal", AGENT_RUNTIME of the deployment
    Profile,         \* "desktop" or "headless", profile of the image
    Env              \* what the environment does in a run, see EnvEvents

\* reconcile: the reconciliation loop runs.   kill, remove: user requests.
\* turns: executor events arrive.             vnc: a VNC upstream fails.
\* dies: containers exit by themselves.       drops: relay links break.
\* provisionFails, terminateFails: the call raises.
\* slowProvision: provisioning outlives DEPLOY_GRACE_S.
\* slowGate: it outlives the container's own 120 s waits.
\* lingers: a consumer whose container is gone still handles its messages when
\* the next container connects (Daphne closes it 10 s after its link broke).
EnvEvents == {"reconcile", "kill", "remove", "turns", "vnc", "dies", "drops",
              "provisionFails", "terminateFails", "slowProvision", "slowGate",
              "lingers"}

ASSUME LifecycleAssumption ==
    /\ MaxDeployments \in Nat \ {0}
    /\ MaxCrashes \in Nat
    /\ MaxCalls \in Nat
    /\ Runtime \in {"docker", "modal"}
    /\ Profile \in {"desktop", "headless"}
    /\ Env \subseteq EnvEvents

VARIABLES
    row,      \* the agents_agent row (models.Agent)
    next,     \* the deployment the next restart will create
    pc,       \* pc[d]: progress of the task that provisions d
    old,      \* old[d]: sandbox the restart that created d has yet to terminate
    attempt,  \* attempt[d]: AgentLifecycleAttempt.status
    vol,      \* shared volume: provisioned.ready sentinel and .relay_env token
    box,      \* box[d]: the container of d
    tok,      \* tok[d]: relay token the runtime of d presents, 0 before boot
    conn,     \* conn[s]: a RelayConsumer with its cached copy of the row
    op,       \* a kill_agent, remove_agent or VNC connect call with its snapshot
    rec,      \* the reconciler: step of the pass and its snapshot
    crashes

vars == <<row, next, pc, old, attempt, vol, box, tok, conn, op, rec, crashes>>

None == 0
Deployments == 1..MaxDeployments
Active == {"IDLE", "RUNNING", "WAITING"}
Statuses == Active \union {"DEPLOYING", "ERROR", "STOPPED"}

\* A record for every row state; "REMOVED" stands for the deleted row.
\* age and disc abstract updated_at and relay_disconnected_at to what the
\* reconciler compares them with: 120 s (soft) and 300 s (hard).
Row == [status    : Statuses \union {"REMOVED"},
        desired   : {"DEPLOYED", "STOPPED"},
        sandbox   : Deployments \union {None},
        token     : Deployments \union {None},
        connected : BOOLEAN,
        ready     : BOOLEAN,
        age       : {"fresh", "soft", "hard"},
        disc      : {"none", "recent", "old"}]

\* A row without a deployment: just created, reset for a restart, deleted.
NewRow(status) ==
    [status |-> status, desired |-> "DEPLOYED", sandbox |-> None, token |-> None,
     connected |-> FALSE, ready |-> FALSE, age |-> "fresh", disc |-> "none"]

\* VALID_TRANSITIONS as a set of pairs.
ValidTransitions ==
    {<<"DEPLOYING", "IDLE">>, <<"DEPLOYING", "ERROR">>, <<"DEPLOYING", "STOPPED">>,
     <<"IDLE", "RUNNING">>, <<"IDLE", "ERROR">>, <<"IDLE", "STOPPED">>,
     <<"IDLE", "DEPLOYING">>,
     <<"RUNNING", "IDLE">>, <<"RUNNING", "WAITING">>, <<"RUNNING", "ERROR">>,
     <<"RUNNING", "STOPPED">>,
     <<"WAITING", "RUNNING">>, <<"WAITING", "IDLE">>, <<"WAITING", "ERROR">>,
     <<"WAITING", "STOPPED">>,
     <<"ERROR", "DEPLOYING">>, <<"ERROR", "STOPPED">>, <<"ERROR", "ERROR">>,
     <<"STOPPED", "DEPLOYING">>}

Legal(from, to) == <<from, to>> \in ValidTransitions
Exists == row.status # "REMOVED"

Live(d) == box[d] \in {"waiting", "bootstrap", "up"}
Phases == {"none", "restarting", "terminated", "queued", "created", "initialized",
           "written", "saved", "marked", "failing", "cleaned", "over"}
InFlight(d) == pc[d] \notin {"none", "over"}

Conn == [phase  : {"off", "auth", "refused", "open", "reported", "succeed", "assistant",
                   "result"},
         peer   : Deployments \union {None},
         status : Statuses \union {"REMOVED"},
         rc     : BOOLEAN,
         link   : BOOLEAN]
Off == [phase |-> "off", peer |-> None, status |-> "REMOVED",
        rc |-> FALSE, link |-> FALSE]

Snapshot == Deployments \union {None}
Op == [kind : {"none", "kill", "remove", "vnc"}, pc : {"idle", "terminate", "commit"},
       status : Statuses \union {"REMOVED"}, sandbox : Snapshot, calls : 0..MaxCalls]
NoCall == [kind |-> "none", pc |-> "idle", status |-> "REMOVED", sandbox |-> None,
           calls |-> 0]

RecSteps == {"orphans", "dead", "stuck", "limbo", "disconnect", "errored", "attempts"}
Rec == [step : RecSteps \union {"none"},
        pc : {"scan", "terminate", "mark", "fail", "succeed"}, sandbox : Snapshot]
Waiting == [step |-> "none", pc |-> "scan", sandbox |-> None]

TypeOK ==
    /\ row \in Row
    /\ next \in 1..(MaxDeployments + 1)
    /\ pc \in [Deployments -> Phases]
    /\ old \in [Deployments -> Snapshot]
    /\ attempt \in [Deployments -> {"none", "running", "succeeded", "failed"}]
    /\ vol \in [sentinel : Snapshot, relayEnv : Snapshot]
    /\ box \in [Deployments -> {"none", "waiting", "bootstrap", "up", "gone"}]
    /\ tok \in [Deployments -> Snapshot]
    /\ conn \in [Slots -> Conn]
    /\ op \in Op
    /\ rec \in Rec
    /\ crashes \in 0..MaxCrashes

(***************************************************************************)
(* create_agent has returned: the row is DEPLOYING and the provisioning    *)
(* task of deployment 1 is spawned.  d0 and c say where the numbering of   *)
(* restarts and the count of calls begin, and so what the bounds leave.    *)
(***************************************************************************)
Created(d0, c) ==
    /\ row = NewRow("DEPLOYING")
    /\ next = d0
    /\ pc = [d \in Deployments |-> IF d = 1 THEN "queued" ELSE "none"]
    /\ old = [d \in Deployments |-> None]
    /\ attempt = [d \in Deployments |-> IF d = 1 THEN "running" ELSE "none"]
    /\ vol = [sentinel |-> None, relayEnv |-> None]
    /\ box = [d \in Deployments |-> "none"]
    /\ tok = [d \in Deployments |-> None]
    /\ conn = [s \in Slots |-> Off]
    /\ op = [NoCall EXCEPT !.calls = c]
    /\ rec = Waiting
    /\ crashes = 0

Init == Created(2, 0)

-----------------------------------------------------------------------------
\* Containers

\* The containers in S stop; their relay links break with them.
Stop(S) ==
    /\ box' = [d \in Deployments |->
                 IF d \in S /\ box[d] # "none" THEN "gone" ELSE box[d]]
    /\ conn' = [s \in Slots |->
                 IF conn[s].peer \in S THEN [conn[s] EXCEPT !.link = FALSE] ELSE conn[s]]

\* runtime.terminate: best effort everywhere it is called; the exception of a
\* provider that cannot be reached is logged and the caller goes on.
Terminate(S) ==
    \/ Stop(S)
    \/ "terminateFails" \in Env /\ UNCHANGED <<box, conn>>

\* fsbridge --wait: the container's own gate wants its own token.
GateOpens(d) ==
    /\ box[d] = "waiting"
    /\ vol.sentinel = d
    /\ box' = [box EXCEPT ![d] = "bootstrap"]
    /\ UNCHANGED <<row, next, pc, old, attempt, vol, tok, conn, op, rec, crashes>>

\* ... and after 120 s gives up; the start script has no `set -e` and goes on.
GateTimesOut(d) ==
    /\ "slowGate" \in Env
    /\ box[d] = "waiting"
    /\ box' = [box EXCEPT ![d] = "bootstrap"]
    /\ UNCHANGED <<row, next, pc, old, attempt, vol, tok, conn, op, rec, crashes>>

\* ManagedBootstrap accepts any sentinel, then .relay_env overrides the
\* environment, RELAY_AUTH_TOKEN included.
BootstrapLoads(d) ==
    /\ box[d] = "bootstrap"
    /\ vol.sentinel # None
    /\ vol.relayEnv # None
    /\ tok' = [tok EXCEPT ![d] = vol.relayEnv]
    /\ box' = [box EXCEPT ![d] = "up"]
    /\ UNCHANGED <<row, next, pc, old, attempt, vol, conn, op, rec, crashes>>

BootstrapTimesOut(d) ==
    /\ "slowGate" \in Env
    /\ box[d] = "bootstrap"
    /\ Stop({d})
    /\ UNCHANGED <<row, next, pc, old, attempt, vol, tok, op, rec, crashes>>

ContainerDies(d) ==
    /\ "dies" \in Env
    /\ Live(d)
    /\ Stop({d})
    /\ UNCHANGED <<row, next, pc, old, attempt, vol, tok, op, rec, crashes>>

Container(d) == \/ GateOpens(d)     \/ GateTimesOut(d)
                \/ BootstrapLoads(d) \/ BootstrapTimesOut(d)
                \/ ContainerDies(d)

-----------------------------------------------------------------------------
\* Restart and provisioning.  Every step below is the code between two awaits
\* that other tasks can interleave with.

\* _atomic_reset_for_restart under the row lock.
RestartAllowed == row.status # "DEPLOYING" /\ Legal(row.status, "DEPLOYING")

\* Mutant: the old sandbox id is read after the reset cleared it.
RestartReset_ForgetsSandbox ==
    /\ next \in Deployments
    /\ RestartAllowed
    /\ row' = NewRow("DEPLOYING")
    /\ old' = [old EXCEPT ![next] = None]
    /\ pc' = [pc EXCEPT ![next] = "restarting"]
    /\ next' = next + 1
    /\ UNCHANGED <<attempt, vol, box, tok, conn, op, rec, crashes>>

RestartReset ==
    /\ next \in Deployments
    /\ RestartAllowed
    /\ row' = NewRow("DEPLOYING")
    /\ old' = [old EXCEPT ![next] = row.sandbox]
    /\ pc' = [pc EXCEPT ![next] = "restarting"]
    /\ next' = next + 1
    /\ UNCHANGED <<attempt, vol, box, tok, conn, op, rec, crashes>>

RestartTerminate(d) ==
    /\ pc[d] = "restarting"
    /\ Terminate({old[d]})
    /\ pc' = [pc EXCEPT ![d] = "terminated"]
    /\ old' = [old EXCEPT ![d] = None]
    /\ UNCHANGED <<row, next, attempt, vol, tok, op, rec, crashes>>

\* The attempt row and the spawned task; nothing is left to do for a row that
\* was deleted meanwhile.
RestartSpawn(d) ==
    /\ pc[d] = "terminated"
    /\ IF Exists
         THEN /\ attempt' = [attempt EXCEPT ![d] = "running"]
              /\ pc' = [pc EXCEPT ![d] = "queued"]
         ELSE /\ pc' = [pc EXCEPT ![d] = "over"]
              /\ UNCHANGED attempt
    /\ UNCHANGED <<row, next, old, vol, box, tok, conn, op, rec, crashes>>

\* Mutant: the stale container of the same name is left alone.
SameName_Keeps(d) == {}

\* runtime.create.  Docker removes the container that holds the agent's name.
SameName(d) == IF Runtime = "docker" THEN Deployments \ {d} ELSE {}

ProvisionCreate(d) ==
    /\ pc[d] = "queued"
    /\ Exists
    /\ box' = [e \in Deployments |->
                 IF e = d THEN "waiting"
                 ELSE IF e \in SameName(d) /\ box[e] # "none" THEN "gone" ELSE box[e]]
    /\ conn' = [s \in Slots |-> IF conn[s].peer \in SameName(d)
                                THEN [conn[s] EXCEPT !.link = FALSE] ELSE conn[s]]
    /\ pc' = [pc EXCEPT ![d] = "created"]
    /\ UNCHANGED <<row, next, old, attempt, vol, tok, op, rec, crashes>>

\* Modal: Sandbox.create succeeds and a later await of runtime.create raises,
\* so the task never learns the sandbox id and has nothing to clean up.
ProvisionHalfCreated(d) ==
    /\ "provisionFails" \in Env
    /\ Runtime = "modal"
    /\ pc[d] = "queued"
    /\ Exists
    /\ box' = [box EXCEPT ![d] = "waiting"]
    /\ pc' = [pc EXCEPT ![d] = "cleaned"]
    /\ UNCHANGED <<row, next, old, attempt, vol, tok, conn, op, rec, crashes>>

\* AgentMachine.initialize drops the sentinel of the previous boot.
ProvisionInitialize(d) ==
    /\ pc[d] = "created"
    /\ Exists
    /\ vol' = [vol EXCEPT !.sentinel = None]
    /\ pc' = [pc EXCEPT ![d] = "initialized"]
    /\ UNCHANGED <<row, next, old, attempt, box, tok, conn, op, rec, crashes>>

\* Mutant: the gate is released with the volume files, before the token is saved.
ProvisionWrite_Releases(d) ==
    /\ pc[d] = "initialized"
    /\ Exists
    /\ vol' = [sentinel |-> d, relayEnv |-> d]
    /\ pc' = [pc EXCEPT ![d] = "written"]
    /\ UNCHANGED <<row, next, old, attempt, box, tok, conn, op, rec, crashes>>

ProvisionWrite(d) ==
    /\ pc[d] = "initialized"
    /\ Exists
    /\ vol' = [vol EXCEPT !.relayEnv = d]
    /\ pc' = [pc EXCEPT ![d] = "written"]
    /\ UNCHANGED <<row, next, old, attempt, box, tok, conn, op, rec, crashes>>

\* Mutant: relay_token is missing from update_fields.
ProvisionSave_NoToken(d) ==
    /\ pc[d] = "written"
    /\ Exists
    /\ row' = [row EXCEPT !.sandbox = d, !.age = "fresh"]
    /\ pc' = [pc EXCEPT ![d] = "saved"]
    /\ UNCHANGED <<next, old, attempt, vol, box, tok, conn, op, rec, crashes>>

\* _save_agent_provisioned: the token before the gate.
ProvisionSave(d) ==
    /\ pc[d] = "written"
    /\ Exists
    /\ row' = [row EXCEPT !.sandbox = d, !.token = d, !.age = "fresh"]
    /\ pc' = [pc EXCEPT ![d] = "saved"]
    /\ UNCHANGED <<next, old, attempt, vol, box, tok, conn, op, rec, crashes>>

\* vol.mark_provisioned(relay_token)
ProvisionRelease(d) ==
    /\ pc[d] = "saved"
    /\ Exists
    /\ vol' = [vol EXCEPT !.sentinel = d]
    /\ pc' = [pc EXCEPT ![d] = "marked"]
    /\ UNCHANGED <<row, next, old, attempt, box, tok, conn, op, rec, crashes>>

\* await_machine_path_visible: returns at once on Docker; on Modal it needs
\* the running sandbox to show this token.
ProvisionVisible(d) ==
    /\ pc[d] = "marked"
    /\ Exists
    /\ pc' = [pc EXCEPT ![d] = IF Runtime = "modal" /\ ~(Live(d) /\ vol.sentinel = d)
                               THEN "failing" ELSE "over"]
    /\ UNCHANGED <<row, next, old, attempt, vol, box, tok, conn, op, rec, crashes>>

\* Any step can raise; for a deleted row the next attempt update does.
ProvisionFails(d) ==
    /\ pc[d] \in {"queued", "created", "initialized", "written", "saved", "marked"}
    /\ ~Exists \/ "provisionFails" \in Env
    /\ pc' = [pc EXCEPT ![d] = "failing"]
    /\ UNCHANGED <<row, next, old, attempt, vol, box, tok, conn, op, rec, crashes>>

\* The except branch: terminate the own container, then _save_agent_failed.
ProvisionCleanup(d) ==
    /\ pc[d] = "failing"
    /\ Terminate({d})
    /\ pc' = [pc EXCEPT ![d] = "cleaned"]
    /\ UNCHANGED <<row, next, old, attempt, vol, tok, op, rec, crashes>>

ProvisionSaveFailed(d) ==
    /\ pc[d] = "cleaned"
    /\ pc' = [pc EXCEPT ![d] = "over"]
    /\ IF Exists /\ Legal(row.status, "ERROR")
         THEN /\ row' = [row EXCEPT !.status = "ERROR", !.age = "fresh"]
              /\ attempt' = [attempt EXCEPT ![d] = "failed"]
         ELSE UNCHANGED <<row, attempt>>
    /\ UNCHANGED <<next, old, vol, box, tok, conn, op, rec, crashes>>

Provisioner(d) ==
    \/ RestartTerminate(d)   \/ RestartSpawn(d)
    \/ ProvisionCreate(d)    \/ ProvisionInitialize(d) \/ ProvisionWrite(d)
    \/ ProvisionSave(d)      \/ ProvisionRelease(d)    \/ ProvisionVisible(d)
    \/ ProvisionFails(d)     \/ ProvisionCleanup(d)    \/ ProvisionSaveFailed(d)
    \/ ProvisionHalfCreated(d)

-----------------------------------------------------------------------------
\* Relay connections: RelayConsumer.  A consumer handles one message at a
\* time and keeps its own copy of the row (self.agent) between them.

Consuming(s) == conn[s].phase \in {"open", "reported", "succeed", "assistant", "result"}

\* connect up to accept(): authenticate by token, remember the row.
ConnectAuth(s, d) ==
    /\ conn[s].phase = "off"
    /\ box[d] = "up"
    /\ \A t \in Slots : ~(conn[t].peer = d /\ conn[t].link)
    /\ "lingers" \in Env \/ \A t \in Slots : conn[t].peer \in {None, d}
    /\ Exists
    /\ tok[d] = row.token
    /\ conn' = [conn EXCEPT ![s] = [phase |-> "auth", peer |-> d,
                                    status |-> row.status, rc |-> TRUE, link |-> TRUE]]
    /\ UNCHANGED <<row, next, pc, old, attempt, vol, box, tok, op, rec, crashes>>

\* Close code 4001 is fatal for the runtime: its process and container exit.  The
\* consumer that refused has its disconnect() still to run.
ConnectRefused(s, d) ==
    /\ conn[s].phase = "off"
    /\ box[d] = "up"
    /\ \A t \in Slots : ~(conn[t].peer = d /\ conn[t].link)
    /\ "lingers" \in Env \/ \A t \in Slots : conn[t].peer \in {None, d}
    /\ ~Exists \/ tok[d] # row.token
    /\ box' = [box EXCEPT ![d] = "gone"]
    /\ conn' = [conn EXCEPT ![s] = [Off EXCEPT !.phase = "refused", !.peer = d]]
    /\ UNCHANGED <<row, next, pc, old, attempt, vol, tok, op, rec, crashes>>

\* The rest of connect: save relay_connected.  For a deleted row the save
\* raises and the consumer is gone.
ConnectSave(s) ==
    /\ conn[s].phase = "auth"
    /\ IF Exists
         THEN /\ row' = [row EXCEPT !.connected = TRUE]
              /\ conn' = [conn EXCEPT ![s].phase = "open"]
         ELSE /\ conn' = [conn EXCEPT ![s] = Off]
              /\ UNCHANGED row
    /\ UNCHANGED <<next, pc, old, attempt, vol, box, tok, op, rec, crashes>>

LinkDrops(s) ==
    /\ "drops" \in Env
    /\ conn[s].link
    /\ conn' = [conn EXCEPT ![s].link = FALSE]
    /\ UNCHANGED <<row, next, pc, old, attempt, vol, box, tok, op, rec, crashes>>

\* Mutant: the consumer leaves without touching the row.
Disconnect_KeepsFlag(s) ==
    /\ conn[s].phase \in {"open", "refused"}
    /\ ~conn[s].link
    /\ conn' = [conn EXCEPT ![s] = Off]
    /\ UNCHANGED <<row, next, pc, old, attempt, vol, box, tok, op, rec, crashes>>

\* disconnect(): whatever connection ends, the flag goes down.
Disconnect(s) ==
    /\ conn[s].phase \in {"open", "refused"}
    /\ ~conn[s].link
    /\ row' = IF Exists THEN [row EXCEPT !.connected = FALSE, !.disc = "recent"]
                        ELSE row
    /\ conn' = [conn EXCEPT ![s] = Off]
    /\ UNCHANGED <<next, pc, old, attempt, vol, box, tok, op, rec, crashes>>

\* runtime_status_meets_ready_boundary
Boundary(stageReady, relayConnected) ==
    stageReady /\ (Profile = "desktop" => relayConnected)

\* Mutant: attempts that are superseded are cancelled.
Complete_Cancels(v) ==
    [d \in Deployments |-> IF attempt[d] = "running" THEN "cancelled" ELSE attempt[d]]

\* All attempts that still run end as v.
Complete(v) == [d \in Deployments |-> IF attempt[d] = "running" THEN v ELSE attempt[d]]

\* receive_json "runtime_status": the decision uses the cached status ...
StatusAfterReport(s, ready) ==
    IF Boundary(ready, conn[s].rc) /\ conn[s].status = "DEPLOYING"
    THEN "IDLE" ELSE row.status

RuntimeStatus(s, ready) ==
    /\ conn[s].phase = "open"
    /\ Exists
    /\ row' = [row EXCEPT !.ready = ready, !.status = StatusAfterReport(s, ready)]
    /\ conn' = IF Boundary(ready, conn[s].rc)
               THEN [conn EXCEPT ![s].phase = "reported"] ELSE conn
    /\ UNCHANGED <<next, pc, old, attempt, vol, box, tok, op, rec, crashes>>

\* ... at the boundary the copy is read again (for a deleted row that raises
\* and ends the connection) ...
ReportRead(s) ==
    /\ conn[s].phase = "reported"
    /\ conn' = IF Exists
               THEN [conn EXCEPT ![s].phase = "succeed", ![s].status = row.status,
                                 ![s].rc = row.connected]
               ELSE [conn EXCEPT ![s].phase = "open", ![s].link = FALSE]
    /\ UNCHANGED <<row, next, pc, old, attempt, vol, box, tok, op, rec, crashes>>

\* ... and the attempts that run by then succeed.
ReportSucceed(s) ==
    /\ conn[s].phase = "succeed"
    /\ attempt' = Complete("succeeded")
    /\ conn' = [conn EXCEPT ![s].phase = "open"]
    /\ UNCHANGED <<row, next, pc, old, vol, box, tok, op, rec, crashes>>

\* process_stream_event: arefresh_from_db ...
StreamRefresh(s, event) ==
    /\ "turns" \in Env
    /\ conn[s].phase = "open"
    /\ Exists
    /\ conn' = [conn EXCEPT ![s].phase = event, ![s].status = row.status]
    /\ UNCHANGED <<row, next, pc, old, attempt, vol, box, tok, op, rec, crashes>>

\* ... then transition_agent_status on the copy and asave of the status.
StreamTarget(s) == IF conn[s].phase = "assistant" THEN "RUNNING" ELSE "IDLE"

StreamWrite(s) ==
    /\ conn[s].phase \in {"assistant", "result"}
    /\ IF Legal(conn[s].status, StreamTarget(s)) /\ Exists
         THEN /\ row' = [row EXCEPT !.status = StreamTarget(s)]
              /\ conn' = [conn EXCEPT ![s].phase = "open", ![s].status = StreamTarget(s)]
         ELSE /\ conn' = [conn EXCEPT ![s].phase = "open"]
              /\ UNCHANGED row
    /\ UNCHANGED <<next, pc, old, attempt, vol, box, tok, op, rec, crashes>>

\* The steps a consumer takes by itself once a message or a close is there.
Consumer(s) == \/ ConnectSave(s) \/ Disconnect(s)    \/ StreamWrite(s)
               \/ ReportRead(s)  \/ ReportSucceed(s)

Relay ==
    \/ \E s \in Slots : \/ Consumer(s)
                        \/ LinkDrops(s)
                        \/ \E d \in Deployments : ConnectAuth(s, d) \/ ConnectRefused(s, d)
                        \/ \E ready \in BOOLEAN : RuntimeStatus(s, ready)
                        \/ \E event \in {"assistant", "result"} : StreamRefresh(s, event)

-----------------------------------------------------------------------------
\* kill_agent and remove_agent: snapshot, terminate, write.

CanCall == op.pc = "idle" /\ op.calls < MaxCalls
Call(kind, at) == [kind |-> kind, pc |-> at, status |-> row.status,
                   sandbox |-> row.sandbox, calls |-> op.calls + 1]
Returned == [NoCall EXCEPT !.calls = op.calls]

\* relay.shutdown reaches every consumer of the agent's group.
KillRead ==
    /\ "kill" \in Env
    /\ CanCall
    /\ Exists
    /\ op' = Call("kill", "terminate")
    /\ conn' = [s \in Slots |-> [conn[s] EXCEPT !.link = FALSE]]
    /\ UNCHANGED <<row, next, pc, old, attempt, vol, box, tok, rec, crashes>>

RemoveRead ==
    /\ "remove" \in Env
    /\ CanCall
    /\ Exists
    /\ op' = Call("remove", "terminate")
    /\ UNCHANGED <<row, next, pc, old, attempt, vol, box, tok, conn, rec, crashes>>

OpTerminate ==
    /\ op.pc = "terminate"
    /\ Terminate({op.sandbox})
    /\ op' = [op EXCEPT !.pc = "commit", !.sandbox = None]
    /\ UNCHANGED <<row, next, pc, old, attempt, vol, tok, rec, crashes>>

\* The transition is validated against the snapshot, the update is blind.
KillCommit ==
    /\ op.pc = "commit"
    /\ op.kind = "kill"
    /\ op' = Returned
    /\ row' = IF Exists /\ Legal(op.status, "STOPPED")
              THEN [row EXCEPT !.status = "STOPPED", !.desired = "STOPPED"]
              ELSE row
    /\ UNCHANGED <<next, pc, old, attempt, vol, box, tok, conn, rec, crashes>>

\* adelete(), attempts cascade.
RemoveCommit ==
    /\ op.pc = "commit"
    /\ op.kind = "remove"
    /\ op' = Returned
    /\ row' = NewRow("REMOVED")
    /\ attempt' = [d \in Deployments |-> "none"]
    /\ UNCHANGED <<next, pc, old, vol, box, tok, conn, rec, crashes>>

OpStep == OpTerminate \/ KillCommit \/ RemoveCommit

-----------------------------------------------------------------------------
\* The reconciler.  A step of its pass scans the row; for a suspect it
\* terminates the sandbox it READ, writes the row whatever it holds by then,
\* and fails the attempts.  A step that finds nothing changes nothing, so the
\* order of the steps in a pass is not kept: any suspect may be next.

\* Agent.is_converged for a row whose desired status is DEPLOYED
Converged == row.status \in Active /\ Boundary(row.ready, row.connected)

\* Mutant: an idle agent's container is not looked at.
DeadContainer_OnlyRunning ==
    /\ Runtime = "docker"
    /\ row.status = "RUNNING"
    /\ row.sandbox # None /\ ~Live(row.sandbox)

DeadContainer ==
    /\ Runtime = "docker"
    /\ row.status \in {"IDLE", "RUNNING"}
    /\ row.sandbox # None /\ ~Live(row.sandbox)

\* Mutant: a running container is always given more time.
StuckDeploy_NoHardLimit ==
    /\ row.status = "DEPLOYING"
    /\ row.age # "fresh"
    /\ ~(Runtime = "docker" /\ row.sandbox # None /\ Live(row.sandbox))

\* Soft limit: unless a Docker container still runs.  Hard limit: always.
StuckDeploy ==
    /\ row.status = "DEPLOYING"
    /\ \/ row.age = "hard"
       \/ /\ row.age = "soft"
          /\ ~(Runtime = "docker" /\ row.sandbox # None /\ Live(row.sandbox))

RuntimeLimbo ==
    /\ row.status \in Active /\ row.desired = "DEPLOYED"
    /\ row.connected /\ row.age # "fresh"
    /\ ~Boundary(row.ready, row.connected)

RelayDisconnected ==
    /\ row.status \in Active /\ row.desired = "DEPLOYED"
    /\ ~row.connected
    /\ row.disc = "old" \/ (row.disc = "none" /\ row.age # "fresh")
    /\ ~Converged

\* Mutant: only an agent that still has a sandbox is reaped.
ErroredAgent_WithSandbox == row.status = "ERROR" /\ row.age # "fresh" /\ row.sandbox # None

ErroredAgent == row.status = "ERROR" /\ row.age # "fresh"

Suspect(step) ==
    \/ step = "dead"       /\ DeadContainer
    \/ step = "stuck"      /\ StuckDeploy
    \/ step = "limbo"      /\ RuntimeLimbo
    \/ step = "disconnect" /\ RelayDisconnected
    \/ step = "errored"    /\ ErroredAgent

RecScan(step) ==
    /\ "reconcile" \in Env
    /\ rec = Waiting
    /\ Suspect(step)
    /\ rec' = [step |-> step, pc |-> IF step = "dead" THEN "mark" ELSE "terminate",
               sandbox |-> row.sandbox]
    /\ UNCHANGED <<row, next, pc, old, attempt, vol, box, tok, conn, op, crashes>>

RecTerminate ==
    /\ rec.pc = "terminate"
    /\ Terminate({rec.sandbox})
    /\ rec' = [rec EXCEPT !.pc = "mark", !.sandbox = None]
    /\ UNCHANGED <<row, next, pc, old, attempt, vol, tok, op, crashes>>

\* mark_agent_runtime_unavailable: a forced transition.
Unavailable == [row EXCEPT !.status = "ERROR", !.connected = FALSE, !.disc = "recent",
                           !.sandbox = None, !.ready = FALSE, !.age = "fresh"]

\* _mark_stopped, forced as well; the sandbox id stays in the row.
Stopped == [row EXCEPT !.status = "STOPPED", !.age = "fresh"]

\* A row deleted meanwhile raises and ends the pass.
RecMark ==
    /\ rec.pc = "mark"
    /\ \/ ~Exists /\ rec' = Waiting /\ UNCHANGED row
       \/ /\ Exists /\ rec.step = "errored"
          /\ row' = Stopped
          /\ rec' = Waiting
       \/ /\ Exists /\ rec.step # "errored"
          /\ row' = Unavailable
          /\ rec' = [rec EXCEPT !.pc = "fail", !.sandbox = None]
    /\ UNCHANGED <<next, pc, old, attempt, vol, box, tok, conn, op, crashes>>

\* _reap_orphans_sync: Docker containers of an agent that is not active.
Orphans == {d \in Deployments : Runtime = "docker" /\ Live(d)
                                /\ row.status \notin Active \union {"DEPLOYING"}}

ReapOrphans ==
    /\ "reconcile" \in Env
    /\ rec = Waiting
    /\ Orphans # {}
    /\ Terminate(Orphans)
    /\ UNCHANGED <<row, next, pc, old, attempt, vol, tok, op, rec, crashes>>

\* Mutant: attempts of an agent in a terminal status are left alone.
RecAttempts_SkipsTerminal ==
    /\ "reconcile" \in Env
    /\ rec = Waiting
    /\ \E d \in Deployments : attempt[d] = "running"
    /\ Converged
    /\ rec' = [Waiting EXCEPT !.step = "attempts", !.pc = "succeed"]
    /\ UNCHANGED <<row, next, pc, old, attempt, vol, box, tok, conn, op, crashes>>

\* _reconcile_lifecycle_attempts reads the running attempts with their row.
\* started_at is not modelled: an attempt is over age when its row is.
RecAttempts ==
    /\ "reconcile" \in Env
    /\ rec = Waiting
    /\ \E d \in Deployments : attempt[d] = "running"
    /\ \/ /\ Converged
          /\ rec' = [Waiting EXCEPT !.step = "attempts", !.pc = "succeed"]
       \/ /\ \/ row.status \in {"ERROR", "STOPPED"}
             \/ row.status = "DEPLOYING" /\ row.age = "hard"
          /\ rec' = [Waiting EXCEPT !.step = "attempts", !.pc = "fail"]
    /\ UNCHANGED <<row, next, pc, old, attempt, vol, box, tok, conn, op, crashes>>

\* fail_ and succeed_active_lifecycle_attempts finish EVERY running attempt.
RecFinish ==
    /\ rec.pc \in {"fail", "succeed"}
    /\ attempt' = Complete(IF rec.pc = "fail" THEN "failed" ELSE "succeeded")
    /\ rec' = Waiting
    /\ UNCHANGED <<row, next, pc, old, vol, box, tok, conn, op, crashes>>

Reconciler == \/ \E step \in RecSteps : RecScan(step)
              \/ ReapOrphans \/ RecTerminate \/ RecMark \/ RecAttempts \/ RecFinish

-----------------------------------------------------------------------------
\* VncProxyConsumer: reads the row, then tries the upstream; a failure marks
\* the row unavailable when the row as READ was active and connected.
VncRead ==
    /\ "vnc" \in Env
    /\ CanCall
    /\ row.status \in Active /\ row.connected /\ row.sandbox # None
    /\ op' = Call("vnc", "commit")
    /\ UNCHANGED <<row, next, pc, old, attempt, vol, box, tok, conn, rec, crashes>>

VncFails ==
    /\ op.pc = "commit"
    /\ op.kind = "vnc"
    /\ op' = Returned
    /\ row' = IF Exists THEN Unavailable ELSE row
    /\ UNCHANGED <<next, pc, old, attempt, vol, box, tok, conn, rec, crashes>>

VncConnects ==
    /\ op.pc = "commit"
    /\ op.kind = "vnc"
    /\ op' = Returned
    /\ UNCHANGED <<row, next, pc, old, attempt, vol, box, tok, conn, rec, crashes>>

\* Time, where the reconciler reads it.  Unless "slowProvision" is in Env, a
\* provisioning task finishes within DEPLOY_GRACE_S of the last save of the row.
Ages ==
    /\ row.status \in Active \union {"DEPLOYING", "ERROR"}
    /\ row.age = "fresh" \/ (row.age = "soft" /\ row.status = "DEPLOYING")
    /\ "slowProvision" \in Env \/ \A d \in Deployments : ~InFlight(d)
    /\ row' = [row EXCEPT !.age = IF @ = "fresh" THEN "soft" ELSE "hard"]
    /\ UNCHANGED <<next, pc, old, attempt, vol, box, tok, conn, op, rec, crashes>>

DisconnectAges ==
    /\ row.status \in Active
    /\ row.disc = "recent"
    /\ row' = [row EXCEPT !.disc = "old"]
    /\ UNCHANGED <<next, pc, old, attempt, vol, box, tok, conn, op, rec, crashes>>

\* The backend process dies and restarts: its tasks and consumers vanish, no
\* disconnect handler runs, the database and the containers stay.
BackendCrash ==
    /\ crashes < MaxCrashes
    /\ crashes' = crashes + 1
    /\ pc' = [d \in Deployments |-> IF pc[d] = "none" THEN "none" ELSE "over"]
    /\ conn' = [s \in Slots |-> Off]
    /\ op' = Returned
    /\ rec' = Waiting
    /\ UNCHANGED <<row, next, old, attempt, vol, box, tok>>

-----------------------------------------------------------------------------
Next ==
    \/ RestartReset
    \/ \E d \in Deployments : Provisioner(d) \/ Container(d)
    \/ Relay
    \/ KillRead \/ RemoveRead \/ OpStep
    \/ Reconciler
    \/ VncRead \/ VncFails \/ VncConnects
    \/ Ages \/ DisconnectAges \/ BackendCrash

Spec == Init /\ [][Next]_vars

\* The transport loop of a runtime without a link dials again every second.
Reconnects(d) == \E s \in Slots : ConnectAuth(s, d) \/ ConnectRefused(s, d)

\* The boot of a container goes on; that it exits is up to the environment.
Boots(d) == \/ GateOpens(d)      \/ GateTimesOut(d)
            \/ BootstrapLoads(d) \/ BootstrapTimesOut(d)

\* What keeps running: asyncio tasks are not starved, the reconciler loop
\* passes again and again, timers expire, containers run.  Nothing obliges a
\* user to act, a link to stay up or a runtime to report readiness.
Fairness ==
    /\ \A d \in Deployments : WF_vars(Provisioner(d)) /\ WF_vars(Boots(d))
                                                    /\ WF_vars(Reconnects(d))
    /\ \A s \in Slots : WF_vars(Consumer(s))
    /\ WF_vars(OpStep) /\ WF_vars(VncFails \/ VncConnects)
    /\ WF_vars(Reconciler)
    /\ WF_vars(Ages) /\ WF_vars(DisconnectAges)

FairSpec == Spec /\ Fairness

-----------------------------------------------------------------------------
\* Properties

\* The row never names a sandbox whose relay token is not the one the row
\* accepts: relay authentication is always that of the current sandbox.
TokenMatchesSandbox == row.sandbox # None => row.token = row.sandbox

\* While the backend has not crashed, relay_connected is never left up by a
\* consumer that is gone: somebody will take it down.
RelayFlagHasConsumer ==
    crashes = 0 /\ row.connected => \E s \in Slots : Consuming(s)

\* The gate is never open for a token the backend has not recorded: the
\* sentinel of d is written only after d's token was saved in the row.
ReleaseFollowsSave ==
    vol.sentinel # None =>
        pc[vol.sentinel] \in {"marked", "failing", "cleaned", "over"}

\* Docker's fixed container name keeps one container per agent alive,
\* whatever restarts, kills and the reconciler interleave.
DockerSingleContainer ==
    Runtime = "docker" => \A d, e \in Deployments : Live(d) /\ Live(e) => d = e

\* hard_restart_agent: concurrent restarts never provision side by side.  That,
\* and the next two, hold while users restart and containers exit, not against
\* every writer: a row the reconciler marks, a result of the old runtime or a
\* consumer that lingers lets the next restart begin too early.
Provisioning(d) ==
    pc[d] \in {"restarting", "terminated", "queued", "created", "initialized",
              "written", "saved"}
SerialProvisioning ==
    \A d, e \in Deployments : Provisioning(d) /\ Provisioning(e) => d = e

\* No container is forgotten: a live one is the sandbox of the row, or its
\* provisioner or the restart that replaced it will still save or stop it.
Tended(d) ==
    \/ row.sandbox = d
    \/ pc[d] \in {"created", "initialized", "written", "failing"}
    \/ \E e \in Deployments : old[e] = d
NoOrphan == \A d \in Deployments : Live(d) => Tended(d)

\* A runtime that passed its gate is not turned away (4001 kills it) while
\* its deployment is the latest and the agent still exists.
LatestIsAccepted ==
    \A d \in Deployments : box[d] = "up" /\ d = next - 1 /\ Exists => tok[d] = row.token

\* Every deploy is resolved: the row does not stay DEPLOYING.
DeployingResolves == row.status = "DEPLOYING" ~> row.status # "DEPLOYING"

\* Every lifecycle attempt is finished, also the one of a restart that began
\* while another ended.  (A backend that dies between the status write and the
\* attempt leaves a killed agent IDLE, where no pass finishes it.)
AttemptsFinish ==
    \A d \in Deployments : attempt[d] = "running" ~> attempt[d] # "running" \/ crashes > 0

\* An agent in ERROR is reaped, redeployed or removed.
ErrorsAreReaped == row.status = "ERROR" ~> row.status # "ERROR"

\* reconcile.py: the loop handles containers that die without a clean
\* disconnect, so the row does not stay active without its container.
DeadContainerNoticed ==
    \A d \in Deployments :
        row.status \in Active /\ row.sandbox = d /\ box[d] = "gone"
            ~> ~(row.status \in Active /\ row.sandbox = d)

\* A container of an agent that is not active is reaped.
OrphansAreReaped ==
    \A d \in Deployments :
        Live(d) /\ row.status \in {"ERROR", "STOPPED", "REMOVED"}
            ~> ~Live(d) \/ row.status \in Active \union {"DEPLOYING"}

\* No deploy stays open, and none of its attempts, however provisioning, the
\* container and the reconciler's deadlines race (_provision_agent, reconcile_agents).
DeploysAreConcluded == DeployingResolves /\ AttemptsFinish

\* What containers do by themselves is noticed: one that exits is taken off its
\* row, one without an agent is stopped (reconcile_agents, _reap_orphans_sync).
ContainersAreReconciled == DeadContainerNoticed /\ OrphansAreReaped
=============================================================================
