---------------------------- MODULE AgentSession ----------------------------
(***************************************************************************)
(* The mode and the executor of one agent: how a saved mode travels over   *)
(* the row, _abox/state.json and a reload to the runtime, which            *)
(* conversation and which mode the next Claude process gets, and which     *)
(* process a signal reaches.  Calls of the backend read the row, save it,  *)
(* write the file and push in steps of their own, beside each other and    *)
(* beside a restart.  In the runtime two threads replace the executor,     *)
(* each with one it has built before: the runner on every event that       *)
(* carries a session id, the transport on a reload of state.json.          *)
(***************************************************************************)
EXTENDS Naturals, Sequences

CONSTANTS
    Modes,         \* permission modes
    MaxCalls,      \* bound: calls that write state.json
    MaxOutside,    \* bound: calls, signals, restarts and broken links together
    MaxSessions    \* bound: conversations Claude opens

Auto == "auto"

ASSUME SessionAssumption ==
    /\ Auto \in Modes
    /\ {MaxCalls, MaxOutside, MaxSessions} \subseteq Nat

VARIABLES
    saved,     \* Agent.mode
    file,      \* the mode in _abox/state.json on the volume
    calls,     \* the calls that write state.json
    phase,     \* of the deployment: "up" once a runtime has reported
    boot,      \* what the deployment under way has read of the row
    known,     \* Agent.session_id
    mail,      \* the session id of an event on its way to the backend
    link,      \* the websocket is up, and relay_connected
    wire,      \* commands on it
    env,       \* AGENT_MODE in os.environ of the runtime
    session,   \* RuntimeStateStore.session_id
    executor,  \* TaskRunner._executor
    held,      \* the executor the transport thread has built, not yet installed
    built,     \* the executor the runner thread has built, not yet installed
    proc,      \* the Claude process of the running turn
    opened,    \* conversations opened so far
    outside,   \* calls, signals, restarts and broken links so far
    raced,     \* history: writers of state.json overlapped since one ran alone
    missed     \* history: a reload was lost, and state.json not read since

backend == <<saved, file, calls, raced>>
deployment == <<phase, boot>>
channel == <<link, wire, missed>>
runtime == <<env, session, executor, held, built, proc, opened>>
vars == <<backend, deployment, channel, runtime, known, mail, outside>>

None == 0
Sessions == 0..MaxSessions
Calls == 1..MaxCalls
Executor == [resume : Sessions, mode : Modes]
Nothing == [resume |-> MaxSessions + 1, mode |-> Auto]   \* no executor is being built

\* A call and the mode of the row copy it works on.
Call == [at : {"new", "save", "write", "push", "done"}, mode : Modes]
Finished == [at |-> "done", mode |-> Auto]

\* attached: the executor that runs the process is still TaskRunner._executor.
Process == [on : BOOLEAN, attached : BOOLEAN, session : Sessions, hit : BOOLEAN]
NoProcess == [on |-> FALSE, attached |-> FALSE, session |-> None, hit |-> FALSE]

TypeOK ==
    /\ saved \in Modes /\ file \in Modes /\ env \in Modes
    /\ calls \in [Calls -> Call]
    /\ phase \in {"up", "reset", "read", "written", "booted"}
    /\ boot \in Executor
    /\ known \in Sessions /\ mail \in Sessions /\ session \in Sessions
    /\ link \in BOOLEAN /\ raced \in BOOLEAN /\ missed \in BOOLEAN
    /\ wire \in Seq({"reload", "interrupt", "clear"})
    /\ executor \in Executor
    /\ held \in Executor \union {Nothing} /\ built \in Executor \union {Nothing}
    /\ proc \in Process
    /\ opened \in Sessions
    /\ outside \in 0..MaxOutside

Init ==
    /\ saved = Auto /\ file = Auto /\ env = Auto
    /\ calls = [c \in Calls |-> [at |-> "new", mode |-> Auto]]
    /\ phase = "up" /\ boot = [resume |-> None, mode |-> Auto]
    /\ known = None /\ mail = None /\ session = None
    /\ link = TRUE /\ wire = <<>>
    /\ executor = [resume |-> None, mode |-> Auto]
    /\ held = Nothing /\ built = Nothing
    /\ proc = NoProcess
    /\ opened = 0
    /\ outside = 0
    /\ raced = FALSE /\ missed = FALSE

\* One more thing happens to the agent from outside.
Happens ==
    /\ outside < MaxOutside
    /\ outside' = outside + 1

-----------------------------------------------------------------------------
\* Backend: calls that write state.json

InFlight(c) == calls[c].at \in {"save", "write", "push"}

\* push_to_relay: nothing is kept for a runtime that is not connected.
PushCommand(kind) ==
    /\ wire' = IF link THEN Append(wire, kind) ELSE wire
    /\ missed' = (missed \/ (~link /\ kind = "reload"))
    /\ link' = link

\* A call reads the row.  It runs alone when no other is in flight and no
\* deployment is under way.
Load(c, at, mode) ==
    /\ Happens
    /\ calls[c].at = "new"
    /\ \A d \in Calls : d < c => calls[d].at # "new"
    /\ calls' = [calls EXCEPT ![c] = [at |-> at, mode |-> mode]]
    /\ raced' = (phase # "up" \/ \E d \in Calls : InFlight(d))
    /\ UNCHANGED <<saved, file, deployment, channel, runtime, known, mail>>

\* set_agent_mode: the agent runs, and the mode is not the present one.
LoadMode(c) ==
    /\ phase = "up"
    /\ \E mode \in Modes \ {saved} : Load(c, "save", mode)

\* "Always allow" and update_agent write the file with the mode of their copy
\* of the row, in any status.
LoadOther(c) == Load(c, "write", saved)

\* asave of mode and permission_mode.  The attention, the broadcast and the
\* stream event follow before the file is written.
SaveMode(c) ==
    /\ calls[c].at = "save"
    /\ saved' = calls[c].mode
    /\ calls' = [calls EXCEPT ![c].at = "write"]
    /\ UNCHANGED <<file, raced, deployment, channel, runtime, known, mail, outside>>

\* writer.mutate
WriteState(c) ==
    /\ calls[c].at = "write"
    /\ file' = calls[c].mode
    /\ calls' = [calls EXCEPT ![c].at = "push"]
    /\ UNCHANGED <<saved, raced, deployment, channel, runtime, known, mail, outside>>

PushReload(c) ==
    /\ calls[c].at = "push"
    /\ PushCommand("reload")
    /\ calls' = [calls EXCEPT ![c] = Finished]
    /\ UNCHANGED <<saved, file, raced, deployment, runtime, known, mail, outside>>

-----------------------------------------------------------------------------
\* Backend: signals and events

\* interrupt_agent
SendInterrupt ==
    /\ Happens
    /\ phase = "up"
    /\ PushCommand("interrupt")
    /\ UNCHANGED <<backend, deployment, runtime, known, mail>>

\* clear_agent_session
SendClear ==
    /\ Happens
    /\ phase = "up"
    /\ known' = None
    /\ PushCommand("clear")
    /\ UNCHANGED <<backend, deployment, runtime, mail>>

\* stream._handle_system, subtype init
Deliver ==
    /\ mail # None
    /\ known' = mail
    /\ mail' = None
    /\ UNCHANGED <<backend, deployment, channel, runtime, outside>>

-----------------------------------------------------------------------------
\* Backend: hard_restart_agent

\* _atomic_reset_for_restart; the old container and its runtime go away.
Reset ==
    /\ Happens
    /\ phase = "up"
    /\ phase' = "reset"
    /\ boot' = [boot EXCEPT !.resume = known]
    /\ known' = None
    /\ link' = FALSE /\ wire' = <<>> /\ missed' = TRUE
    /\ held' = Nothing /\ built' = Nothing /\ proc' = NoProcess
    /\ raced' = \E c \in Calls : InFlight(c)
    /\ UNCHANGED <<saved, file, calls, env, session, executor, opened, mail>>

\* _load_provision_inputs, at the border of the writes
ProvisionRead ==
    /\ phase = "reset"
    /\ phase' = "read"
    /\ boot' = [boot EXCEPT !.mode = saved]
    /\ UNCHANGED <<backend, channel, runtime, known, mail, outside>>

\* .relay_env and state.json
ProvisionWrite ==
    /\ phase = "read"
    /\ phase' = "written"
    /\ file' = boot.mode
    /\ UNCHANGED <<saved, calls, raced, boot, channel, runtime, known, mail, outside>>

\* The new runtime reads both files, state.json over .relay_env.
Boot ==
    /\ phase = "written"
    /\ phase' = "booted"
    /\ env' = file
    /\ executor' = [resume |-> boot.resume, mode |-> file]
    /\ session' = None
    /\ boot' = [resume |-> None, mode |-> Auto]
    /\ missed' = FALSE
    /\ UNCHANGED <<backend, link, wire, held, built, proc, opened, known, mail, outside>>

Running == phase \in {"up", "booted"}

-----------------------------------------------------------------------------
\* Runtime, runner thread

\* _run reads self._executor and starts the process.
StartTurn ==
    /\ Running /\ ~proc.on
    /\ proc' = [on |-> TRUE, attached |-> TRUE, session |-> executor.resume, hit |-> FALSE]
    /\ UNCHANGED <<backend, deployment, channel, known, mail, env, session, executor, held,
                   built, opened, outside>>

\* Mutant: the session id goes into the executor and not into the state store.
Event_NotStored(s) ==
    /\ session' = session
    /\ built' = [resume |-> s, mode |-> env]


\* on_execution_event: set_session, build_executor ...
Event(s) ==
    /\ session' = s
    /\ built' = [resume |-> s, mode |-> env]

\* A process that resumes nothing opens a conversation.
TurnEvent ==
    /\ proc.on /\ built = Nothing
    /\ \E s \in Sessions :
         /\ IF proc.session = None THEN s = opened + 1 ELSE s = proc.session
         /\ opened' = IF proc.session = None THEN opened + 1 ELSE opened
         /\ Event(s)
         /\ mail' = s
         /\ proc' = [proc EXCEPT !.session = s]
    /\ UNCHANGED <<backend, deployment, channel, known, env, executor, held, outside>>

\* ... and set_executor: the object that runs the process is no longer current.
InstallBuilt ==
    /\ built # Nothing
    /\ executor' = built
    /\ built' = Nothing
    /\ proc' = [proc EXCEPT !.attached = FALSE]
    /\ UNCHANGED <<backend, deployment, channel, known, mail, env, session, held, opened,
                   outside>>

EndTurn ==
    /\ proc.on /\ built = Nothing
    /\ proc' = NoProcess
    /\ UNCHANGED <<backend, deployment, channel, known, mail, env, session, executor, held,
                   built, opened, outside>>

-----------------------------------------------------------------------------
\* Runtime, transport thread

Receive(kind) ==
    /\ held = Nothing
    /\ wire # <<>> /\ Head(wire) = kind
    /\ wire' = Tail(wire)
    /\ link' = link

\* _apply_reload of state.json: read, override the environment, build ...
Reload ==
    /\ Receive("reload")
    /\ env' = file
    /\ held' = [resume |-> session, mode |-> file]
    /\ missed' = FALSE
    /\ UNCHANGED <<backend, deployment, known, mail, session, executor, built, proc, opened,
                   outside>>

\* ... and install.
InstallHeld ==
    /\ held # Nothing
    /\ executor' = held
    /\ held' = Nothing
    /\ proc' = [proc EXCEPT !.attached = FALSE]
    /\ UNCHANGED <<backend, deployment, channel, known, mail, env, session, built, opened,
                   outside>>

\* TaskRunner.interrupt asks the current executor, whose process it is or not.
Interrupt ==
    /\ Receive("interrupt")
    /\ proc' = [proc EXCEPT !.hit = proc.hit \/ (proc.on /\ proc.attached)]
    /\ UNCHANGED <<backend, deployment, missed, known, mail, env, session, executor, held,
                   built, opened, outside>>

\* _apply_signal CLEAR: clear_pending only (see TaskDelivery).
Clear ==
    /\ Receive("clear")
    /\ UNCHANGED <<backend, deployment, missed, runtime, known, mail, outside>>

LinkDrops ==
    /\ Happens
    /\ link
    /\ link' = FALSE
    /\ wire' = <<>>
    /\ missed' = (missed \/ \E i \in DOMAIN wire : wire[i] = "reload")
    /\ UNCHANGED <<backend, deployment, runtime, known, mail>>

\* on_connected reads the inbox again, nothing else.  The first report of a
\* new runtime ends its deployment.
Reconnect ==
    /\ Running /\ ~link
    /\ link' = TRUE
    /\ phase' = "up"
    /\ UNCHANGED <<backend, boot, wire, missed, runtime, known, mail, outside>>

CallSteps(c) == SaveMode(c) \/ WriteState(c) \/ PushReload(c)
Deploys == ProvisionRead \/ ProvisionWrite \/ Boot

Next ==
    \/ \E c \in Calls : LoadMode(c) \/ LoadOther(c) \/ CallSteps(c)
    \/ SendInterrupt \/ SendClear \/ Deliver \/ Reset \/ Deploys
    \/ StartTurn \/ TurnEvent \/ InstallBuilt \/ EndTurn
    \/ Reload \/ InstallHeld \/ Interrupt \/ Clear \/ LinkDrops \/ Reconnect

Spec == Init /\ [][Next]_vars

\* Calls and deployments go on, both threads of the runtime run and the link
\* comes back.  Tasks keep arriving, and a turn does not for ever end before its
\* first event.
FairSpec ==
    /\ Spec
    /\ \A c \in Calls : WF_vars(CallSteps(c))
    /\ WF_vars(Deploys)
    /\ WF_vars(StartTurn) /\ SF_vars(TurnEvent) /\ WF_vars(InstallBuilt) /\ WF_vars(EndTurn)
    /\ WF_vars(Reload) /\ WF_vars(InstallHeld) /\ WF_vars(Interrupt) /\ WF_vars(Clear)
    /\ WF_vars(Reconnect)

-----------------------------------------------------------------------------
\* Properties


\* The next turn ends up continuing the conversation the runtime reported last:
\* a reload that read an older session id does not win for good.
SessionCatchesUp == <>[](executor.resume = session)

\* An interrupt that arrives while a turn runs reaches its process.
InterruptReaches ==
    [][ (wire # <<>> /\ wire' = Tail(wire) /\ Head(wire) = "interrupt" /\ proc.on)
        => proc'.hit ]_vars
=============================================================================
