--------------------------- MODULE MCLifecycleMix ---------------------------
(* Environments of AgentLifecycle in one run: a behaviour has one of them,   *)
(* chosen in its initial state.  The restarts have more deployments; with    *)
(* more writers there are fewer deployments, or one consumer at a time.      *)
(* The other thing a consumer does is to keep the event log of a turn        *)
(* (EventLog); it shares no state with the lifecycle and runs by itself.     *)
EXTENDS MCAgentLifecycle, EventLog

VARIABLE mix

Restarting == INSTANCE AgentLifecycle WITH Env <- RestartsAndDeaths
Requesting == INSTANCE AgentLifecycle WITH Env <- Requests
Sweeping == INSTANCE AgentLifecycle WITH Env <- Sweeps

OneConsumer == \A s, t \in Slots : conn[s] # Off /\ conn[t] # Off => s = t

\* Changes of the mode; a link that breaks; a restart.
Mishaps(m, b, r) == [modes |-> m, breaks |-> b, restarts |-> r]
MCEventFaults == {Mishaps(2, 0, 0), Mishaps(0, 1, 0), Mishaps(0, 0, 1)}

MixInit ==
    /\ Init /\ EventsInit
    /\ mix \in {"restarts", "requests", "sweeps", "churn", "events"}
    /\ mix # "events" => source.topic = "answers" /\ faults.breaks = 1
    /\ source.topic = "answers" => faults.modes = 0
    /\ source.topic = "phases" => faults.breaks = 1
    /\ source.topic = "modes" => faults.modes = 2

MixNext ==
    /\ UNCHANGED mix
    /\ \/ /\ UNCHANGED el_vars
          /\ \/ mix = "restarts" /\ Restarting!Next
             \/ mix = "requests" /\ Requesting!Next /\ next' <= 3
             \/ mix = "sweeps" /\ Sweeping!Next /\ next' <= 3 /\ OneConsumer'
             \/ mix = "churn" /\ Next /\ next' <= 2 /\ OneConsumer'
       \/ mix = "events" /\ EventsNext /\ UNCHANGED vars

MixSpec == MixInit /\ [][MixNext]_<<vars, el_vars, mix>>

\* While the only writers are restarts, provisioning and the relay, restarts
\* never provision side by side (a row that the reconciler marks can be restarted
\* while its provisioning still runs; so can one that a consumer of the container
\* before takes out of DEPLOYING).
RestartsAreSerial == mix = "restarts" => SerialProvisioning

\* No container is forgotten (a terminate call that fails, or a kill that meets
\* a restart, leaves one to the reconciler).
RestartsForgetNothing == mix = "restarts" => NoOrphan

\* And the newest runtime is never turned away.
RestartsAreAccepted == mix = "restarts" => LatestIsAccepted

\* Restarts, deaths and connections alone never get provisioning out of step with
\* the row: one after the other, no container lost, the newest one accepted.
RestartsAreSound == RestartsAreSerial /\ RestartsForgetNothing /\ RestartsAreAccepted
=============================================================================
