-------------------------- MODULE MCAgentLifecycle --------------------------
(* Environments in which AgentLifecycle is model-checked: each is the set of *)
(* the EnvEvents that may happen in a run.                                   *)
EXTENDS AgentLifecycle, TLC

SlotSymmetry == Permutations(Slots)

\* Restarts of the user, and containers that exit; the consumer of a container
\* is gone before the next one connects.
RestartsAndDeaths == {"dies"}

\* The row is changed by several writers, and terminate calls fail: by users,
\* by the reconciler, by both.
Requests == {"kill", "remove", "vnc", "terminateFails", "lingers"}
Sweeps == {"reconcile", "vnc", "terminateFails", "lingers"}
Churn == Requests \cup Sweeps

\* Links that come and go while provisioning fails half-way.  Either the agent
\* is restarted or its user calls: the bound of the other is used up.
Links == {"turns", "drops", "provisionFails", "remove", "vnc", "lingers"}
LinksSpec ==
    /\ Created(2, MaxCalls) \/ Created(MaxDeployments + 1, 0)
    /\ [][Next]_vars

\* What the reconciler is there for: deaths; kills, provisioning that fails or
\* outlives the deadlines of the reconciler and of the container.
Failures == {"reconcile", "dies", "lingers"}
Stops == {"reconcile", "kill", "dies", "provisionFails", "slowProvision", "slowGate",
          "lingers"}
=============================================================================
