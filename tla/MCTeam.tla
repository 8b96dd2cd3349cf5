------------------------------- MODULE MCTeam -------------------------------
(* What the agents of a team and their users do to the same rows: the task   *)
(* board, messages, triggers and the compute ledger.  They share no state: a *)
(* behaviour runs the part chosen in its initial state.                      *)
EXTENDS TeamTasks, TeamMessages, Triggers, ComputeLedger, TLC

VARIABLE part

SameCalls == Permutations(Agents) \cup Permutations(TaskIds)

\* The first trigger ticks every minute, the second once.
EveryMinuteAndOnce == [k \in Slots |-> IF k = 1 THEN {1, 2, 3} ELSE {2}]

\* The closers that share the ledger: user requests against the proxy, which
\* forces the row; restarts against everything the reconciler does.
LedgerPart ==
  \/ /\ part = "requests"
     /\ \/ now < 3 /\ Tick
        \/ ConnectRead \/ ConnectSave \/ Ready \/ Disconnect \/ Restart
        \/ KillRead \/ KillSegment \/ KillWrite
        \/ MarkRead("vnc", "vnc") \/ MarkCharge("vnc") \/ MarkSegment("vnc") \/ MarkWrite("vnc")
  \/ /\ part = "sweeps"
     /\ \/ Tick \/ ConnectRead \/ ConnectSave \/ Ready \/ Disconnect \/ Fail \/ Restart
        \/ MarkRead("reconciler", "unavailable") \/ MarkRead("reconciler", "reap")
        \/ MarkCharge("reconciler") \/ MarkSegment("reconciler") \/ MarkWrite("reconciler")

TeamInit ==
  /\ BoardInit /\ MsgInit /\ TriggersInit /\ Init
  /\ part \in {"tasks", "messages", "triggers", "requests", "sweeps"}
  /\ part = "messages" \/ fate = [a \in Members |-> "up"]

TeamNext ==
  /\ UNCHANGED part
  /\ \/ part = "tasks" /\ UNCHANGED <<msg_vars, trigger_vars, vars>> /\ BoardNext
     \/ part = "messages" /\ UNCHANGED <<board_vars, trigger_vars, vars>> /\ MsgNext
     \/ part = "triggers" /\ UNCHANGED <<board_vars, msg_vars, vars>> /\ TriggersNext
     \/ UNCHANGED <<board_vars, msg_vars, trigger_vars>> /\ LedgerPart

TeamSpec == TeamInit /\ [][TeamNext]_<<board_vars, msg_vars, trigger_vars, vars, part>>

\* No second of the agent's life is in two segments while the reconciler is the
\* only closer beside the restart; a kill that overlaps with the VNC proxy can
\* charge a second twice.
SweepsKeepSegmentsDisjoint == part = "sweeps" => SegmentsDisjoint
=============================================================================
