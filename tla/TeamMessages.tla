---------------------------- MODULE TeamMessages ----------------------------
(***************************************************************************)
(* Messages to the agents of a project: what users send (relay.py,         *)
(* send_message of graphql/mutations.py) and what agents send each other   *)
(* (deliver_message of mcp_coord.py, interagent.py).  A call loads the     *)
(* rows of its recipients once and then serves them one after the other:   *)
(* a StreamEvent, the inbox on the volume, a restart of a dead agent.      *)
(* Meanwhile agents die, are killed, removed and come up again.  What      *)
(* becomes of a line in an inbox is the subject of TaskDelivery.           *)
(***************************************************************************)
CONSTANTS
  Members,   \* agents of the project
  Tagged,    \* those that carry the tag a user may address
  UserCalls, \* one call each of send_message and answer_question
  TeamCalls  \* one MCP call each

Sends == UserCalls \cup TeamCalls
NoMember == "nobody"
ASSUME CallsAreDistinct == UserCalls \cap TeamCalls = {}
ASSUME NobodyIsNoMember == NoMember \notin Members

VARIABLES
  fate,    \* [Members -> state of the row, its sandbox included]
  events,  \* StreamEvent rows of the messages: <<call, agent>>
  inbox,   \* inbox lines: <<call, agent>>
  team_feed, \* calls with a TeamFeedItem
  send,    \* [Sends -> frame]
  log      \* history for the properties, see Init

msg_vars == <<fate, events, inbox, team_feed, send, log>>

\* "lost": up, but without a sandbox.
Fates == {"stopped", "error", "deploying", "up", "lost", "removed"}
Existing == {a \in Members : fate[a] # "removed"}

\* _needs_restart
NeedsRestart(state) == state \in {"stopped", "error", "lost"}

\* todo: recipients not served yet; dead: those that need a restart by the
\* rows as loaded; now, step: the recipient being served and what comes next.
NewSend == [pc |-> "idle", kind |-> "none", to |-> {}, todo |-> {}, dead |-> {},
            now |-> NoMember, step |-> "none"]

\* woken: <<call, agent>> restarts; killed: agents killed since a call loaded
\* their rows, per call.
MsgInit ==
  /\ fate \in [Members -> {"stopped", "up"}]
  /\ events = {} /\ inbox = {} /\ team_feed = {}
  /\ send = [c \in Sends |-> NewSend]
  /\ log = [woken |-> {}, killed |-> [c \in Sends |-> {}]]

-----------------------------------------------------------------------------
(* Lifecycle of the agents, as far as messages see it.                     *)

\* hard_restart_agent: a deploying agent is left alone.
Restarted(a) == [fate EXCEPT ![a] = IF @ = "removed" THEN @ ELSE "deploying"]

AgentChanges ==
  \E a \in Existing :
    /\ \/ fate[a] = "deploying" /\ fate' = [fate EXCEPT ![a] = "up"]
       \/ fate[a] \in {"deploying", "up"} /\ fate' = [fate EXCEPT ![a] = "error"]
       \/ fate[a] = "up" /\ fate' = [fate EXCEPT ![a] = "lost"]
       \/ fate[a] \in {"stopped", "error"} /\ fate' = [fate EXCEPT ![a] = "removed"]
    /\ log' = [log EXCEPT !.killed = [c \in Sends |->
                 IF NeedsRestart(fate'[a]) THEN @[c] \cup {a} ELSE @[c]]]
    /\ UNCHANGED <<events, inbox, team_feed, send>>

Killed(a) ==
  /\ fate' = [fate EXCEPT ![a] = "stopped"]
  /\ log' = [log EXCEPT !.killed = [c \in Sends |-> @[c] \cup {a}]]

UserKills ==
  /\ \E a \in Existing : fate[a] \in {"deploying", "up", "lost", "error"} /\ Killed(a)
  /\ UNCHANGED <<events, inbox, team_feed, send>>

-----------------------------------------------------------------------------
(* Who gets it.                                                            *)

\* The mutation resolves each recipient of its list: stopped agents only
\* when they are named.
Addressees ==
  {{a} : a \in Existing}
    \cup {{a \in Existing : fate[a] # "stopped"}, {a \in Existing \cap Tagged : fate[a] # "stopped"}}

\* send_message of the mutations: without recipients it returns False;
\* otherwise the feed item of the user comes first.
UserAddresses(c) ==
  /\ send[c] = NewSend
  /\ \E list \in SUBSET Addressees :
       LET to == UNION list IN
         /\ to # {}
         /\ send' = [send EXCEPT ![c].pc = "load", ![c].kind = "user", ![c].to = to]
  /\ team_feed' = team_feed \cup {c}
  /\ UNCHANGED <<fate, events, inbox, log>>

\* answer_question: one agent, no feed item.
UserAnswers(c) ==
  /\ send[c] = NewSend
  /\ \E a \in Existing :
       send' = [send EXCEPT ![c].pc = "load", ![c].kind = "user", ![c].to = {a}]
  /\ UNCHANGED <<fate, events, inbox, team_feed, log>>

\* The rows are loaded: the ones that are gone are skipped, with none left
\* the call returns False.
Load(c) ==
  /\ send[c].pc = "load"
  /\ LET found == send[c].to \cap Existing IN
       send' = [send EXCEPT ![c].todo = found,
                            ![c].dead = {a \in found : NeedsRestart(fate[a])},
                            ![c].pc = IF found = {} THEN "false" ELSE "serve"]
  /\ log' = [log EXCEPT !.killed[c] = {}]
  /\ UNCHANGED <<fate, events, inbox, team_feed>>

\* deliver_message of the MCP tool: one teammate, or all others that are not
\* stopped.  Nobody is restarted for it.
TeamLoads(c, self) ==
  /\ send[c] = NewSend
  /\ \E to \in {{a} : a \in Existing} \cup {{a \in Existing \ {self} : fate[a] # "stopped"}} :
       send' = [send EXCEPT ![c].pc = "serve", ![c].kind = "team", ![c].to = to, ![c].todo = to]
  /\ log' = [log EXCEPT !.killed[c] = {}]
  /\ UNCHANGED <<fate, events, inbox, team_feed>>

\* Its shutdown_request kills the teammate, no approval asked.
TeamShutsDown(c) ==
  /\ send[c] = NewSend
  /\ \E a \in Existing : fate[a] # "stopped" /\ Killed(a)
  /\ send' = [send EXCEPT ![c].pc = "true"]
  /\ UNCHANGED <<events, inbox, team_feed>>

-----------------------------------------------------------------------------
(* One recipient after the other.                                          *)

\* create_stream_event: the row it refers to must still be there.
StoreEvent(c) ==
  /\ send[c].pc = "serve" /\ send[c].now = NoMember
  /\ \E a \in send[c].todo :
       /\ fate[a] # "removed"
       /\ events' = events \cup {<<c, a>>}
       /\ send' = [send EXCEPT ![c].now = a, ![c].step = "append", ![c].todo = @ \ {a}]
  /\ UNCHANGED <<fate, inbox, team_feed, log>>

\* The recipient is served, or waits for its restart.
AfterAppend(frame) ==
  IF frame.now \in frame.dead THEN [frame EXCEPT !.step = "restart"]
                              ELSE [frame EXCEPT !.now = NoMember, !.step = "none"]

\* deliver_input: append_task, then the reload.
AppendInbox(c) ==
  /\ send[c].step = "append"
  /\ inbox' = inbox \cup {<<c, send[c].now>>}
  /\ send' = [send EXCEPT ![c] = AfterAppend(@)]
  /\ UNCHANGED <<fate, events, team_feed, log>>

\* A statement that raises ends the call; recipients left over get nothing.
StepFails(c) ==
  /\ send[c].pc = "serve" /\ (send[c].todo # {} \/ send[c].now # NoMember)
  /\ send' = [send EXCEPT ![c] = [NewSend EXCEPT !.pc = "raised", !.kind = send[c].kind]]
  /\ UNCHANGED <<fate, events, inbox, team_feed, log>>

\* hard_restart_agent, decided by the row as it was loaded.
Wake(c) ==
  /\ send[c].step = "restart" /\ fate[send[c].now] # "removed"
  /\ fate' = Restarted(send[c].now)
  /\ log' = [log EXCEPT !.woken = @ \cup {<<c, send[c].now>>}]
  /\ send' = [send EXCEPT ![c].now = NoMember, ![c].step = "none"]
  /\ UNCHANGED <<events, inbox, team_feed>>

\* Mutant: the return is inside the loop.
Return_InLoop(c) ==
  /\ send[c].pc = "serve" /\ send[c].now = NoMember
  /\ send' = [send EXCEPT ![c].pc = "true"]
  /\ UNCHANGED <<fate, events, inbox, team_feed, log>>

\* The end of the loop.  The feed item of an MCP message may fail: swallowed.
Return(c) ==
  /\ send[c].pc = "serve" /\ send[c].now = NoMember /\ send[c].todo = {}
  /\ \/ send[c].kind = "team" /\ team_feed' = team_feed \cup {c}
     \/ UNCHANGED team_feed
  /\ send' = [send EXCEPT ![c].pc = "true"]
  /\ UNCHANGED <<fate, events, inbox, log>>

MsgNext ==
  \/ AgentChanges \/ UserKills
  \/ \E c \in UserCalls : UserAddresses(c) \/ UserAnswers(c) \/ Load(c)
  \/ \E c \in TeamCalls : TeamShutsDown(c) \/ \E self \in Members : TeamLoads(c, self)
  \/ \E c \in Sends : \/ StoreEvent(c) \/ AppendInbox(c) \/ StepFails(c)
                      \/ Wake(c) \/ Return(c)

MsgSpec == MsgInit /\ [][MsgNext]_msg_vars

-----------------------------------------------------------------------------
(* "Stored as a StreamEvent (audit log, never lost)" (relay.send_message):  *)
(* no agent finds a line in its inbox that the audit log does not know.     *)
AuditedBeforeQueued == inbox \subseteq events

(* "Auto-restart dead agents - inbox message already on volume": an agent   *)
(* that is restarted for a message finds it, however the call ends.         *)
WokenHasMessage == log.woken \subseteq inbox

(* A call that returns True has queued its message for every recipient      *)
(* whose row it loaded (send_message, broadcast_message, deliver_broadcast).*)
TrueMeansQueued ==
  \A c \in Sends, a \in Members :
    /\ send[c].pc = "true" /\ a \in send[c].to
    /\ <<c, a>> \notin inbox
    => fate[a] = "removed"

(* A message of a user does not lie in the inbox of a dead agent: when the  *)
(* call returned True the agent is alive or being deployed, unless it was   *)
(* killed or died after the call had loaded its row.                        *)
UserWakesDead ==
  \A c \in UserCalls, a \in Members :
    /\ send[c].pc = "true" /\ a \in send[c].to /\ a \notin log.killed[c]
    => ~NeedsRestart(fate[a])

\* A sender can rely on the answer: what is queued is in the audit log, who is
\* woken finds the message, TRUE means every recipient has it, and a recipient
\* that was dead is restarted.
SenderIsTold == AuditedBeforeQueued /\ WokenHasMessage /\ TrueMeansQueued /\ UserWakesDead
=============================================================================
