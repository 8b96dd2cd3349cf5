----------------------------- MODULE HumanLoop -----------------------------
(***************************************************************************)
(* The human in the loop of one agent: tool permissions and plan proposals.*)
(*                                                                         *)
(* The runtime thread that executes a task asks for a permission and       *)
(* blocks (managed_session.py); the transport thread carries the request   *)
(* over the websocket; a relay consumer of the backend turns it into a     *)
(* TeamFeedItem (callbacks.py); users settle items from the dashboard      *)
(* (feed.py) and their verdict travels back.  Plans travel as assistant    *)
(* events (stream.py).  Each connection has a consumer of its own, which   *)
(* handles what it still holds after its connection broke, beside the      *)
(* consumer of the next one.  Every database access and every await is a   *)
(* step of its own, so two handlers interleave between any two of them.    *)
(***************************************************************************)
EXTENDS Naturals, Sequences

CONSTANTS
  MaxItems,     \* permission requests, plan proposals and ends of turn in all
  Deciders,     \* dashboard mutations, one each
  MaxDrops      \* times the websocket breaks

ASSUME BoundsAreNat == MaxItems \in Nat /\ MaxDrops \in Nat

Items == 1..MaxItems        \* numbered in the order the runtime emits them
Conns == 1..(MaxDrops + 1)  \* connections, numbered in their order

VARIABLES
  exec,       \* executor thread: items emitted, request waited for, outcomes
  responses,  \* _callback_responses, [Items -> "none" or a verdict]
  mail,       \* the mailbox of the transport thread
  wire,       \* link as the runtime sees it, messages up per connection, commands
              \* down, breaks so far
  agent_row,  \* agent row: relay_connected, attention_level; stale: connections
              \* that broke and whose consumer has not run disconnect
  perm_status, plan_status,  \* feed items
  consumer,   \* [Conns -> frame of its relay consumer]
  user,       \* [Deciders -> frame of its mutation]
  story       \* history for the properties, see below

human_vars == <<exec, responses, mail, wire, agent_row, perm_status, plan_status, consumer, user, story>>

NoFrame == [pc |-> "idle", kind |-> "none", item |-> 0, verdict |-> "none", level |-> "none"]

\* given: verdicts saved per request; refused: requests a failed handler
\* denied; mixed: two handlers overlapped, or one failed, since attention was
\* last computed alone; crossed: since plans were last superseded, one was
\* created while another consumer was between its supersede and its create.
HumanInit ==
  /\ exec = [emitted |-> 0, waits |-> 0, outcome |-> [r \in Items |-> "none"]]
  /\ responses = [r \in Items |-> "none"]
  /\ mail = <<>>
  /\ wire = [link |-> "up", up |-> [c \in Conns |-> <<>>], down |-> <<>>,
             breaks |-> 0]
  /\ agent_row = [relay_connected |-> TRUE, attention_level |-> "none", stale |-> {}]
  /\ perm_status = [r \in Items |-> "absent"]
  /\ plan_status = [e \in Items |-> "absent"]
  /\ consumer = [c \in Conns |-> NoFrame]
  /\ user = [u \in Deciders |-> NoFrame]
  /\ story = [given |-> [r \in Items |-> {}], refused |-> {}, alone |-> TRUE, mixed |-> FALSE,
              crossed |-> FALSE]

Conn == wire.breaks + 1   \* the connection the runtime uses, or dials next

-----------------------------------------------------------------------------
(* The runtime.  The executor blocks inside request_callback, so it has at *)
(* most one request open.                                                  *)

\* request_callback publishes the request and waits on the condition.
Ask ==
  /\ exec.waits = 0 /\ exec.emitted < MaxItems
  /\ exec' = [exec EXCEPT !.emitted = @ + 1, !.waits = exec.emitted + 1]
  /\ mail' = Append(mail, <<"ask", exec.emitted + 1>>)
  /\ UNCHANGED <<responses, wire, agent_row, perm_status, plan_status, consumer, user, story>>

\* The entry of this request is there: it is popped and returned.
AskAnswered ==
  /\ exec.waits # 0 /\ responses[exec.waits] # "none"
  /\ exec' = [exec EXCEPT !.outcome[exec.waits] = responses[exec.waits], !.waits = 0]
  /\ responses' = [responses EXCEPT ![exec.waits] = "none"]
  /\ UNCHANGED <<mail, wire, agent_row, perm_status, plan_status, consumer, user, story>>

\* wait_for gives up after timeout_s with no entry: the tool is denied.
AskTimesOut ==
  /\ exec.waits # 0 /\ responses[exec.waits] = "none"
  /\ exec' = [exec EXCEPT !.outcome[exec.waits] = "timeout", !.waits = 0]
  /\ UNCHANGED <<responses, mail, wire, agent_row, perm_status, plan_status, consumer, user, story>>

\* The agent proposes a plan or ends a turn: an execution_event is published.
Emit(kind) ==
  /\ exec.waits = 0 /\ exec.emitted < MaxItems
  /\ exec' = [exec EXCEPT !.emitted = @ + 1]
  /\ mail' = Append(mail, <<kind, exec.emitted + 1>>)
  /\ UNCHANGED <<responses, wire, agent_row, perm_status, plan_status, consumer, user, story>>

\* The transport loop drains the mailbox and sends what it took out.
Flush ==
  /\ wire.link = "up" /\ mail # <<>>
  /\ wire' = [wire EXCEPT !.up[Conn] = @ \o mail] /\ mail' = <<>>
  /\ UNCHANGED <<exec, responses, agent_row, perm_status, plan_status, consumer, user, story>>

\* Mutant: one slot for the response, whatever request it answers.
ReceiveResponse_OneSlot ==
  /\ wire.link = "up" /\ mail = <<>> /\ wire.down # <<>>
  /\ exec.waits # 0
  /\ responses' = [responses EXCEPT ![exec.waits] = Head(wire.down)[2]]
  /\ wire' = [wire EXCEPT !.down = Tail(@)]
  /\ UNCHANGED <<exec, mail, agent_row, perm_status, plan_status, consumer, user, story>>

\* _apply_callback_response keeps the command under its request id.
ReceiveResponse ==
  /\ wire.link = "up" /\ mail = <<>> /\ wire.down # <<>>
  /\ LET cmd == Head(wire.down) IN responses' = [responses EXCEPT ![cmd[1]] = cmd[2]]
  /\ wire' = [wire EXCEPT !.down = Tail(@)]
  /\ UNCHANGED <<exec, mail, agent_row, perm_status, plan_status, consumer, user, story>>

\* The socket breaks: commands under way are lost, and so is the end of what
\* was sent, with what a flush had drained from the mailbox.
Break ==
  /\ wire.link = "up" /\ wire.breaks < MaxDrops
  /\ \E flushing \in BOOLEAN :
       LET sent == IF flushing THEN wire.up[Conn] \o mail ELSE wire.up[Conn] IN
       /\ \E n \in 0..Len(sent) :
            wire' = [link |-> "down", up |-> [wire.up EXCEPT ![Conn] = SubSeq(sent, 1, n)],
                     down |-> <<>>, breaks |-> wire.breaks + 1]
       /\ mail' = IF flushing THEN <<>> ELSE mail
  /\ agent_row' = [agent_row EXCEPT !.stale = @ \cup {Conn}]
  /\ UNCHANGED <<exec, responses, perm_status, plan_status, consumer, user, story>>

\* The connector dials again and RelayConsumer.connect marks the row.
Reconnect ==
  /\ wire.link = "down"
  /\ wire' = [wire EXCEPT !.link = "up"]
  /\ agent_row' = [agent_row EXCEPT !.relay_connected = TRUE]
  /\ UNCHANGED <<exec, responses, mail, perm_status, plan_status, consumer, user, story>>

\* RelayConsumer.disconnect of an old connection, after all it had received and
\* maybe after the new one was accepted: it clears the column all the same.
Disconnected(c) ==
  /\ c \in agent_row.stale /\ wire.up[c] = <<>> /\ consumer[c].pc = "idle"
  /\ agent_row' = [agent_row EXCEPT !.stale = @ \ {c}, !.relay_connected = FALSE]
  /\ UNCHANGED <<exec, responses, mail, wire, perm_status, plan_status, consumer, user, story>>

-----------------------------------------------------------------------------
(* recompute_attention, run at the end of every handler below.  A frame is *)
(* the local state of one handler; h' is what the step makes of it.        *)

PermPending == \E r \in Items : perm_status[r] = "pending"
PlanPending == \E e \in Items : plan_status[e] = "pending"
Level == IF PermPending THEN "permission" ELSE IF PlanPending THEN "plan" ELSE "none"

\* Mutant: without pending permissions the plans are not looked at.
Recompute_PermissionsOnly(h) ==
  [h EXCEPT !.pc = "write", !.level = IF PermPending THEN "permission" ELSE "none"]

Recompute(h) ==
  CASE h.pc = "attention" /\ PermPending  -> [h EXCEPT !.pc = "write", !.level = "permission"]
    [] h.pc = "attention" /\ ~PermPending -> [h EXCEPT !.pc = "plans"]
    [] h.pc = "plans" -> [h EXCEPT !.pc = "write", !.level = IF PlanPending THEN "plan" ELSE "none"]

Recomputing(h) == h.pc \in {"attention", "plans"}

OpenFrames == {c \in Conns : consumer[c].pc # "idle"} \cup {u \in Deciders : user[u].pc # "idle"}

\* A handler opens while others are open or not; a computation ends alone or not.
Opening == story' = [story EXCEPT !.alone = (OpenFrames = {}), !.mixed = @ \/ OpenFrames # {}]
Closing == story' = [story EXCEPT !.mixed = @ /\ ~story.alone]

-----------------------------------------------------------------------------
(* A relay consumer handles one upstream message of its connection at a    *)
(* time.                                                                   *)

Receive(c) ==
  /\ consumer[c].pc = "idle" /\ wire.up[c] # <<>>
  /\ LET m == Head(wire.up[c]) IN
       consumer' = [consumer EXCEPT ![c] =
                      [NoFrame EXCEPT !.kind = m[1], !.item = m[2],
                                      !.pc = IF m[1] = "result" THEN "attention" ELSE "create"]]
  /\ wire' = [wire EXCEPT !.up[c] = Tail(@)]
  /\ Opening
  /\ UNCHANGED <<exec, responses, mail, agent_row, perm_status, plan_status, user>>

\* create_permission_request creates the pending feed item.
CreatePermission(c) ==
  /\ consumer[c].pc = "create" /\ consumer[c].kind = "ask"
  /\ perm_status' = [perm_status EXCEPT ![consumer[c].item] = "pending"]
  /\ consumer' = [consumer EXCEPT ![c].pc = "attention"]
  /\ UNCHANGED <<exec, responses, mail, wire, agent_row, plan_status, user, story>>

\* A callback handler that raises makes the consumer deny the request on its
\* own connection, which may be gone; the item, if created, stays.
CallbackFails(c) ==
  /\ consumer[c].pc # "idle" /\ consumer[c].kind = "ask"
  /\ \E reaches \in {b \in BOOLEAN : b => wire.link = "up" /\ c = Conn} :
       wire' = IF reaches THEN [wire EXCEPT !.down = Append(@, <<consumer[c].item, "denied">>)]
                          ELSE wire
  /\ story' = [story EXCEPT !.refused = @ \cup {consumer[c].item}, !.mixed = TRUE]
  /\ consumer' = [consumer EXCEPT ![c] = NoFrame]
  /\ UNCHANGED <<exec, responses, mail, agent_row, perm_status, plan_status, user>>

\* _maybe_create_plan_item in auto mode: approved at once.
PlanAutoApproved(c) ==
  /\ consumer[c].pc = "create" /\ consumer[c].kind = "plan"
  /\ plan_status' = [plan_status EXCEPT ![consumer[c].item] = "approved"]
  /\ consumer' = [consumer EXCEPT ![c] = NoFrame]
  /\ UNCHANGED <<exec, responses, mail, wire, agent_row, perm_status, user, story>>

\* In the other modes pending plans are superseded first: the update applies to
\* the plans pending when it runs ...
SupersedePlans(c) ==
  /\ consumer[c].pc = "create" /\ consumer[c].kind = "plan"
  /\ plan_status' = [e \in Items |-> IF plan_status[e] = "pending" THEN "superseded"
                                      ELSE plan_status[e]]
  /\ consumer' = [consumer EXCEPT ![c].pc = "createplan"]
  /\ story' = [story EXCEPT !.crossed = FALSE]
  /\ UNCHANGED <<exec, responses, mail, wire, agent_row, perm_status, user>>

\* ... and then the new one is created.
CreatePlan(c) ==
  /\ consumer[c].pc = "createplan"
  /\ plan_status' = [plan_status EXCEPT ![consumer[c].item] = "pending"]
  /\ consumer' = [consumer EXCEPT ![c].pc = "attention"]
  /\ story' = [story EXCEPT !.crossed = @ \/ \E d \in Conns \ {c} : consumer[d].pc = "createplan"]
  /\ UNCHANGED <<exec, responses, mail, wire, agent_row, perm_status, user>>

ConsumerRecomputes(c) ==
  /\ Recomputing(consumer[c]) /\ consumer' = [consumer EXCEPT ![c] = Recompute(consumer[c])]
  /\ UNCHANGED <<exec, responses, mail, wire, agent_row, perm_status, plan_status, user, story>>

ConsumerWrites(c) ==
  /\ consumer[c].pc = "write"
  /\ agent_row' = [agent_row EXCEPT !.attention_level = consumer[c].level]
  /\ consumer' = [consumer EXCEPT ![c] = NoFrame] /\ Closing
  /\ UNCHANGED <<exec, responses, mail, wire, perm_status, plan_status, user>>

-----------------------------------------------------------------------------
(* Dashboard mutations: resolve_permission and resolve_plan.               *)

\* The item is loaded; only a copy that is pending goes on.
Resolve(u) ==
  /\ user[u] = NoFrame
  /\ \/ \E r \in Items, v \in {"allowed", "denied"} :
          /\ perm_status[r] = "pending"
          /\ user' = [user EXCEPT ![u] = [NoFrame EXCEPT !.pc = "save", !.kind = "ask",
                                                      !.item = r, !.verdict = v]]
     \/ \E e \in Items, v \in {"approved", "rejected"} :
          /\ plan_status[e] = "pending"
          /\ user' = [user EXCEPT ![u] = [NoFrame EXCEPT !.pc = "save", !.kind = "plan",
                                                      !.item = e, !.verdict = v]]
  /\ Opening
  /\ UNCHANGED <<exec, responses, mail, wire, agent_row, perm_status, plan_status, consumer>>

\* update_feed_item saves the verdict over whatever the item has become.
SavePermission(u) ==
  /\ user[u].pc = "save" /\ user[u].kind = "ask"
  /\ perm_status' = [perm_status EXCEPT ![user[u].item] = user[u].verdict]
  /\ story' = [story EXCEPT !.given[user[u].item] = @ \cup {user[u].verdict}]
  /\ user' = [user EXCEPT ![u].pc = "push"]
  /\ UNCHANGED <<exec, responses, mail, wire, agent_row, plan_status, consumer>>

\* A plan verdict is sent as a message through the inbox.
SavePlan(u) ==
  /\ user[u].pc = "save" /\ user[u].kind = "plan"
  /\ plan_status' = [plan_status EXCEPT ![user[u].item] = user[u].verdict]
  /\ user' = [user EXCEPT ![u].pc = "attention"]
  /\ UNCHANGED <<exec, responses, mail, wire, agent_row, perm_status, consumer, story>>

\* Mutant: a verdict that was sent is taken for one that was not.
PushVerdict_Reverts(u) ==
  /\ user[u].pc = "push" /\ agent_row.relay_connected
  /\ wire' = IF wire.link = "up"
             THEN [wire EXCEPT !.down = Append(@, <<user[u].item, user[u].verdict>>)]
             ELSE wire
  /\ user' = [user EXCEPT ![u].pc = "revert"]
  /\ UNCHANGED <<exec, responses, mail, agent_row, perm_status, plan_status, consumer, story>>

\* push_to_relay: with the column set the group gets the command, which
\* reaches the runtime when there is a connection ...
PushVerdict(u) ==
  /\ user[u].pc = "push" /\ agent_row.relay_connected
  /\ wire' = IF wire.link = "up"
             THEN [wire EXCEPT !.down = Append(@, <<user[u].item, user[u].verdict>>)]
             ELSE wire
  /\ user' = [user EXCEPT ![u].pc = "attention"]
  /\ UNCHANGED <<exec, responses, mail, agent_row, perm_status, plan_status, consumer, story>>

\* ... and with the column clear it returns False.
PushRefused(u) ==
  /\ user[u].pc = "push" /\ ~agent_row.relay_connected
  /\ user' = [user EXCEPT ![u].pc = "revert"]
  /\ UNCHANGED <<exec, responses, mail, wire, agent_row, perm_status, plan_status, consumer, story>>

\* Then the item is pending again and the mutation raises: "Permission verdict
\* will be delivered when the agent reconnects".  Attention is not recomputed.
Revert(u) ==
  /\ user[u].pc = "revert"
  /\ perm_status' = [perm_status EXCEPT ![user[u].item] = "pending"]
  /\ user' = [user EXCEPT ![u].pc = "idle"]
  /\ UNCHANGED <<exec, responses, mail, wire, agent_row, plan_status, consumer, story>>

UserRecomputes(u) ==
  /\ Recomputing(user[u]) /\ user' = [user EXCEPT ![u] = Recompute(user[u])]
  /\ UNCHANGED <<exec, responses, mail, wire, agent_row, perm_status, plan_status, consumer, story>>

UserWrites(u) ==
  /\ user[u].pc = "write"
  /\ agent_row' = [agent_row EXCEPT !.attention_level = user[u].level]
  /\ user' = [user EXCEPT ![u] = [@ EXCEPT !.pc = "idle", !.level = "none"]] /\ Closing
  /\ UNCHANGED <<exec, responses, mail, wire, perm_status, plan_status, consumer>>

-----------------------------------------------------------------------------
Runtime == Ask \/ AskAnswered \/ AskTimesOut \/ Emit("plan") \/ Emit("result")
TransportSteps == Flush \/ ReceiveResponse \/ Break \/ Reconnect
Relay(c) == \/ Receive(c) \/ CreatePermission(c) \/ CallbackFails(c) \/ PlanAutoApproved(c)
            \/ SupersedePlans(c) \/ CreatePlan(c) \/ ConsumerRecomputes(c)
            \/ ConsumerWrites(c) \/ Disconnected(c)
Mutation(u) == \/ Resolve(u) \/ SavePermission(u) \/ SavePlan(u) \/ PushVerdict(u)
               \/ PushRefused(u) \/ Revert(u) \/ UserRecomputes(u) \/ UserWrites(u)

HumanNext ==
  \/ Runtime \/ TransportSteps
  \/ \E c \in Conns : Relay(c)
  \/ \E u \in Deciders : Mutation(u)

HumanSpec == HumanInit /\ [][HumanNext]_human_vars

-----------------------------------------------------------------------------
Quiet == OpenFrames = {}
Mutations(r) == {u \in Deciders : user[u].kind = "ask" /\ user[u].item = r}

HumanTypeOK ==
  /\ exec.emitted \in 0..MaxItems /\ exec.waits \in 0..MaxItems
  /\ exec.outcome \in [Items -> {"none", "allowed", "denied", "timeout"}]
  /\ responses \in [Items -> {"none", "allowed", "denied"}]
  /\ wire.link \in {"up", "down"} /\ wire.breaks \in 0..MaxDrops
  /\ agent_row.attention_level \in {"none", "plan", "permission"}
  /\ agent_row.relay_connected \in BOOLEAN /\ agent_row.stale \subseteq Conns
  /\ perm_status \in [Items -> {"absent", "pending", "allowed", "denied"}]
  /\ plan_status \in [Items -> {"absent", "pending", "approved", "rejected", "superseded"}]

(* What the tool gets is a verdict a user gave on this very request, or the *)
(* denial of a failed handler, or the timeout: no response is taken for     *)
(* another request, and nothing but a user's verdict allows a tool          *)
(* (managed_session.request_callback, feed.resolve_permission).             *)
OutcomeIsVerdict ==
  \A r \in Items :
    /\ exec.outcome[r] = "allowed" => "allowed" \in story.given[r]
    /\ exec.outcome[r] = "denied" => "denied" \in story.given[r] \/ r \in story.refused

(* The attention level is a derived state: when no handler is open it is    *)
(* the level of the pending items, unless two handlers overlapped or one    *)
(* failed since it was last computed (feed.recompute_attention).            *)
AttentionSettles ==
  Quiet /\ ~story.mixed => agent_row.attention_level = Level

(* stream.py:223: "An agent can only have one pending plan at a time".      *)
OnePendingPlan ==
  \A d, e \in Items : plan_status[d] = "pending" /\ plan_status[e] = "pending" => d = e

(* A request whose verdict reached the tool is not shown as pending, when a *)
(* single mutation settled it: the item only goes back to pending when the  *)
(* verdict was not sent (feed.resolve_permission).                          *)
AnsweredNotPending ==
  \A r \in Items :
    /\ exec.outcome[r] \in {"allowed", "denied"} /\ r \notin story.refused
    /\ \E u \in Deciders : Mutations(r) = {u} /\ user[u].pc = "idle"
    => perm_status[r] # "pending"

(* The feed tells the truth about requests: a request that was answered does *)
(* not show as pending; and of an agent's plans one is open at a time, unless *)
(* the consumer of an old connection and that of the next crossed between    *)
(* superseding the plans and creating theirs (stream.py:269-282).  A later    *)
(* plan mends that.                                                          *)
FeedIsSound ==
  /\ HumanTypeOK
  /\ AnsweredNotPending
  /\ ~story.crossed => OnePendingPlan
=============================================================================
