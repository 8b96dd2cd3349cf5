------------------------------ MODULE TeamTasks ------------------------------
(***************************************************************************)
(* The task board of a project: AgentTask rows that agents change through  *)
(* the MCP tools (mcp_coord.py) and users through the dashboard            *)
(* (graphql/mutations.py).  A call loads the row, changes its copy, saves  *)
(* the fields it changed and reports the change in the team feed; every    *)
(* database access is a step, so calls interleave between any two.         *)
(*                                                                         *)
(* title, description and active_form are overwritten like assignee, and   *)
(* blocks grows like blocked_by: one field stands for each kind.           *)
(***************************************************************************)
EXTENDS FiniteSets

CONSTANTS
  TaskIds,   \* task ids, a new uuid for every create
  Agents,  \* calls of the MCP tools, one each
  Users,   \* calls of the dashboard mutations, one each
  Names,   \* assignees
  Keys,    \* metadata keys
  Absent   \* no row

Calls == Agents \cup Users
Fields == {"status", "assignee", "blocked_by", "metadata"}

VARIABLES
  tasks,  \* the rows, [TaskIds -> Row \cup {Absent}]
  call,   \* [Calls -> frame]
  feed,   \* TeamFeedItem rows of type "task": <<task, from, to>>
  hist    \* history for the properties, see BoardInit

board_vars == <<tasks, call, feed, hist>>

Statuses == {"pending", "in_progress", "completed"}
Row == [status : Statuses, assignee : {""} \cup Names,
        blocked_by : SUBSET TaskIds, metadata : SUBSET Keys]
ASSUME AbsentIsNoRow == Absent \notin Row \cup TaskIds

NewTask(who) == [status |-> "pending", assignee |-> who, blocked_by |-> {}, metadata |-> {}]

\* pc: the next statement.  copy, old: the row as loaded, its changes made.
\* The frame of a call that returned or raised is gone but for its outcome.
Free == [pc |-> "idle", task |-> Absent, copy |-> Absent, fields |-> {}, old |-> ""]
Left(pc) == [Free EXCEPT !.pc = pc]

\* deleted: rows that were deleted; saved: statuses each row was given;
\* added: blockers whose save went through; stale: tasks whose blockers were
\* saved from a copy older than the row; loaded: blockers a call read.
BoardInit ==
  /\ tasks = [t \in TaskIds |-> Absent]
  /\ call = [c \in Calls |-> Free]
  /\ feed = {}
  /\ hist = [deleted |-> {}, saved |-> [t \in TaskIds |-> {}], added |-> [t \in TaskIds |-> {}],
             stale |-> {}, loaded |-> [c \in Calls |-> {}]]

-----------------------------------------------------------------------------
\* create_task: assigned to its creator, or to nobody.
Create(c) ==
  /\ call[c] = Free
  /\ \E t \in TaskIds, who \in {""} \cup Names :
       /\ tasks[t] = Absent /\ t \notin hist.deleted
       /\ \A d \in Calls : call[d].task # t
       /\ tasks' = [tasks EXCEPT ![t] = NewTask(who)]
       /\ call' = [call EXCEPT ![c] = [pc |-> "feed", task |-> t, copy |-> NewTask(who),
                                       fields |-> {"status"}, old |-> ""]]
       /\ hist' = [hist EXCEPT !.saved[t] = {"pending"}]
  /\ UNCHANGED feed

\* Mutant: the blockers are replaced.
Changed_ReplacesBlockers(row, status, assignee, blockers, puts, drops) ==
  [status     |-> IF status = "" THEN row.status ELSE status,
   assignee   |-> IF assignee = "" THEN row.assignee ELSE assignee,
   blocked_by |-> IF blockers = {} THEN row.blocked_by ELSE blockers,
   metadata   |-> (row.metadata \cup puts) \ drops]

\* What update_task makes of its copy: a value replaces, blockers are united,
\* metadata keys are put or dropped.
Changed(row, status, assignee, blockers, puts, drops) ==
  [status     |-> IF status = "" THEN row.status ELSE status,
   assignee   |-> IF assignee = "" THEN row.assignee ELSE assignee,
   blocked_by |-> row.blocked_by \cup blockers,
   metadata   |-> (row.metadata \cup puts) \ drops]

Named(status, assignee, blockers, puts, drops) ==
  {f \in Fields : \/ f = "status" /\ status # ""
                  \/ f = "assignee" /\ assignee # ""
                  \/ f = "blocked_by" /\ blockers # {}
                  \/ f = "metadata" /\ puts \cup drops # {}}

\* update_task loads the row, by its id in the project of the caller.
Update(c, t, status, assignee, blockers, puts, drops) ==
  /\ call[c] = Free
  /\ tasks[t] # Absent
  /\ puts \cap drops = {}
  /\ LET fields == Named(status, assignee, blockers, puts, drops) IN
       /\ fields # {}
       /\ call' = [call EXCEPT ![c] =
            [pc |-> "save", task |-> t, fields |-> fields, old |-> tasks[t].status,
             copy |-> Changed(tasks[t], status, assignee, blockers, puts, drops)]]
  /\ hist' = [hist EXCEPT !.loaded[c] = tasks[t].blocked_by]
  /\ UNCHANGED <<tasks, feed>>

\* An agent may give every argument; the dashboard mutation only the status.
AgentUpdates(c) ==
  \E t \in TaskIds, status \in {"", "in_progress", "completed"}, assignee \in {""} \cup Names,
     blockers \in SUBSET TaskIds, puts, drops \in SUBSET Keys :
       Update(c, t, status, assignee, blockers, puts, drops)

UserUpdates(c) ==
  \E t \in TaskIds, status \in {"in_progress", "completed"} : Update(c, t, status, "", {}, {}, {})

\* The status "deleted" takes another path: the row is loaded, then deleted.
LoadToDelete(c, t) ==
  /\ call[c] = Free
  /\ tasks[t] # Absent
  /\ call' = [call EXCEPT ![c].pc = "delete", ![c].task = t]
  /\ UNCHANGED <<tasks, feed, hist>>

\* adelete of a row that is gone deletes nothing and does not fail.
Delete(c) ==
  /\ call[c].pc = "delete"
  /\ tasks' = [tasks EXCEPT ![call[c].task] = Absent]
  /\ call' = [call EXCEPT ![c] = Left("done")]
  /\ hist' = [hist EXCEPT !.deleted = @ \cup {call[c].task}]
  /\ UNCHANGED feed

\* Mutant: asave() without update_fields writes the whole copy.
Written_WholeCopy(row, copy, fields) == copy

\* The columns that an UPDATE with update_fields writes.
Written(row, copy, fields) ==
  [f \in Fields |-> IF f \in fields THEN copy[f] ELSE row[f]]

Saved(c) ==
  LET t == call[c].task  k == call[c] IN
    [hist EXCEPT !.saved[t] = IF "status" \in k.fields THEN @ \cup {k.copy.status} ELSE @,
                 !.added[t] = IF "blocked_by" \in k.fields THEN @ \cup k.copy.blocked_by ELSE @,
                 !.stale = IF "blocked_by" \in k.fields /\ hist.loaded[c] # tasks[t].blocked_by
                           THEN @ \cup {t} ELSE @,
                 !.loaded[c] = {}]

\* asave(update_fields) writes the columns it names, from the copy of the call.
Save(c) ==
  /\ call[c].pc = "save"
  /\ tasks[call[c].task] # Absent
  /\ tasks' = [tasks EXCEPT ![call[c].task] = Written(@, call[c].copy, call[c].fields)]
  /\ call' = [call EXCEPT ![c].pc = "feed"]
  /\ hist' = Saved(c)
  /\ UNCHANGED feed

\* asave(update_fields) raises when no row was updated: the tool call fails.
SaveFails(c) ==
  /\ call[c].pc = "save"
  /\ tasks[call[c].task] = Absent
  /\ call' = [call EXCEPT ![c] = Left("done")]
  /\ UNCHANGED <<tasks, feed, hist>>

\* The feed item tells the change of the copy, not of the row; it is left
\* out when the copy kept its status, and lost when its creation raises.
Report(c) ==
  /\ call[c].pc = "feed"
  /\ LET k == call[c]
         item == <<k.task, k.old, k.copy.status>>
         due == "status" \in k.fields /\ k.copy.status # k.old
     IN \/ due /\ feed' = feed \cup {item}
        \/ UNCHANGED feed
  /\ call' = [call EXCEPT ![c] = IF c \in Users THEN [@ EXCEPT !.pc = "reread"] ELSE Left("done")]
  /\ UNCHANGED <<tasks, hist>>

\* The dashboard mutations load the row again for their answer; when it was
\* deleted meanwhile they fail, although the change was made.
Reread(c) ==
  /\ call[c].pc = "reread"
  /\ call' = [call EXCEPT ![c] = Left(IF tasks[call[c].task] = Absent THEN "failed" ELSE "done")]
  /\ UNCHANGED <<tasks, feed, hist>>

BoardNext ==
  \/ \E c \in Calls : Create(c) \/ Delete(c) \/ Save(c) \/ SaveFails(c) \/ Report(c)
  \/ \E c \in Calls, t \in TaskIds : LoadToDelete(c, t)
  \/ \E c \in Agents : AgentUpdates(c)
  \/ \E c \in Users : UserUpdates(c) \/ Reread(c)

BoardSpec == BoardInit /\ [][BoardNext]_board_vars

-----------------------------------------------------------------------------
BoardTypeOK ==
  /\ tasks \in [TaskIds -> Row \cup {Absent}]
  /\ \A c \in Calls :
       /\ call[c].pc \in {"idle", "save", "delete", "feed", "reread", "done", "failed"}
       /\ call[c].task \in TaskIds \cup {Absent}
       /\ call[c].copy \in Row \cup {Absent}
       /\ call[c].fields \subseteq Fields
  /\ feed \subseteq TaskIds \X (Statuses \cup {""}) \X Statuses

(* A deleted task stays deleted: an update that loaded the row before it    *)
(* was deleted fails and does not bring it back (update_task).              *)
DeletedStaysDeleted == \A t \in hist.deleted : tasks[t] = Absent

(* A call changes only the fields it was asked to change, however old the   *)
(* copy is that it saves (asave(update_fields) in update_task).             *)
OnlyNamedFieldsChange ==
  [][\A t \in TaskIds, f \in Fields :
       tasks[t] # Absent /\ tasks'[t] # Absent /\ tasks'[t][f] # tasks[t][f]
         => \E c \in Calls : call[c].task = t /\ call[c].pc = "save" /\ f \in call[c].fields
                             /\ call'[c].pc # "save"]_board_vars

(* What the feed reports happened: both statuses of an item were saved in   *)
(* the row at some time, and a save that failed is not reported.            *)
FeedReportsSaved ==
  \A i \in feed : i[3] \in hist.saved[i[1]] /\ (i[2] = "" \/ i[2] \in hist.saved[i[1]])

(* Blockers accumulate ("appended", task_update): a blocker that was added  *)
(* is there unless a call saved the blockers from an older copy.            *)
BlockersAccumulate ==
  \A t \in TaskIds : tasks[t] # Absent /\ t \notin hist.stale
                     => hist.added[t] \subseteq tasks[t].blocked_by

\* Concurrent calls do not corrupt the board: a deletion stays, the feed reports
\* only saved changes, blockers that were added without a race stay.
BoardIsSound == BoardTypeOK /\ DeletedStaysDeleted /\ FeedReportsSaved /\ BlockersAccumulate
=============================================================================
