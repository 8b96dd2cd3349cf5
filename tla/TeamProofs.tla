----------------------------- MODULE TeamProofs -----------------------------
(***************************************************************************)
(* What agents of a team and their users do to the same rows, each part    *)
(* for any number of members and calls: the task board, messages, the      *)
(* triggers that send them, and the compute ledger.                        *)
(*                                                                         *)
(* The board: a deletion stays, the feed reports only saved changes,       *)
(* blockers add up unless a call saved an old copy, and a save leaves the  *)
(* fields alone that the call did not name.  The inductive invariant adds  *)
(* what a call knows about the row it loaded: its old status was in the    *)
(* row, and the blockers it read are among those it will save.             *)
(*                                                                         *)
(* A message: the sender is told the truth.  The inductive invariant       *)
(* follows a call through its loop: a recipient is still to be served, is  *)
(* being served, has the message or is gone; and one that is dead although *)
(* nobody killed it since its row was loaded was dead then, and its        *)
(* restart is still to come.                                               *)
(*                                                                         *)
(* A trigger keeps its time.  While no passes overlap, the mark of a       *)
(* trigger (in the copy of the pass that runs, else in the row) is not     *)
(* before any tick it fired for, and the next tick is after the mark.      *)
(*                                                                         *)
(* The ledger: sweeps beside restarts do not let segments overlap.  The    *)
(* invariant follows the period each closer read.                          *)
(***************************************************************************)
EXTENDS MCTeam, TLAPS, WellFoundedInduction

-----------------------------------------------------------------------------
\* The task board

Frame == [pc : {"idle", "save", "delete", "feed", "reread", "done", "failed"},
          task : TaskIds \cup {Absent}, copy : Row \cup {Absent},
          fields : SUBSET Fields, old : Statuses \cup {""}]

History == [deleted : SUBSET TaskIds, saved : [TaskIds -> SUBSET Statuses],
            added : [TaskIds -> SUBSET TaskIds], stale : SUBSET TaskIds,
            loaded : [Calls -> SUBSET TaskIds]]

Types ==
  /\ tasks \in [TaskIds -> Row \cup {Absent}]
  /\ call \in [Calls -> Frame]
  /\ feed \subseteq TaskIds \X (Statuses \cup {""}) \X Statuses
  /\ hist \in History

\* A row with this id exists or did.
Known(t) == tasks[t] # Absent \/ t \in hist.deleted

\* The status of a row was saved; an id that was never used has no history.
RowsHaveHistory ==
  \A t \in TaskIds :
    /\ tasks[t] # Absent => tasks[t].status \in hist.saved[t]
    /\ ~Known(t) => hist.added[t] = {}

\* A call between two statements has a row, its own copy, and the status it read.
CallHasRow(c) ==
    /\ call[c].pc \in {"save", "delete", "feed", "reread"} =>
         call[c].task \in TaskIds /\ Known(call[c].task)
    /\ call[c].pc \in {"save", "feed"} =>
         /\ call[c].copy \in Row
         /\ call[c].old \in hist.saved[call[c].task] \cup {""}
    /\ call[c].pc = "save" => hist.loaded[c] \subseteq call[c].copy.blocked_by
    /\ call[c].pc = "feed" /\ "status" \in call[c].fields
         => call[c].copy.status \in hist.saved[call[c].task]

CallsHaveRows == \A c \in Calls : CallHasRow(c)

ItemsAreKnown == \A i \in feed : Known(i[1])

BoardInv ==
  /\ Types /\ RowsHaveHistory /\ CallsHaveRows /\ ItemsAreKnown
  /\ DeletedStaysDeleted /\ FeedReportsSaved /\ BlockersAccumulate

-----------------------------------------------------------------------------
\* What a call finds and saves are rows.
LEMMA NewTaskIsRow ==
  ASSUME NEW who \in {""} \cup Names
  PROVE  NewTask(who) \in Row
BY DEF NewTask, Row, Statuses

LEMMA ChangedIsRow ==
  ASSUME NEW row \in Row, NEW st \in Statuses \cup {""}, NEW assignee \in {""} \cup Names,
         NEW blockers \in SUBSET TaskIds, NEW puts \in SUBSET Keys, NEW drops \in SUBSET Keys
  PROVE  /\ Changed(row, st, assignee, blockers, puts, drops) \in Row
         /\ row.blocked_by \subseteq Changed(row, st, assignee, blockers, puts, drops).blocked_by
BY DEF Changed, Row

\* An UPDATE takes the named columns from the copy and keeps the others.
LEMMA WrittenIsRow ==
  ASSUME NEW row \in Row, NEW copy \in Row, NEW fields \in SUBSET Fields
  PROVE  /\ Written(row, copy, fields) \in Row
         /\ \A f \in Fields : Written(row, copy, fields)[f]
                                = IF f \in fields THEN copy[f] ELSE row[f]
<1> DEFINE w == Written(row, copy, fields)
<1>1. w = [f \in Fields |-> IF f \in fields THEN copy[f] ELSE row[f]]
  BY DEF Written
<1>2. w = [status |-> IF "status" \in fields THEN copy.status ELSE row.status,
           assignee |-> IF "assignee" \in fields THEN copy.assignee ELSE row.assignee,
           blocked_by |-> IF "blocked_by" \in fields THEN copy.blocked_by ELSE row.blocked_by,
           metadata |-> IF "metadata" \in fields THEN copy.metadata ELSE row.metadata]
  BY <1>1 DEF Fields
<1>3. /\ row.status \in Statuses /\ copy.status \in Statuses
      /\ row.assignee \in {""} \cup Names /\ copy.assignee \in {""} \cup Names
      /\ row.blocked_by \in SUBSET TaskIds /\ copy.blocked_by \in SUBSET TaskIds
      /\ row.metadata \in SUBSET Keys /\ copy.metadata \in SUBSET Keys
  BY DEF Row
<1> HIDE DEF w
<1>4. w \in Row
  BY <1>2, <1>3 DEF Row
<1> QED BY <1>1, <1>4 DEF w

-----------------------------------------------------------------------------
LEMMA BoardInvInit == BoardInit => BoardInv
<1> SUFFICES ASSUME BoardInit PROVE BoardInv
  OBVIOUS
<1> USE DEF BoardInit, Free
<1>1. Types BY DEF Types, Frame, History
<1>2. RowsHaveHistory BY DEF RowsHaveHistory
<1>3. CallsHaveRows BY DEF CallsHaveRows, CallHasRow
<1>4. ItemsAreKnown /\ DeletedStaysDeleted /\ FeedReportsSaved /\ BlockersAccumulate
  BY DEF ItemsAreKnown, DeletedStaysDeleted, FeedReportsSaved, BlockersAccumulate
<1> QED BY <1>1, <1>2, <1>3, <1>4 DEF BoardInv

\* create_task: no call and no item is about the new row.
LEMMA CreateKeeps ==
  ASSUME BoardInv, NEW c \in Calls, Create(c)
  PROVE  BoardInv'
<1>1. PICK t \in TaskIds, row \in Row :
        /\ tasks[t] = Absent /\ t \notin hist.deleted
        /\ \A d \in Calls : call[d].task # t
        /\ row.status = "pending" /\ row.blocked_by = {}
        /\ tasks' = [tasks EXCEPT ![t] = row]
        /\ call' = [call EXCEPT ![c] = [pc |-> "feed", task |-> t, copy |-> row,
                                        fields |-> {"status"}, old |-> ""]]
        /\ hist' = [deleted |-> hist.deleted, saved |-> [hist.saved EXCEPT ![t] = {"pending"}],
                    added |-> hist.added, stale |-> hist.stale, loaded |-> hist.loaded]
  <2>1. PICK t \in TaskIds, who \in {""} \cup Names :
          /\ tasks[t] = Absent /\ t \notin hist.deleted
          /\ \A d \in Calls : call[d].task # t
          /\ tasks' = [tasks EXCEPT ![t] = NewTask(who)]
          /\ call' = [call EXCEPT ![c] = [pc |-> "feed", task |-> t, copy |-> NewTask(who),
                                          fields |-> {"status"}, old |-> ""]]
          /\ hist' = [hist EXCEPT !.saved[t] = {"pending"}]
    BY DEF Create
  <2>2. NewTask(who).status = "pending" /\ NewTask(who).blocked_by = {}
    BY DEF NewTask
  <2>3. hist' = [deleted |-> hist.deleted, saved |-> [hist.saved EXCEPT ![t] = {"pending"}],
                 added |-> hist.added, stale |-> hist.stale, loaded |-> hist.loaded]
    BY <2>1 DEF BoardInv, Types, History
  <2>4. NewTask(who) \in Row
    BY NewTaskIsRow
  <2> WITNESS t \in TaskIds, NewTask(who) \in Row
  <2> QED BY <2>1, <2>2, <2>3
<1>2. UNCHANGED feed BY DEF Create
<1>3. row # Absent /\ row.status = "pending" /\ row.blocked_by = {}
  BY <1>1, AbsentIsNoRow
<1>4. /\ hist'.saved = [hist.saved EXCEPT ![t] = {"pending"}]
      /\ hist'.deleted = hist.deleted /\ hist'.added = hist.added
      /\ hist'.stale = hist.stale /\ hist'.loaded = hist.loaded
  BY <1>1
<1>5. Types'
  <2>1. tasks' \in [TaskIds -> Row \cup {Absent}]
    BY <1>1, <1>3 DEF BoardInv, Types
  <2>2. [pc |-> "feed", task |-> t, copy |-> row, fields |-> {"status"}, old |-> ""] \in Frame
    BY <1>3 DEF Frame, Fields
  <2>3. call' \in [Calls -> Frame]
    BY <1>1, <2>2 DEF BoardInv, Types
  <2>4. hist' \in History
    BY <1>1 DEF BoardInv, Types, History, Statuses
  <2> QED BY <1>2, <2>1, <2>3, <2>4 DEF BoardInv, Types
<1>6. RowsHaveHistory'
  <2> SUFFICES ASSUME NEW u \in TaskIds
               PROVE  /\ tasks'[u] # Absent => tasks'[u].status \in hist'.saved[u]
                      /\ ~Known(u)' => hist'.added[u] = {}
    BY DEF RowsHaveHistory
  <2>1. CASE u = t
    BY <1>1, <1>3, <1>4, <2>1 DEF BoardInv, Types, History, Known
  <2>2. CASE u # t
    BY <1>1, <1>4, <2>2 DEF BoardInv, Types, History, RowsHaveHistory, Known
  <2> QED BY <2>1, <2>2
<1>7. CallsHaveRows'
  <2> SUFFICES ASSUME NEW d \in Calls PROVE CallHasRow(d)'
    BY DEF CallsHaveRows
  <2>1. CASE d = c
    <3>1. call'[d].pc = "feed" /\ call'[d].task = t /\ call'[d].copy = row /\ call'[d].old = ""
      BY <1>1, <2>1 DEF BoardInv, Types
    <3>2. tasks'[t] # Absent /\ hist'.saved[t] = {"pending"}
      BY <1>1, <1>3, <1>4 DEF BoardInv, Types, History
    <3> QED BY <1>3, <3>1, <3>2 DEF CallHasRow, Known
  <2>2. CASE d # c
    <3>1. call'[d] = call[d] /\ call[d].task # t
      BY <1>1, <2>2 DEF BoardInv, Types
    <3>2. /\ \A u \in TaskIds \ {t} : tasks'[u] = tasks[u] /\ hist'.saved[u] = hist.saved[u]
          /\ hist'.loaded = hist.loaded /\ hist'.deleted = hist.deleted
      BY <1>1, <1>4 DEF BoardInv, Types, History
    <3>3. CallHasRow(d)
      BY DEF BoardInv, CallsHaveRows
    <3> QED BY <3>1, <3>2, <3>3 DEF CallHasRow, Known
  <2> QED BY <2>1, <2>2
<1>8. \A i \in feed : i[1] # t /\ i[1] \in TaskIds
  BY <1>1 DEF BoardInv, Types, ItemsAreKnown, Known
<1>9. ItemsAreKnown' /\ FeedReportsSaved'
  BY <1>1, <1>2, <1>3, <1>4, <1>8 DEF BoardInv, Types, History, ItemsAreKnown, FeedReportsSaved, Known
<1>10. DeletedStaysDeleted' /\ BlockersAccumulate'
  BY <1>1, <1>3, <1>4
     DEF BoardInv, Types, History, DeletedStaysDeleted, BlockersAccumulate, RowsHaveHistory, Known
<1> QED BY <1>5, <1>6, <1>7, <1>9, <1>10 DEF BoardInv
\* A step that leaves the rows alone keeps the invariant if the call that takes
\* it still knows its row and its item, if any, is about saved statuses.
LEMMA CallStepKeeps ==
  ASSUME BoardInv, NEW c \in Calls, NEW frame \in Frame,
         tasks' = tasks, call' = [call EXCEPT ![c] = frame],
         hist' \in History,
         hist'.deleted = hist.deleted, hist'.saved = hist.saved,
         hist'.added = hist.added, hist'.stale = hist.stale,
         \A d \in Calls \ {c} : hist'.loaded[d] = hist.loaded[d],
         CallHasRow(c)',
         feed' \subseteq TaskIds \X (Statuses \cup {""}) \X Statuses,
         \A i \in feed' \ feed :
           Known(i[1]) /\ i[3] \in hist.saved[i[1]] /\ (i[2] = "" \/ i[2] \in hist.saved[i[1]])
  PROVE  BoardInv'
<1>1. Types'
  BY DEF BoardInv, Types
<1>2. \A t \in TaskIds : Known(t)' = Known(t)
  BY DEF Known
<1>3. RowsHaveHistory'
  BY <1>2 DEF BoardInv, RowsHaveHistory
<1>4. CallsHaveRows'
  <2> SUFFICES ASSUME NEW d \in Calls, d # c PROVE CallHasRow(d)'
    BY DEF CallsHaveRows
  <2>1. call'[d] = call[d] /\ hist'.loaded[d] = hist.loaded[d]
    BY DEF BoardInv, Types
  <2>2. CallHasRow(d)
    BY DEF BoardInv, CallsHaveRows
  <2> QED BY <2>1, <2>2 DEF CallHasRow, Known
<1>5. ItemsAreKnown'
  BY DEF BoardInv, ItemsAreKnown, Known
<1>6. DeletedStaysDeleted' /\ FeedReportsSaved' /\ BlockersAccumulate'
  BY DEF BoardInv, DeletedStaysDeleted, FeedReportsSaved, BlockersAccumulate
<1> QED BY <1>1, <1>3, <1>4, <1>5, <1>6 DEF BoardInv

\* The frame of a call that is over knows nothing.
LEMMA LeftIsFrame ==
  ASSUME NEW pc \in {"idle", "done", "failed"}
  PROVE  Left(pc) \in Frame /\ Left(pc).pc = pc
BY DEF Left, Free, Frame

\* update_task loads the row: its old status was saved, and the copy has all
\* blockers the row had.
LEMMA UpdateKeeps ==
  ASSUME BoardInv, NEW c \in Calls, NEW t \in TaskIds,
         NEW st \in Statuses \cup {""}, NEW assignee \in {""} \cup Names,
         NEW blockers \in SUBSET TaskIds, NEW puts \in SUBSET Keys, NEW drops \in SUBSET Keys,
         Update(c, t, st, assignee, blockers, puts, drops)
  PROVE  BoardInv'
<1> DEFINE copy == Changed(tasks[t], st, assignee, blockers, puts, drops)
           fields == Named(st, assignee, blockers, puts, drops)
           frame == [pc |-> "save", task |-> t, fields |-> fields, old |-> tasks[t].status,
                     copy |-> copy]
<1>1. tasks[t] # Absent /\ tasks[t] \in Row /\ tasks[t].status \in hist.saved[t]
  BY DEF Update, BoardInv, Types, RowsHaveHistory
<1>2. copy \in Row /\ tasks[t].blocked_by \subseteq copy.blocked_by
  BY <1>1, ChangedIsRow
<1>3. fields \in SUBSET Fields
  BY DEF Named
<1>4. /\ call' = [call EXCEPT ![c] = frame]
      /\ hist' = [hist EXCEPT !.loaded[c] = tasks[t].blocked_by]
      /\ tasks' = tasks /\ feed' = feed
  BY DEF Update
<1> HIDE DEF copy, fields
<1>5. frame \in Frame
  BY <1>1, <1>2, <1>3 DEF Frame, Row
<1>6. /\ hist' \in History
      /\ hist'.deleted = hist.deleted /\ hist'.saved = hist.saved
      /\ hist'.added = hist.added /\ hist'.stale = hist.stale
      /\ \A d \in Calls \ {c} : hist'.loaded[d] = hist.loaded[d]
      /\ hist'.loaded[c] = tasks[t].blocked_by
  <2>1. hist' = [deleted |-> hist.deleted, saved |-> hist.saved, added |-> hist.added,
                 stale |-> hist.stale,
                 loaded |-> [hist.loaded EXCEPT ![c] = tasks[t].blocked_by]]
    BY <1>4 DEF BoardInv, Types, History
  <2>2. tasks[t].blocked_by \in SUBSET TaskIds
    BY <1>1 DEF Row
  <2> QED BY <2>1, <2>2 DEF BoardInv, Types, History
<1>7. CallHasRow(c)'
  <2>1. frame.pc = "save" /\ frame.task = t /\ frame.copy = copy /\ frame.old = tasks[t].status
    OBVIOUS
  <2> HIDE DEF frame
  <2>2. call'[c] = frame
    BY <1>4 DEF BoardInv, Types
  <2> QED BY <1>1, <1>2, <1>4, <1>6, <2>1, <2>2 DEF CallHasRow, Known
<1>8. feed' \subseteq TaskIds \X (Statuses \cup {""}) \X Statuses
  BY <1>4 DEF BoardInv, Types
<1> HIDE DEF frame
<1> QED BY <1>4, <1>5, <1>6, <1>7, <1>8, CallStepKeeps

LEMMA LoadToDeleteKeeps ==
  ASSUME BoardInv, NEW c \in Calls, NEW t \in TaskIds, LoadToDelete(c, t)
  PROVE  BoardInv'
<1> DEFINE frame == [call[c] EXCEPT !.pc = "delete", !.task = t]
<1>1. call' = [call EXCEPT ![c] = frame] /\ tasks[t] # Absent /\ UNCHANGED <<tasks, feed, hist>>
  BY DEF LoadToDelete
<1>2. call[c] \in Frame
  BY DEF BoardInv, Types
<1>3. frame \in Frame /\ frame.pc = "delete" /\ frame.task = t
  BY <1>2 DEF Frame
<1>4. CallHasRow(c)'
  <2>1. call'[c] = frame
    BY <1>1 DEF BoardInv, Types
  <2> QED BY <1>1, <1>3, <2>1 DEF CallHasRow, Known
<1> HIDE DEF frame
<1>5. hist' \in History /\ feed' \subseteq TaskIds \X (Statuses \cup {""}) \X Statuses
  BY <1>1 DEF BoardInv, Types
<1> QED BY <1>1, <1>3, <1>4, <1>5, CallStepKeeps

\* A call that ends without writing.
LEMMA LeavingKeeps ==
  ASSUME BoardInv, NEW c \in Calls, NEW pc \in {"idle", "done", "failed"},
         call' = [call EXCEPT ![c] = Left(pc)], UNCHANGED <<tasks, feed, hist>>
  PROVE  BoardInv'
<1>1. Left(pc) \in Frame /\ Left(pc).pc = pc
  BY LeftIsFrame
<1>2. call'[c] = Left(pc)
  BY DEF BoardInv, Types
<1>3. CallHasRow(c)'
  BY <1>1, <1>2 DEF CallHasRow
<1>4. hist' \in History /\ feed' \subseteq TaskIds \X (Statuses \cup {""}) \X Statuses
  BY DEF BoardInv, Types
<1> QED BY <1>1, <1>3, <1>4, CallStepKeeps

\* The item of a call is about the status it read and the one it saved.
LEMMA ReportKeeps ==
  ASSUME BoardInv, NEW c \in Calls, Report(c)
  PROVE  BoardInv'
<1> DEFINE item == <<call[c].task, call[c].old, call[c].copy.status>>
           frame == IF c \in Users THEN [call[c] EXCEPT !.pc = "reread"] ELSE Left("done")
<1>1. /\ call[c].pc = "feed" /\ tasks' = tasks /\ hist' = hist
      /\ call' = [call EXCEPT ![c] = frame]
      /\ feed' = feed \/ ("status" \in call[c].fields /\ feed' = feed \cup {item})
  BY DEF Report
<1>2. call[c] \in Frame /\ CallHasRow(c)
  BY DEF BoardInv, Types, CallsHaveRows
<1>3. /\ call[c].task \in TaskIds /\ Known(call[c].task) /\ call[c].copy \in Row
      /\ call[c].old \in Statuses \cup {""} /\ call[c].old \in hist.saved[call[c].task] \cup {""}
      /\ "status" \in call[c].fields => call[c].copy.status \in hist.saved[call[c].task]
  BY <1>1, <1>2 DEF CallHasRow, Frame
<1>4. call[c].copy.status \in Statuses
  BY <1>3 DEF Row
<1>5. \A i \in feed' \ feed : i = item
  BY <1>1
<1>6. /\ item[1] = call[c].task /\ item[2] = call[c].old /\ item[3] = call[c].copy.status
      /\ item \in TaskIds \X (Statuses \cup {""}) \X Statuses
  BY <1>3, <1>4
<1> HIDE DEF item
<1>9. /\ hist' \in History /\ feed' \subseteq TaskIds \X (Statuses \cup {""}) \X Statuses
      /\ \A i \in feed' \ feed :
           Known(i[1]) /\ i[3] \in hist.saved[i[1]] /\ (i[2] = "" \/ i[2] \in hist.saved[i[1]])
  BY <1>1, <1>3, <1>5, <1>6 DEF BoardInv, Types
<1>7. frame \in Frame /\ frame.pc \in {"reread", "done"} /\ (frame.pc = "reread" => frame.task = call[c].task)
  <2>1. CASE c \in Users
    <3>1. frame = [call[c] EXCEPT !.pc = "reread"]
      BY <2>1
    <3> QED BY <1>2, <3>1 DEF Frame
  <2>2. CASE c \notin Users
    BY <2>2, LeftIsFrame
  <2> QED BY <2>1, <2>2
<1>8. CallHasRow(c)'
  <2>1. call'[c] = frame
    BY <1>1 DEF BoardInv, Types
  <2> HIDE DEF frame
  <2> QED BY <1>1, <1>3, <1>7, <2>1 DEF CallHasRow, Known
<1> HIDE DEF frame
<1> QED BY <1>1, <1>7, <1>8, <1>9, CallStepKeeps
\* The row is gone; nobody can make another one with its id.
LEMMA DeleteKeeps ==
  ASSUME BoardInv, NEW c \in Calls, Delete(c)
  PROVE  BoardInv'
<1> DEFINE t == call[c].task
<1>1. /\ tasks' = [tasks EXCEPT ![t] = Absent] /\ call' = [call EXCEPT ![c] = Left("done")]
      /\ hist' = [hist EXCEPT !.deleted = @ \cup {t}] /\ feed' = feed /\ t \in TaskIds
  BY DEF Delete, BoardInv, CallsHaveRows, CallHasRow
<1> HIDE DEF t
<1>2. /\ hist'.deleted = hist.deleted \cup {t} /\ hist'.saved = hist.saved
      /\ hist'.added = hist.added /\ hist'.stale = hist.stale /\ hist'.loaded = hist.loaded
      /\ hist' \in History
  BY <1>1 DEF BoardInv, Types, History
<1>3. Left("done") \in Frame /\ Left("done").pc = "done"
  BY LeftIsFrame
<1>4. Types'
  BY <1>1, <1>2, <1>3 DEF BoardInv, Types
<1>5. /\ tasks'[t] = Absent
      /\ \A u \in TaskIds : u # t => tasks'[u] = tasks[u]
      /\ \A u \in TaskIds : Known(u) => Known(u)'
      /\ \A u \in TaskIds : Known(u)' => Known(u) \/ u = t
  BY <1>1, <1>2 DEF BoardInv, Types, Known
<1>6. RowsHaveHistory'
  BY <1>2, <1>5 DEF BoardInv, RowsHaveHistory
<1>7. CallsHaveRows'
  <2> SUFFICES ASSUME NEW d \in Calls PROVE CallHasRow(d)'
    BY DEF CallsHaveRows
  <2>1. call'[d] = IF d = c THEN Left("done") ELSE call[d]
    BY <1>1 DEF BoardInv, Types
  <2>2. CallHasRow(d)
    BY DEF BoardInv, CallsHaveRows
  <2> QED BY <1>2, <1>3, <1>5, <2>1, <2>2 DEF CallHasRow
<1>8. ItemsAreKnown' /\ FeedReportsSaved'
  BY <1>1, <1>2, <1>5 DEF BoardInv, Types, ItemsAreKnown, FeedReportsSaved
<1>9. DeletedStaysDeleted' /\ BlockersAccumulate'
  BY <1>1, <1>2, <1>5 DEF BoardInv, Types, History, DeletedStaysDeleted, BlockersAccumulate
<1> QED BY <1>4, <1>6, <1>7, <1>8, <1>9 DEF BoardInv

\* asave(update_fields): the blockers stay a superset of those that were added,
\* when the copy was made from the row as it is.
LEMMA SaveKeeps ==
  ASSUME BoardInv, NEW c \in Calls, Save(c)
  PROVE  BoardInv'
<1> DEFINE t == call[c].task
           row == Written(tasks[t], call[c].copy, call[c].fields)
           frame == [call[c] EXCEPT !.pc = "feed"]
           saved == IF "status" \in call[c].fields THEN hist.saved[t] \cup {call[c].copy.status}
                                                   ELSE hist.saved[t]
           added == IF "blocked_by" \in call[c].fields
                    THEN hist.added[t] \cup call[c].copy.blocked_by ELSE hist.added[t]
           stale == IF "blocked_by" \in call[c].fields /\ hist.loaded[c] # tasks[t].blocked_by
                    THEN hist.stale \cup {t} ELSE hist.stale
<1>0. /\ hist.deleted \in SUBSET TaskIds /\ hist.saved \in [TaskIds -> SUBSET Statuses]
      /\ hist.added \in [TaskIds -> SUBSET TaskIds] /\ hist.stale \in SUBSET TaskIds
      /\ hist.loaded \in [Calls -> SUBSET TaskIds]
  BY DEF BoardInv, Types, History
<1>1. /\ call[c].pc = "save" /\ tasks[t] # Absent /\ feed' = feed
      /\ tasks' = [tasks EXCEPT ![t] = row] /\ call' = [call EXCEPT ![c] = frame]
  BY DEF Save
<1>2. /\ call[c] \in Frame /\ CallHasRow(c) /\ t \in TaskIds /\ call[c].copy \in Row
      /\ call[c].old \in hist.saved[t] \cup {""} /\ hist.loaded[c] \subseteq call[c].copy.blocked_by
      /\ call[c].fields \in SUBSET Fields
  BY <1>1 DEF BoardInv, Types, CallsHaveRows, CallHasRow, Frame
<1>3. tasks[t] \in Row /\ tasks[t].status \in hist.saved[t]
  BY <1>1, <1>2 DEF BoardInv, Types, RowsHaveHistory
<1>4. /\ row \in Row /\ row # Absent
      /\ row.status = IF "status" \in call[c].fields THEN call[c].copy.status ELSE tasks[t].status
      /\ row.blocked_by = IF "blocked_by" \in call[c].fields THEN call[c].copy.blocked_by
                                                             ELSE tasks[t].blocked_by
  <2>1. row \in Row /\ \A f \in Fields : row[f] = IF f \in call[c].fields THEN call[c].copy[f]
                                                                       ELSE tasks[t][f]
    <3>1. call[c].copy \in Row /\ call[c].fields \in SUBSET Fields /\ tasks[t] \in Row
      BY <1>2, <1>3
    <3> QED BY <3>1, WrittenIsRow
  <2> HIDE DEF row
  <2> QED BY <2>1, AbsentIsNoRow DEF Fields
<1>5. /\ hist' \in History
      /\ hist'.deleted = hist.deleted /\ hist'.saved = [hist.saved EXCEPT ![t] = saved]
      /\ hist'.added = [hist.added EXCEPT ![t] = added] /\ hist'.stale = stale
      /\ hist'.loaded = [hist.loaded EXCEPT ![c] = {}]
  <2>1. hist' = [deleted |-> hist.deleted, saved |-> [hist.saved EXCEPT ![t] = saved],
                 added |-> [hist.added EXCEPT ![t] = added], stale |-> stale,
                 loaded |-> [hist.loaded EXCEPT ![c] = {}]]
    BY <1>2 DEF Save, Saved, BoardInv, Types, History
  <2>2. call[c].copy.status \in Statuses /\ call[c].copy.blocked_by \in SUBSET TaskIds
    BY <1>2 DEF Row
  <2>4. saved \in SUBSET Statuses /\ added \in SUBSET TaskIds /\ stale \in SUBSET TaskIds
    BY <1>2, <2>2, <1>0
  <2> HIDE DEF saved, added, stale
  <2> QED BY <1>2, <2>1, <1>0, <2>4 DEF History
<1>6. frame \in Frame /\ frame.pc = "feed" /\ frame.task = t /\ frame.copy = call[c].copy
      /\ frame.old = call[c].old /\ frame.fields = call[c].fields
  BY <1>2 DEF Frame
<1> HIDE DEF t, row, frame, saved, added, stale
<1>7. Types'
  BY <1>1, <1>2, <1>4, <1>5, <1>6 DEF BoardInv, Types
<1>8. /\ tasks'[t] = row /\ \A u \in TaskIds : u # t => tasks'[u] = tasks[u]
      /\ \A u \in TaskIds : Known(u)' = Known(u)
  BY <1>1, <1>2, <1>4, <1>5 DEF BoardInv, Types, Known
<1>9. /\ hist.saved[t] \subseteq hist'.saved[t]
      /\ "status" \in call[c].fields => call[c].copy.status \in hist'.saved[t]
      /\ \A u \in TaskIds : u # t => hist'.saved[u] = hist.saved[u] /\ hist'.added[u] = hist.added[u]
      /\ hist'.added[t] = added
  <2>1. /\ hist'.saved[t] = saved /\ hist'.added[t] = added
        /\ \A u \in TaskIds : u # t => hist'.saved[u] = hist.saved[u] /\ hist'.added[u] = hist.added[u]
    BY <1>0, <1>2, <1>5
  <2> QED BY <2>1 DEF saved
<1>10. RowsHaveHistory'
  <2> SUFFICES ASSUME NEW u \in TaskIds
               PROVE  /\ tasks'[u] # Absent => tasks'[u].status \in hist'.saved[u]
                      /\ ~Known(u)' => hist'.added[u] = {}
    BY DEF RowsHaveHistory
  <2>1. CASE u = t
    <3>1. Known(t)
      BY <1>1 DEF Known
    <3> QED BY <1>3, <1>4, <1>8, <1>9, <2>1, <3>1
  <2>2. CASE u # t
    BY <1>8, <1>9, <2>2 DEF BoardInv, RowsHaveHistory
  <2> QED BY <2>1, <2>2
<1>11. CallsHaveRows'
  <2> SUFFICES ASSUME NEW d \in Calls PROVE CallHasRow(d)'
    BY DEF CallsHaveRows
  <2>1. CallHasRow(d)
    BY DEF BoardInv, CallsHaveRows
  <2>2. CASE d = c
    <3>1. call'[d] = frame
      BY <1>1, <2>2 DEF BoardInv, Types
    <3>2. \A u \in TaskIds : u = t => Known(u)'
      BY <1>4, <1>8 DEF Known
    <3>3. /\ call'[d].pc = "feed" /\ call'[d].task = t /\ call'[d].copy = call[c].copy
          /\ call'[d].old = call[c].old /\ call'[d].fields = call[c].fields
      BY <1>6, <3>1
    <3> QED BY <1>2, <1>9, <3>2, <3>3 DEF CallHasRow
  <2>3. CASE d # c
    <3>1. call'[d] = call[d] /\ hist'.loaded[d] = hist.loaded[d]
      BY <1>1, <1>5, <2>3 DEF BoardInv, Types, History
    <3>2. \A u \in TaskIds : hist.saved[u] \subseteq hist'.saved[u]
      BY <1>9
    <3> QED BY <1>8, <2>1, <3>1, <3>2 DEF CallHasRow
  <2> QED BY <2>2, <2>3
<1>12. ItemsAreKnown' /\ FeedReportsSaved'
  <2>1. \A i \in feed : i[1] \in TaskIds
    BY DEF BoardInv, Types
  <2>2. \A u \in TaskIds : hist.saved[u] \subseteq hist'.saved[u]
    BY <1>9
  <2> QED BY <1>1, <1>8, <2>1, <2>2 DEF BoardInv, ItemsAreKnown, FeedReportsSaved
<1>13. DeletedStaysDeleted'
  BY <1>1, <1>5, <1>8 DEF BoardInv, Types, History, DeletedStaysDeleted
<1>14. BlockersAccumulate'
  <2> SUFFICES ASSUME NEW u \in TaskIds, tasks'[u] # Absent, u \notin stale
               PROVE  hist'.added[u] \subseteq tasks'[u].blocked_by
    BY <1>5 DEF BlockersAccumulate
  <2>1. CASE u = t
    <3>1. t \notin hist.stale /\ hist.added[t] \subseteq tasks[t].blocked_by
      BY <1>1, <1>2, <2>1 DEF BoardInv, BlockersAccumulate, stale
    <3> QED BY <1>2, <1>4, <1>8, <1>9, <2>1, <3>1 DEF added, stale
  <2>2. CASE u # t
    BY <1>8, <1>9, <2>2 DEF BoardInv, BlockersAccumulate, stale
  <2> QED BY <2>1, <2>2
<1> QED BY <1>7, <1>10, <1>11, <1>12, <1>13, <1>14 DEF BoardInv
-----------------------------------------------------------------------------
LEMMA BoardStepKeeps == BoardInv /\ [BoardNext]_board_vars => BoardInv'
<1> SUFFICES ASSUME BoardInv, [BoardNext]_board_vars PROVE BoardInv'
  OBVIOUS
<1>1. ASSUME NEW c \in Calls, Create(c) PROVE BoardInv'
  BY <1>1, CreateKeeps
<1>2. ASSUME NEW c \in Calls, Delete(c) PROVE BoardInv'
  BY <1>2, DeleteKeeps
<1>3. ASSUME NEW c \in Calls, Save(c) PROVE BoardInv'
  BY <1>3, SaveKeeps
<1>4. ASSUME NEW c \in Calls, SaveFails(c) PROVE BoardInv'
  BY <1>4, LeavingKeeps DEF SaveFails
<1>5. ASSUME NEW c \in Calls, Report(c) PROVE BoardInv'
  BY <1>5, ReportKeeps
<1>6. ASSUME NEW c \in Calls, NEW t \in TaskIds, LoadToDelete(c, t) PROVE BoardInv'
  BY <1>6, LoadToDeleteKeeps
<1>7. ASSUME NEW c \in Agents, AgentUpdates(c) PROVE BoardInv'
  <2>1. PICK t \in TaskIds, st \in {"", "in_progress", "completed"}, assignee \in {""} \cup Names,
          blockers \in SUBSET TaskIds, puts \in SUBSET Keys, drops \in SUBSET Keys :
            Update(c, t, st, assignee, blockers, puts, drops)
    BY <1>7 DEF AgentUpdates
  <2>2. c \in Calls /\ st \in Statuses \cup {""}
    BY DEF Calls, Statuses
  <2> QED BY <2>1, <2>2, UpdateKeeps
<1>8. ASSUME NEW c \in Users, UserUpdates(c) PROVE BoardInv'
  <2>1. PICK t \in TaskIds, st \in {"in_progress", "completed"} :
          Update(c, t, st, "", {}, {}, {})
    BY <1>8 DEF UserUpdates
  <2>2. c \in Calls /\ st \in Statuses \cup {""} /\ "" \in {""} \cup Names
        /\ {} \in SUBSET TaskIds /\ {} \in SUBSET Keys
    BY DEF Calls, Statuses
  <2> QED BY <2>1, <2>2, UpdateKeeps, Zenon
<1>9. ASSUME NEW c \in Users, Reread(c) PROVE BoardInv'
  <2>1. c \in Calls /\ \E pc \in {"idle", "done", "failed"} : call' = [call EXCEPT ![c] = Left(pc)]
    BY <1>9 DEF Reread, Calls
  <2> QED BY <1>9, <2>1, LeavingKeeps DEF Reread
<1>10. CASE UNCHANGED board_vars
  <2>1. UNCHANGED <<tasks, call, feed, hist>>
    BY <1>10 DEF board_vars
  <2>2. Types' /\ RowsHaveHistory' /\ CallsHaveRows' /\ ItemsAreKnown'
    BY <2>1 DEF BoardInv, Types, RowsHaveHistory, CallsHaveRows, CallHasRow, ItemsAreKnown, Known
  <2>3. DeletedStaysDeleted' /\ FeedReportsSaved' /\ BlockersAccumulate'
    BY <2>1 DEF BoardInv, DeletedStaysDeleted, FeedReportsSaved, BlockersAccumulate
  <2> QED BY <2>2, <2>3 DEF BoardInv
<1> QED
  BY <1>1, <1>2, <1>3, <1>4, <1>5, <1>6, <1>7, <1>8, <1>9, <1>10 DEF BoardNext

LEMMA BoardInvImplies == BoardInv => BoardIsSound
<1> SUFFICES ASSUME BoardInv PROVE BoardTypeOK
  BY DEF BoardInv, BoardIsSound
<1>1. \A c \in Calls : call[c] \in Frame
  BY DEF BoardInv, Types
<1> QED BY <1>1 DEF BoardInv, Types, BoardTypeOK, Frame

\* Concurrent calls of any number of agents and users leave the board sound: a
\* deletion stays, the feed reports only saved changes, and blockers are lost
\* only by a call that saves an old copy of them (update_task, delete_task).
THEOREM BoardCorrect == BoardSpec => []BoardIsSound
<1>1. BoardSpec => []BoardInv
  BY BoardInvInit, BoardStepKeeps, PTL DEF BoardSpec
<1> QED BY <1>1, BoardInvImplies, PTL

\* Only Save writes a column of a row that stays, and it writes those it names.
LEMMA WritesAreNamed ==
  ASSUME BoardInv, BoardNext, NEW t \in TaskIds, NEW f \in Fields,
         tasks[t] # Absent, tasks'[t] # Absent, tasks'[t][f] # tasks[t][f]
  PROVE  \E c \in Calls : call[c].task = t /\ call[c].pc = "save" /\ f \in call[c].fields
                          /\ call'[c].pc # "save"
<1>1. \E c \in Calls : Create(c) \/ Delete(c) \/ Save(c)
  <2>1. ASSUME NEW c \in Agents, AgentUpdates(c) PROVE tasks' = tasks
    <3>1. PICK u \in TaskIds, st \in {"", "in_progress", "completed"},
            assignee \in {""} \cup Names, blockers \in SUBSET TaskIds,
            puts \in SUBSET Keys, drops \in SUBSET Keys :
              Update(c, u, st, assignee, blockers, puts, drops)
      BY <2>1 DEF AgentUpdates
    <3> QED BY <3>1 DEF Update
  <2>2. ASSUME NEW c \in Users, UserUpdates(c) \/ Reread(c) PROVE tasks' = tasks
    <3>1. CASE Reread(c)
      BY <3>1 DEF Reread
    <3>2. CASE UserUpdates(c)
      <4>1. PICK u \in TaskIds, st \in {"in_progress", "completed"} :
              Update(c, u, st, "", {}, {}, {})
        BY <3>2 DEF UserUpdates
      <4> QED BY <4>1 DEF Update
    <3> QED BY <2>2, <3>1, <3>2
  <2>3. ASSUME NEW c \in Calls, SaveFails(c) \/ Report(c) PROVE tasks' = tasks
    BY <2>3 DEF SaveFails, Report
  <2>4. ASSUME NEW c \in Calls, NEW u \in TaskIds, LoadToDelete(c, u) PROVE tasks' = tasks
    BY <2>4 DEF LoadToDelete
  <2> QED BY <2>1, <2>2, <2>3, <2>4 DEF BoardNext
<1>2. PICK c \in Calls : Create(c) \/ Delete(c) \/ Save(c)
  BY <1>1
<1>3. tasks \in [TaskIds -> Row \cup {Absent}] /\ call \in [Calls -> Frame]
  BY DEF BoardInv, Types
<1>4. ~Create(c)
  BY <1>3 DEF Create
<1>5. ~Delete(c)
  BY <1>3 DEF Delete
<1>6. /\ call[c].pc = "save"
      /\ tasks' = [tasks EXCEPT ![call[c].task] = Written(@, call[c].copy, call[c].fields)]
      /\ call' = [call EXCEPT ![c].pc = "feed"]
  BY <1>2, <1>4, <1>5 DEF Save
<1>7. call[c].task = t
  BY <1>3, <1>6
<1>8. call[c].copy \in Row /\ call[c].fields \in SUBSET Fields /\ tasks[t] \in Row
  BY <1>3, <1>6 DEF BoardInv, CallsHaveRows, CallHasRow, Frame
<1>9. tasks'[t] = Written(tasks[t], call[c].copy, call[c].fields)
  BY <1>3, <1>6, <1>7
<1>10. f \in call[c].fields
  BY <1>8, <1>9, WrittenIsRow
<1>11. call'[c].pc = "feed"
  BY <1>3, <1>6 DEF Frame
<1> QED BY <1>6, <1>7, <1>10, <1>11

\* A column of a row changes only when a call that was asked to change it
\* saves, however old its copy is (asave(update_fields) in update_task).
THEOREM NamedFieldsCorrect == BoardSpec => OnlyNamedFieldsChange
<1>1. BoardInv /\ [BoardNext]_board_vars =>
        [\A t \in TaskIds, f \in Fields :
           tasks[t] # Absent /\ tasks'[t] # Absent /\ tasks'[t][f] # tasks[t][f]
             => \E c \in Calls : call[c].task = t /\ call[c].pc = "save" /\ f \in call[c].fields
                                 /\ call'[c].pc # "save"]_board_vars
  BY WritesAreNamed
<1>2. BoardSpec => []BoardInv
  BY BoardInvInit, BoardStepKeeps, PTL DEF BoardSpec
<1> QED BY <1>1, <1>2, PTL DEF BoardSpec, OnlyNamedFieldsChange

-----------------------------------------------------------------------------
\* Messages

SendFrame ==
  [pc : {"idle", "load", "serve", "raised", "true", "false"}, kind : {"none", "user", "team"},
   to : SUBSET Members, todo : SUBSET Members, dead : SUBSET Members,
   now : Members \cup {NoMember}, step : {"none", "append", "restart"}]

MsgTypes ==
  /\ fate \in [Members -> Fates]
  /\ send \in [Sends -> SendFrame]
  /\ log \in [woken : SUBSET (Sends \X Members), killed : [Sends -> SUBSET Members]]

\* Where a call stands in its loop, and what it has done for the current recipient.
Serving(c) ==
  /\ send[c].step = "none" <=> send[c].now = NoMember
  /\ send[c].step # "none" => send[c].pc = "serve"
  /\ send[c].step = "append" => <<c, send[c].now>> \in events
  /\ send[c].step = "restart" => <<c, send[c].now>> \in inbox
  /\ send[c].pc = "true" => send[c].todo = {} /\ send[c].now = NoMember

\* No recipient is forgotten.
NobodyForgotten(c) ==
  send[c].pc \in {"serve", "true"} =>
    \A a \in send[c].to :
      \/ a \in send[c].todo
      \/ a = send[c].now /\ send[c].step = "append"
      \/ <<c, a>> \in inbox
      \/ fate[a] = "removed"

\* A recipient of a user's message that is dead will be restarted.
RestartComes(c) ==
  c \in UserCalls /\ send[c].pc \in {"serve", "true"} =>
    \A a \in send[c].to \ log.killed[c] :
      NeedsRestart(fate[a]) =>
        a \in send[c].dead /\ (a \in send[c].todo \/ (a = send[c].now))

CallIsSound(c) == Serving(c) /\ NobodyForgotten(c) /\ RestartComes(c)

MsgInv ==
  /\ MsgTypes /\ AuditedBeforeQueued /\ WokenHasMessage
  /\ \A c \in Sends : CallIsSound(c)

\* What a step of somebody else may do under a call: agents die only with notice,
\* and nothing that was stored is taken back.
Harmless(c) ==
  /\ events \subseteq events' /\ inbox \subseteq inbox'
  /\ log.killed[c] \subseteq log'.killed[c]
  /\ \A a \in Members :
       /\ fate[a] = "removed" => fate'[a] = "removed"
       /\ NeedsRestart(fate'[a]) => NeedsRestart(fate[a]) \/ a \in log'.killed[c]

-----------------------------------------------------------------------------
LEMMA OthersKeep ==
  ASSUME MsgInv, NEW c \in Sends, send'[c] = send[c], Harmless(c)
  PROVE  CallIsSound(c)'
<1>1. CallIsSound(c) /\ send[c] \in SendFrame
  BY DEF MsgInv, MsgTypes
<1>2. Serving(c)'
  BY <1>1 DEF CallIsSound, Serving, Harmless
<1>3. send[c].to \subseteq Members
  BY <1>1 DEF SendFrame
<1>4. NobodyForgotten(c)'
  BY <1>1, <1>3 DEF CallIsSound, NobodyForgotten, Harmless
<1>5. RestartComes(c)'
  <2> SUFFICES ASSUME c \in UserCalls, send[c].pc \in {"serve", "true"},
                      NEW a \in send[c].to, a \notin log'.killed[c], NeedsRestart(fate'[a])
               PROVE  a \in send[c].dead /\ (a \in send[c].todo \/ a = send[c].now)
    BY DEF RestartComes
  <2>1. NeedsRestart(fate[a]) /\ a \notin log.killed[c]
    BY <1>3 DEF Harmless
  <2> QED BY <1>1, <2>1 DEF CallIsSound, RestartComes
<1> QED BY <1>2, <1>4, <1>5 DEF CallIsSound

LEMMA MsgInvInit == MsgInit => MsgInv
<1> SUFFICES ASSUME MsgInit PROVE MsgInv
  OBVIOUS
<1>1. fate \in [Members -> Fates]
  BY DEF MsgInit, Fates
<1>2. NewSend \in SendFrame
  BY DEF NewSend, SendFrame
<1>3. MsgTypes
  BY <1>1, <1>2 DEF MsgInit, MsgTypes
<1>4. \A c \in Sends : CallIsSound(c)
  BY DEF MsgInit, NewSend, CallIsSound, Serving, NobodyForgotten, RestartComes
<1> QED BY <1>3, <1>4 DEF MsgInv, MsgInit, AuditedBeforeQueued, WokenHasMessage

\* A step that leaves the calls and their messages alone.
LEMMA AgentStepKeeps ==
  ASSUME MsgInv, fate' \in [Members -> Fates],
         log'.woken = log.woken, log' \in [woken : SUBSET (Sends \X Members),
                                           killed : [Sends -> SUBSET Members]],
         UNCHANGED <<events, inbox, send>>, \A c \in Sends : Harmless(c)
  PROVE  MsgInv'
<1>1. \A c \in Sends : CallIsSound(c)'
  BY OthersKeep
<1> QED BY <1>1 DEF MsgInv, MsgTypes, AuditedBeforeQueued, WokenHasMessage

LEMMA AgentChangesKeeps == ASSUME MsgInv, AgentChanges PROVE MsgInv'
<1>1. PICK a \in Existing :
        /\ \/ fate[a] = "deploying" /\ fate' = [fate EXCEPT ![a] = "up"]
           \/ fate[a] \in {"deploying", "up"} /\ fate' = [fate EXCEPT ![a] = "error"]
           \/ fate[a] = "up" /\ fate' = [fate EXCEPT ![a] = "lost"]
           \/ fate[a] \in {"stopped", "error"} /\ fate' = [fate EXCEPT ![a] = "removed"]
        /\ log' = [log EXCEPT !.killed = [c \in Sends |->
                     IF NeedsRestart(fate'[a]) THEN @[c] \cup {a} ELSE @[c]]]
        /\ UNCHANGED <<events, inbox, team_feed, send>>
  BY DEF AgentChanges
<1>2. fate \in [Members -> Fates] /\ a \in Members /\ fate[a] # "removed"
  BY <1>1 DEF MsgInv, MsgTypes, Existing
<1>3. /\ fate' \in [Members -> Fates]
      /\ \A b \in Members : b # a => fate'[b] = fate[b]
  BY <1>1, <1>2 DEF Fates
<1>4. /\ log'.woken = log.woken
      /\ \A c \in Sends : log'.killed[c] = IF NeedsRestart(fate'[a]) THEN log.killed[c] \cup {a}
                                                                    ELSE log.killed[c]
      /\ log' \in [woken : SUBSET (Sends \X Members), killed : [Sends -> SUBSET Members]]
  BY <1>1, <1>2 DEF MsgInv, MsgTypes
<1>5. \A c \in Sends : Harmless(c)
  BY <1>1, <1>2, <1>3, <1>4 DEF Harmless
<1> QED BY <1>1, <1>3, <1>4, <1>5, AgentStepKeeps

\* A kill is noted for every call.
LEMMA KilledIsHarmless ==
  ASSUME MsgInv, NEW a \in Existing, Killed(a), events' = events, inbox' = inbox
  PROVE  /\ fate' \in [Members -> Fates]
         /\ log'.woken = log.woken
         /\ log' \in [woken : SUBSET (Sends \X Members), killed : [Sends -> SUBSET Members]]
         /\ \A c \in Sends : Harmless(c)
<1>1. fate \in [Members -> Fates] /\ a \in Members /\ fate[a] # "removed"
  BY DEF MsgInv, MsgTypes, Existing
<1>2. fate' = [fate EXCEPT ![a] = "stopped"] /\ fate' \in [Members -> Fates]
  BY <1>1 DEF Killed, Fates
<1>3. /\ log'.woken = log.woken
      /\ \A c \in Sends : log'.killed[c] = log.killed[c] \cup {a}
      /\ log' \in [woken : SUBSET (Sends \X Members), killed : [Sends -> SUBSET Members]]
  BY <1>1 DEF MsgInv, MsgTypes, Killed
<1>4. \A c \in Sends : Harmless(c)
  BY <1>1, <1>2, <1>3 DEF Harmless
<1> QED BY <1>2, <1>3, <1>4

LEMMA UserKillsKeeps == ASSUME MsgInv, UserKills PROVE MsgInv'
<1>1. PICK a \in Existing : Killed(a)
  BY DEF UserKills
<1> QED BY <1>1, KilledIsHarmless, AgentStepKeeps DEF UserKills
-----------------------------------------------------------------------------
\* A step of a call: the others only see that nothing is taken back.
LEMMA OwnStepKeeps ==
  ASSUME MsgInv, NEW c \in Sends, NEW frame \in SendFrame,
         send' = [send EXCEPT ![c] = frame],
         fate' \in [Members -> Fates],
         log' \in [woken : SUBSET (Sends \X Members), killed : [Sends -> SUBSET Members]],
         \A d \in Sends \ {c} : Harmless(d),
         CallIsSound(c)', AuditedBeforeQueued', WokenHasMessage'
  PROVE  MsgInv'
<1>1. \A d \in Sends : d # c => send'[d] = send[d]
  BY DEF MsgInv, MsgTypes
<1>2. \A d \in Sends : d # c => CallIsSound(d)'
  BY <1>1, OthersKeep
<1>3. MsgTypes'
  BY DEF MsgInv, MsgTypes
<1> QED BY <1>2, <1>3 DEF MsgInv

\* A step that changes the frame of a call only.
LEMMA FrameStepKeeps ==
  ASSUME MsgInv, NEW c \in Sends, NEW frame \in SendFrame,
         send' = [send EXCEPT ![c] = frame],
         UNCHANGED <<fate, events, inbox, log>>, CallIsSound(c)'
  PROVE  MsgInv'
<1>1. /\ fate' \in [Members -> Fates]
      /\ log' \in [woken : SUBSET (Sends \X Members), killed : [Sends -> SUBSET Members]]
  BY DEF MsgInv, MsgTypes
<1>2. \A d \in Sends \ {c} : Harmless(d)
  BY DEF Harmless
<1>3. AuditedBeforeQueued' /\ WokenHasMessage'
  BY DEF MsgInv, AuditedBeforeQueued, WokenHasMessage
<1> QED BY <1>1, <1>2, <1>3, OwnStepKeeps

LEMMA FrameChanges ==
  ASSUME MsgTypes, NEW c \in Sends, NEW frame, send' = [send EXCEPT ![c] = frame]
  PROVE  send'[c] = frame
BY DEF MsgTypes

\* The call has its recipients, or none.
LEMMA AddressKeeps ==
  ASSUME MsgInv, NEW c \in Sends, UserAddresses(c) \/ UserAnswers(c)
  PROVE  MsgInv'
<1>1. PICK to \in SUBSET Members :
        send' = [send EXCEPT ![c].pc = "load", ![c].kind = "user", ![c].to = to]
  <2>1. CASE UserAddresses(c)
    <3>1. PICK list \in SUBSET Addressees :
            send' = [send EXCEPT ![c].pc = "load", ![c].kind = "user", ![c].to = UNION list]
      BY <2>1 DEF UserAddresses
    <3>2. UNION list \in SUBSET Members
      BY DEF Addressees, Existing
    <3> QED BY <3>1, <3>2
  <2>2. CASE UserAnswers(c)
    BY <2>2 DEF UserAnswers, Existing
  <2> QED BY <2>1, <2>2
<1>2. send[c] = NewSend /\ UNCHANGED <<fate, events, inbox, log>>
  BY DEF UserAddresses, UserAnswers
<1> DEFINE frame == [NewSend EXCEPT !.pc = "load", !.kind = "user", !.to = to]
<1>3. send' = [send EXCEPT ![c] = frame]
  BY <1>1, <1>2 DEF MsgInv, MsgTypes
<1>4. frame \in SendFrame /\ frame.pc = "load" /\ frame.step = "none" /\ frame.now = NoMember
  BY DEF NewSend, SendFrame
<1> HIDE DEF frame
<1>5. send'[c] = frame
  BY <1>3, FrameChanges DEF MsgInv
<1>6. CallIsSound(c)'
  BY <1>4, <1>5 DEF CallIsSound, Serving, NobodyForgotten, RestartComes
<1> QED BY <1>2, <1>3, <1>4, <1>6, FrameStepKeeps

\* Load: who is not found was removed, and who needs a restart is in dead.
LEMMA LoadKeeps == ASSUME MsgInv, NEW c \in Sends, Load(c) PROVE MsgInv'
<1> DEFINE found == send[c].to \cap Existing
           dead == {a \in found : NeedsRestart(fate[a])}
           frame == [send[c] EXCEPT !.todo = found, !.dead = dead,
                                    !.pc = IF found = {} THEN "false" ELSE "serve"]
<1>1. /\ send[c].pc = "load" /\ send' = [send EXCEPT ![c] = frame]
      /\ log' = [log EXCEPT !.killed[c] = {}] /\ UNCHANGED <<fate, events, inbox>>
  BY DEF Load
<1>2. send[c] \in SendFrame /\ CallIsSound(c)
  BY DEF MsgInv, MsgTypes
<1>3. send[c].step = "none" /\ send[c].now = NoMember /\ send[c].to \subseteq Members
  BY <1>1, <1>2 DEF CallIsSound, Serving, SendFrame
<1>4. frame \in SendFrame /\ frame.step = "none" /\ frame.now = NoMember /\ frame.to = send[c].to
      /\ frame.todo = found /\ frame.dead = dead /\ frame.pc \in {"serve", "false"}
  BY <1>2, <1>3 DEF SendFrame
<1>5. /\ log'.woken = log.woken
      /\ \A d \in Sends \ {c} : log'.killed[d] = log.killed[d]
      /\ log' \in [woken : SUBSET (Sends \X Members), killed : [Sends -> SUBSET Members]]
  <2>1. log' = [woken |-> log.woken, killed |-> [log.killed EXCEPT ![c] = {}]]
    BY <1>1 DEF MsgInv, MsgTypes
  <2> QED BY <2>1 DEF MsgInv, MsgTypes
<1>6. \A d \in Sends \ {c} : Harmless(d)
  BY <1>1, <1>5 DEF Harmless
<1>7. \A a \in send[c].to : a \in found \/ fate[a] = "removed"
  BY <1>3 DEF Existing
<1> HIDE DEF frame
<1>8. send'[c] = frame
  BY <1>1, FrameChanges DEF MsgInv
<1>9. CallIsSound(c)'
  <2>1. Serving(c)'
    BY <1>4, <1>8 DEF Serving
  <2>2. NobodyForgotten(c)'
    BY <1>1, <1>4, <1>7, <1>8 DEF NobodyForgotten
  <2>3. RestartComes(c)'
    BY <1>1, <1>4, <1>7, <1>8 DEF RestartComes, NeedsRestart
  <2> QED BY <2>1, <2>2, <2>3 DEF CallIsSound
<1>10. AuditedBeforeQueued' /\ WokenHasMessage' /\ fate' \in [Members -> Fates]
  BY <1>1, <1>5 DEF MsgInv, MsgTypes, AuditedBeforeQueued, WokenHasMessage
<1> QED BY <1>1, <1>4, <1>5, <1>6, <1>9, <1>10, OwnStepKeeps

LEMMA TeamLoadsKeeps ==
  ASSUME MsgInv, NEW c \in TeamCalls, NEW self \in Members, TeamLoads(c, self)
  PROVE  MsgInv'
<1>0. c \in Sends /\ c \notin UserCalls
  BY CallsAreDistinct DEF Sends
<1>1. PICK to \in SUBSET Members :
        send' = [send EXCEPT ![c].pc = "serve", ![c].kind = "team", ![c].to = to, ![c].todo = to]
  BY DEF TeamLoads, Existing
<1>2. /\ send[c] = NewSend /\ log' = [log EXCEPT !.killed[c] = {}]
      /\ UNCHANGED <<fate, events, inbox>>
  BY DEF TeamLoads
<1> DEFINE frame == [NewSend EXCEPT !.pc = "serve", !.kind = "team", !.to = to, !.todo = to]
<1>3. send' = [send EXCEPT ![c] = frame]
  BY <1>0, <1>1, <1>2 DEF MsgInv, MsgTypes
<1>4. frame \in SendFrame /\ frame.pc = "serve" /\ frame.step = "none" /\ frame.now = NoMember
      /\ frame.to = to /\ frame.todo = to
  BY DEF NewSend, SendFrame
<1>5. /\ log'.woken = log.woken
      /\ \A d \in Sends \ {c} : log'.killed[d] = log.killed[d]
      /\ log' \in [woken : SUBSET (Sends \X Members), killed : [Sends -> SUBSET Members]]
  <2>1. log' = [woken |-> log.woken, killed |-> [log.killed EXCEPT ![c] = {}]]
    BY <1>2 DEF MsgInv, MsgTypes
  <2> QED BY <1>0, <2>1 DEF MsgInv, MsgTypes
<1>6. \A d \in Sends \ {c} : Harmless(d)
  BY <1>2, <1>5 DEF Harmless
<1> HIDE DEF frame
<1>7. send'[c] = frame
  BY <1>0, <1>3, FrameChanges DEF MsgInv
<1>8. CallIsSound(c)'
  BY <1>0, <1>4, <1>7 DEF CallIsSound, Serving, NobodyForgotten, RestartComes
<1>9. AuditedBeforeQueued' /\ WokenHasMessage' /\ fate' \in [Members -> Fates]
  BY <1>2, <1>5 DEF MsgInv, MsgTypes, AuditedBeforeQueued, WokenHasMessage
<1> QED BY <1>0, <1>3, <1>4, <1>5, <1>6, <1>8, <1>9, OwnStepKeeps

LEMMA TeamShutsDownKeeps ==
  ASSUME MsgInv, NEW c \in TeamCalls, TeamShutsDown(c)
  PROVE  MsgInv'
<1> DEFINE frame == [NewSend EXCEPT !.pc = "true"]
<1>0. c \in Sends
  BY DEF Sends
<1>1. /\ send[c] = NewSend /\ send' = [send EXCEPT ![c].pc = "true"]
      /\ UNCHANGED <<events, inbox>> /\ \E a \in Existing : Killed(a)
  BY DEF TeamShutsDown
<1>2. send' = [send EXCEPT ![c] = frame]
  BY <1>0, <1>1 DEF MsgInv, MsgTypes
<1>3. frame \in SendFrame /\ frame.pc = "true" /\ frame.step = "none" /\ frame.now = NoMember
      /\ frame.to = {} /\ frame.todo = {}
  BY DEF NewSend, SendFrame
<1>4. /\ fate' \in [Members -> Fates] /\ log'.woken = log.woken
      /\ log' \in [woken : SUBSET (Sends \X Members), killed : [Sends -> SUBSET Members]]
      /\ \A d \in Sends : Harmless(d)
  BY <1>1, KilledIsHarmless
<1> HIDE DEF frame
<1>5. send'[c] = frame
  BY <1>0, <1>2, FrameChanges DEF MsgInv
<1>6. CallIsSound(c)'
  BY <1>3, <1>5 DEF CallIsSound, Serving, NobodyForgotten, RestartComes
<1>7. AuditedBeforeQueued' /\ WokenHasMessage'
  BY <1>1, <1>4 DEF MsgInv, AuditedBeforeQueued, WokenHasMessage
<1> QED BY <1>0, <1>2, <1>3, <1>4, <1>6, <1>7, OwnStepKeeps
-----------------------------------------------------------------------------
\* The audit log has the message before its line can be appended.
LEMMA StoreEventKeeps == ASSUME MsgInv, NEW c \in Sends, StoreEvent(c) PROVE MsgInv'
<1>1. PICK a \in send[c].todo :
        /\ events' = events \cup {<<c, a>>}
        /\ send' = [send EXCEPT ![c].now = a, ![c].step = "append", ![c].todo = @ \ {a}]
  BY DEF StoreEvent
<1>2. /\ send[c].pc = "serve" /\ send[c].now = NoMember /\ UNCHANGED <<fate, inbox, log>>
  BY DEF StoreEvent
<1> DEFINE frame == [send[c] EXCEPT !.now = a, !.step = "append", !.todo = send[c].todo \ {a}]
<1>3. send[c] \in SendFrame /\ CallIsSound(c) /\ send' = [send EXCEPT ![c] = frame]
  BY <1>1 DEF MsgInv, MsgTypes
<1>4. a \in Members /\ a # NoMember
  BY <1>3, NobodyIsNoMember DEF SendFrame
<1>5. frame \in SendFrame /\ frame.pc = "serve" /\ frame.step = "append" /\ frame.now = a
      /\ frame.to = send[c].to /\ frame.todo = send[c].todo \ {a} /\ frame.dead = send[c].dead
  BY <1>2, <1>3, <1>4 DEF SendFrame
<1> HIDE DEF frame
<1>6. send'[c] = frame
  BY <1>3, FrameChanges DEF MsgInv
<1>7. send[c].step = "none"
  BY <1>2, <1>3 DEF CallIsSound, Serving, SendFrame
<1>8. CallIsSound(c)'
  <2>1. Serving(c)'
    <3>1. <<c, a>> \in events'
      BY <1>1
    <3> QED BY <1>4, <1>5, <1>6, <3>1 DEF Serving
  <2>2. NobodyForgotten(c)'
    BY <1>2, <1>3, <1>5, <1>6, <1>7 DEF CallIsSound, NobodyForgotten
  <2>3. RestartComes(c)'
    <3>1. send[c].to \subseteq Members
      BY <1>3 DEF SendFrame
    <3> QED BY <1>2, <1>3, <1>5, <1>6, <3>1, NobodyIsNoMember DEF CallIsSound, RestartComes
  <2> QED BY <2>1, <2>2, <2>3 DEF CallIsSound
<1>9. \A d \in Sends \ {c} : Harmless(d)
  BY <1>1, <1>2 DEF Harmless
<1>10. AuditedBeforeQueued' /\ WokenHasMessage'
  BY <1>1, <1>2 DEF MsgInv, AuditedBeforeQueued, WokenHasMessage
<1>11. fate' \in [Members -> Fates]
       /\ log' \in [woken : SUBSET (Sends \X Members), killed : [Sends -> SUBSET Members]]
  BY <1>2 DEF MsgInv, MsgTypes
<1> QED BY <1>3, <1>5, <1>8, <1>9, <1>10, <1>11, OwnStepKeeps

\* The line is there when the recipient counts as served.
LEMMA AppendInboxKeeps == ASSUME MsgInv, NEW c \in Sends, AppendInbox(c) PROVE MsgInv'
<1> DEFINE a == send[c].now
           frame == AfterAppend(send[c])
<1>1. /\ send[c].step = "append" /\ inbox' = inbox \cup {<<c, a>>}
      /\ send' = [send EXCEPT ![c] = frame] /\ UNCHANGED <<fate, events, log>>
  BY DEF AppendInbox
<1>2. send[c] \in SendFrame /\ CallIsSound(c)
  BY DEF MsgInv, MsgTypes
<1>3. send[c].pc = "serve" /\ a # NoMember /\ <<c, a>> \in events
  BY <1>1, <1>2 DEF CallIsSound, Serving
<1>4. /\ frame \in SendFrame /\ frame.pc = "serve" /\ frame.to = send[c].to
      /\ frame.todo = send[c].todo /\ frame.dead = send[c].dead
      /\ a \in send[c].dead => frame.step = "restart" /\ frame.now = a
      /\ a \notin send[c].dead => frame.step = "none" /\ frame.now = NoMember
  <2>1. CASE a \in send[c].dead
    <3>1. frame = [send[c] EXCEPT !.step = "restart"]
      BY <2>1 DEF AfterAppend
    <3> QED BY <1>2, <1>3, <2>1, <3>1 DEF SendFrame
  <2>2. CASE a \notin send[c].dead
    <3>1. frame = [send[c] EXCEPT !.now = NoMember, !.step = "none"]
      BY <2>2 DEF AfterAppend
    <3> QED BY <1>2, <1>3, <2>2, <3>1 DEF SendFrame
  <2> QED BY <2>1, <2>2
<1> HIDE DEF frame
<1>5. send'[c] = frame
  BY <1>1, FrameChanges DEF MsgInv
<1>6. CallIsSound(c)'
  <2>1. Serving(c)'
    BY <1>1, <1>3, <1>4, <1>5 DEF Serving
  <2>2. NobodyForgotten(c)'
    BY <1>1, <1>2, <1>3, <1>4, <1>5 DEF CallIsSound, NobodyForgotten
  <2>3. RestartComes(c)'
    BY <1>1, <1>2, <1>3, <1>4, <1>5 DEF CallIsSound, RestartComes
  <2> QED BY <2>1, <2>2, <2>3 DEF CallIsSound
<1>7. \A d \in Sends \ {c} : Harmless(d)
  BY <1>1 DEF Harmless
<1>8. AuditedBeforeQueued' /\ WokenHasMessage'
  BY <1>1, <1>3 DEF MsgInv, AuditedBeforeQueued, WokenHasMessage
<1>9. fate' \in [Members -> Fates]
      /\ log' \in [woken : SUBSET (Sends \X Members), killed : [Sends -> SUBSET Members]]
  BY <1>1 DEF MsgInv, MsgTypes
<1> QED BY <1>1, <1>4, <1>6, <1>7, <1>8, <1>9, OwnStepKeeps

\* A call that raised promises nothing.
LEMMA StepFailsKeeps == ASSUME MsgInv, NEW c \in Sends, StepFails(c) PROVE MsgInv'
<1> DEFINE frame == [NewSend EXCEPT !.pc = "raised", !.kind = send[c].kind]
<1>1. send' = [send EXCEPT ![c] = frame] /\ UNCHANGED <<fate, events, inbox, log>>
  BY DEF StepFails
<1>2. send[c] \in SendFrame
  BY DEF MsgInv, MsgTypes
<1>3. frame \in SendFrame /\ frame.pc = "raised" /\ frame.step = "none" /\ frame.now = NoMember
  BY <1>2 DEF NewSend, SendFrame
<1> HIDE DEF frame
<1>4. send'[c] = frame
  BY <1>1, FrameChanges DEF MsgInv
<1>5. CallIsSound(c)'
  BY <1>3, <1>4 DEF CallIsSound, Serving, NobodyForgotten, RestartComes
<1> QED BY <1>1, <1>3, <1>5, FrameStepKeeps

\* The restart comes after the message, and its agent is no longer dead.
LEMMA WakeKeeps == ASSUME MsgInv, NEW c \in Sends, Wake(c) PROVE MsgInv'
<1> DEFINE a == send[c].now
           frame == [send[c] EXCEPT !.now = NoMember, !.step = "none"]
<1>1. /\ send[c].step = "restart" /\ fate[a] # "removed" /\ fate' = Restarted(a)
      /\ log' = [log EXCEPT !.woken = @ \cup {<<c, a>>}]
      /\ UNCHANGED <<events, inbox>>
  BY DEF Wake
<1>2. send[c] \in SendFrame /\ CallIsSound(c)
  BY DEF MsgInv, MsgTypes
<1>3. send' = [send EXCEPT ![c] = frame]
  BY <1>2 DEF Wake, MsgInv, MsgTypes
<1>4. send[c].pc = "serve" /\ a \in Members /\ <<c, a>> \in inbox
  BY <1>1, <1>2 DEF CallIsSound, Serving, SendFrame
<1>5. /\ frame \in SendFrame /\ frame.pc = "serve" /\ frame.step = "none" /\ frame.now = NoMember
      /\ frame.to = send[c].to /\ frame.todo = send[c].todo /\ frame.dead = send[c].dead
  BY <1>2, <1>4 DEF SendFrame
<1>6. /\ fate' \in [Members -> Fates] /\ fate'[a] = "deploying"
      /\ \A b \in Members : b # a => fate'[b] = fate[b]
  BY <1>1, <1>4 DEF Restarted, MsgInv, MsgTypes, Fates
<1>7. /\ log'.woken = log.woken \cup {<<c, a>>} /\ log'.killed = log.killed
      /\ log' \in [woken : SUBSET (Sends \X Members), killed : [Sends -> SUBSET Members]]
  BY <1>1, <1>4 DEF MsgInv, MsgTypes
<1>8. \A d \in Sends : Harmless(d)
  BY <1>1, <1>6, <1>7 DEF Harmless, NeedsRestart
<1> HIDE DEF frame
<1>9. send'[c] = frame
  BY <1>3, FrameChanges DEF MsgInv
<1>10. CallIsSound(c)'
  <2>1. Serving(c)'
    BY <1>5, <1>9 DEF Serving
  <2>2. NobodyForgotten(c)'
    <3>1. \A b \in send[c].to : b \in send[c].todo \/ <<c, b>> \in inbox \/ fate[b] = "removed"
      BY <1>1, <1>2, <1>4 DEF CallIsSound, NobodyForgotten
    <3>2. send[c].to \subseteq Members
      BY <1>2 DEF SendFrame
    <3>3. \A b \in send[c].to : fate[b] = "removed" => fate'[b] = "removed"
      BY <1>1, <1>6, <3>2
    <3> QED BY <1>1, <1>5, <1>9, <3>1, <3>3 DEF NobodyForgotten
  <2>3. RestartComes(c)'
    <3> SUFFICES ASSUME c \in UserCalls, NEW b \in send[c].to, b \notin log'.killed[c],
                        NeedsRestart(fate'[b])
                 PROVE  b \in send[c].dead /\ b \in send[c].todo
      BY <1>5, <1>9 DEF RestartComes
    <3>1. b # a /\ b \in Members
      BY <1>2, <1>6 DEF NeedsRestart, SendFrame
    <3>2. NeedsRestart(fate[b]) /\ b \notin log.killed[c]
      BY <1>6, <1>7, <3>1
    <3> QED BY <1>2, <1>4, <3>1, <3>2 DEF CallIsSound, RestartComes
  <2> QED BY <2>1, <2>2, <2>3 DEF CallIsSound
<1>11. AuditedBeforeQueued' /\ WokenHasMessage'
  BY <1>1, <1>4, <1>7 DEF MsgInv, AuditedBeforeQueued, WokenHasMessage
<1> QED BY <1>3, <1>5, <1>6, <1>7, <1>8, <1>10, <1>11, OwnStepKeeps

LEMMA ReturnKeeps == ASSUME MsgInv, NEW c \in Sends, Return(c) PROVE MsgInv'
<1> DEFINE frame == [send[c] EXCEPT !.pc = "true"]
<1>1. /\ send[c].pc = "serve" /\ send[c].now = NoMember /\ send[c].todo = {}
      /\ UNCHANGED <<fate, events, inbox, log>>
  BY DEF Return
<1>2. send[c] \in SendFrame /\ CallIsSound(c) /\ send' = [send EXCEPT ![c] = frame]
  BY DEF Return, MsgInv, MsgTypes
<1>3. send[c].step = "none"
  BY <1>1, <1>2 DEF CallIsSound, Serving, SendFrame
<1>4. /\ frame \in SendFrame /\ frame.pc = "true" /\ frame.step = "none" /\ frame.now = NoMember
      /\ frame.to = send[c].to /\ frame.todo = {} /\ frame.dead = send[c].dead
  BY <1>1, <1>2, <1>3 DEF SendFrame
<1> HIDE DEF frame
<1>5. send'[c] = frame
  BY <1>2, FrameChanges DEF MsgInv
<1>6. CallIsSound(c)'
  <2>1. Serving(c)'
    BY <1>4, <1>5 DEF Serving
  <2>2. NobodyForgotten(c)'
    BY <1>1, <1>2, <1>3, <1>4, <1>5 DEF CallIsSound, NobodyForgotten
  <2>3. RestartComes(c)'
    <3>1. send[c].to \subseteq Members
      BY <1>2 DEF SendFrame
    <3> QED BY <1>1, <1>2, <1>4, <1>5, <3>1, NobodyIsNoMember DEF CallIsSound, RestartComes
  <2> QED BY <2>1, <2>2, <2>3 DEF CallIsSound
<1> QED BY <1>1, <1>2, <1>4, <1>6, FrameStepKeeps

-----------------------------------------------------------------------------
LEMMA MsgStepKeeps == MsgInv /\ [MsgNext]_msg_vars => MsgInv'
<1> SUFFICES ASSUME MsgInv, [MsgNext]_msg_vars PROVE MsgInv'
  OBVIOUS
<1>1. ASSUME AgentChanges \/ UserKills PROVE MsgInv'
  BY <1>1, AgentChangesKeeps, UserKillsKeeps
<1>2. ASSUME NEW c \in UserCalls, UserAddresses(c) \/ UserAnswers(c) \/ Load(c) PROVE MsgInv'
  <2>1. c \in Sends
    BY DEF Sends
  <2> QED BY <1>2, <2>1, AddressKeeps, LoadKeeps
<1>3. ASSUME NEW c \in TeamCalls, TeamShutsDown(c) \/ \E self \in Members : TeamLoads(c, self)
      PROVE  MsgInv'
  BY <1>3, TeamShutsDownKeeps, TeamLoadsKeeps
<1>4. ASSUME NEW c \in Sends, StoreEvent(c) \/ AppendInbox(c) \/ StepFails(c) \/ Wake(c) \/ Return(c)
      PROVE  MsgInv'
  BY <1>4, StoreEventKeeps, AppendInboxKeeps, StepFailsKeeps, WakeKeeps, ReturnKeeps
<1>5. CASE UNCHANGED msg_vars
  <2>1. UNCHANGED <<fate, events, inbox, send, log>>
    BY <1>5 DEF msg_vars
  <2>2. /\ fate' \in [Members -> Fates] /\ log'.woken = log.woken
        /\ log' \in [woken : SUBSET (Sends \X Members), killed : [Sends -> SUBSET Members]]
        /\ \A c \in Sends : Harmless(c)
    BY <2>1 DEF MsgInv, MsgTypes, Harmless
  <2> QED BY <2>1, <2>2, AgentStepKeeps
<1> QED BY <1>1, <1>2, <1>3, <1>4, <1>5 DEF MsgNext

LEMMA MsgInvImplies == MsgInv => SenderIsTold
<1> SUFFICES ASSUME MsgInv PROVE TrueMeansQueued /\ UserWakesDead
  BY DEF MsgInv, SenderIsTold
<1>1. TrueMeansQueued
  <2> SUFFICES ASSUME NEW c \in Sends, NEW a \in Members, send[c].pc = "true", a \in send[c].to,
                      <<c, a>> \notin inbox
               PROVE  fate[a] = "removed"
    BY DEF TrueMeansQueued
  <2>1. CallIsSound(c)
    BY DEF MsgInv
  <2> QED BY <2>1, NobodyIsNoMember DEF CallIsSound, Serving, NobodyForgotten
<1>2. UserWakesDead
  <2> SUFFICES ASSUME NEW c \in UserCalls, NEW a \in Members, send[c].pc = "true", a \in send[c].to,
                      a \notin log.killed[c]
               PROVE  ~NeedsRestart(fate[a])
    BY DEF UserWakesDead
  <2>1. CallIsSound(c)
    BY DEF MsgInv, Sends
  <2> QED BY <2>1, NobodyIsNoMember DEF CallIsSound, Serving, RestartComes
<1> QED BY <1>1, <1>2

\* For any agents and any calls, in every interleaving with agents that die, are
\* killed or removed: the audit log has what is queued, who is restarted finds
\* the message, TRUE means that every recipient left has it, and a user's message
\* does not wait for a dead agent (send_message, deliver_message).
THEOREM SenderCorrect == MsgSpec => []SenderIsTold
<1>1. MsgSpec => []MsgInv
  BY MsgInvInit, MsgStepKeeps, PTL DEF MsgSpec
<1> QED BY <1>1, MsgInvImplies, PTL

-----------------------------------------------------------------------------
\* Triggers

PassFrame ==
  [pc : {"idle", "fire"}, now : Minutes, copy : [Slots -> Minutes \cup {Never}],
   todo : SUBSET Slots, modified : BOOLEAN]

TriggerTypes ==
  /\ clock \in Minutes
  /\ marks \in [Slots -> Minutes \cup {Never}]
  /\ pass \in [Evaluators -> PassFrame]
  /\ fired \in [Slots -> [Minutes -> 0..2]]
  /\ upset \in [raises : Nat, edits : Nat, overlap : BOOLEAN]

\* A pass fires or rests, and its marks are not of a later minute than its own.
PassesAreSound ==
  \A e \in Evaluators :
    /\ pass[e].pc = "idle" => pass[e] = Rest
    /\ pass[e].now <= clock
    /\ pass[e].pc = "fire" => \A k \in Slots : pass[e].copy[k] <= pass[e].now

MarksAreSound == \A k \in Slots : marks[k] <= clock

\* No tick after a mark has fired.
Covers(held) == \A k \in Slots, m \in Minutes : fired[k][m] > 0 => m <= held[k]

OneByOne ==
  ~upset.overlap /\ upset.raises = 0 =>
    /\ \A k \in Slots, m \in Minutes : fired[k][m] <= 1
    /\ (\A e \in Evaluators : pass[e].pc = "idle") => Covers(marks)
    /\ \A e \in Evaluators : pass[e].pc = "fire" =>
         /\ \A d \in Evaluators : pass[d].pc = "fire" => d = e
         /\ Covers(pass[e].copy)
         /\ ~pass[e].modified => pass[e].copy = marks

TriggersInv ==
  TriggerTypes /\ PassesAreSound /\ MarksAreSound /\ FiresOnSchedule /\ OneByOne

-----------------------------------------------------------------------------
\* A set of minutes has a least one.
LEMMA LeastMinute ==
  ASSUME NEW S \in SUBSET Nat, S # {}
  PROVE  \E m \in S : \A n \in S : m <= n
<1>1. IsWellFoundedOn(OpToRel(<, Nat), Nat)
  BY NatLessThanWellFounded
<1>2. PICK m \in S : \A n \in S : ~(<<n, m>> \in OpToRel(<, Nat))
  BY <1>1, WFMin
<1>3. \A n \in S : ~(n < m)
  BY <1>2 DEF OpToRel
<1>4. \A n \in S : m <= n
  BY <1>3
<1> QED BY <1>4

\* The tick a trigger is due for is in its schedule, after the mark, and not
\* later than the minute of the pass.
LEMMA DueTick ==
  ASSUME NEW k \in Slots, NEW last \in Minutes \cup {Never}, NEW at \in Minutes,
         Due(k, last, at)
  PROVE  /\ NextFire(k, last, at) \in Schedule[k] /\ NextFire(k, last, at) \in Minutes
         /\ NextFire(k, last, at) <= at
         /\ last # Never => NextFire(k, last, at) > last
<1> DEFINE after == IF last = Never THEN at - 2 ELSE last
           ticks == {m \in Schedule[k] : m > after}
<1>1. ticks \in SUBSET Minutes /\ ticks \in SUBSET Nat
  BY SchedulesTickInTime DEF Minutes
<1>2. NextFire(k, last, at) = IF ticks = {} THEN MaxMinute + 1
                              ELSE CHOOSE m \in ticks : \A n \in ticks : m <= n
  BY DEF NextFire
<1>3. NextFire(k, last, at) <= at
  BY DEF Due
<1> HIDE DEF ticks
<1>4. ticks # {}
  BY <1>2, <1>3, SchedulesTickInTime DEF Minutes
<1>5. \E m \in ticks : \A n \in ticks : m <= n
  BY <1>1, <1>4, LeastMinute
<1>6. NextFire(k, last, at) \in ticks
  BY <1>2, <1>4, <1>5
<1> USE DEF ticks
<1>7. NextFire(k, last, at) \in Schedule[k] /\ NextFire(k, last, at) > after
  BY <1>6
<1> QED BY <1>1, <1>3, <1>6, <1>7

LEMMA TriggersInvInit == TriggersInit => TriggersInv
<1> SUFFICES ASSUME TriggersInit PROVE TriggersInv
  OBVIOUS
<1>1. TriggerTypes
  BY SchedulesTickInTime DEF TriggersInit, TriggerTypes, PassFrame, Rest, Minutes
<1>2. PassesAreSound /\ MarksAreSound
  BY DEF TriggersInit, PassesAreSound, MarksAreSound, Rest, Never
<1>3. FiresOnSchedule /\ OneByOne
  BY DEF TriggersInit, FiresOnSchedule, OneByOne, Covers, Rest
<1> QED BY <1>1, <1>2, <1>3 DEF TriggersInv
-----------------------------------------------------------------------------
\* Time passes, the agent works.
LEMMA TimeKeeps == ASSUME TriggersInv, Minute \/ StatusChanges PROVE TriggersInv'
<1>1. /\ clock' \in Minutes /\ clock <= clock' /\ clock \in Minutes
      /\ UNCHANGED <<marks, pass, fired, upset>>
  BY SchedulesTickInTime DEF TriggersInv, TriggerTypes, Minute, StatusChanges, Minutes
<1>2. TriggerTypes'
  BY <1>1 DEF TriggersInv, TriggerTypes
<1>3. PassesAreSound'
  BY <1>1 DEF TriggersInv, TriggerTypes, PassesAreSound, PassFrame, Minutes
<1>4. MarksAreSound'
  BY <1>1 DEF TriggersInv, TriggerTypes, MarksAreSound, Minutes, Never
<1>5. FiresOnSchedule'
  BY <1>1 DEF TriggersInv, FiresOnSchedule, Minutes
<1>6. OneByOne'
  BY <1>1 DEF TriggersInv, OneByOne, Covers
<1> QED BY <1>2, <1>3, <1>4, <1>5, <1>6 DEF TriggersInv

LEMMA EditKeeps == ASSUME TriggersInv, EditTriggers PROVE TriggersInv'
<1>1. PICK S \in SUBSET Slots \ {{}} :
        marks' = [k \in Slots |-> IF k \in S THEN Never ELSE marks[k]]
  BY DEF EditTriggers
<1>2. /\ upset' = [upset EXCEPT !.overlap = TRUE, !.edits = @ + 1]
      /\ UNCHANGED <<clock, idle, pass, fired>>
  BY DEF EditTriggers
<1>3. upset' \in [raises : Nat, edits : Nat, overlap : BOOLEAN] /\ upset'.overlap = TRUE
  <2>1. upset \in [raises : Nat, edits : Nat, overlap : BOOLEAN]
    BY DEF TriggersInv, TriggerTypes
  <2>2. upset' = [raises |-> upset.raises, edits |-> upset.edits + 1, overlap |-> TRUE]
    BY <1>2, <2>1
  <2> QED BY <2>1, <2>2
<1>4. TriggerTypes'
  BY <1>1, <1>2, <1>3 DEF TriggersInv, TriggerTypes
<1>5. PassesAreSound' /\ FiresOnSchedule'
  BY <1>2 DEF TriggersInv, PassesAreSound, FiresOnSchedule
<1>6. MarksAreSound'
  BY <1>1, <1>2 DEF TriggersInv, TriggerTypes, MarksAreSound, Minutes, Never
<1>7. OneByOne'
  BY <1>3 DEF OneByOne
<1> QED BY <1>4, <1>5, <1>6, <1>7 DEF TriggersInv

\* A pass starts with the marks of the row.
LEMMA StartKeeps == ASSUME TriggersInv, NEW e \in Evaluators, StartPass(e) PROVE TriggersInv'
<1> DEFINE frame == [pc |-> "fire", now |-> clock, copy |-> marks, todo |-> Slots,
                     modified |-> FALSE]
<1>1. /\ pass[e] = Rest /\ pass' = [pass EXCEPT ![e] = frame]
      /\ upset' = [upset EXCEPT !.overlap = @ \/ Running # {}]
      /\ UNCHANGED <<clock, idle, marks, fired>>
  BY DEF StartPass
<1>2. frame \in PassFrame
  BY DEF TriggersInv, TriggerTypes, PassFrame
<1>3. /\ upset' \in [raises : Nat, edits : Nat, overlap : BOOLEAN]
      /\ upset'.raises = upset.raises
      /\ ~upset'.overlap => ~upset.overlap /\ Running = {}
  BY <1>1 DEF TriggersInv, TriggerTypes
<1>4. frame.pc = "fire" /\ frame.now = clock /\ frame.copy = marks /\ ~frame.modified
  OBVIOUS
<1> HIDE DEF frame
<1>5. pass'[e] = frame /\ \A d \in Evaluators : d # e => pass'[d] = pass[d]
  BY <1>1 DEF TriggersInv, TriggerTypes
<1>6. TriggerTypes'
  BY <1>1, <1>2, <1>3 DEF TriggersInv, TriggerTypes
<1>7. PassesAreSound'
  <2> SUFFICES ASSUME NEW d \in Evaluators
               PROVE  /\ pass'[d].pc = "idle" => pass'[d] = Rest
                      /\ pass'[d].now <= clock
                      /\ pass'[d].pc = "fire" => \A k \in Slots : pass'[d].copy[k] <= pass'[d].now
    BY <1>1 DEF PassesAreSound
  <2>1. CASE d = e
    BY <1>4, <1>5, <2>1 DEF TriggersInv, TriggerTypes, MarksAreSound, Minutes
  <2>2. CASE d # e
    BY <1>5, <2>2 DEF TriggersInv, PassesAreSound
  <2> QED BY <2>1, <2>2
<1>8. MarksAreSound' /\ FiresOnSchedule'
  BY <1>1 DEF TriggersInv, MarksAreSound, FiresOnSchedule
<1>9. OneByOne'
  <2> SUFFICES ASSUME ~upset'.overlap, upset'.raises = 0 PROVE OneByOne'
    BY DEF OneByOne
  <2>1. ~upset.overlap /\ upset.raises = 0 /\ Running = {}
    BY <1>3
  <2>2. \A d \in Evaluators : pass[d].pc = "idle"
    BY <2>1 DEF Running, Rest
  <2>3. /\ \A k \in Slots, m \in Minutes : fired[k][m] <= 1
        /\ Covers(marks)
    BY <2>1, <2>2 DEF TriggersInv, OneByOne
  <2>4. \A d \in Evaluators : pass'[d].pc = "fire" <=> d = e
    BY <1>4, <1>5, <2>2
  <2> QED BY <1>1, <1>4, <1>5, <2>3, <2>4 DEF OneByOne, Covers
<1> QED BY <1>6, <1>7, <1>8, <1>9 DEF TriggersInv

\* A trigger that is not due is passed.
LEMMA SkipKeeps == ASSUME TriggersInv, NEW e \in Evaluators, Skip(e) PROVE TriggersInv'
<1>1. PICK k : pass' = [pass EXCEPT ![e].todo = @ \ {k}]
  BY DEF Skip
<1>2. UNCHANGED <<clock, idle, marks, fired, upset>> /\ pass[e].pc = "fire"
  BY DEF Skip
<1> DEFINE frame == [pass[e] EXCEPT !.todo = pass[e].todo \ {k}]
<1>3. pass' = [pass EXCEPT ![e] = frame] /\ pass[e] \in PassFrame
  BY <1>1 DEF TriggersInv, TriggerTypes
<1>4. /\ frame \in PassFrame /\ frame.pc = "fire" /\ frame.now = pass[e].now
      /\ frame.copy = pass[e].copy /\ frame.modified = pass[e].modified
  BY <1>2, <1>3 DEF PassFrame
<1> HIDE DEF frame
<1>5. pass'[e] = frame /\ \A d \in Evaluators : d # e => pass'[d] = pass[d]
  BY <1>3 DEF TriggersInv, TriggerTypes
<1>6. \A d \in Evaluators :
        /\ pass'[d].pc = pass[d].pc /\ pass'[d].now = pass[d].now
        /\ pass'[d].copy = pass[d].copy /\ pass'[d].modified = pass[d].modified
        /\ pass[d].pc = "idle" => pass'[d] = pass[d]
  BY <1>2, <1>4, <1>5
<1>7. TriggerTypes'
  BY <1>2, <1>3, <1>4 DEF TriggersInv, TriggerTypes
<1>8. PassesAreSound'
  <2> SUFFICES ASSUME NEW d \in Evaluators
               PROVE  /\ pass'[d].pc = "idle" => pass'[d] = Rest
                      /\ pass'[d].now <= clock
                      /\ pass'[d].pc = "fire" => \A j \in Slots : pass'[d].copy[j] <= pass'[d].now
    BY <1>2 DEF PassesAreSound
  <2>1. /\ pass[d].pc = "idle" => pass[d] = Rest
        /\ pass[d].now <= clock
        /\ pass[d].pc = "fire" => \A j \in Slots : pass[d].copy[j] <= pass[d].now
    BY DEF TriggersInv, PassesAreSound
  <2>2. /\ pass'[d].pc = pass[d].pc /\ pass'[d].now = pass[d].now
        /\ pass'[d].copy = pass[d].copy
        /\ pass[d].pc = "idle" => pass'[d] = pass[d]
    BY <1>6
  <2> QED BY <2>1, <2>2
<1>9. MarksAreSound' /\ FiresOnSchedule'
  BY <1>2 DEF TriggersInv, MarksAreSound, FiresOnSchedule
<1>10. OneByOne'
  <2> SUFFICES ASSUME ~upset.overlap, upset.raises = 0 PROVE OneByOne'
    BY <1>2 DEF OneByOne
  <2>1. /\ \A j \in Slots, m \in Minutes : fired[j][m] <= 1
        /\ \A d \in Evaluators : pass[d].pc = "fire" => d = e
        /\ Covers(pass[e].copy) /\ (~pass[e].modified => pass[e].copy = marks)
    BY <1>2 DEF TriggersInv, OneByOne
  <2>2. \A d \in Evaluators : pass'[d].pc = "fire" <=> d = e
    BY <1>2, <1>6, <2>1
  <2>3. Covers(pass[e].copy)' /\ pass'[e].copy = pass[e].copy /\ pass'[e].modified = pass[e].modified
    BY <1>2, <1>6, <2>1 DEF Covers
  <2> QED BY <1>2, <2>1, <2>2, <2>3 DEF OneByOne
<1> QED BY <1>7, <1>8, <1>9, <1>10 DEF TriggersInv

\* A pass that ends by an exception: its raise is counted.
LEMMA RaiseKeeps == ASSUME TriggersInv, NEW e \in Evaluators, Raise(e) PROVE TriggersInv'
<1>1. /\ upset' = [upset EXCEPT !.raises = @ + 1] /\ pass' = [pass EXCEPT ![e] = Rest]
      /\ UNCHANGED <<clock, idle, marks, fired>>
  BY DEF Raise
<1>2. upset' \in [raises : Nat, edits : Nat, overlap : BOOLEAN] /\ upset'.raises # 0
  BY <1>1 DEF TriggersInv, TriggerTypes
<1>3. Rest \in PassFrame /\ Rest.pc = "idle" /\ Rest.now <= clock
  BY SchedulesTickInTime DEF Rest, PassFrame, Minutes, TriggersInv, TriggerTypes
<1>4. TriggerTypes'
  BY <1>1, <1>2, <1>3 DEF TriggersInv, TriggerTypes
<1>5. PassesAreSound'
  <2>1. \A d \in Evaluators : pass'[d] = IF d = e THEN Rest ELSE pass[d]
    BY <1>1 DEF TriggersInv, TriggerTypes
  <2> QED BY <1>1, <1>3, <2>1 DEF TriggersInv, PassesAreSound
<1>6. MarksAreSound' /\ FiresOnSchedule' /\ OneByOne'
  BY <1>1, <1>2 DEF TriggersInv, MarksAreSound, FiresOnSchedule, OneByOne
<1> QED BY <1>4, <1>5, <1>6 DEF TriggersInv

\* The marks of a pass become those of the row.
LEMMA SaveMarksKeeps ==
  ASSUME TriggersInv, NEW e \in Evaluators, SaveMarks(e)
  PROVE  TriggersInv'
<1>1. /\ pass[e].pc = "fire" /\ marks' = IF pass[e].modified THEN pass[e].copy ELSE marks
      /\ pass' = [pass EXCEPT ![e] = Rest] /\ UNCHANGED <<clock, idle, fired, upset>>
  BY DEF SaveMarks
<1>2. pass[e] \in PassFrame /\ pass[e].copy \in [Slots -> Minutes \cup {Never}]
  BY DEF TriggersInv, TriggerTypes, PassFrame
<1>3. Rest \in PassFrame /\ Rest.pc = "idle" /\ Rest.now <= clock
  BY SchedulesTickInTime DEF Rest, PassFrame, Minutes, TriggersInv, TriggerTypes
<1>4. \A d \in Evaluators : pass'[d] = IF d = e THEN Rest ELSE pass[d]
  BY <1>1 DEF TriggersInv, TriggerTypes
<1>5. TriggerTypes'
  BY <1>1, <1>2, <1>3 DEF TriggersInv, TriggerTypes
<1>6. PassesAreSound'
  BY <1>1, <1>3, <1>4 DEF TriggersInv, PassesAreSound
<1>7. MarksAreSound'
  <2> SUFFICES ASSUME NEW k \in Slots PROVE marks'[k] <= clock
    BY <1>1 DEF MarksAreSound
  <2>1. /\ pass[e].now \in Minutes /\ clock \in Minutes /\ pass[e].copy[k] \in Minutes \cup {Never}
        /\ pass[e].now <= clock /\ pass[e].copy[k] <= pass[e].now /\ marks[k] <= clock
    BY <1>1, <1>2 DEF TriggersInv, TriggerTypes, PassesAreSound, PassFrame, MarksAreSound
  <2> QED BY <1>1, <2>1 DEF Minutes, Never
<1>8. FiresOnSchedule'
  BY <1>1 DEF TriggersInv, FiresOnSchedule
<1>9. OneByOne'
  <2> SUFFICES ASSUME ~upset.overlap, upset.raises = 0 PROVE OneByOne'
    BY <1>1 DEF OneByOne
  <2>1. /\ \A k \in Slots, m \in Minutes : fired[k][m] <= 1
        /\ \A d \in Evaluators : pass[d].pc = "fire" => d = e
        /\ Covers(pass[e].copy) /\ (~pass[e].modified => pass[e].copy = marks)
    BY <1>1 DEF TriggersInv, OneByOne
  <2>2. \A d \in Evaluators : pass'[d].pc # "fire"
    BY <1>3, <1>4, <2>1
  <2>3. Covers(marks)'
    BY <1>1, <2>1 DEF Covers
  <2> QED BY <1>1, <2>1, <2>2, <2>3 DEF OneByOne
<1> QED BY <1>5, <1>6, <1>7, <1>8, <1>9 DEF TriggersInv

\* The tick that fires is after the mark, hence after all ticks that fired.
LEMMA FireKeeps == ASSUME TriggersInv, NEW e \in Evaluators, Fire(e) PROVE TriggersInv'
<1> DEFINE k == Earliest(pass[e].todo)
           tick == NextFire(k, pass[e].copy[k], pass[e].now)
           frame == [pass[e] EXCEPT !.todo = pass[e].todo \ {k}, !.modified = TRUE,
                                    !.copy = [pass[e].copy EXCEPT ![k] = pass[e].now]]
           count == IF fired[k][tick] < 2 THEN fired[k][tick] + 1 ELSE fired[k][tick]
<1>1. /\ pass[e].pc = "fire" /\ Due(k, pass[e].copy[k], pass[e].now)
      /\ UNCHANGED <<clock, idle, marks, upset>>
  BY DEF Fire
<1>2. /\ clock \in Minutes /\ pass[e] \in PassFrame /\ pass[e].now \in Minutes
      /\ pass[e].copy \in [Slots -> Minutes \cup {Never}]
      /\ fired \in [Slots -> [Minutes -> 0..2]] /\ pass \in [Evaluators -> PassFrame]
      /\ marks \in [Slots -> Minutes \cup {Never}]
      /\ upset \in [raises : Nat, edits : Nat, overlap : BOOLEAN]
  BY DEF TriggersInv, TriggerTypes, PassFrame
<1>3. pass' = [pass EXCEPT ![e] = frame]
  BY DEF Fire
<1>4. fired' = [fired EXCEPT ![k] = [fired[k] EXCEPT ![tick] = count]]
  BY <1>2 DEF Fire
<1>5. k \in Slots =>
        /\ tick \in Schedule[k] /\ tick \in Minutes /\ tick <= pass[e].now
        /\ pass[e].copy[k] # Never => tick > pass[e].copy[k]
  BY <1>1, <1>2, DueTick
<1> HIDE DEF k, tick
<1>6. /\ frame \in PassFrame /\ frame.pc = "fire" /\ frame.now = pass[e].now /\ frame.modified
      /\ frame.copy = [pass[e].copy EXCEPT ![k] = pass[e].now]
  <2>1. [pass[e].copy EXCEPT ![k] = pass[e].now] \in [Slots -> Minutes \cup {Never}]
    BY <1>2
  <2> QED BY <1>1, <1>2, <2>1 DEF PassFrame
<1> HIDE DEF frame
<1>7. \A d \in Evaluators : pass'[d] = IF d = e THEN frame ELSE pass[d]
  BY <1>2, <1>3
<1>8. /\ \A j \in Slots, m \in Minutes :
           fired'[j][m] = IF j = k /\ m = tick THEN count ELSE fired[j][m]
      /\ k \in Slots => fired[k][tick] \in 0..2
  <2>1. ASSUME NEW j \in Slots, NEW m \in Minutes
        PROVE  fired'[j][m] = IF j = k /\ m = tick THEN count ELSE fired[j][m]
    <3> HIDE DEF count
    <3>1. CASE j # k
      BY <1>2, <1>4, <3>1
    <3>2. CASE j = k
      <4>1. fired'[j] = [fired[j] EXCEPT ![tick] = count] /\ fired[j] \in [Minutes -> 0..2]
        BY <1>2, <1>4, <3>2
      <4> QED BY <1>5, <3>2, <4>1
    <3> QED BY <3>1, <3>2
  <2> QED BY <1>2, <1>5, <2>1
<1>9. \A j \in Slots : frame.copy[j] = IF j = k THEN pass[e].now ELSE pass[e].copy[j]
  BY <1>2, <1>6
<1>10. TriggerTypes'
  <2>1. fired' \in [Slots -> [Minutes -> 0..2]]
    <3>1. CASE k \in Slots
      <4>1. count \in 0..2
        BY <1>8, <3>1
      <4> HIDE DEF count
      <4> QED BY <1>2, <1>4, <3>1, <4>1
    <3>2. CASE k \notin Slots
      BY <1>2, <1>4, <3>2
    <3> QED BY <3>1, <3>2
  <2> QED BY <1>1, <1>2, <1>3, <1>6, <2>1 DEF TriggerTypes
<1>11. \A j \in Slots : /\ pass[e].copy[j] \in Minutes \cup {Never}
                        /\ pass[e].copy[j] <= pass[e].now /\ pass[e].now <= clock
  BY <1>1, <1>2 DEF TriggersInv, PassesAreSound
<1>12. PassesAreSound'
  <2> SUFFICES ASSUME NEW d \in Evaluators
               PROVE  /\ pass'[d].pc = "idle" => pass'[d] = Rest
                      /\ pass'[d].now <= clock
                      /\ pass'[d].pc = "fire" => \A j \in Slots : pass'[d].copy[j] <= pass'[d].now
    BY <1>1 DEF PassesAreSound
  <2>1. /\ pass[d].pc = "idle" => pass[d] = Rest
        /\ pass[d].now <= clock
        /\ pass[d].pc = "fire" => \A j \in Slots : pass[d].copy[j] <= pass[d].now
    BY DEF TriggersInv, PassesAreSound
  <2>2. CASE d = e
    BY <1>2, <1>6, <1>7, <1>9, <1>11, <2>1, <2>2 DEF Minutes
  <2>3. CASE d # e
    BY <1>7, <2>1, <2>3
  <2> QED BY <2>2, <2>3
<1>13. MarksAreSound'
  BY <1>1 DEF TriggersInv, MarksAreSound
<1>14. FiresOnSchedule'
  <2> SUFFICES ASSUME NEW j \in Slots, NEW m \in Minutes, fired'[j][m] > 0
               PROVE  m \in Schedule[j] /\ m <= clock
    BY <1>1 DEF FiresOnSchedule
  <2>1. CASE j = k /\ m = tick
    BY <1>2, <1>5, <1>11, <2>1 DEF Minutes
  <2>2. CASE ~(j = k /\ m = tick)
    BY <1>8, <2>2 DEF TriggersInv, FiresOnSchedule
  <2> QED BY <2>1, <2>2
<1>15. OneByOne'
  <2> SUFFICES ASSUME ~upset.overlap, upset.raises = 0 PROVE OneByOne'
    BY <1>1 DEF OneByOne
  <2>1. /\ \A j \in Slots, m \in Minutes : fired[j][m] <= 1
        /\ \A d \in Evaluators : pass[d].pc = "fire" => d = e
        /\ Covers(pass[e].copy)
    BY <1>1 DEF TriggersInv, OneByOne
  <2>2. \A d \in Evaluators : pass'[d].pc = "fire" <=> d = e
    BY <1>6, <1>7, <2>1
  <2>3. k \in Slots => fired[k][tick] = 0
    <3> SUFFICES ASSUME k \in Slots, fired[k][tick] # 0 PROVE FALSE
      OBVIOUS
    <3>1. tick <= pass[e].copy[k] /\ tick \in Minutes
      BY <1>5, <1>8, <2>1 DEF Covers
    <3> QED BY <1>2, <1>5, <3>1 DEF Minutes, Never
  <2>4. \A j \in Slots, m \in Minutes : fired'[j][m] <= 1
    BY <1>8, <2>1, <2>3
  <2>5. \A j \in Slots, m \in Minutes : fired'[j][m] > 0 => m <= frame.copy[j]
    <3> SUFFICES ASSUME NEW j \in Slots, NEW m \in Minutes, fired'[j][m] > 0
                 PROVE  m <= frame.copy[j]
      OBVIOUS
    <3>1. fired[j][m] > 0 => m <= pass[e].copy[j]
      BY <2>1 DEF Covers
    <3>2. CASE j = k /\ m = tick
      BY <1>5, <1>9, <3>2
    <3>3. CASE ~(j = k /\ m = tick)
      BY <1>2, <1>8, <1>9, <1>11, <3>1, <3>3 DEF Minutes, Never
    <3> QED BY <3>2, <3>3
  <2>6. pass'[e] = frame
    BY <1>7
  <2>7. Covers(pass[e].copy)'
    BY <2>5, <2>6 DEF Covers
  <2>8. \A d \in Evaluators : pass'[d].pc = "fire" =>
          /\ \A c \in Evaluators : pass'[c].pc = "fire" => c = d
          /\ Covers(pass[d].copy)'
          /\ ~pass'[d].modified => pass'[d].copy = marks'
    BY <1>6, <2>2, <2>6, <2>7
  <2>9. ~ \A d \in Evaluators : pass'[d].pc = "idle"
    BY <1>6, <2>6
  <2> QED BY <2>4, <2>8, <2>9 DEF OneByOne
<1> QED BY <1>10, <1>12, <1>13, <1>14, <1>15 DEF TriggersInv

-----------------------------------------------------------------------------
LEMMA TriggersStepKeeps == TriggersInv /\ [TriggersNext]_trigger_vars => TriggersInv'
<1> SUFFICES ASSUME TriggersInv, [TriggersNext]_trigger_vars PROVE TriggersInv'
  OBVIOUS
<1>1. ASSUME Minute \/ StatusChanges \/ EditTriggers PROVE TriggersInv'
  BY <1>1, TimeKeeps, EditKeeps
<1>2. ASSUME NEW e \in Evaluators, StartPass(e) \/ Skip(e) \/ Fire(e) \/ Raise(e) \/ SaveMarks(e)
      PROVE  TriggersInv'
  BY <1>2, StartKeeps, SkipKeeps, FireKeeps, RaiseKeeps, SaveMarksKeeps
<1>3. CASE UNCHANGED trigger_vars
  <2>1. UNCHANGED <<clock, idle, marks, pass, fired, upset>>
    BY <1>3 DEF trigger_vars
  <2> QED BY <2>1 DEF TriggersInv, TriggerTypes, PassesAreSound, MarksAreSound, FiresOnSchedule,
                      OneByOne, Covers
<1> QED BY <1>1, <1>2, <1>3 DEF TriggersNext

\* Any triggers, schedules and evaluators: a trigger fires only at ticks of its
\* schedule that have come, and once per tick as long as no pass overlaps another
\* or an edit of the list and no send raises (evaluate_triggers).
THEOREM TriggersCorrect == TriggersSpec => []TriggersKeepTime
<1>1. TriggersSpec => []TriggersInv
  BY TriggersInvInit, TriggersStepKeeps, PTL DEF TriggersSpec
<1>2. TriggersInv => TriggersKeepTime
  BY DEF TriggersInv, OneByOne, TriggersKeepTime, TickFiresOnce
<1> QED BY <1>1, <1>2, PTL

-----------------------------------------------------------------------------
\* The compute ledger

USE DEF Time, None

LEMMA RecordType ==
  ASSUME now \in Time, segments \subseteq Segment, NEW start \in Time \union {None}
  PROVE  Record(start) \subseteq Segment
  BY DEF Record, Segment

LEMMA ChargeType ==
  ASSUME TypeOK, NEW start \in Time \union {None}, start <= now
  PROVE  Charge(start) \in Nat
  BY DEF Charge, TypeOK

\* A closer's snapshot and the open period lie in the past.
Past == /\ deployed <= now
        /\ opened <= now
        /\ \A t \in Tasks : task[t].start <= now

LEMMA InitTypes == Init => TypeOK /\ Past
  BY LedgerAssumption DEF Init, TypeOK, Past, Consumer, Off, Idle, Task, Tasks, AllClosers

LEMMA StepTypes == TypeOK /\ Past /\ [Next]_vars => TypeOK' /\ Past'
  <1> SUFFICES ASSUME TypeOK, Past, [Next]_vars PROVE TypeOK' /\ Past'
    OBVIOUS
  <1> USE LedgerAssumption
  <1>0. /\ Idle \in Task /\ Idle.start = None
        /\ \A t \in Tasks : task[t] \in Task /\ task[t].start \in Time \union {None}
    BY DEF TypeOK, Idle, Task
  <1>1. CASE Tick
    BY <1>1 DEF Tick, TypeOK, Past, Task
  <1>2. CASE ConnectRead \/ ConnectSave \/ Ready \/ Disconnect
    <2>1. Off \in Consumer
      BY DEF Off, Consumer
    <2>2. ASSUME NEW a \in BOOLEAN, NEW b \in BOOLEAN
          PROVE  [pc |-> "auth", deploying |-> a, opens |-> b] \in Consumer
      BY DEF Consumer
    <2>3. /\ (status = "DEPLOYING") \in BOOLEAN
          /\ (status = "DEPLOYING" /\ deployed = None) \in BOOLEAN
      OBVIOUS
    <2>4. CASE ConnectRead
      <3>1. relay' \in Consumer
        BY <2>2, <2>3, <2>4, Zenon DEF ConnectRead
      <3> QED
        BY <2>4, <3>1 DEF ConnectRead, TypeOK, Past
    <2>5. CASE ConnectSave
      <3>1. relay' \in Consumer
        BY <2>5, Zenon DEF ConnectSave, TypeOK, Consumer
      <3> QED
        BY <2>5, <3>1 DEF ConnectSave, TypeOK, Past
    <2>6. CASE Ready
      <3>1. relay' \in Consumer
        BY <2>6, Zenon DEF Ready, TypeOK, Consumer
      <3> QED
        BY <2>6, <3>1 DEF Ready, TypeOK, Past
    <2>7. CASE Disconnect
      BY <2>7, <2>1 DEF Disconnect, TypeOK, Past
    <2> QED
      BY <1>2, <2>4, <2>5, <2>6, <2>7
  <1>3. CASE Fail
    BY <1>3 DEF Fail, TypeOK, Past
  <1>4. CASE Restart
    BY <1>4, RecordType, ChargeType DEF Restart, TypeOK, Past
  <1>5. CASE KillRead
    BY <1>5 DEF KillRead, TypeOK, Past, Task, AllClosers
  <1>6. CASE KillSegment
    <2>1. segments' \subseteq Segment
      BY <1>6, <1>0, RecordType DEF KillSegment, TypeOK, Tasks
    <2>2. task' \in [Tasks -> Task] /\ \A t \in Tasks : task'[t].start <= now
      <3>1. task["kill"] \in Task /\ "kill" \in Tasks
        BY <1>0 DEF Tasks
      <3>2. CASE task' = [task EXCEPT !["kill"].pc = "write"]
        BY <3>1, <3>2 DEF TypeOK, Past, Task
      <3>3. CASE task' = [task EXCEPT !["kill"] = Idle]
        BY <3>1, <3>3, <1>0 DEF TypeOK, Past
      <3> QED
        BY <1>6, <3>2, <3>3 DEF KillSegment
    <2> QED
      BY <1>6, <2>1, <2>2 DEF KillSegment, TypeOK, Past
  <1>7. CASE KillWrite
    <2>1. compute' \in Nat
      BY <1>7, <1>0, ChargeType DEF KillWrite, TypeOK, Past, Tasks
    <2>2. task' \in [Tasks -> Task] /\ \A t \in Tasks : task'[t].start <= now
      BY <1>7, <1>0 DEF KillWrite, TypeOK, Past, Tasks
    <2> QED
      BY <1>7, <2>1, <2>2 DEF KillWrite, TypeOK, Past
  <1>8. ASSUME NEW t \in Tasks, NEW kind \in Closers, MarkRead(t, kind)
        PROVE  TypeOK' /\ Past'
    BY <1>8 DEF MarkRead, TypeOK, Past, Task
  <1>9. ASSUME NEW t \in Tasks, MarkCharge(t) PROVE TypeOK' /\ Past'
    <2>1. compute' \in Nat
      BY <1>9, <1>0, ChargeType DEF MarkCharge, TypeOK, Past
    <2>2. task' \in [Tasks -> Task] /\ \A u \in Tasks : task'[u].start <= now
      BY <1>9, <1>0 DEF MarkCharge, TypeOK, Past, Task
    <2> QED
      BY <1>9, <2>1, <2>2 DEF MarkCharge, TypeOK, Past
  <1>10. ASSUME NEW t \in Tasks, MarkSegment(t) PROVE TypeOK' /\ Past'
    <2>1. segments' \subseteq Segment
      BY <1>10, <1>0, RecordType DEF MarkSegment, TypeOK
    <2>2. task' \in [Tasks -> Task] /\ \A u \in Tasks : task'[u].start <= now
      BY <1>10, <1>0 DEF MarkSegment, TypeOK, Past, Task
    <2> QED
      BY <1>10, <2>1, <2>2 DEF MarkSegment, TypeOK, Past
  <1>11. ASSUME NEW t \in Tasks, MarkWrite(t) PROVE TypeOK' /\ Past'
    BY <1>11, <1>0 DEF MarkWrite, TypeOK, Past
  <1>12. CASE UNCHANGED vars
    BY <1>12 DEF vars, TypeOK, Past
  <1> QED
    BY <1>1, <1>2, <1>3, <1>4, <1>5, <1>6, <1>7, <1>8, <1>9, <1>10, <1>11, <1>12
    DEF Next

\* Charges are never negative and every segment starts and ends within the
\* life of the agent.  Inductive with the snapshots lying in the past.
THEOREM LedgerTypeCorrect == Spec => []TypeOK
  BY InitTypes, StepTypes, PTL DEF Spec

-----------------------------------------------------------------------------
\* Beside the restart the reconciler is the only closer: no kill, no proxy.
Sweeping == Closers \subseteq {"restart", "unavailable", "reap", "fail"}
SweepNext ==
  \/ Tick \/ ConnectRead \/ ConnectSave \/ Ready \/ Disconnect \/ Fail \/ Restart
  \/ KillSegment \/ KillWrite
  \/ \E kind \in Closers : MarkRead("reconciler", kind)
  \/ \E t \in Tasks : MarkCharge(t) \/ MarkSegment(t) \/ MarkWrite(t)

Recorded(s) == \E g \in segments : g.start = s

\* The open period is the last one, and a consumer that will open one finds none.
OnePeriod ==
  /\ deployed # None => deployed = opened
  /\ relay.pc = "auth" /\ relay.opens => deployed = None
  /\ opened <= now

\* Only the segment of the last period may reach beyond its start.
SegmentsInOrder ==
  \A g \in segments : /\ g.end <= now
                      /\ g.start = opened \/ g.end <= opened

\* A period the reconciler is about to record is open, or it has its segment.
ToRecord == \/ task["reconciler"].pc = "segment"
            \/ task["reconciler"].pc = "charge" /\ task["reconciler"].kind # "reap"
ReadIsOpen ==
  /\ \A t \in {"kill", "vnc"} : task[t] = Idle
  /\ ToRecord => \/ task["reconciler"].start \in {None, deployed}
                 \/ Recorded(task["reconciler"].start)

SweepInv == OnePeriod /\ SegmentsInOrder /\ ReadIsOpen /\ SegmentsDisjoint

LEMMA RecordInOrder ==
  ASSUME TypeOK, SweepInv, NEW s \in Time \cup {None}, s \in {None, deployed} \/ Recorded(s)
  PROVE  /\ \A g \in Record(s) : g.end <= now /\ (g.start = opened \/ g.end <= opened)
         /\ \A g, h \in Record(s) : g # h => g.end <= h.start \/ h.end <= g.start
         /\ s # None => \E g \in Record(s) : g.start = s
         /\ segments \subseteq Record(s)
<1> DEFINE new == [start |-> s, end |-> now]
<1>0. /\ now \in Nat /\ opened \in Nat /\ segments \subseteq Segment
      /\ \A g \in segments : g.start \in Nat /\ g.end \in Nat
  BY LedgerAssumption DEF TypeOK, Segment
<1>1. CASE s = None \/ Recorded(s)
  BY <1>1 DEF Record, Recorded, SweepInv, SegmentsInOrder, SegmentsDisjoint
<1>2. CASE s # None /\ ~Recorded(s)
  <2>1. s = deployed /\ s = opened
    BY <1>2 DEF SweepInv, OnePeriod
  <2>2. Record(s) = segments \cup {new}
    BY <1>2 DEF Record, Recorded
  <2>3. new.start = opened /\ new.end = now
    BY <2>1
  <2> HIDE DEF new
  <2>4. \A g \in segments : g.end <= opened /\ g.end <= now
    BY <1>2, <2>1 DEF SweepInv, SegmentsInOrder, Recorded
  <2>5. \A g, h \in segments : g # h => g.end <= h.start \/ h.end <= g.start
    BY DEF SweepInv, SegmentsDisjoint
  <2> QED BY <1>0, <2>1, <2>2, <2>3, <2>4, <2>5
<1> QED BY <1>1, <1>2

LEMMA SweepStart == Init => SweepInv
<1> SUFFICES ASSUME Init PROVE SweepInv
  OBVIOUS
<1>1. Idle.pc = "idle" /\ Off.pc = "off"
  BY DEF Idle, Off
<1>2. \A t \in Tasks : task[t] = Idle
  BY DEF Init
<1> QED BY <1>1, <1>2 DEF Init, SweepInv, OnePeriod, SegmentsInOrder, ReadIsOpen, ToRecord,
                          SegmentsDisjoint, Tasks

LEMMA SweepStep ==
  ASSUME TypeOK, SweepInv, [SweepNext]_vars PROVE SweepInv'
<1> DEFINE rec == task["reconciler"]
<1>0. /\ now \in Nat /\ opened \in Nat /\ deployed \in Time \cup {None} /\ segments \subseteq Segment
      /\ \A g \in segments : g.start \in Nat /\ g.end \in Nat
      /\ relay \in Consumer /\ task \in [Tasks -> Task] /\ rec \in Task /\ rec.start \in Time \cup {None}
      /\ OnePeriod /\ SegmentsInOrder /\ ReadIsOpen /\ SegmentsDisjoint
      /\ Idle \in Task /\ Idle.pc = "idle" /\ Off.pc = "off"
  BY LedgerAssumption DEF TypeOK, Segment, Task, Tasks, Idle, Off, SweepInv
<1>1. CASE Tick
  BY <1>0, <1>1 DEF Tick, SweepInv, OnePeriod, SegmentsInOrder, ReadIsOpen, ToRecord, Recorded,
                    SegmentsDisjoint
<1>2. CASE ConnectRead \/ Ready \/ Disconnect
  <2>1. relay'.pc = "auth" /\ relay'.opens => deployed = None
    <3>1. CASE ConnectRead
      <4>1. /\ relay'.pc = "auth"
            /\ relay'.opens = (status = "DEPLOYING" /\ deployed = None)
        BY <3>1 DEF ConnectRead
      <4> QED BY <4>1
    <3>2. CASE Ready
      <4>1. relay'.pc = "open"
        BY <1>0, <3>2 DEF Ready, Consumer
      <4> QED BY <4>1
    <3>3. CASE Disconnect
      BY <1>0, <3>3 DEF Disconnect
    <3> QED BY <1>2, <3>1, <3>2, <3>3
  <2>2. UNCHANGED <<now, deployed, opened, segments, task>>
    BY <1>2 DEF ConnectRead, Ready, Disconnect
  <2> QED BY <1>0, <2>1, <2>2 DEF SweepInv, OnePeriod, SegmentsInOrder, ReadIsOpen, ToRecord, Recorded,
                                  SegmentsDisjoint
<1>3. CASE ConnectSave
  <2>1. relay'.pc = "open" /\ UNCHANGED <<now, segments, task>>
    BY <1>0, <1>3 DEF ConnectSave, Consumer
  <2>2. CASE relay.opens
    <3>1. deployed = None /\ now > opened /\ deployed' = now /\ opened' = now
      BY <1>0, <1>3, <2>2 DEF ConnectSave, OnePeriod
    <3>2. OnePeriod' /\ SegmentsInOrder'
      BY <1>0, <2>1, <3>1 DEF OnePeriod, SegmentsInOrder
    <3> QED BY <1>0, <2>1, <3>1, <3>2 DEF SweepInv, ReadIsOpen, ToRecord, Recorded, SegmentsDisjoint
  <2>3. CASE ~relay.opens
    <3>1. UNCHANGED <<deployed, opened>>
      BY <1>3, <2>3 DEF ConnectSave
    <3> QED BY <1>0, <2>1, <3>1 DEF SweepInv, OnePeriod, SegmentsInOrder, ReadIsOpen, ToRecord, Recorded,
                                    SegmentsDisjoint
  <2> QED BY <2>2, <2>3
<1>4. CASE Fail
  BY <1>0, <1>4 DEF Fail, SweepInv, OnePeriod, SegmentsInOrder, ReadIsOpen, ToRecord, Recorded,
                    SegmentsDisjoint
<1>5. CASE Restart
  <2>1. /\ segments' = Record(deployed) /\ deployed' = None
        /\ UNCHANGED <<now, opened, relay, task>>
    BY <1>5 DEF Restart
  <2>2. /\ \A g \in Record(deployed) : g.end <= now /\ (g.start = opened \/ g.end <= opened)
        /\ \A g, h \in Record(deployed) : g # h => g.end <= h.start \/ h.end <= g.start
        /\ deployed # None => \E g \in Record(deployed) : g.start = deployed
        /\ segments \subseteq Record(deployed)
    <3>1. deployed \in Time \cup {None} /\ deployed \in {None, deployed}
      BY <1>0
    <3> QED BY <3>1, RecordInOrder
  <2>3. OnePeriod' /\ SegmentsInOrder' /\ SegmentsDisjoint'
    BY <1>0, <2>1, <2>2 DEF OnePeriod, SegmentsInOrder, SegmentsDisjoint
  <2>4. Recorded(rec.start) => Recorded(rec.start)'
    BY <2>1, <2>2 DEF Recorded
  <2>5. ReadIsOpen'
    <3>1. ToRecord' => ToRecord /\ rec' = rec
      BY <2>1 DEF ToRecord
    <3>2. ASSUME ToRecord PROVE rec.start \in {None} \/ Recorded(rec.start)'
      <4>1. rec.start = None \/ rec.start = deployed \/ Recorded(rec.start)
        BY <1>0, <3>2 DEF ReadIsOpen
      <4>2. CASE rec.start = deployed /\ deployed # None
        BY <2>1, <2>2, <4>2 DEF Recorded
      <4> QED BY <2>4, <4>1, <4>2
    <3> QED BY <1>0, <2>1, <3>1, <3>2 DEF ReadIsOpen, Recorded
  <2> QED BY <2>3, <2>5 DEF SweepInv
<1>6. CASE KillSegment \/ KillWrite
  BY <1>0, <1>6 DEF KillSegment, KillWrite, ReadIsOpen
<1>7. ASSUME NEW kind \in Closers, MarkRead("reconciler", kind) PROVE SweepInv'
  <2> DEFINE read == [pc |-> "charge", kind |-> kind, start |-> deployed, legal |-> TRUE]
  <2>2. task' = [task EXCEPT !["reconciler"] = read] /\ read.start = deployed
    BY <1>7 DEF MarkRead
  <2> HIDE DEF read
  <2>3. /\ task'["reconciler"] = read /\ task'["kill"] = task["kill"] /\ task'["vnc"] = task["vnc"]
        /\ UNCHANGED <<now, deployed, opened, segments, relay>>
    BY <1>0, <1>7, <2>2 DEF MarkRead, Tasks
  <2> QED BY <1>0, <2>2, <2>3 DEF SweepInv, OnePeriod, SegmentsInOrder, ReadIsOpen, ToRecord, Recorded,
                                  SegmentsDisjoint
<1>8. ASSUME NEW t \in Tasks, MarkCharge(t) PROVE SweepInv'
  <2>1. t = "reconciler"
    BY <1>0, <1>8 DEF MarkCharge, ReadIsOpen, Tasks
  <2>2. /\ task'["kill"] = task["kill"] /\ task'["vnc"] = task["vnc"]
        /\ task'["reconciler"].start = rec.start
        /\ ToRecord' => ToRecord
    BY <1>0, <1>8, <2>1 DEF MarkCharge, Tasks, Task, ToRecord
  <2>3. UNCHANGED <<now, deployed, opened, segments, relay>>
    BY <1>8 DEF MarkCharge
  <2> QED BY <1>0, <2>2, <2>3 DEF SweepInv, OnePeriod, SegmentsInOrder, ReadIsOpen, Recorded, SegmentsDisjoint
<1>9. ASSUME NEW t \in Tasks, MarkSegment(t) PROVE SweepInv'
  <2>1. t = "reconciler"
    BY <1>0, <1>9 DEF MarkSegment, ReadIsOpen, Tasks
  <2>2. /\ task'["kill"] = task["kill"] /\ task'["vnc"] = task["vnc"]
        /\ task'["reconciler"].pc = "write"
        /\ segments' = Record(rec.start) /\ UNCHANGED <<now, deployed, opened, relay>>
    BY <1>0, <1>9, <2>1 DEF MarkSegment, Tasks, Task
  <2>3. rec.start \in {None, deployed} \/ Recorded(rec.start)
    BY <1>0, <1>9, <2>1 DEF MarkSegment, ReadIsOpen, ToRecord
  <2> HIDE DEF rec
  <2>4. /\ \A g \in segments' : g.end <= now /\ (g.start = opened \/ g.end <= opened)
        /\ SegmentsDisjoint'
    BY <1>0, <2>2, <2>3, RecordInOrder DEF SegmentsDisjoint
  <2>5. OnePeriod' /\ SegmentsInOrder'
    BY <1>0, <2>2, <2>4 DEF OnePeriod, SegmentsInOrder
  <2>6. ReadIsOpen'
    BY <1>0, <2>2 DEF ReadIsOpen, ToRecord
  <2> QED BY <2>4, <2>5, <2>6 DEF SweepInv
<1>10. ASSUME NEW t \in Tasks, MarkWrite(t) PROVE SweepInv'
  <2>1. t = "reconciler"
    BY <1>0, <1>10 DEF MarkWrite, ReadIsOpen, Tasks
  <2>2. /\ task'["kill"] = task["kill"] /\ task'["vnc"] = task["vnc"] /\ task'["reconciler"] = Idle
        /\ deployed' = None /\ UNCHANGED <<now, opened, segments, relay>>
    BY <1>0, <1>10, <2>1 DEF MarkWrite, Tasks
  <2> QED BY <1>0, <2>2 DEF SweepInv, OnePeriod, SegmentsInOrder, ReadIsOpen, ToRecord, SegmentsDisjoint
<1>11. CASE UNCHANGED vars
  BY <1>0, <1>11 DEF vars, SweepInv, OnePeriod, SegmentsInOrder, ReadIsOpen, ToRecord, Recorded,
                     SegmentsDisjoint
<1> QED BY <1>1, <1>2, <1>3, <1>4, <1>5, <1>6, <1>7, <1>8, <1>9, <1>10, <1>11 DEF SweepNext

\* While only restarts and the reconciler close periods, no second of an agent's
\* life is in two segments, however stale the row the reconciler read.
THEOREM SweepsDisjoint ==
  ASSUME Sweeping PROVE Spec => []SegmentsDisjoint
<1>1. TypeOK /\ SweepInv /\ [Next]_vars => SweepInv'
  <2>1. ASSUME NEW t \in Tasks, NEW kind \in Closers, MarkRead(t, kind) PROVE t = "reconciler"
    BY <2>1 DEF MarkRead, Suspected, Sweeping
  <2>2. ~KillRead
    BY DEF KillRead, Sweeping
  <2>3. Next => SweepNext
    BY <2>1, <2>2 DEF Next, SweepNext
  <2> QED BY <2>3, SweepStep
<1>2. Spec => [](TypeOK /\ SweepInv)
  BY <1>1, SweepStart, LedgerTypeCorrect, PTL DEF Spec
<1>3. SweepInv => SegmentsDisjoint
  BY DEF SweepInv
<1> QED BY <1>2, <1>3, PTL

\* The same for the sweeps of the composition, in which kills and the proxy exist but
\* belong to another part: mark_agent_runtime_unavailable and _mark_stopped of the
\* reconciler, restarts and failed deploys never put a second into two segments.
THEOREM TeamSweepsDisjoint == TeamSpec => []SweepsKeepSegmentsDisjoint
<1> DEFINE Inv == TypeOK /\ Past /\ (part = "sweeps" => SweepInv)
           team_vars == <<board_vars, msg_vars, trigger_vars, vars, part>>
<1>1. TeamInit => Inv
  BY InitTypes, SweepStart DEF TeamInit
<1>2. Inv /\ [TeamNext]_team_vars => Inv'
  <2> SUFFICES ASSUME Inv, [TeamNext]_team_vars PROVE Inv'
    OBVIOUS
  <2>1. LedgerPart => /\ Next
                      /\ part = "sweeps" => SweepNext
    <3>1. "reconciler" \in Tasks /\ "vnc" \in Tasks
      BY DEF Tasks
    <3>2. \A t, kind : MarkRead(t, kind) => kind \in Closers
      BY DEF MarkRead
    <3> QED BY <3>1, <3>2 DEF LedgerPart, Next, SweepNext
  <2>2. part' = part /\ [Next]_vars /\ (part = "sweeps" => [SweepNext]_vars)
    BY <2>1 DEF TeamNext
  <2>3. TypeOK' /\ Past'
    BY <2>2, StepTypes
  <2>4. part = "sweeps" => SweepInv'
    BY <2>2, SweepStep
  <2> QED BY <2>2, <2>3, <2>4
<1>3. Inv => SweepsKeepSegmentsDisjoint
  BY DEF SweepsKeepSegmentsDisjoint, SweepInv
<1> QED BY <1>1, <1>2, <1>3, PTL DEF TeamSpec
=============================================================================
