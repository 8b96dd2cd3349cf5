------------------------------ MODULE Triggers ------------------------------
(***************************************************************************)
(* Cron triggers (management/commands/run_triggers.py).  Two evaluators may*)
(* run: the loop of the command and the cron job in production.  A pass    *)
(* reads the idle agents once, sends the messages that are due one after   *)
(* the other and saves the whole trigger list of an agent at the end;      *)
(* update_agent_config may replace that list meanwhile.  One agent is      *)
(* modelled, and the raise of a send for another agent of the pass.        *)
(***************************************************************************)
EXTENDS Integers, FiniteSets

CONSTANTS
  Slots,       \* triggers in the list of the agent
  Schedule,    \* [Slots -> minutes at which the schedule of a trigger ticks]
  MaxMinute,   \* bound: length of a behaviour in minutes
  MaxRaises,   \* bound: sends that raise
  MaxEdits,    \* bound: edits of the list
  Evaluators

Minutes == 0..MaxMinute
ASSUME SchedulesTickInTime == MaxMinute \in Nat /\ Schedule \in [Slots -> SUBSET Minutes]
Never == -1  \* no last_triggered_at

VARIABLES
  clock,    \* minutes
  idle,     \* Agent.status is IDLE
  marks,    \* last_triggered_at, [Slots -> Minutes \cup {Never}]
  pass,     \* [Evaluators -> frame]
  fired,    \* messages sent for each tick, counted up to 2
  upset     \* raises and edits so far; whether writers overlapped

trigger_vars == <<clock, idle, marks, pass, fired, upset>>

Rest == [pc |-> "idle", now |-> 0, copy |-> [k \in Slots |-> Never], todo |-> {}, modified |-> FALSE]

TriggersInit ==
  /\ clock = 0 /\ idle = TRUE
  /\ marks = [k \in Slots |-> Never]
  /\ pass = [e \in Evaluators |-> Rest]
  /\ fired = [k \in Slots |-> [m \in Minutes |-> 0]]
  /\ upset = [raises |-> 0, edits |-> 0, overlap |-> FALSE]

Running == {e \in Evaluators : pass[e] # Rest}

-----------------------------------------------------------------------------
Minute ==
  /\ clock < MaxMinute /\ clock' = clock + 1
  /\ UNCHANGED <<idle, marks, pass, fired, upset>>

\* The agent takes up and finishes turns.
StatusChanges ==
  /\ idle' = ~idle
  /\ UNCHANGED <<clock, marks, pass, fired, upset>>

\* The first tick after last_triggered_at, without one after two minutes ago.
NextFire(k, last, now) ==
  LET after == IF last = Never THEN now - 2 ELSE last
      ticks == {m \in Schedule[k] : m > after}
  IN IF ticks = {} THEN MaxMinute + 1 ELSE CHOOSE m \in ticks : \A n \in ticks : m <= n

Due(k, last, now) == NextFire(k, last, now) <= now

\* evaluate_triggers: one query for the idle agents that have triggers.
StartPass(e) ==
  /\ pass[e] = Rest /\ idle
  /\ pass' = [pass EXCEPT ![e] = [pc |-> "fire", now |-> clock, copy |-> marks,
                                  todo |-> Slots, modified |-> FALSE]]
  /\ upset' = [upset EXCEPT !.overlap = @ \/ Running # {}]
  /\ UNCHANGED <<clock, idle, marks, fired>>

\* The triggers in the order of the list; those that are not due are passed.
Earliest(S) == CHOOSE k \in S : \A j \in S : k <= j

Skip(e) ==
  /\ pass[e].pc = "fire" /\ pass[e].todo # {}
  /\ LET k == Earliest(pass[e].todo) IN
       /\ ~Due(k, pass[e].copy[k], pass[e].now)
       /\ pass' = [pass EXCEPT ![e].todo = @ \ {k}]
  /\ UNCHANGED <<clock, idle, marks, fired, upset>>

\* send_message went through: the mark is set in the copy.
Fire(e) ==
  /\ pass[e].pc = "fire" /\ pass[e].todo # {}
  /\ LET k == Earliest(pass[e].todo)
         tick == NextFire(k, pass[e].copy[k], pass[e].now)
     IN /\ Due(k, pass[e].copy[k], pass[e].now)
        /\ fired' = [fired EXCEPT ![k][tick] = IF @ < 2 THEN @ + 1 ELSE @]
        /\ pass' = [pass EXCEPT ![e] =
             [pass[e] EXCEPT !.todo = pass[e].todo \ {k}, !.modified = TRUE,
                             !.copy = [pass[e].copy EXCEPT ![k] = pass[e].now]]]
  /\ UNCHANGED <<clock, idle, marks, upset>>

\* send_message raises, here or for another agent: the pass ends and the
\* marks in its copy are lost with it.
Raise(e) ==
  /\ pass[e].pc = "fire" /\ pass[e].todo # {}
  /\ upset.raises < MaxRaises
  /\ upset' = [upset EXCEPT !.raises = @ + 1]
  /\ pass' = [pass EXCEPT ![e] = Rest]
  /\ UNCHANGED <<clock, idle, marks, fired>>

\* Mutant: the marks are saved only when every trigger of the list fired.
SaveMarks_AllOrNothing(e) ==
  /\ pass[e].pc = "fire" /\ pass[e].todo = {}
  /\ marks' = IF \A k \in Slots : pass[e].copy[k] = pass[e].now THEN pass[e].copy ELSE marks
  /\ pass' = [pass EXCEPT ![e] = Rest]
  /\ UNCHANGED <<clock, idle, fired, upset>>

\* asave(update_fields=["triggers"]) writes the whole list of the copy.
SaveMarks(e) ==
  /\ pass[e].pc = "fire" /\ pass[e].todo = {}
  /\ marks' = IF pass[e].modified THEN pass[e].copy ELSE marks
  /\ pass' = [pass EXCEPT ![e] = Rest]
  /\ UNCHANGED <<clock, idle, fired, upset>>

\* update_agent_config replaces the list by the input of the user, in which
\* a trigger may have lost its mark.
EditTriggers ==
  /\ upset.edits < MaxEdits
  /\ \E S \in SUBSET Slots \ {{}} :
       marks' = [k \in Slots |-> IF k \in S THEN Never ELSE marks[k]]
  /\ upset' = [upset EXCEPT !.overlap = TRUE, !.edits = @ + 1]
  /\ UNCHANGED <<clock, idle, pass, fired>>

TriggersNext ==
  \/ Minute \/ StatusChanges \/ EditTriggers
  \/ \E e \in Evaluators : StartPass(e) \/ Skip(e) \/ Fire(e) \/ Raise(e) \/ SaveMarks(e)

TriggersSpec == TriggersInit /\ [][TriggersNext]_trigger_vars

-----------------------------------------------------------------------------
(* One tick of a schedule sends one message: later passes see the mark, as  *)
(* long as no pass overlaps another or an edit of the list, and no send     *)
(* raises after another went through (evaluate_triggers).                   *)
TickFiresOnce ==
  ~upset.overlap /\ upset.raises = 0
    => \A k \in Slots, m \in Minutes : fired[k][m] <= 1

(* A trigger never fires ahead of its schedule.                             *)
FiresOnSchedule ==
  \A k \in Slots, m \in Minutes : fired[k][m] > 0 => m \in Schedule[k] /\ m <= clock

\* A trigger fires when it is due and once for each of its ticks.
TriggersKeepTime == TickFiresOnce /\ FiresOnSchedule
=============================================================================
