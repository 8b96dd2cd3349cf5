----------------------------- MODULE RecordsProofs -----------------------------
(***************************************************************************)
(* Proofs about the records of the backend, one part after the other: the  *)
(* GDA control plane, the configuration of a machine, and the evidence     *)
(* about a task; and about the terminals, the last part of the same runs.  *)
(* The parts share nothing but this module.                                *)
(***************************************************************************)
EXTENDS GoalControl, MachineConfig, TaskEvidence, Terminals, TLAPS, WellFoundedInduction


-----------------------------------------------------------------------------
(***************************************************************************)
(* The control plane, for any number of versions, proposals, reports and   *)
(* workers: what is said of a commitment was recorded, what is recorded is *)
(* never taken back, and a report that broke off does not stand in its own *)
(* way.                                                                    *)
(*                                                                         *)
(* The inductive invariant needs little beside the properties: a terminal  *)
(* commitment carries a reason, so that no later report can give it one,   *)
(* and a report that broke off has its execution.  Every step either       *)
(* leaves executions and answers alone or is a report; Moves says what     *)
(* both do to the commitments.                                             *)
(***************************************************************************)

Statuses == Terminals \cup {Absent, "proposed", "active"}
Reasons == {"outcome_mismatch", "execution_status", "missing_observation", "completed"}

Commitment == [status : Statuses, wants : Proposals, opened : {NotGiven, 1},
               closed : {NotGiven} \cup {r.done : r \in Reports}, reason : Reasons \cup {""}]
Plan == [status : {Absent, "ready", "running"}, objective : Objectives \cup {{}},
         boundary : Boundaries \cup {[caps |-> cs, strict |-> FALSE] :
                                       cs \in {{}} \cup {{p.cap} : p \in Proposals}},
         version : Versions \cup {NotGiven}, facts : Facts \cup {NoPlan.facts}]

GoalTypes ==
  /\ plan \in Plan
  /\ entries \in [Dimensions -> Values \cup {NoEntry}]
  /\ commitments \in [Versions -> Commitment]
  /\ DOMAIN evidence = ObservationIds
  /\ DOMAIN executions = Invocations
  /\ assigned \in [Versions -> Workers \cup {Nobody}]
  /\ answers \subseteq Reports /\ unfinished \subseteq Reports \X Nat

TerminalHasReason ==
  \A c \in Versions : commitments[c].status \in Terminals => commitments[c].reason # ""

ExecutionsHaveCommitments ==
  \A i \in Invocations : executions[i].com # NotGiven =>
      executions[i].com \in Versions /\ Exists(executions[i].com)

AnsweredIsRecorded == \A r \in answers : executions[r.inv] # NoExecution

\* A report that broke off has its execution, and it can be sent again.
Begun(b) == executions[b[1].inv] # NoExecution /\ Taken(b[1], b[2]) \subseteq Observations
UnfinishedIsBegun == \A b \in unfinished : Begun(b)
Retriable(b) ==
  LET r == b[1] IN
  /\ executions[r.inv] = Execution(r) \/ Appeared(r)
  /\ \A o \in Taken(r, b[2]) : o.at # NotGiven => evidence[o.id] = Row(o)

GoalInv ==
  /\ GoalTypes /\ TerminalHasReason /\ ExecutionsHaveCommitments /\ AnsweredIsRecorded
  /\ SatisfiedForCause /\ AnsweredIsClosed
  /\ UnfinishedIsBegun /\ BrokenOffCanBeRetried

-----------------------------------------------------------------------------
\* What a step may do to commitments and evidence.

\* A commitment keeps its proposal once it is closed, and only a report closes.
CommitmentMoves(c) ==
  /\ Exists(c) => commitments'[c].status # Absent
  /\ commitments[c].status \in Terminals =>
       /\ commitments'[c].status = commitments[c].status
       /\ commitments'[c].reason = commitments[c].reason
       /\ commitments'[c].wants = commitments[c].wants
       /\ commitments[c].closed \in {NotGiven, commitments'[c].closed}
  /\ commitments'[c].status \in Terminals => commitments'[c].reason # ""

Moves == \A c \in Versions : CommitmentMoves(c)

\* No commitment is closed by this step.
NoneCloses ==
  \A c \in Versions : commitments'[c].status \in Terminals => commitments[c].status \in Terminals

EvidenceGrows ==
  /\ DOMAIN evidence' = ObservationIds
  /\ \A id \in ObservationIds : evidence[id] \in {NoObservation, evidence'[id]}

-----------------------------------------------------------------------------
\* An observation is admitted beside an equal one, or where there is none.
LEMMA AdmissionGrows ==
  ASSUME GoalInv, NEW obs \in SUBSET Observations, \A o \in obs : MayAdmit(o),
         \A o, p \in obs : o.id = p.id => Row(o) = Row(p), Admit(obs)
  PROVE  /\ EvidenceGrows
         /\ \A o \in obs : evidence'[o.id] = Row(o)
<1>1. ASSUME NEW id \in ObservationIds
      PROVE  \/ evidence'[id] = evidence[id] /\ \A o \in obs : o.id # id
             \/ \E o \in obs : o.id = id /\ evidence'[id] = Row(o)
  <2>1. CASE \E o \in obs : o.id = id
    <3> DEFINE w == CHOOSE o \in obs : o.id = id
    <3>1. w \in obs /\ w.id = id
      BY <2>1
    <3>2. evidence'[id] = Row(w)
      BY <2>1 DEF Admit
    <3> QED BY <3>1, <3>2
  <2>2. CASE ~ \E o \in obs : o.id = id
    BY <2>2 DEF Admit
  <2> QED BY <2>1, <2>2
<1>2. EvidenceGrows
  <2>1. DOMAIN evidence' = ObservationIds
    BY DEF Admit
  <2>2. ASSUME NEW id \in ObservationIds PROVE evidence[id] \in {NoObservation, evidence'[id]}
    <3>1. CASE evidence'[id] = evidence[id]
      BY <3>1
    <3>2. ASSUME NEW o \in obs, o.id = id, evidence'[id] = Row(o)
          PROVE  evidence[id] \in {NoObservation, evidence'[id]}
      BY <3>2 DEF MayAdmit
    <3> QED BY <1>1, <3>1, <3>2
  <2> QED BY <2>1, <2>2 DEF EvidenceGrows
<1>3. ASSUME NEW o \in obs PROVE evidence'[o.id] = Row(o)
  <2>1. o.id \in ObservationIds
    BY DEF ObservationIds
  <2>2. PICK p \in obs : p.id = o.id /\ evidence'[o.id] = Row(p)
    BY <1>1, <2>1
  <2> QED BY <2>2
<1> QED BY <1>2, <1>3

\* The line of an observation with its own time does not depend on the clock.
LEMMA OwnRowStays ==
  ASSUME NEW o, o.at # NotGiven PROVE Row(o)' = Row(o) /\ Row(o) # NoObservation
BY DEF Row, NoObservation

LEMMA TakenAreObservations ==
  ASSUME NEW r \in Reports, NEW n \in 0..Len(r.obs) PROVE Taken(r, n) \subseteq Observations
<1>1. r.obs \in Seq(Range(r.obs))
  BY GoalConstants
<1>2. \A i \in 1..n : r.obs[i] \in Range(r.obs)
  BY <1>1
<1> QED BY <1>2 DEF Taken, Observations

\* What recording a report does, whether or not it is completed.
LEMMA RecordingGrows ==
  ASSUME GoalInv, NEW r \in Reports, NEW n \in 0..Len(r.obs), RecordUpTo(r, n)
  PROVE  /\ EvidenceGrows
         /\ \A o \in Taken(r, n) : evidence'[o.id] = Row(o)
         /\ DOMAIN executions' = Invocations
         /\ \A i \in Invocations : executions[i] \in {NoExecution, executions'[i]}
         /\ \A i \in Invocations : i # r.inv => executions'[i] = executions[i]
         /\ executions'[r.inv] = Execution(r)
<1>1. Taken(r, n) \subseteq Observations
  BY TakenAreObservations
<1>2. /\ EvidenceGrows
      /\ \A o \in Taken(r, n) : evidence'[o.id] = Row(o)
  BY <1>1, AdmissionGrows DEF RecordUpTo
<1>4. r.inv \in Invocations /\ DOMAIN executions = Invocations
  BY DEF Invocations, GoalInv, GoalTypes
<1>5. executions' = [executions EXCEPT ![r.inv] = Execution(r)]
  BY DEF RecordUpTo
<1>6. executions[r.inv] \in {NoExecution, Execution(r)}
  BY DEF RecordUpTo, MayRecord
<1> QED BY <1>2, <1>4, <1>5, <1>6

\* What a report has written before it broke off stays, and so does what its retry
\* would write.
LEMMA RetryStays ==
  ASSUME GoalInv, Moves, EvidenceGrows, NEW b \in unfinished,
         \A i \in Invocations : executions[i] \in {NoExecution, executions'[i]}
  PROVE  Begun(b)' /\ Retriable(b)'
<1> DEFINE r == b[1]
<1>1. /\ r \in Reports /\ r.inv \in Invocations /\ r.com \in Versions /\ b' = b
      /\ Begun(b) /\ Retriable(b)
  BY GoalConstants DEF GoalInv, GoalTypes, Invocations, UnfinishedIsBegun, BrokenOffCanBeRetried,
     Retriable
<1>2. executions'[r.inv] = executions[r.inv] /\ executions[r.inv] # NoExecution
  BY <1>1 DEF Begun
<1>3. Exists(r.com) => Exists(r.com)'
  BY <1>1 DEF Moves, CommitmentMoves, Exists
<1>4. executions'[r.inv] = Execution(r)' \/ Appeared(r)'
  <2>1. CASE Appeared(r)
    BY <1>2, <1>3, <2>1 DEF Appeared, Exists
  <2>2. CASE executions[r.inv] = Execution(r) /\ Exists(r.com)
    BY <1>2, <1>3, <2>2 DEF Execution, Exists
  <2>3. CASE executions[r.inv] = Execution(r) /\ ~Exists(r.com)
    BY <1>2, <2>3 DEF Execution, Appeared, Exists
  <2> QED BY <1>1, <2>1, <2>2, <2>3 DEF Retriable
<1>5. ASSUME NEW o \in Taken(r, b[2]), o.at # NotGiven PROVE evidence'[o.id] = Row(o)'
  <2>1. o \in Observations /\ evidence[o.id] = Row(o)
    BY <1>1, <1>5 DEF Begun, Retriable
  <2>2. o.id \in ObservationIds
    BY <2>1 DEF ObservationIds
  <2> QED BY <1>5, <2>1, <2>2, OwnRowStays DEF EvidenceGrows
<1>6. Taken(r, b[2])' = Taken(r, b[2]) /\ Observations' = Observations
  BY DEF Taken, Observations
<1>7. Begun(b)'
  BY <1>1, <1>2, <1>6 DEF Begun, NoExecution
<1>8. Retriable(b)'
  BY <1>4, <1>5, <1>6 DEF Retriable
<1> QED BY <1>7, <1>8

-----------------------------------------------------------------------------
\* What the calls save is of the types of the rows.
LEMMA InitialRows ==
  /\ NoPlan \in Plan /\ NoCommitment \in Commitment
  /\ NoCommitment.status = Absent /\ DemoId \in Versions
BY GoalConstants DEF NoPlan, Plan, NoCommitment, Commitment, DemoId, Statuses

LEMMA ProposalIsCommitment ==
  ASSUME NEW p \in Proposals, NEW opened \in {NotGiven, 1}
  PROVE  /\ Proposed(p, opened) \in Commitment
         /\ Proposed(p, opened).status = "proposed" /\ Proposed(p, opened).wants = p
BY DEF Proposed, Commitment, Statuses

LEMMA ActivationKeeps ==
  ASSUME NEW record \in Commitment, NEW at \in {NotGiven, 1}
  PROVE  /\ Activated(record, at) \in Commitment
         /\ Activated(record, at).status = "active"
         /\ Activated(record, at).wants = record.wants
BY DEF Activated, Commitment, Statuses

\* A terminal commitment has the reason it was closed for.
HasReason(record) == record.status \in Terminals => record.reason # ""

LEMMA ClosingKeeps ==
  ASSUME NEW record \in Commitment, NEW r \in Reports,
         NEW status \in {"satisfied", "failed"}, NEW reason \in Reasons,
         MayClose(record, status, reason, r.done), HasReason(record)
  PROVE  /\ Closed(record, status, reason, r.done) \in Commitment
         /\ Closed(record, status, reason, r.done).status = status
         /\ Closed(record, status, reason, r.done).reason = reason
         /\ Closed(record, status, reason, r.done).wants = record.wants
         /\ record.closed \in {NotGiven, Closed(record, status, reason, r.done).closed}
         /\ record.status \in Terminals => record.status = status /\ record.reason = reason
BY DEF Closed, MayClose, MayBecome, Commitment, Statuses, Reasons, Terminals, HasReason

\* The verdict of a report, and what the report has if it is a good one.
LEMMA VerdictHasCause ==
  ASSUME NEW r \in Reports, NEW wants \in Proposals
  PROVE  /\ Verdict(wants, r)[1] \in {"satisfied", "failed"}
         /\ Verdict(wants, r)[2] \in Reasons
         /\ Verdict(wants, r)[1] = "satisfied" =>
              /\ \/ r.status = "ok" /\ wants.expects = "none"
                 \/ wants.expects \in {"any", r.status}
              /\ wants.needs # "none" => \E i \in DOMAIN r.obs : r.obs[i].kind = wants.needs
BY DEF Verdict, Reasons

\* Calls that propose, authorize or run the control step close nothing.
LEMMA SavedCommitmentMoves ==
  ASSUME GoalInv, NEW c, NEW record,
         c \in Versions => /\ record \in Commitment
                           /\ record.status \in {"proposed", "active"} \/ record = commitments[c]
                           /\ commitments[c].status \in Terminals => record = commitments[c],
         commitments' = [commitments EXCEPT ![c] = record]
  PROVE  commitments' \in [Versions -> Commitment] /\ Moves /\ NoneCloses
<1>1. commitments \in [Versions -> Commitment] /\ TerminalHasReason
  BY DEF GoalInv, GoalTypes
<1>2. commitments' \in [Versions -> Commitment]
  BY <1>1
<1>3. ASSUME NEW d \in Versions
      PROVE  \/ commitments'[d] = commitments[d]
             \/ /\ commitments'[d].status \in {"proposed", "active"}
                /\ commitments[d].status \notin Terminals
  BY <1>1 DEF Terminals
<1>4. ASSUME NEW d \in Versions
      PROVE  /\ CommitmentMoves(d)
             /\ commitments'[d].status \in Terminals => commitments[d].status \in Terminals
  <2>1. CASE commitments'[d] = commitments[d]
    BY <2>1, <1>1 DEF CommitmentMoves, TerminalHasReason, Exists
  <2>2. CASE /\ commitments'[d].status \in {"proposed", "active"}
             /\ commitments[d].status \notin Terminals
    BY <2>2 DEF CommitmentMoves, Terminals, Absent
  <2> QED BY <1>3, <2>1, <2>2
<1> QED BY <1>2, <1>4 DEF Moves, NoneCloses

LEMMA PersistedRow ==
  ASSUME GoalInv, NEW c \in Versions, NEW p \in Proposals, NEW opened \in {NotGiven, 1},
         ~Exists(c) \/ Equivalent(commitments[c], p, opened)
  PROVE  /\ Persisted_(c, p, opened) \in Commitment
         /\ Persisted_(c, p, opened).status \in {"proposed", "active"}
         /\ Persisted_(c, p, opened).wants = p
         /\ commitments[c].status \notin Terminals
         /\ Persisted_(c, p, opened).status = "active" =>
              Persisted_(c, p, opened) = commitments[c]
<1>1. CASE Exists(c)
  BY <1>1 DEF Persisted_, Equivalent, GoalInv, GoalTypes, Terminals
<1>2. CASE ~Exists(c)
  BY <1>2, ProposalIsCommitment DEF Persisted_, Exists, Terminals, Absent
<1> QED BY <1>1, <1>2

\* Every action but those of a report: commitments move, none closes, evidence grows,
\* and executions and answers stay.
Quiet ==
  /\ GoalTypes' /\ Moves /\ NoneCloses /\ EvidenceGrows
  /\ UNCHANGED <<executions, answers, unfinished>>

\* Actions that touch neither commitments nor evidence.
LEMMA UntouchedIsQuiet ==
  ASSUME GoalInv, UNCHANGED <<commitments, evidence, executions, answers, unfinished>>,
         plan' \in Plan, entries' \in [Dimensions -> Values \cup {NoEntry}],
         UNCHANGED assigned
  PROVE  Quiet
BY DEF GoalInv, GoalTypes, Moves, CommitmentMoves, NoneCloses, EvidenceGrows, Quiet,
    TerminalHasReason, Exists

\* Actions that save one commitment.
LEMMA SavingIsQuiet ==
  ASSUME GoalInv, NEW c, NEW record,
         c \in Versions => /\ record \in Commitment
                           /\ record.status \in {"proposed", "active"} \/ record = commitments[c]
                           /\ commitments[c].status \in Terminals => record = commitments[c],
         commitments' = [commitments EXCEPT ![c] = record],
         plan' \in Plan, assigned' \in [Versions -> Workers \cup {Nobody}],
         UNCHANGED <<entries, evidence, executions, answers, unfinished>>
  PROVE  Quiet
BY SavedCommitmentMoves
DEF GoalInv, GoalTypes, EvidenceGrows, Quiet

-----------------------------------------------------------------------------
\* Each action that is not a report is quiet.
LEMMA PlanActionsAreQuiet ==
  ASSUME GoalInv, PersistRunSpec \/ ApplyStateDelta \/ ClockTicks PROVE Quiet
<1>1. CASE PersistRunSpec
  <2>1. plan' \in Plan
    BY <1>1 DEF PersistRunSpec, Plan
  <2> QED BY <1>1, <2>1, UntouchedIsQuiet DEF PersistRunSpec, GoalInv, GoalTypes
<1>2. CASE ApplyStateDelta
  <2> PICK d \in Dimensions, removes \in BOOLEAN, value \in Values \cup {NoEntry}, v \in Versions :
        /\ entries' = [entries EXCEPT ![d] = Reduced(@, removes, value)]
        /\ plan' = IF plan = NoPlan THEN plan ELSE [plan EXCEPT !.version = v]
    BY <1>2 DEF ApplyStateDelta
  <2>1. plan' \in Plan
    BY DEF GoalInv, GoalTypes, Plan
  <2>2. entries' \in [Dimensions -> Values \cup {NoEntry}]
    BY DEF GoalInv, GoalTypes, Reduced, Values, NoEntry
  <2> QED BY <1>2, <2>1, <2>2, UntouchedIsQuiet DEF ApplyStateDelta
<1>3. CASE ClockTicks
  BY <1>3, UntouchedIsQuiet DEF ClockTicks, GoalInv, GoalTypes
<1> QED BY <1>1, <1>2, <1>3

LEMMA ProposeIsQuiet ==
  ASSUME GoalInv, NEW c \in Versions, NEW p \in Proposals, Propose(c, p) PROVE Quiet
<1>1. ~Exists(c) \/ Equivalent(commitments[c], p, NotGiven)
  BY DEF Propose, MayPersist
<1> DEFINE record == Persisted_(c, p, NotGiven)
<1>2. /\ record \in Commitment /\ record.status \in {"proposed", "active"}
      /\ commitments[c].status \notin Terminals
  BY <1>1, PersistedRow
<1>3. /\ commitments' = [commitments EXCEPT ![c] = record]
      /\ UNCHANGED <<plan, entries, evidence, executions, assigned, answers, unfinished>>
  BY DEF Propose
<1> HIDE DEF record
<1> QED BY <1>2, <1>3, SavingIsQuiet DEF GoalInv, GoalTypes

LEMMA AuthorizeIsQuiet ==
  ASSUME GoalInv, NEW c \in Versions, Authorize(c) PROVE Quiet
<1> PICK at \in {NotGiven, 1} : commitments' = [commitments EXCEPT ![c] = Activated(@, at)]
  BY DEF Authorize
<1> DEFINE record == Activated(commitments[c], at)
<1>1. commitments[c] \in Commitment /\ commitments[c].status \notin Terminals
  BY DEF Authorize, Authorized, GoalInv, GoalTypes
<1>2. record \in Commitment /\ record.status = "active"
  BY <1>1, ActivationKeeps
<1>3. /\ commitments' = [commitments EXCEPT ![c] = record]
      /\ UNCHANGED <<plan, entries, evidence, executions, assigned, answers, unfinished>>
  BY DEF Authorize
<1> HIDE DEF record
<1> QED BY <1>1, <1>2, <1>3, SavingIsQuiet DEF GoalInv, GoalTypes

LEMMA ControlStepIsQuiet ==
  ASSUME GoalInv, NEW p \in Proposals, NEW opened \in {NotGiven, 1}, RunControlStep(p, opened)
  PROVE  Quiet
<1> DEFINE c == plan.version
           line == Persisted_(c, p, opened)
           record == IF Authorized(line) THEN Activated(line, opened) ELSE line
<1>1. ~Exists(c) \/ Equivalent(commitments[c], p, opened)
  BY DEF RunControlStep, MayPersist
<1>2. /\ commitments' = [commitments EXCEPT ![c] = record]
      /\ UNCHANGED <<plan, entries, evidence, executions, assigned, answers, unfinished>>
  BY DEF RunControlStep
<1>3. ASSUME c \in Versions
      PROVE  /\ record \in Commitment /\ record.status \in {"proposed", "active"}
             /\ commitments[c].status \notin Terminals
  <2>1. /\ line \in Commitment /\ line.status \in {"proposed", "active"}
        /\ commitments[c].status \notin Terminals
    BY <1>1, <1>3, PersistedRow
  <2>2. Activated(line, opened) \in Commitment /\ Activated(line, opened).status = "active"
    BY <2>1, ActivationKeeps
  <2> HIDE DEF line
  <2> QED BY <2>1, <2>2
<1> HIDE DEF c, record
<1> QED BY <1>2, <1>3, SavingIsQuiet DEF GoalInv, GoalTypes

LEMMA AssignIsQuiet ==
  ASSUME GoalInv, NEW c \in Versions, NEW w \in Workers, Assign(c, w) PROVE Quiet
<1>1. assigned' \in [Versions -> Workers \cup {Nobody}]
  BY DEF Assign, GoalInv, GoalTypes
<1>2. commitments' = [commitments EXCEPT ![c] = commitments[c]]
  BY DEF Assign, GoalInv, GoalTypes
<1>3. commitments[c] \in Commitment
  BY DEF GoalInv, GoalTypes
<1> QED BY <1>1, <1>2, <1>3, SavingIsQuiet DEF Assign, GoalInv, GoalTypes

LEMMA SeedDemoIsQuiet ==
  ASSUME GoalInv, NEW goals \in Objectives, NEW p \in Proposals, NEW w \in Workers,
         SeedDemo(goals, p, w)
  PROVE  Quiet
<1> DEFINE line == Persisted_(DemoId, p, 1)
           record == Activated(line, 1)
<1>0. DemoId \in Versions /\ commitments[DemoId] \in Commitment
  BY InitialRows DEF GoalInv, GoalTypes
<1>1. plan' \in Plan
  <2>1. plan' = [status |-> "running", objective |-> goals, version |-> DemoId,
                 boundary |-> [caps |-> {p.cap}, strict |-> FALSE], facts |-> NoPlan.facts]
    BY DEF SeedDemo
  <2>2. [caps |-> {p.cap}, strict |-> FALSE] \in
          {[caps |-> cs, strict |-> FALSE] : cs \in {{}} \cup {{q.cap} : q \in Proposals}}
    OBVIOUS
  <2> QED BY <1>0, <2>1, <2>2 DEF Plan
<1>2. CASE ~Exists(DemoId) \/ Equivalent(commitments[DemoId], p, 1)
  <2>1. line \in Commitment /\ commitments[DemoId].status \notin Terminals
    BY <1>0, <1>2, PersistedRow
  <2>2. record \in Commitment /\ record.status = "active"
    BY <2>1, ActivationKeeps
  <2>3. /\ commitments' = [commitments EXCEPT ![DemoId] = record]
        /\ assigned' = [assigned EXCEPT ![DemoId] = w]
        /\ UNCHANGED <<entries, evidence, executions, answers, unfinished>>
    BY <1>2 DEF SeedDemo
  <2>4. assigned' \in [Versions -> Workers \cup {Nobody}]
    BY <2>3 DEF GoalInv, GoalTypes
  <2> HIDE DEF record
  <2> QED BY <1>1, <2>1, <2>2, <2>3, <2>4, SavingIsQuiet
<1>3. CASE ~ (~Exists(DemoId) \/ Equivalent(commitments[DemoId], p, 1))
  <2>1. UNCHANGED <<commitments, entries, assigned, evidence, executions, answers, unfinished>>
    BY <1>3 DEF SeedDemo
  <2> QED BY <1>1, <2>1, UntouchedIsQuiet DEF GoalInv, GoalTypes
<1> QED BY <1>2, <1>3

LEMMA AdmitIsQuiet ==
  ASSUME GoalInv, NEW o \in Observations, AdmitObservation(o) PROVE Quiet
<1>1. EvidenceGrows
  <2>1. {o} \in SUBSET Observations /\ (\A p \in {o} : MayAdmit(p)) /\ Admit({o})
    BY DEF AdmitObservation
  <2>2. \A p, q \in {o} : p.id = q.id => Row(p) = Row(q)
    OBVIOUS
  <2> QED BY <2>1, <2>2, AdmissionGrows
<1>3. UNCHANGED <<plan, entries, commitments, executions, assigned, answers, unfinished>>
  BY DEF AdmitObservation
<1>4. GoalTypes' /\ Moves /\ NoneCloses
  BY <1>1, <1>3
  DEF GoalInv, GoalTypes, EvidenceGrows, Moves, CommitmentMoves, NoneCloses, TerminalHasReason, Exists
<1> QED BY <1>1, <1>3, <1>4 DEF Quiet

-----------------------------------------------------------------------------
\* The invariant after a quiet step and after a report.
LEMMA QuietKeepsInv ==
  ASSUME GoalInv, Quiet PROVE GoalInv'
<1> USE DEF Quiet
<1>1. TerminalHasReason'
  BY DEF Moves, CommitmentMoves, TerminalHasReason
<1>2. ExecutionsHaveCommitments'
  BY DEF GoalInv, ExecutionsHaveCommitments, Moves, CommitmentMoves, Exists, Invocations
<1>3. SatisfiedForCause'
  <2> SUFFICES ASSUME NEW c \in Versions, commitments'[c].status = "satisfied"
               PROVE  LET wants == commitments'[c].wants IN
                 /\ \E i \in Invocations : /\ executions'[i].com = c
                                           /\ \/ executions'[i].status = "ok" /\ wants.expects = "none"
                                              \/ wants.expects \in {"any", executions'[i].status}
                 /\ wants.needs # "none" =>
                      \E o \in ObservationIds : evidence'[o].kind = wants.needs
    BY DEF SatisfiedForCause, Invocations, ObservationIds, Observations
  <2>1. commitments[c].status = "satisfied" /\ commitments'[c].wants = commitments[c].wants
    BY DEF Moves, CommitmentMoves, NoneCloses, Terminals
  <2>2. commitments[c].wants.needs # Absent
    BY GoalConstants DEF GoalInv, GoalTypes, Commitment
  <2>3. \A o \in ObservationIds : evidence[o].kind = commitments[c].wants.needs
          => evidence'[o].kind = commitments[c].wants.needs
    BY <2>2 DEF EvidenceGrows, NoObservation
  <2> QED BY <2>1, <2>3 DEF GoalInv, SatisfiedForCause
<1>4. AnsweredIsClosed'
  <2>1. \A r \in answers : r.com \in Versions
    BY GoalConstants DEF GoalInv, GoalTypes
  <2> QED BY <2>1 DEF GoalInv, AnsweredIsClosed, Moves, CommitmentMoves
<1>5. AnsweredIsRecorded'
  BY DEF GoalInv, AnsweredIsRecorded
<1>6. UnfinishedIsBegun' /\ BrokenOffCanBeRetried'
  <2>1. \A b \in unfinished : Begun(b)' /\ Retriable(b)'
    BY RetryStays
  <2> QED BY <2>1 DEF UnfinishedIsBegun, BrokenOffCanBeRetried, Retriable, Begun
<1> QED BY <1>1, <1>2, <1>3, <1>4, <1>5, <1>6 DEF GoalInv

\* What a commitment that is satisfied rests on.
Cause(c) ==
  LET wants == commitments[c].wants IN
  /\ \E i \in Invocations : /\ executions[i].com = c
                            /\ \/ executions[i].status = "ok" /\ wants.expects = "none"
                               \/ wants.expects \in {"any", executions[i].status}
  /\ wants.needs # "none" => \E o \in ObservationIds : evidence[o].kind = wants.needs

\* A report records beside what is there: a cause stays, and so does what an
\* earlier report was answered.
LEMMA RecordingKeeps ==
  ASSUME GoalInv, NEW r \in Reports, NEW n \in 0..Len(r.obs), RecordUpTo(r, n),
         Moves, commitments' \in [Versions -> Commitment],
         UNCHANGED <<plan, entries, assigned>>, answers' \subseteq Reports,
         unfinished' \subseteq Reports \X Nat
  PROVE  /\ GoalTypes' /\ TerminalHasReason' /\ ExecutionsHaveCommitments'
         /\ \A c \in Versions : commitments[c].status = "satisfied" => Cause(c)'
         /\ \A q \in answers : /\ executions'[q.inv] # NoExecution
                               /\ executions'[q.inv].com = q.com
                                    => commitments'[q.com].status \in Terminals
         /\ executions'[r.inv] # NoExecution
         /\ \A b \in unfinished : Begun(b)' /\ Retriable(b)'
<1>1. /\ EvidenceGrows
      /\ DOMAIN executions' = Invocations
      /\ \A i \in Invocations : executions[i] \in {NoExecution, executions'[i]}
      /\ \A i \in Invocations : i # r.inv => executions'[i] = executions[i]
      /\ executions'[r.inv] = Execution(r)
  BY RecordingGrows
<1>2. GoalTypes'
  BY <1>1 DEF GoalInv, GoalTypes, EvidenceGrows
<1>3. TerminalHasReason'
  BY DEF Moves, CommitmentMoves, TerminalHasReason
<1>4. ExecutionsHaveCommitments'
  <2> SUFFICES ASSUME NEW i \in Invocations, executions'[i].com # NotGiven
               PROVE  executions'[i].com \in Versions /\ commitments'[executions'[i].com].status # Absent
    BY DEF ExecutionsHaveCommitments, Exists, Invocations
  <2>1. CASE i = r.inv
    <3>1. executions'[i].com = r.com /\ Exists(r.com)
      BY <1>1, <2>1 DEF Execution
    <3>2. r.com \in Versions
      BY GoalConstants
    <3> QED BY <3>1, <3>2 DEF Moves, CommitmentMoves
  <2>2. CASE i # r.inv
    <3>1. executions'[i] = executions[i]
      BY <1>1, <2>2
    <3> QED BY <3>1 DEF GoalInv, ExecutionsHaveCommitments, Moves, CommitmentMoves
  <2> QED BY <2>1, <2>2
<1>5. ASSUME NEW c \in Versions, commitments[c].status = "satisfied" PROVE Cause(c)'
  <2>1. commitments'[c].wants = commitments[c].wants
    BY <1>5 DEF Moves, CommitmentMoves, Terminals
  <2>2. Cause(c)
    BY <1>5 DEF GoalInv, SatisfiedForCause, Cause
  <2>3. PICK i \in Invocations :
          /\ executions[i].com = c
          /\ \/ executions[i].status = "ok" /\ commitments[c].wants.expects = "none"
             \/ commitments[c].wants.expects \in {"any", executions[i].status}
    BY <2>2 DEF Cause
  <2>4. executions'[i] = executions[i]
    BY <1>1, <2>3, GoalConstants DEF NoExecution
  <2>5. commitments[c].wants.needs # Absent
    BY GoalConstants DEF GoalInv, GoalTypes, Commitment
  <2>6. \A o \in ObservationIds : evidence[o].kind = commitments[c].wants.needs
          => evidence'[o].kind = commitments[c].wants.needs
    BY <1>1, <2>5 DEF EvidenceGrows, NoObservation
  <2>7. i \in Invocations' /\ ObservationIds' = ObservationIds
    BY DEF Invocations, ObservationIds, Observations
  <2>8. commitments[c].wants.needs # "none" =>
          \E o \in ObservationIds' : evidence'[o].kind = commitments[c].wants.needs
    BY <2>2, <2>6, <2>7 DEF Cause
  <2> QED BY <2>1, <2>3, <2>4, <2>7, <2>8 DEF Cause
<1>6. ASSUME NEW q \in answers
      PROVE  /\ executions'[q.inv] # NoExecution
             /\ executions'[q.inv].com = q.com => commitments'[q.com].status \in Terminals
  <2>1. q \in Reports /\ q.inv \in Invocations /\ q.com \in Versions
    BY GoalConstants DEF GoalInv, GoalTypes, Invocations
  <2>2. executions'[q.inv] = executions[q.inv] /\ executions[q.inv] # NoExecution
    BY <1>1, <2>1 DEF GoalInv, AnsweredIsRecorded
  <2> QED BY <2>1, <2>2 DEF GoalInv, AnsweredIsClosed, Moves, CommitmentMoves
<1>7. executions'[r.inv] # NoExecution
  BY <1>1, GoalConstants DEF Execution, NoExecution
<1>8. ASSUME NEW b \in unfinished PROVE Begun(b)' /\ Retriable(b)'
  BY <1>1, RetryStays
<1> QED BY <1>1, <1>2, <1>3, <1>4, <1>5, <1>6, <1>7, <1>8

LEMMA StillMoves ==
  ASSUME GoalInv, commitments' = commitments PROVE Moves /\ NoneCloses
BY DEF Moves, NoneCloses, CommitmentMoves, GoalInv, TerminalHasReason, Exists

LEMMA BreakingOffKeepsInv ==
  ASSUME GoalInv, NEW r \in Reports, NEW n \in 0..Len(r.obs), ReportBreaksOff(r, n)
  PROVE  GoalInv' /\ Moves /\ NoneCloses /\ EvidenceGrows
<1>1. /\ RecordUpTo(r, n)
      /\ UNCHANGED <<plan, entries, commitments, assigned, answers, clock>>
      /\ unfinished' = unfinished \cup {<<r, n>>}
  BY DEF ReportBreaksOff
<1>2. /\ Moves /\ NoneCloses /\ commitments' \in [Versions -> Commitment]
      /\ answers' \subseteq Reports /\ unfinished' \subseteq Reports \X Nat
  BY <1>1, StillMoves DEF GoalInv, GoalTypes
<1>3. /\ GoalTypes' /\ TerminalHasReason' /\ ExecutionsHaveCommitments'
      /\ \A c \in Versions : commitments[c].status = "satisfied" => Cause(c)'
      /\ \A q \in answers : /\ executions'[q.inv] # NoExecution
                            /\ executions'[q.inv].com = q.com
                                 => commitments'[q.com].status \in Terminals
      /\ executions'[r.inv] # NoExecution
      /\ \A b \in unfinished : Begun(b)' /\ Retriable(b)'
  BY <1>1, <1>2, RecordingKeeps
<1>4. SatisfiedForCause'
  BY <1>1, <1>3 DEF SatisfiedForCause, Cause
<1>5. AnsweredIsClosed' /\ AnsweredIsRecorded'
  BY <1>1, <1>3 DEF AnsweredIsClosed, AnsweredIsRecorded
<1>6. EvidenceGrows
  BY <1>1, RecordingGrows
<1>7. Begun(<<r, n>>)' /\ Retriable(<<r, n>>)'
  <2>1. /\ executions'[r.inv] = Execution(r) /\ Taken(r, n) \subseteq Observations
        /\ \A o \in Taken(r, n) : evidence'[o.id] = Row(o)
    BY <1>1, RecordingGrows, TakenAreObservations
  <2>2. /\ Execution(r)' = Execution(r) /\ (\A o \in Taken(r, n) : Row(o)' = Row(o))
        /\ Taken(r, n)' = Taken(r, n) /\ Observations' = Observations
    BY <1>1 DEF Execution, Exists, Row, Taken, Observations
  <2> QED BY <1>3, <2>1, <2>2 DEF Begun, Retriable, NoExecution
<1>8. UnfinishedIsBegun' /\ BrokenOffCanBeRetried'
  BY <1>1, <1>3, <1>7 DEF UnfinishedIsBegun, BrokenOffCanBeRetried, Begun, Retriable
<1> QED BY <1>2, <1>3, <1>4, <1>5, <1>6, <1>8 DEF GoalInv

\* A report that is answered: it closes its commitment, for what it brings.
LEMMA ReportKeepsInv ==
  ASSUME GoalInv, NEW r \in Reports, ReportExecution(r)
  PROVE  GoalInv' /\ Moves /\ EvidenceGrows
         /\ \A c \in Versions : commitments'[c].status = "active" =>
                                  commitments'[c] = commitments[c]
<1> DEFINE n == Len(r.obs)
           c == r.com
           wants == commitments[c].wants
           v == Verdict(wants, r)
           closed == Closed(commitments[c], v[1], v[2], r.done)
<1>1. RecordUpTo(r, n) /\ n \in 0..Len(r.obs)
  <2>1. Len(r.obs) \in Nat
    BY GoalConstants
  <2> QED BY <2>1 DEF ReportExecution
<1>2. c \in Versions /\ commitments[c] \in Commitment /\ commitments \in [Versions -> Commitment]
  BY GoalConstants DEF GoalInv, GoalTypes
<1>3. UNCHANGED <<plan, entries, assigned, unfinished>> /\ answers' = answers \cup {r}
  BY DEF ReportExecution
<1>4. /\ v[1] \in {"satisfied", "failed"} /\ v[2] \in Reasons
      /\ v[1] = "satisfied" =>
           /\ \/ r.status = "ok" /\ wants.expects = "none"
              \/ wants.expects \in {"any", r.status}
           /\ wants.needs # "none" => \E i \in DOMAIN r.obs : r.obs[i].kind = wants.needs
  <2>1. wants \in Proposals
    BY <1>2 DEF Commitment
  <2> QED BY <2>1, VerdictHasCause
<1>5. ASSUME Exists(c)
      PROVE  /\ commitments' = [commitments EXCEPT ![c] = closed]
             /\ closed \in Commitment /\ closed.status = v[1] /\ closed.reason = v[2]
             /\ closed.wants = wants /\ commitments[c].closed \in {NotGiven, closed.closed}
             /\ commitments[c].status \in Terminals =>
                  commitments[c].status = v[1] /\ commitments[c].reason = v[2]
  <2>1. /\ MayClose(commitments[c], v[1], v[2], r.done)
        /\ commitments' = [commitments EXCEPT ![c] = closed]
    BY <1>5, <1>2 DEF ReportExecution
  <2>2. HasReason(commitments[c])
    BY <1>2 DEF GoalInv, TerminalHasReason, HasReason
  <2> DEFINE record == commitments[c]
             status == v[1]
             reason == v[2]
  <2>3. /\ record \in Commitment /\ status \in {"satisfied", "failed"} /\ reason \in Reasons
        /\ MayClose(record, status, reason, r.done)
        /\ HasReason(record)
    BY <1>2, <1>4, <2>1, <2>2
  <2> HIDE DEF record, status, reason
  <2>4. /\ Closed(record, status, reason, r.done) \in Commitment
        /\ Closed(record, status, reason, r.done).status = status
        /\ Closed(record, status, reason, r.done).reason = reason
        /\ Closed(record, status, reason, r.done).wants = record.wants
        /\ record.closed \in {NotGiven, Closed(record, status, reason, r.done).closed}
        /\ record.status \in Terminals => record.status = status /\ record.reason = reason
    BY <2>3, ClosingKeeps
  <2> HIDE DEF v
  <2> QED BY <2>1, <2>4 DEF record, status, reason
<1>6. ~Exists(c) => commitments' = commitments
  BY DEF ReportExecution
<1> HIDE DEF v, closed
<1>7. commitments' \in [Versions -> Commitment]
  BY <1>2, <1>5, <1>6
<1>8. ASSUME NEW d \in Versions
      PROVE  \/ commitments'[d] = commitments[d]
             \/ d = c /\ Exists(c) /\ commitments'[d] = closed
  BY <1>2, <1>5, <1>6
<1>9. Moves
  <2> SUFFICES ASSUME NEW d \in Versions PROVE CommitmentMoves(d)
    BY DEF Moves
  <2>1. CASE commitments'[d] = commitments[d]
    BY <2>1 DEF CommitmentMoves, GoalInv, TerminalHasReason, Exists
  <2>2. CASE d = c /\ Exists(c) /\ commitments'[d] = closed
    BY <2>2, <1>4, <1>5 DEF CommitmentMoves, Reasons, Absent
  <2> QED BY <1>8, <2>1, <2>2
<1>10. /\ GoalTypes' /\ TerminalHasReason' /\ ExecutionsHaveCommitments'
       /\ \A d \in Versions : commitments[d].status = "satisfied" => Cause(d)'
       /\ \A q \in answers : /\ executions'[q.inv] # NoExecution
                             /\ executions'[q.inv].com = q.com
                                  => commitments'[q.com].status \in Terminals
       /\ executions'[r.inv] # NoExecution
       /\ \A b \in unfinished : Begun(b)' /\ Retriable(b)'
  <2>1. answers' \subseteq Reports /\ unfinished' \subseteq Reports \X Nat
    BY <1>3 DEF GoalInv, GoalTypes
  <2> HIDE DEF n
  <2> QED BY <1>1, <1>3, <1>7, <1>9, <2>1, RecordingKeeps
<1>11. /\ EvidenceGrows /\ executions'[r.inv] = Execution(r)
       /\ \A o \in Taken(r, n) : evidence'[o.id] = Row(o)
  BY <1>1, RecordingGrows
<1>12. ASSUME Exists(c), v[1] = "satisfied" PROVE Cause(c)'
  <2>1. commitments'[c].wants = wants
    BY <1>2, <1>5, <1>12
  <2>2. r.inv \in Invocations' /\ executions'[r.inv].com = c /\ executions'[r.inv].status = r.status
    BY <1>11, <1>12 DEF Execution, Invocations
  <2>3. ASSUME wants.needs # "none"
        PROVE  \E o \in ObservationIds' : evidence'[o].kind = wants.needs
    <3>1. PICK i \in DOMAIN r.obs : r.obs[i].kind = wants.needs
      BY <1>4, <1>12, <2>3
    <3>2. r.obs[i] \in Taken(r, n) /\ r.obs[i] \in Range(r.obs)
      <4>1. r.obs \in Seq(Range(r.obs))
        BY GoalConstants
      <4>2. DOMAIN r.obs = 1..n
        BY <4>1
      <4> QED BY <4>2 DEF Taken, Range
    <3>3. r.obs[i].id \in ObservationIds'
      BY <3>2 DEF ObservationIds, Observations
    <3>4. evidence'[r.obs[i].id].kind = r.obs[i].kind
      <4>1. evidence'[r.obs[i].id] = Row(r.obs[i])
        BY <1>11, <3>2
      <4>2. Row(r.obs[i]).kind = r.obs[i].kind
        BY DEF Row
      <4> QED BY <4>1, <4>2
    <3> QED BY <3>1, <3>3, <3>4
  <2> QED BY <1>4, <1>12, <2>1, <2>2, <2>3 DEF Cause
<1>13. SatisfiedForCause'
  <2>1. ASSUME NEW d \in Versions, commitments'[d].status = "satisfied" PROVE Cause(d)'
    BY <1>5, <1>8, <1>10, <1>12, <2>1
  <2> QED BY <2>1 DEF SatisfiedForCause, Cause
<1>14. AnsweredIsClosed'
  <2>1. executions'[r.inv].com = r.com => commitments'[r.com].status \in Terminals
    BY <1>2, <1>4, <1>5, <1>11, GoalConstants DEF Execution, Terminals
  <2> QED BY <1>3, <1>10, <2>1 DEF AnsweredIsClosed
<1>15. AnsweredIsRecorded'
  BY <1>3, <1>10 DEF AnsweredIsRecorded
<1>16. ASSUME NEW d \in Versions, commitments'[d].status = "active"
       PROVE  commitments'[d] = commitments[d]
  BY <1>4, <1>5, <1>8, <1>16
<1>17. UnfinishedIsBegun' /\ BrokenOffCanBeRetried'
  BY <1>3, <1>10 DEF UnfinishedIsBegun, BrokenOffCanBeRetried, Begun, Retriable
<1> QED BY <1>9, <1>10, <1>11, <1>13, <1>14, <1>15, <1>16, <1>17 DEF GoalInv

-----------------------------------------------------------------------------
\* Steps.
LEMMA GoalStart == GoalInit => GoalInv
<1> SUFFICES ASSUME GoalInit PROVE GoalInv
  OBVIOUS
<1>1. GoalTypes
  <2>1. plan \in Plan
    BY InitialRows DEF GoalInit
  <2>2. commitments \in [Versions -> Commitment]
    BY InitialRows DEF GoalInit
  <2> QED BY <2>1, <2>2 DEF GoalInit, GoalTypes
<1>2. TerminalHasReason /\ SatisfiedForCause
  BY InitialRows DEF GoalInit, TerminalHasReason, SatisfiedForCause, Terminals, Absent
<1>3. ExecutionsHaveCommitments
  BY DEF GoalInit, ExecutionsHaveCommitments, NoExecution
<1>4. AnsweredIsRecorded /\ AnsweredIsClosed
  BY DEF GoalInit, AnsweredIsRecorded, AnsweredIsClosed
<1>5. UnfinishedIsBegun /\ BrokenOffCanBeRetried
  BY DEF GoalInit, UnfinishedIsBegun, BrokenOffCanBeRetried
<1> QED BY <1>1, <1>2, <1>3, <1>4, <1>5 DEF GoalInv

Quietly ==
  \/ PersistRunSpec \/ ApplyStateDelta \/ ClockTicks
  \/ \E c \in Versions : Authorize(c)
  \/ \E c \in Versions, p \in Proposals : Propose(c, p)
  \/ \E p \in Proposals, opened \in {NotGiven, 1} : RunControlStep(p, opened)
  \/ \E c \in Versions, w \in Workers : Assign(c, w)
  \/ \E goals \in Objectives, p \in Proposals, w \in Workers : SeedDemo(goals, p, w)
  \/ \E o \in Observations : AdmitObservation(o)

LEMMA QuietSteps == ASSUME GoalInv, Quietly PROVE Quiet
BY PlanActionsAreQuiet, AuthorizeIsQuiet, ProposeIsQuiet, ControlStepIsQuiet, AssignIsQuiet,
   SeedDemoIsQuiet, AdmitIsQuiet
DEF Quietly

LEMMA StutterIsQuiet == ASSUME GoalInv, UNCHANGED gc_vars PROVE Quiet
BY UntouchedIsQuiet DEF gc_vars, GoalInv, GoalTypes

LEMMA GoalCases ==
  ASSUME [GoalNext]_gc_vars
  PROVE  \/ Quietly
         \/ \E r \in Reports : ReportExecution(r)
         \/ \E r \in Reports : \E n \in 0..Len(r.obs) : ReportBreaksOff(r, n)
         \/ UNCHANGED gc_vars
BY DEF GoalNext, Quietly

LEMMA GoalSteps ==
  ASSUME GoalInv, [GoalNext]_gc_vars PROVE GoalInv' /\ Moves /\ EvidenceGrows
<1>1. CASE Quiet
  BY <1>1, QuietKeepsInv DEF Quiet
<1>2. ASSUME NEW r \in Reports, ReportExecution(r) PROVE GoalInv' /\ Moves /\ EvidenceGrows
  BY <1>2, ReportKeepsInv
<1>3. ASSUME NEW r \in Reports, NEW n \in 0..Len(r.obs), ReportBreaksOff(r, n)
      PROVE  GoalInv' /\ Moves /\ EvidenceGrows
  BY <1>3, BreakingOffKeepsInv
<1> QED BY <1>1, <1>2, <1>3, GoalCases, QuietSteps, StutterIsQuiet

\* A commitment becomes active in a step that looks at the boundary.
LEMMA ActivationIsWithin ==
  ASSUME GoalInv, [GoalNext]_gc_vars, NEW c \in Versions,
         commitments'[c].status = "active", commitments[c].status # "active"
  PROVE  plan'.boundary.caps = {} \/ commitments'[c].wants.cap \in plan'.boundary.caps
<1>0. commitments \in [Versions -> Commitment]
  BY DEF GoalInv, GoalTypes
<1>1. ASSUME commitments' = commitments PROVE FALSE
  BY <1>1
<1>2. ASSUME NEW d \in Versions, Authorize(d)
      PROVE  commitments'[c].wants.cap \in plan'.boundary.caps \/ plan'.boundary.caps = {}
  <2>1. PICK at \in {NotGiven, 1} : commitments' = [commitments EXCEPT ![d] = Activated(@, at)]
    BY <1>2 DEF Authorize
  <2>2. c = d /\ commitments'[c] = Activated(commitments[c], at)
    BY <2>1, <1>0
  <2>3. commitments'[c].wants = commitments[c].wants
    BY <2>2, <1>0, ActivationKeeps
  <2> QED BY <1>2, <2>2, <2>3 DEF Authorize, Authorized
<1>3. ASSUME NEW d \in Versions, NEW p \in Proposals, Propose(d, p) PROVE FALSE
  <2>1. ~Exists(d) \/ Equivalent(commitments[d], p, NotGiven)
    BY <1>3 DEF Propose, MayPersist
  <2>2. commitments' = [commitments EXCEPT ![d] = Persisted_(d, p, NotGiven)]
    BY <1>3 DEF Propose
  <2>3. c = d /\ commitments'[c] = Persisted_(d, p, NotGiven)
    BY <2>2, <1>0
  <2> QED BY <2>1, <2>3, PersistedRow
<1>4. ASSUME NEW p \in Proposals, NEW opened \in {NotGiven, 1}, RunControlStep(p, opened)
      PROVE  commitments'[c].wants.cap \in plan'.boundary.caps \/ plan'.boundary.caps = {}
  <2> DEFINE d == plan.version
             line == Persisted_(d, p, opened)
  <2>1. ~Exists(d) \/ Equivalent(commitments[d], p, opened)
    BY <1>4 DEF RunControlStep, MayPersist
  <2>2. /\ plan' = plan
        /\ commitments' = [commitments EXCEPT ![d] =
                             IF Authorized(line) THEN Activated(line, opened) ELSE line]
    BY <1>4 DEF RunControlStep
  <2> HIDE DEF d, line
  <2>3. c = d /\ commitments'[c] = IF Authorized(line) THEN Activated(line, opened) ELSE line
    BY <2>2, <1>0
  <2>4. /\ line \in Commitment
        /\ line.status = "active" => line = commitments[c]
    BY <2>1, <2>3, PersistedRow DEF line
  <2>5. Authorized(line) /\ commitments'[c].wants = line.wants
    BY <2>3, <2>4, ActivationKeeps
  <2> QED BY <2>2, <2>5 DEF Authorized
<1>5. ASSUME NEW goals \in Objectives, NEW p \in Proposals, NEW w \in Workers,
             SeedDemo(goals, p, w)
      PROVE  commitments'[c].wants.cap \in plan'.boundary.caps
  <2> DEFINE line == Persisted_(DemoId, p, 1)
  <2>1. /\ ~Exists(DemoId) \/ Equivalent(commitments[DemoId], p, 1)
        /\ commitments' = [commitments EXCEPT ![DemoId] = Activated(line, 1)]
    BY <1>5, <1>1 DEF SeedDemo
  <2>2. c = DemoId /\ commitments'[c] = Activated(line, 1)
    BY <2>1, <1>0
  <2>3. line \in Commitment /\ line.wants = p
    BY <2>1, <2>2, PersistedRow
  <2>4. commitments'[c].wants = p
    BY <2>2, <2>3, ActivationKeeps
  <2>5. plan'.boundary.caps = {p.cap}
    BY <1>5 DEF SeedDemo
  <2> QED BY <2>4, <2>5
<1>6. ASSUME NEW r \in Reports, ReportExecution(r) PROVE FALSE
  BY <1>6, <1>0, ReportKeepsInv
<1>7. ASSUME PersistRunSpec \/ ApplyStateDelta \/ ClockTicks
             \/ (\E d \in Versions, w \in Workers : Assign(d, w))
             \/ (\E o \in Observations : AdmitObservation(o))
             \/ (\E r \in Reports : \E n \in 0..Len(r.obs) : ReportBreaksOff(r, n))
             \/ UNCHANGED gc_vars
      PROVE  FALSE
  BY <1>7, <1>1 DEF PersistRunSpec, ApplyStateDelta, ClockTicks, Assign, AdmitObservation,
                    ReportBreaksOff, gc_vars
<1> QED BY <1>2, <1>3, <1>4, <1>5, <1>6, <1>7, GoalCases DEF Quietly

-----------------------------------------------------------------------------
\* What is computed from the state: the progress of the goals.
LEMMA ProgressFollows == ProgressIsMechanical
<1> SUFFICES ASSUME plan.objective # {}, \A g \in plan.objective : g.explicit = {}
             PROVE  LET conditions == UNION {g.mapped : g \in plan.objective} IN
               /\ (Progress = "satisfied")
                    = \A c \in conditions : Value(c.dim) # NoEntry /\ Holds(c)
               /\ (Progress = "in_progress")
                    = \E c \in conditions : Value(c.dim) # NoEntry /\ ~Holds(c)
  BY DEF ProgressIsMechanical
<1> DEFINE statuses == {GoalStatus(Rebuilt(g)) : g \in plan.objective}
           conditions == UNION {g.mapped : g \in plan.objective}
           Broken(c) == Value(c.dim) # NoEntry /\ ~Holds(c)
           Unknown(c) == Value(c.dim) = NoEntry
<1>1. statuses # {}
  OBVIOUS
<1>2. ASSUME NEW g \in plan.objective
      PROVE  /\ GoalStatus(Rebuilt(g)) \in {"unsatisfied", "unknown", "satisfied"}
             /\ (GoalStatus(Rebuilt(g)) = "unsatisfied") <=> \E c \in g.mapped : Broken(c)
             /\ (GoalStatus(Rebuilt(g)) = "satisfied")
                  <=> \A c \in g.mapped : ~Broken(c) /\ ~Unknown(c)
  BY DEF GoalStatus, Rebuilt
<1>3. ("unsatisfied" \in statuses) <=> \E c \in conditions : Broken(c)
  BY <1>2
<1>4. (statuses = {"satisfied"}) <=> \A c \in conditions : ~Broken(c) /\ ~Unknown(c)
  BY <1>1, <1>2
<1>5. statuses \subseteq {"unsatisfied", "unknown", "satisfied"}
  BY <1>2
<1>6. Progress = CASE statuses = {} -> "idle"
                   [] "unsatisfied" \in statuses -> "in_progress"
                   [] "unsatisfied" \notin statuses /\ "unknown" \in statuses -> "unknown"
                   [] OTHER -> "satisfied"
  BY DEF Progress
<1> HIDE DEF statuses, conditions
<1>7. (Progress = "satisfied") <=> statuses = {"satisfied"}
  BY <1>1, <1>5, <1>6
<1>8. (Progress = "in_progress") <=> "unsatisfied" \in statuses
  BY <1>1, <1>5, <1>6
<1>9. \A c \in conditions : (~Broken(c) /\ ~Unknown(c)) <=> (Value(c.dim) # NoEntry /\ Holds(c))
  OBVIOUS
<1> QED BY <1>3, <1>4, <1>7, <1>8, <1>9 DEF conditions

LEMMA InvIsAccountable == GoalInv => WorkIsAccountable
<1> SUFFICES ASSUME GoalInv PROVE WorkIsAccountable
  OBVIOUS
<1>1. GoalTypeOK
  BY DEF GoalInv, GoalTypes, GoalTypeOK, Plan, Commitment, Statuses, ExecutionsHaveCommitments
<1> QED BY <1>1, ProgressFollows DEF GoalInv, WorkIsAccountable

\* What the control plane says has its cause in what was recorded: a satisfied
\* commitment in an execution and the observation it requires, an answered report in
\* a closed commitment, the progress in the entries; and what a report wrote before it
\* broke off is still what its retry would write (process_runtime_completion,
\* record_execution_outcome, admit_project_observation, evaluate_objective).
THEOREM AccountableCorrect == GoalSpec => []WorkIsAccountable
<1>1. GoalInv /\ [GoalNext]_gc_vars => GoalInv'
  BY GoalSteps
<1> QED BY GoalStart, <1>1, InvIsAccountable, PTL DEF GoalSpec

\* No step takes back what was recorded, and none activates a commitment outside the
\* boundary (update_commitment_status, authorize_commitment, admit_project_observation).
THEOREM FaithCorrect == GoalSpec => CommitmentsKeepFaith
<1>1. GoalInv /\ [GoalNext]_gc_vars => GoalInv'
  BY GoalSteps
<1>2. GoalInv /\ [GoalNext]_gc_vars =>
        [\A c \in Versions : commitments[c].status \in Terminals =>
           /\ commitments'[c].status = commitments[c].status
           /\ commitments'[c].reason = commitments[c].reason
           /\ commitments[c].closed \in {NotGiven, commitments'[c].closed}]_gc_vars
  BY GoalSteps DEF Moves, CommitmentMoves
<1>3. GoalInv /\ [GoalNext]_gc_vars =>
        [\A c \in Versions :
           commitments'[c].status = "active" /\ commitments[c].status # "active"
           => plan'.boundary.caps = {} \/ commitments'[c].wants.cap \in plan'.boundary.caps]_gc_vars
  BY ActivationIsWithin
<1>4. GoalInv /\ [GoalNext]_gc_vars =>
        [\A o \in ObservationIds : evidence[o] \in {NoObservation, evidence'[o]}]_gc_vars
  BY GoalSteps DEF EvidenceGrows
<1>5. GoalSpec => []GoalInv
  BY GoalStart, <1>1, PTL DEF GoalSpec
<1>6. GoalSpec => ClosedIsFinal
  BY <1>2, <1>5, PTL DEF GoalSpec, ClosedIsFinal
<1>7. GoalSpec => ActiveWithinBoundary
  BY <1>3, <1>5, PTL DEF GoalSpec, ActiveWithinBoundary
<1>8. GoalSpec => EvidenceIsKept
  BY <1>4, <1>5, PTL DEF GoalSpec, EvidenceIsKept
<1> QED BY <1>6, <1>7, <1>8 DEF CommitmentsKeepFaith

-----------------------------------------------------------------------------
(***************************************************************************)
(* The machine of an agent catches up with what the user configured, for   *)
(* any secrets, skills, tags, calls and deployments: ChangesReachAgent is  *)
(* an invariant of ConfigSpec, and every step keeps OthersFieldsStay.      *)
(*                                                                         *)
(* While nothing has overlapped since the last deployment began, at most   *)
(* one call or one deployment is under way.  The invariant says what that  *)
(* call knows (the copies it loaded are still the rows) and what the files *)
(* hold in the middle of it: everything, but for the part it is about to   *)
(* write.                                                                  *)
(***************************************************************************)

Secrets == [Keys -> 0..2]
AgentRows == [role : {1, 2}, mcp : BOOLEAN, text : {1, 2}, tags : SUBSET Tags]
Docs == [role : {1, 2}, mcp : BOOLEAN, text : {1, 2}]
SkillRows == SkillRecords \cup {NoSkill}
Disks == [claude : Docs, mcp : BOOLEAN, env : Secrets, secrets : Secrets,
          dirs : [Skills -> 0..2]]
CallRecords == [kind : {"none", "instructions", "config", "skill", "delete", "secrets"},
         step : {"idle", "save", "write", "skills", "push", "drop"},
         new : AgentRows, old : AgentRows, name : Skills \cup {None},
         skill : SkillRows, was : BOOLEAN]

\* The step of a job is one of its kind.
InShape(j) ==
  /\ j.step \in {"save", "write", "skills"} => j.kind \in {"instructions", "config"}
  /\ j.step = "push" => j.kind \in {"skill", "delete", "secrets"}
  /\ j.step = "drop" => j.kind = "delete"
  /\ j.kind \in {"skill", "delete"} => j.name \in Skills

ConfigTypes ==
  /\ row \in AgentRows
  /\ skills \in [Skills -> SkillRows]
  /\ project \in Secrets /\ account \subseteq Keys
  /\ phase \in {"down", "fetched", "read", "written", "up"}
  /\ boot \in [row : AgentRows, secrets : Secrets]
  /\ disk \in Disks
  /\ \A k \in Keys : disk.env[k] # None => k = McpKey
  /\ call \in [Calls -> CallRecords] /\ \A c \in Calls : InShape(call[c])
  /\ raced \in BOOLEAN

\* What a call that overlaps with nothing knows: its copies are the rows.
Knows(j) ==
  /\ j.step = "save" => /\ j.old = row
                        /\ j.kind = "config" => j.new.text = row.text
  /\ j.step \in {"write", "skills"} => j.new = row
  /\ j.step \in {"save", "write", "skills"} /\ j.kind = "instructions" =>
       /\ j.new.role = j.old.role /\ j.new.mcp = j.old.mcp /\ j.new.tags = j.old.tags
       /\ Running => j.was
  /\ j.step = "push" /\ j.kind = "skill" => j.skill = skills[j.name]

\* What the files hold in the middle of it.
DocsHeld(j) ==
  IF j.step = "write" THEN disk.claude = Doc(j.old) /\ disk.mcp = j.old.mcp
                      ELSE disk.claude = Doc(row) /\ disk.mcp = row.mcp
AboutToWrite(j, n) == j.name = n /\ (j.step = "drop" \/ (j.step = "push" /\ j.kind = "skill"))
SkillsHeld(j) ==
  LET tags == IF j.step \in {"write", "skills"} THEN j.old.tags ELSE row.tags IN
  \A n \in Skills :
    ~AboutToWrite(j, n) /\ Matches(skills[n], tags) => disk.dirs[n] = skills[n].text
SecretsHeld(j) ==
  ~(j.step = "push" /\ j.kind = "secrets") /\ ~Empty(Merged) => disk.secrets = Merged
FilesHold(j) == DocsHeld(j) /\ SkillsHeld(j) /\ SecretsHeld(j)

\* What a deployment that overlaps with nothing knows, and what it wrote.
BootKnows ==
  /\ Deploying => boot.secrets = Merged
  /\ phase \in {"read", "written"} => boot.row = row
  /\ phase = "written" => FilesHold(Idle)

AllIdle == \A c \in Calls : call[c].step = "idle"
Alone(c) == \A e \in Calls \ {c} : call[e].step = "idle"

Undisturbed ==
  \/ AllIdle /\ BootKnows /\ (Running => FilesHold(Idle))
  \/ \E c \in Calls : /\ call[c].step # "idle" /\ Alone(c) /\ ~Deploying
                      /\ Knows(call[c]) /\ (Running => FilesHold(call[c]))

ConfigInv == ConfigTypes /\ (~raced => Undisturbed)

-----------------------------------------------------------------------------
\* ConfigTypes

LEMMA MergedType == ASSUME ConfigTypes PROVE Merged \in Secrets
BY DEF ConfigTypes, Merged, Secrets, None

LEMMA IdleType == ASSUME ConfigTypes PROVE Idle \in CallRecords /\ InShape(Idle)
<1>1. NoSkill \in SkillRows /\ row \in AgentRows
  BY DEF ConfigTypes, SkillRows
<1>2. Idle \in CallRecords
  BY <1>1, Zenon DEF Idle, CallRecords
<1> QED BY <1>2 DEF Idle, InShape

LEMMA DocType == ASSUME NEW r \in AgentRows PROVE Doc(r) \in Docs
BY DEF Doc, AgentRows, Docs

LEMMA EnvType ==
  ASSUME NEW mcp, NEW s \in Secrets
  PROVE  /\ McpEnv(mcp, s) \in Secrets
         /\ \A k \in Keys : McpEnv(mcp, s)[k] # None => k = McpKey
BY DEF McpEnv, Secrets, None

\* A step of one call: the others keep theirs.
LEMMA CallTypes ==
  ASSUME ConfigTypes, NEW c \in Calls, NEW j \in CallRecords, InShape(j), call' = [call EXCEPT ![c] = j]
  PROVE  /\ call' \in [Calls -> CallRecords] /\ \A e \in Calls : InShape(call[e])'
         /\ call'[c] = j /\ \A e \in Calls \ {c} : call'[e] = call[e]
<1>1. /\ call' \in [Calls -> CallRecords]
      /\ \A e \in Calls : call'[e] = IF e = c THEN j ELSE call[e]
  BY DEF ConfigTypes
<1>2. \A e \in Calls : InShape(call'[e])
  BY <1>1 DEF ConfigTypes
<1>3. ASSUME NEW e \in Calls PROVE InShape(call[e])'
  BY <1>2 DEF InShape
<1> QED BY <1>1, <1>3

\* The record a call goes on with.
LEMMA BecomesJob ==
  ASSUME ConfigTypes, NEW c \in Calls, NEW step \in {"idle", "save", "write", "skills", "push", "drop"},
         Becomes(c, step)
  PROVE  \E j \in CallRecords :
           /\ call' = [call EXCEPT ![c] = j] /\ j.step = step
           /\ step = "idle" => InShape(j)
           /\ step # "idle" =>
                /\ j.kind = call[c].kind /\ j.new = call[c].new /\ j.old = call[c].old
                /\ j.name = call[c].name /\ j.skill = call[c].skill /\ j.was = call[c].was
<1>1. CASE step = "idle"
  <2>1. call' = [call EXCEPT ![c] = Idle]
    BY <1>1 DEF Becomes
  <2>2. Idle.step = "idle"
    BY DEF Idle
  <2> QED BY <1>1, <2>1, <2>2, IdleType
<1>2. CASE step # "idle"
  <2> DEFINE j == [call[c] EXCEPT !.step = step]
  <2>1. call' = [call EXCEPT ![c] = j]
    BY <1>2 DEF Becomes
  <2>2. call[c] \in CallRecords
    BY DEF ConfigTypes
  <2>3. /\ j \in CallRecords /\ j.step = step
        /\ j.kind = call[c].kind /\ j.new = call[c].new /\ j.old = call[c].old
        /\ j.name = call[c].name /\ j.skill = call[c].skill /\ j.was = call[c].was
    BY <2>2 DEF CallRecords
  <2> QED BY <1>2, <2>1, <2>3
<1> QED BY <1>1, <1>2

LEMMA RowsAreEqual ==
  ASSUME NEW r \in AgentRows, NEW s \in AgentRows,
         r.role = s.role, r.mcp = s.mcp, r.text = s.text, r.tags = s.tags
  PROVE  r = s
BY DEF AgentRows

-----------------------------------------------------------------------------
\* A step of a call that overlaps with nothing

LEMMA CallIsAlone ==
  ASSUME ConfigInv, ~raced, NEW c \in Calls, call[c].step # "idle"
  PROVE  Alone(c) /\ ~Deploying /\ Knows(call[c]) /\ (Running => FilesHold(call[c]))
<1>1. Undisturbed /\ ~AllIdle
  BY DEF ConfigInv, AllIdle
<1>2. PICK e \in Calls : /\ call[e].step # "idle" /\ Alone(e) /\ ~Deploying
                         /\ Knows(call[e]) /\ (Running => FilesHold(call[e]))
  BY <1>1 DEF Undisturbed
<1>3. e = c
  BY <1>2 DEF Alone
<1> QED BY <1>2, <1>3

LEMMA CallGoesOn ==
  ASSUME ConfigTypes, NEW c \in Calls, NEW j \in CallRecords, call' = [call EXCEPT ![c] = j],
         Alone(c), ~Deploying, phase' = phase,
         j.step # "idle" => Knows(j)', Running' => FilesHold(j)'
  PROVE  Undisturbed'
<1>1. /\ call' \in [Calls -> CallRecords] /\ call'[c] = j
      /\ \A e \in Calls \ {c} : call'[e] = call[e]
  BY DEF ConfigTypes
<1>2. \A e \in Calls \ {c} : call'[e].step = "idle"
  BY <1>1 DEF Alone
<1>3. ~Deploying'
  BY DEF Deploying
<1>4. CASE j.step = "idle"
  <2>1. AllIdle'
    BY <1>1, <1>2, <1>4 DEF AllIdle
  <2>2. BootKnows'
    BY <1>3 DEF BootKnows, Deploying
  <2>3. ASSUME Running' PROVE FilesHold(Idle)'
    <3>1. Idle'.step = "idle"
      BY DEF Idle
    <3>2. DocsHeld(j)' /\ SkillsHeld(j)' /\ SecretsHeld(j)'
      BY <2>3 DEF FilesHold
    <3>3. DocsHeld(Idle)'
      BY <3>1, <3>2, <1>4 DEF DocsHeld
    <3>4. SkillsHeld(Idle)'
      BY <3>1, <3>2, <1>4 DEF SkillsHeld, AboutToWrite
    <3>5. SecretsHeld(Idle)'
      BY <3>1, <3>2, <1>4 DEF SecretsHeld
    <3> QED BY <3>3, <3>4, <3>5 DEF FilesHold
  <2> QED BY <2>1, <2>2, <2>3 DEF Undisturbed
<1>5. CASE j.step # "idle"
  <2>1. call'[c].step # "idle"
    BY <1>1, <1>5
  <2>2. Alone(c)'
    BY <1>2 DEF Alone
  <2>3. Knows(call[c])'
    BY <1>1, <1>5 DEF Knows
  <2>4. ASSUME Running' PROVE FilesHold(call[c])'
    <3>1. DocsHeld(j)' /\ SkillsHeld(j)' /\ SecretsHeld(j)'
      BY <2>4 DEF FilesHold
    <3>2. DocsHeld(call[c])'
      BY <3>1, <1>1 DEF DocsHeld
    <3>3. SkillsHeld(call[c])'
      BY <3>1, <1>1 DEF SkillsHeld, AboutToWrite
    <3>4. SecretsHeld(call[c])'
      BY <3>1, <1>1 DEF SecretsHeld
    <3> QED BY <3>2, <3>3, <3>4 DEF FilesHold
  <2> QED BY <1>3, <2>1, <2>2, <2>3, <2>4 DEF Undisturbed
<1> QED BY <1>4, <1>5

\* A call that begins undisturbed finds everything at rest.
LEMMA CallBegins ==
  ASSUME ConfigInv, NEW c \in Calls, NEW j \in CallRecords, InShape(j), Begin(c, j)
  PROVE  /\ call' = [call EXCEPT ![c] = j] /\ raced' \in BOOLEAN
         /\ call' \in [Calls -> CallRecords] /\ \A e \in Calls : InShape(call[e])'
         /\ ~raced' => /\ Alone(c) /\ ~Deploying /\ (Running => FilesHold(Idle))
<1>1. call' = [call EXCEPT ![c] = j] /\ raced' = (raced \/ InFlight \/ Deploying)
  BY DEF Begin
<1>2. raced' \in BOOLEAN
  BY <1>1 DEF ConfigInv, ConfigTypes, InFlight, Deploying
<1>3. ASSUME ~raced' PROVE Alone(c) /\ ~Deploying /\ (Running => FilesHold(Idle))
  <2>1. ~raced /\ ~InFlight /\ ~Deploying
    BY <1>1, <1>3
  <2>2. AllIdle
    BY <2>1 DEF AllIdle, InFlight
  <2> QED BY <2>1, <2>2 DEF ConfigInv, Undisturbed, AllIdle, Alone
<1> QED BY <1>1, <1>2, <1>3, CallTypes DEF ConfigInv

-----------------------------------------------------------------------------
\* Deployments

LEMMA FilesAtRest ==
  ASSUME FilesHold(Idle)
  PROVE  /\ disk.claude = Doc(row) /\ disk.mcp = row.mcp
         /\ \A n \in Skills : Matches(skills[n], row.tags) => disk.dirs[n] = skills[n].text
         /\ ~Empty(Merged) => disk.secrets = Merged
<1>1. Idle.step = "idle"
  BY DEF Idle
<1> QED BY <1>1 DEF FilesHold, DocsHeld, SkillsHeld, SecretsHeld, AboutToWrite

LEMMA RestingFiles ==
  ASSUME (disk.claude = Doc(row))', (disk.mcp = row.mcp)', (disk.secrets = Merged)',
         (\A n \in Skills : Matches(skills[n], row.tags) => disk.dirs[n] = skills[n].text)'
  PROVE  FilesHold(Idle)'
<1>1. Idle'.step = "idle"
  BY DEF Idle
<1> QED BY <1>1 DEF FilesHold, DocsHeld, SkillsHeld, SecretsHeld, AboutToWrite

\* A deployment under way and nothing overlapped: no call is in flight.
LEMMA DeployIsAlone ==
  ASSUME ConfigInv, ~raced, Deploying PROVE AllIdle /\ BootKnows
BY DEF ConfigInv, Undisturbed

LEMMA DeployStartKeeps == ASSUME ConfigInv, DeployStart PROVE ConfigInv'
<1>1. /\ phase' = "fetched" /\ boot' = [boot EXCEPT !.secrets = Merged] /\ raced' = InFlight
      /\ UNCHANGED <<row, skills, project, account, disk, call>>
  BY DEF DeployStart
<1>2. ConfigTypes'
  <2>1. boot' \in [row : AgentRows, secrets : Secrets]
    BY <1>1, MergedType DEF ConfigInv, ConfigTypes
  <2>2. raced' \in BOOLEAN
    BY <1>1 DEF InFlight
  <2> QED BY <1>1, <2>1, <2>2 DEF ConfigInv, ConfigTypes, InShape
<1>3. ASSUME ~raced' PROVE Undisturbed'
  <2>1. AllIdle'
    BY <1>1, <1>3 DEF AllIdle, InFlight
  <2>2. boot'.secrets = Merged /\ Merged' = Merged
    BY <1>1 DEF Merged, ConfigInv, ConfigTypes
  <2>3. BootKnows' /\ ~Running'
    BY <1>1, <2>2 DEF BootKnows, Running
  <2> QED BY <2>1, <2>3 DEF Undisturbed
<1> QED BY <1>2, <1>3 DEF ConfigInv

LEMMA DeployReadKeeps == ASSUME ConfigInv, DeployRead PROVE ConfigInv'
<1>1. /\ phase = "fetched" /\ phase' = "read" /\ boot' = [boot EXCEPT !.row = row]
      /\ UNCHANGED <<row, skills, project, account, disk, call, raced, spent>>
  BY DEF DeployRead
<1>2. ConfigTypes'
  <2>1. boot' \in [row : AgentRows, secrets : Secrets]
    BY <1>1 DEF ConfigInv, ConfigTypes
  <2> QED BY <1>1, <2>1 DEF ConfigInv, ConfigTypes, InShape
<1>3. ASSUME ~raced' PROVE Undisturbed'
  <2>1. AllIdle /\ boot.secrets = Merged
    BY <1>1, <1>3, DeployIsAlone DEF BootKnows, Deploying
  <2>2. boot'.row = row /\ boot'.secrets = Merged /\ Merged' = Merged
    BY <1>1, <2>1 DEF Merged, ConfigInv, ConfigTypes
  <2>3. BootKnows' /\ ~Running'
    BY <1>1, <2>2 DEF BootKnows, Running
  <2>4. AllIdle'
    BY <1>1, <2>1 DEF AllIdle
  <2> QED BY <2>3, <2>4 DEF Undisturbed
<1> QED BY <1>2, <1>3 DEF ConfigInv

LEMMA DeployWriteKeeps == ASSUME ConfigInv, DeployWrite PROVE ConfigInv'
<1> DEFINE dirs == [n \in Skills |-> IF Matches(skills[n], boot.row.tags) THEN skills[n].text
                                     ELSE disk.dirs[n]]
<1>1. /\ phase = "read" /\ phase' = "written"
      /\ UNCHANGED <<row, skills, project, account, boot, call, raced, spent>>
  BY DEF DeployWrite
<1>2. disk' = [disk EXCEPT !.claude = Doc(boot.row), !.mcp = boot.row.mcp,
                           !.env = McpEnv(boot.row.mcp, boot.secrets),
                           !.secrets = boot.secrets, !.dirs = dirs]
  BY DEF DeployWrite
<1>3. dirs \in [Skills -> 0..2] /\ boot.row \in AgentRows /\ boot.secrets \in Secrets
      /\ Doc(boot.row) \in Docs /\ boot.row.mcp \in BOOLEAN
  <2>1. boot.row \in AgentRows /\ boot.secrets \in Secrets /\ disk.dirs \in [Skills -> 0..2]
    BY DEF ConfigInv, ConfigTypes, Disks
  <2>2. \A n \in Skills : skills[n].text \in 0..2
    BY DEF ConfigInv, ConfigTypes, SkillRows, SkillRecords, NoSkill, None
  <2> QED BY <2>1, <2>2, DocType DEF AgentRows
<1>4. /\ disk'.claude = Doc(boot.row) /\ disk'.mcp = boot.row.mcp
      /\ disk'.env = McpEnv(boot.row.mcp, boot.secrets) /\ disk'.secrets = boot.secrets
      /\ disk'.dirs = dirs
  BY <1>2 DEF ConfigInv, ConfigTypes, Disks
<1>5. ConfigTypes'
  <2>1. disk' \in Disks
    BY <1>2, <1>3, EnvType DEF ConfigInv, ConfigTypes, Disks
  <2>2. \A k \in Keys : disk'.env[k] # None => k = McpKey
    BY <1>3, <1>4, EnvType
  <2> QED BY <1>1, <2>1, <2>2 DEF ConfigInv, ConfigTypes, InShape
<1>6. ASSUME ~raced' PROVE Undisturbed'
  <2>1. AllIdle /\ boot.secrets = Merged /\ boot.row = row
    BY <1>1, <1>6, DeployIsAlone DEF BootKnows, Deploying
  <2>2. Merged' = Merged
    BY <1>1 DEF Merged
  <2>3. disk'.claude = Doc(row)' /\ disk'.mcp = row'.mcp /\ disk'.secrets = Merged'
    BY <1>1, <1>4, <2>1, <2>2 DEF Doc
  <2>4. (\A n \in Skills : Matches(skills[n], row.tags) => disk.dirs[n] = skills[n].text)'
    <3> SUFFICES ASSUME NEW n \in Skills, Matches(skills[n], row.tags)
                 PROVE  disk'.dirs[n] = skills[n].text
      BY <1>1 DEF Matches
    <3>1. dirs[n] = skills[n].text
      BY <2>1
    <3> QED BY <1>4, <3>1
  <2>5. FilesHold(Idle)'
    BY <2>3, <2>4, RestingFiles
  <2>6. BootKnows' /\ ~Running'
    BY <1>1, <2>1, <2>2, <2>5 DEF BootKnows, Running
  <2>7. AllIdle'
    BY <1>1, <2>1 DEF AllIdle
  <2> QED BY <2>6, <2>7 DEF Undisturbed
<1> QED BY <1>5, <1>6 DEF ConfigInv

LEMMA ChangePhaseKeeps == ASSUME ConfigInv, ChangePhase PROVE ConfigInv'
<1>1. /\ \/ phase = "written" /\ phase' = "up"
         \/ phase = "up" /\ phase' = "down"
      /\ UNCHANGED <<row, skills, project, account, boot, disk, call, raced, spent>>
  BY DEF ChangePhase
<1>2. ConfigTypes'
  BY <1>1 DEF ConfigInv, ConfigTypes, InShape
<1>3. ~Deploying' /\ BootKnows'
  BY <1>1 DEF Deploying, BootKnows
<1>4. ASSUME ~raced' PROVE Undisturbed'
  <2>1. CASE phase = "written"
    <3>1. AllIdle /\ FilesHold(Idle)
      BY <1>1, <1>4, <2>1, DeployIsAlone DEF BootKnows, Deploying
    <3>2. FilesHold(Idle)'
      BY <1>1, <3>1 DEF FilesHold, DocsHeld, SkillsHeld, SecretsHeld, AboutToWrite, Idle,
                        Merged, Empty, Doc, Matches
    <3> QED BY <1>1, <1>3, <3>1, <3>2 DEF Undisturbed, AllIdle
  <2>2. CASE phase = "up"
    <3>1. ~Running'
      BY <1>1, <2>2 DEF Running
    <3>2. CASE AllIdle
      BY <1>1, <1>3, <3>1, <3>2 DEF Undisturbed, AllIdle
    <3>3. CASE ~AllIdle
      <4>1. PICK c \in Calls : call[c].step # "idle"
        BY <3>3 DEF AllIdle
      <4>2. Alone(c) /\ Knows(call[c])
        BY <1>1, <1>4, <4>1, CallIsAlone
      <4>3. Alone(c)'
        BY <1>1, <4>2 DEF Alone
      <4>4. Knows(call[c])'
        BY <1>1, <3>1, <4>2 DEF Knows
      <4> QED BY <1>1, <1>3, <3>1, <4>1, <4>3, <4>4 DEF Undisturbed
    <3> QED BY <3>2, <3>3
  <2> QED BY <1>1, <2>1, <2>2
<1> QED BY <1>2, <1>4 DEF ConfigInv

LEMMA AccountKeeps == ASSUME ConfigInv, ChangeAccountSecret PROVE ConfigInv'
<1>1. raced' = TRUE /\ UNCHANGED <<row, skills, project, phase, boot, disk, call>>
  BY DEF ChangeAccountSecret
<1>2. account' \subseteq Keys
  BY DEF ChangeAccountSecret, ConfigInv, ConfigTypes
<1> QED BY <1>1, <1>2 DEF ConfigInv, ConfigTypes, InShape

-----------------------------------------------------------------------------
\* Calls about the agent

\* What a call that begins, or goes on, leaves alone of the types.
LEMMA TypesKept ==
  ASSUME ConfigInv, phase' = phase, boot' = boot, raced' \in BOOLEAN,
         call' \in [Calls -> CallRecords], \A c \in Calls : InShape(call[c])',
         row' \in AgentRows, skills' \in [Skills -> SkillRows],
         project' \in Secrets, account' \subseteq Keys,
         disk' \in Disks, \A k \in Keys : disk'.env[k] # None => k = McpKey
  PROVE  ConfigTypes'
BY DEF ConfigInv, ConfigTypes

\* A job that has nothing to write yet finds the files as they were at rest.
LEMMA FilesUntouched ==
  ASSUME FilesHold(Idle), NEW j, j.step = "save" \/ (j.step = "push" /\ j.kind = "delete"),
         UNCHANGED <<row, skills, project, account, disk>>
  PROVE  FilesHold(j)'
<1>1. DocsHeld(j)'
  BY FilesAtRest DEF DocsHeld, Doc
<1>2. SkillsHeld(j)'
  BY FilesAtRest DEF SkillsHeld, Matches
<1>3. SecretsHeld(j)'
  BY FilesAtRest DEF SecretsHeld, Merged, Empty
<1> QED BY <1>1, <1>2, <1>3 DEF FilesHold

LEMMA LoadKeeps == ASSUME ConfigInv, NEW c \in Calls, LoadAgent(c) PROVE ConfigInv'
<1>1. UNCHANGED <<row, skills, project, account, phase, boot, disk>>
  BY DEF LoadAgent
<1>2. PICK j \in CallRecords :
        /\ Begin(c, j) /\ j.step = "save" /\ j.old = row
        /\ \/ /\ j.kind = "instructions" /\ j.was = (phase \in {"written", "up"})
              /\ j.new.role = row.role /\ j.new.mcp = row.mcp /\ j.new.tags = row.tags
           \/ j.kind = "config" /\ j.new.text = row.text
  <2>0. Idle \in CallRecords /\ Idle.old = row /\ row \in AgentRows
    BY IdleType DEF ConfigInv, ConfigTypes, Idle
  <2>1. ASSUME NEW text \in {1, 2},
               Begin(c, [Idle EXCEPT !.kind = "instructions", !.step = "save",
                                     !.new = [row EXCEPT !.text = text],
                                     !.was = phase \in {"written", "up"}])
        PROVE  \E j \in CallRecords :
                 /\ Begin(c, j) /\ j.step = "save" /\ j.old = row
                 /\ j.kind = "instructions" /\ j.was = (phase \in {"written", "up"})
                 /\ j.new.role = row.role /\ j.new.mcp = row.mcp /\ j.new.tags = row.tags
    <3> DEFINE new == [row EXCEPT !.text = text]
               was == phase \in {"written", "up"}
               j == [Idle EXCEPT !.kind = "instructions", !.step = "save", !.new = new, !.was = was]
    <3>1. new \in AgentRows /\ new.role = row.role /\ new.mcp = row.mcp /\ new.tags = row.tags
      BY <2>0 DEF AgentRows
    <3>2. was \in BOOLEAN
      OBVIOUS
    <3>3. Begin(c, j)
      BY <2>1
    <3> HIDE DEF new, was
    <3>4. /\ j \in CallRecords /\ j.step = "save" /\ j.old = row /\ j.kind = "instructions"
          /\ j.was = was /\ j.new = new
      BY <2>0, <3>1, <3>2 DEF CallRecords
    <3>5. was = (phase \in {"written", "up"})
      BY DEF was
    <3> QED BY <3>1, <3>3, <3>4, <3>5
  <2>2. ASSUME NEW new \in AgentRows, new.text = row.text,
               Begin(c, [Idle EXCEPT !.kind = "config", !.step = "save", !.new = new])
        PROVE  \E j \in CallRecords :
                 /\ Begin(c, j) /\ j.step = "save" /\ j.old = row
                 /\ j.kind = "config" /\ j.new.text = row.text
    <3> DEFINE j == [Idle EXCEPT !.kind = "config", !.step = "save", !.new = new]
    <3>1. /\ j \in CallRecords /\ j.step = "save" /\ j.old = row /\ j.kind = "config"
          /\ j.new = new
      BY <2>0, <2>2 DEF CallRecords
    <3>2. Begin(c, j)
      BY <2>2
    <3> QED BY <2>2, <3>1, <3>2
  <2>3. CASE \E text \in {1, 2} : text # row.text /\
               Begin(c, [Idle EXCEPT !.kind = "instructions", !.step = "save",
                                     !.new = [row EXCEPT !.text = text],
                                     !.was = phase \in {"written", "up"}])
    BY <2>1, <2>3
  <2>4. CASE \E new \in {[row EXCEPT !.role = 3 - @], [row EXCEPT !.mcp = ~@]}
                            \cup {[row EXCEPT !.tags = tags] : tags \in SUBSET Tags} :
               new # row /\ Begin(c, [Idle EXCEPT !.kind = "config", !.step = "save", !.new = new])
    <3>1. [row EXCEPT !.role = 3 - @] \in AgentRows /\ [row EXCEPT !.mcp = ~@] \in AgentRows
      <4>1. 3 - row.role \in {1, 2} /\ (~row.mcp) \in BOOLEAN
        BY <2>0 DEF AgentRows
      <4>2. \A role \in {1, 2} : [row EXCEPT !.role = role] \in AgentRows
        BY <2>0 DEF AgentRows
      <4>3. \A mcp \in BOOLEAN : [row EXCEPT !.mcp = mcp] \in AgentRows
        BY <2>0, Zenon DEF AgentRows
      <4> QED BY <4>1, <4>2, <4>3
    <3>2. [row EXCEPT !.role = 3 - @].text = row.text /\ [row EXCEPT !.mcp = ~@].text = row.text
      BY <2>0 DEF AgentRows
    <3>3. \A tags \in SUBSET Tags :
            [row EXCEPT !.tags = tags] \in AgentRows /\ [row EXCEPT !.tags = tags].text = row.text
      BY <2>0 DEF AgentRows
    <3> HIDE <2>0
    <3> QED BY <2>2, <2>4, <3>1, <3>2, <3>3
  <2> QED BY <2>3, <2>4 DEF LoadAgent
<1>3. InShape(j)
  BY <1>2 DEF InShape
<1>4. /\ call' = [call EXCEPT ![c] = j] /\ raced' \in BOOLEAN
      /\ call' \in [Calls -> CallRecords] /\ \A e \in Calls : InShape(call[e])'
      /\ ~raced' => Alone(c) /\ ~Deploying /\ (Running => FilesHold(Idle))
  BY <1>2, <1>3, CallBegins
<1>5. ConfigTypes'
  BY <1>1, <1>4, TypesKept DEF ConfigInv, ConfigTypes
<1>6. ASSUME ~raced' PROVE Undisturbed'
  <2>1. Knows(j)'
    BY <1>1, <1>2 DEF Knows, Running
  <2>2. Running' => FilesHold(j)'
    BY <1>1, <1>2, <1>4, <1>6, FilesUntouched DEF Running
  <2> QED BY <1>1, <1>4, <1>6, <2>1, <2>2, CallGoesOn DEF ConfigInv
<1> QED BY <1>5, <1>6 DEF ConfigInv

LEMMA SaveAgentKeeps == ASSUME ConfigInv, NEW c \in Calls, SaveAgent(c) PROVE ConfigInv'
<1> DEFINE doing == call[c]
<1>0. doing \in CallRecords /\ InShape(doing) /\ row \in AgentRows /\ doing.new \in AgentRows
      /\ doing.old \in AgentRows
  BY DEF ConfigInv, ConfigTypes, CallRecords
<1>1. /\ doing.step = "save" /\ doing.kind \in {"instructions", "config"}
      /\ UNCHANGED <<skills, project, account, phase, boot, disk, raced>>
  BY <1>0 DEF SaveAgent, InShape
<1>2. PICK step \in {"idle", "write"} :
        Becomes(c, step) /\ (step = "idle" => doing.kind = "instructions" /\ ~doing.was)
  BY DEF SaveAgent
<1>3. PICK j \in CallRecords :
        /\ call' = [call EXCEPT ![c] = j] /\ j.step = step
        /\ step = "idle" => InShape(j)
        /\ step # "idle" =>
             /\ j.kind = doing.kind /\ j.new = doing.new /\ j.old = doing.old
             /\ j.name = doing.name /\ j.skill = doing.skill /\ j.was = doing.was
  BY <1>2, BecomesJob DEF ConfigInv
<1>4. InShape(j)
  BY <1>1, <1>2, <1>3 DEF InShape
<1>5. /\ row' \in AgentRows
      /\ doing.kind = "instructions" =>
           row'.text = doing.new.text /\ row'.role = row.role /\ row'.mcp = row.mcp
           /\ row'.tags = row.tags
      /\ doing.kind = "config" =>
           row'.text = row.text /\ row'.role = doing.new.role /\ row'.mcp = doing.new.mcp
           /\ row'.tags = IF doing.new.tags # doing.old.tags THEN doing.new.tags ELSE row.tags
  BY <1>0, <1>1 DEF SaveAgent, AgentRows
<1>6. ConfigTypes'
  BY <1>1, <1>3, <1>4, <1>5, CallTypes, TypesKept DEF ConfigInv, ConfigTypes
<1>7. ASSUME ~raced' PROVE Undisturbed'
  <2>1. Alone(c) /\ ~Deploying /\ Knows(doing) /\ (Running => FilesHold(doing))
    BY <1>1, <1>7, CallIsAlone
  <2>2. doing.old = row
    BY <1>1, <2>1 DEF Knows
  <2>3. row' = doing.new
    BY <1>0, <1>1, <1>5, <2>1, <2>2, RowsAreEqual DEF Knows
  <2>4. j.step # "idle" => Knows(j)'
    BY <1>1, <1>2, <1>3, <2>1, <2>3 DEF Knows, Running
  <2>5. ASSUME Running' PROVE FilesHold(j)'
    <3>1. Running /\ j.step = "write" /\ j.old = row
      BY <1>1, <1>2, <1>3, <2>1, <2>2, <2>5 DEF Running, Knows
    <3>2. FilesHold(doing)
      BY <2>1, <3>1
    <3>3. DocsHeld(j)'
      BY <1>1, <3>1, <3>2 DEF FilesHold, DocsHeld, Doc
    <3>4. SkillsHeld(j)'
      BY <1>1, <3>1, <3>2 DEF FilesHold, SkillsHeld, AboutToWrite, Matches
    <3>5. SecretsHeld(j)'
      BY <1>1, <3>1, <3>2 DEF FilesHold, SecretsHeld, Merged, Empty
    <3> QED BY <3>3, <3>4, <3>5 DEF FilesHold
  <2> QED BY <1>1, <1>3, <2>1, <2>4, <2>5, CallGoesOn DEF ConfigInv
<1> QED BY <1>6, <1>7 DEF ConfigInv

LEMMA WriteAgentKeeps == ASSUME ConfigInv, NEW c \in Calls, WriteAgent(c) PROVE ConfigInv'
<1> DEFINE doing == call[c]
<1>0. /\ doing \in CallRecords /\ InShape(doing) /\ doing.new \in AgentRows /\ doing.old \in AgentRows
      /\ disk \in Disks /\ \A k \in Keys : disk.env[k] # None => k = McpKey
  BY DEF ConfigInv, ConfigTypes, CallRecords
<1>1. /\ doing.step = "write" /\ doing.kind \in {"instructions", "config"}
      /\ UNCHANGED <<row, skills, project, account, phase, boot, raced>>
  BY <1>0 DEF WriteAgent, InShape
<1>2. /\ Becomes(c, IF doing.new.tags # doing.old.tags THEN "skills" ELSE "idle")
      /\ disk' = IF doing.kind = "instructions" THEN [disk EXCEPT !.claude = Doc(doing.new)]
                 ELSE IF Doc(doing.new) # Doc(doing.old)
                 THEN [disk EXCEPT !.claude = Doc(doing.new), !.mcp = doing.new.mcp,
                                   !.env = McpEnv(FALSE, Merged)]
                 ELSE disk
  BY DEF WriteAgent
<1>3. PICK j \in CallRecords :
        /\ call' = [call EXCEPT ![c] = j]
        /\ j.step = IF doing.new.tags # doing.old.tags THEN "skills" ELSE "idle"
        /\ j.step = "idle" => InShape(j)
        /\ j.step # "idle" =>
             /\ j.kind = doing.kind /\ j.new = doing.new /\ j.old = doing.old
             /\ j.name = doing.name /\ j.skill = doing.skill /\ j.was = doing.was
  BY <1>2, BecomesJob DEF ConfigInv
<1>4. InShape(j)
  BY <1>1, <1>3 DEF InShape
<1>5. /\ disk' \in Disks /\ \A k \in Keys : disk'.env[k] # None => k = McpKey
      /\ disk'.secrets = disk.secrets /\ disk'.dirs = disk.dirs
      /\ doing.kind = "instructions" => disk'.claude = Doc(doing.new) /\ disk'.mcp = disk.mcp
      /\ doing.kind = "config" =>
           IF Doc(doing.new) # Doc(doing.old)
           THEN disk'.claude = Doc(doing.new) /\ disk'.mcp = doing.new.mcp
           ELSE disk'.claude = disk.claude /\ disk'.mcp = disk.mcp
  <2>1. Doc(doing.new) \in Docs /\ doing.new.mcp \in BOOLEAN
    BY <1>0, DocType DEF AgentRows
  <2>2. /\ McpEnv(FALSE, Merged) \in Secrets
        /\ \A k \in Keys : McpEnv(FALSE, Merged)[k] # None => k = McpKey
    BY MergedType, EnvType DEF ConfigInv
  <2> DEFINE env == McpEnv(FALSE, Merged)
             doc == Doc(doing.new)
  <2>3. doc \in Docs /\ env \in Secrets /\ \A k \in Keys : env[k] # None => k = McpKey
    BY <2>1, <2>2
  <2>4. disk' = IF doing.kind = "instructions" THEN [disk EXCEPT !.claude = doc]
                ELSE IF doc # Doc(doing.old)
                THEN [disk EXCEPT !.claude = doc, !.mcp = doing.new.mcp, !.env = env]
                ELSE disk
    BY <1>2
  <2> HIDE DEF env, doc
  <2>5. CASE doing.kind = "instructions"
    BY <1>0, <2>1, <2>3, <2>4, <2>5 DEF Disks, doc
  <2>6. CASE doing.kind = "config" /\ doc # Doc(doing.old)
    <3>1. disk' = [disk EXCEPT !.claude = doc, !.mcp = doing.new.mcp, !.env = env]
      BY <2>4, <2>6
    <3>2. disk' \in Disks /\ disk'.env = env /\ disk'.secrets = disk.secrets
          /\ disk'.dirs = disk.dirs /\ disk'.claude = doc /\ disk'.mcp = doing.new.mcp
      BY <1>0, <2>1, <2>3, <3>1 DEF Disks
    <3> QED BY <2>3, <2>6, <3>2 DEF doc
  <2>7. CASE doing.kind = "config" /\ doc = Doc(doing.old)
    BY <1>0, <2>4, <2>7 DEF doc
  <2> QED BY <1>1, <2>5, <2>6, <2>7
<1>6. ConfigTypes'
  BY <1>1, <1>3, <1>4, <1>5, CallTypes, TypesKept DEF ConfigInv, ConfigTypes
<1>7. ASSUME ~raced' PROVE Undisturbed'
  <2>1. Alone(c) /\ ~Deploying /\ Knows(doing) /\ (Running => FilesHold(doing))
    BY <1>1, <1>7, CallIsAlone
  <2>2. doing.new = row
    BY <1>1, <2>1 DEF Knows
  <2>3. j.step # "idle" => Knows(j)'
    BY <1>1, <1>3, <2>1 DEF Knows, Running
  <2>4. ASSUME Running' PROVE FilesHold(j)'
    <3>1. FilesHold(doing)
      BY <1>1, <2>1, <2>4 DEF Running
    <3>2. disk.claude = Doc(doing.old) /\ disk.mcp = doing.old.mcp
      BY <1>1, <3>1 DEF FilesHold, DocsHeld
    <3>3. disk'.claude = Doc(doing.new) /\ disk'.mcp = doing.new.mcp
      BY <1>1, <1>5, <2>1, <3>2 DEF Knows, Doc
    <3>4. DocsHeld(j)'
      BY <1>1, <1>3, <2>2, <3>3 DEF DocsHeld, Doc
    <3>5. SkillsHeld(j)'
      <4>1. \A n \in Skills : Matches(skills[n], doing.old.tags) => disk.dirs[n] = skills[n].text
        BY <1>1, <3>1 DEF FilesHold, SkillsHeld, AboutToWrite
      <4>2. ~AboutToWrite(j, None) /\ (j.step = "skills" => j.old.tags = doing.old.tags)
            /\ (j.step = "idle" => doing.old.tags = row.tags) /\ j.step \in {"idle", "skills"}
        BY <1>3, <2>2 DEF AboutToWrite
      <4> QED BY <1>1, <1>5, <4>1, <4>2 DEF SkillsHeld, AboutToWrite, Matches
    <3>6. SecretsHeld(j)'
      BY <1>1, <1>5, <3>1 DEF FilesHold, SecretsHeld, Merged, Empty
    <3> QED BY <3>4, <3>5, <3>6 DEF FilesHold
  <2> QED BY <1>1, <1>3, <2>1, <2>3, <2>4, CallGoesOn DEF ConfigInv
<1> QED BY <1>6, <1>7 DEF ConfigInv

LEMMA WriteSkillsKeeps == ASSUME ConfigInv, NEW c \in Calls, WriteSkills(c) PROVE ConfigInv'
<1> DEFINE doing == call[c]
           Now(n) == Matches(skills[n], doing.new.tags)
           Before(n) == Matches(skills[n], doing.old.tags)
           dirs == [n \in Skills |-> IF Now(n) /\ ~Before(n) THEN skills[n].text
                                    ELSE IF Before(n) /\ ~Now(n) THEN None ELSE disk.dirs[n]]
<1>0. /\ disk \in Disks /\ disk.dirs \in [Skills -> 0..2]
      /\ \A n \in Skills : skills[n].text \in 0..2
      /\ \A k \in Keys : disk.env[k] # None => k = McpKey
  BY DEF ConfigInv, ConfigTypes, Disks, SkillRows, SkillRecords, NoSkill, None
<1>1. /\ doing.step = "skills" /\ Becomes(c, "idle") /\ disk' = [disk EXCEPT !.dirs = dirs]
      /\ UNCHANGED <<row, skills, project, account, phase, boot, raced>>
  BY DEF WriteSkills
<1>2. PICK j \in CallRecords : call' = [call EXCEPT ![c] = j] /\ j.step = "idle" /\ InShape(j)
  BY <1>1, BecomesJob DEF ConfigInv
<1>3. dirs \in [Skills -> 0..2]
  BY <1>0 DEF None
<1>4. \A n \in Skills : dirs[n] = IF Now(n) /\ ~Before(n) THEN skills[n].text
                                  ELSE IF Before(n) /\ ~Now(n) THEN None ELSE disk.dirs[n]
  OBVIOUS
<1> HIDE DEF dirs, Now, Before
<1>5. /\ disk' \in Disks /\ disk'.env = disk.env /\ disk'.secrets = disk.secrets
      /\ disk'.claude = disk.claude /\ disk'.mcp = disk.mcp /\ disk'.dirs = dirs
  BY <1>0, <1>1, <1>3 DEF Disks
<1>6. ConfigTypes'
  BY <1>0, <1>1, <1>2, <1>5, CallTypes, TypesKept DEF ConfigInv, ConfigTypes
<1>7. ASSUME ~raced' PROVE Undisturbed'
  <2>1. Alone(c) /\ ~Deploying /\ Knows(doing) /\ (Running => FilesHold(doing))
    BY <1>1, <1>7, CallIsAlone
  <2>2. doing.new = row
    BY <1>1, <2>1 DEF Knows
  <2>3. ASSUME Running' PROVE FilesHold(j)'
    <3>1. FilesHold(doing)
      BY <1>1, <2>1, <2>3 DEF Running
    <3>2. DocsHeld(j)'
      BY <1>1, <1>2, <1>5, <3>1 DEF FilesHold, DocsHeld, Doc
    <3>3. \A n \in Skills : Before(n) => disk.dirs[n] = skills[n].text
      BY <1>1, <3>1 DEF FilesHold, SkillsHeld, AboutToWrite, Before
    <3>4. \A n \in Skills : Now(n) => dirs[n] = skills[n].text
      BY <1>4, <3>3
    <3>5. SkillsHeld(j)'
      BY <1>1, <1>2, <1>5, <2>2, <3>4 DEF SkillsHeld, Matches, Now
    <3>6. SecretsHeld(j)'
      BY <1>1, <1>2, <1>5, <3>1 DEF FilesHold, SecretsHeld, Merged, Empty
    <3> QED BY <3>2, <3>5, <3>6 DEF FilesHold
  <2> QED BY <1>1, <1>2, <2>1, <2>3, CallGoesOn DEF ConfigInv
<1> QED BY <1>6, <1>7 DEF ConfigInv

-----------------------------------------------------------------------------
\* Calls about skills

LEMMA SaveSkillKeeps ==
  ASSUME ConfigInv, NEW c \in Calls, NEW n \in Skills, NEW skill \in SkillRecords,
         SaveSkill(c, n, skill)
  PROVE  ConfigInv'
<1>0. ConfigTypes
  BY DEF ConfigInv
<1> DEFINE was == skill.tags # skills[n].tags /\ Running /\ Matches(skills[n], row.tags)
<1>1. /\ skills' = [skills EXCEPT ![n] = skill]
      /\ Begin(c, [Idle EXCEPT !.kind = "skill", !.step = "push", !.name = n, !.skill = skill,
                               !.was = was])
      /\ UNCHANGED <<row, project, account, phase, boot, disk>>
  BY DEF SaveSkill
<1>2. was \in BOOLEAN /\ skill \in SkillRows
  BY DEF Running, SkillRows
<1> HIDE DEF was
<1>3. PICK j \in CallRecords : /\ Begin(c, j) /\ InShape(j) /\ j.kind = "skill" /\ j.step = "push"
                        /\ j.name = n /\ j.skill = skill
  <2> DEFINE j == [Idle EXCEPT !.kind = "skill", !.step = "push", !.name = n, !.skill = skill,
                              !.was = was]
  <2>1. Idle \in CallRecords
    BY <1>0, IdleType
  <2>2. /\ j \in CallRecords /\ j.kind = "skill" /\ j.step = "push" /\ j.name = n
        /\ j.skill = skill
    BY <1>2, <2>1 DEF CallRecords
  <2>3. Begin(c, j)
    BY <1>1
  <2> HIDE DEF j
  <2>4. InShape(j)
    BY <2>2 DEF InShape
  <2> QED BY <2>2, <2>3, <2>4
<1>4. /\ call' = [call EXCEPT ![c] = j] /\ raced' \in BOOLEAN
      /\ call' \in [Calls -> CallRecords] /\ \A e \in Calls : InShape(call[e])'
      /\ ~raced' => Alone(c) /\ ~Deploying /\ (Running => FilesHold(Idle))
  BY <1>3, CallBegins
<1>5. /\ skills' \in [Skills -> SkillRows] /\ skills'[n] = skill
      /\ \A m \in Skills \ {n} : skills'[m] = skills[m]
  BY <1>1, <1>2 DEF ConfigInv, ConfigTypes
<1>6. ConfigTypes'
  BY <1>1, <1>4, <1>5, TypesKept DEF ConfigInv, ConfigTypes
<1>7. ASSUME ~raced' PROVE Undisturbed'
  <2>1. Knows(j)'
    BY <1>3, <1>5 DEF Knows
  <2>2. ASSUME Running' PROVE FilesHold(j)'
    <3>1. FilesHold(Idle)
      BY <1>1, <1>4, <1>7, <2>2 DEF Running
    <3>2. DocsHeld(j)'
      BY <1>1, <1>3, <3>1, FilesAtRest DEF DocsHeld, Doc
    <3>3. SkillsHeld(j)'
      BY <1>1, <1>3, <1>5, <3>1, FilesAtRest DEF SkillsHeld, AboutToWrite, Matches
    <3>4. SecretsHeld(j)'
      BY <1>1, <1>3, <3>1, FilesAtRest DEF SecretsHeld, Merged, Empty
    <3> QED BY <3>2, <3>3, <3>4 DEF FilesHold
  <2> QED BY <1>1, <1>4, <1>7, <2>1, <2>2, CallGoesOn DEF ConfigInv
<1> QED BY <1>6, <1>7 DEF ConfigInv

LEMMA RenameSkillKeeps ==
  ASSUME ConfigInv, NEW c \in Calls, NEW n \in Skills, NEW m \in Skills, RenameSkill(c, n, m)
  PROVE  ConfigInv'
<1>0. ConfigTypes
  BY DEF ConfigInv
<1>1. /\ skills[n] # NoSkill /\ skills[m] = NoSkill
      /\ skills' = [skills EXCEPT ![n] = NoSkill, ![m] = skills[n]]
      /\ Begin(c, [Idle EXCEPT !.kind = "skill", !.step = "push", !.name = m,
                               !.skill = skills[n]])
      /\ UNCHANGED <<row, project, account, phase, boot, disk>>
  BY DEF RenameSkill
<1>2. skills[n] \in SkillRows /\ NoSkill \in SkillRows /\ n # m
  BY <1>1 DEF ConfigInv, ConfigTypes, SkillRows
<1>3. PICK j \in CallRecords : /\ Begin(c, j) /\ InShape(j) /\ j.kind = "skill" /\ j.step = "push"
                        /\ j.name = m /\ j.skill = skills[n]
  <2> DEFINE j == [Idle EXCEPT !.kind = "skill", !.step = "push", !.name = m,
                              !.skill = skills[n]]
  <2>1. Idle \in CallRecords
    BY <1>0, IdleType
  <2>2. /\ j \in CallRecords /\ j.kind = "skill" /\ j.step = "push" /\ j.name = m
        /\ j.skill = skills[n]
    BY <1>2, <2>1 DEF CallRecords
  <2>3. Begin(c, j)
    BY <1>1
  <2> HIDE DEF j
  <2>4. InShape(j)
    BY <2>2 DEF InShape
  <2> QED BY <2>2, <2>3, <2>4
<1>4. /\ call' = [call EXCEPT ![c] = j] /\ raced' \in BOOLEAN
      /\ call' \in [Calls -> CallRecords] /\ \A e \in Calls : InShape(call[e])'
      /\ ~raced' => Alone(c) /\ ~Deploying /\ (Running => FilesHold(Idle))
  BY <1>3, CallBegins
<1>5. /\ skills' \in [Skills -> SkillRows] /\ skills'[m] = skills[n] /\ skills'[n] = NoSkill
      /\ \A i \in Skills \ {n, m} : skills'[i] = skills[i]
  BY <1>1, <1>2 DEF ConfigInv, ConfigTypes
<1>6. ConfigTypes'
  BY <1>1, <1>4, <1>5, TypesKept DEF ConfigInv, ConfigTypes
<1>7. ASSUME ~raced' PROVE Undisturbed'
  <2>1. Knows(j)'
    BY <1>3, <1>5 DEF Knows
  <2>2. ASSUME Running' PROVE FilesHold(j)'
    <3>1. FilesHold(Idle)
      BY <1>1, <1>4, <1>7, <2>2 DEF Running
    <3>2. DocsHeld(j)'
      BY <1>1, <1>3, <3>1, FilesAtRest DEF DocsHeld, Doc
    <3>3. SkillsHeld(j)'
      BY <1>1, <1>3, <1>5, <3>1, FilesAtRest DEF SkillsHeld, AboutToWrite, Matches
    <3>4. SecretsHeld(j)'
      BY <1>1, <1>3, <3>1, FilesAtRest DEF SecretsHeld, Merged, Empty
    <3> QED BY <3>2, <3>3, <3>4 DEF FilesHold
  <2> QED BY <1>1, <1>4, <1>7, <2>1, <2>2, CallGoesOn DEF ConfigInv
<1> QED BY <1>6, <1>7 DEF ConfigInv

LEMMA DeleteSkillKeeps ==
  ASSUME ConfigInv, NEW c \in Calls, NEW n \in Skills, DeleteSkill(c, n) PROVE ConfigInv'
<1>0. ConfigTypes
  BY DEF ConfigInv
<1>1. /\ Begin(c, [Idle EXCEPT !.kind = "delete", !.step = "push", !.name = n,
                               !.skill = skills[n]])
      /\ UNCHANGED <<row, skills, project, account, phase, boot, disk>>
  BY DEF DeleteSkill
<1>2. skills[n] \in SkillRows
  BY DEF ConfigInv, ConfigTypes
<1>3. PICK j \in CallRecords : Begin(c, j) /\ InShape(j) /\ j.kind = "delete" /\ j.step = "push"
  <2> DEFINE j == [Idle EXCEPT !.kind = "delete", !.step = "push", !.name = n,
                              !.skill = skills[n]]
  <2>1. Idle \in CallRecords
    BY <1>0, IdleType
  <2>2. /\ j \in CallRecords /\ j.kind = "delete" /\ j.step = "push" /\ j.name = n
        /\ j.skill = skills[n]
    BY <1>2, <2>1 DEF CallRecords
  <2>3. Begin(c, j)
    BY <1>1
  <2> HIDE DEF j
  <2>4. InShape(j)
    BY <2>2 DEF InShape
  <2> QED BY <2>2, <2>3, <2>4
<1>4. /\ call' = [call EXCEPT ![c] = j] /\ raced' \in BOOLEAN
      /\ call' \in [Calls -> CallRecords] /\ \A e \in Calls : InShape(call[e])'
      /\ ~raced' => Alone(c) /\ ~Deploying /\ (Running => FilesHold(Idle))
  BY <1>3, CallBegins
<1>5. ConfigTypes'
  BY <1>1, <1>4, TypesKept DEF ConfigInv, ConfigTypes
<1>6. ASSUME ~raced' PROVE Undisturbed'
  <2>1. Knows(j)'
    BY <1>3 DEF Knows
  <2>2. Running' => FilesHold(j)'
    BY <1>1, <1>3, <1>4, <1>6, FilesUntouched DEF Running
  <2> QED BY <1>1, <1>4, <1>6, <2>1, <2>2, CallGoesOn DEF ConfigInv
<1> QED BY <1>5, <1>6 DEF ConfigInv

LEMMA PushSkillKeeps == ASSUME ConfigInv, NEW c \in Calls, PushSkill(c) PROVE ConfigInv'
<1> DEFINE doing == call[c]
           n == doing.name
           matching == Running /\ Matches(doing.skill, row.tags)
           text == IF doing.kind = "delete" THEN IF matching THEN None ELSE disk.dirs[n]
                   ELSE IF matching THEN doing.skill.text
                   ELSE IF doing.was THEN None ELSE disk.dirs[n]
<1>0. /\ doing \in CallRecords /\ InShape(doing) /\ disk \in Disks /\ disk.dirs \in [Skills -> 0..2]
      /\ \A k \in Keys : disk.env[k] # None => k = McpKey
  BY DEF ConfigInv, ConfigTypes, Disks
<1>1. /\ doing.step = "push" /\ doing.kind \in {"skill", "delete"} /\ n \in Skills
      /\ Becomes(c, IF doing.kind = "delete" THEN "drop" ELSE "idle")
      /\ disk' = [disk EXCEPT !.dirs[n] = text]
      /\ UNCHANGED <<row, skills, project, account, phase, boot, raced>>
  BY <1>0 DEF PushSkill, InShape
<1>2. PICK j \in CallRecords :
        /\ call' = [call EXCEPT ![c] = j]
        /\ j.step = IF doing.kind = "delete" THEN "drop" ELSE "idle"
        /\ j.step = "idle" => InShape(j)
        /\ j.step # "idle" => j.kind = doing.kind /\ j.name = doing.name
  BY <1>1, BecomesJob DEF ConfigInv
<1>3. InShape(j)
  BY <1>1, <1>2 DEF InShape
<1>4. text \in 0..2
  <2>1. doing.skill.text \in 0..2
    BY <1>0 DEF CallRecords, SkillRows, SkillRecords, NoSkill, None
  <2> QED BY <1>0, <1>1, <2>1 DEF None
<1>5. doing.kind = "skill" /\ matching => text = doing.skill.text
  BY <1>1
<1> HIDE DEF text
<1>6. /\ disk' \in Disks /\ disk'.env = disk.env /\ disk'.secrets = disk.secrets
      /\ disk'.claude = disk.claude /\ disk'.mcp = disk.mcp /\ disk'.dirs[n] = text
      /\ \A i \in Skills \ {n} : disk'.dirs[i] = disk.dirs[i]
  BY <1>0, <1>1, <1>4 DEF Disks
<1>7. ConfigTypes'
  BY <1>0, <1>1, <1>2, <1>3, <1>6, CallTypes, TypesKept DEF ConfigInv, ConfigTypes
<1>8. ASSUME ~raced' PROVE Undisturbed'
  <2>1. Alone(c) /\ ~Deploying /\ Knows(doing) /\ (Running => FilesHold(doing))
    BY <1>1, <1>8, CallIsAlone
  <2>2. j.step # "idle" => Knows(j)'
    BY <1>1, <1>2 DEF Knows
  <2>3. ASSUME Running' PROVE FilesHold(j)'
    <3>1. Running /\ FilesHold(doing)
      BY <1>1, <2>1, <2>3 DEF Running
    <3>2. DocsHeld(j)'
      BY <1>1, <1>2, <1>6, <3>1 DEF FilesHold, DocsHeld, Doc
    <3>3. \A i \in Skills \ {n} : Matches(skills[i], row.tags) => disk.dirs[i] = skills[i].text
      BY <1>1, <3>1 DEF FilesHold, SkillsHeld, AboutToWrite
    <3>4. doing.kind = "skill" /\ Matches(skills[n], row.tags) => text = skills[n].text
      BY <1>1, <1>5, <2>1, <3>1 DEF Knows
    <3>5. j.step = "drop" => AboutToWrite(j, n)
      BY <1>1, <1>2 DEF AboutToWrite
    <3>6. SkillsHeld(j)'
      BY <1>1, <1>2, <1>6, <3>3, <3>4, <3>5 DEF SkillsHeld, Matches, AboutToWrite
    <3>7. SecretsHeld(j)'
      BY <1>1, <1>2, <1>6, <3>1 DEF FilesHold, SecretsHeld, Merged, Empty
    <3> QED BY <3>2, <3>6, <3>7 DEF FilesHold
  <2> QED BY <1>1, <1>2, <2>1, <2>2, <2>3, CallGoesOn DEF ConfigInv
<1> QED BY <1>7, <1>8 DEF ConfigInv

LEMMA DropSkillKeeps == ASSUME ConfigInv, NEW c \in Calls, DropSkill(c) PROVE ConfigInv'
<1> DEFINE doing == call[c]
<1>0. doing \in CallRecords /\ InShape(doing)
  BY DEF ConfigInv, ConfigTypes
<1>1. /\ doing.step = "drop" /\ doing.kind = "delete" /\ doing.name \in Skills /\ Becomes(c, "idle")
      /\ skills' = [skills EXCEPT ![doing.name] = NoSkill]
      /\ UNCHANGED <<row, project, account, phase, boot, disk, raced>>
  BY <1>0 DEF DropSkill, InShape
<1>2. PICK j \in CallRecords : call' = [call EXCEPT ![c] = j] /\ j.step = "idle" /\ InShape(j)
  BY <1>1, BecomesJob DEF ConfigInv
<1>3. /\ skills' \in [Skills -> SkillRows] /\ skills'[doing.name] = NoSkill
      /\ \A i \in Skills \ {doing.name} : skills'[i] = skills[i]
  BY <1>1 DEF ConfigInv, ConfigTypes, SkillRows
<1>4. ConfigTypes'
  BY <1>1, <1>2, <1>3, CallTypes, TypesKept DEF ConfigInv, ConfigTypes
<1>5. ASSUME ~raced' PROVE Undisturbed'
  <2>1. Alone(c) /\ ~Deploying /\ Knows(doing) /\ (Running => FilesHold(doing))
    BY <1>1, <1>5, CallIsAlone
  <2>2. ASSUME Running' PROVE FilesHold(j)'
    <3>1. FilesHold(doing)
      BY <1>1, <2>1, <2>2 DEF Running
    <3>2. DocsHeld(j)'
      BY <1>1, <1>2, <3>1 DEF FilesHold, DocsHeld, Doc
    <3>3. \A i \in Skills \ {doing.name} :
            Matches(skills[i], row.tags) => disk.dirs[i] = skills[i].text
      BY <1>1, <3>1 DEF FilesHold, SkillsHeld, AboutToWrite
    <3>4. SkillsHeld(j)'
      BY <1>1, <1>2, <1>3, <3>3 DEF SkillsHeld, Matches
    <3>5. SecretsHeld(j)'
      BY <1>1, <1>2, <3>1 DEF FilesHold, SecretsHeld, Merged, Empty
    <3> QED BY <3>2, <3>4, <3>5 DEF FilesHold
  <2> QED BY <1>1, <1>2, <2>1, <2>2, CallGoesOn DEF ConfigInv
<1> QED BY <1>4, <1>5 DEF ConfigInv

-----------------------------------------------------------------------------
\* Calls about secrets

LEMMA ChangeSecretKeeps == ASSUME ConfigInv, NEW c \in Calls, ChangeSecret(c) PROVE ConfigInv'
<1>0. ConfigTypes
  BY DEF ConfigInv
<1>1. /\ Begin(c, [Idle EXCEPT !.kind = "secrets", !.step = "push"])
      /\ UNCHANGED <<row, skills, account, phase, boot, disk>>
  BY DEF ChangeSecret
<1>2. project' \in Secrets
  BY <1>0 DEF ChangeSecret, ConfigTypes, Secrets, None
<1>3. PICK j \in CallRecords : Begin(c, j) /\ InShape(j) /\ j.kind = "secrets" /\ j.step = "push"
  <2> DEFINE j == [Idle EXCEPT !.kind = "secrets", !.step = "push"]
  <2>1. Idle \in CallRecords
    BY <1>0, IdleType
  <2>2. j \in CallRecords /\ j.kind = "secrets" /\ j.step = "push"
    BY <2>1 DEF CallRecords
  <2>3. Begin(c, j)
    BY <1>1
  <2> HIDE DEF j
  <2>4. InShape(j)
    BY <2>2 DEF InShape
  <2> QED BY <2>2, <2>3, <2>4
<1>4. /\ call' = [call EXCEPT ![c] = j] /\ raced' \in BOOLEAN
      /\ call' \in [Calls -> CallRecords] /\ \A e \in Calls : InShape(call[e])'
      /\ ~raced' => Alone(c) /\ ~Deploying /\ (Running => FilesHold(Idle))
  BY <1>3, CallBegins
<1>5. ConfigTypes'
  BY <1>1, <1>2, <1>4, TypesKept DEF ConfigInv, ConfigTypes
<1>6. ASSUME ~raced' PROVE Undisturbed'
  <2>1. Knows(j)'
    BY <1>3 DEF Knows
  <2>2. ASSUME Running' PROVE FilesHold(j)'
    <3>1. FilesHold(Idle)
      BY <1>1, <1>4, <1>6, <2>2 DEF Running
    <3>2. DocsHeld(j)'
      BY <1>1, <1>3, <3>1, FilesAtRest DEF DocsHeld, Doc
    <3>3. SkillsHeld(j)'
      BY <1>1, <1>3, <3>1, FilesAtRest DEF SkillsHeld, Matches
    <3>4. SecretsHeld(j)'
      BY <1>3 DEF SecretsHeld
    <3> QED BY <3>2, <3>3, <3>4 DEF FilesHold
  <2> QED BY <1>1, <1>4, <1>6, <2>1, <2>2, CallGoesOn DEF ConfigInv
<1> QED BY <1>5, <1>6 DEF ConfigInv

LEMMA PushSecretsKeeps == ASSUME ConfigInv, NEW c \in Calls, PushSecrets(c) PROVE ConfigInv'
<1> DEFINE doing == call[c]
           env == McpEnv(row.mcp, Merged)
           pushes == Running /\ ~Empty(Merged)
<1>0. /\ ConfigTypes /\ disk \in Disks /\ row.mcp \in BOOLEAN /\ Merged \in Secrets
      /\ \A k \in Keys : disk.env[k] # None => k = McpKey
  BY MergedType DEF ConfigInv, ConfigTypes, AgentRows
<1>1. /\ doing.step = "push" /\ doing.kind = "secrets" /\ Becomes(c, "idle")
      /\ disk' = IF pushes THEN [disk EXCEPT !.secrets = Merged, !.mcp = row.mcp, !.env = env]
                 ELSE disk
      /\ UNCHANGED <<row, skills, project, account, phase, boot, raced>>
  BY DEF PushSecrets
<1>2. PICK j \in CallRecords : call' = [call EXCEPT ![c] = j] /\ j.step = "idle" /\ InShape(j)
  BY <1>0, <1>1, BecomesJob
<1>3. env \in Secrets /\ \A k \in Keys : env[k] # None => k = McpKey
  BY <1>0, EnvType
<1> HIDE DEF env, pushes
<1>4. /\ disk' \in Disks /\ \A k \in Keys : disk'.env[k] # None => k = McpKey
      /\ disk'.claude = disk.claude /\ disk'.dirs = disk.dirs
      /\ pushes => disk'.secrets = Merged /\ disk'.mcp = row.mcp
      /\ ~pushes => disk' = disk
  <2>1. CASE pushes
    <3>1. disk' = [disk EXCEPT !.secrets = Merged, !.mcp = row.mcp, !.env = env]
      BY <1>1, <2>1
    <3>2. /\ disk' \in Disks /\ disk'.env = env /\ disk'.secrets = Merged
          /\ disk'.mcp = row.mcp /\ disk'.claude = disk.claude /\ disk'.dirs = disk.dirs
      BY <1>0, <1>3, <3>1 DEF Disks
    <3> QED BY <1>3, <2>1, <3>2
  <2>2. CASE ~pushes
    BY <1>0, <1>1, <2>2
  <2> QED BY <2>1, <2>2
<1>5. ConfigTypes'
  BY <1>0, <1>1, <1>2, <1>4, CallTypes, TypesKept DEF ConfigTypes
<1>6. ASSUME ~raced' PROVE Undisturbed'
  <2>1. Alone(c) /\ ~Deploying /\ Knows(doing) /\ (Running => FilesHold(doing))
    BY <1>1, <1>6, CallIsAlone
  <2>2. ASSUME Running' PROVE FilesHold(j)'
    <3>1. Running /\ FilesHold(doing)
      BY <1>1, <2>1, <2>2 DEF Running
    <3>2. DocsHeld(j)'
      BY <1>1, <1>2, <1>4, <3>1 DEF FilesHold, DocsHeld, Doc
    <3>3. SkillsHeld(j)'
      BY <1>1, <1>2, <1>4, <3>1 DEF FilesHold, SkillsHeld, AboutToWrite, Matches
    <3>4. SecretsHeld(j)'
      BY <1>1, <1>4, <3>1 DEF SecretsHeld, Merged, Empty, pushes
    <3> QED BY <3>2, <3>3, <3>4 DEF FilesHold
  <2> QED BY <1>1, <1>2, <2>1, <2>2, CallGoesOn DEF ConfigInv
<1> QED BY <1>5, <1>6 DEF ConfigInv

-----------------------------------------------------------------------------
LEMMA ConfigInvInit == ConfigInit => ConfigInv
<1> SUFFICES ASSUME ConfigInit PROVE ConfigInv
  OBVIOUS
<1>1. /\ row = [role |-> 1, mcp |-> TRUE, text |-> 1, tags |-> {}]
      /\ skills = [n \in Skills |-> NoSkill] /\ account = {} /\ phase = "down"
      /\ boot = [row |-> row, secrets |-> [k \in Keys |-> None]]
      /\ disk = [claude |-> Doc(row), mcp |-> FALSE, env |-> [k \in Keys |-> None],
                 secrets |-> [k \in Keys |-> None], dirs |-> [n \in Skills |-> None]]
      /\ call = [c \in Calls |-> Idle] /\ raced = FALSE
  BY DEF ConfigInit
<1>2. row \in AgentRows /\ [k \in Keys |-> None] \in Secrets
      /\ [n \in Skills |-> None] \in [Skills -> 0..2]
  BY <1>1 DEF AgentRows, Secrets, None
<1>3. Doc(row) \in Docs
  BY <1>2, DocType
<1>4. project \in Secrets
  BY DEF ConfigInit, Secrets, None
<1>5. Idle \in CallRecords /\ InShape(Idle)
  <2>1. NoSkill \in SkillRows
    BY DEF SkillRows
  <2>2. Idle \in CallRecords
    BY <1>2, <2>1, Zenon DEF Idle, CallRecords
  <2> QED BY <2>2 DEF Idle, InShape
<1>6. disk \in Disks /\ \A k \in Keys : disk.env[k] = None
  <2>1. \A k \in Keys : disk.env[k] = None
    BY <1>1
  <2> DEFINE none == [k \in Keys |-> None]
             dirs == [n \in Skills |-> None]
             doc == Doc(row)
  <2>2. disk = [claude |-> doc, mcp |-> FALSE, env |-> none, secrets |-> none, dirs |-> dirs]
    BY <1>1
  <2>3. doc \in Docs /\ none \in Secrets /\ dirs \in [Skills -> 0..2]
    BY <1>2, <1>3
  <2> HIDE DEF none, dirs, doc
  <2>4. disk \in Disks
    BY <2>2, <2>3 DEF Disks
  <2> QED BY <2>1, <2>4
<1>7. boot \in [row : AgentRows, secrets : Secrets]
  BY <1>1, <1>2
<1>8. ConfigTypes
  <2>1. skills \in [Skills -> SkillRows]
    BY <1>1 DEF SkillRows
  <2>2. call \in [Calls -> CallRecords] /\ \A c \in Calls : InShape(call[c])
    BY <1>1, <1>5
  <2> QED BY <1>1, <1>2, <1>4, <1>6, <1>7, <2>1, <2>2 DEF ConfigTypes
<1>9. AllIdle /\ BootKnows /\ ~Running
  BY <1>1 DEF AllIdle, BootKnows, Deploying, Running, Idle
<1> QED BY <1>8, <1>9 DEF ConfigInv, Undisturbed

LEMMA ConfigInvStep == ConfigInv /\ [ConfigNext]_mc_vars => ConfigInv'
<1> SUFFICES ASSUME ConfigInv, [ConfigNext]_mc_vars PROVE ConfigInv'
  OBVIOUS
<1>1. CASE Deploy
  BY <1>1, DeployStartKeeps, DeployReadKeeps, DeployWriteKeeps, ChangePhaseKeeps DEF Deploy
<1>2. CASE ChangeAccountSecret
  BY <1>2, AccountKeeps
<1>3. ASSUME NEW c \in Calls, ConfigCall(c) PROVE ConfigInv'
  BY <1>3, LoadKeeps, SaveAgentKeeps, WriteAgentKeeps, WriteSkillsKeeps DEF ConfigCall
<1>4. ASSUME NEW c \in Calls, SkillCall(c) PROVE ConfigInv'
  BY <1>4, SaveSkillKeeps, RenameSkillKeeps, DeleteSkillKeeps, PushSkillKeeps, DropSkillKeeps
     DEF SkillCall
<1>5. ASSUME NEW c \in Calls, SecretCall(c) PROVE ConfigInv'
  BY <1>5, ChangeSecretKeeps, PushSecretsKeeps DEF SecretCall
<1>6. CASE UNCHANGED mc_vars
  <2> USE <1>6 DEF mc_vars
  <2>1. ConfigTypes'
    BY DEF ConfigInv, ConfigTypes, InShape
  <2>2. ASSUME NEW j, FilesHold(j) PROVE FilesHold(j)'
    <3>1. DocsHeld(j)' /\ SecretsHeld(j)'
      BY <2>2 DEF FilesHold, DocsHeld, SecretsHeld, Doc, Merged, Empty
    <3>2. SkillsHeld(j)'
      BY <2>2 DEF FilesHold, SkillsHeld, AboutToWrite, Matches
    <3> QED BY <3>1, <3>2 DEF FilesHold
  <2>3. CASE raced
    BY <2>1, <2>3 DEF ConfigInv
  <2>4. CASE ~raced /\ AllIdle
    <3>1. BootKnows /\ (Running => FilesHold(Idle))
      BY <2>4 DEF ConfigInv, Undisturbed, AllIdle
    <3>2. PICK j : j = Idle
      OBVIOUS
    <3>3. j = Idle'
      BY <3>2 DEF Idle
    <3>4. FilesHold(Idle) => FilesHold(Idle)'
      BY <2>2, <3>2, <3>3 DEF FilesHold, DocsHeld, SkillsHeld, SecretsHeld, AboutToWrite
    <3>5. BootKnows' /\ (Running' => FilesHold(Idle)')
      BY <3>1, <3>4 DEF BootKnows, Deploying, Running, Merged
    <3> QED BY <2>1, <2>4, <3>5 DEF ConfigInv, Undisturbed, AllIdle
  <2>5. CASE ~raced /\ ~AllIdle
    <3>1. PICK c \in Calls : call[c].step # "idle"
      BY <2>5 DEF AllIdle
    <3>2. /\ Alone(c) /\ ~Deploying /\ Knows(call[c]) /\ (Running => FilesHold(call[c]))
          /\ call[c] \in CallRecords /\ call' = [call EXCEPT ![c] = call[c]]
      BY <2>5, <3>1, CallIsAlone DEF ConfigInv, ConfigTypes
    <3>3. PICK j \in CallRecords : j = call[c]
      BY <3>2
    <3>4. Knows(j)'
      BY <3>2, <3>3 DEF Knows, Running
    <3>5. Running' => FilesHold(j)'
      BY <2>2, <3>2, <3>3 DEF Running
    <3>6. Undisturbed'
      BY <3>2, <3>3, <3>4, <3>5, CallGoesOn DEF ConfigInv
    <3> QED BY <2>1, <3>6 DEF ConfigInv
  <2> QED BY <2>3, <2>4, <2>5
<1> QED BY <1>1, <1>2, <1>3, <1>4, <1>5, <1>6 DEF ConfigNext

LEMMA ConfigInvImplies == ConfigInv => ChangesReachAgent
<1> SUFFICES ASSUME ConfigInv PROVE ChangesReachAgent
  OBVIOUS
<1>1. ConfigTypeOK
  BY DEF ConfigInv, ConfigTypes, AgentRows, Disks, Secrets, ConfigTypeOK
<1>2. ASSUME Settled PROVE FilesHold(Idle)
  <2>1. ~raced /\ AllIdle /\ Running
    BY <1>2 DEF Settled, InFlight, AllIdle
  <2> QED BY <2>1 DEF ConfigInv, Undisturbed, AllIdle
<1>3. InstructionsReachAgent
  BY <1>2, FilesAtRest DEF InstructionsReachAgent
<1>4. SkillsReachAgent
  BY <1>2, FilesAtRest DEF SkillsReachAgent
<1>5. SecretsReachAgent
  BY <1>2, FilesAtRest DEF SecretsReachAgent
<1> QED BY <1>1, <1>3, <1>4, <1>5 DEF ChangesReachAgent

\* Whatever calls and deployments interleave: once nothing is under way and nothing has
\* overlapped since the last deployment began, CLAUDE.md, .mcp.json, the skill
\* directories and the secrets file of the machine are what the rows say.
THEOREM ChangesArrive == ConfigSpec => []ChangesReachAgent
<1>1. ConfigSpec => []ConfigInv
  BY ConfigInvInit, ConfigInvStep, PTL DEF ConfigSpec
<1> QED BY <1>1, ConfigInvImplies, PTL

LEMMA SavesAreOfTheirKind == ASSUME ConfigInv, ConfigNext PROVE SavedByItsKind
<1>1. CASE \A c \in Calls : ~SaveAgent(c)
  <2>1. row' = row
    BY <1>1 DEF ConfigNext, Deploy, DeployStart, DeployRead, DeployWrite, ChangePhase,
                ChangeAccountSecret, ConfigCall, LoadAgent, WriteAgent, WriteSkills,
                SkillCall, SaveSkill, RenameSkill, DeleteSkill, PushSkill, DropSkill,
                SecretCall, ChangeSecret, PushSecrets
  <2>2. [Doc(row) EXCEPT !.text = row.text] = Doc(row)
    BY DEF Doc
  <2> QED BY <2>1, <2>2 DEF SavedByItsKind
<1>2. CASE \E c \in Calls : SaveAgent(c)
  <2>1. PICK c \in Calls : SaveAgent(c)
    BY <1>2
  <2> DEFINE doing == call[c]
  <2>2. /\ doing \in CallRecords /\ InShape(doing) /\ row \in AgentRows
        /\ doing.new \in AgentRows /\ doing.old \in AgentRows
    BY DEF ConfigInv, ConfigTypes, CallRecords
  <2>3. doing.step = "save" /\ doing.kind \in {"instructions", "config"}
    BY <2>1, <2>2 DEF SaveAgent, InShape
  <2>4. call'[c].step # "save"
    <3>1. PICK step \in {"idle", "write"} : Becomes(c, step)
      BY <2>1 DEF SaveAgent
    <3>2. \E j \in CallRecords : call' = [call EXCEPT ![c] = j] /\ j.step = step
      BY <3>1, BecomesJob DEF ConfigInv
    <3> QED BY <3>2 DEF ConfigInv, ConfigTypes
  <2>5. CASE doing.kind = "instructions"
    <3>1. row' = [row EXCEPT !.text = doing.new.text]
      BY <2>1, <2>5 DEF SaveAgent
    <3>2. row'.tags = row.tags /\ Doc(row') = [Doc(row) EXCEPT !.text = row'.text]
      BY <2>2, <3>1 DEF AgentRows, Doc
    <3> QED BY <2>3, <2>4, <2>5, <3>2 DEF SavedByItsKind
  <2>6. CASE doing.kind = "config"
    <3>1. row' = [row EXCEPT !.role = doing.new.role, !.mcp = doing.new.mcp,
                    !.tags = IF doing.new.tags # doing.old.tags THEN doing.new.tags ELSE @]
      BY <2>1, <2>6 DEF SaveAgent
    <3>2. row'.text = row.text /\ (row'.tags # row.tags => doing.new.tags # doing.old.tags)
      BY <2>2, <3>1 DEF AgentRows
    <3> QED BY <2>3, <2>4, <2>6, <3>2 DEF SavedByItsKind
  <2> QED BY <2>3, <2>5, <2>6
<1> QED BY <1>1, <1>2

\* However old the copy of a call is, it overwrites only the fields it was asked to
\* change (asave(update_fields) in the mutations about an agent).
THEOREM OthersAreKept == ConfigSpec => OthersFieldsStay
<1>1. ConfigInv /\ [ConfigNext]_mc_vars => [SavedByItsKind]_mc_vars
  BY SavesAreOfTheirKind
<1>2. ConfigSpec => []ConfigInv
  BY ConfigInvInit, ConfigInvStep, PTL DEF ConfigSpec
<1> QED BY <1>1, <1>2, PTL DEF ConfigSpec, OthersFieldsStay

-----------------------------------------------------------------------------
(***************************************************************************)
(* What the backend can tell about a task, for any number of tasks, losses *)
(* and units of time.  The invariant says what is under way to the backend, *)
(* in which order, and that stamps and status are those of the task once the *)
(* letter that says that it runs was read, unless something was lost.      *)
(***************************************************************************)

Claims == [task : 0..MaxTasks, state : JobStates]
Letters == [kind : {"update", "event", "status"}, task : 0..MaxTasks, state : JobStates]
Rows == [task : 0..MaxTasks, state : JobStates, at : Nat]

EvidenceTypes ==
    /\ now \in Nat \ {0} /\ job \in Claims /\ said \in Claims /\ shown \in Claims
    /\ late \in {0, job.task}
    /\ letters \in Seq(Letters) /\ rows \in Seq(Rows)
    /\ started \in 0..now /\ active \in 0..now /\ sign \in 0..now
    /\ worked \in BOOLEAN /\ losses \in Nat

\* What is under way, kept or shown says of task t that it is in state s.
Says(t, s) ==
    \/ \E i \in DOMAIN letters : letters[i].task = t /\ letters[i].state = s
    \/ \E i \in DOMAIN rows : rows[i].task = t /\ rows[i].state = s
    \/ shown.task = t /\ shown.state = s
    \/ job.task = t /\ job.state = s

\* Nobody names the end of a task that has not ended, and all name the same one.
EndsAgree ==
    /\ \A t \in 0..MaxTasks, s \in Terminal :
         Says(t, s) => t <= job.task /\ (t = job.task => job.state # "running")
    /\ \A t \in 0..MaxTasks, s, r \in Terminal : Says(t, s) /\ Says(t, r) => s = r

\* Nothing is about a task to come, and nothing about an earlier task follows the
\* update that says that this one runs.
IsBegin(letter, t) ==
    letter.kind = "update" /\ letter.task = t /\ letter.state = "running"
InOrder ==
    /\ \A i \in DOMAIN letters : letters[i].task <= job.task
    /\ \A i, j \in DOMAIN letters :
         IsBegin(letters[i], job.task) /\ i < j =>
           letters[j].task = job.task /\ ~IsBegin(letters[j], job.task)

\* Unless something was lost, the newest status under way is what the runtime said
\* last, and the status shown is when none is under way.
StatusFollows ==
    losses = 0 =>
      \/ /\ shown = said
         /\ \A j \in DOMAIN letters : letters[j].kind # "status"
      \/ \E i \in DOMAIN letters :
           /\ letters[i].kind = "status"
           /\ letters[i].task = said.task /\ letters[i].state = said.state
           /\ \A j \in DOMAIN letters : i < j => letters[j].kind # "status"

\* Unless something was lost, the stamps are those of the task once the backend has
\* read that it runs: no event of an earlier task is after it.
StampsAreOfTask ==
    losses = 0 /\ job.state # "idle" /\ (\A i \in DOMAIN letters : ~IsBegin(letters[i], job.task)) =>
      /\ started # Never /\ started <= sign /\ active <= sign
      /\ ~worked => active <= started
      /\ \A i \in DOMAIN letters : letters[i].task = job.task

EvidenceInv == EvidenceTypes /\ EndsAgree /\ InOrder /\ StatusFollows /\ StampsAreOfTask

-----------------------------------------------------------------------------
(* Letters that are sent and read.                                            *)

LEMMA InSequence == ASSUME NEW S, NEW s \in Seq(S), NEW j \in DOMAIN s PROVE s[j] \in S
OBVIOUS

LEMMA Sent ==
  ASSUME NEW S, NEW s \in Seq(S), NEW x \in S
  PROVE  /\ Append(s, x) \in Seq(S)
         /\ \A i \in DOMAIN s : i \in DOMAIN Append(s, x) /\ Append(s, x)[i] = s[i]
         /\ \A i \in DOMAIN Append(s, x) :
              \/ i \in DOMAIN s /\ Append(s, x)[i] = s[i]
              \/ Append(s, x)[i] = x /\ \A j \in DOMAIN Append(s, x) : ~(i < j)
         /\ \E i \in DOMAIN Append(s, x) :
              Append(s, x)[i] = x /\ \A j \in DOMAIN s : j < i
<1> DEFINE t == Append(s, x)
<1>1. DOMAIN s = 1 .. Len(s) /\ Len(s) \in Nat
  OBVIOUS
<1>2. /\ t \in Seq(S) /\ DOMAIN t = 1 .. Len(s) + 1 /\ t[Len(s) + 1] = x
      /\ \A j \in 1 .. Len(s) : t[j] = s[j]
  OBVIOUS
<1> HIDE DEF t
<1>3. ASSUME NEW i \in DOMAIN t
      PROVE  \/ i \in DOMAIN s /\ t[i] = s[i]
             \/ t[i] = x /\ \A j \in DOMAIN t : ~(i < j)
  BY <1>1, <1>2
<1>4. Len(s) + 1 \in DOMAIN t /\ \A j \in DOMAIN s : j < Len(s) + 1
  BY <1>1, <1>2
<1>5. \A i \in DOMAIN s : i \in DOMAIN t /\ t[i] = s[i]
  BY <1>1, <1>2
<1>6. \E i \in DOMAIN t : t[i] = x /\ \A j \in DOMAIN s : j < i
  BY <1>2, <1>4
<1> QED BY <1>2, <1>3, <1>5, <1>6 DEF t

LEMMA Read ==
  ASSUME NEW S, NEW s \in Seq(S), s # <<>>
  PROVE  /\ Tail(s) \in Seq(S) /\ 1 \in DOMAIN s /\ Head(s) = s[1] /\ Head(s) \in S
         /\ DOMAIN s \subseteq Nat \ {0} /\ DOMAIN Tail(s) \subseteq Nat \ {0}
         /\ \A i \in DOMAIN Tail(s) : i + 1 \in DOMAIN s /\ Tail(s)[i] = s[i + 1]
         /\ \A i \in DOMAIN s : i = 1 \/ (i - 1 \in DOMAIN Tail(s) /\ Tail(s)[i - 1] = s[i])
<1>1. /\ DOMAIN s = 1 .. Len(s) /\ Len(s) \in Nat \ {0}
      /\ Tail(s) \in Seq(S) /\ Len(Tail(s)) = Len(s) - 1 /\ DOMAIN Tail(s) = 1 .. Len(s) - 1
      /\ Head(s) = s[1]
  OBVIOUS
<1>2. \A i \in 1 .. Len(s) - 1 : Tail(s)[i] = s[i + 1]
  OBVIOUS
<1>3. \A i \in DOMAIN Tail(s) : i + 1 \in DOMAIN s /\ Tail(s)[i] = s[i + 1]
  BY <1>1, <1>2
<1>4. ASSUME NEW i \in DOMAIN s, i # 1 PROVE i - 1 \in DOMAIN Tail(s) /\ Tail(s)[i - 1] = s[i]
  <2>1. i - 1 \in 1 .. Len(s) - 1 /\ (i - 1) + 1 = i
    BY <1>1, <1>4
  <2> QED BY <1>1, <1>2, <2>1
<1>5. 1 \in DOMAIN s /\ Head(s) \in S
  BY <1>1
<1> QED BY <1>1, <1>3, <1>4, <1>5

-----------------------------------------------------------------------------
(* Initially, and what a step of the runtime or the backend keeps.            *)

LEMMA Constants ==
  /\ MaxTasks \in Nat /\ MaxTime \in Nat /\ MaxLosses \in Nat
  /\ FailedFast \in Nat /\ Silent \in Nat /\ Hung \in Nat /\ Window \in Nat
  /\ Silent <= Hung
BY EvidenceConstants

LEMMA InitKnown == EvidenceInit => EvidenceInv
<1> SUFFICES ASSUME EvidenceInit PROVE EvidenceInv
  OBVIOUS
<1>1. DOMAIN letters = {} /\ DOMAIN rows = {}
  BY DEF EvidenceInit
<1>2. EvidenceTypes
  <2>1. NoJob \in Claims /\ NoJob.task = 0
    BY Constants DEF NoJob, Claims, JobStates
  <2>2. <<>> \in Seq(Letters) /\ <<>> \in Seq(Rows)
    OBVIOUS
  <2>3. letters \in Seq(Letters) /\ rows \in Seq(Rows)
    BY <2>2 DEF EvidenceInit
  <2>4. /\ now = 1 /\ late = 0 /\ started = 0 /\ active = 0 /\ sign = 0 /\ worked = FALSE
        /\ losses = 0 /\ job = NoJob /\ said = NoJob /\ shown = NoJob
    BY DEF EvidenceInit, Never
  <2>5. job \in Claims /\ said \in Claims /\ shown \in Claims /\ late \in {0, job.task}
    BY <2>1, <2>4
  <2>6. worked \in BOOLEAN
    BY DEF EvidenceInit
  <2>7. /\ now \in Nat \ {0} /\ losses \in Nat
        /\ started \in 0..now /\ active \in 0..now /\ sign \in 0..now
    BY <2>4
  <2> QED BY <2>3, <2>5, <2>6, <2>7 DEF EvidenceTypes
<1> QED
  BY <1>1, <1>2 DEF EvidenceInit, EvidenceInv, EndsAgree, Says, InOrder, StatusFollows,
     StampsAreOfTask, NoJob, Terminal

LEMMA LetterIs ==
  ASSUME NEW j \in Claims, NEW k \in {"update", "event", "status"}
  PROVE  /\ Letter(k, j) \in Letters
         /\ Letter(k, j).kind = k /\ Letter(k, j).task = j.task /\ Letter(k, j).state = j.state
BY DEF Letter, Letters, Claims

LEMMA QueuedIs ==
  ASSUME NEW t \in 0..MaxTasks
  PROVE  /\ Queued(t) \in Letters
         /\ Queued(t).kind = "update" /\ Queued(t).task = t /\ Queued(t).state = "queued"
BY DEF Queued, Letters, JobStates

-----------------------------------------------------------------------------
(* The runtime sends a letter about its task.                                 *)

\* The letter tells the state of the task or none that ends it.
SendsOf(x) ==
  /\ letters' = Append(letters, x)
  /\ x.task = job.task /\ (x.state \in Terminal => x.state = job'.state)
  /\ x.kind = "update" => x.state # "running"
  /\ \/ job' = job
     \/ job.state = "running" /\ job'.state # "running" /\ job'.state # "idle" /\ job'.task = job.task
  /\ IF x.kind = "status" THEN said'.task = x.task /\ said'.state = x.state ELSE said' = said
  /\ UNCHANGED <<now, rows, started, active, shown, sign, worked, losses>>

LEMMA SendKnows ==
  ASSUME EvidenceInv, NEW x \in Letters, SendsOf(x)
  PROVE  EndsAgree' /\ InOrder' /\ StatusFollows' /\ StampsAreOfTask'
<1> USE DEF EvidenceInv
<1>1. letters' = Append(letters, x) /\ letters \in Seq(Letters)
  BY DEF SendsOf, EvidenceTypes
<1>2. /\ letters' \in Seq(Letters)
      /\ \A i \in DOMAIN letters : i \in DOMAIN letters' /\ letters'[i] = letters[i]
      /\ \A i \in DOMAIN letters' :
           \/ i \in DOMAIN letters /\ letters'[i] = letters[i]
           \/ letters'[i] = x /\ \A j \in DOMAIN letters' : ~(i < j)
      /\ \E i \in DOMAIN letters' : letters'[i] = x /\ \A j \in DOMAIN letters : j < i
  BY <1>1, Sent
<1>3. job'.task = job.task /\ job.task \in 0..MaxTasks
  BY DEF SendsOf, EvidenceTypes, Claims
<1>4. EndsAgree'
  <2>1. ASSUME NEW t \in 0..MaxTasks, NEW s \in Terminal, Says(t, s)'
        PROVE  Says(t, s) \/ (t = job.task /\ s = job'.state)
    BY <1>2, <2>1 DEF Says, SendsOf
  <2>2. CASE job' = job
    <3>1. ASSUME NEW t \in 0..MaxTasks, NEW s \in Terminal, Says(t, s)' PROVE Says(t, s)
      BY <2>1, <2>2, <3>1 DEF Says
    <3> QED BY <2>2, <3>1 DEF EndsAgree
  <2>3. CASE job.state = "running" /\ job'.state # "running"
    <3>1. \A s \in Terminal : ~Says(job.task, s)
      BY <2>3, <1>3 DEF EndsAgree
    <3>2. \A t \in 0..MaxTasks, s \in Terminal :
            Says(t, s)' => Says(t, s) \/ (t = job.task /\ s = job'.state)
      BY <2>1
    <3>3. \A t \in 0..MaxTasks, s \in Terminal :
            Says(t, s)' => t <= job'.task /\ (t = job'.task => job'.state # "running")
      BY <1>3, <2>3, <3>2 DEF EndsAgree
    <3>4. \A t \in 0..MaxTasks, s, r \in Terminal : Says(t, s)' /\ Says(t, r)' => s = r
      BY <1>3, <3>1, <3>2 DEF EndsAgree
    <3> QED BY <3>3, <3>4 DEF EndsAgree
  <2> QED BY <2>2, <2>3 DEF SendsOf
<1>5. InOrder'
  <2>2. ~IsBegin(x, job.task)
    BY DEF IsBegin, SendsOf
  <2>3. \A i \in DOMAIN letters' : letters'[i].task <= job'.task
    BY <1>2, <1>3 DEF InOrder, SendsOf
  <2>4. ASSUME NEW i \in DOMAIN letters', NEW j \in DOMAIN letters', IsBegin(letters'[i], job'.task), i < j
        PROVE  letters'[j].task = job'.task /\ ~IsBegin(letters'[j], job'.task)
    <3>1. i \in DOMAIN letters /\ letters'[i] = letters[i]
      BY <1>2, <2>4
    <3>2. CASE j \in DOMAIN letters /\ letters'[j] = letters[j]
      BY <1>3, <2>4, <3>1, <3>2 DEF InOrder
    <3>3. CASE letters'[j] = x
      BY <1>3, <2>2, <3>3 DEF SendsOf
    <3> QED BY <1>2, <3>2, <3>3
  <2> QED BY <2>3, <2>4 DEF InOrder
<1>6. StatusFollows'
  <2> SUFFICES ASSUME losses' = 0 PROVE StatusFollows'
    BY DEF StatusFollows
  <2>1. CASE x.kind = "status"
    <3>1. PICK i \in DOMAIN letters' : letters'[i] = x /\ \A j \in DOMAIN letters : j < i
      BY <1>2
    <3>2. \A j \in DOMAIN letters' : ~(i < j)
      <4>1. CASE i \in DOMAIN letters
        <5>1. i < i /\ i \in Int
          BY <4>1, <3>1, <1>1
        <5> QED BY <5>1
      <4>2. CASE i \notin DOMAIN letters
        BY <4>2, <1>2
      <4> QED BY <4>1, <4>2
    <3> QED BY <2>1, <3>1, <3>2 DEF StatusFollows, SendsOf
  <2>2. CASE x.kind # "status"
    <3>1. said' = said /\ shown' = shown /\ losses = 0
      BY <2>2 DEF SendsOf
    <3>2. CASE shown = said /\ \A j \in DOMAIN letters : letters[j].kind # "status"
      BY <1>2, <2>2, <3>1, <3>2 DEF StatusFollows
    <3>3. CASE \E i \in DOMAIN letters :
                 /\ letters[i].kind = "status"
                 /\ letters[i].task = said.task /\ letters[i].state = said.state
                 /\ \A j \in DOMAIN letters : i < j => letters[j].kind # "status"
      <4>1. PICK i \in DOMAIN letters :
                 /\ letters[i].kind = "status"
                 /\ letters[i].task = said.task /\ letters[i].state = said.state
                 /\ \A j \in DOMAIN letters : i < j => letters[j].kind # "status"
        BY <3>3
      <4>2. i \in DOMAIN letters' /\ letters'[i] = letters[i]
        BY <1>2
      <4>3. \A j \in DOMAIN letters' : i < j => letters'[j].kind # "status"
        BY <1>2, <2>2, <4>1
      <4> QED BY <3>1, <4>1, <4>2, <4>3 DEF StatusFollows
    <3> QED BY <3>1, <3>2, <3>3 DEF StatusFollows
  <2> QED BY <2>1, <2>2
<1>7. StampsAreOfTask'
  <2> SUFFICES ASSUME losses' = 0, job'.state # "idle",
                      \A i \in DOMAIN letters' : ~IsBegin(letters'[i], job'.task)
               PROVE  StampsAreOfTask'
    BY DEF StampsAreOfTask
  <2>2. losses = 0 /\ job.state # "idle" /\ \A i \in DOMAIN letters : ~IsBegin(letters[i], job.task)
    BY <1>2, <1>3 DEF SendsOf
  <2>3. \A i \in DOMAIN letters' : letters'[i].task = job'.task
    BY <1>2, <1>3, <2>2 DEF StampsAreOfTask, SendsOf
  <2>4. /\ started' = started /\ sign' = sign /\ active' = active /\ worked' = worked
    BY DEF SendsOf
  <2> QED BY <2>2, <2>3, <2>4 DEF StampsAreOfTask
<1> QED BY <1>4, <1>5, <1>6, <1>7

LEMMA SayQueuedKnows == EvidenceInv /\ SayQueued => EvidenceInv'
<1> SUFFICES ASSUME EvidenceInv, SayQueued PROVE EvidenceInv'
  OBVIOUS
<1> USE Constants
<1> DEFINE x == Queued(late)
<1>1. job \in Claims /\ job' \in Claims /\ job.task \in 0..MaxTasks /\ late \in 0..MaxTasks
  BY DEF EvidenceInv, EvidenceTypes, SayQueued, Claims, JobStates, Terminal
<1>2. x \in Letters /\ x.kind = "update" /\ x.task = late /\ x.state = "queued"
  BY <1>1, QueuedIs DEF SayQueued
<1>3. SendsOf(x)
  <2>1. letters' = Append(letters, x)
    BY DEF SayQueued
  <2> HIDE DEF x
  <2> QED BY <1>1, <1>2, <2>1 DEF SayQueued, SendsOf, EvidenceInv, EvidenceTypes, Terminal
<1>4. EvidenceTypes'
  <2>1. letters' \in Seq(Letters)
    BY <1>2, <1>3 DEF SendsOf, EvidenceInv, EvidenceTypes
  <2> HIDE DEF x
  <2> QED BY <1>1, <2>1 DEF SayQueued, EvidenceInv, EvidenceTypes
<1> QED BY <1>2, <1>3, <1>4, SendKnows DEF EvidenceInv

LEMMA WorkKnows == EvidenceInv /\ Work => EvidenceInv'
<1> SUFFICES ASSUME EvidenceInv, Work PROVE EvidenceInv'
  OBVIOUS
<1> USE Constants
<1> DEFINE x == Letter("event", job)
<1>1. job \in Claims /\ job' \in Claims /\ job.task \in 0..MaxTasks /\ late \in 0..MaxTasks
  BY DEF EvidenceInv, EvidenceTypes, Work, Claims, JobStates, Terminal
<1>2. x \in Letters /\ x.kind = "event" /\ x.task = job.task /\ x.state = job.state
  BY <1>1, LetterIs DEF Work
<1>3. SendsOf(x)
  <2>1. letters' = Append(letters, x)
    BY DEF Work
  <2> HIDE DEF x
  <2> QED BY <1>1, <1>2, <2>1 DEF Work, SendsOf, EvidenceInv, EvidenceTypes, Terminal
<1>4. EvidenceTypes'
  <2>1. letters' \in Seq(Letters)
    BY <1>2, <1>3 DEF SendsOf, EvidenceInv, EvidenceTypes
  <2> HIDE DEF x
  <2> QED BY <1>1, <2>1 DEF Work, EvidenceInv, EvidenceTypes
<1> QED BY <1>2, <1>3, <1>4, SendKnows DEF EvidenceInv

LEMMA FinishJobKnows == EvidenceInv /\ FinishJob => EvidenceInv'
<1> SUFFICES ASSUME EvidenceInv, FinishJob PROVE EvidenceInv'
  OBVIOUS
<1> USE Constants
<1> DEFINE x == Letter("update", job')
<1>1. job \in Claims /\ job' \in Claims /\ job.task \in 0..MaxTasks /\ late \in 0..MaxTasks
  <2>1. PICK result \in Terminal : job' = [job EXCEPT !.state = result]
    BY DEF FinishJob
  <2>2. result \in JobStates
    BY DEF JobStates
  <2>3. job \in Claims /\ late \in {0, job.task}
    BY DEF EvidenceInv, EvidenceTypes
  <2>4. job.task \in 0..MaxTasks /\ job' \in Claims
    BY <2>1, <2>2, <2>3 DEF Claims
  <2> QED BY <2>3, <2>4
<1>2. x \in Letters /\ x.kind = "update" /\ x.task = job'.task /\ x.state = job'.state
  BY <1>1, LetterIs DEF FinishJob
<1>3. SendsOf(x)
  <2>1. letters' = Append(letters, x)
    BY DEF FinishJob
  <2> HIDE DEF x
  <2> QED BY <1>1, <1>2, <2>1 DEF FinishJob, SendsOf, EvidenceInv, EvidenceTypes, Terminal
<1>4. EvidenceTypes'
  <2>1. letters' \in Seq(Letters)
    BY <1>2, <1>3 DEF SendsOf, EvidenceInv, EvidenceTypes
  <2> HIDE DEF x
  <2> QED BY <1>1, <2>1 DEF FinishJob, EvidenceInv, EvidenceTypes
<1> QED BY <1>2, <1>3, <1>4, SendKnows DEF EvidenceInv

LEMMA SayStatusKnows == EvidenceInv /\ SayStatus => EvidenceInv'
<1> SUFFICES ASSUME EvidenceInv, SayStatus PROVE EvidenceInv'
  OBVIOUS
<1> USE Constants
<1> DEFINE x == Letter("status", job)
<1>1. job \in Claims /\ job' \in Claims /\ job.task \in 0..MaxTasks /\ late \in 0..MaxTasks
  BY DEF EvidenceInv, EvidenceTypes, SayStatus, Claims, JobStates, Terminal
<1>2. x \in Letters /\ x.kind = "status" /\ x.task = job.task /\ x.state = job.state
  BY <1>1, LetterIs DEF SayStatus
<1>3. SendsOf(x)
  <2>1. letters' = Append(letters, x)
    BY DEF SayStatus
  <2> HIDE DEF x
  <2> QED BY <1>1, <1>2, <2>1 DEF SayStatus, SendsOf, EvidenceInv, EvidenceTypes, Terminal
<1>4. EvidenceTypes'
  <2>1. letters' \in Seq(Letters)
    BY <1>2, <1>3 DEF SendsOf, EvidenceInv, EvidenceTypes
  <2> HIDE DEF x
  <2> QED BY <1>1, <2>1 DEF SayStatus, EvidenceInv, EvidenceTypes
<1> QED BY <1>2, <1>3, <1>4, SendKnows DEF EvidenceInv

-----------------------------------------------------------------------------
(* The backend reads a letter.                                                *)

\* What the backend makes of the first letter.
IsRead(h) ==
  /\ letters' = Tail(letters) /\ UNCHANGED <<now, job, late, said>>
  /\ \A i \in DOMAIN rows' :
       \/ i \in DOMAIN rows /\ rows'[i] = rows[i]
       \/ rows'[i].task = h.task /\ rows'[i].state = h.state
  /\ IF h.kind = "status" THEN shown'.task = h.task /\ shown'.state = h.state ELSE shown' = shown
  /\ losses' = 0 => losses = 0
  /\ started' = IF h.kind = "update" /\ h.state = "running" THEN now ELSE started
  /\ active' = IF h.kind = "event" THEN now ELSE active
  /\ sign' = IF h.kind # "status" /\ h.task = job.task THEN now ELSE sign
  /\ IF h.kind = "event" /\ h.task = job.task THEN worked' ELSE worked' = worked

LEMMA ReceiveKnows ==
  ASSUME EvidenceInv, EvidenceTypes', letters # <<>>, IsRead(Head(letters))
  PROVE  EvidenceInv'
<1> USE DEF EvidenceInv
<1> DEFINE h == Head(letters)
<1>1. letters \in Seq(Letters) /\ letters' = Tail(letters)
  BY DEF EvidenceTypes, IsRead
<1>2. /\ 1 \in DOMAIN letters /\ h = letters[1] /\ h \in Letters
      /\ DOMAIN letters \subseteq Nat \ {0} /\ DOMAIN letters' \subseteq Nat \ {0}
      /\ \A i \in DOMAIN letters' : i + 1 \in DOMAIN letters /\ letters'[i] = letters[i + 1]
      /\ \A i \in DOMAIN letters : i = 1 \/ (i - 1 \in DOMAIN letters' /\ letters'[i - 1] = letters[i])
  BY <1>1, Read
<1>3. IsRead(h)
  OBVIOUS
<1> HIDE DEF h
<1>4. job' = job /\ said' = said /\ now' = now /\ (losses' = 0 => losses = 0)
  BY <1>3 DEF IsRead
<1>5. EndsAgree'
  <2>1. ASSUME NEW t \in 0..MaxTasks, NEW s \in Terminal, Says(t, s)' PROVE Says(t, s)
    <3>1. CASE \E i \in DOMAIN letters' : letters'[i].task = t /\ letters'[i].state = s
      BY <1>2, <3>1 DEF Says
    <3>2. CASE \E i \in DOMAIN rows' : rows'[i].task = t /\ rows'[i].state = s
      BY <1>2, <1>3, <3>2 DEF Says, IsRead
    <3>3. CASE shown'.task = t /\ shown'.state = s
      BY <1>2, <1>3, <3>3 DEF Says, IsRead
    <3>4. CASE job'.task = t /\ job'.state = s
      BY <1>4, <3>4 DEF Says
    <3> QED BY <2>1, <3>1, <3>2, <3>3, <3>4 DEF Says
  <2> QED BY <1>4, <2>1 DEF EndsAgree
<1>6. InOrder'
  <2>1. \A i \in DOMAIN letters' : letters'[i].task <= job'.task
    BY <1>2, <1>4 DEF InOrder
  <2>2. ASSUME NEW i \in DOMAIN letters', NEW j \in DOMAIN letters',
               IsBegin(letters'[i], job'.task), i < j
        PROVE  letters'[j].task = job'.task /\ ~IsBegin(letters'[j], job'.task)
    <3>1. /\ i + 1 \in DOMAIN letters /\ j + 1 \in DOMAIN letters
          /\ letters'[i] = letters[i + 1] /\ letters'[j] = letters[j + 1] /\ i + 1 < j + 1
      BY <1>2, <2>2
    <3> QED BY <1>4, <2>2, <3>1 DEF InOrder
  <2> QED BY <2>1, <2>2 DEF InOrder
<1>7. StatusFollows'
  <2> SUFFICES ASSUME losses' = 0 PROVE StatusFollows'
    BY DEF StatusFollows
  <2>1. losses = 0
    BY <1>4
  <2>2. CASE shown = said /\ \A j \in DOMAIN letters : letters[j].kind # "status"
    <3>1. h.kind # "status" /\ \A j \in DOMAIN letters' : letters'[j].kind # "status"
      BY <1>2, <2>2
    <3>2. shown' = said'
      BY <1>3, <1>4, <2>2, <3>1 DEF IsRead
    <3> QED BY <3>1, <3>2 DEF StatusFollows
  <2>3. CASE \E i \in DOMAIN letters :
               /\ letters[i].kind = "status"
               /\ letters[i].task = said.task /\ letters[i].state = said.state
               /\ \A j \in DOMAIN letters : i < j => letters[j].kind # "status"
    <3>1. PICK i \in DOMAIN letters :
               /\ letters[i].kind = "status"
               /\ letters[i].task = said.task /\ letters[i].state = said.state
               /\ \A j \in DOMAIN letters : i < j => letters[j].kind # "status"
      BY <2>3
    <3>2. CASE i = 1
      <4>1. \A j \in DOMAIN letters' : letters'[j].kind # "status"
        <5> SUFFICES ASSUME NEW j \in DOMAIN letters' PROVE letters'[j].kind # "status"
          OBVIOUS
        <5>1. j + 1 \in DOMAIN letters /\ letters'[j] = letters[j + 1] /\ 1 < j + 1
          BY <1>2
        <5> QED BY <3>1, <3>2, <5>1
      <4>2. shown'.task = said.task /\ shown'.state = said.state
        BY <1>2, <1>3, <3>1, <3>2 DEF IsRead
      <4>3. shown' \in Claims /\ said \in Claims
        BY DEF EvidenceTypes
      <4>4. shown' = said
        BY <4>2, <4>3 DEF Claims
      <4> QED BY <1>4, <4>1, <4>4 DEF StatusFollows
    <3>3. CASE i # 1
      <4>1. i - 1 \in DOMAIN letters' /\ letters'[i - 1] = letters[i]
        BY <1>2, <3>3
      <4>2. ASSUME NEW j \in DOMAIN letters', i - 1 < j PROVE letters'[j].kind # "status"
        <5>1. j + 1 \in DOMAIN letters /\ letters'[j] = letters[j + 1] /\ i < j + 1
          BY <1>2, <4>2
        <5> QED BY <3>1, <5>1
      <4> QED BY <1>4, <3>1, <4>1, <4>2 DEF StatusFollows
    <3> QED BY <3>2, <3>3
  <2> QED BY <2>1, <2>2, <2>3 DEF StatusFollows
<1>8. StampsAreOfTask'
  <2> SUFFICES ASSUME losses' = 0, job'.state # "idle",
                      \A i \in DOMAIN letters' : ~IsBegin(letters'[i], job'.task)
               PROVE  StampsAreOfTask'
    BY DEF StampsAreOfTask
  <2>1. CASE IsBegin(h, job.task)
    <3>1. \A i \in DOMAIN letters' : letters'[i].task = job'.task
      <4> SUFFICES ASSUME NEW i \in DOMAIN letters' PROVE letters'[i].task = job.task
        BY <1>4
      <4>1. i + 1 \in DOMAIN letters /\ letters'[i] = letters[i + 1] /\ 1 < i + 1
        BY <1>2
      <4> QED BY <1>2, <2>1, <4>1 DEF InOrder
    <3>2. started' = now /\ sign' = now /\ active' = active
      BY <1>3, <2>1 DEF IsRead, IsBegin
    <3>3. now # 0 /\ active <= now /\ now <= now
      BY DEF EvidenceTypes
    <3> QED BY <3>1, <3>2, <3>3 DEF StampsAreOfTask, Never
  <2>2. CASE ~IsBegin(h, job.task)
    <3>1. \A i \in DOMAIN letters : ~IsBegin(letters[i], job.task)
      <4> SUFFICES ASSUME NEW i \in DOMAIN letters, i # 1 PROVE ~IsBegin(letters[i], job.task)
        BY <1>2, <2>2
      <4>1. i - 1 \in DOMAIN letters' /\ letters'[i - 1] = letters[i]
        BY <1>2
      <4> QED BY <1>4, <4>1
    <3>2. /\ started # Never /\ started <= sign /\ active <= sign
          /\ ~worked => active <= started
          /\ \A i \in DOMAIN letters : letters[i].task = job.task
      BY <1>4, <3>1 DEF StampsAreOfTask
    <3>3. h.task = job.task /\ \A i \in DOMAIN letters' : letters'[i].task = job'.task
      BY <1>2, <1>4, <3>2
    <3>4. started' = started
      BY <1>3, <2>2, <3>3 DEF IsRead, IsBegin
    <3>5. started <= now /\ sign <= now /\ active <= now /\ now \in Nat /\ sign \in Nat
      BY DEF EvidenceTypes
    <3>6. sign' = IF h.kind # "status" THEN now ELSE sign
      BY <1>3, <3>3 DEF IsRead
    <3>7. CASE h.kind = "event"
      <4>1. active' = now /\ sign' = now /\ worked'
        BY <1>3, <3>3, <3>6, <3>7 DEF IsRead
      <4> QED BY <3>2, <3>3, <3>4, <3>5, <4>1 DEF StampsAreOfTask
    <3>8. CASE h.kind # "event"
      <4>1. active' = active /\ worked' = worked
        BY <1>3, <3>8 DEF IsRead
      <4>2. started' <= sign' /\ active' <= sign'
        BY <3>2, <3>4, <3>5, <3>6, <4>1
      <4> QED BY <3>2, <3>3, <3>4, <4>1, <4>2 DEF StampsAreOfTask
    <3> QED BY <3>7, <3>8
  <2> QED BY <2>1, <2>2
<1> QED BY <1>5, <1>6, <1>7, <1>8

LEMMA ReadTyped ==
  ASSUME EvidenceTypes, letters # <<>>
  PROVE  /\ Tail(letters) \in Seq(Letters)
         /\ Head(letters).kind \in {"update", "event", "status"}
         /\ Head(letters).task \in 0..MaxTasks /\ Head(letters).state \in JobStates
<1>1. letters \in Seq(Letters)
  BY DEF EvidenceTypes
<1>2. Tail(letters) \in Seq(Letters) /\ Head(letters) \in Letters
  BY <1>1, Read
<1> QED BY <1>2 DEF Letters

LEMMA ReceiveUpdateKnows == EvidenceInv /\ ReceiveUpdate => EvidenceInv'
<1> SUFFICES ASSUME EvidenceInv, ReceiveUpdate PROVE EvidenceInv'
  OBVIOUS
<1> DEFINE h == Head(letters)
           r == [task |-> h.task, state |-> h.state, at |-> now]
<1>1. /\ letters # <<>> /\ h.kind = "update" /\ letters' = Tail(letters)
      /\ UNCHANGED <<now, job, late, said, active, shown>>
      /\ started' = IF h.state = "running" THEN now ELSE started
      /\ sign' = IF h.task = job.task THEN now ELSE sign
      /\ worked' = (worked \/ (h.kind = "event" /\ h.task = job.task))
      /\ \/ rows' = Append(rows, r) /\ losses' = losses
         \/ rows' = rows /\ losses' = losses + 1
  BY DEF ReceiveUpdate, Signs
<1>2. h.task \in 0..MaxTasks /\ h.state \in JobStates /\ letters' \in Seq(Letters)
  BY <1>1, ReadTyped DEF EvidenceInv
<1>3. rows \in Seq(Rows) /\ now \in Nat \ {0} /\ losses \in Nat /\ worked \in BOOLEAN
  BY DEF EvidenceInv, EvidenceTypes
<1>4. r \in Rows /\ r.task = h.task /\ r.state = h.state
  BY <1>2, <1>3 DEF Rows
<1>5. worked' = worked
  BY <1>1, <1>3
<1> HIDE DEF r, h
<1>6. /\ rows' \in Seq(Rows)
      /\ \A i \in DOMAIN rows' :
           \/ i \in DOMAIN rows /\ rows'[i] = rows[i]
           \/ rows'[i].task = h.task /\ rows'[i].state = h.state
  <2>1. CASE rows' = rows
    BY <1>3, <2>1
  <2>2. CASE rows' = Append(rows, r)
    <3>1. /\ rows' \in Seq(Rows)
          /\ \A i \in DOMAIN rows' : (i \in DOMAIN rows /\ rows'[i] = rows[i]) \/ rows'[i] = r
      BY <1>3, <1>4, <2>2, Sent
    <3> QED BY <1>4, <3>1
  <2> QED BY <1>1, <2>1, <2>2
<1>7. EvidenceTypes'
  <2>1. started' \in 0..now' /\ sign' \in 0..now' /\ active' \in 0..now' /\ losses' \in Nat
    BY <1>1, <1>3 DEF EvidenceInv, EvidenceTypes
  <2> QED BY <1>1, <1>2, <1>3, <1>5, <1>6, <2>1 DEF EvidenceInv, EvidenceTypes
<1>8. IsRead(h)
  <2>1. losses' = 0 => losses = 0
    BY <1>1, <1>3
  <2> QED BY <1>1, <1>5, <1>6, <2>1 DEF IsRead
<1> QED BY <1>1, <1>7, <1>8, ReceiveKnows DEF h

LEMMA ReceiveEventKnows == EvidenceInv /\ ReceiveEvent => EvidenceInv'
<1> SUFFICES ASSUME EvidenceInv, ReceiveEvent PROVE EvidenceInv'
  OBVIOUS
<1> DEFINE h == Head(letters)
<1>1. /\ letters # <<>> /\ h.kind = "event" /\ letters' = Tail(letters)
      /\ UNCHANGED <<now, job, late, said, started, shown, rows, losses>>
      /\ active' = now
      /\ sign' = IF h.task = job.task THEN now ELSE sign
      /\ worked' = (worked \/ (h.kind = "event" /\ h.task = job.task))
  BY DEF ReceiveEvent, Signs
<1>2. letters' \in Seq(Letters)
  BY <1>1, ReadTyped DEF EvidenceInv
<1>3. worked \in BOOLEAN /\ now \in Nat \ {0}
  BY DEF EvidenceInv, EvidenceTypes
<1> HIDE DEF h
<1>4. worked' \in BOOLEAN /\ IF h.kind = "event" /\ h.task = job.task THEN worked' ELSE worked' = worked
  BY <1>1, <1>3
<1>5. EvidenceTypes'
  <2>1. started' \in 0..now' /\ sign' \in 0..now' /\ active' \in 0..now'
    BY <1>1, <1>3 DEF EvidenceInv, EvidenceTypes
  <2> QED BY <1>1, <1>2, <1>3, <1>4, <2>1 DEF EvidenceInv, EvidenceTypes
<1>6. IsRead(h)
  BY <1>1, <1>4 DEF IsRead
<1> QED BY <1>1, <1>5, <1>6, ReceiveKnows DEF h

LEMMA ReceiveStatusKnows == EvidenceInv /\ ReceiveStatus => EvidenceInv'
<1> SUFFICES ASSUME EvidenceInv, ReceiveStatus PROVE EvidenceInv'
  OBVIOUS
<1> DEFINE h == Head(letters)
<1>1. /\ letters # <<>> /\ h.kind = "status" /\ letters' = Tail(letters)
      /\ UNCHANGED <<now, job, late, said, rows, started, active, sign, worked, losses>>
      /\ shown' = [task |-> h.task, state |-> h.state]
  BY DEF ReceiveStatus
<1>2. h.task \in 0..MaxTasks /\ h.state \in JobStates /\ letters' \in Seq(Letters)
  BY <1>1, ReadTyped DEF EvidenceInv
<1> HIDE DEF h
<1>3. shown' \in Claims /\ shown'.task = h.task /\ shown'.state = h.state
  BY <1>1, <1>2 DEF Claims
<1>4. EvidenceTypes'
  BY <1>1, <1>2, <1>3 DEF EvidenceInv, EvidenceTypes
<1>5. IsRead(h)
  BY <1>1, <1>3 DEF IsRead
<1> QED BY <1>1, <1>4, <1>5, ReceiveKnows DEF h

-----------------------------------------------------------------------------
(* A new task, lost letters, a new runtime, and time.                         *)

LEMMA StartJobKnows == EvidenceInv /\ StartJob => EvidenceInv'
<1> SUFFICES ASSUME EvidenceInv, StartJob PROVE EvidenceInv'
  OBVIOUS
<1> USE Constants DEF EvidenceInv
<1> DEFINE t == job.task + 1
           x == Letter("update", job')
           mid == IF late' = 0 THEN Append(letters, Queued(t)) ELSE letters
<1>1. /\ job.task \in 0..MaxTasks /\ job.task < MaxTasks /\ letters \in Seq(Letters)
      /\ job.state # "running"
  BY DEF StartJob, EvidenceTypes, Claims, Terminal
<1>2. /\ job' = [task |-> t, state |-> "running"] /\ late' = (IF t \in LateTasks THEN t ELSE 0)
      /\ sign' = Never /\ worked' = FALSE
      /\ UNCHANGED <<now, said, rows, started, active, shown, losses>>
  BY DEF StartJob
<1>3. t \in 0..MaxTasks /\ t \in Nat /\ job'.task = t /\ job'.state = "running" /\ job' \in Claims
  BY <1>1, <1>2 DEF Claims, JobStates
<1>4. x \in Letters /\ IsBegin(x, t) /\ x.kind = "update" /\ x.task = t /\ x.state = "running"
  BY <1>3, LetterIs DEF IsBegin
<1>5. /\ Queued(t) \in Letters /\ Queued(t).kind = "update" /\ Queued(t).task = t
      /\ Queued(t).state = "queued"
  BY <1>3, QueuedIs
<1>6. letters' = Append(mid, x)
  <2>1. letters' = letters \o (IF late' = 0 THEN <<Queued(t)>> ELSE <<>>) \o <<x>>
    BY <1>3 DEF StartJob
  <2>2. CASE late' = 0
    <3>1. letters \o <<Queued(t)>> = Append(letters, Queued(t)) /\ mid \in Seq(Letters)
      BY <1>1, <1>5, <2>2
    <3> QED BY <1>4, <2>1, <2>2, <3>1
  <2>3. CASE late' # 0
    BY <1>1, <1>4, <2>1, <2>3
  <2> QED BY <2>2, <2>3
<1>7. /\ mid \in Seq(Letters)
      /\ \A i \in DOMAIN mid :
           (i \in DOMAIN letters /\ mid[i] = letters[i]) \/ mid[i] = Queued(t)
      /\ \A i \in DOMAIN letters : i \in DOMAIN mid /\ mid[i] = letters[i]
  <2>1. CASE late' = 0
    <3>1. mid = Append(letters, Queued(t))
      BY <2>1
    <3> HIDE DEF mid
    <3> QED BY <1>1, <1>5, <3>1, Sent
  <2>2. CASE late' # 0
    <3>1. mid = letters
      BY <2>2
    <3> QED BY <1>1, <3>1
  <2> QED BY <2>1, <2>2
<1> HIDE DEF mid, x, t
<1>8. /\ letters' \in Seq(Letters)
      /\ \A i \in DOMAIN letters' :
           \/ i \in DOMAIN mid /\ letters'[i] = mid[i]
           \/ letters'[i] = x /\ \A j \in DOMAIN letters' : ~(i < j)
      /\ \E i \in DOMAIN letters' : letters'[i] = x
  BY <1>4, <1>6, <1>7, Sent
<1>9. \A i \in DOMAIN letters' :
        \/ i \in DOMAIN letters /\ letters'[i] = letters[i]
        \/ letters'[i] = Queued(t)
        \/ letters'[i] = x /\ \A j \in DOMAIN letters' : ~(i < j)
  BY <1>7, <1>8
<1>10. EvidenceTypes'
  <2>1. late' \in {0, job'.task} /\ now' \in Nat \ {0} /\ sign' \in 0..now'
    BY <1>2, <1>3 DEF EvidenceTypes, Never
  <2>2. worked' \in BOOLEAN
    BY <1>2
  <2> QED BY <1>2, <1>3, <1>8, <2>1, <2>2 DEF EvidenceTypes
<1>11. EndsAgree'
  <2>1. ASSUME NEW u \in 0..MaxTasks, NEW s \in Terminal, Says(u, s)' PROVE Says(u, s)
    <3>1. s # "running" /\ s # "queued"
      BY DEF Terminal
    <3> QED BY <1>2, <1>3, <1>4, <1>5, <1>9, <2>1, <3>1 DEF Says
  <2>2. \A u \in 0..MaxTasks, s \in Terminal : Says(u, s)' => u < t
    BY <1>1, <2>1 DEF EndsAgree, t
  <2> QED BY <1>3, <2>1, <2>2 DEF EndsAgree
<1>12. \A i \in DOMAIN letters : letters[i].task <= job.task /\ letters[i].task \in Nat
  <2> SUFFICES ASSUME NEW i \in DOMAIN letters
               PROVE  letters[i].task <= job.task /\ letters[i].task \in Nat
    OBVIOUS
  <2>1. letters[i] \in Letters
    BY <1>1, InSequence
  <2> QED BY <2>1 DEF InOrder, Letters
<1>13. InOrder'
  <2>1. \A i \in DOMAIN letters' : letters'[i].task <= t
    BY <1>1, <1>3, <1>4, <1>5, <1>9, <1>12 DEF t
  <2>2. \A i \in DOMAIN letters' : IsBegin(letters'[i], t) => \A j \in DOMAIN letters' : ~(i < j)
    <3> SUFFICES ASSUME NEW i \in DOMAIN letters', IsBegin(letters'[i], t)
                 PROVE  \A j \in DOMAIN letters' : ~(i < j)
      OBVIOUS
    <3>1. ~(i \in DOMAIN letters /\ letters'[i] = letters[i])
      BY <1>1, <1>12 DEF IsBegin, t
    <3>2. letters'[i] # Queued(t)
      BY <1>5 DEF IsBegin
    <3> QED BY <1>9, <3>1, <3>2
  <2> QED BY <1>3, <2>1, <2>2 DEF InOrder
<1>14. StatusFollows'
  <2> SUFFICES ASSUME losses = 0 PROVE StatusFollows'
    BY <1>2 DEF StatusFollows
  <2>1. \A i \in DOMAIN letters' :
          (i \in DOMAIN letters /\ letters'[i] = letters[i]) \/ letters'[i].kind # "status"
    BY <1>4, <1>5, <1>9
  <2>2. \A i \in DOMAIN letters : i \in DOMAIN letters' /\ letters'[i] = letters[i]
    BY <1>1, <1>4, <1>6, <1>7, Sent
  <2>3. CASE shown = said /\ \A j \in DOMAIN letters : letters[j].kind # "status"
    BY <1>2, <2>1, <2>3 DEF StatusFollows
  <2>4. CASE \E i \in DOMAIN letters :
               /\ letters[i].kind = "status"
               /\ letters[i].task = said.task /\ letters[i].state = said.state
               /\ \A j \in DOMAIN letters : i < j => letters[j].kind # "status"
    <3>1. PICK i \in DOMAIN letters :
               /\ letters[i].kind = "status"
               /\ letters[i].task = said.task /\ letters[i].state = said.state
               /\ \A j \in DOMAIN letters : i < j => letters[j].kind # "status"
      BY <2>4
    <3>2. \A j \in DOMAIN letters' : i < j => letters'[j].kind # "status"
      BY <2>1, <3>1
    <3> QED BY <1>2, <2>2, <3>1, <3>2 DEF StatusFollows
  <2> QED BY <2>3, <2>4 DEF StatusFollows
<1>15. StampsAreOfTask'
  BY <1>3, <1>4, <1>8 DEF StampsAreOfTask
<1> QED BY <1>10, <1>11, <1>13, <1>14, <1>15

LEMMA LoseLettersKnows == EvidenceInv /\ LoseLetters => EvidenceInv'
<1> SUFFICES ASSUME EvidenceInv, LoseLetters PROVE EvidenceInv'
  OBVIOUS
<1> USE Constants DEF EvidenceInv
<1>1. /\ letters' = <<>> /\ losses' = losses + 1 /\ said' = NoJob
      /\ UNCHANGED <<now, job, late, rows, started, active, shown, sign, worked>>
  BY DEF LoseLetters
<1>2. letters' \in Seq(Letters) /\ DOMAIN letters' = {}
  BY <1>1
<1>3. NoJob \in Claims /\ losses' \in Nat \ {0}
  BY <1>1 DEF NoJob, Claims, JobStates, EvidenceTypes
<1>4. EvidenceTypes'
  BY <1>1, <1>2, <1>3 DEF EvidenceTypes
<1>5. EndsAgree'
  <2>1. ASSUME NEW t \in 0..MaxTasks, NEW s \in Terminal, Says(t, s)' PROVE Says(t, s)
    BY <1>1, <1>2, <2>1 DEF Says
  <2> QED BY <1>1, <2>1 DEF EndsAgree
<1>6. InOrder' /\ StatusFollows' /\ StampsAreOfTask'
  BY <1>2, <1>3 DEF InOrder, StatusFollows, StampsAreOfTask
<1> QED BY <1>4, <1>5, <1>6

LEMMA RestartRuntimeKnows == EvidenceInv /\ RestartRuntime => EvidenceInv'
<1> SUFFICES ASSUME EvidenceInv, RestartRuntime PROVE EvidenceInv'
  OBVIOUS
<1> USE Constants DEF EvidenceInv
<1>1. /\ letters' = <<>> /\ losses' = losses + 1 /\ said' = NoJob /\ shown' = NoJob
      /\ job' = [job EXCEPT !.state = "idle"] /\ late' = 0
      /\ started' = Never /\ active' = Never /\ sign' = Never /\ worked' = FALSE
      /\ UNCHANGED <<now, rows>>
  BY DEF RestartRuntime
<1>2. letters' \in Seq(Letters) /\ DOMAIN letters' = {}
  BY <1>1
<1>3. /\ NoJob \in Claims /\ losses' \in Nat \ {0} /\ job' \in Claims
      /\ job'.task = job.task /\ job'.state = "idle" /\ NoJob.state = "idle"
  <2>1. job \in Claims /\ losses \in Nat /\ "idle" \in JobStates
    BY DEF EvidenceTypes, JobStates
  <2>2. job' \in Claims /\ job'.task = job.task /\ job'.state = "idle"
    BY <1>1, <2>1 DEF Claims
  <2>3. NoJob \in Claims /\ NoJob.state = "idle"
    BY <2>1 DEF NoJob, Claims
  <2> QED BY <1>1, <2>1, <2>2, <2>3
<1>4. EvidenceTypes'
  <2>1. worked' \in BOOLEAN
    BY <1>1
  <2>2. now \in Nat \ {0} /\ rows \in Seq(Rows)
    BY DEF EvidenceTypes
  <2>3. started' \in 0..now /\ active' \in 0..now /\ sign' \in 0..now
    BY <1>1, <2>2 DEF Never
  <2> QED BY <1>1, <1>2, <1>3, <2>1, <2>2, <2>3 DEF EvidenceTypes
<1>5. EndsAgree'
  <2>1. ASSUME NEW t \in 0..MaxTasks, NEW s \in Terminal, Says(t, s)' PROVE Says(t, s)
    <3>1. s # "idle"
      BY DEF Terminal
    <3> QED BY <1>1, <1>2, <1>3, <2>1, <3>1 DEF Says
  <2> QED BY <1>3, <2>1 DEF EndsAgree
<1>6. InOrder' /\ StatusFollows' /\ StampsAreOfTask'
  BY <1>2, <1>3 DEF InOrder, StatusFollows, StampsAreOfTask
<1> QED BY <1>4, <1>5, <1>6

LEMMA TickKnows == EvidenceInv /\ Tick => EvidenceInv'
<1> SUFFICES ASSUME EvidenceInv, Tick PROVE EvidenceInv'
  OBVIOUS
<1> USE DEF EvidenceInv
<1>1. /\ now' = now + 1
      /\ UNCHANGED <<job, late, letters, said, rows, started, active, shown, sign, worked, losses>>
  BY DEF Tick
<1>2. EvidenceTypes'
  <2>1. now' \in Nat \ {0} /\ started' \in 0..now' /\ active' \in 0..now' /\ sign' \in 0..now'
    BY <1>1 DEF EvidenceTypes
  <2> QED BY <1>1, <2>1 DEF EvidenceTypes
<1>3. EndsAgree'
  BY <1>1 DEF EndsAgree, Says
<1>4. InOrder' /\ StatusFollows' /\ StampsAreOfTask'
  BY <1>1 DEF InOrder, StatusFollows, StampsAreOfTask
<1> QED BY <1>2, <1>3, <1>4

LEMMA QuietKnows ==
  EvidenceInv
    /\ UNCHANGED <<now, job, late, letters, said, rows, started, active, shown, sign, worked, losses>>
  => EvidenceInv'
BY DEF EvidenceInv, EvidenceTypes, EndsAgree, Says, InOrder, StatusFollows, StampsAreOfTask

LEMMA StepKnows == EvidenceInv /\ [EvidenceNext]_ev_vars => EvidenceInv'
<1> SUFFICES ASSUME EvidenceInv, [EvidenceNext]_ev_vars PROVE EvidenceInv'
  OBVIOUS
<1>1. CASE UNCHANGED ev_vars
  BY <1>1, QuietKnows DEF ev_vars
<1>2. CASE LogLine
  BY <1>2, QuietKnows DEF LogLine
<1>3. CASE StartJob \/ SayQueued \/ Work \/ FinishJob \/ SayStatus
  BY <1>3, StartJobKnows, SayQueuedKnows, WorkKnows, FinishJobKnows, SayStatusKnows
<1>4. CASE LoseLetters \/ RestartRuntime \/ Tick
  BY <1>4, LoseLettersKnows, RestartRuntimeKnows, TickKnows
<1>5. CASE ReceiveUpdate \/ ReceiveEvent \/ ReceiveStatus
  BY <1>5, ReceiveUpdateKnows, ReceiveEventKnows, ReceiveStatusKnows
<1> QED BY <1>1, <1>2, <1>3, <1>4, <1>5 DEF EvidenceNext

-----------------------------------------------------------------------------
(* The newest r of the window.                                              *)

LEMMA NewestExists ==
  ASSUME NEW n \in Nat, NEW S \in SUBSET (1 .. n), S # {}
  PROVE  Newest(S) \in S
<1> DEFINE R == {n - i : i \in S}
<1>1. R \in SUBSET Nat /\ R # {}
  <2>1. PICK x \in S : TRUE
    OBVIOUS
  <2>2. n - x \in R
    BY <2>1
  <2>3. \A i \in S : n - i \in Nat
    OBVIOUS
  <2> QED BY <2>2, <2>3
<1>2. PICK m \in R : \A r \in R : ~(<<r, m>> \in OpToRel(<, Nat))
  BY <1>1, NatLessThanWellFounded, WFMin
<1>3. PICK i \in S : m = n - i
  OBVIOUS
<1>4. ASSUME NEW j \in S PROVE j <= i
  <2>1. n - j \in R /\ n - j \in Nat /\ m \in Nat
    BY <1>1
  <2>2. ~(n - j < m)
    BY <1>2, <2>1 DEF OpToRel
  <2> QED BY <1>3, <2>1, <2>2
<1>5. \E k \in S : \A j \in S : j <= k
  BY <1>4
<1> QED BY <1>5, Zenon DEF Newest

\* What the rows are taken to say of the task is what one of its rows says.
LEMMA PersistedIs ==
  ASSUME EvidenceTypes, NEW cut \in Nat
  PROVE  \/ Persisted(cut) = "none"
         \/ \E i \in DOMAIN rows : rows[i].task = shown.task /\ Persisted(cut) = rows[i].state
<1>1. DOMAIN rows = 1 .. Len(rows) /\ Len(rows) \in Nat
  BY DEF EvidenceTypes
<1>2. CASE Evidence(cut) = {}
  BY <1>2 DEF Persisted
<1>3. CASE Evidence(cut) # {}
  <2>1. Evidence(cut) \in SUBSET (1 .. Len(rows))
    BY <1>1 DEF Evidence
  <2>2. Newest(Evidence(cut)) \in Evidence(cut)
    BY <1>1, <1>3, <2>1, NewestExists
  <2>3. Newest(Evidence(cut)) \in DOMAIN rows /\ rows[Newest(Evidence(cut))].task = shown.task
    BY <2>2 DEF Evidence
  <2>4. Persisted(cut) = rows[Newest(Evidence(cut))].state
    BY <1>3 DEF Persisted
  <2> QED BY <2>3, <2>4
<1> QED BY <1>2, <1>3

-----------------------------------------------------------------------------
(* The theorem.                                                               *)

LEMMA VerdictsHold == EvidenceInv => EvidenceIsSound
<1> SUFFICES ASSUME EvidenceInv PROVE EvidenceIsSound
  OBVIOUS
<1> USE Constants DEF EvidenceInv
<1>1. ASSUME AllReceived, losses = 0
      PROVE  /\ shown = job
             /\ job.state # "idle" =>
                  /\ started # Never /\ started <= sign /\ active <= sign
                  /\ ~worked => active <= started
  <2>1. DOMAIN letters = {} /\ said = job
    BY <1>1 DEF AllReceived
  <2> QED BY <1>1, <2>1 DEF StatusFollows, StampsAreOfTask
<1>2. StallNoticed
  <2> SUFFICES ASSUME AllReceived, job.state = "running", losses = 0, Age(sign) >= Hung
               PROVE  Health \in {"silent", "hung"}
    BY DEF StallNoticed
  <2>1. /\ shown.state = "running" /\ started # Never /\ started <= sign /\ active <= sign
    BY <1>1
  <2>2. /\ now \in Nat /\ started \in Nat /\ active \in Nat /\ sign \in Nat
    BY DEF EvidenceTypes
  <2>3. Age(started) >= Silent /\ Age(active) >= Hung
    BY <2>1, <2>2 DEF Age
  <2>4. CASE active = Never
    BY <2>1, <2>3, <2>4 DEF Health
  <2>5. CASE active # Never
    BY <2>1, <2>3, <2>5 DEF Health
  <2> QED BY <2>4, <2>5
<1>3. SilentFailureIsFast
  <2> SUFFICES ASSUME AllReceived, losses = 0, job.state = "failed", ~worked
               PROVE  Health = "failed_fast"
    BY DEF SilentFailureIsFast
  <2>1. shown.state = "failed" /\ started # Never /\ active <= started
    BY <1>1
  <2>2. started \in Nat /\ active \in Nat
    BY DEF EvidenceTypes
  <2>3. active <= started + FailedFast
    BY <2>1, <2>2
  <2> QED BY <2>1, <2>3 DEF Health
<1>4. LossIsFlagged
  <2> SUFFICES ASSUME NEW cut \in 0..Len(rows), shown.state \in Terminal, shown.task # 0,
                      \A i \in DOMAIN rows : rows[i].task = shown.task => rows[i].state \notin Terminal
               PROVE  Discrepancy(cut) = "missing_terminal_update"
    BY DEF LossIsFlagged
  <2>0. cut \in Nat
    BY DEF EvidenceTypes
  <2>1. Persisted(cut) \notin Terminal
    BY <2>0, PersistedIs DEF Terminal
  <2>2. Persisted(cut) # shown.state
    BY <2>1
  <2> QED BY <2>1, <2>2 DEF Discrepancy
<1>5. NeverTwoEnds
  <2> SUFFICES ASSUME NEW cut \in 0..Len(rows), shown.state \in Terminal,
                      Persisted(cut) \in Terminal
               PROVE  Persisted(cut) = shown.state
    BY DEF NeverTwoEnds, Discrepancy, NoVerdict
  <2>0. cut \in Nat
    BY DEF EvidenceTypes
  <2>1. PICK i \in DOMAIN rows : rows[i].task = shown.task /\ Persisted(cut) = rows[i].state
    BY <2>0, PersistedIs DEF Terminal
  <2>2. Says(shown.task, shown.state) /\ Says(shown.task, Persisted(cut))
    BY <2>1 DEF Says
  <2>3. shown.task \in 0..MaxTasks
    BY DEF EvidenceTypes, Claims
  <2> QED BY <2>2, <2>3 DEF EndsAgree
<1> QED BY <1>2, <1>3, <1>4, <1>5 DEF EvidenceIsSound

\* The verdicts on a task hold whatever was lost, late or left over from another task: a
\* stall is noticed, a task that failed without a sign of work is called so, the end of a
\* task that never became a row is flagged, and rows and status never name two ends of
\* one task (task_health.py, incident.py).
THEOREM EvidenceCorrect == EvidenceSpec => []EvidenceIsSound
<1>1. EvidenceInit => EvidenceInv
  BY InitKnown
<1>2. EvidenceInv /\ [EvidenceNext]_ev_vars => EvidenceInv'
  BY StepKnows
<1>3. EvidenceInv => EvidenceIsSound
  BY VerdictsHold
<1> QED BY <1>1, <1>2, <1>3, PTL DEF EvidenceSpec

-----------------------------------------------------------------------------
(***************************************************************************)
(* The viewers of a terminal are served, for any number of viewers,        *)
(* processes and chunks of output.                                         *)
(*                                                                         *)
(* The reader threads share the objects with the transport thread without  *)
(* a lock, and what they find depends on who wrote last.  The invariant    *)
(* says that an object that was never reopened before its reader was done  *)
(* has one reader (OneReader), the one of its process, which is as far as  *)
(* that process lets it be; so the buffer holds nothing of a process that  *)
(* has just begun.  What an attached viewer has not been shown is then in  *)
(* the hands of the reader, in a snapshot or in an event, unless its own   *)
(* open is still to be handled (Shown).                                    *)
(***************************************************************************)
USE DEF Procs, Objs

ViewerRec == [pc : {"away", "joined", "attached"}, told : 0..MaxProcs,
              seen : SUBSET (Chunks \union {<<p, 0>> : p \in Procs})]
SessionRec == [proc : 0..MaxProcs, fd : 0..MaxProcs, program : Programs,
               buffer : Seq(Chunks), used : BOOLEAN]
ProcessRec == [state : {"none", "running", "signalled", "dying", "exited"},
               program : Programs, out : 0..left.chunks, open : BOOLEAN]
ReaderRec == [pc : {"none", "start", "load", "read", "publish", "wait", "announce", "release", "done"},
              obj : 0..MaxProcs, fd : 0..MaxProcs, chunk : SUBSET Chunks]
LimitRec == [ops : Nat, chunks : Nat, drops : Nat, claude : BOOLEAN]
Notices == {e \in Events : e.kind = "exited" => e.proc # 0}
Steps == {"idle", "reply", "snapshot", "spawn", "started", "announce", "write"}

TermTypes ==
    /\ left \in LimitRec /\ broken \in BOOLEAN /\ relay \in BOOLEAN
    /\ viewer \in [Viewers -> ViewerRec]
    /\ events \in Seq(Notices) /\ down \in Seq(Commands)
    /\ table \in 0..MaxProcs /\ reopened \subseteq Objs
    /\ obj \in [Objs -> SessionRec]
    /\ \A o \in Objs : Len(obj[o].buffer) <= MaxBuffer
    /\ process \in [Procs -> ProcessRec]
    /\ reader \in [Procs -> ReaderRec]
    /\ \A p \in Procs : /\ reader[p].pc # "none" => reader[p].obj # 0
                        /\ reader[p].pc = "read" => reader[p].fd # 0
    /\ thread = [pc |-> thread.pc, obj |-> thread.obj, text |-> thread.text]
    /\ thread.pc \in Steps /\ thread.obj \in 0..MaxProcs
    /\ thread.pc = "snapshot" => thread.text \subseteq Chunks
    /\ thread.pc \in {"started", "announce"} => \E p \in Procs : thread.text = {p}
    /\ thread.pc # "idle" => table # 0 /\ thread.obj = table

LEMMA HeadAndTail ==
  ASSUME NEW S, NEW s \in Seq(S), s # <<>>
  PROVE  Head(s) \in S /\ Tail(s) \in Seq(S)
  OBVIOUS

LEMMA Appending ==
  ASSUME NEW S, NEW s \in Seq(S), NEW e \in S
  PROVE  Append(s, e) \in Seq(S)
  OBVIOUS

LEMMA TypesOK == ASSUME TermTypes PROVE TermTypeOK
  <1>1. \A i \in DOMAIN events : events[i] \in Events
    BY InSequence DEF TermTypes, Notices
  <1>2. ToSet(down) \subseteq Commands
    BY InSequence DEF TermTypes, ToSet
  <1> QED
    BY <1>1, <1>2 DEF TermTypes, TermTypeOK, ViewerRec, SessionRec, ProcessRec, ReaderRec, Steps

LEMMA LimitUpdates ==
  ASSUME NEW l \in LimitRec, NEW n \in Nat
  PROVE  /\ [l EXCEPT !.ops = n] \in LimitRec /\ [l EXCEPT !.ops = n].chunks = l.chunks
         /\ [l EXCEPT !.drops = n] \in LimitRec /\ [l EXCEPT !.drops = n].chunks = l.chunks
  <1>1. [l EXCEPT !.ops = n] \in LimitRec /\ [l EXCEPT !.drops = n] \in LimitRec
    BY Zenon DEF LimitRec
  <1>2. [l EXCEPT !.ops = n].chunks = l.chunks /\ [l EXCEPT !.drops = n].chunks = l.chunks
    BY Zenon DEF LimitRec
  <1> QED
    BY <1>1, <1>2

LEMMA LimitFields ==
  ASSUME NEW l \in LimitRec
  PROVE  l.ops \in Nat /\ l.drops \in Nat
  BY DEF LimitRec

\* The bound of the output stays.
LEMMA SpendType ==
  ASSUME TermTypes, Spend
  PROVE  left' \in LimitRec /\ left'.chunks = left.chunks /\ broken' = broken
  <1>1. left \in LimitRec /\ left.ops > 0 /\ broken' = broken
    BY DEF TermTypes, Spend
  <1> DEFINE n == left.ops - 1
  <1>2. n \in Nat /\ left' = [left EXCEPT !.ops = n]
    BY <1>1, LimitFields DEF Spend
  <1> HIDE DEF n
  <1> QED
    BY <1>1, <1>2, LimitUpdates

LEMMA PushType ==
  ASSUME TermTypes, NEW c \in Commands, Push(c)
  PROVE  down' \in Seq(Commands)
  BY DEF TermTypes, Push

LEMMA SameTypes ==
  ASSUME TermTypes, left'.chunks = left.chunks
  PROVE  /\ Chunks' = Chunks /\ Events' = Events /\ Notices' = Notices /\ ViewerRec' = ViewerRec
         /\ SessionRec' = SessionRec /\ ProcessRec' = ProcessRec /\ ReaderRec' = ReaderRec
  BY DEF Chunks, Events, Notices, ViewerRec, SessionRec, ProcessRec, ReaderRec

LEMMA InitTypes == TermInit => TermTypes
  <1> SUFFICES ASSUME TermInit PROVE TermTypes
    OBVIOUS
  <1>0. left \in LimitRec
    BY TerminalsAssumption DEF TermInit, LimitRec
  <1>1. viewer \in [Viewers -> ViewerRec]
    BY TerminalsAssumption DEF TermInit, ViewerRec, Gone
  <1>2. obj \in [Objs -> SessionRec] /\ \A o \in Objs : Len(obj[o].buffer) <= MaxBuffer
    BY TerminalsAssumption DEF TermInit, SessionRec, Programs
  <1>3. process \in [Procs -> ProcessRec]
    BY TerminalsAssumption, <1>0 DEF TermInit, ProcessRec, Programs, LimitRec
  <1>4. reader \in [Procs -> ReaderRec]
    BY TerminalsAssumption DEF TermInit, ReaderRec, NoReader
  <1> QED
    <2>1. thread = [pc |-> "idle", obj |-> 0, text |-> {}]
      BY DEF TermInit, Resting
    <2>2. events \in Seq(Notices) /\ down \in Seq(Commands)
      BY DEF TermInit
    <2>3. table \in 0..MaxProcs /\ reopened \subseteq Objs
      BY TerminalsAssumption DEF TermInit
    <2>4. relay \in BOOLEAN /\ broken \in BOOLEAN
      BY Zenon DEF TermInit
    <2>5. \A p \in Procs : reader[p].pc = "none"
      BY DEF TermInit, NoReader
    <2> QED
      BY <1>0, <1>1, <1>2, <1>3, <1>4, <2>1, <2>2, <2>3, <2>4, <2>5, TerminalsAssumption
      DEF TermTypes, Steps

LEMMA LosesLinkType ==
  ASSUME TermTypes, LosesLink
  PROVE  events' \in Seq(Notices) /\ down' \in Seq(Commands) /\ relay' = FALSE /\ broken' = TRUE
  BY DEF TermTypes, LosesLink

LEMMA BrowserTypes ==
  ASSUME TermTypes, NEW v \in Viewers,
         Join(v) \/ PushOpen(v) \/ (\E c \in Uses : Type(v, c)) \/ Leave(v)
  PROVE  TermTypes'
  <1>1. CASE Join(v)
    <2>1. left' \in LimitRec /\ left'.chunks = left.chunks /\ broken' = broken
      BY <1>1, SpendType DEF Join
    <2>2. [Gone EXCEPT !.pc = "joined"] \in ViewerRec
      BY TerminalsAssumption DEF Gone, ViewerRec
    <2>3. viewer' \in [Viewers -> ViewerRec]
      BY <1>1, <2>2 DEF Join, TermTypes
    <2> QED
      BY <1>1, <2>1, <2>3, SameTypes DEF Join, TermTypes
  <1>2. CASE PushOpen(v)
    <2>1. down' \in Seq(Commands)
      BY <1>2, PushType, TerminalsAssumption DEF PushOpen, Commands, Programs
    <2>2. viewer[v] \in ViewerRec
      BY DEF TermTypes
    <2>3. [viewer[v] EXCEPT !.pc = "attached"] \in ViewerRec
      BY <2>2 DEF ViewerRec
    <2>4. viewer' \in [Viewers -> ViewerRec]
      BY <1>2, <2>3 DEF PushOpen, TermTypes
    <2> QED
      BY <1>2, <2>1, <2>4, SameTypes DEF PushOpen, TermTypes
  <1>3. ASSUME NEW c \in Uses, Type(v, c) PROVE TermTypes'
    <2>1. left' \in LimitRec /\ left'.chunks = left.chunks /\ broken' = broken
      BY <1>3, SpendType DEF Type
    <2>2. down' \in Seq(Commands)
      BY <1>3, PushType DEF Type, Uses, Commands
    <2> QED
      BY <1>3, <2>1, <2>2, SameTypes DEF Type, TermTypes
  <1>4. CASE Leave(v)
    <2>1. down' \in Seq(Commands)
      BY <1>4, PushType DEF Leave, Commands, TermTypes
    <2>2. Gone \in ViewerRec
      BY TerminalsAssumption DEF Gone, ViewerRec
    <2>3. viewer' \in [Viewers -> ViewerRec]
      BY <1>4, <2>2 DEF Leave, TermTypes
    <2> QED
      BY <1>4, <2>1, <2>3, SameTypes DEF Leave, TermTypes
  <1> QED
    BY <1>1, <1>2, <1>3, <1>4

LEMMA LinkTypes ==
  ASSUME TermTypes, Forward \/ LinkBreaks \/ LinkReturns \/ Write
  PROVE  TermTypes'
  <1>1. CASE Forward
    <2> DEFINE e == Head(events)
    <2>0. events \in Seq(Notices) /\ events # <<>> /\ events' = Tail(events)
      BY <1>1 DEF Forward, TermTypes
    <2>1. events' \in Seq(Notices) /\ e \in Notices
      BY <2>0, HeadAndTail
    <2>2. e.proc \in 0..MaxProcs /\ e.data \subseteq Chunks /\ (e.kind = "exited" => e.proc \in Procs)
      BY <2>1 DEF Notices, Events
    <2> HIDE DEF e
    <2>3. viewer' \in [Viewers -> ViewerRec]
      <3> SUFFICES ASSUME NEW v \in Viewers
                   PROVE  viewer'[v] \in ViewerRec
        BY <1>1 DEF Forward
      <3> DEFINE told == IF e.kind = "opened" THEN e.proc ELSE viewer[v].told
                 seen == viewer[v].seen \union e.data
                           \union (IF e.kind = "exited" THEN {<<e.proc, 0>>} ELSE {})
      <3>1. viewer[v] \in ViewerRec
        BY DEF TermTypes
      <3>3. told \in 0..MaxProcs /\ seen \in SUBSET (Chunks \union {<<p, 0>> : p \in Procs})
        BY <3>1, <2>2 DEF ViewerRec
      <3>4. [viewer[v] EXCEPT !.told = told, !.seen = seen] \in ViewerRec
        <4> HIDE DEF told, seen
        <4> QED
          BY <3>1, <3>3 DEF ViewerRec
      <3>2. viewer'[v] = viewer[v] \/ viewer'[v] = [viewer[v] EXCEPT !.told = told, !.seen = seen]
        BY <1>1 DEF Forward, e
      <3> QED
        BY <3>1, <3>2, <3>3, <3>4
    <2> QED
      BY <1>1, <2>1, <2>3, SameTypes DEF Forward, TermTypes
  <1>2. CASE LinkBreaks
    <2>1. left' \in LimitRec /\ left'.chunks = left.chunks
      <3>1. left \in LimitRec /\ left.drops > 0
        BY <1>2 DEF TermTypes, LinkBreaks
      <3> DEFINE n == left.drops - 1
      <3>2. n \in Nat /\ left' = [left EXCEPT !.drops = n]
        BY <1>2, <3>1, LimitFields DEF LinkBreaks
      <3> HIDE DEF n
      <3> QED
        BY <3>1, <3>2, LimitUpdates
    <2>2. events' \in Seq(Notices) /\ down' \in Seq(Commands) /\ relay' = FALSE /\ broken' = TRUE
      BY <1>2, LosesLinkType DEF LinkBreaks
    <2> QED
      BY <1>2, <2>1, <2>2, SameTypes DEF LinkBreaks, TermTypes
  <1>3. CASE LinkReturns
    BY <1>3, SameTypes DEF LinkReturns, TermTypes
  <1>4. CASE Write
    <2>1. events' \in Seq(Notices) /\ down' \in Seq(Commands)
          /\ relay' \in BOOLEAN /\ broken' \in BOOLEAN
      BY <1>4, LosesLinkType DEF Write, TermTypes
    <2>2. /\ thread' = [pc |-> thread'.pc, obj |-> thread'.obj, text |-> thread'.text]
          /\ thread'.pc = "idle" /\ thread'.obj = 0
      BY <1>4 DEF Write, Resting
    <2>3. left' = left /\ UNCHANGED <<viewer, table, obj, process, reader, reopened>>
      BY <1>4 DEF Write
    <2> HIDE <1>4
    <2> QED
      BY <2>1, <2>2, <2>3, SameTypes, TerminalsAssumption DEF TermTypes, Steps
  <1> QED
    BY <1>1, <1>2, <1>3, <1>4

LEMMA EventsType ==
  ASSUME TermTypes, NEW p \in 0..MaxProcs, NEW cs \in SUBSET Chunks
  PROVE  Opened(p) \in Notices /\ Frame(cs) \in Notices /\ (p # 0 => Exited(p) \in Notices)
  BY TerminalsAssumption DEF Notices, Events, Opened, Frame, Exited

LEMMA RestingIs ==
  /\ Resting = [pc |-> "idle", obj |-> 0, text |-> {}]
  /\ Resting.pc = "idle" /\ Resting.obj = 0
  BY DEF Resting

LEMMA ReceivesType ==
  ASSUME TermTypes, NEW c, Receives(c)
  PROVE  /\ down' \in Seq(Commands) /\ c \in Commands /\ thread = Resting /\ thread.pc = "idle"
         /\ down # <<>> /\ c = Head(down) /\ down' = Tail(down)
  BY HeadAndTail, RestingIs DEF Receives, TermTypes

LEMMA MastersType ==
  ASSUME TermTypes, NEW ps \in [Procs -> ProcessRec], NEW fd \in 0..MaxProcs
  PROVE  MasterClosed(ps, fd) \in [Procs -> ProcessRec]
  <1>1. CASE fd = 0
    BY <1>1 DEF MasterClosed
  <1>2. CASE fd # 0
    <2>1. fd \in Procs /\ ps[fd] \in ProcessRec
      BY <1>2, TerminalsAssumption
    <2>2. [ps[fd] EXCEPT !.open = FALSE] \in ProcessRec
      BY <2>1, Zenon DEF ProcessRec
    <2>3. MasterClosed(ps, fd) = [ps EXCEPT ![fd] = [ps[fd] EXCEPT !.open = FALSE]]
      BY <1>2 DEF MasterClosed
    <2> QED
      BY <2>2, <2>3
  <1> QED
    BY <1>1, <1>2

LEMMA MastersKeep ==
  ASSUME NEW ps \in [Procs -> ProcessRec], NEW fd \in 0..MaxProcs, NEW p \in Procs
  PROVE  MasterClosed(ps, fd)[p].state = ps[p].state
  BY DEF MasterClosed, ProcessRec

LEMMA StateType ==
  ASSUME NEW r \in ProcessRec, NEW st \in {"none", "running", "signalled", "dying", "exited"}
  PROVE  [r EXCEPT !.state = st] \in ProcessRec
  BY Zenon DEF ProcessRec

LEMMA TerminatedType ==
  ASSUME TermTypes, NEW p \in Procs
  PROVE  Terminated(p) \in [Procs -> ProcessRec]
  <1> DEFINE st == IF process[p].state = "running" /\ process[p].program = "claude" THEN "signalled"
                   ELSE process[p].state
             r == process[p]
  <1>1. r \in ProcessRec /\ st \in {"none", "running", "signalled", "dying", "exited"}
    BY DEF TermTypes, ProcessRec
  <1>2. Terminated(p) = [process EXCEPT ![p] = [r EXCEPT !.state = st]]
    BY DEF Terminated
  <1> HIDE DEF st, r
  <1>3. [r EXCEPT !.state = st] \in ProcessRec
    BY <1>1, StateType
  <1> QED
    BY <1>2, <1>3 DEF TermTypes

LEMMA SessionType ==
  ASSUME NEW r \in SessionRec, NEW n \in 0..MaxProcs, NEW g \in Programs
  PROVE  /\ [r EXCEPT !.proc = n] \in SessionRec
         /\ [r EXCEPT !.fd = n] \in SessionRec
         /\ [r EXCEPT !.fd = n, !.program = g] \in SessionRec
         /\ [r EXCEPT !.used = TRUE, !.program = g] \in SessionRec
  <1>1. [r EXCEPT !.proc = n] \in SessionRec
    BY Zenon DEF SessionRec
  <1>2. [r EXCEPT !.fd = n] \in SessionRec
    BY Zenon DEF SessionRec
  <1>3. [r EXCEPT !.fd = n, !.program = g] \in SessionRec
    BY Zenon DEF SessionRec
  <1>4. [r EXCEPT !.used = TRUE, !.program = g] \in SessionRec
    BY Zenon DEF SessionRec
  <1> QED
    BY <1>1, <1>2, <1>3, <1>4

\* The object of a command, and what every step leaves of the objects it writes.
LEMMA OpenTypes ==
  ASSUME TermTypes, NEW g \in Programs, HandleOpen(g)
  PROVE  TermTypes'
  <1>1. down' \in Seq(Commands)
    BY ReceivesType DEF HandleOpen
  <1>2. PICK o \in Objs :
          /\ table' = o
          /\ obj' = [obj EXCEPT ![o].used = TRUE, ![o].program = g]
          /\ thread' = [Resting EXCEPT !.obj = o, !.pc = IF Alive(obj[o].proc) THEN "reply" ELSE "spawn"]
    BY DEF HandleOpen
  <1>8. obj' = [obj EXCEPT ![o] = [obj[o] EXCEPT !.used = TRUE, !.program = g]]
    BY <1>2 DEF TermTypes
  <1>3. [obj[o] EXCEPT !.used = TRUE, !.program = g] \in SessionRec
    BY SessionType, TerminalsAssumption DEF TermTypes
  <1>4. obj' \in [Objs -> SessionRec]
    BY <1>8, <1>3 DEF TermTypes
  <1>5. \A q \in Objs : obj'[q].buffer = obj[q].buffer
    BY <1>8 DEF TermTypes, SessionRec
  <1>6. /\ thread' = [pc |-> thread'.pc, obj |-> thread'.obj, text |-> thread'.text]
        /\ thread'.pc \in {"reply", "spawn"} /\ thread'.obj = o
    BY <1>2, RestingIs
  <1>7. UNCHANGED <<viewer, relay, events, process, reader, reopened, left, broken>>
    BY DEF HandleOpen
  <1> QED
    BY <1>1, <1>2, <1>4, <1>5, <1>6, <1>7, SameTypes, TerminalsAssumption DEF TermTypes, Steps

LEMMA AnswerTypes ==
  ASSUME TermTypes, Reply \/ Snapshot \/ Announce
  PROVE  TermTypes'
  <1>1. UNCHANGED <<viewer, relay, down, table, obj, process, reader, reopened, left, broken>>
    BY DEF Reply, Snapshot, Announce
  <1>2. \E e \in Notices : events' = Append(events, e)
    <2>1. CASE Reply
      <3> DEFINE p == obj[thread.obj].proc
      <3>1. p \in 0..MaxProcs
        BY <2>1, TerminalsAssumption DEF Reply, TermTypes, SessionRec
      <3>2. events' = Append(events, Opened(p))
        BY <2>1 DEF Reply
      <3> HIDE DEF p
      <3> QED
        BY <3>1, <3>2, EventsType
    <2>2. CASE Snapshot
      <3>1. thread.text \subseteq Chunks
        BY <2>2 DEF Snapshot, TermTypes
      <3>2. Frame(thread.text) \in Notices
        BY <3>1, TerminalsAssumption DEF Frame, Notices, Events
      <3> QED
        BY <2>2, <3>2 DEF Snapshot
    <2>3. CASE Announce
      <3>1. PICK p \in Procs : events' = Append(events, Opened(p))
        BY <2>3 DEF Announce, TermTypes
      <3> QED
        BY <3>1, EventsType
    <2> QED
      BY <2>1, <2>2, <2>3
  <1>4. events' \in Seq(Notices)
    BY <1>2, Appending DEF TermTypes
  <1>3. /\ thread' = [pc |-> thread'.pc, obj |-> thread'.obj, text |-> thread'.text]
        /\ thread'.pc \in {"idle", "snapshot"} /\ thread'.obj \in 0..MaxProcs
        /\ thread'.pc = "snapshot" => thread'.text \subseteq Chunks /\ table # 0 /\ thread'.obj = table
    <2>1. CASE thread' = Resting
      BY <2>1, RestingIs, TerminalsAssumption
    <2>2. CASE Reply /\ thread' # Resting
      <3>1. thread' = [thread EXCEPT !.pc = "snapshot", !.text = ToSet(obj[thread.obj].buffer)]
        BY <2>2 DEF Reply
      <3>2. table # 0 /\ thread.obj = table /\ table \in Objs
        BY <2>2, TerminalsAssumption DEF Reply, TermTypes
      <3>3. obj[table].buffer \in Seq(Chunks)
        BY <3>2 DEF TermTypes, SessionRec
      <3>4. ToSet(obj[table].buffer) \subseteq Chunks
        BY <3>3, InSequence DEF ToSet
      <3>5. thread = [pc |-> thread.pc, obj |-> thread.obj, text |-> thread.text]
        BY DEF TermTypes
      <3>6. thread' = [pc |-> "snapshot", obj |-> table, text |-> ToSet(obj[table].buffer)]
        BY <3>1, <3>2, <3>5
      <3> QED
        BY <3>2, <3>4, <3>6, TerminalsAssumption
    <2> QED
      BY <2>1, <2>2 DEF Reply, Snapshot, Announce
  <1> QED
    BY <1>1, <1>3, <1>4, SameTypes DEF TermTypes, Steps

\* What Spawn does, in the terms of its process.
Spawns(p, o, g) ==
    /\ thread.pc = "spawn" /\ o = thread.obj /\ process[p].state = "none" /\ g \in Programs
    /\ process' = [process EXCEPT ![p] = [process[p] EXCEPT !.state = "running", !.program = g, !.open = TRUE]]
    /\ obj' = [obj EXCEPT ![o] = [obj[o] EXCEPT !.fd = p, !.program = g]]
    /\ reopened' = IF \E q \in Procs : reader[q].obj = o /\ reader[q].pc # "done"
                   THEN reopened \union {o} ELSE reopened
    /\ thread' = [pc |-> "started", obj |-> o, text |-> {p}]
    /\ UNCHANGED <<viewer, relay, down, events, table, reader, left, broken>>

LEMMA SpawnIs ==
  ASSUME TermTypes, Spawn
  PROVE  \E p \in Procs, g \in Programs : Spawns(p, table, g)
  <1>1. table \in Objs /\ thread.obj = table
    BY TerminalsAssumption DEF Spawn, TermTypes
  <1> DEFINE g == IF left.claude THEN obj[table].program ELSE "shell"
  <1>2. PICK p \in Procs :
          /\ process[p].state = "none"
          /\ process' = [process EXCEPT ![p] = [@ EXCEPT !.state = "running", !.program = g, !.open = TRUE]]
          /\ obj' = [obj EXCEPT ![table].fd = p, ![table].program = g]
          /\ reopened' = IF \E q \in Procs : reader[q].obj = table /\ reader[q].pc # "done"
                         THEN reopened \union {table} ELSE reopened
          /\ thread' = [thread EXCEPT !.pc = "started", !.text = {p}]
    BY <1>1 DEF Spawn
  <1>3. g \in Programs
    BY <1>1 DEF TermTypes, SessionRec, Programs
  <1> HIDE DEF g
  <1>4. obj' = [obj EXCEPT ![table] = [obj[table] EXCEPT !.fd = p, !.program = g]]
    BY <1>1, <1>2 DEF TermTypes
  <1>5. thread' = [pc |-> "started", obj |-> table, text |-> {p}]
    BY <1>1, <1>2 DEF TermTypes
  <1>6. Spawns(p, table, g)
    BY <1>1, <1>2, <1>3, <1>4, <1>5 DEF Spawns, Spawn
  <1> QED
    BY <1>3, <1>6

LEMMA SpawnTypes ==
  ASSUME TermTypes, Spawn
  PROVE  TermTypes'
  <1>1. PICK p \in Procs, g \in Programs : Spawns(p, table, g)
    BY SpawnIs
  <1>2. table \in Objs
    BY TerminalsAssumption DEF Spawn, TermTypes
  <1>3. process' \in [Procs -> ProcessRec]
    <2> DEFINE r == [process[p] EXCEPT !.state = "running", !.program = g, !.open = TRUE]
    <2>1. process[p] \in ProcessRec
      BY DEF TermTypes
    <2>2. r \in ProcessRec
      BY <2>1, Zenon DEF ProcessRec
    <2>3. process' = [process EXCEPT ![p] = r]
      BY <1>1 DEF Spawns
    <2> HIDE DEF r
    <2> QED
      BY <2>2, <2>3 DEF TermTypes
  <1>4. obj' \in [Objs -> SessionRec]
    <2> DEFINE r == [obj[table] EXCEPT !.fd = p, !.program = g]
    <2>0. obj[table] \in SessionRec /\ p \in 0..MaxProcs
      BY <1>2 DEF TermTypes
    <2>1. r \in SessionRec
      BY <2>0, SessionType
    <2>2. obj' = [obj EXCEPT ![table] = r]
      BY <1>1 DEF Spawns
    <2> HIDE DEF r
    <2> QED
      BY <2>1, <2>2 DEF TermTypes
  <1>5. \A q \in Objs : obj'[q].buffer = obj[q].buffer
    BY <1>1 DEF Spawns, TermTypes, SessionRec
  <1>6. reopened' \subseteq Objs
    BY <1>1, <1>2 DEF Spawns, TermTypes
  <1>7. /\ thread' = [pc |-> thread'.pc, obj |-> thread'.obj, text |-> thread'.text]
        /\ thread'.pc = "started" /\ thread'.obj = table /\ thread'.text = {p}
        /\ UNCHANGED <<viewer, relay, down, events, table, reader, left, broken>>
    BY <1>1 DEF Spawns
  <1>8. \A q \in Objs : Len(obj'[q].buffer) <= MaxBuffer
    BY <1>5 DEF TermTypes
  <1>9. /\ thread'.obj \in 0..MaxProcs /\ table' # 0 /\ thread'.obj = table'
        /\ \E q \in Procs : thread'.text = {q}
    BY <1>2, <1>7
  <1>10. UNCHANGED <<Chunks, Events, Notices, ViewerRec, SessionRec, ProcessRec, ReaderRec>>
    BY <1>7, SameTypes
  <1> QED
    BY <1>3, <1>4, <1>6, <1>7, <1>8, <1>9, <1>10 DEF TermTypes, Steps

Starts(p, o) ==
    /\ thread.pc = "started" /\ o = thread.obj /\ thread.text = {p}
    /\ obj' = [obj EXCEPT ![o] = [obj[o] EXCEPT !.proc = p]]
    /\ reader' = [reader EXCEPT ![p] = [pc |-> "start", obj |-> o, fd |-> 0, chunk |-> {}]]
    /\ thread' = [pc |-> "announce", obj |-> o, text |-> {p}]
    /\ UNCHANGED <<viewer, relay, down, events, table, process, reopened, left, broken>>

LEMMA StartedIs ==
  ASSUME TermTypes, Started
  PROVE  \E p \in Procs : Starts(p, table)
  <1>1. table \in Objs /\ thread.obj = table
    BY TerminalsAssumption DEF Started, TermTypes
  <1>2. PICK p \in Procs : thread.text = {p}
    BY DEF Started, TermTypes
  <1>3. /\ obj' = [obj EXCEPT ![table].proc = p]
        /\ reader' = [reader EXCEPT ![p] = [NoReader EXCEPT !.pc = "start", !.obj = thread.obj]]
    BY <1>1, <1>2 DEF Started
  <1>4. obj' = [obj EXCEPT ![table] = [obj[table] EXCEPT !.proc = p]]
    BY <1>1, <1>3 DEF TermTypes
  <1>5. reader' = [reader EXCEPT ![p] = [pc |-> "start", obj |-> table, fd |-> 0, chunk |-> {}]]
    <2>1. [NoReader EXCEPT !.pc = "start", !.obj = thread.obj] = [pc |-> "start", obj |-> table, fd |-> 0, chunk |-> {}]
      <3>1. NoReader \in ReaderRec /\ table \in 0..MaxProcs
        BY <1>1, TerminalsAssumption DEF NoReader, ReaderRec
      <3>2. NoReader.fd = 0 /\ NoReader.chunk = {}
        BY DEF NoReader
      <3> DEFINE r == [NoReader EXCEPT !.pc = "start", !.obj = table]
      <3>3. r \in ReaderRec /\ r.pc = "start" /\ r.obj = table /\ r.fd = 0 /\ r.chunk = {}
        BY <3>1, <3>2 DEF ReaderRec
      <3>4. r = [pc |-> r.pc, obj |-> r.obj, fd |-> r.fd, chunk |-> r.chunk]
        <4> HIDE DEF r
        <4> QED
          BY <3>3 DEF ReaderRec
      <3> QED
        BY <1>1, <3>3, <3>4
    <2> QED
      BY <1>1, <1>3, <2>1
  <1>6. thread' = [pc |-> "announce", obj |-> table, text |-> {p}]
    BY <1>1, <1>2 DEF Started, TermTypes
  <1>7. Starts(p, table)
    BY <1>1, <1>2, <1>4, <1>5, <1>6 DEF Starts, Started
  <1> QED
    BY <1>7

LEMMA StartedTypes ==
  ASSUME TermTypes, Started
  PROVE  TermTypes'
  <1>1. PICK p \in Procs : Starts(p, table)
    BY StartedIs
  <1>2. table \in Objs
    BY TerminalsAssumption DEF Started, TermTypes
  <1>3. obj' \in [Objs -> SessionRec]
    <2> DEFINE r == [obj[table] EXCEPT !.proc = p]
    <2>0. obj[table] \in SessionRec /\ p \in 0..MaxProcs
      BY <1>2 DEF TermTypes
    <2>1. r \in SessionRec
      BY <2>0, SessionType, TerminalsAssumption DEF Programs
    <2>2. obj' = [obj EXCEPT ![table] = r]
      BY <1>1 DEF Starts
    <2> HIDE DEF r
    <2> QED
      BY <2>1, <2>2 DEF TermTypes
  <1>4. \A q \in Objs : Len(obj'[q].buffer) <= MaxBuffer
    <2>1. \A q \in Objs : obj'[q].buffer = obj[q].buffer
      BY <1>1 DEF Starts, TermTypes, SessionRec
    <2> QED
      BY <2>1 DEF TermTypes
  <1>5. reader' \in [Procs -> ReaderRec]
    <2> DEFINE r == [pc |-> "start", obj |-> table, fd |-> 0, chunk |-> {}]
    <2>1. r \in ReaderRec
      BY <1>2, TerminalsAssumption DEF ReaderRec
    <2>2. reader' = [reader EXCEPT ![p] = r]
      BY <1>1 DEF Starts
    <2> HIDE DEF r
    <2> QED
      BY <2>1, <2>2 DEF TermTypes
  <1>6. \A q \in Procs : /\ reader'[q].pc # "none" => reader'[q].obj # 0
                         /\ reader'[q].pc = "read" => reader'[q].fd # 0
    BY <1>1, <1>2 DEF Starts, TermTypes
  <1>7. /\ thread' = [pc |-> thread'.pc, obj |-> thread'.obj, text |-> thread'.text]
        /\ thread'.pc = "announce" /\ thread'.obj = table' /\ thread'.text = {p} /\ table' # 0
        /\ thread'.obj \in 0..MaxProcs
    BY <1>1, <1>2 DEF Starts
  <1>8. UNCHANGED <<viewer, relay, down, events, table, process, reopened, left, broken>>
    BY <1>1 DEF Starts
  <1>9. UNCHANGED <<Chunks, Events, Notices, ViewerRec, SessionRec, ProcessRec, ReaderRec>>
    BY <1>8, SameTypes
  <1> QED
    BY <1>3, <1>4, <1>5, <1>6, <1>7, <1>8, <1>9 DEF TermTypes, Steps

LEMMA UseTypes ==
  ASSUME TermTypes, NEW c, HandleUse(c)
  PROVE  TermTypes'
  <1>1. down' \in Seq(Commands)
    BY ReceivesType DEF HandleUse
  <1>2. /\ thread' = [pc |-> thread'.pc, obj |-> thread'.obj, text |-> thread'.text]
        /\ thread'.pc \in {"idle", "write"} /\ thread'.obj \in 0..MaxProcs
        /\ thread'.pc = "write" => table # 0 /\ thread'.obj = table
    <2>1. CASE thread' = Resting
      BY <2>1, RestingIs, TerminalsAssumption
    <2>2. CASE table # 0 /\ thread' = [Resting EXCEPT !.pc = "write", !.obj = table]
      BY <2>2, RestingIs DEF TermTypes
    <2> QED
      BY <2>1, <2>2 DEF HandleUse
  <1>3. UNCHANGED <<viewer, relay, events, table, obj, process, reader, reopened, left, broken>>
    BY DEF HandleUse
  <1> QED
    BY <1>1, <1>2, <1>3, SameTypes DEF TermTypes, Steps

LEMMA CloseTypes ==
  ASSUME TermTypes, HandleClose
  PROVE  TermTypes'
  <1>1. down' \in Seq(Commands) /\ thread.pc = "idle"
    BY ReceivesType DEF HandleClose
  <1>2. /\ table' = 0
        /\ UNCHANGED <<viewer, relay, events, reader, thread, reopened, left, broken>>
    BY DEF HandleClose
  <1>3. /\ obj' \in [Objs -> SessionRec] /\ process' \in [Procs -> ProcessRec]
        /\ \A q \in Objs : obj'[q].buffer = obj[q].buffer
    <2>1. CASE table = 0
      BY <2>1 DEF HandleClose, TermTypes
    <2>2. CASE table # 0
      <3> DEFINE s == obj[table]
                 ps == IF Alive(s.proc) THEN Terminated(s.proc) ELSE process
      <3>1. table \in Objs /\ s \in SessionRec /\ s.proc \in 0..MaxProcs /\ s.fd \in 0..MaxProcs
        BY <2>2, TerminalsAssumption DEF TermTypes, SessionRec
      <3>2. ps \in [Procs -> ProcessRec]
        BY <3>1, TerminatedType DEF TermTypes, Alive
      <3>3. process' = MasterClosed(ps, s.fd) /\ obj' = [obj EXCEPT ![table].fd = 0]
        BY <2>2 DEF HandleClose
      <3>4. process' \in [Procs -> ProcessRec]
        <4> HIDE DEF ps
        <4> QED
          BY <3>1, <3>2, <3>3, MastersType
      <3>5. obj' = [obj EXCEPT ![table] = [s EXCEPT !.fd = 0]]
        BY <3>1, <3>3 DEF TermTypes
      <3>6. [s EXCEPT !.fd = 0] \in SessionRec /\ [s EXCEPT !.fd = 0].buffer = s.buffer
        <4>1. 0 \in 0..MaxProcs /\ "shell" \in Programs
          BY TerminalsAssumption DEF Programs
        <4>2. [s EXCEPT !.fd = 0] \in SessionRec
          BY <3>1, <4>1, SessionType
        <4>3. [s EXCEPT !.fd = 0].buffer = s.buffer
          BY <3>1 DEF SessionRec
        <4> QED
          BY <4>2, <4>3
      <3> QED
        BY <3>4, <3>5, <3>6 DEF TermTypes
    <2> QED
      BY <2>1, <2>2
  <1>4. \A q \in Objs : Len(obj'[q].buffer) <= MaxBuffer
    BY <1>3 DEF TermTypes
  <1>5. UNCHANGED <<Chunks, Events, Notices, ViewerRec, SessionRec, ProcessRec, ReaderRec>>
    BY <1>2, SameTypes
  <1> QED
    BY <1>1, <1>2, <1>3, <1>4, <1>5, TerminalsAssumption DEF TermTypes, Steps

\* A reader that goes on to pc, with the master fd and the chunk cs.
Turns(p, pc, fd, cs) ==
    reader' = [reader EXCEPT ![p] = [pc |-> pc, obj |-> reader[p].obj, fd |-> fd, chunk |-> cs]]

LEMMA TurnsType ==
  ASSUME TermTypes, NEW p \in Procs, reader[p].pc # "none",
         NEW pc \in {"load", "read", "publish", "wait", "announce", "release", "done"},
         NEW fd \in 0..MaxProcs, NEW cs \in SUBSET Chunks, pc = "read" => fd # 0,
         Turns(p, pc, fd, cs)
  PROVE  /\ reader' \in [Procs -> ReaderRec]
         /\ \A q \in Procs : /\ reader'[q].pc # "none" => reader'[q].obj # 0
                             /\ reader'[q].pc = "read" => reader'[q].fd # 0
  <1> DEFINE r == [pc |-> pc, obj |-> reader[p].obj, fd |-> fd, chunk |-> cs]
  <1>1. reader[p].obj \in 0..MaxProcs /\ reader[p].obj # 0
    BY DEF TermTypes, ReaderRec
  <1>2. r \in ReaderRec /\ r.obj = reader[p].obj /\ r.fd = fd /\ r.pc = pc
    BY <1>1 DEF ReaderRec
  <1>3. reader' = [reader EXCEPT ![p] = r]
    BY DEF Turns
  <1> HIDE DEF r
  <1> QED
    BY <1>1, <1>2, <1>3 DEF TermTypes

\* The steps of a reader thread in these terms; o is its object.
Begins(p, o) ==
    /\ At(p, "start") /\ UNCHANGED <<events, obj, process>>
    /\ \/ obj[o].fd = 0 /\ Turns(p, "done", reader[p].fd, reader[p].chunk)
       \/ obj[o].fd # 0 /\ Turns(p, "load", reader[p].fd, reader[p].chunk)
Loads(p, o) ==
    /\ At(p, "load") /\ UNCHANGED <<events, obj, process>>
    /\ \/ obj[o].fd = 0 /\ Turns(p, "wait", 0, reader[p].chunk)
       \/ obj[o].fd # 0 /\ Turns(p, "read", obj[o].fd, reader[p].chunk)
Reads(p, o, c) ==
    /\ At(p, "read") /\ UNCHANGED events
    /\ c[1] = reader[p].fd /\ process[c[1]].out < left.chunks
    /\ process' = [process EXCEPT ![c[1]].out = @ + 1]
    /\ obj' = [obj EXCEPT ![o].buffer =
                  LET b == Append(@, c) IN IF Len(b) > MaxBuffer THEN Tail(b) ELSE b]
    /\ Turns(p, "publish", 0, {c})
Publishes(p) ==
    /\ At(p, "publish") /\ UNCHANGED <<obj, process>>
    /\ events' = Append(events, Frame(reader[p].chunk))
    /\ Turns(p, "load", reader[p].fd, {})
Fails(p) ==
    /\ At(p, "read") /\ UNCHANGED <<events, obj, process>>
    /\ process[reader[p].fd].state \in {"dying", "exited"}
    /\ Turns(p, "wait", 0, reader[p].chunk)
Waits(p, o) ==
    /\ At(p, "wait") /\ UNCHANGED <<events, obj, process>>
    /\ \/ /\ process[obj[o].proc].state = "exited"
          /\ Turns(p, "announce", reader[p].fd, reader[p].chunk)
       \/ /\ process[obj[o].proc].state \in {"running", "signalled"}
          /\ Turns(p, "done", reader[p].fd, reader[p].chunk)
Heralds(p) ==
    /\ At(p, "announce") /\ UNCHANGED <<obj, process>>
    /\ events' = Append(events, Exited(p))
    /\ Turns(p, "release", reader[p].fd, reader[p].chunk)
Releases(p, o) ==
    /\ At(p, "release") /\ UNCHANGED events
    /\ process' = MasterClosed(process, obj[o].fd)
    /\ obj' = [obj EXCEPT ![o] = [obj[o] EXCEPT !.fd = 0]]
    /\ Turns(p, "done", reader[p].fd, reader[p].chunk)
ReaderStep(p, o) ==
    \/ Begins(p, o) \/ Loads(p, o) \/ (\E c \in Chunks : Reads(p, o, c)) \/ Publishes(p)
    \/ Fails(p) \/ Waits(p, o) \/ Heralds(p) \/ Releases(p, o)

LEMMA ReaderIs ==
  ASSUME TermTypes, NEW p \in Procs, ReaderThread(p)
  PROVE  /\ ReaderStep(p, reader[p].obj)
         /\ reader[p].pc # "none" /\ reader[p].obj \in Objs
  <1>0. reader[p] \in ReaderRec /\ reader[p].pc # "none" /\ reader[p].obj \in Objs
    BY TerminalsAssumption DEF ReaderThread, ReaderStarts, ReaderLoads, ReaderReads, ReaderPublishes,
       ReaderFails, ReaderWaits, ReaderAnnounces, ReaderReleases, At, TermTypes, ReaderRec
  <1> DEFINE o == reader[p].obj
             fd == reader[p].fd
             cs == reader[p].chunk
  <1>1. My(p) = obj[o]
    BY DEF My
  <1>2. ASSUME NEW pc, NEW f, NEW c
        PROVE  /\ reader' = [reader EXCEPT ![p].pc = pc] => Turns(p, pc, fd, cs)
               /\ reader' = [reader EXCEPT ![p].fd = f, ![p].pc = pc] => Turns(p, pc, f, cs)
               /\ reader' = [reader EXCEPT ![p].pc = pc, ![p].fd = f] => Turns(p, pc, f, cs)
               /\ reader' = [reader EXCEPT ![p].pc = pc, ![p].chunk = c] => Turns(p, pc, fd, c)
               /\ reader' = [reader EXCEPT ![p].pc = pc, ![p].fd = f, ![p].chunk = c] => Turns(p, pc, f, c)
    <2>1. /\ reader[p] = [pc |-> reader[p].pc, obj |-> o, fd |-> fd, chunk |-> cs]
          /\ reader \in [Procs -> ReaderRec]
      BY <1>0 DEF TermTypes, ReaderRec
    <2>2. reader' = [reader EXCEPT ![p].pc = pc] => Turns(p, pc, fd, cs)
      BY <2>1 DEF Turns
    <2>3. reader' = [reader EXCEPT ![p].fd = f, ![p].pc = pc] => Turns(p, pc, f, cs)
      BY <2>1 DEF Turns
    <2>4. reader' = [reader EXCEPT ![p].pc = pc, ![p].fd = f] => Turns(p, pc, f, cs)
      BY <2>1 DEF Turns
    <2>5. reader' = [reader EXCEPT ![p].pc = pc, ![p].chunk = c] => Turns(p, pc, fd, c)
      BY <2>1 DEF Turns
    <2>6. reader' = [reader EXCEPT ![p].pc = pc, ![p].fd = f, ![p].chunk = c] => Turns(p, pc, f, c)
      BY <2>1 DEF Turns
    <2> QED
      BY <2>2, <2>3, <2>4, <2>5, <2>6
  <1>3. ASSUME ReaderStarts(p) PROVE Begins(p, o)
    <2>1. \/ obj[o].fd = 0 /\ Turns(p, "done", fd, cs)
          \/ obj[o].fd # 0 /\ Turns(p, "load", fd, cs)
      BY <1>1, <1>2, <1>3 DEF ReaderStarts, Goes
    <2> QED
      BY <1>3, <2>1 DEF ReaderStarts, Begins
  <1>4. ASSUME ReaderLoads(p) PROVE Loads(p, o)
    <2>1. \/ obj[o].fd = 0 /\ Turns(p, "wait", 0, cs)
          \/ obj[o].fd # 0 /\ Turns(p, "read", obj[o].fd, cs)
      BY <1>1, <1>2, <1>4 DEF ReaderLoads
    <2> QED
      BY <1>4, <2>1 DEF ReaderLoads, Loads
  <1>5. ASSUME ReaderReads(p) PROVE \E c \in Chunks : Reads(p, o, c)
    <2> DEFINE c == <<fd, process[fd].out + 1>>
    <2>1. fd \in Procs /\ process[fd] \in ProcessRec /\ left \in LimitRec
      BY <1>0, <1>5, TerminalsAssumption DEF ReaderReads, At, TermTypes, ReaderRec
    <2>2. c \in Chunks /\ c[1] = fd
      BY <1>5, <2>1 DEF ReaderReads, Chunks, ProcessRec, LimitRec
    <2>3. /\ process' = [process EXCEPT ![fd].out = @ + 1]
          /\ obj' = [obj EXCEPT ![o].buffer =
                        LET b == Append(@, c) IN IF Len(b) > MaxBuffer THEN Tail(b) ELSE b]
          /\ reader' = [reader EXCEPT ![p].pc = "publish", ![p].fd = 0, ![p].chunk = {c}]
          /\ At(p, "read") /\ UNCHANGED events /\ process[fd].out < left.chunks
      BY <1>5 DEF ReaderReads
    <2> HIDE DEF c
    <2>4. Turns(p, "publish", 0, {c})
      BY <1>2, <2>3
    <2>5. Reads(p, o, c)
      BY <2>2, <2>3, <2>4 DEF Reads
    <2> QED
      BY <2>2, <2>5
  <1>6. ASSUME ReaderPublishes(p) PROVE Publishes(p)
    <2>1. Turns(p, "load", fd, {})
      BY <1>2, <1>6 DEF ReaderPublishes
    <2> QED
      BY <1>6, <2>1 DEF ReaderPublishes, Publishes
  <1>7. ASSUME ReaderFails(p) PROVE Fails(p)
    <2>1. Turns(p, "wait", 0, cs)
      BY <1>2, <1>7 DEF ReaderFails
    <2> QED
      BY <1>7, <2>1 DEF ReaderFails, Fails
  <1>8. ASSUME ReaderWaits(p) PROVE Waits(p, o)
    <2>1. \/ process[obj[o].proc].state = "exited" /\ Turns(p, "announce", fd, cs)
          \/ process[obj[o].proc].state \in {"running", "signalled"} /\ Turns(p, "done", fd, cs)
      BY <1>1, <1>2, <1>8 DEF ReaderWaits, Goes
    <2> QED
      BY <1>8, <2>1 DEF ReaderWaits, Waits
  <1>9. ASSUME ReaderAnnounces(p) PROVE Heralds(p)
    <2>1. Turns(p, "release", fd, cs)
      BY <1>2, <1>9 DEF ReaderAnnounces, Goes
    <2> QED
      BY <1>9, <2>1 DEF ReaderAnnounces, Heralds
  <1>10. ASSUME ReaderReleases(p) PROVE Releases(p, o)
    <2>1. Turns(p, "done", fd, cs)
      BY <1>2, <1>10 DEF ReaderReleases, Goes
    <2>2. obj' = [obj EXCEPT ![o] = [obj[o] EXCEPT !.fd = 0]]
      BY <1>0, <1>10 DEF ReaderReleases, TermTypes
    <2> QED
      BY <1>1, <1>10, <2>1, <2>2 DEF ReaderReleases, Releases
  <1> QED
    BY <1>0, <1>3, <1>4, <1>5, <1>6, <1>7, <1>8, <1>9, <1>10 DEF ReaderThread, ReaderStep

LEMMA ReaderTypes ==
  ASSUME TermTypes, NEW p \in Procs, ReaderThread(p)
  PROVE  TermTypes'
  <1> DEFINE o == reader[p].obj
             fd == reader[p].fd
             cs == reader[p].chunk
  <1>0. /\ ReaderStep(p, o) /\ reader[p].pc # "none" /\ o \in Objs
        /\ reader[p] \in ReaderRec /\ fd \in 0..MaxProcs /\ cs \in SUBSET Chunks
        /\ reader[p].pc = "read" => fd # 0
    BY ReaderIs DEF TermTypes, ReaderRec
  <1>1. obj[o] \in SessionRec /\ obj[o].fd \in 0..MaxProcs /\ 0 \in 0..MaxProcs
    BY <1>0, TerminalsAssumption DEF TermTypes, SessionRec
  <1>2. /\ UNCHANGED <<viewer, relay, down, table, thread, reopened, left, broken>>
        /\ UNCHANGED <<Chunks, Events, Notices, ViewerRec, SessionRec, ProcessRec, ReaderRec>>
    BY SameTypes DEF ReaderThread, ReaderStarts, ReaderLoads, ReaderReads, ReaderPublishes,
       ReaderFails, ReaderWaits, ReaderAnnounces, ReaderReleases, Keeps
  <1> HIDE DEF o, fd, cs
  <1>r. fd = reader[p].fd /\ cs = reader[p].chunk
    BY DEF fd, cs
  <1> DEFINE Kept ==
       /\ events' \in Seq(Notices) /\ process' \in [Procs -> ProcessRec] /\ obj' \in [Objs -> SessionRec]
       /\ \A q \in Objs : Len(obj'[q].buffer) <= MaxBuffer
       /\ reader' \in [Procs -> ReaderRec]
       /\ \A q \in Procs : /\ reader'[q].pc # "none" => reader'[q].obj # 0
                           /\ reader'[q].pc = "read" => reader'[q].fd # 0
  <1>3. ASSUME NEW pc \in {"load", "read", "publish", "wait", "announce", "release", "done"},
               NEW f \in 0..MaxProcs, NEW c \in SUBSET Chunks, pc = "read" => f # 0,
               Turns(p, pc, f, c),
               events' \in Seq(Notices), process' \in [Procs -> ProcessRec], obj' \in [Objs -> SessionRec],
               \A q \in Objs : Len(obj'[q].buffer) <= MaxBuffer
        PROVE  Kept
    BY <1>0, <1>3, TurnsType
  <1>4. /\ events \in Seq(Notices) /\ process \in [Procs -> ProcessRec] /\ obj \in [Objs -> SessionRec]
        /\ \A q \in Objs : Len(obj[q].buffer) <= MaxBuffer
    BY DEF TermTypes
  <1>5. Begins(p, o) => Kept
    <2> HIDE DEF Kept
    <2> QED
      BY <1>0, <1>3, <1>4, <1>r DEF Begins
  <1>6. Loads(p, o) => Kept
    <2> HIDE DEF Kept
    <2> QED
      BY <1>0, <1>1, <1>3, <1>4, <1>r DEF Loads
  <1>7. ASSUME NEW c \in Chunks, Reads(p, o, c) PROVE Kept
    <2>1. c[1] \in Procs /\ left \in LimitRec
      BY DEF Chunks, TermTypes
    <2>2. process' \in [Procs -> ProcessRec]
      <3> DEFINE n == process[c[1]].out + 1
                 r == [process[c[1]] EXCEPT !.out = n]
      <3>1. process[c[1]] \in ProcessRec /\ left.chunks \in Nat
        BY <2>1 DEF TermTypes, LimitRec
      <3>2. n \in 0..left.chunks
        BY <1>7, <3>1 DEF Reads, ProcessRec
      <3>3. r \in ProcessRec
        <4> HIDE DEF n
        <4> QED
          BY <3>1, <3>2, Zenon DEF ProcessRec
      <3>4. process' = [process EXCEPT ![c[1]] = r]
        BY <1>7 DEF Reads
      <3> HIDE DEF r
      <3> QED
        BY <3>3, <3>4, <1>4, <2>1
    <2>3. obj' \in [Objs -> SessionRec] /\ \A q \in Objs : Len(obj'[q].buffer) <= MaxBuffer
      <3> DEFINE b == Append(obj[o].buffer, c)
                 n == IF Len(b) > MaxBuffer THEN Tail(b) ELSE b
                 r == [obj[o] EXCEPT !.buffer = n]
      <3>1. obj[o].buffer \in Seq(Chunks) /\ Len(obj[o].buffer) <= MaxBuffer
        BY <1>0, <1>1, <1>4 DEF SessionRec
      <3>2. n \in Seq(Chunks) /\ Len(n) <= MaxBuffer
        BY <3>1, TerminalsAssumption
      <3>3. r \in SessionRec /\ r.buffer = n
        <4> HIDE DEF n
        <4>1. r \in SessionRec
          BY <1>1, <3>2, Zenon DEF SessionRec
        <4>2. r.buffer = n
          BY <1>1, Zenon DEF SessionRec
        <4> QED
          BY <4>1, <4>2
      <3>4. obj' = [obj EXCEPT ![o] = r]
        BY <1>7 DEF Reads
      <3> HIDE DEF r
      <3> QED
        BY <3>2, <3>3, <3>4, <1>4
    <2>4. {c} \in SUBSET Chunks /\ events' = events /\ Turns(p, "publish", 0, {c})
      BY <1>7 DEF Reads
    <2> HIDE DEF Kept
    <2> QED
      BY <1>1, <1>3, <1>4, <2>2, <2>3, <2>4
  <1>8. Publishes(p) => Kept
    <2>1. Publishes(p) => events' \in Seq(Notices)
      <3>1. Frame(cs) \in Notices
        BY <1>0, <1>1, EventsType
      <3> QED
        BY <1>r, <3>1, <1>4, Appending DEF Publishes
    <2>2. {} \in SUBSET Chunks
      OBVIOUS
    <2> HIDE DEF Kept
    <2> QED
      BY <1>0, <1>3, <1>4, <1>r, <2>1, <2>2 DEF Publishes
  <1>9. Fails(p) => Kept
    <2> HIDE DEF Kept
    <2> QED
      BY <1>0, <1>1, <1>3, <1>4, <1>r DEF Fails
  <1>10. Waits(p, o) => Kept
    <2> HIDE DEF Kept
    <2> QED
      BY <1>0, <1>3, <1>4, <1>r DEF Waits
  <1>11. Heralds(p) => Kept
    <2>1. Heralds(p) => events' \in Seq(Notices)
      <3>1. Exited(p) \in Notices
        <4>1. p \in 0..MaxProcs /\ p # 0 /\ {} \in SUBSET Chunks
          OBVIOUS
        <4> QED
          BY <4>1, EventsType
      <3> QED
        BY <3>1, <1>4, Appending DEF Heralds
    <2> HIDE DEF Kept
    <2> QED
      BY <1>0, <1>3, <1>4, <1>r, <2>1 DEF Heralds
  <1>12. ASSUME Releases(p, o) PROVE Kept
    <2>1. process' \in [Procs -> ProcessRec]
      BY <1>1, <1>4, <1>12, MastersType DEF Releases
    <2>2. obj' \in [Objs -> SessionRec] /\ \A q \in Objs : Len(obj'[q].buffer) <= MaxBuffer
      <3> DEFINE r == [obj[o] EXCEPT !.fd = 0]
      <3>1. r \in SessionRec /\ r.buffer = obj[o].buffer
        <4>1. "shell" \in Programs
          BY DEF Programs
        <4>2. r \in SessionRec
          BY <1>1, <4>1, SessionType
        <4>3. r.buffer = obj[o].buffer
          BY <1>1 DEF SessionRec
        <4> QED
          BY <4>2, <4>3
      <3>2. obj' = [obj EXCEPT ![o] = r]
        BY <1>12 DEF Releases
      <3> HIDE DEF r
      <3> QED
        BY <1>4, <3>1, <3>2
    <2>3. events' = events /\ Turns(p, "done", fd, cs)
      BY <1>12, <1>r DEF Releases
    <2> HIDE DEF Kept
    <2> QED
      BY <1>0, <1>3, <1>4, <2>1, <2>2, <2>3
  <1>13. Kept
    <2> HIDE DEF Kept
    <2> QED
      BY <1>0, <1>5, <1>6, <1>7, <1>8, <1>9, <1>10, <1>11, <1>12 DEF ReaderStep
  <1> QED
    BY <1>2, <1>13 DEF TermTypes

LEMMA ProcessTypes ==
  ASSUME TermTypes, NEW p \in Procs, Exits(p) \/ HangsUp(p)
  PROVE  TermTypes'
  <1>1. PICK st \in {"signalled", "dying", "exited"} : process' = [process EXCEPT ![p].state = st]
    BY DEF Exits, HangsUp
  <1>2. /\ UNCHANGED <<viewer, relay, down, table, thread, reopened, left, broken>>
        /\ UNCHANGED <<events, obj, reader>>
        /\ UNCHANGED <<Chunks, Events, Notices, ViewerRec, SessionRec, ProcessRec, ReaderRec>>
    BY SameTypes DEF Exits, HangsUp, Keeps
  <1>3. process' \in [Procs -> ProcessRec]
    <2> DEFINE r == process[p]
    <2>1. r \in ProcessRec
      BY DEF TermTypes
    <2>2. process' = [process EXCEPT ![p] = [r EXCEPT !.state = st]]
      BY <1>1
    <2>3. [r EXCEPT !.state = st] \in ProcessRec
      BY <2>1, StateType
    <2> QED
      BY <2>2, <2>3 DEF TermTypes
  <1> QED
    BY <1>2, <1>3 DEF TermTypes

-----------------------------------------------------------------------------
(* The objects, their processes and readers.                                 *)

\* The process that is about to get its reader.
Coming(p) == thread.pc = "started" /\ thread.text = {p}

\* The objects that open() has taken.
Used == {o \in Objs : obj[o].used}

Known ==
    /\ table # 0 => table \in Used
    /\ table # 0 /\ thread.pc \notin {"spawn", "started"} => obj[table].proc # 0
    /\ \A p \in Procs :
          /\ process[p].state = "none" <=> reader[p].pc = "none" /\ ~Coming(p)
          /\ reader[p].pc # "none" => ~Coming(p)
          /\ reader[p].obj # 0 => reader[p].pc # "none" /\ reader[p].obj \in Used
          /\ reader[p].pc # "publish" => reader[p].chunk = {}
    /\ \A o \in Objs :
          /\ o \notin Used => obj[o].proc = 0 /\ obj[o].buffer = <<>>
          /\ obj[o].proc # 0 => reader[obj[o].proc].obj = o

\* Nobody but the reader of its process reads an object that was never reopened
\* too early, and the reader is as far as the process lets it be.
Serves(p, o) == reader[p].obj = o /\ reader[p].pc # "done"
InStep(p, fd) ==
    /\ fd = p \/ reader[p].pc = "done"
    /\ reader[p].pc = "read" => reader[p].fd = p
    /\ reader[p].pc = "wait" => process[p].state \in {"dying", "exited"}
    /\ reader[p].pc \in {"announce", "release", "done"} => process[p].state = "exited"
OneReader ==
    table # 0 /\ table \notin reopened =>
      /\ \A p \in Procs : Serves(p, table) => p = obj[table].proc /\ thread.pc # "started"
      /\ \A c \in ToSet(obj[table].buffer) : reader[c[1]].pc # "none"
      /\ thread.pc = "started" => thread.text = {obj[table].fd}
      /\ obj[table].proc # 0 /\ thread.pc # "started" => InStep(obj[table].proc, obj[table].fd)

Structure == Known /\ OneReader

\* What a step of reader p with object o leaves.
LEMMA ReaderLeaves ==
  ASSUME TermTypes, Known, NEW p \in Procs, NEW o \in Objs, o = reader[p].obj,
         reader[p].pc # "none", ReaderStep(p, o)
  PROVE  /\ \A q \in Procs : q # p => reader'[q] = reader[q]
         /\ reader'[p].obj = o /\ reader'[p].pc # "none"
         /\ reader'[p].pc # "publish" => reader'[p].chunk = {}
         /\ \A q \in Procs : process'[q].state = process[q].state
         /\ Used' = Used
         /\ \A q \in Objs : obj'[q].proc = obj[q].proc /\ (q # o => obj'[q] = obj[q])
         /\ obj'[o].fd = obj[o].fd \/ reader'[p].pc = "done"
         /\ \/ obj'[o].buffer = obj[o].buffer
            \/ \E c \in Chunks : /\ reader[p].pc = "read" /\ c[1] = reader[p].fd /\ c \in reader'[p].chunk
                                 /\ ToSet(obj'[o].buffer) \subseteq ToSet(obj[o].buffer) \union {c}
  <1> USE DEF TermTypes
  <1>1. /\ reader[p].pc # "publish" => reader[p].chunk = {}
        /\ obj[o] \in SessionRec /\ obj \in [Objs -> SessionRec] /\ process \in [Procs -> ProcessRec]
        /\ p \in DOMAIN reader
    BY DEF Known
  <1>2. ASSUME NEW pc, NEW fd, NEW cs, Turns(p, pc, fd, cs)
        PROVE  /\ \A q \in Procs : q # p => reader'[q] = reader[q]
               /\ reader'[p].obj = o /\ reader'[p].pc = pc /\ reader'[p].chunk = cs
    <2>1. reader' = [reader EXCEPT ![p] = [pc |-> pc, obj |-> o, fd |-> fd, chunk |-> cs]]
      BY <1>2 DEF Turns
    <2> QED
      BY <1>1, <2>1
  <1> DEFINE Same == process' = process /\ obj' = obj
  <1>3. ASSUME Begins(p, o) \/ Loads(p, o) \/ Publishes(p) \/ Fails(p) \/ Waits(p, o) \/ Heralds(p)
        PROVE  /\ Same
               /\ \A q \in Procs : q # p => reader'[q] = reader[q]
               /\ reader'[p].obj = o /\ reader'[p].pc # "none"
               /\ reader'[p].pc # "publish" => reader'[p].chunk = {}
    <2>1. CASE Begins(p, o)
      BY <1>1, <1>2, <2>1 DEF Begins, At
    <2>2. CASE Loads(p, o)
      BY <1>1, <1>2, <2>2 DEF Loads, At
    <2>3. CASE Publishes(p)
      BY <1>1, <1>2, <2>3 DEF Publishes, At
    <2>4. CASE Fails(p)
      BY <1>1, <1>2, <2>4 DEF Fails, At
    <2>5. CASE Waits(p, o)
      BY <1>1, <1>2, <2>5 DEF Waits, At
    <2>6. CASE Heralds(p)
      BY <1>1, <1>2, <2>6 DEF Heralds, At
    <2> QED
      BY <1>3, <2>1, <2>2, <2>3, <2>4, <2>5, <2>6
  <1>4. CASE Begins(p, o) \/ Loads(p, o) \/ Publishes(p) \/ Fails(p) \/ Waits(p, o) \/ Heralds(p)
    BY <1>3, <1>4 DEF Used
  <1>5. ASSUME NEW c \in Chunks, Reads(p, o, c)
        PROVE  /\ reader'[p].pc # "none" /\ reader'[p].pc = "publish" /\ reader'[p].obj = o
               /\ \A q \in Procs : q # p => reader'[q] = reader[q]
               /\ \A q \in Procs : process'[q].state = process[q].state
               /\ Used' = Used
               /\ \A q \in Objs : obj'[q].proc = obj[q].proc /\ (q # o => obj'[q] = obj[q])
               /\ obj'[o].fd = obj[o].fd
               /\ reader[p].pc = "read" /\ c[1] = reader[p].fd /\ c \in reader'[p].chunk
               /\ ToSet(obj'[o].buffer) \subseteq ToSet(obj[o].buffer) \union {c}
    <2>1. /\ Turns(p, "publish", 0, {c}) /\ reader[p].pc = "read" /\ c[1] = reader[p].fd
      BY <1>5 DEF Reads, At
    <2>2. \A q \in Procs : process'[q].state = process[q].state
      BY <1>1, <1>5 DEF Reads, ProcessRec
    <2> DEFINE b == Append(obj[o].buffer, c)
               n == IF Len(b) > MaxBuffer THEN Tail(b) ELSE b
               r == [obj[o] EXCEPT !.buffer = n]
    <2>3. obj' = [obj EXCEPT ![o] = r]
      BY <1>1, <1>5 DEF Reads
    <2>4. r.proc = obj[o].proc /\ r.fd = obj[o].fd /\ r.buffer = n
      <3> HIDE DEF n
      <3> QED
        BY <1>1, Zenon DEF SessionRec
    <2>5. r.used = obj[o].used
      <3> HIDE DEF n
      <3> QED
        BY <1>1, Zenon DEF SessionRec
    <2>6. ToSet(n) \subseteq ToSet(obj[o].buffer) \union {c}
      <3>1. obj[o].buffer \in Seq(Chunks)
        BY <1>1 DEF SessionRec
      <3>2. b \in Seq(Chunks) /\ \A i \in DOMAIN b : b[i] = c \/ b[i] \in ToSet(obj[o].buffer)
        BY <3>1 DEF ToSet
      <3> HIDE DEF b
      <3>3. ToSet(Tail(b)) \subseteq ToSet(b) \/ b = <<>>
        BY <3>2 DEF ToSet
      <3>4. ToSet(b) \subseteq ToSet(obj[o].buffer) \union {c} /\ (b = <<>> => Len(b) = 0)
        BY <3>2 DEF ToSet
      <3> QED
        BY <3>3, <3>4, TerminalsAssumption
    <2> HIDE DEF r, n
    <2>7. /\ obj'[o] = r
          /\ \A q \in Objs : q # o => obj'[q] = obj[q]
      BY <1>1, <2>3
    <2>8. Used' = Used
      <3>1. \A q \in Objs : obj'[q].used = obj[q].used
        BY <2>5, <2>7, Zenon
      <3> QED
        BY <3>1, Zenon DEF Used
    <2> QED
      BY <1>2, <2>1, <2>2, <2>4, <2>6, <2>7, <2>8
  <1>6. CASE \E c \in Chunks : Reads(p, o, c)
    <2>1. PICK c \in Chunks : Reads(p, o, c)
      BY <1>6
    <2> QED
      BY <1>5, <2>1
  <1>7. CASE Releases(p, o)
    <2>1. /\ Turns(p, "done", reader[p].fd, reader[p].chunk) /\ reader[p].pc = "release"
          /\ process' = MasterClosed(process, obj[o].fd)
          /\ obj' = [obj EXCEPT ![o] = [obj[o] EXCEPT !.fd = 0]]
      BY <1>7 DEF Releases, At
    <2>2. \A q \in Procs : process'[q].state = process[q].state
      BY <1>1, <2>1, MastersKeep DEF SessionRec
    <2>3. /\ obj'[o].proc = obj[o].proc /\ obj'[o].buffer = obj[o].buffer
          /\ \A q \in Objs : q # o => obj'[q] = obj[q]
      BY <1>1, <2>1 DEF SessionRec
    <2>4. Used' = Used
      <3>1. [obj[o] EXCEPT !.fd = 0].used = obj[o].used
        BY <1>1, Zenon DEF SessionRec
      <3> QED
        BY <2>1, <2>3, <3>1, <1>1, Zenon DEF Used
    <2> QED
      BY <1>1, <1>2, <2>1, <2>2, <2>3, <2>4
  <1> QED
    BY <1>4, <1>6, <1>7 DEF ReaderStep

LEMMA BufferTypes ==
  ASSUME TermTypes, NEW o \in Objs
  PROVE  ToSet(obj[o].buffer) \subseteq Chunks
  <1>1. obj[o].buffer \in Seq(Chunks)
    BY DEF TermTypes, SessionRec
  <1> QED
    BY <1>1, InSequence DEF ToSet

\* A reader that is in step with its process takes its next step.
LEMMA ReaderInStep ==
  ASSUME TermTypes, NEW p \in Procs, NEW o \in Objs, ReaderStep(p, o), reader[p].obj = o,
         obj[o].proc = p, obj[o].fd = p, InStep(p, p),
         \A q \in Procs : process'[q].state = process[q].state
  PROVE  /\ reader'[p].pc = "read" => reader'[p].fd = p
         /\ reader'[p].pc = "wait" => process[p].state \in {"dying", "exited"}
         /\ reader'[p].pc \in {"announce", "release", "done"} => process[p].state = "exited"
  <1>1. p \in DOMAIN reader
    BY DEF TermTypes
  <1>2. ASSUME NEW pc, NEW fd, NEW cs, Turns(p, pc, fd, cs)
        PROVE  reader'[p].pc = pc /\ reader'[p].fd = fd
    BY <1>1, <1>2 DEF Turns
  <1>3. /\ reader[p].pc = "read" => reader[p].fd = p
        /\ reader[p].pc = "wait" => process[p].state \in {"dying", "exited"}
        /\ reader[p].pc \in {"announce", "release", "done"} => process[p].state = "exited"
    BY DEF InStep
  <1>4. CASE Begins(p, o)
    BY <1>2, <1>4 DEF Begins
  <1>5. CASE Loads(p, o)
    BY <1>2, <1>5 DEF Loads
  <1>6. CASE \E c \in Chunks : Reads(p, o, c)
    BY <1>2, <1>6 DEF Reads
  <1>7. CASE Publishes(p)
    BY <1>2, <1>7 DEF Publishes
  <1>8. CASE Fails(p)
    BY <1>2, <1>3, <1>8 DEF Fails, At
  <1>9. CASE Waits(p, o)
    BY <1>2, <1>3, <1>9 DEF Waits, At
  <1>10. CASE Heralds(p)
    BY <1>2, <1>3, <1>10 DEF Heralds, At
  <1>11. CASE Releases(p, o)
    BY <1>2, <1>3, <1>11 DEF Releases, At
  <1> QED
    BY <1>4, <1>5, <1>6, <1>7, <1>8, <1>9, <1>10, <1>11 DEF ReaderStep

LEMMA ReaderKeepsStructure ==
  ASSUME TermTypes, Structure, NEW p \in Procs, ReaderThread(p)
  PROVE  Structure'
  <1> DEFINE o == reader[p].obj
  <1>0. ReaderStep(p, o) /\ reader[p].pc # "none" /\ o \in Objs /\ Known /\ OneReader
    BY ReaderIs DEF Structure
  <1>1. UNCHANGED <<table, thread, reopened>>
    BY DEF ReaderThread, ReaderStarts, ReaderLoads, ReaderReads, ReaderPublishes,
       ReaderFails, ReaderWaits, ReaderAnnounces, ReaderReleases, Keeps
  <1>2. /\ \A q \in Procs : q # p => reader'[q] = reader[q]
        /\ reader'[p].obj = o /\ reader'[p].pc # "none"
        /\ reader'[p].pc # "publish" => reader'[p].chunk = {}
        /\ \A q \in Procs : process'[q].state = process[q].state
        /\ Used' = Used
        /\ \A q \in Objs : obj'[q].proc = obj[q].proc /\ (q # o => obj'[q] = obj[q])
        /\ obj'[o].fd = obj[o].fd \/ reader'[p].pc = "done"
        /\ \/ obj'[o].buffer = obj[o].buffer
           \/ \E c \in Chunks : /\ reader[p].pc = "read" /\ c[1] = reader[p].fd /\ c \in reader'[p].chunk
                                /\ ToSet(obj'[o].buffer) \subseteq ToSet(obj[o].buffer) \union {c}
    BY <1>0, ReaderLeaves
  <1>3. /\ table \in 0..MaxProcs /\ \A q \in Objs : obj[q].proc \in 0..MaxProcs /\ obj[q].fd \in 0..MaxProcs
        /\ \A q \in Procs : reader[q].obj \in 0..MaxProcs
    BY DEF TermTypes, SessionRec, ReaderRec
  <1>4. o \in Used /\ o = reader[p].obj
    BY <1>0 DEF Known
  <1> HIDE DEF o
  <1>5. Known'
    <2>1. /\ table' # 0 => table' \in Used'
          /\ table' # 0 /\ thread'.pc \notin {"spawn", "started"} => obj'[table'].proc # 0
      BY <1>0, <1>1, <1>2, <1>3 DEF Known
    <2>2. ASSUME NEW q \in Procs
          PROVE  /\ process'[q].state = "none" <=> reader'[q].pc = "none" /\ ~Coming(q)'
                 /\ reader'[q].pc # "none" => ~Coming(q)'
                 /\ reader'[q].obj # 0 => reader'[q].pc # "none" /\ reader'[q].obj \in Used'
                 /\ reader'[q].pc # "publish" => reader'[q].chunk = {}
      <3>1. CASE q = p
        <4>1. Coming(q)' <=> Coming(q)
          BY <1>1 DEF Coming
        <4> QED
          BY <1>0, <1>2, <1>3, <1>4, <3>1, <4>1 DEF Known
      <3>2. CASE q # p
        <4>1. Coming(q)' <=> Coming(q)
          BY <1>1 DEF Coming
        <4> QED
          BY <1>0, <1>2, <1>3, <3>2, <4>1 DEF Known
      <3> QED
        BY <3>1, <3>2
    <2>3. ASSUME NEW q \in Objs
          PROVE  /\ q \notin Used' => obj'[q].proc = 0 /\ obj'[q].buffer = <<>>
                 /\ obj'[q].proc # 0 => reader'[obj'[q].proc].obj = q
      <3>1. q \notin Used' => obj'[q].proc = 0 /\ obj'[q].buffer = <<>>
        BY <1>0, <1>2, <1>4 DEF Known
      <3>2. obj'[q].proc # 0 => reader'[obj'[q].proc].obj = q
        BY <1>0, <1>2, <1>3, <1>4 DEF Known
      <3> QED
        BY <3>1, <3>2
    <2> QED
      BY <2>1, <2>2, <2>3 DEF Known
  <1>6. OneReader'
    <2> SUFFICES ASSUME table # 0, table \notin reopened
                 PROVE  /\ \A q \in Procs : reader'[q].obj = table /\ reader'[q].pc # "done" =>
                                             q = obj'[table].proc /\ thread.pc # "started"
                        /\ \A c \in ToSet(obj'[table].buffer) : reader'[c[1]].pc # "none"
                        /\ thread.pc = "started" => thread.text = {obj'[table].fd}
                        /\ obj'[table].proc # 0 /\ thread.pc # "started" =>
                             /\ obj'[table].fd = obj'[table].proc \/ reader'[obj'[table].proc].pc = "done"
                             /\ reader'[obj'[table].proc].pc = "read" => reader'[obj'[table].proc].fd = obj'[table].proc
                             /\ reader'[obj'[table].proc].pc = "wait" =>
                                  process'[obj'[table].proc].state \in {"dying", "exited"}
                             /\ reader'[obj'[table].proc].pc \in {"announce", "release", "done"} =>
                                  process'[obj'[table].proc].state = "exited"
      BY <1>1, Zenon DEF OneReader, Serves, InStep
    <2>0. /\ \A q \in Procs : reader[q].obj = table /\ reader[q].pc # "done" => q = obj[table].proc /\ thread.pc # "started"
          /\ \A c \in ToSet(obj[table].buffer) : reader[c[1]].pc # "none"
          /\ thread.pc = "started" => thread.text = {obj[table].fd}
          /\ obj[table].proc # 0 /\ thread.pc # "started" => InStep(obj[table].proc, obj[table].fd)
          /\ table \in Objs
      BY <1>0, <1>3 DEF OneReader, Serves
    <2>1. CASE o # table
      <3>1. obj[table].proc # 0 => obj[table].proc # p
        BY <1>0, <1>4, <2>0, <2>1 DEF Known
      <3>2. \A c \in ToSet(obj[table].buffer) : c[1] \in Procs
        BY <2>0, BufferTypes DEF Chunks
      <3> QED
        BY <1>2, <1>3, <1>4, <2>0, <2>1, <3>1, <3>2 DEF InStep
    <2>2. CASE o = table
      <3>1. reader[p].pc # "done"
        BY <1>0 DEF ReaderStep, Begins, Loads, Reads, Publishes, Fails, Waits, Heralds, Releases, At
      <3>2. obj[table].proc = p /\ obj[table].fd = p /\ thread.pc # "started" /\ InStep(p, p)
        <4>1. obj[table].proc = p /\ thread.pc # "started" /\ p # 0
          <5>1. p # 0
            BY TerminalsAssumption
          <5>2. reader[p].obj = table
            BY <1>4, <2>2
          <5>3. obj[table].proc = p /\ thread.pc # "started"
            BY <2>0, <3>1, <5>2
          <5> QED
            BY <5>1, <5>3
        <4>2. InStep(p, obj[table].fd)
          BY <2>0, <4>1
        <4> QED
          BY <3>1, <4>1, <4>2 DEF InStep
      <3>3. \A c \in ToSet(obj'[table].buffer) : reader'[c[1]].pc # "none"
        <4>1. \A c \in ToSet(obj[table].buffer) : c[1] \in Procs
          BY <2>0, BufferTypes DEF Chunks
        <4>2. reader[p].pc = "read" => reader[p].fd = p
          BY <3>2 DEF InStep
        <4> QED
          BY <1>2, <2>0, <2>2, <4>1, <4>2
      <3>4. /\ reader'[p].pc = "read" => reader'[p].fd = p
            /\ reader'[p].pc = "wait" => process'[p].state \in {"dying", "exited"}
            /\ reader'[p].pc \in {"announce", "release", "done"} => process'[p].state = "exited"
        BY <1>0, <1>2, <1>4, <2>2, <3>2, ReaderInStep
      <3> QED
        <4>1. /\ obj'[table].proc = p
              /\ obj'[table].fd = p \/ reader'[p].pc = "done"
          BY <1>2, <2>2, <2>0, <3>2
        <4>2. \A q \in Procs : reader'[q].obj = table /\ reader'[q].pc # "done" => q = p
          BY <1>2, <2>0, <3>2
        <4> QED
          BY <3>2, <3>3, <3>4, <4>1, <4>2
    <2> QED
      BY <2>1, <2>2
  <1> QED
    BY <1>5, <1>6 DEF Structure

\* Steps that write no object and start nothing.
LEMMA OthersKeepStructure ==
  ASSUME TermTypes, Structure, UNCHANGED <<table, obj, process, reader, reopened>>,
         thread' = thread \/ {thread.pc, thread'.pc} \cap {"spawn", "started"} = {}
  PROVE  Structure'
  <1>1. Used' = Used
    BY DEF Used
  <1>2. \A p \in Procs : Coming(p)' <=> Coming(p)
    BY DEF Coming
  <1>3. Known /\ OneReader
    BY DEF Structure
  <1>4. Known'
    BY <1>1, <1>2, <1>3 DEF Known
  <1>5. OneReader'
    BY <1>3 DEF OneReader, Serves, InStep
  <1> QED
    BY <1>4, <1>5 DEF Structure

LEMMA ProcessKeepsStructure ==
  ASSUME TermTypes, Structure, NEW p \in Procs, Exits(p) \/ HangsUp(p)
  PROVE  Structure'
  <1>1. /\ UNCHANGED <<table, thread, reopened, obj, reader>>
        /\ process[p].state \in {"running", "signalled", "dying"}
    BY DEF Exits, HangsUp, Keeps
  <1>2. PICK st : /\ process' = [process EXCEPT ![p].state = st]
                  /\ \/ process[p].state = "dying" /\ st = "exited"
                     \/ process[p].state \in {"running", "signalled"} /\ st \in {"dying", "signalled"}
    BY DEF Exits, HangsUp
  <1>3. /\ \A q \in Procs : q # p => process'[q].state = process[q].state
        /\ process'[p].state = st
    BY <1>2 DEF TermTypes, ProcessRec
  <1>4. Used' = Used /\ \A q \in Procs : Coming(q)' <=> Coming(q)
    BY <1>1 DEF Used, Coming
  <1>5. Known /\ OneReader
    BY DEF Structure
  <1>6. Known'
    BY <1>1, <1>2, <1>3, <1>4, <1>5 DEF Known
  <1>7. OneReader'
    <2> SUFFICES ASSUME table # 0, table \notin reopened, obj[table].proc # 0, thread.pc # "started"
                 PROVE  InStep(obj[table].proc, obj[table].fd)'
      BY <1>1, <1>5 DEF OneReader, Serves
    <2>1. InStep(obj[table].proc, obj[table].fd)
      BY <1>5 DEF OneReader
    <2>2. obj[table].proc \in Procs
      BY DEF TermTypes, SessionRec
    <2> QED
      BY <1>1, <1>2, <1>3, <2>1, <2>2 DEF InStep
  <1> QED
    BY <1>6, <1>7 DEF Structure

LEMMA CloseKeepsStructure ==
  ASSUME TermTypes, Structure, HandleClose
  PROVE  Structure'
  <1>1. /\ table' = 0 /\ UNCHANGED <<reader, thread, reopened>> /\ thread.pc = "idle"
    BY ReceivesType DEF HandleClose
  <1>2. Known
    BY DEF Structure
  <1>3. /\ \A q \in Objs : obj'[q].proc = obj[q].proc /\ obj'[q].buffer = obj[q].buffer
        /\ Used' = Used
        /\ \A q \in Procs : process'[q].state = "none" <=> process[q].state = "none"
    <2>1. CASE table = 0
      BY <2>1 DEF HandleClose, Used
    <2>2. CASE table # 0
      <3> DEFINE s == obj[table]
                 ps == IF Alive(s.proc) THEN Terminated(s.proc) ELSE process
                 r == [s EXCEPT !.fd = 0]
      <3>1. table \in Objs /\ s \in SessionRec /\ s.proc \in 0..MaxProcs /\ s.fd \in 0..MaxProcs
        BY <2>2, TerminalsAssumption DEF TermTypes, SessionRec
      <3>2. ps \in [Procs -> ProcessRec]
        BY <3>1, TerminatedType DEF TermTypes, Alive
      <3>3. process' = MasterClosed(ps, s.fd) /\ obj' = [obj EXCEPT ![table].fd = 0]
        BY <2>2 DEF HandleClose
      <3>4. \A q \in Procs : ps[q].state = "none" <=> process[q].state = "none"
        BY <3>1 DEF Terminated, Alive, TermTypes, ProcessRec
      <3>5. \A q \in Procs : process'[q].state = ps[q].state
        <4> HIDE DEF ps
        <4> QED
          BY <3>1, <3>2, <3>3, MastersKeep
      <3>6. obj' = [obj EXCEPT ![table] = r]
        BY <3>1, <3>3 DEF TermTypes
      <3>7. r.proc = s.proc /\ r.buffer = s.buffer
        BY <3>1 DEF SessionRec
      <3>8. r.used = s.used
        BY <3>1, Zenon DEF SessionRec
      <3> HIDE DEF r, ps
      <3>9. /\ obj'[table] = r /\ \A q \in Objs : q # table => obj'[q] = obj[q]
        BY <3>1, <3>6 DEF TermTypes
      <3>10. \A q \in Objs : obj'[q].used = obj[q].used
        BY <3>8, <3>9, Zenon
      <3>11. Used' = Used
        BY <3>10, Zenon DEF Used
      <3> QED
        BY <3>4, <3>5, <3>7, <3>9, <3>11
    <2> QED
      BY <2>1, <2>2
  <1>4. \A q \in Procs : Coming(q)' <=> Coming(q)
    BY <1>1 DEF Coming
  <1>5. \A q \in Objs : obj[q].proc \in 0..MaxProcs
    BY DEF TermTypes, SessionRec
  <1>6. Known'
    <2>1. ASSUME NEW q \in Objs
          PROVE  /\ q \notin Used' => obj'[q].proc = 0 /\ obj'[q].buffer = <<>>
                 /\ obj'[q].proc # 0 => reader'[obj'[q].proc].obj = q
      BY <1>1, <1>2, <1>3, <1>5 DEF Known
    <2> QED
      BY <1>1, <1>2, <1>3, <1>4, <2>1 DEF Known
  <1> QED
    BY <1>1, <1>6 DEF Structure, OneReader

LEMMA OpenKeepsStructure ==
  ASSUME TermTypes, Structure, NEW g \in Programs, HandleOpen(g)
  PROVE  Structure'
  <1>1. PICK o \in Objs :
          /\ IF table # 0 THEN o = table ELSE ~obj[o].used
          /\ table' = o
          /\ obj' = [obj EXCEPT ![o].used = TRUE, ![o].program = g]
          /\ thread' = [Resting EXCEPT !.obj = o, !.pc = IF Alive(obj[o].proc) THEN "reply" ELSE "spawn"]
    BY DEF HandleOpen
  <1>2. UNCHANGED <<process, reader, reopened>> /\ thread.pc = "idle"
    BY ReceivesType DEF HandleOpen
  <1>3. /\ thread'.pc \in {"reply", "spawn"}
        /\ thread'.pc = "reply" => obj[o].proc # 0
    BY <1>1, RestingIs DEF Alive
  <1> DEFINE r == [obj[o] EXCEPT !.used = TRUE, !.program = g]
  <1>4. obj' = [obj EXCEPT ![o] = r] /\ obj[o] \in SessionRec
    BY <1>1 DEF TermTypes
  <1>5. r.proc = obj[o].proc /\ r.buffer = obj[o].buffer /\ r.fd = obj[o].fd
    BY <1>4, Zenon DEF SessionRec
  <1>6. r.used
    BY <1>4, Zenon DEF SessionRec
  <1> HIDE DEF r
  <1>7. obj'[o] = r /\ \A q \in Objs : q # o => obj'[q] = obj[q]
    BY <1>4 DEF TermTypes
  <1>8. Used' = Used \union {o}
    <2>1. o \in Used'
      BY <1>6, <1>7, Zenon DEF Used
    <2>2. \A q \in Objs : q # o => (q \in Used' <=> q \in Used)
      BY <1>7, Zenon DEF Used
    <2>3. Used \subseteq Objs /\ Used' \subseteq Objs
      BY Zenon DEF Used
    <2> QED
      BY <2>1, <2>2, <2>3
  <1>9. \A q \in Objs : obj'[q].proc = obj[q].proc /\ obj'[q].buffer = obj[q].buffer /\ obj'[q].fd = obj[q].fd
    BY <1>5, <1>7
  <1>10. Known /\ OneReader
    BY DEF Structure
  <1>11. \A q \in Procs : ~Coming(q) /\ ~Coming(q)'
    BY <1>2, <1>3 DEF Coming
  <1>12. \A q \in Objs : obj[q].proc \in 0..MaxProcs
    BY DEF TermTypes, SessionRec
  <1>13. Known'
    <2>1. ASSUME NEW q \in Objs
          PROVE  /\ q \notin Used' => obj'[q].proc = 0 /\ obj'[q].buffer = <<>>
                 /\ obj'[q].proc # 0 => reader'[obj'[q].proc].obj = q
      BY <1>2, <1>8, <1>9, <1>10, <1>12 DEF Known
    <2>2. table' \in Used' /\ (thread'.pc \notin {"spawn", "started"} => obj'[table'].proc # 0)
      BY <1>1, <1>3, <1>8, <1>9
    <2>3. ASSUME NEW q \in Procs
          PROVE  /\ process'[q].state = "none" <=> reader'[q].pc = "none" /\ ~Coming(q)'
                 /\ reader'[q].pc # "none" => ~Coming(q)'
                 /\ reader'[q].obj # 0 => reader'[q].pc # "none" /\ reader'[q].obj \in Used'
                 /\ reader'[q].pc # "publish" => reader'[q].chunk = {}
      BY <1>2, <1>8, <1>10, <1>11 DEF Known
    <2> QED
      BY <2>1, <2>2, <2>3 DEF Known
  <1>14. OneReader'
    <2>1. CASE table # 0
      <3>1. o = table /\ table' = table
        BY <1>1, <2>1
      <3> QED
        BY <1>2, <1>3, <1>9, <1>10, <3>1 DEF OneReader, Serves, InStep
    <2>2. CASE table = 0
      <3>1. o \notin Used
        BY <1>1, <2>2, Zenon DEF Used
      <3>2. obj[o].proc = 0 /\ obj[o].buffer = <<>> /\ \A q \in Procs : reader[q].obj # o
        BY <1>10, <3>1 DEF Known
      <3>3. ToSet(obj'[table'].buffer) = {} /\ obj'[table'].proc = 0
        <4>1. obj'[o].buffer = <<>> /\ obj'[o].proc = 0
          BY <1>9, <3>2
        <4>2. ToSet(<<>>) = {}
          BY DEF ToSet
        <4> QED
          BY <1>1, <4>1, <4>2
      <3> QED
        BY <1>1, <1>2, <1>3, <3>2, <3>3 DEF OneReader, Serves
    <2> QED
      BY <2>1, <2>2
  <1> QED
    BY <1>13, <1>14 DEF Structure

LEMMA SpawnKeepsStructure ==
  ASSUME TermTypes, Structure, Spawn
  PROVE  Structure'
  <1>1. PICK p \in Procs, g \in Programs : Spawns(p, table, g)
    BY SpawnIs
  <1>2. table \in Objs /\ thread.pc = "spawn"
    BY TerminalsAssumption DEF Spawn, TermTypes
  <1>3. /\ thread'.pc = "started" /\ thread'.text = {p} /\ UNCHANGED <<table, reader>>
        /\ process[p].state = "none"
        /\ process' = [process EXCEPT ![p] = [process[p] EXCEPT !.state = "running", !.program = g, !.open = TRUE]]
        /\ obj' = [obj EXCEPT ![table] = [obj[table] EXCEPT !.fd = p, !.program = g]]
        /\ table \notin reopened' => \A q \in Procs : ~Serves(q, table)
    BY <1>1, <1>2 DEF Spawns, Serves
  <1>4. /\ \A q \in Procs : q # p => process'[q].state = process[q].state
        /\ process'[p].state = "running"
    BY <1>3 DEF TermTypes, ProcessRec
  <1> DEFINE r == [obj[table] EXCEPT !.fd = p, !.program = g]
  <1>5. obj[table] \in SessionRec
    BY <1>2 DEF TermTypes
  <1>6. r.proc = obj[table].proc /\ r.buffer = obj[table].buffer /\ r.fd = p
    BY <1>5 DEF SessionRec
  <1>7. r.used = obj[table].used
    BY <1>5, Zenon DEF SessionRec
  <1> HIDE DEF r
  <1>8. obj'[table] = r /\ \A q \in Objs : q # table => obj'[q] = obj[q]
    BY <1>2, <1>3 DEF TermTypes, r
  <1>9. Used' = Used
    <2>1. \A q \in Objs : obj'[q].used = obj[q].used
      BY <1>7, <1>8, Zenon
    <2> QED
      BY <2>1, Zenon DEF Used
  <1>10. \A q \in Objs : obj'[q].proc = obj[q].proc /\ obj'[q].buffer = obj[q].buffer
    BY <1>6, <1>8
  <1>11. Known /\ OneReader
    BY DEF Structure
  <1>12. \A q \in Procs : ~Coming(q) /\ (Coming(q)' <=> q = p)
    BY <1>2, <1>3 DEF Coming
  <1>13. \A q \in Objs : obj[q].proc \in 0..MaxProcs
    BY DEF TermTypes, SessionRec
  <1>14. Known'
    <2>1. ASSUME NEW q \in Objs
          PROVE  /\ q \notin Used' => obj'[q].proc = 0 /\ obj'[q].buffer = <<>>
                 /\ obj'[q].proc # 0 => reader'[obj'[q].proc].obj = q
      BY <1>3, <1>9, <1>10, <1>11, <1>13 DEF Known
    <2>2. table' \in Used' /\ thread'.pc = "started"
      BY <1>2, <1>3, <1>9, <1>11 DEF Known
    <2>3. ASSUME NEW q \in Procs
          PROVE  /\ process'[q].state = "none" <=> reader'[q].pc = "none" /\ ~Coming(q)'
                 /\ reader'[q].pc # "none" => ~Coming(q)'
                 /\ reader'[q].obj # 0 => reader'[q].pc # "none" /\ reader'[q].obj \in Used'
                 /\ reader'[q].pc # "publish" => reader'[q].chunk = {}
      BY <1>3, <1>4, <1>9, <1>11, <1>12 DEF Known
    <2> QED
      BY <2>1, <2>2, <2>3 DEF Known
  <1>15. OneReader'
    <2>1. reopened \subseteq reopened'
      BY <1>1 DEF Spawns
    <2>2. obj'[table].fd = p /\ obj'[table].buffer = obj[table].buffer
      BY <1>2, <1>6, <1>8
    <2> QED
      BY <1>2, <1>3, <1>11, <2>1, <2>2 DEF OneReader, Serves
  <1> QED
    BY <1>14, <1>15 DEF Structure

LEMMA StartedKeepsStructure ==
  ASSUME TermTypes, Structure, Started
  PROVE  Structure'
  <1>1. PICK p \in Procs : Starts(p, table)
    BY StartedIs
  <1>2. table \in Objs /\ Known /\ OneReader
    BY TerminalsAssumption DEF Started, TermTypes, Structure
  <1>3. /\ thread.pc = "started" /\ thread.text = {p} /\ thread'.pc = "announce"
        /\ UNCHANGED <<table, process, reopened>>
        /\ obj' = [obj EXCEPT ![table] = [obj[table] EXCEPT !.proc = p]]
        /\ reader' = [reader EXCEPT ![p] = [pc |-> "start", obj |-> table, fd |-> 0, chunk |-> {}]]
    BY <1>1 DEF Starts
  <1>4. /\ \A q \in Procs : q # p => reader'[q] = reader[q]
        /\ reader'[p].pc = "start" /\ reader'[p].obj = table /\ reader'[p].chunk = {}
    BY <1>3 DEF TermTypes
  <1> DEFINE r == [obj[table] EXCEPT !.proc = p]
  <1>5. obj[table] \in SessionRec
    BY <1>2 DEF TermTypes
  <1>6. r.proc = p /\ r.buffer = obj[table].buffer /\ r.fd = obj[table].fd
    BY <1>5 DEF SessionRec
  <1>7. r.used = obj[table].used
    BY <1>5, Zenon DEF SessionRec
  <1> HIDE DEF r
  <1>8. obj'[table] = r /\ \A q \in Objs : q # table => obj'[q] = obj[q]
    BY <1>2, <1>3 DEF TermTypes, r
  <1>9. Used' = Used
    <2>1. \A q \in Objs : obj'[q].used = obj[q].used
      BY <1>7, <1>8, Zenon
    <2> QED
      BY <2>1, Zenon DEF Used
  <1>10. \A q \in Procs : (Coming(q) <=> q = p) /\ ~Coming(q)'
    BY <1>3 DEF Coming
  <1>11. \A q \in Objs : obj[q].proc \in 0..MaxProcs
    BY DEF TermTypes, SessionRec
  <1>12. p # 0 /\ reader[p].pc = "none" /\ reader[p].obj = 0
    BY <1>2, <1>10, TerminalsAssumption DEF Known
  <1>13. Known'
    <2>1. ASSUME NEW q \in Objs
          PROVE  /\ q \notin Used' => obj'[q].proc = 0 /\ obj'[q].buffer = <<>>
                 /\ obj'[q].proc # 0 => reader'[obj'[q].proc].obj = q
      <3>1. CASE q = table
        BY <1>2, <1>4, <1>6, <1>8, <1>9, <3>1 DEF Known
      <3>2. CASE q # table
        <4>1. obj'[q] = obj[q] /\ (obj[q].proc # 0 => obj[q].proc # p)
          BY <1>2, <1>8, <1>11, <1>12, <3>2 DEF Known
        <4> QED
          BY <1>2, <1>4, <1>9, <1>11, <4>1 DEF Known
      <3> QED
        BY <3>1, <3>2
    <2>2. table' \in Used' /\ obj'[table'].proc # 0
      BY <1>2, <1>3, <1>6, <1>8, <1>9, <1>12 DEF Known
    <2>3. ASSUME NEW q \in Procs
          PROVE  /\ process'[q].state = "none" <=> reader'[q].pc = "none" /\ ~Coming(q)'
                 /\ reader'[q].pc # "none" => ~Coming(q)'
                 /\ reader'[q].obj # 0 => reader'[q].pc # "none" /\ reader'[q].obj \in Used'
                 /\ reader'[q].pc # "publish" => reader'[q].chunk = {}
      BY <1>2, <1>3, <1>4, <1>9, <1>10, <1>12 DEF Known
    <2> QED
      BY <2>1, <2>2, <2>3 DEF Known
  <1>14. OneReader'
    <2> SUFFICES ASSUME table # 0, table \notin reopened
                 PROVE  /\ \A q \in Procs : Serves(q, table)' => q = obj'[table].proc
                        /\ \A c \in ToSet(obj'[table].buffer) : reader'[c[1]].pc # "none"
                        /\ InStep(obj[table].proc, obj[table].fd)'
      BY <1>3 DEF OneReader, Serves
    <2>1. /\ \A q \in Procs : reader[q].obj # table \/ reader[q].pc = "done"
          /\ \A c \in ToSet(obj[table].buffer) : reader[c[1]].pc # "none"
          /\ obj[table].fd = p
      BY <1>2, <1>3 DEF OneReader, Serves
    <2>2. obj'[table].proc = p /\ obj'[table].fd = p /\ obj'[table].buffer = obj[table].buffer
      BY <1>6, <1>8, <2>1
    <2>3. \A q \in Procs : Serves(q, table)' => q = obj'[table].proc
      BY <1>3, <1>4, <2>1, <2>2 DEF Serves
    <2>4. \A c \in ToSet(obj[table].buffer) : c[1] \in Procs
      BY <1>2, BufferTypes DEF Chunks
    <2>5. InStep(obj[table].proc, obj[table].fd)'
      BY <1>3, <1>4, <2>2 DEF InStep
    <2> QED
      BY <1>4, <2>1, <2>2, <2>3, <2>4, <2>5
  <1> QED
    BY <1>13, <1>14 DEF Structure

LEMMA StructureInit == TermInit => Structure
  <1> SUFFICES ASSUME TermInit PROVE Structure
    OBVIOUS
  <1>1. /\ table = 0 /\ thread.pc = "idle"
        /\ \A p \in Procs : process[p].state = "none" /\ reader[p].pc = "none" /\ reader[p].obj = 0
                           /\ reader[p].chunk = {}
        /\ \A o \in Objs : obj[o].proc = 0 /\ obj[o].buffer = <<>>
    BY DEF TermInit, Resting, NoReader
  <1> QED
    BY <1>1 DEF Structure, Known, OneReader, Coming

LEMMA StructureStays ==
  ASSUME TermTypes, Structure, TermNext
  PROVE  Structure'
  <1>1. ASSUME NEW v \in Viewers, Join(v) \/ PushOpen(v) \/ (\E c \in Uses : Type(v, c)) \/ Leave(v)
        PROVE  Structure'
    <2>1. UNCHANGED <<table, obj, process, reader, reopened, thread>>
      BY <1>1 DEF Join, PushOpen, Type, Leave
    <2> QED
      BY <2>1, OthersKeepStructure
  <1>2. CASE Forward \/ LinkBreaks \/ LinkReturns
    <2>1. UNCHANGED <<table, obj, process, reader, reopened, thread>>
      BY <1>2 DEF Forward, LinkBreaks, LinkReturns
    <2> QED
      BY <2>1, OthersKeepStructure
  <1>3. CASE Reply \/ Snapshot \/ Announce \/ Write
    <2>1. UNCHANGED <<table, obj, process, reader, reopened>>
      BY <1>3 DEF Reply, Snapshot, Announce, Write
    <2>2. thread.pc \in {"reply", "snapshot", "announce", "write"}
      BY <1>3 DEF Reply, Snapshot, Announce, Write
    <2>3. thread'.pc \in {"idle", "snapshot"}
      <3>1. thread = [pc |-> thread.pc, obj |-> thread.obj, text |-> thread.text]
        BY DEF TermTypes
      <3>2. thread' = Resting \/ thread' = [thread EXCEPT !.pc = "snapshot", !.text = ToSet(obj[thread.obj].buffer)]
        BY <1>3 DEF Reply, Snapshot, Announce, Write
      <3> QED
        BY <3>1, <3>2, RestingIs
    <2> QED
      BY <2>1, <2>2, <2>3, OthersKeepStructure
  <1>4. ASSUME NEW c \in Uses, HandleUse(c) PROVE Structure'
    <2>1. UNCHANGED <<table, obj, process, reader, reopened>> /\ thread.pc = "idle"
      BY <1>4, ReceivesType DEF HandleUse
    <2>2. thread'.pc \in {"idle", "write"}
      BY <1>4, RestingIs DEF HandleUse
    <2> QED
      BY <2>1, <2>2, OthersKeepStructure
  <1>5. ASSUME NEW p \in Procs, ReaderThread(p) \/ Exits(p) \/ HangsUp(p) PROVE Structure'
    BY <1>5, ReaderKeepsStructure, ProcessKeepsStructure
  <1> QED
    BY <1>1, <1>2, <1>3, <1>4, <1>5, OpenKeepsStructure, SpawnKeepsStructure, StartedKeepsStructure,
       CloseKeepsStructure DEF TermNext, Browser, TransportThread

-----------------------------------------------------------------------------
(* What the viewers are shown.                                               *)

OpenComes == \E g \in Programs : \E i \in DOMAIN down : down[i] = <<"open", g>>
OnTheWay(c) ==
    \/ \E i \in DOMAIN events : c \in events[i].data
    \/ \E p \in Procs : c \in reader[p].chunk
    \/ thread.pc = "snapshot" /\ c \in thread.text
Announced(p) == \E i \in DOMAIN events : events[i] = Exited(p)

\* A viewer that is attached, and whose open is not on its way, was shown or will be
\* what the buffer holds of the running process, and its end.
Shown ==
    /\ ~broken => relay
    /\ \A v \in Viewers : viewer[v].pc = "away" => viewer[v].told = 0
    /\ ~broken /\ table # 0 /\ table \notin reopened /\ ~OpenComes =>
        \A v \in Viewers : viewer[v].pc = "attached" =>
          /\ thread.pc \notin {"reply", "spawn", "started"} =>
               \A c \in ToSet(obj[table].buffer) :
                 c[1] = obj[table].proc => c \in viewer[v].seen \/ OnTheWay(c)
          /\ thread.pc \notin {"spawn", "started"} /\ reader[obj[table].proc].pc \in {"release", "done"} =>
               <<obj[table].proc, 0>> \in viewer[v].seen \/ Announced(obj[table].proc)

\* A step after which everything is on its way that was, or was shown meanwhile.
Carries ==
    /\ \A v \in Viewers :
         /\ viewer'[v].pc = "away" => viewer'[v].told = 0
         /\ viewer'[v].pc = "attached" => viewer[v].pc = "attached" /\ viewer[v].seen \subseteq viewer'[v].seen
    /\ OpenComes => OpenComes'
    /\ \A v \in Viewers : viewer'[v].pc = "attached" =>
         /\ \A c : OnTheWay(c) => c \in viewer'[v].seen \/ OnTheWay(c)'
         /\ \A p \in Procs : Announced(p) => <<p, 0>> \in viewer'[v].seen \/ Announced(p)'

LEMMA ShownStays ==
  ASSUME TermTypes, Structure, Shown, UNCHANGED <<relay, broken, table, reopened>>, Carries,
         thread'.pc \notin {"spawn", "started"} => thread.pc \notin {"spawn", "started"},
         \/ thread'.pc \notin {"reply", "spawn", "started"} => thread.pc \notin {"reply", "spawn", "started"}
         \/ \A c \in ToSet(obj[table].buffer) : OnTheWay(c)',
         table # 0 =>
           /\ obj'[table].proc = obj[table].proc
           /\ \A c \in ToSet(obj'[table].buffer) : c \in ToSet(obj[table].buffer) \/ OnTheWay(c)',
         table # 0 /\ table \notin reopened /\ thread'.pc \notin {"spawn", "started"} =>
           \A p \in Procs : p = obj[table].proc /\ reader'[p].pc \in {"release", "done"} =>
             reader[p].pc \in {"release", "done"} \/ Announced(p)'
  PROVE  Shown'
  <1>1. /\ ~broken' => relay'
        /\ \A v \in Viewers : viewer'[v].pc = "away" => viewer'[v].told = 0
    BY DEF Shown, Carries
  <1> SUFFICES ASSUME ~broken, table # 0, table \notin reopened, ~OpenComes',
                      NEW v \in Viewers, viewer'[v].pc = "attached"
               PROVE  /\ thread'.pc \notin {"reply", "spawn", "started"} =>
                           \A c \in ToSet(obj'[table].buffer) :
                             c[1] = obj'[table].proc => c \in viewer'[v].seen \/ OnTheWay(c)'
                      /\ thread'.pc \notin {"spawn", "started"} /\ reader'[obj'[table].proc].pc \in {"release", "done"} =>
                           <<obj'[table].proc, 0>> \in viewer'[v].seen \/ Announced(obj[table].proc)'
    BY <1>1 DEF Shown
  <1> DEFINE q == obj[table].proc
  <1>2. /\ viewer[v].pc = "attached" /\ viewer[v].seen \subseteq viewer'[v].seen /\ ~OpenComes
        /\ obj'[table].proc = q
    BY DEF Carries
  <1>3. /\ thread.pc \notin {"reply", "spawn", "started"} =>
               \A c \in ToSet(obj[table].buffer) : c[1] = q => c \in viewer[v].seen \/ OnTheWay(c)
        /\ thread.pc \notin {"spawn", "started"} /\ reader[q].pc \in {"release", "done"} =>
               <<q, 0>> \in viewer[v].seen \/ Announced(q)
    BY <1>2 DEF Shown
  <1>4. \A c : OnTheWay(c) => c \in viewer'[v].seen \/ OnTheWay(c)'
    BY DEF Carries
  <1>5. thread.pc \notin {"spawn", "started"} => q \in Procs
    BY DEF TermTypes, SessionRec, Structure, Known
  <1>6. ASSUME thread'.pc \notin {"reply", "spawn", "started"},
               NEW c \in ToSet(obj'[table].buffer), c[1] = q
        PROVE  c \in viewer'[v].seen \/ OnTheWay(c)'
    BY <1>2, <1>3, <1>4, <1>6
  <1>7. ASSUME thread'.pc \notin {"spawn", "started"}, reader'[q].pc \in {"release", "done"}
        PROVE  <<q, 0>> \in viewer'[v].seen \/ Announced(q)'
    BY <1>2, <1>3, <1>5, <1>7 DEF Carries
  <1> QED
    BY <1>2, <1>6, <1>7

LEMMA AppendKeeps ==
  ASSUME NEW S, NEW s \in Seq(S), NEW e
  PROVE  /\ \A i \in DOMAIN s : i \in DOMAIN Append(s, e) /\ Append(s, e)[i] = s[i]
         /\ \E i \in DOMAIN Append(s, e) : Append(s, e)[i] = e
         /\ \A i \in DOMAIN Append(s, e) : Append(s, e)[i] = e \/ i \in DOMAIN s
  <1>1. Len(s) + 1 \in DOMAIN Append(s, e) /\ Append(s, e)[Len(s) + 1] = e
    OBVIOUS
  <1> QED
    BY <1>1

\* An event more, and nobody sees less.
LEMMA AppendCarries ==
  ASSUME TermTypes, Shown, UNCHANGED viewer, OpenComes => OpenComes',
         events' = events \/ (\E e : events' = Append(events, e)),
         \A c : (\E p \in Procs : c \in reader[p].chunk) \/ (thread.pc = "snapshot" /\ c \in thread.text) =>
                 OnTheWay(c)'
  PROVE  Carries
  <1>1. events \in Seq(Notices)
    BY DEF TermTypes
  <1>2. \A i \in DOMAIN events : i \in DOMAIN events' /\ events'[i] = events[i]
    <2>1. CASE events' = events
      BY <2>1
    <2>2. CASE \E e : events' = Append(events, e)
      BY <1>1, <2>2, AppendKeeps
    <2> QED
      BY <2>1, <2>2
  <1>3. \A c : (\E i \in DOMAIN events : c \in events[i].data) => OnTheWay(c)'
    BY <1>2 DEF OnTheWay
  <1>4. \A c : OnTheWay(c) => OnTheWay(c)'
    BY <1>3 DEF OnTheWay
  <1>5. \A p \in Procs : Announced(p) => Announced(p)'
    <2> SUFFICES ASSUME NEW p \in Procs, NEW i \in DOMAIN events, events[i] = Exited(p)
                 PROVE  Announced(p)'
      BY DEF Announced
    <2>1. i \in DOMAIN events' /\ events'[i] = Exited(p)
      BY <1>2
    <2> QED
      BY <2>1, Zenon DEF Announced, Exited
  <1> QED
    BY <1>4, <1>5 DEF Carries, Shown

\* An open stays on its way until it is received.
LEMMA OpenStays ==
  ASSUME TermTypes, (\E c : Push(c)) \/ UNCHANGED down
  PROVE  OpenComes => OpenComes'
  <1>1. down \in Seq(Commands)
    BY DEF TermTypes
  <1>2. \A i \in DOMAIN down : i \in DOMAIN down' /\ down'[i] = down[i]
    <2>1. CASE \E c : Push(c)
      BY <1>1, <2>1, AppendKeeps DEF Push
    <2>2. CASE UNCHANGED down
      BY <2>2
    <2> QED
      BY <2>1, <2>2
  <1> QED
    BY <1>2 DEF OpenComes

LEMMA OpenLeft ==
  ASSUME TermTypes, NEW c, Receives(c), \A g \in Programs : c # <<"open", g>>
  PROVE  OpenComes => OpenComes'
  <1>1. down \in Seq(Commands) /\ down # <<>> /\ c = Head(down) /\ down' = Tail(down)
    BY ReceivesType DEF TermTypes
  <1> SUFFICES ASSUME NEW g \in Programs, NEW i \in DOMAIN down, down[i] = <<"open", g>>
               PROVE  OpenComes'
    BY DEF OpenComes
  <1>2. i # 1
    BY <1>1
  <1>3. i - 1 \in DOMAIN down' /\ down'[i - 1] = down[i]
    BY <1>1, <1>2
  <1> QED
    BY <1>3 DEF OpenComes

LEMMA BrowserShows ==
  ASSUME TermTypes, Structure, Shown, NEW v \in Viewers,
         Join(v) \/ PushOpen(v) \/ (\E c \in Uses : Type(v, c)) \/ Leave(v)
  PROVE  Shown'
  <1>1. UNCHANGED <<relay, broken, table, reopened, events, obj, process, reader, thread>>
    BY DEF Join, PushOpen, Type, Leave, Spend
  <1>2. CASE PushOpen(v)
    <2>1. CASE broken
      <3>1. \A u \in Viewers : viewer'[u].pc = "away" => viewer'[u].told = 0
        BY <1>2 DEF PushOpen, Shown, TermTypes, ViewerRec
      <3> QED
        BY <1>1, <2>1, <3>1 DEF Shown
    <2>2. CASE ~broken
      <3>1. PICK g \in Programs : Push(<<"open", g>>)
        BY <1>2, TerminalsAssumption DEF PushOpen, Programs
      <3>2. down' = Append(down, <<"open", g>>)
        BY <2>2, <3>1 DEF Push, Shown
      <3>3. down \in Seq(Commands)
        BY DEF TermTypes
      <3>4. OpenComes'
        BY <3>2, <3>3, AppendKeeps DEF OpenComes
      <3>5. \A u \in Viewers : viewer'[u].pc = "away" => viewer'[u].told = 0
        BY <1>2 DEF PushOpen, Shown, TermTypes, ViewerRec
      <3> QED
        BY <1>1, <3>4, <3>5 DEF Shown
    <2> QED
      BY <2>1, <2>2
  <1>3. CASE Join(v) \/ (\E c \in Uses : Type(v, c)) \/ Leave(v)
    <2>1. OpenComes => OpenComes'
      BY <1>3, OpenStays DEF Join, Type, Leave
    <2>2. \A u \in Viewers : \/ viewer'[u] = viewer[u]
                             \/ viewer'[u].pc \in {"away", "joined"} /\ viewer'[u].told = 0
      <3>1. Gone \in ViewerRec /\ Gone.told = 0 /\ Gone.pc = "away"
        BY TerminalsAssumption DEF Gone, ViewerRec
      <3>2. [Gone EXCEPT !.pc = "joined"].told = 0 /\ [Gone EXCEPT !.pc = "joined"].pc = "joined"
        BY <3>1 DEF ViewerRec
      <3>3. \/ viewer' = [viewer EXCEPT ![v] = [Gone EXCEPT !.pc = "joined"]]
            \/ viewer' = [viewer EXCEPT ![v] = Gone]
            \/ viewer' = viewer
        BY <1>3 DEF Join, Type, Leave
      <3>4. viewer \in [Viewers -> ViewerRec]
        BY DEF TermTypes
      <3> DEFINE j == [Gone EXCEPT !.pc = "joined"]
      <3> HIDE DEF j
      <3>5. \/ viewer' = [viewer EXCEPT ![v] = j] /\ j.told = 0 /\ j.pc = "joined"
            \/ viewer' = [viewer EXCEPT ![v] = Gone]
            \/ viewer' = viewer
        BY <3>2, <3>3 DEF j
      <3> QED
        <4>1. CASE viewer' = [viewer EXCEPT ![v] = j] /\ j.told = 0 /\ j.pc = "joined"
          <5>1. \A u \in Viewers : viewer'[u] = IF u = v THEN j ELSE viewer[u]
            BY <3>4, <4>1
          <5> QED
            BY <4>1, <5>1
        <4>2. CASE viewer' = [viewer EXCEPT ![v] = Gone]
          <5>1. \A u \in Viewers : viewer'[u] = IF u = v THEN Gone ELSE viewer[u]
            BY <3>4, <4>2
          <5> QED
            BY <3>1, <5>1
        <4>3. CASE viewer' = viewer
          BY <4>3
        <4> QED
          BY <3>5, <4>1, <4>2, <4>3
    <2>3. Carries
      <3>1. \A c : OnTheWay(c) <=> OnTheWay(c)'
        BY <1>1 DEF OnTheWay
      <3>2. \A p \in Procs : Announced(p) <=> Announced(p)'
        BY <1>1 DEF Announced, Exited
      <3> QED
        BY <2>1, <2>2, <3>1, <3>2 DEF Carries, Shown
    <2> QED
      BY <1>1, <2>3, ShownStays
  <1> QED
    BY <1>2, <1>3

LEMMA ForwardShows ==
  ASSUME TermTypes, Structure, Shown, Forward
  PROVE  Shown'
  <1> DEFINE e == Head(events)
  <1>1. UNCHANGED <<relay, down, table, obj, process, reader, thread, reopened, left, broken>>
    BY DEF Forward
  <1>2. events \in Seq(Notices) /\ events # <<>> /\ events' = Tail(events)
    BY DEF Forward, TermTypes
  <1>3. ASSUME NEW v \in Viewers
        PROVE  /\ viewer[v].pc = "away" => viewer'[v] = viewer[v]
               /\ viewer[v].pc # "away" =>
                    /\ viewer'[v].pc = viewer[v].pc
                    /\ viewer'[v].seen = viewer[v].seen \union e.data
                                           \union (IF e.kind = "exited" THEN {<<e.proc, 0>>} ELSE {})
    <2>1. viewer[v] \in ViewerRec
      BY DEF TermTypes
    <2>2. viewer'[v] = IF viewer[v].pc = "away" THEN viewer[v]
            ELSE [viewer[v] EXCEPT
                    !.told = IF e.kind = "opened" THEN e.proc ELSE @,
                    !.seen = @ \union e.data \union (IF e.kind = "exited" THEN {<<e.proc, 0>>} ELSE {})]
      BY DEF Forward
    <2> DEFINE told == IF e.kind = "opened" THEN e.proc ELSE viewer[v].told
               seen == viewer[v].seen \union e.data
                         \union (IF e.kind = "exited" THEN {<<e.proc, 0>>} ELSE {})
    <2>3. viewer[v].pc # "away" => viewer'[v] = [viewer[v] EXCEPT !.told = told, !.seen = seen]
      BY <2>2
    <2>4. viewer[v].pc = "away" => viewer'[v] = viewer[v]
      BY <2>2
    <2> HIDE DEF told
    <2>5. viewer[v].pc # "away" => viewer'[v].pc = viewer[v].pc /\ viewer'[v].seen = seen
      <3> HIDE DEF seen
      <3> QED
        BY <2>1, <2>3 DEF ViewerRec
    <2> QED
      BY <2>4, <2>5
  <1>4. \A i \in DOMAIN events : i = 1 \/ (i - 1 \in DOMAIN events' /\ events'[i - 1] = events[i])
    BY <1>2
  <1>5. ASSUME NEW v \in Viewers, viewer'[v].pc = "attached"
        PROVE  /\ viewer[v].pc = "attached" /\ viewer[v].seen \subseteq viewer'[v].seen
               /\ \A c : OnTheWay(c) => c \in viewer'[v].seen \/ OnTheWay(c)'
               /\ \A p \in Procs : Announced(p) => <<p, 0>> \in viewer'[v].seen \/ Announced(p)'
    <2>1. /\ viewer[v].pc = "attached"
          /\ viewer'[v].seen = viewer[v].seen \union e.data
                                 \union (IF e.kind = "exited" THEN {<<e.proc, 0>>} ELSE {})
      BY <1>3, <1>5
    <2>2. ASSUME NEW c, OnTheWay(c) PROVE c \in viewer'[v].seen \/ OnTheWay(c)'
      <3>1. ASSUME NEW i \in DOMAIN events, c \in events[i].data
            PROVE  c \in viewer'[v].seen \/ OnTheWay(c)'
        <4>1. CASE i = 1
          BY <1>2, <2>1, <3>1, <4>1
        <4>2. CASE i # 1
          BY <1>4, <3>1, <4>2 DEF OnTheWay
        <4> QED
          BY <4>1, <4>2
      <3>2. (\E p \in Procs : c \in reader[p].chunk) \/ (thread.pc = "snapshot" /\ c \in thread.text) => OnTheWay(c)'
        BY <1>1 DEF OnTheWay
      <3> QED
        BY <2>2, <3>1, <3>2 DEF OnTheWay
    <2>3. ASSUME NEW p \in Procs, Announced(p) PROVE <<p, 0>> \in viewer'[v].seen \/ Announced(p)'
      <3>1. PICK i \in DOMAIN events : events[i] = Exited(p)
        BY <2>3 DEF Announced
      <3>2. CASE i = 1
        <4>1. e.kind = "exited" /\ e.proc = p
          BY <1>2, <3>1, <3>2 DEF Exited
        <4> QED
          BY <2>1, <4>1
      <3>3. CASE i # 1
        <4>1. i - 1 \in DOMAIN events' /\ events'[i - 1] = Exited(p)
          BY <1>4, <3>1, <3>3
        <4> QED
          BY <4>1, Zenon DEF Announced, Exited
      <3> QED
        BY <3>2, <3>3
    <2> QED
      BY <2>1, <2>2, <2>3
  <1>6. OpenComes => OpenComes'
    BY <1>1 DEF OpenComes
  <1> HIDE DEF e
  <1>7. \A v \in Viewers : viewer'[v].pc = "away" => viewer'[v].told = 0
    BY <1>3 DEF Shown
  <1>8. Carries
    BY <1>5, <1>6, <1>7 DEF Carries
  <1> QED
    BY <1>1, <1>8, ShownStays

LEMMA LinkShows ==
  ASSUME TermTypes, Structure, Shown, LinkBreaks \/ LinkReturns
  PROVE  Shown'
  <1>1. UNCHANGED viewer
    BY DEF LinkBreaks, LinkReturns
  <1>2. broken'
    <2>1. CASE LinkBreaks
      BY <2>1 DEF LinkBreaks, LosesLink
    <2>2. CASE LinkReturns
      BY <2>2, Zenon DEF LinkReturns, Shown
    <2> QED
      BY <2>1, <2>2
  <1> QED
    BY <1>1, <1>2 DEF Shown

\* The transport thread.
LEMMA AnswerShows ==
  ASSUME TermTypes, Structure, Shown, Reply \/ Snapshot \/ Announce
  PROVE  Shown'
  <1>1. /\ UNCHANGED <<viewer, relay, down, table, obj, process, reader, reopened, left, broken>>
        /\ \E e : events' = Append(events, e)
    BY DEF Reply, Snapshot, Announce
  <1>2. OpenComes => OpenComes'
    BY <1>1 DEF OpenComes
  <1>3. CASE Reply
    <2>1. table \in Objs /\ thread.obj = table
      BY <1>3, TerminalsAssumption DEF Reply, TermTypes
    <2>2. ToSet(obj[table].buffer) # {} =>
            thread' = [thread EXCEPT !.pc = "snapshot", !.text = ToSet(obj[table].buffer)]
      BY <1>3, <2>1 DEF Reply
    <2>3. thread = [pc |-> thread.pc, obj |-> thread.obj, text |-> thread.text] /\ thread.pc = "reply"
      BY <1>3 DEF TermTypes, Reply
    <2>4. ToSet(obj[table].buffer) # {} => thread'.pc = "snapshot" /\ thread'.text = ToSet(obj[table].buffer)
      BY <2>2, <2>3
    <2>5. \A c \in ToSet(obj[table].buffer) : OnTheWay(c)'
      BY <2>4 DEF OnTheWay
    <2>6. \A c : (\E p \in Procs : c \in reader[p].chunk) => OnTheWay(c)'
      BY <1>1 DEF OnTheWay
    <2>7. Carries
      BY <1>1, <1>2, <2>3, <2>6, AppendCarries
    <2> QED
      BY <1>1, <2>3, <2>5, <2>7, ShownStays
  <1>4. CASE Snapshot
    <2>1. events' = Append(events, Frame(thread.text)) /\ thread.pc = "snapshot"
      BY <1>4 DEF Snapshot
    <2>2. events \in Seq(Notices)
      BY DEF TermTypes
    <2>3. \E i \in DOMAIN events' : events'[i] = Frame(thread.text)
      BY <2>1, <2>2, AppendKeeps
    <2>4. \A c \in thread.text : OnTheWay(c)'
      BY <2>3 DEF OnTheWay, Frame
    <2>5. \A c : (\E p \in Procs : c \in reader[p].chunk) => OnTheWay(c)'
      BY <1>1 DEF OnTheWay
    <2>6. Carries
      BY <1>1, <1>2, <2>4, <2>5, AppendCarries
    <2> QED
      BY <1>1, <2>1, <2>6, ShownStays
  <1>5. CASE Announce
    <2>1. thread.pc = "announce"
      BY <1>5 DEF Announce
    <2>2. \A c : (\E p \in Procs : c \in reader[p].chunk) => OnTheWay(c)'
      BY <1>1 DEF OnTheWay
    <2>3. Carries
      BY <1>1, <1>2, <2>1, <2>2, AppendCarries
    <2> QED
      BY <1>1, <2>1, <2>3, ShownStays
  <1> QED
    BY <1>3, <1>4, <1>5

LEMMA UseShows ==
  ASSUME TermTypes, Structure, Shown, (\E c \in Uses : HandleUse(c)) \/ Write
  PROVE  Shown'
  <1>1. CASE \E c \in Uses : HandleUse(c)
    <2>1. PICK c \in Uses : HandleUse(c)
      BY <1>1
    <2>2. UNCHANGED <<viewer, relay, events, table, obj, process, reader, reopened, left, broken>> /\ Receives(c)
      BY <2>1 DEF HandleUse
    <2>3. \A g \in Programs : c # <<"open", g>>
      BY DEF Uses
    <2>4. OpenComes => OpenComes'
      BY <2>2, <2>3, OpenLeft
    <2>5. thread.pc = "idle"
      BY <2>2, ReceivesType
    <2>6. \A c2 : (\E p \in Procs : c2 \in reader[p].chunk) => OnTheWay(c2)'
      BY <2>2 DEF OnTheWay
    <2>7. Carries
      BY <2>2, <2>4, <2>5, <2>6, AppendCarries
    <2> QED
      BY <2>2, <2>5, <2>7, ShownStays
  <1>2. CASE Write
    <2>1. UNCHANGED <<left, viewer, table, obj, process, reader, reopened>> /\ thread.pc = "write"
      BY <1>2 DEF Write
    <2>2. CASE LosesLink
      BY <2>1, <2>2 DEF LosesLink, Shown
    <2>3. CASE UNCHANGED <<relay, down, events, broken>>
      <3>1. OpenComes => OpenComes'
        BY <2>3 DEF OpenComes
      <3>2. \A c2 : (\E p \in Procs : c2 \in reader[p].chunk) => OnTheWay(c2)'
        BY <2>1 DEF OnTheWay
      <3>3. Carries
        BY <2>1, <2>3, <3>1, <3>2, AppendCarries
      <3> QED
        BY <2>1, <2>3, <3>3, ShownStays
    <2> QED
      BY <1>2, <2>2, <2>3 DEF Write
  <1> QED
    BY <1>1, <1>2

\* A terminal that opens while its process runs has not been told to have ended.
LEMMA OpenShows ==
  ASSUME TermTypes, Structure, Shown, NEW g \in Programs, HandleOpen(g)
  PROVE  Shown'
  <1>1. PICK o \in Objs :
          /\ IF table # 0 THEN o = table ELSE ~obj[o].used
          /\ table' = o
          /\ obj' = [obj EXCEPT ![o].used = TRUE, ![o].program = g]
          /\ thread' = [Resting EXCEPT !.obj = o, !.pc = IF Alive(obj[o].proc) THEN "reply" ELSE "spawn"]
    BY DEF HandleOpen
  <1>2. UNCHANGED <<viewer, relay, events, process, reader, reopened, broken>> /\ thread.pc = "idle"
    BY ReceivesType DEF HandleOpen
  <1>3. /\ thread'.pc \in {"reply", "spawn"}
        /\ thread'.pc = "reply" => obj[o].proc # 0 /\ process[obj[o].proc].state # "exited"
    BY <1>1, RestingIs DEF Alive
  <1>4. obj'[o].proc = obj[o].proc
    BY <1>1 DEF TermTypes, SessionRec
  <1>5. thread'.pc = "reply" => o = table
    <2>1. obj[o].proc # 0 => o \in Used
      BY DEF Structure, Known
    <2> QED
      BY <1>1, <1>3, <2>1, Zenon DEF Used
  <1>6. thread'.pc = "reply" /\ o \notin reopened => reader[obj[o].proc].pc \notin {"release", "done"}
    BY <1>2, <1>3, <1>5, TerminalsAssumption DEF Structure, OneReader, InStep
  <1> QED
    BY <1>1, <1>2, <1>3, <1>4, <1>6 DEF Shown

LEMMA CloseShows ==
  ASSUME TermTypes, Structure, Shown, HandleClose \/ Spawn
  PROVE  Shown'
  <1>1. UNCHANGED <<viewer, relay, broken>>
    BY DEF HandleClose, Spawn
  <1>2. table' = 0 \/ thread'.pc = "started"
    <2>1. CASE HandleClose
      BY <2>1 DEF HandleClose
    <2>2. CASE Spawn
      <3>1. PICK p \in Procs, g \in Programs : Spawns(p, table, g)
        BY <2>2, SpawnIs
      <3>2. thread' = [pc |-> "started", obj |-> table, text |-> {p}]
        BY <3>1 DEF Spawns
      <3> QED
        BY <3>2
    <2> QED
      BY <2>1, <2>2
  <1> QED
    BY <1>1, <1>2 DEF Shown

\* The buffer holds nothing of a process that has just begun.
LEMMA StartedShows ==
  ASSUME TermTypes, Structure, Shown, Started
  PROVE  Shown'
  <1>1. PICK p \in Procs : Starts(p, table)
    BY StartedIs
  <1>2. table \in Objs /\ Known /\ OneReader
    BY TerminalsAssumption DEF Started, TermTypes, Structure
  <1>3. /\ thread.pc = "started" /\ thread.text = {p}
        /\ UNCHANGED <<viewer, relay, broken, table, reopened>>
        /\ obj' = [obj EXCEPT ![table] = [obj[table] EXCEPT !.proc = p]]
        /\ reader' = [reader EXCEPT ![p] = [pc |-> "start", obj |-> table, fd |-> 0, chunk |-> {}]]
    BY <1>1 DEF Starts
  <1>4. reader'[p].pc = "start" /\ reader[p].pc = "none"
    BY <1>2, <1>3 DEF TermTypes, Known, Coming
  <1>5. obj'[table].proc = p /\ obj'[table].buffer = obj[table].buffer
    BY <1>2, <1>3 DEF TermTypes, SessionRec
  <1>6. table \notin reopened => \A c \in ToSet(obj[table].buffer) : c[1] # p
    BY <1>2, <1>4 DEF OneReader
  <1> QED
    BY <1>3, <1>4, <1>5, <1>6 DEF Shown

LEMMA ProcessShows ==
  ASSUME TermTypes, Structure, Shown, NEW p \in Procs, Exits(p) \/ HangsUp(p)
  PROVE  Shown'
  <1>1. UNCHANGED <<viewer, relay, down, table, thread, reopened, broken, events, obj, reader>>
    BY DEF Exits, HangsUp, Keeps
  <1>2. OpenComes => OpenComes'
    BY <1>1 DEF OpenComes
  <1>3. \A c : (\E q \in Procs : c \in reader[q].chunk) \/ (thread.pc = "snapshot" /\ c \in thread.text) => OnTheWay(c)'
    BY <1>1 DEF OnTheWay
  <1>4. Carries
    BY <1>1, <1>2, <1>3, AppendCarries
  <1> QED
    BY <1>1, <1>4, ShownStays

\* What a reader has read is in its hands until it has published it, and it announces
\* the end before it is done.
LEMMA ReaderShows ==
  ASSUME TermTypes, Structure, Shown, NEW p \in Procs, ReaderThread(p)
  PROVE  Shown'
  <1> DEFINE o == reader[p].obj
  <1>0. ReaderStep(p, o) /\ reader[p].pc # "none" /\ o \in Objs /\ Known /\ OneReader
    BY ReaderIs DEF Structure
  <1>1. UNCHANGED <<viewer, relay, down, table, thread, reopened, broken>>
    BY DEF ReaderThread, ReaderStarts, ReaderLoads, ReaderReads, ReaderPublishes,
       ReaderFails, ReaderWaits, ReaderAnnounces, ReaderReleases, Keeps
  <1>2. /\ \A q \in Procs : q # p => reader'[q] = reader[q]
        /\ \A q \in Objs : obj'[q].proc = obj[q].proc /\ (q # o => obj'[q] = obj[q])
        /\ \/ obj'[o].buffer = obj[o].buffer
           \/ \E c \in Chunks : /\ c \in reader'[p].chunk
                                /\ ToSet(obj'[o].buffer) \subseteq ToSet(obj[o].buffer) \union {c}
    BY <1>0, ReaderLeaves
  <1>3. ASSUME NEW pc, NEW fd, NEW cs, Turns(p, pc, fd, cs)
        PROVE  reader'[p].pc = pc /\ reader'[p].chunk = cs
    BY <1>3 DEF Turns, TermTypes
  <1>r. o = reader[p].obj
    OBVIOUS
  <1> HIDE DEF o
  <1>4. reader'[p].chunk = reader[p].chunk \/ reader[p].chunk = {} \/ (Publishes(p) /\ events' = Append(events, Frame(reader[p].chunk)))
    <2>1. reader[p].pc = "read" => reader[p].chunk = {}
      BY <1>0 DEF Known
    <2>2. CASE Begins(p, o)
      BY <1>3, <2>2 DEF Begins
    <2>3. CASE Loads(p, o)
      BY <1>3, <2>3 DEF Loads
    <2>4. CASE \E c \in Chunks : Reads(p, o, c)
      BY <2>1, <2>4 DEF Reads, At
    <2>5. CASE Publishes(p)
      BY <2>5 DEF Publishes
    <2>6. CASE Fails(p)
      BY <1>3, <2>6 DEF Fails
    <2>7. CASE Waits(p, o)
      BY <1>3, <2>7 DEF Waits
    <2>8. CASE Heralds(p)
      BY <1>3, <2>8 DEF Heralds
    <2>9. CASE Releases(p, o)
      BY <1>3, <2>9 DEF Releases
    <2> QED
      BY <1>0, <2>2, <2>3, <2>4, <2>5, <2>6, <2>7, <2>8, <2>9 DEF ReaderStep
  <1>5. events \in Seq(Notices)
    BY DEF TermTypes
  <1>6. \A c : (\E q \in Procs : c \in reader[q].chunk) \/ (thread.pc = "snapshot" /\ c \in thread.text) => OnTheWay(c)'
    <2>1. ASSUME NEW c, c \in reader[p].chunk PROVE OnTheWay(c)'
      <3>1. CASE reader'[p].chunk = reader[p].chunk
        BY <2>1, <3>1 DEF OnTheWay
      <3>2. CASE events' = Append(events, Frame(reader[p].chunk))
        <4>1. PICK i \in DOMAIN events' : events'[i] = Frame(reader[p].chunk)
          BY <1>5, <3>2, AppendKeeps
        <4>2. c \in events'[i].data
          BY <2>1, <4>1 DEF Frame
        <4> QED
          BY <4>2 DEF OnTheWay
      <3> QED
        BY <1>4, <2>1, <3>1, <3>2
    <2>2. ASSUME NEW c, NEW q \in Procs, q # p, c \in reader[q].chunk PROVE OnTheWay(c)'
      BY <1>2, <2>2 DEF OnTheWay
    <2>3. ASSUME NEW c, thread.pc = "snapshot", c \in thread.text PROVE OnTheWay(c)'
      BY <1>1, <2>3 DEF OnTheWay
    <2> QED
      BY <2>1, <2>2, <2>3
  <1>7. events' = events \/ \E e : events' = Append(events, e)
    BY DEF ReaderThread, ReaderStarts, ReaderLoads, ReaderReads, ReaderPublishes,
       ReaderFails, ReaderWaits, ReaderAnnounces, ReaderReleases
  <1>8. OpenComes => OpenComes'
    BY <1>1 DEF OpenComes
  <1>9. Carries
    BY <1>1, <1>6, <1>7, <1>8, AppendCarries
  <1>10. table # 0 =>
           /\ obj'[table].proc = obj[table].proc
           /\ \A c \in ToSet(obj'[table].buffer) : c \in ToSet(obj[table].buffer) \/ OnTheWay(c)'
    <2> SUFFICES ASSUME table # 0 PROVE obj'[table].proc = obj[table].proc
                                      /\ \A c \in ToSet(obj'[table].buffer) : c \in ToSet(obj[table].buffer) \/ OnTheWay(c)'
      OBVIOUS
    <2>1. table \in Objs
      BY TerminalsAssumption DEF TermTypes
    <2>2. \A c \in reader'[p].chunk : OnTheWay(c)'
      BY DEF OnTheWay
    <2> QED
      BY <1>2, <2>1, <2>2
  <1>11. ASSUME table # 0, table \notin reopened, thread'.pc \notin {"spawn", "started"},
                NEW q \in Procs, q = obj[table].proc, reader'[q].pc \in {"release", "done"}
         PROVE  reader[q].pc \in {"release", "done"} \/ Announced(q)'
    <2>1. CASE q # p
      BY <1>2, <1>11, <2>1
    <2>2. CASE q = p
      <3>1. InStep(p, obj[table].fd) /\ reader[p].obj = table /\ table \in Objs /\ p # 0
        <4>1. table \in Objs /\ p # 0
          BY <1>11, TerminalsAssumption DEF TermTypes
        <4>2. reader[p].obj = table
          BY <1>0, <1>11, <2>2, <4>1 DEF Known
        <4>3. InStep(obj[table].proc, obj[table].fd)
          BY <1>0, <1>1, <1>11, <2>2, <4>1 DEF OneReader
        <4> QED
          BY <1>11, <2>2, <4>1, <4>2, <4>3
      <3>2. o = table /\ obj[o].proc = p
        BY <1>r, <1>11, <2>2, <3>1
      <3>3. CASE Begins(p, o)
        BY <1>3, <1>11, <2>2, <3>1, <3>2, <3>3 DEF Begins, InStep, At
      <3>4. CASE Loads(p, o)
        BY <1>3, <1>11, <2>2, <3>4 DEF Loads
      <3>5. CASE \E c \in Chunks : Reads(p, o, c)
        BY <1>3, <1>11, <2>2, <3>5 DEF Reads
      <3>6. CASE Publishes(p)
        BY <1>3, <1>11, <2>2, <3>6 DEF Publishes
      <3>7. CASE Fails(p)
        BY <1>3, <1>11, <2>2, <3>7 DEF Fails
      <3>8. CASE Waits(p, o)
        BY <1>3, <1>11, <2>2, <3>1, <3>2, <3>8 DEF Waits, InStep, At
      <3>9. CASE Heralds(p)
        <4>1. events' = Append(events, Exited(p))
          BY <3>9 DEF Heralds
        <4>2. \E i \in DOMAIN events' : events'[i] = Exited(p)
          BY <1>5, <4>1, AppendKeeps
        <4>3. Announced(p)'
          BY <4>2, Zenon DEF Announced, Exited
        <4> QED
          BY <2>2, <4>3
      <3>10. CASE Releases(p, o)
        BY <2>2, <3>10 DEF Releases, At
      <3> QED
        BY <1>0, <3>3, <3>4, <3>5, <3>6, <3>7, <3>8, <3>9, <3>10 DEF ReaderStep
    <2> QED
      BY <2>1, <2>2
  <1> QED
    BY <1>1, <1>9, <1>10, <1>11, ShownStays

-----------------------------------------------------------------------------
LEMMA TypesStay ==
  ASSUME TermTypes, TermNext
  PROVE  TermTypes'
  BY BrowserTypes, LinkTypes, OpenTypes, AnswerTypes, SpawnTypes, StartedTypes, UseTypes, CloseTypes,
     ReaderTypes, ProcessTypes DEF TermNext, Browser, TransportThread

LEMMA ShowingStays ==
  ASSUME TermTypes, Structure, Shown, TermNext
  PROVE  Shown'
  BY BrowserShows, ForwardShows, LinkShows, AnswerShows, UseShows, OpenShows, CloseShows, StartedShows,
     ProcessShows, ReaderShows DEF TermNext, Browser, TransportThread

TermInv == TermTypes /\ Structure /\ Shown

\* What a viewer was told of it is attached to.
LEMMA ServedIsInvariant ==
  ASSUME TermInv
  PROVE  ViewersAreServed
  <1>1. TermTypes /\ Known /\ OneReader /\ Shown
    BY DEF TermInv, Structure
  <1>2. (\A g \in Programs : <<"open", g>> \notin ToSet(down)) => ~OpenComes
    BY DEF OpenComes, ToSet
  <1>3. table # 0 => table \in Objs /\ obj[table].proc \in 0..MaxProcs
    BY <1>1, TerminalsAssumption DEF TermTypes, SessionRec
  <1>4. ASSUME NEW v \in Viewers, viewer[v].told # 0, viewer[v].pc # "joined"
        PROVE  viewer[v].pc = "attached"
    BY <1>1, <1>4 DEF TermTypes, ViewerRec, Shown
  <1>5. NothingMissed
    <2> SUFFICES ASSUME ~broken, NoOpenUnderWay, table # 0, table \notin reopened,
                        NEW v \in Viewers, viewer[v].told # 0, viewer[v].told = obj[table].proc,
                        NEW c \in ToSet(obj[table].buffer), c[1] = obj[table].proc
                 PROVE  c \in viewer[v].seen \union UnderWay
      BY DEF NothingMissed
    <2>1. /\ viewer[v].pc = "attached" /\ ~OpenComes
          /\ thread.pc \notin {"reply", "spawn", "started"}
      BY <1>2, <1>4 DEF NoOpenUnderWay
    <2>2. c \in viewer[v].seen \/ OnTheWay(c)
      BY <1>1, <2>1 DEF Shown
    <2>3. OnTheWay(c) => c \in UnderWay
      <3>1. ASSUME NEW i \in DOMAIN events, c \in events[i].data PROVE c \in UnderWay
        BY <3>1 DEF UnderWay
      <3>2. ASSUME NEW p \in Procs, c \in reader[p].chunk PROVE c \in UnderWay
        BY <3>2 DEF UnderWay
      <3>3. ASSUME thread.pc = "snapshot", c \in thread.text PROVE c \in UnderWay
        <4> DEFINE A == UNION ({events[i].data : i \in DOMAIN events} \union {reader[p].chunk : p \in Procs})
        <4>1. UnderWay = A \union (IF thread.pc = "snapshot" THEN thread.text ELSE {})
          BY Zenon DEF UnderWay
        <4> HIDE DEF A
        <4> QED
          BY <3>3, <4>1
      <3> QED
        BY <3>1, <3>2, <3>3 DEF OnTheWay
    <2> QED
      BY <2>2, <2>3
  <1>6. OpenTakesInput
    <2> SUFFICES ASSUME table # 0, thread = Resting, table \notin reopened, obj[table].proc # 0,
                        process[obj[table].proc].state = "running"
                 PROVE  obj[table].fd = obj[table].proc
      BY DEF OpenTakesInput
    <2>1. InStep(obj[table].proc, obj[table].fd)
      BY <1>1, RestingIs DEF OneReader
    <2> QED
      BY <2>1 DEF InStep
  <1>7. EndIsHeard
    <2> SUFFICES ASSUME NEW p \in Procs, At(p, "done"), ~broken, thread = Resting, down = <<>>,
                        \A v \in Viewers : viewer[v].pc # "joined",
                        table = reader[p].obj, obj[table].proc = p, table \notin reopened,
                        NEW v \in Viewers, viewer[v].told = p
                 PROVE  <<p, 0>> \in viewer[v].seen \/ Announced(p)
      BY DEF EndIsHeard, Announced
    <2>1. p # 0 /\ thread.pc = "idle" /\ ~OpenComes
      BY RestingIs, TerminalsAssumption DEF OpenComes
    <2>2. viewer[v].pc = "attached"
      BY <1>4, <2>1
    <2>3. table # 0 /\ reader[p].pc = "done"
      BY <1>1 DEF At, TermTypes
    <2> QED
      BY <1>1, <2>1, <2>2, <2>3 DEF Shown
  <1>8. TermTypeOK
    BY <1>1, TypesOK
  <1> QED
    BY <1>5, <1>6, <1>7, <1>8 DEF ViewersAreServed

\* The viewers of one terminal are shown and told what is right, for any number of
\* viewers, processes and chunks of output, however their comings and goings meet the
\* reader threads and the kernel (pty_manager.py).
THEOREM ViewersServed == TermSpec => []ViewersAreServed
  <1>1. TermInit => TermInv
    <2> SUFFICES ASSUME TermInit PROVE TermInv
      OBVIOUS
    <2>1. table = 0 /\ relay /\ ~broken /\ \A v \in Viewers : viewer[v].told = 0
      BY DEF TermInit, Gone
    <2> QED
      BY <2>1, InitTypes, StructureInit DEF TermInv, Shown
  <1>2. TermInv /\ [TermNext]_tm_vars => TermInv'
    <2> SUFFICES ASSUME TermInv, [TermNext]_tm_vars PROVE TermInv'
      OBVIOUS
    <2>1. CASE TermNext
      BY <2>1, TypesStay, StructureStays, ShowingStays DEF TermInv
    <2>2. CASE UNCHANGED tm_vars
      <3>1. UNCHANGED <<viewer, relay, down, events, table, obj, process, reader, thread, reopened, left, broken>>
        BY <2>2 DEF tm_vars
      <3>2. TermTypes'
        BY <3>1, SameTypes DEF TermInv, TermTypes
      <3>3. Structure'
        BY <3>1, OthersKeepStructure DEF TermInv
      <3>4. Carries
        <4>1. /\ OpenComes <=> OpenComes'
              /\ \A c : OnTheWay(c) <=> OnTheWay(c)'
          BY <3>1 DEF OpenComes, OnTheWay
        <4>2. \A p \in Procs : Announced(p) <=> Announced(p)'
          BY <3>1 DEF Announced, Exited
        <4> QED
          BY <3>1, <4>1, <4>2 DEF Carries, TermInv, Shown
      <3> QED
        BY <3>1, <3>2, <3>3, <3>4, ShownStays DEF TermInv
    <2> QED
      BY <2>1, <2>2
  <1>3. TermInv => ViewersAreServed
    BY ServedIsInvariant
  <1> QED
    BY <1>1, <1>2, <1>3, PTL DEF TermSpec
=============================================================================
