----------------------------- MODULE GoalControl -----------------------------
(***************************************************************************)
(* The GDA control plane of a project: the run spec a project was compiled *)
(* to, the reduced state entries, the commitments agents propose and the   *)
(* control step authorizes, the executions and observations agents report. *)
(* Its services run one at a time (sync_to_async, thread_sensitive), but   *)
(* every row they write is committed on its own: a call that raises or     *)
(* dies in the middle leaves what it has written.                          *)
(***************************************************************************)
EXTENDS Naturals, Sequences, FiniteSets, Functions

CONSTANTS
    Versions,     \* state version ids; run_control_step names commitments after them
    Dimensions,
    Objectives,   \* sets of goals: [explicit, mapped] sets of conditions
    Facts,        \* ProjectState.facts, functions from Dimensions to values
    Boundaries,   \* [caps, strict]: capability ids and reject_expired of the policy
    Proposals,    \* [cap, needs, expects]: what the commitment requires of a report
    Reports,      \* [inv, com, status, done, obs]: the calls agents make; an
                  \* observation is [id, kind, at, expires]
    Workers,
    MaxClock       \* bound: time

VARIABLES
    plan,         \* ProjectState
    entries,      \* ProjectStateEntry by dimension
    commitments,  \* ProjectCommitment by id
    evidence,     \* ProjectObservation by id
    executions,   \* ProjectExecution by invocation id
    assigned,     \* ProjectCommitmentAssignment by commitment
    answers,      \* history: reports answered without an error
    unfinished,   \* history: reports that broke off, with the observations written
    clock

gc_vars == <<plan, entries, commitments, evidence, executions, assigned, answers, unfinished, clock>>

NotGiven == 0
Absent == "absent"

\* An id that is given is no missing id, no status is the word for none, and what is
\* required of an observation is a kind it can have.
ASSUME GoalConstants ==
    /\ Versions # {} /\ NotGiven \notin Versions
    /\ Proposals # {} /\ \A p \in Proposals : p.needs # Absent
    /\ \A r \in Reports : /\ r.com \in Versions /\ r.status # Absent
                          /\ r.obs \in Seq(Range(r.obs))

NoEntry == 0
Values == {1, 2}
Terminals == {"satisfied", "failed", "canceled"}
NoPlan == [status |-> Absent, objective |-> {}, boundary |-> [caps |-> {}, strict |-> FALSE],
           version |-> NotGiven, facts |-> [d \in Dimensions |-> NoEntry]]
NoCommitment == [status |-> Absent, wants |-> CHOOSE p \in Proposals : TRUE,
                 opened |-> NotGiven, closed |-> NotGiven, reason |-> ""]
NoObservation == [kind |-> Absent, at |-> NotGiven, expires |-> NotGiven]
NoExecution == [status |-> Absent, com |-> NotGiven, done |-> NotGiven]
Nobody == "nobody"

Observations == UNION {Range(r.obs) : r \in Reports}
ObservationIds == {o.id : o \in Observations}
Invocations == {r.inv : r \in Reports}
Exists(c) == commitments[c].status # Absent

GoalInit ==
    /\ plan = NoPlan
    /\ entries = [d \in Dimensions |-> NoEntry]
    /\ commitments = [c \in Versions |-> NoCommitment]
    /\ evidence = [o \in ObservationIds |-> NoObservation]
    /\ executions = [i \in Invocations |-> NoExecution]
    /\ assigned = [c \in Versions |-> Nobody]
    /\ answers = {} /\ unfinished = {} /\ clock = 1

-----------------------------------------------------------------------------
\* State: state.py, reduction.py

\* compile_run_spec_for_project, persist_run_spec_state: the entries stay.
PersistRunSpec ==
    /\ \E goals \in Objectives, b \in Boundaries, v \in Versions, facts \in Facts :
         plan' = [status |-> "ready", objective |-> goals, boundary |-> b, version |-> v,
                  facts |-> facts]
    /\ UNCHANGED <<entries, commitments, evidence, executions, assigned, answers, unfinished, clock>>

\* apply_project_state_delta, one transaction: removes first, then upserts.
Reduced(entry, removes, value) ==
    IF value # NoEntry THEN value ELSE IF removes THEN NoEntry ELSE entry
ApplyStateDelta ==
    /\ \E d \in Dimensions, removes \in BOOLEAN, value \in Values \cup {NoEntry}, v \in Versions :
         /\ entries' = [entries EXCEPT ![d] = Reduced(@, removes, value)]
         /\ plan' = IF plan = NoPlan THEN plan ELSE [plan EXCEPT !.version = v]
    /\ UNCHANGED <<commitments, evidence, executions, assigned, answers, unfinished, clock>>

ClockTicks ==
    /\ clock < MaxClock
    /\ clock' = clock + 1
    /\ UNCHANGED <<plan, entries, commitments, evidence, executions, assigned, answers, unfinished>>

-----------------------------------------------------------------------------
\* Commitments: commitments.py, control_step.py, assignment.py

Proposed(p, opened) ==
    [status |-> "proposed", wants |-> p, opened |-> opened, closed |-> NotGiven, reason |-> ""]

\* _commitments_equivalent
Equivalent(record, p, opened) ==
    /\ record.status \in {"proposed", "active"}
    /\ record.wants = p /\ record.opened = opened

\* persist_commitment_proposal: absent or equivalent, else a conflict.
MayPersist(c, p, opened) ==
    plan # NoPlan /\ (~Exists(c) \/ Equivalent(commitments[c], p, opened))
Persisted_(c, p, opened) == IF Exists(c) THEN commitments[c] ELSE Proposed(p, opened)

\* authorize_commitment
Authorized(record) ==
    /\ plan # NoPlan
    /\ plan.boundary.caps # {} => record.wants.cap \in plan.boundary.caps
    /\ record.status \notin Terminals
Activated(record, at) ==
    [record EXCEPT !.status = "active",
                   !.opened = IF record.status # "active" /\ @ = NotGiven THEN at ELSE @]

\* gda_commitment_propose
Propose(c, p) ==
    /\ MayPersist(c, p, NotGiven)
    /\ commitments' = [commitments EXCEPT ![c] = Persisted_(c, p, NotGiven)]
    /\ UNCHANGED <<plan, entries, evidence, executions, assigned, answers, unfinished, clock>>

Authorize(c) ==
    /\ Exists(c) /\ Authorized(commitments[c])
    /\ \E at \in {NotGiven, 1} : commitments' = [commitments EXCEPT ![c] = Activated(@, at)]
    /\ UNCHANGED <<plan, entries, evidence, executions, assigned, answers, unfinished, clock>>

\* run_control_step: the proposal stays when it is not authorized.
RunControlStep(p, opened) ==
    LET c == plan.version
        record == Persisted_(c, p, opened)
    IN /\ plan # NoPlan /\ MayPersist(c, p, opened)
       /\ commitments' = [commitments EXCEPT ![c] =
                            IF Authorized(record) THEN Activated(record, opened) ELSE record]
       /\ UNCHANGED <<plan, entries, evidence, executions, assigned, answers, unfinished, clock>>

\* assign_project_commitment
Assign(c, w) ==
    /\ Exists(c)
    /\ assigned' = [assigned EXCEPT ![c] = w]
    /\ UNCHANGED <<plan, entries, commitments, evidence, executions, answers, unfinished, clock>>

\* seed_gda_demo without --reset: compile, propose, authorize and assign, under
\* fixed ids.  A commitment that is in the way stops it after the plan is replaced.
DemoId == CHOOSE v \in Versions : TRUE
SeedDemo(goals, p, w) ==
    /\ plan' = [status |-> "running", objective |-> goals, version |-> DemoId,
                boundary |-> [caps |-> {p.cap}, strict |-> FALSE], facts |-> NoPlan.facts]
    /\ IF ~Exists(DemoId) \/ Equivalent(commitments[DemoId], p, 1)
       THEN /\ commitments' = [commitments EXCEPT ![DemoId] = Activated(Persisted_(DemoId, p, 1), 1)]
            /\ assigned' = [assigned EXCEPT ![DemoId] = w]
       ELSE UNCHANGED <<commitments, assigned>>
    /\ UNCHANGED <<entries, evidence, executions, answers, unfinished, clock>>

\* ALLOWED_COMMITMENT_TRANSITIONS
MayBecome(from, to) ==
    \/ from = to
    \/ from = "proposed" /\ to \in {"active", "canceled"}
    \/ from = "active" /\ to \in Terminals

\* update_commitment_status
MayClose(record, status, reason, at) ==
    /\ MayBecome(record.status, status)
    /\ record.closed = NotGiven \/ at = NotGiven \/ record.closed = at
    /\ record.reason \in {"", reason}
Closed(record, status, reason, at) ==
    [record EXCEPT !.status = status, !.reason = reason,
                   !.closed = IF @ = NotGiven THEN at ELSE @]

-----------------------------------------------------------------------------
\* Reports: admission.py, execution.py, runtime_completion.py, mcp_surface.py

\* _build_agent_observation: the time of the call when none is given.
Row(o) == [kind |-> o.kind, at |-> IF o.at = NotGiven THEN clock ELSE o.at,
           expires |-> o.expires]

\* admit_observation: the policy compares an observation with its own stamp.
PolicyAdmits(o) ==
    ~(plan.boundary.strict /\ o.expires # NotGiven /\ o.expires <= Row(o).at)

\* Mutant: an id that is already there is overwritten.
MayAdmit_Overwrite(o) == PolicyAdmits(o)

\* admit_project_observation: absent or equivalent, else a conflict; so are two
\* observations of a report under one id.
MayAdmit(o) == PolicyAdmits(o) /\ evidence[o.id] \in {NoObservation, Row(o)}
Admit(observations) ==
    evidence' = [id \in ObservationIds |->
                   IF \E o \in observations : o.id = id
                   THEN Row(CHOOSE o \in observations : o.id = id) ELSE evidence[id]]

AdmitObservation(o) ==
    /\ MayAdmit(o) /\ Admit({o})
    /\ UNCHANGED <<plan, entries, commitments, executions, assigned, answers, unfinished, clock>>

Execution(r) == [status |-> r.status, com |-> IF Exists(r.com) THEN r.com ELSE NotGiven,
                 done |-> r.done]

\* record_execution_outcome: absent or equivalent, else a conflict.
MayRecord(r) == executions[r.inv] \in {NoExecution, Execution(r)}

\* Mutant: an expected outcome is only looked at when it is ok.
Verdict_AnyOutcome(wants, r) ==
    IF wants.needs # "none" /\ \A i \in DOMAIN r.obs : r.obs[i].kind # wants.needs
    THEN <<"failed", "missing_observation">>
    ELSE <<"satisfied", "completed">>

\* _resolve_commitment_transition; expects: "none", "any" (required, without a
\* status) or the status that is required.
Verdict(wants, r) ==
    IF wants.expects \notin {"none", "any", r.status} THEN <<"failed", "outcome_mismatch">>
    ELSE IF wants.expects = "none" /\ r.status # "ok" THEN <<"failed", "execution_status">>
    ELSE IF wants.needs # "none" /\ \A i \in DOMAIN r.obs : r.obs[i].kind # wants.needs
    THEN <<"failed", "missing_observation">>
    ELSE <<"satisfied", "completed">>

Taken(r, n) == {r.obs[i] : i \in 1..n}
RecordUpTo(r, n) ==
    /\ MayRecord(r) /\ \A o \in Taken(r, n) : MayAdmit(o)
    /\ \A o, p \in Taken(r, n) : o.id = p.id => Row(o) = Row(p)
    /\ executions' = [executions EXCEPT ![r.inv] = Execution(r)]
    /\ Admit(Taken(r, n))

\* process_runtime_completion raises at a conflict, or its process dies, after n
\* observations.
ReportBreaksOff(r, n) ==
    /\ RecordUpTo(r, n)
    /\ unfinished' = unfinished \cup {<<r, n>>}
    /\ UNCHANGED <<plan, entries, commitments, assigned, answers, clock>>

\* gda_execution_report
ReportExecution(r) ==
    LET v == Verdict(commitments[r.com].wants, r) IN
    /\ RecordUpTo(r, Len(r.obs))
    /\ IF Exists(r.com)
       THEN /\ MayClose(commitments[r.com], v[1], v[2], r.done)
            /\ commitments' = [commitments EXCEPT ![r.com] = Closed(@, v[1], v[2], r.done)]
       ELSE commitments' = commitments
    /\ answers' = answers \cup {r}
    /\ UNCHANGED <<plan, entries, assigned, unfinished, clock>>

GoalNext ==
    \/ PersistRunSpec \/ ApplyStateDelta \/ ClockTicks
    \/ \E c \in Versions : Authorize(c)
    \/ \E c \in Versions, p \in Proposals : Propose(c, p)
    \/ \E p \in Proposals, opened \in {NotGiven, 1} : RunControlStep(p, opened)
    \/ \E c \in Versions, w \in Workers : Assign(c, w)
    \/ \E goals \in Objectives, p \in Proposals, w \in Workers : SeedDemo(goals, p, w)
    \/ \E o \in Observations : AdmitObservation(o)
    \/ \E r \in Reports : ReportExecution(r) \/ \E n \in 0..Len(r.obs) : ReportBreaksOff(r, n)

GoalSpec == GoalInit /\ [][GoalNext]_gc_vars

-----------------------------------------------------------------------------
\* Progress: evaluation.py, context_envelope.py

\* _state_value: the facts of the run spec where there is no entry.
Value(d) == IF entries[d] # NoEntry THEN entries[d] ELSE plan.facts[d]

Holds(cond) == IF cond.op = "eq" THEN Value(cond.dim) = cond.value
               ELSE Value(cond.dim) >= cond.value

\* evaluate_goal
GoalStatus(conditions) ==
    IF \E c \in conditions : Value(c.dim) # NoEntry /\ ~Holds(c) THEN "unsatisfied"
    ELSE IF \E c \in conditions : Value(c.dim) = NoEntry THEN "unknown" ELSE "satisfied"

\* Goal.__post_init__, as compiled; _objective_from_mapping rebuilds a goal
\* without its explicit conditions.
Compiled(goal) == IF goal.explicit # {} THEN goal.explicit ELSE goal.mapped
Rebuilt(goal) == goal.mapped

\* evaluate_objective, of the goals of a context envelope
Progress ==
    LET statuses == {GoalStatus(Rebuilt(g)) : g \in plan.objective} IN
    CASE statuses = {} -> "idle"
      [] "unsatisfied" \in statuses -> "in_progress"
      [] "unsatisfied" \notin statuses /\ "unknown" \in statuses -> "unknown"
      [] OTHER -> "satisfied"

-----------------------------------------------------------------------------
\* Properties

GoalTypeOK ==
    /\ plan.status \in {Absent, "ready", "running"} /\ plan.objective \in Objectives \cup {{}}
    /\ entries \in [Dimensions -> Values \cup {NoEntry}]
    /\ \A c \in Versions : commitments[c].status \in Terminals \cup {Absent, "proposed", "active"}
    /\ \A i \in Invocations : LET c == executions[i].com IN c # NotGiven => Exists(c)
    /\ answers \subseteq Reports /\ unfinished \subseteq Reports \X Nat
    /\ assigned \in [Versions -> Workers \cup {Nobody}]

\* A commitment is satisfied by a recorded execution that is what it expects,
\* with the observation it requires among the admitted ones, whatever reports
\* broke off before (process_runtime_completion).
SatisfiedForCause ==
    \A c \in Versions : commitments[c].status = "satisfied" =>
        LET wants == commitments[c].wants IN
        /\ \E i \in Invocations : /\ executions[i].com = c
                                  /\ \/ executions[i].status = "ok" /\ wants.expects = "none"
                                     \/ wants.expects \in {"any", executions[i].status}
        /\ wants.needs # "none" => \E o \in ObservationIds : evidence[o].kind = wants.needs

\* A report that was answered has closed its commitment if the commitment was
\* there when the execution was recorded.
AnsweredIsClosed ==
    \A r \in answers : executions[r.inv].com = r.com => commitments[r.com].status \in Terminals

\* A report that broke off can be sent again: nobody has changed the execution and
\* the observations it wrote, and they are what the retry will write.  Excepted are
\* an observation without a time of its own, and an execution whose commitment was
\* proposed meanwhile: either is a conflict for good.
Appeared(r) == executions[r.inv].com = NotGiven /\ Exists(r.com)
BrokenOffCanBeRetried ==
    \A b \in unfinished : LET r == b[1] IN
        /\ executions[r.inv] = Execution(r) \/ Appeared(r)
        /\ \A o \in Taken(r, b[2]) : o.at # NotGiven => evidence[o.id] = Row(o)

\* A closed commitment stays as it was closed; only a time that was not given
\* may be added.
ClosedIsFinal ==
    [][\A c \in Versions : commitments[c].status \in Terminals =>
         /\ commitments'[c].status = commitments[c].status
         /\ commitments'[c].reason = commitments[c].reason
         /\ commitments[c].closed \in {NotGiven, commitments'[c].closed}]_gc_vars

\* Nobody works outside the boundary: a commitment becomes active only while its
\* capability is in the boundary of the plan.
ActiveWithinBoundary ==
    [][\A c \in Versions : commitments'[c].status = "active" /\ commitments[c].status # "active"
         => plan'.boundary.caps = {} \/ commitments'[c].wants.cap \in plan'.boundary.caps]_gc_vars

\* Evidence is never rewritten.
EvidenceIsKept ==
    [][\A o \in ObservationIds : evidence[o] \in {NoObservation, evidence'[o]}]_gc_vars

\* Goals given as a desired state: the objective is satisfied exactly when all
\* their conditions hold, and no missing dimension is taken for an answer.
ProgressIsMechanical ==
    plan.objective # {} /\ (\A g \in plan.objective : g.explicit = {}) =>
        LET conditions == UNION {g.mapped : g \in plan.objective} IN
        /\ (Progress = "satisfied") = \A c \in conditions : Value(c.dim) # NoEntry /\ Holds(c)
        /\ (Progress = "in_progress") = \E c \in conditions : Value(c.dim) # NoEntry /\ ~Holds(c)

\* What the control plane says of commitments and goals has its cause in what was
\* recorded, and what a report wrote before it broke off does not stand in the way
\* of its retry (runtime_completion.py, execution.py, admission.py, evaluation.py).
WorkIsAccountable ==
  /\ GoalTypeOK /\ SatisfiedForCause /\ AnsweredIsClosed
  /\ BrokenOffCanBeRetried /\ ProgressIsMechanical

\* No step takes back what was recorded: a closed commitment, an admitted
\* observation, and none authorizes what the boundary forbids.
CommitmentsKeepFaith == ClosedIsFinal /\ ActiveWithinBoundary /\ EvidenceIsKept
=============================================================================
