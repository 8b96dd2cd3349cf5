------------------------------ MODULE MCRecords ------------------------------
(* Parts of the system that share no state the properties are about: the    *)
(* GDA control plane, the configuration of a machine, the evidence about a  *)
(* task, and the terminal.  A behaviour runs one aspect of one part, chosen *)
(* in its initial state.                                                    *)
EXTENDS GoalControl, MachineConfig, TaskEvidence, Terminals, TLC

VARIABLE part

SameViewers == Permutations(Viewers)

Parts == {"progress", "reports", "commitments", "config", "skills", "secrets", "evidence",
          "log", "terminal"}

\* Two objectives: goals given by a desired state, and one by a condition.
Cond(d, op, v) == [dim |-> d, op |-> op, value |-> v]
Goal(e, m) == [explicit |-> e, mapped |-> m]
DesiredState == {Goal({}, {Cond("d1", "eq", 2)}), Goal({}, {Cond("d2", "eq", 1)})}
MCObjectives == {DesiredState, {Goal({Cond("d1", "gte", 2)}, {})}}
NoFacts == [d \in Dimensions |-> NoEntry]
MCFacts == {NoFacts, [NoFacts EXCEPT !["d1"] = 2]}
MCBoundaries == {[caps |-> {"write"}, strict |-> TRUE], [caps |-> {}, strict |-> FALSE]}
MCProposals == {[cap |-> "write", needs |-> "changed", expects |-> "ok"],
                [cap |-> "check", needs |-> "none", expects |-> "none"]}

\* A report with what the proposals ask for, the same call with another result,
\* and a failure without a time.
Obs(id, k, at, ex) == [id |-> id, kind |-> k, at |-> at, expires |-> ex]
Rep(i, c, s, d, obs) == [inv |-> i, com |-> c, status |-> s, done |-> d, obs |-> obs]
MCReports == {Rep("i1", 1, "ok", 1, <<Obs("o1", "changed", 1, 2), Obs("o2", "seen", 0, 0)>>),
              Rep("i1", 1, "error", 1, <<Obs("o1", "changed", 1, 2)>>),
              Rep("i2", 1, "error", 0, <<>>)}

Demo == \E p \in Proposals, w \in Workers : SeedDemo(DesiredState, p, w)
NewPlan == PersistRunSpec /\ plan'.objective = DesiredState /\ plan'.facts = NoFacts

GoalPart ==
  \/ part = "progress" /\ (PersistRunSpec \/ ApplyStateDelta)
  \/ part = "reports" /\ \/ Demo
                         \/ NewPlan /\ plan'.version = 1
                         \/ GoalNext /\ UNCHANGED <<plan, entries, assigned, commitments[2]>>
  \/ part = "commitments" /\ \/ Demo \/ NewPlan
                             \/ GoalNext /\ UNCHANGED <<plan, entries, evidence, executions, clock>>

ConfigPart ==
  \/ part \in {"config", "skills", "secrets"} /\ Deploy /\ (part = "skills" => spent'.deploys < 2)
  \/ /\ part = "config"
     /\ \E c \in Calls : ConfigCall(c) /\ \A d \in Calls : call'[d].new.tags = {}
     /\ spent'.calls <= 2
  \/ part = "skills" /\ \E c \in Calls : SkillCall(c) \/ (ConfigCall(c) /\ call'[c].new.role = 1)
  \/ part = "secrets" /\ (ChangeAccountSecret \/ \E c \in Calls : SecretCall(c))

EvidencePart ==
  \/ part = "evidence" /\ EvidenceNext /\ UNCHANGED lines
  \/ part = "log" /\ LogLine

\* Viewers that share the terminal, output and a missing claude, a broken link.
Visits(o, c, d, cl) == [ops |-> o, chunks |-> c, drops |-> d, claude |-> cl]
SharedVisits == {Visits(2, 1, 0, FALSE), Visits(2, 0, 1, TRUE)}

RecordsInit ==
  /\ GoalInit /\ ConfigInit /\ EvidenceInit /\ TermInit
  /\ part \in Parts
  /\ part # "terminal" => left = Visits(2, 0, 1, TRUE)
  /\ part # "config" => project = [k \in Keys |-> None]
RecordsNext ==
  /\ UNCHANGED part
  /\ \/ UNCHANGED <<mc_vars, ev_vars, tm_vars>> /\ GoalPart
     \/ UNCHANGED <<gc_vars, ev_vars, tm_vars>> /\ ConfigPart
     \/ UNCHANGED <<gc_vars, mc_vars, tm_vars>> /\ EvidencePart
     \/ part = "terminal" /\ UNCHANGED <<gc_vars, mc_vars, ev_vars>> /\ TermNext
\* What tells states apart: the variables of the part that moves.
Moving == <<part, CASE part \in {"progress", "reports", "commitments"} -> gc_vars
                    [] part \in {"config", "skills", "secrets"} -> mc_vars
                    [] part \in {"evidence", "log"} -> ev_vars
                    [] part = "terminal" -> tm_vars>>

RecordsSpec ==
  RecordsInit /\ [][RecordsNext]_<<gc_vars, mc_vars, ev_vars, tm_vars, part>>
=============================================================================
