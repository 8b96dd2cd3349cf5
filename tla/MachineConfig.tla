---------------------------- MODULE MachineConfig ----------------------------
(***************************************************************************)
(* What a user configures about an agent, and the copies of it in the      *)
(* machine of the agent: CLAUDE.md, .mcp.json, the secrets file and the    *)
(* skill directories.  A mutation loads the rows, saves some fields and    *)
(* writes files from the copies it holds; a deployment does the same in    *)
(* the background.  They interleave at every await.                        *)
(***************************************************************************)
EXTENDS Naturals, FiniteSets

CONSTANTS
    Calls,      \* mutations in flight at a time
    Keys,       \* of secrets
    McpKey,     \* the key the MCP server declares under "secrets"
    Skills,     \* skill names, as sanitized
    Tags,
    MaxCalls,   \* bound: mutations
    MaxDeploys  \* bound: deployments

VARIABLES
    row,      \* Agent: role, mcp (the server is configured), text (instructions), tags
    skills,   \* Skill rows by name
    project,  \* ProjectSecret by key: 0 absent, 1 for this agent, 2 scoped to others
    account,  \* AccountSecret: keys
    phase,    \* of the deployment
    boot,     \* what the deployment has read: row and secrets
    disk,     \* the files
    call,     \* the mutations in flight
    raced,    \* two calls, or a call and a deployment, overlapped
    spent     \* calls and deployments made

mc_vars == <<row, skills, project, account, phase, boot, disk, call, raced, spent>>

None == 0
NoSkill == [tags |-> {}, text |-> None]
Idle == [kind |-> "none", step |-> "idle", new |-> row, old |-> row, name |-> None,
         skill |-> NoSkill, was |-> FALSE]
Doc(r) == [role |-> r.role, mcp |-> r.mcp, text |-> r.text]

\* resolve_agent_secrets: the project's value over the account's.
Merged == [k \in Keys |-> IF project[k] = 1 THEN 1 ELSE IF k \in account THEN 2 ELSE None]
Empty(secrets) == \A k \in Keys : secrets[k] = None
Matches(skill, tags) == skill # NoSkill /\ ("all" \in skill.tags \/ skill.tags \cap tags # {})
Running == phase = "up"
Deploying == phase \in {"fetched", "read", "written"}
InFlight == \E c \in Calls : call[c].step # "idle"

ConfigInit ==
    /\ row = [role |-> 1, mcp |-> TRUE, text |-> 1, tags |-> {}]
    /\ skills = [n \in Skills |-> NoSkill]
    /\ project \in {[k \in Keys |-> None], [k \in Keys |-> IF k = McpKey THEN 1 ELSE None]}
    /\ account = {}
    /\ phase = "down" /\ boot = [row |-> row, secrets |-> [k \in Keys |-> None]]
    /\ disk = [claude |-> Doc(row), mcp |-> FALSE, env |-> [k \in Keys |-> None],
               secrets |-> [k \in Keys |-> None], dirs |-> [n \in Skills |-> None]]
    /\ call = [c \in Calls |-> Idle]
    /\ raced = FALSE /\ spent = [calls |-> 0, deploys |-> 0]

-----------------------------------------------------------------------------
\* Deployment: lifecycle.py _provision_agent, provision.py

\* create_agent and hard_restart_agent resolve the secrets before the task.
DeployStart ==
    /\ ~Deploying /\ spent.deploys < MaxDeploys
    /\ spent' = [spent EXCEPT !.deploys = @ + 1]
    /\ phase' = "fetched" /\ boot' = [boot EXCEPT !.secrets = Merged]
    /\ raced' = InFlight
    /\ UNCHANGED <<row, skills, project, account, disk, call>>

\* _load_provision_inputs, at the write boundary
DeployRead ==
    /\ phase = "fetched"
    /\ phase' = "read" /\ boot' = [boot EXCEPT !.row = row]
    /\ UNCHANGED <<row, skills, project, account, disk, call, raced, spent>>

\* The env block of the server: its declared key, from the secrets at hand.
McpEnv(mcp, secrets) == [k \in Keys |-> IF mcp /\ k = McpKey THEN secrets[k] ELSE None]

\* Mutant: the skills are the ones of the first boot.
DeployWrite_NoSkills ==
    /\ phase = "read" /\ phase' = "written"
    /\ disk' = [disk EXCEPT !.claude = Doc(boot.row), !.mcp = boot.row.mcp,
                            !.env = McpEnv(boot.row.mcp, boot.secrets),
                            !.secrets = boot.secrets]
    /\ UNCHANGED <<row, skills, project, account, boot, call, raced, spent>>

\* write_secrets_env_document, provision_workspace; directories of skills that no
\* longer match stay.
DeployWrite ==
    /\ phase = "read" /\ phase' = "written"
    /\ disk' = [disk EXCEPT !.claude = Doc(boot.row), !.mcp = boot.row.mcp,
                            !.env = McpEnv(boot.row.mcp, boot.secrets),
                            !.secrets = boot.secrets,
                            !.dirs = [n \in Skills |->
                               IF Matches(skills[n], boot.row.tags) THEN skills[n].text ELSE @[n]]]
    /\ UNCHANGED <<row, skills, project, account, boot, call, raced, spent>>

\* The runtime connects; or the agent is stopped.
ChangePhase ==
    /\ \/ phase = "written" /\ phase' = "up"
       \/ phase = "up" /\ phase' = "down"
    /\ UNCHANGED <<row, skills, project, account, boot, disk, call, raced, spent>>

-----------------------------------------------------------------------------
\* The configuration of the agent: mutations.py

Begin(c, job) ==
    /\ call[c].step = "idle" /\ spent.calls < MaxCalls
    /\ call' = [call EXCEPT ![c] = job]
    /\ raced' = (raced \/ InFlight \/ Deploying)
    /\ spent' = [spent EXCEPT !.calls = @ + 1]

Becomes(c, step) ==
    call' = [call EXCEPT ![c] = IF step = "idle" THEN Idle ELSE [@ EXCEPT !.step = step]]

\* authorize_agent loads the row; the sandbox is the one of that row.
LoadAgent(c) ==
    /\ \/ \E text \in {1, 2} : text # row.text /\
            Begin(c, [Idle EXCEPT !.kind = "instructions", !.step = "save",
                                  !.new = [row EXCEPT !.text = text],
                                  !.was = phase \in {"written", "up"}])
       \/ \E new \in {[row EXCEPT !.role = 3 - @], [row EXCEPT !.mcp = ~@]}
                       \cup {[row EXCEPT !.tags = tags] : tags \in SUBSET Tags} :
            new # row /\ Begin(c, [Idle EXCEPT !.kind = "config", !.step = "save", !.new = new])
    /\ UNCHANGED <<row, skills, project, account, phase, boot, disk>>

\* Mutant: every call saves the whole row.
SaveAgent_AllFields(c) ==
    LET job == call[c] IN
    /\ job.step = "save"
    /\ IF job.kind = "instructions"
       THEN row' = job.new /\ Becomes(c, IF job.was THEN "write" ELSE "idle")
       ELSE row' = job.new /\ Becomes(c, "write")
    /\ UNCHANGED <<skills, project, account, phase, boot, disk, raced, spent>>

\* asave(update_fields): role and servers always, tags when they are given.
SaveAgent(c) ==
    LET job == call[c] IN
    /\ job.step = "save"
    /\ IF job.kind = "instructions"
       THEN /\ row' = [row EXCEPT !.text = job.new.text]
            /\ Becomes(c, IF job.was THEN "write" ELSE "idle")
       ELSE /\ row' = [row EXCEPT !.role = job.new.role, !.mcp = job.new.mcp,
                         !.tags = IF job.new.tags # job.old.tags THEN job.new.tags ELSE @]
            /\ Becomes(c, "write")
    /\ UNCHANGED <<skills, project, account, phase, boot, disk, raced, spent>>

\* CLAUDE.md, and .mcp.json without any secret, from the copy of the call.
WriteAgent(c) ==
    LET job == call[c] IN
    /\ job.step = "write"
    /\ disk' = IF job.kind = "instructions" THEN [disk EXCEPT !.claude = Doc(job.new)]
               ELSE IF Doc(job.new) # Doc(job.old)
               THEN [disk EXCEPT !.claude = Doc(job.new), !.mcp = job.new.mcp,
                                 !.env = McpEnv(FALSE, Merged)]
               ELSE disk
    /\ Becomes(c, IF job.new.tags # job.old.tags THEN "skills" ELSE "idle")
    /\ UNCHANGED <<row, skills, project, account, phase, boot, raced, spent>>

\* Skills gained and lost by the tags of the call.
WriteSkills(c) ==
    LET job == call[c] IN
    /\ job.step = "skills"
    /\ disk' = [disk EXCEPT !.dirs = [n \in Skills |->
                  LET now == Matches(skills[n], job.new.tags)
                      before == Matches(skills[n], job.old.tags)
                  IN IF now /\ ~before THEN skills[n].text
                     ELSE IF before /\ ~now THEN None ELSE @[n]]]
    /\ Becomes(c, "idle")
    /\ UNCHANGED <<row, skills, project, account, phase, boot, raced, spent>>

-----------------------------------------------------------------------------
\* Skills: create_skill, update_skill, delete_skill, push_skill_to_agents

SkillRecords == [tags : {{t} : t \in Tags \cup {"all"}}, text : {1, 2}]

\* The row is saved; whether the running agent matched before is remembered.
SaveSkill(c, n, skill) ==
    /\ skill # skills[n]
    /\ skills' = [skills EXCEPT ![n] = skill]
    /\ Begin(c, [Idle EXCEPT !.kind = "skill", !.step = "push", !.name = n, !.skill = skill,
                             !.was = skill.tags # skills[n].tags /\ Running
                                     /\ Matches(skills[n], row.tags)])
    /\ UNCHANGED <<row, project, account, phase, boot, disk>>

\* A new name is saved and written; the directory of the old one stays.
RenameSkill(c, n, m) ==
    /\ skills[n] # NoSkill /\ skills[m] = NoSkill
    /\ skills' = [skills EXCEPT ![n] = NoSkill, ![m] = skills[n]]
    /\ Begin(c, [Idle EXCEPT !.kind = "skill", !.step = "push", !.name = m, !.skill = skills[n]])
    /\ UNCHANGED <<row, project, account, phase, boot, disk>>

DeleteSkill(c, n) ==
    /\ skills[n] # NoSkill
    /\ Begin(c, [Idle EXCEPT !.kind = "delete", !.step = "push", !.name = n,
                             !.skill = skills[n]])
    /\ UNCHANGED <<row, skills, project, account, phase, boot, disk>>

PushSkill(c) ==
    LET job == call[c]
        matching == Running /\ Matches(job.skill, row.tags)
    IN /\ job.step = "push" /\ job.kind \in {"skill", "delete"}
       /\ disk' = [disk EXCEPT !.dirs[job.name] =
                     IF job.kind = "delete" THEN IF matching THEN None ELSE @
                     ELSE IF matching THEN job.skill.text
                     ELSE IF job.was THEN None ELSE @]
       /\ Becomes(c, IF job.kind = "delete" THEN "drop" ELSE "idle")
       /\ UNCHANGED <<row, skills, project, account, phase, boot, raced, spent>>

DropSkill(c) ==
    /\ call[c].step = "drop"
    /\ skills' = [skills EXCEPT ![call[c].name] = NoSkill]
    /\ Becomes(c, "idle")
    /\ UNCHANGED <<row, project, account, phase, boot, disk, raced, spent>>

-----------------------------------------------------------------------------
\* Secrets: set_secret, delete_secret, scope_secret, set_account_secret

ChangeSecret(c) ==
    /\ \E k \in Keys, state \in {None, 1, 2} :
         state # project[k] /\ project' = [project EXCEPT ![k] = state]
    /\ Begin(c, [Idle EXCEPT !.kind = "secrets", !.step = "push"])
    /\ UNCHANGED <<row, skills, account, phase, boot, disk>>

\* push_secrets_for_project: running agents, and only if there is a secret left.
PushSecrets(c) ==
    /\ call[c].kind = "secrets" /\ call[c].step = "push"
    /\ disk' = IF Running /\ ~Empty(Merged)
               THEN [disk EXCEPT !.secrets = Merged, !.mcp = row.mcp,
                                 !.env = McpEnv(row.mcp, Merged)]
               ELSE disk
    /\ Becomes(c, "idle")
    /\ UNCHANGED <<row, skills, project, account, phase, boot, raced, spent>>

\* Account secrets wait for the next push or deployment.
ChangeAccountSecret ==
    /\ spent.calls < MaxCalls /\ spent' = [spent EXCEPT !.calls = @ + 1]
    /\ \E k \in Keys : account' = IF k \in account THEN account \ {k} ELSE account \cup {k}
    /\ UNCHANGED <<row, skills, project, phase, boot, disk, call>>
    /\ raced' = TRUE

ConfigCall(c) == LoadAgent(c) \/ SaveAgent(c) \/ WriteAgent(c) \/ WriteSkills(c)
SkillCall(c) ==
    \/ \E n \in Skills, s \in SkillRecords : SaveSkill(c, n, s)
    \/ \E n, m \in Skills : RenameSkill(c, n, m)
    \/ \E n \in Skills : DeleteSkill(c, n)
    \/ PushSkill(c) \/ DropSkill(c)
SecretCall(c) == ChangeSecret(c) \/ PushSecrets(c)
Deploy == DeployStart \/ DeployRead \/ DeployWrite \/ ChangePhase

ConfigNext ==
    \/ Deploy \/ ChangeAccountSecret
    \/ \E c \in Calls : ConfigCall(c) \/ SkillCall(c) \/ SecretCall(c)
ConfigSpec == ConfigInit /\ [][ConfigNext]_mc_vars

-----------------------------------------------------------------------------
\* Properties

\* Nothing is under way, and nothing overlapped since the last deployment began.
Settled == Running /\ ~InFlight /\ ~raced

\* No server has a key it does not declare.
ConfigTypeOK ==
    /\ row.role \in {1, 2} /\ row.text \in {1, 2} /\ row.tags \subseteq Tags
    /\ phase \in {"down", "fetched", "read", "written", "up"}
    /\ disk.env \in [Keys -> 0..2] /\ disk.dirs \in [Skills -> 0..2]
    /\ \A k \in Keys : disk.env[k] # None => k = McpKey

\* Claude reads what the user saved last, and a deployment repairs what calls that
\* raced have left.
InstructionsReachAgent == Settled => disk.claude = Doc(row) /\ disk.mcp = row.mcp

\* Every skill of the agent is in its directory, in its last version.
SkillsReachAgent ==
    Settled => \A n \in Skills : Matches(skills[n], row.tags) => disk.dirs[n] = skills[n].text

\* The secrets file has what the agent may see, as long as that is not nothing.
SecretsReachAgent == Settled /\ ~Empty(Merged) => disk.secrets = Merged

\* The row is saved by a call of the kind that saves these fields.
SavedByItsKind ==
    LET Saves(c, kind) ==
          call[c].step = "save" /\ call[c].kind = kind /\ call'[c].step # "save"
    IN
    /\ row'.text # row.text => \E c \in Calls : Saves(c, "instructions")
    /\ Doc(row') # [Doc(row) EXCEPT !.text = row'.text] => \E c \in Calls : Saves(c, "config")
    /\ row'.tags # row.tags => \E c \in Calls : /\ Saves(c, "config")
                                                /\ call[c].new.tags # call[c].old.tags

\* A call that holds an old copy of the row does not undo what another one saved,
\* if it was asked for something else: instructions, and tags of a call that names
\* none, stay.
OthersFieldsStay == [][SavedByItsKind]_mc_vars

\* Once nothing is under way, the files of a machine are what the rows say:
\* instructions and servers, skills, secrets.
ChangesReachAgent == ConfigTypeOK /\ InstructionsReachAgent /\ SkillsReachAgent /\ SecretsReachAgent
=============================================================================
