------------------------------- MODULE Themes -------------------------------
(***************************************************************************)
(* A project's theme on its way to a desktop: the user's choice becomes a  *)
(* document in the Project row, a token file on the machine of every live  *)
(* agent, the files the runtime derives from it, and what AwesomeWM and    *)
(* the browser page show.  A deploy reads the row and writes the same file;*)
(* the runtime reads it at boot and whenever a reload reaches it.  One     *)
(* agent with the desktop profile, on Docker.                              *)
(***************************************************************************)
EXTENDS Integers, Sequences, FiniteSets, FiniteSetsExt, Functions

CONSTANTS
    Tokens, Colours,  \* names of semantic tokens and their values
    Manifest,         \* the built-in themes in the order of builtins.json
    DefaultTheme,     \* index of the default
    Asks,             \* what users ask for: a theme or none, overrides, tokens
    Legacy,           \* token maps of projects older than the document
    Setters,          \* concurrent calls of set_project_theme
    ThemeLimits       \* bounds of a behaviour: calls, deploys, breaks of the link,
                      \* awesome-client calls that fail

Builtins == 1..Len(Manifest)
PartialTokens == UNION {[S -> Colours] : S \in SUBSET Tokens}

ASSUME ThemesAssumption ==
    /\ Manifest \in Seq([Tokens -> Colours]) /\ DefaultTheme \in Builtins
    /\ Asks \subseteq [theme : {0} \union Builtins, overrides : PartialTokens, tokens : PartialTokens]
    /\ Legacy \subseteq PartialTokens
    /\ ThemeLimits \subseteq [sets : Nat, deploys : Nat, breaks : Nat, refusals : Nat]

VARIABLES
    project,  \* Project.theme_document and theme_tokens
    setter,   \* the calls under way, with the tokens each of them pushes
    deploy,   \* the provisioning task, with the tokens it read
    sandbox,  \* the row is in a live status and has a sandbox_id
    source,   \* tokens.json on the machine
    derived,  \* theme.json and awesome.lua beside it
    runtime,  \* the runtime: boot step, or what its transport thread does, and with which document
    awesome,  \* the window manager: not started, starting, up; and what it shows
    page,     \* what the browser page shows
    reloads,  \* reload commands on their way; the relay is connected
    connected,
    left,     \* what is left of the limits
    late, crossed, missed, refused \* a change while a deploy held older tokens; two calls at
                                   \* once; a reload lost after the file was read; awesome-client failed

th_vars == <<project, setter, deploy, sandbox, source, derived, runtime, awesome, page, reloads,
             connected, left, late, crossed, missed, refused>>

Unset == [t \in {} |-> 0]
NoDocument == [theme |-> 0, overrides |-> Unset]
Waiting == [step |-> "idle", ask |-> [theme |-> 0, overrides |-> Unset, tokens |-> Unset], tokens |-> Unset]
NoDeploy == [step |-> "none", tokens |-> Unset]
NoRuntime == [step |-> "off", tokens |-> Unset]
NoDesktop == [state |-> "none", shows |-> Unset]

ThemeTypeOK ==
    /\ project \in [document : [theme : {0} \union Builtins, overrides : PartialTokens], tokens : PartialTokens]
    /\ \A s \in Setters : setter[s].step \in {"idle", "list", "write", "reload"} /\ setter[s].tokens \in PartialTokens
    /\ deploy \in [step : {"none", "create", "write", "save", "release"}, tokens : PartialTokens]
    /\ sandbox \in BOOLEAN /\ connected \in BOOLEAN /\ reloads \in Nat
    /\ source \in PartialTokens /\ page \in PartialTokens
    /\ derived \in [json : PartialTokens, lua : PartialTokens]
    /\ runtime.step \in {"off", "project", "lua", "services", "notify", "dial", "run",
                         "reload json", "reload lua", "reload notify"}
    /\ awesome \in [state : {"none", "starting", "up"}, shows : PartialTokens]

-----------------------------------------------------------------------------
\* The document (agents/services/themes.py)

\* Overrides that say what the built-in theme says anyway are left out.
Compact(b, ts) == Restrict(ts, {t \in DOMAIN ts : ts[t] # Manifest[b][t]})

\* The first built-in theme that has all these tokens; 0 when none has.
Inferred(ts) ==
    LET fits == {b \in Builtins : \A t \in DOMAIN ts : Manifest[b][t] = ts[t]} IN
    IF ts = Unset THEN DefaultTheme ELSE IF fits = {} THEN 0 ELSE Min(fits)

\* normalize_project_theme_input: overrides, or else tokens, against the theme
\* named, inferred from the tokens, or the default.
Candidate(ask) == IF ask.overrides # Unset THEN ask.overrides ELSE ask.tokens
Normalized(ask) ==
    LET b == IF ask.theme # 0 THEN ask.theme
             ELSE IF Inferred(ask.tokens) # 0 THEN Inferred(ask.tokens) ELSE DefaultTheme IN
    [theme |-> b, overrides |-> Compact(b, Candidate(ask))]

\* resolve_project_theme_tokens
ResolveTokens(d) ==
    [t \in Tokens |-> IF t \in DOMAIN d.overrides THEN d.overrides[t] ELSE Manifest[d.theme][t]]

\* Project.resolved_theme_tokens: the document, or what an old row has instead.
Resolved(p) ==
    IF p.document # NoDocument THEN ResolveTokens(p.document)
    ELSE IF p.tokens # Unset THEN ResolveTokens(Normalized([theme |-> 0, overrides |-> Unset, tokens |-> p.tokens]))
    ELSE Manifest[DefaultTheme]

-----------------------------------------------------------------------------
\* set_project_theme and push_theme_to_agents

ThemeInit ==
    /\ \E ts \in Legacy : project = [document |-> NoDocument, tokens |-> ts]
    /\ setter = [s \in Setters |-> Waiting] /\ deploy = NoDeploy /\ sandbox = FALSE
    /\ source = Unset /\ derived = [json |-> Unset, lua |-> Unset]
    /\ runtime = NoRuntime /\ awesome = NoDesktop /\ page = Unset
    /\ reloads = 0 /\ connected = FALSE
    /\ left \in ThemeLimits
    /\ late = FALSE /\ crossed = FALSE /\ missed = FALSE /\ refused = FALSE

OnMachine == <<derived, runtime, awesome, page>>

\* Save both columns; the tokens pushed afterwards are those of this call.
SaveTheme(s) ==
    /\ setter[s].step = "idle" /\ left.sets > 0
    /\ \E ask \in Asks :
        LET d == Normalized(ask) IN
        /\ project' = [document |-> d, tokens |-> ResolveTokens(d)]
        /\ setter' = [setter EXCEPT ![s] = [step |-> "list", ask |-> ask, tokens |-> ResolveTokens(d)]]
    /\ left' = [left EXCEPT !.sets = @ - 1]
    /\ crossed' = (crossed \/ \E r \in Setters : setter[r].step # "idle")
    /\ UNCHANGED <<deploy, sandbox, source, OnMachine, reloads, connected, late, missed, refused>>

\* Mutant: agents that still deploy are left out.
ListAgents_Deployed(s) ==
    /\ setter[s].step = "list"
    /\ setter' = [setter EXCEPT ![s] = IF sandbox /\ connected THEN [@ EXCEPT !.step = "write"] ELSE Waiting]
    /\ late' = (late \/ (deploy.step \in {"write", "save"} /\ deploy.tokens # setter[s].tokens))
    /\ UNCHANGED <<project, deploy, sandbox, source, OnMachine, reloads, connected, left, crossed, missed, refused>>

\* Live agents with a sandbox_id, deploying ones included.  A deploy that has
\* read the row and not saved its sandbox is overlooked.
ListAgents(s) ==
    /\ setter[s].step = "list"
    /\ setter' = [setter EXCEPT ![s] = IF sandbox THEN [@ EXCEPT !.step = "write"] ELSE Waiting]
    /\ late' = (late \/ (deploy.step \in {"write", "save"} /\ deploy.tokens # setter[s].tokens))
    /\ UNCHANGED <<project, deploy, sandbox, source, OnMachine, reloads, connected, left, crossed, missed, refused>>

\* update_volume_and_reload: the file is replaced by a rename, then the reload
\* is pushed, unless the relay is not connected.
WriteTheme(s) ==
    /\ setter[s].step = "write"
    /\ source' = setter[s].tokens
    /\ setter' = [setter EXCEPT ![s].step = "reload"]
    /\ UNCHANGED <<project, deploy, sandbox, OnMachine, reloads, connected, left, late, crossed, missed, refused>>

HasRead == runtime.step \notin {"off", "project"}

PushReload(s) ==
    /\ setter[s].step = "reload"
    /\ setter' = [setter EXCEPT ![s] = Waiting]
    /\ IF connected THEN reloads' = reloads + 1 /\ UNCHANGED missed
       ELSE missed' = (missed \/ HasRead) /\ UNCHANGED reloads
    /\ UNCHANGED <<project, deploy, sandbox, source, OnMachine, connected, left, late, crossed, refused>>

-----------------------------------------------------------------------------
\* A deploy (_provision_agent)

\* Create or restart: the row loses its sandbox, the runtime before is gone.
StartDeploy ==
    /\ deploy.step = "none" /\ left.deploys > 0
    /\ deploy' = [NoDeploy EXCEPT !.step = "create"]
    /\ left' = [left EXCEPT !.deploys = @ - 1]
    /\ sandbox' = FALSE /\ connected' = FALSE /\ reloads' = 0
    /\ runtime' = NoRuntime /\ awesome' = NoDesktop /\ page' = Unset
    /\ UNCHANGED <<project, setter, source, derived, late, crossed, missed, refused>>

\* The rows are read again when the container is there.  A call that has saved
\* its theme by now is not late.
ReadProject ==
    /\ deploy.step = "create"
    /\ deploy' = [step |-> "write", tokens |-> Resolved(project)]
    /\ late' = FALSE /\ missed' = FALSE /\ refused' = FALSE
    /\ UNCHANGED <<project, setter, sandbox, source, OnMachine, reloads, connected, left, crossed>>

WriteDocument ==
    /\ deploy.step = "write"
    /\ source' = deploy.tokens
    /\ deploy' = [deploy EXCEPT !.step = "save"]
    /\ UNCHANGED <<project, setter, sandbox, OnMachine, reloads, connected, left, late, crossed, missed, refused>>

SaveSandbox ==
    /\ deploy.step = "save"
    /\ sandbox' = TRUE /\ deploy' = [deploy EXCEPT !.step = "release"]
    /\ UNCHANGED <<project, setter, source, OnMachine, reloads, connected, left, late, crossed, missed, refused>>

Release ==
    /\ deploy.step = "release"
    /\ deploy' = NoDeploy /\ runtime' = [NoRuntime EXCEPT !.step = "project"]
    /\ UNCHANGED <<project, setter, sandbox, source, derived, awesome, page, reloads, connected, left,
                   late, crossed, missed, refused>>

-----------------------------------------------------------------------------
\* The runtime: boot, then the transport thread

ByRuntime == <<project, setter, deploy, sandbox, source, left, late, crossed, missed>>

\* project_if_present: read and validate the document, write theme.json, then
\* theme.css and awesome.lua.
ProjectJson ==
    /\ runtime.step \in {"project", "reload json"}
    /\ runtime' = [step |-> IF runtime.step = "project" THEN "lua" ELSE "reload lua", tokens |-> source]
    /\ derived' = [derived EXCEPT !.json = source]
    /\ UNCHANGED <<ByRuntime, awesome, page, reloads, connected, refused>>

ProjectLua ==
    /\ runtime.step \in {"lua", "reload lua"}
    /\ derived' = [derived EXCEPT !.lua = runtime.tokens]
    /\ runtime' = [runtime EXCEPT !.step = IF @ = "lua" THEN "services" ELSE "reload notify"]
    /\ UNCHANGED <<ByRuntime, awesome, page, reloads, connected, refused>>

\* start_all spawns awesome, which needs its time.
StartServices ==
    /\ runtime.step = "services"
    /\ awesome' = [awesome EXCEPT !.state = "starting"]
    /\ runtime' = [runtime EXCEPT !.step = "notify"]
    /\ UNCHANGED <<ByRuntime, derived, page, reloads, connected, refused>>

\* awesome-client makes awesome load awesome.lua again; without a running awesome
\* it fails.  At boot it is tried up to five times, on a reload once.
AfterNotify == [runtime EXCEPT !.step = IF @ = "notify" THEN "dial" ELSE "run"]

\* Mutant: a reload is not announced.
Notify_BootOnly ==
    /\ runtime.step \in {"notify", "reload notify"}
    /\ runtime' = AfterNotify
    /\ IF runtime.step = "notify" /\ awesome.state = "up" THEN awesome' = [awesome EXCEPT !.shows = derived.lua] ELSE UNCHANGED awesome
    /\ UNCHANGED <<ByRuntime, derived, page, reloads, connected, refused>>

Notify ==
    /\ runtime.step \in {"notify", "reload notify"}
    /\ runtime' = AfterNotify
    /\ IF awesome.state = "up" THEN awesome' = [awesome EXCEPT !.shows = derived.lua] ELSE UNCHANGED awesome
    /\ UNCHANGED <<ByRuntime, derived, page, reloads, connected, refused>>

\* It fails although awesome runs: logged, and not tried again after a reload.
NotifyFails ==
    /\ runtime.step = "reload notify" /\ left.refusals > 0
    /\ left' = [left EXCEPT !.refusals = @ - 1]
    /\ runtime' = AfterNotify /\ refused' = TRUE
    /\ UNCHANGED <<project, setter, deploy, sandbox, source, late, crossed, missed,
                   derived, awesome, page, reloads, connected>>

\* awesome reads awesome.lua when it starts.
AwesomeStarts ==
    /\ awesome.state = "starting"
    /\ awesome' = [state |-> "up", shows |-> derived.lua]
    /\ UNCHANGED <<ByRuntime, derived, runtime, page, reloads, connected, refused>>

\* The page polls theme.json.
PagePolls ==
    /\ runtime.step # "off" /\ derived.json # Unset /\ page # derived.json
    /\ page' = derived.json
    /\ UNCHANGED <<ByRuntime, derived, runtime, awesome, reloads, connected, refused>>

\* on_connected reads the inbox, not the theme.
Dial ==
    /\ runtime.step = "dial" \/ (runtime.step = "run" /\ ~connected)
    /\ connected' = TRUE /\ runtime' = [runtime EXCEPT !.step = "run"]
    /\ UNCHANGED <<ByRuntime, derived, awesome, page, reloads, refused>>

\* The transport hands a reload message to the shared project poller.
ReceiveReload ==
    /\ runtime.step = "run" /\ connected /\ reloads > 0
    /\ reloads' = reloads - 1 /\ runtime' = [runtime EXCEPT !.step = "reload json"]
    /\ UNCHANGED <<ByRuntime, derived, awesome, page, connected, refused>>

ThemeLinkBreaks ==
    /\ connected /\ runtime.step = "run" /\ left.breaks > 0
    /\ left' = [left EXCEPT !.breaks = @ - 1]
    /\ connected' = FALSE /\ reloads' = 0 /\ missed' = (missed \/ reloads > 0)
    /\ UNCHANGED <<project, setter, deploy, sandbox, source, OnMachine, late, crossed, refused>>

ThemeNext ==
    \/ \E s \in Setters : SaveTheme(s) \/ ListAgents(s) \/ WriteTheme(s) \/ PushReload(s)
    \/ StartDeploy \/ ReadProject \/ WriteDocument \/ SaveSandbox \/ Release
    \/ ProjectJson \/ ProjectLua \/ StartServices \/ Notify \/ NotifyFails \/ AwesomeStarts \/ PagePolls
    \/ Dial \/ ReceiveReload \/ ThemeLinkBreaks

ThemeSpec == ThemeInit /\ [][ThemeNext]_th_vars

-----------------------------------------------------------------------------
\* Properties

\* What a user asked for is what is saved and pushed: every token named has the
\* value named, every other one that of the theme named; and the tokens of an old
\* project survive the inference of a theme.
AskedIsSaved ==
    /\ \A s \in Setters : setter[s].step # "idle" =>
        LET ask == setter[s].ask IN
        \A t \in Tokens :
            IF t \in DOMAIN Candidate(ask) THEN setter[s].tokens[t] = Candidate(ask)[t]
            ELSE ask.theme # 0 => setter[s].tokens[t] = Manifest[ask.theme][t]
    /\ \A t \in DOMAIN project.tokens : Resolved(project)[t] = project.tokens[t]

\* The file of a live agent has the theme of its project once no call is under
\* way, whenever the theme changed during its deploy: except when calls overlapped,
\* or one listed the agents between the deploy's read and the save of its sandbox.
FileHasTheme ==
    /\ sandbox /\ \A s \in Setters : setter[s].step = "idle"
    /\ ~late /\ ~crossed
    => source = Resolved(project)

\* A runtime that is connected and has handled every reload has derived its files
\* from the file as it is; except when a reload was refused or lost.
FilesFollow ==
    /\ runtime.step = "run" /\ connected /\ reloads = 0 /\ ~missed
    /\ \A s \in Setters : setter[s].step # "reload"
    => derived = [json |-> source, lua |-> source]

\* The window manager shows the derived theme whether it came up before, between
\* or after the boot's notification and the first reloads; except when
\* awesome-client failed.
ScreenFollows ==
    runtime.step \in {"dial", "run"} /\ awesome.state = "up" /\ ~refused => awesome.shows = derived.lua

\* What a user asked for is what the project has and what the file of each of its
\* machines says (set_project_theme, push_theme_to_agents).
ThemeIsSaved == ThemeTypeOK /\ AskedIsSaved /\ FileHasTheme

\* And what the file says is what the machine shows (theme.py).
ThemeArrives == FilesFollow /\ ScreenFollows
=============================================================================
