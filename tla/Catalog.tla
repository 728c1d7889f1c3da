------------------------------ MODULE Catalog ------------------------------
(***************************************************************************)
(* The release catalogue: prompts, skills, model configurations and tools  *)
(* with their immutable versions, the agent versions that pin them, the    *)
(* environments that point at agent versions and the conversations pinned  *)
(* to them.  Statements and service operations follow ToolRegistry.        *)
(*                                                                         *)
(* Abstractions.  A template is whether it renders without variables; a    *)
(* SKILL.md is a member of SkillSpecs; model settings are members of       *)
(* Settings, already normalised and valid; repeated ids of a request are a *)
(* set.  Knowledge bases are never deleted and keep their workspace.       *)
(***************************************************************************)
EXTENDS ToolRegistry

CONSTANTS
    Prompts, PromptVersions, Skills, SkillVersions, ModelVersions, Settings,
    Agents, AgentVersions, Conversations, KBs,
    KbHome,         \* the workspace of each knowledge base
    SkillSpecs,     \* the SKILL.md texts offered
    AgentConfigs,   \* the agent configurations offered
    Seed            \* the ids of what an installation starts with

Envs == {"dev", "staging", "prod"}

PromptRow == [ws : Workspaces, user : BOOLEAN]  \* user: "...-user-template"
PromptVersionRow == [prompt : Prompts, number : Nat, renders : BOOLEAN]
\* complete: name and description are there and the body is short enough
SkillSpec == [tools : SUBSET ToolNames, kbs : SUBSET KBs, network : BOOLEAN,
              complete : BOOLEAN]
SkillRow == [ws : Workspaces]
SkillVersionRow == [skill : Skills, number : Nat, spec : SkillSpec,
                    status : {"draft", "published"}]
ModelVersionRow == [ws : Workspaces, number : Nat, settings : Settings]
AgentRow == [ws : Workspaces]
AgentConfig == [sys : PromptVersions, user : PromptVersions \cup {None},
                model : ModelVersions, tools : SUBSET ToolVersions,
                skills : SUBSET SkillVersions, kbs : SUBSET KBs,
                network : BOOLEAN]
AgentVersionRow == [agent : Agents, number : Nat, snapshot : AgentConfig]
ConversationRow == [agent : Agents, version : AgentVersions, ws : Workspaces,
                    env : Envs]

ASSUME CatalogAssumption ==
    /\ KbHome \in [KBs -> Workspaces]
    /\ SkillSpecs \subseteq SkillSpec
    /\ AgentConfigs \subseteq AgentConfig
    /\ Seed \in [ws : Workspaces, prompt : Prompts, promptVersion : PromptVersions,
                 skill : Skills, skillVersion : SkillVersions,
                 modelVersion : ModelVersions]
    /\ None \notin Prompts \cup PromptVersions \cup Agents \cup AgentVersions
    /\ None \notin PromptRow \cup PromptVersionRow \cup SkillRow
                   \cup SkillVersionRow \cup ModelVersionRow \cup AgentRow
                   \cup AgentVersionRow \cup ConversationRow

VARIABLES
    prompt, promptVersion,
    lost,           \* ids used up by prompts and versions a rollback has deleted
    skill, skillVersion, modelVersion,
    agent, agentVersion, agentEnv, conversation

catalogVars == <<prompt, promptVersion, lost, skill, skillVersion, modelVersion,
                 agent, agentVersion, agentEnv, conversation>>
vars == <<toolVars, job, accepted, catalogVars>>

CatalogJob ==
    [op : {"prompted"}, prompt : Prompts, renders : BOOLEAN, new : BOOLEAN]
    \cup [op : {"counted"}, prompt : Prompts, renders : BOOLEAN, new : BOOLEAN,
          number : Nat]
    \cup [op : {"rollback"}, prompt : Prompts]
    \cup [op : {"skill counted"}, skill : Skills, spec : SkillSpec, number : Nat]
    \cup [op : {"skill publishing"}, version : SkillVersions]
    \cup [op : {"model"}, ws : Workspaces, settings : Settings, number : Nat]
    \cup [op : {"validated"}, agent : Agents \cup {None}, ws : Workspaces,
          config : AgentConfig]
    \cup [op : {"built"}, agent : Agents \cup {None}, ws : Workspaces,
          config : AgentConfig, number : Nat]

-----------------------------------------------------------------------------
(* Statements.  Each insert respects UNIQUE (parent, version).             *)

PromptVersionsOf(p) == {v \in PromptVersions :
                           promptVersion[v] # None /\ promptVersion[v].prompt = p}
SkillVersionsOf(k) == {v \in SkillVersions :
                          skillVersion[v] # None /\ skillVersion[v].skill = k}
ModelVersionsOf(ws) == {v \in ModelVersions :
                           modelVersion[v] # None /\ modelVersion[v].ws = ws}
AgentVersionsOf(a) == {v \in AgentVersions :
                          agentVersion[v] # None /\ agentVersion[v].agent = a}

InsertPromptVersion(v, row) ==
    /\ FreshIn(v, {w \in PromptVersions : promptVersion[w] = None} \ lost)
    /\ prompt[row.prompt] # None
    /\ \A w \in PromptVersionsOf(row.prompt) : promptVersion[w].number # row.number
    /\ promptVersion' = [promptVersion EXCEPT ![v] = row]

\* DELETE FROM prompts, ON DELETE CASCADE
DeletePrompt(p) ==
    /\ prompt' = [prompt EXCEPT ![p] = None]
    /\ promptVersion' = [v \in PromptVersions |->
          IF v \in PromptVersionsOf(p) THEN None ELSE promptVersion[v]]
    /\ lost' = lost \cup {p} \cup PromptVersionsOf(p)

CreateSkillWithVersion(k, v, ws, spec) ==
    /\ FreshIn(k, {q \in Skills : skill[q] = None})
    /\ FreshIn(v, {w \in SkillVersions : skillVersion[w] = None})
    /\ skill' = [skill EXCEPT ![k] = [ws |-> ws]]
    /\ skillVersion' = [skillVersion EXCEPT ![v] =
          [skill |-> k, number |-> 1, spec |-> spec, status |-> "draft"]]

InsertSkillVersion(v, k, n, spec) ==
    /\ FreshIn(v, {w \in SkillVersions : skillVersion[w] = None})
    /\ \A w \in SkillVersionsOf(k) : skillVersion[w].number # n
    /\ skillVersion' = [skillVersion EXCEPT ![v] =
          [skill |-> k, number |-> n, spec |-> spec, status |-> "draft"]]

UpdateSkillVersionStatus(v) ==
    skillVersion' = [skillVersion EXCEPT ![v].status = "published"]

InsertModelVersion(v, row) ==
    /\ FreshIn(v, {w \in ModelVersions : modelVersion[w] = None})
    /\ \A w \in ModelVersionsOf(row.ws) : modelVersion[w].number # row.number
    /\ modelVersion' = [modelVersion EXCEPT ![v] = row]

\* CreateAgentVersionAndBindDev, one statement
CreateAgentVersionAndBindDev(v, row) ==
    /\ FreshIn(v, {w \in AgentVersions : agentVersion[w] = None})
    /\ \A w \in AgentVersionsOf(row.agent) : agentVersion[w].number # row.number
    /\ agentVersion' = [agentVersion EXCEPT ![v] = row]
    /\ agentEnv' = [agentEnv EXCEPT ![row.agent]["dev"] = v]

\* CreateAgentWithVersion, one statement
CreateAgentWithVersion(a, ws, v, row) ==
    /\ FreshIn(a, {b \in Agents : agent[b] = None})
    /\ agent' = [agent EXCEPT ![a] = [ws |-> ws]]
    /\ CreateAgentVersionAndBindDev(v, row)

UpsertAgentEnv(a, env, v) == agentEnv' = [agentEnv EXCEPT ![a][env] = v]

CreateConversation(c, row) ==
    /\ FreshIn(c, {d \in Conversations : conversation[d] = None})
    /\ conversation' = [conversation EXCEPT ![c] = row]

-----------------------------------------------------------------------------
(* Prompts                                                                 *)

\* CreatePrompt: the row first, its version 1 by CreateVersion
CreatePrompt(r, p, row, renders) ==
    /\ FreshIn(p, {q \in Prompts : prompt[q] = None} \ lost)
    /\ prompt' = [prompt EXCEPT ![p] = row]
    /\ Start(r, [op |-> "prompted", prompt |-> p, renders |-> renders, new |-> TRUE])
    /\ UNCHANGED <<toolVars, promptVersion, lost, skill, skillVersion,
                   modelVersion, agent, agentVersion, agentEnv, conversation>>

\* POST /prompts/{id}/versions
RequestPromptVersion(r, ws, p, renders) ==
    /\ prompt[p] # None /\ prompt[p].ws = ws
    /\ Start(r, [op |-> "prompted", prompt |-> p, renders |-> renders, new |-> FALSE])
    /\ UNCHANGED <<toolVars, catalogVars>>

\* CreateVersion: GetPrompt and ListPromptVersions
CountPromptVersions(r) ==
    /\ job[r].op = "prompted"
    /\ IF prompt[job[r].prompt] = None THEN Done(r)
       ELSE Continue(r, [op |-> "counted", prompt |-> job[r].prompt,
                renders |-> job[r].renders, new |-> job[r].new,
                number |-> Cardinality(PromptVersionsOf(job[r].prompt)) + 1])
    /\ UNCHANGED <<toolVars, catalogVars>>

CreatePromptVersion(r, v) ==
    /\ job[r].op = "counted"
    /\ InsertPromptVersion(v, [prompt |-> job[r].prompt, number |-> job[r].number,
                               renders |-> job[r].renders])
    /\ Done(r)
    /\ UNCHANGED <<toolVars, prompt, lost, skill, skillVersion, modelVersion,
                   agent, agentVersion, agentEnv, conversation>>

\* The insert is refused, or the database fails: CreatePrompt then removes the
\* prompt it has created, CreateVersion only reports the error.
PromptVersionFails(r) ==
    /\ job[r].op = "counted"
    /\ IF job[r].new THEN Continue(r, [op |-> "rollback", prompt |-> job[r].prompt])
       ELSE Done(r)
    /\ UNCHANGED <<toolVars, catalogVars>>

RollbackNewPrompt(r) ==
    /\ job[r].op = "rollback"
    /\ DeletePrompt(job[r].prompt)
    /\ Done(r)
    /\ UNCHANGED <<toolVars, skill, skillVersion, modelVersion, agent,
                   agentVersion, agentEnv, conversation>>

\* The rollback fails as well: a prompt without a version stays behind.
RollbackFails(r) ==
    /\ job[r].op = "rollback"
    /\ Done(r)
    /\ UNCHANGED <<toolVars, catalogVars>>

-----------------------------------------------------------------------------
(* Skills                                                                  *)

CreateSkill(k, v, ws, spec) ==
    /\ CreateSkillWithVersion(k, v, ws, spec)
    /\ Accept
    /\ UNCHANGED <<toolVars, job, prompt, promptVersion, lost, modelVersion,
                   agent, agentVersion, agentEnv, conversation>>

CountSkillVersions(r, ws, k, spec) ==
    /\ skill[k] # None /\ skill[k].ws = ws
    /\ Start(r, [op |-> "skill counted", skill |-> k, spec |-> spec,
                 number |-> Cardinality(SkillVersionsOf(k)) + 1])
    /\ UNCHANGED <<toolVars, catalogVars>>

CreateSkillVersion(r, v) ==
    /\ job[r].op = "skill counted"
    /\ InsertSkillVersion(v, job[r].skill, job[r].number, job[r].spec)
    /\ Done(r)
    /\ UNCHANGED <<toolVars, prompt, promptVersion, lost, skill, modelVersion,
                   agent, agentVersion, agentEnv, conversation>>

SkillVersionFails(r) ==
    /\ job[r].op = "skill counted"
    /\ Done(r)
    /\ UNCHANGED <<toolVars, catalogVars>>

\* Publish: allowed-tools are names of registered tools, allowed-kbs belong to
\* the workspace of the skill.
PassSkillGate(r, ws, v) ==
    /\ skillVersion[v] # None
    /\ skill[skillVersion[v].skill].ws = ws
    /\ skillVersion[v].spec.complete
    /\ skillVersion[v].spec.tools \subseteq NamesIn(ws)
    /\ \A k \in skillVersion[v].spec.kbs : KbHome[k] = ws
    /\ Start(r, [op |-> "skill publishing", version |-> v])
    /\ UNCHANGED <<toolVars, catalogVars>>

PublishSkillVersion(r) ==
    /\ job[r].op = "skill publishing"
    /\ UpdateSkillVersionStatus(job[r].version)
    /\ Done(r)
    /\ UNCHANGED <<toolVars, prompt, promptVersion, lost, skill, modelVersion,
                   agent, agentVersion, agentEnv, conversation>>

-----------------------------------------------------------------------------
(* Model configurations                                                    *)

LatestModel(ws, v) ==
    /\ v \in ModelVersionsOf(ws)
    /\ \A w \in ModelVersionsOf(ws) : modelVersion[w].number <= modelVersion[v].number

\* Mutant: the settings are not compared with the latest version.
EnsureConfigVersionAlways(r, ws, s) ==
    /\ Start(r, [op |-> "model", ws |-> ws, settings |-> s,
                 number |-> Cardinality(ModelVersionsOf(ws)) + 1])
    /\ UNCHANGED <<toolVars, catalogVars>>

\* EnsureConfigVersion: the latest version matches (nothing to do) or is numbered
EnsureConfigVersion(r, ws, s) ==
    /\ \/ /\ ModelVersionsOf(ws) = {}
          /\ Start(r, [op |-> "model", ws |-> ws, settings |-> s, number |-> 1])
       \/ \E v \in ModelVersionsOf(ws) :
             /\ LatestModel(ws, v)
             /\ modelVersion[v].settings # s
             /\ Start(r, [op |-> "model", ws |-> ws, settings |-> s,
                          number |-> modelVersion[v].number + 1])
    /\ UNCHANGED <<toolVars, catalogVars>>

CreateConfigVersion(r, v) ==
    /\ job[r].op = "model"
    /\ InsertModelVersion(v, [ws |-> job[r].ws, number |-> job[r].number,
                              settings |-> job[r].settings])
    /\ Done(r)
    /\ UNCHANGED <<toolVars, prompt, promptVersion, lost, skill, skillVersion,
                   agent, agentVersion, agentEnv, conversation>>

ConfigVersionFails(r) ==
    /\ job[r].op = "model"
    /\ Done(r)
    /\ UNCHANGED <<toolVars, catalogVars>>

-----------------------------------------------------------------------------
(* Agents                                                                  *)

\* validateVersionDependencies
DependenciesValid(ws, cfg) ==
    /\ promptVersion[cfg.sys] # None
    /\ prompt[promptVersion[cfg.sys].prompt] = [ws |-> ws, user |-> FALSE]
    /\ promptVersion[cfg.sys].renders
    /\ cfg.user # None =>
          /\ promptVersion[cfg.user] # None
          /\ prompt[promptVersion[cfg.user].prompt] = [ws |-> ws, user |-> TRUE]
    /\ cfg.model \in ModelVersionsOf(ws)

\* tool.ValidateVersion
ToolVersionValid(v, ws, requirePublished) ==
    /\ v \in ExistingToolVersions
    /\ InWorkspace(toolVersion[v].tool, ws)
    /\ requirePublished => toolVersion[v].status = "published"

\* Mutant: a skill version is looked up but not checked for its state.
SnapshotBuildsDraft(ws, cfg) ==
    /\ promptVersion[cfg.sys] # None
    /\ \A v \in cfg.tools : ToolVersionValid(v, ws, TRUE)
    /\ \A k \in cfg.kbs : KbHome[k] = ws
    /\ \A v \in cfg.skills : skillVersion[v] # None

\* buildSnapshotJSON
SnapshotBuilds(ws, cfg) ==
    /\ promptVersion[cfg.sys] # None
    /\ \A v \in cfg.tools : ToolVersionValid(v, ws, TRUE)
    /\ \A k \in cfg.kbs : KbHome[k] = ws
    /\ \A v \in cfg.skills :
          /\ skillVersion[v] # None
          /\ skillVersion[v].status = "published"
          /\ skill[skillVersion[v].skill].ws = ws
          /\ skillVersion[v].spec.network => cfg.network
          /\ skillVersion[v].spec.tools \subseteq
                {tool[toolVersion[t].tool].name : t \in cfg.tools}
          /\ skillVersion[v].spec.kbs \subseteq cfg.kbs

\* CreateAgent (a is None) and CreateAgentVersion, up to the validation
ValidateAgent(r, ws, a, cfg) ==
    /\ a # None => agent[a] = [ws |-> ws]
    /\ DependenciesValid(ws, cfg)
    /\ Start(r, [op |-> "validated", agent |-> a, ws |-> ws, config |-> cfg])
    /\ UNCHANGED <<toolVars, catalogVars>>

\* buildSnapshotJSON, then ListAgentVersions
BuildSnapshot(r) ==
    /\ job[r].op = "validated"
    /\ IF SnapshotBuilds(job[r].ws, job[r].config)
       THEN Continue(r, [op |-> "built", agent |-> job[r].agent,
                ws |-> job[r].ws, config |-> job[r].config,
                number |-> IF job[r].agent = None THEN 1
                           ELSE Cardinality(AgentVersionsOf(job[r].agent)) + 1])
       ELSE Done(r)
    /\ UNCHANGED <<toolVars, catalogVars>>

BuiltRow(r, a) == [agent |-> a, number |-> job[r].number, snapshot |-> job[r].config]

CreateAgent(r, a, v) ==
    /\ job[r].op = "built" /\ job[r].agent = None
    /\ CreateAgentWithVersion(a, job[r].ws, v, BuiltRow(r, a))
    /\ Done(r)
    /\ UNCHANGED <<toolVars, prompt, promptVersion, lost, skill, skillVersion,
                   modelVersion, conversation>>

CreateAgentVersion(r, v) ==
    /\ job[r].op = "built" /\ job[r].agent # None
    /\ CreateAgentVersionAndBindDev(v, BuiltRow(r, job[r].agent))
    /\ Done(r)
    /\ UNCHANGED <<toolVars, prompt, promptVersion, lost, skill, skillVersion,
                   modelVersion, agent, conversation>>

AgentVersionFails(r) ==
    /\ job[r].op = "built"
    /\ Done(r)
    /\ UNCHANGED <<toolVars, catalogVars>>

\* Mutant: the version is looked up but not compared with the agent.
PromoteAnyVersion(ws, a, env, v) ==
    /\ agent[a] = [ws |-> ws]
    /\ agentVersion[v] # None
    /\ UpsertAgentEnv(a, env, v)
    /\ Accept
    /\ UNCHANGED <<toolVars, job, prompt, promptVersion, lost, skill,
                   skillVersion, modelVersion, agent, agentVersion, conversation>>

\* Agents and agent versions are never deleted and keep their owner, so the
\* checks of the service hold when the binding is written.
PromoteAgentVersion(ws, a, env, v) ==
    /\ agent[a] = [ws |-> ws]
    /\ v \in AgentVersionsOf(a)
    /\ UpsertAgentEnv(a, env, v)
    /\ Accept
    /\ UNCHANGED <<toolVars, job, prompt, promptVersion, lost, skill,
                   skillVersion, modelVersion, agent, agentVersion, conversation>>

NewConversation(a, env, v) ==
    [agent |-> a, version |-> v, ws |-> agent[a].ws, env |-> env]

\* Mutant: an environment without a binding is not refused.
CreateConversationUnbound(c, a, env) ==
    /\ agent[a] # None
    /\ CreateConversation(c, NewConversation(a, env, agentEnv[a][env]))
    /\ Accept
    /\ UNCHANGED <<toolVars, job, prompt, promptVersion, lost, skill,
                   skillVersion, modelVersion, agent, agentVersion, agentEnv>>

\* CreateConversationInEnv (CreateConversation: dev): the version the
\* environment points at, read once
CreateConversationInEnv(c, a, env) ==
    /\ agentEnv[a][env] # None
    /\ CreateConversation(c, NewConversation(a, env, agentEnv[a][env]))
    /\ Accept
    /\ UNCHANGED <<toolVars, job, prompt, promptVersion, lost, skill,
                   skillVersion, modelVersion, agent, agentVersion, agentEnv>>

\* CreateConversationWithVersion
CreateConversationWithVersion(c, v) ==
    /\ agentVersion[v] # None
    /\ CreateConversation(c, NewConversation(agentVersion[v].agent, "dev", v))
    /\ Accept
    /\ UNCHANGED <<toolVars, job, prompt, promptVersion, lost, skill,
                   skillVersion, modelVersion, agent, agentVersion, agentEnv>>

-----------------------------------------------------------------------------
\* The catalogue starts with what an installation holds: a model configuration,
\* a system prompt and a skill in draft.
CatalogInit ==
    /\ ToolInit
    /\ job = [r \in Requests |-> Idle] /\ accepted = 0
    /\ lost = {}
    /\ agent = [a \in Agents |-> None]
    /\ agentVersion = [v \in AgentVersions |-> None]
    /\ agentEnv = [a \in Agents |-> [e \in Envs |-> None]]
    /\ conversation = [c \in Conversations |-> None]
    /\ prompt = [p \in Prompts |->
          IF p = Seed.prompt THEN [ws |-> Seed.ws, user |-> FALSE] ELSE None]
    /\ promptVersion = [v \in PromptVersions |-> IF v = Seed.promptVersion
          THEN [prompt |-> Seed.prompt, number |-> 1, renders |-> TRUE] ELSE None]
    /\ skill = [k \in Skills |->
          IF k = Seed.skill THEN [ws |-> Seed.ws] ELSE None]
    /\ \E spec \in SkillSpecs :
          skillVersion = [v \in SkillVersions |-> IF v = Seed.skillVersion
             THEN [skill |-> Seed.skill, number |-> 1, spec |-> spec,
                   status |-> "draft"] ELSE None]
    /\ \E s \in Settings :
          modelVersion = [v \in ModelVersions |-> IF v = Seed.modelVersion
             THEN [ws |-> Seed.ws, number |-> 1, settings |-> s] ELSE None]

PromptNext ==
    \E r \in Requests :
        \/ \E p \in Prompts, renders \in BOOLEAN :
              \/ \E row \in PromptRow : CreatePrompt(r, p, row, renders)
              \/ \E ws \in Workspaces : RequestPromptVersion(r, ws, p, renders)
        \/ CountPromptVersions(r)
        \/ \E v \in PromptVersions : CreatePromptVersion(r, v)
        \/ PromptVersionFails(r)
        \/ RollbackNewPrompt(r)
        \/ RollbackFails(r)

SkillNext ==
    \/ \E k \in Skills, v \in SkillVersions, ws \in Workspaces, spec \in SkillSpecs :
          CreateSkill(k, v, ws, spec)
    \/ \E r \in Requests :
          \/ \E ws \in Workspaces, k \in Skills, spec \in SkillSpecs :
                CountSkillVersions(r, ws, k, spec)
          \/ \E v \in SkillVersions : CreateSkillVersion(r, v)
          \/ SkillVersionFails(r)
          \/ \E ws \in Workspaces, v \in SkillVersions : PassSkillGate(r, ws, v)
          \/ PublishSkillVersion(r)

ModelNext ==
    \E r \in Requests :
        \/ \E ws \in Workspaces, s \in Settings : EnsureConfigVersion(r, ws, s)
        \/ \E v \in ModelVersions : CreateConfigVersion(r, v)
        \/ ConfigVersionFails(r)

AgentNext ==
    \/ \E r \in Requests :
          \/ \E ws \in Workspaces, a \in Agents \cup {None}, cfg \in AgentConfigs :
                ValidateAgent(r, ws, a, cfg)
          \/ BuildSnapshot(r)
          \/ \E v \in AgentVersions :
                \/ \E a \in Agents : CreateAgent(r, a, v)
                \/ CreateAgentVersion(r, v)
          \/ AgentVersionFails(r)
    \/ \E a \in Agents, env \in Envs :
          \/ \E ws \in Workspaces, v \in AgentVersions :
                PromoteAgentVersion(ws, a, env, v)
          \/ \E c \in Conversations : CreateConversationInEnv(c, a, env)
    \/ \E c \in Conversations, v \in AgentVersions :
          CreateConversationWithVersion(c, v)

Next == \/ ToolNext /\ UNCHANGED catalogVars
        \/ PromptNext \/ SkillNext \/ ModelNext \/ AgentNext

Spec == CatalogInit /\ [][Next]_vars

-----------------------------------------------------------------------------
(* Properties                                                              *)

\* Type invariant.
TypeOK ==
    /\ ToolTypeOK
    /\ job \in [Requests -> {Idle} \cup ToolJob \cup CatalogJob]
    /\ accepted \in 0 .. MaxRequests
    /\ prompt \in [Prompts -> PromptRow \cup {None}]
    /\ promptVersion \in [PromptVersions -> PromptVersionRow \cup {None}]
    /\ lost \subseteq Prompts \cup PromptVersions
    /\ skill \in [Skills -> SkillRow \cup {None}]
    /\ skillVersion \in [SkillVersions -> SkillVersionRow \cup {None}]
    /\ modelVersion \in [ModelVersions -> ModelVersionRow \cup {None}]
    /\ agent \in [Agents -> AgentRow \cup {None}]
    /\ agentVersion \in [AgentVersions -> AgentVersionRow \cup {None}]
    /\ agentEnv \in [Agents -> [Envs -> AgentVersions \cup {None}]]
    /\ conversation \in [Conversations -> ConversationRow \cup {None}]

\* Every service numbers a version from what it has listed (len + 1 or the
\* highest + 1) and inserts later; whatever requests overlap, the versions of a
\* parent are numbered 1, 2, ... without gap or repetition.
VersionsAreDense ==
    /\ \A t \in ExistingTools : Numbered(NumbersOf(t), VersionsOf(t))
    /\ \A p \in Prompts : Numbered({promptVersion[v].number : v \in PromptVersionsOf(p)},
                                   PromptVersionsOf(p))
    /\ \A k \in Skills : Numbered({skillVersion[v].number : v \in SkillVersionsOf(k)},
                                  SkillVersionsOf(k))
    /\ \A w \in Workspaces : Numbered({modelVersion[v].number : v \in ModelVersionsOf(w)},
                                      ModelVersionsOf(w))
    /\ \A a \in Agents : Numbered({agentVersion[v].number : v \in AgentVersionsOf(a)},
                                  AgentVersionsOf(a))

\* GetAgentSnapshotByVersion succeeds
Loads(ws, cfg) ==
    /\ promptVersion[cfg.sys] # None /\ promptVersion[cfg.sys].renders
    /\ \A v \in cfg.tools : ToolVersionValid(v, ws, FALSE)
    /\ \A k \in cfg.kbs : KbHome[k] = ws
    /\ \A v \in cfg.skills :
          /\ skillVersion[v] # None
          /\ skillVersion[v].status = "published"
          /\ skill[skillVersion[v].skill].ws = ws

\* GetUserPromptInputSpec finds the template of the first turn
HasTemplate(ws, cfg) ==
    cfg.user # None =>
        /\ promptVersion[cfg.user] # None
        /\ prompt[promptVersion[cfg.user].prompt] = [ws |-> ws, user |-> TRUE]

\* The agent can be executed: its snapshot loads, its template is found, and a
\* skill is restricted to tools the agent has.
Runs(ws, cfg) ==
    /\ Loads(ws, cfg) /\ HasTemplate(ws, cfg)
    /\ \A k \in cfg.skills, n \in ToolNames :
          n \in skillVersion[k].spec.tools =>
             \E t \in cfg.tools : tool[toolVersion[t].tool].name = n

\* A rollback of a prompt's creation deleted what the configuration pins.
Orphaned(cfg) == {cfg.sys, cfg.user} \cap lost # {}

\* A stored agent version can be run at any later time.  The validation runs to
\* prevent a version that fails on every execution (agent/service.go:455).  The
\* one exception is a prompt version that the rollback of its prompt's creation
\* deleted after it was pinned.
ReleasedRuns ==
    \A v \in AgentVersions : agentVersion[v] # None =>
        \/ Orphaned(agentVersion[v].snapshot)
        \/ Runs(agent[agentVersion[v].agent].ws, agentVersion[v].snapshot)

\* Starting several servers with the same settings adds no second version:
\* neighbouring versions of a model configuration differ.
ModelVersionsDiffer ==
    \A ws \in Workspaces : \A v, w \in ModelVersionsOf(ws) :
        modelVersion[w].number = modelVersion[v].number + 1 =>
            modelVersion[v].settings # modelVersion[w].settings

\* An environment and a conversation point only at versions of their own agent,
\* and a conversation lives in the workspace of its agent.
BindingsOwn ==
    /\ \A a \in Agents, e \in Envs : agentEnv[a][e] # None =>
          agentEnv[a][e] \in AgentVersionsOf(a)
    /\ \A c \in Conversations : conversation[c] # None =>
          /\ conversation[c].version \in AgentVersionsOf(conversation[c].agent)
          /\ agent[conversation[c].agent] = [ws |-> conversation[c].ws]

\* No version changes what it says in this step.
VersionsKept ==
    /\ \A v \in ExistingToolVersions :
          /\ toolVersion'[v] # None
          /\ \A f \in {"tool", "number", "config", "secret"} :
                toolVersion'[v][f] = toolVersion[v][f]
          /\ toolVersion[v].sealed => toolVersion'[v].sealed
          /\ toolVersion[v].status = "published" =>
                toolVersion'[v].status = "published"
    /\ \A v \in PromptVersions : promptVersion[v] # None =>
          promptVersion'[v] = promptVersion[v] \/ v \in lost'
    /\ \A v \in SkillVersions : skillVersion[v] # None =>
          /\ skillVersion'[v] # None
          /\ skillVersion'[v].spec = skillVersion[v].spec
          /\ skillVersion'[v].number = skillVersion[v].number
          /\ skillVersion'[v].skill = skillVersion[v].skill
          /\ skillVersion[v].status = "published" =>
                skillVersion'[v].status = "published"
    /\ \A v \in ModelVersions : modelVersion[v] # None =>
          modelVersion'[v] = modelVersion[v]
    /\ \A v \in AgentVersions : agentVersion[v] # None =>
          agentVersion'[v] = agentVersion[v]

\* What a version says never changes: requests, publishing and the encryption
\* of old credentials leave its content and its credential as they were, and a
\* version disappears only with a prompt that is rolled back.
VersionsImmutable == [][VersionsKept]_vars
=============================================================================
