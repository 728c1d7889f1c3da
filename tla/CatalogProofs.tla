--------------------------- MODULE CatalogProofs ---------------------------
(***************************************************************************)
(* Proofs about Catalog for every set of workspaces, rows, ids and         *)
(* requests, with any number of requests under way.                        *)
(***************************************************************************)
EXTENDS Catalog, FiniteSetTheorems, TLAPS

-----------------------------------------------------------------------------
(* The inductive invariant, one part per family of rows *)

\* The rows of table f whose column k is p, and their numbers.
Rows(f, k, p) == {v \in DOMAIN f : f[v] # None /\ f[v][k] = p}
Nums(f, k, p) == {f[v].number : v \in Rows(f, k, p)}

\* The versions of one parent are finitely many and densely numbered.
Dense(numbers, rows) == IsFiniteSet(rows) /\ Numbered(numbers, rows)
DenseIn(f, k, P) == \A p \in P : Dense(Nums(f, k, p), Rows(f, k, p))

\* A number that can still be inserted, or was taken in the meantime.
Offered(n, rows) == n \in 1 .. Cardinality(rows) + 1

\* A tool version belongs to a tool, and a request under way numbers within
\* what the tool has.
ToolsInv ==
    /\ \A v \in ExistingToolVersions : tool[toolVersion[v].tool] # None
    /\ DenseIn(toolVersion, "tool", Tools)
    /\ \A r \in Requests : job[r].op \in {"copied", "numbered"} =>
          tool[job[r].tool] # None
    /\ \A r \in Requests : job[r].op = "numbered" =>
          Offered(job[r].number, Rows(toolVersion, "tool", job[r].tool))

\* A prompt version goes with its prompt; the prompt of a request under way is
\* there or was rolled back, and its id is not given again.
PromptsInv ==
    /\ \A v \in PromptVersions : promptVersion[v] # None =>
          prompt[promptVersion[v].prompt] # None
    /\ DenseIn(promptVersion, "prompt", Prompts)
    /\ \A r \in Requests : job[r].op \in {"prompted", "counted"} =>
          prompt[job[r].prompt] # None \/ job[r].prompt \in lost
    /\ \A r \in Requests : job[r].op = "counted" =>
          \/ prompt[job[r].prompt] = None
          \/ Offered(job[r].number, Rows(promptVersion, "prompt", job[r].prompt))

SkillsInv ==
    /\ \A v \in SkillVersions : skillVersion[v] # None =>
          skill[skillVersion[v].skill] # None
    /\ DenseIn(skillVersion, "skill", Skills)
    /\ \A r \in Requests : job[r].op = "skill counted" =>
          /\ skill[job[r].skill] # None
          /\ Offered(job[r].number, Rows(skillVersion, "skill", job[r].skill))

\* The settings of a request under way differ from the version before them.
ModelsInv ==
    /\ DenseIn(modelVersion, "ws", Workspaces)
    /\ \A r \in Requests : job[r].op = "model" =>
          /\ Offered(job[r].number, Rows(modelVersion, "ws", job[r].ws))
          /\ \A v \in Rows(modelVersion, "ws", job[r].ws) :
                job[r].number = modelVersion[v].number + 1 =>
                   modelVersion[v].settings # job[r].settings
    /\ ModelVersionsDiffer

\* An agent that a request under way names lives in the workspace of the request;
\* the first version of a new agent is version 1.
AgentsInv ==
    /\ DenseIn(agentVersion, "agent", Agents)
    /\ \A r \in Requests : job[r].op \in {"validated", "built"} =>
          job[r].agent = None \/ agent[job[r].agent] = [ws |-> job[r].ws]
    /\ \A r \in Requests : job[r].op = "built" =>
          IF job[r].agent = None THEN job[r].number = 1
          ELSE Offered(job[r].number, Rows(agentVersion, "agent", job[r].agent))
    /\ BindingsOwn

\* What validateVersionDependencies has seen stays true unless a rollback
\* deleted it: the part of Runs that is about prompts.
PromptsPinned(ws, cfg) ==
    /\ promptVersion[cfg.sys] # None /\ promptVersion[cfg.sys].renders
    /\ HasTemplate(ws, cfg)

\* A request carries a configuration past the step op; a stored version carries it.
Carries(r, op, ws, cfg) == job[r].op = op /\ job[r].ws = ws /\ job[r].config = cfg
Stores(v, ws, cfg) ==
    /\ agentVersion[v] # None
    /\ agent[agentVersion[v].agent].ws = ws /\ agentVersion[v].snapshot = cfg

\* A request past its validation, and past its build, carries a configuration
\* that is as good as a stored one.
RunsInv ==
    \A ws \in Workspaces, cfg \in AgentConfig :
        /\ \A r \in Requests : Carries(r, "validated", ws, cfg) =>
              Orphaned(cfg) \/ PromptsPinned(ws, cfg)
        /\ \A r \in Requests : Carries(r, "built", ws, cfg) =>
              Orphaned(cfg) \/ Runs(ws, cfg)
        /\ \A v \in AgentVersions : Stores(v, ws, cfg) =>
              Orphaned(cfg) \/ Runs(ws, cfg)

Inv == ToolsInv /\ PromptsInv /\ SkillsInv /\ ModelsInv /\ AgentsInv /\ RunsInv

-----------------------------------------------------------------------------
(* Requests under way *)

Job == {Idle} \cup ToolJob \cup CatalogJob

ToolOps == {"copied", "numbered", "testing", "filing", "publishing", "sealing"}
PromptOps == {"prompted", "counted", "rollback"}
SkillOps == {"skill counted", "skill publishing"}
ModelOps == {"model"}
AgentOps == {"validated", "built"}

\* What a request holds between two statements of a tool operation.
LEMMA ToolJobFields ==
    ASSUME NEW j \in Job
    PROVE  /\ j.op \in {"copied", "numbered"} =>
                 j.tool \in Tools /\ j.config \in Configs /\ j.secret \in Secrets \cup {None}
           /\ j.op = "numbered" => j.number \in Nat
           /\ j.op = "testing" => j.tool \in Tools /\ j.ran \in ToolVersions
           /\ j.op = "filing" => j.version \in ToolVersions /\ j.ran \in ToolVersions
           /\ j.op = "publishing" => j.version \in ToolVersions
           /\ j.op = "sealing" =>
                 j \in [op : {"sealing"}, versions : SUBSET ToolVersions]
<1>1. CASE j = Idle
  BY <1>1 DEF Idle
<1>2. CASE j \in ToolJob
  BY <1>2 DEF ToolJob
<1>3. CASE j \in CatalogJob
  BY <1>3 DEF CatalogJob
<1> QED
  BY <1>1, <1>2, <1>3 DEF Job

\* What it holds in the other operations.
LEMMA CatalogJobFields ==
    ASSUME NEW j \in Job
    PROVE  /\ j.op \in {"prompted", "counted", "rollback"} => j.prompt \in Prompts
           /\ j.op \in {"prompted", "counted"} =>
                 j.renders \in BOOLEAN /\ j.new \in BOOLEAN
           /\ j.op = "counted" => j.number \in Nat
           /\ j.op = "skill counted" =>
                 j.skill \in Skills /\ j.spec \in SkillSpec /\ j.number \in Nat
           /\ j.op = "skill publishing" => j.version \in SkillVersions
           /\ j.op = "model" =>
                 j.ws \in Workspaces /\ j.settings \in Settings /\ j.number \in Nat
           /\ j.op \in {"validated", "built"} =>
                 j.agent \in Agents \cup {None} /\ j.ws \in Workspaces
                 /\ j.config \in AgentConfig
           /\ j.op = "built" => j.number \in Nat
<1>1. CASE j = Idle
  BY <1>1 DEF Idle
<1>2. CASE j \in ToolJob
  BY <1>2 DEF ToolJob
<1>3. CASE j \in CatalogJob
  BY <1>3 DEF CatalogJob
<1> QED
  BY <1>1, <1>2, <1>3 DEF Job

\* The rows a request under way is going to change are there: without them an
\* UPDATE would have no row to write.
ToolsKnown ==
    \A r \in Requests :
        /\ job[r].op = "publishing" => job[r].version \in ExistingToolVersions
        /\ job[r].op = "sealing" => job[r].versions \subseteq ExistingToolVersions

\* Only finitely many versions exist, so listing them gives a number.
PromptsKnown == IsFiniteSet({v \in PromptVersions : promptVersion[v] # None})

SkillsKnown ==
    /\ IsFiniteSet({v \in SkillVersions : skillVersion[v] # None})
    /\ \A r \in Requests : job[r].op = "skill publishing" =>
          skillVersion[job[r].version] # None

AgentsKnown ==
    /\ IsFiniteSet({v \in AgentVersions : agentVersion[v] # None})
    /\ \A v \in AgentVersions : agentVersion[v] # None =>
          agent[agentVersion[v].agent] # None
    /\ \A a \in Agents, e \in Envs : agentEnv[a][e] # None => agent[a] # None
    /\ \A r \in Requests : job[r].op \in {"validated", "built"} =>
          job[r].agent = None \/ agent[job[r].agent] # None

TypeInv == TypeOK /\ ToolsKnown /\ PromptsKnown /\ SkillsKnown /\ AgentsKnown

\* The step moves a request only within the operations ops.
JobsMove(ops) ==
    /\ job' \in [Requests -> Job]
    /\ \A r \in Requests : job'[r] = job[r] \/ job'[r] = Idle \/ job'[r].op \in ops
    /\ accepted' \in 0 .. MaxRequests

\* Every request is idle or holds a job.
LEMMA JobType ==
    ASSUME TypeOK
    PROVE  /\ job \in [Requests -> Job]
           /\ \A r \in Requests : job[r] \in Job
           /\ accepted \in 0 .. MaxRequests
BY DEF TypeOK, Job

\* A request is accepted, continues, or ends.
LEMMA JobMoves ==
    ASSUME TypeOK, NEW r \in Requests, NEW j \in Job, NEW ops,
           j = Idle \/ j.op \in ops,
           Start(r, j) \/ Continue(r, j)
    PROVE  JobsMove(ops) /\ job' = [job EXCEPT ![r] = j]
BY JobType, RegistryAssumption DEF JobsMove, Start, Accept, Continue

\* A request of one statement holds nothing.
LEMMA JobStays ==
    ASSUME TypeOK, NEW ops, UNCHANGED job, Accept \/ UNCHANGED accepted
    PROVE  JobsMove(ops)
BY JobType, RegistryAssumption DEF JobsMove, Accept

\* An idle request holds nothing.
LEMMA IdleIsJob == Idle \in Job
BY DEF Job

-----------------------------------------------------------------------------
(* Type correctness *)

\* A new tool version is a row.
LEMMA NewToolVersionType ==
    ASSUME NEW t \in Tools, NEW n \in Nat, NEW c \in Configs, NEW s \in Secrets \cup {None}
    PROVE  NewToolVersion(t, n, c, s) \in ToolVersionRow
BY DEF NewToolVersion, ToolVersionRow

\* A tool version that is read is a row.
LEMMA ToolVersionType ==
    ASSUME TypeOK, NEW v \in ExistingToolVersions
    PROVE  v \in ToolVersions /\ toolVersion[v] \in ToolVersionRow
BY DEF TypeOK, ToolTypeOK, ExistingToolVersions

\* Every operation of the tool registry keeps the types of its tables, and
\* moves requests only within its own operations.
LEMMA ToolStepType ==
    ASSUME TypeInv, ToolNext
    PROVE  ToolTypeOK' /\ JobsMove(ToolOps)
<1> USE DEF toolVars
<1>0. TypeOK /\ ToolTypeOK /\ ToolsKnown
  BY DEF TypeInv, TypeOK
<1>1. ASSUME NEW t \in Tools, NEW v \in ToolVersions, NEW row \in ToolRow,
             NEW c \in Configs, NEW s \in Secrets \cup {None},
             CreateTool(t, v, row, c, s)
      PROVE  ToolTypeOK' /\ JobsMove(ToolOps)
  <2>1. NewToolVersion(t, 1, c, s) \in ToolVersionRow
    BY NewToolVersionType
  <2>2. JobsMove(ToolOps)
    BY <1>1, <1>0, JobStays DEF CreateTool
  <2> QED
    BY <1>0, <1>1, <2>1, <2>2 DEF CreateTool, CreateToolWithVersion, ToolTypeOK
<1>2. ASSUME NEW r \in Requests, NEW ws \in Workspaces, NEW t \in Tools, TestTool(r, ws, t)
      PROVE  ToolTypeOK' /\ JobsMove(ToolOps)
  <2>1. PICK v \in VersionsOf(t) : Start(r, [op |-> "testing", tool |-> t, ran |-> v])
    BY <1>2 DEF TestTool
  <2>2. [op |-> "testing", tool |-> t, ran |-> v] \in Job
    BY DEF Job, ToolJob, VersionsOf, ExistingToolVersions
  <2>3. JobsMove(ToolOps)
    BY <2>1, <2>2, <1>0, JobMoves DEF ToolOps
  <2> QED
    BY <1>0, <1>2, <2>3 DEF TestTool, ToolTypeOK
<1>3. ASSUME NEW r \in Requests, NEW ws \in Workspaces, NEW t \in Tools,
             NEW c \in Configs \cup {None}, NEW s \in Secrets \cup {None},
             CopyCurrentVersion(r, ws, t, c, s)
      PROVE  ToolTypeOK' /\ JobsMove(ToolOps)
  <2>1. PICK v \in VersionsOf(t) :
          Start(r, [op |-> "copied", tool |-> t,
                    config |-> IF c = None THEN toolVersion[v].config ELSE c,
                    secret |-> IF s = None THEN toolVersion[v].secret ELSE s])
    BY <1>3 DEF CopyCurrentVersion
  <2>2. v \in ToolVersions /\ toolVersion[v] \in ToolVersionRow
    BY <1>0, ToolVersionType DEF VersionsOf
  <2>3. [op |-> "copied", tool |-> t,
         config |-> IF c = None THEN toolVersion[v].config ELSE c,
         secret |-> IF s = None THEN toolVersion[v].secret ELSE s] \in Job
    BY <2>2 DEF Job, ToolJob, ToolVersionRow
  <2>4. JobsMove(ToolOps)
    BY <2>1, <2>3, <1>0, JobMoves DEF ToolOps
  <2> QED
    BY <1>0, <1>3, <2>4 DEF CopyCurrentVersion, ToolTypeOK
<1>4. ASSUME NEW r \in Requests, NEW ws \in Workspaces, NEW v \in ToolVersions,
             PassPublishGate(r, ws, v)
      PROVE  ToolTypeOK' /\ JobsMove(ToolOps)
  <2>1. [op |-> "publishing", version |-> v] \in Job
    BY DEF Job, ToolJob
  <2>2. JobsMove(ToolOps)
    BY <1>4, <2>1, <1>0, JobMoves DEF PassPublishGate, ToolOps
  <2> QED
    BY <1>0, <1>4, <2>2 DEF PassPublishGate, ToolTypeOK
<1>5. ASSUME NEW r \in Requests, NumberToolVersion(r)
      PROVE  ToolTypeOK' /\ JobsMove(ToolOps)
  <2>1. PICK n \in NumbersOf(job[r].tool) :
          Continue(r, [op |-> "numbered", tool |-> job[r].tool, config |-> job[r].config,
                       secret |-> job[r].secret, number |-> n + 1])
    BY <1>5 DEF NumberToolVersion
  <2>2. n \in Nat
    BY <1>0, ToolVersionType DEF NumbersOf, VersionsOf, ToolVersionRow
  <2>3. [op |-> "numbered", tool |-> job[r].tool, config |-> job[r].config,
         secret |-> job[r].secret, number |-> n + 1] \in Job
    <3>1. job[r].op = "copied"
      BY <1>5 DEF NumberToolVersion
    <3> QED
      BY <2>2, <3>1, <1>0, JobType, ToolJobFields DEF Job, ToolJob
  <2>4. JobsMove(ToolOps)
    BY <2>1, <2>3, <1>0, JobMoves DEF ToolOps
  <2> QED
    BY <1>0, <1>5, <2>4 DEF NumberToolVersion, ToolTypeOK
<1>6. ASSUME NEW r \in Requests, Done(r) PROVE JobsMove(ToolOps)
  BY <1>6, IdleIsJob, <1>0, JobMoves DEF Done
<1>7. ASSUME NEW r \in Requests, CreateToolVersionRefused(r) \/ RecordFailedRun(r)
      PROVE  ToolTypeOK' /\ JobsMove(ToolOps)
  BY <1>0, <1>6, <1>7 DEF CreateToolVersionRefused, RecordFailedRun, ToolTypeOK
<1>8. ASSUME NEW r \in Requests, RecordTestRun(r)
      PROVE  ToolTypeOK' /\ JobsMove(ToolOps)
  <2>1. job[r].version \in ToolVersions /\ job[r].ran \in ToolVersions
    BY <1>8, <1>0, JobType, ToolJobFields DEF RecordTestRun
  <2>2. [version |-> job[r].version, ran |-> job[r].ran, fresh |-> TRUE] \in TestRunRow
    BY <2>1 DEF TestRunRow
  <2> QED
    BY <1>0, <1>6, <1>8, <2>2 DEF RecordTestRun, CreateTestRun, ToolTypeOK
<1>8a. ASSUME NEW r \in Requests, FindTestedVersion(r)
      PROVE  ToolTypeOK' /\ JobsMove(ToolOps)
  <2>1. PICK v \in VersionsOf(job[r].tool) :
          Continue(r, [op |-> "filing", version |-> v, ran |-> job[r].ran])
    BY <1>8a DEF FindTestedVersion
  <2>2. v \in ToolVersions /\ job[r].ran \in ToolVersions
    BY <1>8a, <1>0, JobType, ToolJobFields DEF FindTestedVersion, VersionsOf, ExistingToolVersions
  <2>3. [op |-> "filing", version |-> v, ran |-> job[r].ran] \in Job
    BY <2>2 DEF Job, ToolJob
  <2>4. JobsMove(ToolOps)
    BY <2>1, <2>3, <1>0, JobMoves DEF ToolOps
  <2> QED
    BY <1>0, <1>8a, <2>4 DEF FindTestedVersion, ToolTypeOK
<1>9. ASSUME NEW r \in Requests, PublishToolVersion(r)
      PROVE  ToolTypeOK' /\ JobsMove(ToolOps)
  <2>1. job[r].version \in ToolVersions /\ toolVersion[job[r].version] \in ToolVersionRow
    BY <1>0, <1>9, ToolVersionType DEF PublishToolVersion, ToolsKnown
  <2>2. [toolVersion[job[r].version] EXCEPT !.status = "published"] \in ToolVersionRow
    BY <2>1 DEF ToolVersionRow
  <2> QED
    BY <1>0, <1>6, <1>9, <2>1, <2>2 DEF PublishToolVersion, UpdateToolVersionStatus, ToolTypeOK
<1>10. ASSUME NEW r \in Requests, ListLegacyCredentials(r)
      PROVE  ToolTypeOK' /\ JobsMove(ToolOps)
  <2>1. [op |-> "sealing", versions |-> LegacyVersions] \in Job
    BY DEF Job, ToolJob, LegacyVersions, ExistingToolVersions
  <2>2. JobsMove(ToolOps)
    BY <1>10, <2>1, <1>0, JobMoves DEF ListLegacyCredentials, ToolOps
  <2> QED
    BY <1>0, <1>10, <2>2 DEF ListLegacyCredentials, ToolTypeOK
<1>11. ASSUME NEW r \in Requests, NEW v \in ToolVersions, CreateToolVersion(r, v)
      PROVE  ToolTypeOK' /\ JobsMove(ToolOps)
  <2>1. NewToolVersion(job[r].tool, job[r].number, job[r].config, job[r].secret)
          \in ToolVersionRow
    BY <1>11, <1>0, JobType, ToolJobFields, NewToolVersionType DEF CreateToolVersion
  <2> QED
    BY <1>0, <1>6, <1>11, <2>1 DEF CreateToolVersion, InsertToolVersion, ToolTypeOK
<1>12. ASSUME NEW r \in Requests, NEW v \in ToolVersions, SealLegacyCredential(r, v)
      PROVE  ToolTypeOK' /\ JobsMove(ToolOps)
  <2> DEFINE j == IF job[r].versions = {v} THEN Idle
                  ELSE [job[r] EXCEPT !.versions = @ \ {v}]
  <2>1. job[r] \in [op : {"sealing"}, versions : SUBSET ToolVersions]
    BY <1>12, <1>0, JobType, ToolJobFields DEF SealLegacyCredential
  <2>2. j = Idle \/ (j \in [op : {"sealing"}, versions : SUBSET ToolVersions] /\ j.op = "sealing")
    BY <2>1
  <2>3. j \in Job /\ (j = Idle \/ j.op \in ToolOps)
    BY <2>2 DEF Job, ToolJob, ToolOps
  <2>4. JobsMove(ToolOps)
    <3> HIDE DEF j
    <3>1. Continue(r, j)
      BY <1>12 DEF SealLegacyCredential, j
    <3> QED
      BY <2>3, <3>1, <1>0, JobMoves
  <2> QED
    <3>1. toolVersion[v] \in ToolVersionRow
      BY <1>0, <1>12, ToolVersionType DEF SealLegacyCredential, ToolsKnown
    <3>2. [toolVersion[v] EXCEPT !.sealed = TRUE] \in ToolVersionRow
      BY <3>1 DEF ToolVersionRow
    <3> QED
      BY <1>0, <1>12, <2>4, <3>2 DEF SealLegacyCredential, EncryptToolVersionAuth, ToolTypeOK
<1>13. ASSUME NEW run \in testRun, AgeTestRun(run)
      PROVE  ToolTypeOK' /\ JobsMove(ToolOps)
  <2>1. [run EXCEPT !.fresh = FALSE] \in TestRunRow
    BY <1>0 DEF ToolTypeOK, TestRunRow
  <2>2. JobsMove(ToolOps)
    BY <1>13, <1>0, JobStays DEF AgeTestRun
  <2> QED
    BY <1>0, <1>13, <2>1, <2>2 DEF AgeTestRun, ToolTypeOK
<1> QED
  BY <1>1, <1>2, <1>3, <1>4, <1>5, <1>7, <1>8, <1>8a, <1>9, <1>10, <1>11, <1>12,
     <1>13 DEF ToolNext

\* A tool stays as it is; a tool version stays, keeps what it says, and once
\* sealed or published stays so.
ToolsKeep ==
    /\ \A t \in Tools : tool[t] # None => tool'[t] = tool[t]
    /\ \A v \in ExistingToolVersions :
          /\ toolVersion'[v] # None
          /\ toolVersion'[v].tool = toolVersion[v].tool
          /\ toolVersion'[v].number = toolVersion[v].number
          /\ toolVersion'[v].config = toolVersion[v].config
          /\ toolVersion'[v].secret = toolVersion[v].secret
          /\ toolVersion[v].sealed => toolVersion'[v].sealed
          /\ toolVersion[v].status = "published" => toolVersion'[v].status = "published"

\* The steps of the registry that write tools or tool_versions.
LEMMA ToolWrites ==
    ASSUME ToolNext
    PROVE  \/ UNCHANGED <<tool, toolVersion>>
           \/ \E t \in Tools, v \in ToolVersions, row \in ToolRow, c \in Configs,
                 s \in Secrets \cup {None} : CreateTool(t, v, row, c, s)
           \/ \E r \in Requests : PublishToolVersion(r)
           \/ \E r \in Requests, v \in ToolVersions : CreateToolVersion(r, v)
           \/ \E r \in Requests, v \in ToolVersions : SealLegacyCredential(r, v)
BY DEF ToolNext, toolVars, TestTool, CopyCurrentVersion, PassPublishGate, NumberToolVersion,
       CreateToolVersionRefused, FindTestedVersion, RecordTestRun, RecordFailedRun,
       ListLegacyCredentials, AgeTestRun

\* A fresh id is one of the free ones.
LEMMA FreshIsFree ==
    ASSUME NEW S, NEW x, FreshIn(x, S)
    PROVE  x \in S
BY DEF FreshIn

\* The registry changes no tool, and no version in what it says.
LEMMA ToolsKeepStep ==
    ASSUME TypeInv, ToolNext
    PROVE  ToolsKeep
<1>0. TypeOK /\ ToolTypeOK /\ ToolsKnown
  BY DEF TypeInv, TypeOK
<1>1. CASE UNCHANGED <<tool, toolVersion>>
  BY <1>1 DEF ToolsKeep, ExistingToolVersions
<1>2. ASSUME NEW t \in Tools, NEW v \in ToolVersions, NEW row \in ToolRow,
             NEW c \in Configs, NEW s \in Secrets \cup {None},
             CreateTool(t, v, row, c, s)
      PROVE  ToolsKeep
  <2>1. tool[t] = None /\ v \notin ExistingToolVersions
    BY <1>2, FreshIsFree DEF CreateTool, CreateToolWithVersion
  <2> QED
    BY <1>0, <1>2, <2>1 DEF CreateTool, CreateToolWithVersion, ToolsKeep, ToolTypeOK,
                            ExistingToolVersions
<1>3. ASSUME NEW r \in Requests, PublishToolVersion(r)
      PROVE  ToolsKeep
  <2>1. job[r].version \in ToolVersions /\ toolVersion[job[r].version] \in ToolVersionRow
    BY <1>0, <1>3, ToolVersionType DEF PublishToolVersion, ToolsKnown
  <2>2. [toolVersion[job[r].version] EXCEPT !.status = "published"] \in ToolVersionRow
    BY <2>1 DEF ToolVersionRow
  <2>3. [toolVersion[job[r].version] EXCEPT !.status = "published"] # None
    BY <2>2, ToolRowsAssumption
  <2> QED
    BY <1>0, <1>3, <2>1, <2>3 DEF PublishToolVersion, UpdateToolVersionStatus, ToolsKeep,
          ToolTypeOK, ExistingToolVersions, ToolVersionRow
<1>4. ASSUME NEW r \in Requests, NEW v \in ToolVersions, CreateToolVersion(r, v)
      PROVE  ToolsKeep
  <2>1. v \notin ExistingToolVersions
    BY <1>4, FreshIsFree DEF CreateToolVersion, InsertToolVersion
  <2> QED
    BY <1>0, <1>4, <2>1 DEF CreateToolVersion, InsertToolVersion, ToolsKeep, ToolTypeOK,
                            ExistingToolVersions
<1>5. ASSUME NEW r \in Requests, NEW v \in ToolVersions, SealLegacyCredential(r, v)
      PROVE  ToolsKeep
  <2>1. toolVersion[v] \in ToolVersionRow
    BY <1>0, <1>5, ToolVersionType DEF SealLegacyCredential, ToolsKnown
  <2>2. [toolVersion[v] EXCEPT !.sealed = TRUE] \in ToolVersionRow
    BY <2>1 DEF ToolVersionRow
  <2>3. [toolVersion[v] EXCEPT !.sealed = TRUE] # None
    BY <2>2, ToolRowsAssumption
  <2> QED
    BY <1>0, <1>5, <2>1, <2>3 DEF SealLegacyCredential, EncryptToolVersionAuth, ToolsKeep,
          ToolTypeOK, ExistingToolVersions, ToolVersionRow
<1> QED
  BY <1>1, <1>2, <1>3, <1>4, <1>5, ToolWrites

\* The registry knows the versions it is going to publish or seal.
LEMMA ToolsKnownStep ==
    ASSUME TypeInv, ToolNext
    PROVE  ToolsKnown'
<1>0. TypeOK /\ ToolTypeOK /\ ToolsKnown /\ ToolsKeep /\ JobsMove(ToolOps)
  BY ToolsKeepStep, ToolStepType DEF TypeInv, TypeOK
<1>1. ExistingToolVersions \subseteq ExistingToolVersions'
  BY <1>0 DEF ToolsKeep, ExistingToolVersions
<1> DEFINE Knows(q) ==
             \/ job'[q] = job[q]
             \/ job'[q].op \notin {"publishing", "sealing"}
             \/ job'[q].op = "publishing" /\ job'[q].version \in ExistingToolVersions
             \/ job'[q].op = "sealing" /\ job'[q].versions \subseteq ExistingToolVersions
<1>2. ASSUME NEW q \in Requests, Knows(q)
      PROVE  /\ job'[q].op = "publishing" => job'[q].version \in ExistingToolVersions'
             /\ job'[q].op = "sealing" => job'[q].versions \subseteq ExistingToolVersions'
  BY <1>0, <1>1, <1>2 DEF ToolsKnown
<1>3. ASSUME NEW q \in Requests PROVE Knows(q)
  <2> USE DEF Start, Continue, Done, Idle
  <2>0. job \in [Requests -> Job]
    BY <1>0, JobType
  <2>1. ASSUME NEW r \in Requests, NEW ws \in Workspaces, NEW v \in ToolVersions,
               PassPublishGate(r, ws, v)
        PROVE  Knows(q)
    BY <2>0, <2>1 DEF PassPublishGate
  <2>2. ASSUME NEW r \in Requests, ListLegacyCredentials(r)
        PROVE  Knows(q)
    BY <2>0, <2>2 DEF ListLegacyCredentials, LegacyVersions
  <2>3. ASSUME NEW r \in Requests, NEW v \in ToolVersions, SealLegacyCredential(r, v)
        PROVE  Knows(q)
    <3>1. job[r] \in [op : {"sealing"}, versions : SUBSET ToolVersions]
      BY <1>0, <2>3, JobType, ToolJobFields DEF SealLegacyCredential
    <3>2. job[r].versions \subseteq ExistingToolVersions
      BY <1>0, <2>3 DEF SealLegacyCredential, ToolsKnown
    <3> QED
      BY <2>0, <2>3, <3>1, <3>2 DEF SealLegacyCredential
  <2>4. ASSUME NEW t \in Tools, NEW v \in ToolVersions, NEW row \in ToolRow,
               NEW c \in Configs, NEW s \in Secrets \cup {None},
               CreateTool(t, v, row, c, s)
        PROVE  Knows(q)
    BY <2>4 DEF CreateTool
  <2>5. ASSUME NEW r \in Requests, NEW ws \in Workspaces, NEW t \in Tools,
               \/ TestTool(r, ws, t)
               \/ \E c \in Configs \cup {None}, s \in Secrets \cup {None} :
                     CopyCurrentVersion(r, ws, t, c, s)
        PROVE  Knows(q)
    BY <2>0, <2>5 DEF TestTool, CopyCurrentVersion
  <2>6. ASSUME NEW r \in Requests,
               \/ NumberToolVersion(r) \/ CreateToolVersionRefused(r) \/ RecordTestRun(r)
               \/ FindTestedVersion(r) \/ RecordFailedRun(r) \/ PublishToolVersion(r)
               \/ \E v \in ToolVersions : CreateToolVersion(r, v)
        PROVE  Knows(q)
    BY <2>0, <2>6 DEF NumberToolVersion, CreateToolVersionRefused, RecordTestRun,
          FindTestedVersion, RecordFailedRun, PublishToolVersion, CreateToolVersion
  <2>7. ASSUME NEW run \in testRun, AgeTestRun(run) PROVE Knows(q)
    BY <2>7 DEF AgeTestRun
  <2> HIDE DEF Knows
  <2> QED
    BY <2>1, <2>2, <2>3, <2>4, <2>5, <2>6, <2>7 DEF ToolNext
<1> QED
  BY <1>2, <1>3 DEF ToolsKnown

promptVars == <<prompt, promptVersion, lost>>
skillVars == <<skill, skillVersion>>
agentVars == <<agent, agentVersion, agentEnv, conversation>>

PromptTypeOK ==
    /\ prompt \in [Prompts -> PromptRow \cup {None}]
    /\ promptVersion \in [PromptVersions -> PromptVersionRow \cup {None}]
    /\ lost \subseteq Prompts \cup PromptVersions
SkillTypeOK ==
    /\ skill \in [Skills -> SkillRow \cup {None}]
    /\ skillVersion \in [SkillVersions -> SkillVersionRow \cup {None}]
ModelTypeOK == modelVersion \in [ModelVersions -> ModelVersionRow \cup {None}]
AgentTypeOK ==
    /\ agent \in [Agents -> AgentRow \cup {None}]
    /\ agentVersion \in [AgentVersions -> AgentVersionRow \cup {None}]
    /\ agentEnv \in [Agents -> [Envs -> AgentVersions \cup {None}]]
    /\ conversation \in [Conversations -> ConversationRow \cup {None}]

\* The type invariant, family by family.
LEMMA TypeParts ==
    TypeOK <=> /\ ToolTypeOK /\ PromptTypeOK /\ SkillTypeOK /\ ModelTypeOK /\ AgentTypeOK
               /\ job \in [Requests -> Job] /\ accepted \in 0 .. MaxRequests
BY DEF TypeOK, PromptTypeOK, SkillTypeOK, ModelTypeOK, AgentTypeOK, Job

\* A prompt version stays as it is, and so does its prompt, unless both are
\* deleted and the version is lost.
PromptsKeep ==
    /\ lost \subseteq lost'
    /\ \A p \in Prompts : prompt[p] # None => prompt'[p] = prompt[p] \/ p \in lost'
    /\ \A v \in PromptVersions : promptVersion[v] # None =>
          \/ v \in lost'
          \/ /\ promptVersion'[v] = promptVersion[v]
             /\ prompt[promptVersion[v].prompt] # None =>
                  prompt'[promptVersion[v].prompt] = prompt[promptVersion[v].prompt]

\* What a listing of versions counts.
LEMMA ListedPromptVersions ==
    ASSUME PromptsKnown, NEW p
    PROVE  Cardinality(PromptVersionsOf(p)) \in Nat /\ IsFiniteSet(PromptVersionsOf(p))
<1>1. PromptVersionsOf(p) \subseteq {v \in PromptVersions : promptVersion[v] # None}
  BY DEF PromptVersionsOf
<1> QED
  BY <1>1, FS_Subset, FS_CardinalityType DEF PromptsKnown

\* Every operation on prompts keeps the types of its tables, moves requests only
\* within its own operations, and writes no other table.
LEMMA PromptStepType ==
    ASSUME TypeOK, PromptsKnown, PromptNext
    PROVE  /\ PromptTypeOK' /\ PromptsKeep /\ JobsMove(PromptOps)
           /\ UNCHANGED <<toolVars, skillVars, modelVersion, agentVars>>
<1> USE DEF toolVars, catalogVars, promptVars, skillVars, agentVars
<1> DEFINE Goal == /\ PromptTypeOK' /\ PromptsKeep /\ JobsMove(PromptOps)
                   /\ UNCHANGED <<toolVars, skillVars, modelVersion, agentVars>>
<1>0. PromptTypeOK
  BY TypeParts
<1>1. ASSUME UNCHANGED <<toolVars, catalogVars>>, JobsMove(PromptOps) PROVE Goal
  BY <1>0, <1>1 DEF PromptTypeOK, PromptsKeep
<1>2. ASSUME NEW r \in Requests, Done(r) PROVE JobsMove(PromptOps)
  BY <1>2, IdleIsJob, JobMoves DEF Done
<1>3. ASSUME NEW r \in Requests, NEW p \in Prompts, NEW renders \in BOOLEAN,
             NEW row \in PromptRow, CreatePrompt(r, p, row, renders)
      PROVE  Goal
  <2>1. [op |-> "prompted", prompt |-> p, renders |-> renders, new |-> TRUE] \in Job
    BY DEF Job, CatalogJob
  <2>2. JobsMove(PromptOps)
    BY <1>3, <2>1, JobMoves DEF CreatePrompt, PromptOps
  <2>3. prompt[p] = None
    BY <1>3, FreshIsFree DEF CreatePrompt
  <2> QED
    BY <1>0, <1>3, <2>2, <2>3 DEF CreatePrompt, PromptTypeOK, PromptsKeep
<1>4. ASSUME NEW r \in Requests, NEW p \in Prompts, NEW renders \in BOOLEAN,
             NEW ws \in Workspaces, RequestPromptVersion(r, ws, p, renders)
      PROVE  Goal
  <2>1. [op |-> "prompted", prompt |-> p, renders |-> renders, new |-> FALSE] \in Job
    BY DEF Job, CatalogJob
  <2>2. JobsMove(PromptOps)
    BY <1>4, <2>1, JobMoves DEF RequestPromptVersion, PromptOps
  <2> QED
    BY <1>1, <1>4, <2>2 DEF RequestPromptVersion
<1>5. ASSUME NEW r \in Requests, CountPromptVersions(r) PROVE Goal
  <2> DEFINE n == Cardinality(PromptVersionsOf(job[r].prompt)) + 1
             j == [op |-> "counted", prompt |-> job[r].prompt,
                   renders |-> job[r].renders, new |-> job[r].new, number |-> n]
  <2>1. CASE Done(r)
    BY <1>1, <1>2, <1>5, <2>1 DEF CountPromptVersions
  <2>2. CASE Continue(r, j)
    <3>1. n \in Nat
      BY ListedPromptVersions
    <3>2. j \in Job
      <4>1. /\ job[r].prompt \in Prompts
            /\ job[r].renders \in BOOLEAN /\ job[r].new \in BOOLEAN
        BY <1>5, JobType, CatalogJobFields DEF CountPromptVersions
      <4> HIDE DEF n
      <4> QED
        BY <3>1, <4>1 DEF Job, CatalogJob
    <3>3. JobsMove(PromptOps)
      BY <2>2, <3>2, JobMoves DEF PromptOps
    <3> QED
      BY <1>1, <1>5, <3>3 DEF CountPromptVersions
  <2> QED
    BY <1>5, <2>1, <2>2 DEF CountPromptVersions
<1>6. ASSUME NEW r \in Requests, NEW v \in PromptVersions, CreatePromptVersion(r, v)
      PROVE  Goal
  <2> DEFINE row == [prompt |-> job[r].prompt, number |-> job[r].number,
                     renders |-> job[r].renders]
  <2>1. row \in PromptVersionRow
    BY <1>6, JobType, CatalogJobFields DEF CreatePromptVersion, PromptVersionRow
  <2>2. promptVersion[v] = None
    BY <1>6, FreshIsFree DEF CreatePromptVersion, InsertPromptVersion
  <2>3. promptVersion' = [promptVersion EXCEPT ![v] = row]
    BY <1>6 DEF CreatePromptVersion, InsertPromptVersion
  <2> HIDE DEF row
  <2> QED
    BY <1>0, <1>2, <1>6, <2>1, <2>2, <2>3 DEF CreatePromptVersion, PromptTypeOK, PromptsKeep
<1>7. ASSUME NEW r \in Requests, PromptVersionFails(r) PROVE Goal
  <2>1. CASE Done(r)
    BY <1>1, <1>2, <1>7, <2>1 DEF PromptVersionFails
  <2>2. CASE Continue(r, [op |-> "rollback", prompt |-> job[r].prompt])
    <3>1. [op |-> "rollback", prompt |-> job[r].prompt] \in Job
      BY <1>7, JobType, CatalogJobFields DEF PromptVersionFails, Job, CatalogJob
    <3>2. JobsMove(PromptOps)
      BY <2>2, <3>1, JobMoves DEF PromptOps
    <3> QED
      BY <1>1, <1>7, <3>2 DEF PromptVersionFails
  <2> QED
    BY <1>7, <2>1, <2>2 DEF PromptVersionFails
<1>8. ASSUME NEW r \in Requests, RollbackNewPrompt(r) PROVE Goal
  <2>1. job[r].prompt \in Prompts
    BY <1>8, JobType, CatalogJobFields DEF RollbackNewPrompt
  <2>2. PromptTypeOK'
    BY <1>0, <1>8, <2>1 DEF RollbackNewPrompt, DeletePrompt, PromptTypeOK, PromptVersionsOf
  <2>3. PromptsKeep
    BY <1>0, <1>8, <2>1 DEF RollbackNewPrompt, DeletePrompt, PromptsKeep, PromptTypeOK,
                            PromptVersionsOf
  <2> QED
    BY <1>2, <1>8, <2>2, <2>3 DEF RollbackNewPrompt
<1>9. ASSUME NEW r \in Requests, RollbackFails(r) PROVE Goal
  BY <1>1, <1>2, <1>9 DEF RollbackFails
<1> HIDE DEF Goal
<1>10. Goal
  BY <1>3, <1>4, <1>5, <1>6, <1>7, <1>8, <1>9 DEF PromptNext
<1> QED
  BY <1>10 DEF Goal

\* The steps that write prompts or prompt_versions.
LEMMA PromptWrites ==
    ASSUME PromptNext
    PROVE  \/ UNCHANGED promptVars
           \/ \E r \in Requests, p \in Prompts, renders \in BOOLEAN, row \in PromptRow :
                 CreatePrompt(r, p, row, renders)
           \/ \E r \in Requests, v \in PromptVersions : CreatePromptVersion(r, v)
           \/ \E r \in Requests : RollbackNewPrompt(r)
BY DEF PromptNext, promptVars, catalogVars, RequestPromptVersion, CountPromptVersions,
       PromptVersionFails, RollbackFails

\* A set that gains at most one element stays finite.
LEMMA FiniteGrows ==
    ASSUME NEW S, IsFiniteSet(S), NEW x, NEW T, T \subseteq S \cup {x}
    PROVE  IsFiniteSet(T)
BY FS_AddElement, FS_Subset

\* Only finitely many prompt versions exist after a step.
LEMMA PromptsKnownStep ==
    ASSUME PromptsKnown, PromptTypeOK, PromptNext
    PROVE  PromptsKnown'
<1> DEFINE S == {v \in PromptVersions : promptVersion[v] # None}
<1>1. CASE UNCHANGED promptVersion
  BY <1>1 DEF PromptsKnown
<1>2. ASSUME NEW r \in Requests, NEW v \in PromptVersions, CreatePromptVersion(r, v)
      PROVE  PromptsKnown'
  <2>1. S' \subseteq S \cup {v}
    BY <1>2 DEF CreatePromptVersion, InsertPromptVersion, PromptTypeOK
  <2> QED
    BY <2>1, FiniteGrows DEF PromptsKnown
<1>3. ASSUME NEW r \in Requests, RollbackNewPrompt(r)
      PROVE  PromptsKnown'
  <2>1. S' \subseteq S
    BY <1>3 DEF RollbackNewPrompt, DeletePrompt, PromptTypeOK
  <2> QED
    BY <2>1, FS_Subset DEF PromptsKnown
<1> QED
  BY <1>1, <1>2, <1>3, PromptWrites DEF promptVars, CreatePrompt

\* A skill stays as it is; a skill version stays, keeps what it says, and once
\* published stays so.
SkillsKeep ==
    /\ \A k \in Skills : skill[k] # None => skill'[k] = skill[k]
    /\ \A v \in SkillVersions : skillVersion[v] # None =>
          /\ skillVersion'[v] # None
          /\ skillVersion'[v].skill = skillVersion[v].skill
          /\ skillVersion'[v].number = skillVersion[v].number
          /\ skillVersion'[v].spec = skillVersion[v].spec
          /\ skillVersion[v].status = "published" => skillVersion'[v].status = "published"

\* What a listing of skill versions counts.
LEMMA ListedSkillVersions ==
    ASSUME SkillsKnown, NEW k
    PROVE  Cardinality(SkillVersionsOf(k)) \in Nat /\ IsFiniteSet(SkillVersionsOf(k))
<1>1. SkillVersionsOf(k) \subseteq {v \in SkillVersions : skillVersion[v] # None}
  BY DEF SkillVersionsOf
<1> QED
  BY <1>1, FS_Subset, FS_CardinalityType DEF SkillsKnown

\* Every operation on skills keeps the types of its tables and what its versions
\* say, moves requests only within its own operations, and writes no other table.
LEMMA SkillStepType ==
    ASSUME TypeOK, SkillsKnown, SkillNext
    PROVE  /\ SkillTypeOK' /\ SkillsKeep /\ JobsMove(SkillOps) /\ SkillsKnown'
           /\ UNCHANGED <<toolVars, promptVars, modelVersion, agentVars>>
<1> USE DEF toolVars, catalogVars, promptVars, skillVars, agentVars
<1> DEFINE Goal == /\ SkillTypeOK' /\ SkillsKeep /\ JobsMove(SkillOps) /\ SkillsKnown'
                   /\ UNCHANGED <<toolVars, promptVars, modelVersion, agentVars>>
           S == {v \in SkillVersions : skillVersion[v] # None}
<1>0. SkillTypeOK /\ job \in [Requests -> Job]
  BY TypeParts
<1>2. ASSUME NEW r \in Requests, Done(r) PROVE JobsMove(SkillOps) /\ job' = [job EXCEPT ![r] = Idle]
  BY <1>2, IdleIsJob, JobMoves DEF Done
<1>3. ASSUME NEW r \in Requests, Done(r), NEW q \in Requests, job'[q].op = "skill publishing"
      PROVE  job'[q] = job[q]
  <2>1. Idle.op = "idle"
    BY DEF Idle
  <2> QED
    BY <1>0, <1>2, <1>3, <2>1
<1>4. ASSUME NEW k \in Skills, NEW v \in SkillVersions, NEW ws \in Workspaces,
             NEW spec \in SkillSpecs, CreateSkill(k, v, ws, spec)
      PROVE  Goal
  <2> DEFINE row == [skill |-> k, number |-> 1, spec |-> spec, status |-> "draft"]
  <2>1. row \in SkillVersionRow /\ [ws |-> ws] \in SkillRow
    BY CatalogAssumption DEF SkillVersionRow, SkillRow
  <2>2. skill[k] = None /\ skillVersion[v] = None
    BY <1>4, FreshIsFree DEF CreateSkill, CreateSkillWithVersion
  <2>3. /\ skill' = [skill EXCEPT ![k] = [ws |-> ws]]
        /\ skillVersion' = [skillVersion EXCEPT ![v] = row]
    BY <1>4 DEF CreateSkill, CreateSkillWithVersion
  <2>4. JobsMove(SkillOps) /\ UNCHANGED job
    BY <1>4, JobStays DEF CreateSkill
  <2> HIDE DEF row
  <2>5. SkillTypeOK' /\ SkillsKeep
    BY <1>0, <2>1, <2>2, <2>3 DEF SkillTypeOK, SkillsKeep
  <2>6. S' \subseteq S \cup {v}
    BY <1>0, <2>3 DEF SkillTypeOK
  <2>7. SkillsKnown'
    <3>1. IsFiniteSet(S')
      BY <2>6, FiniteGrows DEF SkillsKnown
    <3> QED
      BY <1>0, <3>1, <2>4, <2>5, JobType, CatalogJobFields DEF SkillsKnown, SkillsKeep
  <2> QED
    BY <1>4, <2>4, <2>5, <2>7 DEF CreateSkill
<1>5. ASSUME NEW r \in Requests, NEW ws \in Workspaces, NEW k \in Skills,
             NEW spec \in SkillSpecs, CountSkillVersions(r, ws, k, spec)
      PROVE  Goal
  <2> DEFINE n == Cardinality(SkillVersionsOf(k)) + 1
             j == [op |-> "skill counted", skill |-> k, spec |-> spec, number |-> n]
  <2>1. n \in Nat
    BY ListedSkillVersions
  <2>2. Start(r, j)
    BY <1>5 DEF CountSkillVersions
  <2> HIDE DEF n
  <2>3. j \in Job /\ j.op = "skill counted"
    BY <2>1, CatalogAssumption DEF Job, CatalogJob
  <2> HIDE DEF j
  <2>4. JobsMove(SkillOps) /\ job' = [job EXCEPT ![r] = j]
    BY <2>2, <2>3, JobMoves DEF SkillOps
  <2>5. SkillsKnown'
    BY <1>0, <1>5, <2>3, <2>4 DEF SkillsKnown, CountSkillVersions
  <2> QED
    BY <1>0, <1>5, <2>4, <2>5 DEF CountSkillVersions, SkillTypeOK, SkillsKeep
<1>6. ASSUME NEW r \in Requests, NEW v \in SkillVersions, CreateSkillVersion(r, v)
      PROVE  Goal
  <2> DEFINE row == [skill |-> job[r].skill, number |-> job[r].number,
                     spec |-> job[r].spec, status |-> "draft"]
  <2>1. row \in SkillVersionRow
    BY <1>6, JobType, CatalogJobFields DEF CreateSkillVersion, SkillVersionRow
  <2>2. skillVersion[v] = None
    BY <1>6, FreshIsFree DEF CreateSkillVersion, InsertSkillVersion
  <2>3. skillVersion' = [skillVersion EXCEPT ![v] = row] /\ UNCHANGED skill /\ Done(r)
    BY <1>6 DEF CreateSkillVersion, InsertSkillVersion
  <2> HIDE DEF row
  <2>5. SkillTypeOK' /\ SkillsKeep
    BY <1>0, <2>1, <2>2, <2>3 DEF SkillTypeOK, SkillsKeep
  <2>6. S' \subseteq S \cup {v}
    BY <1>0, <2>3 DEF SkillTypeOK
  <2>7. SkillsKnown'
    <3>1. IsFiniteSet(S')
      BY <2>6, FiniteGrows DEF SkillsKnown
    <3>2. ASSUME NEW q \in Requests, job'[q].op = "skill publishing"
          PROVE  skillVersion'[job'[q].version] # None
      <4>1. job'[q] = job[q]
        BY <1>3, <2>3, <3>2
      <4>2. job[q].version \in SkillVersions /\ skillVersion[job[q].version] # None
        BY <3>2, <4>1, JobType, CatalogJobFields DEF SkillsKnown
      <4> QED
        BY <2>5, <4>1, <4>2 DEF SkillsKeep
    <3> QED
      BY <3>1, <3>2 DEF SkillsKnown
  <2> QED
    BY <1>2, <1>6, <2>3, <2>5, <2>7 DEF CreateSkillVersion
<1>7. ASSUME NEW r \in Requests, SkillVersionFails(r) PROVE Goal
  <2>1. SkillsKnown'
    BY <1>0, <1>3, <1>7 DEF SkillsKnown, SkillVersionFails
  <2> QED
    BY <1>0, <1>2, <1>7, <2>1 DEF SkillVersionFails, SkillTypeOK, SkillsKeep
<1>8. ASSUME NEW r \in Requests, NEW ws \in Workspaces, NEW v \in SkillVersions,
             PassSkillGate(r, ws, v)
      PROVE  Goal
  <2> DEFINE j == [op |-> "skill publishing", version |-> v]
  <2>1. j \in Job /\ j.op = "skill publishing" /\ j.version = v
    BY DEF Job, CatalogJob
  <2>2. Start(r, j)
    BY <1>8 DEF PassSkillGate
  <2> HIDE DEF j
  <2>3. JobsMove(SkillOps) /\ job' = [job EXCEPT ![r] = j]
    BY <2>1, <2>2, JobMoves DEF SkillOps
  <2>4. SkillsKnown'
    BY <1>0, <1>8, <2>1, <2>3 DEF SkillsKnown, PassSkillGate
  <2> QED
    BY <1>0, <1>8, <2>3, <2>4 DEF PassSkillGate, SkillTypeOK, SkillsKeep
<1>9. ASSUME NEW r \in Requests, PublishSkillVersion(r) PROVE Goal
  <2> DEFINE v == job[r].version
             row == [skillVersion[v] EXCEPT !.status = "published"]
  <2>1. v \in SkillVersions /\ skillVersion[v] \in SkillVersionRow
    BY <1>0, <1>9, JobType, CatalogJobFields DEF PublishSkillVersion, SkillsKnown, SkillTypeOK
  <2>2. /\ row \in SkillVersionRow /\ row.skill = skillVersion[v].skill
        /\ row.number = skillVersion[v].number /\ row.spec = skillVersion[v].spec
        /\ row.status = "published"
    BY <2>1 DEF SkillVersionRow
  <2>3. row # None
    BY <2>2, CatalogAssumption
  <2>4. skillVersion' = [skillVersion EXCEPT ![v] = row] /\ UNCHANGED skill /\ Done(r)
    BY <1>9 DEF PublishSkillVersion, UpdateSkillVersionStatus
  <2> HIDE DEF row, v
  <2>5. SkillTypeOK' /\ SkillsKeep
    BY <1>0, <2>1, <2>2, <2>3, <2>4 DEF SkillTypeOK, SkillsKeep
  <2>6. S' \subseteq S \cup {v}
    BY <1>0, <2>4 DEF SkillTypeOK
  <2>7. SkillsKnown'
    <3>1. IsFiniteSet(S')
      BY <2>6, FiniteGrows DEF SkillsKnown
    <3>2. ASSUME NEW q \in Requests, job'[q].op = "skill publishing"
          PROVE  skillVersion'[job'[q].version] # None
      <4>1. job'[q] = job[q]
        BY <1>3, <2>4, <3>2
      <4>2. job[q].version \in SkillVersions /\ skillVersion[job[q].version] # None
        BY <3>2, <4>1, JobType, CatalogJobFields DEF SkillsKnown
      <4> QED
        BY <2>5, <4>1, <4>2 DEF SkillsKeep
    <3> QED
      BY <3>1, <3>2 DEF SkillsKnown
  <2> QED
    BY <1>2, <1>9, <2>4, <2>5, <2>7 DEF PublishSkillVersion
<1> HIDE DEF Goal
<1>10. Goal
  BY <1>4, <1>5, <1>6, <1>7, <1>8, <1>9 DEF SkillNext
<1> QED
  BY <1>10 DEF Goal

\* A model configuration stays as it is.
ModelsKeep ==
    \A v \in ModelVersions : modelVersion[v] # None => modelVersion'[v] = modelVersion[v]

\* The steps of EnsureConfigVersion keep the type of the table and its rows, move
\* requests only within it, and write no other table.
LEMMA ModelStepType ==
    ASSUME TypeOK, ModelNext
    PROVE  /\ ModelTypeOK' /\ ModelsKeep /\ JobsMove(ModelOps)
           /\ UNCHANGED <<toolVars, promptVars, skillVars, agentVars>>
<1> USE DEF toolVars, catalogVars, promptVars, skillVars, agentVars
<1> DEFINE Goal == /\ ModelTypeOK' /\ ModelsKeep /\ JobsMove(ModelOps)
                   /\ UNCHANGED <<toolVars, promptVars, skillVars, agentVars>>
<1>0. ModelTypeOK
  BY TypeParts
<1>1. ASSUME NEW r \in Requests, Done(r) PROVE JobsMove(ModelOps)
  BY <1>1, IdleIsJob, JobMoves DEF Done
<1>2. ASSUME NEW r \in Requests, NEW ws \in Workspaces, NEW s \in Settings,
             EnsureConfigVersion(r, ws, s)
      PROVE  Goal
  <2>1. PICK n \in Nat : Start(r, [op |-> "model", ws |-> ws, settings |-> s, number |-> n])
    <3>1. \A v \in ModelVersionsOf(ws) : modelVersion[v].number + 1 \in Nat
      BY <1>0 DEF ModelVersionsOf, ModelTypeOK, ModelVersionRow
    <3> QED
      BY <1>2, <3>1 DEF EnsureConfigVersion
  <2>2. [op |-> "model", ws |-> ws, settings |-> s, number |-> n] \in Job
    BY DEF Job, CatalogJob
  <2>3. JobsMove(ModelOps)
    BY <2>1, <2>2, JobMoves DEF ModelOps
  <2> QED
    BY <1>0, <1>2, <2>3 DEF EnsureConfigVersion, ModelTypeOK, ModelsKeep
<1>3. ASSUME NEW r \in Requests, NEW v \in ModelVersions, CreateConfigVersion(r, v)
      PROVE  Goal
  <2> DEFINE row == [ws |-> job[r].ws, number |-> job[r].number,
                     settings |-> job[r].settings]
  <2>1. row \in ModelVersionRow
    BY <1>3, JobType, CatalogJobFields DEF CreateConfigVersion, ModelVersionRow
  <2>2. modelVersion[v] = None
    BY <1>3, FreshIsFree DEF CreateConfigVersion, InsertModelVersion
  <2>3. modelVersion' = [modelVersion EXCEPT ![v] = row]
    BY <1>3 DEF CreateConfigVersion, InsertModelVersion
  <2> HIDE DEF row
  <2> QED
    BY <1>0, <1>1, <1>3, <2>1, <2>2, <2>3 DEF CreateConfigVersion, ModelTypeOK, ModelsKeep
<1>4. ASSUME NEW r \in Requests, ConfigVersionFails(r) PROVE Goal
  BY <1>0, <1>1, <1>4 DEF ConfigVersionFails, ModelTypeOK, ModelsKeep
<1> HIDE DEF Goal
<1>5. Goal
  BY <1>2, <1>3, <1>4 DEF ModelNext
<1> QED
  BY <1>5 DEF Goal

\* Agents and agent versions stay as they are.
AgentsKeep ==
    /\ \A a \in Agents : agent[a] # None => agent'[a] = agent[a]
    /\ \A v \in AgentVersions : agentVersion[v] # None =>
          agentVersion'[v] = agentVersion[v]

\* What a listing of agent versions counts.
LEMMA ListedAgentVersions ==
    ASSUME AgentsKnown, NEW a
    PROVE  Cardinality(AgentVersionsOf(a)) \in Nat /\ IsFiniteSet(AgentVersionsOf(a))
<1>1. AgentVersionsOf(a) \subseteq {v \in AgentVersions : agentVersion[v] # None}
  BY DEF AgentVersionsOf
<1> QED
  BY <1>1, FS_Subset, FS_CardinalityType DEF AgentsKnown

\* A stored version and the binding of dev, one statement.
LEMMA BindDevType ==
    ASSUME TypeOK, AgentsKnown, NEW v \in AgentVersions, NEW row \in AgentVersionRow,
           CreateAgentVersionAndBindDev(v, row), agent'[row.agent] # None,
           \A a \in Agents : agent[a] # None => agent'[a] = agent[a]
    PROVE  /\ agentVersion' \in [AgentVersions -> AgentVersionRow \cup {None}]
           /\ agentEnv' \in [Agents -> [Envs -> AgentVersions \cup {None}]]
           /\ \A w \in AgentVersions : agentVersion[w] # None =>
                 agentVersion'[w] = agentVersion[w]
           /\ IsFiniteSet({w \in AgentVersions : agentVersion'[w] # None})
           /\ \A w \in AgentVersions : agentVersion'[w] # None =>
                 agent'[agentVersion'[w].agent] # None
           /\ \A a \in Agents, e \in Envs : agentEnv'[a][e] # None => agent'[a] # None
<1>0. AgentTypeOK
  BY TypeParts
<1>1. agentVersion[v] = None
  BY FreshIsFree DEF CreateAgentVersionAndBindDev
<1>2. row.agent \in Agents
  BY DEF AgentVersionRow
<1>3. /\ agentVersion' = [agentVersion EXCEPT ![v] = row]
      /\ agentEnv' = [agentEnv EXCEPT ![row.agent]["dev"] = v]
  BY DEF CreateAgentVersionAndBindDev
<1>4. /\ agentVersion' \in [AgentVersions -> AgentVersionRow \cup {None}]
      /\ \A w \in AgentVersions : agentVersion[w] # None => agentVersion'[w] = agentVersion[w]
      /\ \A w \in AgentVersions : agentVersion'[w] # None => w = v \/ agentVersion'[w] = agentVersion[w]
      /\ agentVersion'[v] = row
  BY <1>0, <1>1, <1>3 DEF AgentTypeOK
<1>5. /\ agentEnv' \in [Agents -> [Envs -> AgentVersions \cup {None}]]
      /\ \A a \in Agents, e \in Envs : a # row.agent => agentEnv'[a][e] = agentEnv[a][e]
  BY <1>0, <1>2, <1>3 DEF AgentTypeOK, Envs
<1>6. IsFiniteSet({w \in AgentVersions : agentVersion'[w] # None})
  <2>1. {w \in AgentVersions : agentVersion'[w] # None}
          \subseteq {w \in AgentVersions : agentVersion[w] # None} \cup {v}
    BY <1>4
  <2> QED
    BY <2>1, FiniteGrows DEF AgentsKnown
<1>7. ASSUME NEW w \in AgentVersions, agentVersion'[w] # None
      PROVE  agent'[agentVersion'[w].agent] # None
  <2>1. CASE w = v
    BY <1>4, <2>1
  <2>2. CASE agentVersion'[w] = agentVersion[w]
    <3>1. agentVersion[w] \in AgentVersionRow /\ agent[agentVersion[w].agent] # None
      BY <1>0, <1>7, <2>2 DEF AgentTypeOK, AgentsKnown
    <3> QED
      BY <2>2, <3>1 DEF AgentVersionRow
  <2> QED
    BY <1>4, <1>7, <2>1, <2>2
<1>8. ASSUME NEW a \in Agents, NEW e \in Envs, agentEnv'[a][e] # None
      PROVE  agent'[a] # None
  <2>1. CASE a = row.agent
    BY <2>1
  <2>2. CASE a # row.agent
    BY <1>5, <1>8, <2>2 DEF AgentsKnown
  <2> QED
    BY <2>1, <2>2
<1> QED
  BY <1>4, <1>5, <1>6, <1>7, <1>8

\* Every operation on agents keeps the types of its tables and their rows, moves
\* requests only within its own operations, and writes no other table.
LEMMA AgentStepType ==
    ASSUME TypeOK, AgentsKnown, AgentNext
    PROVE  /\ AgentTypeOK' /\ AgentsKeep /\ JobsMove(AgentOps) /\ AgentsKnown'
           /\ UNCHANGED <<toolVars, promptVars, skillVars, modelVersion>>
<1> USE DEF toolVars, catalogVars, promptVars, skillVars, agentVars
<1> DEFINE Goal == /\ AgentTypeOK' /\ AgentsKeep /\ JobsMove(AgentOps) /\ AgentsKnown'
                   /\ UNCHANGED <<toolVars, promptVars, skillVars, modelVersion>>
           Placed(q) == job'[q].op \in {"validated", "built"} =>
                           job'[q].agent = None \/ agent'[job'[q].agent] # None
<1>0. AgentTypeOK /\ job \in [Requests -> Job] /\ Idle.op = "idle"
  BY TypeParts DEF Idle
<1>1. ASSUME NEW q \in Requests, job[q].op \in {"validated", "built"}, AgentsKeep
      PROVE  job[q].agent = None \/ agent'[job[q].agent] # None
  BY <1>1, JobType, CatalogJobFields DEF AgentsKeep, AgentsKnown
<1>2. ASSUME NEW r \in Requests, Done(r), AgentsKeep
      PROVE  JobsMove(AgentOps) /\ \A q \in Requests : Placed(q)
  <2>1. JobsMove(AgentOps) /\ job' = [job EXCEPT ![r] = Idle]
    BY <1>2, IdleIsJob, JobMoves DEF Done
  <2> QED
    BY <1>0, <1>1, <1>2, <2>1
\* Steps that only move a request.
<1>3. ASSUME UNCHANGED <<toolVars, catalogVars>>, JobsMove(AgentOps),
             \A q \in Requests : Placed(q)
      PROVE  Goal
  <2>1. AgentsKnown'
    BY <1>3 DEF AgentsKnown
  <2> QED
    BY <1>0, <1>3, <2>1 DEF AgentTypeOK, AgentsKeep
<1>4. ASSUME UNCHANGED <<toolVars, catalogVars>> PROVE AgentsKeep
  BY <1>4 DEF AgentsKeep
<1>5. ASSUME NEW r \in Requests, NEW ws \in Workspaces, NEW a \in Agents \cup {None},
             NEW cfg \in AgentConfigs, ValidateAgent(r, ws, a, cfg)
      PROVE  Goal
  <2> DEFINE j == [op |-> "validated", agent |-> a, ws |-> ws, config |-> cfg]
  <2>1. j \in Job /\ j.op = "validated" /\ j.agent = a
    BY CatalogAssumption DEF Job, CatalogJob
  <2>2. Start(r, j)
    BY <1>5 DEF ValidateAgent
  <2> HIDE DEF j
  <2>3. JobsMove(AgentOps) /\ job' = [job EXCEPT ![r] = j]
    BY <2>1, <2>2, JobMoves DEF AgentOps
  <2>4. a = None \/ agent'[a] # None
    <3>1. [ws |-> ws] \in AgentRow
      BY DEF AgentRow
    <3> QED
      BY <1>5, <3>1, CatalogAssumption DEF ValidateAgent
  <2>5. \A q \in Requests : Placed(q)
    BY <1>0, <1>1, <1>4, <1>5, <2>1, <2>3, <2>4 DEF ValidateAgent
  <2> QED
    BY <1>3, <1>5, <2>3, <2>5 DEF ValidateAgent
<1>6. ASSUME NEW r \in Requests, BuildSnapshot(r) PROVE Goal
  <2> DEFINE n == IF job[r].agent = None THEN 1
                  ELSE Cardinality(AgentVersionsOf(job[r].agent)) + 1
             j == [op |-> "built", agent |-> job[r].agent, ws |-> job[r].ws,
                   config |-> job[r].config, number |-> n]
  <2>1. UNCHANGED <<toolVars, catalogVars>> /\ AgentsKeep /\ job[r].op = "validated"
    BY <1>4, <1>6 DEF BuildSnapshot
  <2>2. CASE Done(r)
    BY <1>2, <1>3, <2>1, <2>2
  <2>3. CASE Continue(r, j)
    <3>1. n \in Nat
      BY ListedAgentVersions
    <3>2. /\ job[r].agent \in Agents \cup {None} /\ job[r].ws \in Workspaces
          /\ job[r].config \in AgentConfig
      BY <2>1, JobType, CatalogJobFields
    <3> HIDE DEF n
    <3>3. j \in Job /\ j.op = "built" /\ j.agent = job[r].agent
      BY <3>1, <3>2 DEF Job, CatalogJob
    <3> HIDE DEF j
    <3>4. JobsMove(AgentOps) /\ job' = [job EXCEPT ![r] = j]
      BY <2>3, <3>3, JobMoves DEF AgentOps
    <3>5. \A q \in Requests : Placed(q)
      BY <1>0, <1>1, <2>1, <3>3, <3>4
    <3> QED
      BY <1>3, <2>1, <3>4, <3>5
  <2> QED
    BY <1>6, <2>2, <2>3 DEF BuildSnapshot
<1>7. ASSUME NEW r \in Requests, AgentVersionFails(r) PROVE Goal
  BY <1>2, <1>3, <1>4, <1>7 DEF AgentVersionFails
<1>8. ASSUME NEW r \in Requests, NEW v \in AgentVersions, NEW a \in Agents, CreateAgent(r, a, v)
      PROVE  Goal
  <2>1. BuiltRow(r, a) \in AgentVersionRow /\ BuiltRow(r, a).agent = a
    BY <1>8, JobType, CatalogJobFields DEF CreateAgent, BuiltRow, AgentVersionRow
  <2>2. /\ agent[a] = None
        /\ agent' = [agent EXCEPT ![a] = [ws |-> job[r].ws]]
        /\ CreateAgentVersionAndBindDev(v, BuiltRow(r, a))
        /\ Done(r) /\ UNCHANGED conversation
    BY <1>8, FreshIsFree DEF CreateAgent, CreateAgentWithVersion
  <2>3. [ws |-> job[r].ws] \in AgentRow /\ [ws |-> job[r].ws] # None
    <3>1. [ws |-> job[r].ws] \in AgentRow
      BY <1>8, JobType, CatalogJobFields DEF CreateAgent, AgentRow
    <3> QED
      BY <3>1, CatalogAssumption
  <2>4. /\ agent' \in [Agents -> AgentRow \cup {None}]
        /\ agent'[a] # None
        /\ \A b \in Agents : agent[b] # None => agent'[b] = agent[b]
    BY <1>0, <2>2, <2>3 DEF AgentTypeOK
  <2>5. AgentTypeOK' /\ AgentsKeep
    BY <1>0, <2>1, <2>2, <2>4, BindDevType DEF AgentTypeOK, AgentsKeep
  <2>6. AgentsKnown'
    <3>1. \A q \in Requests : Placed(q)
      BY <1>2, <2>2, <2>5
    <3> QED
      BY <2>1, <2>2, <2>4, <3>1, BindDevType DEF AgentsKnown
  <2> QED
    BY <1>2, <1>8, <2>2, <2>5, <2>6 DEF CreateAgent
<1>9. ASSUME NEW r \in Requests, NEW v \in AgentVersions, CreateAgentVersion(r, v)
      PROVE  Goal
  <2> DEFINE a == job[r].agent
  <2>1. a \in Agents /\ agent[a] # None
    BY <1>9, JobType, CatalogJobFields DEF CreateAgentVersion, AgentsKnown
  <2>2. BuiltRow(r, a) \in AgentVersionRow /\ BuiltRow(r, a).agent = a
    BY <1>9, <2>1, JobType, CatalogJobFields DEF CreateAgentVersion, BuiltRow, AgentVersionRow
  <2>3. /\ UNCHANGED <<agent, conversation>>
        /\ CreateAgentVersionAndBindDev(v, BuiltRow(r, a))
        /\ Done(r)
    BY <1>9 DEF CreateAgentVersion
  <2> HIDE DEF a
  <2>5. AgentTypeOK' /\ AgentsKeep
    BY <1>0, <2>1, <2>2, <2>3, BindDevType DEF AgentTypeOK, AgentsKeep
  <2>6. AgentsKnown'
    <3>1. \A q \in Requests : Placed(q)
      BY <1>2, <2>3, <2>5
    <3> QED
      BY <2>1, <2>2, <2>3, <3>1, BindDevType DEF AgentsKnown
  <2> QED
    BY <1>2, <1>9, <2>3, <2>5, <2>6 DEF CreateAgentVersion
<1>10. ASSUME NEW ws \in Workspaces, NEW a \in Agents, NEW env \in Envs,
              NEW v \in AgentVersions, PromoteAgentVersion(ws, a, env, v)
       PROVE  Goal
  <2>1. /\ agentEnv' = [agentEnv EXCEPT ![a][env] = v]
        /\ UNCHANGED <<toolVars, job, prompt, promptVersion, lost, skill,
                       skillVersion, modelVersion, agent, agentVersion, conversation>>
    BY <1>10 DEF PromoteAgentVersion, UpsertAgentEnv
  <2>2. agent[a] # None
    <3>1. [ws |-> ws] \in AgentRow
      BY DEF AgentRow
    <3> QED
      BY <1>10, <3>1, CatalogAssumption DEF PromoteAgentVersion
  <2>3. AgentTypeOK' /\ AgentsKeep
    BY <1>0, <2>1 DEF AgentTypeOK, AgentsKeep
  <2>4. AgentsKnown'
    BY <1>0, <2>1, <2>2 DEF AgentsKnown, AgentTypeOK
  <2>5. JobsMove(AgentOps)
    BY <1>10, JobStays DEF PromoteAgentVersion
  <2> QED
    BY <2>1, <2>3, <2>4, <2>5
<1>11. ASSUME NEW c \in Conversations, NEW row \in ConversationRow, CreateConversation(c, row),
              Accept,
              UNCHANGED <<toolVars, job, prompt, promptVersion, lost, skill,
                          skillVersion, modelVersion, agent, agentVersion, agentEnv>>
       PROVE  Goal
  <2>1. AgentTypeOK' /\ AgentsKeep
    BY <1>0, <1>11 DEF CreateConversation, AgentTypeOK, AgentsKeep
  <2>2. AgentsKnown'
    BY <1>11 DEF AgentsKnown
  <2>3. JobsMove(AgentOps)
    BY <1>11, JobStays
  <2> QED
    BY <1>11, <2>1, <2>2, <2>3
<1>12. ASSUME NEW a \in Agents, agent[a] # None, NEW env \in Envs, NEW v \in AgentVersions
       PROVE  NewConversation(a, env, v) \in ConversationRow
  BY <1>0, <1>12 DEF NewConversation, ConversationRow, AgentTypeOK, AgentRow
<1>13. ASSUME NEW c \in Conversations, NEW a \in Agents, NEW env \in Envs,
              CreateConversationInEnv(c, a, env)
       PROVE  Goal
  <2>1. agentEnv[a][env] \in AgentVersions /\ agent[a] # None
    BY <1>0, <1>13 DEF CreateConversationInEnv, AgentTypeOK, AgentsKnown
  <2> QED
    BY <1>11, <1>12, <1>13, <2>1 DEF CreateConversationInEnv
<1>14. ASSUME NEW c \in Conversations, NEW v \in AgentVersions,
              CreateConversationWithVersion(c, v)
       PROVE  Goal
  <2>1. agentVersion[v].agent \in Agents /\ agent[agentVersion[v].agent] # None
    BY <1>0, <1>14 DEF CreateConversationWithVersion, AgentTypeOK, AgentsKnown, AgentVersionRow
  <2>2. "dev" \in Envs
    BY DEF Envs
  <2> QED
    BY <1>11, <1>12, <1>14, <2>1, <2>2 DEF CreateConversationWithVersion
<1> HIDE DEF Goal
<1>15. Goal
  BY <1>5, <1>6, <1>7, <1>8, <1>9, <1>10, <1>13, <1>14 DEF AgentNext
<1> QED
  BY <1>15 DEF Goal

-----------------------------------------------------------------------------
(* A step belongs to one family and leaves the others alone *)

\* A request is in one of the operations mine after the step only as it was.
Held(mine) == \A r \in Requests : job'[r].op \in mine => job'[r] = job[r]

ToolsFrame == UNCHANGED toolVars /\ Held(ToolOps)
PromptsFrame == UNCHANGED promptVars /\ Held(PromptOps)
SkillsFrame == UNCHANGED skillVars /\ Held(SkillOps)
ModelsFrame == UNCHANGED modelVersion /\ Held(ModelOps)
AgentsFrame == UNCHANGED agentVars /\ Held(AgentOps)

\* A step that moves requests within ops moves none into another family.
LEMMA OthersHeld ==
    ASSUME NEW ops, NEW mine, JobsMove(ops), mine \cap ops = {}, "idle" \notin mine
    PROVE  Held(mine)
<1>1. Idle.op = "idle"
  BY DEF Idle
<1> QED
  BY <1>1 DEF Held, JobsMove

\* What a family knows survives the steps of the others.
LEMMA KnownFrame ==
    ASSUME TypeInv
    PROVE  /\ ToolsFrame => ToolsKnown' /\ ToolTypeOK'
           /\ PromptsFrame => PromptsKnown' /\ PromptTypeOK'
           /\ SkillsFrame => SkillsKnown' /\ SkillTypeOK'
           /\ ModelsFrame => ModelTypeOK'
           /\ AgentsFrame => AgentsKnown' /\ AgentTypeOK'
<1>0. /\ ToolTypeOK /\ PromptTypeOK /\ SkillTypeOK /\ ModelTypeOK /\ AgentTypeOK
      /\ ToolsKnown /\ PromptsKnown /\ SkillsKnown /\ AgentsKnown
  BY TypeParts DEF TypeInv
<1>1. ToolsFrame => ToolsKnown' /\ ToolTypeOK'
  BY <1>0 DEF ToolsFrame, toolVars, Held, ToolOps, ToolsKnown, ToolTypeOK, ExistingToolVersions
<1>2. PromptsFrame => PromptsKnown' /\ PromptTypeOK'
  BY <1>0 DEF PromptsFrame, promptVars, PromptsKnown, PromptTypeOK
<1>3. SkillsFrame => SkillsKnown' /\ SkillTypeOK'
  BY <1>0 DEF SkillsFrame, skillVars, Held, SkillOps, SkillsKnown, SkillTypeOK
<1>4. ModelsFrame => ModelTypeOK'
  BY <1>0 DEF ModelsFrame, ModelTypeOK
<1>5. AgentsFrame => AgentsKnown' /\ AgentTypeOK'
  BY <1>0 DEF AgentsFrame, agentVars, Held, AgentOps, AgentsKnown, AgentTypeOK
<1> QED
  BY <1>1, <1>2, <1>3, <1>4, <1>5

\* And so do its rows.
LEMMA KeepFrame ==
    /\ ToolsFrame => ToolsKeep
    /\ PromptsFrame => PromptsKeep
    /\ SkillsFrame => SkillsKeep
    /\ ModelsFrame => ModelsKeep
    /\ AgentsFrame => AgentsKeep
BY DEF ToolsFrame, PromptsFrame, SkillsFrame, ModelsFrame, AgentsFrame,
       toolVars, promptVars, skillVars, agentVars, ExistingToolVersions,
       ToolsKeep, PromptsKeep, SkillsKeep, ModelsKeep, AgentsKeep

\* The parts of the type invariant after a step.
LEMMA TypeInvNext ==
    ASSUME ToolTypeOK', PromptTypeOK', SkillTypeOK', ModelTypeOK', AgentTypeOK',
           job' \in [Requests -> Job], accepted' \in 0 .. MaxRequests,
           ToolsKnown', PromptsKnown', SkillsKnown', AgentsKnown'
    PROVE  TypeInv'
BY DEF TypeInv, TypeOK, PromptTypeOK, SkillTypeOK, ModelTypeOK, AgentTypeOK, Job

\* Every step is one of the family's own or leaves the family alone, keeps the
\* rows there are, and keeps the types.
LEMMA StepParts ==
    ASSUME TypeInv, [Next]_vars
    PROVE  /\ ToolNext \/ ToolsFrame
           /\ PromptNext \/ PromptsFrame
           /\ SkillNext \/ SkillsFrame
           /\ ModelNext \/ ModelsFrame
           /\ AgentNext \/ AgentsFrame
           /\ ToolsKeep /\ PromptsKeep /\ SkillsKeep /\ ModelsKeep /\ AgentsKeep
           /\ TypeInv'
<1> USE DEF ToolOps, PromptOps, SkillOps, ModelOps, AgentOps
<1>0. TypeOK /\ ToolsKnown /\ PromptsKnown /\ SkillsKnown /\ AgentsKnown
  BY DEF TypeInv
<1>1. CASE ToolNext /\ UNCHANGED catalogVars
  <2>1. ToolTypeOK' /\ JobsMove(ToolOps) /\ ToolsKeep /\ ToolsKnown'
    BY <1>1, ToolStepType, ToolsKeepStep, ToolsKnownStep
  <2>2. PromptsFrame /\ SkillsFrame /\ ModelsFrame /\ AgentsFrame
    BY <1>1, <2>1, OthersHeld
       DEF catalogVars, promptVars, skillVars, agentVars,
           PromptsFrame, SkillsFrame, ModelsFrame, AgentsFrame
  <2> QED
    BY <1>1, <2>1, <2>2, KnownFrame, KeepFrame, TypeInvNext DEF JobsMove
<1>2. CASE PromptNext
  <2>1. /\ PromptTypeOK' /\ PromptsKeep /\ JobsMove(PromptOps) /\ PromptsKnown'
        /\ UNCHANGED <<toolVars, skillVars, modelVersion, agentVars>>
    BY <1>0, <1>2, PromptStepType, PromptsKnownStep, TypeParts
  <2>2. ToolsFrame /\ SkillsFrame /\ ModelsFrame /\ AgentsFrame
    BY <2>1, OthersHeld
       DEF ToolsFrame, SkillsFrame, ModelsFrame, AgentsFrame
  <2> QED
    BY <1>2, <2>1, <2>2, KnownFrame, KeepFrame, TypeInvNext DEF JobsMove
<1>3. CASE SkillNext
  <2>1. /\ SkillTypeOK' /\ SkillsKeep /\ JobsMove(SkillOps) /\ SkillsKnown'
        /\ UNCHANGED <<toolVars, promptVars, modelVersion, agentVars>>
    BY <1>0, <1>3, SkillStepType
  <2>2. ToolsFrame /\ PromptsFrame /\ ModelsFrame /\ AgentsFrame
    BY <2>1, OthersHeld
       DEF ToolsFrame, PromptsFrame, ModelsFrame, AgentsFrame
  <2> QED
    BY <1>3, <2>1, <2>2, KnownFrame, KeepFrame, TypeInvNext DEF JobsMove
<1>4. CASE ModelNext
  <2>1. /\ ModelTypeOK' /\ ModelsKeep /\ JobsMove(ModelOps)
        /\ UNCHANGED <<toolVars, promptVars, skillVars, agentVars>>
    BY <1>0, <1>4, ModelStepType
  <2>2. ToolsFrame /\ PromptsFrame /\ SkillsFrame /\ AgentsFrame
    BY <2>1, OthersHeld
       DEF ToolsFrame, PromptsFrame, SkillsFrame, AgentsFrame
  <2> QED
    BY <1>4, <2>1, <2>2, KnownFrame, KeepFrame, TypeInvNext DEF JobsMove
<1>5. CASE AgentNext
  <2>1. /\ AgentTypeOK' /\ AgentsKeep /\ JobsMove(AgentOps) /\ AgentsKnown'
        /\ UNCHANGED <<toolVars, promptVars, skillVars, modelVersion>>
    BY <1>0, <1>5, AgentStepType
  <2>2. ToolsFrame /\ PromptsFrame /\ SkillsFrame /\ ModelsFrame
    BY <2>1, OthersHeld
       DEF ToolsFrame, PromptsFrame, SkillsFrame, ModelsFrame
  <2> QED
    BY <1>5, <2>1, <2>2, KnownFrame, KeepFrame, TypeInvNext DEF JobsMove
<1>6. CASE UNCHANGED vars
  <2>1. ToolsFrame /\ PromptsFrame /\ SkillsFrame /\ ModelsFrame /\ AgentsFrame
    BY <1>6 DEF vars, catalogVars, toolVars, promptVars, skillVars, agentVars, Held,
                ToolsFrame, PromptsFrame, SkillsFrame, ModelsFrame, AgentsFrame
  <2>2. job' \in [Requests -> Job] /\ accepted' \in 0 .. MaxRequests
    BY <1>0, <1>6, TypeParts DEF vars
  <2> QED
    BY <2>1, <2>2, KnownFrame, KeepFrame, TypeInvNext
<1> QED
  BY <1>1, <1>2, <1>3, <1>4, <1>5, <1>6 DEF Next

\* The catalogue starts well typed.
LEMMA InitType == CatalogInit => TypeInv
<1> SUFFICES ASSUME CatalogInit PROVE TypeInv
  OBVIOUS
<1> USE DEF CatalogInit
<1>1. job \in [Requests -> Job] /\ accepted \in 0 .. MaxRequests
      /\ \A r \in Requests : job[r].op = "idle"
  BY RegistryAssumption DEF Job, Idle
<1>2. ToolTypeOK
  <2>1. CASE testRun = {} /\ toolVersion = [v \in ToolVersions |-> None]
             /\ tool = [t \in Tools |-> None]
    BY <2>1 DEF ToolTypeOK
  <2>2. ASSUME NEW t \in Tools, NEW v \in ToolVersions, NEW row \in ToolRow, NEW c \in Configs,
               NEW s \in Secrets, NEW published \in BOOLEAN,
               LegacyTool(t, v, row, c, s, published)
        PROVE  ToolTypeOK
    <3>1. [NewToolVersion(t, 1, c, s) EXCEPT !.sealed = FALSE,
             !.status = IF published THEN "published" ELSE "draft"] \in ToolVersionRow
      BY DEF NewToolVersion, ToolVersionRow
    <3>2. [version |-> v, ran |-> v, fresh |-> FALSE] \in TestRunRow
      BY DEF TestRunRow
    <3> QED
      BY <2>2, <3>1, <3>2 DEF LegacyTool, ToolTypeOK
  <2> QED
    BY <2>1, <2>2 DEF ToolInit
<1>3. PromptTypeOK
  BY CatalogAssumption DEF PromptTypeOK, PromptRow, PromptVersionRow
<1>4. SkillTypeOK
  BY CatalogAssumption DEF SkillTypeOK, SkillRow, SkillVersionRow
<1>5. ModelTypeOK
  BY CatalogAssumption DEF ModelTypeOK, ModelVersionRow
<1>6. AgentTypeOK
  BY DEF AgentTypeOK
<1>7. ASSUME NEW S, NEW x, S \subseteq {x} PROVE IsFiniteSet(S)
  BY <1>7, FS_Singleton, FS_Subset
<1>8. /\ PromptsKnown
      /\ IsFiniteSet({v \in SkillVersions : skillVersion[v] # None})
      /\ IsFiniteSet({v \in AgentVersions : agentVersion[v] # None})
  BY <1>7 DEF PromptsKnown
<1>9. ToolsKnown /\ SkillsKnown /\ AgentsKnown
  BY <1>1, <1>8 DEF ToolsKnown, SkillsKnown, AgentsKnown
<1> QED
  BY <1>1, <1>2, <1>3, <1>4, <1>5, <1>6, <1>8, <1>9, TypeParts DEF TypeInv

\* Type correctness, with the rows that requests under way rely on: publishing,
\* sealing and creating conversations never write to a row that is not there.
THEOREM TypeCorrect == Spec => []TypeOK
<1>1. TypeInv /\ [Next]_vars => TypeInv'
  BY StepParts
<1>2. TypeInv => TypeOK
  BY DEF TypeInv
<1> QED
  BY <1>1, <1>2, InitType, PTL DEF Spec

\* No step changes what a stored version says, whatever requests are under way;
\* only the rollback of a prompt's creation removes versions.
THEOREM VersionsNeverChange == Spec => VersionsImmutable
<1>1. TypeInv /\ [Next]_vars => TypeInv'
  BY StepParts
<1>2. TypeInv /\ [Next]_vars => VersionsKept
  <2> SUFFICES ASSUME TypeInv, [Next]_vars PROVE VersionsKept
    OBVIOUS
  <2>1. ToolsKeep /\ PromptsKeep /\ SkillsKeep /\ ModelsKeep /\ AgentsKeep
    BY StepParts
  <2> QED
    BY <2>1 DEF VersionsKept, ToolsKeep, PromptsKeep, SkillsKeep, ModelsKeep, AgentsKeep
<1> QED
  BY <1>1, <1>2, InitType, PTL DEF Spec, VersionsImmutable

-----------------------------------------------------------------------------
(* Dense numbering of one table *)

\* What is offered of table f is offered of table g.
OffersIn(f, g, k, P) ==
    \A p \in P, n \in Nat : Offered(n, Rows(f, k, p)) => Offered(n, Rows(g, k, p))

\* A parent without versions is densely numbered.
LEMMA DenseEmpty ==
    ASSUME NEW N, NEW R, N = {}, R = {}
    PROVE  Dense(N, R) /\ Cardinality(R) = 0 /\ Offered(1, R)
<1>1. IsFiniteSet(R) /\ Cardinality(R) = 0 /\ Cardinality(N) = 0
  BY FS_EmptySet
<1>2. N = 1 .. 0
  OBVIOUS
<1> QED
  BY <1>1, <1>2 DEF Dense, Numbered, Offered

\* A number that is offered and free is the next one.
LEMMA DenseAdd ==
    ASSUME NEW N, NEW R, Dense(N, R), NEW n, Offered(n, R), n \notin N, NEW v, v \notin R
    PROVE  /\ Dense(N \cup {n}, R \cup {v})
           /\ Cardinality(R \cup {v}) = Cardinality(R) + 1
           /\ n = Cardinality(R) + 1
<1> DEFINE c == Cardinality(R)
<1>1. c \in Nat /\ N = 1 .. c /\ Cardinality(N) = c /\ IsFiniteSet(R)
  BY FS_CardinalityType DEF Dense, Numbered
<1>2. IsFiniteSet(N)
  BY <1>1, FS_Interval
<1>3. n = c + 1
  BY <1>1 DEF Offered
<1>4. IsFiniteSet(R \cup {v}) /\ Cardinality(R \cup {v}) = c + 1
  BY <1>1, FS_AddElement
<1>5. Cardinality(N \cup {n}) = c + 1
  BY <1>1, <1>2, FS_AddElement
<1>6. N \cup {n} = 1 .. (c + 1)
  <2> HIDE DEF c
  <2> QED
    BY <1>1, <1>3
<1> QED
  BY <1>3, <1>4, <1>5, <1>6 DEF Dense, Numbered

\* A number that was offered stays offered while rows are added.
LEMMA OfferedGrows ==
    ASSUME NEW R, NEW S, IsFiniteSet(S), R \subseteq S, NEW n, Offered(n, R)
    PROVE  Offered(n, S)
<1>1. Cardinality(R) \in Nat /\ Cardinality(S) \in Nat /\ Cardinality(R) <= Cardinality(S)
  BY FS_Subset, FS_CardinalityType
<1> QED
  BY <1>1 DEF Offered

\* Listing the versions of a densely numbered parent offers the next number, by
\* their count or by the highest of them.
LEMMA OfferedNext ==
    ASSUME NEW N, NEW R, Dense(N, R)
    PROVE  /\ Cardinality(R) \in Nat
           /\ Offered(Cardinality(R) + 1, R)
           /\ \A n \in N : Offered(n + 1, R)
<1>1. Cardinality(R) \in Nat /\ N = 1 .. Cardinality(R)
  BY FS_CardinalityType DEF Dense, Numbered
<1> QED
  BY <1>1 DEF Offered

\* Two versions of a densely numbered parent have different numbers.
LEMMA SameNumber ==
    ASSUME NEW f, NEW k, NEW p, Dense(Nums(f, k, p), Rows(f, k, p)),
           NEW v \in Rows(f, k, p), NEW w \in Rows(f, k, p), f[v].number = f[w].number
    PROVE  v = w
<1> DEFINE R == Rows(f, k, p)
           N == Nums(f, k, p)
           num == [x \in R |-> f[x].number]
<1>1. IsFiniteSet(R) /\ Cardinality(R) = Cardinality(N)
  BY DEF Dense, Numbered
<1>2. num \in Surjection(R, N)
  BY DEF Surjection, Nums
<1>3. num \in Injection(R, N)
  <2> HIDE DEF R, N, num
  <2> QED
    BY <1>1, <1>2, FS_SurjSameCardinalityImpliesInj
<1> QED
  BY <1>3 DEF Injection, IsInjective

\* The row is inserted into table f under the id v.
Inserted(f, g, v, row) ==
    /\ v \in DOMAIN f /\ f[v] = None /\ row # None
    /\ DOMAIN g = DOMAIN f /\ g[v] = row
    /\ \A w \in DOMAIN f : w # v => g[w] = f[w]

\* An INSERT under a free id.
LEMMA IsInserted ==
    ASSUME NEW Ids, NEW V, NEW f \in [Ids -> V], NEW v \in Ids, f[v] = None,
           NEW row, row # None
    PROVE  Inserted(f, [f EXCEPT ![v] = row], v, row)
BY DEF Inserted

\* What an insert does to the rows of a parent.
LEMMA RowsInsert ==
    ASSUME NEW f, NEW g, NEW v, NEW row, Inserted(f, g, v, row), NEW k, NEW p
    PROVE  /\ row[k] = p => /\ Rows(g, k, p) = Rows(f, k, p) \cup {v}
                            /\ Nums(g, k, p) = Nums(f, k, p) \cup {row.number}
           /\ row[k] # p => /\ Rows(g, k, p) = Rows(f, k, p)
                            /\ Nums(g, k, p) = Nums(f, k, p)
           /\ v \notin Rows(f, k, p)
<1> DEFINE Ids == DOMAIN f
<1>1. /\ v \in Ids /\ f[v] = None /\ row # None
      /\ DOMAIN g = Ids /\ DOMAIN f = Ids /\ g[v] = row
      /\ \A w \in Ids : w # v => g[w] = f[w]
  BY DEF Inserted
<1> HIDE DEF Ids
<1>2. /\ row[k] = p => Rows(g, k, p) = Rows(f, k, p) \cup {v}
      /\ row[k] # p => Rows(g, k, p) = Rows(f, k, p)
      /\ v \notin Rows(f, k, p)
  BY <1>1 DEF Rows
<1>3. \A w \in Rows(f, k, p) : w \in Ids /\ g[w] = f[w]
  BY <1>1, <1>2 DEF Rows
<1>4. CASE row[k] = p
  <2>1. Nums(g, k, p) = {g[w].number : w \in Rows(f, k, p) \cup {v}}
    BY <1>2, <1>4 DEF Nums
  <2>2. {g[w].number : w \in Rows(f, k, p) \cup {v}}
          = {f[w].number : w \in Rows(f, k, p)} \cup {row.number}
    BY <1>1, <1>3
  <2> QED
    BY <1>2, <1>4, <2>1, <2>2 DEF Nums
<1>5. CASE row[k] # p
  <2>1. {g[w].number : w \in Rows(f, k, p)} = {f[w].number : w \in Rows(f, k, p)}
    BY <1>3
  <2> QED
    BY <1>2, <1>5, <2>1 DEF Nums
<1> QED
  BY <1>2, <1>4, <1>5

\* An insert under UNIQUE (parent, version) of a number that was offered keeps
\* every parent densely numbered, and what is offered to other requests.
LEMMA InsertDense ==
    ASSUME NEW f, NEW g, NEW v, NEW row, Inserted(f, g, v, row), NEW k, NEW P,
           DenseIn(f, k, P), row[k] \in P, Offered(row.number, Rows(f, k, row[k])),
           row.number \notin Nums(f, k, row[k])
    PROVE  /\ DenseIn(g, k, P) /\ OffersIn(f, g, k, P)
           /\ row.number = Cardinality(Rows(f, k, row[k])) + 1
<1>0. \A p :
             /\ row[k] = p => /\ Rows(g, k, p) = Rows(f, k, p) \cup {v}
                              /\ Nums(g, k, p) = Nums(f, k, p) \cup {row.number}
             /\ row[k] # p => /\ Rows(g, k, p) = Rows(f, k, p)
                              /\ Nums(g, k, p) = Nums(f, k, p)
             /\ v \notin Rows(f, k, p)
  BY RowsInsert
<1>1. ASSUME NEW p \in P
      PROVE  /\ Dense(Nums(g, k, p), Rows(g, k, p))
             /\ Rows(f, k, p) \subseteq Rows(g, k, p)
  <2>1. CASE row[k] = p
    <3>1. Dense(Nums(f, k, p) \cup {row.number}, Rows(f, k, p) \cup {v})
      BY <1>0, <2>1, DenseAdd, Zenon DEF DenseIn
    <3> QED
      BY <1>0, <2>1, <3>1
  <2>2. CASE row[k] # p
    BY <1>0, <2>2 DEF DenseIn
  <2> QED
    BY <2>1, <2>2
<1>2. ASSUME NEW p \in P, NEW n \in Nat, Offered(n, Rows(f, k, p))
      PROVE  Offered(n, Rows(g, k, p))
  BY <1>1, <1>2, OfferedGrows DEF Dense
<1>3. row.number = Cardinality(Rows(f, k, row[k])) + 1
  BY <1>0, DenseAdd, ZenonT(40) DEF DenseIn
<1> QED
  BY <1>1, <1>2, <1>3 DEF DenseIn, OffersIn

\* An update keeps rows, parents and numbers.
Updated(f, g, k) ==
    /\ DOMAIN g = DOMAIN f
    /\ \A v \in DOMAIN f : (f[v] # None) <=> (g[v] # None)
    /\ \A v \in DOMAIN f : f[v] # None => g[v][k] = f[v][k] /\ g[v].number = f[v].number

\* An update leaves every parent numbered as it was.
LEMMA UpdateDense ==
    ASSUME NEW f, NEW g, NEW k, Updated(f, g, k), NEW P, DenseIn(f, k, P)
    PROVE  DenseIn(g, k, P) /\ OffersIn(f, g, k, P)
<1>1. ASSUME NEW p
      PROVE  Rows(g, k, p) = Rows(f, k, p) /\ Nums(g, k, p) = Nums(f, k, p)
  <2>1. Rows(g, k, p) = Rows(f, k, p)
    BY DEF Rows, Updated
  <2>2. \A v \in Rows(f, k, p) : g[v].number = f[v].number
    BY DEF Rows, Updated
  <2> QED
    BY <2>1, <2>2 DEF Nums
<1> QED
  BY <1>1 DEF DenseIn, OffersIn

-----------------------------------------------------------------------------
(* Tools *)

\* VersionsOf and NumbersOf list the rows of a tool.
LEMMA ToolRows ==
    ASSUME ToolTypeOK, NEW t
    PROVE  /\ VersionsOf(t) = Rows(toolVersion, "tool", t)
           /\ NumbersOf(t) = Nums(toolVersion, "tool", t)
BY DEF ToolTypeOK, VersionsOf, NumbersOf, ExistingToolVersions, Rows, Nums

\* How a request comes to hold a copied or a numbered version.
LEMMA ToolJobSteps ==
    ASSUME TypeOK, ToolNext, NEW q \in Requests, job'[q].op \in {"copied", "numbered"}
    PROVE  \/ job'[q] = job[q]
           \/ /\ job'[q].op = "copied" /\ tool[job'[q].tool] # None
              /\ UNCHANGED toolVars
           \/ /\ job[q].op = "copied" /\ job'[q].op = "numbered"
              /\ job'[q].tool = job[q].tool
              /\ \E n \in NumbersOf(job[q].tool) : job'[q].number = n + 1
              /\ UNCHANGED toolVars
<1> USE DEF Start, Continue, Done, Idle
<1> DEFINE Goal == \/ job'[q] = job[q]
                   \/ /\ job'[q].op = "copied" /\ tool[job'[q].tool] # None
                      /\ UNCHANGED toolVars
                   \/ /\ job[q].op = "copied" /\ job'[q].op = "numbered"
                      /\ job'[q].tool = job[q].tool
                      /\ \E n \in NumbersOf(job[q].tool) : job'[q].number = n + 1
                      /\ UNCHANGED toolVars
<1>0. job \in [Requests -> Job]
  BY JobType
<1>1. ASSUME NEW t \in Tools, NEW v \in ToolVersions, NEW row \in ToolRow,
             NEW c \in Configs, NEW s \in Secrets \cup {None}, CreateTool(t, v, row, c, s)
      PROVE  Goal
  BY <1>1 DEF CreateTool
<1>2. ASSUME NEW r \in Requests, NEW ws \in Workspaces, NEW t \in Tools,
             NEW c \in Configs \cup {None}, NEW s \in Secrets \cup {None},
             CopyCurrentVersion(r, ws, t, c, s)
      PROVE  Goal
  BY <1>0, <1>2 DEF CopyCurrentVersion, InWorkspace
<1>3. ASSUME NEW r \in Requests, NumberToolVersion(r) PROVE Goal
  BY <1>0, <1>3 DEF NumberToolVersion
<1>4. ASSUME NEW r \in Requests, NEW ws \in Workspaces,
             \/ \E t \in Tools : TestTool(r, ws, t)
             \/ \E v \in ToolVersions : PassPublishGate(r, ws, v)
      PROVE  Goal
  BY <1>0, <1>4 DEF TestTool, PassPublishGate
<1>5. ASSUME NEW r \in Requests,
             \/ CreateToolVersionRefused(r) \/ RecordTestRun(r) \/ RecordFailedRun(r)
             \/ FindTestedVersion(r) \/ PublishToolVersion(r) \/ ListLegacyCredentials(r)
             \/ \E v \in ToolVersions : CreateToolVersion(r, v)
      PROVE  Goal
  BY <1>0, <1>5 DEF CreateToolVersionRefused, FindTestedVersion, RecordTestRun, RecordFailedRun,
        PublishToolVersion, ListLegacyCredentials, CreateToolVersion
<1>6. ASSUME NEW r \in Requests, NEW v \in ToolVersions, SealLegacyCredential(r, v)
      PROVE  Goal
  <2>1. job[r] \in [op : {"sealing"}, versions : SUBSET ToolVersions]
    BY <1>6, JobType, ToolJobFields DEF SealLegacyCredential
  <2> QED
    BY <1>0, <1>6, <2>1 DEF SealLegacyCredential
<1>7. ASSUME NEW run \in testRun, AgeTestRun(run) PROVE Goal
  BY <1>7 DEF AgeTestRun
<1> HIDE DEF Goal
<1>8. Goal
  BY <1>1, <1>2, <1>3, <1>4, <1>5, <1>6, <1>7 DEF ToolNext
<1> QED
  BY <1>8 DEF Goal

\* Every write keeps the versions of a tool densely numbered.
LEMMA ToolsDenseStep ==
    ASSUME TypeInv, TypeInv', ToolsInv, ToolNext \/ ToolsFrame, ToolsKeep
    PROVE  /\ DenseIn(toolVersion', "tool", Tools)
           /\ OffersIn(toolVersion, toolVersion', "tool", Tools)
           /\ \A v \in ExistingToolVersions' : tool'[toolVersion'[v].tool] # None
<1>0. /\ ToolTypeOK /\ TypeOK /\ DenseIn(toolVersion, "tool", Tools)
      /\ \A v \in ExistingToolVersions : tool[toolVersion[v].tool] # None
  BY DEF TypeInv, TypeOK, ToolsInv
<1>1. ToolTypeOK'
  BY DEF TypeInv, TypeOK
<1> DEFINE Goal == /\ DenseIn(toolVersion', "tool", Tools)
                   /\ OffersIn(toolVersion, toolVersion', "tool", Tools)
                   /\ \A v \in ExistingToolVersions' : tool'[toolVersion'[v].tool] # None
\* A version that was there keeps its tool.
<1>2. ASSUME NEW v \in ExistingToolVersions PROVE tool'[toolVersion'[v].tool] # None
  <2>1. toolVersion[v].tool \in Tools
    BY <1>0, ToolVersionType DEF ToolVersionRow
  <2> QED
    BY <1>0, <2>1 DEF ToolsKeep
<1>3. ASSUME \A v \in ToolVersions : toolVersion[v] = None => toolVersion'[v] = None
      PROVE  Goal
  <2>1. Updated(toolVersion, toolVersion', "tool")
    BY <1>0, <1>1, <1>3 DEF Updated, ToolTypeOK, ToolsKeep, ExistingToolVersions
  <2>2. ExistingToolVersions' \subseteq ExistingToolVersions
    BY <1>3 DEF ExistingToolVersions
  <2> QED
    BY <1>0, <1>2, <2>1, <2>2, UpdateDense
\* A new version has the next number of a tool that is there.
<1>4. ASSUME NEW v \in ToolVersions, toolVersion[v] = None, NEW row \in ToolVersionRow,
             toolVersion' = [toolVersion EXCEPT ![v] = row],
             Offered(row.number, VersionsOf(row.tool)), row.number \notin NumbersOf(row.tool),
             tool'[row.tool] # None
      PROVE  Goal
  <2>1. /\ DenseIn(toolVersion', "tool", Tools)
        /\ OffersIn(toolVersion, toolVersion', "tool", Tools)
    <3>1. row # None /\ row["tool"] \in Tools
      BY ToolRowsAssumption DEF ToolVersionRow
    <3>2. Inserted(toolVersion, toolVersion', v, row)
      BY <1>0, <1>4, <3>1, IsInserted DEF ToolTypeOK
    <3>3. /\ Offered(row.number, Rows(toolVersion, "tool", row["tool"]))
          /\ row.number \notin Nums(toolVersion, "tool", row["tool"])
      BY <1>0, <1>4, ToolRows
    <3> QED
      BY <1>0, <3>1, <3>2, <3>3, InsertDense
  <2>2. \A w \in ExistingToolVersions' : w \in ExistingToolVersions \/ w = v
    BY <1>0, <1>4 DEF ExistingToolVersions, ToolTypeOK
  <2>3. toolVersion'[v] = row
    BY <1>0, <1>4 DEF ToolTypeOK
  <2> QED
    BY <1>2, <1>4, <2>1, <2>2, <2>3
<1>5. ASSUME UNCHANGED toolVersion PROVE Goal
  BY <1>3, <1>5
<1>6. ASSUME NEW t \in Tools, NEW v \in ToolVersions, NEW row \in ToolRow,
             NEW c \in Configs, NEW s \in Secrets \cup {None},
             CreateTool(t, v, row, c, s)
      PROVE  Goal
  <2> DEFINE first == NewToolVersion(t, 1, c, s)
  <2>1. first \in ToolVersionRow /\ first.tool = t /\ first.number = 1
    BY NewToolVersionType DEF NewToolVersion
  <2>2. tool[t] = None /\ v \notin ExistingToolVersions
    BY <1>6, FreshIsFree DEF CreateTool, CreateToolWithVersion
  <2>3. VersionsOf(t) = {} /\ NumbersOf(t) = {}
    BY <1>0, <2>2 DEF VersionsOf, NumbersOf
  <2>4. Offered(1, VersionsOf(t))
    BY <2>3, DenseEmpty
  <2>5. tool'[t] # None
    BY <1>0, <1>6, ToolRowsAssumption DEF CreateTool, CreateToolWithVersion, ToolTypeOK
  <2>6. toolVersion' = [toolVersion EXCEPT ![v] = first]
    BY <1>6 DEF CreateTool, CreateToolWithVersion
  <2> HIDE DEF first
  <2>7. toolVersion[v] = None
    BY <2>2 DEF ExistingToolVersions
  <2> QED
    BY <1>4, <2>1, <2>3, <2>4, <2>5, <2>6, <2>7
<1>7. ASSUME NEW r \in Requests, NEW v \in ToolVersions, CreateToolVersion(r, v) PROVE Goal
  <2> DEFINE row == NewToolVersion(job[r].tool, job[r].number, job[r].config, job[r].secret)
  <2>1. row \in ToolVersionRow /\ row.tool = job[r].tool /\ row.number = job[r].number
    BY <1>0, <1>7, JobType, ToolJobFields, NewToolVersionType
       DEF CreateToolVersion, NewToolVersion
  <2>2. toolVersion[v] = None
    BY <1>7, FreshIsFree DEF CreateToolVersion, InsertToolVersion, ExistingToolVersions
  <2>3. toolVersion' = [toolVersion EXCEPT ![v] = row] /\ UNCHANGED tool
        /\ row.number \notin NumbersOf(row.tool)
    BY <1>7 DEF CreateToolVersion, InsertToolVersion, NumberIsFree
  <2>4. job[r].op = "numbered" /\ tool[job[r].tool] # None
        /\ Offered(job[r].number, VersionsOf(job[r].tool))
    BY <1>0, <1>7, ToolRows DEF CreateToolVersion, ToolsInv
  <2> HIDE DEF row
  <2> QED
    BY <1>4, <2>1, <2>2, <2>3, <2>4
<1>8. ASSUME NEW r \in Requests, PublishToolVersion(r) PROVE Goal
  <2>1. job[r].version \in ExistingToolVersions
    BY <1>8 DEF PublishToolVersion, TypeInv, ToolsKnown
  <2> QED
    BY <1>0, <1>3, <1>8, <2>1
       DEF PublishToolVersion, UpdateToolVersionStatus, ToolTypeOK, ExistingToolVersions
<1>9. ASSUME NEW r \in Requests, NEW v \in ToolVersions, SealLegacyCredential(r, v) PROVE Goal
  <2>1. v \in ExistingToolVersions
    BY <1>9 DEF SealLegacyCredential, TypeInv, ToolsKnown
  <2> QED
    BY <1>0, <1>3, <1>9, <2>1
       DEF SealLegacyCredential, EncryptToolVersionAuth, ToolTypeOK, ExistingToolVersions
<1> HIDE DEF Goal
<1>10. Goal
  <2>1. CASE ToolsFrame
    BY <1>5, <2>1 DEF ToolsFrame, toolVars
  <2>2. CASE ToolNext
    <3>1. CASE UNCHANGED <<tool, toolVersion>>
      BY <1>5, <3>1
    <3> QED
      BY <1>6, <1>7, <1>8, <1>9, <2>2, <3>1, ToolWrites
  <2> QED
    BY <2>1, <2>2
<1> QED
  BY <1>10 DEF Goal

\* Numbering a tool version survives every step.
LEMMA ToolsInvStep ==
    ASSUME TypeInv, TypeInv', ToolsInv, ToolNext \/ ToolsFrame, ToolsKeep
    PROVE  ToolsInv'
<1>0. TypeOK /\ ToolTypeOK /\ DenseIn(toolVersion, "tool", Tools)
  BY DEF TypeInv, TypeOK, ToolsInv
<1>1. /\ DenseIn(toolVersion', "tool", Tools)
      /\ OffersIn(toolVersion, toolVersion', "tool", Tools)
      /\ \A v \in ExistingToolVersions' : tool'[toolVersion'[v].tool] # None
  BY ToolsDenseStep
<1>2. ASSUME NEW q \in Requests, job'[q].op \in {"copied", "numbered"}
      PROVE  /\ tool'[job'[q].tool] # None
             /\ job'[q].op = "numbered" =>
                   Offered(job'[q].number, Rows(toolVersion', "tool", job'[q].tool))
  <2>1. CASE job'[q] = job[q]
    <3>1. job[q].tool \in Tools /\ (job[q].op = "numbered" => job[q].number \in Nat)
      BY <1>0, <1>2, <2>1, JobType, ToolJobFields
    <3>2. tool[job[q].tool] # None
          /\ (job[q].op = "numbered" =>
                Offered(job[q].number, Rows(toolVersion, "tool", job[q].tool)))
      BY <1>2, <2>1 DEF ToolsInv
    <3> QED
      BY <1>1, <2>1, <3>1, <3>2 DEF ToolsKeep, OffersIn
  <2>2. CASE job'[q].op = "copied" /\ tool[job'[q].tool] # None /\ UNCHANGED toolVars
    BY <2>2 DEF toolVars
  <2>3. CASE /\ job[q].op = "copied" /\ job'[q].op = "numbered"
             /\ job'[q].tool = job[q].tool
             /\ \E n \in NumbersOf(job[q].tool) : job'[q].number = n + 1
             /\ UNCHANGED toolVars
    <3>1. job[q].tool \in Tools /\ tool[job[q].tool] # None
      BY <1>0, <2>3, JobType, ToolJobFields DEF ToolsInv
    <3>2. PICK n \in Nums(toolVersion, "tool", job[q].tool) : job'[q].number = n + 1
      BY <1>0, <2>3, ToolRows
    <3>3. Offered(n + 1, Rows(toolVersion, "tool", job[q].tool))
      BY <1>0, <3>1, OfferedNext DEF DenseIn
    <3> QED
      BY <2>3, <3>1, <3>2, <3>3 DEF toolVars
  <2>4. CASE ToolNext
    BY <1>0, <1>2, <2>1, <2>2, <2>3, <2>4, ToolJobSteps
  <2>5. CASE ToolsFrame
    BY <1>2, <2>1, <2>5 DEF ToolsFrame, Held, ToolOps
  <2> QED
    BY <2>4, <2>5
<1> QED
  BY <1>1, <1>2 DEF ToolsInv

-----------------------------------------------------------------------------
(* Prompts *)

\* PromptVersionsOf lists the rows of a prompt.
LEMMA PromptRows ==
    ASSUME PromptTypeOK, NEW p
    PROVE  PromptVersionsOf(p) = Rows(promptVersion, "prompt", p)
BY DEF PromptTypeOK, PromptVersionsOf, Rows

\* How a request comes to hold a prompt, and the number of its next version.
LEMMA PromptJobSteps ==
    ASSUME TypeOK, PromptNext, NEW q \in Requests, job'[q].op \in {"prompted", "counted"}
    PROVE  \/ job'[q] = job[q]
           \/ job'[q].op = "prompted" /\ prompt'[job'[q].prompt] # None
           \/ /\ job[q].op = "prompted" /\ job'[q].op = "counted"
              /\ job'[q].prompt = job[q].prompt /\ prompt[job[q].prompt] # None
              /\ job'[q].number = Cardinality(PromptVersionsOf(job[q].prompt)) + 1
              /\ UNCHANGED promptVars
<1> USE DEF Start, Continue, Done, Idle, promptVars, catalogVars
<1> DEFINE Goal == \/ job'[q] = job[q]
                   \/ job'[q].op = "prompted" /\ prompt'[job'[q].prompt] # None
                   \/ /\ job[q].op = "prompted" /\ job'[q].op = "counted"
                      /\ job'[q].prompt = job[q].prompt /\ prompt[job[q].prompt] # None
                      /\ job'[q].number = Cardinality(PromptVersionsOf(job[q].prompt)) + 1
                      /\ UNCHANGED promptVars
<1>0. job \in [Requests -> Job] /\ PromptTypeOK
  BY JobType, TypeParts
<1>1. ASSUME NEW r \in Requests, NEW p \in Prompts, NEW renders \in BOOLEAN,
             NEW row \in PromptRow, CreatePrompt(r, p, row, renders)
      PROVE  Goal
  <2>1. prompt'[p] # None
    BY <1>0, <1>1, CatalogAssumption DEF CreatePrompt, PromptTypeOK
  <2> QED
    BY <1>0, <1>1, <2>1 DEF CreatePrompt
<1>2. ASSUME NEW r \in Requests, NEW p \in Prompts, NEW renders \in BOOLEAN,
             NEW ws \in Workspaces, RequestPromptVersion(r, ws, p, renders)
      PROVE  Goal
  BY <1>0, <1>2 DEF RequestPromptVersion
<1>3. ASSUME NEW r \in Requests, CountPromptVersions(r) PROVE Goal
  BY <1>0, <1>3 DEF CountPromptVersions
<1>4. ASSUME NEW r \in Requests,
             \/ \E v \in PromptVersions : CreatePromptVersion(r, v)
             \/ PromptVersionFails(r) \/ RollbackNewPrompt(r) \/ RollbackFails(r)
      PROVE  Goal
  BY <1>0, <1>4 DEF CreatePromptVersion, PromptVersionFails, RollbackNewPrompt, RollbackFails
<1> HIDE DEF Goal
<1>5. Goal
  BY <1>1, <1>2, <1>3, <1>4 DEF PromptNext
<1> QED
  BY <1>5 DEF Goal

\* What a step does to the rows of prompts and prompt_versions: a number offered
\* for a prompt that stays remains offered, and only ids not yet lost are given
\* to new prompts.
PromptsOffer ==
    \A p \in Prompts, n \in Nat :
        /\ prompt[p] = None /\ p \in lost => prompt'[p] = None
        /\ prompt'[p] # None /\ Offered(n, Rows(promptVersion, "prompt", p)) =>
              Offered(n, Rows(promptVersion', "prompt", p))

\* Every write keeps the versions of a prompt densely numbered; a rollback
\* removes all of them.
LEMMA PromptsDenseStep ==
    ASSUME TypeInv, PromptsInv, PromptNext \/ PromptsFrame
    PROVE  /\ DenseIn(promptVersion', "prompt", Prompts) /\ PromptsOffer
           /\ \A v \in PromptVersions : promptVersion'[v] # None =>
                 prompt'[promptVersion'[v].prompt] # None
<1>0. /\ PromptTypeOK /\ TypeOK /\ DenseIn(promptVersion, "prompt", Prompts)
      /\ \A v \in PromptVersions : promptVersion[v] # None =>
            prompt[promptVersion[v].prompt] # None
  BY TypeParts DEF TypeInv, PromptsInv
<1> DEFINE Goal ==
      /\ DenseIn(promptVersion', "prompt", Prompts) /\ PromptsOffer
      /\ \A v \in PromptVersions : promptVersion'[v] # None =>
            prompt'[promptVersion'[v].prompt] # None
<1>1. ASSUME UNCHANGED promptVars PROVE Goal
  BY <1>0, <1>1 DEF promptVars, PromptsOffer
<1>2. ASSUME NEW r \in Requests, NEW p \in Prompts, NEW renders \in BOOLEAN,
             NEW row \in PromptRow, CreatePrompt(r, p, row, renders)
      PROVE  Goal
  <2>1. p \notin lost /\ prompt[p] = None
    BY <1>2, FreshIsFree DEF CreatePrompt
  <2>2. prompt' = [prompt EXCEPT ![p] = row] /\ UNCHANGED promptVersion /\ row # None
    BY <1>2, CatalogAssumption DEF CreatePrompt
  <2>3. \A v \in PromptVersions : promptVersion[v] # None => promptVersion[v].prompt \in Prompts
    BY <1>0 DEF PromptTypeOK, PromptVersionRow
  <2> QED
    BY <1>0, <2>1, <2>2, <2>3 DEF PromptsOffer, PromptTypeOK
<1>3. ASSUME NEW r \in Requests, NEW v \in PromptVersions, CreatePromptVersion(r, v)
      PROVE  Goal
  <2> DEFINE row == [prompt |-> job[r].prompt, number |-> job[r].number,
                     renders |-> job[r].renders]
  <2>1. row \in PromptVersionRow /\ row.prompt = job[r].prompt /\ row.number = job[r].number
    BY <1>0, <1>3, JobType, CatalogJobFields DEF CreatePromptVersion, PromptVersionRow
  <2>2. promptVersion[v] = None /\ row # None /\ row["prompt"] \in Prompts
    BY <1>3, <2>1, FreshIsFree, CatalogAssumption
       DEF CreatePromptVersion, InsertPromptVersion, PromptVersionRow
  <2>3. /\ promptVersion' = [promptVersion EXCEPT ![v] = row]
        /\ prompt[row.prompt] # None
        /\ \A w \in PromptVersionsOf(row.prompt) : promptVersion[w].number # row.number
        /\ UNCHANGED <<prompt, lost>> /\ job[r].op = "counted"
    BY <1>3 DEF CreatePromptVersion, InsertPromptVersion
  <2>4. Offered(job[r].number, Rows(promptVersion, "prompt", job[r].prompt))
    BY <2>1, <2>3 DEF PromptsInv
  <2> HIDE DEF row
  <2>5. Inserted(promptVersion, promptVersion', v, row)
    BY <1>0, <2>2, <2>3, IsInserted DEF PromptTypeOK
  <2>6. /\ Offered(row.number, Rows(promptVersion, "prompt", row["prompt"]))
        /\ row.number \notin Nums(promptVersion, "prompt", row["prompt"])
    BY <1>0, <2>1, <2>3, <2>4, PromptRows DEF Nums
  <2>7. /\ DenseIn(promptVersion', "prompt", Prompts)
        /\ OffersIn(promptVersion, promptVersion', "prompt", Prompts)
    BY <1>0, <2>2, <2>5, <2>6, InsertDense
  <2>8. \A w \in PromptVersions : promptVersion'[w] # None =>
           prompt'[promptVersion'[w].prompt] # None
    BY <1>0, <2>3 DEF PromptTypeOK
  <2> QED
    BY <2>3, <2>7, <2>8 DEF PromptsOffer, OffersIn
<1>4. ASSUME NEW r \in Requests, RollbackNewPrompt(r) PROVE Goal
  <2> DEFINE d == job[r].prompt
  <2>1. d \in Prompts
    BY <1>0, <1>4, JobType, CatalogJobFields DEF RollbackNewPrompt
  <2>2. /\ prompt' = [prompt EXCEPT ![d] = None]
        /\ promptVersion' = [v \in PromptVersions |->
              IF v \in PromptVersionsOf(d) THEN None ELSE promptVersion[v]]
    BY <1>4 DEF RollbackNewPrompt, DeletePrompt
  <2> HIDE DEF d
  <2>3. Rows(promptVersion', "prompt", d) = {} /\ Nums(promptVersion', "prompt", d) = {}
    BY <1>0, <2>2, PromptRows DEF Rows, Nums, PromptTypeOK
  <2>4. ASSUME NEW p \in Prompts, p # d
        PROVE  /\ Rows(promptVersion', "prompt", p) = Rows(promptVersion, "prompt", p)
               /\ Nums(promptVersion', "prompt", p) = Nums(promptVersion, "prompt", p)
    <3>1. Rows(promptVersion', "prompt", p) = Rows(promptVersion, "prompt", p)
      BY <1>0, <2>2, <2>4 DEF Rows, PromptTypeOK, PromptVersionsOf
    <3>2. \A v \in Rows(promptVersion, "prompt", p) : promptVersion'[v] = promptVersion[v]
      BY <1>0, <2>2, <2>4 DEF Rows, PromptTypeOK, PromptVersionsOf
    <3> QED
      BY <3>1, <3>2 DEF Nums
  <2>5. DenseIn(promptVersion', "prompt", Prompts)
    BY <1>0, <2>3, <2>4, DenseEmpty DEF DenseIn
  <2>6. PromptsOffer
    BY <1>0, <2>1, <2>2, <2>4 DEF PromptsOffer, PromptTypeOK
  <2>7. \A v \in PromptVersions : promptVersion'[v] # None =>
           prompt'[promptVersion'[v].prompt] # None
    <3>1. \A v \in PromptVersions : promptVersion'[v] # None =>
             promptVersion'[v] = promptVersion[v] /\ promptVersion[v].prompt # d
      BY <2>2 DEF PromptVersionsOf
    <3>2. \A v \in PromptVersions : promptVersion[v] # None => promptVersion[v].prompt \in Prompts
      BY <1>0 DEF PromptTypeOK, PromptVersionRow
    <3> QED
      BY <1>0, <2>2, <3>1, <3>2 DEF PromptTypeOK
  <2> QED
    BY <2>5, <2>6, <2>7
<1> HIDE DEF Goal
<1>5. Goal
  <2>1. CASE PromptsFrame
    BY <1>1, <2>1 DEF PromptsFrame
  <2>2. CASE PromptNext
    BY <1>1, <1>2, <1>3, <1>4, <2>2, PromptWrites
  <2> QED
    BY <2>1, <2>2
<1> QED
  BY <1>5 DEF Goal

\* Numbering a prompt version survives every step, the rollback of a prompt's
\* creation included.
LEMMA PromptsInvStep ==
    ASSUME TypeInv, PromptsInv, PromptNext \/ PromptsFrame, PromptsKeep
    PROVE  PromptsInv'
<1>0. TypeOK /\ PromptTypeOK /\ DenseIn(promptVersion, "prompt", Prompts)
  BY TypeParts DEF TypeInv, PromptsInv
<1>1. /\ DenseIn(promptVersion', "prompt", Prompts) /\ PromptsOffer
      /\ \A v \in PromptVersions : promptVersion'[v] # None =>
            prompt'[promptVersion'[v].prompt] # None
  BY PromptsDenseStep
<1>2. ASSUME NEW q \in Requests, job'[q].op \in {"prompted", "counted"}
      PROVE  /\ prompt'[job'[q].prompt] # None \/ job'[q].prompt \in lost'
             /\ job'[q].op = "counted" =>
                   \/ prompt'[job'[q].prompt] = None
                   \/ Offered(job'[q].number, Rows(promptVersion', "prompt", job'[q].prompt))
  <2>1. CASE job'[q] = job[q]
    <3> DEFINE p == job[q].prompt
    <3>1. p \in Prompts /\ (job[q].op = "counted" => job[q].number \in Nat)
      BY <1>0, <1>2, <2>1, JobType, CatalogJobFields
    <3>2. /\ prompt[p] # None \/ p \in lost
          /\ job[q].op = "counted" =>
                \/ prompt[p] = None
                \/ Offered(job[q].number, Rows(promptVersion, "prompt", p))
      BY <1>2, <2>1 DEF PromptsInv
    <3>3. prompt'[p] # None \/ p \in lost'
      BY <3>1, <3>2 DEF PromptsKeep
    <3>4. ASSUME job[q].op = "counted", prompt'[p] # None
          PROVE  Offered(job[q].number, Rows(promptVersion', "prompt", p))
      <4>1. prompt[p] # None
        BY <1>1, <3>1, <3>2, <3>4 DEF PromptsOffer
      <4> QED
        BY <1>1, <3>1, <3>2, <3>4, <4>1 DEF PromptsOffer
    <3> QED
      BY <2>1, <3>3, <3>4
  <2>2. CASE job'[q].op = "prompted" /\ prompt'[job'[q].prompt] # None
    BY <2>2
  <2>3. CASE /\ job[q].op = "prompted" /\ job'[q].op = "counted"
             /\ job'[q].prompt = job[q].prompt /\ prompt[job[q].prompt] # None
             /\ job'[q].number = Cardinality(PromptVersionsOf(job[q].prompt)) + 1
             /\ UNCHANGED promptVars
    <3>1. job[q].prompt \in Prompts
      BY <1>0, <2>3, JobType, CatalogJobFields
    <3>2. Offered(job'[q].number, Rows(promptVersion, "prompt", job[q].prompt))
      BY <1>0, <2>3, <3>1, OfferedNext, PromptRows DEF DenseIn
    <3> QED
      BY <2>3, <3>1, <3>2 DEF promptVars
  <2>4. CASE PromptNext
    BY <1>0, <1>2, <2>1, <2>2, <2>3, <2>4, PromptJobSteps
  <2>5. CASE PromptsFrame
    BY <1>2, <2>1, <2>5 DEF PromptsFrame, Held, PromptOps
  <2> QED
    BY <2>4, <2>5
<1> QED
  BY <1>1, <1>2 DEF PromptsInv

-----------------------------------------------------------------------------
(* Skills *)

\* SkillVersionsOf lists the rows of a skill.
LEMMA SkillRows ==
    ASSUME SkillTypeOK, NEW k
    PROVE  SkillVersionsOf(k) = Rows(skillVersion, "skill", k)
BY DEF SkillTypeOK, SkillVersionsOf, Rows

\* How a request comes to hold the number of the next skill version.
LEMMA SkillJobSteps ==
    ASSUME TypeOK, SkillNext, NEW q \in Requests, job'[q].op = "skill counted"
    PROVE  \/ job'[q] = job[q]
           \/ /\ job'[q].skill \in Skills /\ skill[job'[q].skill] # None
              /\ job'[q].number = Cardinality(SkillVersionsOf(job'[q].skill)) + 1
              /\ UNCHANGED skillVars
<1> USE DEF Start, Continue, Done, Idle, skillVars, catalogVars
<1> DEFINE Goal == \/ job'[q] = job[q]
                   \/ /\ job'[q].skill \in Skills /\ skill[job'[q].skill] # None
                      /\ job'[q].number = Cardinality(SkillVersionsOf(job'[q].skill)) + 1
                      /\ UNCHANGED skillVars
<1>0. job \in [Requests -> Job]
  BY JobType
<1>1. ASSUME NEW k \in Skills, NEW v \in SkillVersions, NEW ws \in Workspaces,
             NEW spec \in SkillSpecs, CreateSkill(k, v, ws, spec)
      PROVE  Goal
  BY <1>1 DEF CreateSkill
<1>2. ASSUME NEW r \in Requests, NEW ws \in Workspaces, NEW k \in Skills,
             NEW spec \in SkillSpecs, CountSkillVersions(r, ws, k, spec)
      PROVE  Goal
  <2>1. CASE q # r
    BY <1>0, <1>2, <2>1 DEF CountSkillVersions
  <2>2. CASE q = r
    BY <1>0, <1>2, <2>2 DEF CountSkillVersions
  <2> QED
    BY <2>1, <2>2
<1>3. ASSUME NEW r \in Requests,
             \/ \E v \in SkillVersions : CreateSkillVersion(r, v)
             \/ SkillVersionFails(r) \/ PublishSkillVersion(r)
             \/ \E ws \in Workspaces, v \in SkillVersions : PassSkillGate(r, ws, v)
      PROVE  Goal
  <2>1. PICK j \in {Idle} \cup [op : {"skill publishing"}, version : SkillVersions] :
          job' = [job EXCEPT ![r] = j]
    BY <1>3 DEF CreateSkillVersion, SkillVersionFails, PublishSkillVersion, PassSkillGate
  <2>2. j.op # "skill counted"
    <3>1. CASE j = Idle
      BY <3>1
    <3>2. CASE j \in [op : {"skill publishing"}, version : SkillVersions]
      BY <3>2
    <3> QED
      BY <3>1, <3>2
  <2>3. job'[q] = job[q]
    BY <1>0, <2>1, <2>2
  <2> QED
    BY <2>3
<1> HIDE DEF Goal
<1>4. Goal
  BY <1>1, <1>2, <1>3 DEF SkillNext
<1> QED
  BY <1>4 DEF Goal

\* The steps that write skills or skill_versions.
LEMMA SkillWrites ==
    ASSUME SkillNext
    PROVE  \/ UNCHANGED skillVars
           \/ \E k \in Skills, v \in SkillVersions, ws \in Workspaces, spec \in SkillSpecs :
                 CreateSkill(k, v, ws, spec)
           \/ \E r \in Requests, v \in SkillVersions : CreateSkillVersion(r, v)
           \/ \E r \in Requests : PublishSkillVersion(r)
BY DEF SkillNext, skillVars, catalogVars, CountSkillVersions, SkillVersionFails, PassSkillGate

\* Every write keeps the versions of a skill densely numbered.
LEMMA SkillsDenseStep ==
    ASSUME TypeInv, TypeInv', SkillsInv, SkillNext \/ SkillsFrame, SkillsKeep
    PROVE  /\ DenseIn(skillVersion', "skill", Skills)
           /\ OffersIn(skillVersion, skillVersion', "skill", Skills)
           /\ \A v \in SkillVersions : skillVersion'[v] # None =>
                 skill'[skillVersion'[v].skill] # None
<1>0. /\ SkillTypeOK /\ TypeOK /\ DenseIn(skillVersion, "skill", Skills)
      /\ \A v \in SkillVersions : skillVersion[v] # None => skill[skillVersion[v].skill] # None
  BY TypeParts DEF TypeInv, SkillsInv
<1>1. SkillTypeOK'
  BY DEF TypeInv, TypeOK, SkillTypeOK
<1> DEFINE Goal ==
      /\ DenseIn(skillVersion', "skill", Skills)
      /\ OffersIn(skillVersion, skillVersion', "skill", Skills)
      /\ \A v \in SkillVersions : skillVersion'[v] # None =>
            skill'[skillVersion'[v].skill] # None
<1>2. ASSUME NEW v \in SkillVersions, skillVersion[v] # None
      PROVE  skill'[skillVersion'[v].skill] # None
  <2>1. skillVersion[v].skill \in Skills
    BY <1>0, <1>2 DEF SkillTypeOK, SkillVersionRow
  <2> QED
    BY <1>0, <1>2, <2>1 DEF SkillsKeep
<1>3. ASSUME \A v \in SkillVersions : skillVersion[v] = None => skillVersion'[v] = None
      PROVE  Goal
  <2>1. Updated(skillVersion, skillVersion', "skill")
    BY <1>0, <1>1, <1>3 DEF Updated, SkillTypeOK, SkillsKeep
  <2> QED
    BY <1>0, <1>2, <1>3, <2>1, UpdateDense
<1>4. ASSUME NEW v \in SkillVersions, skillVersion[v] = None, NEW row \in SkillVersionRow,
             skillVersion' = [skillVersion EXCEPT ![v] = row],
             Offered(row.number, SkillVersionsOf(row.skill)),
             \A w \in SkillVersionsOf(row.skill) : skillVersion[w].number # row.number,
             skill'[row.skill] # None
      PROVE  Goal
  <2>1. row # None /\ row["skill"] \in Skills
    BY CatalogAssumption DEF SkillVersionRow
  <2>2. Inserted(skillVersion, skillVersion', v, row)
    BY <1>0, <1>4, <2>1, IsInserted DEF SkillTypeOK
  <2>3. /\ Offered(row.number, Rows(skillVersion, "skill", row["skill"]))
        /\ row.number \notin Nums(skillVersion, "skill", row["skill"])
    BY <1>0, <1>4, SkillRows DEF Nums
  <2>4. /\ DenseIn(skillVersion', "skill", Skills)
        /\ OffersIn(skillVersion, skillVersion', "skill", Skills)
    BY <1>0, <2>1, <2>2, <2>3, InsertDense
  <2>5. \A w \in SkillVersions : skillVersion'[w] # None => w = v \/ skillVersion[w] # None
    BY <1>0, <1>4 DEF SkillTypeOK
  <2>6. skillVersion'[v] = row
    BY <1>0, <1>4 DEF SkillTypeOK
  <2> QED
    BY <1>2, <1>4, <2>4, <2>5, <2>6
<1>5. ASSUME UNCHANGED skillVars PROVE Goal
  BY <1>3, <1>5 DEF skillVars
<1>6. ASSUME NEW k \in Skills, NEW v \in SkillVersions, NEW ws \in Workspaces,
             NEW spec \in SkillSpecs, CreateSkill(k, v, ws, spec)
      PROVE  Goal
  <2> DEFINE row == [skill |-> k, number |-> 1, spec |-> spec, status |-> "draft"]
  <2>1. row \in SkillVersionRow /\ row.skill = k /\ row.number = 1
    BY CatalogAssumption DEF SkillVersionRow
  <2>2. skill[k] = None /\ skillVersion[v] = None
    BY <1>6, FreshIsFree DEF CreateSkill, CreateSkillWithVersion
  <2>3. SkillVersionsOf(k) = {}
    BY <1>0, <2>2 DEF SkillVersionsOf
  <2>4. Offered(1, SkillVersionsOf(k))
    BY <2>3, DenseEmpty
  <2>5. skill'[k] # None
    <3>1. [ws |-> ws] \in SkillRow
      BY DEF SkillRow
    <3> QED
      BY <1>0, <1>6, <3>1, CatalogAssumption
         DEF CreateSkill, CreateSkillWithVersion, SkillTypeOK
  <2>6. skillVersion' = [skillVersion EXCEPT ![v] = row]
    BY <1>6 DEF CreateSkill, CreateSkillWithVersion
  <2> HIDE DEF row
  <2> QED
    BY <1>4, <2>1, <2>2, <2>3, <2>4, <2>5, <2>6
<1>7. ASSUME NEW r \in Requests, NEW v \in SkillVersions, CreateSkillVersion(r, v) PROVE Goal
  <2> DEFINE row == [skill |-> job[r].skill, number |-> job[r].number,
                     spec |-> job[r].spec, status |-> "draft"]
  <2>1. row \in SkillVersionRow /\ row.skill = job[r].skill /\ row.number = job[r].number
    BY <1>0, <1>7, JobType, CatalogJobFields DEF CreateSkillVersion, SkillVersionRow
  <2>2. /\ skillVersion[v] = None /\ skillVersion' = [skillVersion EXCEPT ![v] = row]
        /\ \A w \in SkillVersionsOf(job[r].skill) : skillVersion[w].number # job[r].number
        /\ UNCHANGED skill /\ job[r].op = "skill counted"
    BY <1>7, FreshIsFree DEF CreateSkillVersion, InsertSkillVersion
  <2>3. skill[job[r].skill] # None /\ Offered(job[r].number, SkillVersionsOf(job[r].skill))
    BY <1>0, <2>2, SkillRows DEF SkillsInv
  <2> HIDE DEF row
  <2> QED
    BY <1>4, <2>1, <2>2, <2>3
<1>8. ASSUME NEW r \in Requests, PublishSkillVersion(r) PROVE Goal
  <2>1. skillVersion[job[r].version] # None
    BY <1>8 DEF PublishSkillVersion, TypeInv, SkillsKnown
  <2> QED
    BY <1>0, <1>3, <1>8, <2>1 DEF PublishSkillVersion, UpdateSkillVersionStatus, SkillTypeOK
<1> HIDE DEF Goal
<1>9. Goal
  <2>1. CASE SkillsFrame
    BY <1>5, <2>1 DEF SkillsFrame
  <2>2. CASE SkillNext
    BY <1>5, <1>6, <1>7, <1>8, <2>2, SkillWrites
  <2> QED
    BY <2>1, <2>2
<1> QED
  BY <1>9 DEF Goal

\* Numbering a skill version survives every step.
LEMMA SkillsInvStep ==
    ASSUME TypeInv, TypeInv', SkillsInv, SkillNext \/ SkillsFrame, SkillsKeep
    PROVE  SkillsInv'
<1>0. TypeOK /\ SkillTypeOK /\ DenseIn(skillVersion, "skill", Skills)
  BY TypeParts DEF TypeInv, SkillsInv
<1>1. /\ DenseIn(skillVersion', "skill", Skills)
      /\ OffersIn(skillVersion, skillVersion', "skill", Skills)
      /\ \A v \in SkillVersions : skillVersion'[v] # None =>
            skill'[skillVersion'[v].skill] # None
  BY SkillsDenseStep
<1>2. ASSUME NEW q \in Requests, job'[q].op = "skill counted"
      PROVE  /\ skill'[job'[q].skill] # None
             /\ Offered(job'[q].number, Rows(skillVersion', "skill", job'[q].skill))
  <2>1. CASE job'[q] = job[q]
    <3>1. job[q].skill \in Skills /\ job[q].number \in Nat
      BY <1>0, <1>2, <2>1, JobType, CatalogJobFields
    <3>2. skill[job[q].skill] # None
          /\ Offered(job[q].number, Rows(skillVersion, "skill", job[q].skill))
      BY <1>2, <2>1 DEF SkillsInv
    <3> QED
      BY <1>1, <2>1, <3>1, <3>2 DEF SkillsKeep, OffersIn
  <2>2. CASE /\ job'[q].skill \in Skills /\ skill[job'[q].skill] # None
             /\ job'[q].number = Cardinality(SkillVersionsOf(job'[q].skill)) + 1
             /\ UNCHANGED skillVars
    <3>1. Offered(job'[q].number, Rows(skillVersion, "skill", job'[q].skill))
      BY <1>0, <2>2, OfferedNext, SkillRows DEF DenseIn
    <3> QED
      BY <2>2, <3>1 DEF skillVars
  <2>3. CASE SkillNext
    BY <1>0, <1>2, <2>1, <2>2, <2>3, SkillJobSteps
  <2>4. CASE SkillsFrame
    BY <1>2, <2>1, <2>4 DEF SkillsFrame, Held, SkillOps
  <2> QED
    BY <2>3, <2>4
<1> QED
  BY <1>1, <1>2 DEF SkillsInv

-----------------------------------------------------------------------------
(* Model configurations *)

\* ModelVersionsOf lists the rows of a workspace.
LEMMA ModelRows ==
    ASSUME ModelTypeOK, NEW ws
    PROVE  ModelVersionsOf(ws) = Rows(modelVersion, "ws", ws)
BY DEF ModelTypeOK, ModelVersionsOf, Rows

\* How a request comes to hold a model configuration: the workspace has none, or
\* its latest version has the number before and other settings.
LEMMA ModelJobSteps ==
    ASSUME TypeOK, ModelNext, NEW q \in Requests, job'[q].op = "model"
    PROVE  \/ job'[q] = job[q]
           \/ /\ job'[q].ws \in Workspaces /\ UNCHANGED modelVersion
              /\ \/ job'[q].number = 1 /\ ModelVersionsOf(job'[q].ws) = {}
                 \/ \E v \in ModelVersionsOf(job'[q].ws) :
                       /\ job'[q].number = modelVersion[v].number + 1
                       /\ modelVersion[v].settings # job'[q].settings
<1> USE DEF Start, Continue, Done, Idle, catalogVars
<1>0. job \in [Requests -> Job]
  BY JobType
<1>1. ASSUME NEW r \in Requests, NEW ws \in Workspaces, NEW s \in Settings,
             EnsureConfigVersion(r, ws, s)
      PROVE  \/ job'[q] = job[q]
             \/ /\ job'[q].ws \in Workspaces /\ UNCHANGED modelVersion
                /\ \/ job'[q].number = 1 /\ ModelVersionsOf(job'[q].ws) = {}
                   \/ \E v \in ModelVersionsOf(job'[q].ws) :
                         /\ job'[q].number = modelVersion[v].number + 1
                         /\ modelVersion[v].settings # job'[q].settings
  <2>1. CASE q # r
    BY <1>0, <1>1, <2>1 DEF EnsureConfigVersion
  <2>2. CASE q = r
    BY <1>0, <1>1, <2>2 DEF EnsureConfigVersion
  <2> QED
    BY <2>1, <2>2
<1>2. ASSUME NEW r \in Requests,
             ConfigVersionFails(r) \/ \E v \in ModelVersions : CreateConfigVersion(r, v)
      PROVE  job'[q] = job[q]
  BY <1>0, <1>2 DEF ConfigVersionFails, CreateConfigVersion
<1> QED
  BY <1>1, <1>2 DEF ModelNext

\* A request that holds settings s for number n of the workspace can insert them.
Fits(f, ws, n, s) ==
    /\ Offered(n, Rows(f, "ws", ws))
    /\ \A v \in Rows(f, "ws", ws) : n = f[v].number + 1 => f[v].settings # s

\* A new version has the highest number, so only the version before it is its
\* neighbour, and no request under way was numbered after it.
LEMMA ModelInsert ==
    ASSUME NEW f, NEW g, NEW v, NEW row, Inserted(f, g, v, row),
           DenseIn(f, "ws", Workspaces), row["ws"] \in Workspaces,
           Fits(f, row["ws"], row.number, row.settings),
           row.number \notin Nums(f, "ws", row["ws"])
    PROVE  /\ DenseIn(g, "ws", Workspaces)
           /\ \A ws \in Workspaces, n \in Nat : \A s : Fits(f, ws, n, s) => Fits(g, ws, n, s)
           /\ \A ws \in Workspaces : \A x, y \in Rows(g, "ws", ws) :
                 g[y].number = g[x].number + 1 =>
                    \/ x \in Rows(f, "ws", ws) /\ y \in Rows(f, "ws", ws)
                    \/ g[x].settings # g[y].settings
<1> DEFINE R(ws) == Rows(f, "ws", ws)
<1>1. /\ DenseIn(g, "ws", Workspaces) /\ OffersIn(f, g, "ws", Workspaces)
      /\ row.number = Cardinality(R(row["ws"])) + 1
  BY InsertDense DEF Fits
<1>2. \A ws : /\ row["ws"] = ws => Rows(g, "ws", ws) = R(ws) \cup {v}
              /\ row["ws"] # ws => Rows(g, "ws", ws) = R(ws)
              /\ v \notin R(ws)
  BY RowsInsert
<1>3. g[v] = row /\ \A ws : \A w \in R(ws) : g[w] = f[w]
  BY DEF Inserted, Rows
<1>4. \A ws \in Workspaces : /\ Cardinality(R(ws)) \in Nat
                             /\ \A w \in R(ws) : f[w].number \in 1 .. Cardinality(R(ws))
  BY FS_CardinalityType DEF DenseIn, Dense, Numbered, Nums
<1> HIDE DEF R
<1>5. ASSUME NEW ws \in Workspaces, NEW n \in Nat, NEW s, Fits(f, ws, n, s)
      PROVE  Fits(g, ws, n, s)
  <2>1. /\ n \in 1 .. Cardinality(R(ws)) + 1
        /\ \A w \in R(ws) : n = f[w].number + 1 => f[w].settings # s
    BY <1>5 DEF Fits, Offered, R
  <2>2. Offered(n, Rows(g, "ws", ws))
    BY <1>1, <1>5 DEF Fits, OffersIn
  <2>3. ASSUME NEW w \in Rows(g, "ws", ws), n = g[w].number + 1
        PROVE  g[w].settings # s
    <3>1. CASE w \in R(ws)
      BY <1>3, <2>1, <2>3, <3>1
    <3>2. CASE w = v /\ row["ws"] = ws
      BY <1>1, <1>3, <1>4, <2>1, <2>3, <3>2
    <3> QED
      BY <1>2, <3>1, <3>2
  <2> QED
    BY <2>2, <2>3 DEF Fits
<1>6. ASSUME NEW ws \in Workspaces, NEW x \in Rows(g, "ws", ws), NEW y \in Rows(g, "ws", ws),
             g[y].number = g[x].number + 1
      PROVE  \/ x \in R(ws) /\ y \in R(ws)
             \/ g[x].settings # g[y].settings
  <2>1. CASE x \in R(ws) /\ y \in R(ws)
    BY <2>1
  <2>2. CASE x \in R(ws) /\ y = v /\ row["ws"] = ws
    <3>1. \A w \in R(ws) : row.number = f[w].number + 1 => f[w].settings # row.settings
      BY <2>2 DEF Fits, R
    <3> QED
      BY <1>3, <1>6, <2>2, <3>1
  <2>3. CASE x = v /\ row["ws"] = ws
    <3>1. g[x].number = Cardinality(R(ws)) + 1
      BY <1>1, <1>3, <2>3
    <3>2. g[y].number \in 1 .. Cardinality(R(ws)) + 1
      BY <1>1, <1>2, <1>3, <1>4, <2>3
    <3> QED
      BY <1>4, <1>6, <3>1, <3>2
  <2> QED
    BY <1>2, <2>1, <2>2, <2>3
<1> QED
  BY <1>1, <1>5, <1>6 DEF R

\* Numbering a model configuration, and that neighbours differ, survive every step.
LEMMA ModelsInvStep ==
    ASSUME TypeInv, TypeInv', ModelsInv, ModelNext \/ ModelsFrame, ModelsKeep
    PROVE  ModelsInv'
<1>0. TypeOK /\ ModelTypeOK /\ DenseIn(modelVersion, "ws", Workspaces)
  BY TypeParts DEF TypeInv, ModelsInv
<1>1. ModelTypeOK'
  BY DEF TypeInv, TypeOK, ModelTypeOK
<1> DEFINE Goal ==
      /\ DenseIn(modelVersion', "ws", Workspaces)
      /\ \A ws \in Workspaces, n \in Nat : \A s :
            Fits(modelVersion, ws, n, s) => Fits(modelVersion', ws, n, s)
      /\ ModelVersionsDiffer'
<1>2. ASSUME UNCHANGED modelVersion PROVE Goal
  BY <1>0, <1>2 DEF ModelsInv, ModelVersionsDiffer, ModelVersionsOf
<1>3. ASSUME NEW r \in Requests, NEW v \in ModelVersions, CreateConfigVersion(r, v) PROVE Goal
  <2> DEFINE row == [ws |-> job[r].ws, number |-> job[r].number,
                     settings |-> job[r].settings]
  <2>1. /\ row \in ModelVersionRow /\ row.ws = job[r].ws /\ row["ws"] = job[r].ws
        /\ row.number = job[r].number /\ row.settings = job[r].settings
        /\ job[r].op = "model"
    BY <1>0, <1>3, JobType, CatalogJobFields DEF CreateConfigVersion, ModelVersionRow
  <2>2. /\ modelVersion[v] = None /\ modelVersion' = [modelVersion EXCEPT ![v] = row]
        /\ \A w \in ModelVersionsOf(job[r].ws) : modelVersion[w].number # job[r].number
    BY <1>3, FreshIsFree DEF CreateConfigVersion, InsertModelVersion
  <2> HIDE DEF row
  <2>3. row # None /\ row["ws"] \in Workspaces
    BY <2>1, CatalogAssumption DEF ModelVersionRow
  <2>4. Inserted(modelVersion, modelVersion', v, row)
    BY <1>0, <2>2, <2>3, IsInserted DEF ModelTypeOK
  <2>5. Fits(modelVersion, row["ws"], row.number, row.settings)
    BY <2>1 DEF ModelsInv, Fits
  <2>6. row.number \notin Nums(modelVersion, "ws", row["ws"])
    BY <1>0, <2>1, <2>2, ModelRows DEF Nums
  <2>7. /\ DenseIn(modelVersion', "ws", Workspaces)
        /\ \A ws \in Workspaces, n \in Nat : \A s :
              Fits(modelVersion, ws, n, s) => Fits(modelVersion', ws, n, s)
        /\ \A ws \in Workspaces : \A x, y \in Rows(modelVersion', "ws", ws) :
              modelVersion'[y].number = modelVersion'[x].number + 1 =>
                 \/ x \in Rows(modelVersion, "ws", ws) /\ y \in Rows(modelVersion, "ws", ws)
                 \/ modelVersion'[x].settings # modelVersion'[y].settings
    BY <1>0, <2>3, <2>4, <2>5, <2>6, ModelInsert
  <2>8. \A ws : ModelVersionsOf(ws)' = Rows(modelVersion', "ws", ws)
    BY <1>1 DEF ModelTypeOK, ModelVersionsOf, Rows
  <2>9. ModelVersionsDiffer'
    <3>1. ASSUME NEW ws \in Workspaces, NEW x \in Rows(modelVersion', "ws", ws),
                 NEW y \in Rows(modelVersion', "ws", ws),
                 modelVersion'[y].number = modelVersion'[x].number + 1
          PROVE  modelVersion'[x].settings # modelVersion'[y].settings
      <4>1. CASE x \in Rows(modelVersion, "ws", ws) /\ y \in Rows(modelVersion, "ws", ws)
        <5>1. x \in ModelVersionsOf(ws) /\ y \in ModelVersionsOf(ws)
          BY <1>0, <4>1, ModelRows
        <5>2. modelVersion'[x] = modelVersion[x] /\ modelVersion'[y] = modelVersion[y]
          BY <5>1 DEF ModelsKeep, ModelVersionsOf
        <5> QED
          BY <3>1, <5>1, <5>2 DEF ModelsInv, ModelVersionsDiffer
      <4> QED
        BY <2>7, <3>1, <4>1
    <3> QED
      BY <2>8, <3>1 DEF ModelVersionsDiffer
  <2> QED
    BY <2>7, <2>9
<1>4. Goal
  <2> HIDE DEF Goal
  <2>1. CASE ModelsFrame
    BY <1>2, <2>1 DEF ModelsFrame
  <2>2. CASE ModelNext
    BY <1>2, <1>3, <2>2 DEF ModelNext, EnsureConfigVersion, ConfigVersionFails, catalogVars
  <2> QED
    BY <2>1, <2>2
<1>5. ASSUME NEW q \in Requests, job'[q].op = "model"
      PROVE  Fits(modelVersion', job'[q].ws, job'[q].number, job'[q].settings)
  <2>1. CASE job'[q] = job[q]
    <3>1. job[q].ws \in Workspaces /\ job[q].number \in Nat
      BY <1>0, <1>5, <2>1, JobType, CatalogJobFields
    <3>2. Fits(modelVersion, job[q].ws, job[q].number, job[q].settings)
      BY <1>5, <2>1 DEF ModelsInv, Fits
    <3> QED
      BY <1>4, <2>1, <3>1, <3>2
  <2>2. CASE /\ job'[q].ws \in Workspaces /\ UNCHANGED modelVersion
             /\ \/ job'[q].number = 1 /\ ModelVersionsOf(job'[q].ws) = {}
                \/ \E v \in ModelVersionsOf(job'[q].ws) :
                      /\ job'[q].number = modelVersion[v].number + 1
                      /\ modelVersion[v].settings # job'[q].settings
    <3> DEFINE ws == job'[q].ws
               R == Rows(modelVersion, "ws", ws)
    <3>1. ModelVersionsOf(ws) = R /\ ws \in Workspaces
      BY <1>0, <2>2, ModelRows
    <3>2. CASE job'[q].number = 1 /\ R = {}
      BY <2>2, <3>2, DenseEmpty DEF Fits
    <3>3. ASSUME NEW v \in R, job'[q].number = modelVersion[v].number + 1,
                 modelVersion[v].settings # job'[q].settings
          PROVE  Fits(modelVersion, ws, job'[q].number, job'[q].settings)
      <4>1. Dense(Nums(modelVersion, "ws", ws), R)
        BY <1>0, <3>1 DEF DenseIn
      <4>2. modelVersion[v].number \in Nums(modelVersion, "ws", ws)
        BY DEF Nums
      <4>3. Offered(job'[q].number, R)
        BY <3>3, <4>1, <4>2, OfferedNext
      <4>4. ASSUME NEW w \in R, job'[q].number = modelVersion[w].number + 1
            PROVE  w = v
        <5>1. \A x \in R : modelVersion[x].number \in Nat
          BY <1>0 DEF Rows, ModelTypeOK, ModelVersionRow
        <5>2. modelVersion[w].number = modelVersion[v].number
          BY <3>3, <4>4, <5>1
        <5> QED
          BY <4>1, <5>2, SameNumber
      <4> QED
        BY <3>3, <4>3, <4>4 DEF Fits
    <3> QED
      BY <2>2, <3>1, <3>2, <3>3
  <2>3. CASE ModelNext
    BY <1>0, <1>5, <2>1, <2>2, <2>3, ModelJobSteps
  <2>4. CASE ModelsFrame
    BY <1>5, <2>1, <2>4 DEF ModelsFrame, Held, ModelOps
  <2> QED
    BY <2>3, <2>4
<1> QED
  BY <1>4, <1>5 DEF ModelsInv, Fits

-----------------------------------------------------------------------------
(* Agents *)

\* AgentVersionsOf lists the rows of an agent.
LEMMA AgentRows ==
    ASSUME AgentTypeOK, NEW a
    PROVE  AgentVersionsOf(a) = Rows(agentVersion, "agent", a)
BY DEF AgentTypeOK, AgentVersionsOf, Rows

\* A request has just been validated, and has just been built.
Validated(j) ==
    /\ j.op = "validated" /\ (j.agent = None \/ agent[j.agent] = [ws |-> j.ws])
    /\ DependenciesValid(j.ws, j.config)
    /\ UNCHANGED <<toolVars, catalogVars>>
Built(i, j) ==
    /\ i.op = "validated" /\ j.op = "built"
    /\ j.agent = i.agent /\ j.ws = i.ws /\ j.config = i.config
    /\ SnapshotBuilds(i.ws, i.config)
    /\ j.number = IF i.agent = None THEN 1 ELSE Cardinality(AgentVersionsOf(i.agent)) + 1
    /\ UNCHANGED <<toolVars, catalogVars>>

\* How a request comes to carry a configuration.
LEMMA AgentJobSteps ==
    ASSUME TypeOK, AgentNext, NEW q \in Requests, job'[q].op \in {"validated", "built"}
    PROVE  job'[q] = job[q] \/ Validated(job'[q]) \/ Built(job[q], job'[q])
<1> DEFINE Goal == job'[q] = job[q] \/ Validated(job'[q]) \/ Built(job[q], job'[q])
<1>0. job \in [Requests -> Job] /\ Idle.op = "idle"
  BY JobType DEF Idle
<1>1. ASSUME NEW r \in Requests, NEW ws \in Workspaces, NEW a \in Agents \cup {None},
             NEW cfg \in AgentConfigs, ValidateAgent(r, ws, a, cfg)
      PROVE  Goal
  <2> DEFINE j == [op |-> "validated", agent |-> a, ws |-> ws, config |-> cfg]
  <2>1. j.op = "validated" /\ j.agent = a /\ j.ws = ws /\ j.config = cfg
    OBVIOUS
  <2>2. job' = [job EXCEPT ![r] = j]
    BY <1>1 DEF ValidateAgent, Start
  <2> HIDE DEF j
  <2>3. Validated(j)
    BY <1>1, <2>1 DEF ValidateAgent, Validated
  <2> QED
    BY <1>0, <2>2, <2>3
<1>2. ASSUME NEW r \in Requests, BuildSnapshot(r) PROVE Goal
  <2> DEFINE n == IF job[r].agent = None THEN 1
                  ELSE Cardinality(AgentVersionsOf(job[r].agent)) + 1
             j == [op |-> "built", agent |-> job[r].agent, ws |-> job[r].ws,
                   config |-> job[r].config, number |-> n]
  <2>1. UNCHANGED <<toolVars, catalogVars>> /\ job[r].op = "validated"
    BY <1>2 DEF BuildSnapshot
  <2>2. CASE Done(r)
    BY <1>0, <2>2 DEF Done, Continue
  <2>3. CASE Continue(r, j) /\ SnapshotBuilds(job[r].ws, job[r].config)
    <3>1. /\ j.op = "built" /\ j.agent = job[r].agent /\ j.ws = job[r].ws
          /\ j.config = job[r].config /\ j.number = n
      OBVIOUS
    <3>2. job' = [job EXCEPT ![r] = j]
      BY <2>3 DEF Continue
    <3> HIDE DEF j
    <3>3. Built(job[r], j)
      BY <2>1, <2>3, <3>1 DEF Built
    <3> QED
      BY <1>0, <3>2, <3>3
  <2> QED
    BY <1>2, <2>2, <2>3 DEF BuildSnapshot
<1>3. ASSUME NEW r \in Requests, Done(r) PROVE Goal
  BY <1>0, <1>3 DEF Done, Continue
<1>4. ASSUME UNCHANGED job PROVE Goal
  BY <1>4
<1> HIDE DEF Goal
<1>5. Goal
  BY <1>1, <1>2, <1>3, <1>4
     DEF AgentNext, CreateAgent, CreateAgentVersion, AgentVersionFails, PromoteAgentVersion,
         CreateConversationInEnv, CreateConversationWithVersion
<1> QED
  BY <1>5 DEF Goal

\* The steps that write the tables of agents.
LEMMA AgentWrites ==
    ASSUME AgentNext
    PROVE  \/ UNCHANGED agentVars
           \/ \E r \in Requests, v \in AgentVersions : CreateAgentVersion(r, v)
           \/ \E r \in Requests, a \in Agents, v \in AgentVersions : CreateAgent(r, a, v)
           \/ \E ws \in Workspaces, a \in Agents, env \in Envs, v \in AgentVersions :
                 PromoteAgentVersion(ws, a, env, v)
           \/ \E c \in Conversations, a \in Agents, env \in Envs :
                 CreateConversationInEnv(c, a, env)
           \/ \E c \in Conversations, v \in AgentVersions : CreateConversationWithVersion(c, v)
BY DEF AgentNext, agentVars, catalogVars, ValidateAgent, BuildSnapshot, AgentVersionFails

\* A binding once right stays right: versions and agents keep their owner.
LEMMA BindingsStay ==
    ASSUME TypeOK, AgentsKeep
    PROVE  /\ \A a : AgentVersionsOf(a) \subseteq AgentVersionsOf(a)'
           /\ \A a \in Agents, ws \in Workspaces :
                 agent[a] = [ws |-> ws] => agent'[a] = [ws |-> ws]
<1>1. \A a : AgentVersionsOf(a) \subseteq AgentVersionsOf(a)'
  BY DEF AgentVersionsOf, AgentsKeep
<1>2. \A ws \in Workspaces : [ws |-> ws] # None
  <2>1. \A ws \in Workspaces : [ws |-> ws] \in AgentRow
    BY DEF AgentRow
  <2> QED
    BY <2>1, CatalogAssumption
<1> QED
  BY <1>1, <1>2 DEF AgentsKeep

\* BindingsOwn for one environment, and for one conversation.
EnvOwn(a, e) == agentEnv[a][e] # None => agentEnv[a][e] \in AgentVersionsOf(a)
ConvOwn(c) ==
    conversation[c] # None =>
        /\ conversation[c].version \in AgentVersionsOf(conversation[c].agent)
        /\ agent[conversation[c].agent] = [ws |-> conversation[c].ws]

\* Every write keeps the versions of an agent densely numbered, and its
\* environments and conversations its own.
LEMMA AgentsDenseStep ==
    ASSUME TypeInv, TypeInv', AgentsInv, AgentNext \/ AgentsFrame, AgentsKeep
    PROVE  /\ DenseIn(agentVersion', "agent", Agents)
           /\ OffersIn(agentVersion, agentVersion', "agent", Agents)
           /\ BindingsOwn'
<1>0. /\ AgentTypeOK /\ TypeOK /\ DenseIn(agentVersion, "agent", Agents) /\ BindingsOwn
      /\ AgentsKnown
  BY TypeParts DEF TypeInv, AgentsInv
<1>1. \A a : AgentVersionsOf(a)' = Rows(agentVersion', "agent", a)
  BY DEF TypeInv, TypeOK, AgentVersionsOf, Rows
<1>a. ASSUME NEW c \in Conversations, conversation'[c] # None =>
                /\ conversation'[c].version
                      \in Rows(agentVersion', "agent", conversation'[c].agent)
                /\ agent'[conversation'[c].agent] = [ws |-> conversation'[c].ws]
      PROVE  ConvOwn(c)'
  BY <1>a DEF TypeInv, TypeOK, AgentVersionsOf, Rows, ConvOwn
<1> DEFINE Goal ==
      /\ DenseIn(agentVersion', "agent", Agents)
      /\ OffersIn(agentVersion, agentVersion', "agent", Agents)
      /\ \A a \in Agents, e \in Envs : EnvOwn(a, e)'
      /\ \A c \in Conversations : ConvOwn(c)'
<1>2. ASSUME UNCHANGED agentVersion
      PROVE  /\ DenseIn(agentVersion', "agent", Agents)
             /\ OffersIn(agentVersion, agentVersion', "agent", Agents)
  BY <1>0, <1>2 DEF OffersIn
\* Environments, and conversations, that a step leaves as they were.
<1>3. ASSUME NEW a \in Agents, NEW e \in Envs, agentEnv'[a][e] = agentEnv[a][e]
      PROVE  EnvOwn(a, e)'
  BY <1>0, <1>3, BindingsStay DEF BindingsOwn, EnvOwn
<1>4. ASSUME NEW c \in Conversations, conversation'[c] = conversation[c]
      PROVE  ConvOwn(c)'
  <2> SUFFICES ASSUME conversation[c] # None
               PROVE  ConvOwn(c)'
    BY <1>4 DEF ConvOwn
  <2>1. conversation[c].agent \in Agents /\ conversation[c].ws \in Workspaces
    BY <1>0, <1>4 DEF AgentTypeOK, ConversationRow
  <2>2. /\ conversation[c].version \in AgentVersionsOf(conversation[c].agent)
        /\ agent[conversation[c].agent] = [ws |-> conversation[c].ws]
    BY <1>0, <1>4 DEF BindingsOwn
  <2>3. /\ conversation[c].version \in Rows(agentVersion', "agent", conversation[c].agent)
        /\ agent'[conversation[c].agent] = [ws |-> conversation[c].ws]
    BY <1>0, <1>1, <2>1, <2>2, BindingsStay
  <2> QED
    BY <1>a, <1>4, <2>3
<1>5. ASSUME UNCHANGED agentVars PROVE Goal
  BY <1>2, <1>3, <1>4, <1>5 DEF agentVars
\* A version is stored and bound to dev.
<1>6. ASSUME NEW v \in AgentVersions, NEW row \in AgentVersionRow,
             CreateAgentVersionAndBindDev(v, row), UNCHANGED conversation,
             Offered(row.number, AgentVersionsOf(row.agent))
      PROVE  Goal
  <2>0. /\ agentVersion[v] = None /\ agentVersion' = [agentVersion EXCEPT ![v] = row]
        /\ \A w \in AgentVersionsOf(row.agent) : agentVersion[w].number # row.number
        /\ agentEnv' = [agentEnv EXCEPT ![row.agent]["dev"] = v]
    BY <1>6, FreshIsFree DEF CreateAgentVersionAndBindDev
  <2>1. row # None /\ row["agent"] \in Agents /\ row.agent \in Agents
    BY CatalogAssumption DEF AgentVersionRow
  <2>2. Inserted(agentVersion, agentVersion', v, row)
    BY <1>0, <2>0, <2>1, IsInserted DEF AgentTypeOK
  <2>3. /\ Offered(row.number, Rows(agentVersion, "agent", row["agent"]))
        /\ row.number \notin Nums(agentVersion, "agent", row["agent"])
    BY <1>0, <1>6, <2>0, AgentRows DEF Nums
  <2>4. /\ DenseIn(agentVersion', "agent", Agents)
        /\ OffersIn(agentVersion, agentVersion', "agent", Agents)
    BY <1>0, <2>1, <2>2, <2>3, InsertDense
  <2>5. v \in AgentVersionsOf(row.agent)'
    BY <1>0, <2>0, <2>1 DEF AgentTypeOK, AgentVersionsOf
  <2>6. ASSUME NEW a \in Agents, NEW e \in Envs PROVE EnvOwn(a, e)'
    <3>1. CASE a = row.agent /\ e = "dev"
      BY <1>0, <2>0, <2>1, <2>5, <3>1 DEF AgentTypeOK, EnvOwn
    <3>2. CASE ~(a = row.agent /\ e = "dev")
      <4>1. agentEnv'[a][e] = agentEnv[a][e]
        BY <1>0, <2>0, <2>1, <3>2 DEF AgentTypeOK
      <4> QED
        BY <1>3, <4>1
    <3> QED
      BY <3>1, <3>2
  <2> QED
    BY <1>4, <1>6, <2>4, <2>6
<1>7. ASSUME NEW r \in Requests, NEW v \in AgentVersions, CreateAgentVersion(r, v) PROVE Goal
  <2> DEFINE row == BuiltRow(r, job[r].agent)
  <2>1. /\ job[r].op = "built" /\ job[r].agent # None /\ UNCHANGED conversation
        /\ CreateAgentVersionAndBindDev(v, row)
    BY <1>7 DEF CreateAgentVersion
  <2>2. job[r].agent \in Agents
    BY <1>0, <2>1, JobType, CatalogJobFields
  <2>3. row \in AgentVersionRow /\ row.agent = job[r].agent /\ row.number = job[r].number
    BY <1>0, <2>1, <2>2, JobType, CatalogJobFields DEF BuiltRow, AgentVersionRow
  <2>4. Offered(job[r].number, AgentVersionsOf(job[r].agent))
    BY <1>0, <2>1, AgentRows DEF AgentsInv
  <2> HIDE DEF row
  <2> QED
    BY <1>6, <2>1, <2>3, <2>4
<1>8. ASSUME NEW r \in Requests, NEW a \in Agents, NEW v \in AgentVersions, CreateAgent(r, a, v)
      PROVE  Goal
  <2> DEFINE row == BuiltRow(r, a)
  <2>1. /\ job[r].op = "built" /\ job[r].agent = None /\ UNCHANGED conversation
        /\ CreateAgentVersionAndBindDev(v, row) /\ agent[a] = None
    BY <1>8, FreshIsFree DEF CreateAgent, CreateAgentWithVersion
  <2>2. row \in AgentVersionRow /\ row.agent = a /\ row.number = job[r].number
    BY <1>0, <2>1, JobType, CatalogJobFields DEF BuiltRow, AgentVersionRow
  <2>3. AgentVersionsOf(a) = {} /\ job[r].number = 1
    BY <1>0, <2>1 DEF AgentsInv, AgentsKnown, AgentVersionsOf
  <2> HIDE DEF row
  <2> QED
    BY <1>6, <2>1, <2>2, <2>3, DenseEmpty
<1>9. ASSUME NEW ws \in Workspaces, NEW a \in Agents, NEW env \in Envs, NEW v \in AgentVersions,
             PromoteAgentVersion(ws, a, env, v)
      PROVE  Goal
  <2>1. /\ agentEnv' = [agentEnv EXCEPT ![a][env] = v] /\ v \in AgentVersionsOf(a)
        /\ UNCHANGED <<agent, agentVersion, conversation>>
    BY <1>9 DEF PromoteAgentVersion, UpsertAgentEnv
  <2>2. ASSUME NEW b \in Agents, NEW e \in Envs PROVE EnvOwn(b, e)'
    <3>1. CASE b = a /\ e = env
      BY <1>0, <2>1, <3>1, BindingsStay DEF AgentTypeOK, EnvOwn
    <3>2. CASE ~(b = a /\ e = env)
      <4>1. agentEnv'[b][e] = agentEnv[b][e]
        BY <1>0, <2>1, <3>2 DEF AgentTypeOK
      <4> QED
        BY <1>3, <4>1
    <3> QED
      BY <3>1, <3>2
  <2> QED
    BY <1>2, <1>4, <2>1, <2>2
\* A conversation is opened on a version of its agent.
<1>10. ASSUME NEW c \in Conversations, NEW a \in Agents, NEW env \in Envs,
              NEW v \in AgentVersionsOf(a), agent[a] # None,
              CreateConversation(c, NewConversation(a, env, v)),
              UNCHANGED <<agent, agentVersion, agentEnv>>
       PROVE  Goal
  <2> DEFINE row == NewConversation(a, env, v)
  <2>1. row.agent = a /\ row.version = v /\ row.ws = agent[a].ws
    BY DEF NewConversation
  <2>2. agent[a] = [ws |-> row.ws]
    BY <1>0, <1>10, <2>1 DEF AgentTypeOK, AgentRow
  <2>3. conversation' = [conversation EXCEPT ![c] = row]
    BY <1>10 DEF CreateConversation
  <2> HIDE DEF row
  <2>4. ASSUME NEW d \in Conversations PROVE ConvOwn(d)'
    <3>1. CASE d = c
      <4>1. conversation'[d] = row
        BY <1>0, <2>3, <3>1 DEF AgentTypeOK
      <4>2. v \in Rows(agentVersion', "agent", a) /\ agent'[a] = [ws |-> row.ws]
        BY <1>0, <1>10, <2>2, AgentRows
      <4> QED
        BY <1>a, <2>1, <4>1, <4>2
    <3>2. CASE d # c
      BY <1>0, <1>4, <2>3, <3>2 DEF AgentTypeOK
    <3> QED
      BY <3>1, <3>2
  <2> QED
    BY <1>2, <1>3, <1>10, <2>4
<1>11. ASSUME NEW c \in Conversations, NEW a \in Agents, NEW env \in Envs,
              CreateConversationInEnv(c, a, env)
       PROVE  Goal
  <2>1. agentEnv[a][env] \in AgentVersionsOf(a) /\ agent[a] # None
    BY <1>0, <1>11 DEF CreateConversationInEnv, BindingsOwn, AgentsKnown
  <2> QED
    BY <1>10, <1>11, <2>1 DEF CreateConversationInEnv
<1>12. ASSUME NEW c \in Conversations, NEW v \in AgentVersions,
              CreateConversationWithVersion(c, v)
       PROVE  Goal
  <2>1. /\ agentVersion[v].agent \in Agents /\ agent[agentVersion[v].agent] # None
        /\ v \in AgentVersionsOf(agentVersion[v].agent) /\ "dev" \in Envs
    BY <1>0, <1>12 DEF CreateConversationWithVersion, AgentTypeOK, AgentVersionRow,
                       AgentsKnown, AgentVersionsOf, Envs
  <2> QED
    BY <1>10, <1>12, <2>1 DEF CreateConversationWithVersion
<1> HIDE DEF Goal
<1>13. Goal
  <2>1. CASE AgentsFrame
    BY <1>5, <2>1 DEF AgentsFrame
  <2>2. CASE AgentNext
    BY <1>5, <1>7, <1>8, <1>9, <1>11, <1>12, <2>2, AgentWrites
  <2> QED
    BY <2>1, <2>2
<1> QED
  BY <1>13 DEF Goal, BindingsOwn, EnvOwn, ConvOwn

\* Numbering an agent version and the bindings survive every step.
LEMMA AgentsInvStep ==
    ASSUME TypeInv, TypeInv', AgentsInv, AgentNext \/ AgentsFrame, AgentsKeep
    PROVE  AgentsInv'
<1>0. AgentTypeOK /\ TypeOK /\ DenseIn(agentVersion, "agent", Agents)
  BY TypeParts DEF TypeInv, AgentsInv
<1>1. /\ DenseIn(agentVersion', "agent", Agents)
      /\ OffersIn(agentVersion, agentVersion', "agent", Agents)
      /\ BindingsOwn'
  BY AgentsDenseStep
<1> DEFINE Placed(j) == j.agent = None \/ agent'[j.agent] = [ws |-> j.ws]
           Num(j) == IF j.agent = None THEN j.number = 1
                     ELSE Offered(j.number, Rows(agentVersion', "agent", j.agent))
<1>2. ASSUME NEW q \in Requests, job'[q].op \in {"validated", "built"}
      PROVE  Placed(job'[q]) /\ (job'[q].op = "built" => Num(job'[q]))
  <2>1. CASE job'[q] = job[q]
    <3>1. /\ job[q].agent \in Agents \cup {None} /\ job[q].ws \in Workspaces
          /\ job[q].op = "built" => job[q].number \in Nat
      BY <1>0, <1>2, <2>1, JobType, CatalogJobFields
    <3>2. /\ job[q].agent = None \/ agent[job[q].agent] = [ws |-> job[q].ws]
          /\ job[q].op = "built" =>
                IF job[q].agent = None THEN job[q].number = 1
                ELSE Offered(job[q].number, Rows(agentVersion, "agent", job[q].agent))
      BY <1>2, <2>1 DEF AgentsInv
    <3>3. Placed(job[q])
      BY <1>0, <3>1, <3>2, BindingsStay
    <3>4. job[q].op = "built" => Num(job[q])
      BY <1>1, <3>1, <3>2 DEF OffersIn
    <3> QED
      BY <2>1, <3>3, <3>4
  <2>2. CASE Validated(job'[q])
    BY <2>2 DEF Validated, catalogVars
  <2>3. CASE Built(job[q], job'[q])
    <3> DEFINE a == job[q].agent
    <3>1. /\ job'[q].agent = a /\ job'[q].ws = job[q].ws /\ job[q].op = "validated"
          /\ job'[q].number = IF a = None THEN 1 ELSE Cardinality(AgentVersionsOf(a)) + 1
          /\ UNCHANGED <<agent, agentVersion>>
      BY <2>3 DEF Built, catalogVars
    <3>2. a \in Agents \cup {None} /\ (a = None \/ agent[a] = [ws |-> job[q].ws])
      BY <1>0, <3>1, JobType, CatalogJobFields DEF AgentsInv
    <3>3. a # None => Offered(Cardinality(AgentVersionsOf(a)) + 1, Rows(agentVersion, "agent", a))
      BY <1>0, <3>2, OfferedNext, AgentRows DEF DenseIn
    <3> QED
      BY <3>1, <3>2, <3>3
  <2>4. CASE AgentNext
    BY <1>0, <1>2, <2>1, <2>2, <2>3, <2>4, AgentJobSteps
  <2>5. CASE AgentsFrame
    BY <1>2, <2>1, <2>5 DEF AgentsFrame, Held, AgentOps
  <2> QED
    BY <2>4, <2>5
<1> QED
  BY <1>1, <1>2 DEF AgentsInv

-----------------------------------------------------------------------------
(* What was released runs *)

\* What the two checks of the service establish together.
LEMMA BuiltRuns ==
    ASSUME NEW ws, NEW cfg, PromptsPinned(ws, cfg), SnapshotBuilds(ws, cfg)
    PROVE  Runs(ws, cfg)
<1>1. Loads(ws, cfg) /\ HasTemplate(ws, cfg)
  BY DEF PromptsPinned, SnapshotBuilds, Loads, ToolVersionValid
<1>2. \A k \in cfg.skills : skillVersion[k].spec.tools \subseteq
                               {tool[toolVersion[t].tool].name : t \in cfg.tools}
  BY DEF SnapshotBuilds
<1> QED
  BY <1>1, <1>2 DEF Runs

\* The prompts of a configuration stay until a rollback deletes one of them.
LEMMA PinnedStays ==
    ASSUME TypeOK, PromptsKeep, NEW ws \in Workspaces, NEW cfg \in AgentConfig,
           Orphaned(cfg) \/ PromptsPinned(ws, cfg)
    PROVE  Orphaned(cfg)' \/ PromptsPinned(ws, cfg)'
<1>0. PromptTypeOK
  BY TypeParts
<1>1. CASE Orphaned(cfg)
  BY <1>1 DEF Orphaned, PromptsKeep
<1>2. ASSUME PromptsPinned(ws, cfg), {cfg.sys, cfg.user} \cap lost' = {}
      PROVE  PromptsPinned(ws, cfg)'
  <2>1. cfg.sys \in PromptVersions /\ cfg.user \in PromptVersions \cup {None}
    BY DEF AgentConfig
  <2>2. promptVersion'[cfg.sys] # None /\ promptVersion'[cfg.sys].renders
    BY <1>2, <2>1 DEF PromptsPinned, PromptsKeep
  <2>3. ASSUME cfg.user # None
        PROVE  /\ promptVersion'[cfg.user] # None
               /\ prompt'[promptVersion'[cfg.user].prompt] = [ws |-> ws, user |-> TRUE]
    <3>1. [ws |-> ws, user |-> TRUE] # None
      <4>1. [ws |-> ws, user |-> TRUE] \in PromptRow
        BY DEF PromptRow
      <4> QED
        BY <4>1, CatalogAssumption
    <3>2. /\ promptVersion[cfg.user] # None
          /\ prompt[promptVersion[cfg.user].prompt] = [ws |-> ws, user |-> TRUE]
      BY <1>2, <2>3 DEF PromptsPinned, HasTemplate
    <3> QED
      BY <1>2, <2>1, <2>3, <3>1, <3>2 DEF PromptsKeep
  <2> QED
    BY <2>2, <2>3 DEF PromptsPinned, HasTemplate
<1> QED
  BY <1>1, <1>2 DEF Orphaned

\* So does a whole configuration: tools and skills keep what they say, a published
\* version stays published, and no tool leaves its workspace.
LEMMA RunsStay ==
    ASSUME TypeOK, SkillsInv, ToolsKeep, PromptsKeep, SkillsKeep,
           NEW ws \in Workspaces, NEW cfg \in AgentConfig,
           Orphaned(cfg) \/ Runs(ws, cfg)
    PROVE  Orphaned(cfg)' \/ Runs(ws, cfg)'
<1>0. ToolTypeOK /\ SkillTypeOK
  BY TypeParts DEF TypeOK
<1>1. CASE Orphaned(cfg)
  BY <1>1 DEF Orphaned, PromptsKeep
<1>2. ASSUME Runs(ws, cfg), PromptsPinned(ws, cfg)' PROVE Runs(ws, cfg)'
  <2>1. cfg.tools \subseteq ToolVersions /\ cfg.skills \subseteq SkillVersions
    BY DEF AgentConfig
  <2>2. ASSUME NEW v \in cfg.tools
        PROVE  /\ ToolVersionValid(v, ws, FALSE)'
               /\ tool'[toolVersion'[v].tool] = tool[toolVersion[v].tool]
    <3>1. v \in ExistingToolVersions /\ InWorkspace(toolVersion[v].tool, ws)
      BY <1>2 DEF Runs, Loads, ToolVersionValid
    <3>2. toolVersion[v].tool \in Tools
      BY <1>0, <3>1 DEF ToolTypeOK, ExistingToolVersions, ToolVersionRow
    <3>3. /\ toolVersion'[v] # None /\ toolVersion'[v].tool = toolVersion[v].tool
          /\ tool'[toolVersion[v].tool] = tool[toolVersion[v].tool]
      BY <3>1, <3>2 DEF ToolsKeep, InWorkspace
    <3> QED
      BY <2>1, <3>1, <3>3 DEF ToolVersionValid, InWorkspace, ExistingToolVersions
  <2>3. ASSUME NEW v \in cfg.skills
        PROVE  /\ skillVersion'[v] # None /\ skillVersion'[v].status = "published"
               /\ skill'[skillVersion'[v].skill].ws = ws
               /\ skillVersion'[v].spec = skillVersion[v].spec
    <3>1. /\ skillVersion[v] # None /\ skillVersion[v].status = "published"
          /\ skill[skillVersion[v].skill].ws = ws
      BY <1>2 DEF Runs, Loads
    <3>2. skillVersion[v].skill \in Skills /\ skill[skillVersion[v].skill] # None
      BY <1>0, <2>1, <3>1 DEF SkillTypeOK, SkillVersionRow, SkillsInv
    <3> QED
      BY <2>1, <3>1, <3>2 DEF SkillsKeep
  <2>4. \A k \in cfg.kbs : KbHome[k] = ws
    BY <1>2 DEF Runs, Loads
  <2>5. Loads(ws, cfg)' /\ HasTemplate(ws, cfg)'
    BY <1>2, <2>2, <2>3, <2>4 DEF PromptsPinned, Loads
  <2>6. ASSUME NEW k \in cfg.skills, NEW n \in ToolNames, n \in skillVersion'[k].spec.tools
        PROVE  \E u \in cfg.tools : tool'[toolVersion'[u].tool].name = n
    <3>1. PICK u \in cfg.tools : tool[toolVersion[u].tool].name = n
      BY <1>2, <2>3, <2>6 DEF Runs
    <3> QED
      BY <2>2, <3>1
  <2> QED
    BY <2>5, <2>6 DEF Runs
<1>3. ASSUME Runs(ws, cfg) PROVE PromptsPinned(ws, cfg)
  BY <1>3 DEF Runs, Loads, PromptsPinned
<1> QED
  BY <1>1, <1>2, <1>3, PinnedStays

\* A stored version carries the configuration of the request that built it, in
\* the workspace of its agent.
LEMMA StoredFromJob ==
    ASSUME TypeInv, AgentsInv, AgentNext \/ AgentsFrame, AgentsKeep,
           NEW v \in AgentVersions, agentVersion[v] = None, agentVersion'[v] # None
    PROVE  \E r \in Requests : /\ job[r].op = "built"
                               /\ agentVersion'[v].snapshot = job[r].config
                               /\ agent'[agentVersion'[v].agent].ws = job[r].ws
<1> DEFINE Goal == \E r \in Requests : /\ job[r].op = "built"
                                       /\ agentVersion'[v].snapshot = job[r].config
                                       /\ agent'[agentVersion'[v].agent].ws = job[r].ws
<1>0. TypeOK /\ AgentTypeOK
  BY TypeParts DEF TypeInv
<1>1. ASSUME UNCHANGED agentVersion PROVE FALSE
  BY <1>1
<1>2. ASSUME NEW r \in Requests, NEW w \in AgentVersions, CreateAgentVersion(r, w) PROVE Goal
  <2>1. /\ job[r].op = "built" /\ job[r].agent # None /\ UNCHANGED agent
        /\ agentVersion' = [agentVersion EXCEPT ![w] = BuiltRow(r, job[r].agent)]
    BY <1>2 DEF CreateAgentVersion, CreateAgentVersionAndBindDev
  <2>2. v = w /\ agentVersion'[v] = BuiltRow(r, job[r].agent)
    BY <1>0, <2>1 DEF AgentTypeOK
  <2>3. agent[job[r].agent] = [ws |-> job[r].ws]
    BY <2>1 DEF AgentsInv
  <2> QED
    BY <2>1, <2>2, <2>3 DEF BuiltRow
<1>3. ASSUME NEW r \in Requests, NEW a \in Agents, NEW w \in AgentVersions, CreateAgent(r, a, w)
      PROVE  Goal
  <2>1. /\ job[r].op = "built" /\ agent' = [agent EXCEPT ![a] = [ws |-> job[r].ws]]
        /\ agentVersion' = [agentVersion EXCEPT ![w] = BuiltRow(r, a)]
    BY <1>3 DEF CreateAgent, CreateAgentWithVersion, CreateAgentVersionAndBindDev
  <2>2. v = w /\ agentVersion'[v] = BuiltRow(r, a)
    BY <1>0, <2>1 DEF AgentTypeOK
  <2>3. agent'[a] = [ws |-> job[r].ws]
    BY <1>0, <2>1 DEF AgentTypeOK
  <2> QED
    BY <2>1, <2>2, <2>3 DEF BuiltRow
<1> HIDE DEF Goal
<1>4. Goal
  <2>1. CASE AgentsFrame
    BY <1>1, <2>1 DEF AgentsFrame, agentVars
  <2>2. CASE AgentNext
    BY <1>1, <1>2, <1>3, <2>2, AgentWrites
       DEF agentVars, PromoteAgentVersion, CreateConversationInEnv,
           CreateConversationWithVersion
  <2> QED
    BY <2>1, <2>2
<1> QED
  BY <1>4 DEF Goal

\* What the service has validated and built stays fit to be released, and what is
\* released stays fit to be run, whatever happens between the two checks, the
\* insert and the execution.
LEMMA RunsInvStep ==
    ASSUME TypeInv, TypeInv', SkillsInv, AgentsInv, RunsInv, AgentNext \/ AgentsFrame,
           ToolsKeep, PromptsKeep, SkillsKeep, AgentsKeep
    PROVE  RunsInv'
<1>0. TypeOK /\ AgentTypeOK /\ AgentsKnown
  BY TypeParts DEF TypeInv
<1> DEFINE Pin(ws, cfg) == Orphaned(cfg)' \/ PromptsPinned(ws, cfg)'
           Run(ws, cfg) == Orphaned(cfg)' \/ Runs(ws, cfg)'
<1>1. ASSUME NEW ws \in Workspaces, NEW cfg \in AgentConfig, NEW q \in Requests,
             Carries(q, "validated", ws, cfg)
      PROVE  Pin(ws, cfg)
  BY <1>0, <1>1, PinnedStays DEF RunsInv
<1>2. ASSUME NEW ws \in Workspaces, NEW cfg \in AgentConfig, NEW q \in Requests,
             Carries(q, "built", ws, cfg)
      PROVE  Run(ws, cfg)
  BY <1>0, <1>2, RunsStay DEF RunsInv
<1>3. ASSUME NEW ws \in Workspaces, NEW cfg \in AgentConfig, DependenciesValid(ws, cfg)
      PROVE  Pin(ws, cfg)
  <2>1. PromptsPinned(ws, cfg)
    BY <1>3 DEF DependenciesValid, PromptsPinned, HasTemplate
  <2> QED
    BY <1>0, <2>1, PinnedStays
<1>4. ASSUME NEW ws \in Workspaces, NEW cfg \in AgentConfig, NEW q \in Requests,
             Carries(q, "validated", ws, cfg), SnapshotBuilds(ws, cfg)
      PROVE  Run(ws, cfg)
  <2>1. Orphaned(cfg) \/ Runs(ws, cfg)
    BY <1>4, BuiltRuns DEF RunsInv
  <2> QED
    BY <1>0, <2>1, RunsStay
<1> HIDE DEF Pin, Run
<1>5. ASSUME NEW ws \in Workspaces, NEW cfg \in AgentConfig, NEW q \in Requests,
             job'[q].op \in {"validated", "built"}, job'[q].ws = ws, job'[q].config = cfg
      PROVE  /\ job'[q].op = "validated" => Pin(ws, cfg)
             /\ job'[q].op = "built" => Run(ws, cfg)
  <2>1. CASE job'[q] = job[q]
    BY <1>1, <1>2, <1>5, <2>1 DEF Carries
  <2>2. CASE Validated(job'[q])
    BY <1>3, <1>5, <2>2 DEF Validated
  <2>3. CASE Built(job[q], job'[q])
    BY <1>4, <1>5, <2>3 DEF Built, Carries
  <2>4. CASE AgentNext
    BY <1>0, <1>5, <2>1, <2>2, <2>3, <2>4, AgentJobSteps
  <2>5. CASE AgentsFrame
    BY <1>5, <2>1, <2>5 DEF AgentsFrame, Held, AgentOps
  <2> QED
    BY <2>4, <2>5
<1>6. ASSUME NEW ws \in Workspaces, NEW cfg \in AgentConfig, NEW v \in AgentVersions,
             Stores(v, ws, cfg)'
      PROVE  Run(ws, cfg)
  <2>0. /\ agentVersion'[v] # None /\ agent'[agentVersion'[v].agent].ws = ws
        /\ agentVersion'[v].snapshot = cfg
    BY <1>6 DEF Stores
  <2>1. CASE agentVersion[v] # None
    <3>1. agentVersion'[v] = agentVersion[v] /\ agentVersion[v].agent \in Agents
      BY <1>0, <2>1 DEF AgentsKeep, AgentTypeOK, AgentVersionRow
    <3>2. agent'[agentVersion[v].agent] = agent[agentVersion[v].agent]
      BY <1>0, <2>1, <3>1 DEF AgentsKnown, AgentsKeep
    <3>3. Stores(v, ws, cfg)
      BY <2>0, <2>1, <3>1, <3>2 DEF Stores
    <3> QED
      BY <1>0, <3>3, RunsStay DEF RunsInv, Run
  <2>2. CASE agentVersion[v] = None
    <3>1. PICK r \in Requests : Carries(r, "built", ws, cfg)
      BY <2>0, <2>2, StoredFromJob DEF Carries
    <3> QED
      BY <1>2, <3>1
  <2> QED
    BY <2>1, <2>2
<1>7. ASSUME NEW ws \in Workspaces, NEW cfg \in AgentConfig
      PROVE  /\ \A r \in Requests : Carries(r, "validated", ws, cfg)' => Pin(ws, cfg)
             /\ \A r \in Requests : Carries(r, "built", ws, cfg)' => Run(ws, cfg)
             /\ \A v \in AgentVersions : Stores(v, ws, cfg)' => Run(ws, cfg)
  BY <1>5, <1>6 DEF Carries
<1> QED
  BY <1>7 DEF RunsInv, Pin, Run

\* RunsInv states ReleasedRuns for the configurations that can be stored.
LEMMA RunsInvReleased ==
    ASSUME TypeInv, RunsInv
    PROVE  ReleasedRuns
<1> SUFFICES ASSUME NEW v \in AgentVersions, agentVersion[v] # None
             PROVE  \/ Orphaned(agentVersion[v].snapshot)
                    \/ Runs(agent[agentVersion[v].agent].ws, agentVersion[v].snapshot)
  BY DEF ReleasedRuns
<1> DEFINE ws == agent[agentVersion[v].agent].ws
           cfg == agentVersion[v].snapshot
<1>1. cfg \in AgentConfig /\ agentVersion[v].agent \in Agents
  BY DEF TypeInv, TypeOK, AgentVersionRow
<1>2. ws \in Workspaces
  BY <1>1 DEF TypeInv, TypeOK, AgentsKnown, AgentRow
<1>3. Stores(v, ws, cfg)
  BY DEF Stores
<1> HIDE DEF ws, cfg
<1>4. Orphaned(cfg) \/ Runs(ws, cfg)
  BY <1>1, <1>2, <1>3 DEF RunsInv
<1> QED
  BY <1>4 DEF ws, cfg

-----------------------------------------------------------------------------
(* The theorems *)

\* A table without rows.
LEMMA EmptyDense ==
    ASSUME NEW Ids, NEW f, f = [v \in Ids |-> None], NEW k, NEW P
    PROVE  DenseIn(f, k, P)
<1>1. \A p \in P : Rows(f, k, p) = {} /\ Nums(f, k, p) = {}
  BY DEF Rows, Nums
<1> QED
  BY <1>1, DenseEmpty DEF DenseIn

\* A table with one row of number 1.
LEMMA SeedDense ==
    ASSUME NEW Ids, NEW s \in Ids, NEW row, row # None, row.number = 1, NEW f,
           f = [v \in Ids |-> IF v = s THEN row ELSE None],
           NEW k, NEW P, row[k] \in P
    PROVE  DenseIn(f, k, P)
<1> DEFINE e == [v \in Ids |-> None]
<1>1. Inserted(e, f, s, row)
  BY DEF Inserted
<1>2. DenseIn(e, k, P)
  BY EmptyDense
<1>3. Rows(e, k, row[k]) = {} /\ Nums(e, k, row[k]) = {}
  BY DEF Rows, Nums
<1>4. Offered(row.number, Rows(e, k, row[k])) /\ row.number \notin Nums(e, k, row[k])
  BY <1>3, DenseEmpty
<1> HIDE DEF e
<1> QED
  BY <1>1, <1>2, <1>4, InsertDense

\* The catalogue of an installation satisfies the invariant, with a tool of an
\* older release or without one.
LEMMA InitInv == CatalogInit => Inv
<1> SUFFICES ASSUME CatalogInit PROVE Inv
  OBVIOUS
<1>0. \A r \in Requests : job[r].op = "idle"
  BY DEF CatalogInit, Idle
<1>1. ToolsInv
  <2>1. CASE tool = [t \in Tools |-> None] /\ toolVersion = [v \in ToolVersions |-> None]
    BY <1>0, <2>1, EmptyDense DEF ToolsInv, ExistingToolVersions
  <2>2. ASSUME NEW t \in Tools, NEW v \in ToolVersions, NEW row \in ToolRow, NEW c \in Configs,
               NEW s \in Secrets, NEW published \in BOOLEAN,
               LegacyTool(t, v, row, c, s, published)
        PROVE  ToolsInv
    <3> DEFINE new == [NewToolVersion(t, 1, c, s) EXCEPT !.sealed = FALSE,
                         !.status = IF published THEN "published" ELSE "draft"]
    <3>1. new \in ToolVersionRow /\ new.tool = t /\ new["tool"] = t /\ new.number = 1
      BY DEF NewToolVersion, ToolVersionRow
    <3>2. /\ toolVersion = [w \in ToolVersions |-> IF w = v THEN new ELSE None]
          /\ tool = [u \in Tools |-> IF u = t THEN row ELSE None]
      BY <2>2 DEF LegacyTool
    <3> HIDE DEF new
    <3>3. new # None /\ row # None
      BY <3>1, ToolRowsAssumption
    <3>4. DenseIn(toolVersion, "tool", Tools)
      BY <3>1, <3>2, <3>3, SeedDense
    <3> QED
      BY <1>0, <3>1, <3>2, <3>3, <3>4 DEF ToolsInv, ExistingToolVersions
  <2> QED
    BY <2>1, <2>2 DEF CatalogInit, ToolInit
<1>2. PromptsInv
  <2> DEFINE row == [prompt |-> Seed.prompt, number |-> 1, renders |-> TRUE]
             new == [ws |-> Seed.ws, user |-> FALSE]
  <2>1. /\ row \in PromptVersionRow /\ row.number = 1 /\ row.prompt = Seed.prompt
        /\ row["prompt"] \in Prompts /\ new \in PromptRow /\ Seed.promptVersion \in PromptVersions
        /\ Seed.prompt \in Prompts
    BY CatalogAssumption DEF PromptVersionRow, PromptRow
  <2>2. /\ promptVersion = [v \in PromptVersions |-> IF v = Seed.promptVersion THEN row ELSE None]
        /\ prompt = [p \in Prompts |-> IF p = Seed.prompt THEN new ELSE None]
    BY DEF CatalogInit
  <2> HIDE DEF row, new
  <2>3. row # None /\ new # None
    BY <2>1, CatalogAssumption
  <2>4. DenseIn(promptVersion, "prompt", Prompts)
    BY <2>1, <2>2, <2>3, SeedDense
  <2> QED
    BY <1>0, <2>1, <2>2, <2>3, <2>4 DEF PromptsInv
<1>3. SkillsInv
  <2>0. PICK spec \in SkillSpecs :
          skillVersion = [v \in SkillVersions |-> IF v = Seed.skillVersion
             THEN [skill |-> Seed.skill, number |-> 1, spec |-> spec,
                   status |-> "draft"] ELSE None]
    BY DEF CatalogInit
  <2> DEFINE row == [skill |-> Seed.skill, number |-> 1, spec |-> spec, status |-> "draft"]
             new == [ws |-> Seed.ws]
  <2>1. /\ row \in SkillVersionRow /\ row.number = 1 /\ row.skill = Seed.skill
        /\ row["skill"] \in Skills /\ new \in SkillRow /\ Seed.skillVersion \in SkillVersions
        /\ Seed.skill \in Skills
    BY CatalogAssumption DEF SkillVersionRow, SkillRow
  <2>2. /\ skillVersion = [v \in SkillVersions |-> IF v = Seed.skillVersion THEN row ELSE None]
        /\ skill = [k \in Skills |-> IF k = Seed.skill THEN new ELSE None]
    BY <2>0 DEF CatalogInit
  <2> HIDE DEF row, new
  <2>3. row # None /\ new # None
    BY <2>1, CatalogAssumption
  <2>4. DenseIn(skillVersion, "skill", Skills)
    BY <2>1, <2>2, <2>3, SeedDense
  <2> QED
    BY <1>0, <2>1, <2>2, <2>3, <2>4 DEF SkillsInv
<1>4. ModelsInv
  <2>0. PICK s \in Settings :
          modelVersion = [v \in ModelVersions |-> IF v = Seed.modelVersion
             THEN [ws |-> Seed.ws, number |-> 1, settings |-> s] ELSE None]
    BY DEF CatalogInit
  <2> DEFINE row == [ws |-> Seed.ws, number |-> 1, settings |-> s]
  <2>1. /\ row \in ModelVersionRow /\ row.number = 1 /\ row["ws"] \in Workspaces
        /\ Seed.modelVersion \in ModelVersions
    BY CatalogAssumption DEF ModelVersionRow
  <2>2. modelVersion = [v \in ModelVersions |-> IF v = Seed.modelVersion THEN row ELSE None]
    BY <2>0
  <2> HIDE DEF row
  <2>3. row # None
    BY <2>1, CatalogAssumption
  <2>4. DenseIn(modelVersion, "ws", Workspaces)
    BY <2>1, <2>2, <2>3, SeedDense
  <2>5. ModelVersionsDiffer
    BY <2>1, <2>2 DEF ModelVersionsDiffer, ModelVersionsOf
  <2> QED
    BY <1>0, <2>4, <2>5 DEF ModelsInv
<1>5. AgentsInv
  <2>1. /\ agentVersion = [v \in AgentVersions |-> None]
        /\ agentEnv = [a \in Agents |-> [e \in Envs |-> None]]
        /\ conversation = [c \in Conversations |-> None]
    BY DEF CatalogInit
  <2>2. DenseIn(agentVersion, "agent", Agents)
    BY <2>1, EmptyDense
  <2>3. BindingsOwn
    BY <2>1 DEF BindingsOwn
  <2> QED
    BY <1>0, <2>2, <2>3 DEF AgentsInv
<1>6. RunsInv
  <2>1. agentVersion = [v \in AgentVersions |-> None]
    BY DEF CatalogInit
  <2> QED
    BY <1>0, <2>1 DEF RunsInv, Carries, Stores
<1> QED
  BY <1>1, <1>2, <1>3, <1>4, <1>5, <1>6 DEF Inv

\* The invariant is inductive.
LEMMA InvStep ==
    ASSUME TypeInv, Inv, [Next]_vars
    PROVE  TypeInv' /\ Inv'
<1>1. /\ ToolNext \/ ToolsFrame
      /\ PromptNext \/ PromptsFrame
      /\ SkillNext \/ SkillsFrame
      /\ ModelNext \/ ModelsFrame
      /\ AgentNext \/ AgentsFrame
      /\ ToolsKeep /\ PromptsKeep /\ SkillsKeep /\ ModelsKeep /\ AgentsKeep
      /\ TypeInv'
  BY StepParts
<1>2. ToolsInv /\ PromptsInv /\ SkillsInv /\ ModelsInv /\ AgentsInv /\ RunsInv
  BY DEF Inv
<1>3. ToolsInv'
  BY <1>1, <1>2, ToolsInvStep
<1>4. PromptsInv'
  BY <1>1, <1>2, PromptsInvStep
<1>5. SkillsInv'
  BY <1>1, <1>2, SkillsInvStep
<1>6. ModelsInv'
  BY <1>1, <1>2, ModelsInvStep
<1>7. AgentsInv'
  BY <1>1, <1>2, AgentsInvStep
<1>8. RunsInv'
  BY <1>1, <1>2, RunsInvStep
<1> QED
  BY <1>1, <1>3, <1>4, <1>5, <1>6, <1>7, <1>8 DEF Inv

\* The invariant holds in every reachable state.
LEMMA Invariance == Spec => [](TypeInv /\ Inv)
<1>1. CatalogInit => TypeInv /\ Inv
  BY InitType, InitInv
<1>2. TypeInv /\ Inv /\ [Next]_vars => (TypeInv /\ Inv)'
  BY InvStep
<1> QED
  BY <1>1, <1>2, PTL DEF Spec

\* The versions of every tool, prompt, skill, model configuration and agent are
\* numbered 1, 2, ... without gap or repetition, although every service reads the
\* number in one statement and inserts in another, with any number of requests
\* between the two and with prompts that are rolled back.
THEOREM DenselyNumbered == Spec => []VersionsAreDense
<1>1. ASSUME TypeInv, Inv PROVE VersionsAreDense
  <2>0. /\ TypeOK /\ ToolTypeOK /\ PromptTypeOK /\ SkillTypeOK /\ ModelTypeOK /\ AgentTypeOK
        /\ DenseIn(toolVersion, "tool", Tools)
        /\ DenseIn(promptVersion, "prompt", Prompts)
        /\ DenseIn(skillVersion, "skill", Skills)
        /\ DenseIn(modelVersion, "ws", Workspaces)
        /\ DenseIn(agentVersion, "agent", Agents)
    BY <1>1, TypeParts
       DEF TypeInv, TypeOK, Inv, ToolsInv, PromptsInv, SkillsInv, ModelsInv, AgentsInv
  <2>1. \A t \in ExistingTools : Numbered(NumbersOf(t), VersionsOf(t))
    BY <2>0, ToolRows DEF DenseIn, Dense, ExistingTools
  <2>2. ASSUME NEW p \in Prompts
        PROVE  Numbered({promptVersion[v].number : v \in PromptVersionsOf(p)},
                        PromptVersionsOf(p))
    BY <2>0, PromptRows DEF DenseIn, Dense, Nums
  <2>3. ASSUME NEW k \in Skills
        PROVE  Numbered({skillVersion[v].number : v \in SkillVersionsOf(k)},
                        SkillVersionsOf(k))
    BY <2>0, SkillRows DEF DenseIn, Dense, Nums
  <2>4. ASSUME NEW w \in Workspaces
        PROVE  Numbered({modelVersion[v].number : v \in ModelVersionsOf(w)},
                        ModelVersionsOf(w))
    BY <2>0, ModelRows DEF DenseIn, Dense, Nums
  <2>5. ASSUME NEW a \in Agents
        PROVE  Numbered({agentVersion[v].number : v \in AgentVersionsOf(a)},
                        AgentVersionsOf(a))
    BY <2>0, AgentRows DEF DenseIn, Dense, Nums
  <2> QED
    BY <2>1, <2>2, <2>3, <2>4, <2>5 DEF VersionsAreDense
<1> QED
  BY <1>1, Invariance, PTL

\* Servers that start at the same time with the same settings add no second
\* version: neighbouring versions of a model configuration differ.
THEOREM NeighboursDiffer == Spec => []ModelVersionsDiffer
<1>1. Inv => ModelVersionsDiffer
  BY DEF Inv, ModelsInv
<1> QED
  BY <1>1, Invariance, PTL

\* Environments and conversations point only at versions of their own agent, in
\* its workspace.
THEOREM BindingsStayOwn == Spec => []BindingsOwn
<1>1. Inv => BindingsOwn
  BY DEF Inv, AgentsInv
<1> QED
  BY <1>1, Invariance, PTL

\* A released agent version can be run at any later time unless a rollback
\* deleted a prompt version it pins: no tool, skill, knowledge base or template
\* that the validation saw is lost between the two checks, the insert and the run.
THEOREM ReleasedAlwaysRuns == Spec => []ReleasedRuns
<1>1. TypeInv /\ Inv => ReleasedRuns
  BY RunsInvReleased DEF Inv
<1> QED
  BY <1>1, Invariance, PTL
=============================================================================
