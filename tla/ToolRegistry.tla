---------------------------- MODULE ToolRegistry ----------------------------
(***************************************************************************)
(* The tool registry of platform/tool: tools, their numbered versions with *)
(* credentials, test runs, and the publish gate.  Each definition of the   *)
(* first part is one SQL statement; the operations of the service read and *)
(* write through several of them, so an operation of more than one         *)
(* statement keeps what it has read in job[r] between its steps.           *)
(*                                                                         *)
(* Abstractions.  A configuration is a member of Configs, the ones that    *)
(* toolConfigFromStrings and the endpoint policy accept (a rejected one    *)
(* changes nothing); a credential is a member of Secrets.  A failed test   *)
(* run is a row that no operation reads and is not kept.                   *)
(***************************************************************************)
EXTENDS Integers, FiniteSets

CONSTANTS
    Workspaces, Tools, ToolVersions, ToolNames, Configs, Secrets,
    Requests,       \* requests (and server starts) that can be under way
    MaxRequests,    \* bound: requests accepted in a behaviour
    None            \* no row, no credential, no request

ASSUME RegistryAssumption ==
    /\ MaxRequests \in Nat
    /\ None \notin Workspaces \cup Tools \cup ToolVersions \cup ToolNames
                   \cup Configs \cup Secrets \cup Requests

VARIABLES
    tool,           \* tools: id -> row or None
    toolVersion,    \* tool_versions: id -> row or None
    testRun,        \* the successful rows of tool_test_runs
    job,            \* what a request under way has read so far
    accepted        \* requests accepted so far

toolVars == <<tool, toolVersion, testRun>>

Idle == [op |-> "idle"]

ToolRow == [ws : Workspaces, name : ToolNames]
ToolVersionRow == [tool : Tools, number : Nat, config : Configs,
                   secret : Secrets \cup {None}, sealed : BOOLEAN,
                   status : {"draft", "published"}]
\* "ran" is history: the version whose configuration was executed.
TestRunRow == [version : ToolVersions, ran : ToolVersions, fresh : BOOLEAN]

\* A row is never taken for its absence.
ASSUME ToolRowsAssumption == None \notin ToolRow /\ None \notin ToolVersionRow

\* The values a tool operation holds between two statements.
ToolJob ==
    [op : {"copied"}, tool : Tools, config : Configs, secret : Secrets \cup {None}]
    \cup [op : {"numbered"}, tool : Tools, config : Configs,
          secret : Secrets \cup {None}, number : Nat]
    \cup [op : {"testing"}, tool : Tools, ran : ToolVersions]
    \cup [op : {"filing"}, version : ToolVersions, ran : ToolVersions]
    \cup [op : {"publishing"}, version : ToolVersions]
    \cup [op : {"sealing"}, versions : SUBSET ToolVersions]

-----------------------------------------------------------------------------
(* Statements                                                              *)

\* Ids are generated (util/id.go) and carry no meaning, so one free id stands
\* for any other.
FreshIn(id, free) == free # {} /\ id = CHOOSE i \in free : TRUE

ExistingTools == {t \in Tools : tool[t] # None}
ExistingToolVersions == {v \in ToolVersions : toolVersion[v] # None}

\* ListToolVersions
VersionsOf(t) == {v \in ExistingToolVersions : toolVersion[v].tool = t}
NumbersOf(t) == {toolVersion[v].number : v \in VersionsOf(t)}

\* GetToolCurrentVersion: ORDER BY version DESC LIMIT 1
IsCurrent(t, v) ==
    /\ v \in VersionsOf(t)
    /\ \A w \in VersionsOf(t) : toolVersion[w].number <= toolVersion[v].number

\* ListTools, read by ToolExistsByName
NamesIn(ws) == {tool[t].name : t \in {u \in ExistingTools : tool[u].ws = ws}}

\* Mutant: the unique index is missing.
NumberIsUnchecked(t, n) == TRUE

\* UNIQUE (tool_id, version)
NumberIsFree(t, n) == n \notin NumbersOf(t)

CreateToolWithVersion(t, v, row, first) ==
    /\ FreshIn(t, {u \in Tools : tool[u] = None})
    /\ FreshIn(v, ToolVersions \ ExistingToolVersions)
    /\ row.name \notin NamesIn(row.ws)
    /\ tool' = [tool EXCEPT ![t] = row]
    /\ toolVersion' = [toolVersion EXCEPT ![v] = first]

InsertToolVersion(v, row) ==
    /\ FreshIn(v, ToolVersions \ ExistingToolVersions)
    /\ NumberIsFree(row.tool, row.number)
    /\ toolVersion' = [toolVersion EXCEPT ![v] = row]

UpdateToolVersionStatus(v) ==
    toolVersion' = [toolVersion EXCEPT ![v].status = "published"]

\* ListLegacyToolAuthVersions
LegacyVersions == {v \in ExistingToolVersions :
                      ~toolVersion[v].sealed /\ toolVersion[v].secret # None}

\* Mutant: the plaintext is cleared before it is encrypted.
EncryptToolVersionAuthBlank(v) ==
    toolVersion' = [toolVersion EXCEPT ![v].sealed = TRUE, ![v].secret = None]

\* EncryptToolVersionAuth: the row is changed only while it has no ciphertext.
EncryptToolVersionAuth(v) ==
    toolVersion' = [toolVersion EXCEPT ![v].sealed = TRUE]

CreateTestRun(v, ran) ==
    testRun' = testRun \cup {[version |-> v, ran |-> ran, fresh |-> TRUE]}

\* GetToolLastSuccessfulTestRunForVersion with the seven-day limit of the gate
HasFreshTest(v) == \E run \in testRun : run.version = v /\ run.fresh

-----------------------------------------------------------------------------
(* Service operations                                                      *)

\* prepareVersionAuth: a credential is stored as ciphertext.
NewToolVersion(t, n, c, s) ==
    [tool |-> t, number |-> n, config |-> c, secret |-> s,
     sealed |-> s # None, status |-> "draft"]

\* EnsureToolWorkspace, called by every handler that names a tool
InWorkspace(t, ws) == tool[t] # None /\ tool[t].ws = ws

Accept == accepted < MaxRequests /\ accepted' = accepted + 1
Start(r, j) == job[r] = Idle /\ Accept /\ job' = [job EXCEPT ![r] = j]
Continue(r, j) == job' = [job EXCEPT ![r] = j] /\ UNCHANGED accepted
Done(r) == Continue(r, Idle)

CreateTool(t, v, row, c, s) ==
    /\ CreateToolWithVersion(t, v, row, NewToolVersion(t, 1, c, s))
    /\ Accept
    /\ UNCHANGED <<testRun, job>>

\* CreateToolVersion, up to GetToolCurrentVersion: fields the request leaves
\* empty (None) are copied from the current version.
CopyCurrentVersion(r, ws, t, c, s) ==
    /\ InWorkspace(t, ws)
    /\ \E v \in VersionsOf(t) :
          /\ IsCurrent(t, v)
          /\ Start(r, [op |-> "copied", tool |-> t,
                       config |-> IF c = None THEN toolVersion[v].config ELSE c,
                       secret |-> IF s = None THEN toolVersion[v].secret ELSE s])
    /\ UNCHANGED toolVars

\* CreateToolVersion, ListToolVersions: one more than the highest number
NumberToolVersion(r) ==
    /\ job[r].op = "copied"
    /\ \E n \in NumbersOf(job[r].tool) :
          /\ \A m \in NumbersOf(job[r].tool) : m <= n
          /\ Continue(r, [op |-> "numbered", tool |-> job[r].tool,
                          config |-> job[r].config, secret |-> job[r].secret,
                          number |-> n + 1])
    /\ UNCHANGED toolVars

\* CreateToolVersion, the insert: refused when another request took the number
CreateToolVersion(r, v) ==
    /\ job[r].op = "numbered"
    /\ InsertToolVersion(v, NewToolVersion(job[r].tool, job[r].number,
                                           job[r].config, job[r].secret))
    /\ Done(r)
    /\ UNCHANGED <<tool, testRun>>

CreateToolVersionRefused(r) ==
    /\ job[r].op = "numbered"
    /\ ~NumberIsFree(job[r].tool, job[r].number)
    /\ Done(r)
    /\ UNCHANGED toolVars

\* TestTool: Registry.Build reads the current version, then it is executed.
TestTool(r, ws, t) ==
    /\ InWorkspace(t, ws)
    /\ \E v \in VersionsOf(t) :
          IsCurrent(t, v) /\ Start(r, [op |-> "testing", tool |-> t, ran |-> v])
    /\ UNCHANGED toolVars

\* RecordTestRun, GetToolCurrentVersion: the version that is current now ...
FindTestedVersion(r) ==
    /\ job[r].op = "testing"
    /\ \E v \in VersionsOf(job[r].tool) :
          /\ IsCurrent(job[r].tool, v)
          /\ Continue(r, [op |-> "filing", version |-> v, ran |-> job[r].ran])
    /\ UNCHANGED toolVars

\* ... is the one a success is recorded for.
RecordTestRun(r) ==
    /\ job[r].op = "filing"
    /\ CreateTestRun(job[r].version, job[r].ran)
    /\ Done(r)
    /\ UNCHANGED <<tool, toolVersion>>

\* The tool failed: the row that is written lets nothing pass.
RecordFailedRun(r) ==
    /\ job[r].op = "testing"
    /\ Done(r)
    /\ UNCHANGED toolVars

\* PublishTool (v is the current version) and PublishToolVersion (v is named):
\* the checks of the gate.
PassPublishGate(r, ws, v) ==
    /\ v \in ExistingToolVersions
    /\ InWorkspace(toolVersion[v].tool, ws)
    /\ toolVersion[v].status = "draft"
    /\ HasFreshTest(v)
    /\ Start(r, [op |-> "publishing", version |-> v])
    /\ UNCHANGED toolVars

PublishToolVersion(r) ==
    /\ job[r].op = "publishing"
    /\ UpdateToolVersionStatus(job[r].version)
    /\ Done(r)
    /\ UNCHANGED <<tool, testRun>>

\* MigrateLegacyCredentials, at the start of a server while others serve
ListLegacyCredentials(r) ==
    /\ LegacyVersions # {}
    /\ Start(r, [op |-> "sealing", versions |-> LegacyVersions])
    /\ UNCHANGED toolVars

SealLegacyCredential(r, v) ==
    /\ job[r].op = "sealing" /\ v \in job[r].versions
    /\ EncryptToolVersionAuth(v)
    /\ Continue(r, IF job[r].versions = {v} THEN Idle
                   ELSE [job[r] EXCEPT !.versions = @ \ {v}])
    /\ UNCHANGED <<tool, testRun>>

\* Seven days pass.
AgeTestRun(run) ==
    /\ run \in testRun /\ run.fresh
    /\ testRun' = (testRun \ {run}) \cup {[run EXCEPT !.fresh = FALSE]}
    /\ UNCHANGED <<tool, toolVersion, job, accepted>>

-----------------------------------------------------------------------------
\* A tool whose only version was written, and perhaps tested and published,
\* before credentials were encrypted (migration 000019).
LegacyTool(t, v, row, c, s, published) ==
    /\ FreshIn(t, Tools) /\ FreshIn(v, ToolVersions)
    /\ tool = [u \in Tools |-> IF u = t THEN row ELSE None]
    /\ toolVersion = [w \in ToolVersions |-> IF w = v
          THEN [NewToolVersion(t, 1, c, s) EXCEPT !.sealed = FALSE,
                  !.status = IF published THEN "published" ELSE "draft"]
          ELSE None]
    /\ testRun = IF published
          THEN {[version |-> v, ran |-> v, fresh |-> FALSE]} ELSE {}

ToolInit ==
    \/ /\ tool = [t \in Tools |-> None]
       /\ toolVersion = [v \in ToolVersions |-> None]
       /\ testRun = {}
    \/ \E t \in Tools, v \in ToolVersions, row \in ToolRow, c \in Configs,
          s \in Secrets, published \in BOOLEAN :
          LegacyTool(t, v, row, c, s, published)

ToolNext ==
    \/ \E t \in Tools, v \in ToolVersions, row \in ToolRow, c \in Configs,
          s \in Secrets \cup {None} : CreateTool(t, v, row, c, s)
    \/ \E r \in Requests, ws \in Workspaces :
          \/ \E t \in Tools :
                \/ TestTool(r, ws, t)
                \/ \E c \in Configs \cup {None}, s \in Secrets \cup {None} :
                      CopyCurrentVersion(r, ws, t, c, s)
          \/ \E v \in ToolVersions : PassPublishGate(r, ws, v)
    \/ \E r \in Requests :
          \/ NumberToolVersion(r)
          \/ CreateToolVersionRefused(r)
          \/ FindTestedVersion(r)
          \/ RecordTestRun(r)
          \/ RecordFailedRun(r)
          \/ PublishToolVersion(r)
          \/ ListLegacyCredentials(r)
          \/ \E v \in ToolVersions :
                CreateToolVersion(r, v) \/ SealLegacyCredential(r, v)
    \/ \E run \in testRun : AgeTestRun(run)

ToolSpec == /\ ToolInit /\ job = [r \in Requests |-> Idle] /\ accepted = 0
            /\ [][ToolNext]_<<toolVars, job, accepted>>

-----------------------------------------------------------------------------
(* Properties                                                              *)

ToolTypeOK ==
    /\ tool \in [Tools -> ToolRow \cup {None}]
    /\ toolVersion \in [ToolVersions -> ToolVersionRow \cup {None}]
    /\ testRun \subseteq TestRunRow

\* Versions are numbered 1, 2, ... per parent row, without gaps or repetitions.
Numbered(numbers, rows) ==
    /\ numbers = 1 .. Cardinality(numbers)
    /\ Cardinality(numbers) = Cardinality(rows)

\* PublishToolVersion promises (service.go:296) that the gate accepts only a
\* successful run of the version itself.  RecordTestRun files a run under the
\* version that is current when it ends, which need not be the one that ran.
PublishedWasTested ==
    \A v \in ExistingToolVersions : toolVersion[v].status = "published" =>
        \E run \in testRun : run.version = v /\ run.ran = v
=============================================================================
