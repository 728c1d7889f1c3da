# Formal models of ecommerce-ops-agent

This directory holds TLA+ specifications of the parts of the agent platform whose
correctness depends on the order in which several processes, requests or callbacks
move. TLC checks small instances, TLAPS proves the main safety properties for
instances of every size.

## 1. The system

Two processes share PostgreSQL and Redis (asynq): the API server (`cmd/server`, of
which several may run) and the worker (`cmd/worker`). A browser talks to the server,
agents call a language model and REST tools.

| Component | State | Operations | Interacts with |
|---|---|---|---|
| Conversation turns (`platform/agent/postgres_store.go`) | row of `conversations`: status, turn token, lease, revision; `messages` | claim, renew, commit, release; reopened by a rejection | the engine, the approval store |
| Approvals, checkpoints, tool ledger (`platform/approval`, `platform/tool`, `internal/infrastructure/postgres/queries/guard.sql`) | `approvals` with decision and execution lease, `checkpoints`, `tool_invocations` | create, decide, begin / renew / complete / fail execution, save checkpoint, open and close the ledger | the engine, the API, the worker |
| Engine (`runtime/engine`) | local variables of a run, its event channel | `ChatStream`, `Resume`, the middleware of a tool call | both stores, the model, tools, the HTTP handler |
| Skill and batch policy (`agent_runtime.go`, `runtime/skillrunner`) | skill active in a run, verdict on a batch | load a skill, judge a batch, judge a call | the engine |
| Approval API, dispatcher, worker (`api/v1/approval.go`, `cmd/worker/main.go`) | the asynq queue | approve, reject, enqueue, dispatch every 15 s, deliver | the stores and the engine |
| Knowledge bases (`platform/kb`, `runtime/retriever/pgvector.go`) | `kbs`, `kb_documents`, `kb_chunks`, asynq | sync of a folder, ingest of a version, re-index, search | the queue, the embedding service, the file system |
| Catalogue: tools, prompts, skills, model configurations, agents | drafts, numbered immutable versions, test runs, environments, pinned conversations | create, edit, test, publish, promote | the API, the engine |
| Idempotency and locks (`api/middleware/idempotency.go`, `runtime/cache`) | mutexes of a process, Redis locks and cached responses | reserve, replay, remember, release | every write request |
| IAM (`platform/iam`) | users, workspaces, members | register, create, put and delete members, seed at start | every request |
| Guard and rate limiter (`runtime/guard`) | Redis counters | rules on a text; allow | the engine, the audit writer |
| Audit writer (`platform/audit`) | bounded channel, batch, counters | write, flush, close | guard and engine |
| Business service (`projects/crossborder`) and REST executor (`runtime/tooling`) | orders, stock, records, idempotency keys, all in memory | transfer, change warehouse, refund, reconcile, read inventory | the engine, through tool calls |

What is hard in this system:

* one conversation, several runs: chats and resumes compete for a leased row,
  and a run may stall past its lease and come back;
* one approval, several workers: asynq delivers at least once, workers die, an
  execution lease runs out while its holder still works, and the side effect of
  a tool cannot be rolled back;
* one turn, several statements: approvals, checkpoints, messages and status are
  written by different statements, and a person may decide between any two;
* one batch, several verdicts: a skill activated by one call changes what the next
  may do, and a resumed run starts without it;
* one channel between the goroutine of a run and a handler whose client may leave;
* one knowledge base that is rebuilt while old ingest tasks are still running, with
  two embedding models alive during a release;
* one catalogue that every administrator reads, checks and then writes in separate
  statements;
* one key, several servers: locks and cached answers in Redis that expire or are lost;
* commands to Redis and rows of a batch that fail one by one;
* a tool call given up by its executor and still handled by the service.

What makes each component correct is stated by the properties in section 3;
`PROJECT.json` lists the hazards line by line with the properties that watch them.

## 2. Modules

| Module | Models |
|---|---|
| `ConversationTurns` | the lease of one conversation row; each definition is one statement or transaction |
| `ApprovalStore` (extends it) | approvals, their execution leases, checkpoints and the tool ledger; each definition is one statement |
| `ApprovalFlow` (extends it) | `ChatStream`, `Resume`, approve / reject, queue, dispatcher, heartbeats, lease expiry and crashes over these statements |
| `GovernedCalls` | the abstract promise about a sensitive call, with no leases, queues or checkpoints |
| `SkillPolicy` | what a version, a skill and a batch allow; pure definitions |
| `AgentRun` (extends it) | the inside of a run, the middleware around a tool call, the event channel and its reader |
| `KbIndex` | `syncConnector`, `IngestDocumentVersion`, `BeginKBReindex`, `ActivateKBIfReady`, the visibility of chunks to a search, asynq tasks and their unique locks |
| `ToolRegistry` | tools, versions, test runs, the publish gate, the encryption of old credentials |
| `Catalog` (extends it) | prompts, skills, model configurations, agents, environments, conversations |
| `Idempotency` | mutexes, locks and cached responses of the middleware |
| `Membership` | the statements on users, workspaces and members, and `MembershipSpec`, their behaviour in any order |
| `ApiRequests` (extends `Membership`, instantiates `Idempotency`) | requests through middleware and handlers on several servers that start and die |
| `AuditWriter` | channel, batches, insert row by row, close; `AuditSpec` is the writer on its own |
| `Guard` (extends it) | the rules on a message, the rate limit, the hooks of a run, the audit entries they leave |
| `BusinessTools` | the business service and the REST executors that call it |
| `MC*` | constants and symmetry sets for TLC |
| `ConversationTurnsProofs`, `ApprovalFlowProofs`, `AgentRunProofs`, `KbIndexProofs`, `CatalogProofs`, `ApiRequestsProofs`, `GuardProofs`, `BusinessToolsProofs` | theorems and proofs |

Operators marked "Mutant" or "faulty" in the modules are wrong variants of the
definition that follows them. No specification uses them; substituting one shows that
the property named in `PROJECT.json` notices that bug.

### The approval flow

State and code. `convStatus`, `turnToken`, `turnExpired`, `turnRevision` are
columns of `conversations`; `history` is the sequence of committed turns, each
with the roles of its messages and the approvals it stopped at. `heldTurn[p]` is
the token run `p` got from its claim. Tokens are fresh UUIDs in the code; the
revision, incremented by the same UPDATE, stands for them. Time is reduced to the
question the WHERE clauses ask, whether a lease is over. `apprStatus`,
`execStatus`, `execAttempts`, `execExpired`, `execToken`, `checkpoint` and
`ledger` are the columns and tables of the approval side, keyed by the tool call.
`pc`, `todo`, `suspended`, `unsaved`, `nextStatus`, `task` are local variables of
a run; `queue`, `unsent`, `listed` are the asynq task of a call, decisions whose
enqueue is still to come, and the list a dispatch works through.

Steps. A run is cut at every statement it sends and around the external call.
A chat goes start, prepare, model, [tools, persist,] commit; a resume begin,
claim, load, ledger, invoke, record, model, [tools, persist,] commit, complete;
both may leave early through release, a resume then through fail. Deferred calls
(`CompleteExecution`, `FailExecution`, the release of the turn) are steps of their
own because a process may die between them. Every database call may fail, a
commit may succeed without its acknowledgement, and the heartbeat may report a
lease that the commit has just given back. A resume that hears
`ErrExecutionUnavailable`, from `BeginExecution` or from `CompleteExecution`, returns
nil and its task is gone; after every other error asynq keeps the task.
A chat renews its lease from the start of its goroutine, so not yet while it prepares.

Abstractions. Tool calls of the model are an arbitrary non-empty set of at most
`MaxBatch` calls whose IDs are new; only sensitive calls appear here, and what
decides about a call before it needs an approval is in `AgentRun`. An invoked tool that
returns an error is an effect like any other, because the code makes it the
tool's result. Conversations share nothing, so one is modelled.

### Knowledge bases

`row[d]` and `index[d]` are sets of at most one element: the row of a document,
and the version of its chunks. A fingerprint is a record of pipeline, model and
content instead of a hash. A chunk keeps both the label the task gave it and the
model that really embedded it; that the two agree is a property, not an
assumption. Every sync and every ingest picks the model and the chunking
configuration of its process, because servers and workers of two builds overlap
during a release. `queued` is a set: two equal tasks in the queue count once.
`SyncStart` and `SyncLook` each join two consecutive reads (the row and the
folder); everything a sync writes is a step of its own. asynq's unique lock is
taken at the enqueue, given back when the handler returns nil, kept over retries,
and may expire at any time. A failed task is retried or, after asynq's default of 25
retries, archived (`Archive`); a worker whose model is not the one of the task returns
nil, and the task is gone (`kb/ingest.go` 54, 177). Left out: the path without Redis, which ingests
inside the request, the log table `kb_ingest_jobs`, which nothing reads back, and
documents that chunk to nothing, which fail for ever.

### The inside of a run

`run[r]` is the goroutine of `ChatStream` (or `Resume`) with its `agentRunState`:
`active` and `explicit` skill, the `batch` the model asked for with the positions
still `todo`, the verdict `denied` on it, the positions `held` by interrupts and those
`stored` by the run before, each with the skill the checkpoint records and, as history,
the skill that was active when the call was first interrupted (`raised`). `stream[r]` is the channel and the handler `Chat`; the SSE
handler reads the same channel. `last[r]` is history, the call executed last with what
it was judged by. Each check and each send is a step, because a send may wait for the
client, may be given up when the context is cancelled, and may take either branch of
the `select` when both are ready. A call may fail before its effect, or after it when
`CompleteToolInvocation` fails (`agent_runtime.go` 481-487). The framework (Eino) is external: it runs the calls
of a batch in order, collects interrupts, and resumes only the interrupted ones. The
model may answer with any batch over `ModelCalls`. Left out: the texts, the deltas of
an answer (one event stands for them) and tracing.

### The catalogue

Tables are functions from ids to rows. A service operation that reads, checks and
writes in separate statements is split there, with what it has read in `job[r]`;
one-statement operations are one step. A test run looks the current version up and is
filed in two statements. A configuration, a template, a `SKILL.md` are
members of small sets of what the validation accepts; a template that does not render
stays possible, because only the snapshot notices it. `lost` remembers the ids of
prompts a roll-back deleted. Left out: `runtime_config` of a conversation (the
trace id and the rendered first message, which only observability reads back).

### Requests, members and keys

A call is actor, handler, workspace, target, body and whether it carries a key. A
connection goes admitted, mutex, locked, handling, [authorised, written,] succeeded or
failed, releasing. `Authorise` and the guarded write are two steps, as `iam/service.go` reads the
authority before the transaction; the guarded write is one, as it holds the row lock of
the workspace. A server start looks for the administrator, registers it, promotes it,
and seeds workspace and owners in separate statements, possibly beside a serving server
or another one that starts: the loser of two registrations goes on with the account of
the winner. Each command to Redis may fail: the SETNX of the lock, in which case the
lock may have been set all the same and stays until it expires (`Orphan`); the read of
the cached response; the write of it; and the unlock, whose error `cache.go` 243
ignores. Storing the response and giving the locks back are separate steps, so a server
may die between them. A lock may run out under its owner (`lapses`), a cached response
may expire. `excuses` counts, per key, the answers that were lost this way after a
change. Left out: passwords and tokens (an actor is who the token names) and log-in; the
status 500 that Approve answers when the decision is stored and the enqueue fails
(`api/v1/approval.go` 104-108; the dispatcher of `ApprovalFlow` takes it from there).
`RequireGlobalAdmin` runs after the idempotency middleware (`router.go` 142-145); the
model refuses such a call on arrival, because a refused call changes nothing.

### Guard and audit

A text is its class: plain, with personal data, with an injection, with both, masked. `hits` and
`expires` are the Redis counter of one user per hook and whether it has a lifetime;
INCR and EXPIRE are two steps, each of which may fail, or succeed with its answer
lost; the code then lets the call pass. `admitted` counts what the counter itself let
through in the current window. A block is recorded by the rule and once more by the
engine, as in the code. An audit writer is six counters and a phase; a batch that fails
at one row keeps the rows before it and is counted as dropped as a whole, which `twice`
accounts for.

### Business tools

A handler that writes holds the mutex of the service and is one step; the inventory
tool reads balances and lanes in two. An executor may give up at any time; the request
is then in `stray`, which counts equal requests, and is handled later, or never. `Items`
has one quantity per order and SKU: `service.go` 208-213 compares each line of an order
with the stock by itself, which is the same as long as an order has one line per SKU, as
all orders of the seed do (the service has no operation that creates one). A record keeps its request; `idempotency`
maps a key to the number of the record. A restart seeds everything again (the service
keeps its state in memory). The look-ups of orders and shipments read only.

## 3. Runs

Passing runs:

| Run | Instance | Shows |
|---|---|---|
| `approval_faults` | 1 chat, 2 workers, 1 call, 2 attempts, crashes and stalls | `TurnsSerialised` (turns are committed in claim order, each once), `AtMostOnce`, `OnlyApprovedRuns`, `AnsweredOnce`, `CompletedIsAnswered`, `AwaitedIsResumable` (no committed turn waits for an approval without a checkpoint), and that the flow implements `GovernedCalls` (`GovernedSpec`) |
| `approval_live` | 1 chat, 1 worker, 1 call, crashes, fairness | `ApprovedIsDriven`, `TurnIsGivenBack` |
| `agent_run` | 1 run, 3 tools, 3 knowledge bases, 2 skills, batches of 2, 2 model calls, 1 retry, a channel of 1 | `ExecutedWasPermitted`, `SkillRestored` (an approved call runs under the skill it was first interrupted under), `RepliesAreTrue`, `RunEnds` |
| `kb_index` | 1 document, 2 contents, 2 models, 2 syncs, 1 worker, 2 edits, faults | `SearchIsSound`, `NoOrphanChunks`, `ReopenedIsUniform` |
| `kb_live` | 1 document, 2 models, 2 syncs, 1 worker, 1 edit, no database faults, fairness | `ReadyIsActivated`, `ProcessedIsIndexed`, `TaskIsNotLost` (a task of a current version is served, unless a worker of the other model discards it or asynq archives it) |
| `catalog` | 2 workspaces, 2 requests at a time, 3 in all, 1 tool, 2 each of prompts, skills, agents | `VersionsAreDense`, `ReleasedRuns` (a stored version can be run), `ModelVersionsDiffer`, `BindingsOwn`, `VersionsImmutable`, `TypeOK` |
| `api_requests` | 2 servers, 2 connections, 2 calls out of 9, 1 fault, 2 users | `KeyIsExclusive`, `KeyActsOnce`, `OwnerKept`, `RequestEnds` |
| `guard_audit` | 2 runs of a user, limit 1, the hook before a model call, once each, a channel of 1, batches of 2 | `WithinLimit`, `LimitLapses`, `RawTextIsStopped`, `EntriesAccounted`, `ClosedIsDrained`, `CloseReturns` |
| `business_tools` | 2 executors, 3 calls out of 14, 2 orders of which one was cancelled by its buyer, 2 warehouses, 1 restart | `StockMatchesRecords`, `KeyTakesEffectOnce`, `RefundedOnce` (once, only if its buyer asked, never more than was paid), `CancelledIsFinal`, `LanesHaveStock` |

Runs that find the code to differ from what the repository says of it (details
and quotations under `findings` in `PROJECT.json`):

| Run | Property | What happens |
|---|---|---|
| `reject_race` | `AwaitingHasCause` | a rejection that arrives before the chat has committed releases nothing; the conversation then waits for nobody |
| `batch_resume` | `ResumePersists` | resuming one of two suspended calls stores the checkpoint of the other a second time, which a unique index refuses |
| `tool_gate` | `PublishedWasTested` | a test run that ends after a newer version was created is filed under that version, which can then be published untested |

Behaviour of the models that is worth knowing and is not a run of its own. Five
properties are stated so that they except such a behaviour, and do not watch it:
`RepliesAreTrue`, `ReadyIsActivated`, `ProcessedIsIndexed`, `ReleasedRuns`, `LimitLapses`.
The hazards in `PROJECT.json` that name them say what is left out.

* *Retries behind the ledger.* An execution that fails after it opened the ledger is
  offered for retry, but the unique index of the ledger (`agent_runtime.go` 461-465)
  refuses every retry; the attempts are used up and the conversation stays in
  `awaiting_approval`. `ApprovedIsDriven` therefore counts the last attempt as an end.
* *A chat overtakes a resume.* When a resume dies and its turn lease runs out, the last
  disjunct of the claim (`agent/postgres_store.go` 218) lets a chat in although the
  approval is open.
* *Faults around activation and removal.* `ReadyIsActivated` and `ProcessedIsIndexed`
  hold without database faults (`kb_live`, and the theorems for every size). With
  `Faults = TRUE` both fail: a worker that dies between indexing the last document and
  activating leaves the knowledge base closed (`kb/ingest.go` 54, 165), and a sync that
  dies between deleting the chunks and the row leaves a processed document without
  chunks (`kb/service.go` 252-255), until somebody syncs again, respectively for good if
  the file returns unchanged.
* *A sync that closes the door behind it.* Without any fault of the database a sync can
  remove the last document that was not processed and then return with an error, because
  a file it had listed has vanished (`kb/service.go` 276); or it can reach its
  `ActivateKBIfReady` with the model of another build. Everything is processed then and
  the knowledge base stays closed until the next sync that completes. `ReadyIsActivated`
  therefore speaks of the time when every sync has returned without an error and with
  the present model (`Settled`). Two documents are needed to see this; it came up as the
  step of the proof of `ReadyIsOpen` that did not go through.
* *A task in the wrong hands.* While builds with two embedding models run, a worker may
  take a task of the other model. It finds the version not current for it and returns nil
  (`kb/ingest.go` 54, 177); asynq drops the task, and the document stays pending until
  the next sync. The same is left behind when asynq archives a task whose 25 retries have
  failed: the document stays in error. `TaskIsNotLost` counts both as an end.
* *A lost turn answered as completed.* When the heartbeat cancels a run, its error event
  may be dropped by the `select` of `send`; the channel is closed without a terminal
  event and `Chat` answers "completed". `RepliesAreTrue` is stated for runs that keep
  their turn.
* *A lost EXPIRE.* `LimitLapses` excepts counters whose EXPIRE did not happen; such a
  counter stays until an operator deletes it.
* *A pinned prompt version deleted by a roll-back.* `ReleasedRuns` excepts it.
* *Reused keys.* The business service answers a key used with different content with the
  first answer, and what was reserved at a warehouse an order has left is never released;
  `StockMatchesRecords` says so: `reserved` is the sum over all changes.

Bounds. Two workers and two attempts are enough for one worker to lose its lease
while another executes the same call, and for the loser to come back; two calls
for a batch of which one is decided first (`batch_resume`, `agent_run`; for the flow of
any batch size the proof of `AwaitedCanResume` stands). In the code there are five
attempts (`MaxAttempts`) and a channel of 16 events (`EventCap`): one slot makes
a goroutine wait sooner. A batch of two is the smallest in which one call loads a skill
and the other is judged before and after, two model calls the fewest in which a resumed
run goes on. For the knowledge base two models and two syncs give a re-index that is
overtaken by another, two edits a file that changes and changes back or disappears. Three
requests in the catalogue let two compete for a number while a third is answered before.
Two requests with one fault are the fewest for a key to be repeated while or after
its first call is disturbed. A limit of one and a channel of one entry are exceeded by
two runs. Three business calls: a call, its retry, and one that competes with both.
Names: `MaxSteps`, `MaxRetries`, `Limit`, `Capacity`, `BatchSize` are parameters of
the code; `MaxBatch`, `MaxEdits`, `MaxRequests`, `MaxArrivals`, `MaxFaults`, `MaxHooks`,
`MaxCalls`, `MaxRestarts` and the finite sets limit how much arrives, not what it does.
`CHECK_DEADLOCK FALSE` is set where a finished instance has nothing left to do (all
requests answered, all runs ended, all syncs done). Symmetry is used only in runs without
liveness properties.

Fairness. *Approval flow*: runs go on once started (calls to models and tools have
time-outs); asynq delivers what is queued, and a task that is delivered again and
again is not always picked up by a worker that dies; the dispatcher runs
periodically and its enqueue succeeds if tried again and again; a lease nobody
renews runs out. Users need not send another message and approvers need not decide.
*Agent run*: the goroutine is scheduled, calls of models and tools time out, and a
connected client reads what it is sent or leaves; once it has left nobody need read.
(The server sets no write time-out, `cmd/server/main.go` 150: a client that stays
connected without reading is outside this assumption.)
*Knowledge base*: workers go on; asynq delivers what is queued, also if a lock or another
task gets in between again and again; a task does not fail for ever, but is embedded or
archived in the end. Nothing is assumed of the embedding service, and no sync is assumed
to happen.
*Requests*: goroutines run, a starting server gets on, and Redis drops a lock nobody
renews; nothing is assumed of clients or of faults.
*Guard*: the writer's loop runs until it returns, callers get on, Redis drops
a counter that has a lifetime.

## 4. Proofs

All theorems hold for every set of chats, workers, calls, documents, models, requests
and so on, and every bound. The assumptions are the named `ASSUME`s of the modules:
at least one attempt, step and slot; chats, workers and calls are different things;
`NoFile`, `None`, `NoSkill` and the like are not members of what they are absent from;
users, callers and connections are finite sets; the seed of the business service has its
type. TLC evaluates them in the runs.

* **Turns** (`TurnsAreSerialised`). The order of tokens in `history` is not
  inductive: one also needs that a turn in progress holds the newest token and
  that every committed turn has an older one (`TokensFresh`).
* **Refinement of the components** (`FlowRefinesTurns`). Every step of
  `ApprovalFlow` is a step of `ConversationTurns` (`NextTurns`) and of
  `ApprovalStore` (`NextApprovals`), so what is proved of the row holds of the
  flow (`FlowIsSerialised`) without looking at the runs again.
* **Effects** (`EffectAtMostOnce`, `EffectOnlyApproved`). `LedgerInv`: a resume
  past its begin works on an approved call; behind the ledger row there is at most
  one worker per call; before the invocation the effect has not happened, after it
  it has happened once. The unique index of the ledger is what makes this inductive;
  the leases are not used, and that is the point, because they may all have run out.
* **Answers** (`OneAnswer`, `CompletedMeansAnswered`). `AnswerInv`: a resume
  that can still commit has not committed yet, one that completes its execution
  has; with `LedgerInv` no second run can commit for the same call.
* **Waiting** (`AwaitedCanResume`). `WaitInv`: from the interrupt to the commit the
  calls a run stops at have their approval and, once taken off `unsaved`, their
  checkpoint.
* **Promise** (`FlowImplementsGoverned`). With these invariants each step maps to a
  step of `GovernedCalls` or to a stutter.
* **Runs** (`OnlyPermittedCallsRun`, `ApprovedCallKeepsSkill`, `HandlerRepliesTrue`).
  The verdict on a batch is forgotten at a resume, so it cannot be read off the state:
  the invariant `GoodRun` says that every interrupt, held or stored, names a call of the
  batch that was judged and permitted, with its siblings, when the model asked. For the
  replies `GoodStream` relates what the handler has read, what is still in the channel
  and what the goroutine will still send (`Pending`) to what was committed.
* **Knowledge base** (`KbTypeCorrect`, `SearchSound`, `NoOrphans`,
  `ReopenedUniform`, `ProcessedHasChunks`, `ReadyIsOpen`). `IndexInv`: one row per document, one task per worker, a
  worker past its check has the model of its task (`OwnModel`), the label of a
  chunk is the model that embedded it (`LabelIsSpace`), the chunks of a processed
  document are of the version of its row (`ProcessedMatches`), no chunks without a
  row. `OwnModel` is what the comparison with the process's own embedder in
  `currentDocumentVersion` establishes. `ReopenedUniform` follows because at the
  moment `ActivateKBIfReady` succeeds every row is processed in the new model. Two more
  invariants say who is about to repair what looks broken: a processed document without
  chunks is the one document some sync is deleting (`BeingRemoved`), and if the knowledge
  base is closed with everything processed, some worker stands before its
  `ActivateKBIfReady` with a task of the present model, or some sync is running
  (`WillActivate`). The two theorems assume `~Faults`, as the run does.
* **Catalogue** (`TypeCorrect`, `VersionsNeverChange`, `DenselyNumbered`,
  `NeighboursDiffer`, `BindingsStayOwn`, `ReleasedAlwaysRuns`). `TypeInv` adds that the
  rows a request under way relies on exist. `VersionsAreDense` is not inductive, since a
  number is read in one statement and inserted in another: the invariants of each table
  say what an open request knows of it, that its number is at most one above the numbers
  stored, and the insert refuses a number taken meanwhile. Prompts differ, because a
  roll-back may take versions away again. For `ReleasedRuns` the invariant `RunsInv`
  carries what the validation has seen (published versions, known tools, knowledge bases,
  a template that renders) from the check over the insert to the stored version, and the
  "keeps" lemmas show that no other request takes any of it back.
* **Members** (`StatementsKeepOwner`, `RequestsImplementMembership`,
  `WorkspaceKeepsOwner`). Every step of `ApiRequests` is a step of `MembershipSpec` or
  leaves the tables alone; that these statements keep an owner is shown once, with the
  authority as a free argument, so that it may be as stale as it likes.
* **Keys** (`KeyAdmitsOne`, `RepeatedCallActsOnce`). `KeysInv`: who holds a lock is
  inside (`HeldInside`), who is inside holds the lock unless it ran out (`InsideHolds`),
  and `Balanced`: changes made, plus requests that can still act (`Free`), plus one if
  another can still get to its handler (`Chance`), are at most one more than the excuses
  and lapses. Counting what can still happen is the strengthening needed.
* **Guard and audit** (`GuardImplementsAuditWriter`, `GuardAccountsEntries`,
  `GuardClosesDrained`, `GuardKeepsLimit`, `GuardStopsRawText`). The two facts about the
  writer are proved of `AuditSpec` (`AuditWriterIsSound`) and carried over by refinement.
  For the limit `Shared`: the calls let through and the ones that hold a count they will
  be let through by (`Claims`) are together at most `hits` and at most `Limit`; and
  `WindowInv`: only the run that started a window is about to bound it.
* **Business tools** (`ShopKeyTakesEffectOnce`, `ShopRefundsOnce`, `ShopLanesHaveStock`,
  `ShopCancelledIsFinal`, `ShopStockMatchesRecords`). The key map and the records index
  each other; an order is cancelled exactly when a refund of it is recorded; available
  stock only falls between two restarts, and a call does not survive one. The stock is
  compared with sums over the records: that the recursive function behind `Total` exists,
  is unique and grows by the last element (`SumsExist`, `SumsAgree`, `TotalExtends`) is an
  induction, made with the least element of a set of natural numbers (`LeastNat`, from
  the well-foundedness of `<` in the library).

Type correctness is a theorem for every module with proofs and is not checked a second
time by TLC, but for `Catalog`, whose types say that no request writes to a missing row.

Every invariant and every action property of the passing runs is also a theorem. Only
model-checked are the liveness properties (`ApprovedIsDriven`, `TurnIsGivenBack`,
`RunEnds`, `TaskIsNotLost`, `RequestEnds`, `LimitLapses`, `CloseReturns`: TLAPS does not
reason about fairness here), and what the runs that end in a violation are about.

## 5. Plan

Done: everything in section 2. What a later extension could add, in this order:

1. `AgentRun` under `ApprovalFlow`: a refinement that maps a run to the steps chat and
   resume take there;
2. the knowledge base without a queue, which ingests inside the request.

## 6. Not modelled

* Text chunking, retrieval ranking and tokenisation: pure text processing and
  floating-point scores; the regular expressions of the input guards for the same reason.
* The in-memory stores (`memory_store.go`, `memory_store_m2.go`, ...): doubles for unit
  tests, while server and worker run on PostgreSQL (`platform.go` 96).
* Password hashing, tokens and log-in; encryption of credentials (modelled as the flag
  that it has happened).
* The wire formats of model providers, connectors and executors other than REST.
* The `kb_ingest_jobs` log, connector administration and `runtime_config`, which nothing
  the models are about reads back.
* Routing tables, OpenAPI text (`docs.go`), the Go client, configuration, telemetry,
  migrations as such, evaluations and the front end.
