---------------------------- MODULE ApprovalFlow ----------------------------
(***************************************************************************)
(* Human-in-the-loop execution: Engine.ChatStream in the API server,       *)
(* Engine.Resume in the asynq worker, the approve/reject handlers and the  *)
(* dispatcher that re-enqueues approved work, over the two leases and the  *)
(* ledger of ConversationTurns and ApprovalStore.                          *)
(*                                                                         *)
(* A run is split at every statement it sends to the database and around   *)
(* the external tool call; between two of its steps any other process may  *)
(* move and the run itself may crash, stall past its leases or fail.       *)
(*                                                                         *)
(* A chat goes  start -> prepare -> model -> [tools -> persist ->] commit  *)
(* a resume     idle -> begin -> claim -> load -> ledger -> invoke ->      *)
(*              record -> model -> [tools -> persist ->] commit -> complete*)
(* and both leave early through "release", a resume then through "fail".   *)
(***************************************************************************)
EXTENDS ApprovalStore, FiniteSets

CONSTANTS
    Chats,          \* chat requests: each runs ChatStream once
    Workers,        \* asynq worker slots: each runs Resume again and again
    NoCall,         \* a run that is not resuming a call
    MaxBatch,       \* bound: sensitive calls in one model answer
    Crashes,        \* may processes die?
    Stalls          \* may a live process miss its lease renewals?

ASSUME ProcsAssumption ==
    /\ Procs = Chats \cup Workers
    /\ Chats \cap Workers = {}
    /\ NoCall \notin Calls
    /\ Procs \cap Calls = {}
    /\ MaxBatch \in Nat
    /\ Crashes \in BOOLEAN /\ Stalls \in BOOLEAN

VARIABLES
    pc,             \* pc[p]: the next step of run p
    task,           \* task[w]: the approval the worker resumes
    todo,           \* todo[p]: calls of the model's batch not yet raised for approval
    suspended,      \* suspended[p]: calls interrupted in this run
    unsaved,        \* unsaved[p]: interrupted calls whose checkpoint is still to be written
    nextStatus,     \* nextStatus[p]: status the run commits or releases the conversation with
    effects,        \* effects[a]: how often the tool behind call a was invoked
    queue,          \* queue[a]: the asynq task approval-resume-<a>
    unsent,         \* approvals whose approve handler has still to enqueue the task
    listed          \* approvals the current dispatch found ready and has still to enqueue

runVars == <<pc, task, todo, suspended, unsaved, nextStatus>>
queueVars == <<queue, unsent, listed>>
vars == <<turnVars, approvalVars, runVars, effects, queueVars>>

Pcs == {"start", "prepare", "model", "tools", "persist", "commit", "release", "done",
        "idle", "begin", "claim", "load", "ledger", "invoke", "record", "complete", "fail"}

RunsTypeOK ==
    /\ pc \in [Procs -> Pcs]
    /\ task \in [Procs -> Calls \cup {NoCall}]
    /\ todo \in [Procs -> SUBSET Calls]
    /\ suspended \in [Procs -> SUBSET Calls]
    /\ unsaved \in [Procs -> SUBSET Calls]
    /\ nextStatus \in [Procs -> Statuses]
    /\ effects \in [Calls -> Nat]
    /\ queue \in [Calls -> {"none", "queued", "active"}]
    /\ unsent \in SUBSET Calls
    /\ listed \in SUBSET Calls

TypeOK == TurnsTypeOK /\ ApprovalsTypeOK /\ RunsTypeOK

Init ==
    /\ TurnsInit
    /\ ApprovalsInit
    /\ pc = [p \in Procs |-> IF p \in Chats THEN "start" ELSE "idle"]
    /\ task = [p \in Procs |-> NoCall]
    /\ todo = [p \in Procs |-> {}]
    /\ suspended = [p \in Procs |-> {}]
    /\ unsaved = [p \in Procs |-> {}]
    /\ nextStatus = [p \in Procs |-> "active"]
    /\ effects = [a \in Calls |-> 0]
    /\ queue = [a \in Calls |-> "none"]
    /\ unsent = {}
    /\ listed = {}

Goto(p, label) == pc' = [pc EXCEPT ![p] = label]

-----------------------------------------------------------------------------
(* ChatStream up to the model, and the part both kinds of run share *)

\* The claim is refused when no row matches; the database may also fail.
ChatClaim(p) ==
    /\ pc[p] = "start"
    /\ \/ ClaimConversationTurn(p, FALSE) /\ Goto(p, "prepare")
       \/ Goto(p, "done") /\ UNCHANGED turnVars
    /\ UNCHANGED <<approvalVars, task, todo, suspended, unsaved, nextStatus,
                   effects, queueVars>>

\* buildTools, history, prompt rendering, trace id, input guard: any of them
\* may fail, and every failure gives the turn back as "active".
ChatPrepare(p) ==
    /\ pc[p] = "prepare"
    /\ Goto(p, "model") \/ Goto(p, "release")
    /\ UNCHANGED <<turnVars, approvalVars, task, todo, suspended, unsaved, nextStatus,
                   effects, queueVars>>

\* The model produced its final answer.
ModelAnswers(p) ==
    /\ pc[p] = "model"
    /\ Goto(p, "commit")
    /\ nextStatus' = [nextStatus EXCEPT ![p] = "active"]
    /\ UNCHANGED <<turnVars, approvalVars, task, todo, suspended, unsaved, effects, queueVars>>

\* Tool call IDs are new in the conversation.
FreshCalls == {a \in Calls : apprStatus[a] = "none" /\ \A p \in Procs : a \notin todo[p]}

\* The model answered with a batch of sensitive tool calls.
ModelCallsTools(p) ==
    /\ pc[p] = "model"
    /\ \E batch \in SUBSET FreshCalls :
         /\ batch # {} /\ Cardinality(batch) <= MaxBatch
         /\ todo' = [todo EXCEPT ![p] = batch]
    /\ suspended' = [suspended EXCEPT ![p] = {}]
    /\ Goto(p, "tools")
    /\ UNCHANGED <<turnVars, approvalVars, task, unsaved, nextStatus, effects, queueVars>>

\* interruptForApproval of a call that was not interrupted before.
RaiseApproval(p, a) ==
    /\ pc[p] = "tools"
    /\ a \in todo[p]
    /\ CreatePending(a)
    /\ todo' = [todo EXCEPT ![p] = @ \ {a}]
    /\ suspended' = [suspended EXCEPT ![p] = @ \cup {a}]
    /\ UNCHANGED <<turnVars, pc, task, unsaved, nextStatus, effects, queueVars>>

\* The framework returns the interrupts of the whole batch.
BatchInterrupted(p) ==
    /\ pc[p] = "tools"
    /\ todo[p] = {}
    /\ unsaved' = [unsaved EXCEPT ![p] = suspended[p]]
    /\ Goto(p, "persist")
    /\ UNCHANGED <<turnVars, approvalVars, task, todo, suspended, nextStatus, effects, queueVars>>

\* persistApprovalInterrupts, one insert at a time; the first refused one ends the run.
PersistInterrupt(p, a) ==
    /\ pc[p] = "persist"
    /\ a \in unsaved[p]
    /\ \/ /\ SaveCheckpoint(a, suspended[p])
          /\ unsaved' = [unsaved EXCEPT ![p] = @ \ {a}]
          /\ UNCHANGED pc
       \/ /\ checkpoint[a] # {}
          /\ Goto(p, "release")
          /\ UNCHANGED <<approvalVars, unsaved>>
    /\ UNCHANGED <<turnVars, task, todo, suspended, nextStatus, effects, queueVars>>

\* Mutant of AllPersisted: the turn is committed before its checkpoints are written.
CommitUnpersisted(p) ==
    /\ pc[p] = "persist"
    /\ nextStatus' = [nextStatus EXCEPT ![p] = "awaiting_approval"]
    /\ Goto(p, "commit")
    /\ UNCHANGED <<turnVars, approvalVars, task, todo, suspended, unsaved, effects, queueVars>>

AllPersisted(p) ==
    /\ pc[p] = "persist"
    /\ unsaved[p] = {}
    /\ nextStatus' = [nextStatus EXCEPT ![p] = "awaiting_approval"]
    /\ Goto(p, "commit")
    /\ UNCHANGED <<turnVars, approvalVars, task, todo, suspended, unsaved, effects, queueVars>>

\* A model, guard, tool-framework or context error, or an empty final answer.
RunFails(p) ==
    /\ pc[p] \in {"model", "tools", "persist"}
    /\ Goto(p, "release")
    /\ UNCHANGED <<turnVars, approvalVars, task, todo, suspended, unsaved, nextStatus,
                   effects, queueVars>>

\* Clearing a run's local variables when it ends or dies.
Forget(p) ==
    /\ task' = [task EXCEPT ![p] = NoCall]
    /\ todo' = [todo EXCEPT ![p] = {}]
    /\ suspended' = [suspended EXCEPT ![p] = {}]
    /\ unsaved' = [unsaved EXCEPT ![p] = {}]
    /\ nextStatus' = [nextStatus EXCEPT ![p] = "active"]

\* What a run commits: a chat the user's message (and the answer), a resume the answer.
Roles(p) ==
    IF nextStatus[p] = "active"
    THEN IF p \in Chats THEN <<"user", "assistant">> ELSE <<"assistant">>
    ELSE IF p \in Chats THEN <<"user">> ELSE <<>>
Author(p) == IF p \in Chats THEN p ELSE task[p]
Waits(p) == IF nextStatus[p] = "active" THEN {} ELSE suspended[p]

\* Mutant of Commit: the error of a refused commit is ignored.
CommitIgnoringErrors(p) ==
    /\ pc[p] = "commit"
    /\ \/ CommitConversationTurn(p, Author(p), Roles(p), Waits(p), nextStatus[p])
       \/ ~OwnsTurn(p) /\ UNCHANGED turnVars
    /\ Goto(p, IF p \in Chats THEN "done" ELSE "complete")
    /\ UNCHANGED <<approvalVars, task, todo, suspended, unsaved, nextStatus, effects, queueVars>>

\* commitConversationTurn.  The commit may also fail, or succeed while its
\* acknowledgement is lost; the run then takes its error path.
Commit(p) ==
    /\ pc[p] = "commit"
    /\ \/ /\ CommitConversationTurn(p, Author(p), Roles(p), Waits(p), nextStatus[p])
          /\ \/ Goto(p, IF p \in Chats THEN "done" ELSE "complete")
             \/ Goto(p, "release")
       \/ Goto(p, "release") /\ UNCHANGED turnVars
    /\ UNCHANGED <<approvalVars, task, todo, suspended, unsaved, nextStatus, effects, queueVars>>

\* The deferred release of ChatStream: releaseStatus is "awaiting_approval"
\* only once the checkpoints are stored.
ChatRelease(p) ==
    /\ p \in Chats
    /\ pc[p] = "release"
    /\ ReleaseConversationTurn(p, nextStatus[p])
    /\ Goto(p, "done")
    /\ Forget(p)
    /\ UNCHANGED <<approvalVars, effects, queueVars>>

-----------------------------------------------------------------------------
(* Resume in the worker *)

Deliver(w, a) ==
    /\ pc[w] = "idle"
    /\ queue[a] = "queued"
    /\ queue' = [queue EXCEPT ![a] = "active"]
    /\ task' = [task EXCEPT ![w] = a]
    /\ Goto(w, "begin")
    /\ UNCHANGED <<turnVars, approvalVars, todo, suspended, unsaved, nextStatus, effects,
                   unsent, listed>>

\* The handler returns: nil removes the task, an error puts it back for a retry.
Acknowledge(a, err) ==
    /\ queue' = [queue EXCEPT ![a] = IF @ # "active" THEN @ ELSE IF err THEN "queued" ELSE "none"]
    /\ UNCHANGED <<unsent, listed>>

ResumeBegin(w) ==
    /\ pc[w] = "begin"
    /\ \/ /\ BeginExecution(w, task[w])
          /\ Goto(w, "claim")
          /\ UNCHANGED <<task, todo, suspended, unsaved, nextStatus, queueVars>>
       \/ /\ ~Ready(task[w])     \* ErrExecutionUnavailable: nothing to do, not an error
          /\ Acknowledge(task[w], FALSE)
          /\ Goto(w, "idle")
          /\ Forget(w)
          /\ UNCHANGED approvalVars
    /\ UNCHANGED <<turnVars, effects>>

\* The database does not answer: an error like any other, and no attempt is used.
BeginFails(w) ==
    /\ pc[w] = "begin"
    /\ Acknowledge(task[w], TRUE)
    /\ Goto(w, "idle")
    /\ Forget(w)
    /\ UNCHANGED <<turnVars, approvalVars, effects>>

ResumeClaim(w) ==
    /\ pc[w] = "claim"
    /\ \/ ClaimConversationTurn(w, TRUE) /\ Goto(w, "load")
       \/ Goto(w, "fail") /\ UNCHANGED turnVars
    /\ UNCHANGED <<approvalVars, task, todo, suspended, unsaved, nextStatus, effects, queueVars>>

\* Checkpoint, conversation, snapshot and tools are loaded; any of them may fail.
ResumeLoad(w) ==
    /\ pc[w] = "load"
    /\ \/ HasCheckpoint(task[w]) /\ Goto(w, "ledger")
       \/ Goto(w, "release")
    /\ UNCHANGED <<turnVars, approvalVars, task, todo, suspended, unsaved, nextStatus,
                   effects, queueVars>>

\* executeGovernedTool, first part: no effect without a new ledger row.
LedgerOpen(w) ==
    /\ pc[w] = "ledger"
    /\ \/ BeginToolInvocation(task[w]) /\ (Goto(w, "invoke") \/ Goto(w, "release"))
       \/ UNCHANGED approvalVars /\ Goto(w, "release")
    /\ UNCHANGED <<turnVars, task, todo, suspended, unsaved, nextStatus, effects, queueVars>>

\* The external side effect.  Its own failure becomes the tool's result.
InvokeTool(w) ==
    /\ pc[w] = "invoke"
    /\ effects' = [effects EXCEPT ![task[w]] = @ + 1]
    /\ Goto(w, "record")
    /\ UNCHANGED <<turnVars, approvalVars, task, todo, suspended, unsaved, nextStatus, queueVars>>

\* executeGovernedTool, last part, and the end of the tools node: the calls
\* suspended with this one are not the target and interrupt again.
LedgerClose(w) ==
    /\ pc[w] = "record"
    /\ LET rest == checkpoint[task[w]] \ {task[w]} IN
       \/ /\ CompleteToolInvocation(task[w])
          /\ suspended' = [suspended EXCEPT ![w] = rest]
          /\ unsaved' = [unsaved EXCEPT ![w] = rest]
          /\ Goto(w, IF rest = {} THEN "model" ELSE "persist")
       \/ Goto(w, "release") /\ UNCHANGED <<approvalVars, suspended, unsaved>>
    /\ UNCHANGED <<turnVars, task, todo, nextStatus, effects, queueVars>>

ResumeRelease(w) ==
    /\ w \in Workers
    /\ pc[w] = "release"
    /\ ReleaseConversationTurn(w, "awaiting_approval")
    /\ Goto(w, "fail")
    /\ UNCHANGED <<approvalVars, task, todo, suspended, unsaved, nextStatus, effects, queueVars>>

\* The turn was committed, but its heartbeat found the lease already given
\* back (or had failed before): with a nil result that error replaces it.
LateHeartbeat(w) ==
    /\ pc[w] = "complete"
    /\ nextStatus[w] = "active"
    /\ Goto(w, "fail")
    /\ UNCHANGED <<turnVars, approvalVars, task, todo, suspended, unsaved, nextStatus,
                   effects, queueVars>>

\* Back to the pool: the handler has returned.
WorkerReturns(w, err) ==
    /\ Acknowledge(task[w], err)
    /\ DropTurn(w)
    /\ Goto(w, "idle")
    /\ Forget(w)
    /\ UNCHANGED effects

\* The deferred CompleteExecution: done, done with its acknowledgement lost,
\* failed, or refused because the execution is another run's by now.  A run that
\* stopped at a new approval returns errAwaitApproval, which the queue retries
\* like any error; a refusal (of the renewal before it, too) counts as success
\* when it is all the worker has to report.
ResumeComplete(w) ==
    /\ pc[w] = "complete"
    /\ \/ /\ EndExecution(w, task[w], "completed")
          /\ WorkerReturns(w, nextStatus[w] # "active") \/ WorkerReturns(w, TRUE)
       \/ DropExecution(w) /\ WorkerReturns(w, TRUE)
       \/ /\ ~OwnsExecution(w, task[w]) /\ nextStatus[w] = "active"
          /\ DropExecution(w) /\ WorkerReturns(w, FALSE)

\* The deferred FailExecution, whose own error is ignored.
ResumeFail(w) ==
    /\ pc[w] = "fail"
    /\ EndExecution(w, task[w], "failed") \/ DropExecution(w)
    /\ WorkerReturns(w, TRUE)

-----------------------------------------------------------------------------
(* Approval API, queue and dispatcher *)

\* resolveKnown for an approval: the decision is stored, then the task is sent.
Approve(a) ==
    /\ ResolvePending(a, "approved")
    /\ unsent' = unsent \cup {a}
    /\ UNCHANGED <<runVars, effects, queue, listed>>

Reject(a) ==
    /\ ResolvePending(a, "rejected")
    /\ UNCHANGED <<runVars, effects, queueVars>>

\* asynq refuses a second task with the ID of one it still holds; both callers
\* ignore ErrTaskIDConflict.
Enqueue(a) == queue' = [queue EXCEPT ![a] = IF @ = "none" THEN "queued" ELSE @]

ApproveEnqueue(a) ==
    /\ a \in unsent
    /\ unsent' = unsent \ {a}
    /\ Enqueue(a) \/ UNCHANGED queue    \* or the queue is down, or the server dies
    /\ UNCHANGED <<turnVars, approvalVars, runVars, effects, listed>>

DispatchList ==
    /\ listed = {}
    /\ listed' = {a \in Calls : Ready(a)}
    /\ UNCHANGED <<turnVars, approvalVars, runVars, effects, queue, unsent>>

DispatchEnqueue(a) ==
    /\ a \in listed
    /\ Enqueue(a)
    /\ listed' = listed \ {a}
    /\ UNCHANGED <<turnVars, approvalVars, runVars, effects, unsent>>

\* An enqueue error ends the dispatch.
DispatchAborts ==
    /\ listed # {}
    /\ listed' = {}
    /\ UNCHANGED <<turnVars, approvalVars, runVars, effects, queue, unsent>>

\* asynq's recoverer hands out the task of a worker it no longer hears from.
Redeliver(a) ==
    /\ Stalls
    /\ queue[a] = "active"
    /\ queue' = [queue EXCEPT ![a] = "queued"]
    /\ UNCHANGED <<turnVars, approvalVars, runVars, effects, unsent, listed>>

-----------------------------------------------------------------------------
(* Heartbeats, leases running out, crashes *)

\* Mutant of Live: the heartbeat of a run is not stopped when the run ends.
LiveForEver(p) == pc[p] # "start"

\* The run has begun and not ended.
Running(p) == pc[p] \notin {"start", "done", "idle"}

\* The run's heartbeats are being sent: a chat's begin with its goroutine.
Live(p) == Running(p) /\ pc[p] # "prepare"

HeartbeatTurn(p) ==
    /\ Live(p)
    /\ turnExpired
    /\ RenewConversationTurn(p)
    /\ UNCHANGED <<approvalVars, runVars, effects, queueVars>>

HeartbeatExecution(w) ==
    /\ Live(w)
    /\ task[w] # NoCall
    /\ execExpired[task[w]]
    /\ RenewExecution(w, task[w])
    /\ UNCHANGED <<turnVars, runVars, effects, queueVars>>

\* A lease runs out when nobody alive renews it, or when its holder stalls.
TurnExpires ==
    /\ Stalls \/ \A p \in Procs : Live(p) => ~OwnsTurn(p)
    /\ TurnLeaseRunsOut
    /\ UNCHANGED <<approvalVars, runVars, effects, queueVars>>

ExecutionExpires(a) ==
    /\ Stalls \/ \A p \in Procs : Live(p) /\ task[p] = a => ~OwnsExecution(p, a)
    /\ ExecutionLeaseRunsOut(a)
    /\ UNCHANGED <<turnVars, runVars, effects, queueVars>>

\* The server process dies; nothing of the run survives but its rows.
ChatCrash(p) ==
    /\ Crashes
    /\ p \in Chats
    /\ Running(p)
    /\ Goto(p, "done")
    /\ DropTurn(p)
    /\ Forget(p)
    /\ UNCHANGED <<approvalVars, effects, queueVars>>

\* The worker process dies; asynq hands its task out again.
WorkerCrash(w) ==
    /\ Crashes
    /\ w \in Workers
    /\ Running(w)
    /\ DropExecution(w)
    /\ WorkerReturns(w, TRUE)

-----------------------------------------------------------------------------
ChatStep(p) == ChatClaim(p) \/ ChatPrepare(p) \/ ChatRelease(p)

RunStep(p) ==
    \/ ModelAnswers(p)
    \/ ModelCallsTools(p)
    \/ \E a \in Calls : RaiseApproval(p, a) \/ PersistInterrupt(p, a)
    \/ BatchInterrupted(p)
    \/ AllPersisted(p)
    \/ RunFails(p)
    \/ Commit(p)

ResumeStep(w) ==
    \/ ResumeBegin(w)
    \/ BeginFails(w)
    \/ ResumeClaim(w)
    \/ ResumeLoad(w)
    \/ LedgerOpen(w)
    \/ InvokeTool(w)
    \/ LedgerClose(w)
    \/ ResumeRelease(w)
    \/ LateHeartbeat(w)
    \/ ResumeComplete(w)
    \/ ResumeFail(w)

ApiStep == \E a \in Calls : Approve(a) \/ Reject(a) \/ ApproveEnqueue(a)

QueueStep ==
    \/ \E w \in Workers, a \in Calls : Deliver(w, a)
    \/ DispatchList
    \/ \E a \in Calls : DispatchEnqueue(a) \/ Redeliver(a)
    \/ DispatchAborts

LeaseStep ==
    \/ \E p \in Procs : HeartbeatTurn(p)
    \/ \E w \in Workers : HeartbeatExecution(w)
    \/ TurnExpires
    \/ \E a \in Calls : ExecutionExpires(a)

CrashStep == \E p \in Procs : ChatCrash(p) \/ WorkerCrash(p)

Next ==
    \/ \E p \in Chats : ChatStep(p)
    \/ \E p \in Procs : RunStep(p)
    \/ \E w \in Workers : ResumeStep(w)
    \/ ApiStep
    \/ QueueStep
    \/ LeaseStep
    \/ CrashStep

Spec == Init /\ [][Next]_vars

\* A user may stop asking and an approver may never decide; everything the
\* program started goes on.  A run ends because model and tool calls have
\* timeouts; asynq delivers queued tasks in turn; the scheduler dispatches
\* every 15 s, and a queue outage does not last forever; a lease nobody
\* renews runs out; a worker does not die every single time it picks a task up.
Fairness ==
    /\ \A p \in Chats : WF_vars(pc[p] # "start" /\ (ChatStep(p) \/ RunStep(p)))
    /\ \A w \in Workers : WF_vars(ResumeStep(w) \/ RunStep(w))
    /\ \A w \in Workers : SF_vars(ResumeBegin(w))
    /\ \A a \in Calls : SF_vars(\E w \in Workers : Deliver(w, a))
    /\ WF_vars(DispatchList)
    /\ \A a \in Calls : SF_vars(DispatchEnqueue(a))
    /\ WF_vars(TurnExpires)
    /\ \A a \in Calls : WF_vars(ExecutionExpires(a))

FairSpec == Spec /\ Fairness

-----------------------------------------------------------------------------
(* Properties *)

\* A sensitive tool call takes effect at most once, whatever crashes, expired
\* leases, redelivered tasks and resumed checkpoints do (tool ledger,
\* executeGovernedTool).
AtMostOnce == \A a \in Calls : effects[a] <= 1

\* A tool call that took effect was approved; a rejected or undecided one
\* never runs (BeginApprovalExecution, CheckpointForApproval).
OnlyApprovedRuns == \A a \in Calls : effects[a] > 0 => apprStatus[a] = "approved"

\* At most one resumed turn is ever committed for an approval, although
\* several workers may have resumed it.
AnsweredOnce ==
    \A i, j \in DOMAIN history : history[i].by = history[j].by => i = j

\* An approval is marked completed only after its tool took effect and the
\* resumed turn reached the conversation (order of the deferred calls in Resume).
CompletedIsAnswered ==
    \A a \in Calls : execStatus[a] = "completed" =>
        /\ effects[a] = 1
        /\ \E i \in DOMAIN history : history[i].by = a

\* Every approval a committed turn waits for can be decided and has the
\* checkpoint a resume needs (persistApprovalInterrupts runs before the commit).
AwaitedIsResumable ==
    \A i \in DOMAIN history : \A a \in history[i].waits :
        apprStatus[a] # "none" /\ checkpoint[a] # {}

\* The approval flow implements the promise of GovernedCalls.
Governed == INSTANCE GovernedCalls WITH
    decision <- apprStatus,
    effect <- effects,
    completed <- [a \in Calls |-> execStatus[a] = "completed"]

GovernedSpec == Governed!GovSpec

\* An approved call is driven until it is completed or its attempts are used
\* up, even if the enqueue after the decision is lost or workers die
\* (dispatcher in cmd/worker/main.go).
ApprovedIsDriven ==
    \A a \in Calls : apprStatus[a] = "approved" ~>
        (execStatus[a] = "completed" \/ execAttempts[a] = MaxAttempts)

\* No run keeps a conversation for ever: a running turn is given back, or its
\* lease runs out and another run can claim it.
TurnIsGivenBack == convStatus = "running" ~> (convStatus # "running" \/ turnExpired)

\* A conversation waits only for something: an undecided approval or an
\* approved one that is not completed (the condition migration 000025 uses to
\* set the status).
AwaitingHasCause ==
    convStatus = "awaiting_approval" =>
        \E a \in Calls : \/ apprStatus[a] = "pending"
                         \/ apprStatus[a] = "approved" /\ execStatus[a] # "completed"

\* A resumed run can store the interrupts it stops at
\* (persistApprovalInterrupts after resumeWithADK).
ResumePersists ==
    \A w \in Workers : pc[w] = "persist" => \A a \in unsaved[w] : checkpoint[a] = {}
=============================================================================
