--------------------------- MODULE ApprovalStore ---------------------------
(***************************************************************************)
(* Tables approvals, checkpoints and tool_invocations: the decision on a   *)
(* sensitive tool call, the execution lease of its resumption (migration   *)
(* 000024), the framework checkpoint bound to it (000014) and the ledger   *)
(* that admits a tool call once per conversation (000020).                 *)
(*                                                                         *)
(* Each definition is one SQL statement.  An approval is named by the tool *)
(* call it was raised for: interruptForApproval creates one per call.      *)
(* execution_token is a fresh UUID per attempt and execution_attempts is   *)
(* incremented by the same UPDATE, so the attempt number stands for it.    *)
(***************************************************************************)
EXTENDS ConversationTurns

CONSTANT
    MaxAttempts     \* the 5 of execution_attempts < 5

ASSUME MaxAttemptsAssumption == MaxAttempts \in Nat \ {0}

VARIABLES
    apprStatus,     \* approvals.status, "none" before the row exists
    execStatus,     \* approvals.execution_status
    execAttempts,   \* approvals.execution_attempts
    execToken,      \* approvals.execution_token, 0 for NULL
    execExpired,    \* approvals.execution_lease_until < now()
    heldExec,       \* heldExec[p]: the token run p got from BeginExecution
    checkpoint,     \* checkpoint[a]: the calls suspended in a's checkpoint, {} if there is no row
    ledger          \* ledger[a]: tool_invocations.status of call a, "none" if there is no row

approvalVars == <<apprStatus, execStatus, execAttempts, execToken, execExpired,
                  heldExec, checkpoint, ledger>>
leaseVars == <<execStatus, execAttempts, execToken, execExpired, heldExec>>

ApprovalsTypeOK ==
    /\ apprStatus \in [Calls -> {"none", "pending", "approved", "rejected"}]
    /\ execStatus \in [Calls -> {"not_started", "executing", "completed", "failed"}]
    /\ execAttempts \in [Calls -> 0 .. MaxAttempts]
    /\ execToken \in [Calls -> 0 .. MaxAttempts]
    /\ execExpired \in [Calls -> BOOLEAN]
    /\ heldExec \in [Procs -> 0 .. MaxAttempts]
    /\ checkpoint \in [Calls -> SUBSET Calls]
    /\ ledger \in [Calls -> {"none", "running", "finished"}]

ApprovalsInit ==
    /\ apprStatus = [a \in Calls |-> "none"]
    /\ execStatus = [a \in Calls |-> "not_started"]
    /\ execAttempts = [a \in Calls |-> 0]
    /\ execToken = [a \in Calls |-> 0]
    /\ execExpired = [a \in Calls |-> FALSE]
    /\ heldExec = [p \in Procs |-> 0]
    /\ checkpoint = [a \in Calls |-> {}]
    /\ ledger = [a \in Calls |-> "none"]

-----------------------------------------------------------------------------
CreatePending(a) ==
    /\ apprStatus[a] = "none"
    /\ apprStatus' = [apprStatus EXCEPT ![a] = "pending"]
    /\ UNCHANGED <<leaseVars, checkpoint, ledger>>

\* Mutant of ResolvePending: the decision is not limited to pending rows.
ResolveAny(a, status) ==
    /\ apprStatus[a] # "none"
    /\ apprStatus' = [apprStatus EXCEPT ![a] = status]
    /\ IF status = "rejected" THEN ReopenRejected ELSE UNCHANGED turnVars
    /\ UNCHANGED <<leaseVars, checkpoint, ledger>>

\* One statement decides the approval and, for a rejection, reopens the
\* conversation.
ResolvePending(a, status) ==
    /\ apprStatus[a] = "pending"
    /\ apprStatus' = [apprStatus EXCEPT ![a] = status]
    /\ IF status = "rejected" THEN ReopenRejected ELSE UNCHANGED turnVars
    /\ UNCHANGED <<leaseVars, checkpoint, ledger>>

\* Mutant of Ready: an execution whose worker died is not offered again.
ReadyUnlessExecuting(a) ==
    /\ apprStatus[a] = "approved"
    /\ execAttempts[a] < MaxAttempts
    /\ execStatus[a] \in {"not_started", "failed"}

\* Mutant of Ready: the execution status is not looked at.
ReadyAnyStatus(a) == apprStatus[a] = "approved" /\ execAttempts[a] < MaxAttempts

\* The WHERE clause BeginApprovalExecution and ListReadyApprovalResumes share.
Ready(a) ==
    /\ apprStatus[a] = "approved"
    /\ execAttempts[a] < MaxAttempts
    /\ \/ execStatus[a] \in {"not_started", "failed"}
       \/ execStatus[a] = "executing" /\ execExpired[a]

BeginExecution(p, a) ==
    /\ Ready(a)
    /\ execStatus' = [execStatus EXCEPT ![a] = "executing"]
    /\ execAttempts' = [execAttempts EXCEPT ![a] = @ + 1]
    /\ execToken' = [execToken EXCEPT ![a] = execAttempts[a] + 1]
    /\ execExpired' = [execExpired EXCEPT ![a] = FALSE]
    /\ heldExec' = [heldExec EXCEPT ![p] = execAttempts[a] + 1]
    /\ UNCHANGED <<apprStatus, checkpoint, ledger>>

OwnsExecution(p, a) ==
    /\ execStatus[a] = "executing"
    /\ execToken[a] # 0
    /\ execToken[a] = heldExec[p]

RenewExecution(p, a) ==
    /\ OwnsExecution(p, a)
    /\ execExpired' = [execExpired EXCEPT ![a] = FALSE]
    /\ UNCHANGED <<apprStatus, execStatus, execAttempts, execToken, heldExec, checkpoint, ledger>>

\* CompleteExecution and FailExecution differ in the status they leave.
EndExecution(p, a, status) ==
    /\ OwnsExecution(p, a)
    /\ execStatus' = [execStatus EXCEPT ![a] = status]
    /\ execToken' = [execToken EXCEPT ![a] = 0]
    /\ execExpired' = [execExpired EXCEPT ![a] = FALSE]
    /\ heldExec' = [heldExec EXCEPT ![p] = 0]
    /\ UNCHANGED <<apprStatus, execAttempts, checkpoint, ledger>>

\* Two minutes pass without a renewal.
ExecutionLeaseRunsOut(a) ==
    /\ execStatus[a] = "executing"
    /\ ~execExpired[a]
    /\ execExpired' = [execExpired EXCEPT ![a] = TRUE]
    /\ UNCHANGED <<apprStatus, execStatus, execAttempts, execToken, heldExec, checkpoint, ledger>>

\* The run ends without having ended its execution.
DropExecution(p) ==
    /\ heldExec' = [heldExec EXCEPT ![p] = 0]
    /\ UNCHANGED <<apprStatus, execStatus, execAttempts, execToken, execExpired, checkpoint, ledger>>

\* INSERT under the unique index checkpoints_approval; callers test
\* checkpoint[a] = {} for the refusal.
SaveCheckpoint(a, suspended) ==
    /\ checkpoint[a] = {}
    /\ checkpoint' = [checkpoint EXCEPT ![a] = suspended]
    /\ UNCHANGED <<apprStatus, leaseVars, ledger>>

\* engineApprovalGate.CheckpointForApproval finds a usable checkpoint.
HasCheckpoint(a) == apprStatus[a] = "approved" /\ checkpoint[a] # {}

\* Mutant of BeginToolInvocation: the insert is not unique per call.
BeginToolInvocationAgain(a) ==
    /\ ledger' = [ledger EXCEPT ![a] = "running"]
    /\ UNCHANGED <<apprStatus, leaseVars, checkpoint>>

\* INSERT of a running row under the unique index tool_invocations_call_once.
BeginToolInvocation(a) ==
    /\ ledger[a] = "none"
    /\ ledger' = [ledger EXCEPT ![a] = "running"]
    /\ UNCHANGED <<apprStatus, leaseVars, checkpoint>>

CompleteToolInvocation(a) ==
    /\ ledger[a] = "running"
    /\ ledger' = [ledger EXCEPT ![a] = "finished"]
    /\ UNCHANGED <<apprStatus, leaseVars, checkpoint>>

-----------------------------------------------------------------------------
\* Everything the engine, the queue and the approval API may do to the tables.
ApprovalsNext ==
    \/ \E a \in Calls :
         \/ CreatePending(a)
         \/ \E status \in {"approved", "rejected"} : ResolvePending(a, status)
         \/ ExecutionLeaseRunsOut(a)
         \/ \E S \in SUBSET Calls : SaveCheckpoint(a, S)
         \/ BeginToolInvocation(a)
         \/ CompleteToolInvocation(a)
    \/ \E p \in Procs, a \in Calls :
         \/ BeginExecution(p, a)
         \/ RenewExecution(p, a)
         \/ \E status \in {"completed", "failed"} : EndExecution(p, a, status)
    \/ \E p \in Procs : DropExecution(p)
=============================================================================
