------------------------ MODULE ApprovalFlowProofs ------------------------
(***************************************************************************)
(* Proofs about ApprovalFlow for every set of chats, workers and calls,    *)
(* every number of attempts and batch size, with or without crashes and    *)
(* stalls.                                                                 *)
(***************************************************************************)
EXTENDS ApprovalFlow, ConversationTurnsProofs, TLAPS

-----------------------------------------------------------------------------
(* The tables approvals, checkpoints and tool_invocations *)

\* Every operation on approvals, checkpoints and ledger keeps their types.
LEMMA ApprovalsTypeStep ==
    ASSUME ApprovalsTypeOK, [ApprovalsNext]_approvalVars
    PROVE  ApprovalsTypeOK'
<1> USE MaxAttemptsAssumption DEF ApprovalsTypeOK, leaseVars
<1>1. ASSUME NEW a \in Calls, CreatePending(a) PROVE ApprovalsTypeOK'
  BY <1>1 DEF CreatePending
<1>2. ASSUME NEW a \in Calls, NEW s \in {"approved", "rejected"}, ResolvePending(a, s)
      PROVE  ApprovalsTypeOK'
  BY <1>2 DEF ResolvePending
<1>3. ASSUME NEW p \in Procs, NEW a \in Calls, BeginExecution(p, a) PROVE ApprovalsTypeOK'
  BY <1>3 DEF BeginExecution, Ready
<1>4. ASSUME NEW p \in Procs, NEW a \in Calls, RenewExecution(p, a) PROVE ApprovalsTypeOK'
  BY <1>4 DEF RenewExecution
<1>5. ASSUME NEW p \in Procs, NEW a \in Calls, NEW s \in {"completed", "failed"},
             EndExecution(p, a, s)
      PROVE  ApprovalsTypeOK'
  BY <1>5 DEF EndExecution
<1>6. ASSUME NEW a \in Calls, ExecutionLeaseRunsOut(a) PROVE ApprovalsTypeOK'
  BY <1>6 DEF ExecutionLeaseRunsOut
<1>7. ASSUME NEW p \in Procs, DropExecution(p) PROVE ApprovalsTypeOK'
  BY <1>7 DEF DropExecution
<1>8. ASSUME NEW a \in Calls, NEW S \in SUBSET Calls, SaveCheckpoint(a, S)
      PROVE  ApprovalsTypeOK'
  BY <1>8 DEF SaveCheckpoint
<1>9. ASSUME NEW a \in Calls, BeginToolInvocation(a) PROVE ApprovalsTypeOK'
  BY <1>9 DEF BeginToolInvocation
<1>10. ASSUME NEW a \in Calls, CompleteToolInvocation(a) PROVE ApprovalsTypeOK'
  BY <1>10 DEF CompleteToolInvocation
<1>11. ASSUME UNCHANGED approvalVars PROVE ApprovalsTypeOK'
  BY <1>11 DEF approvalVars
<1> HIDE DEF ApprovalsTypeOK
<1> QED
  BY <1>1, <1>2, <1>3, <1>4, <1>5, <1>6, <1>7, <1>8, <1>9, <1>10, <1>11 DEF ApprovalsNext

-----------------------------------------------------------------------------
(* Type invariant of the flow *)

ChatPcs == {"start", "prepare", "model", "tools", "persist", "commit", "release", "done"}
WorkerPcs == Pcs \ {"start", "prepare", "done"}

\* Chats never reach a step of Resume and resume nothing; a busy worker
\* resumes a call.
RunsOK ==
    /\ \A p \in Chats : pc[p] \in ChatPcs /\ task[p] = NoCall
    /\ \A w \in Workers : pc[w] \in WorkerPcs /\ (pc[w] # "idle" => task[w] \in Calls)

TypeInv == TypeOK /\ RunsOK

-----------------------------------------------------------------------------
(* Every step of the flow is a step of each component *)

\* What a run commits is a turn of the conversation.
LEMMA CommitIsTurn ==
    ASSUME TypeInv, NEW p \in Procs, pc[p] = "commit"
    PROVE  /\ Author(p) \in Procs \cup Calls
           /\ Roles(p) \in RoleLists
           /\ Waits(p) \in SUBSET Calls
           /\ nextStatus[p] \in Statuses
BY ProcsAssumption DEF TypeInv, TypeOK, RunsTypeOK, RunsOK, Author, Roles, RoleLists, Waits, Statuses

\* The flow touches the conversation row only through its operations.
LEMMA NextTurns ==
    ASSUME TypeInv, [Next]_vars
    PROVE  [TurnsNext]_turnVars
<1> USE ProcsAssumption
<1>1. ASSUME NEW p \in Chats, ChatStep(p) PROVE [TurnsNext]_turnVars
  <2>1. nextStatus[p] \in Statuses
    BY DEF TypeInv, TypeOK, RunsTypeOK
  <2> QED
    BY <1>1, <2>1 DEF ChatStep, ChatClaim, ChatPrepare, ChatRelease, TurnsNext
<1>2. ASSUME NEW p \in Procs, RunStep(p) PROVE [TurnsNext]_turnVars
  <2>1. CASE Commit(p)
    BY <2>1, CommitIsTurn DEF Commit, TurnsNext
  <2>2. CASE UNCHANGED turnVars
    BY <2>2
  <2> QED
    BY <1>2, <2>1, <2>2 DEF RunStep, ModelAnswers, ModelCallsTools, RaiseApproval,
       PersistInterrupt, BatchInterrupted, AllPersisted, RunFails
<1>3. ASSUME NEW w \in Workers, ResumeStep(w) PROVE [TurnsNext]_turnVars
  <2>1. CASE ResumeClaim(w)
    BY <2>1 DEF ResumeClaim, TurnsNext
  <2>2. CASE ResumeRelease(w)
    BY <2>2 DEF ResumeRelease, TurnsNext, Statuses
  <2>3. CASE ResumeComplete(w) \/ ResumeFail(w)
    BY <2>3 DEF ResumeComplete, ResumeFail, WorkerReturns, TurnsNext
  <2>4. CASE UNCHANGED turnVars
    BY <2>4
  <2> QED
    BY <1>3, <2>1, <2>2, <2>3, <2>4 DEF ResumeStep, ResumeBegin, BeginFails, ResumeLoad, LedgerOpen,
       InvokeTool, LedgerClose, LateHeartbeat
<1>4. ASSUME ApiStep PROVE [TurnsNext]_turnVars
  BY <1>4 DEF ApiStep, Approve, Reject, ApproveEnqueue, ResolvePending, TurnsNext
<1>5. ASSUME QueueStep PROVE [TurnsNext]_turnVars
  BY <1>5 DEF QueueStep, Deliver, DispatchList, DispatchEnqueue, DispatchAborts, Redeliver
<1>6. ASSUME LeaseStep PROVE [TurnsNext]_turnVars
  BY <1>6 DEF LeaseStep, HeartbeatTurn, HeartbeatExecution, TurnExpires, ExecutionExpires, TurnsNext
<1>7. ASSUME CrashStep PROVE [TurnsNext]_turnVars
  BY <1>7 DEF CrashStep, ChatCrash, WorkerCrash, WorkerReturns, TurnsNext
<1>8. ASSUME UNCHANGED vars PROVE [TurnsNext]_turnVars
  BY <1>8 DEF vars
<1> QED
  BY <1>1, <1>2, <1>3, <1>4, <1>5, <1>6, <1>7, <1>8 DEF Next

\* The flow touches approvals, checkpoints and ledger only through their
\* operations.
LEMMA NextApprovals ==
    ASSUME TypeInv, [Next]_vars
    PROVE  [ApprovalsNext]_approvalVars
<1> USE ProcsAssumption DEF TypeInv, TypeOK, RunsTypeOK, RunsOK
<1>1. ASSUME NEW p \in Chats, ChatStep(p) PROVE [ApprovalsNext]_approvalVars
  BY <1>1 DEF ChatStep, ChatClaim, ChatPrepare, ChatRelease
<1>2. ASSUME NEW p \in Procs, RunStep(p) PROVE [ApprovalsNext]_approvalVars
  <2>1. CASE \E a \in Calls : RaiseApproval(p, a)
    BY <2>1 DEF RaiseApproval, ApprovalsNext
  <2>2. CASE \E a \in Calls : PersistInterrupt(p, a)
    <3>1. suspended[p] \in SUBSET Calls
      OBVIOUS
    <3> QED
      BY <2>2, <3>1 DEF PersistInterrupt, ApprovalsNext
  <2>3. CASE UNCHANGED approvalVars
    BY <2>3
  <2> QED
    BY <1>2, <2>1, <2>2, <2>3 DEF RunStep, ModelAnswers, ModelCallsTools,
       BatchInterrupted, AllPersisted, RunFails, Commit
<1>3. ASSUME NEW w \in Workers, ResumeStep(w) PROVE [ApprovalsNext]_approvalVars
  <2>1. CASE ResumeBegin(w)
    <3>1. task[w] \in Calls
      BY <2>1 DEF ResumeBegin
    <3> QED
      BY <2>1, <3>1 DEF ResumeBegin, ApprovalsNext
  <2>2. CASE LedgerOpen(w) \/ LedgerClose(w)
    <3>1. task[w] \in Calls
      BY <2>2 DEF LedgerOpen, LedgerClose
    <3> QED
      BY <2>2, <3>1 DEF LedgerOpen, LedgerClose, ApprovalsNext
  <2>3. CASE ResumeComplete(w) \/ ResumeFail(w)
    <3>1. task[w] \in Calls
      BY <2>3 DEF ResumeComplete, ResumeFail
    <3> QED
      BY <2>3, <3>1 DEF ResumeComplete, ResumeFail, ApprovalsNext
  <2>4. CASE UNCHANGED approvalVars
    BY <2>4
  <2> QED
    BY <1>3, <2>1, <2>2, <2>3, <2>4 DEF ResumeStep, BeginFails, ResumeClaim, ResumeLoad,
       InvokeTool, ResumeRelease, LateHeartbeat
<1>4. ASSUME ApiStep PROVE [ApprovalsNext]_approvalVars
  BY <1>4 DEF ApiStep, Approve, Reject, ApproveEnqueue, ApprovalsNext
<1>5. ASSUME QueueStep PROVE [ApprovalsNext]_approvalVars
  BY <1>5 DEF QueueStep, Deliver, DispatchList, DispatchEnqueue, DispatchAborts, Redeliver
<1>6. ASSUME LeaseStep PROVE [ApprovalsNext]_approvalVars
  BY <1>6 DEF LeaseStep, HeartbeatTurn, HeartbeatExecution, TurnExpires, ExecutionExpires, ApprovalsNext
<1>7. ASSUME CrashStep PROVE [ApprovalsNext]_approvalVars
  BY <1>7 DEF CrashStep, ChatCrash, WorkerCrash, ApprovalsNext
<1>8. ASSUME UNCHANGED vars PROVE [ApprovalsNext]_approvalVars
  BY <1>8 DEF vars
<1> QED
  BY <1>1, <1>2, <1>3, <1>4, <1>5, <1>6, <1>7, <1>8 DEF Next

-----------------------------------------------------------------------------
(* Type correctness of the whole flow *)

\* A run only moves between the labels of its kind, and forgets or takes up a
\* task as one.
LEMMA RunsTypeStep ==
    ASSUME TypeInv, [Next]_vars
    PROVE  RunsTypeOK' /\ RunsOK'
<1> USE ProcsAssumption DEF TypeInv, TypeOK, RunsTypeOK, RunsOK, Goto, Forget, Pcs, ChatPcs,
        WorkerPcs, Statuses
<1>1. ASSUME NEW p \in Chats, ChatStep(p) PROVE RunsTypeOK' /\ RunsOK'
  <2>1. CASE ChatClaim(p)
    BY <2>1 DEF ChatClaim, queueVars
  <2>2. CASE ChatPrepare(p)
    BY <2>2 DEF ChatPrepare, queueVars
  <2>3. CASE ChatRelease(p)
    BY <2>3 DEF ChatRelease, queueVars
  <2> QED
    BY <1>1, <2>1, <2>2, <2>3 DEF ChatStep
<1>2. ASSUME NEW p \in Procs, RunStep(p) PROVE RunsTypeOK' /\ RunsOK'
  <2>1. CASE ModelAnswers(p)
    BY <2>1 DEF ModelAnswers, queueVars
  <2>2. CASE ModelCallsTools(p)
    BY <2>2 DEF ModelCallsTools, FreshCalls, queueVars
  <2>3. ASSUME NEW a \in Calls, RaiseApproval(p, a) PROVE RunsTypeOK' /\ RunsOK'
    BY <2>3 DEF RaiseApproval, queueVars
  <2>4. ASSUME NEW a \in Calls, PersistInterrupt(p, a) PROVE RunsTypeOK' /\ RunsOK'
    BY <2>4 DEF PersistInterrupt, queueVars
  <2>5. CASE BatchInterrupted(p)
    BY <2>5 DEF BatchInterrupted, queueVars
  <2>6. CASE AllPersisted(p)
    BY <2>6 DEF AllPersisted, queueVars
  <2>7. CASE RunFails(p)
    BY <2>7 DEF RunFails, queueVars
  <2>8. CASE Commit(p)
    BY <2>8 DEF Commit, queueVars
  <2> QED
    BY <1>2, <2>1, <2>2, <2>3, <2>4, <2>5, <2>6, <2>7, <2>8 DEF RunStep
<1>3. ASSUME NEW w \in Workers, ResumeStep(w) PROVE RunsTypeOK' /\ RunsOK'
  <2>1. CASE ResumeBegin(w)
    BY <2>1 DEF ResumeBegin, Acknowledge, queueVars
  <2>2. CASE ResumeClaim(w)
    <3>1. /\ pc' = [pc EXCEPT ![w] = "load"] \/ pc' = [pc EXCEPT ![w] = "fail"]
          /\ task[w] \in Calls
          /\ UNCHANGED <<task, todo, suspended, unsaved, nextStatus, effects, queueVars>>
      BY <2>2 DEF ResumeClaim
    <3> QED
      BY <3>1 DEF queueVars
  <2>3. CASE ResumeLoad(w)
    BY <2>3 DEF ResumeLoad, queueVars
  <2>4. CASE LedgerOpen(w)
    BY <2>4 DEF LedgerOpen, queueVars
  <2>5. CASE InvokeTool(w)
    BY <2>5 DEF InvokeTool, queueVars
  <2>6. CASE LedgerClose(w)
    <3>1. checkpoint[task[w]] \ {task[w]} \in SUBSET Calls
      BY <2>6 DEF LedgerClose, ApprovalsTypeOK
    <3> QED
      BY <2>6, <3>1 DEF LedgerClose, queueVars
  <2>7. CASE ResumeRelease(w)
    BY <2>7 DEF ResumeRelease, queueVars
  <2>8. CASE LateHeartbeat(w)
    BY <2>8 DEF LateHeartbeat, queueVars
  <2>9. CASE ResumeComplete(w) \/ ResumeFail(w)
    BY <2>9 DEF ResumeComplete, ResumeFail, WorkerReturns, Acknowledge
  <2>10. CASE BeginFails(w)
    BY <2>10 DEF BeginFails, Acknowledge
  <2> QED
    BY <1>3, <2>1, <2>2, <2>3, <2>4, <2>5, <2>6, <2>7, <2>8, <2>9, <2>10 DEF ResumeStep
<1>4. ASSUME ApiStep PROVE RunsTypeOK' /\ RunsOK'
  BY <1>4 DEF ApiStep, Approve, Reject, ApproveEnqueue, Enqueue, runVars, queueVars
<1>5. ASSUME QueueStep PROVE RunsTypeOK' /\ RunsOK'
  <2>1. ASSUME NEW w \in Workers, NEW a \in Calls, Deliver(w, a) PROVE RunsTypeOK' /\ RunsOK'
    BY <2>1 DEF Deliver
  <2>2. CASE DispatchList \/ DispatchAborts
    BY <2>2 DEF DispatchList, DispatchAborts, runVars
  <2>3. ASSUME NEW a \in Calls, DispatchEnqueue(a) \/ Redeliver(a) PROVE RunsTypeOK' /\ RunsOK'
    BY <2>3 DEF DispatchEnqueue, Enqueue, Redeliver, runVars
  <2> QED
    BY <1>5, <2>1, <2>2, <2>3 DEF QueueStep
<1>6. ASSUME LeaseStep PROVE RunsTypeOK' /\ RunsOK'
  BY <1>6 DEF LeaseStep, HeartbeatTurn, HeartbeatExecution, TurnExpires, ExecutionExpires,
     runVars, queueVars
<1>7. ASSUME CrashStep PROVE RunsTypeOK' /\ RunsOK'
  <2>1. ASSUME NEW p \in Procs, ChatCrash(p) PROVE RunsTypeOK' /\ RunsOK'
    BY <2>1 DEF ChatCrash, queueVars
  <2>2. ASSUME NEW p \in Procs, WorkerCrash(p) PROVE RunsTypeOK' /\ RunsOK'
    <3>1. p \in Workers /\ task[p] \in Calls /\ WorkerReturns(p, TRUE)
      BY <2>2 DEF WorkerCrash, Running
    <3> QED
      BY <3>1 DEF WorkerReturns, Acknowledge
  <2> QED
    BY <1>7, <2>1, <2>2 DEF CrashStep
<1>8. ASSUME UNCHANGED vars PROVE RunsTypeOK' /\ RunsOK'
  BY <1>8 DEF vars, runVars, queueVars
<1> HIDE DEF RunsTypeOK, RunsOK
<1> QED
  BY <1>1, <1>2, <1>3, <1>4, <1>5, <1>6, <1>7, <1>8 DEF Next

\* One step keeps the types of all three parts.
LEMMA TypeStep == TypeInv /\ [Next]_vars => TypeInv'
<1> SUFFICES ASSUME TypeInv, [Next]_vars PROVE TypeInv'
  OBVIOUS
<1>1. TurnsTypeOK'
  BY NextTurns, TurnsTypeStep DEF TypeInv, TypeOK
<1>2. ApprovalsTypeOK'
  BY NextApprovals, ApprovalsTypeStep DEF TypeInv, TypeOK
<1>3. RunsTypeOK' /\ RunsOK'
  BY RunsTypeStep
<1> QED
  BY <1>1, <1>2, <1>3 DEF TypeInv, TypeOK

\* The initial state is well typed.
LEMMA TypeInit == Init => TypeInv
<1> SUFFICES ASSUME Init PROVE TypeInv
  OBVIOUS
<1>1. TurnsTypeOK
  BY TurnsInvInit DEF Init, TurnsInv
<1>2. execExpired \in [Calls -> BOOLEAN]
  BY DEF Init, ApprovalsInit
<1>3. ApprovalsTypeOK
  BY <1>2, MaxAttemptsAssumption DEF Init, ApprovalsInit, ApprovalsTypeOK
<1>4. RunsTypeOK
  BY ProcsAssumption DEF Init, RunsTypeOK, Pcs, Statuses
<1>5. RunsOK
  BY ProcsAssumption DEF Init, RunsOK, ChatPcs, WorkerPcs, Pcs
<1> QED
  BY <1>1, <1>3, <1>4, <1>5 DEF TypeInv, TypeOK

\* Every variable keeps its type, the counters and tokens their bounds.
THEOREM TypeCorrect == Spec => []TypeOK
<1>1. TypeInv => TypeOK
  BY DEF TypeInv
<1> QED
  BY TypeInit, TypeStep, <1>1, PTL DEF Spec

\* The flow uses the conversation row as TurnsSpec allows, whatever its runs,
\* workers, approvers and the queue do.
THEOREM FlowRefinesTurns == Spec => TurnsSpec
<1>1. Init => TurnsInit
  BY DEF Init
<1>2. TypeInv /\ [Next]_vars => [TurnsNext]_turnVars
  BY NextTurns
<1> QED
  BY TypeInit, TypeStep, <1>1, <1>2, PTL DEF Spec, TurnsSpec

\* Hence the turns of Chat and Resume runs reach a conversation in the order
\* in which they were claimed.
THEOREM FlowIsSerialised == Spec => []TurnsSerialised
BY FlowRefinesTurns, TurnsAreSerialised, PTL

-----------------------------------------------------------------------------
(* The inductive invariants *)

\* Labels of a resume behind its ledger row, and behind the tool's effect.
Effective == {"record", "model", "tools", "persist", "commit", "complete"}
Started == Effective \cup {"invoke"}

\* The ledger row separates the workers that resumed one call: only the one
\* that inserted it goes on, and it is the one that produces the effect.
LedgerInv ==
    /\ \A w \in Workers : pc[w] \notin {"idle", "begin"} => apprStatus[task[w]] = "approved"
    /\ \A w \in Workers : pc[w] \in Started => ledger[task[w]] # "none"
    /\ \A v, w \in Workers :
         pc[v] \in Started /\ pc[w] \in Started /\ task[v] = task[w] => v = w
    /\ \A w \in Workers : pc[w] = "invoke" => effects[task[w]] = 0
    /\ \A w \in Workers : pc[w] \in Effective => effects[task[w]] = 1
    /\ \A a \in Calls : effects[a] \in {0, 1}
    /\ \A a \in Calls : effects[a] = 1 => apprStatus[a] = "approved" /\ ledger[a] # "none"
    /\ \A a \in Calls : execStatus[a] = "completed" => effects[a] = 1

\* Who has committed a turn, as a set.
Authors == {history[i].by : i \in DOMAIN history}

\* A run that can still commit has not committed yet; a run that completes
\* its execution has.
AnswerInv ==
    /\ Authors \subseteq Chats \cup Calls
    /\ \A a \in Calls : a \in Authors => ledger[a] # "none"
    /\ \A w \in Workers : pc[w] \in Started \ {"complete"} => task[w] \notin Authors
    /\ \A w \in Workers : pc[w] = "complete" => task[w] \in Authors
    /\ \A p \in Chats : pc[p] \notin {"release", "done"} => p \notin Authors
    /\ \A a \in Calls : execStatus[a] = "completed" => a \in Authors
    /\ AnsweredOnce

\* From the interrupt to the commit the calls a run stops at have their
\* approval, and more and more of them their checkpoint.
WaitInv ==
    /\ \A p \in Procs : pc[p] \in {"tools", "persist"} =>
         \A a \in suspended[p] : apprStatus[a] # "none"
    /\ \A p \in Procs : pc[p] = "persist" =>
         /\ unsaved[p] \subseteq suspended[p]
         /\ \A a \in suspended[p] \ unsaved[p] : checkpoint[a] # {}
    /\ \A p \in Procs : pc[p] = "commit" =>
         \A a \in Waits(p) : apprStatus[a] # "none" /\ checkpoint[a] # {}
    /\ \A a \in Calls : \A b \in checkpoint[a] : apprStatus[b] # "none"
    /\ AwaitedIsResumable

-----------------------------------------------------------------------------
(* Steps that do not advance a call *)

\* What a step may do to one run without concerning the invariants: leave it
\* alone, end it, move it towards its end or towards its first database write.
CalmMove(p) ==
    \/ /\ pc'[p] = pc[p] /\ task'[p] = task[p] /\ suspended'[p] = suspended[p]
       /\ unsaved'[p] = unsaved[p] /\ nextStatus'[p] = nextStatus[p]
    \/ pc'[p] \in {"idle", "done", "begin"}
    \/ /\ task'[p] = task[p]
       /\ pc[p] \notin {"idle", "begin"}
       /\ pc'[p] \in {"release", "fail", "load", "ledger"}
    \/ p \in Chats /\ pc[p] \notin {"release", "done"} /\ pc'[p] \in {"prepare", "model"}

\* A step without effect, commit, ledger row, checkpoint or completion.
Calm ==
    /\ UNCHANGED <<history, effects, checkpoint, ledger>>
    /\ \A a \in Calls :
         /\ apprStatus[a] = "approved" => apprStatus'[a] = "approved"
         /\ apprStatus[a] # "none" => apprStatus'[a] # "none"
         /\ execStatus'[a] = "completed" => execStatus[a] = "completed"
    /\ \A p \in Procs : CalmMove(p)

\* The steps of the flow that are not calm.
Advance(p) ==
    \/ ModelAnswers(p)
    \/ ModelCallsTools(p)
    \/ \E a \in Calls : RaiseApproval(p, a) \/ PersistInterrupt(p, a)
    \/ BatchInterrupted(p)
    \/ AllPersisted(p)
    \/ Commit(p)

AdvanceResume(w) ==
    \/ ResumeBegin(w) /\ BeginExecution(w, task[w]) /\ Goto(w, "claim") /\ UNCHANGED task
    \/ LedgerOpen(w)
    \/ InvokeTool(w)
    \/ LedgerClose(w)
    \/ ResumeComplete(w)

\* A run that ends is forgotten, and the others are left alone.
LEMMA ForgetCalm ==
    ASSUME TypeInv, NEW p \in Procs, Forget(p), Goto(p, "idle") \/ Goto(p, "done")
    PROVE  \A q \in Procs : CalmMove(q)
BY DEF TypeInv, TypeOK, RunsTypeOK, Forget, Goto, CalmMove

\* Every step either advances one run or is calm.
LEMMA NextCalm ==
    ASSUME TypeInv, [Next]_vars
    PROVE  \/ \E p \in Procs : Advance(p)
           \/ \E w \in Workers : AdvanceResume(w)
           \/ Calm
<1> USE ProcsAssumption DEF TypeInv, TypeOK, RunsTypeOK
<1> DEFINE Same == UNCHANGED <<pc, task, suspended, unsaved, nextStatus>>
           Rows == UNCHANGED <<history, effects, checkpoint, ledger, apprStatus, execStatus>>
<1>1. ASSUME Same PROVE \A p \in Procs : CalmMove(p)
  BY <1>1 DEF CalmMove
<1>2. ASSUME Rows, \A p \in Procs : CalmMove(p) PROVE Calm
  BY <1>2 DEF Calm
<1>3. ASSUME NEW p \in Chats, ChatStep(p) PROVE Calm
  <2>1. CASE ChatClaim(p)
    <3>1. Rows
      BY <2>1 DEF ChatClaim, ClaimConversationTurn, turnVars, approvalVars
    <3>2. \A q \in Procs : CalmMove(q)
      BY <2>1 DEF ChatClaim, Goto, CalmMove
    <3> QED
      BY <1>2, <3>1, <3>2
  <2>2. CASE ChatPrepare(p)
    <3>1. Rows
      BY <2>2 DEF ChatPrepare, turnVars, approvalVars
    <3>2. \A q \in Procs : CalmMove(q)
      BY <2>2 DEF ChatPrepare, Goto, CalmMove
    <3> QED
      BY <1>2, <3>1, <3>2
  <2>3. CASE ChatRelease(p)
    <3>1. Rows
      BY <2>3 DEF ChatRelease, ReleaseConversationTurn, turnVars, approvalVars
    <3>2. \A q \in Procs : CalmMove(q)
      BY <2>3, ForgetCalm DEF ChatRelease
    <3> QED
      BY <1>2, <3>1, <3>2
  <2> QED
    BY <1>3, <2>1, <2>2, <2>3 DEF ChatStep
<1>4. ASSUME NEW p \in Procs, RunStep(p) PROVE Advance(p) \/ Calm
  <2>1. CASE RunFails(p)
    <3>1. Rows
      BY <2>1 DEF RunFails, turnVars, approvalVars
    <3>2. \A q \in Procs : CalmMove(q)
      BY <2>1 DEF RunFails, Goto, CalmMove
    <3> QED
      BY <1>2, <3>1, <3>2
  <2> QED
    BY <1>4, <2>1 DEF RunStep, Advance
<1>5. ASSUME NEW w \in Workers, ResumeStep(w) PROVE AdvanceResume(w) \/ Calm
  <2>1. CASE ResumeBegin(w)
    <3>1. CASE BeginExecution(w, task[w]) /\ Goto(w, "claim") /\ UNCHANGED task
      BY <2>1, <3>1 DEF AdvanceResume
    <3>2. CASE Goto(w, "idle") /\ Forget(w) /\ UNCHANGED approvalVars
      <4>1. Rows
        BY <2>1, <3>2 DEF ResumeBegin, turnVars, approvalVars
      <4>2. \A q \in Procs : CalmMove(q)
        BY <3>2, ForgetCalm
      <4> QED
        BY <1>2, <4>1, <4>2
    <3> QED
      BY <2>1, <3>1, <3>2 DEF ResumeBegin
  <2>2. CASE ResumeClaim(w)
    <3>1. Rows
      BY <2>2 DEF ResumeClaim, ClaimConversationTurn, turnVars, approvalVars
    <3>2. \A q \in Procs : CalmMove(q)
      BY <2>2 DEF ResumeClaim, Goto, CalmMove
    <3> QED
      BY <1>2, <3>1, <3>2
  <2>3. CASE ResumeLoad(w)
    <3>1. Rows
      BY <2>3 DEF ResumeLoad, turnVars, approvalVars
    <3>2. \A q \in Procs : CalmMove(q)
      BY <2>3 DEF ResumeLoad, Goto, CalmMove
    <3> QED
      BY <1>2, <3>1, <3>2
  <2>4. CASE ResumeRelease(w)
    <3>1. Rows
      BY <2>4 DEF ResumeRelease, ReleaseConversationTurn, turnVars, approvalVars
    <3>2. \A q \in Procs : CalmMove(q)
      BY <2>4 DEF ResumeRelease, Goto, CalmMove
    <3> QED
      BY <1>2, <3>1, <3>2
  <2>5. CASE LateHeartbeat(w)
    <3>1. Rows
      BY <2>5 DEF LateHeartbeat, turnVars, approvalVars
    <3>2. \A q \in Procs : CalmMove(q)
      BY <2>5 DEF LateHeartbeat, Goto, CalmMove
    <3> QED
      BY <1>2, <3>1, <3>2
  <2>6. CASE ResumeFail(w)
    <3>1. UNCHANGED <<history, effects, checkpoint, ledger, apprStatus>>
      BY <2>6 DEF ResumeFail, WorkerReturns, DropTurn, EndExecution, DropExecution
    <3>2. \A q \in Procs : CalmMove(q)
      BY <2>6, ForgetCalm DEF ResumeFail, WorkerReturns
    <3>3. \A a \in Calls : execStatus'[a] = "completed" => execStatus[a] = "completed"
      BY <2>6 DEF ResumeFail, EndExecution, DropExecution, ApprovalsTypeOK
    <3> QED
      BY <3>1, <3>2, <3>3 DEF Calm
  <2>7. CASE BeginFails(w)
    <3>1. Rows
      BY <2>7 DEF BeginFails, turnVars, approvalVars
    <3>2. \A q \in Procs : CalmMove(q)
      BY <2>7, ForgetCalm DEF BeginFails
    <3> QED
      BY <1>2, <3>1, <3>2
  <2> QED
    BY <1>5, <2>1, <2>2, <2>3, <2>4, <2>5, <2>6, <2>7 DEF ResumeStep, AdvanceResume
<1>6. ASSUME ApiStep PROVE Calm
  <2>1. Same
    BY <1>6 DEF ApiStep, Approve, Reject, ApproveEnqueue, runVars
  <2>2. UNCHANGED <<history, effects, checkpoint, ledger, execStatus>>
    BY <1>6 DEF ApiStep, Approve, Reject, ApproveEnqueue, ResolvePending, ReopenRejected,
       leaseVars, turnVars, approvalVars
  <2>3. \A a \in Calls : /\ apprStatus[a] = "approved" => apprStatus'[a] = "approved"
                         /\ apprStatus[a] # "none" => apprStatus'[a] # "none"
    BY <1>6 DEF ApiStep, Approve, Reject, ApproveEnqueue, ResolvePending, approvalVars,
       ApprovalsTypeOK
  <2> QED
    BY <1>1, <2>1, <2>2, <2>3 DEF Calm
<1>7. ASSUME QueueStep PROVE Calm
  <2>1. Rows
    BY <1>7 DEF QueueStep, Deliver, DispatchList, DispatchEnqueue, DispatchAborts, Redeliver,
       turnVars, approvalVars
  <2>2. CASE Same
    BY <1>1, <1>2, <2>1, <2>2
  <2>3. ASSUME NEW w \in Workers, NEW a \in Calls, Deliver(w, a) PROVE Calm
    <3>1. \A q \in Procs : CalmMove(q)
      BY <2>3 DEF Deliver, Goto, CalmMove
    <3> QED
      BY <1>2, <2>1, <3>1
  <2> QED
    BY <1>7, <2>2, <2>3 DEF QueueStep, DispatchList, DispatchEnqueue, DispatchAborts, Redeliver,
       runVars
<1>8. ASSUME LeaseStep \/ UNCHANGED vars PROVE Calm
  <2>1. Rows
    BY <1>8 DEF LeaseStep, HeartbeatTurn, HeartbeatExecution, TurnExpires, ExecutionExpires,
       RenewConversationTurn, RenewExecution, TurnLeaseRunsOut, ExecutionLeaseRunsOut,
       turnVars, approvalVars, vars
  <2>2. Same
    BY <1>8 DEF LeaseStep, HeartbeatTurn, HeartbeatExecution, TurnExpires, ExecutionExpires,
       runVars, vars
  <2> QED
    BY <1>1, <1>2, <2>1, <2>2
<1>9. ASSUME CrashStep PROVE Calm
  <2>1. Rows
    BY <1>9 DEF CrashStep, ChatCrash, WorkerCrash, WorkerReturns, DropTurn, DropExecution,
       turnVars, approvalVars
  <2>2. \A q \in Procs : CalmMove(q)
    BY <1>9, ForgetCalm DEF CrashStep, ChatCrash, WorkerCrash, WorkerReturns
  <2> QED
    BY <1>2, <2>1, <2>2
<1> QED
  BY <1>3, <1>4, <1>5, <1>6, <1>7, <1>8, <1>9 DEF Next

-----------------------------------------------------------------------------
(* The ledger: at most one effect, only after approval *)

\* A chat has nothing to do with the ledger, and a run that goes on asking the
\* model stays behind its effect.
LEMMA LedgerAdvance ==
    ASSUME TypeInv, TypeInv', LedgerInv, NEW p \in Procs, Advance(p)
    PROVE  LedgerInv'
<1> USE ProcsAssumption DEF TypeInv, TypeOK, RunsTypeOK
<1>1. /\ UNCHANGED <<effects, ledger, execStatus, task>>
      /\ \A a \in Calls : apprStatus[a] = "approved" => apprStatus'[a] = "approved"
  BY DEF Advance, ModelAnswers, ModelCallsTools, RaiseApproval, PersistInterrupt, BatchInterrupted,
     AllPersisted, Commit, CreatePending, SaveCheckpoint, leaseVars, approvalVars, ApprovalsTypeOK
<1>2. \A w \in Workers : \/ pc'[w] = pc[w]
                         \/ pc[w] \in Effective /\ pc'[w] \in Effective \cup {"release"}
  BY DEF Advance, ModelAnswers, ModelCallsTools, RaiseApproval, PersistInterrupt, BatchInterrupted,
     AllPersisted, Commit, Goto, Effective
<1>3. \A w \in Workers : pc[w] \notin {"idle", "begin"} => task[w] \in Calls
  BY DEF RunsOK
<1> QED
  BY <1>1, <1>2, <1>3 DEF LedgerInv, Effective, Started

\* Whatever CompleteExecution answers, the run ends and touches no row but that
\* of its own approval.
LEMMA CompleteMoves ==
    ASSUME TypeOK, NEW w \in Workers, task[w] \in Calls, ResumeComplete(w)
    PROVE  /\ UNCHANGED <<effects, apprStatus, ledger>>
           /\ pc[w] = "complete" /\ pc' = [pc EXCEPT ![w] = "idle"]
           /\ task' = [task EXCEPT ![w] = NoCall]
           /\ \A a \in Calls : execStatus'[a] = execStatus[a] \/ a = task[w]
<1>1. pc[w] = "complete" /\ (WorkerReturns(w, TRUE) \/ WorkerReturns(w, FALSE)
                               \/ WorkerReturns(w, nextStatus[w] # "active"))
  BY DEF ResumeComplete
<1>2. /\ UNCHANGED effects /\ pc' = [pc EXCEPT ![w] = "idle"]
      /\ task' = [task EXCEPT ![w] = NoCall]
  BY <1>1 DEF WorkerReturns, Goto, Forget
<1>3. EndExecution(w, task[w], "completed") \/ DropExecution(w)
  BY DEF ResumeComplete
<1>4. /\ UNCHANGED <<apprStatus, ledger>>
      /\ \A a \in Calls : execStatus'[a] = execStatus[a] \/ a = task[w]
  BY <1>3 DEF EndExecution, DropExecution, TypeOK, ApprovalsTypeOK
<1> QED
  BY <1>1, <1>2, <1>4

\* One step keeps the ledger invariant.
LEMMA LedgerStep ==
    ASSUME TypeInv, TypeInv', LedgerInv, [Next]_vars
    PROVE  LedgerInv'
<1> USE ProcsAssumption DEF TypeInv, TypeOK, RunsTypeOK
<1>1. \A w \in Workers : pc[w] \notin {"idle", "begin"} => task[w] \in Calls
  BY DEF RunsOK
<1>2. CASE Calm
  <2>1. \A w \in Workers : \/ pc'[w] = pc[w] /\ task'[w] = task[w]
                           \/ pc'[w] \in {"idle", "begin"}
                           \/ /\ pc[w] \notin {"idle", "begin"} /\ task'[w] = task[w]
                              /\ pc'[w] \in {"release", "fail", "load", "ledger"}
    BY <1>2 DEF Calm, CalmMove, RunsOK, WorkerPcs
  <2> QED
    BY <1>1, <1>2, <2>1 DEF Calm, LedgerInv, Started, Effective
<1>3. ASSUME NEW w \in Workers, AdvanceResume(w) PROVE LedgerInv'
  <2>1. CASE ResumeBegin(w) /\ BeginExecution(w, task[w]) /\ Goto(w, "claim") /\ UNCHANGED task
    BY <1>1, <2>1 DEF ResumeBegin, BeginExecution, Ready, Goto, ApprovalsTypeOK, LedgerInv,
       Started, Effective
  <2>2. CASE LedgerOpen(w)
    <3>1. CASE BeginToolInvocation(task[w])
      BY <1>1, <2>2, <3>1, SMTT(30) DEF LedgerOpen, BeginToolInvocation, Goto, leaseVars, ApprovalsTypeOK,
         LedgerInv, Started, Effective
    <3>2. CASE UNCHANGED approvalVars /\ Goto(w, "release")
      BY <1>1, <2>2, <3>2 DEF LedgerOpen, Goto, approvalVars, LedgerInv, Started, Effective
    <3> QED
      BY <2>2, <3>1, <3>2 DEF LedgerOpen
  <2>3. CASE InvokeTool(w)
    BY <1>1, <2>3 DEF InvokeTool, Goto, approvalVars, LedgerInv, Started, Effective
  <2>4. CASE LedgerClose(w)
    <3>1. /\ UNCHANGED <<effects, execStatus, apprStatus, task>>
          /\ \A a \in Calls : ledger[a] # "none" => ledger'[a] # "none"
      BY <1>1, <2>4 DEF LedgerClose, CompleteToolInvocation, leaseVars, approvalVars,
         ApprovalsTypeOK
    <3>2. /\ pc[w] = "record"
          /\ \E l \in {"model", "persist", "release"} : pc' = [pc EXCEPT ![w] = l]
      BY <2>4 DEF LedgerClose, Goto
    <3> QED
      BY <1>1, <3>1, <3>2 DEF LedgerInv, Started, Effective
  <2>5. CASE ResumeComplete(w)
    <3>1. /\ UNCHANGED <<effects, apprStatus, ledger>>
          /\ pc[w] = "complete" /\ pc' = [pc EXCEPT ![w] = "idle"]
          /\ task' = [task EXCEPT ![w] = NoCall]
          /\ \A a \in Calls : execStatus'[a] = execStatus[a] \/ a = task[w]
      <4>1. task[w] \in Calls
        BY <1>1, <2>5 DEF ResumeComplete
      <4> QED BY <2>5, <4>1, CompleteMoves
    <3> QED
      BY <1>1, <3>1 DEF LedgerInv, Started, Effective
  <2> QED
    BY <1>3, <2>1, <2>2, <2>3, <2>4, <2>5 DEF AdvanceResume
<1> QED
  BY <1>2, <1>3, NextCalm, LedgerAdvance

\* Nothing has happened yet.
LEMMA LedgerInit == Init => LedgerInv
BY ProcsAssumption DEF Init, ApprovalsInit, LedgerInv, Started, Effective

\* A sensitive tool call takes effect at most once, for any number of workers
\* that resume it, crashes, lost leases and redelivered tasks (the unique
\* index behind BeginToolInvocation).
THEOREM EffectAtMostOnce == Spec => []AtMostOnce
<1>1. TypeInv /\ LedgerInv /\ [Next]_vars => TypeInv' /\ LedgerInv'
  BY TypeStep, LedgerStep
<1>2. LedgerInv => AtMostOnce
  BY DEF LedgerInv, AtMostOnce
<1> QED
  BY TypeInit, LedgerInit, <1>1, <1>2, PTL DEF Spec

\* No tool call takes effect that was not approved (BeginApprovalExecution
\* accepts approved rows only, and a decision is final).
THEOREM EffectOnlyApproved == Spec => []OnlyApprovedRuns
<1>1. TypeInv /\ LedgerInv /\ [Next]_vars => TypeInv' /\ LedgerInv'
  BY TypeStep, LedgerStep
<1>2. LedgerInv => OnlyApprovedRuns
  BY DEF LedgerInv, OnlyApprovedRuns
<1> QED
  BY TypeInit, LedgerInit, <1>1, <1>2, PTL DEF Spec

-----------------------------------------------------------------------------
(* Answers: one committed turn per author *)

\* A commit adds its author.
LEMMA CommitAddsAuthor ==
    ASSUME TypeInv, NEW p \in Procs, NEW waits, NEW roles, NEW s,
           CommitConversationTurn(p, Author(p), roles, waits, s)
    PROVE  /\ Authors' = Authors \cup {Author(p)}
           /\ AnsweredOnce /\ Author(p) \notin Authors => AnsweredOnce'
<1> DEFINE rec == [turn |-> heldTurn[p], by |-> Author(p), roles |-> roles, waits |-> waits]
           n == Len(history)
<1>1. history' = Append(history, rec) /\ rec.by = Author(p)
  BY DEF CommitConversationTurn
<1> HIDE DEF rec
<1>2. /\ n \in Nat
      /\ DOMAIN history = 1 .. n
      /\ DOMAIN history' = 1 .. n + 1
      /\ \A i \in 1 .. n : history'[i] = history[i]
      /\ history'[n + 1] = rec
  BY <1>1 DEF TypeInv, TypeOK, TurnsTypeOK
<1> HIDE DEF n
<1>3. 1 .. n + 1 = (1 .. n) \cup {n + 1}
  BY <1>2
<1>4. Authors' = Authors \cup {Author(p)}
  BY <1>1, <1>2, <1>3 DEF Authors
<1>5. ASSUME AnsweredOnce, Author(p) \notin Authors PROVE AnsweredOnce'
  <2>1. \A i \in 1 .. n : history'[i].by # Author(p)
    BY <1>2, <1>5 DEF Authors
  <2> QED
    BY <1>1, <1>2, <1>3, <1>5, <2>1 DEF AnsweredOnce
<1> QED
  BY <1>4, <1>5

\* One step keeps the answer invariant.
LEMMA AnswerStep ==
    ASSUME TypeInv, TypeInv', LedgerInv, AnswerInv, [Next]_vars
    PROVE  AnswerInv'
<1> USE ProcsAssumption DEF TypeInv, TypeOK, RunsTypeOK
<1>1. \A w \in Workers : pc[w] \notin {"idle", "begin"} => task[w] \in Calls
  BY DEF RunsOK
<1>2. ASSUME UNCHANGED history PROVE UNCHANGED Authors /\ (AnsweredOnce => AnsweredOnce')
  BY <1>2 DEF Authors, AnsweredOnce
<1>3. CASE Calm
  <2>1. \A w \in Workers : \/ pc'[w] = pc[w] /\ task'[w] = task[w]
                           \/ pc'[w] \notin Started
    BY <1>3 DEF Calm, CalmMove, RunsOK, WorkerPcs, Started, Effective
  <2>2. \A p \in Chats : pc'[p] \notin {"release", "done"} => pc[p] \notin {"release", "done"}
    BY <1>3 DEF Calm, CalmMove, RunsOK, ChatPcs
  <2> QED
    BY <1>1, <1>2, <1>3, <2>1, <2>2 DEF Calm, AnswerInv, Started, Effective
<1>4. ASSUME NEW p \in Procs, Advance(p), ~Commit(p) PROVE AnswerInv'
  <2>1. UNCHANGED <<history, ledger, execStatus, task>>
    BY <1>4 DEF Advance, ModelAnswers, ModelCallsTools, RaiseApproval, PersistInterrupt,
       BatchInterrupted, AllPersisted, CreatePending, SaveCheckpoint, leaseVars, approvalVars,
       turnVars
  <2>2. \/ UNCHANGED pc
        \/ /\ pc[p] \in {"model", "tools", "persist"}
           /\ \E l \in {"tools", "persist", "commit", "release"} : pc' = [pc EXCEPT ![p] = l]
    BY <1>4 DEF Advance, ModelAnswers, ModelCallsTools, RaiseApproval, PersistInterrupt,
       BatchInterrupted, AllPersisted, Goto
  <2> QED
    BY <1>1, <1>2, <2>1, <2>2 DEF AnswerInv, Started, Effective
<1>5. ASSUME NEW p \in Procs, Commit(p) PROVE AnswerInv'
  <2>1. UNCHANGED <<ledger, execStatus, task>> /\ pc[p] = "commit"
    BY <1>5 DEF Commit, approvalVars
  <2>2. CASE UNCHANGED turnVars /\ Goto(p, "release")
    BY <1>1, <1>2, <2>1, <2>2 DEF Goto, turnVars, AnswerInv, Started, Effective
  <2>3. CASE CommitConversationTurn(p, Author(p), Roles(p), Waits(p), nextStatus[p])
    <3>1. Author(p) \notin Authors
      BY <2>1 DEF Author, AnswerInv, Started, Effective
    <3>2. Authors' = Authors \cup {Author(p)} /\ AnsweredOnce'
      BY <2>3, <3>1, CommitAddsAuthor DEF AnswerInv
    <3>3. \E l \in {"done", "complete", "release"} :
            /\ pc' = [pc EXCEPT ![p] = l]
            /\ l = "complete" => p \in Workers
            /\ l = "done" => p \in Chats
      BY <1>5, <2>3 DEF Commit, Goto
    <3>4. CASE p \in Chats
      <4>1. Author(p) = p /\ p \notin Calls
        BY <3>4 DEF Author
      <4> QED
        BY <1>1, <2>1, <3>2, <3>3, <3>4, <4>1 DEF AnswerInv, Started, Effective
    <3>5. CASE p \in Workers
      <4>1. Author(p) = task[p] /\ task[p] \in Calls /\ task[p] \notin Chats
        BY <1>1, <2>1, <3>5 DEF Author
      <4>2. \A w \in Workers : pc[w] \in Started /\ task[w] = task[p] => w = p
        BY <2>1, <3>5 DEF LedgerInv, Started, Effective
      <4>3. ledger[task[p]] # "none"
        BY <2>1, <3>5 DEF LedgerInv, Started, Effective
      <4> QED
        BY <1>1, <2>1, <3>2, <3>3, <3>5, <4>1, <4>2, <4>3 DEF AnswerInv, Started, Effective
    <3> QED
      BY <3>4, <3>5
  <2> QED
    BY <1>5, <2>2, <2>3 DEF Commit
<1>6. ASSUME NEW w \in Workers, AdvanceResume(w) PROVE AnswerInv'
  <2>1. UNCHANGED history
    BY <1>6 DEF AdvanceResume, ResumeBegin, LedgerOpen, InvokeTool, LedgerClose, ResumeComplete,
       WorkerReturns, DropTurn, turnVars
  <2>2. CASE ResumeBegin(w) /\ BeginExecution(w, task[w]) /\ Goto(w, "claim") /\ UNCHANGED task
    BY <1>1, <1>2, <2>1, <2>2 DEF ResumeBegin, BeginExecution, Goto, ApprovalsTypeOK, AnswerInv,
       Started, Effective
  <2>3. CASE LedgerOpen(w)
    <3>1. UNCHANGED <<execStatus, task>> /\ pc[w] = "ledger"
      BY <2>3 DEF LedgerOpen, BeginToolInvocation, leaseVars, approvalVars
    <3>2. CASE BeginToolInvocation(task[w])
      <4>1. task[w] \notin Authors
        BY <1>1, <3>1, <3>2 DEF BeginToolInvocation, AnswerInv
      <4>2. \A a \in Calls : ledger[a] # "none" => ledger'[a] # "none"
        BY <1>1, <3>2 DEF BeginToolInvocation, ApprovalsTypeOK
      <4>3. \E l \in {"invoke", "release"} : pc' = [pc EXCEPT ![w] = l]
        BY <2>3, <3>2 DEF LedgerOpen, Goto
      <4> QED
        BY <1>1, <1>2, <2>1, <3>1, <4>1, <4>2, <4>3 DEF AnswerInv, Started, Effective
    <3>3. CASE UNCHANGED approvalVars /\ Goto(w, "release")
      BY <1>1, <1>2, <2>1, <3>1, <3>3 DEF Goto, approvalVars, AnswerInv, Started, Effective
    <3> QED
      BY <2>3, <3>2, <3>3 DEF LedgerOpen
  <2>4. CASE InvokeTool(w)
    BY <1>1, <1>2, <2>1, <2>4 DEF InvokeTool, Goto, approvalVars, AnswerInv, Started, Effective
  <2>5. CASE LedgerClose(w)
    <3>1. /\ UNCHANGED <<execStatus, task>>
          /\ \A a \in Calls : ledger[a] # "none" => ledger'[a] # "none"
      BY <1>1, <2>5 DEF LedgerClose, CompleteToolInvocation, leaseVars, approvalVars,
         ApprovalsTypeOK
    <3>2. /\ pc[w] = "record"
          /\ \E l \in {"model", "persist", "release"} : pc' = [pc EXCEPT ![w] = l]
      BY <2>5 DEF LedgerClose, Goto
    <3> QED
      BY <1>1, <1>2, <2>1, <3>1, <3>2 DEF AnswerInv, Started, Effective
  <2>6. CASE ResumeComplete(w)
    <3>1. /\ UNCHANGED ledger
          /\ pc[w] = "complete" /\ pc' = [pc EXCEPT ![w] = "idle"]
          /\ task' = [task EXCEPT ![w] = NoCall]
          /\ \A a \in Calls : execStatus'[a] = execStatus[a] \/ a = task[w]
      <4>1. task[w] \in Calls
        BY <1>1, <2>6 DEF ResumeComplete
      <4> QED BY <2>6, <4>1, CompleteMoves
    <3> QED
      BY <1>1, <1>2, <2>1, <3>1 DEF AnswerInv, Started, Effective
  <2> QED
    BY <1>6, <2>2, <2>3, <2>4, <2>5, <2>6 DEF AdvanceResume
<1> QED
  BY <1>3, <1>4, <1>5, <1>6, NextCalm

\* No turn has been committed yet.
LEMMA AnswerInit == Init => AnswerInv
<1> SUFFICES ASSUME Init PROVE AnswerInv
  OBVIOUS
<1>1. DOMAIN history = {}
  BY DEF Init, TurnsInit
<1>2. Authors = {} /\ AnsweredOnce
  BY <1>1 DEF Authors, AnsweredOnce
<1> QED
  BY <1>2, ProcsAssumption DEF Init, ApprovalsInit, AnswerInv, Started, Effective

\* A request or an approval leaves at most one turn in the conversation, even
\* when its commit is retried or several workers resumed it.
THEOREM OneAnswer == Spec => []AnsweredOnce
<1>1. TypeInv /\ LedgerInv /\ AnswerInv /\ [Next]_vars => TypeInv' /\ LedgerInv' /\ AnswerInv'
  BY TypeStep, LedgerStep, AnswerStep
<1>2. AnswerInv => AnsweredOnce
  BY DEF AnswerInv
<1> QED
  BY TypeInit, LedgerInit, AnswerInit, <1>1, <1>2, PTL DEF Spec

\* An approval is reported completed only after its tool took effect and its
\* answer is in the conversation.
THEOREM CompletedMeansAnswered == Spec => []CompletedIsAnswered
<1>1. TypeInv /\ LedgerInv /\ AnswerInv /\ [Next]_vars => TypeInv' /\ LedgerInv' /\ AnswerInv'
  BY TypeStep, LedgerStep, AnswerStep
<1>2. LedgerInv /\ AnswerInv => CompletedIsAnswered
  BY DEF LedgerInv, AnswerInv, Authors, CompletedIsAnswered
<1> QED
  BY TypeInit, LedgerInit, AnswerInit, <1>1, <1>2, PTL DEF Spec

-----------------------------------------------------------------------------
(* Waiting turns can be resumed *)

\* One step keeps the invariant about interrupted calls.
LEMMA WaitStep ==
    ASSUME TypeInv, TypeInv', WaitInv, [Next]_vars
    PROVE  WaitInv'
<1> USE ProcsAssumption DEF TypeInv, TypeOK, RunsTypeOK
<1>1. ASSUME UNCHANGED history,
             \A a \in Calls : apprStatus[a] # "none" => apprStatus'[a] # "none",
             \A a \in Calls : checkpoint[a] # {} => checkpoint'[a] # {}
      PROVE  AwaitedIsResumable'
  <2>1. \A i \in DOMAIN history : history[i].waits \in SUBSET Calls
    <3>1. history \in Seq(TurnRecord)
      BY DEF TurnsTypeOK
    <3>2. \A i \in DOMAIN history : history[i] \in TurnRecord
      BY <3>1
    <3> QED
      BY <3>2 DEF TurnRecord
  <2> QED
    BY <1>1, <2>1 DEF WaitInv, AwaitedIsResumable
<1>2. CASE Calm
  <2>1. AwaitedIsResumable'
    BY <1>1, <1>2 DEF Calm
  <2>2. \A p \in Procs : \/ /\ pc'[p] = pc[p] /\ suspended'[p] = suspended[p]
                            /\ unsaved'[p] = unsaved[p] /\ nextStatus'[p] = nextStatus[p]
                         \/ pc'[p] \notin {"tools", "persist", "commit"}
    BY <1>2 DEF Calm, CalmMove
  <2> QED
    BY <1>2, <2>1, <2>2 DEF Calm, WaitInv, Waits, ApprovalsTypeOK
<1>3. ASSUME NEW p \in Procs, Advance(p) PROVE WaitInv'
  <2>1. CASE ModelAnswers(p)
    <3>1. AwaitedIsResumable'
      BY <1>1, <2>1 DEF ModelAnswers, turnVars, approvalVars
    <3> QED
      BY <2>1, <3>1 DEF ModelAnswers, Goto, approvalVars, WaitInv, Waits, Statuses
  <2>2. CASE ModelCallsTools(p)
    <3>1. AwaitedIsResumable'
      BY <1>1, <2>2 DEF ModelCallsTools, turnVars, approvalVars
    <3> QED
      BY <2>2, <3>1 DEF ModelCallsTools, Goto, approvalVars, WaitInv, Waits
  <2>3. ASSUME NEW a \in Calls, RaiseApproval(p, a) PROVE WaitInv'
    <3>1. /\ \A b \in Calls : apprStatus[b] # "none" => apprStatus'[b] # "none"
          /\ apprStatus'[a] # "none"
          /\ UNCHANGED <<checkpoint, history, pc, unsaved, nextStatus>>
          /\ pc[p] = "tools" /\ suspended' = [suspended EXCEPT ![p] = @ \cup {a}]
      BY <2>3 DEF RaiseApproval, CreatePending, turnVars, ApprovalsTypeOK
    <3>2. AwaitedIsResumable'
      BY <1>1, <3>1
    <3> QED
      BY <3>1, <3>2 DEF WaitInv, Waits, ApprovalsTypeOK
  <2>4. ASSUME NEW a \in Calls, PersistInterrupt(p, a) PROVE WaitInv'
    <3>1. /\ UNCHANGED <<apprStatus, history, suspended, nextStatus>>
          /\ pc[p] = "persist" /\ a \in suspended[p]
      BY <2>4 DEF PersistInterrupt, SaveCheckpoint, turnVars, approvalVars, WaitInv
    <3>2. CASE SaveCheckpoint(a, suspended[p]) /\ unsaved' = [unsaved EXCEPT ![p] = @ \ {a}]
                 /\ UNCHANGED pc
      <4>1. checkpoint' = [checkpoint EXCEPT ![a] = suspended[p]]
        BY <3>2 DEF SaveCheckpoint
      <4>2. /\ \A b \in Calls : checkpoint[b] # {} => checkpoint'[b] # {}
            /\ checkpoint'[a] # {}
        BY <3>1, <4>1 DEF ApprovalsTypeOK
      <4>3. AwaitedIsResumable'
        BY <1>1, <3>1, <4>2
      <4>4. \A b \in Calls : \A c \in checkpoint'[b] : apprStatus[c] # "none"
        BY <3>1, <4>1 DEF WaitInv, ApprovalsTypeOK
      <4>5. \A q \in Procs : pc[q] = "persist" =>
              /\ unsaved'[q] \subseteq suspended[q]
              /\ \A b \in suspended[q] \ unsaved'[q] : checkpoint'[b] # {}
        BY <3>2, <4>2 DEF WaitInv
      <4>6. \A q \in Procs : Waits(q)' = Waits(q) /\ Waits(q) \in SUBSET Calls
        BY <3>1 DEF Waits
      <4> QED
        BY <3>1, <3>2, <4>2, <4>3, <4>4, <4>5, <4>6 DEF WaitInv
    <3>3. CASE UNCHANGED <<approvalVars, unsaved>> /\ Goto(p, "release")
      <4>1. AwaitedIsResumable'
        BY <1>1, <3>1, <3>3 DEF approvalVars
      <4> QED
        BY <3>1, <3>3, <4>1 DEF Goto, approvalVars, WaitInv, Waits
    <3> QED
      BY <2>4, <3>2, <3>3 DEF PersistInterrupt
  <2>5. CASE BatchInterrupted(p)
    <3>1. AwaitedIsResumable'
      BY <1>1, <2>5 DEF BatchInterrupted, turnVars, approvalVars
    <3> QED
      BY <2>5, <3>1 DEF BatchInterrupted, Goto, approvalVars, WaitInv, Waits
  <2>6. CASE AllPersisted(p)
    <3>1. AwaitedIsResumable'
      BY <1>1, <2>6 DEF AllPersisted, turnVars, approvalVars
    <3> QED
      BY <2>6, <3>1 DEF AllPersisted, Goto, approvalVars, WaitInv, Waits
  <2>7. CASE Commit(p)
    <3>1. UNCHANGED <<apprStatus, checkpoint, suspended, unsaved, nextStatus>> /\ pc[p] = "commit"
      BY <2>7 DEF Commit, approvalVars
    <3>2. \A q \in Procs : pc'[q] = pc[q] \/ pc'[q] \notin {"tools", "persist", "commit"}
      BY <2>7 DEF Commit, Goto
    <3>3. AwaitedIsResumable'
      <4>1. CASE UNCHANGED turnVars
        BY <1>1, <3>1, <4>1 DEF turnVars
      <4>2. CASE CommitConversationTurn(p, Author(p), Roles(p), Waits(p), nextStatus[p])
        <5> DEFINE rec == [turn |-> heldTurn[p], by |-> Author(p), roles |-> Roles(p),
                           waits |-> Waits(p)]
                   n == Len(history)
        <5>1. history' = Append(history, rec) /\ rec.waits = Waits(p)
          BY <4>2 DEF CommitConversationTurn
        <5> HIDE DEF rec
        <5>2. /\ n \in Nat
              /\ DOMAIN history = 1 .. n
              /\ DOMAIN history' = 1 .. n + 1
              /\ \A i \in 1 .. n : history'[i] = history[i]
              /\ history'[n + 1] = rec
          BY <5>1 DEF TurnsTypeOK
        <5> HIDE DEF n
        <5>3. 1 .. n + 1 = (1 .. n) \cup {n + 1}
          BY <5>2
        <5>4. \A a \in Waits(p) : apprStatus[a] # "none" /\ checkpoint[a] # {}
          BY <3>1 DEF WaitInv
        <5>5. \A i \in 1 .. n : \A a \in history[i].waits :
                apprStatus[a] # "none" /\ checkpoint[a] # {}
          BY <5>2 DEF WaitInv, AwaitedIsResumable
        <5>6. \A i \in 1 .. n + 1 : \A a \in history'[i].waits :
                apprStatus[a] # "none" /\ checkpoint[a] # {}
          <6> SUFFICES ASSUME NEW i \in 1 .. n + 1, NEW a \in history'[i].waits
                       PROVE  apprStatus[a] # "none" /\ checkpoint[a] # {}
            OBVIOUS
          <6>1. CASE i \in 1 .. n
            <7>1. history'[i] = history[i]
              BY <5>2, <6>1
            <7> QED
              BY <5>5, <6>1, <7>1
          <6>2. CASE i = n + 1
            <7>1. a \in Waits(p)
              BY <5>1, <5>2, <6>2
            <7> QED
              BY <5>4, <7>1
          <6> QED
            BY <5>3, <6>1, <6>2
        <5> QED
          BY <3>1, <5>2, <5>6 DEF AwaitedIsResumable
      <4> QED
        BY <2>7, <4>1, <4>2 DEF Commit
    <3> QED
      BY <3>1, <3>2, <3>3 DEF WaitInv, Waits
  <2> QED
    BY <1>3, <2>1, <2>2, <2>3, <2>4, <2>5, <2>6, <2>7 DEF Advance
<1>4. ASSUME NEW w \in Workers, AdvanceResume(w) PROVE WaitInv'
  <2>1. UNCHANGED <<history, apprStatus, checkpoint>>
    BY <1>4 DEF AdvanceResume, ResumeBegin, BeginExecution, LedgerOpen, BeginToolInvocation,
       InvokeTool, LedgerClose, CompleteToolInvocation, ResumeComplete, EndExecution,
       DropExecution, WorkerReturns, DropTurn, leaseVars, turnVars, approvalVars
  <2>2. AwaitedIsResumable'
    BY <1>1, <2>1
  <2>3. CASE LedgerClose(w) /\ Goto(w, "persist")
    <3>1. task[w] \in Calls
      BY <2>3 DEF LedgerClose, RunsOK
    <3>2. \E rest \in SUBSET checkpoint[task[w]] :
            /\ suspended' = [suspended EXCEPT ![w] = rest]
            /\ unsaved' = [unsaved EXCEPT ![w] = rest]
      BY <2>3 DEF LedgerClose, Goto
    <3>3. UNCHANGED nextStatus
      BY <2>3 DEF LedgerClose
    <3> QED
      BY <2>1, <2>2, <2>3, <3>1, <3>2, <3>3 DEF Goto, WaitInv, Waits
  <2>4. ASSUME \A p \in Procs : \/ /\ pc'[p] = pc[p] /\ suspended'[p] = suspended[p]
                                   /\ unsaved'[p] = unsaved[p] /\ nextStatus'[p] = nextStatus[p]
                                \/ pc'[p] \notin {"tools", "persist", "commit"}
        PROVE  WaitInv'
    BY <2>1, <2>2, <2>4 DEF WaitInv, Waits
  <2>5. CASE ResumeBegin(w) /\ Goto(w, "claim") /\ BeginExecution(w, task[w])
    BY <2>4, <2>5 DEF ResumeBegin, BeginExecution, Ready, Goto
  <2>6. CASE LedgerOpen(w) \/ InvokeTool(w)
    BY <2>4, <2>6 DEF LedgerOpen, InvokeTool, Goto
  <2>7. CASE LedgerClose(w) /\ (Goto(w, "model") \/ Goto(w, "release"))
    BY <2>4, <2>7 DEF LedgerClose, Goto
  <2>8. CASE ResumeComplete(w)
    BY <2>4, <2>8, ZenonT(40) DEF ResumeComplete, WorkerReturns, Forget, Goto
  <2>9. LedgerClose(w) => Goto(w, "persist") \/ Goto(w, "model") \/ Goto(w, "release")
    BY DEF LedgerClose
  <2> QED
    BY <1>4, <2>3, <2>5, <2>6, <2>7, <2>8, <2>9 DEF AdvanceResume
<1> QED
  BY <1>2, <1>3, <1>4, NextCalm

\* No call has been interrupted yet.
LEMMA WaitInit == Init => WaitInv
<1> SUFFICES ASSUME Init PROVE WaitInv
  OBVIOUS
<1>1. DOMAIN history = {}
  BY DEF Init, TurnsInit
<1> QED
  BY <1>1 DEF Init, ApprovalsInit, WaitInv, AwaitedIsResumable

\* Whatever a committed turn waits for can be decided and resumed: approval
\* and checkpoint are there before the conversation is given back.
THEOREM AwaitedCanResume == Spec => []AwaitedIsResumable
<1>1. TypeInv /\ WaitInv /\ [Next]_vars => TypeInv' /\ WaitInv'
  BY TypeStep, WaitStep
<1>2. WaitInv => AwaitedIsResumable
  BY DEF WaitInv
<1> QED
  BY TypeInit, WaitInit, <1>1, <1>2, PTL DEF Spec

-----------------------------------------------------------------------------
(* The flow implements GovernedCalls *)

\* A step that GovernedCalls does not see.
GovernedStill ==
    /\ UNCHANGED <<apprStatus, effects>>
    /\ \A a \in Calls : (execStatus'[a] = "completed") <=> (execStatus[a] = "completed")

\* The rows the abstract state is made of change in only four ways.
LEMMA GovernedRows ==
    ASSUME TypeInv, LedgerInv, [Next]_vars
    PROVE  \/ GovernedStill
           \/ \E a \in Calls : CreatePending(a) /\ UNCHANGED effects
           \/ \E a \in Calls, d \in {"approved", "rejected"} :
                ResolvePending(a, d) /\ UNCHANGED effects
           \/ \E w \in Workers : InvokeTool(w)
           \/ \E w \in Workers : ResumeComplete(w) /\ EndExecution(w, task[w], "completed")
<1> USE ProcsAssumption
<1>1. ASSUME UNCHANGED <<apprStatus, effects, execStatus>> PROVE GovernedStill
  BY <1>1 DEF GovernedStill
<1>2. ASSUME NEW p \in Chats, ChatStep(p) PROVE GovernedStill
  BY <1>1, <1>2 DEF ChatStep, ChatClaim, ChatPrepare, ChatRelease, approvalVars
<1>3. ASSUME NEW p \in Procs, RunStep(p)
      PROVE  GovernedStill \/ \E a \in Calls : CreatePending(a) /\ UNCHANGED effects
  <2>1. CASE \E a \in Calls : RaiseApproval(p, a)
    BY <2>1 DEF RaiseApproval
  <2>2. CASE \E a \in Calls : PersistInterrupt(p, a)
    BY <1>1, <2>2 DEF PersistInterrupt, SaveCheckpoint, leaseVars, approvalVars
  <2> QED
    BY <1>1, <1>3, <2>1, <2>2 DEF RunStep, ModelAnswers, ModelCallsTools,
       BatchInterrupted, AllPersisted, RunFails, Commit, approvalVars
<1>4. ASSUME NEW w \in Workers, ResumeStep(w)
      PROVE  GovernedStill \/ InvokeTool(w) \/ (ResumeComplete(w) /\ EndExecution(w, task[w], "completed"))
  <2>1. pc[w] # "idle" => task[w] \in Calls
    BY DEF TypeInv, RunsOK
  <2>2. execStatus \in [Calls -> {"not_started", "executing", "completed", "failed"}]
    BY DEF TypeInv, TypeOK, ApprovalsTypeOK
  <2>3. CASE ResumeBegin(w)
    <3>1. UNCHANGED <<apprStatus, effects>>
      BY <2>3 DEF ResumeBegin, BeginExecution, approvalVars
    <3>2. CASE BeginExecution(w, task[w])
      BY <2>1, <2>2, <2>3, <3>1, <3>2 DEF ResumeBegin, BeginExecution, Ready, GovernedStill
    <3> QED
      BY <1>1, <2>3, <3>1, <3>2 DEF ResumeBegin, approvalVars
  <2>4. CASE ResumeFail(w)
    <3>1. UNCHANGED <<apprStatus, effects>>
      BY <2>4 DEF ResumeFail, EndExecution, DropExecution, WorkerReturns
    <3>2. CASE EndExecution(w, task[w], "failed")
      BY <2>1, <2>2, <2>4, <3>1, <3>2 DEF ResumeFail, EndExecution, OwnsExecution,
         GovernedStill
    <3> QED
      BY <1>1, <2>4, <3>1, <3>2 DEF ResumeFail, DropExecution
  <2>5. CASE ResumeComplete(w) /\ DropExecution(w)
    BY <1>1, <2>5 DEF ResumeComplete, DropExecution, WorkerReturns
  <2>6. CASE LedgerOpen(w) \/ LedgerClose(w)
    BY <1>1, <2>6 DEF LedgerOpen, LedgerClose, BeginToolInvocation, CompleteToolInvocation,
       leaseVars, approvalVars
  <2>7. CASE BeginFails(w) \/ ResumeClaim(w) \/ ResumeLoad(w) \/ ResumeRelease(w) \/ LateHeartbeat(w)
    BY <1>1, <2>7 DEF BeginFails, ResumeClaim, ResumeLoad, ResumeRelease, LateHeartbeat, approvalVars
  <2> QED
    BY <1>4, <2>3, <2>4, <2>5, <2>6, <2>7 DEF ResumeStep, ResumeComplete
<1>5. ASSUME ApiStep
      PROVE  \/ GovernedStill
             \/ \E a \in Calls, d \in {"approved", "rejected"} :
                  ResolvePending(a, d) /\ UNCHANGED effects
  BY <1>1, <1>5 DEF ApiStep, Approve, Reject, ApproveEnqueue, approvalVars
<1>6. ASSUME QueueStep PROVE GovernedStill
  BY <1>1, <1>6 DEF QueueStep, Deliver, DispatchList, DispatchEnqueue, DispatchAborts, Redeliver,
     approvalVars
<1>7. ASSUME LeaseStep \/ UNCHANGED vars PROVE GovernedStill
  BY <1>1, <1>7 DEF LeaseStep, HeartbeatTurn, HeartbeatExecution, TurnExpires, ExecutionExpires,
     RenewExecution, ExecutionLeaseRunsOut, approvalVars, vars
<1>8. ASSUME CrashStep PROVE GovernedStill
  BY <1>1, <1>8 DEF CrashStep, ChatCrash, WorkerCrash, WorkerReturns, DropExecution, approvalVars
<1> QED
  BY <1>2, <1>3, <1>4, <1>5, <1>6, <1>7, <1>8 DEF Next

\* Every step of the flow is a step of GovernedCalls or leaves it alone.
LEMMA GovernedStep ==
    ASSUME TypeInv, TypeInv', LedgerInv, [Next]_vars
    PROVE  [Governed!GovNext]_(Governed!govVars)
<1> DEFINE done == [a \in Calls |-> execStatus[a] = "completed"]
<1>0. /\ effects \in [Calls -> Nat] /\ effects' \in [Calls -> Nat]
      /\ execStatus \in [Calls -> {"not_started", "executing", "completed", "failed"}]
  BY DEF TypeInv, TypeOK, RunsTypeOK, ApprovalsTypeOK
<1>1. CASE GovernedStill
  <2>1. done' = done
    BY <1>1, Zenon DEF GovernedStill
  <2> QED
    BY <1>1, <2>1 DEF GovernedStill, Governed!govVars
<1>2. ASSUME NEW a \in Calls, CreatePending(a), UNCHANGED effects
      PROVE  Governed!GovNext
  <2>1. done' = done
    BY <1>2 DEF CreatePending, leaseVars
  <2> QED
    BY <1>2, <2>1 DEF CreatePending, Governed!GovNext, Governed!Request
<1>3. ASSUME NEW a \in Calls, NEW d \in {"approved", "rejected"}, ResolvePending(a, d),
             UNCHANGED effects
      PROVE  Governed!GovNext
  <2>1. done' = done
    BY <1>3 DEF ResolvePending, leaseVars
  <2> QED
    BY <1>3, <2>1 DEF ResolvePending, Governed!GovNext, Governed!Decide
<1>4. ASSUME NEW w \in Workers, InvokeTool(w) PROVE Governed!GovNext
  <2>1. done' = done /\ UNCHANGED apprStatus
    BY <1>4 DEF InvokeTool, approvalVars
  <2>2. task[w] \in Calls /\ apprStatus[task[w]] = "approved" /\ effects[task[w]] = 0
    BY <1>4 DEF InvokeTool, TypeInv, RunsOK, LedgerInv
  <2>3. effects' = [effects EXCEPT ![task[w]] = 1]
    BY <1>0, <1>4, <2>2 DEF InvokeTool
  <2> QED
    BY <2>1, <2>2, <2>3 DEF Governed!GovNext, Governed!TakeEffect
<1>5. ASSUME NEW w \in Workers, ResumeComplete(w), EndExecution(w, task[w], "completed")
      PROVE  Governed!GovNext
  <2>1. task[w] \in Calls /\ effects[task[w]] = 1
    BY <1>5 DEF ResumeComplete, TypeInv, RunsOK, LedgerInv, Effective
  <2>2. UNCHANGED <<apprStatus, effects>>
    BY <1>5 DEF ResumeComplete, EndExecution, WorkerReturns
  <2>3. /\ execStatus[task[w]] = "executing"
        /\ execStatus' = [execStatus EXCEPT ![task[w]] = "completed"]
    BY <1>5 DEF EndExecution, OwnsExecution
  <2>4. ~done[task[w]]
    BY <2>1, <2>3
  <2>5. \A a \in Calls : done'[a] = IF a = task[w] THEN TRUE ELSE done[a]
    BY <1>0, <2>1, <2>3
  <2>6. done' = [done EXCEPT ![task[w]] = TRUE]
    BY <2>1, <2>5, Zenon
  <2> QED
    BY <2>1, <2>2, <2>4, <2>6 DEF Governed!GovNext, Governed!Report
<1> QED
  BY <1>1, <1>2, <1>3, <1>4, <1>5, GovernedRows

\* Seen from outside, the approval flow is GovernedCalls: a person decides
\* once, an approved call takes effect at most once and is reported completed
\* only after that, a rejected one never runs.
THEOREM FlowImplementsGoverned == Spec => GovernedSpec
<1>1. Init => Governed!GovInit
  BY DEF Init, ApprovalsInit, Governed!GovInit
<1>2. TypeInv /\ LedgerInv /\ [Next]_vars => TypeInv' /\ LedgerInv'
  BY TypeStep, LedgerStep
<1>3. TypeInv /\ LedgerInv /\ [Next]_vars => [Governed!GovNext]_(Governed!govVars)
  BY <1>2, GovernedStep
<1> QED
  BY TypeInit, LedgerInit, <1>1, <1>2, <1>3, PTL DEF Spec, GovernedSpec, Governed!GovSpec
===========================================================================
