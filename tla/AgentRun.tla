------------------------------ MODULE AgentRun ------------------------------
(***************************************************************************)
(* The inside of an agent run, which ApprovalFlow takes for one step: the  *)
(* ReAct loop of runWithADK and resumeWithADK, the middleware around every *)
(* tool call, and the event stream between ChatStream's goroutine and the  *)
(* HTTP handler.                                                           *)
(*                                                                         *)
(* The model is free to call any tool with any arguments.  The framework   *)
(* (Eino, external) runs the calls of a batch in order, goes on after an   *)
(* interrupt, and on resume runs again only the interrupted ones.          *)
(*                                                                         *)
(* pc:  idle -> starting -> input -> model -> calling -> tools <-> check   *)
(*      -> model ... -> [persist -> approvals ->] commit -> [finish ->]    *)
(*      done -> ended, with "error" on the way to ended when a step fails. *)
(***************************************************************************)
EXTENDS SkillPolicy, FiniteSets, SequencesExt

CONSTANTS
    Runs,           \* chat requests
    MaxSteps,       \* model calls per run, maxStepsOf
    MaxRetries,     \* of one model call
    MaxBatch,       \* bound: calls in one answer
    ModelCalls,     \* bound: the calls the model may choose from
    EventCap        \* capacity of the event channel, 16

ASSUME RunAssumption ==
    /\ ModelCalls \subseteq ToolCalls \cup Loads
    /\ MaxSteps \in Nat \ {0} /\ MaxRetries \in Nat
    /\ MaxBatch \in Nat /\ EventCap \in Nat \ {0}

VARIABLES
    run,            \* run[r]: the goroutine
    stream,         \* stream[r]: its channel and the handler that reads it
    last            \* last[r]: history, the tool call it executed last

vars == <<run, stream, last>>

AnySkill == Skills \cup {NoSkill}

\* An interrupt: the call, the skill kept with it, and as history the skill that
\* was active when it was raised.
Held == [pos : Nat, skill : AnySkill, raised : AnySkill]
Batches == BoundedSeq(ModelCalls, MaxBatch)

Idle ==
    [pc |-> "idle", network |-> FALSE, explicit |-> NoSkill, active |-> NoSkill,
     steps |-> 0, attempts |-> 0, batch |-> <<>>, todo |-> {}, denied |-> FALSE,
     failing |-> FALSE, held |-> {}, stored |-> {}, saved |-> {}, target |-> 0,
     resumed |-> FALSE, cancelled |-> FALSE, asked |-> NoSkill, next |-> "active", committed |-> "none"]

Listening == [chan |-> <<>>, client |-> "connected", approval |-> FALSE,
              reply |-> "none", lost |-> FALSE]

NothingYet == [call |-> "none"]

Init ==
    /\ run = [r \in Runs |-> Idle]
    /\ stream = [r \in Runs |-> Listening]
    /\ last = [r \in Runs |-> NothingYet]

Pcs == {"idle", "starting", "input", "model", "calling", "tools", "check", "persist",
        "approvals", "commit", "finish", "done", "error", "ended"}

Goroutines ==
    [pc : Pcs, network : BOOLEAN, explicit : AnySkill, active : AnySkill,
     steps : 0 .. MaxSteps, attempts : 0 .. MaxRetries, batch : Batches, todo : SUBSET Nat,
     denied : BOOLEAN, failing : BOOLEAN, held : SUBSET Held, stored : SUBSET Held,
     saved : SUBSET Nat, target : Nat, resumed : BOOLEAN, cancelled : BOOLEAN,
     asked : AnySkill, next : {"active", "awaiting_approval"},
     committed : {"none", "active", "awaiting_approval"}]

Streams ==
    [chan : BoundedSeq({"info", "approval", "error", "done"}, EventCap),
     client : {"connected", "gone"}, approval : BOOLEAN,
     reply : {"none", "error", "completed", "awaiting_approval"}, lost : BOOLEAN]

TypeOK ==
    /\ run \in [Runs -> Goroutines]
    /\ \A r \in Runs : run[r].todo \cup run[r].saved \subseteq DOMAIN run[r].batch
    /\ stream \in [Runs -> Streams]
    /\ DOMAIN last = Runs

Goto(r, label) == run' = [run EXCEPT ![r].pc = label]

-----------------------------------------------------------------------------
(* emitter *)

\* Resume reads its own channel until it is closed: its sends never wait.
Put(r, e) ==
    IF run[r].resumed THEN UNCHANGED stream
    ELSE /\ Len(stream[r].chan) < EventCap
         /\ stream' = [stream EXCEPT ![r].chan = Append(@, e)]

\* Mutant: send does not select on ctx.Done.
NotPutEver(r) == FALSE /\ UNCHANGED stream

\* send returns false: the context is cancelled.  With room in the channel the
\* select may take either branch.
NotPut(r) == run[r].cancelled /\ UNCHANGED stream

\* A send whose result the caller ignores.
Send(r, e) == Put(r, e) \/ NotPut(r)

-----------------------------------------------------------------------------
(* ChatStream up to the loop *)

\* ChatStream returned a channel and started the goroutine; the version allows
\* the network or not, and the message may name a skill.
Start(r) ==
    /\ run[r].pc = "idle"
    /\ \E network \in BOOLEAN, explicit \in Skills \cup {NoSkill} :
          run' = [run EXCEPT ![r].pc = "starting", ![r].network = network,
                             ![r].explicit = explicit]
    /\ UNCHANGED <<stream, last>>

SendStarted(r) ==
    /\ run[r].pc = "starting"
    /\ \/ Put(r, "info") /\ Goto(r, "input")
       \/ NotPut(r) /\ Goto(r, "ended")
    /\ UNCHANGED last

\* Guard.OnInput and PrepareExecution pass or fail.
GuardInput(r) ==
    /\ run[r].pc = "input"
    /\ Goto(r, "model") \/ Goto(r, "error")
    /\ UNCHANGED <<stream, last>>

-----------------------------------------------------------------------------
(* The model *)

\* BeforeModelRewriteState: the call is counted against the limits.
CallModel(r) ==
    /\ run[r].pc = "model"
    /\ \/ /\ run[r].steps < MaxSteps
          /\ run' = [run EXCEPT ![r].pc = "calling", ![r].steps = @ + 1, ![r].attempts = 0]
       \/ Goto(r, "error")
    /\ UNCHANGED <<stream, last>>

\* The provider fails; the framework retries as the plan says.
ModelFails(r) ==
    /\ run[r].pc = "calling"
    /\ \/ /\ run[r].attempts < MaxRetries
          /\ run' = [run EXCEPT ![r].attempts = @ + 1]
       \/ /\ run[r].attempts = MaxRetries \/ run[r].cancelled
          /\ Goto(r, "error")
    /\ UNCHANGED <<stream, last>>

\* The model answers with tool calls: AfterModelRewriteState.
ModelCallsTools(r) ==
    /\ run[r].pc = "calling"
    /\ \E batch \in Batches \ {<<>>} :
          run' = [run EXCEPT ![r].pc = "tools", ![r].batch = batch,
                             ![r].todo = DOMAIN batch, ![r].failing = FALSE,
                             ![r].asked = run[r].active,
                             ![r].denied = BatchDenied(batch, run[r].active, run[r].network)]
    /\ UNCHANGED <<stream, last>>

\* The model answers with text, sent as it comes; a text without anything to
\* show is an error (validateFinalAnswer), and so is a send that fails.
ModelAnswers(r) ==
    /\ run[r].pc = "calling"
    /\ \/ /\ Put(r, "info")
          /\ run' = [run EXCEPT ![r].pc = "commit", ![r].next = "active"]
       \/ NotPut(r) /\ Goto(r, "error")
       \/ Goto(r, "error") /\ UNCHANGED stream
    /\ UNCHANGED last

-----------------------------------------------------------------------------
(* runtimeToolMiddleware, one call at a time *)

Pos(r) == CHOOSE i \in run[r].todo : \A j \in run[r].todo : i <= j
CallOf(r) == run[r].batch[Pos(r)]
AtCall(r) == run[r].pc = "tools" /\ run[r].todo # {}

\* The skill tool: it passes no check of the middleware.
LoadSkill(r) ==
    /\ AtCall(r) /\ IsLoad(CallOf(r))
    /\ LET g == run[r]
           s == CallOf(r).load
           on == Activates(s, g.explicit, g.network)
       IN  /\ run' = [run EXCEPT ![r].todo = @ \ {Pos(r)},
                                 ![r].active = IF on THEN s ELSE @]
           /\ IF on THEN Send(r, "info") ELSE UNCHANGED stream
    /\ UNCHANGED last

\* The call is announced to the client and passes the tool hook of the guard.
Announce(r) ==
    /\ AtCall(r) /\ ~IsLoad(CallOf(r))
    /\ Put(r, "info")
    /\ Goto(r, "check")
    /\ UNCHANGED last

\* The call fails with an error that ends the run: the send, the guard, the
\* insert of the approval or the ledger.
CallFails(r) ==
    /\ \/ run[r].pc = "check"
       \/ AtCall(r) /\ ~IsLoad(CallOf(r)) /\ run[r].cancelled
    /\ run' = [run EXCEPT ![r].pc = "tools", ![r].todo = @ \ {Pos(r)}, ![r].failing = TRUE]
    /\ UNCHANGED <<stream, last>>

\* Mutant: only the verdict on the batch counts.
PassesBatchOnly(r) == ~run[r].denied

\* batchPolicyResult, then toolPolicyError again: a skill may have been
\* activated earlier in this batch.
Passes(r) == ~run[r].denied /\ Permitted(CallOf(r), run[r].active, run[r].network)

Refuse(r) ==
    /\ run[r].pc = "check" /\ ~Passes(r)
    /\ run' = [run EXCEPT ![r].pc = "tools", ![r].todo = @ \ {Pos(r)}]
    /\ Send(r, "info")
    /\ UNCHANGED last

\* interruptForApproval: the skill a call was interrupted under is restored
\* when it runs again; a call that is new takes the one that is active.
SkillOf(r) ==
    LET before == {h \in run[r].stored : h.pos = Pos(r) /\ h.skill # NoSkill} IN
    IF before = {} THEN run[r].active ELSE (CHOOSE h \in before : TRUE).skill

Earlier(r) == {h \in run[r].stored : h.pos = Pos(r)}

\* Mutant: a new interrupt does not name the skill that is active.
InterruptUnnamed(r) ==
    IF Earlier(r) # {} THEN Earlier(r)
    ELSE {[pos |-> Pos(r), skill |-> NoSkill, raised |-> run[r].active]}

\* A new interrupt names the skill that is active; one that is raised again is
\* raised as it was stored.
Interrupt(r) ==
    IF Earlier(r) # {} THEN Earlier(r)
    ELSE {[pos |-> Pos(r), skill |-> run[r].active, raised |-> run[r].active]}

\* A sensitive call that is not the one resumed is interrupted (again).
Suspend(r) ==
    /\ run[r].pc = "check" /\ Passes(r)
    /\ CallOf(r).tool \in Sensitive /\ run[r].target # Pos(r)
    /\ run' = [run EXCEPT ![r].pc = "tools", ![r].todo = @ \ {Pos(r)},
                          ![r].active = SkillOf(r),
                          ![r].held = @ \cup Interrupt(r)]
    /\ UNCHANGED <<stream, last>>

\* executeGovernedTool: the tool runs, and its result is entered in the ledger
\* and sent; when the ledger cannot be written the call fails after its effect.
Execute(r) ==
    /\ run[r].pc = "check" /\ Passes(r)
    /\ CallOf(r).tool \in Sensitive => run[r].target = Pos(r)
    /\ \E recorded \in BOOLEAN :
          /\ run' = [run EXCEPT ![r].pc = "tools", ![r].todo = @ \ {Pos(r)},
                                ![r].active = SkillOf(r), ![r].failing = @ \/ ~recorded]
          /\ IF recorded THEN Send(r, "info") ELSE UNCHANGED stream
    /\ last' = [last EXCEPT ![r] =
          [call |-> CallOf(r), active |-> SkillOf(r), network |-> run[r].network,
           raised |-> {h.raised : h \in Earlier(r)},
           asked |-> run[r].asked,
           siblings |-> {run[r].batch[i] : i \in DOMAIN run[r].batch} \ Loads]]

\* The framework returns the first error, at once or after the other calls,
\* or the interrupts, or goes on.
BatchEnds(r) ==
    /\ run[r].pc = "tools"
    /\ run[r].todo = {} \/ run[r].failing
    /\ IF ~run[r].failing /\ run[r].held # {}
       THEN Goto(r, "persist")
       ELSE run' = [run EXCEPT ![r].pc = IF run[r].failing THEN "error" ELSE "model",
                               ![r].batch = <<>>, ![r].todo = {}, ![r].held = {},
                               ![r].stored = {}, ![r].saved = {}, ![r].target = 0]
    /\ last' = [last EXCEPT ![r] = NothingYet]
    /\ UNCHANGED stream

-----------------------------------------------------------------------------
(* The end of a run, and its resumption *)

HeldPos(r) == {h.pos : h \in run[r].held}

\* persistApprovalInterrupts: a second checkpoint of an approval is refused.
Persist(r) ==
    /\ run[r].pc = "persist"
    /\ \/ /\ HeldPos(r) \cap run[r].saved = {}
          /\ run' = [run EXCEPT ![r].pc = IF run[r].resumed THEN "commit" ELSE "approvals",
                                ![r].saved = @ \cup HeldPos(r),
                                ![r].todo = HeldPos(r),
                                ![r].next = "awaiting_approval"]
       \/ Goto(r, "error")
    /\ UNCHANGED <<stream, last>>

\* emitApprovalEvents: todo holds the interrupts still to be sent.
EmitApproval(r) ==
    /\ run[r].pc = "approvals"
    /\ IF run[r].todo = {}
       THEN Goto(r, "commit") /\ UNCHANGED stream
       ELSE /\ run' = [run EXCEPT ![r].todo = @ \ {Pos(r)}]
            /\ Send(r, "approval")
    /\ UNCHANGED last

\* Mutant: the error of the commit is dropped.
CommitAnyway(r) ==
    /\ run[r].pc = "commit"
    /\ \E saved \in {run[r].next, "none"} :
          run' = [run EXCEPT ![r].committed = saved,
                             ![r].pc = IF run[r].resumed THEN "ended"
                                       ELSE IF run[r].next = "active" THEN "finish"
                                       ELSE "done"]
    /\ UNCHANGED <<stream, last>>

\* commitConversationTurn is not cancelled with the run, but may fail.
Commit(r) ==
    /\ run[r].pc = "commit"
    /\ \/ run' = [run EXCEPT ![r].committed = run[r].next,
                             ![r].pc = IF run[r].resumed THEN "ended"
                                       ELSE IF run[r].next = "active" THEN "finish"
                                       ELSE "done"]
       \/ Goto(r, "error")
    /\ UNCHANGED <<stream, last>>

SendAnswerDone(r) ==
    /\ run[r].pc = "finish"
    /\ \/ Put(r, "info") /\ Goto(r, "done")
       \/ NotPut(r) /\ Goto(r, "ended")
    /\ UNCHANGED last

SendDone(r) ==
    /\ run[r].pc = "done"
    /\ Send(r, "done")
    /\ Goto(r, "ended")
    /\ UNCHANGED last

SendError(r) ==
    /\ run[r].pc = "error"
    /\ Send(r, "error")
    /\ Goto(r, "ended")
    /\ UNCHANGED last

\* Engine.Resume of one suspended call: resumeWithADK starts from a new
\* agentRunState, without an active skill, an explicit one or a verdict.
Resume(r) ==
    /\ run[r].pc = "ended" /\ run[r].committed = "awaiting_approval"
    /\ \E i \in HeldPos(r) :
          run' = [run EXCEPT ![r] =
                    [@ EXCEPT !.pc = "tools", !.resumed = TRUE, !.target = i,
                              !.todo = HeldPos(r), !.stored = run[r].held, !.held = {},
                              !.active = NoSkill, !.explicit = NoSkill, !.denied = FALSE,
                              !.failing = FALSE, !.cancelled = FALSE, !.committed = "none"]]
    /\ UNCHANGED <<stream, last>>

Running(r) == run[r].pc \notin {"idle", "ended"}

\* renewConversationTurn (or renewApprovalLease) fails and cancels the run.
\* The first renewal is due after 30 seconds.
LoseTurn(r) ==
    /\ Running(r) /\ run[r].pc # "starting" /\ ~run[r].cancelled
    /\ run' = [run EXCEPT ![r].cancelled = TRUE]
    /\ stream' = [stream EXCEPT ![r].lost = TRUE]
    /\ UNCHANGED last

-----------------------------------------------------------------------------
(* The handler: Chat collects the events into one response *)

\* An error is answered at once; returning cancels the request's context.
ReadEvent(r) ==
    /\ stream[r].chan # <<>> /\ stream[r].reply = "none"
    /\ LET e == Head(stream[r].chan) IN
       /\ stream' = [stream EXCEPT ![r].chan = Tail(@),
                                   ![r].approval = @ \/ e = "approval",
                                   ![r].reply = IF e = "error" THEN "error" ELSE @]
       /\ run' = [run EXCEPT ![r].cancelled = @ \/ (e = "error" /\ Running(r))]
    /\ UNCHANGED last

\* The channel is closed and empty.
Reply(r) ==
    /\ run[r].pc = "ended" /\ stream[r].chan = <<>> /\ stream[r].reply = "none"
    /\ stream' = [stream EXCEPT ![r].reply =
                     IF stream[r].approval THEN "awaiting_approval" ELSE "completed"]
    /\ UNCHANGED <<run, last>>

\* The client goes away: the context of the request is cancelled.
Disconnect(r) ==
    /\ run[r].pc # "idle" /\ stream[r].client = "connected" /\ stream[r].reply = "none"
    /\ stream' = [stream EXCEPT ![r].client = "gone"]
    /\ run' = [run EXCEPT ![r].cancelled = @ \/ (Running(r) /\ ~run[r].resumed)]
    /\ UNCHANGED last

-----------------------------------------------------------------------------
Step(r) ==
    \/ SendStarted(r) \/ GuardInput(r) \/ CallModel(r) \/ ModelFails(r)
    \/ ModelCallsTools(r) \/ ModelAnswers(r)
    \/ LoadSkill(r) \/ Announce(r) \/ CallFails(r) \/ Refuse(r) \/ Suspend(r) \/ Execute(r)
    \/ BatchEnds(r) \/ Persist(r) \/ EmitApproval(r) \/ Commit(r)
    \/ SendAnswerDone(r) \/ SendDone(r) \/ SendError(r)

Next == \E r \in Runs :
    \/ Start(r) \/ Step(r) \/ Resume(r) \/ LoseTurn(r)
    \/ ReadEvent(r) \/ Reply(r) \/ Disconnect(r)

Spec == Init /\ [][Next]_vars

\* The goroutine is scheduled, model calls and tools time out, and a client
\* reads what it is sent or goes away; when it is gone nobody need read.
Fairness == \A r \in Runs :
    /\ WF_vars(Step(r))
    /\ WF_vars(stream[r].client = "connected" /\ (ReadEvent(r) \/ Disconnect(r)))

FairSpec == Spec /\ Fairness

-----------------------------------------------------------------------------
(* Properties *)

\* A tool that ran was allowed by the version and the skill active at that
\* moment, and a batch with a call that violated the policy when the model
\* answered has no effect at all, also if it was interrupted and resumed
\* (toolPolicyError, setBatchPolicy; skill_policy_test.go:57).
ExecutedWasPermitted ==
    \A r \in Runs : last[r] # NothingYet =>
        /\ Permitted(last[r].call, last[r].active, last[r].network)
        /\ \A c \in last[r].siblings : Permitted(c, last[r].asked, last[r].network)

\* An approved call runs under the skill that was active when it was first
\* interrupted, although every run that resumes its batch starts without one and
\* may interrupt it again (interruptForApproval, approvalInterruptState).
SkillRestored ==
    \A r \in Runs : last[r] # NothingYet =>
        \A s \in last[r].raised : s = NoSkill \/ last[r].active = s

\* A reply "completed" means that the turn was saved, and "awaiting_approval"
\* that it was saved as waiting, if the run kept its turn (Chat, ChatStream).
RepliesAreTrue ==
    \A r \in Runs : ~stream[r].lost /\ stream[r].client = "connected" /\ ~run[r].resumed =>
        /\ stream[r].reply = "completed" => run[r].committed = "active"
        /\ stream[r].reply = "awaiting_approval" => run[r].committed = "awaiting_approval"

\* A run ends, also when nobody reads its events any more (emitter.send).
RunEnds == \A r \in Runs : Running(r) ~> run[r].pc = "ended"
=============================================================================
