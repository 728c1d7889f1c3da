--------------------------- MODULE AgentRunProofs ---------------------------
(***************************************************************************)
(* Proofs about an agent run: no tool runs that the version or the active  *)
(* skill forbids, an approved call runs under the skill it was interrupted *)
(* under, and what the handler replies is what was saved.                  *)
(***************************************************************************)
EXTENDS AgentRun, SequenceTheorems, WellFoundedInduction, TLAPS

\* A non-empty set of natural numbers has a least element, which Pos names.
LEMMA LeastElement ==
    ASSUME NEW S, S \subseteq Nat, S # {}
    PROVE  (CHOOSE i \in S : \A j \in S : i <= j) \in S
<1>1. PICK x \in S : \A y \in S : ~(<<y, x>> \in OpToRel(<, Nat))
  BY NatLessThanWellFounded, WFMin
<1>2. ASSUME NEW y \in S PROVE x <= y
  <2>1. x \in Nat /\ y \in Nat
    OBVIOUS
  <2>2. ~(y < x)
    BY <1>1, <2>1 DEF OpToRel
  <2> QED BY <2>1, <2>2
<1> QED BY <1>2

LEMMA BoundedSeqIs ==
    ASSUME NEW S, NEW n \in Nat, NEW s
    PROVE  s \in BoundedSeq(S, n) <=> s \in Seq(S) /\ Len(s) <= n
<1>1. ASSUME s \in BoundedSeq(S, n) PROVE s \in Seq(S) /\ Len(s) <= n
  <2>1. PICK k \in 0 .. n : s \in [1 .. k -> S]
    BY <1>1 DEF BoundedSeq, SeqOf
  <2> QED BY <2>1
<1>2. ASSUME s \in Seq(S), Len(s) <= n PROVE s \in BoundedSeq(S, n)
  <2>1. s \in [1 .. Len(s) -> S] /\ Len(s) \in 0 .. n
    BY <1>2
  <2> QED BY <2>1 DEF BoundedSeq, SeqOf
<1> QED BY <1>1, <1>2

LEMMA BatchDomain ==
    ASSUME NEW b \in Batches
    PROVE  DOMAIN b \subseteq Nat
<1>1. b \in Seq(ModelCalls)
  BY BoundedSeqIs, RunAssumption DEF Batches
<1> QED BY <1>1

LEMMA EmptyBatch == <<>> \in Batches /\ DOMAIN <<>> = {}
<1>1. <<>> \in Seq(ModelCalls) /\ Len(<<>>) <= MaxBatch
  BY RunAssumption
<1>2. <<>> \in Batches
  BY <1>1, BoundedSeqIs, RunAssumption DEF Batches
<1> QED BY <1>2

-----------------------------------------------------------------------------
(* The goroutine *)

\* The model's answer was judged as a whole.
Judged(g) ==
    \A i \in DOMAIN g.batch :
        IsLoad(g.batch[i]) \/ Permitted(g.batch[i], g.asked, g.network)

\* An interrupt names a call of the batch and the skill it was raised under,
\* which permits the call, and a call is interrupted once.
HeldOK(g, H) ==
    /\ \A h \in H : /\ h.pos \in DOMAIN g.batch /\ h.skill = h.raised
                    /\ Permitted(g.batch[h.pos], h.skill, g.network)
    /\ \A h, k \in H : h.pos = k.pos => h = k

Least(S) == CHOOSE i \in S : \A j \in S : i <= j

Early == {"idle", "starting", "input", "model", "calling"}
InBatch == {"tools", "check"}

GoodRun(g) ==
    /\ g.todo \cup g.saved \subseteq DOMAIN g.batch
    /\ g.pc \in Early => g.held = {} /\ g.stored = {} /\ g.saved = {}
    /\ (g.pc \in InBatch /\ ~g.denied) \/ g.held # {} \/ g.stored # {} => Judged(g)
    /\ HeldOK(g, g.held) /\ HeldOK(g, g.stored)
    /\ g.pc \in InBatch => \A h \in g.held : h.pos \notin g.todo
    /\ g.pc = "check" => g.todo # {}

\* A step that changes no more than the place, the counters and the skill that
\* is active, and stays out of a batch.
LEMMA OnlyPlace ==
    ASSUME NEW g \in Goroutines, GoodRun(g), NEW h \in Goroutines,
           h.batch = g.batch, h.saved = g.saved, h.held = g.held,
           h.stored = g.stored, h.network = g.network, h.asked = g.asked,
           h.todo \subseteq g.todo,
           h.pc \in Early => g.pc \in Early,
           h.pc \notin InBatch
    PROVE  GoodRun(h)
BY DEF GoodRun, Judged, HeldOK, Early, InBatch

\* A step inside a batch that takes a call off the list.
LEMMA OneLess ==
    ASSUME NEW g \in Goroutines, GoodRun(g), NEW h \in Goroutines,
           h.batch = g.batch, h.saved = g.saved, h.held = g.held,
           h.stored = g.stored, h.network = g.network, h.asked = g.asked,
           h.denied = g.denied, h.todo \subseteq g.todo,
           g.pc \in InBatch, h.pc = "tools"
    PROVE  GoodRun(h)
BY DEF GoodRun, Judged, HeldOK, Early, InBatch

RunTypeOK == run \in [Runs -> Goroutines] /\ \A q \in Runs : GoodRun(run[q])

\* What the parts of a step have to show: the record of its run is a good one.
Becomes(r, h) ==
    h \in Goroutines /\ GoodRun(h) /\ run' = [run EXCEPT ![r] = h]

LEMMA BecomesGood ==
    ASSUME RunTypeOK, NEW r \in Runs, NEW h, Becomes(r, h)
    PROVE  RunTypeOK'
BY DEF RunTypeOK, Becomes

LEMMA PosInTodo ==
    ASSUME RunTypeOK, NEW r \in Runs, run[r].todo # {}
    PROVE  Pos(r) \in run[r].todo
<1>1. run[r].todo \subseteq Nat
  BY DEF RunTypeOK, Goroutines
<1> QED BY <1>1, LeastElement DEF Pos

\* Steps outside a batch.
LEMMA PlainSteps ==
    ASSUME RunTypeOK, NEW r \in Runs,
           \/ Start(r) \/ SendStarted(r) \/ GuardInput(r) \/ CallModel(r) \/ ModelFails(r)
           \/ ModelAnswers(r) \/ EmitApproval(r) \/ Commit(r)
           \/ SendAnswerDone(r) \/ SendDone(r) \/ SendError(r)
    PROVE  \E h : Becomes(r, h)
<1> PICK g \in Goroutines : g = run[r]
  BY DEF RunTypeOK
<1>g. GoodRun(g) /\ run = [run EXCEPT ![r] = g]
  BY DEF RunTypeOK
<1>1. ASSUME NEW l \in Pcs \ InBatch, Goto(r, l), l \in Early => g.pc \in Early
      PROVE  \E h : Becomes(r, h)
  <2> DEFINE h == [g EXCEPT !.pc = l]
  <2>1. run' = [run EXCEPT ![r] = h]
    BY <1>1 DEF Goto, RunTypeOK
  <2>2. h \in Goroutines
    BY <1>1 DEF Goroutines
  <2>3. GoodRun(h)
    <3>1. /\ h.batch = g.batch /\ h.saved = g.saved /\ h.held = g.held
          /\ h.stored = g.stored /\ h.network = g.network /\ h.asked = g.asked
          /\ h.todo \subseteq g.todo /\ h.pc = l
      BY DEF Goroutines
    <3> HIDE DEF h
    <3> QED BY <1>1, <1>g, <2>2, <3>1, OnlyPlace
  <2> QED BY <2>1, <2>2, <2>3 DEF Becomes
<1>2. CASE Start(r)
  <2>1. PICK network \in BOOLEAN, explicit \in Skills \cup {NoSkill} :
            run' = [run EXCEPT ![r].pc = "starting", ![r].network = network,
                               ![r].explicit = explicit]
    BY <1>2 DEF Start
  <2> DEFINE h == [g EXCEPT !.pc = "starting", !.network = network, !.explicit = explicit]
  <2>2. run' = [run EXCEPT ![r] = h]
    BY <2>1 DEF RunTypeOK
  <2>e. explicit \in AnySkill /\ "starting" \in Pcs
    BY DEF AnySkill, Pcs
  <2>3. h \in Goroutines
    BY <2>e DEF Goroutines
  <2>4. GoodRun(h)
    <3>1. /\ h.batch = g.batch /\ h.saved = g.saved /\ h.held = g.held
          /\ h.stored = g.stored /\ h.todo = g.todo /\ h.pc = "starting" /\ g.pc = "idle"
      BY <1>2 DEF Goroutines, Start
    <3> HIDE DEF h
    <3> QED BY <1>g, <3>1 DEF GoodRun, Early, InBatch, HeldOK
  <2> QED BY <2>2, <2>3, <2>4 DEF Becomes
<1>3. CASE SendStarted(r)
  BY <1>1, <1>3 DEF SendStarted, Pcs, Early, InBatch
<1>4. CASE GuardInput(r)
  BY <1>1, <1>4 DEF GuardInput, Pcs, Early, InBatch
<1>5. CASE CallModel(r)
  <2>1. CASE Goto(r, "error")
    BY <1>1, <2>1 DEF Pcs, Early, InBatch
  <2>2. CASE /\ run[r].steps < MaxSteps /\ run[r].pc = "model"
             /\ run' = [run EXCEPT ![r].pc = "calling", ![r].steps = @ + 1, ![r].attempts = 0]
    <3> DEFINE n == g.steps + 1
    <3>1. n \in 0 .. MaxSteps /\ 0 \in 0 .. MaxRetries
      BY <2>2, RunAssumption DEF Goroutines
    <3>2. run' = [run EXCEPT ![r].pc = "calling", ![r].steps = n, ![r].attempts = 0]
      BY <2>2 DEF RunTypeOK
    <3> HIDE DEF n
    <3> DEFINE h == [g EXCEPT !.pc = "calling", !.steps = n, !.attempts = 0]
    <3>3. run' = [run EXCEPT ![r] = h]
      BY <3>2 DEF RunTypeOK
    <3>4. h \in Goroutines
      BY <3>1 DEF Goroutines, Pcs
    <3>5. GoodRun(h)
      BY <2>2, <1>g DEF GoodRun, Goroutines, Early, InBatch, HeldOK
    <3> QED BY <3>3, <3>4, <3>5 DEF Becomes
  <2> QED BY <1>5, <2>1, <2>2 DEF CallModel
<1>6. CASE ModelFails(r)
  <2>1. CASE Goto(r, "error")
    BY <1>1, <2>1 DEF Pcs, Early, InBatch
  <2>2. CASE /\ run[r].attempts < MaxRetries /\ run[r].pc = "calling"
             /\ run' = [run EXCEPT ![r].attempts = @ + 1]
    <3> DEFINE n == g.attempts + 1
    <3>1. n \in 0 .. MaxRetries
      BY <2>2, RunAssumption DEF Goroutines
    <3>2. run' = [run EXCEPT ![r].attempts = n]
      BY <2>2 DEF RunTypeOK
    <3> HIDE DEF n
    <3> DEFINE h == [g EXCEPT !.attempts = n]
    <3>3. run' = [run EXCEPT ![r] = h]
      BY <3>2 DEF RunTypeOK
    <3>4. h \in Goroutines
      BY <3>1 DEF Goroutines
    <3>5. GoodRun(h)
      BY <2>2, <1>g DEF GoodRun, Goroutines, Early, InBatch, HeldOK
    <3> QED BY <3>3, <3>4, <3>5 DEF Becomes
  <2> QED BY <1>6, <2>1, <2>2 DEF ModelFails
<1>7. CASE ModelAnswers(r)
  <2>1. CASE Goto(r, "error")
    BY <1>1, <2>1 DEF Pcs, Early, InBatch
  <2>2. CASE run' = [run EXCEPT ![r].pc = "commit", ![r].next = "active"]
    <3> DEFINE h == [g EXCEPT !.pc = "commit", !.next = "active"]
    <3>1. run' = [run EXCEPT ![r] = h]
      BY <2>2 DEF RunTypeOK
    <3>2. h \in Goroutines
      BY DEF Goroutines, Pcs
    <3>3. /\ h.batch = g.batch /\ h.saved = g.saved /\ h.held = g.held
          /\ h.stored = g.stored /\ h.network = g.network /\ h.asked = g.asked
          /\ h.todo \subseteq g.todo /\ h.pc = "commit"
      BY DEF Goroutines
    <3> HIDE DEF h
    <3>4. GoodRun(h)
      BY <1>g, <3>2, <3>3, OnlyPlace DEF Early, InBatch
    <3> QED BY <3>1, <3>2, <3>4 DEF Becomes
  <2> QED BY <1>7, <2>1, <2>2 DEF ModelAnswers
<1>8. CASE EmitApproval(r)
  <2>1. CASE Goto(r, "commit")
    BY <1>1, <2>1 DEF Pcs, Early, InBatch
  <2>2. CASE run[r].pc = "approvals" /\ run' = [run EXCEPT ![r].todo = @ \ {Pos(r)}]
    <3>1. PICK t \in SUBSET Nat : t = g.todo \ {Pos(r)}
      BY DEF Goroutines
    <3> DEFINE h == [g EXCEPT !.todo = t]
    <3>2. run' = [run EXCEPT ![r] = h]
      BY <2>2, <3>1 DEF RunTypeOK
    <3>3. h \in Goroutines
      BY DEF Goroutines
    <3>4. /\ h.batch = g.batch /\ h.saved = g.saved /\ h.held = g.held
          /\ h.stored = g.stored /\ h.network = g.network /\ h.asked = g.asked
          /\ h.todo \subseteq g.todo /\ h.pc = "approvals"
      BY <2>2, <3>1 DEF Goroutines
    <3> HIDE DEF h
    <3>5. GoodRun(h)
      BY <1>g, <3>3, <3>4, OnlyPlace DEF Early, InBatch
    <3> QED BY <3>2, <3>3, <3>5 DEF Becomes
  <2> QED BY <1>8, <2>1, <2>2 DEF EmitApproval
<1>9. CASE Commit(r)
  <2>1. CASE Goto(r, "error")
    BY <1>1, <2>1 DEF Pcs, Early, InBatch
  <2>2. CASE run' = [run EXCEPT ![r].committed = run[r].next,
                             ![r].pc = IF run[r].resumed THEN "ended"
                                       ELSE IF run[r].next = "active" THEN "finish"
                                       ELSE "done"]
    <3>1. PICK l \in {"ended", "finish", "done"} :
             l = IF g.resumed THEN "ended" ELSE IF g.next = "active" THEN "finish" ELSE "done"
      OBVIOUS
    <3> DEFINE h == [g EXCEPT !.committed = g.next, !.pc = l]
    <3>2. run' = [run EXCEPT ![r] = h]
      BY <2>2, <3>1 DEF RunTypeOK
    <3>3. h \in Goroutines
      BY ZenonT(40) DEF Goroutines, Pcs
    <3>4. /\ h.batch = g.batch /\ h.saved = g.saved /\ h.held = g.held
          /\ h.stored = g.stored /\ h.network = g.network /\ h.asked = g.asked
          /\ h.todo \subseteq g.todo /\ h.pc = l
      BY DEF Goroutines
    <3> HIDE DEF h
    <3>5. GoodRun(h)
      BY <1>g, <3>3, <3>4, OnlyPlace DEF Early, InBatch
    <3> QED BY <3>2, <3>3, <3>5 DEF Becomes
  <2> QED BY <1>9, <2>1, <2>2 DEF Commit
<1>10. CASE SendAnswerDone(r)
  BY <1>1, <1>10 DEF SendAnswerDone, Pcs, Early, InBatch
<1>11. CASE SendDone(r)
  BY <1>1, <1>11 DEF SendDone, Pcs, Early, InBatch
<1>12. CASE SendError(r)
  BY <1>1, <1>12 DEF SendError, Pcs, Early, InBatch
<1> QED BY <1>2, <1>3, <1>4, <1>5, <1>6, <1>7, <1>8, <1>9, <1>10, <1>11, <1>12

\* The model answers with a batch: there is no interrupt of an earlier one.
LEMMA BatchStarts ==
    ASSUME RunTypeOK, NEW r \in Runs, ModelCallsTools(r)
    PROVE  \E h : Becomes(r, h)
<1> PICK g \in Goroutines : g = run[r]
  BY DEF RunTypeOK
<1>g. GoodRun(g) /\ g.pc = "calling"
  BY DEF RunTypeOK, ModelCallsTools
<1>1. PICK batch \in Batches \ {<<>>} :
          run' = [run EXCEPT ![r].pc = "tools", ![r].batch = batch,
                             ![r].todo = DOMAIN batch, ![r].failing = FALSE,
                             ![r].asked = run[r].active,
                             ![r].denied = BatchDenied(batch, run[r].active, run[r].network)]
  BY DEF ModelCallsTools
<1>2. PICK d \in BOOLEAN : d = BatchDenied(batch, g.active, g.network)
  BY DEF BatchDenied
<1>3. PICK t \in SUBSET Nat : t = DOMAIN batch
  BY BatchDomain
<1> DEFINE h == [g EXCEPT !.pc = "tools", !.batch = batch, !.todo = t, !.failing = FALSE,
                          !.asked = g.active, !.denied = d]
<1>4. run' = [run EXCEPT ![r] = h]
  BY <1>1, <1>2, <1>3 DEF RunTypeOK
<1>e. "tools" \in Pcs /\ batch \in Batches /\ g.active \in AnySkill
  BY DEF Goroutines, Pcs
<1>5. h \in Goroutines
  BY <1>e, ZenonT(40) DEF Goroutines
<1>6. /\ h.pc = "tools" /\ h.batch = batch /\ h.todo = t /\ h.asked = g.active /\ h.denied = d
      /\ h.held = g.held /\ h.stored = g.stored /\ h.saved = g.saved /\ h.network = g.network
  BY DEF Goroutines
<1> HIDE DEF h
<1>7. g.held = {} /\ g.stored = {} /\ g.saved = {}
  BY <1>g DEF GoodRun, Early
<1>8. ~d => Judged(h)
  BY <1>2, <1>6 DEF BatchDenied, Judged
<1>9. GoodRun(h)
  BY <1>3, <1>6, <1>7, <1>8 DEF GoodRun, HeldOK, Early, InBatch
<1> QED BY <1>4, <1>5, <1>9 DEF Becomes

\* The skill a call runs under: the one it was interrupted under, if there was
\* one, or the one that is active.
LEMMA SkillOfCall ==
    ASSUME RunTypeOK, NEW r \in Runs
    PROVE  /\ SkillOf(r) \in AnySkill
           /\ \/ /\ SkillOf(r) = run[r].active
                 /\ \A h \in run[r].stored : h.pos = Pos(r) => h.skill = NoSkill
              \/ \E h \in run[r].stored : h.pos = Pos(r) /\ h.skill = SkillOf(r)
<1> DEFINE before == {h \in run[r].stored : h.pos = Pos(r) /\ h.skill # NoSkill}
<1>0. run[r] \in Goroutines
  BY DEF RunTypeOK
<1>1. CASE before = {}
  BY <1>0, <1>1 DEF SkillOf, Goroutines
<1>2. CASE before # {}
  <2>1. (CHOOSE h \in before : TRUE) \in before
    BY <1>2
  <2>2. \A h \in before : h.skill \in AnySkill /\ h \in run[r].stored /\ h.pos = Pos(r)
    BY <1>0 DEF Goroutines, Held
  <2>3. SkillOf(r) = (CHOOSE h \in before : TRUE).skill
    BY <1>2 DEF SkillOf
  <2> HIDE DEF before
  <2> QED BY <2>1, <2>2, <2>3
<1> QED BY <1>1, <1>2

\* A call that is taken off the list without an interrupt.
LEMMA CallsEnd ==
    ASSUME RunTypeOK, NEW r \in Runs,
           LoadSkill(r) \/ CallFails(r) \/ Refuse(r) \/ Execute(r)
    PROVE  \E h : Becomes(r, h)
<1> PICK g \in Goroutines : g = run[r]
  BY DEF RunTypeOK
<1>g. GoodRun(g)
  BY DEF RunTypeOK
<1>p. g.pc \in InBatch
  BY DEF LoadSkill, CallFails, Refuse, Execute, AtCall, InBatch
<1>1. PICK t \in SUBSET Nat : t = g.todo \ {Pos(r)}
  BY DEF Goroutines
<1>2. ASSUME NEW a \in AnySkill, NEW f \in BOOLEAN,
             run' = [run EXCEPT ![r].pc = "tools", ![r].todo = t, ![r].active = a,
                                ![r].failing = f]
      PROVE  \E h : Becomes(r, h)
  <2> DEFINE h == [g EXCEPT !.pc = "tools", !.todo = t, !.active = a, !.failing = f]
  <2>1. run' = [run EXCEPT ![r] = h]
    BY <1>2 DEF RunTypeOK
  <2>2. h \in Goroutines
    BY ZenonT(40) DEF Goroutines, Pcs
  <2>3. /\ h.batch = g.batch /\ h.saved = g.saved /\ h.held = g.held
        /\ h.stored = g.stored /\ h.network = g.network /\ h.asked = g.asked
        /\ h.denied = g.denied /\ h.todo \subseteq g.todo /\ h.pc = "tools"
    BY <1>1 DEF Goroutines
  <2> HIDE DEF h
  <2>4. GoodRun(h)
    BY <1>g, <1>p, <2>2, <2>3, OneLess
  <2> QED BY <2>1, <2>2, <2>4 DEF Becomes
<1>3. CASE LoadSkill(r)
  <2>1. CallOf(r).load \in Skills
    BY <1>3 DEF LoadSkill, IsLoad, Loads
  <2>2. PICK a \in AnySkill :
            a = IF Activates(CallOf(r).load, g.explicit, g.network) THEN CallOf(r).load ELSE g.active
    BY <2>1 DEF AnySkill, Goroutines
  <2>3. run' = [run EXCEPT ![r].pc = "tools", ![r].todo = t, ![r].active = a,
                           ![r].failing = g.failing]
    <3>1. run' = [run EXCEPT ![r].todo = t, ![r].active = a]
      BY <1>3, <1>1, <2>2 DEF LoadSkill, RunTypeOK
    <3>2. g.pc = "tools"
      BY <1>3 DEF LoadSkill, AtCall
    <3>3. [g EXCEPT !.todo = t, !.active = a]
             = [g EXCEPT !.pc = "tools", !.todo = t, !.active = a, !.failing = g.failing]
      BY <3>2 DEF Goroutines
    <3>4. run' = [run EXCEPT ![r] = [g EXCEPT !.todo = t, !.active = a]]
      BY <3>1 DEF RunTypeOK
    <3>5. [run EXCEPT ![r].pc = "tools", ![r].todo = t, ![r].active = a, ![r].failing = g.failing]
            = [run EXCEPT ![r] = [g EXCEPT !.pc = "tools", !.todo = t, !.active = a,
                                           !.failing = g.failing]]
      BY DEF RunTypeOK
    <3> QED BY <3>3, <3>4, <3>5
  <2>4. g.failing \in BOOLEAN
    BY DEF Goroutines
  <2> QED BY <1>2, <2>3, <2>4
<1>4. CASE CallFails(r)
  <2>1. g.active \in AnySkill
    BY DEF Goroutines
  <2>2. run' = [run EXCEPT ![r].pc = "tools", ![r].todo = t, ![r].active = g.active,
                           ![r].failing = TRUE]
    BY <1>4, <1>1, ZenonT(40) DEF CallFails, RunTypeOK, Goroutines
  <2> QED BY <1>2, <2>1, <2>2
<1>5. CASE Refuse(r)
  <2>1. g.active \in AnySkill /\ g.failing \in BOOLEAN
    BY DEF Goroutines
  <2>2. run' = [run EXCEPT ![r].pc = "tools", ![r].todo = t, ![r].active = g.active,
                           ![r].failing = g.failing]
    BY <1>5, <1>1, ZenonT(40) DEF Refuse, RunTypeOK, Goroutines
  <2> QED BY <1>2, <2>1, <2>2
<1>6. CASE Execute(r)
  <2>1. PICK a \in AnySkill : a = SkillOf(r)
    BY SkillOfCall
  <2>2. PICK ok \in BOOLEAN :
            run' = [run EXCEPT ![r].pc = "tools", ![r].todo = t, ![r].active = a,
                               ![r].failing = g.failing \/ ~ok]
    BY <1>6, <1>1, <2>1 DEF Execute, RunTypeOK
  <2>3. (g.failing \/ ~ok) \in BOOLEAN
    BY DEF Goroutines
  <2> QED BY <1>2, <2>2, <2>3
<1> QED BY <1>3, <1>4, <1>5, <1>6

LEMMA CallAnnounced ==
    ASSUME RunTypeOK, NEW r \in Runs, Announce(r)
    PROVE  \E h : Becomes(r, h)
<1> PICK g \in Goroutines : g = run[r]
  BY DEF RunTypeOK
<1>g. GoodRun(g) /\ g.pc = "tools" /\ g.todo # {}
  BY DEF RunTypeOK, Announce, AtCall
<1> DEFINE h == [g EXCEPT !.pc = "check"]
<1>1. run' = [run EXCEPT ![r] = h]
  BY DEF Announce, Goto, RunTypeOK
<1>2. h \in Goroutines
  BY DEF Goroutines, Pcs
<1>3. /\ h.pc = "check" /\ h.batch = g.batch /\ h.saved = g.saved /\ h.held = g.held
      /\ h.stored = g.stored /\ h.network = g.network /\ h.asked = g.asked
      /\ h.denied = g.denied /\ h.todo = g.todo
  BY DEF Goroutines
<1> HIDE DEF h
<1>4. GoodRun(h)
  BY <1>g, <1>3 DEF GoodRun, Judged, HeldOK, Early, InBatch
<1> QED BY <1>1, <1>2, <1>4 DEF Becomes

\* An interrupt: the call passed under the active skill, or it was interrupted
\* before under a skill that permits it.
LEMMA CallSuspended ==
    ASSUME RunTypeOK, NEW r \in Runs, Suspend(r)
    PROVE  \E h : Becomes(r, h)
<1> PICK g \in Goroutines : g = run[r]
  BY DEF RunTypeOK
<1>g. GoodRun(g) /\ g.pc = "check" /\ ~g.denied
  BY DEF RunTypeOK, Suspend, Passes
<1>p. PICK p \in Nat : p = Pos(r) /\ p \in g.todo
  <2>1. Pos(r) \in g.todo
    BY <1>g, PosInTodo DEF GoodRun
  <2> QED BY <2>1 DEF Goroutines
<1>s. PICK a \in AnySkill : a = SkillOf(r)
  BY SkillOfCall
<1>1. p \in DOMAIN g.batch /\ Judged(g)
  BY <1>g, <1>p DEF GoodRun, InBatch
<1>2. PICK n \in Held : /\ Interrupt(r) = {n} /\ n.pos = p /\ n.skill = n.raised
                        /\ Permitted(g.batch[p], n.skill, g.network)
  <2>1. CASE Earlier(r) = {}
    <3>1. [pos |-> p, skill |-> g.active, raised |-> g.active] \in Held
      BY DEF Held, Goroutines
    <3>2. Permitted(g.batch[p], g.active, g.network)
      BY <1>p DEF Suspend, Passes, CallOf
    <3> QED BY <1>p, <2>1, <3>1, <3>2 DEF Interrupt
  <2>2. CASE Earlier(r) # {}
    <3>1. PICK k \in g.stored : k.pos = p /\ k \in Earlier(r)
      BY <1>p, <2>2 DEF Earlier
    <3>2. \A h, m \in g.stored : h.pos = m.pos => h = m
      BY <1>g DEF GoodRun, HeldOK
    <3>3. Earlier(r) = {k}
      BY <1>p, <3>1, <3>2 DEF Earlier
    <3>4. k \in Held
      BY <3>1 DEF Goroutines
    <3>5. k.skill = k.raised /\ Permitted(g.batch[p], k.skill, g.network)
      BY <1>g, <3>1 DEF GoodRun, HeldOK
    <3> QED BY <2>2, <3>1, <3>3, <3>4, <3>5 DEF Interrupt
  <2> QED BY <2>1, <2>2
<1>3. PICK t \in SUBSET Nat : t = g.todo \ {p}
  BY DEF Goroutines
<1>5. PICK H \in SUBSET Held : H = g.held \cup {n}
  BY DEF Goroutines
<1> DEFINE h == [g EXCEPT !.pc = "tools", !.todo = t, !.active = a, !.held = H]
<1>6. run' = [run EXCEPT ![r] = h]
  BY <1>p, <1>s, <1>2, <1>3, <1>5 DEF Suspend, RunTypeOK
<1>7. h \in Goroutines
  BY DEF Goroutines, Pcs
<1>8. /\ h.pc = "tools" /\ h.batch = g.batch /\ h.saved = g.saved /\ h.held = H
      /\ h.stored = g.stored /\ h.network = g.network /\ h.asked = g.asked
      /\ h.denied = g.denied /\ h.todo = t
  BY DEF Goroutines
<1> HIDE DEF h
<1>10. HeldOK(h, H)
  <2>1. HeldOK(g, g.held) /\ \A k \in g.held : k.pos # p
    BY <1>g, <1>p DEF GoodRun, InBatch
  <2> QED BY <1>1, <1>2, <1>5, <1>8, <2>1 DEF HeldOK
<1>11. HeldOK(h, h.stored) /\ Judged(h)
  BY <1>g, <1>1, <1>8 DEF GoodRun, HeldOK, Judged
<1>12. \A k \in H : k.pos \notin t
  BY <1>g, <1>2, <1>3, <1>5 DEF GoodRun, InBatch
<1>13. h.todo \cup h.saved \subseteq DOMAIN h.batch
  BY <1>g, <1>3, <1>8 DEF GoodRun
<1>14. GoodRun(h)
  BY <1>8, <1>10, <1>11, <1>12, <1>13 DEF GoodRun, Early, InBatch
<1> QED BY <1>6, <1>7, <1>14 DEF Becomes

LEMMA BatchIsOver ==
    ASSUME RunTypeOK, NEW r \in Runs, BatchEnds(r)
    PROVE  \E h : Becomes(r, h)
<1> PICK g \in Goroutines : g = run[r]
  BY DEF RunTypeOK
<1>g. GoodRun(g)
  BY DEF RunTypeOK
<1>1. CASE Goto(r, "persist")
  <2> DEFINE h == [g EXCEPT !.pc = "persist"]
  <2>1. run' = [run EXCEPT ![r] = h]
    BY <1>1 DEF Goto, RunTypeOK
  <2>2. h \in Goroutines
    BY DEF Goroutines, Pcs
  <2>3. /\ h.batch = g.batch /\ h.saved = g.saved /\ h.held = g.held
        /\ h.stored = g.stored /\ h.network = g.network /\ h.asked = g.asked
        /\ h.todo \subseteq g.todo /\ h.pc = "persist"
    BY DEF Goroutines
  <2> HIDE DEF h
  <2>4. GoodRun(h)
    BY <1>g, <2>2, <2>3, OnlyPlace DEF Early, InBatch
  <2> QED BY <2>1, <2>2, <2>4 DEF Becomes
<1>2. CASE run' = [run EXCEPT ![r].pc = IF run[r].failing THEN "error" ELSE "model",
                              ![r].batch = <<>>, ![r].todo = {}, ![r].held = {},
                              ![r].stored = {}, ![r].saved = {}, ![r].target = 0]
  <2>1. PICK l \in {"error", "model"} : l = IF g.failing THEN "error" ELSE "model"
    OBVIOUS
  <2>2. PICK b \in Batches : b = <<>>
    BY EmptyBatch
  <2> DEFINE h == [g EXCEPT !.pc = l, !.batch = b, !.todo = {}, !.held = {},
                            !.stored = {}, !.saved = {}, !.target = 0]
  <2>3. run' = [run EXCEPT ![r] = h]
    BY <1>2, <2>1, <2>2 DEF RunTypeOK
  <2>4. h \in Goroutines
    BY DEF Goroutines, Pcs
  <2>5. h.pc = l /\ h.todo = {} /\ h.held = {} /\ h.stored = {} /\ h.saved = {}
    BY DEF Goroutines
  <2> HIDE DEF h
  <2>6. GoodRun(h)
    BY <2>5 DEF GoodRun, HeldOK, InBatch
  <2> QED BY <2>3, <2>4, <2>6 DEF Becomes
<1> QED BY <1>1, <1>2 DEF BatchEnds

\* The positions of the interrupts are positions of the batch.
LEMMA HeldPositions ==
    ASSUME RunTypeOK, NEW r \in Runs
    PROVE  HeldPos(r) \in SUBSET Nat /\ HeldPos(r) \subseteq DOMAIN run[r].batch
<1>1. run[r] \in Goroutines /\ GoodRun(run[r])
  BY DEF RunTypeOK
<1> QED BY <1>1 DEF HeldPos, GoodRun, HeldOK, Goroutines, Held

LEMMA InterruptsPersisted ==
    ASSUME RunTypeOK, NEW r \in Runs, Persist(r)
    PROVE  \E h : Becomes(r, h)
<1> PICK g \in Goroutines : g = run[r]
  BY DEF RunTypeOK
<1>g. GoodRun(g)
  BY DEF RunTypeOK
<1>1. CASE Goto(r, "error")
  <2> DEFINE h == [g EXCEPT !.pc = "error"]
  <2>1. run' = [run EXCEPT ![r] = h]
    BY <1>1 DEF Goto, RunTypeOK
  <2>2. h \in Goroutines
    BY DEF Goroutines, Pcs
  <2>3. /\ h.batch = g.batch /\ h.saved = g.saved /\ h.held = g.held
        /\ h.stored = g.stored /\ h.network = g.network /\ h.asked = g.asked
        /\ h.todo \subseteq g.todo /\ h.pc = "error"
    BY DEF Goroutines
  <2> HIDE DEF h
  <2>4. GoodRun(h)
    BY <1>g, <2>2, <2>3, OnlyPlace DEF Early, InBatch
  <2> QED BY <2>1, <2>2, <2>4 DEF Becomes
<1>2. CASE run' = [run EXCEPT ![r].pc = IF run[r].resumed THEN "commit" ELSE "approvals",
                              ![r].saved = @ \cup HeldPos(r),
                              ![r].todo = HeldPos(r),
                              ![r].next = "awaiting_approval"]
  <2>1. PICK l \in {"commit", "approvals"} : l = IF g.resumed THEN "commit" ELSE "approvals"
    OBVIOUS
  <2>2. PICK t \in SUBSET Nat : t = HeldPos(r) /\ t \subseteq DOMAIN g.batch
    BY HeldPositions
  <2>3. PICK v \in SUBSET Nat : v = g.saved \cup t
    BY DEF Goroutines
  <2> DEFINE h == [g EXCEPT !.pc = l, !.saved = v, !.todo = t, !.next = "awaiting_approval"]
  <2>4. run' = [run EXCEPT ![r] = h]
    BY <1>2, <2>1, <2>2, <2>3 DEF RunTypeOK
  <2>5. h \in Goroutines
    BY ZenonT(40) DEF Goroutines, Pcs
  <2>6. /\ h.batch = g.batch /\ h.saved = v /\ h.held = g.held /\ h.stored = g.stored
        /\ h.network = g.network /\ h.asked = g.asked /\ h.todo = t /\ h.pc = l
    BY DEF Goroutines
  <2> HIDE DEF h
  <2>7. h.todo \cup h.saved \subseteq DOMAIN h.batch
    BY <1>g, <2>2, <2>3, <2>6 DEF GoodRun
  <2>8. GoodRun(h)
    BY <1>g, <2>6, <2>7 DEF GoodRun, Judged, HeldOK, Early, InBatch
  <2> QED BY <2>4, <2>5, <2>8 DEF Becomes
<1> QED BY <1>1, <1>2 DEF Persist

\* The verdict on the batch is forgotten, but there is an interrupt, and it was
\* raised only because the batch was judged.
LEMMA RunResumed ==
    ASSUME RunTypeOK, NEW r \in Runs, Resume(r)
    PROVE  \E h : Becomes(r, h)
<1> PICK g \in Goroutines : g = run[r]
  BY DEF RunTypeOK
<1>g. GoodRun(g)
  BY DEF RunTypeOK
<1>1. PICK i \in HeldPos(r) :
          run' = [run EXCEPT ![r] =
                    [@ EXCEPT !.pc = "tools", !.resumed = TRUE, !.target = i,
                              !.todo = HeldPos(r), !.stored = run[r].held, !.held = {},
                              !.active = NoSkill, !.explicit = NoSkill, !.denied = FALSE,
                              !.failing = FALSE, !.cancelled = FALSE, !.committed = "none"]]
  BY DEF Resume
<1>2. PICK t \in SUBSET Nat : t = HeldPos(r) /\ t \subseteq DOMAIN g.batch
  BY HeldPositions
<1>3. i \in Nat /\ g.held # {} /\ NoSkill \in AnySkill /\ "tools" \in Pcs
  BY <1>2 DEF HeldPos, AnySkill, Pcs
<1> DEFINE h == [g EXCEPT !.pc = "tools", !.resumed = TRUE, !.target = i, !.todo = t,
                          !.stored = g.held, !.held = {}, !.active = NoSkill,
                          !.explicit = NoSkill, !.denied = FALSE, !.failing = FALSE,
                          !.cancelled = FALSE, !.committed = "none"]
<1>4. run' = [run EXCEPT ![r] = h]
  BY <1>1, <1>2 DEF RunTypeOK
<1>5. h \in Goroutines
  BY <1>3, ZenonT(40) DEF Goroutines
<1>6. /\ h.batch = g.batch /\ h.saved = g.saved /\ h.held = {} /\ h.stored = g.held
      /\ h.network = g.network /\ h.asked = g.asked /\ h.todo = t /\ h.pc = "tools"
  BY DEF Goroutines
<1> HIDE DEF h
<1>7. Judged(h)
  BY <1>g, <1>3, <1>6 DEF GoodRun, Judged
<1>8. HeldOK(h, h.stored) /\ HeldOK(h, h.held)
  BY <1>g, <1>6 DEF GoodRun, HeldOK
<1>9. GoodRun(h)
  BY <1>g, <1>2, <1>6, <1>7, <1>8 DEF GoodRun, Early, InBatch
<1> QED BY <1>4, <1>5, <1>9 DEF Becomes

\* Steps of the others that at most cancel the run.
LEMMA RunCancelled ==
    ASSUME RunTypeOK, NEW r \in Runs, LoseTurn(r) \/ ReadEvent(r) \/ Disconnect(r)
    PROVE  \E h : Becomes(r, h)
<1> PICK g \in Goroutines : g = run[r]
  BY DEF RunTypeOK
<1>g. GoodRun(g)
  BY DEF RunTypeOK
<1>1. \E c \in BOOLEAN : run' = [run EXCEPT ![r].cancelled = c]
  <2>1. CASE LoseTurn(r)
    BY <2>1 DEF LoseTurn
  <2>2. CASE ReadEvent(r)
    <3>1. PICK c \in BOOLEAN : c = (g.cancelled \/ (Head(stream[r].chan) = "error" /\ Running(r)))
      OBVIOUS
    <3> QED BY <2>2, <3>1 DEF ReadEvent, RunTypeOK
  <2>3. CASE Disconnect(r)
    <3>1. PICK c \in BOOLEAN : c = (g.cancelled \/ (Running(r) /\ ~g.resumed))
      OBVIOUS
    <3> QED BY <2>3, <3>1 DEF Disconnect, RunTypeOK
  <2> QED BY <2>1, <2>2, <2>3
<1>2. PICK c \in BOOLEAN : run' = [run EXCEPT ![r].cancelled = c]
  BY <1>1
<1> DEFINE h == [g EXCEPT !.cancelled = c]
<1>3. run' = [run EXCEPT ![r] = h]
  BY <1>2 DEF RunTypeOK
<1>4. h \in Goroutines
  BY DEF Goroutines
<1>5. /\ h.pc = g.pc /\ h.batch = g.batch /\ h.saved = g.saved /\ h.held = g.held
      /\ h.stored = g.stored /\ h.network = g.network /\ h.asked = g.asked
      /\ h.denied = g.denied /\ h.todo = g.todo
  BY DEF Goroutines
<1> HIDE DEF h
<1>6. GoodRun(h)
  BY <1>g, <1>5 DEF GoodRun, Judged, HeldOK, Early, InBatch
<1> QED BY <1>3, <1>4, <1>6 DEF Becomes

LEMMA RunTypeNext == RunTypeOK /\ [Next]_vars => RunTypeOK'
<1> SUFFICES ASSUME RunTypeOK, [Next]_vars PROVE RunTypeOK'
  OBVIOUS
<1>1. ASSUME NEW r \in Runs, Reply(r) PROVE RunTypeOK'
  BY <1>1 DEF Reply, RunTypeOK
<1>2. ASSUME NEW r \in Runs, \E h : Becomes(r, h) PROVE RunTypeOK'
  BY <1>2, BecomesGood
<1>3. CASE UNCHANGED vars
  BY <1>3 DEF vars, RunTypeOK
<1>4. ASSUME NEW r \in Runs, Step(r) PROVE \E h : Becomes(r, h)
  BY <1>4, PlainSteps, BatchStarts, CallsEnd, CallAnnounced, CallSuspended, BatchIsOver,
     InterruptsPersisted DEF Step
<1> QED BY <1>1, <1>2, <1>3, <1>4, PlainSteps, RunResumed, RunCancelled DEF Next

LEMMA RunTypeInit == Init => RunTypeOK
<1> SUFFICES ASSUME Init PROVE RunTypeOK
  OBVIOUS
<1>1. /\ "idle" \in Pcs /\ NoSkill \in AnySkill /\ <<>> \in Batches
      /\ 0 \in 0 .. MaxSteps /\ 0 \in 0 .. MaxRetries
  BY EmptyBatch, RunAssumption DEF Pcs, AnySkill
<1>2. Idle \in Goroutines
  BY <1>1 DEF Idle, Goroutines
<1>3. GoodRun(Idle)
  BY DEF Idle, GoodRun, HeldOK, InBatch
<1> QED BY <1>2, <1>3 DEF Init, RunTypeOK

-----------------------------------------------------------------------------
(* What was executed *)

LastInv == DOMAIN last = Runs /\ ExecutedWasPermitted /\ SkillRestored

LEMMA LastInit == Init => LastInv
BY DEF Init, LastInv, ExecutedWasPermitted, SkillRestored

\* The call that is executed passed under the active skill or is one that its
\* own skill permits, and its batch was judged when the model answered.
LEMMA LastNext == RunTypeOK /\ LastInv /\ [Next]_vars => LastInv'
<1> SUFFICES ASSUME RunTypeOK, LastInv, [Next]_vars PROVE LastInv'
  OBVIOUS
<1>1. ASSUME NEW r \in Runs, Execute(r) PROVE LastInv'
  <2> PICK g \in Goroutines : g = run[r]
    BY DEF RunTypeOK
  <2>g. GoodRun(g) /\ g.pc = "check" /\ ~g.denied
    BY <1>1 DEF RunTypeOK, Execute, Passes
  <2>p. PICK p \in DOMAIN g.batch : p = Pos(r)
    <3>1. Pos(r) \in g.todo
      BY <2>g, PosInTodo DEF GoodRun
    <3> QED BY <2>g, <3>1 DEF GoodRun
  <2>s. PICK a \in AnySkill : a = SkillOf(r)
    BY SkillOfCall
  <2>1. Permitted(g.batch[p], a, g.network)
    <3>1. CASE a = g.active
      BY <1>1, <2>p, <3>1 DEF Execute, Passes, CallOf
    <3>2. CASE \E k \in g.stored : k.pos = p /\ k.skill = a
      BY <2>g, <3>2 DEF GoodRun, HeldOK
    <3> QED BY <2>p, <2>s, <3>1, <3>2, SkillOfCall
  <2>2. ASSUME NEW k \in g.stored, k.pos = p PROVE k.raised = NoSkill \/ k.raised = a
    <3>0. k.raised = k.skill
      BY <2>g DEF GoodRun, HeldOK
    <3>1. CASE \A h \in g.stored : h.pos = p => h.skill = NoSkill
      BY <2>2, <3>0, <3>1
    <3>2. CASE \E h \in g.stored : h.pos = p /\ h.skill = a
      BY <2>g, <2>2, <3>0, <3>2 DEF GoodRun, HeldOK
    <3> QED BY <2>p, <2>s, <3>1, <3>2, SkillOfCall
  <2>3. Judged(g)
    BY <2>g DEF GoodRun, InBatch
  <2> DEFINE new == [call |-> g.batch[p], active |-> a, network |-> g.network,
                     raised |-> {h.raised : h \in {x \in g.stored : x.pos = p}},
                     asked |-> g.asked,
                     siblings |-> {g.batch[i] : i \in DOMAIN g.batch} \ Loads]
  <2>4. last' = [last EXCEPT ![r] = new]
    BY <1>1, <2>p, <2>s DEF Execute, CallOf, Earlier
  <2>5. \A c \in new.siblings : Permitted(c, new.asked, new.network)
    BY <2>3 DEF Judged, IsLoad
  <2>6. \A v \in new.raised : v = NoSkill \/ v = new.active
    BY <2>2
  <2>7. Permitted(new.call, new.active, new.network)
    BY <2>1
  <2> HIDE DEF new
  <2> QED BY <2>4, <2>5, <2>6, <2>7 DEF LastInv, ExecutedWasPermitted, SkillRestored
<1>2. ASSUME NEW r \in Runs, BatchEnds(r) PROVE LastInv'
  BY <1>2 DEF BatchEnds, LastInv, ExecutedWasPermitted, SkillRestored
<1>3. ASSUME UNCHANGED last PROVE LastInv'
  BY <1>3 DEF LastInv, ExecutedWasPermitted, SkillRestored
<1>4. ASSUME NEW r \in Runs,
             \/ SendStarted(r) \/ GuardInput(r) \/ CallModel(r) \/ ModelFails(r)
             \/ ModelCallsTools(r) \/ ModelAnswers(r) \/ LoadSkill(r) \/ Announce(r)
      PROVE  UNCHANGED last
  BY <1>4 DEF SendStarted, GuardInput, CallModel, ModelFails, ModelCallsTools, ModelAnswers,
              LoadSkill, Announce
<1>5. ASSUME NEW r \in Runs,
             \/ CallFails(r) \/ Refuse(r) \/ Suspend(r) \/ Persist(r) \/ EmitApproval(r)
             \/ Commit(r) \/ SendAnswerDone(r) \/ SendDone(r) \/ SendError(r)
      PROVE  UNCHANGED last
  BY <1>5 DEF CallFails, Refuse, Suspend, Persist, EmitApproval, Commit, SendAnswerDone,
              SendDone, SendError
<1>6. ASSUME NEW r \in Runs,
             \/ Start(r) \/ Resume(r) \/ LoseTurn(r) \/ ReadEvent(r) \/ Reply(r) \/ Disconnect(r)
      PROVE  UNCHANGED last
  BY <1>6 DEF Start, Resume, LoseTurn, ReadEvent, Reply, Disconnect
<1>7. CASE UNCHANGED vars
  BY <1>3, <1>7 DEF vars
<1> QED BY <1>1, <1>2, <1>3, <1>4, <1>5, <1>6, <1>7 DEF Next, Step

LEMMA RunIsGood == Spec => [](RunTypeOK /\ LastInv)
BY RunTypeInit, RunTypeNext, LastInit, LastNext, PTL DEF Spec

\* No tool runs that the agent version or the skill active at that moment
\* forbids, and no call of a batch that was refused as a whole, for any policy,
\* any batches and any number of interrupts (toolPolicyError, setBatchPolicy).
THEOREM OnlyPermittedCallsRun == Spec => []ExecutedWasPermitted
BY RunIsGood, PTL DEF LastInv

\* An approved call runs under the skill it was interrupted under
\* (interruptForApproval and its interrupt state).
THEOREM ApprovedCallKeepsSkill == Spec => []SkillRestored
BY RunIsGood, PTL DEF LastInv

-----------------------------------------------------------------------------
(* The event stream *)

Events == {"info", "approval", "error", "done"}

Has(c, e) == \E i \in DOMAIN c.chan : c.chan[i] = e

\* The client has been or will be told of an approval.
Flagged(c) == c.approval \/ Has(c, "approval")

Before == Early \cup InBatch \cup {"persist"}

\* A run that still has its turn and its client, and no answer yet.
Pending(g, c) ==
    /\ ~g.cancelled
    /\ g.pc \in Before => ~Flagged(c)
    /\ g.pc = "persist" => g.held # {}
    /\ g.pc = "approvals" => g.next = "awaiting_approval" /\ (g.todo # {} \/ Flagged(c))
    /\ g.pc = "commit" => (g.next = "awaiting_approval" <=> Flagged(c))
    /\ g.pc = "finish" => g.committed = "active"
    /\ g.pc = "done" => g.committed # "none"
    /\ g.pc = "ended" => g.committed # "none" \/ Has(c, "error")
    /\ g.committed = "active" => ~Flagged(c)
    /\ g.committed = "awaiting_approval" => Flagged(c)

GoodStream(g, c) ==
    /\ g.pc \notin {"finish", "done", "ended"} => g.committed = "none"
    /\ ~c.lost /\ c.client = "connected" /\ ~g.resumed =>
          /\ c.reply = "none" => Pending(g, c)
          /\ c.reply \in {"completed", "awaiting_approval"} => g.pc = "ended"
          /\ c.reply = "completed" => g.committed = "active"
          /\ c.reply = "awaiting_approval" => g.committed = "awaiting_approval"

StreamTypeOK ==
    stream \in [Runs -> Streams] /\ \A q \in Runs : GoodStream(run[q], stream[q])

\* The stream of a run after a send of e that may have failed.
Grew(c, d, e) ==
    /\ d.lost = c.lost /\ d.client = c.client /\ d.reply = c.reply /\ d.approval = c.approval
    /\ \A f \in Events : Has(c, f) => Has(d, f)
    /\ \A f \in Events : Has(d, f) => Has(c, f) \/ e = f

\* The result of a step on the stream of run r.
Flows(r, d) == d \in Streams /\ stream' = [stream EXCEPT ![r] = d]

LEMMA StillFlows ==
    ASSUME StreamTypeOK, NEW r \in Runs, UNCHANGED stream
    PROVE  Flows(r, stream[r]) /\ \A e \in Events : Grew(stream[r], stream[r], e)
BY DEF StreamTypeOK, Flows, Grew

LEMMA PutFlows ==
    ASSUME StreamTypeOK, NEW r \in Runs, NEW e \in Events, Put(r, e)
    PROVE  \E d : /\ Flows(r, d) /\ Grew(stream[r], d, e)
                  /\ run[r].resumed \/ Has(d, e)
<1> PICK c \in Streams : c = stream[r]
  BY DEF StreamTypeOK
<1>1. CASE run[r].resumed
  BY <1>1, StillFlows DEF Put
<1>2. CASE ~run[r].resumed
  <2>1. c.chan \in Seq(Events) /\ EventCap \in Nat
    BY BoundedSeqIs, RunAssumption DEF Streams, Events
  <2> DEFINE q == Append(c.chan, e)
             d == [c EXCEPT !.chan = q]
  <2>2. q \in Seq(Events)
    BY <2>1
  <2>3. /\ Len(q) = Len(c.chan) + 1 /\ q[Len(c.chan) + 1] = e
        /\ \A i \in 1 .. Len(c.chan) : q[i] = c.chan[i]
    BY <2>1
  <2>4. Len(c.chan) < EventCap /\ stream' = [stream EXCEPT ![r].chan = q]
    BY <1>2 DEF Put
  <2> HIDE DEF q
  <2>5. q \in BoundedSeq(Events, EventCap)
    BY <2>1, <2>2, <2>3, <2>4, BoundedSeqIs
  <2>6. stream' = [stream EXCEPT ![r] = d]
    BY <2>4 DEF StreamTypeOK
  <2>7. d \in Streams
    BY <2>5 DEF Streams, Events
  <2>8. /\ d.lost = c.lost /\ d.client = c.client /\ d.reply = c.reply
        /\ d.approval = c.approval /\ d.chan = q
    BY DEF Streams
  <2> HIDE DEF d
  <2>9. \A f \in Events : Has(d, f) <=> Has(c, f) \/ e = f
    <3>1. /\ DOMAIN d.chan = 1 .. Len(c.chan) + 1 /\ DOMAIN c.chan = 1 .. Len(c.chan)
          /\ Len(c.chan) \in Nat
      BY <2>1, <2>2, <2>3, <2>8
    <3> QED BY <2>3, <2>8, <3>1, SMTT(30) DEF Has
  <2> QED BY <2>6, <2>7, <2>8, <2>9 DEF Flows, Grew
<1> QED BY <1>1, <1>2

LEMMA SendFlows ==
    ASSUME StreamTypeOK, NEW r \in Runs, NEW e \in Events, Send(r, e)
    PROVE  \E d : /\ Flows(r, d) /\ Grew(stream[r], d, e)
                  /\ run[r].resumed \/ run[r].cancelled \/ Has(d, e)
<1>1. CASE Put(r, e)
  BY <1>1, PutFlows
<1>2. CASE NotPut(r)
  BY <1>2, StillFlows DEF NotPut
<1> QED BY <1>1, <1>2 DEF Send

Same(g, h) == h.resumed = g.resumed /\ h.cancelled = g.cancelled /\ h.committed = g.committed

\* The course of a run up to its commit.
LEMMA EarlyStep ==
    ASSUME NEW g, NEW h, NEW c, NEW d, GoodStream(g, c), Same(g, h), Grew(c, d, "info"),
           g.pc \in Before,
           \/ h.pc \in Before /\ (h.pc = "persist" => h.held # {})
           \/ h.pc = "error"
           \/ h.pc = "commit" /\ h.next = "active"
    PROVE  GoodStream(h, d)
<1>1. ~Flagged(c) => ~Flagged(d)
  BY DEF Grew, Flagged, Events
<1>2. g.pc \notin {"approvals", "commit", "finish", "done", "ended"} /\ g.committed = "none"
  BY DEF Before, Early, InBatch, GoodStream
<1>3. h.pc \notin {"approvals", "finish", "done", "ended"} /\ h.committed = "none"
  BY <1>2 DEF Before, Early, InBatch, Same
<1>4. Pending(g, c) => Pending(h, d)
  BY <1>1, <1>2, <1>3 DEF Pending, Same, Before, Early, InBatch
<1> QED BY <1>2, <1>3, <1>4 DEF GoodStream, Same, Grew

\* A cancelled run has nobody left to tell.
LEMMA CancelledStep ==
    ASSUME NEW g, NEW h, NEW c, NEW d, GoodStream(g, c), Same(g, h), Grew(c, d, "info"),
           g.cancelled, g.pc # "ended", h.pc = "ended"
    PROVE  GoodStream(h, d)
BY DEF GoodStream, Same, Grew, Pending

\* The steps that end a run, and the one that emits its approvals.
LEMMA LateStep ==
    ASSUME NEW g, NEW h, NEW c, NEW d, NEW e \in Events, GoodStream(g, c), Same(g, h),
           Grew(c, d, e), h.next = g.next,
           g.resumed \/ g.cancelled \/ Has(d, e) \/ (g.pc = "approvals" /\ h.pc = "commit"),
           \/ g.pc = "finish" /\ h.pc = "done" /\ e = "info"
           \/ g.pc = "done" /\ h.pc = "ended" /\ e = "done"
           \/ g.pc = "error" /\ h.pc = "ended" /\ e = "error"
           \/ g.pc = "approvals" /\ h.pc = "approvals" /\ e = "approval"
           \/ g.pc = "approvals" /\ h.pc = "commit" /\ e = "info" /\ g.todo = {}
    PROVE  GoodStream(h, d)
<1>1. Has(c, "error") => Has(d, "error")
  BY DEF Grew, Events
<1>2. Flagged(c) => Flagged(d)
  BY DEF Grew, Flagged, Events
<1>3. e # "approval" => (Flagged(d) => Flagged(c))
  BY DEF Grew, Flagged, Events
<1>4. e = "approval" /\ Has(d, e) => Flagged(d)
  BY DEF Flagged
<1>5. g.pc \in {"approvals", "error"} => g.committed = "none"
  BY DEF GoodStream
<1>6. ~g.resumed /\ Pending(g, c) => Pending(h, d)
  BY <1>1, <1>2, <1>3, <1>4, <1>5 DEF Pending, Same, Before, Early, InBatch
<1> QED BY <1>5, <1>6 DEF GoodStream, Same, Grew

\* What a step on run r has to show.
Keeps(r, d) == Flows(r, d) /\ GoodStream(run'[r], d)

LEMMA KeepsGood ==
    ASSUME RunTypeOK, StreamTypeOK, NEW r \in Runs, NEW h, Becomes(r, h), NEW d, Keeps(r, d)
    PROVE  StreamTypeOK'
<1>1. \A q \in Runs : q # r => run'[q] = run[q] /\ stream'[q] = stream[q]
  BY DEF RunTypeOK, StreamTypeOK, Becomes, Keeps, Flows
<1>2. stream' \in [Runs -> Streams] /\ stream'[r] = d
  BY DEF StreamTypeOK, Keeps, Flows
<1>3. \A q \in Runs : GoodStream(run'[q], stream'[q])
  BY <1>1, <1>2 DEF StreamTypeOK, Keeps
<1> QED BY <1>2, <1>3 DEF StreamTypeOK

\* From the start of a run to its interrupt or answer.
LEMMA StreamEarly ==
    ASSUME RunTypeOK, StreamTypeOK, NEW r \in Runs,
           \/ Start(r) \/ SendStarted(r) \/ GuardInput(r) \/ CallModel(r) \/ ModelFails(r)
           \/ ModelCallsTools(r) \/ ModelAnswers(r) \/ LoadSkill(r) \/ Announce(r)
           \/ CallFails(r) \/ Refuse(r) \/ Suspend(r) \/ Execute(r) \/ BatchEnds(r)
    PROVE  \E d : Keeps(r, d)
<1>g. run[r] \in Goroutines /\ GoodStream(run[r], stream[r]) /\ "info" \in Events
  BY DEF RunTypeOK, StreamTypeOK, Events
<1>b. /\ run[r].pc \in Before
      /\ run[r].pc # "ended"
  BY DEF Start, SendStarted, GuardInput, CallModel, ModelFails, ModelCallsTools, ModelAnswers,
         LoadSkill, Announce, CallFails, Refuse, Suspend, Execute, BatchEnds, AtCall,
         Before, Early, InBatch
<1>1. ASSUME Same(run[r], run'[r]), NEW d, Flows(r, d), Grew(stream[r], d, "info"),
             \/ run'[r].pc \in Before /\ (run'[r].pc = "persist" => run'[r].held # {})
             \/ run'[r].pc = "error"
             \/ run'[r].pc = "commit" /\ run'[r].next = "active"
      PROVE  \E k : Keeps(r, k)
  <2>1. PICK g, h : g = run[r] /\ h = run'[r]
    OBVIOUS
  <2>2. GoodStream(h, d)
    BY <1>1, <1>g, <1>b, <2>1, EarlyStep
  <2> QED BY <1>1, <2>1, <2>2 DEF Keeps
<1>2. ASSUME Same(run[r], run'[r]), UNCHANGED stream,
             \/ run'[r].pc \in Before /\ (run'[r].pc = "persist" => run'[r].held # {})
             \/ run'[r].pc = "error"
             \/ run'[r].pc = "commit" /\ run'[r].next = "active"
      PROVE  \E k : Keeps(r, k)
  BY <1>1, <1>2, <1>g, StillFlows
<1>3. ASSUME NEW l, Goto(r, l)
      PROVE  Same(run[r], run'[r]) /\ run'[r].pc = l /\ run'[r].held = run[r].held
  BY <1>3, <1>g DEF Goto, Same, Goroutines, RunTypeOK
<1>4. CASE Start(r)
  <2>0. PICK network \in BOOLEAN, explicit \in Skills \cup {NoSkill} :
            run' = [run EXCEPT ![r].pc = "starting", ![r].network = network,
                               ![r].explicit = explicit]
    BY <1>4 DEF Start
  <2>1. Same(run[r], run'[r]) /\ run'[r].pc = "starting"
    BY <2>0, <1>g DEF Same, Goroutines, RunTypeOK
  <2> QED BY <1>2, <1>4, <2>1 DEF Start, Before, Early
<1>5. CASE SendStarted(r)
  <2>1. CASE Put(r, "info") /\ Goto(r, "input")
    BY <1>1, <1>3, <1>g, <2>1, PutFlows DEF Before, Early
  <2>2. CASE NotPut(r) /\ Goto(r, "ended")
    <3>1. PICK g, h : g = run[r] /\ h = run'[r]
      OBVIOUS
    <3>2. Flows(r, stream[r]) /\ Grew(stream[r], stream[r], "info")
      BY <1>g, <2>2, StillFlows DEF NotPut
    <3>3. PICK c : c = stream[r]
      OBVIOUS
    <3>4. GoodStream(h, c)
      BY <1>3, <1>g, <1>b, <2>2, <3>1, <3>2, <3>3, CancelledStep DEF NotPut
    <3> QED BY <3>1, <3>2, <3>3, <3>4 DEF Keeps
  <2> QED BY <1>5, <2>1, <2>2 DEF SendStarted
<1>6. CASE GuardInput(r)
  BY <1>2, <1>3, <1>6 DEF GuardInput, Before, Early
<1>7. CASE CallModel(r)
  <2>1. CASE Goto(r, "error")
    BY <1>2, <1>3, <1>7, <2>1 DEF CallModel
  <2>2. CASE run' = [run EXCEPT ![r].pc = "calling", ![r].steps = @ + 1, ![r].attempts = 0]
    <3>1. Same(run[r], run'[r]) /\ run'[r].pc = "calling"
      BY <2>2, <1>g DEF Same, Goroutines, RunTypeOK
    <3> QED BY <1>2, <1>7, <3>1 DEF CallModel, Before, Early
  <2> QED BY <1>7, <2>1, <2>2 DEF CallModel
<1>8. CASE ModelFails(r)
  <2>1. CASE Goto(r, "error")
    BY <1>2, <1>3, <1>8, <2>1 DEF ModelFails
  <2>2. CASE run' = [run EXCEPT ![r].attempts = @ + 1]
    <3>1. Same(run[r], run'[r]) /\ run'[r].pc = "calling"
      BY <1>8, <2>2, <1>g DEF Same, Goroutines, RunTypeOK, ModelFails
    <3> QED BY <1>2, <1>8, <3>1 DEF ModelFails, Before, Early
  <2> QED BY <1>8, <2>1, <2>2 DEF ModelFails
<1>9. CASE ModelCallsTools(r)
  <2>0. PICK batch \in Batches \ {<<>>} :
          run' = [run EXCEPT ![r].pc = "tools", ![r].batch = batch,
                             ![r].todo = DOMAIN batch, ![r].failing = FALSE,
                             ![r].asked = run[r].active,
                             ![r].denied = BatchDenied(batch, run[r].active, run[r].network)]
    BY <1>9 DEF ModelCallsTools
  <2>1. Same(run[r], run'[r]) /\ run'[r].pc = "tools"
    BY <2>0, <1>g DEF Same, Goroutines, RunTypeOK
  <2> QED BY <1>2, <1>9, <2>1 DEF ModelCallsTools, Before, InBatch
<1>10. CASE ModelAnswers(r)
  <2>1. CASE /\ Put(r, "info")
             /\ run' = [run EXCEPT ![r].pc = "commit", ![r].next = "active"]
    <3>1. Same(run[r], run'[r]) /\ run'[r].pc = "commit" /\ run'[r].next = "active"
      BY <2>1, <1>g DEF Same, Goroutines, RunTypeOK
    <3> QED BY <1>1, <1>g, <2>1, <3>1, PutFlows
  <2>2. CASE UNCHANGED stream /\ Goto(r, "error")
    BY <1>2, <1>3, <2>2
  <2> QED BY <1>10, <2>1, <2>2 DEF ModelAnswers, NotPut
<1>11. CASE LoadSkill(r)
  <2>1. Same(run[r], run'[r]) /\ run'[r].pc = "tools"
    BY <1>11, <1>g DEF LoadSkill, AtCall, Same, Goroutines, RunTypeOK
  <2>2. Send(r, "info") \/ UNCHANGED stream
    BY <1>11 DEF LoadSkill
  <2> QED BY <1>1, <1>2, <1>g, <2>1, <2>2, SendFlows DEF Before, InBatch
<1>12. CASE Announce(r)
  BY <1>1, <1>3, <1>g, <1>12, PutFlows DEF Announce, Before, InBatch
<1>13. CASE CallFails(r)
  <2>1. Same(run[r], run'[r]) /\ run'[r].pc = "tools"
    BY <1>13, <1>g DEF CallFails, Same, Goroutines, RunTypeOK
  <2> QED BY <1>2, <1>13, <2>1 DEF CallFails, Before, InBatch
<1>14. CASE Refuse(r)
  <2>1. Same(run[r], run'[r]) /\ run'[r].pc = "tools"
    BY <1>14, <1>g DEF Refuse, Same, Goroutines, RunTypeOK
  <2> QED BY <1>1, <1>g, <1>14, <2>1, SendFlows DEF Refuse, Before, InBatch
<1>15. CASE Suspend(r)
  <2>1. Same(run[r], run'[r]) /\ run'[r].pc = "tools"
    BY <1>15, <1>g DEF Suspend, Same, Goroutines, RunTypeOK
  <2> QED BY <1>2, <1>15, <2>1 DEF Suspend, Before, InBatch
<1>16. CASE Execute(r)
  <2>1. Same(run[r], run'[r]) /\ run'[r].pc = "tools"
    <3>1. PICK ok \in BOOLEAN :
              run' = [run EXCEPT ![r].pc = "tools", ![r].todo = @ \ {Pos(r)},
                                 ![r].active = SkillOf(r), ![r].failing = @ \/ ~ok]
      BY <1>16 DEF Execute
    <3> QED BY <3>1, <1>g DEF Same, Goroutines, RunTypeOK
  <2>2. Send(r, "info") \/ UNCHANGED stream
    BY <1>16 DEF Execute
  <2> QED BY <1>1, <1>2, <1>g, <2>1, <2>2, SendFlows DEF Before, InBatch
<1>17. CASE BatchEnds(r)
  <2>1. CASE run[r].held # {} /\ Goto(r, "persist")
    BY <1>2, <1>3, <1>17, <2>1 DEF BatchEnds, Before
  <2>2. CASE run' = [run EXCEPT ![r].pc = IF run[r].failing THEN "error" ELSE "model",
                              ![r].batch = <<>>, ![r].todo = {}, ![r].held = {},
                              ![r].stored = {}, ![r].saved = {}, ![r].target = 0]
    <3>1. Same(run[r], run'[r]) /\ run'[r].pc \in {"error", "model"}
      BY <2>2, <1>g DEF Same, Goroutines, RunTypeOK
    <3> QED BY <1>2, <1>17, <3>1 DEF BatchEnds, Before, Early
  <2> QED BY <1>17, <2>1, <2>2 DEF BatchEnds
<1> QED BY <1>4, <1>5, <1>6, <1>7, <1>8, <1>9, <1>10, <1>11, <1>12, <1>13, <1>14, <1>15,
           <1>16, <1>17

\* Persisting, emitting, committing and telling.
LEMMA StreamLate ==
    ASSUME RunTypeOK, StreamTypeOK, NEW r \in Runs,
           \/ Persist(r) \/ EmitApproval(r) \/ Commit(r)
           \/ SendAnswerDone(r) \/ SendDone(r) \/ SendError(r)
    PROVE  \E d : Keeps(r, d)
<1> PICK g \in Goroutines : g = run[r]
  BY DEF RunTypeOK
<1> PICK c \in Streams : c = stream[r]
  BY DEF StreamTypeOK
<1> PICK h : h = run'[r]
  OBVIOUS
<1>g. GoodStream(g, c) /\ {"info", "approval", "done", "error"} \subseteq Events
  BY DEF RunTypeOK, StreamTypeOK, Events
<1>1. ASSUME NEW l, Goto(r, l)
      PROVE  Same(g, h) /\ h.pc = l /\ h.next = g.next /\ h.held = g.held
  BY <1>1 DEF Goto, Same, Goroutines, RunTypeOK
<1>2. UNCHANGED stream => Flows(r, c) /\ Grew(c, c, "info")
  BY <1>g, StillFlows
<1>3. CASE Persist(r)
  <2>0. g.pc = "persist" /\ UNCHANGED stream
    BY <1>3 DEF Persist
  <2>1. CASE Goto(r, "error")
    <3>1. GoodStream(h, c)
      BY <1>1, <1>2, <1>g, <2>0, <2>1, EarlyStep DEF Before
    <3> QED BY <1>2, <2>0, <3>1 DEF Keeps
  <2>2. CASE run' = [run EXCEPT ![r].pc = IF run[r].resumed THEN "commit" ELSE "approvals",
                                ![r].saved = @ \cup HeldPos(r),
                                ![r].todo = HeldPos(r),
                                ![r].next = "awaiting_approval"]
    <3>1. /\ Same(g, h) /\ h.next = "awaiting_approval" /\ h.todo = HeldPos(r)
          /\ h.pc \in {"commit", "approvals"} /\ (~g.resumed => h.pc = "approvals")
      BY <2>2 DEF Same, Goroutines, RunTypeOK
    <3>2. g.held # {} => h.todo # {}
      BY <3>1 DEF HeldPos
    <3>3. g.committed = "none"
      BY <1>g, <2>0 DEF GoodStream
    <3>4. ~g.resumed /\ Pending(g, c) => Pending(h, c)
      BY <2>0, <3>1, <3>2, <3>3 DEF Pending, Same, Before, Early, InBatch
    <3>5. GoodStream(h, c)
      BY <1>g, <2>0, <3>1, <3>3, <3>4 DEF GoodStream, Same
    <3> QED BY <1>2, <2>0, <3>5 DEF Keeps
  <2> QED BY <1>3, <2>1, <2>2 DEF Persist
<1>4. CASE EmitApproval(r)
  <2>0. g.pc = "approvals"
    BY <1>4 DEF EmitApproval
  <2>1. CASE g.todo = {} /\ Goto(r, "commit") /\ UNCHANGED stream
    <3>1. GoodStream(h, c)
      BY <1>1, <1>2, <1>g, <2>0, <2>1, LateStep
    <3> QED BY <1>2, <2>1, <3>1 DEF Keeps
  <2>2. CASE run' = [run EXCEPT ![r].todo = @ \ {Pos(r)}] /\ Send(r, "approval")
    <3>1. Same(g, h) /\ h.pc = "approvals" /\ h.next = g.next
      BY <2>0, <2>2 DEF Same, Goroutines, RunTypeOK
    <3>2. PICK d : /\ Flows(r, d) /\ Grew(c, d, "approval")
                   /\ g.resumed \/ g.cancelled \/ Has(d, "approval")
      BY <1>g, <2>2, SendFlows
    <3>3. GoodStream(h, d)
      BY <1>g, <2>0, <3>1, <3>2, LateStep
    <3> QED BY <3>2, <3>3 DEF Keeps
  <2> QED BY <1>4, <2>1, <2>2 DEF EmitApproval
<1>5. CASE Commit(r)
  <2>0. g.pc = "commit" /\ UNCHANGED stream
    BY <1>5 DEF Commit
  <2>1. CASE Goto(r, "error")
    <3>1. Same(g, h) /\ h.pc = "error"
      BY <1>1, <2>1
    <3>2. GoodStream(h, c)
      BY <1>g, <2>0, <3>1 DEF GoodStream, Pending, Same, Before, Early, InBatch
    <3> QED BY <1>2, <2>0, <3>2 DEF Keeps
  <2>2. CASE run' = [run EXCEPT ![r].committed = run[r].next,
                             ![r].pc = IF run[r].resumed THEN "ended"
                                       ELSE IF run[r].next = "active" THEN "finish"
                                       ELSE "done"]
    <3>1. /\ h.resumed = g.resumed /\ h.cancelled = g.cancelled /\ h.committed = g.next
          /\ h.pc = IF g.resumed THEN "ended" ELSE IF g.next = "active" THEN "finish" ELSE "done"
          /\ g.next \in {"active", "awaiting_approval"}
      BY <2>2 DEF Goroutines, RunTypeOK
    <3>2. ~g.resumed /\ Pending(g, c) => Pending(h, c)
      BY <2>0, <3>1 DEF Pending, Before, Early, InBatch
    <3>3. GoodStream(h, c)
      BY <1>g, <2>0, <3>1, <3>2 DEF GoodStream
    <3> QED BY <1>2, <2>0, <3>3 DEF Keeps
  <2> QED BY <1>5, <2>1, <2>2 DEF Commit
<1>6. CASE SendAnswerDone(r)
  <2>0. g.pc = "finish"
    BY <1>6 DEF SendAnswerDone
  <2>1. CASE Put(r, "info") /\ Goto(r, "done")
    <3>1. PICK d : /\ Flows(r, d) /\ Grew(c, d, "info")
                   /\ g.resumed \/ Has(d, "info")
      BY <1>g, <2>1, PutFlows
    <3>2. GoodStream(h, d)
      BY <1>1, <1>g, <2>0, <2>1, <3>1, LateStep
    <3> QED BY <3>1, <3>2 DEF Keeps
  <2>2. CASE NotPut(r) /\ Goto(r, "ended")
    <3>1. GoodStream(h, c)
      BY <1>1, <1>2, <1>g, <2>0, <2>2, CancelledStep DEF NotPut
    <3> QED BY <1>2, <2>2, <3>1 DEF Keeps, NotPut
  <2> QED BY <1>6, <2>1, <2>2 DEF SendAnswerDone
<1>7. CASE SendDone(r)
  <2>1. PICK d : /\ Flows(r, d) /\ Grew(c, d, "done")
                 /\ g.resumed \/ g.cancelled \/ Has(d, "done")
    BY <1>7, <1>g, SendFlows DEF SendDone
  <2>2. GoodStream(h, d)
    BY <1>1, <1>7, <1>g, <2>1, LateStep DEF SendDone
  <2> QED BY <2>1, <2>2 DEF Keeps
<1>8. CASE SendError(r)
  <2>1. PICK d : /\ Flows(r, d) /\ Grew(c, d, "error")
                 /\ g.resumed \/ g.cancelled \/ Has(d, "error")
    BY <1>8, <1>g, SendFlows DEF SendError
  <2>2. GoodStream(h, d)
    BY <1>1, <1>8, <1>g, <2>1, LateStep DEF SendError
  <2> QED BY <2>1, <2>2 DEF Keeps
<1> QED BY <1>3, <1>4, <1>5, <1>6, <1>7, <1>8

\* Taking the first event off the channel.
LEMMA TailOfChan ==
    ASSUME NEW c \in Streams, c.chan # <<>>
    PROVE  /\ Head(c.chan) \in Events
           /\ Tail(c.chan) \in BoundedSeq(Events, EventCap)
           /\ \A e \in Events :
                 Has(c, e) <=> Head(c.chan) = e \/ \E i \in DOMAIN Tail(c.chan) : Tail(c.chan)[i] = e
<1> PICK s : s = c.chan
  OBVIOUS
<1>1. s \in Seq(Events) /\ EventCap \in Nat /\ Len(s) <= EventCap
  BY BoundedSeqIs, RunAssumption DEF Streams, Events
<1>2. s # <<>>
  OBVIOUS
<1>3. /\ Len(s) \in Nat /\ Len(s) >= 1 /\ Head(s) = s[1] /\ Tail(s) \in Seq(Events)
      /\ Len(Tail(s)) = Len(s) - 1 /\ \A i \in 1 .. Len(s) - 1 : Tail(s)[i] = s[i + 1]
  <2>1. Len(s) \in Nat /\ Len(s) # 0
    BY <1>1, <1>2, EmptySeq
  <2>2. /\ Tail(s) \in Seq(Events) /\ Len(Tail(s)) = Len(s) - 1
        /\ \A i \in 1 .. Len(Tail(s)) : Tail(s)[i] = s[i + 1]
    BY <1>1, <1>2, HeadTailProperties
  <2>3. Head(s) = s[1]
    BY <1>1, <1>2
  <2> QED BY <2>1, <2>2, <2>3
<1>4. DOMAIN s = 1 .. Len(s) /\ DOMAIN Tail(s) = 1 .. Len(s) - 1
  BY <1>1, <1>3
<1>5. Tail(s) \in BoundedSeq(Events, EventCap)
  <2>1. Len(Tail(s)) <= EventCap
    BY <1>1, <1>3
  <2> QED BY <1>1, <1>3, <2>1, BoundedSeqIs
<1>6. Head(s) \in Events
  BY <1>1, <1>2, HeadTailProperties
<1>7. ASSUME NEW e \in Events
      PROVE  (\E i \in DOMAIN s : s[i] = e) <=> s[1] = e \/ \E i \in DOMAIN Tail(s) : Tail(s)[i] = e
  <2>1. ASSUME NEW i \in DOMAIN s, s[i] = e, i # 1
        PROVE  \E j \in DOMAIN Tail(s) : Tail(s)[j] = e
    <3>1. i - 1 \in 1 .. Len(s) - 1 /\ (i - 1) + 1 = i
      BY <1>3, <1>4, <2>1
    <3> QED BY <1>3, <1>4, <2>1, <3>1
  <2>2. ASSUME NEW i \in DOMAIN Tail(s), Tail(s)[i] = e PROVE \E j \in DOMAIN s : s[j] = e
    <3>1. i + 1 \in DOMAIN s /\ Tail(s)[i] = s[i + 1]
      BY <1>3, <1>4
    <3> QED BY <2>2, <3>1
  <2>3. 1 \in DOMAIN s
    BY <1>3, <1>4
  <2> QED BY <2>1, <2>2, <2>3
<1> QED BY <1>3, <1>5, <1>6, <1>7 DEF Has

\* Steps of the handler, the client and the lease; a resumed run has no stream.
LEMMA StreamOthers ==
    ASSUME RunTypeOK, StreamTypeOK, NEW r \in Runs,
           Resume(r) \/ LoseTurn(r) \/ Disconnect(r) \/ ReadEvent(r)
    PROVE  \E d : Keeps(r, d)
<1> PICK g \in Goroutines : g = run[r]
  BY DEF RunTypeOK
<1> PICK c \in Streams : c = stream[r]
  BY DEF StreamTypeOK
<1> PICK h : h = run'[r]
  OBVIOUS
<1>g. GoodStream(g, c)
  BY DEF StreamTypeOK
<1>1. CASE Resume(r)
  <2>1. PICK i \in HeldPos(r) :
          run' = [run EXCEPT ![r] =
                    [@ EXCEPT !.pc = "tools", !.resumed = TRUE, !.target = i,
                              !.todo = HeldPos(r), !.stored = run[r].held, !.held = {},
                              !.active = NoSkill, !.explicit = NoSkill, !.denied = FALSE,
                              !.failing = FALSE, !.cancelled = FALSE, !.committed = "none"]]
    BY <1>1 DEF Resume
  <2>2. h.resumed /\ h.committed = "none"
    BY <2>1 DEF RunTypeOK, Goroutines
  <2>3. GoodStream(h, c)
    BY <2>2 DEF GoodStream
  <2> QED BY <1>1, <2>3, StillFlows DEF Keeps, Resume
<1>2. CASE LoseTurn(r)
  <2> DEFINE d == [c EXCEPT !.lost = TRUE]
  <2>1. d \in Streams /\ d.lost
    BY DEF Streams
  <2>2. stream' = [stream EXCEPT ![r] = d]
    BY <1>2 DEF LoseTurn, StreamTypeOK
  <2>3. h.pc = g.pc /\ h.committed = g.committed
    BY <1>2 DEF LoseTurn, RunTypeOK, Goroutines
  <2> HIDE DEF d
  <2>4. GoodStream(h, d)
    BY <1>g, <2>1, <2>3 DEF GoodStream
  <2> QED BY <2>1, <2>2, <2>4 DEF Keeps, Flows
<1>3. CASE Disconnect(r)
  <2> DEFINE d == [c EXCEPT !.client = "gone"]
  <2>1. d \in Streams /\ d.client = "gone"
    BY DEF Streams
  <2>2. stream' = [stream EXCEPT ![r] = d]
    BY <1>3 DEF Disconnect, StreamTypeOK
  <2>3. h.pc = g.pc /\ h.committed = g.committed
    BY <1>3 DEF Disconnect, RunTypeOK, Goroutines
  <2> HIDE DEF d
  <2>4. GoodStream(h, d)
    BY <1>g, <2>1, <2>3 DEF GoodStream
  <2> QED BY <2>1, <2>2, <2>4 DEF Keeps, Flows
<1>4. CASE ReadEvent(r)
  <2>0. c.chan # <<>> /\ c.reply = "none"
    BY <1>4 DEF ReadEvent
  <2>1. PICK e \in Events : e = Head(c.chan)
    BY <2>0, TailOfChan
  <2>2. PICK q \in BoundedSeq(Events, EventCap) : q = Tail(c.chan)
    BY <2>0, TailOfChan
  <2>3. PICK a \in BOOLEAN : a = (c.approval \/ e = "approval")
    OBVIOUS
  <2>4. PICK y \in {"none", "error"} : y = IF e = "error" THEN "error" ELSE "none"
    OBVIOUS
  <2> DEFINE d == [c EXCEPT !.chan = q, !.approval = a, !.reply = y]
  <2>5. stream' = [stream EXCEPT ![r] = d]
    BY <1>4, <2>0, <2>1, <2>2, <2>3, <2>4 DEF ReadEvent, StreamTypeOK
  <2>6. d \in Streams
    BY <2>2 DEF Streams, Events
  <2>7. /\ d.chan = q /\ d.approval = a /\ d.reply = y
        /\ d.lost = c.lost /\ d.client = c.client
    BY DEF Streams
  <2> HIDE DEF d
  <2>8. /\ h.pc = g.pc /\ h.committed = g.committed /\ h.resumed = g.resumed
        /\ h.next = g.next /\ h.todo = g.todo /\ h.held = g.held
        /\ e # "error" => h.cancelled = g.cancelled
    <3>1. PICK v \in BOOLEAN : v = (g.cancelled \/ (e = "error" /\ Running(r)))
      OBVIOUS
    <3>2. run' = [run EXCEPT ![r].cancelled = v]
      BY <1>4, <2>1, <3>1 DEF ReadEvent, RunTypeOK
    <3>3. e # "error" => v = g.cancelled
      BY <3>1 DEF Goroutines
    <3> QED BY <3>2, <3>3 DEF RunTypeOK, Goroutines
  <2>9. \A f \in Events : Has(c, f) <=> e = f \/ Has(d, f)
    BY <2>0, <2>1, <2>2, <2>7, TailOfChan DEF Has
  <2>10. Flagged(c) <=> Flagged(d)
    BY <2>3, <2>7, <2>9 DEF Flagged, Events
  <2>11. Has(c, "error") /\ e # "error" => Has(d, "error")
    BY <2>9 DEF Events
  <2>12. e # "error" /\ Pending(g, c) => Pending(h, d)
    BY <2>8, <2>10, <2>11 DEF Pending
  <2>13. GoodStream(h, d)
    BY <1>g, <2>0, <2>4, <2>7, <2>8, <2>12 DEF GoodStream
  <2> QED BY <2>5, <2>6, <2>13 DEF Keeps, Flows
<1> QED BY <1>1, <1>2, <1>3, <1>4

\* The handler found the channel closed and empty: no error was sent, so the
\* turn was saved, and as what the events said.
LEMMA StreamReply ==
    ASSUME RunTypeOK, StreamTypeOK, NEW r \in Runs, Reply(r)
    PROVE  StreamTypeOK'
<1> PICK g \in Goroutines : g = run[r]
  BY DEF RunTypeOK
<1> PICK c \in Streams : c = stream[r]
  BY DEF StreamTypeOK
<1>0. GoodStream(g, c) /\ g.pc = "ended" /\ c.chan = <<>> /\ c.reply = "none" /\ run' = run
  BY DEF StreamTypeOK, Reply
<1>1. ~Has(c, "error") /\ (Flagged(c) <=> c.approval)
  BY <1>0 DEF Has, Flagged
<1>2. PICK y \in {"awaiting_approval", "completed"} :
          y = IF c.approval THEN "awaiting_approval" ELSE "completed"
  OBVIOUS
<1> DEFINE d == [c EXCEPT !.reply = y]
<1>3. d \in Streams /\ stream' = [stream EXCEPT ![r] = d]
  BY <1>2 DEF Reply, StreamTypeOK, Streams
<1>4. d.reply = y /\ d.lost = c.lost /\ d.client = c.client
  BY DEF Streams
<1> HIDE DEF d
<1>5. g.committed \in {"none", "active", "awaiting_approval"}
  BY DEF Goroutines
<1>6. GoodStream(g, d)
  BY <1>0, <1>1, <1>2, <1>4, <1>5 DEF GoodStream, Pending
<1> QED BY <1>0, <1>3, <1>6 DEF StreamTypeOK

LEMMA StreamNext == RunTypeOK /\ StreamTypeOK /\ [Next]_vars => StreamTypeOK'
<1> SUFFICES ASSUME RunTypeOK, StreamTypeOK, [Next]_vars PROVE StreamTypeOK'
  OBVIOUS
<1>1. ASSUME NEW r \in Runs, \E h : Becomes(r, h), \E d : Keeps(r, d) PROVE StreamTypeOK'
  BY <1>1, KeepsGood
<1>2. ASSUME NEW r \in Runs, Step(r) PROVE \E h : Becomes(r, h)
  BY <1>2, PlainSteps, BatchStarts, CallsEnd, CallAnnounced, CallSuspended, BatchIsOver,
     InterruptsPersisted DEF Step
<1>3. ASSUME NEW r \in Runs, Step(r) PROVE \E d : Keeps(r, d)
  BY <1>3, StreamEarly, StreamLate DEF Step
<1>4. ASSUME NEW r \in Runs, Start(r) PROVE StreamTypeOK'
  BY <1>1, <1>4, PlainSteps, StreamEarly
<1>5. ASSUME NEW r \in Runs, Resume(r) \/ LoseTurn(r) \/ ReadEvent(r) \/ Disconnect(r)
      PROVE  StreamTypeOK'
  BY <1>1, <1>5, RunResumed, RunCancelled, StreamOthers
<1>6. CASE UNCHANGED vars
  BY <1>6 DEF vars, StreamTypeOK
<1> QED BY <1>1, <1>2, <1>3, <1>4, <1>5, <1>6, StreamReply DEF Next

LEMMA StreamInit == Init => StreamTypeOK
<1> SUFFICES ASSUME Init PROVE StreamTypeOK
  OBVIOUS
<1>1. <<>> \in BoundedSeq(Events, EventCap)
  <2>1. <<>> \in Seq(Events) /\ Len(<<>>) <= EventCap /\ EventCap \in Nat
    BY RunAssumption
  <2> QED BY <2>1, BoundedSeqIs
<1>2. Listening \in Streams
  BY <1>1 DEF Listening, Streams, Events
<1>3. GoodStream(Idle, Listening)
  BY DEF Idle, Listening, GoodStream, Pending, Flagged, Has
<1> QED BY <1>2, <1>3 DEF Init, StreamTypeOK

LEMMA StreamIsGood == Spec => [](RunTypeOK /\ StreamTypeOK)
BY RunTypeInit, RunTypeNext, StreamInit, StreamNext, PTL DEF Spec

LEMMA RepliesFollow == StreamTypeOK => RepliesAreTrue
BY DEF StreamTypeOK, GoodStream, RepliesAreTrue

LEMMA TypeFollows == RunTypeOK /\ StreamTypeOK /\ LastInv => TypeOK
BY DEF RunTypeOK, StreamTypeOK, LastInv, TypeOK, GoodRun

\* The handler replies what was saved: "completed" only for a turn that was
\* committed as active, "awaiting_approval" only for one that waits, whatever
\* the capacity of the channel and however slowly it is read (Chat, emitter).
THEOREM HandlerRepliesTrue == Spec => []RepliesAreTrue
BY StreamIsGood, RepliesFollow, PTL

\* The counters of a run stay within its limits, its interrupts name calls of
\* its batch, and its channel never holds more than it has room for.
THEOREM AgentRunTypeSafe == Spec => []TypeOK
BY StreamIsGood, RunIsGood, TypeFollows, PTL
=============================================================================
