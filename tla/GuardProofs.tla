---------------------------- MODULE GuardProofs ----------------------------
(***************************************************************************)
(* Proofs about the audit writer and the guard for any number of servers,  *)
(* runs and calls, any channel capacity, batch size and limit.             *)
(***************************************************************************)
EXTENDS Guard, FiniteSetTheorems, TLAPS

-----------------------------------------------------------------------------
(* The audit writer *)

AuditInv == AuditTypeOK /\ EntriesAccounted /\ ClosedIsDrained

\* The counters of a writer are numbers.
LEMMA Counters ==
    ASSUME NEW w \in Writer
    PROVE  /\ w.queue \in Nat /\ w.batch \in Nat /\ w.stored \in Nat /\ w.dropped \in Nat
           /\ w.written \in Nat /\ w.twice \in Nat
BY DEF Writer

\* What a flush makes of a writer: the batch is gone, and every entry of it is
\* stored, dropped or counted twice.
LEMMA FlushedWriter ==
    ASSUME NEW w \in Writer, NEW v \in Flushed(w)
    PROVE  /\ v \in Writer /\ v.phase = w.phase /\ v.queue = w.queue /\ v.batch = 0
           /\ v.written = w.written
           /\ v.stored + v.dropped + w.twice = w.stored + w.dropped + w.batch + v.twice
<1>1. CASE v = [w EXCEPT !.batch = 0, !.stored = @ + w.batch]
  <2> DEFINE n == w.stored + w.batch
  <2>1. n \in Nat
    BY Counters
  <2>2. v = [w EXCEPT !.batch = 0, !.stored = n]
    BY <1>1
  <2> HIDE DEF n
  <2>3. v \in Writer
    BY <2>1, <2>2 DEF Writer
  <2>4. /\ v.phase = w.phase /\ v.queue = w.queue /\ v.batch = 0 /\ v.written = w.written
        /\ v.stored = n /\ v.dropped = w.dropped /\ v.twice = w.twice
    BY <2>2 DEF Writer
  <2> QED
    BY <2>3, <2>4, Counters DEF n
<1>2. ASSUME NEW k \in 0 .. w.batch, v = BatchFails(w, k)
      PROVE  /\ v \in Writer /\ v.phase = w.phase /\ v.queue = w.queue /\ v.batch = 0
             /\ v.written = w.written
             /\ v.stored + v.dropped + w.twice = w.stored + w.dropped + w.batch + v.twice
  <2> DEFINE n == w.stored + k
             t == w.twice + k
             d == w.dropped + w.batch
  <2>1. n \in Nat /\ t \in Nat /\ d \in Nat
    BY Counters
  <2>2. v = [w EXCEPT !.batch = 0, !.stored = n, !.twice = t, !.dropped = d]
    BY <1>2 DEF BatchFails
  <2> HIDE DEF n, t, d
  <2>3. v \in Writer
    BY <2>1, <2>2 DEF Writer
  <2>4. /\ v.phase = w.phase /\ v.queue = w.queue /\ v.batch = 0 /\ v.written = w.written
        /\ v.stored = n /\ v.dropped = d /\ v.twice = t
    BY <2>2 DEF Writer
  <2> QED
    BY <2>3, <2>4, Counters DEF n, t, d
<1> QED
  BY <1>1, <1>2 DEF Flushed

\* The part of the invariant that speaks of one writer.
Sound(w) ==
    /\ w \in Writer /\ w.queue <= Capacity
    /\ w.written + w.twice = w.queue + w.batch + w.stored + w.dropped
    /\ w.phase = "done" => w.queue = 0 /\ w.batch = 0

\* A step of server s that leaves a sound writer keeps the invariant.
LEMMA OneWriter ==
    ASSUME AuditInv, NEW s \in Servers, NEW w, Sound(w), writer' = [writer EXCEPT ![s] = w]
    PROVE  AuditInv'
<1>1. writer' \in [Servers -> Writer] /\ writer'[s] = w
      /\ \A t \in Servers \ {s} : writer'[t] = writer[t]
  BY DEF AuditInv, AuditTypeOK, Sound
<1> QED
  BY <1>1 DEF AuditInv, AuditTypeOK, EntriesAccounted, ClosedIsDrained, Sound

\* Every operation of the writer keeps its invariant.
LEMMA AuditStep ==
    ASSUME AuditInv, [AuditNext]_writer
    PROVE  AuditInv'
<1> USE AuditAssumption
<1>1. CASE UNCHANGED writer
  BY <1>1 DEF AuditInv, AuditTypeOK, EntriesAccounted, ClosedIsDrained
<1>2. ASSUME NEW s \in Servers, Write(s) \/ Close(s) \/ Loop(s)
      PROVE  AuditInv'
  <2> DEFINE w == writer[s]
  <2>0. Sound(w) /\ DOMAIN writer = Servers
    BY DEF AuditInv, AuditTypeOK, EntriesAccounted, ClosedIsDrained, Sound
  <2>1. CASE Write(s)
    <3> DEFINE v == IF w.phase = "open" /\ w.queue < Capacity
                    THEN [w EXCEPT !.written = @ + 1, !.queue = @ + 1]
                    ELSE [w EXCEPT !.written = @ + 1, !.dropped = @ + 1]
               n == w.written + 1
               q == w.queue + 1
               d == w.dropped + 1
    <3>1. n \in Nat /\ q \in Nat /\ d \in Nat
      BY <2>0, Counters DEF Sound
    <3>2. Sound(v)
      <4>1. CASE w.phase = "open" /\ w.queue < Capacity
        <5>1. v = [w EXCEPT !.written = n, !.queue = q]
          BY <4>1
        <5> HIDE DEF n, q, v
        <5>2. /\ v \in Writer /\ v.phase = w.phase /\ v.written = n /\ v.queue = q /\ v.batch = w.batch
              /\ v.stored = w.stored /\ v.dropped = w.dropped /\ v.twice = w.twice
          BY <2>0, <3>1, <5>1 DEF Sound, Writer
        <5> QED
          BY <2>0, <4>1, <5>2, Counters DEF Sound, n, q
      <4>2. CASE ~(w.phase = "open" /\ w.queue < Capacity)
        <5>1. v = [w EXCEPT !.written = n, !.dropped = d]
          BY <4>2
        <5> HIDE DEF n, d, v
        <5>2. /\ v \in Writer /\ v.phase = w.phase /\ v.written = n /\ v.queue = w.queue
              /\ v.batch = w.batch /\ v.stored = w.stored /\ v.dropped = d /\ v.twice = w.twice
          BY <2>0, <3>1, <5>1 DEF Sound, Writer
        <5> QED
          BY <2>0, <5>2, Counters DEF Sound, n, d
      <4> QED
        BY <4>1, <4>2
    <3> QED
      BY <2>1, <3>2, OneWriter DEF Write
  <2>2. CASE Close(s)
    <3>1. Sound([w EXCEPT !.phase = "closed"])
      BY <2>0, <2>2 DEF Sound, Writer, Close
    <3>2. writer' = [writer EXCEPT ![s] = [w EXCEPT !.phase = "closed"]]
      BY <2>2 DEF Close
    <3> QED
      BY <3>1, <3>2, OneWriter
  <2>3. CASE Receive(s) \/ Drain(s)
    <3>1. Sound([w EXCEPT !.queue = @ - 1, !.batch = @ + 1])
      BY <2>0, <2>3 DEF Sound, Writer, Receive, Drain
    <3>2. writer' = [writer EXCEPT ![s] = [w EXCEPT !.queue = @ - 1, !.batch = @ + 1]]
      BY <2>3, <2>0 DEF Receive, Drain
    <3> QED
      BY <3>1, <3>2, OneWriter
  <2>4. CASE Flush(s)
    <3>1. PICK v \in Flushed(w) : writer' = [writer EXCEPT ![s] = v]
      BY <2>4 DEF Flush
    <3>2. Sound(v)
      <4>1. /\ v \in Writer /\ v.queue = w.queue /\ v.batch = 0 /\ v.written = w.written
            /\ v.stored + v.dropped + w.twice = w.stored + w.dropped + w.batch + v.twice
            /\ v.phase = w.phase
        BY <2>0, FlushedWriter DEF Sound
      <4> HIDE DEF w
      <4>2. /\ v.stored \in Nat /\ v.dropped \in Nat /\ v.twice \in Nat /\ v.written \in Nat
            /\ w.stored \in Nat /\ w.dropped \in Nat /\ w.twice \in Nat /\ w.queue \in Nat
            /\ w.batch \in Nat
        BY <2>0, <4>1, Counters DEF Sound
      <4>3. w.written + w.twice = w.queue + w.batch + w.stored + w.dropped
        BY <2>0 DEF Sound
      <4>4. v.written + v.twice = v.queue + v.batch + v.stored + v.dropped
        BY <4>1, <4>2, <4>3
      <4> QED
        BY <2>0, <4>1, <4>4 DEF Sound
    <3> QED
      BY <3>1, <3>2, OneWriter
  <2>5. CASE Quit(s)
    <3>1. Sound([w EXCEPT !.phase = "draining"])
      BY <2>0, <2>5 DEF Sound, Writer, Quit
    <3>2. writer' = [writer EXCEPT ![s] = [w EXCEPT !.phase = "draining"]]
      BY <2>5 DEF Quit
    <3> QED
      BY <3>1, <3>2, OneWriter
  <2>6. CASE FinalFlush(s)
    <3>1. PICK v \in Flushed(w) : writer' = [writer EXCEPT ![s] = [v EXCEPT !.phase = "done"]]
      BY <2>6 DEF FinalFlush
    <3>2. Sound([v EXCEPT !.phase = "done"])
      <4>1. v \in Writer /\ v.queue = 0 /\ v.batch = 0 /\ v.written = w.written
            /\ v.stored + v.dropped + w.twice = w.stored + w.dropped + w.batch + v.twice
        BY <2>0, <2>6, FlushedWriter DEF Sound, FinalFlush
      <4> QED
        BY <2>0, <2>6, <4>1 DEF Sound, Writer, FinalFlush
    <3> QED
      BY <3>1, <3>2, OneWriter
  <2> QED
    BY <1>2, <2>1, <2>2, <2>3, <2>4, <2>5, <2>6 DEF Loop
<1> QED
  BY <1>1, <1>2 DEF AuditNext

\* A new writer is sound.
LEMMA AuditStart == AuditInit => AuditInv
BY AuditAssumption DEF AuditInit, AuditInv, AuditTypeOK, EntriesAccounted, ClosedIsDrained, NewWriter, Writer

\* The audit writer on its own: at every moment each call of Write is waiting,
\* stored or counted as dropped, the channel keeps its bound, and a Close that
\* has returned left nothing behind (Write, Close and loop of audit.go).
THEOREM AuditWriterIsSound == AuditSpec => [](AuditTypeOK /\ EntriesAccounted /\ ClosedIsDrained)
<1>1. AuditInv /\ [AuditNext]_writer => AuditInv'
  BY AuditStep
<1>2. AuditInv => AuditTypeOK /\ EntriesAccounted /\ ClosedIsDrained
  BY DEF AuditInv
<1> QED
  BY <1>1, <1>2, AuditStart, PTL DEF AuditSpec

\* Whatever the runs and the guard do to a writer is what the writer allows:
\* the guard implements the specification of the audit writer.
THEOREM GuardImplementsAuditWriter == Spec => AuditSpec
<1>1. Init => AuditInit
  BY DEF Init
<1>2. [Next]_vars => [AuditNext]_writer
  <2> SUFFICES ASSUME [Next]_vars PROVE AuditNext \/ UNCHANGED writer
    BY DEF vars
  <2>1. CASE UNCHANGED vars
    BY <2>1 DEF vars
  <2>2. ASSUME NEW c \in Callers, Audit(c) PROVE AuditNext
    BY <2>2, GuardAssumption DEF Audit, AuditNext
  <2>3. ASSUME NEW c \in Callers, Arrive(c) \/ CallerStep(c)
        PROVE  AuditNext \/ UNCHANGED writer
    BY <2>2, <2>3 DEF Arrive, CallerStep, CheckInjection, CheckPII, Incr, Expire, Decide, Report, Finish
  <2>4. ASSUME NEW c \in Callers, NEW h \in CallHooks, CallHook(c, h)
        PROVE  UNCHANGED writer
    BY <2>4 DEF CallHook
  <2>5. ASSUME NEW h \in Hooks, WindowEnds(h) PROVE UNCHANGED writer
    BY <2>5 DEF WindowEnds
  <2>6. ASSUME NEW s \in Servers, Server(s) PROVE AuditNext
    BY <2>6 DEF Server, AuditNext
  <2> QED
    BY <2>1, <2>3, <2>4, <2>5, <2>6 DEF Next
<1> QED
  BY <1>1, <1>2, PTL DEF Spec, AuditSpec

\* So no audit entry of a run vanishes uncounted.
THEOREM GuardAccountsEntries == Spec => []EntriesAccounted
BY AuditWriterIsSound, GuardImplementsAuditWriter, PTL

\* And a server whose Close has returned left no entry of any run behind.
THEOREM GuardClosesDrained == Spec => []ClosedIsDrained
BY AuditWriterIsSound, GuardImplementsAuditWriter, PTL

-----------------------------------------------------------------------------
(* Type correctness and the rules on the text *)

GuardTypeOK ==
    /\ caller \in [Callers -> Runs]
    /\ hits \in [Hooks -> Nat] /\ expires \in [Hooks -> BOOLEAN]
    /\ admitted \in [Hooks -> Nat] /\ orphan \in [Hooks -> BOOLEAN]

\* The text a run holds at each stage of the chain.
TextInv ==
    \A c \in Callers :
        /\ caller[c].pc = "pii" => caller[c].text \in {"plain", "pii", "masked"}
        /\ caller[c].pc \in {"incr", "expire", "decide", "ready"} => caller[c].text \in {"plain", "masked"}

\* What a step of one run leaves.
Becomes(c, r) == r \in Runs /\ caller' = [caller EXCEPT ![c] = r]

\* A step of one run touches no other.
LEMMA OnlyOne ==
    ASSUME GuardTypeOK, NEW c \in Callers, NEW r, Becomes(c, r)
    PROVE  /\ caller' \in [Callers -> Runs] /\ caller'[c] = r
           /\ \A d \in Callers \ {c} : caller'[d] = caller[d]
BY DEF GuardTypeOK, Becomes

\* A run that is let through.
LEMMA PassBecomes ==
    ASSUME GuardTypeOK, NEW c \in Callers, Pass(c)
    PROVE  Becomes(c, [caller[c] EXCEPT !.pc = "ready", !.hook = "input", !.n = 0, !.late = FALSE])
BY DEF Pass, Becomes, GuardTypeOK, Runs, Hooks

\* A run that moves on.
LEMMA GotoBecomes ==
    ASSUME GuardTypeOK, NEW c \in Callers,
           NEW label \in {"pii", "incr", "decide", "report"}, Goto(c, label)
    PROVE  Becomes(c, [caller[c] EXCEPT !.pc = label])
BY DEF GuardTypeOK, Runs, Becomes, Goto

\* A run that ends.
LEMMA EndBecomes ==
    ASSUME GuardTypeOK, NEW c \in Callers, End(c)
    PROVE  Becomes(c, [Idle EXCEPT !.pc = "ended"])
<1>1. 0 \in 0 .. MaxHooks
  BY GuardAssumption
<1>2. Idle \in Runs
  BY <1>1 DEF Idle, Runs, Hooks, Texts
<1> QED
  BY <1>2 DEF Runs, Becomes, End

\* Every step keeps the types of the guard's own variables.
LEMMA GuardTypeStep ==
    ASSUME GuardTypeOK, [Next]_vars
    PROVE  GuardTypeOK'
<1>1. CASE UNCHANGED vars
  BY <1>1 DEF GuardTypeOK, vars, limitVars
<1>2. ASSUME NEW c \in Callers, Arrive(c) PROVE GuardTypeOK'
  <2>1. PICK t \in {"plain", "pii", "injection", "both"} :
          caller' = [caller EXCEPT ![c] = [caller[c] EXCEPT !.pc = "injection", !.text = t]]
    BY <1>2 DEF Arrive, GuardTypeOK
  <2>2. [caller[c] EXCEPT !.pc = "injection", !.text = t] \in Runs
    BY DEF GuardTypeOK, Runs, Texts
  <2> QED
    BY <1>2, <2>1, <2>2 DEF Arrive, GuardTypeOK, limitVars
<1>3. ASSUME NEW c \in Callers, CheckInjection(c) PROVE GuardTypeOK'
  <2>1. Goto(c, "report") \/ Goto(c, "pii")
    BY <1>3 DEF CheckInjection
  <2>2. caller' \in [Callers -> Runs]
    BY <2>1, GotoBecomes, OnlyOne
  <2> QED
    BY <1>3, <2>2 DEF CheckInjection, GuardTypeOK, limitVars
<1>4. ASSUME NEW c \in Callers, CheckPII(c) PROVE GuardTypeOK'
  <2>1. CASE Goto(c, "incr")
    BY <1>4, <2>1, GotoBecomes, OnlyOne DEF CheckPII, GuardTypeOK, limitVars
  <2>2. CASE caller' = [caller EXCEPT ![c].pc = "incr", ![c].text = "masked"]
    <3>1. [caller[c] EXCEPT !.pc = "incr", !.text = "masked"] \in Runs
      BY DEF GuardTypeOK, Runs, Texts
    <3>2. caller' \in [Callers -> Runs]
      BY <2>2, <3>1 DEF GuardTypeOK
    <3> QED
      BY <1>4, <3>2 DEF CheckPII, GuardTypeOK, limitVars
  <2> QED
    BY <1>4, <2>1, <2>2 DEF CheckPII
<1>5. ASSUME NEW c \in Callers, Incr(c) PROVE GuardTypeOK'
  <2> DEFINE h == caller[c].hook
             n == hits[h] + 1
  <2>1. h \in Hooks /\ n \in Nat
    BY DEF GuardTypeOK, Runs
  <2>2. CASE Pass(c)
    <3>1. caller' \in [Callers -> Runs]
      BY <2>2, PassBecomes, OnlyOne
    <3>2. hits' \in [Hooks -> Nat] /\ orphan' \in [Hooks -> BOOLEAN]
      BY <1>5, <2>1 DEF Incr, GuardTypeOK, StartsWindow
    <3> QED
      BY <1>5, <3>1, <3>2 DEF Incr, GuardTypeOK
  <2>3. CASE /\ hits' = [hits EXCEPT ![h] = n]
             /\ caller' = [caller EXCEPT ![c].pc = IF StartsWindow(n) THEN "expire" ELSE "decide",
                                         ![c].n = n, ![c].late = FALSE]
             /\ UNCHANGED orphan
    <3> HIDE DEF n
    <3>1. [caller[c] EXCEPT !.pc = IF StartsWindow(n) THEN "expire" ELSE "decide",
                            !.n = n, !.late = FALSE] \in Runs
      BY <2>1 DEF GuardTypeOK, Runs
    <3>2. caller' \in [Callers -> Runs]
      BY <2>3, <3>1 DEF GuardTypeOK
    <3> QED
      BY <1>5, <2>1, <2>3, <3>2 DEF Incr, GuardTypeOK
  <2> QED
    BY <1>5, <2>2, <2>3 DEF Incr
<1>6. ASSUME NEW c \in Callers, Expire(c) PROVE GuardTypeOK'
  <2>1. caller' \in [Callers -> Runs]
    BY <1>6, GotoBecomes, PassBecomes, OnlyOne DEF Expire
  <2>2. caller[c].hook \in Hooks
    BY DEF GuardTypeOK, Runs
  <2> QED
    BY <1>6, <2>1, <2>2 DEF Expire, GuardTypeOK
<1>7. ASSUME NEW c \in Callers, Decide(c) PROVE GuardTypeOK'
  <2>1. caller' \in [Callers -> Runs]
    BY <1>7, GotoBecomes, PassBecomes, EndBecomes, OnlyOne DEF Decide
  <2>2. caller[c].hook \in Hooks
    BY DEF GuardTypeOK, Runs
  <2>3. admitted' \in [Hooks -> Nat]
    BY <1>7, <2>2 DEF Decide, GuardTypeOK
  <2> QED
    BY <1>7, <2>1, <2>3 DEF Decide, GuardTypeOK
<1>8. ASSUME NEW c \in Callers, Report(c) \/ Finish(c) PROVE GuardTypeOK'
  BY <1>8, EndBecomes, OnlyOne DEF Report, Finish, GuardTypeOK, limitVars
<1>9. ASSUME NEW c \in Callers, NEW h \in CallHooks, CallHook(c, h) PROVE GuardTypeOK'
  <2> DEFINE u == caller[c].used + 1
  <2>1. u \in 0 .. MaxHooks
    BY <1>9, GuardAssumption DEF CallHook, GuardTypeOK, Runs
  <2>2. caller' = [caller EXCEPT ![c] = [caller[c] EXCEPT !.pc = "incr", !.hook = h, !.used = u]]
    BY <1>9 DEF CallHook, GuardTypeOK
  <2> HIDE DEF u
  <2>3. [caller[c] EXCEPT !.pc = "incr", !.hook = h, !.used = u] \in Runs
    BY <2>1 DEF GuardTypeOK, Runs, Hooks
  <2> QED
    BY <1>9, <2>2, <2>3 DEF CallHook, GuardTypeOK, limitVars
<1>10. ASSUME NEW h \in Hooks, WindowEnds(h) PROVE GuardTypeOK'
  <2>1. \A c \in Callers : caller[c] \in Runs /\ [caller[c] EXCEPT !.late = TRUE] \in Runs
    BY DEF GuardTypeOK, Runs
  <2>2. caller' \in [Callers -> Runs]
    BY <1>10, <2>1 DEF WindowEnds
  <2> QED
    BY <1>10, <2>2 DEF WindowEnds, GuardTypeOK
<1>11. ASSUME NEW s \in Servers, Server(s) PROVE GuardTypeOK'
  BY <1>11 DEF Server, GuardTypeOK, limitVars
<1> QED
  BY <1>1, <1>2, <1>3, <1>4, <1>5, <1>6, <1>7, <1>8, <1>9, <1>10, <1>11 DEF Next, CallerStep

\* The initial state has the types.
LEMMA GuardTypeInit == Init => GuardTypeOK
<1>1. 0 \in 0 .. MaxHooks
  BY GuardAssumption
<1>2. Idle \in Runs
  BY <1>1 DEF Idle, Runs, Hooks, Texts
<1> QED
  BY <1>2 DEF Init, GuardTypeOK

\* Type correctness of the guard and of the writers it shares.
THEOREM GuardTypeSafe == Spec => []TypeOK
<1>1. GuardTypeOK /\ [Next]_vars => GuardTypeOK'
  BY GuardTypeStep
<1>2. Spec => []GuardTypeOK
  BY <1>1, GuardTypeInit, PTL DEF Spec
<1>3. AuditTypeOK /\ GuardTypeOK => TypeOK
  BY DEF GuardTypeOK, TypeOK
<1> QED
  BY <1>2, <1>3, AuditWriterIsSound, GuardImplementsAuditWriter, PTL

\* Every rule hands on a text its successors may see.
LEMMA TextStep ==
    ASSUME GuardTypeOK, TextInv, [Next]_vars
    PROVE  TextInv'
<1> USE DEF TextInv
<1>0. \A c \in Callers : caller[c] \in Runs
  BY DEF GuardTypeOK
<1>a. ASSUME NEW c \in Callers, NEW r, Becomes(c, r), r.pc \notin {"pii", "incr", "expire", "decide", "ready"}
      PROVE  TextInv'
  BY <1>a, OnlyOne
<1>b. ASSUME NEW c \in Callers, NEW r, Becomes(c, r), r.text \in {"plain", "masked"}
      PROVE  TextInv'
  BY <1>b, OnlyOne
<1>1. CASE UNCHANGED vars
  BY <1>1 DEF vars
<1>2. ASSUME NEW c \in Callers, Arrive(c) PROVE TextInv'
  <2>1. PICK t \in {"plain", "pii", "injection", "both"} :
          caller' = [caller EXCEPT ![c] = [caller[c] EXCEPT !.pc = "injection", !.text = t]]
    BY <1>2 DEF Arrive, GuardTypeOK
  <2>2. [caller[c] EXCEPT !.pc = "injection", !.text = t] \in Runs
    BY DEF GuardTypeOK, Runs, Texts
  <2>3. Becomes(c, [caller[c] EXCEPT !.pc = "injection", !.text = t])
    BY <2>1, <2>2 DEF Becomes
  <2>4. [caller[c] EXCEPT !.pc = "injection", !.text = t].pc = "injection"
    BY <1>0 DEF Runs
  <2> QED
    BY <2>3, <2>4, <1>a
<1>3. ASSUME NEW c \in Callers, CheckInjection(c) PROVE TextInv'
  <2>1. CASE caller[c].text \in {"injection", "both"}
    <3>1. Becomes(c, [caller[c] EXCEPT !.pc = "report"])
      BY <1>3, <2>1, GotoBecomes DEF CheckInjection
    <3>2. [caller[c] EXCEPT !.pc = "report"].pc = "report"
      BY <1>0 DEF Runs
    <3> QED
      BY <3>1, <3>2, <1>a
  <2>2. CASE caller[c].text \notin {"injection", "both"}
    <3>1. Becomes(c, [caller[c] EXCEPT !.pc = "pii"])
      BY <1>3, <2>2, GotoBecomes DEF CheckInjection
    <3>2. /\ [caller[c] EXCEPT !.pc = "pii"].pc = "pii"
          /\ [caller[c] EXCEPT !.pc = "pii"].text \in {"plain", "pii", "masked"}
      BY <1>0, <2>2 DEF Runs, Texts
    <3> QED
      BY <3>1, <3>2, OnlyOne, ZenonT(40)
  <2> QED
    BY <2>1, <2>2
<1>4. ASSUME NEW c \in Callers, CheckPII(c) PROVE TextInv'
  <2>1. CASE caller[c].text = "pii"
    <3>1. [caller[c] EXCEPT !.pc = "incr", !.text = "masked"] \in Runs
      BY DEF GuardTypeOK, Runs, Texts
    <3>2. Becomes(c, [caller[c] EXCEPT !.pc = "incr", !.text = "masked"])
      BY <1>4, <2>1, <3>1 DEF CheckPII, Becomes, GuardTypeOK
    <3>3. [caller[c] EXCEPT !.pc = "incr", !.text = "masked"].text = "masked"
      BY <1>0 DEF Runs
    <3> QED
      BY <3>2, <3>3, <1>b
  <2>2. CASE caller[c].text # "pii"
    <3>1. Becomes(c, [caller[c] EXCEPT !.pc = "incr"])
      BY <1>4, <2>2, GotoBecomes DEF CheckPII
    <3>2. [caller[c] EXCEPT !.pc = "incr"].text \in {"plain", "masked"}
      BY <1>0, <1>4, <2>2 DEF Runs, CheckPII
    <3> QED
      BY <3>1, <3>2, <1>b
  <2> QED
    BY <2>1, <2>2
<1>5. ASSUME NEW c \in Callers, Incr(c) \/ Expire(c) \/ Decide(c) PROVE TextInv'
  <2>0. caller[c].text \in {"plain", "masked"}
    BY <1>5 DEF Incr, Expire, Decide
  <2>1. CASE Pass(c)
    <3>1. [caller[c] EXCEPT !.pc = "ready", !.hook = "input", !.n = 0, !.late = FALSE].text = caller[c].text
      BY <1>0 DEF Runs
    <3> QED
      BY <2>0, <2>1, <3>1, PassBecomes, <1>b
  <2>2. CASE Goto(c, "decide") \/ Goto(c, "report")
    <3>1. \A l : [caller[c] EXCEPT !.pc = l].text = caller[c].text
      BY <1>0 DEF Runs
    <3> QED
      BY <2>0, <2>2, <3>1, GotoBecomes, <1>b
  <2>3. CASE End(c)
    <3>1. [Idle EXCEPT !.pc = "ended"].text = "plain"
      BY DEF Idle
    <3> QED
      BY <2>3, <3>1, EndBecomes, <1>b
  <2>4. ASSUME NEW p \in {"expire", "decide"}, NEW n \in Nat,
               caller' = [caller EXCEPT ![c].pc = p, ![c].n = n, ![c].late = FALSE]
        PROVE  TextInv'
    <3>1. [caller[c] EXCEPT !.pc = p, !.n = n, !.late = FALSE] \in Runs
      BY DEF GuardTypeOK, Runs
    <3>2. Becomes(c, [caller[c] EXCEPT !.pc = p, !.n = n, !.late = FALSE])
      BY <2>4, <3>1 DEF Becomes, GuardTypeOK
    <3>3. [caller[c] EXCEPT !.pc = p, !.n = n, !.late = FALSE].text = caller[c].text
      BY <1>0 DEF Runs
    <3> QED
      BY <2>0, <3>2, <3>3, <1>b
  <2>5. hits[caller[c].hook] + 1 \in Nat
    BY DEF GuardTypeOK, Runs
  <2> QED
    BY <1>5, <2>1, <2>2, <2>3, <2>4, <2>5 DEF Incr, Expire, Decide
<1>6. ASSUME NEW c \in Callers, Report(c) \/ Finish(c) PROVE TextInv'
  <2>1. [Idle EXCEPT !.pc = "ended"].text = "plain"
    BY DEF Idle
  <2> QED
    BY <1>6, <2>1, EndBecomes, <1>b DEF Report, Finish
<1>7. ASSUME NEW c \in Callers, NEW h \in CallHooks, CallHook(c, h) PROVE TextInv'
  <2>1. /\ caller'[c].text = caller[c].text
        /\ \A d \in Callers \ {c} : caller'[d] = caller[d]
    BY <1>0, <1>7 DEF CallHook, GuardTypeOK, Runs
  <2> QED
    BY <1>7, <2>1 DEF CallHook
<1>8. ASSUME NEW h \in Hooks, WindowEnds(h) PROVE TextInv'
  <2>1. \A d \in Callers : caller'[d].text = caller[d].text /\ caller'[d].pc = caller[d].pc
    BY <1>0, <1>8 DEF WindowEnds, Runs
  <2> QED
    BY <2>1
<1>9. ASSUME NEW s \in Servers, Server(s) PROVE TextInv'
  BY <1>9 DEF Server
<1> HIDE DEF TextInv
<1> QED
  BY <1>1, <1>2, <1>3, <1>4, <1>5, <1>6, <1>7, <1>8, <1>9 DEF Next, CallerStep

\* No text with personal data or an injection in it reaches the model,
\* whatever the other rules and the rate limiter do (guard.go Run).
THEOREM GuardStopsRawText == Spec => []RawTextIsStopped
<1>1. Init => GuardTypeOK /\ TextInv
  BY GuardTypeInit DEF Init, TextInv, Idle
<1>2. GuardTypeOK /\ TextInv /\ [Next]_vars => (GuardTypeOK /\ TextInv)'
  BY GuardTypeStep, TextStep
<1>3. TextInv => RawTextIsStopped
  BY DEF TextInv, RawTextIsStopped
<1> QED
  BY <1>1, <1>2, <1>3, PTL DEF Spec

-----------------------------------------------------------------------------
(* The rate limit *)

\* Runs that hold a number of the current window and will be let through by it.
Claims(h) ==
    {c \in Callers : /\ caller[c].hook = h /\ caller[c].pc \in {"expire", "decide"}
                     /\ ~caller[c].late /\ caller[c].n <= Limit}

\* Calls let through and calls that will be share the numbers 1 .. Limit ...
Shared(h) ==
    /\ admitted[h] + Cardinality(Claims(h)) <= hits[h]
    /\ admitted[h] + Cardinality(Claims(h)) <= Limit

\* ... and only the run that started a window is about to bound it, so that no
\* window ends under it.
WindowInv ==
    /\ \A h \in Hooks : expires[h] => hits[h] >= 1
    /\ \A c \in Callers : caller[c].pc = "expire" =>
          /\ hits[caller[c].hook] >= 1 /\ ~expires[caller[c].hook]
          /\ caller[c].n = 1 /\ ~caller[c].late
    /\ \A c, d \in Callers : caller[c].pc = "expire" /\ caller[d].pc = "expire"
                               /\ caller[c].hook = caller[d].hook => c = d

LimitInv == (\A h \in Hooks : Shared(h)) /\ WindowInv

\* Claims are finitely many.
LEMMA ClaimsFinite ==
    ASSUME NEW h
    PROVE  /\ IsFiniteSet(Claims(h)) /\ IsFiniteSet(Claims(h)')
           /\ Cardinality(Claims(h)) \in Nat /\ Cardinality(Claims(h)') \in Nat
<1>1. Claims(h) \in SUBSET Callers /\ Claims(h)' \in SUBSET Callers
  BY DEF Claims
<1> QED
  BY <1>1, GuardAssumption, FS_Subset, FS_CardinalityType

\* A step that adds no claim and lowers no count keeps the share.
LEMMA FewerClaims ==
    ASSUME GuardTypeOK, NEW h \in Hooks, Shared(h), Claims(h)' \subseteq Claims(h),
           admitted'[h] = admitted[h], hits'[h] \in Nat, hits'[h] >= hits[h]
    PROVE  Shared(h)'
<1>1. Cardinality(Claims(h)') <= Cardinality(Claims(h))
  BY ClaimsFinite, FS_Subset
<1>2. admitted[h] \in Nat /\ hits[h] \in Nat /\ Limit \in Nat
  BY GuardAssumption DEF GuardTypeOK
<1> QED
  BY <1>1, <1>2, ClaimsFinite DEF Shared

\* The share of every hook after a step of one run.
LEMMA ShareOne ==
    ASSUME GuardTypeOK, \A h \in Hooks : Shared(h), NEW c \in Callers, NEW r, Becomes(c, r),
           r.pc \notin {"expire", "decide"}, hits' \in [Hooks -> Nat],
           \A h \in Hooks : hits'[h] >= hits[h], admitted' = admitted
    PROVE  \A h \in Hooks : Shared(h)'
<1>1. \A h \in Hooks : Claims(h)' \subseteq Claims(h)
  BY OnlyOne DEF Claims
<1> QED
  BY <1>1, FewerClaims

\* The window's part after a step that moves one run, starts no window and
\* bounds none.
LEMMA WindowOne ==
    ASSUME GuardTypeOK, WindowInv, NEW c \in Callers, NEW r, Becomes(c, r), r.pc # "expire",
           hits' \in [Hooks -> Nat], \A h \in Hooks : hits'[h] >= hits[h], expires' = expires
    PROVE  WindowInv'
<1>1. \A d \in Callers : caller[d].hook \in Hooks
  BY DEF GuardTypeOK, Runs
<1>2. \A h \in Hooks : hits[h] \in Nat
  BY DEF GuardTypeOK
<1>3. \A h \in Hooks : hits[h] >= 1 => hits'[h] >= 1
  BY <1>2
<1> QED
  BY <1>1, <1>3, OnlyOne DEF WindowInv

\* Every step keeps the limit's invariant.
LEMMA LimitStep ==
    ASSUME GuardTypeOK, LimitInv, [Next]_vars
    PROVE  LimitInv'
<1>0. /\ \A c \in Callers : caller[c] \in Runs
      /\ \A h \in Hooks : hits[h] \in Nat /\ admitted[h] \in Nat /\ hits[h] >= hits[h]
      /\ Limit \in Nat /\ Limit >= 1
  BY GuardAssumption DEF GuardTypeOK
<1>t. GuardTypeOK'
  BY GuardTypeStep
<1>a. ASSUME NEW c \in Callers, NEW r, Becomes(c, r), r.pc \notin {"expire", "decide"},
             hits' = hits, expires' = expires, admitted' = admitted
      PROVE  LimitInv'
  BY <1>0, <1>t, <1>a, ShareOne, WindowOne DEF LimitInv, GuardTypeOK
<1>1. CASE UNCHANGED <<caller, limitVars>>
  <2>1. \A h : Claims(h)' = Claims(h)
    BY <1>1 DEF Claims
  <2> QED
    BY <1>1, <2>1 DEF LimitInv, Shared, WindowInv, limitVars
<1>2. ASSUME NEW c \in Callers, Arrive(c) \/ CheckPII(c) \/ Report(c) \/ Finish(c) \/ CheckInjection(c)
             \/ (\E h \in CallHooks : CallHook(c, h))
      PROVE  LimitInv'
  <2>1. /\ caller'[c].pc \notin {"expire", "decide"} /\ caller' = [caller EXCEPT ![c] = caller'[c]]
    <3>1. CASE Arrive(c) \/ CheckPII(c) \/ Report(c) \/ Finish(c) \/ CheckInjection(c)
      BY <1>0, <3>1 DEF Arrive, CheckPII, Report, Finish, CheckInjection, Goto, End, Idle,
         GuardTypeOK, Runs
    <3>2. ASSUME NEW h \in CallHooks, CallHook(c, h)
          PROVE  caller'[c].pc = "incr" /\ caller' = [caller EXCEPT ![c] = caller'[c]]
      BY <1>0, <3>2 DEF CallHook, GuardTypeOK, Runs
    <3> QED BY <1>2, <3>1, <3>2
  <2>2. Becomes(c, caller'[c])
    BY <2>1, <1>t DEF Becomes, GuardTypeOK
  <2>3. hits' = hits /\ expires' = expires /\ admitted' = admitted
    BY <1>2 DEF Arrive, CheckPII, Report, Finish, CheckInjection, CallHook, limitVars
  <2> QED
    BY <2>1, <2>2, <2>3, <1>a
<1>8. ASSUME NEW h \in Hooks, WindowEnds(h) PROVE LimitInv'
  <2>1. \A d \in Callers : /\ caller'[d].pc = caller[d].pc /\ caller'[d].hook = caller[d].hook
                            /\ caller'[d].n = caller[d].n
                            /\ caller'[d].late = (caller[d].late \/ (caller[d].hook = h /\ caller[d].pc = "decide"))
    BY <1>0, <1>8 DEF WindowEnds, Runs
  <2>2. \A d \in Callers : caller[d].pc = "expire" => caller[d].hook # h
    BY <1>8 DEF WindowEnds, LimitInv, WindowInv
  <2>3. WindowInv'
    BY <1>8, <2>1, <2>2 DEF WindowEnds, LimitInv, WindowInv, GuardTypeOK
  <2>4. Claims(h)' = {}
    BY <2>1, <2>2 DEF Claims
  <2>5. Shared(h)'
    BY <1>0, <1>8, <2>4, FS_EmptySet DEF Shared, WindowEnds, GuardTypeOK
  <2>6. ASSUME NEW g \in Hooks, g # h PROVE Shared(g)'
    <3>1. Claims(g)' = Claims(g)
      BY <2>1, <2>6 DEF Claims
    <3> QED
      BY <1>8, <2>6, <3>1 DEF Shared, WindowEnds, GuardTypeOK, LimitInv
  <2> QED
    BY <2>3, <2>5, <2>6 DEF LimitInv
<1>3. ASSUME NEW c \in Callers, Incr(c) PROVE LimitInv'
  <2>z. PICK h \in Hooks : h = caller[c].hook
    BY <1>0 DEF Runs
  <2> DEFINE n == hits[h] + 1
  <2>0. h = caller[c].hook /\ n \in Nat /\ caller[c].pc = "incr"
    BY <1>0, <1>3, <2>z DEF Incr
  <2>1. CASE Pass(c)
    <3>1. [caller[c] EXCEPT !.pc = "ready", !.hook = "input", !.n = 0, !.late = FALSE].pc = "ready"
      BY <1>0 DEF Runs
    <3>2. \A g \in Hooks : hits'[g] >= hits[g]
      BY <1>0, <1>3, <2>0 DEF Incr, GuardTypeOK
    <3>3. hits' \in [Hooks -> Nat] /\ admitted' = admitted /\ expires' = expires
      BY <1>3, <1>t DEF Incr, GuardTypeOK
    <3> QED
      BY <2>1, <3>1, <3>2, <3>3, PassBecomes, ShareOne, WindowOne DEF LimitInv
  <2>2. CASE /\ hits' = [hits EXCEPT ![h] = n]
             /\ caller' = [caller EXCEPT ![c].pc = IF StartsWindow(n) THEN "expire" ELSE "decide",
                                         ![c].n = n, ![c].late = FALSE]
    <3>1. /\ caller'[c].hook = h /\ caller'[c].n = n /\ caller'[c].late = FALSE
          /\ caller'[c].pc = IF n = 1 THEN "expire" ELSE "decide"
          /\ \A d \in Callers \ {c} : caller'[d] = caller[d]
      BY <2>0, <1>0, <2>2 DEF Runs, StartsWindow, GuardTypeOK
    <3>2. /\ hits'[h] = n /\ \A g \in Hooks \ {h} : hits'[g] = hits[g]
          /\ admitted' = admitted /\ expires' = expires
      BY <1>3, <2>0, <2>2 DEF GuardTypeOK, Incr
    <3>3. n = 1 => ~expires[h] /\ \A d \in Callers : ~(caller[d].pc = "expire" /\ caller[d].hook = h)
      BY <1>0, <2>0 DEF LimitInv, WindowInv
    <3>4. \A d \in Callers : caller[d].hook \in Hooks
      BY <1>0 DEF Runs
    <3>w. WindowInv'
      <4>1. n >= 1
        BY <1>0, <2>0
      <4>2. \A g \in Hooks : expires'[g] => hits'[g] >= 1
        BY <3>2, <4>1 DEF LimitInv, WindowInv
      <4>3. ASSUME NEW d \in Callers, caller'[d].pc = "expire"
            PROVE  /\ hits'[caller'[d].hook] >= 1 /\ ~expires'[caller'[d].hook]
                   /\ caller'[d].n = 1 /\ ~caller'[d].late
        <5>1. CASE d = c
          BY <3>1, <3>2, <3>3, <4>1, <4>3, <5>1
        <5>2. CASE d # c
          BY <3>1, <3>2, <3>4, <4>1, <4>3, <5>2 DEF LimitInv, WindowInv
        <5> QED
          BY <5>1, <5>2
      <4>4. ASSUME NEW d \in Callers, NEW e \in Callers, caller'[d].pc = "expire",
                   caller'[e].pc = "expire", caller'[d].hook = caller'[e].hook
            PROVE  d = e
        BY <3>1, <3>3, <4>4 DEF LimitInv, WindowInv
      <4> QED
        BY <4>2, <4>3, <4>4 DEF WindowInv
    <3>g. ASSUME NEW g \in Hooks, g # h PROVE Shared(g)'
      <4>1. Claims(g)' \subseteq Claims(g)
        BY <3>1, <3>g DEF Claims
      <4> QED
        BY <1>0, <3>2, <3>g, <4>1, FewerClaims DEF LimitInv
    <3>h. Shared(h)'
      <4>1. CASE n <= Limit
        <5>1. Claims(h)' = Claims(h) \cup {c} /\ c \notin Claims(h)
          BY <2>0, <3>1, <4>1 DEF Claims
        <5>2. Cardinality(Claims(h)') = Cardinality(Claims(h)) + 1
          BY <5>1, ClaimsFinite, FS_AddElement
        <5>3. admitted[h] + Cardinality(Claims(h)) <= hits[h]
          BY <2>0 DEF LimitInv, Shared
        <5>4. admitted[h] + (Cardinality(Claims(h)) + 1) <= n
          BY <1>0, <2>0, <5>3, ClaimsFinite
        <5> HIDE DEF n
        <5>5. admitted[h] + (Cardinality(Claims(h)) + 1) <= Limit
          BY <1>0, <2>0, <4>1, <5>4, ClaimsFinite
        <5> QED
          BY <3>2, <5>2, <5>4, <5>5 DEF Shared
      <4>2. CASE ~(n <= Limit)
        <5>1. Claims(h)' \subseteq Claims(h)
          BY <3>1, <4>2 DEF Claims
        <5>2. hits'[h] \in Nat /\ hits'[h] >= hits[h]
          BY <1>0, <2>0, <3>2
        <5> QED
          BY <2>0, <3>2, <5>1, <5>2, FewerClaims DEF LimitInv
      <4> QED
        BY <4>1, <4>2
    <3> QED
      BY <3>w, <3>g, <3>h DEF LimitInv
  <2> QED
    BY <2>0, <1>3, <2>1, <2>2 DEF Incr
<1>4. ASSUME NEW c \in Callers, Expire(c) PROVE LimitInv'
  <2>z. PICK h \in Hooks : h = caller[c].hook
    BY <1>0 DEF Runs
  <2>0. h = caller[c].hook /\ caller[c].pc = "expire"
    BY <1>4, <2>z DEF Expire
  <2>1. CASE Pass(c) /\ UNCHANGED expires
    <3>1. [caller[c] EXCEPT !.pc = "ready", !.hook = "input", !.n = 0, !.late = FALSE].pc = "ready"
      BY <1>0 DEF Runs
    <3>2. hits' = hits /\ admitted' = admitted
      BY <1>4 DEF Expire
    <3> QED
      BY <2>1, <3>1, <3>2, <1>a, PassBecomes
  <2>2. CASE expires' = [expires EXCEPT ![h] = TRUE] /\ Goto(c, "decide")
    <3>1. /\ caller'[c].hook = h /\ caller'[c].n = caller[c].n /\ caller'[c].late = caller[c].late
          /\ caller'[c].pc = "decide"
          /\ \A d \in Callers \ {c} : caller'[d] = caller[d]
      BY <2>0, <1>0, <2>2 DEF Runs, Goto, GuardTypeOK
    <3>2. /\ hits' = hits /\ admitted' = admitted
          /\ expires'[h] = TRUE /\ \A g \in Hooks \ {h} : expires'[g] = expires[g]
      BY <1>4, <2>0, <2>2 DEF Expire, GuardTypeOK
    <3>3. \A g : Claims(g)' = Claims(g)
      BY <2>0, <3>1 DEF Claims
    <3>4. \A d \in Callers : caller[d].hook \in Hooks
      BY <1>0 DEF Runs
    <3>5. \A d \in Callers \ {c} : caller[d].pc = "expire" => caller[d].hook # h
      BY <2>0 DEF LimitInv, WindowInv
    <3>6. WindowInv'
      BY <2>0, <3>1, <3>2, <3>4, <3>5 DEF LimitInv, WindowInv
    <3> QED
      BY <3>2, <3>3, <3>6 DEF LimitInv, Shared
  <2>3. CASE Pass(c) /\ expires' = [expires EXCEPT ![h] = TRUE]
    <3> DEFINE r == [caller[c] EXCEPT !.pc = "ready", !.hook = "input", !.n = 0, !.late = FALSE]
    <3>1. Becomes(c, r) /\ r.pc = "ready"
      BY <1>0, <2>3, PassBecomes DEF Runs
    <3> HIDE DEF r
    <3>2. /\ hits' = hits /\ admitted' = admitted
          /\ expires'[h] = TRUE /\ \A g \in Hooks \ {h} : expires'[g] = expires[g]
      BY <1>4, <2>0, <2>3 DEF Expire, GuardTypeOK
    <3>3. \A g \in Hooks : Shared(g)'
      BY <1>0, <1>t, <3>1, <3>2, ShareOne DEF LimitInv, GuardTypeOK
    <3>4. caller'[c].pc = "ready" /\ \A d \in Callers \ {c} : caller'[d] = caller[d]
      BY <3>1, OnlyOne
    <3>5. \A d \in Callers \ {c} : caller[d].pc = "expire" => caller[d].hook # h
      BY <2>0 DEF LimitInv, WindowInv
    <3>6. (\A d \in Callers : caller[d].hook \in Hooks) /\ hits[h] >= 1
      BY <1>0, <2>0 DEF Runs, LimitInv, WindowInv
    <3>7. WindowInv'
      BY <3>2, <3>4, <3>5, <3>6 DEF LimitInv, WindowInv
    <3> QED
      BY <3>3, <3>7 DEF LimitInv
  <2> QED
    BY <2>0, <1>4, <2>1, <2>2, <2>3 DEF Expire
<1>5. ASSUME NEW c \in Callers, Decide(c) PROVE LimitInv'
  <2>z. PICK h \in Hooks : h = caller[c].hook
    BY <1>0 DEF Runs
  <2>0. h = caller[c].hook /\ caller[c].pc = "decide" /\ hits' = hits /\ expires' = expires
    BY <1>5, <2>z DEF Decide
  <2>1. CASE ~Allowed(caller[c].n)
    <3>1. admitted' = admitted /\ (Goto(c, "report") \/ End(c))
      BY <1>5, <2>1 DEF Decide
    <3>2. [caller[c] EXCEPT !.pc = "report"].pc = "report" /\ [Idle EXCEPT !.pc = "ended"].pc = "ended"
      BY <1>0 DEF Runs, Idle
    <3> QED
      BY <2>0, <3>1, <3>2, <1>a, GotoBecomes, EndBecomes
  <2>2. CASE Allowed(caller[c].n)
    <3> DEFINE r == [caller[c] EXCEPT !.pc = "ready", !.hook = "input", !.n = 0, !.late = FALSE]
    <3>1. Pass(c) /\ admitted' = [admitted EXCEPT ![h] = IF caller[c].late THEN @ ELSE @ + 1]
      BY <2>0, <1>5, <2>2 DEF Decide
    <3>2. Becomes(c, r) /\ r.pc = "ready"
      BY <1>0, <3>1, PassBecomes DEF Runs
    <3>3. CASE caller[c].late
      <4>1. admitted' = admitted
        BY <3>1, <3>3 DEF GuardTypeOK
      <4> QED
        BY <2>0, <3>2, <4>1, <1>a
    <3>4. CASE ~caller[c].late
      <4> HIDE DEF r
      <4>1. /\ admitted'[h] = admitted[h] + 1 /\ \A g \in Hooks \ {h} : admitted'[g] = admitted[g]
        BY <2>0, <3>1, <3>4 DEF GuardTypeOK
      <4>2. WindowInv'
        BY <1>0, <2>0, <3>2, WindowOne DEF LimitInv, GuardTypeOK
      <4>3. caller'[c] = r /\ \A d \in Callers \ {c} : caller'[d] = caller[d]
        BY <3>2, OnlyOne
      <4>g. ASSUME NEW g \in Hooks, g # h PROVE Shared(g)'
        <5>1. Claims(g)' \subseteq Claims(g)
          BY <3>2, <4>3 DEF Claims
        <5> QED
          BY <1>0, <2>0, <4>1, <4>g, <5>1, FewerClaims DEF LimitInv
      <4>h. Shared(h)'
        <5>1. c \in Claims(h)
          BY <2>0, <2>2, <3>4 DEF Claims, Allowed
        <5>2. Claims(h)' = Claims(h) \ {c}
          BY <3>2, <4>3 DEF Claims
        <5>3. Cardinality(Claims(h)') = Cardinality(Claims(h)) - 1
          BY <5>1, <5>2, ClaimsFinite, FS_RemoveElement
        <5>4. admitted'[h] + Cardinality(Claims(h)') = admitted[h] + Cardinality(Claims(h))
          BY <1>0, <2>0, <4>1, <5>3, ClaimsFinite
        <5> QED
          BY <2>0, <5>4 DEF LimitInv, Shared
      <4> QED
        BY <4>2, <4>g, <4>h DEF LimitInv
    <3> QED
      BY <3>3, <3>4
  <2> QED
    BY <2>1, <2>2
<1>9. ASSUME NEW s \in Servers, Server(s) PROVE LimitInv'
  BY <1>1, <1>9 DEF Server
<1>10. CASE UNCHANGED vars
  BY <1>1, <1>10 DEF vars
<1> QED
  BY <1>2, <1>3, <1>4, <1>5, <1>8, <1>9, <1>10 DEF Next, CallerStep

\* However the commands of any number of runs interleave and whichever of them
\* fail, a window lets at most Limit calls through on its counter
\* (RedisBucket.Allow and RateLimitRule.Check).
THEOREM GuardKeepsLimit == Spec => []WithinLimit
<1>1. Init => GuardTypeOK /\ LimitInv
  <2> SUFFICES ASSUME Init PROVE LimitInv
    BY GuardTypeInit
  <2>1. \A h : Claims(h) = {}
    BY DEF Init, Claims, Idle
  <2>2. WindowInv
    BY DEF Init, WindowInv, Idle
  <2> QED
    BY <2>1, <2>2, FS_EmptySet, GuardAssumption DEF Init, LimitInv, Shared
<1>2. GuardTypeOK /\ LimitInv /\ [Next]_vars => (GuardTypeOK /\ LimitInv)'
  BY GuardTypeStep, LimitStep
<1>3. GuardTypeOK /\ LimitInv => WithinLimit
  <2> SUFFICES ASSUME GuardTypeOK, LimitInv, NEW h \in Hooks PROVE admitted[h] <= Limit
    BY DEF WithinLimit
  <2>1. admitted[h] \in Nat /\ Limit \in Nat /\ admitted[h] + Cardinality(Claims(h)) <= Limit
    BY GuardAssumption DEF GuardTypeOK, LimitInv, Shared
  <2> QED
    BY <2>1, ClaimsFinite
<1> QED
  BY <1>1, <1>2, <1>3, PTL DEF Spec
=============================================================================
