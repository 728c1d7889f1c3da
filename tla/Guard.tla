------------------------------- MODULE Guard -------------------------------
(***************************************************************************)
(* The guard of runtime/guard as the engine calls it: the rules on a user's*)
(* message in their order, the fixed-window rate limit that all processes  *)
(* share in Redis, and the audit entries both leave in the writer of their *)
(* server.                                                                 *)
(*                                                                         *)
(* The counters are those of one user; the keys of two users have nothing  *)
(* in common.  INCR and EXPIRE are two commands and either may fail.       *)
(***************************************************************************)
EXTENDS AuditWriter, FiniteSets

CONSTANTS
    Callers,        \* agent runs of the user
    Home,           \* Home[c]: the server that runs c
    Limit,          \* rateLimitPerMin
    CallHooks,      \* the hooks inside a run: "llm" before a model call, "tool" before a tool
    MaxHooks        \* bound: model and tool calls of a run

ASSUME GuardAssumption ==
    /\ IsFiniteSet(Callers) /\ Home \in [Callers -> Servers]
    /\ CallHooks \subseteq {"llm", "tool"}
    /\ Limit \in Nat \ {0} /\ MaxHooks \in Nat

VARIABLES
    caller,         \* caller[c]: the run, between two commands to Redis
    hits,           \* hits[h]: the counter "rl:<h>:<user>"
    expires,        \* expires[h]: the counter has a time to live
    admitted,       \* history: calls let through by the counter in this window
    orphan          \* history: an EXPIRE that was due did not happen

limitVars == <<hits, expires, admitted, orphan>>
vars == <<writer, caller, limitVars>>

Hooks == {"input"} \cup CallHooks
Texts == {"plain", "pii", "injection", "both", "masked"}

Idle == [pc |-> "idle", text |-> "plain", hook |-> "input", n |-> 0, late |-> FALSE, used |-> 0]

Init ==
    /\ AuditInit
    /\ caller = [c \in Callers |-> Idle]
    /\ hits = [h \in Hooks |-> 0]
    /\ expires = [h \in Hooks |-> FALSE]
    /\ admitted = [h \in Hooks |-> 0]
    /\ orphan = [h \in Hooks |-> FALSE]

Runs == [pc : {"idle", "injection", "pii", "incr", "expire", "decide", "report", "ready", "ended"},
         text : Texts, hook : Hooks, n : Nat, late : BOOLEAN, used : 0 .. MaxHooks]

TypeOK ==
    /\ AuditTypeOK
    /\ caller \in [Callers -> Runs]
    /\ hits \in [Hooks -> Nat] /\ expires \in [Hooks -> BOOLEAN]
    /\ admitted \in [Hooks -> Nat] /\ orphan \in [Hooks -> BOOLEAN]

Goto(c, label) == caller' = [caller EXCEPT ![c].pc = label]
Pass(c) == caller' = [caller EXCEPT ![c].pc = "ready", ![c].hook = "input",
                                    ![c].n = 0, ![c].late = FALSE]
End(c) == caller' = [caller EXCEPT ![c] = [Idle EXCEPT !.pc = "ended"]]
Audit(c) == Write(Home[c])

-----------------------------------------------------------------------------
(* Guard.OnInput: injection, then PII, then the rate limit *)

Arrive(c) ==
    /\ caller[c].pc = "idle"
    /\ \E t \in {"plain", "pii", "injection", "both"} :
          caller' = [caller EXCEPT ![c].pc = "injection", ![c].text = t]
    /\ UNCHANGED <<writer, limitVars>>

\* A block is recorded by Run and ends the chain.
CheckInjection(c) ==
    /\ caller[c].pc = "injection"
    /\ IF caller[c].text \in {"injection", "both"}
       THEN Audit(c) /\ Goto(c, "report")
       ELSE Goto(c, "pii") /\ UNCHANGED writer
    /\ UNCHANGED limitVars

\* Mutant: Run does not hand the patched text on.
CheckPIIUnpatched(c) ==
    /\ caller[c].pc = "pii"
    /\ IF caller[c].text = "pii" THEN Audit(c) ELSE UNCHANGED writer
    /\ Goto(c, "incr")
    /\ UNCHANGED limitVars

\* A patch is recorded by Run and replaces the text.
CheckPII(c) ==
    /\ caller[c].pc = "pii"
    /\ IF caller[c].text = "pii"
       THEN /\ Audit(c)
            /\ caller' = [caller EXCEPT ![c].pc = "incr", ![c].text = "masked"]
       ELSE Goto(c, "incr") /\ UNCHANGED writer
    /\ UNCHANGED limitVars

-----------------------------------------------------------------------------
(* RateLimitRule.Check over RedisBucket.Allow *)

\* Mutant: the count before the call is compared.
StartsWindowBefore(n) == n = 0

StartsWindow(n) == n = 1

\* INCR.  If it fails, or its answer is lost, the call is let through.
Incr(c) ==
    LET h == caller[c].hook
        n == hits[h] + 1
    IN
    /\ caller[c].pc = "incr"
    /\ \/ /\ hits' = [hits EXCEPT ![h] = n]
          /\ caller' = [caller EXCEPT ![c].pc = IF StartsWindow(n) THEN "expire" ELSE "decide",
                                      ![c].n = n, ![c].late = FALSE]
          /\ UNCHANGED orphan
       \/ Pass(c) /\ UNCHANGED <<hits, orphan>>
       \/ /\ hits' = [hits EXCEPT ![h] = n]
          /\ orphan' = [orphan EXCEPT ![h] = @ \/ StartsWindow(n)]
          /\ Pass(c)
    /\ UNCHANGED <<writer, expires, admitted>>

\* EXPIRE.  If it fails the counter stays; if only its answer is lost it does not.
\* Both let the call through.
Expire(c) ==
    LET h == caller[c].hook IN
    /\ caller[c].pc = "expire"
    /\ \/ /\ expires' = [expires EXCEPT ![h] = TRUE]
          /\ Goto(c, "decide") \/ Pass(c)
          /\ UNCHANGED orphan
       \/ /\ orphan' = [orphan EXCEPT ![h] = TRUE]
          /\ Pass(c) /\ UNCHANGED expires
    /\ UNCHANGED <<writer, hits, admitted>>

\* Mutant: the limit itself is not counted.
AllowedOneMore(n) == n <= Limit + 1

Allowed(n) == n <= Limit

\* Run records a block; on the input hook the engine records it once more.
Decide(c) ==
    LET h == caller[c].hook IN
    /\ caller[c].pc = "decide"
    /\ IF Allowed(caller[c].n)
       THEN /\ admitted' = [admitted EXCEPT ![h] = IF caller[c].late THEN @ ELSE @ + 1]
            /\ Pass(c) /\ UNCHANGED writer
       ELSE /\ Audit(c)
            /\ IF h = "input" THEN Goto(c, "report") ELSE End(c)
            /\ UNCHANGED admitted
    /\ UNCHANGED <<hits, expires, orphan>>

\* The time to live of a counter ends.
WindowEnds(h) ==
    /\ expires[h]
    /\ hits' = [hits EXCEPT ![h] = 0]
    /\ expires' = [expires EXCEPT ![h] = FALSE]
    /\ admitted' = [admitted EXCEPT ![h] = 0]
    /\ orphan' = [orphan EXCEPT ![h] = FALSE]
    /\ caller' = [c \in Callers |->
          IF caller[c].hook = h /\ caller[c].pc = "decide"
          THEN [caller[c] EXCEPT !.late = TRUE] ELSE caller[c]]
    /\ UNCHANGED writer

-----------------------------------------------------------------------------
(* The engine around it *)

\* ChatStream: recordAudit "guard_blocked".
Report(c) ==
    /\ caller[c].pc = "report"
    /\ Audit(c) /\ End(c)
    /\ UNCHANGED limitVars

\* guardLLMCall before a model call, OnToolCall before a tool.
CallHook(c, h) ==
    /\ caller[c].pc = "ready" /\ caller[c].used < MaxHooks
    /\ caller' = [caller EXCEPT ![c].pc = "incr", ![c].hook = h, ![c].used = @ + 1]
    /\ UNCHANGED <<writer, limitVars>>

\* recordAudit "chat_turn"; a run that fails for another reason leaves none.
Finish(c) ==
    /\ caller[c].pc = "ready"
    /\ Audit(c) \/ UNCHANGED writer
    /\ End(c)
    /\ UNCHANGED limitVars

CallerStep(c) ==
    \/ CheckInjection(c) \/ CheckPII(c) \/ Incr(c) \/ Expire(c) \/ Decide(c)
    \/ Report(c) \/ Finish(c)

Server(s) == (Close(s) \/ Loop(s)) /\ UNCHANGED <<caller, limitVars>>

Next ==
    \/ \E c \in Callers : Arrive(c) \/ CallerStep(c)
    \/ \E c \in Callers, h \in CallHooks : CallHook(c, h)
    \/ \E h \in Hooks : WindowEnds(h)
    \/ \E s \in Servers : Server(s)

Spec == Init /\ [][Next]_vars

\* The writer's loop runs until it returns, and Redis drops what expires.
Fairness ==
    /\ \A c \in Callers : WF_vars(CallerStep(c))
    /\ \A h \in Hooks : WF_vars(WindowEnds(h))
    /\ \A s \in Servers : WF_vars(Loop(s) /\ UNCHANGED <<caller, limitVars>>)

FairSpec == Spec /\ Fairness

-----------------------------------------------------------------------------
(* Properties *)

\* However the calls of several runs interleave, a window lets at most Limit
\* of them through on the strength of the counter (ratelimit.go:22).
WithinLimit == \A h \in Hooks : admitted[h] <= Limit

\* Text with personal data or an injection never gets as far as the model,
\* whichever rules run before and after (guard.go Run).
RawTextIsStopped ==
    \A c \in Callers : caller[c].pc = "ready" => caller[c].text \in {"plain", "masked"}

\* A user over the limit is served again: the counter is dropped, unless the
\* EXPIRE that should have bounded it did not happen (ratelimit.go:27).
LimitLapses == \A h \in Hooks : hits[h] > Limit ~> (hits[h] = 0 \/ orphan[h])

\* Close returns: the loop empties the channel and stops (audit.go:92).
CloseReturns ==
    \A s \in Servers : writer[s].phase # "open" ~> writer[s].phase = "done"
=============================================================================
