--------------------------- MODULE GovernedCalls ---------------------------
(***************************************************************************)
(* What the approval flow promises about a sensitive tool call, with no    *)
(* leases, workers, queues or checkpoints: a person decides once, an       *)
(* approved call takes effect at most once, a rejected one never, and a    *)
(* call is reported completed only after its effect.                       *)
(***************************************************************************)
EXTENDS Naturals

CONSTANT Calls

VARIABLES
    decision,   \* decision[a]: "none", "pending", "approved" or "rejected"
    effect,     \* effect[a]: how often the call took effect
    completed   \* completed[a]: is the call reported as completed?

govVars == <<decision, effect, completed>>

GovInit ==
    /\ decision = [a \in Calls |-> "none"]
    /\ effect = [a \in Calls |-> 0]
    /\ completed = [a \in Calls |-> FALSE]

Request(a) ==
    /\ decision[a] = "none"
    /\ decision' = [decision EXCEPT ![a] = "pending"]
    /\ UNCHANGED <<effect, completed>>

Decide(a, d) ==
    /\ decision[a] = "pending"
    /\ decision' = [decision EXCEPT ![a] = d]
    /\ UNCHANGED <<effect, completed>>

TakeEffect(a) ==
    /\ decision[a] = "approved"
    /\ effect[a] = 0
    /\ effect' = [effect EXCEPT ![a] = 1]
    /\ UNCHANGED <<decision, completed>>

Report(a) ==
    /\ effect[a] = 1
    /\ ~completed[a]
    /\ completed' = [completed EXCEPT ![a] = TRUE]
    /\ UNCHANGED <<decision, effect>>

GovNext ==
    \E a \in Calls :
        \/ Request(a)
        \/ \E d \in {"approved", "rejected"} : Decide(a, d)
        \/ TakeEffect(a)
        \/ Report(a)

GovSpec == GovInit /\ [][GovNext]_govVars
=============================================================================
