------------------------- MODULE ConversationTurns -------------------------
(***************************************************************************)
(* The turn lease of one conversation: the row of table conversations that *)
(* serialises Chat and Resume turns (migration 000025), with the messages  *)
(* the turns append.  Rows of different conversations share nothing, so    *)
(* the module models one of them.                                          *)
(*                                                                         *)
(* Every definition below is one SQL statement or transaction, hence one   *)
(* atomic step.  turn_token is a fresh UUID per claim; turn_revision is    *)
(* incremented by the same UPDATE, so the revision stands for the token.   *)
(* turn_lease_until is abstracted to turnExpired: is it before now()?      *)
(***************************************************************************)
EXTENDS Naturals, Sequences

CONSTANTS
    Procs,      \* runs of the engine: chat requests and resume workers
    Calls       \* sensitive tool calls; an approval is named by its call

VARIABLES
    convStatus,     \* conversations.status
    turnToken,      \* conversations.turn_token, NoToken for NULL
    turnExpired,    \* conversations.turn_lease_until < now()
    turnRevision,   \* conversations.turn_revision
    heldTurn,       \* heldTurn[p]: the token run p got from its claim
    history         \* the committed turns, in commit order

turnVars == <<convStatus, turnToken, turnExpired, turnRevision, heldTurn, history>>

NoToken == 0

ConvStatuses == {"active", "running", "awaiting_approval"}

\* The messages of one turn: a chat inserts the user's message, and every turn
\* that does not stop at an approval an answer.
RoleLists == {<<>>, <<"user">>, <<"assistant">>, <<"user", "assistant">>}

\* One committed turn: the token it committed under, the run or approval it
\* belongs to, the roles of the messages inserted in the same transaction, and
\* the approvals it stopped at.
TurnRecord == [turn  : Nat,
               by    : Procs \cup Calls,
               roles : RoleLists,
               waits : SUBSET Calls]

TurnsTypeOK ==
    /\ convStatus \in ConvStatuses
    /\ turnToken \in Nat
    /\ turnExpired \in BOOLEAN
    /\ turnRevision \in Nat
    /\ heldTurn \in [Procs -> Nat]
    /\ history \in Seq(TurnRecord)

TurnsInit ==
    /\ convStatus = "active"
    /\ turnToken = NoToken
    /\ turnExpired = FALSE
    /\ turnRevision = 0
    /\ heldTurn = [p \in Procs |-> NoToken]
    /\ history = <<>>

-----------------------------------------------------------------------------
\* The WHERE clause of ClaimConversationTurn.
Claimable(resume) ==
    \/ /\ turnToken = NoToken
       /\ \/ convStatus = "active"
          \/ resume /\ convStatus = "awaiting_approval"
    \/ convStatus = "running" /\ turnExpired

ClaimConversationTurn(p, resume) ==
    /\ Claimable(resume)
    /\ convStatus' = "running"
    /\ turnRevision' = turnRevision + 1
    /\ turnToken' = turnRevision + 1
    /\ turnExpired' = FALSE
    /\ heldTurn' = [heldTurn EXCEPT ![p] = turnRevision + 1]
    /\ UNCHANGED history

\* Mutant of OwnsTurn: the token is not compared.
OwnsTurnUnfenced(p) == convStatus = "running" /\ heldTurn[p] # NoToken

\* The fence shared by renew, commit and release: status='running' AND turn_token=$2.
OwnsTurn(p) ==
    /\ convStatus = "running"
    /\ turnToken # NoToken
    /\ turnToken = heldTurn[p]

RenewConversationTurn(p) ==
    /\ OwnsTurn(p)
    /\ turnExpired' = FALSE
    /\ UNCHANGED <<convStatus, turnToken, turnRevision, heldTurn, history>>

FreeTurn(status) ==
    /\ convStatus' = status
    /\ turnToken' = NoToken
    /\ turnExpired' = FALSE
    /\ UNCHANGED <<turnRevision, heldTurn>>

\* CommitConversationTurn: the messages are inserted in the transaction that
\* gives the turn back.
CommitConversationTurn(p, by, roles, waits, status) ==
    /\ OwnsTurn(p)
    /\ FreeTurn(status)
    /\ history' = Append(history, [turn |-> heldTurn[p], by |-> by,
                                   roles |-> roles, waits |-> waits])

\* ReleaseConversationTurn: its callers ignore the error, be it a lost lease
\* or a database that does not answer in time.
ReleaseConversationTurn(p, status) ==
    \/ OwnsTurn(p) /\ FreeTurn(status) /\ UNCHANGED history
    \/ UNCHANGED turnVars

\* The `released` part of ResolvePendingApproval: a rejection reopens a
\* conversation only if it is already waiting.
ReopenRejected ==
    /\ convStatus' = IF convStatus = "awaiting_approval" THEN "active" ELSE convStatus
    /\ UNCHANGED <<turnToken, turnExpired, turnRevision, heldTurn, history>>

\* Two minutes pass without a renewal.
TurnLeaseRunsOut ==
    /\ convStatus = "running"
    /\ ~turnExpired
    /\ turnExpired' = TRUE
    /\ UNCHANGED <<convStatus, turnToken, turnRevision, heldTurn, history>>

\* The run is over or its process died: the token is forgotten.
DropTurn(p) ==
    /\ heldTurn' = [heldTurn EXCEPT ![p] = NoToken]
    /\ UNCHANGED <<convStatus, turnToken, turnExpired, turnRevision, history>>

-----------------------------------------------------------------------------
Statuses == {"active", "awaiting_approval"}     \* what a turn may be given back as

\* Everything the engine and the approval API may do to the row.
TurnsNext ==
    \/ \E p \in Procs :
         \/ \E resume \in BOOLEAN : ClaimConversationTurn(p, resume)
         \/ RenewConversationTurn(p)
         \/ \E by \in Procs \cup Calls, roles \in RoleLists, waits \in SUBSET Calls,
               status \in Statuses :
               CommitConversationTurn(p, by, roles, waits, status)
         \/ \E status \in Statuses : ReleaseConversationTurn(p, status)
         \/ DropTurn(p)
    \/ ReopenRejected
    \/ TurnLeaseRunsOut

TurnsSpec == TurnsInit /\ [][TurnsNext]_turnVars

\* Turns are committed in the order in which they were claimed, each at most
\* once: a run that lost its lease cannot write behind the run that took over
\* (fencing token of CommitConversationTurn).
TurnsSerialised ==
    \A i, j \in DOMAIN history : i < j => history[i].turn < history[j].turn
=============================================================================
