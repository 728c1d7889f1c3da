---------------------- MODULE ConversationTurnsProofs ----------------------
(***************************************************************************)
(* Proofs about the turn lease, whoever uses its operations: a user of     *)
(* ConversationTurns need only show that its steps are steps of TurnsNext. *)
(***************************************************************************)
EXTENDS ConversationTurns, TLAPS

\* A turn in progress holds the newest token, and every committed turn an
\* older one: the strengthening that makes TurnsSerialised inductive.
TokensFresh ==
    /\ turnToken \in {NoToken, turnRevision}
    /\ \A i \in DOMAIN history :
         /\ history[i].turn <= turnRevision
         /\ turnToken # NoToken => history[i].turn < turnToken

TurnsInv == TurnsTypeOK /\ TokensFresh /\ TurnsSerialised

\* Every operation on the conversation row keeps its types.
LEMMA TurnsTypeStep ==
    ASSUME TurnsTypeOK, [TurnsNext]_turnVars
    PROVE  TurnsTypeOK'
<1> USE DEF TurnsTypeOK, ConvStatuses, NoToken, Statuses
<1>1. ASSUME NEW p \in Procs, NEW r, ClaimConversationTurn(p, r) PROVE TurnsTypeOK'
  <2>1. turnRevision + 1 \in Nat
    OBVIOUS
  <2> QED
    BY <1>1, <2>1 DEF ClaimConversationTurn
<1>2. ASSUME NEW p, RenewConversationTurn(p) PROVE TurnsTypeOK'
  BY <1>2 DEF RenewConversationTurn
<1>3. ASSUME NEW p \in Procs, NEW by \in Procs \cup Calls, NEW roles \in RoleLists,
             NEW waits \in SUBSET Calls, NEW s \in Statuses,
             CommitConversationTurn(p, by, roles, waits, s)
      PROVE  TurnsTypeOK'
  <2> DEFINE rec == [turn |-> heldTurn[p], by |-> by, roles |-> roles, waits |-> waits]
  <2>1. rec \in TurnRecord
    BY DEF TurnRecord
  <2>2. history' = Append(history, rec)
    BY <1>3 DEF CommitConversationTurn
  <2> HIDE DEF rec
  <2>3. history' \in Seq(TurnRecord)
    BY <2>1, <2>2
  <2> QED
    BY <1>3, <2>3 DEF CommitConversationTurn, FreeTurn
<1>4. ASSUME NEW p \in Procs, NEW s \in Statuses, ReleaseConversationTurn(p, s)
      PROVE  TurnsTypeOK'
  <2>1. CASE FreeTurn(s) /\ UNCHANGED history
    BY <2>1 DEF FreeTurn
  <2>2. CASE UNCHANGED turnVars
    BY <2>2 DEF turnVars
  <2> QED
    BY <1>4, <2>1, <2>2 DEF ReleaseConversationTurn
<1>5. ASSUME ReopenRejected PROVE TurnsTypeOK'
  BY <1>5 DEF ReopenRejected
<1>6. ASSUME TurnLeaseRunsOut PROVE TurnsTypeOK'
  BY <1>6 DEF TurnLeaseRunsOut
<1>7. ASSUME NEW p \in Procs, DropTurn(p) PROVE TurnsTypeOK'
  BY <1>7 DEF DropTurn
<1>8. ASSUME UNCHANGED turnVars PROVE TurnsTypeOK'
  BY <1>8 DEF turnVars
<1> HIDE DEF TurnsTypeOK
<1> QED
  BY <1>1, <1>2, <1>3, <1>4, <1>5, <1>6, <1>7, <1>8 DEF TurnsNext

-----------------------------------------------------------------------------
\* The committed turns carry natural-number tokens.
LEMMA HistoryTokens ==
    ASSUME TurnsTypeOK
    PROVE  /\ DOMAIN history = 1 .. Len(history)
           /\ \A i \in DOMAIN history : history[i].turn \in Nat
<1>1. history \in Seq(TurnRecord)
  BY DEF TurnsTypeOK
<1>2. \A i \in 1 .. Len(history) : history[i] \in TurnRecord
  BY <1>1
<1>3. \A r \in TurnRecord : r.turn \in Nat
  BY DEF TurnRecord
<1>4. DOMAIN history = 1 .. Len(history)
  BY <1>1
<1> QED
  BY <1>2, <1>3, <1>4

\* Freshness of tokens and the order of the committed turns are kept by every
\* operation: a claim makes a newer token, a commit appends the newest one and
\* clears it in the same transaction.
LEMMA TurnsInvStep ==
    ASSUME TurnsInv, [TurnsNext]_turnVars
    PROVE  TurnsInv'
<1>1. TurnsTypeOK'
  BY TurnsTypeStep DEF TurnsInv
<1>2. ASSUME UNCHANGED <<history, turnRevision>>, turnToken' \in {NoToken, turnToken}
      PROVE  TokensFresh' /\ TurnsSerialised'
  BY <1>2 DEF TurnsInv, TokensFresh, TurnsSerialised, NoToken
<1>3. ASSUME NEW p \in Procs, NEW r, ClaimConversationTurn(p, r)
      PROVE  TokensFresh' /\ TurnsSerialised'
  <2>1. /\ turnToken' = turnRevision + 1
        /\ turnRevision' = turnRevision + 1
        /\ history' = history
    BY <1>3 DEF ClaimConversationTurn
  <2>2. \A i \in DOMAIN history : history[i].turn \in Nat /\ history[i].turn <= turnRevision
    BY HistoryTokens DEF TurnsInv, TokensFresh
  <2>3. TokensFresh'
    BY <2>1, <2>2 DEF TokensFresh, TurnsInv, TurnsTypeOK, NoToken
  <2> QED
    BY <2>1, <2>3 DEF TurnsInv, TurnsSerialised
<1>4. ASSUME NEW p \in Procs, NEW by, NEW roles, NEW waits, NEW s,
             CommitConversationTurn(p, by, roles, waits, s)
      PROVE  TokensFresh' /\ TurnsSerialised'
  <2> DEFINE rec == [turn |-> heldTurn[p], by |-> by, roles |-> roles, waits |-> waits]
             n == Len(history)
  <2>1. /\ rec.turn = turnRevision /\ turnToken # NoToken /\ turnToken = turnRevision
        /\ turnToken' = NoToken /\ turnRevision' = turnRevision
        /\ history' = Append(history, rec)
    BY <1>4 DEF CommitConversationTurn, FreeTurn, OwnsTurn, TurnsInv, TokensFresh
  <2> HIDE DEF rec
  <2>2. /\ n \in Nat
        /\ DOMAIN history = 1 .. n
        /\ DOMAIN history' = 1 .. n + 1
        /\ \A i \in 1 .. n : history'[i] = history[i]
        /\ history'[n + 1] = rec
    BY <2>1 DEF TurnsInv, TurnsTypeOK
  <2> HIDE DEF n
  <2>3. \A i \in 1 .. n : history'[i].turn < turnRevision
    <3>1. \A i \in DOMAIN history : history[i].turn < turnToken
      BY <2>1 DEF TurnsInv, TokensFresh
    <3> QED
      BY <2>1, <2>2, <3>1
  <2>4. \A i \in 1 .. n : history'[i].turn \in Nat
    BY <2>2, HistoryTokens DEF TurnsInv
  <2>5. turnRevision \in Nat
    BY DEF TurnsInv, TurnsTypeOK
  <2>6. TokensFresh'
    BY <2>1, <2>2, <2>3, <2>4, <2>5 DEF TokensFresh
  <2>7. TurnsSerialised'
    <3> SUFFICES ASSUME NEW i \in 1 .. n + 1, NEW j \in 1 .. n + 1, i < j
                 PROVE  history'[i].turn < history'[j].turn
      BY <2>2 DEF TurnsSerialised
    <3>1. CASE j = n + 1
      BY <2>1, <2>2, <2>3, <3>1
    <3>2. CASE j \in 1 .. n
      <4>1. i \in 1 .. n
        BY <2>2, <3>2
      <4> QED
        BY <2>2, <3>2, <4>1 DEF TurnsInv, TurnsSerialised
    <3> QED
      BY <2>2, <3>1, <3>2
  <2> QED
    BY <2>6, <2>7
<1>5. ASSUME NEW p \in Procs, NEW s, ReleaseConversationTurn(p, s)
      PROVE  TokensFresh' /\ TurnsSerialised'
  BY <1>2, <1>5 DEF ReleaseConversationTurn, FreeTurn, turnVars
<1>6. ASSUME \/ ReopenRejected \/ TurnLeaseRunsOut \/ UNCHANGED turnVars
             \/ \E p \in Procs : RenewConversationTurn(p) \/ DropTurn(p)
      PROVE  TokensFresh' /\ TurnsSerialised'
  BY <1>2, <1>6 DEF ReopenRejected, TurnLeaseRunsOut, RenewConversationTurn, DropTurn, turnVars
<1>7. TokensFresh' /\ TurnsSerialised'
  BY <1>3, <1>4, <1>5, <1>6 DEF TurnsNext
<1> QED
  BY <1>1, <1>7 DEF TurnsInv

\* A new conversation satisfies the invariant.
LEMMA TurnsInvInit == TurnsInit => TurnsInv
<1> SUFFICES ASSUME TurnsInit PROVE TurnsInv
  OBVIOUS
<1>1. history = <<>> /\ DOMAIN history = {}
  BY DEF TurnsInit
<1>2. heldTurn \in [Procs -> Nat] /\ history \in Seq(TurnRecord)
  BY DEF TurnsInit, NoToken
<1>3. turnExpired \in BOOLEAN
  BY DEF TurnsInit
<1>4. TurnsTypeOK
  BY <1>2, <1>3 DEF TurnsInit, TurnsTypeOK, ConvStatuses, NoToken
<1> QED
  BY <1>1, <1>4 DEF TurnsInit, TurnsInv, TokensFresh, TurnsSerialised

\* However Chat and Resume runs, renewals, expiries and crashes interleave,
\* turns reach a conversation in the order in which they were claimed, each
\* once (the fencing token of Claim/CommitConversationTurn).
THEOREM TurnsAreSerialised == TurnsSpec => []TurnsSerialised
<1>1. TurnsInv /\ [TurnsNext]_turnVars => TurnsInv'
  BY TurnsInvStep
<1>2. TurnsInv => TurnsSerialised
  BY DEF TurnsInv
<1> QED
  BY TurnsInvInit, <1>1, <1>2, PTL DEF TurnsSpec
=============================================================================
