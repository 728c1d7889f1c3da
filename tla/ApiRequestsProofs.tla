------------------------- MODULE ApiRequestsProofs -------------------------
(***************************************************************************)
(* Proofs about the requests of the control plane: a workspace keeps an    *)
(* owner, an idempotency key admits one request at a time while its lock   *)
(* lasts, and a call that is repeated under its key acts once.             *)
(***************************************************************************)
EXTENDS ApiRequests, FiniteSetTheorems, TLAPS

-----------------------------------------------------------------------------
(* The tables *)

\* Of more than one owner, one is left when another goes.
LEMMA AnotherOwner ==
    ASSUME NEW S \in SUBSET Users, NEW u, Cardinality(S) > 1
    PROVE  S \ {u} # {}
<1> SUFFICES ASSUME S \ {u} = {} PROVE FALSE
  OBVIOUS
<1>1. IsFiniteSet({u}) /\ Cardinality({u}) = 1
  BY FS_Singleton
<1>2. S \in SUBSET {u}
  OBVIOUS
<1>3. Cardinality(S) <= 1 /\ IsFiniteSet(S)
  BY <1>1, <1>2, FS_Subset
<1>4. Cardinality(S) \in Nat
  BY <1>3, FS_CardinalityType
<1> QED BY <1>3, <1>4

\* A role that u gets in a workspace, from the member table M to N.
Writes(M, N, ws, u, role) == N = [M EXCEPT ![ws][u] = role]

LEMMA WriteKeepsOwner ==
    ASSUME MembershipTypeOK, NEW ws \in Workspaces, NEW u \in Users, NEW role,
           Writes(member, member', ws, u, role), UNCHANGED <<user, workspace>>,
           role = "owner" \/ (member[ws][u] = "owner" => Cardinality(Owners(ws)) > 1)
    PROVE  \A w \in Workspaces : Owners(w) # {} => Owners(w)' # {}
<1> SUFFICES ASSUME NEW w \in Workspaces, NEW o \in Users, member[w][o] = "owner"
             PROVE  \E p \in Users : member'[w][p] = "owner"
  BY DEF Owners
<1>1. \A p \in Users : (w # ws \/ p # u) => member'[w][p] = member[w][p]
  BY DEF Writes, MembershipTypeOK
<1>2. CASE w # ws \/ o # u
  BY <1>1, <1>2
<1>3. CASE w = ws /\ o = u /\ role = "owner"
  BY <1>3 DEF Writes, MembershipTypeOK
<1>4. CASE w = ws /\ o = u /\ Cardinality(Owners(ws)) > 1
  <2>1. PICK p : p \in Owners(ws) /\ p # u
    <3>1. Owners(ws) \in SUBSET Users
      BY DEF Owners
    <3>2. Owners(ws) \ {u} # {}
      BY <1>4, <3>1, AnotherOwner
    <3> QED BY <3>2
  <2> QED BY <1>1, <1>4, <2>1 DEF Owners
<1> QED BY <1>2, <1>3, <1>4

LEMMA StatementKeepsOwner ==
    MembershipTypeOK /\ [MembershipNext]_iamVars
        => MembershipTypeOK' /\ \A w \in Workspaces : Owners(w) # {} => Owners(w)' # {}
<1> SUFFICES ASSUME MembershipTypeOK, [MembershipNext]_iamVars
             PROVE  MembershipTypeOK' /\ \A w \in Workspaces : Owners(w) # {} => Owners(w)' # {}
  OBVIOUS
<1>1. ASSUME UNCHANGED member PROVE \A w \in Workspaces : Owners(w) # {} => Owners(w)' # {}
  BY <1>1 DEF Owners
<1>2. CASE UNCHANGED iamVars
  BY <1>1, <1>2 DEF iamVars, MembershipTypeOK
<1>3. ASSUME NEW u \in Users, CreateUser(u) /\ UNCHANGED <<workspace, member>>
      PROVE  MembershipTypeOK'
  BY <1>3 DEF CreateUser, MembershipTypeOK, GlobalRoles
<1>4. ASSUME NEW u \in Users, NEW role \in GlobalRoles,
             SetUserRole(u, role) /\ UNCHANGED <<workspace, member>>
      PROVE  MembershipTypeOK'
  BY <1>4 DEF SetUserRole, MembershipTypeOK, GlobalRoles
<1>5. ASSUME NEW ws \in Workspaces, CreateWorkspace(ws, "seed") /\ UNCHANGED <<user, member>>
      PROVE  MembershipTypeOK'
  BY <1>5 DEF CreateWorkspace, MembershipTypeOK
<1>6. ASSUME NEW W \in SUBSET Workspaces, NEW u \in Users,
             UpsertOwners(W, u) /\ UNCHANGED <<user, workspace>>
      PROVE  MembershipTypeOK' /\ \A w \in Workspaces : Owners(w) # {} => Owners(w)' # {}
  <2>1. MembershipTypeOK'
    BY <1>6 DEF UpsertOwners, MembershipTypeOK, WorkspaceRoles
  <2>2. \A w \in Workspaces, o \in Users : member[w][o] = "owner" => member'[w][o] = "owner"
    BY <1>6 DEF UpsertOwners, MembershipTypeOK
  <2> QED BY <2>1, <2>2 DEF Owners
<1>7. ASSUME NEW ws \in Workspaces, NEW u \in Users,
             CreateWorkspaceWithOwner(ws, u) /\ UNCHANGED user
      PROVE  MembershipTypeOK' /\ \A w \in Workspaces : Owners(w) # {} => Owners(w)' # {}
  <2>1. MembershipTypeOK'
    BY <1>7 DEF CreateWorkspaceWithOwner, CreateWorkspace, UpsertWorkspaceMember,
                MembershipTypeOK, WorkspaceRoles
  <2>2. \A w \in Workspaces, o \in Users : member[w][o] = "owner" => member'[w][o] = "owner"
    BY <1>7 DEF CreateWorkspaceWithOwner, UpsertWorkspaceMember, MembershipTypeOK
  <2> QED BY <2>1, <2>2 DEF Owners
<1>8. ASSUME NEW ws \in Workspaces, NEW u \in Users, NEW allowed \in BOOLEAN,
             DeleteWorkspaceMemberGuarded(ws, u, allowed) /\ UNCHANGED <<user, workspace>>
      PROVE  MembershipTypeOK' /\ \A w \in Workspaces : Owners(w) # {} => Owners(w)' # {}
  <2>1. Writes(member, member', ws, u, None)
    BY <1>8 DEF DeleteWorkspaceMemberGuarded, DeleteWorkspaceMember, Writes
  <2>2. member[ws][u] = "owner" => Cardinality(Owners(ws)) > 1
    BY <1>8 DEF DeleteWorkspaceMemberGuarded, DeleteAllowed, OwnerMayGo
  <2>3. MembershipTypeOK'
    BY <1>8, <2>1 DEF Writes, MembershipTypeOK
  <2> QED BY <1>8, <2>1, <2>2, <2>3, WriteKeepsOwner
<1>9. ASSUME NEW ws \in Workspaces, NEW u \in Users, NEW allowed \in BOOLEAN,
             NEW role \in WorkspaceRoles,
             UpsertWorkspaceMemberGuarded(ws, u, role, allowed) /\ UNCHANGED <<user, workspace>>
      PROVE  MembershipTypeOK' /\ \A w \in Workspaces : Owners(w) # {} => Owners(w)' # {}
  <2>1. Writes(member, member', ws, u, role)
    BY <1>9 DEF UpsertWorkspaceMemberGuarded, UpsertWorkspaceMember, Writes
  <2>2. role = "owner" \/ (member[ws][u] = "owner" => Cardinality(Owners(ws)) > 1)
    BY <1>9 DEF UpsertWorkspaceMemberGuarded, UpsertAllowed, OwnerMayGo
  <2>3. MembershipTypeOK'
    BY <1>9, <2>1 DEF Writes, MembershipTypeOK
  <2> QED BY <1>9, <2>1, <2>2, <2>3, WriteKeepsOwner
<1> QED BY <1>1, <1>2, <1>3, <1>4, <1>5, <1>6, <1>7, <1>8, <1>9 DEF MembershipNext

\* The statements of the store on their own keep the owner of a workspace, in
\* any order and with any stale authority (postgres_store.go:181-274).
THEOREM StatementsKeepOwner == MembershipSpec => OwnerKept
<1>1. MembershipTypeOK /\ [MembershipNext]_iamVars
        => [\A ws \in Workspaces : Owners(ws) # {} => Owners(ws)' # {}]_iamVars
  BY StatementKeepsOwner
<1> QED BY <1>1, StatementKeepsOwner, PTL DEF MembershipSpec, OwnerKept
-----------------------------------------------------------------------------
(* The connections *)

\* A connection has one of the calls offered, and only calls with a key meet
\* the locks.
Formed(g) ==
    g \in Open => /\ g.call \in Calls
                  /\ g.at \in {"admitted", "mutex", "locked", "releasing"} => g.call.keyed

Counters ==
    /\ effects \in [CacheKeys -> Nat] /\ excuses \in [CacheKeys -> Nat]
    /\ lapses \in [CacheKeys -> Nat]

ReqInv == TypeOK /\ Counters /\ \A q \in Requests : Formed(req[q])

LEMMA ClosedIsIdle == Closed.at = "idle" /\ Closed \notin Open /\ "idle" \notin Steps
BY DEF Closed, Open, Steps

LEMMA IsOpen ==
    ASSUME ReqInv, NEW r \in Requests, req[r].at \in Steps
    PROVE  /\ req[r] \in Open /\ req[r].call \in Call /\ req[r].server \in Servers
           /\ req[r].call \in Calls /\ Key(r) \in CacheKeys
<1>1. req[r] \in Open
  BY ClosedIsIdle DEF ReqInv, TypeOK, Connection
<1>2. req[r].call \in Calls
  BY <1>1 DEF ReqInv, Formed
<1> QED BY <1>1, <1>2 DEF Open, Key, CacheKeys

\* Connection r becomes c.
Turns(r, c) == req' = [req EXCEPT ![r] = c] /\ c \in Connection /\ Formed(c)

LEMMA TurnsGood ==
    ASSUME ReqInv, NEW r \in Requests, NEW c, Turns(r, c)
    PROVE  req' \in [Requests -> Connection] /\ \A q \in Requests : Formed(req'[q])
BY DEF ReqInv, TypeOK, Turns

LEMMA GotoTurns ==
    ASSUME ReqInv, NEW r \in Requests, req[r].at \in Steps, NEW step \in Steps, Goto(r, step),
           step \in {"admitted", "mutex", "locked", "releasing"} => Keyed(r)
    PROVE  \E c \in Open : /\ Turns(r, c) /\ c.at = step
                           /\ c.call = req[r].call /\ c.server = req[r].server
<1> PICK g \in Open : g = req[r] /\ g.call \in Calls
  BY IsOpen
<1> DEFINE c == [g EXCEPT !.at = step]
<1>1. c \in Open /\ c.at = step /\ c.call = g.call /\ c.server = g.server
  BY DEF Open
<1>2. req' = [req EXCEPT ![r] = c]
  BY DEF Goto, ReqInv, TypeOK
<1> HIDE DEF c
<1> QED BY <1>1, <1>2 DEF Turns, Connection, Formed, Keyed

LEMMA HangupTurns ==
    ASSUME ReqInv, NEW r \in Requests, Hangup(r)
    PROVE  Turns(r, Closed)
BY ClosedIsIdle DEF Hangup, Turns, Connection, Formed

-----------------------------------------------------------------------------
(* What the requests do to the tables *)

LEMMA CallParts ==
    ASSUME NEW c \in Call
    PROVE  c.actor \in Users /\ c.ws \in Workspaces /\ c.target \in Users
           /\ c.body \in WorkspaceRoles /\ c.keyed \in BOOLEAN
BY DEF Call

LEMMA RequestsAreStatements == ReqInv /\ [Next]_vars => [MembershipNext]_iamVars
<1> SUFFICES ASSUME ReqInv, [Next]_vars, ~UNCHANGED iamVars PROVE MembershipNext
  OBVIOUS
<1>0. MembershipAssumption /\ "admin" \in GlobalRoles
  BY MembershipAssumption DEF GlobalRoles
<1>1. ASSUME NEW r \in Requests, Register(r) PROVE MembershipNext
  <2>1. req[r].call \in Call
    BY <1>1, IsOpen DEF Register, Handling, At, Steps
  <2>2. CreateUser(req[r].call.target) /\ UNCHANGED <<workspace, member>>
    BY <1>1 DEF Register, iamVars
  <2> QED BY <2>1, <2>2, CallParts DEF MembershipNext
<1>2. ASSUME NEW r \in Requests, NEW ws \in Workspaces, CreateWorkspaceForUser(r, ws)
      PROVE  MembershipNext
  <2>1. req[r].call \in Call
    BY <1>2, IsOpen DEF CreateWorkspaceForUser, Handling, At, Steps
  <2>2. CreateWorkspaceWithOwner(ws, req[r].call.actor) /\ UNCHANGED user
    BY <1>2 DEF CreateWorkspaceForUser
  <2> QED BY <2>1, <2>2, CallParts DEF MembershipNext
<1>3. ASSUME NEW r \in Requests, PutMember(r) PROVE MembershipNext
  <2>1. req[r].call \in Call /\ req[r].allowed \in BOOLEAN
    BY <1>3, IsOpen DEF PutMember, At, Steps, Open
  <2>2. /\ UpsertWorkspaceMemberGuarded(req[r].call.ws, req[r].call.target, req[r].call.body,
                                        req[r].allowed)
        /\ UNCHANGED <<user, workspace>>
    BY <1>3 DEF PutMember, iamVars
  <2> QED BY <2>1, <2>2, CallParts DEF MembershipNext
<1>4. ASSUME NEW r \in Requests, DeleteMember(r) PROVE MembershipNext
  <2>1. req[r].call \in Call /\ req[r].allowed \in BOOLEAN
    BY <1>4, IsOpen DEF DeleteMember, At, Steps, Open
  <2>2. /\ DeleteWorkspaceMemberGuarded(req[r].call.ws, req[r].call.target, req[r].allowed)
        /\ UNCHANGED <<user, workspace>>
    BY <1>4 DEF DeleteMember, iamVars
  <2> QED BY <2>1, <2>2, CallParts DEF MembershipNext
<1>5. ASSUME NEW s \in Servers, SeedAdmin(s) PROVE MembershipNext
  BY <1>0, <1>5 DEF SeedAdmin, MembershipNext, MembershipAssumption
<1>5a. ASSUME NEW s \in Servers, RegisterSeedAdmin(s) PROVE MembershipNext
  <2>1. CreateUser(Root) /\ UNCHANGED <<workspace, member>>
    BY <1>5a DEF RegisterSeedAdmin, iamVars
  <2> QED BY <1>0, <2>1 DEF MembershipNext, MembershipAssumption
<1>6. ASSUME NEW s \in Servers, NEW ws \in Workspaces, CreateSeedWorkspace(s, ws)
      PROVE  MembershipNext
  BY <1>6 DEF CreateSeedWorkspace, MembershipNext
<1>7. ASSUME NEW s \in Servers, SeedOwners(s) PROVE MembershipNext
  <2>1. {ws \in Workspaces : workspace[ws] = "seed"} \in SUBSET Workspaces /\ Root \in Users
    BY <1>0 DEF MembershipAssumption
  <2> QED BY <1>7, <2>1 DEF SeedOwners, MembershipNext
<1>8. ASSUME NEW r \in Requests,
             \/ AcquireMutex(r) \/ AcquireLock(r) \/ Replay(r) \/ Proceed(r) \/ Remember(r)
             \/ Fail(r) \/ LockUnavailable(r) \/ StoreUnavailable(r) \/ RememberFails(r)
             \/ Release(r) \/ ReleaseFails(r)
             \/ Authorise(r) \/ ReadMember(r) \/ Decide(r)
             \/ \E s \in Servers, c \in Calls : Arrive(r, s, c)
      PROVE  FALSE
  BY <1>8 DEF AcquireMutex, AcquireLock, Replay, Proceed, Remember, Fail, LockUnavailable,
              StoreUnavailable, RememberFails, Release, ReleaseFails, Authorise, ReadMember,
              Decide, Arrive
<1>9. ASSUME NEW s \in Servers, FindSeedAdmin(s) \/ ListSeedWorkspaces(s) \/ Die(s)
      PROVE  FALSE
  BY <1>9 DEF FindSeedAdmin, ListSeedWorkspaces, Die
<1>10. ASSUME NEW k \in CacheKeys, OrphanEnds(k) \/ LeaseEnds(k) \/ ResponseEnds(k) PROVE FALSE
  BY <1>10 DEF OrphanEnds, LeaseEnds, ResponseEnds
<1>11. ~UNCHANGED vars
  BY DEF vars
<1> QED BY <1>1, <1>2, <1>3, <1>4, <1>5, <1>5a, <1>6, <1>7, <1>8, <1>9, <1>10, <1>11
        DEF Next, Respond, Handler, Start
-----------------------------------------------------------------------------
(* Types *)

Conns == req \in [Requests -> Connection] /\ \A q \in Requests : Formed(req[q])

Locks ==
    /\ local \in [Servers -> [CacheKeys -> Requests \cup {None}]]
    /\ cached \subseteq CacheKeys
    /\ lock \in [CacheKeys -> Requests \cup {None, Orphan}]

Rest ==
    /\ server \in [Servers -> Boot] /\ pending \subseteq Workspaces
    /\ arrivals \in 0 .. MaxArrivals /\ faults \in 0 .. MaxFaults

LEMMA TypeParts == ReqInv <=> MembershipTypeOK /\ Conns /\ Locks /\ Counters /\ Rest
BY DEF ReqInv, TypeOK, Conns, Locks, Rest

LEMMA UnlockTypes ==
    ASSUME ReqInv, NEW s \in Servers, NEW k \in CacheKeys, NEW r \in Requests,
           Idem!Unlock(s, k, r) \/ Idem!UnlockFails(s, k, r)
    PROVE  /\ local' \in [Servers -> [CacheKeys -> Requests \cup {None}]]
           /\ lock' \in [CacheKeys -> Requests \cup {None, Orphan}]
<1>1. local \in [Servers -> [CacheKeys -> Requests \cup {None}]]
  BY DEF ReqInv, TypeOK
<1>2. lock \in [CacheKeys -> Requests \cup {None, Orphan}]
  BY DEF ReqInv, TypeOK
<1> QED BY <1>1, <1>2 DEF Idem!Unlock, Idem!UnlockFails, Idem!ReleaseLocal

LEMMA FaultType ==
    ASSUME ReqInv, Fault PROVE faults' \in 0 .. MaxFaults
BY RequestsAssumption DEF Fault, ReqInv, TypeOK, RequestsAssumption

LEMMA EffectType ==
    ASSUME ReqInv, NEW r \in Requests, req[r].at \in Steps, Effect(r)
    PROVE  effects' \in [CacheKeys -> Nat]
<1>1. Key(r) \in CacheKeys
  BY IsOpen
<1> QED BY <1>1 DEF Effect, ReqInv, Counters

LEMMA ExcuseType ==
    ASSUME ReqInv, NEW k \in CacheKeys, Excuse(k)
    PROVE  excuses' \in [CacheKeys -> Nat]
BY DEF Excuse, ReqInv, Counters

\* The middleware.
LEMMA MiddlewareTypes ==
    ASSUME ReqInv, NEW r \in Requests,
           \/ AcquireMutex(r) \/ AcquireLock(r) \/ Replay(r) \/ Proceed(r)
           \/ LockUnavailable(r) \/ StoreUnavailable(r) \/ Remember(r) \/ RememberFails(r)
           \/ Fail(r) \/ Release(r) \/ ReleaseFails(r)
    PROVE  (Conns /\ Locks /\ Counters /\ Rest)'
<1>t. Conns /\ Locks /\ Counters /\ Rest
  BY TypeParts
<1>1. req[r].at \in Steps
  BY DEF AcquireMutex, AcquireLock, Replay, Proceed, LockUnavailable, StoreUnavailable,
         Remember, RememberFails, Fail, Release, ReleaseFails, At, Steps
<1>2. Key(r) \in CacheKeys /\ req[r].server \in Servers
  BY <1>1, IsOpen
<1>3. CASE AcquireMutex(r)
  <2>1. Conns'
    <3>1. Keyed(r)
      BY <1>1, <1>3, IsOpen DEF AcquireMutex, At, ReqInv, Formed, Keyed
    <3> QED BY <1>1, <1>3, <3>1, GotoTurns, TurnsGood DEF AcquireMutex, Conns, Steps
  <2>2. Locks'
    BY <1>t, <1>2, <1>3 DEF AcquireMutex, Idem!AcquireLocal, Locks
  <2> QED BY <1>t, <1>3, <2>1, <2>2 DEF AcquireMutex, Counters, Rest
<1>4. CASE AcquireLock(r)
  <2>1. Conns'
    <3>1. Keyed(r)
      BY <1>1, <1>4, IsOpen DEF AcquireLock, At, ReqInv, Formed, Keyed
    <3> QED BY <1>1, <1>4, <3>1, GotoTurns, TurnsGood DEF AcquireLock, Conns, Steps
  <2>2. Locks'
    BY <1>t, <1>2, <1>4 DEF AcquireLock, Idem!Lock, Locks
  <2> QED BY <1>t, <1>4, <2>1, <2>2 DEF AcquireLock, Counters, Rest
<1>5. CASE Proceed(r)
  <2>1. Conns'
    BY <1>1, <1>5, GotoTurns, TurnsGood DEF Proceed, Conns, Steps
  <2> QED BY <1>t, <1>5, <2>1 DEF Proceed, storeVars, Locks, Counters, Rest
<1>6. ASSUME Hangup(r) PROVE Conns'
  BY <1>6, HangupTurns, TurnsGood DEF Conns
<1>6a. ASSUME Keyed(r), Goto(r, "releasing") PROVE Conns'
  BY <1>1, <1>6a, GotoTurns, TurnsGood DEF Conns, Steps
<1>6b. req[r].at = "locked" => Keyed(r)
  BY <1>1, IsOpen DEF ReqInv, Formed, Keyed
<1>7. CASE Replay(r) \/ StoreUnavailable(r)
  <2>1. Conns'
    BY <1>6a, <1>6b, <1>7 DEF Replay, StoreUnavailable, At
  <2>2. faults' \in 0 .. MaxFaults
    BY <1>t, <1>7, FaultType DEF Replay, StoreUnavailable, Rest
  <2> QED BY <1>t, <1>7, <2>1, <2>2
          DEF Replay, StoreUnavailable, storeVars, Locks, Counters, Rest
<1>8. CASE LockUnavailable(r)
  <2>1. lock' \in [CacheKeys -> Requests \cup {None, Orphan}]
    BY <1>t, <1>2, <1>8 DEF LockUnavailable, Idem!LockUnanswered, Locks
  <2>2. local' \in [Servers -> [CacheKeys -> Requests \cup {None}]]
    BY <1>t, <1>2, <1>8 DEF LockUnavailable, Idem!ReleaseLocal, Locks
  <2> QED BY <1>t, <1>6, <1>8, <2>1, <2>2, FaultType DEF LockUnavailable, Locks, Counters, Rest
<1>9. CASE Remember(r)
  <2>1. Locks'
    BY <1>t, <1>2, <1>9 DEF Remember, Idem!Store, Locks
  <2>2. Conns'
    BY <1>6, <1>6a, <1>9 DEF Remember
  <2> QED BY <1>t, <1>9, <2>1, <2>2 DEF Remember, Counters, Rest
<1>10. CASE RememberFails(r)
  <2>1. Conns' /\ excuses' \in [CacheKeys -> Nat]
    BY <1>2, <1>6a, <1>10, ExcuseType DEF RememberFails
  <2> QED BY <1>t, <1>10, <2>1, FaultType DEF RememberFails, storeVars, Locks, Counters, Rest
<1>11. CASE Fail(r)
  <2>1. Conns'
    BY <1>6, <1>6a, <1>11 DEF Fail
  <2> QED BY <1>t, <1>11, <2>1 DEF Fail, storeVars, Locks, Counters, Rest
<1>12. CASE Release(r)
  <2>1. Locks'
    BY <1>t, <1>2, <1>12, UnlockTypes DEF Release, Locks
  <2> QED BY <1>t, <1>6, <1>12, <2>1 DEF Release, Counters, Rest
<1>13. CASE ReleaseFails(r)
  <2>1. Locks'
    BY <1>t, <1>2, <1>13, UnlockTypes DEF ReleaseFails, Locks
  <2> QED BY <1>t, <1>6, <1>13, <2>1, FaultType DEF ReleaseFails, Counters, Rest
<1> QED BY <1>3, <1>4, <1>5, <1>7, <1>8, <1>9, <1>10, <1>11, <1>12, <1>13

\* Authorise also notes whether the actor may manage owners.
LEMMA AuthoriseTurns ==
    ASSUME ReqInv, NEW r \in Requests, Authorise(r)
    PROVE  \E c \in Open : /\ Turns(r, c) /\ c.at \in {"authorised", "failed"}
                           /\ c.call = req[r].call /\ c.server = req[r].server
<1>0. req[r].at \in Steps
  BY DEF Authorise, At, Steps
<1> PICK g \in Open : g = req[r] /\ g.call \in Calls
  BY <1>0, IsOpen
<1>1. PICK l \in {"authorised", "failed"} :
          l = IF /\ MayManage(g.call.actor, g.call.ws)
                 /\ g.call.op = "put" => user[g.call.target] # None
              THEN "authorised" ELSE "failed"
  OBVIOUS
<1>2. PICK a \in BOOLEAN : a = ManagesOwners(g.call.actor, g.call.ws)
  BY DEF ManagesOwners
<1> DEFINE c == [g EXCEPT !.at = l, !.allowed = a]
<1>3. req' = [req EXCEPT ![r] = c]
  BY <1>1, <1>2 DEF Authorise, ReqInv, TypeOK
<1>4. l \in Steps
  BY DEF Steps
<1>5. c \in Open /\ c.at = l /\ c.call = g.call /\ c.server = g.server
  BY <1>4 DEF Open
<1> HIDE DEF c
<1> QED BY <1>3, <1>5 DEF Turns, Connection, Formed

\* The handlers change the tables, the connection and the history.
LEMMA HandlerTypes ==
    ASSUME ReqInv, NEW r \in Requests, Handler(r)
    PROVE  (Conns /\ Locks /\ Counters /\ Rest)'
<1>t. Conns /\ Locks /\ Counters /\ Rest
  BY TypeParts
<1>1. req[r].at \in Steps
  BY DEF Handler, Register, CreateWorkspaceForUser, Authorise, PutMember, ReadMember,
         DeleteMember, Decide, Handling, At, Steps
<1>2. Key(r) \in CacheKeys
  BY <1>1, IsOpen
<1>3. ASSUME NEW step \in {"succeeded", "failed", "written"}, Goto(r, step) PROVE Conns'
  BY <1>1, <1>3, GotoTurns, TurnsGood DEF Conns, Steps
<1>4. Effect(r) \/ UNCHANGED effects => effects' \in [CacheKeys -> Nat]
  BY <1>t, <1>1, EffectType DEF Counters
<1>5. CASE Register(r)
  BY <1>t, <1>3, <1>4, <1>5 DEF Register, storeVars, Locks, Counters, Rest
<1>6. CASE \E ws \in Workspaces : CreateWorkspaceForUser(r, ws)
  BY <1>t, <1>3, <1>4, <1>6 DEF CreateWorkspaceForUser, storeVars, Locks, Counters, Rest
<1>7. CASE Authorise(r)
  <2>1. Conns'
    BY <1>7, AuthoriseTurns, TurnsGood DEF Conns
  <2> QED BY <1>t, <1>7, <2>1 DEF Authorise, storeVars, Locks, Counters, Rest
<1>8. CASE PutMember(r)
  BY <1>t, <1>3, <1>4, <1>8 DEF PutMember, storeVars, Locks, Counters, Rest
<1>9. CASE ReadMember(r)
  <2>1. excuses' \in [CacheKeys -> Nat]
    BY <1>t, <1>2, <1>9, ExcuseType DEF ReadMember, Counters
  <2> QED BY <1>t, <1>3, <1>9, <2>1 DEF ReadMember, storeVars, Locks, Counters, Rest
<1>10. CASE DeleteMember(r)
  BY <1>t, <1>3, <1>4, <1>10 DEF DeleteMember, storeVars, Locks, Counters, Rest
<1>11. CASE Decide(r)
  <2>1. pending' \subseteq Workspaces
    BY <1>t, <1>11 DEF Decide, Rest
  <2> QED BY <1>t, <1>3, <1>4, <1>11, <2>1 DEF Decide, storeVars, Locks, Counters, Rest
<1> QED BY <1>5, <1>6, <1>7, <1>8, <1>9, <1>10, <1>11 DEF Handler

LEMMA ArriveTurns ==
    ASSUME ReqInv, NEW r \in Requests, NEW s \in Servers, NEW c \in Calls, Arrive(r, s, c)
    PROVE  \E g \in Open : /\ Turns(r, g) /\ g.call = c
                           /\ g.at = IF c.keyed THEN "admitted" ELSE "handling"
<1>1. PICK l \in {"admitted", "handling"} : l = IF c.keyed THEN "admitted" ELSE "handling"
  OBVIOUS
<1>2. c \in Call /\ l \in Steps
  BY RequestsAssumption DEF RequestsAssumption, Steps
<1> DEFINE g == [at |-> l, call |-> c, server |-> s, allowed |-> FALSE]
<1>3. g \in Open /\ g.at = l /\ g.call = c
  BY <1>2 DEF Open
<1>4. req' = [req EXCEPT ![r] = g]
  BY <1>1 DEF Arrive
<1> HIDE DEF g
<1> QED BY <1>1, <1>3, <1>4 DEF Turns, Connection, Formed

\* Servers, arrivals and expiries.
LEMMA OtherTypes ==
    ASSUME ReqInv,
           \/ \E r \in Requests, s \in Servers, c \in Calls : Arrive(r, s, c)
           \/ \E s \in Servers : Start(s) \/ Die(s)
           \/ \E k \in CacheKeys : OrphanEnds(k) \/ LeaseEnds(k) \/ ResponseEnds(k)
    PROVE  (Conns /\ Locks /\ Counters /\ Rest)'
<1>t. Conns /\ Locks /\ Counters /\ Rest
  BY TypeParts
<1>1. ASSUME NEW r \in Requests, NEW s \in Servers, NEW c \in Calls, Arrive(r, s, c)
      PROVE  (Conns /\ Locks /\ Counters /\ Rest)'
  <2>1. Conns'
    BY <1>1, ArriveTurns, TurnsGood DEF Conns
  <2>2. arrivals' \in 0 .. MaxArrivals
    BY <1>t, <1>1, RequestsAssumption DEF Arrive, Rest, RequestsAssumption
  <2> QED BY <1>t, <1>1, <2>1, <2>2 DEF Arrive, storeVars, Locks, Counters, Rest
<1>2. ASSUME NEW s \in Servers, Start(s)
      PROVE  (Conns /\ Locks /\ Counters /\ Rest)'
  <2>1. UNCHANGED <<storeVars, req, pending, effects, excuses, arrivals, faults>>
    BY <1>2 DEF Start, FindSeedAdmin, RegisterSeedAdmin, SeedAdmin, ListSeedWorkspaces,
                SeedOwners, CreateSeedWorkspace
  <2>2. server' \in [Servers -> Boot]
    BY <1>t, <1>2 DEF Start, FindSeedAdmin, RegisterSeedAdmin, SeedAdmin, ListSeedWorkspaces,
                      SeedOwners, CreateSeedWorkspace, Advance, Rest, Boot
  <2> QED BY <1>t, <2>1, <2>2 DEF storeVars, Conns, Locks, Counters, Rest
<1>3. ASSUME NEW s \in Servers, Die(s)
      PROVE  (Conns /\ Locks /\ Counters /\ Rest)'
  <2> DEFINE dead == {r \in Requests : req[r] # Closed /\ req[r].server = s}
             lost(k) == {r \in dead : /\ Keyed(r) /\ Key(r) = k
                                      /\ req[r].at \in {"written", "succeeded"}}
  <2>1. req' = [r \in Requests |-> IF r \in dead THEN Closed ELSE req[r]]
    BY <1>3 DEF Die
  <2>2. Conns'
    BY <1>t, <2>1, ClosedIsIdle DEF Conns, Connection, Formed
  <2>3. excuses' = [k \in CacheKeys |-> excuses[k] + Cardinality(lost(k))]
    BY <1>3 DEF Die
  <2>4. \A k \in CacheKeys : Cardinality(lost(k)) \in Nat
    <3> TAKE k \in CacheKeys
    <3>1. lost(k) \in SUBSET Requests
      OBVIOUS
    <3>2. IsFiniteSet(lost(k))
      BY <3>1, FS_Subset, RequestsAssumption DEF RequestsAssumption
    <3> QED BY <3>2, FS_CardinalityType
  <2>5. excuses' \in [CacheKeys -> Nat]
    <3> HIDE DEF lost
    <3> QED BY <1>t, <2>3, <2>4 DEF Counters
  <2>6. Idem!LoseServer(s, dead)
    BY <1>3 DEF Die
  <2>7. Locks'
    <3> HIDE DEF dead
    <3>1. cached' = cached
      BY <1>3 DEF Die
    <3>2. local' = [local EXCEPT ![s] = [k \in CacheKeys |-> None]]
      BY <2>6 DEF Idem!LoseServer
    <3>3. lock' = [k \in CacheKeys |-> IF lock[k] \in dead THEN Orphan ELSE lock[k]]
      BY <2>6 DEF Idem!LoseServer
    <3> QED BY <1>t, <3>1, <3>2, <3>3 DEF Locks
  <2>8. server' \in [Servers -> Boot] /\ faults' \in 0 .. MaxFaults
    BY <1>t, <1>3, FaultType DEF Die, Advance, Rest, Boot
  <2>9. UNCHANGED <<cached, lapses, pending, effects, arrivals>>
    BY <1>3 DEF Die
  <2> QED BY <1>t, <2>2, <2>5, <2>7, <2>8, <2>9 DEF Counters, Rest
<1>4. ASSUME NEW k \in CacheKeys, OrphanEnds(k)
      PROVE  (Conns /\ Locks /\ Counters /\ Rest)'
  BY <1>t, <1>4 DEF OrphanEnds, Idem!ExpireOrphan, requestVars, Conns, Locks, Counters, Rest
<1>5. ASSUME NEW k \in CacheKeys, LeaseEnds(k)
      PROVE  (Conns /\ Locks /\ Counters /\ Rest)'
  <2>1. Locks' /\ Counters'
    BY <1>t, <1>5 DEF LeaseEnds, Idem!ExpireLock, Locks, Counters
  <2> QED BY <1>t, <1>5, <2>1, FaultType DEF LeaseEnds, Conns, Rest
<1>6. ASSUME NEW k \in CacheKeys, ResponseEnds(k)
      PROVE  (Conns /\ Locks /\ Counters /\ Rest)'
  <2>1. Locks' /\ excuses' \in [CacheKeys -> Nat]
    BY <1>t, <1>6, ExcuseType DEF ResponseEnds, Idem!ExpireResponse, Locks
  <2> QED BY <1>t, <1>6, <2>1, FaultType DEF ResponseEnds, Conns, Counters, Rest
<1> QED BY <1>1, <1>2, <1>3, <1>4, <1>5, <1>6

LEMMA ReqNext == ReqInv /\ [Next]_vars => ReqInv'
<1> SUFFICES ASSUME ReqInv, [Next]_vars PROVE ReqInv'
  OBVIOUS
<1>1. MembershipTypeOK'
  BY RequestsAreStatements, StatementKeepsOwner DEF ReqInv, TypeOK
<1>2. (Conns /\ Locks /\ Counters /\ Rest)'
  <2>1. CASE UNCHANGED vars
    BY <2>1, TypeParts DEF vars, storeVars, requestVars, Conns, Locks, Counters, Rest
  <2>2. CASE Next
    BY <2>2, MiddlewareTypes, HandlerTypes, OtherTypes DEF Next, Respond
  <2> QED BY <2>1, <2>2
<1>3. (ReqInv <=> MembershipTypeOK /\ Conns /\ Locks /\ Counters /\ Rest)'
  BY TypeParts, PTL
<1> QED BY <1>1, <1>2, <1>3

LEMMA ReqInit == Init => ReqInv
<1> SUFFICES ASSUME Init PROVE ReqInv
  OBVIOUS
<1>1. Conns
  BY ClosedIsIdle DEF Init, Conns, Connection, Formed
<1>2. Locks /\ Counters
  BY DEF Init, Idem!IdempotencyInit, Locks, Counters
<1>3. MembershipTypeOK
  BY DEF Init, MembershipTypeOK, GlobalRoles, WorkspaceRoles
<1>4. Rest
  BY RequestsAssumption DEF Init, Rest, Boot, RequestsAssumption
<1> QED BY <1>1, <1>2, <1>3, <1>4, TypeParts

LEMMA RequestsAreGood == Spec => []ReqInv
BY ReqInit, ReqNext, PTL DEF Spec

\* What the requests and server starts do to users, workspaces and members is
\* what the statements of the store do.
THEOREM RequestsImplementMembership == Spec => MembershipSpec
<1>1. Init => MembershipTypeOK
  BY ReqInit DEF ReqInv, TypeOK
<1> QED BY <1>1, RequestsAreGood, RequestsAreStatements, PTL DEF Spec, MembershipSpec

\* A workspace that has an owner keeps one, for any users, calls and servers
\* (iam/service.go:24).
THEOREM WorkspaceKeepsOwner == Spec => OwnerKept
BY RequestsImplementMembership, StatementsKeepOwner, PTL

\* Roles, locks, connections and bounds have their types.
THEOREM RequestsTypeSafe == Spec => []TypeOK
BY RequestsAreGood, PTL DEF ReqInv
-----------------------------------------------------------------------------
(* The locks *)

Within == Steps \ {"admitted", "mutex"}

\* Connection g is a request under the cache key k.
Mine(g, k) == g \in Open /\ g.call.keyed /\ CacheKeyOf(g.call) = k

\* The lock of a key is held by a request of that key inside the section.
HeldInside(l, q) ==
    \A k \in CacheKeys, r \in Requests :
        l[k] = r => Mine(q[r], k) /\ q[r].at \in Within

\* A request inside the section holds the lock, unless the lock ran out once.
InsideHolds(l, q, n) ==
    \A k \in CacheKeys, r \in Requests :
        Mine(q[r], k) /\ q[r].at \in Within /\ n[k] = 0 => l[k] = r

\* Requests that can still change something: those in the handler, and those
\* that lost their lock before they looked for a cached response.
CanAct == {"handling", "authorised"}
Busy == {"handling", "authorised", "written", "succeeded"}

Free(l, q, k) ==
    {r \in Requests : Mine(q[r], k) /\ (q[r].at \in CanAct \/ (q[r].at = "locked" /\ l[k] # r))}

\* One more request can enter the handler: nothing is cached, and the request
\* that holds the lock, if there is one, has not got there or has failed.
Chance(l, q, c, k) ==
    IF k \in c \/ \E r \in Requests : l[k] = r /\ q[r].at \in Busy THEN 0 ELSE 1

\* Every change made, every one that can still be made: an answer was lost for
\* each but one.
Balanced(l, q, c, k, e, x, n) ==
    e[k] + Cardinality(Free(l, q, k)) + Chance(l, q, c, k) <= 1 + x[k] + n[k]

KeysInv ==
    /\ HeldInside(lock, req)
    /\ InsideHolds(lock, req, lapses)
    /\ \A k \in CacheKeys : Balanced(lock, req, cached, k, effects, excuses, lapses)

LEMMA FreeIsFinite ==
    ASSUME NEW l, NEW q, NEW k
    PROVE  IsFiniteSet(Free(l, q, k)) /\ Cardinality(Free(l, q, k)) \in Nat
<1>1. Free(l, q, k) \in SUBSET Requests
  BY DEF Free
<1>2. IsFiniteSet(Free(l, q, k))
  BY <1>1, FS_Subset, RequestsAssumption DEF RequestsAssumption
<1> QED BY <1>2, FS_CardinalityType

LEMMA ChanceIs01 == \A l, q, c, k : Chance(l, q, c, k) \in {0, 1}
BY DEF Chance

\* Two sets of requests that differ in r at most.
LEMMA OneApart ==
    ASSUME NEW S, NEW T, NEW r, IsFiniteSet(S), IsFiniteSet(T), S \ {r} = T \ {r}
    PROVE  /\ Cardinality(S) \in Nat /\ Cardinality(T) \in Nat
           /\ Cardinality(T) + (IF r \in S THEN 1 ELSE 0) = Cardinality(S) + (IF r \in T THEN 1 ELSE 0)
<1>1. Cardinality(S) \in Nat /\ Cardinality(T) \in Nat
  BY FS_CardinalityType
<1>2. Cardinality(S \ {r}) = IF r \in S THEN Cardinality(S) - 1 ELSE Cardinality(S)
  BY FS_RemoveElement
<1>3. Cardinality(T \ {r}) = IF r \in T THEN Cardinality(T) - 1 ELSE Cardinality(T)
  BY FS_RemoveElement
<1> QED BY <1>1, <1>2, <1>3

\* Connection r goes on or ends, and keeps, gives up or leaves behind the lock of
\* its key.
Acts(r, c) ==
    /\ req' = [req EXCEPT ![r] = c]
    /\ req[r] \in Open /\ (c = Closed \/ (c \in Open /\ c.call = req[r].call))
    /\ lapses' = lapses
    /\ \A k \in CacheKeys :
          lock'[k] = lock[k] \/ (lock[k] = r /\ lock'[k] \in {None, Orphan})

LEMMA ElsewhereSame ==
    ASSUME ReqInv, KeysInv, NEW r \in Requests, NEW c, Acts(r, c),
           NEW k \in CacheKeys, ~Mine(req[r], k), k \in cached' <=> k \in cached
    PROVE  /\ Free(lock', req', k) = Free(lock, req, k)
           /\ Chance(lock', req', cached', k) = Chance(lock, req, cached, k)
<1>1. lock[k] # r
  BY DEF KeysInv, HeldInside
<1>2. lock'[k] = lock[k]
  BY <1>1 DEF Acts
<1>3. req' \in [Requests -> {c} \cup Connection] /\ req'[r] = c
      /\ \A q \in Requests : q # r => req'[q] = req[q]
  BY DEF Acts, ReqInv, TypeOK
<1>4. ~Mine(c, k)
  BY ClosedIsIdle DEF Acts, Mine
<1>5. Free(lock', req', k) = Free(lock, req, k)
  BY <1>2, <1>3, <1>4 DEF Free
<1>6. (\E q \in Requests : lock'[k] = q /\ req'[q].at \in Busy)
         <=> (\E q \in Requests : lock[k] = q /\ req[q].at \in Busy)
  BY <1>1, <1>2, <1>3
<1> QED BY <1>5, <1>6 DEF Chance

LEMMA HereApart ==
    ASSUME ReqInv, KeysInv, NEW r \in Requests, NEW c, Acts(r, c), NEW k \in CacheKeys
    PROVE  /\ Cardinality(Free(lock, req, k)) \in Nat /\ Cardinality(Free(lock', req', k)) \in Nat
           /\ Cardinality(Free(lock', req', k)) + (IF r \in Free(lock, req, k) THEN 1 ELSE 0)
                = Cardinality(Free(lock, req, k)) + (IF r \in Free(lock', req', k) THEN 1 ELSE 0)
<1>1. None \notin Requests /\ Orphan \notin Requests
  BY RequestsAssumption DEF RequestsAssumption
<1>2. \A q \in Requests : q # r => req'[q] = req[q] /\ (lock'[k] # q <=> lock[k] # q)
  BY <1>1 DEF Acts, ReqInv, TypeOK
<1>3. Free(lock, req, k) \ {r} = Free(lock', req', k) \ {r}
  BY <1>2 DEF Free
<1> QED BY <1>3, FreeIsFinite, OneApart

\* The locks agree with the section after such a step.
LEMMA ActsKeepLocks ==
    ASSUME ReqInv, KeysInv, NEW r \in Requests, NEW c, Acts(r, c),
           \/ c = Closed /\ \A k \in CacheKeys : lock'[k] # r
           \/ c.at \in Within /\ req[r].at \in Within /\ lock' = lock
    PROVE  HeldInside(lock', req') /\ InsideHolds(lock', req', lapses')
<1>1. None \notin Requests /\ Orphan \notin Requests
  BY RequestsAssumption DEF RequestsAssumption
<1>2. req'[r] = c /\ \A q \in Requests : q # r => req'[q] = req[q]
  BY DEF Acts, ReqInv, TypeOK
<1>3. \A q \in Requests, k \in CacheKeys : q # r => (lock'[k] = q <=> lock[k] = q)
  BY <1>1 DEF Acts
<1>4. CASE c = Closed /\ \A k \in CacheKeys : lock'[k] # r
  <2>1. \A k : ~Mine(c, k)
    BY <1>4, ClosedIsIdle DEF Mine
  <2> QED BY <1>2, <1>3, <1>4, <2>1 DEF Acts, KeysInv, HeldInside, InsideHolds
<1>5. CASE c.at \in Within /\ req[r].at \in Within /\ lock' = lock
  <2>1. c \in Open /\ c.call = req[r].call /\ req[r] \in Open
    BY <1>5, ClosedIsIdle DEF Acts, Within
  <2>2. \A k \in CacheKeys : Mine(c, k) <=> Mine(req[r], k)
    BY <2>1 DEF Mine
  <2> QED BY <1>2, <1>5, <2>2 DEF Acts, KeysInv, HeldInside, InsideHolds
<1> QED BY <1>4, <1>5
\* The chance under the key of r depends on r only if r holds its lock.
LEMMA ChanceHere ==
    ASSUME ReqInv, KeysInv, NEW r \in Requests, NEW c, Acts(r, c), NEW k \in CacheKeys
    PROVE  /\ lock[k] # r /\ (k \in cached' <=> k \in cached)
                => Chance(lock', req', cached', k) = Chance(lock, req, cached, k)
           /\ lock[k] = r
                => Chance(lock, req, cached, k) = IF k \in cached \/ req[r].at \in Busy THEN 0 ELSE 1
           /\ lock'[k] = r
                => Chance(lock', req', cached', k) = IF k \in cached' \/ c.at \in Busy THEN 0 ELSE 1
           /\ lock[k] = r /\ lock'[k] # r
                => Chance(lock', req', cached', k) = IF k \in cached' THEN 0 ELSE 1
<1>1. None \notin Requests /\ Orphan \notin Requests
  BY RequestsAssumption DEF RequestsAssumption
<1>2. req'[r] = c /\ \A q \in Requests : q # r => req'[q] = req[q]
  BY DEF Acts, ReqInv, TypeOK
<1>3. lock'[k] = lock[k] \/ (lock[k] = r /\ lock'[k] \in {None, Orphan})
  BY DEF Acts
<1> QED BY <1>1, <1>2, <1>3 DEF Chance

LEMMA FreeHere ==
    ASSUME ReqInv, NEW r \in Requests, NEW c, Acts(r, c), NEW k \in CacheKeys, Mine(req[r], k)
    PROVE  /\ r \in Free(lock, req, k)
                <=> req[r].at \in CanAct \/ (req[r].at = "locked" /\ lock[k] # r)
           /\ r \in Free(lock', req', k)
                <=> c \in Open /\ (c.at \in CanAct \/ (c.at = "locked" /\ lock'[k] # r))
<1>1. req'[r] = c
  BY DEF Acts, ReqInv, TypeOK
<1>2. c \in Open => Mine(c, k)
  BY ClosedIsIdle DEF Acts, Mine
<1> QED BY <1>1, <1>2 DEF Free, Mine

\* Counters under other keys stay.
Only(r, k) == ~Mine(req[r], k) => effects'[k] = effects[k] /\ excuses'[k] = excuses[k]

LEMMA CountersNat ==
    ASSUME ReqInv, NEW k \in CacheKeys
    PROVE  effects[k] \in Nat /\ excuses[k] \in Nat /\ lapses[k] \in Nat
BY DEF ReqInv, Counters

LEMMA ElsewhereBalanced ==
    ASSUME ReqInv, KeysInv, NEW r \in Requests, NEW c, Acts(r, c), NEW k \in CacheKeys,
           ~Mine(req[r], k), k \in cached' <=> k \in cached, Only(r, k)
    PROVE  Balanced(lock', req', cached', k, effects', excuses', lapses')
<1>1. Balanced(lock, req, cached, k, effects, excuses, lapses)
  BY DEF KeysInv
<1>2. lapses' = lapses /\ effects'[k] = effects[k] /\ excuses'[k] = excuses[k]
  BY DEF Acts, Only
<1> QED BY <1>1, <1>2, ElsewhereSame DEF Balanced

\* The arithmetic of a step: the requests that can act, the chance, the changes
\* and the lost answers before and after.
LEMMA Sums ==
    ASSUME NEW f \in Nat, NEW f2 \in Nat, NEW h \in {0, 1}, NEW h2 \in {0, 1}, NEW e \in Nat,
           NEW x \in Nat, NEW n \in Nat, NEW e2 \in Nat, NEW x2 \in Nat,
           e + f + h <= 1 + x + n,
           e2 + f2 + h2 + x <= e + f + h + x2
    PROVE  e2 + f2 + h2 <= 1 + x2 + n
OBVIOUS

LEMMA HereBalanced ==
    ASSUME ReqInv, KeysInv, NEW r \in Requests, NEW c, Acts(r, c), NEW k \in CacheKeys,
           effects'[k] \in Nat, excuses'[k] \in Nat,
           effects'[k] + Cardinality(Free(lock', req', k)) + Chance(lock', req', cached', k) + excuses[k]
             <= effects[k] + Cardinality(Free(lock, req, k)) + Chance(lock, req, cached, k) + excuses'[k]
    PROVE  Balanced(lock', req', cached', k, effects', excuses', lapses')
<1>1. Balanced(lock, req, cached, k, effects, excuses, lapses)
  BY DEF KeysInv
<1>2. lapses' = lapses
  BY DEF Acts
<1>3. Cardinality(Free(lock, req, k)) \in Nat /\ Cardinality(Free(lock', req', k)) \in Nat
  BY HereApart
<1>4. Chance(lock, req, cached, k) \in {0, 1} /\ Chance(lock', req', cached', k) \in {0, 1}
  BY ChanceIs01
<1>5. PICK f, f2, h, h2, e, x, n, e2, x2 :
          /\ f = Cardinality(Free(lock, req, k)) /\ f2 = Cardinality(Free(lock', req', k))
          /\ h = Chance(lock, req, cached, k) /\ h2 = Chance(lock', req', cached', k)
          /\ e = effects[k] /\ x = excuses[k] /\ n = lapses[k]
          /\ e2 = effects'[k] /\ x2 = excuses'[k]
  OBVIOUS
<1>6. e2 + f2 + h2 <= 1 + x2 + n
  BY <1>1, <1>3, <1>4, <1>5, CountersNat, Sums DEF Balanced
<1> QED BY <1>2, <1>5, <1>6 DEF Balanced

\* The steps inside the section: entering the handler, changing something,
\* being refused, answering an error after the change, and coming to the
\* release without a handler, after a refusal or without storing the response.
Inner(g, c, k, de, dx) ==
    \/ g.at = "locked" /\ c.at = "handling" /\ de = 0 /\ dx = 0 /\ k \notin cached
    \/ g.at \in CanAct /\ c.at \in {"written", "succeeded"} /\ de = 1 /\ dx = 0
    \/ g.at \in CanAct /\ c.at \in CanAct \cup {"failed"} /\ de = 0 /\ dx = 0
    \/ g.at = "written" /\ c.at = "succeeded" /\ de = 0 /\ dx = 0
    \/ g.at = "written" /\ c.at = "failed" /\ de = 0 /\ dx = 1
    \/ g.at \in {"locked", "failed"} /\ c.at = "releasing" /\ de = 0 /\ dx = 0
    \/ g.at = "succeeded" /\ c.at = "releasing" /\ de = 0 /\ dx = 1

LEMMA InnerBalanced ==
    ASSUME ReqInv, KeysInv, NEW r \in Requests, NEW c, Acts(r, c), NEW k \in CacheKeys,
           c \in Open, UNCHANGED <<lock, cached>>, Mine(req[r], k),
           NEW de \in {0, 1}, NEW dx \in {0, 1}, Inner(req[r], c, k, de, dx),
           effects'[k] = effects[k] + de, excuses'[k] = excuses[k] + dx
    PROVE  Balanced(lock', req', cached', k, effects', excuses', lapses')
<1>1. PICK f, f2, h, h2 :
          /\ f = Cardinality(Free(lock, req, k)) /\ f2 = Cardinality(Free(lock', req', k))
          /\ h = Chance(lock, req, cached, k) /\ h2 = Chance(lock', req', cached', k)
  OBVIOUS
<1>2. PICK i \in {0, 1}, j \in {0, 1} :
          /\ i = IF r \in Free(lock, req, k) THEN 1 ELSE 0
          /\ j = IF r \in Free(lock', req', k) THEN 1 ELSE 0
  OBVIOUS
<1>3. f \in Nat /\ f2 \in Nat /\ f2 + i = f + j
  BY <1>1, <1>2, HereApart
<1>4. h \in {0, 1} /\ h2 \in {0, 1}
  BY <1>1, ChanceIs01
<1>5. de + j + h2 <= i + h + dx
  <2>1. CASE lock[k] # r
    <3>1. h2 = h
      BY <1>1, <2>1, ChanceHere
    <3>2. i = IF req[r].at \in CanAct \cup {"locked"} THEN 1 ELSE 0
      BY <1>2, <2>1, FreeHere
    <3>3. j = IF c.at \in CanAct \cup {"locked"} THEN 1 ELSE 0
      BY <1>2, <2>1, FreeHere
    <3> QED BY <1>4, <3>1, <3>2, <3>3 DEF Inner, CanAct
  <2>2. CASE lock[k] = r
    <3>1. /\ h = IF k \in cached \/ req[r].at \in Busy THEN 0 ELSE 1
          /\ h2 = IF k \in cached \/ c.at \in Busy THEN 0 ELSE 1
      BY <1>1, <2>2, ChanceHere
    <3>2. i = IF req[r].at \in CanAct THEN 1 ELSE 0
      BY <1>2, <2>2, FreeHere
    <3>3. j = IF c.at \in CanAct THEN 1 ELSE 0
      BY <1>2, <2>2, FreeHere
    <3> QED BY <3>1, <3>2, <3>3 DEF Inner, CanAct, Busy
  <2> QED BY <2>1, <2>2
<1>6. PICK e \in Nat, x \in Nat : e = effects[k] /\ x = excuses[k]
  BY CountersNat
<1>7. (e + de) + f2 + h2 + x <= e + f + h + (x + dx)
  BY <1>3, <1>4, <1>5
<1> QED BY <1>1, <1>6, <1>7, HereBalanced

\* The response is stored: nobody else gets into the handler.
LEMMA StoreBalanced ==
    ASSUME ReqInv, KeysInv, NEW r \in Requests, NEW c, Acts(r, c), NEW k \in CacheKeys,
           Mine(req[r], k), req[r].at = "succeeded", c.at = "releasing", k \in cached',
           effects'[k] = effects[k], excuses'[k] = excuses[k]
    PROVE  Balanced(lock', req', cached', k, effects', excuses', lapses')
<1>1. PICK f, f2, h, h2 :
          /\ f = Cardinality(Free(lock, req, k)) /\ f2 = Cardinality(Free(lock', req', k))
          /\ h = Chance(lock, req, cached, k) /\ h2 = Chance(lock', req', cached', k)
  OBVIOUS
<1>2. r \notin Free(lock, req, k) /\ r \notin Free(lock', req', k)
  BY FreeHere DEF CanAct
<1>3. f \in Nat /\ f2 \in Nat /\ f2 = f
  BY <1>1, <1>2, HereApart
<1>4. h \in {0, 1} /\ h2 = 0
  BY <1>1, ChanceIs01 DEF Chance
<1>5. PICK e \in Nat, x \in Nat : e = effects[k] /\ x = excuses[k]
  BY CountersNat
<1>6. e + f2 + h2 + x <= e + f + h + x
  BY <1>3, <1>4
<1> QED BY <1>1, <1>5, <1>6, HereBalanced

\* The end of a request that has its key.
LEMMA EndBalanced ==
    ASSUME ReqInv, KeysInv, NEW r \in Requests, Acts(r, Closed), NEW k \in CacheKeys,
           Mine(req[r], k), lock'[k] # r, req[r].at \notin Busy,
           k \in cached' <=> k \in cached,
           effects'[k] = effects[k], excuses'[k] = excuses[k]
    PROVE  Balanced(lock', req', cached', k, effects', excuses', lapses')
<1>1. PICK f, f2, h, h2 :
          /\ f = Cardinality(Free(lock, req, k)) /\ f2 = Cardinality(Free(lock', req', k))
          /\ h = Chance(lock, req, cached, k) /\ h2 = Chance(lock', req', cached', k)
  OBVIOUS
<1>2. PICK i \in {0, 1} : i = IF r \in Free(lock, req, k) THEN 1 ELSE 0
  OBVIOUS
<1>3. r \notin Free(lock', req', k)
  BY FreeHere, ClosedIsIdle
<1>4. f \in Nat /\ f2 \in Nat /\ f2 + i = f
  BY <1>1, <1>2, <1>3, HereApart
<1>5. h \in {0, 1} /\ h2 \in {0, 1}
  BY <1>1, ChanceIs01
<1>6. h2 = h
  BY <1>1, ChanceHere
<1>7. PICK e \in Nat, x \in Nat : e = effects[k] /\ x = excuses[k]
  BY CountersNat
<1>8. e + f2 + h2 + x <= e + f + h + x
  BY <1>4, <1>5, <1>6
<1> QED BY <1>1, <1>7, <1>8, HereBalanced
-----------------------------------------------------------------------------
(* The steps *)

\* A step inside the section by a request that has a key, or has none.
LEMMA InnerKeeps ==
    ASSUME ReqInv, KeysInv, NEW r \in Requests, req[r].at \in Within,
           NEW c \in Open, Turns(r, c), c.call = req[r].call, c.at \in Within,
           UNCHANGED storeVars, NEW de \in {0, 1}, NEW dx \in {0, 1},
           Inner(req[r], c, Key(r), de, dx),
           effects' = IF Keyed(r) THEN [effects EXCEPT ![Key(r)] = @ + de] ELSE effects,
           excuses' = IF Keyed(r) THEN [excuses EXCEPT ![Key(r)] = @ + dx] ELSE excuses
    PROVE  KeysInv'
<1>1. req[r] \in Open /\ Key(r) \in CacheKeys
  BY IsOpen DEF Within
<1>2. Acts(r, c) /\ UNCHANGED <<lock, cached>>
  BY <1>1 DEF Acts, Turns, storeVars
<1>3. HeldInside(lock', req') /\ InsideHolds(lock', req', lapses')
  BY <1>2, ActsKeepLocks
<1>4. ASSUME NEW k \in CacheKeys
      PROVE  Balanced(lock', req', cached', k, effects', excuses', lapses')
  <2>1. CASE Mine(req[r], k)
    <3>1. k = Key(r) /\ Keyed(r)
      BY <2>1 DEF Mine, Key, Keyed
    <3>2. effects'[k] = effects[k] + de /\ excuses'[k] = excuses[k] + dx
      BY <3>1 DEF ReqInv, Counters
    <3> QED BY <1>2, <2>1, <3>1, <3>2, InnerBalanced
  <2>2. CASE ~Mine(req[r], k)
    <3>1. Keyed(r) => k # Key(r)
      BY <1>1, <2>2 DEF Mine, Key, Keyed
    <3>2. Only(r, k)
      BY <3>1 DEF Only, ReqInv, Counters
    <3> QED BY <1>2, <2>2, <3>2, ElsewhereBalanced
  <2> QED BY <2>1, <2>2
<1> QED BY <1>3, <1>4 DEF KeysInv

LEMMA NoChange ==
    ASSUME ReqInv, NEW k
    PROVE  /\ k \in CacheKeys => effects = [effects EXCEPT ![k] = @ + 0]
           /\ k \in CacheKeys => excuses = [excuses EXCEPT ![k] = @ + 0]
BY DEF ReqInv, Counters

LEMMA HandlerKeeps ==
    ASSUME ReqInv, KeysInv, NEW r \in Requests, Handler(r)
    PROVE  KeysInv'
<1>1. req[r].at \in {"handling", "authorised", "written"}
  BY DEF Handler, Register, CreateWorkspaceForUser, Authorise, PutMember, ReadMember,
         DeleteMember, Decide, Handling, At
<1>2. req[r].at \in Steps /\ req[r].at \in Within
  BY <1>1 DEF Steps, Within
<1>3. Key(r) \in CacheKeys
  BY <1>2, IsOpen
<1>4. UNCHANGED storeVars
  BY DEF Handler, Register, CreateWorkspaceForUser, Authorise, PutMember, ReadMember,
         DeleteMember, Decide
<1>5. effects = [effects EXCEPT ![Key(r)] = @ + 0] /\ excuses = [excuses EXCEPT ![Key(r)] = @ + 0]
  BY <1>3, NoChange
<1>6. ASSUME req[r].at \in CanAct, NEW step \in {"written", "succeeded"}, Goto(r, step),
             Effect(r), UNCHANGED excuses
      PROVE  KeysInv'
  <2>1. PICK c \in Open : Turns(r, c) /\ c.at = step /\ c.call = req[r].call
    BY <1>2, <1>6, GotoTurns DEF Steps
  <2>2. c.at \in Within /\ Inner(req[r], c, Key(r), 1, 0)
    BY <1>6, <2>1 DEF Within, Steps, Inner
  <2>3. effects' = IF Keyed(r) THEN [effects EXCEPT ![Key(r)] = @ + 1] ELSE effects
    BY <1>6 DEF Effect
  <2>4. excuses' = IF Keyed(r) THEN [excuses EXCEPT ![Key(r)] = @ + 0] ELSE excuses
    BY <1>5, <1>6
  <2> QED BY <1>2, <1>4, <2>1, <2>2, <2>3, <2>4, InnerKeeps
<1>7. ASSUME NEW c \in Open, Turns(r, c), c.call = req[r].call, UNCHANGED <<effects, excuses>>,
             \/ req[r].at \in CanAct /\ c.at \in CanAct \cup {"failed"}
             \/ req[r].at = "written" /\ c.at = "succeeded"
      PROVE  KeysInv'
  <2>1. c.at \in Within /\ Inner(req[r], c, Key(r), 0, 0)
    BY <1>7 DEF Within, Steps, Inner, CanAct
  <2>2. /\ effects' = IF Keyed(r) THEN [effects EXCEPT ![Key(r)] = @ + 0] ELSE effects
        /\ excuses' = IF Keyed(r) THEN [excuses EXCEPT ![Key(r)] = @ + 0] ELSE excuses
    BY <1>5, <1>7
  <2> QED BY <1>2, <1>4, <1>7, <2>1, <2>2, InnerKeeps
<1>8. ASSUME req[r].at \in CanAct, Goto(r, "failed"), UNCHANGED <<effects, excuses>>
      PROVE  KeysInv'
  <2>1. PICK c \in Open : Turns(r, c) /\ c.at = "failed" /\ c.call = req[r].call
    BY <1>2, <1>8, GotoTurns DEF Steps
  <2> QED BY <1>7, <1>8, <2>1
<1>9. CASE Register(r)
  BY <1>6, <1>8, <1>9 DEF Register, Handling, At, CanAct
<1>10. CASE \E ws \in Workspaces : CreateWorkspaceForUser(r, ws)
  BY <1>6, <1>10 DEF CreateWorkspaceForUser, Handling, At, CanAct
<1>11. CASE Authorise(r)
  <2>1. PICK c \in Open : /\ Turns(r, c) /\ c.at \in {"authorised", "failed"}
                          /\ c.call = req[r].call
    BY <1>11, AuthoriseTurns
  <2> QED BY <1>7, <1>11, <2>1 DEF Authorise, At, CanAct
<1>12. CASE PutMember(r)
  BY <1>6, <1>8, <1>12 DEF PutMember, At, CanAct
<1>13. CASE DeleteMember(r)
  BY <1>6, <1>8, <1>13 DEF DeleteMember, At, CanAct
<1>14. CASE Decide(r)
  BY <1>6, <1>8, <1>14 DEF Decide, Handling, At, CanAct
<1>15. CASE ReadMember(r)
  <2>0. req[r].at = "written" /\ UNCHANGED effects
    BY <1>15 DEF ReadMember, At
  <2>1. CASE Goto(r, "succeeded") /\ UNCHANGED excuses
    <3>1. PICK c \in Open : Turns(r, c) /\ c.at = "succeeded" /\ c.call = req[r].call
      BY <1>2, <2>1, GotoTurns DEF Steps
    <3> QED BY <1>7, <2>0, <2>1, <3>1
  <2>2. CASE Goto(r, "failed") /\ IF Keyed(r) THEN Excuse(Key(r)) ELSE UNCHANGED excuses
    <3>1. PICK c \in Open : Turns(r, c) /\ c.at = "failed" /\ c.call = req[r].call
      BY <1>2, <2>2, GotoTurns DEF Steps
    <3>2. c.at \in Within /\ Inner(req[r], c, Key(r), 0, 1)
      BY <2>0, <3>1 DEF Within, Steps, Inner
    <3>3. effects' = IF Keyed(r) THEN [effects EXCEPT ![Key(r)] = @ + 0] ELSE effects
      BY <1>5, <2>0
    <3>4. excuses' = IF Keyed(r) THEN [excuses EXCEPT ![Key(r)] = @ + 1] ELSE excuses
      BY <2>2 DEF Excuse
    <3> QED BY <1>2, <1>4, <3>1, <3>2, <3>3, <3>4, InnerKeeps
  <2> QED BY <1>15, <2>1, <2>2 DEF ReadMember
<1> QED BY <1>9, <1>10, <1>11, <1>12, <1>13, <1>14, <1>15 DEF Handler

\* A request that ends, with the locks it gives up or leaves behind.
LEMMA EndKeeps ==
    ASSUME ReqInv, KeysInv, NEW r \in Requests, req[r].at \in Steps \ Busy, Hangup(r),
           Idem!Unlock(req[r].server, Key(r), r) \/ Idem!UnlockFails(req[r].server, Key(r), r),
           UNCHANGED <<cached, lapses, effects, excuses>>
    PROVE  KeysInv'
<1>1. req[r] \in Open /\ Key(r) \in CacheKeys
  BY IsOpen
<1>n. None \notin Requests /\ Orphan \notin Requests
  BY RequestsAssumption DEF RequestsAssumption
<1>l. lock \in [CacheKeys -> Requests \cup {None, Orphan}]
  BY DEF ReqInv, TypeOK
<1>2. \A k \in CacheKeys : lock[k] = r => k = Key(r) /\ Keyed(r)
  BY DEF KeysInv, HeldInside, Mine, Key, Keyed
<1>3. \A k \in CacheKeys :
          /\ lock'[k] = lock[k] \/ (lock[k] = r /\ lock'[k] \in {None, Orphan})
          /\ lock'[k] # r
  BY <1>1, <1>2, <1>l, <1>n DEF Idem!Unlock, Idem!UnlockFails
<1>4. Acts(r, Closed)
  BY <1>1, <1>3 DEF Acts, Hangup
<1>5. HeldInside(lock', req') /\ InsideHolds(lock', req', lapses')
  BY <1>3, <1>4, ActsKeepLocks
<1>6. ASSUME NEW k \in CacheKeys
      PROVE  Balanced(lock', req', cached', k, effects', excuses', lapses')
  <2>1. CASE Mine(req[r], k)
    BY <1>3, <1>4, <2>1, EndBalanced
  <2>2. CASE ~Mine(req[r], k)
    BY <1>4, <2>2, ElsewhereBalanced DEF Only
  <2> QED BY <2>1, <2>2
<1> QED BY <1>5, <1>6 DEF KeysInv

\* A request without a key that has been answered.
LEMMA UnkeyedEndKeeps ==
    ASSUME ReqInv, KeysInv, NEW r \in Requests, req[r].at \in Steps, Hangup(r), ~Keyed(r),
           UNCHANGED <<lock, cached, lapses, effects, excuses>>
    PROVE  KeysInv'
<1>1. req[r] \in Open /\ \A k : ~Mine(req[r], k)
  BY IsOpen DEF Mine, Keyed
<1>2. Acts(r, Closed) /\ \A k \in CacheKeys : lock'[k] # r
  BY <1>1 DEF Acts, Hangup, KeysInv, HeldInside
<1>3. HeldInside(lock', req') /\ InsideHolds(lock', req', lapses')
  BY <1>2, ActsKeepLocks
<1>4. ASSUME NEW k \in CacheKeys
      PROVE  Balanced(lock', req', cached', k, effects', excuses', lapses')
  BY <1>1, <1>2, ElsewhereBalanced DEF Only
<1> QED BY <1>3, <1>4 DEF KeysInv

LEMMA RememberKeeps ==
    ASSUME ReqInv, KeysInv, NEW r \in Requests, Remember(r), Keyed(r)
    PROVE  KeysInv'
<1>1. req[r].at = "succeeded" /\ req[r].at \in Steps /\ Goto(r, "releasing")
      /\ cached' = cached \cup {Key(r)} /\ UNCHANGED <<lock, lapses, effects, excuses>>
  BY DEF Remember, At, Steps, Idem!Store
<1>2. req[r] \in Open
  BY <1>1, IsOpen
<1>3. PICK c \in Open : Turns(r, c) /\ c.at = "releasing" /\ c.call = req[r].call
  BY <1>1, GotoTurns DEF Steps
<1>4. Acts(r, c)
  BY <1>1, <1>2, <1>3 DEF Acts, Turns
<1>5. HeldInside(lock', req') /\ InsideHolds(lock', req', lapses')
  BY <1>1, <1>3, <1>4, ActsKeepLocks DEF Within, Steps
<1>6. ASSUME NEW k \in CacheKeys
      PROVE  Balanced(lock', req', cached', k, effects', excuses', lapses')
  <2>1. CASE Mine(req[r], k)
    <3>1. k \in cached'
      BY <1>1, <2>1 DEF Mine, Key
    <3> QED BY <1>1, <1>3, <1>4, <2>1, <3>1, StoreBalanced
  <2>2. CASE ~Mine(req[r], k)
    <3>1. k \in cached' <=> k \in cached
      BY <1>1, <1>2, <2>2 DEF Mine, Key, Keyed
    <3> QED BY <1>1, <1>4, <2>2, <3>1, ElsewhereBalanced DEF Only
  <2> QED BY <2>1, <2>2
<1> QED BY <1>5, <1>6 DEF KeysInv

LEMMA EndsKeep ==
    ASSUME ReqInv, KeysInv, NEW r \in Requests,
           \/ Replay(r) \/ StoreUnavailable(r) \/ Remember(r) \/ RememberFails(r) \/ Fail(r)
           \/ Release(r) \/ ReleaseFails(r)
    PROVE  KeysInv'
<1>1. req[r].at \in {"locked", "succeeded", "failed", "releasing"} /\ UNCHANGED <<lapses, effects>>
  BY DEF Replay, StoreUnavailable, Remember, RememberFails, Fail, Release, ReleaseFails, At,
         storeVars
<1>2. req[r].at \in Steps /\ req[r].at \in Within
  BY <1>1 DEF Steps, Within
<1>3. Key(r) \in CacheKeys
  BY <1>2, IsOpen
<1>4. effects = [effects EXCEPT ![Key(r)] = @ + 0] /\ excuses = [excuses EXCEPT ![Key(r)] = @ + 0]
  BY <1>3, NoChange
<1>5. req[r].at = "locked" => Keyed(r)
  BY <1>2, IsOpen DEF ReqInv, Formed, Keyed
<1>6. ASSUME Goto(r, "releasing"), Keyed(r), UNCHANGED storeVars, NEW dx \in {0, 1},
             IF req[r].at = "succeeded" THEN dx = 1 ELSE dx = 0, req[r].at # "releasing",
             excuses' = [excuses EXCEPT ![Key(r)] = @ + dx]
      PROVE  KeysInv'
  <2>1. PICK c \in Open : Turns(r, c) /\ c.at = "releasing" /\ c.call = req[r].call
    BY <1>2, <1>6, GotoTurns DEF Steps
  <2>2. c.at \in Within /\ Inner(req[r], c, Key(r), 0, dx)
    BY <1>1, <1>6, <2>1 DEF Within, Steps, Inner
  <2>3. /\ effects' = IF Keyed(r) THEN [effects EXCEPT ![Key(r)] = @ + 0] ELSE effects
        /\ excuses' = IF Keyed(r) THEN [excuses EXCEPT ![Key(r)] = @ + dx] ELSE excuses
    BY <1>1, <1>4, <1>6
  <2> QED BY <1>2, <1>6, <2>1, <2>2, <2>3, InnerKeeps
<1>7. CASE Replay(r) \/ StoreUnavailable(r)
  <2>1. req[r].at = "locked" /\ Goto(r, "releasing") /\ UNCHANGED <<storeVars, excuses>>
    BY <1>7 DEF Replay, StoreUnavailable, At
  <2> QED BY <1>4, <1>5, <1>6, <2>1
<1>8. CASE Remember(r)
  <2>1. CASE ~Keyed(r)
    <3>1. Hangup(r) /\ UNCHANGED <<lock, cached, excuses>>
      BY <1>8, <2>1 DEF Remember
    <3> QED BY <1>1, <1>2, <2>1, <3>1, UnkeyedEndKeeps
  <2> QED BY <1>8, <2>1, RememberKeeps
<1>9. CASE RememberFails(r)
  <2>1. /\ req[r].at = "succeeded" /\ Goto(r, "releasing") /\ Keyed(r) /\ UNCHANGED storeVars
        /\ excuses' = [excuses EXCEPT ![Key(r)] = @ + 1]
    BY <1>9 DEF RememberFails, At, Excuse
  <2> QED BY <1>6, <2>1
<1>10. CASE Fail(r)
  <2>1. req[r].at = "failed" /\ UNCHANGED <<storeVars, excuses>>
        /\ IF Keyed(r) THEN Goto(r, "releasing") ELSE Hangup(r)
    BY <1>10 DEF Fail, At
  <2>2. CASE Keyed(r)
    BY <1>4, <1>6, <2>1, <2>2
  <2>3. CASE ~Keyed(r)
    BY <1>1, <1>2, <2>1, <2>3, UnkeyedEndKeeps DEF storeVars
  <2> QED BY <2>2, <2>3
<1>11. CASE Release(r) \/ ReleaseFails(r)
  <2>1. /\ req[r].at = "releasing" /\ Hangup(r) /\ UNCHANGED <<cached, excuses>>
        /\ \/ Idem!Unlock(req[r].server, Key(r), r)
           \/ Idem!UnlockFails(req[r].server, Key(r), r)
    BY <1>11 DEF Release, ReleaseFails, At
  <2>2. req[r].at \in Steps \ Busy
    BY <1>2, <2>1 DEF Busy
  <2> QED BY <1>1, <2>1, <2>2, EndKeeps
<1> QED BY <1>7, <1>8, <1>9, <1>10, <1>11

LEMMA ProceedKeeps ==
    ASSUME ReqInv, KeysInv, NEW r \in Requests, Proceed(r)
    PROVE  KeysInv'
<1>1. req[r].at = "locked" /\ req[r].at \in Steps /\ req[r].at \in Within
  BY DEF Proceed, At, Steps, Within
<1>2. Key(r) \in CacheKeys
  BY <1>1, IsOpen
<1>3. effects = [effects EXCEPT ![Key(r)] = @ + 0] /\ excuses = [excuses EXCEPT ![Key(r)] = @ + 0]
  BY <1>2, NoChange
<1>4. PICK c \in Open : Turns(r, c) /\ c.at = "handling" /\ c.call = req[r].call
  BY <1>1, GotoTurns DEF Proceed, Steps
<1>5. c.at \in Within /\ Inner(req[r], c, Key(r), 0, 0)
  BY <1>1, <1>4 DEF Proceed, Within, Steps, Inner
<1>6. /\ effects' = IF Keyed(r) THEN [effects EXCEPT ![Key(r)] = @ + 0] ELSE effects
      /\ excuses' = IF Keyed(r) THEN [excuses EXCEPT ![Key(r)] = @ + 0] ELSE excuses
      /\ UNCHANGED storeVars
  BY <1>3 DEF Proceed
<1> QED BY <1>1, <1>4, <1>5, <1>6, InnerKeeps

\* A request outside the section, before and after; a lock may be set that no
\* request holds.
LEMMA OutsideKeeps ==
    ASSUME ReqInv, KeysInv, NEW r \in Requests, NEW c, req' = [req EXCEPT ![r] = c],
           req[r].at \notin Within, c.at \notin Within \/ ~c.call.keyed,
           \A k \in CacheKeys : lock'[k] = lock[k] \/ (lock[k] = None /\ lock'[k] = Orphan),
           UNCHANGED <<cached, lapses, effects, excuses>>
    PROVE  KeysInv'
<1>n. None \notin Requests /\ Orphan \notin Requests
  BY RequestsAssumption DEF RequestsAssumption
<1>o. \A k \in CacheKeys, q \in Requests : lock'[k] = q <=> lock[k] = q
  BY <1>n
<1>1. req'[r] = c /\ \A q \in Requests : q # r => req'[q] = req[q]
  BY DEF ReqInv, TypeOK
<1>2. \A k \in CacheKeys : lock[k] # r
  BY DEF KeysInv, HeldInside
<1>3. \A k \in CacheKeys : ~(Mine(c, k) /\ c.at \in Within)
  BY DEF Mine
<1>4. HeldInside(lock', req') /\ InsideHolds(lock', req', lapses')
  BY <1>o, <1>1, <1>2, <1>3 DEF KeysInv, HeldInside, InsideHolds
<1>5. CanAct \cup {"locked"} \subseteq Within
  BY DEF CanAct, Within, Steps
<1>6. ASSUME NEW k \in CacheKeys
      PROVE  Balanced(lock', req', cached', k, effects', excuses', lapses')
  <2>1. Free(lock', req', k) = Free(lock, req, k)
    BY <1>o, <1>1, <1>3, <1>5 DEF Free
  <2>2. Chance(lock', req', cached', k) = Chance(lock, req, cached, k)
    BY <1>o, <1>1, <1>2 DEF Chance
  <2> QED BY <2>1, <2>2 DEF KeysInv, Balanced
<1> QED BY <1>4, <1>6 DEF KeysInv

LEMMA EntryKeeps ==
    ASSUME ReqInv, KeysInv, NEW r \in Requests,
           \/ AcquireMutex(r) \/ LockUnavailable(r)
           \/ \E s \in Servers, c \in Calls : Arrive(r, s, c)
    PROVE  KeysInv'
<1>1. CASE AcquireMutex(r)
  <2>1. req[r].at = "admitted" /\ req[r].at \in Steps /\ Goto(r, "mutex")
    BY <1>1 DEF AcquireMutex, At, Steps
  <2>2. Keyed(r)
    BY <2>1, IsOpen DEF ReqInv, Formed, Keyed
  <2>3. PICK c \in Open : Turns(r, c) /\ c.at = "mutex"
    BY <2>1, <2>2, GotoTurns DEF Steps
  <2> QED BY <1>1, <2>1, <2>3, OutsideKeeps DEF AcquireMutex, Turns, Within
<1>2. ASSUME NEW s \in Servers, NEW c \in Calls, Arrive(r, s, c) PROVE KeysInv'
  <2>1. PICK g \in Open : /\ Turns(r, g) /\ g.call = c
                          /\ g.at = IF c.keyed THEN "admitted" ELSE "handling"
    BY <1>2, ArriveTurns
  <2>2. g.at \notin Within \/ ~g.call.keyed
    BY <2>1 DEF Within
  <2>3. req[r].at \notin Within
    BY <1>2, ClosedIsIdle DEF Arrive, Within
  <2> QED BY <1>2, <2>1, <2>2, <2>3, OutsideKeeps DEF Arrive, storeVars, Turns
<1>3. CASE LockUnavailable(r)
  <2>1. req[r].at = "mutex" /\ req[r].at \in Steps /\ req[r].at \notin Within /\ Closed.at \notin Within
    BY <1>3, ClosedIsIdle DEF LockUnavailable, At, Steps, Within
  <2>2. Key(r) \in CacheKeys
    BY <2>1, IsOpen
  <2>3. \A k \in CacheKeys : lock'[k] = lock[k] \/ (lock[k] = None /\ lock'[k] = Orphan)
    BY <1>3, <2>2 DEF LockUnavailable, Idem!LockUnanswered, ReqInv, TypeOK
  <2> QED BY <1>3, <2>1, <2>3, OutsideKeeps DEF LockUnavailable, Hangup
<1> QED BY <1>1, <1>2, <1>3

\* The request that takes the lock finds nobody inside whose lock did not run out.
LEMMA AcquireLockKeeps ==
    ASSUME ReqInv, KeysInv, NEW r \in Requests, AcquireLock(r)
    PROVE  KeysInv'
<1>1. req[r].at = "mutex" /\ req[r].at \in Steps /\ Goto(r, "locked") /\ Idem!Lock(Key(r), r)
  BY DEF AcquireLock, At, Steps
<1>2. Keyed(r) /\ req[r] \in Open /\ Key(r) \in CacheKeys
  BY <1>1, IsOpen DEF ReqInv, Formed, Keyed
<1>3. PICK c \in Open : Turns(r, c) /\ c.at = "locked" /\ c.call = req[r].call
  BY <1>1, <1>2, GotoTurns DEF Steps
<1>4. req'[r] = c /\ \A q \in Requests : q # r => req'[q] = req[q]
  BY <1>3 DEF Turns, ReqInv, TypeOK
<1>n. None \notin Requests /\ "locked" \in Within /\ "mutex" \notin Within
      /\ "locked" \notin Busy \cup CanAct /\ "mutex" \notin CanAct
  BY RequestsAssumption DEF RequestsAssumption, Within, Steps, Busy, CanAct
<1>5. /\ lock[Key(r)] = None /\ lock'[Key(r)] = r
      /\ \A k \in CacheKeys : k # Key(r) => lock'[k] = lock[k]
  BY <1>1, <1>2 DEF Idem!Lock, ReqInv, TypeOK
<1>6. UNCHANGED <<cached, lapses, effects, excuses>>
  BY DEF AcquireLock
<1>7. \A k \in CacheKeys : Mine(c, k) <=> k = Key(r)
  BY <1>2, <1>3 DEF Mine, Key, Keyed
<1>8. \A k \in CacheKeys : lock[k] # r
  BY <1>1, <1>n DEF KeysInv, HeldInside
<1>9. HeldInside(lock', req')
  BY <1>3, <1>4, <1>5, <1>7, <1>8, <1>n DEF KeysInv, HeldInside
<1>10. InsideHolds(lock', req', lapses')
  BY <1>4, <1>5, <1>6, <1>7, <1>n DEF KeysInv, InsideHolds
<1>11. ASSUME NEW k \in CacheKeys
       PROVE  Balanced(lock', req', cached', k, effects', excuses', lapses')
  <2>1. r \notin Free(lock', req', k) /\ r \notin Free(lock, req, k)
    BY <1>1, <1>3, <1>4, <1>5, <1>7, <1>n DEF Free
  <2>2. \A q \in Requests : q # r => (lock'[k] # q <=> lock[k] # q)
    BY <1>5, <1>n
  <2>3. Free(lock', req', k) = Free(lock, req, k)
    BY <1>4, <2>1, <2>2 DEF Free
  <2>4. (\E q \in Requests : lock'[k] = q /\ req'[q].at \in Busy)
          <=> (\E q \in Requests : lock[k] = q /\ req[q].at \in Busy)
    BY <1>3, <1>4, <1>5, <1>8, <1>n
  <2>5. Chance(lock', req', cached', k) = Chance(lock, req, cached, k)
    BY <1>6, <2>4 DEF Chance
  <2> QED BY <1>6, <2>3, <2>5 DEF KeysInv, Balanced
<1> QED BY <1>9, <1>10, <1>11 DEF KeysInv

\* A lock that runs out under its owner, or after its owner has died, and a
\* response that is dropped.
LEMMA ExpiryKeeps ==
    ASSUME ReqInv, KeysInv, NEW j \in CacheKeys,
           OrphanEnds(j) \/ LeaseEnds(j) \/ ResponseEnds(j)
    PROVE  KeysInv'
<1>n. None \notin Requests /\ Orphan \notin Requests
  BY RequestsAssumption DEF RequestsAssumption
<1>l. lock \in [CacheKeys -> Requests \cup {None, Orphan}]
  BY DEF ReqInv, TypeOK
<1>b. \A k \in CacheKeys : Balanced(lock, req, cached, k, effects, excuses, lapses)
  BY DEF KeysInv
<1>1. CASE OrphanEnds(j)
  <2>1. lock[j] = Orphan /\ lock' = [lock EXCEPT ![j] = None]
        /\ UNCHANGED <<req, cached, lapses, effects, excuses>>
    BY <1>1 DEF OrphanEnds, Idem!ExpireOrphan, requestVars
  <2>2. \A k \in CacheKeys, q \in Requests : lock'[k] = q <=> lock[k] = q
    BY <2>1, <1>l, <1>n
  <2>3. HeldInside(lock', req') /\ InsideHolds(lock', req', lapses')
    BY <2>1, <2>2 DEF KeysInv, HeldInside, InsideHolds
  <2>4. \A k \in CacheKeys : Free(lock', req', k) = Free(lock, req, k)
    BY <2>1, <2>2 DEF Free
  <2>5. \A k \in CacheKeys : Chance(lock', req', cached', k) = Chance(lock, req, cached, k)
    BY <2>1, <2>2 DEF Chance
  <2> QED BY <1>b, <2>1, <2>3, <2>4, <2>5 DEF KeysInv, Balanced
<1>2. CASE LeaseEnds(j)
  <2>1. PICK o \in Requests : o = lock[j]
    BY <1>2 DEF LeaseEnds, Idem!ExpireLock
  <2>2. /\ lock' = [lock EXCEPT ![j] = None] /\ lapses' = [lapses EXCEPT ![j] = @ + 1]
        /\ UNCHANGED <<req, cached, effects, excuses>>
    BY <1>2 DEF LeaseEnds, Idem!ExpireLock
  <2>3. /\ \A k \in CacheKeys : k # j => lock'[k] = lock[k] /\ lapses'[k] = lapses[k]
        /\ lock'[j] = None /\ lapses'[j] = lapses[j] + 1 /\ lapses[j] \in Nat
    BY <2>2, <1>l DEF ReqInv, Counters
  <2>4. HeldInside(lock', req') /\ InsideHolds(lock', req', lapses')
    BY <2>2, <2>3, <1>n DEF KeysInv, HeldInside, InsideHolds
  <2>5. ASSUME NEW k \in CacheKeys, k # j
        PROVE  Balanced(lock', req', cached', k, effects', excuses', lapses')
    BY <1>b, <2>2, <2>3, <2>5 DEF Balanced, Free, Chance
  <2>6. Balanced(lock', req', cached', j, effects', excuses', lapses')
    <3>1. Free(lock, req, j) \ {o} = Free(lock', req', j) \ {o}
      BY <2>1, <2>2, <2>3, <1>n DEF Free
    <3>2. PICK f, f2, h, h2 :
          /\ f = Cardinality(Free(lock, req, j)) /\ f2 = Cardinality(Free(lock', req', j))
          /\ h = Chance(lock, req, cached, j) /\ h2 = Chance(lock', req', cached', j)
      OBVIOUS
    <3>3. PICK a \in {0, 1}, b \in {0, 1} :
          /\ a = IF o \in Free(lock, req, j) THEN 1 ELSE 0
          /\ b = IF o \in Free(lock', req', j) THEN 1 ELSE 0
      OBVIOUS
    <3>4. f \in Nat /\ f2 \in Nat /\ f2 + a = f + b /\ h \in {0, 1} /\ h2 \in {0, 1}
      BY <3>1, <3>2, <3>3, FreeIsFinite, OneApart, ChanceIs01
    <3>5. b + h2 <= a + h + 1
      <4>1. CASE req[o].at \in CanAct
        <5>1. a = 1
          BY <2>1, <3>3, <4>1 DEF Free, KeysInv, HeldInside
        <5> QED BY <3>4, <5>1
      <4>2. CASE req[o].at \notin CanAct /\ req[o].at # "locked"
        <5>1. b = 0
          BY <2>2, <3>3, <4>2 DEF Free
        <5> QED BY <3>4, <5>1
      <4>3. CASE req[o].at = "locked"
        <5>1. "locked" \notin Busy
          BY DEF Busy
        <5>2. h = IF j \in cached THEN 0 ELSE 1
          BY <2>1, <3>2, <4>3, <5>1 DEF Chance
        <5>3. j \in cached => h2 = 0
          BY <2>2, <3>2 DEF Chance
        <5> QED BY <3>4, <5>2, <5>3
      <4> QED BY <4>1, <4>2, <4>3
    <3>6. PICK e \in Nat, x \in Nat, n \in Nat : e = effects[j] /\ x = excuses[j] /\ n = lapses[j]
      BY CountersNat
    <3>7. e + f + h <= 1 + x + n
      BY <1>b, <3>2, <3>6 DEF Balanced
    <3>8. e + f2 + h2 <= 1 + x + (n + 1)
      BY <3>4, <3>5, <3>7
    <3> QED BY <2>2, <2>3, <3>2, <3>6, <3>8 DEF Balanced
  <2> QED BY <2>4, <2>5, <2>6 DEF KeysInv
<1>3. CASE ResponseEnds(j)
  <2>1. /\ cached' = cached \ {j} /\ excuses' = [excuses EXCEPT ![j] = @ + 1]
        /\ UNCHANGED <<lock, req, lapses, effects>>
    BY <1>3 DEF ResponseEnds, Idem!ExpireResponse, Excuse
  <2>2. /\ \A k \in CacheKeys : k # j => excuses'[k] = excuses[k]
        /\ excuses'[j] = excuses[j] + 1
    BY <2>1 DEF ReqInv, Counters
  <2>3. HeldInside(lock', req') /\ InsideHolds(lock', req', lapses')
    BY <2>1 DEF KeysInv
  <2>4. ASSUME NEW k \in CacheKeys, k # j
        PROVE  Balanced(lock', req', cached', k, effects', excuses', lapses')
    <3>1. Chance(lock', req', cached', k) = Chance(lock, req, cached, k)
      BY <2>1, <2>4 DEF Chance
    <3> QED BY <1>b, <2>1, <2>2, <2>4, <3>1 DEF Balanced
  <2>5. Balanced(lock', req', cached', j, effects', excuses', lapses')
    <3>1. PICK f, h, h2 :
          /\ f = Cardinality(Free(lock, req, j)) /\ f \in Nat
          /\ h = Chance(lock, req, cached, j) /\ h2 = Chance(lock', req', cached', j)
      BY FreeIsFinite
    <3>2. h \in {0, 1} /\ h2 \in {0, 1}
      BY <3>1, ChanceIs01
    <3>3. PICK e \in Nat, x \in Nat, n \in Nat : e = effects[j] /\ x = excuses[j] /\ n = lapses[j]
      BY CountersNat
    <3>4. e + f + h <= 1 + x + n
      BY <1>b, <3>1, <3>3 DEF Balanced
    <3>5. e + f + h2 <= 1 + (x + 1) + n
      BY <3>1, <3>2, <3>4
    <3> QED BY <2>1, <2>2, <3>1, <3>3, <3>5 DEF Balanced
  <2> QED BY <2>3, <2>4, <2>5 DEF KeysInv
<1> QED BY <1>1, <1>2, <1>3
\* A server that dies takes its requests along: those that could still act no
\* longer can, and those that had acted without a cached response are excused.
LEMMA DieKeeps ==
    ASSUME ReqInv, KeysInv, NEW s \in Servers, Die(s)
    PROVE  KeysInv'
<1> DEFINE dead == {r \in Requests : req[r] # Closed /\ req[r].server = s}
           lost(k) == {r \in dead : /\ Keyed(r) /\ Key(r) = k
                                    /\ req[r].at \in {"written", "succeeded"}}
<1>n. None \notin Requests /\ Orphan \notin Requests /\ IsFiniteSet(Requests)
  BY RequestsAssumption DEF RequestsAssumption
<1>1. req' = [r \in Requests |-> IF r \in dead THEN Closed ELSE req[r]]
  BY DEF Die
<1>2. excuses' = [k \in CacheKeys |-> excuses[k] + Cardinality(lost(k))]
  BY DEF Die
<1>3. Idem!LoseServer(s, dead)
  BY DEF Die
<1>4. lock' = [k \in CacheKeys |-> IF lock[k] \in dead THEN Orphan ELSE lock[k]]
  BY <1>3 DEF Idem!LoseServer
<1>5. UNCHANGED <<cached, lapses, effects>>
  BY DEF Die
<1>6. \A k : ~Mine(Closed, k)
  BY ClosedIsIdle DEF Mine
<1>7. dead \subseteq Requests
  OBVIOUS
<1>8. ASSUME NEW k \in CacheKeys PROVE IsFiniteSet(lost(k)) /\ Cardinality(lost(k)) \in Nat
  <2>1. lost(k) \in SUBSET Requests
    OBVIOUS
  <2>2. IsFiniteSet(lost(k))
    BY <1>n, <2>1, FS_Subset
  <2> QED BY <2>2, FS_CardinalityType
<1>9. ASSUME NEW k \in CacheKeys, NEW o \in dead, lock[k] = o, req[o].at \in {"written", "succeeded"}
      PROVE  Cardinality(lost(k)) # 0
  <2>1. o \in lost(k)
    BY <1>9 DEF KeysInv, HeldInside, Mine, Key, Keyed
  <2>2. lost(k) # {}
    BY <2>1
  <2> HIDE DEF lost
  <2> QED BY <1>8, <2>2, FS_EmptySet
<1> HIDE DEF dead, lost
<1>10. \A k \in CacheKeys, q \in Requests : lock'[k] = q <=> lock[k] = q /\ q \notin dead
  BY <1>4, <1>n
<1>11. \A q \in Requests : /\ q \notin dead => req'[q] = req[q]
                           /\ q \in dead => req'[q] = Closed
  BY <1>1
<1>12. HeldInside(lock', req')
  BY <1>10, <1>11 DEF KeysInv, HeldInside
<1>13. InsideHolds(lock', req', lapses')
  BY <1>5, <1>6, <1>10, <1>11 DEF KeysInv, InsideHolds
<1>14. ASSUME NEW k \in CacheKeys
       PROVE  Balanced(lock', req', cached', k, effects', excuses', lapses')
  <2>1. PICK f, f2, h, h2, z :
          /\ f = Cardinality(Free(lock, req, k)) /\ f2 = Cardinality(Free(lock', req', k))
          /\ h = Chance(lock, req, cached, k) /\ h2 = Chance(lock', req', cached', k)
          /\ z = Cardinality(lost(k))
    OBVIOUS
  <2>2. Free(lock', req', k) = Free(lock, req, k) \ dead
    BY <1>6, <1>10, <1>11 DEF Free
  <2>3. Free(lock', req', k) \in SUBSET Free(lock, req, k) /\ IsFiniteSet(Free(lock, req, k))
    BY <2>2, FreeIsFinite
  <2>4. /\ f \in Nat /\ f2 \in Nat /\ f2 <= f /\ h \in {0, 1} /\ h2 \in {0, 1} /\ z \in Nat
        /\ f = f2 => Free(lock, req, k) = Free(lock', req', k)
    BY <1>8, <2>1, <2>3, FreeIsFinite, FS_Subset, ChanceIs01
  <2>5. f2 + h2 <= f + h + z
    <3>1. CASE h2 <= h
      BY <2>4, <3>1
    <3>2. CASE h2 = 1 /\ h = 0
      <4>1. k \notin cached
        BY <1>5, <2>1, <3>2 DEF Chance
      <4>2. PICK o \in Requests : lock[k] = o /\ req[o].at \in Busy
        BY <2>1, <3>2, <4>1 DEF Chance
      <4>3. o \in dead
        <5> SUFFICES ASSUME o \notin dead PROVE FALSE
          OBVIOUS
        <5>1. lock'[k] = o /\ req'[o].at \in Busy
          BY <1>10, <1>11, <4>2
        <5> QED BY <2>1, <3>2, <5>1 DEF Chance
      <4>4. CASE req[o].at \in CanAct
        <5>1. o \in Free(lock, req, k)
          BY <4>2, <4>4 DEF Free, KeysInv, HeldInside
        <5>2. f # f2
          BY <2>2, <2>4, <4>3, <5>1
        <5> QED BY <2>4, <5>2
      <4>5. CASE req[o].at \in {"written", "succeeded"}
        <5>1. z # 0
          BY <1>9, <2>1, <4>2, <4>3, <4>5
        <5> QED BY <2>4, <5>1
      <4> QED BY <4>2, <4>4, <4>5 DEF Busy, CanAct
    <3> QED BY <2>4, <3>1, <3>2
  <2>6. PICK e \in Nat, x \in Nat, n \in Nat : e = effects[k] /\ x = excuses[k] /\ n = lapses[k]
    BY CountersNat
  <2>7. e + f + h <= 1 + x + n
    BY <2>1, <2>6 DEF KeysInv, Balanced
  <2>8. e + f2 + h2 <= 1 + (x + z) + n
    BY <2>4, <2>5, <2>7
  <2>9. effects'[k] = e /\ excuses'[k] = x + z /\ lapses'[k] = n
    BY <1>2, <1>5, <2>1, <2>6
  <2> QED BY <2>1, <2>8, <2>9 DEF Balanced
<1> QED BY <1>12, <1>13, <1>14 DEF KeysInv

LEMMA KeysNext == ReqInv /\ KeysInv /\ [Next]_vars => KeysInv'
<1> SUFFICES ASSUME ReqInv, KeysInv, [Next]_vars PROVE KeysInv'
  OBVIOUS
<1>1. ASSUME UNCHANGED <<req, storeVars, effects, excuses>> PROVE KeysInv'
  BY <1>1 DEF storeVars, KeysInv
<1>2. CASE UNCHANGED vars
  BY <1>1, <1>2 DEF vars, requestVars
<1>3. ASSUME NEW s \in Servers, Start(s) PROVE KeysInv'
  <2>1. UNCHANGED <<req, storeVars, effects, excuses>>
    BY <1>3 DEF Start, FindSeedAdmin, RegisterSeedAdmin, SeedAdmin, ListSeedWorkspaces,
                SeedOwners, CreateSeedWorkspace
  <2> QED BY <1>1, <2>1
<1> QED BY <1>2, <1>3, EntryKeeps, AcquireLockKeeps, ProceedKeeps, HandlerKeeps, EndsKeep,
           ExpiryKeeps, DieKeeps DEF Next, Respond

LEMMA KeysInit == Init => KeysInv
<1> SUFFICES ASSUME Init PROVE KeysInv
  OBVIOUS
<1>n. None \notin Requests
  BY RequestsAssumption DEF RequestsAssumption
<1>1. \A r \in Requests : req[r] = Closed
  BY DEF Init
<1>2. \A k \in CacheKeys : lock[k] = None /\ effects[k] = 0 /\ excuses[k] = 0 /\ lapses[k] = 0
  BY DEF Init, Idem!IdempotencyInit
<1>3. \A k : ~Mine(Closed, k)
  BY ClosedIsIdle DEF Mine
<1>4. HeldInside(lock, req) /\ InsideHolds(lock, req, lapses)
  BY <1>1, <1>2, <1>3, <1>n DEF HeldInside, InsideHolds
<1>5. ASSUME NEW k \in CacheKeys
      PROVE  Balanced(lock, req, cached, k, effects, excuses, lapses)
  <2>1. Free(lock, req, k) = {}
    BY <1>1, <1>3 DEF Free
  <2>2. Cardinality(Free(lock, req, k)) = 0
    BY <2>1, FS_EmptySet
  <2>3. Chance(lock, req, cached, k) \in {0, 1}
    BY ChanceIs01
  <2> QED BY <1>2, <2>2, <2>3 DEF Balanced
<1> QED BY <1>4, <1>5 DEF KeysInv

LEMMA KeysAreGood == Spec => [](ReqInv /\ KeysInv)
BY ReqInit, ReqNext, KeysInit, KeysNext, PTL DEF Spec

LEMMA ExclusiveFollows == ReqInv /\ KeysInv => KeyIsExclusive
<1> SUFFICES ASSUME ReqInv, KeysInv, NEW r \in Requests, NEW q \in Requests, r # q, Inside(r),
                    Inside(q), Keyed(r), Keyed(q), Key(r) = Key(q)
             PROVE  lapses[Key(r)] > 0
  BY DEF KeyIsExclusive
<1>1. req[r] \in Open /\ req[q] \in Open /\ Key(r) \in CacheKeys
  BY IsOpen DEF Inside
<1>2. Mine(req[r], Key(r)) /\ Mine(req[q], Key(r))
  BY <1>1 DEF Mine, Key, Keyed
<1>3. lapses[Key(r)] # 0
  BY <1>1, <1>2 DEF KeysInv, InsideHolds, Inside, Within
<1> QED BY <1>1, <1>3, CountersNat

LEMMA OnceFollows == ReqInv /\ KeysInv => KeyActsOnce
<1> SUFFICES ASSUME ReqInv, KeysInv, NEW k \in CacheKeys
             PROVE  effects[k] <= 1 + excuses[k] + lapses[k]
  BY DEF KeyActsOnce
<1>1. PICK f \in Nat, h \in {0, 1} :
          f = Cardinality(Free(lock, req, k)) /\ h = Chance(lock, req, cached, k)
  BY FreeIsFinite, ChanceIs01
<1>2. effects[k] + f + h <= 1 + excuses[k] + lapses[k]
  BY <1>1 DEF KeysInv, Balanced
<1> QED BY <1>2, CountersNat

\* Two requests under one idempotency key meet in the section only after a lock
\* of that key ran out, for any number of servers and requests
\* (idempotency.go:39-49, cache.go:200).
THEOREM KeyAdmitsOne == Spec => []KeyIsExclusive
BY KeysAreGood, ExclusiveFollows, PTL

\* A call repeated under its key acts once, plus once for each answer that was
\* lost (idempotency.go:17).
THEOREM RepeatedCallActsOnce == Spec => []KeyActsOnce
BY KeysAreGood, OnceFollows, PTL
=============================================================================
