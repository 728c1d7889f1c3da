---------------------------- MODULE ApiRequests ----------------------------
(***************************************************************************)
(* Requests of the control plane on several servers: authentication and    *)
(* workspace role, idempotency, then the handler.  The handlers are those  *)
(* of /auth/register, /workspaces, /workspaces/{id}/members/{id} and the   *)
(* decision on an approval (ApprovalFlow has what follows it).  Beside     *)
(* them, servers start, seeding administrator and workspace, and die.      *)
(*                                                                         *)
(* A call is what a client sends: the actor its token names, the handler,  *)
(* the workspace, the target user, the body, and whether it carries an     *)
(* Idempotency-Key.  A request that the middleware turns down changes      *)
(* nothing and is not modelled.                                            *)
(***************************************************************************)
EXTENDS Membership

CONSTANTS
    Servers,
    Requests,       \* connections that can be open at a time
    Calls,          \* the calls offered
    Orphan,
    MaxArrivals,    \* bound: calls sent in a behaviour
    MaxFaults       \* bound: failures of Redis, expiries and deaths

Ops == {"register", "workspace", "put", "delete", "decide"}

Call == [actor : Users, op : Ops, ws : Workspaces, target : Users,
         body : WorkspaceRoles, keyed : BOOLEAN]

\* scopedIdempotencyKey: user, workspace, method, path and key; the model has
\* one key per client.
CacheKeyOf(c) == <<c.actor, c.op, c.ws, c.target>>
CacheKeys == {CacheKeyOf(c) : c \in Calls}

ASSUME RequestsAssumption ==
    /\ Calls \subseteq Call
    /\ IsFiniteSet(Requests) /\ MaxArrivals \in Nat /\ MaxFaults \in Nat
    /\ None \notin Requests /\ Orphan \notin Requests \cup {None}

VARIABLES
    local, lock, cached, lapses,  \* of Idempotency
    req,            \* each connection: its call, server and progress
    server,         \* each server: where its start has got to
    pending,        \* the approval of each workspace is undecided
    effects,        \* history: changes made under a cache key
    excuses,        \* history: losses that let a cache key act once more
    arrivals, faults

Idem == INSTANCE Idempotency

storeVars == <<local, lock, cached, lapses>>
requestVars == <<req, server, pending, effects, excuses, arrivals, faults>>
vars == <<iamVars, storeVars, requestVars>>

Steps == {"admitted", "mutex", "locked", "handling", "authorised", "written",
          "succeeded", "failed", "releasing"}
Boot == {"admin", "register", "promote", "list", "create", "owners", "up"}

Closed == [at |-> "idle"]
Open == [at : Steps, call : Call, server : Servers, allowed : BOOLEAN]
Connection == Open \cup {Closed}

Key(r) == CacheKeyOf(req[r].call)
Keyed(r) == req[r].call.keyed
At(r, step) == req[r].at = step
Inside(r) == req[r].at \in Steps \ {"admitted", "mutex"}

Goto(r, step) == req' = [req EXCEPT ![r].at = step]
Hangup(r) == req' = [req EXCEPT ![r] = Closed]

Fault == faults < MaxFaults /\ faults' = faults + 1

\* One more change under the key of r; Excuse: the response to one was lost.
Effect(r) ==
    effects' = IF Keyed(r) THEN [effects EXCEPT ![Key(r)] = @ + 1] ELSE effects
Excuse(k) == excuses' = [excuses EXCEPT ![k] = @ + 1]

-----------------------------------------------------------------------------
(* Middleware                                                              *)

\* Auth, Workspace and RequireGlobalAdmin let the call through.
Admitted(c) ==
    /\ user[c.actor] # None
    /\ c.op = "register" => user[c.actor] = "admin"
    /\ c.op = "decide" =>
          /\ user[c.actor] = "admin" \/ member[c.ws][c.actor] # None
          /\ MethodAllowed(WorkspaceRole(c.actor, c.ws), "decide")

Arrive(r, s, c) ==
    /\ req[r] = Closed /\ server[s] = "up" /\ arrivals < MaxArrivals
    /\ Admitted(c)
    /\ req' = [req EXCEPT ![r] = [at |-> IF c.keyed THEN "admitted" ELSE "handling",
                                  call |-> c, server |-> s, allowed |-> FALSE]]
    /\ arrivals' = arrivals + 1
    /\ UNCHANGED <<iamVars, storeVars, server, pending, effects,
                   excuses, faults>>

\* Idempotency, locks.acquire
AcquireMutex(r) ==
    /\ At(r, "admitted")
    /\ Idem!AcquireLocal(req[r].server, Key(r), r)
    /\ Goto(r, "mutex")
    /\ UNCHANGED <<iamVars, lock, cached, lapses, server, pending,
                   effects, excuses, arrivals, faults>>

\* Idempotency, distributed.Lock
AcquireLock(r) ==
    /\ At(r, "mutex")
    /\ Idem!Lock(Key(r), r)
    /\ Goto(r, "locked")
    /\ UNCHANGED <<iamVars, local, cached, lapses, server, pending,
                   effects, excuses, arrivals, faults>>

\* SETNX does not answer, whether it set the lock or not, or the client goes
\* away while it waits: 503.
LockUnavailable(r) ==
    /\ At(r, "mutex")
    /\ Fault
    /\ Idem!LockUnanswered(Key(r)) \/ UNCHANGED lock
    /\ Idem!ReleaseLocal(req[r].server, Key(r), r)
    /\ Hangup(r)
    /\ UNCHANGED <<iamVars, cached, lapses, server, pending, effects,
                   excuses, arrivals>>

\* The response is cached: it is replayed, or the body differs (409).
Replay(r) ==
    /\ At(r, "locked") /\ Key(r) \in cached
    /\ Goto(r, "releasing")
    /\ UNCHANGED <<iamVars, storeVars, server, pending, effects,
                   excuses, arrivals, faults>>

\* Nothing is cached: the handler runs.
Proceed(r) ==
    /\ At(r, "locked") /\ Key(r) \notin cached
    /\ Goto(r, "handling")
    /\ UNCHANGED <<iamVars, storeVars, server, pending, effects,
                   excuses, arrivals, faults>>

\* Get does not answer: 503.
StoreUnavailable(r) ==
    /\ At(r, "locked")
    /\ Fault
    /\ Goto(r, "releasing")
    /\ UNCHANGED <<iamVars, storeVars, server, pending, effects,
                   excuses, arrivals>>

\* Mutant: the response is not stored.
RememberNothing(r) ==
    /\ At(r, "succeeded")
    /\ IF Keyed(r) THEN Goto(r, "releasing") ELSE Hangup(r)
    /\ UNCHANGED <<iamVars, storeVars, server, pending, effects, excuses,
                   arrivals, faults>>

\* The handler answered 2xx: the response is cached.
Remember(r) ==
    /\ At(r, "succeeded")
    /\ IF Keyed(r) THEN Idem!Store(Key(r)) /\ Goto(r, "releasing")
       ELSE Hangup(r) /\ UNCHANGED cached
    /\ UNCHANGED <<iamVars, local, lock, lapses, server, pending, effects, excuses,
                   arrivals, faults>>

\* Set fails, also when the client has gone: the answer was given, the cache
\* does not know it.
RememberFails(r) ==
    /\ At(r, "succeeded") /\ Keyed(r)
    /\ Fault
    /\ Excuse(Key(r))
    /\ Goto(r, "releasing")
    /\ UNCHANGED <<iamVars, storeVars, server, pending, effects, arrivals>>

\* Any other status: nothing is cached.
Fail(r) ==
    /\ At(r, "failed")
    /\ IF Keyed(r) THEN Goto(r, "releasing") ELSE Hangup(r)
    /\ UNCHANGED <<iamVars, storeVars, server, pending, effects,
                   excuses, arrivals, faults>>

\* The deferred releases, whatever the handler answered
Release(r) ==
    /\ At(r, "releasing")
    /\ Idem!Unlock(req[r].server, Key(r), r)
    /\ Hangup(r)
    /\ UNCHANGED <<iamVars, cached, lapses, server, pending, effects,
                   excuses, arrivals, faults>>

ReleaseFails(r) ==
    /\ At(r, "releasing")
    /\ Fault
    /\ Idem!UnlockFails(req[r].server, Key(r), r)
    /\ Hangup(r)
    /\ UNCHANGED <<iamVars, cached, lapses, server, pending, effects,
                   excuses, arrivals>>

-----------------------------------------------------------------------------
(* Handlers                                                                *)

Handling(r, op) == At(r, "handling") /\ req[r].call.op = op

\* AuthHandler.CreateUser
Register(r) ==
    /\ Handling(r, "register")
    /\ IF user[req[r].call.target] = None
       THEN CreateUser(req[r].call.target) /\ Effect(r) /\ Goto(r, "succeeded")
       ELSE Goto(r, "failed") /\ UNCHANGED <<user, effects>>
    /\ UNCHANGED <<workspace, member, storeVars, server, pending,
                   excuses, arrivals, faults>>

\* IAMHandler.CreateWorkspace, CreateWorkspaceForUser
CreateWorkspaceForUser(r, ws) ==
    /\ Handling(r, "workspace")
    /\ CreateWorkspaceWithOwner(ws, req[r].call.actor)
    /\ Effect(r)
    /\ Goto(r, "succeeded")
    /\ UNCHANGED <<user, storeVars, server, pending, excuses,
                   arrivals, faults>>

\* UpsertWorkspaceMember and DeleteWorkspaceMember, workspaceManagementAuthority
Authorise(r) ==
    LET c == req[r].call IN
    /\ At(r, "handling") /\ c.op \in {"put", "delete"}
    /\ req' = [req EXCEPT ![r].at = IF /\ MayManage(c.actor, c.ws)
                                       /\ c.op = "put" => user[c.target] # None
                                    THEN "authorised" ELSE "failed",
                          ![r].allowed = ManagesOwners(c.actor, c.ws)]
    /\ UNCHANGED <<iamVars, storeVars, server, pending, effects,
                   excuses, arrivals, faults>>

\* UpsertWorkspaceMember, the guarded write
PutMember(r) ==
    LET c == req[r].call IN
    /\ At(r, "authorised") /\ c.op = "put"
    /\ IF UpsertAllowed(c.ws, c.target, c.body, req[r].allowed)
       THEN /\ UpsertWorkspaceMemberGuarded(c.ws, c.target, c.body, req[r].allowed)
            /\ Effect(r) /\ Goto(r, "written")
       ELSE Goto(r, "failed") /\ UNCHANGED <<member, effects>>
    /\ UNCHANGED <<user, workspace, storeVars, server, pending,
                   excuses, arrivals, faults>>

\* UpsertWorkspaceMember, the final GetWorkspaceMember: somebody may have removed
\* the member again, which answers an error although the write took place.
ReadMember(r) ==
    LET c == req[r].call IN
    /\ At(r, "written")
    /\ IF member[c.ws][c.target] # None THEN Goto(r, "succeeded") /\ UNCHANGED excuses
       ELSE /\ Goto(r, "failed")
            /\ IF Keyed(r) THEN Excuse(Key(r)) ELSE UNCHANGED excuses
    /\ UNCHANGED <<iamVars, storeVars, server, pending, effects,
                   arrivals, faults>>

\* DeleteWorkspaceMember, the guarded write
DeleteMember(r) ==
    LET c == req[r].call IN
    /\ At(r, "authorised") /\ c.op = "delete"
    /\ IF DeleteAllowed(c.ws, c.target, req[r].allowed)
       THEN /\ DeleteWorkspaceMemberGuarded(c.ws, c.target, req[r].allowed)
            /\ Effect(r) /\ Goto(r, "succeeded")
       ELSE Goto(r, "failed") /\ UNCHANGED <<member, effects>>
    /\ UNCHANGED <<user, workspace, storeVars, server, pending,
                   excuses, arrivals, faults>>

\* ApprovalHandler.resolve: only a pending approval is decided.
Decide(r) ==
    LET ws == req[r].call.ws IN
    /\ Handling(r, "decide")
    /\ IF ws \in pending
       THEN /\ pending' = pending \ {ws}
            /\ Effect(r) /\ Goto(r, "succeeded")
       ELSE Goto(r, "failed") /\ UNCHANGED <<pending, effects>>
    /\ UNCHANGED <<iamVars, storeVars, server, excuses, arrivals, faults>>

-----------------------------------------------------------------------------
(* Servers and stores                                                      *)

Advance(s, step) == server' = [server EXCEPT ![s] = step]

\* EnsureSeedAdmin looks the account up ...
FindSeedAdmin(s) ==
    /\ server[s] = "admin"
    /\ Advance(s, IF user[Root] = None THEN "register" ELSE "promote")
    /\ UNCHANGED <<iamVars, storeVars, req, pending, effects, excuses,
                   arrivals, faults>>

\* ... creates it if it was missing; if another start was faster, the error is
\* logged and the start goes on ...
RegisterSeedAdmin(s) ==
    /\ server[s] = "register"
    /\ \/ CreateUser(Root) /\ Advance(s, "promote")
       \/ user[Root] # None /\ Advance(s, "list") /\ UNCHANGED user
    /\ UNCHANGED <<workspace, member, storeVars, req, pending, effects,
                   excuses, arrivals, faults>>

\* ... and makes it administrator.
SeedAdmin(s) ==
    /\ server[s] = "promote"
    /\ SetUserRole(Root, "admin")
    /\ Advance(s, "list")
    /\ UNCHANGED <<workspace, member, storeVars, req, pending, effects,
                   excuses, arrivals, faults>>

\* EnsureSeedWorkspaces lists the workspaces ...
ListSeedWorkspaces(s) ==
    /\ server[s] = "list"
    /\ Advance(s, IF \E ws \in Workspaces : workspace[ws] = "seed"
                  THEN "owners" ELSE "create")
    /\ UNCHANGED <<iamVars, storeVars, req, pending, effects, excuses,
                   arrivals, faults>>

\* ... and creates the one it has not found.
CreateSeedWorkspace(s, ws) ==
    /\ server[s] = "create"
    /\ CreateWorkspace(ws, "seed")
    /\ Advance(s, "owners")
    /\ UNCHANGED <<user, member, storeVars, req, pending, effects,
                   excuses, arrivals, faults>>

\* EnsureSeedWorkspaceOwners, an unguarded upsert per seed workspace; the server
\* then serves.
SeedOwners(s) ==
    /\ server[s] = "owners"
    /\ UpsertOwners({ws \in Workspaces : workspace[ws] = "seed"}, Root)
    /\ Advance(s, "up")
    /\ UNCHANGED <<user, workspace, storeVars, req, pending, effects,
                   excuses, arrivals, faults>>

\* The process ends and is started again: what it was doing is lost.  A change
\* whose response was not yet cached can be made again.
Die(s) ==
    LET dead == {r \in Requests : req[r] # Closed /\ req[r].server = s}
        lost(k) == {r \in dead : /\ Keyed(r) /\ Key(r) = k
                                 /\ req[r].at \in {"written", "succeeded"}}
    IN  /\ Fault
        /\ req' = [r \in Requests |-> IF r \in dead THEN Closed ELSE req[r]]
        /\ excuses' = [k \in CacheKeys |-> excuses[k] + Cardinality(lost(k))]
        /\ Idem!LoseServer(s, dead)
        /\ Advance(s, "admin")
        /\ UNCHANGED <<iamVars, cached, lapses, pending, effects, arrivals>>

OrphanEnds(k) ==
    /\ Idem!ExpireOrphan(k)
    /\ UNCHANGED <<iamVars, local, cached, lapses, requestVars>>

LeaseEnds(k) ==
    /\ Fault
    /\ Idem!ExpireLock(k)
    /\ UNCHANGED <<iamVars, local, cached, req, server, pending, effects,
                   excuses, arrivals>>

ResponseEnds(k) ==
    /\ Fault
    /\ Idem!ExpireResponse(k)
    /\ Excuse(k)
    /\ UNCHANGED <<iamVars, local, lock, lapses, req, server, pending,
                   effects, arrivals>>

-----------------------------------------------------------------------------
\* A new database with its servers starting, or one in service: the seed
\* workspace with its members and an approval to be decided.
Init ==
    /\ Idem!IdempotencyInit
    /\ req = [r \in Requests |-> Closed]
    /\ effects = [k \in CacheKeys |-> 0] /\ excuses = [k \in CacheKeys |-> 0]
    /\ arrivals = 0 /\ faults = 0
    /\ \/ /\ user = [u \in Users |-> None]
          /\ workspace = [ws \in Workspaces |-> None]
          /\ member = [ws \in Workspaces |-> [u \in Users |-> None]]
          /\ server = [s \in Servers |-> "admin"]
          /\ pending = {}
       \/ \E seed \in Workspaces, role \in [Users -> {"owner", "admin", None}] :
          /\ FreshWorkspace(seed, Workspaces)
          /\ role[Root] = "owner"
          /\ user = [u \in Users |-> IF u = Root THEN "admin"
                         ELSE IF role[u] = None THEN None ELSE "member"]
          /\ workspace = [ws \in Workspaces |-> IF ws = seed THEN "seed" ELSE None]
          /\ member = [ws \in Workspaces |-> [u \in Users |->
                          IF ws = seed THEN role[u] ELSE None]]
          /\ server = [s \in Servers |-> "up"]
          /\ pending = {seed}

Handler(r) ==
    \/ Register(r)
    \/ \E ws \in Workspaces : CreateWorkspaceForUser(r, ws)
    \/ Authorise(r) \/ PutMember(r) \/ ReadMember(r) \/ DeleteMember(r)
    \/ Decide(r)

Respond(r) ==
    \/ AcquireMutex(r) \/ AcquireLock(r) \/ Replay(r) \/ Proceed(r)
    \/ Handler(r)
    \/ Remember(r) \/ Fail(r) \/ Release(r)

Start(s) ==
    \/ FindSeedAdmin(s) \/ RegisterSeedAdmin(s) \/ SeedAdmin(s)
    \/ ListSeedWorkspaces(s) \/ SeedOwners(s)
    \/ \E ws \in Workspaces : CreateSeedWorkspace(s, ws)

Next ==
    \/ \E r \in Requests :
          \/ \E s \in Servers, c \in Calls : Arrive(r, s, c)
          \/ Respond(r)
          \/ LockUnavailable(r) \/ StoreUnavailable(r) \/ RememberFails(r)
          \/ ReleaseFails(r)
    \/ \E s \in Servers : Start(s) \/ Die(s)
    \/ \E k \in CacheKeys : OrphanEnds(k) \/ LeaseEnds(k) \/ ResponseEnds(k)

Spec == Init /\ [][Next]_vars

\* Goroutines run, servers finish their start, and Redis drops a lock that is
\* not renewed; nothing is assumed of clients, of faults, or of a lock that is
\* renewed.
Fairness ==
    /\ \A r \in Requests : WF_vars(Respond(r))
    /\ \A s \in Servers : WF_vars(Start(s))
    /\ \A k \in CacheKeys : WF_vars(OrphanEnds(k))

FairSpec == Spec /\ Fairness

-----------------------------------------------------------------------------
(* Properties                                                              *)

\* Type invariant.
TypeOK ==
    /\ MembershipTypeOK
    /\ req \in [Requests -> Connection]
    /\ server \in [Servers -> Boot]
    /\ pending \subseteq Workspaces
    /\ local \in [Servers -> [CacheKeys -> Requests \cup {None}]]
    /\ cached \subseteq CacheKeys
    /\ lock \in [CacheKeys -> Requests \cup {None, Orphan}]
    /\ arrivals \in 0 .. MaxArrivals /\ faults \in 0 .. MaxFaults

\* Two requests with one idempotency key are in the middleware's critical section
\* together only if the lock of one of them ran out (idempotency.go:39-49).
KeyIsExclusive ==
    \A r, q \in Requests :
        (r # q /\ Inside(r) /\ Inside(q) /\ Keyed(r) /\ Keyed(q) /\ Key(r) = Key(q))
            => lapses[Key(r)] > 0

\* A client that repeats a call under its key changes the system once, plus once
\* for each answer the middleware lost: a response it could not store, that
\* expired, or that was an error after the write; a server that died before it
\* was stored; a lock that ran out (idempotency.go:17).
KeyActsOnce == \A k \in CacheKeys : effects[k] <= 1 + excuses[k] + lapses[k]

\* Every request that is let in is answered or ends with its server, also when
\* the lock of its key was left behind: its server has died, the answer to its
\* SETNX was lost or its unlock failed (cache.go:200-221, 243).
RequestEnds == \A r \in Requests : req[r] # Closed ~> req[r] = Closed
=============================================================================
