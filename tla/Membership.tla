----------------------------- MODULE Membership -----------------------------
(***************************************************************************)
(* Users, workspaces and workspace members of platform/iam as PostgreSQL   *)
(* keeps them.  The guarded writes run under the row lock of the workspace *)
(* and are one step each; the authority of the caller is an argument,      *)
(* because the service reads it before that transaction.                   *)
(*                                                                         *)
(* Abstractions.  An email address is the user id, a workspace name is     *)
(* "seed" (the one of DefaultSeedWorkspaces) or "other"; names are not     *)
(* unique in the table.  No code changes the status of a user, so every    *)
(* account is active.                                                      *)
(***************************************************************************)
EXTENDS Naturals, FiniteSets

CONSTANTS
    Users, Workspaces,
    Root,           \* the user of KBOT_AUTOSEED_ADMIN_EMAIL
    None

ASSUME MembershipAssumption ==
    /\ Root \in Users /\ IsFiniteSet(Users)
    /\ None \notin Users \cup Workspaces
           \cup {"admin", "member", "owner", "editor", "viewer", "seed", "other"}

VARIABLES
    user,           \* global role of each account, or None
    workspace,      \* name of each workspace, or None
    member          \* role of each user in each workspace, or None

iamVars == <<user, workspace, member>>

GlobalRoles == {"admin", "member"}
WorkspaceRoles == {"owner", "admin", "editor", "member", "viewer"}

Owners(ws) == {u \in Users : member[ws][u] = "owner"}

\* CreateUser: the email address is unique.
CreateUser(u) == user[u] = None /\ user' = [user EXCEPT ![u] = "member"]

\* SetUserRole
SetUserRole(u, role) == user' = [user EXCEPT ![u] = role]

\* Ids are generated and carry no meaning: one free id stands for any other.
FreshWorkspace(ws, free) == free # {} /\ ws = CHOOSE w \in free : TRUE

\* CreateWorkspace
CreateWorkspace(ws, name) ==
    /\ FreshWorkspace(ws, {w \in Workspaces : workspace[w] = None})
    /\ workspace' = [workspace EXCEPT ![ws] = name]

\* UpsertWorkspaceMember
UpsertWorkspaceMember(ws, u, role) == member' = [member EXCEPT ![ws][u] = role]

\* EnsureSeedWorkspaceOwners: an unguarded upsert in each of the workspaces
UpsertOwners(W, u) ==
    member' = [ws \in Workspaces |-> IF ws \in W THEN [member[ws] EXCEPT ![u] = "owner"]
                                     ELSE member[ws]]

\* DeleteWorkspaceMember
DeleteWorkspaceMember(ws, u) == member' = [member EXCEPT ![ws][u] = None]

\* CreateWorkspaceWithOwner, one statement
CreateWorkspaceWithOwner(ws, u) ==
    /\ CreateWorkspace(ws, "other")
    /\ UpsertWorkspaceMember(ws, u, "owner")

\* WorkspaceRole: a global administrator counts as admin everywhere.
WorkspaceRole(u, ws) == IF user[u] = "admin" THEN "admin" ELSE member[ws][u]

\* workspaceManagementAuthority: may the actor manage members at all, and owners?
MayManage(u, ws) == user[u] = "admin" \/ member[ws][u] \in {"owner", "admin"}
ManagesOwners(u, ws) == user[u] = "admin" \/ member[ws][u] = "owner"

\* workspaceMethodAllowed, for the kinds of request it tells apart
MethodAllowed(role, kind) ==
    \/ kind = "decide" /\ role \in {"owner", "admin"}
    \/ kind = "configure" /\ role \in {"owner", "admin", "editor"}
    \/ kind = "run" /\ role \in {"owner", "admin", "editor", "member"}
    \/ kind = "read"

\* Mutant: the last owner is protected only against removal by others.
ProtectedFromAdmins(ws, u, allowed) == member[ws][u] = "owner" => allowed

\* The checks both guarded writes make before they take owner away from u
OwnerMayGo(ws, u, allowed) ==
    member[ws][u] = "owner" => allowed /\ Cardinality(Owners(ws)) > 1

\* UpsertWorkspaceMemberGuarded succeeds
UpsertAllowed(ws, u, role, allowed) ==
    /\ workspace[ws] # None
    /\ role = "owner" => allowed
    /\ role # "owner" => OwnerMayGo(ws, u, allowed)

\* DeleteWorkspaceMemberGuarded succeeds
DeleteAllowed(ws, u, allowed) ==
    /\ workspace[ws] # None
    /\ member[ws][u] # None
    /\ OwnerMayGo(ws, u, allowed)

UpsertWorkspaceMemberGuarded(ws, u, role, allowed) ==
    UpsertAllowed(ws, u, role, allowed) /\ UpsertWorkspaceMember(ws, u, role)

DeleteWorkspaceMemberGuarded(ws, u, allowed) ==
    DeleteAllowed(ws, u, allowed) /\ DeleteWorkspaceMember(ws, u)

-----------------------------------------------------------------------------
\* The table statements on their own, in any order and with any authority.
MembershipNext ==
    \/ \E u \in Users : CreateUser(u) /\ UNCHANGED <<workspace, member>>
    \/ \E u \in Users, role \in GlobalRoles :
          SetUserRole(u, role) /\ UNCHANGED <<workspace, member>>
    \/ \E ws \in Workspaces :
          CreateWorkspace(ws, "seed") /\ UNCHANGED <<user, member>>
    \/ \E W \in SUBSET Workspaces, u \in Users :
          UpsertOwners(W, u) /\ UNCHANGED <<user, workspace>>
    \/ \E ws \in Workspaces, u \in Users :
          \/ CreateWorkspaceWithOwner(ws, u) /\ UNCHANGED user
          \/ \E allowed \in BOOLEAN :
                \/ DeleteWorkspaceMemberGuarded(ws, u, allowed)
                   /\ UNCHANGED <<user, workspace>>
                \/ \E role \in WorkspaceRoles :
                      UpsertWorkspaceMemberGuarded(ws, u, role, allowed)
                      /\ UNCHANGED <<user, workspace>>

MembershipTypeOK ==
    /\ user \in [Users -> GlobalRoles \cup {None}]
    /\ workspace \in [Workspaces -> {"seed", "other", None}]
    /\ member \in [Workspaces -> [Users -> WorkspaceRoles \cup {None}]]

MembershipSpec == MembershipTypeOK /\ [][MembershipNext]_iamVars

\* A workspace that has an owner keeps one, whatever requests, retries and
\* server starts overlap (iam/service.go:24, postgres_store.go:229).
OwnerKept ==
    [][\A ws \in Workspaces : Owners(ws) # {} => Owners(ws)' # {}]_iamVars
=============================================================================
