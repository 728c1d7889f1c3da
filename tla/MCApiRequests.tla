--------------------------- MODULE MCApiRequests ---------------------------
EXTENDS ApiRequests, TLC

CONSTANTS root, u1, w1

MCCall(actor, op, target, body, keyed) ==
    [actor |-> actor, op |-> op, ws |-> w1, target |-> target, body |-> body,
     keyed |-> keyed]

\* Two people who give or take owner from each other, repeat calls under a key,
\* create a workspace, register, and decide the approval.
MCCalls ==
    {MCCall(root, "put", u1, "owner", TRUE), MCCall(root, "put", u1, "viewer", TRUE),
     MCCall(u1, "put", root, "viewer", TRUE), MCCall(root, "put", root, "admin", TRUE),
     MCCall(u1, "delete", root, "viewer", FALSE),
     MCCall(root, "delete", u1, "viewer", FALSE),
     MCCall(root, "workspace", root, "viewer", TRUE),
     MCCall(root, "register", u1, "viewer", TRUE),
     MCCall(u1, "decide", u1, "viewer", TRUE)}
=============================================================================
