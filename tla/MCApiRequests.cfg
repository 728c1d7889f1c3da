CONSTANTS
    root = root
    u1 = u1
    w1 = w1
    Users = {root, u1}
    Workspaces = {w1, w2, w3, w4}
    Root = root
    None = None
    Orphan = Orphan
    Servers = {s1, s2}
    Requests = {r1, r2}
    Calls <- MCCalls
    MaxArrivals = 2
    MaxFaults = 1
SPECIFICATION FairSpec
INVARIANTS
    KeyIsExclusive
    KeyActsOnce
PROPERTIES OwnerKept RequestEnds
CHECK_DEADLOCK FALSE
