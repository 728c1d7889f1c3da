SPECIFICATION FairSpec
CONSTANTS
    NoFile = NoFile
    Docs = {d1}
    Contents = {x}
    Models = {m1, m2}
    Cuts = {k1}
    Syncs = {s1, s2}
    Workers = {w1}
    Faults = FALSE
    MaxEdits = 1
INVARIANTS ReadyIsActivated ProcessedIsIndexed
PROPERTY TaskIsNotLost
CHECK_DEADLOCK FALSE
