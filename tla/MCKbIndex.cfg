SPECIFICATION Spec
CONSTANTS
    Docs = {d1}
    Contents = {x, y}
    NoFile = NoFile
    Models = {m1, m2}
    Cuts = {k1}
    Syncs = {s1, s2}
    Workers = {w1}
    Faults = TRUE
    MaxEdits = 2
SYMMETRY MCSymmetry
INVARIANTS SearchIsSound NoOrphanChunks
PROPERTY ReopenedIsUniform
CHECK_DEADLOCK FALSE
