SPECIFICATION Spec
CONSTANTS
    Chats = {c1}
    Workers = {w1}
    Calls = {a1, a2}
    Procs <- MCProcs
    NoCall = NoCall
    MaxAttempts = 1
    MaxBatch = 2
    Crashes = FALSE
    Stalls = FALSE
INVARIANT ResumePersists
