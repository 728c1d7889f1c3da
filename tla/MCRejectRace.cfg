SPECIFICATION Spec
CONSTANTS
    Chats = {c1}
    Workers = {w1}
    Calls = {a1}
    Procs <- MCProcs
    NoCall = NoCall
    MaxAttempts = 1
    MaxBatch = 1
    Crashes = FALSE
    Stalls = FALSE
INVARIANT AwaitingHasCause
