SPECIFICATION FairSpec
CONSTANTS
    Chats = {c1}
    Workers = {w1}
    Calls = {a1}
    Procs <- MCProcs
    NoCall = NoCall
    MaxAttempts = 2
    MaxBatch = 1
    Crashes = TRUE
    Stalls = FALSE
PROPERTIES ApprovedIsDriven TurnIsGivenBack
