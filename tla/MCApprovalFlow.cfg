SPECIFICATION Spec
CONSTANTS
    Chats = {c1}
    Workers = {w1, w2}
    Calls = {a1}
    Procs <- MCProcs
    NoCall = NoCall
    MaxAttempts = 2
    MaxBatch = 1
    Crashes = TRUE
    Stalls = TRUE
SYMMETRY MCSymmetry
INVARIANTS AwaitedIsResumable TurnsSerialised AtMostOnce OnlyApprovedRuns AnsweredOnce CompletedIsAnswered
PROPERTY GovernedSpec
