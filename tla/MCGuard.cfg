SPECIFICATION FairSpec
CONSTANTS
    Servers = {s1}
    Capacity = 1
    BatchSize = 2
    Callers = {c1, c2}
    Home <- MCHome
    Limit = 1
    CallHooks = {"llm"}
    MaxHooks = 1
INVARIANTS EntriesAccounted ClosedIsDrained WithinLimit RawTextIsStopped
PROPERTIES LimitLapses CloseReturns
CHECK_DEADLOCK FALSE
