\* One tool, two versions, two administrators: the publish gate against edits.
CONSTANTS
    Workspaces = {w1}
    Tools = {t1}
    ToolVersions = {v1, v2}
    ToolNames = {n1}
    Configs = {c1}
    Secrets = {s1}
    Requests = {r1, r2}
    MaxRequests = 4
    None = None
SPECIFICATION ToolSpec
INVARIANT PublishedWasTested
CHECK_DEADLOCK FALSE
