CONSTANTS
    w1 = w1
    p1 = p1
    pv1 = pv1
    k1 = k1
    kv1 = kv1
    m1 = m1
    n1 = n1
    kb1 = kb1
    Workspaces = {w1, w2}
    Tools = {t1}
    ToolVersions = {tv1, tv2, tv3}
    ToolNames = {n1}
    Configs = {c1}
    Secrets = {s1}
    Requests = {r1, r2}
    MaxRequests = 3
    None = None
    Prompts = {p1, p2}
    PromptVersions = {pv1, pv2, pv3}
    Skills = {k1, k2}
    SkillVersions = {kv1, kv2}
    ModelVersions = {m1, m2, m3}
    Settings = {x1, x2}
    Agents = {a1, a2}
    AgentVersions = {av1, av2}
    Conversations = {cv1}
    KBs = {kb1}
    KbHome <- MCKbHome
    SkillSpecs <- MCSkillSpecs
    Seed <- MCSeed
    AgentConfigs <- MCAgentConfigs
SPECIFICATION Spec
INVARIANTS
    TypeOK
    VersionsAreDense
    ReleasedRuns
    ModelVersionsDiffer
    BindingsOwn
PROPERTY VersionsImmutable
SYMMETRY Symmetry
CHECK_DEADLOCK FALSE
