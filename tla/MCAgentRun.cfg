SPECIFICATION FairSpec
CONSTANTS
    search = search ship = ship refund = refund
    kb1 = kb1 kb2 = kb2 kb3 = kb3
    claims = claims export = export
    Tools = {search, ship, refund}
    Sensitive = {refund}
    NetworkTools = {ship}
    KBScoped = {search}
    KBs = {kb1, kb2, kb3}
    NoKB = NoKB
    AgentKBs = {kb1, kb2}
    Skills = {claims, export}
    NoSkill = NoSkill
    ManualSkills = {export}
    NetworkSkills = {export}
    AllowedTools <- MCAllowedTools
    AllowedKBs <- MCAllowedKBs
    Runs = {r1}
    MaxSteps = 2
    MaxRetries = 1
    MaxBatch = 2
    ModelCalls <- MCModelCalls
    EventCap = 1
INVARIANTS ExecutedWasPermitted SkillRestored RepliesAreTrue
PROPERTY RunEnds
CHECK_DEADLOCK FALSE
