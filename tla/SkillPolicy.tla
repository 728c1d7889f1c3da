---------------------------- MODULE SkillPolicy ----------------------------
(***************************************************************************)
(* What a model may do in an agent run: the tools, knowledge bases and     *)
(* skills an agent version pins, and the checks agent_runtime.go makes of  *)
(* a tool call against the version and against the skill that is active.   *)
(***************************************************************************)
EXTENDS Sequences, Naturals

CONSTANTS
    Tools,          \* tools of the version; buildTools fills the four subsets below
    Sensitive,      \* tools that need an approval
    NetworkTools,   \* tools that need the network
    KBScoped,       \* tools whose arguments name a knowledge base
    KBs, NoKB,      \* NoKB: arguments without a usable kb_id
    AgentKBs,       \* knowledge bases attached to the version
    Skills, NoSkill,
    ManualSkills,   \* DisableModelInvocation
    NetworkSkills,  \* RequiresNetwork
    AllowedTools,   \* AllowedTools[s], AllowedKBs[s]: what skill s is limited to
    AllowedKBs

ASSUME PolicyAssumption ==
    /\ AgentKBs \subseteq KBs /\ NoKB \notin KBs
    /\ NoSkill \notin Skills
    /\ AllowedTools \in [Skills -> SUBSET Tools]
    /\ AllowedKBs \in [Skills -> SUBSET KBs]

\* A call the model puts in a batch: a tool, or the framework's skill tool.
Loads == [load : Skills]
ToolCalls == [tool : Tools, kb : KBs \cup {NoKB}]
IsLoad(c) == c \in Loads

\* toolPolicyError
Permitted(c, active, network) ==
    /\ active # NoSkill => c.tool \in AllowedTools[active]
    /\ c.tool \in NetworkTools => network
    /\ c.tool \in KBScoped =>
          /\ c.kb \in AgentKBs
          /\ active # NoSkill => c.kb \in AllowedKBs[active]

\* setBatchPolicy: one call that violates the policy denies the whole batch.
BatchDenied(batch, active, network) ==
    \E i \in DOMAIN batch : ~IsLoad(batch[i]) /\ ~Permitted(batch[i], active, network)

\* newADKAgent: the skills the model is offered.  A manual one is offered only
\* when the user named it (DetectExplicit).
Visible(explicit) == (Skills \ ManualSkills) \cup ({explicit} \cap Skills)

\* BuildContent, behind Backend.Get: does loading skill s activate it?
Activates(s, explicit, network) ==
    /\ s \in Visible(explicit)
    /\ s \in NetworkSkills => network
=============================================================================
