----------------------------- MODULE MCCatalog -----------------------------
EXTENDS Catalog, TLC

CONSTANTS w1, n1, kb1, p1, pv1, k1, kv1, m1

MCKbHome == (kb1 :> w1)

\* A skill that needs the tool, the knowledge base and the network.
MCSkillSpecs == {[tools |-> {n1}, kbs |-> {kb1}, network |-> TRUE, complete |-> TRUE]}

\* An agent with a system prompt only, one that also has a first-turn template,
\* and one with tools, skill and knowledge base; the last two use the first model
\* configuration.
MCAgentConfigs ==
    {[sys |-> p, user |-> None, model |-> m, tools |-> {}, skills |-> {},
      kbs |-> {}, network |-> TRUE] : p \in PromptVersions, m \in ModelVersions}
    \cup
    {[sys |-> p[1], user |-> p[2], model |-> m1, tools |-> {}, skills |-> {},
      kbs |-> {}, network |-> FALSE] :
        p \in {q \in PromptVersions \X PromptVersions : q[1] # q[2]}}
    \cup
    {[sys |-> p, user |-> None, model |-> m1, tools |-> {t}, skills |-> {k},
      kbs |-> {kb1}, network |-> TRUE] :
        p \in PromptVersions, t \in ToolVersions, k \in SkillVersions}

MCSeed == [ws |-> w1, prompt |-> p1, promptVersion |-> pv1, skill |-> k1,
           skillVersion |-> kv1, modelVersion |-> m1]

Symmetry == Permutations(Requests)
=============================================================================
