----------------------------- MODULE MCAgentRun -----------------------------
(* One run of an agent with two of three knowledge bases attached, a skill   *)
(* the model may load and one that only the user may choose.                 *)
EXTENDS AgentRun

CONSTANTS search, ship, refund, kb1, kb2, kb3, claims, export

MCAllowedTools == claims :> {search, refund} @@ export :> {ship}
MCAllowedKBs == claims :> {kb1} @@ export :> {}
MCModelCalls ==
    [tool : {search}, kb : {kb1, kb2, kb3}] \cup [tool : {ship, refund}, kb : {NoKB}] \cup Loads
=============================================================================
