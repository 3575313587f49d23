----------------------------- MODULE MCAgentRun -----------------------------
(* Instance of AgentRun: the three agent profiles and the code's own budget *)
(* of six steps.                                                            *)
EXTENDS AgentRun

MCProfiles == {"known-bad", "fixed", "llm"}
=============================================================================
