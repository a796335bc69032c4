------------------------- MODULE MCAgentLifecycle -------------------------
(* Two agents in the order of list_configs(). *)
EXTENDS AgentLifecycle

CONSTANTS a1, a2

MCOrder == <<a1, a2>>
=============================================================================
