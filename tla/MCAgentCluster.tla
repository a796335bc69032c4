-------------------------- MODULE MCAgentCluster --------------------------
(* Two cores that share one agent. *)
EXTENDS AgentCluster

CONSTANTS c1, c2, a1

MCCores == {c1, c2}
MCAgents == {a1}
=============================================================================
