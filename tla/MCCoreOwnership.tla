-------------------------- MODULE MCCoreOwnership --------------------------
(* Two cores and one agent: a lease, its holder and its contender. *)
EXTENDS CoreOwnership

CONSTANTS c1, c2, a1

MCCores == {c1, c2}
MCAgents == {a1}
=============================================================================
