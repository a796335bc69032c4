------------------------- MODULE MCInboundStream -------------------------
(* Two cores, one agent, two messages of one session. *)
EXTENDS InboundStream, TLC

CONSTANTS c1, c2, a1, m1, m2, s1

MCCores == {c1, c2}
MCSymmetry == Permutations(MCCores)
MCAgents == {a1}
MCMessages == {m1, m2}
MCSessionOf == [m \in MCMessages |-> s1]
MCAgentOf == [m \in MCMessages |-> a1]
MCOneMessage == {m1}
MCOneSessionOf == [m \in MCOneMessage |-> s1]
MCOneAgentOf == [m \in MCOneMessage |-> a1]
=============================================================================
