-------------------------- MODULE MCGatewayBots --------------------------
(* Two gateways that share one bot. *)
EXTENDS GatewayBots

CONSTANTS g1, g2, b1

MCGateways == {g1, g2}
MCBots == {b1}
=============================================================================
