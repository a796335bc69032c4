-------------------------- MODULE MCReplyStreams --------------------------
(* Two gateways, the second of which may take over from the first. *)
EXTENDS ReplyStreams, TLC

CONSTANTS g1, g2

MCNodes == {g1, g2}
=============================================================================
