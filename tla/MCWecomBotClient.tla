------------------------- MODULE MCWecomBotClient -------------------------
(* Up to three sockets at a time. *)
EXTENDS WecomBotClient, TLC

CONSTANTS s1, s2, s3

MCSockets == {s1, s2, s3}
=============================================================================
