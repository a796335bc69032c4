--------------------------- MODULE MCSessionLock ---------------------------
(* Three calls of acquire() on one session: two on one core, one on another. *)
EXTENDS SessionLock

CONSTANTS h1, h2, h3, c1, c2

MCHandlers == {h1, h2, h3}
MCCores == {c1, c2}
MCCoreOf == [h \in MCHandlers |-> IF h = h3 THEN c2 ELSE c1]
=============================================================================
