------------------------------ MODULE MCFormFill ------------------------------
(* Two cores, two questions of one skill, two clicks and two handlers. *)
EXTENDS FormFill, TLC

CONSTANTS c1, c2, q1, q2, k1, k2, w1, w2, token

MCCores == {c1, c2}
MCQuestions == {q1, q2}
MCTokenOf == [q \in Questions |-> token]
MCClicks == {k1, k2}
MCWorkers == {w1, w2}
=============================================================================
