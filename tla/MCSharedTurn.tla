---------------------------- MODULE MCSharedTurn ----------------------------
(* Instances of SharedTurn for TLC: one or two turns, one rebuild or none.   *)
EXTENDS SharedTurn

CONSTANTS c1, c2   \* windows

OneAttempt == 1 .. 1
TwoAttempts == 1 .. 2
OneGeneration == 1 .. 1
TwoGenerations == 1 .. 2
=============================================================================
