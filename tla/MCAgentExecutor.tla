--------------------------- MODULE MCAgentExecutor ---------------------------
(***************************************************************************)
(* Two runs of three stages, the first behind a gate, and two flows that   *)
(* overlap.                                                                *)
(***************************************************************************)
EXTENDS AgentExecutor

MCRuns     == 1 .. 2
MCFlows    == 1 .. 2
MCGated    == {1}
MCAttended == {1}
MCAttempts == 1 .. 7
=============================================================================
