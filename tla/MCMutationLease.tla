--------------------------- MODULE MCMutationLease ---------------------------
(***************************************************************************)
(* Two attempts of different sessions contend for one workspace, a third   *)
(* one, of the first session, works in another; three clock readings, in   *)
(* any order.                                                              *)
(***************************************************************************)
EXTENDS MutationLease, TLC

CONSTANTS a1, a2, a3, w1, w2

MCAttempts == {a1, a2, a3}
MCWorkspaces == {w1, w2}
MCSessions == {1, 2}
MCWorkspaceOf == (a1 :> w1) @@ (a2 :> w1) @@ (a3 :> w2)
MCSessionOf == (a1 :> 1) @@ (a2 :> 2) @@ (a3 :> 1)
MCTimes == 0 .. 2
=============================================================================
