------------------------ MODULE MCRuntimeCoordinator ------------------------
(***************************************************************************)
(* Two turns on one native session.  A turn reports a delta, the echo of   *)
(* its context or a delta without a turn identity, ends, and may repeat    *)
(* its terminal once; the buffer for unowned events holds two.  A task     *)
(* waits for the settlement of the first turn.                             *)
(***************************************************************************)
EXTENDS RuntimeCoordinator

MCAttempts == 1 .. 2
MCObserved == {1}

E(kind, outcome, named) == [kind |-> kind, outcome |-> outcome, named |-> named]

Twice == <<E("delta", "completed", TRUE), E("terminal", "completed", TRUE), E("terminal", "failed", TRUE)>>
Once  == <<E("echo", "completed", FALSE), E("delta", "completed", FALSE), E("terminal", "failed", TRUE)>>

MCScripts == {<<Twice, Once>>, <<Once, Twice>>}
=============================================================================
