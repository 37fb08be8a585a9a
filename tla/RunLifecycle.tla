---------------------------- MODULE RunLifecycle ----------------------------
(***************************************************************************)
(* What the squad commands promise the windows of a session: its runs are  *)
(* requested one after the other, at most one is open, and the outcome of  *)
(* a settled run is final.                                                 *)
(***************************************************************************)
EXTENDS Naturals

CONSTANT Runs

Outcomes == {"succeeded", "failed", "cancelled"}

VARIABLE phase

Init == phase = [r \in Runs |-> "absent"]

\* A request whose first stage cannot be prepared is settled at once.
Request(r) ==
    /\ \A q \in Runs : phase[q] # "open"
    /\ phase[r] = "absent"
    /\ \E p \in {"open", "failed"} : phase' = [phase EXCEPT ![r] = p]

Settle(r) ==
    /\ phase[r] = "open"
    /\ \E o \in Outcomes : phase' = [phase EXCEPT ![r] = o]

Next == \E r \in Runs : Request(r) \/ Settle(r)

Spec == Init /\ [][Next]_phase
=============================================================================
