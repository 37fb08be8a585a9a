-------------------------- MODULE MCSharedEventLog --------------------------
(***************************************************************************)
(* Two callers.  The commands contain two competing turns of the linear    *)
(* thread, the terminal of the first one under two different payloads, two *)
(* usage facts of one attempt, a squad fact whose second writer uses       *)
(* another event id, half of a shadow import, the first turn's ids in      *)
(* another session, a lone binding upsert and a session target.            *)
(***************************************************************************)
EXTENDS SharedEventLog

CONSTANTS s1, s2, a1, a2, v0, main

MCSlot == <<s1, main>>

Ev(id, fact, attempt, dedupe, payload) ==
    [session |-> s1, eventId |-> id, fact |-> fact, attempt |-> attempt, dedupe |-> dedupe,
     payload |-> payload, squad |-> FALSE, fidelity |-> "canonical"]

Cmd(e, b, g) == [kind |-> "append", event |-> e, binding |-> b, guarded |-> g]

Bind(v) == [slot |-> MCSlot, value |-> v]

MCSessions == {s1, s2}
MCEventIds == {"req1", "req2", "com1", "use1", "use2", "sq", "sq2", "shadow"}
MCAttempts == {a1, a2, v0}
MCDedupeKeys == {"use1", "use2", "sq"}
MCPayloads == {"p", "q"}
MCBindingKeys == {main}
MCBindingValues == {"ready", "pending", "recovery"}

MCRequests ==
    { Cmd(Ev("req1", "turnRequested", a1, Null, "p"), Bind("ready"), TRUE),
      Cmd(Ev("req2", "turnRequested", a2, Null, "p"), Bind("ready"), TRUE),
      Cmd(Ev("com1", "turnCommitted", a1, Null, "p"), Bind("pending"), FALSE),
      Cmd(Ev("com1", "turnCommitted", a1, Null, "q"), Bind("pending"), FALSE),
      Cmd(Ev("use1", "usageRecorded", a1, "use1", "p"), Null, FALSE),
      Cmd(Ev("use2", "usageRecorded", a1, "use2", "p"), Null, FALSE),
      Cmd(Ev("sq", "squad", Null, "sq", "p"), Null, FALSE),
      Cmd(Ev("sq2", "squad", Null, "sq", "p"), Null, FALSE),
      Cmd([Ev("shadow", "turnRequested", v0, Null, "p") EXCEPT !.fidelity = "presentation-only"],
          Null, FALSE),
      Cmd([Ev("req1", "turnRequested", a1, Null, "q") EXCEPT !.session = s2], Null, TRUE),
      [kind |-> "binding", binding |-> Bind("recovery")],
      [kind |-> "target", session |-> s1] }
=============================================================================
