------------------------- MODULE RuntimeCoordinator -------------------------
(***************************************************************************)
(* SharedRuntimeCoordinator (src-tauri/src/shared_runtime_coordinator.rs): *)
(* the in-memory owner of the turns a native runtime is working on.        *)
(*                                                                         *)
(* The runtime reports events that name their native session and, mostly,  *)
(* the runtime turn.  The coordinator attributes them to attempts, holds   *)
(* back those that come before the dispatch knows its runtime turn or has  *)
(* recorded the acceptance, settles an attempt at its first terminal, and  *)
(* wakes the tasks that wait.  Everything but the waiting happens under    *)
(* one mutex, so a method is a step, and a waiting method is a step per    *)
(* critical section or await.                                              *)
(*                                                                         *)
(* One provider runtime and one native session, which the attempts of a    *)
(* binding use one after the other.  The runtime turn of attempt a is      *)
(* called a.  Tool, reasoning and text deltas are one kind of event; the   *)
(* provisioning hold, which only delays UI events of session starts, is    *)
(* left out.                                                               *)
(***************************************************************************)
EXTENDS Integers, Sequences

CONSTANTS Attempts,   \* 1 .. n, in the order in which they are dispatched
          Observed,   \* the attempts with a task in wait_for_settlement
          Scripts,    \* what the runtime turns may report, a sequence of events each
          QueueLimit, \* MAX_UNOWNED_EVENTS
          None

Outcomes == {"completed", "failed"}

\* An event that is not named only has the identity of the native session.
Kinds == {"delta", "echo", "terminal"}

ScriptEvent == [kind : Kinds, outcome : Outcomes, named : BOOLEAN]

ASSUME CoordinatorAssumption ==
    /\ Attempts \subseteq Nat \ {0}
    /\ QueueLimit \in Nat \ {0}
    /\ Scripts \subseteq [Attempts -> Seq(ScriptEvent)]
    /\ Observed \subseteq Attempts
    \* Terminals name their runtime turn.
    /\ \A s \in Scripts, a \in Attempts : \A i \in 1 .. Len(s[a]) :
           s[a][i].kind = "terminal" => s[a][i].named

VARIABLES entry,     \* attempts: per attempt its accumulator, or None
          turnMap,   \* attempt_by_runtime_turn
          nativeMap, \* attempt_by_native_session, of the one session
          held,      \* held_attempt_by_native_session, of the one session
          barrier,   \* replay_barriers: the queue of the attempt, or None
          unowned,   \* unowned_events
          dropped,   \* events lost to the limit of that queue
          script,    \* what each runtime turn reports
          emitted,   \* how much of it has been reported
          applied,   \* history: the events applied to each attempt
          dispatch,  \* how far dispatch_turn is with the attempt
          waiter     \* a task in wait_for_settlement, per attempt

maps   == <<turnMap, nativeMap, held>>
queues == <<barrier, unowned, dropped>>
source == <<script, emitted>>
vars   == <<entry, maps, queues, source, applied, dispatch, waiter>>

Event == [of : Attempts, pos : Nat, kind : Kinds, outcome : Outcomes, turn : Attempts \cup {None}]

EventAt(a, i) ==
    LET e == script[a][i]
    IN  [of |-> a, pos |-> i, kind |-> e.kind, outcome |-> e.outcome,
         turn |-> IF e.named THEN a ELSE None]

\* permit: the stored wake-up of context_ack_notify
Entry == [turn    : Attempts \cup {None},
          ack     : BOOLEAN,
          permit  : BOOLEAN,
          cancel  : BOOLEAN,
          settled : Outcomes \cup {"cancelled", None}]

Registered(a) == entry[a] # None
Settled(a) == Registered(a) /\ entry[a].settled # None

ASSUME NoneAssumption ==
    /\ None \notin Attempts
    /\ None \notin Outcomes \cup {"cancelled"}
    /\ None \notin Entry
    /\ None \notin Seq(Event)

IsEcho(e)     == e.kind = "echo"
IsTerminal(e) == e.kind = "terminal"

Echoes    == {e \in Event : IsEcho(e)}
Terminals == {e \in Event : IsTerminal(e)}
Naming(T) == {e \in Event : e.turn \in T}

\* The events of es that are in K, in their order.
Kept(es, K) ==
    LET upTo[i \in 0 .. Len(es)] ==
            IF i = 0 THEN <<>>
            ELSE IF es[i] \in K THEN Append(upTo[i - 1], es[i]) ELSE upTo[i - 1]
    IN  upTo[Len(es)]

-----------------------------------------------------------------------------
(* Routing. *)

\* Mutant: an event of another runtime turn falls back to the native session.
ResolveLoosely(e) ==
    IF e.turn # None /\ turnMap[e.turn] # None THEN turnMap[e.turn]
    ELSE IF nativeMap # None /\ Registered(nativeMap) THEN nativeMap
    ELSE None

\* resolve_attempt_id: by the exact runtime turn, else by the native session
\* unless both sides name a runtime turn.
Resolve(e) ==
    IF e.turn # None /\ turnMap[e.turn] # None THEN turnMap[e.turn]
    ELSE IF /\ nativeMap # None /\ Registered(nativeMap)
            /\ e.turn = None \/ entry[nativeMap].turn = None
         THEN nativeMap
    ELSE None

\* is_exact_native_held_ingress
IsHeld == held # None /\ Registered(held)

\* A terminal settles the attempt; a failure that was asked for is a cancellation.
SettledBy(e, acc) == IF acc.cancel /\ e.outcome = "failed" THEN "cancelled" ELSE e.outcome

FirstIn(S) == CHOOSE i \in S : \A j \in S : i <= j

\* Mutant: a later terminal replaces the settlement.
AppliedRepeated(es, acc) ==
    LET names == {i \in 1 .. Len(es) : es[i].turn # None}
        ends  == {i \in 1 .. Len(es) : IsTerminal(es[i])}
    IN  [acc EXCEPT !.turn    = IF acc.turn = None /\ names # {} THEN es[FirstIn(names)].turn ELSE acc.turn,
                    !.settled = IF ends # {} THEN SettledBy(es[FirstIn(ends)], acc) ELSE acc.settled]

\* apply_ingress of one event after the other: the attempt learns its runtime
\* turn from the first that names one; and apply, which notes an echo and is
\* settled by the first terminal: a settled attempt takes no more.
Applied(es, acc) ==
    LET names  == {i \in 1 .. Len(es) : es[i].turn # None}
        ends   == {i \in 1 .. Len(es) : IsTerminal(es[i])}
        echoed == \E i \in 1 .. Len(es) :
                     acc.settled = None /\ IsEcho(es[i]) /\ \A j \in ends : i < j
    IN  [acc EXCEPT !.turn    = IF acc.turn = None /\ names # {} THEN es[FirstIn(names)].turn ELSE acc.turn,
                    !.ack     = acc.ack \/ echoed,
                    !.permit  = acc.permit \/ (echoed /\ ~ acc.ack),
                    !.settled = IF acc.settled = None /\ ends # {}
                                THEN SettledBy(es[FirstIn(ends)], acc) ELSE acc.settled]

\* settlement_notify.notify_waiters: wakes whoever is enabled by then.
Notified(a) == [waiter EXCEPT ![a].woken = @ \/ waiter[a].at \in {"armed", "parked"}]

HasTerminal(es) == \E i \in 1 .. Len(es) : IsTerminal(es[i])

\* Mutant: a terminal that joins the queue wakes nobody.
QueuedSilently(es, acc) ==
    LET echoed == acc.settled = None /\ \E i \in 1 .. Len(es) : IsEcho(es[i])
    IN  [acc EXCEPT !.ack = acc.ack \/ echoed, !.permit = acc.permit \/ (echoed /\ ~ acc.ack)]

\* queue_behind_replay_barrier: an echo is applied at once, the rest waits; a
\* terminal wakes the task that waits for the echo.
QueuedEffect(es, acc) ==
    LET echoed == acc.settled = None /\ \E i \in 1 .. Len(es) : IsEcho(es[i])
    IN  [acc EXCEPT !.ack    = acc.ack \/ echoed,
                    !.permit = acc.permit \/ (echoed /\ ~ acc.ack) \/ HasTerminal(es)]

Waiting(es) == Kept(es, Event \ Echoes)

Apply(a, es) ==
    /\ entry' = [entry EXCEPT ![a] = Applied(es, entry[a])]
    /\ turnMap' = IF entry'[a].turn # None THEN [turnMap EXCEPT ![entry'[a].turn] = a] ELSE turnMap
    /\ nativeMap' = a
    /\ applied' = [applied EXCEPT ![a] = @ \o es]
    /\ waiter' = IF entry'[a].settled # entry[a].settled THEN Notified(a) ELSE waiter

\* Mutant: the queue of unowned events grows without limit.
BufferedAll(e) == Append(unowned, e)

Buffered(e) == Append(IF Len(unowned) >= QueueLimit THEN Tail(unowned) ELSE unowned, e)

\* An event nobody owns is not an event of a shared session, or is buffered.
IngestUnowned(e) ==
    /\ Resolve(e) = None
    /\ \/ ~ IsHeld /\ UNCHANGED <<unowned, dropped>>
       \/ /\ IsHeld
          /\ unowned' = Buffered(e)
          /\ dropped' = IF Len(unowned) >= QueueLimit THEN dropped + 1 ELSE dropped
    /\ UNCHANGED <<entry, maps, barrier, applied, waiter>>

\* Mutant: an event overtakes the ones behind the barrier.
IngestDirectly(e) ==
    \/ IngestUnowned(e)
    \/ /\ Resolve(e) # None
       /\ Apply(Resolve(e), <<e>>)
       /\ UNCHANGED <<held, queues>>

\* ingest_or_buffer
Ingest(e) ==
    LET a == Resolve(e)
    IN  \/ IngestUnowned(e)
        \/ /\ a # None /\ barrier[a] # None
           /\ entry' = [entry EXCEPT ![a] = QueuedEffect(<<e>>, entry[a])]
           /\ barrier' = [barrier EXCEPT ![a] = @ \o Waiting(<<e>>)]
           /\ UNCHANGED <<maps, unowned, dropped, applied, waiter>>
        \/ /\ a # None /\ barrier[a] = None
           /\ Apply(a, <<e>>)
           /\ UNCHANGED <<held, queues>>

\* The runtime reports the next event of a turn whose prompt it has.
Emit(a) ==
    /\ dispatch[a] \notin {"none", "registered", "held"}
    /\ emitted[a] < Len(script[a])
    /\ emitted' = [emitted EXCEPT ![a] = @ + 1]
    /\ Ingest(EventAt(a, emitted[a] + 1))
    /\ UNCHANGED <<script, dispatch>>

-----------------------------------------------------------------------------
(* dispatch_turn's calls. *)

Move(a, from, to) == dispatch[a] = from /\ dispatch' = [dispatch EXCEPT ![a] = to]

\* register_attempt.  A turn is begun when the one before it is committed; its
\* entry may still be there.
Register(a) ==
    /\ Move(a, "none", "registered")
    /\ \A b \in Attempts : b < a => dispatch[b] # "none" /\ (Registered(b) => Settled(b))
    /\ entry' = [entry EXCEPT ![a] = [turn |-> None, ack |-> FALSE, permit |-> FALSE,
                                      cancel |-> FALSE, settled |-> None]]
    /\ UNCHANGED <<maps, queues, source, applied, waiter>>

\* hold_native_session; no other attempt holds the session any more.
HoldNativeSession(a) ==
    /\ Move(a, "registered", "held")
    /\ held \in {None, a}
    /\ held' = a
    /\ UNCHANGED <<entry, turnMap, nativeMap, queues, source, applied, waiter>>

SendPrompt(a) ==
    /\ Move(a, "held", "sent")
    /\ UNCHANGED <<entry, maps, queues, source, applied, waiter>>

\* The response of the runtime is lost, the dispatch gives up.
LoseResponse(a) ==
    /\ Move(a, "sent", "failed")
    /\ UNCHANGED <<entry, maps, queues, source, applied, waiter>>

\* Mutant: the barrier opens, and what came before stays behind.
BindLate(a) ==
    /\ Move(a, "sent", "bound")
    /\ Registered(a)
    /\ entry' = [entry EXCEPT ![a].turn = a]
    /\ turnMap' = [turnMap EXCEPT ![a] = a]
    /\ nativeMap' = a
    /\ held' = None
    /\ barrier' = [barrier EXCEPT ![a] = <<>>]
    /\ UNCHANGED <<unowned, dropped, source, applied, waiter>>

\* The user gave the turn up in the meantime.
BindRemoved(a) ==
    /\ Move(a, "sent", "failed")
    /\ ~ Registered(a)
    /\ UNCHANGED <<entry, maps, queues, source, applied, waiter>>

\* bind_runtime_turn and open_replay_barrier: the buffered events of this turn
\* go behind the barrier, the others of the held session to the native path.
BindRuntimeTurn(a) ==
    /\ Move(a, "sent", "bound")
    /\ Registered(a)
    /\ LET own == Kept(unowned, Naming({None, a}))
       IN  /\ entry' = [entry EXCEPT ![a] = QueuedEffect(own, [entry[a] EXCEPT !.turn = a])]
           /\ barrier' = [barrier EXCEPT ![a] = Waiting(own)]
    /\ turnMap' = [turnMap EXCEPT ![a] = a]
    /\ nativeMap' = a
    /\ held' = None
    /\ unowned' = <<>>
    /\ UNCHANGED <<dropped, source, applied, waiter>>

\* A turn that expects the echo of its context waits for it, others go on.
ExpectEcho(a) ==
    /\ Move(a, "bound", "checkAck") \/ Move(a, "bound", "draining")
    /\ UNCHANGED <<entry, maps, queues, source, applied, waiter>>

\* wait_for_context_ack_or_settlement under the lock: the echo decides, then a
\* terminal in the queue, which is drained to the end.
CheckAck(a) ==
    /\ dispatch[a] = "checkAck"
    /\ \/ ~ Registered(a) /\ Move(a, "checkAck", "failed")
          /\ UNCHANGED <<entry, maps, queues, applied, waiter>>
       \/ /\ Registered(a) /\ entry[a].ack
          /\ Move(a, "checkAck", "draining")
          /\ UNCHANGED <<entry, maps, queues, applied, waiter>>
       \/ /\ Registered(a) /\ ~ entry[a].ack /\ HasTerminal(barrier[a])
          /\ Move(a, "checkAck", "failed")
          /\ Apply(a, barrier[a])
          /\ barrier' = [barrier EXCEPT ![a] = None]
          /\ UNCHANGED <<held, unowned, dropped>>
       \/ /\ Registered(a) /\ ~ entry[a].ack /\ ~ HasTerminal(barrier[a])
          /\ Move(a, "checkAck", "awaitAck")
          /\ UNCHANGED <<entry, maps, queues, applied, waiter>>
    /\ UNCHANGED source

\* notified().await takes the permit.
WakeAck(a) ==
    /\ Move(a, "awaitAck", "checkAck")
    /\ Registered(a) /\ entry[a].permit
    /\ entry' = [entry EXCEPT ![a].permit = FALSE]
    /\ UNCHANGED <<maps, queues, source, applied, waiter>>

\* The dispatch gives up and leaves the barrier as it is.
AckTimeout(a) ==
    /\ Move(a, "awaitAck", "failed")
    /\ UNCHANGED <<entry, maps, queues, source, applied, waiter>>

\* drain_replay_barrier in the loop of dispatch_turn: a batch leaves the
\* barrier up, the empty drain takes it down.
Drain(a) ==
    /\ dispatch[a] = "draining"
    /\ \/ /\ barrier[a] \in {None, <<>>}
          /\ barrier' = [barrier EXCEPT ![a] = None]
          /\ Move(a, "draining", "done")
          /\ UNCHANGED <<entry, maps, applied, waiter>>
       \/ /\ barrier[a] \notin {None, <<>>}  \* a second terminal is dropped or, the same, ignored
          /\ Apply(a, barrier[a])
          /\ barrier' = [barrier EXCEPT ![a] = <<>>]
          /\ UNCHANGED <<held, dispatch>>
    /\ UNCHANGED <<unowned, dropped, source>>

\* mark_cancel_intent before the interrupt, which needs the runtime turn, and
\* clear_cancel_intent when it failed
CancelIntent(a, wanted) ==
    /\ Registered(a) /\ entry[a].turn # None
    /\ wanted => ~ Settled(a)
    /\ entry[a].cancel # wanted
    /\ entry' = [entry EXCEPT ![a].cancel = wanted]
    /\ UNCHANGED <<maps, queues, source, applied, dispatch, waiter>>

\* remove_attempt, with the waiters notified
RemoveAttempt(a) ==
    /\ Registered(a)
    /\ entry' = [entry EXCEPT ![a] = None]
    /\ barrier' = [barrier EXCEPT ![a] = None]
    /\ turnMap' = [t \in Attempts |-> IF turnMap[t] = a THEN None ELSE turnMap[t]]
    /\ nativeMap' = IF nativeMap = a THEN None ELSE nativeMap
    /\ held' = IF held = a THEN None ELSE held
    /\ unowned' = IF held = a THEN <<>> ELSE unowned
    /\ waiter' = Notified(a)
    /\ UNCHANGED <<dropped, source, applied, dispatch>>

\* The settlement is committed by the event sink, the dispatch or a waiter.
RemoveSettled(a) == Settled(a) /\ RemoveAttempt(a)

\* The user gives the turn up, whatever the dispatch does.
RemoveAbandoned(a) ==
    /\ dispatch[a] \notin {"none", "registered", "held"} /\ ~ Settled(a)
    /\ RemoveAttempt(a)

-----------------------------------------------------------------------------
(* wait_for_settlement: look, take the Notify, enable it, look again, sleep. *)

At(a, from, to) == waiter[a].at = from /\ waiter' = [waiter EXCEPT ![a].at = to]

StartWaiting(a) ==
    /\ a \in Observed  \* a window waits when the dispatch is over
    /\ dispatch[a] \in {"failed", "done"}
    /\ At(a, "idle", "look")
    /\ UNCHANGED <<entry, maps, queues, source, applied, dispatch>>

Look(a) ==
    /\ IF Registered(a) /\ ~ Settled(a) THEN At(a, "look", "noted") ELSE At(a, "look", "returned")
    /\ UNCHANGED <<entry, maps, queues, source, applied, dispatch>>

\* Mutant: no second look.
EnableOnly(a) ==
    /\ At(a, "noted", "parked")
    /\ UNCHANGED <<entry, maps, queues, source, applied, dispatch>>

Enable(a) ==
    /\ At(a, "noted", "armed")
    /\ UNCHANGED <<entry, maps, queues, source, applied, dispatch>>

LookAgain(a) ==
    /\ IF Registered(a) /\ ~ Settled(a) THEN At(a, "armed", "parked") ELSE At(a, "armed", "returned")
    /\ UNCHANGED <<entry, maps, queues, source, applied, dispatch>>

Wake(a) ==
    /\ waiter[a] = [at |-> "parked", woken |-> TRUE]
    /\ waiter' = [waiter EXCEPT ![a] = [at |-> "look", woken |-> FALSE]]
    /\ UNCHANGED <<entry, maps, queues, source, applied, dispatch>>

-----------------------------------------------------------------------------
Init ==
    /\ entry = [a \in Attempts |-> None]
    /\ turnMap = [a \in Attempts |-> None]
    /\ nativeMap = None
    /\ held = None
    /\ barrier = [a \in Attempts |-> None]
    /\ unowned = <<>>
    /\ dropped = 0
    /\ script \in Scripts
    /\ emitted = [a \in Attempts |-> 0]
    /\ applied = [a \in Attempts |-> <<>>]
    /\ dispatch = [a \in Attempts |-> "none"]
    /\ waiter = [a \in Attempts |-> [at |-> "idle", woken |-> FALSE]]

WaiterStep(a) == Look(a) \/ Enable(a) \/ LookAgain(a) \/ Wake(a)
AckStep(a) == CheckAck(a) \/ WakeAck(a)

Next ==
    \E a \in Attempts :
        \/ Emit(a)
        \/ Register(a) \/ HoldNativeSession(a) \/ SendPrompt(a) \/ LoseResponse(a)
        \/ BindRuntimeTurn(a) \/ BindRemoved(a) \/ ExpectEcho(a) \/ AckStep(a) \/ AckTimeout(a) \/ Drain(a)
        \/ \E wanted \in BOOLEAN : CancelIntent(a, wanted)
        \/ RemoveSettled(a) \/ RemoveAbandoned(a)
        \/ StartWaiting(a) \/ WaiterStep(a)

Spec == Init /\ [][Next]_vars

\* Tasks of the async runtime go on; runtimes, users and timers need not.
FairSpec ==
    /\ Spec
    /\ \A a \in Attempts : /\ WF_vars(WaiterStep(a))
                           /\ WF_vars(AckStep(a))
                           /\ WF_vars(ExpectEcho(a))
                           /\ WF_vars(Drain(a))

-----------------------------------------------------------------------------
\* Type invariant, with the limit of the buffer.
TypesWithinLimit ==
    /\ entry \in [Attempts -> Entry \cup {None}]
    /\ turnMap \in [Attempts -> Attempts \cup {None}]
    /\ nativeMap \in Attempts \cup {None}
    /\ held \in Attempts \cup {None}
    /\ barrier \in [Attempts -> Seq(Event) \cup {None}]
    /\ unowned \in Seq(Event) /\ Len(unowned) <= QueueLimit
    /\ dropped \in Nat
    /\ script \in Scripts
    /\ \A a \in Attempts : emitted[a] \in 0 .. Len(script[a])
    /\ applied \in [Attempts -> Seq(Event)]
    /\ dispatch \in [Attempts -> {"none", "registered", "held", "sent", "bound", "checkAck",
                                  "awaitAck", "draining", "failed", "done"}]
    /\ waiter \in [Attempts -> [at : {"idle", "look", "noted", "armed", "parked", "returned"},
                                woken : BOOLEAN]]

\* A late terminal of the turn before never settles the next turn, although
\* both use one native session, and none of its other named events gets there.
SettledByOwnTurn ==
    \A a \in Attempts : \A i \in 1 .. Len(applied[a]) :
        applied[a][i].turn \in {None, a}

\* No event of an attempt is overtaken or lost on its way: what was applied,
\* what is behind the barrier and what waits for an owner is, in this order,
\* what the runtime reported; unless the buffer overflowed.
Tracked == Naming(Attempts) \ Echoes
Of(a)   == {e \in Event : e.of = a}

Reported(a) == [i \in 1 .. emitted[a] |-> EventAt(a, i)]

NothingOvertakes ==
    \A a \in Attempts :
        Registered(a) /\ dropped = 0 =>
            Kept(applied[a] \o (IF barrier[a] = None THEN <<>> ELSE barrier[a])
                   \o Kept(unowned, Of(a)), Tracked)
              = Kept(Reported(a), Tracked)

\* The first terminal a runtime turn reports settles it: a repeated one cannot
\* turn a failure into a completion, whichever way the two came.  A failure
\* counts as cancelled if the user asked for the interrupt.
FirstTerminalDecides ==
    \A a \in Attempts :
        Settled(a) /\ dropped = 0 =>
            LET ended == Kept(Reported(a), Terminals)
            IN  /\ ended # <<>>
                /\ \/ entry[a].settled = ended[1].outcome
                   \/ entry[a].settled = "cancelled" /\ ended[1].outcome = "failed"

\* wait_for_settlement returns: no wake-up falls between the look and the sleep.
WaiterReturns ==
    \A a \in Attempts :
        /\ waiter[a].at \notin {"idle", "returned"} /\ (Settled(a) \/ ~ Registered(a))
        ~> waiter[a].at = "returned"

\* The dispatch that waits for the echo notices it, or the terminal that came
\* instead, without its time-out, unless the user gives the turn up meanwhile.
EchoIsNoticed ==
    \A a \in Attempts :
        /\ dispatch[a] = "awaitAck"
        /\ Registered(a) /\ (entry[a].ack \/ HasTerminal(barrier[a]))
        ~> dispatch[a] # "awaitAck" \/ ~ Registered(a)

\* The terminal of a turn whose dispatch did not give up settles the attempt.
HasEnded(a) == HasTerminal(Reported(a))

TerminalSettles ==
    \A a \in Attempts :
        /\ HasEnded(a) /\ dropped = 0
        /\ dispatch[a] \in {"bound", "checkAck", "awaitAck", "draining", "done"}
        ~> Settled(a) \/ ~ Registered(a) \/ dispatch[a] = "failed"
=============================================================================
