------------------------ MODULE StartupOrchestrator ------------------------
(***************************************************************************)
(* StartupOrchestrator (src/features/startup-orchestration/utils/          *)
(* startupOrchestrator.ts): the queue through which the window loads its   *)
(* catalogs and thread lists.                                              *)
(*                                                                         *)
(* run joins a request under way with the same dedupe key or queues a new  *)
(* one; a drain starts what the limits of the phase and of the concurrency *)
(* key admit, in order of phase, priority and age; a started body races    *)
(* its timer; a cancellation answers the callers with the fallback and     *)
(* frees the slot while the body goes on.  The code is single threaded, so *)
(* an action is what runs between two awaits, with the microtasks that     *)
(* follow it at once.                                                      *)
(*                                                                         *)
(* A request is named by its generation.  Every caller of the repository   *)
(* cancels with the reason "stale".  A caller does not ask for the same    *)
(* key again within the microtasks between the answer of its timed-out     *)
(* request and the release of that request's slot: no caller does.         *)
(***************************************************************************)
EXTENDS Integers, Sequences, SequencesExt, FiniteSets

CONSTANTS Descriptors, \* what callers ask for: key, phase, priority, heavy, scope
          PhaseLimit,  \* phaseConcurrency
          HeavyLimit,  \* heavyCommandConcurrency, of the limited concurrency keys
          MaxRuns,     \* bound: how many requests are queued in a run
          None

Phases == <<"critical", "first-paint", "active-workspace", "idle-prewarm", "on-demand">>

Keys   == {d.key : d \in Descriptors}
Heavy  == {d.heavy : d \in Descriptors}
Scopes == {d.scope : d \in Descriptors}

Generations == 1 .. MaxRuns

ASSUME OrchestratorAssumption ==
    /\ \A d \in Descriptors : d.phase \in ToSet(Phases) /\ d.priority \in Nat
    /\ PhaseLimit \in [ToSet(Phases) -> Nat \ {0}]
    /\ DOMAIN HeavyLimit \subseteq Heavy
    /\ \A h \in DOMAIN HeavyLimit : HeavyLimit[h] \in Nat \ {0}
    /\ MaxRuns \in Nat
    /\ None \notin Descriptors /\ None \notin 1 .. MaxRuns

VARIABLES queue,    \* the generations in this.queue
          inFlight, \* inFlightByDedupeKey, the promise named by its generation
          running,  \* runningByDedupeKey
          count,    \* runningCountByPhase and runningCountByConcurrencyKey
          stale,    \* cancelledGenerations
          idle,     \* the slice of idle work, the resumed and the scheduled flag
          req       \* per generation the promise and its startTask

vars == <<queue, inFlight, running, count, stale, idle, req>>

\* at: where the request is; "degrading" is the await of the timeout's fallback.
\* body: descriptor.run; whether it returns or throws is left open.
\* settling: its fallback is awaited; released: a cancellation took its slot.
Absent == [desc |-> None, at |-> "absent", body |-> "none", settling |-> FALSE,
           answered |-> FALSE, released |-> FALSE]

Request ==
    [desc     : Descriptors \cup {None},
     at       : {"absent", "queued", "racing", "degrading", "ended"},
     body     : {"none", "running", "ended"},
     settling : BOOLEAN,
     answered : BOOLEAN,
     released : BOOLEAN]

\* settled of startTask: the answer is given or its fallback is under way
IsSettled(g) == req[g].settling \/ req[g].answered

KeyOf(rq, g) == rq[g].desc.key

-----------------------------------------------------------------------------
(* The drain. *)

PhaseRank(phase) == CHOOSE i \in DOMAIN Phases : Phases[i] = phase

\* The order of the queue: phase, priority, age.
Before(rq, g, h) ==
    LET a == rq[g].desc
        b == rq[h].desc
    IN  \/ PhaseRank(a.phase) < PhaseRank(b.phase)
        \/ a.phase = b.phase /\ a.priority > b.priority
        \/ a.phase = b.phase /\ a.priority = b.priority /\ g < h

\* canStart
CanStart(c, d) ==
    /\ c.phase[d.phase] < PhaseLimit[d.phase]
    /\ d.heavy \in DOMAIN HeavyLimit => c.heavy[d.heavy] < HeavyLimit[d.heavy]

\* incrementRunning
Incremented(c, d) ==
    [phase |-> [c.phase EXCEPT ![d.phase] = @ + 1],
     heavy |-> [c.heavy EXCEPT ![d.heavy] = @ + 1]]

\* The requests of gs in a phase, and those with a concurrency key.
InPhase(rq, gs, p) == {g \in gs : rq[g].desc.phase = p}
WithKey(rq, gs, h) == {g \in gs : rq[g].desc.heavy = h}

\* Math.max(0, n - m)
Less(n, m) == IF n > m THEN n - m ELSE 0

\* decrementRunning, for every request of gs
Decremented(c, rq, gs) ==
    [phase |-> [p \in ToSet(Phases) |-> Less(c.phase[p], Cardinality(InPhase(rq, gs, p)))],
     heavy |-> [h \in Heavy |-> Less(c.heavy[h], Cardinality(WithKey(rq, gs, h)))]]

\* shouldYieldIdleTask: the budget of the slice is spent, and this is not the
\* drain that was put off for it.
Yields(i, d) == d.phase = "idle-prewarm" /\ ~ i.resumed /\ i.slice = "spent"

\* Mutant: a drain that yields does not come back.
AfterYieldForgotten(i) == [i EXCEPT !.slice = "fresh"]

\* The yield opens a new slice and schedules one resumption.
AfterYield(i) == [i EXCEPT !.slice = "fresh", !.scheduled = TRUE]

AfterIdleStart(i, d) ==
    IF d.phase # "idle-prewarm" THEN i
    ELSE [i EXCEPT !.resumed = FALSE, !.slice = IF i.resumed \/ @ = "none" THEN "fresh" ELSE @]

\* The head of the sorted queue
First(rq, q) == CHOOSE g \in q : \A h \in q \ {g} : Before(rq, g, h)

\* A turn of the loop of drainQueue: the next request is passed over, or
\* started, or it yields and that ends the loop.
Visit(rq, s) ==
    LET g == First(rq, s.rest)
        d == rq[g].desc
        passed == [s EXCEPT !.rest = @ \ {g}]
    IN  IF s.rest = {} THEN s
        ELSE IF ~ CanStart(s.count, d) THEN passed
        ELSE IF Yields(s.idle, d) THEN [s EXCEPT !.rest = {}, !.idle = AfterYield(@)]
        ELSE [passed EXCEPT !.started = @ \cup {g},
                            !.count = Incremented(@, d),
                            !.idle = AfterIdleStart(@, d)]

\* drainQueue: everything the limits admit is started, in order.
Drain(i, rq, q, c) ==
    LET loop[n \in 0 .. Cardinality(q)] ==
            IF n = 0 THEN [rest |-> q, started |-> {}, count |-> c, idle |-> i]
            ELSE Visit(rq, loop[n - 1])
    IN  loop[Cardinality(q)]

\* startTask up to its first await
Started(r) == [r EXCEPT !.at = "racing", !.body = "running"]

Registered(rq, run, gs) ==
    [k \in Keys |-> IF \E g \in gs : KeyOf(rq, g) = k
                    THEN CHOOSE g \in gs : KeyOf(rq, g) = k
                    ELSE run[k]]

\* The step ends with a drain of what it left.
DrainedFrom(i, rq, q, run, c) ==
    LET s == Drain(i, rq, q, c)
    IN  /\ queue' = q \ s.started
        /\ count' = s.count
        /\ idle' = s.idle
        /\ running' = Registered(rq, run, s.started)
        /\ req' = [g \in Generations |-> IF g \in s.started THEN Started(rq[g]) ELSE rq[g]]

Drained(rq, q, run, c) == DrainedFrom(idle, rq, q, run, c)

Undrained(rq, q, run, c) ==
    queue' = q /\ count' = c /\ running' = run /\ req' = rq /\ UNCHANGED idle

-----------------------------------------------------------------------------
Init ==
    /\ queue = {}
    /\ inFlight = [k \in Keys |-> None]
    /\ running = [k \in Keys |-> None]
    /\ count = [phase |-> [p \in ToSet(Phases) |-> 0], heavy |-> [h \in Heavy |-> 0]]
    /\ stale = {}
    /\ idle = [slice |-> "none", resumed |-> FALSE, scheduled |-> FALSE]
    /\ req = [g \in Generations |-> Absent]

\* run, of a key that is not in flight; a caller that joins changes nothing.
Run(d) ==
    /\ inFlight[d.key] = None
    /\ \E g \in Generations :
          /\ req[g] = Absent /\ \A h \in 1 .. g - 1 : req[h] # Absent
          /\ Drained([req EXCEPT ![g].desc = d, ![g].at = "queued"],
                     queue \cup {g}, running, count)
          /\ inFlight' = [inFlight EXCEPT ![d.key] = g]
    /\ UNCHANGED stale

\* Mutant: finally releases what a cancellation has released.
FinallyAlways(rq, g) ==
    /\ stale' = stale \ {g}
    /\ Drained(rq, queue, [running EXCEPT ![KeyOf(rq, g)] = None],
               Decremented(count, rq, {g}))

\* The finally block of startTask.  The flag it sets cannot be read again.
Finally(rq, g) ==
    /\ stale' = stale \ {g}
    /\ IF rq[g].released
       THEN Undrained(rq, queue, running, count)
       ELSE Drained(rq, queue, [running EXCEPT ![KeyOf(rq, g)] = None],
                    Decremented(count, rq, {g}))

\* Mutant: whatever promise the key has is taken out.
ReleaseAnyInFlight(g) == inFlight' = [inFlight EXCEPT ![KeyOf(req, g)] = None]

\* releaseInFlight: the promise that is answered leaves the map, if it is there.
ReleaseInFlight(g) ==
    inFlight' = [inFlight EXCEPT ![KeyOf(req, g)] = IF @ = g THEN None ELSE @]

\* The body ends before its timer: the request is answered unless a
\* cancellation did so, and startTask ends.
BodyWins(g) ==
    /\ req[g].at = "racing" /\ req[g].body = "running"
    /\ Finally([req EXCEPT ![g].at = "ended",
                           ![g].body = "ended",
                           ![g].answered = @ \/ ~ IsSettled(g)], g)
    /\ IF IsSettled(g) THEN UNCHANGED inFlight ELSE ReleaseInFlight(g)

\* The body ends after its timer: nobody waits for it any more.
OrphanEnds(g) ==
    /\ req[g].at \in {"degrading", "ended"} /\ req[g].body = "running"
    /\ req' = [req EXCEPT ![g].body = "ended"]
    /\ UNCHANGED <<queue, inFlight, running, count, stale, idle>>

\* The timer wins: the fallback is asked for, or startTask ends at once when a
\* cancellation has asked for it.
TimesOut(g) ==
    /\ req[g].at = "racing"
    /\ IF IsSettled(g)
       THEN Finally([req EXCEPT ![g].at = "ended"], g)
       ELSE /\ req' = [req EXCEPT ![g].at = "degrading", ![g].settling = TRUE]
            /\ UNCHANGED <<queue, running, count, stale, idle>>
    /\ UNCHANGED inFlight

\* settleWithFallback after its await: the fallback's value or its error
FallbackEnds(g) ==
    /\ req[g].settling
    /\ LET answered == [req EXCEPT ![g].settling = FALSE, ![g].answered = TRUE]
       IN  IF req[g].at = "degrading"
           THEN Finally([answered EXCEPT ![g].at = "ended"], g)
           ELSE req' = answered /\ UNCHANGED <<queue, running, count, stale, idle>>
    /\ ReleaseInFlight(g)

-----------------------------------------------------------------------------
(* Cancellation. *)

\* Mutant: a queued request is answered but stays in the queue.
RemovedLate(q, gs) == q

\* removeQueuedTask
Removed(q, gs) == q \ gs

\* cancelQueuedTask
CancelledQueued(r) == [r EXCEPT !.at = "ended", !.settling = TRUE]

\* cancelRunningTask: abort, mark stale, ask for the fallback, free the slot.
CancelledRunning(r) ==
    [r EXCEPT !.settling = @ \/ ~ r.answered, !.released = TRUE]

\* The registered requests among gs that still hold their slot.
Holding(gs) == {g \in gs : \E k \in Keys : running[k] = g /\ ~ req[g].released}

\* The loops over the queue and over the running requests.
Cancelled(gs) ==
    [g \in Generations |-> IF g \in gs \cap queue THEN CancelledQueued(req[g])
                           ELSE IF g \in Holding(gs) THEN CancelledRunning(req[g])
                           ELSE req[g]]

Freed(gs) == Decremented(count, req, Holding(gs))

Deregistered(gs) == [k \in Keys |-> IF running[k] \in Holding(gs) THEN None ELSE running[k]]

CancelEffect(gs) ==
    /\ stale' = stale \cup Holding(gs)
    /\ inFlight' = [k \in Keys |-> IF \E g \in (gs \cap queue) \cup Holding(gs) : KeyOf(req, g) = k
                                   THEN None ELSE inFlight[k]]

\* What a cancellation can find: the queue and runningByDedupeKey.
Known == queue \cup {g \in Generations : \E k \in Keys : running[k] = g}

\* Mutant: the slot is free and nobody looks at the queue.
CancelTaskUndrained(k) ==
    LET gs == {g \in Known : KeyOf(req, g) = k}
    IN  /\ gs # {}
        /\ CancelEffect(gs)
        /\ Undrained(Cancelled(gs), Removed(queue, gs), Deregistered(gs), Freed(gs))

\* cancelTask: the queued and the running request of the key.
CancelTask(k) ==
    LET gs == {g \in Known : KeyOf(req, g) = k}
    IN  /\ gs # {}
        /\ CancelEffect(gs)
        /\ Drained(Cancelled(gs), Removed(queue, gs), Deregistered(gs), Freed(gs))

\* cancelWorkspaceTasks, when the user leaves the workspace
CancelWorkspaceTasks(scope) ==
    LET gs == {g \in Known : req[g].desc.scope = scope}
    IN  /\ scope # "global"
        /\ CancelEffect(gs)
        /\ Drained(Cancelled(gs), Removed(queue, gs), Deregistered(gs), Freed(gs))

\* cancelAllTasks, when the user forces the start screen away: no drain.
CancelAllTasks ==
    /\ CancelEffect(Known)
    /\ Undrained(Cancelled(Known), Removed(queue, Known), Deregistered(Known), Freed(Known))

-----------------------------------------------------------------------------
(* Idle slices. *)

\* The budget of the slice, 16 ms, passes.
SliceElapses ==
    /\ idle.slice = "fresh"
    /\ idle' = [idle EXCEPT !.slice = "spent"]
    /\ UNCHANGED <<queue, inFlight, running, count, stale, req>>

\* resumeIdleDrainLater after its timer; the drain finds the flag it sets.
ResumeIdleDrain ==
    /\ idle.scheduled
    /\ DrainedFrom([idle EXCEPT !.scheduled = FALSE, !.resumed = TRUE], req, queue, running, count)
    /\ UNCHANGED <<inFlight, stale>>

-----------------------------------------------------------------------------
Next ==
    \/ \E d \in Descriptors : Run(d)
    \/ \E g \in Generations : BodyWins(g) \/ OrphanEnds(g) \/ TimesOut(g) \/ FallbackEnds(g)
    \/ \E k \in Keys : CancelTask(k)
    \/ \E w \in Scopes : CancelWorkspaceTasks(w)
    \/ CancelAllTasks
    \/ SliceElapses
    \/ ResumeIdleDrain

Spec == Init /\ [][Next]_vars

\* Timers fire and a fallback, which only builds a value, ends.  A body, which
\* waits for the backend, need not end.
Fairness ==
    /\ \A g \in Generations : WF_vars(TimesOut(g)) /\ WF_vars(FallbackEnds(g))
    /\ WF_vars(ResumeIdleDrain)

FairSpec == Spec /\ Fairness

-----------------------------------------------------------------------------
(* Properties. *)

\* Every variable has its type, and what waits in the queue was not answered.
TypeOK ==
    /\ queue \subseteq {g \in Generations : req[g].at = "queued"}
    /\ inFlight \in [Keys -> Generations \cup {None}]
    /\ running \in [Keys -> Generations \cup {None}]
    /\ count \in [phase : [ToSet(Phases) -> Nat], heavy : [Heavy -> Nat]]
    /\ stale \subseteq Generations
    /\ idle \in [slice : {"none", "fresh", "spent"}, resumed : BOOLEAN, scheduled : BOOLEAN]
    /\ req \in [Generations -> Request]

Occupying == {g \in Generations : req[g].at \in {"racing", "degrading"} /\ ~ req[g].released}

\* A slot belongs to a started request until its startTask ends or a
\* cancellation frees it, never to both: the counters of the phases and of the
\* concurrency keys are the requests that hold a slot, within their limits,
\* although a cancelled startTask goes on and ends later.
SlotsAccounted ==
    /\ \A p \in ToSet(Phases) :
          /\ count.phase[p] = Cardinality(InPhase(req, Occupying, p))
          /\ count.phase[p] <= PhaseLimit[p]
    /\ \A h \in Heavy :
          /\ count.heavy[h] = Cardinality(WithKey(req, Occupying, h))
          /\ h \in DOMAIN HeavyLimit => count.heavy[h] <= HeavyLimit[h]

\* No wake-up is lost: whatever waits in the queue while the limits would
\* admit it waits for a resumption that is scheduled.  Every place that frees
\* a slot has to drain the queue.
NothingIdles ==
    \A g \in queue : CanStart(count, req[g].desc) => idle.scheduled

\* A cancellation reaches its request.  Every request that holds a slot and is
\* not answered can be found by its key, and the callers of the key join it,
\* although the body of a cancelled request of the same key goes on and ends
\* later.  And while startTask waits for a body that was cancelled, the body's
\* isStale() is true; the timer of the request ends that (see the README).
CancelReaches ==
    \A g \in Generations :
        /\ g \in Occupying => running[KeyOf(req, g)] = g /\ inFlight[KeyOf(req, g)] = g
        /\ req[g].released /\ req[g].at = "racing" => g \in stale

\* Every request is answered: by its body, or by the fallback of its timeout
\* or of a cancellation.  Neither the limits, nor a body that never ends, nor
\* an idle slice that is spent leave a caller without an answer.
EveryRequestAnswered ==
    \A g \in Generations : req[g].at # "absent" ~> req[g].answered
=============================================================================
