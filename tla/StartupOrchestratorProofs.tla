--------------------- MODULE StartupOrchestratorProofs ---------------------
(***************************************************************************)
(* Proofs about the start-up orchestrator: for every set of descriptors,   *)
(* every limit and every number of requests.                               *)
(*                                                                         *)
(* Every action that frees a slot or queues a request computes the state   *)
(* it leaves and drains from there.  So the invariant is stated of such a  *)
(* state (Sound): an action has to leave one, and a drain, whatever it     *)
(* starts, makes a sound state of a sound state in which nothing idles.    *)
(***************************************************************************)
EXTENDS StartupOrchestrator, Minima

Counters == [phase : [ToSet(Phases) -> Nat], heavy : [Heavy -> Nat]]

IdleFlags == [slice : {"none", "fresh", "spent"}, resumed : BOOLEAN, scheduled : BOOLEAN]

\* The requests that hold a slot; Occupying is that of the current state.
Holders(rq) == {g \in Generations : rq[g].at \in {"racing", "degrading"} /\ ~ rq[g].released}

\* The counters are the requests that hold a slot, within the limits.
Accounted(c, rq) ==
    /\ c \in Counters
    /\ \A p \in ToSet(Phases) :
          c.phase[p] = Cardinality(InPhase(rq, Holders(rq), p)) /\ c.phase[p] <= PhaseLimit[p]
    /\ \A h \in Heavy :
          /\ c.heavy[h] = Cardinality(WithKey(rq, Holders(rq), h))
          /\ h \in DOMAIN HeavyLimit => c.heavy[h] <= HeavyLimit[h]

\* A request that waits, and one that holds a slot, is the one in flight of its
\* key; so a key has one of them at most.
Placed(fl, run, st, rq, g) ==
    /\ IF rq[g].at = "absent" THEN ~ rq[g].settling ELSE rq[g].desc \in Descriptors
    /\ rq[g].at = "queued" =>
          ~ rq[g].settling /\ ~ rq[g].answered /\ ~ rq[g].released /\ fl[KeyOf(rq, g)] = g
    /\ g \in Holders(rq) =>
          /\ ~ rq[g].answered /\ (rq[g].at = "racing" => ~ rq[g].settling)
          /\ run[KeyOf(rq, g)] = g /\ fl[KeyOf(rq, g)] = g
    /\ rq[g].released /\ rq[g].at = "racing" => g \in st

Sound(q, fl, run, c, st, rq) ==
    /\ rq \in [Generations -> Request]
    /\ fl \in [Keys -> Generations \cup {None}]
    /\ run \in [Keys -> Generations \cup {None}]
    /\ st \subseteq Generations
    /\ q = {g \in Generations : rq[g].at = "queued"}
    /\ Accounted(c, rq)
    /\ \A g \in Generations : Placed(fl, run, st, rq, g)
    /\ \A k \in Keys : run[k] # None => run[k] \in Holders(rq) /\ KeyOf(rq, run[k]) = k

Inv ==
    /\ Sound(queue, inFlight, running, count, stale, req)
    /\ idle \in IdleFlags
    /\ NothingIdles

-----------------------------------------------------------------------------
(* The order of the queue. *)

\* A function to the naturals has a greatest value on a finite nonempty set.
LEMMA GreatestValue ==
    ASSUME NEW S, IsFiniteSet(S), S # {}, NEW f, \A x \in S : f[x] \in Nat
    PROVE  \E m \in S : \A n \in S : f[n] <= f[m]
  <1> DEFINE T == {A \in SUBSET S : A # {} => \E m \in A : \A n \in A : f[n] <= f[m]}
  <1>1. ASSUME NEW A \in SUBSET S, \A x \in A : A \ {x} \in T PROVE A \in T
    <2> SUFFICES ASSUME A # {} PROVE \E m \in A : \A n \in A : f[n] <= f[m]
      OBVIOUS
    <2>1. PICK x \in A : TRUE
      OBVIOUS
    <2>2. A \ {x} \in T
      BY <1>1
    <2>3. CASE A \ {x} = {}
      <3>1. \A n \in A : n = x
        BY <2>3
      <3>2. f[x] \in Nat
        OBVIOUS
      <3> QED
        BY <3>1, <3>2
    <2>4. CASE A \ {x} # {}
      <3>1. PICK m \in A \ {x} : \A n \in A \ {x} : f[n] <= f[m]
        BY <2>2, <2>4
      <3>2. \A n \in A : f[n] \in Nat
        OBVIOUS
      <3>3. CASE f[x] <= f[m]
        BY <3>1, <3>3
      <3>4. CASE ~ (f[x] <= f[m])
        <4>1. \A n \in A : f[n] <= f[x]
          BY <3>1, <3>2, <3>4
        <4> QED
          BY <4>1
      <3> QED
        BY <3>3, <3>4
    <2> QED
      BY <2>3, <2>4
  <1>2. SUBSET S \subseteq T
    <2> HIDE DEF T
    <2> QED
      BY <1>1, SubsetsUpTo
  <1>3. S \in T
    BY <1>2
  <1> QED
    BY <1>3

\* The sorted queue has a head.
LEMMA HeadOfQueue ==
    ASSUME NEW rq, NEW q \in SUBSET Generations, q # {}, \A g \in q : rq[g].desc \in Descriptors
    PROVE  First(rq, q) \in q
  <1> DEFINE rank(g) == PhaseRank(rq[g].desc.phase)
             prio(g) == rq[g].desc.priority
  <1>1. \A g \in q : rank(g) \in Nat /\ Phases[rank(g)] = rq[g].desc.phase
    <2> SUFFICES ASSUME NEW g \in q PROVE rank(g) \in Nat /\ Phases[rank(g)] = rq[g].desc.phase
      OBVIOUS
    <2>1. rq[g].desc.phase \in ToSet(Phases)
      BY OrchestratorAssumption
    <2>2. \E i \in DOMAIN Phases : Phases[i] = rq[g].desc.phase
      BY <2>1 DEF ToSet
    <2>3. rank(g) \in DOMAIN Phases /\ Phases[rank(g)] = rq[g].desc.phase
      BY <2>2 DEF PhaseRank
    <2>4. DOMAIN Phases = 1 .. 5
      BY DEF Phases
    <2> QED
      BY <2>3, <2>4
  <1>2. \A g \in q : prio(g) \in Nat /\ g \in Nat
    BY OrchestratorAssumption DEF Generations
  <1> HIDE DEF rank, prio
  <1>3. PICK g1 \in q : \A h \in q : rank(g1) <= rank(h)
    <2> DEFINE R == {rank(h) : h \in q}
    <2>1. R \in SUBSET Nat /\ R # {}
      BY <1>1
    <2>2. PICK m \in R : \A n \in R : m <= n
      <3> HIDE DEF R
      <3> QED
        BY <2>1, LeastElement
    <2> QED
      BY <2>2
  <1> DEFINE A == {h \in q : rank(h) = rank(g1)}
  <1>4. PICK g2 \in A : \A h \in A : prio(h) <= prio(g2)
    <2> DEFINE f == [h \in A |-> prio(h)]
    <2>1. \A h \in A : f[h] \in Nat
      BY <1>2
    <2>2. IsFiniteSet(A)
      <3>1. IsFiniteSet(Generations)
        BY OrchestratorAssumption, FS_Interval DEF Generations
      <3> QED
        BY <3>1, FS_Subset
    <2>3. PICK m \in A : \A h \in A : f[h] <= f[m]
      <3>1. A # {}
        OBVIOUS
      <3> HIDE DEF A, f
      <3> QED
        BY <2>1, <2>2, <3>1, GreatestValue
    <2> QED
      BY <2>3
  <1> DEFINE B == {h \in A : prio(h) = prio(g2)}
  <1>5. PICK g3 \in B : \A h \in B : g3 <= h
    <2>1. B \in SUBSET Nat /\ B # {}
      BY <1>2
    <2> HIDE DEF B
    <2> QED
      BY <2>1, LeastElement
  <1>6. ASSUME NEW h \in q \ {g3} PROVE Before(rq, g3, h)
    <2>1. rank(g3) <= rank(h) /\ rank(g3) \in Nat /\ rank(h) \in Nat
      BY <1>1, <1>3
    <2>2. CASE rank(g3) < rank(h)
      BY <2>2 DEF Before, rank
    <2>3. CASE rank(g3) = rank(h)
      <3>1. h \in A
        BY <2>3
      <3>2. rq[g3].desc.phase = rq[h].desc.phase
        BY <1>1, <2>3
      <3>3. prio(h) <= prio(g3) /\ prio(h) \in Nat /\ prio(g3) \in Nat
        BY <1>2, <1>4, <3>1
      <3>4. CASE prio(h) < prio(g3)
        BY <3>2, <3>4 DEF Before, prio
      <3>5. CASE prio(h) = prio(g3)
        <4>1. g3 <= h /\ g3 # h /\ g3 \in Nat /\ h \in Nat
          BY <1>2, <1>5, <3>1, <3>5
        <4> QED
          BY <3>2, <3>5, <4>1 DEF Before, prio
      <3> QED
        BY <3>3, <3>4, <3>5
    <2> QED
      BY <2>1, <2>2, <2>3
  <1> QED
    BY <1>6 DEF First


-----------------------------------------------------------------------------
(* The counters. *)

\* There are finitely many requests.
LEMMA FiniteRequests ==
    ASSUME NEW S \in SUBSET Generations
    PROVE  IsFiniteSet(S) /\ Cardinality(S) \in Nat
  <1>1. IsFiniteSet(Generations)
    BY OrchestratorAssumption, FS_Interval DEF Generations
  <1>2. IsFiniteSet(S)
    BY <1>1, FS_Subset
  <1> QED
    BY <1>2, FS_CardinalityType

\* The counters of phases and of concurrency keys, when a request is started.
LEMMA IncrementedFacts ==
    ASSUME NEW c \in Counters, NEW d \in Descriptors
    PROVE  /\ Incremented(c, d) \in Counters
           /\ \A p \in ToSet(Phases) :
                 Incremented(c, d).phase[p] = c.phase[p] + (IF p = d.phase THEN 1 ELSE 0)
           /\ \A h \in Heavy :
                 Incremented(c, d).heavy[h] = c.heavy[h] + (IF h = d.heavy THEN 1 ELSE 0)
  <1>1. d.phase \in ToSet(Phases) /\ d.heavy \in Heavy
    BY OrchestratorAssumption DEF Heavy
  <1> HIDE DEF Heavy
  <1>2. PICK f \in [ToSet(Phases) -> Nat], k \in [Heavy -> Nat] : c = [phase |-> f, heavy |-> k]
    BY DEF Counters
  <1> DEFINE P == [f EXCEPT ![d.phase] = @ + 1]
             H == [k EXCEPT ![d.heavy] = @ + 1]
  <1>3. P \in [ToSet(Phases) -> Nat] /\ H \in [Heavy -> Nat]
    BY <1>1
  <1>4. \A p \in ToSet(Phases) : P[p] = f[p] + (IF p = d.phase THEN 1 ELSE 0)
    BY <1>1
  <1>5. \A h \in Heavy : H[h] = k[h] + (IF h = d.heavy THEN 1 ELSE 0)
    BY <1>1
  <1>6. Incremented(c, d) = [phase |-> P, heavy |-> H]
    BY <1>2 DEF Incremented
  <1> HIDE DEF P, H
  <1>7. Incremented(c, d).phase = P /\ Incremented(c, d).heavy = H /\ c.phase = f /\ c.heavy = k
    BY <1>2, <1>6
  <1>8. Incremented(c, d) \in Counters
    BY <1>3, <1>6 DEF Counters
  <1> QED
    BY <1>4, <1>5, <1>7, <1>8

\* One request more: what the drain starts is counted, and within the limits.
LEMMA StartIsAccounted ==
    ASSUME NEW rq, NEW c, Accounted(c, rq),
           NEW g \in Generations \ Holders(rq), rq[g].desc \in Descriptors,
           CanStart(c, rq[g].desc),
           NEW rq2, Holders(rq2) = Holders(rq) \cup {g},
           \A h \in Generations : rq2[h].desc = rq[h].desc
    PROVE  Accounted(Incremented(c, rq[g].desc), rq2)
  <1> DEFINE d == rq[g].desc
             c2 == Incremented(c, d)
  <1>0. c \in Counters
    BY DEF Accounted
  <1>1. /\ c2 \in Counters
        /\ \A p \in ToSet(Phases) : c2.phase[p] = c.phase[p] + (IF p = d.phase THEN 1 ELSE 0)
        /\ \A h \in Heavy : c2.heavy[h] = c.heavy[h] + (IF h = d.heavy THEN 1 ELSE 0)
    <2> HIDE DEF d
    <2>1. d \in Descriptors
      BY DEF d
    <2> QED
      BY <1>0, <2>1, IncrementedFacts
  <1>2. Holders(rq) \in SUBSET Generations
    BY DEF Holders
  <1>3. ASSUME NEW p \in ToSet(Phases)
        PROVE  c2.phase[p] = Cardinality(InPhase(rq2, Holders(rq2), p)) /\ c2.phase[p] <= PhaseLimit[p]
    <2> DEFINE S == InPhase(rq, Holders(rq), p)
    <2>1. IsFiniteSet(S) /\ Cardinality(S) \in Nat /\ g \notin S
      <3>1. S \in SUBSET Generations /\ g \notin S
        BY <1>2 DEF InPhase
      <3> QED
        BY <3>1, FiniteRequests
    <2>2. c.phase[p] = Cardinality(S) /\ c.phase[p] <= PhaseLimit[p] /\ PhaseLimit[p] \in Nat
      BY OrchestratorAssumption DEF Accounted
    <2>3. CASE p = d.phase
      <3>1. InPhase(rq2, Holders(rq2), p) = S \cup {g}
        BY <1>2, <2>3 DEF InPhase
      <3>2. Cardinality(S \cup {g}) = Cardinality(S) + 1
        <4> HIDE DEF S
        <4> QED
          BY <2>1, FS_AddElement
      <3>3. c.phase[p] < PhaseLimit[p]
        BY <2>3 DEF CanStart
      <3>4. c2.phase[p] = c.phase[p] + 1
        BY <1>1, <2>3
      <3>5. Cardinality(S) + 1 <= PhaseLimit[p] /\ c2.phase[p] = Cardinality(S) + 1
        <4> HIDE DEF c2, d, S
        <4> QED
          BY <2>1, <2>2, <3>3, <3>4
      <3> HIDE DEF c2, d, S
      <3> QED
        BY <3>1, <3>2, <3>5
    <2>4. CASE p # d.phase
      <3>1. InPhase(rq2, Holders(rq2), p) = S
        BY <1>2, <2>4 DEF InPhase
      <3> HIDE DEF c2, d
      <3> QED
        BY <1>1, <2>1, <2>2, <2>4, <3>1
    <2> QED
      BY <2>3, <2>4
  <1>4. ASSUME NEW h \in Heavy
        PROVE  /\ c2.heavy[h] = Cardinality(WithKey(rq2, Holders(rq2), h))
               /\ h \in DOMAIN HeavyLimit => c2.heavy[h] <= HeavyLimit[h]
    <2> DEFINE S == WithKey(rq, Holders(rq), h)
    <2>1. IsFiniteSet(S) /\ Cardinality(S) \in Nat /\ g \notin S
      <3>1. S \in SUBSET Generations /\ g \notin S
        BY <1>2 DEF WithKey
      <3> QED
        BY <3>1, FiniteRequests
    <2>2. /\ c.heavy[h] = Cardinality(S)
          /\ h \in DOMAIN HeavyLimit => c.heavy[h] <= HeavyLimit[h] /\ HeavyLimit[h] \in Nat
      BY OrchestratorAssumption DEF Accounted
    <2>3. CASE h = d.heavy
      <3>1. WithKey(rq2, Holders(rq2), h) = S \cup {g}
        BY <1>2, <2>3 DEF WithKey
      <3>2. Cardinality(S \cup {g}) = Cardinality(S) + 1
        <4> HIDE DEF S
        <4> QED
          BY <2>1, FS_AddElement
      <3>3. h \in DOMAIN HeavyLimit => c.heavy[h] < HeavyLimit[h]
        BY <2>3 DEF CanStart
      <3>4. c2.heavy[h] = c.heavy[h] + 1
        BY <1>1, <2>3
      <3>5. /\ h \in DOMAIN HeavyLimit => Cardinality(S) + 1 <= HeavyLimit[h]
            /\ c2.heavy[h] = Cardinality(S) + 1
        <4> HIDE DEF c2, d, S
        <4> QED
          BY <2>1, <2>2, <3>3, <3>4
      <3> HIDE DEF c2, d, S
      <3> QED
        BY <3>1, <3>2, <3>5
    <2>4. CASE h # d.heavy
      <3>1. WithKey(rq2, Holders(rq2), h) = S
        BY <1>2, <2>4 DEF WithKey
      <3> HIDE DEF c2, d
      <3> QED
        BY <1>1, <2>1, <2>2, <2>4, <3>1
    <2> QED
      BY <2>3, <2>4
  <1> QED
    BY <1>1, <1>3, <1>4 DEF Accounted

\* Some requests less: the counters never fall below what they count, so
\* Math.max of decrementRunning has nothing to do.
LEMMA ReleaseIsAccounted ==
    ASSUME NEW rq, NEW c, Accounted(c, rq), NEW gs \in SUBSET Holders(rq),
           NEW rq1, \A h \in Generations : rq1[h].desc = rq[h].desc,
           NEW rq2, Holders(rq2) = Holders(rq) \ gs,
           \A h \in Generations : rq2[h].desc = rq[h].desc
    PROVE  Accounted(Decremented(c, rq1, gs), rq2)
  <1> DEFINE c2 == Decremented(c, rq1, gs)
  <1>0. c \in Counters
    BY DEF Accounted
  <1>1. Holders(rq) \in SUBSET Generations /\ gs \in SUBSET Generations
    BY DEF Holders
  <1>2. ASSUME NEW S \in SUBSET Generations, NEW G \in SUBSET S
        PROVE  Less(Cardinality(S), Cardinality(G)) = Cardinality(S \ G) /\ Cardinality(S \ G) \in Nat
               /\ Cardinality(S \ G) <= Cardinality(S)
    <2>1. IsFiniteSet(S) /\ Cardinality(S) \in Nat
      BY FiniteRequests
    <2>2. IsFiniteSet(G) /\ Cardinality(G) \in Nat
      BY FiniteRequests
    <2>3. S \ G \in SUBSET Generations /\ S \cap G = G
      OBVIOUS
    <2>4. IsFiniteSet(S \ G) /\ Cardinality(S \ G) \in Nat
      BY <2>3, FiniteRequests
    <2>5. Cardinality(S \ G) = Cardinality(S) - Cardinality(S \cap G)
      BY <2>1, FS_Difference
    <2> QED
      <3>1. Cardinality(S \cap G) = Cardinality(G)
        BY <2>3
      <3> QED
        BY <2>1, <2>2, <2>4, <2>5, <3>1 DEF Less
  <1>3. ASSUME NEW p \in ToSet(Phases)
        PROVE  /\ Less(c.phase[p], Cardinality(InPhase(rq1, gs, p))) \in Nat
               /\ Less(c.phase[p], Cardinality(InPhase(rq1, gs, p)))
                     = Cardinality(InPhase(rq2, Holders(rq2), p))
               /\ Less(c.phase[p], Cardinality(InPhase(rq1, gs, p))) <= PhaseLimit[p]
    <2> DEFINE S == InPhase(rq, Holders(rq), p)
               G == InPhase(rq1, gs, p)
    <2>1. S \in SUBSET Generations /\ G \in SUBSET S
      BY <1>1 DEF InPhase
    <2>2. InPhase(rq2, Holders(rq2), p) = S \ G
      BY <1>1 DEF InPhase
    <2>3. c.phase[p] = Cardinality(S) /\ c.phase[p] <= PhaseLimit[p] /\ PhaseLimit[p] \in Nat
      BY OrchestratorAssumption DEF Accounted
    <2>4. Cardinality(S) \in Nat
      BY <2>1, FiniteRequests
    <2> HIDE DEF S, G
    <2>5. /\ Less(Cardinality(S), Cardinality(G)) = Cardinality(S \ G)
          /\ Cardinality(S \ G) \in Nat /\ Cardinality(S \ G) <= Cardinality(S)
      BY <1>2, <2>1
    <2> QED
      BY <2>2, <2>3, <2>4, <2>5 DEF G
  <1>4. ASSUME NEW h \in Heavy
        PROVE  /\ Less(c.heavy[h], Cardinality(WithKey(rq1, gs, h))) \in Nat
               /\ Less(c.heavy[h], Cardinality(WithKey(rq1, gs, h)))
                     = Cardinality(WithKey(rq2, Holders(rq2), h))
               /\ h \in DOMAIN HeavyLimit =>
                     Less(c.heavy[h], Cardinality(WithKey(rq1, gs, h))) <= HeavyLimit[h]
    <2> DEFINE S == WithKey(rq, Holders(rq), h)
               G == WithKey(rq1, gs, h)
    <2>1. S \in SUBSET Generations /\ G \in SUBSET S
      BY <1>1 DEF WithKey
    <2>2. WithKey(rq2, Holders(rq2), h) = S \ G
      BY <1>1 DEF WithKey
    <2>3. /\ c.heavy[h] = Cardinality(S)
          /\ h \in DOMAIN HeavyLimit => c.heavy[h] <= HeavyLimit[h] /\ HeavyLimit[h] \in Nat
      BY OrchestratorAssumption DEF Accounted
    <2>4. Cardinality(S) \in Nat
      BY <2>1, FiniteRequests
    <2> HIDE DEF S, G
    <2>5. /\ Less(Cardinality(S), Cardinality(G)) = Cardinality(S \ G)
          /\ Cardinality(S \ G) \in Nat /\ Cardinality(S \ G) <= Cardinality(S)
      BY <1>2, <2>1
    <2> QED
      BY <2>2, <2>3, <2>4, <2>5 DEF G
  <1>5. c2 \in Counters
    BY <1>3, <1>4 DEF Decremented, Counters
  <1>6. ASSUME NEW p \in ToSet(Phases)
        PROVE  c2.phase[p] = Less(c.phase[p], Cardinality(InPhase(rq1, gs, p)))
    BY DEF Decremented
  <1>7. ASSUME NEW h \in Heavy
        PROVE  c2.heavy[h] = Less(c.heavy[h], Cardinality(WithKey(rq1, gs, h)))
    BY DEF Decremented
  <1> HIDE DEF c2
  <1>8. Accounted(c2, rq2)
    BY <1>3, <1>4, <1>5, <1>6, <1>7 DEF Accounted
  <1> QED
    BY <1>8 DEF c2


-----------------------------------------------------------------------------
(* The loop of the drain. *)

LoopStates(q) == [rest : SUBSET q, started : SUBSET q, count : Counters, idle : IdleFlags]

StartedIn(rq, gs) == [g \in Generations |-> IF g \in gs THEN Started(rq[g]) ELSE rq[g]]

\* What a turn of the loop does: nothing, when it is over; it passes over a
\* request that the limits do not admit; an idle request yields, and the drain
\* is put off; or the request is started.
LEMMA VisitFacts ==
    ASSUME NEW q \in SUBSET Generations, NEW rq, \A g \in q : rq[g].desc \in Descriptors,
           NEW s \in LoopStates(q)
    PROVE  LET t == Visit(rq, s)
               g == First(rq, s.rest)
           IN  /\ t \in LoopStates(q)
               /\ \/ s.rest = {} /\ t = s
                  \/ /\ g \in s.rest /\ ~ CanStart(s.count, rq[g].desc)
                     /\ t.rest = s.rest \ {g} /\ t.started = s.started
                     /\ t.count = s.count /\ t.idle = s.idle
                  \/ /\ g \in s.rest
                     /\ t.rest = {} /\ t.started = s.started
                     /\ t.count = s.count /\ t.idle.scheduled
                  \/ /\ g \in s.rest /\ CanStart(s.count, rq[g].desc)
                     /\ t.rest = s.rest \ {g} /\ t.started = s.started \cup {g}
                     /\ t.count = Incremented(s.count, rq[g].desc)
                     /\ t.idle.scheduled = s.idle.scheduled
  <1> DEFINE t == Visit(rq, s)
             g == First(rq, s.rest)
             d == rq[g].desc
  <1>1. CASE s.rest = {}
    BY <1>1 DEF Visit
  <1>2. CASE s.rest # {}
    <2>1. g \in s.rest /\ g \in q /\ d \in Descriptors
      <3>1. s.rest \in SUBSET q /\ s.rest \in SUBSET Generations
        BY DEF LoopStates
      <3>2. First(rq, s.rest) \in s.rest
        BY <1>2, <3>1, HeadOfQueue
      <3> QED
        BY <3>1, <3>2
    <2>2. PICK r \in SUBSET q, st \in SUBSET q, c \in Counters, i \in IdleFlags :
             s = [rest |-> r, started |-> st, count |-> c, idle |-> i]
      BY DEF LoopStates
    <2>3. s.rest = r /\ s.started = st /\ s.count = c /\ s.idle = i
      BY <2>2
    <2> HIDE DEF g
    <2>4. CASE ~ CanStart(c, d)
      <3>1. t = [rest |-> r \ {g}, started |-> st, count |-> c, idle |-> i]
        BY <1>2, <2>2, <2>4 DEF Visit, g
      <3>2. t \in LoopStates(q)
        BY <3>1 DEF LoopStates
      <3> HIDE DEF t
      <3> QED
        BY <2>1, <2>3, <2>4, <3>1, <3>2 DEF t, g
    <2>5. CASE CanStart(c, d) /\ Yields(i, d)
      <3>1. t = [rest |-> {}, started |-> st, count |-> c, idle |-> AfterYield(i)]
        BY <1>2, <2>2, <2>5 DEF Visit, g
      <3>2. AfterYield(i) \in IdleFlags /\ AfterYield(i).scheduled
        BY DEF AfterYield, IdleFlags
      <3>3. t \in LoopStates(q)
        BY <3>1, <3>2 DEF LoopStates
      <3> HIDE DEF t
      <3> QED
        BY <2>1, <2>3, <3>1, <3>2, <3>3 DEF t, g
    <2>6. CASE CanStart(c, d) /\ ~ Yields(i, d)
      <3>1. t = [rest |-> r \ {g}, started |-> st \cup {g}, count |-> Incremented(c, d),
                 idle |-> AfterIdleStart(i, d)]
        BY <1>2, <2>2, <2>6 DEF Visit, g
      <3>2. AfterIdleStart(i, d) \in IdleFlags /\ AfterIdleStart(i, d).scheduled = i.scheduled
        BY DEF AfterIdleStart, IdleFlags
      <3>3. Incremented(c, d) \in Counters
        <4> HIDE DEF d
        <4> QED
          BY <2>1, IncrementedFacts
      <3>4. t \in LoopStates(q)
        BY <2>1, <3>1, <3>2, <3>3 DEF LoopStates
      <3> HIDE DEF t
      <3> QED
        BY <2>1, <2>3, <2>6, <3>1, <3>2, <3>4 DEF t, g
    <2> QED
      BY <2>4, <2>5, <2>6
  <1> QED
    BY <1>1, <1>2

\* The invariant of the loop after n turns.
LoopInv(i, rq, q, n, s) ==
    /\ s \in LoopStates(q)
    /\ s.rest \cap s.started = {}
    /\ Cardinality(s.rest) <= Cardinality(q) - n
    /\ i.scheduled => s.idle.scheduled
    /\ Accounted(s.count, StartedIn(rq, s.started))
    /\ \A g \in q \ (s.rest \cup s.started) : CanStart(s.count, rq[g].desc) => s.idle.scheduled

\* What can be started with more requests running can be started with less.
LEMMA CanStartFacts ==
    ASSUME NEW c \in Counters, NEW d \in Descriptors, NEW e \in Descriptors,
           CanStart(Incremented(c, d), e)
    PROVE  CanStart(c, e)
  <1>1. e.phase \in ToSet(Phases) /\ e.heavy \in Heavy
    BY OrchestratorAssumption DEF Heavy
  <1>2. PhaseLimit[e.phase] \in Nat /\ (e.heavy \in DOMAIN HeavyLimit => HeavyLimit[e.heavy] \in Nat)
    BY <1>1, OrchestratorAssumption
  <1>3. c.phase[e.phase] \in Nat /\ c.heavy[e.heavy] \in Nat
    <2> HIDE DEF Heavy
    <2> QED
      BY <1>1 DEF Counters
  <1>4. /\ Incremented(c, d).phase[e.phase] >= c.phase[e.phase]
        /\ Incremented(c, d).heavy[e.heavy] >= c.heavy[e.heavy]
        /\ Incremented(c, d).phase[e.phase] \in Nat
        /\ Incremented(c, d).heavy[e.heavy] \in Nat
    <2>1. /\ Incremented(c, d).phase[e.phase] = c.phase[e.phase] + (IF e.phase = d.phase THEN 1 ELSE 0)
          /\ Incremented(c, d).heavy[e.heavy] = c.heavy[e.heavy] + (IF e.heavy = d.heavy THEN 1 ELSE 0)
      BY <1>1, IncrementedFacts
    <2> QED
      BY <1>3, <2>1
  <1> DEFINE np == Incremented(c, d).phase[e.phase]
             nh == Incremented(c, d).heavy[e.heavy]
  <1>5. np < PhaseLimit[e.phase] /\ (e.heavy \in DOMAIN HeavyLimit => nh < HeavyLimit[e.heavy])
    BY DEF CanStart
  <1> HIDE DEF np, nh
  <1>6. c.phase[e.phase] < PhaseLimit[e.phase]
    BY <1>2, <1>3, <1>4, <1>5 DEF np
  <1>7. e.heavy \in DOMAIN HeavyLimit => c.heavy[e.heavy] < HeavyLimit[e.heavy]
    BY <1>2, <1>3, <1>4, <1>5 DEF nh
  <1> QED
    BY <1>6, <1>7 DEF CanStart


\* What a drain starts from: requests that wait, and counters that are right.
Drainable(i, rq, q, c) ==
    /\ i \in IdleFlags
    /\ q \in SUBSET Generations
    /\ \A g \in q : rq[g].desc \in Descriptors /\ rq[g].at = "queued" /\ ~ rq[g].released
    /\ Accounted(c, rq)

\* A request that is started holds a slot from then on.
LEMMA StartedHolds ==
    ASSUME NEW i, NEW rq, NEW q, NEW c, Drainable(i, rq, q, c), NEW gs \in SUBSET q
    PROVE  /\ Holders(StartedIn(rq, gs)) = Holders(rq) \cup gs
           /\ \A g \in Generations : StartedIn(rq, gs)[g].desc = rq[g].desc
  <1> DEFINE sq == StartedIn(rq, gs)
  <1>1. gs \in SUBSET Generations
    BY DEF Drainable
  <1>2. ASSUME NEW g \in Generations
        PROVE  /\ sq[g].desc = rq[g].desc
               /\ g \in Holders(sq) <=> g \in Holders(rq) \cup gs
    <2>1. CASE g \in gs
      <3>1. sq[g] = Started(rq[g]) /\ ~ rq[g].released
        BY <2>1 DEF StartedIn, Drainable
      <3>2. sq[g].at = "racing" /\ sq[g].desc = rq[g].desc /\ sq[g].released = rq[g].released
        BY <3>1 DEF Started
      <3> HIDE DEF sq
      <3> QED
        BY <2>1, <3>1, <3>2 DEF Holders
    <2>2. CASE g \notin gs
      <3>1. sq[g] = rq[g]
        BY <2>2 DEF StartedIn
      <3> HIDE DEF sq
      <3> QED
        BY <2>2, <3>1 DEF Holders
    <2> QED
      BY <2>1, <2>2
  <1>3. Holders(sq) \in SUBSET Generations /\ Holders(rq) \in SUBSET Generations
    BY DEF Holders
  <1> HIDE DEF sq
  <1>4. Holders(sq) = Holders(rq) \cup gs
    BY <1>1, <1>2, <1>3
  <1> QED
    BY <1>2, <1>4 DEF sq

\* A turn of the loop keeps its invariant.
LEMMA LoopStep ==
    ASSUME NEW i, NEW rq, NEW q, NEW c, Drainable(i, rq, q, c),
           NEW n \in 1 .. Cardinality(q), NEW s, LoopInv(i, rq, q, n - 1, s)
    PROVE  LoopInv(i, rq, q, n, Visit(rq, s))
  <1> DEFINE t == Visit(rq, s)
             g == First(rq, s.rest)
             d == rq[g].desc
  <1>1. s \in LoopStates(q) /\ s.rest \in SUBSET q /\ s.started \in SUBSET q /\ s.count \in Counters
    BY DEF LoopInv, LoopStates
  <1>2. q \in SUBSET Generations /\ \A h \in q : rq[h].desc \in Descriptors
    BY DEF Drainable
  <1>3. /\ t \in LoopStates(q)
        /\ \/ s.rest = {} /\ t = s
           \/ /\ g \in s.rest /\ ~ CanStart(s.count, rq[g].desc)
              /\ t.rest = s.rest \ {g} /\ t.started = s.started
              /\ t.count = s.count /\ t.idle = s.idle
           \/ /\ g \in s.rest
              /\ t.rest = {} /\ t.started = s.started
              /\ t.count = s.count /\ t.idle.scheduled
           \/ /\ g \in s.rest /\ CanStart(s.count, rq[g].desc)
              /\ t.rest = s.rest \ {g} /\ t.started = s.started \cup {g}
              /\ t.count = Incremented(s.count, rq[g].desc)
              /\ t.idle.scheduled = s.idle.scheduled
    BY <1>1, <1>2, VisitFacts
  <1>4. IsFiniteSet(s.rest) /\ Cardinality(s.rest) \in Nat /\ Cardinality(q) \in Nat
        /\ (s.rest # {} => Cardinality(s.rest) > 0)
    <2>1. s.rest \in SUBSET Generations
      BY <1>1, <1>2
    <2>2. IsFiniteSet(s.rest) /\ Cardinality(s.rest) \in Nat
      BY <2>1, FiniteRequests
    <2>3. Cardinality(q) \in Nat
      BY <1>2, FiniteRequests
    <2>4. s.rest # {} => Cardinality(s.rest) # 0
      BY <2>2, FS_EmptySet
    <2> QED
      BY <2>2, <2>3, <2>4
  <1>5. Cardinality(s.rest) <= Cardinality(q) - (n - 1) /\ n \in Nat
    BY DEF LoopInv
  <1>6. Cardinality({}) = 0 /\ Cardinality(q) - n >= 0
    BY <1>4, FS_EmptySet
  <1>7. g \in s.rest => Cardinality(s.rest \ {g}) = Cardinality(s.rest) - 1
    <2> HIDE DEF g
    <2> QED
      BY <1>4, FS_RemoveElement
  <1>8. /\ s.rest \cap s.started = {}
        /\ i.scheduled => s.idle.scheduled
        /\ Accounted(s.count, StartedIn(rq, s.started))
        /\ \A h \in q \ (s.rest \cup s.started) : CanStart(s.count, rq[h].desc) => s.idle.scheduled
    BY DEF LoopInv
  <1> HIDE DEF t, g
  <1>9. CASE s.rest = {} /\ t = s
    <2>1. Cardinality(t.rest) <= Cardinality(q) - n
      BY <1>6, <1>9
    <2> QED
      BY <1>3, <1>8, <1>9, <2>1 DEF LoopInv, t
  <1>10. CASE /\ g \in s.rest /\ ~ CanStart(s.count, rq[g].desc)
              /\ t.rest = s.rest \ {g} /\ t.started = s.started
              /\ t.count = s.count /\ t.idle = s.idle
    <2>1. Cardinality(t.rest) <= Cardinality(q) - n
      BY <1>4, <1>5, <1>7, <1>10
    <2>2. ASSUME NEW h \in q \ (t.rest \cup t.started), CanStart(t.count, rq[h].desc)
          PROVE  t.idle.scheduled
      <3>1. h # g
        BY <1>10, <2>2
      <3> QED
        BY <1>8, <1>10, <2>2, <3>1
    <2>3. t.rest \cap t.started = {} /\ (i.scheduled => t.idle.scheduled)
          /\ Accounted(t.count, StartedIn(rq, t.started))
      BY <1>8, <1>10
    <2> QED
      BY <1>3, <2>1, <2>2, <2>3 DEF LoopInv, t
  <1>11. CASE /\ g \in s.rest
              /\ t.rest = {} /\ t.started = s.started
              /\ t.count = s.count /\ t.idle.scheduled
    <2>1. Cardinality(t.rest) <= Cardinality(q) - n
      BY <1>6, <1>11
    <2>2. t.rest \cap t.started = {} /\ (i.scheduled => t.idle.scheduled)
          /\ Accounted(t.count, StartedIn(rq, t.started))
      BY <1>8, <1>11
    <2> QED
      BY <1>3, <1>11, <2>1, <2>2 DEF LoopInv, t
  <1>12. CASE /\ g \in s.rest /\ CanStart(s.count, rq[g].desc)
              /\ t.rest = s.rest \ {g} /\ t.started = s.started \cup {g}
              /\ t.count = Incremented(s.count, rq[g].desc)
              /\ t.idle.scheduled = s.idle.scheduled
    <2>1. Cardinality(t.rest) <= Cardinality(q) - n
      BY <1>4, <1>5, <1>7, <1>12
    <2>2. t.rest \cap t.started = {} /\ (i.scheduled => t.idle.scheduled)
      BY <1>8, <1>12
    <2> DEFINE u == StartedIn(rq, s.started)
               v == StartedIn(rq, s.started \cup {g})
    <2>3. g \in Generations /\ g \in q /\ s.started \cup {g} \in SUBSET q /\ g \notin s.started
      BY <1>1, <1>2, <1>8, <1>12
    <2>4. /\ Holders(u) = Holders(rq) \cup s.started
          /\ Holders(v) = Holders(rq) \cup (s.started \cup {g})
          /\ \A h \in Generations : u[h].desc = rq[h].desc /\ v[h].desc = rq[h].desc
      BY <1>1, <2>3, StartedHolds
    <2>5. g \notin Holders(u)
      <3>1. g \notin Holders(rq)
        BY <2>3 DEF Holders, Drainable
      <3> HIDE DEF u, v
      <3> QED
        BY <2>3, <2>4, <3>1
    <2>6. Accounted(Incremented(s.count, u[g].desc), v)
      <3> HIDE DEF u, v
      <3>1. Accounted(s.count, u)
        BY <1>8 DEF u
      <3>2. Holders(v) = Holders(u) \cup {g}
        BY <2>4
      <3>3. u[g].desc = rq[g].desc /\ u[g].desc \in Descriptors
        BY <1>2, <2>3, <2>4
      <3>4. CanStart(s.count, u[g].desc)
        BY <1>12, <3>3
      <3>5. \A h \in Generations : v[h].desc = u[h].desc
        BY <2>4
      <3> QED
        BY <2>3, <2>5, <3>1, <3>2, <3>3, <3>4, <3>5, StartIsAccounted
    <2>7. Accounted(t.count, StartedIn(rq, t.started))
      <3>1. u[g].desc = rq[g].desc
        BY <2>3, <2>4
      <3>2. StartedIn(rq, t.started) = v
        BY <1>12
      <3> HIDE DEF u, v
      <3> QED
        BY <1>12, <2>6, <3>1, <3>2
    <2>8. ASSUME NEW h \in q \ (t.rest \cup t.started), CanStart(t.count, rq[h].desc)
          PROVE  t.idle.scheduled
      <3>1. h \in q \ (s.rest \cup s.started)
        BY <1>12
      <3>2. CanStart(s.count, rq[h].desc)
        BY <1>1, <1>2, <1>12, <2>3, <2>8, CanStartFacts
      <3> QED
        BY <1>8, <1>12, <3>1, <3>2
    <2> QED
      BY <1>3, <2>1, <2>2, <2>7, <2>8 DEF LoopInv, t
  <1> QED
    BY <1>3, <1>9, <1>10, <1>11, <1>12


\* What a drain leaves: it starts requests of the queue, within the limits, and
\* whatever it leaves there the limits do not admit, or it is put off.
LEMMA DrainFacts ==
    ASSUME NEW i, NEW rq, NEW q, NEW c, Drainable(i, rq, q, c)
    PROVE  LET s == Drain(i, rq, q, c)
           IN  /\ s \in LoopStates(q)
               /\ i.scheduled => s.idle.scheduled
               /\ Accounted(s.count, StartedIn(rq, s.started))
               /\ \A g \in q \ s.started : CanStart(s.count, rq[g].desc) => s.idle.scheduled
  <1>0. q \in SUBSET Generations /\ \A g \in q : rq[g].desc \in Descriptors
    BY DEF Drainable
  <1>1. PICK n \in Nat : n = Cardinality(q)
    BY <1>0, FiniteRequests
  <1> DEFINE base == [rest |-> q, started |-> {}, count |-> c, idle |-> i]
             Body(f) == [k \in 0 .. n |-> IF k = 0 THEN base ELSE Visit(rq, f[k - 1])]
             loop == CHOOSE f : f = Body(f)
             step == [k \in 1 .. n |-> [s \in LoopStates(q) |-> Visit(rq, s)]]
  <1>2. Drain(i, rq, q, c) = loop[n]
    BY <1>1 DEF Drain
  <1>3. base \in LoopStates(q)
    BY <1>0 DEF LoopStates, Drainable, Accounted
  <1>4. \A s \in LoopStates(q) : Visit(rq, s) \in LoopStates(q)
    <2> SUFFICES ASSUME NEW s \in LoopStates(q) PROVE Visit(rq, s) \in LoopStates(q)
      OBVIOUS
    <2> QED
      BY <1>0, VisitFacts
  <1>5. PICK h : IsRecursive(h, n, LoopStates(q), base, step)
    <2>1. step \in [1 .. n -> [LoopStates(q) -> LoopStates(q)]]
      BY <1>4
    <2> HIDE DEF step, base
    <2> QED
      BY <1>3, <2>1, RecursionUpTo
  <1>6. /\ h \in [0 .. n -> LoopStates(q)]
        /\ h[0] = base
        /\ \A k \in 1 .. n : h[k] = step[k][h[k - 1]]
    BY <1>5 DEF IsRecursive
  <1>7. ASSUME NEW k \in 1 .. n PROVE h[k] = Visit(rq, h[k - 1])
    <2>1. k - 1 \in 0 .. n
      OBVIOUS
    <2>2. h[k - 1] \in LoopStates(q)
      BY <1>6, <2>1
    <2> HIDE DEF base
    <2> QED
      BY <1>6, <2>2
  <1>8. h = Body(h)
    <2>1. h = [k \in 0 .. n |-> h[k]]
      BY <1>6
    <2>2. \A k \in 0 .. n : h[k] = IF k = 0 THEN base ELSE Visit(rq, h[k - 1])
      <3>1. \A k \in 0 .. n : k = 0 \/ k \in 1 .. n
        OBVIOUS
      <3> HIDE DEF base, step
      <3> QED
        BY <1>6, <1>7, <3>1
    <2> HIDE DEF base
    <2> QED
      BY <2>1, <2>2
  <1>9. loop = Body(loop)
    <2> HIDE DEF Body
    <2> QED
      BY <1>8
  <1>10. /\ loop[0] = base
         /\ \A k \in 1 .. n : loop[k] = Visit(rq, loop[k - 1])
    <2> HIDE DEF loop, base
    <2> QED
      BY <1>9
  <1>11. LoopInv(i, rq, q, 0, base)
    <2>1. StartedIn(rq, {}) = [g \in Generations |-> rq[g]]
      BY DEF StartedIn
    <2>2. Holders(StartedIn(rq, {})) = Holders(rq)
      <3>1. Holders(StartedIn(rq, {})) = Holders(rq) \cup {}
        BY StartedHolds
      <3> QED
        BY <3>1
    <2>3. Accounted(c, StartedIn(rq, {}))
      <3> DEFINE u == StartedIn(rq, {})
      <3>1. \A g \in Generations : u[g].desc = rq[g].desc
        BY <2>1
      <3>2. Holders(u) = Holders(rq) /\ Holders(rq) \in SUBSET Generations
        BY <2>2 DEF Holders
      <3> HIDE DEF u
      <3>3. \A p : InPhase(u, Holders(u), p) = InPhase(rq, Holders(rq), p)
        BY <3>1, <3>2 DEF InPhase
      <3>4. \A k : WithKey(u, Holders(u), k) = WithKey(rq, Holders(rq), k)
        BY <3>1, <3>2 DEF WithKey
      <3>5. Accounted(c, u)
        BY <3>3, <3>4 DEF Accounted, Drainable
      <3> QED
        BY <3>5 DEF u
    <2>4. base.rest = q /\ base.started = {} /\ base.count = c /\ base.idle = i
      OBVIOUS
    <2>5. Cardinality(base.rest) <= Cardinality(q) - 0
      BY <1>1, <2>4
    <2>6. base.rest \cap base.started = {} /\ q \ (base.rest \cup base.started) = {}
      BY <2>4
    <2> HIDE DEF base
    <2> QED
      BY <1>3, <2>3, <2>4, <2>5, <2>6 DEF LoopInv
  <1> DEFINE T == {k \in 0 .. n : LoopInv(i, rq, q, k, loop[k])}
  <1> HIDE DEF loop, base
  <1>12. 0 .. n \subseteq T
    <2>1. 0 \in T
      BY <1>10, <1>11
    <2>2. ASSUME NEW k \in 1 .. n, k - 1 \in T PROVE k \in T
      <3>1. LoopInv(i, rq, q, k - 1, loop[k - 1])
        BY <2>2
      <3>2. k \in 1 .. Cardinality(q)
        BY <1>1
      <3>3. LoopInv(i, rq, q, k, Visit(rq, loop[k - 1]))
        BY <3>1, <3>2, LoopStep
      <3> QED
        BY <1>10, <3>3
    <2> HIDE DEF T
    <2> QED
      BY <2>1, <2>2, UpTo
  <1>13. LoopInv(i, rq, q, n, loop[n])
    BY <1>12
  <1>14. loop[n].rest = {}
    <2>1. loop[n].rest \in SUBSET Generations
      BY <1>0, <1>13 DEF LoopInv, LoopStates
    <2>2. IsFiniteSet(loop[n].rest) /\ Cardinality(loop[n].rest) \in Nat
      BY <2>1, FiniteRequests
    <2>3. Cardinality(loop[n].rest) = 0
      BY <1>1, <1>13, <2>2 DEF LoopInv
    <2> QED
      BY <2>2, <2>3, FS_EmptySet
  <1>15. loop[n].rest \cup loop[n].started = loop[n].started
    BY <1>14
  <1> QED
    BY <1>2, <1>13, <1>15 DEF LoopInv


\* The fields of a request, of its descriptor the key.
LEMMA RequestTypes ==
    ASSUME NEW rq \in [Generations -> Request], NEW g \in Generations
    PROVE  /\ rq[g].settling \in BOOLEAN /\ rq[g].answered \in BOOLEAN /\ rq[g].released \in BOOLEAN
           /\ rq[g].desc \in Descriptors => KeyOf(rq, g) \in Keys
  <1>1. rq[g] \in Request
    OBVIOUS
  <1> QED
    BY <1>1 DEF Request, KeyOf, Keys

\* Whatever a drain starts, it makes a sound state of a sound one, and nothing
\* idles in it.
LEMMA DrainIsSound ==
    ASSUME NEW i \in IdleFlags, NEW q, NEW fl, NEW run, NEW c, NEW st, NEW rq,
           Sound(q, fl, run, c, st, rq),
           DrainedFrom(i, rq, q, run, c)
    PROVE  /\ Sound(queue', fl, running', count', st, req')
           /\ idle' \in IdleFlags
           /\ NothingIdles'
  <1> DEFINE s == Drain(i, rq, q, c)
             gs == s.started
             sq == StartedIn(rq, gs)
  <1>1. /\ queue' = q \ gs /\ count' = s.count /\ idle' = s.idle
        /\ running' = Registered(rq, run, gs) /\ req' = sq
    BY DEF DrainedFrom, StartedIn
  <1>2. /\ rq \in [Generations -> Request]
        /\ fl \in [Keys -> Generations \cup {None}] /\ run \in [Keys -> Generations \cup {None}]
        /\ st \subseteq Generations
        /\ q = {g \in Generations : rq[g].at = "queued"}
        /\ Accounted(c, rq)
        /\ \A g \in Generations : Placed(fl, run, st, rq, g)
        /\ \A k \in Keys : run[k] # None => run[k] \in Holders(rq) /\ KeyOf(rq, run[k]) = k
    BY DEF Sound
  <1>3. Drainable(i, rq, q, c)
    BY <1>2 DEF Drainable, Placed
  <1>4. /\ s \in LoopStates(q)
        /\ Accounted(s.count, sq)
        /\ \A g \in q \ gs : CanStart(s.count, rq[g].desc) => s.idle.scheduled
    BY <1>3, DrainFacts
  <1>5. gs \in SUBSET q /\ s.idle \in IdleFlags /\ gs \in SUBSET Generations
    BY <1>2, <1>4 DEF LoopStates
  <1>6. /\ Holders(sq) = Holders(rq) \cup gs
        /\ \A g \in Generations : sq[g].desc = rq[g].desc
    BY <1>3, <1>5, StartedHolds
  <1>7. ASSUME NEW g \in gs
        PROVE  /\ sq[g].at = "racing" /\ sq[g].settling = rq[g].settling
               /\ sq[g].answered = rq[g].answered /\ sq[g].released = rq[g].released
               /\ sq[g] \in Request
    <2>1. sq[g] = Started(rq[g]) /\ rq[g] \in Request
      BY <1>2, <1>5 DEF StartedIn
    <2> HIDE DEF sq, s
    <2>2. sq[g] = [rq[g] EXCEPT !.at = "racing", !.body = "running"]
      BY <2>1 DEF Started
    <2> QED
      BY <2>1, <2>2 DEF Request
  <1>8. ASSUME NEW g \in Generations, g \notin gs PROVE sq[g] = rq[g]
    BY <1>8 DEF StartedIn
  <1>9. sq \in [Generations -> Request]
    <2>1. sq = [g \in Generations |-> sq[g]]
      BY DEF StartedIn
    <2>2. \A g \in Generations : sq[g] \in Request
      BY <1>2, <1>7, <1>8
    <2> HIDE DEF sq
    <2> QED
      BY <2>1, <2>2
  <1> HIDE DEF s, sq
  <1>10. \A g \in gs : /\ rq[g].at = "queued" /\ rq[g].desc \in Descriptors
                       /\ ~ rq[g].settling /\ ~ rq[g].answered /\ ~ rq[g].released
                       /\ fl[KeyOf(rq, g)] = g /\ KeyOf(rq, g) \in Keys
    BY <1>2, <1>5, RequestTypes DEF Placed
  <1>11. \A g \in Holders(rq) : /\ g \in Generations /\ rq[g].desc \in Descriptors
                                /\ fl[KeyOf(rq, g)] = g /\ KeyOf(rq, g) \in Keys
                                /\ run[KeyOf(rq, g)] = g /\ rq[g].at # "queued"
    BY <1>2, RequestTypes DEF Placed, Holders
  <1> DEFINE rg == Registered(rq, run, gs)
  <1>12. ASSUME NEW k \in Keys
         PROVE  \/ \E g \in gs : KeyOf(rq, g) = k /\ rg[k] = g
                \/ (\A g \in gs : KeyOf(rq, g) # k) /\ rg[k] = run[k]
    BY DEF Registered
  <1>13. rg = [k \in Keys |-> rg[k]]
    BY DEF Registered
  <1> HIDE DEF rg
  <1>14. rg \in [Keys -> Generations \cup {None}]
    <2>1. \A k \in Keys : rg[k] \in Generations \cup {None}
      BY <1>2, <1>5, <1>12
    <2> QED
      BY <1>13, <2>1
  <1>15. q \ gs = {g \in Generations : sq[g].at = "queued"}
    BY <1>2, <1>5, <1>7, <1>8
  <1>16. \A g \in Generations : KeyOf(sq, g) = KeyOf(rq, g)
    BY <1>6 DEF KeyOf
  <1>17. ASSUME NEW k \in Keys, rg[k] # None PROVE rg[k] \in Holders(sq) /\ KeyOf(sq, rg[k]) = k
    <2>1. CASE \E g \in gs : KeyOf(rq, g) = k /\ rg[k] = g
      BY <1>5, <1>6, <1>16, <2>1
    <2>2. CASE rg[k] = run[k]
      BY <1>2, <1>6, <1>11, <1>16, <1>17, <2>2
    <2> QED
      BY <1>12, <2>1, <2>2
  <1>18. ASSUME NEW g \in Generations PROVE Placed(fl, rg, st, sq, g)
    <2>1. CASE g \in gs
      <3>1. rg[KeyOf(rq, g)] = g
        <4>1. ASSUME NEW h \in gs, KeyOf(rq, h) = KeyOf(rq, g) PROVE h = g
          BY <1>10, <2>1, <4>1
        <4> QED
          BY <1>10, <1>12, <2>1, <4>1
      <3>2. KeyOf(sq, g) = KeyOf(rq, g) /\ sq[g].desc = rq[g].desc
        BY <1>6, <1>16
      <3> QED
        BY <1>7, <1>10, <2>1, <3>1, <3>2 DEF Placed
    <2>2. CASE g \notin gs
      <3>1. sq[g] = rq[g] /\ KeyOf(sq, g) = KeyOf(rq, g)
        BY <1>8, <1>16, <2>2
      <3>2. g \in Holders(sq) => g \in Holders(rq)
        BY <1>6, <2>2
      <3>3. Placed(fl, run, st, rq, g)
        BY <1>2
      <3>4. g \in Holders(rq) => rg[KeyOf(rq, g)] = g
        <4> SUFFICES ASSUME g \in Holders(rq) PROVE rg[KeyOf(rq, g)] = g
          OBVIOUS
        <4>1. ASSUME NEW h \in gs PROVE KeyOf(rq, h) # KeyOf(rq, g)
          BY <1>10, <1>11, <2>2, <4>1
        <4> QED
          BY <1>11, <1>12, <4>1
      <3> QED
        BY <3>1, <3>2, <3>3, <3>4 DEF Placed
    <2> QED
      BY <2>1, <2>2
  <1>19. Sound(q \ gs, fl, rg, s.count, st, sq)
    BY <1>2, <1>4, <1>9, <1>14, <1>15, <1>17, <1>18 DEF Sound
  <1>20. NothingIdles'
    <2>1. \A g \in q \ gs : CanStart(s.count, sq[g].desc) => s.idle.scheduled
      BY <1>2, <1>4, <1>6
    <2> QED
      BY <1>1, <2>1 DEF NothingIdles
  <1> QED
    BY <1>1, <1>5, <1>19, <1>20 DEF rg


-----------------------------------------------------------------------------
(* The steps of one request. *)

\* The map of the promises keeps those of other requests.
KeepsOthers(fl, g) ==
    /\ fl \in [Keys -> Generations \cup {None}]
    /\ \A k \in Keys : fl[k] = inFlight[k] \/ inFlight[k] = g

\* What one request does on its own, waiting no more: the others find what
\* they need.
LEMMA OneRequest ==
    ASSUME Sound(queue, inFlight, running, count, stale, req),
           NEW g \in Generations, req[g].at \notin {"absent", "queued"},
           NEW rq \in [Generations -> Request],
           \A h \in Generations : h # g => rq[h] = req[h],
           rq[g].desc = req[g].desc, rq[g].at \notin {"absent", "queued"},
           NEW fl, KeepsOthers(fl, g),
           NEW run \in [Keys -> Generations \cup {None}],
           \A k \in Keys : run[k] = running[k] \/ (run[k] = None /\ running[k] = g),
           g \notin Holders(rq) => \A k \in Keys : run[k] # g,
           NEW c, Accounted(c, rq),
           NEW st \in SUBSET Generations, stale \ {g} \subseteq st,
           Placed(fl, run, st, rq, g)
    PROVE  Sound(queue, fl, run, c, st, rq)
  <1>1. /\ \A h \in Generations : Placed(inFlight, running, stale, req, h)
        /\ \A k \in Keys : running[k] # None =>
              running[k] \in Holders(req) /\ KeyOf(req, running[k]) = k
        /\ queue = {h \in Generations : req[h].at = "queued"}
        /\ req \in [Generations -> Request]
    BY DEF Sound
  <1>2. queue = {h \in Generations : rq[h].at = "queued"}
    BY <1>1
  <1>3. ASSUME NEW h \in Generations PROVE Placed(fl, run, st, rq, h)
    <2>1. CASE h = g
      BY <2>1
    <2>2. CASE h # g
      <3>1. rq[h] = req[h] /\ KeyOf(rq, h) = KeyOf(req, h)
        BY <2>2 DEF KeyOf
      <3>2. Placed(inFlight, running, stale, req, h)
        BY <1>1
      <3>3. h \in Holders(rq) <=> h \in Holders(req)
        BY <3>1 DEF Holders
      <3>4. h \in Holders(req) \/ req[h].at = "queued" => KeyOf(req, h) \in Keys
        BY <1>1, <3>2, RequestTypes DEF Placed, Holders
      <3>5. h \in Holders(req) \/ req[h].at = "queued" => fl[KeyOf(req, h)] = h
        BY <2>2, <3>2, <3>4 DEF Placed, KeepsOthers
      <3>6. h \in Holders(req) => run[KeyOf(req, h)] = h
        BY <2>2, <3>2, <3>4 DEF Placed
      <3>7. h \in stale => h \in st
        BY <2>2
      <3> QED
        BY <3>1, <3>2, <3>3, <3>5, <3>6, <3>7 DEF Placed
    <2> QED
      BY <2>1, <2>2
  <1>4. ASSUME NEW k \in Keys, run[k] # None PROVE run[k] \in Holders(rq) /\ KeyOf(rq, run[k]) = k
    <2>1. run[k] = running[k] /\ run[k] \in Generations
      BY <1>4
    <2>2. run[k] \in Holders(req) /\ KeyOf(req, run[k]) = k
      BY <1>1, <1>4, <2>1
    <2>3. CASE run[k] = g
      BY <2>2, <2>3 DEF KeyOf
    <2>4. CASE run[k] # g
      BY <2>1, <2>2, <2>4 DEF KeyOf, Holders
    <2> QED
      BY <2>3, <2>4
  <1> QED
    BY <1>2, <1>3, <1>4 DEF Sound, KeepsOthers

\* What is in flight for the key of a request that waits or holds a slot.
LEMMA ReleaseKeepsOthers ==
    ASSUME Sound(queue, inFlight, running, count, stale, req),
           NEW g \in Generations, req[g].at # "absent"
    PROVE  /\ KeepsOthers(inFlight, g)
           /\ ReleaseInFlight(g) => KeepsOthers(inFlight', g)
  <1>1. inFlight \in [Keys -> Generations \cup {None}] /\ KeyOf(req, g) \in Keys
    BY RequestTypes DEF Sound, Placed
  <1> QED
    BY <1>1 DEF KeepsOthers, ReleaseInFlight

\* A startTask that ends gives back its slot, unless a cancellation did, and
\* then the queue is drained.
LEMMA FinallyIsSound ==
    ASSUME Inv,
           NEW g \in Generations, req[g].at \in {"racing", "degrading"},
           NEW rq \in [Generations -> Request],
           \A h \in Generations : h # g => rq[h] = req[h],
           rq[g].desc = req[g].desc, rq[g].at = "ended", rq[g].released = req[g].released,
           NEW fl, KeepsOthers(fl, g),
           Finally(rq, g)
    PROVE  /\ Sound(queue', fl, running', count', stale', req')
           /\ idle' \in IdleFlags
           /\ NothingIdles'
  <1>1. /\ Sound(queue, inFlight, running, count, stale, req)
        /\ idle \in IdleFlags /\ NothingIdles
    BY DEF Inv
  <1>2. /\ req \in [Generations -> Request]
        /\ running \in [Keys -> Generations \cup {None}]
        /\ stale \subseteq Generations
        /\ queue = {h \in Generations : req[h].at = "queued"}
        /\ Accounted(count, req)
        /\ \A h \in Generations : Placed(inFlight, running, stale, req, h)
        /\ \A k \in Keys : running[k] # None =>
              running[k] \in Holders(req) /\ KeyOf(req, running[k]) = k
    BY <1>1 DEF Sound
  <1>3. req[g].desc \in Descriptors /\ KeyOf(req, g) \in Keys /\ KeyOf(rq, g) = KeyOf(req, g)
    <2>1. req[g].desc \in Descriptors
      BY <1>2 DEF Placed
    <2> QED
      BY <1>2, <2>1, RequestTypes DEF KeyOf
  <1>4. g \notin Holders(rq) /\ rq[g].released \in BOOLEAN
    BY RequestTypes DEF Holders
  <1>5. Holders(rq) = Holders(req) \ {g}
    BY <1>4 DEF Holders
  <1>6. stale' = stale \ {g} /\ stale' \in SUBSET Generations
    BY <1>2 DEF Finally
  <1>7. \A h \in Generations : rq[h].desc = req[h].desc
    OBVIOUS
  <1>8. CASE rq[g].released
    <2>1. queue' = queue /\ count' = count /\ running' = running /\ req' = rq /\ idle' = idle
      BY <1>8 DEF Finally, Undrained
    <2>2. g \notin Holders(req) /\ Holders(req) = Holders(rq)
      <3>1. g \notin Holders(req)
        BY <1>8 DEF Holders
      <3> QED
        BY <1>5, <3>1
    <2>3. Accounted(count, rq)
      <3>1. \A p : InPhase(rq, Holders(rq), p) = InPhase(req, Holders(req), p)
        BY <1>7, <2>2 DEF InPhase, Holders
      <3>2. \A k : WithKey(rq, Holders(rq), k) = WithKey(req, Holders(req), k)
        BY <1>7, <2>2 DEF WithKey, Holders
      <3> QED
        BY <1>2, <3>1, <3>2 DEF Accounted
    <2>4. \A k \in Keys : running[k] # g
      BY <1>2, <2>2, OrchestratorAssumption DEF Generations
    <2>5. Placed(fl, running, stale', rq, g)
      BY <1>3, <1>4 DEF Placed
    <2>6. Sound(queue, fl, running, count, stale', rq)
      <3> SUFFICES ASSUME NEW st, st = stale' PROVE Sound(queue, fl, running, count, st, rq)
        OBVIOUS
      <3>1. st \in SUBSET Generations /\ stale \ {g} \subseteq st /\ Placed(fl, running, st, rq, g)
        BY <1>6, <2>5
      <3>2. req[g].at \notin {"absent", "queued"} /\ rq[g].at \notin {"absent", "queued"}
        OBVIOUS
      <3>3. \A k \in Keys : running[k] = running[k] \/ (running[k] = None /\ running[k] = g)
        OBVIOUS
      <3> QED
        BY <1>1, <1>2, <2>3, <2>4, <3>1, <3>2, <3>3, OneRequest
    <2>7. NothingIdles'
      BY <1>1, <1>2, <1>7, <2>1 DEF NothingIdles
    <2> QED
      BY <1>1, <2>1, <2>6, <2>7
  <1>9. CASE ~ rq[g].released
    <2> DEFINE run == [running EXCEPT ![KeyOf(rq, g)] = None]
               c == Decremented(count, rq, {g})
    <2>1. DrainedFrom(idle, rq, queue, run, c)
      BY <1>9 DEF Finally, Drained
    <2>2. g \in Holders(req)
      BY <1>9 DEF Holders
    <2>3. Accounted(c, rq)
      <3>1. {g} \in SUBSET Holders(req) /\ Accounted(count, req)
        BY <1>2, <2>2
      <3> QED
        BY <1>5, <1>7, <3>1, ReleaseIsAccounted
    <2>4. run \in [Keys -> Generations \cup {None}]
      BY <1>2
    <2>5. running[KeyOf(req, g)] = g
      BY <1>2, <2>2 DEF Placed
    <2>6. \A k \in Keys : run[k] = running[k] \/ (run[k] = None /\ running[k] = g)
      BY <1>2, <1>3, <2>5
    <2>7. \A k \in Keys : run[k] # g
      <3>1. g # None
        BY OrchestratorAssumption DEF Generations
      <3> QED
        BY <1>2, <1>3, <3>1
    <2>8. Placed(fl, run, stale', rq, g)
      BY <1>3, <1>4 DEF Placed
    <2> HIDE DEF run, c
    <2>9. Sound(queue, fl, run, c, stale', rq)
      <3> SUFFICES ASSUME NEW st, st = stale' PROVE Sound(queue, fl, run, c, st, rq)
        OBVIOUS
      <3>1. st \in SUBSET Generations /\ stale \ {g} \subseteq st /\ Placed(fl, run, st, rq, g)
        BY <1>6, <2>8
      <3>2. req[g].at \notin {"absent", "queued"} /\ rq[g].at \notin {"absent", "queued"}
        OBVIOUS
      <3> QED
        BY <1>1, <2>3, <2>4, <2>6, <2>7, <3>1, <3>2, OneRequest
    <2> QED
      BY <1>1, <2>1, <2>9, DrainIsSound
  <1> QED
    BY <1>4, <1>8, <1>9


\* What an action leaves, under the names of the invariant.
LEMMA InvNext ==
    ASSUME Sound(queue', inFlight', running', count', stale', req'), idle' \in IdleFlags, NothingIdles'
    PROVE  Inv'
  BY DEF Inv, Sound, Accounted, Placed, Holders, KeyOf, InPhase, WithKey, NothingIdles

\* The body of a started request ends before its timer.
LEMMA BodyWinsKeepsInv ==
    ASSUME Inv, NEW g \in Generations, BodyWins(g)
    PROVE  Inv'
  <1> DEFINE rq == [req EXCEPT ![g].at = "ended",
                               ![g].body = "ended",
                               ![g].answered = @ \/ ~ IsSettled(g)]
  <1>1. /\ Sound(queue, inFlight, running, count, stale, req)
        /\ req \in [Generations -> Request] /\ req[g] \in Request
    BY DEF Inv, Sound
  <1>2. req[g].at = "racing" /\ Finally(rq, g)
        /\ (IF IsSettled(g) THEN UNCHANGED inFlight ELSE ReleaseInFlight(g))
    BY DEF BodyWins
  <1>3. rq[g] = [req[g] EXCEPT !.at = "ended", !.body = "ended", !.answered = @ \/ ~ IsSettled(g)]
    BY <1>1
  <1>4. rq[g] \in Request /\ rq[g].at = "ended" /\ rq[g].desc = req[g].desc
        /\ rq[g].released = req[g].released
    <2> HIDE DEF rq
    <2>1. req[g].answered \in BOOLEAN
      BY <1>1, RequestTypes
    <2> QED
      BY <1>1, <1>3, <2>1 DEF Request
  <1>5. rq \in [Generations -> Request] /\ \A h \in Generations : h # g => rq[h] = req[h]
    BY <1>1, <1>4
  <1>6. KeepsOthers(inFlight', g)
    <2>1. KeepsOthers(inFlight, g) /\ (ReleaseInFlight(g) => KeepsOthers(inFlight', g))
      BY <1>1, <1>2, ReleaseKeepsOthers
    <2> QED
      BY <1>2, <2>1 DEF KeepsOthers
  <1> HIDE DEF rq
  <1>7. req[g].at \in {"racing", "degrading"}
    BY <1>2
  <1> QED
    BY <1>2, <1>4, <1>5, <1>6, <1>7, FinallyIsSound, InvNext

\* Some field of a request changes, neither its slot nor its place in the queue.
LEMMA QuietRequest ==
    ASSUME Inv,
           NEW g \in Generations, req[g].at \notin {"absent", "queued"},
           req' \in [Generations -> Request],
           \A h \in Generations : h # g => req'[h] = req[h],
           req'[g].desc = req[g].desc, req'[g].released = req[g].released,
           KeepsOthers(inFlight', g),
           \/ req'[g].at = req[g].at
           \/ req[g].at = "racing" /\ req'[g].at = "degrading",
           Placed(inFlight', running, stale, req', g),
           UNCHANGED <<queue, running, count, stale, idle>>
    PROVE  Inv'
  <1>1. Sound(queue, inFlight, running, count, stale, req) /\ idle \in IdleFlags /\ NothingIdles
    BY DEF Inv
  <1>2. /\ req \in [Generations -> Request]
        /\ running \in [Keys -> Generations \cup {None}]
        /\ stale \subseteq Generations
        /\ queue \subseteq Generations
        /\ Accounted(count, req)
        /\ \A k \in Keys : running[k] # None => running[k] \in Holders(req)
    BY <1>1 DEF Sound
  <1>3. \A h \in Generations : req'[h].desc = req[h].desc
    OBVIOUS
  <1> SUFFICES ASSUME NEW rq, rq = req', NEW fl, fl = inFlight'
               PROVE  Inv'
    OBVIOUS
  <1>4. Holders(rq) = Holders(req)
    BY DEF Holders
  <1>5. Accounted(count, rq)
    <2>1. \A p : InPhase(rq, Holders(rq), p) = InPhase(req, Holders(req), p)
      BY <1>3, <1>4 DEF InPhase, Holders
    <2>2. \A k : WithKey(rq, Holders(rq), k) = WithKey(req, Holders(req), k)
      BY <1>3, <1>4 DEF WithKey, Holders
    <2> QED
      BY <1>2, <2>1, <2>2 DEF Accounted
  <1>6. Sound(queue, fl, running, count, stale, rq)
    <2>1. g \notin Holders(rq) => \A k \in Keys : running[k] # g
      BY <1>2, <1>4, OrchestratorAssumption DEF Generations
    <2>2. /\ rq \in [Generations -> Request]
          /\ \A h \in Generations : h # g => rq[h] = req[h]
          /\ rq[g].desc = req[g].desc /\ rq[g].at \notin {"absent", "queued"}
          /\ KeepsOthers(fl, g) /\ Placed(fl, running, stale, rq, g)
          /\ stale \in SUBSET Generations /\ stale \ {g} \subseteq stale
      BY <1>2
    <2>3. \A k \in Keys : running[k] = running[k] \/ (running[k] = None /\ running[k] = g)
      OBVIOUS
    <2> QED
      BY <1>1, <1>2, <1>5, <2>1, <2>2, <2>3, OneRequest
  <1>7. NothingIdles'
    BY <1>1, <1>2, <1>3 DEF NothingIdles
  <1> QED
    BY <1>1, <1>6, <1>7, InvNext


\* A body ends that nobody waits for.
LEMMA OrphanEndsKeepsInv ==
    ASSUME Inv, NEW g \in Generations, OrphanEnds(g)
    PROVE  Inv'
  <1>1. /\ Sound(queue, inFlight, running, count, stale, req)
        /\ req \in [Generations -> Request] /\ req[g] \in Request
        /\ Placed(inFlight, running, stale, req, g)
    BY DEF Inv, Sound
  <1>2. /\ req[g].at \notin {"absent", "queued"} /\ req' = [req EXCEPT ![g].body = "ended"]
        /\ UNCHANGED <<queue, inFlight, running, count, stale, idle>>
    BY DEF OrphanEnds
  <1> DEFINE r == [req[g] EXCEPT !.body = "ended"]
  <1>3. req'[g] = r
    BY <1>1, <1>2
  <1>4. /\ r \in Request /\ r.at = req[g].at /\ r.desc = req[g].desc /\ r.released = req[g].released
        /\ r.settling = req[g].settling /\ r.answered = req[g].answered
    BY <1>1 DEF Request
  <1>5. req' \in [Generations -> Request] /\ \A h \in Generations : h # g => req'[h] = req[h]
    BY <1>1, <1>2, <1>4
  <1> HIDE DEF r
  <1>6. KeepsOthers(inFlight', g)
    <2>1. KeepsOthers(inFlight, g)
      BY <1>1, <1>2, ReleaseKeepsOthers
    <2> QED
      BY <1>2, <2>1 DEF KeepsOthers
  <1>7. Placed(inFlight', running, stale, req', g)
    <2> SUFFICES ASSUME NEW rq, rq = req' PROVE Placed(inFlight, running, stale, rq, g)
      BY <1>2
    <2> QED
      BY <1>1, <1>3, <1>4 DEF Placed, Holders, KeyOf
  <1> QED
    BY <1>2, <1>3, <1>4, <1>5, <1>6, <1>7, QuietRequest

\* The timer of a request ends before its body.
LEMMA TimesOutKeepsInv ==
    ASSUME Inv, NEW g \in Generations, TimesOut(g)
    PROVE  Inv'
  <1>1. /\ Sound(queue, inFlight, running, count, stale, req)
        /\ req \in [Generations -> Request] /\ req[g] \in Request
        /\ Placed(inFlight, running, stale, req, g)
    BY DEF Inv, Sound
  <1>2. req[g].at = "racing" /\ inFlight' = inFlight
    BY DEF TimesOut
  <1>3. KeepsOthers(inFlight', g)
    <2>1. KeepsOthers(inFlight, g)
      BY <1>1, <1>2, ReleaseKeepsOthers
    <2> QED
      BY <1>2, <2>1 DEF KeepsOthers
  <1>4. CASE IsSettled(g)
    <2> DEFINE rq == [req EXCEPT ![g].at = "ended"]
               r == [req[g] EXCEPT !.at = "ended"]
    <2>1. Finally(rq, g)
      BY <1>4 DEF TimesOut
    <2>2. rq[g] = r
      BY <1>1
    <2>3. r \in Request /\ r.at = "ended" /\ r.desc = req[g].desc /\ r.released = req[g].released
      BY <1>1 DEF Request
    <2>4. rq \in [Generations -> Request] /\ \A h \in Generations : h # g => rq[h] = req[h]
      BY <1>1, <2>3
    <2> HIDE DEF rq, r
    <2>5. req[g].at \in {"racing", "degrading"}
      BY <1>2
    <2> QED
      BY <1>3, <2>1, <2>2, <2>3, <2>4, <2>5, FinallyIsSound, InvNext
  <1>5. CASE ~ IsSettled(g)
    <2>1. /\ req' = [req EXCEPT ![g].at = "degrading", ![g].settling = TRUE]
          /\ UNCHANGED <<queue, running, count, stale, idle>>
      BY <1>5 DEF TimesOut
    <2> DEFINE r == [req[g] EXCEPT !.at = "degrading", !.settling = TRUE]
    <2>2. req'[g] = r
      BY <1>1, <2>1
    <2>3. /\ r \in Request /\ r.at = "degrading" /\ r.desc = req[g].desc
          /\ r.released = req[g].released /\ r.answered = req[g].answered
      BY <1>1 DEF Request
    <2>4. req' \in [Generations -> Request] /\ \A h \in Generations : h # g => req'[h] = req[h]
      BY <1>1, <2>1, <2>3
    <2> HIDE DEF r
    <2>5. Placed(inFlight', running, stale, req', g)
      <3> SUFFICES ASSUME NEW rq, rq = req' PROVE Placed(inFlight, running, stale, rq, g)
        BY <1>2
      <3> QED
        BY <1>1, <1>2, <2>2, <2>3 DEF Placed, Holders, KeyOf
    <2>6. req[g].at \notin {"absent", "queued"}
      BY <1>2
    <2> QED
      BY <1>2, <1>3, <2>1, <2>2, <2>3, <2>4, <2>5, <2>6, QuietRequest
  <1> QED
    BY <1>4, <1>5

\* The fallback of a timeout or of a cancellation answers the request.
LEMMA FallbackEndsKeepsInv ==
    ASSUME Inv, NEW g \in Generations, FallbackEnds(g)
    PROVE  Inv'
  <1>1. /\ Sound(queue, inFlight, running, count, stale, req)
        /\ req \in [Generations -> Request] /\ req[g] \in Request
        /\ Placed(inFlight, running, stale, req, g)
    BY DEF Inv, Sound
  <1>2. req[g].settling /\ ReleaseInFlight(g)
    BY DEF FallbackEnds
  <1>3. req[g].at \notin {"absent", "queued"}
    BY <1>1, <1>2 DEF Placed
  <1>4. KeepsOthers(inFlight', g)
    BY <1>1, <1>2, <1>3, ReleaseKeepsOthers
  <1> DEFINE answered == [req EXCEPT ![g].settling = FALSE, ![g].answered = TRUE]
             r == [req[g] EXCEPT !.settling = FALSE, !.answered = TRUE]
  <1>5. answered[g] = r
    BY <1>1
  <1>6. /\ r \in Request /\ r.at = req[g].at /\ r.desc = req[g].desc
        /\ r.released = req[g].released /\ ~ r.settling
    BY <1>1 DEF Request
  <1>7. answered \in [Generations -> Request]
        /\ \A h \in Generations : h # g => answered[h] = req[h]
    BY <1>1, <1>6
  <1> HIDE DEF r
  <1>8. CASE req[g].at = "degrading"
    <2> DEFINE rq == [answered EXCEPT ![g].at = "ended"]
               t == [r EXCEPT !.at = "ended"]
    <2>1. Finally(rq, g)
      BY <1>8 DEF FallbackEnds
    <2> HIDE DEF answered
    <2>2. rq[g] = t
      BY <1>5, <1>7
    <2>3. t \in Request /\ t.at = "ended" /\ t.desc = req[g].desc /\ t.released = req[g].released
      BY <1>6 DEF Request
    <2>4. rq \in [Generations -> Request] /\ \A h \in Generations : h # g => rq[h] = req[h]
      BY <1>7, <2>2, <2>3
    <2> HIDE DEF rq, t
    <2>5. req[g].at \in {"racing", "degrading"}
      BY <1>8
    <2> QED
      BY <1>4, <2>1, <2>2, <2>3, <2>4, <2>5, FinallyIsSound, InvNext
  <1>9. CASE req[g].at # "degrading"
    <2>1. req' = answered /\ UNCHANGED <<queue, running, count, stale, idle>>
      BY <1>9 DEF FallbackEnds
    <2> HIDE DEF answered
    <2>2. g \notin Holders(req)
      BY <1>1, <1>2, <1>9 DEF Holders, Placed
    <2>3. Placed(inFlight', running, stale, req', g)
      <3> SUFFICES ASSUME NEW rq, rq = req', NEW fl, fl = inFlight'
                   PROVE  Placed(fl, running, stale, rq, g)
        OBVIOUS
      <3>1. rq[g] = r
        BY <1>5, <2>1
      <3> QED
        BY <1>1, <1>3, <1>6, <2>2, <3>1 DEF Placed, Holders
    <2> QED
      BY <1>3, <1>4, <1>5, <1>6, <1>7, <2>1, <2>3, QuietRequest
  <1> QED
    BY <1>8, <1>9


\* A new request joins the queue, and the map of its key.
LEMMA RunKeepsInv ==
    ASSUME Inv, NEW d \in Descriptors, Run(d)
    PROVE  Inv'
  <1>1. /\ Sound(queue, inFlight, running, count, stale, req) /\ idle \in IdleFlags
        /\ req \in [Generations -> Request]
        /\ inFlight \in [Keys -> Generations \cup {None}]
        /\ running \in [Keys -> Generations \cup {None}]
        /\ stale \subseteq Generations
        /\ queue = {h \in Generations : req[h].at = "queued"}
        /\ Accounted(count, req)
        /\ \A h \in Generations : Placed(inFlight, running, stale, req, h)
        /\ \A k \in Keys : running[k] # None =>
              running[k] \in Holders(req) /\ KeyOf(req, running[k]) = k
    BY DEF Inv, Sound
  <1>2. PICK g \in Generations :
          /\ req[g] = Absent
          /\ Drained([req EXCEPT ![g].desc = d, ![g].at = "queued"], queue \cup {g}, running, count)
          /\ inFlight' = [inFlight EXCEPT ![d.key] = g]
    BY DEF Run
  <1>3. inFlight[d.key] = None /\ stale' = stale /\ d.key \in Keys
    BY DEF Run, Keys
  <1> DEFINE rq == [req EXCEPT ![g].desc = d, ![g].at = "queued"]
             r == [Absent EXCEPT !.desc = d, !.at = "queued"]
             fl == [inFlight EXCEPT ![d.key] = g]
  <1>4. rq[g] = r
    BY <1>1, <1>2
  <1>5. /\ r \in Request /\ r.at = "queued" /\ r.desc = d
        /\ ~ r.settling /\ ~ r.answered /\ ~ r.released
    BY DEF Absent, Request
  <1>6. rq \in [Generations -> Request] /\ \A h \in Generations : h # g => rq[h] = req[h]
    <2>1. rq[g] \in Request
      BY <1>4, <1>5
    <2> QED
      BY <1>1, <2>1
  <1>7. DrainedFrom(idle, rq, queue \cup {g}, running, count)
    BY <1>2 DEF Drained
  <1>8. fl \in [Keys -> Generations \cup {None}] /\ fl[d.key] = g
        /\ \A k \in Keys : k # d.key => fl[k] = inFlight[k]
    BY <1>1, <1>3
  <1> HIDE DEF rq, r, fl
  <1>9. req[g].at = "absent"
    BY <1>2 DEF Absent
  <1>10. queue \cup {g} = {h \in Generations : rq[h].at = "queued"}
    BY <1>1, <1>4, <1>5, <1>6
  <1>11. Holders(rq) = Holders(req) /\ g \notin Holders(req)
    BY <1>4, <1>5, <1>6, <1>9 DEF Holders
  <1>12. Accounted(count, rq)
    <2>1. \A p : InPhase(rq, Holders(rq), p) = InPhase(req, Holders(req), p)
      BY <1>6, <1>11 DEF InPhase, Holders
    <2>2. \A k : WithKey(rq, Holders(rq), k) = WithKey(req, Holders(req), k)
      BY <1>6, <1>11 DEF WithKey, Holders
    <2> QED
      BY <1>1, <2>1, <2>2 DEF Accounted
  <1>13. ASSUME NEW h \in Generations PROVE Placed(fl, running, stale, rq, h)
    <2>1. CASE h = g
      BY <1>4, <1>5, <1>8, <1>11, <2>1 DEF Placed, KeyOf
    <2>2. CASE h # g
      <3>1. rq[h] = req[h] /\ KeyOf(rq, h) = KeyOf(req, h) /\ Placed(inFlight, running, stale, req, h)
        BY <1>1, <1>6, <2>2 DEF KeyOf
      <3>2. h \in Holders(req) \/ req[h].at = "queued" =>
               KeyOf(req, h) \in Keys /\ inFlight[KeyOf(req, h)] = h
        BY <1>1, <3>1, RequestTypes DEF Placed, Holders
      <3>3. h # None
        BY OrchestratorAssumption DEF Generations
      <3>4. h \in Holders(req) \/ req[h].at = "queued" => fl[KeyOf(req, h)] = h
        BY <1>3, <1>8, <3>2, <3>3
      <3> QED
        BY <1>11, <3>1, <3>4 DEF Placed
    <2> QED
      BY <2>1, <2>2
  <1>14. ASSUME NEW k \in Keys, running[k] # None
         PROVE  running[k] \in Holders(rq) /\ KeyOf(rq, running[k]) = k
    <2>1. running[k] \in Holders(req) /\ KeyOf(req, running[k]) = k /\ running[k] \in Generations
      BY <1>1, <1>14
    <2>2. running[k] # g
      BY <1>11, <2>1
    <2> QED
      BY <1>6, <1>11, <2>1, <2>2 DEF KeyOf
  <1>15. Sound(queue \cup {g}, fl, running, count, stale, rq)
    BY <1>1, <1>6, <1>8, <1>10, <1>12, <1>13, <1>14 DEF Sound
  <1>16. inFlight' = fl
    BY <1>2 DEF fl
  <1>17. Sound(queue', fl, running', count', stale, req') /\ idle' \in IdleFlags /\ NothingIdles'
    BY <1>1, <1>7, <1>15, DrainIsSound
  <1> QED
    BY <1>3, <1>16, <1>17, InvNext

-----------------------------------------------------------------------------
(* The cancellations. *)

\* A cancellation takes its requests out of the queue, gives back their slots
\* and takes the promises of their keys, and only theirs, out of the map.
LEMMA CancelIsSound ==
    ASSUME Inv, NEW gs \in SUBSET Generations, CancelEffect(gs)
    PROVE  Sound(Removed(queue, gs), inFlight', Deregistered(gs), Freed(gs), stale', Cancelled(gs))
  <1>1. /\ req \in [Generations -> Request]
        /\ inFlight \in [Keys -> Generations \cup {None}]
        /\ running \in [Keys -> Generations \cup {None}]
        /\ stale \subseteq Generations
        /\ queue = {h \in Generations : req[h].at = "queued"}
        /\ Accounted(count, req)
        /\ \A h \in Generations : Placed(inFlight, running, stale, req, h)
        /\ \A k \in Keys : running[k] # None =>
              running[k] \in Holders(req) /\ KeyOf(req, running[k]) = k
    BY DEF Inv, Sound
  <1>2. \A g \in Generations : g # None
    BY OrchestratorAssumption DEF Generations
  <1> DEFINE hs == Holding(gs)
             rq == Cancelled(gs)
             run == Deregistered(gs)
             q == Removed(queue, gs)
             gone == {KeyOf(req, g) : g \in (gs \cap queue) \cup hs}
  <1>3. hs = gs \cap Holders(req)
    <2>1. ASSUME NEW g \in gs, g \in Holders(req) PROVE g \in hs
      <3>1. KeyOf(req, g) \in Keys /\ running[KeyOf(req, g)] = g
        BY <1>1, <2>1, RequestTypes DEF Placed, Holders
      <3> QED
        BY <2>1, <3>1 DEF Holding, Holders
    <2>2. ASSUME NEW g \in hs PROVE g \in gs /\ g \in Holders(req)
      BY <1>1, <1>2, <2>2 DEF Holding
    <2>3. Holders(req) \in SUBSET Generations
      BY DEF Holders
    <2> QED
      BY <2>1, <2>2, <2>3
  <1>4. stale' = stale \cup hs /\ stale' \in SUBSET Generations
    BY <1>1, <1>3 DEF CancelEffect
  <1>5. inFlight' = [k \in Keys |-> IF k \in gone THEN None ELSE inFlight[k]]
    BY DEF CancelEffect
  <1>6. \A k \in Keys : run[k] = IF running[k] \in hs THEN None ELSE running[k]
    BY DEF Deregistered
  <1>7. run \in [Keys -> Generations \cup {None}]
    BY <1>1 DEF Deregistered
  <1>8. \A g \in Generations :
           rq[g] = IF g \in gs \cap queue THEN CancelledQueued(req[g])
                   ELSE IF g \in hs THEN CancelledRunning(req[g]) ELSE req[g]
    BY DEF Cancelled
  <1>9. rq = [g \in Generations |-> rq[g]]
    BY DEF Cancelled
  <1> HIDE DEF hs, rq, run
  <1>10. ASSUME NEW r \in Request
         PROVE  /\ CancelledQueued(r) \in Request /\ CancelledQueued(r).at = "ended"
                /\ CancelledQueued(r).desc = r.desc /\ CancelledQueued(r).released = r.released
    BY DEF CancelledQueued, Request
  <1>11. ASSUME NEW r \in Request
         PROVE  /\ CancelledRunning(r) \in Request /\ CancelledRunning(r).at = r.at
                /\ CancelledRunning(r).desc = r.desc /\ CancelledRunning(r).released
    <2> DEFINE b == r.settling \/ ~ r.answered
    <2>1. b \in BOOLEAN
      OBVIOUS
    <2>2. CancelledRunning(r) = [r EXCEPT !.settling = b, !.released = TRUE]
      BY DEF CancelledRunning
    <2> HIDE DEF b
    <2> QED
      BY <2>1, <2>2 DEF Request
  <1>12. \A g \in Generations : rq[g] \in Request /\ rq[g].desc = req[g].desc
    BY <1>1, <1>8, <1>10, <1>11
  <1>13. rq \in [Generations -> Request] /\ \A g \in Generations : KeyOf(rq, g) = KeyOf(req, g)
    BY <1>9, <1>12 DEF KeyOf
  <1>14. ASSUME NEW g \in Generations
         PROVE  \/ /\ g \in gs \cap queue /\ rq[g].at = "ended" /\ g \notin Holders(rq)
                   /\ g \notin Holders(req)
                \/ /\ g \in hs /\ g \notin queue /\ rq[g].at = req[g].at /\ rq[g].released
                   /\ g \in Holders(req) /\ g \notin Holders(rq)
                \/ /\ g \notin gs \cap queue /\ g \notin hs /\ rq[g] = req[g]
                   /\ g \in Holders(rq) <=> g \in Holders(req)
    <2>1. CASE g \in gs \cap queue
      BY <1>1, <1>8, <1>10, <2>1 DEF Holders
    <2>2. CASE g \notin gs \cap queue /\ g \in hs
      <3>1. rq[g] = CancelledRunning(req[g])
        BY <1>8, <2>2
      <3>2. rq[g].at = req[g].at /\ rq[g].released
        BY <1>1, <1>11, <3>1
      <3>3. g \in Holders(req) /\ g \notin queue
        BY <1>1, <1>3, <2>2 DEF Holders
      <3> QED
        BY <2>2, <3>2, <3>3 DEF Holders
    <2>3. CASE g \notin gs \cap queue /\ g \notin hs
      BY <1>8, <2>3 DEF Holders
    <2> QED
      BY <2>1, <2>2, <2>3
  <1>15. Holders(rq) = Holders(req) \ hs
    <2>1. Holders(req) \in SUBSET Generations /\ Holders(rq) \in SUBSET Generations
      BY DEF Holders
    <2>2. ASSUME NEW g \in Generations PROVE g \in Holders(rq) <=> g \in Holders(req) \ hs
      BY <1>14
    <2> QED
      BY <2>1, <2>2
  <1>16. Accounted(Freed(gs), rq)
    <2>1. hs \in SUBSET Holders(req)
      BY <1>3
    <2>2. Freed(gs) = Decremented(count, req, hs)
      BY DEF Freed, hs
    <2> QED
      BY <1>1, <1>12, <1>15, <2>1, <2>2, ReleaseIsAccounted
  <1>17. q = {g \in Generations : rq[g].at = "queued"}
    <2>1. ASSUME NEW g \in Generations PROVE g \in q <=> rq[g].at = "queued"
      BY <1>1, <1>14 DEF Removed, Holders
    <2> QED
      BY <1>1, <2>1 DEF Removed
  <1>18. ASSUME NEW g \in Generations PROVE Placed(inFlight', run, stale', rq, g)
    <2>1. Placed(inFlight, running, stale, req, g)
      BY <1>1
    <2> SUFFICES ASSUME NEW fl, fl = inFlight', NEW st, st = stale'
                 PROVE  Placed(fl, run, st, rq, g)
      OBVIOUS
    <2>2. req[g].at = "absent" => g \notin gs \cap queue /\ g \notin hs
      BY <1>1, <1>3 DEF Holders
    <2>3. CASE g \in gs \cap queue
      <3>1. rq[g].at = "ended" /\ g \notin Holders(rq)
        BY <1>14, <2>3
      <3>2. rq[g].desc \in Descriptors
        BY <1>12, <2>1, <2>2, <2>3 DEF Placed
      <3> QED
        BY <3>1, <3>2 DEF Placed
    <2>4. CASE g \in hs
      <3>1. rq[g].at = req[g].at /\ g \notin Holders(rq) /\ g \notin queue /\ g \in st
        BY <1>3, <1>4, <1>14, <2>4
      <3>2. rq[g].desc \in Descriptors /\ rq[g].at \notin {"absent", "queued"}
        BY <1>1, <1>12, <2>1, <2>2, <2>4, <3>1 DEF Placed
      <3> QED
        BY <3>1, <3>2 DEF Placed
    <2>5. CASE g \notin gs \cap queue /\ g \notin hs
      <3>1. rq[g] = req[g] /\ KeyOf(rq, g) = KeyOf(req, g) /\ (g \in Holders(rq) <=> g \in Holders(req))
        BY <1>13, <1>14, <2>5
      <3>2. g \in Holders(req) \/ req[g].at = "queued" =>
               /\ KeyOf(req, g) \in Keys /\ inFlight[KeyOf(req, g)] = g
               /\ KeyOf(req, g) \notin gone
        <4> SUFFICES ASSUME g \in Holders(req) \/ req[g].at = "queued"
                     PROVE  /\ KeyOf(req, g) \in Keys /\ inFlight[KeyOf(req, g)] = g
                            /\ KeyOf(req, g) \notin gone
          OBVIOUS
        <4>1. KeyOf(req, g) \in Keys /\ inFlight[KeyOf(req, g)] = g
          BY <1>1, <2>1, RequestTypes DEF Placed, Holders
        <4>2. ASSUME NEW h \in (gs \cap queue) \cup hs PROVE KeyOf(req, h) # KeyOf(req, g)
          <5>1. h \in Generations /\ (h \in Holders(req) \/ req[h].at = "queued")
            BY <1>1, <1>3, <4>2 DEF Holders
          <5>2. inFlight[KeyOf(req, h)] = h
            BY <1>1, <5>1 DEF Placed
          <5>3. h # g
            BY <2>5, <4>2
          <5> QED
            BY <4>1, <5>2, <5>3
        <4> QED
          BY <4>1, <4>2
      <3>3. g \in Holders(req) \/ req[g].at = "queued" => fl[KeyOf(req, g)] = g
        <4> HIDE DEF gone
        <4> QED
          BY <1>5, <3>2
      <3>4. g \in Holders(req) => run[KeyOf(req, g)] = g
        BY <1>6, <2>1, <2>5, <3>2 DEF Placed
      <3>5. g \in stale => g \in st
        BY <1>4
      <3> QED
        BY <2>1, <3>1, <3>3, <3>4, <3>5 DEF Placed
    <2> QED
      BY <2>3, <2>4, <2>5
  <1>19. inFlight' \in [Keys -> Generations \cup {None}]
    <2> HIDE DEF gone
    <2> QED
      BY <1>1, <1>5
  <1>20. ASSUME NEW k \in Keys, run[k] # None PROVE run[k] \in Holders(rq) /\ KeyOf(rq, run[k]) = k
    <2>1. run[k] = running[k] /\ running[k] \notin hs
      BY <1>6, <1>20
    <2>2. running[k] \in Holders(req) /\ KeyOf(req, running[k]) = k /\ running[k] \in Generations
      BY <1>1, <1>20, <2>1
    <2> QED
      BY <1>13, <1>15, <2>1, <2>2
  <1>21. Sound(q, inFlight', run, Freed(gs), stale', rq)
    <2> SUFFICES ASSUME NEW fl, fl = inFlight', NEW st, st = stale'
                 PROVE  Sound(q, fl, run, Freed(gs), st, rq)
      OBVIOUS
    <2> HIDE DEF q
    <2>1. \A g \in Generations : Placed(fl, run, st, rq, g)
      BY <1>18
    <2> QED
      BY <1>4, <1>7, <1>13, <1>16, <1>17, <1>19, <1>20, <2>1 DEF Sound
  <1> QED
    BY <1>21 DEF rq, run


\* A cancellation that drains the queue: of a key, or of a workspace.
LEMMA CancelKeepsInv ==
    ASSUME Inv, NEW gs \in SUBSET Generations, CancelEffect(gs),
           Drained(Cancelled(gs), Removed(queue, gs), Deregistered(gs), Freed(gs))
    PROVE  Inv'
  <1> DEFINE rq == Cancelled(gs)
             q == Removed(queue, gs)
             run == Deregistered(gs)
             c == Freed(gs)
  <1>1. idle \in IdleFlags /\ DrainedFrom(idle, rq, q, run, c)
    BY DEF Inv, Drained
  <1>2. Sound(q, inFlight', run, c, stale', rq)
    BY CancelIsSound
  <1> HIDE DEF rq, q, run, c
  <1>3. Sound(queue', inFlight', running', count', stale', req') /\ idle' \in IdleFlags /\ NothingIdles'
    BY <1>1, <1>2, DrainIsSound
  <1> QED
    BY <1>3, InvNext

\* A cancellation of everything leaves nothing in the queue.
LEMMA CancelAllKeepsInv ==
    ASSUME Inv, CancelAllTasks
    PROVE  Inv'
  <1>1. Known \in SUBSET Generations /\ queue \subseteq Known /\ idle \in IdleFlags
    BY DEF Inv, Sound, Known
  <1>2. /\ CancelEffect(Known)
        /\ queue' = Removed(queue, Known) /\ count' = Freed(Known)
        /\ running' = Deregistered(Known) /\ req' = Cancelled(Known) /\ idle' = idle
    BY DEF CancelAllTasks, Undrained
  <1>3. Sound(queue', inFlight', running', count', stale', req')
    BY <1>1, <1>2, CancelIsSound
  <1>4. queue' = {}
    BY <1>1, <1>2 DEF Removed
  <1>5. NothingIdles'
    BY <1>4 DEF NothingIdles
  <1> QED
    BY <1>1, <1>2, <1>3, <1>5, InvNext

\* The two steps of the idle slice.
LEMMA IdleKeepsInv ==
    ASSUME Inv, SliceElapses \/ ResumeIdleDrain
    PROVE  Inv'
  <1>1. Sound(queue, inFlight, running, count, stale, req) /\ idle \in IdleFlags /\ NothingIdles
    BY DEF Inv
  <1>2. CASE SliceElapses
    <2>1. /\ idle' = [idle EXCEPT !.slice = "spent"]
          /\ UNCHANGED <<queue, inFlight, running, count, stale, req>>
      BY <1>2 DEF SliceElapses
    <2>2. idle' \in IdleFlags /\ idle'.scheduled = idle.scheduled
      BY <1>1, <2>1 DEF IdleFlags
    <2>3. NothingIdles'
      BY <1>1, <2>1, <2>2 DEF NothingIdles
    <2>4. Sound(queue', inFlight', running', count', stale', req')
      BY <1>1, <2>1
    <2> QED
      BY <2>2, <2>3, <2>4, InvNext
  <1>3. CASE ResumeIdleDrain
    <2> DEFINE i == [idle EXCEPT !.scheduled = FALSE, !.resumed = TRUE]
    <2>1. /\ DrainedFrom(i, req, queue, running, count)
          /\ inFlight' = inFlight /\ stale' = stale
      BY <1>3 DEF ResumeIdleDrain
    <2>2. i \in IdleFlags
      BY <1>1 DEF IdleFlags
    <2> HIDE DEF i
    <2>3. Sound(queue', inFlight, running', count', stale, req') /\ idle' \in IdleFlags /\ NothingIdles'
      BY <1>1, <2>1, <2>2, DrainIsSound
    <2> QED
      BY <2>1, <2>3, InvNext
  <1> QED
    BY <1>2, <1>3

\* Nothing is asked for yet.
LEMMA InitInv == Init => Inv
  <1> SUFFICES ASSUME Init PROVE Inv
    OBVIOUS
  <1>1. Absent \in Request /\ Absent.at = "absent" /\ ~ Absent.settling /\ ~ Absent.released
    BY DEF Absent, Request
  <1>2. req \in [Generations -> Request] /\ \A g \in Generations : req[g] = Absent
    BY <1>1 DEF Init
  <1>3. Holders(req) = {}
    BY <1>1, <1>2 DEF Holders
  <1>4. Accounted(count, req)
    <2>1. count = [phase |-> [p \in ToSet(Phases) |-> 0], heavy |-> [h \in Heavy |-> 0]]
      BY DEF Init
    <2>2. count \in Counters
      BY <2>1 DEF Counters
    <2>3. Cardinality({}) = 0
      BY FS_EmptySet
    <2>4. \A p : Cardinality(InPhase(req, Holders(req), p)) = 0
      BY <1>3, <2>3 DEF InPhase
    <2>5. \A h : Cardinality(WithKey(req, Holders(req), h)) = 0
      BY <1>3, <2>3 DEF WithKey
    <2>6. \A p \in ToSet(Phases) : count.phase[p] = 0 /\ 0 <= PhaseLimit[p]
      BY <2>1, OrchestratorAssumption
    <2>7. \A h \in Heavy : count.heavy[h] = 0 /\ (h \in DOMAIN HeavyLimit => 0 <= HeavyLimit[h])
      BY <2>1, OrchestratorAssumption
    <2> QED
      BY <2>2, <2>4, <2>5, <2>6, <2>7 DEF Accounted
  <1>5. \A g \in Generations : Placed(inFlight, running, stale, req, g)
    BY <1>1, <1>2, <1>3 DEF Placed
  <1>6. queue = {} /\ queue = {g \in Generations : req[g].at = "queued"}
    BY <1>1, <1>2 DEF Init
  <1>7. /\ inFlight \in [Keys -> Generations \cup {None}]
        /\ running \in [Keys -> Generations \cup {None}]
        /\ \A k \in Keys : running[k] = None
        /\ stale \subseteq Generations
        /\ idle \in IdleFlags
    BY DEF Init, IdleFlags
  <1>8. Sound(queue, inFlight, running, count, stale, req)
    BY <1>2, <1>4, <1>5, <1>6, <1>7 DEF Sound
  <1> QED
    BY <1>6, <1>7, <1>8 DEF Inv, NothingIdles

\* Every step keeps the invariant.
LEMMA NextInv == Inv /\ [Next]_vars => Inv'
  <1> SUFFICES ASSUME Inv, [Next]_vars PROVE Inv'
    OBVIOUS
  <1>1. ASSUME NEW d \in Descriptors, Run(d) PROVE Inv'
    BY <1>1, RunKeepsInv
  <1>2. ASSUME NEW g \in Generations, BodyWins(g) \/ OrphanEnds(g) \/ TimesOut(g) \/ FallbackEnds(g)
        PROVE  Inv'
    BY <1>2, BodyWinsKeepsInv, OrphanEndsKeepsInv, TimesOutKeepsInv, FallbackEndsKeepsInv
  <1>3. Known \in SUBSET Generations
    BY DEF Inv, Sound, Known
  <1>4. ASSUME NEW k \in Keys, CancelTask(k) PROVE Inv'
    <2>1. {g \in Known : KeyOf(req, g) = k} \in SUBSET Generations
      BY <1>3
    <2> QED
      BY <1>4, <2>1, CancelKeepsInv DEF CancelTask
  <1>5. ASSUME NEW w \in Scopes, CancelWorkspaceTasks(w) PROVE Inv'
    <2>1. {g \in Known : req[g].desc.scope = w} \in SUBSET Generations
      BY <1>3
    <2> QED
      BY <1>5, <2>1, CancelKeepsInv DEF CancelWorkspaceTasks
  <1>6. CASE CancelAllTasks
    BY <1>6, CancelAllKeepsInv
  <1>7. CASE SliceElapses \/ ResumeIdleDrain
    BY <1>7, IdleKeepsInv
  <1>8. CASE UNCHANGED vars
    <2>1. /\ Sound(queue', inFlight', running', count', stale', req')
          /\ idle' \in IdleFlags /\ NothingIdles'
      BY <1>8 DEF Inv, vars, NothingIdles
    <2> QED
      BY <2>1, InvNext
  <1> QED
    BY <1>1, <1>2, <1>4, <1>5, <1>6, <1>7, <1>8 DEF Next

\* Inv holds in every reachable state.
LEMMA InvHolds == Spec => []Inv
  BY InitInv, NextInv, PTL DEF Spec

\* TypeOK: every variable has its type, and what waits in the queue was not
\* started, answered or cancelled.
THEOREM StartupTypes == Spec => []TypeOK
  <1>1. Inv => TypeOK
    BY DEF Inv, Sound, Accounted, Counters, IdleFlags, TypeOK
  <1> QED
    BY <1>1, InvHolds, PTL

\* SlotsAccounted: the counters of drainQueue are the requests that hold a
\* slot, within the limits, however cancellations, timers and late bodies
\* interleave, and for every limit.
THEOREM SlotsAreAccounted == Spec => []SlotsAccounted
  <1>1. Inv => SlotsAccounted
    <2>1. Occupying = Holders(req)
      BY DEF Occupying, Holders
    <2> QED
      BY <2>1 DEF Inv, Sound, Accounted, SlotsAccounted
  <1> QED
    BY <1>1, InvHolds, PTL

\* NothingIdles: no wake-up of the queue is lost; what the limits admit is
\* started at once or a drain is scheduled.
THEOREM QueueIsServed == Spec => []NothingIdles
  <1>1. Inv => NothingIdles
    BY DEF Inv
  <1> QED
    BY <1>1, InvHolds, PTL

\* CancelReaches: a request that holds a slot is found by its key, in both
\* maps, whatever cancelled bodies of the same key still do.
THEOREM CancellationsReach == Spec => []CancelReaches
  <1>1. Inv => CancelReaches
    BY DEF Inv, Sound, Placed, Holders, Occupying, CancelReaches
  <1> QED
    BY <1>1, InvHolds, PTL
=============================================================================
