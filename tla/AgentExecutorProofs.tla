------------------------ MODULE AgentExecutorProofs ------------------------
(***************************************************************************)
(* Proofs about the squad, for every set of runs, stages, gates, attempts  *)
(* and flows, and every value of the bounds MaxRetries and MaxFaults.      *)
(* These count retries of whatever stage and faults of whatever kind: a    *)
(* stage may be retried, and a call fail, again and again.                 *)
(***************************************************************************)
EXTENDS AgentExecutor, Minima

-----------------------------------------------------------------------------
(***************************************************************************)
(* The back end: what the commands of a squad run do to it, for every      *)
(* number of stages, every set of gates and every set of attempts.  Lemmas *)
(* about the facts, then one about each command.                           *)
(***************************************************************************)
\* A run whose stages have the attempts they need: one that waits has none,
\* one that runs has one, and in an open run so has one that ended.
WellKept(R) ==
    /\ R \in Run
    /\ \A s \in Stages :
          /\ R.stage[s] = "pending" => R.attempt[s] = None
          /\ R.stage[s] = "running" => R.attempt[s] # None
          /\ IsOpen(R) /\ R.stage[s] # "pending" => R.attempt[s] # None

\* What every command promises the window: the run stays well kept, only the
\* stage that is begun changes its attempt, to the fresh one, and the attempt
\* that is handed out is the fresh one or that of a stage after the first.  A
\* run that has ended is left alone.
IsEffect(R, e, fresh) ==
    /\ WellKept(e.run)
    /\ e.run.status # "absent"
    /\ IsTerminal(R) => e.run = R
    /\ e.begun \in Stages \cup {None}
    /\ e.next \in Attempts \cup {None}
    /\ e.begun # None => e.run.attempt[e.begun] = fresh
    /\ \A s \in Stages : s # e.begun => e.run.attempt[s] = R.attempt[s]
    /\ e.next # None => \/ e.next = fresh /\ e.begun # None
                        \/ \E s \in Stages : s > 1 /\ R.attempt[s] = e.next

\* What is left of a command that begins nothing.
KeepsAttempts(R, T) ==
    /\ WellKept(T)
    /\ T.status # "absent"
    /\ IsTerminal(R) => T = R
    /\ T.attempt = R.attempt

-----------------------------------------------------------------------------
(* Facts. *)

\* None is no stage and no attempt.
LEMMA NoneApart == None \notin Stages /\ None \notin Attempts /\ Stages \subseteq Nat
  <1>1. Stages \subseteq Nat
    BY ControlAssumption DEF ControlAssumption, Stages
  <1> QED
    BY <1>1, ControlAssumption DEF ControlAssumption

\* A run that was never requested is well kept.
LEMMA AbsentRunKept == WellKept(AbsentRun) /\ AbsentRun.status = "absent"
  BY DEF WellKept, AbsentRun, Run, RunStatus, StageStatus, IsOpen

\* request_run leaves an open, well kept run without attempts.
LEMMA RequestedKept ==
    ASSUME NEW a \in Attempts
    PROVE  /\ WellKept(Requested(a))
           /\ IsOpen(Requested(a))
           /\ Requested(a) = [AbsentRun EXCEPT !.status = "planning", !.lead = a]
  BY DEF WellKept, Requested, AbsentRun, Run, RunStatus, StageStatus, IsOpen, IsTerminal

\* What the fact turnRequested does to the projection of the run, field by field.
LEMMA TurnRequestedFields ==
    ASSUME NEW R \in Run, NEW s \in Stages, NEW a \in Attempts
    PROVE  LET T == TurnRequested(R, s, a)
           IN  /\ T \in Run
               /\ T.stage[s] = "running"
               /\ T.attempt[s] = a
               /\ \A t \in Stages : t # s => /\ T.stage[t] = R.stage[t]
                                            /\ T.attempt[t] = R.attempt[t]
               /\ T.status \in {"planning", "implementing"}
               /\ T.outcome = R.outcome
               /\ T.approved = R.approved
  <1>1. R.stage \in [Stages -> StageStatus] /\ R.attempt \in [Stages -> Attempts \cup {None}]
    BY DEF Run
  <1> DEFINE st == [R.stage EXCEPT ![s] = "running"]
             at == [R.attempt EXCEPT ![s] = a]
             ac == R.active \cup {a}
             su == IF s = 1 THEN "planning" ELSE "implementing"
  <1>2. /\ st \in [Stages -> StageStatus]
        /\ at \in [Stages -> Attempts \cup {None}]
        /\ ac \in SUBSET Attempts
        /\ su \in RunStatus
        /\ su \in {"planning", "implementing"}
    BY <1>1 DEF Run, StageStatus, RunStatus
  <1>3. TurnRequested(R, s, a) = [R EXCEPT !.stage = st, !.attempt = at, !.active = ac, !.status = su]
    BY DEF TurnRequested, Run
  <1> HIDE DEF st, at, ac, su
  <1>4. TurnRequested(R, s, a) \in Run
    BY <1>2, <1>3 DEF Run
  <1> QED
    BY <1>2, <1>3, <1>4 DEF Run, st, at

\* What the outcome fact of a stage does to the projection, field by field.
LEMMA NodeOutcomeFields ==
    ASSUME NEW R \in Run, NEW s \in Stages, NEW a \in Attempts,
           NEW o \in {"succeeded", "failed", "closed"}
    PROVE  LET T == NodeOutcome(R, s, a, o)
           IN  /\ T \in Run
               /\ T.stage[s] = "succeeded" <=> o = "succeeded"
               /\ T.stage[s] \in {"succeeded", "failed"}
               /\ \A t \in Stages : t # s => T.stage[t] = R.stage[t]
               /\ \A b \in Attempts : b # a => T.outcome[b] = R.outcome[b]
               /\ T.attempt = R.attempt
               /\ T.status = R.status
               /\ T.approved = R.approved
  <1> DEFINE st == [R.stage EXCEPT ![s] = IF o = "succeeded" THEN "succeeded" ELSE "failed"]
             ou == [R.outcome EXCEPT ![a] = <<s, o>>]
             ac == R.active \ {a}
  <1>1. /\ st \in [Stages -> StageStatus]
        /\ ou \in [Attempts -> OutcomeFact \cup {None}]
        /\ ac \in SUBSET Attempts
    BY DEF Run, StageStatus, OutcomeFact
  <1>2. NodeOutcome(R, s, a, o) = [R EXCEPT !.outcome = ou, !.stage = st, !.active = ac]
    BY DEF NodeOutcome, Run
  <1> HIDE DEF st, ou, ac
  <1>3. NodeOutcome(R, s, a, o) \in Run
    BY <1>1, <1>2 DEF Run
  <1> QED
    BY <1>1, <1>2, <1>3 DEF Run, st, ou

\* The outcome fact is the one recorded for the attempt.
LEMMA NodeOutcomeFact ==
    ASSUME NEW R \in Run, NEW s \in Stages, NEW a \in Attempts,
           NEW o \in {"succeeded", "failed", "closed"}
    PROVE  NodeOutcome(R, s, a, o).outcome[a] = <<s, o>>
  <1> DEFINE fact == <<s, o>>
  <1>1. NodeOutcome(R, s, a, o).outcome = [R.outcome EXCEPT ![a] = fact]
    <2> HIDE DEF fact
    <2> QED
      BY DEF NodeOutcome, Run, fact
  <1>2. R.outcome \in [Attempts -> OutcomeFact \cup {None}]
    BY DEF Run
  <1> HIDE DEF fact
  <1> QED
    BY <1>1, <1>2 DEF fact

\* What the fact of a plan gate does to the projection, field by field.
LEMMA PlanGateFields ==
    ASSUME NEW R \in Run, NEW s \in Stages
    PROVE  LET T == PlanGate(R, s)
           IN  /\ T \in Run
               /\ T.stage[s] = "succeeded"
               /\ \A t \in Stages : t # s => T.stage[t] = R.stage[t]
               /\ T.status = "awaiting-approval"
               /\ T.outcome = R.outcome
               /\ T.attempt = R.attempt
               /\ T.approved = R.approved
  <1> DEFINE st == [R.stage EXCEPT ![s] = "succeeded"]
             ac == R.active \ {R.lead}
             re == R.revision + 1
  <1>1. st \in [Stages -> StageStatus] /\ ac \in SUBSET Attempts /\ re \in Nat
    BY DEF Run, StageStatus
  <1>2. PlanGate(R, s) = [R EXCEPT !.revision = re, !.status = "awaiting-approval",
                                   !.stage = st, !.active = ac, !.lead = None]
    BY DEF PlanGate, Run
  <1> HIDE DEF st, ac, re
  <1>3. PlanGate(R, s) \in Run
    BY <1>1, <1>2 DEF Run, RunStatus
  <1> QED
    BY <1>1, <1>2, <1>3 DEF Run, st

\* What an approval does to the projection, field by field.
LEMMA PlanApprovedFields ==
    ASSUME NEW R \in Run
    PROVE  LET T == PlanApproved(R)
           IN  /\ T \in Run
               /\ T.status = "implementing"
               /\ T.approved = R.approved + 1
               /\ T.stage = R.stage
               /\ T.outcome = R.outcome
               /\ T.attempt = R.attempt
  <1> DEFINE ap == R.approved + 1
  <1>1. ap \in Nat
    BY DEF Run
  <1>2. PlanApproved(R) = [R EXCEPT !.status = "implementing", !.approved = ap]
    BY DEF PlanApproved, Run
  <1> HIDE DEF ap
  <1>3. PlanApproved(R) \in Run
    BY <1>1, <1>2 DEF Run, RunStatus
  <1> QED
    BY <1>1, <1>2, <1>3 DEF Run, ap

\* What the settlement of a run does to the projection, field by field.
LEMMA RunSettledFields ==
    ASSUME NEW R \in Run, NEW o \in {"succeeded", "failed", "cancelled"}
    PROVE  LET T == RunSettled(R, o)
           IN  /\ T \in Run
               /\ T.status = o
               /\ T.stage \in [Stages -> {"succeeded", "failed", "skipped"}]
               /\ \A s \in Stages : R.stage[s] = "succeeded" <=> T.stage[s] = "succeeded"
               /\ T.outcome = R.outcome
               /\ T.attempt = R.attempt
               /\ T.approved = R.approved
  <1> DEFINE st == [s \in Stages |->
                      IF R.stage[s] \notin {"pending", "running"} THEN R.stage[s]
                      ELSE IF o = "cancelled" THEN "skipped" ELSE "failed"]
  <1>1. st \in [Stages -> {"succeeded", "failed", "skipped"}]
    BY DEF Run, StageStatus
  <1>2. \A s \in Stages : R.stage[s] = "succeeded" <=> st[s] = "succeeded"
    OBVIOUS
  <1>3. RunSettled(R, o) = [R EXCEPT !.status = o, !.stage = st, !.active = {}]
    BY DEF RunSettled
  <1>4. st \in [Stages -> StageStatus]
    BY <1>1 DEF StageStatus
  <1> HIDE DEF st
  <1>5. RunSettled(R, o) \in Run
    BY <1>3, <1>4 DEF Run, RunStatus
  <1> QED
    BY <1>1, <1>2, <1>3, <1>5 DEF Run

\* The facts keep a run well kept; an outcome, only for a stage with an attempt.
LEMMA TurnRequestedKept ==
    ASSUME NEW R, WellKept(R), IsOpen(R), NEW s \in Stages, NEW a \in Attempts
    PROVE  WellKept(TurnRequested(R, s, a)) /\ IsOpen(TurnRequested(R, s, a))
  <1> SUFFICES ASSUME NEW T, T = TurnRequested(R, s, a)
               PROVE  WellKept(T) /\ IsOpen(T)
    OBVIOUS
  <1>1. /\ T \in Run
        /\ T.stage[s] = "running"
        /\ T.attempt[s] = a
        /\ \A t \in Stages : t # s => T.stage[t] = R.stage[t] /\ T.attempt[t] = R.attempt[t]
        /\ T.status \in {"planning", "implementing"}
    BY TurnRequestedFields DEF WellKept
  <1> QED
    BY <1>1, NoneApart DEF WellKept, IsOpen, IsTerminal

\* The outcome of an attempt leaves a run well kept.
LEMMA NodeOutcomeKept ==
    ASSUME NEW R, WellKept(R), NEW s \in Stages, R.attempt[s] # None, NEW a \in Attempts,
           NEW o \in {"succeeded", "failed", "closed"}
    PROVE  WellKept(NodeOutcome(R, s, a, o))
  <1> SUFFICES ASSUME NEW T, T = NodeOutcome(R, s, a, o)
               PROVE  WellKept(T)
    OBVIOUS
  <1>1. R \in Run
    BY DEF WellKept
  <1>2. /\ T \in Run
        /\ T.stage[s] \in {"succeeded", "failed"}
        /\ T.attempt = R.attempt
        /\ T.status = R.status
    BY <1>1, NodeOutcomeFields
  <1>3. \A t \in Stages : t # s => T.stage[t] = R.stage[t]
    BY <1>1, NodeOutcomeFields, SMTT(30)
  <1> QED
    BY <1>2, <1>3 DEF WellKept, IsOpen, IsTerminal

\* A plan gate leaves an open run open and well kept.
LEMMA PlanGateKept ==
    ASSUME NEW R, WellKept(R), IsOpen(R), NEW s \in Stages, R.attempt[s] # None
    PROVE  WellKept(PlanGate(R, s)) /\ IsOpen(PlanGate(R, s))
  <1> SUFFICES ASSUME NEW T, T = PlanGate(R, s)
               PROVE  WellKept(T) /\ IsOpen(T)
    OBVIOUS
  <1>1. /\ T \in Run
        /\ T.stage[s] = "succeeded"
        /\ \A t \in Stages : t # s => T.stage[t] = R.stage[t]
        /\ T.attempt = R.attempt
        /\ T.status = "awaiting-approval"
    BY PlanGateFields DEF WellKept
  <1> QED
    BY <1>1 DEF WellKept, IsOpen, IsTerminal

\* An approval leaves an open run open and well kept.
LEMMA PlanApprovedKept ==
    ASSUME NEW R, WellKept(R), IsOpen(R)
    PROVE  WellKept(PlanApproved(R)) /\ IsOpen(PlanApproved(R))
  <1> SUFFICES ASSUME NEW T, T = PlanApproved(R)
               PROVE  WellKept(T) /\ IsOpen(T)
    OBVIOUS
  <1>1. /\ T \in Run
        /\ T.stage = R.stage
        /\ T.attempt = R.attempt
        /\ T.status = "implementing"
    BY PlanApprovedFields DEF WellKept
  <1> QED
    BY <1>1 DEF WellKept, IsOpen, IsTerminal

\* A settlement leaves a run well kept and terminal.
LEMMA RunSettledKept ==
    ASSUME NEW R, WellKept(R), NEW o \in {"succeeded", "failed", "cancelled"}
    PROVE  WellKept(RunSettled(R, o)) /\ IsTerminal(RunSettled(R, o))
  <1> SUFFICES ASSUME NEW T, T = RunSettled(R, o)
               PROVE  WellKept(T) /\ IsTerminal(T)
    OBVIOUS
  <1>1. /\ T \in Run
        /\ T.stage \in [Stages -> {"succeeded", "failed", "skipped"}]
        /\ T.status = o
    BY RunSettledFields DEF WellKept
  <1>2. \A s \in Stages : T.stage[s] \notin {"pending", "running"}
    <2> QED
      BY <1>1
  <1> QED
    BY <1>1, <1>2 DEF WellKept, IsOpen, IsTerminal

\* The append of an outcome, replay or not.
LEMMA JudgedKept ==
    ASSUME NEW R, WellKept(R), NEW s \in Stages, R.attempt[s] # None, NEW a \in Attempts,
           NEW o \in {"succeeded", "failed", "closed"}
    PROVE  LET T == Judged(R, s, a, o)
           IN  /\ WellKept(T)
               /\ T.attempt = R.attempt
               /\ T.status = R.status
               /\ T.approved = R.approved
               /\ \A t \in Stages : t # s => T.stage[t] = R.stage[t]
  <1>1. ASSUME NEW T, T = NodeOutcome(R, s, a, o)
        PROVE  /\ WellKept(T)
               /\ T.attempt = R.attempt
               /\ T.status = R.status
               /\ T.approved = R.approved
               /\ \A t \in Stages : t # s => T.stage[t] = R.stage[t]
    <2>1. R \in Run
      BY DEF WellKept
    <2>2. WellKept(T)
      BY <1>1, NodeOutcomeKept
    <2> QED
      BY <1>1, <2>1, <2>2, NodeOutcomeFields, SMTT(30)
  <1>2. Judged(R, s, a, o) = NodeOutcome(R, s, a, o) \/ Judged(R, s, a, o) = R
    BY DEF Judged
  <1> QED
    BY <1>1, <1>2

-----------------------------------------------------------------------------
(* Commands. *)

\* The stage that a report is for: that of the attempt, or one that runs.
LEMMA StageOfFields ==
    ASSUME NEW R, WellKept(R), NEW a \in Attempts, StageOf(R, a) # None
    PROVE  LET s == StageOf(R, a)
           IN  /\ s \in Stages
               /\ R.attempt[s] # None
               /\ \/ R.attempt[s] = a
                  \/ R.stage[s] = "running" /\ \A t \in Stages : R.attempt[t] # a
  <1>1. CASE \E s \in Stages : R.attempt[s] = a
    BY <1>1, NoneApart DEF StageOf
  <1>2. CASE \A s \in Stages : R.attempt[s] # a
    <2>1. Running(R) # {} /\ Running(R) \in SUBSET Nat
      BY <1>2, NoneApart DEF StageOf, Running
    <2>2. \E s \in Running(R) : \A t \in Running(R) : s <= t
      BY <2>1, LeastElement
    <2>3. StageOf(R, a) \in Running(R)
      BY <1>2, <2>1, <2>2 DEF StageOf
    <2> QED
      BY <1>2, <2>3 DEF Running, WellKept
  <1> QED
    BY <1>1, <1>2

\* The first stage that waits.
LEMMA NextPendingFields ==
    ASSUME NEW R \in Run, NextPending(R) # None
    PROVE  LET s == NextPending(R)
           IN  /\ s \in Stages
               /\ R.stage[s] = "pending"
               /\ \A t \in Stages : t < s => R.stage[t] # "pending"
  <1> DEFINE ps == {s \in Stages : R.stage[s] = "pending"}
  <1>1. ps # {} /\ ps \in SUBSET Nat
    BY NoneApart DEF NextPending
  <1>2. \E s \in ps : \A t \in ps : s <= t
    BY <1>1, LeastElement
  <1>3. NextPending(R) \in ps /\ \A t \in ps : NextPending(R) <= t
    BY <1>1, <1>2 DEF NextPending
  <1> QED
    BY <1>3, NoneApart

\* A command that settles the run begins nothing and is an effect on it.
LEMMA SettleEffect ==
    ASSUME NEW R, ~ IsTerminal(R), NEW S, WellKept(S), S.attempt = R.attempt, NEW a \in Attempts,
           NEW o \in {"succeeded", "failed", "cancelled"}
    PROVE  IsEffect(R, Effect(RunSettled(S, o)), a)
  BY RunSettledKept, RunSettledFields, NoneApart DEF IsEffect, Effect, WellKept

\* A command that begins a stage is an effect on an open run.
LEMMA BeginEffect ==
    ASSUME NEW R, ~ IsTerminal(R), NEW S, WellKept(S), IsOpen(S), S.attempt = R.attempt,
           NEW s \in Stages, NEW a \in Attempts
    PROVE  IsEffect(R, Begin(S, s, a), a)
  <1> SUFFICES ASSUME NEW T, T = TurnRequested(S, s, a)
               PROVE  IsEffect(R, [run |-> T, begun |-> s, next |-> a], a)
    BY DEF Begin
  <1>1. WellKept(T) /\ IsOpen(T)
    BY TurnRequestedKept
  <1>2. T.attempt[s] = a /\ \A t \in Stages : t # s => T.attempt[t] = R.attempt[t]
    BY TurnRequestedFields DEF WellKept
  <1> QED
    BY <1>1, <1>2, NoneApart DEF IsEffect, IsOpen

\* advance_after is an effect: it begins the successor or settles the run.
LEMMA AdvanceEffect ==
    ASSUME NEW R, ~ IsTerminal(R), NEW S, WellKept(S), IsOpen(S), S.attempt = R.attempt,
           NEW s \in Stages, NEW a \in Attempts, NEW canBegin \in BOOLEAN
    PROVE  IsEffect(R, Advance(S, s, a, canBegin), a)
  <1>1. s \in Nat /\ 1 <= s /\ s <= N /\ N \in Nat
    BY ControlAssumption DEF ControlAssumption, Stages
  <1>2. CASE s = N
    <2>1. Advance(S, s, a, canBegin) = Effect(RunSettled(S, "succeeded"))
      BY <1>1, <1>2 DEF Advance
    <2> QED
      BY <2>1, SettleEffect
  <1>3. CASE s < N
    <2>1. s + 1 \in Stages /\ s + 1 > 1
      BY <1>1, <1>3 DEF Stages
    <2>2. CASE S.stage[s + 1] = "running"
      <3>1. Advance(S, s, a, canBegin) = [Effect(S) EXCEPT !.next = S.attempt[s + 1]]
        BY <1>1, <1>3, <2>2 DEF Advance
      <3>2. S.attempt[s + 1] \in Attempts
        BY <2>1, <2>2 DEF WellKept, Run
      <3> QED
        BY <2>1, <3>1, <3>2 DEF IsEffect, Effect, IsOpen
    <2>3. CASE S.stage[s + 1] # "running" /\ canBegin
      <3>1. Advance(S, s, a, canBegin) = Begin(S, s + 1, a)
        BY <1>1, <1>3, <2>3 DEF Advance
      <3> QED
        BY <2>1, <3>1, BeginEffect
    <2>4. CASE S.stage[s + 1] # "running" /\ ~ canBegin
      <3>1. Advance(S, s, a, canBegin) = Effect(RunSettled(S, IF s > 1 THEN "succeeded" ELSE "failed"))
        BY <1>1, <1>3, <2>4 DEF Advance
      <3> QED
        BY <3>1, SettleEffect
    <2> QED
      BY <2>2, <2>3, <2>4
  <1> QED
    BY <1>1, <1>2, <1>3

\* shared_agent_record_execute, when it is not refused.
LEMMA RecordEffect ==
    ASSUME NEW R, WellKept(R), R.status # "absent", NEW b \in Attempts, NEW done \in BOOLEAN,
           NEW a \in Attempts, NEW canBegin \in BOOLEAN, ~ RecordRefused(R, b, done)
    PROVE  IsEffect(R, Record(R, b, done, a, canBegin), a)
  <1>1. CASE IsTerminal(R)
    <2>1. Record(R, b, done, a, canBegin) = Effect(R)
      BY <1>1 DEF Record
    <2> QED
      BY <2>1, NoneApart DEF IsEffect, Effect
  <1>2. CASE ~ IsTerminal(R)
    <2> DEFINE s == StageOf(R, b)
    <2>0. IsOpen(R)
      BY <1>2 DEF IsOpen
    <2>1. s \in Stages /\ R.attempt[s] # None
      <3>1. s # None
        BY <1>2 DEF RecordRefused
      <3> QED
        BY <3>1, StageOfFields
    <2>2. CASE R.stage[s] = "succeeded"
      <3>1. Record(R, b, done, a, canBegin) = Advance(R, s, a, canBegin)
        BY <1>2, <2>2 DEF Record
      <3> QED
        BY <1>2, <2>0, <2>1, <3>1, AdvanceEffect
    <2>3. CASE R.stage[s] # "succeeded" /\ done
      <3> DEFINE S == Judged(R, s, b, "succeeded")
      <3>1. Record(R, b, done, a, canBegin) = AfterSuccess(S, s, a, canBegin)
        BY <1>2, <2>3 DEF Record
      <3>2. WellKept(S) /\ S.attempt = R.attempt /\ IsOpen(S)
        <4>1. WellKept(S) /\ S.attempt = R.attempt /\ S.status = R.status
          BY <2>1, JudgedKept
        <4> QED
          BY <2>0, <4>1 DEF IsOpen, IsTerminal
      <3> HIDE DEF S, s
      <3>3. CASE s \in Gated
        <4>1. WellKept(PlanGate(S, s)) /\ IsOpen(PlanGate(S, s))
          BY <2>1, <3>2, PlanGateKept
        <4>2. PlanGate(S, s).attempt = R.attempt
          BY <2>1, <3>2, PlanGateFields DEF WellKept
        <4>3. AfterSuccess(S, s, a, canBegin) = Effect(PlanGate(S, s))
          BY <3>3 DEF AfterSuccess
        <4> QED
          BY <1>2, <3>1, <4>1, <4>2, <4>3, NoneApart DEF IsEffect, Effect, IsOpen
      <3>4. CASE s \notin Gated
        <4>1. AfterSuccess(S, s, a, canBegin) = Advance(S, s, a, canBegin)
          BY <3>4 DEF AfterSuccess
        <4> QED
          BY <1>2, <2>1, <3>1, <3>2, <4>1, AdvanceEffect
      <3> QED
        BY <3>3, <3>4
    <2>4. CASE R.stage[s] # "succeeded" /\ ~ done
      <3> DEFINE S == Judged(R, s, b, "failed")
      <3>1. Record(R, b, done, a, canBegin) = Effect(RunSettled(S, "failed"))
        BY <1>2, <2>4 DEF Record
      <3>2. WellKept(S) /\ S.attempt = R.attempt
        BY <2>1, JudgedKept
      <3> QED
        BY <1>2, <3>1, <3>2, SettleEffect
    <2> QED
      BY <2>2, <2>3, <2>4
  <1> QED
    BY <1>1, <1>2

\* What a torn one leaves.
LEMMA TornRecordKept ==
    ASSUME NEW R, WellKept(R), R.status # "absent", NEW b \in Attempts, NEW done \in BOOLEAN,
           ~ RecordRefused(R, b, done), NEW T \in TornRecord(R, b, done)
    PROVE  KeepsAttempts(R, T)
  <1> DEFINE s == StageOf(R, b)
             S == Judged(R, s, b, Verdict(done))
  <1>1. CASE T = R
    BY <1>1 DEF KeepsAttempts
  <1>2. CASE ~ IsTerminal(R) /\ T \in {S, PlanGate(S, s)}
    <2>1. s \in Stages /\ R.attempt[s] # None
      <3>1. s # None
        BY <1>2 DEF RecordRefused
      <3> QED
        BY <3>1, StageOfFields
    <2>2. WellKept(S) /\ S.attempt = R.attempt /\ S.status = R.status
      <3>1. Verdict(done) \in {"succeeded", "failed", "closed"}
        BY DEF Verdict
      <3> QED
        BY <2>1, <3>1, JudgedKept
    <2>3. IsOpen(S)
      BY <1>2, <2>2 DEF IsOpen, IsTerminal
    <2> HIDE DEF S, s
    <2>4. WellKept(PlanGate(S, s)) /\ IsOpen(PlanGate(S, s))
      BY <2>1, <2>2, <2>3, PlanGateKept
    <2>5. PlanGate(S, s).attempt = R.attempt
      BY <2>1, <2>2, PlanGateFields DEF WellKept
    <2> QED
      BY <1>2, <2>2, <2>3, <2>4, <2>5 DEF KeepsAttempts, IsOpen
  <1>3. T = R \/ (~ IsTerminal(R) /\ T \in {S, PlanGate(S, s)})
    <2>1. TornRecord(R, b, done) =
             IF IsTerminal(R) \/ R.stage[s] = "succeeded" THEN {R}
             ELSE {S} \cup IF done /\ s \in Gated THEN {PlanGate(S, s)} ELSE {}
      BY DEF TornRecord
    <2> HIDE DEF S, s
    <2> QED
      BY <2>1
  <1> HIDE DEF S, s
  <1> QED
    BY <1>1, <1>2, <1>3

\* shared_agent_approve
LEMMA ApproveEffect ==
    ASSUME NEW R, WellKept(R), IsOpen(R), NEW a \in Attempts, NEW canBegin \in BOOLEAN
    PROVE  IsEffect(R, Approve(R, a, canBegin), a)
  <1> DEFINE S == PlanApproved(R)
  <1>1. WellKept(S) /\ IsOpen(S) /\ S.attempt = R.attempt
    BY PlanApprovedKept, PlanApprovedFields DEF WellKept
  <1>2. ~ IsTerminal(R)
    BY DEF IsOpen
  <1> HIDE DEF S
  <1>3. CASE NextPending(R) = None
    <2>1. Approve(R, a, canBegin) = Effect(S)
      BY <1>3 DEF Approve, S
    <2> QED
      BY <1>1, <1>2, <2>1, NoneApart DEF IsEffect, Effect, IsOpen
  <1>4. CASE NextPending(R) # None /\ canBegin
    <2>1. Approve(R, a, canBegin) = Begin(S, NextPending(R), a)
      BY <1>4 DEF Approve, S
    <2>2. NextPending(R) \in Stages
      BY <1>4, NextPendingFields DEF WellKept
    <2> QED
      BY <1>1, <1>2, <2>1, <2>2, BeginEffect
  <1>5. CASE NextPending(R) # None /\ ~ canBegin
    <2>1. Approve(R, a, canBegin) = Effect(RunSettled(S, "failed"))
      BY <1>5 DEF Approve, S
    <2> QED
      BY <1>1, <1>2, <2>1, SettleEffect
  <1> QED
    BY <1>3, <1>4, <1>5

\* shared_agent_retry_stage
LEMMA RetryStageEffect ==
    ASSUME NEW R, WellKept(R), IsOpen(R), NEW s \in Stages, NEW a \in Attempts,
           NEW canBegin \in BOOLEAN
    PROVE  IsEffect(R, RetryStage(R, s, a, canBegin), a)
  <1> DEFINE S == IF R.attempt[s] = None THEN R ELSE Judged(R, s, R.attempt[s], "closed")
  <1>1. WellKept(S) /\ S.attempt = R.attempt /\ S.status = R.status
    <2>1. CASE R.attempt[s] = None
      BY <2>1
    <2>2. CASE R.attempt[s] # None
      <3>1. R.attempt[s] \in Attempts
        BY <2>2 DEF WellKept, Run
      <3> QED
        BY <2>2, <3>1, JudgedKept
    <2> QED
      BY <2>1, <2>2
  <1>2. ~ IsTerminal(R)
    BY DEF IsOpen
  <1>3. RetryStage(R, s, a, canBegin) = IF canBegin THEN Begin(S, s, a) ELSE Effect(S)
    BY DEF RetryStage
  <1> HIDE DEF S
  <1>4. IsOpen(S)
    BY <1>1 DEF IsOpen, IsTerminal
  <1>5. CASE canBegin
    BY <1>1, <1>2, <1>3, <1>4, <1>5, BeginEffect
  <1>6. CASE ~ canBegin
    BY <1>1, <1>2, <1>3, <1>4, <1>6, NoneApart DEF IsEffect, Effect, IsOpen
  <1> QED
    BY <1>5, <1>6

\* shared_agent_request_run: the first stage is begun, or the run has failed.
LEMMA RequestEffect ==
    ASSUME NEW a \in Attempts
    PROVE  /\ IsEffect(AbsentRun, Begin(Requested(a), 1, a), a)
           /\ IsEffect(AbsentRun, Effect(RunSettled(Requested(a), "failed")), a)
  <1>1. WellKept(Requested(a)) /\ IsOpen(Requested(a))
    BY RequestedKept
  <1>2. Requested(a).attempt = AbsentRun.attempt
    BY DEF Requested, AbsentRun
  <1>3. ~ IsTerminal(AbsentRun)
    BY DEF AbsentRun, IsTerminal
  <1>4. 1 \in Stages
    BY ControlAssumption DEF ControlAssumption, Stages
  <1> QED
    BY <1>1, <1>2, <1>3, <1>4, BeginEffect, SettleEffect

\* shared_agent_cancel and shared_agent_finalize_cancel
LEMMA CancelKept ==
    ASSUME NEW R, WellKept(R), R.status # "absent"
    PROVE  KeepsAttempts(R, Cancel(R)) /\ KeepsAttempts(R, FinalizeCancel(R))
  <1>1. KeepsAttempts(R, Cancel(R))
    <2>1. ASSUME NEW T, T = [R EXCEPT !.cancelling = TRUE], ~ IsTerminal(R)
          PROVE  KeepsAttempts(R, T)
      <3>1. /\ T \in Run
            /\ T.attempt = R.attempt /\ T.stage = R.stage /\ T.status = R.status
        BY <2>1 DEF WellKept, Run
      <3> QED
        BY <2>1, <3>1 DEF KeepsAttempts, WellKept, IsOpen, IsTerminal
    <2>2. CASE IsTerminal(R)
      BY <2>2 DEF KeepsAttempts, Cancel
    <2>3. CASE ~ IsTerminal(R)
      BY <2>1, <2>3 DEF Cancel
    <2> QED
      BY <2>2, <2>3
  <1>2. KeepsAttempts(R, FinalizeCancel(R))
    <2>1. CASE IsTerminal(R)
      BY <2>1 DEF KeepsAttempts, FinalizeCancel
    <2>2. CASE ~ IsTerminal(R)
      <3>1. FinalizeCancel(R) = RunSettled(R, "cancelled")
        BY <2>2 DEF FinalizeCancel
      <3>2. WellKept(RunSettled(R, "cancelled")) /\ IsTerminal(RunSettled(R, "cancelled"))
        BY RunSettledKept
      <3>3. RunSettled(R, "cancelled").attempt = R.attempt
        BY RunSettledFields DEF WellKept
      <3> QED
        BY <2>2, <3>1, <3>2, <3>3 DEF KeepsAttempts, IsTerminal
    <2> QED
      BY <2>1, <2>2
  <1> QED
    BY <1>1, <1>2

-----------------------------------------------------------------------------
(***************************************************************************)
(* The invariant that the types need.  The backend: the attempt of a stage *)
(* was begun for it, and a begun attempt belongs to a run that exists.  A  *)
(* flow: what it works on exists, and only a request has a first attempt.  *)
(***************************************************************************)
Used(a) == attempt[a].phase # "unused"

BackendInv ==
    /\ run \in [Runs -> Run]
    /\ attempt \in [Attempts -> Attempt]
    /\ \A r \in Runs : WellKept(run[r])
    /\ \A r \in Runs, s \in Stages : run[r].attempt[s] # None =>
          LET a == run[r].attempt[s]
          IN  Used(a) /\ attempt[a].run = r /\ attempt[a].stage = s
    /\ \A a \in Attempts : Used(a) =>
          /\ attempt[a].run \in Runs
          /\ attempt[a].stage \in Stages
          /\ run[attempt[a].run].status # "absent"

RecoveryPcs == {"recovering", "reawaiting", "rerecording"}
ReportPcs   == {"driving", "awaiting", "recording"} \cup RecoveryPcs
ChainPcs    == {"closing", "retrying", "driving", "awaiting", "recording"}

Fits(w) ==
    /\ w \in Flow
    /\ w.pc = "requesting" => w.kind = "request"
    /\ w.pc \in {"approving", "closing", "retrying"} => w.kind # "request"
    /\ w.pc \notin {"idle", "requesting"} => w.run \in Runs /\ run[w.run].status # "absent"
    /\ w.pc \in {"closing", "retrying"} =>
          w.stage \in Stages /\ run[w.run].attempt[w.stage] # None
    /\ w.pc \in ReportPcs =>
          w.attempt \in Attempts /\ Used(w.attempt) /\ attempt[w.attempt].run = w.run
    /\ w.pc \in RecoveryPcs => w.attempt = w.lead
    /\ w.pc \in ReportPcs /\ w.kind = "request" => w.lead # None
    /\ w.lead # None =>
          /\ w.pc \in ReportPcs /\ w.kind = "request"
          /\ Used(w.lead) /\ attempt[w.lead].run = w.run /\ attempt[w.lead].stage = 1

FlowsInv == flow \in [Flows -> Flow] /\ \A f \in Flows : Fits(flow[f])

RestTypes ==
    /\ chainGen \in [Runs -> Nat]
    /\ task \in [Runs -> Flows \cup {None}]
    /\ retried \in [stages : Nat, runs : Nat]
    /\ faults \in [AllFaultKinds -> Nat]

TypeInv == BackendInv /\ FlowsInv /\ RestTypes

(***************************************************************************)
(* What a step may do.  Grows: what there is stays.  LifeStep: one run at  *)
(* most changes, and it is requested, goes on or has ended.  StepOf: flow  *)
(* f becomes w; w keeps the generation of f or gets a new one, and keeps   *)
(* the turn of f or has just dispatched one.                               *)
(***************************************************************************)
Late == {"dispatched", "completed", "failed"}

Grows ==
    /\ \A r \in Runs : run[r].status # "absent" => run'[r].status # "absent"
    /\ \A r \in Runs, s \in Stages : run[r].attempt[s] # None => run'[r].attempt[s] # None
    /\ \A a \in Attempts : Used(a) =>
          /\ attempt'[a].phase # "unused"
          /\ attempt'[a].run = attempt[a].run /\ attempt'[a].stage = attempt[a].stage
          /\ attempt[a].phase \in Late => attempt'[a].phase \in Late
          /\ IsCommitted(a) => attempt'[a].phase = attempt[a].phase

LifeStep ==
    \/ UNCHANGED run
    \/ \E r \in Runs :
          /\ \A q \in Runs \ {r} : run'[q] = run[q]
          /\ \/ IsTerminal(run[r]) /\ run'[r] = run[r]
             \/ IsOpen(run[r]) /\ run'[r].status # "absent"
             \/ /\ run[r].status = "absent" /\ \A q \in Runs : ~ IsOpen(run[q])
                /\ IsOpen(run'[r]) \/ run'[r].status = "failed"

BackendStep == BackendInv' /\ Grows /\ LifeStep

KeepsGeneration(f, w) ==
    /\ \A r \in Runs : chainGen[r] <= chainGen'[r]
    /\ w.pc \in ChainPcs =>
          \/ flow[f].pc \in ChainPcs /\ w.run = flow[f].run /\ w.gen = flow[f].gen
          \/ w.gen = chainGen'[w.run] /\ chainGen[w.run] < chainGen'[w.run]

KeepsTurn(f, w) ==
    w.pc \in {"awaiting", "recording"} =>
        \/ HasDispatched(f) /\ w.attempt = flow[f].attempt
        \/ attempt[w.attempt].phase = "begun" /\ attempt'[w.attempt].phase = "dispatched"

StepOf(f, w) ==
    /\ BackendStep
    /\ RestTypes'
    /\ flow' = [flow EXCEPT ![f] = w]
    /\ Fits(w)'
    /\ KeepsGeneration(f, w)
    /\ KeepsTurn(f, w)

-----------------------------------------------------------------------------
(* The backend. *)

\* A step that leaves the back end alone is a step of it that changes nothing.
LEMMA BackendSame ==
    ASSUME BackendInv, UNCHANGED backend
    PROVE  BackendStep
  BY DEF BackendInv, backend, BackendStep, Grows, LifeStep, Used

\* A turn of an attempt goes on.
LEMMA PhaseStep ==
    ASSUME BackendInv, NEW a \in Attempts, attempt[a].phase \in {"begun", "dispatched"},
           NEW p \in {"dispatched", "completed", "failed"},
           attempt' = Phase(a, p), run' = run
    PROVE  BackendStep /\ attempt'[a].phase = p
  <1>1. /\ attempt' \in [Attempts -> Attempt]
        /\ attempt'[a].phase = p
        /\ \A b \in Attempts : /\ attempt'[b].run = attempt[b].run
                               /\ attempt'[b].stage = attempt[b].stage
                               /\ b # a => attempt'[b] = attempt[b]
    BY DEF BackendInv, Phase, Attempt
  <1>2. \A b \in Attempts : Used(b)' = Used(b)
    BY <1>1 DEF Used
  <1>3. BackendInv'
    BY <1>1, <1>2 DEF BackendInv, WellKept, Run
  <1>4. Grows
    BY <1>1, <1>2 DEF Grows, Used, Late, IsCommitted
  <1> QED
    BY <1>1, <1>3, <1>4 DEF BackendStep, LifeStep

\* A command that begins nothing.
LEMMA KeepsStep ==
    ASSUME BackendInv, NEW r \in Runs, NEW T, KeepsAttempts(run[r], T),
           run[r].status # "absent",
           run' = [run EXCEPT ![r] = T], attempt' = attempt
    PROVE  BackendStep
  <1>1. T \in Run /\ WellKept(T) /\ T.status # "absent" /\ T.attempt = run[r].attempt
    BY DEF KeepsAttempts, WellKept
  <1>2. /\ run' \in [Runs -> Run]
        /\ run'[r] = T
        /\ \A q \in Runs \ {r} : run'[q] = run[q]
        /\ \A q \in Runs : run'[q].attempt = run[q].attempt
    BY <1>1 DEF BackendInv
  <1>3. BackendInv'
    BY <1>1, <1>2 DEF BackendInv, Used
  <1>4. Grows
    BY <1>1, <1>2 DEF Grows, Used
  <1>5. LifeStep
    <2>1. CASE IsTerminal(run[r])
      BY <1>2, <2>1 DEF KeepsAttempts, LifeStep
    <2>2. CASE IsOpen(run[r])
      BY <1>1, <1>2, <2>2 DEF LifeStep
    <2> QED
      BY <2>1, <2>2 DEF IsOpen
  <1> QED
    BY <1>3, <1>4, <1>5 DEF BackendStep

\* A command with an effect; the attempt that it hands out has begun.
LEMMA CommitStep ==
    ASSUME BackendInv, NEW r \in Runs, NEW a \in Attempts, IsFresh(a), NEW e,
           IsEffect(run[r], e, a), Commit(r, e, a),
           \/ run[r].status # "absent"
           \/ /\ \A q \in Runs : ~ IsOpen(run[q])
              /\ IsOpen(e.run) \/ e.run.status = "failed"
    PROVE  /\ BackendStep
           /\ e.next # None => /\ e.next \in Attempts /\ attempt'[e.next].phase # "unused"
                               /\ attempt'[e.next].run = r
                               /\ attempt'[e.next].stage > 1 \/ e.next = a
           /\ e.begun # None => /\ e.begun \in Stages
                                /\ attempt'[a].run = r /\ attempt'[a].stage = e.begun
                                /\ attempt'[a].phase = "begun"
  <1>0. WellKept(e.run) /\ e.run \in Run /\ e.run.status # "absent"
    BY DEF IsEffect, WellKept
  <1>1. /\ run' \in [Runs -> Run]
        /\ run'[r] = e.run
        /\ \A q \in Runs \ {r} : run'[q] = run[q]
    BY <1>0 DEF BackendInv, Commit
  <1>2. ~ Used(a)
    BY DEF IsFresh, Used
  <1>3. \A b \in Attempts : b # a => attempt'[b] = attempt[b]
    BY DEF Commit, BackendInv
  <1>4. CASE e.begun = None
    <2>1. attempt' = attempt
      BY <1>4 DEF Commit
    <2>2. \A q \in Runs, s \in Stages : run'[q].attempt[s] = run[q].attempt[s]
      BY <1>1, <1>4, NoneApart DEF IsEffect
    <2> DEFINE b == e.next
    <2>3. BackendInv'
      BY <1>0, <1>1, <2>1, <2>2 DEF BackendInv, Used
    <2>4. Grows
      BY <1>0, <1>1, <2>1, <2>2 DEF Grows, Used
    <2>5. ASSUME b # None
          PROVE  b \in Attempts /\ Used(b) /\ attempt[b].run = r /\ attempt[b].stage > 1
      BY <1>4, <2>5 DEF IsEffect, BackendInv
    <2>6. LifeStep
      BY <1>0, <1>1 DEF LifeStep, IsOpen, IsEffect
    <2> QED
      BY <1>4, <2>1, <2>3, <2>4, <2>5, <2>6 DEF BackendStep, Used
  <1>5. CASE e.begun # None
    <2> DEFINE n == [run |-> r, stage |-> e.begun, phase |-> "begun"]
    <2>1. e.begun \in Stages /\ n \in Attempt
      BY <1>5 DEF IsEffect, Attempt
    <2>2. attempt' = [attempt EXCEPT ![a] = n]
      BY <1>5 DEF Commit
    <2>3. attempt'[a] = n /\ attempt' \in [Attempts -> Attempt]
      <3> HIDE DEF n
      <3> QED
        BY <2>1, <2>2 DEF BackendInv
    <2>4. \A q \in Runs, s \in Stages : (q # r \/ s # e.begun) => run'[q].attempt[s] = run[q].attempt[s]
      BY <1>1 DEF IsEffect
    <2>5. run'[r].attempt[e.begun] = a
      BY <1>1, <1>5 DEF IsEffect
    <2>6. \A b \in Attempts : Used(b) => attempt'[b] = attempt[b]
      BY <1>2, <1>3
    <2>7. ASSUME NEW q \in Runs, NEW s \in Stages, run'[q].attempt[s] # None
          PROVE  LET b == run'[q].attempt[s]
                 IN  attempt'[b].phase # "unused" /\ attempt'[b].run = q /\ attempt'[b].stage = s
      <3>1. CASE q = r /\ s = e.begun
        BY <2>3, <2>5, <3>1
      <3>2. CASE q # r \/ s # e.begun
        <4>1. run'[q].attempt[s] = run[q].attempt[s] /\ run[q].attempt[s] \in Attempts
          BY <2>4, <2>7, <3>2 DEF BackendInv, Run
        <4> QED
          BY <2>6, <2>7, <4>1 DEF BackendInv, Used
      <3> QED
        BY <3>1, <3>2
    <2>8. ASSUME NEW b \in Attempts, attempt'[b].phase # "unused"
          PROVE  /\ attempt'[b].run \in Runs /\ attempt'[b].stage \in Stages
                 /\ run'[attempt'[b].run].status # "absent"
      <3>1. CASE b = a
        BY <1>0, <1>1, <2>1, <2>3, <3>1
      <3>2. CASE b # a
        BY <1>0, <1>1, <1>3, <2>8, <3>2 DEF BackendInv, Used
      <3> QED
        BY <3>1, <3>2
    <2>9. BackendInv'
      BY <1>0, <1>1, <2>3, <2>7, <2>8 DEF BackendInv, Used
    <2>10. Grows
      BY <1>0, <1>1, <1>2, <2>4, <2>5, <2>6, NoneApart DEF Grows, Used
    <2>11. LifeStep
      BY <1>0, <1>1 DEF LifeStep, IsOpen, IsEffect
    <2>12. ASSUME e.next # None
           PROVE  /\ e.next \in Attempts /\ attempt'[e.next].phase # "unused"
                  /\ attempt'[e.next].run = r
                  /\ attempt'[e.next].stage > 1 \/ e.next = a
      <3>1. CASE e.next = a
        BY <2>3, <3>1
      <3>2. CASE e.next # a
        <4>1. PICK s \in Stages : s > 1 /\ run[r].attempt[s] = e.next
          BY <2>12, <3>2 DEF IsEffect
        <4>2. /\ e.next \in Attempts /\ Used(e.next)
              /\ attempt[e.next].run = r /\ attempt[e.next].stage = s
          BY <2>12, <4>1 DEF BackendInv, IsEffect
        <4> QED
          BY <2>6, <4>1, <4>2 DEF Used
      <3> QED
        BY <3>1, <3>2
    <2> QED
      BY <2>1, <2>3, <2>9, <2>10, <2>11, <2>12 DEF BackendStep
  <1> QED
    BY <1>4, <1>5

-----------------------------------------------------------------------------
(* Flows. *)

\* A flow that a step does not touch still fits.
LEMMA FitsKept ==
    ASSUME NEW w, Fits(w), Grows
    PROVE  Fits(w)'
  BY DEF Fits, Grows, Used, ReportPcs, RecoveryPcs, Flow

\* The idle flow is a flow that fits.
LEMMA IdleFits == Idle \in Flow /\ Idle.pc = "idle" /\ Idle.lead = None /\ Fits(Idle) /\ Fits(Idle)'
  BY DEF Idle, Flow, Fits, ReportPcs, RecoveryPcs

\* One flow changes.
LEMMA StepKeeps ==
    ASSUME TypeInv, NEW f \in Flows, NEW w, StepOf(f, w)
    PROVE  TypeInv'
  <1>1. /\ flow' \in [Flows -> Flow]
        /\ flow'[f] = w
        /\ \A g \in Flows : g # f => flow'[g] = flow[g]
    <2>1. w \in Flow
      BY DEF StepOf, Fits
    <2> QED
      BY <2>1 DEF StepOf, TypeInv, FlowsInv
  <1>2. ASSUME NEW g \in Flows PROVE Fits(flow[g])'
    <2>1. ASSUME NEW v, Fits(v)', flow'[g] = v PROVE Fits(flow[g])'
      BY <2>1 DEF Fits
    <2>2. CASE g = f
      BY <1>1, <2>1, <2>2 DEF StepOf
    <2>3. CASE g # f
      <3>1. Fits(flow[g]) /\ Grows
        BY DEF StepOf, BackendStep, TypeInv, FlowsInv
      <3>2. ASSUME NEW v, v = flow[g] PROVE Fits(v)'
        BY <3>1, <3>2, FitsKept
      <3> QED
        BY <1>1, <2>1, <2>3, <3>2
    <2> QED
      BY <2>2, <2>3
  <1> QED
    BY <1>1, <1>2 DEF TypeInv, StepOf, BackendStep, FlowsInv

\* A step counts its faults.
LEMMA FaultsTyped ==
    ASSUME TypeInv, NEW k, NEW canBegin \in BOOLEAN,
           Faulty(k) \/ UNCHANGED faults \/ CanBegin(canBegin)
    PROVE  faults' \in [AllFaultKinds -> Nat]
  <1>1. FaultKinds \subseteq AllFaultKinds
    BY ExecutorAssumption DEF ExecutorAssumption
  <1>2. CASE Faulty(k)
    BY <1>1, <1>2 DEF TypeInv, RestTypes, Faulty, MayFail
  <1>3. CASE UNCHANGED faults
    BY <1>3 DEF TypeInv, RestTypes
  <1>4. CASE CanBegin(canBegin)
    BY <1>1, <1>4 DEF TypeInv, RestTypes, CanBegin, Faulty, MayFail
  <1> QED
    BY <1>2, <1>3, <1>4

\* A flow that ends is a step of that flow to Idle.
LEMMA EndsStep ==
    ASSUME TypeInv, NEW f \in Flows, BackendStep, Ends(f), UNCHANGED <<chainGen, retried>>,
           faults' \in [AllFaultKinds -> Nat]
    PROVE  \E w : StepOf(f, w)
  <1>1. task' \in [Runs -> Flows \cup {None}]
    BY DEF TypeInv, RestTypes, Ends, Leaves
  <1>2. RestTypes'
    BY <1>1 DEF TypeInv, RestTypes
  <1>3. KeepsGeneration(f, Idle) /\ KeepsTurn(f, Idle)
    BY IdleFits DEF KeepsGeneration, KeepsTurn, TypeInv, RestTypes, ChainPcs
  <1>4. flow' = [flow EXCEPT ![f] = Idle]
    BY DEF Ends, Leaves
  <1> QED
    BY <1>2, <1>3, <1>4, IdleFits DEF StepOf

\* A flow that moves on to a fitting record is a step of that flow.
LEMMA GoesStep ==
    ASSUME TypeInv, NEW f \in Flows, BackendStep, NEW w, Goes(f, w),
           UNCHANGED <<chainGen, retried>>, faults' \in [AllFaultKinds -> Nat], Fits(w)',
           w.pc \in ChainPcs => /\ flow[f].pc \in ChainPcs
                                /\ w.run = flow[f].run /\ w.gen = flow[f].gen,
           KeepsTurn(f, w)
    PROVE  \E v : StepOf(f, v)
  <1>1. RestTypes'
    BY DEF TypeInv, RestTypes, Goes
  <1>2. KeepsGeneration(f, w)
    BY DEF KeepsGeneration, TypeInv, RestTypes
  <1>3. flow' = [flow EXCEPT ![f] = w]
    BY DEF Goes
  <1> QED
    BY <1>1, <1>2, <1>3 DEF StepOf

\* stopAgent takes the run over, from a chain that is over or from a recovery.
LEMMA StoppingStep ==
    ASSUME TypeInv, NEW f \in Flows, BackendStep,
           Goes(f, Stopping(flow[f])) \/ Leaves(f, Stopping(flow[f])),
           UNCHANGED <<chainGen, retried>>, faults' \in [AllFaultKinds -> Nat],
           flow[f].pc \notin {"idle", "requesting"}
    PROVE  \E v : StepOf(f, v)
  <1> SUFFICES ASSUME NEW w, w = Stopping(flow[f]) PROVE \E v : StepOf(f, v)
    OBVIOUS
  <1>1. Fits(flow[f]) /\ flow[f] \in Flow
    BY DEF TypeInv, FlowsInv, Fits
  <1>2. /\ w \in Flow
        /\ w.pc = "cancelling" /\ w.run = flow[f].run /\ w.lead = None
    BY <1>1 DEF Stopping, Idle, Flow
  <1>3. Fits(w)
    BY <1>1, <1>2 DEF Fits, ReportPcs, RecoveryPcs
  <1>4. Fits(w)'
    BY <1>3, FitsKept DEF BackendStep
  <1>5. KeepsTurn(f, w) /\ KeepsGeneration(f, w)
    BY <1>2 DEF KeepsTurn, KeepsGeneration, ChainPcs, TypeInv, RestTypes
  <1>6. flow' = [flow EXCEPT ![f] = w] /\ task' \in [Runs -> Flows \cup {None}]
    BY DEF Goes, Leaves, TypeInv, RestTypes
  <1>7. RestTypes'
    BY <1>6 DEF TypeInv, RestTypes
  <1> QED
    BY <1>4, <1>5, <1>6, <1>7 DEF StepOf

\* An error in a chain.
LEMMA ThrowsStep ==
    ASSUME TypeInv, NEW f \in Flows, BackendStep, Throws(f),
           UNCHANGED <<chainGen, retried>>, faults' \in [AllFaultKinds -> Nat],
           IsDriving(f)
    PROVE  \E v : StepOf(f, v)
  <1>1. Fits(flow[f]) /\ flow[f] \in Flow /\ flow[f].pc \in ReportPcs
    BY DEF TypeInv, FlowsInv, Fits, IsDriving, ReportPcs
  <1>2. CASE flow[f].kind = "request"
    <2> SUFFICES ASSUME NEW w, w = [flow[f] EXCEPT !.pc = "recovering", !.attempt = flow[f].lead]
                 PROVE  \E v : StepOf(f, v)
      OBVIOUS
    <2>1. Goes(f, w)
      BY <1>2 DEF Throws
    <2>2. /\ w \in Flow
          /\ w.pc = "recovering" /\ w.run = flow[f].run /\ w.kind = "request"
          /\ w.lead = flow[f].lead /\ w.attempt = w.lead
      BY <1>1, <1>2 DEF Flow
    <2>3. Fits(w)
      BY <1>1, <1>2, <2>2 DEF Fits, ReportPcs, RecoveryPcs, Flow
    <2>4. Fits(w)'
      BY <2>3, FitsKept DEF BackendStep
    <2>5. KeepsTurn(f, w) /\ w.pc \notin ChainPcs
      BY <2>2 DEF KeepsTurn, ChainPcs
    <2> QED
      BY <2>1, <2>4, <2>5, GoesStep
  <1>3. CASE flow[f].kind = "approve"
    <2>1. Leaves(f, Stopping(flow[f]))
      BY <1>3 DEF Throws
    <2> QED
      BY <2>1, StoppingStep DEF IsDriving
  <1>4. CASE flow[f].kind \notin {"request", "approve"}
    <2>1. Ends(f)
      BY <1>4 DEF Throws
    <2> QED
      BY <2>1, EndsStep
  <1> QED
    BY <1>2, <1>3, <1>4

\* An error inside driveAutoChain is a step of the flow it hits.
LEMMA ThrowsInDriveStep ==
    ASSUME TypeInv, NEW f \in Flows, BackendStep, ThrowsInDrive(f),
           UNCHANGED <<chainGen, retried>>, faults' \in [AllFaultKinds -> Nat],
           IsDriving(f)
    PROVE  \E v : StepOf(f, v)
  BY ThrowsStep, EndsStep DEF ThrowsInDrive

\* The answer of a record: the chain ends or drives the next attempt.
LEMMA ContinuesStep ==
    ASSUME TypeInv, NEW f \in Flows, BackendStep, NEW e, Continues(f, e),
           UNCHANGED <<chainGen, retried>>, faults' \in [AllFaultKinds -> Nat],
           flow[f].pc = "recording",
           e.next # None => /\ e.next \in Attempts /\ attempt'[e.next].phase # "unused"
                            /\ attempt'[e.next].run = flow[f].run
    PROVE  \E v : StepOf(f, v)
  <1>1. CASE Ends(f)
    BY <1>1, EndsStep
  <1>2. CASE e.next # None /\ Goes(f, [flow[f] EXCEPT !.pc = "driving", !.attempt = e.next])
    <2> SUFFICES ASSUME NEW w, w = [flow[f] EXCEPT !.pc = "driving", !.attempt = e.next]
                 PROVE  \E v : StepOf(f, v)
      OBVIOUS
    <2>1. Fits(flow[f]) /\ flow[f] \in Flow
      BY DEF TypeInv, FlowsInv, Fits
    <2>2. /\ w \in Flow
          /\ w.pc = "driving" /\ w.attempt = e.next
          /\ w.run = flow[f].run /\ w.kind = flow[f].kind /\ w.lead = flow[f].lead
          /\ w.gen = flow[f].gen
      BY <1>2, <2>1 DEF Flow
    <2>3. ASSUME NEW v, v = flow[f] PROVE Fits(v)'
      BY <2>1, <2>3, FitsKept DEF BackendStep
    <2>4. Fits(w)'
      BY <1>2, <2>2, <2>3 DEF Fits, ReportPcs, RecoveryPcs, Used
    <2>5. KeepsTurn(f, w) /\ flow[f].pc \in ChainPcs
      BY <2>2 DEF KeepsTurn, ChainPcs
    <2> QED
      BY <1>2, <2>2, <2>4, <2>5, GoesStep
  <1> QED
    BY <1>1, <1>2 DEF Continues

-----------------------------------------------------------------------------
(* The actions. *)

\* The user starts a flow.
LEMMA StartsStep ==
    ASSUME TypeInv, NEW f \in Flows, NEW w, Starts(f, w), Fits(w),
           chainGen' \in [Runs -> Nat], retried' \in [stages : Nat, runs : Nat],
           KeepsGeneration(f, w), w.pc \notin {"awaiting", "recording"}
    PROVE  \E v : StepOf(f, v)
  <1>1. BackendStep
    BY BackendSame DEF Starts, TypeInv
  <1>2. Fits(w)'
    BY <1>1, FitsKept DEF BackendStep
  <1>3. RestTypes'
    BY DEF Starts, TypeInv, RestTypes
  <1>4. KeepsTurn(f, w)
    BY DEF KeepsTurn
  <1> QED
    BY <1>1, <1>2, <1>3, <1>4 DEF StepOf, Starts

\* What the user starts is a step of one flow.
LEMMA UserStep ==
    ASSUME TypeInv, NEW f \in Flows, User(f)
    PROVE  \E v : StepOf(f, v)
  <1>0. /\ \A r \in Runs : chainGen[r] \in Nat
        /\ \A r \in Runs : run[r] \in Run /\ WellKept(run[r])
    BY DEF TypeInv, RestTypes, BackendInv
  <1>g. ASSUME NEW w, w.pc \notin ChainPcs, UNCHANGED chainGen PROVE KeepsGeneration(f, w)
    BY <1>0, <1>g DEF KeepsGeneration
  <1>1. CASE UserRequests(f)
    <2> SUFFICES ASSUME NEW w, w = [Idle EXCEPT !.pc = "requesting", !.kind = "request"]
                 PROVE  \E v : StepOf(f, v)
      OBVIOUS
    <2>1. w \in Flow /\ w.pc = "requesting" /\ w.kind = "request" /\ w.lead = None
      BY DEF Idle, Flow, Kinds
    <2>2. Fits(w) /\ KeepsGeneration(f, w)
      BY <1>1, <1>g, <2>1 DEF Fits, ReportPcs, RecoveryPcs, ChainPcs, UserRequests
    <2> QED
      BY <1>1, <2>1, <2>2, StartsStep DEF UserRequests, TypeInv, RestTypes
  <1>2. ASSUME NEW r \in Runs, UserApproves(f, r) PROVE \E v : StepOf(f, v)
    <2> SUFFICES ASSUME NEW w, w = [Idle EXCEPT !.pc = "approving", !.kind = "approve", !.run = r,
                                                !.seen = run[r].revision]
                 PROVE  \E v : StepOf(f, v)
      OBVIOUS
    <2>1. run[r].revision \in Nat /\ run[r].status # "absent"
      BY <1>0, <1>2 DEF Run, UserApproves
    <2>2. w \in Flow /\ w.pc = "approving" /\ w.lead = None /\ w.run = r /\ w.kind = "approve"
      BY <2>1 DEF Idle, Flow, Kinds
    <2>3. Fits(w) /\ KeepsGeneration(f, w)
      BY <1>2, <1>g, <2>1, <2>2 DEF Fits, ReportPcs, RecoveryPcs, ChainPcs, UserApproves
    <2> QED
      BY <1>2, <2>2, <2>3, StartsStep DEF UserApproves, TypeInv, RestTypes
  <1>s. ASSUME NEW r \in Runs, NEW again \in BOOLEAN, Stop(f, r, again), run[r].status # "absent",
               chainGen' \in [Runs -> Nat], retried' \in [stages : Nat, runs : Nat],
               \A q \in Runs : chainGen[q] <= chainGen'[q]
        PROVE  \E v : StepOf(f, v)
    <2> SUFFICES ASSUME NEW w, w = [Idle EXCEPT !.pc = "cancelling", !.kind = "stop", !.run = r,
                                                !.again = again]
                 PROVE  \E v : StepOf(f, v)
      OBVIOUS
    <2>1. w \in Flow /\ w.pc = "cancelling" /\ w.lead = None /\ w.run = r
      BY DEF Idle, Flow, Kinds
    <2>2. Fits(w)
      BY <1>s, <2>1 DEF Fits, ReportPcs, RecoveryPcs
    <2>3. KeepsGeneration(f, w)
      BY <1>s, <2>1 DEF KeepsGeneration, ChainPcs
    <2> QED
      BY <1>s, <2>1, <2>2, <2>3, StartsStep DEF Stop
  <1>3. ASSUME NEW r \in Runs, UserStops(f, r) \/ UserRejects(f, r) PROVE \E v : StepOf(f, v)
    <2>1. /\ run[r].status # "absent"
          /\ Stop(f, r, TRUE) \/ Stop(f, r, FALSE)
          /\ UNCHANGED <<chainGen, retried>>
      BY <1>3 DEF UserStops, UserRejects, IsOpen
    <2>2. /\ chainGen' \in [Runs -> Nat] /\ retried' \in [stages : Nat, runs : Nat]
          /\ \A q \in Runs : chainGen[q] <= chainGen'[q]
      BY <1>0, <2>1 DEF TypeInv, RestTypes
    <2> QED
      BY <1>s, <2>1, <2>2
  <1>b. ASSUME NEW r \in Runs,
               chainGen' = [chainGen EXCEPT ![r] = @ + 1],
               \/ retried' = [retried EXCEPT !.stages = @ + 1]
               \/ retried' = [retried EXCEPT !.runs = @ + 1]
        PROVE  /\ chainGen' \in [Runs -> Nat]
               /\ retried' \in [stages : Nat, runs : Nat]
               /\ \A q \in Runs : chainGen[q] <= chainGen'[q]
               /\ chainGen'[r] = chainGen[r] + 1
    BY <1>b DEF TypeInv, RestTypes
  <1>4. ASSUME NEW r \in Runs, UserRetriesRun(f, r) PROVE \E v : StepOf(f, v)
    <2>1. /\ run[r].status # "absent"
          /\ Stop(f, r, TRUE)
          /\ chainGen' = [chainGen EXCEPT ![r] = @ + 1]
          /\ retried' = [retried EXCEPT !.runs = @ + 1]
      BY <1>4 DEF UserRetriesRun, IsOpen
    <2>2. /\ chainGen' \in [Runs -> Nat] /\ retried' \in [stages : Nat, runs : Nat]
          /\ \A q \in Runs : chainGen[q] <= chainGen'[q]
      BY <1>b, <2>1
    <2> QED
      BY <1>s, <2>1, <2>2
  <1>5. ASSUME NEW r \in Runs, NEW s \in Stages, UserRetries(f, r, s) PROVE \E v : StepOf(f, v)
    <2> DEFINE n == chainGen[r] + 1
               b == run[r].attempt[s]
    <2> SUFFICES ASSUME NEW w, w = [Idle EXCEPT !.pc = "closing", !.kind = "retry", !.run = r,
                                                !.stage = s, !.attempt = b, !.gen = n]
                 PROVE  \E v : StepOf(f, v)
      OBVIOUS
    <2>1. /\ chainGen' \in [Runs -> Nat] /\ retried' \in [stages : Nat, runs : Nat]
          /\ \A q \in Runs : chainGen[q] <= chainGen'[q]
          /\ chainGen'[r] = chainGen[r] + 1
      BY <1>b, <1>5 DEF UserRetries
    <2>2. n \in Nat /\ n = chainGen'[r] /\ chainGen[r] < n
      BY <1>0, <2>1
    <2>3. b \in Attempts /\ b # None /\ run[r].status # "absent"
      BY <1>0, <1>5 DEF UserRetries, WellKept, IsOpen, Run
    <2>4. Starts(f, w)
      BY <1>5 DEF UserRetries
    <2> HIDE DEF n
    <2>5. /\ w \in Flow
          /\ w.pc = "closing" /\ w.lead = None /\ w.run = r /\ w.stage = s /\ w.gen = n
          /\ w.kind = "retry"
      BY <2>2, <2>3 DEF Idle, Flow, Kinds
    <2>6. Fits(w)
      BY <2>3, <2>5, NoneApart DEF Fits, ReportPcs, RecoveryPcs
    <2>7. KeepsGeneration(f, w)
      BY <2>1, <2>2, <2>5 DEF KeepsGeneration
    <2> QED
      BY <2>1, <2>4, <2>5, <2>6, <2>7, StartsStep
  <1> QED
    BY <1>1, <1>2, <1>3, <1>4, <1>5 DEF User

\* What a flow that is not idle knows.
LEMMA FlowFacts ==
    ASSUME TypeInv, NEW f \in Flows
    PROVE  /\ Fits(flow[f]) /\ flow[f] \in Flow
           /\ flow[f].pc \notin {"idle", "requesting"} =>
                 /\ flow[f].run \in Runs /\ flow[f].run # None
                 /\ WellKept(run[flow[f].run]) /\ run[flow[f].run].status # "absent"
           /\ flow[f].pc \in ReportPcs =>
                 /\ flow[f].attempt \in Attempts /\ Used(flow[f].attempt)
                 /\ attempt[flow[f].attempt].run = flow[f].run
  <1>1. Runs \subseteq Nat /\ None \notin Nat
    BY ExecutorAssumption, ControlAssumption DEF ExecutorAssumption, ControlAssumption
  <1>2. Fits(flow[f]) /\ \A r \in Runs : WellKept(run[r])
    BY DEF TypeInv, FlowsInv, BackendInv
  <1> SUFFICES ASSUME NEW w, w = flow[f], Fits(w)
               PROVE  /\ w \in Flow
                      /\ w.pc \notin {"idle", "requesting"} =>
                            /\ w.run \in Runs /\ w.run # None
                            /\ WellKept(run[w.run]) /\ run[w.run].status # "absent"
                      /\ w.pc \in ReportPcs =>
                            /\ w.attempt \in Attempts /\ Used(w.attempt)
                            /\ attempt[w.attempt].run = w.run
    BY <1>2
  <1>3. w \in Flow
    BY DEF Fits
  <1>4. w.pc \notin {"idle", "requesting"} =>
           w.run \in Runs /\ w.run # None /\ run[w.run].status # "absent"
    BY <1>1 DEF Fits
  <1>5. w.pc \in ReportPcs =>
           w.attempt \in Attempts /\ Used(w.attempt) /\ attempt[w.attempt].run = w.run
    BY DEF Fits
  <1> QED
    BY <1>2, <1>3, <1>4, <1>5

\* The dispatch of a stage, or its failure, is a step of its flow.
LEMMA DispatchStep ==
    ASSUME TypeInv, NEW f \in Flows, Dispatches(f) \/ DispatchFails(f)
    PROVE  \E v : StepOf(f, v)
  <1> DEFINE b == flow[f].attempt
  <1>0. /\ flow[f].pc = "driving" /\ IsDriving(f) /\ b \in Attempts /\ Used(b)
        /\ Fits(flow[f]) /\ flow[f] \in Flow
        /\ UNCHANGED <<run, chainGen, retried>>
    BY FlowFacts DEF Dispatches, DispatchFails, IsDriving, ReportPcs
  <1>1. faults' \in [AllFaultKinds -> Nat]
    BY FaultsTyped DEF Dispatches, DispatchFails
  <1>2. BackendStep
    <2>1. CASE attempt[b].phase = "begun" /\ attempt' = Phase(b, "dispatched")
      BY <1>0, <2>1, PhaseStep DEF TypeInv
    <2>2. CASE UNCHANGED attempt
      BY <1>0, <2>2, BackendSame DEF TypeInv, backend
    <2> QED
      BY <2>1, <2>2 DEF Dispatches, DispatchFails
  <1>3. CASE ThrowsInDrive(f)
    BY <1>0, <1>1, <1>2, <1>3, ThrowsInDriveStep
  <1>4. CASE /\ attempt[b].phase = "begun" /\ attempt' = Phase(b, "dispatched")
             /\ Goes(f, [flow[f] EXCEPT !.pc = "awaiting"])
    <2> SUFFICES ASSUME NEW w, w = [flow[f] EXCEPT !.pc = "awaiting"]
                 PROVE  \E v : StepOf(f, v)
      OBVIOUS
    <2>1. /\ w \in Flow
          /\ w.pc = "awaiting" /\ w.attempt = b /\ w.run = flow[f].run /\ w.kind = flow[f].kind
          /\ w.lead = flow[f].lead /\ w.gen = flow[f].gen
      BY <1>0 DEF Flow
    <2>2. Fits(w)
      BY <1>0, <2>1 DEF Fits, ReportPcs, RecoveryPcs
    <2>3. Fits(w)'
      BY <1>2, <2>2, FitsKept DEF BackendStep
    <2>4. attempt'[b].phase = "dispatched"
      BY <1>0, <1>4, PhaseStep DEF TypeInv
    <2>5. KeepsTurn(f, w) /\ flow[f].pc \in ChainPcs
      BY <1>0, <1>4, <2>1, <2>4 DEF KeepsTurn, ChainPcs
    <2> QED
      BY <1>0, <1>1, <1>2, <1>4, <2>1, <2>3, <2>5, GoesStep
  <1> QED
    BY <1>3, <1>4 DEF Dispatches, DispatchFails

\* The end of the wait for a turn is a step of its flow.
LEMMA AwaitStep ==
    ASSUME TypeInv, NEW f \in Flows, Awaits(f) \/ AwaitFails(f)
    PROVE  \E v : StepOf(f, v)
  <1>0. /\ flow[f].pc = "awaiting" /\ IsDriving(f) /\ HasDispatched(f)
        /\ Fits(flow[f]) /\ flow[f] \in Flow
        /\ UNCHANGED <<backend, chainGen, retried>>
    BY FlowFacts DEF Awaits, AwaitFails, IsDriving, HasDispatched
  <1>1. faults' \in [AllFaultKinds -> Nat]
    BY FaultsTyped DEF Awaits, AwaitFails
  <1>2. BackendStep
    BY <1>0, BackendSame DEF TypeInv
  <1>3. CASE ThrowsInDrive(f)
    BY <1>0, <1>1, <1>2, <1>3, ThrowsInDriveStep
  <1>4. CASE Ends(f)
    BY <1>0, <1>1, <1>2, <1>4, EndsStep
  <1>5. CASE Goes(f, [flow[f] EXCEPT !.pc = "recording"])
    <2> SUFFICES ASSUME NEW w, w = [flow[f] EXCEPT !.pc = "recording"]
                 PROVE  \E v : StepOf(f, v)
      OBVIOUS
    <2>1. /\ w \in Flow
          /\ w.pc = "recording" /\ w.attempt = flow[f].attempt /\ w.run = flow[f].run
          /\ w.kind = flow[f].kind /\ w.lead = flow[f].lead /\ w.gen = flow[f].gen
      BY <1>0 DEF Flow
    <2>2. Fits(w)
      BY <1>0, <2>1 DEF Fits, ReportPcs, RecoveryPcs
    <2>3. Fits(w)'
      BY <1>2, <2>2, FitsKept DEF BackendStep
    <2>4. KeepsTurn(f, w) /\ flow[f].pc \in ChainPcs
      BY <1>0, <2>1 DEF KeepsTurn, ChainPcs
    <2> QED
      BY <1>0, <1>1, <1>2, <1>5, <2>1, <2>3, <2>4, GoesStep
  <1> QED
    BY <1>3, <1>4, <1>5 DEF Awaits, AwaitFails

\* Recording a stage and advancing is a step of its flow.
LEMMA RecordsStep ==
    ASSUME TypeInv, NEW f \in Flows, NEW a \in Attempts, NEW canBegin \in BOOLEAN,
           Records(f, a, canBegin)
    PROVE  \E v : StepOf(f, v)
  <1> DEFINE r == flow[f].run
             b == flow[f].attempt
  <1>0. /\ flow[f].pc = "recording" /\ IsDriving(f) /\ IsFresh(a)
        /\ r \in Runs /\ b \in Attempts
        /\ WellKept(run[r]) /\ run[r].status # "absent"
        /\ UNCHANGED <<chainGen, retried>>
    BY FlowFacts DEF Records, IsDriving, ReportPcs
  <1>1. CASE Refused(f)
    <2>1. Throws(f) /\ UNCHANGED <<backend, faults>>
      BY <1>1 DEF Records
    <2>2. BackendStep /\ faults' \in [AllFaultKinds -> Nat]
      BY <2>1, BackendSame DEF TypeInv, RestTypes
    <2> QED
      BY <1>0, <2>1, <2>2, ThrowsStep
  <1>2. CASE ~ Refused(f)
    <2> SUFFICES ASSUME NEW e, e = Recorded(f, a, canBegin) PROVE \E v : StepOf(f, v)
      OBVIOUS
    <2>1. CanBegin(canBegin) /\ Commit(r, e, a) /\ Continues(f, e)
      BY <1>2 DEF Records
    <2>2. IsEffect(run[r], e, a)
      <3>1. IsDone(f) \in BOOLEAN
        BY DEF IsDone
      <3> QED
        BY <1>0, <1>2, <3>1, RecordEffect DEF Refused, Recorded
    <2>3. /\ BackendStep
          /\ e.next # None => /\ e.next \in Attempts /\ attempt'[e.next].phase # "unused"
                              /\ attempt'[e.next].run = r
      BY <1>0, <2>1, <2>2, CommitStep DEF TypeInv
    <2>4. faults' \in [AllFaultKinds -> Nat]
      BY <2>1, FaultsTyped
    <2> QED
      BY <1>0, <2>1, <2>3, <2>4, ContinuesStep
  <1> QED
    BY <1>1, <1>2

\* A refused or torn record is a step of its flow.
LEMMA RecordFailsStep ==
    ASSUME TypeInv, NEW f \in Flows, RecordFails(f)
    PROVE  \E v : StepOf(f, v)
  <1> DEFINE r == flow[f].run
             b == flow[f].attempt
  <1>0. /\ r \in Runs /\ b \in Attempts
        /\ WellKept(run[r]) /\ run[r].status # "absent"
        /\ flow[f].pc \in {"recording", "rerecording"}
        /\ UNCHANGED <<attempt, chainGen, retried>>
        /\ ~ RecordRefused(run[r], b, IsDone(f))
    BY FlowFacts DEF RecordFails, ReportPcs, RecoveryPcs, Refused
  <1>1. faults' \in [AllFaultKinds -> Nat]
    BY FaultsTyped DEF RecordFails
  <1>2. PICK T \in TornRecord(run[r], b, IsDone(f)) : run' = [run EXCEPT ![r] = T]
    BY DEF RecordFails
  <1>3. KeepsAttempts(run[r], T)
    <2>1. IsDone(f) \in BOOLEAN
      BY DEF IsDone
    <2> QED
      BY <1>0, <2>1, TornRecordKept
  <1>4. BackendStep
    BY <1>0, <1>2, <1>3, KeepsStep DEF TypeInv
  <1>5. CASE Throws(f) /\ flow[f].pc = "recording"
    BY <1>0, <1>1, <1>4, <1>5, ThrowsStep DEF IsDriving
  <1>6. CASE Goes(f, Stopping(flow[f]))
    BY <1>0, <1>1, <1>4, <1>6, StoppingStep
  <1> QED
    BY <1>5, <1>6 DEF RecordFails

\* Requesting a run is a step of its flow.
LEMMA RequestsStep ==
    ASSUME TypeInv, NEW f \in Flows, NEW r \in Runs, NEW a \in Attempts, NEW canBegin \in BOOLEAN,
           Requests(f, r, a, canBegin)
    PROVE  \E v : StepOf(f, v)
  <1>0. /\ IsFresh(a) /\ run[r] = AbsentRun /\ \A q \in Runs : ~ IsOpen(run[q])
        /\ flow[f] \in Flow /\ Fits(flow[f]) /\ flow[f].pc = "requesting"
        /\ UNCHANGED retried
    BY FlowFacts DEF Requests, NextRun
  <1>1. faults' \in [AllFaultKinds -> Nat]
    BY FaultsTyped DEF Requests
  <1>2. CASE canBegin
    <2> DEFINE e == Begin(Requested(a), 1, a)
               n == chainGen[r] + 1
    <2>1. /\ Commit(r, e, a)
          /\ chainGen' = [chainGen EXCEPT ![r] = @ + 1]
          /\ Goes(f, [Drives(f, r, a, n) EXCEPT !.lead = a])
      BY <1>2 DEF Requests
    <2>2. IsEffect(run[r], e, a)
      BY <1>0, RequestEffect
    <2>3. IsOpen(e.run) /\ e.begun = 1
      <3>1. 1 \in Stages
        BY ControlAssumption DEF ControlAssumption, Stages
      <3>2. WellKept(Requested(a)) /\ IsOpen(Requested(a))
        BY RequestedKept
      <3>3. IsOpen(TurnRequested(Requested(a), 1, a))
        BY <3>1, <3>2, TurnRequestedKept
      <3> QED
        BY <3>3 DEF Begin
    <2>4. e.begun # None
      BY <2>3, ControlAssumption DEF ControlAssumption
    <2>c. /\ \A q \in Runs : chainGen[q] <= chainGen'[q]
          /\ chainGen' \in [Runs -> Nat] /\ chainGen'[r] = n /\ n \in Nat /\ chainGen[r] < n
      BY <2>1 DEF TypeInv, RestTypes
    <2> HIDE DEF e, n
    <2>5. /\ BackendStep
          /\ attempt'[a].run = r /\ attempt'[a].stage = 1 /\ attempt'[a].phase = "begun"
      BY <1>0, <2>1, <2>2, <2>3, <2>4, CommitStep DEF TypeInv
    <2> SUFFICES ASSUME NEW w, w = [Drives(f, r, a, n) EXCEPT !.lead = a]
                 PROVE  \E v : StepOf(f, v)
      OBVIOUS
    <2>6. /\ w \in Flow /\ w.pc = "driving" /\ w.run = r /\ w.attempt = a /\ w.lead = a /\ w.gen = n
          /\ w.kind = flow[f].kind
      BY <1>0, <2>c DEF Drives, Flow
    <2>7. flow[f].kind = "request"
      BY <1>0 DEF Fits
    <2>8. Fits(w)'
      <3>1. run'[r].status # "absent"
        BY <1>0, <2>1, <2>3 DEF Commit, IsOpen, TypeInv, BackendInv
      <3>2. a # None
        BY NoneApart
      <3> QED
        BY <2>5, <2>6, <2>7, <3>1, <3>2 DEF Fits, ReportPcs, RecoveryPcs, Used
    <2>9. KeepsGeneration(f, w) /\ KeepsTurn(f, w)
      BY <2>6, <2>c DEF KeepsGeneration, KeepsTurn
    <2>10. RestTypes' /\ flow' = [flow EXCEPT ![f] = w]
      BY <1>0, <1>1, <2>1, <2>c DEF TypeInv, RestTypes, Goes
    <2> QED
      BY <2>5, <2>8, <2>9, <2>10 DEF StepOf
  <1>3. CASE ~ canBegin
    <2> DEFINE e == Effect(RunSettled(Requested(a), "failed"))
    <2>1. Commit(r, e, a) /\ UNCHANGED chainGen /\ Ends(f)
      BY <1>3 DEF Requests
    <2>2. IsEffect(run[r], e, a)
      BY <1>0, RequestEffect
    <2>3. e.run.status = "failed"
      BY RequestedKept, RunSettledFields DEF Effect, WellKept
    <2> HIDE DEF e
    <2>4. BackendStep
      BY <1>0, <2>1, <2>2, <2>3, CommitStep DEF TypeInv
    <2> QED
      BY <1>0, <1>1, <2>1, <2>4, EndsStep
  <1> QED
    BY <1>2, <1>3

\* The catch of a request that dispatches its lead once more is a step of its flow.
LEMMA RecoveryStep ==
    ASSUME TypeInv, NEW f \in Flows, Recovers(f) \/ Reawaits(f) \/ RecoveryFails(f)
    PROVE  \E v : StepOf(f, v)
  <1> DEFINE b == flow[f].attempt
  <1>0. /\ flow[f].pc \in {"recovering", "reawaiting"}
        /\ b \in Attempts /\ Used(b) /\ Fits(flow[f]) /\ flow[f] \in Flow
        /\ UNCHANGED <<run, chainGen, retried>>
    BY FlowFacts DEF Recovers, Reawaits, RecoveryFails, backend, ReportPcs, RecoveryPcs
  <1>1. faults' \in [AllFaultKinds -> Nat]
    BY FaultsTyped DEF Recovers, Reawaits, RecoveryFails
  <1>2. BackendStep
    <2>1. CASE attempt[b].phase = "begun" /\ attempt' = Phase(b, "failed")
      BY <1>0, <2>1, PhaseStep DEF TypeInv
    <2>2. CASE UNCHANGED attempt
      BY <1>0, <2>2, BackendSame DEF TypeInv, backend
    <2> QED
      BY <2>1, <2>2 DEF Recovers, Reawaits, RecoveryFails, backend
  <1>3. CASE Goes(f, Stopping(flow[f]))
    BY <1>0, <1>1, <1>2, <1>3, StoppingStep
  <1>4. ASSUME NEW p \in {"reawaiting", "rerecording"}, Goes(f, [flow[f] EXCEPT !.pc = p])
        PROVE  \E v : StepOf(f, v)
    <2> SUFFICES ASSUME NEW w, w = [flow[f] EXCEPT !.pc = p]
                 PROVE  \E v : StepOf(f, v)
      OBVIOUS
    <2>1. /\ w \in Flow
          /\ w.pc = p /\ w.attempt = b /\ w.run = flow[f].run
          /\ w.kind = flow[f].kind /\ w.lead = flow[f].lead
      BY <1>0 DEF Flow
    <2>2. Fits(w)
      BY <1>0, <2>1 DEF Fits, ReportPcs, RecoveryPcs
    <2>3. Fits(w)'
      BY <1>2, <2>2, FitsKept DEF BackendStep
    <2>4. KeepsTurn(f, w) /\ w.pc \notin ChainPcs
      BY <2>1 DEF KeepsTurn, ChainPcs
    <2> QED
      BY <1>0, <1>1, <1>2, <1>4, <2>3, <2>4, GoesStep
  <1> QED
    BY <1>3, <1>4 DEF Recovers, Reawaits, RecoveryFails

\* The record at the end of that catch is a step of its flow.
LEMMA RerecordsStep ==
    ASSUME TypeInv, NEW f \in Flows, NEW a \in Attempts, NEW canBegin \in BOOLEAN,
           Rerecords(f, a, canBegin)
    PROVE  \E v : StepOf(f, v)
  <1> DEFINE r == flow[f].run
             b == flow[f].attempt
  <1>0. /\ flow[f].pc = "rerecording" /\ IsFresh(a)
        /\ r \in Runs /\ b \in Attempts
        /\ WellKept(run[r]) /\ run[r].status # "absent"
        /\ UNCHANGED <<chainGen, retried>>
    BY FlowFacts DEF Rerecords, ReportPcs, RecoveryPcs
  <1>1. CASE Refused(f)
    <2>1. Goes(f, Stopping(flow[f])) /\ UNCHANGED <<backend, faults>>
      BY <1>1 DEF Rerecords
    <2>2. BackendStep /\ faults' \in [AllFaultKinds -> Nat]
      BY <2>1, BackendSame DEF TypeInv, RestTypes
    <2> QED
      BY <1>0, <2>1, <2>2, StoppingStep
  <1>2. CASE ~ Refused(f)
    <2> SUFFICES ASSUME NEW e, e = Recorded(f, a, canBegin) PROVE \E v : StepOf(f, v)
      OBVIOUS
    <2>1. CanBegin(canBegin) /\ Commit(r, e, a) /\ Ends(f)
      BY <1>2 DEF Rerecords
    <2>2. IsEffect(run[r], e, a)
      <3>1. IsDone(f) \in BOOLEAN
        BY DEF IsDone
      <3> QED
        BY <1>0, <1>2, <3>1, RecordEffect DEF Refused, Recorded
    <2>3. BackendStep
      BY <1>0, <2>1, <2>2, CommitStep DEF TypeInv
    <2>4. faults' \in [AllFaultKinds -> Nat]
      BY <2>1, FaultsTyped
    <2> QED
      BY <1>0, <2>1, <2>3, <2>4, EndsStep
  <1> QED
    BY <1>1, <1>2

\* The flow of an approval or a retry drives the attempt it has begun.
LEMMA DrivesFields ==
    ASSUME NEW f, flow[f] \in Flow, flow[f].lead = None,
           NEW r \in Runs, NEW b \in Attempts, NEW gen \in Nat,
           NEW w, w = Drives(f, r, b, gen)
    PROVE  /\ w \in Flow
           /\ w.pc = "driving" /\ w.run = r /\ w.attempt = b /\ w.gen = gen
           /\ w.lead = None /\ w.kind = flow[f].kind
  BY ZenonT(60) DEF Drives, Flow

\* Approving a plan is a step of its flow.
LEMMA ApprovesStep ==
    ASSUME TypeInv, NEW f \in Flows, NEW a \in Attempts, NEW canBegin \in BOOLEAN,
           Approves(f, a, canBegin)
    PROVE  \E v : StepOf(f, v)
  <1> DEFINE r == flow[f].run
  <1>0. /\ flow[f].pc = "approving" /\ IsFresh(a) /\ flow[f] \in Flow /\ Fits(flow[f])
        /\ r \in Runs /\ WellKept(run[r]) /\ run[r].status = "awaiting-approval"
        /\ UNCHANGED retried
    BY FlowFacts DEF Approves
  <1>1. faults' \in [AllFaultKinds -> Nat]
    BY FaultsTyped DEF Approves
  <1>2. IsOpen(run[r])
    BY <1>0 DEF IsOpen, IsTerminal
  <1> SUFFICES ASSUME NEW e, e = Approve(run[r], a, canBegin) PROVE \E v : StepOf(f, v)
    OBVIOUS
  <1>3. Commit(r, e, a)
    BY DEF Approves
  <1>4. IsEffect(run[r], e, a)
    BY <1>0, <1>2, ApproveEffect
  <1>5. /\ BackendStep
        /\ e.next # None => /\ e.next \in Attempts /\ attempt'[e.next].phase # "unused"
                            /\ attempt'[e.next].run = r
    BY <1>0, <1>3, <1>4, CommitStep DEF TypeInv
  <1>6. CASE UNCHANGED chainGen /\ Ends(f)
    BY <1>0, <1>1, <1>5, <1>6, EndsStep
  <1>7. CASE /\ e.next # None
             /\ chainGen' = [chainGen EXCEPT ![r] = @ + 1]
             /\ flow' = [flow EXCEPT ![f] = Drives(f, r, e.next, chainGen[r] + 1)]
             /\ task' = [task EXCEPT ![r] = f]
    <2> DEFINE n == chainGen[r] + 1
    <2>1. /\ \A q \in Runs : chainGen[q] <= chainGen'[q]
          /\ chainGen' \in [Runs -> Nat] /\ chainGen'[r] = n /\ n \in Nat /\ chainGen[r] < n
      BY <1>0, <1>7 DEF TypeInv, RestTypes
    <2> HIDE DEF n
    <2> SUFFICES ASSUME NEW w, w = Drives(f, r, e.next, n) PROVE \E v : StepOf(f, v)
      OBVIOUS
    <2>2. flow[f].lead = None /\ flow[f].kind # "request"
      BY <1>0 DEF Fits, ReportPcs, RecoveryPcs
    <2>3. /\ w \in Flow
          /\ w.pc = "driving" /\ w.run = r /\ w.attempt = e.next /\ w.gen = n
          /\ w.lead = None /\ w.kind = flow[f].kind
      BY <1>0, <1>5, <1>7, <2>1, <2>2, DrivesFields, SMTT(30)
    <2>4. run'[r].status # "absent"
      BY <1>0, <1>5 DEF BackendStep, Grows
    <2>5. Fits(w)'
      BY <1>0, <1>5, <1>7, <2>2, <2>3, <2>4 DEF Fits, ReportPcs, RecoveryPcs, Used
    <2>6. KeepsGeneration(f, w) /\ KeepsTurn(f, w)
      BY <2>1, <2>3 DEF KeepsGeneration, KeepsTurn
    <2>7. RestTypes' /\ flow' = [flow EXCEPT ![f] = w]
      BY <1>0, <1>1, <1>7, <2>1 DEF TypeInv, RestTypes, n
    <2> QED
      BY <1>5, <2>5, <2>6, <2>7 DEF StepOf
  <1> QED
    BY <1>6, <1>7 DEF Approves

\* The close with which a retry begins is a step of its flow.
LEMMA ClosesStep ==
    ASSUME TypeInv, NEW f \in Flows, Closes(f)
    PROVE  \E v : StepOf(f, v)
  <1> DEFINE b == flow[f].attempt
  <1>0. /\ flow[f].pc = "closing" /\ Fits(flow[f]) /\ flow[f] \in Flow
        /\ UNCHANGED <<run, chainGen, retried, faults>>
    BY FlowFacts DEF Closes
  <1>1. faults' \in [AllFaultKinds -> Nat]
    BY <1>0 DEF TypeInv, RestTypes
  <1>2. BackendStep
    <2>1. CASE b # None /\ attempt[b].phase = "begun" /\ attempt' = Phase(b, "failed")
      <3>1. b \in Attempts /\ Used(b)
        BY <1>0, <2>1 DEF Flow, Used
      <3> QED
        BY <1>0, <2>1, <3>1, PhaseStep DEF TypeInv
    <2>2. CASE UNCHANGED attempt
      BY <1>0, <2>2, BackendSame DEF TypeInv, backend
    <2> QED
      BY <2>1, <2>2 DEF Closes, Interrupted
  <1> SUFFICES ASSUME NEW w, w = [flow[f] EXCEPT !.pc = "retrying"] PROVE \E v : StepOf(f, v)
    OBVIOUS
  <1>3. /\ w \in Flow
        /\ w.pc = "retrying" /\ w.run = flow[f].run /\ w.stage = flow[f].stage
        /\ w.lead = flow[f].lead /\ w.gen = flow[f].gen /\ w.kind = flow[f].kind
    BY <1>0 DEF Flow
  <1>4. Fits(w)
    BY <1>0, <1>3 DEF Fits, ReportPcs, RecoveryPcs
  <1>5. Fits(w)'
    BY <1>2, <1>4, FitsKept DEF BackendStep
  <1>6. KeepsTurn(f, w) /\ flow[f].pc \in ChainPcs
    BY <1>0, <1>3 DEF KeepsTurn, ChainPcs
  <1>7. Goes(f, w)
    BY DEF Closes
  <1> QED
    BY <1>0, <1>1, <1>2, <1>3, <1>5, <1>6, <1>7, GoesStep

\* Retrying a stage or a run is a step of its flow.
LEMMA RetriesStep ==
    ASSUME TypeInv, NEW f \in Flows, NEW a \in Attempts, NEW canBegin \in BOOLEAN,
           Retries(f, a, canBegin)
    PROVE  \E v : StepOf(f, v)
  <1> DEFINE r == flow[f].run
             s == flow[f].stage
  <1>0. /\ flow[f].pc = "retrying" /\ IsFresh(a) /\ flow[f] \in Flow /\ Fits(flow[f])
        /\ r \in Runs /\ WellKept(run[r]) /\ run[r].status # "absent"
        /\ s \in Stages
        /\ UNCHANGED <<chainGen, retried>>
    BY FlowFacts DEF Retries, Fits
  <1>1. faults' \in [AllFaultKinds -> Nat]
    BY FaultsTyped DEF Retries
  <1>2. IsOpen(run[r])
    BY <1>0 DEF Retries, CanRetry, IsOpen
  <1> SUFFICES ASSUME NEW e, e = RetryStage(run[r], s, a, canBegin) PROVE \E v : StepOf(f, v)
    OBVIOUS
  <1>3. Commit(r, e, a)
    BY DEF Retries
  <1>4. IsEffect(run[r], e, a)
    BY <1>0, <1>2, RetryStageEffect
  <1>5. /\ BackendStep
        /\ e.next # None => /\ e.next \in Attempts /\ attempt'[e.next].phase # "unused"
                            /\ attempt'[e.next].run = r
    BY <1>0, <1>3, <1>4, CommitStep DEF TypeInv
  <1>6. CASE Ends(f)
    BY <1>0, <1>1, <1>5, <1>6, EndsStep
  <1>7. CASE /\ e.next # None
             /\ flow' = [flow EXCEPT ![f] = Drives(f, r, e.next, flow[f].gen)]
             /\ task' = [task EXCEPT ![r] = f]
    <2> SUFFICES ASSUME NEW w, w = Drives(f, r, e.next, flow[f].gen) PROVE \E v : StepOf(f, v)
      OBVIOUS
    <2>2. flow[f].lead = None /\ flow[f].gen \in Nat
      BY <1>0 DEF Fits, ReportPcs, RecoveryPcs, Flow
    <2>3. /\ w \in Flow
          /\ w.pc = "driving" /\ w.run = r /\ w.attempt = e.next /\ w.gen = flow[f].gen
          /\ w.lead = None /\ w.kind = flow[f].kind
      BY <1>0, <1>5, <1>7, <2>2, DrivesFields, SMTT(30)
    <2>4. run'[r].status # "absent"
      BY <1>0, <1>5 DEF BackendStep, Grows
    <2>5. flow[f].kind # "request"
      BY <1>0 DEF Fits
    <2>6. Fits(w)'
      BY <1>0, <1>5, <1>7, <2>3, <2>4, <2>5 DEF Fits, ReportPcs, RecoveryPcs, Used
    <2>7. KeepsGeneration(f, w) /\ KeepsTurn(f, w)
      BY <1>0, <2>3 DEF KeepsGeneration, KeepsTurn, ChainPcs, TypeInv, RestTypes
    <2>8. RestTypes' /\ flow' = [flow EXCEPT ![f] = w]
      BY <1>0, <1>1, <1>7 DEF TypeInv, RestTypes
    <2> QED
      BY <1>5, <2>6, <2>7, <2>8 DEF StepOf
  <1> QED
    BY <1>6, <1>7 DEF Retries

\* A call that is refused.
LEMMA RefusedStep ==
    ASSUME TypeInv, NEW f \in Flows, RequestRefused(f) \/ ApprovalRefused(f) \/ RetryRefused(f)
    PROVE  \E v : StepOf(f, v)
  <1>1. Ends(f) /\ UNCHANGED <<backend, chainGen, retried, faults>>
    BY DEF RequestRefused, ApprovalRefused, RetryRefused
  <1>2. BackendStep /\ faults' \in [AllFaultKinds -> Nat]
    BY <1>1, BackendSame DEF TypeInv, RestTypes
  <1> QED
    BY <1>1, <1>2, EndsStep

\* The end of a stop.
LEMMA StoppedStep ==
    ASSUME TypeInv, NEW f \in Flows, BackendStep, Stopped(f), UNCHANGED <<chainGen, retried>>,
           faults' \in [AllFaultKinds -> Nat]
    PROVE  \E v : StepOf(f, v)
  <1>1. CASE Ends(f)
    BY <1>1, EndsStep
  <1>2. CASE Goes(f, [Idle EXCEPT !.pc = "requesting", !.kind = "request"])
    <2> SUFFICES ASSUME NEW w, w = [Idle EXCEPT !.pc = "requesting", !.kind = "request"]
                 PROVE  \E v : StepOf(f, v)
      OBVIOUS
    <2>1. w \in Flow /\ w.pc = "requesting" /\ w.kind = "request" /\ w.lead = None
      BY DEF Idle, Flow, Kinds
    <2>2. Fits(w)' /\ KeepsTurn(f, w) /\ w.pc \notin ChainPcs
      BY <2>1 DEF Fits, KeepsTurn, ReportPcs, RecoveryPcs, ChainPcs
    <2> QED
      BY <1>2, <2>2, GoesStep
  <1> QED
    BY <1>1, <1>2 DEF Stopped

\* A stop goes on with the attempts that are left.
LEMMA TargetsStep ==
    ASSUME TypeInv, NEW f \in Flows, BackendStep, UNCHANGED <<chainGen, retried>>,
           faults' \in [AllFaultKinds -> Nat], flow[f].pc \in {"cancelling", "interrupting"},
           NEW ts \in SUBSET Attempts, Goes(f, AfterTargets(f, ts))
    PROVE  \E v : StepOf(f, v)
  <1> SUFFICES ASSUME NEW w, w = AfterTargets(f, ts) PROVE \E v : StepOf(f, v)
    OBVIOUS
  <1>0. Fits(flow[f]) /\ flow[f] \in Flow
    BY FlowFacts
  <1>1. /\ w \in Flow
        /\ w.pc \in {"interrupting", "finalizing"}
        /\ w.run = flow[f].run /\ w.kind = flow[f].kind /\ w.lead = flow[f].lead
    <2> DEFINE p == IF ts = {} THEN "finalizing" ELSE "interrupting"
    <2>1. w = [flow[f] EXCEPT !.targets = ts, !.pc = p] /\ p \in {"interrupting", "finalizing"}
      BY DEF AfterTargets
    <2> HIDE DEF p
    <2> QED
      BY <1>0, <2>1 DEF Flow
  <1>2. Fits(w)
    BY <1>0, <1>1 DEF Fits, ReportPcs, RecoveryPcs
  <1>3. Fits(w)'
    BY <1>2, FitsKept DEF BackendStep
  <1>4. KeepsTurn(f, w) /\ w.pc \notin ChainPcs
    BY <1>1 DEF KeepsTurn, ChainPcs
  <1> QED
    BY <1>3, <1>4, GoesStep

\* Each step of a stop is a step of its flow.
LEMMA StopStep ==
    ASSUME TypeInv, NEW f \in Flows,
           \/ Cancels(f) \/ CancelFails(f) \/ Finalizes(f) \/ StopFails(f)
           \/ \E a \in Attempts : InterruptsOne(f, a)
    PROVE  \E v : StepOf(f, v)
  <1> DEFINE r == flow[f].run
  <1>0. flow[f].pc \in {"cancelling", "interrupting", "finalizing"} /\ flow[f] \in Flow
    BY FlowFacts DEF Cancels, CancelFails, Finalizes, StopFails, InterruptsOne
  <1>1. r \in Runs /\ WellKept(run[r]) /\ run[r].status # "absent"
    BY <1>0, FlowFacts
  <1>2. UNCHANGED <<chainGen, retried>> /\ faults' \in [AllFaultKinds -> Nat]
    BY FaultsTyped DEF Cancels, CancelFails, Finalizes, StopFails, InterruptsOne
  <1>3. CASE Cancels(f)
    <2>1. BackendStep
      BY <1>1, <1>3, CancelKept, KeepsStep DEF Cancels, TypeInv
    <2>2. ActiveAttempts(run[r]) \in SUBSET Attempts
      BY <1>1 DEF ActiveAttempts, WellKept, Run
    <2>3. \E ts \in SUBSET Attempts : Goes(f, AfterTargets(f, ts))
      BY <1>3, <2>2 DEF Cancels
    <2> QED
      BY <1>2, <1>3, <2>1, <2>3, TargetsStep DEF Cancels
  <1>4. CASE Finalizes(f)
    <2>1. BackendStep
      BY <1>1, <1>4, CancelKept, KeepsStep DEF Finalizes, TypeInv
    <2> QED
      BY <1>2, <1>4, <2>1, StoppedStep DEF Finalizes
  <1>5. CASE CancelFails(f) \/ StopFails(f)
    <2>1. BackendStep /\ Stopped(f)
      BY <1>5, BackendSame DEF CancelFails, StopFails, TypeInv
    <2> QED
      BY <1>2, <2>1, StoppedStep
  <1>6. ASSUME NEW a \in Attempts, InterruptsOne(f, a) PROVE \E v : StepOf(f, v)
    <2>1. BackendStep
      <3>1. CASE attempt[a].phase = "begun" /\ attempt' = Phase(a, "failed")
        BY <1>6, <3>1, PhaseStep DEF InterruptsOne, TypeInv, Used
      <3>2. CASE UNCHANGED attempt
        BY <1>6, <3>2, BackendSame DEF InterruptsOne, TypeInv, backend
      <3> QED
        BY <1>6, <3>1, <3>2 DEF InterruptsOne, Interrupted
    <2>2. flow[f].targets \ {a} \in SUBSET Attempts
      BY <1>0 DEF Flow
    <2> QED
      BY <1>2, <1>6, <2>1, <2>2, TargetsStep DEF InterruptsOne
  <1> QED
    BY <1>3, <1>4, <1>5, <1>6

-----------------------------------------------------------------------------
(* Type correctness. *)

\* A step of a flow.
LEMMA FlowStep ==
    ASSUME TypeInv, NEW f \in Flows, Step(f) \/ Fails(f) \/ User(f)
    PROVE  \E w : StepOf(f, w)
  <1>1. CASE Step(f)
    <2>1. ASSUME NEW a \in Attempts, NEW canBegin \in BOOLEAN, Commands(f, a, canBegin)
          PROVE  \E w : StepOf(f, w)
      BY <2>1, RequestsStep, RecordsStep, RerecordsStep, ApprovesStep, RetriesStep DEF Commands
    <2> QED
      BY <1>1, <2>1, DispatchStep, AwaitStep, RecoveryStep, ClosesStep, RefusedStep, StopStep
         DEF Step
  <1>2. CASE Fails(f)
    BY <1>2, DispatchStep, AwaitStep, RecordFailsStep, RecoveryStep, StopStep DEF Fails
  <1> QED
    BY <1>1, <1>2, UserStep

\* Every step is that of one flow, of a turn, or the reload of the window.
LEMMA NextStep ==
    ASSUME TypeInv, [Next]_vars
    PROVE  \/ \E f \in Flows : \E w : StepOf(f, w)
           \/ BackendStep /\ RestTypes' /\ UNCHANGED <<flow, chainGen>>
           \/ BackendStep /\ RestTypes' /\ flow' = [f \in Flows |-> Idle]
  <1>4. ASSUME NEW a \in Attempts, AttemptEnds(a)
        PROVE  BackendStep /\ RestTypes' /\ UNCHANGED <<flow, chainGen>>
    <2>1. PICK p \in {"completed", "failed"} : attempt' = Phase(a, p)
      BY <1>4 DEF AttemptEnds
    <2>2. attempt[a].phase = "dispatched" /\ UNCHANGED <<run, window, retried, faults>>
      BY <1>4 DEF AttemptEnds
    <2>3. BackendStep
      BY <2>1, <2>2, PhaseStep DEF TypeInv
    <2> QED
      BY <2>2, <2>3 DEF window, TypeInv, RestTypes
  <1>5. CASE Reload
    <2>1. BackendStep /\ flow' = [f \in Flows |-> Idle]
      BY <1>5, BackendSame DEF Reload, TypeInv
    <2>2. faults' \in [AllFaultKinds -> Nat]
      BY <1>5, FaultsTyped DEF Reload
    <2> QED
      BY <1>5, <2>1, <2>2 DEF Reload, TypeInv, RestTypes
  <1>6. CASE UNCHANGED vars
    <2>1. BackendStep
      BY <1>6, BackendSame DEF vars, TypeInv
    <2> QED
      BY <1>6, <2>1 DEF vars, window, TypeInv, RestTypes
  <1> QED
    BY <1>4, <1>5, <1>6, FlowStep DEF Next

\* TypeInv holds initially.
LEMMA InitTypeInv == Init => TypeInv
  <1> SUFFICES ASSUME Init PROVE TypeInv
    OBVIOUS
  <1>1. BackendInv
    BY AbsentRunKept DEF Init, BackendInv, WellKept, Attempt, Used, AbsentRun
  <1>2. FlowsInv
    BY IdleFits DEF Init, FlowsInv
  <1> QED
    BY <1>1, <1>2 DEF Init, TypeInv, RestTypes

\* Every step, being the step of one flow or of one turn, preserves TypeInv.
LEMMA NextTypeInv == TypeInv /\ [Next]_vars => TypeInv'
  <1> SUFFICES ASSUME TypeInv, [Next]_vars PROVE TypeInv'
    OBVIOUS
  <1>1. ASSUME NEW f \in Flows, NEW w, StepOf(f, w) PROVE TypeInv'
    BY <1>1, StepKeeps
  <1>2. CASE BackendStep /\ RestTypes' /\ UNCHANGED <<flow, chainGen>>
    <2>1. ASSUME NEW f \in Flows PROVE Fits(flow[f])'
      <3>1. ASSUME NEW v, v = flow[f] PROVE Fits(v)'
        BY <1>2, <3>1, FitsKept DEF TypeInv, FlowsInv, BackendStep
      <3>2. flow'[f] = flow[f]
        BY <1>2
      <3> QED
        BY <3>1, <3>2 DEF Fits
    <2> QED
      BY <1>2, <2>1 DEF TypeInv, FlowsInv, BackendStep
  <1>3. CASE BackendStep /\ RestTypes' /\ flow' = [f \in Flows |-> Idle]
    <2>1. ASSUME NEW f \in Flows PROVE Fits(flow[f])'
      <3>1. flow'[f] = Idle
        BY <1>3
      <3> QED
        BY <3>1, IdleFits DEF Fits
    <2> QED
      BY <1>3, <2>1, IdleFits DEF TypeInv, FlowsInv, BackendStep
  <1> QED
    BY <1>1, <1>2, <1>3, NextStep

\* TypeInv contains the type invariant the run checks.
LEMMA TypeInvTypes == TypeInv => TypeOK
  <1> SUFFICES ASSUME TypeInv PROVE TypeOK
    OBVIOUS
  <1>1. ASSUME NEW r \in Runs, NEW s \in Stages, run[r].stage[s] = "running"
        PROVE  LET a == run[r].attempt[s]
               IN  a # None /\ attempt[a].run = r /\ attempt[a].stage = s
    BY <1>1 DEF TypeInv, BackendInv, WellKept
  <1> QED
    BY <1>1 DEF TypeInv, BackendInv, FlowsInv, RestTypes, TypeOK

\* TypeInv holds in every reachable state.
LEMMA TypeInvHolds == Spec => []TypeInv
  BY InitTypeInv, NextTypeInv, PTL DEF Spec

\* TypeOK holds in every reachable state of the squad: the runs, attempts and
\* flows keep their shape, and a stage that runs has an attempt that was begun
\* for it, whatever requests, retries (of the same stage too) and failed calls
\* came before.
THEOREM TypeCorrect == Spec => []TypeOK
  BY TypeInvHolds, TypeInvTypes, PTL

-----------------------------------------------------------------------------
(* The life cycle of runs. *)

PhaseOf(R) == IF IsOpen(R) THEN "open" ELSE R.status

Phases == [r \in Runs |-> PhaseOf(run[r])]

\* No run has been requested.
LEMMA InitLifecycle == Init => Lifecycle!Init
  <1> SUFFICES ASSUME Init PROVE Lifecycle!Init
    OBVIOUS
  <1>1. \A r \in Runs : run[r] = AbsentRun
    BY DEF Init
  <1>2. AbsentRun.status = "absent" /\ ~ IsOpen(AbsentRun)
    BY DEF AbsentRun, IsOpen
  <1> QED
    BY <1>1, <1>2 DEF Lifecycle!Init

\* A step of the backend requests a run, settles one, or is none of the life cycle.
LEMMA StepLifecycle ==
    ASSUME BackendInv, BackendStep
    PROVE  Lifecycle!Next \/ Phases' = Phases
  <1>1. CASE UNCHANGED run
    BY <1>1 DEF Phases, PhaseOf, IsOpen, IsTerminal
  <1>2. ASSUME NEW r \in Runs, \A q \in Runs \ {r} : run'[q] = run[q],
               IsTerminal(run[r]), run'[r] = run[r]
        PROVE  Phases' = Phases
    <2>1. \A q \in Runs : run'[q] = run[q]
      BY <1>2
    <2> QED
      BY <2>1 DEF Phases
  <1>3. ASSUME NEW r \in Runs, \A q \in Runs \ {r} : run'[q] = run[q]
        PROVE  Phases' = [Phases EXCEPT ![r] = PhaseOf(run'[r])]
    BY <1>3 DEF Phases
  <1>4. ASSUME NEW r \in Runs, \A q \in Runs \ {r} : run'[q] = run[q],
               IsOpen(run[r]), run'[r].status # "absent"
        PROVE  Lifecycle!Next \/ Phases' = Phases
    <2>1. Phases[r] = "open"
      BY <1>4 DEF Phases, PhaseOf
    <2>2. CASE IsOpen(run'[r])
      <3>1. PhaseOf(run'[r]) = "open"
        BY <2>2 DEF PhaseOf
      <3>2. Phases' = [Phases EXCEPT ![r] = "open"]
        BY <1>3, <1>4, <3>1
      <3> QED
        BY <2>1, <3>2 DEF Phases
    <2>3. CASE ~ IsOpen(run'[r])
      <3>1. PhaseOf(run'[r]) \in {"succeeded", "failed", "cancelled"}
        BY <1>4, <2>3 DEF PhaseOf, IsOpen, IsTerminal
      <3>2. Phases' = [Phases EXCEPT ![r] = PhaseOf(run'[r])]
        BY <1>3, <1>4
      <3>3. Lifecycle!Settle(r)
        BY <2>1, <3>1, <3>2 DEF Lifecycle!Settle, Lifecycle!Outcomes, Phases, PhaseOf
      <3> QED
        BY <3>3 DEF Lifecycle!Next
    <2> QED
      BY <2>2, <2>3
  <1>5. ASSUME NEW r \in Runs, \A q \in Runs \ {r} : run'[q] = run[q],
               run[r].status = "absent", \A q \in Runs : ~ IsOpen(run[q]),
               IsOpen(run'[r]) \/ run'[r].status = "failed"
        PROVE  Lifecycle!Next
    <2>1. Phases[r] = "absent"
      BY <1>5 DEF Phases, PhaseOf
    <2>2. \A q \in Runs : Phases[q] # "open"
      BY <1>5 DEF Phases, PhaseOf, BackendInv, Run, RunStatus
    <2>3. PhaseOf(run'[r]) \in {"open", "failed"}
      BY <1>5 DEF PhaseOf
    <2>4. Phases' = [Phases EXCEPT ![r] = PhaseOf(run'[r])]
      BY <1>3, <1>5
    <2>5. Lifecycle!Request(r)
      BY <2>1, <2>2, <2>3, <2>4 DEF Lifecycle!Request, Phases, PhaseOf
    <2> QED
      BY <2>5 DEF Lifecycle!Next
  <1> QED
    BY <1>1, <1>2, <1>4, <1>5 DEF BackendStep, LifeStep

\* LifecycleRefined: every behaviour of the squad is one of the life cycle, with
\* one open run in a session and final outcomes, whatever records, approvals,
\* retries and stops come late, and whatever fails.
THEOREM Implementation == Spec => LifecycleRefined
  <1>1. TypeInv /\ [Next]_vars => Lifecycle!Next \/ Phases' = Phases
    <2> SUFFICES ASSUME TypeInv, [Next]_vars PROVE BackendStep /\ BackendInv
      BY StepLifecycle
    <2> QED
      BY NextStep DEF StepOf, TypeInv
  <1>2. TypeInv /\ [Next]_vars => [Lifecycle!Next]_Phases
    BY <1>1
  <1> QED
    BY <1>2, InitLifecycle, TypeInvHolds, PTL DEF Spec, LifecycleRefined, Lifecycle!Spec, Phases, PhaseOf

-----------------------------------------------------------------------------
(* One driver. *)

(***************************************************************************)
(* OneDriver, made inductive.  No chain of a run has a generation that the *)
(* run has not reached, so that a new one is new; no two chains share one, *)
(* whether they drive already or still close and retry; and the attempt    *)
(* that a chain waits for or records was dispatched, which a begun attempt *)
(* is once.                                                                *)
(***************************************************************************)
GenerationsInv ==
    /\ \A f \in Flows : flow[f].pc \in ChainPcs => flow[f].gen <= chainGen[flow[f].run]
    /\ \A f, g \in Flows :
          f # g /\ flow[f].pc \in ChainPcs /\ flow[g].pc \in ChainPcs =>
              ~ (flow[f].run = flow[g].run /\ flow[f].gen = flow[g].gen)

TurnsInv ==
    /\ \A f \in Flows : HasDispatched(f) => attempt[flow[f].attempt].phase \in Late
    /\ \A f, g \in Flows :
          f # g /\ HasDispatched(f) /\ HasDispatched(g) => flow[f].attempt # flow[g].attempt

DriverInv == TypeInv /\ GenerationsInv /\ TurnsInv

\* What a chain and a dispatched attempt are made of.
LEMMA ChainFacts ==
    ASSUME TypeInv, NEW g \in Flows
    PROVE  /\ flow[g].gen \in Nat
           /\ flow[g].pc \in ChainPcs => flow[g].run \in Runs /\ chainGen[flow[g].run] \in Nat
           /\ HasDispatched(g) => flow[g].attempt \in Attempts /\ Used(flow[g].attempt)
  <1>1. flow[g].gen \in Nat
    BY DEF TypeInv, FlowsInv, Flow
  <1>2. flow[g].pc \in ChainPcs => flow[g].run \in Runs
    BY FlowFacts DEF ChainPcs
  <1>3. flow[g].pc \in ChainPcs => chainGen[flow[g].run] \in Nat
    BY <1>2 DEF TypeInv, RestTypes
  <1>4. HasDispatched(g) => flow[g].attempt \in Attempts /\ Used(flow[g].attempt)
    BY FlowFacts DEF HasDispatched, ReportPcs
  <1> QED
    BY <1>1, <1>2, <1>3, <1>4

\* A step of a flow keeps the generation of its chain or takes one that no
\* chain has had.
LEMMA GenerationsKept ==
    ASSUME DriverInv, NEW f \in Flows, NEW w, StepOf(f, w)
    PROVE  GenerationsInv'
  <1>0. /\ flow'[f] = w
        /\ \A g \in Flows : g # f => flow'[g] = flow[g]
    BY DEF DriverInv, TypeInv, FlowsInv, StepOf
  <1>1. \A g \in Flows : /\ flow[g].gen \in Nat
                         /\ flow[g].pc \in ChainPcs =>
                               flow[g].run \in Runs /\ chainGen[flow[g].run] \in Nat
    BY ChainFacts DEF DriverInv
  <1>2. /\ w.pc \in ChainPcs => w.run \in Runs
        /\ w.gen \in Nat
    BY DEF StepOf, Fits, ChainPcs, Flow
  <1>3. \A r \in Runs : chainGen[r] \in Nat /\ chainGen'[r] \in Nat /\ chainGen[r] <= chainGen'[r]
    BY DEF DriverInv, TypeInv, StepOf, RestTypes, KeepsGeneration
  <1>4. w.pc \in ChainPcs =>
           \/ flow[f].pc \in ChainPcs /\ w.run = flow[f].run /\ w.gen = flow[f].gen
           \/ w.gen = chainGen'[w.run] /\ chainGen[w.run] < chainGen'[w.run]
    BY DEF StepOf, KeepsGeneration
  <1>5. \A g \in Flows : flow[g].pc \in ChainPcs => flow[g].gen <= chainGen[flow[g].run]
    BY DEF DriverInv, GenerationsInv
  <1>6. ASSUME NEW g \in Flows, flow'[g].pc \in ChainPcs
        PROVE  flow'[g].gen <= chainGen'[flow'[g].run]
    <2>1. CASE g = f
      BY <1>0, <1>1, <1>2, <1>3, <1>4, <1>5, <1>6, <2>1
    <2>2. CASE g # f
      BY <1>0, <1>1, <1>3, <1>5, <1>6, <2>2
    <2> QED
      BY <2>1, <2>2
  <1>7. ASSUME NEW g \in Flows, g # f, w.pc \in ChainPcs, flow[g].pc \in ChainPcs,
               w.run = flow[g].run
        PROVE  w.gen # flow[g].gen
    <2>1. CASE flow[f].pc \in ChainPcs /\ w.run = flow[f].run /\ w.gen = flow[f].gen
      BY <1>7, <2>1 DEF DriverInv, GenerationsInv
    <2>2. CASE w.gen = chainGen'[w.run] /\ chainGen[w.run] < chainGen'[w.run]
      BY <1>1, <1>2, <1>3, <1>5, <1>7, <2>2
    <2> QED
      BY <1>4, <1>7, <2>1, <2>2
  <1>8. ASSUME NEW g \in Flows, NEW h \in Flows, g # h,
               flow'[g].pc \in ChainPcs, flow'[h].pc \in ChainPcs,
               flow'[g].run = flow'[h].run, flow'[g].gen = flow'[h].gen
        PROVE  FALSE
    <2>1. CASE g = f
      BY <1>0, <1>7, <1>8, <2>1
    <2>2. CASE h = f
      BY <1>0, <1>7, <1>8, <2>2
    <2>3. CASE g # f /\ h # f
      BY <1>0, <1>8, <2>3 DEF DriverInv, GenerationsInv
    <2> QED
      BY <2>1, <2>2, <2>3
  <1> QED
    BY <1>6, <1>8 DEF GenerationsInv

\* A step of a flow keeps its turn or dispatches one that nobody waits for.
LEMMA TurnsKept ==
    ASSUME DriverInv, NEW f \in Flows, NEW w, StepOf(f, w)
    PROVE  TurnsInv'
  <1>0. /\ flow'[f] = w
        /\ \A g \in Flows : g # f => flow'[g] = flow[g]
    BY DEF DriverInv, TypeInv, FlowsInv, StepOf
  <1> DEFINE D(v) == v.pc \in {"awaiting", "recording"}
  <1>1. \A g \in Flows : D(flow[g]) => /\ flow[g].attempt \in Attempts /\ Used(flow[g].attempt)
                                       /\ attempt[flow[g].attempt].phase \in Late
                                       /\ attempt'[flow[g].attempt].phase \in Late
    <2>1. \A g \in Flows : D(flow[g]) => flow[g].attempt \in Attempts /\ Used(flow[g].attempt)
      BY ChainFacts DEF DriverInv, HasDispatched
    <2>2. \A g \in Flows : D(flow[g]) => attempt[flow[g].attempt].phase \in Late
      BY DEF DriverInv, TurnsInv, HasDispatched
    <2>3. \A a \in Attempts : Used(a) /\ attempt[a].phase \in Late => attempt'[a].phase \in Late
      BY DEF StepOf, BackendStep, Grows
    <2> QED
      BY <2>1, <2>2, <2>3
  <1>2. \A g, h \in Flows : g # h /\ D(flow[g]) /\ D(flow[h]) => flow[g].attempt # flow[h].attempt
    BY DEF DriverInv, TurnsInv, HasDispatched
  <1>3. D(w) => \/ D(flow[f]) /\ w.attempt = flow[f].attempt
                \/ attempt[w.attempt].phase = "begun" /\ attempt'[w.attempt].phase = "dispatched"
    BY DEF StepOf, KeepsTurn, HasDispatched
  <1> HIDE DEF D
  <1>4. ASSUME NEW g \in Flows, D(flow'[g]) PROVE attempt'[flow'[g].attempt].phase \in Late
    <2>1. CASE g = f
      BY <1>0, <1>1, <1>3, <1>4, <2>1 DEF Late
    <2>2. CASE g # f
      BY <1>0, <1>1, <1>4, <2>2
    <2> QED
      BY <2>1, <2>2
  <1>5. ASSUME NEW g \in Flows, g # f, D(w), D(flow[g]) PROVE w.attempt # flow[g].attempt
    BY <1>1, <1>2, <1>3, <1>5 DEF Late
  <1>6. ASSUME NEW g \in Flows, NEW h \in Flows, g # h, D(flow'[g]), D(flow'[h])
        PROVE  flow'[g].attempt # flow'[h].attempt
    <2>1. CASE g = f
      BY <1>0, <1>5, <1>6, <2>1
    <2>2. CASE h = f
      BY <1>0, <1>5, <1>6, <2>2
    <2>3. CASE g # f /\ h # f
      BY <1>0, <1>2, <1>6, <2>3
    <2> QED
      BY <2>1, <2>2, <2>3
  <1> QED
    BY <1>4, <1>6 DEF TurnsInv, HasDispatched, D

\* DriverInv holds initially: no flow drives anything.
LEMMA InitDriverInv == Init => DriverInv
  BY InitTypeInv, IdleFits DEF Init, DriverInv, GenerationsInv, TurnsInv, HasDispatched, ChainPcs

\* Every step preserves DriverInv.
LEMMA NextDriverInv == DriverInv /\ [Next]_vars => DriverInv'
  <1> SUFFICES ASSUME DriverInv, [Next]_vars PROVE DriverInv'
    OBVIOUS
  <1>0. TypeInv /\ TypeInv'
    BY NextTypeInv DEF DriverInv
  <1>1. ASSUME NEW f \in Flows, NEW w, StepOf(f, w) PROVE DriverInv'
    BY <1>0, <1>1, GenerationsKept, TurnsKept DEF DriverInv
  <1>2. CASE BackendStep /\ RestTypes' /\ UNCHANGED <<flow, chainGen>>
    <2>1. GenerationsInv'
      BY <1>2 DEF DriverInv, GenerationsInv
    <2>2. \A f \in Flows : HasDispatched(f) => flow[f].attempt \in Attempts /\ Used(flow[f].attempt)
      BY <1>0, ChainFacts
    <2>3. \A a \in Attempts : Used(a) /\ attempt[a].phase \in Late => attempt'[a].phase \in Late
      BY <1>2 DEF BackendStep, Grows
    <2>4. TurnsInv'
      BY <1>2, <2>2, <2>3 DEF DriverInv, TurnsInv, HasDispatched
    <2> QED
      BY <1>0, <2>1, <2>4 DEF DriverInv
  <1>3. CASE BackendStep /\ RestTypes' /\ flow' = [f \in Flows |-> Idle]
    <2>1. \A f \in Flows : flow'[f].pc = "idle"
      BY <1>3, IdleFits
    <2> QED
      BY <1>0, <2>1 DEF DriverInv, GenerationsInv, TurnsInv, HasDispatched, ChainPcs
  <1> QED
    BY <1>0, <1>1, <1>2, <1>3, NextStep

\* DriverInv holds in every reachable state.
LEMMA DriverInvHolds == Spec => []DriverInv
  BY InitDriverInv, NextDriverInv, PTL DEF Spec

\* OneDriver: however many requests, approvals, retries, stops and recoveries
\* overlap, also where one call after another fails or one stage is retried
\* again while its last retry goes on, of the chains of a run one at most is of the
\* current generation, and no two chains wait for or record the same attempt.
THEOREM OneDriverHolds == Spec => []OneDriver
  <1>1. DriverInv => OneDriver
    <2> SUFFICES ASSUME DriverInv, NEW f \in Flows, NEW g \in Flows,
                        f # g, IsDriving(f), IsDriving(g)
                 PROVE  /\ flow[f].run = flow[g].run => ~ (IsCurrent(f) /\ IsCurrent(g))
                        /\ HasDispatched(f) /\ HasDispatched(g) =>
                              flow[f].attempt # flow[g].attempt
      BY DEF OneDriver
    <2>1. flow[f].pc \in ChainPcs /\ flow[g].pc \in ChainPcs
      BY DEF IsDriving, ChainPcs
    <2> QED
      BY <2>1 DEF DriverInv, GenerationsInv, TurnsInv, IsCurrent
  <1> QED
    BY <1>1, DriverInvHolds, PTL

-----------------------------------------------------------------------------
(***************************************************************************)
(* The gates of a squad run hold: no stage behind a gate is begun before   *)
(* the user approved, as long as no append fails.                          *)
(*                                                                         *)
(* The danger is a record that is repeated, late, or of an attempt that a  *)
(* retry replaced: it meets a stage that has succeeded already and begins  *)
(* the next one, gate or not.  That no record of a gated stage does so is  *)
(* what the log says of its attempt: the invariant relates the stages of a *)
(* run to the outcomes in the log, and the outcomes to what the flows are  *)
(* about to record.                                                        *)
(***************************************************************************)
GatesBefore(t) == Cardinality({g \in Gated : g < t})

Succeeded(R, b) == R.outcome[b] # None /\ R.outcome[b][2] = "succeeded"

\* In an open run a stage that has ended has the outcome of its attempt in the
\* log, and one that succeeded, that outcome.
Sound(R) ==
    IsOpen(R) => \A s \in Stages :
        /\ R.stage[s] \notin {"pending", "running"} => R.outcome[R.attempt[s]] # None
        /\ R.stage[s] = "succeeded" => Succeeded(R, R.attempt[s])

Approved(R) == \A t \in Stages : R.attempt[t] # None => GatesBefore(t) <= R.approved

\* What a command does to the outcomes in the log of run R: they stay; a new one
\* is of the attempt of a stage, for that stage, and only attempt x succeeds;
\* an attempt that is replaced has one.
Keeps(R, T, x) ==
    /\ \A b \in Attempts :
          \/ T.outcome[b] = R.outcome[b]
          \/ /\ R.outcome[b] = None
             /\ \E s \in Stages : R.attempt[s] = b /\ T.outcome[b][1] = s
             /\ Succeeded(T, b) => b = x
    /\ \A s \in Stages : R.attempt[s] # None /\ T.attempt[s] # R.attempt[s] =>
          T.outcome[R.attempt[s]] # None
    /\ Sound(T)
    /\ Approved(T)

\* A fact that is no outcome.
Follows(S, T) ==
    /\ T.outcome = S.outcome
    /\ \A s \in Stages : S.attempt[s] # None /\ T.attempt[s] # S.attempt[s] =>
          T.outcome[S.attempt[s]] # None
    /\ Sound(T)
    /\ Approved(T)

-----------------------------------------------------------------------------
(* Gates. *)

\* The gates before a stage are finitely many; the next stage has one more if
\* this one is gated.
LEMMA GatesCounted ==
    /\ \A t \in Nat : GatesBefore(t) \in Nat
    /\ GatesBefore(1) = 0
    /\ \A s \in Stages : GatesBefore(s + 1) <= GatesBefore(s) + 1
    /\ \A s \in Stages \ Gated : GatesBefore(s + 1) = GatesBefore(s)
  <1>1. Gated \subseteq 1 .. N /\ N \in Nat
    BY ControlAssumption DEF ControlAssumption, Stages
  <1>g. \A g \in Gated : g \in Nat /\ 1 <= g
    BY <1>1
  <1>2. \A t \in Nat : IsFiniteSet({g \in Gated : g < t})
    <2>1. IsFiniteSet(1 .. N)
      BY <1>1, FS_Interval
    <2>2. IsFiniteSet(Gated)
      BY <1>1, <2>1, FS_Subset
    <2> QED
      BY <2>2, FS_Subset
  <1>3. \A t \in Nat : GatesBefore(t) \in Nat
    BY <1>2, FS_CardinalityType DEF GatesBefore
  <1>4. GatesBefore(1) = 0
    <2>1. {g \in Gated : g < 1} = {}
      BY <1>g
    <2> QED
      BY <2>1, FS_EmptySet DEF GatesBefore
  <1>5. ASSUME NEW s \in Stages
        PROVE  /\ s \in Gated => GatesBefore(s + 1) = GatesBefore(s) + 1
               /\ s \notin Gated => GatesBefore(s + 1) = GatesBefore(s)
    <2> DEFINE G == {g \in Gated : g < s}
    <2>1. s \in Nat
      BY NoneApart
    <2>2. CASE s \in Gated
      <3>1. {g \in Gated : g < s + 1} = G \cup {s} /\ s \notin G
        <4>1. \A g \in Gated : g < s + 1 <=> g < s \/ g = s
          BY <1>g, <2>1
        <4>2. s \notin G
          BY <2>1
        <4> QED
          BY <2>2, <4>1, <4>2
      <3>2. IsFiniteSet(G)
        BY <1>2, <2>1
      <3> HIDE DEF G
      <3>3. Cardinality(G \cup {s}) = Cardinality(G) + 1
        BY <3>1, <3>2, FS_AddElement
      <3> QED
        BY <2>2, <3>1, <3>3 DEF GatesBefore, G
    <2>3. CASE s \notin Gated
      <3>1. {g \in Gated : g < s + 1} = G
        BY <1>g, <2>1, <2>3
      <3> QED
        BY <2>3, <3>1 DEF GatesBefore
    <2> QED
      BY <2>2, <2>3
  <1>6. \A s \in Stages : s \in Nat /\ GatesBefore(s) \in Nat
    BY <1>3, NoneApart
  <1> QED
    BY <1>3, <1>4, <1>5, <1>6

-----------------------------------------------------------------------------
(* Facts. *)

\* A run that does not change.
LEMMA KeepsSame ==
    ASSUME NEW R, Sound(R), Approved(R), NEW x
    PROVE  Keeps(R, R, x)
  BY DEF Keeps

\* A fact after an outcome.
LEMMA KeepsThen ==
    ASSUME NEW R, NEW S, NEW T, NEW x, Keeps(R, S, x), S.attempt = R.attempt, Follows(S, T)
    PROVE  Keeps(R, T, x)
  BY DEF Keeps, Follows, Succeeded

\* The outcome of the attempt of a stage, new or a replay.
LEMMA JudgedKeeps ==
    ASSUME NEW R, WellKept(R), IsOpen(R), Sound(R), Approved(R),
           NEW s \in Stages, NEW b \in Attempts, R.attempt[s] = b,
           NEW o \in {"succeeded", "failed", "closed"}
    PROVE  LET S == Judged(R, s, b, o)
           IN  /\ Keeps(R, S, IF o = "succeeded" THEN b ELSE None)
               /\ S.outcome[b] # None
               /\ R.outcome[b] = None => S.outcome[b] = <<s, o>>
  <1> DEFINE x == IF o = "succeeded" THEN b ELSE None
  <1>0. R \in Run /\ b # None
    BY NoneApart DEF WellKept
  <1>1. CASE R.outcome[b] # None
    <2>1. Judged(R, s, b, o) = R
      BY <1>1 DEF Judged
    <2> QED
      BY <1>1, <2>1, KeepsSame
  <1>2. CASE R.outcome[b] = None
    <2>1. Judged(R, s, b, o) = NodeOutcome(R, s, b, o)
      BY <1>2 DEF Judged
    <2> SUFFICES ASSUME NEW S, S = NodeOutcome(R, s, b, o)
                 PROVE  Keeps(R, S, x) /\ S.outcome[b] # None /\ S.outcome[b] = <<s, o>>
      BY <2>1
    <2>2. /\ S.stage[s] = "succeeded" <=> o = "succeeded"
          /\ \A t \in Stages : t # s => S.stage[t] = R.stage[t]
          /\ \A c \in Attempts : c # b => S.outcome[c] = R.outcome[c]
          /\ S.attempt = R.attempt
          /\ S.status = R.status
          /\ S.approved = R.approved
      <3>1. S.stage[s] = "succeeded" <=> o = "succeeded"
        BY <1>0, NodeOutcomeFields
      <3>2. \A t \in Stages : t # s => S.stage[t] = R.stage[t]
        BY <1>0, NodeOutcomeFields, SMTT(30)
      <3>3. \A c \in Attempts : c # b => S.outcome[c] = R.outcome[c]
        BY <1>0, NodeOutcomeFields
      <3>4. S.attempt = R.attempt /\ S.status = R.status /\ S.approved = R.approved
        BY <1>0, NodeOutcomeFields
      <3> QED
        BY <3>1, <3>2, <3>3, <3>4
    <2>3. S.outcome[b] = <<s, o>>
      BY <1>0, NodeOutcomeFact
    <2>4. S.outcome[b] # None
      <3>1. <<s, o>> \in OutcomeFact
        BY DEF OutcomeFact
      <3> QED
        BY <2>3, <3>1, ControlAssumption DEF ControlAssumption
    <2>5. S.outcome[b][1] = s /\ (Succeeded(S, b) => b = x)
      BY <2>3 DEF Succeeded
    <2>6. Sound(S)
      <3> SUFFICES ASSUME NEW t \in Stages, IsOpen(S)
                   PROVE  /\ S.stage[t] \notin {"pending", "running"} => S.outcome[S.attempt[t]] # None
                          /\ S.stage[t] = "succeeded" => Succeeded(S, S.attempt[t])
        BY DEF Sound
      <3>1. IsOpen(R)
        OBVIOUS
      <3>2. CASE t = s
        BY <2>2, <2>3, <2>4, <3>2 DEF Succeeded
      <3>3. CASE t # s
        <4>1. /\ R.stage[t] \notin {"pending", "running"} => R.outcome[R.attempt[t]] # None
              /\ R.stage[t] = "succeeded" => Succeeded(R, R.attempt[t])
              /\ R.stage[t] # "pending" => R.attempt[t] \in Attempts
          BY <3>1 DEF Sound, WellKept, Run
        <4>2. R.outcome[R.attempt[t]] # None /\ R.attempt[t] \in Attempts =>
                 S.outcome[R.attempt[t]] = R.outcome[R.attempt[t]]
          BY <1>2, <2>2
        <4> QED
          BY <2>2, <3>3, <4>1, <4>2 DEF Succeeded
      <3> QED
        BY <3>2, <3>3
    <2>7. Approved(S)
      BY <2>2 DEF Approved
    <2> QED
      BY <1>2, <2>2, <2>3, <2>4, <2>5, <2>6, <2>7 DEF Keeps
  <1> QED
    BY <1>1, <1>2

\* A stage is begun whose last attempt, if any, has an outcome, and before which
\* the gates are approved.
LEMMA BeginFollows ==
    ASSUME NEW S, WellKept(S), IsOpen(S), Sound(S), Approved(S),
           NEW s \in Stages, NEW a \in Attempts,
           S.attempt[s] # None => S.outcome[S.attempt[s]] # None,
           GatesBefore(s) <= S.approved
    PROVE  Follows(S, TurnRequested(S, s, a))
  <1> SUFFICES ASSUME NEW T, T = TurnRequested(S, s, a) PROVE Follows(S, T)
    OBVIOUS
  <1>0. S \in Run
    BY DEF WellKept
  <1>1. /\ T.stage[s] = "running"
        /\ T.attempt[s] = a
        /\ T.outcome = S.outcome
        /\ T.approved = S.approved
    BY <1>0, TurnRequestedFields
  <1>2. \A t \in Stages : t # s => T.stage[t] = S.stage[t] /\ T.attempt[t] = S.attempt[t]
    BY <1>0, TurnRequestedFields
  <1>3. Sound(T)
    BY <1>1, <1>2 DEF Sound, Succeeded
  <1>4. Approved(T)
    BY <1>1, <1>2 DEF Approved
  <1> QED
    BY <1>1, <1>2, <1>3, <1>4 DEF Follows

\* A run that is settled needs no outcome.
LEMMA SettledFollows ==
    ASSUME NEW S, WellKept(S), Approved(S), NEW o \in {"succeeded", "failed", "cancelled"}
    PROVE  Follows(S, RunSettled(S, o)) /\ ~ IsOpen(RunSettled(S, o))
  <1> SUFFICES ASSUME NEW T, T = RunSettled(S, o) PROVE Follows(S, T) /\ ~ IsOpen(T)
    OBVIOUS
  <1>1. T.status = o /\ T.outcome = S.outcome /\ T.attempt = S.attempt /\ T.approved = S.approved
    BY RunSettledFields DEF WellKept
  <1>2. ~ IsOpen(T)
    BY <1>1 DEF IsOpen, IsTerminal
  <1> QED
    BY <1>1, <1>2 DEF Follows, Sound, Approved

\* A gated stage waits for the user with the outcome of its attempt.
LEMMA GateFollows ==
    ASSUME NEW S, WellKept(S), IsOpen(S), Sound(S), Approved(S), NEW s \in Stages,
           Succeeded(S, S.attempt[s])
    PROVE  Follows(S, PlanGate(S, s)) /\ PlanGate(S, s).status = "awaiting-approval"
  <1> SUFFICES ASSUME NEW T, T = PlanGate(S, s)
               PROVE  Follows(S, T) /\ T.status = "awaiting-approval"
    OBVIOUS
  <1>1. /\ T.status = "awaiting-approval"
        /\ T.outcome = S.outcome /\ T.attempt = S.attempt /\ T.approved = S.approved
    BY PlanGateFields DEF WellKept
  <1>2. \A t \in Stages : t # s => T.stage[t] = S.stage[t]
    BY PlanGateFields DEF WellKept
  <1>3. Sound(T)
    BY <1>1, <1>2 DEF Sound, Succeeded
  <1> QED
    BY <1>1, <1>3 DEF Follows, Approved

\* An approval only adds to the approvals.
LEMMA ApprovedKeeps ==
    ASSUME NEW R, WellKept(R), IsOpen(R), Sound(R), Approved(R)
    PROVE  Keeps(R, PlanApproved(R), None)
  <1> SUFFICES ASSUME NEW T, T = PlanApproved(R) PROVE Keeps(R, T, None)
    OBVIOUS
  <1>1. /\ T.approved = R.approved + 1 /\ R.approved \in Nat
        /\ T.stage = R.stage /\ T.outcome = R.outcome /\ T.attempt = R.attempt
    BY PlanApprovedFields DEF WellKept, Run
  <1>2. Sound(T)
    BY <1>1 DEF Sound, Succeeded
  <1>3. Approved(T)
    <2>1. \A t \in Stages : GatesBefore(t) \in Nat
      BY GatesCounted, NoneApart
    <2> QED
      BY <1>1, <2>1 DEF Approved
  <1> QED
    BY <1>1, <1>2, <1>3 DEF Keeps

-----------------------------------------------------------------------------
(* Commands. *)

\* The stage after one that has an attempt and no gate.
LEMMA AdvanceFollows ==
    ASSUME NEW S, WellKept(S), IsOpen(S), Sound(S), Approved(S),
           NEW s \in Stages \ Gated, S.attempt[s] # None,
           NEW a \in Attempts, NEW canBegin \in BOOLEAN
    PROVE  Follows(S, Advance(S, s, a, canBegin).run)
  <1>1. s \in Nat /\ 1 <= s /\ s <= N /\ N \in Nat
    BY ControlAssumption DEF ControlAssumption, Stages
  <1>2. ASSUME NEW o \in {"succeeded", "failed", "cancelled"},
               Advance(S, s, a, canBegin) = Effect(RunSettled(S, o))
        PROVE  Follows(S, Advance(S, s, a, canBegin).run)
    <2>1. Advance(S, s, a, canBegin).run = RunSettled(S, o)
      BY <1>2 DEF Effect
    <2> QED
      BY <2>1, SettledFollows
  <1>3. CASE s = N
    <2>1. Advance(S, s, a, canBegin) = Effect(RunSettled(S, "succeeded"))
      BY <1>1, <1>3 DEF Advance
    <2> QED
      BY <1>2, <2>1
  <1>4. CASE s < N /\ S.stage[s + 1] = "running"
    <2>1. Advance(S, s, a, canBegin).run = S
      BY <1>1, <1>4 DEF Advance, Effect
    <2> QED
      BY <2>1 DEF Follows
  <1>5. CASE s < N /\ S.stage[s + 1] # "running" /\ canBegin
    <2>1. Advance(S, s, a, canBegin).run = TurnRequested(S, s + 1, a)
      BY <1>1, <1>5 DEF Advance, Begin
    <2>2. s + 1 \in Stages
      BY <1>1, <1>5 DEF Stages
    <2>3. S.attempt[s + 1] # None => S.outcome[S.attempt[s + 1]] # None
      BY <1>5, <2>2 DEF WellKept, Sound
    <2>4. GatesBefore(s + 1) <= S.approved
      <3>1. GatesBefore(s + 1) = GatesBefore(s)
        BY GatesCounted
      <3> QED
        BY <3>1 DEF Approved
    <2> QED
      BY <2>1, <2>2, <2>3, <2>4, BeginFollows
  <1>6. CASE s < N /\ S.stage[s + 1] # "running" /\ ~ canBegin
    <2>1. Advance(S, s, a, canBegin) = Effect(RunSettled(S, IF s > 1 THEN "succeeded" ELSE "failed"))
      BY <1>1, <1>6 DEF Advance
    <2> QED
      BY <1>2, <2>1
  <1> QED
    BY <1>1, <1>3, <1>4, <1>5, <1>6

\* shared_agent_record_execute of attempt b, which was begun for stage st: when
\* that stage has another attempt by now, the log has the outcome of b; when it
\* is gated, the log does not have it that b succeeded.  A record of a gated
\* stage ends the run or waits for the user.
LEMMA RecordKeeps ==
    ASSUME NEW R, WellKept(R), Sound(R), Approved(R), R.status # "absent",
           NEW b \in Attempts, NEW done \in BOOLEAN, NEW a \in Attempts, NEW canBegin \in BOOLEAN,
           ~ RecordRefused(R, b, done),
           NEW st \in Stages, \A s \in Stages : R.attempt[s] = b => s = st,
           R.attempt[st] # b => R.outcome[b] # None /\ R.outcome[b][1] = st,
           st \in Gated => ~ Succeeded(R, b)
    PROVE  LET e == Record(R, b, done, a, canBegin)
           IN  /\ Keeps(R, e.run, IF done THEN b ELSE None)
               /\ st \in Gated => ~ IsOpen(e.run) \/ e.run.status = "awaiting-approval"
  <1> SUFFICES ASSUME NEW T, T = Record(R, b, done, a, canBegin).run
               PROVE  /\ Keeps(R, T, IF done THEN b ELSE None)
                      /\ st \in Gated => ~ IsOpen(T) \/ T.status = "awaiting-approval"
    OBVIOUS
  <1> DEFINE s == StageOf(R, b)
             x == IF done THEN b ELSE None
  <1>0. /\ Keeps(R, R, x)
        /\ R \in Run
    BY KeepsSame DEF WellKept
  <1>1. CASE IsTerminal(R)
    <2>1. T = R
      BY <1>1 DEF Record, Effect
    <2> QED
      BY <1>0, <1>1, <2>1 DEF IsOpen
  <1>2. CASE ~ IsTerminal(R)
    <2>0. IsOpen(R)
      BY <1>2 DEF IsOpen
    <2>1. s # None /\ (R.stage[s] # "succeeded" => ~ Conflicts(R, s, b, Verdict(done)))
      BY <1>2 DEF RecordRefused
    <2>2. /\ s \in Stages
          /\ R.attempt[s] # None
          /\ \/ R.attempt[s] = b
             \/ R.stage[s] = "running" /\ \A t \in Stages : R.attempt[t] # b
      BY <2>1, StageOfFields
    <2>3. R.stage[s] # "succeeded" /\ R.outcome[b] # None => R.outcome[b] = <<s, Verdict(done)>>
      BY <2>1 DEF Conflicts
    <2>4. R.attempt[s] # b => R.outcome[b] = <<s, Verdict(done)>> /\ s = st
      BY <2>2, <2>3
    <2>5. s = st
      BY <2>2, <2>4
    <2>6. ASSUME R.outcome[b] = <<s, "succeeded">> PROVE Succeeded(R, b) /\ s \notin Gated
      <3>1. <<s, "succeeded">> # None
        <4>1. <<s, "succeeded">> \in OutcomeFact
          BY <2>2 DEF OutcomeFact
        <4> QED
          BY <4>1, ControlAssumption DEF ControlAssumption
      <3> QED
        BY <2>5, <2>6, <3>1 DEF Succeeded
    <2> HIDE DEF s
    <2>7. CASE R.stage[s] = "succeeded"
      <3>1. Succeeded(R, b)
        BY <2>0, <2>2, <2>7 DEF Sound
      <3>2. s \in Stages \ Gated
        BY <2>2, <2>5, <3>1
      <3>3. T = Advance(R, s, a, canBegin).run
        BY <1>2, <2>7 DEF Record, s
      <3>4. Follows(R, T)
        BY <2>0, <2>2, <3>2, <3>3, AdvanceFollows
      <3> QED
        BY <1>0, <2>5, <3>2, <3>4, KeepsThen
    <2>8. CASE R.stage[s] # "succeeded" /\ done
      <3> SUFFICES ASSUME NEW S, S = Judged(R, s, b, "succeeded")
                   PROVE  /\ Keeps(R, T, b)
                          /\ s \in Gated => T.status = "awaiting-approval"
        BY <2>5, <2>8
      <3>1. T = AfterSuccess(S, s, a, canBegin).run
        BY <1>2, <2>8 DEF Record, s
      <3>2. WellKept(S) /\ S.attempt = R.attempt /\ IsOpen(S)
        <4>1. WellKept(S) /\ S.attempt = R.attempt /\ S.status = R.status
          BY <2>2, JudgedKept
        <4> QED
          BY <2>0, <4>1 DEF IsOpen, IsTerminal
      <3>3. Keeps(R, S, b) /\ (s \in Gated => Succeeded(S, S.attempt[s]))
        <4>1. CASE R.attempt[s] = b
          <5>1. Keeps(R, S, b) /\ (R.outcome[b] = None => S.outcome[b] = <<s, "succeeded">>)
            BY <2>0, <2>2, <4>1, JudgedKeeps
          <5>2. S.outcome[b] # None
            BY <2>0, <2>2, <4>1, JudgedKeeps
          <5>3. s \in Gated => R.outcome[b] = None
            BY <2>3, <2>6, <2>8 DEF Verdict
          <5> QED
            BY <3>2, <4>1, <5>1, <5>2, <5>3 DEF Succeeded
        <4>2. CASE R.attempt[s] # b
          <5>1. R.outcome[b] = <<s, "succeeded">>
            BY <2>4, <2>8, <4>2 DEF Verdict
          <5>2. Succeeded(R, b) /\ s \notin Gated
            BY <2>6, <5>1
          <5>3. S = R
            BY <5>2 DEF Judged, Succeeded
          <5> QED
            BY <1>0, <2>8, <5>2, <5>3
        <4> QED
          BY <4>1, <4>2
      <3>4. Sound(S) /\ Approved(S)
        BY <3>3 DEF Keeps
      <3>5. CASE s \in Gated
        <4>1. T = PlanGate(S, s)
          BY <3>1, <3>5 DEF AfterSuccess, Effect
        <4>2. Follows(S, T) /\ T.status = "awaiting-approval"
          BY <2>2, <3>2, <3>3, <3>4, <3>5, <4>1, GateFollows
        <4> QED
          BY <3>2, <3>3, <4>2, KeepsThen
      <3>6. CASE s \notin Gated
        <4>1. T = Advance(S, s, a, canBegin).run
          BY <3>1, <3>6 DEF AfterSuccess
        <4>2. Follows(S, T)
          BY <2>2, <3>2, <3>4, <3>6, <4>1, AdvanceFollows
        <4> QED
          BY <3>2, <3>3, <3>6, <4>2, KeepsThen
      <3> QED
        BY <3>5, <3>6
    <2>9. CASE R.stage[s] # "succeeded" /\ ~ done
      <3> SUFFICES ASSUME NEW S, S = Judged(R, s, b, "failed")
                   PROVE  Keeps(R, T, None) /\ ~ IsOpen(T)
        BY <2>9
      <3>1. T = RunSettled(S, "failed")
        BY <1>2, <2>9 DEF Record, Effect, s
      <3>2. WellKept(S) /\ S.attempt = R.attempt
        BY <2>2, JudgedKept
      <3>3. Keeps(R, S, None)
        <4>1. CASE R.attempt[s] = b
          BY <2>0, <2>2, <4>1, JudgedKeeps
        <4>2. CASE R.attempt[s] # b
          <5>1. S = R
            BY <2>2, <2>5, <4>2 DEF Judged
          <5> QED
            BY <1>0, <2>9, <5>1
        <4> QED
          BY <4>1, <4>2
      <3>4. Approved(S)
        BY <3>3 DEF Keeps
      <3>5. Follows(S, T) /\ ~ IsOpen(T)
        BY <3>1, <3>2, <3>4, SettledFollows
      <3> QED
        BY <3>2, <3>3, <3>5, KeepsThen
    <2> QED
      BY <2>7, <2>8, <2>9
  <1> QED
    BY <1>1, <1>2

\* shared_agent_approve: the gates before the first stage that waits are one more
\* at most than those before the stage in front of it, which has an attempt.
LEMMA ApproveKeeps ==
    ASSUME NEW R, WellKept(R), IsOpen(R), Sound(R), Approved(R),
           NEW a \in Attempts, NEW canBegin \in BOOLEAN
    PROVE  Keeps(R, Approve(R, a, canBegin).run, None)
  <1> SUFFICES ASSUME NEW S, S = PlanApproved(R), NEW T, T = Approve(R, a, canBegin).run
               PROVE  Keeps(R, T, None)
    OBVIOUS
  <1>1. WellKept(S) /\ IsOpen(S)
    BY PlanApprovedKept
  <1>2. /\ S.attempt = R.attempt /\ S.stage = R.stage
        /\ S.approved = R.approved + 1 /\ R.approved \in Nat
    BY PlanApprovedFields DEF WellKept, Run
  <1>3. Keeps(R, S, None)
    BY ApprovedKeeps
  <1>4. Sound(S) /\ Approved(S)
    BY <1>3 DEF Keeps
  <1>5. CASE NextPending(R) = None
    <2>1. T = S
      BY <1>5 DEF Approve, Effect
    <2> QED
      BY <1>3, <2>1
  <1>6. CASE NextPending(R) # None /\ canBegin
    <2> SUFFICES ASSUME NEW s, s = NextPending(R) PROVE Keeps(R, T, None)
      OBVIOUS
    <2>1. /\ s \in Stages /\ R.stage[s] = "pending"
          /\ \A t \in Stages : t < s => R.stage[t] # "pending"
      BY <1>6, NextPendingFields DEF WellKept
    <2>2. T = TurnRequested(S, s, a)
      BY <1>6 DEF Approve, Begin
    <2>3. S.attempt[s] = None
      BY <1>2, <2>1 DEF WellKept
    <2>4. GatesBefore(s) <= S.approved
      <3>0. s \in Nat /\ 1 <= s /\ s <= N /\ N \in Nat
        BY <2>1, ControlAssumption DEF ControlAssumption, Stages
      <3>1. CASE s = 1
        BY <1>2, <3>1, GatesCounted
      <3>2. CASE s # 1
        <4> SUFFICES ASSUME NEW t, t = s - 1 PROVE GatesBefore(s) <= S.approved
          OBVIOUS
        <4>1. t \in Stages /\ t < s /\ s = t + 1 /\ t \in Nat
          BY <3>0, <3>2 DEF Stages
        <4>2. R.attempt[t] # None
          BY <2>1, <4>1 DEF WellKept
        <4>3. GatesBefore(t) <= R.approved
          BY <4>1, <4>2 DEF Approved
        <4>4. /\ GatesBefore(t) \in Nat /\ GatesBefore(s) \in Nat
              /\ GatesBefore(s) <= GatesBefore(t) + 1
          BY <3>0, <4>1, GatesCounted
        <4> QED
          BY <1>2, <4>3, <4>4
      <3> QED
        BY <3>1, <3>2
    <2>5. Follows(S, T)
      BY <1>1, <1>4, <2>1, <2>2, <2>3, <2>4, BeginFollows
    <2> QED
      BY <1>2, <1>3, <2>5, KeepsThen
  <1>7. CASE NextPending(R) # None /\ ~ canBegin
    <2>1. T = RunSettled(S, "failed")
      BY <1>7 DEF Approve, Effect
    <2>2. Follows(S, T)
      BY <1>1, <1>4, <2>1, SettledFollows
    <2> QED
      BY <1>2, <1>3, <2>2, KeepsThen
  <1> QED
    BY <1>5, <1>6, <1>7

\* shared_agent_retry_stage of a stage that has an attempt: it has an outcome
\* before another takes its place.
LEMMA RetryKeeps ==
    ASSUME NEW R, WellKept(R), IsOpen(R), Sound(R), Approved(R),
           NEW s \in Stages, R.attempt[s] # None, NEW a \in Attempts, NEW canBegin \in BOOLEAN
    PROVE  Keeps(R, RetryStage(R, s, a, canBegin).run, None)
  <1> SUFFICES ASSUME NEW S, S = Judged(R, s, R.attempt[s], "closed"),
                      NEW T, T = RetryStage(R, s, a, canBegin).run
               PROVE  Keeps(R, T, None)
    OBVIOUS
  <1>0. R.attempt[s] \in Attempts
    BY DEF WellKept, Run
  <1>1. WellKept(S) /\ S.attempt = R.attempt /\ S.status = R.status
    BY <1>0, JudgedKept
  <1>2. IsOpen(S)
    BY <1>1 DEF IsOpen, IsTerminal
  <1>3. Keeps(R, S, None) /\ S.outcome[R.attempt[s]] # None
    BY <1>0, JudgedKeeps
  <1>4. Sound(S) /\ Approved(S)
    BY <1>3 DEF Keeps
  <1>5. CASE canBegin
    <2>1. T = TurnRequested(S, s, a)
      BY <1>5 DEF RetryStage, Begin
    <2>2. GatesBefore(s) <= S.approved
      BY <1>1, <1>4 DEF Approved
    <2>3. Follows(S, T)
      BY <1>1, <1>2, <1>3, <1>4, <2>1, <2>2, BeginFollows
    <2> QED
      BY <1>1, <1>3, <2>3, KeepsThen
  <1>6. CASE ~ canBegin
    <2>1. T = S
      BY <1>6 DEF RetryStage, Effect
    <2> QED
      BY <1>3, <2>1
  <1> QED
    BY <1>5, <1>6

\* shared_agent_request_run
LEMMA RequestKeeps ==
    ASSUME NEW a \in Attempts
    PROVE  /\ Keeps(AbsentRun, Begin(Requested(a), 1, a).run, None)
           /\ Keeps(AbsentRun, Effect(RunSettled(Requested(a), "failed")).run, None)
           /\ Sound(AbsentRun) /\ Approved(AbsentRun)
  <1> SUFFICES ASSUME NEW S, S = Requested(a)
               PROVE  /\ Keeps(AbsentRun, TurnRequested(S, 1, a), None)
                      /\ Keeps(AbsentRun, RunSettled(S, "failed"), None)
                      /\ Sound(AbsentRun) /\ Approved(AbsentRun)
    BY DEF Begin, Effect
  <1>1. WellKept(S) /\ IsOpen(S)
    BY RequestedKept
  <1>2. /\ S.attempt = AbsentRun.attempt /\ S.outcome = AbsentRun.outcome
        /\ S.approved = 0
        /\ \A s \in Stages : S.stage[s] = "pending" /\ S.attempt[s] = None
    BY DEF Requested, AbsentRun
  <1>3. Sound(S) /\ Approved(S)
    BY <1>2 DEF Sound, Approved
  <1>4. Keeps(AbsentRun, S, None)
    BY <1>2, <1>3 DEF Keeps
  <1>5. Sound(AbsentRun) /\ Approved(AbsentRun)
    BY DEF AbsentRun, Sound, Approved, IsOpen
  <1>6. 1 \in Stages
    BY ControlAssumption DEF ControlAssumption, Stages
  <1>7. Follows(S, TurnRequested(S, 1, a))
    BY <1>1, <1>2, <1>3, <1>6, GatesCounted, BeginFollows
  <1>8. Follows(S, RunSettled(S, "failed"))
    BY <1>1, <1>3, SettledFollows
  <1> QED
    BY <1>2, <1>4, <1>5, <1>7, <1>8, KeepsThen

\* shared_agent_cancel and shared_agent_finalize_cancel
LEMMA CancelKeeps ==
    ASSUME NEW R, WellKept(R), Sound(R), Approved(R)
    PROVE  Keeps(R, Cancel(R), None) /\ Keeps(R, FinalizeCancel(R), None)
  <1>0. Keeps(R, R, None)
    BY KeepsSame
  <1>1. CASE IsTerminal(R)
    BY <1>0, <1>1 DEF Cancel, FinalizeCancel
  <1>2. CASE ~ IsTerminal(R)
    <2>1. ASSUME NEW T, T = [R EXCEPT !.cancelling = TRUE] PROVE Keeps(R, T, None)
      <3>1. /\ T.attempt = R.attempt /\ T.stage = R.stage /\ T.status = R.status
            /\ T.outcome = R.outcome /\ T.approved = R.approved
        BY <2>1 DEF WellKept, Run
      <3>2. Sound(T) /\ Approved(T)
        BY <3>1 DEF Sound, Approved, Succeeded, IsOpen, IsTerminal
      <3> QED
        BY <3>1, <3>2 DEF Keeps
    <2>2. Keeps(R, RunSettled(R, "cancelled"), None)
      <3>1. Follows(R, RunSettled(R, "cancelled"))
        BY SettledFollows
      <3> QED
        BY <1>0, <3>1, KeepsThen
    <2> QED
      BY <1>2, <2>1, <2>2 DEF Cancel, FinalizeCancel
  <1> QED
    BY <1>1, <1>2

-----------------------------------------------------------------------------
(* The invariant. *)

SucceededTurn(a) == Succeeded(run[attempt[a].run], a)

\* The log: what Sound and Approved say of each run; an attempt that its stage
\* has replaced has an outcome; one that succeeded was committed as completed;
\* and an outcome is for the stage that its attempt was begun for.
OutcomesInv ==
    /\ \A r \in Runs : Sound(run[r]) /\ Approved(run[r])
    /\ \A a \in Attempts : Used(a) =>
          LET R == run[attempt[a].run]
          IN  /\ R.attempt[attempt[a].stage] # a => R.outcome[a] # None
              /\ Succeeded(R, a) => attempt[a].phase = "completed"
    /\ \A r \in Runs, a \in Attempts : run[r].outcome[a] # None =>
          /\ Used(a) /\ attempt[a].run = r
          /\ run[r].outcome[a][1] = attempt[a].stage

DrivingPcs == {"driving", "awaiting", "recording"}

\* The flows: nobody waits for or records an attempt that has succeeded in the
\* log; the first attempt of a request is its own, so that no other flow records
\* it; and when the first stage is gated, a request goes no further than its
\* first attempt.
LeadsInv ==
    /\ \A f \in Flows : HasDispatched(f) => ~ SucceededTurn(flow[f].attempt)
    /\ \A f, g \in Flows : f # g /\ flow[f].lead # None =>
          /\ flow[f].lead # flow[g].lead
          /\ IsDriving(g) => flow[g].attempt # flow[f].lead
    /\ 1 \in Gated => \A f \in Flows : flow[f].lead # None =>
          flow[f].attempt = flow[f].lead /\ ~ SucceededTurn(flow[f].lead)

LogInv  == OutcomesInv /\ LeadsInv
GateInv == DriverInv /\ (faults["log"] = 0 => LogInv)

(***************************************************************************)
(* What a step does to it, when x is the attempt that it records as        *)
(* succeeded or None.  A flow goes on with its attempt, or gives it up; it *)
(* drives an attempt that is new or of a later stage; or it is a request   *)
(* that drives the first one.                                              *)
(***************************************************************************)
Quiet(f, w) ==
    \/ w.lead = None /\ w.pc \notin DrivingPcs
    \/ /\ w.lead = flow[f].lead /\ w.attempt = flow[f].attempt
       /\ w.pc \in DrivingPcs => IsDriving(f)
    \/ w.lead = flow[f].lead /\ w.attempt = w.lead /\ w.pc \notin DrivingPcs

Driven(f, w) ==
    /\ w.pc = "driving" /\ w.lead = flow[f].lead
    /\ w.lead # None => 1 \notin Gated
    /\ ~ Used(w.attempt) \/ attempt'[w.attempt].stage > 1

Led(w) ==
    /\ w.pc = "driving" /\ w.lead = w.attempt
    /\ ~ Used(w.lead) /\ attempt'[w.lead].phase = "begun"

Reports(f, w, x) ==
    /\ x = flow[f].attempt /\ flow[f].pc \in {"recording", "rerecording"}
    /\ attempt[x].phase = "completed"
    /\ w.pc \notin {"awaiting", "recording"}
    /\ w.lead # None => 1 \notin Gated

NewAreCurrent ==
    \A a \in Attempts : ~ Used(a) /\ attempt'[a].phase # "unused" =>
        run'[attempt'[a].run].attempt[attempt'[a].stage] = a

LogStep(x) == NewAreCurrent /\ \A r \in Runs : Keeps(run[r], run'[r], x)

GateStep(f, w, x) ==
    /\ LogStep(x)
    /\ x = None \/ Reports(f, w, x)
    /\ Quiet(f, w) \/ Driven(f, w) \/ Led(w)

\* The outcomes stay those of their attempts.
LEMMA OutcomesKept ==
    ASSUME BackendInv, OutcomesInv, BackendStep, NEW x, LogStep(x),
           x = None \/ attempt[x].phase = "completed"
    PROVE  /\ OutcomesInv'
           /\ \A a \in Attempts : Used(a) /\ SucceededTurn(a)' => SucceededTurn(a) \/ a = x
  <1>1. \A a \in Attempts : Used(a) =>
           /\ attempt'[a].phase # "unused"
           /\ attempt'[a].run = attempt[a].run /\ attempt'[a].stage = attempt[a].stage
           /\ attempt[a].phase = "completed" => attempt'[a].phase = "completed"
    BY DEF BackendStep, Grows, IsCommitted
  <1>2. \A a \in Attempts : Used(a) => attempt[a].run \in Runs /\ attempt[a].stage \in Stages
    BY DEF BackendInv
  <1>3. \A r \in Runs : Keeps(run[r], run'[r], x)
    BY DEF LogStep
  <1>4. \A r \in Runs, a \in Attempts : run[r].outcome[a] # None => run'[r].outcome[a] = run[r].outcome[a]
    BY <1>3 DEF Keeps
  <1>5. ASSUME NEW r \in Runs, NEW a \in Attempts, run'[r].outcome[a] # None,
               run'[r].outcome[a] # run[r].outcome[a]
        PROVE  /\ Used(a) /\ attempt[a].run = r
               /\ run'[r].outcome[a][1] = attempt[a].stage
               /\ Succeeded(run'[r], a) => a = x
    <2>1. PICK s \in Stages : run[r].attempt[s] = a /\ run'[r].outcome[a][1] = s
      BY <1>3, <1>5 DEF Keeps
    <2>2. Succeeded(run'[r], a) => a = x
      BY <1>3, <1>5 DEF Keeps
    <2>3. Used(a) /\ attempt[a].run = r /\ attempt[a].stage = s
      BY <2>1, NoneApart DEF BackendInv
    <2> QED
      BY <2>1, <2>2, <2>3
  <1>6. ASSUME NEW a \in Attempts, Used(a), Succeeded(run'[attempt[a].run], a)
        PROVE  SucceededTurn(a) \/ a = x
    <2>1. attempt[a].run \in Runs
      BY <1>2, <1>6
    <2>2. run'[attempt[a].run].outcome[a] # None
      BY <1>6 DEF Succeeded
    <2>3. CASE run'[attempt[a].run].outcome[a] = run[attempt[a].run].outcome[a]
      BY <1>6, <2>3 DEF SucceededTurn, Succeeded
    <2>4. CASE run'[attempt[a].run].outcome[a] # run[attempt[a].run].outcome[a]
      BY <1>5, <1>6, <2>1, <2>2, <2>4
    <2> QED
      BY <2>3, <2>4
  <1>7. \A a \in Attempts : Used(a) /\ SucceededTurn(a)' => SucceededTurn(a) \/ a = x
    BY <1>1, <1>6 DEF SucceededTurn, Succeeded
  <1>8. \A r \in Runs : Sound(run[r])' /\ Approved(run[r])'
    <2>1. \A r \in Runs : Sound(run'[r]) /\ Approved(run'[r])
      BY <1>3 DEF Keeps
    <2> QED
      BY <2>1 DEF Sound, Approved, Succeeded
  <1>9. ASSUME NEW a \in Attempts, attempt'[a].phase # "unused"
        PROVE  LET R == run'[attempt'[a].run]
               IN  /\ R.attempt[attempt'[a].stage] # a => R.outcome[a] # None
                   /\ Succeeded(R, a) => attempt'[a].phase = "completed"
    <2> SUFFICES ASSUME NEW q, q = attempt'[a].run, NEW t, t = attempt'[a].stage
                 PROVE  /\ run'[q].attempt[t] # a => run'[q].outcome[a] # None
                        /\ Succeeded(run'[q], a) => attempt'[a].phase = "completed"
      OBVIOUS
    <2>1. CASE Used(a)
      <3>1. q \in Runs /\ t \in Stages /\ q = attempt[a].run /\ t = attempt[a].stage
        BY <1>1, <1>2, <2>1
      <3>2. run[q].attempt[t] # a => run[q].outcome[a] # None
        BY <2>1, <3>1 DEF OutcomesInv
      <3>3. run[q].attempt[t] = a /\ run'[q].attempt[t] # a => run'[q].outcome[a] # None
        BY <1>3, <3>1, NoneApart DEF Keeps
      <3>4. run'[q].attempt[t] # a => run'[q].outcome[a] # None
        BY <1>4, <3>1, <3>2, <3>3
      <3>5. SucceededTurn(a) => attempt[a].phase = "completed"
        BY <2>1 DEF OutcomesInv, SucceededTurn
      <3>6. Succeeded(run'[q], a) => SucceededTurn(a) \/ a = x
        BY <1>6, <2>1, <3>1
      <3>7. a # None
        BY NoneApart
      <3> QED
        BY <1>1, <2>1, <3>4, <3>5, <3>6, <3>7
    <2>2. CASE ~ Used(a)
      <3>1. run'[q].attempt[t] = a
        BY <1>9, <2>2 DEF LogStep, NewAreCurrent
      <3>2. q \in Runs
        BY <1>9 DEF BackendStep, BackendInv, Used
      <3>3. run'[q].outcome[a] = None
        <4>1. run[q].outcome[a] = None
          BY <2>2, <3>2 DEF OutcomesInv
        <4> QED
          BY <1>5, <2>2, <3>2, <4>1
      <3> QED
        BY <3>1, <3>3 DEF Succeeded
    <2> QED
      BY <2>1, <2>2
  <1>10. ASSUME NEW r \in Runs, NEW a \in Attempts, run'[r].outcome[a] # None
         PROVE  /\ attempt'[a].phase # "unused" /\ attempt'[a].run = r
                /\ run'[r].outcome[a][1] = attempt'[a].stage
    <2>1. CASE run'[r].outcome[a] = run[r].outcome[a]
      BY <1>1, <1>10, <2>1 DEF OutcomesInv
    <2>2. CASE run'[r].outcome[a] # run[r].outcome[a]
      BY <1>1, <1>5, <1>10, <2>2
    <2> QED
      BY <2>1, <2>2
  <1>11. OutcomesInv'
    BY <1>8, <1>9, <1>10 DEF OutcomesInv, Used, Succeeded
  <1> QED
    BY <1>7, <1>11

\* What the leads and the turns of flows are.
LEMMA LeadFacts ==
    ASSUME TypeInv, NEW g \in Flows
    PROVE  /\ flow[g].lead # None =>
                 /\ flow[g].lead \in Attempts /\ Used(flow[g].lead)
                 /\ attempt[flow[g].lead].stage = 1
           /\ IsDriving(g) => flow[g].attempt \in Attempts /\ Used(flow[g].attempt)
           /\ HasDispatched(g) => IsDriving(g)
           /\ flow[g].pc = "rerecording" => flow[g].attempt = flow[g].lead
  <1>1. Fits(flow[g]) /\ flow[g] \in Flow
    BY FlowFacts
  <1>2. flow[g].lead # None => flow[g].lead \in Attempts
    BY <1>1 DEF Flow
  <1>3. flow[g].lead # None => Used(flow[g].lead) /\ attempt[flow[g].lead].stage = 1
    BY <1>1 DEF Fits
  <1>4. IsDriving(g) => flow[g].attempt \in Attempts /\ Used(flow[g].attempt)
    BY FlowFacts DEF IsDriving, ReportPcs
  <1>5. flow[g].pc = "rerecording" => flow[g].attempt = flow[g].lead
    BY <1>1 DEF Fits, RecoveryPcs
  <1> QED
    BY <1>2, <1>3, <1>4, <1>5 DEF HasDispatched, IsDriving

\* A step of a flow keeps what the log and the leads promise.
LEMMA LogKept ==
    ASSUME DriverInv, LogInv, NEW f \in Flows, NEW w, StepOf(f, w), NEW x, GateStep(f, w, x)
    PROVE  LogInv'
  <1>0. /\ flow'[f] = w
        /\ \A g \in Flows : g # f => flow'[g] = flow[g]
        /\ TypeInv /\ TypeInv' /\ BackendInv
    BY StepKeeps DEF DriverInv, TypeInv, FlowsInv, StepOf
  <1>1. x = None \/ Reports(f, w, x)
    BY DEF GateStep
  <1>2. /\ OutcomesInv'
        /\ \A a \in Attempts : Used(a) /\ SucceededTurn(a)' => SucceededTurn(a) \/ a = x
    BY <1>0, <1>1, OutcomesKept DEF GateStep, LogInv, Reports, StepOf
  <1>3. \A a \in Attempts : Used(a) =>
           /\ attempt'[a].phase # "unused" /\ attempt'[a].stage = attempt[a].stage
    BY DEF StepOf, BackendStep, Grows
  <1> DEFINE L(g) == flow[g].lead
             A(g) == flow[g].attempt
  <1>4. \A g \in Flows :
           /\ L(g) # None => L(g) \in Attempts /\ Used(L(g)) /\ attempt[L(g)].stage = 1
           /\ IsDriving(g) => A(g) \in Attempts /\ Used(A(g))
           /\ HasDispatched(g) => IsDriving(g)
           /\ flow[g].pc = "rerecording" => A(g) = L(g)
    BY <1>0, LeadFacts
  <1>5. /\ \A g \in Flows : HasDispatched(g) => ~ SucceededTurn(A(g))
        /\ \A g, h \in Flows : g # h /\ L(g) # None =>
              L(g) # L(h) /\ (IsDriving(h) => A(h) # L(g))
        /\ 1 \in Gated => \A g \in Flows : L(g) # None => A(g) = L(g) /\ ~ SucceededTurn(L(g))
    BY DEF LogInv, LeadsInv
  <1>6. ASSUME NEW g \in Flows, g # f, x # None
        PROVE  /\ HasDispatched(g) => A(g) # x
               /\ L(g) # None => L(g) # x
    <2>1. x = A(f) /\ flow[f].pc \in {"recording", "rerecording"}
      BY <1>1, <1>6 DEF Reports
    <2>2. CASE flow[f].pc = "recording"
      <3>1. HasDispatched(f) /\ IsDriving(f)
        BY <2>2 DEF HasDispatched, IsDriving
      <3> QED
        BY <1>5, <1>6, <2>1, <3>1 DEF DriverInv, TurnsInv
    <2>3. CASE flow[f].pc = "rerecording"
      BY <1>4, <1>5, <1>6, <2>1, <2>3
    <2> QED
      BY <2>1, <2>2, <2>3
  <1>w. /\ Quiet(f, w) \/ Driven(f, w) \/ Led(w)
        /\ w.pc \in DrivingPcs => w.attempt \in Attempts
        /\ w.lead # None => w.lead \in Attempts
    <2>1. Fits(w)' /\ w \in Flow
      BY DEF StepOf, Fits
    <2> QED
      BY <2>1 DEF GateStep, Fits, DrivingPcs, ReportPcs, Flow
  <1>7. ASSUME NEW g \in Flows, HasDispatched(g)' PROVE ~ SucceededTurn(flow[g].attempt)'
    <2> SUFFICES ASSUME NEW b, b = flow'[g].attempt PROVE ~ SucceededTurn(b)'
      BY DEF SucceededTurn, Succeeded
    <2>1. CASE g # f
      <3>1. b = A(g) /\ HasDispatched(g)
        BY <1>0, <1>7, <2>1 DEF HasDispatched
      <3>2. b # None
        BY <1>4, <3>1, NoneApart
      <3> QED
        BY <1>2, <1>4, <1>5, <1>6, <2>1, <3>1, <3>2
    <2>2. CASE g = f
      <3>1. w.pc \in {"awaiting", "recording"} /\ b = w.attempt
        BY <1>0, <1>7, <2>2 DEF HasDispatched
      <3>2. x = None
        BY <1>1, <3>1 DEF Reports
      <3>3. b \in Attempts /\ b # None
        BY <1>w, <3>1, NoneApart DEF DrivingPcs
      <3>4. CASE HasDispatched(f) /\ b = A(f)
        BY <1>2, <1>4, <1>5, <3>2, <3>3, <3>4
      <3>5. CASE attempt[b].phase = "begun"
        <4>1. Used(b)
          BY <3>5 DEF Used
        <4>2. ~ SucceededTurn(b)
          BY <3>3, <3>5, <4>1 DEF LogInv, OutcomesInv, SucceededTurn
        <4> QED
          BY <1>2, <3>2, <3>3, <4>1, <4>2
      <3> QED
        BY <3>1, <3>4, <3>5 DEF StepOf, KeepsTurn
    <2> QED
      BY <2>1, <2>2
  <1>8. ASSUME NEW g \in Flows, g # f, w.lead # None
        PROVE  w.lead # L(g) /\ (IsDriving(g) => A(g) # w.lead)
    <2>1. CASE w.lead = L(f)
      BY <1>5, <1>8, <2>1
    <2>2. CASE ~ Used(w.lead)
      BY <1>4, <1>8, <2>2
    <2> QED
      BY <1>8, <1>w, <2>1, <2>2 DEF Quiet, Driven, Led
  <1>9. ASSUME NEW g \in Flows, g # f, L(g) # None
        PROVE  w.pc \in DrivingPcs => w.attempt # L(g)
    <2> SUFFICES ASSUME w.pc \in DrivingPcs PROVE w.attempt # L(g)
      OBVIOUS
    <2>1. L(g) \in Attempts /\ Used(L(g)) /\ attempt'[L(g)].stage = 1
      BY <1>3, <1>4, <1>9
    <2>2. CASE Quiet(f, w)
      BY <1>5, <1>9, <2>2 DEF Quiet
    <2>3. CASE ~ Used(w.attempt) \/ attempt'[w.attempt].stage > 1
      BY <2>1, <2>3
    <2> QED
      BY <1>w, <2>2, <2>3 DEF Driven, Led
  <1>10. ASSUME NEW g \in Flows, NEW h \in Flows, g # h, flow'[g].lead # None
         PROVE  /\ flow'[g].lead # flow'[h].lead
                /\ IsDriving(h)' => flow'[h].attempt # flow'[g].lead
    <2>1. CASE g = f
      BY <1>0, <1>8, <1>10, <2>1 DEF IsDriving
    <2>2. CASE h = f
      <3>1. flow'[g] = flow[g] /\ flow'[h] = w
        BY <1>0, <1>10, <2>2
      <3>2. w.lead # L(g)
        BY <1>8, <1>10, <2>2, <3>1
      <3>3. w.pc \in DrivingPcs => w.attempt # L(g)
        BY <1>9, <1>10, <2>2, <3>1
      <3> QED
        BY <3>1, <3>2, <3>3 DEF IsDriving, DrivingPcs
    <2>3. CASE g # f /\ h # f
      BY <1>0, <1>5, <1>10, <2>3 DEF IsDriving
    <2> QED
      BY <2>1, <2>2, <2>3
  <1>11. ASSUME 1 \in Gated, NEW g \in Flows, flow'[g].lead # None
         PROVE  flow'[g].attempt = flow'[g].lead /\ ~ SucceededTurn(flow[g].lead)'
    <2> SUFFICES ASSUME NEW b, b = flow'[g].lead
                 PROVE  flow'[g].attempt = b /\ ~ SucceededTurn(b)'
      BY DEF SucceededTurn, Succeeded
    <2>1. CASE g # f
      <3>1. b = L(g) /\ flow'[g].attempt = A(g) /\ b # None
        BY <1>0, <1>11, <2>1
      <3> QED
        BY <1>2, <1>4, <1>5, <1>6, <1>11, <2>1, <3>1
    <2>2. CASE g = f
      <3>1. b = w.lead /\ flow'[g].attempt = w.attempt /\ b # None /\ b \in Attempts
        BY <1>0, <1>11, <1>w, <2>2
      <3>2. x = None
        BY <1>1, <1>11, <3>1 DEF Reports
      <3>3. CASE Quiet(f, w)
        <4>1. b = L(f) /\ w.attempt \in {A(f), L(f)}
          BY <3>1, <3>3 DEF Quiet
        <4>2. A(f) = L(f) /\ ~ SucceededTurn(b) /\ Used(b)
          BY <1>4, <1>5, <1>11, <3>1, <4>1
        <4> QED
          BY <1>2, <3>1, <3>2, <4>1, <4>2
      <3>4. CASE Led(w)
        <4>1. w.attempt = b /\ attempt'[b].phase = "begun"
          BY <3>1, <3>4 DEF Led
        <4>2. ~ SucceededTurn(b)'
          BY <1>2, <3>1, <4>1 DEF OutcomesInv, SucceededTurn, Succeeded, Used
        <4> QED
          BY <3>1, <4>1, <4>2
      <3> QED
        BY <1>11, <1>w, <3>1, <3>3, <3>4 DEF Driven
    <2> QED
      BY <2>1, <2>2
  <1>12. LeadsInv'
    BY <1>7, <1>10, <1>11 DEF LeadsInv
  <1> QED
    BY <1>2, <1>12 DEF LogInv

-----------------------------------------------------------------------------
(* Steps that record and begin nothing. *)

\* The backend stays as it is, but for the turn of an attempt.
LEMMA CalmStep ==
    ASSUME BackendInv, OutcomesInv, UNCHANGED run,
           \/ UNCHANGED attempt
           \/ \E b, p : attempt[b].phase # "unused" /\ attempt' = Phase(b, p)
    PROVE  LogStep(None)
  <1>1. \A r \in Runs : Keeps(run[r], run'[r], None)
    BY KeepsSame DEF OutcomesInv
  <1>2. NewAreCurrent
    <2>1. ASSUME NEW b, NEW p, attempt[b].phase # "unused", attempt' = Phase(b, p),
                 NEW a \in Attempts, ~ Used(a)
          PROVE  attempt'[a].phase = "unused"
      BY <2>1 DEF Phase, Used, BackendInv
    <2> QED
      BY <2>1 DEF NewAreCurrent, Used
  <1> QED
    BY <1>1, <1>2 DEF LogStep

\* The record a flow is given is the one it then has.
LEMMA FlowSet ==
    ASSUME TypeInv, NEW f \in Flows, NEW w, flow' = [flow EXCEPT ![f] = w]
    PROVE  flow'[f] = w
  BY DEF TypeInv, FlowsInv

\* A flow that ends, starts, or goes to another place with what it has.
LEMMA EndsQuiet ==
    ASSUME TypeInv, NEW f \in Flows, Ends(f)
    PROVE  Quiet(f, flow'[f])
  <1>1. flow'[f] = Idle
    BY FlowSet DEF Ends, Leaves
  <1> QED
    BY <1>1, IdleFits DEF Quiet, DrivingPcs

\* Moving to another pc is quiet.
LEMMA PcQuiet ==
    ASSUME TypeInv, NEW f \in Flows, NEW p, Goes(f, [flow[f] EXCEPT !.pc = p]),
           p \in DrivingPcs => IsDriving(f)
    PROVE  Quiet(f, flow'[f])
  <1> SUFFICES ASSUME NEW w, w = [flow[f] EXCEPT !.pc = p] PROVE Quiet(f, flow'[f])
    OBVIOUS
  <1>1. flow'[f] = w
    BY FlowSet DEF Goes
  <1>2. w.pc = p /\ w.lead = flow[f].lead /\ w.attempt = flow[f].attempt
    BY FlowFacts DEF Flow
  <1> QED
    BY <1>1, <1>2 DEF Quiet

\* Turning to the stop of the run is quiet.
LEMMA StoppingQuiet ==
    ASSUME TypeInv, NEW f \in Flows, Goes(f, Stopping(flow[f])) \/ Leaves(f, Stopping(flow[f]))
    PROVE  Quiet(f, flow'[f])
  <1> SUFFICES ASSUME NEW w, w = Stopping(flow[f]) PROVE Quiet(f, flow'[f])
    OBVIOUS
  <1>1. flow'[f] = w
    BY FlowSet DEF Goes, Leaves
  <1>2. w.pc = "cancelling" /\ w.lead = None
    BY DEF Stopping, Idle
  <1> QED
    BY <1>1, <1>2 DEF Quiet, DrivingPcs

\* An error in a flow is quiet: it does not give the flow an outcome to record.
LEMMA ThrowsQuiet ==
    ASSUME TypeInv, NEW f \in Flows, Throws(f) \/ ThrowsInDrive(f)
    PROVE  Quiet(f, flow'[f])
  <1>1. CASE Goes(f, [flow[f] EXCEPT !.pc = "recovering", !.attempt = flow[f].lead])
    <2> SUFFICES ASSUME NEW w, w = [flow[f] EXCEPT !.pc = "recovering", !.attempt = flow[f].lead]
                 PROVE  Quiet(f, flow'[f])
      OBVIOUS
    <2>1. flow'[f] = w
      BY <1>1, FlowSet DEF Goes
    <2>2. w.pc = "recovering" /\ w.lead = flow[f].lead /\ w.attempt = w.lead
      BY FlowFacts DEF Flow
    <2> QED
      BY <2>1, <2>2 DEF Quiet, DrivingPcs
  <1>2. CASE Leaves(f, Stopping(flow[f]))
    BY <1>2, StoppingQuiet
  <1>3. CASE Ends(f)
    BY <1>3, EndsQuiet
  <1> QED
    BY <1>1, <1>2, <1>3 DEF Throws, ThrowsInDrive

\* The steps of a stop are quiet.
LEMMA StopQuiet ==
    ASSUME TypeInv, NEW f \in Flows,
           \/ Stopped(f)
           \/ \E ts : Goes(f, AfterTargets(f, ts)) /\ flow[f].pc \in {"cancelling", "interrupting"}
    PROVE  Quiet(f, flow'[f])
  <1>1. CASE Ends(f)
    BY <1>1, EndsQuiet
  <1>2. CASE Goes(f, [Idle EXCEPT !.pc = "requesting", !.kind = "request"])
    <2>1. flow'[f] = [Idle EXCEPT !.pc = "requesting", !.kind = "request"]
      BY <1>2, FlowSet DEF Goes
    <2> QED
      BY <2>1 DEF Quiet, Idle, DrivingPcs
  <1>3. ASSUME NEW ts, Goes(f, AfterTargets(f, ts)) PROVE Quiet(f, flow'[f])
    <2> SUFFICES ASSUME NEW w, w = AfterTargets(f, ts) PROVE Quiet(f, flow'[f])
      OBVIOUS
    <2>1. flow'[f] = w
      BY <1>3, FlowSet DEF Goes
    <2>2. w.lead = flow[f].lead /\ w.attempt = flow[f].attempt /\ w.pc \notin DrivingPcs
      BY FlowFacts DEF AfterTargets, Flow, DrivingPcs
    <2> QED
      BY <2>1, <2>2 DEF Quiet
  <1> QED
    BY <1>1, <1>2, <1>3 DEF Stopped

\* What the user starts is quiet and leaves the back end alone.
LEMMA UserQuiet ==
    ASSUME TypeInv, NEW f \in Flows, User(f)
    PROVE  Quiet(f, flow'[f]) /\ UNCHANGED backend
  <1>1. ASSUME NEW w, Starts(f, w), w.lead = None, w.pc \notin DrivingPcs
        PROVE  Quiet(f, flow'[f]) /\ UNCHANGED backend
    <2>1. flow'[f] = w
      BY <1>1, FlowSet DEF Starts
    <2> QED
      BY <1>1, <2>1 DEF Quiet, Starts
  <1>2. ASSUME NEW r, NEW again, Stop(f, r, again)
        PROVE  Quiet(f, flow'[f]) /\ UNCHANGED backend
    <2> SUFFICES ASSUME NEW w, w = [Idle EXCEPT !.pc = "cancelling", !.kind = "stop", !.run = r,
                                                !.again = again]
                 PROVE  Quiet(f, flow'[f]) /\ UNCHANGED backend
      OBVIOUS
    <2>1. w.lead = None /\ w.pc = "cancelling"
      BY DEF Idle
    <2> QED
      BY <1>1, <1>2, <2>1 DEF Stop, DrivingPcs
  <1>3. CASE UserRequests(f)
    <2> SUFFICES ASSUME NEW w, w = [Idle EXCEPT !.pc = "requesting", !.kind = "request"]
                 PROVE  Quiet(f, flow'[f]) /\ UNCHANGED backend
      OBVIOUS
    <2>1. w.lead = None /\ w.pc = "requesting"
      BY DEF Idle
    <2> QED
      BY <1>1, <1>3, <2>1 DEF UserRequests, DrivingPcs
  <1>4. ASSUME NEW r \in Runs, UserApproves(f, r)
        PROVE  Quiet(f, flow'[f]) /\ UNCHANGED backend
    <2> SUFFICES ASSUME NEW w, w = [Idle EXCEPT !.pc = "approving", !.kind = "approve", !.run = r,
                                                !.seen = run[r].revision]
                 PROVE  Quiet(f, flow'[f]) /\ UNCHANGED backend
      OBVIOUS
    <2>1. w.lead = None /\ w.pc = "approving"
      BY DEF Idle
    <2> QED
      BY <1>1, <1>4, <2>1 DEF UserApproves, DrivingPcs
  <1>5. ASSUME NEW r \in Runs, NEW s \in Stages, UserRetries(f, r, s)
        PROVE  Quiet(f, flow'[f]) /\ UNCHANGED backend
    <2> SUFFICES ASSUME NEW w, w = [Idle EXCEPT !.pc = "closing", !.kind = "retry", !.run = r,
                                                !.stage = s, !.attempt = run[r].attempt[s],
                                                !.gen = chainGen[r] + 1]
                 PROVE  Quiet(f, flow'[f]) /\ UNCHANGED backend
      OBVIOUS
    <2>1. w.lead = None /\ w.pc = "closing"
      BY DEF Idle
    <2> QED
      BY <1>1, <1>5, <2>1 DEF UserRetries, DrivingPcs
  <1> QED
    BY <1>2, <1>3, <1>4, <1>5 DEF User, UserStops, UserRejects, UserRetriesRun

\* Every action that records and begins nothing, but the two of a stop that
\* change the run.
CalmActions(f) ==
    \/ Dispatches(f) \/ DispatchFails(f) \/ Awaits(f) \/ AwaitFails(f)
    \/ Recovers(f) \/ Reawaits(f) \/ RecoveryFails(f) \/ Closes(f)
    \/ RequestRefused(f) \/ ApprovalRefused(f) \/ RetryRefused(f)
    \/ CancelFails(f) \/ StopFails(f) \/ (\E a \in Attempts : InterruptsOne(f, a))
    \/ User(f)

\* Actions that record nothing keep the gates.
LEMMA CalmGate ==
    ASSUME TypeInv, OutcomesInv, NEW f \in Flows, CalmActions(f)
    PROVE  GateStep(f, flow'[f], None)
  <1>1. LogStep(None)
    <2>1. ASSUME NEW a, attempt' = Interrupted(a)
          PROVE  \/ UNCHANGED attempt
                 \/ \E b, p : attempt[b].phase # "unused" /\ attempt' = Phase(b, p)
      BY <2>1 DEF Interrupted
    <2>2. UNCHANGED run
      BY UserQuiet
         DEF CalmActions, Dispatches, DispatchFails, Awaits, AwaitFails, Recovers, Reawaits,
             RecoveryFails, Closes, RequestRefused, ApprovalRefused, RetryRefused, CancelFails,
             StopFails, InterruptsOne, backend
    <2>3. \/ UNCHANGED attempt
          \/ \E b, p : attempt[b].phase # "unused" /\ attempt' = Phase(b, p)
      <3>1. CASE Dispatches(f) \/ DispatchFails(f) \/ Recovers(f)
        BY <3>1 DEF Dispatches, DispatchFails, Recovers
      <3>2. CASE Closes(f) \/ \E a \in Attempts : InterruptsOne(f, a)
        BY <2>1, <3>2 DEF Closes, InterruptsOne
      <3>3. CASE User(f)
        BY <3>3, UserQuiet DEF backend
      <3>4. CASE UNCHANGED backend
        BY <3>4 DEF backend
      <3> QED
        BY <3>1, <3>2, <3>3, <3>4
           DEF CalmActions, Awaits, AwaitFails, Reawaits, RecoveryFails, RequestRefused,
               ApprovalRefused, RetryRefused, CancelFails, StopFails
    <2> QED
      BY <2>2, <2>3, CalmStep DEF TypeInv
  <1>2. Quiet(f, flow'[f])
    <2>1. CASE Dispatches(f) \/ DispatchFails(f) \/ Awaits(f) \/ AwaitFails(f)
      <3>1. CASE Goes(f, [flow[f] EXCEPT !.pc = "awaiting"]) \/ Goes(f, [flow[f] EXCEPT !.pc = "recording"])
        <4>1. IsDriving(f)
          BY <2>1 DEF Dispatches, DispatchFails, Awaits, AwaitFails, IsDriving
        <4> QED
          BY <3>1, <4>1, PcQuiet
      <3> QED
        BY <2>1, <3>1, ThrowsQuiet, EndsQuiet DEF Dispatches, DispatchFails, Awaits, AwaitFails
    <2>2. CASE Recovers(f) \/ Reawaits(f) \/ RecoveryFails(f) \/ Closes(f)
      <3>1. ASSUME NEW p \in {"reawaiting", "rerecording", "retrying"},
                   Goes(f, [flow[f] EXCEPT !.pc = p])
            PROVE  Quiet(f, flow'[f])
        BY <3>1, PcQuiet DEF DrivingPcs
      <3> QED
        BY <2>2, <3>1, StoppingQuiet DEF Recovers, Reawaits, RecoveryFails, Closes
    <2>3. CASE RequestRefused(f) \/ ApprovalRefused(f) \/ RetryRefused(f)
      BY <2>3, EndsQuiet DEF RequestRefused, ApprovalRefused, RetryRefused
    <2>4. CASE CancelFails(f) \/ StopFails(f) \/ \E a \in Attempts : InterruptsOne(f, a)
      BY <2>4, StopQuiet DEF CancelFails, StopFails, InterruptsOne
    <2> QED
      BY <2>1, <2>2, <2>3, <2>4, UserQuiet DEF CalmActions
  <1> QED
    BY <1>1, <1>2 DEF GateStep

-----------------------------------------------------------------------------
(* Steps that change a run. *)

\* A command that begins nothing.
LEMMA RunStep ==
    ASSUME BackendInv, OutcomesInv, NEW r \in Runs, NEW T, Keeps(run[r], T, None),
           run' = [run EXCEPT ![r] = T], UNCHANGED attempt
    PROVE  LogStep(None)
  <1>1. run'[r] = T /\ \A q \in Runs \ {r} : run'[q] = run[q]
    BY DEF BackendInv
  <1>2. \A q \in Runs : Keeps(run[q], run'[q], None)
    BY <1>1, KeepsSame DEF OutcomesInv
  <1>3. NewAreCurrent
    BY DEF NewAreCurrent, Used
  <1> QED
    BY <1>2, <1>3 DEF LogStep

\* A command that may begin a stage: its attempt is that of the stage.
LEMMA BeginStep ==
    ASSUME BackendInv, OutcomesInv, NEW r \in Runs, NEW a \in Attempts, NEW e, NEW x,
           IsEffect(run[r], e, a), Commit(r, e, a), Keeps(run[r], e.run, x)
    PROVE  LogStep(x)
  <1>1. run'[r] = e.run /\ \A q \in Runs \ {r} : run'[q] = run[q]
    BY DEF BackendInv, Commit
  <1>2. \A q \in Runs : Keeps(run[q], run'[q], x)
    BY <1>1, KeepsSame DEF OutcomesInv
  <1>3. NewAreCurrent
    <2>1. CASE e.begun = None
      BY <2>1 DEF NewAreCurrent, Commit, Used
    <2>2. CASE e.begun # None
      <3>1. attempt'[a].run = r /\ attempt'[a].stage = e.begun
        BY <2>2 DEF Commit, BackendInv
      <3>2. \A b \in Attempts : b # a => attempt'[b] = attempt[b]
        BY <2>2 DEF Commit, BackendInv
      <3>3. run'[r].attempt[e.begun] = a
        BY <1>1, <2>2 DEF IsEffect
      <3> QED
        BY <3>1, <3>2, <3>3 DEF NewAreCurrent, Used
    <2> QED
      BY <2>1, <2>2
  <1> QED
    BY <1>2, <1>3 DEF LogStep

\* Cancel requests and settlements keep the gates.
LEMMA CancelGate ==
    ASSUME TypeInv, OutcomesInv, NEW f \in Flows, Cancels(f) \/ Finalizes(f)
    PROVE  GateStep(f, flow'[f], None)
  <1> DEFINE r == flow[f].run
  <1>1. r \in Runs /\ WellKept(run[r])
    BY FlowFacts DEF Cancels, Finalizes
  <1>2. Keeps(run[r], Cancel(run[r]), None) /\ Keeps(run[r], FinalizeCancel(run[r]), None)
    BY <1>1, CancelKeeps DEF OutcomesInv
  <1>3. LogStep(None)
    BY <1>1, <1>2, RunStep DEF Cancels, Finalizes, TypeInv
  <1>4. Quiet(f, flow'[f])
    BY StopQuiet DEF Cancels, Finalizes
  <1> QED
    BY <1>3, <1>4 DEF GateStep

\* What the log knows of an attempt that is recorded.
LEMMA ReportFacts ==
    ASSUME TypeInv, LogInv, NEW f \in Flows, flow[f].pc \in {"recording", "rerecording"},
           NEW r, r = flow[f].run, NEW b, b = flow[f].attempt, NEW st, st = attempt[b].stage
    PROVE  /\ r \in Runs /\ b \in Attempts /\ st \in Stages
           /\ WellKept(run[r]) /\ run[r].status # "absent"
           /\ Sound(run[r]) /\ Approved(run[r])
           /\ \A s \in Stages : run[r].attempt[s] = b => s = st
           /\ run[r].attempt[st] # b => run[r].outcome[b] # None /\ run[r].outcome[b][1] = st
           /\ st \in Gated => ~ Succeeded(run[r], b)
           /\ 1 \in Gated /\ flow[f].lead # None => st = 1
  <1>1. /\ r \in Runs /\ b \in Attempts /\ Used(b) /\ attempt[b].run = r
        /\ WellKept(run[r]) /\ run[r].status # "absent"
    BY FlowFacts DEF ReportPcs, RecoveryPcs
  <1>2. st \in Stages
    BY <1>1 DEF TypeInv, BackendInv
  <1>3. \A s \in Stages : run[r].attempt[s] = b => s = st
    BY <1>1, NoneApart DEF TypeInv, BackendInv
  <1>4. run[r].attempt[st] # b => run[r].outcome[b] # None
    BY <1>1 DEF LogInv, OutcomesInv
  <1>5. run[r].outcome[b] # None => run[r].outcome[b][1] = st
    BY <1>1 DEF LogInv, OutcomesInv
  <1>6. Sound(run[r]) /\ Approved(run[r])
    BY <1>1 DEF LogInv, OutcomesInv
  <1>7. flow[f].pc = "rerecording" => b = flow[f].lead /\ st = 1
    <2> SUFFICES ASSUME flow[f].pc = "rerecording" PROVE b = flow[f].lead /\ st = 1
      OBVIOUS
    <2>1. b = flow[f].lead /\ b # None
      BY <1>1, LeadFacts, NoneApart
    <2> QED
      BY <2>1, LeadFacts
  <1>8. st \in Gated => ~ Succeeded(run[r], b)
    <2>1. CASE flow[f].pc = "recording"
      BY <1>1, <2>1 DEF LogInv, LeadsInv, HasDispatched, SucceededTurn
    <2>2. CASE flow[f].pc = "rerecording"
      <3>1. b = flow[f].lead /\ st = 1 /\ b # None
        BY <1>1, <1>7, <2>2, NoneApart
      <3> QED
        BY <1>1, <3>1 DEF LogInv, LeadsInv, SucceededTurn
    <2> QED
      BY <2>1, <2>2
  <1>9. 1 \in Gated /\ flow[f].lead # None => st = 1
    BY LeadFacts DEF LogInv, LeadsInv
  <1> QED
    BY <1>1, <1>2, <1>3, <1>4, <1>5, <1>6, <1>8, <1>9

\* The chain records its attempt.
LEMMA RecordsGate ==
    ASSUME TypeInv, LogInv, NEW f \in Flows, NEW a \in Attempts, NEW canBegin \in BOOLEAN,
           Records(f, a, canBegin)
    PROVE  \E x : GateStep(f, flow'[f], x)
  <1>0. flow[f].pc = "recording" /\ IsFresh(a)
    BY DEF Records
  <1>1. CASE Refused(f)
    <2>1. LogStep(None)
      BY <1>1, CalmStep DEF Records, backend, LogInv, TypeInv
    <2>2. Quiet(f, flow'[f])
      BY <1>1, ThrowsQuiet DEF Records
    <2> QED
      BY <2>1, <2>2 DEF GateStep
  <1>2. CASE ~ Refused(f)
    <2> SUFFICES ASSUME NEW e, e = Recorded(f, a, canBegin),
                        NEW r, r = flow[f].run, NEW b, b = flow[f].attempt,
                        NEW st, st = attempt[b].stage,
                        NEW x, x = IF IsDone(f) THEN b ELSE None
                 PROVE  GateStep(f, flow'[f], x)
      OBVIOUS
    <2>1. Commit(r, e, a) /\ Continues(f, e)
      BY <1>2 DEF Records
    <2>2. /\ r \in Runs /\ b \in Attempts /\ st \in Stages
          /\ WellKept(run[r]) /\ run[r].status # "absent"
          /\ Sound(run[r]) /\ Approved(run[r])
          /\ \A s \in Stages : run[r].attempt[s] = b => s = st
          /\ run[r].attempt[st] # b => run[r].outcome[b] # None /\ run[r].outcome[b][1] = st
          /\ st \in Gated => ~ Succeeded(run[r], b)
          /\ 1 \in Gated /\ flow[f].lead # None => st = 1
      BY <1>0, ReportFacts
    <2>3. IsDone(f) \in BOOLEAN /\ ~ RecordRefused(run[r], b, IsDone(f))
          /\ e = Record(run[r], b, IsDone(f), a, canBegin)
      BY <1>2 DEF IsDone, Refused, Recorded
    <2>4. IsEffect(run[r], e, a)
      BY <2>2, <2>3, RecordEffect
    <2>5. /\ Keeps(run[r], e.run, x)
          /\ st \in Gated => ~ IsOpen(e.run) \/ e.run.status = "awaiting-approval"
      BY <2>2, <2>3, RecordKeeps, SMTT(30)
    <2>6. LogStep(x)
      BY <2>1, <2>2, <2>4, <2>5, BeginStep DEF LogInv, TypeInv
    <2>7. e.next # None => e.next = a \/ attempt'[e.next].stage > 1
      BY <1>0, <2>1, <2>2, <2>4, CommitStep DEF TypeInv
    <2>8. x # None => attempt[x].phase = "completed" /\ x = flow[f].attempt
      BY DEF IsDone
    <2>9. CASE Ends(f)
      <3>1. flow'[f] = Idle
        BY <2>9, FlowSet DEF Ends, Leaves
      <3>2. x = None \/ Reports(f, flow'[f], x)
        BY <1>0, <2>8, <3>1, IdleFits DEF Reports
      <3> QED
        BY <2>6, <2>9, <3>2, EndsQuiet DEF GateStep
    <2>10. CASE /\ IsOpen(e.run) /\ e.run.status # "awaiting-approval" /\ e.next # None
                /\ Goes(f, [flow[f] EXCEPT !.pc = "driving", !.attempt = e.next])
      <3> SUFFICES ASSUME NEW w, w = [flow[f] EXCEPT !.pc = "driving", !.attempt = e.next]
                   PROVE  GateStep(f, flow'[f], x)
        OBVIOUS
      <3>1. flow'[f] = w
        BY <2>10, FlowSet DEF Goes
      <3>2. w.pc = "driving" /\ w.lead = flow[f].lead /\ w.attempt = e.next
        BY FlowFacts DEF Flow
      <3>3. w.lead # None => 1 \notin Gated
        BY <2>2, <2>5, <2>10, <3>2
      <3>4. ~ Used(a)
        BY <1>0 DEF IsFresh, Used
      <3>5. Driven(f, w)
        BY <2>7, <2>10, <3>2, <3>3, <3>4 DEF Driven
      <3>6. x = None \/ Reports(f, w, x)
        BY <1>0, <2>8, <3>2, <3>3 DEF Reports
      <3> QED
        BY <2>6, <3>1, <3>5, <3>6 DEF GateStep
    <2> QED
      BY <2>1, <2>9, <2>10 DEF Continues
  <1> QED
    BY <1>1, <1>2

\* The first attempt is recorded again.
LEMMA RerecordsGate ==
    ASSUME TypeInv, LogInv, NEW f \in Flows, NEW a \in Attempts, NEW canBegin \in BOOLEAN,
           Rerecords(f, a, canBegin)
    PROVE  \E x : GateStep(f, flow'[f], x)
  <1>0. flow[f].pc = "rerecording" /\ IsFresh(a)
    BY DEF Rerecords
  <1>1. CASE Refused(f)
    <2>1. LogStep(None)
      BY <1>1, CalmStep DEF Rerecords, backend, LogInv, TypeInv
    <2>2. Quiet(f, flow'[f])
      BY <1>1, StoppingQuiet DEF Rerecords
    <2> QED
      BY <2>1, <2>2 DEF GateStep
  <1>2. CASE ~ Refused(f)
    <2> SUFFICES ASSUME NEW e, e = Recorded(f, a, canBegin),
                        NEW r, r = flow[f].run, NEW b, b = flow[f].attempt,
                        NEW st, st = attempt[b].stage,
                        NEW x, x = IF IsDone(f) THEN b ELSE None
                 PROVE  GateStep(f, flow'[f], x)
      OBVIOUS
    <2>1. Commit(r, e, a) /\ Ends(f)
      BY <1>2 DEF Rerecords
    <2>2. /\ r \in Runs /\ b \in Attempts /\ st \in Stages
          /\ WellKept(run[r]) /\ run[r].status # "absent"
          /\ Sound(run[r]) /\ Approved(run[r])
          /\ \A s \in Stages : run[r].attempt[s] = b => s = st
          /\ run[r].attempt[st] # b => run[r].outcome[b] # None /\ run[r].outcome[b][1] = st
          /\ st \in Gated => ~ Succeeded(run[r], b)
      BY <1>0, ReportFacts
    <2>3. IsDone(f) \in BOOLEAN /\ ~ RecordRefused(run[r], b, IsDone(f))
          /\ e = Record(run[r], b, IsDone(f), a, canBegin)
      BY <1>2 DEF IsDone, Refused, Recorded
    <2>4. IsEffect(run[r], e, a)
      BY <2>2, <2>3, RecordEffect
    <2>5. Keeps(run[r], e.run, x)
      BY <2>2, <2>3, RecordKeeps
    <2>6. LogStep(x)
      BY <2>1, <2>2, <2>4, <2>5, BeginStep DEF LogInv, TypeInv
    <2>7. x # None => attempt[x].phase = "completed" /\ x = flow[f].attempt
      BY DEF IsDone
    <2>8. flow'[f] = Idle
      BY <2>1, FlowSet DEF Ends, Leaves
    <2>9. x = None \/ Reports(f, flow'[f], x)
      BY <1>0, <2>7, <2>8, IdleFits DEF Reports
    <2> QED
      BY <2>1, <2>6, <2>9, EndsQuiet DEF GateStep
  <1> QED
    BY <1>1, <1>2

\* An approval or a retry drives the attempt that it is told.
LEMMA ApprovesGate ==
    ASSUME TypeInv, LogInv, NEW f \in Flows, NEW a \in Attempts, NEW canBegin \in BOOLEAN,
           Approves(f, a, canBegin) \/ Retries(f, a, canBegin)
    PROVE  GateStep(f, flow'[f], None)
  <1> DEFINE r == flow[f].run
  <1>0. /\ flow[f].pc \in {"approving", "retrying"} /\ IsFresh(a)
        /\ r \in Runs /\ WellKept(run[r]) /\ run[r].status # "absent"
        /\ Sound(run[r]) /\ Approved(run[r])
        /\ flow[f].lead = None /\ flow[f] \in Flow
    <2>1. /\ flow[f].pc \in {"approving", "retrying"} /\ IsFresh(a)
      BY DEF Approves, Retries
    <2>2. r \in Runs /\ WellKept(run[r]) /\ run[r].status # "absent"
      BY <2>1, FlowFacts
    <2>3. flow[f].lead = None /\ flow[f] \in Flow
      BY <2>1, FlowFacts DEF Fits, ReportPcs, RecoveryPcs
    <2> QED
      BY <2>1, <2>2, <2>3 DEF LogInv, OutcomesInv
  <1>1. PICK e : /\ Commit(r, e, a) /\ IsEffect(run[r], e, a) /\ Keeps(run[r], e.run, None)
                 /\ \/ Ends(f)
                    \/ /\ e.next # None
                       /\ \E gen : flow' = [flow EXCEPT ![f] = Drives(f, r, e.next, gen)]
    <2>1. CASE Approves(f, a, canBegin)
      <3> SUFFICES ASSUME NEW e, e = Approve(run[r], a, canBegin)
                   PROVE  /\ Commit(r, e, a) /\ IsEffect(run[r], e, a) /\ Keeps(run[r], e.run, None)
                          /\ \/ Ends(f)
                             \/ /\ e.next # None
                                /\ \E gen : flow' = [flow EXCEPT ![f] = Drives(f, r, e.next, gen)]
        OBVIOUS
      <3>1. IsOpen(run[r])
        BY <1>0, <2>1 DEF Approves, IsOpen, IsTerminal
      <3>2. IsEffect(run[r], e, a) /\ Keeps(run[r], e.run, None)
        BY <1>0, <3>1, ApproveEffect, ApproveKeeps
      <3> QED
        BY <2>1, <3>2 DEF Approves
    <2>2. CASE Retries(f, a, canBegin)
      <3> SUFFICES ASSUME NEW s, s = flow[f].stage, NEW e, e = RetryStage(run[r], s, a, canBegin)
                   PROVE  /\ Commit(r, e, a) /\ IsEffect(run[r], e, a) /\ Keeps(run[r], e.run, None)
                          /\ \/ Ends(f)
                             \/ /\ e.next # None
                                /\ \E gen : flow' = [flow EXCEPT ![f] = Drives(f, r, e.next, gen)]
        OBVIOUS
      <3>1. IsOpen(run[r])
        BY <1>0, <2>2 DEF Retries, CanRetry, IsOpen
      <3>2. s \in Stages /\ run[r].attempt[s] # None
        BY <2>2, FlowFacts DEF Retries, Fits
      <3>3. IsEffect(run[r], e, a) /\ Keeps(run[r], e.run, None)
        BY <1>0, <3>1, <3>2, RetryStageEffect, RetryKeeps
      <3> QED
        BY <2>2, <3>3 DEF Retries
    <2> QED
      BY <2>1, <2>2
  <1>2. LogStep(None)
    BY <1>0, <1>1, BeginStep DEF LogInv, TypeInv
  <1>3. CASE Ends(f)
    BY <1>2, <1>3, EndsQuiet DEF GateStep
  <1>4. ASSUME NEW gen, e.next # None, flow' = [flow EXCEPT ![f] = Drives(f, r, e.next, gen)]
        PROVE  GateStep(f, flow'[f], None)
    <2> SUFFICES ASSUME NEW w, w = Drives(f, r, e.next, gen) PROVE GateStep(f, flow'[f], None)
      OBVIOUS
    <2>1. flow'[f] = w
      BY <1>4, FlowSet
    <2>2. w.pc = "driving" /\ w.attempt = e.next /\ w.lead = flow[f].lead
      BY <1>0 DEF Drives, Flow
    <2>3. e.next = a \/ attempt'[e.next].stage > 1
      BY <1>0, <1>1, <1>4, CommitStep DEF TypeInv
    <2>4. Driven(f, w)
      BY <1>0, <2>2, <2>3 DEF Driven, IsFresh, Used
    <2> QED
      BY <1>2, <2>1, <2>4 DEF GateStep
  <1> QED
    BY <1>1, <1>3, <1>4

\* A request drives the first attempt of its run.
LEMMA RequestsGate ==
    ASSUME TypeInv, LogInv, NEW f \in Flows, NEW r \in Runs, NEW a \in Attempts,
           NEW canBegin \in BOOLEAN, Requests(f, r, a, canBegin)
    PROVE  GateStep(f, flow'[f], None)
  <1>0. IsFresh(a) /\ run[r] = AbsentRun
    BY DEF Requests, NextRun
  <1>1. CASE canBegin
    <2> DEFINE e == Begin(Requested(a), 1, a)
    <2>1. Commit(r, e, a) /\ Goes(f, [Drives(f, r, a, chainGen[r] + 1) EXCEPT !.lead = a])
      BY <1>1 DEF Requests
    <2>2. IsEffect(run[r], e, a) /\ Keeps(run[r], e.run, None)
      BY <1>0, RequestEffect, RequestKeeps
    <2>3. e.begun # None
      BY ControlAssumption DEF Begin, ControlAssumption
    <2> HIDE DEF e
    <2>4. LogStep(None)
      BY <2>1, <2>2, BeginStep DEF LogInv, TypeInv
    <2>5. attempt'[a].phase = "begun"
      BY <2>1, <2>3 DEF Commit, TypeInv, BackendInv
    <2> SUFFICES ASSUME NEW w, w = [Drives(f, r, a, chainGen[r] + 1) EXCEPT !.lead = a]
                 PROVE  GateStep(f, flow'[f], None)
      OBVIOUS
    <2>6. flow'[f] = w
      BY <2>1, FlowSet DEF Goes
    <2>7. w.pc = "driving" /\ w.attempt = a /\ w.lead = a
      BY FlowFacts DEF Drives, Flow
    <2>8. Led(w)
      BY <1>0, <2>5, <2>7 DEF Led, IsFresh, Used
    <2> QED
      BY <2>4, <2>6, <2>8 DEF GateStep
  <1>2. CASE ~ canBegin
    <2> DEFINE e == Effect(RunSettled(Requested(a), "failed"))
    <2>1. Commit(r, e, a) /\ Ends(f)
      BY <1>2 DEF Requests
    <2>2. IsEffect(run[r], e, a) /\ Keeps(run[r], e.run, None)
      BY <1>0, RequestEffect, RequestKeeps
    <2> HIDE DEF e
    <2>3. LogStep(None)
      BY <2>1, <2>2, BeginStep DEF LogInv, TypeInv
    <2> QED
      BY <2>1, <2>3, EndsQuiet DEF GateStep
  <1> QED
    BY <1>1, <1>2

-----------------------------------------------------------------------------
(* The gates. *)

\* A fault is never forgotten, and the one that this is about is an append that
\* fails.
LEMMA LogFault ==
    ASSUME TypeInv, [Next]_vars, faults'["log"] = 0
    PROVE  faults["log"] = 0 /\ \A f \in Flows : ~ RecordFails(f)
  <1>0. faults \in [AllFaultKinds -> Nat] /\ FaultKinds \subseteq AllFaultKinds
    BY ExecutorAssumption DEF TypeInv, RestTypes, ExecutorAssumption
  <1> DEFINE Kept == faults'["log"] >= faults["log"]
  <1>s. UNCHANGED faults => Kept
    BY <1>0 DEF AllFaultKinds
  <1>f. ASSUME NEW k, Faulty(k) PROVE Kept /\ (k = "log" => faults'["log"] > 0)
    BY <1>0, <1>f DEF Faulty, MayFail, AllFaultKinds
  <1> HIDE DEF Kept
  <1>1. ASSUME NEW k, NEW canBegin, Faulty(k) \/ UNCHANGED faults \/ CanBegin(canBegin)
        PROVE  Kept
    BY <1>1, <1>s, <1>f DEF CanBegin
  <1>2. ASSUME NEW f \in Flows, RecordFails(f) PROVE faults'["log"] > 0
    BY <1>2, <1>f DEF RecordFails
  <1>3. ASSUME NEW f \in Flows, Step(f) \/ Fails(f) \/ User(f) PROVE Kept
    <2>1. ASSUME NEW a \in Attempts, NEW canBegin \in BOOLEAN, Commands(f, a, canBegin)
          PROVE  Kept
      BY <1>1, <2>1 DEF Commands, Requests, Records, Rerecords, Approves, Retries
    <2>2. CASE Step(f)
      BY <1>s, <2>1, <2>2
         DEF Step, Dispatches, Awaits, RequestRefused, Recovers, Reawaits, ApprovalRefused,
             Closes, RetryRefused, Cancels, CancelFails, InterruptsOne, Finalizes
    <2>3. CASE Fails(f)
      BY <1>1, <2>3 DEF Fails, DispatchFails, AwaitFails, RecordFails, RecoveryFails, StopFails
    <2>4. CASE User(f)
      BY <1>s, <2>4
         DEF User, UserRequests, UserApproves, UserStops, UserRejects, UserRetriesRun,
             UserRetries, Stop, Starts
    <2> QED
      BY <1>3, <2>2, <2>3, <2>4
  <1>4. Kept
    BY <1>1, <1>3, <1>s DEF Next, AttemptEnds, Reload, vars
  <1>5. faults["log"] \in Nat
    BY <1>0 DEF AllFaultKinds
  <1> QED
    BY <1>2, <1>4, <1>5 DEF Kept

\* Every step of a flow without such a fault.
LEMMA FlowGate ==
    ASSUME TypeInv, LogInv, NEW f \in Flows, Step(f) \/ Fails(f) \/ User(f), ~ RecordFails(f)
    PROVE  \E x : GateStep(f, flow'[f], x)
  <1>1. ASSUME NEW a \in Attempts, NEW canBegin \in BOOLEAN, Commands(f, a, canBegin)
        PROVE  \E x : GateStep(f, flow'[f], x)
    BY <1>1, RequestsGate, RecordsGate, RerecordsGate, ApprovesGate DEF Commands
  <1>2. CASE CalmActions(f) \/ Cancels(f) \/ Finalizes(f)
    BY <1>2, CalmGate, CancelGate DEF LogInv
  <1> QED
    BY <1>1, <1>2 DEF Step, Fails, CalmActions

\* The log and the leads when no flow acts.
LEMMA LogKeptAlone ==
    ASSUME DriverInv, LogInv, BackendStep, LogStep(None),
           flow' = flow \/ flow' = [f \in Flows |-> Idle]
    PROVE  LogInv'
  <1>1. /\ OutcomesInv'
        /\ \A a \in Attempts : Used(a) /\ SucceededTurn(a)' => SucceededTurn(a)
    <2>1. \A a \in Attempts : a # None
      BY NoneApart
    <2> QED
      BY <2>1, OutcomesKept DEF LogInv, DriverInv, TypeInv
  <1>2. CASE flow' = flow
    <2>1. ASSUME NEW a \in Attempts, Used(a), ~ SucceededTurn(a) PROVE ~ SucceededTurn(a)'
      BY <1>1, <2>1
    <2>2. \A g \in Flows : /\ flow[g].lead # None => flow[g].lead \in Attempts /\ Used(flow[g].lead)
                           /\ HasDispatched(g) => flow[g].attempt \in Attempts /\ Used(flow[g].attempt)
      BY LeadFacts DEF DriverInv
    <2>3. ASSUME NEW g \in Flows, HasDispatched(g) PROVE ~ SucceededTurn(flow[g].attempt)'
      <3> SUFFICES ASSUME NEW b, b = flow[g].attempt PROVE ~ SucceededTurn(b)'
        BY <1>2 DEF SucceededTurn
      <3> QED
        BY <2>1, <2>2, <2>3 DEF LogInv, LeadsInv
    <2>4. ASSUME 1 \in Gated, NEW g \in Flows, flow[g].lead # None
          PROVE  flow[g].attempt = flow[g].lead /\ ~ SucceededTurn(flow[g].lead)'
      <3> SUFFICES ASSUME NEW b, b = flow[g].lead
                   PROVE  flow[g].attempt = b /\ ~ SucceededTurn(b)'
        BY <1>2 DEF SucceededTurn
      <3> QED
        BY <2>1, <2>2, <2>4 DEF LogInv, LeadsInv
    <2>5. LeadsInv'
      BY <1>2, <2>3, <2>4 DEF LogInv, LeadsInv, HasDispatched, IsDriving
    <2> QED
      BY <1>1, <2>5 DEF LogInv
  <1>3. CASE flow' = [f \in Flows |-> Idle]
    <2>1. \A g \in Flows : flow'[g].lead = None /\ flow'[g].pc = "idle"
      BY <1>3, IdleFits
    <2>2. LeadsInv'
      BY <2>1 DEF LeadsInv, HasDispatched
    <2> QED
      BY <1>1, <2>2 DEF LogInv
  <1> QED
    BY <1>2, <1>3

\* GateInv holds initially.
LEMMA InitGateInv == Init => GateInv
  <1> SUFFICES ASSUME Init PROVE GateInv
    OBVIOUS
  <1>1. /\ \A r \in Runs : run[r] = AbsentRun
        /\ \A a \in Attempts : attempt[a].phase = "unused"
        /\ \A f \in Flows : flow[f].lead = None /\ flow[f].pc = "idle"
    BY IdleFits DEF Init
  <1>2. \A a \in Attempts : AbsentRun.outcome[a] = None
    BY DEF AbsentRun
  <1>3. \A r \in Runs : Sound(run[r]) /\ Approved(run[r])
    <2>1. Sound(AbsentRun) /\ Approved(AbsentRun)
      BY DEF AbsentRun, Sound, Approved, IsOpen
    <2> QED
      BY <1>1, <2>1
  <1>4. OutcomesInv
    BY <1>1, <1>2, <1>3 DEF OutcomesInv, Used
  <1>5. LeadsInv
    BY <1>1 DEF LeadsInv, HasDispatched
  <1> QED
    BY <1>4, <1>5, InitDriverInv DEF GateInv, LogInv

\* Every step preserves GateInv.
LEMMA NextGateInv == GateInv /\ [Next]_vars => GateInv'
  <1> SUFFICES ASSUME GateInv, [Next]_vars PROVE GateInv'
    OBVIOUS
  <1>0. DriverInv /\ DriverInv' /\ TypeInv
    BY NextDriverInv DEF GateInv, DriverInv
  <1> SUFFICES ASSUME faults'["log"] = 0 PROVE LogInv'
    BY <1>0 DEF GateInv
  <1>1. LogInv /\ \A f \in Flows : ~ RecordFails(f)
    BY <1>0, LogFault DEF GateInv
  <1>2. ASSUME NEW f \in Flows, Step(f) \/ Fails(f) \/ User(f) PROVE LogInv'
    <2>1. PICK w : StepOf(f, w)
      BY <1>0, <1>2, FlowStep
    <2>2. flow'[f] = w
      BY <1>0, <2>1, FlowSet DEF StepOf
    <2>3. PICK x : GateStep(f, w, x)
      BY <1>0, <1>1, <1>2, <2>2, FlowGate
    <2> QED
      BY <1>0, <1>1, <2>1, <2>3, LogKept
  <1>3. ASSUME NEW a \in Attempts, AttemptEnds(a) PROVE LogInv'
    <2>1. PICK p \in {"completed", "failed"} : attempt' = Phase(a, p)
      BY <1>3 DEF AttemptEnds
    <2>2. attempt[a].phase = "dispatched" /\ UNCHANGED <<run, flow>>
      BY <1>3 DEF AttemptEnds, window
    <2>3. BackendStep
      BY <1>0, <2>1, <2>2, PhaseStep DEF TypeInv
    <2>4. LogStep(None)
      BY <1>0, <1>1, <2>1, <2>2, CalmStep DEF TypeInv, LogInv
    <2> QED
      BY <1>0, <1>1, <2>2, <2>3, <2>4, LogKeptAlone
  <1>4. CASE Reload \/ UNCHANGED vars
    <2>1. UNCHANGED backend /\ (flow' = flow \/ flow' = [f \in Flows |-> Idle])
      BY <1>4 DEF Reload, vars, window
    <2>2. BackendStep
      BY <1>0, <2>1, BackendSame DEF TypeInv
    <2>3. LogStep(None)
      BY <1>0, <1>1, <2>1, CalmStep DEF TypeInv, LogInv, backend
    <2> QED
      BY <1>0, <1>1, <2>1, <2>2, <2>3, LogKeptAlone
  <1> QED
    BY <1>2, <1>3, <1>4 DEF Next

\* GateInv holds in every reachable state.
LEMMA GateInvHolds == Spec => []GateInv
  BY InitGateInv, NextGateInv, PTL DEF Spec

\* GateHolds: unless an append has failed, a stage behind a gate has an attempt
\* only if the user approved as often as there are gates up to it, although
\* records are repeated, late, or of attempts that a retry replaced.
THEOREM GatesHold == Spec => []GateHolds
  <1>1. GateInv => GateHolds
    <2> SUFFICES ASSUME GateInv, NEW r \in Runs, NEW s \in Gated, s < N,
                        run[r].attempt[s + 1] # None, faults["log"] = 0
                 PROVE  run[r].approved >= Cardinality({g \in Gated : g <= s})
      <3>1. GateInv => faults["log"] \in Nat
        BY DEF GateInv, DriverInv, TypeInv, RestTypes, AllFaultKinds
      <3> QED
        BY <3>1 DEF GateHolds
    <2>1. s \in Nat /\ 1 <= s /\ N \in Nat /\ \A g \in Gated : g \in Nat
      BY ControlAssumption DEF ControlAssumption, Stages
    <2>2. s + 1 \in Stages
      BY <2>1 DEF Stages
    <2>3. GatesBefore(s + 1) <= run[r].approved
      BY <2>2 DEF GateInv, LogInv, OutcomesInv, Approved
    <2>4. {g \in Gated : g < s + 1} = {g \in Gated : g <= s}
      <3>1. \A g \in Gated : g < s + 1 <=> g <= s
        BY <2>1
      <3> QED
        BY <3>1
    <2>5. GatesBefore(s + 1) = Cardinality({g \in Gated : g <= s})
      BY <2>4 DEF GatesBefore
    <2>6. GatesBefore(s + 1) \in Nat
      BY <2>1, GatesCounted
    <2>7. run[r].approved \in Nat
      BY DEF GateInv, DriverInv, TypeInv, BackendInv, Run
    <2> QED
      BY <2>3, <2>5, <2>6, <2>7
  <1> QED
    BY <1>1, GateInvHolds, PTL
=============================================================================
