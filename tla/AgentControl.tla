---------------------------- MODULE AgentControl ----------------------------
(***************************************************************************)
(* The backend of a squad run (src-tauri/src/agent_orchestration): what    *)
(* the facts of a run project to, and what the commands append.  A command *)
(* holds TRANSITION_LOCK from its first read to its last append, so it is  *)
(* an operator from a run to its effects.                                  *)
(*                                                                         *)
(* A run is the record that project_agent_runs builds.  "implementing"     *)
(* stands for reviewing too, texts and plans are left out, and the two     *)
(* facts of append_failed_and_settle count as one.  The workspace root     *)
(* does not change under a run.                                            *)
(*                                                                         *)
(* The log takes one outcome fact for an attempt and one cancel request    *)
(* for a run: a second one is a replay when it says the same and otherwise *)
(* an idempotency conflict, which the command returns as its error         *)
(* (find_existing_sequence, see EventRows).                                *)
(***************************************************************************)
EXTENDS Integers

CONSTANTS N,        \* the number of stages of a run
          Gated,    \* the stages with requiresApproval
          Attempts, \* attempt ids, in the order in which they are made
          None

Stages == 1 .. N

\* What squadNodeOutcomeRecorded says of an attempt; closed: by a retry
OutcomeFact == Stages \X {"succeeded", "failed", "closed"}

ASSUME ControlAssumption ==
    /\ N \in Nat \ {0}
    /\ Gated \subseteq Stages
    /\ Attempts \subseteq Nat
    /\ None \notin Nat \cup OutcomeFact

RunStatus   == {"absent", "planning", "awaiting-approval", "implementing",
                "succeeded", "failed", "cancelled"}
StageStatus == {"pending", "running", "succeeded", "failed", "skipped"}

\* lead: plan_attempt_by_run; outcome: the outcome facts in the log; cancelling:
\* squadCancelRequested is in it; approved: how often the user approved, a history
Run == [status   : RunStatus,
        revision : Nat,
        stage    : [Stages -> StageStatus],
        attempt  : [Stages -> Attempts \cup {None}],
        active   : SUBSET Attempts,
        lead     : Attempts \cup {None},
        outcome  : [Attempts -> OutcomeFact \cup {None}],
        cancelling : BOOLEAN,
        approved : Nat]

AbsentRun == [status |-> "absent", revision |-> 0,
              stage |-> [s \in Stages |-> "pending"],
              attempt |-> [s \in Stages |-> None],
              active |-> {}, lead |-> None, outcome |-> [a \in Attempts |-> None],
              cancelling |-> FALSE, approved |-> 0]

IsTerminal(run) == run.status \in {"succeeded", "failed", "cancelled"}

IsOpen(run) == run.status # "absent" /\ ~ IsTerminal(run)

\* active_attempt_ids: the last loop of project_agent_runs puts the first
\* attempt back while the run is planning.
ActiveAttempts(run) ==
    run.active \cup IF run.status = "planning" THEN {run.lead} \ {None} ELSE {}

-----------------------------------------------------------------------------
(* Facts. *)

\* squadRunRequested
Requested(a) == [AbsentRun EXCEPT !.status = "planning", !.lead = a]

\* turnRequested
TurnRequested(run, s, a) ==
    [run EXCEPT !.stage[s] = "running",
                !.attempt[s] = a,
                !.active = @ \cup {a},
                !.status = IF s = 1 THEN "planning" ELSE "implementing"]

\* squadNodeOutcomeRecorded
NodeOutcome(run, s, a, outcome) ==
    [run EXCEPT !.outcome[a] = <<s, outcome>>,
                !.stage[s] = IF outcome = "succeeded" THEN "succeeded" ELSE "failed",
                !.active = @ \ {a}]

\* The append of it: a replay leaves the log as it is.
Judged(run, s, a, outcome) ==
    IF run.outcome[a] = None THEN NodeOutcome(run, s, a, outcome) ELSE run

\* Mutant: whatever the log has of the attempt counts as a replay.
NeverConflicts(run, s, a, outcome) == FALSE

Conflicts(run, s, a, outcome) == run.outcome[a] \notin {None, <<s, outcome>>}

\* squadPlanProposed and squadPlanRevised: apply_plan_gate
PlanGate(run, s) ==
    [run EXCEPT !.revision = @ + 1,
                !.status = "awaiting-approval",
                !.stage[s] = "succeeded",
                !.active = @ \ {run.lead},
                !.lead = None]

\* squadPlanApproved, of the current revision
PlanApproved(run) == [run EXCEPT !.status = "implementing", !.approved = @ + 1]

\* squadRunSettled: a stage that did not end is skipped if the run was
\* cancelled and failed otherwise.
RunSettled(run, status) ==
    [run EXCEPT !.status = status,
                !.stage = [s \in Stages |->
                              IF run.stage[s] \notin {"pending", "running"} THEN run.stage[s]
                              ELSE IF status = "cancelled" THEN "skipped" ELSE "failed"],
                !.active = {}]

-----------------------------------------------------------------------------
(* Commands.  An effect is the run that is left, the stage begun with the   *)
(* fresh attempt, and the attempt that the window is told to drive.         *)

Effect(run) == [run |-> run, begun |-> None, next |-> None]

\* start_stage_attempt
Begin(run, s, fresh) ==
    [run |-> TurnRequested(run, s, fresh), begun |-> s, next |-> fresh]

\* Mutant: the stage that was begun is not handed out.
AdvanceUnnamed(run, s, fresh, canBegin) ==
    CASE s = N -> Effect(RunSettled(run, "succeeded"))
      [] s < N /\ canBegin -> [Begin(run, s + 1, fresh) EXCEPT !.next = None]
      [] OTHER -> Effect(RunSettled(run, IF s > 1 THEN "succeeded" ELSE "failed"))

\* The end of record_stage_and_maybe_advance.  A stage that runs is handed
\* out, any other is begun, whatever its status.  When it cannot be begun, a
\* run that has done more than its first stage settles as succeeded.
Advance(run, s, fresh, canBegin) ==
    CASE s = N -> Effect(RunSettled(run, "succeeded"))
      [] s < N /\ run.stage[s + 1] = "running" ->
             [Effect(run) EXCEPT !.next = run.attempt[s + 1]]
      [] s < N /\ run.stage[s + 1] # "running" /\ canBegin -> Begin(run, s + 1, fresh)
      [] OTHER -> Effect(RunSettled(run, IF s > 1 THEN "succeeded" ELSE "failed"))

Running(run) == {s \in Stages : run.stage[s] = "running"}

\* The stage that the report of attempt a is for: its own or, when a retry has
\* given the stage another attempt, the first that runs.
StageOf(run, a) ==
    IF \E s \in Stages : run.attempt[s] = a THEN CHOOSE s \in Stages : run.attempt[s] = a
    ELSE IF Running(run) # {}
    THEN CHOOSE s \in Running(run) : \A t \in Running(run) : s <= t
    ELSE None

\* The stage has succeeded just now: its gate, or the next stage.
AfterSuccess(run, s, fresh, canBegin) ==
    IF s \in Gated THEN Effect(PlanGate(run, s)) ELSE Advance(run, s, fresh, canBegin)

Verdict(done) == IF done THEN "succeeded" ELSE "failed"

\* record_stage_and_maybe_advance fails: there is no stage for the attempt, or
\* the log has another outcome of it, as that of a retry.
RecordRefused(run, a, done) ==
    LET s == StageOf(run, a)
    IN  /\ ~ IsTerminal(run)
        /\ s # None => run.stage[s] # "succeeded" /\ Conflicts(run, s, a, Verdict(done))

\* record_stage_and_maybe_advance otherwise; done: the attempt was committed as
\* completed.
Record(run, a, done, fresh, canBegin) ==
    LET s == StageOf(run, a)
    IN  IF IsTerminal(run) THEN Effect(run)
        ELSE IF run.stage[s] = "succeeded" THEN Advance(run, s, fresh, canBegin)
        ELSE IF done
        THEN AfterSuccess(Judged(run, s, a, "succeeded"), s, fresh, canBegin)
        ELSE Effect(RunSettled(Judged(run, s, a, "failed"), "failed"))

\* What an append that fails leaves of it.
TornRecord(run, a, done) ==
    LET s == StageOf(run, a)
        outcome == Judged(run, s, a, Verdict(done))
    IN  IF IsTerminal(run) \/ run.stage[s] = "succeeded" THEN {run}
        ELSE {outcome} \cup IF done /\ s \in Gated THEN {PlanGate(outcome, s)} ELSE {}

NextPending(run) ==
    LET ps == {s \in Stages : run.stage[s] = "pending"}
    IN  IF ps = {} THEN None ELSE CHOOSE s \in ps : \A t \in ps : s <= t

\* shared_agent_approve of the revision the run waits for.  When the gated
\* stage is the last one the approval is written and the command fails.
Approve(run, fresh, canBegin) ==
    LET next == NextPending(run)
    IN  IF next = None THEN Effect(PlanApproved(run))
        ELSE IF canBegin THEN Begin(PlanApproved(run), next, fresh)
        ELSE Effect(RunSettled(PlanApproved(run), "failed"))

CanRetry(run, s) == ~ IsTerminal(run) /\ run.stage[s] \notin {"succeeded", "skipped"}

\* Mutant: the stage is given its attempt before the attempt is prepared.
RetryStageUnprepared(run, s, fresh, canBegin) ==
    LET closed == IF run.attempt[s] = None THEN run
                  ELSE Judged(run, s, run.attempt[s], "closed")
    IN  IF canBegin THEN Begin(closed, s, fresh) ELSE Effect(TurnRequested(closed, s, fresh))

\* shared_agent_retry_stage: the old attempt is closed, unless the log has its
\* outcome, and a new one begun.
RetryStage(run, s, fresh, canBegin) ==
    LET closed == IF run.attempt[s] = None THEN run
                  ELSE Judged(run, s, run.attempt[s], "closed")
    IN  IF canBegin THEN Begin(closed, s, fresh) ELSE Effect(closed)

\* shared_agent_cancel: a second request says another time or reason.
CancelRefused(run) == ~ IsTerminal(run) /\ run.cancelling

Cancel(run) == IF IsTerminal(run) THEN run ELSE [run EXCEPT !.cancelling = TRUE]

\* shared_agent_finalize_cancel
FinalizeCancel(run) == IF IsTerminal(run) THEN run ELSE RunSettled(run, "cancelled")
=============================================================================
