---------------------------- MODULE AgentExecutor ----------------------------
(***************************************************************************)
(* The window's side of a squad run (src/features/multi-agent/runtime/     *)
(* executor.ts) over the backend of AgentControl: async flows that request *)
(* a run, drive its stages one after the other, approve, retry a stage,    *)
(* stop, and recover from an error, and whose calls interleave.            *)
(*                                                                         *)
(* A step of a flow is one call of the backend, with what the flow does    *)
(* between the answer and its next call.  The chains of a run know each    *)
(* other only through the generation in chainTokens and, for approvals,    *)
(* through the map running; a record that comes late is caught by the log. *)
(*                                                                         *)
(* One shared session.  The user acts on the current projection, and the   *)
(* surface may be remounted at any time, which clears its busy flag.  The  *)
(* turns themselves are those of SharedTurn: here an attempt is begun,     *)
(* dispatched, and ends.  The summary turn is left out.                    *)
(***************************************************************************)
EXTENDS AgentControl, FiniteSets

CONSTANTS Runs,       \* 1 .. n, in the order in which they are requested
          Flows,      \* async flows of the window, reused when they end
          Attended,   \* bound: the runs that the user approves, stops or retries,
                      \* and after which no fault happens
          MaxRetries, \* bound: how often the user retries a stage or a run
          MaxFaults,  \* bound: how often something fails
          FaultKinds

\* ipc: a dispatch or a wait throws, or waits for 30 minutes.  log: an append
\* fails.  begin: a stage cannot be prepared.  reload: the window is reloaded.
AllFaultKinds == {"ipc", "log", "begin", "reload"}

ASSUME ExecutorAssumption ==
    /\ Runs \subseteq Nat \ {0} /\ Attended \subseteq Runs
    /\ MaxRetries \in Nat /\ MaxFaults \in Nat
    /\ FaultKinds \subseteq AllFaultKinds

VARIABLES run,      \* the projection of each run
          attempt,  \* per attempt: its run, its stage, how far its turn is
          chainGen, \* chainTokens
          task,     \* running: the flow that drives the run for an approval or a retry
          flow,     \* the flows
          retried,  \* history: how often the user retried a stage, and a run
          faults    \* history: how often each fault happened

backend == <<run, attempt>>
window  == <<chainGen, task, flow>>
vars    == <<backend, window, retried, faults>>

Attempt == [run : Runs \cup {None}, stage : Stages \cup {None},
            phase : {"unused", "begun", "dispatched", "completed", "failed"}]

Kinds == {"request", "approve", "retry", "stop"}

\* driving: about to dispatch.  lead: the first attempt of a requested run.
\* seen: the revision that is approved.  again: a request follows the stop.
Flow == [pc      : {"idle", "requesting", "approving", "closing", "retrying", "driving",
                    "awaiting", "recording", "recovering", "reawaiting", "rerecording",
                    "cancelling", "interrupting", "finalizing"},
         kind    : Kinds \cup {None},
         run     : Runs \cup {None},
         stage   : Stages \cup {None},
         attempt : Attempts \cup {None},
         lead    : Attempts \cup {None},
         gen     : Nat,
         seen    : Nat,
         targets : SUBSET Attempts,
         again   : BOOLEAN]

Idle == [pc |-> "idle", kind |-> None, run |-> None, stage |-> None, attempt |-> None,
         lead |-> None, gen |-> 0, seen |-> 0, targets |-> {}, again |-> FALSE]

IsCommitted(a) == attempt[a].phase \in {"completed", "failed"}

\* The attempts are numbered as they are made.
IsFresh(a) == attempt[a].phase = "unused" /\ \A b \in Attempts : b < a => attempt[b].phase # "unused"

TotalFaults == faults["ipc"] + faults["log"] + faults["begin"] + faults["reload"]

MayFail(kind) ==
    /\ kind \in FaultKinds /\ TotalFaults < MaxFaults
    /\ \A r \in Runs \ Attended : run[r] = AbsentRun

Faulty(kind) == MayFail(kind) /\ faults' = [faults EXCEPT ![kind] = @ + 1]

\* Whether a stage can be begun is up to its runtime.
CanBegin(canBegin) == IF canBegin THEN UNCHANGED faults ELSE Faulty("begin")

\* The effect of a command on run r: its projection, and the turn it began.
Commit(r, effect, a) ==
    /\ run' = [run EXCEPT ![r] = effect.run]
    /\ attempt' = IF effect.begun = None THEN attempt
                  ELSE [attempt EXCEPT ![a] = [run |-> r, stage |-> effect.begun, phase |-> "begun"]]

Goes(f, next) == flow' = [flow EXCEPT ![f] = next] /\ UNCHANGED task

IsDriving(f) == flow[f].pc \in {"driving", "awaiting", "recording"}

\* The end of the chain of an approval takes the task of its run out of the
\* map, that of a retry only if it is its own.
ClearsTask(f) ==
    /\ IsDriving(f)
    /\ \/ flow[f].kind = "approve"
       \/ flow[f].kind = "retry" /\ task[flow[f].run] = f

\* The chain is over, and its flow goes on as next.
Leaves(f, next) ==
    /\ flow' = [flow EXCEPT ![f] = next]
    /\ task' = IF ClearsTask(f) THEN [task EXCEPT ![flow[f].run] = None] ELSE task

Ends(f) == Leaves(f, Idle)

-----------------------------------------------------------------------------
Init ==
    /\ run = [r \in Runs |-> AbsentRun]
    /\ attempt = [a \in Attempts |-> [run |-> None, stage |-> None, phase |-> "unused"]]
    /\ chainGen = [r \in Runs |-> 0]
    /\ task = [r \in Runs |-> None]
    /\ flow = [f \in Flows |-> Idle]
    /\ retried = [stages |-> 0, runs |-> 0]
    /\ faults = [kind \in AllFaultKinds |-> 0]

(* What the user does. *)

Starts(f, record) ==
    /\ flow[f] = Idle
    /\ \A g \in Flows : g < f => flow[g] # Idle
    /\ flow' = [flow EXCEPT ![f] = record]
    /\ UNCHANGED <<backend, task, faults>>

\* requestAgentPlan, from the composer, which is locked while a run is open
UserRequests(f) ==
    /\ \A r \in Runs : ~ IsOpen(run[r])
    /\ Starts(f, [Idle EXCEPT !.pc = "requesting", !.kind = "request"])
    /\ UNCHANGED <<chainGen, retried>>

\* approveAndExecuteAgent
UserApproves(f, r) ==
    /\ run[r].status = "awaiting-approval" /\ r \in Attended
    /\ Starts(f, [Idle EXCEPT !.pc = "approving", !.kind = "approve", !.run = r,
                              !.seen = run[r].revision])
    /\ UNCHANGED <<chainGen, retried>>

MayRetry(r) == r \in Attended /\ retried.stages + retried.runs < MaxRetries

\* Mutant: the chain of the replaced attempt is not superseded.
UserRetriesUnbumped(f, r, s) ==
    /\ IsOpen(run[r]) /\ run[r].stage[s] \in {"running", "failed"}
    /\ MayRetry(r)
    /\ retried' = [retried EXCEPT !.stages = @ + 1]
    /\ Starts(f, [Idle EXCEPT !.pc = "closing", !.kind = "retry", !.run = r, !.stage = s,
                              !.attempt = run[r].attempt[s], !.gen = chainGen[r]])
    /\ UNCHANGED chainGen

\* retryAgentStage: the generation ends the chain that drives the run; the
\* button is there for a stage that runs or has failed.
UserRetries(f, r, s) ==
    /\ IsOpen(run[r]) /\ run[r].stage[s] \in {"running", "failed"}
    /\ MayRetry(r)
    /\ chainGen' = [chainGen EXCEPT ![r] = @ + 1]
    /\ retried' = [retried EXCEPT !.stages = @ + 1]
    /\ Starts(f, [Idle EXCEPT !.pc = "closing", !.kind = "retry", !.run = r, !.stage = s,
                              !.attempt = run[r].attempt[s], !.gen = chainGen[r] + 1])

\* stopAgent; again: another request follows.
Stop(f, r, again) ==
    Starts(f, [Idle EXCEPT !.pc = "cancelling", !.kind = "stop", !.run = r, !.again = again])

UserStops(f, r) ==
    /\ IsOpen(run[r]) /\ r \in Attended
    /\ Stop(f, r, FALSE)
    /\ UNCHANGED <<chainGen, retried>>

\* rejectAndReplanAgent
UserRejects(f, r) ==
    /\ run[r].status = "awaiting-approval" /\ r \in Attended
    /\ Stop(f, r, TRUE)
    /\ UNCHANGED <<chainGen, retried>>

\* retryCollabRun, offered when a stage has long been running
UserRetriesRun(f, r) ==
    /\ IsOpen(run[r]) /\ Running(run[r]) # {} /\ MayRetry(r)
    /\ chainGen' = [chainGen EXCEPT ![r] = @ + 1]
    /\ retried' = [retried EXCEPT !.runs = @ + 1]
    /\ Stop(f, r, TRUE)

-----------------------------------------------------------------------------
(* The chain: driveAutoChain. *)

IsCurrent(f) == chainGen[flow[f].run] = flow[f].gen

\* After the answer of record_execute: the run has ended or waits for the
\* user, or the chain takes the next attempt unless it was superseded.
Continues(f, effect) ==
    IF /\ IsOpen(effect.run) /\ effect.run.status # "awaiting-approval"
       /\ effect.next \notin {None, flow[f].attempt}
       /\ IsCurrent(f)
    THEN Goes(f, [flow[f] EXCEPT !.pc = "driving", !.attempt = effect.next])
    ELSE Ends(f)

\* stopAgent from here on
Stopping(record) ==
    [Idle EXCEPT !.pc = "cancelling", !.kind = record.kind, !.run = record.run]

\* The catch of the flow: a request asks what became of the first attempt, an
\* approval stops the run, its task gone from the map, and a retry gives up.
Throws(f) ==
    CASE flow[f].kind = "request" ->
             Goes(f, [flow[f] EXCEPT !.pc = "recovering", !.attempt = flow[f].lead])
      [] flow[f].kind = "approve" -> Leaves(f, Stopping(flow[f]))
      [] OTHER -> Ends(f)

\* An error of driveAttempt counts only for the chain that is current.
ThrowsInDrive(f) == IF IsCurrent(f) THEN Throws(f) ELSE Ends(f)

Phase(a, phase) == [attempt EXCEPT ![a].phase = phase]

\* driveAttempt up to the dispatch, which an attempt takes once
Dispatches(f) ==
    /\ flow[f].pc = "driving"
    /\ IF attempt[flow[f].attempt].phase = "begun"
       THEN /\ attempt' = Phase(flow[f].attempt, "dispatched")
            /\ Goes(f, [flow[f] EXCEPT !.pc = "awaiting"])
       ELSE ThrowsInDrive(f) /\ UNCHANGED attempt
    /\ UNCHANGED <<run, chainGen, retried, faults>>

\* The dispatch fails, before or after the runtime has taken the turn.
DispatchFails(f) ==
    /\ flow[f].pc = "driving"
    /\ Faulty("ipc")
    /\ \/ UNCHANGED attempt
       \/ attempt[flow[f].attempt].phase = "begun" /\ attempt' = Phase(flow[f].attempt, "dispatched")
    /\ ThrowsInDrive(f)
    /\ UNCHANGED <<run, chainGen, retried>>

\* driveAttempt after shared_session_v2_await_turn_terminal
Awaits(f) ==
    /\ flow[f].pc = "awaiting" /\ IsCommitted(flow[f].attempt)
    /\ IF IsCurrent(f) THEN Goes(f, [flow[f] EXCEPT !.pc = "recording"]) ELSE Ends(f)
    /\ UNCHANGED <<backend, chainGen, retried, faults>>

\* withTimeout, or an error of the call
AwaitFails(f) ==
    /\ flow[f].pc = "awaiting"
    /\ Faulty("ipc")
    /\ ThrowsInDrive(f)
    /\ UNCHANGED <<backend, chainGen, retried>>

\* The verdict on the attempt that flow f reports is done.
IsDone(f) == attempt[flow[f].attempt].phase = "completed"

Refused(f) == RecordRefused(run[flow[f].run], flow[f].attempt, IsDone(f))

\* shared_agent_record_execute
Recorded(f, a, canBegin) == Record(run[flow[f].run], flow[f].attempt, IsDone(f), a, canBegin)

\* The chain records the attempt.
Records(f, a, canBegin) ==
    /\ flow[f].pc = "recording" /\ IsFresh(a)
    /\ IF Refused(f)
       THEN canBegin /\ Throws(f) /\ UNCHANGED <<backend, faults>>
       ELSE LET e == Recorded(f, a, canBegin)
            IN  /\ canBegin \/ Recorded(f, a, TRUE).begun # None
                /\ CanBegin(canBegin)
                /\ Commit(flow[f].run, e, a)
                /\ Continues(f, e)
    /\ UNCHANGED <<chainGen, retried>>

\* An append of it fails.
RecordFails(f) ==
    /\ flow[f].pc \in {"recording", "rerecording"} /\ ~ Refused(f)
    /\ Faulty("log")
    /\ \E left \in TornRecord(run[flow[f].run], flow[f].attempt, IsDone(f)) : run' = [run EXCEPT ![flow[f].run] = left]
    /\ IF flow[f].pc = "recording" THEN Throws(f)
       ELSE Goes(f, Stopping(flow[f]))
    /\ UNCHANGED <<attempt, chainGen, retried>>

-----------------------------------------------------------------------------
(* Requests. *)

Drives(f, r, a, gen) == [flow[f] EXCEPT !.pc = "driving", !.run = r, !.attempt = a, !.gen = gen]

\* ensure_no_active_run
RequestRefused(f) ==
    /\ flow[f].pc = "requesting"
    /\ \E q \in Runs : IsOpen(run[q])
    /\ Ends(f)
    /\ UNCHANGED <<backend, chainGen, retried, faults>>

\* Mutant: a request does not ask whether a run is open.
NextRunUnchecked(r) ==
    run[r] = AbsentRun /\ \A q \in Runs : q < r => run[q] # AbsentRun

\* The run that a request makes.
NextRun(r) ==
    /\ \A q \in Runs : ~ IsOpen(run[q])
    /\ run[r] = AbsentRun /\ \A q \in Runs : q < r => run[q] # AbsentRun

\* shared_agent_request_run, and the start of the chain
Requests(f, r, a, canBegin) ==
    /\ flow[f].pc = "requesting" /\ NextRun(r) /\ IsFresh(a)
    /\ CanBegin(canBegin)
    /\ IF canBegin
       THEN /\ Commit(r, Begin(Requested(a), 1, a), a)
            /\ chainGen' = [chainGen EXCEPT ![r] = @ + 1]
            /\ Goes(f, [Drives(f, r, a, chainGen[r] + 1) EXCEPT !.lead = a])
       ELSE /\ Commit(r, Effect(RunSettled(Requested(a), "failed")), a)
            /\ UNCHANGED chainGen
            /\ Ends(f)
    /\ UNCHANGED retried

\* sharedSessionV2RecoverAttempt of the first attempt: an attempt that was not
\* accepted is committed as cancelled.
Recovers(f) ==
    /\ flow[f].pc = "recovering"
    /\ attempt' = IF attempt[flow[f].attempt].phase = "begun"
                  THEN Phase(flow[f].attempt, "failed") ELSE attempt
    /\ Goes(f, [flow[f] EXCEPT !.pc = IF attempt[flow[f].attempt].phase = "dispatched"
                                      THEN "reawaiting" ELSE "rerecording"])
    /\ UNCHANGED <<run, chainGen, retried, faults>>

Reawaits(f) ==
    /\ flow[f].pc = "reawaiting" /\ IsCommitted(flow[f].attempt)
    /\ Goes(f, [flow[f] EXCEPT !.pc = "rerecording"])
    /\ UNCHANGED <<backend, chainGen, retried, faults>>

\* An error of the recovery stops the run.
RecoveryFails(f) ==
    /\ flow[f].pc \in {"recovering", "reawaiting"}
    /\ Faulty("ipc")
    /\ Goes(f, Stopping(flow[f]))
    /\ UNCHANGED <<backend, chainGen, retried>>

\* The first attempt is recorded, whatever generation the chain is at; an
\* attempt that this begins is not driven.
Rerecords(f, a, canBegin) ==
    /\ flow[f].pc = "rerecording" /\ IsFresh(a)
    /\ IF Refused(f)
       THEN /\ canBegin
            /\ Goes(f, Stopping(flow[f]))
            /\ UNCHANGED <<backend, faults>>
       ELSE /\ canBegin \/ Recorded(f, a, TRUE).begun # None
            /\ CanBegin(canBegin)
            /\ Commit(flow[f].run, Recorded(f, a, canBegin), a)
            /\ Ends(f)
    /\ UNCHANGED <<chainGen, retried>>

-----------------------------------------------------------------------------
(* Approvals and retries. *)

\* The approval comes for another revision, or twice.
ApprovalRefused(f) ==
    LET r == flow[f].run
    IN  /\ flow[f].pc = "approving"
        /\ run[r].status # "awaiting-approval" \/ run[r].revision # flow[f].seen
        /\ Ends(f)
        /\ UNCHANGED <<backend, chainGen, retried, faults>>

\* shared_agent_approve, and the start of a chain unless the run has a task
Approves(f, a, canBegin) ==
    LET r == flow[f].run
        e == Approve(run[r], a, canBegin)
    IN  /\ flow[f].pc = "approving" /\ IsFresh(a)
        /\ run[r].status = "awaiting-approval" /\ run[r].revision = flow[f].seen
        /\ canBegin \/ NextPending(run[r]) # None
        /\ CanBegin(canBegin)
        /\ Commit(r, e, a)
        /\ IF e.next = None \/ task[r] # None
           THEN UNCHANGED chainGen /\ Ends(f)
           ELSE /\ chainGen' = [chainGen EXCEPT ![r] = @ + 1]
                /\ flow' = [flow EXCEPT ![f] = Drives(f, r, e.next, chainGen[r] + 1)]
                /\ task' = [task EXCEPT ![r] = f]
        /\ UNCHANGED retried

\* What an interrupt, or the cancellation that follows when there is nothing
\* to interrupt, does to an attempt; a dispatched one ends when it ends.
Interrupted(a) == IF attempt[a].phase = "begun" THEN Phase(a, "failed") ELSE attempt

\* retryAgentStage interrupts the attempt it replaces.
Closes(f) ==
    /\ flow[f].pc = "closing"
    /\ attempt' = IF flow[f].attempt = None THEN attempt ELSE Interrupted(flow[f].attempt)
    /\ Goes(f, [flow[f] EXCEPT !.pc = "retrying"])
    /\ UNCHANGED <<run, chainGen, retried, faults>>

RetryRefused(f) ==
    /\ flow[f].pc = "retrying" /\ ~ CanRetry(run[flow[f].run], flow[f].stage)
    /\ Ends(f)
    /\ UNCHANGED <<backend, chainGen, retried, faults>>

\* shared_agent_retry_stage, and the start of the chain under the generation
\* of the click
Retries(f, a, canBegin) ==
    LET r == flow[f].run
        e == RetryStage(run[r], flow[f].stage, a, canBegin)
    IN  /\ flow[f].pc = "retrying" /\ IsFresh(a)
        /\ CanRetry(run[r], flow[f].stage)
        /\ CanBegin(canBegin)
        /\ Commit(r, e, a)
        /\ IF e.next = None \/ ~ IsCurrent(f)
           THEN Ends(f)
           ELSE /\ flow' = [flow EXCEPT ![f] = Drives(f, r, e.next, flow[f].gen)]
                /\ task' = [task EXCEPT ![r] = f]
        /\ UNCHANGED <<chainGen, retried>>

-----------------------------------------------------------------------------
(* Stops. *)

AfterTargets(f, targets) ==
    [flow[f] EXCEPT !.targets = targets,
                    !.pc = IF targets = {} THEN "finalizing" ELSE "interrupting"]

\* The flow of the stop is over.
Stopped(f) ==
    IF flow[f].again THEN Goes(f, [Idle EXCEPT !.pc = "requesting", !.kind = "request"])
    ELSE Ends(f)

\* shared_agent_cancel names the attempts to interrupt.
Cancels(f) ==
    /\ flow[f].pc = "cancelling" /\ ~ CancelRefused(run[flow[f].run])
    /\ run' = [run EXCEPT ![flow[f].run] = Cancel(@)]
    /\ Goes(f, AfterTargets(f, IF IsTerminal(run[flow[f].run]) THEN {}
                               ELSE ActiveAttempts(run[flow[f].run])))
    /\ UNCHANGED <<attempt, chainGen, retried, faults>>

\* A stop that fails is shown as cancelled in the window; the run stays open.
CancelFails(f) ==
    /\ flow[f].pc = "cancelling" /\ CancelRefused(run[flow[f].run])
    /\ Stopped(f)
    /\ UNCHANGED <<backend, chainGen, retried, faults>>

InterruptsOne(f, a) ==
    /\ flow[f].pc = "interrupting" /\ a \in flow[f].targets
    /\ attempt' = Interrupted(a)
    /\ Goes(f, AfterTargets(f, flow[f].targets \ {a}))
    /\ UNCHANGED <<run, chainGen, retried, faults>>

\* shared_agent_finalize_cancel
Finalizes(f) ==
    /\ flow[f].pc = "finalizing"
    /\ run' = [run EXCEPT ![flow[f].run] = FinalizeCancel(@)]
    /\ Stopped(f)
    /\ UNCHANGED <<attempt, chainGen, retried, faults>>

StopFails(f) ==
    /\ flow[f].pc \in {"cancelling", "finalizing"}
    /\ Faulty("ipc")
    /\ Stopped(f)
    /\ UNCHANGED <<backend, chainGen, retried>>

-----------------------------------------------------------------------------
(* Runtimes and the window. *)

AttemptEnds(a) ==
    /\ attempt[a].phase = "dispatched"
    /\ \E phase \in {"completed", "failed"} : attempt' = Phase(a, phase)
    /\ UNCHANGED <<run, window, retried, faults>>

\* The maps of the module are empty again, and no flow goes on.
Reload ==
    /\ Faulty("reload")
    /\ chainGen' = [r \in Runs |-> 0]
    /\ task' = [r \in Runs |-> None]
    /\ flow' = [f \in Flows |-> Idle]
    /\ UNCHANGED <<backend, retried>>

-----------------------------------------------------------------------------
\* A call of flow f that allocates an attempt if it begins a stage
Commands(f, a, canBegin) ==
    \/ \E r \in Runs : Requests(f, r, a, canBegin)
    \/ Records(f, a, canBegin)
    \/ Rerecords(f, a, canBegin)
    \/ Approves(f, a, canBegin)
    \/ Retries(f, a, canBegin)

Step(f) ==
    \/ \E a \in Attempts, canBegin \in BOOLEAN : Commands(f, a, canBegin)
    \/ Dispatches(f) \/ Awaits(f)
    \/ RequestRefused(f) \/ Recovers(f) \/ Reawaits(f)
    \/ ApprovalRefused(f) \/ Closes(f) \/ RetryRefused(f)
    \/ Cancels(f) \/ CancelFails(f) \/ (\E a \in Attempts : InterruptsOne(f, a)) \/ Finalizes(f)

Fails(f) ==
    DispatchFails(f) \/ AwaitFails(f) \/ RecordFails(f) \/ RecoveryFails(f) \/ StopFails(f)

User(f) ==
    \/ UserRequests(f)
    \/ \E r \in Runs : UserApproves(f, r) \/ UserStops(f, r)
                        \/ UserRejects(f, r) \/ UserRetriesRun(f, r)
    \/ \E r \in Runs, s \in Stages : UserRetries(f, r, s)

Next ==
    \/ \E f \in Flows : Step(f) \/ Fails(f) \/ User(f)
    \/ \E a \in Attempts : AttemptEnds(a)
    \/ Reload

Spec == Init /\ [][Next]_vars

\* Every call is answered, with whatever outcome, and turns go on ending; the
\* user need not do anything.  That a turn does not end is the timeout, a fault.
Fairness ==
    /\ \A f \in Flows : WF_vars(Step(f))
    /\ WF_vars(\E a \in Attempts : AttemptEnds(a))

FairSpec == Spec /\ Fairness

-----------------------------------------------------------------------------
(* Properties. *)

\* Every variable has its type; a stage that runs has an attempt that was begun
\* for it.
TypeOK ==
    /\ run \in [Runs -> Run]
    /\ attempt \in [Attempts -> Attempt]
    /\ chainGen \in [Runs -> Nat]
    /\ task \in [Runs -> Flows \cup {None}]
    /\ flow \in [Flows -> Flow]
    /\ retried \in [stages : Nat, runs : Nat]
    /\ faults \in [AllFaultKinds -> Nat]
    /\ \A r \in Runs, s \in Stages : run[r].stage[s] = "running" =>
          LET a == run[r].attempt[s]
          IN  a # None /\ attempt[a].run = r /\ attempt[a].stage = s

HasDispatched(f) == flow[f].pc \in {"awaiting", "recording"}

\* A run has one driver: however requests, approvals, retries and recoveries
\* overlap, of the chains of a run one at most is of the current generation,
\* and no two, current or not, wait for the same attempt or record it.
OneDriver ==
    \A f, g \in Flows : f # g /\ IsDriving(f) /\ IsDriving(g) =>
        /\ flow[f].run = flow[g].run => ~ (IsCurrent(f) /\ IsCurrent(g))
        /\ HasDispatched(f) /\ HasDispatched(g) => flow[f].attempt # flow[g].attempt

\* A stage behind a gate is not begun before the user approved, although
\* records are repeated, late, or those of attempts that a retry replaced.  The
\* code keeps it unless an append fails between the outcome and the end of the
\* command, and the record is repeated.
GateHolds ==
    \A r \in Runs : \A s \in Gated : s < N /\ run[r].attempt[s + 1] # None =>
        \/ run[r].approved >= Cardinality({g \in Gated : g <= s})
        \/ faults["log"] > 0

Lifecycle ==
    INSTANCE RunLifecycle
    WITH phase <- [r \in Runs |-> IF IsOpen(run[r]) THEN "open" ELSE run[r].status]

\* The commands implement the life cycle of runs: one open run in a session,
\* and an outcome that is final, whatever records, approvals, retries and
\* stops arrive later.
LifecycleRefined == Lifecycle!Spec

\* A stop that gets to its end has ended the run, whatever became of earlier
\* stops of that run: docs/architecture/multi-engine-collaboration-
\* orchestration-design.md section 15.1 says that stopping can settle a run.
StopSettles ==
    [][faults' = faults =>
         \A f \in Flows : flow[f].kind = "stop" /\ flow'[f].kind # "stop" =>
             ~ IsOpen(run'[flow[f].run])]_vars

\* Nobody has to do anything for run r.
Rests(r) == ~ IsOpen(run[r]) \/ run[r].status = "awaiting-approval"

\* A run goes on without the user: unless something fails, a stage is retried
\* or cannot be begun, no run stays open forever but to wait for an approval.
\* An approval or a stop that meets a chain leaves nobody without a driver.
ChainProgress ==
    []<>(\/ \A r \in Runs : Rests(r)
         \/ TotalFaults > 0 \/ retried.stages > 0)
=============================================================================
