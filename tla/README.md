# Verification of the shared-session core of Doge

Doge is a desktop client (React front end, Tauri/Rust back end) for coding
agents. Its own core logic is the *shared session*: one conversation that is
carried, turn by turn, by different native agent runtimes (Codex, Claude, Grok,
Gemini, ...). The back end keeps the conversation in an append-only event
database, prepares a context package for the runtime that is to answer, sends
the prompt, listens to the runtime's events and records how the turn ended.
Whatever is lost on the way (a reply, a process, an event), a prompt must not
be sent twice, a turn must not be recorded as completed when it was not, and
the next turn must remain possible.

On top of it a *squad run* lets several runtimes work on one request, stage
after stage. Beside it the window has machinery of its own, of which the queue of
the start-up work is the part with the most interleavings.

This directory models these parts in TLA+ and checks them with TLC. With TLAPS it
proves every safety property that these runs find to hold: of the event database,
its leases, the squad run, the runtime coordinator and the start-up queue without
restriction; of the turn lifecycle, types and that no turn is completed unaccepted
for any number of windows, the rest for one window. Liveness is model-checked.

## 1. Inventory

Paths are relative to `src/src-tauri/src/` unless they start with `features/` or
`services/` (relative to `src/src/`).

| component | state | operations | hard behaviours | what makes it correct | modelled |
|---|---|---|---|---|---|
| **shared event log** `shared_event_log/{writer,schema,checksum}.rs` | SQLite: `shared_event_log`, `shared_sessions_v2.next_sequence`, `shared_binding_state`; an actor thread and its mpsc channel | `append_event`, `append_event_with_binding_guarded`, `upsert_binding_state`, `create_session_target` | kill at every transaction boundary (`TxBoundary`), failed statements, lost replies and repeated calls, three idempotency keys | a fact is recorded once; dense numbers; one open linear turn; fact and binding row move together | yes, proved |
| **workspace mutation lease** `writer.rs` `change_mutation_lease`, `rebuild_mutation_lease_index` | one row per workspace, lease facts | acquire, release, rebuild at open | rows are rebuilt from facts in wall-clock order; lost replies | exclusion, epochs as fencing tokens, rebuild = lost row | yes, proved |
| **shared turn lifecycle** `shared_session_v2.rs`, `shared_context/delivery.rs`, settlement sink of `event_sink.rs` | attempt facts, binding row (state, pending delivery, two cursors, trust, generation) | begin, prepare, dispatch, acceptances, terminal commit, cancel, recover, abandon, rebuild, reattach | every read-modify-write is two steps; several windows and the event path at once; crash between prompt and response | prompt sent once; completed only when accepted; cursors follow acknowledgements; settlements handled | yes, safety proved, most of it for one window; facts other than those of attempts left out |
| **shared runtime coordinator** `shared_runtime_coordinator.rs` | per attempt an accumulator, identity maps, replay barriers, buffer of unowned events, two `Notify`s | register, hold native session, bind runtime turn, ingest, drain, wait for the echo or the settlement, remove | early, late, repeated events; a bounded buffer; lost wake-ups | events reach their own attempt in order, first terminal decides, waiters return | yes, safety proved; assembly of texts and tools left out |
| context compiler, artifact store `shared_context/{compiler,artifact_store}.rs` | content-addressed blobs, budgets | compile a package from facts, project large items | pure; budgets at their limits | deterministic packages, nothing dropped silently | no (planned) |
| usage ledger `shared_event_log/ledger.rs` | revision chains | record, revise | duplicate and out-of-order revisions | one chain without forks | no (planned next) |
| start-up recovery, legacy import `shared_event_log/recovery.rs`, `canonical/shadow_v0.rs` | snapshots, import facts | recover, import once | crash in the middle of an import | a repeated import changes nothing | no (planned) |
| canonical validation, assembly `canonical/{validator,assembler}.rs` | none (pure) | validate and assemble facts | - | accepted facts are well formed | no |
| shared projection `shared_projection/` | checkpoints per session | full and incremental projection | stale checkpoints, late facts | incremental = full | no (planned) |
| **squad orchestration** `agent_orchestration/{commands,projection,support}.rs`, `features/multi-agent/runtime/executor.ts` | facts of runs and stages in the log; in the window the generation of a run's chain and the task of an approval or retry | request, approve, record and advance, retry a stage or a run, reject, stop, recover | async flows overlap between any two calls; late and repeated records; failed appends, dispatches and stages; reload | one driver per run; gates hold; one open run, outcomes are final; somebody drives an open run | yes, texts and the summary turn left out |
| send state machine `features/shared-session/` | per-thread send state | nine-state transition table | late answers | no illegal transition | no (planned) |
| **start-up orchestrator** `features/startup-orchestration/utils/startupOrchestrator.ts` | queue, promises and running requests by key, counters, stale generations, idle slice | join or queue, drain, race of body and timer, fallback, cancel by key, workspace or all, resume | timeouts racing completions, cancelled bodies that go on, keys used again | limits, no lost wake-up, cancellations reach, each caller answered | yes, safety proved |
| event backpressure `services/eventBackpressure.ts`, `event_sink.rs` | bounded queue | enqueue, flush, drop | full queue | critical events pass in order | no (planned) |
| managed runtime pool `runtime/` | processes, leases, budgets | acquire, release, evict | stop racing acquire | pinned runtimes are not evicted | no (planned) |
| native continuation, account broker, task run store | files, secrets, local storage | - | - | - | no |
| engines, codex, backend, email, wechat, web service, git, workspaces | processes and network | - | mostly I/O | - | no: their events and answers are the environment of the models above |

How they interact. A window calls a command of `shared_session_v2.rs`. The
command reads the log and the binding row, sends commands to the *writer* actor
(synchronously, one reply per command), registers the attempt with the
*coordinator*, sends the prompt to an *engine*, and awaits the response and the
acknowledgement. Engine events go through `event_sink.rs` to the coordinator;
when an event settles an attempt, the event path commits the terminal fact by
itself, and so may the window that awaits the turn. The squad executor of the
window requests a run from the squad commands, which append the facts of the run
and begin the turn of a stage; the window prepares, dispatches and awaits that
turn by the same commands as any other, asks to have it recorded, and is given
the next one. The agents of a run take *leases* from the same writer. A restart
empties the coordinator and the maps of the window and keeps only the database.
The start-up orchestrator stands alone: hooks of the window give it bodies that
call the back end.

## 2. Modules

```
EventRows  <-  CanonicalLog  <-  SharedEventLog  <-  MCSharedEventLog
               (abstract)        (actor, crashes) <-  SharedEventLogProofs
MutationLease       <-  MCMutationLease,  MutationLeaseProofs  (with Minima)
SharedTurn          <-  MCSharedTurn,  SharedTurnProofs  <-  SharedWindowProofs
RuntimeCoordinator  <-  MCRuntimeCoordinator,  RuntimeCoordinatorProofs  (with Minima)
AgentControl        <-  AgentExecutor  <-  MCAgentExecutor
                        RunLifecycle   (abstract, instantiated by AgentExecutor)
                        AgentExecutorProofs   (with Minima)
StartupOrchestrator <-  MCStartupOrchestrator,  StartupOrchestratorProofs  (with Minima)
```

**EventRows** is the data: an event, its three idempotency keys (event id;
attempt and fact; dedupe key), the lookup in the order of the code, and which
turns are unresolved. **CanonicalLog** is what the database promises: `Record`,
`MoveBinding` and `OpenSession`, each one atomic step. It also states the
callers' discipline as `RequestAssumption` (only `begin_turn_core` records a
canonical `turnRequested` of the linear thread, with the guard).

**SharedEventLog** is the actor: `Send` puts a command in the channel, `Take`
opens the transaction, `LookUp`, `BumpSequence`, `InsertRow`, `Commit` are the
stretches between the boundaries of `TxBoundary`, `Upsert` is the transaction
without an event, `RollBack` is a failing statement or COMMIT, `Crash` a kill at
any point, `Respond` the reply. `view` is what the open transaction sees, the
variables of CanonicalLog are what is durable.

**MutationLease** takes a writer command as one step (SharedEventLog shows why
that is sound). `Acquire` and `Release` are `change_mutation_lease` with its
outcomes; `Deliver` is the arrival of the reply, `Reopen` a new process, which
loses the replies and rebuilds the rows. The agent process that works under the
lease (`working`) may survive. Time is any element of `Times` at every call.

**SharedTurn** is the lifecycle of the turns of one session on one binding. A
command of a window and the event path are processes with a list of steps to do
(`todo`). A step reads the log and the row and either changes memory or computes
a writer command (`cmd`); `Execute` is the writer applying it. As no lock spans
the two, everything can happen in between. Commands: `BeginTurn` .. `Drain` are
the two commands begin and dispatch in the order of the code, `AwaitTerminal`
the third; `Redispatch`, `Reattach`, `CommitSettled`, `RequestRecovery`,
`CancelAttempt`, `RecoverAttempt`, `RequestRebuild`, `Abandon` are what the UI
offers. `Terminal` is the runtime reporting an end, `Crash` the application
dying. Four kinds of runtime are distinguished, by how a delivery is
acknowledged: by identity (`codex`), identity with an import of the history
(`codex-import`), an echo of the context marker (`claude`), and the acceptance
of the prompt only (`grok`).

**RuntimeCoordinator** is the in-memory owner of the turns with the events that
reach it. Each method is under one mutex and so one step; waiting methods are a
step per await: `Look`, `Enable`, `LookAgain`, `Wake` for `wait_for_settlement`
and `CheckAck`, `WakeAck`, `AckTimeout` for the wait for the echo. The
`Notify` primitive of tokio is modelled from its use: `notify_one` stores a
permit, `notify_waiters` wakes those that are enabled. A batch of events is
applied by one operator that says what the loop over it leaves (`Applied`,
`QueuedEffect`): the first event that names a runtime turn, whether an echo comes
before the first terminal, and that terminal.

SharedTurn contains an abstraction of RuntimeCoordinator (a barrier, a queued
terminal, the settlement); a refinement between the two is part of the plan.

**AgentControl** is the back end of a squad run without state of its own: `Run`
is the projection of its facts (`project_agent_runs`), an operator per fact says
what it does to the projection, and an operator per command gives the run it
leaves, the stage it begins and the attempt it hands out. A command holds a lock
from its first read to its last append, so this is what other commands see. The
log's idempotency decides much here: it takes one outcome fact for an attempt
and one cancel request for a run, so a retry's close and a late record of the
same attempt exclude each other (`Judged`, `Conflicts`, `RecordRefused`).

**AgentExecutor** composes it with the flows of the window. A flow is a record
with a `pc` at the call it is about to make; a step is that call together with
what the flow does until the next. `driveAutoChain` is `Dispatches`, `Awaits`,
`Records`; its catch in a request is `Recovers`, `Reawaits`, `Rerecords`;
`stopAgent` is `Cancels`, `InterruptsOne`, `Finalizes`, with `CancelFails` when
the log refuses the request; `retryAgentStage` is `UserRetries` (the click takes
the generation), `Closes`, `Retries`. `chainGen` and `task` are the maps
`chainTokens` and `running`; an approval that throws leaves `running` as its stop
begins, since its catch returns the stop without awaiting it (`Leaves`). The turn of a stage is reduced to begun,
dispatched, completed or failed (SharedTurn has the rest).

**RunLifecycle** is what the commands promise about runs: requested one after
the other, at most one open, an outcome that is final. AgentExecutor implements
it under a mapping of the projection (`LifecycleRefined`).

**StartupOrchestrator** names a request by its generation. An action is what
runs between two awaits with the microtasks that follow at once: `Run`,
`BodyWins`, `TimesOut`, `FallbackEnds`, `OrphanEnds` (a body nobody waits for),
the three cancellations, `ResumeIdleDrain`. `Drain` is the loop of `drainQueue`,
a recursive function: each turn takes the head of the sorted queue (`First`) and
passes over it, starts it, or yields and is over (`Visit`).

### Simplifications

* Data is abstract: payloads, packages, markers and checksums are values that are
  equal or not. A context cursor names the attempt whose package it stands for.
* SharedTurn: adjacent reads of log and row are one step; errors of the writer
  itself are in SharedEventLog and not repeated; facts of kinds that decide
  nothing here (recovery flags, control) are left out, with the collision of
  their ids within a millisecond; that two paths commit the same terminal within
  one millisecond or not is a nondeterministic duplicate or conflict; an
  interrupt shows only as the terminal the runtime then reports; an attempt has
  one runtime turn.
* RuntimeCoordinator: one provider, one native session; deltas of text, tools
  and reasoning are one kind; the provisioning hold, which delays UI events
  only, is left out; terminals name their runtime turn; a window waits for
  the settlement once the dispatch is over; the interrupt is asked for after the
  runtime turn is bound.
* MutationLease: attempts are sealed to a workspace and a session, as in a run
  plan.
* AgentControl: the statuses implementing and reviewing are one; the two facts of
  `append_failed_and_settle` are one, and so are the close and the begin of a
  retry up to the failure of the begin; the workspace root does not change under
  a run; an append fails in `record_stage_and_maybe_advance` only (`TornRecord`);
  a second cancel request of the same millisecond and reason, a replay, is left
  out; `shared_agent_record_plan` and `_review`, other names of the same command,
  are not called by a flow.
* AgentExecutor: one session; a command and the arrival of its answer are one
  step; the user acts on the current projection, from a surface that may be
  mounted anew at any time and so forgets that it is busy; publishing, live text
  and the summary turn are left out.
* StartupOrchestrator: every caller cancels with the reason `stale`, as all of
  the repository do; a body returns or throws, which differs for its caller only;
  nobody asks for the key of a timed-out request in the microtasks between its
  answer and its `finally`.

## 3. Runs

| run | instance | checks | shows |
|---|---|---|---|
| `event_log` | 2 callers, 12 commands, 3 sends, 1 kill | `KeysUnique`, `SequencesDense`, `OneOpenTurn`, `ToldIsDurable`, refinement `ImplementsLog`, liveness `EveryCallReturns` | collisions by each of the three keys, two turns that compete, a replay under another payload, a kill at every boundary |
| `lease` | 3 attempts, 2 workspaces, 2 sessions, 3 clock readings, 4 facts | `MutualExclusion`, `RowAgreesWithFacts`, `RebuildRestores`, `EpochGrantedOnce`, `LoopRebuilds`, `EpochFence` | exclusion survives lost replies, restarts and any clock; the row loses at most a release |
| `lease_clock` | the same | `NoInventedAuthority` **violated** | finding 1 |
| `turn` | 1 window, 4 runtimes, 2 turns, 2 generations, 1 crash | `SentOnce`, `PendingIsOpen`, `TrustIsEarned`, `CursorsAdvance`, `SentWhileOpen`, `SettlementIsHandled` | with one window that waits for the event path the lifecycle is right, also across a crash and a rebuild |
| `turn_overlap` | the same with commands at any time (`Patient` = FALSE) | `CompletedWasAccepted`, `CursorsFollowDelivery` | what does not depend on the order of window and event path |
| `turn_commit_race` | 1 turn | `CompletedLeavesUsable` **violated** | finding 2 |
| `turn_revived` | 1 turn, 2 generations, overlap | `GenerationsAdvance` **violated** | finding 3 |
| `turn_two_windows` | 2 windows, 1 turn | `SentOnce` **violated** | finding 4 |
| `coordinator` | 2 turns on a native session, buffer of 2, one waiting task | `SettledByOwnTurn`, `NothingOvertakes`, `FirstTerminalDecides`, liveness `WaiterReturns`, `EchoIsNoticed`, `TerminalSettles` | early, late and repeated terminals, deltas without identity, overflow, cancellation and removal at any time |
| `squad` | 2 runs of 3 stages, the first behind a gate, 2 flows, 7 attempts, 1 retry, 1 fault | `OneDriver`, `GateHolds`, refinement `LifecycleRefined`, liveness `ChainProgress` | requests, chains, approvals, retries, stops, recoveries and a reload that overlap |
| `squad_stop` | the same, the only fault a reload | `StopSettles` **violated** | finding 5 |
| `startup` | 3 requests over 3 keys, 2 workspaces, limits of the window | `SlotsAccounted`, `NothingIdles`, `CancelReaches`, liveness `EveryRequestAnswered` | timers, late bodies, keys used again, cancellations, idle slices |

Every component has one type invariant besides (`TypeOK`; in the coordinator
`TypesWithinLimit`, which includes the limit of the buffer). Deadlock is not checked where a behaviour
ends by design: all callers have used up their sends, all turns are over, both
runs are settled, the requests are used up.

Bounds. `MaxSends` = 3 lets two facts and a replay, or two contenders and a
terminal, meet; keys collide pairwise, so three facts show each case. `MaxFacts`
= 4 is two acquires and two releases, the shortest sequence in which an epoch is
handed over and lost again. Two attempts are the shortest sequence in which a
turn can meet the remains of the turn before; two generations one rebuild.
`QueueLimit` = 2 fills the buffer with the events of one turn while the other
still reports. `MaxCrashes` = 1 places a kill at every step; a second one starts
from states of the same kind.

In `squad` three stages give a chain a successor that is neither the gated first
stage nor the last one; two flows are a chain and what interferes with it; seven
attempts are three stages of the first run, a retry, and the stages of the second.
The second run is requested and left to itself (`Attended`): it is there for the
life cycle, and what a user does to it would repeat the first. `MaxFaults` = 1 and
`MaxRetries` = 1 let one fault of any kind (`FaultKinds`) meet one retry; the bounds
are these constants, and the actions add none of their own. Without the liveness
property the instance was also explored with two retries (of the same stage, too),
with two faults (of the same kind, too), with a gate at the first two stages, and
with three flows (up to 4.6 million states each): the safety properties and the
refinement hold. In `startup` three requests are one that
is cancelled or times out, one of the same key that follows it while the body of
the first goes on, and one that waits for the slot.

`Patient` is an assumption of the run `turn`: a window issues its next command
only while the event path is at rest (a user is slower than a commit of a few
milliseconds). It is not guaranteed by the code. Without it `SentOnce`,
`PendingIsOpen`, `TrustIsEarned`, `CursorsAdvance` and `SentWhileOpen` can be
violated, always in the way of finding 3: a whole row computed from an old read is
written back. `turn_overlap` therefore checks what remains true. Section 5 proves
both halves: what needs the patient window, and what does not.

Fairness. `SharedEventLog`: weak fairness of the actor's own steps (a dedicated
thread that loops on `recv`). `SharedTurn`: weak fairness of each process (an
async task or command that was started is polled until it returns); none for
the runtime or the user. `RuntimeCoordinator`: weak fairness of the waiting
task, of the dispatch's wait for the echo and of the drain that follows it; none
for events, time-outs and users. `AgentExecutor`: weak fairness of the steps of each
flow (every call to the back end is answered, with whatever outcome) and of the
ends of turns (a turn that does not end runs into the 30 minutes of
`withTimeout`, which is the fault `ipc`); none for users and faults.
`StartupOrchestrator`: weak fairness of the timers, of the fallbacks, which only
build a value, and of the scheduled resumption; none for bodies, which wait for
the back end and may never end.

What the properties of the squad exempt. `GateHolds` does not hold after a failed
append in the middle of a record: the outcome of a stage is then in the log
without its gate, and the repeated record finds the stage done and begins the next
one, whatever its status. `ChainProgress`
exempts faults, a stage that was retried, and a run that waits for its approval:
after a failed recovery, a refused retry or a reload the code counts on the user
to retry or stop the run.

## 4. Findings

1. `lease_clock` (`shared_event_log/writer.rs:335`). The rebuild replays lease
   facts ordered by `committed_at`, the caller's wall clock. If the clock goes
   back between acquire and release, the release is replayed first and the
   rebuilt row shows the lease as held again, under the epoch that was released;
   the comment at 316-317 says that rebuilding never invents authority.
   Exclusion still holds: the attempt that is given the lease back is the last
   holder. But its next release builds a fact with the id of the recorded one and
   another time, which is an idempotency conflict, so the workspace stays taken.
2. `turn_commit_race` (`shared_session_v2.rs:4761`). The window that awaits a
   turn and the event path both commit the same settlement, each with a
   `committed_at` of its own, so the payload checksums differ, the second append
   is a conflict rather than a replay, and the binding of a turn that completed
   is flagged `recovery-required`. The comment at 4762 and
   `openspec/specs/shared-send-pipeline/spec.md:74` call this commit idempotent.
3. `turn_revived` (`shared_session_v2.rs:2198`). `mark_recovery_core` writes a
   whole row computed from an earlier read. If a rebuild comes in between, the
   archived generation replaces the new one; 2303 and 3224-3225 say that a
   late terminal cannot do that.
4. `turn_two_windows` (`shared_context/delivery.rs:170`). The check for the phase
   `prepared` and the write of `sent` are two writer commands. Two dispatches of
   one attempt that overlap both pass; 168-169 calls this a durable CAS after which the
   prompt cannot be sent again.
5. `squad_stop` (`agent_orchestration/commands.rs:1072`). The cancel request of a
   run has one fact id, but carries the time and the reason. When the first stop
   does not get to the settlement (here: the window is reloaded), every later one
   is an idempotency conflict, before it learns which attempts to interrupt. The
   window shows the run as cancelled; in the log it stays open and refuses the
   next run, although `docs/architecture/multi-engine-collaboration-orchestration-design.md:648,699`
   says that a stop settles the run and `src/i18n/locales/en/multiAgent.ts:66`
   that the user can start again.

Met while modelling, without a run of its own:

* A body of a cancelled start-up request is stale only until the timer of the
  request fires: `finally` (`startupOrchestrator.ts:377`) takes the generation out
  of the set that `isStale()` reads. A thread list that arrives later is committed,
  although the comment at 205 and
  `openspec/changes/optimize-cold-start-hydration-orchestration/specs/sidebar-list-timeout-fallback/spec.md:22`
  say that it is not, unless a guard of the hook that loads it holds it back.
  `CancelReaches` therefore speaks of requests whose timer has not fired.
* A chain superseded by a retry whose record meets the close of its attempt gets
  an error outside the check of the generation, and the catch of an approval (or
  of a request, after its recovery) stops the run (`executor.ts:289`).
* The recovery of a request may begin the next stage and does not drive it
  (`executor.ts:656`); a gated last stage leaves a run that is approved and has
  nothing to run (`commands.rs:436`).
* A retry takes the generation before it knows whether it is accepted
  (`executor.ts:975`): when it is refused, the old chain ends after its turn and
  nobody drives the run. A stage begun between a cancel request and the settlement
  is not interrupted and its turn goes on (`executor.ts:854`).
* A run settled as succeeded because a later stage could not begin shows the
  stages that never ran as failed, its summary as skipped (`commands.rs:750`). A
  first stage whose turn cannot be written leaves an open run without an attempt
  (`commands.rs:294`).
* The slot of a thread scan is free when the scan is answered, so the bodies of
  two scans may run at once, which the comment at `startupOrchestrator.ts:537`
  excludes.
* A contender for a lease that asks again under the same epoch gets a conflict
  instead of busy (`writer.rs:1438`); a repeated dispatch whose target is unusable
  commits a failure before it looks at the phase (`shared_session_v2.rs:3988`,
  which no caller issues); two recovery flags of one millisecond conflict
  (`shared_session_v2.rs:824`); a late event without a turn identity goes to the
  attempt that uses the native session now (`shared_runtime_coordinator.rs:1058`).

## 5. Proofs

`SharedEventLogProofs` proves for every set of callers, sessions, events and
requests that satisfies `RequestAssumption`, and for every number of sends and
kills:

| theorem | says |
|---|---|
| `TypeCorrect` | `Spec => []TypeOK` |
| `LogInvariant` | `Spec => []LogInv` |
| `RecordedOnce`, `NumberedWithoutGaps`, `LinearThread`, `AcknowledgedIsDurable` | the four safety properties of the run `event_log` |
| `Implementation` | `Spec => ImplementsLog`: the actor implements CanonicalLog |

None of the four properties is inductive. A row that `Commit` makes durable was
checked against the log several steps earlier, so the invariant has to say
that the check is still true: `TransactionInv` states, per phase, that the event
in hand is fresh, that a guarded one finds no unresolved turn, that `seq` is the
number the committed counter will give, and that the view differs from the
database by exactly what the steps so far have done. It is preserved because the
actor alone changes the database and works on one command at a time.
`LogInv` is `TypeOK`, `TransactionInv` and the four properties. `OneOpenTurn`
rests on the guard: a linear request is recorded only when nothing is
unresolved, and a commit never makes a resolved turn unresolved. The refinement
needs `LogInv` too: a `Commit` is a step `Record` only because the event is fresh.

`MutationLeaseProofs` proves for every set of attempts, workspaces, sessions and
clock readings (assumptions: each attempt is sealed to one workspace and one
session; `None` is neither a row nor an answer; `MaxFacts` is any number):

| theorem | says |
|---|---|
| `LeaseTypeCorrect` | `Spec => []TypeOK` |
| `LeaseInvariant` | `Spec => []LeaseInv` |
| `Exclusion`, `FencingTokens`, `RebuildAgrees`, `RebuildExact` | the safety properties `MutualExclusion`, `EpochGrantedOnce`, `RowAgreesWithFacts`, `RebuildRestores` |
| `Fencing` | `Spec => EpochFence`, the action property |
| `LoopAgrees` | `Spec => []LoopRebuilds`: the loop over the facts computes the row the proofs speak of |

Here the type invariant itself is not inductive: a rebuild takes its row with a
CHOOSE, which is only typed when there is a fact to choose. `RowInv` therefore
ties each row to its facts: the row carries their highest epoch, all facts of
that epoch are the holder's, one of them is the acquire, and a held row is one
whose release, if there is one, sorts before the acquire (that is the clock of
finding 1). `FactsInv` adds what makes the order of the facts total and the ids
unique: sequence numbers are given out once and in the order of the commits. From
these the lemma `RebuiltRow` shows that a rebuild restores a held row exactly,
which is why `WorkInv` (whoever works holds the row) survives a restart, and
`MutualExclusion` follows.

The rebuild itself is a loop over the sorted facts, `RebuildLoop`, a recursive
function on sets; the proofs speak of the row of the fact that decides, `Rebuilt`.
`LoopAgrees` shows that these are the same: by induction over the subsets of the
facts (`SubsetsUpTo` in `Minima`) the loop has, after each fact, the row of the last
fact of the highest epoch so far. It needs that the order of the facts is strict and
total (`BeforeOrders`), so that the last fact and the deciding one are unique.

`AgentExecutorProofs` proves for every set of runs, stages, gates, flows and
attempts, and every value of the constants `MaxRetries` and `MaxFaults`. They count
retries of whatever stage and faults of whatever kind: a stage may be retried again
while its last retry goes on, and a recovery may fail as the dispatch before it did.
A behaviour that breaks an invariant does so after finitely many retries and
faults, so nothing is left out by bounds of any value. (Assumptions:
`ControlAssumption` and `ExecutorAssumption`: runs and attempts are numbers, there
is a stage, `None` is not one of the values it stands beside.)

| theorem | says |
|---|---|
| `TypeCorrect` | `Spec => []TypeOK` |
| `Implementation` | `Spec => LifecycleRefined`: at most one run is open, outcomes are final |
| `OneDriverHolds` | `Spec => []OneDriver`: no two current chains of a run, no attempt in two hands |
| `GatesHold` | `Spec => []GateHolds`: nothing behind a gate begins before its approval, unless an append failed |

Its first part holds what the commands do to a run, one lemma per command
(`IsEffect`: the run stays well kept, at most one stage gets the fresh attempt, a
run that has ended is left alone). A command takes the first stage of a kind with a
CHOOSE of a least element; `Minima` derives from the well-founded inclusion of finite
sets that there is one. None of the properties is inductive. `TypeInv` ties the
parts together that the types need: the attempt of a stage was begun for it, and
what a flow works on exists. The refinement follows from it and from `LifeStep`, which
every step satisfies: one run changes at most, and it is requested, goes on or has
ended. `DriverInv` adds `GenerationsInv` (no flow has a generation that was not
given out, no two chains of a run share one) and `TurnsInv` (the attempt of a
flow that awaits it was dispatched, and nobody else awaits it). The danger for a gate
is a record that meets a stage that has succeeded already. `GateInv` therefore
relates the stages to the outcomes in the log and these to the flows, as long as no
append has failed: a stage that ended has the outcome of its attempt, so has an
attempt that was replaced (`OutcomesInv`), and nobody is about to record an attempt
that has succeeded, but the recovery of a request (`LeadsInv`).

`SharedTurnProofs` proves for every number of windows, turns and generations, every
overlap (`Patient` or not) and every number of crashes (assumptions:
`TurnAssumption`, turns and generations are numbered from 1; `NoneAssumption`, as
above):

| theorem | says |
|---|---|
| `TurnAlwaysFits` | `Spec => []TurnInv`, the inductive invariant |
| `TypeCorrect` | `Spec => []TypeOK` |
| `CompletedOnlyAccepted` | `Spec => []CompletedWasAccepted` |

Neither is inductive, not even the types: that the head of a list is a step that
can be taken, and that a command belongs to it, depends on how lists are made and
cut. `TurnInv` therefore says that the rest of every list of steps is a `Plan`: it
has nothing to do but flag or rebuild when it works for no turn; it has a snapshot
to commit; and `acceptTurn` is still ahead only behind `accept` and `prompt`, or
when these two are done. A list is spoken of by what it contains and in which
order, never by its shape, so that the lemmas about rests (`RestFacts`) and joins
(`JoinFacts`) of lists serve all 25 steps. `AcceptedInv` turns that into the
property: `acceptTurn` is recorded only when the context is accepted and the prompt
is out, and `PlanTerminal` computes a completion only from a log that has the
acknowledgement; a command for a completion stays good because facts are never
taken back.

`SharedWindowProofs` builds on it for one window, with every number of turns,
generations and crashes. The first six theorems assume `OneWindow`, which is
`Patient` and at most one client; the last one only `OneClient`. These are not
conveniences: the runs `turn_revived` (one window that is not patient) and
`turn_two_windows` (two) violate `GenerationsAdvance` and `SentOnce`.

| theorem | says |
|---|---|
| `PromptSentOnce` | `Spec => []SentOnce`: also across repeated dispatches, reattachment and crashes |
| `PendingStaysOpen` | `Spec => []PendingIsOpen`: the pending delivery is that of the open turn, in its generation |
| `TrustStaysEarned` | `Spec => []TrustIsEarned`: a trusted native history is one that took a package |
| `CursorsOnlyAdvance` | `Spec => CursorsAdvance`: no write takes a cursor back within a generation |
| `GenerationsOnlyAdvance` | `Spec => GenerationsAdvance`: no archived generation comes back |
| `SentOnlyWhileOpen` | `Spec => SentWhileOpen`: no prompt leaves for a turn that is over |
| `CursorsStayBehind` | `Spec => []CursorsFollowDelivery`, patient or not |

A patient window still overlaps with the event path, because a turn may end while the
window publishes, drains or awaits it. The first six theorems share one invariant,
`WindowInv`, which says exactly how far that overlap goes. A turn is *shared* when
the event path works for it or may start to: its barrier is down and it is not
settled. `SharedInv` says that such a turn is accepted, that no other is open, and
that the window is idle, or finishing the same turn (with a flag only behind the
commit), or repeating the dispatch of a turn that is over. Everything ahead of that
the window does alone, so the row it has read is the row it replaces (`CmdInv`: what
each step has computed, for the row as it is now). `SendInv` then follows a dispatch: past the check, the
turn is open and the pending delivery is its own, in the phase `prepared` as long as
`sent` is ahead, and the prompt is only behind `sent`. That gives `SentOnce`, and
shows why it takes a window that is alone: `check` and `sent` are two writer commands.
`RemoveInv` and `OwnedInv` are about the coordinator: a turn that is over is in it only
until somebody removes it, and who settles a turn removes it first; otherwise a
terminal that arrives late would start the event path behind the back of the next
turn. `NumInv` says that turns are numbered as requested and the open one is the
newest, which is why cursors advance.

`CursorsStayBehind` cannot use any of this: without patience a row computed from an
old read comes back at any time, with an old generation, old cursors and an old
pending delivery. It holds because a row is written as a whole. `CursorInv` speaks of
all rows *in flight*, the durable one and those computed and not yet written. Each of
them is right about itself (`RowsInv`: its committed cursor is not ahead of its
accepted one, the accepted one was acknowledged in this generation, or will be by the
very command that writes the row), so it does not matter which one wins. What a row
says of its pending delivery has to stay true until the acceptance turns it into a
cursor. For this, all rows in flight with the delivery of one turn have one
generation, which holds since a turn is prepared once (`PathInv`): who is about to
prepare a turn has the newest one, and no row in flight has its delivery; all later
rows with that delivery descend from the one that `prepare` computed (`Descends`).
`WindowInv` and `CursorInv` were checked by TLC, as invariants of the instances of
`turn` and `turn_overlap`, before they were proved.

`RuntimeCoordinatorProofs` proves for every number of turns, whatever they report
and in whatever overlap with the dispatch, the waiting tasks and the user, and for
every size of the buffer (assumptions: `CoordinatorAssumption`, attempts are
numbers, the buffer holds at least one event, a terminal names its runtime turn;
`NoneAssumption`, as above):

| theorem | says |
|---|---|
| `TypeCorrect` | `Spec => []TypesWithinLimit`: the types, and the limit of the buffer |
| `OwnTurnSettles` | `Spec => []SettledByOwnTurn`: no event of another turn is applied to an attempt |
| `NothingIsOvertaken` | `Spec => []NothingOvertakes`: in order and complete, unless the buffer overflowed |
| `FirstTerminalHolds` | `Spec => []FirstTerminalDecides` |

`Inv` turns on when an attempt is *bound*, that is, knows its runtime turn. Until
`BindRuntimeTurn`, no map leads to it (`Matched`), nothing was applied to it and the
session is held for it from the prompt on (`Staged`), so all that its turn reports
is in the buffer (`Ordered`). As one attempt holds the session at a time, the
buffer has no tracked event of another attempt that is still registered, which is
why binding one, or removing one, may empty it. Once bound, all its named events
reach it, the buffer has none of them any more (`Unclaimed`), and what was applied,
then what is behind the barrier, is what was reported. An event without a turn only
reaches an attempt that is bound, so applying events never binds one. `FirstSettles`
says that the settlement is that of the first terminal that was applied;
with `Ordered` this is the first one reported. The proofs are about *filters* of
sequences, `Kept(es, K)`: what it keeps of an extended, a joined or a filtered
sequence are lemmas by induction. The library's induction theorems have an operator
as a parameter; `Minima` states induction and recursion up to a number with a set
and a function instead (`UpTo`, `RecursionUpTo`).

`StartupOrchestratorProofs` proves for every set of descriptors, every limit of
phases and concurrency keys and every number of requests (`OrchestratorAssumption`:
a phase is one of the five, limits are positive, `None` is not a descriptor):

| theorem | says |
|---|---|
| `StartupTypes` | `Spec => []TypeOK` |
| `SlotsAreAccounted` | `Spec => []SlotsAccounted`: the counters are the requests that hold a slot, within the limits |
| `QueueIsServed` | `Spec => []NothingIdles`: no wake-up is lost |
| `CancellationsReach` | `Spec => []CancelReaches` |

Every action that frees a slot or queues a request computes a state and drains from
there. The invariant is therefore an operator of a state, `Sound`: an action has to
leave a sound one (`FinallyIsSound`, `CancelIsSound`), and `DrainIsSound` makes of any
sound state one that is sound and in which nothing idles. What makes it inductive is
`Placed`: a request that waits, and one that holds a slot, is the promise in flight
for its key, so that a key has one of them at most; a startTask that ends late finds
its slot released and its key in another's hand. The drain is a loop: `LoopInv` is
shown of every turn by induction up to the length of the queue, with a lemma that the
sorted queue has a head (`HeadOfQueue`) and one that counters only take possibilities
away (`CanStartFacts`). `ReleaseIsAccounted` shows in passing that the `Math.max(0, ...)`
of `decrementRunning` never has anything to cut off.

Only model-checked is all liveness: `EveryCallReturns`, `SettlementIsHandled`,
`WaiterReturns`, `EchoIsNoticed`, `TerminalSettles`, `ChainProgress` and
`EveryRequestAnswered`. Liveness under fairness and ENABLED are out of the prover's
reach.

Three limits of these properties. `TerminalSettles` exempts a dispatch that failed: the
code leaves its barrier up (`shared_runtime_coordinator.rs:1201`), and the terminals
behind it settle nothing until the user recovers or abandons the turn. `ChainProgress`
says nothing of a behaviour with a fault or a stage retry. `EveryRequestAnswered` has
as many requests as `MaxRuns`: whether requests of a higher priority that never end
starve a lower one is not asked.

## 6. Plan

Done: (1) the event log with its abstract specification and proofs; (2) the
lease with its proofs; (3) the turn lifecycle; (4) the coordinator; (5) the squad
run with its abstract life cycle and its proofs; (6) the start-up orchestrator;
(7) the proofs of all safety properties of the lifecycle, the coordinator and the
orchestrator.

Next, in this order:

8. `UsageLedger` (`ledger.rs`): revision chains under duplicates and reordering.
9. `Projection`: an incremental projection from a checkpoint equals the full
   one. `LegacyImport`: a crash in the middle of the import and its repetition.
10. `SendStates` and `EventBackpressure` of the front end; the runtime pool; a
    refinement of the coordinator part of SharedTurn by RuntimeCoordinator.

Not modelled and not planned: engines, account broker, email, wechat, web
service, git and workspaces, which are protocol adapters and I/O. They make up
most of the repository; the models cover its control core, not its size.
