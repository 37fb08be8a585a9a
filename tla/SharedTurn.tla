----------------------------- MODULE SharedTurn -----------------------------
(***************************************************************************)
(* The lifecycle of a turn of a shared session: begin, prepare, dispatch,  *)
(* terminal commit, recovery (src-tauri/src/shared_session_v2.rs,          *)
(* shared_context/delivery.rs, the settlement sink of event_sink.rs).      *)
(*                                                                         *)
(* One session and one native binding.  A command of the frontend, and the *)
(* event path that observes the runtime, run as processes.  Each of them   *)
(* reads the log and the binding row, computes a whole new row, and sends  *)
(* it to the single writer: no lock spans the read and the write, so every *)
(* read-modify-write is two steps (an action that plans, then Execute).    *)
(* Reads that follow one another directly are one step.  The coordinator   *)
(* (module RuntimeCoordinator has its detail) is in memory and is lost     *)
(* when the application dies.                                              *)
(*                                                                         *)
(* A context cursor names the attempt whose package it stands for instead  *)
(* of the sequence number before its turnRequested; 0 is no cursor.        *)
(***************************************************************************)
EXTENDS Integers, FiniteSets, Sequences

CONSTANTS Attempts,    \* 1 .. n, in the order in which turns are begun
          Generations, \* 1 .. n, binding operation ids in the order of their creation
          Engines,     \* kinds of native runtime explored
          Clients,     \* windows that issue commands
          Patient,     \* a window issues its next command once the event sink is at rest
          MaxCrashes,  \* bound on the crashes of the application
          None

ASSUME TurnAssumption ==
    /\ IsFiniteSet(Attempts) /\ Attempts = 1 .. Cardinality(Attempts)
    /\ IsFiniteSet(Generations) /\ Generations = 1 .. Cardinality(Generations)
    /\ Engines \subseteq {"codex", "codex-import", "claude", "grok"}
    /\ "observer" \notin Clients
    /\ Patient \in BOOLEAN

VARIABLES facts,     \* the attempt facts of the log, <<type, attempt>>
          committed, \* the snapshot of the attempt's turnCommitted, or None
          genOf,     \* the generation frozen in its turnRequested, or 0
          row,       \* the binding row, or None
          gens,      \* generations created so far
          engine,    \* the runtime of the binding's target
          owner,     \* SharedRuntimeCoordinator: per attempt its entry, or None
          runtime,   \* what became of the attempt's prompt
          prompts,   \* how often the prompt reached the runtime
          procs,     \* the processes
          crashes

durable == <<facts, committed, genOf, row, gens, engine>>
memory  == <<owner, procs>>
world   == <<runtime, prompts, crashes>>
vars    == <<durable, memory, world>>

FactTypes == {"turnRequested", "deliveryPrepared", "deliveryAccepted", "turnAccepted"}

\* Terminal snapshots: what the runtime reports ("missing" is Claude's failure
\* to find its native session), then what the backend itself assembles.
Reported == {"completed", "failed", "missing", "cancelled"}
Snapshots == Reported \cup {"rejected", "user-cancelled", "probe-cancelled", "skipped", "replaced"}

IsCancelled(s) == s \in {"cancelled", "user-cancelled", "probe-cancelled", "skipped"}
IsNegative(s) == s # "completed"

Pending == [attempt : Attempts, phase : {"prepared", "sent", "accepted"}, gen : Generations]

BindingRow == [state     : {"prepared", "creating", "ready", "recovery-required"},
               native    : BOOLEAN,              \* native_session_id is set
               trusted   : BOOLEAN,              \* nativeContextTrust
               gen       : Generations,          \* operationId
               pending   : Pending \cup {None},
               accepted  : Attempts \cup {0},
               committed : Attempts \cup {0}]

\* barrier: events wait until the dispatch has bound and drained the attempt;
\* queued: a terminal that waits; settled: the authoritative settlement.
Owner == [barrier : BOOLEAN, queued : Reported \cup {None}, settled : Reported \cup {None}]

(***************************************************************************)
(* A process: the steps still to do, the attempt it works for, the         *)
(* terminal snapshot it is to commit, whether its package has content, and *)
(* the writer command it has computed and not yet sent.                    *)
(***************************************************************************)
Idle == [todo |-> <<>>, a |-> 0, snap |-> None, transfer |-> FALSE, cmd |-> None]

Procs == Clients \cup {"observer"}

IsAt(p, step) == procs[p].todo # <<>> /\ Head(procs[p].todo) = step /\ procs[p].cmd = None

Rest(p) == Tail(procs[p].todo)

IsIdle(p) == procs[p].todo = <<>>

Start(p, a, snap, steps) ==
    procs' = [procs EXCEPT ![p] = [Idle EXCEPT !.a = a, !.snap = snap, !.todo = steps]]

\* What the process does next; a finished process forgets what it worked for.
GoTo(p, steps) ==
    procs' = [procs EXCEPT ![p] = IF steps = <<>> THEN Idle ELSE [@ EXCEPT !.todo = steps, !.cmd = None]]

Issue(p, c) == procs' = [procs EXCEPT ![p].cmd = c]

Upsert(r) == [fact |-> None, row |-> r, snap |-> None]
AppendFact(f, r) == [fact |-> f, row |-> r, snap |-> None]
AppendTerminal(s, r) == [fact |-> "turnCommitted", row |-> r, snap |-> s]

-----------------------------------------------------------------------------
(* What the readers make of the log and the row. *)

Has(f, a) == <<f, a>> \in facts

Requested == {a \in Attempts : Has("turnRequested", a)}

\* unresolved_attempt_evidence, unresolved_session_operation
Unresolved == {a \in Requested : committed[a] = None}

\* require_attempt_binding_generation
IsCurrent(a) == row # None /\ row.gen = genOf[a]

IsPending(a) == row.pending # None /\ row.pending.attempt = a

Owned(a) == owner[a] # None
Settled(a) == Owned(a) /\ owner[a].settled # None

IdentityAcked == engine \in {"codex", "codex-import"}
Imports == engine = "codex-import"
StrongAck == engine = "claude"

ReadyOrPrepared(native) == IF native THEN "ready" ELSE "prepared"

\* What the dispatch does with an error, depending on whether the runtime may
\* have the prompt.
Ambiguous == <<"mark">>
NotAccepted == <<"fail", "remove">>

-----------------------------------------------------------------------------
(* commit_runtime_snapshot_core, up to its append. *)

\* Mutant: a completion needs no acknowledged prompt.
NeverUnproven(a, s) == FALSE

IsUnproven(a, s) == s = "completed" /\ ~ Has("turnAccepted", a)

\* The generation is gone, or the turn was cancelled or replaced meanwhile.
IsStale(a, s) ==
    \/ ~ IsCurrent(a)
    \/ /\ ~ IsUnproven(a, s)
       /\ committed[a] \notin {None, s}
       /\ IsCancelled(committed[a]) \/ committed[a] = "replaced"

\* No prompt was acknowledged, another terminal is recorded, or the pending
\* delivery belongs to another attempt.
IsRefused(a, s) ==
    /\ ~ IsStale(a, s)
    /\ \/ IsUnproven(a, s)
       \/ committed[a] \notin {None, s}
       \/ committed[a] = None /\ row.pending # None /\ ~ IsPending(a)

\* Mutant: the pending delivery of the finished turn stays.
TerminalRowKeepsPending(a, s, named) ==
    [row EXCEPT !.state = ReadyOrPrepared(named \/ row.native),
                !.native = named \/ @,
                !.trusted = (s = "completed")]

\* Mutant: the committed cursor follows a package nobody has accepted.
TerminalRowSkipsAck(a, s, named) ==
    [row EXCEPT !.state = ReadyOrPrepared(named \/ row.native),
                !.native = named \/ @,
                !.trusted = (s = "completed"),
                !.committed = IF IsPending(a) THEN a ELSE @,
                !.pending = None]

\* The binding row that travels with the terminal.  A settlement the runtime
\* reported names its native session; without any proof of one, it is dropped.
TerminalRow(a, s, named) ==
    LET identity == named \/ Has("turnAccepted", a) \/ row.state = "ready"
    IN  [row EXCEPT !.state = ReadyOrPrepared(identity),
                    !.native = identity /\ (named \/ row.native),
                    !.trusted = (s = "completed"),
                    !.committed = IF IsPending(a) /\ row.pending.phase = "accepted" THEN a ELSE @,
                    !.pending = None]

PlanTerminal(p, s, named, onStale, onError, onDuplicate) ==
    LET a == procs[p].a
        consistent == ~ IsStale(a, s) /\ ~ IsRefused(a, s)
    IN  \/ IsStale(a, s) /\ GoTo(p, onStale)
        \/ IsRefused(a, s) /\ GoTo(p, onError)
        \/ consistent /\ committed[a] = s /\ GoTo(p, onDuplicate)
        \/ /\ consistent /\ committed[a] = None
           /\ Issue(p, AppendTerminal(s, TerminalRow(a, s, named)))

\* commit_observed_runtime_settlement: after the commit the entry of the
\* coordinator goes, after a stale one too; any other error flags the binding.
AfterCommit(p) == IF procs[p].snap = "missing" THEN <<"mark", "remove">> ELSE <<"remove">>

\* Mutant: a terminal that cannot be committed is only logged.
ObserveSilently(p) ==
    /\ \/ /\ IsAt(p, "observe")
          /\ PlanTerminal(p, procs[p].snap, TRUE, <<"remove">>, <<>>, AfterCommit(p) \o Rest(p))
       \/ /\ IsAt(p, "publish")
          /\ PlanTerminal(p, procs[p].snap, TRUE, <<"remove">> \o Rest(p), Rest(p),
                          AfterCommit(p) \o Rest(p))
    /\ UNCHANGED <<durable, owner, world>>

\* "observe" is the command that stops at an error, "publish" the event sink
\* that goes on.
Observe(p) ==
    /\ \/ /\ IsAt(p, "observe")
          /\ PlanTerminal(p, procs[p].snap, TRUE, <<"remove">>, <<"mark">>, AfterCommit(p) \o Rest(p))
       \/ /\ IsAt(p, "publish")
          /\ PlanTerminal(p, procs[p].snap, TRUE, <<"remove">> \o Rest(p), <<"mark">> \o Rest(p),
                          AfterCommit(p) \o Rest(p))
    /\ UNCHANGED <<durable, owner, world>>

\* commit_runtime_snapshot_core with a snapshot of the backend's own
Settle(p) ==
    /\ IsAt(p, "settle")
    /\ PlanTerminal(p, procs[p].snap, FALSE, <<>>, <<>>, Rest(p))
    /\ UNCHANGED <<durable, owner, world>>

\* persist_not_accepted_dispatch and persist_context_prepare_failure: an
\* existing negative terminal is kept, a failed commit is only reported.
FailTurn(p) ==
    LET a == procs[p].a
        negative == committed[a] # None /\ IsNegative(committed[a])
        named == IsAt(p, "failNative") /\ engine # "claude"
    IN  /\ IsAt(p, "fail") \/ IsAt(p, "failNative")
        /\ \/ negative /\ GoTo(p, Rest(p))
           \/ ~ negative /\ PlanTerminal(p, "rejected", named, Rest(p), Rest(p), Rest(p))
        /\ UNCHANGED <<durable, owner, world>>

\* mark_recovery_core: whatever row there is, it is flagged.
MarkRecovery(p) ==
    /\ IsAt(p, "mark")
    /\ Issue(p, Upsert([row EXCEPT !.state = "recovery-required", !.trusted = FALSE]))
    /\ UNCHANGED <<durable, owner, world>>

\* SharedRuntimeCoordinator::remove_attempt
RemoveAttempt(p) ==
    /\ IsAt(p, "remove")
    /\ owner' = [owner EXCEPT ![procs[p].a] = None]
    /\ GoTo(p, Rest(p))
    /\ UNCHANGED <<durable, world>>

-----------------------------------------------------------------------------
(* The writer.  An idempotent append may find its fact recorded: with the
   same content, timestamps included, it succeeds without a write, otherwise
   it is a conflict. *)

AfterSuccess(p) ==
    LET step == Head(procs[p].todo)
    IN  IF step \in {"observe", "publish"} THEN AfterCommit(p) \o Rest(p)
        ELSE IF step = "rebuild" /\ procs[p].cmd.fact = "turnCommitted" THEN <<"remove">>
        ELSE Rest(p)

AfterConflict(p) ==
    LET step == Head(procs[p].todo)
    IN  CASE step = "observe" -> <<"mark">>
          [] step = "publish" -> <<"mark">> \o Rest(p)
          [] step \in {"fail", "failNative"} -> Rest(p)
          [] step = "prepare" -> <<"fail">>
          [] step = "accept" /\ ~ Imports -> Ambiguous
          [] step = "acceptTurn" -> Ambiguous
          [] OTHER -> <<>>

Execute(p) ==
    LET c == procs[p].cmd
        a == procs[p].a
        new == Cardinality(Requested) + 1
    IN  /\ c # None
        /\ \/ /\ c.fact = None
              /\ row' = c.row
              /\ GoTo(p, AfterSuccess(p))
              /\ UNCHANGED <<facts, committed, genOf>>
           \/ /\ c.fact = "turnRequested" /\ Unresolved # {}
              /\ GoTo(p, <<>>)
              /\ UNCHANGED <<row, facts, committed, genOf>>
           \/ /\ c.fact = "turnRequested" /\ Unresolved = {} /\ new \in Attempts
              /\ row' = c.row
              /\ facts' = facts \cup {<<"turnRequested", new>>}
              /\ genOf' = [genOf EXCEPT ![new] = c.row.gen]
              /\ procs' = [procs EXCEPT ![p] = [@ EXCEPT !.a = new, !.todo = Rest(p), !.cmd = None]]
              /\ UNCHANGED committed
           \/ /\ c.fact \in FactTypes \ {"turnRequested"} /\ ~ Has(c.fact, a)
              /\ row' = c.row
              /\ facts' = facts \cup {<<c.fact, a>>}
              /\ GoTo(p, AfterSuccess(p))
              /\ UNCHANGED <<committed, genOf>>
           \/ /\ c.fact = "turnCommitted" /\ committed[a] = None
              /\ row' = c.row
              /\ committed' = [committed EXCEPT ![a] = c.snap]
              /\ GoTo(p, AfterSuccess(p))
              /\ UNCHANGED <<facts, genOf>>
           \/ /\ \/ c.fact \in FactTypes \ {"turnRequested"} /\ Has(c.fact, a)
                 \/ c.fact = "turnCommitted" /\ committed[a] # None
              /\ \/ c.snap \in {None, committed[a]} /\ GoTo(p, AfterSuccess(p))
                 \/ GoTo(p, AfterConflict(p))
              /\ UNCHANGED <<row, facts, committed, genOf>>
        /\ UNCHANGED <<gens, engine, owner, world>>

-----------------------------------------------------------------------------
(* Sending a turn: begin_turn, prepare_delivery, dispatch_turn and
   await_turn_terminal, which the frontend calls one after the other. *)

Dispatch == <<"check", "register", "starting", "materialize", "sent", "import", "prompt",
              "response", "ack", "accept", "trust", "acceptTurn", "drain">>

Resend == Dispatch \o <<"await">>

Send == <<"begin", "prepare">> \o Resend

\* The rest of a dispatch whose context was imported ahead of the prompt.
ImportedFirst == <<"accept", "trust", "prompt", "response", "acceptTurn", "drain", "await">>

\* Mutants: the rebuilt binding is numbered one too far, reuses the first
\* generation, or takes over the trust in the old native history.
FreshRowTooFar(gen) ==
    [state |-> "prepared", native |-> FALSE, trusted |-> FALSE, gen |-> gen + 1,
     pending |-> None, accepted |-> 0, committed |-> 0]
FreshRowReused(gen) ==
    [state |-> "prepared", native |-> FALSE, trusted |-> FALSE, gen |-> 1,
     pending |-> None, accepted |-> 0, committed |-> 0]
FreshRowTrusted(gen) ==
    [state |-> "prepared", native |-> FALSE, trusted |-> TRUE, gen |-> gen,
     pending |-> None, accepted |-> 0, committed |-> 0]

FreshRow(gen) ==
    [state |-> "prepared", native |-> FALSE, trusted |-> FALSE, gen |-> gen,
     pending |-> None, accepted |-> 0, committed |-> 0]

\* begin_turn_core.  A binding that was left in creating is flagged; one that
\* needs recovery, or an open turn, refuses the new one.
BeginTurn(p) ==
    /\ IsIdle(p)
    /\ Cardinality(Requested) < Cardinality(Attempts)
    /\ \/ /\ row # None /\ row.state = "creating"
          /\ Start(p, 0, None, <<"mark">>)
          /\ UNCHANGED gens
       \/ /\ Unresolved = {} /\ row # None /\ row.state \notin {"creating", "recovery-required"}
          /\ procs' = [procs EXCEPT ![p] = [Idle EXCEPT !.todo = Send,
                          !.cmd = AppendFact("turnRequested",
                                             [row EXCEPT !.state = ReadyOrPrepared(row.native)])]]
          /\ UNCHANGED gens
       \/ /\ Unresolved = {} /\ row = None /\ gens + 1 \in Generations
          /\ procs' = [procs EXCEPT ![p] = [Idle EXCEPT !.todo = Send,
                          !.cmd = AppendFact("turnRequested", FreshRow(gens + 1))]]
          /\ gens' = gens + 1
    /\ UNCHANGED <<facts, committed, genOf, row, engine, owner, world>>

\* prepare_delivery: the target is still valid, the context compiles, the
\* artifact is written and nothing is pending; the package may be empty.
Prepare(p) ==
    LET a == procs[p].a
    IN  /\ IsAt(p, "prepare")
        /\ \/ GoTo(p, <<"fail">>)
           \/ /\ row.pending = None
              /\ \E transfer \in BOOLEAN :
                    procs' = [procs EXCEPT ![p] = [@ EXCEPT !.transfer = transfer,
                       !.cmd = AppendFact("deliveryPrepared",
                                 [row EXCEPT !.pending = [attempt |-> a, phase |-> "prepared",
                                                          gen |-> genOf[a]]])]]
        /\ UNCHANGED <<durable, owner, world>>

\* pending_delivery_for_owner
IsPendingFor(a) == IsCurrent(a) /\ IsPending(a) /\ row.pending.gen = genOf[a]

\* The head of dispatch_turn; target and artifact may turn out to be unusable.
CheckPending(p) ==
    LET a == procs[p].a
    IN  /\ IsAt(p, "check")
        /\ \/ GoTo(p, NotAccepted)
           \/ IsPendingFor(a) /\ row.pending.phase # "prepared" /\ GoTo(p, Ambiguous)
           \/ IsPendingFor(a) /\ row.pending.phase = "prepared" /\ GoTo(p, Rest(p))
        /\ UNCHANGED <<durable, owner, world>>

\* register_attempt keeps the entry of an earlier dispatch of the attempt.
Register(p) ==
    LET a == procs[p].a
    IN  /\ IsAt(p, "register")
        /\ owner' = IF Owned(a) THEN owner
                    ELSE [owner EXCEPT ![a] = [barrier |-> TRUE, queued |-> None, settled |-> None]]
        /\ GoTo(p, Rest(p))
        /\ UNCHANGED <<durable, world>>

\* materialize_attempt_binding before the runtime is asked for a session:
\* mark_binding_materialization_started when there is none yet.
MarkStarting(p) ==
    /\ IsAt(p, "starting")
    /\ \/ ~ IsCurrent(procs[p].a) /\ GoTo(p, Ambiguous)
       \/ IsCurrent(procs[p].a) /\ row.native /\ GoTo(p, Rest(p))
       \/ /\ IsCurrent(procs[p].a) /\ ~ row.native
          /\ Issue(p, Upsert([row EXCEPT !.state = "creating"]))
    /\ UNCHANGED <<durable, owner, world>>

\* The runtime has answered: persist_materialized_binding.  Only Codex has
\* acknowledged the identity by now.
Materialize(p) ==
    /\ IsAt(p, "materialize")
    /\ \/ GoTo(p, Ambiguous)
       \/ /\ IsCurrent(procs[p].a)
          /\ Issue(p, Upsert([row EXCEPT !.state = IF IdentityAcked THEN "ready" ELSE "creating",
                                         !.native = TRUE]))
    /\ UNCHANGED <<durable, owner, world>>

\* Mutant: the phase is checked, and not recorded.
MarkSentUnrecorded(p) ==
    /\ IsAt(p, "sent")
    /\ IF Owned(procs[p].a) /\ IsPending(procs[p].a) /\ row.pending.phase = "prepared"
       THEN GoTo(p, Rest(p))
       ELSE GoTo(p, Ambiguous)
    /\ UNCHANGED <<durable, owner, world>>

\* hold_native_session, then mark_delivery_sent
MarkSent(p) ==
    LET a == procs[p].a
    IN  /\ IsAt(p, "sent")
        /\ \/ ~ Owned(a) /\ GoTo(p, Ambiguous)
           \/ /\ Owned(a)
              /\ IF IsPending(a) /\ row.pending.gen = genOf[a] /\ row.pending.phase = "prepared"
                 THEN Issue(p, Upsert([row EXCEPT !.pending.phase = "sent", !.native = TRUE]))
                 ELSE GoTo(p, <<"failNative", "remove">>)
        /\ UNCHANGED <<durable, owner, world>>

\* Codex may take the history as items ahead of the prompt; its context is
\* accepted, and trusted, before the prompt is sent.
Import(p) ==
    /\ IsAt(p, "import")
    /\ \/ ~ Imports /\ GoTo(p, Rest(p))
       \/ Imports /\ procs[p].transfer /\ GoTo(p, Ambiguous)
       \/ Imports /\ GoTo(p, ImportedFirst)
    /\ UNCHANGED <<durable, owner, world>>

\* The prompt leaves for the runtime: it arrives, is lost on the way, or is
\* refused by the runtime.
SendPrompt(p) ==
    LET a == procs[p].a
    IN  /\ IsAt(p, "prompt")
        /\ \/ /\ prompts' = [prompts EXCEPT ![a] = @ + 1]
              /\ runtime' = [runtime EXCEPT ![a] = "running"]
              /\ GoTo(p, Rest(p))
           \/ GoTo(p, Ambiguous) /\ UNCHANGED <<prompts, runtime>>
           \/ GoTo(p, <<"failNative", "remove">>) /\ UNCHANGED <<prompts, runtime>>
           \/ /\ engine = "claude"
              /\ GoTo(p, <<"failNative", "mark", "remove">>)
              /\ UNCHANGED <<prompts, runtime>>
        /\ UNCHANGED <<durable, owner, crashes>>

\* The response is lost or unusable, or it names the turn and
\* bind_runtime_turn opens the replay barrier.
Response(p) ==
    LET a == procs[p].a
    IN  /\ IsAt(p, "response")
        /\ \/ GoTo(p, Ambiguous) /\ UNCHANGED owner
           \/ /\ Owned(a)
              /\ owner' = [owner EXCEPT ![a].barrier = TRUE]
              /\ GoTo(p, Rest(p))
        /\ UNCHANGED <<durable, world>>

\* wait_for_context_ack_or_settlement: the echo, the time-out, or a terminal
\* that overtook the echo and is settled on the spot.
AwaitAck(p) ==
    LET a == procs[p].a
        expected == StrongAck /\ procs[p].transfer
    IN  /\ IsAt(p, "ack")
        /\ \/ ~ expected /\ GoTo(p, Rest(p)) /\ UNCHANGED owner
           \/ expected /\ Owned(a) /\ GoTo(p, Rest(p)) /\ UNCHANGED owner
           \/ expected /\ GoTo(p, Ambiguous) /\ UNCHANGED owner
           \/ /\ expected /\ Owned(a) /\ owner[a].queued # None
              /\ owner' = [owner EXCEPT ![a] = [barrier |-> FALSE, queued |-> None,
                             settled |-> IF @.settled = None THEN @.queued ELSE @.settled]]
              /\ procs' = [procs EXCEPT ![p] = [@ EXCEPT !.todo = <<"observe">>,
                                                        !.snap = owner'[a].settled]]
        /\ UNCHANGED <<durable, world>>

\* accept_delivery
AcceptDelivery(p) ==
    LET a == procs[p].a
        mine == IsPending(a) /\ row.pending.gen = genOf[a] /\ row.pending.phase = "sent"
    IN  /\ IsAt(p, "accept")
        /\ \/ ~ mine /\ GoTo(p, AfterConflict(p))
           \/ /\ mine
              /\ Issue(p, AppendFact("deliveryAccepted",
                         [row EXCEPT !.pending.phase = "accepted", !.accepted = a, !.native = TRUE]))
        /\ UNCHANGED <<durable, owner, world>>

\* set_native_context_trust, only after a transfer with content
TrustNative(p) ==
    /\ IsAt(p, "trust")
    /\ \/ ~ procs[p].transfer /\ GoTo(p, Rest(p))
       \/ procs[p].transfer /\ row.trusted /\ GoTo(p, Rest(p))
       \/ procs[p].transfer /\ ~ row.trusted /\ Issue(p, Upsert([row EXCEPT !.trusted = TRUE]))
    /\ UNCHANGED <<durable, owner, world>>

\* accept_turn_for_attempt_core
AcceptTurn(p) ==
    /\ IsAt(p, "acceptTurn")
    /\ \/ ~ IsCurrent(procs[p].a) /\ GoTo(p, Ambiguous)
       \/ /\ IsCurrent(procs[p].a)
          /\ Issue(p, AppendFact("turnAccepted", [row EXCEPT !.state = "ready", !.native = TRUE]))
    /\ UNCHANGED <<durable, owner, world>>

\* The drain loop: a terminal behind the barrier is settled and published,
\* with the barrier still up; the empty drain takes the barrier down.
Drain(p) ==
    LET a == procs[p].a
    IN  /\ IsAt(p, "drain")
        /\ \/ ~ Owned(a) /\ GoTo(p, Rest(p)) /\ UNCHANGED owner
           \/ /\ Owned(a) /\ owner[a].queued = None
              /\ owner' = [owner EXCEPT ![a].barrier = FALSE]
              /\ GoTo(p, Rest(p))
           \/ /\ Owned(a) /\ owner[a].queued # None
              /\ owner' = [owner EXCEPT ![a].queued = None,
                              ![a].settled = IF Settled(a) THEN @ ELSE owner[a].queued]
              /\ procs' = [procs EXCEPT ![p] = [@ EXCEPT !.snap = owner[a].queued,
                             !.todo = IF Settled(a) THEN procs[p].todo
                                      ELSE <<"publish">> \o procs[p].todo]]
        /\ UNCHANGED <<durable, world>>

\* await_turn_terminal: it ends when the turn is committed or nobody owns it.
AwaitTerminal(p) ==
    LET a == procs[p].a
    IN  /\ IsAt(p, "await")
        /\ \/ /\ committed[a] # None \/ ~ Owned(a)
              /\ GoTo(p, <<>>)
           \/ /\ committed[a] = None /\ Settled(a)
              /\ procs' = [procs EXCEPT ![p] = [@ EXCEPT !.todo = <<"observe">>,
                                                        !.snap = owner[a].settled]]
        /\ UNCHANGED <<durable, owner, world>>

\* The window is reloaded between two commands of a send.
Reload(p) ==
    /\ p \in Clients
    /\ IsAt(p, "prepare") \/ IsAt(p, "check") \/ IsAt(p, "await")
    /\ GoTo(p, <<>>)
    /\ UNCHANGED <<durable, owner, world>>

-----------------------------------------------------------------------------
(* The commands a window issues for a turn that is already begun. *)

\* dispatch_turn once more, for a turn not known to be accepted, over or not:
\* only the durable phase says whether it may send.
Redispatch(p, a) ==
    /\ IsIdle(p)
    /\ Has("deliveryPrepared", a) /\ ~ Has("turnAccepted", a)
    /\ Start(p, a, None, Resend)
    /\ UNCHANGED <<durable, owner, world>>

\* await_turn_terminal, from a window that reattaches
Reattach(p, a) ==
    /\ IsIdle(p)
    /\ a \in Unresolved /\ Owned(a)
    /\ Start(p, a, None, <<"await">>)
    /\ UNCHANGED <<durable, owner, world>>

\* commit_turn, and the first answer of mark_recovery and recover_attempt
CommitSettled(p, a) ==
    /\ IsIdle(p)
    /\ a \in Unresolved /\ Settled(a)
    /\ Start(p, a, owner[a].settled, <<"observe">>)
    /\ UNCHANGED <<durable, owner, world>>

IsActive(a) == Has("turnAccepted", a) /\ Owned(a)

\* mark_recovery, after a dispatch whose outcome is unknown
RequestRecovery(p, a) ==
    /\ IsIdle(p)
    /\ a \in Unresolved /\ ~ Settled(a) /\ IsCurrent(a) /\ ~ IsActive(a)
    /\ row.state # "recovery-required"
    /\ Start(p, a, None, <<"mark">>)
    /\ UNCHANGED <<durable, owner, world>>

\* cancel_attempt with cancel_pre_dispatch_attempt_core
CancelAttempt(p, a) ==
    /\ IsIdle(p)
    /\ a \in Unresolved /\ ~ Owned(a)
    /\ IsCurrent(a) /\ IsPending(a) /\ row.pending.phase = "prepared"
    /\ Start(p, a, "user-cancelled", <<"settle">>)
    /\ UNCHANGED <<durable, owner, world>>

\* recover_attempt: without a sign that anything was sent, the turn is over.
RecoverAttempt(p, a) ==
    /\ IsIdle(p)
    /\ a \in Unresolved /\ ~ Settled(a) /\ ~ Has("turnAccepted", a)
    /\ Has("deliveryPrepared", a) => IsPending(a) /\ row.pending.phase = "prepared"
    /\ Start(p, a, "probe-cancelled", <<"settle", "remove">>)
    /\ UNCHANGED <<durable, owner, world>>

\* rebuild_binding, up to rebuild_binding_core
RequestRebuild(p) ==
    /\ IsIdle(p)
    /\ row # None
    /\ \/ Unresolved = {} /\ Start(p, 0, None, <<"rebuild">>)
       \/ \E a \in Unresolved :
             \/ Settled(a) /\ Start(p, a, owner[a].settled, <<"observe", "rebuild">>)
             \/ ~ Owned(a) /\ Start(p, a, None, <<"rebuild">>)
    /\ UNCHANGED <<durable, owner, world>>

\* rebuild_binding_core: a new generation, and in its transaction the end of
\* the turn that is open.
Rebuild(p) ==
    LET new == FreshRow(gens + 1)
    IN  /\ IsAt(p, "rebuild")
        /\ \/ /\ Unresolved = {} /\ gens + 1 \in Generations
              /\ Issue(p, Upsert(new))
              /\ gens' = gens + 1
           \/ \E a \in Unresolved :
                 \/ ~ IsCurrent(a) /\ GoTo(p, <<>>) /\ UNCHANGED gens
                 \/ /\ IsCurrent(a) /\ gens + 1 \in Generations
                    /\ procs' = [procs EXCEPT ![p].a = a, ![p].cmd = AppendTerminal("replaced", new)]
                    /\ gens' = gens + 1
           \/ gens + 1 \notin Generations /\ GoTo(p, <<>>) /\ UNCHANGED gens
        /\ UNCHANGED <<facts, committed, genOf, row, engine, owner, world>>

\* abandon_unresolved_attempt: a turn the runtime owns is only given up by
\* force, after an interrupt that may fail.
Abandon(p, a, force) ==
    /\ IsIdle(p)
    /\ a \in Unresolved
    /\ Owned(a) => force
    /\ Start(p, a, None, <<"skip">>)
    /\ UNCHANGED <<durable, owner, world>>

\* The rest of it, once the interrupt has returned.
Skip(p) ==
    LET a == procs[p].a
    IN  /\ IsAt(p, "skip")
        /\ procs' = [procs EXCEPT ![p] =
             IF Settled(a)
             THEN [@ EXCEPT !.snap = owner[a].settled, !.todo = <<"remove", "observe", "clear">>]
             ELSE [@ EXCEPT !.snap = "skipped", !.todo = <<"remove", "settle", "clear", "remove">>]]
        /\ UNCHANGED <<durable, owner, world>>

\* clear_binding_recovery_if_idle
ClearRecovery(p) ==
    LET idle == Unresolved = {} /\ row.state = "recovery-required"
    IN  /\ IsAt(p, "clear")
        /\ \/ ~ idle /\ GoTo(p, Rest(p))
           \/ idle /\ Issue(p, Upsert([row EXCEPT !.state = ReadyOrPrepared(row.native),
                                                  !.trusted = FALSE]))
        /\ UNCHANGED <<durable, owner, world>>

-----------------------------------------------------------------------------
\* The runtime ends the turn.  Without a barrier the event path settles and
\* publishes it; behind one the terminal waits; without an owner it is dropped.
Terminal(a, s) ==
    /\ runtime[a] = "running"
    /\ s = "missing" => engine = "claude"
    /\ runtime' = [runtime EXCEPT ![a] = "done"]
    /\ \/ ~ Owned(a) /\ UNCHANGED memory
       \/ /\ Owned(a) /\ owner[a].barrier
          /\ owner' = [owner EXCEPT ![a].queued = s]
          /\ UNCHANGED procs
       \/ /\ Owned(a) /\ ~ owner[a].barrier
          /\ IsIdle("observer")
          /\ \/ owner[a].settled # None /\ UNCHANGED memory
             \/ /\ owner[a].settled = None
                /\ owner' = [owner EXCEPT ![a].settled = s]
                /\ Start("observer", a, s, <<"publish">>)
    /\ UNCHANGED <<durable, prompts, crashes>>

\* The application dies with its commands, its coordinator and its runtimes.
Crash ==
    /\ crashes < MaxCrashes
    /\ crashes' = crashes + 1
    /\ owner' = [a \in Attempts |-> None]
    /\ procs' = [p \in Procs |-> Idle]
    /\ runtime' = [a \in Attempts |-> IF runtime[a] = "running" THEN "done" ELSE runtime[a]]
    /\ UNCHANGED <<durable, prompts>>

Init ==
    /\ facts = {}
    /\ committed = [a \in Attempts |-> None]
    /\ genOf = [a \in Attempts |-> 0]
    /\ row = None
    /\ gens = 0
    /\ engine \in Engines
    /\ owner = [a \in Attempts |-> None]
    /\ runtime = [a \in Attempts |-> "none"]
    /\ prompts = [a \in Attempts |-> 0]
    /\ procs = [p \in Procs |-> Idle]
    /\ crashes = 0

\* A step of a process that has something to do.
Step(p) ==
    \/ Prepare(p) \/ CheckPending(p) \/ Register(p) \/ MarkStarting(p) \/ Materialize(p)
    \/ MarkSent(p) \/ Import(p) \/ SendPrompt(p) \/ Response(p) \/ AwaitAck(p)
    \/ AcceptDelivery(p) \/ TrustNative(p) \/ AcceptTurn(p) \/ Drain(p) \/ AwaitTerminal(p)
    \/ Observe(p) \/ Settle(p) \/ FailTurn(p) \/ MarkRecovery(p) \/ RemoveAttempt(p)
    \/ Rebuild(p) \/ Skip(p) \/ ClearRecovery(p)
    \/ Execute(p)

Command(c) ==
    \/ BeginTurn(c) \/ RequestRebuild(c) \/ Reload(c)
    \/ \E a \in Attempts :
          \/ Redispatch(c, a) \/ Reattach(c, a) \/ CommitSettled(c, a) \/ RequestRecovery(c, a)
          \/ CancelAttempt(c, a) \/ RecoverAttempt(c, a)
          \/ \E force \in BOOLEAN : Abandon(c, a, force)

Next ==
    \/ \E p \in Procs : Step(p)
    \/ \E c \in Clients : (Patient => IsIdle("observer")) /\ Command(c)
    \/ \E a \in Attempts, s \in Reported : Terminal(a, s)
    \/ Crash

Spec == Init /\ [][Next]_vars

\* Commands and event tasks run on the async runtime and keep running; when a
\* turn ends and what a window asks for is not up to it.
FairSpec == Spec /\ \A p \in Procs : WF_vars(Step(p))

-----------------------------------------------------------------------------
Steps == {"begin", "prepare", "check", "register", "starting", "materialize", "sent", "import",
          "prompt", "response", "ack", "accept", "trust", "acceptTurn", "drain", "await", "observe",
          "publish", "settle", "fail", "failNative", "mark", "remove", "rebuild", "skip", "clear"}

Cmd == [fact : FactTypes \cup {"turnCommitted", None}, row : BindingRow, snap : Snapshots \cup {None}]

\* None is no value of the data.
ASSUME NoneAssumption ==
    None \notin FactTypes \cup {"turnCommitted"} \cup Snapshots \cup Pending \cup BindingRow \cup Cmd

\* Type invariant; a command is pending only for a step still to do.
TypeOK ==
    /\ facts \subseteq FactTypes \X Attempts
    /\ committed \in [Attempts -> Snapshots \cup {None}]
    /\ genOf \in [Attempts -> Generations \cup {0}]
    /\ row \in BindingRow \cup {None}
    /\ gens \in Nat
    /\ engine \in Engines
    /\ owner \in [Attempts -> Owner \cup {None}]
    /\ runtime \in [Attempts -> {"none", "running", "done"}]
    /\ prompts \in [Attempts -> Nat]
    /\ \A p \in Procs :
          /\ procs[p].todo \in Seq(Steps)
          /\ procs[p].a \in Attempts \cup {0}
          /\ procs[p].snap \in Snapshots \cup {None}
          /\ procs[p].transfer \in BOOLEAN
          /\ procs[p].cmd \in Cmd \cup {None}
          /\ procs[p].cmd # None => procs[p].todo # <<>>
    /\ crashes \in Nat

\* A turn is only recorded as completed after its prompt went out, its context
\* was accepted and the runtime acknowledged the turn.
CompletedWasAccepted ==
    \A a \in Attempts : committed[a] = "completed" =>
        /\ Has("turnAccepted", a) /\ Has("deliveryAccepted", a)
        /\ prompts[a] > 0

\* The two cursors of a binding: what is committed was accepted, and what is
\* accepted was acknowledged by the runtime of this generation.
CursorsFollowDelivery ==
    row # None =>
        /\ row.committed <= row.accepted
        /\ row.accepted # 0 => Has("deliveryAccepted", row.accepted) /\ genOf[row.accepted] = row.gen
        /\ row.committed # 0 => committed[row.committed] # None

\* However often a turn is dispatched, also after crashes and lost responses,
\* its prompt reaches the runtime once.
SentOnce == \A a \in Attempts : prompts[a] <= 1

\* A pending delivery belongs to the open turn and its generation, so it can
\* never stand in the way of the next turn.
PendingIsOpen ==
    row # None /\ row.pending # None =>
        row.pending.attempt \in Unresolved /\ row.pending.gen = row.gen

\* The native history is trusted only when this generation took a package or
\* finished a turn.
TrustIsEarned ==
    row # None /\ row.trusted =>
        row.native /\ \E a \in Attempts : Has("deliveryAccepted", a) /\ genOf[a] = row.gen

\* A turn that completed leaves its binding usable: two paths that commit the
\* same terminal are as good as one.
CompletedLeavesUsable ==
    \A a \in Requested :
        committed[a] = "completed" /\ IsCurrent(a) /\ Unresolved = {} =>
            row.state # "recovery-required"

\* A rebuild is final: the row of an older generation does not come back.
GenerationsAdvance == [][row # None => row'.gen >= row.gen]_vars

\* Within a generation the two cursors only go forward.
CursorsAdvance ==
    [][row # None /\ row'.gen = row.gen =>
          row'.accepted >= row.accepted /\ row'.committed >= row.committed]_vars

\* Nothing is sent for a turn that is already over.
SentWhileOpen == [][\A a \in Attempts : prompts'[a] > prompts[a] => committed[a] = None]_vars

\* A settlement the coordinator holds does not stay there unnoticed: it is
\* committed, or the binding asks for recovery, or it was dropped as stale.
SettlementIsHandled ==
    \A a \in Attempts :
        Settled(a) ~> \/ ~ Owned(a)
                      \/ committed[a] # None
                      \/ row # None /\ row.state = "recovery-required"
=============================================================================
