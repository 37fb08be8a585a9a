---------------------------- MODULE MutationLease ----------------------------
(***************************************************************************)
(* The workspace mutation lease (change_mutation_lease and                 *)
(* rebuild_mutation_lease_index of src-tauri/src/shared_event_log/         *)
(* writer.rs).                                                             *)
(*                                                                         *)
(* A lease row per workspace says which squad attempt may change files     *)
(* there; every change of it is audited by a squad.mutationLeaseChanged    *)
(* fact of the same transaction.  The row is an index: each open of the    *)
(* database deletes it and rebuilds it from the facts, in the order of the *)
(* callers' wall clock.  One call is one command of the single writer and  *)
(* one transaction (module SharedEventLog), hence one step here; its reply *)
(* travels back separately and is lost when the process is killed.         *)
(***************************************************************************)
EXTENDS Integers, FiniteSets

CONSTANTS Attempts,     \* squad attempts: run, node and attempt id
          Workspaces,   \* canonical workspace roots
          Sessions,     \* shared session ids, ordered as the column sorts: integers
          WorkspaceOf,  \* the root sealed in the attempt's run
          SessionOf,    \* the session of the attempt's run
          Times,        \* values of occurred_at, the caller's wall clock
          MaxFacts,     \* bound on the facts recorded in a behaviour
          None

ASSUME LeaseAssumption ==
    /\ WorkspaceOf \in [Attempts -> Workspaces]
    /\ SessionOf \in [Attempts -> Sessions]
    /\ Sessions \subseteq Int
    /\ Times \subseteq Nat
    /\ MaxFacts \in Nat

VARIABLES facts,   \* the squad.mutationLeaseChanged rows of shared_event_log
          lease,   \* squad_workspace_mutation_lease
          reply,   \* per attempt the answer on its way, or None
          working  \* per attempt the epoch it was granted and works under, or 0

vars == <<facts, lease, reply, working>>

Changes == {"acquired", "released", "blocked"}

Fact == [attempt : Attempts, change : Changes, epoch : Nat, time : Times, seq : Nat]

Lease == [holder : Attempts, epoch : Nat, state : {"held", "released"}]

Reply == [outcome : {"acquired", "busy", "released", "error"}, epoch : Nat]

ASSUME NoneAssumption == None \notin Lease /\ None \notin Reply

-----------------------------------------------------------------------------
(* append_canonical_fact_in_transaction.  The fact id, which is also the
   dedupe key, holds the change, the run, node and attempt, and the epoch; the
   payload holds the time as well. *)
SameFactId(f, g) == f.attempt = g.attempt /\ f.change = g.change /\ f.epoch = g.epoch

SessionFacts(s) == {f \in facts : SessionOf[f.attempt] = s}

NextSeq(s) == Cardinality(SessionFacts(s)) + 1

NewFact(a, change, epoch, t) ==
    [attempt |-> a, change |-> change, epoch |-> epoch, time |-> t, seq |-> NextSeq(SessionOf[a])]

IsReplayed(f) == \E g \in facts : SameFactId(f, g) /\ f.time = g.time
IsConflicting(f) == \E g \in facts : SameFactId(f, g) /\ f.time # g.time

\* Mutant: the row is written without its audit fact.
TransactUnaudited(a, row, f, r) ==
    /\ lease' = IF row = None THEN lease ELSE [lease EXCEPT ![WorkspaceOf[a]] = row]
    /\ reply' = [reply EXCEPT ![a] = r]
    /\ UNCHANGED facts

\* The transaction that writes the row (unless it is None) with the fact, and
\* the answer of the command; a conflicting fact rolls it back.
Transact(a, row, f, r) ==
    \/ /\ IsConflicting(f)
       /\ reply' = [reply EXCEPT ![a] = [outcome |-> "error", epoch |-> 0]]
       /\ UNCHANGED <<facts, lease>>
    \/ /\ ~ IsConflicting(f)
       /\ facts' = IF IsReplayed(f) THEN facts ELSE facts \cup {f}
       /\ lease' = IF row = None THEN lease ELSE [lease EXCEPT ![WorkspaceOf[a]] = row]
       /\ reply' = [reply EXCEPT ![a] = r]

Answer(a, outcome, epoch) ==
    /\ reply' = [reply EXCEPT ![a] = [outcome |-> outcome, epoch |-> epoch]]
    /\ UNCHANGED <<facts, lease>>

-----------------------------------------------------------------------------
\* Mutant: the epoch starts again with every holder.
GrantFirstEpoch(a, epoch, t) ==
    Transact(a, [holder |-> a, epoch |-> 1, state |-> "held"],
             NewFact(a, "acquired", 1, t), [outcome |-> "acquired", epoch |-> 1])

Grant(a, epoch, t) ==
    Transact(a, [holder |-> a, epoch |-> epoch, state |-> "held"],
             NewFact(a, "acquired", epoch, t), [outcome |-> "acquired", epoch |-> epoch])

\* MutationLeaseAction::Acquire
Acquire(a, t) ==
    LET row == lease[WorkspaceOf[a]]
    IN  /\ reply[a] = None
        /\ Cardinality(facts) < MaxFacts
        /\ \/ /\ row # None /\ row.state = "held" /\ row.holder = a
              /\ Answer(a, "acquired", row.epoch)
           \/ /\ row # None /\ row.state = "held" /\ row.holder # a
              /\ Transact(a, None, NewFact(a, "blocked", row.epoch, t),
                          [outcome |-> "busy", epoch |-> row.epoch])
           \/ row # None /\ row.state = "released" /\ Grant(a, row.epoch + 1, t)
           \/ row = None /\ Grant(a, 1, t)
        /\ UNCHANGED working

\* MutationLeaseAction::Release.  The attempt has stopped changing files
\* before it asks; a repeated release finds the row as the first one left it.
Release(a, t) ==
    LET row == lease[WorkspaceOf[a]]
    IN  /\ reply[a] = None
        /\ Cardinality(facts) < MaxFacts
        /\ \/ row = None /\ Answer(a, "released", 0)
           \/ /\ row # None /\ row.state = "held" /\ row.holder # a
              /\ Answer(a, "busy", row.epoch)
           \/ /\ row # None /\ row.state = "released"
              /\ Answer(a, "released", row.epoch)
           \/ /\ row # None /\ row.state = "held" /\ row.holder = a
              /\ Transact(a, [row EXCEPT !.state = "released"],
                          NewFact(a, "released", row.epoch, t),
                          [outcome |-> "released", epoch |-> row.epoch])
        /\ working' = [working EXCEPT ![a] = 0]

\* The answer reaches the caller, who starts to work when it is granted.
Deliver(a) ==
    /\ reply[a] # None
    /\ reply' = [reply EXCEPT ![a] = None]
    /\ working' = IF reply[a].outcome = "acquired"
                  THEN [working EXCEPT ![a] = reply[a].epoch] ELSE working
    /\ UNCHANGED <<facts, lease>>

-----------------------------------------------------------------------------
\* Mutant: no order among the facts of one session and millisecond.
BeforeBySession(f, g) ==
    \/ f.time < g.time
    \/ f.time = g.time /\ SessionOf[f.attempt] < SessionOf[g.attempt]

(* ORDER BY committed_at, session_id, sequence *)
Before(f, g) ==
    \/ f.time < g.time
    \/ f.time = g.time /\ SessionOf[f.attempt] < SessionOf[g.attempt]
    \/ f.time = g.time /\ SessionOf[f.attempt] = SessionOf[g.attempt] /\ f.seq < g.seq

\* Mutant: the audit of a refused contender counts as a change of the owner.
EveryFact(w) == {f \in facts : WorkspaceOf[f.attempt] = w}

OwnershipFacts(w) == {f \in facts : WorkspaceOf[f.attempt] = w /\ f.change # "blocked"}

\* Mutant: the change is taken for the state.
RowOfChange(f) == [holder |-> f.attempt, epoch |-> f.epoch, state |-> f.change]

RowOf(f) ==
    [holder |-> f.attempt, epoch |-> f.epoch,
     state  |-> IF f.change = "acquired" THEN "held" ELSE "released"]

\* What the rebuild leaves for a workspace: the last of the facts of its
\* highest epoch, because a fact of a lower epoch than the row so far is
\* skipped and every other one replaces the row.
Deciding(w) ==
    {f \in OwnershipFacts(w) :
        \A g \in OwnershipFacts(w) : g.epoch < f.epoch \/ (g.epoch = f.epoch /\ ~ Before(f, g))}

Rebuilt(w) ==
    IF OwnershipFacts(w) = {} THEN None ELSE RowOf(CHOOSE f \in Deciding(w) : TRUE)

\* Mutant: the rows are deleted and not rebuilt.
ReopenEmpty ==
    /\ lease' = [w \in Workspaces |-> None]
    /\ reply' = [a \in Attempts |-> None]
    /\ UNCHANGED <<facts, working>>

\* The process is killed and the database opened again: the answers on their
\* way are lost, the rows are rebuilt.  An attempt may go on working, its agent
\* is a process of its own.
Reopen ==
    /\ lease' = [w \in Workspaces |-> Rebuilt(w)]
    /\ reply' = [a \in Attempts |-> None]
    /\ UNCHANGED <<facts, working>>

-----------------------------------------------------------------------------
Init ==
    /\ facts = {}
    /\ lease = [w \in Workspaces |-> None]
    /\ reply = [a \in Attempts |-> None]
    /\ working = [a \in Attempts |-> 0]

Next ==
    \/ \E a \in Attempts, t \in Times : Acquire(a, t) \/ Release(a, t)
    \/ \E a \in Attempts : Deliver(a)
    \/ Reopen

Spec == Init /\ [][Next]_vars

-----------------------------------------------------------------------------
(* Type invariant of the lease rows, the facts behind them and the answers. *)
TypeOK ==
    /\ facts \subseteq Fact
    /\ lease \in [Workspaces -> Lease \cup {None}]
    /\ reply \in [Attempts -> Reply \cup {None}]
    /\ working \in [Attempts -> Nat]

(***************************************************************************)
(* Two attempts never change files of one workspace at a time, whatever    *)
(* clock the callers have, however many answers are lost and however often *)
(* the rows are rebuilt.                                                   *)
(***************************************************************************)
MutualExclusion ==
    \A a, b \in Attempts :
        working[a] # 0 /\ working[b] # 0 /\ WorkspaceOf[a] = WorkspaceOf[b] => a = b

\* The row and the facts cannot diverge on the owner: the row names the holder
\* and the epoch the facts name, and a held row is one a rebuild would restore.
RowAgreesWithFacts ==
    \A w \in Workspaces :
        \/ lease[w] = Rebuilt(w)
        \/ /\ lease[w] # None /\ Rebuilt(w) # None
           /\ lease[w] = [Rebuilt(w) EXCEPT !.state = "released"]

\* As long as no caller's clock went back, the rebuild restores exactly the
\* row the transactions had left, releases included.
ClockNeverWentBack ==
    \A w \in Workspaces : \A f, g \in OwnershipFacts(w) :
        \/ f.epoch < g.epoch
        \/ f.epoch = g.epoch /\ f.change = "acquired" /\ g.change = "released"
        => f.time <= g.time

RebuildRestores ==
    ClockNeverWentBack => \A w \in Workspaces : lease[w] = Rebuilt(w)

\* An epoch of a workspace is granted to one attempt only, so it can be used
\* as a fencing token, also by writers that missed a restart.
EpochGrantedOnce ==
    \A f, g \in facts :
        /\ f.change = "acquired" /\ g.change = "acquired"
        /\ WorkspaceOf[f.attempt] = WorkspaceOf[g.attempt]
        /\ f.epoch = g.epoch
        => f = g

\* A row never loses its epoch, and passes to another attempt only by way of
\* the release and under a higher epoch.
HandsOverByEpoch ==
    \A w \in Workspaces :
        lease[w] # None =>
            /\ lease'[w] # None
            /\ lease'[w].epoch >= lease[w].epoch
            /\ lease'[w].epoch > lease[w].epoch => lease[w].state = "released"
            /\ lease'[w].holder # lease[w].holder => lease'[w].epoch > lease[w].epoch

EpochFence == [][HandsOverByEpoch]_vars

(***************************************************************************)
(* The loop of rebuild_mutation_lease_index: it meets the facts in order,  *)
(* skips one whose epoch is below that of the row so far, and lets every   *)
(* other one replace the row.                                              *)
(***************************************************************************)
\* Mutant: a lower epoch is not skipped.
ReplayLatest(row, f) == RowOf(f)

Replay(row, f) == IF row # None /\ row.epoch > f.epoch THEN row ELSE RowOf(f)

RebuildLoop(w) ==
    LET last(S) == CHOOSE f \in S : \A g \in S : ~ Before(f, g)
        loop[S \in SUBSET OwnershipFacts(w)] ==
            IF S = {} THEN None ELSE Replay(loop[S \ {last(S)}], last(S))
    IN  loop[OwnershipFacts(w)]

\* The loop computes what Rebuilt says of it.
LoopRebuilds == \A w \in Workspaces : RebuildLoop(w) = Rebuilt(w)

-----------------------------------------------------------------------------
(* What the repository says and a clock that goes back refutes.             *)

\* "Rebuild it from canonical lease facts on every open so deleting/corrupting
\* derived rows never invents authority": a lease that was released is not
\* held again under the epoch that was released.
NoInventedAuthority ==
    [][\A w \in Workspaces :
          lease[w] # None /\ lease[w].state = "released"
              => ~ (lease'[w].state = "held" /\ lease'[w].epoch = lease[w].epoch)]_vars
=============================================================================
