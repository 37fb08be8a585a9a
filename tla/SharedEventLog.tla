--------------------------- MODULE SharedEventLog ---------------------------
(***************************************************************************)
(* The single-writer actor of the shared event database                    *)
(* (src-tauri/src/shared_event_log/writer.rs).                             *)
(*                                                                         *)
(* Callers hold clones of one handle.  A call sends a command over an mpsc *)
(* channel and blocks on the reply; the actor thread takes one command at  *)
(* a time and runs it in one SQLite transaction.  A transaction works on a *)
(* private view of the database, which Commit makes durable at once; the   *)
(* process can be killed at every transaction boundary the code names      *)
(* (TxBoundary), which loses the view, the channel and every pending reply *)
(* and leaves the committed database.  After a kill callers may repeat any *)
(* command: nothing is remembered outside the database.                    *)
(***************************************************************************)
EXTENDS CanonicalLog, Sequences

CONSTANTS Callers,     \* threads that hold a clone of the writer handle
          MaxSends,    \* bound on the commands sent in a behaviour
          MaxCrashes   \* bound on the process kills in a behaviour

VARIABLES phase,    \* how far the actor is in its current command
          cmd,      \* that command with its caller, or Null
          view,     \* the database as the open transaction sees it
          seq,      \* the sequence number the reply will carry, or 0
          outcome,  \* the reply
          channel,  \* commands sent and not yet taken
          waiting,  \* callers blocked on a reply
          told,     \* history: every reply a caller received
          sends, crashes

dbVars    == <<rows, next, bindings>>
actorVars == <<phase, cmd, view, seq, outcome>>
callVars  == <<channel, waiting, told, sends, crashes>>
vars      == <<dbVars, actorVars, callVars>>

\* The names of TxBoundary, with the states around them.
Phases == {"idle", "begun", "beforeSequenceBump", "afterSequenceBump", "beforeCommit", "reply"}
InTransaction == phase \in {"begun", "beforeSequenceBump", "afterSequenceBump", "beforeCommit"}
Outcomes == {"inserted", "duplicate", "conflict", "refused", "failed", "done"}

Committed == [rows |-> rows, next |-> next, bindings |-> bindings]

Init ==
    /\ InitLog
    /\ phase = "idle"
    /\ cmd = Null
    /\ view = Committed
    /\ seq = 0
    /\ outcome = Null
    /\ channel = <<>>
    /\ waiting = {}
    /\ told = {}
    /\ sends = 0
    /\ crashes = 0

-----------------------------------------------------------------------------
\* send_command: the caller sends and blocks on the reply.
Send(c, q) ==
    /\ c \notin waiting
    /\ sends < MaxSends
    /\ channel' = Append(channel, [caller |-> c, req |-> q])
    /\ waiting' = waiting \cup {c}
    /\ sends' = sends + 1
    /\ UNCHANGED <<dbVars, actorVars, told, crashes>>

\* Mutant: the receive loop empties the channel and keeps the newest command.
TakeNewest ==
    /\ phase = "idle"
    /\ channel # <<>>
    /\ phase' = "begun"
    /\ cmd' = channel[Len(channel)]
    /\ channel' = <<>>
    /\ UNCHANGED <<dbVars, view, seq, outcome, waiting, told, sends, crashes>>

\* The actor's receive loop takes the oldest command.
Take ==
    /\ phase = "idle"
    /\ channel # <<>>
    /\ phase' = "begun"
    /\ cmd' = Head(channel)
    /\ channel' = Tail(channel)
    /\ UNCHANGED <<dbVars, view, seq, outcome, waiting, told, sends, crashes>>

\* Mutants: the view of a rolled-back transaction stays, and a replay still
\* writes the binding row of its command.
AnswerKeepsView(o, n) ==
    /\ phase' = "reply"
    /\ outcome' = o
    /\ seq' = n
    /\ UNCHANGED <<dbVars, view, cmd, callVars>>
AnswerMovesBinding(o, n) ==
    /\ phase' = "reply"
    /\ outcome' = o
    /\ seq' = n
    /\ bindings' = IF cmd.req.kind = "append" THEN WithBinding(bindings, cmd.req.binding) ELSE bindings
    /\ view' = [Committed EXCEPT !.bindings = bindings']
    /\ UNCHANGED <<rows, next, cmd, callVars>>

\* The transaction is over without a write: its view is dropped.
Answer(o, n) ==
    /\ phase' = "reply"
    /\ outcome' = o
    /\ seq' = n
    /\ view' = Committed
    /\ UNCHANGED <<dbVars, cmd, callVars>>

\* Mutant: no look at the open turns.
LookUpUnguarded ==
    /\ phase = "begun"
    /\ cmd.req.kind = "append"
    /\ LET e == cmd.req.event
       IN  \/ IsReplay(rows, e) /\ Answer("duplicate", Existing(rows, e).seq)
           \/ IsConflict(rows, e) /\ Answer("conflict", 0)
           \/ /\ IsFresh(rows, e)
              /\ phase' = "beforeSequenceBump"
              /\ UNCHANGED <<dbVars, cmd, view, seq, outcome, callVars>>

\* append_event_inner up to the first boundary: the idempotency lookup comes
\* before the guard, so the replay of a resolved turn is never refused.
LookUp ==
    /\ phase = "begun"
    /\ cmd.req.kind = "append"
    /\ LET e == cmd.req.event
           blocked == cmd.req.guarded /\ Unresolved(rows, e.session) # {}
       IN  \/ IsReplay(rows, e) /\ Answer("duplicate", Existing(rows, e).seq)
           \/ IsConflict(rows, e) /\ Answer("conflict", 0)
           \/ IsFresh(rows, e) /\ blocked /\ Answer("refused", 0)
           \/ /\ IsFresh(rows, e) /\ ~ blocked
              /\ phase' = "beforeSequenceBump"
              /\ UNCHANGED <<dbVars, cmd, view, seq, outcome, callVars>>

\* ensure_session_row, read_next_sequence and the bump of next_sequence.
BumpSequence ==
    /\ phase = "beforeSequenceBump"
    /\ LET s == cmd.req.event.session
           n == SequenceToAllot(view.next, s)
       IN  /\ view' = [view EXCEPT !.next = [view.next EXCEPT ![s] = n + 1]]
           /\ seq' = n
    /\ phase' = "afterSequenceBump"
    /\ UNCHANGED <<dbVars, cmd, outcome, callVars>>

\* The insert and, when the command carries one, the binding upsert.
InsertRow ==
    /\ phase = "afterSequenceBump"
    /\ view' = [view EXCEPT !.rows = view.rows \cup {[event |-> cmd.req.event, seq |-> seq]},
                            !.bindings = WithBinding(view.bindings, cmd.req.binding)]
    /\ phase' = "beforeCommit"
    /\ UNCHANGED <<dbVars, cmd, seq, outcome, callVars>>

Commit ==
    /\ phase = "beforeCommit"
    /\ rows' = view.rows
    /\ next' = view.next
    /\ bindings' = view.bindings
    /\ phase' = "reply"
    /\ outcome' = "inserted"
    /\ UNCHANGED <<cmd, view, seq, callVars>>

\* upsert_binding_state and upsert_session_target (which creates the session
\* row or updates columns not modelled): one statement, committed by itself.
Upsert ==
    /\ phase = "begun"
    /\ \/ /\ cmd.req.kind = "binding"
          /\ bindings' = WithBinding(bindings, cmd.req.binding)
          /\ UNCHANGED next
       \/ /\ cmd.req.kind = "target"
          /\ next' = [next EXCEPT ![cmd.req.session] = SequenceToAllot(next, cmd.req.session)]
          /\ UNCHANGED bindings
    /\ view' = [view EXCEPT !.next = next', !.bindings = bindings']
    /\ phase' = "reply"
    /\ outcome' = "done"
    /\ UNCHANGED <<rows, cmd, seq, callVars>>

\* SQLite reports an error at a statement or at COMMIT: the Transaction guard
\* is dropped, which rolls back, and the caller gets the error.
RollBack == InTransaction /\ Answer("failed", 0)

Respond ==
    /\ phase = "reply"
    /\ told' = told \cup {[req |-> cmd.req, outcome |-> outcome, seq |-> seq]}
    /\ waiting' = waiting \ {cmd.caller}
    /\ phase' = "idle"
    /\ cmd' = Null
    /\ seq' = 0
    /\ outcome' = Null
    /\ UNCHANGED <<dbVars, view, channel, sends, crashes>>

\* The process is killed; SQLite reopens with the last committed state.
Crash ==
    /\ crashes < MaxCrashes
    /\ crashes' = crashes + 1
    /\ phase' = "idle"
    /\ cmd' = Null
    /\ view' = Committed
    /\ seq' = 0
    /\ outcome' = Null
    /\ channel' = <<>>
    /\ waiting' = {}
    /\ UNCHANGED <<dbVars, told, sends>>

ActorStep ==
    \/ Take \/ LookUp \/ BumpSequence \/ InsertRow \/ Commit \/ Upsert \/ Respond

Next ==
    \/ \E c \in Callers, q \in Requests : Send(c, q)
    \/ ActorStep
    \/ RollBack
    \/ Crash

Spec == Init /\ [][Next]_vars

(***************************************************************************)
(* The actor is an OS thread that loops on recv: it keeps running.         *)
(***************************************************************************)
FairSpec == Spec /\ WF_vars(ActorStep)

-----------------------------------------------------------------------------
(* Type invariant: the shape of the database, of the transaction's view and
   of the replies, and that outside a transaction the view is the database. *)
Database == [rows : SUBSET Row, next : [Sessions -> Nat], bindings : [Slots -> BindingValues \cup {Null}]]

Calls == [caller : Callers, req : Requests]

TypeOK ==
    /\ Committed \in Database
    /\ view \in Database
    /\ phase \in Phases
    /\ phase = "idle" \/ cmd \in Calls
    /\ phase \in {"beforeSequenceBump", "afterSequenceBump", "beforeCommit"} => cmd.req.kind = "append"
    /\ seq \in Nat
    /\ phase = "reply" => outcome \in Outcomes
    /\ phase \notin {"afterSequenceBump", "beforeCommit"} => view = Committed
    /\ channel \in Seq(Calls)
    /\ waiting \subseteq Callers
    /\ told \subseteq [req : Requests, outcome : Outcomes, seq : Nat]
    /\ sends \in Nat
    /\ crashes \in Nat

\* No two rows share an idempotency key: whatever is repeated after a kill or
\* a failure, a fact is recorded once (the unique indexes never have to fire).
KeysUnique == \A r1, r2 \in rows : Collides(r1.event, r2.event) => r1 = r2

\* The sequence numbers of a session are exactly 1 .. next_sequence - 1, so
\* neither a kill nor a rollback leaves a gap or hands a number out twice.
RowsOf(s) == {r \in rows : r.event.session = s}

SequencesDense ==
    \A s \in Sessions :
        /\ \A r \in RowsOf(s) : r.seq \in 1 .. (next[s] - 1)
        /\ \A n \in 1 .. (next[s] - 1) : \E r \in RowsOf(s) : r.seq = n
        /\ \A r1, r2 \in RowsOf(s) : r1.seq = r2.seq => r1 = r2

\* Two submissions that both passed the caller's own check cannot both open a
\* turn: at most one linear turn of a session is requested and not committed.
OneOpenTurn == \A s \in Sessions : \A r1, r2 \in OpenTurns(rows, s) : r1 = r2

\* What a caller was told survives every later kill: a sequence number it was
\* given, as an insert or as a replay, is that of a row with its payload.
ToldIsDurable ==
    \A a \in told :
        a.outcome \in {"inserted", "duplicate"} =>
            \E r \in rows : /\ r.event.session = a.req.event.session
                            /\ r.seq = a.seq
                            /\ Checksum(r.event) = Checksum(a.req.event)

\* The actor implements the abstract log: rows are only ever added, a replay
\* or a refusal changes no binding, and a binding row that travels with a
\* fact becomes visible with it or not at all.
ImplementsLog == LogSpec

\* Every call returns: the actor answers each command, errors included.
EveryCallReturns == \A c \in Callers : c \in waiting ~> c \notin waiting
=============================================================================
