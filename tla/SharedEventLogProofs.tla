------------------------ MODULE SharedEventLogProofs ------------------------
(***************************************************************************)
(* Proofs about the shared event log, for every set of callers, commands,  *)
(* sessions and payloads and every value of the bounds on sends and kills. *)
(***************************************************************************)
EXTENDS SharedEventLog, TLAPS

(***************************************************************************)
(* What the open transaction and a pending reply know about the database.  *)
(* It is needed because the properties speak of the committed tables while *)
(* Commit installs the view: the view must differ from the tables by just  *)
(* one fresh row, its sequence number and its binding row.                 *)
(***************************************************************************)
Admitted ==
    /\ IsFresh(rows, cmd.req.event)
    /\ cmd.req.guarded => Unresolved(rows, cmd.req.event.session) = {}

NewRow == [event |-> cmd.req.event, seq |-> seq]

TransactionInv ==
    /\ phase \in {"beforeSequenceBump", "afterSequenceBump", "beforeCommit"} => Admitted
    /\ phase \in {"afterSequenceBump", "beforeCommit"} =>
          /\ seq = SequenceToAllot(next, cmd.req.event.session)
          /\ view.next = [next EXCEPT ![cmd.req.event.session] = seq + 1]
    /\ phase = "afterSequenceBump" => view.rows = rows /\ view.bindings = bindings
    /\ phase = "beforeCommit" =>
          /\ view.rows = rows \cup {NewRow}
          /\ view.bindings = WithBinding(bindings, cmd.req.binding)
    /\ phase = "reply" /\ outcome \in {"inserted", "duplicate"} =>
          /\ cmd.req.kind = "append"
          /\ \E r \in rows : /\ r.event.session = cmd.req.event.session
                             /\ r.seq = seq
                             /\ Checksum(r.event) = Checksum(cmd.req.event)

LogInv ==
    /\ TypeOK
    /\ TransactionInv
    /\ KeysUnique
    /\ SequencesDense
    /\ OneOpenTurn
    /\ ToldIsDurable

-----------------------------------------------------------------------------
\* An event the lookup does not find shares no key with any row.
LEMMA FreshCollidesNot ==
    ASSUME NEW rs, NEW e, IsFresh(rs, e)
    PROVE  \A r \in rs : ~ Collides(e, r.event) /\ ~ Collides(r.event, e)
  BY DEF IsFresh, Hits, Collides, SameEventId, SameAttemptFact, SameDedupeKey

\* The row a replay is matched with belongs to the event's session.
LEMMA ExistingIsHit ==
    ASSUME NEW rs, NEW e, IsReplay(rs, e)
    PROVE  /\ Existing(rs, e) \in rs
           /\ Existing(rs, e).event.session = e.session
           /\ Checksum(Existing(rs, e).event) = Checksum(e)
  <1>1. Hits(rs, e) # {}
    BY DEF IsReplay, IsFresh
  <1>2. Existing(rs, e) \in Hits(rs, e)
    BY <1>1 DEF Existing
  <1>3. \A r \in Hits(rs, e) : r \in rs /\ r.event.session = e.session
    BY DEF Hits, SameEventId, SameAttemptFact, SameDedupeKey
  <1> QED
    BY <1>2, <1>3 DEF IsReplay

\* The fields of a command, by kind.
LEMMA RequestFields ==
    ASSUME NEW q \in Requests
    PROVE  /\ q.kind \in {"append", "binding", "target"}
           /\ q.kind = "append" => /\ q.event \in Event
                                   /\ q.event.session \in Sessions
                                   /\ q.binding \in BindingUpdate \cup {Null}
                                   /\ q.guarded \in BOOLEAN
                                   /\ IsLinearTurn(q.event) => q.guarded
           /\ q.kind = "binding" => q.binding \in BindingUpdate
           /\ q.kind = "target" => q.session \in Sessions
  <1>1. q \in Request
    BY RequestAssumption
  <1> QED
    BY <1>1, RequestAssumption DEF Request, Event

\* A binding update leaves well typed binding rows.
LEMMA WithBindingType ==
    ASSUME NEW bs \in [Slots -> BindingValues \cup {Null}], NEW b \in BindingUpdate \cup {Null}
    PROVE  WithBinding(bs, b) \in [Slots -> BindingValues \cup {Null}]
  BY DEF WithBinding, BindingUpdate

\* An allotted sequence number is positive.
LEMMA AllotType ==
    ASSUME NEW nx \in [Sessions -> Nat], NEW s \in Sessions
    PROVE  SequenceToAllot(nx, s) \in Nat \ {0}
  BY DEF SequenceToAllot

-----------------------------------------------------------------------------
(***************************************************************************)
(* Type correctness.                                                       *)
(***************************************************************************)
LEMMA InitType == Init => TypeOK
  <1> SUFFICES ASSUME Init PROVE TypeOK
    OBVIOUS
  <1>1. Committed \in Database
    BY DEF Init, InitLog, Committed, Database
  <1> QED
    BY <1>1 DEF Init, TypeOK, Phases

\* An answer leaves a well typed state.
LEMMA AnswerType ==
    ASSUME TypeOK, phase # "idle", NEW o \in Outcomes, NEW n \in Nat, Answer(o, n)
    PROVE  TypeOK'
  <1>1. Committed' = Committed
    BY DEF Answer, dbVars, Committed
  <1> QED
    BY <1>1 DEF Answer, TypeOK, dbVars, callVars, Phases, Database

\* Every step preserves TypeOK.
LEMMA NextType == TypeOK /\ [Next]_vars => TypeOK'
  <1> SUFFICES ASSUME TypeOK, [Next]_vars PROVE TypeOK'
    OBVIOUS
  <1>c. ASSUME UNCHANGED dbVars PROVE Committed' = Committed
    BY <1>c DEF dbVars, Committed
  <1>1. ASSUME NEW c \in Callers, NEW q \in Requests, Send(c, q) PROVE TypeOK'
    <2>1. [caller |-> c, req |-> q] \in Calls
      BY DEF Calls
    <2> QED
      BY <1>1, <1>c, <2>1 DEF Send, TypeOK, dbVars, actorVars
  <1>2. CASE Take
    <2>1. Head(channel) \in Calls /\ Tail(channel) \in Seq(Calls)
      BY <1>2 DEF Take, TypeOK
    <2> QED
      BY <1>2, <1>c, <2>1 DEF Take, TypeOK, dbVars, Phases
  <1>3. CASE LookUp
    <2>1. CASE IsReplay(rows, cmd.req.event) /\ Answer("duplicate", Existing(rows, cmd.req.event).seq)
      <3>1. Existing(rows, cmd.req.event).seq \in Nat
        BY <2>1, ExistingIsHit DEF TypeOK, Committed, Database, Row
      <3> QED
        BY <1>3, <2>1, <3>1, AnswerType DEF LookUp, Outcomes
    <2>2. CASE Answer("conflict", 0) \/ Answer("refused", 0)
      BY <1>3, <2>2, AnswerType DEF LookUp, Outcomes
    <2>3. CASE /\ phase' = "beforeSequenceBump"
               /\ UNCHANGED <<dbVars, cmd, view, seq, outcome, callVars>>
      BY <1>3, <2>3, <1>c DEF LookUp, TypeOK, callVars, Phases
    <2> QED
      BY <1>3, <2>1, <2>2, <2>3 DEF LookUp
  <1>4. CASE BumpSequence
    <2>1. cmd.req.event.session \in Sessions
      BY <1>4, RequestFields DEF BumpSequence, TypeOK, Calls
    <2>2. SequenceToAllot(view.next, cmd.req.event.session) \in Nat
      BY <2>1, AllotType DEF TypeOK, Database
    <2> DEFINE s == cmd.req.event.session
               nx == [view.next EXCEPT ![s] = SequenceToAllot(view.next, s) + 1]
    <2>a. nx \in [Sessions -> Nat]
      BY <2>1, <2>2 DEF TypeOK, Database
    <2>b. view' = [view EXCEPT !.next = nx]
      BY <1>4 DEF BumpSequence
    <2>3. view' \in Database
      <3> HIDE DEF nx
      <3> QED
        BY <2>a, <2>b DEF TypeOK, Database
    <2> QED
      BY <1>4, <1>c, <2>2, <2>3 DEF BumpSequence, TypeOK, callVars, Phases
  <1>5. CASE InsertRow
    <2>1. /\ cmd.req.event \in Event
          /\ cmd.req.binding \in BindingUpdate \cup {Null}
      BY <1>5, RequestFields DEF InsertRow, TypeOK, Calls
    <2>2. WithBinding(view.bindings, cmd.req.binding) \in [Slots -> BindingValues \cup {Null}]
      BY <2>1, WithBindingType DEF TypeOK, Database
    <2>3. [event |-> cmd.req.event, seq |-> seq] \in Row
      BY <2>1 DEF TypeOK, Row
    <2>4. view' \in Database
      BY <1>5, <2>2, <2>3 DEF InsertRow, TypeOK, Database
    <2> QED
      BY <1>5, <1>c, <2>4 DEF InsertRow, TypeOK, callVars, Phases
  <1>6. CASE Commit
    <2>1. Committed' = view
      BY <1>6 DEF Commit, Committed, TypeOK, Database
    <2> QED
      BY <1>6, <2>1 DEF Commit, TypeOK, callVars, Phases, Outcomes
  <1>7. CASE Upsert
    <2> DEFINE q == cmd.req
    <2>0. q \in Requests /\ phase = "begun" /\ view = Committed
      BY <1>7 DEF Upsert, TypeOK, Calls
    <2>1. bindings' \in [Slots -> BindingValues \cup {Null}]
      BY <1>7, <2>0, RequestFields, WithBindingType DEF Upsert, TypeOK, Committed, Database
    <2>2. next' \in [Sessions -> Nat]
      BY <1>7, <2>0, RequestFields, AllotType DEF Upsert, TypeOK, Committed, Database
    <2>3. view' = Committed' /\ Committed' \in Database
      BY <1>7, <2>0, <2>1, <2>2 DEF Upsert, TypeOK, Committed, Database
    <2> QED
      BY <1>7, <2>3 DEF Upsert, TypeOK, callVars, Phases, Outcomes
  <1>8. CASE RollBack
    BY <1>8, AnswerType DEF RollBack, InTransaction, Outcomes
  <1>9. CASE Respond
    <2>1. [req |-> cmd.req, outcome |-> outcome, seq |-> seq]
             \in [req : Requests, outcome : Outcomes, seq : Nat]
      BY <1>9 DEF Respond, TypeOK, Calls
    <2> QED
      BY <1>9, <1>c, <2>1 DEF Respond, TypeOK, Phases
  <1>10. CASE Crash
    BY <1>10, <1>c DEF Crash, TypeOK, Phases
  <1>11. CASE UNCHANGED vars
    BY <1>11, <1>c DEF vars, actorVars, callVars, TypeOK
  <1> QED
    BY <1>1, <1>2, <1>3, <1>4, <1>5, <1>6, <1>7, <1>8, <1>9, <1>10, <1>11 DEF Next, ActorStep

\* TypeOK holds in every reachable state of the writer actor: tables, view and
\* replies keep their shape, and outside a transaction the view is the database.
THEOREM TypeCorrect == Spec => []TypeOK
  BY InitType, NextType, PTL DEF Spec

-----------------------------------------------------------------------------
(***************************************************************************)
(* The inductive invariant.                                                *)
(***************************************************************************)
LEMMA InitInv == Init => LogInv
  <1> SUFFICES ASSUME Init PROVE LogInv
    OBVIOUS
  <1>1. rows = {} /\ told = {} /\ phase = "idle" /\ \A s \in Sessions : next[s] = 0
    BY DEF Init, InitLog
  <1>2. KeysUnique /\ OneOpenTurn /\ ToldIsDurable /\ TransactionInv
    BY <1>1 DEF KeysUnique, OneOpenTurn, OpenTurns, Unresolved, ToldIsDurable, TransactionInv
  <1>3. SequencesDense
    BY <1>1 DEF SequencesDense, RowsOf
  <1> QED
    BY <1>2, <1>3, InitType DEF LogInv

\* Only a commit adds a row, and it adds the one the transaction prepared.
LEMMA CommitAdds ==
    ASSUME TypeOK, TransactionInv, Commit
    PROVE  /\ rows' = rows \cup {NewRow}
           /\ cmd.req \in Requests
           /\ cmd.req.kind = "append"
           /\ cmd.req.event \in Event
           /\ cmd.req.event.session \in Sessions
           /\ NewRow \in Row
           /\ Admitted
           /\ seq = SequenceToAllot(next, cmd.req.event.session)
           /\ seq \in Nat \ {0}
           /\ next' = [next EXCEPT ![cmd.req.event.session] = seq + 1]
           /\ bindings' = WithBinding(bindings, cmd.req.binding)
  <1>1. cmd.req \in Requests /\ cmd.req.kind = "append" /\ seq \in Nat
    BY DEF TypeOK, Commit, Calls
  <1>2. cmd.req.event \in Event /\ cmd.req.event.session \in Sessions
    BY <1>1, RequestFields
  <1>3. seq \in Nat \ {0}
    BY <1>2, AllotType DEF TransactionInv, Commit, TypeOK, Committed, Database
  <1> QED
    BY <1>1, <1>2, <1>3 DEF TransactionInv, Commit, NewRow, Row

\* Only a commit changes the durable rows.
LEMMA RowsChange == [Next]_vars => Commit \/ UNCHANGED rows
  BY DEF Next, ActorStep, vars, dbVars, Send, Take, LookUp, Answer, BumpSequence, InsertRow,
         Upsert, RollBack, Respond, Crash

\* An answer that inserted and found nothing keeps TransactionInv.
LEMMA AnswerKeeps ==
    ASSUME NEW o, NEW n, Answer(o, n), o \notin {"inserted", "duplicate"}
    PROVE  TransactionInv'
  BY DEF Answer, TransactionInv

\* Every step preserves TransactionInv.
LEMMA NextTransaction == TypeOK /\ TransactionInv /\ [Next]_vars => TransactionInv'
  <1> SUFFICES ASSUME TypeOK, TransactionInv, [Next]_vars PROVE TransactionInv'
    OBVIOUS
  <1>1. ASSUME NEW c \in Callers, NEW q \in Requests, Send(c, q) PROVE TransactionInv'
    BY <1>1 DEF Send, TransactionInv, Admitted, NewRow, dbVars, actorVars
  <1>2. CASE Take
    BY <1>2 DEF Take, TransactionInv
  <1>3. CASE LookUp
    <2> DEFINE e == cmd.req.event
    <2>1. CASE IsReplay(rows, e) /\ Answer("duplicate", Existing(rows, e).seq)
      <3>1. /\ Existing(rows, e) \in rows
            /\ Existing(rows, e).event.session = e.session
            /\ Checksum(Existing(rows, e).event) = Checksum(e)
        BY <2>1, ExistingIsHit
      <3>2. /\ phase' = "reply"
            /\ seq' = Existing(rows, e).seq
            /\ rows' = rows
            /\ cmd' = cmd
            /\ cmd.req.kind = "append"
        BY <1>3, <2>1 DEF LookUp, Answer, dbVars
      <3> QED
        BY <3>1, <3>2 DEF TransactionInv
    <2>2. CASE Answer("conflict", 0) \/ Answer("refused", 0)
      BY <2>2, AnswerKeeps
    <2>3. CASE /\ IsFresh(rows, e)
               /\ ~ (cmd.req.guarded /\ Unresolved(rows, e.session) # {})
               /\ phase' = "beforeSequenceBump"
               /\ UNCHANGED <<dbVars, cmd, view, seq, outcome, callVars>>
      BY <2>3 DEF TransactionInv, Admitted, dbVars
    <2> QED
      BY <1>3, <2>1, <2>2, <2>3 DEF LookUp
  <1>4. CASE BumpSequence
    <2>1. view = Committed
      BY <1>4 DEF BumpSequence, TypeOK
    <2>2. /\ seq' = SequenceToAllot(next, cmd.req.event.session)
          /\ view' = [view EXCEPT !.next = [next EXCEPT ![cmd.req.event.session] = seq' + 1]]
          /\ phase' = "afterSequenceBump"
          /\ UNCHANGED <<rows, next, bindings, cmd>>
      BY <1>4, <2>1 DEF BumpSequence, Committed, dbVars
    <2>3. Admitted'
      BY <1>4, <2>2 DEF TransactionInv, Admitted, BumpSequence
    <2>4. /\ view'.rows = rows
          /\ view'.bindings = bindings
          /\ view'.next = [next EXCEPT ![cmd.req.event.session] = seq' + 1]
      <3> DEFINE nx == [next EXCEPT ![cmd.req.event.session] = seq' + 1]
      <3>1. view' = [view EXCEPT !.next = nx]
        BY <2>2
      <3> HIDE DEF nx
      <3>2. view'.rows = view.rows /\ view'.bindings = view.bindings /\ view'.next = nx
        BY <3>1 DEF TypeOK, Database
      <3> QED
        BY <3>2, <2>1 DEF Committed, nx
    <2> QED
      BY <2>2, <2>3, <2>4 DEF TransactionInv
  <1>5. CASE InsertRow
    <2> DEFINE wb == WithBinding(view.bindings, cmd.req.binding)
    <2>1. /\ phase = "afterSequenceBump"
          /\ phase' = "beforeCommit"
          /\ view' = [view EXCEPT !.rows = view.rows \cup {NewRow}, !.bindings = wb]
          /\ UNCHANGED <<rows, next, bindings, cmd, seq>>
      BY <1>5 DEF InsertRow, NewRow, dbVars
    <2>2. /\ view'.rows = view.rows \cup {NewRow}
          /\ view'.bindings = wb
          /\ view'.next = view.next
      <3> HIDE DEF wb
      <3> QED
        BY <2>1 DEF TypeOK, Database
    <2> QED
      BY <2>1, <2>2 DEF TransactionInv, Admitted, NewRow
  <1>6. CASE Commit
    <2>1. /\ rows' = rows \cup {NewRow}
          /\ cmd.req.kind = "append"
      BY <1>6, CommitAdds
    <2>2. /\ NewRow.event.session = cmd.req.event.session
          /\ NewRow.seq = seq
          /\ Checksum(NewRow.event) = Checksum(cmd.req.event)
      BY DEF NewRow
    <2>3. phase' = "reply" /\ UNCHANGED <<cmd, seq>>
      BY <1>6 DEF Commit
    <2> QED
      BY <2>1, <2>2, <2>3 DEF TransactionInv
  <1>7. CASE Upsert
    BY <1>7 DEF Upsert, TransactionInv
  <1>8. CASE RollBack
    BY <1>8, AnswerKeeps DEF RollBack
  <1>9. CASE Respond
    BY <1>9 DEF Respond, TransactionInv
  <1>10. CASE Crash
    BY <1>10 DEF Crash, TransactionInv
  <1>11. CASE UNCHANGED vars
    BY <1>11 DEF vars, dbVars, actorVars, TransactionInv, Admitted, NewRow
  <1> QED
    BY <1>1, <1>2, <1>3, <1>4, <1>5, <1>6, <1>7, <1>8, <1>9, <1>10, <1>11 DEF Next, ActorStep

\* Every step keeps the idempotency keys unique.
LEMMA NextKeys == LogInv /\ [Next]_vars => KeysUnique'
  <1> SUFFICES ASSUME LogInv, [Next]_vars PROVE KeysUnique'
    OBVIOUS
  <1>1. CASE UNCHANGED rows
    BY <1>1 DEF LogInv, KeysUnique
  <1>2. CASE Commit
    <2>1. rows' = rows \cup {NewRow} /\ IsFresh(rows, cmd.req.event)
      BY <1>2, CommitAdds DEF LogInv, Admitted
    <2>2. \A r \in rows : ~ Collides(NewRow.event, r.event) /\ ~ Collides(r.event, NewRow.event)
      BY <2>1, FreshCollidesNot DEF NewRow
    <2> QED
      BY <2>1, <2>2 DEF LogInv, KeysUnique
  <1> QED
    BY <1>1, <1>2, RowsChange

\* A step that leaves the rows alone moves next_sequence at most from "no row" to 1.
LEMMA NextMoves ==
    ASSUME TypeOK, [Next]_vars, UNCHANGED rows, NEW s \in Sessions, ~ Commit
    PROVE  next'[s] = next[s] \/ (next[s] = 0 /\ next'[s] = 1)
  <1>1. CASE Upsert
    <2>1. next \in [Sessions -> Nat]
      BY DEF TypeOK, Committed, Database
    <2> QED
      BY <1>1, <2>1 DEF Upsert, SequenceToAllot
  <1>2. CASE ~ Upsert
    <2>1. UNCHANGED next
      BY <1>2 DEF Next, ActorStep, vars, dbVars, Send, Take, LookUp, Answer, BumpSequence,
                  InsertRow, RollBack, Respond, Crash
    <2> QED
      BY <2>1
  <1> QED
    BY <1>1, <1>2

\* Every step keeps the numbers of a session dense.
LEMMA NextSequences == LogInv /\ [Next]_vars => SequencesDense'
  <1> SUFFICES ASSUME LogInv, [Next]_vars, NEW s \in Sessions
               PROVE  /\ \A r \in RowsOf(s)' : r.seq \in 1 .. (next'[s] - 1)
                      /\ \A n \in 1 .. (next'[s] - 1) : \E r \in RowsOf(s)' : r.seq = n
                      /\ \A r1, r2 \in RowsOf(s)' : r1.seq = r2.seq => r1 = r2
    BY DEF SequencesDense
  <1>0. /\ \A r \in RowsOf(s) : r.seq \in 1 .. (next[s] - 1)
        /\ \A n \in 1 .. (next[s] - 1) : \E r \in RowsOf(s) : r.seq = n
        /\ \A r1, r2 \in RowsOf(s) : r1.seq = r2.seq => r1 = r2
    BY DEF LogInv, SequencesDense
  <1>t. next \in [Sessions -> Nat]
    BY DEF LogInv, TypeOK, Committed, Database
  <1>1. CASE UNCHANGED rows /\ ~ Commit
    <2>1. RowsOf(s)' = RowsOf(s)
      BY <1>1 DEF RowsOf
    <2>2. next'[s] = next[s] \/ (next[s] = 0 /\ next'[s] = 1)
      BY <1>1, NextMoves DEF LogInv
    <2>3. 1 .. (next'[s] - 1) = 1 .. (next[s] - 1)
      BY <2>2, <1>t
    <2> QED
      BY <1>0, <2>1, <2>3
  <1>2. CASE Commit
    <2> DEFINE e == cmd.req.event
    <2>1. /\ rows' = rows \cup {NewRow}
          /\ e.session \in Sessions
          /\ seq = SequenceToAllot(next, e.session)
          /\ seq \in Nat \ {0}
          /\ next' = [next EXCEPT ![e.session] = seq + 1]
      BY <1>2, CommitAdds DEF LogInv
    <2>2. NewRow.seq = seq /\ NewRow.event.session = e.session
      BY DEF NewRow
    <2>3. CASE s # e.session
      <3>1. RowsOf(s)' = RowsOf(s) /\ next'[s] = next[s]
        BY <2>1, <2>2, <2>3, <1>t DEF RowsOf
      <3> QED
        BY <1>0, <3>1
    <2>4. CASE s = e.session
      <3>1. RowsOf(s)' = RowsOf(s) \cup {NewRow}
        BY <2>1, <2>2, <2>4 DEF RowsOf
      <3>2. next'[s] - 1 = seq
        BY <2>1, <2>4, <1>t
      <3>3. 1 .. (next[s] - 1) = 1 .. (seq - 1)
        BY <2>1, <2>4, <1>t DEF SequenceToAllot
      <3>4. \A r \in RowsOf(s) : r.seq \in 1 .. (seq - 1)
        BY <1>0, <3>3
      <3>5. \A r \in RowsOf(s)' : r.seq \in 1 .. seq
        BY <2>1, <2>2, <3>1, <3>4
      <3>6. ASSUME NEW n \in 1 .. seq PROVE \E r \in RowsOf(s)' : r.seq = n
        <4>1. CASE n = seq
          <5>1. NewRow \in RowsOf(s)'
            BY <3>1
          <5>2. NewRow.seq = n
            BY <2>2, <4>1
          <5> QED
            BY <5>1, <5>2
        <4>2. CASE n # seq
          <5>0. n \in 1 .. (seq - 1)
            <6>1. n \in Int /\ 1 <= n /\ n <= seq
              BY <2>1, <3>6
            <6> HIDE DEF e
            <6> QED
              BY <2>1, <4>2, <6>1
          <5>1. n \in 1 .. (next[s] - 1)
            BY <3>3, <5>0
          <5>2. PICK r \in RowsOf(s) : r.seq = n
            BY <1>0, <5>1
          <5>3. r \in RowsOf(s)'
            BY <3>1
          <5> QED
            BY <5>2, <5>3
        <4> QED
          BY <4>1, <4>2
      <3>7. ASSUME NEW x \in RowsOf(s)', NEW y \in RowsOf(s)', x.seq = y.seq PROVE x = y
        <4>1. \A r \in RowsOf(s) : r.seq # seq
          BY <2>1, <3>4
        <4> QED
          BY <1>0, <2>2, <3>1, <3>7, <4>1
      <3> QED
        BY <3>2, <3>5, <3>6, <3>7
    <2> QED
      BY <2>3, <2>4
  <1> QED
    BY <1>1, <1>2, RowsChange

\* Every step leaves a session at most one open linear turn.
LEMMA NextOpenTurn == LogInv /\ [Next]_vars => OneOpenTurn'
  <1> SUFFICES ASSUME LogInv, [Next]_vars, NEW s \in Sessions,
                      NEW r1 \in OpenTurns(rows', s), NEW r2 \in OpenTurns(rows', s)
               PROVE  r1 = r2
    BY DEF OneOpenTurn
  <1>0. \A x, y \in OpenTurns(rows, s) : x = y
    BY DEF LogInv, OneOpenTurn
  <1>1. CASE UNCHANGED rows
    BY <1>0, <1>1
  <1>2. CASE Commit
    <2>1. /\ rows' = rows \cup {NewRow}
          /\ cmd.req \in Requests
          /\ cmd.req.kind = "append"
          /\ Admitted
      BY <1>2, CommitAdds DEF LogInv
    <2>2. \A r \in OpenTurns(rows', s) : r \in OpenTurns(rows, s) \/ r = NewRow
      BY <2>1 DEF OpenTurns, Unresolved
    <2>3. CASE NewRow \in OpenTurns(rows', s)
      <3>1. IsLinearTurn(cmd.req.event) /\ cmd.req.event.session = s
        BY <2>3 DEF OpenTurns, Unresolved, NewRow
      <3>2. Unresolved(rows, s) = {}
        BY <2>1, <3>1, RequestFields DEF Admitted
      <3>3. OpenTurns(rows, s) = {}
        BY <3>2 DEF OpenTurns
      <3> QED
        BY <2>2, <3>3
    <2>4. CASE NewRow \notin OpenTurns(rows', s)
      BY <1>0, <2>2, <2>4
    <2> QED
      BY <2>3, <2>4
  <1> QED
    BY <1>1, <1>2, RowsChange

\* Every step keeps what callers were told durable.
LEMMA NextTold == LogInv /\ [Next]_vars => ToldIsDurable'
  <1> SUFFICES ASSUME LogInv, [Next]_vars, NEW a \in told',
                      a.outcome \in {"inserted", "duplicate"}
               PROVE  \E r \in rows' : /\ r.event.session = a.req.event.session
                                       /\ r.seq = a.seq
                                       /\ Checksum(r.event) = Checksum(a.req.event)
    BY DEF ToldIsDurable
  <1>1. rows \subseteq rows'
    BY RowsChange, CommitAdds DEF LogInv
  <1>2. CASE a \in told
    BY <1>1, <1>2 DEF LogInv, ToldIsDurable
  <1>3. CASE a \notin told
    <2>1. Respond
      BY <1>3 DEF Next, ActorStep, vars, callVars, Send, Take, LookUp, Answer, BumpSequence,
                  InsertRow, Commit, Upsert, RollBack, Crash
    <2>2. /\ phase = "reply"
          /\ a.req = cmd.req /\ a.outcome = outcome /\ a.seq = seq
          /\ rows' = rows
      BY <1>3, <2>1 DEF Respond, dbVars
    <2> QED
      BY <2>2 DEF LogInv, TransactionInv
  <1> QED
    BY <1>2, <1>3

\* The invariant of the writer actor, from which the properties below follow.
THEOREM LogInvariant == Spec => []LogInv
  <1>1. LogInv /\ [Next]_vars => LogInv'
    BY NextType, NextTransaction, NextKeys, NextSequences, NextOpenTurn, NextTold DEF LogInv
  <1> QED
    BY InitInv, <1>1, PTL DEF Spec

\* Whatever is repeated after a kill or an error, no fact is recorded twice.
THEOREM RecordedOnce == Spec => []KeysUnique
  <1>1. LogInv => KeysUnique
    BY DEF LogInv
  <1> QED
    BY <1>1, LogInvariant, PTL

\* Kills and rollbacks leave no gap in a session's numbering and reuse no number.
THEOREM NumberedWithoutGaps == Spec => []SequencesDense
  <1>1. LogInv => SequencesDense
    BY DEF LogInv
  <1> QED
    BY <1>1, LogInvariant, PTL

\* Competing submissions never open two linear turns of one session.
THEOREM LinearThread == Spec => []OneOpenTurn
  <1>1. LogInv => OneOpenTurn
    BY DEF LogInv
  <1> QED
    BY <1>1, LogInvariant, PTL

\* A sequence number a caller was given stays that of its fact through every kill.
THEOREM AcknowledgedIsDurable == Spec => []ToldIsDurable
  <1>1. LogInv => ToldIsDurable
    BY DEF LogInv
  <1> QED
    BY <1>1, LogInvariant, PTL

-----------------------------------------------------------------------------
(***************************************************************************)
(* The actor implements the abstract log: a commit is Record, a lone       *)
(* upsert is MoveBinding or OpenSession, every other step is a stutter.    *)
(***************************************************************************)
LEMMA StepImplements == LogInv /\ [Next]_vars => [NextLog]_logVars
  <1> SUFFICES ASSUME LogInv, [Next]_vars PROVE [NextLog]_logVars
    OBVIOUS
  <1>1. CASE Commit
    <2> DEFINE q == cmd.req
               e == cmd.req.event
    <2>1. /\ q \in Requests
          /\ q.kind = "append"
          /\ Admitted
          /\ rows' = rows \cup {[event |-> e, seq |-> SequenceToAllot(next, e.session)]}
          /\ next' = [next EXCEPT ![e.session] = SequenceToAllot(next, e.session) + 1]
          /\ bindings' = WithBinding(bindings, q.binding)
      BY <1>1, CommitAdds DEF LogInv, NewRow
    <2>2. \A r \in rows : ~ Collides(e, r.event)
      BY <2>1, FreshCollidesNot DEF Admitted
    <2>3. Record(q)
      BY <2>1, <2>2 DEF Record, Admitted
    <2> QED
      BY <2>1, <2>3 DEF NextLog
  <1>2. CASE Upsert
    <2> DEFINE q == cmd.req
    <2>1. q \in Requests
      BY <1>2 DEF Upsert, LogInv, TypeOK, Calls
    <2>2. CASE q.kind = "binding"
      <3>1. MoveBinding(q)
        BY <1>2, <2>2 DEF Upsert, MoveBinding
      <3> QED
        BY <2>1, <3>1 DEF NextLog
    <2>3. CASE q.kind = "target"
      <3>1. /\ next' = [next EXCEPT ![q.session] = SequenceToAllot(next, q.session)]
            /\ UNCHANGED <<rows, bindings>>
        BY <1>2, <2>3 DEF Upsert
      <3>2. next \in [Sessions -> Nat] /\ q.session \in Sessions
        BY <2>1, <2>3, RequestFields DEF LogInv, TypeOK, Committed, Database
      <3>3. CASE next[q.session] = 0
        <4>1. OpenSession(q)
          BY <2>3, <3>1, <3>3 DEF OpenSession, SequenceToAllot
        <4> QED
          BY <2>1, <4>1 DEF NextLog
      <3>4. CASE next[q.session] # 0
        BY <3>1, <3>2, <3>4 DEF SequenceToAllot, logVars
      <3> QED
        BY <3>3, <3>4
    <2> QED
      BY <1>2, <2>2, <2>3 DEF Upsert
  <1>3. CASE ~ Commit /\ ~ Upsert
    BY <1>3 DEF Next, ActorStep, vars, dbVars, logVars, Send, Take, LookUp, Answer, BumpSequence,
                InsertRow, RollBack, Respond, Crash
  <1> QED
    BY <1>1, <1>2, <1>3

\* Every behaviour of the actor, with its transactions, errors and kills, is a
\* behaviour of the append-only log callers are promised.
THEOREM Implementation == Spec => ImplementsLog
  <1>1. Init => InitLog
    BY DEF Init
  <1> QED
    BY <1>1, StepImplements, LogInvariant, PTL DEF Spec, ImplementsLog, LogSpec
=============================================================================
