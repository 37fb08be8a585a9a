---------------------------- MODULE CanonicalLog ----------------------------
(***************************************************************************)
(* What the shared event database promises its callers, without actor,     *)
(* channel, transactions or crashes: an append-only log per session whose  *)
(* facts are numbered 1, 2, 3, ... and can never be recorded twice, and    *)
(* binding rows that move either on their own or in the very step that     *)
(* records the fact they belong to.                                        *)
(***************************************************************************)
EXTENDS EventRows

CONSTANTS BindingKeys,   \* hidden native bindings of a session
          BindingValues, \* the columns of a binding row, as one value
          Requests       \* the writer commands the callers can issue

VARIABLES rows,     \* shared_event_log
          next,     \* shared_sessions_v2.next_sequence, 0 = no row
          bindings  \* shared_binding_state

logVars == <<rows, next, bindings>>

Slots == Sessions \X BindingKeys

BindingUpdate == [slot : Slots, value : BindingValues]

(***************************************************************************)
(* A command: "append" carries an event, possibly a binding row for the    *)
(* same transaction and possibly the unresolved-attempt guard; "binding"   *)
(* upserts a binding row alone and "target" creates or updates a session   *)
(* row.                                                                    *)
(***************************************************************************)
Request ==
    [kind : {"append"}, event : Event, binding : BindingUpdate \cup {Null}, guarded : BOOLEAN]
      \cup [kind : {"binding"}, binding : BindingUpdate]
      \cup [kind : {"target"}, session : Sessions]

(***************************************************************************)
(* The callers' discipline.  begin_turn_core is the only caller that       *)
(* records a canonical turnRequested of the linear thread, and it asks for *)
(* the guard; the actor refuses the guard on any other fact.  An attempt   *)
(* names one kind of turn: shadow imports use ids of their own.            *)
(***************************************************************************)
IsLinearTurn(e) ==
    e.fact = "turnRequested" /\ e.attempt # Null /\ ~ e.squad /\ e.fidelity = "canonical"

ASSUME RequestAssumption ==
    /\ Requests \subseteq Request
    /\ \A q \in Requests : q.kind = "append" => (IsLinearTurn(q.event) => q.guarded)
    /\ Null \notin BindingUpdate
    /\ Null \notin BindingValues

(***************************************************************************)
(* Linear turns of a session that are requested and not yet committed.     *)
(***************************************************************************)
OpenTurns(rs, s) == {r \in Unresolved(rs, s) : IsLinearTurn(r.event)}

WithBinding(bs, b) == IF b = Null THEN bs ELSE [bs EXCEPT ![b.slot] = b.value]

InitLog ==
    /\ rows = {}
    /\ next = [s \in Sessions |-> 0]
    /\ bindings = [k \in Slots |-> Null]

Record(q) ==
    /\ q.kind = "append"
    /\ \A r \in rows : ~ Collides(q.event, r.event)
    /\ q.guarded => Unresolved(rows, q.event.session) = {}
    /\ LET s == q.event.session
           n == SequenceToAllot(next, s)
       IN  /\ rows' = rows \cup {[event |-> q.event, seq |-> n]}
           /\ next' = [next EXCEPT ![s] = n + 1]
    /\ bindings' = WithBinding(bindings, q.binding)

MoveBinding(q) ==
    /\ q.kind = "binding"
    /\ bindings' = WithBinding(bindings, q.binding)
    /\ UNCHANGED <<rows, next>>

OpenSession(q) ==
    /\ q.kind = "target"
    /\ next[q.session] = 0
    /\ next' = [next EXCEPT ![q.session] = 1]
    /\ UNCHANGED <<rows, bindings>>

NextLog == \E q \in Requests : Record(q) \/ MoveBinding(q) \/ OpenSession(q)

LogSpec == InitLog /\ [][NextLog]_logVars
=============================================================================
