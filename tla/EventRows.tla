----------------------------- MODULE EventRows -----------------------------
(***************************************************************************)
(* The canonical event rows of the shared event database and the lookups   *)
(* every append makes on them (shared_event_log/writer.rs, schema.rs).     *)
(*                                                                         *)
(* An event is the envelope NewCanonicalEvent: its identity columns and    *)
(* the payload they must agree on.  The payload is a member of a small     *)
(* set; SHA-256 over (schemaVersion, factType, payload) is taken to be     *)
(* injective, so a checksum is the pair of fact type and payload.          *)
(***************************************************************************)
EXTENDS Integers, FiniteSets

CONSTANTS Sessions,    \* shared session ids
          EventIds,    \* values of the event_id column
          Attempts,    \* values of the attempt_id column
          DedupeKeys,  \* values of the dedupe_key column
          Payloads,    \* fact payloads
          Null         \* SQL NULL

FactTypes == {"turnRequested", "deliveryPrepared", "deliveryAccepted", "turnAccepted",
              "turnCommitted", "usageRecorded", "control", "squad"}

Event == [session  : Sessions,
          eventId  : EventIds,
          fact     : FactTypes,
          attempt  : Attempts \cup {Null},
          dedupe   : DedupeKeys \cup {Null},
          payload  : Payloads,
          squad    : BOOLEAN,                \* payload.squadWorkerBindingKey is set
          fidelity : {"canonical", "presentation-only"}]

Row == [event : Event, seq : Nat]

Checksum(e) == <<e.fact, e.payload>>

(***************************************************************************)
(* The three idempotency keys.  usageRecorded has no per-attempt key.      *)
(***************************************************************************)
SameEventId(e, f) ==
    /\ e.session = f.session
    /\ e.eventId = f.eventId

SameAttemptFact(e, f) ==
    /\ e.session = f.session
    /\ e.fact = f.fact
    /\ e.fact # "usageRecorded"
    /\ e.attempt # Null
    /\ e.attempt = f.attempt

SameDedupeKey(e, f) ==
    /\ e.session = f.session
    /\ e.fact = f.fact
    /\ e.dedupe # Null
    /\ e.dedupe = f.dedupe

Collides(e, f) == SameEventId(e, f) \/ SameAttemptFact(e, f) \/ SameDedupeKey(e, f)

(***************************************************************************)
(* find_existing_sequence: the keys are tried in this order and the first  *)
(* hit decides, as a replay when the checksums agree, as a conflict when   *)
(* they differ.                                                            *)
(***************************************************************************)
\* Mutant: only the event id is looked up.
HitsById(rows, e) == {r \in rows : SameEventId(e, r.event)}

Hits(rows, e) ==
    LET byEventId == {r \in rows : SameEventId(e, r.event)}
        byAttempt == {r \in rows : SameAttemptFact(e, r.event)}
        byDedupe  == {r \in rows : SameDedupeKey(e, r.event)}
    IN  IF byEventId # {} THEN byEventId
        ELSE IF byAttempt # {} THEN byAttempt
        ELSE byDedupe

Existing(rows, e) == CHOOSE r \in Hits(rows, e) : TRUE

IsFresh(rows, e)    == Hits(rows, e) = {}

\* Mutant: whatever is recorded under the key counts as a replay.
ReplayUnchecked(rows, e) == ~ IsFresh(rows, e)

IsReplay(rows, e)   == ~ IsFresh(rows, e) /\ Checksum(Existing(rows, e).event) = Checksum(e)
IsConflict(rows, e) == ~ IsFresh(rows, e) /\ Checksum(Existing(rows, e).event) # Checksum(e)

(***************************************************************************)
(* The rows the "no unresolved attempt" query of append_event_inner finds: *)
(* requested turns of the session's linear thread, not of a squad worker,  *)
(* whose attempt has no committed turn.                                    *)
(***************************************************************************)
Unresolved(rows, s) ==
    {r \in rows :
        /\ r.event.session = s
        /\ r.event.fact = "turnRequested"
        /\ r.event.attempt # Null
        /\ ~ r.event.squad
        /\ ~ \E c \in rows : /\ c.event.session = s
                             /\ c.event.fact = "turnCommitted"
                             /\ c.event.attempt = r.event.attempt}

(***************************************************************************)
(* ensure_session_row and read_next_sequence.  A next_sequence of 0 stands *)
(* for a session that has no row yet; the row is created with 1.           *)
(***************************************************************************)
\* Mutant: a new session starts with 0.
SequenceFromZero(next, s) == next[s]

SequenceToAllot(next, s) == IF next[s] = 0 THEN 1 ELSE next[s]
=============================================================================
