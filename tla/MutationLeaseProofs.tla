------------------------ MODULE MutationLeaseProofs ------------------------
(***************************************************************************)
(* The workspace mutation lease, for every set of attempts, workspaces,    *)
(* sessions and clock readings: one owner at a time, an epoch for each     *)
(* grant, and rows that a rebuild from the facts restores.                 *)
(***************************************************************************)
EXTENDS MutationLease, Minima

-----------------------------------------------------------------------------
(***************************************************************************)
(* The facts: numbered per session in the order of their commits, one per  *)
(* id, and the acquire of an epoch before its release.                     *)
(***************************************************************************)
Numbered == \A f \in facts : f.seq <= Cardinality(SessionFacts(SessionOf[f.attempt]))

SeqUnique ==
    \A f, g \in facts : SessionOf[f.attempt] = SessionOf[g.attempt] /\ f.seq = g.seq => f = g

AcquiredFirst ==
    \A f, g \in facts :
        f.attempt = g.attempt /\ f.epoch = g.epoch /\ f.change = "acquired" /\ g.change = "released"
        => f.seq < g.seq

FactIdUnique == \A f, g \in facts : SameFactId(f, g) => f = g

FactsInv ==
    /\ IsFiniteSet(facts)
    /\ Numbered
    /\ SeqUnique
    /\ AcquiredFirst
    /\ FactIdUnique

(***************************************************************************)
(* The row of a workspace and the facts behind it: it carries the highest  *)
(* epoch and the attempt that was granted it.  A held row either was not   *)
(* released, or its release sorts before its acquire.                      *)
(***************************************************************************)
EpochFacts(w) == {f \in OwnershipFacts(w) : f.epoch = lease[w].epoch}

RowInv(w) ==
    IF lease[w] = None
    THEN OwnershipFacts(w) = {}
    ELSE /\ \A f \in OwnershipFacts(w) : f.epoch <= lease[w].epoch
         /\ \A f \in EpochFacts(w) : f.attempt = lease[w].holder
         /\ \E f \in EpochFacts(w) : f.change = "acquired"
         /\ lease[w].state = "held" =>
               \A f, g \in EpochFacts(w) :
                   f.change = "acquired" /\ g.change = "released" => Before(g, f)
         /\ lease[w].state = "released" => \E f \in EpochFacts(w) : f.change = "released"

\* An attempt that works, or is about to hear that it may, holds the row.
MayWork(a) == working[a] # 0 \/ (reply[a] # None /\ reply[a].outcome = "acquired")

Holds(a) ==
    LET row == lease[WorkspaceOf[a]]
    IN  row # None /\ row.holder = a /\ row.state = "held"

WorkInv == \A a \in Attempts : MayWork(a) => Holds(a)

LeaseInv ==
    /\ TypeOK
    /\ FactsInv
    /\ \A w \in Workspaces : RowInv(w)
    /\ EpochGrantedOnce
    /\ WorkInv

-----------------------------------------------------------------------------
\* Two facts of one attempt are ordered by their numbers if by nothing else.
LEMMA BeforeTotal ==
    ASSUME TypeOK, SeqUnique, NEW f \in facts, NEW g \in facts,
           f.attempt = g.attempt, f # g
    PROVE  Before(f, g) \/ Before(g, f)
  <1>1. f.time \in Nat /\ g.time \in Nat /\ f.seq \in Nat /\ g.seq \in Nat
    BY LeaseAssumption DEF TypeOK, Fact
  <1>2. f.seq # g.seq
    BY DEF SeqUnique
  <1> QED
    BY <1>1, <1>2 DEF Before

\* The order in which facts are replayed is asymmetric.
LEMMA BeforeAsymmetric ==
    ASSUME TypeOK, NEW f \in facts, NEW g \in facts, f.attempt = g.attempt, Before(f, g)
    PROVE  ~ Before(g, f)
  <1>1. f.time \in Nat /\ g.time \in Nat /\ f.seq \in Nat /\ g.seq \in Nat
    BY LeaseAssumption DEF TypeOK, Fact
  <1>2. SessionOf[f.attempt] \in Int
    BY LeaseAssumption DEF TypeOK, Fact
  <1> QED
    BY <1>1, <1>2 DEF Before

\* What a rebuild of an owned workspace takes the row from.
LEMMA RebuiltFrom ==
    ASSUME TypeOK, FactsInv, NEW w \in Workspaces, RowInv(w), lease[w] # None
    PROVE  \E d \in Deciding(w) :
              /\ Rebuilt(w) = RowOf(d)
              /\ d \in EpochFacts(w)
              /\ d.change \in {"acquired", "released"}
  <1>1. PICK acq \in EpochFacts(w) : acq.change = "acquired"
    BY DEF RowInv
  <1>2. \A f \in OwnershipFacts(w) : f \in facts /\ f.epoch \in Nat /\ f.change \in {"acquired", "released"}
    BY DEF OwnershipFacts, TypeOK, Fact, Changes
  <1>3. lease[w].epoch \in Nat
    BY DEF TypeOK, Lease
  <1>4. \E d \in Deciding(w) : TRUE
    <2>1. ASSUME NEW d \in EpochFacts(w),
                 \A g \in EpochFacts(w) : ~ Before(d, g)
          PROVE  d \in Deciding(w)
      <3>1. ASSUME NEW g \in OwnershipFacts(w)
            PROVE  g.epoch < d.epoch \/ (g.epoch = d.epoch /\ ~ Before(d, g))
        <4>1. g.epoch <= lease[w].epoch /\ d.epoch = lease[w].epoch
          BY DEF RowInv, EpochFacts
        <4>2. CASE g.epoch = lease[w].epoch
          BY <4>1, <4>2, <2>1 DEF EpochFacts
        <4>3. CASE g.epoch # lease[w].epoch
          BY <4>1, <4>3, <1>2, <1>3
        <4> QED
          BY <4>2, <4>3
      <3> QED
        BY <3>1 DEF Deciding, EpochFacts
    <2>2. \A f, g \in EpochFacts(w) : f.change = g.change => f = g
      BY <1>2 DEF RowInv, EpochFacts, FactsInv, FactIdUnique, SameFactId
    <2>3. CASE \E rel \in EpochFacts(w) : rel.change = "released" /\ Before(acq, rel)
      <3>1. PICK rel \in EpochFacts(w) : rel.change = "released" /\ Before(acq, rel)
        BY <2>3
      <3>2. ASSUME NEW g \in EpochFacts(w), Before(rel, g) PROVE FALSE
        <4>1. g.attempt = rel.attempt /\ acq.attempt = rel.attempt /\ g \in facts /\ rel \in facts /\ acq \in facts
          BY <1>1, <1>2 DEF RowInv, EpochFacts
        <4>2. CASE g.change = "acquired"
          BY <4>1, <4>2, <1>1, <2>2, <3>1, <3>2, BeforeAsymmetric
        <4>3. CASE g.change = "released"
          <5>1. g = rel
            BY <4>3, <3>1, <2>2
          <5> QED
            BY <5>1, <4>1, <3>2, BeforeAsymmetric
        <4> QED
          BY <4>2, <4>3, <1>2 DEF EpochFacts
      <3> QED
        BY <3>2, <2>1
    <2>4. CASE ~ \E rel \in EpochFacts(w) : rel.change = "released" /\ Before(acq, rel)
      <3>1. ASSUME NEW g \in EpochFacts(w), Before(acq, g) PROVE FALSE
        <4>1. g.attempt = acq.attempt /\ g \in facts /\ acq \in facts
          BY <1>1, <1>2 DEF RowInv, EpochFacts
        <4>2. g.change = "acquired"
          BY <2>4, <3>1, <1>2 DEF EpochFacts
        <4>3. g = acq
          BY <4>2, <1>1, <2>2
        <4> QED
          BY <4>1, <4>3, <3>1, BeforeAsymmetric
      <3> QED
        BY <3>1, <2>1, <1>1
    <2> QED
      BY <2>3, <2>4
  <1>5. (CHOOSE f \in Deciding(w) : TRUE) \in Deciding(w)
    BY <1>4
  <1>6. OwnershipFacts(w) # {}
    BY <1>1 DEF EpochFacts
  <1>7. \A d \in Deciding(w) : d \in EpochFacts(w) /\ d.change \in {"acquired", "released"}
    <2> SUFFICES ASSUME NEW d \in Deciding(w)
                 PROVE  d.epoch = lease[w].epoch
      BY <1>2 DEF Deciding, EpochFacts
    <2>1. d \in OwnershipFacts(w) /\ (acq.epoch < d.epoch \/ acq.epoch = d.epoch)
      BY <1>1 DEF Deciding, EpochFacts
    <2>2. d.epoch <= lease[w].epoch /\ acq.epoch = lease[w].epoch
      BY <2>1, <1>1 DEF RowInv, EpochFacts
    <2> QED
      BY <2>1, <2>2, <1>2, <1>3
  <1> QED
    BY <1>5, <1>6, <1>7 DEF Rebuilt

\* The rebuild of an owned workspace keeps the epoch and the holder; it
\* restores a held row, and a released one unless the clock went back.
LEMMA RebuiltRow ==
    ASSUME TypeOK, FactsInv, NEW w \in Workspaces, RowInv(w), lease[w] # None
    PROVE  /\ Rebuilt(w) \in Lease
           /\ Rebuilt(w) # None
           /\ Rebuilt(w).epoch = lease[w].epoch
           /\ Rebuilt(w).holder = lease[w].holder
           /\ lease[w].state = "held" => Rebuilt(w) = lease[w]
           /\ lease[w].state = "released" => lease[w] = [Rebuilt(w) EXCEPT !.state = "released"]
  <1>1. PICK d \in Deciding(w) : /\ Rebuilt(w) = RowOf(d)
                                 /\ d \in EpochFacts(w)
                                 /\ d.change \in {"acquired", "released"}
    BY RebuiltFrom
  <1>2. PICK acq \in EpochFacts(w) : acq.change = "acquired"
    BY DEF RowInv
  <1>3. d \in facts /\ d.epoch = lease[w].epoch /\ d.attempt = lease[w].holder
    BY <1>1 DEF EpochFacts, OwnershipFacts, RowInv
  <1>4. Rebuilt(w) = [holder |-> lease[w].holder, epoch |-> lease[w].epoch,
                      state |-> IF d.change = "acquired" THEN "held" ELSE "released"]
    BY <1>1, <1>3 DEF RowOf
  <1>5. lease[w] \in Lease
    BY DEF TypeOK
  <1>6. Rebuilt(w) \in Lease
    BY <1>4, <1>5 DEF Lease
  <1>7. lease[w].state = "held" => d.change = "acquired"
    <2> SUFFICES ASSUME lease[w].state = "held", d.change = "released" PROVE FALSE
      BY <1>1
    <2>1. Before(d, acq)
      BY <1>1, <1>2 DEF RowInv
    <2>2. acq \in OwnershipFacts(w) /\ acq.epoch = d.epoch
      BY <1>2, <1>3 DEF EpochFacts
    <2>3. acq.epoch \in Nat /\ d.epoch \in Nat
      BY <2>2, <1>3 DEF OwnershipFacts, TypeOK, Fact
    <2> QED
      BY <2>1, <2>2, <2>3 DEF Deciding
  <1>8. lease[w].state \in {"held", "released"}
        /\ lease[w] = [holder |-> lease[w].holder, epoch |-> lease[w].epoch, state |-> lease[w].state]
    BY <1>5 DEF Lease
  <1>9. lease[w].state = "held" => Rebuilt(w) = lease[w]
    BY <1>4, <1>7, <1>8
  <1>10. lease[w].state = "released" => lease[w] = [Rebuilt(w) EXCEPT !.state = "released"]
    BY <1>4, <1>8
  <1> QED
    BY <1>4, <1>6, <1>9, <1>10, NoneAssumption

\* A workspace without a row has no ownership facts, and a rebuild gives it none.
LEMMA RebuiltNone ==
    ASSUME NEW w \in Workspaces, RowInv(w), lease[w] = None
    PROVE  Rebuilt(w) = None
  BY DEF RowInv, Rebuilt

-----------------------------------------------------------------------------
(***************************************************************************)
(* What a step does to the facts and the rows.                             *)
(***************************************************************************)
Recorded(f) == ~ IsReplayed(f) /\ ~ IsConflicting(f) /\ facts' = facts \cup {f}

Quiet == UNCHANGED <<facts, lease>>

Blocks(a, t) ==
    /\ lease[WorkspaceOf[a]] # None
    /\ Recorded(NewFact(a, "blocked", lease[WorkspaceOf[a]].epoch, t))
    /\ lease' = lease

Grants(a, e, t) ==
    LET row == lease[WorkspaceOf[a]]
    IN  /\ \/ row = None /\ e = 1
           \/ row # None /\ row.state = "released" /\ e = row.epoch + 1
        /\ Recorded(NewFact(a, "acquired", e, t))
        /\ lease' = [lease EXCEPT ![WorkspaceOf[a]] = [holder |-> a, epoch |-> e, state |-> "held"]]

Releases(a, t) ==
    LET row == lease[WorkspaceOf[a]]
        f   == NewFact(a, "released", row.epoch, t)
    IN  /\ row # None /\ row.holder = a /\ row.state = "held"
        /\ Recorded(f) \/ (IsReplayed(f) /\ facts' = facts)
        /\ lease' = [lease EXCEPT ![WorkspaceOf[a]] = [row EXCEPT !.state = "released"]]

\* The fact a command records is well typed.
LEMMA NewFactType ==
    ASSUME TypeOK, IsFiniteSet(facts), NEW a \in Attempts, NEW c \in Changes, NEW e \in Nat, NEW t \in Times
    PROVE  NewFact(a, c, e, t) \in Fact
  <1>1. IsFiniteSet(SessionFacts(SessionOf[a]))
    BY FS_Subset DEF SessionFacts
  <1>2. NextSeq(SessionOf[a]) \in Nat
    BY <1>1, FS_CardinalityType DEF NextSeq
  <1> QED
    BY <1>2 DEF NewFact, Fact

\* The row of an attempt is well typed.
LEMMA RowType ==
    ASSUME TypeOK, NEW a \in Attempts
    PROVE  /\ WorkspaceOf[a] \in Workspaces
           /\ lease[WorkspaceOf[a]] # None => lease[WorkspaceOf[a]] \in Lease
                                              /\ lease[WorkspaceOf[a]].epoch \in Nat
  BY LeaseAssumption DEF TypeOK, Lease

\* A grant cannot meet a fact with its id: its epoch is new.
LEMMA GrantIsNew ==
    ASSUME LeaseInv, NEW a \in Attempts, NEW e \in Nat, NEW t \in Times,
           LET row == lease[WorkspaceOf[a]]
           IN  \/ row = None /\ e = 1
               \/ row # None /\ row.state = "released" /\ e = row.epoch + 1,
           NEW g \in facts, g.attempt = a, g.change # "blocked"
    PROVE  g.epoch # e
  <1>1. g \in OwnershipFacts(WorkspaceOf[a])
    BY DEF OwnershipFacts
  <1>2. WorkspaceOf[a] \in Workspaces
    BY RowType DEF LeaseInv
  <1>3. CASE lease[WorkspaceOf[a]] = None
    BY <1>1, <1>2, <1>3 DEF LeaseInv, RowInv
  <1>4. CASE lease[WorkspaceOf[a]] # None
    <2>1. g.epoch <= lease[WorkspaceOf[a]].epoch /\ lease[WorkspaceOf[a]].epoch \in Nat
      BY <1>1, <1>2, <1>4, RowType DEF LeaseInv, RowInv
    <2>2. g.epoch \in Nat
      BY DEF LeaseInv, TypeOK, Fact
    <2> QED
      BY <1>4, <2>1, <2>2
  <1> QED
    BY <1>3, <1>4

\* An acquire that is granted is a step Grants.
LEMMA GrantSplits ==
    ASSUME LeaseInv, NEW a \in Attempts, NEW e \in Nat, NEW t \in Times,
           LET row == lease[WorkspaceOf[a]]
           IN  \/ row = None /\ e = 1
               \/ row # None /\ row.state = "released" /\ e = row.epoch + 1,
           Grant(a, e, t)
    PROVE  Grants(a, e, t)
  <1> DEFINE f == NewFact(a, "acquired", e, t)
  <1>1. f.attempt = a /\ f.change = "acquired" /\ f.epoch = e
    BY DEF NewFact
  <1>2. \A g \in facts : ~ SameFactId(f, g)
    BY <1>1, GrantIsNew DEF SameFactId
  <1>3. ~ IsReplayed(f) /\ ~ IsConflicting(f)
    BY <1>2 DEF IsReplayed, IsConflicting
  <1>4. [holder |-> a, epoch |-> e, state |-> "held"] # None
    BY NoneAssumption DEF Lease
  <1> QED
    BY <1>3, <1>4 DEF Grant, Transact, Grants, Recorded

\* An acquire is refused, granted, or changes nothing but the answers.
LEMMA AcquireSplits ==
    ASSUME LeaseInv, NEW a \in Attempts, NEW t \in Times, Acquire(a, t)
    PROVE  Quiet \/ Blocks(a, t) \/ \E e \in Nat : Grants(a, e, t)
  <1> DEFINE row == lease[WorkspaceOf[a]]
  <1>1. CASE row # None /\ row.state = "held" /\ row.holder = a /\ Answer(a, "acquired", row.epoch)
    BY <1>1 DEF Answer, Quiet
  <1>2. CASE row # None /\ Transact(a, None, NewFact(a, "blocked", row.epoch, t),
                                    [outcome |-> "busy", epoch |-> row.epoch])
    BY <1>2 DEF Transact, Quiet, Blocks, Recorded
  <1>3. CASE row # None /\ row.state = "released" /\ Grant(a, row.epoch + 1, t)
    <2>1. row.epoch + 1 \in Nat
      BY <1>3, RowType DEF LeaseInv
    <2> QED
      BY <1>3, <2>1, GrantSplits
  <1>4. CASE row = None /\ Grant(a, 1, t)
    BY <1>4, GrantSplits
  <1> QED
    BY <1>1, <1>2, <1>3, <1>4 DEF Acquire

\* A release releases, or changes nothing but the answers.
LEMMA ReleaseSplits ==
    ASSUME LeaseInv, NEW a \in Attempts, NEW t \in Times, Release(a, t)
    PROVE  Quiet \/ Releases(a, t)
  <1> DEFINE row == lease[WorkspaceOf[a]]
  <1>1. CASE \E o, n : Answer(a, o, n)
    BY <1>1 DEF Answer, Quiet
  <1>2. CASE /\ row # None /\ row.state = "held" /\ row.holder = a
             /\ Transact(a, [row EXCEPT !.state = "released"], NewFact(a, "released", row.epoch, t),
                         [outcome |-> "released", epoch |-> row.epoch])
    <2>1. [row EXCEPT !.state = "released"] # None
      <3>1. row \in Lease
        BY <1>2, RowType DEF LeaseInv
      <3>2. [row EXCEPT !.state = "released"] \in Lease
        BY <3>1 DEF Lease
      <3> QED
        BY <3>2, NoneAssumption
    <2> QED
      BY <1>2, <2>1 DEF Transact, Quiet, Releases, Recorded
  <1> QED
    BY <1>1, <1>2 DEF Release

\* The steps the invariant has to survive: quiet ones, refusals, releases, grants and restarts.
LEMMA StepSplits ==
    ASSUME LeaseInv, [Next]_vars
    PROVE  \/ Quiet
           \/ \E a \in Attempts, t \in Times :
                 Blocks(a, t) \/ Releases(a, t) \/ \E e \in Nat : Grants(a, e, t)
           \/ Reopen
  <1>1. ASSUME NEW a \in Attempts, NEW t \in Times, Acquire(a, t)
        PROVE  Quiet \/ Blocks(a, t) \/ \E e \in Nat : Grants(a, e, t)
    BY <1>1, AcquireSplits
  <1>2. ASSUME NEW a \in Attempts, NEW t \in Times, Release(a, t)
        PROVE  Quiet \/ Releases(a, t)
    BY <1>2, ReleaseSplits
  <1>3. ASSUME NEW a \in Attempts, Deliver(a) PROVE Quiet
    BY <1>3 DEF Deliver, Quiet
  <1>4. CASE UNCHANGED vars
    BY <1>4 DEF vars, Quiet
  <1> QED
    BY <1>1, <1>2, <1>3, <1>4 DEF Next

-----------------------------------------------------------------------------
(***************************************************************************)
(* A recorded fact gets the next number of its session, and keeps what is  *)
(* said of the facts; an acquire must not follow its release.              *)
(***************************************************************************)
LEMMA RecordedKeepsFacts ==
    ASSUME TypeOK, FactsInv, NEW a \in Attempts, NEW c \in Changes, NEW e \in Nat, NEW t \in Times,
           Recorded(NewFact(a, c, e, t)),
           c = "acquired" => \A g \in facts : g.attempt = a /\ g.change = "released" => g.epoch # e
    PROVE  FactsInv' /\ facts' \subseteq Fact
  <1> DEFINE f == NewFact(a, c, e, t)
             s == SessionOf[a]
  <1>1. f \in Fact
    BY NewFactType DEF FactsInv
  <1>2. f.attempt = a /\ f.change = c /\ f.epoch = e /\ f.seq = NextSeq(s)
    BY DEF NewFact
  <1>3. facts' = facts \cup {f}
    BY DEF Recorded
  <1>4. \A g \in facts : ~ SameFactId(f, g)
    BY DEF Recorded, IsReplayed, IsConflicting
  <1>5. f \notin facts
    BY <1>4 DEF SameFactId
  <1>6. IsFiniteSet(facts')
    BY <1>3, FS_AddElement DEF FactsInv
  <1>7. IsFiniteSet(SessionFacts(s)) /\ Cardinality(SessionFacts(s)) \in Nat
    BY FS_Subset, FS_CardinalityType DEF SessionFacts, FactsInv
  <1>8. SessionFacts(s)' = SessionFacts(s) \cup {f}
    BY <1>2, <1>3 DEF SessionFacts
  <1>9. Cardinality(SessionFacts(s)') = Cardinality(SessionFacts(s)) + 1
    <2>1. f \notin SessionFacts(s)
      BY <1>5 DEF SessionFacts
    <2> QED
      BY <1>7, <1>8, <2>1, FS_AddElement
  <1>10. \A r : r # s => SessionFacts(r)' = SessionFacts(r)
    BY <1>2, <1>3 DEF SessionFacts
  <1>11. f.seq = Cardinality(SessionFacts(s)) + 1
    BY <1>2 DEF NextSeq
  <1>12. \A g \in facts : g.seq \in Nat /\ (SessionOf[g.attempt] = s => g.seq < f.seq)
    <2> SUFFICES ASSUME NEW g \in facts
                 PROVE  g.seq \in Nat /\ (SessionOf[g.attempt] = s => g.seq < f.seq)
      OBVIOUS
    <2>1. g.seq \in Nat /\ g.seq <= Cardinality(SessionFacts(SessionOf[g.attempt]))
      BY DEF TypeOK, Fact, FactsInv, Numbered
    <2> QED
      BY <2>1, <1>7, <1>11
  <1>13. f.seq \in Nat
    BY <1>1 DEF Fact
  <1> HIDE DEF f
  <1>14. Numbered'
    <2> SUFFICES ASSUME NEW g \in facts'
                 PROVE  g.seq <= Cardinality(SessionFacts(SessionOf[g.attempt])')
      BY DEF Numbered, SessionFacts
    <2>1. CASE g = f
      BY <2>1, <1>2, <1>9, <1>11, <1>7
    <2>2. CASE g \in facts /\ SessionOf[g.attempt] = s
      BY <2>2, <1>7, <1>9, <1>11, <1>12
    <2>3. CASE g \in facts /\ SessionOf[g.attempt] # s
      <3>1. g.seq <= Cardinality(SessionFacts(SessionOf[g.attempt]))
        BY <2>3 DEF FactsInv, Numbered
      <3> QED
        BY <2>3, <3>1, <1>10
    <2> QED
      BY <2>1, <2>2, <2>3, <1>3
  <1>15. SeqUnique'
    <2> SUFFICES ASSUME NEW g \in facts', NEW h \in facts',
                        SessionOf[g.attempt] = SessionOf[h.attempt], g.seq = h.seq
                 PROVE  g = h
      BY DEF SeqUnique
    <2>1. CASE g \in facts /\ h \in facts
      BY <2>1 DEF FactsInv, SeqUnique
    <2>2. CASE g = f /\ h \in facts
      BY <2>2, <1>2, <1>12, <1>13
    <2>3. CASE g \in facts /\ h = f
      BY <2>3, <1>2, <1>12, <1>13
    <2> QED
      BY <2>1, <2>2, <2>3, <1>3
  <1>16. AcquiredFirst'
    <2> SUFFICES ASSUME NEW g \in facts', NEW h \in facts', g.attempt = h.attempt, g.epoch = h.epoch,
                        g.change = "acquired", h.change = "released"
                 PROVE  g.seq < h.seq
      BY DEF AcquiredFirst
    <2>1. CASE g \in facts /\ h \in facts
      BY <2>1 DEF FactsInv, AcquiredFirst
    <2>2. CASE g = f
      BY <2>2, <1>2, <1>3
    <2>3. CASE g \in facts /\ h = f
      BY <2>3, <1>2, <1>12
    <2> QED
      BY <2>1, <2>2, <2>3, <1>3
  <1>17. FactIdUnique'
    <2> SUFFICES ASSUME NEW g \in facts', NEW h \in facts', SameFactId(g, h) PROVE g = h
      BY DEF FactIdUnique
    <2>1. CASE g \in facts /\ h \in facts
      BY <2>1 DEF FactsInv, FactIdUnique
    <2>2. CASE g = f \/ h = f
      BY <2>2, <1>3, <1>4 DEF SameFactId
    <2> QED
      BY <2>1, <2>2, <1>3
  <1> QED
    BY <1>1, <1>3, <1>6, <1>14, <1>15, <1>16, <1>17 DEF FactsInv, TypeOK

\* A step without a new fact keeps FactsInv.
LEMMA SameFacts ==
    ASSUME FactsInv, facts' = facts
    PROVE  FactsInv'
  BY DEF FactsInv, Numbered, SessionFacts, SeqUnique, AcquiredFirst, FactIdUnique

\* Every step keeps FactsInv: numbers are fresh and ids are unique.
LEMMA NextFacts ==
    ASSUME LeaseInv, [Next]_vars
    PROVE  FactsInv' /\ facts' \subseteq Fact
  <1>1. CASE facts' = facts
    BY <1>1, SameFacts DEF LeaseInv, TypeOK
  <1>2. ASSUME NEW a \in Attempts, NEW t \in Times, Blocks(a, t)
        PROVE  FactsInv' /\ facts' \subseteq Fact
    <2>1. lease[WorkspaceOf[a]].epoch \in Nat
      BY <1>2, RowType DEF Blocks, LeaseInv
    <2> QED
      BY <1>2, <2>1, RecordedKeepsFacts DEF Blocks, LeaseInv, Changes
  <1>3. ASSUME NEW a \in Attempts, NEW t \in Times, Releases(a, t)
        PROVE  FactsInv' /\ facts' \subseteq Fact
    <2>1. lease[WorkspaceOf[a]].epoch \in Nat
      BY <1>3, RowType DEF Releases, LeaseInv
    <2> QED
      BY <1>1, <1>3, <2>1, RecordedKeepsFacts DEF Releases, LeaseInv, Changes
  <1>4. ASSUME NEW a \in Attempts, NEW t \in Times, NEW e \in Nat, Grants(a, e, t)
        PROVE  FactsInv' /\ facts' \subseteq Fact
    <2>1. \A g \in facts : g.attempt = a /\ g.change = "released" => g.epoch # e
      BY <1>4, GrantIsNew DEF Grants
    <2> QED
      BY <1>4, <2>1, RecordedKeepsFacts DEF Grants, LeaseInv, Changes
  <1> QED
    BY <1>1, <1>2, <1>3, <1>4, StepSplits DEF Quiet, Reopen

\* The epochs granted before are below the new one.
LEMMA NextGranted ==
    ASSUME LeaseInv, [Next]_vars
    PROVE  EpochGrantedOnce'
  <1>1. CASE facts' = facts
    BY <1>1 DEF LeaseInv, EpochGrantedOnce
  <1>2. ASSUME NEW a \in Attempts, NEW c \in Changes, NEW e \in Nat, NEW t \in Times,
               c # "acquired", Recorded(NewFact(a, c, e, t))
        PROVE  EpochGrantedOnce'
    <2>1. NewFact(a, c, e, t).change # "acquired"
      BY <1>2 DEF NewFact
    <2>2. \A f \in facts' : f.change = "acquired" => f \in facts
      BY <1>2, <2>1 DEF Recorded
    <2> QED
      BY <2>2 DEF LeaseInv, EpochGrantedOnce
  <1>3. ASSUME NEW a \in Attempts, NEW t \in Times, Blocks(a, t) PROVE EpochGrantedOnce'
    BY <1>2, <1>3, RowType DEF Blocks, LeaseInv, Changes
  <1>4. ASSUME NEW a \in Attempts, NEW t \in Times, Releases(a, t) PROVE EpochGrantedOnce'
    BY <1>1, <1>2, <1>4, RowType DEF Releases, LeaseInv, Changes
  <1>5. ASSUME NEW a \in Attempts, NEW t \in Times, NEW e \in Nat, Grants(a, e, t)
        PROVE  EpochGrantedOnce'
    <2> DEFINE f == NewFact(a, "acquired", e, t)
               w == WorkspaceOf[a]
    <2>1. facts' = facts \cup {f} /\ f.attempt = a /\ f.epoch = e
      BY <1>5 DEF Grants, Recorded, NewFact
    <2>2. ASSUME NEW g \in facts, WorkspaceOf[g.attempt] = w, g.change = "acquired" PROVE g.epoch # e
      <3>1. g \in OwnershipFacts(w) /\ w \in Workspaces /\ RowInv(w) /\ g.epoch \in Nat
        BY <2>2, RowType DEF OwnershipFacts, LeaseInv, TypeOK, Fact
      <3>2. CASE lease[w] = None
        BY <3>1, <3>2 DEF RowInv
      <3>3. CASE lease[w] # None
        <4>1. g.epoch <= lease[w].epoch /\ lease[w].epoch \in Nat /\ e = lease[w].epoch + 1
          BY <1>5, <3>1, <3>3, RowType DEF RowInv, LeaseInv, Grants
        <4> QED
          BY <3>1, <4>1
      <3> QED
        BY <3>2, <3>3
    <2> HIDE DEF f
    <2>3. ASSUME NEW g \in facts', NEW h \in facts', g.change = "acquired", h.change = "acquired",
                 WorkspaceOf[g.attempt] = WorkspaceOf[h.attempt], g.epoch = h.epoch
          PROVE  g = h
      <3>1. CASE g \in facts /\ h \in facts
        BY <3>1, <2>3 DEF LeaseInv, EpochGrantedOnce
      <3>2. CASE g = f /\ h \in facts
        BY <3>2, <2>1, <2>2, <2>3
      <3>3. CASE g \in facts /\ h = f
        BY <3>3, <2>1, <2>2, <2>3
      <3> QED
        BY <3>1, <3>2, <3>3, <2>1
    <2> QED
      BY <2>3 DEF EpochGrantedOnce
  <1> QED
    BY <1>1, <1>3, <1>4, <1>5, StepSplits DEF Quiet, Reopen

-----------------------------------------------------------------------------
(***************************************************************************)
(* The rows.                                                               *)
(***************************************************************************)
LEMMA SameRow ==
    ASSUME NEW w \in Workspaces, RowInv(w), lease'[w] = lease[w], OwnershipFacts(w)' = OwnershipFacts(w)
    PROVE  RowInv(w)'
  <1>1. EpochFacts(w)' = EpochFacts(w)
    BY DEF EpochFacts
  <1> QED
    BY <1>1 DEF RowInv, Before

\* A grant keeps the row it writes tied to the facts.
LEMMA GrantedRow ==
    ASSUME LeaseInv, NEW a \in Attempts, NEW t \in Times, NEW e \in Nat, Grants(a, e, t)
    PROVE  RowInv(WorkspaceOf[a])'
  <1> DEFINE f == NewFact(a, "acquired", e, t)
             w == WorkspaceOf[a]
  <1>1. w \in Workspaces
    BY RowType DEF LeaseInv
  <1>2. f.attempt = a /\ f.change = "acquired" /\ f.epoch = e
    BY DEF NewFact
  <1>3. OwnershipFacts(w)' = OwnershipFacts(w) \cup {f}
    BY <1>2 DEF OwnershipFacts, Grants, Recorded
  <1>4. /\ lease'[w] = [holder |-> a, epoch |-> e, state |-> "held"]
        /\ lease'[w] # None
    BY <1>1, NoneAssumption DEF Grants, LeaseInv, TypeOK, Lease
  <1>5. \A g \in OwnershipFacts(w) : g.epoch \in Nat /\ g.epoch < e
    <2> SUFFICES ASSUME NEW g \in OwnershipFacts(w) PROVE g.epoch \in Nat /\ g.epoch < e
      OBVIOUS
    <2>1. g.epoch \in Nat /\ RowInv(w)
      BY <1>1 DEF OwnershipFacts, LeaseInv, TypeOK, Fact
    <2>2. lease[w] # None
      BY <2>1 DEF RowInv
    <2>3. g.epoch <= lease[w].epoch /\ lease[w].epoch \in Nat /\ e = lease[w].epoch + 1
      BY <2>1, <2>2, RowType DEF RowInv, LeaseInv, Grants
    <2> QED
      BY <2>1, <2>3
  <1> HIDE DEF f
  <1>6. EpochFacts(w)' = {f}
    <2>1. \A g \in OwnershipFacts(w) : g.epoch # e
      BY <1>5
    <2> QED
      BY <1>2, <1>3, <1>4, <2>1 DEF EpochFacts
  <1>7. \A g \in OwnershipFacts(w)' : g.epoch <= e
    BY <1>2, <1>3, <1>5
  <1> QED
    BY <1>2, <1>4, <1>6, <1>7 DEF RowInv

\* A release keeps the row it writes tied to the facts.
LEMMA ReleasedRow ==
    ASSUME LeaseInv, NEW a \in Attempts, NEW t \in Times, Releases(a, t)
    PROVE  RowInv(WorkspaceOf[a])'
  <1> DEFINE w == WorkspaceOf[a]
             f == NewFact(a, "released", lease[w].epoch, t)
  <1>1. w \in Workspaces /\ RowInv(w) /\ lease[w] # None /\ lease[w].holder = a
        /\ lease[w] \in Lease /\ lease[w].epoch \in Nat
    BY RowType DEF LeaseInv, Releases
  <1>2. f.attempt = a /\ f.change = "released" /\ f.epoch = lease[w].epoch
    BY DEF NewFact
  <1>3. /\ lease'[w] \in Lease
        /\ lease'[w].holder = a /\ lease'[w].epoch = lease[w].epoch /\ lease'[w].state = "released"
    <2>1. lease'[w] = [lease[w] EXCEPT !.state = "released"]
      BY <1>1 DEF Releases, LeaseInv, TypeOK
    <2> QED
      BY <1>1, <2>1 DEF Lease
  <1>4. lease'[w] # None
    BY <1>3, NoneAssumption
  <1>5. PICK g \in OwnershipFacts(w)' : g.attempt = a /\ g.change = "released" /\ g.epoch = lease[w].epoch
    <2>1. CASE IsReplayed(f) /\ facts' = facts
      <3>1. PICK g \in facts : SameFactId(f, g)
        BY <2>1 DEF IsReplayed
      <3> QED
        BY <3>1, <2>1, <1>2 DEF SameFactId, OwnershipFacts
    <2>2. CASE Recorded(f)
      BY <2>2, <1>2 DEF Recorded, OwnershipFacts
    <2> QED
      BY <2>1, <2>2 DEF Releases
  <1>6. \A h \in OwnershipFacts(w)' :
            h \in OwnershipFacts(w) \/ (h.epoch = lease[w].epoch /\ h.attempt = a)
    BY <1>2 DEF OwnershipFacts, Releases, Recorded
  <1>7. OwnershipFacts(w) \subseteq OwnershipFacts(w)'
    BY DEF OwnershipFacts, Releases, Recorded
  <1>8. \A h \in OwnershipFacts(w)' : h.epoch <= lease'[w].epoch
    BY <1>1, <1>3, <1>6 DEF RowInv
  <1>9. \A h \in EpochFacts(w)' : h.attempt = lease'[w].holder
    BY <1>1, <1>3, <1>6 DEF RowInv, EpochFacts
  <1>10. \E h \in EpochFacts(w)' : h.change = "acquired"
    BY <1>1, <1>3, <1>7 DEF RowInv, EpochFacts
  <1>11. \E h \in EpochFacts(w)' : h.change = "released"
    BY <1>3, <1>5 DEF EpochFacts
  <1> QED
    BY <1>3, <1>4, <1>8, <1>9, <1>10, <1>11 DEF RowInv

\* A rebuild keeps every row tied to the facts.
LEMMA ReopenedRow ==
    ASSUME LeaseInv, NEW w \in Workspaces, Reopen
    PROVE  RowInv(w)'
  <1>1. OwnershipFacts(w)' = OwnershipFacts(w) /\ facts' = facts
    BY DEF Reopen, OwnershipFacts
  <1>2. lease'[w] = Rebuilt(w)
    BY DEF Reopen
  <1>3. TypeOK /\ FactsInv /\ RowInv(w)
    BY DEF LeaseInv
  <1>4. CASE lease[w] = None
    <2>1. lease'[w] = lease[w]
      BY <1>2, <1>3, <1>4, RebuiltNone
    <2> QED
      BY <1>1, <1>3, <2>1, SameRow
  <1>5. CASE lease[w] # None
    <2>1. PICK d \in Deciding(w) : /\ Rebuilt(w) = RowOf(d)
                                   /\ d \in EpochFacts(w)
                                   /\ d.change \in {"acquired", "released"}
      BY <1>3, <1>5, RebuiltFrom
    <2>2. lease'[w] # None /\ lease'[w].epoch = lease[w].epoch /\ lease'[w].holder = lease[w].holder
      BY <1>2, <1>3, <1>5, RebuiltRow
    <2>3. EpochFacts(w)' = EpochFacts(w)
      BY <1>1, <2>2 DEF EpochFacts
    <2>4. lease'[w].state = IF d.change = "acquired" THEN "held" ELSE "released"
      BY <1>2, <2>1 DEF RowOf
    <2>5. ASSUME lease'[w].state = "held",
                 NEW f \in EpochFacts(w), NEW g \in EpochFacts(w), f.change = "acquired", g.change = "released"
          PROVE  Before(g, f)
      <3>1. d.change = "acquired"
        BY <2>1, <2>4, <2>5
      <3>2. f \in facts /\ g \in facts /\ d \in facts /\ g \in OwnershipFacts(w)
            /\ f.attempt = d.attempt /\ g.attempt = d.attempt
            /\ f.epoch = d.epoch /\ g.epoch = d.epoch
        BY <1>3, <1>5, <2>1 DEF EpochFacts, OwnershipFacts, RowInv
      <3>3. f = d
        BY <1>3, <2>5, <3>1, <3>2 DEF FactsInv, FactIdUnique, SameFactId
      <3>4. ~ Before(d, g)
        <4>1. g.epoch \in Nat
          BY <1>3, <3>2 DEF TypeOK, Fact
        <4> QED
          BY <3>2, <4>1 DEF Deciding
      <3>5. d # g
        BY <2>5, <3>1
      <3> QED
        BY <1>3, <3>2, <3>3, <3>4, <3>5, BeforeTotal DEF FactsInv
    <2>6. lease'[w].state = "held" =>
              \A f, g \in EpochFacts(w)' : f.change = "acquired" /\ g.change = "released" => Before(g, f)
      BY <2>3, <2>5
    <2>7. lease'[w].state = "released" => \E f \in EpochFacts(w)' : f.change = "released"
      BY <2>1, <2>3, <2>4
    <2> QED
      BY <1>1, <1>3, <1>5, <2>2, <2>3, <2>6, <2>7 DEF RowInv
  <1> QED
    BY <1>4, <1>5

\* Every step keeps every row tied to the facts.
LEMMA NextRows ==
    ASSUME LeaseInv, [Next]_vars, NEW w \in Workspaces
    PROVE  RowInv(w)'
  <1>0. RowInv(w)
    BY DEF LeaseInv
  <1>1. CASE Quiet
    BY <1>0, <1>1, SameRow DEF Quiet, OwnershipFacts
  <1>2. ASSUME NEW a \in Attempts, NEW t \in Times, Blocks(a, t) PROVE RowInv(w)'
    <2>1. NewFact(a, "blocked", lease[WorkspaceOf[a]].epoch, t).change = "blocked"
      BY DEF NewFact
    <2>2. OwnershipFacts(w)' = OwnershipFacts(w)
      BY <1>2, <2>1 DEF Blocks, Recorded, OwnershipFacts
    <2> QED
      BY <1>0, <1>2, <2>2, SameRow DEF Blocks
  <1>3. ASSUME NEW a \in Attempts, NEW t \in Times, Releases(a, t) PROVE RowInv(w)'
    <2>1. CASE w = WorkspaceOf[a]
      BY <1>3, <2>1, ReleasedRow
    <2>2. CASE w # WorkspaceOf[a]
      <3>1. NewFact(a, "released", lease[WorkspaceOf[a]].epoch, t).attempt = a
        BY DEF NewFact
      <3>2. OwnershipFacts(w)' = OwnershipFacts(w)
        BY <1>3, <2>2, <3>1 DEF Releases, Recorded, OwnershipFacts
      <3>3. lease'[w] = lease[w]
        BY <1>3, <2>2 DEF Releases, LeaseInv, TypeOK
      <3> QED
        BY <1>0, <3>2, <3>3, SameRow
    <2> QED
      BY <2>1, <2>2
  <1>4. ASSUME NEW a \in Attempts, NEW t \in Times, NEW e \in Nat, Grants(a, e, t) PROVE RowInv(w)'
    <2>1. CASE w = WorkspaceOf[a]
      BY <1>4, <2>1, GrantedRow
    <2>2. CASE w # WorkspaceOf[a]
      <3>1. NewFact(a, "acquired", e, t).attempt = a
        BY DEF NewFact
      <3>2. OwnershipFacts(w)' = OwnershipFacts(w)
        BY <1>4, <2>2, <3>1 DEF Grants, Recorded, OwnershipFacts
      <3>3. lease'[w] = lease[w]
        BY <1>4, <2>2 DEF Grants, LeaseInv, TypeOK
      <3> QED
        BY <1>0, <3>2, <3>3, SameRow
    <2> QED
      BY <2>1, <2>2
  <1>5. CASE Reopen
    BY <1>5, ReopenedRow
  <1> QED
    BY <1>1, <1>2, <1>3, <1>4, <1>5, StepSplits

-----------------------------------------------------------------------------
(***************************************************************************)
(* Types, and who works.                                                   *)
(***************************************************************************)
LEMMA NextReply ==
    ASSUME LeaseInv, [Next]_vars
    PROVE  reply' \in [Attempts -> Reply \cup {None}] /\ working' \in [Attempts -> Nat]
  <1>1. TypeOK
    BY DEF LeaseInv
  <1>2. ASSUME NEW a \in Attempts, NEW o \in {"acquired", "busy", "released", "error"}, NEW n \in Nat,
               reply' = [reply EXCEPT ![a] = [outcome |-> o, epoch |-> n]]
        PROVE  reply' \in [Attempts -> Reply \cup {None}]
    BY <1>1, <1>2 DEF TypeOK, Reply
  <1>3. ASSUME NEW a \in Attempts, NEW row, NEW f, NEW o \in {"acquired", "busy", "released", "error"},
               NEW n \in Nat, Transact(a, row, f, [outcome |-> o, epoch |-> n])
        PROVE  reply' \in [Attempts -> Reply \cup {None}]
    BY <1>2, <1>3 DEF Transact
  <1>4. ASSUME NEW a \in Attempts, NEW t \in Times, Acquire(a, t)
        PROVE  reply' \in [Attempts -> Reply \cup {None}]
    <2> DEFINE row == lease[WorkspaceOf[a]]
    <2>1. row # None => row.epoch \in Nat /\ row.epoch + 1 \in Nat
      BY <1>1, RowType
    <2>2. CASE row # None /\ Answer(a, "acquired", row.epoch)
      BY <1>2, <2>1, <2>2 DEF Answer
    <2>3. CASE row # None /\ Transact(a, None, NewFact(a, "blocked", row.epoch, t),
                                      [outcome |-> "busy", epoch |-> row.epoch])
      BY <1>3, <2>1, <2>3
    <2>4. CASE row # None /\ Grant(a, row.epoch + 1, t)
      BY <1>3, <2>1, <2>4 DEF Grant
    <2>5. CASE Grant(a, 1, t)
      BY <1>3, <2>5 DEF Grant
    <2> QED
      BY <1>4, <2>2, <2>3, <2>4, <2>5 DEF Acquire
  <1>5. ASSUME NEW a \in Attempts, NEW t \in Times, Release(a, t)
        PROVE  reply' \in [Attempts -> Reply \cup {None}]
    <2> DEFINE row == lease[WorkspaceOf[a]]
    <2>1. row # None => row.epoch \in Nat
      BY <1>1, RowType
    <2>2. CASE Answer(a, "released", 0)
      BY <1>2, <2>2 DEF Answer
    <2>3. CASE row # None /\ (Answer(a, "busy", row.epoch) \/ Answer(a, "released", row.epoch))
      BY <1>2, <2>1, <2>3 DEF Answer
    <2>4. CASE row # None /\ Transact(a, [row EXCEPT !.state = "released"],
                                      NewFact(a, "released", row.epoch, t),
                                      [outcome |-> "released", epoch |-> row.epoch])
      BY <1>3, <2>1, <2>4
    <2> QED
      BY <1>5, <2>2, <2>3, <2>4 DEF Release
  <1>6. ASSUME NEW a \in Attempts, Deliver(a)
        PROVE  reply' \in [Attempts -> Reply \cup {None}] /\ working' \in [Attempts -> Nat]
    <2>1. reply[a] \in Reply
      BY <1>1, <1>6 DEF Deliver, TypeOK
    <2>2. reply[a].epoch \in Nat
      BY <2>1 DEF Reply
    <2> QED
      BY <1>1, <1>6, <2>2 DEF Deliver, TypeOK
  <1>7. ASSUME Reopen
        PROVE  reply' \in [Attempts -> Reply \cup {None}] /\ working' \in [Attempts -> Nat]
    BY <1>1, <1>7 DEF Reopen, TypeOK
  <1>8. ASSUME UNCHANGED vars
        PROVE  reply' \in [Attempts -> Reply \cup {None}] /\ working' \in [Attempts -> Nat]
    BY <1>1, <1>8 DEF vars, TypeOK
  <1>9. ASSUME NEW a \in Attempts, NEW t \in Times, Acquire(a, t) \/ Release(a, t)
        PROVE  working' \in [Attempts -> Nat]
    <2>1. CASE working' = working
      BY <1>1, <2>1 DEF TypeOK
    <2>2. CASE working' = [working EXCEPT ![a] = 0]
      BY <1>1, <2>2 DEF TypeOK
    <2> QED
      BY <1>9, <2>1, <2>2 DEF Acquire, Release
  <1> QED
    BY <1>4, <1>5, <1>6, <1>7, <1>8, <1>9 DEF Next

\* Every step leaves rows that are well typed.
LEMMA NextLease ==
    ASSUME LeaseInv, [Next]_vars
    PROVE  lease' \in [Workspaces -> Lease \cup {None}]
  <1>1. TypeOK /\ FactsInv
    BY DEF LeaseInv
  <1>2. ASSUME NEW a \in Attempts, NEW t \in Times, Releases(a, t)
        PROVE  lease' \in [Workspaces -> Lease \cup {None}]
    <2>1. lease[WorkspaceOf[a]] \in Lease
      BY <1>1, <1>2, RowType DEF Releases
    <2>2. [lease[WorkspaceOf[a]] EXCEPT !.state = "released"] \in Lease
      BY <2>1 DEF Lease
    <2> QED
      BY <1>1, <1>2, <2>2 DEF Releases, TypeOK
  <1>3. ASSUME NEW a \in Attempts, NEW t \in Times, NEW e \in Nat, Grants(a, e, t)
        PROVE  lease' \in [Workspaces -> Lease \cup {None}]
    <2>1. [holder |-> a, epoch |-> e, state |-> "held"] \in Lease
      BY DEF Lease
    <2> QED
      BY <1>1, <1>3, <2>1 DEF Grants, TypeOK
  <1>4. CASE Reopen
    <2>1. ASSUME NEW w \in Workspaces PROVE Rebuilt(w) \in Lease \cup {None}
      BY <1>1, RebuiltRow, RebuiltNone DEF LeaseInv
    <2> QED
      BY <1>4, <2>1 DEF Reopen
  <1> QED
    BY <1>1, <1>2, <1>3, <1>4, StepSplits DEF Quiet, Blocks, TypeOK

\* Every step keeps WorkInv: whoever works holds the row.
LEMMA NextWork ==
    ASSUME LeaseInv, [Next]_vars
    PROVE  WorkInv'
  <1>0. TypeOK /\ WorkInv
    BY DEF LeaseInv
  <1> SUFFICES ASSUME NEW b \in Attempts, MayWork(b)' PROVE Holds(b)'
    BY DEF WorkInv
  <1>a. WorkspaceOf[b] \in Workspaces
    BY LeaseAssumption
  <1>1. ASSUME NEW a \in Attempts, NEW t \in Times, Acquire(a, t) PROVE Holds(b)'
    <2> DEFINE row == lease[WorkspaceOf[a]]
    <2>1. CASE b # a
      <3>1. reply'[b] = reply[b] /\ working'[b] = working[b]
        BY <1>0, <1>1, <2>1 DEF Acquire, Answer, Grant, Transact, TypeOK
      <3>2. Holds(b)
        BY <1>0, <3>1 DEF MayWork, WorkInv
      <3>3. CASE lease' = lease
        BY <3>2, <3>3 DEF Holds
      <3>4. ASSUME NEW e \in Nat, Grants(a, e, t) PROVE Holds(b)'
        <4>1. WorkspaceOf[b] # WorkspaceOf[a]
          BY <3>2, <3>4 DEF Holds, Grants
        <4> QED
          BY <1>0, <3>2, <3>4, <4>1 DEF Holds, Grants, TypeOK
      <3> QED
        BY <1>1, <3>3, <3>4, AcquireSplits DEF Quiet, Blocks
    <2>2. CASE b = a
      <3>1. reply[a] = None /\ working'[a] = working[a]
        BY <1>1 DEF Acquire
      <3>2. working[a] # 0 => Holds(a)
        BY <1>0 DEF MayWork, WorkInv
      <3>3. CASE row # None /\ row.state = "held" /\ row.holder = a /\ Answer(a, "acquired", row.epoch)
        BY <2>2, <3>3 DEF Holds, Answer
      <3>4. CASE row # None /\ row.state = "held" /\ row.holder # a
                 /\ Transact(a, None, NewFact(a, "blocked", row.epoch, t),
                             [outcome |-> "busy", epoch |-> row.epoch])
        <4>1. reply'[a].outcome # "acquired"
          BY <1>0, <3>4 DEF Transact, TypeOK
        <4>2. working'[a] = 0
          BY <3>1, <3>2, <3>4 DEF Holds
        <4> QED
          BY <2>2, <4>1, <4>2 DEF MayWork
      <3>5. ASSUME NEW e \in Nat, Grant(a, e, t),
                   row = None \/ row.state = "released",
                   Grants(a, e, t)
            PROVE  Holds(a)'
        <4>1. lease'[WorkspaceOf[a]] = [holder |-> a, epoch |-> e, state |-> "held"]
          BY <1>0, <3>5, RowType DEF Grants, TypeOK
        <4>2. lease'[WorkspaceOf[a]] # None
          BY <4>1, NoneAssumption DEF Lease
        <4> QED
          BY <4>1, <4>2 DEF Holds
      <3>6. CASE row # None /\ row.state = "released" /\ Grant(a, row.epoch + 1, t)
        <4>1. row.epoch + 1 \in Nat
          BY <1>0, <3>6, RowType
        <4> QED
          BY <2>2, <3>5, <3>6, <4>1, GrantSplits
      <3>7. CASE row = None /\ Grant(a, 1, t)
        BY <2>2, <3>5, <3>7, GrantSplits
      <3> QED
        BY <1>1, <3>3, <3>4, <3>6, <3>7 DEF Acquire
    <2> QED
      BY <2>1, <2>2
  <1>2. ASSUME NEW a \in Attempts, NEW t \in Times, Release(a, t) PROVE Holds(b)'
    <2>1. b # a
      <3>1. working'[a] = 0 /\ (reply'[a] # None => reply'[a].outcome # "acquired")
        BY <1>0, <1>2 DEF Release, Answer, Transact, TypeOK
      <3> QED
        BY <3>1 DEF MayWork
    <2>2. reply'[b] = reply[b] /\ working'[b] = working[b]
      BY <1>0, <1>2, <2>1 DEF Release, Answer, Transact, TypeOK
    <2>3. Holds(b)
      BY <1>0, <2>2 DEF MayWork, WorkInv
    <2>4. CASE lease' = lease
      BY <2>3, <2>4 DEF Holds
    <2>5. CASE Releases(a, t)
      <3>1. WorkspaceOf[b] # WorkspaceOf[a]
        BY <2>1, <2>3, <2>5 DEF Holds, Releases
      <3> QED
        BY <1>0, <2>3, <2>5, <3>1 DEF Holds, Releases, TypeOK
    <2> QED
      BY <1>2, <2>4, <2>5, ReleaseSplits DEF Quiet
  <1>3. ASSUME NEW a \in Attempts, Deliver(a) PROVE Holds(b)'
    <2>1. MayWork(b)
      BY <1>0, <1>3 DEF Deliver, MayWork, TypeOK
    <2>2. Holds(b)
      BY <1>0, <2>1 DEF WorkInv
    <2> QED
      BY <1>3, <2>2 DEF Deliver, Holds
  <1>4. CASE Reopen
    <2>1. MayWork(b)
      BY <1>0, <1>4 DEF Reopen, MayWork, TypeOK
    <2>2. Holds(b)
      BY <1>0, <2>1 DEF WorkInv
    <2>3. lease'[WorkspaceOf[b]] = lease[WorkspaceOf[b]]
      BY <1>a, <1>4, <2>2, RebuiltRow DEF Reopen, Holds, LeaseInv
    <2> QED
      BY <2>2, <2>3 DEF Holds
  <1>5. CASE UNCHANGED vars
    <2>1. MayWork(b)
      BY <1>5 DEF vars, MayWork
    <2> QED
      BY <1>0, <1>5, <2>1 DEF vars, Holds, WorkInv
  <1> QED
    BY <1>1, <1>2, <1>3, <1>4, <1>5 DEF Next

-----------------------------------------------------------------------------
(***************************************************************************)
(* The theorems.                                                           *)
(***************************************************************************)
LEMMA InitLeaseInv == Init => LeaseInv
  <1> SUFFICES ASSUME Init PROVE LeaseInv
    OBVIOUS
  <1>1. TypeOK
    BY DEF Init, TypeOK
  <1>2. FactsInv
    BY FS_EmptySet DEF Init, FactsInv, Numbered, SeqUnique, AcquiredFirst, FactIdUnique
  <1>3. \A w \in Workspaces : RowInv(w)
    BY DEF Init, RowInv, OwnershipFacts
  <1>4. EpochGrantedOnce /\ WorkInv
    BY DEF Init, EpochGrantedOnce, WorkInv, MayWork
  <1> QED
    BY <1>1, <1>2, <1>3, <1>4 DEF LeaseInv

\* Every step preserves LeaseInv.
LEMMA NextLeaseInv == LeaseInv /\ [Next]_vars => LeaseInv'
  <1> SUFFICES ASSUME LeaseInv, [Next]_vars PROVE LeaseInv'
    OBVIOUS
  <1>1. TypeOK'
    BY NextFacts, NextReply, NextLease DEF TypeOK
  <1> QED
    BY <1>1, NextFacts, NextRows, NextGranted, NextWork DEF LeaseInv

\* The inductive invariant: the facts are numbered and unique, every row
\* agrees with its facts, and whoever works holds the row.
THEOREM LeaseInvariant == Spec => []LeaseInv
  BY InitLeaseInv, NextLeaseInv, PTL DEF Spec

\* Rows, facts, answers and granted epochs are well typed in every state.
THEOREM LeaseTypeCorrect == Spec => []TypeOK
  <1>1. LeaseInv => TypeOK
    BY DEF LeaseInv
  <1> QED
    BY <1>1, LeaseInvariant, PTL

\* Two attempts never change the files of one workspace at a time, for any
\* number of attempts, restarts and lost answers and for any clock.
THEOREM Exclusion == Spec => []MutualExclusion
  <1>1. LeaseInv => MutualExclusion
    BY DEF LeaseInv, WorkInv, MayWork, Holds, MutualExclusion
  <1> QED
    BY <1>1, LeaseInvariant, PTL

\* An epoch of a workspace is granted to one attempt, once.
THEOREM FencingTokens == Spec => []EpochGrantedOnce
  <1>1. LeaseInv => EpochGrantedOnce
    BY DEF LeaseInv
  <1> QED
    BY <1>1, LeaseInvariant, PTL

\* A rebuild names the holder and the epoch that the row named, and can lose
\* no more than a release.
THEOREM RebuildAgrees == Spec => []RowAgreesWithFacts
  <1>1. ASSUME LeaseInv PROVE RowAgreesWithFacts
    <2> SUFFICES ASSUME NEW w \in Workspaces
                 PROVE  \/ lease[w] = Rebuilt(w)
                        \/ /\ lease[w] # None /\ Rebuilt(w) # None
                           /\ lease[w] = [Rebuilt(w) EXCEPT !.state = "released"]
      BY DEF RowAgreesWithFacts
    <2>1. TypeOK /\ FactsInv /\ RowInv(w)
      BY <1>1 DEF LeaseInv
    <2>2. lease[w] # None => lease[w].state \in {"held", "released"}
      BY <2>1 DEF TypeOK, Lease
    <2> QED
      BY <2>1, <2>2, RebuiltRow, RebuiltNone
  <1> QED
    BY <1>1, LeaseInvariant, PTL

\* While no caller's clock went back, a rebuild restores the row exactly: the
\* release has the later time, or the same time and the higher number.
THEOREM RebuildExact == Spec => []RebuildRestores
  <1>1. ASSUME LeaseInv, ClockNeverWentBack, NEW w \in Workspaces PROVE lease[w] = Rebuilt(w)
    <2>1. TypeOK /\ FactsInv /\ RowInv(w)
      BY <1>1 DEF LeaseInv
    <2>2. CASE lease[w] = None
      BY <2>1, <2>2, RebuiltNone
    <2>3. CASE lease[w] # None /\ lease[w].state = "held"
      BY <2>1, <2>3, RebuiltRow
    <2>4. CASE lease[w] # None /\ lease[w].state = "released"
      <3>1. PICK d \in Deciding(w) : Rebuilt(w) = RowOf(d) /\ d \in EpochFacts(w)
                                     /\ d.change \in {"acquired", "released"}
        BY <2>1, <2>4, RebuiltFrom
      <3>2. PICK rel \in EpochFacts(w) : rel.change = "released"
        BY <2>1, <2>4 DEF RowInv
      <3>3. d \in facts /\ rel \in facts /\ d \in OwnershipFacts(w) /\ rel \in OwnershipFacts(w)
            /\ d.attempt = rel.attempt /\ d.epoch = rel.epoch
        BY <2>1, <2>4, <3>1, <3>2 DEF EpochFacts, OwnershipFacts, RowInv
      <3>4. d.change # "acquired"
        <4> SUFFICES ASSUME d.change = "acquired" PROVE FALSE
          OBVIOUS
        <4>1. d.time <= rel.time
          BY <1>1, <3>2, <3>3 DEF ClockNeverWentBack
        <4>2. d.seq < rel.seq
          BY <2>1, <3>2, <3>3 DEF FactsInv, AcquiredFirst
        <4>3. d.time \in Nat /\ rel.time \in Nat /\ rel.epoch \in Nat
          BY <2>1, <3>3, LeaseAssumption DEF TypeOK, Fact
        <4>4. Before(d, rel)
          BY <4>1, <4>2, <4>3, <3>3 DEF Before
        <4> QED
          BY <4>3, <4>4, <3>1, <3>3 DEF Deciding
      <3>5. Rebuilt(w).state = "released"
        BY <3>1, <3>4 DEF RowOf
      <3>6. Rebuilt(w) \in Lease /\ lease[w] = [Rebuilt(w) EXCEPT !.state = "released"]
        BY <2>1, <2>4, RebuiltRow
      <3> QED
        BY <3>5, <3>6 DEF Lease
    <2> QED
      BY <2>1, <2>2, <2>3, <2>4 DEF TypeOK, Lease
  <1>2. LeaseInv => RebuildRestores
    BY <1>1 DEF RebuildRestores
  <1> QED
    BY <1>2, LeaseInvariant, PTL

\* HandsOverByEpoch for one workspace.
HandsOver(w) ==
    /\ lease'[w] # None
    /\ lease'[w].epoch >= lease[w].epoch
    /\ lease'[w].epoch > lease[w].epoch => lease[w].state = "released"
    /\ lease'[w].holder # lease[w].holder => lease'[w].epoch > lease[w].epoch

\* A row keeps its epoch and passes on only by a release and a higher epoch.
THEOREM Fencing == Spec => EpochFence
  <1>1. ASSUME LeaseInv, [Next]_vars PROVE HandsOverByEpoch
    <2> SUFFICES ASSUME NEW w \in Workspaces, lease[w] # None
                 PROVE  HandsOver(w)
      BY DEF HandsOverByEpoch, HandsOver
    <2>1. TypeOK /\ FactsInv /\ RowInv(w) /\ lease[w].epoch \in Nat
      BY <1>1 DEF LeaseInv, TypeOK, Lease
    <2>2. CASE lease'[w] = lease[w]
      BY <2>1, <2>2 DEF HandsOver
    <2>3. CASE Reopen
      <3>1. lease'[w] = Rebuilt(w)
        BY <2>3 DEF Reopen
      <3>2. Rebuilt(w) # None /\ Rebuilt(w).epoch = lease[w].epoch /\ Rebuilt(w).holder = lease[w].holder
        BY <2>1, RebuiltRow
      <3> QED
        BY <2>1, <3>1, <3>2 DEF HandsOver
    <2>4. ASSUME NEW a \in Attempts, NEW t \in Times, Releases(a, t), w = WorkspaceOf[a]
          PROVE  HandsOver(w)
      <3>1. lease'[w] = [lease[w] EXCEPT !.state = "released"] /\ lease[w] \in Lease
        BY <2>1, <2>4 DEF Releases, TypeOK
      <3>2. lease'[w] # None /\ lease'[w].epoch = lease[w].epoch /\ lease'[w].holder = lease[w].holder
        BY <3>1, NoneAssumption DEF Lease
      <3> QED
        BY <2>1, <3>2 DEF HandsOver
    <2>5. ASSUME NEW a \in Attempts, NEW t \in Times, NEW e \in Nat, Grants(a, e, t), w = WorkspaceOf[a]
          PROVE  HandsOver(w)
      <3>1. lease'[w] = [holder |-> a, epoch |-> e, state |-> "held"]
            /\ e = lease[w].epoch + 1 /\ lease[w].state = "released"
        BY <2>1, <2>5 DEF Grants, TypeOK
      <3>2. lease'[w] # None /\ lease'[w].epoch = lease[w].epoch + 1
        BY <3>1, NoneAssumption DEF Lease
      <3> QED
        BY <2>1, <3>1, <3>2 DEF HandsOver
    <2>6. ASSUME NEW a \in Attempts, NEW t \in Times, NEW e \in Nat,
                 Releases(a, t) \/ Grants(a, e, t), w # WorkspaceOf[a]
          PROVE  HandsOver(w)
      <3>1. lease'[w] = lease[w]
        BY <2>1, <2>6 DEF Releases, Grants, TypeOK
      <3> QED
        BY <2>2, <3>1
    <2>7. CASE Quiet \/ \E a \in Attempts, t \in Times : Blocks(a, t)
      BY <2>2, <2>7 DEF Quiet, Blocks
    <2>8. ASSUME NEW a \in Attempts, NEW t \in Times, NEW e \in Nat, Releases(a, t) \/ Grants(a, e, t)
          PROVE  HandsOver(w)
      <3>1. CASE w = WorkspaceOf[a]
        BY <2>4, <2>5, <2>8, <3>1
      <3> QED
        BY <2>6, <2>8, <3>1
    <2>9. ASSUME NEW a \in Attempts, NEW t \in Times, Releases(a, t) PROVE HandsOver(w)
      <3>1. 0 \in Nat
        OBVIOUS
      <3> QED
        BY <2>8, <2>9, <3>1
    <2> QED
      BY <1>1, <2>3, <2>7, <2>8, <2>9, StepSplits
  <1> QED
    BY <1>1, LeaseInvariant, PTL DEF Spec, EpochFence

-----------------------------------------------------------------------------
(***************************************************************************)
(* The loop of the rebuild.                                                *)
(***************************************************************************)
\* The facts of a database are in a strict order,
LEMMA BeforeOrders ==
    ASSUME TypeOK, FactsInv
    PROVE  /\ \A f \in facts : ~ Before(f, f)
           /\ \A f, g \in facts : f = g \/ Before(f, g) \/ Before(g, f)
           /\ \A f, g, h \in facts : Before(f, g) /\ Before(g, h) => Before(f, h)
  <1>1. \A f \in facts : /\ f.time \in Nat /\ f.seq \in Nat
                         /\ SessionOf[f.attempt] \in Int
    BY LeaseAssumption DEF TypeOK, Fact
  <1>2. \A f, g \in facts : SessionOf[f.attempt] = SessionOf[g.attempt] /\ f.seq = g.seq => f = g
    BY DEF FactsInv, SeqUnique
  <1>3. ASSUME NEW f \in facts PROVE ~ Before(f, f)
    BY <1>1 DEF Before
  <1>4. ASSUME NEW f \in facts, NEW g \in facts PROVE f = g \/ Before(f, g) \/ Before(g, f)
    BY <1>1, <1>2 DEF Before
  <1>5. ASSUME NEW f \in facts, NEW g \in facts, NEW h \in facts, Before(f, g), Before(g, h)
        PROVE  Before(f, h)
    BY <1>1, <1>5 DEF Before
  <1> QED
    BY <1>3, <1>4, <1>5

IsLast(f, S) == f \in S /\ \A g \in S : ~ Before(f, g)

\* so some of them has a last one.
LEMMA LastExists ==
    ASSUME TypeOK, FactsInv, NEW S \in SUBSET facts, S # {}
    PROVE  \E f \in S : \A g \in S : ~ Before(f, g)
  <1> DEFINE T == {A \in SUBSET facts : A # {} => \E f : IsLast(f, A)}
  <1>1. ASSUME NEW A \in SUBSET facts, \A x \in A : A \ {x} \in T, A # {}
        PROVE  \E f : IsLast(f, A)
    <2> PICK a \in A : TRUE
      BY <1>1
    <2>1. ~ Before(a, a)
      BY BeforeOrders
    <2>2. CASE A \ {a} = {}
      BY <2>1, <2>2 DEF IsLast
    <2>3. CASE A \ {a} # {}
      <3>1. PICK m : IsLast(m, A \ {a})
        BY <1>1, <2>3
      <3>2. m \in facts /\ a \in facts /\ m \in A
        BY <3>1 DEF IsLast
      <3>3. CASE Before(m, a)
        <4>1. ASSUME NEW g \in A, Before(a, g) PROVE FALSE
          <5>1. g # a /\ g \in facts
            BY <2>1, <4>1
          <5>2. Before(m, g)
            BY <3>2, <3>3, <4>1, <5>1, BeforeOrders
          <5> QED
            BY <3>1, <5>1, <5>2 DEF IsLast
        <4> QED
          BY <4>1 DEF IsLast
      <3>4. CASE ~ Before(m, a)
        BY <3>1, <3>2, <3>4 DEF IsLast
      <3> QED
        BY <3>3, <3>4
    <2> QED
      BY <2>2, <2>3
  <1>2. SUBSET facts \subseteq T
    <2>1. \A A \in SUBSET facts : (\A x \in A : A \ {x} \in T) => A \in T
      BY <1>1
    <2>2. IsFiniteSet(facts)
      BY DEF FactsInv
    <2> HIDE DEF T
    <2> QED
      BY <2>1, <2>2, SubsetsUpTo
  <1> QED
    BY <1>2 DEF IsLast

\* The row is taken from f when the facts of S are replayed.
Decides(f, S) ==
    /\ f \in S
    /\ \A g \in S : g.epoch < f.epoch \/ (g.epoch = f.epoch /\ ~ Before(f, g))

\* No two facts decide.
LEMMA OneDecides ==
    ASSUME TypeOK, FactsInv, NEW S \in SUBSET facts, NEW f, NEW g, Decides(f, S), Decides(g, S)
    PROVE  f = g
  <1>1. f \in facts /\ g \in facts /\ f.epoch \in Nat /\ g.epoch \in Nat
    BY DEF Decides, TypeOK, Fact
  <1>2. ~ Before(f, g) /\ ~ Before(g, f)
    BY <1>1 DEF Decides
  <1> QED
    BY <1>1, <1>2, BeforeOrders

\* Who decides when the last fact is replayed.
LEMMA LastReplayed ==
    ASSUME TypeOK, FactsInv, NEW S \in SUBSET facts, NEW f, IsLast(f, S)
    PROVE  /\ S \ {f} = {} => Decides(f, S)
           /\ \A d : Decides(d, S \ {f}) => Decides(IF d.epoch > f.epoch THEN d ELSE f, S)
  <1>1. \A g \in S : g \in facts /\ g.epoch \in Nat
    BY DEF TypeOK, Fact
  <1>2. f \in S /\ \A g \in S : ~ Before(f, g)
    BY DEF IsLast
  <1>3. ASSUME S \ {f} = {} PROVE Decides(f, S)
    BY <1>2, <1>3 DEF Decides
  <1>4. ASSUME NEW d, Decides(d, S \ {f}) PROVE Decides(IF d.epoch > f.epoch THEN d ELSE f, S)
    <2>1. d \in S /\ \A g \in S \ {f} : g.epoch < d.epoch \/ (g.epoch = d.epoch /\ ~ Before(d, g))
      BY <1>4 DEF Decides
    <2>2. CASE d.epoch > f.epoch
      BY <1>1, <1>2, <2>1, <2>2 DEF Decides
    <2>3. CASE ~ (d.epoch > f.epoch)
      <3>1. ASSUME NEW g \in S PROVE g.epoch < f.epoch \/ (g.epoch = f.epoch /\ ~ Before(f, g))
        <4>1. g = f \/ g.epoch <= d.epoch
          BY <1>1, <2>1
        <4> QED
          BY <1>1, <1>2, <2>1, <2>3, <4>1
      <3> QED
        BY <1>2, <2>3, <3>1 DEF Decides
    <2> QED
      BY <2>2, <2>3
  <1> QED
    BY <1>3, <1>4

\* Some fact decides.
LEMMA SomeDecides ==
    ASSUME TypeOK, FactsInv, NEW S \in SUBSET facts, S # {}
    PROVE  \E f \in S : Decides(f, S)
  <1> DEFINE T == {A \in SUBSET facts : A # {} => \E f : Decides(f, A)}
  <1>1. ASSUME NEW A \in SUBSET facts, \A x \in A : A \ {x} \in T, A # {}
        PROVE  \E f : Decides(f, A)
    <2>1. PICK l : IsLast(l, A)
      BY <1>1, LastExists DEF IsLast
    <2>2. A \ {l} # {} => \E d : Decides(d, A \ {l})
      BY <1>1, <2>1 DEF IsLast
    <2> QED
      BY <2>1, <2>2, LastReplayed
  <1>2. SUBSET facts \subseteq T
    <2>1. \A A \in SUBSET facts : (\A x \in A : A \ {x} \in T) => A \in T
      BY <1>1
    <2>2. IsFiniteSet(facts)
      BY DEF FactsInv
    <2> HIDE DEF T
    <2> QED
      BY <2>1, <2>2, SubsetsUpTo
  <1> QED
    BY <1>2 DEF Decides

\* The loop over the facts in their order, with its comparison of epochs,
\* leaves what Rebuilt says: the row of the last fact of the highest epoch.
THEOREM LoopAgrees == Spec => []LoopRebuilds
  <1>1. ASSUME LeaseInv, NEW w \in Workspaces PROVE RebuildLoop(w) = Rebuilt(w)
    <2> DEFINE O        == OwnershipFacts(w)
               last(S)  == CHOOSE f \in S : \A g \in S : ~ Before(f, g)
               Body(f)  == [S \in SUBSET O |-> IF S = {} THEN None
                                               ELSE Replay(f[S \ {last(S)}], last(S))]
               loop     == CHOOSE f : f = Body(f)
               decider(S) == CHOOSE f \in S : Decides(f, S)
               h        == [S \in SUBSET O |-> IF S = {} THEN None ELSE RowOf(decider(S))]
    <2>1. TypeOK /\ FactsInv
      BY <1>1 DEF LeaseInv
    <2>2. O \subseteq facts
      BY DEF OwnershipFacts
    <2>3. RebuildLoop(w) = loop[O]
      BY DEF RebuildLoop
    <2>4. \A S \in SUBSET O : S # {} => Decides(decider(S), S)
      BY <2>1, <2>2, SomeDecides
    <2>5. \A S \in SUBSET O : S # {} => IsLast(last(S), S)
      BY <2>1, <2>2, LastExists DEF IsLast
    <2>6. \A f \in facts : f.epoch \in Nat /\ RowOf(f) # None /\ RowOf(f).epoch = f.epoch
      BY <2>1, NoneAssumption DEF TypeOK, Fact, RowOf, Lease
    <2>7. ASSUME NEW S \in SUBSET O, S # {}
          PROVE  h[S] = Replay(h[S \ {last(S)}], last(S))
      <3> DEFINE l == last(S)
                 R == S \ {l}
      <3>1. IsLast(l, S) /\ l \in S /\ l \in facts
        BY <2>2, <2>5, <2>7 DEF IsLast
      <3>2. R \in SUBSET O /\ R \in SUBSET facts /\ S \in SUBSET facts
        BY <2>2
      <3>3. Decides(decider(S), S) /\ h[S] = RowOf(decider(S))
        BY <2>4, <2>7
      <3>4. CASE R = {}
        <4>1. Decides(l, S)
          BY <2>1, <3>1, <3>2, <3>4, LastReplayed
        <4>2. decider(S) = l
          BY <2>1, <3>2, <3>3, <4>1, OneDecides
        <4>3. h[R] = None
          BY <3>2, <3>4
        <4> HIDE DEF h, l, decider
        <4> QED
          BY <3>3, <4>2, <4>3 DEF Replay, l
      <3>5. CASE R # {}
        <4> DEFINE d == decider(R)
        <4>1. Decides(d, R) /\ h[R] = RowOf(d)
          BY <2>4, <3>2, <3>5
        <4>2. Decides(IF d.epoch > l.epoch THEN d ELSE l, S)
          <5> HIDE DEF d, l
          <5> QED
            BY <2>1, <3>1, <3>2, <4>1, LastReplayed
        <4>3. decider(S) = IF d.epoch > l.epoch THEN d ELSE l
          BY <2>1, <3>2, <3>3, <4>2, OneDecides
        <4>4. d \in facts
          BY <3>2, <4>1 DEF Decides
        <4> HIDE DEF h, l, d, decider
        <4>5. Replay(h[R], l) = IF d.epoch > l.epoch THEN RowOf(d) ELSE RowOf(l)
          BY <2>6, <4>1, <4>4 DEF Replay
        <4> QED
          BY <3>3, <4>3, <4>5 DEF l
      <3> QED
        BY <3>4, <3>5
    <2>8. h = Body(h)
      <3>1. \A S \in SUBSET O : h[S] = IF S = {} THEN None ELSE Replay(h[S \ {last(S)}], last(S))
        <4>1. {} \in SUBSET O /\ h[{}] = None
          OBVIOUS
        <4> HIDE DEF h, last
        <4> QED
          BY <2>7, <4>1
      <3>2. h = [S \in SUBSET O |-> h[S]]
        OBVIOUS
      <3> HIDE DEF h, last
      <3> QED
        BY <3>1, <3>2
    <2>9. loop = Body(loop)
      <3> HIDE DEF Body, h
      <3> QED
        BY <2>8
    <2>10. \A S \in SUBSET O : loop[S] = IF S = {} THEN None ELSE Replay(loop[S \ {last(S)}], last(S))
      <3> SUFFICES ASSUME NEW u, u = Body(u)
                   PROVE  \A S \in SUBSET O : u[S] = IF S = {} THEN None
                                                     ELSE Replay(u[S \ {last(S)}], last(S))
        BY <2>9
      <3> HIDE DEF last
      <3> QED
        OBVIOUS
    <2> DEFINE T == {S \in SUBSET O : loop[S] = h[S]}
    <2>11. SUBSET O \subseteq T
      <3>1. ASSUME NEW S \in SUBSET O, \A x \in S : S \ {x} \in T PROVE S \in T
        <4>1. CASE S = {}
          <5>1. h[S] = None
            BY <4>1
          <5>2. loop[S] = None
            <6> HIDE DEF loop, last
            <6> QED
              BY <2>10, <4>1
          <5> QED
            BY <5>1, <5>2
        <4>2. CASE S # {}
          <5>1. last(S) \in S
            BY <2>5, <4>2 DEF IsLast
          <5>2. loop[S \ {last(S)}] = h[S \ {last(S)}]
            BY <3>1, <5>1
          <5>3. loop[S] = h[S]
            <6> HIDE DEF loop, last, h
            <6> QED
              BY <2>7, <2>10, <4>2, <5>2
          <5> QED
            BY <5>3
        <4> QED
          BY <4>1, <4>2
      <3>2. IsFiniteSet(O)
        BY <2>1, <2>2, FS_Subset DEF FactsInv
      <3> HIDE DEF T, O
      <3> QED
        BY <3>1, <3>2, SubsetsUpTo
    <2>12. loop[O] = h[O]
      <3>1. O \in T
        <4> HIDE DEF T
        <4> QED
          BY <2>11
      <3> QED
        BY <3>1
    <2>13. h[O] = Rebuilt(w)
      <3>1. CASE O = {}
        BY <3>1 DEF Rebuilt
      <3>2. CASE O # {}
        <4>1. Deciding(w) = {f \in O : Decides(f, O)}
          BY DEF Deciding, Decides
        <4>2. Decides(decider(O), O) /\ decider(O) \in O
          BY <2>4, <3>2 DEF Decides
        <4>3. (CHOOSE f \in Deciding(w) : TRUE) \in Deciding(w)
          BY <4>1, <4>2
        <4>4. Decides(CHOOSE f \in Deciding(w) : TRUE, O)
          BY <4>1, <4>3
        <4>5. decider(O) = (CHOOSE f \in Deciding(w) : TRUE)
          BY <2>1, <2>2, <4>2, <4>4, OneDecides
        <4>6. h[O] = RowOf(decider(O))
          BY <3>2
        <4>7. Rebuilt(w) = RowOf(CHOOSE f \in Deciding(w) : TRUE)
          BY <3>2 DEF Rebuilt
        <4> HIDE DEF h, decider, O
        <4> QED
          BY <4>5, <4>6, <4>7
      <3> QED
        BY <3>1, <3>2
    <2> HIDE DEF loop, h, O
    <2> QED
      BY <2>3, <2>12, <2>13
  <1>2. LeaseInv => LoopRebuilds
    BY <1>1 DEF LoopRebuilds
  <1> QED
    BY <1>2, LeaseInvariant, PTL
=============================================================================
