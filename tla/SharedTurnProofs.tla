-------------------------- MODULE SharedTurnProofs --------------------------
(***************************************************************************)
(* What holds of SharedTurn whatever overlaps: any number of windows, the  *)
(* event path and crashes.  TypeOK, and that a turn is recorded as         *)
(* completed only after its prompt went out, its context was accepted and  *)
(* the runtime acknowledged it.  The list of steps of a process is spoken  *)
(* of by what it contains and in which order, not by its shape.            *)
(***************************************************************************)
EXTENDS SharedTurn, FiniteSetTheorems, TLAPS

\* A list contains a step, contains nothing but steps of S, has every first
\* before every second.
Lists(todo, step) == \E i \in 1 .. Len(todo) : todo[i] = step
Only(todo, S)     == \A i \in 1 .. Len(todo) : todo[i] \in S
Ahead(todo, first, second) ==
    \A i, j \in 1 .. Len(todo) : todo[i] = first /\ todo[j] = second => i < j

\* Steps that need nothing but a turn to work for.
Plain == Steps \ {"begin", "prepare", "check", "accept", "prompt", "acceptTurn",
                  "observe", "publish", "settle"}

-----------------------------------------------------------------------------
(***************************************************************************)
(* The inductive invariant.  The log and the row are well typed, and there *)
(* is a row once there is a fact.  A process is beginning a turn, or it    *)
(* works through a plan: for no turn it can only flag or rebuild; it has   *)
(* the snapshot that it is to commit; and the step acceptTurn is ahead     *)
(* only while the acceptance of the context and the prompt are ahead of it *)
(* or done.  A command is the one of the step it is computed by.           *)
(***************************************************************************)
LogInv ==
    /\ facts \subseteq FactTypes \X Attempts
    /\ committed \in [Attempts -> Snapshots \cup {None}]
    /\ genOf \in [Attempts -> Generations \cup {0}]
    /\ row \in BindingRow \cup {None}
    /\ gens \in Nat
    /\ engine \in Engines
    /\ owner \in [Attempts -> Owner \cup {None}]
    /\ runtime \in [Attempts -> {"none", "running", "done"}]
    /\ prompts \in [Attempts -> Nat]
    /\ crashes \in Nat
    /\ facts # {} => row # None
    /\ \A f \in facts : f[2] \in Requested
    /\ \A a \in Requested : genOf[a] \in Generations
    /\ \A a \in Attempts : Owned(a) => a \in Requested

AcceptedInv ==
    \A a \in Attempts :
        /\ Has("turnAccepted", a) => Has("deliveryAccepted", a) /\ prompts[a] > 0
        /\ committed[a] = "completed" => Has("turnAccepted", a)

Process == [todo : Seq(Steps), a : Attempts \cup {0}, snap : Snapshots \cup {None},
            transfer : BOOLEAN, cmd : Cmd \cup {None}]

OwnSnapshots == {"user-cancelled", "probe-cancelled", "skipped"}

Plan(todo, a, snap) ==
    /\ todo \in Seq(Steps)
    /\ ~ Lists(todo, "begin")
    /\ a = 0 => Only(todo, {"mark", "rebuild"})
    /\ Lists(todo, "observe") \/ Lists(todo, "publish") => snap \in Reported
    /\ Lists(todo, "settle") => snap \in OwnSnapshots /\ ~ Lists(todo, "drain")
    /\ Lists(todo, "rebuild") => ~ Lists(todo, "acceptTurn")
    /\ Ahead(todo, "accept", "acceptTurn")
    /\ Ahead(todo, "prompt", "acceptTurn")
    /\ Lists(todo, "acceptTurn") =>
          /\ Lists(todo, "accept") \/ Has("deliveryAccepted", a)
          /\ Lists(todo, "prompt") \/ prompts[a] > 0

\* The facts that a step may record; None if it only writes the row.
RecordedBy(step) ==
    CASE step = "begin"      -> {"turnRequested"}
      [] step = "prepare"    -> {"deliveryPrepared"}
      [] step = "accept"     -> {"deliveryAccepted"}
      [] step = "acceptTurn" -> {"turnAccepted"}
      [] step \in {"observe", "publish", "settle", "fail", "failNative"} -> {"turnCommitted"}
      [] step = "rebuild"    -> {None, "turnCommitted"}
      [] step \in {"mark", "starting", "materialize", "sent", "trust", "clear"} -> {None}
      [] OTHER               -> {}

IsBeginning(w) == w.cmd # None /\ w.cmd.fact = "turnRequested"

Computed(w) ==
    /\ w.todo # <<>>
    /\ w.cmd.fact \in RecordedBy(Head(w.todo))
    /\ w.cmd.fact = "turnCommitted" => w.cmd.snap # None
    /\ w.cmd.fact \notin {None, "turnRequested"} => w.a # 0
    /\ w.cmd.fact = "turnCommitted" /\ w.cmd.snap = "completed" => Has("turnAccepted", w.a)

Fits(w) ==
    /\ w \in Process
    /\ w.todo # <<>> => row # None \/ IsBeginning(w)
    /\ w.a # 0 => w.a \in Requested
    /\ IF IsBeginning(w) THEN w.todo = Send /\ w.a = 0 ELSE Plan(w.todo, w.a, w.snap)
    /\ w.cmd # None => Computed(w)

TurnInv ==
    /\ LogInv
    /\ AcceptedInv
    /\ procs \in [Procs -> Process]
    /\ \A p \in Procs : Fits(procs[p])

-----------------------------------------------------------------------------
(***************************************************************************)
(* Lists of steps.                                                         *)
(***************************************************************************)
\* The rest of a list contains nothing new, and keeps everything but the head.
LEMMA RestFacts ==
    ASSUME NEW q \in Seq(Steps), q # <<>>
    PROVE  /\ Tail(q) \in Seq(Steps)
           /\ Lists(q, Head(q))
           /\ \A s : Lists(Tail(q), s) => Lists(q, s)
           /\ \A s : Lists(q, s) /\ Head(q) # s => Lists(Tail(q), s)
           /\ \A S : Only(q, S) => Only(Tail(q), S)
           /\ \A x, y : Ahead(q, x, y) => Ahead(Tail(q), x, y)
           /\ \A x : Ahead(q, x, Head(q)) => ~ Lists(q, x)
  <1>1. /\ Tail(q) \in Seq(Steps) /\ Len(q) \in Nat /\ Len(q) > 0
        /\ Len(Tail(q)) = Len(q) - 1
        /\ \A i \in 1 .. Len(Tail(q)) : Tail(q)[i] = q[i + 1]
        /\ Head(q) = q[1]
    OBVIOUS
  <1> SUFFICES ASSUME NEW t, t = Tail(q), NEW h, h = Head(q), NEW n, n = Len(q), NEW m, m = Len(t)
               PROVE  /\ Lists(q, h)
                      /\ \A s : Lists(t, s) => Lists(q, s)
                      /\ \A s : Lists(q, s) /\ h # s => Lists(t, s)
                      /\ \A S : Only(q, S) => Only(t, S)
                      /\ \A x, y : Ahead(q, x, y) => Ahead(t, x, y)
                      /\ \A x : Ahead(q, x, h) => ~ Lists(q, x)
    BY <1>1
  <1>2. /\ n \in Nat /\ n > 0 /\ m = n - 1 /\ h = q[1]
        /\ \A i \in 1 .. m : t[i] = q[i + 1]
    BY <1>1
  <1>3. Lists(q, h)
    BY <1>2 DEF Lists
  <1>4. \A s : Lists(t, s) => Lists(q, s)
    BY <1>2 DEF Lists
  <1>5. ASSUME NEW s, Lists(q, s), h # s PROVE Lists(t, s)
    <2>1. PICK i \in 1 .. n : q[i] = s
      BY <1>5 DEF Lists
    <2>2. i - 1 \in 1 .. m /\ t[i - 1] = q[(i - 1) + 1] /\ (i - 1) + 1 = i
      BY <1>2, <1>5, <2>1
    <2> QED
      BY <2>1, <2>2 DEF Lists
  <1>6. ASSUME NEW S, Only(q, S) PROVE Only(t, S)
    BY <1>2, <1>6 DEF Only
  <1>7. ASSUME NEW x, NEW y, Ahead(q, x, y) PROVE Ahead(t, x, y)
    <2> SUFFICES ASSUME NEW i \in 1 .. m, NEW j \in 1 .. m, t[i] = x, t[j] = y PROVE i < j
      BY DEF Ahead
    <2>1. i + 1 \in 1 .. n /\ j + 1 \in 1 .. n /\ q[i + 1] = x /\ q[j + 1] = y
      BY <1>2
    <2>2. i + 1 < j + 1
      BY <1>7, <2>1 DEF Ahead
    <2> QED
      BY <2>2, <1>2
  <1>8. ASSUME NEW x, Ahead(q, x, h), Lists(q, x) PROVE FALSE
    <2>1. PICK i \in 1 .. n : q[i] = x
      BY <1>8 DEF Lists
    <2>2. i < 1
      BY <1>2, <1>8, <2>1 DEF Ahead
    <2> QED
      BY <2>1, <2>2, <1>2
  <1> QED
    BY <1>3, <1>4, <1>5, <1>6, <1>7, <1>8

\* Two lists, one after the other.
LEMMA JoinFacts ==
    ASSUME NEW q \in Seq(Steps), NEW r \in Seq(Steps)
    PROVE  /\ q \o r \in Seq(Steps)
           /\ \A s : Lists(q \o r, s) => Lists(q, s) \/ Lists(r, s)
           /\ \A s : Lists(r, s) => Lists(q \o r, s)
           /\ \A x, y : ~ Lists(q, x) /\ ~ Lists(q, y) /\ Ahead(r, x, y) => Ahead(q \o r, x, y)
  <1>1. /\ q \o r \in Seq(Steps) /\ Len(q \o r) = Len(q) + Len(r)
        /\ Len(q) \in Nat /\ Len(r) \in Nat
        /\ \A i \in 1 .. Len(q) : (q \o r)[i] = q[i]
        /\ \A i \in Len(q) + 1 .. Len(q) + Len(r) : (q \o r)[i] = r[i - Len(q)]
    OBVIOUS
  <1> SUFFICES ASSUME NEW t, t = q \o r, NEW n, n = Len(q), NEW m, m = Len(r), NEW l, l = Len(t)
               PROVE  /\ \A s : Lists(t, s) => Lists(q, s) \/ Lists(r, s)
                      /\ \A s : Lists(r, s) => Lists(t, s)
                      /\ \A x, y : ~ Lists(q, x) /\ ~ Lists(q, y) /\ Ahead(r, x, y) => Ahead(t, x, y)
    BY <1>1
  <1>2. /\ n \in Nat /\ m \in Nat /\ l = n + m
        /\ \A i \in 1 .. n : t[i] = q[i]
        /\ \A i \in n + 1 .. n + m : t[i] = r[i - n]
    BY <1>1
  <1>3. ASSUME NEW s, NEW i \in 1 .. l, t[i] = s, ~ Lists(q, s)
        PROVE  i - n \in 1 .. m /\ r[i - n] = s
    <2>1. i \notin 1 .. n
      BY <1>2, <1>3 DEF Lists
    <2>2. i \in n + 1 .. n + m
      BY <1>2, <2>1
    <2> QED
      BY <1>2, <1>3, <2>2
  <1>4. ASSUME NEW s, Lists(t, s), ~ Lists(q, s) PROVE Lists(r, s)
    <2>1. PICK i \in 1 .. l : t[i] = s
      BY <1>4 DEF Lists
    <2>2. i - n \in 1 .. m /\ r[i - n] = s
      BY <1>3, <1>4, <2>1
    <2> QED
      BY <2>2 DEF Lists
  <1>5. ASSUME NEW x, NEW y, ~ Lists(q, x), ~ Lists(q, y), Ahead(r, x, y) PROVE Ahead(t, x, y)
    <2> SUFFICES ASSUME NEW i \in 1 .. l, NEW j \in 1 .. l, t[i] = x, t[j] = y PROVE i < j
      BY DEF Ahead
    <2>1. i - n \in 1 .. m /\ r[i - n] = x /\ j - n \in 1 .. m /\ r[j - n] = y
      BY <1>3, <1>5
    <2>2. i - n < j - n
      BY <1>5, <2>1 DEF Ahead
    <2> QED
      BY <2>2, <1>2
  <1>6. ASSUME NEW s, Lists(r, s) PROVE Lists(t, s)
    <2>1. PICK i \in 1 .. m : r[i] = s
      BY <1>6 DEF Lists
    <2>2. i + n \in n + 1 .. n + m /\ i + n \in 1 .. l /\ (i + n) - n = i
      BY <1>2
    <2>3. t[i + n] = s
      BY <1>2, <2>1, <2>2
    <2> QED
      BY <2>2, <2>3 DEF Lists
  <1> QED
    BY <1>4, <1>5, <1>6

\* Short lists.
LEMMA ShortLists ==
    ASSUME NEW x \in Steps, NEW y \in Steps, NEW z \in Steps, NEW u \in Steps
    PROVE  /\ <<x>> \in Seq(Steps) /\ \A s : Lists(<<x>>, s) <=> s = x
           /\ <<x, y>> \in Seq(Steps) /\ \A s : Lists(<<x, y>>, s) <=> s \in {x, y}
           /\ <<x, y, z>> \in Seq(Steps) /\ \A s : Lists(<<x, y, z>>, s) <=> s \in {x, y, z}
           /\ <<x, y, z, u>> \in Seq(Steps) /\ \A s : Lists(<<x, y, z, u>>, s) <=> s \in {x, y, z, u}
  <1>1. \A s : Lists(<<x>>, s) <=> s = x
    BY DEF Lists
  <1>2. \A s : Lists(<<x, y>>, s) <=> s \in {x, y}
    <2> SUFFICES ASSUME NEW n, n = <<x, y>>, NEW s PROVE Lists(n, s) <=> s \in {x, y}
      OBVIOUS
    <2>1. Len(n) = 2 /\ n[1] = x /\ n[2] = y
      OBVIOUS
    <2> QED
      BY <2>1 DEF Lists
  <1>3. \A s : Lists(<<x, y, z>>, s) <=> s \in {x, y, z}
    <2> SUFFICES ASSUME NEW n, n = <<x, y, z>>, NEW s PROVE Lists(n, s) <=> s \in {x, y, z}
      OBVIOUS
    <2>1. Len(n) = 3 /\ n[1] = x /\ n[2] = y /\ n[3] = z
      OBVIOUS
    <2> QED
      BY <2>1 DEF Lists
  <1>4. \A s : Lists(<<x, y, z, u>>, s) <=> s \in {x, y, z, u}
    <2> SUFFICES ASSUME NEW n, n = <<x, y, z, u>>, NEW s PROVE Lists(n, s) <=> s \in {x, y, z, u}
      OBVIOUS
    <2>1. Len(n) = 4 /\ n[1] = x /\ n[2] = y /\ n[3] = z /\ n[4] = u
      OBVIOUS
    <2> QED
      BY <2>1 DEF Lists
  <1> QED
    BY <1>1, <1>2, <1>3, <1>4

\* What a list does not contain has everything ahead of it.
LEMMA AheadOfNothing == \A n, x, y : ~ Lists(n, y) => Ahead(n, x, y)
  BY DEF Lists, Ahead

\* The empty list.
LEMMA EmptyList == <<>> \in Seq(Steps) /\ \A s : ~ Lists(<<>>, s)
  BY DEF Lists

\* What a list that reads like a dispatch contains, and in which order.
LEMMA DispatchOrder ==
    ASSUME NEW d \in Seq(Steps), Len(d) = 14, \A i \in 1 .. 13 : d[i] = Dispatch[i], d[14] = "await"
    PROVE  /\ d # <<>>
           /\ Ahead(d, "accept", "acceptTurn") /\ Ahead(d, "prompt", "acceptTurn")
           /\ Lists(d, "accept") /\ Lists(d, "prompt")
           /\ \A s \in {"begin", "prepare", "observe", "publish", "settle", "rebuild"} : ~ Lists(d, s)
  <1>1. /\ Dispatch[7] = "prompt" /\ Dispatch[10] = "accept"
        /\ \A i \in 1 .. 13 :
              /\ Dispatch[i] = "acceptTurn" => i = 12
              /\ Dispatch[i] = "accept" => i = 10
              /\ Dispatch[i] = "prompt" => i = 7
              /\ Dispatch[i] \notin {"begin", "prepare", "observe", "publish", "settle", "rebuild"}
    BY DEF Dispatch
  <1>2. d[7] = "prompt" /\ d[10] = "accept"
    BY <1>1
  <1>3. \A i \in 1 .. 14 : /\ d[i] = "acceptTurn" => i = 12
                           /\ d[i] = "accept" => i = 10
                           /\ d[i] = "prompt" => i = 7
                           /\ d[i] \notin {"begin", "prepare", "observe", "publish", "settle", "rebuild"}
    <2> TAKE i \in 1 .. 14
    <2>1. CASE i = 14
      BY <2>1
    <2>2. CASE i \in 1 .. 13
      BY <2>2, <1>1
    <2> QED
      BY <2>1, <2>2
  <1>4. Ahead(d, "accept", "acceptTurn") /\ Ahead(d, "prompt", "acceptTurn")
    BY <1>3 DEF Ahead
  <1>5. Lists(d, "accept") /\ Lists(d, "prompt")
    BY <1>2 DEF Lists
  <1>6. \A s \in {"begin", "prepare", "observe", "publish", "settle", "rebuild"} : ~ Lists(d, s)
    BY <1>3 DEF Lists
  <1>7. d # <<>>
    BY <1>5, EmptyList
  <1> QED
    BY <1>4, <1>5, <1>6, <1>7

\* The list of a dispatch that is followed by the wait for the end.
LEMMA ResendFacts ==
    ASSUME NEW d, d = Resend
    PROVE  /\ d \in Seq(Steps)
           /\ d # <<>>
           /\ Ahead(d, "accept", "acceptTurn") /\ Ahead(d, "prompt", "acceptTurn")
           /\ Lists(d, "accept") /\ Lists(d, "prompt")
           /\ \A s \in {"begin", "prepare", "observe", "publish", "settle", "rebuild"} : ~ Lists(d, s)
  <1> DEFINE e == <<"await">>
  <1>1. Dispatch \in Seq(Steps) /\ e \in Seq(Steps)
    BY DEF Dispatch, Steps
  <1>2. Len(e) = 1 /\ e[1] = "await" /\ Len(Dispatch) = 13
    BY DEF Dispatch
  <1>3. d = Dispatch \o e
    BY DEF Resend
  <1> HIDE DEF e
  <1>4. /\ d \in Seq(Steps) /\ Len(d) = Len(Dispatch) + Len(e)
        /\ \A i \in 1 .. Len(Dispatch) : d[i] = Dispatch[i]
        /\ \A i \in Len(Dispatch) + 1 .. Len(Dispatch) + Len(e) : d[i] = e[i - Len(Dispatch)]
    BY <1>1, <1>3
  <1>5. Len(d) = 14 /\ (\A i \in 1 .. 13 : d[i] = Dispatch[i]) /\ d[14] = "await"
    BY <1>2, <1>4
  <1> QED
    BY <1>4, <1>5, DispatchOrder

\* A turn that begins goes on with its preparation.
LEMMA SendFacts ==
    /\ Send \in Seq(Steps)
    /\ Send # <<>>
    /\ Head(Send) = "begin"
    /\ Ahead(Send, "accept", "acceptTurn") /\ Ahead(Send, "prompt", "acceptTurn")
    /\ Lists(Send, "accept") /\ Lists(Send, "prompt")
    /\ \A s \in {"observe", "publish", "settle", "rebuild"} : ~ Lists(Send, s)
    /\ ~ Lists(Tail(Send), "begin")
  <1> DEFINE b == <<"begin", "prepare">>
  <1>1. b \in Seq(Steps) /\ Resend \in Seq(Steps) /\ <<"prepare">> \in Seq(Steps)
    BY ResendFacts DEF Steps
  <1>3. Send = b \o Resend
    BY DEF Send
  <1>4. Len(b) = 2 /\ b[1] = "begin" /\ b[2] = "prepare"
    OBVIOUS
  <1> HIDE DEF b
  <1>2. \A s : Lists(b, s) => s \in {"begin", "prepare"}
    BY <1>4 DEF Lists
  <1>5. /\ Send \in Seq(Steps)
        /\ Ahead(Send, "accept", "acceptTurn") /\ Ahead(Send, "prompt", "acceptTurn")
        /\ Lists(Send, "accept") /\ Lists(Send, "prompt")
        /\ \A s \in {"observe", "publish", "settle", "rebuild"} : ~ Lists(Send, s)
    <2>1. /\ Send \in Seq(Steps)
          /\ \A s : Lists(Send, s) => Lists(b, s) \/ Lists(Resend, s)
          /\ \A s : Lists(Resend, s) => Lists(Send, s)
          /\ \A x, y : ~ Lists(b, x) /\ ~ Lists(b, y) /\ Ahead(Resend, x, y) => Ahead(Send, x, y)
      BY <1>1, <1>3, JoinFacts
    <2> QED
      BY <2>1, <1>2, ResendFacts
  <1>6. /\ Len(Send) = Len(b) + Len(Resend) /\ Len(Resend) \in Nat
        /\ \A i \in 1 .. Len(b) : Send[i] = b[i]
        /\ \A i \in Len(b) + 1 .. Len(b) + Len(Resend) : Send[i] = Resend[i - Len(b)]
    BY <1>1, <1>3
  <1>7. Send # <<>>
    BY <1>5, EmptyList
  <1>8. Head(Send) = Send[1] /\ Send[1] = "begin"
    BY <1>4, <1>5, <1>6, <1>7
  <1>9. ASSUME Lists(Tail(Send), "begin") PROVE FALSE
    <2>1. /\ Len(Tail(Send)) = Len(Send) - 1
          /\ \A i \in 1 .. Len(Tail(Send)) : Tail(Send)[i] = Send[i + 1]
      BY <1>5, <1>7
    <2>2. PICK i \in 1 .. Len(Tail(Send)) : Tail(Send)[i] = "begin"
      BY <1>9 DEF Lists
    <2>3. i + 1 \in 2 .. 2 + Len(Resend) /\ Send[i + 1] = "begin"
      BY <1>4, <1>6, <2>1, <2>2
    <2>4. i + 1 # 2
      BY <1>4, <1>6, <2>3
    <2>5. (i + 1) - 2 \in 1 .. Len(Resend) /\ Resend[(i + 1) - 2] = "begin"
      BY <1>4, <1>6, <2>3, <2>4
    <2> QED
      BY <2>5, ResendFacts DEF Lists
  <1> QED
    BY <1>5, <1>7, <1>8, <1>9

\* What a dispatch contains that has imported the context.
LEMMA ImportedFacts ==
    ASSUME NEW d, d = ImportedFirst
    PROVE  /\ d \in Seq(Steps)
           /\ Ahead(d, "accept", "acceptTurn") /\ Ahead(d, "prompt", "acceptTurn")
           /\ Lists(d, "accept") /\ Lists(d, "prompt")
           /\ \A s \in {"begin", "prepare", "observe", "publish", "settle", "rebuild"} : ~ Lists(d, s)
  <1>1. d \in Seq(Steps) /\ Len(d) = 7 /\ d[1] = "accept" /\ d[3] = "prompt"
    BY DEF ImportedFirst, Steps
  <1>2. \A i \in 1 .. 7 : /\ d[i] = "acceptTurn" => i = 5
                          /\ d[i] = "accept" => i = 1
                          /\ d[i] = "prompt" => i = 3
                          /\ d[i] \notin {"begin", "prepare", "observe", "publish", "settle", "rebuild"}
    BY DEF ImportedFirst
  <1> QED
    BY <1>1, <1>2 DEF Lists, Ahead

-----------------------------------------------------------------------------
(***************************************************************************)
(* Plans.  A step only adds to what the facts and the prompts say, so a    *)
(* plan stays one; its rest is one, a list of plain steps is one, and a    *)
(* flag or a removal may be put before one.                                *)
(***************************************************************************)
Grows ==
    /\ facts \subseteq facts'
    /\ row # None => row' # None
    /\ \A a \in Attempts : prompts[a] > 0 => prompts'[a] > 0

\* A turn is worked for, or the list only flags and rebuilds.
LEMMA PlanOfPlain ==
    ASSUME NEW n \in Seq(Steps), \A s : Lists(n, s) => s \in Plain,
           NEW a, a # 0 \/ \A s : Lists(n, s) => s \in {"mark", "rebuild"}, NEW snap
    PROVE  Plan(n, a, snap) /\ Plan(n, a, snap)'
  <1>1. ~ Lists(n, "begin") /\ ~ Lists(n, "observe") /\ ~ Lists(n, "publish")
        /\ ~ Lists(n, "settle") /\ ~ Lists(n, "acceptTurn")
    BY DEF Plain
  <1>2. a = 0 => Only(n, {"mark", "rebuild"})
    BY DEF Only, Lists
  <1> QED
    BY <1>1, <1>2, AheadOfNothing DEF Plan

\* What is left of a plan is a plan, once an acceptance or a prompt that was
\* its head is done.
LEMMA PlanOfRest ==
    ASSUME NEW q, NEW a \in Attempts \cup {0}, NEW snap, Plan(q, a, snap), q # <<>>, Grows,
           Head(q) = "accept" => Has("deliveryAccepted", a)',
           Head(q) = "prompt" => prompts'[a] > 0
    PROVE  Plan(Tail(q), a, snap)'
  <1> SUFFICES ASSUME NEW t, t = Tail(q) PROVE Plan(t, a, snap)'
    OBVIOUS
  <1>1. q \in Seq(Steps)
    BY DEF Plan
  <1>2. /\ t \in Seq(Steps)
        /\ \A s : Lists(t, s) => Lists(q, s)
        /\ \A s : Lists(q, s) /\ Head(q) # s => Lists(t, s)
        /\ \A S : Only(q, S) => Only(t, S)
        /\ \A x, y : Ahead(q, x, y) => Ahead(t, x, y)
    BY <1>1, RestFacts
  <1>3. Lists(t, "acceptTurn") => a \in Attempts
    <2>1. a = 0 => Only(q, {"mark", "rebuild"})
      BY DEF Plan
    <2>2. a = 0 => ~ Lists(q, "acceptTurn")
      BY <2>1 DEF Only, Lists
    <2> QED
      BY <2>2, <1>2
  <1>4. Lists(t, "acceptTurn") =>
          /\ Lists(t, "accept") \/ Has("deliveryAccepted", a)'
          /\ Lists(t, "prompt") \/ prompts'[a] > 0
    <2> SUFFICES ASSUME Lists(t, "acceptTurn") PROVE
          /\ Lists(t, "accept") \/ Has("deliveryAccepted", a)'
          /\ Lists(t, "prompt") \/ prompts'[a] > 0
      OBVIOUS
    <2>1. Lists(q, "accept") \/ Has("deliveryAccepted", a)
      BY <1>2 DEF Plan
    <2>2. Lists(q, "prompt") \/ prompts[a] > 0
      BY <1>2 DEF Plan
    <2> QED
      BY <2>1, <2>2, <1>2, <1>3 DEF Grows, Has
  <1> QED
    BY <1>2, <1>4 DEF Plan

\* A plan stays a plan.
LEMMA PlanStays ==
    ASSUME NEW q, NEW a \in Attempts \cup {0}, NEW snap, Plan(q, a, snap), Grows
    PROVE  Plan(q, a, snap)'
  <1>1. Lists(q, "acceptTurn") => a \in Attempts
    BY DEF Plan, Only, Lists
  <1> QED
    BY <1>1 DEF Plan, Grows, Has

\* The flag and the removal may be put before a plan.
LEMMA PlanOfJoin ==
    ASSUME NEW n \in Seq(Steps), \A s : Lists(n, s) => s \in {"mark", "remove"},
           NEW a, a # 0, NEW q, NEW snap, Plan(q, a, snap)'
    PROVE  Plan(n \o q, a, snap)'
  <1> SUFFICES ASSUME NEW t, t = n \o q PROVE Plan(t, a, snap)'
    OBVIOUS
  <1>1. q \in Seq(Steps)
    BY DEF Plan
  <1>2. /\ t \in Seq(Steps)
        /\ \A s : Lists(t, s) => Lists(n, s) \/ Lists(q, s)
        /\ \A s : Lists(q, s) => Lists(t, s)
        /\ \A x, y : ~ Lists(n, x) /\ ~ Lists(n, y) /\ Ahead(q, x, y) => Ahead(t, x, y)
    BY <1>1, JoinFacts
  <1>3. \A s \in {"begin", "accept", "prompt", "acceptTurn", "observe", "publish", "settle", "rebuild",
                  "drain"} :
          ~ Lists(n, s)
    OBVIOUS
  <1> QED
    BY <1>2, <1>3 DEF Plan

-----------------------------------------------------------------------------
(***************************************************************************)
(* Processes.  At most one process changes in a step, and the others fit   *)
(* as they did.                                                            *)
(***************************************************************************)
BaseInv == LogInv /\ AcceptedInv

\* Turns and generations are numbered from 1.
LEMMA NumbersFacts == Attempts \subseteq Nat \ {0} /\ Generations \subseteq Nat \ {0}
  BY TurnAssumption, FS_CardinalityType

\* A process that is left alone still fits.
LEMMA FitsStays ==
    ASSUME LogInv, LogInv', Grows, NEW w, Fits(w) PROVE Fits(w)'
  <1>1. Requested \subseteq Requested'
    BY DEF Requested, Has, Grows
  <1>2. w \in Process /\ w.a \in Attempts \cup {0}
    BY DEF Fits, Process
  <1>3. ~ IsBeginning(w) => Plan(w.todo, w.a, w.snap)'
    BY <1>2, PlanStays DEF Fits
  <1>4. w.cmd # None => Computed(w)'
    BY DEF Fits, Computed, Has, Grows
  <1> QED
    BY <1>1, <1>3, <1>4 DEF Fits, IsBeginning, Grows

\* One process changes to a record that fits.
LEMMA OneChanges ==
    ASSUME TurnInv, BaseInv', Grows, NEW p \in Procs, NEW w, procs' = [procs EXCEPT ![p] = w], Fits(w)'
    PROVE  TurnInv'
  <1>1. w \in Process
    BY DEF Fits
  <1>2. procs' \in [Procs -> Process]
    BY <1>1 DEF TurnInv
  <1>3. ASSUME NEW q \in Procs PROVE Fits(procs[q])'
    <2> SUFFICES ASSUME NEW x, x = procs'[q] PROVE Fits(x)'
      OBVIOUS
    <2>1. CASE q = p
      BY <2>1 DEF TurnInv
    <2>2. CASE q # p
      <3>1. Fits(x)
        BY <2>2 DEF TurnInv
      <3> QED
        BY <3>1, FitsStays DEF TurnInv, BaseInv
    <2> QED
      BY <2>1, <2>2
  <1> QED
    BY <1>2, <1>3 DEF TurnInv, BaseInv

\* No process changes.
LEMMA NoneChanges ==
    ASSUME TurnInv, BaseInv', Grows, UNCHANGED procs PROVE TurnInv'
  <1>1. ASSUME NEW q \in Procs PROVE Fits(procs[q])'
    <2> SUFFICES ASSUME NEW x, x = procs[q] PROVE Fits(x)'
      BY DEF Fits
    <2> QED
      BY FitsStays DEF TurnInv, BaseInv
  <1> QED
    BY <1>1 DEF TurnInv, BaseInv

\* The idle process fits.
LEMMA IdleFits == Fits(Idle) /\ Fits(Idle)'
  <1>1. Idle \in Process
    BY EmptyList DEF Idle, Process
  <1>2. Plan(<<>>, 0, None) /\ Plan(<<>>, 0, None)'
    BY EmptyList, PlanOfPlain
  <1> SUFFICES ASSUME NEW w, w = Idle PROVE Fits(w) /\ Fits(w)'
    OBVIOUS
  <1>3. w.todo = <<>> /\ w.a = 0 /\ w.snap = None /\ w.cmd = None
    BY DEF Idle
  <1> QED
    BY <1>1, <1>2, <1>3 DEF Fits, IsBeginning

\* A process that goes on with a plan.
LEMMA GoToStep ==
    ASSUME TurnInv, BaseInv', Grows, NEW p \in Procs, NEW n, GoTo(p, n), row' # None,
           NEW x, x = procs[p], Plan(n, x.a, x.snap)'
    PROVE  TurnInv'
  <1>1. CASE n = <<>>
    <2>1. procs' = [procs EXCEPT ![p] = Idle]
      BY <1>1 DEF GoTo
    <2> QED
      BY <2>1, IdleFits, OneChanges
  <1>2. CASE n # <<>>
    <2>1. procs' = [procs EXCEPT ![p] = [procs[p] EXCEPT !.todo = n, !.cmd = None]]
      BY <1>2 DEF GoTo
    <2>2. procs[p] \in Process /\ Fits(procs[p])
      BY DEF TurnInv
    <2> SUFFICES ASSUME NEW w, w = [procs[p] EXCEPT !.todo = n, !.cmd = None] PROVE Fits(w)'
      BY <2>1, OneChanges
    <2>3. n \in Seq(Steps)
      BY DEF Plan
    <2>4. /\ w \in Process /\ w.todo = n /\ w.cmd = None
          /\ w.a = x.a /\ w.snap = x.snap
      BY <2>2, <2>3 DEF Process
    <2>5. w.a # 0 => w.a \in Requested'
      <3>1. w.a # 0 => w.a \in Requested
        BY <2>2, <2>4 DEF Fits
      <3> QED
        BY <3>1 DEF Requested, Has, Grows
    <2>6. Plan(w.todo, w.a, w.snap)'
      BY <2>4
    <2> QED
      BY <2>4, <2>5, <2>6 DEF Fits, IsBeginning
  <1> QED
    BY <1>1, <1>2

\* The short plain lists that errors and ends lead to.
PlainLists == {<<>>, <<"mark">>, <<"remove">>, <<"fail">>, <<"mark", "remove">>, <<"fail", "remove">>,
               <<"failNative", "remove">>, <<"failNative", "mark", "remove">>}

\* The steps of a plain list are plain.
LEMMA PlainListFacts ==
    \A n \in PlainLists : n \in Seq(Steps) /\ \A s : Lists(n, s) => s \in Plain
  <1>1. /\ "mark" \in Steps /\ "remove" \in Steps /\ "fail" \in Steps /\ "failNative" \in Steps
        /\ "mark" \in Plain /\ "remove" \in Plain /\ "fail" \in Plain /\ "failNative" \in Plain
    BY DEF Steps, Plain
  <1> SUFFICES ASSUME NEW n \in PlainLists PROVE n \in Seq(Steps) /\ \A s : Lists(n, s) => s \in Plain
    OBVIOUS
  <1>2. CASE n = <<>>
    BY <1>2, EmptyList
  <1>3. ASSUME NEW y \in Steps, n = <<y>>, y \in Plain
        PROVE  n \in Seq(Steps) /\ \A s : Lists(n, s) => s \in Plain
    BY <1>3, ShortLists
  <1>4. ASSUME NEW y \in Steps, NEW z \in Steps, n = <<y, z>>, y \in Plain, z \in Plain
        PROVE  n \in Seq(Steps) /\ \A s : Lists(n, s) => s \in Plain
    BY <1>4, ShortLists, ZenonT(60)
  <1>5. ASSUME NEW y \in Steps, NEW z \in Steps, NEW u \in Steps, n = <<y, z, u>>,
               y \in Plain, z \in Plain, u \in Plain
        PROVE  n \in Seq(Steps) /\ \A s : Lists(n, s) => s \in Plain
    <2>1. n \in Seq(Steps)
      BY <1>5
    <2>2. Len(n) = 3 /\ n[1] = y /\ n[2] = z /\ n[3] = u
      BY <1>5
    <2>3. \A s : Lists(n, s) => s \in {y, z, u}
      BY <2>2 DEF Lists
    <2> QED
      BY <2>1, <2>3, <1>5
  <1> QED
    BY <1>1, <1>2, <1>3, <1>4, <1>5 DEF PlainLists

\* What a process is at a step with.
LEMMA AtFacts ==
    ASSUME TurnInv, NEW p \in Procs, NEW s, IsAt(p, s), NEW x, x = procs[p]
    PROVE  /\ x \in Process /\ x.todo # <<>> /\ Head(x.todo) = s /\ x.cmd = None
           /\ Plan(x.todo, x.a, x.snap)
           /\ row \in BindingRow /\ row # None
           /\ s \notin {"mark", "rebuild"} =>
                 x.a \in Attempts /\ x.a # 0 /\ x.a \in Requested /\ genOf[x.a] \in Generations
           /\ s \in {"observe", "publish"} => x.snap \in Reported
           /\ s = "settle" => x.snap \in OwnSnapshots
           /\ Rest(p) = Tail(x.todo) /\ Lists(x.todo, s)
           /\ s = "acceptTurn" => Has("deliveryAccepted", x.a) /\ prompts[x.a] > 0
  <1>1. /\ x \in Process /\ x.todo # <<>> /\ Head(x.todo) = s /\ x.cmd = None
        /\ Rest(p) = Tail(x.todo) /\ Fits(x)
    BY DEF TurnInv, IsAt, Rest
  <1>2. Plan(x.todo, x.a, x.snap) /\ row # None
    BY <1>1 DEF Fits, IsBeginning
  <1>3. row \in BindingRow
    BY <1>2 DEF TurnInv, LogInv
  <1>4. Lists(x.todo, s)
    BY <1>1, RestFacts DEF Process
  <1>5. s \notin {"mark", "rebuild"} => x.a # 0
    BY <1>2, <1>4 DEF Plan, Only, Lists
  <1>6. x.a # 0 => x.a \in Attempts /\ x.a \in Requested /\ genOf[x.a] \in Generations
    BY <1>1 DEF Fits, Requested, TurnInv, LogInv
  <1>7. s = "acceptTurn" => Has("deliveryAccepted", x.a) /\ prompts[x.a] > 0
    <2> SUFFICES ASSUME s = "acceptTurn" PROVE Has("deliveryAccepted", x.a) /\ prompts[x.a] > 0
      OBVIOUS
    <2>1. ~ Lists(x.todo, "accept") /\ ~ Lists(x.todo, "prompt")
      BY <1>1, <1>2, RestFacts DEF Plan, Process
    <2> QED
      BY <2>1, <1>2, <1>4 DEF Plan
  <1> QED
    BY <1>1, <1>2, <1>3, <1>4, <1>5, <1>6, <1>7 DEF Plan

-----------------------------------------------------------------------------
(***************************************************************************)
(* Kinds of steps.                                                         *)
(***************************************************************************)
\* A step that leaves the database and the world alone.
LEMMA QuietBase ==
    ASSUME BaseInv, UNCHANGED <<durable, world>>, owner' \in [Attempts -> Owner \cup {None}],
           \A a \in Attempts : owner'[a] # None => a \in Requested
    PROVE  BaseInv' /\ Grows /\ row' = row
  <1>1. Grows /\ row' = row /\ Requested' = Requested
    BY DEF Grows, durable, world, Requested, Has
  <1>2. LogInv'
    BY <1>1 DEF BaseInv, LogInv, durable, world, Owned
  <1>3. AcceptedInv'
    BY DEF BaseInv, AcceptedInv, durable, world, Has
  <1> QED
    BY <1>1, <1>2, <1>3 DEF BaseInv

\* A process at s goes on with the rest of its list.
LEMMA RestStep ==
    ASSUME TurnInv, BaseInv', Grows, NEW p \in Procs, NEW s, IsAt(p, s), GoTo(p, Rest(p)),
           s \notin {"accept", "prompt"}
    PROVE  TurnInv'
  <1> SUFFICES ASSUME NEW x, x = procs[p] PROVE TurnInv'
    OBVIOUS
  <1>1. /\ x \in Process /\ x.todo # <<>> /\ Head(x.todo) = s /\ row # None
        /\ Plan(x.todo, x.a, x.snap) /\ Rest(p) = Tail(x.todo)
    BY AtFacts
  <1>2. x.a \in Attempts \cup {0}
    BY <1>1 DEF Process
  <1> SUFFICES ASSUME NEW n, n = Tail(x.todo) PROVE TurnInv'
    OBVIOUS
  <1>3. Plan(n, x.a, x.snap)'
    BY <1>1, <1>2, PlanOfRest
  <1> QED
    BY <1>1, <1>3, GoToStep DEF Grows

\* A process at s goes on with a plain list.
LEMMA PlainStep ==
    ASSUME TurnInv, BaseInv', Grows, NEW p \in Procs, NEW s, IsAt(p, s), s \notin {"mark", "rebuild"},
           NEW n \in PlainLists, GoTo(p, n)
    PROVE  TurnInv'
  <1> SUFFICES ASSUME NEW x, x = procs[p] PROVE TurnInv'
    OBVIOUS
  <1>1. x.a # 0 /\ row # None
    BY AtFacts
  <1>2. Plan(n, x.a, x.snap)'
    BY <1>1, PlainListFacts, PlanOfPlain
  <1> QED
    BY <1>1, <1>2, GoToStep DEF Grows

\* What a process becomes by computing a command at s; it may turn to another
\* turn to rebuild.
Commands(x, w, s) ==
    /\ w \in Process /\ w.todo = x.todo /\ w.snap = x.snap /\ w.cmd \in Cmd
    /\ w.a = x.a \/ (s = "rebuild" /\ w.a \in Requested)
    /\ w.cmd.fact \in RecordedBy(s) \ {"turnRequested"}
    /\ w.cmd.fact = "turnCommitted" => w.cmd.snap # None
    /\ w.cmd.fact # None => w.a # 0
    /\ w.cmd.fact = "turnCommitted" /\ w.cmd.snap = "completed" => Has("turnAccepted", w.a)

\* A process at s computes a command.
LEMMA CommandStep ==
    ASSUME TurnInv, BaseInv', Grows, NEW p \in Procs, NEW s, IsAt(p, s), NEW x, x = procs[p],
           NEW w, procs' = [procs EXCEPT ![p] = w], Commands(x, w, s)
    PROVE  TurnInv'
  <1>0. /\ w \in Process /\ w.todo = x.todo /\ w.snap = x.snap /\ w.cmd \in Cmd
        /\ w.a = x.a \/ (s = "rebuild" /\ w.a \in Requested)
        /\ w.cmd.fact \in RecordedBy(s) \ {"turnRequested"}
        /\ w.cmd.fact = "turnCommitted" => w.cmd.snap # None
        /\ w.cmd.fact # None => w.a # 0
        /\ w.cmd.fact = "turnCommitted" /\ w.cmd.snap = "completed" => Has("turnAccepted", w.a)
    BY DEF Commands
  <1>1. /\ x \in Process /\ x.todo # <<>> /\ Head(x.todo) = s /\ row # None
        /\ Plan(x.todo, x.a, x.snap) /\ Lists(x.todo, s) /\ Fits(x)
    BY AtFacts DEF TurnInv
  <1>2. w.a # 0 => w.a \in Requested'
    BY <1>0, <1>1 DEF Fits, Requested, Has, Grows
  <1>3. Plan(w.todo, w.a, w.snap)'
    <2>1. CASE w.a = x.a
      <3>1. x.a \in Attempts \cup {0} /\ Plan(x.todo, x.a, x.snap)'
        BY <1>1, PlanStays DEF Process
      <3> QED
        BY <1>0, <2>1, <3>1
    <2>2. CASE s = "rebuild" /\ w.a \in Requested
      <3>1. ~ Lists(x.todo, "acceptTurn")
        BY <1>1, <2>2 DEF Plan
      <3>2. w.a # 0
        BY <2>2, NumbersFacts DEF Requested
      <3> QED
        BY <1>0, <1>1, <2>2, <3>1, <3>2 DEF Plan
    <2> QED
      BY <1>0, <2>1, <2>2
  <1>4. Computed(w)'
    <2>1. w.cmd.fact = "turnCommitted" /\ w.cmd.snap = "completed" => Has("turnAccepted", w.a)'
      BY <1>0 DEF Has, Grows
    <2> QED
      BY <1>0, <1>1, <2>1 DEF Computed
  <1>5. ~ IsBeginning(w)
    BY <1>0 DEF IsBeginning
  <1>6. Fits(w)'
    BY <1>0, <1>1, <1>2, <1>3, <1>4, <1>5 DEF Fits, IsBeginning, Grows
  <1> QED
    BY <1>6, OneChanges

\* The three kinds of commands are commands.
LEMMA CommandTypes ==
    ASSUME NEW r \in BindingRow
    PROVE  /\ Upsert(r) \in Cmd /\ Upsert(r).fact = None /\ Upsert(r).row = r
           /\ \A f \in FactTypes : /\ AppendFact(f, r) \in Cmd /\ AppendFact(f, r).fact = f
                                   /\ AppendFact(f, r).row = r
           /\ \A s \in Snapshots : /\ AppendTerminal(s, r) \in Cmd
                                   /\ AppendTerminal(s, r).fact = "turnCommitted"
                                   /\ AppendTerminal(s, r).snap = s
                                   /\ AppendTerminal(s, r).row = r
  BY DEF Upsert, AppendFact, AppendTerminal, Cmd

\* A process at s issues a command.
LEMMA IssueStep ==
    ASSUME TurnInv, BaseInv', Grows, NEW p \in Procs, NEW s, IsAt(p, s), NEW c \in Cmd, Issue(p, c),
           c.fact \in RecordedBy(s) \ {"turnRequested"},
           c.fact = "turnCommitted" => c.snap # None,
           c.fact # None => procs[p].a # 0,
           c.fact = "turnCommitted" /\ c.snap = "completed" => Has("turnAccepted", procs[p].a)
    PROVE  TurnInv'
  <1>1. procs' = [procs EXCEPT ![p] = [procs[p] EXCEPT !.cmd = c]]
    BY DEF Issue
  <1>2. procs[p] \in Process
    BY DEF TurnInv
  <1>9. SUFFICES ASSUME NEW x, x = procs[p], NEW w, w = [x EXCEPT !.cmd = c] PROVE TurnInv'
    OBVIOUS
  <1>3. w \in Process /\ w.todo = x.todo /\ w.snap = x.snap /\ w.cmd = c /\ w.a = x.a
    BY <1>2, <1>9 DEF Process
  <1>4. procs' = [procs EXCEPT ![p] = w] /\ x = procs[p]
    BY <1>1, <1>9
  <1>5. w.cmd.fact = "turnCommitted" /\ w.cmd.snap = "completed" => Has("turnAccepted", w.a)
    BY <1>3, <1>4
  <1>6. w.cmd.fact # None => w.a # 0
    BY <1>3, <1>4
  <1>7. w.cmd \in Cmd /\ w.cmd.fact \in RecordedBy(s) \ {"turnRequested"}
        /\ (w.cmd.fact = "turnCommitted" => w.cmd.snap # None)
    BY <1>3
  <1>8. Commands(x, w, s)
    BY <1>3, <1>5, <1>6, <1>7 DEF Commands
  <1> QED
    BY <1>4, <1>8, CommandStep

\* A process at s writes the row only.
LEMMA UpsertStep ==
    ASSUME TurnInv, BaseInv', Grows, NEW p \in Procs, NEW s, IsAt(p, s), None \in RecordedBy(s),
           NEW r \in BindingRow, Issue(p, Upsert(r))
    PROVE  TurnInv'
  <1> SUFFICES ASSUME NEW c, c = Upsert(r) PROVE TurnInv'
    OBVIOUS
  <1>1. c \in Cmd /\ c.fact = None
    BY CommandTypes
  <1>2. None \notin {"turnRequested", "turnCommitted"}
    BY NoneAssumption DEF FactTypes
  <1> QED
    BY <1>1, <1>2, IssueStep

-----------------------------------------------------------------------------
(***************************************************************************)
(* The end of a turn.                                                      *)
(***************************************************************************)
\* The row that travels with a terminal is a row.
LEMMA TerminalRowType ==
    ASSUME row \in BindingRow, NEW a \in Attempts, NEW s, NEW named \in BOOLEAN
    PROVE  TerminalRow(a, s, named) \in BindingRow
  <1> DEFINE identity == named \/ Has("turnAccepted", a) \/ row.state = "ready"
             cursor == IF IsPending(a) /\ row.pending.phase = "accepted" THEN a ELSE row.committed
  <1>1. /\ row.state \in {"prepared", "creating", "ready", "recovery-required"}
        /\ row.native \in BOOLEAN /\ row.trusted \in BOOLEAN /\ row.gen \in Generations
        /\ row.pending \in Pending \cup {None}
        /\ row.accepted \in Attempts \cup {0} /\ row.committed \in Attempts \cup {0}
    BY DEF BindingRow
  <1>2. /\ ReadyOrPrepared(identity) \in {"prepared", "ready"}
        /\ (identity /\ (named \/ row.native)) \in BOOLEAN
        /\ (s = "completed") \in BOOLEAN
        /\ cursor \in Attempts \cup {0}
    BY <1>1 DEF ReadyOrPrepared
  <1>3. TerminalRow(a, s, named) =
          [row EXCEPT !.state = ReadyOrPrepared(identity),
                      !.native = identity /\ (named \/ row.native),
                      !.trusted = (s = "completed"),
                      !.committed = cursor,
                      !.pending = None]
    BY DEF TerminalRow
  <1> HIDE DEF identity, cursor
  <1> QED
    BY <1>1, <1>2, <1>3 DEF BindingRow

\* A process that is to record a terminal: it is stale, refused or recorded
\* already, or its append is computed.
LEMMA TerminalStep ==
    ASSUME TurnInv, BaseInv', Grows, NEW p \in Procs, NEW st, IsAt(p, st),
           st \in {"observe", "publish", "settle", "fail", "failNative"},
           NEW x, x = procs[p], NEW s \in Snapshots, NEW named \in BOOLEAN,
           NEW onStale, NEW onError, NEW onDuplicate,
           Plan(onStale, x.a, x.snap)', Plan(onError, x.a, x.snap)', Plan(onDuplicate, x.a, x.snap)',
           PlanTerminal(p, s, named, onStale, onError, onDuplicate)
    PROVE  TurnInv'
  <1>1. x.a \in Attempts /\ x.a # 0 /\ row \in BindingRow /\ row # None /\ row' # None
    BY AtFacts DEF Grows
  <1>2. CASE GoTo(p, onStale)
    BY <1>1, <1>2, GoToStep
  <1>3. CASE GoTo(p, onError)
    BY <1>1, <1>3, GoToStep
  <1>4. CASE GoTo(p, onDuplicate)
    BY <1>1, <1>4, GoToStep
  <1>5. CASE /\ ~ IsStale(x.a, s) /\ ~ IsRefused(x.a, s)
             /\ Issue(p, AppendTerminal(s, TerminalRow(x.a, s, named)))
    <2>1. TerminalRow(x.a, s, named) \in BindingRow
      BY <1>1, TerminalRowType
    <2> SUFFICES ASSUME NEW c, c = AppendTerminal(s, TerminalRow(x.a, s, named)) PROVE TurnInv'
      OBVIOUS
    <2>2. c \in Cmd /\ c.fact = "turnCommitted" /\ c.snap = s
      BY <2>1, CommandTypes
    <2>3. s # None
      BY NoneAssumption
    <2>4. s = "completed" => Has("turnAccepted", x.a)
      BY <1>5 DEF IsStale, IsRefused, IsUnproven
    <2>5. "turnCommitted" \in RecordedBy(st) \ {"turnRequested"}
      BY DEF RecordedBy
    <2> QED
      BY <1>1, <1>5, <2>2, <2>3, <2>4, <2>5, IssueStep
  <1> QED
    BY <1>2, <1>3, <1>4, <1>5 DEF PlanTerminal

\* The flag and the removal, alone or together.
LEMMA MarkRemoveFacts ==
    \A n \in {<<"mark">>, <<"remove">>, <<"mark", "remove">>} :
        n \in Seq(Steps) /\ \A s : Lists(n, s) => s \in {"mark", "remove"}
  <1>1. "mark" \in Steps /\ "remove" \in Steps
    BY DEF Steps
  <1> SUFFICES ASSUME NEW n \in {<<"mark">>, <<"remove">>, <<"mark", "remove">>}
               PROVE  n \in Seq(Steps) /\ \A s : Lists(n, s) => s \in {"mark", "remove"}
    OBVIOUS
  <1>2. ASSUME NEW y \in Steps, n = <<y>>, y \in {"mark", "remove"}
        PROVE  n \in Seq(Steps) /\ \A s : Lists(n, s) => s \in {"mark", "remove"}
    BY <1>2, ShortLists
  <1>3. ASSUME NEW y \in Steps, NEW z \in Steps, n = <<y, z>>, {y, z} \subseteq {"mark", "remove"}
        PROVE  n \in Seq(Steps) /\ \A s : Lists(n, s) => s \in {"mark", "remove"}
    BY <1>3, ShortLists, ZenonT(60)
  <1> QED
    BY <1>1, <1>2, <1>3

\* What a process does after a commit or an error, before the rest of its list.
LEMMA AfterCommitPlan ==
    ASSUME NEW p \in Procs, NEW x, x = procs[p], x.a # 0, NEW r, Plan(r, x.a, x.snap)', NEW l,
           l \in {AfterCommit(p) \o r, <<"remove">> \o r, <<"mark">> \o r}
    PROVE  Plan(l, x.a, x.snap)'
  <1>3. AfterCommit(p) \in {<<"remove">>, <<"mark", "remove">>}
    BY DEF AfterCommit
  <1>4. PICK n \in {<<"mark">>, <<"remove">>, <<"mark", "remove">>} : l = n \o r
    <2>1. CASE l = AfterCommit(p) \o r
      BY <2>1, <1>3
    <2>2. CASE l = <<"remove">> \o r
      BY <2>2
    <2>3. CASE l = <<"mark">> \o r
      BY <2>3
    <2> QED
      BY <2>1, <2>2, <2>3
  <1>5. n \in Seq(Steps) /\ \A s : Lists(n, s) => s \in {"mark", "remove"}
    BY MarkRemoveFacts
  <1> HIDE DEF AfterCommit
  <1> QED
    BY <1>4, <1>5, PlanOfJoin

\* A plain list is a plan for whatever turn.
LEMMA PlainPlan ==
    ASSUME NEW n \in PlainLists, NEW a, a # 0, NEW snap PROVE Plan(n, a, snap)'
  BY PlainListFacts, PlanOfPlain

\* What is left after a step that neither accepts the turn nor sends the prompt is a plan.
LEMMA RestPlan ==
    ASSUME TurnInv, Grows, NEW p \in Procs, NEW s, IsAt(p, s), s \notin {"accept", "prompt"},
           NEW x, x = procs[p], NEW r, r = Rest(p)
    PROVE  Plan(r, x.a, x.snap)'
  <1>1. /\ x \in Process /\ x.todo # <<>> /\ Head(x.todo) = s
        /\ Plan(x.todo, x.a, x.snap) /\ r = Tail(x.todo)
    BY AtFacts
  <1>2. x.a \in Attempts \cup {0}
    BY <1>1 DEF Process
  <1>3. Plan(Tail(x.todo), x.a, x.snap)'
    BY <1>1, <1>2, PlanOfRest
  <1> QED
    BY <1>1, <1>3

\* A step that only reads.
LEMMA ReadBase ==
    ASSUME TurnInv, UNCHANGED <<durable, owner, world>>
    PROVE  BaseInv /\ BaseInv' /\ Grows /\ row' = row
  <1>1. /\ BaseInv /\ owner' \in [Attempts -> Owner \cup {None}]
        /\ \A a \in Attempts : owner'[a] # None => a \in Requested
    BY DEF TurnInv, BaseInv, LogInv, Owned
  <1> QED
    BY <1>1, QuietBase

\* A terminal that the runtime reported.
LEMMA ObserveKeeps == ASSUME TurnInv, NEW p \in Procs, Observe(p) PROVE TurnInv'
  <1>1. BaseInv' /\ Grows
    BY ReadBase DEF Observe
  <1> SUFFICES ASSUME NEW x, x = procs[p], NEW r, r = Rest(p), NEW done, done = AfterCommit(p) \o r
               PROVE  TurnInv'
    OBVIOUS
  <1>2. PICK s \in {"observe", "publish"} : IsAt(p, s)
    BY DEF Observe
  <1>3. x.a # 0 /\ x.snap \in Reported /\ Plan(r, x.a, x.snap)'
    BY <1>1, <1>2, AtFacts, RestPlan
  <1>4. x.snap \in Snapshots /\ TRUE \in BOOLEAN
    BY <1>3 DEF Snapshots
  <1>5. Plan(done, x.a, x.snap)'
    BY <1>3, AfterCommitPlan
  <1>6. CASE IsAt(p, "observe") /\ PlanTerminal(p, x.snap, TRUE, <<"remove">>, <<"mark">>, done)
    <2>1. Plan(<<"remove">>, x.a, x.snap)' /\ Plan(<<"mark">>, x.a, x.snap)'
      BY <1>3, PlainPlan DEF PlainLists
    <2> QED
      BY <1>1, <1>4, <1>5, <1>6, <2>1, TerminalStep
  <1>7. CASE /\ IsAt(p, "publish")
             /\ PlanTerminal(p, x.snap, TRUE, <<"remove">> \o r, <<"mark">> \o r, done)
    <2> SUFFICES ASSUME NEW l, l = <<"remove">> \o r, NEW m, m = <<"mark">> \o r PROVE TurnInv'
      OBVIOUS
    <2>1. Plan(l, x.a, x.snap)' /\ Plan(m, x.a, x.snap)'
      BY <1>3, AfterCommitPlan
    <2> QED
      BY <1>1, <1>4, <1>5, <1>7, <2>1, TerminalStep
  <1> QED
    BY <1>6, <1>7 DEF Observe

\* A terminal of the backend's own.
LEMMA SettleKeeps == ASSUME TurnInv, NEW p \in Procs, Settle(p) PROVE TurnInv'
  <1>1. BaseInv' /\ Grows /\ IsAt(p, "settle")
    BY ReadBase DEF Settle
  <1> SUFFICES ASSUME NEW x, x = procs[p], NEW r, r = Rest(p) PROVE TurnInv'
    OBVIOUS
  <1>2. x.a # 0 /\ x.snap \in OwnSnapshots /\ Plan(r, x.a, x.snap)'
    BY <1>1, AtFacts, RestPlan
  <1>3. x.snap \in Snapshots /\ FALSE \in BOOLEAN
    BY <1>2 DEF Snapshots, OwnSnapshots
  <1>4. Plan(<<>>, x.a, x.snap)'
    BY <1>2, PlainPlan DEF PlainLists
  <1>5. PlanTerminal(p, x.snap, FALSE, <<>>, <<>>, r)
    BY DEF Settle
  <1> QED
    BY <1>1, <1>2, <1>3, <1>4, <1>5, TerminalStep

\* The dispatch or the preparation has failed.
LEMMA FailTurnKeeps == ASSUME TurnInv, NEW p \in Procs, FailTurn(p) PROVE TurnInv'
  <1>1. BaseInv' /\ Grows /\ row' = row
    BY ReadBase DEF FailTurn
  <1> SUFFICES ASSUME NEW x, x = procs[p], NEW r, r = Rest(p) PROVE TurnInv'
    OBVIOUS
  <1>2. PICK s \in {"fail", "failNative"} : IsAt(p, s)
    BY DEF FailTurn
  <1>3. x.a # 0 /\ row # None /\ Plan(r, x.a, x.snap)'
    BY <1>1, <1>2, AtFacts, RestPlan
  <1>4. CASE GoTo(p, r)
    BY <1>1, <1>3, <1>4, GoToStep
  <1>5. ASSUME NEW named \in BOOLEAN, PlanTerminal(p, "rejected", named, r, r, r) PROVE TurnInv'
    <2>1. "rejected" \in Snapshots
      BY DEF Snapshots
    <2> QED
      BY <1>1, <1>2, <1>3, <1>5, <2>1, TerminalStep
  <1> QED
    BY <1>4, <1>5 DEF FailTurn

\* The binding is flagged.
LEMMA MarkRecoveryKeeps == ASSUME TurnInv, NEW p \in Procs, MarkRecovery(p) PROVE TurnInv'
  <1>1. BaseInv' /\ Grows /\ IsAt(p, "mark")
    BY ReadBase DEF MarkRecovery
  <1> SUFFICES ASSUME NEW r, r = [row EXCEPT !.state = "recovery-required", !.trusted = FALSE]
               PROVE  TurnInv'
    OBVIOUS
  <1>2. row \in BindingRow
    BY <1>1, AtFacts
  <1>3. r \in BindingRow
    BY <1>2 DEF BindingRow
  <1>4. None \in RecordedBy("mark")
    BY DEF RecordedBy
  <1>5. Issue(p, Upsert(r))
    BY DEF MarkRecovery
  <1> QED
    BY <1>1, <1>3, <1>4, <1>5, UpsertStep

\* The entry of the turn leaves the coordinator.
LEMMA RemoveAttemptKeeps == ASSUME TurnInv, NEW p \in Procs, RemoveAttempt(p) PROVE TurnInv'
  <1>1. BaseInv /\ IsAt(p, "remove") /\ GoTo(p, Rest(p))
    BY DEF TurnInv, BaseInv, RemoveAttempt
  <1>2. /\ owner' \in [Attempts -> Owner \cup {None}]
        /\ \A a \in Attempts : owner'[a] # None => a \in Requested
    BY DEF TurnInv, LogInv, RemoveAttempt, Owned
  <1>3. BaseInv' /\ Grows
    BY <1>1, <1>2, QuietBase DEF RemoveAttempt
  <1> QED
    BY <1>1, <1>3, RestStep

-----------------------------------------------------------------------------
(***************************************************************************)
(* The steps of a dispatch.                                                *)
(***************************************************************************)
\* The package is compiled, or the preparation fails.
LEMMA PrepareKeeps == ASSUME TurnInv, NEW p \in Procs, Prepare(p) PROVE TurnInv'
  <1>1. BaseInv' /\ Grows /\ IsAt(p, "prepare")
    BY ReadBase DEF Prepare
  <1> SUFFICES ASSUME NEW x, x = procs[p] PROVE TurnInv'
    OBVIOUS
  <1>2. x \in Process /\ x.a \in Attempts /\ x.a # 0 /\ row \in BindingRow /\ genOf[x.a] \in Generations
    BY <1>1, AtFacts
  <1>3. CASE GoTo(p, <<"fail">>)
    BY <1>1, <1>3, PlainStep DEF PlainLists
  <1> DEFINE r == [row EXCEPT !.pending = [attempt |-> x.a, phase |-> "prepared", gen |-> genOf[x.a]]]
  <1>4. ASSUME NEW transfer \in BOOLEAN,
               procs' = [procs EXCEPT ![p] = [procs[p] EXCEPT !.transfer = transfer,
                                                !.cmd = AppendFact("deliveryPrepared", r)]]
        PROVE  TurnInv'
    <2>1. r \in BindingRow
      <3>1. [attempt |-> x.a, phase |-> "prepared", gen |-> genOf[x.a]] \in Pending
        BY <1>2 DEF Pending
      <3> QED
        BY <1>2, <3>1 DEF BindingRow
    <2>2. SUFFICES ASSUME NEW c, c = AppendFact("deliveryPrepared", r),
                          NEW w, w = [x EXCEPT !.transfer = transfer, !.cmd = c]
                   PROVE  TurnInv'
      OBVIOUS
    <2> HIDE DEF r
    <2>3. c \in Cmd /\ c.fact = "deliveryPrepared"
      BY <2>1, <2>2, CommandTypes DEF FactTypes
    <2>4. w \in Process /\ w.todo = x.todo /\ w.snap = x.snap /\ w.cmd = c /\ w.a = x.a
      BY <1>2, <2>2, <2>3 DEF Process
    <2>5. procs' = [procs EXCEPT ![p] = w]
      BY <1>4, <2>2
    <2>6. "deliveryPrepared" \in RecordedBy("prepare") \ {"turnRequested"}
      BY DEF RecordedBy
    <2>7. Commands(x, w, "prepare")
      BY <1>2, <2>3, <2>4, <2>6 DEF Commands
    <2> QED
      BY <1>1, <2>5, <2>7, CommandStep
  <1> QED
    BY <1>3, <1>4 DEF Prepare

\* The head of a dispatch.
LEMMA CheckPendingKeeps == ASSUME TurnInv, NEW p \in Procs, CheckPending(p) PROVE TurnInv'
  <1>1. BaseInv' /\ Grows /\ IsAt(p, "check")
    BY ReadBase DEF CheckPending
  <1>2. GoTo(p, NotAccepted) \/ GoTo(p, Ambiguous) \/ GoTo(p, Rest(p))
    BY DEF CheckPending
  <1> QED
    BY <1>1, <1>2, PlainStep, RestStep DEF PlainLists, NotAccepted, Ambiguous

\* The coordinator takes the turn.
LEMMA RegisterKeeps == ASSUME TurnInv, NEW p \in Procs, Register(p) PROVE TurnInv'
  <1>1. BaseInv /\ IsAt(p, "register") /\ GoTo(p, Rest(p))
    BY DEF TurnInv, BaseInv, Register
  <1>2. [barrier |-> TRUE, queued |-> None, settled |-> None] \in Owner
    BY DEF Owner
  <1>3. /\ owner' \in [Attempts -> Owner \cup {None}]
        /\ \A a \in Attempts : owner'[a] # None => a \in Requested
    <2> SUFFICES ASSUME NEW a0, a0 = procs[p].a
                 PROVE  /\ owner' \in [Attempts -> Owner \cup {None}]
                        /\ \A a \in Attempts : owner'[a] # None => a \in Requested
      OBVIOUS
    <2>1. a0 \in Requested
      BY <1>1, AtFacts
    <2> QED
      BY <1>2, <2>1 DEF TurnInv, LogInv, Register, Owned
  <1>4. BaseInv' /\ Grows
    BY <1>1, <1>3, QuietBase DEF Register
  <1> QED
    BY <1>1, <1>4, RestStep

\* The native session is about to be created.
LEMMA MarkStartingKeeps == ASSUME TurnInv, NEW p \in Procs, MarkStarting(p) PROVE TurnInv'
  <1>1. BaseInv' /\ Grows /\ IsAt(p, "starting")
    BY ReadBase DEF MarkStarting
  <1>2. CASE GoTo(p, Ambiguous) \/ GoTo(p, Rest(p))
    BY <1>1, <1>2, PlainStep, RestStep DEF PlainLists, Ambiguous
  <1>3. CASE Issue(p, Upsert([row EXCEPT !.state = "creating"]))
    <2> SUFFICES ASSUME NEW r, r = [row EXCEPT !.state = "creating"] PROVE TurnInv'
      OBVIOUS
    <2>1. row \in BindingRow
      BY <1>1, AtFacts
    <2>2. r \in BindingRow /\ None \in RecordedBy("starting")
      BY <2>1 DEF BindingRow, RecordedBy
    <2> QED
      BY <1>1, <1>3, <2>2, UpsertStep
  <1> QED
    BY <1>2, <1>3 DEF MarkStarting

\* The native session is created.
LEMMA MaterializeKeeps == ASSUME TurnInv, NEW p \in Procs, Materialize(p) PROVE TurnInv'
  <1>1. BaseInv' /\ Grows /\ IsAt(p, "materialize")
    BY ReadBase DEF Materialize
  <1>2. CASE GoTo(p, Ambiguous)
    BY <1>1, <1>2, PlainStep DEF PlainLists, Ambiguous
  <1> DEFINE row1 == [row EXCEPT !.state = IF IdentityAcked THEN "ready" ELSE "creating",
                                 !.native = TRUE]
  <1>3. CASE Issue(p, Upsert(row1))
    <2> SUFFICES ASSUME NEW r, r = row1 PROVE TurnInv'
      OBVIOUS
    <2>1. row \in BindingRow
      BY <1>1, AtFacts
    <2>2. r \in BindingRow /\ None \in RecordedBy("materialize")
      BY <2>1 DEF BindingRow, RecordedBy
    <2> QED
      BY <1>1, <1>3, <2>2, UpsertStep
  <1> QED
    BY <1>2, <1>3 DEF Materialize

\* The delivery is recorded as sent, ahead of the prompt.
LEMMA MarkSentKeeps == ASSUME TurnInv, NEW p \in Procs, MarkSent(p) PROVE TurnInv'
  <1>1. BaseInv' /\ Grows /\ IsAt(p, "sent")
    BY ReadBase DEF MarkSent
  <1>2. CASE GoTo(p, Ambiguous) \/ GoTo(p, <<"failNative", "remove">>)
    BY <1>1, <1>2, PlainStep DEF PlainLists, Ambiguous
  <1> DEFINE row1 == [row EXCEPT !.pending.phase = "sent", !.native = TRUE]
  <1>3. CASE IsPending(procs[p].a) /\ Issue(p, Upsert(row1))
    <2> SUFFICES ASSUME NEW r, r = row1 PROVE TurnInv'
      OBVIOUS
    <2>1. row \in BindingRow
      BY <1>1, AtFacts
    <2>2. row.pending \in Pending
      BY <1>3, <2>1 DEF IsPending, BindingRow
    <2>3. [row.pending EXCEPT !.phase = "sent"] \in Pending
      BY <2>2 DEF Pending
    <2>4. r \in BindingRow
      BY <2>1, <2>3 DEF BindingRow
    <2>5. None \in RecordedBy("sent")
      BY DEF RecordedBy
    <2> QED
      BY <1>1, <1>3, <2>4, <2>5, UpsertStep
  <1> QED
    BY <1>2, <1>3 DEF MarkSent

\* The context is imported ahead of the prompt.
LEMMA ImportKeeps == ASSUME TurnInv, NEW p \in Procs, Import(p) PROVE TurnInv'
  <1>1. BaseInv' /\ Grows /\ IsAt(p, "import") /\ row' = row
    BY ReadBase DEF Import
  <1>2. CASE GoTo(p, Ambiguous) \/ GoTo(p, Rest(p))
    BY <1>1, <1>2, PlainStep, RestStep DEF PlainLists, Ambiguous
  <1>3. CASE GoTo(p, ImportedFirst)
    <2> SUFFICES ASSUME NEW x, x = procs[p], NEW d, d = ImportedFirst PROVE TurnInv'
      OBVIOUS
    <2>1. x.a # 0 /\ row # None
      BY <1>1, AtFacts
    <2>2. Plan(d, x.a, x.snap)'
      BY <2>1, ImportedFacts DEF Plan
    <2> QED
      BY <1>1, <1>3, <2>1, <2>2, GoToStep
  <1> QED
    BY <1>2, <1>3 DEF Import

\* The prompt leaves.
LEMMA SendPromptKeeps == ASSUME TurnInv, NEW p \in Procs, SendPrompt(p) PROVE TurnInv'
  <1>1. IsAt(p, "prompt") /\ BaseInv
    BY DEF SendPrompt, TurnInv, BaseInv
  <1> SUFFICES ASSUME NEW x, x = procs[p], NEW r, r = Rest(p) PROVE TurnInv'
    OBVIOUS
  <1>2. /\ x \in Process /\ x.todo # <<>> /\ Head(x.todo) = "prompt"
        /\ Plan(x.todo, x.a, x.snap) /\ x.a \in Attempts /\ x.a # 0 /\ row # None
        /\ r = Tail(x.todo)
    BY <1>1, AtFacts
  <1>3. CASE /\ prompts' = [prompts EXCEPT ![x.a] = @ + 1]
             /\ runtime' = [runtime EXCEPT ![x.a] = "running"]
             /\ GoTo(p, r)
    <2>1. prompts \in [Attempts -> Nat] /\ runtime \in [Attempts -> {"none", "running", "done"}]
      BY DEF TurnInv, LogInv
    <2>2. /\ prompts' \in [Attempts -> Nat] /\ runtime' \in [Attempts -> {"none", "running", "done"}]
          /\ prompts'[x.a] > 0 /\ \A a \in Attempts : prompts[a] > 0 => prompts'[a] > 0
      BY <1>2, <1>3, <2>1
    <2>3. Requested' = Requested
      BY DEF SendPrompt, durable, Requested, Has
    <2>4. LogInv'
      BY <2>2, <2>3 DEF TurnInv, LogInv, SendPrompt, durable, Owned
    <2>5. AcceptedInv'
      BY <2>2 DEF TurnInv, AcceptedInv, SendPrompt, durable, Has
    <2>6. BaseInv' /\ Grows /\ row' # None
      BY <1>2, <2>2, <2>4, <2>5 DEF BaseInv, Grows, SendPrompt, durable
    <2>7. Plan(r, x.a, x.snap)'
      BY <1>2, <2>2, <2>6, PlanOfRest
    <2> QED
      BY <1>3, <2>6, <2>7, GoToStep
  <1>4. CASE /\ UNCHANGED <<prompts, runtime>>
             /\ \E n \in {Ambiguous, <<"failNative", "remove">>, <<"failNative", "mark", "remove">>} :
                    GoTo(p, n)
    <2>1. BaseInv' /\ Grows
      BY <1>4, ReadBase DEF SendPrompt, world
    <2> QED
      BY <1>1, <1>4, <2>1, PlainStep DEF PlainLists, Ambiguous
  <1> QED
    BY <1>3, <1>4 DEF SendPrompt

\* The answer to the prompt.
LEMMA ResponseKeeps == ASSUME TurnInv, NEW p \in Procs, Response(p) PROVE TurnInv'
  <1>1. BaseInv /\ IsAt(p, "response")
    BY DEF TurnInv, BaseInv, Response
  <1>2. /\ owner' \in [Attempts -> Owner \cup {None}]
        /\ \A b \in Attempts : owner'[b] # None => b \in Requested
    <2> SUFFICES ASSUME NEW a, a = procs[p].a
                 PROVE  /\ owner' \in [Attempts -> Owner \cup {None}]
                        /\ \A b \in Attempts : owner'[b] # None => b \in Requested
      OBVIOUS
    <2>0. \A b \in Attempts : Owned(b) => b \in Requested
      BY DEF TurnInv, LogInv
    <2>1. a \in Attempts /\ owner \in [Attempts -> Owner \cup {None}]
      BY <1>1, AtFacts DEF TurnInv, LogInv
    <2>2. CASE owner' = owner
      BY <2>0, <2>1, <2>2 DEF Owned
    <2>3. CASE Owned(a) /\ owner' = [owner EXCEPT ![a].barrier = TRUE]
      <3>1. owner[a] \in Owner
        BY <2>1, <2>3 DEF Owned
      <3>2. [owner[a] EXCEPT !.barrier = TRUE] \in Owner
        BY <3>1 DEF Owner
      <3> QED
        BY <2>0, <2>1, <2>3, <3>2 DEF Owned
    <2> QED
      BY <2>2, <2>3 DEF Response
  <1>3. BaseInv' /\ Grows
    BY <1>1, <1>2, QuietBase DEF Response
  <1> QED
    BY <1>1, <1>3, PlainStep, RestStep DEF PlainLists, Ambiguous, Response

\* A process that goes on with a plan for the same turn.
LEMMA ProcessStep ==
    ASSUME TurnInv, BaseInv', Grows, NEW p \in Procs, NEW x, x = procs[p], row' # None,
           NEW w \in Process, procs' = [procs EXCEPT ![p] = w], w.a = x.a, w.cmd = None,
           Plan(w.todo, w.a, w.snap)'
    PROVE  TurnInv'
  <1>1. x.a # 0 => x.a \in Requested
    BY DEF TurnInv, Fits
  <1>2. w.a # 0 => w.a \in Requested'
    BY <1>1 DEF Requested, Has, Grows
  <1>3. Fits(w)'
    BY <1>2 DEF Fits, IsBeginning
  <1> QED
    BY <1>3, OneChanges

\* A list of one step.
LEMMA OneStep ==
    ASSUME NEW y \in Steps, NEW n, n = <<y>> PROVE n \in Seq(Steps) /\ \A s : Lists(n, s) => s = y
  <1>1. Len(n) = 1 /\ n[1] = y
    OBVIOUS
  <1> QED
    BY <1>1 DEF Lists

\* To commit what the runtime has reported is a plan.
LEMMA ObservePlan ==
    ASSUME NEW a, a # 0, NEW snap \in Reported, NEW n, n = <<"observe">> PROVE Plan(n, a, snap)'
  <1>1. "observe" \in Steps
    BY DEF Steps
  <1>2. n \in Seq(Steps) /\ \A s : Lists(n, s) => s = "observe"
    BY <1>1, OneStep
  <1> QED
    BY <1>2, AheadOfNothing DEF Plan

\* An entry of the coordinator.
LEMMA OwnerFacts ==
    ASSUME TurnInv, NEW a \in Attempts, Owned(a)
    PROVE  /\ owner \in [Attempts -> Owner \cup {None}] /\ owner[a] \in Owner
           /\ owner[a].queued \in Reported \cup {None} /\ owner[a].settled \in Reported \cup {None}
           /\ owner[a].barrier \in BOOLEAN
           /\ \A b \in Attempts : owner[b] # None => b \in Requested
  BY DEF TurnInv, LogInv, Owned, Owner

\* The wait for the echo ends.
LEMMA AwaitAckKeeps == ASSUME TurnInv, NEW p \in Procs, AwaitAck(p) PROVE TurnInv'
  <1>1. IsAt(p, "ack")
    BY DEF AwaitAck
  <1> SUFFICES ASSUME NEW x, x = procs[p] PROVE TurnInv'
    OBVIOUS
  <1>2. x \in Process /\ x.cmd = None /\ x.a \in Attempts /\ x.a # 0 /\ row # None
    BY <1>1, AtFacts
  <1>3. CASE UNCHANGED owner /\ (GoTo(p, Ambiguous) \/ GoTo(p, Rest(p)))
    <2>1. BaseInv' /\ Grows
      BY <1>3, ReadBase DEF AwaitAck
    <2> QED
      BY <1>1, <1>3, <2>1, PlainStep, RestStep DEF PlainLists, Ambiguous
  <1> DEFINE entry == [barrier |-> FALSE, queued |-> None,
                       settled |-> IF owner[x.a].settled = None THEN owner[x.a].queued
                                   ELSE owner[x.a].settled]
  <1>4. CASE /\ Owned(x.a) /\ owner[x.a].queued # None
             /\ owner' = [owner EXCEPT ![x.a] = entry]
             /\ procs' = [procs EXCEPT ![p] = [procs[p] EXCEPT !.todo = <<"observe">>,
                                                               !.snap = owner'[x.a].settled]]
    <2>1. entry \in Owner /\ entry.settled \in Reported
      BY <1>2, <1>4, OwnerFacts DEF Owner
    <2>2. /\ owner' \in [Attempts -> Owner \cup {None}] /\ owner'[x.a].settled \in Reported
          /\ \A b \in Attempts : owner'[b] # None => b \in Requested
      BY <1>2, <1>4, <2>1, OwnerFacts DEF Owned
    <2> HIDE DEF entry
    <2>3. BaseInv' /\ Grows /\ row' = row
      BY <2>2, QuietBase DEF AwaitAck, TurnInv, BaseInv
    <2>4. SUFFICES ASSUME NEW snap, snap = owner'[x.a].settled, NEW n, n = <<"observe">>,
                          NEW w, w = [x EXCEPT !.todo = n, !.snap = snap]
                   PROVE  TurnInv'
      OBVIOUS
    <2>5. Plan(n, x.a, snap)' /\ n \in Seq(Steps) /\ snap \in Snapshots
      <3>1. Plan(n, x.a, snap)'
        BY <1>2, <2>2, <2>4, ObservePlan
      <3> QED
        BY <2>2, <2>4, <3>1 DEF Plan, Snapshots
    <2>6. w \in Process /\ w.todo = n /\ w.snap = snap /\ w.a = x.a /\ w.cmd = None
      BY <1>2, <2>4, <2>5 DEF Process
    <2>7. procs' = [procs EXCEPT ![p] = w]
      BY <1>4, <2>4
    <2>8. Plan(w.todo, w.a, w.snap)'
      BY <2>5, <2>6
    <2> QED
      BY <1>2, <2>3, <2>6, <2>7, <2>8, ProcessStep
  <1> QED
    BY <1>3, <1>4 DEF AwaitAck

\* The context is accepted.
LEMMA AcceptDeliveryKeeps == ASSUME TurnInv, NEW p \in Procs, AcceptDelivery(p) PROVE TurnInv'
  <1>1. BaseInv' /\ Grows /\ IsAt(p, "accept")
    BY ReadBase DEF AcceptDelivery
  <1> SUFFICES ASSUME NEW x, x = procs[p] PROVE TurnInv'
    OBVIOUS
  <1>2. x.a \in Attempts /\ x.a # 0 /\ row \in BindingRow
    BY <1>1, AtFacts
  <1>3. CASE GoTo(p, AfterConflict(p))
    <2>1. AfterConflict(p) \in {<<>>, <<"mark">>}
      BY <1>1 DEF AfterConflict, IsAt, Ambiguous
    <2>2. AfterConflict(p) \in PlainLists
      BY <2>1 DEF PlainLists
    <2> QED
      BY <1>1, <1>3, <2>2, PlainStep
  <1> DEFINE row1 == [row EXCEPT !.pending.phase = "accepted", !.accepted = x.a, !.native = TRUE]
  <1>4. CASE IsPending(x.a) /\ Issue(p, AppendFact("deliveryAccepted", row1))
    <2> SUFFICES ASSUME NEW r, r = row1, NEW c, c = AppendFact("deliveryAccepted", r) PROVE TurnInv'
      OBVIOUS
    <2>1. row.pending \in Pending
      BY <1>2, <1>4 DEF IsPending, BindingRow
    <2>2. [row.pending EXCEPT !.phase = "accepted"] \in Pending
      BY <2>1 DEF Pending
    <2>3. r \in BindingRow
      BY <1>2, <2>2 DEF BindingRow
    <2>4. c \in Cmd /\ c.fact = "deliveryAccepted"
      BY <2>3, CommandTypes DEF FactTypes
    <2>5. "deliveryAccepted" \in RecordedBy("accept") \ {"turnRequested"}
      BY DEF RecordedBy
    <2>6. Issue(p, c)
      BY <1>4
    <2> HIDE DEF row1
    <2> QED
      BY <1>1, <1>2, <2>4, <2>5, <2>6, IssueStep
  <1> QED
    BY <1>3, <1>4 DEF AcceptDelivery

\* The native history is trusted after a transfer.
LEMMA TrustNativeKeeps == ASSUME TurnInv, NEW p \in Procs, TrustNative(p) PROVE TurnInv'
  <1>1. BaseInv' /\ Grows /\ IsAt(p, "trust")
    BY ReadBase DEF TrustNative
  <1>2. CASE GoTo(p, Rest(p))
    BY <1>1, <1>2, RestStep
  <1>3. CASE Issue(p, Upsert([row EXCEPT !.trusted = TRUE]))
    <2> SUFFICES ASSUME NEW r, r = [row EXCEPT !.trusted = TRUE] PROVE TurnInv'
      OBVIOUS
    <2>1. row \in BindingRow
      BY <1>1, AtFacts
    <2>2. r \in BindingRow /\ None \in RecordedBy("trust")
      BY <2>1 DEF BindingRow, RecordedBy
    <2> QED
      BY <1>1, <1>3, <2>2, UpsertStep
  <1> QED
    BY <1>2, <1>3 DEF TrustNative

\* The runtime has acknowledged the turn.
LEMMA AcceptTurnKeeps == ASSUME TurnInv, NEW p \in Procs, AcceptTurn(p) PROVE TurnInv'
  <1>1. BaseInv' /\ Grows /\ IsAt(p, "acceptTurn")
    BY ReadBase DEF AcceptTurn
  <1>2. CASE GoTo(p, Ambiguous)
    BY <1>1, <1>2, PlainStep DEF PlainLists, Ambiguous
  <1> DEFINE row1 == [row EXCEPT !.state = "ready", !.native = TRUE]
  <1>3. CASE Issue(p, AppendFact("turnAccepted", row1))
    <2> SUFFICES ASSUME NEW r, r = row1, NEW c, c = AppendFact("turnAccepted", r), NEW x, x = procs[p]
                 PROVE  TurnInv'
      OBVIOUS
    <2>1. row \in BindingRow /\ x.a # 0
      BY <1>1, AtFacts
    <2>2. r \in BindingRow
      BY <2>1 DEF BindingRow
    <2>3. c \in Cmd /\ c.fact = "turnAccepted"
      BY <2>2, CommandTypes DEF FactTypes
    <2>4. "turnAccepted" \in RecordedBy("acceptTurn") \ {"turnRequested"}
      BY DEF RecordedBy
    <2>5. Issue(p, c)
      BY <1>3
    <2> HIDE DEF row1
    <2> QED
      BY <1>1, <2>1, <2>3, <2>4, <2>5, IssueStep
  <1> QED
    BY <1>2, <1>3 DEF AcceptTurn

\* To publish what the runtime has reported may be put before a plan.
LEMMA PublishPlan ==
    ASSUME NEW a, a # 0, NEW snap \in Reported, NEW old, NEW q, Plan(q, a, old)', Lists(q, "drain"),
           NEW t, t = <<"publish">> \o q \/ t = q
    PROVE  Plan(t, a, snap)'
  <1>1. "publish" \in Steps
    BY DEF Steps
  <1>2. q \in Seq(Steps) /\ ~ Lists(q, "settle")
    BY DEF Plan
  <1>3. CASE t = q
    BY <1>2, <1>3 DEF Plan
  <1>4. CASE t = <<"publish">> \o q
    <2> SUFFICES ASSUME NEW n, n = <<"publish">> PROVE Plan(t, a, snap)'
      OBVIOUS
    <2>1. n \in Seq(Steps) /\ \A s : Lists(n, s) => s = "publish"
      BY <1>1, OneStep
    <2>2. t = n \o q
      BY <1>4
    <2>3. /\ t \in Seq(Steps)
          /\ \A s : Lists(t, s) => Lists(n, s) \/ Lists(q, s)
          /\ \A s : Lists(q, s) => Lists(t, s)
          /\ \A x, y : ~ Lists(n, x) /\ ~ Lists(n, y) /\ Ahead(q, x, y) => Ahead(t, x, y)
      BY <1>2, <2>1, <2>2, JoinFacts
    <2>4. \A s \in {"begin", "accept", "prompt", "acceptTurn", "settle", "rebuild", "drain"} : ~ Lists(n, s)
      BY <2>1
    <2> QED
      BY <1>2, <2>3, <2>4 DEF Plan
  <1> QED
    BY <1>3, <1>4

\* A terminal behind the barrier is taken, or the barrier comes down.
LEMMA DrainKeeps == ASSUME TurnInv, NEW p \in Procs, Drain(p) PROVE TurnInv'
  <1>1. IsAt(p, "drain") /\ BaseInv
    BY DEF Drain, TurnInv, BaseInv
  <1> SUFFICES ASSUME NEW x, x = procs[p] PROVE TurnInv'
    OBVIOUS
  <1>2. /\ x \in Process /\ x.cmd = None /\ x.a \in Attempts /\ x.a # 0 /\ row # None
        /\ Plan(x.todo, x.a, x.snap) /\ Lists(x.todo, "drain")
    BY <1>1, AtFacts
  <1>3. CASE UNCHANGED owner /\ GoTo(p, Rest(p))
    <2>1. BaseInv' /\ Grows
      BY <1>3, ReadBase DEF Drain
    <2> QED
      BY <1>1, <1>3, <2>1, RestStep
  <1>4. CASE /\ Owned(procs[p].a) /\ owner[procs[p].a].queued = None
             /\ owner' = [owner EXCEPT ![procs[p].a].barrier = FALSE]
             /\ GoTo(p, Rest(p))
    <2>1. [owner[x.a] EXCEPT !.barrier = FALSE] \in Owner
      BY <1>2, <1>4, OwnerFacts DEF Owner
    <2>2. /\ owner' \in [Attempts -> Owner \cup {None}]
          /\ \A b \in Attempts : owner'[b] # None => b \in Requested
      BY <1>2, <1>4, <2>1, OwnerFacts DEF Owned
    <2>3. BaseInv' /\ Grows
      BY <1>1, <2>2, QuietBase DEF Drain
    <2> QED
      BY <1>1, <1>4, <2>3, RestStep
  <1>5. CASE /\ Owned(procs[p].a) /\ owner[procs[p].a].queued # None
             /\ owner' = [owner EXCEPT ![procs[p].a].queued = None,
                            ![procs[p].a].settled = IF Settled(procs[p].a) THEN @ ELSE owner[procs[p].a].queued]
             /\ procs' = [procs EXCEPT ![p] = [@ EXCEPT !.snap = owner[procs[p].a].queued,
                            !.todo = IF Settled(procs[p].a) THEN procs[p].todo
                                     ELSE <<"publish">> \o procs[p].todo]]
    <2> SUFFICES ASSUME NEW snap, snap = owner[x.a].queued, NEW e, e = owner[x.a],
                        NEW t, t = IF Settled(x.a) THEN x.todo ELSE <<"publish">> \o x.todo
                 PROVE  TurnInv'
      OBVIOUS
    <2>1. e \in Owner /\ snap \in Reported /\ owner \in [Attempts -> Owner \cup {None}]
      BY <1>2, <1>5, OwnerFacts
    <2>2. /\ owner' \in [Attempts -> Owner \cup {None}]
          /\ \A b \in Attempts : owner'[b] # None => b \in Requested
      <3>1. [[e EXCEPT !.queued = None] EXCEPT !.settled = IF Settled(x.a) THEN @ ELSE snap] \in Owner
        BY <2>1 DEF Owner
      <3>2. owner' = [owner EXCEPT ![x.a] =
                       [[e EXCEPT !.queued = None] EXCEPT !.settled = IF Settled(x.a) THEN @ ELSE snap]]
        BY <1>2, <1>5, <2>1, ZenonT(60)
      <3> QED
        BY <1>2, <1>5, <2>1, <3>1, <3>2, OwnerFacts, SMTT(30) DEF Owned
    <2>3. BaseInv' /\ Grows /\ row' = row
      BY <1>1, <2>2, QuietBase DEF Drain
    <2>4. Plan(x.todo, x.a, x.snap)'
      BY <1>2, <2>3, PlanStays
    <2>5. Plan(t, x.a, snap)'
      BY <1>2, <2>1, <2>4, PublishPlan
    <2>6. t \in Seq(Steps) /\ snap \in Snapshots
      BY <2>1, <2>5 DEF Plan, Snapshots
    <2>7. SUFFICES ASSUME NEW w, w = [x EXCEPT !.snap = snap, !.todo = t] PROVE TurnInv'
      OBVIOUS
    <2>8. w \in Process /\ w.todo = t /\ w.snap = snap /\ w.a = x.a /\ w.cmd = None
      BY <1>2, <2>6, <2>7 DEF Process
    <2>9. procs' = [procs EXCEPT ![p] = w]
      <3>1. procs' = [procs EXCEPT ![p] = [procs[p] EXCEPT !.snap = snap, !.todo = t]]
        <4>1. CASE Settled(procs[p].a)
          <5>1. t = procs[p].todo
            BY <4>1
          <5> QED
            BY <1>5, <4>1, <5>1
        <4>2. CASE ~ Settled(procs[p].a)
          <5>1. t = <<"publish">> \o procs[p].todo
            BY <4>2
          <5> QED
            BY <1>5, <4>2, <5>1
        <4> QED
          BY <4>1, <4>2
      <3> QED
        BY <3>1, <2>7
    <2>10. Plan(w.todo, w.a, w.snap)'
      BY <2>5, <2>8
    <2> QED
      BY <1>2, <2>3, <2>8, <2>9, <2>10, ProcessStep
  <1> QED
    BY <1>3, <1>4, <1>5 DEF Drain

\* The wait for the end of the turn ends.
LEMMA AwaitTerminalKeeps == ASSUME TurnInv, NEW p \in Procs, AwaitTerminal(p) PROVE TurnInv'
  <1>1. BaseInv' /\ Grows /\ IsAt(p, "await") /\ row' = row
    BY ReadBase DEF AwaitTerminal
  <1> SUFFICES ASSUME NEW x, x = procs[p] PROVE TurnInv'
    OBVIOUS
  <1>2. x \in Process /\ x.cmd = None /\ x.a \in Attempts /\ x.a # 0 /\ row # None
    BY <1>1, AtFacts
  <1>3. CASE GoTo(p, <<>>)
    BY <1>1, <1>3, PlainStep DEF PlainLists
  <1>4. CASE /\ Settled(x.a)
             /\ procs' = [procs EXCEPT ![p] = [procs[p] EXCEPT !.todo = <<"observe">>,
                                                               !.snap = owner[x.a].settled]]
    <2>1. SUFFICES ASSUME NEW snap, snap = owner[x.a].settled, NEW n, n = <<"observe">>,
                          NEW w, w = [x EXCEPT !.todo = n, !.snap = snap]
                   PROVE  TurnInv'
      OBVIOUS
    <2>2. snap \in Reported
      BY <1>2, <1>4, <2>1, OwnerFacts DEF Settled
    <2>3. Plan(n, x.a, snap)'
      BY <1>2, <2>1, <2>2, ObservePlan
    <2>4. n \in Seq(Steps) /\ snap \in Snapshots
      BY <2>2, <2>3 DEF Plan, Snapshots
    <2>5. w \in Process /\ w.todo = n /\ w.snap = snap /\ w.a = x.a /\ w.cmd = None
      BY <1>2, <2>1, <2>4 DEF Process
    <2>6. procs' = [procs EXCEPT ![p] = w]
      BY <1>4, <2>1
    <2>7. Plan(w.todo, w.a, w.snap)'
      BY <2>3, <2>5
    <2> QED
      BY <1>1, <1>2, <2>5, <2>6, <2>7, ProcessStep
  <1> QED
    BY <1>3, <1>4 DEF AwaitTerminal

-----------------------------------------------------------------------------
(***************************************************************************)
(* The rest of the steps of a process.                                     *)
(***************************************************************************)
\* Nothing more to do, for whatever turn.
LEMMA NoPlan == ASSUME NEW a, NEW snap PROVE Plan(<<>>, a, snap)'
  BY EmptyList, PlanOfPlain

\* Only a number of a generation is taken.
LEMMA NumberBase ==
    ASSUME TurnInv, gens' \in Nat, UNCHANGED <<facts, committed, genOf, row, engine, owner, world>>
    PROVE  BaseInv' /\ Grows /\ row' = row
  <1>1. Grows /\ row' = row /\ Requested' = Requested
    BY DEF Grows, world, Requested, Has
  <1>2. LogInv'
    BY <1>1 DEF TurnInv, LogInv, world, Owned
  <1>3. AcceptedInv'
    BY DEF TurnInv, AcceptedInv, world, Has
  <1> QED
    BY <1>1, <1>2, <1>3 DEF BaseInv

\* The row of a new generation.
LEMMA FreshRowType == \A gen \in Generations : FreshRow(gen) \in BindingRow
  BY DEF FreshRow, BindingRow

\* The binding is rebuilt, and in the same step the open turn ends.
LEMMA RebuildKeeps == ASSUME TurnInv, NEW p \in Procs, Rebuild(p) PROVE TurnInv'
  <1>1. IsAt(p, "rebuild") /\ gens \in Nat
    BY DEF Rebuild, TurnInv, LogInv
  <1>2. gens' \in {gens, gens + 1}
    BY DEF Rebuild
  <1>3. BaseInv' /\ Grows /\ row' = row
    BY <1>1, <1>2, NumberBase DEF Rebuild
  <1> SUFFICES ASSUME NEW x, x = procs[p] PROVE TurnInv'
    OBVIOUS
  <1>4. x \in Process /\ row # None
    BY <1>1, AtFacts
  <1>5. CASE GoTo(p, <<>>)
    BY <1>3, <1>4, <1>5, NoPlan, GoToStep
  <1> SUFFICES ASSUME NEW r, r = FreshRow(gens + 1) PROVE TurnInv'
    OBVIOUS
  <1>6. CASE gens + 1 \in Generations /\ Issue(p, Upsert(r))
    <2>1. r \in BindingRow /\ None \in RecordedBy("rebuild")
      BY <1>6, FreshRowType DEF RecordedBy
    <2> QED
      BY <1>1, <1>3, <1>6, <2>1, UpsertStep
  <1>7. ASSUME NEW a \in Unresolved, gens + 1 \in Generations,
               procs' = [procs EXCEPT ![p].a = a, ![p].cmd = AppendTerminal("replaced", r)]
        PROVE  TurnInv'
    <2>1. SUFFICES ASSUME NEW c, c = AppendTerminal("replaced", r), NEW w, w = [x EXCEPT !.a = a, !.cmd = c]
                   PROVE  TurnInv'
      OBVIOUS
    <2>2. c \in Cmd /\ c.fact = "turnCommitted" /\ c.snap = "replaced"
      BY <1>7, <2>1, FreshRowType, CommandTypes DEF Snapshots
    <2>3. a \in Requested /\ a \in Attempts /\ a # 0
      BY NumbersFacts DEF Unresolved, Requested
    <2>4. w \in Process /\ w.todo = x.todo /\ w.snap = x.snap /\ w.cmd = c /\ w.a = a
      BY <1>4, <2>1, <2>2, <2>3 DEF Process
    <2>5. procs' = [procs EXCEPT ![p] = w]
      <3>1. procs \in [Procs -> Process]
        BY DEF TurnInv
      <3> QED
        BY <1>7, <2>1, <3>1
    <2>6. "turnCommitted" \in RecordedBy("rebuild") \ {"turnRequested"} /\ "replaced" # None
      BY NoneAssumption DEF RecordedBy, Snapshots
    <2>7. Commands(x, w, "rebuild")
      BY <2>2, <2>3, <2>4, <2>6 DEF Commands
    <2> QED
      BY <1>1, <1>3, <2>5, <2>7, CommandStep
  <1> QED
    BY <1>5, <1>6, <1>7 DEF Rebuild

\* What is left to do to give a turn up.
LEMMA GiveUpPlan ==
    ASSUME NEW a, a # 0, NEW snap, NEW n,
           \/ n = <<"remove", "observe", "clear">> /\ snap \in Reported
           \/ n = <<"remove", "settle", "clear", "remove">> /\ snap \in OwnSnapshots
    PROVE  Plan(n, a, snap)'
  <1>1. CASE n = <<"remove", "observe", "clear">>
    <2>1. Len(n) = 3 /\ n[1] = "remove" /\ n[2] = "observe" /\ n[3] = "clear" /\ n \in Seq(Steps)
      BY <1>1 DEF Steps
    <2>2. \A s : Lists(n, s) => s \in {"remove", "observe", "clear"}
      BY <2>1 DEF Lists
    <2> QED
      BY <1>1, <2>1, <2>2, AheadOfNothing DEF Plan
  <1>2. CASE n = <<"remove", "settle", "clear", "remove">>
    <2>1. /\ Len(n) = 4 /\ n[1] = "remove" /\ n[2] = "settle" /\ n[3] = "clear" /\ n[4] = "remove"
          /\ n \in Seq(Steps)
      BY <1>2 DEF Steps
    <2>2. \A s : Lists(n, s) => s \in {"remove", "settle", "clear"}
      BY <2>1 DEF Lists
    <2>3. n # <<"remove", "observe", "clear">>
      BY <2>1
    <2> QED
      BY <1>2, <2>1, <2>2, <2>3, AheadOfNothing DEF Plan
  <1> QED
    BY <1>1, <1>2

\* A turn is given up.
LEMMA SkipKeeps == ASSUME TurnInv, NEW p \in Procs, Skip(p) PROVE TurnInv'
  <1>1. BaseInv' /\ Grows /\ IsAt(p, "skip") /\ row' = row
    BY ReadBase DEF Skip
  <1> SUFFICES ASSUME NEW x, x = procs[p] PROVE TurnInv'
    OBVIOUS
  <1>2. x \in Process /\ x.cmd = None /\ x.a \in Attempts /\ x.a # 0 /\ row # None
    BY <1>1, AtFacts
  <1>3. PICK n, snap : /\ \/ n = <<"remove", "observe", "clear">> /\ snap \in Reported
                          \/ n = <<"remove", "settle", "clear", "remove">> /\ snap \in OwnSnapshots
                       /\ procs' = [procs EXCEPT ![p] = [procs[p] EXCEPT !.snap = snap, !.todo = n]]
    <2>1. CASE Settled(x.a)
      <3>1. owner[x.a].settled \in Reported
        BY <1>2, <2>1, OwnerFacts DEF Settled
      <3>2. procs' = [procs EXCEPT ![p] = [procs[p] EXCEPT !.snap = owner[procs[p].a].settled,
                                             !.todo = <<"remove", "observe", "clear">>]]
        BY <2>1 DEF Skip
      <3> QED
        BY <3>1, <3>2
    <2>2. CASE ~ Settled(x.a)
      <3>1. procs' = [procs EXCEPT ![p] = [procs[p] EXCEPT !.snap = "skipped",
                                             !.todo = <<"remove", "settle", "clear", "remove">>]]
        BY <2>2 DEF Skip
      <3>2. "skipped" \in OwnSnapshots
        BY DEF OwnSnapshots
      <3> QED
        BY <3>1, <3>2
    <2> QED
      BY <2>1, <2>2
  <1>4. Plan(n, x.a, snap)'
    BY <1>2, <1>3, GiveUpPlan
  <1>5. n \in Seq(Steps) /\ snap \in Snapshots
    BY <1>3, <1>4 DEF Plan, Snapshots, OwnSnapshots
  <1>6. SUFFICES ASSUME NEW w, w = [x EXCEPT !.snap = snap, !.todo = n] PROVE TurnInv'
    OBVIOUS
  <1>7. w \in Process /\ w.todo = n /\ w.snap = snap /\ w.a = x.a /\ w.cmd = None
    BY <1>2, <1>5, <1>6 DEF Process
  <1>8. procs' = [procs EXCEPT ![p] = w]
    BY <1>3, <1>6
  <1>9. Plan(w.todo, w.a, w.snap)'
    BY <1>4, <1>7
  <1> QED
    BY <1>1, <1>2, <1>7, <1>8, <1>9, ProcessStep

\* The flag comes off when nothing is open.
LEMMA ClearRecoveryKeeps == ASSUME TurnInv, NEW p \in Procs, ClearRecovery(p) PROVE TurnInv'
  <1>1. BaseInv' /\ Grows /\ IsAt(p, "clear")
    BY ReadBase DEF ClearRecovery
  <1>2. CASE GoTo(p, Rest(p))
    BY <1>1, <1>2, RestStep
  <1>3. CASE Issue(p, Upsert([row EXCEPT !.state = ReadyOrPrepared(row.native), !.trusted = FALSE]))
    <2> SUFFICES ASSUME NEW r, r = [row EXCEPT !.state = ReadyOrPrepared(row.native), !.trusted = FALSE]
                 PROVE  TurnInv'
      OBVIOUS
    <2>1. row \in BindingRow
      BY <1>1, AtFacts
    <2>2. r \in BindingRow /\ None \in RecordedBy("clear")
      BY <2>1 DEF BindingRow, RecordedBy, ReadyOrPrepared
    <2> QED
      BY <1>1, <1>3, <2>2, UpsertStep
  <1> QED
    BY <1>2, <1>3 DEF ClearRecovery

-----------------------------------------------------------------------------
(***************************************************************************)
(* Commands.                                                               *)
(***************************************************************************)
\* A turn that was requested has a row.
LEMMA RequestedFacts ==
    ASSUME TurnInv, NEW a \in Requested
    PROVE  a \in Attempts /\ a # 0 /\ row # None /\ row \in BindingRow
  <1>1. a \in Attempts /\ a # 0 /\ facts # {}
    BY NumbersFacts DEF Requested, Has
  <1> QED
    BY <1>1 DEF TurnInv, LogInv

\* A process begins to work through a plan.
LEMMA StartStep ==
    ASSUME TurnInv, UNCHANGED <<durable, owner, world>>, NEW p \in Procs, row # None,
           NEW a, a \in Requested \/ a = 0, NEW snap \in Snapshots \cup {None}, NEW n,
           Plan(n, a, snap)', Start(p, a, snap, n)
    PROVE  TurnInv'
  <1>1. BaseInv' /\ Grows /\ row' = row
    BY ReadBase
  <1>2. n \in Seq(Steps) /\ a \in Attempts \cup {0}
    BY DEF Plan, Requested
  <1>3. SUFFICES ASSUME NEW w, w = [Idle EXCEPT !.a = a, !.snap = snap, !.todo = n] PROVE TurnInv'
    OBVIOUS
  <1>4. w \in Process /\ w.todo = n /\ w.snap = snap /\ w.a = a /\ w.cmd = None
    BY <1>2, <1>3 DEF Process, Idle
  <1>5. procs' = [procs EXCEPT ![p] = w]
    BY <1>3 DEF Start
  <1>6. w.a # 0 => w.a \in Requested'
    BY <1>1, <1>4 DEF Requested, Has, Grows
  <1>7. Plan(w.todo, w.a, w.snap)'
    BY <1>4
  <1>8. Fits(w)'
    BY <1>1, <1>4, <1>6, <1>7 DEF Fits, IsBeginning
  <1> QED
    BY <1>1, <1>5, <1>8, OneChanges

\* A command that is one plain step is a plan.
LEMMA SinglePlan ==
    ASSUME NEW y \in Plain, NEW a, a # 0 \/ y \in {"mark", "rebuild"}, NEW snap, NEW n, n = <<y>>
    PROVE  Plan(n, a, snap)'
  <1>1. n \in Seq(Steps) /\ \A s : Lists(n, s) => s = y
    BY OneStep DEF Plain
  <1> QED
    BY <1>1, PlanOfPlain

\* A terminal of the backend's own, also with the removal of the entry.
LEMMA SettlePlan ==
    ASSUME NEW a, a # 0, NEW snap \in OwnSnapshots, NEW n, n = <<"settle">> \/ n = <<"settle", "remove">>
    PROVE  Plan(n, a, snap)'
  <1>1. n \in Seq(Steps) /\ \A s : Lists(n, s) => s \in {"settle", "remove"}
    <2>1. "settle" \in Steps /\ "remove" \in Steps
      BY DEF Steps
    <2>2. CASE n = <<"settle">>
      BY <2>1, <2>2, OneStep
    <2>3. CASE n = <<"settle", "remove">>
      <3>1. Len(n) = 2 /\ n[1] = "settle" /\ n[2] = "remove" /\ n \in Seq(Steps)
        BY <2>1, <2>3
      <3> QED
        BY <3>1 DEF Lists
    <2> QED
      BY <2>2, <2>3
  <1> QED
    BY <1>1, AheadOfNothing DEF Plan

\* A terminal that a rebuild finds, and the rebuild after it.
LEMMA ObserveRebuildPlan ==
    ASSUME NEW a, a # 0, NEW snap \in Reported, NEW n, n = <<"observe", "rebuild">> PROVE Plan(n, a, snap)'
  <1>1. Len(n) = 2 /\ n[1] = "observe" /\ n[2] = "rebuild" /\ n \in Seq(Steps)
    BY DEF Steps
  <1>2. \A s : Lists(n, s) => s \in {"observe", "rebuild"}
    BY <1>1 DEF Lists
  <1> QED
    BY <1>1, <1>2, AheadOfNothing DEF Plan

\* dispatch_turn once more
LEMMA RedispatchKeeps ==
    ASSUME TurnInv, NEW p \in Procs, NEW a \in Attempts, Redispatch(p, a) PROVE TurnInv'
  <1>1. Has("deliveryPrepared", a) /\ UNCHANGED <<durable, owner, world>>
    BY DEF Redispatch
  <1>2. a \in Requested
    <2>1. <<"deliveryPrepared", a>> \in facts /\ \A f \in facts : f[2] \in Requested
      BY <1>1 DEF Has, TurnInv, LogInv
    <2> QED
      BY <2>1
  <1> SUFFICES ASSUME NEW d, d = Resend PROVE TurnInv'
    OBVIOUS
  <1>3. a # 0 /\ row # None
    BY <1>2, RequestedFacts
  <1>4. Plan(d, a, None)'
    BY <1>3, ResendFacts DEF Plan
  <1>5. Start(p, a, None, d)
    BY DEF Redispatch
  <1> QED
    BY <1>1, <1>2, <1>3, <1>4, <1>5, StartStep

\* The other commands for a turn that is open.
LEMMA CommandKeeps ==
    ASSUME TurnInv, NEW p \in Procs, NEW a \in Attempts,
           \/ Reattach(p, a) \/ CommitSettled(p, a) \/ RequestRecovery(p, a)
           \/ CancelAttempt(p, a) \/ RecoverAttempt(p, a)
           \/ \E force \in BOOLEAN : Abandon(p, a, force)
    PROVE  TurnInv'
  <1>1. a \in Unresolved /\ UNCHANGED <<durable, owner, world>>
    BY DEF Reattach, CommitSettled, RequestRecovery, CancelAttempt, RecoverAttempt, Abandon
  <1>2. a \in Requested /\ a # 0 /\ row # None
    BY <1>1, RequestedFacts DEF Unresolved
  <1>3. ASSUME NEW y \in Plain, Start(p, a, None, <<y>>) PROVE TurnInv'
    <2> SUFFICES ASSUME NEW n, n = <<y>> PROVE TurnInv'
      OBVIOUS
    <2>1. Plan(n, a, None)'
      BY <1>2, SinglePlan
    <2>2. Start(p, a, None, n)
      BY <1>3
    <2> QED
      BY <1>1, <1>2, <2>1, <2>2, StartStep
  <1>4. ASSUME NEW snap \in Reported, Start(p, a, snap, <<"observe">>) PROVE TurnInv'
    <2> SUFFICES ASSUME NEW n, n = <<"observe">> PROVE TurnInv'
      OBVIOUS
    <2>1. Plan(n, a, snap)' /\ snap \in Snapshots
      BY <1>2, ObservePlan DEF Snapshots
    <2>2. Start(p, a, snap, n)
      BY <1>4
    <2> QED
      BY <1>1, <1>2, <2>1, <2>2, StartStep
  <1>5. ASSUME NEW snap \in OwnSnapshots, NEW n, n = <<"settle">> \/ n = <<"settle", "remove">>,
               Start(p, a, snap, n)
        PROVE  TurnInv'
    <2>1. Plan(n, a, snap)'
      BY <1>2, <1>5, SettlePlan
    <2>2. snap \in Snapshots
      BY DEF Snapshots, OwnSnapshots
    <2> QED
      BY <1>1, <1>2, <1>5, <2>1, <2>2, StartStep
  <1>6. "await" \in Plain /\ "mark" \in Plain /\ "skip" \in Plain
    BY DEF Plain, Steps
  <1>7. CASE CommitSettled(p, a)
    <2>1. owner[a].settled \in Reported
      BY <1>7, OwnerFacts DEF CommitSettled, Settled
    <2> QED
      BY <1>4, <1>7, <2>1 DEF CommitSettled
  <1>8. CASE Reattach(p, a) \/ RequestRecovery(p, a) \/ \E force \in BOOLEAN : Abandon(p, a, force)
    BY <1>3, <1>6, <1>8 DEF Reattach, RequestRecovery, Abandon
  <1>9. CASE CancelAttempt(p, a) \/ RecoverAttempt(p, a)
    <2>1. "user-cancelled" \in OwnSnapshots /\ "probe-cancelled" \in OwnSnapshots
      BY DEF OwnSnapshots
    <2> QED
      BY <1>5, <1>9, <2>1 DEF CancelAttempt, RecoverAttempt
  <1> QED
    BY <1>7, <1>8, <1>9

\* A rebuild is asked for.
LEMMA RequestRebuildKeeps == ASSUME TurnInv, NEW p \in Procs, RequestRebuild(p) PROVE TurnInv'
  <1>1. UNCHANGED <<durable, owner, world>> /\ row # None
    BY DEF RequestRebuild
  <1>2. "rebuild" \in Plain
    BY DEF Plain, Steps
  <1>3. ASSUME NEW a, a \in Requested \/ a = 0, Start(p, a, None, <<"rebuild">>) PROVE TurnInv'
    <2> SUFFICES ASSUME NEW n, n = <<"rebuild">> PROVE TurnInv'
      OBVIOUS
    <2>1. Plan(n, a, None)'
      BY <1>2, SinglePlan
    <2>2. Start(p, a, None, n)
      BY <1>3
    <2> QED
      BY <1>1, <1>3, <2>1, <2>2, StartStep
  <1>4. ASSUME NEW a \in Unresolved, Settled(a), Start(p, a, owner[a].settled, <<"observe", "rebuild">>)
        PROVE  TurnInv'
    <2> SUFFICES ASSUME NEW n, n = <<"observe", "rebuild">>, NEW snap, snap = owner[a].settled PROVE TurnInv'
      OBVIOUS
    <2>1. a \in Requested /\ a \in Attempts /\ a # 0
      BY RequestedFacts DEF Unresolved
    <2>2. snap \in Reported /\ snap \in Snapshots
      BY <1>4, <2>1, OwnerFacts DEF Settled, Snapshots
    <2>3. Plan(n, a, snap)'
      BY <2>1, <2>2, ObserveRebuildPlan
    <2>4. Start(p, a, snap, n)
      BY <1>4
    <2> QED
      BY <1>1, <2>1, <2>2, <2>3, <2>4, StartStep
  <1> QED
    BY <1>3, <1>4 DEF RequestRebuild, Unresolved

\* A turn is begun, or the binding that was left in creating is flagged.
LEMMA BeginTurnKeeps == ASSUME TurnInv, NEW p \in Procs, BeginTurn(p) PROVE TurnInv'
  <1>1. gens \in Nat /\ row \in BindingRow \cup {None}
    BY DEF TurnInv, LogInv
  <1>2. BaseInv' /\ Grows /\ row' = row
    <2>1. gens' \in {gens, gens + 1}
      BY DEF BeginTurn
    <2> QED
      BY <1>1, <2>1, NumberBase DEF BeginTurn
  <1>3. CASE row # None /\ UNCHANGED gens /\ Start(p, 0, None, <<"mark">>)
    <2>1. UNCHANGED <<durable, owner, world>>
      BY <1>3 DEF BeginTurn, durable
    <2> SUFFICES ASSUME NEW n, n = <<"mark">> PROVE TurnInv'
      OBVIOUS
    <2>2. "mark" \in Plain
      BY DEF Plain, Steps
    <2>3. Plan(n, 0, None)'
      BY <2>2, SinglePlan
    <2>4. Start(p, 0, None, n)
      BY <1>3
    <2> QED
      BY <1>3, <2>1, <2>3, <2>4, StartStep
  <1>4. ASSUME NEW r \in BindingRow,
               procs' = [procs EXCEPT ![p] = [Idle EXCEPT !.todo = Send,
                           !.cmd = AppendFact("turnRequested", r)]]
        PROVE  TurnInv'
    <2>1. SUFFICES ASSUME NEW c, c = AppendFact("turnRequested", r), NEW n, n = Send,
                          NEW w, w = [Idle EXCEPT !.todo = n, !.cmd = c]
                   PROVE  TurnInv'
      OBVIOUS
    <2>2. c \in Cmd /\ c.fact = "turnRequested" /\ c # None
      <3>1. c \in Cmd /\ c.fact = "turnRequested"
        BY <2>1, CommandTypes DEF FactTypes
      <3> QED
        BY <3>1, NoneAssumption
    <2>3. n \in Seq(Steps) /\ n # <<>> /\ Head(n) = "begin"
      BY <2>1, SendFacts
    <2>4. w \in Process /\ w.todo = n /\ w.snap = None /\ w.a = 0 /\ w.cmd = c
      BY <2>1, <2>2, <2>3 DEF Process, Idle
    <2>5. procs' = [procs EXCEPT ![p] = w]
      BY <1>4, <2>1
    <2>6. "turnRequested" \in RecordedBy("begin") /\ "turnRequested" # "turnCommitted"
      BY DEF RecordedBy
    <2>7. Computed(w)'
      BY <2>2, <2>3, <2>4, <2>6 DEF Computed
    <2>8. IsBeginning(w)
      BY <2>2, <2>4 DEF IsBeginning
    <2>9. Fits(w)'
      BY <2>1, <2>4, <2>7, <2>8 DEF Fits, IsBeginning
    <2> QED
      BY <1>2, <2>5, <2>9, OneChanges
  <1>5. CASE /\ row # None
             /\ procs' = [procs EXCEPT ![p] = [Idle EXCEPT !.todo = Send,
                           !.cmd = AppendFact("turnRequested",
                                              [row EXCEPT !.state = ReadyOrPrepared(row.native)])]]
    <2> SUFFICES ASSUME NEW r, r = [row EXCEPT !.state = ReadyOrPrepared(row.native)] PROVE TurnInv'
      OBVIOUS
    <2>1. r \in BindingRow
      BY <1>1, <1>5 DEF BindingRow, ReadyOrPrepared
    <2> QED
      BY <1>4, <1>5, <2>1
  <1>6. CASE /\ gens + 1 \in Generations
             /\ procs' = [procs EXCEPT ![p] = [Idle EXCEPT !.todo = Send,
                           !.cmd = AppendFact("turnRequested", FreshRow(gens + 1))]]
    <2> SUFFICES ASSUME NEW r, r = FreshRow(gens + 1) PROVE TurnInv'
      OBVIOUS
    <2>1. r \in BindingRow
      BY <1>6, FreshRowType
    <2> QED
      BY <1>4, <1>6, <2>1
  <1> QED
    BY <1>3, <1>5, <1>6 DEF BeginTurn

\* The window is reloaded.
LEMMA ReloadKeeps == ASSUME TurnInv, NEW p \in Procs, Reload(p) PROVE TurnInv'
  <1>1. BaseInv' /\ Grows /\ row' = row
    BY ReadBase DEF Reload
  <1> SUFFICES ASSUME NEW x, x = procs[p] PROVE TurnInv'
    OBVIOUS
  <1>2. row # None
    BY AtFacts DEF Reload
  <1>3. GoTo(p, <<>>)
    BY DEF Reload
  <1> QED
    BY <1>1, <1>2, <1>3, NoPlan, GoToStep

-----------------------------------------------------------------------------
(***************************************************************************)
(* The writer.                                                             *)
(***************************************************************************)
\* The process whose command is executed.
LEMMA SentFacts ==
    ASSUME TurnInv, NEW p \in Procs, NEW x, x = procs[p], NEW c, c = x.cmd, c # None
    PROVE  /\ x \in Process /\ c \in Cmd /\ x.todo # <<>> /\ Computed(x)
           /\ c.fact \in RecordedBy(Head(x.todo)) /\ Head(x.todo) \in Steps
           /\ c.fact # "turnRequested" =>
                 row # None /\ Plan(x.todo, x.a, x.snap) /\ Lists(x.todo, Head(x.todo))
           /\ c.fact = "turnRequested" => x.todo = Send /\ x.a = 0
           /\ c.fact \notin {None, "turnRequested"} => x.a \in Attempts /\ x.a # 0 /\ x.a \in Requested
           /\ Rest(p) = Tail(x.todo)
  <1>1. x \in Process /\ Fits(x) /\ Computed(x) /\ Rest(p) = Tail(x.todo)
    BY DEF TurnInv, Fits, Rest
  <1>2. c \in Cmd /\ x.todo \in Seq(Steps) /\ x.todo # <<>> /\ c.fact \in RecordedBy(Head(x.todo))
    BY <1>1 DEF Process, Computed
  <1>3. Head(x.todo) \in Steps /\ Lists(x.todo, Head(x.todo))
    BY <1>2, RestFacts
  <1>4. c.fact # "turnRequested" => row # None /\ Plan(x.todo, x.a, x.snap)
    BY <1>1, <1>2 DEF Fits, IsBeginning
  <1>5. c.fact = "turnRequested" => x.todo = Send /\ x.a = 0
    BY <1>1 DEF Fits, IsBeginning
  <1>6. c.fact \notin {None, "turnRequested"} => x.a \in Attempts /\ x.a # 0 /\ x.a \in Requested
    BY <1>1 DEF Computed, Fits, Requested
  <1> QED
    BY <1>1, <1>2, <1>3, <1>4, <1>5, <1>6

\* Which step computes which command.
LEMMA RecordedFacts ==
    ASSUME NEW s \in Steps, NEW f \in RecordedBy(s)
    PROVE  /\ f = None => s \in {"mark", "starting", "materialize", "sent", "trust", "clear", "rebuild"}
           /\ f = "turnRequested" => s = "begin"
           /\ f = "deliveryAccepted" => s = "accept"
           /\ s = "accept" => f = "deliveryAccepted"
           /\ f = "turnAccepted" => s = "acceptTurn"
           /\ s # "prompt"
           /\ s \in {"observe", "publish"} => f = "turnCommitted"
  BY NoneAssumption DEF RecordedBy, FactTypes

\* What follows a command is a plan.
LEMMA AfterPlans ==
    ASSUME TurnInv, Grows, NEW p \in Procs, NEW x, x = procs[p], NEW c, c = x.cmd, c # None,
           c.fact # "turnRequested", c.fact = "deliveryAccepted" => Has("deliveryAccepted", x.a)',
           NEW l, l = AfterSuccess(p) \/ (c.fact # None /\ l = AfterConflict(p))
    PROVE  Plan(l, x.a, x.snap)'
  <1>1. /\ x \in Process /\ x.todo # <<>> /\ c.fact \in RecordedBy(Head(x.todo)) /\ Head(x.todo) \in Steps
        /\ Plan(x.todo, x.a, x.snap) /\ Lists(x.todo, Head(x.todo))
        /\ c.fact # None => x.a # 0
        /\ Rest(p) = Tail(x.todo)
    BY SentFacts
  <1> SUFFICES ASSUME NEW s, s = Head(x.todo), NEW r, r = Tail(x.todo) PROVE Plan(l, x.a, x.snap)'
    OBVIOUS
  <1>2. /\ c.fact = None => s \notin {"observe", "publish", "accept", "prompt"}
        /\ s = "accept" => c.fact = "deliveryAccepted"
        /\ s # "prompt"
        /\ s \in {"observe", "publish"} => c.fact = "turnCommitted"
    BY <1>1, RecordedFacts, NoneAssumption DEF FactTypes
  <1>3. Plan(r, x.a, x.snap)'
    <2>1. x.a \in Attempts \cup {0} /\ (Head(x.todo) = "accept" => Has("deliveryAccepted", x.a)')
      BY <1>1, <1>2 DEF Process
    <2> QED
      BY <1>1, <1>2, <2>1, PlanOfRest
  <1>4. c.fact # None => \A n \in PlainLists : Plan(n, x.a, x.snap)'
    BY <1>1, PlainPlan
  <1>5. ASSUME NEW m, m \in {AfterCommit(p) \o r, <<"mark">> \o r}, c.fact # None PROVE Plan(m, x.a, x.snap)'
    BY <1>1, <1>3, <1>5, AfterCommitPlan
  <1>6. CASE l = AfterSuccess(p)
    <2>1. \/ s \in {"observe", "publish"} /\ l = AfterCommit(p) \o r
          \/ c.fact = "turnCommitted" /\ l = <<"remove">>
          \/ l = r
      BY <1>1, <1>6 DEF AfterSuccess
    <2>2. c.fact = "turnCommitted" => c.fact # None
      BY NoneAssumption
    <2>3. CASE s \in {"observe", "publish"} /\ l = AfterCommit(p) \o r
      BY <1>2, <1>5, <2>2, <2>3
    <2>4. CASE c.fact = "turnCommitted" /\ l = <<"remove">>
      BY <1>4, <2>2, <2>4 DEF PlainLists
    <2> QED
      BY <1>3, <2>1, <2>3, <2>4
  <1>7. CASE c.fact # None /\ l = AfterConflict(p)
    <2>1. \/ l \in {<<"mark">>, <<"fail">>, <<>>}
          \/ l = <<"mark">> \o r
          \/ l = r
      BY <1>1, <1>7 DEF AfterConflict, Ambiguous
    <2>2. CASE l \in {<<"mark">>, <<"fail">>, <<>>}
      BY <1>4, <1>7, <2>2 DEF PlainLists
    <2>3. CASE l = <<"mark">> \o r
      BY <1>5, <1>7, <2>3
    <2> QED
      BY <1>3, <2>1, <2>2, <2>3
  <1> QED
    BY <1>6, <1>7

\* A command is refused, or finds its fact recorded.
LEMMA KnownKeeps ==
    ASSUME TurnInv, UNCHANGED <<durable, owner, world>>, NEW p \in Procs,
           NEW x, x = procs[p], NEW c, c = x.cmd, c # None,
           \/ c.fact = "turnRequested" /\ Unresolved # {} /\ GoTo(p, <<>>)
           \/ /\ c.fact \notin {None, "turnRequested"}
              /\ c.fact \in FactTypes => Has(c.fact, x.a)
              /\ GoTo(p, AfterSuccess(p)) \/ GoTo(p, AfterConflict(p))
    PROVE  TurnInv'
  <1>1. BaseInv' /\ Grows /\ row' = row
    BY ReadBase
  <1>2. CASE c.fact = "turnRequested" /\ Unresolved # {} /\ GoTo(p, <<>>)
    <2>1. row # None
      BY <1>2, RequestedFacts DEF Unresolved
    <2> QED
      BY <1>1, <1>2, <2>1, NoPlan, GoToStep
  <1>3. CASE /\ c.fact \notin {None, "turnRequested"}
             /\ c.fact \in FactTypes => Has(c.fact, x.a)
             /\ GoTo(p, AfterSuccess(p)) \/ GoTo(p, AfterConflict(p))
    <2>1. row # None
      BY <1>3, SentFacts
    <2>2. c.fact = "deliveryAccepted" => Has("deliveryAccepted", x.a)'
      BY <1>1, <1>3 DEF FactTypes, Has, Grows
    <2>3. ASSUME NEW l, l = AfterSuccess(p) \/ l = AfterConflict(p), GoTo(p, l) PROVE TurnInv'
      <3>1. Plan(l, x.a, x.snap)'
        BY <1>1, <1>3, <2>2, <2>3, AfterPlans
      <3> QED
        BY <1>1, <2>1, <2>3, <3>1, GoToStep
    <2> QED
      BY <1>3, <2>3
  <1> QED
    BY <1>2, <1>3

\* The turn is recorded as requested.
LEMMA RequestedKeeps ==
    ASSUME TurnInv, NEW p \in Procs, NEW x, x = procs[p], NEW c, c = x.cmd, c # None,
           c.fact = "turnRequested", NEW a \in Attempts,
           row' = c.row, facts' = facts \cup {<<"turnRequested", a>>},
           genOf' = [genOf EXCEPT ![a] = c.row.gen],
           procs' = [procs EXCEPT ![p] = [procs[p] EXCEPT !.a = a, !.todo = Rest(p), !.cmd = None]],
           UNCHANGED <<committed, gens, engine, owner, world>>
    PROVE  TurnInv'
  <1>1. x \in Process /\ c \in Cmd /\ x.todo = Send /\ Rest(p) = Tail(Send)
    BY SentFacts
  <1>2. c.row \in BindingRow /\ c.row.gen \in Generations /\ c.row # None
    <2>1. c.row \in BindingRow /\ c.row.gen \in Generations
      BY <1>1 DEF Cmd, BindingRow
    <2> QED
      BY <2>1, NoneAssumption
  <1>3. /\ Requested' = Requested \cup {a}
        /\ \A b \in Attempts : /\ Has("turnAccepted", b)' <=> Has("turnAccepted", b)
                               /\ Has("deliveryAccepted", b) => Has("deliveryAccepted", b)'
    BY DEF Requested, Has
  <1>4. LogInv'
    <2>1. "turnRequested" \in FactTypes
      BY DEF FactTypes
    <2>2. /\ facts' \subseteq FactTypes \X Attempts
          /\ genOf' \in [Attempts -> Generations \cup {0}]
          /\ row' \in BindingRow \cup {None} /\ row' # None
      BY <1>2, <2>1 DEF TurnInv, LogInv
    <2>3. \A f \in facts' : f[2] \in Requested'
      BY <1>3 DEF TurnInv, LogInv
    <2>4. \A b \in Requested' : genOf'[b] \in Generations
      <3> TAKE b \in Requested'
      <3>1. b \in Attempts
        BY <1>3 DEF Requested
      <3> QED
        BY <1>2, <1>3, <3>1 DEF TurnInv, LogInv
    <2>5. \A b \in Attempts : Owned(b)' => b \in Requested'
      BY <1>3 DEF TurnInv, LogInv, Owned
    <2> QED
      BY <2>2, <2>3, <2>4, <2>5 DEF TurnInv, LogInv, world
  <1>5. AcceptedInv'
    BY <1>3 DEF TurnInv, AcceptedInv, world
  <1>6. BaseInv' /\ Grows /\ row' # None
    BY <1>2, <1>4, <1>5 DEF BaseInv, Grows, world
  <1>7. SUFFICES ASSUME NEW n, n = Tail(Send),
                        NEW w, w = [x EXCEPT !.a = a, !.todo = n, !.cmd = None]
                 PROVE  TurnInv'
    OBVIOUS
  <1>8. Plan(n, a, x.snap)'
    <2>1. /\ n \in Seq(Steps)
          /\ \A s : Lists(n, s) => Lists(Send, s)
          /\ \A s : Lists(Send, s) /\ Head(Send) # s => Lists(n, s)
          /\ \A y, z : Ahead(Send, y, z) => Ahead(n, y, z)
      BY <1>7, SendFacts, RestFacts
    <2>2. ~ Lists(n, "begin")
      BY <1>7, SendFacts
    <2>3. a # 0
      BY NumbersFacts
    <2> QED
      BY <2>1, <2>2, <2>3, SendFacts DEF Plan
  <1>9. n \in Seq(Steps)
    BY <1>8 DEF Plan
  <1>10. w \in Process /\ w.todo = n /\ w.snap = x.snap /\ w.a = a /\ w.cmd = None
    BY <1>1, <1>7, <1>9 DEF Process
  <1>11. procs' = [procs EXCEPT ![p] = w]
    BY <1>1, <1>7
  <1>12. Plan(w.todo, w.a, w.snap)' /\ w.a \in Requested'
    BY <1>3, <1>8, <1>10
  <1>13. Fits(w)'
    BY <1>6, <1>10, <1>12 DEF Fits, IsBeginning
  <1> QED
    BY <1>6, <1>11, <1>13, OneChanges

\* A row, a fact or a terminal is written.
LEMMA WrittenKeeps ==
    ASSUME TurnInv, NEW p \in Procs, NEW x, x = procs[p], NEW c, c = x.cmd, c # None,
           row' = c.row, GoTo(p, AfterSuccess(p)),
           UNCHANGED <<genOf, gens, engine, owner, world>>,
           \/ c.fact = None /\ UNCHANGED <<facts, committed>>
           \/ /\ c.fact \in FactTypes \ {"turnRequested"}
              /\ facts' = facts \cup {<<c.fact, x.a>>} /\ UNCHANGED committed
           \/ /\ c.fact = "turnCommitted"
              /\ committed' = [committed EXCEPT ![x.a] = c.snap] /\ UNCHANGED facts
    PROVE  TurnInv'
  <1>0. None \notin FactTypes /\ None # "turnCommitted" /\ "turnRequested" \in FactTypes
        /\ "turnCommitted" \notin FactTypes
    BY NoneAssumption DEF FactTypes
  <1>1. /\ x \in Process /\ c \in Cmd /\ x.todo # <<>> /\ Computed(x)
        /\ c.fact \in RecordedBy(Head(x.todo)) /\ Head(x.todo) \in Steps
        /\ row # None /\ Plan(x.todo, x.a, x.snap) /\ Lists(x.todo, Head(x.todo))
        /\ c.fact # None => x.a \in Attempts /\ x.a # 0 /\ x.a \in Requested
    BY <1>0, SentFacts
  <1>2. c.row \in BindingRow /\ c.row # None /\ (c.snap \in Snapshots \cup {None})
    <2>1. c.row \in BindingRow /\ c.snap \in Snapshots \cup {None}
      BY <1>1 DEF Cmd
    <2> QED
      BY <2>1, NoneAssumption
  <1>3. facts \subseteq facts' /\ Requested' = Requested
    <2>1. facts \subseteq facts'
      OBVIOUS
    <2>2. CASE facts' = facts
      BY <2>2 DEF Requested, Has
    <2>3. CASE c.fact \in FactTypes \ {"turnRequested"} /\ facts' = facts \cup {<<c.fact, x.a>>}
      BY <2>3 DEF Requested, Has
    <2> QED
      BY <2>1, <2>2, <2>3
  <1>4. LogInv'
    <2>1. /\ facts' \subseteq FactTypes \X Attempts
          /\ \A f \in facts' : f[2] \in Requested'
      <3>1. facts \subseteq FactTypes \X Attempts /\ \A f \in facts : f[2] \in Requested
        BY DEF TurnInv, LogInv
      <3>2. CASE facts' = facts
        BY <1>3, <3>1, <3>2
      <3>3. CASE c.fact \in FactTypes \ {"turnRequested"} /\ facts' = facts \cup {<<c.fact, x.a>>}
        BY <1>0, <1>1, <1>3, <3>1, <3>3
      <3> QED
        BY <3>2, <3>3
    <2>2. committed' \in [Attempts -> Snapshots \cup {None}]
      BY <1>2 DEF TurnInv, LogInv
    <2>3. row' \in BindingRow \cup {None} /\ row' # None
      BY <1>2
    <2> QED
      BY <1>3, <2>1, <2>2, <2>3 DEF TurnInv, LogInv, world, Owned
  <1>5. AcceptedInv'
    <2> SUFFICES ASSUME NEW b \in Attempts
                 PROVE  /\ Has("turnAccepted", b)' => Has("deliveryAccepted", b)' /\ prompts[b] > 0
                        /\ committed'[b] = "completed" => Has("turnAccepted", b)'
      BY DEF AcceptedInv, world
    <2>1. /\ Has("turnAccepted", b) => Has("deliveryAccepted", b) /\ prompts[b] > 0
          /\ committed[b] = "completed" => Has("turnAccepted", b)
          /\ Has("turnAccepted", b) => Has("turnAccepted", b)'
          /\ Has("deliveryAccepted", b) => Has("deliveryAccepted", b)'
      BY <1>3 DEF TurnInv, AcceptedInv, Has
    <2>2. ASSUME Has("turnAccepted", b)', ~ Has("turnAccepted", b)
          PROVE  Has("deliveryAccepted", b) /\ prompts[b] > 0
      <3>1. c.fact = "turnAccepted" /\ x.a = b
        BY <2>2 DEF Has
      <3>2. Head(x.todo) = "acceptTurn"
        BY <1>1, <3>1, RecordedFacts
      <3>3. ~ Lists(x.todo, "accept") /\ ~ Lists(x.todo, "prompt")
        BY <1>1, <3>2, RestFacts DEF Plan, Process
      <3> QED
        BY <1>1, <3>1, <3>2, <3>3 DEF Plan
    <2>3. ASSUME committed'[b] = "completed", committed[b] # "completed" PROVE Has("turnAccepted", b)
      <3>1. c.fact = "turnCommitted" /\ x.a = b /\ c.snap = "completed"
        BY <2>3 DEF TurnInv, LogInv
      <3> QED
        BY <1>1, <3>1 DEF Computed
    <2> QED
      BY <2>1, <2>2, <2>3
  <1>6. BaseInv' /\ Grows /\ row' # None
    BY <1>2, <1>3, <1>4, <1>5 DEF BaseInv, Grows, world
  <1>7. c.fact # "turnRequested"
    BY <1>0
  <1>8. c.fact = "deliveryAccepted" => Has("deliveryAccepted", x.a)'
    BY <1>0 DEF Has, FactTypes
  <1> SUFFICES ASSUME NEW l, l = AfterSuccess(p) PROVE TurnInv'
    OBVIOUS
  <1>9. Plan(l, x.a, x.snap)'
    BY <1>6, <1>7, <1>8, AfterPlans
  <1> QED
    BY <1>6, <1>9, GoToStep

\* The writer executes a command.
LEMMA ExecuteKeeps == ASSUME TurnInv, NEW p \in Procs, Execute(p) PROVE TurnInv'
  <1> SUFFICES ASSUME NEW x, x = procs[p], NEW c, c = x.cmd PROVE TurnInv'
    OBVIOUS
  <1>0. c # None /\ UNCHANGED <<gens, engine, owner, world>>
    BY DEF Execute
  <1>1. CASE /\ c.fact = None /\ row' = c.row /\ GoTo(p, AfterSuccess(p))
             /\ UNCHANGED <<facts, committed, genOf>>
    BY <1>0, <1>1, WrittenKeeps
  <1>2. CASE /\ c.fact = "turnRequested" /\ Unresolved # {} /\ GoTo(p, <<>>)
             /\ UNCHANGED <<row, facts, committed, genOf>>
    BY <1>0, <1>2, KnownKeeps DEF durable
  <1>3. ASSUME NEW a \in Attempts, c.fact = "turnRequested", row' = c.row,
               facts' = facts \cup {<<"turnRequested", a>>}, genOf' = [genOf EXCEPT ![a] = c.row.gen],
               procs' = [procs EXCEPT ![p] = [procs[p] EXCEPT !.a = a, !.todo = Rest(p), !.cmd = None]],
               UNCHANGED committed
        PROVE  TurnInv'
    BY <1>0, <1>3, RequestedKeeps
  <1>4. CASE /\ c.fact \in FactTypes \ {"turnRequested"} /\ row' = c.row
             /\ facts' = facts \cup {<<c.fact, x.a>>} /\ GoTo(p, AfterSuccess(p))
             /\ UNCHANGED <<committed, genOf>>
    BY <1>0, <1>4, WrittenKeeps
  <1>5. CASE /\ c.fact = "turnCommitted" /\ row' = c.row
             /\ committed' = [committed EXCEPT ![x.a] = c.snap] /\ GoTo(p, AfterSuccess(p))
             /\ UNCHANGED <<facts, genOf>>
    BY <1>0, <1>5, WrittenKeeps
  <1>6. CASE /\ \/ c.fact \in FactTypes \ {"turnRequested"} /\ Has(c.fact, x.a)
                \/ c.fact = "turnCommitted"
             /\ GoTo(p, AfterSuccess(p)) \/ GoTo(p, AfterConflict(p))
             /\ UNCHANGED <<row, facts, committed, genOf>>
    <2>1. c.fact \notin {None, "turnRequested"} /\ (c.fact \in FactTypes => Has(c.fact, x.a))
      BY <1>6, NoneAssumption DEF FactTypes
    <2> QED
      BY <1>0, <1>6, <2>1, KnownKeeps DEF durable
  <1>7. procs[p].a = x.a /\ procs[p].cmd = c
    OBVIOUS
  <1> QED
    BY <1>1, <1>2, <1>3, <1>4, <1>5, <1>6, <1>7 DEF Execute

-----------------------------------------------------------------------------
(***************************************************************************)
(* The runtime, crashes, and every step.                                   *)
(***************************************************************************)
\* Only the runtime and the memory change, and no entry of a turn appears.
LEMMA MemoryBase ==
    ASSUME TurnInv, UNCHANGED <<durable, prompts>>, crashes' \in Nat,
           runtime' \in [Attempts -> {"none", "running", "done"}],
           owner' \in [Attempts -> Owner \cup {None}],
           \A a \in Attempts : owner'[a] # None => a \in Requested
    PROVE  BaseInv' /\ Grows /\ row' = row
  <1>1. Grows /\ row' = row /\ Requested' = Requested
    BY DEF Grows, durable, Requested, Has
  <1>2. LogInv'
    BY <1>1 DEF TurnInv, LogInv, durable, Owned
  <1>3. AcceptedInv'
    BY DEF TurnInv, AcceptedInv, durable, Has
  <1> QED
    BY <1>1, <1>2, <1>3 DEF BaseInv

\* The runtime ends a turn.
LEMMA TerminalKeeps ==
    ASSUME TurnInv, NEW a \in Attempts, NEW s \in Reported, Terminal(a, s) PROVE TurnInv'
  <1>1. /\ UNCHANGED <<durable, prompts, crashes>> /\ crashes \in Nat
        /\ runtime' = [runtime EXCEPT ![a] = "done"]
        /\ runtime \in [Attempts -> {"none", "running", "done"}]
        /\ owner \in [Attempts -> Owner \cup {None}]
        /\ \A b \in Attempts : owner[b] # None => b \in Requested
    BY DEF Terminal, TurnInv, LogInv, Owned
  <1>2. runtime' \in [Attempts -> {"none", "running", "done"}]
    BY <1>1
  <1>3. CASE UNCHANGED memory
    <2>1. BaseInv' /\ Grows
      BY <1>1, <1>2, <1>3, MemoryBase DEF memory
    <2> QED
      BY <1>3, <2>1, NoneChanges DEF memory
  <1>4. CASE Owned(a) /\ owner' = [owner EXCEPT ![a].queued = s] /\ UNCHANGED procs
    <2>1. [owner[a] EXCEPT !.queued = s] \in Owner
      BY <1>4, OwnerFacts DEF Owner
    <2>2. /\ owner' \in [Attempts -> Owner \cup {None}]
          /\ \A b \in Attempts : owner'[b] # None => b \in Requested
      BY <1>1, <1>4, <2>1 DEF Owned
    <2>3. BaseInv' /\ Grows
      BY <1>1, <1>2, <2>2, MemoryBase
    <2> QED
      BY <1>4, <2>3, NoneChanges
  <1>5. CASE /\ Owned(a) /\ owner' = [owner EXCEPT ![a].settled = s]
             /\ Start("observer", a, s, <<"publish">>)
    <2>1. [owner[a] EXCEPT !.settled = s] \in Owner
      BY <1>5, OwnerFacts DEF Owner
    <2>2. /\ owner' \in [Attempts -> Owner \cup {None}]
          /\ \A b \in Attempts : owner'[b] # None => b \in Requested
      BY <1>1, <1>5, <2>1 DEF Owned
    <2>3. BaseInv' /\ Grows /\ row' = row
      BY <1>1, <1>2, <2>2, MemoryBase
    <2>4. a \in Requested /\ a # 0 /\ row # None
      BY <1>1, <1>5, RequestedFacts DEF Owned
    <2>5. SUFFICES ASSUME NEW n, n = <<"publish">>,
                          NEW w, w = [Idle EXCEPT !.a = a, !.snap = s, !.todo = n]
                   PROVE  TurnInv'
      OBVIOUS
    <2>6. "publish" \in Steps /\ s \in Snapshots
      BY DEF Steps, Snapshots
    <2>7. n \in Seq(Steps) /\ \A t : Lists(n, t) => t = "publish"
      BY <2>5, <2>6, OneStep
    <2>8. Plan(n, a, s)'
      BY <2>4, <2>7, AheadOfNothing DEF Plan
    <2>9. w \in Process /\ w.todo = n /\ w.snap = s /\ w.a = a /\ w.cmd = None
      BY <2>5, <2>6, <2>7 DEF Process, Idle
    <2>10. procs' = [procs EXCEPT !["observer"] = w] /\ "observer" \in Procs
      BY <1>5, <2>5 DEF Start, Procs
    <2>11. Plan(w.todo, w.a, w.snap)' /\ w.a \in Requested'
      BY <2>3, <2>4, <2>8, <2>9 DEF Requested, Has, Grows
    <2>12. Fits(w)'
      BY <2>3, <2>4, <2>9, <2>11 DEF Fits, IsBeginning
    <2> QED
      BY <2>3, <2>10, <2>12, OneChanges
  <1> QED
    BY <1>3, <1>4, <1>5 DEF Terminal

\* The application dies.
LEMMA CrashKeeps == ASSUME TurnInv, Crash PROVE TurnInv'
  <1>1. runtime \in [Attempts -> {"none", "running", "done"}] /\ crashes \in Nat
    BY DEF TurnInv, LogInv
  <1>2. runtime' \in [Attempts -> {"none", "running", "done"}]
    BY <1>1 DEF Crash
  <1>3. /\ owner' \in [Attempts -> Owner \cup {None}]
        /\ \A a \in Attempts : owner'[a] # None => a \in Requested
    BY DEF Crash
  <1>4. BaseInv' /\ Grows
    BY <1>1, <1>2, <1>3, MemoryBase DEF Crash
  <1>5. \A p \in Procs : procs'[p] = Idle
    BY DEF Crash
  <1>6. procs' \in [Procs -> Process]
    BY IdleFits DEF Crash, Fits
  <1>7. ASSUME NEW p \in Procs PROVE Fits(procs[p])'
    <2> SUFFICES ASSUME NEW w, w = procs'[p] PROVE Fits(w)'
      OBVIOUS
    <2>1. w = Idle
      BY <1>5
    <2> QED
      BY <2>1, IdleFits
  <1> QED
    BY <1>4, <1>6, <1>7 DEF TurnInv, BaseInv

\* A step of a process.
LEMMA StepKeeps == ASSUME TurnInv, NEW p \in Procs, Step(p) PROVE TurnInv'
  BY PrepareKeeps, CheckPendingKeeps, RegisterKeeps, MarkStartingKeeps, MaterializeKeeps, MarkSentKeeps,
     ImportKeeps, SendPromptKeeps, ResponseKeeps, AwaitAckKeeps, AcceptDeliveryKeeps, TrustNativeKeeps,
     AcceptTurnKeeps, DrainKeeps, AwaitTerminalKeeps, ObserveKeeps, SettleKeeps, FailTurnKeeps,
     MarkRecoveryKeeps, RemoveAttemptKeeps, RebuildKeeps, SkipKeeps, ClearRecoveryKeeps, ExecuteKeeps
     DEF Step

\* The invariant is inductive.
LEMMA TurnInvInit == Init => TurnInv
  <1> SUFFICES ASSUME Init PROVE TurnInv
    OBVIOUS
  <1>1. LogInv
    BY TurnAssumption DEF Init, LogInv, Requested, Has, Owned
  <1>2. AcceptedInv
    <2>1. None # "completed"
      BY NoneAssumption DEF Snapshots, Reported
    <2> QED
      BY <2>1 DEF Init, AcceptedInv, Has
  <1>3. procs \in [Procs -> Process]
    BY IdleFits DEF Init, Fits
  <1>4. ASSUME NEW p \in Procs PROVE Fits(procs[p])
    <2>1. procs[p] = Idle
      BY DEF Init
    <2> QED
      BY <2>1, IdleFits
  <1> QED
    BY <1>1, <1>2, <1>3, <1>4 DEF TurnInv

\* Every step keeps it, whoever takes the step.
LEMMA TurnInvNext == TurnInv /\ [Next]_vars => TurnInv'
  <1> SUFFICES ASSUME TurnInv, [Next]_vars PROVE TurnInv'
    OBVIOUS
  <1>1. CASE \E p \in Procs : Step(p)
    BY <1>1, StepKeeps
  <1>2. ASSUME NEW c \in Clients, Command(c) PROVE TurnInv'
    <2>1. c \in Procs
      BY DEF Procs
    <2>2. CASE BeginTurn(c) \/ RequestRebuild(c) \/ Reload(c)
      BY <2>1, <2>2, BeginTurnKeeps, RequestRebuildKeeps, ReloadKeeps
    <2>3. ASSUME NEW a \in Attempts,
                 \/ Redispatch(c, a)
                 \/ Reattach(c, a) \/ CommitSettled(c, a) \/ RequestRecovery(c, a)
                 \/ CancelAttempt(c, a) \/ RecoverAttempt(c, a)
                 \/ \E force \in BOOLEAN : Abandon(c, a, force)
          PROVE  TurnInv'
      BY <2>1, <2>3, RedispatchKeeps, CommandKeeps
    <2> QED
      BY <1>2, <2>2, <2>3 DEF Command
  <1>3. CASE \E a \in Attempts, s \in Reported : Terminal(a, s)
    BY <1>3, TerminalKeeps
  <1>4. CASE Crash
    BY <1>4, CrashKeeps
  <1>5. CASE UNCHANGED vars
    <2>1. UNCHANGED <<durable, owner, world>> /\ UNCHANGED procs
      BY <1>5 DEF vars, memory, durable, world
    <2> QED
      BY <2>1, ReadBase, NoneChanges
  <1> QED
    BY <1>1, <1>2, <1>3, <1>4, <1>5 DEF Next

\* Every reachable state satisfies the invariant, whatever overlaps.
THEOREM TurnAlwaysFits == Spec => []TurnInv
  BY TurnInvInit, TurnInvNext, PTL DEF Spec

\* Type correctness, and that a command is pending only for a step still to
\* do, for any number of windows, turns and generations.
THEOREM TypeCorrect == Spec => []TypeOK
  <1>1. TurnInv => TypeOK
    <2> SUFFICES ASSUME TurnInv PROVE TypeOK
      OBVIOUS
    <2>1. ASSUME NEW p \in Procs
          PROVE  /\ procs[p].todo \in Seq(Steps)
                 /\ procs[p].a \in Attempts \cup {0}
                 /\ procs[p].snap \in Snapshots \cup {None}
                 /\ procs[p].transfer \in BOOLEAN
                 /\ procs[p].cmd \in Cmd \cup {None}
                 /\ procs[p].cmd # None => procs[p].todo # <<>>
      BY DEF TurnInv, Process, Fits, Computed
    <2> QED
      BY <2>1 DEF TurnInv, LogInv, TypeOK
  <1> QED
    BY <1>1, TurnAlwaysFits, PTL

\* A turn is recorded as completed only after its prompt went out, its
\* context was accepted and the runtime acknowledged it: whichever of the
\* windows, the event path and the commands of the settlement record the
\* terminal, and whatever dies in between.
THEOREM CompletedOnlyAccepted == Spec => []CompletedWasAccepted
  <1>1. TurnInv => CompletedWasAccepted
    BY DEF TurnInv, AcceptedInv, CompletedWasAccepted
  <1> QED
    BY <1>1, TurnAlwaysFits, PTL
=============================================================================
