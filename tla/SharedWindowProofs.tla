-------------------------- MODULE SharedWindowProofs --------------------------
(***************************************************************************)
(* What holds of SharedTurn for one window, whatever crashes and whichever *)
(* turns are dispatched again.                                             *)
(*                                                                         *)
(* For a patient window: a prompt reaches the runtime once, and only while *)
(* its turn is open; a pending delivery belongs to the open turn; trust is *)
(* earned; cursors and generations only advance.  The window and the event *)
(* path still overlap, at the end of a turn.  The proof says which turn    *)
(* that can be, and what the window may be doing then; everything ahead of *)
(* it the window does alone.                                               *)
(*                                                                         *)
(* For a window that does not wait, in the last sections: the cursors      *)
(* follow the deliveries, although a row computed from an old read is      *)
(* written late.                                                           *)
(***************************************************************************)
EXTENDS SharedTurnProofs

\* One window, which waits for the event path before its next command.
OneWindow == Patient /\ \A c, d \in Clients : c = d

-----------------------------------------------------------------------------
(***************************************************************************)
(* Lists of steps.  Ordered is what a send looks like until the turn is    *)
(* accepted: every step of Sending has acceptTurn behind it, each step     *)
(* comes once, and some have another one behind them.                      *)
(***************************************************************************)
Once(todo) == \A i, j \in 1 .. Len(todo) : todo[i] = todo[j] => i = j
Single(todo, s) == \A i, j \in 1 .. Len(todo) : todo[i] = s /\ todo[j] = s => i = j

Leads(todo, first, second) ==
    Ahead(todo, first, second) /\ (Lists(todo, first) => Lists(todo, second))

Sending == {"begin", "prepare", "check", "register", "starting", "materialize", "sent", "import",
            "prompt", "response", "ack", "accept", "trust"}

Ordered(todo) ==
    /\ Once(todo)
    /\ Only(todo, Sending \cup {"acceptTurn", "drain", "await"})
    /\ \A s \in Sending : Leads(todo, s, "acceptTurn")
    /\ Ahead(todo, "acceptTurn", "drain")
    /\ Leads(todo, "prepare", "check") /\ Leads(todo, "check", "sent") /\ Ahead(todo, "check", "register")
    /\ Leads(todo, "sent", "accept") /\ Leads(todo, "sent", "prompt")
    /\ Leads(todo, "sent", "import") /\ Leads(todo, "import", "prompt")
    /\ Ahead(todo, "accept", "trust")

-----------------------------------------------------------------------------
(***************************************************************************)
(* The overlap.  The event path works for a turn, or is free to start: the *)
(* barrier of the turn is down and it is not settled.  Then the window has *)
(* nothing to do, or is finishing the same turn, with a flag only behind   *)
(* the commit, or repeats the dispatch of a turn that is over.             *)
(***************************************************************************)
Free(b)   == Owned(b) /\ ~ owner[b].barrier /\ owner[b].settled = None
Works(b)  == procs["observer"].todo # <<>> /\ procs["observer"].a = b
Shared(b) == Free(b) \/ Works(b)

Late == {"publish", "drain", "await", "observe", "mark", "remove", "skip", "settle", "clear"}

Finishing(w, b) ==
    /\ w.a = b
    /\ Only(w.todo, Late)
    /\ Lists(w.todo, "mark") => committed[b] # None

Repeating(w) ==
    /\ w.a # 0 /\ w.cmd = None
    /\ committed[w.a] # None /\ ~ Has("turnAccepted", w.a)
    /\ Head(w.todo) = "check" \/ Only(w.todo, {"fail", "remove"})

Sharing(w, b) == w.todo = <<>> \/ Finishing(w, b) \/ Repeating(w)

\* A turn that both may work for is accepted and no other is open.
Accepted(b) ==
    /\ Has("turnAccepted", b) /\ Unresolved \subseteq {b}
    /\ b \in Unresolved => row.state # "creating"

SharedInv ==
    \A b \in Attempts : Shared(b) => Accepted(b) /\ \A c \in Clients : Sharing(procs[c], b)

Publishing(w) ==
    w.todo # <<>> =>
        /\ w.a \in Attempts
        /\ \/ Only(w.todo, {"publish"}) /\ Once(w.todo)
           \/ Only(w.todo, {"mark", "remove"}) /\ committed[w.a] # None

ObserverInv == Publishing(procs["observer"])

\* The coordinator owns a turn that is over only until somebody removes it.
Removes(p, b) == procs[p].a = b /\ Lists(procs[p].todo, "remove")

OwnedInv ==
    \A b \in Attempts : Owned(b) /\ committed[b] # None => \E p \in Procs : Removes(p, b)

-----------------------------------------------------------------------------
(***************************************************************************)
(* The window.  Past the check of a dispatch the pending delivery is that  *)
(* of its turn, "prepared" until the step sent, and the prompt goes out    *)
(* only behind that step.                                                  *)
(***************************************************************************)
Held(w) == w.a # 0 /\ Owned(w.a)

Past(w) ==
    /\ w.a \in Unresolved /\ IsPending(w.a) /\ ~ Has("turnAccepted", w.a)
    /\ Lists(w.todo, "sent") <=> row.pending.phase = "prepared"
    /\ Lists(w.todo, "prompt") => prompts[w.a] = 0
    /\ ~ Lists(w.todo, "accept") => Has("deliveryAccepted", w.a)

SendInv(w) ==
    /\ \A s \in Sending \cup {"acceptTurn"} : Lists(w.todo, s) => Ordered(w.todo)
    /\ Lists(w.todo, "prepare") /\ ~ IsBeginning(w) =>
          w.a \in Unresolved /\ prompts[w.a] = 0 /\ ~ Owned(w.a)
    /\ Lists(w.todo, "acceptTurn") /\ ~ Lists(w.todo, "check") => Past(w)

DrainInv(w) ==
    /\ Lists(w.todo, "drain") /\ ~ Lists(w.todo, "acceptTurn") =>
          /\ Only(w.todo, {"publish", "drain", "await", "mark", "remove"})
          /\ Lists(w.todo, "mark") => committed[w.a] # None
          /\ w.a \in Attempts /\ Accepted(w.a)
    /\ Lists(w.todo, "publish") => Lists(w.todo, "drain") /\ ~ Lists(w.todo, "acceptTurn")
    /\ Ahead(w.todo, "publish", "drain")

RemoveInv(w) ==
    /\ \A s \in {"settle", "fail", "failNative"} :
          Lists(w.todo, s) => Lists(w.todo, "remove") \/ ~ Held(w)
    /\ Lists(w.todo, "remove") /\ Lists(w.todo, "settle") =>
          \/ Head(w.todo) = "remove"
          \/ ~ Held(w)
          \/ committed[w.a] = None /\ ~ Has("turnAccepted", w.a)
    /\ Lists(w.todo, "remove") /\ Lists(w.todo, "observe") => Head(w.todo) = "remove" \/ ~ Held(w)
    /\ Lists(w.todo, "observe") =>
          Once(w.todo) /\ Only(w.todo, {"remove", "observe", "clear", "rebuild"})
    /\ Lists(w.todo, "settle") =>
          Single(w.todo, "settle") /\ Only(w.todo, {"remove", "settle", "clear"})
    /\ Lists(w.todo, "fail") \/ Lists(w.todo, "failNative") =>
          Only(w.todo, {"fail", "failNative", "mark", "remove"})
    /\ Ahead(w.todo, "remove", "await") /\ Ahead(w.todo, "remove", "rebuild")

ClientInv(w) == SendInv(w) /\ DrainInv(w) /\ RemoveInv(w)

-----------------------------------------------------------------------------
(***************************************************************************)
(* The log, the row, and the commands that are computed and not yet sent.  *)
(***************************************************************************)
NumInv ==
    /\ Requested = 1 .. Cardinality(Requested)
    /\ \A a \in Attempts \ Requested : committed[a] = None /\ prompts[a] = 0
    /\ \A a \in Unresolved, b \in Requested : b <= a

Earned(r) == r.trusted => r.native /\ \E a \in Attempts : Has("deliveryAccepted", a) /\ genOf[a] = r.gen

\* A row and what it is recorded with: the cursors follow the deliveries.
Follows(r, a, fact) ==
    /\ r.committed <= r.accepted
    /\ r.accepted # 0 =>
          /\ genOf[r.accepted] = r.gen
          /\ Has("deliveryAccepted", r.accepted) \/ (fact = "deliveryAccepted" /\ r.accepted = a)
    /\ r.committed # 0 => committed[r.committed] # None \/ (fact = "turnCommitted" /\ r.committed = a)

OpenFor(r) ==
    r.pending # None =>
        /\ r.pending.attempt \in Unresolved
        /\ r.pending.gen = r.gen
        /\ r.pending.phase = "prepared" => prompts[r.pending.attempt] = 0
        /\ r.pending.phase # "prepared" => r.native
        /\ r.pending.phase = "accepted" => r.accepted = r.pending.attempt

RowInv ==
    row # None =>
        /\ OpenFor(row) /\ Earned(row) /\ Follows(row, 0, None)
        /\ row.gen <= gens
        /\ \A a \in Unresolved : IsCurrent(a)

Same(r)  == r.gen = row.gen /\ r.accepted = row.accepted /\ r.committed = row.committed
Later(r) == r.gen = row.gen /\ r.accepted >= row.accepted /\ r.committed >= row.committed

Committing == {"observe", "publish", "settle", "fail", "failNative"}

\* What a step has computed, for the row as it is.
Written(s, a, k) ==
    /\ s = "begin" => Unresolved = {} /\ k.row.pending = None /\ (row # None => Same(k.row))
    /\ s \in {"prepare", "sent", "acceptTurn"} => Same(k.row)
    /\ s = "accept" => Later(k.row)
    /\ s \in {"sent", "accept"} => k.row.pending # None /\ k.row.pending.attempt = a
    /\ s = "sent" => k.row.pending.phase = "sent"
    /\ s = "accept" => k.row.pending.phase = "accepted"
    /\ s = "acceptTurn" => k.row.pending = row.pending /\ k.row.state = "ready"
    /\ s \in {"starting", "materialize", "trust", "mark", "clear"} =>
          Same(k.row) /\ k.row.pending = row.pending
    /\ s = "clear" => Unresolved = {}
    /\ s = "mark" => k.row.state = "recovery-required"
    /\ s = "rebuild" => /\ k.row.pending = None /\ k.row.gen > row.gen
                        /\ k.fact = None => Unresolved = {}
    /\ s \in Committing => k.row.pending = None /\ (committed[a] = None => Later(k.row))

CmdInv(w) ==
    w.cmd # None =>
        /\ w.cmd.row.gen <= gens /\ Earned(w.cmd.row) /\ OpenFor(w.cmd.row)
        /\ Follows(w.cmd.row, w.a, w.cmd.fact)
        /\ Written(Head(w.todo), w.a, w.cmd)

WindowInv ==
    /\ SharedInv /\ OwnedInv /\ ObserverInv
    /\ \A c \in Clients : ClientInv(procs[c])
    /\ RowInv /\ NumInv /\ SentOnce
    /\ \A p \in Procs : CmdInv(procs[p])

-----------------------------------------------------------------------------
(***************************************************************************)
(* More about lists.                                                       *)
(***************************************************************************)
\* The rest of a list whose steps come once does not contain its head; what
\* has to be behind a step stays behind it.
LEMMA RestOrder ==
    ASSUME NEW q \in Seq(Steps), q # <<>>
    PROVE  /\ Once(q) => Once(Tail(q)) /\ ~ Lists(Tail(q), Head(q))
           /\ \A s : Single(q, s) => Single(Tail(q), s) /\ (Head(q) = s => ~ Lists(Tail(q), s))
           /\ \A x, y : Leads(q, x, y) => Leads(Tail(q), x, y)
  <1>1. /\ Tail(q) \in Seq(Steps) /\ Len(q) \in Nat /\ Len(q) > 0
        /\ Len(Tail(q)) = Len(q) - 1
        /\ \A i \in 1 .. Len(Tail(q)) : Tail(q)[i] = q[i + 1]
        /\ Head(q) = q[1]
    OBVIOUS
  <1>2. \A x, y : Ahead(q, x, y) => Ahead(Tail(q), x, y)
    BY RestFacts
  <1>3. \A s : Lists(q, s) /\ Head(q) # s => Lists(Tail(q), s)
    BY RestFacts
  <1>4. \A s : Lists(Tail(q), s) => Lists(q, s)
    BY RestFacts
  <1>5. \A x : Ahead(q, x, Head(q)) => ~ Lists(q, x)
    BY RestFacts
  <1> SUFFICES ASSUME NEW t, t = Tail(q), NEW h, h = Head(q), NEW n, n = Len(q), NEW m, m = Len(t)
               PROVE  /\ Once(q) => Once(t) /\ ~ Lists(t, h)
                      /\ \A s : Single(q, s) => Single(t, s) /\ (h = s => ~ Lists(t, s))
                      /\ \A x, y : Leads(q, x, y) => Leads(t, x, y)
    OBVIOUS
  <1>6. /\ n \in Nat /\ n > 0 /\ m = n - 1 /\ h = q[1]
        /\ \A i \in 1 .. m : t[i] = q[i + 1]
    BY <1>1
  <1>7. ASSUME Once(q) PROVE Once(t)
    <2> SUFFICES ASSUME NEW i \in 1 .. m, NEW j \in 1 .. m, t[i] = t[j] PROVE i = j
      BY DEF Once
    <2>1. i + 1 \in 1 .. n /\ j + 1 \in 1 .. n /\ q[i + 1] = q[j + 1]
      BY <1>6
    <2>2. i + 1 = j + 1
      BY <1>7, <2>1 DEF Once
    <2> QED
      BY <2>2, <1>6
  <1>8. ASSUME Once(q), Lists(t, h) PROVE FALSE
    <2>1. PICK i \in 1 .. m : t[i] = h
      BY <1>8 DEF Lists
    <2>2. i + 1 \in 1 .. n /\ 1 \in 1 .. n /\ q[i + 1] = q[1]
      BY <1>6, <2>1
    <2>3. i + 1 = 1
      BY <1>8, <2>2 DEF Once
    <2> QED
      BY <2>3, <2>1, <1>6
  <1>10. ASSUME NEW s, Single(q, s) PROVE Single(t, s)
    <2> SUFFICES ASSUME NEW i \in 1 .. m, NEW j \in 1 .. m, t[i] = s, t[j] = s PROVE i = j
      BY DEF Single
    <2>1. i + 1 \in 1 .. n /\ j + 1 \in 1 .. n /\ q[i + 1] = s /\ q[j + 1] = s
      BY <1>6
    <2>2. i + 1 = j + 1
      BY <1>10, <2>1 DEF Single
    <2> QED
      BY <2>2, <1>6
  <1>11. ASSUME NEW s, Single(q, s), h = s, Lists(t, s) PROVE FALSE
    <2>1. PICK i \in 1 .. m : t[i] = s
      BY <1>11 DEF Lists
    <2>2. i + 1 \in 1 .. n /\ 1 \in 1 .. n /\ q[i + 1] = s /\ q[1] = s
      BY <1>6, <1>11, <2>1
    <2>3. i + 1 = 1
      BY <1>11, <2>2 DEF Single
    <2> QED
      BY <2>3, <2>1, <1>6
  <1>9. ASSUME NEW x, NEW y, Leads(q, x, y) PROVE Leads(t, x, y)
    <2>1. Ahead(q, x, y) /\ (Lists(q, x) => Lists(q, y))
      BY <1>9 DEF Leads
    <2>2. Lists(t, x) => Lists(t, y)
      <3> SUFFICES ASSUME Lists(t, x) PROVE Lists(t, y)
        OBVIOUS
      <3>1. Lists(q, x) /\ Lists(q, y)
        BY <1>4, <2>1
      <3>2. y # Head(q)
        BY <1>5, <2>1, <3>1
      <3> QED
        BY <1>3, <3>1, <3>2
    <2> QED
      BY <1>2, <2>1, <2>2 DEF Leads
  <1> QED
    BY <1>7, <1>8, <1>9, <1>10, <1>11

\* The rest of a send: in the same order, without the head, and everything
\* that had to come before the head is done.
LEMMA RestOfSend ==
    ASSUME NEW q \in Seq(Steps), q # <<>>, Ordered(q)
    PROVE  /\ Ordered(Tail(q))
           /\ \A s : Lists(Tail(q), s) <=> Lists(q, s) /\ s # Head(q)
           /\ \A x : Ahead(q, x, Head(q)) => ~ Lists(q, x)
           /\ Head(q) \in Sending \cup {"acceptTurn", "drain", "await"}
  <1>1. /\ \A s : Lists(Tail(q), s) => Lists(q, s)
        /\ \A s : Lists(q, s) /\ Head(q) # s => Lists(Tail(q), s)
        /\ \A S : Only(q, S) => Only(Tail(q), S)
        /\ \A x, y : Ahead(q, x, y) => Ahead(Tail(q), x, y)
        /\ \A x : Ahead(q, x, Head(q)) => ~ Lists(q, x)
        /\ Lists(q, Head(q))
    BY RestFacts
  <1>2. Once(q)
    BY DEF Ordered
  <1>3. Once(Tail(q)) /\ ~ Lists(Tail(q), Head(q))
    BY <1>2, RestOrder
  <1>4. \A x, y : Leads(q, x, y) => Leads(Tail(q), x, y)
    BY RestOrder
  <1>5. Ordered(Tail(q))
    BY <1>1, <1>3, <1>4 DEF Ordered
  <1>6. Head(q) \in Sending \cup {"acceptTurn", "drain", "await"}
    BY <1>1 DEF Ordered, Lists, Only
  <1> QED
    BY <1>1, <1>3, <1>5, <1>6

\* Two lists, one after the other, and the order of two steps.
LEMMA JoinOrder ==
    ASSUME NEW q \in Seq(Steps), NEW r \in Seq(Steps)
    PROVE  /\ \A s : Lists(q, s) => Lists(q \o r, s)
           /\ \A S : Only(q, S) /\ Only(r, S) => Only(q \o r, S)
           /\ \A x, y : ~ Lists(q, y) /\ Ahead(r, x, y) => Ahead(q \o r, x, y)
  <1>1. /\ q \o r \in Seq(Steps) /\ Len(q \o r) = Len(q) + Len(r)
        /\ Len(q) \in Nat /\ Len(r) \in Nat
        /\ \A i \in 1 .. Len(q) : (q \o r)[i] = q[i]
        /\ \A i \in Len(q) + 1 .. Len(q) + Len(r) : (q \o r)[i] = r[i - Len(q)]
    OBVIOUS
  <1> SUFFICES ASSUME NEW t, t = q \o r, NEW n, n = Len(q), NEW m, m = Len(r), NEW l, l = Len(t)
               PROVE  /\ \A s : Lists(q, s) => Lists(t, s)
                      /\ \A S : Only(q, S) /\ Only(r, S) => Only(t, S)
                      /\ \A x, y : ~ Lists(q, y) /\ Ahead(r, x, y) => Ahead(t, x, y)
    OBVIOUS
  <1>2. /\ n \in Nat /\ m \in Nat /\ l = n + m
        /\ \A i \in 1 .. n : t[i] = q[i]
        /\ \A i \in n + 1 .. n + m : i - n \in 1 .. m /\ t[i] = r[i - n]
    BY <1>1
  <1>3. \A s : Lists(q, s) => Lists(t, s)
    BY <1>2 DEF Lists
  <1>4. ASSUME NEW S, Only(q, S), Only(r, S) PROVE Only(t, S)
    <2> SUFFICES ASSUME NEW i \in 1 .. l PROVE t[i] \in S
      BY DEF Only
    <2>1. CASE i \in 1 .. n
      BY <2>1, <1>2, <1>4 DEF Only
    <2>2. CASE i \in n + 1 .. n + m
      BY <2>2, <1>2, <1>4 DEF Only
    <2> QED
      BY <2>1, <2>2, <1>2
  <1>5. ASSUME NEW x, NEW y, ~ Lists(q, y), Ahead(r, x, y) PROVE Ahead(t, x, y)
    <2> SUFFICES ASSUME NEW i \in 1 .. l, NEW j \in 1 .. l, t[i] = x, t[j] = y PROVE i < j
      BY DEF Ahead
    <2>1. j \notin 1 .. n
      BY <1>2, <1>5 DEF Lists
    <2>2. j \in n + 1 .. n + m /\ j - n \in 1 .. m /\ r[j - n] = y
      BY <1>2, <2>1
    <2>3. CASE i \in 1 .. n
      BY <2>2, <2>3, <1>2
    <2>4. CASE i \in n + 1 .. n + m
      <3>1. i - n \in 1 .. m /\ r[i - n] = x
        BY <2>4, <1>2
      <3>2. i - n < j - n
        BY <3>1, <2>2, <1>5 DEF Ahead
      <3> QED
        BY <3>2, <1>2
    <2> QED
      BY <2>3, <2>4, <1>2
  <1> QED
    BY <1>3, <1>4, <1>5

\* A dispatch that is followed by the wait for the end.
LEMMA ResendPlaces ==
    /\ Resend \in Seq(Steps) /\ Len(Resend) = 14
    /\ Resend[1] = "check" /\ Resend[2] = "register" /\ Resend[3] = "starting"
    /\ Resend[4] = "materialize" /\ Resend[5] = "sent" /\ Resend[6] = "import"
    /\ Resend[7] = "prompt" /\ Resend[8] = "response" /\ Resend[9] = "ack" /\ Resend[10] = "accept"
    /\ Resend[11] = "trust" /\ Resend[12] = "acceptTurn" /\ Resend[13] = "drain"
    /\ Resend[14] = "await"
  <1> DEFINE e == <<"await">>
  <1>1. Dispatch \in Seq(Steps) /\ e \in Seq(Steps)
    BY DEF Dispatch, Steps
  <1>2. Len(e) = 1 /\ e[1] = "await" /\ Len(Dispatch) = 13
    BY DEF Dispatch
  <1>3. Resend = Dispatch \o e
    BY DEF Resend
  <1> HIDE DEF e
  <1>4. /\ Resend \in Seq(Steps) /\ Len(Resend) = Len(Dispatch) + Len(e)
        /\ \A i \in 1 .. Len(Dispatch) : Resend[i] = Dispatch[i]
        /\ \A i \in Len(Dispatch) + 1 .. Len(Dispatch) + Len(e) : Resend[i] = e[i - Len(Dispatch)]
    BY <1>1, <1>3
  <1>5. Len(Resend) = 14 /\ (\A i \in 1 .. 13 : Resend[i] = Dispatch[i]) /\ Resend[14] = "await"
    BY <1>2, <1>4
  <1>6. /\ Dispatch[1] = "check" /\ Dispatch[2] = "register" /\ Dispatch[3] = "starting"
        /\ Dispatch[4] = "materialize" /\ Dispatch[5] = "sent" /\ Dispatch[6] = "import"
        /\ Dispatch[7] = "prompt" /\ Dispatch[8] = "response" /\ Dispatch[9] = "ack"
        /\ Dispatch[10] = "accept" /\ Dispatch[11] = "trust" /\ Dispatch[12] = "acceptTurn"
        /\ Dispatch[13] = "drain"
    BY DEF Dispatch
  <1>7. \A i \in 1 .. 13 : Resend[i] = Dispatch[i]
    BY <1>5
  <1>8. /\ Resend[1] = Dispatch[1] /\ Resend[2] = Dispatch[2] /\ Resend[3] = Dispatch[3]
        /\ Resend[4] = Dispatch[4] /\ Resend[5] = Dispatch[5] /\ Resend[6] = Dispatch[6]
        /\ Resend[7] = Dispatch[7] /\ Resend[8] = Dispatch[8] /\ Resend[9] = Dispatch[9]
        /\ Resend[10] = Dispatch[10] /\ Resend[11] = Dispatch[11] /\ Resend[12] = Dispatch[12]
        /\ Resend[13] = Dispatch[13]
    BY <1>7
  <1>9. Resend \in Seq(Steps) /\ Len(Resend) = 14 /\ Resend[14] = "await"
    BY <1>4, <1>5
  <1> QED
    BY <1>6, <1>8, <1>9

\* It is in order.
LEMMA ResendOrder ==
    /\ Resend \in Seq(Steps) /\ Resend # <<>> /\ Head(Resend) = "check"
    /\ Ordered(Resend)
    /\ Lists(Resend, "check") /\ Lists(Resend, "acceptTurn")
    /\ ~ Lists(Resend, "prepare") /\ ~ Lists(Resend, "begin")
  <1> SUFFICES ASSUME NEW d, d = Resend
               PROVE  /\ d \in Seq(Steps) /\ d # <<>> /\ Head(d) = "check" /\ Ordered(d)
                      /\ Lists(d, "check") /\ Lists(d, "acceptTurn")
                      /\ ~ Lists(d, "prepare") /\ ~ Lists(d, "begin")
    OBVIOUS
  <1>1. /\ d \in Seq(Steps) /\ Len(d) = 14
        /\ d[1] = "check" /\ d[2] = "register" /\ d[3] = "starting"
        /\ d[4] = "materialize" /\ d[5] = "sent" /\ d[6] = "import"
        /\ d[7] = "prompt" /\ d[8] = "response" /\ d[9] = "ack" /\ d[10] = "accept"
        /\ d[11] = "trust" /\ d[12] = "acceptTurn" /\ d[13] = "drain" /\ d[14] = "await"
    BY ResendPlaces
  <1>2. \A i \in 1 .. 14 :
          /\ d[i] = "check" => i = 1
          /\ d[i] = "register" => i = 2
          /\ d[i] = "starting" => i = 3
          /\ d[i] = "materialize" => i = 4
          /\ d[i] = "sent" => i = 5
          /\ d[i] = "import" => i = 6
          /\ d[i] = "prompt" => i = 7
          /\ d[i] = "response" => i = 8
          /\ d[i] = "ack" => i = 9
          /\ d[i] = "accept" => i = 10
          /\ d[i] = "trust" => i = 11
          /\ d[i] = "acceptTurn" => i = 12
          /\ d[i] = "drain" => i = 13
          /\ d[i] = "await" => i = 14
          /\ d[i] \in Sending \cup {"acceptTurn", "drain", "await"}
          /\ d[i] \notin {"begin", "prepare"}
    BY <1>1 DEF Sending
  <1>3. Once(d)
    BY <1>1, <1>2 DEF Once
  <1>4. \A s \in {"check", "register", "starting", "materialize", "sent", "import", "prompt",
                  "response", "ack", "accept", "trust", "acceptTurn"} : Lists(d, s)
    BY <1>1 DEF Lists
  <1>5. \A s \in Sending : Ahead(d, s, "acceptTurn")
    BY <1>1, <1>2 DEF Ahead, Sending
  <1>6. ~ Lists(d, "prepare") /\ ~ Lists(d, "begin")
    BY <1>1, <1>2 DEF Lists
  <1>7. /\ Ahead(d, "acceptTurn", "drain") /\ Ahead(d, "check", "sent") /\ Ahead(d, "check", "register")
        /\ Ahead(d, "sent", "accept") /\ Ahead(d, "sent", "prompt") /\ Ahead(d, "sent", "import")
        /\ Ahead(d, "import", "prompt") /\ Ahead(d, "accept", "trust")
    BY <1>1, <1>2 DEF Ahead
  <1>8. Ahead(d, "prepare", "check")
    BY <1>6 DEF Ahead, Lists
  <1>9. Ordered(d)
    <2>1. Only(d, Sending \cup {"acceptTurn", "drain", "await"})
      BY <1>1, <1>2 DEF Only
    <2>2. \A s \in Sending : Leads(d, s, "acceptTurn")
      BY <1>4, <1>5 DEF Leads
    <2>3. /\ Leads(d, "prepare", "check") /\ Leads(d, "check", "sent")
          /\ Leads(d, "sent", "accept") /\ Leads(d, "sent", "prompt")
          /\ Leads(d, "sent", "import") /\ Leads(d, "import", "prompt")
      BY <1>4, <1>6, <1>7, <1>8 DEF Leads
    <2>4. Once(d) /\ Ahead(d, "acceptTurn", "drain") /\ Ahead(d, "check", "register")
          /\ Ahead(d, "accept", "trust")
      BY <1>3, <1>7
    <2> QED
      BY <2>1, <2>2, <2>3, <2>4 DEF Ordered
  <1>10. d # <<>> /\ Head(d) = "check"
    <2>1. d \in Seq(Steps) /\ Len(d) = 14 /\ d[1] = "check"
      BY <1>1
    <2>2. d # <<>>
      BY <1>4, EmptyList
    <2>3. Head(d) = d[1]
      BY <2>1, <2>2
    <2> QED
      BY <2>1, <2>2, <2>3
  <1> QED
    BY <1>1, <1>4, <1>6, <1>9, <1>10

\* So is the whole of a send.
LEMMA SendOrder ==
    /\ Send \in Seq(Steps) /\ Send # <<>> /\ Head(Send) = "begin"
    /\ Ordered(Send)
    /\ Lists(Send, "check") /\ Lists(Send, "acceptTurn")
  <1> DEFINE b == <<"begin", "prepare">>
  <1>1. b \in Seq(Steps) /\ Send = b \o Resend
    BY DEF Send, Steps
  <1>2. Len(b) = 2 /\ b[1] = "begin" /\ b[2] = "prepare"
    OBVIOUS
  <1> HIDE DEF b
  <1>3. /\ Send \in Seq(Steps) /\ Len(Send) = Len(b) + Len(Resend)
        /\ \A i \in 1 .. Len(b) : Send[i] = b[i]
        /\ \A i \in Len(b) + 1 .. Len(b) + Len(Resend) : Send[i] = Resend[i - Len(b)]
    BY <1>1, ResendOrder
  <1>4. /\ Len(Send) = 16 /\ Send[1] = "begin" /\ Send[2] = "prepare"
        /\ \A i \in 3 .. 16 : i - 2 \in 1 .. 14 /\ Send[i] = Resend[i - 2]
    <2>1. Len(Resend) = 14
      BY ResendPlaces
    <2> QED
      BY <1>2, <1>3, <2>1
  <1> SUFFICES ASSUME NEW d, d = Send, NEW r, r = Resend
               PROVE  /\ Ordered(d) /\ Lists(d, "check") /\ Lists(d, "acceptTurn")
    BY <1>3, SendFacts
  <1>5. /\ d \in Seq(Steps) /\ Len(d) = 16 /\ d[1] = "begin" /\ d[2] = "prepare"
        /\ \A i \in 3 .. 16 : i - 2 \in 1 .. 14 /\ d[i] = r[i - 2]
    BY <1>3, <1>4
  <1>6. r \in Seq(Steps) /\ Len(r) = 14 /\ Ordered(r) /\ Lists(r, "check") /\ Lists(r, "acceptTurn")
        /\ ~ Lists(r, "prepare") /\ ~ Lists(r, "begin")
    BY ResendOrder, ResendPlaces
  <1>7. \A i \in 1 .. 16 : \/ i = 1 /\ d[i] = "begin"
                           \/ i = 2 /\ d[i] = "prepare"
                           \/ /\ i \in 3 .. 16 /\ i - 2 \in 1 .. 14 /\ d[i] = r[i - 2]
                              /\ d[i] # "begin" /\ d[i] # "prepare"
    BY <1>5, <1>6 DEF Lists
  <1>8. \A s : Lists(r, s) => Lists(d, s)
    <2> SUFFICES ASSUME NEW s, Lists(r, s) PROVE Lists(d, s)
      OBVIOUS
    <2>1. PICK i \in 1 .. 14 : r[i] = s
      BY <1>6 DEF Lists
    <2>2. i + 2 \in 3 .. 16 /\ i + 2 \in 1 .. 16 /\ (i + 2) - 2 = i
      OBVIOUS
    <2>3. d[i + 2] = s
      BY <1>5, <2>1, <2>2
    <2>4. \E j \in 1 .. 16 : d[j] = s
      BY <2>2, <2>3
    <2> QED
      BY <1>5, <2>4 DEF Lists
  <1>9. Once(d)
    <2>0. Len(d) = 16
      BY <1>5
    <2> SUFFICES ASSUME NEW i \in 1 .. 16, NEW j \in 1 .. 16, d[i] = d[j] PROVE i = j
      BY <2>0 DEF Once
    <2>1. CASE i \in 3 .. 16 /\ j \in 3 .. 16
      <3>1. r[i - 2] = r[j - 2] /\ i - 2 \in 1 .. 14 /\ j - 2 \in 1 .. 14
        BY <1>5, <2>1
      <3>2. i - 2 = j - 2
        BY <3>1, <1>6 DEF Ordered, Once
      <3> QED
        BY <3>2
    <2> QED
      BY <2>1, <1>7
  <1>10. Only(d, Sending \cup {"acceptTurn", "drain", "await"})
    <2> SUFFICES ASSUME NEW i \in 1 .. 16 PROVE d[i] \in Sending \cup {"acceptTurn", "drain", "await"}
      BY <1>5 DEF Only
    <2>1. CASE i \in 3 .. 16
      BY <2>1, <1>5, <1>6 DEF Ordered, Only
    <2> QED
      BY <2>1, <1>7 DEF Sending
  <1>11. \A x, y : x \notin {"begin", "prepare"} /\ y \notin {"begin", "prepare"} /\ Ahead(r, x, y) => Ahead(d, x, y)
    <2> SUFFICES ASSUME NEW x, NEW y, x \notin {"begin", "prepare"}, y \notin {"begin", "prepare"}, Ahead(r, x, y),
                        NEW i \in 1 .. 16, NEW j \in 1 .. 16, d[i] = x, d[j] = y
                 PROVE  i < j
      <3>1. \A x, y : (\A i, j \in 1 .. 16 : d[i] = x /\ d[j] = y => i < j) => Ahead(d, x, y)
        BY <1>5 DEF Ahead
      <3> QED
        BY <3>1
    <2>1. i \in 3 .. 16 /\ j \in 3 .. 16
      BY <1>7
    <2>2. i - 2 \in 1 .. 14 /\ j - 2 \in 1 .. 14 /\ r[i - 2] = x /\ r[j - 2] = y
      BY <2>1, <1>5
    <2>3. i - 2 < j - 2
      BY <2>2, <1>6 DEF Ahead
    <2> QED
      BY <2>3
  <1>12. \A x \in {"begin", "prepare"} : \A y : y \notin {"begin", "prepare"} => Ahead(d, x, y)
    <2> SUFFICES ASSUME NEW x \in {"begin", "prepare"}, NEW y, y \notin {"begin", "prepare"},
                        NEW i \in 1 .. 16, NEW j \in 1 .. 16, d[i] = x, d[j] = y
                 PROVE  i < j
      BY <1>5 DEF Ahead
    <2>1. i \in {1, 2} /\ j \notin {1, 2}
      BY <1>7
    <2> QED
      BY <2>1
  <1>13. Lists(d, "check") /\ Lists(d, "acceptTurn")
    BY <1>6, <1>8
  <1>14. \A x, y : x \notin {"begin", "prepare"} /\ y \notin {"begin", "prepare"} /\ Leads(r, x, y) => Leads(d, x, y)
    <2> SUFFICES ASSUME NEW x, NEW y, x \notin {"begin", "prepare"}, y \notin {"begin", "prepare"}, Leads(r, x, y)
                 PROVE  Leads(d, x, y)
      OBVIOUS
    <2>1. Ahead(r, x, y) /\ (Lists(r, x) => Lists(r, y))
      BY DEF Leads
    <2>2. Lists(d, x) => Lists(r, x)
      BY <1>5, <1>6, <1>7 DEF Lists
    <2> QED
      BY <2>1, <2>2, <1>8, <1>11 DEF Leads
  <1>15. \A s \in Sending : Leads(d, s, "acceptTurn")
    <2> SUFFICES ASSUME NEW s \in Sending PROVE Leads(d, s, "acceptTurn")
      OBVIOUS
    <2>1. CASE s \in {"begin", "prepare"}
      BY <2>1, <1>12, <1>13 DEF Leads
    <2>2. CASE s \notin {"begin", "prepare"}
      BY <2>2, <1>6, <1>14 DEF Ordered
    <2> QED
      BY <2>1, <2>2
  <1>16. Leads(d, "prepare", "check")
    BY <1>12, <1>13 DEF Leads
  <1>17. /\ Ahead(d, "acceptTurn", "drain") /\ Ahead(d, "check", "register") /\ Ahead(d, "accept", "trust")
    BY <1>6, <1>11 DEF Ordered
  <1>18. /\ Leads(d, "check", "sent") /\ Leads(d, "sent", "accept") /\ Leads(d, "sent", "prompt")
         /\ Leads(d, "sent", "import") /\ Leads(d, "import", "prompt")
    BY <1>6, <1>14 DEF Ordered
  <1> QED
    BY <1>9, <1>10, <1>13, <1>15, <1>16, <1>17, <1>18 DEF Ordered

\* And the rest of a dispatch that has imported its context.
LEMMA ImportedOrder ==
    /\ ImportedFirst \in Seq(Steps)
    /\ Ordered(ImportedFirst)
    /\ Lists(ImportedFirst, "accept") /\ Lists(ImportedFirst, "acceptTurn")
    /\ ~ Lists(ImportedFirst, "prepare") /\ ~ Lists(ImportedFirst, "begin")
    /\ ~ Lists(ImportedFirst, "check") /\ ~ Lists(ImportedFirst, "sent")
  <1> SUFFICES ASSUME NEW d, d = ImportedFirst
               PROVE  /\ Ordered(d) /\ Lists(d, "accept") /\ Lists(d, "acceptTurn")
                      /\ ~ Lists(d, "prepare") /\ ~ Lists(d, "begin")
                      /\ ~ Lists(d, "check") /\ ~ Lists(d, "sent")
    BY ImportedFacts
  <1>1. /\ Len(d) = 7 /\ d[1] = "accept" /\ d[2] = "trust" /\ d[3] = "prompt" /\ d[4] = "response"
        /\ d[5] = "acceptTurn" /\ d[6] = "drain" /\ d[7] = "await"
    BY DEF ImportedFirst
  <1>2. \A i \in 1 .. 7 :
          /\ d[i] = "accept" => i = 1
          /\ d[i] = "trust" => i = 2
          /\ d[i] = "prompt" => i = 3
          /\ d[i] = "response" => i = 4
          /\ d[i] = "acceptTurn" => i = 5
          /\ d[i] = "drain" => i = 6
          /\ d[i] = "await" => i = 7
          /\ d[i] \in Sending \cup {"acceptTurn", "drain", "await"}
          /\ d[i] \notin {"begin", "prepare", "check", "register", "sent", "import"}
    BY <1>1 DEF Sending
  <1>3. Once(d)
    BY <1>1, <1>2 DEF Once
  <1>4. Lists(d, "accept") /\ Lists(d, "acceptTurn") /\ Lists(d, "prompt")
    BY <1>1 DEF Lists
  <1>5. \A s \in Sending : Ahead(d, s, "acceptTurn")
    BY <1>1, <1>2 DEF Ahead, Sending
  <1>6. \A s \in {"begin", "prepare", "check", "register", "sent", "import"} : ~ Lists(d, s)
    BY <1>1, <1>2 DEF Lists
  <1>7. Ahead(d, "acceptTurn", "drain") /\ Ahead(d, "accept", "trust")
    BY <1>1, <1>2 DEF Ahead
  <1>8. \A s \in {"prepare", "check", "sent", "import"} : \A y : Leads(d, s, y)
    BY <1>6 DEF Leads, Ahead, Lists
  <1>9. Ahead(d, "check", "register")
    BY <1>8 DEF Leads
  <1> QED
    BY <1>1, <1>2, <1>3, <1>4, <1>5, <1>6, <1>7, <1>8, <1>9 DEF Ordered, Leads, Only

-----------------------------------------------------------------------------
(***************************************************************************)
(* What a window may go on with.                                           *)
(***************************************************************************)
\* Nothing of a send and nothing to drain is left: only removals matter.
LEMMA EndOfSend ==
    ASSUME NEW v, \A s \in Sending \cup {"acceptTurn", "drain", "publish"} : ~ Lists(v.todo, s),
           RemoveInv(v)'
    PROVE  ClientInv(v)'
  <1>1. Ahead(v.todo, "publish", "drain")
    BY AheadOfNothing
  <1>2. SendInv(v)'
    BY DEF SendInv, Sending
  <1>3. DrainInv(v)'
    BY <1>1 DEF DrainInv
  <1> QED
    BY <1>2, <1>3 DEF ClientInv

\* Short lists that flag, reject, remove, give up, rebuild or wait.
Brief == {"mark", "remove", "fail", "failNative", "skip", "rebuild", "await", "clear"}

\* A window with no more than that left meets the condition of a window.
LEMMA BriefClient ==
    ASSUME NEW v, \A s : Lists(v.todo, s) => s \in Brief,
           Lists(v.todo, "remove") => ~ Lists(v.todo, "await") /\ ~ Lists(v.todo, "rebuild"),
           Lists(v.todo, "fail") \/ Lists(v.todo, "failNative") =>
              /\ Lists(v.todo, "remove") \/ ~ Held(v)'
              /\ Only(v.todo, {"fail", "failNative", "mark", "remove"})
    PROVE  ClientInv(v)'
  <1>1. \A s \in Sending \cup {"acceptTurn", "drain", "publish", "settle", "observe"} :
           ~ Lists(v.todo, s)
    BY DEF Brief, Sending
  <1>2. Ahead(v.todo, "remove", "await") /\ Ahead(v.todo, "remove", "rebuild")
    BY DEF Ahead, Lists
  <1>3. RemoveInv(v)'
    BY <1>1, <1>2 DEF RemoveInv
  <1> QED
    BY <1>1, <1>3, EndOfSend

\* The rest of a list, after a step that changes neither the log nor the row.
LEMMA RestClient ==
    ASSUME NEW w, w.todo \in Seq(Steps), w.todo # <<>>, ClientInv(w), ~ IsBeginning(w),
           NEW v, v.todo = Tail(w.todo), v.a = w.a,
           UNCHANGED <<facts, committed, genOf, row, prompts>>,
           Head(w.todo) \notin {"begin", "check", "sent", "accept", "acceptTurn"},
           w.a # 0 => (Owned(w.a)' => Owned(w.a) \/ Head(w.todo) = "register"),
           Head(w.todo) = "remove" => ~ Held(v)'
    PROVE  ClientInv(v)'
  <1> DEFINE q == w.todo
             h == Head(w.todo)
  <1>1. /\ v.todo \in Seq(Steps)
        /\ \A s : Lists(v.todo, s) => Lists(q, s)
        /\ \A s : Lists(q, s) /\ h # s => Lists(v.todo, s)
        /\ \A S : Only(q, S) => Only(v.todo, S)
        /\ \A x, y : Ahead(q, x, y) => Ahead(v.todo, x, y)
        /\ \A x : Ahead(q, x, h) => ~ Lists(q, x)
        /\ Lists(q, h)
    BY RestFacts
  <1>2. /\ Once(q) => Once(v.todo) /\ ~ Lists(v.todo, h)
        /\ \A s : Single(q, s) => Single(v.todo, s)
    BY RestOrder
  <1>3. Ordered(q) => Ordered(v.todo)
    BY RestOfSend
  <1> HIDE DEF q, h
  <1>4. h = "register" => Ordered(q)
    BY <1>1 DEF ClientInv, SendInv, Sending, q
  <1>5. h = "register" => ~ Lists(q, "prepare")
    <2> SUFFICES ASSUME h = "register" PROVE ~ Lists(q, "prepare")
      OBVIOUS
    <2>1. Ahead(q, "check", "register") /\ Leads(q, "prepare", "check")
      BY <1>4 DEF Ordered
    <2> QED
      BY <2>1, <1>1 DEF Leads
  <1>6. Held(v)' => Held(w) \/ h = "register"
    BY DEF Held, h
  <1>7. SendInv(v)'
    <2>1. \A s \in Sending \cup {"acceptTurn"} : Lists(v.todo, s) => Ordered(v.todo)
      BY <1>1, <1>3 DEF ClientInv, SendInv, q
    <2>2. Lists(v.todo, "prepare") =>
            (w.a \in Unresolved /\ prompts[w.a] = 0 /\ ~ Owned(w.a))'
      <3> SUFFICES ASSUME Lists(v.todo, "prepare")
                   PROVE  (w.a \in Unresolved /\ prompts[w.a] = 0 /\ ~ Owned(w.a))'
        OBVIOUS
      <3>1. w.a \in Unresolved /\ prompts[w.a] = 0 /\ ~ Owned(w.a)
        BY <1>1 DEF ClientInv, SendInv, q
      <3>2. ~ Owned(w.a)'
        <4>1. w.a # 0
          BY <3>1, NumbersFacts DEF Unresolved, Requested
        <4> QED
          BY <4>1, <3>1, <1>1, <1>5 DEF h
      <3>3. Unresolved' = Unresolved
        BY DEF Unresolved, Requested, Has
      <3> QED
        BY <3>1, <3>2, <3>3
    <2>3. Lists(v.todo, "acceptTurn") /\ ~ Lists(v.todo, "check") => Past(v)'
      <3> SUFFICES ASSUME Lists(v.todo, "acceptTurn"), ~ Lists(v.todo, "check") PROVE Past(v)'
        OBVIOUS
      <3>1. Past(w)
        BY <1>1 DEF ClientInv, SendInv, q, h
      <3>2. /\ Lists(v.todo, "sent") <=> Lists(q, "sent")
            /\ Lists(v.todo, "accept") <=> Lists(q, "accept")
            /\ Lists(v.todo, "prompt") => Lists(q, "prompt")
        BY <1>1 DEF h
      <3>3. Unresolved' = Unresolved
        BY DEF Unresolved, Requested, Has
      <3> QED
        BY <3>1, <3>2, <3>3 DEF Past, IsPending, Has, q
    <2> QED
      BY <2>1, <2>2, <2>3 DEF SendInv
  <1>8. DrainInv(v)'
    <2>1. Lists(v.todo, "acceptTurn") <=> Lists(q, "acceptTurn")
      BY <1>1 DEF h
    <2>2. Accepted(w.a)' <=> Accepted(w.a)
      BY DEF Accepted, Unresolved, Requested, Has
    <2>3. Lists(v.todo, "drain") /\ ~ Lists(v.todo, "acceptTurn") =>
            /\ Only(v.todo, {"publish", "drain", "await", "mark", "remove"})
            /\ Lists(v.todo, "mark") => committed'[v.a] # None
            /\ v.a \in Attempts /\ Accepted(v.a)'
      BY <1>1, <2>1, <2>2 DEF ClientInv, DrainInv, q
    <2>4. Lists(v.todo, "publish") => Lists(v.todo, "drain") /\ ~ Lists(v.todo, "acceptTurn")
      <3> SUFFICES ASSUME Lists(v.todo, "publish")
                   PROVE  Lists(v.todo, "drain") /\ ~ Lists(v.todo, "acceptTurn")
        OBVIOUS
      <3>1. Lists(q, "publish")
        BY <1>1
      <3>2. Lists(q, "drain") /\ ~ Lists(q, "acceptTurn") /\ Ahead(q, "publish", "drain")
        BY <3>1 DEF ClientInv, DrainInv, q
      <3>3. h # "drain"
        BY <3>1, <3>2, <1>1
      <3> QED
        BY <3>2, <3>3, <1>1
    <2>5. Ahead(v.todo, "publish", "drain")
      BY <1>1 DEF ClientInv, DrainInv, q
    <2> QED
      BY <2>3, <2>4, <2>5 DEF DrainInv
  <1>9. RemoveInv(v)'
    <2>1. RemoveInv(w)
      BY DEF ClientInv
    <2>2. CASE h = "register"
      <3>1. Ordered(v.todo)
        BY <1>3, <1>4, <2>2
      <3>2. Only(v.todo, Sending \cup {"acceptTurn", "drain", "await"})
        BY <3>1 DEF Ordered
      <3>3. \A s \in {"settle", "fail", "failNative", "remove", "observe", "rebuild"} : ~ Lists(v.todo, s)
        BY <3>2 DEF Only, Lists, Sending
      <3>4. Ahead(v.todo, "remove", "await") /\ Ahead(v.todo, "remove", "rebuild")
        BY <3>3 DEF Ahead, Lists
      <3> QED
        BY <3>3, <3>4 DEF RemoveInv
    <2>3. CASE h # "register"
      <3>1. Held(v)' => Held(w) /\ h # "remove"
        BY <1>6, <2>3 DEF h
      <3>2. ASSUME NEW s \in {"settle", "fail", "failNative"}, Lists(v.todo, s), Held(v)'
            PROVE  Lists(v.todo, "remove")
        BY <3>1, <3>2, <1>1, <2>1 DEF RemoveInv, q
      <3>3. Lists(v.todo, "remove") /\ Lists(v.todo, "settle") /\ Held(v)' =>
               committed[w.a] = None /\ ~ Has("turnAccepted", w.a)
        BY <3>1, <1>1, <2>1 DEF RemoveInv, q, h
      <3>4. Lists(v.todo, "remove") /\ Lists(v.todo, "observe") => ~ Held(v)'
        BY <3>1, <1>1, <2>1 DEF RemoveInv, q, h
      <3>5. Lists(v.todo, "observe") =>
              Once(v.todo) /\ Only(v.todo, {"remove", "observe", "clear", "rebuild"})
        BY <1>1, <1>2, <2>1 DEF RemoveInv, q
      <3>6. Ahead(v.todo, "remove", "await") /\ Ahead(v.todo, "remove", "rebuild")
        BY <1>1, <2>1 DEF RemoveInv, q
      <3>7. Lists(v.todo, "remove") /\ Lists(v.todo, "settle") /\ Held(v)' =>
               (committed[v.a] = None /\ ~ Has("turnAccepted", v.a))'
        BY <3>3 DEF Has
      <3>8. /\ Lists(v.todo, "settle") =>
                  Single(v.todo, "settle") /\ Only(v.todo, {"remove", "settle", "clear"})
            /\ Lists(v.todo, "fail") \/ Lists(v.todo, "failNative") =>
                  Only(v.todo, {"fail", "failNative", "mark", "remove"})
        BY <1>1, <1>2, <2>1 DEF RemoveInv, q
      <3> QED
        BY <3>2, <3>4, <3>5, <3>6, <3>7, <3>8 DEF RemoveInv
    <2> QED
      BY <2>2, <2>3
  <1> QED
    BY <1>7, <1>8, <1>9 DEF ClientInv

\* What short lists contain.
LEMMA ListsOf ==
    /\ \A x, s : Lists(<<x>>, s) <=> s = x
    /\ \A x, y, s : Lists(<<x, y>>, s) <=> s \in {x, y}
    /\ \A x, y, z, s : Lists(<<x, y, z>>, s) <=> s \in {x, y, z}
    /\ \A x, y, z, u, s : Lists(<<x, y, z, u>>, s) <=> s \in {x, y, z, u}
  <1>1. ASSUME NEW x, NEW s PROVE Lists(<<x>>, s) <=> s = x
    <2> SUFFICES ASSUME NEW n, n = <<x>> PROVE Lists(n, s) <=> s = x
      OBVIOUS
    <2>1. Len(n) = 1 /\ n[1] = x
      OBVIOUS
    <2> QED
      BY <2>1 DEF Lists
  <1>2. ASSUME NEW x, NEW y, NEW s PROVE Lists(<<x, y>>, s) <=> s \in {x, y}
    <2> SUFFICES ASSUME NEW n, n = <<x, y>> PROVE Lists(n, s) <=> s \in {x, y}
      OBVIOUS
    <2>1. Len(n) = 2 /\ n[1] = x /\ n[2] = y
      OBVIOUS
    <2> QED
      BY <2>1 DEF Lists
  <1>3. ASSUME NEW x, NEW y, NEW z, NEW s PROVE Lists(<<x, y, z>>, s) <=> s \in {x, y, z}
    <2> SUFFICES ASSUME NEW n, n = <<x, y, z>> PROVE Lists(n, s) <=> s \in {x, y, z}
      OBVIOUS
    <2>1. Len(n) = 3 /\ n[1] = x /\ n[2] = y /\ n[3] = z
      OBVIOUS
    <2> QED
      BY <2>1 DEF Lists
  <1>4. ASSUME NEW x, NEW y, NEW z, NEW u, NEW s PROVE Lists(<<x, y, z, u>>, s) <=> s \in {x, y, z, u}
    <2> SUFFICES ASSUME NEW n, n = <<x, y, z, u>> PROVE Lists(n, s) <=> s \in {x, y, z, u}
      OBVIOUS
    <2>1. Len(n) = 4 /\ n[1] = x /\ n[2] = y /\ n[3] = z /\ n[4] = u
      OBVIOUS
    <2> QED
      BY <2>1 DEF Lists
  <1> QED
    BY <1>1, <1>2, <1>3, <1>4

\* The lists an error leaves.
LEMMA BreakLists ==
    /\ \A x : Lists(<<"fail">>, x) <=> x = "fail"
    /\ \A x : Lists(Ambiguous, x) <=> x = "mark"
    /\ \A x : Lists(NotAccepted, x) <=> x \in {"fail", "remove"}
    /\ \A x : Lists(<<"failNative", "remove">>, x) <=> x \in {"failNative", "remove"}
    /\ \A x : Lists(<<"failNative", "mark", "remove">>, x) <=> x \in {"failNative", "mark", "remove"}
  <1>1. \A x : Lists(<<"fail">>, x) <=> x = "fail"
    BY ListsOf
  <1>2. \A x : Lists(Ambiguous, x) <=> x = "mark"
    BY ListsOf DEF Ambiguous
  <1>3. \A x : Lists(NotAccepted, x) <=> x \in {"fail", "remove"}
    BY ListsOf DEF NotAccepted
  <1>4. \A x : Lists(<<"failNative", "remove">>, x) <=> x \in {"failNative", "remove"}
    BY ListsOf
  <1>5. \A x : Lists(<<"failNative", "mark", "remove">>, x) <=> x \in {"failNative", "mark", "remove"}
    BY ListsOf
  <1> QED
    BY <1>1, <1>2, <1>3, <1>4, <1>5

\* One list after another one.
After(n, r, t) ==
    /\ t \in Seq(Steps)
    /\ \A s : Lists(t, s) <=> Lists(n, s) \/ Lists(r, s)
    /\ \A x, y : ~ Lists(n, y) /\ Ahead(r, x, y) => Ahead(t, x, y)

\* The order of a joined list is that of its parts.
LEMMA JoinAfter ==
    ASSUME NEW n \in Seq(Steps), NEW r \in Seq(Steps)
    PROVE  After(n, r, n \o r)
  <1>1. n \o r \in Seq(Steps)
    BY JoinFacts
  <1>2. \A s : Lists(n \o r, s) => Lists(n, s) \/ Lists(r, s)
    BY JoinFacts
  <1>3. \A s : Lists(r, s) => Lists(n \o r, s)
    BY JoinFacts
  <1>4. \A s : Lists(n, s) => Lists(n \o r, s)
    BY JoinOrder
  <1>5. \A x, y : ~ Lists(n, y) /\ Ahead(r, x, y) => Ahead(n \o r, x, y)
    BY JoinOrder
  <1> QED
    BY <1>1, <1>2, <1>3, <1>4, <1>5 DEF After

\* To contain nothing but steps of a set.
LEMMA OnlyLists == \A t, S : Only(t, S) <=> \A s : Lists(t, s) => s \in S
  BY DEF Only, Lists

\* Behind the end of a turn: a flag and a removal, then the rest.
LEMMA SettledClient ==
    ASSUME NEW w, w.todo \in Seq(Steps), w.todo # <<>>, ClientInv(w),
           Head(w.todo) \in {"observe", "publish"},
           NEW n, \A s : Lists(n, s) => s \in {"mark", "remove"},
           NEW v, After(n, Tail(w.todo), v.todo), v.a = w.a,
           Lists(n, "mark") => committed'[w.a] # None,
           \A x : committed[x] # None => committed'[x] # None,
           Accepted(w.a) => Accepted(w.a)'
    PROVE  ClientInv(v)'
  <1> DEFINE q == w.todo
             r == Tail(w.todo)
             h == Head(w.todo)
             t == v.todo
  <1>1. /\ \A s : Lists(r, s) => Lists(q, s)
        /\ \A s : Lists(q, s) /\ h # s => Lists(r, s)
        /\ \A x, y : Ahead(q, x, y) => Ahead(r, x, y)
        /\ Lists(q, h)
    BY RestFacts
  <1>2. Once(q) => ~ Lists(r, h)
    BY RestOrder
  <1>3. /\ \A s : Lists(t, s) <=> Lists(n, s) \/ Lists(r, s)
        /\ \A x, y : ~ Lists(n, y) /\ Ahead(r, x, y) => Ahead(t, x, y)
    BY DEF After
  <1>4. SendInv(w) /\ DrainInv(w) /\ RemoveInv(w)
    BY DEF ClientInv
  <1> HIDE DEF q, h, r, t
  <1>5. /\ Ahead(t, "remove", "await") /\ Ahead(t, "remove", "rebuild")
        /\ Ahead(t, "publish", "drain")
    BY <1>1, <1>3, <1>4 DEF RemoveInv, DrainInv, q
  <1>6. CASE h = "observe"
    <2>1. Once(q) /\ Only(q, {"remove", "observe", "clear", "rebuild"})
      BY <1>1, <1>4, <1>6 DEF RemoveInv, q
    <2>2. ~ Lists(r, "observe") /\ \A s : Lists(q, s) => s \in {"remove", "observe", "clear", "rebuild"}
      BY <1>2, <1>6, <2>1, OnlyLists
    <2>3. \A s : Lists(t, s) => s \in {"mark", "remove", "clear", "rebuild"}
      BY <1>1, <1>3, <2>2
    <2>4. RemoveInv(v)'
      BY <1>5, <2>3 DEF RemoveInv, t
    <2> QED
      BY <2>3, <2>4, EndOfSend DEF Sending, t
  <1>7. CASE h = "publish"
    <2>1. /\ Lists(q, "drain") /\ ~ Lists(q, "acceptTurn")
          /\ Only(q, {"publish", "drain", "await", "mark", "remove"})
          /\ Lists(q, "mark") => committed[w.a] # None
          /\ w.a \in Attempts /\ Accepted(w.a)
      BY <1>1, <1>4, <1>7 DEF DrainInv, q
    <2>2. \A s : Lists(q, s) => s \in {"publish", "drain", "await", "mark", "remove"}
      BY <2>1, OnlyLists
    <2>3. \A s : Lists(t, s) => s \in {"publish", "drain", "await", "mark", "remove"}
      BY <2>2, <1>1, <1>3
    <2>4. Lists(t, "drain") /\ Only(t, {"publish", "drain", "await", "mark", "remove"})
      BY <2>1, <2>3, <1>1, <1>3, <1>7, OnlyLists
    <2>5. SendInv(v)'
      BY <2>3 DEF SendInv, Sending, t
    <2>6. Lists(t, "mark") => committed'[w.a] # None
      BY <2>1, <1>1, <1>3
    <2>7. v.a \in Attempts /\ Accepted(v.a)'
      BY <2>1
    <2>8. DrainInv(v)'
      BY <2>3, <2>4, <2>6, <2>7, <1>5 DEF DrainInv, t
    <2>9. RemoveInv(v)'
      BY <1>5, <2>3 DEF RemoveInv, t
    <2> QED
      BY <2>5, <2>8, <2>9 DEF ClientInv
  <1> QED
    BY <1>6, <1>7 DEF h

-----------------------------------------------------------------------------
(***************************************************************************)
(* Who is alone.                                                           *)
(***************************************************************************)
\* A window with a step to do that is neither late nor the repetition of a
\* dispatch leaves nothing to the event path.
LEMMA WindowAlone ==
    ASSUME WindowInv, NEW c \in Clients, NEW s, Lists(procs[c].todo, s),
           s \notin Late \cup {"fail"}, Head(procs[c].todo) # "check"
    PROVE  \A b \in Attempts : ~ Shared(b)
  <1> SUFFICES ASSUME NEW b \in Attempts, Shared(b) PROVE FALSE
    OBVIOUS
  <1> DEFINE w == procs[c]
  <1>1. Sharing(w, b)
    BY DEF WindowInv, SharedInv
  <1> HIDE DEF w
  <1>2. Lists(w.todo, s)
    BY DEF w
  <1>3. w.todo # <<>>
    BY <1>2, EmptyList
  <1>4. ~ Finishing(w, b)
    BY <1>2, OnlyLists DEF Finishing
  <1>5. ~ Repeating(w)
    <2>1. ~ Only(w.todo, {"fail", "remove"})
      BY <1>2, OnlyLists DEF Late
    <2> QED
      BY <2>1 DEF Repeating, w
  <1> QED
    BY <1>1, <1>3, <1>4, <1>5 DEF Sharing

\* Then the event path is idle.
LEMMA ObserverIdle ==
    ASSUME TurnInv, WindowInv, \A b \in Attempts : ~ Shared(b)
    PROVE  IsIdle("observer") /\ procs["observer"].cmd = None
  <1>1. procs["observer"].todo = <<>>
    BY DEF WindowInv, ObserverInv, Publishing, Shared, Works
  <1>2. "observer" \in Procs
    BY DEF Procs
  <1>3. Fits(procs["observer"])
    BY <1>2 DEF TurnInv
  <1> QED
    BY <1>1, <1>3 DEF Fits, Computed, IsIdle

\* A window in the middle of a send is alone, and has nothing to remove.
LEMMA SendingAlone ==
    ASSUME TurnInv, WindowInv, NEW c \in Clients, NEW s \in Sending \cup {"acceptTurn"}, IsAt(c, s)
    PROVE  /\ Ordered(procs[c].todo) /\ ~ Lists(procs[c].todo, "remove")
           /\ s # "check" => \A b \in Attempts : ~ Shared(b)
  <1>1. c \in Procs
    BY DEF Procs
  <1>2. Lists(procs[c].todo, s) /\ Head(procs[c].todo) = s
    BY <1>1, AtFacts
  <1>3. Ordered(procs[c].todo)
    BY <1>2 DEF WindowInv, ClientInv, SendInv
  <1>4. ~ Lists(procs[c].todo, "remove")
    BY <1>3, OnlyLists DEF Ordered, Sending
  <1>5. s \notin Late \cup {"fail"}
    BY DEF Late, Sending
  <1> QED
    BY <1>2, <1>3, <1>4, <1>5, WindowAlone

-----------------------------------------------------------------------------
(***************************************************************************)
(* Steps that write neither the log nor the row.                           *)
(***************************************************************************)
\* What speaks of the log, the row and the commands stays.
LEMMA LogStays ==
    ASSUME TurnInv, TurnInv', RowInv, NumInv, SentOnce,
           UNCHANGED <<facts, committed, genOf, row, prompts>>, gens' >= gens
    PROVE  /\ RowInv' /\ NumInv' /\ SentOnce'
           /\ \A w : w.cmd \in Cmd \cup {None} /\ CmdInv(w) => CmdInv(w)'
           /\ Unresolved' = Unresolved
           /\ \A b : Accepted(b)' <=> Accepted(b)
  <1>1. Requested' = Requested /\ Unresolved' = Unresolved
    BY DEF Requested, Unresolved, Has
  <1>2. gens \in Nat /\ gens' \in Nat /\ row \in BindingRow \cup {None}
    BY DEF TurnInv, LogInv
  <1>3. \A r : OpenFor(r)' <=> OpenFor(r)
    BY <1>1 DEF OpenFor
  <1>4. \A r : Earned(r)' <=> Earned(r)
    BY DEF Earned, Has
  <1>5. \A r, a, f : Follows(r, a, f)' <=> Follows(r, a, f)
    BY DEF Follows, Has
  <1>6. \A s, a, k : Written(s, a, k)' <=> Written(s, a, k)
    <2> SUFFICES ASSUME NEW s, NEW a, NEW k PROVE Written(s, a, k)' <=> Written(s, a, k)
      OBVIOUS
    <2>1. Same(k.row)' <=> Same(k.row)
      BY DEF Same
    <2>2. Later(k.row)' <=> Later(k.row)
      BY DEF Later
    <2> QED
      BY <1>1, <2>1, <2>2 DEF Written
  <1>7. ASSUME NEW r \in BindingRow, r.gen <= gens PROVE r.gen <= gens'
    <2>1. r.gen \in Generations
      BY DEF BindingRow
    <2>2. r.gen \in Nat
      BY <2>1, NumbersFacts
    <2> QED
      BY <2>2, <1>2, <1>7
  <1>8. RowInv'
    BY <1>1, <1>2, <1>3, <1>4, <1>5, <1>7 DEF RowInv, IsCurrent
  <1>9. NumInv'
    BY <1>1 DEF NumInv
  <1>10. SentOnce'
    BY DEF SentOnce
  <1>11. ASSUME NEW w, w.cmd \in Cmd \cup {None}, CmdInv(w) PROVE CmdInv(w)'
    <2>1. w.cmd # None => w.cmd.row \in BindingRow
      BY <1>11 DEF Cmd
    <2> QED
      BY <2>1, <1>11, <1>3, <1>4, <1>5, <1>6, <1>7 DEF CmdInv
  <1>12. \A b : Accepted(b)' <=> Accepted(b)
    BY <1>1 DEF Accepted, Has
  <1> QED
    BY <1>1, <1>8, <1>9, <1>10, <1>11, <1>12

\* A window whose list does not change.
LEMMA ClientStays ==
    ASSUME NEW w, ClientInv(w), UNCHANGED <<facts, committed, genOf, row, prompts>>,
           w.a # 0 => (Owned(w.a)' => Owned(w.a))
    PROVE  ClientInv(w)'
  <1>1. Unresolved' = Unresolved
    BY DEF Unresolved, Requested, Has
  <1>2. Held(w)' => Held(w)
    BY DEF Held
  <1>3. SendInv(w)'
    <2>1. w.a \in Unresolved => w.a # 0
      BY NumbersFacts DEF Unresolved, Requested
    <2>2. Past(w) => Past(w)'
      BY <1>1 DEF Past, IsPending, Has
    <2>3. w.a \in Unresolved /\ ~ Owned(w.a) => ~ Owned(w.a)'
      BY <2>1
    <2> QED
      BY <2>2, <2>3, <1>1 DEF ClientInv, SendInv
  <1>4. DrainInv(w)'
    BY <1>1 DEF ClientInv, DrainInv, Accepted, Has
  <1>5. RemoveInv(w)'
    BY <1>2 DEF ClientInv, RemoveInv, Has
  <1> QED
    BY <1>3, <1>4, <1>5 DEF ClientInv

\* A step of one process.
Moves(p, v) == procs'[p] = v /\ \A q \in Procs : q # p => procs'[q] = procs[q]

\* What every step starts from.
Both == TurnInv /\ TurnInv' /\ OneWindow /\ WindowInv

\* The window goes on.
LEMMA ClientMoves ==
    ASSUME TurnInv, TurnInv', OneWindow, WindowInv, NEW c \in Clients, NEW v,
           Moves(c, v),
           UNCHANGED <<facts, committed, genOf, row, prompts>>, gens' >= gens,
           ClientInv(v)', CmdInv(v)',
           \A b \in Attempts : Shared(b)' => Accepted(b) /\ Sharing(v, b),
           \A b \in Attempts : Owned(b)' /\ committed[b] # None =>
              Owned(b) /\ (Removes(c, b) => v.a = b /\ Lists(v.todo, "remove"))
    PROVE  WindowInv'
  <1>1. c \in Procs /\ "observer" \in Procs /\ c # "observer" /\ procs \in [Procs -> Process]
    BY TurnAssumption DEF Procs, TurnInv
  <1>2. procs'[c] = v /\ \A p \in Procs : p # c => procs'[p] = procs[p]
    BY DEF Moves
  <1>3. procs'["observer"] = procs["observer"]
    BY <1>1, <1>2
  <1>4. \A d \in Clients : procs'[d] = v
    BY <1>2 DEF OneWindow
  <1>5. /\ RowInv' /\ NumInv' /\ SentOnce'
        /\ \A w : w.cmd \in Cmd \cup {None} /\ CmdInv(w) => CmdInv(w)'
        /\ \A b : Accepted(b)' <=> Accepted(b)
    BY LogStays DEF WindowInv
  <1>6. SharedInv'
    <2> SUFFICES ASSUME NEW b \in Attempts, Shared(b)'
                 PROVE  Accepted(b)' /\ \A d \in Clients : Sharing(procs[d], b)'
      BY DEF SharedInv
    <2>1. Accepted(b) /\ Sharing(v, b)
      OBVIOUS
    <2>2. Sharing(v, b)'
      BY <2>1 DEF Sharing, Finishing, Repeating, Has
    <2>3. \A d \in Clients : Sharing(procs[d], b)'
      BY <1>4, <2>2 DEF Sharing, Finishing, Repeating
    <2> QED
      BY <2>1, <2>3, <1>5
  <1>7. OwnedInv'
    <2> SUFFICES ASSUME NEW b \in Attempts, Owned(b)', committed'[b] # None
                 PROVE  \E p \in Procs : Removes(p, b)'
      BY DEF OwnedInv
    <2>1. Owned(b) /\ (Removes(c, b) => v.a = b /\ Lists(v.todo, "remove"))
      OBVIOUS
    <2>2. PICK p \in Procs : Removes(p, b)
      BY <2>1 DEF WindowInv, OwnedInv
    <2>3. CASE p = c
      BY <2>1, <2>2, <2>3, <1>1, <1>2 DEF Removes
    <2>4. CASE p # c
      BY <2>2, <2>4, <1>2 DEF Removes
    <2> QED
      BY <2>3, <2>4
  <1>8. ObserverInv'
    BY <1>3 DEF WindowInv, ObserverInv, Publishing
  <1>9. \A d \in Clients : ClientInv(procs[d])'
    <2>1. ASSUME NEW d \in Clients, NEW m, m = procs'[d] PROVE ClientInv(m)'
      BY <2>1, <1>4
    <2> QED
      BY <2>1 DEF ClientInv, SendInv, DrainInv, RemoveInv, Past, Held, IsBeginning
  <1>10. \A p \in Procs : CmdInv(procs[p])'
    <2> SUFFICES ASSUME NEW p \in Procs, NEW m, m = procs'[p] PROVE CmdInv(m)'
      BY DEF CmdInv
    <2>1. CASE p = c
      BY <2>1, <1>2
    <2>2. CASE p # c
      <3>1. m = procs[p] /\ procs[p].cmd \in Cmd \cup {None} /\ CmdInv(procs[p])
        BY <2>2, <1>1, <1>2 DEF WindowInv, Process
      <3>2. CmdInv(m) /\ m.cmd \in Cmd \cup {None}
        BY <3>1
      <3> QED
        BY <3>2, <1>5
    <2> QED
      BY <2>1, <2>2
  <1> QED
    BY <1>5, <1>6, <1>7, <1>8, <1>9, <1>10 DEF WindowInv

\* The event path goes on.
LEMMA ObserverMoves ==
    ASSUME TurnInv, TurnInv', WindowInv, NEW v,
           Moves("observer", v),
           UNCHANGED <<facts, committed, genOf, row, prompts>>, gens' >= gens,
           Publishing(v)', CmdInv(v)',
           \A b \in Attempts : Owned(b)' => Owned(b),
           \A b \in Attempts : Shared(b)' => Shared(b),
           \A b \in Attempts : Owned(b)' /\ committed[b] # None /\ Removes("observer", b) =>
              v.a = b /\ Lists(v.todo, "remove")
    PROVE  WindowInv'
  <1>1. "observer" \in Procs /\ procs \in [Procs -> Process]
    BY DEF Procs, TurnInv
  <1>2. procs'["observer"] = v /\ \A p \in Procs : p # "observer" => procs'[p] = procs[p]
    BY DEF Moves
  <1>3. \A d \in Clients : d \in Procs /\ procs'[d] = procs[d]
    BY <1>2, TurnAssumption DEF Procs
  <1>4. /\ RowInv' /\ NumInv' /\ SentOnce'
        /\ \A w : w.cmd \in Cmd \cup {None} /\ CmdInv(w) => CmdInv(w)'
        /\ \A b : Accepted(b)' <=> Accepted(b)
    BY LogStays DEF WindowInv
  <1>5. SharedInv'
    <2> SUFFICES ASSUME NEW b \in Attempts, Shared(b)'
                 PROVE  Accepted(b)' /\ \A d \in Clients : Sharing(procs[d], b)'
      BY DEF SharedInv
    <2>1. Shared(b)
      OBVIOUS
    <2>2. Accepted(b) /\ \A d \in Clients : Sharing(procs[d], b)
      BY <2>1 DEF WindowInv, SharedInv
    <2>3. \A d \in Clients : Sharing(procs[d], b)'
      BY <1>3, <2>2 DEF Sharing, Finishing, Repeating, Has
    <2> QED
      BY <2>2, <2>3, <1>4
  <1>6. OwnedInv'
    <2> SUFFICES ASSUME NEW b \in Attempts, Owned(b)', committed'[b] # None
                 PROVE  \E p \in Procs : Removes(p, b)'
      BY DEF OwnedInv
    <2>1. PICK p \in Procs : Removes(p, b)
      BY DEF WindowInv, OwnedInv
    <2>2. CASE p = "observer"
      BY <2>1, <2>2, <1>1, <1>2 DEF Removes
    <2>3. CASE p # "observer"
      BY <2>1, <2>3, <1>2 DEF Removes
    <2> QED
      BY <2>2, <2>3
  <1>7. ObserverInv'
    BY <1>2 DEF ObserverInv, Publishing
  <1>8. \A d \in Clients : ClientInv(procs[d])'
    <2>1. ASSUME NEW d \in Clients, NEW m, m = procs[d] PROVE ClientInv(m)'
      <3>1. ClientInv(m) /\ m.a \in Attempts \cup {0}
        BY <2>1, <1>1 DEF WindowInv, Procs, Process
      <3> QED
        BY <3>1, ClientStays
    <2> QED
      BY <2>1, <1>3 DEF ClientInv, SendInv, DrainInv, RemoveInv, Past, Held, IsBeginning
  <1>9. \A p \in Procs : CmdInv(procs[p])'
    <2> SUFFICES ASSUME NEW p \in Procs, NEW m, m = procs'[p] PROVE CmdInv(m)'
      BY DEF CmdInv
    <2>1. CASE p = "observer"
      BY <2>1, <1>2
    <2>2. CASE p # "observer"
      <3>1. m = procs[p] /\ procs[p].cmd \in Cmd \cup {None} /\ CmdInv(procs[p])
        BY <2>2, <1>1, <1>2 DEF WindowInv, Process
      <3>2. CmdInv(m) /\ m.cmd \in Cmd \cup {None}
        BY <3>1
      <3> QED
        BY <3>2, <1>4
    <2> QED
      BY <2>1, <2>2
  <1> QED
    BY <1>4, <1>5, <1>6, <1>7, <1>8, <1>9 DEF WindowInv

\* A process goes to other steps, or computes a command.
LEMMA WentTo ==
    ASSUME TurnInv, NEW p \in Procs, NEW n, GoTo(p, n)
    PROVE  \E v : /\ Moves(p, v) /\ v.todo = n /\ v.cmd = None
                  /\ IF n = <<>> THEN v = Idle
                     ELSE v.a = procs[p].a /\ v.snap = procs[p].snap /\ v.transfer = procs[p].transfer
  <1> DEFINE v == IF n = <<>> THEN Idle ELSE [procs[p] EXCEPT !.todo = n, !.cmd = None]
  <1>1. procs \in [Procs -> Process]
    BY DEF TurnInv
  <1>2. Moves(p, v)
    BY <1>1 DEF GoTo, Moves
  <1>3. CASE n = <<>>
    BY <1>2, <1>3 DEF Idle
  <1>4. CASE n # <<>>
    <2>1. procs[p] \in Process
      BY <1>1
    <2>2. /\ v.todo = n /\ v.cmd = None
          /\ v.a = procs[p].a /\ v.snap = procs[p].snap /\ v.transfer = procs[p].transfer
      BY <1>4, <2>1 DEF Process
    <2> HIDE DEF v
    <2> QED
      BY <1>2, <1>4, <2>2
  <1> QED
    BY <1>3, <1>4

\* To compute a command leaves the process at its step.
LEMMA Issued ==
    ASSUME TurnInv, NEW p \in Procs, NEW k, Issue(p, k)
    PROVE  \E v : /\ Moves(p, v) /\ v.todo = procs[p].todo /\ v.cmd = k
                  /\ v.a = procs[p].a /\ v.snap = procs[p].snap /\ v.transfer = procs[p].transfer
  <1> DEFINE v == [procs[p] EXCEPT !.cmd = k]
  <1>1. procs \in [Procs -> Process]
    BY DEF TurnInv
  <1>2. procs[p] \in Process
    BY <1>1
  <1>3. Moves(p, v)
    BY <1>1 DEF Issue, Moves
  <1>4. /\ v.todo = procs[p].todo /\ v.cmd = k
        /\ v.a = procs[p].a /\ v.snap = procs[p].snap /\ v.transfer = procs[p].transfer
    BY <1>2 DEF Process
  <1> HIDE DEF v
  <1> QED
    BY <1>3, <1>4

\* A command changes nothing about the list it is computed for.
LEMMA IssuedClient ==
    ASSUME NEW w, ClientInv(w), w.cmd = None, NEW v, v.todo = w.todo, v.a = w.a,
           v.cmd = None \/ v.cmd.fact # "turnRequested",
           UNCHANGED <<facts, committed, genOf, row, prompts>>, Owned(w.a)' => Owned(w.a)
    PROVE  ClientInv(v)'
  <1>1. ClientInv(w)'
    BY ClientStays
  <1>2. ~ IsBeginning(w) /\ ~ IsBeginning(v)
    BY DEF IsBeginning
  <1>3. SendInv(v)'
    BY <1>1, <1>2 DEF ClientInv, SendInv, Past, IsBeginning
  <1>4. DrainInv(v)'
    BY <1>1 DEF ClientInv, DrainInv
  <1>5. RemoveInv(v)'
    BY <1>1 DEF ClientInv, RemoveInv, Held
  <1> QED
    BY <1>3, <1>4, <1>5 DEF ClientInv

\* The window goes on, and is alone.
LEMMA AloneMoves ==
    ASSUME Both, NEW c \in Clients, NEW v, Moves(c, v),
           UNCHANGED <<facts, committed, genOf, row, prompts, owner>>, gens' >= gens,
           ClientInv(v)', CmdInv(v)', \A b \in Attempts : ~ Shared(b),
           Lists(procs[c].todo, "remove") =>
              v.a = procs[c].a /\ Lists(v.todo, "remove")
    PROVE  WindowInv'
  <1>1. procs'["observer"] = procs["observer"]
    BY TurnAssumption DEF Moves, Procs
  <1>2. \A b : Shared(b)' <=> Shared(b)
    BY <1>1 DEF Shared, Free, Works, Owned
  <1>3. \A b : Owned(b)' <=> Owned(b)
    BY DEF Owned
  <1>4. \A b \in Attempts : Owned(b)' /\ committed[b] # None =>
           Owned(b) /\ (Removes(c, b) => v.a = b /\ Lists(v.todo, "remove"))
    BY <1>3 DEF Removes
  <1> QED
    BY <1>2, <1>4, ClientMoves DEF Both

\* In the middle of a send it is.
LEMMA SendingMoves ==
    ASSUME Both, NEW c \in Clients, NEW s \in Sending \cup {"acceptTurn"}, IsAt(c, s), s # "check",
           NEW v, Moves(c, v),
           UNCHANGED <<facts, committed, genOf, row, prompts, owner>>, gens' >= gens,
           ClientInv(v)', CmdInv(v)'
    PROVE  WindowInv'
  <1>1. (\A b \in Attempts : ~ Shared(b)) /\ ~ Lists(procs[c].todo, "remove")
    BY SendingAlone DEF Both
  <1> QED
    BY <1>1, AloneMoves

\* It ends the command, flags the binding, or rejects the turn.
LEMMA SendingBreaks ==
    ASSUME Both, NEW c \in Clients, NEW s \in Sending \cup {"acceptTurn"}, IsAt(c, s), s # "check",
           NEW n, GoTo(c, n), \A x : Lists(n, x) => x \in {"mark", "remove", "fail", "failNative"},
           Lists(n, "fail") \/ Lists(n, "failNative") => Lists(n, "remove") \/ ~ Owned(procs[c].a),
           UNCHANGED <<facts, committed, genOf, row, prompts, owner>>, gens' >= gens
    PROVE  WindowInv'
  <1>1. c \in Procs
    BY DEF Procs
  <1>2. PICK v : /\ Moves(c, v) /\ v.todo = n /\ v.cmd = None
                 /\ IF n = <<>> THEN v = Idle ELSE v.a = procs[c].a
    BY <1>1, WentTo DEF Both
  <1>3. n # <<>> => (Held(v)' => Owned(procs[c].a))
    BY <1>2 DEF Held, Owned
  <1>4. Lists(n, "fail") \/ Lists(n, "failNative") =>
           /\ Lists(n, "remove") \/ ~ Held(v)'
           /\ Only(n, {"fail", "failNative", "mark", "remove"})
    <2>1. Only(n, {"fail", "failNative", "mark", "remove"})
      BY OnlyLists
    <2> QED
      BY <2>1, <1>3, EmptyList
  <1>5. ClientInv(v)'
    <2>1. \A x : Lists(v.todo, x) => x \in Brief
      BY <1>2 DEF Brief
    <2> QED
      BY <2>1, <1>2, <1>4, BriefClient
  <1>6. CmdInv(v)'
    BY <1>2 DEF CmdInv
  <1> QED
    BY <1>2, <1>5, <1>6, SendingMoves

\* It goes on to the next step of the send.
LEMMA SendingRest ==
    ASSUME Both, NEW c \in Clients, NEW s \in Sending, IsAt(c, s),
           s \notin {"begin", "check", "sent", "accept"},
           GoTo(c, Rest(c)),
           UNCHANGED <<facts, committed, genOf, row, prompts, owner>>, gens' >= gens
    PROVE  WindowInv'
  <1>1. c \in Procs
    BY DEF Procs
  <1>2. PICK v : /\ Moves(c, v) /\ v.todo = Rest(c) /\ v.cmd = None
                 /\ IF Rest(c) = <<>> THEN v = Idle ELSE v.a = procs[c].a
    BY <1>1, WentTo DEF Both
  <1> SUFFICES ASSUME NEW w, w = procs[c] PROVE WindowInv'
    OBVIOUS
  <1>3. /\ w \in Process /\ w.todo # <<>> /\ Head(w.todo) = s /\ w.cmd = None
        /\ Rest(c) = Tail(w.todo) /\ ClientInv(w)
    <2>1. w \in Process /\ w.todo # <<>> /\ Head(w.todo) = s /\ w.cmd = None /\ Rest(c) = Tail(w.todo)
      BY <1>1, AtFacts DEF Both
    <2> QED
      BY <2>1 DEF Both, WindowInv
  <1>4. w.todo \in Seq(Steps) /\ ~ IsBeginning(w)
    BY <1>3 DEF Process, IsBeginning
  <1>5. CASE Rest(c) = <<>>
    <2>1. v.todo = <<>>
      BY <1>2, <1>5
    <2>2. ClientInv(v)'
      BY <2>1, EmptyList, BriefClient
    <2> QED
      BY <2>2, <1>2, SendingMoves DEF CmdInv
  <1>6. CASE Rest(c) # <<>>
    <2>1. v.a = w.a /\ v.todo = Tail(w.todo)
      BY <1>2, <1>3, <1>6
    <2>2. Owned(w.a)' => Owned(w.a)
      BY DEF Owned
    <2>3. Head(w.todo) \notin {"begin", "check", "sent", "accept", "acceptTurn"} /\ Head(w.todo) # "remove"
      BY <1>3 DEF Sending
    <2>4. ClientInv(v)'
      BY <2>1, <2>2, <2>3, <1>3, <1>4, RestClient
    <2> QED
      BY <2>4, <1>2, SendingMoves DEF CmdInv
  <1> QED
    BY <1>5, <1>6

\* What stays when neither the log nor the row changes.
LEMMA QuietFacts ==
    ASSUME TurnInv, UNCHANGED <<durable, world>>
    PROVE  UNCHANGED <<facts, committed, genOf, row, prompts>> /\ gens' >= gens /\ gens' = gens
  BY DEF durable, world, TurnInv, LogInv

\* It computes a command.
LEMMA SendingIssues ==
    ASSUME Both, NEW c \in Clients, NEW s \in Sending \cup {"acceptTurn"}, IsAt(c, s), s # "check",
           NEW v, Moves(c, v), v.todo = procs[c].todo, v.a = procs[c].a,
           v.cmd # None => v.cmd.fact # "turnRequested",
           UNCHANGED <<facts, committed, genOf, row, prompts, owner>>, gens' >= gens,
           v.cmd.row.gen <= gens, Earned(v.cmd.row), OpenFor(v.cmd.row),
           Follows(v.cmd.row, v.a, v.cmd.fact), Written(s, v.a, v.cmd)
    PROVE  WindowInv'
  <1>1. c \in Procs
    BY DEF Procs
  <1>2. CmdInv(v)'
    <2>1. Head(v.todo) = s
      BY DEF IsAt
    <2>2. CmdInv(v)
      BY <2>1 DEF CmdInv
    <2>3. v \in Process
      BY <1>1 DEF Both, TurnInv, Moves
    <2> QED
      BY <2>2, <2>3, LogStays DEF Both, WindowInv, Process
  <1>3. ClientInv(v)'
    <2> SUFFICES ASSUME NEW w, w = procs[c] PROVE ClientInv(v)'
      OBVIOUS
    <2>1. ClientInv(w) /\ w.cmd = None
      BY DEF Both, WindowInv, IsAt
    <2>2. Owned(w.a)' => Owned(w.a)
      BY DEF Owned
    <2> QED
      BY <2>1, <2>2, IssuedClient
  <1> QED
    BY <1>2, <1>3, SendingMoves

\* Only publish, mark and remove are steps of the event path.
LEMMA ActsForWindow ==
    ASSUME TurnInv, WindowInv, NEW p \in Procs, NEW s, IsAt(p, s), s \notin {"publish", "mark", "remove"}
    PROVE  p \in Clients
  <1>1. Lists(procs[p].todo, s) /\ procs[p].todo # <<>>
    BY AtFacts
  <1>2. p # "observer"
    BY <1>1, OnlyLists DEF WindowInv, ObserverInv, Publishing
  <1> QED
    BY <1>2 DEF Procs

\* A row that keeps what the row has, but for the state and the trust.
Kept(r) ==
    /\ r.gen = row.gen /\ r.pending = row.pending
    /\ r.accepted = row.accepted /\ r.committed = row.committed
    /\ row.native => r.native

\* A row that keeps the cursors, the generation and the session fits as before.
LEMMA KeptRow ==
    ASSUME TurnInv, WindowInv, row # None, NEW r \in BindingRow, Kept(r), NEW a, NEW f
    PROVE  /\ r.gen <= gens /\ OpenFor(r) /\ Follows(r, a, f) /\ Same(r)
           /\ (r.trusted => row.trusted) => Earned(r)
           /\ r.pending = row.pending
  <1>1. OpenFor(row) /\ Earned(row) /\ Follows(row, 0, None) /\ row.gen <= gens
    BY DEF WindowInv, RowInv
  <1>2. OpenFor(r)
    BY <1>1 DEF OpenFor, Kept
  <1>3. Follows(r, a, f)
    <2>1. row.committed # 0 => committed[row.committed] # None
      BY <1>1 DEF Follows
    <2>2. row.accepted # 0 => genOf[row.accepted] = row.gen /\ Has("deliveryAccepted", row.accepted)
      BY <1>1 DEF Follows
    <2>3. row.committed <= row.accepted
      BY <1>1 DEF Follows
    <2> QED
      BY <2>1, <2>2, <2>3 DEF Follows, Kept
  <1>4. (r.trusted => row.trusted) => Earned(r)
    BY <1>1 DEF Earned, Kept
  <1> QED
    BY <1>1, <1>2, <1>3, <1>4 DEF Kept, Same

-----------------------------------------------------------------------------
(***************************************************************************)
(* The steps of a send, up to the prompt.                                  *)
(***************************************************************************)
\* The delivery is prepared, or the turn fails.
LEMMA PrepareWindow == ASSUME Both, NEW p \in Procs, Prepare(p) PROVE WindowInv'
  <1> DEFINE a == procs[p].a
  <1>1. IsAt(p, "prepare")
    BY DEF Prepare
  <1>2. p \in Clients
    BY <1>1, ActsForWindow DEF Both
  <1>3. UNCHANGED <<facts, committed, genOf, row, prompts, owner>> /\ gens' >= gens
    <2>1. UNCHANGED <<durable, owner, world>>
      BY DEF Prepare
    <2> QED
      BY <2>1, QuietFacts DEF Both
  <1>4. /\ row \in BindingRow /\ row # None /\ a \in Attempts
        /\ procs[p] \in Process /\ procs[p].cmd = None /\ Lists(procs[p].todo, "prepare")
    BY <1>1, AtFacts DEF Both
  <1>5. a \in Unresolved /\ prompts[a] = 0 /\ ~ Owned(a)
    BY <1>2, <1>4 DEF Both, WindowInv, ClientInv, SendInv, IsBeginning
  <1>6. CASE GoTo(p, <<"fail">>)
    <2>1. \A x : Lists(<<"fail">>, x) <=> x = "fail"
      BY BreakLists
    <2> QED
      BY <2>1, <1>1, <1>2, <1>3, <1>5, <1>6, SendingBreaks DEF Sending
  <1>7. ASSUME NEW transfer \in BOOLEAN,
               procs' = [procs EXCEPT ![p] = [@ EXCEPT !.transfer = transfer,
                           !.cmd = AppendFact("deliveryPrepared",
                                     [row EXCEPT !.pending = [attempt |-> a, phase |-> "prepared",
                                                              gen |-> genOf[a]]])]]
        PROVE WindowInv'
    <2> DEFINE r == [row EXCEPT !.pending = [attempt |-> a, phase |-> "prepared", gen |-> genOf[a]]]
               v == [procs[p] EXCEPT !.transfer = transfer, !.cmd = AppendFact("deliveryPrepared", r)]
    <2>1. Moves(p, v)
      BY <1>7 DEF Moves, Both, TurnInv
    <2>2. /\ v.todo = procs[p].todo /\ v.a = a /\ v.cmd.row = r /\ v.cmd.fact = "deliveryPrepared"
      BY <1>4 DEF Process, AppendFact
    <2>3. /\ r.gen = row.gen /\ r.native = row.native /\ r.trusted = row.trusted
          /\ r.accepted = row.accepted /\ r.committed = row.committed
          /\ r.pending.attempt = a /\ r.pending.phase = "prepared" /\ r.pending.gen = genOf[a]
      BY <1>4 DEF BindingRow
    <2> HIDE DEF v, r
    <2>4. OpenFor(row) /\ Earned(row) /\ Follows(row, 0, None) /\ row.gen <= gens /\ genOf[a] = row.gen
      BY <1>4, <1>5 DEF Both, WindowInv, RowInv, IsCurrent
    <2>5. OpenFor(r)
      BY <2>3, <2>4, <1>5 DEF OpenFor
    <2>6. Earned(r)
      BY <2>3, <2>4 DEF Earned
    <2>7. Follows(r, a, "deliveryPrepared")
      <3>1. row.committed # 0 => committed[row.committed] # None
        BY <2>4 DEF Follows
      <3>2. row.accepted # 0 => genOf[row.accepted] = row.gen /\ Has("deliveryAccepted", row.accepted)
        BY <2>4 DEF Follows
      <3>3. row.committed <= row.accepted
        BY <2>4 DEF Follows
      <3> QED
        BY <3>1, <3>2, <3>3, <2>3 DEF Follows
    <2>8. Written("prepare", a, v.cmd)
      BY <2>2, <2>3 DEF Written, Same, Committing
    <2> QED
      BY <2>1, <2>2, <2>3, <2>4, <2>5, <2>6, <2>7, <2>8, <1>1, <1>2, <1>3, SendingIssues DEF Sending
  <1> QED
    BY <1>6, <1>7 DEF Prepare

\* The coordinator gets an entry of the turn, or keeps the one it has.
LEMMA RegisterWindow == ASSUME Both, NEW p \in Procs, Register(p) PROVE WindowInv'
  <1> DEFINE a == procs[p].a
  <1>1. IsAt(p, "register") /\ GoTo(p, Rest(p))
    BY DEF Register
  <1>2. p \in Clients /\ p # "observer"
    BY <1>1, ActsForWindow, TurnAssumption DEF Both
  <1>3. UNCHANGED <<facts, committed, genOf, row, prompts>> /\ gens' >= gens
    BY DEF Register, durable, world, Both, TurnInv, LogInv
  <1> SUFFICES ASSUME NEW w, w = procs[p] PROVE WindowInv'
    OBVIOUS
  <1>4. /\ a \in Attempts /\ w \in Process /\ w.cmd = None /\ w.todo # <<>> /\ Head(w.todo) = "register"
        /\ Rest(p) = Tail(w.todo) /\ Lists(w.todo, "register")
    BY <1>1, AtFacts DEF Both
  <1>5. ClientInv(w) /\ Ordered(w.todo) /\ ~ Lists(w.todo, "remove") /\ \A b \in Attempts : ~ Shared(b)
    BY <1>1, <1>2, SendingAlone DEF Both, WindowInv, Sending
  <1>6. PICK v : /\ Moves(p, v) /\ v.todo = Rest(p) /\ v.cmd = None
                 /\ IF Rest(p) = <<>> THEN v = Idle ELSE v.a = w.a
    BY <1>1, WentTo DEF Both
  <1>7. w.todo \in Seq(Steps)
    BY <1>4 DEF Process
  <1>8. /\ Ordered(Tail(w.todo)) /\ (\A s : Lists(Tail(w.todo), s) <=> Lists(w.todo, s) /\ s # "register")
        /\ ~ Lists(w.todo, "check")
    <2>1. Ahead(w.todo, "check", Head(w.todo))
      BY <1>4, <1>5 DEF Ordered
    <2> QED
      BY <2>1, <1>4, <1>5, <1>7, RestOfSend
  <1>9. Lists(w.todo, "acceptTurn")
    BY <1>4, <1>5 DEF Ordered, Leads, Sending
  <1>10. Rest(p) # <<>> /\ v.a = w.a /\ v.todo = Tail(w.todo)
    <2>1. Lists(Tail(w.todo), "acceptTurn")
      BY <1>8, <1>9
    <2>2. Tail(w.todo) # <<>>
      BY <2>1, EmptyList
    <2> QED
      BY <2>2, <1>4, <1>6
  <1>11. a \in Unresolved
    BY <1>5, <1>8, <1>9 DEF ClientInv, SendInv, Past
  <1>12. owner \in [Attempts -> Owner \cup {None}]
    BY DEF Both, TurnInv, LogInv
  <1>13. /\ \A b \in Attempts \ {a} : owner'[b] = owner[b]
         /\ ~ Owned(a) => owner'[a].barrier = TRUE
         /\ Owned(a) => owner'[a] = owner[a]
    <2>1. CASE Owned(a)
      BY <2>1 DEF Register
    <2>2. CASE ~ Owned(a)
      <3>1. owner' = [owner EXCEPT ![a] = [barrier |-> TRUE, queued |-> None, settled |-> None]]
        BY <2>2 DEF Register
      <3> QED
        BY <2>2, <3>1, <1>4, <1>12
    <2> QED
      BY <2>1, <2>2
  <1>14. \A b \in Attempts : Shared(b)' => Shared(b)
    <2>1. procs'["observer"] = procs["observer"]
      BY <1>2, <1>6 DEF Moves, Procs
    <2>2. \A b \in Attempts : Free(b)' => Free(b)
      BY <1>13 DEF Free, Owned
    <2> QED
      BY <2>1, <2>2 DEF Shared, Works
  <1>15. ClientInv(v)'
    <2>1. ~ IsBeginning(w)
      BY <1>4 DEF IsBeginning
    <2> QED
      BY <2>1, <1>3, <1>4, <1>5, <1>7, <1>10, RestClient
  <1>16. \A b \in Attempts : Owned(b)' /\ committed[b] # None =>
            Owned(b) /\ (Removes(p, b) => v.a = b /\ Lists(v.todo, "remove"))
    <2> SUFFICES ASSUME NEW b \in Attempts, Owned(b)', committed[b] # None
                 PROVE  Owned(b) /\ ~ Removes(p, b)
      OBVIOUS
    <2>1. b # a
      BY <1>11 DEF Unresolved
    <2> QED
      BY <2>1, <1>5, <1>13 DEF Owned, Removes
  <1> QED
    BY <1>2, <1>3, <1>5, <1>6, <1>14, <1>15, <1>16, ClientMoves DEF CmdInv, Both

\* The runtime is about to be asked for a session.
LEMMA MarkStartingWindow == ASSUME Both, NEW p \in Procs, MarkStarting(p) PROVE WindowInv'
  <1> DEFINE r == [row EXCEPT !.state = "creating"]
  <1>1. IsAt(p, "starting")
    BY DEF MarkStarting
  <1>2. p \in Clients
    BY <1>1, ActsForWindow DEF Both
  <1>3. UNCHANGED <<facts, committed, genOf, row, prompts, owner>> /\ gens' >= gens
    BY QuietFacts DEF MarkStarting, Both
  <1>4. row \in BindingRow /\ row # None
    BY <1>1, AtFacts DEF Both
  <1>5. CASE GoTo(p, Ambiguous)
    <2>1. \A x : Lists(Ambiguous, x) <=> x = "mark"
      BY BreakLists
    <2> QED
      BY <2>1, <1>1, <1>2, <1>3, <1>5, SendingBreaks DEF Sending
  <1>6. CASE GoTo(p, Rest(p))
    BY <1>1, <1>2, <1>3, <1>6, SendingRest DEF Sending
  <1>7. CASE Issue(p, Upsert(r))
    <2>1. PICK v : /\ Moves(p, v) /\ v.todo = procs[p].todo /\ v.cmd = Upsert(r) /\ v.a = procs[p].a
      BY <1>7, Issued DEF Both
    <2>2. v.cmd.row = r /\ v.cmd.fact = None
      BY <2>1 DEF Upsert
    <2>3. r \in BindingRow /\ Kept(r) /\ r.trusted = row.trusted
      BY <1>4 DEF BindingRow, Kept
    <2> HIDE DEF r
    <2>4. /\ r.gen <= gens /\ OpenFor(r) /\ Follows(r, v.a, None) /\ Same(r) /\ Earned(r)
          /\ r.pending = row.pending
      BY <2>3, <1>4, KeptRow DEF Both
    <2>5. Written("starting", v.a, v.cmd)
      BY <2>2, <2>4 DEF Written, Committing
    <2>6. None # "turnRequested"
      BY NoneAssumption DEF FactTypes
    <2> QED
      BY <2>1, <2>2, <2>4, <2>5, <2>6, <1>1, <1>2, <1>3, SendingIssues DEF Sending
  <1> QED
    BY <1>5, <1>6, <1>7 DEF MarkStarting

\* A send goes on, before or past the check.
LEMMA OrderedClient ==
    ASSUME NEW v, Ordered(v.todo), Lists(v.todo, "acceptTurn"),
           Lists(v.todo, "prepare") /\ ~ IsBeginning(v) =>
              (v.a \in Unresolved /\ prompts[v.a] = 0 /\ ~ Owned(v.a))',
           ~ Lists(v.todo, "check") => Past(v)'
    PROVE  ClientInv(v)'
  <1>1. \A s : Lists(v.todo, s) => s \in Sending \cup {"acceptTurn", "drain", "await"}
    BY OnlyLists DEF Ordered
  <1>2. \A s \in {"publish", "settle", "fail", "failNative", "remove", "observe", "rebuild"} :
           ~ Lists(v.todo, s)
    BY <1>1 DEF Sending
  <1>3. /\ Ahead(v.todo, "publish", "drain")
        /\ Ahead(v.todo, "remove", "await") /\ Ahead(v.todo, "remove", "rebuild")
    BY <1>2 DEF Ahead, Lists
  <1>4. SendInv(v)'
    BY DEF SendInv, IsBeginning
  <1>5. DrainInv(v)'
    BY <1>2, <1>3 DEF DrainInv
  <1>6. RemoveInv(v)'
    BY <1>2, <1>3 DEF RemoveInv
  <1> QED
    BY <1>4, <1>5, <1>6 DEF ClientInv

\* The window goes on, is alone, and something is written or sent.
LEMMA AloneWrites ==
    ASSUME Both, NEW c \in Clients, \A b \in Attempts : ~ Shared(b),
           NEW v, Moves(c, v), v.cmd = None, UNCHANGED owner,
           ClientInv(v)', RowInv', NumInv', SentOnce',
           \A b \in Attempts : Owned(b) /\ committed'[b] # None =>
              \/ committed[b] # None /\ ~ Removes(c, b)
              \/ v.a = b /\ Lists(v.todo, "remove")
    PROVE  WindowInv'
  <1>1. c \in Procs /\ c # "observer" /\ "observer" \in Procs
    BY TurnAssumption DEF Procs
  <1>2. procs'[c] = v /\ \A p \in Procs : p # c => procs'[p] = procs[p]
    BY DEF Moves
  <1>3. procs["observer"].todo = <<>> /\ procs["observer"].cmd = None
    BY ObserverIdle DEF Both, IsIdle
  <1>4. procs'["observer"] = procs["observer"]
    BY <1>1, <1>2
  <1>5. \A d \in Clients : procs'[d] = v
    BY <1>2 DEF Both, OneWindow
  <1>6. \A b \in Attempts : ~ Shared(b)'
    BY <1>3, <1>4 DEF Shared, Works, Free, Owned
  <1>7. SharedInv'
    BY <1>6 DEF SharedInv
  <1>8. OwnedInv'
    <2> SUFFICES ASSUME NEW b \in Attempts, Owned(b)', committed'[b] # None
                 PROVE  \E p \in Procs : Removes(p, b)'
      BY DEF OwnedInv
    <2>1. Owned(b)
      BY DEF Owned
    <2>2. CASE v.a = b /\ Lists(v.todo, "remove")
      BY <2>2, <1>1, <1>2 DEF Removes
    <2>3. CASE committed[b] # None /\ ~ Removes(c, b)
      <3>1. PICK p \in Procs : Removes(p, b)
        BY <2>1, <2>3 DEF Both, WindowInv, OwnedInv
      <3> QED
        BY <3>1, <2>3, <1>2 DEF Removes
    <2> QED
      BY <2>1, <2>2, <2>3
  <1>9. ObserverInv'
    BY <1>3, <1>4 DEF ObserverInv, Publishing
  <1>10. \A d \in Clients : ClientInv(procs[d])'
    <2>1. ASSUME NEW d \in Clients, NEW m, m = procs'[d] PROVE ClientInv(m)'
      BY <2>1, <1>5
    <2> QED
      BY <2>1 DEF ClientInv, SendInv, DrainInv, RemoveInv, Past, Held, IsBeginning
  <1>11. \A p \in Procs : CmdInv(procs[p])'
    <2> SUFFICES ASSUME NEW p \in Procs PROVE procs'[p].cmd = None
      BY DEF CmdInv
    <2>1. CASE p = "observer"
      BY <2>1, <1>3, <1>4
    <2>2. CASE p # "observer"
      BY <2>2, <1>5 DEF Procs
    <2> QED
      BY <2>1, <2>2
  <1> QED
    BY <1>7, <1>8, <1>9, <1>10, <1>11 DEF WindowInv

\* Where a send is past its check.
LEMMA PastAt ==
    ASSUME TurnInv, WindowInv, NEW c \in Clients,
           NEW s \in {"sent", "import", "prompt", "accept", "trust", "acceptTurn"}, IsAt(c, s)
    PROVE  /\ Past(procs[c]) /\ Ordered(procs[c].todo) /\ Lists(procs[c].todo, "acceptTurn")
           /\ ~ Lists(procs[c].todo, "check") /\ ~ Lists(procs[c].todo, "prepare")
           /\ s # "sent" => ~ Lists(procs[c].todo, "sent")
           /\ \A x : Ahead(procs[c].todo, x, s) => ~ Lists(procs[c].todo, x)
  <1> SUFFICES ASSUME NEW q, q = procs[c].todo
               PROVE  /\ Past(procs[c]) /\ Ordered(q) /\ Lists(q, "acceptTurn")
                      /\ ~ Lists(q, "check") /\ ~ Lists(q, "prepare")
                      /\ s # "sent" => ~ Lists(q, "sent")
                      /\ \A x : Ahead(q, x, s) => ~ Lists(q, x)
    OBVIOUS
  <1>1. c \in Procs
    BY DEF Procs
  <1>2. q \in Seq(Steps) /\ q # <<>> /\ Head(q) = s /\ Lists(q, s)
    <2>1. procs[c] \in Process /\ q # <<>> /\ Head(q) = s /\ Lists(q, s)
      BY <1>1, AtFacts
    <2> QED
      BY <2>1 DEF Process
  <1>3. Ordered(q)
    BY <1>2 DEF WindowInv, ClientInv, SendInv, Sending
  <1>4. \A x : Ahead(q, x, s) => ~ Lists(q, x)
    BY <1>2, RestFacts
  <1>5. Lists(q, "acceptTurn")
    BY <1>2, <1>3 DEF Ordered, Leads, Sending
  <1>6. s # "sent" => ~ Lists(q, "sent")
    BY <1>3, <1>4 DEF Ordered, Leads, Sending
  <1>7. ~ Lists(q, "check") /\ ~ Lists(q, "prepare")
    BY <1>3, <1>4, <1>6 DEF Ordered, Leads
  <1>8. Past(procs[c])
    BY <1>5, <1>7 DEF WindowInv, ClientInv, SendInv
  <1> QED
    BY <1>3, <1>4, <1>5, <1>6, <1>7, <1>8

\* A row is computed in the middle of a send.
LEMMA SendingUpserts ==
    ASSUME Both, NEW c \in Clients, NEW s \in {"starting", "materialize", "sent", "trust"}, IsAt(c, s),
           NEW r, Issue(c, Upsert(r)), UNCHANGED <<durable, owner, world>>,
           r.gen <= gens, Earned(r), OpenFor(r), Follows(r, procs[c].a, None), Same(r),
           s # "sent" => r.pending = row.pending,
           s = "sent" => /\ r.pending # None /\ r.pending.attempt = procs[c].a
                         /\ r.pending.phase = "sent"
    PROVE  WindowInv'
  <1>1. c \in Procs
    BY DEF Procs
  <1>2. PICK v : /\ Moves(c, v) /\ v.todo = procs[c].todo /\ v.cmd = Upsert(r) /\ v.a = procs[c].a
    BY <1>1, Issued DEF Both
  <1>3. v.cmd.row = r /\ v.cmd.fact = None
    BY <1>2 DEF Upsert
  <1>4. Written(s, v.a, v.cmd)
    BY <1>2, <1>3 DEF Written, Committing
  <1>5. None # "turnRequested"
    BY NoneAssumption DEF FactTypes
  <1>6. UNCHANGED <<facts, committed, genOf, row, prompts, owner>> /\ gens' >= gens
    BY QuietFacts DEF Both
  <1> QED
    BY <1>2, <1>3, <1>4, <1>5, <1>6, SendingIssues DEF Sending

\* The runtime has a session, and the row of it is computed.
LEMMA MaterializeWindow == ASSUME Both, NEW p \in Procs, Materialize(p) PROVE WindowInv'
  <1> DEFINE r == [row EXCEPT !.state = IF IdentityAcked THEN "ready" ELSE "creating",
                              !.native = TRUE]
  <1>1. IsAt(p, "materialize") /\ UNCHANGED <<durable, owner, world>>
    BY DEF Materialize
  <1>2. p \in Clients
    BY <1>1, ActsForWindow DEF Both
  <1>3. UNCHANGED <<facts, committed, genOf, row, prompts, owner>> /\ gens' >= gens
    BY <1>1, QuietFacts DEF Both
  <1>4. row \in BindingRow /\ row # None
    BY <1>1, AtFacts DEF Both
  <1>5. CASE GoTo(p, Ambiguous)
    <2>1. \A x : Lists(Ambiguous, x) <=> x = "mark"
      BY BreakLists
    <2> QED
      BY <2>1, <1>1, <1>2, <1>3, <1>5, SendingBreaks DEF Sending
  <1>6. CASE Issue(p, Upsert(r))
    <2>1. r \in BindingRow /\ Kept(r) /\ r.trusted = row.trusted
      BY <1>4 DEF BindingRow, Kept
    <2> HIDE DEF r
    <2>2. /\ r.gen <= gens /\ OpenFor(r) /\ Follows(r, procs[p].a, None) /\ Same(r) /\ Earned(r)
          /\ r.pending = row.pending
      BY <2>1, <1>4, KeptRow DEF Both
    <2> QED
      BY <2>2, <1>1, <1>2, <1>6, SendingUpserts
  <1> QED
    BY <1>5, <1>6 DEF Materialize

\* The delivery is recorded as sent, before anything is.
LEMMA MarkSentWindow == ASSUME Both, NEW p \in Procs, MarkSent(p) PROVE WindowInv'
  <1> DEFINE a == procs[p].a
             r == [row EXCEPT !.pending.phase = "sent", !.native = TRUE]
  <1>1. IsAt(p, "sent") /\ UNCHANGED <<durable, owner, world>>
    BY DEF MarkSent
  <1>2. p \in Clients
    BY <1>1, ActsForWindow DEF Both
  <1>3. UNCHANGED <<facts, committed, genOf, row, prompts, owner>> /\ gens' >= gens
    BY <1>1, QuietFacts DEF Both
  <1>4. row \in BindingRow /\ row # None /\ a \in Attempts
    BY <1>1, AtFacts DEF Both
  <1>5. CASE GoTo(p, Ambiguous)
    <2>1. \A x : Lists(Ambiguous, x) <=> x = "mark"
      BY BreakLists
    <2> QED
      BY <2>1, <1>1, <1>2, <1>3, <1>5, SendingBreaks DEF Sending
  <1>6. CASE GoTo(p, <<"failNative", "remove">>)
    <2>1. \A x : Lists(<<"failNative", "remove">>, x) <=> x \in {"failNative", "remove"}
      BY BreakLists
    <2> QED
      BY <2>1, <1>1, <1>2, <1>3, <1>6, SendingBreaks DEF Sending
  <1>7. CASE IsPending(a) /\ row.pending.gen = genOf[a] /\ row.pending.phase = "prepared"
             /\ Issue(p, Upsert(r))
    <2>1. row.pending \in Pending /\ row.pending # None /\ row.pending.attempt = a
      BY <1>4, <1>7 DEF BindingRow, IsPending
    <2>2. /\ r.gen = row.gen /\ r.trusted = row.trusted /\ r.native = TRUE
          /\ r.accepted = row.accepted /\ r.committed = row.committed
          /\ r.pending = [row.pending EXCEPT !.phase = "sent"]
      BY <1>4 DEF BindingRow
    <2>3. /\ r.pending.attempt = a /\ r.pending.phase = "sent" /\ r.pending.gen = row.pending.gen
          /\ r.pending \in Pending
      BY <2>1, <2>2 DEF Pending
    <2>4. r.pending # None
      BY <2>3, NoneAssumption
    <2> HIDE DEF r
    <2>5. OpenFor(row) /\ Earned(row) /\ Follows(row, 0, None) /\ row.gen <= gens
      BY <1>4 DEF Both, WindowInv, RowInv
    <2>6. OpenFor(r)
      BY <2>1, <2>2, <2>3, <2>5 DEF OpenFor
    <2>7. Earned(r)
      BY <2>2, <2>5 DEF Earned
    <2>8. Follows(r, a, None)
      <3>1. row.committed # 0 => committed[row.committed] # None
        BY <2>5 DEF Follows
      <3>2. row.accepted # 0 => genOf[row.accepted] = row.gen /\ Has("deliveryAccepted", row.accepted)
        BY <2>5 DEF Follows
      <3>3. row.committed <= row.accepted
        BY <2>5 DEF Follows
      <3> QED
        BY <3>1, <3>2, <3>3, <2>2 DEF Follows
    <2>9. Same(r)
      BY <2>2 DEF Same
    <2> QED
      BY <2>2, <2>3, <2>4, <2>5, <2>6, <2>7, <2>8, <2>9, <1>1, <1>2, <1>7, SendingUpserts
  <1> QED
    BY <1>5, <1>6, <1>7 DEF MarkSent

\* The native history is trusted once the runtime has accepted the package.
LEMMA TrustNativeWindow == ASSUME Both, NEW p \in Procs, TrustNative(p) PROVE WindowInv'
  <1> DEFINE r == [row EXCEPT !.trusted = TRUE]
             a == procs[p].a
  <1>1. IsAt(p, "trust") /\ UNCHANGED <<durable, owner, world>>
    BY DEF TrustNative
  <1>2. p \in Clients
    BY <1>1, ActsForWindow DEF Both
  <1>3. UNCHANGED <<facts, committed, genOf, row, prompts, owner>> /\ gens' >= gens
    BY <1>1, QuietFacts DEF Both
  <1>4. row \in BindingRow /\ row # None /\ a \in Attempts
    BY <1>1, AtFacts DEF Both
  <1>5. CASE GoTo(p, Rest(p))
    BY <1>1, <1>2, <1>3, <1>5, SendingRest DEF Sending
  <1>6. CASE Issue(p, Upsert(r))
    <2>1. r \in BindingRow /\ Kept(r) /\ r.gen = row.gen /\ r.native = row.native
      BY <1>4 DEF BindingRow, Kept
    <2> HIDE DEF r
    <2>2. /\ r.gen <= gens /\ OpenFor(r) /\ Follows(r, procs[p].a, None) /\ Same(r)
          /\ r.pending = row.pending
      BY <2>1, <1>4, KeptRow DEF Both
    <2>3. /\ Past(procs[p]) /\ ~ Lists(procs[p].todo, "sent") /\ ~ Lists(procs[p].todo, "accept")
      BY <1>1, <1>2, PastAt DEF Both, Ordered
    <2>4. /\ a \in Unresolved /\ row.pending # None /\ row.pending.phase # "prepared"
          /\ Has("deliveryAccepted", a)
      BY <2>3 DEF Past, IsPending
    <2>5. row.native /\ genOf[a] = row.gen
      BY <2>4, <1>4 DEF Both, WindowInv, RowInv, OpenFor, IsCurrent
    <2>6. Earned(r)
      BY <2>1, <2>4, <2>5, <1>4 DEF Earned
    <2> QED
      BY <2>2, <2>6, <1>1, <1>2, <1>6, SendingUpserts
  <1> QED
    BY <1>5, <1>6 DEF TrustNative

\* The history is imported, or the import is not certain.
LEMMA ImportWindow == ASSUME Both, NEW p \in Procs, Import(p) PROVE WindowInv'
  <1>1. IsAt(p, "import") /\ UNCHANGED <<durable, owner, world>>
    BY DEF Import
  <1>2. p \in Clients
    BY <1>1, ActsForWindow DEF Both
  <1>3. UNCHANGED <<facts, committed, genOf, row, prompts, owner>> /\ gens' >= gens
    BY <1>1, QuietFacts DEF Both
  <1>4. CASE GoTo(p, Rest(p))
    BY <1>1, <1>2, <1>3, <1>4, SendingRest DEF Sending
  <1>5. CASE GoTo(p, Ambiguous)
    <2>1. \A x : Lists(Ambiguous, x) <=> x = "mark"
      BY BreakLists
    <2> QED
      BY <2>1, <1>1, <1>2, <1>3, <1>5, SendingBreaks DEF Sending
  <1>6. CASE GoTo(p, ImportedFirst)
    <2> SUFFICES ASSUME NEW w, w = procs[p] PROVE WindowInv'
      OBVIOUS
    <2>1. /\ Ordered(ImportedFirst) /\ Lists(ImportedFirst, "accept") /\ Lists(ImportedFirst, "acceptTurn")
          /\ ~ Lists(ImportedFirst, "prepare") /\ ~ Lists(ImportedFirst, "sent")
          /\ ImportedFirst # <<>>
      BY ImportedOrder, EmptyList
    <2>2. PICK v : Moves(p, v) /\ v.todo = ImportedFirst /\ v.cmd = None /\ v.a = w.a
      BY <2>1, <1>6, WentTo DEF Both
    <2>3. /\ Past(w) /\ Ordered(w.todo) /\ ~ Lists(w.todo, "sent") /\ Lists(w.todo, "import")
      <3>1. Lists(w.todo, "import")
        BY <1>1, AtFacts DEF Both
      <3> QED
        BY <3>1, <1>1, <1>2, PastAt DEF Both
    <2>4. Lists(w.todo, "prompt")
      BY <2>3 DEF Ordered, Leads
    <2>5. Unresolved' = Unresolved
      BY <1>3 DEF Unresolved, Requested, Has
    <2>6. Past(v)'
      BY <2>1, <2>2, <2>3, <2>4, <2>5, <1>3 DEF Past, IsPending, Has
    <2>7. ClientInv(v)'
      BY <2>1, <2>2, <2>6, OrderedClient
    <2>8. CmdInv(v)'
      BY <2>2 DEF CmdInv
    <2> QED
      BY <2>2, <2>7, <2>8, <1>1, <1>2, <1>3, SendingMoves DEF Sending
  <1> QED
    BY <1>4, <1>5, <1>6 DEF Import

\* The prompt leaves for the runtime: it had not been sent before.
LEMMA SendPromptWindow == ASSUME Both, NEW p \in Procs, SendPrompt(p) PROVE WindowInv'
  <1> DEFINE a == procs[p].a
  <1>1. IsAt(p, "prompt") /\ UNCHANGED <<durable, owner>>
    BY DEF SendPrompt
  <1>2. p \in Clients
    BY <1>1, ActsForWindow DEF Both
  <1>3. UNCHANGED <<facts, committed, genOf, row, owner, gens>> /\ gens' >= gens
    BY <1>1 DEF durable, Both, TurnInv, LogInv
  <1>4. \A b \in Attempts : ~ Shared(b)
    BY <1>1, <1>2, SendingAlone DEF Both, Sending
  <1>5. ~ Lists(procs[p].todo, "remove")
    BY <1>1, <1>2, SendingAlone DEF Both, Sending
  <1>6. /\ Past(procs[p]) /\ Ordered(procs[p].todo) /\ Lists(procs[p].todo, "acceptTurn")
        /\ ~ Lists(procs[p].todo, "check") /\ ~ Lists(procs[p].todo, "prepare")
        /\ ~ Lists(procs[p].todo, "sent")
    BY <1>1, <1>2, PastAt DEF Both
  <1>7. CASE UNCHANGED prompts /\ GoTo(p, Ambiguous)
    <2>1. \A x : Lists(Ambiguous, x) <=> x = "mark"
      BY BreakLists
    <2> QED
      BY <2>1, <1>1, <1>2, <1>3, <1>7, SendingBreaks DEF Sending
  <1>8. CASE UNCHANGED prompts /\ GoTo(p, <<"failNative", "remove">>)
    <2>1. \A x : Lists(<<"failNative", "remove">>, x) <=> x \in {"failNative", "remove"}
      BY BreakLists
    <2> QED
      BY <2>1, <1>1, <1>2, <1>3, <1>8, SendingBreaks DEF Sending
  <1>9. CASE UNCHANGED prompts /\ GoTo(p, <<"failNative", "mark", "remove">>)
    <2>1. \A x : Lists(<<"failNative", "mark", "remove">>, x) <=> x \in {"failNative", "mark", "remove"}
      BY BreakLists
    <2> QED
      BY <2>1, <1>1, <1>2, <1>3, <1>9, SendingBreaks DEF Sending
  <1>10. CASE prompts' = [prompts EXCEPT ![a] = @ + 1] /\ GoTo(p, Rest(p))
    <2> SUFFICES ASSUME NEW w, w = procs[p] PROVE WindowInv'
      OBVIOUS
    <2>1. /\ w \in Process /\ w.todo # <<>> /\ Head(w.todo) = "prompt" /\ w.cmd = None
          /\ Rest(p) = Tail(w.todo) /\ a \in Attempts /\ a \in Requested /\ Lists(w.todo, "prompt")
          /\ row # None /\ row \in BindingRow
      BY <1>1, AtFacts DEF Both
    <2>2. w.todo \in Seq(Steps)
      BY <2>1 DEF Process
    <2>3. /\ Ordered(Tail(w.todo))
          /\ \A s : Lists(Tail(w.todo), s) <=> Lists(w.todo, s) /\ s # "prompt"
      BY <2>1, <2>2, <1>6, RestOfSend
    <2>4. Tail(w.todo) # <<>>
      <3>1. Lists(Tail(w.todo), "acceptTurn")
        BY <2>3, <1>6
      <3> QED
        BY <3>1, EmptyList
    <2>5. PICK v : Moves(p, v) /\ v.todo = Tail(w.todo) /\ v.cmd = None /\ v.a = a
      <3>1. Rest(p) # <<>>
        BY <2>1, <2>4
      <3>2. PICK v : Moves(p, v) /\ v.todo = Rest(p) /\ v.cmd = None /\ v.a = a
        BY <3>1, <1>10, WentTo DEF Both
      <3> QED
        BY <3>2, <2>1
    <2>6. Unresolved' = Unresolved /\ Requested' = Requested
      BY <1>3 DEF Unresolved, Requested, Has
    <2>7. /\ prompts \in [Attempts -> Nat] /\ prompts[a] = 0
          /\ prompts'[a] = 1 /\ \A b \in Attempts : b # a => prompts'[b] = prompts[b]
      BY <2>1, <1>6, <1>10 DEF Past, Both, TurnInv, LogInv
    <2>8. Past(v)'
      BY <2>3, <2>5, <2>6, <1>3, <1>6 DEF Past, IsPending, Has
    <2>9. ClientInv(v)'
      BY <2>3, <2>5, <2>8, <1>6, OrderedClient
    <2>10. RowInv'
      <3>1. row.pending # None /\ row.pending.attempt = a /\ row.pending.phase # "prepared"
        BY <1>6 DEF Past, IsPending
      <3>2. OpenFor(row) /\ Earned(row) /\ Follows(row, 0, None) /\ row.gen <= gens
            /\ \A b \in Unresolved : IsCurrent(b)
        BY <2>1 DEF Both, WindowInv, RowInv
      <3>3. OpenFor(row)'
        BY <3>1, <3>2, <2>6, <1>3 DEF OpenFor
      <3>4. Earned(row)' /\ Follows(row, 0, None)' /\ (\A b \in Unresolved : IsCurrent(b))'
        BY <3>2, <2>6, <1>3 DEF Earned, Follows, IsCurrent, Has
      <3> QED
        BY <3>2, <3>3, <3>4, <1>3 DEF RowInv
    <2>11. NumInv'
      BY <2>1, <2>6, <2>7, <1>3 DEF NumInv, Both, WindowInv
    <2>12. SentOnce'
      BY <2>7 DEF SentOnce, Both, WindowInv
    <2>13. \A b \in Attempts : Owned(b) /\ committed'[b] # None =>
             committed[b] # None /\ ~ Removes(p, b)
      BY <1>3, <1>5 DEF Removes
    <2> QED
      BY <2>5, <2>9, <2>10, <2>11, <2>12, <2>13, <1>2, <1>3, <1>4, AloneWrites
  <1> QED
    BY <1>7, <1>8, <1>9, <1>10 DEF SendPrompt

\* In the middle of a send, the entry of the coordinator changes.
LEMMA SendingOwner ==
    ASSUME Both, NEW c \in Clients, NEW s \in Sending, IsAt(c, s), s # "check",
           NEW v, Moves(c, v), UNCHANGED <<durable, world>>,
           \A b \in Attempts : (Owned(b)' => Owned(b)) /\ (Free(b)' => Free(b)),
           ClientInv(v)', v.cmd = None
    PROVE  WindowInv'
  <1>1. (\A b \in Attempts : ~ Shared(b)) /\ ~ Lists(procs[c].todo, "remove")
    BY SendingAlone DEF Both
  <1>2. procs'["observer"] = procs["observer"]
    BY TurnAssumption DEF Moves, Procs
  <1>3. \A b \in Attempts : ~ Shared(b)'
    BY <1>1, <1>2 DEF Shared, Works
  <1>4. UNCHANGED <<facts, committed, genOf, row, prompts>> /\ gens' >= gens
    BY QuietFacts DEF Both
  <1>5. \A b \in Attempts : Owned(b)' /\ committed[b] # None =>
           Owned(b) /\ (Removes(c, b) => v.a = b /\ Lists(v.todo, "remove"))
    BY <1>1 DEF Removes
  <1>6. CmdInv(v)'
    BY DEF CmdInv
  <1> QED
    BY <1>3, <1>4, <1>5, <1>6, ClientMoves DEF Both

\* The response is lost, or opens the barrier.
LEMMA ResponseWindow == ASSUME Both, NEW p \in Procs, Response(p) PROVE WindowInv'
  <1> DEFINE a == procs[p].a
  <1>1. IsAt(p, "response") /\ UNCHANGED <<durable, world>>
    BY DEF Response
  <1>2. p \in Clients
    BY <1>1, ActsForWindow DEF Both
  <1>3. UNCHANGED <<facts, committed, genOf, row, prompts>> /\ gens' >= gens
    BY <1>1, QuietFacts DEF Both
  <1>4. CASE GoTo(p, Ambiguous) /\ UNCHANGED owner
    <2>1. \A x : Lists(Ambiguous, x) <=> x = "mark"
      BY BreakLists
    <2> QED
      BY <2>1, <1>1, <1>2, <1>3, <1>4, SendingBreaks DEF Sending
  <1>5. CASE Owned(a) /\ owner' = [owner EXCEPT ![a].barrier = TRUE] /\ GoTo(p, Rest(p))
    <2> SUFFICES ASSUME NEW w, w = procs[p] PROVE WindowInv'
      OBVIOUS
    <2>1. /\ w \in Process /\ w.todo # <<>> /\ Head(w.todo) = "response" /\ w.cmd = None
          /\ Rest(p) = Tail(w.todo) /\ a \in Attempts /\ Lists(w.todo, "response")
      BY <1>1, AtFacts DEF Both
    <2>2. w.todo \in Seq(Steps) /\ ClientInv(w) /\ ~ IsBeginning(w)
      BY <2>1, <1>2 DEF Process, Both, WindowInv, IsBeginning
    <2>3. Ordered(w.todo) /\ Lists(w.todo, "acceptTurn")
      BY <2>1, <2>2 DEF ClientInv, SendInv, Sending, Ordered, Leads
    <2>4. Tail(w.todo) # <<>>
      <3>1. Lists(Tail(w.todo), "acceptTurn")
        BY <2>1, <2>2, <2>3, RestOfSend
      <3> QED
        BY <3>1, EmptyList
    <2>5. PICK v : Moves(p, v) /\ v.todo = Tail(w.todo) /\ v.cmd = None /\ v.a = w.a
      <3>1. Rest(p) # <<>>
        BY <2>1, <2>4
      <3>2. PICK v : Moves(p, v) /\ v.todo = Rest(p) /\ v.cmd = None /\ v.a = w.a
        BY <3>1, <1>5, WentTo DEF Both
      <3> QED
        BY <3>2, <2>1
    <2>6. owner \in [Attempts -> Owner \cup {None}] /\ owner[a] \in Owner
      BY <2>1, <1>5 DEF Both, TurnInv, LogInv, Owned
    <2>7. /\ \A b \in Attempts \ {a} : owner'[b] = owner[b]
          /\ owner'[a].barrier = TRUE /\ owner'[a] = [owner[a] EXCEPT !.barrier = TRUE]
      BY <2>1, <2>6, <1>5 DEF Owner
    <2>8. \A b \in Attempts : (Owned(b)' => Owned(b)) /\ (Free(b)' => Free(b))
      BY <2>7, <1>5 DEF Owned, Free
    <2>9. ClientInv(v)'
      <3>1. Owned(w.a)' => Owned(w.a)
        BY <1>5
      <3> QED
        BY <3>1, <2>1, <2>2, <2>5, <1>3, RestClient
    <2> QED
      BY <2>5, <2>8, <2>9, <1>1, <1>2, SendingOwner DEF Sending
  <1> QED
    BY <1>4, <1>5 DEF Response

\* What is left to settle.
LEMMA ObserveClient ==
    ASSUME NEW v, v.todo \in {<<"observe">>, <<"observe", "rebuild">>}
    PROVE  ClientInv(v)'
  <1> DEFINE t == v.todo
  <1>1. \A x : Lists(t, x) => x \in {"observe", "rebuild"}
    <2>1. CASE t = <<"observe">>
      BY <2>1, ListsOf
    <2>2. CASE t = <<"observe", "rebuild">>
      BY <2>2, ListsOf
    <2> QED
      BY <2>1, <2>2
  <1>2. Once(t)
    <2>1. CASE t = <<"observe">>
      BY <2>1 DEF Once
    <2>2. CASE t = <<"observe", "rebuild">>
      <3>1. Len(t) = 2 /\ t[1] = "observe" /\ t[2] = "rebuild"
        BY <2>2
      <3> QED
        BY <3>1 DEF Once
    <2> QED
      BY <2>1, <2>2
  <1> HIDE DEF t
  <1>3. Only(t, {"remove", "observe", "clear", "rebuild"})
    BY <1>1, OnlyLists
  <1>4. Ahead(t, "remove", "await") /\ Ahead(t, "remove", "rebuild")
    <2>1. ~ Lists(t, "remove")
      BY <1>1
    <2> QED
      BY <2>1 DEF Ahead, Lists
  <1>5. RemoveInv(v)'
    BY <1>1, <1>2, <1>3, <1>4 DEF RemoveInv, t
  <1> QED
    BY <1>1, <1>5, EndOfSend DEF Sending, t

\* The wait for the acknowledgement ends, with one or without.
LEMMA AwaitAckWindow == ASSUME Both, NEW p \in Procs, AwaitAck(p) PROVE WindowInv'
  <1> DEFINE a == procs[p].a
  <1>1. IsAt(p, "ack") /\ UNCHANGED <<durable, world>>
    BY DEF AwaitAck
  <1>2. p \in Clients
    BY <1>1, ActsForWindow DEF Both
  <1>3. UNCHANGED <<facts, committed, genOf, row, prompts>> /\ gens' >= gens
    BY <1>1, QuietFacts DEF Both
  <1>4. CASE GoTo(p, Ambiguous) /\ UNCHANGED owner
    <2>1. \A x : Lists(Ambiguous, x) <=> x = "mark"
      BY BreakLists
    <2> QED
      BY <2>1, <1>1, <1>2, <1>3, <1>4, SendingBreaks DEF Sending
  <1>5. CASE GoTo(p, Rest(p)) /\ UNCHANGED owner
    BY <1>1, <1>2, <1>3, <1>5, SendingRest DEF Sending
  <1>6. CASE /\ Owned(a) /\ owner[a].queued # None
             /\ owner' = [owner EXCEPT ![a] = [barrier |-> FALSE, queued |-> None,
                            settled |-> IF @.settled = None THEN @.queued ELSE @.settled]]
             /\ procs' = [procs EXCEPT ![p] = [@ EXCEPT !.todo = <<"observe">>,
                                                       !.snap = owner'[a].settled]]
    <2> DEFINE v == procs'[p]
    <2>1. procs[p] \in Process /\ procs[p].cmd = None /\ a \in Attempts
      BY <1>1, AtFacts DEF Both
    <2>2. v.todo = <<"observe">> /\ v.cmd = None
      BY <2>1, <1>6 DEF Both, TurnInv, Process
    <2>3. \A q \in Procs : q # p => procs'[q] = procs[q]
      BY <1>6 DEF Both, TurnInv
    <2>4. owner \in [Attempts -> Owner \cup {None}]
      BY DEF Both, TurnInv, LogInv
    <2>5. (\A b \in Attempts \ {a} : owner'[b] = owner[b]) /\ owner'[a].settled # None
      BY <2>1, <2>4, <1>6
    <2>6. \A b \in Attempts : (Owned(b)' => Owned(b)) /\ (Free(b)' => Free(b))
      BY <2>5, <1>6 DEF Owned, Free
    <2> SUFFICES ASSUME NEW m, m = v PROVE WindowInv'
      OBVIOUS
    <2>7. Moves(p, m)
      BY <2>3 DEF Moves
    <2>8. ClientInv(m)'
      BY <2>2, ObserveClient
    <2> QED
      BY <2>2, <2>6, <2>7, <2>8, <1>1, <1>2, SendingOwner DEF Sending
  <1> QED
    BY <1>4, <1>5, <1>6 DEF AwaitAck

\* The cursors are those of turns that are begun.
LEMMA RowBounds ==
    ASSUME TurnInv, WindowInv, row # None, NEW a \in Unresolved
    PROVE  /\ row.accepted \in Nat /\ row.committed \in Nat /\ a \in Nat
           /\ row.accepted <= a /\ row.committed <= a
  <1>1. /\ row \in BindingRow /\ facts \subseteq FactTypes \X Attempts
        /\ \A f \in facts : f[2] \in Requested
    BY DEF TurnInv, LogInv
  <1>2. row.accepted \in Attempts \cup {0} /\ row.committed \in Attempts \cup {0} /\ a \in Attempts
    BY <1>1 DEF BindingRow, Unresolved, Requested
  <1>3. Follows(row, 0, None) /\ NumInv
    BY DEF WindowInv, RowInv
  <1>4. row.accepted # 0 => row.accepted \in Requested
    BY <1>1, <1>3 DEF Follows, Has
  <1>5. row.committed # 0 => row.committed \in Requested
    BY <1>2, <1>3 DEF Follows, NumInv
  <1>6. row.accepted # 0 => row.accepted <= a
    BY <1>3, <1>4 DEF NumInv
  <1>7. row.committed # 0 => row.committed <= a
    BY <1>3, <1>5 DEF NumInv
  <1>8. a \in Nat /\ a > 0
    BY <1>2, NumbersFacts
  <1>9. row.accepted \in Nat /\ row.committed \in Nat
    <2>1. Attempts \cup {0} \subseteq Nat
      BY NumbersFacts
    <2> QED
      BY <2>1, <1>2
  <1>10. row.accepted <= a
    <2>1. CASE row.accepted = 0
      BY <2>1, <1>8
    <2> QED
      BY <2>1, <1>6
  <1>11. row.committed <= a
    <2>1. CASE row.committed = 0
      BY <2>1, <1>8
    <2> QED
      BY <2>1, <1>7
  <1> QED
    BY <1>8, <1>9, <1>10, <1>11

\* The delivery is accepted: the cursors of the row follow it.
LEMMA AcceptDeliveryWindow == ASSUME Both, NEW p \in Procs, AcceptDelivery(p) PROVE WindowInv'
  <1> DEFINE a == procs[p].a
             r == [row EXCEPT !.pending.phase = "accepted", !.accepted = a, !.native = TRUE]
  <1>1. IsAt(p, "accept") /\ UNCHANGED <<durable, owner, world>>
    BY DEF AcceptDelivery
  <1>2. p \in Clients
    BY <1>1, ActsForWindow DEF Both
  <1>3. UNCHANGED <<facts, committed, genOf, row, prompts, owner>> /\ gens' >= gens
    BY <1>1, QuietFacts DEF Both
  <1>4. row \in BindingRow /\ row # None /\ a \in Attempts
    BY <1>1, AtFacts DEF Both
  <1>5. CASE GoTo(p, AfterConflict(p))
    <2>1. AfterConflict(p) \in {Ambiguous, <<>>}
      BY <1>1 DEF AfterConflict, IsAt
    <2>2. \A x : Lists(AfterConflict(p), x) => x = "mark"
      BY <2>1, BreakLists, EmptyList
    <2> QED
      BY <2>2, <1>1, <1>2, <1>3, <1>5, SendingBreaks DEF Sending
  <1>6. CASE IsPending(a) /\ row.pending.gen = genOf[a] /\ row.pending.phase = "sent"
             /\ Issue(p, AppendFact("deliveryAccepted", r))
    <2>1. row.pending \in Pending /\ row.pending # None /\ row.pending.attempt = a
      BY <1>4, <1>6 DEF BindingRow, IsPending
    <2>2. /\ r.gen = row.gen /\ r.trusted = row.trusted /\ r.native = TRUE
          /\ r.accepted = a /\ r.committed = row.committed
          /\ r.pending = [row.pending EXCEPT !.phase = "accepted"]
      BY <1>4 DEF BindingRow
    <2>3. /\ r.pending.attempt = a /\ r.pending.phase = "accepted" /\ r.pending.gen = row.pending.gen
          /\ r.pending \in Pending
      BY <2>1, <2>2 DEF Pending
    <2>4. r.pending # None
      BY <2>3, NoneAssumption
    <2> HIDE DEF r
    <2>5. PICK v : /\ Moves(p, v) /\ v.todo = procs[p].todo /\ v.a = a
                   /\ v.cmd = AppendFact("deliveryAccepted", r)
      BY <1>6, Issued DEF Both
    <2>6. v.cmd.row = r /\ v.cmd.fact = "deliveryAccepted"
      BY <2>5 DEF AppendFact
    <2>7. OpenFor(row) /\ Earned(row) /\ Follows(row, 0, None) /\ row.gen <= gens
      BY <1>4 DEF Both, WindowInv, RowInv
    <2>8. a \in Unresolved
      BY <2>1, <2>7 DEF OpenFor
    <2>9. genOf[a] = row.gen
      BY <2>8, <1>4 DEF Both, WindowInv, RowInv, IsCurrent
    <2>10. /\ row.accepted \in Nat /\ row.committed \in Nat /\ a \in Nat
           /\ row.accepted <= a /\ row.committed <= a
      BY <2>8, <1>4, RowBounds DEF Both
    <2>11. OpenFor(r)
      BY <2>1, <2>2, <2>3, <2>7, <2>8 DEF OpenFor
    <2>12. Earned(r)
      BY <2>2, <2>7 DEF Earned
    <2>13. Follows(r, a, "deliveryAccepted")
      <3>1. row.committed # 0 => committed[row.committed] # None
        BY <2>7 DEF Follows
      <3>2. r.committed <= r.accepted
        BY <2>2, <2>10
      <3>3. r.accepted # 0 => genOf[r.accepted] = r.gen /\ r.accepted = a
        BY <2>2, <2>9
      <3>4. r.committed # 0 => committed[r.committed] # None
        BY <3>1, <2>2
      <3> QED
        BY <3>2, <3>3, <3>4 DEF Follows
    <2>14. Written("accept", a, v.cmd)
      <3>1. Later(r)
        BY <2>2, <2>10 DEF Later
      <3>2. r.pending # None /\ r.pending.attempt = a /\ r.pending.phase = "accepted"
        BY <2>3, <2>4
      <3> QED
        BY <3>1, <3>2, <2>6 DEF Written, Committing
    <2> QED
      BY <2>2, <2>5, <2>6, <2>7, <2>11, <2>12, <2>13, <2>14, <1>1, <1>2, <1>3, SendingIssues DEF Sending
  <1> QED
    BY <1>5, <1>6 DEF AcceptDelivery

\* The turn is recorded as accepted.
LEMMA AcceptTurnWindow == ASSUME Both, NEW p \in Procs, AcceptTurn(p) PROVE WindowInv'
  <1> DEFINE r == [row EXCEPT !.state = "ready", !.native = TRUE]
  <1>1. IsAt(p, "acceptTurn") /\ UNCHANGED <<durable, owner, world>>
    BY DEF AcceptTurn
  <1>2. p \in Clients
    BY <1>1, ActsForWindow DEF Both
  <1>3. UNCHANGED <<facts, committed, genOf, row, prompts, owner>> /\ gens' >= gens
    BY <1>1, QuietFacts DEF Both
  <1>4. row \in BindingRow /\ row # None
    BY <1>1, AtFacts DEF Both
  <1>5. CASE GoTo(p, Ambiguous)
    <2>1. \A x : Lists(Ambiguous, x) <=> x = "mark"
      BY BreakLists
    <2> QED
      BY <2>1, <1>1, <1>2, <1>3, <1>5, SendingBreaks
  <1>6. CASE Issue(p, AppendFact("turnAccepted", r))
    <2>1. r \in BindingRow /\ Kept(r) /\ r.trusted = row.trusted /\ r.state = "ready"
      BY <1>4 DEF BindingRow, Kept
    <2> HIDE DEF r
    <2>2. PICK v : /\ Moves(p, v) /\ v.todo = procs[p].todo /\ v.a = procs[p].a
                   /\ v.cmd = AppendFact("turnAccepted", r)
      BY <1>6, Issued DEF Both
    <2>3. v.cmd.row = r /\ v.cmd.fact = "turnAccepted"
      BY <2>2 DEF AppendFact
    <2>4. /\ r.gen <= gens /\ OpenFor(r) /\ Follows(r, v.a, "turnAccepted") /\ Same(r) /\ Earned(r)
          /\ r.pending = row.pending
      BY <2>1, <1>4, KeptRow DEF Both
    <2>5. Written("acceptTurn", v.a, v.cmd)
      BY <2>1, <2>3, <2>4 DEF Written, Committing
    <2> QED
      BY <2>2, <2>3, <2>4, <2>5, <1>1, <1>2, <1>3, SendingIssues
  <1> QED
    BY <1>5, <1>6 DEF AcceptTurn

-----------------------------------------------------------------------------
(***************************************************************************)
(* The check of a dispatch, and the steps of a turn that ends.             *)
(***************************************************************************)
\* The check of a dispatch: only a delivery that is still prepared may go on.
LEMMA CheckPendingWindow == ASSUME Both, NEW p \in Procs, CheckPending(p) PROVE WindowInv'
  <1> DEFINE a == procs[p].a
  <1>1. IsAt(p, "check") /\ UNCHANGED <<durable, owner, world>>
    BY DEF CheckPending
  <1>2. p \in Clients
    BY <1>1, ActsForWindow DEF Both
  <1>3. UNCHANGED <<facts, committed, genOf, row, prompts, owner>> /\ gens' >= gens
    BY <1>1, QuietFacts DEF Both
  <1> SUFFICES ASSUME NEW w, w = procs[p] PROVE WindowInv'
    OBVIOUS
  <1>4. /\ w \in Process /\ w.todo # <<>> /\ Head(w.todo) = "check" /\ w.cmd = None
        /\ Rest(p) = Tail(w.todo) /\ Lists(w.todo, "check") /\ a \in Attempts
        /\ row # None /\ row \in BindingRow
    BY <1>1, AtFacts DEF Both
  <1>5. w.todo \in Seq(Steps)
    BY <1>4 DEF Process
  <1>6. Ordered(w.todo) /\ ~ Lists(w.todo, "remove")
    BY <1>1, <1>2, SendingAlone DEF Both, Sending
  <1>7. CASE GoTo(p, NotAccepted)
    <2>1. \A x : Lists(NotAccepted, x) <=> x \in {"fail", "remove"}
      BY BreakLists
    <2>2. NotAccepted # <<>>
      BY <2>1, EmptyList
    <2>3. PICK v : Moves(p, v) /\ v.todo = NotAccepted /\ v.cmd = None /\ v.a = a
      BY <2>2, <1>7, WentTo DEF Both
    <2>4. Only(v.todo, {"fail", "remove"}) /\ Only(v.todo, {"fail", "failNative", "mark", "remove"})
      BY <2>1, <2>3, OnlyLists
    <2>5. ClientInv(v)'
      BY <2>1, <2>3, <2>4, BriefClient DEF Brief
    <2>6. CmdInv(v)'
      BY <2>3 DEF CmdInv
    <2>7. procs'["observer"] = procs["observer"]
      BY <2>3, <1>2, TurnAssumption DEF Moves, Procs
    <2>8. ASSUME NEW b \in Attempts, Shared(b)' PROVE Accepted(b) /\ Sharing(v, b)
      <3>1. Shared(b)
        BY <2>7, <2>8, <1>3 DEF Shared, Free, Works, Owned
      <3>2. Accepted(b) /\ Sharing(w, b)
        BY <3>1, <1>2 DEF Both, WindowInv, SharedInv
      <3>3. ~ Finishing(w, b)
        BY <1>4, OnlyLists DEF Finishing, Late
      <3>4. Repeating(w)
        BY <3>2, <3>3, <1>4 DEF Sharing
      <3>5. Repeating(v)
        BY <3>4, <2>3, <2>4 DEF Repeating
      <3> QED
        BY <3>2, <3>5 DEF Sharing
    <2>9. \A b \in Attempts : Owned(b)' => Owned(b)
      BY <1>3 DEF Owned
    <2>10. \A b : ~ Removes(p, b)
      BY <1>6 DEF Removes
    <2> QED
      BY <2>3, <2>5, <2>6, <2>8, <2>9, <2>10, <1>2, <1>3, ClientMoves DEF Both
  <1>8. ASSUME IsPendingFor(a) PROVE a \in Unresolved /\ \A b \in Attempts : ~ Shared(b)
    <2>1. row.pending # None /\ row.pending.attempt = a
      BY <1>8 DEF IsPendingFor, IsPending
    <2>2. a \in Unresolved
      BY <2>1, <1>4 DEF Both, WindowInv, RowInv, OpenFor
    <2>3. ASSUME NEW b \in Attempts, Shared(b) PROVE FALSE
      <3>1. Sharing(w, b)
        BY <2>3, <1>2 DEF Both, WindowInv, SharedInv
      <3>2. ~ Finishing(w, b)
        BY <1>4, OnlyLists DEF Finishing, Late
      <3>3. Repeating(w)
        BY <3>1, <3>2, <1>4 DEF Sharing
      <3> QED
        BY <3>3, <2>2 DEF Repeating, Unresolved
    <2> QED
      BY <2>2, <2>3
  <1>9. CASE IsPendingFor(a) /\ GoTo(p, Ambiguous)
    <2>1. \A x : Lists(Ambiguous, x) <=> x = "mark"
      BY BreakLists
    <2>2. Ambiguous # <<>>
      BY <2>1, EmptyList
    <2>3. PICK v : Moves(p, v) /\ v.todo = Ambiguous /\ v.cmd = None /\ v.a = a
      BY <2>2, <1>9, WentTo DEF Both
    <2>4. ClientInv(v)'
      BY <2>1, <2>3, BriefClient DEF Brief
    <2>5. CmdInv(v)'
      BY <2>3 DEF CmdInv
    <2> QED
      BY <2>3, <2>4, <2>5, <1>2, <1>3, <1>6, <1>8, <1>9, AloneMoves
  <1>10. CASE IsPendingFor(a) /\ row.pending.phase = "prepared" /\ GoTo(p, Rest(p))
    <2>1. /\ Ordered(Tail(w.todo))
          /\ \A s : Lists(Tail(w.todo), s) <=> Lists(w.todo, s) /\ s # "check"
          /\ \A x : Ahead(w.todo, x, "check") => ~ Lists(w.todo, x)
      BY <1>4, <1>5, <1>6, RestOfSend
    <2>2. /\ Lists(w.todo, "acceptTurn") /\ Lists(w.todo, "sent") /\ Lists(w.todo, "accept")
          /\ ~ Lists(w.todo, "prepare")
      BY <2>1, <1>4, <1>6 DEF Ordered, Leads, Sending
    <2>3. Tail(w.todo) # <<>>
      <3>1. Lists(Tail(w.todo), "acceptTurn")
        BY <2>1, <2>2
      <3> QED
        BY <3>1, EmptyList
    <2>4. PICK v : Moves(p, v) /\ v.todo = Tail(w.todo) /\ v.cmd = None /\ v.a = a
      <3>1. Rest(p) # <<>>
        BY <2>3, <1>4
      <3>2. PICK v : Moves(p, v) /\ v.todo = Rest(p) /\ v.cmd = None /\ v.a = a
        BY <3>1, <1>10, WentTo DEF Both
      <3> QED
        BY <3>2, <1>4
    <2>5. /\ a \in Unresolved /\ row.pending # None /\ row.pending.attempt = a /\ prompts[a] = 0
          /\ IsPending(a)
      <3>1. row.pending # None /\ row.pending.attempt = a /\ IsPending(a)
        BY <1>10 DEF IsPendingFor, IsPending
      <3> QED
        BY <3>1, <1>4, <1>8, <1>10 DEF Both, WindowInv, RowInv, OpenFor
    <2>6. ~ Has("turnAccepted", a)
      BY <2>5, <1>4 DEF Both, TurnInv, AcceptedInv
    <2>7. Past(v)
      BY <2>1, <2>2, <2>4, <2>5, <2>6, <1>10 DEF Past
    <2>8. Unresolved' = Unresolved
      BY <1>3 DEF Unresolved, Requested, Has
    <2>9. Past(v)'
      BY <2>7, <2>8, <1>3 DEF Past, IsPending, Has
    <2>10. ClientInv(v)'
      BY <2>1, <2>2, <2>4, <2>9, OrderedClient
    <2>11. CmdInv(v)'
      BY <2>4 DEF CmdInv
    <2> QED
      BY <2>4, <2>10, <2>11, <1>2, <1>3, <1>6, <1>8, <1>10, AloneMoves
  <1> QED
    BY <1>7, <1>9, <1>10 DEF CheckPending

\* A window at a late step shares only the turn that it finishes.
LEMMA LateHead ==
    ASSUME WindowInv, NEW c \in Clients, NEW s \in Late \ {"remove"}, procs[c].todo # <<>>,
           Lists(procs[c].todo, s), s = Head(procs[c].todo)
    PROVE  \A b \in Attempts : Shared(b) => Accepted(b) /\ Finishing(procs[c], b)
  <1> SUFFICES ASSUME NEW b \in Attempts, Shared(b), NEW w, w = procs[c]
               PROVE  Accepted(b) /\ Finishing(w, b)
    OBVIOUS
  <1>1. Accepted(b) /\ Sharing(w, b)
    BY DEF WindowInv, SharedInv
  <1>2. ~ Repeating(w)
    BY OnlyLists DEF Repeating, Late
  <1> QED
    BY <1>1, <1>2 DEF Sharing

\* A window at one of the last steps goes on to the rest of them.
LEMMA LateRest ==
    ASSUME Both, NEW c \in Clients, NEW s \in Late \cup {"fail", "failNative"},
           procs[c].todo # <<>>, Head(procs[c].todo) = s, ~ IsBeginning(procs[c]),
           GoTo(c, Rest(c)), UNCHANGED <<durable, world>>,
           \A b \in Attempts : Owned(b)' => Owned(b),
           \A b \in Attempts : Shared(b)' =>
              Accepted(b) /\ (Finishing(procs[c], b) \/ Repeating(procs[c])),
           s = "remove" => owner'[procs[c].a] = None
    PROVE  WindowInv'
  <1>1. c \in Procs
    BY DEF Procs
  <1>2. UNCHANGED <<facts, committed, genOf, row, prompts>> /\ gens' >= gens
    BY QuietFacts DEF Both
  <1>3. PICK v : /\ Moves(c, v) /\ v.todo = Rest(c) /\ v.cmd = None
                 /\ IF Rest(c) = <<>> THEN v = Idle ELSE v.a = procs[c].a
    BY <1>1, WentTo DEF Both
  <1> SUFFICES ASSUME NEW w, w = procs[c], NEW t, t = v.todo PROVE WindowInv'
    OBVIOUS
  <1>4. /\ w.todo \in Seq(Steps) /\ w.a \in Attempts \cup {0} /\ ClientInv(w)
        /\ w.todo # <<>> /\ Head(w.todo) = s /\ t = Tail(w.todo) /\ ~ IsBeginning(w)
        /\ t # <<>> => v.a = w.a
    BY <1>1, <1>3 DEF Both, TurnInv, WindowInv, Process, Rest
  <1>5. /\ \A x : Lists(t, x) => Lists(w.todo, x)
        /\ \A x : Lists(w.todo, x) /\ x # s => Lists(t, x)
        /\ \A S : Only(w.todo, S) => Only(t, S)
        /\ Lists(w.todo, s)
    BY <1>4, RestFacts
  <1>6. ClientInv(v)'
    <2>1. CASE t = <<>>
      BY <2>1, EmptyList, BriefClient
    <2>2. CASE t # <<>>
      <3>1. v.a = w.a /\ v.todo = Tail(w.todo)
        BY <2>2, <1>4
      <3>2. w.a # 0 => (Owned(w.a)' => Owned(w.a))
        BY <1>4
      <3>3. Head(w.todo) \notin {"begin", "check", "sent", "accept", "acceptTurn"}
        BY <1>4 DEF Late
      <3>4. s = "remove" => ~ Held(v)'
        BY <3>1 DEF Held, Owned
      <3> QED
        BY <3>1, <3>2, <3>3, <3>4, <1>2, <1>4, RestClient
    <2> QED
      BY <2>1, <2>2
  <1>7. CmdInv(v)'
    BY <1>3 DEF CmdInv
  <1>8. ASSUME NEW b \in Attempts, Shared(b)' PROVE Accepted(b) /\ Sharing(v, b)
    <2>1. Accepted(b) /\ (Finishing(w, b) \/ Repeating(w))
      BY <1>8
    <2>2. CASE t = <<>>
      BY <2>1, <2>2 DEF Sharing
    <2>3. CASE t # <<>> /\ Finishing(w, b)
      BY <2>1, <2>3, <1>4, <1>5 DEF Sharing, Finishing
    <2>4. CASE t # <<>> /\ Repeating(w)
      <3>1. s # "check"
        BY DEF Late
      <3>2. Only(w.todo, {"fail", "remove"})
        BY <3>1, <2>4, <1>4 DEF Repeating
      <3>3. Only(t, {"fail", "remove"})
        BY <3>2, <1>5
      <3> QED
        BY <3>3, <2>1, <2>4, <1>3, <1>4 DEF Sharing, Repeating
    <2> QED
      BY <2>1, <2>2, <2>3, <2>4
  <1>9. ASSUME NEW b \in Attempts, Owned(b)', committed[b] # None
        PROVE  Owned(b) /\ (Removes(c, b) => v.a = b /\ Lists(t, "remove"))
    <2>1. Owned(b)
      BY <1>9
    <2>2. ASSUME Removes(c, b) PROVE v.a = b /\ Lists(t, "remove")
      <3>1. w.a = b /\ Lists(w.todo, "remove")
        BY <2>2 DEF Removes
      <3>2. s # "remove"
        BY <3>1, <1>9 DEF Owned
      <3>3. Lists(t, "remove")
        BY <3>1, <3>2, <1>5
      <3> QED
        BY <3>1, <3>3, <1>4, EmptyList
    <2> QED
      BY <2>1, <2>2
  <1> QED
    BY <1>2, <1>3, <1>6, <1>7, <1>8, <1>9, ClientMoves DEF Both

\* A window at a late step, when neither the log nor the coordinator changes.
LEMMA LateMoves ==
    ASSUME Both, NEW c \in Clients, NEW s \in Late \ {"remove"}, procs[c].todo # <<>>,
           Head(procs[c].todo) = s,
           NEW v, Moves(c, v), UNCHANGED <<durable, owner, world>>,
           ClientInv(v)', CmdInv(v)',
           \A b \in Attempts : Accepted(b) /\ Finishing(procs[c], b) =>
              Finishing(v, b) \/ v.todo = <<>>,
           \A b \in Attempts : Owned(b) /\ committed[b] # None /\ Removes(c, b) =>
              v.a = b /\ Lists(v.todo, "remove")
    PROVE  WindowInv'
  <1>1. c \in Procs
    BY DEF Procs
  <1>2. UNCHANGED <<facts, committed, genOf, row, prompts>> /\ gens' >= gens
    BY QuietFacts DEF Both
  <1>3. procs'["observer"] = procs["observer"]
    BY TurnAssumption DEF Moves, Procs
  <1>4. Lists(procs[c].todo, s)
    <2>1. procs[c].todo \in Seq(Steps)
      BY <1>1 DEF Both, TurnInv, Process
    <2> QED
      BY <2>1, RestFacts
  <1>5. ASSUME NEW b \in Attempts, Shared(b)' PROVE Accepted(b) /\ Sharing(v, b)
    <2>1. Shared(b)
      BY <1>3, <1>5 DEF Shared, Free, Works, Owned
    <2>2. Accepted(b) /\ Finishing(procs[c], b)
      BY <2>1, <1>4, LateHead DEF Both
    <2> QED
      BY <2>2 DEF Sharing
  <1>6. \A b \in Attempts : Owned(b)' => Owned(b)
    BY DEF Owned
  <1> QED
    BY <1>2, <1>5, <1>6, ClientMoves DEF Both

\* Where the drain is due, the send is over.
LEMMA DrainAt ==
    ASSUME Both, NEW c \in Clients, IsAt(c, "drain"), NEW w, w = procs[c]
    PROVE  /\ w.todo \in Seq(Steps) /\ w.todo # <<>> /\ Head(w.todo) = "drain"
           /\ w.a \in Attempts /\ Accepted(w.a) /\ Finishing(w, w.a)
           /\ \A s : Lists(w.todo, s) => s \in {"drain", "await", "mark", "remove"}
           /\ Lists(w.todo, "drain") /\ ClientInv(w) /\ w \in Process /\ ~ IsBeginning(w)
  <1>1. c \in Procs
    BY DEF Procs
  <1>2. /\ w \in Process /\ w.todo # <<>> /\ Head(w.todo) = "drain" /\ w.cmd = None
        /\ Lists(w.todo, "drain") /\ ClientInv(w)
    <2>1. w \in Process /\ w.todo # <<>> /\ Head(w.todo) = "drain" /\ w.cmd = None /\ Lists(w.todo, "drain")
      BY <1>1, AtFacts DEF Both
    <2> QED
      BY <2>1 DEF Both, WindowInv
  <1>3. w.todo \in Seq(Steps)
    BY <1>2 DEF Process
  <1>4. \A x : Ahead(w.todo, x, "drain") => ~ Lists(w.todo, x)
    BY <1>2, <1>3, RestFacts
  <1>5. ~ Lists(w.todo, "acceptTurn")
    <2>1. Lists(w.todo, "acceptTurn") => Ordered(w.todo)
      BY <1>2 DEF ClientInv, SendInv
    <2> QED
      BY <2>1, <1>4 DEF Ordered
  <1>6. /\ Only(w.todo, {"publish", "drain", "await", "mark", "remove"})
        /\ Lists(w.todo, "mark") => committed[w.a] # None
        /\ w.a \in Attempts /\ Accepted(w.a) /\ Ahead(w.todo, "publish", "drain")
    BY <1>2, <1>5 DEF ClientInv, DrainInv
  <1>7. \A s : Lists(w.todo, s) => s \in {"drain", "await", "mark", "remove"}
    BY <1>4, <1>6, OnlyLists
  <1>8. Only(w.todo, Late)
    BY <1>7, OnlyLists DEF Late
  <1>9. Finishing(w, w.a)
    BY <1>6, <1>8 DEF Finishing
  <1> QED
    BY <1>2, <1>3, <1>6, <1>7, <1>9 DEF IsBeginning

\* The barrier is lifted, and a terminal that is queued is taken up.
LEMMA DrainWindow == ASSUME Both, NEW p \in Procs, Drain(p) PROVE WindowInv'
  <1> DEFINE a == procs[p].a
  <1>1. IsAt(p, "drain") /\ UNCHANGED <<durable, world>>
    BY DEF Drain
  <1>2. p \in Clients
    BY <1>1, ActsForWindow DEF Both
  <1>3. UNCHANGED <<facts, committed, genOf, row, prompts>> /\ gens' >= gens
    BY <1>1, QuietFacts DEF Both
  <1> SUFFICES ASSUME NEW w, w = procs[p] PROVE WindowInv'
    OBVIOUS
  <1>4. /\ w.todo \in Seq(Steps) /\ w.todo # <<>> /\ Head(w.todo) = "drain"
        /\ w.a \in Attempts /\ Accepted(w.a) /\ Finishing(w, w.a)
        /\ \A s : Lists(w.todo, s) => s \in {"drain", "await", "mark", "remove"}
        /\ Lists(w.todo, "drain") /\ ClientInv(w) /\ w \in Process /\ ~ IsBeginning(w)
    BY <1>1, <1>2, DrainAt
  <1>5. owner \in [Attempts -> Owner \cup {None}]
    BY DEF Both, TurnInv, LogInv
  <1>6. ASSUME \A b \in Attempts \ {a} : owner'[b] = owner[b],
               procs'["observer"] = procs["observer"], NEW b \in Attempts, Shared(b)'
        PROVE  Accepted(b) /\ Finishing(w, b)
    <2>1. CASE b = a
      BY <2>1, <1>4
    <2>2. CASE b # a
      <3>1. owner'[b] = owner[b]
        BY <2>2, <1>6
      <3>2. Shared(b)
        BY <3>1, <1>6 DEF Shared, Free, Works, Owned
      <3> QED
        BY <3>2, <1>2, <1>4, LateHead DEF Both, Late
    <2> QED
      BY <2>1, <2>2
  <1>7. \A n : GoTo(p, n) => procs'["observer"] = procs["observer"]
    BY <1>2, TurnAssumption DEF GoTo, Both, TurnInv, Procs
  <1>8. CASE GoTo(p, Rest(p)) /\ UNCHANGED owner
    <2>1. \A b \in Attempts : Owned(b)' => Owned(b)
      BY <1>8 DEF Owned
    <2>2. \A b \in Attempts : Shared(b)' => Accepted(b) /\ Finishing(w, b)
      BY <1>6, <1>7, <1>8
    <2> QED
      BY <2>1, <2>2, <1>1, <1>2, <1>4, <1>8, LateRest DEF Late
  <1>9. CASE Owned(a) /\ owner' = [owner EXCEPT ![a].barrier = FALSE] /\ GoTo(p, Rest(p))
    <2>1. \A b \in Attempts \ {a} : owner'[b] = owner[b]
      BY <1>5, <1>9
    <2>2. \A b \in Attempts : Owned(b)' => Owned(b)
      BY <2>1, <1>9 DEF Owned
    <2>3. \A b \in Attempts : Shared(b)' => Accepted(b) /\ Finishing(w, b)
      BY <2>1, <1>6, <1>7, <1>9
    <2> QED
      BY <2>2, <2>3, <1>1, <1>2, <1>4, <1>9, LateRest DEF Late
  <1>10. CASE /\ Owned(a) /\ owner[a].queued # None
              /\ owner' = [owner EXCEPT ![a].queued = None,
                              ![a].settled = IF Settled(a) THEN @ ELSE owner[a].queued]
              /\ procs' = [procs EXCEPT ![p] = [@ EXCEPT !.snap = owner[a].queued,
                             !.todo = IF Settled(a) THEN procs[p].todo
                                      ELSE <<"publish">> \o procs[p].todo]]
    <2> DEFINE n == IF Settled(a) THEN w.todo ELSE <<"publish">> \o w.todo
               v == [w EXCEPT !.snap = owner[a].queued, !.todo = n]
    <2>1. procs'[p] = v /\ procs'["observer"] = procs["observer"]
      BY <1>2, <1>10, TurnAssumption DEF Both, TurnInv, Procs
    <2>2. v.todo = n /\ v.a = a /\ v.cmd = None
      BY <1>1, <1>4 DEF Process, IsAt
    <2>3. \A q \in Procs : q # p => procs'[q] = procs[q]
      BY <1>10 DEF Both, TurnInv
    <2>4. \A b \in Attempts \ {a} : owner'[b] = owner[b]
      BY <1>5, <1>10
    <2>5. \A b \in Attempts : Owned(b)' => Owned(b)
      BY <2>4, <1>10 DEF Owned
    <2>6. \A b \in Attempts : Shared(b)' => Accepted(b) /\ Finishing(w, b)
      BY <2>1, <2>4, <1>6
    <2> HIDE DEF v
    <2>7. \A x : Lists(<<"publish">>, x) <=> x = "publish"
      BY ListsOf
    <2>8. /\ \A x : Lists(n, x) => x = "publish" \/ Lists(w.todo, x)
          /\ \A x : Lists(w.todo, x) => Lists(n, x)
          /\ \A x, y : y # "publish" /\ Ahead(w.todo, x, y) => Ahead(n, x, y)
      <3>1. CASE Settled(a)
        BY <3>1
      <3>2. CASE ~ Settled(a)
        <4>1. <<"publish">> \in Seq(Steps)
          BY DEF Steps
        <4>2. After(<<"publish">>, w.todo, <<"publish">> \o w.todo)
          BY <4>1, <1>4, JoinAfter
        <4>3. After(<<"publish">>, w.todo, n)
          BY <4>2, <3>2
        <4> QED
          BY <4>3, <2>7 DEF After
      <3> QED
        BY <3>1, <3>2
    <2> HIDE DEF n
    <2> SUFFICES ASSUME NEW m, m = v, NEW t, t = n PROVE WindowInv'
      OBVIOUS
    <2>9. \A x : Lists(t, x) => x \in {"publish", "drain", "await", "mark", "remove"}
      BY <2>8, <1>4
    <2>10. Lists(t, "drain")
      BY <2>8, <1>4
    <2>11. Lists(t, "mark") => committed[w.a] # None
      BY <2>8, <1>4 DEF Finishing
    <2>17. m.todo = t /\ m.a = w.a /\ m.cmd = None
      BY <2>2
    <2>12. ClientInv(m)'
      <3>1. SendInv(m)'
        BY <2>17, <2>9 DEF SendInv, Sending
      <3>2. DrainInv(m)'
        <4>1. Only(t, {"publish", "drain", "await", "mark", "remove"}) /\ ~ Lists(t, "acceptTurn")
          BY <2>9, OnlyLists
        <4>2. Ahead(t, "publish", "drain")
          BY <2>8, <1>4 DEF ClientInv, DrainInv
        <4>3. Accepted(w.a)'
          BY <1>3, <1>4 DEF Accepted, Unresolved, Requested, Has
        <4> QED
          BY <4>1, <4>2, <4>3, <2>17, <2>10, <2>11, <1>3, <1>4 DEF DrainInv
      <3>3. Ahead(t, "remove", "await") /\ Ahead(t, "remove", "rebuild")
        BY <2>8, <1>4 DEF ClientInv, RemoveInv
      <3>4. RemoveInv(m)'
        BY <3>3, <2>17, <2>9 DEF RemoveInv
      <3> QED
        BY <3>1, <3>2, <3>4 DEF ClientInv
    <2>13. CmdInv(m)'
      BY <2>17 DEF CmdInv
    <2>14. \A b \in Attempts : Finishing(w, b) => Finishing(m, b)
      <3>1. Only(t, Late)
        BY <2>9, OnlyLists DEF Late
      <3> QED
        BY <3>1, <2>17, <2>11 DEF Finishing
    <2>15. \A b : Removes(p, b) => m.a = b /\ Lists(m.todo, "remove")
      BY <2>17, <2>8 DEF Removes
    <2>16. Moves(p, m)
      BY <2>1, <2>3 DEF Moves
    <2>18. \A b \in Attempts : Shared(b)' => Accepted(b) /\ Sharing(m, b)
      BY <2>6, <2>14 DEF Sharing
    <2> QED
      BY <2>5, <2>12, <2>13, <2>15, <2>16, <2>18, <1>2, <1>3, ClientMoves DEF Both
  <1> QED
    BY <1>8, <1>9, <1>10 DEF Drain

\* The wait for the end of the turn is over.
LEMMA AwaitTerminalWindow == ASSUME Both, NEW p \in Procs, AwaitTerminal(p) PROVE WindowInv'
  <1> DEFINE a == procs[p].a
  <1>1. IsAt(p, "await") /\ UNCHANGED <<durable, owner, world>>
    BY DEF AwaitTerminal
  <1>2. p \in Clients
    BY <1>1, ActsForWindow DEF Both
  <1> SUFFICES ASSUME NEW w, w = procs[p] PROVE WindowInv'
    OBVIOUS
  <1>3. /\ w \in Process /\ w.todo # <<>> /\ Head(w.todo) = "await" /\ w.cmd = None
        /\ Lists(w.todo, "await") /\ w.todo \in Seq(Steps)
    <2>1. w \in Process /\ w.todo # <<>> /\ Head(w.todo) = "await" /\ w.cmd = None /\ Lists(w.todo, "await")
      BY <1>1, AtFacts DEF Both
    <2> QED
      BY <2>1 DEF Process
  <1>4. ~ Lists(w.todo, "remove")
    <2>1. Ahead(w.todo, "remove", "await")
      BY <1>2 DEF Both, WindowInv, ClientInv, RemoveInv
    <2> QED
      BY <2>1, <1>3, RestFacts
  <1>5. \A b : ~ Removes(p, b)
    BY <1>4 DEF Removes
  <1>6. CASE GoTo(p, <<>>)
    <2>1. PICK v : Moves(p, v) /\ v.todo = <<>> /\ v.cmd = None
      BY <1>6, WentTo DEF Both
    <2>2. ClientInv(v)'
      BY <2>1, EmptyList, BriefClient
    <2>3. CmdInv(v)'
      BY <2>1 DEF CmdInv
    <2> QED
      BY <2>1, <2>2, <2>3, <1>1, <1>2, <1>3, <1>5, LateMoves DEF Late
  <1>7. CASE procs' = [procs EXCEPT ![p] = [@ EXCEPT !.todo = <<"observe">>, !.snap = owner[a].settled]]
    <2>1. PICK m : m.todo = <<"observe">> /\ m.a = w.a /\ m.cmd = None /\ Moves(p, m)
      <3> DEFINE k == [w EXCEPT !.todo = <<"observe">>, !.snap = owner[a].settled]
      <3>1. k.todo = <<"observe">> /\ k.a = w.a /\ k.cmd = None
        BY <1>3 DEF Process
      <3>2. Moves(p, k)
        BY <1>7 DEF Moves, Both, TurnInv
      <3> QED
        BY <3>1, <3>2
    <2>3. ClientInv(m)'
      BY <2>1, ObserveClient
    <2>4. CmdInv(m)'
      BY <2>1 DEF CmdInv
    <2>5. \A x : Lists(m.todo, x) => x = "observe"
      BY <2>1, ListsOf
    <2>6. Only(m.todo, Late)
      BY <2>5, OnlyLists DEF Late
    <2>7. \A b \in Attempts : Finishing(w, b) => Finishing(m, b)
      BY <2>1, <2>5, <2>6 DEF Finishing
    <2> QED
      BY <2>1, <2>3, <2>4, <2>7, <1>1, <1>2, <1>3, <1>5, LateMoves DEF Late
  <1> QED
    BY <1>6, <1>7 DEF AwaitTerminal

\* The event path goes on, and nothing else changes.
LEMMA ObserverQuiet ==
    ASSUME Both, NEW v, Moves("observer", v), UNCHANGED <<durable, world>>,
           Publishing(v)', CmdInv(v)',
           v.todo # <<>> => v.a = procs["observer"].a /\ procs["observer"].todo # <<>>,
           \A b \in Attempts : (Owned(b)' => Owned(b)) /\ (Free(b)' => Free(b)),
           \A b \in Attempts : Owned(b)' /\ committed[b] # None /\ Removes("observer", b) =>
              v.a = b /\ Lists(v.todo, "remove")
    PROVE  WindowInv'
  <1>1. UNCHANGED <<facts, committed, genOf, row, prompts>> /\ gens' >= gens
    BY QuietFacts DEF Both
  <1>2. procs'["observer"] = v
    BY DEF Moves
  <1>3. \A b \in Attempts : Shared(b)' => Shared(b)
    BY <1>2 DEF Shared, Works
  <1> QED
    BY <1>1, <1>3, ObserverMoves DEF Both

\* What the event path is at, and what the window may be at beside it.
LEMMA ObserverAt ==
    ASSUME Both, NEW w, w = procs["observer"], w.todo # <<>>
    PROVE  /\ "observer" \in Procs /\ w \in Process /\ w.todo \in Seq(Steps) /\ ~ IsBeginning(w)
           /\ w.a \in Attempts /\ w.a \in Requested /\ Works(w.a) /\ Accepted(w.a)
           /\ \A c \in Clients : Sharing(procs[c], w.a)
           /\ Finishing(w, w.a) /\ Lists(w.todo, Head(w.todo))
           /\ \/ (\A s : Lists(w.todo, s) <=> s = "publish") /\ Once(w.todo)
              \/ (\A s : Lists(w.todo, s) => s \in {"mark", "remove"}) /\ committed[w.a] # None
  <1>1. "observer" \in Procs /\ w \in Process /\ w.todo \in Seq(Steps)
    BY DEF Both, TurnInv, Procs, Process
  <1>2. /\ w.a \in Attempts
        /\ \/ Only(w.todo, {"publish"}) /\ Once(w.todo)
           \/ Only(w.todo, {"mark", "remove"}) /\ committed[w.a] # None
    BY DEF Both, WindowInv, ObserverInv, Publishing
  <1>3. Works(w.a) /\ Shared(w.a)
    BY DEF Works, Shared
  <1>4. Accepted(w.a) /\ \A c \in Clients : Sharing(procs[c], w.a)
    BY <1>2, <1>3 DEF Both, WindowInv, SharedInv
  <1>5. Lists(w.todo, Head(w.todo))
    BY <1>1, RestFacts
  <1>6. Only(w.todo, Late) /\ (Lists(w.todo, "mark") => committed[w.a] # None)
    BY <1>2, OnlyLists DEF Late
  <1>7. Head(w.todo) # "begin"
    BY <1>2, <1>5, OnlyLists
  <1>8. ~ IsBeginning(w)
    <2>1. IsBeginning(w) => w.todo = Send
      BY <1>1 DEF Both, TurnInv, Fits
    <2> QED
      BY <2>1, <1>7, SendOrder
  <1>9. w.a \in Requested
    BY <1>1, <1>2, NumbersFacts DEF Both, TurnInv, Fits
  <1>10. Only(w.todo, {"publish"}) => \A s : Lists(w.todo, s) <=> s = "publish"
    BY <1>5, OnlyLists
  <1> QED
    BY <1>1, <1>2, <1>3, <1>4, <1>5, <1>6, <1>8, <1>9, <1>10, OnlyLists DEF Finishing

\* The coordinator forgets the turn of the process.
LEMMA RemoveAttemptWindow == ASSUME Both, NEW p \in Procs, RemoveAttempt(p) PROVE WindowInv'
  <1> DEFINE a == procs[p].a
  <1>1. /\ IsAt(p, "remove") /\ UNCHANGED <<durable, world>>
        /\ owner' = [owner EXCEPT ![a] = None] /\ GoTo(p, Rest(p))
    BY DEF RemoveAttempt
  <1> SUFFICES ASSUME NEW w, w = procs[p] PROVE WindowInv'
    OBVIOUS
  <1>2. /\ w \in Process /\ w.todo # <<>> /\ Head(w.todo) = "remove" /\ w.cmd = None
        /\ Rest(p) = Tail(w.todo) /\ w.a \in Attempts /\ Lists(w.todo, "remove")
    BY <1>1, AtFacts DEF Both
  <1>3. w.todo \in Seq(Steps)
    BY <1>2 DEF Process
  <1>4. owner \in [Attempts -> Owner \cup {None}]
    BY DEF Both, TurnInv, LogInv
  <1>5. owner'[w.a] = None /\ \A b \in Attempts \ {w.a} : owner'[b] = owner[b]
    BY <1>1, <1>2, <1>4
  <1>6. \A b \in Attempts : (Owned(b)' => Owned(b)) /\ (Free(b)' => Free(b))
    BY <1>5 DEF Owned, Free
  <1>7. PICK v : /\ Moves(p, v) /\ v.todo = Rest(p) /\ v.cmd = None
                 /\ IF Rest(p) = <<>> THEN v = Idle ELSE v.a = procs[p].a
    BY <1>1, WentTo DEF Both
  <1>8. CASE p = "observer"
    <2>1. /\ \A s : Lists(w.todo, s) => s \in {"mark", "remove"}
          /\ committed[w.a] # None
      BY <1>2, <1>8, ObserverAt
    <2>2. v.todo = Tail(w.todo) /\ (v.todo # <<>> => v.a = w.a)
      BY <1>2, <1>7
    <2>3. \A s : Lists(v.todo, s) => s \in {"mark", "remove"}
      BY <2>1, <2>2, <1>2, <1>3, RestFacts
    <2>4. Publishing(v)'
      <3>1. committed' = committed
        BY <1>1 DEF durable
      <3>2. Only(v.todo, {"mark", "remove"})
        BY <2>3, OnlyLists
      <3> QED
        BY <3>1, <3>2, <2>1, <2>2, <1>2 DEF Publishing
    <2>5. CmdInv(v)'
      BY <1>7 DEF CmdInv
    <2>6. ASSUME NEW b \in Attempts, Owned(b)', Removes("observer", b) PROVE FALSE
      BY <2>6, <1>5, <1>8 DEF Removes, Owned
    <2> QED
      BY <2>2, <2>4, <2>5, <2>6, <1>1, <1>2, <1>6, <1>7, <1>8, ObserverQuiet
  <1>9. CASE p # "observer"
    <2>1. p \in Clients
      BY <1>9 DEF Procs
    <2>2. procs'["observer"] = procs["observer"]
      BY <1>7, <1>9 DEF Moves, Procs
    <2>3. ASSUME NEW b \in Attempts, Shared(b)'
          PROVE  Accepted(b) /\ (Finishing(w, b) \/ Repeating(w))
      <3>1. Shared(b)
        BY <2>2, <2>3, <1>6 DEF Shared, Works
      <3>2. Accepted(b) /\ Sharing(w, b)
        BY <3>1, <2>1 DEF Both, WindowInv, SharedInv
      <3> QED
        BY <3>2, <1>2 DEF Sharing
    <2>4. ~ IsBeginning(w)
      BY <1>2 DEF IsBeginning
    <2> QED
      BY <2>1, <2>3, <2>4, <1>1, <1>2, <1>5, <1>6, LateRest DEF Late
  <1> QED
    BY <1>8, <1>9

\* What giving a turn up leaves to do.
LEMMA GiveUpClient ==
    ASSUME NEW v, NEW t, v.todo = t,
           t = <<"remove", "observe", "clear">> \/ t = <<"remove", "settle", "clear", "remove">>
    PROVE  /\ ClientInv(v)'
           /\ Lists(t, "remove") /\ t # <<>>
           /\ \A x : Lists(t, x) => x \in {"remove", "observe", "settle", "clear"}
  <1>1. CASE t = <<"remove", "observe", "clear">>
    <2>1. \A x : Lists(t, x) <=> x \in {"remove", "observe", "clear"}
      BY <1>1, ListsOf
    <2>2. Head(t) = "remove" /\ t # <<>> /\ Once(t)
      <3>1. Len(t) = 3 /\ t[1] = "remove" /\ t[2] = "observe" /\ t[3] = "clear"
        BY <1>1
      <3>2. Once(t)
        BY <3>1 DEF Once
      <3> QED
        BY <3>1, <3>2, <1>1
    <2>3. Only(t, {"remove", "observe", "clear", "rebuild"})
      BY <2>1, OnlyLists
    <2>4. Ahead(t, "remove", "await") /\ Ahead(t, "remove", "rebuild")
      BY <2>1, AheadOfNothing
    <2>5. RemoveInv(v)'
      BY <2>1, <2>2, <2>3, <2>4 DEF RemoveInv
    <2> QED
      BY <2>1, <2>2, <2>5, EndOfSend DEF Sending
  <1>2. CASE t = <<"remove", "settle", "clear", "remove">>
    <2>1. \A x : Lists(t, x) <=> x \in {"remove", "settle", "clear"}
      BY <1>2, ListsOf
    <2>2. Head(t) = "remove" /\ t # <<>> /\ Single(t, "settle")
      <3>1. Len(t) = 4 /\ t[1] = "remove" /\ t[2] = "settle" /\ t[3] = "clear" /\ t[4] = "remove"
        BY <1>2
      <3>2. Single(t, "settle")
        BY <3>1 DEF Single
      <3> QED
        BY <3>1, <3>2, <1>2
    <2>3. Only(t, {"remove", "settle", "clear"})
      BY <2>1, OnlyLists
    <2>4. Ahead(t, "remove", "await") /\ Ahead(t, "remove", "rebuild")
      BY <2>1, AheadOfNothing
    <2>5. RemoveInv(v)'
      BY <2>1, <2>2, <2>3, <2>4 DEF RemoveInv
    <2> QED
      BY <2>1, <2>2, <2>5, EndOfSend DEF Sending
  <1> QED
    BY <1>1, <1>2

\* An abandoned turn ends as skipped, or by the terminal that settled it.
LEMMA SkipWindow == ASSUME Both, NEW p \in Procs, Skip(p) PROVE WindowInv'
  <1>1. IsAt(p, "skip") /\ UNCHANGED <<durable, owner, world>>
    BY DEF Skip
  <1>2. p \in Clients
    BY <1>1, ActsForWindow DEF Both
  <1> SUFFICES ASSUME NEW w, w = procs[p] PROVE WindowInv'
    OBVIOUS
  <1>3. w \in Process /\ w.todo # <<>> /\ Head(w.todo) = "skip" /\ w.cmd = None
    BY <1>1, AtFacts DEF Both
  <1>4. PICK s, t : /\ procs' = [procs EXCEPT ![p] = [@ EXCEPT !.snap = s, !.todo = t]]
                    /\ t \in {<<"remove", "observe", "clear">>, <<"remove", "settle", "clear", "remove">>}
    <2>1. CASE Settled(w.a)
      BY <2>1 DEF Skip
    <2>2. CASE ~ Settled(w.a)
      BY <2>2 DEF Skip
    <2> QED
      BY <2>1, <2>2
  <1>5. PICK m : m.todo = t /\ m.a = w.a /\ m.cmd = None /\ Moves(p, m)
    <2> DEFINE k == [w EXCEPT !.snap = s, !.todo = t]
    <2>1. k.todo = t /\ k.a = w.a /\ k.cmd = None
      BY <1>3 DEF Process
    <2>2. Moves(p, k)
      BY <1>4 DEF Moves, Both, TurnInv
    <2> QED
      BY <2>1, <2>2
  <1>7. /\ ClientInv(m)' /\ Lists(t, "remove")
        /\ \A x : Lists(t, x) => x \in {"remove", "observe", "settle", "clear"}
    <2>1. t = <<"remove", "observe", "clear">> \/ t = <<"remove", "settle", "clear", "remove">>
      BY <1>4
    <2> QED
      BY <2>1, <1>5, GiveUpClient
  <1>8. CmdInv(m)'
    BY <1>5 DEF CmdInv
  <1>9. \A b \in Attempts : Finishing(w, b) => Finishing(m, b)
    <2>1. Only(t, Late)
      BY <1>7, OnlyLists DEF Late
    <2> QED
      BY <2>1, <1>5, <1>7 DEF Finishing
  <1>10. \A b : Removes(p, b) => m.a = b /\ Lists(m.todo, "remove")
    BY <1>5, <1>7 DEF Removes
  <1> QED
    BY <1>1, <1>2, <1>3, <1>5, <1>7, <1>8, <1>9, <1>10, LateMoves DEF Late

\* A row is computed at a late step: what it keeps, it keeps.
LEMMA LateUpserts ==
    ASSUME Both, NEW c \in Clients, NEW s \in {"mark", "clear"}, IsAt(c, s),
           NEW r \in BindingRow, Kept(r), row # None, r.trusted => row.trusted,
           s = "mark" => r.state = "recovery-required", s = "clear" => Unresolved = {},
           Issue(c, Upsert(r)), UNCHANGED <<durable, owner, world>>
    PROVE  WindowInv'
  <1>1. c \in Procs
    BY DEF Procs
  <1> SUFFICES ASSUME NEW w, w = procs[c] PROVE WindowInv'
    OBVIOUS
  <1>2. PICK v : /\ Moves(c, v) /\ v.todo = w.todo /\ v.cmd = Upsert(r) /\ v.a = w.a
    BY <1>1, Issued DEF Both
  <1>3. v.cmd.row = r /\ v.cmd.fact = None /\ None # "turnRequested"
    BY <1>2, NoneAssumption DEF Upsert, FactTypes
  <1>4. w.todo # <<>> /\ Head(w.todo) = s /\ w.cmd = None
    BY DEF IsAt
  <1>5. UNCHANGED <<facts, committed, genOf, row, prompts>> /\ gens' >= gens
    BY QuietFacts DEF Both
  <1>6. ClientInv(v)'
    <2>1. ClientInv(w)
      BY DEF Both, WindowInv
    <2>2. Owned(w.a)' => Owned(w.a)
      BY DEF Owned
    <2> QED
      BY <2>1, <2>2, <1>2, <1>3, <1>4, <1>5, IssuedClient
  <1>7. CmdInv(v)'
    <2>1. /\ r.gen <= gens /\ OpenFor(r) /\ Follows(r, v.a, None) /\ Same(r) /\ Earned(r)
          /\ r.pending = row.pending
      BY KeptRow DEF Both
    <2>2. Written(s, v.a, v.cmd)
      BY <2>1, <1>3 DEF Written, Committing
    <2>3. CmdInv(v)
      BY <2>1, <2>2, <1>2, <1>3, <1>4 DEF CmdInv
    <2>4. v.cmd \in Cmd \cup {None}
      BY <1>1, <1>2 DEF Both, TurnInv, Moves, Process
    <2> QED
      BY <2>3, <2>4, <1>5, LogStays DEF Both, WindowInv
  <1>8. \A b \in Attempts : Finishing(w, b) => Finishing(v, b)
    BY <1>2 DEF Finishing
  <1>9. \A b : Removes(c, b) => v.a = b /\ Lists(v.todo, "remove")
    BY <1>2 DEF Removes
  <1> QED
    BY <1>2, <1>4, <1>6, <1>7, <1>8, <1>9, LateMoves DEF Late

\* The recovery flag is taken off the binding.
LEMMA ClearRecoveryWindow == ASSUME Both, NEW p \in Procs, ClearRecovery(p) PROVE WindowInv'
  <1> DEFINE r == [row EXCEPT !.state = ReadyOrPrepared(row.native), !.trusted = FALSE]
  <1>1. IsAt(p, "clear") /\ UNCHANGED <<durable, owner, world>>
    BY DEF ClearRecovery
  <1>2. p \in Clients
    BY <1>1, ActsForWindow DEF Both
  <1>3. /\ row \in BindingRow /\ row # None /\ Lists(procs[p].todo, "clear")
        /\ procs[p].todo # <<>> /\ Head(procs[p].todo) = "clear" /\ procs[p].cmd = None
    BY <1>1, AtFacts DEF Both
  <1>4. CASE GoTo(p, Rest(p))
    <2>1. procs'["observer"] = procs["observer"]
      BY <1>2, <1>4, TurnAssumption DEF GoTo, Both, TurnInv, Procs
    <2>2. \A b \in Attempts : Shared(b)' => Accepted(b) /\ Finishing(procs[p], b)
      <3>1. \A b \in Attempts : Shared(b)' => Shared(b)
        BY <2>1, <1>1 DEF Shared, Free, Works, Owned
      <3> QED
        BY <3>1, <1>2, <1>3, LateHead DEF Both, Late
    <2>3. \A b \in Attempts : Owned(b)' => Owned(b)
      BY <1>1 DEF Owned
    <2>4. ~ IsBeginning(procs[p])
      BY <1>3 DEF IsBeginning
    <2> QED
      BY <2>2, <2>3, <2>4, <1>1, <1>2, <1>3, <1>4, LateRest DEF Late
  <1>5. CASE Unresolved = {} /\ Issue(p, Upsert(r))
    <2>1. r \in BindingRow /\ Kept(r) /\ r.trusted = FALSE
      BY <1>3 DEF BindingRow, Kept, ReadyOrPrepared
    <2> HIDE DEF r
    <2> QED
      BY <2>1, <1>1, <1>2, <1>3, <1>5, LateUpserts
  <1> QED
    BY <1>4, <1>5 DEF ClearRecovery

\* The recovery flag is put on the binding.
LEMMA MarkRecoveryWindow == ASSUME Both, NEW p \in Procs, MarkRecovery(p) PROVE WindowInv'
  <1> DEFINE r == [row EXCEPT !.state = "recovery-required", !.trusted = FALSE]
  <1>1. IsAt(p, "mark") /\ UNCHANGED <<durable, owner, world>> /\ Issue(p, Upsert(r))
    BY DEF MarkRecovery
  <1>2. row \in BindingRow /\ row # None
    BY <1>1, AtFacts DEF Both
  <1>3. r \in BindingRow /\ Kept(r) /\ r.trusted = FALSE /\ r.state = "recovery-required"
    BY <1>2 DEF BindingRow, Kept
  <1> HIDE DEF r
  <1>4. CASE p \in Clients
    BY <1>1, <1>2, <1>3, <1>4, LateUpserts
  <1>5. CASE p = "observer"
    <2> SUFFICES ASSUME NEW w, w = procs[p] PROVE WindowInv'
      OBVIOUS
    <2>1. PICK v : /\ Moves(p, v) /\ v.todo = w.todo /\ v.cmd = Upsert(r) /\ v.a = w.a
      BY <1>1, Issued DEF Both
    <2>2. v.cmd.row = r /\ v.cmd.fact = None
      BY <2>1 DEF Upsert
    <2>3. w.todo # <<>> /\ Head(w.todo) = "mark"
      BY <1>1 DEF IsAt
    <2>4. UNCHANGED <<facts, committed, genOf, row, prompts>> /\ gens' >= gens
      BY <1>1, QuietFacts DEF Both
    <2>5. Publishing(v)'
      <3>1. Publishing(w)
        BY <1>5 DEF Both, WindowInv, ObserverInv
      <3> QED
        BY <3>1, <2>1, <2>4 DEF Publishing
    <2>6. CmdInv(v)'
      <3>1. /\ r.gen <= gens /\ OpenFor(r) /\ Follows(r, v.a, None) /\ Same(r) /\ Earned(r)
            /\ r.pending = row.pending
        BY <1>2, <1>3, KeptRow DEF Both
      <3>2. Written("mark", v.a, v.cmd)
        BY <3>1, <2>2, <1>3 DEF Written, Committing
      <3>3. CmdInv(v)
        BY <3>1, <3>2, <2>1, <2>2, <2>3 DEF CmdInv
      <3>4. v.cmd \in Cmd \cup {None}
        BY <2>1 DEF Both, TurnInv, Moves, Process
      <3> QED
        BY <3>3, <3>4, <2>4, LogStays DEF Both, WindowInv
    <2>7. \A b \in Attempts : (Owned(b)' => Owned(b)) /\ (Free(b)' => Free(b))
      BY <1>1 DEF Owned, Free
    <2>8. \A b : Removes("observer", b) => v.a = b /\ Lists(v.todo, "remove")
      BY <2>1, <1>5 DEF Removes
    <2> QED
      BY <2>1, <2>3, <2>5, <2>6, <2>7, <2>8, <1>1, <1>5, ObserverQuiet
  <1> QED
    BY <1>4, <1>5 DEF Procs

\* The window is reloaded between two commands of a send.
LEMMA ReloadWindow == ASSUME Both, NEW p \in Procs, Reload(p) PROVE WindowInv'
  <1>1. p \in Clients /\ UNCHANGED <<durable, owner, world>> /\ GoTo(p, <<>>)
    BY DEF Reload
  <1>2. UNCHANGED <<facts, committed, genOf, row, prompts>> /\ gens' >= gens
    BY <1>1, QuietFacts DEF Both
  <1>3. ~ Lists(procs[p].todo, "remove")
    <2>1. CASE IsAt(p, "prepare") \/ IsAt(p, "check")
      BY <2>1, <1>1, SendingAlone DEF Both, Sending
    <2>2. CASE IsAt(p, "await")
      <3> SUFFICES ASSUME NEW w, w = procs[p] PROVE ~ Lists(w.todo, "remove")
        OBVIOUS
      <3>1. w \in Process /\ w.todo # <<>> /\ Head(w.todo) = "await"
        BY <2>2, AtFacts DEF Both
      <3>2. w.todo \in Seq(Steps)
        BY <3>1 DEF Process
      <3>3. Ahead(w.todo, "remove", "await")
        BY <1>1 DEF Both, WindowInv, ClientInv, RemoveInv
      <3> QED
        BY <3>1, <3>2, <3>3, RestFacts
    <2> QED
      BY <2>1, <2>2 DEF Reload
  <1>4. PICK v : Moves(p, v) /\ v.todo = <<>> /\ v.cmd = None
    BY <1>1, WentTo DEF Both
  <1>5. ClientInv(v)'
    BY <1>4, EmptyList, BriefClient
  <1>6. CmdInv(v)'
    BY <1>4 DEF CmdInv
  <1>7. procs'["observer"] = procs["observer"]
    BY <1>1, <1>4, TurnAssumption DEF Moves, Procs
  <1>8. ASSUME NEW b \in Attempts, Shared(b)' PROVE Accepted(b) /\ Sharing(v, b)
    <2>1. Shared(b)
      BY <1>1, <1>7, <1>8 DEF Shared, Free, Works, Owned
    <2> QED
      BY <2>1, <1>4 DEF Both, WindowInv, SharedInv, Sharing
  <1>9. \A b : ~ Removes(p, b) /\ (Owned(b)' => Owned(b))
    BY <1>1, <1>3 DEF Removes, Owned
  <1> QED
    BY <1>1, <1>2, <1>4, <1>5, <1>6, <1>8, <1>9, ClientMoves DEF Both

-----------------------------------------------------------------------------
(***************************************************************************)
(* The end of a turn, up to its commit.                                    *)
(***************************************************************************)
\* A terminal that is stale or refused, for a turn that is accepted and open
\* alone, comes after another one.
LEMMA OverFacts ==
    ASSUME TurnInv, WindowInv, row # None, NEW a \in Requested, Accepted(a), NEW s,
           IsStale(a, s) \/ IsRefused(a, s)
    PROVE  committed[a] # None
  <1>1. a \in Unresolved => IsCurrent(a)
    BY DEF WindowInv, RowInv
  <1>2. ~ IsUnproven(a, s)
    BY DEF IsUnproven, Accepted
  <1>3. CASE IsStale(a, s)
    BY <1>1, <1>3 DEF IsStale, Unresolved
  <1>4. CASE IsRefused(a, s)
    <2>1. \/ committed[a] # None
          \/ row.pending # None /\ ~ IsPending(a)
      BY <1>2, <1>4 DEF IsRefused
    <2>2. row.pending # None => row.pending.attempt \in Unresolved
      BY DEF WindowInv, RowInv, OpenFor
    <2>3. row.pending # None => row.pending.attempt = a
      BY <2>2 DEF Accepted
    <2> QED
      BY <2>1, <2>3 DEF IsPending
  <1> QED
    BY <1>3, <1>4

\* The row that goes with a terminal: nothing is pending, and the cursors are
\* those of accepted and committed deliveries.
LEMMA TerminalComputed ==
    ASSUME TurnInv, WindowInv, row # None, NEW a \in Requested, NEW s, NEW named \in BOOLEAN,
           s = "completed" => named, committed[a] = None,
           ~ IsStale(a, s), ~ IsRefused(a, s), NEW r, r = TerminalRow(a, s, named)
    PROVE  /\ r.gen <= gens /\ Earned(r) /\ OpenFor(r) /\ Follows(r, a, "turnCommitted")
           /\ r.pending = None /\ Later(r)
  <1>1. /\ row \in BindingRow /\ a \in Attempts /\ a \in Unresolved
        /\ OpenFor(row) /\ Earned(row) /\ Follows(row, 0, None) /\ row.gen <= gens
    BY DEF TurnInv, LogInv, WindowInv, RowInv, Unresolved, Requested
  <1>2. r \in BindingRow
    BY <1>1, TerminalRowType
  <1>3. /\ r.gen = row.gen /\ r.accepted = row.accepted /\ r.pending = None
        /\ r.trusted = (s = "completed")
        /\ r.committed = IF IsPending(a) /\ row.pending.phase = "accepted" THEN a ELSE row.committed
        /\ named => r.native = TRUE
    BY <1>1 DEF TerminalRow, BindingRow
  <1>4. IsCurrent(a) /\ ~ IsUnproven(a, s)
    BY DEF IsStale, IsRefused
  <1>5. /\ row.accepted \in Nat /\ row.committed \in Nat /\ a \in Nat
        /\ row.accepted <= a /\ row.committed <= a
    BY <1>1, RowBounds
  <1>6. Earned(r)
    <2> SUFFICES ASSUME r.trusted PROVE r.native /\ \E x \in Attempts : Has("deliveryAccepted", x) /\ genOf[x] = r.gen
      BY DEF Earned
    <2>1. s = "completed"
      BY <1>3
    <2>2. Has("turnAccepted", a)
      BY <2>1, <1>4 DEF IsUnproven
    <2>3. Has("deliveryAccepted", a)
      BY <2>2, <1>1 DEF TurnInv, AcceptedInv
    <2>4. genOf[a] = r.gen
      BY <1>3, <1>4 DEF IsCurrent
    <2> QED
      BY <2>1, <2>3, <2>4, <1>1, <1>3
  <1>7. OpenFor(r)
    BY <1>3 DEF OpenFor
  <1>8. row.pending # None /\ row.pending.phase = "accepted" => row.accepted = row.pending.attempt
    BY <1>1 DEF OpenFor
  <1>9. CASE IsPending(a) /\ row.pending.phase = "accepted"
    <2>1. r.committed = a /\ r.accepted = a
      BY <1>3, <1>8, <1>9 DEF IsPending
    <2>2. row.accepted # 0 => genOf[row.accepted] = row.gen /\ Has("deliveryAccepted", row.accepted)
      BY <1>1 DEF Follows
    <2>3. Follows(r, a, "turnCommitted")
      BY <2>1, <2>2, <1>3, <1>5 DEF Follows
    <2>4. Later(r)
      BY <2>1, <1>3, <1>5 DEF Later
    <2> QED
      BY <2>3, <2>4, <1>1, <1>3, <1>6, <1>7
  <1>10. CASE ~ (IsPending(a) /\ row.pending.phase = "accepted")
    <2>1. r.committed = row.committed
      BY <1>3, <1>10
    <2>2. row.accepted # 0 => genOf[row.accepted] = row.gen /\ Has("deliveryAccepted", row.accepted)
      BY <1>1 DEF Follows
    <2>3. row.committed <= row.accepted /\ (row.committed # 0 => committed[row.committed] # None)
      BY <1>1 DEF Follows
    <2>4. Follows(r, a, "turnCommitted")
      BY <2>1, <2>2, <2>3, <1>3 DEF Follows
    <2>5. Later(r)
      BY <2>1, <1>3, <1>5 DEF Later
    <2> QED
      BY <2>4, <2>5, <1>1, <1>3, <1>6, <1>7
  <1> QED
    BY <1>9, <1>10

\* It is computed.
LEMMA TerminalIssued ==
    ASSUME Both, NEW p \in Procs, NEW h \in Committing, IsAt(p, h), NEW w, w = procs[p],
           NEW s, NEW named \in BOOLEAN, s = "completed" => named, committed[w.a] = None,
           ~ IsStale(w.a, s), ~ IsRefused(w.a, s),
           Issue(p, AppendTerminal(s, TerminalRow(w.a, s, named))), UNCHANGED <<durable, owner, world>>
    PROVE  \E v : /\ Moves(p, v) /\ v.todo = w.todo /\ v.a = w.a /\ CmdInv(v)'
                  /\ p \in Clients => ClientInv(v)'
  <1> SUFFICES ASSUME NEW r, r = TerminalRow(w.a, s, named)
               PROVE  \E v : /\ Moves(p, v) /\ v.todo = w.todo /\ v.a = w.a /\ CmdInv(v)'
                             /\ p \in Clients => ClientInv(v)'
    OBVIOUS
  <1>1. /\ w.todo # <<>> /\ Head(w.todo) = h /\ w.cmd = None /\ w.a \in Requested
        /\ row # None
    BY AtFacts DEF Both, Committing
  <1>2. PICK v : Moves(p, v) /\ v.todo = w.todo /\ v.a = w.a /\ v.cmd = AppendTerminal(s, r)
    BY Issued DEF Both
  <1>3. v.cmd.row = r /\ v.cmd.fact = "turnCommitted"
    BY <1>2 DEF AppendTerminal
  <1>4. UNCHANGED <<facts, committed, genOf, row, prompts>> /\ gens' >= gens
    BY QuietFacts DEF Both
  <1>5. /\ r.gen <= gens /\ Earned(r) /\ OpenFor(r) /\ Follows(r, w.a, "turnCommitted")
        /\ r.pending = None /\ Later(r)
    BY <1>1, TerminalComputed DEF Both
  <1>6. CmdInv(v)'
    <2>1. Written(h, v.a, v.cmd)
      BY <1>3, <1>5 DEF Written, Committing
    <2>2. CmdInv(v)
      BY <2>1, <1>1, <1>2, <1>3, <1>5 DEF CmdInv
    <2>3. v.cmd \in Cmd \cup {None}
      BY <1>2 DEF Both, TurnInv, Moves, Process
    <2> QED
      BY <2>2, <2>3, <1>4, LogStays DEF Both, WindowInv
  <1>7. ASSUME p \in Clients PROVE ClientInv(v)'
    <2>1. ClientInv(w)
      BY <1>7 DEF Both, WindowInv
    <2>2. Owned(w.a)' => Owned(w.a)
      BY DEF Owned
    <2> QED
      BY <2>1, <2>2, <1>1, <1>2, <1>3, <1>4, IssuedClient
  <1> QED
    BY <1>2, <1>6, <1>7

\* What a commit leaves to do.
LEMMA AfterCommitLists ==
    ASSUME NEW p, NEW n, n = AfterCommit(p)
    PROVE  /\ n \in Seq(Steps) /\ n # <<>> /\ Lists(n, "remove")
           /\ \A s : Lists(n, s) => s \in {"mark", "remove"}
  <1>1. CASE n = <<"mark", "remove">>
    <2>1. \A s : Lists(n, s) <=> s \in {"mark", "remove"}
      BY <1>1, ListsOf
    <2> QED
      BY <2>1, <1>1 DEF Steps
  <1>2. CASE n = <<"remove">>
    <2>1. \A s : Lists(n, s) <=> s = "remove"
      BY <1>2, ListsOf
    <2> QED
      BY <2>1, <1>2 DEF Steps
  <1> QED
    BY <1>1, <1>2 DEF AfterCommit

\* Steps ahead of the rest.
LEMMA Behind ==
    ASSUME NEW n \in Seq(Steps), n # <<>>, NEW r \in Seq(Steps), NEW t, t = n \o r
    PROVE  After(n, r, t) /\ t # <<>>
  <1>1. After(n, r, t)
    BY JoinAfter
  <1>2. Len(n) \in Nat /\ Len(n) > 0
    OBVIOUS
  <1>3. Len(t) = Len(n) + Len(r) /\ Len(r) \in Nat
    OBVIOUS
  <1> QED
    BY <1>1, <1>2, <1>3

\* A window goes on behind the end of its turn.
LEMMA SettledMoves ==
    ASSUME Both, NEW c \in Clients, NEW w, w = procs[c],
           w.todo # <<>>, Head(w.todo) \in {"observe", "publish"},
           NEW n, \A s : Lists(n, s) => s \in {"mark", "remove"},
           Lists(n, "mark") => committed[w.a] # None,
           NEW t, After(n, Tail(w.todo), t), t # <<>>, GoTo(c, t), UNCHANGED <<durable, owner, world>>
    PROVE  WindowInv'
  <1>1. c \in Procs
    BY DEF Procs
  <1>2. w.todo \in Seq(Steps) /\ ClientInv(w) /\ Rest(c) = Tail(w.todo)
    BY <1>1 DEF Both, TurnInv, WindowInv, Process, Rest
  <1>3. UNCHANGED <<facts, committed, genOf, row, prompts>> /\ gens' >= gens
    BY QuietFacts DEF Both
  <1>4. Tail(w.todo) \in Seq(Steps)
    BY <1>2, RestFacts
  <1>7. PICK v : Moves(c, v) /\ v.todo = t /\ v.cmd = None /\ v.a = w.a
    BY <1>1, WentTo DEF Both
  <1>8. After(n, Tail(w.todo), v.todo)
    BY <1>7
  <1>9. ClientInv(v)'
    <2>1. Accepted(w.a) => Accepted(w.a)'
      BY <1>3 DEF Accepted, Unresolved, Requested, Has
    <2> QED
      BY <2>1, <1>2, <1>3, <1>7, <1>8, SettledClient
  <1>10. CmdInv(v)'
    BY <1>7 DEF CmdInv
  <1>11. /\ \A s : Lists(v.todo, s) => s \in {"mark", "remove"} \/ Lists(w.todo, s)
         /\ \A s : Lists(v.todo, s) <=> Lists(n, s) \/ Lists(Tail(w.todo), s)
    BY <1>2, <1>8, RestFacts DEF After
  <1>12. ASSUME NEW b \in Attempts, Finishing(w, b) PROVE Finishing(v, b)
    <2>1. Only(v.todo, Late)
      BY <1>11, <1>12, OnlyLists DEF Finishing, Late
    <2>2. Lists(v.todo, "mark") => Lists(n, "mark") \/ Lists(w.todo, "mark")
      BY <1>2, <1>11, RestFacts
    <2> QED
      BY <2>1, <2>2, <1>7, <1>12 DEF Finishing
  <1>13. ASSUME NEW b, Removes(c, b) PROVE v.a = b /\ Lists(v.todo, "remove")
    <2>1. w.a = b /\ Lists(w.todo, "remove")
      BY <1>13 DEF Removes
    <2>2. Lists(Tail(w.todo), "remove")
      BY <2>1, <1>2, RestFacts
    <2> QED
      BY <2>1, <2>2, <1>7, <1>11
  <1> QED
    BY <1>7, <1>9, <1>10, <1>12, <1>13, LateMoves DEF Late

\* Or stops there.
LEMMA ObserveEnds ==
    ASSUME Both, NEW c \in Clients, NEW w, w = procs[c],
           w.todo # <<>>, Head(w.todo) = "observe", row # None, w.a \in Requested,
           NEW n, \/ n = <<"remove">>
                  \/ n = <<"mark">> /\ (Accepted(w.a) => committed[w.a] # None),
           GoTo(c, n), UNCHANGED <<durable, owner, world>>
    PROVE  WindowInv'
  <1>1. c \in Procs
    BY DEF Procs
  <1>2. w.todo \in Seq(Steps) /\ ClientInv(w)
    BY <1>1 DEF Both, TurnInv, WindowInv, Process
  <1>3. Lists(w.todo, "observe")
    BY <1>2, RestFacts
  <1>4. /\ \A s : Lists(n, s) => s \in {"mark", "remove"}
        /\ n # <<>> /\ (n = <<"remove">> => Lists(n, "remove"))
        /\ Lists(n, "mark") => n # <<"remove">>
    <2>1. CASE n = <<"remove">>
      <3>1. \A s : Lists(n, s) <=> s = "remove"
        BY <2>1, ListsOf
      <3> QED
        BY <3>1, <2>1
    <2>2. CASE n = <<"mark">>
      <3>1. \A s : Lists(n, s) <=> s = "mark"
        BY <2>2, ListsOf
      <3> QED
        BY <3>1, <2>2
    <2> QED
      BY <2>1, <2>2
  <1>5. PICK v : Moves(c, v) /\ v.todo = n /\ v.cmd = None /\ v.a = w.a
    BY <1>1, <1>4, WentTo DEF Both
  <1>6. ClientInv(v)'
    BY <1>4, <1>5, BriefClient DEF Brief
  <1>7. CmdInv(v)'
    BY <1>5 DEF CmdInv
  <1>8. ASSUME NEW b \in Attempts, Accepted(b), Finishing(w, b) PROVE Finishing(v, b)
    <2>1. Only(n, Late)
      BY <1>4, OnlyLists DEF Late
    <2> QED
      BY <2>1, <1>4, <1>5, <1>8 DEF Finishing
  <1>9. ASSUME NEW b \in Attempts, Owned(b), committed[b] # None, Removes(c, b)
        PROVE  v.a = b /\ Lists(v.todo, "remove")
    <2>1. w.a = b /\ Lists(w.todo, "remove")
      BY <1>9 DEF Removes
    <2>2. ~ Held(w)
      BY <2>1, <1>2, <1>3 DEF ClientInv, RemoveInv
    <2> QED
      BY <2>1, <2>2, <1>9, NumbersFacts DEF Held
  <1> QED
    BY <1>5, <1>6, <1>7, <1>8, <1>9, LateMoves DEF Late

\* The event path goes on behind the end of its turn.
LEMMA ObserverSettles ==
    ASSUME Both, NEW w, w = procs["observer"], w.todo # <<>>, Head(w.todo) = "publish",
           NEW n, \A s : Lists(n, s) => s \in {"mark", "remove"},
           committed[w.a] # None,
           NEW t, After(n, Tail(w.todo), t), t # <<>>, GoTo("observer", t), UNCHANGED <<durable, owner, world>>
    PROVE  WindowInv'
  <1>1. /\ "observer" \in Procs /\ w.todo \in Seq(Steps) /\ w.a \in Attempts
        /\ Lists(w.todo, "publish")
        /\ \/ (\A s : Lists(w.todo, s) <=> s = "publish") /\ Once(w.todo)
           \/ (\A s : Lists(w.todo, s) => s \in {"mark", "remove"})
    BY ObserverAt
  <1>2. (\A s : Lists(w.todo, s) <=> s = "publish") /\ Once(w.todo)
    BY <1>1
  <1>3. Tail(w.todo) \in Seq(Steps) /\ (\A s : ~ Lists(Tail(w.todo), s)) /\ Rest("observer") = Tail(w.todo)
    BY <1>1, <1>2, RestFacts, RestOrder DEF Rest
  <1>5. PICK v : Moves("observer", v) /\ v.todo = t /\ v.cmd = None /\ v.a = w.a
    BY <1>1, WentTo DEF Both
  <1>6. \A s : Lists(v.todo, s) => s \in {"mark", "remove"}
    BY <1>3, <1>5 DEF After
  <1>7. Publishing(v)'
    <2>1. Only(v.todo, {"mark", "remove"})
      BY <1>6, OnlyLists
    <2>2. committed' = committed
      BY DEF durable
    <2> QED
      BY <2>1, <2>2, <1>1, <1>5 DEF Publishing
  <1>8. CmdInv(v)'
    BY <1>5 DEF CmdInv
  <1>9. \A b \in Attempts : (Owned(b)' => Owned(b)) /\ (Free(b)' => Free(b))
    BY DEF Owned, Free
  <1>10. \A b : ~ Removes("observer", b)
    BY <1>2 DEF Removes
  <1> QED
    BY <1>5, <1>7, <1>8, <1>9, <1>10, ObserverQuiet

\* The end of a turn is published: computed, or it is over, or it cannot be.
LEMMA ObserveWindow == ASSUME Both, NEW p \in Procs, Observe(p) PROVE WindowInv'
  <1>1. /\ UNCHANGED <<durable, owner, world>>
        /\ IsAt(p, "observe") \/ IsAt(p, "publish")
    BY DEF Observe
  <1> SUFFICES ASSUME NEW w, w = procs[p] PROVE WindowInv'
    OBVIOUS
  <1>2. PICK h : h \in {"observe", "publish"} /\ IsAt(p, h)
    BY <1>1
  <1>3. /\ w \in Process /\ w.todo # <<>> /\ Head(w.todo) = h /\ w.cmd = None
        /\ row # None /\ w.a \in Requested /\ w.snap \in Reported
        /\ Rest(p) = Tail(w.todo) /\ Lists(w.todo, h)
    BY <1>2, AtFacts DEF Both
  <1>4. w.todo \in Seq(Steps) /\ Tail(w.todo) \in Seq(Steps)
    BY <1>3, RestFacts DEF Process
  <1>5. /\ committed[w.a] # None \/ w.snap # None
        /\ w.snap # None
    BY <1>3, NoneAssumption DEF Reported, Snapshots
  <1>6. PICK stale, error, done :
          /\ PlanTerminal(p, w.snap, TRUE, stale, error, done)
          /\ done = AfterCommit(p) \o Rest(p)
          /\ \/ h = "observe" /\ stale = <<"remove">> /\ error = <<"mark">>
             \/ h = "publish" /\ stale = <<"remove">> \o Rest(p) /\ error = <<"mark">> \o Rest(p)
    BY <1>2 DEF Observe, IsAt
  <1>7. \/ IsStale(w.a, w.snap) /\ GoTo(p, stale)
        \/ IsRefused(w.a, w.snap) /\ GoTo(p, error)
        \/ committed[w.a] = w.snap /\ GoTo(p, done)
        \/ /\ ~ IsStale(w.a, w.snap) /\ ~ IsRefused(w.a, w.snap) /\ committed[w.a] = None
           /\ Issue(p, AppendTerminal(w.snap, TerminalRow(w.a, w.snap, TRUE)))
    BY <1>6 DEF PlanTerminal
  <1>8. IsStale(w.a, w.snap) \/ IsRefused(w.a, w.snap) => (Accepted(w.a) => committed[w.a] # None)
    BY <1>3, OverFacts DEF Both
  <1>9. h = "publish" => Accepted(w.a)
    <2>1. CASE p = "observer"
      BY <2>1, <1>3, ObserverAt
    <2>2. CASE p # "observer"
      <3> SUFFICES ASSUME h = "publish" PROVE Accepted(w.a)
        OBVIOUS
      <3>1. p \in Clients
        BY <2>2 DEF Procs
      <3>2. DrainInv(w)
        BY <3>1 DEF Both, WindowInv, ClientInv
      <3> QED
        BY <3>2, <1>3 DEF DrainInv
    <2> QED
      BY <2>1, <2>2
  <1>10. ASSUME NEW n \in Seq(Steps), n # <<>>, \A s : Lists(n, s) => s \in {"mark", "remove"},
                NEW t, t = n \o Rest(p)
         PROVE  After(n, Tail(w.todo), t) /\ t # <<>>
    BY <1>3, <1>4, <1>10, Behind
  <1>11. ASSUME NEW n, \A s : Lists(n, s) => s \in {"mark", "remove"}, committed[w.a] # None,
                NEW t, After(n, Tail(w.todo), t), t # <<>>, GoTo(p, t)
         PROVE  WindowInv'
    <2>1. CASE p = "observer"
      <3>1. h = "publish"
        BY <2>1, <1>2, <1>3, ObserverAt
      <3> QED
        BY <3>1, <2>1, <1>1, <1>3, <1>11, ObserverSettles
    <2>2. CASE p # "observer"
      <3>1. p \in Clients
        BY <2>2 DEF Procs
      <3>2. Head(w.todo) \in {"observe", "publish"}
        BY <1>2, <1>3
      <3> QED
        BY <3>1, <3>2, <1>1, <1>3, <1>11, SettledMoves
    <2> QED
      BY <2>1, <2>2
  <1>12. /\ <<"remove">> \in Seq(Steps) /\ <<"remove">> # <<>>
         /\ <<"mark">> \in Seq(Steps) /\ <<"mark">> # <<>>
         /\ \A s : Lists(<<"remove">>, s) => s \in {"mark", "remove"}
         /\ \A s : Lists(<<"mark">>, s) => s \in {"mark", "remove"}
    BY ListsOf DEF Steps
  <1>13. h = "observe" => p \in Clients
    <2>1. p = "observer" => h = "publish" \/ h \in {"mark", "remove"}
      BY <1>3, ObserverAt
    <2> QED
      BY <2>1 DEF Procs
  <1>14. CASE h = "publish" /\ IsStale(w.a, w.snap) /\ GoTo(p, stale)
    <2>1. stale = <<"remove">> \o Rest(p)
      BY <1>6, <1>14
    <2>2. After(<<"remove">>, Tail(w.todo), stale) /\ stale # <<>>
      BY <1>10, <1>12, <2>1
    <2>3. committed[w.a] # None
      BY <1>8, <1>9, <1>14
    <2> QED
      BY <1>11, <1>12, <1>14, <2>2, <2>3
  <1>15. CASE h = "publish" /\ IsRefused(w.a, w.snap) /\ GoTo(p, error)
    <2>1. error = <<"mark">> \o Rest(p)
      BY <1>6, <1>15
    <2>2. After(<<"mark">>, Tail(w.todo), error) /\ error # <<>>
      BY <1>10, <1>12, <2>1
    <2>3. committed[w.a] # None
      BY <1>8, <1>9, <1>15
    <2> QED
      BY <1>11, <1>12, <1>15, <2>2, <2>3
  <1>16. CASE h = "observe" /\ IsStale(w.a, w.snap) /\ GoTo(p, stale)
    <2>1. stale = <<"remove">>
      BY <1>6, <1>16
    <2> QED
      BY <2>1, <1>1, <1>3, <1>13, <1>16, ObserveEnds
  <1>17. CASE h = "observe" /\ IsRefused(w.a, w.snap) /\ GoTo(p, error)
    <2>1. error = <<"mark">>
      BY <1>6, <1>17
    <2> QED
      BY <2>1, <1>1, <1>3, <1>8, <1>13, <1>17, ObserveEnds
  <1>18. CASE committed[w.a] = w.snap /\ GoTo(p, done)
    <2>1. PICK n : n = AfterCommit(p)
      OBVIOUS
    <2>2. n \in Seq(Steps) /\ n # <<>> /\ \A s : Lists(n, s) => s \in {"mark", "remove"}
      BY <2>1, AfterCommitLists
    <2>3. After(n, Tail(w.todo), done) /\ done # <<>>
      BY <1>6, <1>10, <2>1, <2>2
    <2>4. committed[w.a] # None
      BY <1>5, <1>18
    <2> QED
      BY <1>11, <1>18, <2>2, <2>3, <2>4
  <1>19. CASE /\ ~ IsStale(w.a, w.snap) /\ ~ IsRefused(w.a, w.snap) /\ committed[w.a] = None
              /\ Issue(p, AppendTerminal(w.snap, TerminalRow(w.a, w.snap, TRUE)))
    <2>1. PICK v : /\ Moves(p, v) /\ v.todo = w.todo /\ v.a = w.a /\ CmdInv(v)'
                   /\ p \in Clients => ClientInv(v)'
      BY <1>1, <1>2, <1>19, TerminalIssued DEF Committing
    <2>2. CASE p = "observer"
      <3>1. Publishing(v)'
        <4>1. Publishing(w)
          BY <2>2 DEF Both, WindowInv, ObserverInv
        <4>2. committed' = committed
          BY <1>1 DEF durable
        <4> QED
          BY <4>1, <4>2, <2>1 DEF Publishing
      <3>2. \A b \in Attempts : (Owned(b)' => Owned(b)) /\ (Free(b)' => Free(b))
        BY <1>1 DEF Owned, Free
      <3>3. \A b : Removes("observer", b) => v.a = b /\ Lists(v.todo, "remove")
        BY <2>1, <2>2 DEF Removes
      <3> QED
        BY <3>1, <3>2, <3>3, <2>1, <2>2, <1>1, <1>3, ObserverQuiet
    <2>3. CASE p # "observer"
      <3>1. p \in Clients
        BY <2>3 DEF Procs
      <3>2. \A b \in Attempts : Finishing(w, b) => Finishing(v, b)
        BY <2>1 DEF Finishing
      <3>3. \A b : Removes(p, b) => v.a = b /\ Lists(v.todo, "remove")
        BY <2>1 DEF Removes
      <3>4. h \in Late \ {"remove"}
        BY <1>2 DEF Late
      <3> QED
        BY <3>1, <3>2, <3>3, <3>4, <2>1, <1>1, <1>3, LateMoves
    <2> QED
      BY <2>2, <2>3
  <1> QED
    BY <1>2, <1>7, <1>14, <1>15, <1>16, <1>17, <1>18, <1>19

\* The backend ends the turn with a snapshot of its own.
LEMMA SettleWindow == ASSUME Both, NEW p \in Procs, Settle(p) PROVE WindowInv'
  <1>1. IsAt(p, "settle") /\ UNCHANGED <<durable, owner, world>>
    BY DEF Settle
  <1>2. p \in Clients
    BY <1>1, ActsForWindow DEF Both
  <1> SUFFICES ASSUME NEW w, w = procs[p] PROVE WindowInv'
    OBVIOUS
  <1>3. /\ w \in Process /\ w.todo # <<>> /\ Head(w.todo) = "settle" /\ w.cmd = None
        /\ row # None /\ w.a \in Requested /\ w.a # 0 /\ w.a \in Attempts /\ w.snap \in OwnSnapshots
        /\ Rest(p) = Tail(w.todo) /\ Lists(w.todo, "settle")
    BY <1>1, AtFacts DEF Both
  <1>4. \/ GoTo(p, <<>>)
        \/ GoTo(p, Rest(p))
        \/ /\ ~ IsStale(w.a, w.snap) /\ ~ IsRefused(w.a, w.snap) /\ committed[w.a] = None
           /\ Issue(p, AppendTerminal(w.snap, TerminalRow(w.a, w.snap, FALSE)))
    BY DEF Settle, PlanTerminal
  <1>5. CASE GoTo(p, <<>>)
    <2>1. PICK v : Moves(p, v) /\ v.todo = <<>> /\ v.cmd = None
      BY <1>5, WentTo DEF Both
    <2>2. ClientInv(v)'
      BY <2>1, EmptyList, BriefClient
    <2>3. CmdInv(v)'
      BY <2>1 DEF CmdInv
    <2>4. ASSUME NEW b \in Attempts, Owned(b), committed[b] # None, Removes(p, b) PROVE FALSE
      <3>1. w.a = b /\ Lists(w.todo, "remove")
        BY <2>4 DEF Removes
      <3>2. Head(w.todo) = "remove" \/ ~ Held(w) \/ committed[w.a] = None
        BY <3>1, <1>2, <1>3 DEF Both, WindowInv, ClientInv, RemoveInv
      <3> QED
        BY <3>1, <3>2, <2>4, <1>3 DEF Held
    <2> QED
      BY <2>1, <2>2, <2>3, <2>4, <1>1, <1>2, <1>3, LateMoves DEF Late
  <1>6. CASE GoTo(p, Rest(p))
    <2>1. \A b \in Attempts : Shared(b)' => Shared(b)
      <3>1. PICK v : Moves(p, v)
        BY <1>6, WentTo DEF Both
      <3>2. procs'["observer"] = procs["observer"]
        BY <3>1, <1>2, TurnAssumption DEF Moves, Procs
      <3> QED
        BY <3>2, <1>1 DEF Shared, Works, Free, Owned
    <2>2. \A b \in Attempts : Shared(b) => Accepted(b) /\ Finishing(w, b)
      BY <1>2, <1>3, LateHead DEF Both, Late
    <2>3. ~ IsBeginning(w)
      BY <1>3 DEF IsBeginning
    <2>4. \A b \in Attempts : Owned(b)' => Owned(b)
      BY <1>1 DEF Owned
    <2> QED
      BY <2>1, <2>2, <2>3, <2>4, <1>1, <1>2, <1>3, <1>6, LateRest DEF Late
  <1>7. CASE /\ ~ IsStale(w.a, w.snap) /\ ~ IsRefused(w.a, w.snap) /\ committed[w.a] = None
             /\ Issue(p, AppendTerminal(w.snap, TerminalRow(w.a, w.snap, FALSE)))
    <2>1. w.snap # "completed"
      BY <1>3 DEF OwnSnapshots
    <2>2. PICK v : /\ Moves(p, v) /\ v.todo = w.todo /\ v.a = w.a /\ CmdInv(v)'
                   /\ p \in Clients => ClientInv(v)'
      BY <2>1, <1>1, <1>7, TerminalIssued DEF Committing
    <2>3. \A b \in Attempts : Finishing(w, b) => Finishing(v, b)
      BY <2>2 DEF Finishing
    <2>4. \A b : Removes(p, b) => v.a = b /\ Lists(v.todo, "remove")
      BY <2>2 DEF Removes
    <2> QED
      BY <2>2, <2>3, <2>4, <1>1, <1>2, <1>3, LateMoves DEF Late
  <1> QED
    BY <1>4, <1>5, <1>6, <1>7

\* A turn whose dispatch has failed ends as rejected, or has ended before.
LEMMA FailTurnWindow == ASSUME Both, NEW p \in Procs, FailTurn(p) PROVE WindowInv'
  <1>1. /\ UNCHANGED <<durable, owner, world>>
        /\ IsAt(p, "fail") \/ IsAt(p, "failNative")
    BY DEF FailTurn
  <1> SUFFICES ASSUME NEW w, w = procs[p] PROVE WindowInv'
    OBVIOUS
  <1>2. PICK h : h \in {"fail", "failNative"} /\ IsAt(p, h)
    BY <1>1
  <1>3. p \in Clients
    BY <1>2, ActsForWindow DEF Both
  <1>4. /\ w \in Process /\ w.todo # <<>> /\ Head(w.todo) = h /\ w.cmd = None
        /\ row # None /\ w.a \in Requested /\ w.a # 0 /\ w.a \in Attempts
        /\ Rest(p) = Tail(w.todo) /\ Lists(w.todo, h)
    BY <1>2, AtFacts DEF Both
  <1>5. \/ GoTo(p, Rest(p))
        \/ \E named \in BOOLEAN :
              /\ ~ IsStale(w.a, "rejected") /\ ~ IsRefused(w.a, "rejected") /\ committed[w.a] = None
              /\ Issue(p, AppendTerminal("rejected", TerminalRow(w.a, "rejected", named)))
    BY DEF FailTurn, PlanTerminal
  <1>6. \A b \in Attempts : Shared(b) => Accepted(b) /\ (Finishing(w, b) \/ Repeating(w))
    BY <1>3, <1>4 DEF Both, WindowInv, SharedInv, Sharing
  <1>7. CASE GoTo(p, Rest(p))
    <2>1. \A b \in Attempts : Shared(b)' => Shared(b)
      <3>1. PICK v : Moves(p, v)
        BY <1>7, WentTo DEF Both
      <3>2. procs'["observer"] = procs["observer"]
        BY <3>1, <1>3, TurnAssumption DEF Moves, Procs
      <3> QED
        BY <3>2, <1>1 DEF Shared, Works, Free, Owned
    <2>2. ~ IsBeginning(w)
      BY <1>4 DEF IsBeginning
    <2>3. \A b \in Attempts : Owned(b)' => Owned(b)
      BY <1>1 DEF Owned
    <2> QED
      BY <2>1, <2>2, <2>3, <1>1, <1>2, <1>3, <1>4, <1>6, <1>7, LateRest
  <1>8. ASSUME NEW named \in BOOLEAN,
               ~ IsStale(w.a, "rejected"), ~ IsRefused(w.a, "rejected"), committed[w.a] = None,
               Issue(p, AppendTerminal("rejected", TerminalRow(w.a, "rejected", named)))
        PROVE  WindowInv'
    <2>1. PICK v : /\ Moves(p, v) /\ v.todo = w.todo /\ v.a = w.a /\ CmdInv(v)'
                   /\ p \in Clients => ClientInv(v)'
      BY <1>1, <1>2, <1>8, TerminalIssued DEF Committing
    <2>2. \A b \in Attempts : ~ Shared(b)
      <3>1. ~ Repeating(w)
        BY <1>8 DEF Repeating
      <3>2. \A b : ~ Finishing(w, b)
        BY <1>2, <1>4, OnlyLists DEF Finishing, Late
      <3> QED
        BY <3>1, <3>2, <1>6
    <2>3. UNCHANGED <<facts, committed, genOf, row, prompts, owner>> /\ gens' >= gens
      BY <1>1, QuietFacts DEF Both
    <2> QED
      BY <2>1, <2>2, <2>3, <1>3, AloneMoves
  <1> QED
    BY <1>5, <1>7, <1>8

\* Ahead of a rebuild is nothing of a turn.
LEMMA RebuildAt ==
    ASSUME Both, NEW c \in Clients, NEW w, w = procs[c], w.todo # <<>>, Head(w.todo) = "rebuild"
    PROVE  /\ ClientInv(w) /\ w.todo \in Seq(Steps)
           /\ \A b \in Attempts : ~ Shared(b)
           /\ \A s \in Sending \cup {"acceptTurn", "drain", "publish", "settle", "fail", "failNative", "remove"} :
                 ~ Lists(w.todo, s)
  <1>1. ClientInv(w) /\ w.todo \in Seq(Steps)
    BY DEF Both, TurnInv, WindowInv, Process, Procs
  <1>2. Lists(w.todo, "rebuild")
    BY <1>1, RestFacts
  <1>3. \A b \in Attempts : ~ Shared(b)
    BY <1>2, WindowAlone DEF Both, Late
  <1>4. ~ Only(w.todo, {"remove", "settle", "clear"}) /\ ~ Ordered(w.todo)
        /\ ~ Only(w.todo, {"fail", "failNative", "mark", "remove"})
        /\ ~ Only(w.todo, {"publish", "drain", "await", "mark", "remove"})
    BY <1>2, OnlyLists DEF Ordered, Sending
  <1>5. ~ Lists(w.todo, "remove")
    BY <1>1, <1>2, RestFacts DEF ClientInv, RemoveInv
  <1> QED
    BY <1>1, <1>3, <1>4, <1>5 DEF ClientInv, SendInv, DrainInv, RemoveInv

\* What is behind it says nothing of the turn either.
LEMMA RebuildClient ==
    ASSUME Both, NEW c \in Clients, NEW w, w = procs[c], w.todo # <<>>, Head(w.todo) = "rebuild",
           NEW v, v.todo = w.todo \/ v.todo = Tail(w.todo)
    PROVE  ClientInv(v)'
  <1>1. /\ ClientInv(w) /\ w.todo \in Seq(Steps)
        /\ \A s \in Sending \cup {"acceptTurn", "drain", "publish", "settle", "fail", "failNative", "remove"} :
              ~ Lists(w.todo, s)
    BY RebuildAt
  <1>2. /\ \A s : Lists(v.todo, s) => Lists(w.todo, s)
        /\ \A S : Only(w.todo, S) => Only(v.todo, S)
        /\ Once(w.todo) => Once(v.todo)
    <2>1. CASE v.todo = w.todo
      BY <2>1
    <2>2. CASE v.todo = Tail(w.todo)
      BY <2>2, <1>1, RestFacts, RestOrder
    <2> QED
      BY <2>1, <2>2
  <1>3. Lists(v.todo, "observe") =>
           Once(v.todo) /\ Only(v.todo, {"remove", "observe", "clear", "rebuild"})
    BY <1>1, <1>2 DEF ClientInv, RemoveInv
  <1>4. Ahead(v.todo, "remove", "await") /\ Ahead(v.todo, "remove", "rebuild")
    <2>1. ~ Lists(v.todo, "remove")
      BY <1>1, <1>2
    <2> QED
      BY <2>1 DEF Ahead, Lists
  <1>5. RemoveInv(v)'
    BY <1>1, <1>2, <1>3, <1>4 DEF RemoveInv
  <1> QED
    BY <1>1, <1>2, <1>5, EndOfSend

\* The binding is rebuilt, with the end of the open turn if there is one.
LEMMA RebuildWindow == ASSUME Both, NEW p \in Procs, Rebuild(p) PROVE WindowInv'
  <1>1. IsAt(p, "rebuild") /\ UNCHANGED <<facts, committed, genOf, row, prompts, owner>>
    BY DEF Rebuild, world
  <1>2. p \in Clients
    BY <1>1, ActsForWindow DEF Both
  <1> SUFFICES ASSUME NEW w, w = procs[p] PROVE WindowInv'
    OBVIOUS
  <1>3. /\ w \in Process /\ w.todo # <<>> /\ Head(w.todo) = "rebuild" /\ w.cmd = None
        /\ row # None /\ row \in BindingRow /\ Lists(w.todo, "rebuild")
    BY <1>1, AtFacts DEF Both
  <1>4. ClientInv(w) /\ w.todo \in Seq(Steps)
    BY <1>2, <1>3 DEF Both, WindowInv, Process
  <1>5. (\A b \in Attempts : ~ Shared(b)) /\ ~ Lists(w.todo, "remove")
    BY <1>2, <1>3, RebuildAt
  <1>7. ASSUME NEW v, v.todo = w.todo PROVE ClientInv(v)'
    BY <1>2, <1>3, <1>7, RebuildClient
  <1>8. ~ Lists(w.todo, "remove")
    BY <1>5
  <1>9. gens \in Nat /\ row.gen <= gens /\ row.gen \in Nat /\ \A a \in Unresolved : IsCurrent(a)
    BY <1>3, NumbersFacts DEF Both, TurnInv, LogInv, WindowInv, RowInv, BindingRow
  <1>10. ASSUME NEW k, k.row = FreshRow(gens + 1), k.fact = None => Unresolved = {}, gens' = gens + 1,
                NEW v, v.todo = w.todo, v.cmd = k
         PROVE  CmdInv(v)'
    <2>1. /\ k.row.pending = None /\ k.row.gen = gens + 1 /\ k.row.trusted = FALSE
          /\ k.row.accepted = 0 /\ k.row.committed = 0
      BY <1>10 DEF FreshRow
    <2>2. k.row.gen <= gens'
      BY <2>1, <1>9, <1>10
    <2>3. Earned(k.row)' /\ OpenFor(k.row)'
      BY <2>1 DEF Earned, OpenFor
    <2>4. Follows(k.row, v.a, k.fact)'
      BY <2>1 DEF Follows
    <2>5. Written("rebuild", v.a, k)'
      <3>1. Unresolved' = Unresolved
        BY <1>1 DEF Unresolved, Requested, Has
      <3>2. k.row.gen > row'.gen
        BY <2>1, <1>1, <1>9
      <3> QED
        BY <3>1, <3>2, <2>1, <1>10 DEF Written, Committing
    <2> QED
      BY <2>2, <2>3, <2>4, <2>5, <1>3, <1>10 DEF CmdInv
  <1>11. ASSUME NEW v, Moves(p, v), v.todo = w.todo, v.cmd.row = FreshRow(gens + 1),
                v.cmd.fact = None => Unresolved = {}, gens' = gens + 1
         PROVE  WindowInv'
    <2>1. ClientInv(v)' /\ CmdInv(v)'
      BY <1>7, <1>10, <1>11
    <2>2. gens' >= gens
      BY <1>9, <1>11
    <2> QED
      BY <2>1, <2>2, <1>1, <1>2, <1>5, <1>8, <1>11, AloneMoves
  <1>12. CASE Unresolved = {} /\ Issue(p, Upsert(FreshRow(gens + 1))) /\ gens' = gens + 1
    <2>1. PICK v : Moves(p, v) /\ v.todo = w.todo /\ v.cmd = Upsert(FreshRow(gens + 1))
      BY <1>12, Issued DEF Both
    <2>2. v.cmd.row = FreshRow(gens + 1)
      BY <2>1 DEF Upsert
    <2> QED
      BY <2>1, <2>2, <1>11, <1>12
  <1>13. ASSUME NEW a \in Unresolved, gens' = gens + 1,
                procs' = [procs EXCEPT ![p].a = a, ![p].cmd = AppendTerminal("replaced", FreshRow(gens + 1))]
         PROVE  WindowInv'
    <2>1. PICK v : /\ Moves(p, v) /\ v.todo = w.todo
                   /\ v.cmd = AppendTerminal("replaced", FreshRow(gens + 1))
      <3> DEFINE k == [w EXCEPT !.a = a, !.cmd = AppendTerminal("replaced", FreshRow(gens + 1))]
      <3>1. k.todo = w.todo /\ k.cmd = AppendTerminal("replaced", FreshRow(gens + 1))
        BY <1>3 DEF Process
      <3>2. procs' = [procs EXCEPT ![p] = k]
        BY <1>13, <1>3 DEF Both, TurnInv, Process
      <3>3. Moves(p, k)
        BY <3>2 DEF Moves, Both, TurnInv
      <3> QED
        BY <3>1, <3>3
    <2>2. v.cmd.row = FreshRow(gens + 1) /\ v.cmd.fact = "turnCommitted"
      BY <2>1 DEF AppendTerminal
    <2>3. v.cmd.fact # None
      BY <2>2, NoneAssumption
    <2> QED
      BY <2>1, <2>2, <2>3, <1>11, <1>13
  <1>14. CASE GoTo(p, <<>>) /\ UNCHANGED gens
    <2>1. PICK v : Moves(p, v) /\ v.todo = <<>> /\ v.cmd = None
      BY <1>14, WentTo DEF Both
    <2>2. ClientInv(v)'
      BY <2>1, EmptyList, BriefClient
    <2>3. CmdInv(v)'
      BY <2>1 DEF CmdInv
    <2>4. gens' >= gens
      BY <1>9, <1>14
    <2> QED
      BY <2>1, <2>2, <2>3, <2>4, <1>1, <1>2, <1>5, <1>8, AloneMoves
  <1> QED
    BY <1>9, <1>12, <1>13, <1>14 DEF Rebuild

-----------------------------------------------------------------------------
(***************************************************************************)
(* The writer.                                                             *)
(***************************************************************************)
\* A row is written, with a fact that begins and ends no turn.
LEMMA RowWritten ==
    ASSUME TurnInv, TurnInv', WindowInv, NEW r \in BindingRow, row' = r,
           UNCHANGED <<committed, genOf, prompts, gens>>,
           \A x : Has("turnRequested", x)' <=> Has("turnRequested", x),
           \A x : Has("deliveryAccepted", x) => Has("deliveryAccepted", x)',
           r.gen <= gens, Earned(r), OpenFor(r), Unresolved # {} => r.gen = row.gen,
           NEW a, NEW f, Follows(r, a, f), f # "turnCommitted",
           f = "deliveryAccepted" => Has("deliveryAccepted", a)'
    PROVE  RowInv' /\ NumInv' /\ SentOnce' /\ Unresolved' = Unresolved
  <1>1. Requested' = Requested /\ Unresolved' = Unresolved
    BY DEF Requested, Unresolved
  <1>2. NumInv' /\ SentOnce'
    BY <1>1 DEF WindowInv, NumInv, SentOnce
  <1>3. OpenFor(r)'
    BY <1>1 DEF OpenFor
  <1>4. Earned(r)'
    BY DEF Earned
  <1>5. Follows(r, 0, None)'
    BY DEF Follows
  <1>6. ASSUME NEW x \in Unresolved PROVE IsCurrent(x)'
    <2>1. IsCurrent(x) /\ r.gen = row.gen
      BY <1>6, RequestedFacts DEF WindowInv, RowInv, Unresolved
    <2>2. row' # None
      BY NoneAssumption
    <2> QED
      BY <2>1, <2>2 DEF IsCurrent
  <1>7. RowInv'
    BY <1>1, <1>3, <1>4, <1>5, <1>6 DEF RowInv
  <1> QED
    BY <1>1, <1>2, <1>7

\* A row is written with the end of the open turn.
LEMMA RowCommitted ==
    ASSUME TurnInv, TurnInv', WindowInv, NEW r \in BindingRow, row' = r,
           UNCHANGED <<facts, genOf, prompts, gens>>,
           NEW a \in Unresolved, committed'[a] # None,
           \A x \in Attempts : x # a => committed'[x] = committed[x],
           r.gen <= gens, Earned(r), r.pending = None, Follows(r, a, "turnCommitted")
    PROVE  RowInv' /\ NumInv' /\ SentOnce' /\ Unresolved' = {} /\ Unresolved = {a}
  <1>1. Requested' = Requested /\ a \in Attempts /\ a \in Requested /\ Requested \subseteq Attempts
    BY DEF Requested, Unresolved, Has
  <1>2. Unresolved = {a}
    <2>1. \A x, y \in Unresolved : x <= y /\ y <= x /\ x \in Nat /\ y \in Nat
      BY NumbersFacts DEF WindowInv, NumInv, Unresolved, Requested
    <2> QED
      BY <2>1
  <1>3. Unresolved' = {}
    BY <1>1, <1>2 DEF Unresolved
  <1>4. NumInv'
    BY <1>1, <1>3 DEF WindowInv, NumInv
  <1>5. SentOnce'
    BY DEF WindowInv, SentOnce
  <1>6. OpenFor(r)'
    BY DEF OpenFor
  <1>7. Earned(r)'
    BY DEF Earned, Has
  <1>8. Follows(r, 0, None)'
    <2>1. /\ r.committed <= r.accepted
          /\ r.accepted # 0 => genOf[r.accepted] = r.gen /\ Has("deliveryAccepted", r.accepted)
          /\ r.committed # 0 => committed[r.committed] # None \/ r.committed = a
      BY DEF Follows
    <2>2. r.committed # 0 => r.committed \in Attempts
      BY DEF BindingRow
    <2> QED
      BY <2>1, <2>2 DEF Follows, Has
  <1>9. RowInv'
    BY <1>3, <1>6, <1>7, <1>8 DEF RowInv
  <1> QED
    BY <1>2, <1>3, <1>4, <1>5, <1>9

\* The window shares a turn with the event path, which writes the row and may
\* end that turn.
LEMMA SharingClient ==
    ASSUME WindowInv, NEW c \in Clients, NEW b \in Attempts, Shared(b), NEW x, x = procs[c],
           UNCHANGED <<facts, owner>>,
           \A y : committed[y] # None => committed'[y] # None, Accepted(b)'
    PROVE  ClientInv(x)' /\ Sharing(x, b)'
  <1>1. ClientInv(x) /\ Sharing(x, b) /\ Accepted(b)
    BY DEF WindowInv, SharedInv
  <1>2. \A y : Has("turnAccepted", y)' <=> Has("turnAccepted", y)
    BY DEF Has
  <1>3. \A y : Owned(y)' <=> Owned(y)
    BY DEF Owned
  <1>4. CASE x.todo = <<>>
    <2>1. ClientInv(x)'
      BY <1>4, EmptyList, BriefClient
    <2> QED
      BY <2>1, <1>4 DEF Sharing
  <1>5. CASE Finishing(x, b)
    <2>1. Finishing(x, b)'
      BY <1>5 DEF Finishing
    <2>2. \A s \in Sending \cup {"acceptTurn"} : ~ Lists(x.todo, s)
      BY <1>5, OnlyLists DEF Finishing, Late, Sending
    <2>3. SendInv(x)'
      BY <2>2 DEF SendInv, Sending
    <2>4. DrainInv(x)'
      BY <2>1, <1>1, <1>5 DEF DrainInv, ClientInv, Finishing
    <2>5. RemoveInv(x)'
      <3>1. x.a = b /\ Has("turnAccepted", b)
        BY <1>1, <1>5 DEF Finishing, Accepted
      <3>2. Held(x)' <=> Held(x)
        BY <1>3 DEF Held
      <3> QED
        BY <3>1, <3>2, <1>1 DEF ClientInv, RemoveInv
    <2> QED
      BY <2>1, <2>3, <2>4, <2>5 DEF ClientInv, Sharing
  <1>6. CASE Repeating(x)
    <2>1. Repeating(x)'
      BY <1>2, <1>6 DEF Repeating
    <2>2. x.cmd = None /\ committed[x.a] # None /\ ~ Has("turnAccepted", x.a)
      BY <1>6 DEF Repeating
    <2>3. ~ Lists(x.todo, "prepare") /\ (Lists(x.todo, "acceptTurn") => Lists(x.todo, "check"))
      BY <2>2, <1>1 DEF ClientInv, SendInv, IsBeginning, Past, Unresolved
    <2>4. SendInv(x)'
      BY <2>3, <1>1 DEF ClientInv, SendInv
    <2>5. Lists(x.todo, "drain") => Lists(x.todo, "acceptTurn")
      BY <2>2, <1>1 DEF ClientInv, DrainInv, Accepted
    <2>6. DrainInv(x)'
      BY <2>5, <1>1 DEF ClientInv, DrainInv
    <2>7. RemoveInv(x)'
      <3>1. Held(x)' <=> Held(x)
        BY <1>3 DEF Held
      <3> QED
        BY <3>1, <2>2, <1>1 DEF ClientInv, RemoveInv
    <2> QED
      BY <2>1, <2>4, <2>6, <2>7 DEF ClientInv, Sharing
  <1> QED
    BY <1>1, <1>4, <1>5, <1>6 DEF Sharing

\* A process has its command written, beside the other one.
LEMMA SharedWrites ==
    ASSUME Both, NEW p \in Procs, NEW v, Moves(p, v), v.cmd = None, UNCHANGED <<facts, owner>>,
           \A x : committed[x] # None => committed'[x] # None,
           RowInv', NumInv', SentOnce',
           \A b \in Attempts : Shared(b) => Accepted(b)',
           p \in Clients => ClientInv(v)' /\ \A b \in Attempts : Shared(b) => Sharing(v, b)',
           p = "observer" => Publishing(v)',
           p = "observer" /\ v.todo # <<>> => v.a = procs[p].a /\ procs[p].todo # <<>>,
           p = "observer" => procs[p].a \in Attempts /\ Shared(procs[p].a),
           \A b \in Attempts : Owned(b) /\ committed'[b] # None =>
              \/ committed[b] # None /\ ~ Removes(p, b)
              \/ v.a = b /\ Lists(v.todo, "remove"),
           \A q \in Procs : q # p => CmdInv(procs[q])'
    PROVE  WindowInv'
  <1>1. procs'[p] = v /\ \A q \in Procs : q # p => procs'[q] = procs[q]
    BY DEF Moves
  <1>2. "observer" \in Procs /\ Clients \subseteq Procs /\ "observer" \notin Clients
        /\ \A q \in Procs : q # "observer" => q \in Clients
    BY TurnAssumption DEF Procs
  <1>3. \A c, d \in Clients : c = d
    BY DEF Both, OneWindow
  <1>4. \A b : Owned(b)' <=> Owned(b)
    BY DEF Owned
  <1>5. ASSUME NEW b \in Attempts, Shared(b)' PROVE Shared(b)
    <2>1. CASE p = "observer"
      BY <2>1, <1>1, <1>5 DEF Shared, Free, Works, Owned
    <2>2. CASE p # "observer"
      BY <2>2, <1>1, <1>2, <1>5 DEF Shared, Free, Works, Owned
    <2> QED
      BY <2>1, <2>2
  <1>6. ASSUME NEW c \in Clients, c # p
        PROVE  ClientInv(procs[c])' /\ \A b \in Attempts : Shared(b) => Sharing(procs[c], b)'
    <2>1. p = "observer"
      BY <1>2, <1>3, <1>6
    <2> SUFFICES ASSUME NEW x, x = procs[c]
                 PROVE  ClientInv(x)' /\ \A b \in Attempts : Shared(b) => Sharing(x, b)'
      BY <1>1, <1>2, <1>6
    <2>2. PICK b \in Attempts : Shared(b)
      BY <2>1
    <2>3. ClientInv(x)'
      BY <2>2, SharingClient DEF Both
    <2>4. \A y \in Attempts : Shared(y) => Sharing(x, y)'
      BY SharingClient DEF Both
    <2> QED
      BY <2>3, <2>4
  <1>7. ASSUME NEW c \in Clients
        PROVE  ClientInv(procs[c])' /\ \A b \in Attempts : Shared(b) => Sharing(procs[c], b)'
    <2>1. CASE c = p
      BY <2>1, <1>1
    <2> QED
      BY <2>1, <1>6
  <1>8. SharedInv'
    BY <1>5, <1>7 DEF SharedInv
  <1>9. OwnedInv'
    <2> SUFFICES ASSUME NEW b \in Attempts, Owned(b), committed'[b] # None
                 PROVE  \E q \in Procs : Removes(q, b)'
      BY <1>4 DEF OwnedInv
    <2>1. CASE v.a = b /\ Lists(v.todo, "remove")
      BY <2>1, <1>1 DEF Removes
    <2>2. CASE committed[b] # None /\ ~ Removes(p, b)
      <3>1. PICK q \in Procs : Removes(q, b)
        BY <2>2 DEF Both, WindowInv, OwnedInv
      <3>2. q # p
        BY <3>1, <2>2
      <3> QED
        BY <3>1, <3>2, <1>1 DEF Removes
    <2> QED
      BY <2>1, <2>2
  <1>10. ObserverInv'
    <2>1. CASE p = "observer"
      BY <2>1, <1>1 DEF ObserverInv
    <2>2. CASE p # "observer"
      <3> SUFFICES ASSUME NEW x, x = procs["observer"] PROVE Publishing(x)'
        BY <2>2, <1>1, <1>2 DEF ObserverInv
      <3>1. Publishing(x)
        BY DEF Both, WindowInv, ObserverInv
      <3> QED
        BY <3>1 DEF Publishing
    <2> QED
      BY <2>1, <2>2
  <1>11. ASSUME NEW q \in Procs PROVE CmdInv(procs[q])'
    <2>1. CASE q = p
      BY <2>1, <1>1 DEF CmdInv
    <2> QED
      BY <2>1
  <1> QED
    BY <1>7, <1>8, <1>9, <1>10, <1>11 DEF WindowInv

\* Two commands at a time are those of the window and of the event path, at
\* the end of the same turn.
LEMMA BothCommand ==
    ASSUME Both, NEW p \in Procs, NEW q \in Procs, p # q, NEW w, w = procs[p], NEW x, x = procs[q],
           w.cmd # None, x.cmd # None
    PROVE  /\ w.a = x.a /\ w.a \in Attempts /\ Accepted(w.a)
           /\ Finishing(w, w.a) /\ Finishing(x, w.a)
  <1>1. w.todo # <<>> /\ x.todo # <<>>
    BY SentFacts DEF Both
  <1>2. ASSUME NEW o, o = procs["observer"], o.todo # <<>>, NEW c \in Clients, procs[c].cmd # None,
               procs[c].todo # <<>>
        PROVE  /\ o.a = procs[c].a /\ o.a \in Attempts /\ Accepted(o.a)
               /\ Finishing(o, o.a) /\ Finishing(procs[c], o.a)
    <2>1. /\ o.a \in Attempts /\ Accepted(o.a) /\ Finishing(o, o.a)
          /\ Sharing(procs[c], o.a)
      BY <1>2, ObserverAt
    <2>2. Finishing(procs[c], o.a)
      BY <2>1, <1>2 DEF Sharing, Repeating
    <2> QED
      BY <2>1, <2>2 DEF Finishing
  <1>3. CASE p = "observer"
    <2>1. q \in Clients
      BY <1>3 DEF Procs
    <2> QED
      BY <2>1, <1>1, <1>2, <1>3
  <1>4. CASE q = "observer"
    <2>1. p \in Clients
      BY <1>4 DEF Procs
    <2>2. x.a = w.a /\ x.a \in Attempts /\ Accepted(x.a) /\ Finishing(x, x.a) /\ Finishing(w, x.a)
      BY <2>1, <1>1, <1>2, <1>4
    <2> QED
      BY <2>2
  <1>5. p = "observer" \/ q = "observer"
    BY DEF Both, OneWindow, Procs
  <1> QED
    BY <1>3, <1>4, <1>5

\* The steps of the end of a turn that compute a command.
Ending == {"publish", "observe", "settle", "mark", "clear"}

\* A process with a command at the end of a turn: at which step, with which fact.
LEMMA EndingFacts ==
    ASSUME TurnInv, NEW p \in Procs, NEW w, w = procs[p], w.cmd # None, Only(w.todo, Late)
    PROVE  /\ Head(w.todo) \in Ending /\ w.cmd \in Cmd /\ w.todo # <<>> /\ w.todo \in Seq(Steps)
           /\ w.cmd.fact = IF Head(w.todo) \in {"mark", "clear"} THEN None ELSE "turnCommitted"
           /\ Lists(w.todo, Head(w.todo))
  <1>1. /\ w.todo # <<>> /\ w.cmd \in Cmd /\ w.todo \in Seq(Steps)
        /\ w.cmd.fact \in RecordedBy(Head(w.todo)) /\ Head(w.todo) \in Steps
    BY SentFacts DEF Process
  <1>2. Lists(w.todo, Head(w.todo))
    BY <1>1, RestFacts
  <1>3. Head(w.todo) \in Late
    BY <1>2, OnlyLists
  <1>4. Head(w.todo) \in Ending
    BY <1>1, <1>3 DEF RecordedBy, Late, Ending
  <1>5. w.cmd.fact = IF Head(w.todo) \in {"mark", "clear"} THEN None ELSE "turnCommitted"
    BY <1>1, <1>4 DEF RecordedBy, Ending
  <1> QED
    BY <1>1, <1>2, <1>4, <1>5

\* When one of two commands is written, the other one is still right.
LEMMA OtherCommand ==
    ASSUME Both, NEW p \in Procs, NEW q \in Procs, p # q, NEW w, w = procs[p], NEW x, x = procs[q],
           w.cmd # None, row' = w.cmd.row, UNCHANGED <<facts, genOf, prompts, gens>>,
           \/ w.cmd.fact = None /\ UNCHANGED committed
           \/ /\ w.cmd.fact = "turnCommitted" /\ committed[w.a] = None /\ committed'[w.a] # None
              /\ \A y : committed[y] # None => committed'[y] # None
    PROVE  CmdInv(x)'
  <1> SUFFICES ASSUME x.cmd # None PROVE CmdInv(x)'
    BY DEF CmdInv
  <1>1. /\ w.a = x.a /\ w.a \in Attempts /\ Accepted(w.a)
        /\ Finishing(w, w.a) /\ Finishing(x, w.a)
    BY BothCommand
  <1>2. /\ Head(w.todo) \in Ending
        /\ w.cmd.fact = IF Head(w.todo) \in {"mark", "clear"} THEN None ELSE "turnCommitted"
        /\ Lists(w.todo, Head(w.todo))
    BY <1>1, EndingFacts DEF Both, Finishing
  <1>3. /\ Head(x.todo) \in Ending /\ x.cmd \in Cmd
        /\ x.cmd.fact = IF Head(x.todo) \in {"mark", "clear"} THEN None ELSE "turnCommitted"
        /\ Lists(x.todo, Head(x.todo))
    BY <1>1, EndingFacts DEF Both, Finishing
  <1>4. CmdInv(w) /\ CmdInv(x)
    BY DEF Both, WindowInv
  <1>5. /\ x.cmd.row.gen <= gens /\ Earned(x.cmd.row) /\ OpenFor(x.cmd.row)
        /\ Follows(x.cmd.row, x.a, x.cmd.fact) /\ Written(Head(x.todo), x.a, x.cmd)
    BY <1>4 DEF CmdInv
  <1>6. Written(Head(w.todo), w.a, w.cmd)
    BY <1>4 DEF CmdInv
  <1>7. ASSUME Head(x.todo) \in {"mark", "clear"} \/ Head(w.todo) \in {"mark", "clear"}
        PROVE  committed[w.a] # None
    <2>1. w.a \in Requested
      <3>1. <<"turnAccepted", w.a>> \in facts
        BY <1>1 DEF Accepted, Has
      <3> QED
        BY <3>1 DEF Both, TurnInv, LogInv
    <2>2. Head(x.todo) = "clear" \/ Head(w.todo) = "clear" => Unresolved = {}
      BY <1>5, <1>6 DEF Written
    <2>3. Head(x.todo) = "mark" \/ Head(w.todo) = "mark" => committed[w.a] # None
      BY <1>1, <1>2, <1>3 DEF Finishing
    <2> QED
      BY <2>1, <2>2, <2>3, <1>7 DEF Unresolved
  <1>8. NoneAssumption /\ "turnCommitted" # None
    BY NoneAssumption
  <1>9. ASSUME Head(x.todo) \in {"mark", "clear"}
        PROVE  /\ Unresolved = {} /\ Unresolved' = {} /\ x.cmd.row.pending = None /\ row'.pending = None
               /\ Same(x.cmd.row)'
    <2>1. committed[w.a] # None
      BY <1>7, <1>9
    <2>2. w.cmd.fact = None /\ UNCHANGED committed
      BY <2>1
    <2>3. Head(w.todo) \in {"mark", "clear"}
      BY <2>2, <1>2, <1>8
    <2>4. Unresolved = {}
      BY <2>1, <1>1 DEF Accepted, Unresolved
    <2>5. Unresolved' = {}
      BY <2>2, <2>4 DEF Unresolved, Requested, Has
    <2>6. row # None
      BY SentFacts, <2>2, NoneAssumption DEF Both, FactTypes
    <2>7. row.pending = None
      BY <2>4, <2>6 DEF Both, WindowInv, RowInv, OpenFor
    <2>8. Same(w.cmd.row) /\ w.cmd.row.pending = row.pending
      BY <2>3, <1>6 DEF Written
    <2>9. Same(x.cmd.row) /\ x.cmd.row.pending = row.pending
      BY <1>5, <1>9 DEF Written
    <2>10. Same(x.cmd.row)'
      BY <2>8, <2>9 DEF Same
    <2> QED
      BY <2>4, <2>5, <2>7, <2>8, <2>9, <2>10
  <1>10. ASSUME Head(x.todo) \notin {"mark", "clear"} PROVE x.cmd.row.pending = None /\ committed'[x.a] # None
    <2>1. x.cmd.row.pending = None
      BY <1>3, <1>5, <1>10 DEF Written, Ending, Committing
    <2>2. committed'[x.a] # None
      <3>1. CASE w.cmd.fact = None /\ UNCHANGED committed
        <4>1. Head(w.todo) \in {"mark", "clear"}
          BY <3>1, <1>2, <1>8
        <4> QED
          BY <4>1, <3>1, <1>1, <1>7
      <3>2. CASE committed'[w.a] # None
        BY <3>2, <1>1
      <3> QED
        BY <3>1, <3>2
    <2> QED
      BY <2>1, <2>2
  <1>11. OpenFor(x.cmd.row)'
    BY <1>9, <1>10 DEF OpenFor
  <1>12. Earned(x.cmd.row)'
    BY <1>5 DEF Earned, Has
  <1>13. Follows(x.cmd.row, x.a, x.cmd.fact)'
    <2>1. \A y : committed[y] # None => committed'[y] # None
      OBVIOUS
    <2> QED
      BY <2>1, <1>5 DEF Follows, Has
  <1>14. Written(Head(x.todo), x.a, x.cmd)'
    <2>1. CASE Head(x.todo) \in {"mark", "clear"}
      <3>1. Head(x.todo) = "mark" => x.cmd.row.state = "recovery-required"
        BY <1>5 DEF Written
      <3> QED
        BY <3>1, <2>1, <1>9 DEF Written, Committing
    <2>2. CASE Head(x.todo) \notin {"mark", "clear"}
      BY <2>2, <1>3, <1>10 DEF Written, Ending, Committing
    <2> QED
      BY <2>1, <2>2
  <1> QED
    BY <1>5, <1>11, <1>12, <1>13, <1>14 DEF CmdInv

\* A turn is recorded: it is the only open one, and nobody knows it yet.
LEMMA BeginsWindow ==
    ASSUME Both, NEW p \in Procs, NEW w, w = procs[p], NEW k, k = w.cmd, k # None,
           k.fact = "turnRequested", Unresolved = {}, NEW n \in Attempts, n = Cardinality(Requested) + 1,
           row' = k.row, facts' = facts \cup {<<"turnRequested", n>>},
           genOf' = [genOf EXCEPT ![n] = k.row.gen],
           procs' = [procs EXCEPT ![p] = [procs[p] EXCEPT !.a = n, !.todo = Rest(p), !.cmd = None]],
           UNCHANGED <<committed, gens, engine, owner, world>>
    PROVE  WindowInv'
  <1>1. /\ w \in Process /\ k \in Cmd /\ w.todo = Send /\ w.a = 0 /\ Rest(p) = Tail(w.todo)
        /\ w.todo \in Seq(Steps) /\ w.todo # <<>> /\ Head(w.todo) = "begin"
    BY SentFacts, SendOrder DEF Both
  <1>2. /\ Ordered(w.todo) /\ Lists(w.todo, "check") /\ Lists(w.todo, "acceptTurn")
        /\ Lists(w.todo, "begin")
    BY <1>1, SendOrder, RestFacts
  <1>3. p \in Clients
    <2>1. p # "observer"
      BY <1>1, ObserverAt DEF IsBeginning
    <2> QED
      BY <2>1 DEF Procs
  <1>4. \A b \in Attempts : ~ Shared(b)
    BY <1>1, <1>2, <1>3, WindowAlone DEF Both, Late
  <1>5. PICK v : /\ Moves(p, v) /\ v.todo = Tail(w.todo) /\ v.a = n /\ v.cmd = None
    <2> DEFINE m == [w EXCEPT !.a = n, !.todo = Tail(w.todo), !.cmd = None]
    <2>1. m.todo = Tail(w.todo) /\ m.a = n /\ m.cmd = None
      BY <1>1 DEF Process
    <2>2. Moves(p, m)
      BY <1>1 DEF Moves, Both, TurnInv
    <2> QED
      BY <2>1, <2>2
  <1>6. /\ Requested \subseteq Attempts /\ n \notin Requested /\ Cardinality(Requested) \in Nat
        /\ Requested = 1 .. Cardinality(Requested)
    <2>1. IsFiniteSet(Requested) /\ Requested \subseteq Attempts
      BY TurnAssumption, FS_Subset DEF Requested
    <2>2. Cardinality(Requested) \in Nat
      BY <2>1, FS_CardinalityType
    <2>3. Requested = 1 .. Cardinality(Requested)
      BY DEF Both, WindowInv, NumInv
    <2> QED
      BY <2>1, <2>2, <2>3
  <1>7. /\ committed[n] = None /\ prompts[n] = 0 /\ ~ Owned(n)
        /\ \A f : <<f, n>> \notin facts
    <2>1. committed[n] = None /\ prompts[n] = 0
      BY <1>6 DEF Both, WindowInv, NumInv
    <2>2. ~ Owned(n)
      BY <1>6 DEF Both, TurnInv, LogInv
    <2>3. \A f : <<f, n>> \notin facts
      BY <1>6 DEF Both, TurnInv, LogInv
    <2> QED
      BY <2>1, <2>2, <2>3
  <1>8. genOf'[n] = k.row.gen /\ \A x \in Attempts : x # n => genOf'[x] = genOf[x]
    BY DEF Both, TurnInv, LogInv
  <1>9. /\ Requested' = Requested \cup {n} /\ Unresolved' = {n}
        /\ \A f, x : <<f, x>> \in facts' <=> <<f, x>> \in facts \/ (f = "turnRequested" /\ x = n)
    <2>1. \A f, x : <<f, x>> \in facts' <=> <<f, x>> \in facts \/ (f = "turnRequested" /\ x = n)
      OBVIOUS
    <2>2. Requested' = Requested \cup {n}
      BY <2>1 DEF Requested, Has
    <2>3. \A x \in Requested : committed[x] # None
      BY DEF Unresolved
    <2>4. Unresolved' = {n}
      BY <2>2, <2>3, <1>7 DEF Unresolved
    <2> QED
      BY <2>1, <2>2, <2>4
  <1>10. Cardinality(Requested') = n
    <2>1. IsFiniteSet(Requested)
      BY <1>6, TurnAssumption, FS_Subset
    <2>2. Cardinality(Requested \cup {n}) = Cardinality(Requested) + 1
      BY <2>1, <1>6, FS_AddElement
    <2> QED
      BY <2>2, <1>9
  <1>11. NumInv'
    <2>1. Requested' = 1 .. Cardinality(Requested')
      BY <1>6, <1>9, <1>10
    <2>2. (\A a \in Attempts \ Requested : committed[a] = None /\ prompts[a] = 0)'
      BY <1>6, <1>9 DEF Both, WindowInv, NumInv, world
    <2>3. (\A a \in Unresolved, b \in Requested : b <= a)'
      BY <2>1, <1>6, <1>9, <1>10
    <2> QED
      BY <2>1, <2>2, <2>3 DEF NumInv
  <1>12. SentOnce'
    BY DEF Both, WindowInv, SentOnce, world
  <1>13. /\ k.row.gen <= gens /\ Earned(k.row) /\ OpenFor(k.row) /\ Follows(k.row, 0, "turnRequested")
         /\ k.row.pending = None /\ k.row \in BindingRow
    <2>1. CmdInv(w)
      BY DEF Both, WindowInv
    <2>2. Written("begin", 0, k) /\ Follows(k.row, 0, "turnRequested")
      BY <2>1, <1>1 DEF CmdInv
    <2> QED
      BY <2>1, <2>2, <1>1 DEF CmdInv, Written, Cmd
  <1>14. RowInv'
    <2>1. OpenFor(k.row)'
      BY <1>13 DEF OpenFor
    <2>2. Earned(k.row)'
      <3> SUFFICES ASSUME k.row.trusted
                   PROVE  k.row.native /\ \E x \in Attempts : Has("deliveryAccepted", x)' /\ genOf'[x] = k.row.gen
        BY DEF Earned
      <3>1. PICK x \in Attempts : Has("deliveryAccepted", x) /\ genOf[x] = k.row.gen
        BY <1>13 DEF Earned
      <3>2. x # n /\ Has("deliveryAccepted", x)'
        BY <3>1, <1>7, <1>9 DEF Has
      <3> QED
        BY <3>1, <3>2, <1>8, <1>13 DEF Earned
    <2>3. Follows(k.row, 0, None)'
      <3>1. k.row.accepted # 0 => k.row.accepted \in Attempts /\ k.row.accepted # n
        BY <1>7, <1>13 DEF Follows, Has, BindingRow
      <3>2. k.row.committed # 0 => committed[k.row.committed] # None
        BY <1>13 DEF Follows
      <3>3. k.row.accepted # 0 => Has("deliveryAccepted", k.row.accepted) /\ genOf[k.row.accepted] = k.row.gen
        BY <1>13 DEF Follows
      <3>4. k.row.accepted # 0 => Has("deliveryAccepted", k.row.accepted)' /\ genOf'[k.row.accepted] = k.row.gen
        BY <3>1, <3>3, <1>8, <1>9 DEF Has
      <3> QED
        BY <3>2, <3>4, <1>13 DEF Follows
    <2>4. (\A a \in Unresolved : IsCurrent(a))'
      <3>1. row' # None
        BY <1>13, NoneAssumption
      <3> QED
        BY <3>1, <1>8, <1>9 DEF IsCurrent
    <2> QED
      BY <2>1, <2>2, <2>3, <2>4, <1>13 DEF RowInv
  <1>15. ClientInv(v)'
    <2>1. Ordered(v.todo) /\ Lists(v.todo, "acceptTurn") /\ Lists(v.todo, "check")
      BY <1>1, <1>2, <1>5, RestOfSend
    <2>2. (v.a \in Unresolved /\ prompts[v.a] = 0 /\ ~ Owned(v.a))'
      BY <1>5, <1>7, <1>9 DEF Owned, world
    <2> QED
      BY <2>1, <2>2, OrderedClient
  <1>16. \A b : ~ Removes(p, b)
    <2>1. ~ Lists(w.todo, "remove")
      BY <1>2, OnlyLists DEF Ordered, Sending
    <2> QED
      BY <2>1 DEF Removes
  <1> QED
    BY <1>3, <1>4, <1>5, <1>11, <1>12, <1>14, <1>15, <1>16, AloneWrites

\* A window with a command of a send is alone, and its steps are in order.
LEMMA SendingAt ==
    ASSUME Both, NEW p \in Procs, NEW w, w = procs[p], w.cmd # None, w.cmd.fact # "turnRequested",
           Head(w.todo) \in Sending \cup {"acceptTurn"}, Head(w.todo) # "check"
    PROVE  /\ p \in Clients /\ Ordered(w.todo) /\ Lists(w.todo, "acceptTurn")
           /\ w \in Process /\ w.todo \in Seq(Steps) /\ w.todo # <<>> /\ ~ IsBeginning(w) /\ ClientInv(w)
           /\ w.cmd \in Cmd /\ w.cmd.row \in BindingRow /\ row # None /\ Rest(p) = Tail(w.todo)
           /\ w.cmd.fact \in RecordedBy(Head(w.todo))
           /\ \A b \in Attempts : ~ Shared(b)
           /\ \A b : ~ Removes(p, b)
  <1>1. /\ w \in Process /\ w.todo \in Seq(Steps) /\ w.todo # <<>> /\ w.cmd \in Cmd
        /\ w.cmd.row \in BindingRow /\ row # None /\ Rest(p) = Tail(w.todo)
        /\ w.cmd.fact \in RecordedBy(Head(w.todo))
    BY SentFacts DEF Both, Process, Cmd
  <1>2. p \in Clients
    <2>1. p # "observer"
      BY <1>1, ObserverAt DEF Sending
    <2> QED
      BY <2>1 DEF Procs
  <1>3. ClientInv(w)
    BY <1>2 DEF Both, WindowInv
  <1>4. Lists(w.todo, Head(w.todo))
    BY <1>1, RestFacts
  <1>5. Ordered(w.todo)
    BY <1>3, <1>4 DEF ClientInv, SendInv
  <1>6. Lists(w.todo, "acceptTurn")
    BY <1>4, <1>5 DEF Ordered, Leads
  <1>7. ~ IsBeginning(w)
    BY DEF IsBeginning
  <1>8. \A b \in Attempts : ~ Shared(b)
    BY <1>2, <1>6, WindowAlone DEF Both, Late
  <1>9. \A b : ~ Removes(p, b)
    <2>1. ~ Lists(w.todo, "remove")
      BY <1>5, OnlyLists DEF Ordered, Sending
    <2> QED
      BY <2>1 DEF Removes
  <1> QED
    BY <1>1, <1>2, <1>3, <1>5, <1>6, <1>7, <1>8, <1>9

\* The rest of a send behind the acceptance of the turn.
LEMMA AcceptedClient ==
    ASSUME NEW v, \A s : Lists(v.todo, s) => s \in {"drain", "await"},
           v.todo # <<>> => v.a \in Attempts /\ Accepted(v.a)'
    PROVE  ClientInv(v)'
  <1>1. /\ Only(v.todo, {"publish", "drain", "await", "mark", "remove"})
        /\ ~ Lists(v.todo, "mark") /\ ~ Lists(v.todo, "publish")
    BY OnlyLists
  <1>2. Ahead(v.todo, "publish", "drain") /\ Ahead(v.todo, "remove", "await") /\ Ahead(v.todo, "remove", "rebuild")
    <2>1. ~ Lists(v.todo, "remove") /\ ~ Lists(v.todo, "publish")
      OBVIOUS
    <2> QED
      BY <2>1 DEF Ahead, Lists
  <1>3. v.todo = <<>> => ~ Lists(v.todo, "drain")
    BY EmptyList
  <1>4. SendInv(v)'
    BY DEF SendInv, Sending
  <1>5. DrainInv(v)'
    BY <1>1, <1>2, <1>3 DEF DrainInv
  <1>6. RemoveInv(v)'
    BY <1>2 DEF RemoveInv
  <1> QED
    BY <1>4, <1>5, <1>6 DEF ClientInv

\* A send has its command written.
LEMMA SendingWrites ==
    ASSUME Both, NEW p \in Procs, NEW w, w = procs[p], NEW k, k = w.cmd, k # None, k.fact # "turnRequested",
           NEW h, h = Head(w.todo), h \in Sending \cup {"acceptTurn"},
           row' = k.row, GoTo(p, Rest(p)), UNCHANGED <<committed, genOf, gens, owner, prompts>>,
           \/ k.fact = None /\ UNCHANGED facts
           \/ k.fact \in FactTypes /\ facts' = facts \cup {<<k.fact, w.a>>}
    PROVE  WindowInv'
  <1>1. /\ h \in {"prepare", "starting", "materialize", "sent", "accept", "trust", "acceptTurn"}
        /\ k.fact = CASE h = "prepare"    -> "deliveryPrepared"
                      [] h = "accept"     -> "deliveryAccepted"
                      [] h = "acceptTurn" -> "turnAccepted"
                      [] OTHER            -> None
    <2>1. k.fact \in RecordedBy(h)
      BY SentFacts DEF Both
    <2> QED
      BY <2>1 DEF RecordedBy, Sending
  <1>2. /\ p \in Clients /\ Ordered(w.todo) /\ Lists(w.todo, "acceptTurn")
        /\ w \in Process /\ w.todo \in Seq(Steps) /\ w.todo # <<>> /\ ~ IsBeginning(w) /\ ClientInv(w)
        /\ k \in Cmd /\ k.row \in BindingRow /\ row # None /\ Rest(p) = Tail(w.todo)
        /\ \A b \in Attempts : ~ Shared(b)
        /\ \A b : ~ Removes(p, b)
    BY <1>1, SendingAt
  <1>3. /\ k.row.gen <= gens /\ Earned(k.row) /\ OpenFor(k.row) /\ Follows(k.row, w.a, k.fact)
        /\ Written(h, w.a, k)
    BY DEF Both, WindowInv, CmdInv
  <1>4. \A f, x : Has(f, x)' <=> Has(f, x) \/ (k.fact # None /\ f = k.fact /\ x = w.a)
    BY NoneAssumption DEF Has, FactTypes
  <1>5. k.row.gen = row.gen
    BY <1>1, <1>3 DEF Written, Same, Later
  <1>6. RowInv' /\ NumInv' /\ SentOnce' /\ Unresolved' = Unresolved
    <2>1. \A x : Has("turnRequested", x)' <=> Has("turnRequested", x)
      BY <1>4
    <2>2. \A x : Has("deliveryAccepted", x) => Has("deliveryAccepted", x)'
      BY <1>4
    <2>3. k.fact # "turnCommitted"
      BY <1>1, NoneAssumption
    <2>4. k.fact = "deliveryAccepted" => Has("deliveryAccepted", w.a)'
      BY <1>4, NoneAssumption DEF FactTypes
    <2> QED
      BY <2>1, <2>2, <2>3, <2>4, <1>2, <1>3, <1>5, RowWritten DEF Both
  <1>7. PICK v : /\ Moves(p, v) /\ v.todo = Rest(p) /\ v.cmd = None
                 /\ IF Rest(p) = <<>> THEN v = Idle ELSE v.a = procs[p].a
    BY WentTo DEF Both
  <1>8. v.todo = Tail(w.todo) /\ v.cmd = None /\ (v.todo # <<>> => v.a = w.a)
    BY <1>2, <1>7
  <1>9. /\ Ordered(v.todo)
        /\ \A s : Lists(v.todo, s) <=> Lists(w.todo, s) /\ s # h
        /\ \A x : Ahead(w.todo, x, h) => ~ Lists(w.todo, x)
        /\ Lists(w.todo, h)
    BY <1>2, <1>8, RestOfSend, RestFacts
  <1>10. row' # None
    BY <1>2, NoneAssumption
  <1>11. CASE h # "acceptTurn"
    <2>1. Lists(v.todo, "acceptTurn") /\ v.todo # <<>> /\ v.a = w.a
      BY <1>2, <1>8, <1>9, <1>11, EmptyList
    <2>2. ASSUME Lists(v.todo, "prepare")
          PROVE  (v.a \in Unresolved /\ prompts[v.a] = 0 /\ ~ Owned(v.a))'
      <3>1. w.a \in Unresolved /\ prompts[w.a] = 0 /\ ~ Owned(w.a)
        BY <2>2, <1>2, <1>9 DEF ClientInv, SendInv
      <3> QED
        BY <3>1, <2>1, <1>6 DEF Owned
    <2>3. ASSUME ~ Lists(v.todo, "check") PROVE Past(v)'
      <3>1. h # "prepare" /\ ~ Lists(w.todo, "check")
        BY <2>3, <1>1, <1>2, <1>9 DEF Ordered, Leads
      <3>2. Past(w)
        BY <3>1, <1>2 DEF ClientInv, SendInv
      <3>3. /\ w.a \in Unresolved /\ row.pending # None /\ row.pending.attempt = w.a
            /\ ~ Has("turnAccepted", w.a)
            /\ Lists(w.todo, "sent") <=> row.pending.phase = "prepared"
            /\ Lists(w.todo, "prompt") => prompts[w.a] = 0
            /\ ~ Lists(w.todo, "accept") => Has("deliveryAccepted", w.a)
        BY <3>2 DEF Past, IsPending
      <3>4. k.row.pending # None /\ k.row.pending.attempt = w.a
        BY <3>1, <3>3, <1>1, <1>3, <1>11 DEF Written
      <3>5. Lists(v.todo, "sent") <=> k.row.pending.phase = "prepared"
        <4>1. CASE h \in {"starting", "materialize", "trust"}
          BY <4>1, <3>3, <1>3, <1>9 DEF Written
        <4>2. CASE h = "sent"
          BY <4>2, <1>3, <1>9 DEF Written
        <4>3. CASE h = "accept"
          <5>1. ~ Lists(w.todo, "sent")
            BY <4>3, <1>2, <1>9 DEF Ordered, Leads
          <5> QED
            BY <5>1, <4>3, <1>3, <1>9 DEF Written
        <4> QED
          BY <4>1, <4>2, <4>3, <3>1, <1>1, <1>11
      <3>6. Lists(v.todo, "prompt") => prompts'[w.a] = 0
        BY <3>3, <1>9
      <3>7. ~ Lists(v.todo, "accept") => Has("deliveryAccepted", w.a)'
        BY <3>3, <1>1, <1>4, <1>9, NoneAssumption DEF FactTypes
      <3>8. ~ Has("turnAccepted", w.a)'
        BY <3>3, <1>1, <1>4, <1>11
      <3> QED
        BY <2>1, <3>3, <3>4, <3>5, <3>6, <3>7, <3>8, <1>6, <1>10 DEF Past, IsPending
    <2>4. ClientInv(v)'
      BY <2>1, <2>2, <2>3, <1>9, OrderedClient
    <2> QED
      BY <2>4, <1>2, <1>6, <1>7, AloneWrites
  <1>12. CASE h = "acceptTurn"
    <2>1. \A s : Lists(v.todo, s) => s \in {"drain", "await"}
      BY <1>2, <1>9, <1>12, OnlyLists DEF Ordered, Leads
    <2>2. ~ Lists(w.todo, "check")
      BY <1>2, <1>9, <1>12 DEF Ordered, Leads, Sending
    <2>3. Past(w)
      BY <2>2, <1>2 DEF ClientInv, SendInv
    <2>4. w.a \in Unresolved /\ w.a \in Attempts
      BY <2>3 DEF Past, Unresolved, Requested
    <2>5. Unresolved \subseteq {w.a}
      <3>1. \A x \in Unresolved : x <= w.a /\ w.a <= x /\ x \in Nat /\ w.a \in Nat
        BY <2>4, NumbersFacts DEF Both, WindowInv, NumInv, Unresolved, Requested
      <3> QED
        BY <3>1
    <2>6. Accepted(w.a)'
      <3>1. Has("turnAccepted", w.a)'
        BY <1>1, <1>4, <1>12, NoneAssumption DEF FactTypes
      <3>2. row'.state # "creating"
        BY <1>3, <1>12 DEF Written
      <3> QED
        BY <3>1, <3>2, <2>5, <1>6 DEF Accepted
    <2>7. ClientInv(v)'
      BY <2>1, <2>4, <2>6, <1>8, AcceptedClient
    <2> QED
      BY <2>7, <1>2, <1>6, <1>7, AloneWrites
  <1> QED
    BY <1>11, <1>12

\* A rebuilt binding is written.
LEMMA RebuildWrites ==
    ASSUME Both, NEW p \in Procs, NEW w, w = procs[p], NEW k, k = w.cmd, k # None,
           Head(w.todo) = "rebuild", row' = k.row, UNCHANGED <<facts, genOf, gens, owner, prompts>>,
           \/ k.fact = None /\ UNCHANGED committed /\ GoTo(p, Rest(p))
           \/ /\ k.fact = "turnCommitted" /\ committed[w.a] = None
              /\ committed' = [committed EXCEPT ![w.a] = k.snap] /\ GoTo(p, <<"remove">>)
    PROVE  WindowInv'
  <1>1. /\ w \in Process /\ w.todo \in Seq(Steps) /\ w.todo # <<>> /\ k \in Cmd /\ k.row \in BindingRow
        /\ Computed(w) /\ k.fact \in RecordedBy("rebuild")
    BY SentFacts DEF Both, Process, Cmd
  <1>2. p \in Clients
    <2>1. p # "observer"
      BY <1>1, ObserverAt
    <2> QED
      BY <2>1 DEF Procs
  <1>3. (\A b \in Attempts : ~ Shared(b)) /\ ~ Lists(w.todo, "remove")
    BY <1>1, <1>2, RebuildAt
  <1>4. \A b : ~ Removes(p, b)
    BY <1>3 DEF Removes
  <1>5. /\ k.row.gen <= gens /\ Earned(k.row) /\ OpenFor(k.row) /\ Follows(k.row, w.a, k.fact)
        /\ k.row.pending = None /\ (k.fact = None => Unresolved = {})
    BY DEF Both, WindowInv, CmdInv, Written
  <1>6. CASE k.fact = None /\ UNCHANGED committed /\ GoTo(p, Rest(p))
    <2>1. PICK v : Moves(p, v) /\ v.todo = Rest(p) /\ v.cmd = None
      BY <1>6, WentTo DEF Both
    <2>2. v.todo = Tail(w.todo)
      BY <2>1 DEF Rest
    <2>3. ClientInv(v)'
      BY <2>2, <1>1, <1>2, RebuildClient
    <2>4. (\A x : Has("turnRequested", x)' <=> Has("turnRequested", x))
          /\ (\A x : Has("deliveryAccepted", x) => Has("deliveryAccepted", x)')
      BY DEF Has
    <2>5. k.fact # "turnCommitted" /\ k.fact # "deliveryAccepted"
      BY <1>6, NoneAssumption DEF FactTypes
    <2>6. RowInv' /\ NumInv' /\ SentOnce'
      BY <2>4, <2>5, <1>1, <1>5, <1>6, RowWritten DEF Both
    <2> QED
      BY <2>1, <2>3, <2>6, <1>2, <1>3, <1>4, <1>6, AloneWrites
  <1>7. CASE /\ k.fact = "turnCommitted" /\ committed[w.a] = None
             /\ committed' = [committed EXCEPT ![w.a] = k.snap] /\ GoTo(p, <<"remove">>)
    <2>1. w.a \in Unresolved /\ w.a \in Attempts /\ k.snap # None
      <3>1. k.fact \notin {None, "turnRequested"}
        BY <1>7, NoneAssumption
      <3>2. w.a \in Attempts /\ w.a \in Requested
        BY <3>1, SentFacts DEF Both
      <3> QED
        BY <3>2, <1>1, <1>7 DEF Unresolved, Computed
    <2>2. committed'[w.a] # None /\ \A x \in Attempts : x # w.a => committed'[x] = committed[x]
      BY <2>1, <1>7 DEF Both, TurnInv, LogInv
    <2>3. RowInv' /\ NumInv' /\ SentOnce'
      BY <2>1, <2>2, <1>1, <1>5, <1>7, RowCommitted DEF Both
    <2>4. PICK v : Moves(p, v) /\ v.todo = <<"remove">> /\ v.cmd = None /\ v.a = w.a
      BY <1>7, WentTo DEF Both
    <2>5. \A s : Lists(v.todo, s) <=> s = "remove"
      BY <2>4, ListsOf
    <2>6. ClientInv(v)'
      BY <2>5, BriefClient DEF Brief
    <2>7. \A b \in Attempts : committed'[b] # None => committed[b] # None \/ b = w.a
      BY <2>2
    <2> QED
      BY <2>3, <2>4, <2>5, <2>6, <2>7, <1>2, <1>3, <1>4, AloneWrites
  <1> QED
    BY <1>6, <1>7

\* The end of a turn that was not dispatched is written.
LEMMA FailWrites ==
    ASSUME Both, NEW p \in Procs, NEW w, w = procs[p], NEW k, k = w.cmd, k # None,
           Head(w.todo) \in {"fail", "failNative"}, row' = k.row,
           UNCHANGED <<facts, genOf, gens, owner, prompts>>,
           k.fact = "turnCommitted", committed[w.a] = None,
           committed' = [committed EXCEPT ![w.a] = k.snap], GoTo(p, Rest(p))
    PROVE  WindowInv'
  <1>1. /\ w \in Process /\ w.todo \in Seq(Steps) /\ w.todo # <<>> /\ k \in Cmd /\ k.row \in BindingRow
        /\ Computed(w) /\ Rest(p) = Tail(w.todo)
    BY SentFacts DEF Both, Process, Cmd
  <1>2. p \in Clients
    <2>1. p # "observer"
      BY <1>1, ObserverAt
    <2> QED
      BY <2>1 DEF Procs
  <1>3. ClientInv(w) /\ Lists(w.todo, Head(w.todo))
    BY <1>1, <1>2, RestFacts DEF Both, WindowInv
  <1>4. \A b \in Attempts : ~ Shared(b)
    <2>1. ~ Repeating(w) /\ \A b : ~ Finishing(w, b)
      BY <1>3, OnlyLists DEF Repeating, Finishing, Late
    <2> QED
      BY <2>1, <1>1, <1>2 DEF Both, WindowInv, SharedInv, Sharing
  <1>5. /\ k.row.gen <= gens /\ Earned(k.row) /\ OpenFor(k.row) /\ Follows(k.row, w.a, k.fact)
        /\ k.row.pending = None
    BY DEF Both, WindowInv, CmdInv, Written, Committing
  <1>6. w.a \in Unresolved /\ w.a \in Attempts /\ w.a # 0 /\ k.snap # None
    <2>1. k.fact \notin {None, "turnRequested"}
      BY NoneAssumption
    <2>2. w.a \in Attempts /\ w.a # 0 /\ w.a \in Requested
      BY <2>1, SentFacts DEF Both
    <2> QED
      BY <2>2, <1>1 DEF Unresolved, Computed
  <1>7. committed'[w.a] # None /\ \A x \in Attempts : x # w.a => committed'[x] = committed[x]
    BY <1>6 DEF Both, TurnInv, LogInv
  <1>8. RowInv' /\ NumInv' /\ SentOnce'
    BY <1>1, <1>5, <1>6, <1>7, RowCommitted DEF Both
  <1>9. PICK v : /\ Moves(p, v) /\ v.todo = Rest(p) /\ v.cmd = None
                 /\ IF Rest(p) = <<>> THEN v = Idle ELSE v.a = procs[p].a
    BY WentTo DEF Both
  <1>10. v.todo = Tail(w.todo) /\ (v.todo # <<>> => v.a = w.a)
    BY <1>1, <1>9
  <1>11. /\ \A s : Lists(v.todo, s) => s \in {"fail", "failNative", "mark", "remove"}
         /\ Lists(w.todo, "remove") => Lists(v.todo, "remove") /\ v.todo # <<>>
    <2>1. Only(w.todo, {"fail", "failNative", "mark", "remove"})
      BY <1>3 DEF ClientInv, RemoveInv
    <2>2. /\ \A s : Lists(v.todo, s) => Lists(w.todo, s)
          /\ \A s : Lists(w.todo, s) /\ Head(w.todo) # s => Lists(v.todo, s)
      BY <1>1, <1>10, RestFacts
    <2>3. \A s : Lists(v.todo, s) => s \in {"fail", "failNative", "mark", "remove"}
      BY <2>1, <2>2, OnlyLists
    <2>4. Lists(w.todo, "remove") => Lists(v.todo, "remove")
      BY <2>2
    <2>5. Lists(v.todo, "remove") => v.todo # <<>>
      BY EmptyList
    <2> QED
      BY <2>3, <2>4, <2>5
  <1>12. Held(w) => Lists(w.todo, "remove")
    BY <1>3 DEF ClientInv, RemoveInv
  <1>13. ClientInv(v)'
    <2>1. Only(v.todo, {"fail", "failNative", "mark", "remove"})
      BY <1>11, OnlyLists
    <2>2. Lists(v.todo, "remove") \/ ~ Held(v)'
      <3>1. CASE v.todo = <<>>
        <4>1. v = Idle
          BY <3>1, <1>9
        <4> QED
          BY <4>1 DEF Held, Idle
      <3>2. CASE v.todo # <<>>
        BY <3>2, <1>10, <1>11, <1>12 DEF Held, Owned
      <3> QED
        BY <3>1, <3>2
    <2> QED
      BY <2>1, <2>2, <1>11, BriefClient DEF Brief
  <1>14. ASSUME NEW b \in Attempts, Owned(b), committed'[b] # None
         PROVE  \/ committed[b] # None /\ ~ Removes(p, b)
                \/ v.a = b /\ Lists(v.todo, "remove")
    <2>1. CASE b = w.a
      BY <2>1, <1>6, <1>10, <1>11, <1>12, <1>14 DEF Held
    <2>2. CASE b # w.a
      BY <2>2, <1>7, <1>14 DEF Removes
    <2> QED
      BY <2>1, <2>2
  <1> QED
    BY <1>2, <1>4, <1>8, <1>9, <1>13, <1>14, AloneWrites

\* A send finds its fact recorded: it goes on, or ends without a word to the runtime.
LEMMA SendingKnown ==
    ASSUME Both, NEW p \in Procs, NEW w, w = procs[p], NEW k, k = w.cmd, k # None,
           k.fact \in FactTypes \ {"turnRequested"}, Has(k.fact, w.a),
           GoTo(p, AfterSuccess(p)) \/ GoTo(p, AfterConflict(p)), UNCHANGED <<durable, owner, world>>
    PROVE  WindowInv'
  <1> SUFFICES ASSUME NEW h, h = Head(w.todo) PROVE WindowInv'
    OBVIOUS
  <1>1. \/ h = "prepare" /\ k.fact = "deliveryPrepared"
        \/ h = "accept" /\ k.fact = "deliveryAccepted"
        \/ h = "acceptTurn" /\ k.fact = "turnAccepted"
    <2>1. k.fact \in RecordedBy(h) /\ h \in Steps
      BY SentFacts DEF Both
    <2> QED
      BY <2>1, NoneAssumption DEF RecordedBy, FactTypes
  <1>2. /\ p \in Clients /\ Ordered(w.todo) /\ Lists(w.todo, "acceptTurn")
        /\ w \in Process /\ w.todo \in Seq(Steps) /\ w.todo # <<>> /\ ~ IsBeginning(w) /\ ClientInv(w)
        /\ row # None /\ Rest(p) = Tail(w.todo)
        /\ \A b \in Attempts : ~ Shared(b)
        /\ \A b : ~ Removes(p, b)
    <2>1. h \in Sending \cup {"acceptTurn"} /\ h # "check"
      BY <1>1 DEF Sending
    <2> QED
      BY <2>1, SendingAt
  <1>3. /\ Ordered(Tail(w.todo)) /\ Lists(w.todo, h)
        /\ \A s : Lists(Tail(w.todo), s) <=> Lists(w.todo, s) /\ s # h
        /\ \A x : Ahead(w.todo, x, h) => ~ Lists(w.todo, x)
    BY <1>2, RestOfSend, RestFacts
  <1>4. h # "acceptTurn"
    <2> SUFFICES ASSUME h = "acceptTurn" PROVE FALSE
      OBVIOUS
    <2>1. ~ Lists(w.todo, "check")
      BY <1>2, <1>3 DEF Ordered, Leads, Sending
    <2>2. Past(w)
      BY <2>1, <1>2 DEF ClientInv, SendInv
    <2> QED
      BY <2>2, <1>1 DEF Past
  <1>5. UNCHANGED <<facts, committed, genOf, row, prompts, owner>> /\ gens' >= gens
    BY QuietFacts DEF Both
  <1>6. ~ Lists(w.todo, "remove")
    BY <1>2 DEF Removes
  <1>7. ASSUME NEW v, Moves(p, v), v.cmd = None, ClientInv(v)' PROVE WindowInv'
    <2>1. CmdInv(v)'
      BY <1>7 DEF CmdInv
    <2> QED
      BY <2>1, <1>2, <1>5, <1>6, <1>7, AloneMoves
  <1>8. CASE GoTo(p, Rest(p))
    <2>1. PICK v : /\ Moves(p, v) /\ v.todo = Rest(p) /\ v.cmd = None
                   /\ IF Rest(p) = <<>> THEN v = Idle ELSE v.a = procs[p].a
      BY <1>8, WentTo DEF Both
    <2>2. v.todo = Tail(w.todo)
      BY <1>2, <2>1
    <2>3. Lists(v.todo, "acceptTurn") /\ v.todo # <<>> /\ v.a = w.a
      BY <1>2, <1>3, <1>4, <2>1, <2>2, EmptyList
    <2>4. ~ Lists(v.todo, "prepare")
      <3>1. CASE h = "prepare"
        BY <3>1, <1>3, <2>2
      <3>2. CASE h = "accept"
        BY <3>2, <1>2, <1>3, <2>2 DEF Ordered, Leads
      <3> QED
        BY <3>1, <3>2, <1>1, <1>4
    <2>5. ASSUME ~ Lists(v.todo, "check") PROVE Past(v)'
      <3>1. h = "accept" /\ ~ Lists(w.todo, "check")
        BY <2>5, <2>2, <1>1, <1>2, <1>3, <1>4 DEF Ordered, Leads
      <3>2. Past(w)
        BY <3>1, <1>2 DEF ClientInv, SendInv
      <3>3. /\ w.a \in Unresolved /\ IsPending(w.a) /\ ~ Has("turnAccepted", w.a)
            /\ Lists(v.todo, "sent") <=> row.pending.phase = "prepared"
            /\ Lists(v.todo, "prompt") => prompts[w.a] = 0
            /\ Has("deliveryAccepted", w.a)
        BY <3>1, <3>2, <2>2, <1>1, <1>3 DEF Past
      <3>4. Past(v)
        BY <3>3, <2>3 DEF Past
      <3> QED
        BY <3>4, <1>5 DEF Past, IsPending, Has, Unresolved, Requested
    <2>6. ClientInv(v)'
      BY <2>2, <2>3, <2>4, <2>5, <1>3, OrderedClient
    <2> QED
      BY <2>1, <2>6, <1>7
  <1>9. CASE h = "prepare" /\ GoTo(p, <<"fail">>)
    <2>1. PICK v : Moves(p, v) /\ v.todo = <<"fail">> /\ v.cmd = None /\ v.a = w.a
      BY <1>9, WentTo DEF Both
    <2>2. ~ Owned(w.a)
      BY <1>2, <1>3, <1>9 DEF ClientInv, SendInv
    <2>3. \A s : Lists(v.todo, s) <=> s = "fail"
      BY <2>1, BreakLists
    <2>4. ~ Held(v)'
      BY <2>1, <2>2, <1>5 DEF Held, Owned
    <2>5. Only(v.todo, {"fail", "failNative", "mark", "remove"})
      BY <2>3, OnlyLists
    <2>6. ClientInv(v)'
      BY <2>3, <2>4, <2>5, BriefClient DEF Brief
    <2> QED
      BY <2>1, <2>6, <1>7
  <1>10. CASE GoTo(p, Ambiguous) \/ GoTo(p, <<>>)
    <2>1. PICK v : Moves(p, v) /\ (v.todo = Ambiguous \/ v.todo = <<>>) /\ v.cmd = None
      <3>1. CASE GoTo(p, Ambiguous)
        BY <3>1, WentTo DEF Both
      <3>2. CASE GoTo(p, <<>>)
        BY <3>2, WentTo DEF Both
      <3> QED
        BY <3>1, <3>2, <1>10
    <2>2. \A s : Lists(v.todo, s) => s = "mark"
      BY <2>1, BreakLists, EmptyList
    <2>3. ClientInv(v)'
      BY <2>2, BriefClient DEF Brief
    <2> QED
      BY <2>1, <2>3, <1>7
  <1>11. AfterSuccess(p) = Rest(p)
    BY <1>1, <1>4 DEF AfterSuccess
  <1>12. /\ h = "prepare" => AfterConflict(p) = <<"fail">>
         /\ h = "accept" => AfterConflict(p) = Ambiguous \/ AfterConflict(p) = <<>>
    BY DEF AfterConflict
  <1> QED
    BY <1>1, <1>4, <1>8, <1>9, <1>10, <1>11, <1>12

\* A window at one of the last steps leaves it without a write.
LEMMA LateGoesOn ==
    ASSUME Both, NEW c \in Clients, NEW s \in (Late \ {"remove"}) \cup {"fail", "failNative"},
           NEW w, w = procs[c], w.todo # <<>>, Head(w.todo) = s, ~ IsBeginning(w),
           GoTo(c, Rest(c)), UNCHANGED <<durable, owner, world>>
    PROVE  WindowInv'
  <1>1. \A b \in Attempts : Shared(b)' => Shared(b)
    <2>1. PICK v : Moves(c, v)
      BY WentTo DEF Both, Procs
    <2>2. procs'["observer"] = procs["observer"]
      BY <2>1, TurnAssumption DEF Moves, Procs
    <2> QED
      BY <2>2 DEF Shared, Works, Free, Owned
  <1>2. \A b \in Attempts : Shared(b) => Accepted(b) /\ (Finishing(w, b) \/ Repeating(w))
    BY DEF Both, WindowInv, SharedInv, Sharing
  <1>3. \A b \in Attempts : Owned(b)' => Owned(b)
    BY DEF Owned
  <1>4. s \in Late \cup {"fail", "failNative"} /\ s # "remove"
    BY DEF Late
  <1> QED
    BY <1>1, <1>2, <1>3, <1>4, LateRest

\* The end of a turn is computed, and the turn is found over.
LEMMA OverKnown ==
    ASSUME Both, NEW p \in Procs, NEW w, w = procs[p], NEW k, k = w.cmd, k # None,
           k.fact = "turnCommitted", committed[w.a] # None,
           GoTo(p, AfterSuccess(p)) \/ GoTo(p, AfterConflict(p)), UNCHANGED <<durable, owner, world>>
    PROVE  WindowInv'
  <1> SUFFICES ASSUME NEW h, h = Head(w.todo) PROVE WindowInv'
    OBVIOUS
  <1>1. /\ h \in Committing \cup {"rebuild"}
        /\ w \in Process /\ w.todo \in Seq(Steps) /\ w.todo # <<>> /\ Rest(p) = Tail(w.todo)
        /\ row # None /\ w.a \in Requested /\ w.a \in Attempts /\ w.a # 0 /\ ~ IsBeginning(w)
    <2>1. k.fact \in RecordedBy(h) /\ h \in Steps
      BY SentFacts DEF Both
    <2>2. h \in Committing \cup {"rebuild"}
      BY <2>1, NoneAssumption DEF RecordedBy, Committing
    <2>3. k.fact \notin {None, "turnRequested"}
      BY NoneAssumption
    <2>4. /\ w \in Process /\ w.todo # <<>> /\ Rest(p) = Tail(w.todo)
          /\ row # None /\ w.a \in Requested /\ w.a \in Attempts /\ w.a # 0
      BY <2>3, SentFacts DEF Both
    <2> QED
      BY <2>2, <2>4 DEF Process, IsBeginning
  <1>2. Lists(w.todo, h) /\ Tail(w.todo) \in Seq(Steps)
    BY <1>1, RestFacts
  <1>3. h # "publish" => p \in Clients
    <2>1. p = "observer" => h = "publish" \/ h \in {"mark", "remove"}
      BY <1>1, <1>2, ObserverAt
    <2> QED
      BY <2>1, <1>1 DEF Procs, Committing
  <1>4. UNCHANGED <<facts, committed, genOf, row, prompts, owner>> /\ gens' >= gens
    BY QuietFacts DEF Both
  <1>5. CASE h = "rebuild"
    <2>1. (\A b \in Attempts : ~ Shared(b)) /\ ~ Lists(w.todo, "remove")
      BY <1>1, <1>3, <1>5, RebuildAt
    <2>2. GoTo(p, <<"remove">>) \/ GoTo(p, <<>>)
      <3>1. CASE GoTo(p, AfterSuccess(p))
        <4>1. GoTo(p, <<"remove">>)
          BY <3>1, <1>5 DEF AfterSuccess
        <4> QED
          BY <4>1
      <3>2. CASE GoTo(p, AfterConflict(p))
        <4>1. GoTo(p, <<>>)
          BY <3>2, <1>5 DEF AfterConflict
        <4> QED
          BY <4>1
      <3> QED
        BY <3>1, <3>2
    <2>3. PICK v : Moves(p, v) /\ (v.todo = <<"remove">> \/ v.todo = <<>>) /\ v.cmd = None
      <3>1. CASE GoTo(p, <<"remove">>)
        BY <3>1, WentTo DEF Both
      <3>2. CASE GoTo(p, <<>>)
        BY <3>2, WentTo DEF Both
      <3> QED
        BY <3>1, <3>2, <2>2
    <2>4. \A s : Lists(v.todo, s) => s = "remove"
      <3>1. CASE v.todo = <<"remove">>
        BY <3>1, ListsOf
      <3>2. CASE v.todo = <<>>
        BY <3>2, EmptyList
      <3> QED
        BY <3>1, <3>2, <2>3
    <2>5. ClientInv(v)'
      BY <2>4, BriefClient DEF Brief
    <2>6. CmdInv(v)'
      BY <2>3 DEF CmdInv
    <2> QED
      BY <2>1, <2>3, <2>5, <2>6, <1>3, <1>4, <1>5, AloneMoves
  <1>6. CASE h \in {"fail", "failNative"} \/ (h = "settle" /\ GoTo(p, AfterSuccess(p)))
    <2>1. AfterSuccess(p) = Rest(p) /\ (h # "settle" => AfterConflict(p) = Rest(p))
      BY <1>6 DEF AfterSuccess, AfterConflict
    <2>2. GoTo(p, Rest(p))
      BY <2>1, <1>6
    <2>3. p \in Clients /\ h \in (Late \ {"remove"}) \cup {"fail", "failNative"}
      BY <1>3, <1>6 DEF Late
    <2> QED
      BY <2>2, <2>3, <1>1, LateGoesOn
  <1>7. CASE h = "settle" /\ GoTo(p, AfterConflict(p))
    <2>1. GoTo(p, <<>>)
      BY <1>7 DEF AfterConflict
    <2>2. PICK v : Moves(p, v) /\ v.todo = <<>> /\ v.cmd = None
      BY <2>1, WentTo DEF Both
    <2>3. ClientInv(v)'
      BY <2>2, EmptyList, BriefClient
    <2>4. CmdInv(v)'
      BY <2>2 DEF CmdInv
    <2>5. ASSUME NEW b \in Attempts, Owned(b), committed[b] # None, Removes(p, b) PROVE FALSE
      <3>1. w.a = b /\ Lists(w.todo, "remove")
        BY <2>5 DEF Removes
      <3>2. Head(w.todo) = "remove" \/ ~ Held(w) \/ committed[w.a] = None
        BY <3>1, <1>2, <1>3, <1>7 DEF Both, WindowInv, ClientInv, RemoveInv
      <3> QED
        BY <3>1, <3>2, <2>5, <1>1, <1>7 DEF Held
    <2> QED
      BY <2>2, <2>3, <2>4, <2>5, <1>1, <1>3, <1>7, LateMoves DEF Late
  <1>8. ASSUME NEW n \in Seq(Steps), n # <<>>, \A s : Lists(n, s) => s \in {"mark", "remove"},
               NEW t, t = n \o Rest(p)
        PROVE  After(n, Tail(w.todo), t) /\ t # <<>>
    BY <1>1, <1>2, <1>8, Behind
  <1>9. ASSUME NEW n, \A s : Lists(n, s) => s \in {"mark", "remove"}, h \in {"observe", "publish"},
               NEW t, After(n, Tail(w.todo), t), t # <<>>, GoTo(p, t)
        PROVE  WindowInv'
    <2>1. CASE p = "observer"
      <3>1. h = "publish"
        BY <2>1, <1>3, <1>9, TurnAssumption
      <3> QED
        BY <3>1, <2>1, <1>1, <1>9, ObserverSettles
    <2>2. CASE p # "observer"
      <3>1. p \in Clients
        BY <2>2 DEF Procs
      <3> QED
        BY <3>1, <1>1, <1>9, SettledMoves
    <2> QED
      BY <2>1, <2>2
  <1>10. CASE h \in {"observe", "publish"} /\ GoTo(p, AfterSuccess(p))
    <2>1. PICK n : n = AfterCommit(p)
      OBVIOUS
    <2>2. n \in Seq(Steps) /\ n # <<>> /\ \A s : Lists(n, s) => s \in {"mark", "remove"}
      BY <2>1, AfterCommitLists
    <2>3. PICK t : t = AfterSuccess(p)
      OBVIOUS
    <2>4. t = n \o Rest(p)
      BY <2>1, <2>3, <1>10 DEF AfterSuccess
    <2>5. After(n, Tail(w.todo), t) /\ t # <<>>
      BY <2>2, <2>4, <1>8
    <2>6. GoTo(p, t)
      BY <2>3, <1>10
    <2> QED
      BY <2>2, <2>5, <2>6, <1>9, <1>10
  <1>11. CASE h = "publish" /\ GoTo(p, AfterConflict(p))
    <2>1. <<"mark">> \in Seq(Steps) /\ <<"mark">> # <<>> /\ \A s : Lists(<<"mark">>, s) => s \in {"mark", "remove"}
      BY ListsOf DEF Steps
    <2>2. PICK t : t = AfterConflict(p)
      OBVIOUS
    <2>3. t = <<"mark">> \o Rest(p)
      BY <2>2, <1>11 DEF AfterConflict
    <2>4. After(<<"mark">>, Tail(w.todo), t) /\ t # <<>>
      BY <2>1, <2>3, <1>8
    <2>5. GoTo(p, t)
      BY <2>2, <1>11
    <2> QED
      BY <2>1, <2>4, <2>5, <1>9, <1>11
  <1>12. CASE h = "observe" /\ GoTo(p, AfterConflict(p))
    <2>1. GoTo(p, <<"mark">>)
      BY <1>12 DEF AfterConflict
    <2> QED
      BY <2>1, <1>1, <1>3, <1>12, ObserveEnds
  <1> QED
    BY <1>1, <1>5, <1>6, <1>7, <1>10, <1>11, <1>12 DEF Committing

\* A window leaves a flag, a settlement or the clearing of a flag behind: the
\* rest of its steps fit the log and the row that it has written.
LEMMA RestEnding ==
    ASSUME NEW w, w.todo \in Seq(Steps), w.todo # <<>>, ClientInv(w),
           Head(w.todo) \in {"mark", "clear", "settle"},
           NEW v, v.todo = Tail(w.todo), v.a = w.a, UNCHANGED <<facts, owner>>,
           Head(w.todo) # "settle" => UNCHANGED committed,
           \A x : committed[x] # None => committed'[x] # None,
           Accepted(w.a) => Accepted(w.a)'
    PROVE  ClientInv(v)'
  <1> SUFFICES ASSUME NEW h, h = Head(w.todo) PROVE ClientInv(v)'
    OBVIOUS
  <1>1. /\ Lists(w.todo, h)
        /\ \A s : Lists(v.todo, s) => Lists(w.todo, s)
        /\ \A s : Lists(w.todo, s) /\ h # s => Lists(v.todo, s)
        /\ \A x, y : Ahead(w.todo, x, y) => Ahead(v.todo, x, y)
    BY RestFacts
  <1>2. \A S : Only(w.todo, S) => Only(v.todo, S)
    BY RestFacts
  <1>3. /\ Once(w.todo) => Once(v.todo)
        /\ Single(w.todo, "settle") => Single(v.todo, "settle") /\ (h = "settle" => ~ Lists(v.todo, "settle"))
    BY RestOrder
  <1>4. \A s \in Sending \cup {"acceptTurn"} : ~ Lists(w.todo, s)
    <2>1. ~ Ordered(w.todo)
      BY <1>1, OnlyLists DEF Ordered, Sending
    <2> QED
      BY <2>1 DEF ClientInv, SendInv
  <1>5. SendInv(v)'
    <2>1. \A s \in Sending \cup {"acceptTurn"} : ~ Lists(v.todo, s)
      BY <1>1, <1>4
    <2> QED
      BY <2>1 DEF SendInv, Sending
  <1>6. DrainInv(v)'
    <2>1. ~ Lists(w.todo, "acceptTurn") /\ ~ Lists(v.todo, "acceptTurn")
      BY <1>1, <1>4
    <2>2. ASSUME Lists(v.todo, "drain")
          PROVE  /\ Only(v.todo, {"publish", "drain", "await", "mark", "remove"})
                 /\ Lists(v.todo, "mark") => committed'[v.a] # None
                 /\ v.a \in Attempts /\ Accepted(v.a)'
      <3>1. /\ Only(w.todo, {"publish", "drain", "await", "mark", "remove"})
            /\ Lists(w.todo, "mark") => committed[w.a] # None
            /\ w.a \in Attempts /\ Accepted(w.a)
        BY <2>1, <2>2, <1>1 DEF ClientInv, DrainInv
      <3> QED
        BY <3>1, <1>1, <1>2
    <2>3. Lists(v.todo, "publish") => Lists(v.todo, "drain")
      BY <1>1 DEF ClientInv, DrainInv
    <2>4. Ahead(v.todo, "publish", "drain")
      BY <1>1 DEF ClientInv, DrainInv
    <2> QED
      BY <2>1, <2>2, <2>3, <2>4 DEF DrainInv
  <1>7. RemoveInv(v)'
    <2>1. Held(v)' <=> Held(w)
      BY DEF Held, Owned
    <2>2. RemoveInv(w)
      BY DEF ClientInv
    <2>3. \A s \in {"settle", "fail", "failNative"} :
             Lists(v.todo, s) => Lists(v.todo, "remove") \/ ~ Held(w)
      BY <2>2, <1>1 DEF RemoveInv
    <2>4. Lists(v.todo, "remove") /\ Lists(v.todo, "settle") =>
             \/ ~ Held(w)
             \/ committed'[v.a] = None /\ ~ Has("turnAccepted", v.a)'
      <3> SUFFICES ASSUME Lists(v.todo, "remove"), Lists(v.todo, "settle"), Held(w)
                   PROVE  committed'[v.a] = None /\ ~ Has("turnAccepted", v.a)'
        OBVIOUS
      <3>1. Lists(w.todo, "remove") /\ Lists(w.todo, "settle")
        BY <1>1
      <3>2. h # "settle"
        BY <2>2, <3>1, <1>3 DEF RemoveInv
      <3>3. committed[w.a] = None /\ ~ Has("turnAccepted", w.a)
        BY <2>2, <3>1 DEF RemoveInv
      <3> QED
        BY <3>2, <3>3 DEF Has
    <2>5. Lists(v.todo, "remove") /\ Lists(v.todo, "observe") => ~ Held(w)
      BY <2>2, <1>1 DEF RemoveInv
    <2>6. Lists(v.todo, "observe") =>
             Once(v.todo) /\ Only(v.todo, {"remove", "observe", "clear", "rebuild"})
      BY <2>2, <1>1, <1>2, <1>3 DEF RemoveInv
    <2>7. Lists(v.todo, "settle") =>
             Single(v.todo, "settle") /\ Only(v.todo, {"remove", "settle", "clear"})
      BY <2>2, <1>1, <1>2, <1>3 DEF RemoveInv
    <2>8. Lists(v.todo, "fail") \/ Lists(v.todo, "failNative") =>
             Only(v.todo, {"fail", "failNative", "mark", "remove"})
      BY <2>2, <1>1, <1>2 DEF RemoveInv
    <2>9. Ahead(v.todo, "remove", "await") /\ Ahead(v.todo, "remove", "rebuild")
      BY <2>2, <1>1 DEF RemoveInv
    <2> QED
      BY <2>1, <2>3, <2>4, <2>5, <2>6, <2>7, <2>8, <2>9 DEF RemoveInv
  <1> QED
    BY <1>5, <1>6, <1>7 DEF ClientInv

\* A flag, a settlement or the clearing of a flag is written.
LEMMA RestWrites ==
    ASSUME Both, NEW p \in Procs, NEW w, w = procs[p], NEW k, k = w.cmd, k # None,
           NEW h, h = Head(w.todo), h \in {"mark", "clear", "settle"},
           row' = k.row, GoTo(p, Rest(p)), UNCHANGED <<facts, genOf, gens, owner, prompts>>,
           \/ k.fact = None /\ UNCHANGED committed /\ h # "settle"
           \/ /\ k.fact = "turnCommitted" /\ committed[w.a] = None /\ h = "settle"
              /\ committed' = [committed EXCEPT ![w.a] = k.snap]
    PROVE  WindowInv'
  <1>1. /\ w \in Process /\ w.todo \in Seq(Steps) /\ w.todo # <<>> /\ k \in Cmd /\ k.row \in BindingRow
        /\ Computed(w) /\ Rest(p) = Tail(w.todo)
    BY SentFacts DEF Both, Process, Cmd
  <1>2. /\ Lists(w.todo, h)
        /\ \A s : Lists(Tail(w.todo), s) => Lists(w.todo, s)
        /\ \A s : Lists(w.todo, s) /\ h # s => Lists(Tail(w.todo), s)
    BY <1>1, RestFacts
  <1>3. h # "mark" => p \in Clients
    <2>1. p = "observer" => h = "mark"
      BY <1>1, <1>2, ObserverAt
    <2> QED
      BY <2>1 DEF Procs
  <1>4. /\ k.row.gen <= gens /\ Earned(k.row) /\ OpenFor(k.row) /\ Follows(k.row, w.a, k.fact)
        /\ Written(h, w.a, k)
    BY DEF Both, WindowInv, CmdInv
  <1>5. h = "settle" => /\ k.fact = "turnCommitted" /\ w.a \in Unresolved /\ w.a # 0 /\ w.a \in Attempts
                        /\ committed'[w.a] # None
                        /\ \A x \in Attempts : x # w.a => committed'[x] = committed[x]
    <2> SUFFICES ASSUME h = "settle"
                 PROVE  /\ k.fact = "turnCommitted" /\ w.a \in Unresolved /\ w.a # 0 /\ w.a \in Attempts
                        /\ committed'[w.a] # None
                        /\ \A x \in Attempts : x # w.a => committed'[x] = committed[x]
      OBVIOUS
    <2>1. k.fact = "turnCommitted" /\ committed[w.a] = None /\ committed' = [committed EXCEPT ![w.a] = k.snap]
      OBVIOUS
    <2>2. k.fact \notin {None, "turnRequested"}
      BY <2>1, NoneAssumption
    <2>3. w.a \in Attempts /\ w.a # 0 /\ w.a \in Requested
      BY <2>2, SentFacts DEF Both
    <2>4. k.snap # None
      BY <2>1, <1>1 DEF Computed
    <2>5. committed \in [Attempts -> Snapshots \cup {None}]
      BY DEF Both, TurnInv, LogInv
    <2> QED
      BY <2>1, <2>3, <2>4, <2>5 DEF Unresolved
  <1>6. h # "settle" => k.fact = None /\ UNCHANGED committed
    OBVIOUS
  <1>7. \A x : committed[x] # None => committed'[x] # None
    <2>1. CASE h = "settle"
      <3>1. committed \in [Attempts -> Snapshots \cup {None}]
        BY DEF Both, TurnInv, LogInv
      <3>2. committed' = [committed EXCEPT ![w.a] = k.snap] /\ k.snap # None
        BY <2>1, <1>1 DEF Computed
      <3> QED
        BY <3>1, <3>2
    <2>2. CASE h # "settle"
      BY <2>2, <1>6
    <2> QED
      BY <2>1, <2>2
  <1>8. /\ RowInv' /\ NumInv' /\ SentOnce'
        /\ h # "settle" => Unresolved' = Unresolved
        /\ h = "settle" => Unresolved' = {}
    <2>1. CASE h = "settle"
      <3>1. k.row.pending = None
        BY <2>1, <1>4 DEF Written, Committing
      <3> QED
        BY <3>1, <2>1, <1>1, <1>4, <1>5, RowCommitted DEF Both
    <2>2. CASE h # "settle"
      <3>1. k.row.gen = row.gen
        BY <2>2, <1>4 DEF Written, Same
      <3>2. (\A x : Has("turnRequested", x)' <=> Has("turnRequested", x))
            /\ (\A x : Has("deliveryAccepted", x) => Has("deliveryAccepted", x)')
        BY DEF Has
      <3>3. k.fact # "turnCommitted" /\ k.fact # "deliveryAccepted"
        BY <2>2, <1>6, NoneAssumption DEF FactTypes
      <3> QED
        BY <3>1, <3>2, <3>3, <2>2, <1>1, <1>4, <1>6, RowWritten DEF Both
    <2> QED
      BY <2>1, <2>2
  <1>9. \A b : Accepted(b) => Accepted(b)'
    <2> SUFFICES ASSUME NEW b, Accepted(b) PROVE Accepted(b)'
      OBVIOUS
    <2>1. Has("turnAccepted", b)' /\ Unresolved \subseteq {b}
      BY DEF Accepted, Has
    <2>2. Unresolved' \subseteq {b}
      BY <2>1, <1>8
    <2>3. b \in Unresolved' => row'.state # "creating"
      <3>1. CASE h = "mark"
        BY <3>1, <1>4 DEF Written
      <3>2. CASE h = "clear"
        BY <3>2, <1>4, <1>8 DEF Written
      <3>3. CASE h = "settle"
        BY <3>3, <1>8
      <3> QED
        BY <3>1, <3>2, <3>3
    <2> QED
      BY <2>1, <2>2, <2>3 DEF Accepted
  <1>10. PICK v : /\ Moves(p, v) /\ v.todo = Rest(p) /\ v.cmd = None
                  /\ IF Rest(p) = <<>> THEN v = Idle ELSE v.a = procs[p].a
    BY WentTo DEF Both
  <1>11. v.todo = Tail(w.todo) /\ (v.todo # <<>> => v.a = w.a)
    BY <1>1, <1>10
  <1>12. ASSUME p \in Clients PROVE ClientInv(v)' /\ \A b \in Attempts : Shared(b) => Sharing(v, b)'
    <2>1. ClientInv(w)
      BY <1>12 DEF Both, WindowInv
    <2>2. ClientInv(v)'
      <3>1. CASE v.todo = <<>>
        BY <3>1, EmptyList, BriefClient
      <3>2. CASE v.todo # <<>>
        BY <3>2, <2>1, <1>1, <1>6, <1>7, <1>9, <1>11, RestEnding
      <3> QED
        BY <3>1, <3>2
    <2>3. ASSUME NEW b \in Attempts, Shared(b), v.todo # <<>> PROVE Finishing(v, b)'
      <3>1. Finishing(w, b)
        BY <2>3, <1>1, <1>2, <1>12, LateHead DEF Both, Late
      <3>2. w.a = b /\ Only(w.todo, Late) /\ (Lists(w.todo, "mark") => committed[b] # None)
        BY <3>1 DEF Finishing
      <3>3. Only(v.todo, Late)
        BY <3>2, <1>2, <1>11, OnlyLists
      <3>4. Lists(v.todo, "mark") => committed'[b] # None
        BY <3>2, <1>2, <1>7, <1>11
      <3> QED
        BY <3>2, <3>3, <3>4, <2>3, <1>11 DEF Finishing
    <2> QED
      BY <2>2, <2>3 DEF Sharing
  <1>13. ASSUME p = "observer"
         PROVE  /\ Publishing(v)'
                /\ v.todo # <<>> => v.a = procs[p].a /\ procs[p].todo # <<>>
                /\ procs[p].a \in Attempts /\ Shared(procs[p].a)
    <2>1. h = "mark"
      BY <1>3, <1>13, TurnAssumption
    <2>2. w.a \in Attempts /\ Works(w.a) /\ (\A s : Lists(w.todo, s) => s \in {"mark", "remove"})
          /\ committed[w.a] # None
      BY <2>1, <1>1, <1>2, <1>13, ObserverAt
    <2>3. Only(v.todo, {"mark", "remove"}) /\ committed'[w.a] # None
      BY <2>2, <1>2, <1>7, <1>11, OnlyLists
    <2> QED
      BY <2>2, <2>3, <1>1, <1>11 DEF Publishing, Shared
  <1>14. ASSUME NEW b \in Attempts, Owned(b), committed'[b] # None
         PROVE  \/ committed[b] # None /\ ~ Removes(p, b)
                \/ v.a = b /\ Lists(v.todo, "remove")
    <2>1. Lists(w.todo, "remove") => Lists(v.todo, "remove") /\ v.todo # <<>>
      <3>1. Lists(w.todo, "remove") => Lists(v.todo, "remove")
        BY <1>2, <1>11
      <3>2. Lists(v.todo, "remove") => v.todo # <<>>
        BY EmptyList
      <3> QED
        BY <3>1, <3>2
    <2>2. CASE Removes(p, b)
      BY <2>1, <2>2, <1>11 DEF Removes
    <2>3. CASE ~ Removes(p, b) /\ h # "settle"
      BY <2>3, <1>6, <1>14
    <2>4. CASE ~ Removes(p, b) /\ h = "settle"
      <3>1. CASE b = w.a
        <4>1. ClientInv(w) /\ Held(w)
          BY <2>4, <3>1, <1>3, <1>5, <1>14 DEF Both, WindowInv, Held
        <4>2. Lists(w.todo, "remove")
          BY <4>1, <2>4, <1>2 DEF ClientInv, RemoveInv
        <4> QED
          BY <4>2, <2>4, <3>1 DEF Removes
      <3>2. CASE b # w.a
        BY <3>2, <2>4, <1>5, <1>14
      <3> QED
        BY <3>1, <3>2
    <2> QED
      BY <2>2, <2>3, <2>4
  <1>15. \A q \in Procs : q # p => CmdInv(procs[q])'
    <2> SUFFICES ASSUME NEW q \in Procs, q # p, NEW x, x = procs[q] PROVE CmdInv(procs[q])'
      OBVIOUS
    <2>1. CmdInv(x)'
      BY <1>5, <1>6, <1>7, OtherCommand
    <2>2. procs'[q] = x
      BY <1>10 DEF Moves
    <2> QED
      BY <2>1, <2>2
  <1> QED
    BY <1>7, <1>8, <1>9, <1>10, <1>12, <1>13, <1>14, <1>15, SharedWrites DEF Both, WindowInv, SharedInv

\* The terminal the runtime has reported is written.
LEMMA CommitWrites ==
    ASSUME Both, NEW p \in Procs, NEW w, w = procs[p], NEW k, k = w.cmd, k # None,
           NEW h, h = Head(w.todo), h \in {"observe", "publish"},
           row' = k.row, UNCHANGED <<facts, genOf, gens, owner, prompts>>,
           k.fact = "turnCommitted", committed[w.a] = None,
           committed' = [committed EXCEPT ![w.a] = k.snap],
           NEW n, \A s : Lists(n, s) => s \in {"mark", "remove"}, Lists(n, "remove"),
           NEW t, After(n, Tail(w.todo), t), t # <<>>, GoTo(p, t)
    PROVE  WindowInv'
  <1>1. /\ w \in Process /\ w.todo \in Seq(Steps) /\ w.todo # <<>> /\ k \in Cmd /\ k.row \in BindingRow
        /\ Computed(w) /\ Rest(p) = Tail(w.todo)
    BY SentFacts DEF Both, Process, Cmd
  <1>2. /\ Lists(w.todo, h)
        /\ \A s : Lists(Tail(w.todo), s) => Lists(w.todo, s)
    BY <1>1, RestFacts
  <1>3. k.row.gen <= gens /\ Earned(k.row) /\ Follows(k.row, w.a, k.fact) /\ k.row.pending = None
    BY DEF Both, WindowInv, CmdInv, Written, Committing
  <1>4. /\ w.a \in Unresolved /\ w.a # 0 /\ w.a \in Attempts /\ committed'[w.a] # None
        /\ \A x \in Attempts : x # w.a => committed'[x] = committed[x]
        /\ \A x : committed[x] # None => committed'[x] # None
    <2>1. k.fact \notin {None, "turnRequested"}
      BY NoneAssumption
    <2>2. w.a \in Attempts /\ w.a # 0 /\ w.a \in Requested
      BY <2>1, SentFacts DEF Both
    <2>3. k.snap # None
      BY <1>1 DEF Computed
    <2>4. committed \in [Attempts -> Snapshots \cup {None}]
      BY DEF Both, TurnInv, LogInv
    <2> QED
      BY <2>2, <2>3, <2>4 DEF Unresolved
  <1>5. RowInv' /\ NumInv' /\ SentOnce' /\ Unresolved' = {} /\ Unresolved = {w.a}
    BY <1>1, <1>3, <1>4, RowCommitted DEF Both
  <1>6. \A b : Accepted(b) => Accepted(b)'
    BY <1>5 DEF Accepted, Has
  <1>7. PICK v : Moves(p, v) /\ v.todo = t /\ v.cmd = None /\ v.a = w.a
    BY WentTo DEF Both
  <1>8. /\ After(n, Tail(w.todo), v.todo) /\ v.todo # <<>> /\ Lists(v.todo, "remove")
        /\ \A s : Lists(v.todo, s) => s \in {"mark", "remove"} \/ Lists(Tail(w.todo), s)
    BY <1>7 DEF After
  <1>9. ASSUME p \in Clients PROVE ClientInv(v)' /\ \A b \in Attempts : Shared(b) => Sharing(v, b)'
    <2>1. ClientInv(w)
      BY <1>9 DEF Both, WindowInv
    <2>2. ClientInv(v)'
      BY <2>1, <1>1, <1>4, <1>6, <1>7, <1>8, SettledClient
    <2>3. ASSUME NEW b \in Attempts, Shared(b) PROVE Finishing(v, b)'
      <3>1. Finishing(w, b)
        BY <2>3, <1>1, <1>2, <1>9, LateHead DEF Both, Late
      <3>2. w.a = b /\ Only(w.todo, Late)
        BY <3>1 DEF Finishing
      <3>3. \A s : Lists(w.todo, s) => s \in Late
        BY <3>2, OnlyLists
      <3>4. Only(v.todo, Late)
        <4>1. \A s : Lists(v.todo, s) => s \in Late
          BY <3>3, <1>2, <1>8 DEF Late
        <4> QED
          BY <4>1, OnlyLists
      <3> QED
        BY <3>2, <3>4, <1>4, <1>7 DEF Finishing
    <2> QED
      BY <2>2, <2>3 DEF Sharing
  <1>10. ASSUME p = "observer"
         PROVE  /\ Publishing(v)' /\ v.a = procs[p].a /\ procs[p].todo # <<>>
                /\ procs[p].a \in Attempts /\ Shared(procs[p].a)
    <2>1. w.a \in Attempts /\ Works(w.a) /\ (\A s : Lists(w.todo, s) <=> s = "publish") /\ Once(w.todo)
      BY <1>1, <1>2, <1>10, ObserverAt
    <2>2. ~ Lists(Tail(w.todo), "publish")
      BY <2>1, <1>1, <1>2, RestOrder
    <2>3. \A s : ~ Lists(Tail(w.todo), s)
      BY <2>1, <2>2, <1>2
    <2>4. Only(v.todo, {"mark", "remove"})
      BY <2>3, <1>8, OnlyLists
    <2> QED
      BY <2>1, <2>4, <1>1, <1>4, <1>7 DEF Publishing, Shared
  <1>11. ASSUME NEW b \in Attempts, Owned(b), committed'[b] # None
         PROVE  \/ committed[b] # None /\ ~ Removes(p, b)
                \/ v.a = b /\ Lists(v.todo, "remove")
    <2>1. CASE b = w.a
      BY <2>1, <1>7, <1>8
    <2>2. CASE b # w.a
      BY <2>2, <1>4, <1>11 DEF Removes
    <2> QED
      BY <2>1, <2>2
  <1>12. \A q \in Procs : q # p => CmdInv(procs[q])'
    <2> SUFFICES ASSUME NEW q \in Procs, q # p, NEW x, x = procs[q] PROVE CmdInv(procs[q])'
      OBVIOUS
    <2>1. CmdInv(x)'
      BY <1>4, OtherCommand
    <2>2. procs'[q] = x
      BY <1>7 DEF Moves
    <2> QED
      BY <2>1, <2>2
  <1> QED
    BY <1>4, <1>5, <1>6, <1>7, <1>9, <1>10, <1>11, <1>12, SharedWrites DEF Both, WindowInv, SharedInv

\* The writer takes the command of a process.
LEMMA ExecuteWindow == ASSUME Both, NEW p \in Procs, Execute(p) PROVE WindowInv'
  <1> SUFFICES ASSUME NEW w, w = procs[p], NEW k, k = w.cmd, NEW h, h = Head(w.todo) PROVE WindowInv'
    OBVIOUS
  <1>1. k # None /\ UNCHANGED <<gens, engine, owner, world>>
    BY DEF Execute
  <1>2. UNCHANGED <<gens, owner, prompts>>
    BY <1>1 DEF world
  <1>3. /\ w.todo # <<>> /\ k.fact \in RecordedBy(h) /\ h \in Steps
        /\ k.fact = "turnRequested" => w.todo = Send /\ w.a = 0
    BY <1>1, SentFacts DEF Both
  <1>4. CASE k.fact = None /\ row' = k.row /\ GoTo(p, AfterSuccess(p)) /\ UNCHANGED <<facts, committed, genOf>>
    <2>1. h \in {"mark", "starting", "materialize", "sent", "trust", "clear", "rebuild"}
      BY <1>3, <1>4, RecordedFacts
    <2>2. k.fact # "turnCommitted" /\ k.fact # "turnRequested"
      BY <1>4, NoneAssumption DEF FactTypes
    <2>3. AfterSuccess(p) = Rest(p)
      BY <2>1, <2>2 DEF AfterSuccess
    <2>4. GoTo(p, Rest(p))
      BY <2>3, <1>4
    <2>5. CASE h \in {"starting", "materialize", "sent", "trust"}
      <3>1. h \in Sending \cup {"acceptTurn"}
        BY <2>5 DEF Sending
      <3> QED
        BY <3>1, <2>2, <2>4, <1>1, <1>2, <1>4, SendingWrites
    <2>6. CASE h \in {"mark", "clear"}
      BY <2>4, <2>6, <1>1, <1>2, <1>4, RestWrites
    <2>7. CASE h = "rebuild"
      BY <2>4, <2>7, <1>1, <1>2, <1>4, RebuildWrites
    <2> QED
      BY <2>1, <2>5, <2>6, <2>7
  <1>5. CASE k.fact = "turnRequested" /\ Unresolved # {}
    <2>1. CmdInv(w) /\ h = "begin"
      BY <1>3, <1>5, SendFacts DEF Both, WindowInv
    <2>2. Unresolved = {}
      BY <2>1, <1>1 DEF CmdInv, Written
    <2> QED
      BY <2>2, <1>5
  <1>6. ASSUME NEW n, n = Cardinality(Requested) + 1, n \in Attempts,
               k.fact = "turnRequested", Unresolved = {},
               row' = k.row, facts' = facts \cup {<<"turnRequested", n>>},
               genOf' = [genOf EXCEPT ![n] = k.row.gen],
               procs' = [procs EXCEPT ![p] = [procs[p] EXCEPT !.a = n, !.todo = Rest(p), !.cmd = None]],
               UNCHANGED committed
        PROVE  WindowInv'
    BY <1>1, <1>6, BeginsWindow
  <1>7. CASE /\ k.fact \in FactTypes \ {"turnRequested"} /\ row' = k.row
             /\ facts' = facts \cup {<<k.fact, w.a>>} /\ GoTo(p, AfterSuccess(p))
             /\ UNCHANGED <<committed, genOf>>
    <2>1. h \in {"prepare", "accept", "acceptTurn"}
      BY <1>3, <1>7, NoneAssumption DEF RecordedBy, FactTypes
    <2>2. AfterSuccess(p) = Rest(p)
      BY <2>1 DEF AfterSuccess
    <2>3. GoTo(p, Rest(p))
      BY <2>2, <1>7
    <2>4. h \in Sending \cup {"acceptTurn"}
      BY <2>1 DEF Sending
    <2> QED
      BY <2>3, <2>4, <1>1, <1>2, <1>7, SendingWrites
  <1>8. CASE /\ k.fact = "turnCommitted" /\ committed[w.a] = None /\ row' = k.row
             /\ committed' = [committed EXCEPT ![w.a] = k.snap]
             /\ GoTo(p, AfterSuccess(p)) /\ UNCHANGED <<facts, genOf>>
    <2>1. h \in Committing \cup {"rebuild"}
      BY <1>3, <1>8, NoneAssumption DEF RecordedBy, Committing
    <2>2. CASE h \in {"fail", "failNative"}
      <3>1. GoTo(p, Rest(p))
        BY <2>2, <1>8 DEF AfterSuccess
      <3> QED
        BY <3>1, <2>2, <1>1, <1>2, <1>8, FailWrites
    <2>3. CASE h = "settle"
      <3>1. GoTo(p, Rest(p))
        BY <2>3, <1>8 DEF AfterSuccess
      <3> QED
        BY <3>1, <2>3, <1>1, <1>2, <1>8, RestWrites
    <2>4. CASE h = "rebuild"
      <3>1. GoTo(p, <<"remove">>)
        BY <2>4, <1>8 DEF AfterSuccess
      <3> QED
        BY <3>1, <2>4, <1>1, <1>2, <1>8, RebuildWrites
    <2>5. CASE h \in {"observe", "publish"}
      <3>1. PICK n : n = AfterCommit(p)
        OBVIOUS
      <3>2. n \in Seq(Steps) /\ n # <<>> /\ Lists(n, "remove") /\ \A s : Lists(n, s) => s \in {"mark", "remove"}
        BY <3>1, AfterCommitLists
      <3>3. Rest(p) = Tail(w.todo) /\ Tail(w.todo) \in Seq(Steps)
        BY <1>1, SentFacts, RestFacts DEF Both, Process
      <3>4. PICK t : t = AfterSuccess(p)
        OBVIOUS
      <3>5. t = n \o Tail(w.todo)
        BY <3>1, <3>3, <3>4, <2>5 DEF AfterSuccess
      <3>6. After(n, Tail(w.todo), t) /\ t # <<>>
        BY <3>2, <3>3, <3>5, Behind
      <3>7. GoTo(p, t)
        BY <3>4, <1>8
      <3> QED
        BY <3>2, <3>6, <3>7, <2>5, <1>1, <1>2, <1>8, CommitWrites
    <2> QED
      BY <2>1, <2>2, <2>3, <2>4, <2>5 DEF Committing
  <1>9. CASE /\ \/ k.fact \in FactTypes \ {"turnRequested"} /\ Has(k.fact, w.a)
                \/ k.fact = "turnCommitted" /\ committed[w.a] # None
             /\ GoTo(p, AfterSuccess(p)) \/ GoTo(p, AfterConflict(p))
             /\ UNCHANGED <<row, facts, committed, genOf>>
    <2>1. UNCHANGED <<durable, owner, world>>
      BY <1>1, <1>9 DEF durable
    <2> QED
      BY <2>1, <1>1, <1>9, SendingKnown, OverKnown
  <1> QED
    BY <1>4, <1>5, <1>6, <1>7, <1>8, <1>9 DEF Execute

-----------------------------------------------------------------------------
(***************************************************************************)
(* The commands of the window.  It has nothing to do, and neither has the  *)
(* event path: the only turn that the event path may start to work for is  *)
(* the one that is open.                                                   *)
(***************************************************************************)
\* What both of them resting says of the turns the coordinator owns.
LEMMA AtRest ==
    ASSUME Both, NEW c \in Clients, IsIdle(c), IsIdle("observer"), NEW b \in Attempts
    PROVE  /\ Owned(b) => b \in Unresolved
           /\ Free(b) => /\ Unresolved = {b} /\ Has("turnAccepted", b) /\ Accepted(b)
                         /\ row.state # "creating" /\ Owned(b) /\ ~ Settled(b)
  <1>1. \A q \in Procs : procs[q].todo = <<>>
    <2>1. \A q \in Procs : q = c \/ q = "observer"
      BY DEF Both, OneWindow, Procs
    <2> QED
      BY <2>1 DEF IsIdle
  <1>2. \A q \in Procs : ~ Removes(q, b)
    BY <1>1, EmptyList DEF Removes
  <1>3. Owned(b) => b \in Unresolved
    <2>1. Owned(b) => b \in Requested
      BY DEF Both, TurnInv, LogInv
    <2>2. Owned(b) => committed[b] = None
      BY <1>2 DEF Both, WindowInv, OwnedInv
    <2> QED
      BY <2>1, <2>2 DEF Unresolved
  <1>4. ASSUME Free(b)
        PROVE  /\ Unresolved = {b} /\ Has("turnAccepted", b) /\ Accepted(b)
               /\ row.state # "creating" /\ Owned(b) /\ ~ Settled(b)
    <2>1. Accepted(b)
      BY <1>4 DEF Both, WindowInv, SharedInv, Shared
    <2>2. Owned(b) /\ ~ Settled(b)
      BY <1>4 DEF Free, Settled
    <2> QED
      BY <2>1, <2>2, <1>3 DEF Accepted
  <1> QED
    BY <1>3, <1>4

\* The window takes up a command.
LEMMA CommandMoves ==
    ASSUME Both, NEW c \in Clients, IsIdle(c), IsIdle("observer"), NEW v, Moves(c, v),
           UNCHANGED <<facts, committed, genOf, row, prompts, owner>>, gens' >= gens,
           ClientInv(v)', CmdInv(v)', \A b \in Attempts : Free(b) => Sharing(v, b)
    PROVE  WindowInv'
  <1>1. procs'["observer"] = procs["observer"]
    BY TurnAssumption DEF Moves, Procs
  <1>2. \A b \in Attempts : Shared(b)' => Free(b)
    BY <1>1 DEF Shared, Works, Free, Owned, IsIdle
  <1>3. \A b \in Attempts : Shared(b)' => Accepted(b) /\ Sharing(v, b)
    BY <1>2, AtRest
  <1>4. \A b : ~ Removes(c, b) /\ (Owned(b)' => Owned(b))
    BY EmptyList DEF Removes, Owned, IsIdle
  <1> QED
    BY <1>3, <1>4, ClientMoves DEF Both

\* A command starts with the list of its steps.
LEMMA Started ==
    ASSUME TurnInv, NEW p \in Procs, NEW a, NEW snap, NEW n, Start(p, a, snap, n)
    PROVE  \E v : Moves(p, v) /\ v.todo = n /\ v.cmd = None /\ v.a = a
  <1> DEFINE v == [Idle EXCEPT !.a = a, !.snap = snap, !.todo = n]
  <1>1. v.todo = n /\ v.cmd = None /\ v.a = a
    BY DEF Idle
  <1>2. procs' = [procs EXCEPT ![p] = v]
    BY DEF Start
  <1>3. Moves(p, v)
    BY <1>2 DEF Moves, TurnInv
  <1> QED
    BY <1>1, <1>3

\* It starts without a write.
LEMMA StartMoves ==
    ASSUME Both, NEW c \in Clients, IsIdle(c), IsIdle("observer"),
           NEW a, NEW snap, NEW n, Start(c, a, snap, n), UNCHANGED <<durable, owner, world>>,
           \A v : v.todo = n /\ v.a = a /\ v.cmd = None =>
              ClientInv(v)' /\ \A b \in Attempts : Free(b) => Sharing(v, b)
    PROVE  WindowInv'
  <1>1. PICK v : Moves(c, v) /\ v.todo = n /\ v.cmd = None /\ v.a = a
    BY Started DEF Both, Procs
  <1>2. UNCHANGED <<facts, committed, genOf, row, prompts, owner>> /\ gens' >= gens
    BY QuietFacts DEF Both
  <1>3. CmdInv(v)'
    BY <1>1 DEF CmdInv
  <1> QED
    BY <1>1, <1>2, <1>3, CommandMoves

\* A window that settles the turn on behalf of the backend.
LEMMA SettleClient ==
    ASSUME NEW v, NEW t, v.todo = t,
           \/ t = <<"settle">> /\ ~ Held(v)'
           \/ t = <<"settle", "remove">> /\ committed'[v.a] = None /\ ~ Has("turnAccepted", v.a)'
    PROVE  ClientInv(v)'
  <1>1. \A x : Lists(t, x) => x \in {"settle", "remove"}
    <2>1. CASE t = <<"settle">>
      BY <2>1, ListsOf
    <2>2. CASE t = <<"settle", "remove">>
      BY <2>2, ListsOf
    <2> QED
      BY <2>1, <2>2
  <1>2. Single(t, "settle")
    <2>1. CASE t = <<"settle">>
      BY <2>1 DEF Single
    <2>2. CASE t = <<"settle", "remove">>
      <3>1. Len(t) = 2 /\ t[1] = "settle" /\ t[2] = "remove"
        BY <2>2
      <3> QED
        BY <3>1 DEF Single
    <2> QED
      BY <2>1, <2>2
  <1>3. Only(t, {"remove", "settle", "clear"})
    BY <1>1, OnlyLists
  <1>4. Ahead(t, "remove", "await") /\ Ahead(t, "remove", "rebuild")
    <2>1. ~ Lists(t, "await") /\ ~ Lists(t, "rebuild")
      BY <1>1
    <2> QED
      BY <2>1, AheadOfNothing
  <1>5. Lists(t, "remove") => t = <<"settle", "remove">>
    <2>1. ~ Lists(<<"settle">>, "remove")
      BY ListsOf
    <2> QED
      BY <2>1
  <1>6. t = <<"settle", "remove">> => Lists(t, "remove")
    BY ListsOf
  <1>7. RemoveInv(v)'
    <2>1. \A s \in {"observe", "fail", "failNative"} : ~ Lists(t, s)
      BY <1>1
    <2>2. Lists(t, "remove") \/ ~ Held(v)'
      BY <1>6
    <2>3. Lists(t, "remove") => committed'[v.a] = None /\ ~ Has("turnAccepted", v.a)'
      BY <1>5
    <2> QED
      BY <2>1, <2>2, <2>3, <1>2, <1>3, <1>4 DEF RemoveInv
  <1>8. \A s \in Sending \cup {"acceptTurn", "drain", "publish"} : ~ Lists(t, s)
    BY <1>1 DEF Sending
  <1> QED
    BY <1>7, <1>8, EndOfSend

\* The commands for a turn that is begun.
LEMMA RedispatchWindow ==
    ASSUME Both, NEW c \in Clients, IsIdle("observer"), NEW a \in Attempts, Redispatch(c, a)
    PROVE  WindowInv'
  <1>1. /\ IsIdle(c) /\ Start(c, a, None, Resend) /\ UNCHANGED <<durable, owner, world>>
        /\ Has("deliveryPrepared", a) /\ ~ Has("turnAccepted", a)
    BY DEF Redispatch
  <1>2. a \in Requested /\ a # 0
    BY <1>1, NumbersFacts DEF Both, TurnInv, LogInv, Has
  <1>3. ASSUME NEW v, v.todo = Resend, v.a = a, v.cmd = None
        PROVE  ClientInv(v)' /\ \A b \in Attempts : Free(b) => Sharing(v, b)
    <2>1. ClientInv(v)'
      BY <1>3, ResendOrder, OrderedClient
    <2>2. ASSUME NEW b \in Attempts, Free(b) PROVE Repeating(v)
      <3>1. Unresolved = {b} /\ Has("turnAccepted", b)
        BY <2>2, <1>1, AtRest
      <3>2. committed[a] # None
        BY <3>1, <1>1, <1>2 DEF Unresolved
      <3>3. Head(v.todo) = "check"
        BY <1>3, ResendOrder
      <3> QED
        BY <3>2, <3>3, <1>1, <1>2, <1>3 DEF Repeating
    <2> QED
      BY <2>1, <2>2 DEF Sharing
  <1> QED
    BY <1>1, <1>3, StartMoves

\* The commands that act on a turn that is there already.
LEMMA TurnCommandWindow ==
    ASSUME Both, NEW c \in Clients, IsIdle("observer"), NEW a \in Attempts,
           \/ Reattach(c, a) \/ CommitSettled(c, a) \/ RequestRecovery(c, a)
           \/ CancelAttempt(c, a) \/ RecoverAttempt(c, a)
           \/ \E force \in BOOLEAN : Abandon(c, a, force)
    PROVE  WindowInv'
  <1>1. IsIdle(c) /\ a \in Unresolved /\ UNCHANGED <<durable, owner, world>>
    BY DEF Reattach, CommitSettled, RequestRecovery, CancelAttempt, RecoverAttempt, Abandon
  <1>2. /\ a # 0 /\ committed[a] = None
        /\ \A b \in Attempts : Free(b) => b = a /\ Has("turnAccepted", a) /\ Owned(a) /\ ~ Settled(a)
    <2>1. \A b \in Attempts : Free(b) => Unresolved = {b} /\ Has("turnAccepted", b) /\ Owned(b) /\ ~ Settled(b)
      BY <1>1, AtRest
    <2>2. \A b \in Attempts : Free(b) => b = a
      BY <2>1, <1>1
    <2> QED
      BY <2>1, <2>2, <1>1, NumbersFacts DEF Unresolved
  <1>3. UNCHANGED <<facts, committed, owner>>
    BY <1>1 DEF durable
  <1>4. ASSUME Start(c, a, None, <<"await">>) \/ Start(c, a, None, <<"skip">>) PROVE WindowInv'
    <2>1. PICK s : s \in {"await", "skip"} /\ Start(c, a, None, <<s>>)
      BY <1>4
    <2>2. ASSUME NEW v, v.todo = <<s>>, v.a = a, v.cmd = None
          PROVE  ClientInv(v)' /\ \A b \in Attempts : Free(b) => Sharing(v, b)
      <3>1. \A x : Lists(v.todo, x) <=> x = s
        BY <2>2, ListsOf
      <3>2. ClientInv(v)'
        BY <3>1, <2>1, BriefClient DEF Brief
      <3>3. Only(v.todo, Late) /\ ~ Lists(v.todo, "mark")
        BY <3>1, <2>1, OnlyLists DEF Late
      <3> QED
        BY <3>2, <3>3, <2>2, <1>2 DEF Sharing, Finishing
    <2> QED
      BY <2>1, <2>2, <1>1, StartMoves
  <1>5. ASSUME Start(c, a, owner[a].settled, <<"observe">>) PROVE WindowInv'
    <2>1. ASSUME NEW v, v.todo = <<"observe">>, v.a = a, v.cmd = None
          PROVE  ClientInv(v)' /\ \A b \in Attempts : Free(b) => Sharing(v, b)
      <3>1. \A x : Lists(v.todo, x) <=> x = "observe"
        BY <2>1, ListsOf
      <3>2. ClientInv(v)'
        BY <2>1, ObserveClient
      <3>3. Only(v.todo, Late) /\ ~ Lists(v.todo, "mark")
        BY <3>1, OnlyLists DEF Late
      <3> QED
        BY <3>2, <3>3, <2>1, <1>2 DEF Sharing, Finishing
    <2> QED
      BY <2>1, <1>1, <1>5, StartMoves
  <1>6. ASSUME ~ Settled(a), ~ IsActive(a), Start(c, a, None, <<"mark">>) PROVE WindowInv'
    <2>1. \A b \in Attempts : ~ Free(b)
      BY <1>2, <1>6 DEF IsActive
    <2>2. ASSUME NEW v, v.todo = <<"mark">>, v.a = a, v.cmd = None PROVE ClientInv(v)'
      <3>1. \A x : Lists(v.todo, x) <=> x = "mark"
        BY <2>2, ListsOf
      <3> QED
        BY <3>1, BriefClient DEF Brief
    <2> QED
      BY <2>1, <2>2, <1>1, <1>6, StartMoves
  <1>7. ASSUME ~ Owned(a), Start(c, a, "user-cancelled", <<"settle">>) PROVE WindowInv'
    <2>1. \A b \in Attempts : ~ Free(b)
      BY <1>2, <1>7
    <2>2. ASSUME NEW v, v.todo = <<"settle">>, v.a = a, v.cmd = None PROVE ClientInv(v)'
      <3>1. ~ Held(v)'
        BY <2>2, <1>3, <1>7 DEF Held, Owned
      <3> QED
        BY <3>1, <2>2, SettleClient
    <2> QED
      BY <2>1, <2>2, <1>1, <1>7, StartMoves
  <1>8. ASSUME ~ Has("turnAccepted", a), Start(c, a, "probe-cancelled", <<"settle", "remove">>)
        PROVE  WindowInv'
    <2>1. \A b \in Attempts : ~ Free(b)
      BY <1>2, <1>8
    <2>2. ASSUME NEW v, v.todo = <<"settle", "remove">>, v.a = a, v.cmd = None PROVE ClientInv(v)'
      <3>1. committed'[v.a] = None /\ ~ Has("turnAccepted", v.a)'
        BY <2>2, <1>2, <1>3, <1>8 DEF Has
      <3> QED
        BY <3>1, <2>2, SettleClient
    <2> QED
      BY <2>1, <2>2, <1>1, <1>8, StartMoves
  <1> QED
    BY <1>4, <1>5, <1>6, <1>7, <1>8
       DEF Reattach, CommitSettled, RequestRecovery, CancelAttempt, RecoverAttempt, Abandon

\* The window asks for a new generation.
LEMMA RequestRebuildWindow ==
    ASSUME Both, NEW c \in Clients, IsIdle("observer"), RequestRebuild(c) PROVE WindowInv'
  <1>1. IsIdle(c) /\ UNCHANGED <<durable, owner, world>>
    BY DEF RequestRebuild
  <1>2. PICK a, snap, n :
           /\ Start(c, a, snap, n)
           /\ \/ Unresolved = {} /\ n = <<"rebuild">>
              \/ a \in Unresolved /\ Settled(a) /\ n = <<"observe", "rebuild">>
              \/ a \in Unresolved /\ ~ Owned(a) /\ n = <<"rebuild">>
    BY DEF RequestRebuild
  <1>3. \A b \in Attempts : ~ Free(b)
    <2>1. \A b \in Attempts : Free(b) => Unresolved = {b} /\ Owned(b) /\ ~ Settled(b)
      BY <1>1, AtRest
    <2> QED
      BY <2>1, <1>2
  <1>4. ASSUME NEW v, v.todo = n, v.a = a, v.cmd = None PROVE ClientInv(v)'
    <2>1. CASE n = <<"rebuild">>
      <3>1. \A x : Lists(v.todo, x) <=> x = "rebuild"
        BY <2>1, <1>4, ListsOf
      <3> QED
        BY <3>1, BriefClient DEF Brief
    <2>2. CASE n = <<"observe", "rebuild">>
      BY <2>2, <1>4, ObserveClient
    <2> QED
      BY <2>1, <2>2, <1>2
  <1> QED
    BY <1>1, <1>2, <1>3, <1>4, StartMoves

\* A turn is begun, up to the writer.
LEMMA BeginTurnWindow ==
    ASSUME Both, NEW c \in Clients, IsIdle("observer"), BeginTurn(c) PROVE WindowInv'
  <1>1. IsIdle(c) /\ UNCHANGED <<facts, committed, genOf, row, prompts, owner>>
    BY DEF BeginTurn, world
  <1>2. gens \in Nat
    BY DEF Both, TurnInv, LogInv
  <1>3. Unresolved' = Unresolved
    BY <1>1 DEF Unresolved, Requested, Has
  <1>4. CASE row # None /\ row.state = "creating" /\ Start(c, 0, None, <<"mark">>) /\ UNCHANGED gens
    <2>1. \A b \in Attempts : ~ Free(b)
      BY <1>1, <1>4, AtRest
    <2>2. PICK v : Moves(c, v) /\ v.todo = <<"mark">> /\ v.cmd = None
      BY <1>4, Started DEF Both, Procs
    <2>3. \A x : Lists(v.todo, x) <=> x = "mark"
      BY <2>2, ListsOf
    <2>4. ClientInv(v)'
      BY <2>3, BriefClient DEF Brief
    <2>5. CmdInv(v)'
      BY <2>2 DEF CmdInv
    <2>6. gens' >= gens
      BY <1>2, <1>4
    <2> QED
      BY <2>1, <2>2, <2>4, <2>5, <2>6, <1>1, CommandMoves
  <1>5. ASSUME Unresolved = {}, NEW r \in BindingRow, r.gen <= gens', gens' >= gens,
               Earned(r)', r.pending = None, Follows(r, 0, "turnRequested")',
               row # None => Same(r),
               procs' = [procs EXCEPT ![c] = [Idle EXCEPT !.todo = Send, !.cmd = AppendFact("turnRequested", r)]]
        PROVE  WindowInv'
    <2>1. PICK v : Moves(c, v) /\ v.todo = Send /\ v.a = 0 /\ v.cmd = AppendFact("turnRequested", r)
      <3> DEFINE v == [Idle EXCEPT !.todo = Send, !.cmd = AppendFact("turnRequested", r)]
      <3>1. v.todo = Send /\ v.a = 0 /\ v.cmd = AppendFact("turnRequested", r)
        BY DEF Idle
      <3>2. procs' = [procs EXCEPT ![c] = v]
        BY <1>5
      <3>3. Moves(c, v)
        BY <3>2 DEF Moves, Both, TurnInv, Procs
      <3> QED
        BY <3>1, <3>3
    <2>2. /\ v.cmd # None /\ v.cmd.fact = "turnRequested" /\ v.cmd.row = r
      BY <2>1, CommandTypes, NoneAssumption DEF FactTypes
    <2>3. \A b \in Attempts : ~ Free(b)
      BY <1>1, <1>5, AtRest
    <2>4. ClientInv(v)'
      <3>1. IsBeginning(v)
        BY <2>2 DEF IsBeginning
      <3> QED
        BY <3>1, <2>1, SendOrder, OrderedClient
    <2>5. CmdInv(v)'
      <3>1. OpenFor(r)'
        BY <1>5 DEF OpenFor
      <3>2. Written("begin", 0, v.cmd)'
        <4>1. row' # None => Same(r)'
          BY <1>1, <1>5 DEF Same
        <4> QED
          BY <4>1, <2>2, <1>3, <1>5 DEF Written, Committing
      <3>3. Head(v.todo) = "begin"
        BY <2>1, SendOrder
      <3> QED
        BY <3>1, <3>2, <3>3, <2>1, <2>2, <1>5 DEF CmdInv
    <2> QED
      BY <2>1, <2>3, <2>4, <2>5, <1>1, <1>5, CommandMoves
  <1>6. CASE /\ Unresolved = {} /\ row # None /\ UNCHANGED gens
             /\ procs' = [procs EXCEPT ![c] = [Idle EXCEPT !.todo = Send,
                             !.cmd = AppendFact("turnRequested", [row EXCEPT !.state = ReadyOrPrepared(row.native)])]]
    <2>1. PICK r : r = [row EXCEPT !.state = ReadyOrPrepared(row.native)]
      OBVIOUS
    <2>2. r \in BindingRow /\ Kept(r) /\ (r.trusted => row.trusted)
      <3>1. row \in BindingRow
        BY <1>6 DEF Both, TurnInv, LogInv
      <3> QED
        BY <2>1, <3>1 DEF BindingRow, ReadyOrPrepared, Kept
    <2>3. r.gen <= gens /\ Earned(r) /\ OpenFor(r) /\ Follows(r, 0, "turnRequested") /\ Same(r)
      BY <2>2, <1>6, KeptRow DEF Both
    <2>4. r.pending = None
      BY <2>3, <1>6 DEF OpenFor
    <2>5. Earned(r)' /\ Follows(r, 0, "turnRequested")'
      BY <2>3, <1>1 DEF Earned, Follows, Has
    <2>6. procs' = [procs EXCEPT ![c] = [Idle EXCEPT !.todo = Send, !.cmd = AppendFact("turnRequested", r)]]
      BY <2>1, <1>6
    <2>7. Unresolved = {} /\ r.gen <= gens' /\ gens' >= gens
      BY <2>3, <1>2, <1>6
    <2> QED
      BY <2>2, <2>3, <2>4, <2>5, <2>6, <2>7, <1>5
  <1>7. CASE /\ Unresolved = {} /\ row = None /\ gens + 1 \in Generations /\ gens' = gens + 1
             /\ procs' = [procs EXCEPT ![c] = [Idle EXCEPT !.todo = Send,
                             !.cmd = AppendFact("turnRequested", FreshRow(gens + 1))]]
    <2>1. PICK r : r = FreshRow(gens + 1)
      OBVIOUS
    <2>2. r \in BindingRow
      BY <2>1, <1>7, FreshRowType
    <2>3. r.gen = gens + 1 /\ r.trusted = FALSE /\ r.pending = None /\ r.accepted = 0 /\ r.committed = 0
      BY <2>1 DEF FreshRow
    <2>4. Earned(r)' /\ Follows(r, 0, "turnRequested")'
      BY <2>3 DEF Earned, Follows
    <2>5. procs' = [procs EXCEPT ![c] = [Idle EXCEPT !.todo = Send, !.cmd = AppendFact("turnRequested", r)]]
      BY <2>1, <1>7
    <2>6. Unresolved = {} /\ row = None /\ r.gen <= gens' /\ gens' >= gens
      BY <2>3, <1>2, <1>7
    <2> QED
      BY <2>2, <2>3, <2>4, <2>5, <2>6, <1>5
  <1> QED
    BY <1>4, <1>6, <1>7 DEF BeginTurn

-----------------------------------------------------------------------------
(***************************************************************************)
(* The runtime, the application, and all steps together.                   *)
(***************************************************************************)
\* Nothing that the invariant speaks of changes, or an event waits longer.
LEMMA RestingWindow ==
    ASSUME Both, UNCHANGED <<facts, committed, genOf, row, prompts, gens, procs>>,
           \A b \in Attempts : (Owned(b)' => Owned(b)) /\ (Free(b)' => Free(b))
    PROVE  WindowInv'
  <1> SUFFICES ASSUME NEW v, v = procs["observer"] PROVE WindowInv'
    OBVIOUS
  <1>1. Moves("observer", v) /\ "observer" \in Procs
    BY DEF Moves, Procs
  <1>2. gens' >= gens
    BY DEF Both, TurnInv, LogInv
  <1>3. Publishing(v)'
    <2>1. Publishing(v)
      BY DEF Both, WindowInv, ObserverInv
    <2> QED
      BY <2>1 DEF Publishing
  <1>4. CmdInv(v)'
    <2>1. v.cmd \in Cmd \cup {None} /\ CmdInv(v)
      BY <1>1 DEF Both, TurnInv, Process, WindowInv
    <2> QED
      BY <2>1, <1>2, LogStays DEF Both, WindowInv
  <1>5. \A b \in Attempts : Shared(b)' => Shared(b)
    BY DEF Shared, Works
  <1>6. \A b : Removes("observer", b) => v.a = b /\ Lists(v.todo, "remove")
    BY DEF Removes
  <1> QED
    BY <1>1, <1>2, <1>3, <1>4, <1>5, <1>6, ObserverMoves DEF Both

\* The runtime ends a turn.
LEMMA TerminalWindow ==
    ASSUME Both, NEW a \in Attempts, NEW s \in Reported, Terminal(a, s) PROVE WindowInv'
  <1>1. UNCHANGED <<facts, committed, genOf, row, prompts, gens>>
    BY DEF Terminal, durable
  <1>2. owner \in [Attempts -> Owner \cup {None}] /\ gens' >= gens
    BY <1>1 DEF Both, TurnInv, LogInv
  <1>3. CASE UNCHANGED memory
    <2>1. UNCHANGED <<owner, procs>>
      BY <1>3 DEF memory
    <2>2. \A b \in Attempts : (Owned(b)' => Owned(b)) /\ (Free(b)' => Free(b))
      BY <2>1 DEF Owned, Free
    <2> QED
      BY <2>1, <2>2, <1>1, RestingWindow
  <1>4. CASE /\ Owned(a) /\ owner[a].barrier
             /\ owner' = [owner EXCEPT ![a].queued = s] /\ UNCHANGED procs
    <2>1. owner[a] \in Owner /\ owner'[a] = [owner[a] EXCEPT !.queued = s]
      BY <1>2, <1>4 DEF Owned
    <2>2. owner'[a].barrier /\ \A b \in Attempts : b # a => owner'[b] = owner[b]
      BY <2>1, <1>2, <1>4 DEF Owner
    <2>3. \A b \in Attempts : (Owned(b)' => Owned(b)) /\ (Free(b)' => Free(b))
      BY <2>2, <1>4 DEF Owned, Free
    <2> QED
      BY <2>3, <1>1, <1>4, RestingWindow
  <1>5. CASE /\ Owned(a) /\ ~ owner[a].barrier /\ IsIdle("observer") /\ owner[a].settled = None
             /\ owner' = [owner EXCEPT ![a].settled = s]
             /\ Start("observer", a, s, <<"publish">>)
    <2>1. PICK v : Moves("observer", v) /\ v.todo = <<"publish">> /\ v.cmd = None /\ v.a = a
      BY <1>5, Started DEF Both, Procs
    <2>2. \A x : Lists(v.todo, x) <=> x = "publish"
      BY <2>1, ListsOf
    <2>3. Publishing(v)'
      <3>1. Only(v.todo, {"publish"})
        BY <2>2, OnlyLists
      <3>2. Once(v.todo)
        BY <2>1 DEF Once
      <3> QED
        BY <3>1, <3>2, <2>1 DEF Publishing
    <2>4. CmdInv(v)'
      BY <2>1 DEF CmdInv
    <2>5. /\ owner'[a].settled # None
          /\ \A b \in Attempts : b # a => owner'[b] = owner[b]
      <3>1. owner[a] \in Owner /\ owner'[a] = [owner[a] EXCEPT !.settled = s]
        BY <1>2, <1>5 DEF Owned
      <3>2. owner'[a].settled = s
        BY <3>1 DEF Owner
      <3>3. s # None
        BY NoneAssumption DEF Snapshots
      <3> QED
        BY <3>2, <3>3, <1>2, <1>5
    <2>6. \A b \in Attempts : Owned(b)' => Owned(b)
      BY <2>5, <1>5 DEF Owned
    <2>7. Shared(a)
      BY <1>5 DEF Shared, Free
    <2>8. ASSUME NEW b \in Attempts, Shared(b)' PROVE Shared(b)
      <3>1. CASE b = a
        BY <3>1, <2>7
      <3>2. CASE b # a
        <4>1. ~ Works(b)'
          BY <3>2, <2>1 DEF Works, Moves
        <4> QED
          BY <4>1, <3>2, <2>5, <2>8 DEF Shared, Free, Owned
      <3> QED
        BY <3>1, <3>2
    <2>9. \A b : ~ Removes("observer", b)
      BY <1>5, EmptyList DEF Removes, IsIdle
    <2> QED
      BY <2>1, <2>3, <2>4, <2>6, <2>8, <2>9, <1>1, <1>2, ObserverMoves DEF Both
  <1> QED
    BY <1>3, <1>4, <1>5 DEF Terminal

\* A process that has nothing to do meets every condition.
LEMMA IdleWindow ==
    /\ Idle.todo = <<>> /\ Idle.cmd = None /\ \A s : ~ Lists(Idle.todo, s)
    /\ ClientInv(Idle) /\ ClientInv(Idle)' /\ CmdInv(Idle) /\ CmdInv(Idle)'
    /\ "observer" \in Procs /\ Clients \subseteq Procs
  <1>1. Idle.todo = <<>> /\ Idle.cmd = None
    BY DEF Idle
  <1>2. \A s : ~ Lists(Idle.todo, s)
    BY <1>1, EmptyList
  <1>3. \A x, y : Ahead(Idle.todo, x, y)
    BY <1>2, AheadOfNothing
  <1>4. ClientInv(Idle) /\ ClientInv(Idle)'
    BY <1>2, <1>3 DEF ClientInv, SendInv, DrainInv, RemoveInv
  <1>5. CmdInv(Idle) /\ CmdInv(Idle)'
    BY <1>1 DEF CmdInv
  <1> QED
    BY <1>1, <1>2, <1>4, <1>5 DEF Procs

\* The application dies.
LEMMA CrashWindow == ASSUME Both, Crash PROVE WindowInv'
  <1>1. UNCHANGED <<facts, committed, genOf, row, prompts, gens>>
    BY DEF Crash, durable
  <1>2. gens' >= gens
    BY <1>1 DEF Both, TurnInv, LogInv
  <1>3. RowInv' /\ NumInv' /\ SentOnce'
    BY <1>1, <1>2, LogStays DEF Both, WindowInv
  <1>4. \A b \in Attempts : ~ Owned(b)'
    BY DEF Crash, Owned
  <1>5. \A p \in Procs : procs'[p] = Idle
    BY DEF Crash
  <1>6. SharedInv'
    BY <1>4, <1>5, IdleWindow DEF SharedInv, Shared, Free, Works
  <1>7. OwnedInv'
    BY <1>4 DEF OwnedInv
  <1>8. ObserverInv'
    BY <1>5, IdleWindow DEF ObserverInv, Publishing
  <1>9. (\A c \in Clients : ClientInv(procs[c])') /\ (\A p \in Procs : CmdInv(procs[p])')
    BY <1>5, IdleWindow
  <1> QED
    BY <1>3, <1>6, <1>7, <1>8, <1>9 DEF WindowInv

\* The beginning.
LEMMA WindowInvInit == Init => WindowInv
  <1> SUFFICES ASSUME Init PROVE WindowInv
    OBVIOUS
  <1>1. Requested = {} /\ Unresolved = {}
    BY DEF Init, Requested, Unresolved, Has
  <1>2. RowInv
    BY DEF Init, RowInv
  <1>3. NumInv
    <2>1. Cardinality(Requested) = 0 /\ 1 .. 0 = {}
      BY <1>1, FS_EmptySet
    <2> QED
      BY <2>1, <1>1 DEF NumInv, Init
  <1>4. SentOnce
    BY DEF Init, SentOnce
  <1>5. \A b \in Attempts : ~ Owned(b)
    BY DEF Init, Owned
  <1>6. \A p \in Procs : procs[p] = Idle
    BY DEF Init
  <1>7. SharedInv /\ OwnedInv /\ ObserverInv
    BY <1>5, <1>6, IdleWindow DEF SharedInv, Shared, Free, Works, OwnedInv, ObserverInv, Publishing
  <1>8. (\A c \in Clients : ClientInv(procs[c])) /\ (\A p \in Procs : CmdInv(procs[p]))
    BY <1>6, IdleWindow
  <1> QED
    BY <1>2, <1>3, <1>4, <1>7, <1>8 DEF WindowInv

\* A step of a process.
LEMMA StepWindow == ASSUME Both, NEW p \in Procs, Step(p) PROVE WindowInv'
  BY PrepareWindow, CheckPendingWindow, RegisterWindow, MarkStartingWindow, MaterializeWindow,
     MarkSentWindow, ImportWindow, SendPromptWindow, ResponseWindow, AwaitAckWindow,
     AcceptDeliveryWindow, TrustNativeWindow, AcceptTurnWindow, DrainWindow, AwaitTerminalWindow,
     ObserveWindow, SettleWindow, FailTurnWindow, MarkRecoveryWindow, RemoveAttemptWindow,
     RebuildWindow, SkipWindow, ClearRecoveryWindow, ExecuteWindow DEF Step

\* A command of the window, which waits for the event path.
LEMMA CommandWindow ==
    ASSUME Both, NEW c \in Clients, Patient => IsIdle("observer"), Command(c) PROVE WindowInv'
  <1>1. IsIdle("observer")
    BY DEF Both, OneWindow
  <1>2. c \in Procs
    BY DEF Procs
  <1>3. CASE BeginTurn(c) \/ RequestRebuild(c) \/ Reload(c)
    BY <1>1, <1>2, <1>3, BeginTurnWindow, RequestRebuildWindow, ReloadWindow
  <1>4. ASSUME NEW a \in Attempts,
               \/ Redispatch(c, a) \/ Reattach(c, a) \/ CommitSettled(c, a) \/ RequestRecovery(c, a)
               \/ CancelAttempt(c, a) \/ RecoverAttempt(c, a)
               \/ \E force \in BOOLEAN : Abandon(c, a, force)
        PROVE  WindowInv'
    BY <1>1, <1>4, RedispatchWindow, TurnCommandWindow
  <1> QED
    BY <1>3, <1>4 DEF Command

\* Every step of the system keeps WindowInv.
LEMMA WindowInvNext ==
    ASSUME TurnInv, TurnInv', OneWindow, WindowInv, [Next]_vars PROVE WindowInv'
  <1>1. Both
    BY DEF Both
  <1>2. ASSUME NEW p \in Procs, Step(p) PROVE WindowInv'
    BY <1>1, <1>2, StepWindow
  <1>3. ASSUME NEW c \in Clients, Patient => IsIdle("observer"), Command(c) PROVE WindowInv'
    BY <1>1, <1>3, CommandWindow
  <1>4. ASSUME NEW a \in Attempts, NEW s \in Reported, Terminal(a, s) PROVE WindowInv'
    BY <1>1, <1>4, TerminalWindow
  <1>5. CASE Crash
    BY <1>1, <1>5, CrashWindow
  <1>6. CASE UNCHANGED vars
    <2>1. UNCHANGED <<facts, committed, genOf, row, prompts, gens, procs, owner>>
      BY <1>6 DEF vars, durable, memory, world
    <2>2. \A b \in Attempts : (Owned(b)' => Owned(b)) /\ (Free(b)' => Free(b))
      BY <2>1 DEF Owned, Free
    <2> QED
      BY <1>1, <2>1, <2>2, RestingWindow
  <1> QED
    BY <1>2, <1>3, <1>4, <1>5, <1>6 DEF Next

\* WindowInv holds in every state that one patient window reaches.
LEMMA WindowAlwaysFits == ASSUME OneWindow PROVE Spec => []WindowInv
  <1>1. TurnInv /\ WindowInv /\ TurnInv' /\ [Next]_vars => WindowInv'
    BY WindowInvNext
  <1> QED
    BY <1>1, WindowInvInit, TurnAlwaysFits, PTL DEF Spec

-----------------------------------------------------------------------------
(***************************************************************************)
(* What the invariant shows of the reachable states and of the steps.      *)
(***************************************************************************)
\* However often the window dispatches a turn again, and whatever crashes, the
\* prompt of the turn reaches the runtime once.
THEOREM PromptSentOnce == ASSUME OneWindow PROVE Spec => []SentOnce
  <1>1. WindowInv => SentOnce
    BY DEF WindowInv
  <1> QED
    BY <1>1, WindowAlwaysFits, PTL

\* The pending delivery of the binding is that of the open turn and its
\* generation: it never stands in the way of the next turn.
THEOREM PendingStaysOpen == ASSUME OneWindow PROVE Spec => []PendingIsOpen
  <1>1. WindowInv => PendingIsOpen
    BY DEF WindowInv, RowInv, OpenFor, PendingIsOpen
  <1> QED
    BY <1>1, WindowAlwaysFits, PTL

\* The native history is trusted only when its generation took a package.
THEOREM TrustStaysEarned == ASSUME OneWindow PROVE Spec => []TrustIsEarned
  <1>1. WindowInv => TrustIsEarned
    BY DEF WindowInv, RowInv, Earned, TrustIsEarned
  <1> QED
    BY <1>1, WindowAlwaysFits, PTL

\* Only the writer changes the row.
LEMMA OnlyExecuteWrites ==
    ASSUME [Next]_vars, \A p \in Procs : ~ Execute(p) PROVE UNCHANGED row
  <1>1. ASSUME NEW p \in Procs, Step(p) PROVE UNCHANGED row
    BY <1>1 DEF Step, Prepare, CheckPending, Register, MarkStarting, Materialize, MarkSent, Import,
       SendPrompt, Response, AwaitAck, AcceptDelivery, TrustNative, AcceptTurn, Drain, AwaitTerminal,
       Observe, Settle, FailTurn, MarkRecovery, RemoveAttempt, Rebuild, Skip, ClearRecovery, durable
  <1>2. ASSUME NEW c \in Clients, Command(c) PROVE UNCHANGED row
    BY <1>2 DEF Command, BeginTurn, RequestRebuild, Reload, Redispatch, Reattach, CommitSettled,
       RequestRecovery, CancelAttempt, RecoverAttempt, Abandon, durable
  <1>3. ASSUME NEW a \in Attempts, NEW s \in Reported, Terminal(a, s) PROVE UNCHANGED row
    BY <1>3 DEF Terminal, durable
  <1>4. Crash \/ UNCHANGED vars => UNCHANGED row
    BY DEF Crash, vars, durable
  <1> QED
    BY <1>1, <1>2, <1>3, <1>4 DEF Next

\* Only the prompt of a send reaches the runtime.
LEMMA OnlySendPrompts ==
    ASSUME [Next]_vars, \A p \in Procs : ~ SendPrompt(p) PROVE UNCHANGED prompts
  <1>1. ASSUME NEW p \in Procs, Step(p) PROVE UNCHANGED prompts
    BY <1>1 DEF Step, Prepare, CheckPending, Register, MarkStarting, Materialize, MarkSent, Import,
       Response, AwaitAck, AcceptDelivery, TrustNative, AcceptTurn, Drain, AwaitTerminal,
       Observe, Settle, FailTurn, MarkRecovery, RemoveAttempt, Rebuild, Skip, ClearRecovery, Execute, world
  <1>2. ASSUME NEW c \in Clients, Command(c) PROVE UNCHANGED prompts
    BY <1>2 DEF Command, BeginTurn, RequestRebuild, Reload, Redispatch, Reattach, CommitSettled,
       RequestRecovery, CancelAttempt, RecoverAttempt, Abandon, world
  <1>3. ASSUME NEW a \in Attempts, NEW s \in Reported, Terminal(a, s) PROVE UNCHANGED prompts
    BY <1>3 DEF Terminal
  <1>4. Crash \/ UNCHANGED vars => UNCHANGED prompts
    BY DEF Crash, vars, world
  <1> QED
    BY <1>1, <1>2, <1>3, <1>4 DEF Next

\* What the writer makes of the row that is there.
LEMMA RowAdvances ==
    ASSUME TurnInv, WindowInv, row # None, [Next]_vars
    PROVE  /\ row'.gen >= row.gen
           /\ row'.gen = row.gen => row'.accepted >= row.accepted /\ row'.committed >= row.committed
  <1>1. row.gen \in Nat /\ row.accepted \in Nat /\ row.committed \in Nat
    <2>1. row \in BindingRow
      BY DEF TurnInv, LogInv
    <2>2. row.gen \in Generations /\ row.accepted \in Attempts \cup {0} /\ row.committed \in Attempts \cup {0}
      BY <2>1 DEF BindingRow
    <2>3. Attempts \cup {0} \subseteq Nat /\ Generations \subseteq Nat
      BY NumbersFacts
    <2> QED
      BY <2>2, <2>3
  <1>2. CASE UNCHANGED row
    BY <1>1, <1>2
  <1>3. ASSUME NEW p \in Procs, Execute(p), row' # row
        PROVE  /\ row'.gen >= row.gen
               /\ row'.gen = row.gen => row'.accepted >= row.accepted /\ row'.committed >= row.committed
    <2> SUFFICES ASSUME NEW w, w = procs[p], NEW k, k = w.cmd, NEW h, h = Head(w.todo)
                 PROVE  /\ row'.gen >= row.gen
                        /\ row'.gen = row.gen => row'.accepted >= row.accepted /\ row'.committed >= row.committed
      OBVIOUS
    <2>1. /\ k # None /\ row' = k.row
          /\ \/ k.fact \in FactTypes \cup {None}
             \/ k.fact = "turnCommitted" /\ committed[w.a] = None
      BY <1>3 DEF Execute, FactTypes
    <2>2. k.fact \in RecordedBy(h) /\ h \in Steps /\ k.row.gen \in Nat
      <3>1. k.fact \in RecordedBy(h) /\ h \in Steps /\ k \in Cmd
        BY <2>1, SentFacts
      <3>2. k.row.gen \in Generations
        BY <3>1 DEF Cmd, BindingRow
      <3> QED
        BY <3>1, <3>2, NumbersFacts
    <2>3. Written(h, w.a, k)
      BY <2>1 DEF WindowInv, CmdInv
    <2>4. \/ h = "rebuild" /\ k.row.gen > row.gen
          \/ Same(k.row)
          \/ Later(k.row)
      <3>1. CASE h = "rebuild"
        BY <3>1, <2>3 DEF Written
      <3>2. CASE h \in Committing
        <4>1. k.fact = "turnCommitted"
          BY <3>2, <2>2 DEF RecordedBy, Committing
        <4>2. committed[w.a] = None
          BY <4>1, <2>1, NoneAssumption DEF FactTypes
        <4> QED
          BY <4>2, <3>2, <2>3 DEF Written
      <3>3. CASE h \in {"begin", "prepare", "sent", "acceptTurn", "accept", "starting", "materialize",
                        "trust", "mark", "clear"}
        BY <3>3, <2>3 DEF Written
      <3> QED
        BY <3>1, <3>2, <3>3, <2>2 DEF RecordedBy, Committing
    <2> QED
      BY <2>1, <2>2, <2>4, <1>1 DEF Same, Later
  <1> QED
    BY <1>2, <1>3, OnlyExecuteWrites

\* Within a generation the cursors of the binding only go forward.
THEOREM CursorsOnlyAdvance == ASSUME OneWindow PROVE Spec => CursorsAdvance
  <1>1. TurnInv /\ WindowInv /\ [Next]_vars =>
           [row # None /\ row'.gen = row.gen =>
               row'.accepted >= row.accepted /\ row'.committed >= row.committed]_vars
    BY RowAdvances
  <1> QED
    BY <1>1, TurnAlwaysFits, WindowAlwaysFits, PTL DEF Spec, CursorsAdvance

\* The row of an older generation does not come back.
THEOREM GenerationsOnlyAdvance == ASSUME OneWindow PROVE Spec => GenerationsAdvance
  <1>1. TurnInv /\ WindowInv /\ [Next]_vars => [row # None => row'.gen >= row.gen]_vars
    BY RowAdvances
  <1> QED
    BY <1>1, TurnAlwaysFits, WindowAlwaysFits, PTL DEF Spec, GenerationsAdvance

\* Nothing is sent for a turn that is over.
THEOREM SentOnlyWhileOpen == ASSUME OneWindow PROVE Spec => SentWhileOpen
  <1>1. TurnInv /\ WindowInv /\ [Next]_vars =>
           [\A a \in Attempts : prompts'[a] > prompts[a] => committed[a] = None]_vars
    <2> SUFFICES ASSUME TurnInv, WindowInv, [Next]_vars, NEW a \in Attempts, prompts'[a] > prompts[a]
                 PROVE  committed[a] = None
      OBVIOUS
    <2>1. prompts \in [Attempts -> Nat]
      BY DEF TurnInv, LogInv
    <2>2. PICK p \in Procs : SendPrompt(p)
      BY <2>1, OnlySendPrompts
    <2>3. IsAt(p, "prompt")
      BY <2>2 DEF SendPrompt
    <2>4. a = procs[p].a
      BY <2>1, <2>2 DEF SendPrompt
    <2>5. p \in Clients
      BY <2>3, ActsForWindow
    <2>6. Past(procs[p])
      BY <2>3, <2>5, PastAt
    <2> QED
      BY <2>4, <2>6 DEF Past, Unresolved
  <1> QED
    BY <1>1, TurnAlwaysFits, WindowAlwaysFits, PTL DEF Spec, SentWhileOpen

-----------------------------------------------------------------------------
(***************************************************************************)
(* One window that does not wait.  Its commands and the event path overlap *)
(* in any way, and rows computed from an old read come back; the cursors   *)
(* stay right all the same.  A row is written as a whole, so what a row    *)
(* says of its own delivery is true of every row that is written or under  *)
(* way; and a turn is prepared once, so all rows with its delivery come    *)
(* from the same one and have its generation.                              *)
(***************************************************************************)
OneClient == \A c, d \in Clients : c = d

\* The row, and the rows that are computed and not yet written.
InFlight == {row} \cup {procs[q].cmd.row : q \in {x \in Procs : procs[x].cmd # None}}

For(r, a) == r # None /\ r.pending # None /\ r.pending.attempt = a

DeliveryFits(r) ==
    r.pending # None =>
        /\ r.pending.attempt \in Requested
        /\ r.committed <= r.pending.attempt
        /\ r.pending.phase = "accepted" => r.accepted = r.pending.attempt

\* Wherever the delivery of the turn is, it is in its generation.
InGeneration(a) == \A r \in InFlight : For(r, a) => r.gen = genOf[a]
NotPrepared(a)  == \A r \in InFlight : ~ For(r, a)

\* The steps that this turns on: what lists one of them is the rest of a send.
Watched == {"prepare", "check", "import", "accept"}
Sober(todo) == \A s \in Watched : ~ Lists(todo, s)

\* The turn that is to be prepared is the newest, and has no delivery yet;
\* past the check of a dispatch the delivery is in the generation of the turn.
PathInv(w) ==
    /\ Sober(w.todo) \/ Ordered(w.todo)
    /\ Lists(w.todo, "prepare") /\ ~ IsBeginning(w) =>
          /\ \A b \in Requested : b <= w.a
          /\ NotPrepared(w.a) \/ (Head(w.todo) = "prepare" /\ w.cmd # None)
    /\ Lists(w.todo, "accept") \/ Lists(w.todo, "import") =>
          Lists(w.todo, "check") \/ InGeneration(w.a)

RowsInv ==
    /\ row # None => Follows(row, 0, None)
    /\ \A p \in Procs : procs[p].cmd # None =>
          Follows(procs[p].cmd.row, procs[p].a, procs[p].cmd.fact)
    /\ \A r \in InFlight : r # None => DeliveryFits(r)
    /\ \A a : \A r, s \in InFlight : For(r, a) /\ For(s, a) => r.gen = s.gen

CursorInv ==
    /\ RowsInv
    /\ Requested = 1 .. Cardinality(Requested)
    /\ \A a \in Attempts \ Requested : committed[a] = None
    /\ \A c \in Clients : PathInv(procs[c])
    /\ \A s : Lists(procs["observer"].todo, s) => s \in {"publish", "mark", "remove"}

\* What every step starts from.
Alone == TurnInv /\ TurnInv' /\ OneClient /\ CursorInv

\* What is under way after a step of a process was so before, or is computed
\* by it.
LEMMA FlightMoves ==
    ASSUME TurnInv, NEW p \in Procs, NEW v, Moves(p, v),
           row' = row \/ (procs[p].cmd # None /\ row' = procs[p].cmd.row)
    PROVE  \A r \in InFlight' : r \in InFlight \/ (v.cmd # None /\ r = v.cmd.row)
  <1>1. row' \in InFlight
    BY DEF InFlight
  <1>2. ASSUME NEW q \in Procs, procs'[q].cmd # None
        PROVE  procs'[q].cmd.row \in InFlight \/ (v.cmd # None /\ procs'[q].cmd.row = v.cmd.row)
    <2>1. CASE q = p
      BY <2>1, <1>2 DEF Moves
    <2>2. CASE q # p
      BY <2>2, <1>2 DEF Moves, InFlight
    <2> QED
      BY <2>1, <2>2
  <1>3. ASSUME NEW r \in InFlight' PROVE r = row' \/ \E q \in Procs : procs'[q].cmd # None /\ r = procs'[q].cmd.row
    BY DEF InFlight
  <1> QED
    BY <1>1, <1>2, <1>3

\* A row is computed from the one that is read: it has the delivery of that
\* row in the same generation, or none.
Descends(r) == \A a : For(r, a) => For(row, a) /\ r.gen = row.gen

\* The path of a window that goes on, or stays at a step with its command.
LEMMA PathGoes ==
    ASSUME NEW w, w.todo \in Seq(Steps), w.todo # <<>>, PathInv(w), ~ IsBeginning(w),
           Head(w.todo) # "check",
           NEW v, v.a = w.a, v.todo = w.todo \/ v.todo = Tail(w.todo),
           v.todo = w.todo => Head(w.todo) # "prepare",
           Requested' = Requested, genOf' = genOf,
           \A r \in InFlight' : r \in InFlight \/ Descends(r)
    PROVE  PathInv(v)'
  <1> DEFINE q == w.todo
             t == v.todo
             h == Head(w.todo)
  <1>1. /\ Ordered(q) => Ordered(t)
        /\ \A s : Lists(t, s) => Lists(q, s)
        /\ Lists(q, "check") => Lists(t, "check")
        /\ Ordered(q) /\ h = "prepare" => ~ Lists(t, "prepare")
    <2>1. CASE v.todo = w.todo
      BY <2>1
    <2>2. CASE v.todo = Tail(w.todo)
      BY <2>2, RestFacts, RestOfSend
    <2> QED
      BY <2>1, <2>2
  <1>2. row \in InFlight
    BY DEF InFlight
  <1>3. Sober(t) \/ Ordered(t)
    BY <1>1 DEF PathInv, Sober
  <1>4. ASSUME Lists(t, "prepare"), ~ IsBeginning(v)
        PROVE  /\ \A b \in Requested' : b <= v.a
               /\ NotPrepared(v.a)'
    <2>1. Lists(q, "prepare")
      BY <1>1, <1>4
    <2>2. Ordered(q)
      BY <2>1 DEF PathInv, Sober, Watched
    <2>3. h # "prepare"
      BY <1>1, <1>4, <2>2
    <2>4. (\A b \in Requested : b <= w.a) /\ NotPrepared(w.a)
      BY <2>1, <2>3 DEF PathInv
    <2>5. ASSUME NEW r \in InFlight' PROVE ~ For(r, v.a)
      <3>1. CASE r \in InFlight
        BY <3>1, <2>4 DEF NotPrepared
      <3>2. CASE Descends(r)
        BY <3>2, <2>4, <1>2 DEF NotPrepared, Descends
      <3> QED
        BY <3>1, <3>2
    <2>6. NotPrepared(v.a)'
      BY <2>5 DEF NotPrepared, For
    <2> QED
      BY <2>4, <2>6
  <1>5. ASSUME Lists(t, "accept") \/ Lists(t, "import"), ~ Lists(t, "check")
        PROVE  InGeneration(v.a)'
    <2>1. InGeneration(w.a)
      BY <1>1, <1>5 DEF PathInv
    <2>2. ASSUME NEW r \in InFlight', For(r, v.a) PROVE r.gen = genOf[v.a]
      <3>1. CASE r \in InFlight
        BY <3>1, <2>1, <2>2 DEF InGeneration
      <3>2. CASE Descends(r)
        BY <3>2, <2>1, <2>2, <1>2 DEF InGeneration, Descends
      <3> QED
        BY <3>1, <3>2
    <2> QED
      BY <2>2 DEF InGeneration, For
  <1> QED
    BY <1>3, <1>4, <1>5 DEF PathInv

\* A list with none of the steps watched.
LEMMA SoberPath == ASSUME NEW v, Sober(v.todo) PROVE PathInv(v)'
  BY DEF PathInv, Sober, Watched

\* A step that leaves the log and the row alone, and computes a row from the
\* one it reads or none.
LEMMA QuietGoes ==
    ASSUME Alone, NEW p \in Procs, NEW v, Moves(p, v), UNCHANGED <<facts, committed, genOf, row>>,
           v.cmd # None => /\ Follows(v.cmd.row, v.a, v.cmd.fact) /\ DeliveryFits(v.cmd.row)
                           /\ Descends(v.cmd.row),
           p \in Clients => PathInv(v)',
           p = "observer" => \A s : Lists(v.todo, s) => s \in {"publish", "mark", "remove"}
    PROVE  CursorInv'
  <1>1. \A r \in InFlight' : r \in InFlight \/ (v.cmd # None /\ r = v.cmd.row)
    BY FlightMoves DEF Alone
  <1>2. /\ Requested' = Requested
        /\ \A r, a, f : Follows(r, a, f)' <=> Follows(r, a, f)
        /\ \A r : DeliveryFits(r)' <=> DeliveryFits(r)
        /\ \A r, a : For(r, a)' <=> For(r, a)
    BY DEF Requested, Follows, DeliveryFits, For, Has
  <1>3. row \in InFlight
    BY DEF InFlight
  <1>4. RowsInv'
    <2>1. row' # None => Follows(row, 0, None)'
      BY <1>2 DEF Alone, CursorInv, RowsInv, Follows, Has
    <2>2. ASSUME NEW q \in Procs, procs'[q].cmd # None
          PROVE  Follows(procs'[q].cmd.row, procs'[q].a, procs'[q].cmd.fact)
      <3>1. CASE q = p
        BY <3>1, <2>2 DEF Moves
      <3>2. CASE q # p
        BY <3>2, <2>2 DEF Alone, CursorInv, RowsInv, Moves
      <3> QED
        BY <3>1, <3>2
    <2>3. ASSUME NEW r \in InFlight', r # None PROVE DeliveryFits(r)
      BY <2>3, <1>1 DEF Alone, CursorInv, RowsInv
    <2>4. ASSUME NEW a, NEW r \in InFlight', NEW s \in InFlight', For(r, a), For(s, a)
          PROVE  r.gen = s.gen
      <3>1. \A x \in InFlight, y \in InFlight : For(x, a) /\ For(y, a) => x.gen = y.gen
        BY DEF Alone, CursorInv, RowsInv
      <3>2. ASSUME NEW x \in InFlight', For(x, a) PROVE \E y \in InFlight : For(y, a) /\ x.gen = y.gen
        <4>1. CASE x \in InFlight
          BY <4>1, <3>2
        <4>2. CASE v.cmd # None /\ x = v.cmd.row
          BY <4>2, <3>2, <1>3 DEF Descends
        <4> QED
          BY <4>1, <4>2, <1>1
      <3> QED
        BY <3>1, <3>2, <2>4
    <2>5. \A q \in Procs : procs'[q].cmd # None =>
             Follows(procs[q].cmd.row, procs[q].a, procs[q].cmd.fact)'
      BY <2>2, <1>2 DEF Follows, Has
    <2>6. \A r \in InFlight' : r # None => DeliveryFits(r)'
      BY <2>3, <1>2
    <2>7. \A a : \A r, s \in InFlight' : For(r, a)' /\ For(s, a)' => r.gen = s.gen
      BY <2>4, <1>2
    <2> QED
      BY <2>1, <2>5, <2>6, <2>7 DEF RowsInv
  <1>5. ASSUME NEW c \in Clients PROVE PathInv(procs[c])'
    <2>1. c \in Procs
      BY DEF Procs
    <2>2. CASE c = p
      BY <2>1, <2>2 DEF Moves
    <2>3. CASE c # p
      <3>1. procs'[c] = procs[c] /\ PathInv(procs[c])
        BY <2>1, <2>3 DEF Moves, Alone, CursorInv
      <3>2. \A r \in InFlight' : r \in InFlight \/ Descends(r)
        BY <1>1
      <3>3. \A a : (InGeneration(a) => InGeneration(a)') /\ (NotPrepared(a) => NotPrepared(a)')
        BY <3>2, <1>2, <1>3 DEF InGeneration, NotPrepared, Descends
      <3> SUFFICES ASSUME NEW w, w = procs[c] PROVE PathInv(w)'
        BY <3>1
      <3> QED
        BY <3>1, <3>3, <1>2 DEF PathInv
    <2> QED
      BY <2>2, <2>3
  <1>6. \A s : Lists(procs'["observer"].todo, s) => s \in {"publish", "mark", "remove"}
    <2>1. "observer" \in Procs
      BY DEF Procs
    <2> QED
      BY <2>1 DEF Moves, Alone, CursorInv
  <1>7. /\ Requested' = 1 .. Cardinality(Requested)'
        /\ \A a \in Attempts \ Requested' : committed'[a] = None
    BY <1>2 DEF Alone, CursorInv
  <1> QED
    BY <1>4, <1>5, <1>6, <1>7 DEF CursorInv

\* The event path does nothing but publish, flag and remove.
LEMMA WindowActs ==
    ASSUME TurnInv, CursorInv, NEW p \in Procs, NEW s, IsAt(p, s), s \notin {"publish", "mark", "remove"}
    PROVE  p \in Clients
  <1>1. Lists(procs[p].todo, s)
    BY AtFacts
  <1> QED
    BY <1>1 DEF CursorInv, Procs

\* A process at a step goes on without a command.
LEMMA WentOn ==
    ASSUME Alone, NEW p \in Procs, NEW s, IsAt(p, s), s # "check", NEW n, GoTo(p, n),
           UNCHANGED <<facts, committed, genOf, row>>,
           n = Rest(p) \/ Sober(n),
           p = "observer" => \A x : Lists(n, x) => x \in {"publish", "mark", "remove"}
    PROVE  CursorInv'
  <1> SUFFICES ASSUME NEW w, w = procs[p] PROVE CursorInv'
    OBVIOUS
  <1>1. /\ w \in Process /\ w.todo # <<>> /\ Head(w.todo) = s /\ w.cmd = None
        /\ Rest(p) = Tail(w.todo)
    BY AtFacts DEF Alone
  <1>2. PICK v : /\ Moves(p, v) /\ v.todo = n /\ v.cmd = None
                 /\ (n # <<>> => v.a = w.a)
    BY WentTo DEF Alone
  <1>3. ASSUME p \in Clients PROVE PathInv(v)'
    <2>1. CASE Sober(n)
      BY <2>1, <1>2, SoberPath
    <2>2. CASE n = <<>>
      <3>1. Sober(n)
        BY <2>2, EmptyList DEF Sober
      <3> QED
        BY <3>1, <2>1
    <2>3. CASE n = Rest(p) /\ n # <<>>
      <3>1. PathInv(w) /\ w.todo \in Seq(Steps) /\ ~ IsBeginning(w)
        BY <1>1, <1>3 DEF Alone, CursorInv, IsBeginning, Process
      <3>2. \A r \in InFlight' : r \in InFlight
        BY <1>2, FlightMoves DEF Alone
      <3>3. Requested' = Requested
        BY DEF Requested, Has
      <3>4. v.todo = w.todo => Head(w.todo) # "prepare"
        <4>1. Len(Tail(w.todo)) # Len(w.todo)
          BY <1>1 DEF Process
        <4> QED
          BY <4>1, <1>1, <1>2, <2>3
      <3> QED
        BY <3>1, <3>2, <3>3, <3>4, <1>1, <1>2, <2>3, PathGoes
    <2> QED
      BY <2>1, <2>2, <2>3
  <1> QED
    BY <1>2, <1>3, QuietGoes

\* A process at a step computes a row.
LEMMA ComputesRow ==
    ASSUME Alone, NEW p \in Procs, NEW s, IsAt(p, s), s \notin {"check", "prepare"}, NEW k, Issue(p, k),
           UNCHANGED <<facts, committed, genOf, row>>,
           Follows(k.row, procs[p].a, k.fact), DeliveryFits(k.row), Descends(k.row)
    PROVE  CursorInv'
  <1> SUFFICES ASSUME NEW w, w = procs[p] PROVE CursorInv'
    OBVIOUS
  <1>1. /\ w \in Process /\ w.todo # <<>> /\ Head(w.todo) = s /\ w.cmd = None
    BY AtFacts DEF Alone
  <1>2. PICK v : Moves(p, v) /\ v.todo = w.todo /\ v.cmd = k /\ v.a = w.a
    BY Issued DEF Alone
  <1>3. ASSUME p \in Clients PROVE PathInv(v)'
    <2>1. PathInv(w) /\ w.todo \in Seq(Steps) /\ ~ IsBeginning(w)
      BY <1>1, <1>3 DEF Alone, CursorInv, IsBeginning, Process
    <2>2. \A r \in InFlight' : r \in InFlight \/ Descends(r)
      BY <1>2, FlightMoves DEF Alone
    <2>3. Requested' = Requested
      BY DEF Requested, Has
    <2> QED
      BY <2>1, <2>2, <2>3, <1>1, <1>2, PathGoes
  <1>4. p = "observer" => \A x : Lists(v.todo, x) => x \in {"publish", "mark", "remove"}
    BY <1>2 DEF Alone, CursorInv
  <1> QED
    BY <1>2, <1>3, <1>4, QuietGoes

\* A row with the cursors, the generation and the delivery of the row read, the
\* delivery at most marked as sent, or dropped.
Resembles(r) ==
    /\ r.gen = row.gen /\ r.accepted = row.accepted /\ r.committed = row.committed
    /\ \/ r.pending \in {None, row.pending}
       \/ /\ row.pending # None /\ r.pending.attempt = row.pending.attempt
          /\ r.pending.phase # "accepted"

\* It fits as that one does.
LEMMA ResemblingRow ==
    ASSUME CursorInv, row # None, NEW r, Resembles(r), NEW a, NEW f
    PROVE  Follows(r, a, f) /\ DeliveryFits(r) /\ Descends(r)
  <1>1. Follows(row, 0, None) /\ DeliveryFits(row)
    BY DEF CursorInv, RowsInv, InFlight
  <1>2. Follows(r, a, f)
    BY <1>1, NoneAssumption DEF Resembles, Follows, FactTypes
  <1>3. DeliveryFits(r)
    BY <1>1 DEF Resembles, DeliveryFits
  <1>4. Descends(r)
    BY DEF Resembles, Descends, For
  <1> QED
    BY <1>2, <1>3, <1>4

\* A process computes a row that resembles the one it reads.
LEMMA ComputesKept ==
    ASSUME Alone, NEW p \in Procs, NEW s, IsAt(p, s), s \notin {"check", "prepare"}, NEW k, Issue(p, k),
           UNCHANGED <<durable, owner, world>>, Resembles(k.row)
    PROVE  CursorInv'
  <1>1. row # None
    BY AtFacts DEF Alone
  <1>2. UNCHANGED <<facts, committed, genOf, row>>
    BY DEF durable
  <1> QED
    BY <1>1, <1>2, ResemblingRow, ComputesRow DEF Alone

\* The short lists that follow an error, or the end of a turn.
LEMMA SoberLists ==
    /\ \A n \in PlainLists : Sober(n)
    /\ Sober(<<"observe">>) /\ Sober(<<"await">>) /\ Sober(<<"rebuild">>) /\ Sober(<<"skip">>)
    /\ Sober(<<"settle">>) /\ Sober(<<"settle", "remove">>) /\ Sober(<<"observe", "rebuild">>)
    /\ Sober(<<"remove", "observe", "clear">>) /\ Sober(<<"remove", "settle", "clear", "remove">>)
  <1>1. ASSUME NEW n \in PlainLists PROVE Sober(n)
    <2>1. \A s : Lists(n, s) => s \in {"mark", "remove", "fail", "failNative"}
      BY ListsOf, EmptyList DEF PlainLists
    <2> QED
      BY <2>1 DEF Sober, Watched
  <1>2. Sober(<<"observe">>) /\ Sober(<<"await">>) /\ Sober(<<"rebuild">>) /\ Sober(<<"skip">>) /\ Sober(<<"settle">>)
    BY ListsOf DEF Sober, Watched
  <1>3. Sober(<<"settle", "remove">>) /\ Sober(<<"observe", "rebuild">>)
    BY ListsOf DEF Sober, Watched
  <1>4. Sober(<<"remove", "observe", "clear">>)
    BY ListsOf DEF Sober, Watched
  <1>5. Sober(<<"remove", "settle", "clear", "remove">>)
    BY ListsOf DEF Sober, Watched
  <1> QED
    BY <1>1, <1>2, <1>3, <1>4, <1>5

\* A list that begins behind the acceptance contains no step that is watched.
LEMMA SoberHead ==
    ASSUME NEW w, w.todo \in Seq(Steps), w.todo # <<>>, PathInv(w),
           Head(w.todo) \notin Sending \cup {"acceptTurn", "await"}
    PROVE  Sober(w.todo)
  <1>1. CASE Ordered(w.todo)
    <2>1. Head(w.todo) = "drain"
      BY <1>1, RestOfSend
    <2> SUFFICES ASSUME NEW q, q = w.todo, NEW h, h = Head(q), NEW s \in Watched, Lists(q, s) PROVE FALSE
      BY DEF Sober
    <2>2. \A x : Ahead(q, x, h) => ~ Lists(q, x)
      BY <1>1, RestOfSend
    <2>3. s \in Sending
      BY DEF Watched, Sending
    <2>4. Lists(q, "acceptTurn")
      BY <1>1, <2>3 DEF Ordered, Leads
    <2>5. h # "drain"
      BY <1>1, <2>2, <2>4 DEF Ordered
    <2> QED
      BY <2>1, <2>5
  <1> QED
    BY <1>1 DEF PathInv

-----------------------------------------------------------------------------
(***************************************************************************)
(* The steps.                                                              *)
(***************************************************************************)
\* The delivery of the newest turn is computed, the first one it has.
LEMMA PrepareCursor == ASSUME Alone, NEW p \in Procs, Prepare(p) PROVE CursorInv'
  <1> SUFFICES ASSUME NEW w, w = procs[p] PROVE CursorInv'
    OBVIOUS
  <1>1. IsAt(p, "prepare") /\ UNCHANGED <<durable, owner, world>>
    BY DEF Prepare
  <1>2. /\ w \in Process /\ w.todo # <<>> /\ Head(w.todo) = "prepare" /\ w.cmd = None
        /\ Lists(w.todo, "prepare") /\ row \in BindingRow /\ row # None
        /\ w.a \in Attempts /\ w.a # 0 /\ w.a \in Requested
    BY <1>1, AtFacts DEF Alone
  <1>3. UNCHANGED <<facts, committed, genOf, row>>
    BY <1>1 DEF durable
  <1>4. p \in Clients
    BY <1>1, WindowActs DEF Alone
  <1>5. "observer" \notin Clients
    BY TurnAssumption
  <1>6. CASE GoTo(p, <<"fail">>)
    <2>1. Sober(<<"fail">>)
      BY SoberLists DEF PlainLists
    <2> QED
      BY <2>1, <1>1, <1>3, <1>4, <1>5, <1>6, WentOn
  <1>7. ASSUME row.pending = None, NEW transfer \in BOOLEAN, NEW k,
               k = AppendFact("deliveryPrepared",
                     [row EXCEPT !.pending = [attempt |-> w.a, phase |-> "prepared", gen |-> genOf[w.a]]]),
               procs' = [procs EXCEPT ![p] = [procs[p] EXCEPT !.transfer = transfer, !.cmd = k]]
        PROVE  CursorInv'
    <2> SUFFICES ASSUME NEW v, v = [procs[p] EXCEPT !.transfer = transfer, !.cmd = k],
                        NEW r, r = k.row
                 PROVE  CursorInv'
      OBVIOUS
    <2>1. Moves(p, v)
      BY <1>7 DEF Moves, Alone, TurnInv
    <2>2. v.todo = w.todo /\ v.a = w.a /\ v.cmd = k
      BY <1>2 DEF Process
    <2>3. /\ r.gen = row.gen /\ r.accepted = row.accepted /\ r.committed = row.committed
          /\ r.pending # None /\ r.pending.attempt = w.a /\ r.pending.phase = "prepared"
          /\ k.fact = "deliveryPrepared" /\ k # None
      <3>1. k.row = [row EXCEPT !.pending = [attempt |-> w.a, phase |-> "prepared", gen |-> genOf[w.a]]]
        BY <1>7 DEF AppendFact
      <3>2. genOf[w.a] \in Generations
        BY <1>1, <1>2, AtFacts DEF Alone
      <3>3. [attempt |-> w.a, phase |-> "prepared", gen |-> genOf[w.a]] \in Pending
        BY <3>2, <1>2 DEF Pending
      <3>4. [attempt |-> w.a, phase |-> "prepared", gen |-> genOf[w.a]] # None
        BY <3>3, NoneAssumption
      <3>5. k.fact = "deliveryPrepared"
        BY <1>7 DEF AppendFact
      <3>6. k.row \in BindingRow
        BY <3>1, <3>3, <1>2 DEF BindingRow
      <3>7. k \in Cmd
        BY <3>6, <1>7, CommandTypes DEF FactTypes, AppendFact
      <3>8. k # None
        BY <3>7, NoneAssumption
      <3> QED
        BY <3>1, <3>4, <3>5, <3>8, <1>2 DEF BindingRow
    <2>4. PathInv(w) /\ w.todo \in Seq(Steps)
      BY <1>2, <1>4 DEF Alone, CursorInv, Process
    <2>5. Ordered(w.todo) /\ (\A b \in Requested : b <= w.a) /\ NotPrepared(w.a)
      BY <2>4, <1>2 DEF PathInv, Sober, Watched, IsBeginning
    <2>6. \A x \in InFlight' : x \in InFlight \/ x = r
      BY <2>1, <2>2, <1>3, FlightMoves DEF Alone
    <2>7. Requested' = Requested
      BY <1>3 DEF Requested, Has
    <2>8. Follows(row, 0, None) /\ DeliveryFits(row)
      BY <1>2 DEF Alone, CursorInv, RowsInv, InFlight
    <2>9. Follows(r, v.a, k.fact)
      BY <2>3, <2>8, NoneAssumption DEF Follows, FactTypes
    <2>10. DeliveryFits(r)
      <3>1. row.committed # 0 => row.committed \in Requested
        BY <2>8, <1>2 DEF Follows, Alone, CursorInv, BindingRow
      <3>2. row.committed <= w.a
        BY <3>1, <2>5, <1>2, NumbersFacts
      <3> QED
        BY <3>2, <2>3, <1>2 DEF DeliveryFits
    <2>11. PathInv(v)'
      <3>1. Leads(w.todo, "prepare", "check")
        BY <2>5 DEF Ordered
      <3>2. Lists(w.todo, "check")
        BY <3>1, <1>2 DEF Leads
      <3> QED
        BY <3>2, <2>2, <2>3, <2>5, <2>7, <1>2 DEF PathInv
    <2>12. RowsInv'
      <3>1. /\ \A x, b, f : Follows(x, b, f)' <=> Follows(x, b, f)
            /\ \A x : DeliveryFits(x)' <=> DeliveryFits(x)
            /\ \A x, b : For(x, b)' <=> For(x, b)
        BY <1>3, <2>7 DEF Follows, DeliveryFits, For, Has
      <3>2. row' # None => Follows(row, 0, None)'
        BY <2>8, <1>3 DEF Follows, Has
      <3>3. ASSUME NEW q \in Procs, procs'[q].cmd # None
            PROVE  Follows(procs'[q].cmd.row, procs'[q].a, procs'[q].cmd.fact)
        <4>1. CASE q = p
          BY <4>1, <2>1, <2>2, <2>9 DEF Moves
        <4>2. CASE q # p
          BY <4>2, <3>3, <2>1 DEF Alone, CursorInv, RowsInv, Moves
        <4> QED
          BY <4>1, <4>2
      <3>4. \A q \in Procs : procs'[q].cmd # None =>
               Follows(procs[q].cmd.row, procs[q].a, procs[q].cmd.fact)'
        BY <3>1, <3>3, <1>3 DEF Follows, Has
      <3>5. \A x \in InFlight' : x # None => DeliveryFits(x)'
        BY <3>1, <2>6, <2>10 DEF Alone, CursorInv, RowsInv
      <3>6. \A b : For(r, b) => b = w.a
        BY <2>3 DEF For
      <3>7. \A b : \A x, y \in InFlight' : For(x, b) /\ For(y, b) => x.gen = y.gen
        BY <2>5, <2>6, <3>6 DEF Alone, CursorInv, RowsInv, NotPrepared
      <3>8. \A b : \A x, y \in InFlight' : For(x, b)' /\ For(y, b)' => x.gen = y.gen
        BY <3>1, <3>7
      <3> QED
        BY <3>2, <3>4, <3>5, <3>8 DEF RowsInv
    <2>13. ASSUME NEW c \in Clients PROVE PathInv(procs[c])'
      <3>1. c = p /\ p \in Procs
        BY <1>4 DEF Alone, OneClient
      <3> QED
        BY <3>1, <2>1, <2>11 DEF Moves
    <2>14. \A s : Lists(procs'["observer"].todo, s) => s \in {"publish", "mark", "remove"}
      <3>1. "observer" \in Procs /\ p # "observer"
        BY <1>4, <1>5 DEF Procs
      <3> QED
        BY <3>1, <2>1 DEF Moves, Alone, CursorInv
    <2>15. Requested' = 1 .. Cardinality(Requested)' /\ \A b \in Attempts \ Requested' : committed'[b] = None
      BY <2>7, <1>3 DEF Alone, CursorInv
    <2> QED
      BY <2>12, <2>13, <2>14, <2>15 DEF CursorInv
  <1> QED
    BY <1>6, <1>7 DEF Prepare

\* A window at a step goes on, or does what follows an error.
LEMMA WindowGoes ==
    ASSUME Alone, NEW p \in Procs, NEW s, IsAt(p, s), s \notin {"check", "publish", "mark", "remove"},
           UNCHANGED <<facts, committed, genOf, row>>, NEW n, GoTo(p, n), n = Rest(p) \/ Sober(n)
    PROVE  CursorInv'
  <1>1. p \in Clients /\ "observer" \notin Clients
    BY WindowActs, TurnAssumption DEF Alone
  <1> QED
    BY <1>1, WentOn

\* The lists that follow an error of a dispatch.
LEMMA ErrorLists ==
    /\ Sober(Ambiguous) /\ Sober(NotAccepted) /\ Sober(<<"failNative", "remove">>)
    /\ Sober(<<"failNative", "mark", "remove">>) /\ Sober(<<>>)
  BY SoberLists DEF PlainLists, Ambiguous, NotAccepted

\* Past the check, the delivery of the turn is in its generation.
LEMMA CheckPendingCursor == ASSUME Alone, NEW p \in Procs, CheckPending(p) PROVE CursorInv'
  <1> SUFFICES ASSUME NEW w, w = procs[p] PROVE CursorInv'
    OBVIOUS
  <1>1. IsAt(p, "check") /\ UNCHANGED <<durable, owner, world>>
    BY DEF CheckPending
  <1>2. /\ w \in Process /\ w.todo # <<>> /\ Head(w.todo) = "check" /\ w.cmd = None
        /\ Lists(w.todo, "check") /\ Rest(p) = Tail(w.todo) /\ row # None
    BY <1>1, AtFacts DEF Alone
  <1>3. UNCHANGED <<facts, committed, genOf, row>>
    BY <1>1 DEF durable
  <1>4. p \in Clients /\ "observer" \notin Clients
    BY <1>1, WindowActs, TurnAssumption DEF Alone
  <1>5. Ordered(w.todo)
    BY <1>2, <1>4 DEF Alone, CursorInv, PathInv, Sober, Watched
  <1>6. ASSUME NEW n, GoTo(p, n), Sober(n) PROVE CursorInv'
    <2>1. PICK v : Moves(p, v) /\ v.todo = n /\ v.cmd = None
      BY <1>6, WentTo DEF Alone
    <2> QED
      BY <2>1, <1>3, <1>4, <1>6, SoberPath, QuietGoes
  <1>7. CASE IsPendingFor(w.a) /\ GoTo(p, Rest(p))
    <2>1. PICK v : /\ Moves(p, v) /\ v.todo = Rest(p) /\ v.cmd = None
                   /\ IF Rest(p) = <<>> THEN v = Idle ELSE v.a = w.a
      BY <1>7, WentTo DEF Alone
    <2>2. /\ Ordered(v.todo) /\ ~ Lists(v.todo, "check") /\ ~ Lists(v.todo, "prepare")
      <3>1. w.todo \in Seq(Steps)
        BY <1>2 DEF Process
      <3>2. /\ Ordered(Tail(w.todo)) /\ ~ Lists(Tail(w.todo), "check")
            /\ \A s : Lists(Tail(w.todo), s) => Lists(w.todo, s)
            /\ \A x : Ahead(w.todo, x, Head(w.todo)) => ~ Lists(w.todo, x)
        BY <3>1, <1>2, <1>5, RestOfSend
      <3>3. ~ Lists(w.todo, "prepare")
        BY <3>2, <1>2, <1>5 DEF Ordered, Leads
      <3> QED
        BY <3>2, <3>3, <2>1, <1>2
    <2>3. InGeneration(w.a)
      <3>1. For(row, w.a) /\ row.gen = genOf[w.a] /\ row \in InFlight
        BY <1>7, <1>2 DEF IsPendingFor, IsCurrent, IsPending, For, InFlight
      <3> QED
        BY <3>1 DEF InGeneration, Alone, CursorInv, RowsInv
    <2>4. InGeneration(w.a)'
      <3>1. \A r \in InFlight' : r \in InFlight
        BY <2>1, <1>3, FlightMoves DEF Alone
      <3> QED
        BY <3>1, <2>3, <1>3 DEF InGeneration, For
    <2>5. Lists(v.todo, "accept") \/ Lists(v.todo, "import") => v.a = w.a
      BY <2>1, EmptyList
    <2>6. PathInv(v)'
      BY <2>2, <2>4, <2>5 DEF PathInv
    <2> QED
      BY <2>1, <2>6, <1>3, <1>4, QuietGoes
  <1>8. Sober(NotAccepted) /\ Sober(Ambiguous)
    BY ErrorLists
  <1> QED
    BY <1>2, <1>6, <1>7, <1>8 DEF CheckPending

\* The coordinator gets or keeps an entry of the turn.
LEMMA RegisterCursor == ASSUME Alone, NEW p \in Procs, Register(p) PROVE CursorInv'
  <1>1. IsAt(p, "register") /\ UNCHANGED <<facts, committed, genOf, row>>
    BY DEF Register, durable
  <1> QED
    BY <1>1, WindowGoes, ErrorLists DEF Register

\* The prompt leaves, or is not accepted.
LEMMA SendPromptCursor == ASSUME Alone, NEW p \in Procs, SendPrompt(p) PROVE CursorInv'
  <1>1. IsAt(p, "prompt") /\ UNCHANGED <<facts, committed, genOf, row>>
    BY DEF SendPrompt, durable
  <1> QED
    BY <1>1, WindowGoes, ErrorLists DEF SendPrompt

\* The response is lost, or opens the barrier.
LEMMA ResponseCursor == ASSUME Alone, NEW p \in Procs, Response(p) PROVE CursorInv'
  <1>1. IsAt(p, "response") /\ UNCHANGED <<facts, committed, genOf, row>>
    BY DEF Response, durable
  <1> QED
    BY <1>1, WindowGoes, ErrorLists DEF Response

\* The runtime is about to be asked for a session.
LEMMA MarkStartingCursor == ASSUME Alone, NEW p \in Procs, MarkStarting(p) PROVE CursorInv'
  <1>1. IsAt(p, "starting") /\ UNCHANGED <<durable, owner, world>> /\ UNCHANGED <<facts, committed, genOf, row>>
    BY DEF MarkStarting, durable
  <1>2. row \in BindingRow /\ row # None
    BY <1>1, AtFacts DEF Alone
  <1>3. ASSUME NEW k, k = Upsert([row EXCEPT !.state = "creating"]), Issue(p, k) PROVE CursorInv'
    <2>1. Resembles(k.row)
      BY <1>2, <1>3 DEF Resembles, BindingRow, Upsert
    <2> QED
      BY <2>1, <1>1, <1>3, ComputesKept
  <1> QED
    BY <1>1, <1>3, WindowGoes, ErrorLists DEF MarkStarting

\* The runtime has a session.
LEMMA MaterializeCursor == ASSUME Alone, NEW p \in Procs, Materialize(p) PROVE CursorInv'
  <1>1. IsAt(p, "materialize") /\ UNCHANGED <<durable, owner, world>> /\ UNCHANGED <<facts, committed, genOf, row>>
    BY DEF Materialize, durable
  <1>2. row \in BindingRow /\ row # None
    BY <1>1, AtFacts DEF Alone
  <1>3. ASSUME NEW k, Issue(p, k),
               k = Upsert([row EXCEPT !.state = IF IdentityAcked THEN "ready" ELSE "creating", !.native = TRUE])
        PROVE  CursorInv'
    <2>1. Resembles(k.row)
      BY <1>2, <1>3 DEF Resembles, BindingRow, Upsert
    <2> QED
      BY <2>1, <1>1, <1>3, ComputesKept
  <1> QED
    BY <1>1, <1>3, WindowGoes, ErrorLists DEF Materialize

\* The native history is trusted.
LEMMA TrustNativeCursor == ASSUME Alone, NEW p \in Procs, TrustNative(p) PROVE CursorInv'
  <1>1. IsAt(p, "trust") /\ UNCHANGED <<durable, owner, world>> /\ UNCHANGED <<facts, committed, genOf, row>>
    BY DEF TrustNative, durable
  <1>2. row \in BindingRow /\ row # None
    BY <1>1, AtFacts DEF Alone
  <1>3. ASSUME NEW k, k = Upsert([row EXCEPT !.trusted = TRUE]), Issue(p, k) PROVE CursorInv'
    <2>1. Resembles(k.row)
      BY <1>2, <1>3 DEF Resembles, BindingRow, Upsert
    <2> QED
      BY <2>1, <1>1, <1>3, ComputesKept
  <1> QED
    BY <1>1, <1>3, WindowGoes, ErrorLists DEF TrustNative

\* The turn is accepted.
LEMMA AcceptTurnCursor == ASSUME Alone, NEW p \in Procs, AcceptTurn(p) PROVE CursorInv'
  <1>1. IsAt(p, "acceptTurn") /\ UNCHANGED <<durable, owner, world>> /\ UNCHANGED <<facts, committed, genOf, row>>
    BY DEF AcceptTurn, durable
  <1>2. row \in BindingRow /\ row # None
    BY <1>1, AtFacts DEF Alone
  <1>3. ASSUME NEW k, Issue(p, k),
               k = AppendFact("turnAccepted", [row EXCEPT !.state = "ready", !.native = TRUE])
        PROVE  CursorInv'
    <2>1. Resembles(k.row)
      BY <1>2, <1>3 DEF Resembles, BindingRow, AppendFact
    <2> QED
      BY <2>1, <1>1, <1>3, ComputesKept
  <1> QED
    BY <1>1, <1>3, WindowGoes, ErrorLists DEF AcceptTurn

\* The flag is taken off an idle binding.
LEMMA ClearRecoveryCursor == ASSUME Alone, NEW p \in Procs, ClearRecovery(p) PROVE CursorInv'
  <1>1. IsAt(p, "clear") /\ UNCHANGED <<durable, owner, world>> /\ UNCHANGED <<facts, committed, genOf, row>>
    BY DEF ClearRecovery, durable
  <1>2. row \in BindingRow /\ row # None
    BY <1>1, AtFacts DEF Alone
  <1>3. ASSUME NEW k, Issue(p, k),
               k = Upsert([row EXCEPT !.state = ReadyOrPrepared(row.native), !.trusted = FALSE])
        PROVE  CursorInv'
    <2>1. Resembles(k.row)
      BY <1>2, <1>3 DEF Resembles, BindingRow, Upsert
    <2> QED
      BY <2>1, <1>1, <1>3, ComputesKept
  <1> QED
    BY <1>1, <1>3, WindowGoes, ErrorLists DEF ClearRecovery

\* The delivery is recorded as sent, or the dispatch ends.
LEMMA MarkSentCursor == ASSUME Alone, NEW p \in Procs, MarkSent(p) PROVE CursorInv'
  <1> SUFFICES ASSUME NEW a, a = procs[p].a PROVE CursorInv'
    OBVIOUS
  <1>1. IsAt(p, "sent") /\ UNCHANGED <<durable, owner, world>> /\ UNCHANGED <<facts, committed, genOf, row>>
    BY DEF MarkSent, durable
  <1>2. row \in BindingRow /\ row # None
    BY <1>1, AtFacts DEF Alone
  <1>3. ASSUME NEW k, k = Upsert([row EXCEPT !.pending.phase = "sent", !.native = TRUE]), Issue(p, k),
               row.pending # None
        PROVE  CursorInv'
    <2>1. row.pending \in Pending
      BY <1>2, <1>3 DEF BindingRow
    <2>2. Resembles(k.row)
      BY <2>1, <1>2, <1>3 DEF Resembles, BindingRow, Upsert, Pending
    <2> QED
      BY <2>2, <1>1, <1>3, ComputesKept
  <1>4. CASE GoTo(p, Ambiguous) \/ GoTo(p, <<"failNative", "remove">>)
    BY <1>1, <1>4, WindowGoes, ErrorLists
  <1> QED
    BY <1>3, <1>4 DEF MarkSent, IsPending

\* The history is imported, or the import is not certain.
LEMMA ImportCursor == ASSUME Alone, NEW p \in Procs, Import(p) PROVE CursorInv'
  <1> SUFFICES ASSUME NEW w, w = procs[p] PROVE CursorInv'
    OBVIOUS
  <1>1. IsAt(p, "import") /\ UNCHANGED <<facts, committed, genOf, row>>
    BY DEF Import, durable
  <1>2. /\ w \in Process /\ w.todo # <<>> /\ Head(w.todo) = "import" /\ w.cmd = None
        /\ Lists(w.todo, "import")
    BY <1>1, AtFacts DEF Alone
  <1>3. p \in Clients /\ "observer" \notin Clients
    BY <1>1, WindowActs, TurnAssumption DEF Alone
  <1>4. CASE GoTo(p, ImportedFirst)
    <2>1. PathInv(w) /\ w.todo \in Seq(Steps)
      BY <1>2, <1>3 DEF Alone, CursorInv, Process
    <2>2. Ordered(w.todo)
      BY <2>1, <1>2 DEF PathInv, Sober, Watched
    <2>3. ~ Lists(w.todo, "check")
      <3>1. \A x : Ahead(w.todo, x, "import") => ~ Lists(w.todo, x)
        BY <2>1, <2>2, <1>2, RestOfSend
      <3>2. ~ Lists(w.todo, "sent")
        BY <3>1, <2>2 DEF Ordered, Leads
      <3> QED
        BY <3>2, <2>2 DEF Ordered, Leads
    <2>4. InGeneration(w.a)
      BY <2>1, <2>3, <1>2 DEF PathInv
    <2>5. ImportedFirst # <<>>
      BY ImportedOrder, EmptyList
    <2>6. PICK v : Moves(p, v) /\ v.todo = ImportedFirst /\ v.cmd = None /\ v.a = w.a
      BY <2>5, <1>4, WentTo DEF Alone
    <2>7. InGeneration(v.a)'
      <3>1. \A r \in InFlight' : r \in InFlight
        BY <2>6, <1>1, FlightMoves DEF Alone
      <3> QED
        BY <3>1, <2>4, <2>6, <1>1 DEF InGeneration, For
    <2>8. PathInv(v)'
      BY <2>6, <2>7, ImportedOrder DEF PathInv
    <2> QED
      BY <2>6, <2>8, <1>1, <1>3, QuietGoes
  <1>5. CASE GoTo(p, Rest(p)) \/ GoTo(p, Ambiguous)
    BY <1>1, <1>5, WindowGoes, ErrorLists
  <1> QED
    BY <1>4, <1>5 DEF Import

\* A process that takes up the end of its turn.
LEMMA SettlesAt ==
    ASSUME Alone, NEW p \in Procs, NEW s, IsAt(p, s), s \notin {"check", "publish", "mark", "remove"},
           UNCHANGED <<facts, committed, genOf, row>>, NEW v, Moves(p, v), v.cmd = None, Sober(v.todo)
    PROVE  CursorInv'
  <1>1. p \in Clients /\ "observer" \notin Clients
    BY WindowActs, TurnAssumption DEF Alone
  <1> QED
    BY <1>1, SoberPath, QuietGoes

\* The wait for the acknowledgement ends.
LEMMA AwaitAckCursor == ASSUME Alone, NEW p \in Procs, AwaitAck(p) PROVE CursorInv'
  <1>1. IsAt(p, "ack") /\ UNCHANGED <<facts, committed, genOf, row>>
    BY DEF AwaitAck, durable
  <1>2. ASSUME NEW snap, NEW v, v = [procs[p] EXCEPT !.todo = <<"observe">>, !.snap = snap],
               procs' = [procs EXCEPT ![p] = v]
        PROVE  CursorInv'
    <2>1. procs \in [Procs -> Process] /\ procs[p] \in Process
      BY DEF Alone, TurnInv
    <2>2. Moves(p, v) /\ v.cmd = None /\ v.todo = <<"observe">>
      BY <2>1, <1>1, <1>2 DEF Moves, IsAt, Process
    <2> QED
      BY <2>2, <1>1, SettlesAt, SoberLists
  <1>3. CASE GoTo(p, Rest(p)) \/ GoTo(p, Ambiguous)
    BY <1>1, <1>3, WindowGoes, ErrorLists
  <1> QED
    BY <1>2, <1>3 DEF AwaitAck

\* The wait for the end of the turn is over.
LEMMA AwaitTerminalCursor == ASSUME Alone, NEW p \in Procs, AwaitTerminal(p) PROVE CursorInv'
  <1>1. IsAt(p, "await") /\ UNCHANGED <<facts, committed, genOf, row>>
    BY DEF AwaitTerminal, durable
  <1>2. ASSUME NEW snap, NEW v, v = [procs[p] EXCEPT !.todo = <<"observe">>, !.snap = snap],
               procs' = [procs EXCEPT ![p] = v]
        PROVE  CursorInv'
    <2>1. procs \in [Procs -> Process] /\ procs[p] \in Process
      BY DEF Alone, TurnInv
    <2>2. Moves(p, v) /\ v.cmd = None /\ v.todo = <<"observe">>
      BY <2>1, <1>1, <1>2 DEF Moves, IsAt, Process
    <2> QED
      BY <2>2, <1>1, SettlesAt, SoberLists
  <1>3. CASE GoTo(p, <<>>)
    BY <1>1, <1>3, WindowGoes, ErrorLists
  <1> QED
    BY <1>2, <1>3 DEF AwaitTerminal

\* An abandoned turn ends as skipped, or by the terminal that settled it.
LEMMA SkipCursor == ASSUME Alone, NEW p \in Procs, Skip(p) PROVE CursorInv'
  <1>1. IsAt(p, "skip") /\ UNCHANGED <<facts, committed, genOf, row>>
    BY DEF Skip, durable
  <1>2. ASSUME NEW snap, NEW n, n \in {<<"remove", "observe", "clear">>, <<"remove", "settle", "clear", "remove">>},
               NEW v, v = [procs[p] EXCEPT !.snap = snap, !.todo = n], procs' = [procs EXCEPT ![p] = v]
        PROVE  CursorInv'
    <2>1. procs \in [Procs -> Process] /\ procs[p] \in Process
      BY DEF Alone, TurnInv
    <2>2. Moves(p, v) /\ v.cmd = None /\ v.todo = n
      BY <2>1, <1>1, <1>2 DEF Moves, IsAt, Process
    <2> QED
      BY <2>2, <1>1, <1>2, SettlesAt, SoberLists
  <1>3. CASE Settled(procs[p].a)
    BY <1>2, <1>3 DEF Skip
  <1>4. CASE ~ Settled(procs[p].a)
    BY <1>2, <1>4 DEF Skip
  <1> QED
    BY <1>3, <1>4

\* The delivery is accepted, and the cursor of its generation follows it.
LEMMA AcceptDeliveryCursor == ASSUME Alone, NEW p \in Procs, AcceptDelivery(p) PROVE CursorInv'
  <1> SUFFICES ASSUME NEW w, w = procs[p], NEW a, a = w.a PROVE CursorInv'
    OBVIOUS
  <1>1. IsAt(p, "accept") /\ UNCHANGED <<facts, committed, genOf, row>>
    BY DEF AcceptDelivery, durable
  <1>2. /\ w \in Process /\ w.todo # <<>> /\ Head(w.todo) = "accept" /\ w.cmd = None
        /\ Lists(w.todo, "accept") /\ row \in BindingRow /\ row # None
        /\ a \in Attempts /\ a # 0
    BY <1>1, AtFacts DEF Alone
  <1>3. p \in Clients
    BY <1>1, WindowActs DEF Alone
  <1>4. ASSUME NEW k, Issue(p, k),
               k = AppendFact("deliveryAccepted",
                     [row EXCEPT !.pending.phase = "accepted", !.accepted = a, !.native = TRUE]),
               IsPending(a)
        PROVE  CursorInv'
    <2>1. PathInv(w) /\ w.todo \in Seq(Steps)
      BY <1>2, <1>3 DEF Alone, CursorInv, Process
    <2>2. Ordered(w.todo)
      BY <2>1, <1>2 DEF PathInv, Sober, Watched
    <2>3. ~ Lists(w.todo, "check")
      <3>1. \A x : Ahead(w.todo, x, "accept") => ~ Lists(w.todo, x)
        BY <2>1, <2>2, <1>2, RestOfSend
      <3>2. ~ Lists(w.todo, "sent")
        BY <3>1, <2>2 DEF Ordered, Leads
      <3> QED
        BY <3>2, <2>2 DEF Ordered, Leads
    <2>4. row.gen = genOf[a]
      <3>1. row \in InFlight /\ For(row, a)
        BY <1>2, <1>4 DEF InFlight, For, IsPending
      <3> QED
        BY <3>1, <2>1, <2>3, <1>2 DEF PathInv, InGeneration
    <2>5. row.pending \in Pending /\ row.pending.attempt = a
      BY <1>2, <1>4 DEF BindingRow, IsPending
    <2>6. /\ k.fact = "deliveryAccepted" /\ k.row.gen = row.gen /\ k.row.committed = row.committed
          /\ k.row.accepted = a
          /\ k.row.pending # None => k.row.pending.attempt = a
      BY <2>5, <1>2, <1>4 DEF BindingRow, Pending, AppendFact
    <2>7. Follows(row, 0, None) /\ DeliveryFits(row)
      BY <1>2 DEF Alone, CursorInv, RowsInv, InFlight
    <2>8. row.pending # None /\ row.committed <= a /\ a \in Requested
      BY <2>5, <2>7, <1>4 DEF DeliveryFits, IsPending
    <2>9. Follows(k.row, a, k.fact)
      BY <2>4, <2>6, <2>7, <2>8, NoneAssumption DEF Follows, FactTypes
    <2>10. DeliveryFits(k.row)
      BY <2>6, <2>8 DEF DeliveryFits
    <2>11. Descends(k.row)
      BY <2>5, <2>6, <2>8, <1>2 DEF Descends, For
    <2> QED
      BY <2>9, <2>10, <2>11, <1>1, <1>4, ComputesRow
  <1>5. CASE GoTo(p, AfterConflict(p))
    <2>1. AfterConflict(p) \in {Ambiguous, <<>>}
      BY <1>2 DEF AfterConflict
    <2> QED
      BY <2>1, <1>1, <1>5, WindowGoes, ErrorLists
  <1> QED
    BY <1>4, <1>5 DEF AcceptDelivery

\* The row that travels with the end of a turn: the cursor of what is committed
\* follows the delivery that was accepted.
LEMMA TerminalRowFits ==
    ASSUME CursorInv, row \in BindingRow, row # None, NEW a \in Attempts, NEW s, NEW named,
           NEW r, r = TerminalRow(a, s, named)
    PROVE  Follows(r, a, "turnCommitted") /\ DeliveryFits(r) /\ Descends(r)
  <1>1. /\ r.gen = row.gen /\ r.accepted = row.accepted /\ r.pending = None
        /\ r.committed = IF IsPending(a) /\ row.pending.phase = "accepted" THEN a ELSE row.committed
    BY DEF TerminalRow, BindingRow
  <1>2. Follows(row, 0, None) /\ DeliveryFits(row)
    BY DEF CursorInv, RowsInv, InFlight
  <1>3. IsPending(a) /\ row.pending.phase = "accepted" => r.accepted = a
    BY <1>1, <1>2 DEF DeliveryFits, IsPending
  <1>4. r.committed <= r.accepted
    BY <1>1, <1>2, <1>3, NumbersFacts DEF Follows
  <1>5. Follows(r, a, "turnCommitted")
    BY <1>1, <1>2, <1>4, NoneAssumption DEF Follows, FactTypes
  <1>6. DeliveryFits(r) /\ Descends(r)
    BY <1>1 DEF DeliveryFits, Descends, For
  <1> QED
    BY <1>5, <1>6

\* A process commits the end of its turn, or goes on without.
LEMMA TerminalPlanned ==
    ASSUME Alone, NEW p \in Procs, NEW s, IsAt(p, s), s \in {"observe", "publish", "settle", "fail", "failNative"},
           UNCHANGED <<facts, committed, genOf, row>>, NEW e, NEW named, NEW m, NEW n, NEW o,
           PlanTerminal(p, e, named, m, n, o), Sober(m), Sober(n), Sober(o),
           p = "observer" => /\ \A x : Lists(m, x) => x \in {"publish", "mark", "remove"}
                             /\ \A x : Lists(n, x) => x \in {"publish", "mark", "remove"}
                             /\ \A x : Lists(o, x) => x \in {"publish", "mark", "remove"}
    PROVE  CursorInv'
  <1>1. row \in BindingRow /\ row # None /\ procs[p].a \in Attempts
    BY AtFacts DEF Alone
  <1>2. ASSUME NEW k, k = AppendTerminal(e, TerminalRow(procs[p].a, e, named)), Issue(p, k) PROVE CursorInv'
    <2>1. k.fact = "turnCommitted" /\ k.row = TerminalRow(procs[p].a, e, named)
      BY <1>2 DEF AppendTerminal
    <2> QED
      BY <2>1, <1>1, <1>2, TerminalRowFits, ComputesRow DEF Alone
  <1>3. ASSUME NEW l \in {m, n, o}, GoTo(p, l) PROVE CursorInv'
    BY <1>3, WentOn
  <1> QED
    BY <1>2, <1>3 DEF PlanTerminal

\* What a process finds behind a step of the end of a turn.
LEMMA BehindEnd ==
    ASSUME Alone, NEW p \in Procs, NEW s, IsAt(p, s),
           s \in {"observe", "publish", "settle", "fail", "failNative", "mark", "remove", "clear", "rebuild"}
    PROVE  /\ procs[p].todo \in Seq(Steps) /\ Rest(p) \in Seq(Steps) /\ Sober(Rest(p))
           /\ p = "observer" => \A x : Lists(Rest(p), x) => x \in {"publish", "mark", "remove"}
  <1> SUFFICES ASSUME NEW w, w = procs[p], NEW r, r = Rest(p)
               PROVE  /\ w.todo \in Seq(Steps) /\ r \in Seq(Steps) /\ Sober(r)
                      /\ p = "observer" => \A x : Lists(r, x) => x \in {"publish", "mark", "remove"}
    OBVIOUS
  <1>1. /\ w \in Process /\ w.todo \in Seq(Steps) /\ w.todo # <<>> /\ Head(w.todo) = s
        /\ r = Tail(w.todo)
    BY AtFacts DEF Alone, Process
  <1>2. r \in Seq(Steps) /\ \A x : Lists(r, x) => Lists(w.todo, x)
    BY <1>1, RestFacts
  <1>3. p = "observer" => \A x : Lists(w.todo, x) => x \in {"publish", "mark", "remove"}
    BY DEF Alone, CursorInv
  <1>4. CASE p = "observer"
    BY <1>1, <1>2, <1>3, <1>4 DEF Sober, Watched
  <1>5. CASE p \in Clients
    <2>1. PathInv(w)
      BY <1>5 DEF Alone, CursorInv
    <2>2. s \notin Sending \cup {"acceptTurn", "await"}
      BY DEF Sending
    <2>3. Sober(w.todo)
      BY <2>1, <2>2, <1>1, SoberHead
    <2>4. "observer" \notin Clients
      BY TurnAssumption
    <2> QED
      BY <2>3, <2>4, <1>1, <1>2, <1>5 DEF Sober
  <1> QED
    BY <1>4, <1>5 DEF Procs

\* A flag and a removal ahead of such a rest.
LEMMA SoberJoin ==
    ASSUME NEW n \in Seq(Steps), NEW r \in Seq(Steps), \A s : Lists(n, s) => s \in {"publish", "mark", "remove"},
           Sober(r)
    PROVE  /\ Sober(n) /\ Sober(n \o r)
           /\ (\A x : Lists(r, x) => x \in {"publish", "mark", "remove"}) =>
                 \A x : Lists(n \o r, x) => x \in {"publish", "mark", "remove"}
  <1> SUFFICES ASSUME NEW t, t = n \o r
               PROVE  /\ Sober(n) /\ Sober(t)
                      /\ (\A x : Lists(r, x) => x \in {"publish", "mark", "remove"}) =>
                            \A x : Lists(t, x) => x \in {"publish", "mark", "remove"}
    OBVIOUS
  <1>1. \A s : Lists(t, s) <=> Lists(n, s) \/ Lists(r, s)
    BY JoinAfter DEF After
  <1> QED
    BY <1>1 DEF Sober, Watched

\* The end of a turn is published.
LEMMA ObserveCursor == ASSUME Alone, NEW p \in Procs, Observe(p) PROVE CursorInv'
  <1>1. UNCHANGED <<facts, committed, genOf, row>>
    BY DEF Observe, durable
  <1>2. /\ <<"mark">> \in Seq(Steps) /\ <<"remove">> \in Seq(Steps) /\ AfterCommit(p) \in Seq(Steps)
        /\ \A s : Lists(<<"mark">>, s) => s \in {"publish", "mark", "remove"}
        /\ \A s : Lists(<<"remove">>, s) => s \in {"publish", "mark", "remove"}
        /\ \A s : Lists(AfterCommit(p), s) => s \in {"publish", "mark", "remove"}
    BY ListsOf, AfterCommitLists DEF Steps
  <1> SUFFICES ASSUME NEW r, r = Rest(p), NEW n, n = AfterCommit(p), NEW e, e = procs[p].snap,
                      NEW x, x = <<"mark">>, NEW y, y = <<"remove">>
               PROVE  CursorInv'
    OBVIOUS
  <1>3. CASE IsAt(p, "observe") /\ PlanTerminal(p, e, TRUE, y, x, n \o r)
    <2>1. r \in Seq(Steps) /\ Sober(r)
      BY <1>3, BehindEnd
    <2>2. Sober(y) /\ Sober(x) /\ Sober(n \o r)
      BY <2>1, <1>2, SoberJoin
    <2>3. p \in Clients /\ "observer" \notin Clients
      BY <1>3, WindowActs, TurnAssumption DEF Alone
    <2> QED
      BY <2>2, <2>3, <1>1, <1>3, TerminalPlanned
  <1>4. CASE IsAt(p, "publish") /\ PlanTerminal(p, e, TRUE, y \o r, x \o r, n \o r)
    <2>1. /\ r \in Seq(Steps) /\ Sober(r)
          /\ p = "observer" => \A s : Lists(r, s) => s \in {"publish", "mark", "remove"}
      BY <1>4, BehindEnd
    <2>2. /\ Sober(y \o r) /\ Sober(x \o r) /\ Sober(n \o r)
          /\ p = "observer" => /\ \A s : Lists(y \o r, s) => s \in {"publish", "mark", "remove"}
                               /\ \A s : Lists(x \o r, s) => s \in {"publish", "mark", "remove"}
                               /\ \A s : Lists(n \o r, s) => s \in {"publish", "mark", "remove"}
      BY <2>1, <1>2, SoberJoin
    <2> SUFFICES ASSUME NEW l, l = y \o r, NEW m, m = x \o r, NEW o, o = n \o r PROVE CursorInv'
      OBVIOUS
    <2>3. PlanTerminal(p, e, TRUE, l, m, o) /\ Sober(l) /\ Sober(m) /\ Sober(o)
      BY <2>2, <1>4
    <2>4. p = "observer" => /\ \A s : Lists(l, s) => s \in {"publish", "mark", "remove"}
                            /\ \A s : Lists(m, s) => s \in {"publish", "mark", "remove"}
                            /\ \A s : Lists(o, s) => s \in {"publish", "mark", "remove"}
      BY <2>2
    <2> QED
      BY <2>3, <2>4, <1>1, <1>4, TerminalPlanned
  <1> QED
    BY <1>3, <1>4 DEF Observe

\* The backend ends the turn with a snapshot of its own.
LEMMA SettleCursor == ASSUME Alone, NEW p \in Procs, Settle(p) PROVE CursorInv'
  <1>1. IsAt(p, "settle") /\ UNCHANGED <<facts, committed, genOf, row>>
    BY DEF Settle, durable
  <1>2. Sober(Rest(p)) /\ Sober(<<>>)
    BY <1>1, BehindEnd, ErrorLists
  <1>3. p \in Clients /\ "observer" \notin Clients
    BY <1>1, WindowActs, TurnAssumption DEF Alone
  <1> QED
    BY <1>1, <1>2, <1>3, TerminalPlanned DEF Settle

\* A turn whose dispatch has failed ends as rejected, or has ended before.
LEMMA FailTurnCursor == ASSUME Alone, NEW p \in Procs, FailTurn(p) PROVE CursorInv'
  <1>1. PICK s : s \in {"fail", "failNative"} /\ IsAt(p, s)
    BY DEF FailTurn
  <1>2. UNCHANGED <<facts, committed, genOf, row>>
    BY DEF FailTurn, durable
  <1>3. Sober(Rest(p))
    BY <1>1, BehindEnd
  <1>4. p \in Clients /\ "observer" \notin Clients
    BY <1>1, WindowActs, TurnAssumption DEF Alone
  <1>5. CASE GoTo(p, Rest(p))
    BY <1>1, <1>2, <1>5, WindowGoes
  <1>6. ASSUME NEW named, PlanTerminal(p, "rejected", named, Rest(p), Rest(p), Rest(p)) PROVE CursorInv'
    BY <1>1, <1>2, <1>3, <1>4, <1>6, TerminalPlanned
  <1> QED
    BY <1>5, <1>6 DEF FailTurn

\* The recovery flag is put on the binding, whatever row there is.
LEMMA MarkRecoveryCursor == ASSUME Alone, NEW p \in Procs, MarkRecovery(p) PROVE CursorInv'
  <1>1. IsAt(p, "mark") /\ UNCHANGED <<durable, owner, world>>
    BY DEF MarkRecovery
  <1>2. row \in BindingRow
    BY <1>1, AtFacts DEF Alone
  <1>3. PICK k : /\ k = Upsert([row EXCEPT !.state = "recovery-required", !.trusted = FALSE])
                 /\ Issue(p, k)
    BY DEF MarkRecovery
  <1>4. Resembles(k.row)
    BY <1>2, <1>3 DEF Resembles, BindingRow, Upsert
  <1> QED
    BY <1>1, <1>3, <1>4, ComputesKept

\* The coordinator forgets the turn of the process.
LEMMA RemoveAttemptCursor == ASSUME Alone, NEW p \in Procs, RemoveAttempt(p) PROVE CursorInv'
  <1>1. IsAt(p, "remove") /\ GoTo(p, Rest(p)) /\ UNCHANGED <<facts, committed, genOf, row>>
    BY DEF RemoveAttempt, durable
  <1>2. p = "observer" => \A x : Lists(Rest(p), x) => x \in {"publish", "mark", "remove"}
    BY <1>1, BehindEnd
  <1> QED
    BY <1>1, <1>2, WentOn

\* The binding is rebuilt: the new row has neither a delivery nor a cursor.
LEMMA FreshRowFits ==
    \A gen, a, f : /\ Follows(FreshRow(gen), a, f) /\ DeliveryFits(FreshRow(gen))
                   /\ Descends(FreshRow(gen))
  BY DEF FreshRow, Follows, DeliveryFits, Descends, For

\* The binding is rebuilt, with the end of the open turn if there is one.
LEMMA RebuildCursor == ASSUME Alone, NEW p \in Procs, Rebuild(p) PROVE CursorInv'
  <1> SUFFICES ASSUME NEW w, w = procs[p], NEW new, new = FreshRow(gens + 1) PROVE CursorInv'
    OBVIOUS
  <1>1. IsAt(p, "rebuild") /\ UNCHANGED <<facts, committed, genOf, row>>
    BY DEF Rebuild
  <1>2. p \in Clients /\ "observer" \notin Clients
    BY <1>1, WindowActs, TurnAssumption DEF Alone
  <1>3. CASE GoTo(p, <<>>)
    BY <1>1, <1>3, WindowGoes, ErrorLists
  <1>4. CASE Issue(p, Upsert(new))
    <2>1. Upsert(new).row = new
      BY DEF Upsert
    <2> QED
      BY <2>1, <1>1, <1>4, FreshRowFits, ComputesRow
  <1>5. ASSUME NEW a, NEW k, k = AppendTerminal("replaced", new), NEW v, v = [procs[p] EXCEPT !.a = a, !.cmd = k],
               procs' = [procs EXCEPT ![p] = v]
        PROVE  CursorInv'
    <2>1. procs \in [Procs -> Process] /\ w \in Process /\ w.todo \in Seq(Steps) /\ w.todo # <<>>
          /\ Head(w.todo) = "rebuild"
      BY <1>1, AtFacts DEF Alone, TurnInv, Process
    <2>2. Moves(p, v) /\ v.cmd = k /\ v.todo = w.todo /\ v.a = a /\ k.row = new
      BY <2>1, <1>5 DEF Moves, Process, AppendTerminal
    <2>3. Sober(v.todo)
      BY <2>1, <2>2, <1>2, SoberHead DEF Alone, CursorInv, Sending
    <2>4. PathInv(v)'
      BY <2>3, SoberPath
    <2>5. Follows(k.row, v.a, k.fact) /\ DeliveryFits(k.row) /\ Descends(k.row)
      BY <2>2, FreshRowFits
    <2> QED
      BY <2>2, <2>4, <2>5, <1>1, <1>2, QuietGoes
  <1>6. ASSUME NEW a, procs' = [procs EXCEPT ![p].a = a, ![p].cmd = AppendTerminal("replaced", new)]
        PROVE  CursorInv'
    <2>1. procs \in [Procs -> Process]
      BY DEF Alone, TurnInv
    <2>2. procs' = [procs EXCEPT ![p] = [procs[p] EXCEPT !.a = a, !.cmd = AppendTerminal("replaced", new)]]
      BY <2>1, <1>6 DEF Process
    <2> QED
      BY <2>2, <1>5
  <1> QED
    BY <1>3, <1>4, <1>6 DEF Rebuild

\* The barrier is lifted, and a terminal that is queued is taken up.
LEMMA DrainCursor == ASSUME Alone, NEW p \in Procs, Drain(p) PROVE CursorInv'
  <1> SUFFICES ASSUME NEW w, w = procs[p] PROVE CursorInv'
    OBVIOUS
  <1>1. IsAt(p, "drain") /\ UNCHANGED <<facts, committed, genOf, row>>
    BY DEF Drain, durable
  <1>2. p \in Clients /\ "observer" \notin Clients
    BY <1>1, WindowActs, TurnAssumption DEF Alone
  <1>3. /\ w \in Process /\ w.todo \in Seq(Steps) /\ w.todo # <<>> /\ Head(w.todo) = "drain" /\ w.cmd = None
    BY <1>1, AtFacts DEF Alone, Process
  <1>4. Sober(w.todo)
    BY <1>2, <1>3, SoberHead DEF Alone, CursorInv, Sending
  <1>5. Sober(<<"publish">> \o w.todo)
    <2>1. <<"publish">> \in Seq(Steps) /\ \A s : Lists(<<"publish">>, s) => s \in {"publish", "mark", "remove"}
      BY ListsOf DEF Steps
    <2> QED
      BY <2>1, <1>3, <1>4, SoberJoin
  <1>6. ASSUME NEW snap, NEW n, n = w.todo \/ n = <<"publish">> \o w.todo,
               NEW v, v = [procs[p] EXCEPT !.snap = snap, !.todo = n], procs' = [procs EXCEPT ![p] = v]
        PROVE  CursorInv'
    <2>1. procs \in [Procs -> Process]
      BY DEF Alone, TurnInv
    <2>2. Moves(p, v) /\ v.cmd = None /\ v.todo = n
      BY <2>1, <1>3, <1>6 DEF Moves, Process
    <2>3. Sober(v.todo)
      BY <2>2, <1>4, <1>5, <1>6
    <2> QED
      BY <2>2, <2>3, <1>1, SettlesAt
  <1>7. CASE GoTo(p, Rest(p))
    BY <1>1, <1>7, WindowGoes
  <1>8. CASE Settled(w.a)
    BY <1>6, <1>7, <1>8 DEF Drain
  <1>9. CASE ~ Settled(w.a)
    BY <1>6, <1>7, <1>9 DEF Drain
  <1> QED
    BY <1>8, <1>9

-----------------------------------------------------------------------------
(***************************************************************************)
(* The writer.                                                             *)
(***************************************************************************)
\* The log grows: what follows it goes on doing so.
LEMMA LogMoves ==
    ASSUME TurnInv, facts \subseteq facts', \A b : committed[b] # None => committed'[b] # None,
           \A b \in Requested : genOf'[b] = genOf[b]
    PROVE  \A r, f : \A a \in Requested \cup {0} : Follows(r, a, f) => Follows(r, a, f)'
  <1> SUFFICES ASSUME NEW r, NEW f, NEW a \in Requested \cup {0}, Follows(r, a, f) PROVE Follows(r, a, f)'
    OBVIOUS
  <1>1. ASSUME r.accepted # 0
        PROVE  /\ genOf'[r.accepted] = r.gen
               /\ Has("deliveryAccepted", r.accepted)' \/ (f = "deliveryAccepted" /\ r.accepted = a)
    <2>1. /\ genOf[r.accepted] = r.gen
          /\ Has("deliveryAccepted", r.accepted) \/ (f = "deliveryAccepted" /\ r.accepted = a)
      BY <1>1 DEF Follows
    <2>2. Has("deliveryAccepted", r.accepted) => r.accepted \in Requested /\ Has("deliveryAccepted", r.accepted)'
      <3>1. \A x \in facts : x[2] \in Requested
        BY DEF TurnInv, LogInv
      <3> QED
        BY <3>1 DEF Has
    <2>3. r.accepted \in Requested
      BY <2>1, <2>2, <1>1
    <2> QED
      BY <2>1, <2>2, <2>3
  <1> QED
    BY <1>1 DEF Follows

\* The row of a command is written, or no row is.
LEMMA RowsKept ==
    ASSUME Alone, NEW p \in Procs, NEW k, k = procs[p].cmd, k # None, NEW v, Moves(p, v), v.cmd = None,
           row' = row \/ (row' = k.row /\ Follows(k.row, 0, None)'),
           Requested \subseteq Requested', facts \subseteq facts',
           \A b : committed[b] # None => committed'[b] # None,
           \A b \in Requested : genOf'[b] = genOf[b]
    PROVE  RowsInv' /\ \A r \in InFlight' : r \in InFlight
  <1>1. \A r \in InFlight' : r \in InFlight
    BY FlightMoves DEF Alone
  <1>2. \A r, f : \A a \in Requested \cup {0} : Follows(r, a, f) => Follows(r, a, f)'
    BY LogMoves DEF Alone
  <1>3. row' # None => Follows(row, 0, None)'
    <2>1. CASE row' = row
      <3> SUFFICES ASSUME NEW r, r = row', r # None PROVE Follows(r, 0, None)'
        BY DEF Follows, Has
      <3>1. Follows(r, 0, None)
        BY <2>1 DEF Alone, CursorInv, RowsInv
      <3> QED
        BY <3>1, <1>2
    <2>2. CASE row' = k.row /\ Follows(k.row, 0, None)'
      <3>1. ASSUME NEW r, r = k.row, Follows(r, 0, None)', row' = r PROVE Follows(row, 0, None)'
        BY <3>1 DEF Follows, Has
      <3>2. ASSUME NEW r, r = k.row, row' = r PROVE Follows(r, 0, None)'
        BY <3>2, <2>2 DEF Follows, Has
      <3> QED
        BY <3>1, <3>2, <2>2
    <2> QED
      BY <2>1, <2>2
  <1>4. ASSUME NEW q \in Procs, procs'[q].cmd # None
        PROVE  Follows(procs[q].cmd.row, procs[q].a, procs[q].cmd.fact)'
    <2>1. q # p /\ procs'[q] = procs[q]
      BY <1>4 DEF Moves
    <2>2. PICK w : w = procs[q]
      OBVIOUS
    <2>3. Follows(w.cmd.row, w.a, w.cmd.fact) /\ w.a \in Requested \cup {0}
      BY <1>4, <2>1, <2>2 DEF Alone, CursorInv, RowsInv, TurnInv, Fits
    <2>4. Follows(w.cmd.row, w.a, w.cmd.fact)'
      BY <2>3, <1>2
    <2> QED
      BY <2>1, <2>2, <2>4 DEF Follows, Has
  <1>5. \A r \in InFlight' : r # None => DeliveryFits(r)'
    <2>1. \A r : DeliveryFits(r) => DeliveryFits(r)'
      BY DEF DeliveryFits
    <2> QED
      BY <2>1, <1>1 DEF Alone, CursorInv, RowsInv
  <1>6. \A a : \A r, s \in InFlight' : For(r, a)' /\ For(s, a)' => r.gen = s.gen
    <2>1. \A r, a : For(r, a)' <=> For(r, a)
      BY DEF For
    <2> QED
      BY <2>1, <1>1 DEF Alone, CursorInv, RowsInv
  <1> QED
    BY <1>1, <1>3, <1>4, <1>5, <1>6 DEF RowsInv

\* A process goes on behind its command.
LEMMA CommandGoes ==
    ASSUME Alone, NEW p \in Procs, NEW k, k = procs[p].cmd, k # None, k.fact # "turnRequested",
           NEW n, GoTo(p, n), n = Rest(p) \/ Sober(n),
           p = "observer" => \A s : Lists(n, s) => s \in {"publish", "mark", "remove"},
           row' = row \/ (row' = k.row /\ Follows(k.row, 0, None)'),
           Requested' = Requested, genOf' = genOf, facts \subseteq facts',
           \A b : committed[b] # None => committed'[b] # None,
           \A b \in Attempts \ Requested : committed'[b] = None
    PROVE  CursorInv'
  <1> SUFFICES ASSUME NEW w, w = procs[p] PROVE CursorInv'
    OBVIOUS
  <1>1. /\ w \in Process /\ w.todo \in Seq(Steps) /\ w.todo # <<>> /\ k.fact \in RecordedBy(Head(w.todo))
        /\ Rest(p) = Tail(w.todo)
    BY SentFacts DEF Alone, Process
  <1>2. Head(w.todo) # "check"
    BY <1>1 DEF RecordedBy
  <1>3. PICK v : Moves(p, v) /\ v.todo = n /\ v.cmd = None /\ (n # <<>> => v.a = w.a)
    BY WentTo DEF Alone
  <1>4. RowsInv' /\ \A r \in InFlight' : r \in InFlight
    BY <1>3, RowsKept
  <1>5. ASSUME p \in Clients PROVE PathInv(v)'
    <2>1. CASE Sober(n)
      BY <2>1, <1>3, SoberPath
    <2>2. CASE n = <<>>
      <3>1. Sober(n)
        BY <2>2, EmptyList DEF Sober
      <3> QED
        BY <3>1, <2>1
    <2>3. CASE n = Rest(p) /\ n # <<>>
      <3>1. PathInv(w) /\ ~ IsBeginning(w)
        BY <1>5 DEF Alone, CursorInv, IsBeginning
      <3>2. v.todo = w.todo => Head(w.todo) # "prepare"
        <4>1. Len(Tail(w.todo)) # Len(w.todo)
          BY <1>1
        <4> QED
          BY <4>1, <1>1, <1>3, <2>3
      <3> QED
        BY <3>1, <3>2, <1>1, <1>2, <1>3, <1>4, <2>3, PathGoes
    <2> QED
      BY <2>1, <2>2, <2>3
  <1>6. ASSUME NEW c \in Clients PROVE PathInv(procs[c])'
    <2>1. c \in Procs
      BY DEF Procs
    <2>2. CASE c = p
      BY <2>1, <2>2, <1>3, <1>5 DEF Moves
    <2>3. CASE c # p
      <3>1. procs'[c] = procs[c] /\ PathInv(procs[c])
        BY <2>1, <2>3, <1>3 DEF Moves, Alone, CursorInv
      <3>2. \A a : (InGeneration(a) => InGeneration(a)') /\ (NotPrepared(a) => NotPrepared(a)')
        BY <1>4 DEF InGeneration, NotPrepared, For
      <3> SUFFICES ASSUME NEW x, x = procs[c] PROVE PathInv(x)'
        BY <3>1
      <3> QED
        BY <3>1, <3>2 DEF PathInv
    <2> QED
      BY <2>2, <2>3
  <1>7. \A s : Lists(procs'["observer"].todo, s) => s \in {"publish", "mark", "remove"}
    <2>1. "observer" \in Procs
      BY DEF Procs
    <2> QED
      BY <2>1, <1>3 DEF Moves, Alone, CursorInv
  <1>8. Requested' = 1 .. Cardinality(Requested)' /\ \A a \in Attempts \ Requested' : committed'[a] = None
    BY DEF Alone, CursorInv
  <1> QED
    BY <1>4, <1>6, <1>7, <1>8 DEF CursorInv

\* What a process finds behind a command of the end of a turn.
LEMMA BehindCommand ==
    ASSUME Alone, NEW p \in Procs, NEW k, k = procs[p].cmd, k # None, k.fact # "turnRequested",
           Head(procs[p].todo) \notin Sending \cup {"acceptTurn"}
    PROVE  /\ Rest(p) \in Seq(Steps) /\ Sober(Rest(p))
           /\ p = "observer" => \A s : Lists(Rest(p), s) => s \in {"publish", "mark", "remove"}
  <1> SUFFICES ASSUME NEW w, w = procs[p], NEW r, r = Rest(p)
               PROVE  /\ r \in Seq(Steps) /\ Sober(r)
                      /\ p = "observer" => \A s : Lists(r, s) => s \in {"publish", "mark", "remove"}
    OBVIOUS
  <1>1. /\ w \in Process /\ w.todo \in Seq(Steps) /\ w.todo # <<>> /\ k.fact \in RecordedBy(Head(w.todo))
        /\ r = Tail(w.todo)
    BY SentFacts DEF Alone, Process
  <1>2. r \in Seq(Steps) /\ \A s : Lists(r, s) => Lists(w.todo, s)
    BY <1>1, RestFacts
  <1>3. CASE p = "observer"
    <2>1. \A s : Lists(w.todo, s) => s \in {"publish", "mark", "remove"}
      BY <1>3 DEF Alone, CursorInv
    <2> QED
      BY <2>1, <1>2 DEF Sober, Watched
  <1>4. CASE p \in Clients
    <2>1. PathInv(w)
      BY <1>4 DEF Alone, CursorInv
    <2>2. Head(w.todo) # "await"
      BY <1>1 DEF RecordedBy
    <2>3. Sober(w.todo)
      BY <2>1, <2>2, <1>1, SoberHead
    <2>4. "observer" \notin Clients
      BY TurnAssumption
    <2> QED
      BY <2>3, <2>4, <1>2, <1>4 DEF Sober
  <1> QED
    BY <1>3, <1>4 DEF Procs

\* What follows a command: the rest of the list, or what is behind the end of
\* a turn or an error.
LEMMA AfterCommand ==
    ASSUME Alone, NEW p \in Procs, NEW k, k = procs[p].cmd, k # None, k.fact # "turnRequested",
           NEW n, n = AfterSuccess(p) \/ n = AfterConflict(p)
    PROVE  /\ n = Rest(p) \/ Sober(n)
           /\ p = "observer" => \A s : Lists(n, s) => s \in {"publish", "mark", "remove"}
  <1> SUFFICES ASSUME NEW w, w = procs[p], NEW h, h = Head(w.todo), NEW r, r = Rest(p), NEW c, c = AfterCommit(p),
                      NEW m, m = <<"mark">>
               PROVE  /\ n = r \/ Sober(n)
                      /\ p = "observer" => \A s : Lists(n, s) => s \in {"publish", "mark", "remove"}
    OBVIOUS
  <1>1. /\ w.todo \in Seq(Steps) /\ w.todo # <<>> /\ k.fact \in RecordedBy(h) /\ Lists(w.todo, h)
        /\ r = Tail(w.todo)
    BY SentFacts, RestFacts DEF Alone, Process
  <1>2. p = "observer" => h \in {"publish", "mark", "remove"}
    BY <1>1 DEF Alone, CursorInv
  <1>3. /\ c \in Seq(Steps) /\ m \in Seq(Steps)
        /\ \A s : Lists(c, s) => s \in {"publish", "mark", "remove"}
        /\ \A s : Lists(m, s) => s \in {"publish", "mark", "remove"}
    BY ListsOf, AfterCommitLists DEF Steps
  <1>4. \/ n = r
        \/ (n = c \o r \/ n = m \o r) /\ h \in {"observe", "publish"}
        \/ n = m \/ n = <<"remove">> \/ n = <<>>
        \/ n = <<"fail">> /\ h = "prepare"
    <2>1. CASE n = AfterSuccess(p)
      BY <2>1 DEF AfterSuccess
    <2>2. CASE n = AfterConflict(p)
      BY <2>2 DEF AfterConflict, Ambiguous
    <2> QED
      BY <2>1, <2>2
  <1>5. CASE n = r
    <2>1. p = "observer" => \A s : Lists(w.todo, s) => s \in {"publish", "mark", "remove"}
      BY DEF Alone, CursorInv
    <2>2. \A s : Lists(r, s) => Lists(w.todo, s)
      BY <1>1, RestFacts
    <2> QED
      BY <2>1, <2>2, <1>5
  <1>6. CASE (n = c \o r \/ n = m \o r) /\ h \in {"observe", "publish"}
    <2>1. h \notin Sending \cup {"acceptTurn"}
      BY <1>6 DEF Sending
    <2>2. /\ r \in Seq(Steps) /\ Sober(r)
          /\ p = "observer" => \A s : Lists(r, s) => s \in {"publish", "mark", "remove"}
      BY <2>1, BehindCommand
    <2> QED
      BY <2>2, <1>3, <1>6, SoberJoin
  <1>7. CASE n = m \/ n = <<"remove">> \/ n = <<>>
    <2>1. \A s : Lists(n, s) => s \in {"mark", "remove"}
      BY <1>7, ListsOf, EmptyList
    <2> QED
      BY <2>1 DEF Sober, Watched
  <1>8. CASE n = <<"fail">> /\ h = "prepare"
    BY <1>2, <1>8, SoberLists DEF PlainLists
  <1> QED
    BY <1>4, <1>5, <1>6, <1>7, <1>8

\* A turn is recorded: nothing that is under way knows it yet.
LEMMA BeginsCursor ==
    ASSUME Alone, NEW p \in Procs, NEW k, k = procs[p].cmd, k # None,
           k.fact = "turnRequested", NEW n \in Attempts, n = Cardinality(Requested) + 1,
           row' = k.row, facts' = facts \cup {<<"turnRequested", n>>},
           genOf' = [genOf EXCEPT ![n] = k.row.gen],
           procs' = [procs EXCEPT ![p] = [procs[p] EXCEPT !.a = n, !.todo = Rest(p), !.cmd = None]],
           UNCHANGED committed
    PROVE  CursorInv'
  <1> SUFFICES ASSUME NEW w, w = procs[p] PROVE CursorInv'
    OBVIOUS
  <1>1. /\ w \in Process /\ w.todo = Send /\ w.a = 0 /\ Rest(p) = Tail(w.todo)
        /\ w.todo \in Seq(Steps) /\ w.todo # <<>> /\ Head(w.todo) = "begin"
    BY SentFacts, SendOrder DEF Alone
  <1>2. Ordered(w.todo) /\ Lists(w.todo, "check") /\ Lists(w.todo, "begin")
    BY <1>1, SendOrder, RestFacts
  <1>3. p \in Clients /\ "observer" \notin Clients
    BY <1>1, <1>2, TurnAssumption DEF Alone, CursorInv, Procs
  <1>4. PICK v : Moves(p, v) /\ v.todo = Tail(w.todo) /\ v.a = n /\ v.cmd = None
    <2> DEFINE m == [w EXCEPT !.a = n, !.todo = Tail(w.todo), !.cmd = None]
    <2>1. m.todo = Tail(w.todo) /\ m.a = n /\ m.cmd = None
      BY <1>1 DEF Process
    <2>2. Moves(p, m)
      BY <1>1 DEF Moves, Alone, TurnInv
    <2> QED
      BY <2>1, <2>2
  <1>5. /\ IsFiniteSet(Requested) /\ Cardinality(Requested) \in Nat
        /\ Requested = 1 .. Cardinality(Requested) /\ n \notin Requested
    <2>1. IsFiniteSet(Requested)
      BY TurnAssumption, FS_Subset DEF Requested
    <2>2. Cardinality(Requested) \in Nat
      BY <2>1, FS_CardinalityType
    <2>3. Requested = 1 .. Cardinality(Requested)
      BY DEF Alone, CursorInv
    <2> QED
      BY <2>1, <2>2, <2>3
  <1>6. Requested' = Requested \cup {n}
    BY DEF Requested, Has
  <1>7. Cardinality(Requested') = n
    BY <1>5, <1>6, FS_AddElement
  <1>8. Requested' = 1 .. Cardinality(Requested)' /\ \A a \in Attempts \ Requested' : committed'[a] = None
    BY <1>5, <1>6, <1>7 DEF Alone, CursorInv
  <1>9. \A b \in Requested : genOf'[b] = genOf[b]
    BY <1>5 DEF Alone, TurnInv, LogInv
  <1>10. Follows(k.row, 0, None)'
    <2>1. PICK r : r = k.row
      OBVIOUS
    <2>2. Follows(r, 0, "turnRequested")
      BY <2>1, <1>1 DEF Alone, CursorInv, RowsInv
    <2>3. Follows(r, 0, "turnRequested")'
      BY <2>2, <1>9, LogMoves DEF Alone
    <2> QED
      BY <2>1, <2>3 DEF Follows, Has
  <1>11. RowsInv' /\ \A r \in InFlight' : r \in InFlight
    BY <1>4, <1>6, <1>9, <1>10, RowsKept
  <1>12. NotPrepared(n)'
    <2>1. \A r \in InFlight : ~ For(r, n)
      BY <1>5 DEF Alone, CursorInv, RowsInv, DeliveryFits, For
    <2> QED
      BY <2>1, <1>11 DEF NotPrepared, For
  <1>13. PathInv(v)'
    <2>1. Ordered(v.todo) /\ Lists(v.todo, "check")
      BY <1>1, <1>2, <1>4, RestOfSend
    <2>2. \A b \in Requested' : b <= v.a
      BY <1>4, <1>5, <1>6
    <2> QED
      BY <2>1, <2>2, <1>4, <1>12 DEF PathInv
  <1>14. ASSUME NEW c \in Clients PROVE PathInv(procs[c])'
    <2>1. c = p
      BY <1>3 DEF Alone, OneClient
    <2> QED
      BY <2>1, <1>4, <1>13 DEF Moves
  <1>15. \A s : Lists(procs'["observer"].todo, s) => s \in {"publish", "mark", "remove"}
    <2>1. "observer" \in Procs /\ p # "observer"
      BY <1>3 DEF Procs
    <2> QED
      BY <2>1, <1>4 DEF Moves, Alone, CursorInv
  <1> QED
    BY <1>8, <1>11, <1>14, <1>15 DEF CursorInv

\* The writer executes a command.
LEMMA ExecuteCursor == ASSUME Alone, NEW p \in Procs, Execute(p) PROVE CursorInv'
  <1> SUFFICES ASSUME NEW w, w = procs[p], NEW k, k = w.cmd, NEW a, a = w.a PROVE CursorInv'
    OBVIOUS
  <1>1. k # None
    BY DEF Execute
  <1>2. /\ Computed(w)
        /\ k.fact \notin {None, "turnRequested"} => a \in Attempts /\ a # 0 /\ a \in Requested
    BY <1>1, SentFacts DEF Alone
  <1>3. Follows(k.row, a, k.fact) /\ a \in Requested \cup {0}
    BY <1>1 DEF Alone, CursorInv, RowsInv, TurnInv, Fits
  <1>4. None \notin FactTypes /\ None # "turnCommitted" /\ "turnRequested" \in FactTypes
        /\ "turnCommitted" \notin FactTypes
    BY NoneAssumption DEF FactTypes
  <1>5. ASSUME NEW n, n = AfterSuccess(p) \/ n = AfterConflict(p), GoTo(p, n), k.fact # "turnRequested",
               row' = row \/ (row' = k.row /\ Follows(k.row, 0, None)'),
               Requested' = Requested, genOf' = genOf, facts \subseteq facts',
               \A b : committed[b] # None => committed'[b] # None,
               \A b \in Attempts \ Requested : committed'[b] = None
        PROVE  CursorInv'
    <2>1. /\ n = Rest(p) \/ Sober(n)
          /\ p = "observer" => \A s : Lists(n, s) => s \in {"publish", "mark", "remove"}
      BY <1>1, <1>5, AfterCommand
    <2> QED
      BY <2>1, <1>1, <1>5, CommandGoes
  <1>6. \A b \in Attempts \ Requested : committed[b] = None
    BY DEF Alone, CursorInv
  <1>7. CASE /\ k.fact = None /\ row' = k.row /\ GoTo(p, AfterSuccess(p))
             /\ UNCHANGED <<facts, committed, genOf>>
    <2>1. Requested' = Requested
      BY <1>7 DEF Requested, Has
    <2>2. Follows(k.row, 0, None)'
      BY <1>3, <1>4, <1>7 DEF Follows, Has, FactTypes
    <2> QED
      BY <2>1, <2>2, <1>4, <1>5, <1>6, <1>7
  <1>8. CASE /\ k.fact = "turnRequested" /\ Unresolved # {} /\ GoTo(p, <<>>)
             /\ UNCHANGED <<row, facts, committed, genOf>>
    <2>1. PICK v : Moves(p, v) /\ v.todo = <<>> /\ v.cmd = None
      BY <1>8, WentTo DEF Alone
    <2>2. \A s : ~ Lists(v.todo, s)
      BY <2>1, EmptyList
    <2>3. PathInv(v)'
      BY <2>2, SoberPath DEF Sober
    <2> QED
      BY <2>1, <2>2, <2>3, <1>8, QuietGoes
  <1>9. ASSUME NEW n, n = Cardinality(Requested) + 1, n \in Attempts,
               k.fact = "turnRequested",
               row' = k.row, facts' = facts \cup {<<"turnRequested", n>>},
               genOf' = [genOf EXCEPT ![n] = k.row.gen],
               procs' = [procs EXCEPT ![p] = [procs[p] EXCEPT !.a = n, !.todo = Rest(p), !.cmd = None]],
               UNCHANGED committed
        PROVE  CursorInv'
    BY <1>1, <1>9, BeginsCursor
  <1>10. CASE /\ k.fact \in FactTypes \ {"turnRequested"} /\ row' = k.row
              /\ facts' = facts \cup {<<k.fact, a>>} /\ GoTo(p, AfterSuccess(p))
              /\ UNCHANGED <<committed, genOf>>
    <2>1. Requested' = Requested
      BY <1>10 DEF Requested, Has
    <2>2. Follows(k.row, 0, None)'
      BY <1>3, <1>4, <1>10 DEF Follows, Has
    <2> QED
      BY <2>1, <2>2, <1>5, <1>6, <1>10
  <1>11. CASE /\ k.fact = "turnCommitted" /\ committed[a] = None /\ row' = k.row
              /\ committed' = [committed EXCEPT ![a] = k.snap]
              /\ GoTo(p, AfterSuccess(p)) /\ UNCHANGED <<facts, genOf>>
    <2>1. a \in Attempts /\ a \in Requested /\ k.snap # None
      BY <1>2, <1>4, <1>11 DEF Computed
    <2>2. committed'[a] = k.snap /\ \A b : b # a => committed'[b] = committed[b]
      BY <2>1, <1>11 DEF Alone, TurnInv, LogInv
    <2>3. Requested' = Requested
      BY <1>11 DEF Requested, Has
    <2>4. Follows(k.row, 0, None)'
      BY <2>1, <2>2, <1>3, <1>4, <1>11 DEF Follows, Has
    <2> QED
      BY <2>1, <2>2, <2>3, <2>4, <1>5, <1>6, <1>11
  <1>12. CASE /\ \/ k.fact \in FactTypes \ {"turnRequested"} /\ Has(k.fact, a)
                 \/ k.fact = "turnCommitted" /\ committed[a] # None
              /\ GoTo(p, AfterSuccess(p)) \/ GoTo(p, AfterConflict(p))
              /\ UNCHANGED <<row, facts, committed, genOf>>
    <2>1. Requested' = Requested
      BY <1>12 DEF Requested, Has
    <2>2. k.fact # "turnRequested"
      BY <1>12
    <2> QED
      BY <2>1, <2>2, <1>5, <1>6, <1>12
  <1> QED
    BY <1>7, <1>8, <1>9, <1>10, <1>11, <1>12 DEF Execute

-----------------------------------------------------------------------------
(***************************************************************************)
(* The commands, the runtime and the application.                          *)
(***************************************************************************)
\* A command starts with a list of steps and without a row.
LEMMA StartsCursor ==
    ASSUME Alone, NEW c \in Clients, NEW a, NEW snap, NEW n, Start(c, a, snap, n),
           UNCHANGED <<facts, committed, genOf, row>>, Sober(n) \/ n = Resend
    PROVE  CursorInv'
  <1>1. c \in Procs /\ c # "observer"
    BY TurnAssumption DEF Procs
  <1>2. PICK v : Moves(c, v) /\ v.todo = n /\ v.cmd = None /\ v.a = a
    BY <1>1, Started DEF Alone
  <1>3. PathInv(v)'
    <2>1. CASE Sober(n)
      BY <2>1, <1>2, SoberPath
    <2>2. CASE n = Resend
      BY <2>2, <1>2, ResendOrder DEF PathInv
    <2> QED
      BY <2>1, <2>2
  <1> QED
    BY <1>1, <1>2, <1>3, QuietGoes

\* A turn is begun, up to the writer.
LEMMA BeginTurnCursor == ASSUME Alone, NEW c \in Clients, BeginTurn(c) PROVE CursorInv'
  <1>1. UNCHANGED <<facts, committed, genOf, row>> /\ c \in Procs /\ c # "observer"
    BY TurnAssumption DEF BeginTurn, Procs
  <1>2. CASE Start(c, 0, None, <<"mark">>)
    BY <1>1, <1>2, StartsCursor, SoberLists DEF PlainLists
  <1>3. ASSUME NEW r \in BindingRow, Follows(r, 0, "turnRequested"), DeliveryFits(r), Descends(r),
               procs' = [procs EXCEPT ![c] = [Idle EXCEPT !.todo = Send, !.cmd = AppendFact("turnRequested", r)]]
        PROVE  CursorInv'
    <2>1. PICK v : Moves(c, v) /\ v.todo = Send /\ v.a = 0 /\ v.cmd = AppendFact("turnRequested", r)
      <3> DEFINE v == [Idle EXCEPT !.todo = Send, !.cmd = AppendFact("turnRequested", r)]
      <3>1. v.todo = Send /\ v.a = 0 /\ v.cmd = AppendFact("turnRequested", r)
        BY DEF Idle
      <3>2. procs' = [procs EXCEPT ![c] = v]
        BY <1>3
      <3>3. Moves(c, v)
        BY <3>2, <1>1 DEF Moves, Alone, TurnInv
      <3> QED
        BY <3>1, <3>3
    <2>2. v.cmd.fact = "turnRequested" /\ v.cmd.row = r
      BY <2>1 DEF AppendFact
    <2>3. v.cmd # None
      BY <2>1, CommandTypes, NoneAssumption DEF FactTypes
    <2>4. PathInv(v)'
      BY <2>1, <2>2, <2>3, SendOrder DEF PathInv, IsBeginning
    <2> QED
      BY <2>1, <2>2, <2>4, <1>1, <1>3, QuietGoes
  <1>4. CASE /\ row # None
             /\ procs' = [procs EXCEPT ![c] = [Idle EXCEPT !.todo = Send,
                             !.cmd = AppendFact("turnRequested", [row EXCEPT !.state = ReadyOrPrepared(row.native)])]]
    <2>1. PICK r : r = [row EXCEPT !.state = ReadyOrPrepared(row.native)]
      OBVIOUS
    <2>2. row \in BindingRow
      BY <1>4 DEF Alone, TurnInv, LogInv
    <2>3. Resembles(r) /\ r \in BindingRow
      BY <2>1, <2>2 DEF Resembles, BindingRow, ReadyOrPrepared
    <2>4. Follows(r, 0, "turnRequested") /\ DeliveryFits(r) /\ Descends(r)
      BY <2>3, <1>4, ResemblingRow DEF Alone
    <2>5. procs' = [procs EXCEPT ![c] = [Idle EXCEPT !.todo = Send, !.cmd = AppendFact("turnRequested", r)]]
      BY <2>1, <1>4
    <2> QED
      BY <2>3, <2>4, <2>5, <1>3
  <1>5. CASE /\ gens + 1 \in Generations
             /\ procs' = [procs EXCEPT ![c] = [Idle EXCEPT !.todo = Send,
                             !.cmd = AppendFact("turnRequested", FreshRow(gens + 1))]]
    BY <1>3, <1>5, FreshRowFits, FreshRowType
  <1> QED
    BY <1>2, <1>4, <1>5 DEF BeginTurn

\* The window is reloaded between two commands of a send.
LEMMA ReloadCursor == ASSUME Alone, NEW c \in Clients, Reload(c) PROVE CursorInv'
  <1>1. UNCHANGED <<facts, committed, genOf, row>> /\ GoTo(c, <<>>) /\ c \in Procs /\ c # "observer"
    BY TurnAssumption DEF Reload, durable, Procs
  <1>2. PICK v : Moves(c, v) /\ v.todo = <<>> /\ v.cmd = None
    BY <1>1, WentTo DEF Alone
  <1>3. PathInv(v)'
    BY <1>2, SoberPath, ErrorLists
  <1> QED
    BY <1>1, <1>2, <1>3, QuietGoes

\* A window issues a command.
LEMMA CommandCursor == ASSUME Alone, NEW c \in Clients, Command(c) PROVE CursorInv'
  <1>1. CASE BeginTurn(c)
    BY <1>1, BeginTurnCursor
  <1>2. CASE Reload(c)
    BY <1>2, ReloadCursor
  <1>3. CASE RequestRebuild(c)
    <2>1. UNCHANGED <<facts, committed, genOf, row>>
      BY <1>3 DEF RequestRebuild, durable
    <2>2. ASSUME NEW a, NEW snap, NEW n, Start(c, a, snap, n), n = <<"rebuild">> \/ n = <<"observe", "rebuild">>
          PROVE  CursorInv'
      BY <2>1, <2>2, StartsCursor, SoberLists
    <2> QED
      BY <1>3, <2>2 DEF RequestRebuild
  <1>4. ASSUME NEW a \in Attempts,
               \/ Redispatch(c, a) \/ Reattach(c, a) \/ CommitSettled(c, a) \/ RequestRecovery(c, a)
               \/ CancelAttempt(c, a) \/ RecoverAttempt(c, a)
               \/ \E force \in BOOLEAN : Abandon(c, a, force)
        PROVE  CursorInv'
    <2>1. UNCHANGED <<facts, committed, genOf, row>>
      BY <1>4 DEF Redispatch, Reattach, CommitSettled, RequestRecovery, CancelAttempt, RecoverAttempt,
                  Abandon, durable
    <2>2. \E snap, n : Start(c, a, snap, n) /\ n \in {Resend, <<"await">>, <<"observe">>, <<"mark">>, <<"settle">>,
                                                      <<"settle", "remove">>, <<"skip">>}
      BY <1>4 DEF Redispatch, Reattach, CommitSettled, RequestRecovery, CancelAttempt, RecoverAttempt, Abandon
    <2>3. <<"mark">> \in PlainLists
      BY DEF PlainLists
    <2> QED
      BY <2>1, <2>2, <2>3, StartsCursor, SoberLists
  <1> QED
    BY <1>1, <1>2, <1>3, <1>4 DEF Command

\* Nothing that the invariant speaks of changes.
LEMMA RestingCursor ==
    ASSUME CursorInv, UNCHANGED <<facts, committed, genOf, row, procs>> PROVE CursorInv'
  BY DEF CursorInv, RowsInv, InFlight, For, Follows, DeliveryFits, Requested, Has, PathInv, NotPrepared,
         InGeneration, IsBeginning, Sober

\* The runtime ends a turn.
LEMMA TerminalCursor ==
    ASSUME Alone, NEW a \in Attempts, NEW s \in Reported, Terminal(a, s) PROVE CursorInv'
  <1>1. UNCHANGED <<facts, committed, genOf, row>>
    BY DEF Terminal, durable
  <1>2. CASE UNCHANGED procs
    BY <1>1, <1>2, RestingCursor DEF Alone
  <1>3. CASE Start("observer", a, s, <<"publish">>)
    <2>1. "observer" \in Procs /\ "observer" \notin Clients
      BY TurnAssumption DEF Procs
    <2>2. PICK v : Moves("observer", v) /\ v.todo = <<"publish">> /\ v.cmd = None
      BY <2>1, <1>3, Started DEF Alone
    <2>3. \A x : Lists(v.todo, x) => x \in {"publish", "mark", "remove"}
      BY <2>2, ListsOf
    <2> QED
      BY <2>1, <2>2, <2>3, <1>1, QuietGoes
  <1> QED
    BY <1>2, <1>3 DEF Terminal, memory

\* A process that has nothing to do.
LEMMA IdleCursor == PathInv(Idle)' /\ PathInv(Idle) /\ Idle.cmd = None /\ \A s : ~ Lists(Idle.todo, s)
  <1>1. Idle.todo = <<>> /\ Idle.cmd = None
    BY DEF Idle
  <1>2. \A s : ~ Lists(Idle.todo, s)
    BY <1>1, EmptyList
  <1> QED
    BY <1>1, <1>2 DEF PathInv, Sober

\* The application dies: only the row that is written remains.
LEMMA CrashCursor == ASSUME Alone, Crash PROVE CursorInv'
  <1>1. UNCHANGED <<facts, committed, genOf, row>>
    BY DEF Crash, durable
  <1>2. \A p \in Procs : procs'[p] = Idle
    BY DEF Crash
  <1>3. \A p \in Procs : procs'[p].cmd = None
    BY <1>2, IdleCursor
  <1>4. \A r \in InFlight' : r = row /\ r \in InFlight
    BY <1>1, <1>3 DEF InFlight
  <1>5. /\ Requested' = Requested
        /\ \A r, a, f : Follows(r, a, f)' <=> Follows(r, a, f)
        /\ \A r : DeliveryFits(r)' <=> DeliveryFits(r)
    BY <1>1 DEF Requested, Follows, DeliveryFits, Has
  <1>6. RowsInv'
    <2>1. row' # None => Follows(row, 0, None)'
      BY <1>1 DEF Alone, CursorInv, RowsInv, Follows, Has
    <2>2. \A r \in InFlight' : r # None => DeliveryFits(r)'
      BY <1>4, <1>5 DEF Alone, CursorInv, RowsInv
    <2>3. \A a : \A r, s \in InFlight' : For(r, a)' /\ For(s, a)' => r.gen = s.gen
      BY <1>4
    <2> QED
      BY <2>1, <2>2, <2>3, <1>3 DEF RowsInv
  <1>7. \A c \in Clients : PathInv(procs[c])'
    <2>1. ASSUME NEW c \in Clients PROVE PathInv(procs[c])'
      <3>1. procs'[c] = Idle
        BY <1>2 DEF Procs
      <3> QED
        BY <3>1, IdleCursor
    <2> QED
      BY <2>1
  <1>8. \A s : Lists(procs'["observer"].todo, s) => s \in {"publish", "mark", "remove"}
    BY <1>2, IdleCursor DEF Procs
  <1>9. Requested' = 1 .. Cardinality(Requested)' /\ \A a \in Attempts \ Requested' : committed'[a] = None
    BY <1>1, <1>5 DEF Alone, CursorInv
  <1> QED
    BY <1>6, <1>7, <1>8, <1>9 DEF CursorInv

\* The beginning.
LEMMA CursorInvInit == Init => CursorInv
  <1> SUFFICES ASSUME Init PROVE CursorInv
    OBVIOUS
  <1>1. Requested = {} /\ row = None
    BY DEF Init, Requested, Has
  <1>2. \A p \in Procs : procs[p] = Idle
    BY DEF Init
  <1>3. InFlight = {None}
    BY <1>1, <1>2, IdleCursor DEF InFlight
  <1>4. RowsInv
    BY <1>1, <1>2, <1>3, IdleCursor DEF RowsInv
  <1>5. Requested = 1 .. Cardinality(Requested)
    <2>1. Cardinality(Requested) = 0 /\ 1 .. 0 = {}
      BY <1>1, FS_EmptySet
    <2> QED
      BY <2>1, <1>1
  <1>6. /\ \A c \in Clients : PathInv(procs[c])
        /\ \A s : Lists(procs["observer"].todo, s) => s \in {"publish", "mark", "remove"}
    BY <1>2, IdleCursor DEF Procs
  <1> QED
    BY <1>4, <1>5, <1>6 DEF CursorInv, Init

\* A step of a process.
LEMMA StepCursor == ASSUME Alone, NEW p \in Procs, Step(p) PROVE CursorInv'
  BY PrepareCursor, CheckPendingCursor, RegisterCursor, MarkStartingCursor, MaterializeCursor,
     MarkSentCursor, ImportCursor, SendPromptCursor, ResponseCursor, AwaitAckCursor,
     AcceptDeliveryCursor, TrustNativeCursor, AcceptTurnCursor, DrainCursor, AwaitTerminalCursor,
     ObserveCursor, SettleCursor, FailTurnCursor, MarkRecoveryCursor, RemoveAttemptCursor,
     RebuildCursor, SkipCursor, ClearRecoveryCursor, ExecuteCursor DEF Step

\* Every step of the system keeps CursorInv.
LEMMA CursorInvNext ==
    ASSUME TurnInv, TurnInv', OneClient, CursorInv, [Next]_vars PROVE CursorInv'
  <1>1. Alone
    BY DEF Alone
  <1>2. ASSUME NEW p \in Procs, Step(p) PROVE CursorInv'
    BY <1>1, <1>2, StepCursor
  <1>3. ASSUME NEW c \in Clients, Command(c) PROVE CursorInv'
    BY <1>1, <1>3, CommandCursor
  <1>4. ASSUME NEW a \in Attempts, NEW s \in Reported, Terminal(a, s) PROVE CursorInv'
    BY <1>1, <1>4, TerminalCursor
  <1>5. CASE Crash
    BY <1>1, <1>5, CrashCursor
  <1>6. CASE UNCHANGED vars
    BY <1>6, RestingCursor DEF vars, durable, memory
  <1> QED
    BY <1>2, <1>3, <1>4, <1>5, <1>6 DEF Next

\* CursorInv holds in every state that one window reaches, patient or not.
LEMMA CursorsAlwaysFit == ASSUME OneClient PROVE Spec => []CursorInv
  <1>1. TurnInv /\ CursorInv /\ TurnInv' /\ [Next]_vars => CursorInv'
    BY CursorInvNext
  <1> QED
    BY <1>1, CursorInvInit, TurnAlwaysFits, PTL DEF Spec

\* What the binding says is committed was accepted, and what it says is
\* accepted was acknowledged by the runtime of this generation, however the
\* commands of the window and the event path overlap.
THEOREM CursorsStayBehind == ASSUME OneClient PROVE Spec => []CursorsFollowDelivery
  <1>1. CursorInv => CursorsFollowDelivery
    <2> SUFFICES ASSUME CursorInv, row # None PROVE Follows(row, 0, None)
      BY NoneAssumption DEF CursorsFollowDelivery, Follows, FactTypes
    <2> QED
      BY DEF CursorInv, RowsInv
  <1> QED
    BY <1>1, CursorsAlwaysFit, PTL
=============================================================================
