---------------------- MODULE RuntimeCoordinatorProofs ----------------------
(***************************************************************************)
(* What holds of RuntimeCoordinator for every number of turns, whatever    *)
(* they report and when, and for every size of the buffer: the types, and  *)
(* that events reach their own attempt, in their order, and that the first *)
(* terminal decides.                                                       *)
(***************************************************************************)
EXTENDS RuntimeCoordinator, Minima, SequenceTheorems

-----------------------------------------------------------------------------
(***************************************************************************)
(* Kept.                                                                   *)
(***************************************************************************)
\* g keeps the events of es that are in K, one after the other.
Keeps(g, es, K) ==
    /\ g[0] = <<>>
    /\ \A i \in 1 .. Len(es) :
          g[i] = IF es[i] \in K THEN Append(g[i - 1], es[i]) ELSE g[i - 1]

\* The recursion of Kept has a solution.
LEMMA KeptRecursion ==
    ASSUME NEW S, NEW es \in Seq(S), NEW K
    PROVE  \E f \in [0 .. Len(es) -> Seq(S)] : Keeps(f, es, K) /\ Kept(es, K) = f[Len(es)]
  <1>0. PICK n \in Nat : n = Len(es)
    OBVIOUS
  <1> DEFINE Next1(i, x) == IF es[i] \in K THEN Append(x, es[i]) ELSE x
             step    == [i \in 1 .. n |-> [x \in Seq(S) |-> Next1(i, x)]]
             Body(f) == [i \in 0 .. n |-> IF i = 0 THEN <<>>
                                          ELSE IF es[i] \in K THEN Append(f[i - 1], es[i]) ELSE f[i - 1]]
             upTo    == CHOOSE f : f = Body(f)
  <1>1. n \in Nat /\ <<>> \in Seq(S) /\ \A i \in 1 .. n : es[i] \in S
    BY <1>0
  <1>2. step \in [1 .. n -> [Seq(S) -> Seq(S)]]
    <2>1. ASSUME NEW i \in 1 .. n, NEW x \in Seq(S) PROVE Next1(i, x) \in Seq(S)
      BY <1>1
    <2> HIDE DEF Next1
    <2> QED
      BY <2>1
  <1>2a. PICK h0 : IsRecursive(h0, n, Seq(S), <<>>, step)
    <2> HIDE DEF step
    <2> QED
      BY <1>1, <1>2, RecursionUpTo
  <1>3. PICK h \in [0 .. n -> Seq(S)] : h[0] = <<>> /\ \A i \in 1 .. n : h[i] = step[i][h[i - 1]]
    BY <1>2a DEF IsRecursive
  <1>4. ASSUME NEW i \in 1 .. n PROVE h[i] = Next1(i, h[i - 1])
    <2>1. i - 1 \in 0 .. n
      OBVIOUS
    <2>2. h[i - 1] \in Seq(S)
      BY <2>1
    <2> QED
      BY <1>3, <2>2
  <1>5. h = Body(h)
    <2>1. h = [i \in 0 .. n |-> h[i]]
      OBVIOUS
    <2>2. \A i \in 0 .. n : h[i] = IF i = 0 THEN <<>> ELSE Next1(i, h[i - 1])
      <3>1. \A i \in 0 .. n : i = 0 \/ i \in 1 .. n
        BY <1>1
      <3> HIDE DEF Next1
      <3> QED
        BY <1>3, <1>4, <3>1
    <2> QED
      BY <2>1, <2>2
  <1>6. upTo = Body(upTo)
    <2> HIDE DEF Body
    <2> QED
      BY <1>5
  <1>7. Kept(es, K) = upTo[n]
    BY <1>0 DEF Kept
  <1>8. upTo[0] = <<>> /\ \A i \in 1 .. n : upTo[i] = Next1(i, upTo[i - 1])
    <2> SUFFICES ASSUME NEW u, u = Body(u)
                 PROVE  u[0] = <<>> /\ \A i \in 1 .. n : u[i] = Next1(i, u[i - 1])
      BY <1>6
    <2>1. 0 \in 0 .. n /\ \A i \in 1 .. n : i \in 0 .. n /\ i # 0
      BY <1>1
    <2> QED
      BY <2>1
  <1> DEFINE T == {i \in 0 .. n : upTo[i] = h[i]}
  <1>9. 0 .. n \subseteq T
    <2>1. 0 \in T
      <3> HIDE DEF upTo
      <3> QED
        BY <1>1, <1>3, <1>8
    <2>2. ASSUME NEW i \in 1 .. n, i - 1 \in T PROVE i \in T
      <3>1. upTo[i - 1] = h[i - 1]
        BY <2>2
      <3> HIDE DEF upTo, Next1
      <3>2. upTo[i] = Next1(i, upTo[i - 1]) /\ h[i] = Next1(i, h[i - 1])
        BY <1>4, <1>8
      <3> QED
        BY <1>1, <3>1, <3>2
    <2> HIDE DEF T
    <2> QED
      BY <1>1, <2>1, <2>2, UpTo
  <1>10. upTo[n] = h[n]
    <2>1. n \in T
      <3> HIDE DEF T
      <3> QED
        BY <1>1, <1>9
    <2> QED
      BY <2>1
  <1>11. Keeps(h, es, K)
    BY <1>0, <1>3, <1>4 DEF Keeps
  <1> HIDE DEF upTo
  <1> QED
    BY <1>0, <1>7, <1>10, <1>11


\* Whatever keeps the same events is the same.
LEMMA KeptUnique ==
    ASSUME NEW S, NEW es \in Seq(S), NEW K, NEW g, Keeps(g, es, K)
    PROVE  Kept(es, K) = g[Len(es)]
  <1>1. PICK f \in [0 .. Len(es) -> Seq(S)] : Keeps(f, es, K) /\ Kept(es, K) = f[Len(es)]
    BY KeptRecursion
  <1>2. PICK n \in Nat : n = Len(es)
    OBVIOUS
  <1> DEFINE T == {i \in 0 .. n : g[i] = f[i]}
  <1>3. 0 \in T
    BY <1>1, <1>2 DEF Keeps
  <1>4. ASSUME NEW i \in 1 .. n, i - 1 \in T PROVE i \in T
    <2>1. g[i - 1] = f[i - 1]
      BY <1>4
    <2> QED
      BY <1>1, <1>2, <2>1 DEF Keeps
  <1>5. 0 .. n \subseteq T
    <2> HIDE DEF T
    <2> QED
      BY <1>2, <1>3, <1>4, UpTo
  <1>6. n \in T
    <2> HIDE DEF T
    <2> QED
      BY <1>2, <1>5
  <1> QED
    BY <1>1, <1>2, <1>6

\* What is kept are elements of K.
LEMMA KeptType ==
    ASSUME NEW S, NEW es \in Seq(S), NEW K
    PROVE  Kept(es, K) \in Seq(S \cap K)
  <1>1. PICK f \in [0 .. Len(es) -> Seq(S)] : Keeps(f, es, K) /\ Kept(es, K) = f[Len(es)]
    BY KeptRecursion
  <1>2. PICK n \in Nat : n = Len(es)
    OBVIOUS
  <1> DEFINE T == {i \in 0 .. n : f[i] \in Seq(S \cap K)}
  <1>3. 0 \in T
    BY <1>1, <1>2, EmptySeq DEF Keeps
  <1>4. ASSUME NEW i \in 1 .. n, i - 1 \in T PROVE i \in T
    <2>1. f[i - 1] \in Seq(S \cap K)
      BY <1>4
    <2>2. f[i] = IF es[i] \in K THEN Append(f[i - 1], es[i]) ELSE f[i - 1]
      BY <1>1, <1>2 DEF Keeps
    <2>3. es[i] \in S
      BY <1>2
    <2>4. es[i] \in K => Append(f[i - 1], es[i]) \in Seq(S \cap K)
      BY <2>1, <2>3, AppendProperties
    <2>5. f[i] \in Seq(S \cap K)
      <3> DEFINE x == Append(f[i - 1], es[i])
      <3>1. f[i] = IF es[i] \in K THEN x ELSE f[i - 1]
        BY <2>2
      <3>2. es[i] \in K => x \in Seq(S \cap K)
        BY <2>4
      <3> HIDE DEF x
      <3> QED
        BY <2>1, <3>1, <3>2
    <2> QED
      BY <2>5
  <1>5. 0 .. n \subseteq T
    <2> HIDE DEF T
    <2> QED
      BY <1>2, <1>3, <1>4, UpTo
  <1>6. n \in T
    <2> HIDE DEF T
    <2> QED
      BY <1>2, <1>5
  <1> QED
    BY <1>1, <1>2, <1>6

\* One more event.
LEMMA KeptAppend ==
    ASSUME NEW S, NEW es \in Seq(S), NEW K, NEW e \in S
    PROVE  Kept(Append(es, e), K) = IF e \in K THEN Append(Kept(es, K), e) ELSE Kept(es, K)
  <1>1. PICK f \in [0 .. Len(es) -> Seq(S)] : Keeps(f, es, K) /\ Kept(es, K) = f[Len(es)]
    BY KeptRecursion
  <1>2. PICK n \in Nat : n = Len(es)
    OBVIOUS
  <1> DEFINE last == IF e \in K THEN Append(f[n], e) ELSE f[n]
             g    == [i \in 0 .. n + 1 |-> IF i = n + 1 THEN last ELSE f[i]]
             fs   == Append(es, e)
  <1>3. /\ fs \in Seq(S) /\ Len(fs) = n + 1 /\ fs[n + 1] = e
        /\ \A i \in 1 .. n : fs[i] = es[i]
    BY <1>2, AppendProperties
  <1>4. g[0] = f[0] /\ g[n + 1] = last /\ \A i \in 0 .. n : g[i] = f[i]
    <2> HIDE DEF last
    <2> QED
      BY <1>2
  <1>5. Keeps(g, fs, K)
    <2> HIDE DEF g, fs
    <2>1. g[0] = <<>>
      BY <1>1, <1>4 DEF Keeps
    <2>2. ASSUME NEW i \in 1 .. n + 1
          PROVE  g[i] = IF fs[i] \in K THEN Append(g[i - 1], fs[i]) ELSE g[i - 1]
      <3>1. CASE i = n + 1
        <4>1. i - 1 = n /\ n \in 0 .. n
          BY <1>2, <3>1
        <4> QED
          BY <1>3, <1>4, <3>1, <4>1
      <3>2. CASE i # n + 1
        <4>1. i \in 1 .. n /\ i \in 0 .. n /\ i - 1 \in 0 .. n
          BY <1>2, <3>2
        <4>2. f[i] = IF es[i] \in K THEN Append(f[i - 1], es[i]) ELSE f[i - 1]
          BY <1>1, <1>2, <4>1 DEF Keeps
        <4>3. g[i] = f[i] /\ g[i - 1] = f[i - 1] /\ fs[i] = es[i]
          BY <1>3, <1>4, <4>1
        <4> QED
          BY <4>2, <4>3
      <3> QED
        BY <3>1, <3>2
    <2> QED
      BY <1>3, <2>1, <2>2 DEF Keeps
  <1>6. Kept(fs, K) = g[n + 1]
    <2> HIDE DEF g, fs
    <2> QED
      BY <1>3, <1>5, KeptUnique
  <1> HIDE DEF g
  <1> QED
    BY <1>1, <1>2, <1>4, <1>6


\* Append and concatenation associate.
LEMMA AppendToConcat ==
    ASSUME NEW S, NEW x \in Seq(S), NEW y \in Seq(S), NEW e \in S
    PROVE  x \o Append(y, e) = Append(x \o y, e)
  <1>1. Append(y, e) = y \o <<e>> /\ Append(x \o y, e) = (x \o y) \o <<e>>
    BY AppendIsConcat, ConcatProperties
  <1>2. <<e>> \in Seq(S)
    OBVIOUS
  <1>3. (x \o y) \o <<e>> = x \o (y \o <<e>>)
    BY <1>2, ConcatAssociative
  <1> QED
    BY <1>1, <1>3

\* One list after the other.
LEMMA KeptConcat ==
    ASSUME NEW S, NEW es \in Seq(S), NEW fs \in Seq(S), NEW K
    PROVE  Kept(es \o fs, K) = Kept(es, K) \o Kept(fs, K)
  <1>1. PICK f \in [0 .. Len(es) -> Seq(S)] : Keeps(f, es, K) /\ Kept(es, K) = f[Len(es)]
    BY KeptRecursion
  <1>2. PICK h \in [0 .. Len(fs) -> Seq(S)] : Keeps(h, fs, K) /\ Kept(fs, K) = h[Len(fs)]
    BY KeptRecursion
  <1>3. PICK n \in Nat : n = Len(es)
    OBVIOUS
  <1>4. PICK m \in Nat : m = Len(fs)
    OBVIOUS
  <1> DEFINE g  == [i \in 0 .. n + m |-> IF i <= n THEN f[i] ELSE f[n] \o h[i - n]]
             gs == es \o fs
  <1>5. /\ gs \in Seq(S) /\ Len(gs) = n + m
        /\ \A i \in 1 .. n : gs[i] = es[i]
        /\ \A i \in 1 .. m : gs[n + i] = fs[i]
    BY <1>3, <1>4, ConcatProperties
  <1>6. /\ h[0] = <<>> /\ f[n] \in Seq(S) /\ f[n] \o h[0] = f[n]
        /\ \A i \in 0 .. m : h[i] \in Seq(S)
    <2>1. n \in 0 .. n /\ 0 \in 0 .. m
      OBVIOUS
    <2>2. f[n] \in Seq(S) /\ h[0] = <<>> /\ \A i \in 0 .. m : h[i] \in Seq(S)
      BY <1>1, <1>2, <1>3, <1>4, <2>1 DEF Keeps
    <2> QED
      BY <2>2, ConcatEmptySeq
  <1>7. /\ g[0] = f[0]
        /\ \A i \in 0 .. n : g[i] = f[i]
        /\ \A i \in 0 .. m : g[n + i] = f[n] \o h[i]
    <2>1. \A i \in 0 .. n : g[i] = f[i]
      OBVIOUS
    <2>2. ASSUME NEW i \in 0 .. m PROVE g[n + i] = f[n] \o h[i]
      <3>1. CASE i = 0
        <4>1. n + i = n /\ n \in 0 .. n
          BY <3>1
        <4> HIDE DEF g
        <4> QED
          BY <1>6, <2>1, <3>1, <4>1
      <3>2. CASE i # 0
        <4>1. n + i \in 0 .. n + m /\ ~ (n + i <= n) /\ (n + i) - n = i
          BY <3>2
        <4> QED
          BY <4>1
      <3> QED
        BY <3>1, <3>2
    <2>3. 0 \in 0 .. n
      OBVIOUS
    <2> HIDE DEF g
    <2> QED
      BY <2>1, <2>2, <2>3
  <1>8. Keeps(g, gs, K)
    <2> HIDE DEF g, gs
    <2>1. g[0] = <<>>
      BY <1>1, <1>7 DEF Keeps
    <2>2. ASSUME NEW i \in 1 .. n + m
          PROVE  g[i] = IF gs[i] \in K THEN Append(g[i - 1], gs[i]) ELSE g[i - 1]
      <3>1. CASE i <= n
        <4>1. i \in 1 .. n /\ i \in 0 .. n /\ i - 1 \in 0 .. n
          BY <3>1
        <4>2. f[i] = IF es[i] \in K THEN Append(f[i - 1], es[i]) ELSE f[i - 1]
          BY <1>1, <1>3, <4>1 DEF Keeps
        <4>3. g[i] = f[i] /\ g[i - 1] = f[i - 1] /\ gs[i] = es[i]
          BY <1>5, <1>7, <4>1
        <4> QED
          BY <4>2, <4>3
      <3>2. CASE ~ (i <= n)
        <4>1. PICK k \in 1 .. m : i = n + k
          <5>1. i - n \in 1 .. m /\ i = n + (i - n)
            BY <3>2
          <5> QED
            BY <5>1
        <4>2. k \in 0 .. m /\ k - 1 \in 0 .. m /\ i - 1 = n + (k - 1)
          BY <4>1
        <4>3. h[k] = IF fs[k] \in K THEN Append(h[k - 1], fs[k]) ELSE h[k - 1]
          BY <1>2, <1>4 DEF Keeps
        <4>4. g[i] = f[n] \o h[k] /\ g[i - 1] = f[n] \o h[k - 1] /\ gs[i] = fs[k]
          BY <1>5, <1>7, <4>1, <4>2
        <4>5. f[n] \o Append(h[k - 1], fs[k]) = Append(f[n] \o h[k - 1], fs[k])
          <5>1. fs[k] \in S
            BY <1>4
          <5>2. h[k - 1] \in Seq(S) /\ f[n] \in Seq(S)
            BY <1>6, <4>2
          <5>3. \A x, y \in Seq(S), e \in S : x \o Append(y, e) = Append(x \o y, e)
            BY AppendToConcat
          <5> QED
            BY <5>1, <5>2, <5>3
        <4> QED
          BY <4>3, <4>4, <4>5
      <3> QED
        BY <3>1, <3>2
    <2> QED
      BY <1>5, <2>1, <2>2 DEF Keeps
  <1>9. Kept(gs, K) = g[n + m]
    <2> HIDE DEF g, gs
    <2> QED
      BY <1>5, <1>8, KeptUnique
  <1>10. g[n + m] = f[n] \o h[m]
    <2>1. m \in 0 .. m
      OBVIOUS
    <2> HIDE DEF g
    <2> QED
      BY <1>7, <2>1
  <1> HIDE DEF g
  <1> QED
    BY <1>1, <1>2, <1>3, <1>4, <1>9, <1>10

\* Nothing is kept of nothing.
LEMMA KeptEmpty == ASSUME NEW K PROVE Kept(<<>>, K) = <<>>
  <1>1. <<>> \in Seq({}) /\ Len(<<>>) = 0
    OBVIOUS
  <1>2. Keeps([i \in 0 .. 0 |-> <<>>], <<>>, K)
    BY <1>1 DEF Keeps
  <1>3. Kept(<<>>, K) = [i \in 0 .. 0 |-> <<>>][Len(<<>>)]
    BY <1>1, <1>2, KeptUnique
  <1> QED
    BY <1>1, <1>3


\* Only what K says of the elements matters.
LEMMA KeptSame ==
    ASSUME NEW S, NEW es \in Seq(S), NEW J, NEW K, \A x \in S : x \in J <=> x \in K
    PROVE  Kept(es, J) = Kept(es, K)
  <1>1. PICK f \in [0 .. Len(es) -> Seq(S)] : Keeps(f, es, J) /\ Kept(es, J) = f[Len(es)]
    BY KeptRecursion
  <1>2. \A i \in 1 .. Len(es) : es[i] \in J <=> es[i] \in K
    <2>1. \A i \in 1 .. Len(es) : es[i] \in S
      BY ElementOfSeq
    <2> QED
      BY <2>1
  <1>3. Keeps(f, es, K)
    BY <1>1, <1>2 DEF Keeps
  <1> QED
    BY <1>1, <1>3, KeptUnique

\* What is kept of what is kept.
LEMMA KeptTwice ==
    ASSUME NEW S, NEW es \in Seq(S), NEW J, NEW K
    PROVE  Kept(Kept(es, J), K) = Kept(es, J \cap K)
  <1>1. PICK f \in [0 .. Len(es) -> Seq(S)] : Keeps(f, es, J) /\ Kept(es, J) = f[Len(es)]
    BY KeptRecursion
  <1>2. PICK n \in Nat : n = Len(es)
    OBVIOUS
  <1> DEFINE g == [i \in 0 .. n |-> Kept(f[i], K)]
  <1>3. g[0] = <<>>
    BY <1>1, <1>2, KeptEmpty DEF Keeps
  <1>4. ASSUME NEW i \in 1 .. n
        PROVE  g[i] = IF es[i] \in J \cap K THEN Append(g[i - 1], es[i]) ELSE g[i - 1]
    <2>1. i \in 0 .. n /\ i - 1 \in 0 .. n
      OBVIOUS
    <2>2. g[i] = Kept(f[i], K) /\ g[i - 1] = Kept(f[i - 1], K)
      BY <2>1
    <2>3. f[i] = IF es[i] \in J THEN Append(f[i - 1], es[i]) ELSE f[i - 1]
      BY <1>1, <1>2 DEF Keeps
    <2>4. es[i] \in S /\ f[i - 1] \in Seq(S)
      BY <1>1, <1>2, <2>1, ElementOfSeq
    <2>5. Kept(Append(f[i - 1], es[i]), K) =
             IF es[i] \in K THEN Append(Kept(f[i - 1], K), es[i]) ELSE Kept(f[i - 1], K)
      <3>1. ASSUME NEW x \in Seq(S), NEW e \in S
            PROVE  Kept(Append(x, e), K) = IF e \in K THEN Append(Kept(x, K), e) ELSE Kept(x, K)
        BY KeptAppend
      <3> QED
        BY <2>4, <3>1
    <2> HIDE DEF g
    <2> QED
      BY <2>2, <2>3, <2>5
  <1>5. Keeps(g, es, J \cap K)
    <2> HIDE DEF g
    <2> QED
      BY <1>2, <1>3, <1>4 DEF Keeps
  <1>6. Kept(es, J \cap K) = g[n]
    <2> HIDE DEF g
    <2> QED
      BY <1>2, <1>5, KeptUnique
  <1>7. g[n] = Kept(f[n], K)
    <2>1. n \in 0 .. n
      OBVIOUS
    <2> QED
      BY <2>1
  <1> HIDE DEF g
  <1> QED
    BY <1>1, <1>2, <1>6, <1>7

\* Nothing is kept when nothing is in K.
LEMMA KeptNothing ==
    ASSUME NEW S, NEW es \in Seq(S), NEW K, \A i \in 1 .. Len(es) : es[i] \notin K
    PROVE  Kept(es, K) = <<>>
  <1>1. PICK n \in Nat : n = Len(es)
    OBVIOUS
  <1> DEFINE g == [i \in 0 .. n |-> <<>>]
  <1>2. \A i \in 0 .. n : g[i] = <<>>
    OBVIOUS
  <1>3. 0 \in 0 .. n /\ n \in 0 .. n /\ \A i \in 1 .. n : i \in 0 .. n /\ i - 1 \in 0 .. n
    OBVIOUS
  <1> HIDE DEF g
  <1>4. Keeps(g, es, K)
    BY <1>1, <1>2, <1>3 DEF Keeps
  <1>5. Kept(es, K) = g[n]
    BY <1>1, <1>4, KeptUnique
  <1> QED
    BY <1>2, <1>3, <1>5

\* What is first stays first.
LEMMA AppendFirst ==
    ASSUME NEW S, NEW x \in Seq(S), NEW e \in S
    PROVE  /\ Append(x, e) # <<>>
           /\ x = <<>> => Append(x, e)[1] = e
           /\ x # <<>> => Append(x, e)[1] = x[1]
  <1>1. PICK n \in Nat : n = Len(x)
    OBVIOUS
  <1>2. /\ Append(x, e) \in Seq(S) /\ Len(Append(x, e)) = n + 1
        /\ \A i \in 1 .. n : Append(x, e)[i] = x[i]
        /\ Append(x, e)[n + 1] = e
    BY <1>1, AppendProperties
  <1>3. x = <<>> <=> n = 0
    BY <1>1, EmptySeq
  <1>4. Len(<<>>) = 0
    OBVIOUS
  <1> DEFINE y == Append(x, e)
  <1> HIDE DEF y
  <1>5. Len(y) = n + 1 /\ (\A i \in 1 .. n : y[i] = x[i]) /\ y[n + 1] = e
    BY <1>2 DEF y
  <1>6. y # <<>> /\ (n = 0 => y[1] = e) /\ (n # 0 => y[1] = x[1])
    BY <1>1, <1>4, <1>5
  <1> QED
    BY <1>3, <1>6 DEF y

\* The first of what is kept is the first that is in K.
LEMMA KeptFirst ==
    ASSUME NEW S, NEW es \in Seq(S), NEW K, NEW m \in 1 .. Len(es),
           es[m] \in K, \A i \in 1 .. Len(es) : i < m => es[i] \notin K
    PROVE  Kept(es, K) # <<>> /\ Kept(es, K)[1] = es[m]
  <1>1. PICK f \in [0 .. Len(es) -> Seq(S)] : Keeps(f, es, K) /\ Kept(es, K) = f[Len(es)]
    BY KeptRecursion
  <1>2. PICK n \in Nat : n = Len(es)
    OBVIOUS
  <1> DEFINE Good(i) == /\ i < m => f[i] = <<>>
                        /\ ~ (i < m) => f[i] # <<>> /\ f[i][1] = es[m]
             T == {i \in 0 .. n : Good(i)}
  <1>3. 0 \in T
    BY <1>1, <1>2 DEF Keeps
  <1>4. ASSUME NEW i \in 1 .. n, i - 1 \in T PROVE i \in T
    <2>1. f[i] = IF es[i] \in K THEN Append(f[i - 1], es[i]) ELSE f[i - 1]
      BY <1>1, <1>2 DEF Keeps
    <2>2. es[i] \in S /\ f[i - 1] \in Seq(S)
      <3>1. i - 1 \in 0 .. n
        OBVIOUS
      <3> QED
        BY <1>1, <1>2, <3>1, ElementOfSeq
    <2>3. Good(i - 1)
      BY <1>4
    <2>4. /\ Append(f[i - 1], es[i]) # <<>>
          /\ f[i - 1] = <<>> => Append(f[i - 1], es[i])[1] = es[i]
          /\ f[i - 1] # <<>> => Append(f[i - 1], es[i])[1] = f[i - 1][1]
      BY <2>2, AppendFirst, SMTT(30)
    <2>5. CASE i < m
      <3>1. i - 1 < m /\ es[i] \notin K
        BY <1>2, <2>5
      <3> QED
        BY <2>1, <2>3, <2>5, <3>1
    <2>6. CASE i = m
      <3>1. i - 1 < m
        BY <2>6
      <3> QED
        BY <2>1, <2>3, <2>4, <2>6, <3>1
    <2>7. CASE ~ (i < m) /\ i # m
      <3>1. ~ (i - 1 < m)
        BY <2>7
      <3> QED
        BY <2>1, <2>3, <2>4, <2>7, <3>1
    <2> QED
      BY <2>5, <2>6, <2>7
  <1>5. 0 .. n \subseteq T
    <2> HIDE DEF T
    <2> QED
      BY <1>2, <1>3, <1>4, UpTo
  <1>6. Good(n) /\ ~ (n < m)
    <2>1. n \in T
      <3> HIDE DEF T
      <3> QED
        BY <1>2, <1>5
    <2> QED
      BY <1>2, <2>1
  <1> QED
    BY <1>1, <1>2, <1>6

-----------------------------------------------------------------------------
(***************************************************************************)
(* The inductive invariant.                                                *)
(*                                                                         *)
(* An attempt is bound once it knows its runtime turn, and only            *)
(* BindRuntimeTurn binds one: until then the runtime turn is in no map, so *)
(* its named events are buffered, which needs the hold of the session to   *)
(* be the attempt's from the prompt on; and from then on they reach the    *)
(* attempt, so the buffer holds none of them any more.                     *)
(***************************************************************************)
\* What a runtime turn can report.
Genuine == {e \in Event : e.turn \in {None, e.of} /\ (IsTerminal(e) => e.turn # None)}

\* What may be applied to attempt a.
Meant(a) == {e \in Genuine : e.turn \in {None, a}}

Bound(a)   == Registered(a) /\ entry[a].turn = a
Unbound(a) == Registered(a) /\ entry[a].turn = None

\* The runtime does not have the prompt of the attempt yet.
Early(a) == dispatch[a] \in {"none", "registered", "held"}

\* What may be in the buffer.
Unclaimed == {e \in Genuine : /\ ~ Early(e.of)
                              /\ e \in Tracked /\ Registered(e.of) => Unbound(e.of)}

TypeInv ==
    /\ TypesWithinLimit
    /\ emitted \in [Attempts -> Nat]
    /\ \A a \in Attempts :
          /\ barrier[a] # None => Registered(a)
          /\ turnMap[a] # None => Registered(turnMap[a])
          /\ Registered(a) /\ dispatch[a] \in {"bound", "checkAck", "awaitAck"} => barrier[a] # None

Attributed ==
    /\ unowned \in Seq(Unclaimed)
    /\ \A a \in Attempts : /\ applied[a] \in Seq(Meant(a))
                           /\ barrier[a] \in Seq(Meant(a)) \cup {None}

Matched ==
    /\ nativeMap # None => Bound(nativeMap)
    /\ \A a \in Attempts : /\ Registered(a) => entry[a].turn \in {None, a}
                           /\ turnMap[a] = IF Bound(a) THEN a ELSE None
                           /\ barrier[a] # None => Bound(a)

Staged ==
    \A a \in Attempts :
        /\ dispatch[a] = "none" => ~ Registered(a)
        /\ Early(a) => emitted[a] = 0
        /\ Unbound(a) \/ dispatch[a] = "none" => applied[a] = <<>>
        /\ Registered(a) /\ dispatch[a] \in {"registered", "held", "sent"} => Unbound(a)
        /\ Unbound(a) /\ dispatch[a] # "registered" => held = a

FirstSettles ==
    \A a \in Attempts :
        Registered(a) =>
            LET ended == Kept(applied[a], Terminals)
            IN  /\ entry[a].settled = None <=> ended = <<>>
                /\ ended # <<>> => \/ entry[a].settled = ended[1].outcome
                                   \/ entry[a].settled = "cancelled" /\ ended[1].outcome = "failed"

Behind(a) == IF barrier[a] = None THEN <<>> ELSE barrier[a]

Ordered ==
    \A a \in Attempts :
        /\ Bound(a) /\ dropped = 0 =>
              Kept(applied[a] \o Behind(a), Tracked) = Kept(Reported(a), Tracked)
        /\ Unbound(a) /\ dropped = 0 =>
              Kept(unowned, Of(a) \cap Tracked) = Kept(Reported(a), Tracked)

Inv == TypeInv /\ Attributed /\ Matched /\ Staged /\ FirstSettles /\ Ordered

-----------------------------------------------------------------------------
(***************************************************************************)
(* The types.                                                              *)
(***************************************************************************)
\* What a script holds is what a runtime turn can report.
LEMMA EventIsGenuine ==
    ASSUME script \in Scripts, NEW a \in Attempts, NEW i \in 1 .. Len(script[a])
    PROVE  /\ EventAt(a, i) \in Genuine
           /\ EventAt(a, i).of = a
           /\ EventAt(a, i).turn \in {None, a}
  <1>1. PICK e \in ScriptEvent : e = script[a][i]
    <2>1. script[a] \in Seq(ScriptEvent)
      BY CoordinatorAssumption
    <2> QED
      BY <2>1
  <1>2. e.kind = "terminal" => e.named
    BY <1>1, CoordinatorAssumption
  <1>3. i \in Nat
    <2>1. script[a] \in Seq(ScriptEvent)
      BY CoordinatorAssumption
    <2> QED
      BY <2>1
  <1>4. EventAt(a, i) = [of |-> a, pos |-> i, kind |-> e.kind, outcome |-> e.outcome,
                         turn |-> IF e.named THEN a ELSE None]
    BY <1>1 DEF EventAt
  <1> DEFINE t == IF e.named THEN a ELSE None
             new == EventAt(a, i)
  <1>5. t \in {None, a} /\ (e.kind = "terminal" => t # None)
    BY <1>2, NoneAssumption
  <1>6. e.kind \in Kinds /\ e.outcome \in Outcomes
    BY DEF ScriptEvent
  <1> HIDE DEF t
  <1>7. /\ new \in Event /\ new.of = a /\ new.turn = t /\ new.kind = e.kind
    BY <1>3, <1>4, <1>5, <1>6 DEF Event, t
  <1> HIDE DEF new
  <1>8. new \in Genuine
    BY <1>5, <1>7 DEF Genuine, IsTerminal
  <1> QED
    BY <1>5, <1>7, <1>8 DEF new

\* The first of a set of positions is in it.
LEMMA FirstIsIn ==
    ASSUME NEW S \in SUBSET Nat, S # {}
    PROVE  FirstIn(S) \in S /\ \A j \in S : FirstIn(S) <= j
  <1>1. \E i \in S : \A j \in S : i <= j
    BY LeastElement
  <1> QED
    BY <1>1 DEF FirstIn

\* What the application of events to an attempt leaves.
LEMMA AppliedIsEntry ==
    ASSUME NEW acc \in Entry, NEW es \in Seq(Event)
    PROVE  /\ Applied(es, acc) \in Entry
           /\ acc.turn # None => Applied(es, acc).turn = acc.turn
           /\ acc.settled # None => Applied(es, acc).settled = acc.settled
           /\ acc.settled = None /\ ~ HasTerminal(es) => Applied(es, acc).settled = None
           /\ acc.settled = None /\ HasTerminal(es) =>
                 \E m \in 1 .. Len(es) : /\ IsTerminal(es[m])
                                         /\ \A i \in 1 .. Len(es) : i < m => ~ IsTerminal(es[i])
                                         /\ Applied(es, acc).settled = SettledBy(es[m], acc)
  <1> DEFINE names  == {i \in 1 .. Len(es) : es[i].turn # None}
             ends   == {i \in 1 .. Len(es) : IsTerminal(es[i])}
             echoed == \E i \in 1 .. Len(es) :
                          acc.settled = None /\ IsEcho(es[i]) /\ \A j \in ends : i < j
             turn1    == IF acc.turn = None /\ names # {} THEN es[FirstIn(names)].turn ELSE acc.turn
             ack1     == acc.ack \/ echoed
             permit1  == acc.permit \/ (echoed /\ ~ acc.ack)
             settled1 == IF acc.settled = None /\ ends # {}
                         THEN SettledBy(es[FirstIn(ends)], acc) ELSE acc.settled
             new == Applied(es, acc)
  <1>1. new = [acc EXCEPT !.turn = turn1, !.ack = ack1, !.permit = permit1, !.settled = settled1]
    BY DEF Applied
  <1>2. names \in SUBSET Nat /\ ends \in SUBSET Nat
    OBVIOUS
  <1>3. \A i \in 1 .. Len(es) : es[i] \in Event
    BY ElementOfSeq
  <1>4. turn1 \in Attempts \cup {None} /\ (acc.turn # None => turn1 = acc.turn)
    <2>1. CASE acc.turn = None /\ names # {}
      <3>1. FirstIn(names) \in names
        BY <1>2, <2>1, FirstIsIn
      <3>2. es[FirstIn(names)] \in Event
        BY <1>3, <3>1
      <3> QED
        BY <2>1, <3>2 DEF Event
    <2>2. CASE ~ (acc.turn = None /\ names # {})
      BY <2>2 DEF Entry
    <2> QED
      BY <2>1, <2>2
  <1>5. ends # {} => /\ FirstIn(ends) \in 1 .. Len(es) /\ IsTerminal(es[FirstIn(ends)])
                     /\ \A i \in 1 .. Len(es) : i < FirstIn(ends) => ~ IsTerminal(es[i])
    <2> SUFFICES ASSUME ends # {}
                 PROVE  /\ FirstIn(ends) \in 1 .. Len(es) /\ IsTerminal(es[FirstIn(ends)])
                        /\ \A i \in 1 .. Len(es) : i < FirstIn(ends) => ~ IsTerminal(es[i])
      OBVIOUS
    <2>1. PICK m : m = FirstIn(ends)
      OBVIOUS
    <2>2. m \in ends /\ \A j \in ends : m <= j
      BY <1>2, <2>1, FirstIsIn
    <2>3. m \in 1 .. Len(es) /\ IsTerminal(es[m])
      BY <2>2
    <2>4. ASSUME NEW i \in 1 .. Len(es), i < m, IsTerminal(es[i]) PROVE FALSE
      <3>1. i \in ends /\ i \in Nat /\ m \in Nat
        BY <2>3, <2>4
      <3>2. m <= i
        BY <2>2, <3>1
      <3> QED
        BY <2>4, <3>1, <3>2
    <2> HIDE DEF ends
    <2> QED
      BY <2>1, <2>3, <2>4
  <1>6. settled1 \in Outcomes \cup {"cancelled", None}
    <2>1. CASE acc.settled = None /\ ends # {}
      <3>1. es[FirstIn(ends)] \in Event
        BY <1>3, <1>5, <2>1
      <3>2. \A e \in Event : SettledBy(e, acc) \in Outcomes \cup {"cancelled"}
        BY DEF SettledBy, Event
      <3> QED
        BY <2>1, <3>1, <3>2
    <2>2. CASE ~ (acc.settled = None /\ ends # {})
      BY <2>2 DEF Entry
    <2> QED
      BY <2>1, <2>2
  <1>7. /\ new \in Entry /\ new.turn = turn1 /\ new.settled = settled1
    <2>1. ack1 \in BOOLEAN /\ permit1 \in BOOLEAN
      BY DEF Entry
    <2> HIDE DEF turn1, ack1, permit1, settled1, new
    <2> QED
      BY <1>1, <1>4, <1>6, <2>1 DEF Entry
  <1>8. HasTerminal(es) <=> ends # {}
    BY DEF HasTerminal
  <1>9. /\ acc.settled # None => settled1 = acc.settled
        /\ acc.settled = None /\ ends = {} => settled1 = None
        /\ acc.settled = None /\ ends # {} => settled1 = SettledBy(es[FirstIn(ends)], acc)
    OBVIOUS
  <1> HIDE DEF turn1, settled1, names, ends, new
  <1>10. ASSUME acc.settled = None, HasTerminal(es)
         PROVE  \E m \in 1 .. Len(es) : /\ IsTerminal(es[m])
                                        /\ \A i \in 1 .. Len(es) : i < m => ~ IsTerminal(es[i])
                                        /\ new.settled = SettledBy(es[m], acc)
    <2>1. PICK m : m = FirstIn(ends)
      OBVIOUS
    <2> QED
      BY <1>5, <1>7, <1>8, <1>9, <1>10, <2>1
  <1> QED
    BY <1>4, <1>7, <1>8, <1>9, <1>10 DEF new

\* What joins the barrier changes neither the turn nor the settlement.
LEMMA QueuedIsEntry ==
    ASSUME NEW acc \in Entry, NEW es \in Seq(Event)
    PROVE  /\ QueuedEffect(es, acc) \in Entry
           /\ QueuedEffect(es, acc).turn = acc.turn
           /\ QueuedEffect(es, acc).settled = acc.settled
  <1> DEFINE echoed == acc.settled = None /\ \E i \in 1 .. Len(es) : IsEcho(es[i])
             ack1    == acc.ack \/ echoed
             permit1 == acc.permit \/ (echoed /\ ~ acc.ack) \/ HasTerminal(es)
             new     == QueuedEffect(es, acc)
  <1>1. new = [acc EXCEPT !.ack = ack1, !.permit = permit1]
    BY DEF QueuedEffect
  <1>2. ack1 \in BOOLEAN /\ permit1 \in BOOLEAN
    BY DEF Entry, HasTerminal
  <1> HIDE DEF ack1, permit1, new
  <1>3. new \in Entry /\ new.turn = acc.turn /\ new.settled = acc.settled
    BY <1>1, <1>2 DEF Entry
  <1> QED
    BY <1>3 DEF new

\* Sequences over a part of a set.
LEMMA SeqInLarger ==
    ASSUME NEW S, NEW T, S \subseteq T, NEW es \in Seq(S)
    PROVE  es \in Seq(T)
  <1>1. \A i \in 1 .. Len(es) : es[i] \in T
    <2>1. \A i \in 1 .. Len(es) : es[i] \in S
      BY ElementOfSeq
    <2> QED
      BY <2>1
  <1> QED
    BY <1>1, SeqDef

\* What is kept of events are events, of those that were there.
LEMMA KeptIn ==
    ASSUME NEW S, NEW es \in Seq(S), NEW K
    PROVE  Kept(es, K) \in Seq(S)
  <1>1. Kept(es, K) \in Seq(S \cap K)
    BY KeptType
  <1>2. S \cap K \subseteq S
    OBVIOUS
  <1> QED
    BY <1>1, <1>2, SeqInLarger

\* The attempt an event belongs to is registered.
LEMMA ResolveType ==
    ASSUME TypeInv, NEW e \in Event
    PROVE  /\ Resolve(e) \in Attempts \cup {None}
           /\ Resolve(e) # None => Registered(Resolve(e))
  BY DEF TypeInv, TypesWithinLimit, Resolve, Event

\* Notified keeps the type of the waiting tasks.
LEMMA NotifiedType ==
    ASSUME TypeInv, NEW a \in Attempts
    PROVE  Notified(a) \in [Attempts -> [at : {"idle", "look", "noted", "armed", "parked", "returned"},
                                         woken : BOOLEAN]]
  BY DEF TypeInv, TypesWithinLimit, Notified

\* Apply changes nothing but the entry, to which it may give the runtime turn.
LEMMA ApplyType ==
    ASSUME TypeInv, NEW a \in Attempts, Registered(a), NEW es \in Seq(Event), Apply(a, es)
    PROVE  /\ entry' \in [Attempts -> Entry \cup {None}]
           /\ \A b \in Attempts : entry'[b] = None <=> entry[b] = None
           /\ entry'[a] = Applied(es, entry[a]) /\ entry'[a] \in Entry
           /\ \A b \in Attempts : b # a => entry'[b] = entry[b]
           /\ turnMap' \in [Attempts -> Attempts \cup {None}]
           /\ \A t \in Attempts : turnMap'[t] = turnMap[t] \/ turnMap'[t] = a
           /\ nativeMap' = a
           /\ applied' \in [Attempts -> Seq(Event)]
           /\ applied'[a] = applied[a] \o es
           /\ \A b \in Attempts : b # a => applied'[b] = applied[b]
           /\ waiter' \in [Attempts -> [at : {"idle", "look", "noted", "armed", "parked", "returned"},
                                        woken : BOOLEAN]]
  <1>1. entry[a] \in Entry /\ entry \in [Attempts -> Entry \cup {None}]
    BY DEF TypeInv, TypesWithinLimit, Registered
  <1> DEFINE new == Applied(es, entry[a])
  <1>2. new \in Entry
    BY <1>1, AppliedIsEntry
  <1>3. entry' = [entry EXCEPT ![a] = new]
    BY DEF Apply
  <1>4. /\ entry' \in [Attempts -> Entry \cup {None}]
        /\ \A b \in Attempts : entry'[b] = None <=> entry[b] = None
        /\ entry'[a] = new /\ entry'[a] \in Entry
        /\ \A b \in Attempts : b # a => entry'[b] = entry[b]
    <2> HIDE DEF new
    <2> QED
      BY <1>1, <1>2, <1>3, NoneAssumption
  <1>5. /\ turnMap' \in [Attempts -> Attempts \cup {None}]
        /\ \A t \in Attempts : turnMap'[t] = turnMap[t] \/ turnMap'[t] = a
    <2>1. turnMap' = IF entry'[a].turn # None THEN [turnMap EXCEPT ![entry'[a].turn] = a] ELSE turnMap
      BY DEF Apply
    <2>2. entry'[a].turn \in Attempts \cup {None}
      BY <1>4 DEF Entry
    <2> QED
      BY <2>1, <2>2 DEF TypeInv, TypesWithinLimit
  <1>6. applied' = [applied EXCEPT ![a] = @ \o es] /\ nativeMap' = a
    BY DEF Apply
  <1>7. /\ applied' \in [Attempts -> Seq(Event)]
        /\ applied'[a] = applied[a] \o es
        /\ \A b \in Attempts : b # a => applied'[b] = applied[b]
    <2>1. applied \in [Attempts -> Seq(Event)]
      BY DEF TypeInv, TypesWithinLimit
    <2>2. applied[a] \o es \in Seq(Event)
      BY <2>1, ConcatProperties
    <2> QED
      BY <1>6, <2>1, <2>2
  <1>8. waiter' = Notified(a) \/ waiter' = waiter
    BY DEF Apply
  <1>9. waiter' \in [Attempts -> [at : {"idle", "look", "noted", "armed", "parked", "returned"},
                                  woken : BOOLEAN]]
    BY <1>8, NotifiedType DEF TypeInv, TypesWithinLimit
  <1> HIDE DEF new
  <1> QED
    BY <1>4, <1>5, <1>6, <1>7, <1>9 DEF new

\* The buffer never holds more than its limit.
LEMMA BufferedType ==
    ASSUME TypeInv, NEW e \in Event
    PROVE  Buffered(e) \in Seq(Event) /\ Len(Buffered(e)) <= QueueLimit
  <1>1. unowned \in Seq(Event) /\ Len(unowned) <= QueueLimit /\ QueueLimit \in Nat \ {0}
    BY CoordinatorAssumption DEF TypeInv, TypesWithinLimit
  <1>2. CASE Len(unowned) >= QueueLimit
    <2>1. Tail(unowned) \in Seq(Event) /\ Len(Tail(unowned)) = Len(unowned) - 1
      BY <1>1, <1>2
    <2> QED
      BY <1>1, <1>2, <2>1 DEF Buffered
  <1>3. CASE ~ (Len(unowned) >= QueueLimit)
    BY <1>1, <1>3 DEF Buffered
  <1> QED
    BY <1>2, <1>3

\* An event finds its way without leaving the types.
LEMMA EmitType ==
    ASSUME TypeInv, NEW a \in Attempts, Emit(a)
    PROVE  TypeInv'
  <1> DEFINE e == EventAt(a, emitted[a] + 1)
             b == Resolve(e)
  <1>1. /\ emitted[a] \in Nat /\ emitted[a] < Len(script[a]) /\ script \in Scripts
        /\ Len(script[a]) \in Nat
        /\ emitted' = [emitted EXCEPT ![a] = @ + 1] /\ UNCHANGED <<script, dispatch>>
        /\ Ingest(e)
    <2>1. script[a] \in Seq(ScriptEvent)
      BY CoordinatorAssumption DEF TypeInv, TypesWithinLimit
    <2> QED
      BY <2>1 DEF TypeInv, TypesWithinLimit, Emit
  <1>2. /\ emitted' \in [Attempts -> Nat]
        /\ \A x \in Attempts : emitted'[x] \in 0 .. Len(script'[x])
    BY <1>1 DEF TypeInv, TypesWithinLimit
  <1>3. e \in Event
    <2>1. emitted[a] + 1 \in 1 .. Len(script[a])
      BY <1>1
    <2> QED
      BY <1>1, <2>1, EventIsGenuine DEF Genuine
  <1>4. <<e>> \in Seq(Event)
    BY <1>3
  <1>5. b \in Attempts \cup {None} /\ (b # None => Registered(b))
    BY <1>3, ResolveType
  <1> HIDE DEF e, b
  <1>6. CASE IngestUnowned(e)
    <2>1. /\ unowned' \in Seq(Event) /\ Len(unowned') <= QueueLimit /\ dropped' \in Nat
      BY <1>3, <1>6, BufferedType DEF IngestUnowned, TypeInv, TypesWithinLimit
    <2>2. UNCHANGED <<entry, turnMap, nativeMap, held, barrier, applied, waiter>>
      BY <1>6 DEF IngestUnowned, maps
    <2> QED
      BY <1>1, <1>2, <2>1, <2>2 DEF TypeInv, TypesWithinLimit, Registered
  <1>7. CASE /\ b # None /\ barrier[b] # None
             /\ entry' = [entry EXCEPT ![b] = QueuedEffect(<<e>>, entry[b])]
             /\ barrier' = [barrier EXCEPT ![b] = @ \o Waiting(<<e>>)]
             /\ UNCHANGED <<maps, unowned, dropped, applied, waiter>>
    <2> DEFINE new == QueuedEffect(<<e>>, entry[b])
               ws  == Waiting(<<e>>)
    <2>1. entry[b] \in Entry /\ b \in Attempts /\ entry \in [Attempts -> Entry \cup {None}]
      BY <1>5, <1>7 DEF TypeInv, TypesWithinLimit, Registered
    <2>2. new \in Entry
      BY <1>4, <2>1, QueuedIsEntry
    <2>3. ws \in Seq(Event)
      BY <1>4, KeptIn DEF Waiting
    <2>4. /\ entry' = [entry EXCEPT ![b] = new] /\ barrier' = [barrier EXCEPT ![b] = @ \o ws]
      BY <1>7
    <2> HIDE DEF new, ws
    <2>5. /\ entry' \in [Attempts -> Entry \cup {None}]
          /\ \A x \in Attempts : entry'[x] = None <=> entry[x] = None
      BY <2>1, <2>2, <2>4, NoneAssumption
    <2>6. barrier \in [Attempts -> Seq(Event) \cup {None}] /\ barrier[b] \o ws \in Seq(Event)
      BY <1>7, <2>1, <2>3, ConcatProperties DEF TypeInv, TypesWithinLimit
    <2>7. /\ barrier' \in [Attempts -> Seq(Event) \cup {None}]
          /\ \A x \in Attempts : barrier'[x] # None <=> barrier[x] # None
      BY <1>7, <2>1, <2>4, <2>6, NoneAssumption, ZenonT(60)
    <2> QED
      BY <1>1, <1>2, <1>7, <2>5, <2>7, ZenonT(60) DEF TypeInv, TypesWithinLimit, Registered, maps
  <1>8. CASE /\ b # None /\ barrier[b] = None
             /\ Apply(b, <<e>>)
             /\ UNCHANGED <<held, queues>>
    <2>1. b \in Attempts /\ Registered(b)
      BY <1>5, <1>8
    <2>2. /\ entry' \in [Attempts -> Entry \cup {None}]
          /\ \A x \in Attempts : entry'[x] = None <=> entry[x] = None
          /\ turnMap' \in [Attempts -> Attempts \cup {None}]
          /\ \A t \in Attempts : turnMap'[t] = turnMap[t] \/ turnMap'[t] = b
          /\ nativeMap' = b
          /\ applied' \in [Attempts -> Seq(Event)]
          /\ waiter' \in [Attempts -> [at : {"idle", "look", "noted", "armed", "parked", "returned"},
                                       woken : BOOLEAN]]
      BY <1>4, <1>8, <2>1, ApplyType
    <2>3. UNCHANGED <<held, barrier, unowned, dropped>>
      BY <1>8 DEF queues
    <2> QED
      BY <1>1, <1>2, <2>1, <2>2, <2>3, ZenonT(60) DEF TypeInv, TypesWithinLimit, Registered
  <1> QED
    BY <1>1, <1>6, <1>7, <1>8 DEF Ingest, b

\* The barrier is drained without leaving the types.
LEMMA DrainedType ==
    ASSUME TypeInv, NEW a \in Attempts, barrier[a] # None, Apply(a, barrier[a]),
           NEW new \in {None, <<>>}, barrier' = [barrier EXCEPT ![a] = new],
           UNCHANGED <<held, unowned, dropped, source>>,
           \A x \in Attempts : x # a => dispatch'[x] = dispatch[x],
           dispatch'[a] \notin {"bound", "checkAck", "awaitAck"},
           dispatch' \in [Attempts -> {"none", "registered", "held", "sent", "bound", "checkAck",
                                       "awaitAck", "draining", "failed", "done"}]
    PROVE  TypeInv'
  <1>1. Registered(a) /\ barrier[a] \in Seq(Event)
    BY DEF TypeInv, TypesWithinLimit
  <1>2. /\ entry' \in [Attempts -> Entry \cup {None}]
        /\ \A x \in Attempts : entry'[x] = None <=> entry[x] = None
        /\ turnMap' \in [Attempts -> Attempts \cup {None}]
        /\ \A t \in Attempts : turnMap'[t] = turnMap[t] \/ turnMap'[t] = a
        /\ nativeMap' = a
        /\ applied' \in [Attempts -> Seq(Event)]
        /\ waiter' \in [Attempts -> [at : {"idle", "look", "noted", "armed", "parked", "returned"},
                                     woken : BOOLEAN]]
    BY <1>1, ApplyType
  <1>3. /\ barrier' \in [Attempts -> Seq(Event) \cup {None}]
        /\ \A x \in Attempts : barrier'[x] # None => barrier[x] # None
        /\ \A x \in Attempts : x # a => barrier'[x] = barrier[x]
    <2>1. new \in Seq(Event) \cup {None}
      BY EmptySeq
    <2> QED
      BY <2>1 DEF TypeInv, TypesWithinLimit
  <1>4. \A x \in Attempts :
           entry'[x] # None /\ dispatch'[x] \in {"bound", "checkAck", "awaitAck"} => barrier'[x] # None
    <2>1. \A x \in Attempts :
             entry[x] # None /\ dispatch[x] \in {"bound", "checkAck", "awaitAck"} => barrier[x] # None
      BY DEF TypeInv, Registered
    <2>2. \A x \in Attempts : x # a => dispatch'[x] = dispatch[x]
      OBVIOUS
    <2> QED
      BY <1>2, <1>3, <2>1, <2>2
  <1>5. TypesWithinLimit' /\ emitted' \in [Attempts -> Nat]
    BY <1>2, <1>3 DEF TypeInv, TypesWithinLimit, source
  <1>6. \A x \in Attempts : /\ barrier'[x] # None => entry'[x] # None
                            /\ turnMap'[x] # None => entry'[turnMap'[x]] # None
    <2>1. \A x \in Attempts : /\ barrier[x] # None => entry[x] # None
                              /\ turnMap[x] \in Attempts \cup {None}
                              /\ turnMap[x] # None => entry[turnMap[x]] # None
      BY DEF TypeInv, TypesWithinLimit, Registered
    <2>2. entry[a] # None
      BY <1>1 DEF Registered
    <2>3. \A x \in Attempts : entry[x] # None => entry'[x] # None
      BY <1>2
    <2>4. ASSUME NEW x \in Attempts PROVE barrier'[x] # None => entry'[x] # None
      BY <1>3, <2>1, <2>3
    <2>5. ASSUME NEW x \in Attempts, turnMap'[x] # None PROVE entry'[turnMap'[x]] # None
      <3>1. CASE turnMap'[x] = a
        BY <2>2, <2>3, <3>1
      <3>2. CASE turnMap'[x] = turnMap[x]
        <4>1. turnMap[x] \in Attempts /\ entry[turnMap[x]] # None
          BY <2>1, <2>5, <3>2
        <4> QED
          BY <2>3, <3>2, <4>1
      <3> QED
        BY <1>2, <3>1, <3>2
    <2> QED
      BY <2>4, <2>5
  <1> QED
    BY <1>4, <1>5, <1>6 DEF TypeInv, Registered

\* BindRuntimeTurn keeps the types.
LEMMA BindType ==
    ASSUME TypeInv, NEW a \in Attempts, BindRuntimeTurn(a)
    PROVE  TypeInv'
  <1> DEFINE own == Kept(unowned, Naming({None, a}))
             old == [entry[a] EXCEPT !.turn = a]
             new == QueuedEffect(own, old)
             ws  == Waiting(own)
  <1>1. /\ Registered(a) /\ dispatch[a] = "sent" /\ dispatch' = [dispatch EXCEPT ![a] = "bound"]
        /\ entry' = [entry EXCEPT ![a] = new] /\ barrier' = [barrier EXCEPT ![a] = ws]
        /\ turnMap' = [turnMap EXCEPT ![a] = a] /\ nativeMap' = a /\ held' = None
        /\ unowned' = <<>> /\ UNCHANGED <<dropped, script, emitted, applied, waiter>>
    BY DEF BindRuntimeTurn, Move, source
  <1>2. own \in Seq(Event)
    BY KeptIn DEF TypeInv, TypesWithinLimit
  <1>3. old \in Entry
    BY <1>1, ZenonT(60) DEF TypeInv, TypesWithinLimit, Registered, Entry
  <1>4. new \in Entry
    <2> HIDE DEF own, old
    <2> QED
      BY <1>2, <1>3, QueuedIsEntry
  <1>5. ws \in Seq(Event)
    <2> HIDE DEF own
    <2> QED
      BY <1>2, KeptIn DEF Waiting
  <1> HIDE DEF own, old, new, ws
  <1>6. /\ entry' \in [Attempts -> Entry \cup {None}]
        /\ \A x \in Attempts : entry'[x] = None <=> entry[x] = None
    BY <1>1, <1>4, NoneAssumption DEF TypeInv, TypesWithinLimit, Registered
  <1>7. /\ barrier' \in [Attempts -> Seq(Event) \cup {None}]
        /\ \A x \in Attempts : x # a => barrier'[x] = barrier[x]
        /\ barrier'[a] # None
    BY <1>1, <1>5, NoneAssumption DEF TypeInv, TypesWithinLimit
  <1>8. /\ turnMap' \in [Attempts -> Attempts \cup {None}]
        /\ \A t \in Attempts : turnMap'[t] = turnMap[t] \/ turnMap'[t] = a
    BY <1>1 DEF TypeInv, TypesWithinLimit
  <1>9. unowned' \in Seq(Event) /\ Len(unowned') <= QueueLimit
    BY <1>1, CoordinatorAssumption, EmptySeq
  <1>10. /\ dispatch' \in [Attempts -> {"none", "registered", "held", "sent", "bound", "checkAck",
                                        "awaitAck", "draining", "failed", "done"}]
         /\ \A x \in Attempts : x # a => dispatch'[x] = dispatch[x]
    BY <1>1 DEF TypeInv, TypesWithinLimit
  <1> QED
    BY <1>1, <1>6, <1>7, <1>8, <1>9, <1>10 DEF TypeInv, TypesWithinLimit, Registered

\* A drain of the barrier, of the loop or before the dispatch gives up.
LEMMA DrainType ==
    ASSUME TypeInv, NEW a \in Attempts, CheckAck(a) \/ Drain(a)
    PROVE  TypeInv'
  <1>1. UNCHANGED source
    BY DEF CheckAck, Drain, source
  <1>2. /\ dispatch' \in [Attempts -> {"none", "registered", "held", "sent", "bound", "checkAck",
                                       "awaitAck", "draining", "failed", "done"}]
        /\ \A x \in Attempts : x # a => dispatch'[x] = dispatch[x]
    BY DEF TypeInv, TypesWithinLimit, CheckAck, Drain, Move
  <1>3. CASE /\ UNCHANGED <<entry, maps, queues, applied, waiter>>
             /\ Registered(a) /\ dispatch'[a] \in {"bound", "checkAck", "awaitAck"} =>
                   dispatch[a] = "checkAck"
    BY <1>1, <1>2, <1>3 DEF TypeInv, TypesWithinLimit, Registered, maps, queues, source
  <1>4. CASE /\ UNCHANGED <<entry, maps, applied, waiter, unowned, dropped>>
             /\ barrier' = [barrier EXCEPT ![a] = None] /\ dispatch'[a] = "done"
    BY <1>1, <1>2, <1>4 DEF TypeInv, TypesWithinLimit, Registered, maps, source
  <1>5. CASE /\ Registered(a) /\ dispatch[a] = "checkAck" /\ dispatch'[a] = "failed"
             /\ Apply(a, barrier[a])
             /\ barrier' = [barrier EXCEPT ![a] = None]
             /\ UNCHANGED <<held, unowned, dropped>>
    <2>1. barrier[a] # None
      BY <1>5 DEF TypeInv
    <2> QED
      BY <1>1, <1>2, <1>5, <2>1, DrainedType
  <1>6. CASE /\ barrier[a] \notin {None, <<>>} /\ dispatch'[a] = "draining"
             /\ Apply(a, barrier[a])
             /\ barrier' = [barrier EXCEPT ![a] = <<>>]
             /\ UNCHANGED <<held, unowned, dropped>>
    BY <1>1, <1>2, <1>6, DrainedType
  <1>7. dispatch \in [Attempts -> {"none", "registered", "held", "sent", "bound", "checkAck",
                                   "awaitAck", "draining", "failed", "done"}]
    BY DEF TypeInv, TypesWithinLimit
  <1>8. CASE CheckAck(a)
    BY <1>3, <1>5, <1>7, <1>8 DEF CheckAck, Move
  <1>9. CASE Drain(a)
    BY <1>4, <1>6, <1>7, <1>9 DEF Drain, Move
  <1> QED
    BY <1>8, <1>9

\* Every other step keeps the types.
LEMMA OtherType ==
    ASSUME TypeInv, NEW a \in Attempts,
           \/ Register(a) \/ HoldNativeSession(a) \/ SendPrompt(a) \/ LoseResponse(a)
           \/ BindRemoved(a) \/ ExpectEcho(a) \/ WakeAck(a) \/ AckTimeout(a)
           \/ \E wanted \in BOOLEAN : CancelIntent(a, wanted)
           \/ StartWaiting(a) \/ WaiterStep(a)
    PROVE  TypeInv'
  <1> USE DEF TypeInv, TypesWithinLimit, Registered, Move, maps, queues, source
  <1>1. CASE Register(a)
    <2> DEFINE new == [turn |-> None, ack |-> FALSE, permit |-> FALSE, cancel |-> FALSE, settled |-> None]
    <2>1. new \in Entry /\ new # None
      <3>1. new \in Entry
        BY DEF Entry
      <3> QED
        BY <3>1, NoneAssumption
    <2>2. entry' = [entry EXCEPT ![a] = new] /\ dispatch' = [dispatch EXCEPT ![a] = "registered"]
          /\ UNCHANGED <<maps, queues, source, applied, waiter>>
      BY <1>1 DEF Register
    <2> HIDE DEF new
    <2> QED
      BY <2>1, <2>2
  <1>2. CASE HoldNativeSession(a)
    BY <1>2 DEF HoldNativeSession
  <1>3. CASE SendPrompt(a) \/ LoseResponse(a) \/ BindRemoved(a)
    BY <1>3 DEF SendPrompt, LoseResponse, BindRemoved
  <1>4. CASE ExpectEcho(a) \/ AckTimeout(a)
    BY <1>4 DEF ExpectEcho, AckTimeout
  <1>5. CASE WakeAck(a)
    <2> DEFINE new == [entry[a] EXCEPT !.permit = FALSE]
    <2>1. new \in Entry /\ new # None
      <3>1. entry[a] \in Entry
        BY <1>5 DEF WakeAck
      <3>2. new \in Entry
        BY <3>1 DEF Entry
      <3> HIDE DEF new
      <3> QED
        BY <3>2, NoneAssumption
    <2>2. entry' = [entry EXCEPT ![a] = new] /\ dispatch' = [dispatch EXCEPT ![a] = "checkAck"]
          /\ dispatch[a] = "awaitAck" /\ entry[a] # None
          /\ UNCHANGED <<maps, queues, source, applied, waiter>>
      BY <1>5 DEF WakeAck
    <2> HIDE DEF new
    <2> QED
      BY <2>1, <2>2
  <1>6. CASE \E wanted \in BOOLEAN : CancelIntent(a, wanted)
    <2> PICK wanted \in BOOLEAN : CancelIntent(a, wanted)
      BY <1>6
    <2> DEFINE new == [entry[a] EXCEPT !.cancel = wanted]
    <2>1. new \in Entry /\ new # None
      <3>1. entry[a] \in Entry
        BY DEF CancelIntent
      <3>2. new \in Entry
        BY <3>1 DEF Entry
      <3> HIDE DEF new
      <3> QED
        BY <3>2, NoneAssumption
    <2>2. entry' = [entry EXCEPT ![a] = new] /\ entry[a] # None
          /\ UNCHANGED <<maps, queues, source, applied, dispatch, waiter>>
      BY DEF CancelIntent
    <2> HIDE DEF new
    <2> QED
      BY <2>1, <2>2
  <1>7. CASE StartWaiting(a) \/ WaiterStep(a)
    <2>1. UNCHANGED <<entry, maps, queues, source, applied, dispatch>>
      BY <1>7 DEF StartWaiting, WaiterStep, Look, Enable, LookAgain, Wake
    <2>2. waiter' \in [Attempts -> [at : {"idle", "look", "noted", "armed", "parked", "returned"},
                                    woken : BOOLEAN]]
      <3> DEFINE W == [Attempts -> [at : {"idle", "look", "noted", "armed", "parked", "returned"},
                                    woken : BOOLEAN]]
      <3>1. \A to \in {"look", "noted", "armed", "parked", "returned"} : [waiter EXCEPT ![a].at = to] \in W
        OBVIOUS
      <3>2. [waiter EXCEPT ![a] = [at |-> "look", woken |-> FALSE]] \in W
        OBVIOUS
      <3>3. \/ \E to \in {"look", "noted", "armed", "parked", "returned"} :
                   waiter' = [waiter EXCEPT ![a].at = to]
            \/ waiter' = [waiter EXCEPT ![a] = [at |-> "look", woken |-> FALSE]]
        BY <1>7 DEF StartWaiting, WaiterStep, Look, Enable, LookAgain, Wake, At
      <3>4. waiter' \in W
        <4> HIDE DEF W
        <4> QED
          BY <3>1, <3>2, <3>3
      <3> QED
        BY <3>4
    <2> QED
      BY <2>1, <2>2
  <1> QED
    BY <1>1, <1>2, <1>3, <1>4, <1>5, <1>6, <1>7

\* A removed attempt leaves nothing behind.
LEMMA RemoveType ==
    ASSUME TypeInv, NEW a \in Attempts, RemoveAttempt(a)
    PROVE  TypeInv'
  <1>1. waiter' \in [Attempts -> [at : {"idle", "look", "noted", "armed", "parked", "returned"},
                                  woken : BOOLEAN]]
    BY NotifiedType DEF RemoveAttempt
  <1>2. unowned' \in Seq(Event) /\ Len(unowned') <= QueueLimit
    BY CoordinatorAssumption, EmptySeq DEF RemoveAttempt, TypeInv, TypesWithinLimit
  <1> QED
    BY <1>1, <1>2 DEF RemoveAttempt, TypeInv, TypesWithinLimit, Registered, source

\* No step leaves the types.
LEMMA TypeStep ==
    ASSUME TypeInv, [Next]_vars
    PROVE  TypeInv'
  <1>1. CASE UNCHANGED vars
    BY <1>1 DEF TypeInv, TypesWithinLimit, Registered, vars, maps, queues, source
  <1>2. CASE Next
    <2> PICK a \in Attempts :
            \/ Emit(a)
            \/ Register(a) \/ HoldNativeSession(a) \/ SendPrompt(a) \/ LoseResponse(a)
            \/ BindRuntimeTurn(a) \/ BindRemoved(a) \/ ExpectEcho(a) \/ AckStep(a) \/ AckTimeout(a) \/ Drain(a)
            \/ \E wanted \in BOOLEAN : CancelIntent(a, wanted)
            \/ RemoveSettled(a) \/ RemoveAbandoned(a)
            \/ StartWaiting(a) \/ WaiterStep(a)
      BY <1>2 DEF Next
    <2>1. CASE Emit(a)
      BY <2>1, EmitType
    <2>2. CASE BindRuntimeTurn(a)
      BY <2>2, BindType
    <2>3. CASE CheckAck(a) \/ Drain(a)
      BY <2>3, DrainType
    <2>4. CASE RemoveSettled(a) \/ RemoveAbandoned(a)
      BY <2>4, RemoveType DEF RemoveSettled, RemoveAbandoned
    <2>5. CASE \/ Register(a) \/ HoldNativeSession(a) \/ SendPrompt(a) \/ LoseResponse(a)
               \/ BindRemoved(a) \/ ExpectEcho(a) \/ WakeAck(a) \/ AckTimeout(a)
               \/ \E wanted \in BOOLEAN : CancelIntent(a, wanted)
               \/ StartWaiting(a) \/ WaiterStep(a)
      BY <2>5, OtherType
    <2> QED
      BY <2>1, <2>2, <2>3, <2>4, <2>5 DEF AckStep
  <1> QED
    BY <1>1, <1>2

\* The types hold at the start.
LEMMA TypeInit == ASSUME Init PROVE TypeInv
  <1>1. ASSUME NEW a \in Attempts PROVE 0 \in 0 .. Len(script[a])
    <2>1. script[a] \in Seq(ScriptEvent)
      BY CoordinatorAssumption DEF Init
    <2>2. Len(script[a]) \in Nat
      BY <2>1
    <2> QED
      BY <2>2
  <1>2. /\ unowned \in Seq(Event) /\ Len(unowned) <= QueueLimit
        /\ applied \in [Attempts -> Seq(Event)]
    BY CoordinatorAssumption, EmptySeq DEF Init
  <1>3. /\ entry \in [Attempts -> Entry \cup {None}]
        /\ turnMap \in [Attempts -> Attempts \cup {None}]
        /\ barrier \in [Attempts -> Seq(Event) \cup {None}]
        /\ nativeMap \in Attempts \cup {None} /\ held \in Attempts \cup {None}
        /\ dropped \in Nat /\ script \in Scripts /\ emitted \in [Attempts -> Nat]
        /\ \A a \in Attempts : emitted[a] \in 0 .. Len(script[a])
    BY <1>1 DEF Init
  <1>4. /\ dispatch \in [Attempts -> {"none", "registered", "held", "sent", "bound", "checkAck",
                                      "awaitAck", "draining", "failed", "done"}]
        /\ waiter \in [Attempts -> [at : {"idle", "look", "noted", "armed", "parked", "returned"},
                                    woken : BOOLEAN]]
    BY DEF Init
  <1>5. \A a \in Attempts : entry[a] = None /\ barrier[a] = None /\ turnMap[a] = None
    BY DEF Init
  <1> QED
    BY <1>2, <1>3, <1>4, <1>5 DEF TypeInv, TypesWithinLimit, Registered

\* Whatever the runtime reports, and whenever, the coordinator keeps its types,
\* and never more unowned events than MAX_UNOWNED_EVENTS.
THEOREM TypeCorrect == Spec => []TypesWithinLimit
  <1>1. Init => TypeInv
    BY TypeInit
  <1>2. TypeInv /\ [Next]_vars => TypeInv'
    BY TypeStep
  <1>3. TypeInv => TypesWithinLimit
    BY DEF TypeInv
  <1> QED
    BY <1>1, <1>2, <1>3, PTL DEF Spec

-----------------------------------------------------------------------------
(***************************************************************************)
(* Steps that move no event.                                               *)
(***************************************************************************)
\* What may be in the buffer may stay there.
LEMMA UnclaimedStays ==
    ASSUME \A b \in Attempts : /\ Early(b)' => Early(b)
                               /\ Registered(b)' /\ ~ Unbound(b)' => Registered(b) /\ ~ Unbound(b)
    PROVE  Unclaimed \subseteq Unclaimed'
  <1> SUFFICES ASSUME NEW e \in Unclaimed PROVE e \in Unclaimed'
    OBVIOUS
  <1>1. e \in Genuine /\ e.of \in Attempts
    BY DEF Unclaimed, Genuine, Event
  <1> HIDE DEF Genuine, Early, Registered, Unbound
  <1> QED
    BY <1>1 DEF Unclaimed

\* Only the stage of a dispatch, the hold and what neither binds nor settles
\* an attempt may change.
Quiet ==
    /\ UNCHANGED <<turnMap, nativeMap, unowned, dropped, script, emitted, applied>>
    /\ \A b \in Attempts :
          /\ entry'[b] = None <=> entry[b] = None
          /\ entry[b] # None => entry'[b].turn = entry[b].turn /\ entry'[b].settled = entry[b].settled
          /\ barrier'[b] = barrier[b] \/ (barrier[b] = <<>> /\ barrier'[b] = None)
          /\ Early(b)' => Early(b)

\* Then all but the stages is as before.
LEMMA QuietStep ==
    ASSUME Inv, Quiet
    PROVE  Attributed' /\ Matched' /\ FirstSettles' /\ Ordered'
  <1>1. \A b \in Attempts : /\ Registered(b)' <=> Registered(b)
                            /\ Bound(b)' <=> Bound(b)
                            /\ Unbound(b)' <=> Unbound(b)
    BY DEF Quiet, Registered, Bound, Unbound
  <1>2. UNCHANGED <<turnMap, nativeMap, unowned, dropped, script, emitted, applied>>
    BY DEF Quiet
  <1>3. Attributed'
    <2>1. Unclaimed \subseteq Unclaimed'
      BY <1>1, UnclaimedStays DEF Quiet
    <2>2. unowned' \in Seq(Unclaimed')
      BY <1>2, <2>1, SeqInLarger DEF Inv, Attributed
    <2>3. \A a \in Attempts : /\ applied'[a] \in Seq(Meant(a))
                              /\ barrier'[a] \in Seq(Meant(a)) \cup {None}
      BY <1>2 DEF Quiet, Inv, Attributed
    <2> QED
      BY <2>2, <2>3 DEF Attributed
  <1>4. Matched'
    <2>1. \A b \in Attempts : barrier'[b] # None => barrier[b] # None
      BY DEF Quiet
    <2>2. \A b \in Attempts : Registered(b) => entry'[b].turn = entry[b].turn
      BY DEF Quiet, Registered
    <2>3. nativeMap \in Attempts \cup {None}
      BY DEF Inv, TypeInv, TypesWithinLimit
    <2> QED
      BY <1>1, <1>2, <2>1, <2>2, <2>3 DEF Inv, Matched
  <1>5. FirstSettles'
    <2>1. \A b \in Attempts : Registered(b) => entry'[b].settled = entry[b].settled
      BY DEF Quiet, Registered
    <2> QED
      BY <1>1, <1>2, <2>1 DEF Inv, FirstSettles
  <1>6. Ordered'
    <2>1. \A b \in Attempts : Reported(b)' = Reported(b)
      BY <1>2 DEF Reported, EventAt
    <2>2. \A b \in Attempts : Behind(b)' = Behind(b)
      BY DEF Quiet, Behind
    <2> QED
      BY <1>1, <1>2, <2>1, <2>2 DEF Inv, Ordered
  <1> QED
    BY <1>3, <1>4, <1>5, <1>6

\* The steps that are quiet.
QuietAction(a) ==
    \/ HoldNativeSession(a) \/ SendPrompt(a) \/ LoseResponse(a) \/ BindRemoved(a) \/ ExpectEcho(a)
    \/ WakeAck(a) \/ AckTimeout(a) \/ StartWaiting(a) \/ WaiterStep(a)
    \/ \E wanted \in BOOLEAN : CancelIntent(a, wanted)
    \/ CheckAck(a) /\ UNCHANGED <<entry, maps, queues, applied, waiter>>
    \/ Drain(a) /\ barrier[a] \in {None, <<>>} /\ barrier' = [barrier EXCEPT ![a] = None]
                /\ UNCHANGED <<entry, maps, applied, waiter>>

\* They are, and the stages are in order.
LEMMA QuietActions ==
    ASSUME Inv, NEW a \in Attempts, QuietAction(a)
    PROVE  Quiet /\ Staged'
  <1>1. /\ UNCHANGED <<turnMap, nativeMap, unowned, dropped, script, emitted, applied>>
        /\ \A b \in Attempts : barrier'[b] = barrier[b] \/ (barrier[b] = <<>> /\ barrier'[b] = None)
    BY DEF QuietAction, HoldNativeSession, SendPrompt, LoseResponse, BindRemoved, ExpectEcho, WakeAck,
           AckTimeout, StartWaiting, WaiterStep, Look, Enable, LookAgain, Wake, CancelIntent, CheckAck,
           Drain, maps, queues, source, Inv, TypeInv, TypesWithinLimit
  <1>2. \A b \in Attempts :
           /\ entry'[b] = None <=> entry[b] = None
           /\ entry[b] # None => entry'[b].turn = entry[b].turn /\ entry'[b].settled = entry[b].settled
    <2>1. CASE UNCHANGED entry
      BY <2>1
    <2>2. CASE WakeAck(a) \/ \E wanted \in BOOLEAN : CancelIntent(a, wanted)
      <3>1. PICK wanted \in BOOLEAN : \/ entry' = [entry EXCEPT ![a].permit = FALSE]
                                      \/ entry' = [entry EXCEPT ![a].cancel = wanted]
        BY <2>2 DEF WakeAck, CancelIntent
      <3>2. entry \in [Attempts -> Entry \cup {None}] /\ entry[a] \in Entry
        BY <2>2 DEF Inv, TypeInv, TypesWithinLimit, WakeAck, CancelIntent, Registered
      <3> DEFINE new1 == [entry[a] EXCEPT !.permit = FALSE]
                 new2 == [entry[a] EXCEPT !.cancel = wanted]
      <3>3. /\ new1 \in Entry /\ new1.turn = entry[a].turn /\ new1.settled = entry[a].settled
            /\ new2 \in Entry /\ new2.turn = entry[a].turn /\ new2.settled = entry[a].settled
        BY <3>2 DEF Entry
      <3>4. entry' = [entry EXCEPT ![a] = new1] \/ entry' = [entry EXCEPT ![a] = new2]
        BY <3>1
      <3> HIDE DEF new1, new2
      <3> QED
        BY <3>2, <3>3, <3>4, NoneAssumption
    <2> QED
      BY <2>1, <2>2 DEF QuietAction, HoldNativeSession, SendPrompt, LoseResponse, BindRemoved, ExpectEcho,
           AckTimeout, StartWaiting, WaiterStep, Look, Enable, LookAgain, Wake, CheckAck, Drain
  <1>3. dispatch \in [Attempts -> {"none", "registered", "held", "sent", "bound", "checkAck",
                                   "awaitAck", "draining", "failed", "done"}]
    BY DEF Inv, TypeInv, TypesWithinLimit
  <1>4. \A b \in Attempts :
           \/ dispatch'[b] = dispatch[b] /\ (held' = held \/ held \in {None, a})
           \/ b = a /\ dispatch[a] = "registered" /\ dispatch'[a] = "held" /\ held' = a
           \/ b = a /\ dispatch[a] = "held" /\ dispatch'[a] = "sent" /\ held' = held
           \/ b = a /\ dispatch[a] \notin {"none", "registered", "held"}
                    /\ dispatch'[a] \notin {"none", "registered", "held", "sent"} /\ held' = held
    BY <1>3 DEF QuietAction, HoldNativeSession, SendPrompt, LoseResponse, BindRemoved, ExpectEcho, WakeAck,
           AckTimeout, StartWaiting, WaiterStep, Look, Enable, LookAgain, Wake, CancelIntent, CheckAck,
           Drain, maps, Move
  <1>5. /\ \A b \in Attempts : dispatch'[b] # "none" \/ dispatch'[b] = dispatch[b]
        /\ \A b \in Attempts : Early(b)' => Early(b)
    BY <1>4 DEF Early
  <1>6. Quiet
    BY <1>1, <1>2, <1>5 DEF Quiet
  <1>7. held' = held \/ (held \in {None, a} /\ held' = a)
    BY DEF QuietAction, HoldNativeSession, SendPrompt, LoseResponse, BindRemoved, ExpectEcho, WakeAck,
           AckTimeout, StartWaiting, WaiterStep, Look, Enable, LookAgain, Wake, CancelIntent, CheckAck,
           Drain, maps
  <1>8. \A b \in Attempts : /\ Registered(b)' <=> Registered(b)
                            /\ Unbound(b)' <=> Unbound(b)
    BY <1>2 DEF Registered, Unbound
  <1>9. Staged'
    <2>1. ASSUME NEW b \in Attempts
          PROVE  /\ dispatch'[b] = "none" => ~ Registered(b)'
                 /\ Early(b)' => emitted'[b] = 0
                 /\ Unbound(b)' \/ dispatch'[b] = "none" => applied'[b] = <<>>
                 /\ Registered(b)' /\ dispatch'[b] \in {"registered", "held", "sent"} => Unbound(b)'
                 /\ Unbound(b)' /\ dispatch'[b] # "registered" => held' = b
      <3>1. /\ dispatch[b] = "none" => ~ Registered(b)
            /\ Early(b) => emitted[b] = 0
            /\ Unbound(b) \/ dispatch[b] = "none" => applied[b] = <<>>
            /\ Registered(b) /\ dispatch[b] \in {"registered", "held", "sent"} => Unbound(b)
            /\ Unbound(b) /\ dispatch[b] # "registered" => held = b
        BY DEF Inv, Staged
      <3>2. Unbound(b) => b # None
        BY NoneAssumption
      <3> QED
        BY <1>1, <1>4, <1>5, <1>7, <1>8, <3>1, <3>2
    <2> QED
      BY <2>1 DEF Staged
  <1> QED
    BY <1>6, <1>9

-----------------------------------------------------------------------------
(***************************************************************************)
(* An attempt comes and goes.                                              *)
(***************************************************************************)
\* What a turn has reported are events of it.
LEMMA ReportedType ==
    ASSUME TypeInv, NEW a \in Attempts
    PROVE  /\ Reported(a) \in Seq({e \in Genuine : e.of = a})
           /\ Len(Reported(a)) = emitted[a]
  <1>1. emitted[a] \in Nat /\ script \in Scripts /\ emitted[a] <= Len(script[a]) /\ Len(script[a]) \in Nat
    <2>1. script[a] \in Seq(ScriptEvent)
      BY CoordinatorAssumption DEF TypeInv, TypesWithinLimit
    <2> QED
      BY <2>1 DEF TypeInv, TypesWithinLimit
  <1>2. ASSUME NEW i \in 1 .. emitted[a] PROVE EventAt(a, i) \in {e \in Genuine : e.of = a}
    <2>1. i \in 1 .. Len(script[a])
      BY <1>1
    <2> QED
      BY <1>1, <2>1, EventIsGenuine
  <1>3. Reported(a) = [i \in 1 .. emitted[a] |-> EventAt(a, i)]
    BY DEF Reported
  <1> HIDE DEF Genuine, EventAt
  <1> QED
    BY <1>1, <1>2, <1>3

\* Of an attempt that is bound nothing tracked is in the buffer, of one whose
\* prompt is not sent nothing at all.
LEMMA NothingUnclaimed ==
    ASSUME Attributed, NEW a \in Attempts, Bound(a) \/ Early(a)
    PROVE  Kept(unowned, Of(a) \cap Tracked) = <<>>
  <1>1. \A e \in Unclaimed : e \notin Of(a) \cap Tracked
    <2> SUFFICES ASSUME NEW e \in Unclaimed, e.of = a, e \in Tracked PROVE FALSE
      BY DEF Of
    <2>1. ~ Early(a) /\ (Registered(a) => Unbound(a))
      BY DEF Unclaimed
    <2> QED
      BY <2>1, NoneAssumption DEF Bound, Unbound
  <1>2. unowned \in Seq(Unclaimed)
    BY DEF Attributed
  <1>3. \A i \in 1 .. Len(unowned) : unowned[i] \in Unclaimed
    BY <1>2, ElementOfSeq
  <1> HIDE DEF Unclaimed, Of, Tracked
  <1> QED
    BY <1>1, <1>2, <1>3, KeptNothing

\* A new attempt finds nothing of its own.
LEMMA RegisterStep ==
    ASSUME Inv, NEW a \in Attempts, Register(a)
    PROVE  Attributed' /\ Matched' /\ Staged' /\ FirstSettles' /\ Ordered'
  <1>1. UNCHANGED <<turnMap, nativeMap, held, barrier, unowned, dropped, script, emitted, applied>>
    BY DEF Register, maps, queues, source
  <1>2. /\ dispatch[a] = "none" /\ dispatch'[a] = "registered"
        /\ \A b \in Attempts : b # a => dispatch'[b] = dispatch[b]
    BY DEF Register, Move, Inv, TypeInv, TypesWithinLimit
  <1>3. /\ entry'[a] # None /\ entry'[a].turn = None /\ entry'[a].settled = None
        /\ \A b \in Attempts : b # a => entry'[b] = entry[b]
    <2> DEFINE new == [turn |-> None, ack |-> FALSE, permit |-> FALSE, cancel |-> FALSE, settled |-> None]
    <2>1. new \in Entry
      BY DEF Entry
    <2>2. new # None /\ new.turn = None /\ new.settled = None
      BY <2>1, NoneAssumption
    <2>3. entry' = [entry EXCEPT ![a] = new] /\ entry \in [Attempts -> Entry \cup {None}]
      BY DEF Register, Inv, TypeInv, TypesWithinLimit
    <2> HIDE DEF new
    <2> QED
      BY <2>2, <2>3
  <1>4. /\ ~ Registered(a) /\ ~ Bound(a) /\ ~ Unbound(a) /\ Registered(a)' /\ Unbound(a)' /\ ~ Bound(a)'
        /\ \A b \in Attempts : b # a => /\ Registered(b)' <=> Registered(b)
                                        /\ Bound(b)' <=> Bound(b)
                                        /\ Unbound(b)' <=> Unbound(b)
    BY <1>2, <1>3, NoneAssumption DEF Inv, Staged, Registered, Bound, Unbound
  <1>5. Early(a) /\ \A b \in Attempts : Early(b)' => Early(b)
    BY <1>2 DEF Early
  <1>6. applied[a] = <<>> /\ emitted[a] = 0 /\ barrier[a] = None /\ turnMap[a] = None
    BY <1>2, <1>4, <1>5 DEF Inv, Staged, Matched
  <1>7. Attributed'
    <2>1. Unclaimed \subseteq Unclaimed'
      BY <1>4, <1>5, UnclaimedStays
    <2>2. unowned' \in Seq(Unclaimed')
      BY <1>1, <2>1, SeqInLarger DEF Inv, Attributed
    <2> QED
      BY <1>1, <2>2 DEF Inv, Attributed
  <1>8. Matched'
    <2>1. nativeMap \in Attempts \cup {None}
      BY DEF Inv, TypeInv, TypesWithinLimit
    <2> QED
      BY <1>1, <1>3, <1>4, <1>6, <2>1 DEF Inv, Matched
  <1>9. Staged'
    BY <1>1, <1>2, <1>3, <1>4, <1>5, <1>6 DEF Inv, Staged, Early
  <1>10. FirstSettles'
    <2>1. Kept(applied[a], Terminals) = <<>>
      BY <1>6, KeptEmpty
    <2> QED
      BY <1>1, <1>3, <1>4, <2>1 DEF Inv, FirstSettles
  <1>11. Ordered'
    <2>1. \A b \in Attempts : Reported(b)' = Reported(b) /\ Behind(b)' = Behind(b)
      BY <1>1 DEF Reported, EventAt, Behind
    <2>2. Kept(unowned, Of(a) \cap Tracked) = <<>>
      BY <1>5, NothingUnclaimed DEF Inv
    <2>3. Kept(Reported(a), Tracked) = <<>>
      <3>1. Reported(a) \in Seq({e \in Genuine : e.of = a}) /\ Len(Reported(a)) = 0
        BY <1>6, ReportedType DEF Inv
      <3>2. Reported(a) = <<>>
        BY <3>1, EmptySeq
      <3> QED
        BY <3>2, KeptEmpty
    <2> QED
      BY <1>1, <1>4, <2>1, <2>2, <2>3 DEF Inv, Ordered
  <1> QED
    BY <1>7, <1>8, <1>9, <1>10, <1>11

\* An attempt that goes takes the buffer along only if nobody else's is in it.
LEMMA RemoveStep ==
    ASSUME Inv, NEW a \in Attempts, RemoveAttempt(a)
    PROVE  Attributed' /\ Matched' /\ Staged' /\ FirstSettles' /\ Ordered'
  <1>1. /\ UNCHANGED <<dropped, script, emitted, applied, dispatch>>
        /\ nativeMap' = IF nativeMap = a THEN None ELSE nativeMap
        /\ held' = IF held = a THEN None ELSE held
        /\ unowned' = IF held = a THEN <<>> ELSE unowned
    BY DEF RemoveAttempt, source
  <1>2. /\ entry[a] # None /\ entry'[a] = None
        /\ \A b \in Attempts : b # a => entry'[b] = entry[b]
    BY DEF RemoveAttempt, Registered, Inv, TypeInv, TypesWithinLimit
  <1>3. /\ barrier'[a] = None
        /\ \A b \in Attempts : b # a => barrier'[b] = barrier[b]
    BY DEF RemoveAttempt, Inv, TypeInv, TypesWithinLimit
  <1>4. \A t \in Attempts : turnMap'[t] = IF turnMap[t] = a THEN None ELSE turnMap[t]
    BY DEF RemoveAttempt
  <1>5. /\ Registered(a) /\ ~ Registered(a)' /\ ~ Unbound(a)' /\ ~ Bound(a)'
        /\ \A b \in Attempts : b # a => /\ Registered(b)' <=> Registered(b)
                                        /\ Bound(b)' <=> Bound(b)
                                        /\ Unbound(b)' <=> Unbound(b)
    BY <1>2 DEF Registered, Bound, Unbound
  <1>6. \A b \in Attempts : Early(b)' <=> Early(b)
    BY <1>1 DEF Early
  <1>7. Attributed'
    <2>1. Unclaimed \subseteq Unclaimed'
      BY <1>5, <1>6, UnclaimedStays
    <2>2. unowned \in Seq(Unclaimed')
      BY <2>1, SeqInLarger DEF Inv, Attributed
    <2>3. unowned' \in Seq(Unclaimed')
      BY <1>1, <2>2, EmptySeq
    <2>4. \A b \in Attempts : barrier'[b] = barrier[b] \/ barrier'[b] = None
      BY <1>3
    <2> QED
      BY <1>1, <2>3, <2>4 DEF Inv, Attributed
  <1>8. Matched'
    <2>1. nativeMap \in Attempts \cup {None}
      BY DEF Inv, TypeInv, TypesWithinLimit
    <2>2. \A b \in Attempts : turnMap[b] = IF Bound(b) THEN b ELSE None
      BY DEF Inv, Matched
    <2>3. \A b \in Attempts : turnMap'[b] = IF Bound(b)' THEN b ELSE None
      BY <1>4, <1>5, <2>2
    <2>4. nativeMap' # None => Bound(nativeMap)'
      <3> SUFFICES ASSUME NEW m, m = nativeMap', m # None PROVE Bound(m)'
        BY DEF Bound, Registered
      <3>1. m = nativeMap /\ m # a /\ m \in Attempts
        BY <1>1, <2>1
      <3> QED
        BY <1>5, <3>1 DEF Inv, Matched
    <2>5. \A b \in Attempts : /\ Registered(b)' => entry'[b].turn \in {None, b}
                              /\ barrier'[b] # None => Bound(b)'
      BY <1>2, <1>3, <1>5 DEF Inv, Matched
    <2> QED
      BY <2>3, <2>4, <2>5 DEF Matched
  <1>9. Staged'
    <2>1. dispatch[a] # "none"
      BY <1>5 DEF Inv, Staged
    <2>2. ASSUME NEW b \in Attempts
          PROVE  /\ dispatch'[b] = "none" => ~ Registered(b)'
                 /\ Early(b)' => emitted'[b] = 0
                 /\ Unbound(b)' \/ dispatch'[b] = "none" => applied'[b] = <<>>
                 /\ Registered(b)' /\ dispatch'[b] \in {"registered", "held", "sent"} => Unbound(b)'
                 /\ Unbound(b)' /\ dispatch'[b] # "registered" => held' = b
      BY <1>1, <1>5, <1>6, <2>1 DEF Inv, Staged
    <2> QED
      BY <2>2 DEF Staged
  <1>10. FirstSettles'
    BY <1>1, <1>2, <1>5 DEF Inv, FirstSettles
  <1>11. Ordered'
    <2>1. \A b \in Attempts : Reported(b)' = Reported(b)
      BY <1>1 DEF Reported, EventAt
    <2>2. \A b \in Attempts : b # a => Behind(b)' = Behind(b)
      BY <1>3 DEF Behind
    <2>3. ASSUME NEW b \in Attempts, b # a, Unbound(b)
          PROVE  Kept(unowned', Of(b) \cap Tracked) = Kept(unowned, Of(b) \cap Tracked)
      <3>1. CASE held = a
        <4>1. Early(b)
          BY <2>3, <3>1 DEF Inv, Staged, Early
        <4>2. Kept(unowned, Of(b) \cap Tracked) = <<>>
          BY <4>1, NothingUnclaimed DEF Inv
        <4> QED
          BY <1>1, <3>1, <4>2, KeptEmpty
      <3>2. CASE held # a
        BY <1>1, <3>2
      <3> QED
        BY <3>1, <3>2
    <2> QED
      BY <1>1, <1>5, <2>1, <2>2, <2>3 DEF Inv, Ordered
  <1> QED
    BY <1>7, <1>8, <1>9, <1>10, <1>11

-----------------------------------------------------------------------------
(***************************************************************************)
(* Events are applied.                                                     *)
(***************************************************************************)
\* What is first stays first.
LEMMA ConcatFirst ==
    ASSUME NEW S, NEW x \in Seq(S), NEW y \in Seq(S)
    PROVE  /\ x # <<>> => x \o y # <<>> /\ (x \o y)[1] = x[1]
           /\ x = <<>> => x \o y = y
  <1>1. PICK n \in Nat : n = Len(x)
    OBVIOUS
  <1>2. PICK m \in Nat : m = Len(y)
    OBVIOUS
  <1> DEFINE z == x \o y
  <1>3. Len(z) = n + m /\ \A i \in 1 .. n : z[i] = x[i]
    BY <1>1, <1>2, ConcatProperties
  <1>4. x # <<>> => n # 0
    BY <1>1, EmptySeq
  <1>5. Len(<<>>) = 0
    OBVIOUS
  <1>6. x = <<>> => z = y
    BY ConcatEmptySeq
  <1> HIDE DEF z
  <1>7. n # 0 => z # <<>> /\ z[1] = x[1]
    BY <1>3, <1>5
  <1> QED
    BY <1>4, <1>6, <1>7 DEF z

\* What settles an attempt is the first terminal that is applied to it.
LEMMA AppliedSettles ==
    ASSUME NEW acc \in Entry, NEW old \in Seq(Event), NEW es \in Seq(Event),
           acc.settled = None <=> Kept(old, Terminals) = <<>>,
           Kept(old, Terminals) # <<>> =>
              \/ acc.settled = Kept(old, Terminals)[1].outcome
              \/ acc.settled = "cancelled" /\ Kept(old, Terminals)[1].outcome = "failed"
    PROVE  LET ended == Kept(old \o es, Terminals)
               new   == Applied(es, acc)
           IN  /\ new.settled = None <=> ended = <<>>
               /\ ended # <<>> => \/ new.settled = ended[1].outcome
                                  \/ new.settled = "cancelled" /\ ended[1].outcome = "failed"
  <1> DEFINE was == Kept(old, Terminals)
             add == Kept(es, Terminals)
             ended == Kept(old \o es, Terminals)
             new == Applied(es, acc)
  <1>1. ended = was \o add /\ was \in Seq(Event) /\ add \in Seq(Event)
    <2>1. ended = was \o add
      BY KeptConcat
    <2>2. was \in Seq(Event)
      BY KeptIn
    <2>3. add \in Seq(Event)
      BY KeptIn
    <2> QED
      BY <2>1, <2>2, <2>3
  <1>2. /\ was # <<>> => ended # <<>> /\ ended[1] = was[1]
        /\ was = <<>> => ended = add
    <2> HIDE DEF was, add, ended
    <2> QED
      BY <1>1, ConcatFirst
  <1>3. \A i \in 1 .. Len(es) : es[i] \in Event /\ (es[i] \in Terminals <=> IsTerminal(es[i]))
    <2>1. \A i \in 1 .. Len(es) : es[i] \in Event
      BY ElementOfSeq
    <2> QED
      BY <2>1 DEF Terminals
  <1>4. /\ acc.settled # None => new.settled = acc.settled
        /\ acc.settled = None /\ ~ HasTerminal(es) => new.settled = None
        /\ acc.settled = None /\ HasTerminal(es) =>
                 \E m \in 1 .. Len(es) : /\ IsTerminal(es[m])
                                         /\ \A i \in 1 .. Len(es) : i < m => ~ IsTerminal(es[i])
                                         /\ new.settled = SettledBy(es[m], acc)
    BY AppliedIsEntry
  <1>5. CASE acc.settled # None
    <2> HIDE DEF was, add, ended, new
    <2>1. was # <<>>
      BY <1>5 DEF was
    <2> QED
      BY <1>2, <1>4, <1>5, <2>1 DEF was, ended, new
  <1>6. CASE acc.settled = None /\ ~ HasTerminal(es)
    <2>1. add = <<>>
      <3>1. \A i \in 1 .. Len(es) : es[i] \notin Terminals
        BY <1>3, <1>6 DEF HasTerminal
      <3> HIDE DEF Terminals
      <3> QED
        BY <3>1, KeptNothing
    <2> HIDE DEF add, ended, new
    <2> QED
      BY <1>2, <1>4, <1>6, <2>1 DEF ended, new
  <1>7. CASE acc.settled = None /\ HasTerminal(es)
    <2>1. PICK m \in 1 .. Len(es) : /\ IsTerminal(es[m])
                                    /\ \A i \in 1 .. Len(es) : i < m => ~ IsTerminal(es[i])
                                    /\ new.settled = SettledBy(es[m], acc)
      BY <1>4, <1>7
    <2>2. add # <<>> /\ add[1] = es[m]
      <3>1. es[m] \in Terminals /\ \A i \in 1 .. Len(es) : i < m => es[i] \notin Terminals
        BY <1>3, <2>1
      <3> HIDE DEF Terminals
      <3> QED
        BY <3>1, KeptFirst
    <2>3. ended # <<>> /\ ended[1] = es[m]
      <3> HIDE DEF add, ended
      <3> QED
        BY <1>2, <1>7, <2>2 DEF was
    <2>4. es[m].outcome \in Outcomes
      BY <1>3 DEF Event
    <2>5. /\ new.settled # None
          /\ \/ new.settled = es[m].outcome
             \/ new.settled = "cancelled" /\ es[m].outcome = "failed"
      BY <2>1, <2>4, NoneAssumption DEF SettledBy
    <2> HIDE DEF ended, new
    <2> QED
      BY <2>3, <2>5 DEF ended, new
  <1> QED
    BY <1>5, <1>6, <1>7

\* Events that are applied to an attempt that is bound change nothing but what
\* is applied to it and its settlement.
LEMMA ApplyStep ==
    ASSUME Inv, NEW a \in Attempts, Bound(a), NEW es \in Seq(Meant(a)), Apply(a, es)
    PROVE  /\ \A b \in Attempts : /\ Registered(b)' <=> Registered(b)
                                  /\ Bound(b)' <=> Bound(b)
                                  /\ Unbound(b)' <=> Unbound(b)
                                  /\ Registered(b) => entry'[b].turn = entry[b].turn
                                  /\ turnMap'[b] = turnMap[b]
                                  /\ b # a => applied'[b] = applied[b]
           /\ nativeMap' = a
           /\ applied'[a] = applied[a] \o es
           /\ applied'[a] \in Seq(Meant(a))
           /\ FirstSettles'
  <1>1. es \in Seq(Event) /\ applied[a] \in Seq(Event)
    <2>1. Meant(a) \subseteq Event
      BY DEF Meant, Genuine
    <2> QED
      BY <2>1, SeqInLarger DEF Inv, Attributed
  <1>2. TypeInv /\ Registered(a) /\ a # None
    BY NoneAssumption DEF Inv, Bound
  <1>3. /\ \A b \in Attempts : entry'[b] = None <=> entry[b] = None
        /\ entry'[a] = Applied(es, entry[a])
        /\ \A b \in Attempts : b # a => entry'[b] = entry[b]
        /\ \A t \in Attempts : turnMap'[t] = turnMap[t] \/ turnMap'[t] = a
        /\ nativeMap' = a
        /\ applied'[a] = applied[a] \o es
        /\ \A b \in Attempts : b # a => applied'[b] = applied[b]
    BY <1>1, <1>2, ApplyType
  <1>4. entry[a] \in Entry /\ entry[a].turn = a
    BY <1>2 DEF TypeInv, TypesWithinLimit, Registered, Bound
  <1>5. entry'[a].turn = a
    BY <1>1, <1>2, <1>3, <1>4, AppliedIsEntry
  <1>6. \A t \in Attempts : turnMap'[t] = turnMap[t]
    <2>1. turnMap' = [turnMap EXCEPT ![a] = a]
      BY <1>2, <1>5 DEF Apply
    <2>2. turnMap[a] = a
      BY DEF Inv, Matched
    <2> QED
      BY <1>2, <2>1, <2>2 DEF TypeInv, TypesWithinLimit
  <1>7. \A b \in Attempts : /\ Registered(b)' <=> Registered(b)
                            /\ Registered(b) => entry'[b].turn = entry[b].turn
    BY <1>3, <1>4, <1>5 DEF Registered
  <1>8. \A b \in Attempts : /\ Bound(b)' <=> Bound(b)
                            /\ Unbound(b)' <=> Unbound(b)
    BY <1>7 DEF Bound, Unbound
  <1>9. applied'[a] \in Seq(Meant(a))
    <2>1. applied[a] \in Seq(Meant(a))
      BY DEF Inv, Attributed
    <2> HIDE DEF Meant
    <2> QED
      BY <1>3, <2>1, ConcatProperties
  <1>10. FirstSettles'
    <2> DEFINE Good(acc, ended) ==
               /\ acc.settled = None <=> ended = <<>>
               /\ ended # <<>> => \/ acc.settled = ended[1].outcome
                                  \/ acc.settled = "cancelled" /\ ended[1].outcome = "failed"
    <2>1. \A b \in Attempts : Registered(b) => Good(entry[b], Kept(applied[b], Terminals))
      BY DEF Inv, FirstSettles
    <2>2. Good(entry'[a], Kept(applied'[a], Terminals))
      <3>1. Good(entry[a], Kept(applied[a], Terminals))
        BY <1>2, <2>1
      <3>2. Good(Applied(es, entry[a]), Kept(applied[a] \o es, Terminals))
        BY <1>1, <1>4, <3>1, AppliedSettles
      <3> QED
        BY <1>3, <3>2
    <2>3. \A b \in Attempts : Registered(b)' => Good(entry'[b], Kept(applied'[b], Terminals))
      <3> HIDE DEF Good
      <3> QED
        BY <1>3, <1>7, <2>1, <2>2
    <2> QED
      BY <2>3 DEF FirstSettles
  <1> QED
    BY <1>3, <1>6, <1>7, <1>8, <1>9, <1>10

\* What was behind the barrier is applied in its order.
LEMMA DrainedStep ==
    ASSUME Inv, NEW a \in Attempts, barrier[a] # None, Apply(a, barrier[a]),
           NEW new \in {None, <<>>}, barrier' = [barrier EXCEPT ![a] = new],
           UNCHANGED <<held, unowned, dropped, source>>,
           \A x \in Attempts : x # a => dispatch'[x] = dispatch[x],
           dispatch[a] \notin {"none", "registered", "held", "sent"},
           dispatch'[a] \notin {"none", "registered", "held", "sent"}
    PROVE  Attributed' /\ Matched' /\ Staged' /\ FirstSettles' /\ Ordered'
  <1>1. Bound(a) /\ barrier[a] \in Seq(Meant(a)) /\ ~ Unbound(a) /\ a # None
    BY NoneAssumption DEF Inv, Matched, Attributed, Bound, Unbound
  <1>2. /\ \A b \in Attempts : /\ Registered(b)' <=> Registered(b)
                               /\ Bound(b)' <=> Bound(b)
                               /\ Unbound(b)' <=> Unbound(b)
                               /\ Registered(b) => entry'[b].turn = entry[b].turn
                               /\ turnMap'[b] = turnMap[b]
                               /\ b # a => applied'[b] = applied[b]
        /\ nativeMap' = a
        /\ applied'[a] = applied[a] \o barrier[a]
        /\ applied'[a] \in Seq(Meant(a))
        /\ FirstSettles'
    <2> HIDE DEF Inv, Bound, Meant, Apply
    <2> QED
      BY <1>1, ApplyStep
  <1>3. UNCHANGED <<held, unowned, dropped, script, emitted>>
    BY DEF source
  <1>4. barrier'[a] = new /\ \A b \in Attempts : b # a => barrier'[b] = barrier[b]
    BY DEF Inv, TypeInv, TypesWithinLimit
  <1>5. \A b \in Attempts : Early(b)' <=> Early(b)
    BY DEF Early
  <1>6. Attributed'
    <2>1. Unclaimed \subseteq Unclaimed'
      BY <1>2, <1>5, UnclaimedStays
    <2>2. unowned' \in Seq(Unclaimed')
      BY <1>3, <2>1, SeqInLarger DEF Inv, Attributed
    <2>3. barrier'[a] \in Seq(Meant(a)) \cup {None}
      BY <1>4, EmptySeq
    <2> HIDE DEF Meant
    <2> QED
      BY <1>2, <1>4, <2>2, <2>3 DEF Inv, Attributed
  <1>7. Matched'
    <2>1. \A b \in Attempts : barrier'[b] # None => barrier[b] # None
      BY <1>4
    <2>2. nativeMap' # None => Bound(nativeMap)'
      BY <1>1, <1>2 DEF Bound, Registered
    <2> QED
      BY <1>2, <2>1, <2>2 DEF Inv, Matched
  <1>8. Staged'
    <2>1. ASSUME NEW b \in Attempts
          PROVE  /\ dispatch'[b] = "none" => ~ Registered(b)'
                 /\ Early(b)' => emitted'[b] = 0
                 /\ Unbound(b)' \/ dispatch'[b] = "none" => applied'[b] = <<>>
                 /\ Registered(b)' /\ dispatch'[b] \in {"registered", "held", "sent"} => Unbound(b)'
                 /\ Unbound(b)' /\ dispatch'[b] # "registered" => held' = b
      BY <1>1, <1>2, <1>3, <1>5 DEF Inv, Staged
    <2> QED
      BY <2>1 DEF Staged
  <1>9. Ordered'
    <2>1. \A b \in Attempts : Reported(b)' = Reported(b)
      BY <1>3 DEF Reported, EventAt
    <2>2. \A b \in Attempts : b # a => Behind(b)' = Behind(b)
      BY <1>4 DEF Behind
    <2>3. applied'[a] \o Behind(a)' = applied[a] \o Behind(a)
      <3>1. Behind(a)' = <<>> /\ Behind(a) = barrier[a]
        BY <1>4 DEF Behind
      <3>2. applied'[a] \o <<>> = applied'[a]
        BY <1>2, ConcatEmptySeq
      <3> QED
        BY <1>2, <3>1, <3>2
    <2>4. \A b \in Attempts : applied'[b] \o Behind(b)' = applied[b] \o Behind(b)
      BY <1>2, <2>2, <2>3
    <2> QED
      BY <1>2, <1>3, <2>1, <2>4 DEF Inv, Ordered
  <1> QED
    BY <1>2, <1>6, <1>7, <1>8, <1>9

-----------------------------------------------------------------------------
(***************************************************************************)
(* The runtime turn becomes known.                                         *)
(***************************************************************************)
\* What the buffer holds of an attempt goes behind its barrier.
LEMMA BoundBehind ==
    ASSUME NEW a \in Attempts, NEW es \in Seq(Genuine)
    PROVE  LET own == Kept(es, Naming({None, a}))
           IN  /\ Waiting(own) \in Seq(Meant(a))
               /\ Kept(Waiting(own), Tracked) = Kept(es, Of(a) \cap Tracked)
  <1> DEFINE N   == Naming({None, a})
             W   == Event \ Echoes
             own == Kept(es, N)
             ws  == Waiting(own)
  <1>1. own \in Seq(Meant(a))
    <2>1. own \in Seq(Genuine \cap N)
      BY KeptType
    <2>2. Genuine \cap N \subseteq Meant(a)
      BY DEF Meant, Naming
    <2> QED
      BY <2>1, <2>2, SeqInLarger
  <1>2. ws \in Seq(Meant(a))
    <2> HIDE DEF own
    <2> QED
      BY <1>1, KeptIn DEF Waiting
  <1>3. Kept(ws, Tracked) = Kept(own, W \cap Tracked)
    <2>1. ws = Kept(own, W)
      BY DEF Waiting
    <2> HIDE DEF own, ws, W
    <2> QED
      BY <1>1, <2>1, KeptTwice
  <1>4. Kept(own, W \cap Tracked) = Kept(es, N \cap (W \cap Tracked))
    <2> HIDE DEF W, N
    <2> QED
      BY KeptTwice
  <1>5. Kept(es, N \cap (W \cap Tracked)) = Kept(es, Of(a) \cap Tracked)
    <2>1. \A e \in Genuine : e \in N \cap (W \cap Tracked) <=> e \in Of(a) \cap Tracked
      BY NoneAssumption DEF Genuine, Naming, Tracked, Of
    <2> HIDE DEF N, W
    <2> QED
      BY <2>1, KeptSame
  <1> QED
    BY <1>2, <1>3, <1>4, <1>5

\* BindRuntimeTurn binds the attempt that holds the session, and the buffer
\* held nothing of any other attempt that is still there.
LEMMA BindStep ==
    ASSUME Inv, NEW a \in Attempts, BindRuntimeTurn(a)
    PROVE  Attributed' /\ Matched' /\ Staged' /\ FirstSettles' /\ Ordered'
  <1> DEFINE own == Kept(unowned, Naming({None, a}))
             old == [entry[a] EXCEPT !.turn = a]
             new == QueuedEffect(own, old)
             ws  == Waiting(own)
  <1>1. /\ Registered(a) /\ dispatch[a] = "sent" /\ dispatch' = [dispatch EXCEPT ![a] = "bound"]
        /\ entry' = [entry EXCEPT ![a] = new] /\ barrier' = [barrier EXCEPT ![a] = ws]
        /\ turnMap' = [turnMap EXCEPT ![a] = a] /\ nativeMap' = a /\ held' = None
        /\ unowned' = <<>> /\ UNCHANGED <<dropped, script, emitted, applied>>
    BY DEF BindRuntimeTurn, Move, source
  <1>2. unowned \in Seq(Genuine) /\ unowned \in Seq(Event)
    <2>1. Unclaimed \subseteq Genuine
      BY DEF Unclaimed
    <2> QED
      BY <2>1, SeqInLarger DEF Inv, Attributed, TypeInv, TypesWithinLimit
  <1>3. ws \in Seq(Meant(a)) /\ Kept(ws, Tracked) = Kept(unowned, Of(a) \cap Tracked)
    BY <1>2, BoundBehind
  <1>4. new \in Entry /\ new.turn = a /\ new.settled = entry[a].settled
    <2>1. own \in Seq(Event)
      BY <1>2, KeptIn
    <2>2. old \in Entry /\ old.turn = a /\ old.settled = entry[a].settled
      BY <1>1, ZenonT(60) DEF Inv, TypeInv, TypesWithinLimit, Registered, Entry
    <2> HIDE DEF own, old
    <2>3. new.turn = old.turn /\ new.settled = old.settled /\ new \in Entry
      BY <2>1, <2>2, QueuedIsEntry
    <2> QED
      BY <2>2, <2>3
  <1> HIDE DEF own, old, new, ws
  <1>5. /\ entry'[a] = new /\ entry'[a] # None
        /\ \A b \in Attempts : b # a => entry'[b] = entry[b]
    BY <1>1, <1>4, NoneAssumption DEF Inv, TypeInv, TypesWithinLimit
  <1>6. /\ barrier'[a] = ws /\ ws # None
        /\ \A b \in Attempts : b # a => barrier'[b] = barrier[b]
    <2>1. Meant(a) \subseteq Event
      BY DEF Meant, Genuine
    <2>2. ws \in Seq(Event)
      BY <1>3, <2>1, SeqInLarger
    <2> QED
      BY <1>1, <2>2, NoneAssumption DEF Inv, TypeInv, TypesWithinLimit
  <1>7. /\ turnMap'[a] = a
        /\ \A b \in Attempts : b # a => turnMap'[b] = turnMap[b]
    BY <1>1 DEF Inv, TypeInv, TypesWithinLimit
  <1>8. /\ dispatch'[a] = "bound"
        /\ \A b \in Attempts : b # a => dispatch'[b] = dispatch[b]
    BY <1>1 DEF Inv, TypeInv, TypesWithinLimit
  <1>9. /\ Unbound(a) /\ held = a /\ applied[a] = <<>>
        /\ Registered(a)' /\ Bound(a)' /\ ~ Unbound(a)'
        /\ \A b \in Attempts : b # a => /\ Registered(b)' <=> Registered(b)
                                        /\ Bound(b)' <=> Bound(b)
                                        /\ Unbound(b)' <=> Unbound(b)
    <2>1. Unbound(a) /\ held = a /\ applied[a] = <<>>
      BY <1>1 DEF Inv, Staged
    <2>2. Registered(a)' /\ Bound(a)' /\ ~ Unbound(a)'
      BY <1>4, <1>5, NoneAssumption DEF Registered, Bound, Unbound
    <2> QED
      BY <1>5, <2>1, <2>2 DEF Registered, Bound, Unbound
  <1>10. \A b \in Attempts : Early(b)' => Early(b)
    BY <1>8 DEF Early
  <1>11. \A b \in Attempts : b # a /\ Unbound(b) => dispatch[b] = "registered" /\ Early(b)
    BY <1>9 DEF Inv, Staged, Early
  <1>12. Attributed'
    <2>1. unowned' \in Seq(Unclaimed')
      BY <1>1, EmptySeq
    <2> HIDE DEF Meant
    <2> QED
      BY <1>1, <1>3, <1>6, <2>1 DEF Inv, Attributed
  <1>13. Matched'
    <2>1. nativeMap' # None => Bound(nativeMap)'
      BY <1>1, <1>9 DEF Bound, Registered
    <2> QED
      BY <1>4, <1>5, <1>6, <1>7, <1>9, <2>1 DEF Inv, Matched
  <1>14. Staged'
    <2>1. ASSUME NEW b \in Attempts
          PROVE  /\ dispatch'[b] = "none" => ~ Registered(b)'
                 /\ Early(b)' => emitted'[b] = 0
                 /\ Unbound(b)' \/ dispatch'[b] = "none" => applied'[b] = <<>>
                 /\ Registered(b)' /\ dispatch'[b] \in {"registered", "held", "sent"} => Unbound(b)'
                 /\ Unbound(b)' /\ dispatch'[b] # "registered" => held' = b
      <3>1. CASE b = a
        BY <1>1, <1>8, <1>9, <3>1 DEF Early
      <3>2. CASE b # a
        BY <1>1, <1>8, <1>9, <1>10, <1>11, <3>2 DEF Inv, Staged
      <3> QED
        BY <3>1, <3>2
    <2> QED
      BY <2>1 DEF Staged
  <1>15. FirstSettles'
    BY <1>1, <1>4, <1>5, <1>9 DEF Inv, FirstSettles
  <1>16. Ordered'
    <2>1. \A b \in Attempts : Reported(b)' = Reported(b)
      BY <1>1 DEF Reported, EventAt
    <2>2. \A b \in Attempts : b # a => Behind(b)' = Behind(b)
      BY <1>6 DEF Behind
    <2>3. dropped = 0 => Kept(applied[a] \o Behind(a)', Tracked) = Kept(Reported(a), Tracked)
      <3>1. Behind(a)' = ws
        BY <1>6 DEF Behind
      <3>2. applied[a] \o ws = ws
        BY <1>3, <1>9, ConcatEmptySeq
      <3> QED
        BY <1>3, <1>9, <3>1, <3>2 DEF Inv, Ordered
    <2>4. \A b \in Attempts : b # a /\ Unbound(b) =>
             Kept(unowned', Of(b) \cap Tracked) = Kept(unowned, Of(b) \cap Tracked)
      <3> SUFFICES ASSUME NEW b \in Attempts, b # a, Unbound(b)
                   PROVE  Kept(unowned', Of(b) \cap Tracked) = Kept(unowned, Of(b) \cap Tracked)
        OBVIOUS
      <3>1. Kept(unowned, Of(b) \cap Tracked) = <<>>
        BY <1>11, NothingUnclaimed DEF Inv
      <3>2. Kept(<<>>, Of(b) \cap Tracked) = <<>>
        BY KeptEmpty
      <3> QED
        BY <1>1, <3>1, <3>2
    <2> QED
      BY <1>1, <1>9, <2>1, <2>2, <2>3, <2>4 DEF Inv, Ordered
  <1> QED
    BY <1>12, <1>13, <1>14, <1>15, <1>16

-----------------------------------------------------------------------------
(***************************************************************************)
(* The runtime reports an event.                                           *)
(***************************************************************************)
\* It is the last of what the turn has reported.
LEMMA ReportedGrows ==
    ASSUME TypeInv, NEW a \in Attempts, Emit(a)
    PROVE  LET e == EventAt(a, emitted[a] + 1)
           IN  /\ e \in Genuine /\ e.of = a
               /\ Kept(Reported(a)', Tracked) = IF e \in Tracked THEN Append(Kept(Reported(a), Tracked), e)
                                                ELSE Kept(Reported(a), Tracked)
               /\ \A b \in Attempts : b # a => Reported(b)' = Reported(b)
               /\ UNCHANGED <<script, dispatch>>
               /\ \A b \in Attempts : b # a => emitted'[b] = emitted[b]
  <1> DEFINE e == EventAt(a, emitted[a] + 1)
  <1>1. /\ emitted[a] \in Nat /\ emitted[a] < Len(script[a]) /\ script \in Scripts
        /\ Len(script[a]) \in Nat
        /\ emitted' = [emitted EXCEPT ![a] = @ + 1] /\ UNCHANGED <<script, dispatch>>
    <2>1. script[a] \in Seq(ScriptEvent)
      BY CoordinatorAssumption DEF TypeInv, TypesWithinLimit
    <2> QED
      BY <2>1 DEF TypeInv, TypesWithinLimit, Emit
  <1>2. PICK n \in Nat : n = emitted[a]
    BY <1>1
  <1>3. /\ emitted'[a] = n + 1
        /\ \A b \in Attempts : b # a => emitted'[b] = emitted[b]
    BY <1>1, <1>2 DEF TypeInv, TypesWithinLimit
  <1>4. e \in Genuine /\ e.of = a
    <2>1. emitted[a] + 1 \in 1 .. Len(script[a])
      BY <1>1
    <2> QED
      BY <1>1, <2>1, EventIsGenuine
  <1>5. Reported(a) \in Seq(Genuine) /\ Len(Reported(a)) = n
    <2>1. {x \in Genuine : x.of = a} \subseteq Genuine
      OBVIOUS
    <2> QED
      BY <1>2, <2>1, ReportedType, SeqInLarger
  <1>6. /\ Reported(a)  = [i \in 1 .. n |-> EventAt(a, i)]
        /\ Reported(a)' = [i \in 1 .. n + 1 |-> EventAt(a, i)]
    BY <1>1, <1>2, <1>3 DEF Reported, EventAt
  <1>7. Reported(a)' = Append(Reported(a), e)
    <2> DEFINE r == Reported(a)
               s == Append(r, e)
    <2>1. /\ s \in Seq(Genuine) /\ Len(s) = n + 1 /\ s[n + 1] = e
          /\ \A i \in 1 .. n : s[i] = r[i]
      <3> HIDE DEF Genuine, e, r
      <3> QED
        BY <1>4, <1>5, AppendProperties DEF r
    <2>2. s = [i \in 1 .. n + 1 |-> s[i]]
      BY <2>1
    <2>3. \A i \in 1 .. n + 1 : s[i] = EventAt(a, i)
      <3>1. \A i \in 1 .. n + 1 : i \in 1 .. n \/ i = n + 1
        OBVIOUS
      <3>2. e = EventAt(a, n + 1)
        BY <1>2
      <3>3. \A i \in 1 .. n : r[i] = EventAt(a, i)
        BY <1>6
      <3> HIDE DEF s, r, e
      <3> QED
        BY <2>1, <3>1, <3>2, <3>3
    <2> HIDE DEF s
    <2>4. s = Reported(a)'
      BY <1>6, <2>2, <2>3
    <2> QED
      BY <2>4 DEF s
  <1>8. Kept(Append(Reported(a), e), Tracked) =
           IF e \in Tracked THEN Append(Kept(Reported(a), Tracked), e) ELSE Kept(Reported(a), Tracked)
    <2> HIDE DEF Genuine, Tracked, e
    <2> QED
      BY <1>4, <1>5, KeptAppend
  <1>9. \A b \in Attempts : b # a => Reported(b)' = Reported(b)
    BY <1>1, <1>3 DEF Reported, EventAt
  <1>10. Kept(Reported(a)', Tracked) =
           IF e \in Tracked THEN Append(Kept(Reported(a), Tracked), e) ELSE Kept(Reported(a), Tracked)
    BY <1>7, <1>8
  <1> HIDE DEF e
  <1> QED
    BY <1>1, <1>3, <1>4, <1>9, <1>10 DEF e

\* An event that reaches an attempt is meant for it, and it is bound.
LEMMA ResolveBound ==
    ASSUME Inv, NEW e \in Genuine, NEW b, b = Resolve(e)
    PROVE  /\ b # None => b \in Attempts /\ Bound(b) /\ e \in Meant(b)
           /\ b # None /\ e \in Tracked => b = e.of
           /\ b = None /\ e \in Tracked => ~ Bound(e.of)
  <1>1. /\ e \in Event /\ e.of \in Attempts /\ e.turn \in {None, e.of}
    BY DEF Genuine, Event
  <1>2. e \in Tracked => e.turn = e.of /\ e.of # None
    BY <1>1, NoneAssumption DEF Tracked, Naming
  <1>3. nativeMap \in Attempts \cup {None} /\ (nativeMap # None => Bound(nativeMap))
    BY DEF Inv, TypeInv, TypesWithinLimit, Matched
  <1>4. turnMap[e.of] = IF Bound(e.of) THEN e.of ELSE None
    BY <1>1 DEF Inv, Matched
  <1>5. CASE e.turn # None /\ turnMap[e.turn] # None
    <2>1. b = e.of /\ Bound(e.of)
      BY <1>1, <1>4, <1>5 DEF Resolve
    <2> QED
      BY <1>1, <2>1, NoneAssumption DEF Meant
  <1>6. CASE ~ (e.turn # None /\ turnMap[e.turn] # None)
    <2>1. e \in Tracked => ~ Bound(e.of)
      BY <1>2, <1>4, <1>6
    <2>2. b # None => b = nativeMap /\ (e.turn = None \/ entry[nativeMap].turn = None)
      BY <1>6 DEF Resolve
    <2>3. b # None => b \in Attempts /\ Bound(b) /\ e.turn = None
      BY <1>3, <2>2 DEF Bound
    <2> QED
      BY <1>2, <2>1, <2>3 DEF Meant
  <1> QED
    BY <1>5, <1>6

\* One more event at the end of what an attempt got.
LEMMA LineGrows ==
    ASSUME NEW x \in Seq(Event), NEW y \in Seq(Event), NEW e \in Event
    PROVE  /\ Kept(Append(x, e) \o <<>>, Tracked) =
                 IF e \in Tracked THEN Append(Kept(x \o <<>>, Tracked), e) ELSE Kept(x \o <<>>, Tracked)
           /\ Kept(x \o (y \o Waiting(<<e>>)), Tracked) =
                 IF e \in Tracked THEN Append(Kept(x \o y, Tracked), e) ELSE Kept(x \o y, Tracked)
  <1>1. \A z \in Seq(Event) : Kept(Append(z, e), Tracked) =
                 IF e \in Tracked THEN Append(Kept(z, Tracked), e) ELSE Kept(z, Tracked)
    <2> SUFFICES ASSUME NEW z \in Seq(Event)
                 PROVE  Kept(Append(z, e), Tracked) =
                           IF e \in Tracked THEN Append(Kept(z, Tracked), e) ELSE Kept(z, Tracked)
      OBVIOUS
    <2> HIDE DEF Tracked
    <2> QED
      BY KeptAppend
  <1>2. x \o <<>> = x /\ Append(x, e) \o <<>> = Append(x, e)
    <2>1. Append(x, e) \in Seq(Event)
      BY AppendProperties
    <2> QED
      BY <2>1, ConcatEmptySeq
  <1>3. Waiting(<<e>>) = IF e \in Echoes THEN <<>> ELSE <<e>>
    <2> DEFINE W == Event \ Echoes
    <2>1. Kept(Append(<<>>, e), W) = IF e \in W THEN Append(Kept(<<>>, W), e) ELSE Kept(<<>>, W)
      <3> HIDE DEF W
      <3>1. ASSUME NEW z \in Seq(Event)
            PROVE  Kept(Append(z, e), W) = IF e \in W THEN Append(Kept(z, W), e) ELSE Kept(z, W)
        BY KeptAppend
      <3>2. <<>> \in Seq(Event)
        BY EmptySeq
      <3> QED
        BY <3>1, <3>2
    <2>2. Kept(<<>>, W) = <<>>
      BY KeptEmpty
    <2>3. Append(<<>>, e) = <<e>>
      OBVIOUS
    <2>4. Waiting(<<e>>) = Kept(<<e>>, W)
      BY DEF Waiting
    <2> HIDE DEF W
    <2>5. Waiting(<<e>>) = IF e \in W THEN <<e>> ELSE <<>>
      BY <2>1, <2>2, <2>3, <2>4
    <2> QED
      BY <2>5 DEF W
  <1>4. CASE e \in Echoes
    <2>1. y \o <<>> = y
      BY ConcatEmptySeq
    <2>2. e \notin Tracked
      BY <1>4 DEF Tracked
    <2> HIDE DEF Tracked
    <2> QED
      BY <1>1, <1>2, <1>3, <1>4, <2>1, <2>2
  <1>5. CASE e \notin Echoes
    <2>1. y \o <<e>> = Append(y, e)
      BY AppendIsConcat
    <2>2. x \o Append(y, e) = Append(x \o y, e)
      BY AppendToConcat
    <2>3. x \o y \in Seq(Event)
      BY ConcatProperties
    <2>4. Kept(Append(x \o y, e), Tracked) =
             IF e \in Tracked THEN Append(Kept(x \o y, Tracked), e) ELSE Kept(x \o y, Tracked)
      BY <1>1, <2>3
    <2> HIDE DEF Tracked
    <2> QED
      BY <1>1, <1>2, <1>3, <1>5, <2>1, <2>2, <2>4
  <1> QED
    BY <1>4, <1>5

\* An event nobody owns is buffered if it is an attempt's.
LEMMA EmitUnowned ==
    ASSUME Inv, NEW a \in Attempts, Emit(a), IngestUnowned(EventAt(a, emitted[a] + 1))
    PROVE  Attributed' /\ Matched' /\ Staged' /\ FirstSettles' /\ Ordered'
  <1> DEFINE e == EventAt(a, emitted[a] + 1)
  <1>1. /\ e \in Genuine /\ e.of = a
        /\ Kept(Reported(a)', Tracked) = IF e \in Tracked THEN Append(Kept(Reported(a), Tracked), e)
                                         ELSE Kept(Reported(a), Tracked)
        /\ \A b \in Attempts : b # a => Reported(b)' = Reported(b)
        /\ UNCHANGED <<script, dispatch>>
        /\ \A b \in Attempts : b # a => emitted'[b] = emitted[b]
    BY ReportedGrows DEF Inv
  <1>2. ~ Early(a)
    BY DEF Emit, Early
  <1> HIDE DEF e
  <1>3. /\ Resolve(e) = None
        /\ UNCHANGED <<entry, turnMap, nativeMap, held, barrier, applied>>
        /\ \/ ~ IsHeld /\ UNCHANGED <<unowned, dropped>>
           \/ /\ IsHeld /\ unowned' = Buffered(e)
              /\ dropped' = IF Len(unowned) >= QueueLimit THEN dropped + 1 ELSE dropped
    BY DEF IngestUnowned, maps, e
  <1>4. \A b \in Attempts : /\ Registered(b)' <=> Registered(b)
                            /\ Bound(b)' <=> Bound(b)
                            /\ Unbound(b)' <=> Unbound(b)
                            /\ Early(b)' <=> Early(b)
                            /\ Behind(b)' = Behind(b)
    BY <1>1, <1>3 DEF Registered, Bound, Unbound, Early, Behind
  <1>5. e \in Tracked => ~ Bound(a)
    BY <1>1, <1>3, ResolveBound
  <1>6. Registered(a) /\ e \in Tracked => Unbound(a)
    <2>1. Registered(a) => entry[a].turn \in {None, a}
      BY DEF Inv, Matched
    <2> QED
      BY <1>5, <2>1 DEF Bound, Unbound
  <1>7. Registered(a) /\ e \in Tracked => IsHeld
    <2>1. Unbound(a) => held = a
      BY <1>2 DEF Inv, Staged, Early
    <2> QED
      BY <1>6, <2>1, NoneAssumption DEF IsHeld
  <1>8. e \in Unclaimed
    BY <1>1, <1>2, <1>6 DEF Unclaimed
  <1>9. Attributed'
    <2>1. Unclaimed \subseteq Unclaimed'
      BY <1>4, UnclaimedStays
    <2>2. unowned' \in Seq(Unclaimed)
      <3>1. unowned \in Seq(Unclaimed)
        BY DEF Inv, Attributed
      <3>2. Len(unowned) >= QueueLimit => Tail(unowned) \in Seq(Unclaimed)
        <4>1. Len(unowned) >= QueueLimit => unowned # <<>>
          BY CoordinatorAssumption
        <4> HIDE DEF Unclaimed
        <4> QED
          BY <3>1, <4>1, HeadTailProperties
      <3> HIDE DEF Unclaimed
      <3> QED
        BY <1>3, <1>8, <3>1, <3>2, AppendProperties DEF Buffered
    <2>3. unowned' \in Seq(Unclaimed')
      BY <2>1, <2>2, SeqInLarger
    <2> QED
      BY <1>3, <2>3 DEF Inv, Attributed
  <1>10. Matched'
    <2>1. nativeMap' # None => Bound(nativeMap)'
      BY <1>3 DEF Inv, Matched, Bound, Registered
    <2> QED
      BY <1>3, <1>4, <2>1 DEF Inv, Matched
  <1>11. Staged'
    BY <1>1, <1>2, <1>3, <1>4 DEF Inv, Staged
  <1>12. FirstSettles'
    BY <1>3, <1>4 DEF Inv, FirstSettles
  <1>13. Ordered'
    <2>1. dropped' = 0 => dropped = 0 /\ ((unowned' = unowned /\ ~ IsHeld) \/ unowned' = Append(unowned, e))
      BY <1>3 DEF Buffered, Inv, TypeInv, TypesWithinLimit
    <2>2. unowned \in Seq(Event) /\ e \in Event
      BY <1>1 DEF Inv, TypeInv, TypesWithinLimit, Genuine
    <2>3. \A b \in Attempts : Kept(Append(unowned, e), Of(b) \cap Tracked) =
                                 IF e \in Of(b) \cap Tracked THEN Append(Kept(unowned, Of(b) \cap Tracked), e)
                                 ELSE Kept(unowned, Of(b) \cap Tracked)
      <3> SUFFICES ASSUME NEW b \in Attempts
                   PROVE  Kept(Append(unowned, e), Of(b) \cap Tracked) =
                                 IF e \in Of(b) \cap Tracked THEN Append(Kept(unowned, Of(b) \cap Tracked), e)
                                 ELSE Kept(unowned, Of(b) \cap Tracked)
        OBVIOUS
      <3> DEFINE K == Of(b) \cap Tracked
      <3> HIDE DEF K
      <3>1. Kept(Append(unowned, e), K) = IF e \in K THEN Append(Kept(unowned, K), e) ELSE Kept(unowned, K)
        BY <2>2, KeptAppend
      <3> QED
        BY <3>1 DEF K
    <2>4. \A b \in Attempts : e \in Of(b) <=> b = a
      BY <1>1, <2>2 DEF Of
    <2>5. ASSUME NEW b \in Attempts, Bound(b), dropped' = 0
          PROVE  Kept(applied[b] \o Behind(b), Tracked) = Kept(Reported(b)', Tracked)
      <3>1. Kept(applied[b] \o Behind(b), Tracked) = Kept(Reported(b), Tracked)
        BY <2>1, <2>5 DEF Inv, Ordered
      <3> QED
        BY <1>1, <1>5, <2>5, <3>1
    <2>6. ASSUME NEW b \in Attempts, Unbound(b), dropped' = 0
          PROVE  Kept(unowned', Of(b) \cap Tracked) = Kept(Reported(b)', Tracked)
      <3>1. Kept(unowned, Of(b) \cap Tracked) = Kept(Reported(b), Tracked)
        BY <2>1, <2>6 DEF Inv, Ordered
      <3>2. CASE b # a
        <4>1. Reported(b)' = Reported(b)
          BY <1>1, <3>2
        <4>2. e \notin Of(b) \cap Tracked
          BY <2>4, <3>2
        <4> QED
          BY <2>1, <2>3, <2>6, <3>1, <4>1, <4>2
      <3>3. CASE b = a /\ e \in Tracked
        <4>1. IsHeld
          BY <1>7, <2>6, <3>3 DEF Unbound
        <4>2. e \in Of(b) \cap Tracked
          BY <2>4, <3>3
        <4> QED
          BY <1>1, <2>1, <2>3, <2>6, <3>1, <3>3, <4>1, <4>2
      <3>4. CASE b = a /\ e \notin Tracked
        <4>1. e \notin Of(b) \cap Tracked
          BY <3>4
        <4> QED
          BY <1>1, <2>1, <2>3, <2>6, <3>1, <3>4, <4>1
      <3> QED
        BY <3>2, <3>3, <3>4
    <2> QED
      BY <1>3, <1>4, <2>5, <2>6 DEF Ordered
  <1> QED
    BY <1>9, <1>10, <1>11, <1>12, <1>13

\* An event of an attempt without a barrier is applied.
LEMMA EmitDirect ==
    ASSUME Inv, NEW a \in Attempts, Emit(a), NEW b,
           b = Resolve(EventAt(a, emitted[a] + 1)), b # None, barrier[b] = None,
           Apply(b, <<EventAt(a, emitted[a] + 1)>>), UNCHANGED <<held, queues>>
    PROVE  Attributed' /\ Matched' /\ Staged' /\ FirstSettles' /\ Ordered'
  <1> DEFINE e == EventAt(a, emitted[a] + 1)
  <1>1. /\ e \in Genuine /\ e.of = a
        /\ Kept(Reported(a)', Tracked) = IF e \in Tracked THEN Append(Kept(Reported(a), Tracked), e)
                                         ELSE Kept(Reported(a), Tracked)
        /\ \A c \in Attempts : c # a => Reported(c)' = Reported(c)
        /\ UNCHANGED <<script, dispatch>>
        /\ \A c \in Attempts : c # a => emitted'[c] = emitted[c]
    BY ReportedGrows DEF Inv
  <1>2. ~ Early(a)
    BY DEF Emit, Early
  <1>3. /\ b \in Attempts /\ Bound(b) /\ e \in Meant(b)
        /\ e \in Tracked => b = a
    BY <1>1, ResolveBound
  <1>4. Apply(b, <<e>>)
    OBVIOUS
  <1> HIDE DEF e
  <1>5. /\ \A c \in Attempts : /\ Registered(c)' <=> Registered(c)
                               /\ Bound(c)' <=> Bound(c)
                               /\ Unbound(c)' <=> Unbound(c)
                               /\ Registered(c) => entry'[c].turn = entry[c].turn
                               /\ turnMap'[c] = turnMap[c]
                               /\ c # b => applied'[c] = applied[c]
        /\ nativeMap' = b
        /\ applied'[b] = applied[b] \o <<e>>
        /\ applied'[b] \in Seq(Meant(b))
        /\ FirstSettles'
    <2>1. <<e>> \in Seq(Meant(b))
      BY <1>3
    <2> HIDE DEF Inv, Bound, Meant, Apply
    <2> QED
      BY <1>3, <1>4, <2>1, ApplyStep
  <1>6. UNCHANGED <<held, barrier, unowned, dropped>>
    BY DEF queues
  <1>7. \A c \in Attempts : Early(c)' <=> Early(c)
    BY <1>1 DEF Early
  <1>8. Attributed'
    <2>1. Unclaimed \subseteq Unclaimed'
      BY <1>5, <1>7, UnclaimedStays
    <2>2. unowned' \in Seq(Unclaimed')
      BY <1>6, <2>1, SeqInLarger DEF Inv, Attributed
    <2> HIDE DEF Meant
    <2> QED
      BY <1>5, <1>6, <2>2 DEF Inv, Attributed
  <1>9. Matched'
    <2>1. nativeMap' # None => Bound(nativeMap)'
      BY <1>3, <1>5 DEF Bound, Registered
    <2> QED
      BY <1>5, <1>6, <2>1 DEF Inv, Matched
  <1>10. Staged'
    <2>1. ~ Unbound(b) /\ dispatch[b] # "none"
      BY <1>3, NoneAssumption DEF Inv, Staged, Bound, Unbound
    <2>2. ASSUME NEW c \in Attempts
          PROVE  /\ dispatch'[c] = "none" => ~ Registered(c)'
                 /\ Early(c)' => emitted'[c] = 0
                 /\ Unbound(c)' \/ dispatch'[c] = "none" => applied'[c] = <<>>
                 /\ Registered(c)' /\ dispatch'[c] \in {"registered", "held", "sent"} => Unbound(c)'
                 /\ Unbound(c)' /\ dispatch'[c] # "registered" => held' = c
      BY <1>1, <1>2, <1>5, <1>6, <1>7, <2>1 DEF Inv, Staged
    <2> QED
      BY <2>2 DEF Staged
  <1>11. Ordered'
    <2>1. \A c \in Attempts : Behind(c)' = Behind(c)
      BY <1>6 DEF Behind
    <2>2. Behind(b) = <<>>
      BY DEF Behind
    <2>3. Kept(applied'[b] \o <<>>, Tracked) =
             IF e \in Tracked THEN Append(Kept(applied[b] \o <<>>, Tracked), e)
             ELSE Kept(applied[b] \o <<>>, Tracked)
      <3>1. applied[b] \in Seq(Event) /\ e \in Event
        BY <1>1, <1>3 DEF Inv, TypeInv, TypesWithinLimit, Genuine
      <3>2. applied'[b] = Append(applied[b], e)
        BY <1>5, <3>1, AppendIsConcat
      <3>3. /\ applied[b] \o <<>> = applied[b]
            /\ applied'[b] \o <<>> = applied'[b]
        BY <3>1, <3>2
      <3>4. Kept(Append(applied[b], e), Tracked) =
               IF e \in Tracked THEN Append(Kept(applied[b], Tracked), e) ELSE Kept(applied[b], Tracked)
        <4> HIDE DEF Tracked
        <4>1. ASSUME NEW z \in Seq(Event)
              PROVE  Kept(Append(z, e), Tracked) =
                        IF e \in Tracked THEN Append(Kept(z, Tracked), e) ELSE Kept(z, Tracked)
          BY <3>1, KeptAppend
        <4> QED
          BY <3>1, <4>1
      <3> QED
        BY <3>2, <3>3, <3>4
    <2>4. ASSUME NEW c \in Attempts, Bound(c), dropped = 0
          PROVE  Kept(applied'[c] \o Behind(c)', Tracked) = Kept(Reported(c)', Tracked)
      <3>1. Kept(applied[c] \o Behind(c), Tracked) = Kept(Reported(c), Tracked)
        BY <2>4 DEF Inv, Ordered
      <3>2. CASE c = b /\ b = a
        BY <1>1, <2>1, <2>2, <2>3, <3>1, <3>2
      <3>3. CASE c = b /\ b # a
        BY <1>1, <1>3, <2>1, <2>2, <2>3, <3>1, <3>3
      <3>4. CASE c # b
        BY <1>1, <1>3, <1>5, <2>1, <3>1, <3>4
      <3> QED
        BY <3>2, <3>3, <3>4
    <2>5. ASSUME NEW c \in Attempts, Unbound(c), dropped = 0
          PROVE  Kept(unowned, Of(c) \cap Tracked) = Kept(Reported(c)', Tracked)
      <3>1. Kept(unowned, Of(c) \cap Tracked) = Kept(Reported(c), Tracked)
        BY <2>5 DEF Inv, Ordered
      <3>2. c # b
        BY <1>3, <2>5, NoneAssumption DEF Bound, Unbound
      <3> QED
        BY <1>1, <1>3, <3>1, <3>2
    <2> QED
      BY <1>5, <1>6, <2>4, <2>5 DEF Ordered
  <1> QED
    BY <1>5, <1>8, <1>9, <1>10, <1>11

\* An event of an attempt with a barrier joins the queue, or is an echo.
LEMMA EmitBehind ==
    ASSUME Inv, NEW a \in Attempts, Emit(a), NEW b,
           b = Resolve(EventAt(a, emitted[a] + 1)), b # None, barrier[b] # None,
           entry' = [entry EXCEPT ![b] = QueuedEffect(<<EventAt(a, emitted[a] + 1)>>, entry[b])],
           barrier' = [barrier EXCEPT ![b] = @ \o Waiting(<<EventAt(a, emitted[a] + 1)>>)],
           UNCHANGED <<maps, unowned, dropped, applied, waiter>>
    PROVE  Attributed' /\ Matched' /\ Staged' /\ FirstSettles' /\ Ordered'
  <1> DEFINE e == EventAt(a, emitted[a] + 1)
             new == QueuedEffect(<<e>>, entry[b])
             ws  == Waiting(<<e>>)
  <1>1. /\ e \in Genuine /\ e.of = a
        /\ Kept(Reported(a)', Tracked) = IF e \in Tracked THEN Append(Kept(Reported(a), Tracked), e)
                                         ELSE Kept(Reported(a), Tracked)
        /\ \A c \in Attempts : c # a => Reported(c)' = Reported(c)
        /\ UNCHANGED <<script, dispatch>>
        /\ \A c \in Attempts : c # a => emitted'[c] = emitted[c]
    BY ReportedGrows DEF Inv
  <1>2. ~ Early(a)
    BY DEF Emit, Early
  <1>3. /\ b \in Attempts /\ Bound(b) /\ e \in Meant(b) /\ e \in Event
        /\ e \in Tracked => b = a
    BY <1>1, ResolveBound DEF Genuine
  <1>4. /\ entry' = [entry EXCEPT ![b] = new] /\ barrier' = [barrier EXCEPT ![b] = @ \o ws]
        /\ UNCHANGED <<turnMap, nativeMap, held, unowned, dropped, applied>>
    BY DEF maps
  <1> HIDE DEF e
  <1>5. new \in Entry /\ new.turn = entry[b].turn /\ new.settled = entry[b].settled
    <2>1. entry[b] \in Entry
      BY <1>3 DEF Inv, TypeInv, TypesWithinLimit, Bound, Registered
    <2>2. <<e>> \in Seq(Event)
      BY <1>3
    <2> QED
      BY <2>1, <2>2, QueuedIsEntry
  <1>6. ws \in Seq(Meant(b))
    <2>1. <<e>> \in Seq(Meant(b))
      BY <1>3
    <2> QED
      BY <2>1, KeptIn DEF Waiting
  <1>7. barrier[b] \in Seq(Meant(b)) /\ barrier[b] \in Seq(Event)
    BY <1>3 DEF Inv, Attributed, TypeInv, TypesWithinLimit
  <1> HIDE DEF new, ws
  <1>8. /\ entry'[b] = new /\ new # None
        /\ \A c \in Attempts : c # b => entry'[c] = entry[c]
    BY <1>3, <1>4, <1>5, NoneAssumption DEF Inv, TypeInv, TypesWithinLimit
  <1>9. /\ barrier'[b] = barrier[b] \o ws
        /\ barrier[b] \o ws \in Seq(Meant(b)) /\ barrier'[b] # None
        /\ \A c \in Attempts : c # b => barrier'[c] = barrier[c]
    <2>1. barrier'[b] = barrier[b] \o ws /\ \A c \in Attempts : c # b => barrier'[c] = barrier[c]
      BY <1>3, <1>4, ZenonT(60) DEF Inv, TypeInv, TypesWithinLimit
    <2>2. barrier[b] \o ws \in Seq(Meant(b))
      <3> HIDE DEF Meant
      <3> QED
        BY <1>6, <1>7, ConcatProperties
    <2>3. Meant(b) \subseteq Event
      BY DEF Meant, Genuine
    <2>4. barrier[b] \o ws \in Seq(Event)
      BY <2>2, <2>3, SeqInLarger
    <2> QED
      BY <2>1, <2>2, <2>4, NoneAssumption
  <1>10. \A c \in Attempts : /\ Registered(c)' <=> Registered(c)
                             /\ Bound(c)' <=> Bound(c)
                             /\ Unbound(c)' <=> Unbound(c)
                             /\ Early(c)' <=> Early(c)
                             /\ Registered(c) => /\ entry'[c].turn = entry[c].turn
                                                 /\ entry'[c].settled = entry[c].settled
    <2>1. Registered(b)
      BY <1>3 DEF Bound
    <2> QED
      BY <1>1, <1>5, <1>8, <2>1 DEF Registered, Bound, Unbound, Early
  <1>11. Attributed'
    <2>1. Unclaimed \subseteq Unclaimed'
      BY <1>10, UnclaimedStays
    <2>2. unowned' \in Seq(Unclaimed')
      BY <1>4, <2>1, SeqInLarger DEF Inv, Attributed
    <2> HIDE DEF Meant
    <2> QED
      BY <1>4, <1>9, <2>2 DEF Inv, Attributed
  <1>12. Matched'
    <2>1. nativeMap \in Attempts \cup {None}
      BY DEF Inv, TypeInv, TypesWithinLimit
    <2>2. nativeMap' # None => Bound(nativeMap)'
      <3> SUFFICES ASSUME NEW m, m = nativeMap', m # None PROVE Bound(m)'
        BY DEF Bound, Registered
      <3> QED
        BY <1>4, <1>10, <2>1 DEF Inv, Matched
    <2>3. \A c \in Attempts : barrier'[c] # None => barrier[c] # None
      BY <1>9
    <2> QED
      BY <1>4, <1>10, <2>2, <2>3 DEF Inv, Matched
  <1>13. Staged'
    BY <1>1, <1>2, <1>4, <1>10 DEF Inv, Staged
  <1>14. FirstSettles'
    BY <1>4, <1>10 DEF Inv, FirstSettles
  <1>15. Ordered'
    <2>1. \A c \in Attempts : c # b => Behind(c)' = Behind(c)
      BY <1>9 DEF Behind
    <2>2. Behind(b) = barrier[b] /\ Behind(b)' = barrier[b] \o ws
      BY <1>9 DEF Behind
    <2>3. Kept(applied[b] \o (barrier[b] \o ws), Tracked) =
             IF e \in Tracked THEN Append(Kept(applied[b] \o barrier[b], Tracked), e)
             ELSE Kept(applied[b] \o barrier[b], Tracked)
      <3>1. applied[b] \in Seq(Event)
        BY <1>3 DEF Inv, TypeInv, TypesWithinLimit
      <3> QED
        BY <1>3, <1>7, <3>1, LineGrows DEF ws
    <2>4. ASSUME NEW c \in Attempts, Bound(c), dropped = 0
          PROVE  Kept(applied[c] \o Behind(c)', Tracked) = Kept(Reported(c)', Tracked)
      <3>1. Kept(applied[c] \o Behind(c), Tracked) = Kept(Reported(c), Tracked)
        BY <2>4 DEF Inv, Ordered
      <3>2. CASE c = b /\ b = a
        BY <1>1, <2>2, <2>3, <3>1, <3>2
      <3>3. CASE c = b /\ b # a
        BY <1>1, <1>3, <2>2, <2>3, <3>1, <3>3
      <3>4. CASE c # b
        BY <1>1, <1>3, <2>1, <3>1, <3>4
      <3> QED
        BY <3>2, <3>3, <3>4
    <2>5. ASSUME NEW c \in Attempts, Unbound(c), dropped = 0
          PROVE  Kept(unowned, Of(c) \cap Tracked) = Kept(Reported(c)', Tracked)
      <3>1. Kept(unowned, Of(c) \cap Tracked) = Kept(Reported(c), Tracked)
        BY <2>5 DEF Inv, Ordered
      <3>2. c # b
        BY <1>3, <2>5, NoneAssumption DEF Bound, Unbound
      <3> QED
        BY <1>1, <1>3, <3>1, <3>2
    <2> QED
      BY <1>4, <1>10, <2>4, <2>5 DEF Ordered
  <1> QED
    BY <1>11, <1>12, <1>13, <1>14, <1>15

-----------------------------------------------------------------------------
(***************************************************************************)
(* The theorems.                                                           *)
(***************************************************************************)
\* At the start there are no attempts and no events.
LEMMA InvInit == ASSUME Init PROVE Inv
  <1>1. TypeInv
    BY TypeInit
  <1>2. \A a \in Attempts : /\ entry[a] = None /\ turnMap[a] = None /\ barrier[a] = None
                            /\ emitted[a] = 0 /\ applied[a] = <<>>
    BY DEF Init
  <1>3. unowned = <<>> /\ nativeMap = None
    BY DEF Init
  <1>4. \A a \in Attempts : ~ Registered(a) /\ ~ Bound(a) /\ ~ Unbound(a)
    BY <1>2 DEF Registered, Bound, Unbound
  <1>5. Attributed
    BY <1>2, <1>3, EmptySeq DEF Attributed
  <1>6. Matched
    BY <1>2, <1>3, <1>4 DEF Matched
  <1>7. Staged
    BY <1>2, <1>4 DEF Staged
  <1>8. FirstSettles /\ Ordered
    BY <1>4 DEF FirstSettles, Ordered
  <1> QED
    BY <1>1, <1>5, <1>6, <1>7, <1>8 DEF Inv

\* An event that is reported finds one of the three ways.
LEMMA EmitStep ==
    ASSUME Inv, NEW a \in Attempts, Emit(a)
    PROVE  Attributed' /\ Matched' /\ Staged' /\ FirstSettles' /\ Ordered'
  <1> DEFINE e == EventAt(a, emitted[a] + 1)
  <1>1. PICK b : b = Resolve(e)
    OBVIOUS
  <1>2. \/ IngestUnowned(e)
        \/ /\ b # None /\ barrier[b] # None
           /\ entry' = [entry EXCEPT ![b] = QueuedEffect(<<e>>, entry[b])]
           /\ barrier' = [barrier EXCEPT ![b] = @ \o Waiting(<<e>>)]
           /\ UNCHANGED <<maps, unowned, dropped, applied, waiter>>
        \/ /\ b # None /\ barrier[b] = None
           /\ Apply(b, <<e>>)
           /\ UNCHANGED <<held, queues>>
    <2> HIDE DEF e
    <2>1. Ingest(e)
      BY DEF Emit, e
    <2> QED
      BY <1>1, <2>1 DEF Ingest
  <1>3. CASE IngestUnowned(e)
    BY <1>3, EmitUnowned
  <1>4. CASE /\ b # None /\ barrier[b] # None
             /\ entry' = [entry EXCEPT ![b] = QueuedEffect(<<e>>, entry[b])]
             /\ barrier' = [barrier EXCEPT ![b] = @ \o Waiting(<<e>>)]
             /\ UNCHANGED <<maps, unowned, dropped, applied, waiter>>
    BY <1>1, <1>4, EmitBehind
  <1>5. CASE /\ b # None /\ barrier[b] = None
             /\ Apply(b, <<e>>)
             /\ UNCHANGED <<held, queues>>
    BY <1>1, <1>5, EmitDirect
  <1> HIDE DEF e
  <1> QED
    BY <1>2, <1>3, <1>4, <1>5

\* A drain of the barrier, of the loop or before the dispatch gives up.
LEMMA DrainStep ==
    ASSUME Inv, NEW a \in Attempts, CheckAck(a) \/ Drain(a)
    PROVE  Attributed' /\ Matched' /\ Staged' /\ FirstSettles' /\ Ordered'
  <1>1. UNCHANGED source /\ \A x \in Attempts : x # a => dispatch'[x] = dispatch[x]
    BY DEF CheckAck, Drain, Move, Inv, TypeInv, TypesWithinLimit
  <1>2. dispatch[a] \in {"checkAck", "draining"}
    BY DEF CheckAck, Drain
  <1>3. CASE QuietAction(a)
    BY <1>3, QuietActions, QuietStep
  <1>4. CASE /\ barrier[a] # None /\ Apply(a, barrier[a])
             /\ \E new \in {None, <<>>} : barrier' = [barrier EXCEPT ![a] = new]
             /\ UNCHANGED <<held, unowned, dropped>>
             /\ dispatch'[a] \in {"failed", "draining"}
    <2>1. PICK new \in {None, <<>>} : barrier' = [barrier EXCEPT ![a] = new]
      BY <1>4
    <2>2. UNCHANGED <<held, unowned, dropped, source>>
      BY <1>1, <1>4
    <2>3. /\ dispatch[a] \notin {"none", "registered", "held", "sent"}
          /\ dispatch'[a] \notin {"none", "registered", "held", "sent"}
      BY <1>2, <1>4
    <2> QED
      BY <1>1, <1>4, <2>1, <2>2, <2>3, DrainedStep
  <1>5. dispatch \in [Attempts -> {"none", "registered", "held", "sent", "bound", "checkAck",
                                   "awaitAck", "draining", "failed", "done"}]
    BY DEF Inv, TypeInv, TypesWithinLimit
  <1>6. CASE CheckAck(a) /\ UNCHANGED <<entry, maps, queues, applied, waiter>>
    BY <1>3, <1>6 DEF QuietAction
  <1>7. CASE /\ Registered(a) /\ dispatch[a] = "checkAck" /\ Move(a, "checkAck", "failed")
             /\ Apply(a, barrier[a])
             /\ barrier' = [barrier EXCEPT ![a] = None]
             /\ UNCHANGED <<held, unowned, dropped>>
    <2>1. barrier[a] # None
      BY <1>7 DEF Inv, TypeInv
    <2>2. dispatch'[a] = "failed"
      BY <1>5, <1>7 DEF Move
    <2> QED
      BY <1>4, <1>7, <2>1, <2>2
  <1>8. CASE /\ Drain(a) /\ barrier[a] \in {None, <<>>} /\ barrier' = [barrier EXCEPT ![a] = None]
             /\ UNCHANGED <<entry, maps, applied, waiter>>
    BY <1>3, <1>8 DEF QuietAction
  <1>9. CASE /\ barrier[a] \notin {None, <<>>} /\ dispatch[a] = "draining"
             /\ Apply(a, barrier[a])
             /\ barrier' = [barrier EXCEPT ![a] = <<>>]
             /\ UNCHANGED <<held, unowned, dropped, dispatch>>
    BY <1>4, <1>9
  <1>10. CASE CheckAck(a)
    BY <1>6, <1>7, <1>10 DEF CheckAck
  <1>11. CASE Drain(a)
    BY <1>8, <1>9, <1>11 DEF Drain
  <1> QED
    BY <1>10, <1>11

\* Every step keeps the invariant.
LEMMA InvStep == ASSUME Inv, [Next]_vars PROVE Inv'
  <1>1. TypeInv'
    BY TypeStep DEF Inv
  <1>2. Attributed' /\ Matched' /\ Staged' /\ FirstSettles' /\ Ordered'
    <2>1. CASE UNCHANGED vars
      <3>1. Quiet /\ Staged'
        BY <2>1 DEF Quiet, Inv, Staged, Early, Registered, Unbound, vars, maps, queues, source
      <3> QED
        BY <3>1, QuietStep
    <2>2. CASE Next
      <3> PICK a \in Attempts :
              \/ Emit(a)
              \/ Register(a) \/ HoldNativeSession(a) \/ SendPrompt(a) \/ LoseResponse(a)
              \/ BindRuntimeTurn(a) \/ BindRemoved(a) \/ ExpectEcho(a) \/ AckStep(a) \/ AckTimeout(a)
              \/ Drain(a)
              \/ \E wanted \in BOOLEAN : CancelIntent(a, wanted)
              \/ RemoveSettled(a) \/ RemoveAbandoned(a)
              \/ StartWaiting(a) \/ WaiterStep(a)
        BY <2>2 DEF Next
      <3>1. CASE Emit(a)
        BY <3>1, EmitStep
      <3>2. CASE Register(a)
        BY <3>2, RegisterStep
      <3>3. CASE BindRuntimeTurn(a)
        BY <3>3, BindStep
      <3>4. CASE CheckAck(a) \/ Drain(a)
        BY <3>4, DrainStep
      <3>5. CASE RemoveSettled(a) \/ RemoveAbandoned(a)
        BY <3>5, RemoveStep DEF RemoveSettled, RemoveAbandoned
      <3>6. CASE QuietAction(a)
        BY <3>6, QuietActions, QuietStep
      <3> QED
        BY <3>1, <3>2, <3>3, <3>4, <3>5, <3>6 DEF AckStep, QuietAction
    <2> QED
      BY <2>1, <2>2
  <1> QED
    BY <1>1, <1>2 DEF Inv

\* So the invariant always holds.
LEMMA Invariant == Spec => []Inv
  <1>1. Init => Inv
    BY InvInit
  <1>2. Inv /\ [Next]_vars => Inv'
    BY InvStep
  <1> QED
    BY <1>1, <1>2, PTL DEF Spec

\* A late terminal of the turn before never settles the next turn, although
\* both use one native session (resolve_attempt_id): whatever is applied to an
\* attempt names its own runtime turn, or none.
THEOREM OwnTurnSettles == Spec => []SettledByOwnTurn
  <1>1. ASSUME Inv PROVE SettledByOwnTurn
    <2>1. ASSUME NEW a \in Attempts, NEW i \in 1 .. Len(applied[a])
          PROVE  applied[a][i].turn \in {None, a}
      <3>1. applied[a] \in Seq(Meant(a))
        BY <1>1 DEF Inv, Attributed
      <3>2. applied[a][i] \in Meant(a)
        BY <3>1, ElementOfSeq
      <3> QED
        BY <3>2 DEF Meant
    <2> QED
      BY <2>1 DEF SettledByOwnTurn
  <1> QED
    BY <1>1, Invariant, PTL

\* No event of an attempt is overtaken or lost on its way, through the buffer
\* of unowned events, the replay barrier and the drains, unless the buffer
\* overflowed.
THEOREM NothingIsOvertaken == Spec => []NothingOvertakes
  <1>1. ASSUME Inv PROVE NothingOvertakes
    <2>1. ASSUME NEW a \in Attempts, Registered(a), dropped = 0
          PROVE  Kept(applied[a] \o Behind(a) \o Kept(unowned, Of(a)), Tracked) = Kept(Reported(a), Tracked)
      <3> DEFINE x == applied[a] \o Behind(a)
                 y == Kept(unowned, Of(a))
      <3>1. /\ applied[a] \in Seq(Event) /\ Behind(a) \in Seq(Event) /\ unowned \in Seq(Event)
        BY <1>1, EmptySeq DEF Inv, TypeInv, TypesWithinLimit, Behind
      <3>2. x \in Seq(Event)
        BY <3>1, ConcatProperties
      <3>3. y \in Seq(Event)
        BY <3>1, KeptIn
      <3>4. Kept(y, Tracked) = Kept(unowned, Of(a) \cap Tracked)
        <4> HIDE DEF Tracked
        <4> QED
          BY <3>1, KeptTwice
      <3> HIDE DEF x, y
      <3>5. Kept(x \o y, Tracked) = Kept(x, Tracked) \o Kept(y, Tracked)
        <4> HIDE DEF Tracked
        <4> QED
          BY <3>2, <3>3, KeptConcat
      <3>6. Kept(Reported(a), Tracked) \in Seq(Genuine)
        <4>1. {e \in Genuine : e.of = a} \subseteq Genuine
          OBVIOUS
        <4>2. Reported(a) \in Seq(Genuine)
          BY <1>1, <4>1, ReportedType, SeqInLarger DEF Inv
        <4> QED
          BY <4>2, KeptIn
      <3>7. CASE Bound(a)
        <4>1. Kept(y, Tracked) = <<>>
          BY <1>1, <3>4, <3>7, NothingUnclaimed DEF Inv
        <4>2. Kept(x, Tracked) = Kept(Reported(a), Tracked)
          BY <1>1, <2>1, <3>7 DEF Inv, Ordered, x
        <4>3. Kept(Reported(a), Tracked) \o <<>> = Kept(Reported(a), Tracked)
          BY <3>6, ConcatEmptySeq
        <4> QED
          BY <3>5, <4>1, <4>2, <4>3 DEF x, y
      <3>8. CASE ~ Bound(a)
        <4>1. Unbound(a)
          BY <1>1, <2>1, <3>8 DEF Inv, Matched, Bound, Unbound
        <4>2. applied[a] = <<>> /\ Behind(a) = <<>>
          BY <1>1, <3>8, <4>1 DEF Inv, Staged, Matched, Behind
        <4>3. x = <<>>
          BY <3>1, <4>2, ConcatEmptySeq DEF x
        <4>4. Kept(x, Tracked) = <<>>
          BY <4>3, KeptEmpty
        <4>5. Kept(y, Tracked) = Kept(Reported(a), Tracked)
          BY <1>1, <2>1, <3>4, <4>1 DEF Inv, Ordered
        <4>6. <<>> \o Kept(Reported(a), Tracked) = Kept(Reported(a), Tracked)
          BY <3>6, ConcatEmptySeq
        <4> QED
          BY <3>5, <4>4, <4>5, <4>6 DEF x, y
      <3> QED
        BY <3>7, <3>8
    <2> QED
      BY <2>1 DEF NothingOvertakes, Behind
  <1> QED
    BY <1>1, Invariant, PTL

\* The first terminal a runtime turn reports settles it, whether it came
\* through the buffer, the barrier or straight, and none that comes later
\* changes the settlement.
THEOREM FirstTerminalHolds == Spec => []FirstTerminalDecides
  <1>1. ASSUME Inv PROVE FirstTerminalDecides
    <2>1. ASSUME NEW a \in Attempts, Settled(a), dropped = 0
          PROVE  LET ended == Kept(Reported(a), Terminals)
                 IN  /\ ended # <<>>
                     /\ \/ entry[a].settled = ended[1].outcome
                        \/ entry[a].settled = "cancelled" /\ ended[1].outcome = "failed"
      <3> DEFINE was   == Kept(applied[a], Terminals)
                 rest  == Kept(Behind(a), Terminals)
                 line  == applied[a] \o Behind(a)
                 ended == Kept(Reported(a), Terminals)
      <3>1. /\ was # <<>>
            /\ \/ entry[a].settled = was[1].outcome
               \/ entry[a].settled = "cancelled" /\ was[1].outcome = "failed"
        BY <1>1, <2>1 DEF Inv, FirstSettles, Settled
      <3>2. Bound(a)
        <4>1. ~ Unbound(a)
          <5>1. applied[a] = <<>> => was = <<>>
            BY KeptEmpty
          <5> QED
            BY <1>1, <3>1, <5>1 DEF Inv, Staged
        <4> QED
          BY <1>1, <2>1, <4>1 DEF Inv, Matched, Settled, Bound, Unbound
      <3>3. Meant(a) \subseteq Genuine /\ {e \in Genuine : e.of = a} \subseteq Genuine
        BY DEF Meant
      <3>4. applied[a] \in Seq(Genuine) /\ Behind(a) \in Seq(Genuine)
        <4>1. applied[a] \in Seq(Meant(a))
          BY <1>1 DEF Inv, Attributed
        <4>2. Behind(a) \in Seq(Meant(a))
          BY <1>1, EmptySeq DEF Inv, Attributed, Behind
        <4> QED
          BY <3>3, <4>1, <4>2, SeqInLarger
      <3>5. Reported(a) \in Seq(Genuine)
        BY <1>1, <3>3, ReportedType, SeqInLarger DEF Inv
      <3>6. line \in Seq(Genuine)
        BY <3>4, ConcatProperties
      <3>7. \A s \in Seq(Genuine) : Kept(Kept(s, Tracked), Terminals) = Kept(s, Terminals)
        <4> SUFFICES ASSUME NEW s \in Seq(Genuine)
                     PROVE  Kept(Kept(s, Tracked), Terminals) = Kept(s, Terminals)
          OBVIOUS
        <4>1. \A e \in Genuine : e \in Tracked \cap Terminals <=> e \in Terminals
          BY DEF Genuine, Tracked, Naming, Echoes, Terminals, IsEcho, IsTerminal, Event
        <4> HIDE DEF Tracked, Terminals, Genuine
        <4>2. Kept(Kept(s, Tracked), Terminals) = Kept(s, Tracked \cap Terminals)
          BY KeptTwice
        <4>3. Kept(s, Tracked \cap Terminals) = Kept(s, Terminals)
          BY <4>1, KeptSame
        <4> QED
          BY <4>2, <4>3
      <3>8. Kept(line, Tracked) = Kept(Reported(a), Tracked)
        BY <1>1, <2>1, <3>2 DEF Inv, Ordered
      <3> HIDE DEF line, was, rest, ended
      <3>9. ended = Kept(line, Terminals)
        BY <3>5, <3>6, <3>7, <3>8 DEF ended
      <3>10. Kept(line, Terminals) = was \o rest
        <4> HIDE DEF Terminals, Genuine
        <4>1. \A es, fs \in Seq(Genuine) : Kept(es \o fs, Terminals) = Kept(es, Terminals) \o Kept(fs, Terminals)
          BY KeptConcat
        <4> QED
          BY <3>4, <4>1 DEF line, was, rest
      <3>11. was \in Seq(Genuine) /\ rest \in Seq(Genuine)
        <4>1. was \in Seq(Genuine)
          BY <3>4, KeptIn DEF was
        <4>2. rest \in Seq(Genuine)
          BY <3>4, KeptIn DEF rest
        <4> QED
          BY <4>1, <4>2
      <3>12. was \o rest # <<>> /\ (was \o rest)[1] = was[1]
        <4> HIDE DEF Genuine
        <4> QED
          BY <3>1, <3>11, ConcatFirst
      <3>13. ended # <<>> /\ ended[1] = was[1]
        BY <3>9, <3>10, <3>12
      <3> QED
        BY <3>1, <3>13 DEF ended
    <2> QED
      BY <2>1 DEF FirstTerminalDecides
  <1> QED
    BY <1>1, Invariant, PTL
=============================================================================
