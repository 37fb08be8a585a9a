------------------------------- MODULE Minima -------------------------------
(***************************************************************************)
(* Every nonempty set of naturals has a least element.  The models choose  *)
(* least elements (the first stage that runs, the first terminal).  And it *)
(* gives induction and recursion up to a number, and induction over the    *)
(* subsets of a finite set, in a form that mentions a set and a function:  *)
(* the theorems of the library have an operator as a parameter.            *)
(***************************************************************************)
EXTENDS Integers, FiniteSetTheorems, TLAPS

\* A nonempty set of naturals has a least element: the initial segments of its
\* finite part are well-founded by inclusion.
LEMMA LeastElement ==
    ASSUME NEW T \in SUBSET Nat, T # {}
    PROVE  \E m \in T : \A n \in T : m <= n
  <1> PICK t \in T : TRUE
    OBVIOUS
  <1> DEFINE S        == 0 .. t
             Below(m) == {n \in S : n <= m}
             Cuts     == {Below(m) : m \in T \cap S}
  <1>1. IsFiniteSet(S)
    BY FS_Interval
  <1>2. IsWellFoundedOn(StrictSubsetOrdering(S), SUBSET S)
    BY <1>1, FS_FiniteSubsetsOfFinite, FS_StrictSubsetOrderingWellFounded
  <1>3. Cuts # {} /\ Cuts \subseteq SUBSET S
    <2>1. t \in T \cap S
      OBVIOUS
    <2>2. Below(t) \in Cuts
      BY <2>1
    <2>3. \A m \in T \cap S : Below(m) \in SUBSET S
      OBVIOUS
    <2> HIDE DEF Below
    <2> QED
      BY <2>2, <2>3
  <1>4. PICK U \in Cuts : \A V \in Cuts : <<V, U>> \notin StrictSubsetOrdering(S)
    <2> HIDE DEF Cuts, S
    <2> QED
      BY <1>2, <1>3, WFMin
  <1>5. PICK m \in T \cap S : U = Below(m)
    BY <1>4
  <1>6. ASSUME NEW n \in T, n < m PROVE FALSE
    <2>1. n \in S
      BY <1>6
    <2>2. Below(n) \in Cuts
      BY <2>1
    <2>3. Below(n) \subseteq Below(m)
      BY <1>6
    <2>4. Below(n) # Below(m)
      BY <1>6
    <2>5. <<Below(n), Below(m)>> \in StrictSubsetOrdering(S)
      <3>1. Below(n) \in SUBSET S /\ Below(m) \in SUBSET S
        OBVIOUS
      <3> HIDE DEF Below, S
      <3> QED
        BY <2>3, <2>4, <3>1 DEF StrictSubsetOrdering
    <2> QED
      BY <1>4, <1>5, <2>2, <2>5
  <1> QED
    BY <1>6

\* Induction up to n, of a property given as the set of the numbers that have it.
LEMMA UpTo ==
    ASSUME NEW n \in Nat, NEW T, 0 \in T, \A i \in 1 .. n : i - 1 \in T => i \in T
    PROVE  0 .. n \subseteq T
  <1> SUFFICES ASSUME (0 .. n) \ T # {} PROVE FALSE
    OBVIOUS
  <1>1. (0 .. n) \ T \in SUBSET Nat
    OBVIOUS
  <1>2. PICK m \in (0 .. n) \ T : \A k \in (0 .. n) \ T : m <= k
    BY <1>1, LeastElement
  <1>3. m # 0 /\ m \in 1 .. n /\ m - 1 \in 0 .. n /\ ~ (m <= m - 1)
    BY <1>2
  <1>4. m - 1 \in T
    BY <1>2, <1>3
  <1> QED
    BY <1>2, <1>3, <1>4

\* Induction over the subsets of a finite set, one element less at a time.
LEMMA SubsetsUpTo ==
    ASSUME NEW S, IsFiniteSet(S), NEW T,
           \A A \in SUBSET S : (\A x \in A : A \ {x} \in T) => A \in T
    PROVE  SUBSET S \subseteq T
  <1> DEFINE Rest == (SUBSET S) \ T
  <1> SUFFICES ASSUME Rest # {} PROVE FALSE
    OBVIOUS
  <1>1. IsWellFoundedOn(StrictSubsetOrdering(S), SUBSET S)
    <2> HIDE DEF Rest
    <2>1. FiniteSubsetsOf(S) = SUBSET S
      BY FS_FiniteSubsetsOfFinite
    <2>2. IsWellFoundedOn(StrictSubsetOrdering(S), FiniteSubsetsOf(S))
      BY FS_StrictSubsetOrderingWellFounded
    <2> QED
      BY <2>1, <2>2
  <1>2. PICK A \in Rest : \A B \in Rest : <<B, A>> \notin StrictSubsetOrdering(S)
    <2>1. Rest \subseteq SUBSET S
      OBVIOUS
    <2> HIDE DEF Rest
    <2> QED
      BY <1>1, <2>1, WFMin
  <1>3. ASSUME NEW x \in A PROVE A \ {x} \in T
    <2>1. A \ {x} \in SUBSET S /\ A \ {x} \subseteq A /\ A \ {x} # A
      OBVIOUS
    <2>2. <<A \ {x}, A>> \in StrictSubsetOrdering(S)
      BY <2>1 DEF StrictSubsetOrdering
    <2> QED
      BY <1>2, <2>1, <2>2
  <1> QED
    BY <1>3

\* f[i] is what the first i of n steps make of base, in S.
IsRecursive(f, n, S, base, step) ==
    /\ f \in [0 .. n -> S]
    /\ f[0] = base
    /\ \A i \in 1 .. n : f[i] = step[i][f[i - 1]]

\* A function that is defined by recursion up to n exists.
LEMMA RecursionUpTo ==
    ASSUME NEW n \in Nat, NEW S, NEW base \in S, NEW step \in [1 .. n -> [S -> S]]
    PROVE  \E f : IsRecursive(f, n, S, base, step)
  <1> USE DEF IsRecursive
  <1> DEFINE Good(k, f) == IsRecursive(f, k, S, base, step)
             T == {k \in 0 .. n : \E f \in [0 .. k -> S] : Good(k, f)}
  <1>1. 0 \in T
    <2>1. Good(0, [i \in 0 .. 0 |-> base])
      OBVIOUS
    <2>2. [i \in 0 .. 0 |-> base] \in [0 .. 0 -> S] /\ 0 \in 0 .. n
      OBVIOUS
    <2> HIDE DEF Good
    <2> QED
      BY <2>1, <2>2
  <1>2. ASSUME NEW k \in 1 .. n, k - 1 \in T PROVE k \in T
    <2>1. PICK f : Good(k - 1, f)
      BY <1>2
    <2> DEFINE g == [i \in 0 .. k |-> IF i = k THEN step[k][f[k - 1]] ELSE f[i]]
    <2>2. k - 1 \in 0 .. k - 1 /\ 0 \in 0 .. k - 1
      OBVIOUS
    <2>3. step[k][f[k - 1]] \in S
      <3>1. f[k - 1] \in S
        BY <2>1, <2>2
      <3>2. step[k] \in [S -> S]
        OBVIOUS
      <3> QED
        BY <3>1, <3>2
    <2>4. g \in [0 .. k -> S]
      <3>1. ASSUME NEW i \in 0 .. k, i # k PROVE f[i] \in S
        BY <2>1, <3>1
      <3> QED
        BY <2>3, <3>1
    <2>5. g[0] = base
      BY <2>1, <2>2
    <2>6. ASSUME NEW i \in 1 .. k PROVE g[i] = step[i][g[i - 1]]
      <3>1. i - 1 \in 0 .. k /\ i \in 0 .. k /\ i - 1 # k
        OBVIOUS
      <3>2. g[i - 1] = f[i - 1]
        BY <3>1
      <3>3. CASE i = k
        BY <3>1, <3>2, <3>3
      <3>4. CASE i # k
        <4>1. i \in 1 .. k - 1
          BY <3>4
        <4> QED
          BY <2>1, <3>1, <3>2, <3>4, <4>1
      <3> QED
        BY <3>3, <3>4
    <2>7. Good(k, g)
      BY <2>4, <2>5, <2>6
    <2>8. k \in 0 .. n
      OBVIOUS
    <2> HIDE DEF Good, g
    <2> QED
      BY <2>4, <2>7, <2>8
  <1>3. 0 .. n \subseteq T
    <2> HIDE DEF T
    <2> QED
      BY <1>1, <1>2, UpTo
  <1>4. n \in T
    BY <1>3
  <1> QED
    BY <1>4
=============================================================================
