---------------------------- MODULE NatRecursion ----------------------------
(***************************************************************************)
(* Induction over the natural numbers and definition by recursion, stated  *)
(* for sets and functions: the library's theorems about them take an       *)
(* operator as a parameter, which the provers cannot instantiate, but they *)
(* follow from its facts on well-founded relations.                        *)
(***************************************************************************)
EXTENDS SequenceTheorems, WellFoundedInduction, TLAPS

LessPairs == {p \in Nat \X Nat : p[1] < p[2]}

\* There is no infinite descent.
LEMMA LessWF == IsWellFoundedOn(LessPairs, Nat)
  BY NatLessThanWellFounded, Zenon DEF OpToRel, LessPairs

\* A set that holds 0 and every successor of its members is Nat.
LEMMA NatSets ==
    ASSUME NEW T \in SUBSET Nat, 0 \in T, \A n \in T : n + 1 \in T
    PROVE  T = Nat
  <1> DEFINE U == Nat \ T
  <1> SUFFICES ASSUME U # {} PROVE FALSE
    OBVIOUS
  <1>1. PICK x \in U : \A y \in U : <<y, x>> \notin LessPairs
    <2> HIDE DEF U
    <2>1. U \subseteq Nat
      BY DEF U
    <2> QED
      BY <2>1, LessWF, WFMin, Zenon
  <1>2. x \in Nat /\ x # 0 /\ x - 1 \in Nat
    OBVIOUS
  <1>3. <<x - 1, x>> \in LessPairs
    BY <1>2 DEF LessPairs
  <1>4. x - 1 \in T
    BY <1>1, <1>2, <1>3
  <1> QED
    BY <1>2, <1>4

\* The values of a recursion over 0..n: F[<<i, v>>] is the one at i when v is
\* the one at i - 1.
Solves(g, n, X, x0, F) == /\ g \in [0..n -> X] /\ g[0] = x0
                          /\ \A i \in 1..n : g[i] = F[<<i, g[i - 1]>>]

\* One more value.
LEMMA RecursionStep ==
    ASSUME NEW X, NEW x0 \in X, NEW N \in Nat, NEW F \in [(1..N) \X X -> X],
           NEW n \in Nat, n + 1 <= N, NEW g, Solves(g, n, X, x0, F)
    PROVE  \E h : Solves(h, n + 1, X, x0, F)
  <1>1. g \in [0..n -> X] /\ g[0] = x0 /\ \A i \in 1..n : g[i] = F[<<i, g[i - 1]>>]
    BY DEF Solves
  <1>2. n + 1 \in 1..N
    OBVIOUS
  <1> DEFINE x == F[<<n + 1, g[n]>>]
             h == [i \in 0 .. n + 1 |-> IF i = n + 1 THEN x ELSE g[i]]
  <1>3. x \in X
    <2>1. g[n] \in X
      BY <1>1
    <2> QED
      BY <1>2, <2>1
  <1> HIDE DEF x
  <1>4. h \in [0 .. n + 1 -> X] /\ h[0] = x0
    BY <1>1, <1>3
  <1>5. ASSUME NEW i \in 1 .. n + 1
        PROVE  h[i] = F[<<i, h[i - 1]>>]
    <2>1. i - 1 \in 0..n /\ h[i - 1] = g[i - 1]
      OBVIOUS
    <2>2. CASE i = n + 1
      <3>1. i - 1 = n /\ h[i] = x
        BY <2>2
      <3> HIDE DEF h
      <3> QED
        BY <2>1, <2>2, <3>1 DEF x
    <2>3. CASE i # n + 1
      <3>1. i \in 1..n /\ h[i] = g[i]
        BY <2>3
      <3> QED
        BY <1>1, <2>1, <3>1
    <2> QED
      BY <2>2, <2>3
  <1> HIDE DEF h
  <1>6. Solves(h, n + 1, X, x0, F)
    BY <1>4, <1>5 DEF Solves
  <1> QED
    BY <1>6

\* Every recursion over 0..N has a solution.
LEMMA RecursionSolved ==
    ASSUME NEW X, NEW x0 \in X, NEW N \in Nat, NEW F \in [(1..N) \X X -> X]
    PROVE  \E g : Solves(g, N, X, x0, F)
  <1> DEFINE T == {n \in Nat : n <= N => \E g : Solves(g, n, X, x0, F)}
  <1>1. 0 \in T
    <2>1. Solves([i \in 0..0 |-> x0], 0, X, x0, F)
      BY DEF Solves
    <2> QED
      BY <2>1
  <1>2. ASSUME NEW n \in T
        PROVE  n + 1 \in T
    <2>1. n \in Nat /\ n + 1 \in Nat
      OBVIOUS
    <2>2. CASE n + 1 <= N
      <3>1. PICK g : Solves(g, n, X, x0, F)
        BY <2>2
      <3> QED
        BY <2>1, <2>2, <3>1, RecursionStep
    <2>3. CASE ~(n + 1 <= N)
      BY <2>1, <2>3
    <2> QED
      BY <2>2, <2>3
  <1>3. T = Nat
    <2>1. T \in SUBSET Nat
      OBVIOUS
    <2> HIDE DEF T
    <2> QED
      BY <1>1, <1>2, <2>1, NatSets
  <1> QED
    BY <1>3

\* A sequence of values stays in a set that every step stays in.
LEMMA StaysIn ==
    ASSUME NEW X, NEW N \in Nat, NEW f, f[0] \in X,
           \A i \in 1..N : f[i - 1] \in X => f[i] \in X
    PROVE  \A i \in 0..N : f[i] \in X
  <1> DEFINE T == {n \in Nat : n <= N => f[n] \in X}
  <1>1. 0 \in T
    OBVIOUS
  <1>2. ASSUME NEW n \in T
        PROVE  n + 1 \in T
    <2>1. n \in Nat /\ n + 1 \in Nat /\ (n + 1) - 1 = n
      OBVIOUS
    <2>2. CASE n + 1 <= N
      <3>1. n + 1 \in 1..N /\ f[n] \in X
        BY <2>1, <2>2
      <3>2. f[n + 1] \in X
        BY <2>1, <3>1, Zenon
      <3> QED
        BY <2>1, <3>2
    <2>3. CASE ~(n + 1 <= N)
      BY <2>1, <2>3
    <2> QED
      BY <2>2, <2>3
  <1>3. T = Nat
    <2>1. T \in SUBSET Nat
      OBVIOUS
    <2> HIDE DEF T
    <2> QED
      BY <1>1, <1>2, <2>1, NatSets
  <1> QED
    BY <1>3

\* Where the elements of two joined sequences are.
LEMMA Joined ==
    ASSUME NEW S, NEW s \in Seq(S), NEW t \in Seq(S)
    PROVE  /\ s \o t \in Seq(S) /\ Len(s \o t) = Len(s) + Len(t)
           /\ \A i \in 1..Len(s) : (s \o t)[i] = s[i]
           /\ \A i \in 1..Len(t) : (s \o t)[Len(s) + i] = t[i]
  OBVIOUS

=============================================================================
