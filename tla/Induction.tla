------------------------------ MODULE Induction ------------------------------
(***************************************************************************)
(* Facts about numbers and finite sets that the proofs share. Induction    *)
(* is over a set: to show that something holds of every number, take the   *)
(* least of the set of those it does not hold of.                          *)
(***************************************************************************)
EXTENDS Integers, FiniteSets, FiniteSetTheorems, TLAPS

\* Every set of numbers has a least: of the sets 0..n, one has none below it.
LEMMA NatLeast ==
    ASSUME NEW T, T \subseteq Nat, T # {}
    PROVE  \E x \in T : \A y \in T : x <= y
<1> DEFINE R == StrictSubsetOrdering(Nat)
           S == FiniteSubsetsOf(Nat)
           U == {0..n : n \in T}
<1>1. IsWellFoundedOn(R, S)
  BY FS_StrictSubsetOrderingWellFounded
<1>2. ASSUME NEW n \in T PROVE 0..n \in S
  BY FS_Interval, n \in Nat DEF FiniteSubsetsOf
<1>3. U \subseteq S /\ U # {}
  BY <1>2
<1>4. PICK u \in U : \A w \in U : ~(<<w, u>> \in R)
  <2> HIDE DEF R, S, U
  <2>1. QED
    BY <1>1, <1>3, WFMin
<1>5. PICK x \in T : u = 0..x
  OBVIOUS
<1>6. ASSUME NEW y \in T, ~(x <= y) PROVE FALSE
  <2>1. 0..y \subseteq 0..x /\ x \in 0..x /\ x \notin 0..y
    BY <1>6
  <2>2. <<0..y, 0..x>> \in (SUBSET Nat) \X (SUBSET Nat)
    OBVIOUS
  <2>3. <<0..y, 0..x>> \in R
    BY <2>1, <2>2 DEF StrictSubsetOrdering
  <2>4. QED
    BY <1>4, <1>5, <2>3
<1>7. QED
  BY <1>6

\* A set that has 0, and the next of whatever it has, has every number.
LEMMA NatAll ==
    ASSUME NEW T, 0 \in T, \A n \in Nat : n \in T => n + 1 \in T
    PROVE  Nat \subseteq T
<1> DEFINE U == Nat \ T
<1>1. SUFFICES ASSUME U # {} PROVE FALSE
  OBVIOUS
<1>2. PICK x \in U : \A y \in U : x <= y
  BY <1>1, NatLeast
<1>3. x # 0 /\ x - 1 \in Nat /\ ~(x <= x - 1)
  OBVIOUS
<1>4. x - 1 \in T
  BY <1>2, <1>3
<1>5. x - 1 + 1 \in T /\ x - 1 + 1 = x
  BY <1>3, <1>4
<1>6. QED
  BY <1>5

\* What is recursively defined by a first value and a step exists. The step is
\* a function of the number and of the value there.
Recursive(f, a, step) == f[0] = a /\ \A n \in Nat : f[n + 1] = step[<<n, f[n]>>]

LEMMA Recursion ==
    ASSUME NEW S, NEW a \in S, NEW step \in [Nat \X S -> S]
    PROVE  \E f \in [Nat -> S] : Recursive(f, a, step)
<1> DEFINE Up(n, g) == /\ g \in [0..n -> S] /\ g[0] = a
                       /\ \A k \in 0..(n - 1) : g[k + 1] = step[<<k, g[k]>>]
           T == {n \in Nat : \E g : Up(n, g)}
\* Two of them agree as far as both go.
<1>1. ASSUME NEW n \in Nat, NEW m \in Nat, n <= m, NEW g, NEW h, Up(n, g), Up(m, h)
      PROVE  \A k \in 0..n : g[k] = h[k]
  <2> DEFINE V == {k \in Nat : k <= n => g[k] = h[k]}
  <2>1. 0 \in V
    BY <1>1
  <2>2. ASSUME NEW k \in Nat, k \in V PROVE k + 1 \in V
    <3>1. CASE k + 1 <= n
      <4>1. k \in 0..(n - 1) /\ k \in 0..(m - 1) /\ g[k] = h[k]
        BY <1>1, <2>2, <3>1
      <4>2. g[k + 1] = step[<<k, g[k]>>] /\ h[k + 1] = step[<<k, h[k]>>]
        BY <1>1, <4>1
      <4>3. QED
        BY <4>1, <4>2
    <3>2. CASE ~(k + 1 <= n)
      BY <3>2
    <3>3. QED
      BY <3>1, <3>2
  <2> HIDE DEF V
  <2>3. Nat \subseteq V
    BY <2>1, <2>2, NatAll
  <2>4. QED
    BY <2>3 DEF V
<1>2. Nat \subseteq T
  <2>1. 0 \in T
    <3>1. Up(0, [k \in 0..0 |-> a])
      OBVIOUS
    <3>2. QED
      BY <3>1
  <2>2. ASSUME NEW n \in Nat, n \in T PROVE n + 1 \in T
    <3>1. PICK g : Up(n, g)
      BY <2>2
    <3> DEFINE h == [k \in 0..(n + 1) |-> IF k = n + 1 THEN step[<<n, g[n]>>] ELSE g[k]]
    <3>2. <<n, g[n]>> \in Nat \X S
      BY <3>1
    <3>3. h \in [0..(n + 1) -> S]
      BY <3>1, <3>2
    <3>4. h[0] = a
      BY <3>1
    <3>5. ASSUME NEW k \in 0..(n + 1 - 1) PROVE h[k + 1] = step[<<k, h[k]>>]
      <4>1. CASE k = n
        <5>1. n \in 0..(n + 1) /\ n + 1 \in 0..(n + 1) /\ n # n + 1
          OBVIOUS
        <5>2. h[n] = g[n] /\ h[n + 1] = step[<<n, g[n]>>]
          BY <5>1
        <5>3. QED
          BY <4>1, <5>2
      <4>2. CASE k # n
        <5>1. k \in 0..(n - 1) /\ k + 1 \in 0..n /\ k + 1 # n + 1 /\ k # n + 1
          BY <4>2
        <5>2. QED
          BY <3>1, <5>1
      <4>3. QED
        BY <4>1, <4>2
    <3> HIDE DEF h
    <3>6. Up(n + 1, h)
      BY <3>3, <3>4, <3>5
    <3>7. \E e : Up(n + 1, e)
      BY <3>6
    <3> HIDE DEF Up
    <3>8. QED
      BY <3>7
  <2> HIDE DEF T
  <2>3. QED
    BY <2>1, <2>2, NatAll
<1> DEFINE G == [n \in Nat |-> CHOOSE g : Up(n, g)]
           f == [n \in Nat |-> G[n][n]]
<1>3. \A n \in Nat : Up(n, G[n])
  <2> SUFFICES ASSUME NEW n \in Nat PROVE Up(n, G[n])
    OBVIOUS
  <2> HIDE DEF Up
  <2>1. \E g : Up(n, g)
    BY <1>2
  <2>2. QED
    BY <2>1
<1> HIDE DEF G
<1>4. f \in [Nat -> S]
  <2> SUFFICES ASSUME NEW n \in Nat PROVE G[n][n] \in S
    OBVIOUS
  <2>1. G[n] \in [0..n -> S] /\ n \in 0..n
    BY <1>3
  <2>2. QED
    BY <2>1
<1>5. f[0] = a
  BY <1>3
<1>6. ASSUME NEW n \in Nat PROVE f[n + 1] = step[<<n, f[n]>>]
  <2>1. Up(n, G[n]) /\ Up(n + 1, G[n + 1])
    BY <1>3
  <2>2. n \in 0..n /\ n \in 0..(n + 1 - 1) /\ n <= n + 1
    OBVIOUS
  <2>3. G[n][n] = G[n + 1][n]
    <3> HIDE DEF Up
    <3> QED
      BY <1>1, <2>1, <2>2
  <2>4. G[n + 1][n + 1] = step[<<n, G[n + 1][n]>>]
    BY <2>1, <2>2
  <2>5. QED
    BY <2>3, <2>4
<1>7. Recursive(f, a, step)
  BY <1>5, <1>6 DEF Recursive
<1>8. QED
  BY <1>4, <1>7

-----------------------------------------------------------------------------
(* Finite sets.                                                            *)

\* The values a function has on a finite set.
LEMMA FiniteImage ==
    ASSUME NEW S, IsFiniteSet(S), NEW f
    PROVE  IsFiniteSet({f[x] : x \in S}) /\ Cardinality({f[x] : x \in S}) <= Cardinality(S)
<1> DEFINE g == [x \in S |-> f[x]]
           T == {f[x] : x \in S}
<1>1. g \in Surjection(S, T)
  BY DEF Surjection
<1> HIDE DEF g, T
<1>2. IsFiniteSet(T) /\ Cardinality(T) <= Cardinality(S)
  BY <1>1, FS_Surjection
<1>3. QED
  BY <1>2 DEF T

\* A function that tells the elements of S apart has as many values there.
LEMMA InjectionBound ==
    ASSUME NEW S, NEW T, IsFiniteSet(T), NEW f,
           \A x \in S : f[x] \in T, \A x, y \in S : f[x] = f[y] => x = y
    PROVE  IsFiniteSet(S) /\ Cardinality(S) <= Cardinality(T)
<1> DEFINE g == [x \in S |-> f[x]]
<1>1. g \in Injection(S, T)
  BY DEF Injection, IsInjective
<1> HIDE DEF g
<1>2. QED
  BY <1>1, FS_Injection
==============================================================================
