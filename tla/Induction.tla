----------------------------- MODULE Induction -----------------------------
(***************************************************************************)
(* Induction over the natural numbers and functions defined by recursion   *)
(* over them, stated of sets and functions instead of operators: what the  *)
(* proofs about recursive functions rest on.                               *)
(***************************************************************************)
EXTENDS Integers, FiniteSetTheorems, WellFoundedInduction, TLAPS

\* A set of numbers that is not empty has a least one.
LEMMA LeastOne ==
    ASSUME NEW S \in SUBSET Nat, S # {}
    PROVE  \E n \in S : \A m \in S : n <= m
<1> DEFINE Segments == {0..m : m \in S}
           R == StrictSubsetOrdering(Nat)
           T == FiniteSubsetsOf(Nat)
<1>1. IsWellFoundedOn(R, T)
    BY FS_StrictSubsetOrderingWellFounded
<1>2. Segments \subseteq T /\ Segments # {}
  <2>1. \A m \in Nat : IsFiniteSet(0..m) /\ 0..m \in SUBSET Nat
      BY FS_Interval
  <2> QED
      BY <2>1 DEF FiniteSubsetsOf
<1>3. PICK least \in Segments :
          \A other \in Segments : ~(<<other, least>> \in R)
    BY <1>1, <1>2, WFMin
<1>4. PICK n \in S : least = 0..n
    OBVIOUS
<1>5. ASSUME NEW m \in S PROVE n <= m
  <2>1. n \in Nat /\ m \in Nat /\ 0..m \in Segments
      OBVIOUS
  <2>2. ~(<<0..m, 0..n>> \in R)
      BY <1>3, <1>4, <2>1
  <2>3. ASSUME m < n PROVE FALSE
    <3>1. 0..m \subseteq 0..n /\ n \in 0..n /\ n \notin 0..m
        BY <2>1, <2>3
    <3> QED
        BY <2>2, <3>1 DEF StrictSubsetOrdering
  <2> QED
      BY <2>1, <2>3
<1> QED
    BY <1>4, <1>5

\* A set that each number is in when all smaller ones are has every number.
LEMMA AllNumbers ==
    ASSUME NEW S,
           \A n \in Nat : (\A m \in Nat : m < n => m \in S) => n \in S
    PROVE  Nat \subseteq S
<1> DEFINE Others == Nat \ S
<1>1. SUFFICES ASSUME Others # {} PROVE FALSE
    OBVIOUS
<1>2. PICK n \in Others : \A m \in Others : n <= m
    BY <1>1, LeastOne
<1>3. \A m \in Nat : m < n => m \in S
    BY <1>2
<1> QED
    BY <1>2, <1>3

\* The induction of every day.
LEMMA EveryNumber ==
    ASSUME NEW S, 0 \in S, \A n \in Nat : n \in S => n + 1 \in S
    PROVE  Nat \subseteq S
<1>1. ASSUME NEW n \in Nat, \A m \in Nat : m < n => m \in S
      PROVE  n \in S
  <2>1. CASE n = 0
      BY <2>1
  <2>2. CASE n # 0
      BY <1>1, <2>2, n - 1 \in Nat, n = (n - 1) + 1, n - 1 < n
  <2> QED
      BY <2>1, <2>2
<1> QED
    BY <1>1, AllNumbers

\* A function that starts with a value of V and goes on by steps.
Iterates(f, V, base, step) ==
    /\ f \in [Nat -> V]
    /\ f[0] = base
    /\ \A n \in Nat : f[n + 1] = step[<<n, f[n]>>]

\* A first value and a way from each to the next make a function.
LEMMA Recursion ==
    ASSUME NEW V, NEW base \in V, NEW step \in [Nat \X V -> V]
    PROVE  \E f : Iterates(f, V, base, step)
<1> DEFINE Follows(n, g) ==
               /\ g \in [0..n -> V]
               /\ g[0] = base
               /\ \A i \in 0..(n - 1) : g[i + 1] = step[<<i, g[i]>>]
           Reached == {n \in Nat : \E g \in [0..n -> V] : Follows(n, g)}
           Same == {i \in Nat : \A m, n \in Nat :
                       \A g \in [0..m -> V], h \in [0..n -> V] :
                           /\ Follows(m, g) /\ Follows(n, h)
                           /\ i <= m /\ i <= n
                           => g[i] = h[i]}
<1>1. Nat \subseteq Reached
  <2>1. 0 \in Reached
      BY Follows(0, [i \in 0..0 |-> base])
  <2>2. ASSUME NEW n \in Nat, n \in Reached
        PROVE  n + 1 \in Reached
    <3>1. PICK g \in [0..n -> V] : Follows(n, g)
        BY <2>2
    <3> DEFINE h == [i \in 0..(n + 1) |-> IF i <= n THEN g[i]
                                          ELSE step[<<n, g[n]>>]]
    <3>2. h \in [0..(n + 1) -> V]
        BY <3>1
    <3>3. ASSUME NEW i \in 0..n PROVE h[i + 1] = step[<<i, h[i]>>]
      <4>1. CASE i = n
          BY <4>1
      <4>2. CASE i < n
        <5>1. i \in 0..(n - 1) /\ i + 1 \in 0..n /\ i + 1 <= n
            BY <4>2
        <5>2. h[i + 1] = g[i + 1] /\ h[i] = g[i]
            BY <5>1
        <5> QED
            BY <3>1, <5>1, <5>2
      <4> QED
          BY <4>1, <4>2
    <3>4. h[0] = base /\ (n + 1) - 1 = n
        BY <3>1
    <3>5. Follows(n + 1, h)
        BY <3>2, <3>3, <3>4
    <3>6. \E other \in [0..(n + 1) -> V] : Follows(n + 1, other)
      <4> HIDE DEF h, Follows
      <4> QED
          BY <3>2, <3>5
    <3> HIDE DEF Follows
    <3> QED
        BY <3>6
  <2> HIDE DEF Reached
  <2> QED
      BY <2>1, <2>2, EveryNumber
<1>2. Nat \subseteq Same
  <2>1. 0 \in Same
      OBVIOUS
  <2>2. ASSUME NEW i \in Nat, i \in Same
        PROVE  i + 1 \in Same
    <3>1. ASSUME NEW m \in Nat, NEW n \in Nat,
                 NEW g \in [0..m -> V], NEW h \in [0..n -> V],
                 Follows(m, g), Follows(n, h), i + 1 <= m, i + 1 <= n
          PROVE  g[i + 1] = h[i + 1]
      <4>1. i \in 0..(m - 1) /\ i \in 0..(n - 1) /\ i <= m /\ i <= n
          BY <3>1
      <4>2. g[i] = h[i]
          BY <2>2, <3>1, <4>1
      <4> QED
          BY <3>1, <4>1, <4>2
    <3> QED
        BY <3>1
  <2> HIDE DEF Same
  <2> QED
      BY <2>1, <2>2, EveryNumber
<1> DEFINE G(n) == CHOOSE g \in [0..n -> V] : Follows(n, g)
           f == [n \in Nat |-> G(n)[n]]
<1>3. \A n \in Nat : G(n) \in [0..n -> V] /\ Follows(n, G(n))
    BY <1>1
<1>4. f \in [Nat -> V]
  <2> HIDE DEF G
  <2> QED
      BY <1>3
<1>5. f[0] = base
  <2> HIDE DEF G
  <2> QED
      BY <1>3
<1>6. ASSUME NEW n \in Nat PROVE f[n + 1] = step[<<n, f[n]>>]
  <2> HIDE DEF G
  <2>1. G(n + 1)[n + 1] = step[<<n, G(n + 1)[n]>>]
    <3>1. n \in 0..((n + 1) - 1) /\ n + 1 \in Nat
        OBVIOUS
    <3> QED
        BY <1>3, <3>1
  <2>2. G(n + 1)[n] = G(n)[n]
      BY <1>2, <1>3, n + 1 \in Nat, n <= n + 1, n <= n
  <2> QED
      BY <2>1, <2>2
<1> QED
    BY <1>4, <1>5, <1>6 DEF Iterates

\* A loop of n steps: each goes on from what the one before left.
Counts(f, n, base, step) ==
    f = [i \in 0..n |-> IF i = 0 THEN base ELSE step[<<i, f[i - 1]>>]]

LEMMA CountedLoop ==
    ASSUME NEW n \in Nat, NEW V, NEW base \in V,
           NEW step \in [(1..n) \X V -> V]
    PROVE  \E f \in [0..n -> V] : Counts(f, n, base, step)
<1> DEFINE D == Nat \X V
           on == [a \in D |-> IF a[1] + 1 <= n THEN step[<<a[1] + 1, a[2]>>]
                              ELSE a[2]]
<1>1. on \in [D -> V]
  <2> SUFFICES ASSUME NEW i \in Nat, NEW v \in V
               PROVE  (IF i + 1 <= n THEN step[<<i + 1, v>>] ELSE v) \in V
      OBVIOUS
  <2>1. CASE i + 1 <= n
      BY <2>1, i + 1 \in 1..n
  <2> QED
      BY <2>1
<1>2. \A i \in Nat, v \in V : i + 1 <= n => on[<<i, v>>] = step[<<i + 1, v>>]
    OBVIOUS
<1> HIDE DEF on
<1>3. PICK g : Iterates(g, V, base, on)
    BY <1>1, Recursion
<1>4. /\ g \in [Nat -> V] /\ g[0] = base
      /\ \A i \in Nat : g[i + 1] = on[<<i, g[i]>>]
    BY <1>3 DEF Iterates
<1> DEFINE f == [i \in 0..n |-> g[i]]
<1>5. f \in [0..n -> V]
    BY <1>4
<1>6. ASSUME NEW i \in 0..n
      PROVE  f[i] = IF i = 0 THEN base ELSE step[<<i, f[i - 1]>>]
  <2>1. CASE i = 0
      BY <1>4, <2>1
  <2>2. CASE i # 0
    <3>1. i - 1 \in Nat /\ (i - 1) + 1 = i /\ i - 1 \in 0..n
        BY <2>2
    <3>2. f[i] = on[<<i - 1, g[i - 1]>>] /\ f[i - 1] = g[i - 1]
        BY <1>4, <3>1
    <3>3. g[i - 1] \in V
        BY <1>4, <3>1
    <3>4. on[<<i - 1, g[i - 1]>>] = step[<<i, g[i - 1]>>]
        BY <1>2, <3>1, <3>3
    <3> QED
        BY <2>2, <3>2, <3>4
  <2> QED
      BY <2>1, <2>2
<1>7. Counts(f, n, base, step)
  <2>1. f = [i \in 0..n |-> f[i]]
      OBVIOUS
  <2> HIDE DEF f
  <2>2. f = [i \in 0..n |-> IF i = 0 THEN base ELSE step[<<i, f[i - 1]>>]]
      BY <1>6, <2>1
  <2> QED
      BY <2>2 DEF Counts
<1> QED
    BY <1>5, <1>7

\* What each x of a set is given depends on what is given to those of smaller
\* measure.
Depends(S, V, mu, G) ==
    /\ mu \in [S -> Nat]
    /\ G \in [S \X [S -> V] -> V]
    /\ \A x \in S : \A f, g \in [S -> V] :
           (\A y \in S : mu[y] < mu[x] => f[y] = g[y])
           => G[<<x, f>>] = G[<<x, g>>]

\* A function that gives each x what G makes of it and of the function.
Solves(f, S, V, G) == f \in [S -> V] /\ \A x \in S : f[x] = G[<<x, f>>]

\* Then there is a function that gives it.
LEMMA RecursionByMeasure ==
    ASSUME NEW S, NEW V, V # {}, NEW mu, NEW G, Depends(S, V, mu, G)
    PROVE  \E f : Solves(f, S, V, G)
<1> PICK any \in V : TRUE
    BY Zenon
<1> DEFINE W == [S -> V]
           base == [x \in S |-> any]
           Once(f) == [x \in S |-> G[<<x, f>>]]
           step == [a \in Nat \X W |-> Once(a[2])]
<1>1. mu \in [S -> Nat] /\ G \in [S \X W -> V]
    BY DEF Depends
<1>2. base \in W
    OBVIOUS
<1>3. \A f \in W : Once(f) \in W
    BY <1>1
<1>4. step \in [Nat \X W -> W]
  <2> HIDE DEF W, Once
  <2> QED
      BY <1>3
<1>5. PICK g : Iterates(g, W, base, step)
  <2> HIDE DEF W, base, step
  <2> QED
      BY <1>2, <1>4, Recursion
<1>6. g \in [Nat -> W] /\ \A n \in Nat : g[n + 1] = step[<<n, g[n]>>]
    BY <1>5 DEF Iterates
<1>7. ASSUME NEW n \in Nat, NEW x \in S
      PROVE  g[n + 1][x] = G[<<x, g[n]>>]
  <2>1. <<n, g[n]>> \in Nat \X W
      BY <1>6
  <2>2. g[n + 1] = Once(g[n])
    <3> HIDE DEF W, Once
    <3> QED
        BY <1>6, <2>1
  <2> QED
      BY <2>2
<1>8. \A n \in Nat : g[n] \in W
    BY <1>6
<1>9. ASSUME NEW x \in S, NEW f \in W, NEW h \in W,
             \A y \in S : mu[y] < mu[x] => f[y] = h[y]
      PROVE  G[<<x, f>>] = G[<<x, h>>]
    BY <1>9 DEF Depends
<1> HIDE DEF W, base, step, Once
<1> DEFINE Stable == {n \in Nat : \A x \in S : mu[x] < n =>
                                      g[n + 1][x] = g[n][x]}
<1>10. Nat \subseteq Stable
  <2>1. 0 \in Stable
      BY <1>1
  <2>2. ASSUME NEW n \in Nat, n \in Stable PROVE n + 1 \in Stable
    <3>1. ASSUME NEW x \in S, mu[x] < n + 1
          PROVE  g[(n + 1) + 1][x] = g[n + 1][x]
      <4>1. \A y \in S : mu[y] < mu[x] => mu[y] < n
          BY <1>1, <3>1
      <4>2. \A y \in S : mu[y] < mu[x] => g[n + 1][y] = g[n][y]
          BY <2>2, <4>1
      <4>3. G[<<x, g[n + 1]>>] = G[<<x, g[n]>>]
        <5> HIDE DEF Stable
        <5>1. g[n + 1] \in W /\ g[n] \in W
            BY <1>8
        <5> QED
            BY <1>9, <4>2, <5>1
      <4>4. /\ g[(n + 1) + 1][x] = G[<<x, g[n + 1]>>]
            /\ g[n + 1][x] = G[<<x, g[n]>>]
          BY <1>7
      <4> QED
          BY <4>3, <4>4
    <3> QED
        BY <3>1
  <2> HIDE DEF Stable
  <2> QED
      BY <2>1, <2>2, EveryNumber
<1> DEFINE Settled == {n \in Nat : \A x \in S : mu[x] < n =>
                                       g[n][x] = g[mu[x] + 1][x]}
<1>11. Nat \subseteq Settled
  <2>1. 0 \in Settled
      BY <1>1
  <2>2. ASSUME NEW n \in Nat, n \in Settled PROVE n + 1 \in Settled
    <3>1. ASSUME NEW x \in S, mu[x] < n + 1
          PROVE  g[n + 1][x] = g[mu[x] + 1][x]
      <4>1. CASE mu[x] = n
          BY <4>1
      <4>2. CASE mu[x] < n
        <5>1. g[n][x] = g[mu[x] + 1][x]
            BY <2>2, <4>2
        <5>2. g[n + 1][x] = g[n][x]
            BY <1>10, <4>2
        <5> QED
            BY <5>1, <5>2
      <4> QED
          BY <1>1, <3>1, <4>1, <4>2
    <3> QED
        BY <3>1
  <2> HIDE DEF Settled
  <2> QED
      BY <2>1, <2>2, EveryNumber
<1> DEFINE f == [x \in S |-> g[mu[x] + 1][x]]
<1>12. f \in W
  <2>1. \A x \in S : g[mu[x] + 1] \in [S -> V]
      BY <1>1, <1>8 DEF W
  <2> QED
      BY <2>1 DEF W
<1>13. ASSUME NEW x \in S PROVE f[x] = G[<<x, f>>]
  <2>1. ASSUME NEW y \in S, mu[y] < mu[x] PROVE g[mu[x]][y] = f[y]
      BY <1>1, <1>11, <2>1
  <2>2. mu[x] \in Nat /\ g[mu[x]] \in W
      BY <1>1, <1>8
  <2>3. G[<<x, g[mu[x]]>>] = G[<<x, f>>]
    <3> HIDE DEF f, Stable, Settled
    <3> QED
        BY <1>9, <1>12, <2>1, <2>2
  <2>4. f[x] = g[mu[x] + 1][x]
      OBVIOUS
  <2>5. g[mu[x] + 1][x] = G[<<x, g[mu[x]]>>]
      BY <1>7, <2>2
  <2> QED
      BY <2>3, <2>4, <2>5
<1>14. f \in [S -> V]
    BY <1>12 DEF W
<1> HIDE DEF f
<1> QED
    BY <1>13, <1>14 DEF Solves

=============================================================================
