-------------------------- MODULE NegotiationProofs --------------------------
(***************************************************************************)
(* What the reading of a candidate gives, for every priority, octet and    *)
(* port, and that what is trickled fits what was offered.                  *)
(***************************************************************************)
EXTENDS Negotiation, Induction, SequenceTheorems

Digits == 0..9

-----------------------------------------------------------------------------
(***************************************************************************)
(* Numbers and their digits.                                               *)
(***************************************************************************)

\* The value of some digits is that of the ones before, times ten, and the
\* last one.
LEMMA ValueSteps ==
    ASSUME NEW s \in Seq(Digits)
    PROVE  \E g \in [Nat -> Nat] :
               /\ g[0] = 0
               /\ \A i \in 0..(Len(s) - 1) : g[i + 1] = 10 * g[i] + s[i + 1]
               /\ ValueOf(s) = g[Len(s)]
<1> DEFINE n == Len(s)
           step == [a \in Nat \X Nat |->
                       IF a[1] < n THEN 10 * a[2] + s[a[1] + 1] ELSE a[2]]
           Values(f) == f = [i \in 0..n |-> IF i = 0 THEN 0
                                            ELSE 10 * f[i - 1] + s[i]]
           F == CHOOSE f : Values(f)
           zero == 0
<1>1. n \in Nat /\ \A i \in 1..n : s[i] \in Nat
  <2>1. n \in Nat /\ \A i \in 1..n : s[i] \in Digits
      BY LenProperties, ElementOfSeq
  <2> QED
      BY <2>1 DEF Digits
<1>2. step \in [Nat \X Nat -> Nat]
  <2> HIDE DEF n
  <2> QED
      BY <1>1
<1>3. PICK g : Iterates(g, Nat, zero, step)
  <2>1. zero \in Nat
      OBVIOUS
  <2> HIDE DEF step, zero
  <2> QED
      BY <1>2, <2>1, Recursion
<1>4. /\ g \in [Nat -> Nat] /\ g[0] = 0
      /\ \A i \in Nat : g[i + 1] = step[<<i, g[i]>>]
    BY <1>3 DEF Iterates
<1>5. ASSUME NEW i \in 0..(n - 1) PROVE g[i + 1] = 10 * g[i] + s[i + 1]
  <2>1. i \in Nat /\ i < n
    <3> HIDE DEF n
    <3> QED
        BY <1>1
  <2>2. step[<<i, g[i]>>] = 10 * g[i] + s[i + 1]
    <3>1. <<i, g[i]>> \in Nat \X Nat
        BY <1>4, <2>1
    <3> HIDE DEF n
    <3> QED
        BY <2>1, <3>1
  <2> HIDE DEF step
  <2> QED
      BY <1>4, <2>1, <2>2
<1> HIDE DEF step, n
<1>6. Values([i \in 0..n |-> g[i]])
  <2> DEFINE f == [i \in 0..n |-> g[i]]
  <2>1. ASSUME NEW i \in 0..n
        PROVE  f[i] = IF i = 0 THEN 0 ELSE 10 * f[i - 1] + s[i]
    <3>1. CASE i = 0
        BY <1>4, <3>1
    <3>2. CASE i # 0
      <4>1. i - 1 \in 0..(n - 1) /\ i - 1 \in 0..n /\ (i - 1) + 1 = i
          BY <1>1, <3>2
      <4>2. g[i] = 10 * g[i - 1] + s[i]
          BY <1>5, <4>1
      <4> QED
          BY <3>2, <4>1, <4>2
    <3> QED
        BY <3>1, <3>2
  <2> QED
      BY <2>1
<1>7. Values(F)
    BY <1>6
<1>8. ASSUME NEW i \in 0..n
      PROVE  F[i] = IF i = 0 THEN 0 ELSE 10 * F[i - 1] + s[i]
  <2>1. F = [j \in 0..n |-> IF j = 0 THEN 0 ELSE 10 * F[j - 1] + s[j]]
      BY <1>7
  <2> HIDE DEF F
  <2> QED
      BY <2>1, Zenon
<1> HIDE DEF F
<1> DEFINE Agree == {i \in Nat : i \in 0..n => F[i] = g[i]}
<1>9. Nat \subseteq Agree
  <2>1. 0 \in Agree
      BY <1>4, <1>8
  <2>2. ASSUME NEW i \in Nat, i \in Agree PROVE i + 1 \in Agree
    <3>1. CASE i + 1 \in 0..n
      <4>1. i \in 0..n /\ i \in 0..(n - 1) /\ i + 1 # 0 /\ (i + 1) - 1 = i
          BY <1>1, <3>1
      <4>2. F[i] = g[i]
          BY <2>2, <4>1
      <4>3. F[i + 1] = 10 * F[i] + s[i + 1]
          BY <1>8, <3>1, <4>1
      <4>4. g[i + 1] = 10 * g[i] + s[i + 1]
          BY <1>5, <4>1
      <4>5. F[i + 1] = g[i + 1]
          BY <4>2, <4>3, <4>4
      <4> QED
          BY <4>5
    <3>2. CASE i + 1 \notin 0..n
        BY <3>2
    <3> QED
        BY <3>1, <3>2
  <2> HIDE DEF Agree
  <2> QED
      BY <2>1, <2>2, EveryNumber
<1>10. ValueOf(s) = F[n]
    BY DEF ValueOf, F, n
<1>11. F[n] = g[n]
    BY <1>1, <1>9
<1> QED
    BY <1>4, <1>5, <1>10, <1>11 DEF n

LEMMA ValueIsNat ==
    ASSUME NEW s \in Seq(Digits)
    PROVE  ValueOf(s) \in Nat
BY ValueSteps, LenProperties

LEMMA ValueOfOne ==
    ASSUME NEW n \in Digits
    PROVE  ValueOf(<<n>>) = n
<1>1. <<n>> \in Seq(Digits) /\ Len(<<n>>) = 1 /\ <<n>>[1] = n /\ n \in Nat
    BY DEF Digits
<1>2. PICK g \in [Nat -> Nat] :
          /\ g[0] = 0
          /\ \A i \in 0..(Len(<<n>>) - 1) : g[i + 1] = 10 * g[i] + <<n>>[i + 1]
          /\ ValueOf(<<n>>) = g[Len(<<n>>)]
    BY <1>1, ValueSteps
<1>3. 0 \in 0..(1 - 1)
    OBVIOUS
<1>4. g[0 + 1] = 10 * g[0] + <<n>>[0 + 1]
    BY <1>1, <1>2, <1>3
<1> QED
    BY <1>1, <1>2, <1>4

LEMMA ValueOfMore ==
    ASSUME NEW s \in Seq(Digits), NEW d \in Digits
    PROVE  ValueOf(Append(s, d)) = 10 * ValueOf(s) + d
<1> DEFINE t == Append(s, d)
           n == Len(s)
<1>1. /\ t \in Seq(Digits) /\ Len(t) = n + 1 /\ n \in Nat
      /\ \A i \in 1..n : t[i] = s[i]
      /\ t[n + 1] = d
    BY AppendProperties, LenProperties
<1>2. PICK g \in [Nat -> Nat] :
          /\ g[0] = 0
          /\ \A i \in 0..(Len(s) - 1) : g[i + 1] = 10 * g[i] + s[i + 1]
          /\ ValueOf(s) = g[Len(s)]
    BY ValueSteps
<1>3. PICK h \in [Nat -> Nat] :
          /\ h[0] = 0
          /\ \A i \in 0..(Len(t) - 1) : h[i + 1] = 10 * h[i] + t[i + 1]
          /\ ValueOf(t) = h[Len(t)]
    BY <1>1, ValueSteps
<1> HIDE DEF t
<1> DEFINE Agree == {i \in Nat : i <= n => g[i] = h[i]}
<1>4. Nat \subseteq Agree
  <2>1. 0 \in Agree
      BY <1>2, <1>3
  <2>2. ASSUME NEW i \in Nat, i \in Agree PROVE i + 1 \in Agree
    <3>1. CASE i + 1 <= n
      <4>1. /\ i \in 0..(Len(s) - 1) /\ i \in 0..(Len(t) - 1)
            /\ i + 1 \in 1..n /\ i <= n
          BY <1>1, <3>1
      <4>2. g[i] = h[i]
          BY <2>2, <4>1
      <4>3. g[i + 1] = 10 * g[i] + s[i + 1]
          BY <1>2, <4>1
      <4>4. h[i + 1] = 10 * h[i] + s[i + 1]
          BY <1>1, <1>3, <4>1
      <4>5. g[i + 1] = h[i + 1]
          BY <4>2, <4>3, <4>4
      <4> QED
          BY <4>5
    <3>2. CASE ~(i + 1 <= n)
        BY <3>2
    <3> QED
        BY <3>1, <3>2
  <2> HIDE DEF Agree
  <2> QED
      BY <2>1, <2>2, EveryNumber
<1>5. g[n] = h[n]
    BY <1>1, <1>4
<1>6. h[n + 1] = 10 * h[n] + d
  <2>1. n \in 0..(Len(t) - 1)
      BY <1>1
  <2> QED
      BY <1>1, <1>3, <2>1
<1>7. ValueOf(t) = 10 * ValueOf(s) + d
    BY <1>1, <1>2, <1>3, <1>5, <1>6
<1> QED
    BY <1>7 DEF t

\* There are digits of every number.
LEMMA DigitsDefined ==
    \A n \in Nat : DigitsOf[n] = IF n < 10 THEN <<n>>
                                 ELSE Append(DigitsOf[n \div 10], n % 10)
<1> DEFINE D == Seq(Int)
           V == [Nat -> D]
           base == [n \in Nat |-> <<n>>]
           Next10(f) == [n \in Nat |-> IF n < 10 THEN <<n>>
                                       ELSE Append(f[n \div 10], n % 10)]
           step == [a \in Nat \X V |-> Next10(a[2])]
<1>1. \A n \in Nat : n \div 10 \in Nat /\ n % 10 \in Int /\ n % 10 \in 0..9
                     /\ (n >= 10 => n \div 10 < n)
                     /\ n = 10 * (n \div 10) + (n % 10)
    OBVIOUS
<1>2. \A n \in Nat : <<n>> \in D
    OBVIOUS
<1>3. \A s \in D, d \in Int : Append(s, d) \in D
    OBVIOUS
<1> HIDE DEF D
<1>4. base \in V
    BY <1>2
<1>5. \A f \in V : Next10(f) \in V
    BY <1>1, <1>2, <1>3
<1>6. step \in [Nat \X V -> V]
  <2> HIDE DEF V, Next10
  <2> QED
      BY <1>5
<1>7. PICK g : Iterates(g, V, base, step)
  <2> HIDE DEF base, step, V
  <2> QED
      BY <1>4, <1>6, Recursion
<1>8. /\ g \in [Nat -> V] /\ g[0] = base
      /\ \A k \in Nat : g[k + 1] = Next10(g[k])
  <2>1. /\ g \in [Nat -> V] /\ g[0] = base
        /\ \A k \in Nat : g[k + 1] = step[<<k, g[k]>>]
    <3> HIDE DEF V, base, step
    <3> QED
        BY <1>7 DEF Iterates
  <2>2. ASSUME NEW k \in Nat PROVE step[<<k, g[k]>>] = Next10(g[k])
    <3>1. <<k, g[k]>> \in Nat \X V
      <4> HIDE DEF V
      <4> QED
          BY <2>1
    <3> HIDE DEF V, Next10
    <3> QED
        BY <3>1
  <2> HIDE DEF V, Next10, base, step
  <2> QED
      BY <2>1, <2>2
<1>9. /\ \A n \in Nat : g[0][n] = <<n>>
      /\ \A k, n \in Nat : g[k + 1][n] =
             IF n < 10 THEN <<n>> ELSE Append(g[k][n \div 10], n % 10)
  <2> HIDE DEF V, D, step
  <2> QED
      BY <1>8
<1> HIDE DEF base, step, V, Next10
<1> DEFINE Shorter(k, n) == Append(g[k][n \div 10], n % 10)
<1>10a. ASSUME NEW k \in Nat, NEW n \in Nat, n >= 10
      PROVE  g[k + 1][n] = Shorter(k, n)
  <2>1. ~(n < 10)
      BY <1>10a
  <2>2. g[k + 1][n] = IF n < 10 THEN <<n>> ELSE Append(g[k][n \div 10], n % 10)
      BY <1>9, Zenon
  <2> QED
      BY <2>1, <2>2, Zenon
<1>10b. ASSUME NEW k \in Nat, NEW n \in Nat, n < 10
      PROVE  g[k + 1][n] = <<n>>
    BY <1>9, <1>10b
<1> DEFINE Stable == {k \in Nat : \A n \in Nat : n <= k =>
                                      g[k + 1][n] = g[k][n]}
<1>10. Nat \subseteq Stable
  <2>1. 0 \in Stable
    <3>1. g[0][0] = <<0>> /\ g[0 + 1][0] = <<0>>
        BY <1>9, <1>10b
    <3> QED
        BY <3>1
  <2>2. ASSUME NEW k \in Nat, k \in Stable PROVE k + 1 \in Stable
    <3>1. ASSUME NEW n \in Nat, n <= k + 1
          PROVE  g[(k + 1) + 1][n] = g[k + 1][n]
      <4>1. CASE n < 10
          BY <1>10b, <4>1, k + 1 \in Nat
      <4>2. CASE n >= 10
        <5>1. n \div 10 \in Nat /\ n \div 10 <= k
            BY <1>1, <3>1, <4>2
        <5>2. g[k + 1][n \div 10] = g[k][n \div 10]
            BY <2>2, <5>1
        <5>3. /\ g[(k + 1) + 1][n] = Append(g[k + 1][n \div 10], n % 10)
              /\ g[k + 1][n] = Append(g[k][n \div 10], n % 10)
            BY <1>10a, <4>2, k + 1 \in Nat
        <5> QED
            BY <5>2, <5>3
      <4> QED
          BY <4>1, <4>2
    <3> QED
        BY <3>1
  <2> HIDE DEF Stable
  <2> QED
      BY <2>1, <2>2, EveryNumber
<1> DEFINE Settled == {k \in Nat : \A n \in Nat : n <= k =>
                                       g[k][n] = g[n][n]}
<1>11. Nat \subseteq Settled
  <2>1. 0 \in Settled
      OBVIOUS
  <2>2. ASSUME NEW k \in Nat, k \in Settled PROVE k + 1 \in Settled
    <3>1. ASSUME NEW n \in Nat, n <= k + 1
          PROVE  g[k + 1][n] = g[n][n]
      <4>1. CASE n = k + 1
          BY <4>1
      <4>2. CASE n <= k
        <5>1. g[k][n] = g[n][n]
            BY <2>2, <4>2
        <5>2. g[k + 1][n] = g[k][n]
            BY <1>10, <4>2
        <5> QED
            BY <5>1, <5>2
      <4> QED
          BY <3>1, <4>1, <4>2
    <3> QED
        BY <3>1
  <2> HIDE DEF Settled
  <2> QED
      BY <2>1, <2>2, EveryNumber
<1> DEFINE f == [n \in Nat |-> g[n][n]]
<1>12. ASSUME NEW n \in Nat
       PROVE  f[n] = IF n < 10 THEN <<n>> ELSE Append(f[n \div 10], n % 10)
  <2>1. CASE n < 10
    <3>1. CASE n = 0
        BY <1>9, <3>1
    <3>2. CASE n # 0
      <4>1. n - 1 \in Nat /\ n = (n - 1) + 1
          BY <3>2
      <4>2. g[(n - 1) + 1][n] = <<n>>
          BY <1>10b, <2>1, <4>1
      <4> QED
          BY <2>1, <4>1, <4>2
    <3> QED
        BY <3>1, <3>2
  <2>2. CASE n >= 10
    <3>1. /\ n - 1 \in Nat /\ n = (n - 1) + 1 /\ n \div 10 \in Nat
          /\ n \div 10 <= n - 1
        BY <1>1, <2>2
    <3>2. g[(n - 1) + 1][n] = Append(g[n - 1][n \div 10], n % 10)
        BY <1>10a, <2>2, <3>1
    <3>3. g[n - 1][n \div 10] = g[n \div 10][n \div 10]
        BY <1>11, <3>1
    <3>4. f[n] = g[n][n] /\ f[n \div 10] = g[n \div 10][n \div 10]
        BY <3>1
    <3>5. f[n] = Append(f[n \div 10], n % 10)
        BY <3>1, <3>2, <3>3, <3>4, Zenon
    <3>6. ~(n < 10)
        BY <2>2
    <3> QED
        BY <3>5, <3>6, Zenon
  <2> QED
      BY <2>1, <2>2
<1> DEFINE IsDigits(e) == e = [n \in Nat |-> IF n < 10 THEN <<n>>
                                  ELSE Append(e[n \div 10], n % 10)]
<1>13. IsDigits(f)
  <2>1. DOMAIN f = Nat
      OBVIOUS
  <2> QED
      BY <1>12
<1>14. IsDigits(DigitsOf)
  <2>1. DigitsOf = CHOOSE e : IsDigits(e)
      BY DEF DigitsOf
  <2>2. IsDigits(CHOOSE e : IsDigits(e))
    <3> HIDE DEF f
    <3> QED
        BY <1>13
  <2> HIDE DEF IsDigits
  <2> QED
      BY <2>1, <2>2
<1>15. DigitsOf = [n \in Nat |-> IF n < 10 THEN <<n>>
                                 ELSE Append(DigitsOf[n \div 10], n % 10)]
    BY <1>14
<1> QED
    BY <1>15, Zenon

LEMMA TenthFacts ==
    ASSUME NEW n \in Nat
    PROVE  /\ n \div 10 \in Nat /\ n % 10 \in Digits
           /\ n >= 10 => n \div 10 < n
           /\ n = 10 * (n \div 10) + (n % 10)
           /\ n < 100 => n \div 10 < 10
           /\ n < 1000 => n \div 10 < 100
           /\ n >= 100 => n \div 10 >= 10
BY DEF Digits

\* A digit is written as it is.
LEMMA DigitsOfOne ==
    ASSUME NEW n \in Nat, n < 10
    PROVE  /\ DigitsOf[n] = <<n>> /\ n \in Digits
           /\ <<n>> \in Seq(Digits) /\ Len(<<n>>) = 1 /\ <<n>> # <<>>
<1>1. DigitsOf[n] = IF n < 10 THEN <<n>>
                    ELSE Append(DigitsOf[n \div 10], n % 10)
    BY DigitsDefined, Zenon
<1>2. DigitsOf[n] = <<n>>
    BY <1>1, Zenon
<1>3. n \in Digits
    BY DEF Digits
<1>4. <<n>> \in Seq(Digits) /\ Len(<<n>>) = 1 /\ <<n>> # <<>>
    BY <1>3
<1> QED
    BY <1>2, <1>3, <1>4

LEMMA DigitsAreDigits ==
    \A n \in Nat : DigitsOf[n] \in Seq(Digits) /\ DigitsOf[n] # <<>>
<1> DEFINE S == {n \in Nat : DigitsOf[n] \in Seq(Digits) /\ DigitsOf[n] # <<>>}
<1>1. ASSUME NEW n \in Nat, \A m \in Nat : m < n => m \in S
      PROVE  n \in S
  <2>1. CASE n < 10
    <3> QED
        BY <2>1, DigitsOfOne
  <2>2. CASE n >= 10
    <3> DEFINE t == DigitsOf[n \div 10]
    <3>1. n \div 10 \in Nat /\ n \div 10 < n /\ n % 10 \in Digits
        BY <2>2, TenthFacts
    <3>2. t \in Seq(Digits)
        BY <1>1, <3>1
    <3>3. DigitsOf[n] = Append(t, n % 10)
      <4>1. ~(n < 10)
          BY <2>2
      <4> QED
          BY <4>1, DigitsDefined, Zenon
    <3> HIDE DEF t
    <3>4. Append(t, n % 10) \in Seq(Digits) /\ Append(t, n % 10) # <<>>
        BY <3>1, <3>2, AppendProperties
    <3> QED
        BY <3>3, <3>4
  <2> QED
      BY <2>1, <2>2
<1>2. Nat \subseteq S
  <2> HIDE DEF S
  <2> QED
      BY <1>1, AllNumbers
<1> QED
    BY <1>2

\* The digits of a number that has more than one.
LEMMA DigitsOfMore ==
    ASSUME NEW n \in Nat, n >= 10
    PROVE  /\ DigitsOf[n] = Append(DigitsOf[n \div 10], n % 10)
           /\ Len(DigitsOf[n]) = Len(DigitsOf[n \div 10]) + 1
<1>1. ~(n < 10)
    OBVIOUS
<1>2. DigitsOf[n] = Append(DigitsOf[n \div 10], n % 10)
    BY <1>1, DigitsDefined, Zenon
<1>3. n \div 10 \in Nat /\ n % 10 \in Digits
    BY TenthFacts
<1>4. Len(Append(DigitsOf[n \div 10], n % 10)) = Len(DigitsOf[n \div 10]) + 1
    BY <1>3, DigitsAreDigits, AppendProperties
<1> QED
    BY <1>2, <1>4

\* What is written down is read back.
LEMMA ReadBack ==
    \A n \in Nat : ValueOf(DigitsOf[n]) = n
<1> DEFINE S == {n \in Nat : ValueOf(DigitsOf[n]) = n}
<1>1. ASSUME NEW n \in Nat, \A m \in Nat : m < n => m \in S
      PROVE  n \in S
  <2>1. CASE n < 10
    <3>1. DigitsOf[n] = <<n>> /\ n \in Digits
        BY <2>1, DigitsOfOne
    <3> QED
        BY <3>1, ValueOfOne
  <2>2. CASE n >= 10
    <3>1. /\ n \div 10 \in Nat /\ n \div 10 < n /\ n % 10 \in Digits
          /\ n = 10 * (n \div 10) + (n % 10)
        BY <2>2, TenthFacts
    <3>2. ValueOf(DigitsOf[n \div 10]) = n \div 10
        BY <1>1, <3>1
    <3>3. DigitsOf[n \div 10] \in Seq(Digits)
        BY <3>1, DigitsAreDigits
    <3>4. ValueOf(DigitsOf[n]) =
              10 * ValueOf(DigitsOf[n \div 10]) + (n % 10)
        BY <2>2, <3>1, <3>3, DigitsOfMore, ValueOfMore
    <3>5. ValueOf(DigitsOf[n]) = n
        BY <3>1, <3>2, <3>4
    <3> QED
        BY <3>5
  <2> QED
      BY <2>1, <2>2
<1>2. Nat \subseteq S
  <2> HIDE DEF S
  <2> QED
      BY <1>1, AllNumbers
<1> QED
    BY <1>2

\* An octet has one to three digits.
LEMMA OctetDigits ==
    ASSUME NEW n \in Nat, n < 1000
    PROVE  /\ Len(DigitsOf[n]) \in 1..3
           /\ n < 10 => DigitsOf[n] = <<n>>
           /\ n >= 100 => Len(DigitsOf[n]) = 3
<1>1. ASSUME NEW m \in Nat, m < 10
      PROVE  DigitsOf[m] = <<m>> /\ Len(DigitsOf[m]) = 1
  <2>1. DigitsOf[m] = <<m>> /\ Len(<<m>>) = 1
      BY <1>1, DigitsOfOne
  <2> QED
      BY <2>1
<1>2. ASSUME NEW m \in Nat, m >= 10, m < 100 PROVE Len(DigitsOf[m]) = 2
  <2>1. m \div 10 \in Nat /\ m \div 10 < 10
      BY <1>2, TenthFacts
  <2>2. Len(DigitsOf[m]) = Len(DigitsOf[m \div 10]) + 1
      BY <1>2, DigitsOfMore
  <2>3. Len(DigitsOf[m \div 10]) = 1
      BY <1>1, <2>1
  <2> QED
      BY <2>2, <2>3
<1>3. ASSUME n >= 100 PROVE Len(DigitsOf[n]) = 3
  <2>1. n \div 10 \in Nat /\ n \div 10 < 100 /\ n \div 10 >= 10
      BY <1>3, TenthFacts
  <2>2. Len(DigitsOf[n]) = Len(DigitsOf[n \div 10]) + 1
      BY <1>3, DigitsOfMore
  <2>3. Len(DigitsOf[n \div 10]) = 2
      BY <1>2, <2>1
  <2> QED
      BY <2>2, <2>3
<1> QED
    BY <1>1, <1>2, <1>3

-----------------------------------------------------------------------------
(***************************************************************************)
(* Cuts.                                                                   *)
(***************************************************************************)

\* Two numbers that were run together come apart at the right place.
LEMMA CutApart ==
    ASSUME NEW S, NEW p \in Seq(S), NEW q \in Seq(S), p # <<>>, q # <<>>
    PROVE  /\ ButLast(p \o q, Len(q)) = p
           /\ TheLast(p \o q, Len(q)) = q
           /\ TheFirst(p \o q, Len(p)) = p
           /\ ButFirst(p \o q, Len(p)) = q
<1>1. /\ Len(p) \in Nat /\ Len(q) \in Nat /\ Len(p) > 0 /\ Len(q) > 0
      /\ p \o q \in Seq(S) /\ Len(p \o q) = Len(p) + Len(q)
    BY EmptySeq, LenProperties, ConcatProperties
<1>2. SubSeq(p \o q, 1, Len(p)) = p
  <2>1. 1 \in 1..Len(p) /\ Len(p) \in 1..Len(p)
      BY <1>1
  <2>2. SubSeq(p \o q, 1, Len(p)) = SubSeq(p, 1, Len(p))
      BY <2>1, SubSeqOfConcat1
  <2> QED
      BY <2>2, SubSeqFull
<1>3. SubSeq(p \o q, Len(p) + 1, Len(p) + Len(q)) = q
  <2>1. /\ Len(p) + 1 \in Len(p)+1 .. Len(p)+Len(q)
        /\ Len(p) + Len(q) \in Len(p)+1 .. Len(p)+Len(q)
        /\ (Len(p) + 1) - Len(p) = 1 /\ (Len(p) + Len(q)) - Len(p) = Len(q)
      BY <1>1
  <2>2. SubSeq(p \o q, Len(p) + 1, Len(p) + Len(q)) =
            SubSeq(q, (Len(p) + 1) - Len(p), (Len(p) + Len(q)) - Len(p))
      BY <2>1, SubSeqOfConcat2
  <2> QED
      BY <2>1, <2>2, SubSeqFull
<1> DEFINE l == Len(p)
           m == Len(q)
           w == Len(p \o q)
<1>4. l \in Nat /\ m \in Nat /\ l > 0 /\ m > 0 /\ w = l + m
    BY <1>1
<1>5. w - m = l /\ m < w /\ l < w /\ w - m + 1 = l + 1
  <2> HIDE DEF l, m, w
  <2> QED
      BY <1>4
<1> QED
    BY <1>1, <1>2, <1>3, <1>5 DEF ButLast, TheLast, TheFirst, ButFirst

\* What a cut takes apart makes up the whole.
LEMMA CutWhole ==
    ASSUME NEW S, NEW s \in Seq(S), NEW n \in 1..3
    PROVE  /\ ButLast(s, n) # <<>> => ButLast(s, n) \o TheLast(s, n) = s
           /\ ButFirst(s, n) # <<>> => TheFirst(s, n) \o ButFirst(s, n) = s
           /\ ButFirst(s, n) \in Seq(S)
<1> DEFINE l == Len(s)
<1>1. l \in Nat /\ n \in Nat /\ n > 0 /\ \A i \in 1..l : s[i] \in S
    BY LenProperties, ElementOfSeq
<1>2. ASSUME ButLast(s, n) # <<>> PROVE ButLast(s, n) \o TheLast(s, n) = s
  <2>1. l - n >= 1
    <3>1. ASSUME l - n < 1 PROVE FALSE
        BY <1>1, <1>2, <3>1, SubSeqEmpty DEF ButLast
    <3> QED
        BY <1>1, <3>1
  <2>2. ButLast(s, n) = SubSeq(s, 1, l - n)
        /\ TheLast(s, n) = SubSeq(s, (l - n) + 1, l)
    <3>1. n < l /\ l - n + 1 = (l - n) + 1
        BY <1>1, <2>1
    <3>2. ButLast(s, n) = SubSeq(s, 1, l - n)
        BY DEF ButLast
    <3>3. TheLast(s, n) = SubSeq(s, l - n + 1, l)
        BY <3>1, Zenon DEF TheLast
    <3> QED
        BY <3>2, <3>3
  <2>3. 1 \in 1..l+1 /\ l - n \in 1-1 .. l /\ l \in l - n .. l
      BY <1>1, <2>1
  <2>4. SubSeq(s, 1, l - n) \o SubSeq(s, (l - n) + 1, l) = SubSeq(s, 1, l)
      BY <2>3, ConcatAdjacentSubSeq
  <2> QED
      BY <2>2, <2>4, SubSeqFull
<1>3. ASSUME ButFirst(s, n) # <<>> PROVE TheFirst(s, n) \o ButFirst(s, n) = s
  <2>1. n + 1 <= l
    <3>1. ASSUME l < n + 1 PROVE FALSE
        BY <1>1, <1>3, <3>1, SubSeqEmpty DEF ButFirst
    <3> QED
        BY <1>1, <3>1
  <2>2. TheFirst(s, n) = SubSeq(s, 1, n) /\ ButFirst(s, n) = SubSeq(s, n + 1, l)
      BY <1>1, <2>1 DEF TheFirst, ButFirst
  <2>3. 1 \in 1..l+1 /\ n \in 1-1 .. l /\ l \in n .. l
      BY <1>1, <2>1
  <2>4. SubSeq(s, 1, n) \o SubSeq(s, n + 1, l) = SubSeq(s, 1, l)
      BY <2>3, ConcatAdjacentSubSeq
  <2> QED
      BY <2>2, <2>4, SubSeqFull
<1>4. ButFirst(s, n) \in Seq(S)
  <2>1. n + 1 \in Int /\ l \in Int /\ \A i \in n + 1 .. l : s[i] \in S
      BY <1>1
  <2> QED
      BY <2>1, SubSeqProperties DEF ButFirst
<1> QED
    BY <1>2, <1>3, <1>4

-----------------------------------------------------------------------------
(***************************************************************************)
(* The search for a split.                                                 *)
(***************************************************************************)

\* Of three things in a row the last that has a property is found.
LEMMA LastOfThree ==
    ASSUME NEW S, S \subseteq 1..3, S # {}
    PROVE  \E a \in S : \A b \in S : b <= a
<1>1. \A b \in S : b = 1 \/ b = 2 \/ b = 3
    OBVIOUS
<1>2. CASE 3 \in S
  <2>1. \A b \in S : b <= 3
      BY <1>1
  <2> QED
      BY <1>2, <2>1
<1>3. CASE 3 \notin S /\ 2 \in S
  <2>1. \A b \in S : b <= 2
      BY <1>1, <1>3
  <2> QED
      BY <1>3, <2>1
<1>4. CASE 3 \notin S /\ 2 \notin S
  <2>1. \A b \in S : b = 1
      BY <1>1, <1>4
  <2>2. \E b \in S : TRUE
      BY Zenon
  <2> QED
      BY <2>1, <2>2
<1> QED
    BY <1>2, <1>3, <1>4

\* The loops find a split if there is one, and no other comes before it.
LEMMA FirstIsFound ==
    ASSUME NEW splits \in SUBSET ((1..3) \X (1..3)), splits # {}
    PROVE  /\ First(splits) \in splits
           /\ \A t \in splits :
                  \/ First(splits)[1] > t[1]
                  \/ First(splits)[1] = t[1] /\ First(splits)[2] >= t[2]
<1> DEFINE Heads == {s[1] : s \in splits}
           Best(s) == \A t \in splits : \/ s[1] > t[1]
                                        \/ s[1] = t[1] /\ s[2] >= t[2]
<1>1. \A s \in splits : s[1] \in 1..3 /\ s[2] \in 1..3
    OBVIOUS
<1>2. Heads \subseteq 1..3 /\ Heads # {}
    BY <1>1
<1>3. PICK a \in Heads : \A b \in Heads : b <= a
  <2> HIDE DEF Heads
  <2> QED
      BY <1>2, LastOfThree
<1> DEFINE Tails == {s[2] : s \in {t \in splits : t[1] = a}}
<1>4. Tails \subseteq 1..3 /\ Tails # {}
    BY <1>1, <1>3
<1>5. PICK c \in Tails : \A b \in Tails : b <= c
  <2> HIDE DEF Tails
  <2> QED
      BY <1>4, LastOfThree
<1>6. PICK s \in splits : s[1] = a /\ s[2] = c
    BY <1>5
<1>7. Best(s)
  <2>1. ASSUME NEW t \in splits
        PROVE  s[1] > t[1] \/ (s[1] = t[1] /\ s[2] >= t[2])
    <3>1. t[1] \in Heads /\ t[1] <= a /\ t[1] \in 1..3 /\ a \in 1..3
        BY <1>1, <1>2, <1>3
    <3>2. CASE t[1] = a
      <4>1. t[2] \in Tails
          BY <3>2
      <4>2. t[2] <= c /\ t[2] \in 1..3 /\ c \in 1..3
          BY <1>1, <1>4, <1>5, <4>1
      <4> QED
          BY <1>6, <3>2, <4>2
    <3>3. CASE t[1] # a
        BY <1>6, <3>1, <3>3
    <3> QED
        BY <3>2, <3>3
  <2> QED
      BY <2>1
<1>8. First(splits) = CHOOSE r \in splits : Best(r)
    BY DEF First
<1>9. First(splits) \in splits /\ Best(First(splits))
  <2> HIDE DEF Best
  <2> QED
      BY <1>6, <1>7, <1>8
<1> QED
    BY <1>9

\* The numbers of a candidate are numbers, with digits.
LEMMA CandidateFacts ==
    ASSUME NEW c \in Candidates
    PROVE  /\ c.foundation \in Nat
           /\ c.component \in 1..2 /\ c.component \in Nat /\ c.component < 10
           /\ c.priority \in Nat
           /\ c.port \in 1..MaxPort /\ c.port \in Nat
           /\ c.octets[1] \in Nat /\ c.octets[2] \in Nat
           /\ c.octets[3] \in Nat /\ c.octets[4] \in Nat
<1>1. /\ c.foundation \in Foundations /\ c.component \in 1..2
      /\ c.priority \in Priorities /\ c.port \in Ports
      /\ c.octets \in Octets \X Middles \X Middles \X Octets
    BY DEF Candidates
<1>2. /\ c.octets[1] \in Octets /\ c.octets[2] \in Middles
      /\ c.octets[3] \in Middles /\ c.octets[4] \in Octets
    BY <1>1
<1>3. c.component \in Nat /\ c.component < 10
    BY <1>1
<1>4. c.port \in 1..MaxPort /\ c.port \in Nat
  <2>1. c.port \in 1..MaxPort
      BY <1>1, CandidateAssumption
  <2> QED
      BY <2>1
<1>5. Foundations \subseteq Nat /\ Priorities \subseteq Nat
      /\ Octets \subseteq Nat /\ Middles \subseteq Nat
    BY CandidateAssumption
<1> QED
    BY <1>1, <1>2, <1>3, <1>4, <1>5, Zenon

LEMMA LineIsDigits ==
    ASSUME NEW c \in Candidates
    PROVE  /\ Line(c).prefix \in Seq(Digits) /\ Line(c).tail \in Seq(Digits)
<1>1. /\ c.priority \in Nat /\ c.port \in Nat
      /\ c.octets[1] \in Nat /\ c.octets[4] \in Nat
    BY CandidateFacts
<1>2. /\ DigitsOf[c.priority] \in Seq(Digits)
      /\ DigitsOf[c.octets[1]] \in Seq(Digits)
      /\ DigitsOf[c.octets[4]] \in Seq(Digits)
      /\ DigitsOf[c.port] \in Seq(Digits)
    BY <1>1, DigitsAreDigits
<1> QED
    BY <1>2, ConcatProperties DEF Line

\* The camera's own split of its line.
TrueSplit(c) == <<Len(DigitsOf[c.octets[1]]), Len(DigitsOf[c.octets[4]])>>

\* Cut there, the line gives the candidate that was sent.
LEMMA TrueCut ==
    ASSUME NEW c \in Candidates
    PROVE  Cut(Line(c), TrueSplit(c)[1], TrueSplit(c)[2]) =
               [foundation |-> DigitsOf[c.foundation],
                component  |-> DigitsOf[c.component],
                priority   |-> DigitsOf[c.priority],
                octets     |-> <<DigitsOf[c.octets[1]], DigitsOf[c.octets[2]],
                                DigitsOf[c.octets[3]], DigitsOf[c.octets[4]]>>,
                port       |-> DigitsOf[c.port]]
<1> DEFINE D(n) == DigitsOf[n]
           f == D(c.foundation)
           k == D(c.component)
           p == D(c.priority)
           x == D(c.octets[1])
           y == D(c.octets[4])
           q == D(c.port)
<1>1. /\ c.foundation \in Nat /\ c.component \in Nat /\ c.component < 10
      /\ c.priority \in Nat /\ c.port \in Nat
      /\ c.octets[1] \in Nat /\ c.octets[4] \in Nat
    BY CandidateFacts
<1>2. \A s \in {f, k, p, x, y, q} : s \in Seq(Digits) /\ s # <<>>
    BY <1>1, DigitsAreDigits
<1>3. Len(k) = 1
  <2>1. k = <<c.component>> /\ Len(<<c.component>>) = 1
      BY <1>1, DigitsOfOne
  <2> QED
      BY <2>1
<1>4. /\ Line(c).name = f \o k /\ Line(c).prefix = p \o x
      /\ Line(c).octet2 = D(c.octets[2]) /\ Line(c).octet3 = D(c.octets[3])
      /\ Line(c).tail = y \o q
    BY DEF Line
<1>5. TrueSplit(c)[1] = Len(x) /\ TrueSplit(c)[2] = Len(y)
    BY DEF TrueSplit
<1> HIDE DEF D, f, k, p, x, y, q
<1>6. ButLast(f \o k, 1) = f /\ TheLast(f \o k, 1) = k
  <2>1. ButLast(f \o k, Len(k)) = f /\ TheLast(f \o k, Len(k)) = k
      BY <1>2, CutApart
  <2> QED
      BY <1>3, <2>1
<1>7. ButLast(p \o x, Len(x)) = p /\ TheLast(p \o x, Len(x)) = x
    BY <1>2, CutApart
<1>8. TheFirst(y \o q, Len(y)) = y /\ ButFirst(y \o q, Len(y)) = q
    BY <1>2, CutApart
<1>9. Cut(Line(c), TrueSplit(c)[1], TrueSplit(c)[2]) =
          [foundation |-> f, component |-> k, priority |-> p,
           octets |-> <<x, D(c.octets[2]), D(c.octets[3]), y>>, port |-> q]
    BY <1>4, <1>5, <1>6, <1>7, <1>8, Zenon DEF Cut
<1> QED
    BY <1>9 DEF D, f, k, p, x, y, q

\* A genuine candidate can be cut where the camera wrote it.
LEMMA TrueSplitIsValid ==
    ASSUME NEW c \in Candidates, \A i \in 1..4 : c.octets[i] <= 255
    PROVE  TrueSplit(c) \in Splits(Line(c))
<1> DEFINE cut == Cut(Line(c), TrueSplit(c)[1], TrueSplit(c)[2])
           a == c.octets[1]
           b == c.octets[2]
           d == c.octets[3]
           e == c.octets[4]
<1>1. /\ a \in Nat /\ b \in Nat /\ d \in Nat /\ e \in Nat
      /\ c.port \in 1..MaxPort /\ c.port \in Nat /\ c.priority \in Nat
    BY CandidateFacts
<1>2. a <= 255 /\ b <= 255 /\ d <= 255 /\ e <= 255
    OBVIOUS
<1>3. cut = [foundation |-> DigitsOf[c.foundation],
             component  |-> DigitsOf[c.component],
             priority   |-> DigitsOf[c.priority],
             octets     |-> <<DigitsOf[a], DigitsOf[b],
                             DigitsOf[d], DigitsOf[e]>>,
             port       |-> DigitsOf[c.port]]
    BY TrueCut, Zenon
<1>4. TrueSplit(c) = <<Len(DigitsOf[a]), Len(DigitsOf[e])>>
    BY DEF TrueSplit
<1> HIDE DEF cut, a, b, d, e
<1>5. TrueSplit(c) \in (1..3) \X (1..3)
  <2>1. a < 1000 /\ e < 1000
      BY <1>1, <1>2
  <2>2. Len(DigitsOf[a]) \in 1..3 /\ Len(DigitsOf[e]) \in 1..3
      BY <1>1, <2>1, OctetDigits
  <2>3. \A i, j \in 1..3 : <<i, j>> \in (1..3) \X (1..3)
      OBVIOUS
  <2>4. <<Len(DigitsOf[a]), Len(DigitsOf[e])>> \in (1..3) \X (1..3)
      BY <2>2, <2>3, Zenon
  <2> QED
      BY <1>4, <2>4, Zenon
<1>6. cut.priority # <<>>
    BY <1>1, <1>3, DigitsAreDigits
<1>7. cut.port # <<>> /\ 0 < ValueOf(cut.port) /\ ValueOf(cut.port) <= MaxPort
  <2>1. ValueOf(cut.port) = c.port /\ cut.port # <<>>
      BY <1>1, <1>3, DigitsAreDigits, ReadBack
  <2> QED
      BY <1>1, <2>1
<1>8. /\ ValueOf(DigitsOf[a]) <= 255 /\ ValueOf(DigitsOf[b]) <= 255
      /\ ValueOf(DigitsOf[d]) <= 255 /\ ValueOf(DigitsOf[e]) <= 255
  <2>1. /\ ValueOf(DigitsOf[a]) = a /\ ValueOf(DigitsOf[b]) = b
        /\ ValueOf(DigitsOf[d]) = d /\ ValueOf(DigitsOf[e]) = e
      BY <1>1, ReadBack
  <2> QED
      BY <1>2, <2>1
<1>9. ASSUME NEW i \in 1..4 PROVE ValueOf(cut.octets[i]) <= 255
  <2>1. i = 1 \/ i = 2 \/ i = 3 \/ i = 4
      OBVIOUS
  <2>2. CASE i = 1
      BY <1>3, <1>8, <2>2
  <2>3. CASE i = 2
      BY <1>3, <1>8, <2>3
  <2>4. CASE i = 3
      BY <1>3, <1>8, <2>4
  <2>5. CASE i = 4
      BY <1>3, <1>8, <2>5
  <2> QED
      BY <2>1, <2>2, <2>3, <2>4, <2>5
<1>10. Valid(cut)
    BY <1>6, <1>7, <1>9 DEF Valid
<1> QED
    BY <1>5, <1>10 DEF Splits, cut

\* The regular expression matches the line of every candidate.
LEMMA LineMatches ==
    ASSUME NEW c \in Candidates
    PROVE  Matches(Line(c))
<1> DEFINE f == DigitsOf[c.foundation]
           k == DigitsOf[c.component]
<1>1. c.foundation \in Nat /\ c.component \in 1..2 /\ c.component \in Nat
    BY CandidateFacts
<1>2. f \in Seq(Digits) /\ f # <<>>
    BY <1>1, DigitsAreDigits
<1>3. k = <<c.component>> /\ <<c.component>> \in Seq(Digits)
    BY <1>1, DigitsOfOne
<1>4. Line(c).name = f \o <<c.component>>
    BY <1>3 DEF Line
<1> HIDE DEF f, k
<1>5. /\ Len(f) \in Nat /\ Len(f) > 0
      /\ Len(f \o <<c.component>>) = Len(f) + 1
      /\ (f \o <<c.component>>)[Len(f) + 1] = c.component
  <2>1. Len(f) \in Nat /\ Len(f) > 0
      BY <1>2, EmptySeq, LenProperties
  <2>2. Len(f \o <<c.component>>) = Len(f) + Len(<<c.component>>)
      BY <1>2, <1>3, ConcatProperties
  <2>3. Len(<<c.component>>) = 1 /\ <<c.component>>[1] = c.component
      OBVIOUS
  <2>4. Len(f) + 1 \in Len(f) + 1 .. Len(f) + Len(<<c.component>>)
      BY <2>1, <2>3
  <2>5. (f \o <<c.component>>)[Len(f) + 1] =
            <<c.component>>[(Len(f) + 1) - Len(f)]
      BY <1>2, <1>3, <2>1, <2>2, <2>3, <2>4, ConcatProperties
  <2> QED
      BY <2>1, <2>2, <2>3, <2>5
<1> QED
    BY <1>1, <1>4, <1>5 DEF Matches, Last

-----------------------------------------------------------------------------
(***************************************************************************)
(* One call: what the candidate that was read is.                          *)
(***************************************************************************)

\* A candidate is read when it has come, where the first split is, and it is
\* refused only if there is none.
CandidateInvariant ==
    /\ stage = "candidate" => sent \in Candidates
    /\ status \in {"unread", "refused", "read"}
    /\ status # "unread" => stage = "candidate"
    /\ status = "refused" => ~Genuine
    /\ status = "read" =>
           /\ Splits(Line(sent)) # {}
           /\ result = Cut(Line(sent), First(Splits(Line(sent)))[1],
                                       First(Splits(Line(sent)))[2])

LEMMA CandidateStep ==
    CandidateInvariant /\ [NextDescription]_everything => CandidateInvariant'
<1> SUFFICES ASSUME CandidateInvariant, [NextDescription]_everything
             PROVE  CandidateInvariant'
    OBVIOUS
<1> USE DEF vars, description
<1>1. ASSUME UNCHANGED vars, UNCHANGED stage
      PROVE  CandidateInvariant'
    BY <1>1 DEF CandidateInvariant, Genuine
<1>2. ASSUME UNCHANGED vars, stage # "candidate", stage' # "candidate"
      PROVE  CandidateInvariant'
    BY <1>2 DEF CandidateInvariant, Genuine
<1>3. CASE CreateOffer
    BY <1>2, <1>3 DEF CreateOffer
<1>4. CASE Trickle
    BY <1>2, <1>4 DEF Trickle
<1>5. CASE Await
    BY <1>2, <1>5 DEF Await
<1>6. CASE CameraAnswers
    BY <1>2, <1>6 DEF CameraAnswers
<1>7. CASE Expand
    BY <1>2, <1>7 DEF Expand
<1>8. CASE Apply
    BY <1>2, <1>8 DEF Apply
<1>9. CASE CameraTrickles
  <2>1. sent' \in Candidates /\ status' = "unread" /\ stage' = "candidate"
      BY <1>9 DEF CameraTrickles, CandidateInvariant
  <2> QED
      BY <2>1 DEF CandidateInvariant
<1>10. CASE ReadCandidate
  <2> DEFINE splits == Splits(Line(sent))
  <2>1. /\ stage = "candidate" /\ stage' = "candidate" /\ sent' = sent
        /\ sent \in Candidates
      BY <1>10 DEF ReadCandidate, ExpandCandidate, CandidateInvariant
  <2>2. \/ /\ splits # {} /\ status' = "read"
           /\ result' = Cut(Line(sent), First(splits)[1], First(splits)[2])
        \/ splits = {} /\ status' = "refused"
      BY <1>10, <2>1, LineMatches DEF ReadCandidate, ExpandCandidate
  <2>3. Genuine => splits # {}
      BY <2>1, TrueSplitIsValid DEF Genuine
  <2>4. Genuine' <=> Genuine
      BY <2>1 DEF Genuine
  <2>5. splits' = splits /\ Line(sent)' = Line(sent)
      BY <2>1
  <2> QED
      BY <2>1, <2>2, <2>3, <2>4, <2>5 DEF CandidateInvariant
<1>11. CASE UNCHANGED everything
    BY <1>1, <1>11 DEF everything
<1> QED
    BY <1>3, <1>4, <1>5, <1>6, <1>7, <1>8, <1>9, <1>10, <1>11
       DEF NextDescription

\* In every state of a call.
LEMMA CandidateHolds == Call => []CandidateInvariant
<1>1. InitCall => CandidateInvariant
    BY DEF InitCall, CandidateInvariant
<1> QED
    BY <1>1, CandidateStep, PTL DEF Call

\* The split that was found fits the candidate that was read.
LEMMA SplitFound ==
    ASSUME CandidateInvariant, status = "read",
           NEW split, split = First(Splits(Line(sent)))
    PROVE  /\ sent \in Candidates
           /\ split \in (1..3) \X (1..3)
           /\ result = Cut(Line(sent), split[1], split[2])
           /\ Valid(result)
           /\ \A t \in Splits(Line(sent)) :
                  split[1] > t[1] \/ (split[1] = t[1] /\ split[2] >= t[2])
<1>1. /\ sent \in Candidates /\ Splits(Line(sent)) # {}
      /\ result = Cut(Line(sent), split[1], split[2])
    BY DEF CandidateInvariant
<1>2. Splits(Line(sent)) \in SUBSET ((1..3) \X (1..3))
    BY DEF Splits
<1>3. split \in Splits(Line(sent))
    BY <1>1, <1>2, FirstIsFound
<1>4. split \in (1..3) \X (1..3) /\ Valid(Cut(Line(sent), split[1], split[2]))
    BY <1>3 DEF Splits
<1> QED
    BY <1>1, <1>2, <1>4, FirstIsFound

\* A candidate of a camera is never refused, whatever its numbers are: the
\* loops of expand_candidate find a split, that of the camera or another.
THEOREM NoGenuineIsRefused == Call => []GenuineIsRead
<1>1. CandidateInvariant => GenuineIsRead
    BY DEF CandidateInvariant, GenuineIsRead
<1> QED
    BY <1>1, CandidateHolds, PTL

\* What expand_candidate gives runs together to the line that came in, and
\* names an address and a port that exist, for every line of a camera.
THEOREM LinesAreKept == Call => []ExpandsToItsLine
<1>1. CandidateInvariant => ExpandsToItsLine
  <2> SUFFICES ASSUME CandidateInvariant, status = "read"
               PROVE  ExpandsToItsLine
      BY DEF ExpandsToItsLine
  <2> DEFINE split == First(Splits(Line(sent)))
             h == split[1]
             l == split[2]
             prefix == Line(sent).prefix
             tail == Line(sent).tail
  <2>1. /\ sent \in Candidates /\ split \in (1..3) \X (1..3)
        /\ result = Cut(Line(sent), h, l) /\ Valid(result)
      BY SplitFound
  <2>2. h \in 1..3 /\ l \in 1..3
    <3> HIDE DEF split
    <3> QED
        BY <2>1
  <2>3. prefix \in Seq(Digits) /\ tail \in Seq(Digits)
      BY <2>1, LineIsDigits
  <2>4. /\ result.priority = ButLast(prefix, h)
        /\ result.octets[1] = TheLast(prefix, h)
        /\ result.octets[4] = TheFirst(tail, l)
        /\ result.port = ButFirst(tail, l)
    <3> HIDE DEF h, l
    <3> QED
        BY <2>1 DEF Cut
  <2>5. /\ result.priority # <<>> /\ result.port # <<>>
        /\ 0 < ValueOf(result.port) /\ ValueOf(result.port) <= MaxPort
        /\ \A i \in 1..4 : ValueOf(result.octets[i]) <= 255
      BY <2>1 DEF Valid
  <2> HIDE DEF h, l, prefix, tail
  <2>6. /\ ButLast(prefix, h) \o TheLast(prefix, h) = prefix
        /\ TheFirst(tail, l) \o ButFirst(tail, l) = tail
        /\ ButFirst(tail, l) \in Seq(Digits)
    <3>1. ButLast(prefix, h) # <<>> /\ ButFirst(tail, l) # <<>>
        BY <2>4, <2>5
    <3> QED
        BY <2>2, <2>3, <3>1, CutWhole
  <2>7. ValueOf(result.port) \in Nat
      BY <2>4, <2>6, ValueIsNat
  <2>8. ValueOf(result.port) \in 1..MaxPort
      BY <2>5, <2>7
  <2>9. /\ result.priority \o result.octets[1] = Line(sent).prefix
        /\ result.octets[4] \o result.port = Line(sent).tail
      BY <2>4, <2>6 DEF prefix, tail
  <2> QED
      BY <2>5, <2>8, <2>9 DEF ExpandsToItsLine
<1> QED
    BY <1>1, CandidateHolds, PTL

\* Where the first and the last octet have three digits no other split comes
\* before the camera's own, and expand_candidate gives what was sent.
THEOREM LongOctetsAreExact == Call => []ThreeDigitsAreExact
<1>1. CandidateInvariant => ThreeDigitsAreExact
  <2> SUFFICES ASSUME CandidateInvariant, status = "read", Genuine,
                      sent.octets[1] >= 100, sent.octets[4] >= 100
               PROVE  result = AsSent
      BY DEF ThreeDigitsAreExact
  <2> DEFINE split == First(Splits(Line(sent)))
             a == sent.octets[1]
             e == sent.octets[4]
  <2>1. /\ sent \in Candidates /\ split \in (1..3) \X (1..3)
        /\ result = Cut(Line(sent), split[1], split[2])
        /\ \A t \in Splits(Line(sent)) :
               split[1] > t[1] \/ (split[1] = t[1] /\ split[2] >= t[2])
      BY SplitFound
  <2>2. TrueSplit(sent) \in Splits(Line(sent))
      BY <2>1, TrueSplitIsValid DEF Genuine
  <2>3. TrueSplit(sent) = <<3, 3>>
    <3>1. a \in Nat /\ e \in Nat
        BY <2>1, CandidateFacts
    <3>2. a <= 255 /\ e <= 255 /\ a >= 100 /\ e >= 100
        BY DEF Genuine
    <3>3. TrueSplit(sent) = <<Len(DigitsOf[a]), Len(DigitsOf[e])>>
        BY DEF TrueSplit
    <3> HIDE DEF a, e
    <3>4. a < 1000 /\ e < 1000
        BY <3>1, <3>2
    <3>5. Len(DigitsOf[a]) = 3 /\ Len(DigitsOf[e]) = 3
        BY <3>1, <3>2, <3>4, OctetDigits
    <3> QED
        BY <3>3, <3>5, Zenon
  <2> HIDE DEF split
  <2>4. split[1] = 3 /\ split[2] = 3
    <3>1. split[1] \in 1..3 /\ split[2] \in 1..3
        BY <2>1
    <3>2. split[1] > 3 \/ (split[1] = 3 /\ split[2] >= 3)
        BY <2>1, <2>2, <2>3
    <3> QED
        BY <3>1, <3>2
  <2>5. result = Cut(Line(sent), TrueSplit(sent)[1], TrueSplit(sent)[2])
    <3>1. TrueSplit(sent)[1] = 3 /\ TrueSplit(sent)[2] = 3
        BY <2>3
    <3> QED
        BY <2>1, <2>4, <3>1
  <2> QED
      BY <2>1, <2>5, TrueCut DEF AsSent
<1> QED
    BY <1>1, CandidateHolds, PTL

-----------------------------------------------------------------------------
(***************************************************************************)
(* One call: what is trickled.                                             *)
(***************************************************************************)

\* place_call trickles what local_candidates chose: none of it makes
\* compact_candidate raise, and each candidate goes out under the ufrag of the
\* transport it was gathered on.
TrickledInvariant ==
    /\ stage \in {"offer", "trickle"} => ~raised
    /\ stage = "trickle" =>
           gathered.ufrag = [section \in 0..1 |-> section]
    /\ TrickleFitsOffer

LEMMA TrickledStep ==
    TrickledInvariant /\ [NextDescription]_everything => TrickledInvariant'
<1> SUFFICES ASSUME TrickledInvariant, [NextDescription]_everything
             PROVE  TrickledInvariant'
    OBVIOUS
<1> USE DEF vars, description
<1>1. ASSUME stage' \notin {"offer", "trickle", "sent"}
      PROVE  TrickledInvariant'
    BY <1>1 DEF TrickledInvariant, TrickleFitsOffer
<1>2. CASE CreateOffer
  <2>1. /\ stage = "offer" /\ stage' = "trickle" /\ raised' = raised
        /\ gathered'.ufrag = [section \in 0..1 |-> section]
      BY <1>2 DEF CreateOffer
  <2> QED
      BY <2>1 DEF TrickledInvariant, TrickleFitsOffer
<1>3. CASE Trickle
  <2> DEFINE chosen == LocalCandidates(gathered)
  <2>1. /\ stage' = "sent" /\ gathered' = gathered
        /\ gathered.ufrag = [section \in 0..1 |-> section]
        /\ raised' = \E line \in chosen : Unsupported(line)
        /\ trickled' = {CompactCandidate(line, IceUfrag(gathered)) :
                           line \in {l \in chosen : ~Unsupported(l)}}
      BY <1>3 DEF Trickle, TrickledInvariant
  <2>2. \A line \in chosen : ~Unsupported(line) /\ line.section = 0
      BY DEF LocalCandidates, Unsupported
  <2>3. raised' = FALSE
      BY <2>1, <2>2
  <2>4. ASSUME NEW c \in trickled'
        PROVE  c.ufrag = gathered.ufrag[c.section]
    <3>1. PICK line \in chosen : c = CompactCandidate(line, IceUfrag(gathered))
        BY <2>1, <2>4
    <3>2. c.ufrag = IceUfrag(gathered) /\ c.section = line.section
        BY <3>1 DEF CompactCandidate
    <3>3. line.section = 0
        BY <2>2, <3>1
    <3> QED
        BY <3>2, <3>3 DEF IceUfrag
  <2> QED
      BY <2>1, <2>3, <2>4 DEF TrickledInvariant, TrickleFitsOffer
<1>4. CASE Await \/ CameraAnswers \/ Expand \/ Apply \/ CameraTrickles
    BY <1>1, <1>4 DEF Await, CameraAnswers, Expand, Apply, CameraTrickles
<1>5. CASE ReadCandidate
    BY <1>1, <1>5 DEF ReadCandidate
<1>6. CASE UNCHANGED everything
    BY <1>6 DEF everything, TrickledInvariant, TrickleFitsOffer
<1> QED
    BY <1>2, <1>3, <1>4, <1>5, <1>6 DEF NextDescription

\* The candidates that are trickled fit the offer they follow, whatever
\* candidates aiortc has gathered.
THEOREM TrickledUnderTheOffer == Call => []TrickleFitsOffer
<1>1. InitCall => TrickledInvariant
    BY DEF InitCall, TrickledInvariant, TrickleFitsOffer
<1>2. TrickledInvariant => TrickleFitsOffer
    BY DEF TrickledInvariant
<1> QED
    BY <1>1, <1>2, TrickledStep, PTL DEF Call

-----------------------------------------------------------------------------
(***************************************************************************)
(* The answer fits the offer.                                              *)
(***************************************************************************)

\* The earliest place is the one that no other is before.
LEMMA EarliestIs ==
    ASSUME NEW S \in SUBSET Int, NEW i \in S, \A j \in S : i <= j
    PROVE  Earliest(S) = i
<1> DEFINE Before1(k) == \A j \in S : k <= j
<1>1. Earliest(S) = CHOOSE k \in S : Before1(k)
    BY DEF Earliest
<1>2. \A k \in S : Before1(k) => k = i
    OBVIOUS
<1>3. Before1(i)
    OBVIOUS
<1> HIDE DEF Before1
<1> QED
    BY <1>1, <1>2, <1>3

\* A list without some codecs is a list.
LEMMA WithoutIsList ==
    ASSUME NEW C, NEW list \in Seq(C), NEW pt
    PROVE  Without(list, pt) \in Seq(C)
<1> DEFINE n == Len(list)
           L == Seq(C)
           D == 0..n
           Kept(i) == IF list[i].pt = pt THEN <<>> ELSE <<list[i]>>
           Others(f) == f = [i \in D |-> IF i = 0 THEN <<>>
                                         ELSE f[i - 1] \o Kept(i)]
           body(i, f) == IF i = 0 THEN <<>> ELSE f[i - 1] \o Kept(i)
           F == CHOOSE f : Others(f)
           mu == [i \in D |-> i]
           G == [a \in D \X [D -> L] |-> body(a[1], a[2])]
<1>1. n \in Nat /\ \A i \in 1..n : list[i] \in C
    BY LenProperties, ElementOfSeq
<1>2. \A i \in 1..n : Kept(i) \in L
    BY <1>1
<1>3. <<>> \in L /\ \A s, t \in L : s \o t \in L
    BY EmptySeq, ConcatProperties
<1>4. ASSUME NEW i \in D, NEW f \in [D -> L] PROVE body(i, f) \in L
  <2> HIDE DEF L, Kept
  <2>1. CASE i = 0
      BY <2>1, <1>3
  <2>2. CASE i # 0
    <3>1. i - 1 \in D /\ i \in 1..n
        BY <1>1, <2>2
    <3> QED
        BY <1>2, <1>3, <2>2, <3>1
  <2> QED
      BY <2>1, <2>2
<1>5. Depends(D, L, mu, G)
  <2>1. mu \in [D -> Nat]
      BY <1>1
  <2>2. G \in [D \X [D -> L] -> L]
    <3> HIDE DEF D, L, body
    <3> QED
        BY <1>4
  <2>3. ASSUME NEW i \in D, NEW f \in [D -> L], NEW g \in [D -> L],
               \A j \in D : mu[j] < mu[i] => f[j] = g[j]
        PROVE  G[<<i, f>>] = G[<<i, g>>]
    <3>1. G[<<i, f>>] = body(i, f) /\ G[<<i, g>>] = body(i, g)
      <4> HIDE DEF D, L, body
      <4> QED
          OBVIOUS
    <3>2. CASE i = 0
        BY <3>1, <3>2
    <3>3. CASE i # 0
      <4>1. i - 1 \in D /\ mu[i - 1] < mu[i]
          BY <1>1, <3>3
      <4>2. f[i - 1] = g[i - 1]
          BY <2>3, <4>1
      <4> HIDE DEF D, L, Kept, G
      <4> QED
          BY <3>1, <4>2
    <3> QED
        BY <3>2, <3>3
  <2> HIDE DEF D, L, mu, G
  <2> QED
      BY <2>1, <2>2, <2>3 DEF Depends
<1>6. PICK f : Solves(f, D, L, G)
  <2>1. L # {}
      BY <1>3
  <2> HIDE DEF D, L, mu, G
  <2> QED
      BY <1>5, <2>1, RecursionByMeasure
<1>7. f \in [D -> L] /\ \A i \in D : f[i] = body(i, f)
  <2> HIDE DEF D, L, body
  <2> QED
      BY <1>6 DEF Solves
<1>8. Others(f)
  <2> HIDE DEF L, D, Kept
  <2> QED
      BY <1>7
<1>9. Others(F)
    BY <1>8
<1>10. \A i \in D : F[i] = IF i = 0 THEN <<>> ELSE F[i - 1] \o Kept(i)
  <2>1. F = [i \in D |-> IF i = 0 THEN <<>> ELSE F[i - 1] \o Kept(i)]
      BY <1>9
  <2> HIDE DEF F, D
  <2> QED
      BY <2>1, Zenon
<1>11. Without(list, pt) = F[n]
    BY DEF Without, F, Others, Kept, D, n
<1> DEFINE Typed == {i \in Nat : i <= n => F[i] \in L}
<1> HIDE DEF F, L, Kept
<1>12. Nat \subseteq Typed
  <2>1. 0 \in Typed
    <3>1. 0 \in D
        BY <1>1
    <3> QED
        BY <1>3, <1>10, <3>1
  <2>2. ASSUME NEW i \in Nat, i \in Typed PROVE i + 1 \in Typed
    <3>1. CASE i + 1 <= n
      <4>1. /\ i + 1 \in D /\ i + 1 # 0 /\ (i + 1) - 1 = i /\ i <= n
            /\ i + 1 \in 1..n
          BY <1>1, <3>1
      <4>2. F[i + 1] = F[i] \o Kept(i + 1)
          BY <1>10, <4>1
      <4>3. F[i] \in L /\ Kept(i + 1) \in L
          BY <1>2, <2>2, <4>1
      <4>4. F[i] \o Kept(i + 1) \in L
          BY <1>3, <4>3
      <4>5. F[i + 1] \in L
          BY <4>2, <4>4, Zenon
      <4> QED
          BY <4>5
    <3>2. CASE ~(i + 1 <= n)
        BY <3>2
    <3> QED
        BY <3>1, <3>2
  <2> HIDE DEF Typed
  <2> QED
      BY <2>1, <2>2, EveryNumber
<1>13. F[n] \in L
    BY <1>1, <1>12
<1> QED
    BY <1>11, <1>13 DEF L

\* Video first, under the camera's number; then AAC.
TheOffer == <<Section("video", 0, 126, 90), Section("audio", 1, 96, 16)>>

LEMMA OfferIs == ReceiveOnly(EnableAac(CODECS)) = TheOffer
<1> DEFINE audio == CODECS.audio
           video == CODECS.video
           rest == Without(audio, 96)
           C == {audio[1], audio[2]}
           H264 == [mime |-> "H264", profile |-> "42e01f", pt |-> 126,
                    rate |-> 90]
           enabled == EnableAac(CODECS)
           left == OnlyVideo(enabled)
<1>1. /\ audio \in Seq(C) /\ DOMAIN audio = {1, 2}
      /\ audio[1].mime = "opus" /\ audio[2].mime = "PCMU"
  <2>1. audio = <<Codec("opus", "none", 96, 48), Codec("PCMU", "none", 0, 8)>>
      BY DEF CODECS
  <2> HIDE DEF audio
  <2>2. audio[1].mime = "opus" /\ audio[2].mime = "PCMU"
      BY <2>1 DEF Codec
  <2> QED
      BY <2>1, <2>2
<1>2. /\ DOMAIN video = {1, 2, 3}
      /\ video[1].mime = "VP8" /\ video[2].profile = "42001f"
      /\ video[3] = [mime |-> "H264", profile |-> "42e01f", pt |-> 101,
                     rate |-> 90]
  <2>1. video = <<Codec("VP8", "none", 97, 90),
                  Codec("H264", "42001f", 99, 90),
                  Codec("H264", "42e01f", 101, 90)>>
      BY DEF CODECS
  <2> HIDE DEF video
  <2>2. DOMAIN video = {1, 2, 3}
      BY <2>1
  <2>3. /\ video[1] = Codec("VP8", "none", 97, 90)
        /\ video[2] = Codec("H264", "42001f", 99, 90)
        /\ video[3] = Codec("H264", "42e01f", 101, 90)
      BY <2>1
  <2> QED
      BY <2>2, <2>3 DEF Codec
<1>3. rest \in Seq(C)
  <2> HIDE DEF C, audio
  <2> QED
      BY <1>1, WithoutIsList
<1>4. enabled = [audio |-> <<AAC>> \o rest, video |-> video]
  <2>1. ~\E i \in DOMAIN audio : audio[i].mime = "AAC"
      BY <1>1
  <2>2. enabled = [CODECS EXCEPT !.audio = <<AAC>> \o rest]
      BY <2>1 DEF EnableAac, AAC, Codec
  <2>3. CODECS = [audio |-> audio, video |-> video]
      BY DEF CODECS
  <2> HIDE DEF audio, video, rest, enabled
  <2> QED
      BY <2>2, <2>3
<1> HIDE DEF rest
<1>5. /\ 1 \in DOMAIN (<<AAC>> \o rest) /\ (<<AAC>> \o rest)[1] = AAC
      /\ DOMAIN (<<AAC>> \o rest) \subseteq Nat \ {0}
  <2> DEFINE D == C \cup {AAC}
  <2>1. <<AAC>> \in Seq(D) /\ Len(<<AAC>>) = 1 /\ <<AAC>>[1] = AAC
      OBVIOUS
  <2>2. rest \in Seq(D) /\ Len(rest) \in Nat
    <3> HIDE DEF C
    <3> QED
        BY <1>3, LenProperties
  <2> HIDE DEF D
  <2>3. /\ (<<AAC>> \o rest) \in Seq(D)
        /\ Len(<<AAC>> \o rest) = 1 + Len(rest)
        /\ (<<AAC>> \o rest)[1] = AAC
      BY <2>1, <2>2, ConcatProperties
  <2>4. DOMAIN (<<AAC>> \o rest) = 1..Len(<<AAC>> \o rest)
      BY <2>3, LenProperties
  <2> QED
      BY <2>2, <2>3, <2>4
<1> HIDE DEF audio, video, enabled
<1>6. left = [audio |-> <<AAC>> \o rest, video |-> <<H264>>]
  <2> DEFINE sources == {i \in DOMAIN enabled.video :
                            /\ enabled.video[i].mime = "H264"
                            /\ enabled.video[i].profile = "42e01f"}
  <2>1. enabled.video = video
      BY <1>4
  <2>2. sources = {3}
      BY <1>2, <2>1
  <2>3. Earliest(sources) = 3
      BY <2>2, EarliestIs
  <2>4. [enabled.video[3] EXCEPT !.pt = 126] = H264
      BY <1>2, <2>1
  <2> HIDE DEF sources, H264
  <2>5. left = [enabled EXCEPT !.video = <<H264>>]
      BY <2>3, <2>4 DEF OnlyVideo, sources
  <2> HIDE DEF left
  <2> QED
      BY <1>4, <2>5
<1> DEFINE Of(kind, mime) == {i \in DOMAIN left[kind] :
                                 left[kind][i].mime = mime}
<1> HIDE DEF left
<1>7. left["video"][Earliest(Of("video", "H264"))] = H264
  <2>1. Of("video", "H264") = {1} /\ left["video"][1] = H264
      BY <1>6
  <2>2. Earliest(Of("video", "H264")) = 1
    <3> HIDE DEF Of
    <3> QED
        BY <2>1, EarliestIs
  <2> QED
      BY <2>1, <2>2
<1>8. left["audio"][Earliest(Of("audio", "AAC"))] = AAC
  <2> HIDE DEF H264
  <2>1. left["audio"] = <<AAC>> \o rest
      BY <1>6
  <2>2. 1 \in Of("audio", "AAC") /\ Of("audio", "AAC") \subseteq Nat \ {0}
      BY <1>5, <2>1 DEF AAC, Codec
  <2>3. Earliest(Of("audio", "AAC")) = 1
    <3>1. Of("audio", "AAC") \in SUBSET Int
        BY <2>2
    <3>2. \A j \in Of("audio", "AAC") : 1 <= j
        BY <2>2
    <3> HIDE DEF Of
    <3> QED
        BY <2>2, <3>1, <3>2, EarliestIs
  <2> QED
      BY <1>5, <2>1, <2>3
<1>9. ReceiveOnly(enabled) =
          <<Section("video", 0, H264.pt, H264.rate),
            Section("audio", 1, AAC.pt, AAC.rate)>>
  <2> HIDE DEF H264
  <2> QED
      BY <1>7, <1>8 DEF ReceiveOnly, left, Of
<1>10. H264.pt = 126 /\ H264.rate = 90 /\ AAC.pt = 96 /\ AAC.rate = 16
    BY DEF AAC, Codec
<1> QED
    BY <1>9, <1>10 DEF TheOffer, enabled

\* What the camera left out of a part of its answer is filled in with what was
\* offered, and what it repeats is that.
LEMMA GetOfParts ==
    ASSUME NEW dict, NEW part \in Parts(dict), NEW key \in DOMAIN dict
    PROVE  Get(part, key, dict[key]) = dict[key]
<1>1. PICK keys \in SUBSET DOMAIN dict : part = [k \in keys |-> dict[k]]
    BY DEF Parts
<1> QED
    BY <1>1 DEF Get

LEMMA AnswerIsOffer ==
    ASSUME NEW a \in Answers
    PROVE  ExpandAnswer(a).sections = TheOffer
<1> DEFINE v == CompactMedia.video
           u == CompactMedia.audio
<1>1. a.video \in Parts(v) /\ a.audio \in Parts(u)
    BY DEF Answers
<1>2. v = [mid |-> 0, pt |-> 126, pts |-> 90]
      /\ u = [mid |-> 1, pt |-> 96, pts |-> 16]
    BY DEF CompactMedia
<1> HIDE DEF v, u
<1>3. /\ DOMAIN v = {"mid", "pt", "pts"} /\ DOMAIN u = {"mid", "pt", "pts"}
      /\ v["mid"] = 0 /\ v["pt"] = 126 /\ v["pts"] = 90
      /\ u["mid"] = 1 /\ u["pt"] = 96 /\ u["pts"] = 16
    BY <1>2
<1>4. /\ Get(a.video, "mid", 0) = 0 /\ Get(a.video, "pt", 126) = 126
      /\ Get(a.video, "pts", 90) = 90
  <2>1. /\ Get(a.video, "mid", v["mid"]) = v["mid"]
        /\ Get(a.video, "pt", v["pt"]) = v["pt"]
        /\ Get(a.video, "pts", v["pts"]) = v["pts"]
      BY <1>1, <1>3, GetOfParts
  <2> QED
      BY <1>3, <2>1
<1>5. /\ Get(a.audio, "mid", 1) = 1 /\ Get(a.audio, "pt", 96) = 96
      /\ Get(a.audio, "pts", 16) = 16
  <2>1. /\ Get(a.audio, "mid", u["mid"]) = u["mid"]
        /\ Get(a.audio, "pt", u["pt"]) = u["pt"]
        /\ Get(a.audio, "pts", u["pts"]) = u["pts"]
      BY <1>1, <1>3, GetOfParts
  <2> QED
      BY <1>3, <2>1
<1> QED
    BY <1>4, <1>5 DEF ExpandAnswer, TheOffer

\* From the offer on there is one, and the camera answers with parts of it.
AnswerInvariant ==
    /\ stage = "offer" => expanded = Nothing
    /\ stage # "offer" => offered = TheOffer
    /\ stage = "answer" => answer \in Answers
    /\ AnswerFitsOffer

LEMMA AnswerStep ==
    AnswerInvariant /\ [NextDescription]_everything => AnswerInvariant'
<1> SUFFICES ASSUME AnswerInvariant, [NextDescription]_everything
             PROVE  AnswerInvariant'
    OBVIOUS
<1> USE DEF AnswerInvariant, AnswerFitsOffer
<1>1. CASE CreateOffer
  <2>1. /\ stage = "offer" /\ stage' = "trickle"
        /\ offered' = TheOffer /\ expanded' = expanded
      BY <1>1, OfferIs DEF CreateOffer
  <2> QED
      BY <2>1
<1>2. CASE Expand
  <2>1. /\ stage = "answer" /\ stage' = "expanded"
        /\ offered' = offered /\ offered = TheOffer /\ answer \in Answers
        /\ expanded' = IF raised' THEN Nothing ELSE ExpandAnswer(answer)
      BY <1>2 DEF Expand
  <2>2. ExpandAnswer(answer).sections = TheOffer
      BY <2>1, AnswerIsOffer
  <2>3. expanded' # Nothing => expanded' = ExpandAnswer(answer)
      BY <2>1
  <2> QED
      BY <2>1, <2>2, <2>3
<1>3. CASE Trickle \/ Await \/ CameraTrickles
    BY <1>3 DEF Trickle, Await, CameraTrickles, description
<1>4. CASE CameraAnswers
    BY <1>4 DEF CameraAnswers
<1>5. CASE Apply
    BY <1>5 DEF Apply
<1>6. CASE ReadCandidate
    BY <1>6 DEF ReadCandidate, description
<1>7. CASE UNCHANGED everything
    BY <1>7 DEF everything, description
<1> QED
    BY <1>1, <1>2, <1>3, <1>4, <1>5, <1>6, <1>7 DEF NextDescription

LEMMA AnswerHolds == Call => []AnswerInvariant
<1>1. InitCall => AnswerInvariant
    BY DEF InitCall, AnswerInvariant, AnswerFitsOffer
<1> QED
    BY <1>1, AnswerStep, PTL DEF Call

\* Whichever payload types, mids and rates the camera repeats or leaves out,
\* what aiortc is answered has the sections that it offered, in their order.
THEOREM AnsweredAsOffered == Call => []AnswerFitsOffer
<1>1. AnswerInvariant => AnswerFitsOffer
    BY DEF AnswerInvariant
<1> QED
    BY <1>1, AnswerHolds, PTL

-----------------------------------------------------------------------------
(***************************************************************************)
(* The text is restored.                                                   *)
(***************************************************************************)

\* str.partition takes apart what stands before the word, which does not hold
\* it, and what stands behind.
LEMMA Partition ==
    ASSUME NEW words \in Words, NEW i \in 1..Len(words),
           \A j \in 1..(i - 1) : words[j] # words[i]
    PROVE  /\ Places(words, words[i]) # {}
           /\ Before(words, words[i]) = SubSeq(words, 1, i - 1)
           /\ After(words, words[i]) = SubSeq(words, i + 1, Len(words))
<1> DEFINE word == words[i]
           P == Places(words, word)
<1>1. Len(words) \in Nat /\ DOMAIN words = 1..Len(words)
    BY LenProperties DEF Words
<1>2. i \in P /\ P \in SUBSET Int
    BY <1>1 DEF Places
<1>3. \A j \in P : i <= j
    BY <1>1 DEF Places
<1> HIDE DEF P
<1>4. Earliest(P) = i
    BY <1>2, <1>3, EarliestIs
<1> QED
    BY <1>2, <1>4 DEF Before, After, P

\* Where the word is not, all stands before it.
LEMMA NoPartition ==
    ASSUME NEW words \in Words, NEW word,
           \A j \in 1..Len(words) : words[j] # word
    PROVE  /\ Places(words, word) = {}
           /\ Before(words, word) = words /\ After(words, word) = <<>>
<1>1. DOMAIN words = 1..Len(words)
    BY LenProperties DEF Words
<1>2. Places(words, word) = {}
    BY <1>1 DEF Places
<1> QED
    BY <1>2 DEF Before, After

\* A rest of the words that has a value and then the next attribute.
LEMMA PartOfRest ==
    ASSUME NEW words \in Words, NEW m \in 1..Len(words), m + 1 <= Len(words),
           words[m] # words[m + 1]
    PROVE  LET rest == SubSeq(words, m, Len(words))
           IN  /\ Before(rest, words[m + 1]) = <<words[m]>>
               /\ After(rest, words[m + 1]) = SubSeq(words, m + 2, Len(words))
<1> DEFINE n == Len(words)
           rest == SubSeq(words, m, n)
<1>1. n \in Nat /\ m \in Nat /\ \A i \in 1..n : words[i] \in Word
    BY LenProperties, ElementOfSeq DEF Words
<1>2. /\ rest \in Seq(Word) /\ Len(rest) = n - m + 1
      /\ \A i \in 1..(n - m + 1) : rest[i] = words[m + i - 1]
  <2>1. /\ m \in Int /\ n \in Int /\ m <= n
        /\ \A i \in m..n : words[i] \in Word
      BY <1>1
  <2> HIDE DEF n
  <2> QED
      BY <2>1, SubSeqProperties
<1>3. 2 \in 1..Len(rest) /\ rest[1] = words[m] /\ rest[2] = words[m + 1]
    BY <1>1, <1>2
<1>4. \A j \in 1..(2 - 1) : rest[j] # rest[2]
    BY <1>3
<1> HIDE DEF rest
<1>5. /\ Before(rest, rest[2]) = SubSeq(rest, 1, 2 - 1)
      /\ After(rest, rest[2]) = SubSeq(rest, 2 + 1, Len(rest))
    BY <1>2, <1>3, <1>4, Partition DEF Words
<1>6. SubSeq(rest, 1, 2 - 1) = <<words[m]>>
  <2> DEFINE one == SubSeq(rest, 1, 2 - 1)
  <2>1. \A j \in 1..(2 - 1) : rest[j] \in Word
      BY <1>1, <1>3
  <2>2. one \in Seq(Word) /\ Len(one) = 1 /\ one[1] = words[m]
      BY <1>3, <2>1, SubSeqProperties
  <2>3. /\ <<words[m]>> \in Seq(Word) /\ Len(<<words[m]>>) = 1
        /\ <<words[m]>>[1] = words[m]
      BY <1>1
  <2> HIDE DEF one
  <2>4. \A i \in 1..Len(one) : one[i] = <<words[m]>>[i]
      BY <2>2, <2>3
  <2>5. one = <<words[m]>>
    <3> DEFINE other == <<words[m]>>
    <3>1. Len(one) = Len(other) /\ other \in Seq(Word)
        BY <2>2, <2>3
    <3> HIDE DEF other
    <3> QED
        BY <2>2, <2>4, <3>1, SeqEqual DEF other
  <2> QED
      BY <2>5 DEF one
<1>7. SubSeq(rest, 2 + 1, Len(rest)) = SubSeq(words, m + 2, n)
  <2> DEFINE left == SubSeq(rest, 2 + 1, Len(rest))
             right == SubSeq(words, m + 2, n)
  <2>1. /\ 2 + 1 \in Int /\ Len(rest) \in Int
        /\ \A i \in (2 + 1)..Len(rest) : rest[i] \in Word
      BY <1>1, <1>2
  <2>2. /\ left \in Seq(Word)
        /\ Len(left) = IF 2 + 1 <= Len(rest) THEN Len(rest) - (2 + 1) + 1
                       ELSE 0
        /\ \A i \in 1..(Len(rest) - (2 + 1) + 1) :
               left[i] = rest[(2 + 1) + i - 1]
      BY <2>1, SubSeqProperties
  <2>3. /\ m + 2 \in Int /\ n \in Int
        /\ \A i \in (m + 2)..n : words[i] \in Word
      BY <1>1
  <2>4. /\ right \in Seq(Word)
        /\ Len(right) = IF m + 2 <= n THEN n - (m + 2) + 1 ELSE 0
        /\ \A i \in 1..(n - (m + 2) + 1) : right[i] = words[(m + 2) + i - 1]
    <3> HIDE DEF n
    <3> QED
        BY <2>3, SubSeqProperties
  <2> HIDE DEF left, right
  <2>5. Len(left) = n - m - 1 /\ Len(right) = n - m - 1
      BY <1>1, <1>2, <2>2, <2>4
  <2>6. ASSUME NEW i \in 1..Len(left) PROVE left[i] = right[i]
    <3>1. /\ i \in 1..(Len(rest) - (2 + 1) + 1)
          /\ i \in 1..(n - (m + 2) + 1)
          /\ (2 + 1) + i - 1 = i + 2 /\ i + 2 \in 1..(n - m + 1)
        BY <1>1, <1>2, <2>5
    <3>2. left[i] = rest[i + 2]
        BY <2>2, <3>1
    <3>3. rest[i + 2] = words[m + (i + 2) - 1]
        BY <1>2, <3>1
    <3>4. right[i] = words[(m + 2) + i - 1]
        BY <2>4, <3>1
    <3>5. m + (i + 2) - 1 = (m + 2) + i - 1
        BY <1>1
    <3> QED
        BY <3>2, <3>3, <3>4, <3>5
  <2>7. left = right
      BY <2>2, <2>4, <2>5, <2>6, SeqEqual
  <2> QED
      BY <2>7 DEF left, right
<1> QED
    BY <1>3, <1>5, <1>6, <1>7 DEF rest, n

\* What stands behind an attribute in its place is cut at it.
LEMMA CutAtAttribute ==
    ASSUME NEW e \in Endings, NEW k \in 1..5,
           2 * k < Len(e), e[2 * k] = Attributes[k]
    PROVE  LET rest == SubSeq(e, 2 * k - 1, Len(e))
           IN  /\ Before(rest, Attributes[k]) = <<e[2 * k - 1]>>
               /\ After(rest, Attributes[k]) = SubSeq(e, 2 * k + 1, Len(e))
<1> DEFINE n == Len(e)
           m == 2 * k - 1
<1>1. e \in Words /\ e \in Seq(Word) /\ n \in Nat
    BY EndingAssumption, LenProperties DEF Words
<1>2. m \in 1..n /\ m + 1 <= n /\ m + 1 = 2 * k /\ m + 2 = 2 * k + 1
    BY <1>1
<1>3. m % 2 = 1
    BY <1>1
<1>4. e[m] # Attributes[k]
    BY <1>2, <1>3, EndingAssumption
<1>5. e[m] # e[m + 1]
    BY <1>2, <1>4
<1> HIDE DEF m, n
<1>6. /\ Before(SubSeq(e, m, Len(e)), e[m + 1]) = <<e[m]>>
      /\ After(SubSeq(e, m, Len(e)), e[m + 1]) = SubSeq(e, m + 2, Len(e))
    BY <1>1, <1>2, <1>5, PartOfRest DEF n
<1>7. 2 * k - 1 = m
    BY DEF m
<1> QED
    BY <1>2, <1>6, <1>7

\* A rest that is not past the end has a word.
LEMMA RestHasWords ==
    ASSUME NEW e \in Endings, NEW m \in 1..Len(e)
    PROVE  SubSeq(e, m, Len(e)) # <<>>
<1>1. e \in Seq(Word) /\ Len(e) \in Nat /\ \A i \in m..Len(e) : e[i] \in Word
    BY EndingAssumption, LenProperties, ElementOfSeq DEF Words
<1>2. m \in Int /\ Len(e) \in Int /\ m <= Len(e)
    BY <1>1
<1>3. Len(SubSeq(e, m, Len(e))) = Len(e) - m + 1
    BY <1>1, <1>2, SubSeqProperties
<1>4. Len(SubSeq(e, m, Len(e))) # 0
    BY <1>1, <1>2, <1>3
<1> QED
    BY <1>4, EmptySeq

\* The last word of a text that is cut at every attribute.
LEMMA LastWord ==
    ASSUME NEW e \in Endings
    PROVE  SubSeq(e, Len(e), Len(e)) = <<e[Len(e)]>>
<1> DEFINE n == Len(e)
           one == SubSeq(e, n, n)
           other == <<e[n]>>
<1>1. e \in Seq(Word) /\ n \in Nat /\ n % 2 = 1
    BY EndingAssumption, LenProperties DEF Words
<1>2. n \in 1..n
    BY <1>1
<1>3. \A i \in n..n : e[i] \in Word
    BY <1>1, <1>2, ElementOfSeq
<1>4. n \in Int /\ n <= n
    BY <1>1
<1>5. /\ one \in Seq(Word) /\ Len(one) = n - n + 1
      /\ \A i \in 1..(n - n + 1) : one[i] = e[n + i - 1]
  <2> HIDE DEF n
  <2> QED
      BY <1>3, <1>4, SubSeqProperties
<1>6. n - n + 1 = 1 /\ n + 1 - 1 = n
    BY <1>1
<1>7. Len(one) = 1 /\ one[1] = e[n]
  <2> HIDE DEF one, n
  <2>1. 1 \in 1..(n - n + 1)
      BY <1>6
  <2> QED
      BY <1>5, <1>6, <2>1
<1>8. other \in Seq(Word) /\ Len(other) = 1 /\ other[1] = e[n]
    BY <1>2, <1>3
<1> HIDE DEF one, other, n
<1>9. \A i \in 1..Len(one) : one[i] = other[i]
    BY <1>7, <1>8
<1>10. one = other
    BY <1>5, <1>7, <1>8, <1>9, SeqEqual
<1> QED
    BY <1>10 DEF one, other, n

\* Nine fields, or eleven.
LEMMA FieldsInOrder ==
    ASSUME NEW a, NEW b, NEW c, NEW d, NEW x, NEW w
    PROVE  LET nine == <<a, <<"raddr">>, b, <<"rport">>, c, <<"generation">>,
                         d, <<"ufrag">>, x>>
               none == nine \o <<>>
               more == nine \o <<<<"network-cost">>, w>>
           IN  /\ Len(none) = 9 /\ \A i \in 1..9 : none[i] = nine[i]
               /\ Len(more) = 11 /\ \A i \in 1..9 : more[i] = nine[i]
               /\ more[10] = <<"network-cost">> /\ more[11] = w
    OBVIOUS

\* An ending is read up to the first attribute that is not in its place, and
\* to its end when each is.
LEMMA EndingRead ==
    ASSUME NEW e \in Endings
    PROVE  LET f == ExpandEnding(e)
           IN  /\ \A k \in 1..5 : InPlace(e, k) =>
                      \A i \in 1..(2 * k) : f[i] = <<e[i]>>
               /\ WellFormed(e) =>
                      /\ Len(f) = Len(e)
                      /\ \A i \in 1..Len(e) : f[i] = <<e[i]>>
<1> DEFINE n == Len(e)
           Rest(m) == SubSeq(e, m, n)
           attributes  == After(e, "raddr")
           ports       == After(attributes, "rport")
           generations == After(ports, "generation")
           ufrags      == After(generations, "ufrag")
           cost        == After(ufrags, "network-cost")
           nine == <<Before(e, "raddr"),
                     <<"raddr">>, Before(attributes, "rport"),
                     <<"rport">>, Before(ports, "generation"),
                     <<"generation">>, Before(generations, "ufrag"),
                     <<"ufrag">>, Before(ufrags, "network-cost")>>
           f == ExpandEnding(e)
<1>1. /\ e \in Words /\ n \in Nat /\ n % 2 = 1
      /\ \A i \in 1..n : i % 2 = 1 => \A k \in 1..5 : e[i] # Attributes[k]
    BY EndingAssumption, LenProperties DEF Words
<1>2. /\ Attributes[1] = "raddr" /\ Attributes[2] = "rport"
      /\ Attributes[3] = "generation" /\ Attributes[4] = "ufrag"
      /\ Attributes[5] = "network-cost"
    BY DEF Attributes
<1>3. Rest(1) = e
    BY <1>1, SubSeqFull DEF Words
<1>4. ASSUME NEW k \in 1..5, InPlace(e, k)
      PROVE  \A j \in 1..k :
                 InPlace(e, j) /\ 2 * j < n /\ e[2 * j] = Attributes[j]
    BY <1>4 DEF InPlace
<1>5. ASSUME NEW k \in 1..5, InPlace(e, k)
      PROVE  /\ 2 * k < n /\ e[2 * k] = Attributes[k]
             /\ Before(Rest(2 * k - 1), Attributes[k]) = <<e[2 * k - 1]>>
             /\ After(Rest(2 * k - 1), Attributes[k]) = Rest(2 * k + 1)
  <2>1. 2 * k < n /\ e[2 * k] = Attributes[k]
      BY <1>4, <1>5
  <2> QED
      BY <2>1, CutAtAttribute
<1>6. ASSUME NEW k \in 1..5, InPlace(e, k)
      PROVE  Rest(2 * k + 1) # <<>>
  <2>1. 2 * k + 1 \in 1..n
      BY <1>1, <1>5, <1>6
  <2> QED
      BY <2>1, RestHasWords
<1>raddr. InPlace(e, 1) => /\ Before(e, "raddr") = <<e[1]>>
                           /\ attributes = Rest(3) /\ attributes # <<>>
                           /\ e[2] = "raddr"
  <2>1. 1 \in 1..5 /\ 2 * 1 = 2 /\ 2 - 1 = 1 /\ 2 + 1 = 3
      OBVIOUS
  <2> HIDE DEF n, Rest
  <2> QED
      BY <2>1, <1>2, <1>3, <1>5, <1>6
<1>rport. InPlace(e, 2) => /\ Before(attributes, "rport") = <<e[3]>>
                           /\ ports = Rest(5) /\ e[4] = "rport"
  <2>1. 2 \in 1..5 /\ 1 \in 1..2 /\ 2 * 2 = 4 /\ 4 - 1 = 3 /\ 4 + 1 = 5
      OBVIOUS
  <2>2. InPlace(e, 2) => attributes = Rest(3)
      BY <2>1, <1>4, <1>raddr
  <2> HIDE DEF n, Rest, attributes
  <2> QED
      BY <2>1, <2>2, <1>2, <1>5
<1>generation. InPlace(e, 3) => /\ Before(ports, "generation") = <<e[5]>>
                                /\ generations = Rest(7)
                                /\ e[6] = "generation"
  <2>1. 3 \in 1..5 /\ 2 \in 1..3 /\ 2 * 3 = 6 /\ 6 - 1 = 5 /\ 6 + 1 = 7
      OBVIOUS
  <2>2. InPlace(e, 3) => ports = Rest(5)
      BY <2>1, <1>4, <1>rport
  <2> HIDE DEF n, Rest, ports
  <2> QED
      BY <2>1, <2>2, <1>2, <1>5
<1>ufrag. InPlace(e, 4) => /\ Before(generations, "ufrag") = <<e[7]>>
                           /\ ufrags = Rest(9) /\ e[8] = "ufrag"
  <2>1. 4 \in 1..5 /\ 3 \in 1..4 /\ 2 * 4 = 8 /\ 8 - 1 = 7 /\ 8 + 1 = 9
      OBVIOUS
  <2>2. InPlace(e, 4) => generations = Rest(7)
      BY <2>1, <1>4, <1>generation
  <2> HIDE DEF n, Rest, generations
  <2> QED
      BY <2>1, <2>2, <1>2, <1>5
<1>cost. InPlace(e, 5) => /\ Before(ufrags, "network-cost") = <<e[9]>>
                          /\ cost = Rest(11) /\ cost # <<>>
                          /\ e[10] = "network-cost"
  <2>1. 5 \in 1..5 /\ 4 \in 1..5 /\ 2 * 5 = 10 /\ 10 - 1 = 9 /\ 10 + 1 = 11
      OBVIOUS
  <2>2. InPlace(e, 5) => ufrags = Rest(9)
      BY <2>1, <1>4, <1>ufrag
  <2> HIDE DEF n, Rest, ufrags
  <2> QED
      BY <2>1, <2>2, <1>2, <1>5, <1>6
<1>7. attributes = <<>> => f = <<Before(e, "raddr")>>
    BY DEF ExpandEnding
<1>8. attributes # <<>> /\ cost = <<>> => f = nine \o <<>>
    BY Zenon DEF ExpandEnding
<1>9. attributes # <<>> /\ cost # <<>> =>
          f = nine \o <<<<"network-cost">>, cost>>
    BY Zenon DEF ExpandEnding
<1>10. /\ attributes # <<>> => \A i \in 1..9 : f[i] = nine[i]
       /\ attributes # <<>> /\ cost = <<>> => Len(f) = 9
       /\ attributes # <<>> /\ cost # <<>> =>
              Len(f) = 11 /\ f[10] = <<"network-cost">> /\ f[11] = cost
  <2>1. /\ Len(nine \o <<>>) = 9 /\ \A i \in 1..9 : (nine \o <<>>)[i] = nine[i]
        /\ Len(nine \o <<<<"network-cost">>, cost>>) = 11
        /\ \A i \in 1..9 :
               (nine \o <<<<"network-cost">>, cost>>)[i] = nine[i]
        /\ (nine \o <<<<"network-cost">>, cost>>)[10] = <<"network-cost">>
        /\ (nine \o <<<<"network-cost">>, cost>>)[11] = cost
    <3> HIDE DEF attributes, ports, generations, ufrags, cost
    <3> QED
        BY FieldsInOrder
  <2> HIDE DEF nine, f, attributes, cost
  <2> QED
      BY <2>1, <1>8, <1>9
<1>11. /\ nine[1] = Before(e, "raddr") /\ nine[2] = <<"raddr">>
       /\ nine[3] = Before(attributes, "rport") /\ nine[4] = <<"rport">>
       /\ nine[5] = Before(ports, "generation") /\ nine[6] = <<"generation">>
       /\ nine[7] = Before(generations, "ufrag") /\ nine[8] = <<"ufrag">>
       /\ nine[9] = Before(ufrags, "network-cost")
  <2> HIDE DEF attributes, ports, generations, ufrags
  <2> QED
      OBVIOUS
<1> HIDE DEF attributes, ports, generations, ufrags, cost, nine, f, Rest
<1>12. ASSUME NEW k \in 1..5, InPlace(e, k)
       PROVE  \A i \in 1..(2 * k) : f[i] = <<e[i]>>
  <2>1. attributes # <<>> /\ f[1] = <<e[1]>> /\ f[2] = <<e[2]>>
    <3>1. InPlace(e, 1)
        BY <1>4, <1>12
    <3> QED
        BY <3>1, <1>raddr, <1>10, <1>11
  <2>2. k >= 2 => f[3] = <<e[3]>> /\ f[4] = <<e[4]>>
    <3>1. k >= 2 => InPlace(e, 2)
        BY <1>4, <1>12
    <3> QED
        BY <2>1, <3>1, <1>rport, <1>10, <1>11
  <2>3. k >= 3 => f[5] = <<e[5]>> /\ f[6] = <<e[6]>>
    <3>1. k >= 3 => InPlace(e, 3)
        BY <1>4, <1>12
    <3> QED
        BY <2>1, <3>1, <1>generation, <1>10, <1>11
  <2>4. k >= 4 => f[7] = <<e[7]>> /\ f[8] = <<e[8]>>
    <3>1. k >= 4 => InPlace(e, 4)
        BY <1>4, <1>12
    <3> QED
        BY <2>1, <3>1, <1>ufrag, <1>10, <1>11
  <2>5. k = 5 => f[9] = <<e[9]>> /\ f[10] = <<e[10]>>
      BY <2>1, <1>12, <1>cost, <1>10, <1>11
  <2> QED
      BY <2>1, <2>2, <2>3, <2>4, <2>5
<1>13. ASSUME WellFormed(e)
       PROVE  Len(f) = n /\ \A i \in 1..n : f[i] = <<e[i]>>
  <2>1. n \in {1, 9, 11} /\ InPlace(e, n \div 2)
      BY <1>13 DEF WellFormed
  <2>last. Rest(n) = <<e[n]>>
      BY LastWord DEF Rest
  <2>2. CASE n = 1
    <3>1. \A j \in 1..Len(e) : e[j] # "raddr"
        BY <1>1, <1>2, <2>2
    <3>2. Before(e, "raddr") = e /\ attributes = <<>>
        BY <1>1, <3>1, NoPartition DEF attributes
    <3>3. f = <<e>> /\ e = <<e[1]>>
        BY <1>3, <1>7, <2>2, <2>last, <3>2
    <3> HIDE DEF n
    <3> QED
        BY <2>2, <3>3
  <2>3. CASE n = 9
    <3>1. InPlace(e, 4)
        BY <2>1, <2>3
    <3>2. attributes # <<>> /\ ufrags = <<e[9]>>
        BY <3>1, <1>4, <1>raddr, <1>ufrag, <2>3, <2>last
    <3>3. <<e[9]>> \in Words /\ e[9] # "network-cost"
      <4>1. e[9] \in Word
        <5>1. e \in Seq(Word) /\ 9 \in 1..Len(e)
            BY <1>1, <2>3 DEF Words
        <5> QED
            BY <5>1, ElementOfSeq
      <4> QED
          BY <4>1, <1>1, <1>2, <2>3 DEF Words
    <3>4. Before(ufrags, "network-cost") = ufrags /\ cost = <<>>
      <4>1. \A j \in 1..Len(<<e[9]>>) : <<e[9]>>[j] # "network-cost"
          BY <3>3
      <4> QED
          BY <3>2, <3>3, <4>1, NoPartition DEF cost
    <3>5. Len(f) = 9 /\ f[9] = <<e[9]>>
        BY <3>2, <3>4, <1>10, <1>11
    <3>6. \A i \in 1..8 : f[i] = <<e[i]>>
        BY <1>12, <3>1
    <3> HIDE DEF n
    <3> QED
        BY <2>3, <3>5, <3>6
  <2>4. CASE n = 11
    <3>1. InPlace(e, 5)
        BY <2>1, <2>4
    <3>2. attributes # <<>> /\ cost # <<>> /\ cost = <<e[11]>>
        BY <3>1, <1>4, <1>raddr, <1>cost, <2>4, <2>last
    <3>3. Len(f) = 11 /\ f[11] = <<e[11]>>
        BY <3>2, <1>10
    <3>4. \A i \in 1..10 : f[i] = <<e[i]>>
        BY <1>12, <3>1
    <3> HIDE DEF n
    <3> QED
        BY <2>4, <3>3, <3>4
  <2> QED
      BY <2>1, <2>2, <2>3, <2>4
<1> QED
    BY <1>12, <1>13 DEF f, n

\* Three words one after the other.
LEMMA ThreeJoined ==
    ASSUME NEW S, NEW p \in Seq(S), NEW q \in Seq(S), NEW r \in Seq(S),
           NEW w \in Seq(S), Len(p) = 1, Len(q) = 1, Len(r) = 1, Len(w) = 3,
           w[1] = p[1], w[2] = q[1], w[3] = r[1]
    PROVE  (p \o q) \o r = w
<1> DEFINE two == p \o q
<1>1. /\ two \in Seq(S) /\ Len(two) = 1 + 1
      /\ \A i \in 1..(1 + 1) : two[i] = IF i <= 1 THEN p[i] ELSE q[i - 1]
  <2>1. /\ two \in Seq(S) /\ Len(two) = Len(p) + Len(q)
        /\ \A i \in 1..(Len(p) + Len(q)) :
               two[i] = IF i <= Len(p) THEN p[i] ELSE q[i - Len(p)]
      BY ConcatProperties
  <2> HIDE DEF two
  <2> QED
      BY <2>1
<1>2. two[1] = p[1] /\ two[2] = q[1]
    BY <1>1
<1> HIDE DEF two
<1> DEFINE three == two \o r
<1>3. /\ three \in Seq(S) /\ Len(three) = 2 + 1
      /\ \A i \in 1..(2 + 1) : three[i] = IF i <= 2 THEN two[i] ELSE r[i - 2]
  <2>1. /\ three \in Seq(S) /\ Len(three) = Len(two) + Len(r)
        /\ \A i \in 1..(Len(two) + Len(r)) :
               three[i] = IF i <= Len(two) THEN two[i] ELSE r[i - Len(two)]
      BY <1>1, ConcatProperties
  <2> HIDE DEF three
  <2> QED
      BY <1>1, <2>1
<1>4. three[1] = p[1] /\ three[2] = q[1] /\ three[3] = r[1]
    BY <1>2, <1>3
<1> HIDE DEF three
<1>5. \A i \in 1..Len(three) : three[i] = w[i]
    BY <1>3, <1>4
<1>6. three \in Seq(S) /\ Len(three) = Len(w)
    BY <1>3
<1>7. three = w
    BY <1>5, <1>6, SeqEqual
<1> QED
    BY <1>7 DEF three, two

\* A fingerprint, with spaces or without, is read as its first and last word
\* and one space between.
LEMMA FingerprintRead ==
    ASSUME NEW ft \in Fingerprints
    PROVE  Fingerprint(ft) = <<ft[1], Space, ft[Len(ft)]>>
<1> DEFINE n == Len(ft)
           one == <<ft[1]>>
           space == <<Space>>
           digest == <<ft[n]>>
           whole == <<ft[1], Space, ft[n]>>
<1>1. /\ ft \in Seq(Word) /\ n \in Nat /\ n >= 2
      /\ ft[1] # Space /\ ft[n] # Space
      /\ \A i \in 2..(n - 1) : ft[i] = Space
      /\ n = 2 => ft[1] = "sha-256"
      /\ \A i \in 1..n : ft[i] \in Word
      /\ DOMAIN ft = 1..n
    BY FingerprintAssumption, LenProperties, ElementOfSeq DEF Words
<1>2. ft[1] \in Word /\ ft[n] \in Word /\ Space \in Word
    BY <1>1, WordAssumption
<1>3. /\ one \in Seq(Word) /\ space \in Seq(Word) /\ digest \in Seq(Word)
      /\ whole \in Seq(Word)
    BY <1>2
<1>4. (one \o space) \o digest = whole
  <2>1. /\ Len(one) = 1 /\ one[1] = ft[1] /\ Len(space) = 1
        /\ space[1] = Space /\ Len(digest) = 1 /\ digest[1] = ft[n]
        /\ Len(whole) = 3 /\ whole[1] = ft[1] /\ whole[2] = Space
        /\ whole[3] = ft[n]
      OBVIOUS
  <2> HIDE DEF one, space, digest, whole
  <2> QED
      BY <1>3, <2>1, ThreeJoined
<1>5. CASE n = 2
  <2>1. Places(ft, Space) = {}
    <3>1. \A j \in 1..Len(ft) : ft[j] # Space
        BY <1>1, <1>5
    <3> QED
        BY <1>1, <3>1, NoPartition DEF Words
  <2>2. Head(ft) = ft[1] /\ Tail(ft) = digest
    <3>1. ft # <<>>
        BY <1>1, EmptySeq
    <3>2. /\ Tail(ft) \in Seq(Word) /\ Len(Tail(ft)) = n - 1
          /\ \A i \in 1..Len(Tail(ft)) : Tail(ft)[i] = ft[i + 1]
        BY <1>1, <3>1, HeadTailProperties
    <3>3. Len(digest) = 1 /\ digest[1] = ft[n]
        OBVIOUS
    <3> DEFINE tail == Tail(ft)
    <3> HIDE DEF digest
    <3>4. tail = digest
      <4>1. Len(tail) = Len(digest) /\ tail \in Seq(Word)
          BY <1>5, <3>2, <3>3
      <4>2. Len(tail) = 1 /\ tail[1] = ft[2]
        <5>1. Len(tail) = 1
            BY <1>5, <3>2
        <5>2. tail[1] = ft[1 + 1]
            BY <3>2, <5>1
        <5> QED
            BY <5>1, <5>2
      <4> HIDE DEF tail
      <4>3. \A i \in 1..Len(tail) : tail[i] = digest[i]
          BY <1>5, <3>3, <4>2
      <4> QED
          BY <1>3, <4>1, <4>3, SeqEqual
    <3>5. Head(ft) = ft[1]
        BY <1>1, <3>1
    <3> QED
        BY <3>4, <3>5 DEF tail
  <2>3. Fingerprint(ft) = <<"sha-256", Space>> \o digest
    <3> HIDE DEF digest
    <3> QED
        BY <1>1, <1>5, <2>1, <2>2 DEF Fingerprint
  <2>4. <<"sha-256", Space>> = one \o space
      BY <1>1, <1>5
  <2> HIDE DEF one, space, digest, whole
  <2>5. Fingerprint(ft) = whole
      BY <1>4, <2>3, <2>4
  <2> QED
      BY <2>5 DEF whole, n
<1>6. CASE n > 2
  <2> DEFINE rest == SubSeq(ft, 2 + 1, n)
  <2>1. 2 \in 1..n /\ ft[2] = Space
      BY <1>1, <1>6
  <2>2. \A j \in 1..(2 - 1) : ft[j] # ft[2]
      BY <1>1, <2>1
  <2>3. /\ Places(ft, Space) # {}
        /\ Before(ft, Space) = SubSeq(ft, 1, 2 - 1)
        /\ After(ft, Space) = rest
      BY <1>1, <2>1, <2>2, Partition DEF Words
  <2>4. SubSeq(ft, 1, 2 - 1) = one
    <3>1. 1 \in 1..Len(ft)
        BY <1>1
    <3>2. SubSeq(ft, 1, 1) = one \o SubSeq(ft, 1 + 1, 1)
        BY <1>1, <3>1, SubSeqRecursiveFirst
    <3>3. SubSeq(ft, 1 + 1, 1) = <<>>
        BY SubSeqEmpty
    <3> HIDE DEF one
    <3>4. one \o <<>> = one
        BY <1>3, ConcatEmptySeq
    <3>5. SubSeq(ft, 1, 1) = one
        BY <3>2, <3>3, <3>4, Zenon
    <3>6. 2 - 1 = 1
        OBVIOUS
    <3> QED
        BY <3>5, <3>6, Zenon
  <2>5. /\ rest \in Seq(Word) /\ Len(rest) = n - 2
        /\ \A i \in 1..(n - 2) : rest[i] = ft[i + 2]
    <3>1. /\ 2 + 1 \in Int /\ n \in Int /\ 2 + 1 <= n
          /\ \A i \in (2 + 1)..n : ft[i] \in Word
        BY <1>1, <1>6
    <3> HIDE DEF n
    <3>2. /\ rest \in Seq(Word) /\ Len(rest) = n - (2 + 1) + 1
          /\ \A i \in 1..(n - (2 + 1) + 1) : rest[i] = ft[(2 + 1) + i - 1]
        BY <3>1, SubSeqProperties
    <3> QED
        BY <1>1, <3>2
  <2> HIDE DEF rest
  <2>6. Lstrip(rest) = digest
    <3> DEFINE kept == DOMAIN rest \ Places(rest, Space)
    <3>1. DOMAIN rest = 1..(n - 2)
        BY <2>5, LenProperties
    <3>2. rest[n - 2] = ft[n]
        BY <1>1, <1>6, <2>5
    <3>3. \A i \in 1..(n - 3) : rest[i] = Space
      <4> SUFFICES ASSUME NEW i \in 1..(n - 3) PROVE rest[i] = Space
          OBVIOUS
      <4>1. i \in 1..(n - 2) /\ i + 2 \in 2..(n - 1)
          BY <1>1, <1>6
      <4> QED
          BY <1>1, <2>5, <4>1
    <3>4. n - 2 \in kept
        BY <1>1, <1>6, <3>1, <3>2 DEF Places
    <3>5. \A j \in kept : j = n - 2
        BY <1>1, <1>6, <3>1, <3>3 DEF Places
    <3>6. kept \in SUBSET Int
        BY <3>1
    <3> HIDE DEF kept
    <3>7. Earliest(kept) = n - 2
      <4>1. n - 2 <= n - 2
          BY <1>1
      <4> HIDE DEF n
      <4>2. \A j \in kept : n - 2 <= j
          BY <3>5, <4>1
      <4> QED
          BY <3>4, <3>6, <4>2, EarliestIs
    <3>8. Lstrip(rest) = SubSeq(rest, n - 2, n - 2)
        BY <2>5, <3>4, <3>7 DEF Lstrip, kept
    <3>9. SubSeq(rest, n - 2, n - 2) = <<rest[n - 2]>> \o
              SubSeq(rest, (n - 2) + 1, n - 2)
      <4>1. n - 2 \in 1..Len(rest) /\ n - 2 \in (n - 2)..Len(rest)
          BY <1>1, <1>6, <2>5
      <4> QED
          BY <2>5, <4>1, SubSeqRecursiveFirst
    <3>10. SubSeq(rest, (n - 2) + 1, n - 2) = <<>>
        BY <1>1, SubSeqEmpty
    <3>11. digest \o <<>> = digest
      <4> HIDE DEF digest
      <4> QED
          BY <1>3, ConcatEmptySeq
    <3> QED
        BY <3>2, <3>8, <3>9, <3>10, <3>11, Zenon
  <2> HIDE DEF one, digest, whole, n
  <2>7. Fingerprint(ft) = (one \o space) \o digest
      BY <2>3, <2>4, <2>6 DEF Fingerprint
  <2>8. Fingerprint(ft) = whole
      BY <1>4, <2>7
  <2> QED
      BY <2>8 DEF whole, n
<1> QED
    BY <1>1, <1>5, <1>6

\* The answer that is expanded is still in hand, and its text is what the
\* camera may send.
TextInvariant ==
    /\ stage = "answer" => expanded = Nothing /\ answer \in Answers
    /\ stage \in {"offer", "trickle", "sent", "waiting"} => expanded = Nothing
    /\ TextRestored

LEMMA TextStep ==
    TextInvariant /\ [NextDescription]_everything => TextInvariant'
<1> SUFFICES ASSUME TextInvariant, [NextDescription]_everything
             PROVE  TextInvariant'
    OBVIOUS
<1> USE DEF TextInvariant, TextRestored
<1>1. CASE CreateOffer
    BY <1>1 DEF CreateOffer
<1>2. CASE Expand
  <2>1. /\ stage' = "expanded" /\ answer' = answer /\ answer \in Answers
        /\ expanded' = IF raised' THEN Nothing ELSE ExpandAnswer(answer)
      BY <1>2 DEF Expand
  <2>2. answer.ic \in Endings /\ answer.ft \in Fingerprints
      BY <2>1 DEF Answers
  <2>3. /\ ExpandAnswer(answer).ending = ExpandEnding(answer.ic)
        /\ ExpandAnswer(answer).fingerprint =
               <<answer.ft[1], Space, answer.ft[Len(answer.ft)]>>
      BY <2>2, FingerprintRead DEF ExpandAnswer
  <2>4. expanded' # Nothing => expanded' = ExpandAnswer(answer)
      BY <2>1
  <2>5. TextRestored'
      BY <2>1, <2>2, <2>3, <2>4, EndingRead
  <2> QED
      BY <2>1, <2>5
<1>3. CASE Trickle \/ Await \/ CameraTrickles
    BY <1>3 DEF Trickle, Await, CameraTrickles, description
<1>4. CASE CameraAnswers
    BY <1>4 DEF CameraAnswers
<1>5. CASE Apply
    BY <1>5 DEF Apply
<1>6. CASE ReadCandidate
    BY <1>6 DEF ReadCandidate, description
<1>7. CASE UNCHANGED everything
    BY <1>7 DEF everything, description
<1> QED
    BY <1>1, <1>2, <1>3, <1>4, <1>5, <1>6, <1>7 DEF NextDescription

\* However many spaces stand in a fingerprint, aiortc reads its algorithm and
\* its digest; and of what a camera puts after "typ", the words up to the first
\* attribute that is missing or out of its order, all of them when none is.
THEOREM TextIsRestored == Call => []TextRestored
<1>1. InitCall => TextInvariant
    BY DEF InitCall, TextInvariant, TextRestored
<1>2. TextInvariant => TextRestored
    BY DEF TextInvariant
<1> QED
    BY <1>1, <1>2, TextStep, PTL DEF Call

=============================================================================
