------------------------------ MODULE SumProofs ------------------------------
(* What is computed step by step: induction over the natural numbers, from    *)
(* their being well-founded; the function a recursive definition stands for;  *)
(* and with these how a sum grows with the values it is taken over.           *)
EXTENDS Sums, SequenceTheorems, WellFoundedInduction, TLAPS

-----------------------------------------------------------------------------
(* Induction *)

\* A set of natural numbers has a least element.
LEMMA LeastOf ==
  ASSUME NEW S \in SUBSET Nat, S # {}
  PROVE  \E x \in S : \A y \in S : x <= y
<1>1. PICK x \in S : \A y \in S : ~(<<y, x>> \in OpToRel(<, Nat))
  BY WFMin, NatLessThanWellFounded
<1>2. \A y \in S : ~(y < x)
  BY <1>1 DEF OpToRel
<1> QED
  BY <1>2

\* Induction, stated of a set: it holds all natural numbers if it holds 0 and, with
\* a number, the next one.
LEMMA ReachesAll ==
  ASSUME NEW S, 0 \in S, \A n \in Nat : n \in S => n + 1 \in S
  PROVE  \A n \in Nat : n \in S
<1> SUFFICES ASSUME Nat \ S # {} PROVE FALSE
  OBVIOUS
<1>1. PICK x \in Nat \ S : \A y \in Nat \ S : x <= y
  BY LeastOf
<1>2. x # 0 /\ x - 1 \in Nat
  BY <1>1
<1>3. x - 1 \in S
  BY <1>1, <1>2
<1> QED
  BY <1>1, <1>2, <1>3

-----------------------------------------------------------------------------
(* Recursion *)

\* As far as n, h begins with b and goes on by g.
Obeys(h, n, b, g) == h[0] = b /\ \A i \in Nat : i < n => h[i + 1] = g[<<i, h[i]>>]

LEMMA ObeysUnique ==
  ASSUME NEW n \in Nat, NEW b, NEW g, NEW h, NEW k, Obeys(h, n, b, g), Obeys(k, n, b, g)
  PROVE  \A i \in 0 .. n : h[i] = k[i]
<1> DEFINE S == {i \in Nat : i <= n => h[i] = k[i]}
<1>1. 0 \in S
  BY DEF Obeys
<1>2. ASSUME NEW i \in Nat, i \in S PROVE i + 1 \in S
  <2>1. ASSUME i + 1 <= n PROVE h[i + 1] = k[i + 1]
    <3>1. i < n /\ h[i] = k[i]
      BY <1>2, <2>1
    <3> QED
      BY <3>1 DEF Obeys
  <2> QED
    BY <2>1
<1> HIDE DEF S
<1>3. \A i \in Nat : i \in S
  BY <1>1, <1>2, ReachesAll
<1> QED
  BY <1>3 DEF S

Computes(f, T, b, g) ==
  f \in [Nat -> T] /\ f[0] = b /\ \A n \in Nat : f[n + 1] = g[<<n, f[n]>>]

\* What is computed step by step from a first value exists.
LEMMA RecursionExists ==
  ASSUME NEW T, NEW b \in T, NEW g \in [Nat \X T -> T]
  PROVE  \E f : Computes(f, T, b, g)
<1> DEFINE S == {n \in Nat : \E h \in [0 .. n -> T] : Obeys(h, n, b, g)}
<1>1. 0 \in S
  <2>1. [i \in 0 .. 0 |-> b] \in [0 .. 0 -> T] /\ Obeys([i \in 0 .. 0 |-> b], 0, b, g)
    BY DEF Obeys
  <2> QED
    BY <2>1
<1>2. ASSUME NEW n \in Nat, n \in S PROVE n + 1 \in S
  <2>1. PICK h \in [0 .. n -> T] : Obeys(h, n, b, g)
    BY <1>2
  <2> DEFINE k == [i \in 0 .. n + 1 |-> IF i <= n THEN h[i] ELSE g[<<n, h[n]>>]]
  <2>2. k \in [0 .. n + 1 -> T]
    <3>1. h[n] \in T /\ <<n, h[n]>> \in Nat \X T
      BY <2>1
    <3>2. g[<<n, h[n]>>] \in T
      BY <3>1
    <3> QED
      BY <2>1, <3>2
  <2>3. Obeys(k, n + 1, b, g)
    <3>1. k[0] = b
      BY <2>1 DEF Obeys
    <3>2. ASSUME NEW i \in Nat, i < n + 1 PROVE k[i + 1] = g[<<i, k[i]>>]
      <4>1. CASE i = n
        BY <4>1
      <4>2. CASE i < n
        BY <2>1, <4>2 DEF Obeys
      <4> QED
        BY <3>2, <4>1, <4>2
    <3> QED
      BY <3>1, <3>2 DEF Obeys
  <2> QED
    BY <2>2, <2>3
<1> HIDE DEF S
<1>3. \A n \in Nat : n \in S
  BY <1>1, <1>2, ReachesAll
<1> DEFINE H(n) == CHOOSE h : h \in [0 .. n -> T] /\ Obeys(h, n, b, g)
<1>4. ASSUME NEW n \in Nat PROVE H(n) \in [0 .. n -> T] /\ Obeys(H(n), n, b, g)
  BY <1>3 DEF S
<1> HIDE DEF H
<1>5. ASSUME NEW n \in Nat PROVE H(n + 1)[n] = H(n)[n] /\ H(n + 1)[n + 1] = g[<<n, H(n)[n]>>]
  <2>1. Obeys(H(n + 1), n + 1, b, g) /\ Obeys(H(n), n, b, g)
    BY <1>4
  <2>2. Obeys(H(n + 1), n, b, g)
    BY <2>1 DEF Obeys
  <2>3. \A i \in 0 .. n : H(n + 1)[i] = H(n)[i]
    BY <2>1, <2>2, ObeysUnique
  <2> QED
    BY <2>1, <2>3 DEF Obeys
<1> DEFINE f == [n \in Nat |-> H(n)[n]]
<1>6. f \in [Nat -> T]
  BY <1>4
<1>7. f[0] = b
  BY <1>4 DEF Obeys
<1>8. ASSUME NEW n \in Nat PROVE f[n + 1] = g[<<n, f[n]>>]
  BY <1>5
<1> QED
  BY <1>6, <1>7, <1>8 DEF Computes

-----------------------------------------------------------------------------
(* Sums *)

\* The function of Total is what its equation says.
LEMMA TotalSteps ==
  ASSUME NEW f, \A i \in DOMAIN f : f[i] \in Int
  PROVE  /\ Total(f, 0) = 0
         /\ \A n \in Nat : /\ Total(f, n) \in Int
                           /\ n + 1 \in DOMAIN f => Total(f, n + 1) = Total(f, n) + f[n + 1]
                           /\ n + 1 \notin DOMAIN f => Total(f, n + 1) = Total(f, n)
<1> DEFINE v(i) == IF i \in DOMAIN f THEN f[i] ELSE 0
<1>0. \A i : v(i) \in Int
  OBVIOUS
<1> HIDE DEF v
<1>1. PICK g : /\ g \in [Nat \X Int -> Int]
               /\ \A n \in Nat : \A x \in Int : g[<<n, x>>] = x + v(n + 1)
  <2> DEFINE h == [p \in Nat \X Int |-> p[2] + v(p[1] + 1)]
  <2>1. h \in [Nat \X Int -> Int] /\ \A n \in Nat : \A x \in Int : h[<<n, x>>] = x + v(n + 1)
    BY <1>0
  <2> QED
    BY <2>1
<1>2. \E s : Computes(s, Int, 0, g)
  BY <1>1, RecursionExists
<1>3a. PICK s : s \in [Nat -> Int] /\ s[0] = 0 /\ \A n \in Nat : s[n + 1] = g[<<n, s[n]>>]
  BY <1>2 DEF Computes
<1>3. \A n \in Nat : s[n + 1] = s[n] + v(n + 1)
  BY <1>1, <1>3a
<1>4. s = [i \in Nat |-> IF i = 0 THEN 0 ELSE s[i - 1] + v(i)]
  <2>1. ASSUME NEW i \in Nat, i # 0 PROVE s[i] = s[i - 1] + v(i)
    <3>1. i - 1 \in Nat /\ (i - 1) + 1 = i
      BY <2>1
    <3> QED
      BY <1>3, <3>1
  <2> QED
    BY <1>3a, <2>1
<1> DEFINE Upto == CHOOSE u : u = [i \in Nat |-> IF i = 0 THEN 0 ELSE u[i - 1] + v(i)]
<1>5. Upto = [i \in Nat |-> IF i = 0 THEN 0 ELSE Upto[i - 1] + v(i)]
  BY <1>4
<1>6. \A n \in Nat : Total(f, n) = Upto[n]
  BY DEF Total, v
<1> HIDE DEF Upto
<1>7. Upto[0] = 0
  BY <1>5
<1>8. \A n \in Nat : Upto[n + 1] = Upto[n] + v(n + 1)
  BY <1>5
<1> DEFINE S == {n \in Nat : Upto[n] \in Int}
<1>9. \A n \in Nat : n \in S
  <2>1. 0 \in S
    BY <1>7
  <2>2. \A n \in Nat : n \in S => n + 1 \in S
    BY <1>0, <1>8
  <2> HIDE DEF S
  <2> QED
    BY <2>1, <2>2, ReachesAll
<1> QED
  BY <1>6, <1>7, <1>8, <1>9 DEF v

\* A sum depends on the values it is taken over only.
LEMMA TotalAgrees ==
  ASSUME NEW f, \A i \in DOMAIN f : f[i] \in Int,
         NEW h, \A i \in DOMAIN h : h[i] \in Int,
         NEW n \in Nat,
         \A i \in 1 .. n : (i \in DOMAIN f <=> i \in DOMAIN h) /\ (i \in DOMAIN f => f[i] = h[i])
  PROVE  Total(f, n) = Total(h, n)
<1> DEFINE S == {i \in Nat : i <= n => Total(f, i) = Total(h, i)}
<1>1. 0 \in S
  BY TotalSteps
<1>2. ASSUME NEW i \in Nat, i \in S PROVE i + 1 \in S
  <2>1. ASSUME i + 1 <= n PROVE Total(f, i + 1) = Total(h, i + 1)
    <3>1. i + 1 \in 1 .. n /\ Total(f, i) = Total(h, i)
      BY <1>2, <2>1
    <3> QED
      BY <3>1, TotalSteps
  <2> QED
    BY <2>1
<1> HIDE DEF S
<1>3. n \in S
  BY <1>1, <1>2, ReachesAll
<1> QED
  BY <1>3 DEF S

\* The sum of natural numbers does not decrease.
LEMMA TotalGrows ==
  ASSUME NEW f, \A i \in DOMAIN f : f[i] \in Nat,
         NEW m \in Nat, NEW n \in Nat, m <= n
  PROVE  Total(f, m) \in Nat /\ Total(f, m) <= Total(f, n)
<1>0. \A i \in DOMAIN f : f[i] \in Int
  OBVIOUS
<1> DEFINE T == {i \in Nat : Total(f, i) \in Nat}
<1>1. 0 \in T /\ \A i \in Nat : i \in T => i + 1 \in T
  BY <1>0, TotalSteps
<1> HIDE DEF T
<1>2. m \in T
  BY <1>1, ReachesAll
<1> DEFINE S == {i \in Nat : Total(f, m) <= Total(f, m + i)}
<1>3. 0 \in S
  BY <1>0, TotalSteps
<1>4. ASSUME NEW i \in Nat, i \in S PROVE i + 1 \in S
  <2>1. m + i \in Nat /\ (m + i) + 1 = m + (i + 1)
    OBVIOUS
  <2>2. Total(f, m) \in Int /\ Total(f, m + i) \in Int
    BY <1>0, <2>1, TotalSteps
  <2>3. Total(f, (m + i) + 1) \in Int /\ Total(f, m + i) <= Total(f, (m + i) + 1)
    BY <1>0, <2>1, <2>2, TotalSteps
  <2> QED
    BY <1>4, <2>1, <2>2, <2>3
<1> HIDE DEF S
<1>5. n - m \in S
  BY <1>3, <1>4, ReachesAll
<1> QED
  BY <1>2, <1>5 DEF S, T

\* Where every value is at least 1, the sum increases, and tells how many values it
\* is taken over.
LEMMA TotalIncreases ==
  ASSUME NEW f, \A i \in DOMAIN f : f[i] \in Nat \ {0},
         NEW m \in Nat, NEW n \in Nat, m < n, 1 .. n \subseteq DOMAIN f
  PROVE  Total(f, m) + f[m + 1] <= Total(f, n) /\ Total(f, m) < Total(f, n)
<1>1. /\ \A i \in DOMAIN f : f[i] \in Nat /\ f[i] \in Int /\ f[i] >= 1
  OBVIOUS
<1>2. m + 1 \in Nat /\ m + 1 <= n /\ m + 1 \in DOMAIN f
  OBVIOUS
<1>3. Total(f, m + 1) <= Total(f, n) /\ Total(f, m) \in Int /\ Total(f, m + 1) \in Int /\ Total(f, n) \in Int
  BY <1>1, <1>2, TotalGrows, TotalSteps
<1>4. Total(f, m + 1) = Total(f, m) + f[m + 1]
  BY <1>1, <1>2, TotalSteps
<1> QED
  BY <1>1, <1>2, <1>3, <1>4

\* Where every value is at least 1, different numbers of values have different sums.
LEMMA TotalTells ==
  ASSUME NEW f, NEW len \in Nat, DOMAIN f = 1 .. len, \A i \in 1 .. len : f[i] \in Nat \ {0},
         NEW m \in 0 .. len, NEW n \in 0 .. len
  PROVE  /\ m < n => Total(f, m) + f[m + 1] <= Total(f, n)
         /\ Total(f, m) = Total(f, n) => m = n
         /\ Total(f, m) \in Nat /\ Total(f, 0) = 0
         /\ m < len => Total(f, m + 1) = Total(f, m) + f[m + 1]
<1>1. /\ \A i \in DOMAIN f : f[i] \in Nat \ {0}
      /\ \A i \in DOMAIN f : f[i] \in Nat
      /\ \A i \in DOMAIN f : f[i] \in Int
  OBVIOUS
<1>2. /\ m \in Nat /\ n \in Nat /\ m <= m
      /\ 1 .. m \subseteq DOMAIN f /\ 1 .. n \subseteq DOMAIN f
      /\ m < len => m + 1 \in DOMAIN f
  OBVIOUS
<1>3. m < n => Total(f, m) + f[m + 1] <= Total(f, n) /\ Total(f, m) < Total(f, n)
  BY <1>1, <1>2, TotalIncreases
<1>4. n < m => Total(f, n) < Total(f, m)
  BY <1>1, <1>2, TotalIncreases
<1>5. Total(f, m) \in Nat /\ Total(f, n) \in Nat
  BY <1>1, <1>2, TotalGrows
<1>6. Total(f, m) = Total(f, n) => m = n
  BY <1>2, <1>3, <1>4, <1>5
<1>7. Total(f, 0) = 0 /\ (m < len => Total(f, m + 1) = Total(f, m) + f[m + 1])
  BY <1>1, <1>2, TotalSteps
<1> QED
  BY <1>3, <1>5, <1>6, <1>7

-----------------------------------------------------------------------------
(* Sequences put one behind the other *)

\* The function of Joined is what its equation says, and gives a sequence of what
\* its parts are sequences of.
LEMMA JoinedSteps ==
  ASSUME NEW S, NEW f, \A i \in DOMAIN f : f[i] \in Seq(S)
  PROVE  /\ Joined(f, 0) = <<>>
         /\ \A n \in Nat : /\ Joined(f, n) \in Seq(S)
                           /\ n + 1 \in DOMAIN f => Joined(f, n + 1) = Joined(f, n) \o f[n + 1]
                           /\ n + 1 \notin DOMAIN f => Joined(f, n + 1) = Joined(f, n)
<1> DEFINE v(i) == IF i \in DOMAIN f THEN f[i] ELSE <<>>
<1>e. <<>> \in Seq(S)
  BY EmptySeq
<1>0. \A i : v(i) \in Seq(S)
  BY <1>e
<1>z. \A n : n + 1 \in DOMAIN f => v(n + 1) = f[n + 1]
  OBVIOUS
<1>y. \A n : n + 1 \notin DOMAIN f => v(n + 1) = <<>>
  OBVIOUS
<1>w. \A i : (IF i \in DOMAIN f THEN f[i] ELSE <<>>) = v(i)
  OBVIOUS
<1> HIDE DEF v
<1>c. \A x, y \in Seq(S) : x \o y \in Seq(S)
  BY ConcatProperties
<1>1. PICK g : /\ g \in [Nat \X Seq(S) -> Seq(S)]
               /\ \A n \in Nat : \A x \in Seq(S) : g[<<n, x>>] = x \o v(n + 1)
  <2> DEFINE h == [p \in Nat \X Seq(S) |-> p[2] \o v(p[1] + 1)]
  <2>1. \A p \in Nat \X Seq(S) : p[2] \in Seq(S) /\ p[2] \o v(p[1] + 1) \in Seq(S)
    BY <1>0, <1>c
  <2>2. h \in [Nat \X Seq(S) -> Seq(S)] /\ \A n \in Nat : \A x \in Seq(S) : h[<<n, x>>] = x \o v(n + 1)
    BY <2>1
  <2> QED
    BY <2>2
<1>2. \E s : Computes(s, Seq(S), <<>>, g)
  BY <1>1, <1>e, RecursionExists
<1>3a. PICK s : s \in [Nat -> Seq(S)] /\ s[0] = <<>> /\ \A n \in Nat : s[n + 1] = g[<<n, s[n]>>]
  BY <1>2 DEF Computes
<1>3. \A n \in Nat : s[n + 1] = s[n] \o v(n + 1)
  BY <1>1, <1>3a
<1>4. s = [i \in Nat |-> IF i = 0 THEN <<>> ELSE s[i - 1] \o v(i)]
  <2>1. ASSUME NEW i \in Nat, i # 0 PROVE s[i] = s[i - 1] \o v(i)
    <3>1. i - 1 \in Nat /\ (i - 1) + 1 = i
      BY <2>1
    <3> QED
      BY <1>3, <3>1
  <2>2. \A i \in Nat : s[i] = IF i = 0 THEN <<>> ELSE s[i - 1] \o v(i)
    BY <1>3a, <2>1
  <2>3. s = [i \in Nat |-> s[i]]
    BY <1>3a
  <2> QED
    BY <2>2, <2>3, Zenon
<1> DEFINE Upto == CHOOSE u : u = [i \in Nat |-> IF i = 0 THEN <<>> ELSE u[i - 1] \o v(i)]
<1>5. Upto = [i \in Nat |-> IF i = 0 THEN <<>> ELSE Upto[i - 1] \o v(i)]
  BY <1>4
<1>6. \A n \in Nat : Joined(f, n) = Upto[n]
  BY DEF Joined, v
<1> HIDE DEF Upto
<1>7. Upto[0] = <<>>
  BY <1>5
<1>8. ASSUME NEW n \in Nat PROVE Upto[n + 1] = Upto[n] \o v(n + 1)
  <2>1. n + 1 \in Nat /\ n + 1 # 0 /\ (n + 1) - 1 = n
    OBVIOUS
  <2>2. Upto[n + 1] = Upto[(n + 1) - 1] \o v(n + 1)
    BY <1>5, <2>1
  <2> QED
    BY <2>1, <2>2
<1> DEFINE N == {n \in Nat : Upto[n] \in Seq(S)}
<1>9. \A n \in Nat : n \in N
  <2>1. 0 \in N
    BY <1>7, <1>e
  <2>2. \A n \in Nat : n \in N => n + 1 \in N
    <3> SUFFICES ASSUME NEW n \in Nat, n \in N PROVE n + 1 \in N
      OBVIOUS
    <3>1. n + 1 \in Nat /\ Upto[n] \in Seq(S) /\ v(n + 1) \in Seq(S)
      BY <1>0
    <3>2. Upto[n] \o v(n + 1) \in Seq(S)
      BY <3>1, <1>c
    <3>3. Upto[n + 1] \in Seq(S)
      BY <3>2, <1>8
    <3> QED
      BY <3>1, <3>3
  <2> HIDE DEF N
  <2> QED
    BY <2>1, <2>2, ReachesAll
<1>10. \A n \in Nat : Upto[n] \in Seq(S)
  BY <1>9
<1>11. ASSUME NEW n \in Nat, n + 1 \notin DOMAIN f PROVE Upto[n + 1] = Upto[n]
  <2>1. \A x \in Seq(S) : x \o <<>> = x
    BY ConcatEmptySeq
  <2> QED
    BY <1>8, <1>10, <1>11, <1>y, <2>1
<1>12. \A n \in Nat : n + 1 \in Nat
  OBVIOUS
<1> HIDE DEF v
<1> QED
  BY <1>6, <1>7, <1>8, <1>10, <1>11, <1>12, <1>z, Zenon

\* What is joined depends on nothing behind.
LEMMA JoinedAgrees ==
  ASSUME NEW S, NEW f, \A i \in DOMAIN f : f[i] \in Seq(S),
         NEW h, \A i \in DOMAIN h : h[i] \in Seq(S),
         NEW n \in Nat,
         \A i \in 1 .. n : (i \in DOMAIN f <=> i \in DOMAIN h) /\ (i \in DOMAIN f => f[i] = h[i])
  PROVE  Joined(f, n) = Joined(h, n)
<1> DEFINE T == {i \in Nat : i <= n => Joined(f, i) = Joined(h, i)}
<1>1. 0 \in T
  BY JoinedSteps
<1>2. ASSUME NEW i \in Nat, i \in T PROVE i + 1 \in T
  <2>1. ASSUME i + 1 <= n PROVE Joined(f, i + 1) = Joined(h, i + 1)
    <3>1. i + 1 \in 1 .. n /\ Joined(f, i) = Joined(h, i)
      BY <1>2, <2>1
    <3>2. CASE i + 1 \in DOMAIN f
      <4>1. i + 1 \in DOMAIN h /\ f[i + 1] = h[i + 1]
        BY <3>1, <3>2
      <4>2. Joined(f, i + 1) = Joined(f, i) \o f[i + 1]
        BY <3>2, JoinedSteps
      <4>3. Joined(h, i + 1) = Joined(h, i) \o h[i + 1]
        BY <4>1, JoinedSteps
      <4> QED
        BY <3>1, <4>1, <4>2, <4>3
    <3>3. CASE i + 1 \notin DOMAIN f
      <4>1. i + 1 \notin DOMAIN h
        BY <3>1, <3>3
      <4>2. Joined(f, i + 1) = Joined(f, i)
        BY <3>3, JoinedSteps
      <4>3. Joined(h, i + 1) = Joined(h, i)
        BY <4>1, JoinedSteps
      <4> QED
        BY <3>1, <4>2, <4>3
    <3> QED
      BY <3>2, <3>3
  <2> QED
    BY <2>1
<1> HIDE DEF T
<1>3. \A i \in Nat : i \in T
  BY <1>1, <1>2, ReachesAll
<1> QED
  BY <1>3 DEF T

\* What is joined is the same from its end: r[p] is what follows the first p.
BuiltBack(r, S, f, n) ==
  /\ r \in [0 .. n -> Seq(S)]
  /\ r[0] = Joined(f, n) /\ r[n] = <<>>
  /\ \A p \in 0 .. n - 1 : r[p] = f[p + 1] \o r[p + 1]

LEMMA JoinedFromTheEnd ==
  ASSUME NEW S, NEW f, NEW len \in Nat, DOMAIN f = 1 .. len, \A i \in DOMAIN f : f[i] \in Seq(S)
  PROVE  \E r : BuiltBack(r, S, f, len)
<1> DEFINE T == {n \in Nat : n <= len => \E r : BuiltBack(r, S, f, n)}
<1>e. <<>> \in Seq(S) /\ \A s \in Seq(S) : s \o <<>> = s /\ <<>> \o s = s
  BY EmptySeq, ConcatEmptySeq
<1>c. \A s, t \in Seq(S) : s \o t \in Seq(S)
  BY ConcatProperties
<1>a. \A s, t, u \in Seq(S) : (s \o t) \o u = s \o (t \o u)
  BY ConcatAssociative
<1>1. 0 \in T
  <2>1. Joined(f, 0) = <<>>
    BY JoinedSteps
  <2>2. PICK r : r = [p \in 0 .. 0 |-> <<>>]
    OBVIOUS
  <2>3. r \in [0 .. 0 -> Seq(S)] /\ r[0] = <<>>
    BY <2>2, <1>e
  <2>4. BuiltBack(r, S, f, 0)
    BY <2>1, <2>3 DEF BuiltBack
  <2> QED
    BY <2>4
<1>2. ASSUME NEW n \in Nat, n \in T PROVE n + 1 \in T
  <2> SUFFICES ASSUME n + 1 <= len PROVE \E r : BuiltBack(r, S, f, n + 1)
    OBVIOUS
  <2>1. PICK r : BuiltBack(r, S, f, n)
    BY <1>2
  <2>2. n + 1 \in DOMAIN f /\ f[n + 1] \in Seq(S)
    OBVIOUS
  <2>3. Joined(f, n + 1) = Joined(f, n) \o f[n + 1]
    BY <2>2, JoinedSteps
  <2>x. PICK x \in Seq(S) : x = f[n + 1]
    BY <2>2
  <2>4. \A p \in 0 .. n : r[p] \in Seq(S) /\ r[p] \o x \in Seq(S)
    BY <2>1, <1>c DEF BuiltBack
  <2>s. PICK s : s = [p \in 0 .. n + 1 |-> IF p <= n THEN r[p] \o x ELSE <<>>]
    OBVIOUS
  <2>t. /\ DOMAIN s = 0 .. n + 1
        /\ \A p \in 0 .. n : s[p] = r[p] \o x
        /\ s[n + 1] = <<>>
    BY <2>s
  <2>5. s \in [0 .. n + 1 -> Seq(S)]
    <3>0. \A p \in 0 .. n + 1 : p \in 0 .. n \/ p = n + 1
      OBVIOUS
    <3>1. \A p \in 0 .. n + 1 : s[p] \in Seq(S)
      BY <1>e, <2>4, <2>t, <3>0
    <3>2. s = [p \in 0 .. n + 1 |-> s[p]]
      BY <2>s
    <3> QED
      BY <3>1, <3>2
  <2>6. s[0] = Joined(f, n + 1)
    <3>1. 0 \in 0 .. n
      OBVIOUS
    <3>2. r[0] = Joined(f, n)
      BY <2>1 DEF BuiltBack
    <3> QED
      BY <3>1, <3>2, <2>3, <2>t, <2>x
  <2>7. ASSUME NEW p \in 0 .. n PROVE s[p] = f[p + 1] \o s[p + 1]
    <3>1. CASE p = n
      <4>1. r[n] = <<>>
        BY <2>1 DEF BuiltBack
      <4>2. s[p] = <<>> \o x /\ s[p + 1] = <<>> /\ f[p + 1] = x
        BY <2>t, <2>x, <3>1, <4>1
      <4> QED
        BY <4>2, <1>e
    <3>2. CASE p # n
      <4>1. p \in 0 .. n - 1 /\ p + 1 \in 0 .. n /\ p + 1 \in DOMAIN f
        BY <3>2
      <4>2. r[p] = f[p + 1] \o r[p + 1]
        BY <2>1, <4>1 DEF BuiltBack
      <4>3. r[p + 1] \in Seq(S) /\ f[p + 1] \in Seq(S)
        BY <2>4, <4>1
      <4>4. s[p] = r[p] \o x /\ s[p + 1] = r[p + 1] \o x
        BY <4>1, <2>t
      <4>5. PICK y \in Seq(S), z \in Seq(S) : y = f[p + 1] /\ z = r[p + 1]
        BY <4>3
      <4>6. (y \o z) \o x = y \o (z \o x)
        BY <1>a
      <4> QED
        BY <4>2, <4>4, <4>5, <4>6
    <3> QED
      BY <3>1, <3>2
  <2>8. BuiltBack(s, S, f, n + 1)
    <3>1. (n + 1) - 1 = n
      OBVIOUS
    <3> QED
      BY <2>5, <2>6, <2>t, <2>7, <3>1 DEF BuiltBack
  <2> QED
    BY <2>8
<1> HIDE DEF T
<1>3. \A n \in Nat : n \in T
  BY <1>1, <1>2, ReachesAll
<1> QED
  BY <1>3 DEF T
=============================================================================
