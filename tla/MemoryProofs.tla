---------------------------- MODULE MemoryProofs ----------------------------
(***************************************************************************)
(* Facts about numbers, words, bytes and caches (modules SharedMemory and  *)
(* Cache) for every byte size, memory size and cache geometry, which the   *)
(* proofs about the processors and about coherence share.                  *)
(***************************************************************************)
EXTENDS Cache, SharedMemory, WellFoundedInduction, TLAPS

-----------------------------------------------------------------------------
(* Induction over the naturals as a fact about sets. *)

\* A set of naturals that is not empty has a least element.
LEMMA LeastElement ==
    ASSUME NEW T, T \subseteq Nat, T # {}
    PROVE  \E x \in T : \A y \in T : x <= y
<1>1. PICK x \in T : \A y \in T : ~ (<<y, x>> \in OpToRel(<, Nat))
  BY WFMin, NatLessThanWellFounded, Zenon
<1>2. ASSUME NEW y \in T PROVE x <= y
  <2>1. y < x => <<y, x>> \in OpToRel(<, Nat)
    BY DEF OpToRel
  <2>2. ~ (y < x)
    BY <1>1, <2>1, Zenon
  <2> QED
    BY <2>2
<1> QED
  BY <1>1, <1>2

\* A set with 0 and the successor of each of its naturals has all of them.
LEMMA NatSetInduction ==
    ASSUME NEW S, 0 \in S, \A n \in Nat : n \in S => n + 1 \in S
    PROVE  Nat \subseteq S
<1> DEFINE T == Nat \ S
<1>1. SUFFICES ASSUME T # {} PROVE FALSE
  OBVIOUS
<1>2. PICK x \in T : \A y \in T : x <= y
  BY <1>1, LeastElement
<1>3. x # 0 /\ x - 1 \in Nat
  OBVIOUS
<1>4. x - 1 \in S
  BY <1>2, <1>3
<1> QED
  BY <1>3, <1>4

-----------------------------------------------------------------------------
(* Recursive functions of the naturals. *)

\* The values that a step function T makes of a start, one after the other.
Iterates(f, V, start, T) ==
    /\ f \in [Nat -> V]
    /\ f[0] = start
    /\ \A n \in Nat : f[n + 1] = T[<<f[n], n>>]

\* They always exist.
LEMMA RecursiveFunction ==
    ASSUME NEW V, NEW start \in V, NEW T \in [V \X Nat -> V]
    PROVE  \E f : Iterates(f, V, start, T)
  <1> DEFINE Solves(h, n) == /\ h \in [0 .. n -> V]
                             /\ h[0] = start
                             /\ \A k \in 0 .. n - 1 : h[k + 1] = T[<<h[k], k>>]
             S == {n \in Nat : \E h : Solves(h, n)}
  <1>1. 0 \in S
    <2> DEFINE h == [k \in 0 .. 0 |-> start]
    <2>1. Solves(h, 0)
      OBVIOUS
    <2> QED
      BY <2>1
  <1>2. ASSUME NEW n \in Nat, n \in S PROVE n + 1 \in S
    <2>1. PICK h : Solves(h, n)
      BY <1>2
    <2> DEFINE g == [k \in 0 .. n + 1 |-> IF k = n + 1 THEN T[<<h[n], n>>] ELSE h[k]]
    <2>2. T[<<h[n], n>>] \in V
      BY <2>1
    <2>3. g \in [0 .. n + 1 -> V] /\ g[0] = start
      BY <2>1, <2>2
    <2>4. ASSUME NEW k \in 0 .. n PROVE g[k + 1] = T[<<g[k], k>>]
      <3>1. CASE k = n
        <4>1. g[n + 1] = T[<<h[n], n>>] /\ g[n] = h[n]
          OBVIOUS
        <4> HIDE DEF g
        <4> QED
          BY <3>1, <4>1
      <3>2. CASE k # n
        <4>1. k \in 0 .. n - 1 /\ k + 1 # n + 1 /\ k + 1 \in 0 .. n + 1 /\ k \in 0 .. n + 1
          BY <3>2
        <4> QED
          BY <2>1, <3>2, <4>1
      <3> QED
        BY <3>1, <3>2
    <2> HIDE DEF g
    <2>5. Solves(g, n + 1)
      BY <2>3, <2>4
    <2> QED
      BY <2>5
  <1> HIDE DEF S
  <1>3. \A n \in Nat : \E h : Solves(h, n)
    <2>1. Nat \subseteq S
      BY <1>1, <1>2, NatSetInduction
    <2> QED
      BY <2>1 DEF S
  <1>4. ASSUME NEW m \in Nat, NEW n \in Nat, m <= n, NEW h, Solves(h, m), NEW g, Solves(g, n)
        PROVE  h[m] = g[m]
    <2> DEFINE E == {k \in Nat : k <= m => h[k] = g[k]}
    <2>1. 0 \in E
      BY <1>4
    <2>2. ASSUME NEW k \in Nat, k \in E PROVE k + 1 \in E
      <3>1. CASE k + 1 <= m
        <4>1. k \in 0 .. m - 1 /\ k \in 0 .. n - 1 /\ h[k] = g[k]
          BY <2>2, <3>1, <1>4
        <4>2. h[k + 1] = T[<<h[k], k>>]
          BY <4>1, <1>4
        <4>3. g[k + 1] = T[<<g[k], k>>]
          BY <4>1, <1>4
        <4> QED
          BY <4>1, <4>2, <4>3
      <3> QED
        BY <3>1
    <2> HIDE DEF E
    <2>3. m \in E
      BY <2>1, <2>2, NatSetInduction
    <2> QED
      BY <2>3 DEF E
  <1> DEFINE upTo == [n \in Nat |-> CHOOSE h : Solves(h, n)]
             f    == [n \in Nat |-> upTo[n][n]]
  <1>5. \A n \in Nat : Solves(upTo[n], n)
    BY <1>3
  <1> HIDE DEF upTo
  <1>6. f \in [Nat -> V] /\ f[0] = start
    BY <1>5
  <1>7. ASSUME NEW n \in Nat PROVE f[n + 1] = T[<<f[n], n>>]
    <2>1. Solves(upTo[n + 1], n + 1) /\ Solves(upTo[n], n)
      BY <1>5
    <2> HIDE DEF Solves
    <2>2. upTo[n][n] = upTo[n + 1][n]
      BY <1>4, <2>1
    <2>3. upTo[n + 1][n + 1] = T[<<upTo[n + 1][n], n>>]
      BY <2>1 DEF Solves
    <2> QED
      BY <2>2, <2>3
  <1> HIDE DEF f
  <1> QED
    BY <1>6, <1>7 DEF Iterates

\* The powers of a number.
LEMMA PowersOfDef ==
    ASSUME NEW b \in Nat
    PROVE  /\ PowersOf(b) \in [Nat -> Nat]
           /\ PowersOf(b)[0] = 1
           /\ \A n \in Nat : PowersOf(b)[n + 1] = b * PowersOf(b)[n]
  <1> DEFINE T == [p \in Nat \X Nat |-> b * p[1]]
  <1>1. T \in [Nat \X Nat -> Nat] /\ 1 \in Nat
    OBVIOUS
  <1>2. PICK f : Iterates(f, Nat, 1, T)
    <2> HIDE DEF T
    <2> QED BY <1>1, RecursiveFunction
  <1>3. f \in [Nat -> Nat] /\ f[0] = 1 /\ \A n \in Nat : f[n + 1] = b * f[n]
    BY <1>2 DEF Iterates
  <1>4. f = [n \in Nat |-> IF n = 0 THEN 1 ELSE b * f[n - 1]]
    <2>1. ASSUME NEW n \in Nat, n # 0 PROVE f[n] = b * f[n - 1]
      <3>1. n - 1 \in Nat /\ (n - 1) + 1 = n
        BY <2>1
      <3> QED
        BY <1>3, <3>1
    <2> QED
      BY <1>3, <2>1
  <1> DEFINE power == PowersOf(b)
  <1>5. power = [n \in Nat |-> IF n = 0 THEN 1 ELSE b * power[n - 1]]
    BY <1>4 DEF PowersOf
  <1> HIDE DEF power
  <1> DEFINE S == {n \in Nat : power[n] \in Nat}
  <1>6. Nat \subseteq S
    <2>1. 0 \in S
      BY <1>5
    <2>2. ASSUME NEW n \in Nat, n \in S PROVE n + 1 \in S
      <3>1. power[n + 1] = b * power[n]
        BY <1>5
      <3> QED
        BY <2>2, <3>1
    <2> HIDE DEF S
    <2> QED
      BY <2>1, <2>2, NatSetInduction
  <1>7. power \in [Nat -> Nat]
    <2>1. \A n \in Nat : power[n] \in Nat
      BY <1>6
    <2>2. power = [n \in Nat |-> power[n]]
      BY <1>5
    <2> QED
      BY <2>1, <2>2
  <1>8. power[0] = 1 /\ \A n \in Nat : power[n + 1] = b * power[n]
    BY <1>5
  <1> QED
    BY <1>7, <1>8 DEF power

LEMMA PowersArePositive ==
    ASSUME NEW b \in Nat \ {0}, NEW n \in Nat
    PROVE  PowersOf(b)[n] \in Nat \ {0}
  <1> DEFINE S == {k \in Nat : PowersOf(b)[k] \in Nat \ {0}}
  <1>0. b \in Nat
    OBVIOUS
  <1>1. 0 \in S
    <2>1. PowersOf(b)[0] = 1
      BY <1>0, PowersOfDef
    <2> QED
      BY <2>1
  <1>2. ASSUME NEW k \in Nat, k \in S PROVE k + 1 \in S
    <2> DEFINE p == PowersOf(b)[k]
    <2>1. p \in Nat \ {0} /\ PowersOf(b)[k + 1] = b * p
      BY <1>0, <1>2, PowersOfDef
    <2> HIDE DEF p
    <2>2. b * p \in Nat \ {0}
      BY <2>1
    <2> QED
      BY <2>1, <2>2
  <1> HIDE DEF S
  <1>3. n \in S
    BY <1>1, <1>2, NatSetInduction
  <1> QED
    BY <1>3 DEF S

\* The sum of the first n values of a function.
LEMMA TotalDef ==
    ASSUME NEW n \in Nat, NEW f \in [0 .. n - 1 -> Int]
    PROVE  \E total \in [0 .. n -> Int] :
             /\ total[0] = 0
             /\ \A k \in 0 .. n - 1 : total[k + 1] = total[k] + f[k]
             /\ Total(f, n) = total[n]
  <1> DEFINE T == [p \in Int \X Nat |-> IF p[2] \in 0 .. n - 1 THEN p[1] + f[p[2]] ELSE p[1]]
  <1>1. T \in [Int \X Nat -> Int] /\ 0 \in Int
    <2>1. ASSUME NEW p \in Int \X Nat
          PROVE  (IF p[2] \in 0 .. n - 1 THEN p[1] + f[p[2]] ELSE p[1]) \in Int
      OBVIOUS
    <2> QED
      BY <2>1
  <1>2. PICK g : Iterates(g, Int, 0, T)
    <2> HIDE DEF T
    <2> QED BY <1>1, RecursiveFunction
  <1>3. g \in [Nat -> Int] /\ g[0] = 0 /\ \A k \in 0 .. n - 1 : g[k + 1] = g[k] + f[k]
    <2>1. g \in [Nat -> Int] /\ g[0] = 0 /\ \A k \in Nat : g[k + 1] = T[<<g[k], k>>]
      BY <1>2 DEF Iterates
    <2>2. ASSUME NEW k \in 0 .. n - 1 PROVE g[k + 1] = g[k] + f[k]
      <3>1. k \in Nat /\ g[k] \in Int
        BY <2>1
      <3> QED
        BY <2>1, <3>1
    <2> QED
      BY <2>1, <2>2
  <1> HIDE DEF T
  <1> DEFINE h == [k \in 0 .. n |-> g[k]]
  <1>4. h = [k \in 0 .. n |-> IF k = 0 THEN 0 ELSE h[k - 1] + f[k - 1]]
    <2>1. ASSUME NEW k \in 0 .. n, k # 0 PROVE h[k] = h[k - 1] + f[k - 1]
      <3>1. k - 1 \in 0 .. n - 1 /\ (k - 1) + 1 = k /\ k - 1 \in 0 .. n
        BY <2>1
      <3>2. g[k] = g[k - 1] + f[k - 1]
        BY <1>3, <3>1
      <3> QED
        BY <3>1, <3>2
    <2> QED
      BY <1>3, <2>1
  <1> HIDE DEF h
  <1> DEFINE Sums(t) == t = [k \in 0 .. n |-> IF k = 0 THEN 0 ELSE t[k - 1] + f[k - 1]]
             total   == CHOOSE t : Sums(t)
  <1>5. Sums(total)
    BY <1>4
  <1>6. Total(f, n) = total[n]
    BY DEF Total
  <1> HIDE DEF total
  <1>7. total[0] = 0 /\ \A k \in 0 .. n - 1 : total[k + 1] = total[k] + f[k]
    <2>1. ASSUME NEW k \in 0 .. n - 1 PROVE total[k + 1] = total[k] + f[k]
      <3>1. k + 1 \in 0 .. n /\ k + 1 # 0 /\ (k + 1) - 1 = k
        OBVIOUS
      <3> QED
        BY <1>5, <3>1
    <2> QED
      BY <1>5, <2>1
  <1> DEFINE S == {k \in Nat : k <= n => total[k] \in Int}
  <1>8. \A k \in 0 .. n : total[k] \in Int
    <2>1. 0 \in S
      BY <1>7
    <2>2. ASSUME NEW k \in Nat, k \in S PROVE k + 1 \in S
      <3>1. CASE k + 1 <= n
        <4>1. k \in 0 .. n - 1 /\ total[k] \in Int
          BY <2>2, <3>1
        <4>2. f[k] \in Int /\ total[k + 1] = total[k] + f[k]
          BY <1>7, <4>1
        <4> QED
          BY <4>1, <4>2
      <3> QED
        BY <3>1
    <2> HIDE DEF S
    <2>3. Nat \subseteq S
      BY <2>1, <2>2, NatSetInduction
    <2> QED
      BY <2>3 DEF S
  <1>9. total \in [0 .. n -> Int]
    BY <1>5, <1>8
  <1> QED
    BY <1>6, <1>7, <1>9

\* A digit in front of a number with fewer digits.
LEMMA NextDigit ==
    ASSUME NEW b \in Nat \ {0}, NEW p \in Nat \ {0}, NEW v \in 0 .. p - 1, NEW d \in 0 .. b - 1
    PROVE  v + d * p \in 0 .. b * p - 1
  <1> DEFINE e == b - 1 - d
  <1>1. e \in Nat /\ d \in Nat /\ b = d + e + 1
    OBVIOUS
  <1> HIDE DEF e
  <1>2. e * p \in Nat /\ d * p \in Nat /\ b * p = d * p + e * p + p
    BY <1>1
  <1> QED
    BY <1>2

\* What has n digits is less than the base to the power of n.
LEMMA TotalOfDigits ==
    ASSUME NEW b \in Nat \ {0}, NEW n \in Nat, NEW d \in [0 .. n - 1 -> 0 .. b - 1],
           NEW f, f = [k \in 0 .. n - 1 |-> d[k] * PowersOf(b)[k]]
    PROVE  Total(f, n) \in 0 .. PowersOf(b)[n] - 1
  <1> DEFINE p == PowersOf(b)
  <1>1. \A k \in Nat : p[k] \in Nat \ {0}
    BY PowersArePositive
  <1>2. b \in Nat
    OBVIOUS
  <1>3. p[0] = 1
    BY <1>2, PowersOfDef
  <1>4. \A k \in Nat : p[k + 1] = b * p[k]
    BY <1>2, PowersOfDef
  <1>5. f = [k \in 0 .. n - 1 |-> d[k] * p[k]]
    OBVIOUS
  <1> HIDE DEF p
  <1>6. f \in [0 .. n - 1 -> Int]
    <2>1. ASSUME NEW k \in 0 .. n - 1 PROVE d[k] * p[k] \in Int
      <3>1. d[k] \in Int /\ p[k] \in Int
        BY <1>1
      <3> QED
        BY <3>1
    <2> QED
      BY <1>5, <2>1
  <1>7. PICK total \in [0 .. n -> Int] :
          /\ total[0] = 0
          /\ \A k \in 0 .. n - 1 : total[k + 1] = total[k] + f[k]
          /\ Total(f, n) = total[n]
    BY <1>6, TotalDef
  <1> DEFINE S == {k \in Nat : k <= n => total[k] \in 0 .. p[k] - 1}
  <1>8. 0 \in S
    BY <1>3, <1>7
  <1>9. ASSUME NEW k \in Nat, k \in S PROVE k + 1 \in S
    <2>1. CASE k + 1 <= n
      <3>1. k \in 0 .. n - 1 /\ total[k] \in 0 .. p[k] - 1
        BY <1>9, <2>1
      <3>2. total[k + 1] = total[k] + d[k] * p[k]
        BY <1>5, <1>7, <3>1
      <3>3. p[k] \in Nat \ {0} /\ d[k] \in 0 .. b - 1
        BY <1>1, <3>1
      <3>4. total[k] + d[k] * p[k] \in 0 .. b * p[k] - 1
        BY <3>1, <3>3, NextDigit
      <3>5. p[k + 1] = b * p[k]
        BY <1>4
      <3>6. total[k + 1] \in 0 .. p[k + 1] - 1
        BY <3>2, <3>4, <3>5
      <3> QED
        BY <3>6
    <2> QED
      BY <2>1
  <1> HIDE DEF S
  <1>10. n \in S
    BY <1>8, <1>9, NatSetInduction
  <1> QED
    BY <1>7, <1>10 DEF S, p

-----------------------------------------------------------------------------
(* Division with remainder. *)

LEMMA DivFacts ==
    ASSUME NEW x \in Nat, NEW n \in Nat, n > 0
    PROVE  /\ x \div n \in Nat
           /\ (x \div n) * n <= x
           /\ x < (x \div n) * n + n
  BY Z3

\* A product leaves no room for a second quotient.
LEMMA ProductGap ==
    ASSUME NEW p \in Int, NEW q \in Int, NEW n \in Nat, n > 0, p < q
    PROVE  p * n + n <= q * n
  BY Z3

LEMMA QuotientUnique ==
    ASSUME NEW x \in Nat, NEW n \in Nat, n > 0, NEW q \in Nat,
           q * n <= x, x < q * n + n
    PROVE  x \div n = q
  <1> DEFINE d == x \div n
  <1>1. d \in Nat /\ d * n <= x /\ x < d * n + n
    BY DivFacts
  <1> HIDE DEF d
  <1>2. ~(d < q)
    <2> SUFFICES ASSUME d < q PROVE FALSE
      OBVIOUS
    <2>1. d * n + n <= q * n
      BY <1>1, ProductGap
    <2>2. d * n \in Nat /\ q * n \in Nat
      BY <1>1, Z3
    <2> QED
      BY <1>1, <2>1, <2>2
  <1>3. ~(q < d)
    <2> SUFFICES ASSUME q < d PROVE FALSE
      OBVIOUS
    <2>1. q * n + n <= d * n
      BY <1>1, ProductGap
    <2>2. d * n \in Nat /\ q * n \in Nat
      BY <1>1, Z3
    <2> QED
      BY <1>1, <2>1, <2>2
  <1> QED
    BY <1>1, <1>2, <1>3 DEF d

LEMMA RemainderFacts ==
    ASSUME NEW q \in Nat, NEW n \in Nat, n > 0, NEW r \in 0 .. n - 1
    PROVE  (q * n + r) \div n = q /\ (q * n + r) % n = r
  <1>1. q * n \in Nat
    BY Z3
  <1>2. q * n + r \in Nat
    BY <1>1
  <1>3. (q * n + r) \div n = q
    BY <1>1, <1>2, QuotientUnique
  <1>4. q * n + r = ((q * n + r) \div n) * n + ((q * n + r) % n)
    BY <1>2, Z3
  <1>5. (q * n + r) % n \in Nat
    BY <1>2, Z3
  <1> QED
    BY <1>1, <1>3, <1>4, <1>5

\* The remainder by one more factor has one more digit.
LEMMA OneMoreDigit ==
    ASSUME NEW v \in Nat, NEW b \in Nat \ {0}, NEW p \in Nat \ {0}
    PROVE  v % (b * p) = (v % p) + ((v \div p) % b) * p
  <1> DEFINE q == v \div p
             r == v % p
             k == q \div b
             d == q % b
  <1>1. q \in Nat /\ r \in 0 .. p - 1 /\ v = q * p + r
    BY Z3
  <1> HIDE DEF q, r
  <1>2. k \in Nat /\ d \in 0 .. b - 1 /\ q = k * b + d
    BY <1>1, Z3
  <1> HIDE DEF k, d
  <1>3. r + d * p \in 0 .. b * p - 1
    BY <1>1, <1>2, NextDigit
  <1>4. b * p \in Nat /\ b * p > 0
    BY Z3
  <1>5. v = k * (b * p) + (r + d * p)
    <2>1. q * p = k * (b * p) + d * p
      BY <1>1, <1>2, Z3
    <2>2. d * p \in Int /\ k * (b * p) \in Int
      BY <1>2, <1>4, Z3
    <2> QED
      BY <1>1, <2>1, <2>2
  <1>6. v % (b * p) = r + d * p
    <2> DEFINE n == b * p
               t == r + d * p
    <2>1. n \in Nat /\ n > 0 /\ t \in 0 .. n - 1
      BY <1>3, <1>4
    <2> HIDE DEF n, t
    <2>2. (k * n + t) % n = t
      BY <1>2, <2>1, RemainderFacts
    <2> QED
      BY <1>5, <2>2 DEF n, t
  <1> QED
    BY <1>6 DEF r, d, q

\* A digit of a number is that of its remainder by more than that digit.
LEMMA DigitOfRemainder ==
    ASSUME NEW v \in Nat, NEW b \in Nat \ {0}, NEW p \in Nat \ {0}, NEW k \in Nat \ {0}
    PROVE  ((v % (k * (b * p))) \div p) % b = (v \div p) % b
  <1> DEFINE n == k * (b * p)
             q == v \div n
             r == v % n
             d == r \div p
             low == r % p
             e == d \div b
             f == d % b
             h == q * k
  <1>1. b * p \in Nat /\ b * p > 0
    BY Z3
  <1>2. n \in Nat /\ n > 0
    <2> DEFINE m == b * p
    <2>1. m \in Nat /\ m > 0
      BY <1>1
    <2> HIDE DEF m
    <2> QED
      BY <2>1, Z3
  <1>3. q \in Nat /\ r \in Nat /\ v = q * n + r
    <2> HIDE DEF n
    <2> QED
      BY <1>2, Z3
  <1>4. q * n = (h * b) * p
    <2> HIDE DEF q
    <2> QED
      BY <1>3, Z3
  <1> HIDE DEF n, q, r
  <1>5. d \in Nat /\ low \in 0 .. p - 1 /\ r = d * p + low
    BY <1>3, Z3
  <1> HIDE DEF d, low
  <1>6. e \in Nat /\ f \in 0 .. b - 1 /\ d = e * b + f
    BY <1>5, Z3
  <1>7. h \in Nat
    BY <1>3, Z3
  <1> HIDE DEF e, f, h
  <1> DEFINE g == h * b + d
             x == h + e
  <1>8. g \in Nat /\ x \in Nat
    BY <1>5, <1>6, <1>7, Z3
  <1>9. v = g * p + low /\ g = x * b + f
    BY <1>3, <1>4, <1>5, <1>6, <1>7, Z3
  <1> HIDE DEF g, x
  <1>10. v \div p = g
    BY <1>5, <1>8, <1>9, RemainderFacts
  <1>11. g % b = f
    BY <1>6, <1>8, <1>9, RemainderFacts
  <1> QED
    BY <1>10, <1>11 DEF f, d, r, n

-----------------------------------------------------------------------------
(* Words and bytes. *)

LEMMA WordFacts == WordMod \in Nat \ {0}
  <1> DEFINE square == ByteMod * ByteMod
             half   == square * square
  <1>1. square \in Nat \ {0}
    BY MemoryAssumption
  <1>2. half \in Nat \ {0}
    <2> HIDE DEF square
    <2> QED BY <1>1
  <1>3. half * half \in Nat \ {0}
    <2> HIDE DEF half
    <2> QED BY <1>2
  <1> QED
    BY <1>3 DEF WordMod

\* The bytes of an access are no more than those of a word.
LEMMA PowersOfByteMod ==
    /\ PowersOf(ByteMod)[8] = WordMod
    /\ \A width \in {1, 2, 4, 8} : PowersOf(ByteMod)[width] \in 1 .. WordMod
  <1> DEFINE p == PowersOf(ByteMod)
             b == ByteMod
  <1>1. b \in Nat \ {0} /\ b \in Nat
    BY MemoryAssumption
  <1>2. p[0] = 1 /\ \A n \in Nat : p[n + 1] = b * p[n]
    BY <1>1, PowersOfDef
  <1>3. \A n \in Nat : p[n] \in Nat \ {0}
    BY <1>1, PowersArePositive
  <1>4. WordMod = ((b * b) * (b * b)) * ((b * b) * (b * b))
    BY DEF WordMod
  <1> HIDE DEF p, b
  <1>5. /\ p[1] = b * p[0] /\ p[2] = b * p[1] /\ p[3] = b * p[2] /\ p[4] = b * p[3]
        /\ p[5] = b * p[4] /\ p[6] = b * p[5] /\ p[7] = b * p[6] /\ p[8] = b * p[7]
    <2>1. /\ p[0 + 1] = b * p[0] /\ p[1 + 1] = b * p[1] /\ p[2 + 1] = b * p[2]
          /\ p[3 + 1] = b * p[3] /\ p[4 + 1] = b * p[4] /\ p[5 + 1] = b * p[5]
          /\ p[6 + 1] = b * p[6] /\ p[7 + 1] = b * p[7]
      BY <1>2
    <2> QED
      BY <2>1
  <1>6. \A n \in Nat : p[n] <= b * p[n]
    <2>1. ASSUME NEW q \in Nat PROVE q <= b * q
      <3>1. b - 1 \in Nat
        BY <1>1
      <3>2. (b - 1) * q \in Nat /\ b * q = (b - 1) * q + q
        BY <1>1, <3>1
      <3> QED
        BY <1>1, <3>2
    <2> QED
      BY <1>3, <2>1
  <1>7. /\ p[1] <= p[2] /\ p[2] <= p[3] /\ p[3] <= p[4] /\ p[4] <= p[5]
        /\ p[5] <= p[6] /\ p[6] <= p[7] /\ p[7] <= p[8]
    BY <1>5, <1>6
  <1>8. p[8] = WordMod
    <2> DEFINE s == b * b
               h == s * s
    <2>1. s \in Nat
      BY <1>1
    <2>2. p[2] = s
      BY <1>1, <1>2, <1>5
    <2>3. ASSUME NEW x \in Nat PROVE b * (b * x) = s * x
      BY <1>1
    <2> HIDE DEF s
    <2>4. p[4] = s * s /\ p[6] = s * p[4] /\ p[8] = s * p[6]
      <3>1. p[4] = b * (b * p[2]) /\ p[6] = b * (b * p[4]) /\ p[8] = b * (b * p[6])
        BY <1>5
      <3>2. p[2] \in Nat /\ p[4] \in Nat /\ p[6] \in Nat
        BY <1>3
      <3> QED
        BY <2>2, <2>3, <3>1, <3>2
    <2>5. s * (s * (s * s)) = (s * s) * (s * s)
      BY <2>1
    <2> QED
      BY <1>4, <2>4, <2>5 DEF s
  <1>9. /\ p[1] \in Nat \ {0} /\ p[2] \in Nat \ {0} /\ p[3] \in Nat /\ p[4] \in Nat \ {0}
        /\ p[5] \in Nat /\ p[6] \in Nat /\ p[7] \in Nat /\ p[8] \in Nat \ {0}
    BY <1>3
  <1>10. \A width \in {1, 2, 4, 8} : p[width] \in 1 .. WordMod
    BY <1>7, <1>8, <1>9
  <1> QED
    BY <1>8, <1>10 DEF p

\* What a load reads fits in a word.
LEMMA LoadedIsAWord ==
    ASSUME NEW mem \in Memories, NEW addr \in Nat, NEW width \in {1, 2, 4, 8},
           InBounds(addr, width)
    PROVE  LoadBytes(mem, addr, width) \in Words
  <1> DEFINE d == [o \in 0 .. width - 1 |-> mem[addr + o]]
             f == [o \in 0 .. width - 1 |-> mem[addr + o] * PowersOf(ByteMod)[o]]
  <1>1. ASSUME NEW o \in 0 .. width - 1 PROVE mem[addr + o] \in 0 .. ByteMod - 1
    <2>1. addr + o \in Addresses
      BY MemoryAssumption DEF InBounds, Addresses
    <2> QED
      BY <2>1 DEF Memories, Bytes
  <1>2. d \in [0 .. width - 1 -> 0 .. ByteMod - 1]
    BY <1>1
  <1>3. f = [o \in 0 .. width - 1 |-> d[o] * PowersOf(ByteMod)[o]]
    OBVIOUS
  <1>4. LoadBytes(mem, addr, width) = Total(f, width)
    BY DEF LoadBytes
  <1>5. width \in Nat /\ ByteMod \in Nat \ {0}
    BY MemoryAssumption
  <1> HIDE DEF d, f
  <1>6. Total(f, width) \in 0 .. PowersOf(ByteMod)[width] - 1
    BY <1>2, <1>3, <1>5, TotalOfDigits
  <1>7. PowersOf(ByteMod)[width] \in 1 .. WordMod
    BY PowersOfByteMod
  <1> QED
    BY <1>4, <1>6, <1>7, WordFacts DEF Words

\* The bytes of a value.
LEMMA ValueBytes ==
    ASSUME NEW value \in Nat, NEW width \in {1, 2, 4, 8}
    PROVE  ToBytes(value, width) \in [0 .. width - 1 -> Bytes]
  <1>1. ASSUME NEW o \in 0 .. width - 1 PROVE ByteAt(value, o) \in Bytes
    <2> DEFINE p == PowersOf(ByteMod)[o]
               q == value \div p
    <2>1. p \in Nat \ {0} /\ ByteMod \in Nat \ {0}
      BY MemoryAssumption, PowersArePositive
    <2> HIDE DEF p
    <2>2. q \in Nat
      BY <2>1
    <2> HIDE DEF q
    <2>3. q % ByteMod \in 0 .. ByteMod - 1
      BY <2>1, <2>2
    <2> QED
      BY <2>3 DEF ByteAt, Bytes, p, q
  <1> QED
    BY <1>1 DEF ToBytes

\* The bytes of a value are those of its remainder by the powers of the width.
LEMMA BytesOfRemainder ==
    ASSUME NEW value \in Nat, NEW width \in {1, 2, 4, 8}
    PROVE  ToBytes(value % PowersOf(ByteMod)[width], width) = ToBytes(value, width)
  <1> DEFINE p == PowersOf(ByteMod)
             b == ByteMod
  <1>1. b \in Nat \ {0} /\ b \in Nat
    BY MemoryAssumption
  <1>2. \A n \in Nat : p[n + 1] = b * p[n]
    BY <1>1, PowersOfDef
  <1>3. \A n \in Nat : p[n] \in Nat \ {0}
    BY <1>1, PowersArePositive
  <1>4. ASSUME NEW o \in 0 .. width - 1
        PROVE  ByteAt(value % p[width], o) = ByteAt(value, o)
    <2> DEFINE S == {n \in Nat : \E k \in Nat \ {0} : p[o + 1 + n] = k * (b * p[o])}
    <2> HIDE DEF p, b
    <2>1. 0 \in S
      <3>1. p[o + 1] = b * p[o] /\ b * p[o] \in Nat /\ o + 1 + 0 = o + 1
        <4>1. p[o] \in Nat
          BY <1>3
        <4> QED
          BY <1>1, <1>2, <4>1, Z3
      <3>2. p[o + 1 + 0] = 1 * (b * p[o])
        BY <3>1
      <3> QED
        BY <3>2
    <2>2. ASSUME NEW n \in Nat, n \in S PROVE n + 1 \in S
      <3>1. PICK k \in Nat \ {0} : p[o + 1 + n] = k * (b * p[o])
        BY <2>2
      <3>2. p[o + 1 + (n + 1)] = b * p[o + 1 + n]
        <4>1. o + 1 + n \in Nat /\ o + 1 + (n + 1) = (o + 1 + n) + 1
          OBVIOUS
        <4> QED
          BY <1>2, <4>1
      <3>3. b * (k * (b * p[o])) = (b * k) * (b * p[o])
        <4>1. p[o] \in Nat
          BY <1>3
        <4> DEFINE y == p[o]
        <4> HIDE DEF y
        <4>2. b * (k * (b * y)) = (b * k) * (b * y)
          BY <1>1, <4>1, Z3 DEF y
        <4> QED
          BY <4>2 DEF y
      <3>4. b * k \in Nat \ {0}
        BY <1>1, Z3
      <3> QED
        BY <3>1, <3>2, <3>3, <3>4
    <2> HIDE DEF S
    <2>3. width - 1 - o \in S
      <3>1. width - 1 - o \in Nat
        OBVIOUS
      <3> QED
        BY <2>1, <2>2, <3>1, NatSetInduction
    <2>4. PICK k \in Nat \ {0} : p[width] = k * (b * p[o])
      <3>1. o + 1 + (width - 1 - o) = width
        OBVIOUS
      <3> QED
        BY <2>3, <3>1 DEF S
    <2>5. p[o] \in Nat \ {0}
      BY <1>3
    <2>6. ((value % p[width]) \div p[o]) % b = (value \div p[o]) % b
      <3> DEFINE y == p[o]
      <3> HIDE DEF y
      <3>1. ((value % (k * (b * y))) \div y) % b = (value \div y) % b
        BY <1>1, <2>5, DigitOfRemainder DEF y
      <3> QED
        BY <2>4, <3>1 DEF y
    <2> QED
      BY <2>6 DEF ByteAt, p, b
  <1> QED
    BY <1>4 DEF ToBytes

\* A store leaves bytes in the memory.
LEMMA StoredIsMemory ==
    ASSUME NEW mem \in Memories, NEW addr \in Nat, NEW width \in {1, 2, 4, 8}, NEW value \in Nat
    PROVE  StoreBytes(mem, addr, ToBytes(value, width)) \in Memories
  <1> DEFINE data == ToBytes(value, width)
  <1>1. data \in [0 .. width - 1 -> Bytes]
    BY ValueBytes
  <1> HIDE DEF data
  <1>2. ASSUME NEW a \in Addresses PROVE ByteAfter(a, addr, data, mem[a]) \in Bytes
    <2>1. mem[a] \in Bytes
      BY DEF Memories
    <2> QED
      BY <1>1, <2>1 DEF ByteAfter
  <1> QED
    BY <1>2 DEF StoreBytes, Memories, data

\* A load gives back what a store of the same width has written.
LEMMA LoadedAsStored ==
    ASSUME NEW mem \in Memories, NEW addr \in Nat, NEW width \in {1, 2, 4, 8},
           InBounds(addr, width), NEW value \in Nat
    PROVE  LoadBytes(StoreBytes(mem, addr, ToBytes(value, width)), addr, width)
             = value % PowersOf(ByteMod)[width]
  <1> DEFINE after == StoreBytes(mem, addr, ToBytes(value, width))
             p == PowersOf(ByteMod)
             f == [o \in 0 .. width - 1 |-> after[addr + o] * p[o]]
             g == [o \in 0 .. width - 1 |-> ByteAt(value, o) * p[o]]
  <1>0. /\ ByteMod \in Nat \ {0} /\ ByteMod \in Nat
        /\ \A k \in Nat : p[k] \in Nat \ {0}
        /\ p[0] = 1 /\ \A k \in Nat : p[k + 1] = ByteMod * p[k]
    BY MemoryAssumption, PowersArePositive, PowersOfDef
  <1>1. ASSUME NEW o \in 0 .. width - 1 PROVE after[addr + o] = ByteAt(value, o)
    <2>1. addr + o \in Addresses /\ (addr + o) - addr = o
      BY MemoryAssumption DEF InBounds, Addresses
    <2> DEFINE data == ToBytes(value, width)
    <2>2. DOMAIN data = 0 .. width - 1 /\ data[o] = ByteAt(value, o)
      BY DEF ToBytes
    <2> HIDE DEF data
    <2>3. after[addr + o] = ByteAfter(addr + o, addr, data, mem[addr + o])
      BY <2>1 DEF StoreBytes, data
    <2>4. ByteAfter(addr + o, addr, data, mem[addr + o]) = data[o]
      BY <2>1, <2>2 DEF ByteAfter
    <2> QED
      BY <2>2, <2>3, <2>4
  <1>2. LoadBytes(after, addr, width) = Total(g, width)
    <2>1. f = g
      BY <1>1
    <2> QED
      BY <2>1 DEF LoadBytes
  <1> HIDE DEF p, after
  <1>3. \A o \in 0 .. width - 1 : ByteAt(value, o) \in 0 .. ByteMod - 1
                                 /\ ByteAt(value, o) = (value \div p[o]) % ByteMod
    <2>1. ToBytes(value, width) \in [0 .. width - 1 -> Bytes]
      BY ValueBytes
    <2>2. \A o \in 0 .. width - 1 : ByteAt(value, o) = ToBytes(value, width)[o]
      BY DEF ToBytes
    <2> QED
      BY <2>1, <2>2 DEF ByteAt, p, Bytes
  <1>4. g \in [0 .. width - 1 -> Int]
    <2>1. ASSUME NEW o \in 0 .. width - 1 PROVE ByteAt(value, o) * p[o] \in Int
      <3> DEFINE x == ByteAt(value, o)
                 y == p[o]
      <3>1. x \in Int /\ y \in Int
        BY <1>0, <1>3
      <3> HIDE DEF x, y
      <3>2. x * y \in Int
        BY <3>1
      <3> QED
        BY <3>2 DEF x, y
    <2> QED
      BY <2>1
  <1>5. PICK total \in [0 .. width -> Int] :
              /\ total[0] = 0
              /\ \A k \in 0 .. width - 1 : total[k + 1] = total[k] + g[k]
              /\ Total(g, width) = total[width]
    <2>1. width \in Nat
      OBVIOUS
    <2> HIDE DEF g
    <2> QED
      BY <1>4, <2>1, TotalDef
  <1> DEFINE S == {k \in Nat : k <= width => total[k] = value % p[k]}
  <1>6. 0 \in S
    <2>1. value % 1 = 0
      BY Z3
    <2> QED
      BY <1>0, <1>5, <2>1
  <1>7. ASSUME NEW k \in Nat, k \in S PROVE k + 1 \in S
    <2> SUFFICES ASSUME k + 1 <= width PROVE total[k + 1] = value % p[k + 1]
      OBVIOUS
    <2>1. k \in 0 .. width - 1 /\ total[k] = value % p[k]
      BY <1>7
    <2>2. total[k + 1] = (value % p[k]) + ((value \div p[k]) % ByteMod) * p[k]
      BY <1>3, <1>5, <2>1
    <2>3. p[k + 1] = ByteMod * p[k] /\ p[k] \in Nat \ {0}
      BY <1>0
    <2>4. value % (ByteMod * p[k]) = (value % p[k]) + ((value \div p[k]) % ByteMod) * p[k]
      <3> DEFINE b == ByteMod
                 x == p[k]
      <3>1. b \in Nat \ {0} /\ x \in Nat \ {0}
        BY <1>0, <2>3
      <3> HIDE DEF b, x
      <3>2. value % (b * x) = (value % x) + ((value \div x) % b) * x
        BY <3>1, OneMoreDigit
      <3> QED
        BY <3>2 DEF b, x
    <2> QED
      BY <2>2, <2>3, <2>4
  <1> HIDE DEF S
  <1>8. width \in S
    BY <1>6, <1>7, NatSetInduction
  <1> QED
    BY <1>2, <1>5, <1>8 DEF S, p, after

-----------------------------------------------------------------------------
(* What one cache operation does to one cache. *)

LEMMA LinesAreANumber == NLines \in Nat
  <1>1. CASE LineBytes = 0
    BY <1>1 DEF NLines
  <1>2. CASE LineBytes # 0
    <2>1. LineBytes \in Nat /\ LineBytes > 0 /\ CapacityBytes \in Nat
      BY <1>2, CacheAssumption
    <2>2. CapacityBytes \div LineBytes \in Nat
      BY <2>1, Z3
    <2> QED
      BY <1>2, <2>2 DEF NLines
  <1> QED
    BY <1>1, <1>2

\* The index and the tag that the cache computes from an address.
LEMMA IndexAndTag ==
    ASSUME NEW addr \in Nat
    PROVE  CacheIndex(addr) \in Nat /\ CacheTag(addr) \in Nat
  <1>1. CASE NLines = 0
    BY <1>1 DEF CacheIndex, CacheTag
  <1>2. CASE NLines # 0
    <2>1. LineBytes \in Nat /\ LineBytes > 0
      BY <1>2, CacheAssumption DEF NLines
    <2>2. NLines \in Nat /\ NLines > 0
      BY <1>2, LinesAreANumber
    <2>3. addr \div LineBytes \in Nat
      BY <2>1, Z3
    <2>4. (addr \div LineBytes) % NLines \in Nat
      BY <2>2, <2>3, Z3
    <2>5. (addr \div LineBytes) \div NLines \in Nat
      BY <2>2, <2>3, Z3
    <2> QED
      BY <1>2, <2>4, <2>5 DEF CacheIndex, CacheTag
  <1> QED
    BY <1>1, <1>2

\* Installing a line keeps a cache a cache.
LEMMA SetLineType ==
    ASSUME NEW lines \in CacheState, NEW addr, NEW line \in CacheLine
    PROVE  SetLine(lines, addr, line) \in CacheState
  BY DEF SetLine, CacheState

LEMMA InstalledLineType ==
    ASSUME NEW addr \in Nat, NEW s \in MsiStates
    PROVE  /\ FilledLine(addr, s) \in CacheLine
           /\ InvalidLine(CacheTag(addr)) \in CacheLine
  BY IndexAndTag DEF FilledLine, InvalidLine, CacheLine, MsiStates

LEMMA AccessType ==
    ASSUME NEW lines \in CacheState, NEW addr \in Nat
    PROVE  /\ AccessLoad(lines, addr) \in CacheState
           /\ AccessStore(lines, addr) \in CacheState
           /\ \A isWriter \in BOOLEAN :
                StoreCommitTransition(lines, addr, isWriter) \in CacheState
  <1>1. FilledLine(addr, "Shared") \in CacheLine
    BY InstalledLineType DEF MsiStates
  <1>2. FilledLine(addr, "Modified") \in CacheLine
    BY InstalledLineType DEF MsiStates
  <1>3. InvalidLine(CacheTag(addr)) \in CacheLine
    BY InstalledLineType DEF MsiStates
  <1> QED
    BY <1>1, <1>2, <1>3, SetLineType
    DEF AccessLoad, AccessStore, StoreCommitTransition
=============================================================================
