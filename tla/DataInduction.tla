--------------------------- MODULE DataInduction ---------------------------
(***************************************************************************)
(* Induction for the proofs about queues and tables.  The order of the     *)
(* natural numbers is well founded (NatLessThanWellFounded), and so a set  *)
(* of numbers that is closed under the successor is all of them.  Stated   *)
(* with a set for the property, it needs no operator as a parameter and a  *)
(* proof can use it with the set of the numbers for which the property     *)
(* holds.                                                                  *)
(***************************************************************************)
EXTENDS Integers, FiniteSetsExt, SequencesExt, WellFoundedInduction, SequenceTheorems, TLAPS

\* The order of the numbers is well founded, with the relation written out.
LEMMA NatOrder == IsWellFoundedOn({ss \in Nat \X Nat : ss[1] < ss[2]}, Nat)
BY NatLessThanWellFounded DEF OpToRel

\* A set of numbers has a least one.
LEMMA LeastNumber ==
    ASSUME NEW T, T \subseteq Nat, T # {}
    PROVE  \E m \in T : \A k \in T : m <= k
<1>1. PICK x \in T : \A y \in T : ~(<<y, x>> \in {ss \in Nat \X Nat : ss[1] < ss[2]})
  BY NatOrder, WFMin
<1>2. \A y \in T : ~(y < x)
  BY <1>1
<1> QED
  BY <1>2

\* Induction over the numbers 0, 1, ...
LEMMA NumberInduction ==
    ASSUME NEW T, 0 \in T, \A n \in Nat : n \in T => n + 1 \in T
    PROVE  Nat \subseteq T
<1> SUFFICES ASSUME Nat \ T # {} PROVE FALSE
  OBVIOUS
<1>1. PICK m \in Nat \ T : \A k \in Nat \ T : m <= k
  BY LeastNumber
<1>2. m # 0 /\ m - 1 \in Nat /\ m - 1 \in T
  BY <1>1
<1> QED
  BY <1>1, <1>2

\* Induction over the numbers a, ..., b.
LEMMA IntervalInduction ==
    ASSUME NEW a \in Int, NEW b \in Int, NEW T, a \in T,
           \A n \in a..(b - 1) : n \in T => n + 1 \in T
    PROVE  a..b \subseteq T
<1> DEFINE U == {n \in Nat : a + n > b \/ a + n \in T}
<1>1. 0 \in U
  OBVIOUS
<1>2. ASSUME NEW n \in Nat, n \in U
      PROVE  n + 1 \in U
  <2>1. CASE a + n >= b
    BY <2>1
  <2>2. CASE a + n < b
    <3>1. a + n \in T /\ a + n \in a..(b - 1)
      BY <1>2, <2>2
    <3>2. a + n + 1 \in T
      BY <3>1
    <3> QED
      BY <3>2
  <2> QED
    BY <2>1, <2>2
<1> HIDE DEF U
<1>3. Nat \subseteq U
  BY <1>1, <1>2, NumberInduction
<1>4. ASSUME NEW i \in a..b
      PROVE  i \in T
  <2>1. i - a \in U
    BY <1>3
  <2> QED
    BY <2>1 DEF U
<1> QED
  BY <1>4

\* Min of FiniteSetsExt is the least number of a set.
LEMMA MinIsLeast ==
    ASSUME NEW T, T \subseteq Nat, T # {}
    PROVE  Min(T) \in T /\ \A k \in T : Min(T) <= k
<1>1. PICK m \in T : \A k \in T : m <= k
  BY LeastNumber
<1> QED
  BY <1>1 DEF Min

\* Max of FiniteSetsExt is the greatest number of a set that has a bound.
LEMMA MaxIsGreatest ==
    ASSUME NEW T, T \subseteq Int, T # {}, NEW b \in Int, \A k \in T : k <= b
    PROVE  Max(T) \in T /\ \A k \in T : k <= Max(T)
<1> DEFINE U == {n \in Nat : b - n \in T}
<1>1. \A k \in T : b - k \in U
  OBVIOUS
<1>2. U \subseteq Nat /\ U # {}
  BY <1>1
<1>3. PICK m \in U : \A n \in U : m <= n
  BY <1>2, LeastNumber
<1>4. b - m \in T /\ \A k \in T : b - m >= k
  BY <1>1, <1>3
<1> QED
  BY <1>4 DEF Max

\* Among some of the numbers below N there is one with the greatest value.
LEMMA GreatestValue ==
    ASSUME NEW N \in Nat, NEW f \in [0..(N - 1) -> Nat], NEW S, S \subseteq 0..(N - 1), S # {}
    PROVE  \E i \in S : \A j \in S : f[j] <= f[i]
<1> DEFINE Top(m) == \A V \in SUBSET (0..(m - 1)) : V # {} => \E i \in V : \A j \in V : f[j] <= f[i]
           U == {m \in Nat : m <= N => Top(m)}
<1>1. 0 \in U
  <2>1. 0..(0 - 1) = {}
    OBVIOUS
  <2>2. Top(0)
    BY <2>1
  <2> HIDE DEF Top
  <2> QED
    BY <2>2
<1>2. ASSUME NEW m \in Nat, m \in U
      PROVE  m + 1 \in U
  <2>0. m + 1 \in Nat
    OBVIOUS
  <2>1. SUFFICES ASSUME m + 1 <= N PROVE Top(m + 1)
    <3> HIDE DEF Top
    <3> QED
      BY <2>0, Zenon
  <2>2. Top(m)
    BY <1>2, <2>1
  <2> SUFFICES ASSUME NEW V \in SUBSET (0..m), V # {}
               PROVE  \E i \in V : \A j \in V : f[j] <= f[i]
    <3>1. (m + 1) - 1 = m
      OBVIOUS
    <3> QED
      BY <3>1
  <2>3. \A i \in 0..m : f[i] \in Nat
    BY <2>1
  <2>4. CASE V \ {m} = {}
    <3>1. V = {m}
      BY <2>4
    <3> QED
      BY <2>3, <3>1
  <2>5. CASE V \ {m} # {}
    <3>1. V \ {m} \in SUBSET (0..(m - 1))
      OBVIOUS
    <3>2. PICK i \in V \ {m} : \A j \in V \ {m} : f[j] <= f[i]
      BY <2>2, <2>5, <3>1
    <3>3. CASE m \in V /\ f[i] <= f[m]
      <4>1. \A j \in V : f[j] <= f[m]
        <5> TAKE j \in V
        <5>1. j = m \/ f[j] <= f[i]
          BY <3>2
        <5> QED
          BY <2>3, <3>2, <3>3, <5>1
      <4> QED
        BY <3>3, <4>1
    <3>4. CASE ~(m \in V /\ f[i] <= f[m])
      <4>1. \A j \in V : f[j] <= f[i]
        <5> TAKE j \in V
        <5>1. j = m \/ f[j] <= f[i]
          BY <3>2
        <5> QED
          BY <2>3, <3>2, <3>4, <5>1
      <4> QED
        BY <3>2, <4>1
    <3> QED
      BY <3>3, <3>4
  <2> QED
    BY <2>4, <2>5
<1> HIDE DEF U
<1>3. N \in U
  BY <1>1, <1>2, NumberInduction
<1> QED
  BY <1>3 DEF U

\* g are the states through which the steps F[1], ..., F[N] go from x.
Walk(g, N, T, x, F) == g \in [0..N -> T] /\ g[0] = x /\ \A n \in 1..N : g[n] = F[n][g[n - 1]]

LEMMA Repeated ==
    ASSUME NEW N \in Nat, NEW T, NEW x \in T, NEW F \in [1..N -> [T -> T]]
    PROVE  \E g : Walk(g, N, T, x, F)
<1> DEFINE Runs(g, m) == g[0] = x /\ \A n \in 1..m : g[n] = F[n][g[n - 1]]
           U == {m \in Nat : m <= N => \E g \in [0..m -> T] : Runs(g, m)}
<1>1. 0 \in U
  <2>1. Runs([n \in 0..0 |-> x], 0) /\ [n \in 0..0 |-> x] \in [0..0 -> T]
    OBVIOUS
  <2> QED
    BY <2>1, Zenon
<1>2. ASSUME NEW m \in Nat, m \in U
      PROVE  m + 1 \in U
  <2> HIDE DEF Runs
  <2>0. m + 1 \in Nat
    OBVIOUS
  <2> SUFFICES ASSUME m + 1 <= N
               PROVE  \E g \in [0..(m + 1) -> T] : Runs(g, m + 1)
    BY <2>0, Zenon
  <2>1. PICK g \in [0..m -> T] : Runs(g, m)
    <3>1. m <= N
      OBVIOUS
    <3> QED
      BY <1>2, <3>1
  <2> USE DEF Runs
  <2> DEFINE y == F[m + 1][g[m]]
             k == [n \in 0..(m + 1) |-> IF n = m + 1 THEN y ELSE g[n]]
  <2>2. m + 1 \in 1..N /\ g[m] \in T
    OBVIOUS
  <2>3. y \in T
    BY <2>2
  <2> HIDE DEF y
  <2>4. k \in [0..(m + 1) -> T] /\ k[m + 1] = y /\ \A n \in 0..m : k[n] = g[n]
    BY <2>3
  <2> HIDE DEF k
  <2>5. \A n \in 1..(m + 1) : k[n] = F[n][k[n - 1]]
    <3> SUFFICES ASSUME NEW n \in 1..(m + 1)
                 PROVE  k[n] = F[n][k[n - 1]]
      OBVIOUS
    <3>1. CASE n = m + 1
      <4>1. k[n - 1] = g[m]
        BY <2>4, <3>1
      <4> QED
        BY <2>4, <3>1, <4>1 DEF y
    <3>2. CASE n # m + 1
      <4>1. n \in 1..m /\ n \in 0..m /\ n - 1 \in 0..m
        BY <3>2
      <4>2. k[n - 1] = g[n - 1] /\ k[n] = g[n]
        BY <2>4, <4>1
      <4> QED
        BY <2>1, <4>1, <4>2
    <3> QED
      BY <3>1, <3>2
  <2>6. Runs(k, m + 1)
    BY <2>1, <2>4, <2>5
  <2> QED
    BY <2>4, <2>6, Zenon
<1> HIDE DEF U
<1>3. N \in U
  BY <1>1, <1>2, NumberInduction
<1> QED
  BY <1>3 DEF U, Walk

-----------------------------------------------------------------------------
(* Sums over a table                                                       *)

\* The sum of f over 0, ..., n - 1.
SumOf(f, n) ==
    LET sum[k \in 0..n] == IF k = 0 THEN 0 ELSE sum[k - 1] + f[k - 1]
    IN  sum[n]

\* g adds up f.
AddsUp(g, f, n) == g \in [0..n -> Int] /\ g[0] = 0 /\ \A k \in 1..n : g[k] = g[k - 1] + f[k - 1]

LEMMA SumExists ==
    ASSUME NEW n \in Nat, NEW f \in [0..(n - 1) -> Int]
    PROVE  \E g : AddsUp(g, f, n)
<1> DEFINE F == [k \in 1..n |-> [x \in Int |-> x + f[k - 1]]]
           T == Int
<1>1. F \in [1..n -> [T -> T]] /\ \A k \in 1..n, x \in Int : F[k][x] = x + f[k - 1]
  <2>1. \A k \in 1..n : f[k - 1] \in Int
    OBVIOUS
  <2>2. \A k \in 1..n, x \in Int : x + f[k - 1] \in Int
    BY <2>1
  <2> QED
    BY <2>2
<1>0. 0 \in T
  OBVIOUS
<1> HIDE DEF F, T
<1>2. PICK g : Walk(g, n, T, 0, F)
  BY <1>0, <1>1, Repeated
<1>3. AddsUp(g, f, n)
  <2>1. g \in [0..n -> Int] /\ g[0] = 0 /\ \A k \in 1..n : g[k] = F[k][g[k - 1]]
    BY <1>2 DEF Walk, T
  <2>2. \A k \in 1..n : k - 1 \in 0..n /\ g[k - 1] \in Int
    BY <2>1
  <2>3. \A k \in 1..n : g[k] = g[k - 1] + f[k - 1]
    BY <1>1, <2>1, <2>2
  <2> QED
    BY <2>1, <2>3 DEF AddsUp
<1> QED
  BY <1>3

LEMMA SumAdds ==
    ASSUME NEW n \in Nat, NEW f \in [0..(n - 1) -> Int]
    PROVE  \E g : AddsUp(g, f, n) /\ SumOf(f, n) = g[n]
<1> DEFINE Is(g) == g = [k \in 0..n |-> IF k = 0 THEN 0 ELSE g[k - 1] + f[k - 1]]
           sum == CHOOSE g : Is(g)
<1>1. SumOf(f, n) = sum[n]
  BY DEF SumOf
<1>2. PICK g : AddsUp(g, f, n)
  BY SumExists
<1>3. Is(g)
  <2>1. \A k \in 0..n : g[k] = IF k = 0 THEN 0 ELSE g[k - 1] + f[k - 1]
    BY <1>2 DEF AddsUp
  <2>2. g = [k \in 0..n |-> g[k]]
    BY <1>2 DEF AddsUp
  <2> QED
    BY <2>1, <2>2
<1>4. Is(sum)
  <2> HIDE DEF Is
  <2> QED
    BY <1>3, Zenon
<1> HIDE DEF sum
<1>5. \A k \in 0..n : sum[k] = IF k = 0 THEN 0 ELSE sum[k - 1] + f[k - 1]
  BY <1>4
<1> DEFINE U == {k \in 0..n : sum[k] = g[k]}
<1>6. 0 \in U
  BY <1>2, <1>5 DEF AddsUp
<1>7. ASSUME NEW k \in 0..(n - 1), k \in U
      PROVE  k + 1 \in U
  <2>1. k + 1 \in 1..n /\ k + 1 \in 0..n /\ (k + 1) - 1 = k /\ k + 1 # 0
    OBVIOUS
  <2>2. sum[k + 1] = sum[k] + f[k]
    BY <1>5, <2>1
  <2>3. g[k + 1] = g[k] + f[k]
    BY <1>2, <2>1 DEF AddsUp
  <2> QED
    BY <1>7, <2>1, <2>2, <2>3
<1> HIDE DEF U
<1>8. 0..n \subseteq U
  <2>1. 0 \in Int /\ n \in Int
    OBVIOUS
  <2>2. \A k \in 0..(n - 1) : k \in U => k + 1 \in U
    BY <1>7
  <2> QED
    BY <1>6, <2>1, <2>2, IntervalInduction
<1>9. sum[n] = g[n]
  BY <1>8 DEF U
<1> QED
  BY <1>1, <1>2, <1>9

\* One term changes, and the sum by the difference.
LEMMA SumChanged ==
    ASSUME NEW n \in Nat, NEW f \in [0..(n - 1) -> Int], NEW i \in 0..(n - 1), NEW v \in Int,
           NEW h \in [0..(n - 1) -> Int], h[i] = v, \A k \in 0..(n - 1) : k # i => h[k] = f[k]
    PROVE  SumOf(h, n) = SumOf(f, n) - f[i] + v /\ SumOf(f, n) \in Int /\ SumOf(h, n) \in Int
<1>1. PICK g : AddsUp(g, f, n) /\ SumOf(f, n) = g[n]
  BY SumAdds
<1>2. PICK e : AddsUp(e, h, n) /\ SumOf(h, n) = e[n]
  BY SumAdds
<1> DEFINE U == {k \in 0..n : e[k] = IF k <= i THEN g[k] ELSE g[k] - f[i] + v}
<1>3. 0 \in U
  <2>1. g[0] = 0 /\ e[0] = 0 /\ 0 <= i
    BY <1>1, <1>2 DEF AddsUp
  <2> QED
    BY <2>1
<1>4. ASSUME NEW k \in 0..(n - 1), k \in U
      PROVE  k + 1 \in U
  <2>1. k + 1 \in 1..n /\ (k + 1) - 1 = k /\ k \in 0..n /\ k + 1 \in 0..n
    OBVIOUS
  <2>2. g[k + 1] = g[k] + f[k] /\ g[k] \in Int /\ e[k + 1] = e[k] + h[k] /\ e[k] \in Int
        /\ f[k] \in Int /\ f[i] \in Int
    BY <1>1, <1>2, <2>1 DEF AddsUp
  <2>3. e[k] = IF k <= i THEN g[k] ELSE g[k] - f[i] + v
    BY <1>4
  <2>4. CASE k = i
    <3>1. e[k + 1] = g[k] + v /\ ~(k + 1 <= i)
      BY <2>2, <2>3, <2>4
    <3>2. e[k + 1] = g[k + 1] - f[i] + v
      BY <2>2, <2>4, <3>1
    <3> QED
      BY <2>1, <3>1, <3>2
  <2>5. CASE k # i
    <3>1. h[k] = f[k] /\ (k + 1 <= i <=> k <= i)
      BY <2>5
    <3>2. e[k + 1] = IF k <= i THEN g[k + 1] ELSE g[k + 1] - f[i] + v
      BY <2>2, <2>3, <3>1
    <3> QED
      BY <2>1, <3>1, <3>2
  <2> QED
    BY <2>4, <2>5
<1> HIDE DEF U
<1>5. 0..n \subseteq U
  <2>1. 0 \in Int /\ n \in Int
    OBVIOUS
  <2>2. \A k \in 0..(n - 1) : k \in U => k + 1 \in U
    BY <1>4
  <2> QED
    BY <1>3, <2>1, <2>2, IntervalInduction
<1>6. e[n] = g[n] - f[i] + v
  BY <1>5 DEF U
<1>7. e[n] \in Int /\ g[n] \in Int
  BY <1>1, <1>2 DEF AddsUp
<1> QED
  BY <1>1, <1>2, <1>6, <1>7

\* Nothing adds up to 0.
LEMMA SumNothing ==
    ASSUME NEW n \in Nat, NEW f \in [0..(n - 1) -> Int], \A i \in 0..(n - 1) : f[i] = 0
    PROVE  SumOf(f, n) = 0
<1>1. PICK g : AddsUp(g, f, n) /\ SumOf(f, n) = g[n]
  BY SumAdds
<1> DEFINE U == {k \in 0..n : g[k] = 0}
<1>2. 0 \in U
  <2>1. g[0] = 0
    BY <1>1 DEF AddsUp
  <2> QED
    BY <2>1
<1>3. ASSUME NEW k \in 0..(n - 1), k \in U
      PROVE  k + 1 \in U
  <2>1. k + 1 \in 1..n /\ (k + 1) - 1 = k /\ k + 1 \in 0..n
    OBVIOUS
  <2>2. g[k + 1] = g[k] + f[k]
    BY <1>1, <2>1 DEF AddsUp
  <2> QED
    BY <1>3, <2>1, <2>2
<1> HIDE DEF U
<1>4. 0..n \subseteq U
  <2>1. 0 \in Int /\ n \in Int
    OBVIOUS
  <2>2. \A k \in 0..(n - 1) : k \in U => k + 1 \in U
    BY <1>3
  <2> QED
    BY <1>2, <2>1, <2>2, IntervalInduction
<1> QED
  BY <1>1, <1>4 DEF U

\* One term goes, and the sum is less by it.
LEMMA SumWithout ==
    ASSUME NEW n \in Nat \ {0}, NEW f \in [0..(n - 1) -> Int], NEW i \in 0..(n - 1),
           NEW h \in [0..(n - 2) -> Int],
           \A k \in 0..(n - 2) : h[k] = IF k < i THEN f[k] ELSE f[k + 1]
    PROVE  SumOf(h, n - 1) = SumOf(f, n) - f[i] /\ SumOf(h, n - 1) \in Int /\ SumOf(f, n) \in Int
<1>0. n - 1 \in Nat /\ (n - 1) - 1 = n - 2
  OBVIOUS
<1>1. PICK g : AddsUp(g, f, n) /\ SumOf(f, n) = g[n]
  BY SumAdds
<1>2. PICK e : AddsUp(e, h, n - 1) /\ SumOf(h, n - 1) = e[n - 1]
  BY <1>0, SumAdds
<1>3. /\ \A k \in 0..n : g[k] \in Int
      /\ \A k \in 0..(n - 1) : e[k] \in Int
      /\ g[0] = 0 /\ e[0] = 0
      /\ \A k \in 0..(n - 1) : g[k + 1] = g[k] + f[k]
      /\ \A k \in 0..(n - 2) : e[k + 1] = e[k] + h[k]
  <2>1. \A k \in 0..(n - 1) : k + 1 \in 1..n /\ (k + 1) - 1 = k
    OBVIOUS
  <2>2. \A k \in 0..(n - 2) : k + 1 \in 1..(n - 1) /\ (k + 1) - 1 = k
    OBVIOUS
  <2>3. \A k \in 0..(n - 1) : g[k + 1] = g[k] + f[k]
    BY <1>1, <2>1 DEF AddsUp
  <2>4. \A k \in 0..(n - 2) : e[k + 1] = e[k] + h[k]
    BY <1>2, <2>2 DEF AddsUp
  <2> QED
    BY <1>1, <1>2, <2>3, <2>4 DEF AddsUp
<1> DEFINE U == {k \in 0..(n - 1) : e[k] = IF k <= i THEN g[k] ELSE g[k + 1] - f[i]}
<1>4. 0 \in U
  BY <1>3
<1>5. ASSUME NEW k \in 0..((n - 1) - 1), k \in U
      PROVE  k + 1 \in U
  <2>1. k \in 0..(n - 2) /\ k \in 0..(n - 1) /\ k + 1 \in 0..(n - 1) /\ f[k] \in Int /\ f[k + 1] \in Int /\ f[i] \in Int
    BY <1>0
  <2>2. e[k + 1] = e[k] + h[k] /\ g[k + 1] = g[k] + f[k] /\ g[(k + 1) + 1] = g[k + 1] + f[k + 1]
    BY <1>3, <2>1
  <2>3. g[k] \in Int /\ g[k + 1] \in Int /\ e[k] \in Int
    BY <1>3, <2>1
  <2>0. /\ e[k] = IF k <= i THEN g[k] ELSE g[k + 1] - f[i]
        /\ h[k] = IF k < i THEN f[k] ELSE f[k + 1]
    BY <1>5, <2>1
  <2> SUFFICES e[k + 1] = IF k + 1 <= i THEN g[k + 1] ELSE g[(k + 1) + 1] - f[i]
    BY <2>1
  <2> HIDE DEF U
  <2>4. CASE k < i
    BY <2>0, <2>1, <2>2, <2>3, <2>4
  <2>5. CASE k = i
    <3>1. e[k] = g[k] /\ h[k] = f[k + 1] /\ ~(k + 1 <= i)
      BY <2>0, <2>1, <2>5
    <3>2. e[k + 1] = g[k] + f[k + 1] /\ g[(k + 1) + 1] = (g[k] + f[k]) + f[k + 1]
      BY <2>2, <3>1
    <3> DEFINE a == g[(k + 1) + 1]
               b == e[k + 1]
               c == g[k]
               d == f[k]
               q == f[k + 1]
    <3>3. b = c + q /\ a = (c + d) + q /\ c \in Int /\ d \in Int /\ q \in Int
      BY <2>1, <2>3, <3>2
    <3> HIDE DEF a, b, c, d, q
    <3>4. b = a - d
      BY <3>3
    <3>5. b = a - f[i]
      BY <2>5, <3>4 DEF d
    <3> QED
      BY <3>1, <3>5 DEF a, b
  <2>6. CASE k > i
    <3>1. e[k] = g[k + 1] - f[i] /\ h[k] = f[k + 1] /\ ~(k + 1 <= i)
      BY <2>0, <2>1, <2>6
    <3>2. e[k + 1] = g[k + 1] - f[i] + f[k + 1] /\ g[k + 1] \in Int /\ g[(k + 1) + 1] = g[k + 1] + f[k + 1]
      BY <2>2, <2>3, <3>1
    <3>3. e[k + 1] = g[(k + 1) + 1] - f[i]
      BY <2>1, <3>2
    <3> QED
      BY <3>1, <3>3
  <2> QED
    BY <2>4, <2>5, <2>6
<1> HIDE DEF U
<1>6. 0..(n - 1) \subseteq U
  <2>1. 0 \in Int /\ n - 1 \in Int
    OBVIOUS
  <2>2. \A k \in 0..((n - 1) - 1) : k \in U => k + 1 \in U
    BY <1>5
  <2> QED
    BY <1>4, <2>1, <2>2, IntervalInduction
<1>7. e[n - 1] = IF n - 1 <= i THEN g[n - 1] ELSE g[(n - 1) + 1] - f[i]
  BY <1>0, <1>6 DEF U
<1>8. g[n] = g[n - 1] + f[n - 1] /\ g[n] \in Int /\ g[n - 1] \in Int /\ e[n - 1] \in Int /\ f[i] \in Int
  BY <1>0, <1>3
<1>9. e[n - 1] = g[n] - f[i]
  <2>1. CASE n - 1 <= i
    <3>1. i = n - 1
      BY <2>1
    <3> QED
      BY <1>7, <1>8, <2>1, <3>1
  <2>2. CASE ~(n - 1 <= i)
    BY <1>7, <1>8, <2>2
  <2> QED
    BY <2>1, <2>2
<1> QED
  BY <1>1, <1>2, <1>8, <1>9

\* The sum of what is not negative is not, and no term is more than it.
LEMMA SumOfNaturals ==
    ASSUME NEW n \in Nat, NEW f \in [0..(n - 1) -> Nat]
    PROVE  SumOf(f, n) \in Nat
<1>0. f \in [0..(n - 1) -> Int]
  OBVIOUS
<1>1. PICK g : AddsUp(g, f, n) /\ SumOf(f, n) = g[n]
  BY <1>0, SumAdds
<1> DEFINE U == {k \in 0..n : g[k] \in Nat}
<1>2. 0 \in U
  BY <1>1 DEF AddsUp
<1>3. ASSUME NEW k \in 0..(n - 1), k \in U
      PROVE  k + 1 \in U
  <2>1. k + 1 \in 1..n /\ (k + 1) - 1 = k
    OBVIOUS
  <2>2. g[k + 1] = g[k] + f[k]
    BY <1>1, <2>1 DEF AddsUp
  <2> QED
    BY <1>3, <2>1, <2>2
<1> HIDE DEF U
<1>4. 0..n \subseteq U
  <2>1. 0 \in Int /\ n \in Int
    OBVIOUS
  <2>2. \A k \in 0..(n - 1) : k \in U => k + 1 \in U
    BY <1>3
  <2> QED
    BY <1>2, <2>1, <2>2, IntervalInduction
<1> QED
  BY <1>1, <1>4 DEF U

LEMMA SumAtLeast ==
    ASSUME NEW n \in Nat \ {0}, NEW f \in [0..(n - 1) -> Nat], NEW i \in 0..(n - 1)
    PROVE  SumOf(f, n) \in Nat /\ f[i] <= SumOf(f, n)
<1> DEFINE h == [k \in 0..(n - 2) |-> IF k < i THEN f[k] ELSE f[k + 1]]
           m == n - 1
<1>0. m \in Nat /\ m - 1 = n - 2 /\ n \in Nat
  OBVIOUS
<1>1. h \in [0..(n - 2) -> Nat] /\ \A k \in 0..(n - 2) : h[k] = IF k < i THEN f[k] ELSE f[k + 1]
  <2>1. \A k \in 0..(n - 2) : (IF k < i THEN f[k] ELSE f[k + 1]) \in Nat
    <3> SUFFICES ASSUME NEW k \in 0..(n - 2) PROVE (IF k < i THEN f[k] ELSE f[k + 1]) \in Nat
      OBVIOUS
    <3>1. k \in 0..(n - 1) /\ k + 1 \in 0..(n - 1)
      OBVIOUS
    <3> QED
      BY <3>1
  <2> QED
    BY <2>1
<1>2. h \in [0..(n - 2) -> Int] /\ f \in [0..(n - 1) -> Int]
  BY <1>1
<1> HIDE DEF h
<1>3. SumOf(h, n - 1) = SumOf(f, n) - f[i] /\ SumOf(f, n) \in Int
  BY <1>1, <1>2, SumWithout
<1>4. SumOf(h, m) \in Nat
  <2>1. h \in [0..(m - 1) -> Nat]
    BY <1>0, <1>1
  <2> HIDE DEF m
  <2> QED
    BY <1>0, <2>1, SumOfNaturals
<1>5. SumOf(f, n) \in Nat
  BY <1>0, SumOfNaturals
<1>6. f[i] \in Nat /\ f \in [0..(n - 1) -> Nat]
  OBVIOUS
<1> QED
  BY <1>3, <1>4, <1>5, <1>6

-----------------------------------------------------------------------------
(* Sequences                                                               *)

\* The elements of two sequences that are joined.
LEMMA Joined ==
    ASSUME NEW S, NEW u \in Seq(S), NEW v \in Seq(S), NEW m, NEW n, m = Len(u), n = Len(v)
    PROVE  /\ m \in Nat /\ n \in Nat
           /\ u \o v \in Seq(S) /\ Len(u \o v) = m + n
           /\ \A i \in 1..m : (u \o v)[i] = u[i]
           /\ \A i \in 1..n : (u \o v)[m + i] = v[i]
           /\ \A i \in 1..(m + n) : i \in 1..m \/ (i - m \in 1..n /\ (u \o v)[i] = v[i - m])
<1>1. m \in Nat /\ n \in Nat
  BY LenProperties
<1>2. /\ u \o v \in Seq(S) /\ Len(u \o v) = m + n
      /\ \A i \in 1..(m + n) : (u \o v)[i] = IF i <= m THEN u[i] ELSE v[i - m]
  BY ConcatProperties
<1> DEFINE c == u \o v
<1> HIDE DEF c
<1>3. \A i \in 1..m : c[i] = u[i]
  BY <1>1, <1>2 DEF c
<1>4. \A i \in 1..n : c[m + i] = v[i]
  <2> SUFFICES ASSUME NEW i \in 1..n
               PROVE  c[m + i] = v[i]
    OBVIOUS
  <2>1. m + i \in 1..(m + n) /\ ~(m + i <= m) /\ m + i - m = i
    BY <1>1
  <2> QED
    BY <1>2, <2>1 DEF c
<1>5. \A i \in 1..(m + n) : i \in 1..m \/ (i - m \in 1..n /\ c[i] = v[i - m])
  BY <1>1, <1>2 DEF c
<1> QED
  BY <1>1, <1>2, <1>3, <1>4, <1>5 DEF c

\* The elements of a part of a sequence.
LEMMA Part ==
    ASSUME NEW S, NEW q \in Seq(S), NEW m \in 0..Len(q)
    PROVE  /\ Len(q) \in Nat /\ m \in Nat /\ m <= Len(q)
           /\ SubSeq(q, 1, m) \in Seq(S) /\ Len(SubSeq(q, 1, m)) = m
           /\ \A i \in 1..m : SubSeq(q, 1, m)[i] = q[i]
           /\ SubSeq(q, m + 1, Len(q)) \in Seq(S)
           /\ Len(SubSeq(q, m + 1, Len(q))) = Len(q) - m
           /\ \A i \in 1..(Len(q) - m) : SubSeq(q, m + 1, Len(q))[i] = q[m + i]
           /\ SubSeq(q, 1, m) \o SubSeq(q, m + 1, Len(q)) = q
<1> DEFINE n == Len(q)
<1>1. n \in Nat /\ m \in Nat /\ m <= n
  BY LenProperties
<1>2. \A i \in 1..n : q[i] \in S
  BY ElementOfSeq
<1> HIDE DEF n
<1> DEFINE l == SubSeq(q, 1, m)
           r == SubSeq(q, m + 1, n)
<1>3. l \in Seq(S) /\ Len(l) = m /\ \A i \in 1..m : l[i] = q[i]
  <2>1. \A i \in 1..m : q[i] \in S
    BY <1>1, <1>2
  <2>2. l \in Seq(S) /\ Len(l) = (IF 1 <= m THEN m - 1 + 1 ELSE 0)
        /\ \A i \in 1..(m - 1 + 1) : l[i] = q[1 + i - 1]
    BY <1>1, <2>1, SubSeqProperties
  <2> HIDE DEF l
  <2> QED
    BY <1>1, <2>2
<1>4. r \in Seq(S) /\ Len(r) = n - m /\ \A i \in 1..(n - m) : r[i] = q[m + i]
  <2> DEFINE k == m + 1
  <2>1. k \in Int /\ n \in Int /\ \A i \in k..n : q[i] \in S
    BY <1>1, <1>2
  <2> HIDE DEF k
  <2>2. /\ SubSeq(q, k, n) \in Seq(S)
        /\ Len(SubSeq(q, k, n)) = (IF k <= n THEN n - k + 1 ELSE 0)
        /\ \A i \in 1..(n - k + 1) : SubSeq(q, k, n)[i] = q[k + i - 1]
    BY <2>1, SubSeqProperties
  <2>3. r = SubSeq(q, k, n)
    BY DEF k
  <2> HIDE DEF r
  <2>4. \A i \in 1..(n - m) : i \in 1..(n - k + 1) /\ k + i - 1 = m + i
    BY <1>1 DEF k
  <2>5. Len(r) = n - m
    BY <1>1, <2>2, <2>3 DEF k
  <2> QED
    BY <2>2, <2>3, <2>4, <2>5
<1>5. l \o r = q
  <2> HIDE DEF l, r
  <2> DEFINE d == n - m
  <2>0. d \in Nat /\ m + d = n
    BY <1>1
  <2>4. l \in Seq(S) /\ r \in Seq(S) /\ m = Len(l) /\ d = Len(r)
    BY <1>3, <1>4
  <2> HIDE DEF d
  <2>1. /\ l \o r \in Seq(S) /\ Len(l \o r) = m + d
        /\ \A i \in 1..m : (l \o r)[i] = l[i]
        /\ \A i \in 1..(m + d) :
              i \in 1..m \/ (i - m \in 1..d /\ (l \o r)[i] = r[i - m])
    BY <2>4, Joined
  <2>2. \A i \in 1..n : (l \o r)[i] = q[i]
    <3> SUFFICES ASSUME NEW i \in 1..n
                 PROVE  (l \o r)[i] = q[i]
      OBVIOUS
    <3>1. i \in 1..(m + d)
      BY <2>0
    <3>2. CASE i \in 1..m
      BY <1>3, <2>1, <3>2
    <3>3. CASE i \notin 1..m
      <4>1. i - m \in 1..(n - m) /\ (l \o r)[i] = r[i - m]
        BY <2>1, <3>1, <3>3 DEF d
      <4>2. r[i - m] = q[m + (i - m)] /\ m + (i - m) = i
        BY <1>1, <1>4, <4>1
      <4> QED
        BY <4>1, <4>2
    <3> QED
      BY <3>2, <3>3
  <2>3. Len(l \o r) = n
    BY <2>0, <2>1
  <2> QED
    BY <2>1, <2>2, <2>3, SeqEqual DEF n
<1> QED
  BY <1>1, <1>3, <1>4, <1>5 DEF l, r, n

\* Each element of two sequences that are joined is one of the first or of the second.
LEMMA JoinedFrom ==
    ASSUME NEW S, NEW u \in Seq(S), NEW v \in Seq(S), NEW i \in 1..Len(u \o v)
    PROVE  \/ \E j \in 1..Len(u) : (u \o v)[i] = u[j]
           \/ \E j \in 1..Len(v) : (u \o v)[i] = v[j]
<1> DEFINE m == Len(u)
           n == Len(v)
           q == u \o v
<1>1. /\ m \in Nat /\ n \in Nat /\ Len(q) = m + n
      /\ \A k \in 1..m : q[k] = u[k]
      /\ \A k \in 1..(m + n) : k \in 1..m \/ (k - m \in 1..n /\ q[k] = v[k - m])
  BY Joined
<1> HIDE DEF m, n
<1>2. i \in 1..(m + n)
  BY <1>1
<1> HIDE DEF q
<1>3. CASE i \in 1..m
  BY <1>1, <1>3 DEF m, q
<1>4. CASE i - m \in 1..n /\ q[i] = v[i - m]
  BY <1>4 DEF n, q
<1> QED
  BY <1>1, <1>2, <1>3, <1>4

\* An element in front of a sequence.
LEMMA OneInFront ==
    ASSUME NEW S, NEW w \in Seq(S), NEW e \in S
    PROVE  /\ <<e>> \o w \in Seq(S) /\ Len(<<e>> \o w) = Len(w) + 1
           /\ (<<e>> \o w)[1] = e
           /\ \A i \in 2..(Len(w) + 1) : (<<e>> \o w)[i] = w[i - 1]
<1> DEFINE h == <<e>>
           m == Len(h)
           n == Len(w)
<1>1. m = 1 /\ h[1] = e
  OBVIOUS
<1>0. h \in Seq(S) /\ m = Len(h) /\ n = Len(w)
  OBVIOUS
<1> HIDE DEF h, m, n
<1>2. /\ m \in Nat /\ n \in Nat
      /\ h \o w \in Seq(S) /\ Len(h \o w) = m + n
      /\ \A i \in 1..m : (h \o w)[i] = h[i]
      /\ \A i \in 1..(m + n) : i \in 1..m \/ (i - m \in 1..n /\ (h \o w)[i] = w[i - m])
  BY <1>0, Joined
<1>3. (h \o w)[1] = e /\ Len(h \o w) = n + 1
  BY <1>1, <1>2
<1>4. \A i \in 2..(n + 1) : (h \o w)[i] = w[i - 1]
  BY <1>1, <1>2
<1> QED
  BY <1>2, <1>3, <1>4 DEF h, n

\* A sequence without one of its elements.
LEMMA TakenOut ==
    ASSUME NEW S, NEW w \in Seq(S), NEW i \in 1..Len(w)
    PROVE  LET r == RemoveAt(w, i)
           IN  /\ Len(w) \in Nat /\ r \in Seq(S) /\ Len(r) = Len(w) - 1
               /\ \A k \in 1..(i - 1) : r[k] = w[k]
               /\ \A k \in i..(Len(w) - 1) : r[k] = w[k + 1]
<1> DEFINE n == Len(w)
           m == i - 1
           u == SubSeq(w, 1, m)
           v == SubSeq(w, i + 1, n)
           r == RemoveAt(w, i)
<1>1. n \in Nat /\ m \in 0..n /\ i \in 0..n /\ m \in Nat /\ n - i \in Nat
  BY LenProperties
<1>2. u \in Seq(S) /\ Len(u) = m /\ \A k \in 1..m : u[k] = w[k]
  BY <1>1, Part
<1>3. v \in Seq(S) /\ Len(v) = n - i /\ \A k \in 1..(n - i) : v[k] = w[i + k]
  <2>1. i \in 0..Len(w)
    BY <1>1
  <2>2. v \in Seq(S) /\ Len(v) = n - i
    BY <2>1, Part
  <2>3. \A k \in 1..(n - i) : v[k] = w[i + k]
    BY <2>1, Part
  <2> QED
    BY <2>2, <2>3
<1>4. r = u \o v
  BY DEF RemoveAt
<1> HIDE DEF u, v, r
<1>5. /\ r \in Seq(S) /\ Len(r) = m + (n - i)
      /\ \A k \in 1..m : r[k] = u[k]
      /\ \A k \in 1..(n - i) : r[m + k] = v[k]
  <2>1. m = Len(u) /\ n - i = Len(v)
    BY <1>2, <1>3
  <2> HIDE DEF n, m
  <2> QED
    BY <1>2, <1>3, <1>4, <2>1, Joined
<1>6. \A k \in 1..m : r[k] = w[k]
  BY <1>2, <1>5
<1>7. \A k \in i..(n - 1) : r[k] = w[k + 1]
  <2> SUFFICES ASSUME NEW k \in i..(n - 1)
               PROVE  r[k] = w[k + 1]
    OBVIOUS
  <2>1. k - m \in 1..(n - i) /\ m + (k - m) = k /\ i + (k - m) = k + 1
    BY <1>1
  <2>2. r[m + (k - m)] = v[k - m] /\ v[k - m] = w[i + (k - m)]
    BY <1>3, <1>5, <2>1
  <2> QED
    BY <2>1, <2>2
<1>8. Len(r) = n - 1
  BY <1>1, <1>5
<1> QED
  BY <1>1, <1>5, <1>6, <1>7, <1>8 DEF r

\* A sequence with one element more.
LEMMA PutIn ==
    ASSUME NEW S, NEW w \in Seq(S), NEW e \in S, NEW i \in 1..(Len(w) + 1)
    PROVE  LET r == InsertAt(w, i, e)
           IN  /\ Len(w) \in Nat /\ r \in Seq(S) /\ Len(r) = Len(w) + 1
               /\ \A k \in 1..(i - 1) : r[k] = w[k]
               /\ r[i] = e
               /\ \A k \in i..Len(w) : r[k + 1] = w[k]
<1> DEFINE n == Len(w)
           m == i - 1
           u == SubSeq(w, 1, m)
           v == SubSeq(w, i, n)
           t == u \o <<e>>
           r == InsertAt(w, i, e)
<1>1. n \in Nat /\ m \in 0..n /\ m \in Nat /\ n - m \in Nat /\ m + 1 = i
  BY LenProperties
<1>2. u \in Seq(S) /\ Len(u) = m /\ \A k \in 1..m : u[k] = w[k]
  BY <1>1, Part
<1>3. v \in Seq(S) /\ Len(v) = n - m /\ \A k \in 1..(n - m) : v[k] = w[m + k]
  <2>1. m \in 0..Len(w) /\ i = m + 1
    BY <1>1
  <2>2. SubSeq(w, m + 1, Len(w)) \in Seq(S) /\ Len(SubSeq(w, m + 1, Len(w))) = Len(w) - m
    BY <2>1, Part
  <2>3. \A k \in 1..(Len(w) - m) : SubSeq(w, m + 1, Len(w))[k] = w[m + k]
    BY <2>1, Part
  <2> QED
    BY <2>1, <2>2, <2>3
<1>4. r = t \o v
  BY DEF InsertAt
<1>5. t \in Seq(S) /\ Len(t) = m + 1 /\ (\A k \in 1..m : t[k] = u[k]) /\ t[m + 1] = e
  <2>1. t = Append(u, e)
    BY <1>2, AppendIsConcat
  <2> DEFINE z == Append(u, e)
  <2>2. /\ z \in Seq(S) /\ Len(z) = Len(u) + 1
        /\ \A k \in 1..Len(u) : z[k] = u[k]
        /\ z[Len(u) + 1] = e
    BY <1>2, AppendProperties
  <2>3. Len(u) = m /\ \A k \in 1..m : z[k] = u[k]
    BY <1>2, <2>2
  <2>4. t = z
    BY <2>1
  <2> HIDE DEF z, u, t, m
  <2>5. Len(z) = m + 1 /\ z[m + 1] = e
    BY <2>2, <2>3
  <2> QED
    BY <2>2, <2>3, <2>4, <2>5
<1> HIDE DEF u, v, t, r
<1>6. /\ r \in Seq(S) /\ Len(r) = (m + 1) + (n - m)
      /\ \A k \in 1..(m + 1) : r[k] = t[k]
      /\ \A k \in 1..(n - m) : r[(m + 1) + k] = v[k]
  <2>1. m + 1 = Len(t) /\ n - m = Len(v)
    BY <1>3, <1>5
  <2>2. \A a, b : a = Len(t) /\ b = Len(v) =>
           /\ t \o v \in Seq(S) /\ Len(t \o v) = a + b
           /\ \A k \in 1..a : (t \o v)[k] = t[k]
           /\ \A k \in 1..b : (t \o v)[a + k] = v[k]
    BY <1>3, <1>5, Joined
  <2> HIDE DEF n, m
  <2> QED
    BY <1>4, <2>1, <2>2
<1>7. \A k \in 1..m : r[k] = w[k]
  BY <1>1, <1>2, <1>5, <1>6
<1>8. r[i] = e
  BY <1>1, <1>5, <1>6
<1>9. \A k \in i..n : r[k + 1] = w[k]
  <2> SUFFICES ASSUME NEW k \in i..n PROVE r[k + 1] = w[k]
    OBVIOUS
  <2>1. k - m \in 1..(n - m) /\ (m + 1) + (k - m) = k + 1 /\ m + (k - m) = k
    BY <1>1
  <2> HIDE DEF n, m
  <2> QED
    BY <1>3, <1>6, <2>1
<1>10. Len(r) = n + 1
  BY <1>1, <1>6
<1> QED
  BY <1>1, <1>6, <1>7, <1>8, <1>9, <1>10 DEF r
=============================================================================
