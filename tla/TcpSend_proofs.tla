---------------------------- MODULE TcpSend_proofs ----------------------------
(***************************************************************************)
(* What TcpSend promises, for every maximum segment size, buffer, window   *)
(* and length: the queues hold what was written and is not acknowledged,   *)
(* once and in order, the accounts of the buffer follow, the assertions of *)
(* tcp_write hold, the window is obeyed and nothing that is queued waits   *)
(* without a timer.                                                        *)
(***************************************************************************)
EXTENDS TcpSend, DataInduction

-----------------------------------------------------------------------------
(* Sums                                                                    *)

\* A function that adds up the numbers of h ends with their total.
LEMMA TotalIs ==
    ASSUME NEW h, NEW n \in Nat, NEW g, Len(h) = n,
           g[0] = 0, \A i \in 1..n : g[i] = g[i - 1] + h[i]
    PROVE  Total(h) = g[n]
<1> DEFINE t == CHOOSE t : t = [i \in 0..n |-> IF i = 0 THEN 0 ELSE t[i - 1] + h[i]]
<1>1. Total(h) = t[n]
  BY ZenonT(60) DEF Total
<1>2. t = [i \in 0..n |-> IF i = 0 THEN 0 ELSE t[i - 1] + h[i]]
  <2> DEFINE u == [i \in 0..n |-> g[i]]
             k == [i \in 0..n |-> IF i = 0 THEN 0 ELSE u[i - 1] + h[i]]
  <2>1. ASSUME NEW i \in 0..n
        PROVE  g[i] = IF i = 0 THEN 0 ELSE u[i - 1] + h[i]
    <3>1. i # 0 => i \in 1..n /\ i - 1 \in 0..n /\ u[i - 1] = g[i - 1]
      OBVIOUS
    <3> QED
      BY <3>1
  <2>2. u = k
    BY <2>1
  <2> HIDE DEF u
  <2> QED
    BY <2>2, Zenon
<1> HIDE DEF t
<1> DEFINE T == {i \in 0..n : t[i] = g[i]}
<1>3. 0 \in T
  BY <1>2
<1>4. ASSUME NEW i \in 0..(n - 1), i \in T
      PROVE  i + 1 \in T
  <2>1. i + 1 \in 1..n /\ i + 1 \in 0..n /\ i + 1 # 0 /\ i + 1 - 1 = i
    OBVIOUS
  <2>2. t[i + 1] = t[i] + h[i + 1]
    BY <1>2, <2>1
  <2>3. g[i + 1] = g[i] + h[i + 1]
    BY <2>1
  <2> QED
    BY <1>4, <2>1, <2>2, <2>3
<1> HIDE DEF T
<1>5. 0..n \subseteq T
  <2>1. 0 \in Int /\ n \in Int /\ \A i \in 0..(n - 1) : i \in T => i + 1 \in T
    BY <1>4
  <2> QED
    BY <1>3, <2>1, IntervalInduction
<1> QED
  BY <1>1, <1>5 DEF T

\* There is such a function.
LEMMA TotalRun ==
    ASSUME NEW h \in Seq(Nat)
    PROVE  \E g \in [0..Len(h) -> Nat] :
               /\ g[0] = 0 /\ \A i \in 1..Len(h) : g[i] = g[i - 1] + h[i]
               /\ Total(h) = g[Len(h)]
<1> DEFINE Adds(g, n) == g[0] = 0 /\ \A i \in 1..n : g[i] = g[i - 1] + h[i]
           T == {n \in Nat : n <= Len(h) => \E g \in [0..n -> Nat] : Adds(g, n)}
<1>1. Len(h) \in Nat /\ \A i \in 1..Len(h) : h[i] \in Nat
  BY LenProperties, ElementOfSeq
<1>2. 0 \in T
  <2>1. Adds([i \in 0..0 |-> 0], 0) /\ [i \in 0..0 |-> 0] \in [0..0 -> Nat]
    OBVIOUS
  <2> QED
    BY <2>1, Zenon
<1>3. ASSUME NEW n \in Nat, n \in T
      PROVE  n + 1 \in T
  <2> HIDE DEF Adds
  <2>0. n + 1 \in Nat
    OBVIOUS
  <2> SUFFICES ASSUME n + 1 <= Len(h)
               PROVE  \E g \in [0..(n + 1) -> Nat] : Adds(g, n + 1)
    BY <2>0, Zenon
  <2>1. PICK g \in [0..n -> Nat] : Adds(g, n)
    <3>1. n <= Len(h)
      BY <1>1
    <3> QED
      BY <1>3, <3>1
  <2> USE DEF Adds
  <2> DEFINE k == [i \in 0..(n + 1) |-> IF i = n + 1 THEN g[n] + h[n + 1] ELSE g[i]]
  <2>2. n + 1 \in 1..Len(h) /\ h[n + 1] \in Nat
    BY <1>1
  <2>3. k \in [0..(n + 1) -> Nat]
    BY <2>2
  <2>4. \A i \in 0..n : k[i] = g[i]
    OBVIOUS
  <2>5. k[n + 1] = g[n] + h[n + 1]
    OBVIOUS
  <2> HIDE DEF k
  <2>6. \A i \in 1..(n + 1) : k[i] = k[i - 1] + h[i]
    <3> SUFFICES ASSUME NEW i \in 1..(n + 1)
                 PROVE  k[i] = k[i - 1] + h[i]
      OBVIOUS
    <3>1. CASE i = n + 1
      BY <3>1, <2>4, <2>5
    <3>2. CASE i # n + 1
      <4>1. i \in 1..n /\ i \in 0..n /\ i - 1 \in 0..n
        BY <3>2
      <4> QED
        BY <4>1, <2>1, <2>4
    <3> QED
      BY <3>1, <3>2
  <2>7. k[0] = 0
    BY <2>1, <2>4
  <2> QED
    BY <2>3, <2>6, <2>7
<1> HIDE DEF T
<1>4. Nat \subseteq T
  BY <1>2, <1>3, NumberInduction
<1>5. PICK g \in [0..Len(h) -> Nat] : Adds(g, Len(h))
  <2>1. Len(h) \in T
    BY <1>1, <1>4
  <2> QED
    BY <1>1, <2>1 DEF T
<1>6. Total(h) = g[Len(h)]
  BY <1>1, <1>5, TotalIs
<1> QED
  BY <1>5, <1>6

\* A total of natural numbers is one.
LEMMA TotalNat ==
    ASSUME NEW h \in Seq(Nat)
    PROVE  Total(h) \in Nat
<1>1. Len(h) \in Nat
  BY LenProperties
<1> QED
  BY <1>1, TotalRun

\* Nothing adds up to 0.
LEMMA TotalEmpty ==
    ASSUME NEW h, Len(h) = 0
    PROVE  Total(h) = 0
<1> DEFINE g == [i \in 0..0 |-> 0]
<1>1. g[0] = 0 /\ \A i \in 1..0 : g[i] = g[i - 1] + h[i]
  OBVIOUS
<1> HIDE DEF g
<1> QED
  BY <1>1, TotalIs

\* One number is its own total.
LEMMA TotalOne ==
    ASSUME NEW x \in Int
    PROVE  Total(<<x>>) = x
<1> DEFINE g == [i \in 0..1 |-> IF i = 0 THEN 0 ELSE x]
           h == <<x>>
<1>1. g[0] = 0 /\ g[1] = x /\ Len(h) = 1 /\ h[1] = x
  OBVIOUS
<1> HIDE DEF g, h
<1>2. \A i \in 1..1 : g[i] = g[i - 1] + h[i]
  BY <1>1
<1>3. Total(h) = g[1]
  BY <1>1, <1>2, TotalIs
<1> QED
  BY <1>1, <1>3 DEF h

\* The totals of two sequences add up.
LEMMA TotalConcat ==
    ASSUME NEW h \in Seq(Nat), NEW k \in Seq(Nat)
    PROVE  Total(h \o k) = Total(h) + Total(k)
<1> DEFINE m == Len(h)
           n == Len(k)
           c == h \o k
<1>1. m \in Nat /\ n \in Nat
  BY LenProperties
<1>2. /\ Len(c) = m + n
      /\ \A i \in 1..(m + n) : c[i] = IF i <= m THEN h[i] ELSE k[i - m]
  BY ConcatProperties
<1>3. PICK f \in [0..m -> Nat] : /\ f[0] = 0 /\ \A i \in 1..m : f[i] = f[i - 1] + h[i]
                                 /\ Total(h) = f[m]
  BY TotalRun
<1>4. PICK g \in [0..n -> Nat] : /\ g[0] = 0 /\ \A i \in 1..n : g[i] = g[i - 1] + k[i]
                                 /\ Total(k) = g[n]
  BY TotalRun
<1>5. \A i \in 1..n : k[i] \in Nat
  BY ElementOfSeq
<1> HIDE DEF m, n, c
<1> DEFINE s == [i \in 0..(m + n) |-> IF i <= m THEN f[i] ELSE f[m] + g[i - m]]
<1>6. \A i \in 0..m : s[i] = f[i]
  BY <1>1
<1>7. \A i \in 0..n : s[m + i] = f[m] + g[i]
  <2> SUFFICES ASSUME NEW i \in 0..n
               PROVE  s[m + i] = f[m] + g[i]
    OBVIOUS
  <2>1. m + i \in 0..(m + n) /\ m + i - m = i
    BY <1>1
  <2>2. CASE i = 0
    BY <1>1, <1>4, <2>1, <2>2
  <2>3. CASE i # 0
    BY <1>1, <2>1, <2>3
  <2> QED
    BY <2>2, <2>3
<1> HIDE DEF s
<1>8. \A i \in 1..(m + n) : s[i] = s[i - 1] + c[i]
  <2> SUFFICES ASSUME NEW i \in 1..(m + n)
               PROVE  s[i] = s[i - 1] + c[i]
    OBVIOUS
  <2>1. CASE i <= m
    <3>1. i \in 1..m /\ i \in 0..m /\ i - 1 \in 0..m /\ c[i] = h[i]
      BY <1>1, <1>2, <2>1
    <3> QED
      BY <3>1, <1>3, <1>6
  <2>2. CASE i > m
    <3> DEFINE j == i - m
    <3>1. /\ j \in 1..n /\ j \in 0..n /\ j - 1 \in 0..n /\ c[i] = k[j]
          /\ m + j = i /\ m + (j - 1) = i - 1
      BY <1>1, <1>2, <2>2
    <3> HIDE DEF j
    <3>2. s[i] = f[m] + g[j] /\ s[i - 1] = f[m] + g[j - 1]
      BY <3>1, <1>7
    <3>3. g[j] = g[j - 1] + k[j] /\ k[j] \in Nat /\ g[j - 1] \in Nat /\ f[m] \in Nat
      BY <3>1, <1>1, <1>3, <1>4, <1>5
    <3> QED
      BY <3>1, <3>2, <3>3
  <2> QED
    BY <1>1, <2>1, <2>2
<1>9. s[0] = 0
  BY <1>1, <1>3, <1>6
<1>10. Total(c) = s[m + n]
  <2>1. m + n \in Nat
    BY <1>1
  <2> QED
    BY <1>2, <1>8, <1>9, <2>1, TotalIs
<1>11. s[m + n] = f[m] + g[n]
  BY <1>1, <1>7
<1> QED
  BY <1>3, <1>4, <1>10, <1>11 DEF c

\* Numbers of at least 1 add up to their count or more, and to it if all are 1.
LEMMA TotalCount ==
    ASSUME NEW h \in Seq(Nat), \A i \in 1..Len(h) : h[i] >= 1
    PROVE  /\ Total(h) >= Len(h)
           /\ (\A i \in 1..Len(h) : h[i] = 1) => Total(h) = Len(h)
<1> DEFINE n == Len(h)
<1>1. n \in Nat /\ \A i \in 1..n : h[i] \in Nat
  BY LenProperties, ElementOfSeq
<1>2. PICK g \in [0..n -> Nat] : /\ g[0] = 0 /\ \A i \in 1..n : g[i] = g[i - 1] + h[i]
                                 /\ Total(h) = g[n]
  BY TotalRun
<1> HIDE DEF n
<1> DEFINE Ones == \A i \in 1..n : h[i] = 1
           T == {i \in 0..n : g[i] >= i /\ (Ones => g[i] = i)}
<1>3. 0 \in T
  BY <1>1, <1>2
<1>4. ASSUME NEW i \in 0..(n - 1), i \in T
      PROVE  i + 1 \in T
  <2>1. i + 1 \in 1..n /\ i + 1 \in 0..n /\ i \in 0..n /\ i + 1 - 1 = i
    BY <1>1
  <2>2. g[i + 1] = g[i] + h[i + 1] /\ h[i + 1] \in Nat /\ h[i + 1] >= 1 /\ g[i] \in Nat
    <3>1. h[i + 1] \in Nat /\ h[i + 1] >= 1
      BY <1>1, <2>1 DEF n
    <3>2. g[i] \in Nat
      BY <1>2, <2>1 DEF n
    <3>3. g[i + 1] = g[i] + h[i + 1]
      BY <1>2, <2>1
    <3> QED
      BY <3>1, <3>2, <3>3
  <2>3. Ones => h[i + 1] = 1
    BY <2>1
  <2> HIDE DEF Ones
  <2> QED
    BY <1>4, <2>1, <2>2, <2>3
<1> HIDE DEF T
<1>5. 0..n \subseteq T
  <2>1. 0 \in Int /\ n \in Int /\ \A i \in 0..(n - 1) : i \in T => i + 1 \in T
    BY <1>1, <1>4
  <2> QED
    BY <1>3, <2>1, IntervalInduction
<1>6. n \in T
  BY <1>1, <1>5
<1> QED
  BY <1>2, <1>6 DEF T, n

-----------------------------------------------------------------------------
(* Insertion                                                               *)

\* The numbers grow along a queue.
Sorted(q) == \A i, j \in 1..Len(q) : i < j => q[i].seq < q[j].seq

\* A segment above all others goes to the end of the queue.
LEMMA InsertLast ==
    ASSUME NEW S, NEW q \in Seq(S), NEW s \in S, \A i \in 1..Len(q) : q[i].seq < s.seq
    PROVE  Insert(q, s) = q \o <<s>>
<1> DEFINE T == {n \in 0..Len(q) : \A i \in 1..n : q[i].seq < s.seq}
<1>1. Len(q) \in Nat
  BY LenProperties
<1>2. Len(q) \in T
  BY <1>1
<1>3. T \subseteq Int /\ \A k \in T : k <= Len(q)
  BY <1>1
<1>4. Insert(q, s) = SubSeq(q, 1, Max(T)) \o <<s>> \o SubSeq(q, Max(T) + 1, Len(q))
  BY DEF Insert
<1> HIDE DEF T
<1>5. Max(T) = Len(q)
  <2>1. Max(T) \in T /\ \A k \in T : k <= Max(T)
    BY <1>1, <1>2, <1>3, MaxIsGreatest
  <2>2. Max(T) \in Int /\ Max(T) <= Len(q) /\ Len(q) <= Max(T)
    BY <1>2, <1>3, <2>1
  <2> HIDE DEF T
  <2> QED
    BY <1>1, <2>2
<1>6. SubSeq(q, 1, Len(q)) = q /\ SubSeq(q, Len(q) + 1, Len(q)) = <<>>
  BY <1>1, SubSeqFull, SubSeqEmpty
<1>7. <<s>> \in Seq(S)
  OBVIOUS
<1>8. q \o <<s>> \in Seq(S)
  BY <1>7, ConcatProperties
<1> QED
  BY <1>4, <1>5, <1>6, <1>8, ConcatEmptySeq

\* A segment that is not above the first one goes to the front.
LEMMA InsertFirst ==
    ASSUME NEW S, NEW q \in Seq(S), NEW s \in S, \A i \in 1..Len(q) : ~(q[i].seq < s.seq)
    PROVE  Insert(q, s) = <<s>> \o q
<1> DEFINE T == {n \in 0..Len(q) : \A i \in 1..n : q[i].seq < s.seq}
<1>1. Len(q) \in Nat
  BY LenProperties
<1>2. T = {0}
  <2>1. 0 \in T
    BY <1>1
  <2>2. ASSUME NEW k \in T
        PROVE  k = 0
    <3>1. k # 0 => 1 \in 1..k /\ 1 \in 1..Len(q)
      BY <1>1
    <3> QED
      BY <3>1
  <2> QED
    BY <2>1, <2>2
<1>3. Insert(q, s) = SubSeq(q, 1, Max(T)) \o <<s>> \o SubSeq(q, Max(T) + 1, Len(q))
  BY DEF Insert
<1> HIDE DEF T
<1>4. Max(T) = 0
  BY <1>2 DEF Max
<1>5. SubSeq(q, 1, 0) = <<>> /\ SubSeq(q, 1, Len(q)) = q
  BY SubSeqFull, SubSeqEmpty
<1>6. <<s>> \in Seq(S)
  OBVIOUS
<1>7. <<>> \o <<s>> = <<s>>
  BY <1>6, ConcatEmptySeq
<1> QED
  BY <1>3, <1>4, <1>5, <1>7

\* One more element behind two sequences that are joined.
LEMMA JoinedAndOne ==
    ASSUME NEW S, NEW x \in Seq(S), NEW y \in Seq(S), NEW e \in S
    PROVE  (x \o y) \o <<e>> = x \o (y \o <<e>>)
<1> DEFINE h == <<e>>
<1>1. h \in Seq(S)
  OBVIOUS
<1> HIDE DEF h
<1>2. (x \o y) \o h = x \o (y \o h)
  BY <1>1, ConcatAssociative
<1> QED
  BY <1>2 DEF h

\* The same with quantifiers, for where the parts are not constants.
LEMMA JoinedAndAny ==
    \A S : \A x, y \in Seq(S) : \A e \in S : (x \o y) \o <<e>> = x \o (y \o <<e>>)
<1> SUFFICES ASSUME NEW S, NEW x \in Seq(S), NEW y \in Seq(S), NEW e \in S
             PROVE  (x \o y) \o <<e>> = x \o (y \o <<e>>)
  OBVIOUS
<1> QED
  BY JoinedAndOne

\* One more segment of w is appended to x.
LEMMA InsertNext ==
    ASSUME NEW S, NEW x \in Seq(S), NEW w \in Seq(S), Sorted(x \o w), NEW i \in 1..Len(w)
    PROVE  Insert(x \o SubSeq(w, 1, i - 1), w[i]) = x \o SubSeq(w, 1, i)
<1> DEFINE k == i - 1
           y == SubSeq(w, 1, k)
           z == x \o y
           m == Len(x)
           n == Len(w)
           c == x \o w
<1>1. k \in 0..n /\ k \in Nat /\ k = i - 1 /\ n \in Nat
  BY LenProperties
<1>2. w[i] \in S
  BY ElementOfSeq
<1> HIDE DEF k
<1>3. y \in Seq(S) /\ Len(y) = k /\ \A j \in 1..k : y[j] = w[j]
  BY <1>1, Part
<1>4. /\ m \in Nat /\ Len(c) = m + n
      /\ \A j \in 1..m : c[j] = x[j]
      /\ \A j \in 1..n : c[m + j] = w[j]
  BY Joined
<1> HIDE DEF y
<1>5. /\ z \in Seq(S) /\ Len(z) = m + k
      /\ \A j \in 1..m : z[j] = x[j]
      /\ \A j \in 1..(m + k) : j \in 1..m \/ (j - m \in 1..k /\ z[j] = y[j - m])
  BY <1>3, Joined
<1> HIDE DEF m, n, z, c
<1>6. \A j \in 1..Len(z) : z[j].seq < w[i].seq
  <2> SUFFICES ASSUME NEW j \in 1..(m + k)
               PROVE  z[j].seq < w[i].seq
    BY <1>5
  <2>1. j \in 1..(m + n) /\ m + i \in 1..(m + n) /\ j < m + i
    BY <1>1, <1>4 DEF n
  <2>2. c[m + i] = w[i]
    BY <1>4 DEF n
  <2>3. c[j] = z[j]
    <3>1. CASE j \in 1..m
      BY <1>4, <1>5, <3>1
    <3>2. CASE j \notin 1..m
      <4>1. j - m \in 1..k /\ z[j] = y[j - m]
        BY <1>5, <3>2
      <4>2. j - m \in 1..n /\ m + (j - m) = j
        BY <1>1, <1>4, <4>1
      <4>3. c[m + (j - m)] = w[j - m]
        BY <1>4, <4>2
      <4> QED
        BY <1>3, <4>1, <4>2, <4>3
    <3> QED
      BY <3>1, <3>2
  <2>4. c[j].seq < c[m + i].seq
    BY <1>4, <2>1 DEF Sorted, c
  <2> QED
    BY <2>2, <2>3, <2>4
<1>7. Insert(z, w[i]) = z \o <<w[i]>>
  BY <1>2, <1>5, <1>6, InsertLast
<1>8. SubSeq(w, 1, i) = y \o <<w[i]>>
  <2>1. 1 \in 1..Len(w) /\ i \in 1..Len(w)
    BY <1>1 DEF n
  <2> QED
    BY <2>1, SubSeqRecursiveSecond DEF y, k
<1>9. (x \o y) \o <<w[i]>> = x \o (y \o <<w[i]>>)
  <2>1. PICK e \in S : e = w[i]
    BY <1>2
  <2>2. PICK g \in Seq(S) : g = y
    BY <1>3
  <2>3. (x \o g) \o <<e>> = x \o (g \o <<e>>)
    BY ONLY x \in Seq(S), g \in Seq(S), e \in S, JoinedAndAny
  <2> QED
    BY <2>1, <2>2, <2>3
<1> QED
  BY <1>7, <1>8, <1>9, Zenon DEF y, z, k

\* A function that inserts the segments of out one after the other ends with all.
LEMMA InsertAllIs ==
    ASSUME NEW q, NEW out, NEW n \in Nat, NEW g, Len(out) = n,
           g[0] = q, \A i \in 1..n : g[i] = Insert(g[i - 1], out[i])
    PROVE  InsertAll(q, out) = g[n]
<1> DEFINE t == CHOOSE t : t = [i \in 0..n |-> IF i = 0 THEN q ELSE Insert(t[i - 1], out[i])]
<1>1. InsertAll(q, out) = t[n]
  BY ZenonT(60) DEF InsertAll
<1>2. t = [i \in 0..n |-> IF i = 0 THEN q ELSE Insert(t[i - 1], out[i])]
  <2> DEFINE u == [i \in 0..n |-> g[i]]
             k == [i \in 0..n |-> IF i = 0 THEN q ELSE Insert(u[i - 1], out[i])]
  <2>1. ASSUME NEW i \in 0..n
        PROVE  g[i] = IF i = 0 THEN q ELSE Insert(u[i - 1], out[i])
    <3>1. i # 0 => i \in 1..n /\ i - 1 \in 0..n /\ u[i - 1] = g[i - 1]
      OBVIOUS
    <3> QED
      BY <3>1
  <2>2. u = k
    BY <2>1
  <2> HIDE DEF u
  <2> QED
    BY <2>2, Zenon
<1> HIDE DEF t
<1> DEFINE T == {i \in 0..n : t[i] = g[i]}
<1>3. 0 \in T
  BY <1>2
<1>4. ASSUME NEW i \in 0..(n - 1), i \in T
      PROVE  i + 1 \in T
  <2>1. i + 1 \in 1..n /\ i + 1 \in 0..n /\ i + 1 # 0 /\ i + 1 - 1 = i
    OBVIOUS
  <2>2. t[i + 1] = Insert(t[i], out[i + 1])
    BY <1>2, <2>1
  <2>3. g[i + 1] = Insert(g[i], out[i + 1])
    BY <2>1
  <2> QED
    BY <1>4, <2>1, <2>2, <2>3
<1> HIDE DEF T
<1>5. 0..n \subseteq T
  <2>1. 0 \in Int /\ n \in Int /\ \A i \in 0..(n - 1) : i \in T => i + 1 \in T
    BY <1>4
  <2> QED
    BY <1>3, <2>1, IntervalInduction
<1> QED
  BY <1>1, <1>5 DEF T

\* Segments that follow those of a queue are appended to it.
LEMMA InsertAllAppends ==
    ASSUME NEW S, NEW x \in Seq(S), NEW w \in Seq(S), Sorted(x \o w)
    PROVE  InsertAll(x, w) = x \o w
<1> DEFINE g == [i \in 0..Len(w) |-> x \o SubSeq(w, 1, i)]
<1>1. Len(w) \in Nat
  BY LenProperties
<1>2. \A i \in 0..Len(w) : g[i] = x \o SubSeq(w, 1, i)
  OBVIOUS
<1> HIDE DEF g
<1>3. g[0] = x
  <2>1. g[0] = x \o SubSeq(w, 1, 0)
    BY <1>1, <1>2
  <2> QED
    BY <2>1, SubSeqEmpty, ConcatEmptySeq
<1>4. \A i \in 1..Len(w) : g[i] = Insert(g[i - 1], w[i])
  <2> SUFFICES ASSUME NEW i \in 1..Len(w)
               PROVE  g[i] = Insert(g[i - 1], w[i])
    OBVIOUS
  <2>1. i \in 0..Len(w) /\ i - 1 \in 0..Len(w)
    BY <1>1
  <2> QED
    BY <1>2, <2>1, InsertNext
<1>5. InsertAll(x, w) = g[Len(w)]
  BY <1>1, <1>3, <1>4, InsertAllIs
<1>6. g[Len(w)] = x \o SubSeq(w, 1, Len(w))
  BY <1>1, <1>2
<1> QED
  BY <1>5, <1>6, SubSeqFull

\* A segment that was taken from the front returns there, and those behind it are
\* appended.
LEMMA InsertAllReturns ==
    ASSUME NEW S, NEW x \in Seq(S), NEW w \in Seq(S), NEW s \in S,
           Sorted((<<s>> \o x) \o w), \A i \in 1..Len(x) : ~(x[i].seq < s.seq)
    PROVE  InsertAll(x, <<s>> \o w) = (<<s>> \o x) \o w
<1> DEFINE y == <<s>> \o x
           out == <<s>> \o w
           n == Len(w) + 1
           g == [i \in 0..n |-> IF i = 0 THEN x ELSE y \o SubSeq(w, 1, i - 1)]
<1>1. Len(w) \in Nat /\ n \in Nat
  BY LenProperties
<1>2. <<s>> \in Seq(S) /\ Len(<<s>>) = 1 /\ <<s>>[1] = s
  OBVIOUS
<1>3. y \in Seq(S)
  BY <1>2, ConcatProperties
<1>4. /\ out \in Seq(S) /\ Len(out) = n
      /\ out[1] = s /\ \A i \in 2..n : out[i] = w[i - 1]
  BY OneInFront
<1>5. g[0] = x /\ \A i \in 1..n : g[i] = y \o SubSeq(w, 1, i - 1)
  BY ONLY <1>1
<1>6. Insert(x, s) = y
  BY InsertFirst
<1>7. Sorted(y \o w)
  OBVIOUS
<1> HIDE DEF g, out, y
<1>8. \A i \in 1..n : g[i] = Insert(g[i - 1], out[i])
  <2> SUFFICES ASSUME NEW i \in 1..n
               PROVE  g[i] = Insert(g[i - 1], out[i])
    OBVIOUS
  <2>1. CASE i = 1
    <3>1. g[1] = y \o SubSeq(w, 1, 0)
      BY <1>5, <2>1
    <3>2. g[1] = y
      BY <1>3, <3>1, SubSeqEmpty, ConcatEmptySeq
    <3> QED
      BY <1>4, <1>5, <1>6, <2>1, <3>2
  <2>2. CASE i # 1
    <3> DEFINE j == i - 1
    <3>1. j \in 1..Len(w) /\ j \in 1..n /\ i \in 2..n /\ j = i - 1
      BY <1>1, <2>2
    <3> HIDE DEF j
    <3>2. Insert(y \o SubSeq(w, 1, j - 1), w[j]) = y \o SubSeq(w, 1, j)
      BY <1>3, <1>7, <3>1, InsertNext
    <3>3. g[j] = y \o SubSeq(w, 1, j - 1) /\ g[i] = y \o SubSeq(w, 1, j) /\ out[i] = w[j]
      BY <1>4, <1>5, <3>1
    <3> QED
      BY <3>1, <3>2, <3>3
  <2> QED
    BY <2>1, <2>2
<1>9. InsertAll(x, out) = g[n]
  <2> HIDE DEF n
  <2>1. Len(out) \in Nat /\ g[0] = x
        /\ \A i \in 1..Len(out) : g[i] = Insert(g[i - 1], out[i])
    BY <1>1, <1>4, <1>5, <1>8
  <2>2. InsertAll(x, out) = g[Len(out)]
    BY <2>1, InsertAllIs
  <2> QED
    BY <1>4, <2>2
<1>10. g[n] = y \o w
  <2>1. n \in 1..n /\ n - 1 = Len(w)
    BY <1>1
  <2> QED
    BY <1>5, <2>1, SubSeqFull
<1> QED
  BY <1>9, <1>10 DEF out, y

-----------------------------------------------------------------------------
(* Segments                                                                *)

\* The sequence number behind a segment.
EndOf(s) == s.seq + TCP_TCPLEN(s)

\* A segment of at most m bytes.
SegmentOK(s, m) ==
    /\ s \in Segment
    /\ s.data = Bytes(s.seq, Len(s.data)) /\ Len(s.data) <= m
    /\ s.clen >= 1 /\ TCP_TCPLEN(s) >= 1
    /\ s.syn <=> s.seq = 0
    /\ s.syn => s.data = <<>>

\* Segments without a gap or an overlap.
Chain(q, m) ==
    /\ q \in Seq(Segment)
    /\ \A i \in 1..Len(q) : SegmentOK(q[i], m)
    /\ \A i \in 2..Len(q) : q[i].seq = EndOf(q[i - 1])

\* They are what is left of the numbers below e when those below a are acknowledged.
Covers(q, a, e) ==
    /\ q = <<>> => a = e
    /\ q # <<>> => q[1].seq <= a /\ a < EndOf(q[1]) /\ EndOf(q[Len(q)]) = e

\* A part of the stream is a sequence of the numbers of its bytes.
LEMMA BytesSeq ==
    ASSUME NEW a \in Nat, NEW n \in Nat, a >= 1 \/ n = 0
    PROVE  /\ Bytes(a, n) \in Seq(Nat) /\ Len(Bytes(a, n)) = n
           /\ \A i \in 1..n : Bytes(a, n)[i] = a + i - 1
<1>1. \A i \in 1..n : a + i - 1 \in Nat
  OBVIOUS
<1> QED
  BY <1>1 DEF Bytes

\* Two parts that follow each other.
LEMMA BytesJoin ==
    ASSUME NEW a \in Nat, NEW m \in Nat, NEW n \in Nat, a >= 1
    PROVE  Bytes(a, m) \o Bytes(a + m, n) = Bytes(a, m + n)
<1> DEFINE b == a + m
           k == m + n
           l == Bytes(a, m)
           r == Bytes(b, n)
           x == Bytes(a, k)
<1>1. b \in Nat /\ k \in Nat /\ b >= 1 /\ b = a + m /\ k = m + n
  OBVIOUS
<1> HIDE DEF b, k
<1>2. l \in Seq(Nat) /\ m = Len(l) /\ \A i \in 1..m : l[i] = a + i - 1
  BY BytesSeq
<1>3. r \in Seq(Nat) /\ n = Len(r) /\ \A i \in 1..n : r[i] = b + i - 1
  BY <1>1, BytesSeq
<1>4. x \in Seq(Nat) /\ Len(x) = k /\ \A i \in 1..k : x[i] = a + i - 1
  BY <1>1, BytesSeq
<1> HIDE DEF l, r, x
<1>5. /\ l \o r \in Seq(Nat) /\ Len(l \o r) = m + n
      /\ \A i \in 1..m : (l \o r)[i] = l[i]
      /\ \A i \in 1..(m + n) : i \in 1..m \/ (i - m \in 1..n /\ (l \o r)[i] = r[i - m])
  BY <1>2, <1>3, Joined
<1>6. \A i \in 1..k : (l \o r)[i] = x[i]
  <2> SUFFICES ASSUME NEW i \in 1..k
               PROVE  (l \o r)[i] = a + i - 1
    BY <1>4
  <2>1. CASE i \in 1..m
    BY <1>2, <1>5, <2>1
  <2>2. CASE i \notin 1..m
    <3>1. i - m \in 1..n /\ (l \o r)[i] = r[i - m]
      BY <1>1, <1>5, <2>2
    <3>2. r[i - m] = b + (i - m) - 1
      BY <1>3, <3>1
    <3> QED
      BY <1>1, <3>1, <3>2
  <2> QED
    BY <2>1, <2>2
<1>7. l \o r = x
  BY <1>1, <1>4, <1>5, <1>6, SeqEqual
<1> QED
  BY <1>7 DEF l, r, x, b, k

\* A segment and its length.
LEMMA SegmentFacts ==
    ASSUME NEW s, NEW m \in Nat, SegmentOK(s, m)
    PROVE  /\ s \in Segment /\ s.seq \in Nat /\ s.data \in Seq(Nat) /\ Len(s.data) \in 0..m
           /\ s.clen \in Nat /\ s.clen >= 1 /\ s.syn \in BOOLEAN /\ s.fin \in BOOLEAN
           /\ TCP_TCPLEN(s) = Len(s.data) + (IF s.syn \/ s.fin THEN 1 ELSE 0)
           /\ TCP_TCPLEN(s) \in Nat
           /\ EndOf(s) \in Nat /\ s.seq < EndOf(s)
           /\ s.seq + Len(s.data) <= EndOf(s) /\ EndOf(s) <= s.seq + Len(s.data) + 1
<1>1. Len(s.data) \in Nat
  BY LenProperties DEF Segment, SegmentOK
<1> DEFINE d == IF s.syn \/ s.fin THEN 1 ELSE 0
<1>2. d \in 0..1 /\ TCP_TCPLEN(s) = Len(s.data) + d
  BY DEF TCP_TCPLEN
<1> HIDE DEF d
<1> QED
  BY <1>1, <1>2 DEF Segment, SegmentOK, EndOf, d

\* The segments of a chain.
LEMMA ChainFacts ==
    ASSUME NEW m \in Nat, NEW q, Chain(q, m)
    PROVE  /\ q \in Seq(Segment) /\ Len(q) \in Nat
           /\ \A i \in 1..Len(q) :
                 /\ SegmentOK(q[i], m) /\ q[i] \in Segment
                 /\ q[i].seq \in Nat /\ Len(q[i].data) \in 0..m
                 /\ EndOf(q[i]) \in Nat /\ q[i].seq < EndOf(q[i])
                 /\ q[i].seq + Len(q[i].data) <= EndOf(q[i])
                 /\ EndOf(q[i]) <= q[i].seq + Len(q[i].data) + 1
<1>1. q \in Seq(Segment) /\ Len(q) \in Nat
  BY LenProperties DEF Chain
<1>2. \A i \in 1..Len(q) : SegmentOK(q[i], m)
  BY DEF Chain
<1> QED
  BY <1>1, <1>2, SegmentFacts

\* Of two segments of a chain the second begins where the first ends, or later.
LEMMA ChainOrder ==
    ASSUME NEW m \in Nat, NEW q, Chain(q, m)
    PROVE  /\ \A i, j \in 1..Len(q) : i < j => EndOf(q[i]) <= q[j].seq
           /\ Sorted(q)
<1>1. /\ Len(q) \in Nat
      /\ \A i \in 1..Len(q) : q[i].seq \in Nat /\ EndOf(q[i]) \in Nat /\ q[i].seq < EndOf(q[i])
  BY ChainFacts
<1>2. \A i \in 2..Len(q) : q[i].seq = EndOf(q[i - 1])
  BY DEF Chain
<1>3. ASSUME NEW i \in 1..Len(q), NEW k \in 1..Len(q), i < k
      PROVE  EndOf(q[i]) <= q[k].seq
  <2> DEFINE n == Len(q)
             a == i + 1
             T == {j \in a..n : EndOf(q[i]) <= q[j].seq}
  <2>1. n \in Int /\ a \in Int /\ a = i + 1 /\ n = Len(q)
    BY <1>1
  <2> HIDE DEF n, a
  <2>2. a \in T
    <3>1. a \in a..n /\ a \in 2..Len(q) /\ a - 1 = i
      BY <1>1, <1>3, <2>1
    <3> QED
      BY <1>1, <1>2, <3>1
  <2>3. \A j \in a..(n - 1) : j \in T => j + 1 \in T
    <3> SUFFICES ASSUME NEW j \in a..(n - 1), j \in T
                 PROVE  j + 1 \in T
      OBVIOUS
    <3>1. j + 1 \in a..n /\ j + 1 \in 2..Len(q) /\ j \in 1..Len(q) /\ j + 1 - 1 = j
      BY <1>1, <2>1
    <3>2. q[j + 1].seq = EndOf(q[j]) /\ q[j].seq < EndOf(q[j])
      BY <1>1, <1>2, <3>1
    <3>4. EndOf(q[i]) <= q[j].seq
      OBVIOUS
    <3>3. EndOf(q[i]) \in Nat /\ EndOf(q[j]) \in Nat /\ q[j].seq \in Nat
      BY <1>1, <3>1
    <3>5. EndOf(q[i]) <= q[j + 1].seq
      BY <3>2, <3>3, <3>4
    <3> QED
      BY <3>1, <3>5
  <2>4. k \in a..n
    BY <1>1, <1>3, <2>1
  <2> HIDE DEF T
  <2>5. k \in T
    BY <2>1, <2>2, <2>3, <2>4, IntervalInduction
  <2> QED
    BY <2>5 DEF T
<1>4. Sorted(q)
  BY <1>1, <1>3 DEF Sorted
<1> QED
  BY <1>3, <1>4

\* The parts of a chain are chains, and the second begins where the first ends.
LEMMA ChainParts ==
    ASSUME NEW m \in Nat, NEW u \in Seq(Segment), NEW v \in Seq(Segment), Chain(u \o v, m)
    PROVE  /\ Chain(u, m) /\ Chain(v, m)
           /\ u # <<>> /\ v # <<>> => v[1].seq = EndOf(u[Len(u)])
<1> DEFINE k == Len(u)
           n == Len(v)
           q == u \o v
<1>1. /\ k \in Nat /\ n \in Nat /\ Len(q) = k + n
      /\ \A i \in 1..k : q[i] = u[i]
      /\ \A i \in 1..n : q[k + i] = v[i]
  BY Joined
<1>2. /\ \A i \in 1..Len(q) : SegmentOK(q[i], m)
      /\ \A i \in 2..Len(q) : q[i].seq = EndOf(q[i - 1])
  BY DEF Chain
<1> HIDE DEF q
<1>3. Chain(u, m)
  <2>1. \A i \in 1..k : i \in 1..Len(q)
    BY <1>1
  <2>2. \A i \in 2..k : i \in 2..Len(q) /\ i \in 1..k /\ i - 1 \in 1..k
    BY <1>1
  <2>3. \A i \in 1..k : SegmentOK(u[i], m)
    BY <1>1, <1>2, <2>1
  <2>4. \A i \in 2..k : u[i].seq = EndOf(u[i - 1])
    BY <1>1, <1>2, <2>2
  <2> QED
    BY <2>3, <2>4 DEF Chain
<1>4. Chain(v, m)
  <2>1. \A i \in 1..n : k + i \in 1..Len(q)
    BY <1>1
  <2>2. \A i \in 1..n : SegmentOK(v[i], m)
    BY <1>1, <1>2, <2>1
  <2>3. ASSUME NEW i \in 2..n
        PROVE  v[i].seq = EndOf(v[i - 1])
    <3>1. i \in 1..n /\ i - 1 \in 1..n /\ k + i \in 2..Len(q) /\ k + i - 1 = k + (i - 1)
      BY <1>1
    <3>2. q[k + i].seq = EndOf(q[k + (i - 1)])
      BY <1>2, <3>1
    <3> QED
      BY <1>1, <3>1, <3>2
  <2> QED
    BY <2>2, <2>3 DEF Chain
<1>5. ASSUME u # <<>>, v # <<>>
      PROVE  v[1].seq = EndOf(u[k])
  <2>1. k \in Nat \ {0} /\ n \in Nat \ {0}
    BY <1>5, EmptySeq
  <2>2. k + 1 \in 2..Len(q) /\ k \in 1..k /\ 1 \in 1..n /\ k + 1 - 1 = k
    BY <1>1, <2>1
  <2>3. q[k + 1].seq = EndOf(q[k])
    BY <1>2, <2>2
  <2> QED
    BY <1>1, <2>2, <2>3
<1> QED
  BY <1>3, <1>4, <1>5

\* Two chains that meet are one.
LEMMA ChainJoin ==
    ASSUME NEW m \in Nat, NEW u, NEW v, Chain(u, m), Chain(v, m),
           u # <<>> /\ v # <<>> => v[1].seq = EndOf(u[Len(u)])
    PROVE  Chain(u \o v, m)
<1> DEFINE k == Len(u)
           n == Len(v)
           q == u \o v
<1>0. u \in Seq(Segment) /\ v \in Seq(Segment)
  BY DEF Chain
<1>1. /\ k \in Nat /\ n \in Nat /\ q \in Seq(Segment) /\ Len(q) = k + n
      /\ \A i \in 1..k : q[i] = u[i]
      /\ \A i \in 1..n : q[k + i] = v[i]
      /\ \A i \in 1..(k + n) : i \in 1..k \/ (i - k \in 1..n /\ q[i] = v[i - k])
  BY <1>0, Joined
<1>2. /\ \A i \in 1..k : SegmentOK(u[i], m)
      /\ \A i \in 2..k : u[i].seq = EndOf(u[i - 1])
      /\ \A i \in 1..n : SegmentOK(v[i], m)
      /\ \A i \in 2..n : v[i].seq = EndOf(v[i - 1])
  BY DEF Chain
<1>3. k # 0 /\ n # 0 => v[1].seq = EndOf(u[k])
  BY <1>0, EmptySeq
<1> HIDE DEF q, k, n
<1>4. \A i \in 1..Len(q) : SegmentOK(q[i], m)
  BY <1>1, <1>2
<1>5. ASSUME NEW i \in 2..Len(q)
      PROVE  q[i].seq = EndOf(q[i - 1])
  <2>1. CASE i <= k
    <3>1. i \in 1..k /\ i - 1 \in 1..k /\ i \in 2..k
      BY <1>1, <2>1
    <3> QED
      BY <1>1, <1>2, <3>1
  <2>2. CASE i = k + 1
    <3>1. k # 0 /\ n # 0 /\ 1 \in 1..n /\ k \in 1..k /\ i - 1 = k
      BY <1>1, <2>2
    <3>2. q[k + 1] = v[1] /\ q[k] = u[k]
      BY <1>1, <3>1
    <3> QED
      BY <1>3, <2>2, <3>1, <3>2
  <2>3. CASE i > k + 1
    <3> DEFINE j == i - k
    <3>1. j \in 2..n /\ j \in 1..n /\ j - 1 \in 1..n /\ k + j = i /\ k + (j - 1) = i - 1
      BY <1>1, <2>3
    <3> HIDE DEF j
    <3>2. q[k + j] = v[j] /\ q[k + (j - 1)] = v[j - 1]
      BY <1>1, <3>1
    <3> QED
      BY <1>2, <3>1, <3>2
  <2> QED
    BY <1>1, <2>1, <2>2, <2>3
<1> QED
  BY <1>1, <1>4, <1>5 DEF Chain, q

-----------------------------------------------------------------------------
(* The invariant                                                           *)

\* What is assumed of the peer and of the application: the right edge of the window
\* does not move back, the SYN offers room for a segment, and no length of a write is
\* cut to the width of u16_t.
Regular ==
    /\ MayShrink = FALSE
    /\ \A w \in SynWindows : w >= 2
    /\ \A n \in Lengths : n < U16

Pcb ==
    [state : {"SYN_RCVD", "ESTABLISHED", "FIN_WAIT_1"},
     unsent : Seq(Segment), unacked : Seq(Segment),
     snd_lbb : Nat, snd_nxt : Nat, lastack : Nat, snd_wl2 : Nat,
     snd_wnd : Nat, snd_wnd_max : Nat, snd_buf : Int, snd_queuelen : Int,
     unsent_oversize : Nat, cwnd : Nat, ssthresh : Nat, dupacks : 0..4,
     memerr : BOOLEAN, fin : BOOLEAN, infr : BOOLEAN, rtime : BOOLEAN, persist : BOOLEAN]

FinBit(p) == IF p.fin THEN 1 ELSE 0

\* The queue q is what is left of the numbers below e, and the accounts follow.
Content(p, q, e) ==
    /\ Chain(q, MssLocal(p)) /\ Covers(q, p.lastack, e)
    /\ ~p.fin => \A i \in 1..Len(q) : ~q[i].fin
    /\ p.snd_queuelen = Pbufs(q) /\ p.snd_queuelen <= SND_QUEUELEN + FinBit(p)
    /\ p.snd_buf = SND_BUF - Volume(q) /\ p.snd_buf >= 0

\* The windows; off is the right edge the peer has offered.  cwnd lets a whole segment
\* out, and a closed window has its timer.
Windowed(p, e, off) ==
    /\ p.snd_wnd <= p.snd_wnd_max /\ p.snd_wnd_max >= 2
    /\ p.lastack + p.snd_wnd <= off
    /\ p.snd_nxt <= off + 1 /\ p.snd_nxt <= e
    /\ p.cwnd >= 1
    /\ p.lastack > 0 => p.cwnd >= MSS
    /\ p.infr => p.ssthresh >= MSS
    /\ p.lastack > 0 /\ p.snd_wnd = 0 => p.persist

\* The room behind the last segment that is not sent.
Oversize(p) ==
    p.unsent_oversize > 0 =>
        /\ p.unsent # <<>> /\ LastLen(p) > 0
        /\ p.unsent_oversize <= MssLocal(p) - LastLen(p)

\* What is sent is timed and has been within the window.
Flight(p) ==
    /\ p.unacked # <<>> => p.rtime
    /\ \A i \in 1..Len(p.unacked) :
          p.unacked[i].seq + Len(p.unacked[i].data) <= p.lastack + p.snd_wnd

\* What holds also in the middle of a step, whatever the place of the segments of q.
Mid(p, q, e, off) ==
    p \in Pcb /\ Content(p, q, e) /\ Windowed(p, e, off) /\ Oversize(p) /\ Flight(p)

\* What holds when tcp_output is called and after it.
POK(p, e, off) == Mid(p, p.unacked \o p.unsent, e, off) /\ p.snd_wl2 = p.lastack

\* The segments q in the middle of a fast retransmission: the first one went back to
\* the front of unsent, in front of the others.
Resent(p, q) ==
    \E s \in Segment, w \in Seq(Segment) :
        /\ p.unsent = <<s>> \o w /\ q = (<<s>> \o p.unacked) \o w
        /\ p.infr /\ Fits(p, s)

\* The invariant, for a pcb, the count of the application and the edge offered.
Sound(p, n, off) ==
    /\ n \in 0..StreamLen /\ off \in Nat
    /\ p.fin <=> p.state = "FIN_WAIT_1"
    /\ p.state = "SYN_RCVD" => p.lastack = 0
    /\ ~p.fin => p.snd_lbb = 1 + n
    /\ p.snd_lbb <= StreamLen + 2
    /\ POK(p, 1 + n + FinBit(p), off)

IInv == Sound(pcb, asked, offered)

\* The result of tcp_output.
Output(p, ackNow, r) ==
    IF ackNow /\ (p.unsent = <<>> \/ ~Fits(p, Head(p.unsent)))
    THEN r = p
    ELSE IF Persists(p)
    THEN r = [p EXCEPT !.persist = TRUE, !.memerr = FALSE]
    ELSE r = tcp_output_segments(p, Sent(p))

-----------------------------------------------------------------------------
(* tcp_output                                                              *)

\* The fields of a pcb.
LEMMA PcbFacts ==
    ASSUME NEW p \in Pcb
    PROVE  /\ p.state \in {"SYN_RCVD", "ESTABLISHED", "FIN_WAIT_1"}
           /\ p.unsent \in Seq(Segment) /\ p.unacked \in Seq(Segment)
           /\ Len(p.unsent) \in Nat /\ Len(p.unacked) \in Nat
           /\ p.snd_lbb \in Nat /\ p.snd_nxt \in Nat /\ p.lastack \in Nat /\ p.snd_wl2 \in Nat
           /\ p.snd_wnd \in Nat /\ p.snd_wnd_max \in Nat
           /\ p.snd_buf \in Int /\ p.snd_queuelen \in Int
           /\ p.unsent_oversize \in Nat /\ p.cwnd \in Nat /\ p.ssthresh \in Nat
           /\ p.dupacks \in 0..4 /\ p.memerr \in BOOLEAN /\ p.fin \in BOOLEAN
           /\ p.infr \in BOOLEAN /\ p.rtime \in BOOLEAN /\ p.persist \in BOOLEAN
BY LenProperties DEF Pcb

\* The constants.
LEMMA Constants ==
    /\ MSS \in Nat /\ MSS >= 1 /\ SND_QUEUELEN \in Nat /\ SND_QUEUELEN >= 1
    /\ SND_BUF \in Nat /\ StreamLen \in Nat /\ U16 \in Nat /\ SND_BUF < U16
    /\ \A w \in SynWindows \cup Windows : w \in Nat /\ w < U16
    /\ \A n \in Lengths : n \in Nat /\ n >= 1
BY SendAssumption

\* mss_local, when a window of two bytes was seen.
LEMMA MssLocalFacts ==
    ASSUME NEW p, p.snd_wnd_max \in Nat, p.snd_wnd_max >= 2
    PROVE  /\ MssLocal(p) \in Nat /\ MssLocal(p) >= 1 /\ MssLocal(p) <= MSS
           /\ MssLocal(p) = Smaller(MSS, p.snd_wnd_max \div 2)
<1> DEFINE h == p.snd_wnd_max \div 2
<1>1. h \in Nat /\ h >= 1
  OBVIOUS
<1> HIDE DEF h
<1>2. MssLocal(p) = LET half == Smaller(MSS, h) IN IF half = 0 THEN MSS ELSE half
  BY DEF MssLocal, h
<1>3. Smaller(MSS, h) \in Nat /\ Smaller(MSS, h) >= 1 /\ Smaller(MSS, h) <= MSS
  BY <1>1, Constants DEF Smaller
<1> QED
  BY <1>2, <1>3 DEF h

\* It grows with the largest window.
LEMMA MssLocalGrows ==
    ASSUME NEW p, NEW r, p.snd_wnd_max \in Nat, r.snd_wnd_max \in Nat,
           2 <= p.snd_wnd_max, p.snd_wnd_max <= r.snd_wnd_max
    PROVE  MssLocal(p) <= MssLocal(r)
<1> DEFINE a == p.snd_wnd_max \div 2
           b == r.snd_wnd_max \div 2
<1>1. a \in Nat /\ b \in Nat /\ a <= b
  OBVIOUS
<1>2. MssLocal(p) = Smaller(MSS, a) /\ MssLocal(r) = Smaller(MSS, b)
  BY MssLocalFacts
<1> HIDE DEF a, b
<1> QED
  BY <1>1, <1>2, Constants DEF Smaller

\* A chain of segments of at most m bytes is one of at most n bytes, if m is less.
LEMMA ChainWider ==
    ASSUME NEW m \in Nat, NEW n \in Nat, m <= n, NEW q, Chain(q, m)
    PROVE  Chain(q, n)
<1>1. \A i \in 1..Len(q) : Len(q[i].data) \in 0..m
  BY ChainFacts
<1> QED
  BY <1>1 DEF Chain, SegmentOK

\* The smaller one of the windows.
LEMMA WndFacts ==
    ASSUME NEW p \in Pcb
    PROVE  Wnd(p) \in Nat /\ Wnd(p) <= p.snd_wnd /\ Wnd(p) <= p.cwnd
           /\ (Wnd(p) = p.snd_wnd \/ Wnd(p) = p.cwnd)
BY PcbFacts DEF Wnd, Smaller

\* The segments that tcp_output sends fit, and the first one is sent if it fits and
\* Nagle's algorithm does not look at it.
LEMMA SentFacts ==
    ASSUME NEW p \in Pcb
    PROVE  /\ Sent(p) \in 0..Len(p.unsent)
           /\ \A i \in 1..Sent(p) : Fits(p, p.unsent[i])
           /\ p.unsent # <<>> /\ Fits(p, p.unsent[1]) /\ (p.unacked = <<>> \/ p.infr) =>
                 Sent(p) >= 1
<1> DEFINE T == {n \in 0..Len(p.unsent) :
                    \A i \in 1..n : /\ Fits(p, p.unsent[i])
                                    /\ tcp_do_output_nagle(p, i) \/ p.memerr \/ p.fin}
<1>1. Len(p.unsent) \in Nat /\ p.unsent \in Seq(Segment)
  BY PcbFacts
<1>2. 0 \in T
  BY <1>1
<1>3. T \subseteq Int /\ \A k \in T : k <= Len(p.unsent)
  BY <1>1
<1>4. Sent(p) = Max(T)
  BY DEF Sent
<1>5. \A n \in T : n \in 0..Len(p.unsent) /\ \A i \in 1..n : Fits(p, p.unsent[i])
  OBVIOUS
<1>6. p.unsent # <<>> /\ Fits(p, p.unsent[1]) /\ (p.unacked = <<>> \/ p.infr) => 1 \in T
  <2> SUFFICES ASSUME p.unsent # <<>>, Fits(p, p.unsent[1]), p.unacked = <<>> \/ p.infr
               PROVE  1 \in T
    OBVIOUS
  <2>1. 1 \in 0..Len(p.unsent)
    BY <1>1, EmptySeq
  <2>2. tcp_do_output_nagle(p, 1)
    BY DEF tcp_do_output_nagle
  <2>3. \A i \in 1..1 : i = 1
    OBVIOUS
  <2> QED
    BY <2>1, <2>2, <2>3
<1> HIDE DEF T
<1> DEFINE b == Len(p.unsent)
<1>7. b \in Int /\ T # {} /\ T \subseteq Int /\ \A k \in T : k <= b
  BY <1>1, <1>2, <1>3
<1> HIDE DEF b
<1>8. Max(T) \in T /\ \A k \in T : k <= Max(T)
  BY <1>7, MaxIsGreatest
<1> QED
  BY <1>4, <1>5, <1>6, <1>8

\* s is one of the elements of q.
Inside(s, q) == \E i \in 1..Len(q) : s = q[i]

\* What is in two sequences that are joined is in one of them.
LEMMA InsideJoined ==
    ASSUME NEW S, NEW u \in Seq(S), NEW v \in Seq(S), NEW s
    PROVE  Inside(s, u \o v) <=> Inside(s, u) \/ Inside(s, v)
<1>1. ASSUME Inside(s, u \o v)
      PROVE  Inside(s, u) \/ Inside(s, v)
  <2>1. PICK i \in 1..Len(u \o v) : s = (u \o v)[i]
    BY <1>1 DEF Inside
  <2>2. \/ \E j \in 1..Len(u) : (u \o v)[i] = u[j]
        \/ \E j \in 1..Len(v) : (u \o v)[i] = v[j]
    BY JoinedFrom
  <2> DEFINE x == (u \o v)[i]
  <2> HIDE DEF x
  <2> QED
    BY <2>1, <2>2 DEF Inside, x
<1> DEFINE m == Len(u)
           n == Len(v)
           q == u \o v
<1>2. /\ m \in Nat /\ n \in Nat /\ Len(q) = m + n
      /\ \A i \in 1..m : q[i] = u[i]
      /\ \A i \in 1..n : q[m + i] = v[i]
  BY Joined
<1> HIDE DEF q
<1>3. ASSUME Inside(s, u)
      PROVE  Inside(s, q)
  <2>1. PICK i \in 1..m : s = u[i]
    BY <1>3 DEF Inside
  <2> HIDE DEF m, n
  <2> QED
    BY <1>2, <2>1 DEF Inside
<1>4. ASSUME Inside(s, v)
      PROVE  Inside(s, q)
  <2>1. PICK i \in 1..n : s = v[i]
    BY <1>4 DEF Inside
  <2> DEFINE k == m + i
  <2> HIDE DEF m, n
  <2>2. k \in 1..Len(q) /\ q[k] = v[i]
    BY <1>2
  <2> HIDE DEF k
  <2> QED
    BY <2>1, <2>2 DEF Inside
<1> QED
  BY <1>1, <1>3, <1>4 DEF q

\* The beginning of a sequence with one element in front.
LEMMA PartInFront ==
    ASSUME NEW S, NEW w \in Seq(S), NEW s \in S, NEW n \in 1..(Len(w) + 1)
    PROVE  /\ SubSeq(<<s>> \o w, 1, n) = <<s>> \o SubSeq(w, 1, n - 1)
           /\ SubSeq(<<s>> \o w, n + 1, Len(w) + 1) = SubSeq(w, n, Len(w))
<1> DEFINE v == <<s>> \o w
           k == n - 1
           l == Len(w)
           a == SubSeq(w, 1, k)
           b == SubSeq(w, k + 1, l)
           c == SubSeq(v, 1, n)
           d == SubSeq(v, n + 1, Len(v))
           e == <<s>> \o a
<1>1. /\ v \in Seq(S) /\ Len(v) = l + 1 /\ v[1] = s
      /\ \A i \in 2..(l + 1) : v[i] = w[i - 1]
  BY OneInFront
<1>2. l \in Nat /\ k \in 0..l /\ n \in 0..(l + 1) /\ k + 1 = n /\ n \in Nat /\ k \in Nat /\ k <= l
  BY LenProperties
<1> HIDE DEF v, k, l
<1>3. /\ a \in Seq(S) /\ Len(a) = k /\ \A i \in 1..k : a[i] = w[i]
      /\ b \in Seq(S) /\ Len(b) = l - k /\ \A i \in 1..(l - k) : b[i] = w[k + i]
  BY <1>2, Part DEF l
<1>4. n \in 0..Len(v)
  BY <1>1, <1>2
<1>5. /\ c \in Seq(S) /\ Len(c) = n /\ \A i \in 1..n : c[i] = v[i]
      /\ d \in Seq(S) /\ Len(d) = Len(v) - n /\ \A i \in 1..(Len(v) - n) : d[i] = v[n + i]
  BY <1>1, <1>4, Part
<1> HIDE DEF a, b, c, d
<1>6. /\ e \in Seq(S) /\ Len(e) = k + 1 /\ e[1] = s
      /\ \A i \in 2..(k + 1) : e[i] = a[i - 1]
  BY <1>3, OneInFront
<1> HIDE DEF e
<1>7. c = e
  <2>1. \A i \in 1..n : c[i] = e[i]
    <3> SUFFICES ASSUME NEW i \in 1..n
                 PROVE  c[i] = e[i]
      OBVIOUS
    <3>1. CASE i = 1
      BY <1>1, <1>5, <1>6, <3>1
    <3>2. CASE i # 1
      <4>1. i \in 2..(l + 1) /\ i \in 2..(k + 1) /\ i - 1 \in 1..k
        BY <1>2, <3>2
      <4> QED
        BY <1>1, <1>3, <1>5, <1>6, <4>1
    <3> QED
      BY <3>1, <3>2
  <2>2. Len(c) = Len(e)
    BY <1>2, <1>5, <1>6
  <2> QED
    BY <1>5, <1>6, <2>1, <2>2, SeqEqual
<1>8. d = b
  <2>1. \A i \in 1..(l - k) : d[i] = b[i]
    <3> SUFFICES ASSUME NEW i \in 1..(l - k)
                 PROVE  d[i] = b[i]
      OBVIOUS
    <3> DEFINE x == n + i
    <3>1. i \in 1..(Len(v) - n) /\ x \in 2..(l + 1) /\ x - 1 = k + i /\ x = n + i
      BY <1>1, <1>2
    <3> HIDE DEF x
    <3>2. d[i] = v[x]
      BY <1>5, <3>1
    <3>3. v[x] = w[x - 1]
      BY <1>1, <3>1
    <3> QED
      BY <1>3, <3>1, <3>2, <3>3
  <2>2. Len(d) = Len(b) /\ Len(b) = l - k
    BY <1>1, <1>2, <1>3, <1>5
  <2> QED
    BY <1>3, <1>5, <2>1, <2>2, SeqEqual
<1>9. SubSeq(v, n + 1, l + 1) = b /\ b = SubSeq(w, n, l) /\ c = <<s>> \o SubSeq(w, 1, n - 1)
  BY <1>1, <1>2, <1>7, <1>8 DEF a, b, d, e, k
<1> QED
  BY <1>9 DEF c, v, l

\* A sequence whose second half is divided.
LEMMA Regroup ==
    ASSUME NEW S
    PROVE  \A u, v, x, y \in Seq(S) : v = x \o y => (u \o x) \o y = u \o v
BY ConcatAssociative, SMT

\* When n segments have been moved, the queues together are q again.
LEMMA MovedOK ==
    ASSUME NEW p \in Pcb, NEW m \in Nat, NEW q, Chain(q, m),
           NEW n \in 0..Len(p.unsent), q = p.unacked \o p.unsent \/ (Resent(p, q) /\ n >= 1)
    PROVE  LET out == SubSeq(p.unsent, 1, n)
               rest == SubSeq(p.unsent, n + 1, Len(p.unsent))
               sent == InsertAll(p.unacked, out)
           IN  /\ sent \in Seq(Segment) /\ sent \o rest = q
               /\ \A i \in 1..Len(sent) : \/ \E j \in 1..Len(p.unacked) : sent[i] = p.unacked[j]
                                          \/ \E j \in 1..Len(out) : sent[i] = out[j]
<1> DEFINE u == p.unacked
           v == p.unsent
           out == SubSeq(v, 1, n)
           rest == SubSeq(v, n + 1, Len(v))
           sent == InsertAll(u, out)
<1>1. u \in Seq(Segment) /\ v \in Seq(Segment) /\ Len(v) \in Nat
  BY PcbFacts
<1>2. /\ out \in Seq(Segment) /\ rest \in Seq(Segment) /\ v = out \o rest
  BY <1>1, Part
<1>3. CASE q = u \o v
  <2> HIDE DEF out, rest, u, v
  <2>1. (u \o out) \o rest = q
    <3>1. (u \o out) \o rest = u \o v
      BY ONLY <1>1, <1>2, Regroup, SMT
    <3> QED
      BY <1>3, <3>1
  <2>2. u \o out \in Seq(Segment)
    BY <1>1, <1>2, ConcatProperties
  <2>3. Chain((u \o out) \o rest, m)
    BY <2>1
  <2>4. Sorted(u \o out)
    BY <1>2, <2>2, <2>3, ChainParts, ChainOrder
  <2>5. sent = u \o out
    BY <1>1, <1>2, <2>4, InsertAllAppends
  <2>6. \A i \in 1..Len(sent) : \/ \E j \in 1..Len(u) : sent[i] = u[j]
                                \/ \E j \in 1..Len(out) : sent[i] = out[j]
    BY <1>1, <1>2, <2>5, JoinedFrom
  <2>7. sent \in Seq(Segment) /\ sent \o rest = q
    BY <2>1, <2>2, <2>5
  <2> QED
    BY <2>6, <2>7 DEF u, v, out, rest
<1>4. CASE Resent(p, q) /\ n >= 1
  <2>1. PICK s \in Segment, w \in Seq(Segment) : v = <<s>> \o w /\ q = (<<s>> \o u) \o w
    BY <1>4 DEF Resent
  <2> DEFINE a == SubSeq(w, 1, n - 1)
             b == SubSeq(w, n, Len(w))
             x == <<s>> \o u
  <2>2. Len(v) = Len(w) + 1 /\ Len(w) \in Nat
    BY <2>1, OneInFront, LenProperties
  <2>3. n \in 1..(Len(w) + 1) /\ n - 1 \in 0..Len(w) /\ n - 1 + 1 = n
    BY <1>1, <1>4, <2>2
  <2>4. out = <<s>> \o a /\ rest = b
    <3>1. /\ SubSeq(<<s>> \o w, 1, n) = <<s>> \o SubSeq(w, 1, n - 1)
          /\ SubSeq(<<s>> \o w, n + 1, Len(w) + 1) = SubSeq(w, n, Len(w))
      BY <2>3, PartInFront
    <3> QED
      BY <2>1, <2>2, <3>1
  <2>5. a \in Seq(Segment) /\ b \in Seq(Segment) /\ w = a \o b
    <3> DEFINE k == n - 1
    <3>1. k \in 0..Len(w) /\ k + 1 = n
      BY <2>3
    <3> HIDE DEF k
    <3>2. /\ SubSeq(w, 1, k) \in Seq(Segment) /\ SubSeq(w, k + 1, Len(w)) \in Seq(Segment)
          /\ SubSeq(w, 1, k) \o SubSeq(w, k + 1, Len(w)) = w
      BY <3>1, Part
    <3>3. SubSeq(w, 1, k) = a /\ SubSeq(w, k + 1, Len(w)) = b
      BY <3>1 DEF k
    <3> QED
      BY <3>2, <3>3
  <2>6. x \in Seq(Segment)
    BY <1>1, OneInFront
  <2> HIDE DEF out, rest, u, v, a, b, x
  <2>7. (x \o a) \o b = q
    <3>1. (x \o a) \o b = x \o w
      BY <2>5, <2>6, Regroup, SMT
    <3> QED
      BY <2>1, <3>1 DEF x
  <2>8. x \o a \in Seq(Segment)
    BY <2>5, <2>6, ConcatProperties
  <2>9. Chain((x \o a) \o b, m)
    BY <2>7
  <2>10. Chain(x \o a, m)
    BY <2>5, <2>8, <2>9, ChainParts
  <2>11. Sorted(x \o a) /\ Sorted(x)
    BY <2>5, <2>6, <2>10, ChainParts, ChainOrder
  <2>12. \A i \in 1..Len(u) : ~(u[i].seq < s.seq)
    <3>1. /\ Len(x) = Len(u) + 1 /\ x[1] = s /\ Len(u) \in Nat
          /\ \A i \in 2..(Len(u) + 1) : x[i] = u[i - 1]
      BY <1>1, OneInFront, LenProperties DEF x
    <3>2. \A i \in 1..Len(u) : u[i].seq \in Nat
      <4>1. \A i \in 1..Len(u) : u[i] \in Segment
        BY <1>1, ElementOfSeq
      <4> QED
        BY <4>1 DEF Segment
    <3> SUFFICES ASSUME NEW i \in 1..Len(u)
                 PROVE  ~(u[i].seq < s.seq)
      OBVIOUS
    <3> DEFINE j == i + 1
    <3>3. j \in 2..(Len(u) + 1) /\ j - 1 = i /\ j \in 1..Len(x) /\ 1 \in 1..Len(x) /\ 1 < j
      BY <3>1
    <3> HIDE DEF j
    <3>4. x[1].seq < x[j].seq
      BY <2>11, <3>3 DEF Sorted
    <3>5. x[j] = u[i]
      BY <3>1, <3>3
    <3>6. s.seq \in Nat
      BY DEF Segment
    <3> QED
      BY <3>1, <3>2, <3>4, <3>5, <3>6
  <2>13. sent = x \o a
    <3>1. Sorted((<<s>> \o u) \o a)
      BY <2>11 DEF x
    <3>2. InsertAll(u, <<s>> \o a) = (<<s>> \o u) \o a
      BY <1>1, <2>5, <2>12, <3>1, InsertAllReturns
    <3> QED
      BY <2>4, <3>2 DEF x
  <2>14. sent \in Seq(Segment) /\ sent \o rest = q
    BY <2>4, <2>7, <2>8, <2>13
  <2>15. ASSUME NEW i \in 1..Len(sent)
         PROVE  \/ \E j \in 1..Len(u) : sent[i] = u[j]
                \/ \E j \in 1..Len(out) : sent[i] = out[j]
    <3>1. Len(out) = Len(a) + 1 /\ out[1] = s /\ Len(a) \in Nat
          /\ \A j \in 2..(Len(a) + 1) : out[j] = a[j - 1]
      BY <2>4, <2>5, OneInFront, LenProperties
    <3>2. Len(x) = Len(u) + 1 /\ x[1] = s /\ Len(u) \in Nat
          /\ \A j \in 2..(Len(u) + 1) : x[j] = u[j - 1]
      BY <1>1, OneInFront, LenProperties DEF x
    <3>3. \/ \E j \in 1..Len(x) : sent[i] = x[j]
          \/ \E j \in 1..Len(a) : sent[i] = a[j]
      <4>1. a \in Seq(Segment)
        BY <2>5
      <4>2. i \in 1..Len(x \o a)
        BY <2>13
      <4>3. \/ \E j \in 1..Len(x) : (x \o a)[i] = x[j]
            \/ \E j \in 1..Len(a) : (x \o a)[i] = a[j]
        BY ONLY <2>6, <4>1, <4>2, JoinedFrom
      <4> QED
        BY <2>13, <4>3
    <3>4. CASE \E j \in 1..Len(x) : sent[i] = x[j]
      <4>1. PICK j \in 1..Len(x) : sent[i] = x[j]
        BY <3>4
      <4>2. CASE j = 1
        <5>1. 1 \in 1..Len(out) /\ sent[i] = out[1]
          BY <3>1, <3>2, <4>1, <4>2
        <5> QED
          BY <5>1
      <4>3. CASE j # 1
        <5>1. j \in 2..(Len(u) + 1) /\ j - 1 \in 1..Len(u)
          BY <3>2, <4>3
        <5>2. sent[i] = u[j - 1]
          BY <3>2, <4>1, <5>1
        <5> QED
          BY <5>1, <5>2
      <4> QED
        BY <4>2, <4>3
    <3>5. CASE \E j \in 1..Len(a) : sent[i] = a[j]
      <4>1. PICK j \in 1..Len(a) : sent[i] = a[j]
        BY <3>5
      <4> DEFINE k == j + 1
      <4>2. k \in 2..(Len(a) + 1) /\ k \in 1..Len(out) /\ k - 1 = j
        BY <3>1
      <4> HIDE DEF k
      <4>3. sent[i] = out[k]
        BY <3>1, <4>1, <4>2
      <4> QED
        BY <4>2, <4>3
    <3> QED
      BY <3>3, <3>4, <3>5
  <2> QED
    BY <2>14, <2>15 DEF u, v, out, rest
<1> QED
  BY <1>3, <1>4

\* The segments of a chain end at or before its end.
LEMMA CoversBelow ==
    ASSUME NEW m \in Nat, NEW q, Chain(q, m), NEW a \in Nat, NEW e \in Nat, Covers(q, a, e),
           NEW i \in 1..Len(q)
    PROVE  EndOf(q[i]) \in Nat /\ EndOf(q[i]) <= e
<1>1. /\ Len(q) \in Nat /\ Len(q) \in 1..Len(q) /\ q # <<>>
      /\ \A j \in 1..Len(q) : q[j].seq \in Nat /\ EndOf(q[j]) \in Nat /\ q[j].seq < EndOf(q[j])
  <2>1. q \in Seq(Segment)
    BY DEF Chain
  <2> QED
    BY <2>1, ChainFacts, EmptySeq
<1>2. EndOf(q[Len(q)]) = e
  BY <1>1 DEF Covers
<1>3. CASE i = Len(q)
  BY <1>1, <1>2, <1>3
<1>4. CASE i # Len(q)
  <2>1. EndOf(q[i]) <= q[Len(q)].seq
    BY <1>1, <1>4, ChainOrder
  <2> QED
    BY <1>1, <1>2, <2>1
<1> QED
  BY <1>3, <1>4

\* The segments of unsent are among those of q.
LEMMA UnsentInside ==
    ASSUME NEW p \in Pcb, NEW q, q = p.unacked \o p.unsent \/ Resent(p, q),
           NEW j \in 1..Len(p.unsent)
    PROVE  Inside(p.unsent[j], q)
<1>1. p.unsent \in Seq(Segment) /\ p.unacked \in Seq(Segment)
  BY PcbFacts
<1>2. CASE q = p.unacked \o p.unsent
  <2> DEFINE u == p.unacked
             v == p.unsent
             m == Len(u)
             n == Len(v)
             c == u \o v
  <2>1. u \in Seq(Segment) /\ v \in Seq(Segment) /\ m = Len(u) /\ n = Len(v) /\ j \in 1..n
    BY <1>1
  <2> HIDE DEF u, v, m, n
  <2>2. /\ m \in Nat /\ n \in Nat /\ Len(c) = m + n
        /\ \A i \in 1..n : c[m + i] = v[i]
    BY <2>1, Joined
  <2> HIDE DEF c
  <2>3. m + j \in 1..Len(c) /\ c[m + j] = v[j]
    BY <2>1, <2>2
  <2>4. q = c /\ v = p.unsent
    BY <1>2 DEF c, u, v
  <2> QED
    BY <2>3, <2>4 DEF Inside
<1>3. CASE Resent(p, q)
  <2>1. PICK s \in Segment, w \in Seq(Segment) :
            p.unsent = <<s>> \o w /\ q = (<<s>> \o p.unacked) \o w
    BY <1>3 DEF Resent
  <2> DEFINE x == <<s>> \o p.unacked
             m == Len(x)
             n == Len(w)
  <2>2. x \in Seq(Segment) /\ m = Len(p.unacked) + 1 /\ x[1] = s
    BY <1>1, OneInFront
  <2>3. /\ Len(p.unsent) = n + 1 /\ p.unsent[1] = s
        /\ \A i \in 2..(n + 1) : p.unsent[i] = w[i - 1]
    BY <2>1, OneInFront
  <2>6. m >= 1
    BY <1>1, <2>2, LenProperties
  <2>9. x \in Seq(Segment) /\ w \in Seq(Segment) /\ m = Len(x) /\ n = Len(w)
    BY <2>2
  <2> HIDE DEF x, m, n
  <2>4. /\ m \in Nat /\ n \in Nat /\ Len(x \o w) = m + n
        /\ \A i \in 1..m : (x \o w)[i] = x[i]
        /\ \A i \in 1..n : (x \o w)[m + i] = w[i]
    BY <2>9, Joined
  <2>5. /\ m \in Nat /\ n \in Nat /\ Len(q) = m + n
        /\ \A i \in 1..m : q[i] = x[i]
        /\ \A i \in 1..n : q[m + i] = w[i]
    <3>1. q = x \o w
      BY <2>1 DEF x
    <3> QED
      BY <2>4, <3>1
  <2>7. CASE j = 1
    <3>1. 1 \in 1..m /\ 1 \in 1..Len(q)
      BY <2>5, <2>6
    <3> QED
      BY <2>2, <2>3, <2>5, <2>7, <3>1 DEF Inside
  <2>8. CASE j # 1
    <3> DEFINE k == j - 1
    <3>1. k \in 1..n /\ j \in 2..(n + 1) /\ m + k \in 1..Len(q)
      BY <2>3, <2>5, <2>8
    <3>2. p.unsent[j] = w[k]
      BY <2>3, <3>1
    <3> HIDE DEF k
    <3> QED
      BY <2>5, <3>1, <3>2 DEF Inside
  <2> QED
    BY <2>7, <2>8
<1> QED
  BY <1>2, <1>3

\* snd_nxt when n segments are sent stays below a bound.
LEMMA NxtBelow ==
    ASSUME NEW p \in Pcb, NEW n \in 0..Len(p.unsent), NEW b \in Nat, p.snd_nxt <= b,
           \A i \in 1..n : EndOf(p.unsent[i]) \in Nat /\ EndOf(p.unsent[i]) <= b
    PROVE  LET out == SubSeq(p.unsent, 1, n)
               nxt == Max({p.snd_nxt} \cup {out[i].seq + TCP_TCPLEN(out[i]) : i \in 1..n})
           IN  nxt \in Nat /\ nxt <= b
<1> DEFINE out == SubSeq(p.unsent, 1, n)
           T == {p.snd_nxt} \cup {out[i].seq + TCP_TCPLEN(out[i]) : i \in 1..n}
<1>1. p.unsent \in Seq(Segment) /\ p.snd_nxt \in Nat
  BY PcbFacts
<1>2. \A i \in 1..n : out[i] = p.unsent[i]
  BY <1>1, Part
<1> HIDE DEF out
<1>3. \A i \in 1..n : out[i].seq + TCP_TCPLEN(out[i]) = EndOf(p.unsent[i])
  BY <1>2 DEF EndOf
<1>4. \A k \in T : k \in Nat /\ k <= b
  BY <1>1, <1>3
<1>5. T # {} /\ T \subseteq Int /\ b \in Int
  BY <1>4
<1> HIDE DEF T
<1>6. Max(T) \in T
  BY <1>4, <1>5, MaxIsGreatest
<1>7. Max(T) \in Nat /\ Max(T) <= b
  BY <1>4, <1>6
<1> QED
  BY <1>7 DEF T, out

\* A pcb with other queues.
Moved(p, a, u, x, t, o) ==
    [p EXCEPT !.unsent = a, !.unacked = u, !.snd_nxt = x, !.rtime = t,
              !.unsent_oversize = o, !.memerr = FALSE]

\* The fields that tcp_output does not touch, but for the queues.
Steady(p, r) ==
    /\ r.state = p.state /\ r.snd_lbb = p.snd_lbb /\ r.lastack = p.lastack
    /\ r.snd_wl2 = p.snd_wl2 /\ r.snd_wnd = p.snd_wnd /\ r.snd_wnd_max = p.snd_wnd_max
    /\ r.snd_buf = p.snd_buf /\ r.snd_queuelen = p.snd_queuelen /\ r.cwnd = p.cwnd
    /\ r.ssthresh = p.ssthresh /\ r.fin = p.fin /\ r.infr = p.infr

\* The fields that neither tcp_output nor a timer touches.
Lasting(p, r) ==
    r.fin = p.fin /\ r.state = p.state /\ r.snd_lbb = p.snd_lbb /\ r.lastack = p.lastack

\* Its fields.
LEMMA MovedFields ==
    ASSUME NEW p \in Pcb, NEW a \in Seq(Segment), NEW u \in Seq(Segment), NEW x \in Nat,
           NEW t \in BOOLEAN, NEW o \in Nat
    PROVE  LET r == Moved(p, a, u, x, t, o)
           IN  /\ r \in Pcb /\ Steady(p, r) /\ r.persist = p.persist
               /\ r.unsent = a /\ r.unacked = u /\ r.snd_nxt = x /\ r.rtime = t
               /\ r.unsent_oversize = o
BY DEF Pcb, Moved, Steady

\* What Content looks at.
LEMMA ContentSame ==
    ASSUME NEW p, NEW r, NEW q, NEW e, Content(p, q, e),
           r.snd_wnd_max = p.snd_wnd_max, r.lastack = p.lastack, r.fin = p.fin,
           r.snd_queuelen = p.snd_queuelen, r.snd_buf = p.snd_buf
    PROVE  Content(r, q, e)
<1>1. MssLocal(r) = MssLocal(p)
  BY DEF MssLocal
<1>2. FinBit(r) = FinBit(p)
  BY DEF FinBit
<1> QED
  BY <1>1, <1>2 DEF Content

\* The segment at the end of unsent stays there.
LEMMA LastStays ==
    ASSUME NEW p \in Pcb, NEW r, NEW n \in 0..Len(p.unsent), n # Len(p.unsent),
           r.unsent = SubSeq(p.unsent, n + 1, Len(p.unsent))
    PROVE  r.unsent # <<>> /\ LastLen(r) = LastLen(p)
<1> DEFINE v == p.unsent
           w == SubSeq(v, n + 1, Len(v))
           k == Len(v) - n
<1>1. v \in Seq(Segment) /\ Len(v) \in Nat /\ n \in 0..Len(v)
  BY PcbFacts
<1>2. k \in Nat /\ k >= 1 /\ n + k = Len(v) /\ k \in 1..(Len(v) - n)
  BY <1>1
<1>3. w \in Seq(Segment) /\ Len(w) = Len(v) - n /\ \A i \in 1..(Len(v) - n) : w[i] = v[n + i]
  BY <1>1, Part
<1>4. r.unsent = w
  OBVIOUS
<1>5. Len(w) = k
  BY <1>3
<1> HIDE DEF w, v, k
<1>6. w[k] = v[Len(v)]
  BY <1>2, <1>3
<1>7. w # <<>> /\ v # <<>>
  BY <1>1, <1>2, <1>3, <1>5, EmptySeq
<1>8. Last(w) = Last(v)
  BY <1>5, <1>6 DEF Last
<1> QED
  BY <1>4, <1>7, <1>8 DEF LastLen, v

\* After the loop that sends the segments that fit.
LEMMA SegmentsOK ==
    ASSUME NEW p, NEW q, NEW e \in Nat, NEW off \in Nat, Mid(p, q, e, off),
           p.snd_wl2 = p.lastack,
           q = p.unacked \o p.unsent \/ Resent(p, q), NEW r, r = tcp_output_segments(p, Sent(p))
    PROVE  POK(r, e, off) /\ Lasting(p, r)
<1> DEFINE n == Sent(p)
           v == p.unsent
           out == SubSeq(v, 1, n)
           rest == SubSeq(v, n + 1, Len(v))
           sent == InsertAll(p.unacked, out)
           x == Max({p.snd_nxt} \cup {out[i].seq + TCP_TCPLEN(out[i]) : i \in 1..n})
           t == p.rtime \/ n > 0
           o == IF n = Len(v) THEN 0 ELSE p.unsent_oversize
<1>0. /\ p \in Pcb /\ Content(p, q, e) /\ Windowed(p, e, off) /\ Oversize(p) /\ Flight(p)
      /\ e \in Nat /\ off \in Nat /\ p.snd_wl2 = p.lastack
      /\ (q = p.unacked \o p.unsent \/ Resent(p, q))
  BY DEF Mid
<1>r. r = Moved(p, rest, sent, x, t, o)
  BY DEF tcp_output_segments, Moved
<1>1. /\ n \in 0..Len(v) /\ \A i \in 1..n : Fits(p, v[i])
      /\ v # <<>> /\ Fits(p, v[1]) /\ (p.unacked = <<>> \/ p.infr) => n >= 1
  BY <1>0, SentFacts
<1> HIDE DEF n
<1>2. v \in Seq(Segment) /\ Len(v) \in Nat /\ n \in Nat
  BY <1>0, <1>1, PcbFacts
<1>3. Resent(p, q) => n >= 1
  <2> SUFFICES ASSUME Resent(p, q)
               PROVE  n >= 1
    OBVIOUS
  <2>1. PICK s \in Segment, w \in Seq(Segment) : v = <<s>> \o w /\ p.infr /\ Fits(p, s)
    BY DEF Resent
  <2>2. v[1] = s /\ Len(v) = Len(w) + 1 /\ Len(w) \in Nat
    BY <2>1, OneInFront, LenProperties
  <2>3. v # <<>>
    BY <1>2, <2>2, EmptySeq
  <2> QED
    BY <1>1, <2>1, <2>2, <2>3
<1> DEFINE m == MssLocal(p)
<1>4. m \in Nat /\ Chain(q, m) /\ Covers(q, p.lastack, e)
  <2>1. p.snd_wnd_max \in Nat /\ p.snd_wnd_max >= 2
    BY <1>0, PcbFacts DEF Windowed
  <2> QED
    BY <1>0, <2>1, MssLocalFacts DEF Content
<1> HIDE DEF m
<1>5. /\ sent \in Seq(Segment) /\ sent \o rest = q
      /\ \A i \in 1..Len(sent) : \/ \E j \in 1..Len(p.unacked) : sent[i] = p.unacked[j]
                                 \/ \E j \in 1..Len(out) : sent[i] = out[j]
  BY <1>0, <1>1, <1>3, <1>4, MovedOK
<1>6. /\ rest \in Seq(Segment) /\ out \in Seq(Segment) /\ Len(out) = n
      /\ \A i \in 1..n : out[i] = v[i]
  BY <1>1, <1>2, Part
<1>7. ASSUME NEW i \in 1..n
      PROVE  /\ EndOf(v[i]) \in Nat /\ EndOf(v[i]) <= e /\ EndOf(v[i]) <= off + 1
             /\ v[i].seq + Len(v[i].data) <= p.lastack + p.snd_wnd
  <2>1. i \in 1..Len(v)
    BY <1>1, <1>2
  <2>2. PICK j \in 1..Len(q) : v[i] = q[j]
    <3>1. p \in Pcb /\ (q = p.unacked \o p.unsent \/ Resent(p, q)) /\ i \in 1..Len(p.unsent)
      BY <1>0, <2>1
    <3>2. Inside(p.unsent[i], q)
      BY <3>1, UnsentInside
    <3> QED
      BY <3>2 DEF Inside
  <2>3. EndOf(v[i]) \in Nat /\ EndOf(v[i]) <= e
    <3>1. p.lastack \in Nat
      BY <1>0, PcbFacts
    <3>2. EndOf(q[j]) \in Nat /\ EndOf(q[j]) <= e
      BY <1>0, <1>4, <3>1, CoversBelow
    <3> QED
      BY <2>2, <3>2
  <2>4. /\ v[i].seq \in Nat /\ Len(v[i].data) \in Nat
        /\ EndOf(v[i]) <= v[i].seq + Len(v[i].data) + 1
    BY <1>4, <2>2, ChainFacts
  <2>5. v[i].seq - p.lastack + Len(v[i].data) <= Wnd(p)
    BY <1>1 DEF Fits
  <2>6. Wnd(p) \in Nat /\ Wnd(p) <= p.snd_wnd /\ p.snd_wnd \in Nat /\ p.lastack \in Nat
    BY <1>0, PcbFacts, WndFacts
  <2>7. p.lastack + p.snd_wnd <= off
    BY <1>0 DEF Windowed
  <2> DEFINE a == v[i].seq
             b == Len(v[i].data)
             c == EndOf(v[i])
             l == p.lastack
             k == p.snd_wnd
             d == Wnd(p)
  <2>8. /\ a \in Nat /\ b \in Nat /\ c \in Nat /\ l \in Nat /\ k \in Nat /\ d \in Nat
        /\ off \in Nat /\ c <= a + b + 1 /\ a - l + b <= d /\ d <= k /\ l + k <= off
    BY <2>3, <2>4, <2>5, <2>6, <2>7
  <2> HIDE DEF a, b, c, l, k, d
  <2>9. a + b <= l + k /\ c <= off + 1
    BY <2>8
  <2> QED
    BY <2>3, <2>9 DEF a, b, c, l, k
<1>8. x \in Nat /\ x <= e /\ x <= off + 1
  <2>1. p.snd_nxt <= e /\ p.snd_nxt <= off + 1
    BY <1>0 DEF Windowed
  <2>2. x \in Nat /\ x <= e
    BY <1>0, <1>1, <1>7, <2>1, NxtBelow
  <2> DEFINE b == off + 1
  <2>3. b \in Nat /\ p.snd_nxt <= b /\ \A i \in 1..n : EndOf(v[i]) \in Nat /\ EndOf(v[i]) <= b
    BY <1>0, <1>7, <2>1
  <2> HIDE DEF b
  <2>4. x <= b
    BY <1>0, <1>1, <2>3, NxtBelow
  <2> QED
    BY <2>2, <2>4 DEF b
<1>9. t \in BOOLEAN /\ o \in Nat
  BY <1>0, PcbFacts
<1> DEFINE r2 == Moved(p, rest, sent, x, t, o)
<1>10. /\ r2 \in Pcb /\ Steady(p, r2) /\ r2.persist = p.persist
       /\ r2.unsent = rest /\ r2.unacked = sent /\ r2.snd_nxt = x /\ r2.rtime = t
       /\ r2.unsent_oversize = o
  <2> HIDE DEF rest, sent, x, t, o
  <2>1. /\ p \in Pcb /\ rest \in Seq(Segment) /\ sent \in Seq(Segment) /\ x \in Nat
        /\ t \in BOOLEAN /\ o \in Nat
    BY <1>0, <1>5, <1>6, <1>8, <1>9
  <2> QED
    BY <2>1, MovedFields
<1>11. r = r2
  BY <1>r
<1> HIDE DEF r2, x, t, o
<1>12. Content(r, q, e)
  BY <1>0, <1>10, <1>11, ContentSame DEF Steady
<1>13. Windowed(r, e, off)
  BY <1>0, <1>8, <1>10, <1>11 DEF Windowed, Steady
<1>14. Oversize(r)
  <2> SUFFICES ASSUME o > 0
               PROVE  /\ r.unsent # <<>> /\ LastLen(r) > 0
                      /\ o <= MssLocal(r) - LastLen(r)
    BY <1>10, <1>11 DEF Oversize
  <2>1. n # Len(v) /\ o = p.unsent_oversize
    BY DEF o
  <2>2. r.unsent # <<>> /\ LastLen(r) = LastLen(p)
    BY <1>0, <1>1, <1>10, <1>11, <2>1, LastStays
  <2>3. MssLocal(r) = MssLocal(p)
    BY <1>10, <1>11 DEF MssLocal, Steady
  <2> QED
    BY <1>0, <2>1, <2>2, <2>3 DEF Oversize
<1>15. Flight(r)
  <2> HIDE DEF rest, sent
  <2>1. ASSUME NEW i \in 1..Len(sent)
        PROVE  t /\ sent[i].seq + Len(sent[i].data) <= p.lastack + p.snd_wnd
    <3>1. CASE \E j \in 1..Len(p.unacked) : sent[i] = p.unacked[j]
      <4>1. PICK j \in 1..Len(p.unacked) : sent[i] = p.unacked[j]
        BY <3>1
      <4>2. p.unacked # <<>>
        <5>1. Len(p.unacked) \in Nat /\ p.unacked \in Seq(Segment)
          BY <1>0, PcbFacts
        <5>2. Len(p.unacked) # 0
          BY <4>1, <5>1
        <5> QED
          BY <5>1, <5>2, EmptySeq
      <4>3. p.rtime /\ p.unacked[j].seq + Len(p.unacked[j].data) <= p.lastack + p.snd_wnd
        BY <1>0, <4>2 DEF Flight
      <4> QED
        BY <4>1, <4>3 DEF t
    <3>2. CASE \E j \in 1..Len(out) : sent[i] = out[j]
      <4>1. PICK j \in 1..Len(out) : sent[i] = out[j]
        BY <3>2
      <4>2. j \in 1..n /\ n > 0 /\ out[j] = v[j]
        BY <1>2, <1>6, <4>1
      <4>3. v[j].seq + Len(v[j].data) <= p.lastack + p.snd_wnd
        BY <1>7, <4>2
      <4> QED
        BY <4>1, <4>2, <4>3 DEF t
    <3> QED
      BY <1>5, <3>1, <3>2
  <2>2. sent # <<>> => 1 \in 1..Len(sent)
    <3>1. Len(sent) \in Nat
      BY <1>5, LenProperties
    <3> QED
      BY <1>5, <3>1, EmptySeq
  <2> QED
    BY <1>10, <1>11, <2>1, <2>2 DEF Flight, Steady
<1>16. r.unacked \o r.unsent = q /\ r \in Pcb /\ r.snd_wl2 = r.lastack
  BY <1>0, <1>5, <1>10, <1>11 DEF Steady
<1> QED
  BY <1>10, <1>11, <1>12, <1>13, <1>14, <1>15, <1>16 DEF POK, Mid, Steady, Lasting
\* A pcb whose persist timer is started.
Persisted(p) == [p EXCEPT !.persist = TRUE, !.memerr = FALSE]

\* Its fields.
LEMMA PersistedFields ==
    ASSUME NEW p \in Pcb
    PROVE  LET r == Persisted(p)
           IN  /\ r \in Pcb /\ Steady(p, r) /\ r.persist = TRUE
               /\ r.unsent = p.unsent /\ r.unacked = p.unacked /\ r.snd_nxt = p.snd_nxt
               /\ r.rtime = p.rtime /\ r.unsent_oversize = p.unsent_oversize
BY DEF Pcb, Persisted, Steady

\* Whatever tcp_output does, the queues hold the same and the windows are kept.
LEMMA OutputOK ==
    ASSUME NEW p, NEW q, NEW e \in Nat, NEW off \in Nat, Mid(p, q, e, off),
           p.snd_wl2 = p.lastack, NEW ack \in BOOLEAN,
           q = p.unacked \o p.unsent \/ (Resent(p, q) /\ ack = FALSE),
           NEW r, Output(p, ack, r)
    PROVE  POK(r, e, off) /\ Lasting(p, r)
<1>0. /\ p \in Pcb /\ Content(p, q, e) /\ Windowed(p, e, off) /\ Oversize(p) /\ Flight(p)
      /\ e \in Nat /\ off \in Nat /\ p.snd_wl2 = p.lastack
  BY DEF Mid
<1>1. CASE ack /\ (p.unsent = <<>> \/ ~Fits(p, Head(p.unsent)))
  <2>1. r = p /\ q = p.unacked \o p.unsent
    BY <1>1 DEF Output
  <2> QED
    BY <1>0, <2>1 DEF POK, Mid, Lasting
<1>2. CASE ~(ack /\ (p.unsent = <<>> \/ ~Fits(p, Head(p.unsent)))) /\ Persists(p)
  <2>1. r = Persisted(p)
    BY <1>2 DEF Output, Persisted
  <2>2. q = p.unacked \o p.unsent
    <3> SUFFICES ASSUME Resent(p, q)
                 PROVE  FALSE
      OBVIOUS
    <3>1. PICK s \in Segment, w \in Seq(Segment) : p.unsent = <<s>> \o w /\ Fits(p, s)
      BY DEF Resent
    <3>2. p.unsent[1] = s
      BY <3>1, OneInFront
    <3>3. Head(p.unsent) = p.unsent[1]
      <4>1. p.unsent # <<>>
        BY <1>2 DEF Persists
      <4> QED
        BY <1>0, <4>1, PcbFacts, HeadTailProperties
    <3>4. ~Fits(p, Head(p.unsent))
      BY <1>2 DEF Persists
    <3> QED
      BY <3>1, <3>2, <3>3, <3>4
  <2> DEFINE r2 == Persisted(p)
  <2>3. /\ r2 \in Pcb /\ Steady(p, r2) /\ r2.persist = TRUE
        /\ r2.unsent = p.unsent /\ r2.unacked = p.unacked /\ r2.snd_nxt = p.snd_nxt
        /\ r2.rtime = p.rtime /\ r2.unsent_oversize = p.unsent_oversize
    BY <1>0, PersistedFields
  <2>4. r = r2
    BY <2>1
  <2> HIDE DEF r2
  <2>5. Content(r, q, e)
    BY <1>0, <2>3, <2>4, ContentSame DEF Steady
  <2>6. Windowed(r, e, off)
    BY <1>0, <2>3, <2>4 DEF Windowed, Steady
  <2>7. MssLocal(r) = MssLocal(p) /\ LastLen(r) = LastLen(p)
    BY <2>3, <2>4 DEF MssLocal, LastLen, Steady
  <2>8. Oversize(r) /\ Flight(r)
    BY <1>0, <2>3, <2>4, <2>7 DEF Oversize, Flight, Steady
  <2>9. q = r.unacked \o r.unsent /\ r.snd_wl2 = r.lastack
    BY <1>0, <2>2, <2>3, <2>4 DEF Steady
  <2> QED
    BY <2>3, <2>4, <2>5, <2>6, <2>8, <2>9 DEF POK, Mid, Steady, Lasting
<1>3. CASE ~(ack /\ (p.unsent = <<>> \/ ~Fits(p, Head(p.unsent)))) /\ ~Persists(p)
  <2>1. r = tcp_output_segments(p, Sent(p))
    BY <1>3 DEF Output
  <2> QED
    BY <2>1, SegmentsOK
<1> QED
  BY <1>1, <1>2, <1>3

\* tcp_output as an action.
LEMMA OutputStep ==
    ASSUME NEW p, NEW ack, tcp_output(p, ack)
    PROVE  Output(p, ack, pcb')
BY DEF tcp_output, Output

-----------------------------------------------------------------------------
(* The accounts                                                            *)

\* The pbufs and the lengths of the segments of a queue.
Clens(q) == [i \in 1..Len(q) |-> q[i].clen]
Lens(q) == [i \in 1..Len(q) |-> Len(q[i].data)]

\* They are sequences of numbers, and the accounts their totals.
LEMMA Counts ==
    ASSUME NEW q \in Seq(Segment)
    PROVE  /\ Clens(q) \in Seq(Nat) /\ Len(Clens(q)) = Len(q)
           /\ \A i \in 1..Len(q) : Clens(q)[i] = q[i].clen /\ q[i].clen \in Nat
           /\ Lens(q) \in Seq(Nat) /\ Len(Lens(q)) = Len(q)
           /\ \A i \in 1..Len(q) : Lens(q)[i] = Len(q[i].data) /\ Len(q[i].data) \in Nat
           /\ Pbufs(q) = Total(Clens(q)) /\ Pbufs(q) \in Nat
           /\ Volume(q) = Total(Lens(q)) /\ Volume(q) \in Nat
<1> DEFINE n == Len(q)
<1>1. n \in Nat
  BY LenProperties
<1>2. \A i \in 1..n : q[i].clen \in Nat /\ Len(q[i].data) \in Nat
  <2>1. \A i \in 1..n : q[i] \in Segment
    BY ElementOfSeq
  <2>2. \A s \in Segment : s.clen \in Nat /\ s.data \in Seq(Nat)
    BY DEF Segment
  <2>3. \A s \in Segment : Len(s.data) \in Nat
    BY <2>2, LenProperties
  <2> QED
    BY <2>1, <2>2, <2>3
<1>3. Clens(q) \in Seq(Nat) /\ Len(Clens(q)) = n
  BY <1>1, <1>2 DEF Clens
<1>4. Lens(q) \in Seq(Nat) /\ Len(Lens(q)) = n
  BY <1>1, <1>2 DEF Lens
<1>5. Pbufs(q) = Total(Clens(q)) /\ Volume(q) = Total(Lens(q))
  BY DEF Pbufs, Clens, Volume, Lens
<1>6. Pbufs(q) \in Nat /\ Volume(q) \in Nat
  BY <1>3, <1>4, <1>5, TotalNat
<1>7. \A i \in 1..n : Clens(q)[i] = q[i].clen /\ Lens(q)[i] = Len(q[i].data)
  BY DEF Clens, Lens
<1> QED
  BY <1>2, <1>3, <1>4, <1>5, <1>6, <1>7

\* a is computed from q element by element.
Alike(F, q, a) ==
    /\ a \in Seq(Nat) /\ Len(a) = Len(q)
    /\ \A i \in 1..Len(q) : a[i] = F[q[i]]

\* What is computed of two sequences that are joined is joined.
LEMMA JoinedAlike ==
    ASSUME NEW S, NEW u \in Seq(S), NEW v \in Seq(S), NEW F, NEW a, NEW b, NEW c,
           Alike(F, u, a), Alike(F, v, b), Alike(F, u \o v, c)
    PROVE  c = a \o b
<1> DEFINE d == a \o b
           q == u \o v
           m == Len(u)
           n == Len(v)
<1>1. /\ m \in Nat /\ n \in Nat /\ Len(q) = m + n
      /\ \A i \in 1..m : q[i] = u[i]
      /\ \A i \in 1..(m + n) : i \in 1..m \/ (i - m \in 1..n /\ q[i] = v[i - m])
  BY Joined
<1>2. a \in Seq(Nat) /\ b \in Seq(Nat) /\ m = Len(a) /\ n = Len(b)
  BY DEF Alike
<1>3. c \in Seq(Nat) /\ Len(c) = m + n /\ \A i \in 1..(m + n) : c[i] = F[q[i]]
  BY <1>1 DEF Alike
<1>4. (\A i \in 1..m : a[i] = F[u[i]]) /\ (\A i \in 1..n : b[i] = F[v[i]])
  BY DEF Alike
<1> HIDE DEF d, q, m, n
<1>5. /\ d \in Seq(Nat) /\ Len(d) = m + n
      /\ \A i \in 1..m : d[i] = a[i]
      /\ \A i \in 1..(m + n) : i \in 1..m \/ (i - m \in 1..n /\ d[i] = b[i - m])
  BY <1>2, Joined DEF d
<1>6. \A i \in 1..(m + n) : c[i] = d[i]
  <2> SUFFICES ASSUME NEW i \in 1..(m + n)
               PROVE  c[i] = d[i]
    OBVIOUS
  <2>1. CASE i \in 1..m
    <3>1. c[i] = F[q[i]] /\ q[i] = u[i] /\ a[i] = F[u[i]] /\ d[i] = a[i]
      BY <1>1, <1>3, <1>4, <1>5, <2>1
    <3> QED
      BY <3>1
  <2>2. CASE i \notin 1..m
    <3> DEFINE j == i - m
    <3>1. j \in 1..n /\ q[i] = v[j] /\ d[i] = b[j]
      BY <1>1, <1>5, <2>2
    <3> HIDE DEF j
    <3> QED
      BY <1>3, <1>4, <3>1
  <2> QED
    BY <2>1, <2>2
<1> QED
  BY <1>3, <1>5, <1>6, SeqEqual DEF d

\* The accounts of two queues add up.
LEMMA CountsConcat ==
    ASSUME NEW u \in Seq(Segment), NEW v \in Seq(Segment)
    PROVE  /\ u \o v \in Seq(Segment)
           /\ Pbufs(u \o v) = Pbufs(u) + Pbufs(v) /\ Volume(u \o v) = Volume(u) + Volume(v)
<1> DEFINE q == u \o v
           C == [s \in Segment |-> s.clen]
           L == [s \in Segment |-> Len(s.data)]
<1>1. q \in Seq(Segment)
  BY ConcatProperties
<1>2. \A x \in Seq(Segment) : Alike(C, x, Clens(x)) /\ Alike(L, x, Lens(x))
  <2> SUFFICES ASSUME NEW x \in Seq(Segment)
               PROVE  Alike(C, x, Clens(x)) /\ Alike(L, x, Lens(x))
    OBVIOUS
  <2>1. \A i \in 1..Len(x) : x[i] \in Segment
    BY ElementOfSeq
  <2>2. \A i \in 1..Len(x) : C[x[i]] = x[i].clen /\ L[x[i]] = Len(x[i].data)
    BY <2>1
  <2> HIDE DEF C, L
  <2> QED
    BY <2>2, Counts DEF Alike
<1> HIDE DEF C, L
<1>3. Clens(q) = Clens(u) \o Clens(v)
  <2>1. Alike(C, u, Clens(u)) /\ Alike(C, v, Clens(v)) /\ Alike(C, u \o v, Clens(q))
    BY <1>1, <1>2
  <2> QED
    BY <2>1, JoinedAlike
<1>4. Lens(q) = Lens(u) \o Lens(v)
  <2>1. Alike(L, u, Lens(u)) /\ Alike(L, v, Lens(v)) /\ Alike(L, u \o v, Lens(q))
    BY <1>1, <1>2
  <2> QED
    BY <2>1, JoinedAlike
<1> HIDE DEF q
<1>5. Total(Clens(q)) = Total(Clens(u)) + Total(Clens(v))
  BY <1>3, Counts, TotalConcat
<1>6. Total(Lens(q)) = Total(Lens(u)) + Total(Lens(v))
  BY <1>4, Counts, TotalConcat
<1>7. Pbufs(q) = Pbufs(u) + Pbufs(v) /\ Volume(q) = Volume(u) + Volume(v)
  BY <1>1, <1>5, <1>6, Counts
<1> QED
  BY <1>1, <1>7 DEF q

\* The accounts of nothing and of one segment.
LEMMA CountsOne ==
    /\ Pbufs(<<>>) = 0 /\ Volume(<<>>) = 0
    /\ \A s \in Segment : Pbufs(<<s>>) = s.clen /\ Volume(<<s>>) = Len(s.data)
<1>1. <<>> \in Seq(Segment) /\ Len(<<>>) = 0
  OBVIOUS
<1>2. Pbufs(<<>>) = 0 /\ Volume(<<>>) = 0
  <2>1. Len(Clens(<<>>)) = 0 /\ Len(Lens(<<>>)) = 0
    BY <1>1, Counts
  <2>2. Total(Clens(<<>>)) = 0 /\ Total(Lens(<<>>)) = 0
    BY <2>1, TotalEmpty
  <2> QED
    BY <1>1, <2>2, Counts
<1>3. ASSUME NEW s \in Segment
      PROVE  Pbufs(<<s>>) = s.clen /\ Volume(<<s>>) = Len(s.data)
  <2> DEFINE q == <<s>>
             a == s.clen
             b == Len(s.data)
  <2>1. q \in Seq(Segment) /\ Len(q) = 1 /\ q[1] = s /\ 1 \in 1..1
    OBVIOUS
  <2> HIDE DEF q
  <2>2. a \in Nat /\ b \in Nat /\ Clens(q)[1] = a /\ Lens(q)[1] = b
    BY <2>1, Counts
  <2>3. Clens(q) \in Seq(Nat) /\ Lens(q) \in Seq(Nat) /\ Len(Clens(q)) = 1 /\ Len(Lens(q)) = 1
    BY <2>1, Counts
  <2> HIDE DEF a, b
  <2>4. Clens(q) = <<a>> /\ Lens(q) = <<b>>
    <3>1. ASSUME NEW h \in Seq(Nat), NEW x \in Nat, Len(h) = 1, h[1] = x
          PROVE  h = <<x>>
      BY <3>1
    <3> QED
      BY <2>2, <2>3, <3>1
  <2>5. Pbufs(q) = a /\ Volume(q) = b
    BY <2>1, <2>2, <2>4, Counts, TotalOne
  <2> QED
    BY <2>5 DEF q, a, b
<1> QED
  BY <1>2, <1>3

\* A chain counts a pbuf for every segment, or more.
LEMMA CountsChain ==
    ASSUME NEW m \in Nat, NEW q, Chain(q, m)
    PROVE  /\ Pbufs(q) \in Nat /\ Volume(q) \in Nat /\ Pbufs(q) >= Len(q)
           /\ Pbufs(q) = 0 <=> q = <<>>
<1>1. q \in Seq(Segment) /\ Len(q) \in Nat /\ \A i \in 1..Len(q) : q[i].clen >= 1
  BY ChainFacts DEF Chain, SegmentOK
<1>2. \A i \in 1..Len(Clens(q)) : Clens(q)[i] >= 1
  BY <1>1, Counts
<1>3. Pbufs(q) >= Len(q)
  <2>1. Clens(q) \in Seq(Nat) /\ Len(Clens(q)) = Len(q) /\ Pbufs(q) = Total(Clens(q))
    BY <1>1, Counts
  <2> QED
    BY <1>2, <2>1, TotalCount
<1>4. Pbufs(q) \in Nat /\ Volume(q) \in Nat
  BY <1>1, Counts
<1>5. Len(q) = 0 <=> q = <<>>
  BY <1>1, EmptySeq
<1>6. q = <<>> => Pbufs(q) = 0
  BY CountsOne
<1> QED
  BY <1>1, <1>3, <1>4, <1>5, <1>6

-----------------------------------------------------------------------------
(* Acknowledgements                                                        *)

\* The segments at the head of a queue that are acknowledged.
LEMMA AckedFacts ==
    ASSUME NEW m \in Nat, NEW q, Chain(q, m), NEW ackno \in Nat, NEW a, a = Acked(q, ackno)
    PROVE  /\ a \in 0..Len(q)
           /\ \A i \in 1..a : EndOf(q[i]) <= ackno
           /\ a < Len(q) => EndOf(q[a + 1]) > ackno
<1> DEFINE T == {n \in 0..Len(q) : \A i \in 1..n : EndOf(q[i]) <= ackno}
           b == Len(q)
<1>1. b \in Nat /\ \A i \in 1..b : EndOf(q[i]) \in Nat
  BY ChainFacts
<1>2. a = Max(T)
  BY DEF Acked, EndOf
<1>3. \A n : n \in T <=> n \in 0..b /\ \A i \in 1..n : EndOf(q[i]) <= ackno
  OBVIOUS
<1> HIDE DEF T, b
<1>4. 0 \in T
  BY <1>1, <1>3
<1>5. b \in Int /\ T # {} /\ T \subseteq Int /\ \A k \in T : k <= b
  BY <1>1, <1>3, <1>4
<1>6. a \in T /\ \A k \in T : k <= a
  BY <1>2, <1>5, MaxIsGreatest
<1>7. ASSUME a < b, ~(EndOf(q[a + 1]) > ackno)
      PROVE  FALSE
  <2>1. a + 1 \in 0..b /\ a + 1 \in 1..b /\ a \in 0..b
    BY <1>1, <1>3, <1>6, <1>7
  <2>2. EndOf(q[a + 1]) <= ackno
    BY <1>1, <1>7, <2>1
  <2>3. \A i \in 1..(a + 1) : i \in 1..a \/ i = a + 1
    BY <2>1
  <2>4. a + 1 \in T
    BY <1>3, <1>6, <2>1, <2>2, <2>3
  <2> QED
    BY <1>6, <2>1, <2>4
<1> QED
  BY <1>3, <1>6, <1>7 DEF b

\* The queue q is divided into what an acknowledgement frees and the rest.
Divided(q, ackno, free, rest) ==
    /\ free \in Seq(Segment) /\ rest \in Seq(Segment) /\ free \o rest = q
    /\ \A i \in 1..Len(free) : EndOf(free[i]) <= ackno
    /\ rest # <<>> => EndOf(rest[1]) > ackno

\* The two parts of both queues.
FreeOf(u, v, ackno) == SubSeq(u, 1, Acked(u, ackno)) \o SubSeq(v, 1, Acked(v, ackno))
RestOf(u, v, ackno) ==
    SubSeq(u, Acked(u, ackno) + 1, Len(u)) \o SubSeq(v, Acked(v, ackno) + 1, Len(v))

\* What is freed of both queues are the first segments of the two together.
LEMMA FreedDivided ==
    ASSUME NEW m \in Nat, NEW u \in Seq(Segment), NEW v \in Seq(Segment), Chain(u \o v, m),
           NEW ackno \in Nat
    PROVE  /\ Acked(u, ackno) \in 0..Len(u) /\ Acked(v, ackno) \in 0..Len(v)
           /\ Divided(u \o v, ackno, FreeOf(u, v, ackno), RestOf(u, v, ackno))
<1> DEFINE a == Acked(u, ackno)
           b == Acked(v, ackno)
           u1 == SubSeq(u, 1, a)
           u2 == SubSeq(u, a + 1, Len(u))
           v1 == SubSeq(v, 1, b)
           v2 == SubSeq(v, b + 1, Len(v))
           free == u1 \o v1
           rest == u2 \o v2
           k == Len(u)
           n == Len(v)
<1>0. free = FreeOf(u, v, ackno) /\ rest = RestOf(u, v, ackno)
  BY DEF FreeOf, RestOf
<1>1. /\ Chain(u, m) /\ Chain(v, m) /\ k \in Nat /\ n \in Nat
      /\ u # <<>> /\ v # <<>> => v[1].seq = EndOf(u[Len(u)])
  BY ChainParts, ChainFacts
<1>2. /\ a \in 0..k /\ \A i \in 1..a : EndOf(u[i]) <= ackno
      /\ a < k => EndOf(u[a + 1]) > ackno
  BY <1>1, AckedFacts
<1>3. /\ b \in 0..n /\ \A i \in 1..b : EndOf(v[i]) <= ackno
      /\ b < n => EndOf(v[b + 1]) > ackno
  BY <1>1, AckedFacts
<1>4. /\ u1 \in Seq(Segment) /\ Len(u1) = a /\ \A i \in 1..a : u1[i] = u[i]
      /\ u2 \in Seq(Segment) /\ Len(u2) = k - a /\ \A i \in 1..(k - a) : u2[i] = u[a + i]
      /\ u1 \o u2 = u
  BY <1>2, Part
<1>5. /\ v1 \in Seq(Segment) /\ Len(v1) = b /\ \A i \in 1..b : v1[i] = v[i]
      /\ v2 \in Seq(Segment) /\ Len(v2) = n - b /\ \A i \in 1..(n - b) : v2[i] = v[b + i]
      /\ v1 \o v2 = v
  BY <1>3, Part
<1>6. a < k => b = 0
  <2> SUFFICES ASSUME a < k, b # 0
               PROVE  FALSE
    OBVIOUS
  <2>1. /\ a + 1 \in 1..k /\ k \in 1..k /\ 1 \in 1..n /\ 1 \in 1..b /\ k # 0 /\ n # 0
        /\ a + 1 < k \/ a + 1 = k
    BY <1>1, <1>2, <1>3
  <2>2. u # <<>> /\ v # <<>>
    BY <2>1, EmptySeq
  <2>3. v[1].seq = EndOf(u[k])
    BY <1>1, <2>2
  <2>4. /\ EndOf(u[a + 1]) \in Nat /\ u[k].seq \in Nat /\ EndOf(u[k]) \in Nat
        /\ u[k].seq < EndOf(u[k]) /\ EndOf(v[1]) \in Nat /\ v[1].seq < EndOf(v[1])
    BY <1>1, <2>1, ChainFacts
  <2>5. EndOf(u[a + 1]) <= EndOf(u[k])
    <3>1. CASE a + 1 = k
      BY <2>4, <3>1
    <3>2. CASE a + 1 < k
      <4>1. EndOf(u[a + 1]) <= u[k].seq
        BY <1>1, <2>1, <3>2, ChainOrder
      <4> QED
        BY <2>4, <4>1
    <3> QED
      BY <2>1, <3>1, <3>2
  <2>6. EndOf(v[1]) <= ackno /\ EndOf(u[a + 1]) > ackno
    BY <1>2, <1>3, <2>1
  <2> QED
    BY <2>3, <2>4, <2>5, <2>6
<1> HIDE DEF u1, u2, v1, v2, k, n, a, b
<1>7. free \in Seq(Segment) /\ rest \in Seq(Segment)
  BY <1>4, <1>5, ConcatProperties
<1>8. ASSUME NEW i \in 1..Len(free)
      PROVE  EndOf(free[i]) <= ackno
  <2> DEFINE s == free[i]
  <2>1. Inside(s, free)
    BY DEF Inside
  <2>2. Inside(s, u1) \/ Inside(s, v1)
    BY <1>4, <1>5, <2>1, InsideJoined
  <2> HIDE DEF free, s
  <2>3. CASE Inside(s, u1)
    <3>1. PICK j \in 1..Len(u1) : s = u1[j]
      BY <2>3 DEF Inside
    <3> QED
      BY <1>2, <1>4, <3>1 DEF s
  <2>4. CASE Inside(s, v1)
    <3>1. PICK j \in 1..Len(v1) : s = v1[j]
      BY <2>4 DEF Inside
    <3> QED
      BY <1>3, <1>5, <3>1 DEF s
  <2> QED
    BY <2>2, <2>3, <2>4
<1>9. CASE a = k
  <2>1. u2 = <<>> /\ u1 = u
    <3>1. Len(u2) = 0
      BY <1>1, <1>4, <1>9
    <3>2. u2 = <<>>
      BY <1>4, <3>1, EmptySeq
    <3> QED
      BY <1>4, <3>2, ConcatEmptySeq
  <2>2. rest = v2 /\ free = u \o v1
    BY <1>5, <2>1, ConcatEmptySeq
  <2>3. free \o rest = u \o v
    <3>1. u \in Seq(Segment) /\ v1 \in Seq(Segment) /\ v2 \in Seq(Segment)
      BY <1>5
    <3>2. (u \o v1) \o v2 = u \o (v1 \o v2)
      BY <3>1, ConcatAssociative
    <3> HIDE DEF free, rest
    <3> QED
      BY <1>5, <2>2, <3>2
  <2>4. rest # <<>> => EndOf(rest[1]) > ackno
    <3> HIDE DEF free, rest
    <3> SUFFICES ASSUME rest # <<>>
                 PROVE  EndOf(rest[1]) > ackno
      OBVIOUS
    <3>1. Len(v2) # 0
      BY <1>5, <2>2, EmptySeq
    <3>2. b < n /\ 1 \in 1..(n - b)
      BY <1>1, <1>3, <1>5, <3>1
    <3> QED
      BY <1>3, <1>5, <2>2, <3>2
  <2> HIDE DEF free, rest
  <2>5. Divided(u \o v, ackno, free, rest)
    BY <1>7, <1>8, <2>3, <2>4 DEF Divided
  <2> QED
    BY <1>0, <1>2, <1>3, <2>5 DEF a, b, k, n
<1>10. CASE a < k
  <2>1. b = 0
    BY <1>6, <1>10
  <2>2. v1 = <<>> /\ v2 = v
    <3>1. v1 = <<>>
      BY <1>5, <2>1, EmptySeq
    <3> QED
      BY <1>5, <3>1, ConcatEmptySeq
  <2>3. free = u1 /\ rest = u2 \o v
    BY <1>4, <2>2, ConcatEmptySeq
  <2>4. free \o rest = u \o v
    <3>1. u1 \in Seq(Segment) /\ u2 \in Seq(Segment) /\ v \in Seq(Segment)
      BY <1>4
    <3>2. (u1 \o u2) \o v = u1 \o (u2 \o v)
      BY ONLY <3>1, ConcatAssociative
    <3> HIDE DEF free, rest
    <3> QED
      BY <1>4, <2>3, <3>2
  <2>5. rest # <<>> => EndOf(rest[1]) > ackno
    <3>1. k - a \in Nat /\ 1 \in 1..(k - a) /\ 1 \in 1..Len(u2)
      BY <1>1, <1>2, <1>4, <1>10
    <3>2. (u2 \o v)[1] = u2[1]
      BY <1>4, <3>1, Joined
    <3> HIDE DEF free, rest
    <3> QED
      BY <1>2, <1>4, <1>10, <2>3, <3>1, <3>2
  <2> HIDE DEF free, rest
  <2>6. Divided(u \o v, ackno, free, rest)
    BY <1>7, <1>8, <2>4, <2>5 DEF Divided
  <2> QED
    BY <1>0, <1>2, <1>3, <2>6 DEF a, b, k, n
<1>11. a = k \/ a < k
  BY <1>1, <1>2
<1> QED
  BY <1>9, <1>10, <1>11, Zenon

\* What is left after an acknowledgement.
LEMMA RestContent ==
    ASSUME NEW m \in Nat, NEW q, Chain(q, m), NEW l \in Nat, NEW e \in Nat, Covers(q, l, e),
           NEW ackno \in Nat, l < ackno, ackno <= e,
           NEW free, NEW rest, Divided(q, ackno, free, rest)
    PROVE  /\ Chain(rest, m) /\ Covers(rest, ackno, e)
           /\ Pbufs(rest) = Pbufs(q) - Pbufs(free) /\ Volume(rest) = Volume(q) - Volume(free)
           /\ Pbufs(rest) <= Pbufs(q) /\ Volume(rest) <= Volume(q)
           /\ \A s : Inside(s, rest) => Inside(s, q)
<1>0. /\ free \in Seq(Segment) /\ rest \in Seq(Segment) /\ free \o rest = q
      /\ \A i \in 1..Len(free) : EndOf(free[i]) <= ackno
      /\ rest # <<>> => EndOf(rest[1]) > ackno
  BY DEF Divided
<1>1. /\ q \in Seq(Segment) /\ Len(q) \in Nat
      /\ \A i \in 1..Len(q) : /\ q[i].seq \in Nat /\ EndOf(q[i]) \in Nat
                              /\ q[i].seq < EndOf(q[i])
  BY ChainFacts
<1>2. /\ Chain(free, m) /\ Chain(rest, m)
      /\ free # <<>> /\ rest # <<>> => rest[1].seq = EndOf(free[Len(free)])
  <2>1. Chain(free \o rest, m)
    BY <1>0
  <2> QED
    BY <1>0, <2>1, ChainParts
<1>3. Covers(rest, ackno, e)
  <2>1. CASE rest = <<>>
    <3>1. free = q
      BY <1>0, <2>1, ConcatEmptySeq
    <3>2. q # <<>>
      BY DEF Covers
    <3>3. EndOf(q[Len(q)]) = e /\ Len(q) \in 1..Len(q)
      BY <1>1, <3>2, EmptySeq DEF Covers
    <3>4. EndOf(q[Len(q)]) <= ackno
      BY <1>0, <3>1, <3>3
    <3> QED
      BY <2>1, <3>3, <3>4 DEF Covers
  <2>2. CASE rest # <<>>
    <3> DEFINE k == Len(free)
               n == Len(rest)
    <3>1. /\ k \in Nat /\ n \in Nat /\ Len(q) = k + n
          /\ \A i \in 1..k : q[i] = free[i]
          /\ \A i \in 1..n : q[k + i] = rest[i]
      BY <1>0, Joined
    <3>2. n # 0 /\ k + n \in 1..Len(q) /\ 1 \in 1..n /\ n \in 1..n /\ 1 \in 1..Len(q)
          /\ k + 1 \in 1..Len(q)
      BY <1>0, <2>2, <3>1, EmptySeq
    <3>3. q # <<>>
      BY <1>1, <3>2, EmptySeq
    <3>4. EndOf(q[Len(q)]) = e /\ q[1].seq <= l
      BY <3>3 DEF Covers
    <3>5. EndOf(rest[n]) = e
      BY <3>1, <3>2, <3>4
    <3>6. rest[1].seq <= ackno
      <4>1. CASE k = 0
        <5>1. rest[1] = q[1]
          BY <3>1, <3>2, <4>1
        <5> QED
          BY <1>1, <3>2, <3>4, <5>1
      <4>2. CASE k # 0
        <5>1. free # <<>> /\ k \in 1..k
          BY <1>0, <3>1, <4>2, EmptySeq
        <5>2. rest[1].seq = EndOf(free[k])
          BY <1>2, <2>2, <5>1
        <5>3. EndOf(free[k]) <= ackno
          BY <1>0, <5>1
        <5> QED
          BY <5>2, <5>3
      <4> QED
        BY <4>1, <4>2
    <3>7. ackno < EndOf(rest[1])
      <4>1. rest[1] = q[k + 1] /\ EndOf(q[k + 1]) \in Nat
        BY <1>1, <3>1, <3>2
      <4> QED
        BY <1>0, <2>2, <4>1
    <3> HIDE DEF k
    <3> QED
      BY <2>2, <3>5, <3>6, <3>7 DEF Covers
  <2> QED
    BY <2>1, <2>2
<1>4. /\ Pbufs(q) = Pbufs(free) + Pbufs(rest) /\ Volume(q) = Volume(free) + Volume(rest)
      /\ Pbufs(free) \in Nat /\ Volume(free) \in Nat /\ Pbufs(rest) \in Nat /\ Volume(rest) \in Nat
  <2>1. Pbufs(free \o rest) = Pbufs(free) + Pbufs(rest)
        /\ Volume(free \o rest) = Volume(free) + Volume(rest)
    BY <1>0, CountsConcat
  <2>2. /\ Pbufs(free) \in Nat /\ Volume(free) \in Nat
        /\ Pbufs(rest) \in Nat /\ Volume(rest) \in Nat
    BY <1>0, Counts
  <2> QED
    BY <1>0, <2>1, <2>2
<1>5. ASSUME NEW s, Inside(s, rest)
      PROVE  Inside(s, q)
  <2>1. Inside(s, free \o rest)
    BY <1>0, <1>5, InsideJoined
  <2> QED
    BY <1>0, <2>1
<1> QED
  BY <1>2, <1>3, <1>4, <1>5

\* The window of a segment is taken.
Updated(p, a, w) ==
    [p EXCEPT !.snd_wnd = w, !.snd_wnd_max = Larger(@, w), !.snd_wl2 = a, !.persist = (w = 0)]

\* The type after that.
LEMMA UpdatedType ==
    ASSUME NEW p \in Pcb, NEW a \in Nat, NEW w \in Nat, NEW r, r = Updated(p, a, w)
    PROVE  r \in Pcb
<1> DEFINE m == Larger(p.snd_wnd_max, w)
           b == w = 0
<1>1. m \in Nat /\ b \in BOOLEAN
  BY PcbFacts DEF Larger
<1>2. r = [p EXCEPT !.snd_wnd = w, !.snd_wnd_max = m, !.snd_wl2 = a, !.persist = b]
  BY DEF Updated
<1> HIDE DEF m, b
<1> QED
  BY ONLY p \in Pcb, a \in Nat, w \in Nat, <1>1, <1>2 DEF Pcb

\* The fields after that.
LEMMA UpdatedFields ==
    ASSUME NEW p \in Pcb, NEW a, NEW w
    PROVE  LET r == Updated(p, a, w)
           IN  /\ r.snd_wnd = w /\ r.snd_wnd_max = Larger(p.snd_wnd_max, w)
               /\ r.snd_wl2 = a /\ (r.persist <=> w = 0)
               /\ r.state = p.state /\ r.unsent = p.unsent /\ r.unacked = p.unacked
               /\ r.snd_lbb = p.snd_lbb /\ r.snd_nxt = p.snd_nxt /\ r.lastack = p.lastack
               /\ r.snd_buf = p.snd_buf /\ r.snd_queuelen = p.snd_queuelen
               /\ r.unsent_oversize = p.unsent_oversize
               /\ r.cwnd = p.cwnd /\ r.ssthresh = p.ssthresh /\ r.fin = p.fin
               /\ r.infr = p.infr /\ r.rtime = p.rtime /\ r.dupacks = p.dupacks
BY DEF Pcb, Updated, Larger

\* After an acknowledgement: a and b segments are freed of unacked and unsent.
NewlyAcked(p, a, b, ackno) ==
    [Congestion(Freed(p, a, b)) EXCEPT !.dupacks = 0, !.lastack = ackno]

\* cwnd after it.
Grown(p) ==
    LET c == IF p.infr THEN p.ssthresh ELSE p.cwnd
    IN  Smaller(IF c < p.ssthresh THEN c + MSS ELSE c + (MSS * MSS) \div c, CwndLimit)

\* The fields after that.
LEMMA FreedFields ==
    ASSUME NEW p \in Pcb, NEW a \in 0..Len(p.unacked), NEW b \in 0..Len(p.unsent)
    PROVE  LET r == Freed(p, a, b)
               free == SubSeq(p.unacked, 1, a) \o SubSeq(p.unsent, 1, b)
           IN  /\ r \in Pcb
               /\ r.unacked = SubSeq(p.unacked, a + 1, Len(p.unacked))
               /\ r.unsent = SubSeq(p.unsent, b + 1, Len(p.unsent))
               /\ r.unsent_oversize =
                     IF b > 0 /\ b = Len(p.unsent) THEN 0 ELSE p.unsent_oversize
               /\ r.rtime <=> a < Len(p.unacked)
               /\ r.snd_queuelen = p.snd_queuelen - Pbufs(free)
               /\ r.snd_buf = p.snd_buf + Volume(free)
               /\ r.snd_wnd = p.snd_wnd /\ r.snd_wnd_max = p.snd_wnd_max
               /\ r.snd_wl2 = p.snd_wl2 /\ r.persist = p.persist
               /\ r.state = p.state /\ r.snd_lbb = p.snd_lbb /\ r.snd_nxt = p.snd_nxt
               /\ r.cwnd = p.cwnd /\ r.ssthresh = p.ssthresh /\ r.fin = p.fin
               /\ r.infr = p.infr
<1> DEFINE free == SubSeq(p.unacked, 1, a) \o SubSeq(p.unsent, 1, b)
           u == SubSeq(p.unacked, a + 1, Len(p.unacked))
           v == SubSeq(p.unsent, b + 1, Len(p.unsent))
           o == IF b > 0 /\ b = Len(p.unsent) THEN 0 ELSE p.unsent_oversize
           t == a < Len(p.unacked)
           k == p.snd_queuelen - Pbufs(free)
           n == p.snd_buf + Volume(free)
<1>1. u \in Seq(Segment) /\ v \in Seq(Segment) /\ free \in Seq(Segment)
  <2>1. p.unacked \in Seq(Segment) /\ p.unsent \in Seq(Segment)
    BY PcbFacts
  <2>2. SubSeq(p.unacked, 1, a) \in Seq(Segment) /\ SubSeq(p.unsent, 1, b) \in Seq(Segment)
    BY <2>1, Part
  <2>3. u \in Seq(Segment) /\ v \in Seq(Segment)
    BY <2>1, Part
  <2> QED
    BY <2>2, <2>3, ConcatProperties
<1>2. o \in Nat /\ t \in BOOLEAN /\ k \in Int /\ n \in Int
  <2>1. Pbufs(free) \in Nat /\ Volume(free) \in Nat
    BY <1>1, Counts
  <2>2. p.snd_queuelen \in Int /\ p.snd_buf \in Int /\ p.unsent_oversize \in Nat
    BY PcbFacts
  <2>3. t \in BOOLEAN
    OBVIOUS
  <2> HIDE DEF free, t
  <2> QED
    BY <2>1, <2>2, <2>3
<1> DEFINE r == Freed(p, a, b)
<1>3. r = [p EXCEPT !.unacked = u, !.unsent = v, !.unsent_oversize = o, !.rtime = t,
                    !.snd_queuelen = k, !.snd_buf = n]
  BY DEF Freed, Pcb
<1> HIDE DEF free, u, v, o, t, k, n, r
<1>4. r \in Pcb
  BY <1>1, <1>2, <1>3 DEF Pcb
<1>5. /\ r.unacked = u /\ r.unsent = v /\ r.unsent_oversize = o /\ r.rtime = t
      /\ r.snd_queuelen = k /\ r.snd_buf = n
      /\ r.snd_wnd = p.snd_wnd /\ r.snd_wnd_max = p.snd_wnd_max
      /\ r.snd_wl2 = p.snd_wl2 /\ r.persist = p.persist
      /\ r.state = p.state /\ r.snd_lbb = p.snd_lbb /\ r.snd_nxt = p.snd_nxt
      /\ r.cwnd = p.cwnd /\ r.ssthresh = p.ssthresh /\ r.fin = p.fin
      /\ r.infr = p.infr
  BY <1>3 DEF Pcb
<1> QED
  BY <1>4, <1>5 DEF free, u, v, o, t, k, n, r

\* The limit of cwnd.
LEMMA LimitFacts == CwndLimit \in Nat /\ CwndLimit >= 4 * MSS
<1> DEFINE T == {SND_BUF, 4 * MSS} \cup SynWindows \cup Windows
           b == U16 + 4 * MSS
<1>1. \A k \in T : k \in Nat /\ k <= b
  <2>1. /\ SND_BUF \in Nat /\ MSS \in Nat /\ U16 \in Nat /\ SND_BUF < U16
        /\ \A w \in SynWindows \cup Windows : w \in Nat /\ w < U16
    BY Constants
  <2>2. SND_BUF <= b /\ 4 * MSS <= b /\ 4 * MSS \in Nat
    BY <2>1
  <2>3. \A w \in SynWindows \cup Windows : w \in Nat /\ w <= b
    BY <2>1
  <2> HIDE DEF b
  <2> QED
    BY <2>1, <2>2, <2>3
<1>2. 4 * MSS \in T /\ b \in Int
  BY Constants
<1> HIDE DEF T, b
<1>3. T # {} /\ T \subseteq Int /\ b \in Int /\ \A k \in T : k <= b
  BY <1>1, <1>2
<1>4. Max(T) \in T /\ \A k \in T : k <= Max(T)
  BY <1>3, MaxIsGreatest
<1>5. Max(T) \in Nat
  BY <1>1, <1>4
<1>6. Max(T) >= 4 * MSS
  BY <1>2, <1>4, <1>5, Constants
<1> QED
  BY <1>5, <1>6 DEF CwndLimit, T

\* A square divided.
LEMMA Share ==
    ASSUME NEW m \in Nat, NEW c \in Nat, c >= 1
    PROVE  (m * m) \div c \in Nat /\ (c <= m => (m * m) \div c >= m)
<1> DEFINE s == m * m
           d == s \div c
<1>1. s \in Nat
  BY SMT
<1>2. d \in Int /\ c * d <= s /\ s < c * (d + 1)
  <2> HIDE DEF s
  <2> QED
    BY <1>1, SMT
<1>3. d \in Nat
  BY <1>1, <1>2, SMT
<1>4. ASSUME c <= m, d < m
      PROVE  FALSE
  <2> HIDE DEF d
  <2>1. d + 1 \in Nat /\ d + 1 <= m
    BY <1>3, <1>4
  <2>2. c * (d + 1) <= m * (d + 1)
    BY <1>4, <2>1, SMT
  <2>3. m * (d + 1) <= m * m
    BY <2>1, SMT
  <2> QED
    BY <1>2, <2>1, <2>2, <2>3 DEF s
<1> QED
  BY <1>3, <1>4

\* cwnd lets a whole segment out.
LEMMA GrownFacts ==
    ASSUME NEW p \in Pcb, p.cwnd >= 1, p.infr => p.ssthresh >= MSS
    PROVE  Grown(p) \in Nat /\ Grown(p) >= MSS
<1> DEFINE c == IF p.infr THEN p.ssthresh ELSE p.cwnd
           d == (MSS * MSS) \div c
           g == IF c < p.ssthresh THEN c + MSS ELSE c + d
<1>1. MSS \in Nat /\ MSS >= 1 /\ CwndLimit \in Nat /\ CwndLimit >= 4 * MSS /\ p.ssthresh \in Nat
  BY Constants, LimitFacts, PcbFacts
<1>2. c \in Nat /\ c >= 1
  BY <1>1, PcbFacts
<1>3. Grown(p) = Smaller(g, CwndLimit)
  BY DEF Grown
<1> HIDE DEF c
<1>4. d \in Nat /\ (c <= MSS => d >= MSS)
  BY <1>1, <1>2, Share
<1> HIDE DEF d
<1>5. g \in Nat /\ g >= MSS
  BY <1>1, <1>2, <1>4
<1> HIDE DEF g
<1> QED
  BY <1>1, <1>3, <1>5 DEF Smaller

\* A pcb with another cwnd and lastack.
Moves(p, c, n, d) == [p EXCEPT !.infr = FALSE, !.cwnd = c, !.dupacks = d, !.lastack = n]

\* The fields that this leaves alone.
Stays(p, r) ==
    /\ r.unacked = p.unacked /\ r.unsent = p.unsent /\ r.unsent_oversize = p.unsent_oversize
    /\ r.rtime = p.rtime /\ r.snd_queuelen = p.snd_queuelen /\ r.snd_buf = p.snd_buf
    /\ r.snd_wnd = p.snd_wnd /\ r.snd_wnd_max = p.snd_wnd_max
    /\ r.snd_wl2 = p.snd_wl2 /\ r.persist = p.persist
    /\ r.state = p.state /\ r.snd_lbb = p.snd_lbb /\ r.snd_nxt = p.snd_nxt /\ r.fin = p.fin

\* Its type.
LEMMA MovesType ==
    ASSUME NEW p \in Pcb, NEW c \in Nat, NEW n \in Nat, NEW d \in 0..4, NEW r,
           r = Moves(p, c, n, d)
    PROVE  r \in Pcb
BY DEF Pcb, Moves

\* Its fields.
LEMMA MovesFields ==
    ASSUME NEW p \in Pcb, NEW c, NEW n, NEW d
    PROVE  LET r == Moves(p, c, n, d)
           IN  Stays(p, r) /\ r.cwnd = c /\ ~r.infr /\ r.lastack = n
BY DEF Pcb, Moves, Stays

\* The fields after a new acknowledgement.
LEMMA NewlyAckedFields ==
    ASSUME NEW p \in Pcb, NEW a \in 0..Len(p.unacked), NEW b \in 0..Len(p.unsent),
           NEW ackno \in Nat, p.cwnd >= 1, p.infr => p.ssthresh >= MSS
    PROVE  LET r == NewlyAcked(p, a, b, ackno)
               free == SubSeq(p.unacked, 1, a) \o SubSeq(p.unsent, 1, b)
           IN  /\ r \in Pcb
               /\ r.unacked = SubSeq(p.unacked, a + 1, Len(p.unacked))
               /\ r.unsent = SubSeq(p.unsent, b + 1, Len(p.unsent))
               /\ r.unsent_oversize =
                     IF b > 0 /\ b = Len(p.unsent) THEN 0 ELSE p.unsent_oversize
               /\ r.rtime <=> a < Len(p.unacked)
               /\ r.snd_queuelen = p.snd_queuelen - Pbufs(free)
               /\ r.snd_buf = p.snd_buf + Volume(free)
               /\ r.snd_wnd = p.snd_wnd /\ r.snd_wnd_max = p.snd_wnd_max
               /\ r.snd_wl2 = p.snd_wl2 /\ r.persist = p.persist
               /\ r.state = p.state /\ r.snd_lbb = p.snd_lbb /\ r.snd_nxt = p.snd_nxt
               /\ r.cwnd = Grown(p) /\ r.fin = p.fin /\ ~r.infr /\ r.lastack = ackno
<1> DEFINE f == Freed(p, a, b)
           free == SubSeq(p.unacked, 1, a) \o SubSeq(p.unsent, 1, b)
           u == SubSeq(p.unacked, a + 1, Len(p.unacked))
           v == SubSeq(p.unsent, b + 1, Len(p.unsent))
           o == IF b > 0 /\ b = Len(p.unsent) THEN 0 ELSE p.unsent_oversize
           r == NewlyAcked(p, a, b, ackno)
           g == Grown(f)
<1>1. /\ f \in Pcb
      /\ f.unacked = u /\ f.unsent = v /\ f.unsent_oversize = o
      /\ f.rtime <=> a < Len(p.unacked)
      /\ f.snd_queuelen = p.snd_queuelen - Pbufs(free)
      /\ f.snd_buf = p.snd_buf + Volume(free)
      /\ f.snd_wnd = p.snd_wnd /\ f.snd_wnd_max = p.snd_wnd_max
      /\ f.snd_wl2 = p.snd_wl2 /\ f.persist = p.persist
      /\ f.state = p.state /\ f.snd_lbb = p.snd_lbb /\ f.snd_nxt = p.snd_nxt
      /\ f.cwnd = p.cwnd /\ f.ssthresh = p.ssthresh /\ f.fin = p.fin
      /\ f.infr = p.infr
  BY FreedFields
<1>2. r = Moves(f, g, ackno, 0)
  BY DEF NewlyAcked, Congestion, Grown, Moves
<1> HIDE DEF f, r, u, v, o, free
<1>3. g \in Nat
  BY <1>1, GrownFacts
<1>4. g = Grown(p)
  BY <1>1 DEF Grown
<1> HIDE DEF g
<1> DEFINE d == 0
<1>5. f \in Pcb /\ d \in 0..4 /\ r = Moves(f, g, ackno, d)
  BY <1>1, <1>2
<1> HIDE DEF d
<1>6. r \in Pcb
  BY <1>3, <1>5, MovesType
<1>7. Stays(f, r) /\ r.cwnd = g /\ ~r.infr /\ r.lastack = ackno
  BY <1>3, <1>5, MovesFields
<1> QED
  BY <1>1, <1>4, <1>6, <1>7 DEF u, v, o, r, free, Stays

\* MssLocal of the invariant.
LEMMA MidMss ==
    ASSUME NEW p, NEW q, NEW e \in Nat, NEW off \in Nat, Mid(p, q, e, off)
    PROVE  /\ p \in Pcb /\ MssLocal(p) \in Nat /\ MssLocal(p) >= 1 /\ MssLocal(p) <= MSS
           /\ Chain(q, MssLocal(p)) /\ Covers(q, p.lastack, e)
<1>1. p \in Pcb /\ p.snd_wnd_max \in Nat /\ p.snd_wnd_max >= 2
  BY PcbFacts DEF Mid, Windowed
<1>2. Chain(q, MssLocal(p)) /\ Covers(q, p.lastack, e)
  BY DEF Mid, Content
<1> QED
  BY <1>1, <1>2, MssLocalFacts

\* The invariant after an acknowledgement of something new.
LEMMA NewAckOK ==
    ASSUME NEW p, NEW e \in Nat, NEW off \in Nat, POK(p, e, off), NEW ackno \in Nat,
           NEW wnd \in Nat, p.lastack < ackno, ackno <= p.snd_nxt, off <= ackno + wnd,
           NEW r, r = NewAck(Updated(p, ackno, wnd), ackno)
    PROVE  /\ POK(r, e, ackno + wnd)
           /\ r.fin = p.fin /\ r.state = p.state /\ r.snd_lbb = p.snd_lbb
<1> DEFINE q == p.unacked \o p.unsent
           m == MssLocal(p)
           u == p.unacked
           v == p.unsent
           x == Updated(p, ackno, wnd)
           a == Acked(u, ackno)
           b == Acked(v, ackno)
           free == SubSeq(u, 1, a) \o SubSeq(v, 1, b)
           u2 == SubSeq(u, a + 1, Len(u))
           v2 == SubSeq(v, b + 1, Len(v))
           rest == u2 \o v2
           t == a < Len(u)
           o == IF b > 0 /\ b = Len(v) THEN 0 ELSE p.unsent_oversize
           off2 == ackno + wnd
<1>1. /\ p \in Pcb /\ Content(p, q, e) /\ Windowed(p, e, off) /\ Oversize(p) /\ Flight(p)
      /\ p.snd_wl2 = p.lastack /\ m \in Nat /\ m >= 1
      /\ Chain(q, m) /\ Covers(q, p.lastack, e)
  <2>1. Mid(p, q, e, off) /\ p.snd_wl2 = p.lastack
    BY DEF POK
  <2> QED
    BY <2>1, MidMss DEF Mid
<1>2. u \in Seq(Segment) /\ v \in Seq(Segment) /\ Len(u) \in Nat /\ Len(v) \in Nat
  BY <1>1, PcbFacts
<1>3. /\ a \in 0..Len(u) /\ b \in 0..Len(v) /\ Divided(q, ackno, free, rest)
  <2>1. free = FreeOf(u, v, ackno) /\ rest = RestOf(u, v, ackno)
    BY DEF FreeOf, RestOf
  <2>2. Chain(u \o v, m)
    BY <1>1
  <2> HIDE DEF m, u, v, free, rest
  <2>3. /\ Acked(u, ackno) \in 0..Len(u) /\ Acked(v, ackno) \in 0..Len(v)
        /\ Divided(u \o v, ackno, FreeOf(u, v, ackno), RestOf(u, v, ackno))
    BY <1>1, <1>2, <2>2, FreedDivided
  <2> QED
    BY <2>1, <2>3 DEF u, v
<1>4. ackno <= e
  <2>1. p.snd_nxt \in Nat /\ p.snd_nxt <= e
    BY <1>1, PcbFacts DEF Windowed
  <2> QED
    BY <2>1
<1>5. /\ Chain(rest, m) /\ Covers(rest, ackno, e)
      /\ Pbufs(rest) = Pbufs(q) - Pbufs(free) /\ Volume(rest) = Volume(q) - Volume(free)
      /\ Pbufs(rest) <= Pbufs(q) /\ Volume(rest) <= Volume(q)
      /\ \A s : Inside(s, rest) => Inside(s, q)
  <2>1. p.lastack \in Nat /\ p.lastack < ackno
    BY <1>1, PcbFacts
  <2> HIDE DEF q, m, free, rest
  <2> QED
    <3>1. m \in Nat /\ Chain(q, m) /\ Covers(q, p.lastack, e)
      BY <1>1
    <3> QED
      BY <1>3, <1>4, <2>1, <3>1, RestContent
<1>6. /\ x \in Pcb
      /\ x.snd_wnd = wnd /\ x.snd_wnd_max = Larger(p.snd_wnd_max, wnd)
      /\ x.snd_wl2 = ackno /\ (x.persist <=> wnd = 0)
      /\ x.state = p.state /\ x.unsent = v /\ x.unacked = u
      /\ x.snd_lbb = p.snd_lbb /\ x.snd_nxt = p.snd_nxt
      /\ x.snd_buf = p.snd_buf /\ x.snd_queuelen = p.snd_queuelen
      /\ x.unsent_oversize = p.unsent_oversize
      /\ x.cwnd = p.cwnd /\ x.ssthresh = p.ssthresh /\ x.fin = p.fin
      /\ x.infr = p.infr
  <2>1. x \in Pcb
    BY <1>1, UpdatedType
  <2> QED
    BY <1>1, <2>1, UpdatedFields
<1> HIDE DEF x
<1>7. x.cwnd >= 1 /\ (x.infr => x.ssthresh >= MSS)
  BY <1>1, <1>6 DEF Windowed
<1> DEFINE y == NewlyAcked(x, a, b, ackno)
<1>8. /\ y \in Pcb
      /\ y.unacked = u2 /\ y.unsent = v2 /\ y.unsent_oversize = o
      /\ y.rtime <=> t
      /\ y.snd_queuelen = x.snd_queuelen - Pbufs(free)
      /\ y.snd_buf = x.snd_buf + Volume(free)
      /\ y.snd_wnd = x.snd_wnd /\ y.snd_wnd_max = x.snd_wnd_max
      /\ y.snd_wl2 = x.snd_wl2 /\ y.persist = x.persist
      /\ y.state = x.state /\ y.snd_lbb = x.snd_lbb /\ y.snd_nxt = x.snd_nxt
      /\ y.cwnd = Grown(x) /\ y.fin = x.fin /\ ~y.infr /\ y.lastack = ackno
  <2> HIDE DEF a, b, u, v
  <2>1. a \in 0..Len(x.unacked) /\ b \in 0..Len(x.unsent)
    BY <1>3, <1>6
  <2>2. LET z == NewlyAcked(x, a, b, ackno)
               free2 == SubSeq(x.unacked, 1, a) \o SubSeq(x.unsent, 1, b)
           IN  /\ z \in Pcb
               /\ z.unacked = SubSeq(x.unacked, a + 1, Len(x.unacked))
               /\ z.unsent = SubSeq(x.unsent, b + 1, Len(x.unsent))
               /\ z.unsent_oversize =
                     IF b > 0 /\ b = Len(x.unsent) THEN 0 ELSE x.unsent_oversize
               /\ z.rtime <=> a < Len(x.unacked)
               /\ z.snd_queuelen = x.snd_queuelen - Pbufs(free2)
               /\ z.snd_buf = x.snd_buf + Volume(free2)
               /\ z.snd_wnd = x.snd_wnd /\ z.snd_wnd_max = x.snd_wnd_max
               /\ z.snd_wl2 = x.snd_wl2 /\ z.persist = x.persist
               /\ z.state = x.state /\ z.snd_lbb = x.snd_lbb /\ z.snd_nxt = x.snd_nxt
               /\ z.cwnd = Grown(x) /\ z.fin = x.fin /\ ~z.infr /\ z.lastack = ackno
    <3>1. x \in Pcb
      BY <1>6
    <3> QED
      BY <1>7, <2>1, <3>1, NewlyAckedFields
  <2> HIDE DEF y
  <2> QED
    BY <1>6, <2>2 DEF y
<1>9. r = y
  BY <1>6 DEF NewAck, NewlyAcked, x
<1>10. Grown(x) \in Nat /\ Grown(x) >= MSS
  BY <1>6, <1>7, GrownFacts
<1> HIDE DEF y, x
<1>11. /\ r \in Pcb /\ r.unacked = u2 /\ r.unsent = v2 /\ r.unsent_oversize = o
       /\ r.rtime <=> t
       /\ r.snd_queuelen = p.snd_queuelen - Pbufs(free)
       /\ r.snd_buf = p.snd_buf + Volume(free)
       /\ r.snd_wnd = wnd /\ r.snd_wnd_max = Larger(p.snd_wnd_max, wnd)
       /\ r.snd_wl2 = ackno /\ (r.persist <=> wnd = 0)
       /\ r.state = p.state /\ r.snd_lbb = p.snd_lbb /\ r.snd_nxt = p.snd_nxt
       /\ r.cwnd >= MSS /\ r.fin = p.fin /\ ~r.infr /\ r.lastack = ackno
  BY <1>6, <1>8, <1>9, <1>10
<1>12. /\ p.snd_wnd \in Nat /\ p.snd_wnd_max \in Nat /\ p.lastack \in Nat /\ p.snd_nxt \in Nat
       /\ p.snd_queuelen \in Int /\ p.snd_buf \in Int /\ MSS \in Nat /\ MSS >= 1
       /\ SND_BUF \in Nat /\ SND_QUEUELEN \in Nat /\ r.cwnd \in Nat
       /\ Pbufs(q) \in Nat /\ Pbufs(free) \in Nat /\ Volume(q) \in Nat /\ Volume(free) \in Nat
       /\ Pbufs(rest) \in Nat /\ Volume(rest) \in Nat
  <2>1. q \in Seq(Segment)
    BY <1>2, ConcatProperties
  <2> HIDE DEF q, free, rest
  <2> QED
    BY <1>1, <1>3, <1>11, <2>1, PcbFacts, Constants, Counts DEF Divided
<1> HIDE DEF u2, v2, free, t, o
<1>13. r.snd_wnd_max \in Nat /\ p.snd_wnd_max <= r.snd_wnd_max /\ wnd <= r.snd_wnd_max
  BY <1>11, <1>12 DEF Larger
<1>14. /\ p.snd_wnd_max >= 2 /\ p.lastack + p.snd_wnd <= off /\ p.snd_nxt <= off + 1
       /\ p.snd_nxt <= e
  BY <1>1 DEF Windowed
<1>15. m <= MssLocal(r) /\ MssLocal(r) \in Nat
  BY <1>12, <1>13, <1>14, MssLocalGrows, MssLocalFacts
<1>16. Content(r, rest, e)
  <2> HIDE DEF q, rest, m
  <2>1. Chain(rest, MssLocal(r))
    BY <1>1, <1>5, <1>15, ChainWider
  <2>2. /\ ~p.fin => \A i \in 1..Len(q) : ~q[i].fin
        /\ p.snd_queuelen = Pbufs(q) /\ p.snd_queuelen <= SND_QUEUELEN + FinBit(p)
        /\ p.snd_buf = SND_BUF - Volume(q) /\ p.snd_buf >= 0
    BY <1>1 DEF Content
  <2>3. ~r.fin => \A i \in 1..Len(rest) : ~rest[i].fin
    <3> SUFFICES ASSUME ~r.fin, NEW i \in 1..Len(rest)
                 PROVE  ~rest[i].fin
      OBVIOUS
    <3>1. Inside(rest[i], rest)
      BY DEF Inside
    <3>2. PICK j \in 1..Len(q) : rest[i] = q[j]
      BY <1>5, <3>1 DEF Inside
    <3> QED
      BY <1>11, <2>2, <3>2
  <2>4. FinBit(r) = FinBit(p) /\ FinBit(p) \in 0..1
    BY <1>11 DEF FinBit
  <2> DEFINE pq == Pbufs(q)
             pf == Pbufs(free)
             pr == Pbufs(rest)
             l == r.snd_queuelen
             n == SND_QUEUELEN + FinBit(p)
  <2>5. l = pr /\ l <= n
    <3>1. /\ pq \in Nat /\ pf \in Nat /\ pr \in Nat /\ n \in Nat
          /\ pr = pq - pf /\ pr <= pq /\ pq <= n /\ l = pq - pf
      <4>1. n \in Nat
        BY <1>12, <2>4
      <4>2. pq <= n /\ l = pq - pf
        BY <1>11, <2>2
      <4> HIDE DEF n, l
      <4> QED
        BY <1>5, <1>12, <4>1, <4>2
    <3> HIDE DEF pq, pf, pr, l, n
    <3> QED
      BY <3>1
  <2> DEFINE vq == Volume(q)
             vf == Volume(free)
             vr == Volume(rest)
             c == r.snd_buf
             d == p.snd_buf
  <2>6. c = SND_BUF - vr /\ c >= 0
    <3>1. /\ vq \in Nat /\ vf \in Nat /\ vr \in Nat /\ SND_BUF \in Nat /\ d \in Int
          /\ vr = vq - vf /\ vr <= vq /\ d = SND_BUF - vq /\ d >= 0 /\ c = d + vf
      BY <1>5, <1>11, <1>12, <2>2
    <3> HIDE DEF vq, vf, vr, c, d
    <3> QED
      BY <3>1
  <2> QED
    BY <1>5, <1>11, <2>1, <2>3, <2>4, <2>5, <2>6 DEF Content
<1>17. Windowed(r, e, off2)
  <2>1. r.lastack + r.snd_wnd = off2 /\ off2 \in Nat /\ off <= off2
    BY <1>11
  <2> HIDE DEF off2
  <2>2. r.snd_wnd_max >= 2 /\ r.cwnd >= 1 /\ r.snd_nxt <= off2 + 1
    BY <1>11, <1>12, <1>13, <1>14, <2>1
  <2> QED
    BY <1>11, <1>13, <1>14, <2>1, <2>2 DEF Windowed
<1>18. Oversize(r)
  <2> SUFFICES ASSUME o > 0
               PROVE  /\ r.unsent # <<>> /\ LastLen(r) > 0
                      /\ o <= MssLocal(r) - LastLen(r)
    BY <1>11 DEF Oversize
  <2>1. p.unsent_oversize > 0 /\ o = p.unsent_oversize /\ ~(b > 0 /\ b = Len(v))
    BY DEF o
  <2>2. v # <<>> /\ LastLen(p) > 0 /\ p.unsent_oversize <= m - LastLen(p)
    BY <1>1, <2>1 DEF Oversize
  <2>3. b # Len(v)
    BY <1>2, <1>3, <2>1, <2>2, EmptySeq
  <2>4. r.unsent = SubSeq(p.unsent, b + 1, Len(p.unsent))
    BY <1>11 DEF v2
  <2>5. r.unsent # <<>> /\ LastLen(r) = LastLen(p)
    BY <1>1, <1>3, <2>3, <2>4, LastStays
  <2>6. LastLen(p) \in Nat /\ p.unsent_oversize \in Nat
    <3>1. Len(v) \in 1..Len(v)
      BY <1>2, <2>2, EmptySeq
    <3>2. v[Len(v)] \in Segment
      BY <1>2, <3>1, ElementOfSeq
    <3>3. Len(v[Len(v)].data) \in Nat
      BY <3>2, LenProperties DEF Segment
    <3> QED
      BY <1>1, <2>2, <3>3, PcbFacts DEF LastLen, Last
  <2> HIDE DEF m
  <2> QED
    BY <1>1, <1>15, <2>1, <2>2, <2>5, <2>6
<1>19. Flight(r)
  <2>1. u2 \in Seq(Segment) /\ Len(u2) = Len(u) - a /\ \A i \in 1..(Len(u) - a) : u2[i] = u[a + i]
    BY <1>2, <1>3, Part DEF u2
  <2>2. u2 # <<>> => t
    <3>1. u2 # <<>> => Len(u2) # 0
      BY <2>1, EmptySeq
    <3> QED
      BY <1>2, <1>3, <2>1, <3>1 DEF t
  <2>3. ASSUME NEW i \in 1..Len(u2)
        PROVE  u2[i].seq + Len(u2[i].data) <= ackno + wnd
    <3> DEFINE j == a + i
    <3>1. j \in 1..Len(u) /\ u2[i] = u[j]
      BY <1>2, <1>3, <2>1
    <3> HIDE DEF j, a
    <3>2. u[j].seq + Len(u[j].data) <= p.lastack + p.snd_wnd
      BY <1>1, <3>1 DEF Flight
    <3>3. u[j].seq \in Nat /\ Len(u[j].data) \in Nat
      <4>1. u[j] \in Segment
        BY <1>2, <3>1, ElementOfSeq
      <4> QED
        BY <4>1, LenProperties DEF Segment
    <3> DEFINE c == u[j].seq
               d == Len(u[j].data)
               l == p.lastack
               w == p.snd_wnd
    <3>4. /\ c \in Nat /\ d \in Nat /\ l \in Nat /\ w \in Nat
          /\ c + d <= l + w /\ l + w <= off /\ off <= ackno + wnd
      BY <1>12, <1>14, <3>2, <3>3
    <3> HIDE DEF c, d, l, w
    <3>5. c + d <= ackno + wnd
      BY <3>4
    <3> QED
      BY <3>1, <3>5 DEF c, d
  <2> QED
    BY <1>11, <2>2, <2>3 DEF Flight
<1>20. r.unacked \o r.unsent = rest
  BY <1>11
<1> QED
  BY <1>11, <1>16, <1>17, <1>18, <1>19, <1>20 DEF POK, Mid

\* What Mid looks at, but for cwnd.
Same(p, r) ==
    /\ r.unsent = p.unsent /\ r.unacked = p.unacked /\ r.unsent_oversize = p.unsent_oversize
    /\ r.lastack = p.lastack /\ r.snd_wl2 = p.snd_wl2 /\ r.snd_nxt = p.snd_nxt
    /\ r.snd_wnd = p.snd_wnd /\ r.snd_wnd_max = p.snd_wnd_max
    /\ r.snd_buf = p.snd_buf /\ r.snd_queuelen = p.snd_queuelen
    /\ r.ssthresh = p.ssthresh /\ r.fin = p.fin /\ r.infr = p.infr /\ r.rtime = p.rtime
    /\ r.persist = p.persist

\* A pcb that differs in nothing else, or in a cwnd that lets a whole segment out.
LEMMA MidSame ==
    ASSUME NEW p, NEW q, NEW e \in Nat, NEW off \in Nat, Mid(p, q, e, off),
           NEW r \in Pcb, Same(p, r), r.cwnd >= p.cwnd \/ r.cwnd >= MSS
    PROVE  Mid(r, q, e, off)
<1>1. /\ p \in Pcb /\ Content(p, q, e) /\ Windowed(p, e, off) /\ Oversize(p) /\ Flight(p)
  BY DEF Mid
<1>2. Content(r, q, e)
  BY <1>1, ContentSame DEF Same
<1>3. MssLocal(r) = MssLocal(p) /\ LastLen(r) = LastLen(p)
  BY DEF MssLocal, LastLen, Same
<1>4. Oversize(r) /\ Flight(r)
  BY <1>1, <1>3 DEF Oversize, Flight, Same
<1>5. Windowed(r, e, off)
  <2>1. p.cwnd \in Nat /\ r.cwnd \in Nat /\ p.cwnd >= 1 /\ MSS \in Nat /\ MSS >= 1
        /\ (p.lastack > 0 => p.cwnd >= MSS)
    BY <1>1, PcbFacts, Constants DEF Windowed
  <2>2. r.cwnd >= 1 /\ (p.lastack > 0 => r.cwnd >= MSS)
    BY <2>1
  <2> QED
    BY <1>1, <2>2 DEF Windowed, Same
<1> QED
  BY <1>2, <1>4, <1>5 DEF Mid

\* The queues and what else the steps of an acknowledgement rely on.
Kept(p, r) ==
    /\ r.unacked = p.unacked /\ r.unsent = p.unsent
    /\ r.lastack = p.lastack /\ r.fin = p.fin /\ r.state = p.state
    /\ r.snd_lbb = p.snd_lbb

\* The invariant after a window update that acknowledges nothing new.
LEMMA UpdateOK ==
    ASSUME NEW p, NEW e \in Nat, NEW off \in Nat, POK(p, e, off), NEW ackno \in Nat,
           NEW wnd \in Nat, p.lastack = ackno, off <= ackno + wnd,
           NEW r, r = Updated(p, ackno, wnd)
    PROVE  POK(r, e, ackno + wnd) /\ Kept(p, r)
<1> DEFINE q == p.unacked \o p.unsent
           m == MssLocal(p)
           off2 == ackno + wnd
           x == Updated(p, ackno, wnd)
<1>1. /\ p \in Pcb /\ Content(p, q, e) /\ Windowed(p, e, off) /\ Oversize(p) /\ Flight(p)
      /\ p.snd_wl2 = p.lastack /\ m \in Nat /\ m >= 1
      /\ Chain(q, m) /\ Covers(q, p.lastack, e)
  <2>1. Mid(p, q, e, off) /\ p.snd_wl2 = p.lastack
    BY DEF POK
  <2> QED
    BY <2>1, MidMss DEF Mid
<1>2. /\ x \in Pcb
      /\ x.snd_wnd = wnd /\ x.snd_wnd_max = Larger(p.snd_wnd_max, wnd)
      /\ x.snd_wl2 = ackno /\ (x.persist <=> wnd = 0)
      /\ x.state = p.state /\ x.unsent = p.unsent /\ x.unacked = p.unacked
      /\ x.snd_lbb = p.snd_lbb /\ x.snd_nxt = p.snd_nxt /\ x.lastack = p.lastack
      /\ x.snd_buf = p.snd_buf /\ x.snd_queuelen = p.snd_queuelen
      /\ x.unsent_oversize = p.unsent_oversize
      /\ x.cwnd = p.cwnd /\ x.ssthresh = p.ssthresh /\ x.fin = p.fin
      /\ x.infr = p.infr /\ x.rtime = p.rtime /\ x.dupacks = p.dupacks
  <2>1. x \in Pcb
    BY <1>1, UpdatedType
  <2> QED
    BY <1>1, <2>1, UpdatedFields
<1>3. r = x
  OBVIOUS
<1> HIDE DEF x
<1>4. /\ p.snd_wnd \in Nat /\ p.snd_wnd_max \in Nat /\ p.lastack \in Nat /\ p.snd_nxt \in Nat
      /\ p.unsent_oversize \in Nat
  BY <1>1, PcbFacts
<1>5. r.snd_wnd_max \in Nat /\ p.snd_wnd_max <= r.snd_wnd_max /\ wnd <= r.snd_wnd_max
  BY <1>2, <1>3, <1>4 DEF Larger
<1>6. /\ p.snd_wnd_max >= 2 /\ p.lastack + p.snd_wnd <= off /\ p.snd_nxt <= off + 1
      /\ p.snd_nxt <= e
  BY <1>1 DEF Windowed
<1>7. m <= MssLocal(r) /\ MssLocal(r) \in Nat
  BY <1>4, <1>5, <1>6, MssLocalGrows, MssLocalFacts
<1>8. Content(r, q, e)
  <2>1. Chain(q, MssLocal(r))
    BY <1>1, <1>7, ChainWider
  <2>2. FinBit(r) = FinBit(p)
    BY <1>2, <1>3 DEF FinBit
  <2> HIDE DEF q, m
  <2> QED
    BY <1>1, <1>2, <1>3, <2>1, <2>2 DEF Content
<1>9. Windowed(r, e, off2)
  <2>1. r.lastack + r.snd_wnd = off2 /\ off2 \in Nat /\ off <= off2
    BY <1>2, <1>3
  <2> HIDE DEF off2
  <2>2. r.snd_wnd_max >= 2 /\ r.snd_nxt <= off2 + 1
    BY <1>2, <1>3, <1>4, <1>5, <1>6, <2>1
  <2> QED
    BY <1>1, <1>2, <1>3, <1>5, <1>6, <2>1, <2>2 DEF Windowed
<1>10. Oversize(r)
  <2> SUFFICES ASSUME p.unsent_oversize > 0
               PROVE  /\ r.unsent # <<>> /\ LastLen(r) > 0
                      /\ p.unsent_oversize <= MssLocal(r) - LastLen(r)
    BY <1>2, <1>3 DEF Oversize
  <2>1. p.unsent # <<>> /\ LastLen(p) > 0 /\ p.unsent_oversize <= m - LastLen(p)
    BY <1>1 DEF Oversize
  <2>2. LastLen(r) = LastLen(p)
    BY <1>2, <1>3 DEF LastLen
  <2>3. LastLen(p) \in Nat
    <3>1. p.unsent \in Seq(Segment) /\ Len(p.unsent) \in 1..Len(p.unsent)
      BY <1>1, <2>1, PcbFacts, EmptySeq
    <3>2. Last(p.unsent) \in Segment
      BY <3>1, ElementOfSeq DEF Last
    <3>3. Len(Last(p.unsent).data) \in Nat
      BY <3>2, LenProperties DEF Segment
    <3> QED
      BY <2>1, <3>3 DEF LastLen
  <2> HIDE DEF m
  <2> QED
    BY <1>1, <1>2, <1>3, <1>4, <1>7, <2>1, <2>2, <2>3
<1>11. Flight(r)
  <2>1. ASSUME NEW i \in 1..Len(p.unacked)
        PROVE  p.unacked[i].seq + Len(p.unacked[i].data) <= ackno + wnd
    <3> DEFINE c == p.unacked[i].seq
               d == Len(p.unacked[i].data)
               l == p.lastack
               w == p.snd_wnd
    <3>1. c \in Nat /\ d \in Nat
      <4>1. p.unacked[i] \in Segment
        BY <1>1, PcbFacts, ElementOfSeq
      <4> QED
        BY <4>1, LenProperties DEF Segment
    <3>2. c + d <= l + w
      BY <1>1 DEF Flight
    <3>3. l \in Nat /\ w \in Nat /\ l + w <= off
      BY <1>4, <1>6
    <3> HIDE DEF c, d, l, w
    <3>4. c + d <= ackno + wnd
      BY <3>1, <3>2, <3>3
    <3> QED
      BY <3>4 DEF c, d
  <2> QED
    BY <1>1, <1>2, <1>3, <2>1 DEF Flight
<1> QED
  BY <1>1, <1>2, <1>3, <1>8, <1>9, <1>10, <1>11 DEF POK, Mid, Kept

\* A pcb with another count of duplicates, and one with another cwnd.
Counted(p, d) == [p EXCEPT !.dupacks = d]
Opened(p, c) == [p EXCEPT !.cwnd = c]

\* The type of the first.
LEMMA CountedType ==
    ASSUME NEW p \in Pcb, NEW d \in 0..4, NEW r, r = Counted(p, d)
    PROVE  r \in Pcb
BY DEF Pcb, Counted

\* The type of the second.
LEMMA OpenedType ==
    ASSUME NEW p \in Pcb, NEW c \in Nat, NEW r, r = Opened(p, c)
    PROVE  r \in Pcb
BY DEF Pcb, Opened

\* Its fields.
LEMMA CountedFields ==
    ASSUME NEW p \in Pcb, NEW d
    PROVE  LET r == Counted(p, d)
           IN  /\ Same(p, r) /\ r.cwnd = p.cwnd /\ r.dupacks = d
               /\ r.state = p.state /\ r.snd_lbb = p.snd_lbb
BY DEF Pcb, Counted, Same

\* The fields of the second.
LEMMA OpenedFields ==
    ASSUME NEW p \in Pcb, NEW c
    PROVE  LET r == Opened(p, c)
           IN  Same(p, r) /\ r.cwnd = c /\ r.state = p.state /\ r.snd_lbb = p.snd_lbb
BY DEF Pcb, Opened, Same

\* The pcb of a fast retransmission.
Taken(p, u, v, o, t, c) ==
    [p EXCEPT !.unacked = u, !.unsent = v, !.unsent_oversize = o, !.ssthresh = t, !.cwnd = c,
              !.infr = TRUE, !.rtime = TRUE]

\* Its type.
LEMMA TakenType ==
    ASSUME NEW p \in Pcb, NEW u \in Seq(Segment), NEW v \in Seq(Segment), NEW o \in Nat,
           NEW t \in Nat, NEW c \in Nat, NEW r, r = Taken(p, u, v, o, t, c)
    PROVE  r \in Pcb
BY DEF Pcb, Taken

\* Its fields.
LEMMA TakenFields ==
    ASSUME NEW p \in Pcb, NEW u, NEW v, NEW o, NEW t, NEW c
    PROVE  LET r == Taken(p, u, v, o, t, c)
           IN  /\ r.unacked = u /\ r.unsent = v /\ r.unsent_oversize = o /\ r.ssthresh = t
               /\ r.cwnd = c /\ r.infr /\ r.rtime
               /\ r.lastack = p.lastack /\ r.snd_wl2 = p.snd_wl2 /\ r.snd_nxt = p.snd_nxt
               /\ r.snd_wnd = p.snd_wnd /\ r.snd_wnd_max = p.snd_wnd_max
               /\ r.snd_buf = p.snd_buf /\ r.snd_queuelen = p.snd_queuelen
               /\ r.fin = p.fin /\ r.persist = p.persist
               /\ r.state = p.state /\ r.snd_lbb = p.snd_lbb
BY DEF Pcb, Taken

\* The first segment that is not acknowledged begins at or below lastack.
LEMMA HeadFits ==
    ASSUME NEW p, NEW e \in Nat, NEW off \in Nat, POK(p, e, off), p.unacked # <<>>
    PROVE  LET s == Head(p.unacked)
               u == Tail(p.unacked)
               w == p.unsent
           IN  /\ s \in Segment /\ u \in Seq(Segment) /\ w \in Seq(Segment)
               /\ p.unacked = <<s>> \o u
               /\ p.unacked \o p.unsent = (<<s>> \o u) \o w
               /\ s.seq \in Nat /\ Len(s.data) \in Nat
               /\ s.seq <= p.lastack /\ Len(s.data) <= MSS
               /\ s.seq + Len(s.data) <= p.lastack + p.snd_wnd
               /\ \A i \in 1..Len(w) : ~(w[i].seq < s.seq)
               /\ \A i \in 1..Len(u) : u[i] = p.unacked[i + 1]
<1> DEFINE s == Head(p.unacked)
           u == Tail(p.unacked)
           w == p.unsent
           q == p.unacked \o w
           m == MssLocal(p)
<1>1. /\ p \in Pcb /\ Flight(p) /\ m \in Nat /\ m <= MSS /\ Chain(q, m)
      /\ Covers(q, p.lastack, e)
  <2>1. Mid(p, q, e, off)
    BY DEF POK
  <2> QED
    BY <2>1, MidMss DEF Mid
<1>2. /\ p.unacked \in Seq(Segment) /\ w \in Seq(Segment) /\ Len(w) \in Nat
      /\ Len(p.unacked) \in Nat /\ Len(p.unacked) # 0 /\ MSS \in Nat
  BY <1>1, PcbFacts, EmptySeq, Constants
<1>3. /\ s = p.unacked[1] /\ u \in Seq(Segment) /\ Len(u) = Len(p.unacked) - 1
      /\ \A i \in 1..Len(u) : u[i] = p.unacked[i + 1]
  BY <1>2, HeadTailProperties
<1>4. s \in Segment
  <2>1. 1 \in 1..Len(p.unacked)
    BY <1>2
  <2> QED
    BY <1>2, <1>3, <2>1, ElementOfSeq
<1> HIDE DEF s, u, w, m
<1>5. p.unacked = <<s>> \o u
  <2> DEFINE x == <<s>> \o u
  <2>1. /\ x \in Seq(Segment) /\ Len(x) = Len(u) + 1 /\ x[1] = s
        /\ \A i \in 2..(Len(u) + 1) : x[i] = u[i - 1]
    BY <1>3, <1>4, OneInFront
  <2> HIDE DEF x
  <2>2. \A i \in 1..Len(p.unacked) : p.unacked[i] = x[i]
    <3> SUFFICES ASSUME NEW i \in 1..Len(p.unacked)
                 PROVE  p.unacked[i] = x[i]
      OBVIOUS
    <3>1. CASE i = 1
      BY <1>3, <2>1, <3>1
    <3>2. CASE i # 1
      <4> DEFINE j == i - 1
      <4>1. j \in 1..Len(u) /\ i \in 2..(Len(u) + 1) /\ j + 1 = i /\ j = i - 1
        BY <1>2, <1>3, <3>2
      <4> HIDE DEF j
      <4> QED
        BY <1>3, <2>1, <4>1
    <3> QED
      BY <3>1, <3>2
  <2>3. Len(p.unacked) = Len(x)
    BY <1>2, <1>3, <2>1
  <2>4. p.unacked = x
    BY <1>2, <2>1, <2>2, <2>3, SeqEqual
  <2> QED
    BY <2>4 DEF x
<1>6. q = (<<s>> \o u) \o w
  BY <1>5
<1> DEFINE k == Len(p.unacked)
           n == Len(w)
<1>7. /\ q \in Seq(Segment) /\ Len(q) = k + n
      /\ \A i \in 1..k : q[i] = p.unacked[i]
      /\ \A i \in 1..n : q[k + i] = w[i]
  BY <1>2, Joined
<1>8. 1 \in 1..k /\ 1 \in 1..Len(q) /\ q # <<>> /\ q[1] = s
  <2>1. 1 \in 1..k /\ 1 \in 1..Len(q)
    BY <1>2, <1>7
  <2> QED
    BY <1>2, <1>3, <1>7, <2>1, EmptySeq
<1> HIDE DEF q
<1>9. s.seq \in Nat /\ Len(s.data) \in Nat /\ Len(s.data) <= MSS /\ s.seq <= p.lastack
  <2>1. s.seq \in Nat /\ Len(s.data) \in 0..m
    BY <1>1, <1>8, ChainFacts
  <2>2. s.seq <= p.lastack
    BY <1>1, <1>8 DEF Covers
  <2> QED
    BY <1>1, <1>2, <2>1, <2>2
<1>10. s.seq + Len(s.data) <= p.lastack + p.snd_wnd
  BY <1>1, <1>3, <1>8 DEF Flight
<1>11. \A i \in 1..n : ~(w[i].seq < s.seq)
  <2> SUFFICES ASSUME NEW i \in 1..n
               PROVE  ~(w[i].seq < s.seq)
    OBVIOUS
  <2> DEFINE j == k + i
  <2>1. j \in 1..Len(q) /\ 1 < j /\ q[j] = w[i]
    BY <1>2, <1>7
  <2> HIDE DEF j
  <2>2. q[1].seq < q[j].seq
    <3>1. Sorted(q)
      BY <1>1, ChainOrder
    <3> QED
      BY <1>8, <2>1, <3>1 DEF Sorted
  <2>3. q[j].seq \in Nat
    BY <1>1, <2>1, ChainFacts
  <2> QED
    BY <1>8, <1>9, <2>1, <2>2, <2>3
<1> QED
  BY <1>2, <1>3, <1>4, <1>5, <1>6, <1>9, <1>10, <1>11 DEF s, u, w, q


\* The last of several segments when one is put in front of them.
LEMMA LastInFront ==
    ASSUME NEW S, NEW s \in S, NEW w \in Seq(S), w # <<>>
    PROVE  Last(<<s>> \o w) = Last(w)
<1> DEFINE n == Len(w)
           x == <<s>> \o w
<1>1. n \in Nat /\ n # 0
  BY LenProperties, EmptySeq
<1>2. x \in Seq(S) /\ Len(x) = n + 1 /\ \A i \in 2..(n + 1) : x[i] = w[i - 1]
  BY OneInFront
<1> HIDE DEF x
<1>3. n + 1 \in 2..(n + 1) /\ n + 1 - 1 = n
  BY <1>1
<1>4. x[n + 1] = w[n]
  BY <1>2, <1>3
<1>5. Last(x) = x[n + 1] /\ Last(w) = w[n]
  BY <1>2 DEF Last
<1> QED
  BY <1>4, <1>5 DEF x

\* The middle of a fast retransmission: the first segment goes back.
LEMMA TakenOK ==
    ASSUME NEW p, NEW e \in Nat, NEW off \in Nat, POK(p, e, off), p.unacked # <<>>,
           NEW o \in Nat, o = p.unsent_oversize \/ o = 0,
           NEW t \in Nat, t >= MSS, NEW c \in Nat, c >= MSS,
           NEW r, r = Taken(p, Tail(p.unacked), <<Head(p.unacked)>> \o p.unsent, o, t, c)
    PROVE  LET q == p.unacked \o p.unsent
           IN  /\ Mid(r, q, e, off) /\ Resent(r, q)
               /\ r.snd_wl2 = r.lastack /\ r.lastack = p.lastack
               /\ r.fin = p.fin /\ r.state = p.state /\ r.snd_lbb = p.snd_lbb
<1> DEFINE s == Head(p.unacked)
           u == Tail(p.unacked)
           w == p.unsent
           v == <<s>> \o w
           q == p.unacked \o p.unsent
<1>1. /\ s \in Segment /\ u \in Seq(Segment) /\ w \in Seq(Segment)
      /\ q = (<<s>> \o u) \o w
      /\ s.seq \in Nat /\ Len(s.data) \in Nat
      /\ s.seq <= p.lastack /\ Len(s.data) <= MSS
      /\ s.seq + Len(s.data) <= p.lastack + p.snd_wnd
      /\ \A i \in 1..Len(u) : u[i] = p.unacked[i + 1]
  BY HeadFits
<1>2. /\ p \in Pcb /\ Content(p, q, e) /\ Windowed(p, e, off) /\ Oversize(p) /\ Flight(p)
      /\ p.snd_wl2 = p.lastack
  BY DEF POK, Mid
<1>3. v \in Seq(Segment)
  BY <1>1, OneInFront
<1>4. Len(u) \in Nat /\ Len(p.unacked) \in Nat /\ Len(u) = Len(p.unacked) - 1
  <2>1. p.unacked \in Seq(Segment) /\ Len(p.unacked) \in Nat
    BY <1>2, PcbFacts
  <2> QED
    BY <1>1, <2>1, HeadTailProperties, LenProperties
<1>0. r = Taken(p, u, v, o, t, c)
  OBVIOUS
<1> HIDE DEF s, u, w, q
<1>5. r \in Pcb
  <2> HIDE DEF v
  <2> QED
    BY <1>0, <1>1, <1>2, <1>3, TakenType
<1>6. /\ r.unacked = u /\ r.unsent = v /\ r.unsent_oversize = o /\ r.ssthresh = t
      /\ r.cwnd = c /\ r.infr /\ r.rtime
      /\ r.lastack = p.lastack /\ r.snd_wl2 = p.snd_wl2 /\ r.snd_nxt = p.snd_nxt
      /\ r.snd_wnd = p.snd_wnd /\ r.snd_wnd_max = p.snd_wnd_max
      /\ r.snd_buf = p.snd_buf /\ r.snd_queuelen = p.snd_queuelen
      /\ r.fin = p.fin /\ r.persist = p.persist
      /\ r.state = p.state /\ r.snd_lbb = p.snd_lbb
  <2> HIDE DEF v
  <2> QED
    BY <1>0, <1>2, TakenFields
<1>7. Content(r, q, e)
  BY <1>2, <1>6, ContentSame
<1>8. Windowed(r, e, off)
  <2>1. c >= 1
    BY Constants
  <2> QED
    BY <1>2, <1>6, <2>1 DEF Windowed
<1>9. Oversize(r)
  <2> SUFFICES ASSUME o > 0
               PROVE  /\ v # <<>> /\ LastLen(r) > 0
                      /\ o <= MssLocal(r) - LastLen(r)
    BY <1>6 DEF Oversize
  <2>1. o = p.unsent_oversize /\ p.unsent_oversize > 0
    OBVIOUS
  <2>2. w # <<>> /\ LastLen(p) > 0 /\ p.unsent_oversize <= MssLocal(p) - LastLen(p)
    BY <1>2, <2>1 DEF Oversize, w
  <2>3. MssLocal(r) = MssLocal(p)
    BY <1>6 DEF MssLocal
  <2>4. Last(v) = Last(w)
    BY <1>1, <2>2, LastInFront
  <2>5. v # <<>>
    <3>1. Len(v) = Len(w) + 1 /\ Len(w) \in Nat
      BY <1>1, OneInFront, LenProperties
    <3> HIDE DEF v
    <3> QED
      BY <1>3, <3>1, EmptySeq
  <2>6. LastLen(p) = Len(Last(w).data)
    BY <2>2 DEF LastLen, w
  <2> HIDE DEF v
  <2>7. LastLen(r) = LastLen(p)
    BY <1>6, <2>4, <2>5, <2>6 DEF LastLen
  <2> QED
    BY <2>1, <2>2, <2>3, <2>5, <2>7
<1>10. Flight(r)
  <2>1. ASSUME NEW i \in 1..Len(u)
        PROVE  u[i].seq + Len(u[i].data) <= p.lastack + p.snd_wnd
    <3> DEFINE j == i + 1
    <3>1. j \in 1..Len(p.unacked)
      BY ONLY <1>4, i \in 1..Len(u)
    <3>2. u[i] = p.unacked[j]
      BY <1>1
    <3>3. j \in 1..Len(p.unacked) /\ u[i] = p.unacked[j]
      BY ONLY <3>1, <3>2
    <3> HIDE DEF j
    <3> QED
      BY <1>2, <3>3 DEF Flight
  <2> QED
    BY <1>6, <2>1 DEF Flight
<1>11. Fits(r, s)
  <2> DEFINE a == s.seq
             d == Len(s.data)
             l == p.lastack
             n == p.snd_wnd
  <2>1. /\ a \in Nat /\ d \in Nat /\ l \in Nat /\ n \in Nat /\ MSS \in Nat
        /\ a <= l /\ d <= MSS /\ a + d <= l + n
    BY <1>1, <1>2, PcbFacts, Constants
  <2> HIDE DEF a, d, l, n
  <2>2. (a - l) + d <= n /\ (a - l) + d <= c
    BY <2>1
  <2>3. Wnd(r) = n \/ Wnd(r) = c
    BY <1>6 DEF Wnd, Smaller, n
  <2>4. (a - l) + d <= Wnd(r)
    BY <2>2, <2>3
  <2> QED
    BY <1>6, <2>4 DEF Fits, a, d, l
<1>12. Resent(r, q)
  BY <1>1, <1>6, <1>11 DEF Resent
<1> QED
  BY <1>2, <1>5, <1>6, <1>7, <1>8, <1>9, <1>10, <1>12 DEF Mid, q

\* What a step in the middle may change, with the queues as they are or the first
\* segment sent again.
Midway(p, q, r, e, off) ==
    /\ Mid(r, q, e, off) /\ (r.unacked \o r.unsent = q \/ Resent(r, q))
    /\ r.snd_wl2 = r.lastack /\ r.lastack = p.lastack
    /\ r.fin = p.fin /\ r.state = p.state /\ r.snd_lbb = p.snd_lbb

\* The third duplicate acknowledgement.
LEMMA RexmitFast ==
    ASSUME NEW p, NEW e \in Nat, NEW off \in Nat, POK(p, e, off),
           NEW r, r = tcp_rexmit_fast(p)
    PROVE  Midway(p, p.unacked \o p.unsent, r, e, off)
<1> DEFINE q == p.unacked \o p.unsent
<1>1. p \in Pcb /\ Mid(p, q, e, off) /\ p.snd_wl2 = p.lastack
  BY DEF POK, Mid
<1>2. CASE p.unacked = <<>> \/ p.infr
  <2>1. r = p
    BY <1>2 DEF tcp_rexmit_fast
  <2> QED
    BY <1>1, <2>1 DEF Midway
<1>3. CASE ~(p.unacked = <<>> \/ p.infr)
  <2> DEFINE s == Head(p.unacked)
             v == Insert(p.unsent, s)
             o == IF Last(v) = s THEN 0 ELSE p.unsent_oversize
             h == Wnd(p) \div 2
             t == Larger(h, 2 * MSS)
             c == t + 3 * MSS
             x == tcp_rexmit(p)
  <2>1. r = [x EXCEPT !.ssthresh = t, !.cwnd = c, !.infr = TRUE, !.rtime = TRUE]
    BY <1>3 DEF tcp_rexmit_fast
  <2>2. x = [p EXCEPT !.unacked = Tail(@), !.unsent = v, !.unsent_oversize = o]
    BY <1>3 DEF tcp_rexmit
  <2>3. v = <<s>> \o p.unsent
    <3>1. /\ s \in Segment /\ p.unsent \in Seq(Segment)
          /\ \A i \in 1..Len(p.unsent) : ~(p.unsent[i].seq < s.seq)
      BY <1>3, HeadFits
    <3> HIDE DEF s
    <3> QED
      BY <3>1, InsertFirst
  <2>4. o \in Nat /\ (o = p.unsent_oversize \/ o = 0)
    BY <1>1, PcbFacts
  <2>5. t \in Nat /\ t >= MSS /\ c \in Nat /\ c >= MSS
    <3>1. MSS \in Nat /\ Wnd(p) \in Nat
      BY <1>1, Constants, WndFacts
    <3>2. h \in Nat
      BY <3>1
    <3> HIDE DEF h
    <3>3. t \in Nat /\ t >= 2 * MSS
      BY <3>1, <3>2 DEF Larger
    <3> HIDE DEF t
    <3> QED
      BY <3>1, <3>3
  <2> DEFINE z == Taken(p, Tail(p.unacked), <<Head(p.unacked)>> \o p.unsent, o, t, c)
  <2> HIDE DEF v, o, t, c, x
  <2>6. r = z
    BY <1>1, <2>1, <2>2, <2>3 DEF Taken, Pcb
  <2>7. p.unacked # <<>>
    BY <1>3
  <2> HIDE DEF z
  <2> QED
    <3>1. /\ Mid(r, q, e, off) /\ Resent(r, q)
          /\ r.snd_wl2 = r.lastack /\ r.lastack = p.lastack
          /\ r.fin = p.fin /\ r.state = p.state /\ r.snd_lbb = p.snd_lbb
      <4>1. r = Taken(p, Tail(p.unacked), <<Head(p.unacked)>> \o p.unsent, o, t, c)
        BY <2>6 DEF z
      <4> QED
        <5>1. POK(p, e, off) /\ e \in Nat /\ off \in Nat
          OBVIOUS
        <5> QED
          <6>1. PICK o2 \in Nat, t2 \in Nat, c2 \in Nat : o2 = o /\ t2 = t /\ c2 = c
            BY <2>4, <2>5
          <6>2. r = Taken(p, Tail(p.unacked), <<Head(p.unacked)>> \o p.unsent, o2, t2, c2)
            BY <4>1, <6>1
          <6>3. (o2 = p.unsent_oversize \/ o2 = 0) /\ t2 >= MSS /\ c2 >= MSS
            BY <2>4, <2>5, <6>1
          <6> QED
            BY <2>7, <5>1, <6>2, <6>3, TakenOK
    <3> QED
      BY <3>1 DEF Midway
<1> QED
  BY <1>2, <1>3

\* Another count of duplicates changes none of it.
LEMMA CountedOK ==
    ASSUME NEW p, NEW e \in Nat, NEW off \in Nat, POK(p, e, off), NEW d \in 0..4,
           NEW r, r = Counted(p, d)
    PROVE  POK(r, e, off) /\ Kept(p, r)
<1> DEFINE q == p.unacked \o p.unsent
<1>1. p \in Pcb /\ Mid(p, q, e, off) /\ p.snd_wl2 = p.lastack
  BY DEF POK, Mid
<1>2. r \in Pcb
  BY <1>1, CountedType
<1>3. /\ Same(p, r) /\ r.cwnd = p.cwnd /\ r.dupacks = d
      /\ r.state = p.state /\ r.snd_lbb = p.snd_lbb
  BY <1>1, CountedFields
<1>4. r.cwnd >= p.cwnd
  BY <1>1, <1>3, PcbFacts
<1>5. Mid(r, q, e, off)
  BY <1>1, <1>2, <1>3, <1>4, MidSame
<1> QED
  BY <1>1, <1>3, <1>5 DEF POK, Same, Kept

\* The acknowledgement is a duplicate.
LEMMA DupStep ==
    ASSUME NEW p, NEW e \in Nat, NEW off \in Nat, POK(p, e, off),
           NEW r, r = DupAck(p)
    PROVE  Midway(p, p.unacked \o p.unsent, r, e, off)
<1> DEFINE q == p.unacked \o p.unsent
           d == Smaller(p.dupacks + 1, 4)
           x == Counted(p, d)
           c == Larger(x.cwnd, Smaller(x.cwnd + MSS, CwndLimit))
<1>1. p \in Pcb /\ Mid(p, q, e, off) /\ p.snd_wl2 = p.lastack
  BY DEF POK, Mid
<1>2. d \in 0..4
  <2>1. p.dupacks \in 0..4
    BY <1>1, PcbFacts
  <2> QED
    BY <2>1 DEF Smaller
<1>3. /\ r = IF x.dupacks > 3 THEN Opened(x, c)
             ELSE IF x.dupacks = 3 THEN tcp_rexmit_fast(x) ELSE x
  BY DEF DupAck, Counted, Opened
<1> HIDE DEF d
<1>4. /\ POK(x, e, off) /\ x.unacked = p.unacked /\ x.unsent = p.unsent
      /\ x.lastack = p.lastack /\ x.fin = p.fin /\ x.state = p.state
      /\ x.snd_lbb = p.snd_lbb /\ x.snd_wl2 = x.lastack
  <2>1. PICK k \in 0..4 : k = d
    BY <1>2
  <2>2. x = Counted(p, k)
    BY <2>1
  <2> HIDE DEF x, q
  <2>3. POK(x, e, off) /\ Kept(p, x)
    BY <2>2, CountedOK
  <2> QED
    BY <2>3 DEF Kept, POK
<1> HIDE DEF x
<1>5. CASE x.dupacks > 3
  <2>1. r = Opened(x, c)
    BY <1>3, <1>5
  <2>2. x \in Pcb /\ Mid(x, q, e, off)
    BY <1>4 DEF POK, Mid
  <2>3. c \in Nat /\ c >= x.cwnd
    <3>1. x.cwnd \in Nat /\ MSS \in Nat /\ CwndLimit \in Nat
      BY <2>2, PcbFacts, Constants, LimitFacts
    <3> QED
      BY <3>1 DEF Larger, Smaller
  <2> HIDE DEF c
  <2>4. r \in Pcb
    BY <2>1, <2>2, <2>3, OpenedType
  <2>5. Same(x, r) /\ r.cwnd = c /\ r.state = x.state /\ r.snd_lbb = x.snd_lbb
    BY <2>1, <2>2, OpenedFields
  <2>6. Mid(r, q, e, off)
    BY <2>2, <2>3, <2>4, <2>5, MidSame
  <2> QED
    BY <1>4, <2>5, <2>6 DEF Midway, Same
<1>6. CASE ~(x.dupacks > 3) /\ x.dupacks = 3
  <2>1. r = tcp_rexmit_fast(x)
    BY <1>3, <1>6
  <2>2. Midway(x, x.unacked \o x.unsent, r, e, off)
    BY <1>4, <2>1, RexmitFast
  <2> QED
    BY <1>4, <2>2 DEF Midway
<1>7. CASE ~(x.dupacks > 3) /\ x.dupacks # 3
  <2>1. r = x
    BY <1>3, <1>7
  <2> QED
    BY <1>4, <2>1 DEF Midway, POK
<1> QED
  BY <1>5, <1>6, <1>7

\* Established as an update of fields.
Settled(p, c) == [p EXCEPT !.state = "ESTABLISHED", !.cwnd = c]

\* Its type.
LEMMA SettledType ==
    ASSUME NEW p \in Pcb, NEW c \in Nat, NEW r, r = Settled(p, c)
    PROVE  r \in Pcb
BY DEF Pcb, Settled

\* Its fields.
LEMMA SettledFields ==
    ASSUME NEW p \in Pcb, NEW c
    PROVE  LET r == Settled(p, c)
           IN  Same(p, r) /\ r.cwnd = c /\ r.state = "ESTABLISHED" /\ r.snd_lbb = p.snd_lbb
BY DEF Pcb, Settled, Same

\* The acknowledgement of the SYN.
LEMMA EstablishedOK ==
    ASSUME NEW o, NEW p, NEW e \in Nat, NEW off \in Nat, POK(p, e, off),
           NEW r, r = Established(o, p)
    PROVE  /\ POK(r, e, off) /\ r.fin = p.fin /\ r.snd_lbb = p.snd_lbb
           /\ r.state = IF o.state = "SYN_RCVD" THEN "ESTABLISHED" ELSE p.state
<1>1. CASE o.state = "SYN_RCVD"
  <2> DEFINE c == 4 * MSS
             q == p.unacked \o p.unsent
  <2>1. r = Settled(p, c)
    BY <1>1 DEF Established, Settled
  <2>2. c \in Nat /\ c >= MSS
    BY Constants
  <2> HIDE DEF c
  <2>3. p \in Pcb /\ Mid(p, q, e, off) /\ p.snd_wl2 = p.lastack
    BY DEF POK, Mid
  <2>4. r \in Pcb
    BY <2>1, <2>2, <2>3, SettledType
  <2>5. Same(p, r) /\ r.cwnd = c /\ r.state = "ESTABLISHED" /\ r.snd_lbb = p.snd_lbb
    BY <2>1, <2>3, SettledFields
  <2>6. Mid(r, q, e, off)
    BY <2>2, <2>3, <2>4, <2>5, MidSame
  <2> QED
    BY <1>1, <2>3, <2>5, <2>6 DEF POK, Same
<1>2. CASE o.state # "SYN_RCVD"
  BY <1>2 DEF Established
<1> QED
  BY <1>1, <1>2

-----------------------------------------------------------------------------
(* The steps                                                               *)

\* A pcb that tcp_output may be called with.
Ready(p, e, off, ackNow) ==
    /\ p.snd_wl2 = p.lastack
    /\ \E q : /\ Mid(p, q, e, off)
              /\ q = p.unacked \o p.unsent \/ (Resent(p, q) /\ ackNow = FALSE)

\* The invariant is enough.
LEMMA ReadyPOK ==
    ASSUME NEW p, NEW e \in Nat, NEW off \in Nat, NEW ack \in BOOLEAN, POK(p, e, off)
    PROVE  Ready(p, e, off, ack)
<1> DEFINE q == p.unacked \o p.unsent
<1>1. Mid(p, q, e, off) /\ p.snd_wl2 = p.lastack
  BY DEF POK
<1>2. q = p.unacked \o p.unsent
  OBVIOUS
<1> HIDE DEF q
<1> QED
  BY <1>1, <1>2 DEF Ready

\* What a duplicate leaves is, too, when no empty ACK is due.
LEMMA ReadyMidway ==
    ASSUME NEW p, NEW r, NEW q, NEW e \in Nat, NEW off \in Nat, Midway(p, q, r, e, off)
    PROVE  Ready(r, e, off, FALSE)
<1>1. /\ Mid(r, q, e, off) /\ (r.unacked \o r.unsent = q \/ Resent(r, q))
      /\ r.snd_wl2 = r.lastack
  BY DEF Midway
<1>2. q = r.unacked \o r.unsent \/ (Resent(r, q) /\ FALSE = FALSE)
  BY <1>1
<1> QED
  BY <1>1, <1>2 DEF Ready

\* tcp_output from there.
LEMMA ReadyOutput ==
    ASSUME NEW p, NEW e \in Nat, NEW off \in Nat, NEW ack \in BOOLEAN, Ready(p, e, off, ack),
           NEW r, Output(p, ack, r)
    PROVE  POK(r, e, off) /\ Lasting(p, r)
<1>1. PICK q : /\ Mid(p, q, e, off)
               /\ q = p.unacked \o p.unsent \/ (Resent(p, q) /\ ack = FALSE)
  BY DEF Ready
<1>2. p.snd_wl2 = p.lastack
  BY DEF Ready
<1> QED
  BY <1>1, <1>2, OutputOK

\* The window update.
LEMMA WindowUpdateIs ==
    ASSUME NEW p, NEW ackno, NEW wnd, NEW newer
    PROVE  WindowUpdate(p, ackno, wnd, newer) =
               IF IsUpdate(p, ackno, wnd, newer) THEN Updated(p, ackno, wnd) ELSE p
BY DEF WindowUpdate, Updated

\* A segment that acknowledges nothing new, after the window update.
LEMMA NothingNew ==
    ASSUME NEW p, NEW x, NEW e \in Nat, NEW off \in Nat, POK(x, e, off),
           NEW ackno \in Nat, ~(ackno > p.lastack), NEW text \in BOOLEAN,
           NEW ack \in BOOLEAN, ack => text, NEW r, r = Acknowledge(p, x, ackno, text)
    PROVE  Ready(r, e, off, ack) /\ Lasting(x, r)
<1>1. CASE Duplicate(p, x, ackno, text)
  <2>1. r = DupAck(x)
    BY <1>1 DEF Acknowledge
  <2>2. Midway(x, x.unacked \o x.unsent, r, e, off)
    BY <2>1, DupStep
  <2>3. ack = FALSE
    BY <1>1 DEF Duplicate
  <2>4. Ready(r, e, off, FALSE)
    BY <2>2, ReadyMidway
  <2> QED
    BY <2>2, <2>3, <2>4 DEF Midway, Lasting
<1>2. CASE ~Duplicate(p, x, ackno, text)
  <2>1. PICK d \in 0..4 : d = 0
    OBVIOUS
  <2>2. r = Counted(x, d)
    BY <1>2, <2>1 DEF Acknowledge, Counted
  <2>3. POK(r, e, off) /\ Kept(x, r)
    BY <2>2, CountedOK
  <2>4. Ready(r, e, off, ack)
    BY <2>3, ReadyPOK
  <2> QED
    BY <2>3, <2>4 DEF Kept, Lasting
<1> QED
  BY <1>1, <1>2

\* Which segments the peer sends.
Segmental(p, off, ackno, wnd, newer, text, ack) ==
    /\ p.state = "SYN_RCVD" => ackno > 0
    /\ p.lastack = 0 => newer
    /\ newer => ackno >= p.snd_wl2
    /\ ack => text
    /\ IF IsUpdate(p, ackno, wnd, newer) THEN ackno + wnd >= off ELSE ackno + wnd <= off

\* A segment, up to tcp_output.
LEMMA InputOK ==
    ASSUME NEW p, NEW e \in Nat, NEW off \in Nat, POK(p, e, off),
           p.state = "SYN_RCVD" => p.lastack = 0,
           NEW ackno \in Nat, p.lastack < ackno => ackno <= p.snd_nxt, NEW wnd \in Nat,
           NEW newer \in BOOLEAN, NEW text \in BOOLEAN, NEW ack \in BOOLEAN,
           Segmental(p, off, ackno, wnd, newer, text, ack),
           NEW x, x = WindowUpdate(p, ackno, wnd, newer),
           NEW r, r = Established(p, Acknowledge(p, x, ackno, text))
    PROVE  /\ Ready(r, e, Larger(off, ackno + wnd), ack)
           /\ r.fin = p.fin /\ r.snd_lbb = p.snd_lbb
           /\ r.state = IF p.state = "SYN_RCVD" THEN "ESTABLISHED" ELSE p.state
<1>1. /\ p \in Pcb /\ p.snd_wl2 = p.lastack /\ p.lastack \in Nat /\ p.snd_wnd \in Nat
  BY PcbFacts DEF POK, Mid
<1> DEFINE y == Acknowledge(p, x, ackno, text)
           edge == ackno + wnd
<1>2. edge \in Nat
  OBVIOUS
<1>3. CASE IsUpdate(p, ackno, wnd, newer)
  <2>1. x = Updated(p, ackno, wnd)
    BY <1>3, WindowUpdateIs
  <2>2. p.lastack <= ackno
    <3>1. newer \/ p.snd_wl2 < ackno \/ p.snd_wl2 = ackno
      BY <1>3 DEF IsUpdate
    <3> QED
      BY <1>1, <3>1 DEF Segmental
  <2>3. off <= ackno + wnd
    BY <1>3 DEF Segmental
  <2>4. Larger(off, edge) = edge
    BY <1>2, <2>3 DEF Larger
  <2>5. CASE p.lastack < ackno
    <3>1. y = NewAck(x, ackno)
      BY <1>1, <2>5 DEF Acknowledge
    <3>6. ackno <= p.snd_nxt
      BY <2>5
    <3> HIDE DEF y
    <3>2. POK(y, e, edge) /\ y.fin = p.fin /\ y.state = p.state /\ y.snd_lbb = p.snd_lbb
      BY <2>1, <2>3, <2>5, <3>1, <3>6, NewAckOK
    <3>3. r = Established(p, y)
      BY DEF y
    <3> HIDE DEF edge
    <3>4. /\ POK(r, e, edge) /\ r.fin = y.fin /\ r.snd_lbb = y.snd_lbb
          /\ r.state = IF p.state = "SYN_RCVD" THEN "ESTABLISHED" ELSE y.state
      BY <1>2, <3>2, <3>3, EstablishedOK
    <3>5. Ready(r, e, edge, ack)
      BY <1>2, <3>4, ReadyPOK
    <3> QED
      BY <2>4, <3>2, <3>4, <3>5 DEF edge
  <2>6. CASE p.lastack = ackno
    <3>1. POK(x, e, edge) /\ x.fin = p.fin /\ x.state = p.state /\ x.snd_lbb = p.snd_lbb
      BY <2>1, <2>3, <2>6, UpdateOK DEF Kept
    <3>2. p.state # "SYN_RCVD"
      BY <1>1, <2>6 DEF Segmental
    <3>3. r = y
      BY <3>2 DEF Established
    <3>4. ~(ackno > p.lastack)
      BY <1>1, <2>6
    <3>5. ack => text
      BY DEF Segmental
    <3> HIDE DEF edge
    <3>6. Ready(y, e, edge, ack) /\ Lasting(x, y)
      BY <1>2, <3>1, <3>4, <3>5, NothingNew
    <3> QED
      BY <2>4, <3>1, <3>2, <3>3, <3>6 DEF edge, Lasting
  <2> QED
    BY <1>1, <2>2, <2>5, <2>6
<1>4. CASE ~IsUpdate(p, ackno, wnd, newer)
  <2>1. x = p
    BY <1>4, WindowUpdateIs
  <2>2. ~newer /\ ~(ackno > p.lastack)
    BY <1>1, <1>4 DEF IsUpdate
  <2>3. ackno + wnd <= off /\ p.state # "SYN_RCVD" /\ (ack => text)
    BY <1>4, <2>2 DEF Segmental
  <2>4. Larger(off, ackno + wnd) = off
    BY <1>2, <2>3 DEF Larger
  <2>5. r = y
    BY <2>3 DEF Established
  <2>6. Ready(y, e, off, ack) /\ Lasting(x, y)
    BY <2>1, <2>2, <2>3, NothingNew
  <2> QED
    BY <2>1, <2>3, <2>4, <2>5, <2>6 DEF Lasting
<1> QED
  BY <1>3, <1>4

-----------------------------------------------------------------------------
(* The end of the queue                                                    *)

\* An element behind a sequence.
LEMMA OneBehind ==
    ASSUME NEW S, NEW f \in Seq(S), NEW e \in S, NEW k, k = Len(f)
    PROVE  /\ k \in Nat /\ f \o <<e>> \in Seq(S) /\ Len(f \o <<e>>) = k + 1
           /\ \A i \in 1..k : (f \o <<e>>)[i] = f[i]
           /\ (f \o <<e>>)[k + 1] = e
<1> DEFINE h == <<e>>
           m == Len(f)
           n == Len(h)
<1>1. n = 1 /\ h[1] = e
  OBVIOUS
<1>0. h \in Seq(S) /\ m = Len(f) /\ n = Len(h)
  OBVIOUS
<1>4. k = m
  OBVIOUS
<1> HIDE DEF h, m, n
<1>2. /\ m \in Nat /\ n \in Nat
      /\ f \o h \in Seq(S) /\ Len(f \o h) = m + n
      /\ \A i \in 1..m : (f \o h)[i] = f[i]
      /\ \A i \in 1..n : (f \o h)[m + i] = h[i]
  BY <1>0, Joined
<1>3. (f \o h)[m + 1] = e
  <2>1. 1 \in 1..n
    BY <1>1
  <2> QED
    BY <1>1, <1>2, <2>1
<1> QED
  BY <1>1, <1>2, <1>3, <1>4 DEF h

\* The last one of several elements, and another one in its place.
LEMMA LastSplit ==
    ASSUME NEW S, NEW v \in Seq(S), v # <<>>
    PROVE  LET f == SubSeq(v, 1, Len(v) - 1)
           IN  /\ Len(v) \in Nat /\ Len(v) >= 1
               /\ f \in Seq(S) /\ Last(v) \in S /\ Last(v) = v[Len(v)] /\ v = f \o <<Last(v)>>
               /\ \A s \in S : [v EXCEPT ![Len(v)] = s] = f \o <<s>>
<1> DEFINE n == Len(v)
           f == SubSeq(v, 1, n - 1)
<1>1. n \in Nat /\ n >= 1 /\ n \in 1..n /\ 1 \in 1..n
  BY LenProperties, EmptySeq
<1>2. v[n] \in S /\ Last(v) = v[n]
  BY <1>1, ElementOfSeq DEF Last
<1>3. f \in Seq(S) /\ Len(f) = n - 1 /\ \A i \in 1..(n - 1) : f[i] = v[i]
  <2> DEFINE k == n - 1
  <2>1. k \in 0..n
    BY <1>1
  <2> HIDE DEF k, n
  <2>2. /\ SubSeq(v, 1, k) \in Seq(S) /\ Len(SubSeq(v, 1, k)) = k
        /\ \A i \in 1..k : SubSeq(v, 1, k)[i] = v[i]
    BY <2>1, Part DEF n
  <2> QED
    BY <2>2 DEF k
<1>4. \A s \in S : [v EXCEPT ![n] = s] = f \o <<s>>
  <2> SUFFICES ASSUME NEW s \in S
               PROVE  [v EXCEPT ![n] = s] = f \o <<s>>
    OBVIOUS
  <2> DEFINE x == [v EXCEPT ![n] = s]
             h == <<s>>
             y == f \o h
  <2>1. x \in Seq(S) /\ Len(x) = n /\ \A j \in 1..n : x[j] = IF j = n THEN s ELSE v[j]
    BY <1>1, ExceptSeq
  <2> DEFINE k == n - 1
  <2>2. k = Len(f) /\ k + 1 = n /\ k \in Nat
    BY <1>1, <1>3
  <2> HIDE DEF f, x, k
  <2>3. /\ y \in Seq(S) /\ Len(y) = k + 1 /\ y[k + 1] = s
        /\ \A i \in 1..k : y[i] = f[i]
    BY <1>3, <2>2, OneBehind
  <2>6. \A i \in 1..k : f[i] = v[i]
    BY <1>3 DEF k
  <2> HIDE DEF y, n
  <2>4. \A i \in 1..n : x[i] = y[i]
    <3> SUFFICES ASSUME NEW i \in 1..n
                 PROVE  x[i] = y[i]
      OBVIOUS
    <3>1. i = n \/ (i \in 1..k /\ i # n)
      BY <1>1, <2>2
    <3> QED
      BY <1>1, <2>1, <2>2, <2>3, <2>6, <3>1
  <2>5. x = y
    BY <1>1, <2>1, <2>2, <2>3, <2>4, SeqEqual
  <2> QED
    BY <2>5 DEF x, y, h
<1>5. v = f \o <<v[n]>>
  <2>1. [v EXCEPT ![n] = v[n]] = v
    BY LenProperties
  <2> QED
    BY <1>2, <1>4, <2>1
<1> QED
  BY <1>1, <1>2, <1>3, <1>4, <1>5

\* The last of two sequences that are joined.
LEMMA LastJoined ==
    ASSUME NEW S, NEW u \in Seq(S), NEW v \in Seq(S), v # <<>>
    PROVE  u \o v \in Seq(S) /\ u \o v # <<>> /\ Last(u \o v) = Last(v)
<1> DEFINE m == Len(u)
           n == Len(v)
           c == u \o v
<1>1. n \in Nat /\ n >= 1
  BY LenProperties, EmptySeq
<1>2. /\ m \in Nat /\ c \in Seq(S) /\ Len(c) = m + n
      /\ \A i \in 1..n : c[m + i] = v[i]
  BY Joined
<1>3. Last(v) = v[n]
  BY DEF Last
<1> HIDE DEF c, m, n
<1>4. n \in 1..n /\ Len(c) # 0
  BY <1>1, <1>2
<1>5. c[m + n] = v[n] /\ c # <<>>
  BY <1>2, <1>4, EmptySeq
<1>6. Last(c) = c[m + n]
  BY <1>2 DEF Last
<1> QED
  BY <1>2, <1>3, <1>5, <1>6 DEF c

\* A segment is a chain.
LEMMA ChainOne ==
    ASSUME NEW m \in Nat, NEW s, SegmentOK(s, m)
    PROVE  LET q == <<s>>
           IN  Chain(q, m) /\ q # <<>> /\ Len(q) = 1 /\ q[1] = s /\ q \in Seq(Segment)
<1> DEFINE q == <<s>>
<1>1. s \in Segment
  BY DEF SegmentOK
<1>2. q \in Seq(Segment) /\ Len(q) = 1 /\ q[1] = s /\ q # <<>>
  BY <1>1
<1> HIDE DEF q
<1>3. \A i \in 1..Len(q) : SegmentOK(q[i], m)
  BY <1>2
<1>4. \A i \in 2..Len(q) : q[i].seq = EndOf(q[i - 1])
  BY <1>2
<1> QED
  BY <1>2, <1>3, <1>4 DEF Chain, q

\* More segments behind a queue.
LEMMA AppendChain ==
    ASSUME NEW m \in Nat, NEW q, NEW w, Chain(q, m), Chain(w, m), w # <<>>,
           NEW a \in Nat, NEW e \in Nat, Covers(q, a, e), w[1].seq = e
    PROVE  Chain(q \o w, m) /\ Covers(q \o w, a, EndOf(Last(w)))
<1> DEFINE k == Len(q)
           n == Len(w)
           c == q \o w
<1>1. q \in Seq(Segment) /\ w \in Seq(Segment)
  BY DEF Chain
<1>2. n \in Nat /\ n >= 1 /\ 1 \in 1..n
  BY <1>1, LenProperties, EmptySeq
<1>3. /\ k \in Nat /\ c \in Seq(Segment) /\ Len(c) = k + n
      /\ \A i \in 1..k : c[i] = q[i]
      /\ \A i \in 1..n : c[k + i] = w[i]
  BY <1>1, Joined
<1>4. q # <<>> => w[1].seq = EndOf(q[k])
  BY DEF Covers
<1>5. Chain(c, m)
  BY <1>4, ChainJoin
<1>6. c # <<>> /\ Last(c) = Last(w) /\ Last(c) = c[Len(c)]
  BY <1>1, LastJoined DEF Last
<1>7. c[1].seq <= a /\ a < EndOf(c[1])
  <2>1. CASE q = <<>>
    <3>1. k = 0 /\ a = e
      BY <2>1, EmptySeq DEF Covers
    <3>2. c[k + 1] = w[1]
      BY <1>2, <1>3
    <3>3. w[1].seq < EndOf(w[1])
      BY <1>2, ChainFacts
    <3> HIDE DEF c, k
    <3> QED
      BY <3>1, <3>2, <3>3
  <2>2. CASE q # <<>>
    <3>1. 1 \in 1..k
      BY <1>1, <1>3, <2>2, EmptySeq
    <3>2. c[1] = q[1]
      BY <1>3, <3>1
    <3> HIDE DEF c
    <3> QED
      BY <2>2, <3>2 DEF Covers
  <2> QED
    BY <2>1, <2>2
<1> HIDE DEF c
<1>8. Covers(c, a, EndOf(Last(w)))
  BY <1>6, <1>7 DEF Covers
<1> QED
  BY <1>5, <1>8 DEF c

\* Another segment in the place of the last one, which begins where that began and does
\* not end before it.
LEMMA ReplaceLast ==
    ASSUME NEW m \in Nat, NEW f \in Seq(Segment), NEW s \in Segment, NEW t \in Segment,
           Chain(f \o <<s>>, m), SegmentOK(t, m), t.seq = s.seq, EndOf(s) <= EndOf(t),
           NEW a \in Nat, NEW e \in Nat, Covers(f \o <<s>>, a, e)
    PROVE  /\ Chain(f \o <<t>>, m) /\ Covers(f \o <<t>>, a, EndOf(t)) /\ EndOf(s) = e
           /\ Pbufs(f \o <<t>>) = Pbufs(f) + t.clen
           /\ Pbufs(f \o <<s>>) = Pbufs(f) + s.clen
           /\ Volume(f \o <<t>>) = Volume(f) + Len(t.data)
           /\ Volume(f \o <<s>>) = Volume(f) + Len(s.data)
<1> DEFINE k == Len(f)
           x == <<s>>
           y == <<t>>
           c == f \o x
           d == f \o y
<1>1. x \in Seq(Segment) /\ Len(x) = 1 /\ x[1] = s /\ x # <<>>
  OBVIOUS
<1>2. Chain(y, m) /\ y # <<>> /\ Len(y) = 1 /\ y[1] = t /\ y \in Seq(Segment)
  BY ChainOne
<1>3. /\ Pbufs(x) = s.clen /\ Volume(x) = Len(s.data)
      /\ Pbufs(y) = t.clen /\ Volume(y) = Len(t.data)
  BY CountsOne
<1>0. Chain(c, m) /\ Covers(c, a, e)
  OBVIOUS
<1>10. k \in Nat
  BY LenProperties
<1> HIDE DEF x, y, k
<1>4. /\ Pbufs(d) = Pbufs(f) + Pbufs(y) /\ Volume(d) = Volume(f) + Volume(y)
      /\ Pbufs(c) = Pbufs(f) + Pbufs(x) /\ Volume(c) = Volume(f) + Volume(x)
  BY <1>1, <1>2, CountsConcat
<1>5. /\ c \in Seq(Segment) /\ Len(c) = k + 1
      /\ \A i \in 1..k : c[i] = f[i]
      /\ c[k + 1] = s
  BY OneBehind DEF k, x
<1>6. /\ d \in Seq(Segment) /\ Len(d) = k + 1
      /\ \A i \in 1..k : d[i] = f[i]
      /\ d[k + 1] = t
  BY OneBehind DEF k, y
<1>7. Chain(f, m) /\ (f # <<>> => s.seq = EndOf(f[k]))
  BY <1>0, <1>1, ChainParts DEF k
<1>8. Chain(d, m)
  <2>1. f # <<>> /\ y # <<>> => y[1].seq = EndOf(f[Len(f)])
    BY <1>2, <1>7 DEF k
  <2> QED
    BY <1>2, <1>7, <2>1, ChainJoin
<1> HIDE DEF c, d
<1>9. c # <<>> /\ d # <<>>
  BY <1>5, <1>6, <1>10, EmptySeq
<1>11. EndOf(s) = e /\ c[1].seq <= a /\ a < EndOf(c[1])
  BY <1>0, <1>5, <1>9 DEF Covers
<1>12. d[1].seq <= a /\ a < EndOf(d[1])
  <2>1. CASE k = 0
    <3>1. c[1] = s /\ d[1] = t
      BY <1>5, <1>6, <2>1
    <3>2. EndOf(t) \in Nat /\ e \in Nat
      BY SegmentFacts
    <3> QED
      BY <1>11, <3>1, <3>2
  <2>2. CASE k # 0
    <3>1. 1 \in 1..k
      BY <1>10, <2>2
    <3>2. c[1] = d[1]
      BY <1>5, <1>6, <3>1
    <3> QED
      BY <1>11, <3>2
  <2> QED
    BY <2>1, <2>2
<1>13. Covers(d, a, EndOf(t))
  BY <1>6, <1>9, <1>12 DEF Covers
<1> QED
  BY <1>3, <1>4, <1>8, <1>11, <1>13 DEF c, d, x, y

\* The last segment of unsent is the last of the queue, and one in its place is, too.
LEMMA EndOfUnsent ==
    ASSUME NEW p, NEW e \in Nat, NEW off \in Nat, POK(p, e, off), p.unsent # <<>>
    PROVE  LET n == Len(p.unsent)
               s == Last(p.unsent)
               g == p.unacked \o SubSeq(p.unsent, 1, n - 1)
           IN  /\ n \in Nat /\ n >= 1 /\ s = p.unsent[n] /\ s \in Segment
               /\ g \in Seq(Segment) /\ p.unacked \o p.unsent = g \o <<s>>
               /\ SegmentOK(s, MssLocal(p)) /\ (~p.fin => ~s.fin)
               /\ \A t \in Segment :
                     LET v == [p.unsent EXCEPT ![n] = t]
                     IN  /\ v \in Seq(Segment) /\ v # <<>> /\ Last(v) = t
                         /\ p.unacked \o v = g \o <<t>>
<1> DEFINE n == Len(p.unsent)
           s == Last(p.unsent)
           u == p.unacked
           f == SubSeq(p.unsent, 1, n - 1)
           g == u \o f
           q == p.unacked \o p.unsent
           m == MssLocal(p)
<1>1. Mid(p, q, e, off)
  BY DEF POK
<1>2. /\ p \in Pcb /\ m \in Nat /\ Chain(q, m) /\ (~p.fin => \A i \in 1..Len(q) : ~q[i].fin)
      /\ u \in Seq(Segment) /\ p.unsent \in Seq(Segment)
  BY <1>1, MidMss, PcbFacts DEF Mid, Content
<1>3. /\ n \in Nat /\ n >= 1 /\ f \in Seq(Segment) /\ s \in Segment /\ s = p.unsent[n]
      /\ p.unsent = f \o <<s>>
      /\ \A t \in Segment : [p.unsent EXCEPT ![n] = t] = f \o <<t>>
  BY <1>2, LastSplit
<1> HIDE DEF f, s, u, m, n
<1>4. g \in Seq(Segment)
  BY <1>2, <1>3, ConcatProperties
<1>5. \A t \in Segment : u \o (f \o <<t>>) = g \o <<t>>
  <2>1. u \in Seq(Segment) /\ f \in Seq(Segment)
    BY <1>2, <1>3
  <2>2. \A t \in Segment : (u \o f) \o <<t>> = u \o (f \o <<t>>)
    BY ONLY <2>1, JoinedAndOne
  <2> QED
    BY <2>2
<1>6. q = g \o <<s>>
  BY <1>3, <1>5 DEF u
<1> HIDE DEF g, q
<1> DEFINE k == Len(g)
<1>11. k = Len(g)
  OBVIOUS
<1> HIDE DEF k
<1>7. k \in Nat /\ Len(q) = k + 1 /\ q[k + 1] = s
  <2>1. s \in Segment /\ g \in Seq(Segment) /\ k = Len(g) /\ q = g \o <<s>>
    BY <1>3, <1>4, <1>6, <1>11
  <2> QED
    BY <2>1, OneBehind
<1>8. k + 1 \in 1..Len(q)
  BY <1>7
<1>9. SegmentOK(s, m) /\ (~p.fin => ~s.fin)
  BY <1>2, <1>7, <1>8 DEF Chain
<1>10. ASSUME NEW t \in Segment
       PROVE  LET v == [p.unsent EXCEPT ![n] = t]
              IN  /\ v \in Seq(Segment) /\ v # <<>> /\ Last(v) = t
                  /\ u \o v = g \o <<t>>
  <2> DEFINE v == [p.unsent EXCEPT ![n] = t]
             l == Len(f)
  <2>1. v = f \o <<t>>
    BY <1>3
  <2>2. l \in Nat /\ v \in Seq(Segment) /\ Len(v) = l + 1 /\ v[l + 1] = t
    <3>1. l = Len(f)
      OBVIOUS
    <3> HIDE DEF l, v
    <3> QED
      BY <1>3, <2>1, <3>1, OneBehind
  <2>3. u \o v = g \o <<t>>
    BY <1>5, <2>1
  <2> HIDE DEF v, l
  <2>4. v # <<>> /\ Last(v) = t
    BY <2>2, EmptySeq DEF Last
  <2> QED
    BY <2>2, <2>3, <2>4 DEF v
<1> QED
  BY <1>3, <1>4, <1>6, <1>9, <1>10 DEF f, s, u, m, n, g, q

\* A pcb with more to send.
Extended(p, v, o, l, b, n, f, t) ==
    [p EXCEPT !.unsent = v, !.unsent_oversize = o, !.snd_lbb = l, !.snd_buf = b,
              !.snd_queuelen = n, !.fin = f, !.state = t]

\* Its type.
LEMMA ExtendedType ==
    ASSUME NEW p \in Pcb, NEW v \in Seq(Segment), NEW o \in Nat, NEW l \in Nat, NEW b \in Int,
           NEW n \in Int, NEW f \in BOOLEAN, NEW t \in {"SYN_RCVD", "ESTABLISHED", "FIN_WAIT_1"},
           NEW r, r = Extended(p, v, o, l, b, n, f, t)
    PROVE  r \in Pcb
BY DEF Pcb, Extended

\* The fields that it leaves alone.
Behind(p, r) ==
    /\ r.unacked = p.unacked /\ r.lastack = p.lastack /\ r.snd_wl2 = p.snd_wl2
    /\ r.snd_nxt = p.snd_nxt /\ r.snd_wnd = p.snd_wnd /\ r.snd_wnd_max = p.snd_wnd_max
    /\ r.cwnd = p.cwnd /\ r.ssthresh = p.ssthresh /\ r.infr = p.infr /\ r.rtime = p.rtime
    /\ r.persist = p.persist

\* The others.
Ahead(r, v, o, l, b, n, f, t) ==
    /\ r.unsent = v /\ r.unsent_oversize = o /\ r.snd_lbb = l /\ r.snd_buf = b
    /\ r.snd_queuelen = n /\ r.fin = f /\ r.state = t

\* Its fields.
LEMMA ExtendedFields ==
    ASSUME NEW p \in Pcb, NEW v, NEW o, NEW l, NEW b, NEW n, NEW f, NEW t,
           NEW r, r = Extended(p, v, o, l, b, n, f, t)
    PROVE  Behind(p, r) /\ Ahead(r, v, o, l, b, n, f, t)
BY DEF Pcb, Extended, Behind, Ahead

\* The invariant of a pcb with more to send.
LEMMA Lengthened ==
    ASSUME NEW p, NEW e \in Nat, NEW off \in Nat, POK(p, e, off), NEW r \in Pcb, Behind(p, r),
           NEW d \in Nat, e <= d, Content(r, r.unacked \o r.unsent, d), Oversize(r)
    PROVE  POK(r, d, off)
<1>1. /\ p \in Pcb /\ Windowed(p, e, off) /\ Flight(p) /\ p.snd_wl2 = p.lastack
  BY DEF POK, Mid
<1>2. p.snd_nxt \in Nat /\ p.snd_nxt <= d
  <2>1. p.snd_nxt \in Nat /\ p.snd_nxt <= e
    BY <1>1, PcbFacts DEF Windowed
  <2> QED
    BY <2>1
<1>3. Windowed(r, d, off)
  BY <1>1, <1>2 DEF Windowed, Behind
<1>4. Flight(r)
  BY <1>1 DEF Flight, Behind
<1> QED
  BY <1>1, <1>3, <1>4 DEF POK, Mid, Behind

\* A segment with a FIN in the place of the last one.
LEMMA FinOnLast ==
    ASSUME NEW m \in Nat, NEW s, SegmentOK(s, m), ~s.syn, ~s.fin,
           NEW t, t = [s EXCEPT !.fin = TRUE]
    PROVE  /\ t \in Segment /\ SegmentOK(t, m) /\ t.seq = s.seq /\ t.data = s.data
           /\ t.clen = s.clen /\ EndOf(t) = EndOf(s) + 1
<1>1. s \in Segment /\ s.seq \in Nat /\ Len(s.data) \in Nat
  <2>1. s \in Segment
    BY DEF SegmentOK
  <2>2. s.seq \in Nat /\ s.data \in Seq(Nat)
    BY <2>1 DEF Segment
  <2> QED
    BY <2>1, <2>2, LenProperties
<1>2. /\ t \in Segment /\ t.seq = s.seq /\ t.data = s.data /\ t.clen = s.clen
      /\ t.syn = s.syn /\ t.fin
  BY <1>1 DEF Segment
<1>3. TCP_TCPLEN(s) = Len(s.data) /\ TCP_TCPLEN(t) = Len(s.data) + 1
  <2> DEFINE d == Len(s.data)
  <2>1. TCP_TCPLEN(s) = d + 0
    BY Zenon DEF TCP_TCPLEN
  <2>2. TCP_TCPLEN(t) = d + 1
    BY <1>2, Zenon DEF TCP_TCPLEN
  <2>3. d \in Nat
    BY <1>1
  <2> HIDE DEF d
  <2> QED
    BY <2>1, <2>2, <2>3 DEF d
<1>4. EndOf(t) = EndOf(s) + 1
  <2> DEFINE a == s.seq
             d == Len(s.data)
  <2>1. a \in Nat /\ d \in Nat /\ EndOf(s) = a + d /\ EndOf(t) = a + (d + 1)
    BY <1>1, <1>2, <1>3 DEF EndOf
  <2> HIDE DEF a, d
  <2> QED
    BY <2>1
<1>5. SegmentOK(t, m)
  BY <1>1, <1>2, <1>3 DEF SegmentOK
<1> QED
  BY <1>2, <1>4, <1>5

\* A segment of its fields.
LEMMA SegmentRecord ==
    ASSUME NEW a \in Nat, NEW d \in Seq(Nat), NEW f \in BOOLEAN
    PROVE  [seq |-> a, data |-> d, clen |-> 1, syn |-> FALSE, fin |-> f] \in Segment
BY DEF Segment

\* A segment that has nothing but a FIN.
FinSegment(a) == [tcp_create_segment(a, <<>>) EXCEPT !.fin = TRUE]

\* It is one.
LEMMA FinAlone ==
    ASSUME NEW m \in Nat, NEW a \in Nat, a >= 1, NEW t, t = FinSegment(a)
    PROVE  /\ t \in Segment /\ SegmentOK(t, m) /\ t.seq = a /\ Len(t.data) = 0
           /\ t.clen = 1 /\ EndOf(t) = a + 1
<1> DEFINE d == <<>>
<1>0. d \in Seq(Nat) /\ Len(d) = 0
  OBVIOUS
<1>6. t = [tcp_create_segment(a, d) EXCEPT !.fin = TRUE]
  BY DEF FinSegment
<1> HIDE DEF d
<1>1. t = [seq |-> a, data |-> d, clen |-> 1, syn |-> FALSE, fin |-> TRUE]
  BY <1>6 DEF tcp_create_segment
<1>2. t \in Segment /\ t.seq = a /\ t.data = d /\ t.clen = 1 /\ ~t.syn /\ t.fin
  <2>1. t.seq = a /\ t.data = d /\ t.clen = 1 /\ t.syn = FALSE /\ t.fin = TRUE
    BY <1>1
  <2>2. t \in Segment
    BY <1>0, <1>1, SegmentRecord
  <2> QED
    BY <2>1, <2>2
<1>3. TCP_TCPLEN(t) = 1
  BY <1>0, <1>2 DEF TCP_TCPLEN
<1>4. EndOf(t) = a + 1
  BY <1>2, <1>3 DEF EndOf
<1>5. t.data = Bytes(a, Len(t.data))
  <2> DEFINE n == 0
             b == Bytes(a, n)
  <2>1. n \in Nat /\ n = 0
    OBVIOUS
  <2>4. Len(d) = n
    BY <1>0
  <2> HIDE DEF n
  <2>2. b \in Seq(Nat) /\ Len(b) = n
    BY <2>1, BytesSeq
  <2> HIDE DEF b
  <2>3. b = d
    BY <1>0, <2>1, <2>2, SeqEqual
  <2> QED
    BY <1>2, <2>3, <2>4 DEF b
<1> QED
  BY <1>0, <1>2, <1>3, <1>4, <1>5 DEF SegmentOK

\* The pcb of Content, with its numbers.
LEMMA ContentFacts ==
    ASSUME NEW p, NEW e \in Nat, NEW off \in Nat, POK(p, e, off)
    PROVE  LET q == p.unacked \o p.unsent
           IN  /\ p \in Pcb /\ q \in Seq(Segment) /\ MssLocal(p) \in Nat
               /\ MssLocal(p) >= 1 /\ MssLocal(p) <= MSS
               /\ p.unacked \in Seq(Segment) /\ p.unsent \in Seq(Segment)
               /\ Chain(q, MssLocal(p)) /\ Covers(q, p.lastack, e) /\ p.lastack \in Nat
               /\ Pbufs(q) \in Nat /\ Volume(q) \in Nat
               /\ p.snd_queuelen = Pbufs(q) /\ p.snd_queuelen <= SND_QUEUELEN + FinBit(p)
               /\ p.snd_buf = SND_BUF - Volume(q) /\ p.snd_buf >= 0
<1> DEFINE q == p.unacked \o p.unsent
<1>1. Mid(p, q, e, off)
  BY DEF POK
<1>2. /\ p \in Pcb /\ MssLocal(p) \in Nat /\ MssLocal(p) >= 1 /\ MssLocal(p) <= MSS
      /\ Chain(q, MssLocal(p)) /\ Covers(q, p.lastack, e) /\ Content(p, q, e)
  BY <1>1, MidMss DEF Mid
<1> HIDE DEF q
<1>3. q \in Seq(Segment) /\ p.lastack \in Nat
  BY <1>2, PcbFacts DEF Chain
<1>4. Pbufs(q) \in Nat /\ Volume(q) \in Nat
  BY <1>3, Counts
<1>5. /\ p.snd_queuelen = Pbufs(q) /\ p.snd_queuelen <= SND_QUEUELEN + FinBit(p)
      /\ p.snd_buf = SND_BUF - Volume(q) /\ p.snd_buf >= 0
  BY <1>2 DEF Content
<1>6. p.unacked \in Seq(Segment) /\ p.unsent \in Seq(Segment)
  BY <1>2, PcbFacts
<1> QED
  BY <1>2, <1>3, <1>4, <1>5, <1>6 DEF q

\* tcp_close, when the FIN goes onto the last segment.
LEMMA CloseOnLast ==
    ASSUME NEW p, NEW e \in Nat, NEW off \in Nat, POK(p, e, off), ~p.fin,
           p.unsent # <<>>, ~Last(p.unsent).syn,
           NEW r, r = [tcp_send_fin(p) EXCEPT !.state = "FIN_WAIT_1"]
    PROVE  POK(r, e + 1, off) /\ r.fin /\ r.state = "FIN_WAIT_1" /\ r.snd_lbb = p.snd_lbb
<1> DEFINE q == p.unacked \o p.unsent
           n == Len(p.unsent)
           s == Last(p.unsent)
           g == p.unacked \o SubSeq(p.unsent, 1, n - 1)
           m == MssLocal(p)
           t == [s EXCEPT !.fin = TRUE]
           v == [p.unsent EXCEPT ![n] = t]
           y == "FIN_WAIT_1"
           h == TRUE
           x == Extended(p, v, p.unsent_oversize, p.snd_lbb, p.snd_buf, p.snd_queuelen, h, y)
           d == e + 1
<1>1. /\ p \in Pcb /\ q \in Seq(Segment) /\ m \in Nat
      /\ Chain(q, m) /\ Covers(q, p.lastack, e) /\ p.lastack \in Nat
      /\ Pbufs(q) \in Nat /\ Volume(q) \in Nat
      /\ p.snd_queuelen = Pbufs(q) /\ p.snd_queuelen <= SND_QUEUELEN + FinBit(p)
      /\ p.snd_buf = SND_BUF - Volume(q) /\ p.snd_buf >= 0
  BY ContentFacts
<1>2. /\ n \in Nat /\ n >= 1 /\ s = p.unsent[n] /\ s \in Segment
      /\ g \in Seq(Segment) /\ q = g \o <<s>>
      /\ SegmentOK(s, m) /\ (~p.fin => ~s.fin)
      /\ \A z \in Segment :
            LET w == [p.unsent EXCEPT ![n] = z]
            IN  w \in Seq(Segment) /\ w # <<>> /\ Last(w) = z /\ p.unacked \o w = g \o <<z>>
  BY EndOfUnsent
<1>3. r = x
  <2>1. p.unsent[n] = s
    BY <1>2
  <2> DEFINE f == tcp_send_fin(p)
  <2>2. f = [p EXCEPT !.unsent = [p.unsent EXCEPT ![n] = [p.unsent[n] EXCEPT !.fin = TRUE]],
                      !.fin = TRUE]
    BY <1>1 DEF tcp_send_fin, Pcb
  <2> HIDE DEF f, n, s
  <2>3. f = [p EXCEPT !.unsent = v, !.fin = TRUE]
    BY <2>1, <2>2
  <2> HIDE DEF v
  <2>4. r = [f EXCEPT !.state = y]
    BY DEF f
  <2> QED
    BY ONLY <1>1, <2>3, <2>4 DEF Extended, Pcb
<1>4. /\ t \in Segment /\ SegmentOK(t, m) /\ t.seq = s.seq /\ t.data = s.data
      /\ t.clen = s.clen /\ EndOf(t) = EndOf(s) + 1
  <2> HIDE DEF s, m, t
  <2>1. ~s.syn /\ ~s.fin /\ t = [s EXCEPT !.fin = TRUE]
    BY <1>2 DEF t, s
  <2> QED
    <3>1. m \in Nat /\ SegmentOK(s, m)
      BY <1>1, <1>2
    <3> QED
      BY ONLY <2>1, <3>1, FinOnLast
<1> HIDE DEF q, s, g, m, t, n
<1>5. v \in Seq(Segment) /\ v # <<>> /\ Last(v) = t /\ p.unacked \o v = g \o <<t>>
  BY <1>2, <1>4
<1> HIDE DEF v, x
<1>6. x \in Pcb
  BY <1>1, <1>5, PcbFacts, ExtendedType DEF x
<1>7. /\ Behind(p, x) /\ x.unsent = v /\ x.unsent_oversize = p.unsent_oversize
      /\ x.snd_lbb = p.snd_lbb /\ x.snd_buf = p.snd_buf
      /\ x.snd_queuelen = p.snd_queuelen /\ x.fin = TRUE /\ x.state = y
  <2>1. x = Extended(p, v, p.unsent_oversize, p.snd_lbb, p.snd_buf, p.snd_queuelen, h, y)
    BY DEF x
  <2> HIDE DEF h, y
  <2>2. Behind(p, x) /\ Ahead(x, v, p.unsent_oversize, p.snd_lbb, p.snd_buf, p.snd_queuelen, h, y)
    BY <1>1, <2>1, ExtendedFields
  <2> QED
    BY <2>2 DEF Ahead, h
<1>8. /\ Chain(g \o <<t>>, m) /\ Covers(g \o <<t>>, p.lastack, EndOf(t)) /\ EndOf(s) = e
      /\ Pbufs(g \o <<t>>) = Pbufs(g) + t.clen
      /\ Pbufs(g \o <<s>>) = Pbufs(g) + s.clen
      /\ Volume(g \o <<t>>) = Volume(g) + Len(t.data)
      /\ Volume(g \o <<s>>) = Volume(g) + Len(s.data)
  <2>1. /\ Chain(g \o <<s>>, m) /\ Covers(g \o <<s>>, p.lastack, e) /\ p.lastack \in Nat
        /\ m \in Nat /\ g \in Seq(Segment) /\ s \in Segment /\ t \in Segment
        /\ SegmentOK(t, m) /\ t.seq = s.seq
    BY <1>1, <1>2, <1>4
  <2>2. EndOf(s) <= EndOf(t)
    <3>1. EndOf(s) \in Nat
      BY <1>1, <1>2, SegmentFacts
    <3> QED
      BY <1>4, <3>1
  <2> QED
    BY <2>1, <2>2, ReplaceLast
<1> DEFINE q2 == g \o <<t>>
<1>9. /\ Chain(q2, m) /\ Covers(q2, p.lastack, d) /\ Pbufs(q2) = Pbufs(q)
      /\ Volume(q2) = Volume(q)
  BY <1>2, <1>4, <1>8
<1>10. MssLocal(x) = m /\ x.lastack = p.lastack /\ x.unacked = p.unacked
  BY <1>7 DEF MssLocal, Behind, m
<1>11. q2 = x.unacked \o x.unsent
  BY <1>5, <1>7, <1>10
<1> HIDE DEF q2
<1>12. Content(x, q2, d)
  <2>1. FinBit(p) = 0 /\ FinBit(x) = 1
    BY <1>7 DEF FinBit
  <2>2. x.snd_queuelen <= SND_QUEUELEN + 1
    BY <1>1, <1>7, <2>1, Constants
  <2> QED
    BY <1>1, <1>7, <1>9, <1>10, <2>1, <2>2 DEF Content
<1>13. Oversize(x)
  <2>1. LastLen(x) = Len(t.data)
    BY <1>5, <1>7 DEF LastLen
  <2>2. LastLen(p) = Len(s.data)
    BY DEF LastLen, s
  <2>3. Oversize(p)
    BY DEF POK, Mid
  <2> QED
    BY <1>4, <1>5, <1>7, <1>10, <2>1, <2>2, <2>3 DEF Oversize, m
<1>14. POK(x, d, off)
  <2>1. d \in Nat /\ e <= d
    OBVIOUS
  <2> HIDE DEF d
  <2> QED
    BY <1>6, <1>7, <1>11, <1>12, <1>13, <2>1, Lengthened
<1> QED
  BY <1>3, <1>7, <1>14

\* tcp_close, when the FIN becomes a segment of its own.
LEMMA CloseAlone ==
    ASSUME NEW p, NEW e \in Nat, NEW off \in Nat, POK(p, e, off), ~p.fin,
           ~(p.unsent # <<>> /\ ~Last(p.unsent).syn), p.snd_lbb = e, e >= 1,
           NEW r, r = [tcp_send_fin(p) EXCEPT !.state = "FIN_WAIT_1"]
    PROVE  POK(r, e + 1, off) /\ r.fin /\ r.state = "FIN_WAIT_1" /\ r.snd_lbb = e + 1
<1> DEFINE q == p.unacked \o p.unsent
           m == MssLocal(p)
           t == FinSegment(e)
           v == Append(p.unsent, t)
           y == "FIN_WAIT_1"
           h == TRUE
           k == p.snd_queuelen + 1
           o == 0
           d == e + 1
           x == Extended(p, v, o, d, p.snd_buf, k, h, y)
<1>1. /\ p \in Pcb /\ q \in Seq(Segment) /\ m \in Nat
      /\ p.unacked \in Seq(Segment) /\ p.unsent \in Seq(Segment)
      /\ Chain(q, m) /\ Covers(q, p.lastack, e) /\ p.lastack \in Nat
      /\ Pbufs(q) \in Nat /\ Volume(q) \in Nat
      /\ p.snd_queuelen = Pbufs(q) /\ p.snd_queuelen <= SND_QUEUELEN + FinBit(p)
      /\ p.snd_buf = SND_BUF - Volume(q) /\ p.snd_buf >= 0
  BY ContentFacts
<1>2. /\ t \in Segment /\ SegmentOK(t, m) /\ t.seq = e /\ Len(t.data) = 0
      /\ t.clen = 1 /\ EndOf(t) = e + 1
  <2>1. t = FinSegment(e)
    OBVIOUS
  <2> HIDE DEF m, t
  <2> QED
    BY <1>1, <2>1, FinAlone
<1>3. r = x
  <2> DEFINE f == tcp_send_fin(p)
  <2>1. f = [p EXCEPT !.unsent = v, !.unsent_oversize = o, !.fin = TRUE, !.snd_lbb = d,
                      !.snd_queuelen = k]
    BY <1>1 DEF tcp_send_fin, Pcb, FinSegment
  <2> HIDE DEF f, v, o, d, k
  <2>2. r = [f EXCEPT !.state = y]
    BY DEF f
  <2> QED
    BY ONLY <1>1, <2>1, <2>2 DEF Extended, Pcb
<1> HIDE DEF t, m
<1>4. v = p.unsent \o <<t>> /\ v \in Seq(Segment) /\ v # <<>>
  <2>1. p.unsent \in Seq(Segment) /\ t \in Segment
    BY <1>1, <1>2
  <2>2. v = p.unsent \o <<t>>
    BY <2>1, AppendIsConcat
  <2>3. v \in Seq(Segment) /\ v # <<>>
    BY <2>1, AppendProperties
  <2> QED
    BY <2>2, <2>3
<1> DEFINE q2 == q \o <<t>>
<1>5. p.unacked \o v = q2
  <2> DEFINE a == p.unacked
             b == p.unsent
  <2>1. a \in Seq(Segment) /\ b \in Seq(Segment)
    BY <1>1
  <2> HIDE DEF a, b
  <2>3. \A z \in Segment : (a \o b) \o <<z>> = a \o (b \o <<z>>)
    BY <2>1, JoinedAndOne
  <2>2. (p.unacked \o p.unsent) \o <<t>> = p.unacked \o (p.unsent \o <<t>>)
    BY <1>2, <2>3 DEF a, b
  <2> HIDE DEF v
  <2> QED
    BY <1>4, <2>2
<1> HIDE DEF v, x, q
<1>6. x \in Pcb
  <2>1. o \in Nat /\ d \in Nat /\ k \in Int /\ p.snd_buf \in Int
    BY <1>1, PcbFacts
  <2> HIDE DEF o, d, k
  <2> QED
    BY <1>1, <1>4, <2>1, ExtendedType DEF x
<1>7. /\ Behind(p, x) /\ x.unsent = v /\ x.unsent_oversize = o
      /\ x.snd_lbb = d /\ x.snd_buf = p.snd_buf
      /\ x.snd_queuelen = k /\ x.fin = TRUE /\ x.state = y
  <2>1. x = Extended(p, v, o, d, p.snd_buf, k, h, y)
    BY DEF x
  <2> HIDE DEF h, y, o, d, k
  <2>2. Behind(p, x) /\ Ahead(x, v, o, d, p.snd_buf, k, h, y)
    BY <1>1, <2>1, ExtendedFields
  <2> QED
    BY <2>2 DEF Ahead, h
<1>8. /\ Chain(q2, m) /\ Covers(q2, p.lastack, d)
      /\ Pbufs(q2) = Pbufs(q) + 1 /\ Volume(q2) = Volume(q)
  <2> DEFINE w == <<t>>
  <2>1. Chain(w, m) /\ w # <<>> /\ Len(w) = 1 /\ w[1] = t /\ w \in Seq(Segment)
    BY <1>1, <1>2, ChainOne
  <2>2. Pbufs(w) = 1 /\ Volume(w) = 0
    BY <1>2, CountsOne
  <2> HIDE DEF w
  <2>3. Last(w) = t /\ w[1].seq = e
    BY <1>2, <2>1 DEF Last
  <2>4. Chain(q \o w, m) /\ Covers(q \o w, p.lastack, EndOf(Last(w)))
    BY <1>1, <2>1, <2>3, AppendChain
  <2>5. Pbufs(q \o w) = Pbufs(q) + Pbufs(w) /\ Volume(q \o w) = Volume(q) + Volume(w)
    BY <1>1, <2>1, CountsConcat
  <2> QED
    BY <1>1, <1>2, <2>2, <2>3, <2>4, <2>5 DEF w
<1>10. MssLocal(x) = m /\ x.lastack = p.lastack /\ x.unacked = p.unacked
  BY <1>7 DEF MssLocal, Behind, m
<1>11. q2 = x.unacked \o x.unsent
  BY <1>5, <1>7, <1>10
<1> HIDE DEF q2
<1>12. Content(x, q2, d)
  <2>1. FinBit(p) = 0 /\ FinBit(x) = 1
    BY <1>7 DEF FinBit
  <2>2. x.snd_queuelen <= SND_QUEUELEN + 1 /\ x.snd_queuelen = Pbufs(q2)
    BY <1>1, <1>7, <1>8, <2>1, Constants
  <2> QED
    BY <1>1, <1>7, <1>8, <1>10, <2>1, <2>2 DEF Content
<1>13. Oversize(x)
  BY <1>7 DEF Oversize
<1>14. POK(x, d, off)
  <2>1. d \in Nat /\ e <= d
    OBVIOUS
  <2> HIDE DEF d
  <2> QED
    BY <1>6, <1>7, <1>11, <1>12, <1>13, <2>1, Lengthened
<1> QED
  BY <1>3, <1>7, <1>14

\* A pcb whose segments are all to be sent again.
Restarted(p, u, v, t, c) ==
    [p EXCEPT !.unacked = u, !.unsent = v, !.ssthresh = t, !.cwnd = c]

\* Its type.
LEMMA RestartedType ==
    ASSUME NEW p \in Pcb, NEW u \in Seq(Segment), NEW v \in Seq(Segment), NEW t \in Nat,
           NEW c \in Nat, NEW r, r = Restarted(p, u, v, t, c)
    PROVE  r \in Pcb
BY DEF Pcb, Restarted

\* The fields that it leaves alone.
Remains(p, r) ==
    /\ r.unsent_oversize = p.unsent_oversize
    /\ r.lastack = p.lastack /\ r.snd_wl2 = p.snd_wl2 /\ r.snd_nxt = p.snd_nxt
    /\ r.snd_wnd = p.snd_wnd /\ r.snd_wnd_max = p.snd_wnd_max
    /\ r.snd_buf = p.snd_buf /\ r.snd_queuelen = p.snd_queuelen
    /\ r.fin = p.fin /\ r.infr = p.infr /\ r.rtime = p.rtime
    /\ r.persist = p.persist /\ r.state = p.state /\ r.snd_lbb = p.snd_lbb

\* Its fields.
LEMMA RestartedFields ==
    ASSUME NEW p \in Pcb, NEW u, NEW v, NEW t, NEW c, NEW r, r = Restarted(p, u, v, t, c)
    PROVE  /\ Remains(p, r)
           /\ r.unacked = u /\ r.unsent = v /\ r.ssthresh = t /\ r.cwnd = c
BY DEF Pcb, Restarted, Remains

\* The retransmission timer: all of unacked goes back to the front of unsent.
LEMMA RexmitOK ==
    ASSUME NEW p, NEW e \in Nat, NEW off \in Nat, POK(p, e, off), NEW r,
           r = [tcp_rexmit_rto(p) EXCEPT !.ssthresh = Larger(Wnd(p) \div 2, 2 * MSS),
                                         !.cwnd = MSS]
    PROVE  POK(r, e, off) /\ Lasting(p, r)
<1> DEFINE q == p.unacked \o p.unsent
           u == <<>>
           h == Wnd(p) \div 2
           t == Larger(h, 2 * MSS)
           x == Restarted(p, u, q, t, MSS)
<1>1. /\ p \in Pcb /\ q \in Seq(Segment)
      /\ p.unacked \in Seq(Segment) /\ p.unsent \in Seq(Segment)
  BY ContentFacts
<1>2. /\ Content(p, q, e) /\ Windowed(p, e, off) /\ Oversize(p) /\ p.snd_wl2 = p.lastack
  BY DEF POK, Mid
<1>3. u \in Seq(Segment) /\ Len(u) = 0 /\ u \o q = q
  BY <1>1, ConcatEmptySeq
<1>4. t \in Nat /\ t >= MSS /\ MSS \in Nat /\ MSS >= 1
  <2>1. MSS \in Nat /\ MSS >= 1 /\ Wnd(p) \in Nat
    BY <1>1, Constants, WndFacts
  <2>2. h \in Nat
    BY <2>1
  <2> HIDE DEF h
  <2> QED
    BY <2>1, <2>2 DEF Larger
<1>5. r = x
  <2> DEFINE f == tcp_rexmit_rto(p)
  <2>1. f = [p EXCEPT !.unsent = q, !.unacked = u]
    BY DEF tcp_rexmit_rto
  <2>2. r = [f EXCEPT !.ssthresh = t, !.cwnd = MSS]
    OBVIOUS
  <2> HIDE DEF f, q, u, t
  <2> QED
    BY <1>1, <2>1, <2>2 DEF Restarted, Pcb
<1> DEFINE o == LastLen(p)
<1>6. p.unsent # <<>> => q # <<>> /\ Last(q) = Last(p.unsent)
  BY <1>1, LastJoined
<1> HIDE DEF u, q, t, x
<1>7. x \in Pcb
  BY <1>1, <1>3, <1>4, RestartedType DEF x
<1>8. /\ Remains(p, x)
      /\ x.unacked = u /\ x.unsent = q /\ x.ssthresh = t /\ x.cwnd = MSS
  BY <1>1, RestartedFields DEF x
<1>9. Content(x, q, e)
  BY <1>2, <1>8, ContentSame DEF Remains
<1>10. Windowed(x, e, off)
  <2>1. MSS >= MSS
    BY <1>4
  <2> QED
    BY <1>2, <1>4, <1>8, <2>1 DEF Windowed, Remains
<1>11. Oversize(x)
  <2> SUFFICES ASSUME p.unsent_oversize > 0
               PROVE  q # <<>> /\ LastLen(x) > 0 /\ p.unsent_oversize <= MssLocal(x) - LastLen(x)
    BY <1>8 DEF Oversize, Remains
  <2>1. p.unsent # <<>> /\ LastLen(p) > 0 /\ p.unsent_oversize <= MssLocal(p) - LastLen(p)
    BY <1>2 DEF Oversize
  <2>2. MssLocal(x) = MssLocal(p)
    BY <1>8 DEF MssLocal, Remains
  <2>3. LastLen(x) = LastLen(p)
    BY <1>6, <1>8, <2>1 DEF LastLen
  <2> QED
    BY <1>6, <2>1, <2>2, <2>3
<1>12. Flight(x)
  BY <1>3, <1>8 DEF Flight, u
<1>13. x.unacked \o x.unsent = q
  BY <1>3, <1>8
<1> QED
  BY <1>2, <1>5, <1>7, <1>8, <1>9, <1>10, <1>11, <1>12, <1>13 DEF POK, Mid, Remains, Lasting

\* A pcb that has sent up to n, or whose memory error is noted or forgotten.
Probed(p, n) == [p EXCEPT !.snd_nxt = n]
Noted(p, b) == [p EXCEPT !.memerr = b]

\* The type of the first.
LEMMA ProbedType ==
    ASSUME NEW p \in Pcb, NEW n \in Nat, NEW r, r = Probed(p, n)
    PROVE  r \in Pcb
BY DEF Pcb, Probed

\* The fields that it leaves alone.
Idle(p, r) ==
    /\ Steady(p, r) /\ r.unacked = p.unacked /\ r.unsent = p.unsent
    /\ r.unsent_oversize = p.unsent_oversize /\ r.rtime = p.rtime
    /\ r.persist = p.persist

\* Its fields.
LEMMA ProbedFields ==
    ASSUME NEW p \in Pcb, NEW n, NEW r, r = Probed(p, n)
    PROVE  Idle(p, r) /\ r.snd_nxt = n
BY DEF Pcb, Probed, Steady, Idle

\* The type of the second.
LEMMA NotedType ==
    ASSUME NEW p \in Pcb, NEW b \in BOOLEAN, NEW r, r = Noted(p, b)
    PROVE  r \in Pcb
BY DEF Pcb, Noted

\* Its fields.
LEMMA NotedFields ==
    ASSUME NEW p \in Pcb, NEW b, NEW r, r = Noted(p, b)
    PROVE  Same(p, r) /\ Lasting(p, r) /\ r.cwnd = p.cwnd
BY DEF Pcb, Noted, Same, Lasting

\* A write that fails only notes the error.
LEMMA NotedOK ==
    ASSUME NEW p, NEW e \in Nat, NEW off \in Nat, POK(p, e, off), NEW b \in BOOLEAN,
           NEW r, r = Noted(p, b)
    PROVE  POK(r, e, off) /\ Lasting(p, r)
<1> DEFINE q == p.unacked \o p.unsent
<1>1. p \in Pcb /\ Mid(p, q, e, off) /\ p.snd_wl2 = p.lastack
  BY DEF POK, Mid
<1>2. r \in Pcb
  BY <1>1, NotedType
<1>3. Same(p, r) /\ Lasting(p, r) /\ r.cwnd = p.cwnd
  BY <1>1, NotedFields
<1>4. r.cwnd >= p.cwnd
  BY <1>1, <1>3, PcbFacts
<1>5. Mid(r, q, e, off)
  BY <1>1, <1>2, <1>3, <1>4, MidSame
<1> QED
  BY <1>1, <1>3, <1>5 DEF POK, Same

\* The probe of a closed window stays within one number of the edge.
LEMMA ProbeOK ==
    ASSUME NEW p, NEW e \in Nat, NEW off \in Nat, POK(p, e, off),
           p.unacked \o p.unsent # <<>>,
           NEW r, r = [p EXCEPT !.snd_nxt = Larger(@, Head(p.unacked \o p.unsent).seq + 1)]
    PROVE  POK(r, e, off) /\ Lasting(p, r)
<1> DEFINE q == p.unacked \o p.unsent
           s == Head(q)
           n == Larger(p.snd_nxt, s.seq + 1)
<1>1. /\ p \in Pcb /\ q \in Seq(Segment) /\ MssLocal(p) \in Nat
      /\ Chain(q, MssLocal(p)) /\ Covers(q, p.lastack, e) /\ p.lastack \in Nat
  BY ContentFacts
<1>2. /\ Content(p, q, e) /\ Windowed(p, e, off) /\ Oversize(p) /\ Flight(p)
      /\ p.snd_wl2 = p.lastack
  BY DEF POK, Mid
<1>3. r = Probed(p, n)
  BY DEF Probed
<1>0. q # <<>>
  OBVIOUS
<1> HIDE DEF q
<1>4. s = q[1] /\ 1 \in 1..Len(q)
  BY <1>0, <1>1, HeadTailProperties, EmptySeq
<1>5. s.seq \in Nat /\ s.seq <= p.lastack /\ s.seq + 1 <= e
  <2>1. s.seq \in Nat /\ EndOf(s) \in Nat /\ s.seq < EndOf(s)
    BY <1>1, <1>4, ChainFacts
  <2>2. EndOf(s) <= e
    BY <1>1, <1>4, CoversBelow
  <2>3. s.seq <= p.lastack
    BY <1>0, <1>1, <1>4 DEF Covers
  <2> QED
    BY <2>1, <2>2, <2>3
<1>6. n \in Nat /\ n <= off + 1 /\ n <= e
  <2>1. /\ p.snd_nxt \in Nat /\ p.snd_wnd \in Nat /\ p.lastack + p.snd_wnd <= off
        /\ p.snd_nxt <= off + 1 /\ p.snd_nxt <= e
    BY <1>1, <1>2, PcbFacts DEF Windowed
  <2> DEFINE a == s.seq
             b == p.snd_nxt
             l == p.lastack
             w == p.snd_wnd
  <2>2. /\ a \in Nat /\ b \in Nat /\ l \in Nat /\ w \in Nat /\ l + w <= off
        /\ b <= off + 1 /\ b <= e /\ a <= l /\ a + 1 <= e
    BY <1>1, <1>5, <2>1
  <2>3. n = b \/ n = a + 1
    BY DEF Larger
  <2> HIDE DEF a, b, l, w, n
  <2> QED
    BY <2>2, <2>3
<1> HIDE DEF n, s
<1>7. r \in Pcb
  BY <1>1, <1>3, <1>6, ProbedType
<1>8. /\ Steady(p, r) /\ r.unacked = p.unacked /\ r.unsent = p.unsent
      /\ r.unsent_oversize = p.unsent_oversize /\ r.rtime = p.rtime
      /\ r.persist = p.persist /\ r.snd_nxt = n
  <2> DEFINE x == Probed(p, n)
  <2>1. x = Probed(p, n)
    OBVIOUS
  <2> HIDE DEF x
  <2>2. Idle(p, x) /\ x.snd_nxt = n
    BY <1>1, <2>1, ProbedFields
  <2>3. r = x
    BY <1>3 DEF x
  <2> QED
    BY <2>2, <2>3, Zenon DEF Idle
<1>9. Content(r, q, e)
  BY <1>2, <1>8, ContentSame DEF Steady
<1>10. Windowed(r, e, off)
  BY <1>2, <1>6, <1>8 DEF Windowed, Steady
<1>11. Oversize(r) /\ Flight(r)
  <2>1. MssLocal(r) = MssLocal(p) /\ LastLen(r) = LastLen(p)
    BY <1>8 DEF MssLocal, LastLen, Steady
  <2> QED
    BY <1>2, <1>8, <2>1 DEF Oversize, Flight, Steady
<1> QED
  BY <1>2, <1>7, <1>8, <1>9, <1>10, <1>11 DEF POK, Mid, Steady, Lasting, q

-----------------------------------------------------------------------------
(* tcp_write                                                               *)

\* The products with a number that is not negative grow.
LEMMA ProductsGrow ==
    ASSUME NEW m \in Nat, NEW i \in Nat, NEW j \in Nat, i <= j
    PROVE  i * m \in Nat /\ j * m \in Nat /\ i * m <= j * m
<1> DEFINE d == j - i
<1>1. d \in Nat /\ j = i + d
  OBVIOUS
<1> HIDE DEF d
<1>2. j * m = i * m + d * m
  BY <1>1
<1>3. i * m \in Nat /\ d * m \in Nat
  BY <1>1
<1> QED
  BY <1>2, <1>3

\* How many parts of m a length has.
LEMMA Parts ==
    ASSUME NEW m \in Nat, m >= 1, NEW x \in Nat, NEW k, k = (x + m - 1) \div m
    PROVE  /\ k \in Nat /\ (k = 0 <=> x = 0)
           /\ k >= 1 => (k - 1) * m \in Nat /\ (k - 1) * m < x /\ x <= k * m
<1> DEFINE a == x + m - 1
           r == a % m
<1>1. a \in Nat /\ a = x + (m - 1)
  OBVIOUS
<1>2. k = a \div m
  OBVIOUS
<1>3. k \in Nat /\ r \in 0..(m - 1) /\ a = k * m + r
  <2> HIDE DEF a
  <2> QED
    BY <1>1, <1>2
<1> HIDE DEF a, r
<1>4. k * m \in Nat
  BY <1>3
<1>5. k >= 1 => (k - 1) * m = k * m - m
  BY <1>3
<1> DEFINE b == k * m
<1> HIDE DEF b
<1>6. b \in Nat /\ b = x + (m - 1) - r /\ (k >= 1 => (k - 1) * m = b - m)
  <2>1. a = b + r /\ b \in Nat
    BY <1>3, <1>4 DEF b
  <2> QED
    BY <1>1, <1>3, <1>5, <2>1 DEF b
<1>7. x <= b /\ (k >= 1 => (k - 1) * m < x)
  BY <1>3, <1>6
<1>8. k = 0 => b = 0
  BY <1>3 DEF b
<1>9. k >= 1 => (k - 1) * m \in Nat
  <2> SUFFICES ASSUME k >= 1
               PROVE  (k - 1) * m \in Nat
    OBVIOUS
  <2>1. k - 1 \in Nat
    BY <1>3
  <2> QED
    BY <2>1
<1> QED
  BY <1>3, <1>7, <1>8, <1>9 DEF b

\* A piece of the stream, n bytes from the number a.
Piece(t, m, a, n) ==
    /\ t \in Segment /\ SegmentOK(t, m) /\ t.seq = a /\ Len(t.data) = n
    /\ t.clen = 1 /\ EndOf(t) = a + n /\ ~t.fin

\* A new segment is one.
LEMMA PieceOK ==
    ASSUME NEW m \in Nat, NEW a \in Nat, a >= 1, NEW n \in Nat, n >= 1, n <= m,
           NEW t, t = tcp_create_segment(a, Bytes(a, n))
    PROVE  Piece(t, m, a, n)
<1> DEFINE d == Bytes(a, n)
           f == FALSE
<1>0. d = Bytes(a, n) /\ f \in BOOLEAN /\ f = FALSE
  OBVIOUS
<1> HIDE DEF d, f
<1>1. d \in Seq(Nat) /\ Len(d) = n
  BY <1>0, BytesSeq
<1>2. t = [seq |-> a, data |-> d, clen |-> 1, syn |-> FALSE, fin |-> f]
  BY <1>0 DEF tcp_create_segment
<1>3. t \in Segment
  BY <1>0, <1>1, <1>2, SegmentRecord
<1>4. t.seq = a /\ t.data = d /\ t.clen = 1 /\ t.syn = FALSE /\ t.fin = f
  BY <1>2
<1>5. TCP_TCPLEN(t) = n
  <2>1. TCP_TCPLEN(t) = n + 0
    BY <1>0, <1>1, <1>4, Zenon DEF TCP_TCPLEN
  <2> QED
    BY <2>1
<1>6. EndOf(t) = a + n
  BY <1>4, <1>5 DEF EndOf
<1>7. SegmentOK(t, m)
  BY <1>0, <1>1, <1>3, <1>4, <1>5 DEF SegmentOK
<1> QED
  BY <1>0, <1>1, <1>3, <1>4, <1>6, <1>7 DEF Piece

\* A segment that is filled up.
Filled(s, t, m, n, c) ==
    /\ t \in Segment /\ SegmentOK(t, m) /\ t.seq = s.seq
    /\ Len(t.data) = Len(s.data) + n /\ t.clen = s.clen + c
    /\ EndOf(t) = EndOf(s) + n /\ ~t.fin

\* It is one of the stream.
LEMMA LongerOK ==
    ASSUME NEW m \in Nat, NEW s, SegmentOK(s, m), ~s.syn, ~s.fin, NEW n \in Nat,
           Len(s.data) >= 1, Len(s.data) + n <= m, NEW c \in Nat,
           NEW a, a = EndOf(s), NEW t, t = Longer(s, a, n, c)
    PROVE  Filled(s, t, m, n, c)
<1> DEFINE k == Len(s.data)
           b == s.seq
           d == s.data \o Bytes(a, n)
           z == s.clen + c
<1>1. /\ s \in Segment /\ b \in Nat /\ s.data \in Seq(Nat) /\ s.data = Bytes(b, k)
      /\ s.clen \in Nat /\ s.clen >= 1 /\ s.syn \in BOOLEAN /\ s.fin \in BOOLEAN
  <2>1. s \in Segment
    BY DEF SegmentOK
  <2>2. s.data = Bytes(b, k) /\ s.clen >= 1
    BY DEF SegmentOK
  <2> QED
    BY <2>1, <2>2 DEF Segment
<1>2. k \in Nat
  BY <1>1, LenProperties
<1>3. b >= 1
  BY <1>1 DEF SegmentOK
<1>4. a = b + k
  <2>1. TCP_TCPLEN(s) = k + 0
    BY Zenon DEF TCP_TCPLEN
  <2>2. a = b + TCP_TCPLEN(s)
    BY DEF EndOf
  <2> HIDE DEF k, b
  <2> QED
    BY <1>1, <1>2, <2>1, <2>2
<1>5. d = Bytes(b, k + n)
  <2>1. Bytes(b, k) \o Bytes(b + k, n) = Bytes(b, k + n)
    <3> HIDE DEF b, k
    <3> QED
      <4>1. b \in Nat /\ b >= 1 /\ k \in Nat /\ n \in Nat
        BY <1>1, <1>2, <1>3
      <4> QED
        BY ONLY <4>1, BytesJoin
  <2> QED
    BY <1>1, <1>4, <2>1
<1>6. d \in Seq(Nat) /\ Len(d) = k + n
  <2> HIDE DEF b, k, d
  <2>1. k + n \in Nat
    BY <1>2
  <2> QED
    BY <1>1, <1>3, <1>5, <2>1, BytesSeq
<1>7. t = [s EXCEPT !.data = d, !.clen = z]
  BY DEF Longer
<1>8. z \in Nat /\ z >= 1
  BY <1>1
<1> HIDE DEF d, z
<1>9. /\ t \in Segment /\ t.seq = s.seq /\ t.data = d /\ t.clen = z
      /\ t.syn = s.syn /\ t.fin = s.fin
  BY <1>1, <1>6, <1>7, <1>8 DEF Segment
<1>10. TCP_TCPLEN(t) = k + n
  <2>1. TCP_TCPLEN(t) = (k + n) + 0
    BY <1>6, <1>9, Zenon DEF TCP_TCPLEN
  <2> QED
    BY <1>2, <2>1
<1>11. EndOf(t) = EndOf(s) + n
  <2>1. EndOf(t) = b + (k + n) /\ EndOf(s) = b + k
    BY <1>4, <1>9, <1>10 DEF EndOf
  <2> HIDE DEF b, k
  <2> QED
    BY <1>1, <1>2, <2>1
<1>12. SegmentOK(t, m)
  <2>1. t.data = Bytes(t.seq, Len(t.data)) /\ Len(t.data) <= m
    BY <1>5, <1>6, <1>9
  <2>2. TCP_TCPLEN(t) >= 1
    BY <1>2, <1>10
  <2>3. t.syn <=> t.seq = 0
    BY <1>9 DEF SegmentOK
  <2> QED
    BY <1>8, <1>9, <2>1, <2>2, <2>3 DEF SegmentOK
<1> QED
  BY <1>6, <1>9, <1>11, <1>12 DEF z, Filled

\* x bytes in segments of m, from the number a, which is not the first.
Pieces(a, m, x, k) ==
    [i \in 1..k |->
        LET pos == (i - 1) * m
        IN  tcp_create_segment(a + pos, Bytes(a + pos, Smaller(m, x - pos)))]

\* What is left of x at a multiple b of m.
LEMMA PieceLength ==
    ASSUME NEW m \in Nat, m >= 1, NEW x \in Nat, NEW b \in Nat, b < x,
           NEW n, n = Smaller(m, x - b)
    PROVE  /\ n \in Nat /\ n >= 1 /\ n <= m
           /\ b + n = Smaller(b + m, x)
<1>1. CASE m < x - b
  BY <1>1 DEF Smaller
<1>2. CASE ~(m < x - b)
  BY <1>2 DEF Smaller
<1> QED
  BY <1>1, <1>2

\* The multiples of m.
Multiples(m, k) == [i \in 0..k |-> i * m]

\* The places P at which pieces of m begin in a length x, and where the last one could end.
Begin(P, m, x, k) ==
    /\ \A i \in 0..k : P[i] \in Nat
    /\ P[0] = 0
    /\ \A i \in 1..k : P[i] = P[i - 1] + m /\ P[i - 1] < x

\* They are the multiples.
LEMMA Places ==
    ASSUME NEW m \in Nat, m >= 1, NEW x \in Nat, NEW k \in Nat, k >= 1,
           NEW b, b = (k - 1) * m, b < x, NEW P, P = Multiples(m, k)
    PROVE  Begin(P, m, x, k) /\ \A i \in 1..k : P[i - 1] = (i - 1) * m
<1>1. \A i \in 0..k : i \in Nat /\ P[i] = i * m /\ i * m \in Nat
  <2>2. \A i \in 0..k : P[i] = i * m
    BY DEF Multiples
  <2>1. ASSUME NEW i \in 0..k
        PROVE  i * m \in Nat
    <3>1. i \in Nat
      OBVIOUS
    <3>2. i <= i
      BY <3>1
    <3> QED
      BY <3>1, <3>2, ProductsGrow
  <2> QED
    BY <2>1, <2>2
<1>2. P[0] = 0
  <2>1. 0 \in 0..k
    OBVIOUS
  <2> QED
    BY <1>1, <2>1
<1>3. ASSUME NEW i \in 1..k
      PROVE  P[i] = P[i - 1] + m /\ P[i - 1] < x /\ P[i - 1] = (i - 1) * m
  <2> DEFINE j == i - 1
             l == k - 1
  <2>1. j \in Nat /\ j \in 0..k /\ i \in 0..k /\ i = j + 1 /\ l \in Nat /\ j <= l
    OBVIOUS
  <2>2. P[j] = j * m /\ P[i] = i * m
    BY <1>1, <2>1
  <2>4. l * m < x
    OBVIOUS
  <2> HIDE DEF j, l
  <2>3. i * m = j * m + m
    BY <2>1
  <2>5. j * m \in Nat /\ l * m \in Nat /\ j * m <= l * m
    BY <2>1, ProductsGrow
  <2>6. j * m < x
    BY <2>4, <2>5
  <2> QED
    BY <2>2, <2>3, <2>6 DEF j
<1> QED
  BY <1>1, <1>2, <1>3 DEF Begin

\* The pieces that begin at the places P.
PiecesFrom(a, m, x, k, P) ==
    [i \in 1..k |->
        LET pos == P[i - 1]
        IN  tcp_create_segment(a + pos, Bytes(a + pos, Smaller(m, x - pos)))]

\* A length of x bytes in k segments of m, of which the last begins at b.
Division(w, m, a, x, k, b) ==
    /\ Chain(w, m) /\ w # <<>> /\ w[1].seq = a /\ EndOf(Last(w)) = a + x
    /\ Len(Last(w).data) = x - b /\ Len(Last(w).data) >= 1
    /\ Pbufs(w) = k /\ Volume(w) = x
    /\ \A i \in 1..Len(w) : ~w[i].fin

\* They are a chain, and the accounts follow.
LEMMA PiecesAt ==
    ASSUME NEW m \in Nat, m >= 1, NEW a \in Nat, a >= 1, NEW x \in Nat,
           NEW k \in Nat, k >= 1, NEW P, Begin(P, m, x, k), x <= P[k],
           NEW w, w = PiecesFrom(a, m, x, k, P)
    PROVE  Division(w, m, a, x, k, P[k - 1])
<1> DEFINE N == [i \in 1..k |-> Smaller(m, x - P[i - 1])]
           G == [i \in 0..k |-> Smaller(P[i], x)]
<1>1. /\ \A i \in 0..k : P[i] \in Nat
      /\ P[0] = 0
      /\ \A i \in 1..k : P[i] = P[i - 1] + m /\ P[i - 1] < x
  BY DEF Begin
<1>3. ASSUME NEW i \in 1..k
      PROVE  /\ N[i] \in Nat /\ N[i] >= 1 /\ N[i] <= m
             /\ P[i - 1] + N[i] = G[i] /\ P[i - 1] \in Nat
             /\ w[i] = tcp_create_segment(a + P[i - 1], Bytes(a + P[i - 1], N[i]))
             /\ G[i - 1] = P[i - 1]
  <2> DEFINE b == P[i - 1]
             n == N[i]
  <2>1. i - 1 \in 0..k /\ i \in 0..k
    OBVIOUS
  <2>2. b \in Nat /\ b < x /\ P[i] = b + m
    BY <1>1, <2>1
  <2>3. n = Smaller(m, x - b)
    OBVIOUS
  <2>4. G[i] = Smaller(b + m, x) /\ G[i - 1] = Smaller(b, x)
    BY <2>1, <2>2
  <2>5. w[i] = tcp_create_segment(a + b, Bytes(a + b, n))
    BY <2>3, Zenon DEF PiecesFrom
  <2> HIDE DEF b, n, N, G
  <2>6. n \in Nat /\ n >= 1 /\ n <= m /\ b + n = Smaller(b + m, x)
    <3>1. m \in Nat /\ m >= 1 /\ x \in Nat
      OBVIOUS
    <3> QED
      BY <2>2, <2>3, <3>1, PieceLength
  <2>7. Smaller(b, x) = b
    BY <2>2 DEF Smaller
  <2> QED
    BY <2>2, <2>4, <2>5, <2>6, <2>7 DEF b, n
<1>4. G[0] = 0 /\ G[k] = x
  <2>1. 0 \in 0..k /\ k \in 0..k
    OBVIOUS
  <2>2. G[0] = Smaller(0, x) /\ G[k] = Smaller(P[k], x) /\ P[k] \in Nat
    BY <1>1, <2>1
  <2> HIDE DEF G
  <2> QED
    BY <2>2 DEF Smaller
<1> HIDE DEF N, G
<1>5. ASSUME NEW i \in 1..k
      PROVE  /\ w[i] \in Segment /\ SegmentOK(w[i], m) /\ w[i].seq = a + P[i - 1]
             /\ Len(w[i].data) = N[i] /\ w[i].clen = 1
             /\ EndOf(w[i]) = a + G[i] /\ ~w[i].fin
  <2> DEFINE b == P[i - 1]
             n == N[i]
             c == a + b
             t == w[i]
  <2>1. b \in Nat /\ n \in Nat /\ n >= 1 /\ n <= m /\ b + n = G[i]
    BY <1>3
  <2>2. t = tcp_create_segment(c, Bytes(c, n))
    BY <1>3
  <2> HIDE DEF b, n, t
  <2>3. c \in Nat /\ c >= 1 /\ c = a + b
    BY <2>1
  <2> HIDE DEF c
  <2>4. /\ t \in Segment /\ SegmentOK(t, m) /\ t.seq = c /\ Len(t.data) = n
        /\ t.clen = 1 /\ EndOf(t) = c + n /\ ~t.fin
    <3>1. PICK y \in Nat : y = c
      BY <2>3
    <3>2. PICK z \in Nat : z = n
      BY <2>1
    <3>3. y >= 1 /\ z >= 1 /\ z <= m /\ t = tcp_create_segment(y, Bytes(y, z))
      BY <2>1, <2>2, <2>3, <3>1, <3>2
    <3>4. Piece(t, m, y, z)
      BY <3>3, PieceOK
    <3> QED
      BY <3>1, <3>2, <3>4, Zenon DEF Piece
  <2>5. c + n = a + G[i]
    BY <2>1, <2>3
  <2> QED
    BY <2>3, <2>4, <2>5 DEF b, n, t
<1>6. w \in Seq(Segment) /\ Len(w) = k
  <2>1. w = [i \in 1..k |-> w[i]]
    BY Zenon DEF PiecesFrom
  <2>2. \A i \in 1..k : w[i] \in Segment
    BY <1>5
  <2>3. k \in Nat
    OBVIOUS
  <2>4. ASSUME NEW z, z = [i \in 1..k |-> z[i]], \A i \in 1..k : z[i] \in Segment
        PROVE  z \in Seq(Segment) /\ Len(z) = k
    <3> DEFINE F == [i \in 1..k |-> z[i]]
    <3>1. F \in Seq(Segment) /\ Len(F) = k
      BY <2>3, <2>4
    <3> QED
      BY <2>4, <3>1
  <2> QED
    BY <2>1, <2>2, <2>4, Zenon
<1>7. 1 \in 1..k /\ k \in 1..k /\ 1 - 1 = 0
  OBVIOUS
<1>8. w # <<>> /\ Last(w) = w[k] /\ w[1].seq = a
  <2>1. Last(w) = w[k]
    BY <1>6 DEF Last
  <2>2. w # <<>>
    BY <1>6, EmptySeq
  <2>3. w[1].seq = a + P[0] /\ P[0] = 0
    BY <1>1, <1>5, <1>7
  <2> QED
    BY <1>6, <2>1, <2>2, <2>3
<1>9. Chain(w, m)
  <2>1. \A i \in 1..Len(w) : SegmentOK(w[i], m)
    BY <1>5, <1>6
  <2>2. ASSUME NEW i \in 2..Len(w)
        PROVE  w[i].seq = EndOf(w[i - 1])
    <3>1. i \in 1..k /\ i - 1 \in 1..k
      BY <1>6
    <3>2. w[i].seq = a + P[i - 1] /\ EndOf(w[i - 1]) = a + G[i - 1] /\ G[i - 1] = P[i - 1]
      BY <1>3, <1>5, <3>1
    <3> QED
      BY <3>2
  <2> QED
    BY <1>6, <2>1, <2>2 DEF Chain
<1>10. EndOf(Last(w)) = a + x
  BY <1>4, <1>5, <1>7, <1>8
<1>11. Len(Last(w).data) = x - P[k - 1] /\ Len(Last(w).data) >= 1
  <2> DEFINE b == P[k - 1]
             n == N[k]
  <2>1. b + n = x /\ n >= 1 /\ n \in Nat /\ b \in Nat
    BY <1>3, <1>4, <1>7
  <2>2. Len(w[k].data) = n
    BY <1>5, <1>7
  <2> HIDE DEF b, n
  <2>3. n = x - b
    BY <2>1
  <2> QED
    <3>1. Last(w) = w[k] /\ P[k - 1] = b
      BY <1>8 DEF b
    <3>2. Len(Last(w).data) = n
      BY <2>2, <3>1, Zenon
    <3> QED
      BY <2>1, <2>3, <3>1, <3>2
<1>12. Pbufs(w) = k
  <2>1. Clens(w) \in Seq(Nat) /\ Len(Clens(w)) = k /\ Pbufs(w) = Total(Clens(w))
    BY <1>6, Counts
  <2>2. \A i \in 1..k : Clens(w)[i] = w[i].clen
    BY <1>6, Counts
  <2> DEFINE h == Clens(w)
  <2>3. h \in Seq(Nat) /\ Len(h) = k /\ \A i \in 1..Len(h) : h[i] = 1 /\ h[i] >= 1
    <3>1. \A i \in 1..k : h[i] = 1
      BY <1>5, <2>2, Zenon
    <3> HIDE DEF h
    <3> QED
      BY <2>1, <3>1 DEF h
  <2> HIDE DEF h
  <2>4. Total(h) = Len(h)
    BY <2>3, TotalCount
  <2> QED
    BY <2>1, <2>3, <2>4 DEF h
<1>13. Volume(w) = x
  <2> DEFINE h == Lens(w)
  <2>1. Len(h) = k /\ Volume(w) = Total(h)
    BY <1>6, Counts
  <2>2. ASSUME NEW i \in 1..k
        PROVE  G[i] = G[i - 1] + h[i]
    <3>1. h[i] = N[i]
      <4>1. h[i] = Len(w[i].data)
        BY <1>6, Counts
      <4>2. Len(w[i].data) = N[i]
        BY <1>5
      <4> QED
        BY ONLY <4>1, <4>2
    <3> QED
      BY <1>3, <3>1
  <2> HIDE DEF h
  <2>3. Total(h) = G[k]
    BY <1>4, <2>1, <2>2, TotalIs
  <2> QED
    BY <1>4, <2>1, <2>3
<1>14. \A i \in 1..Len(w) : ~w[i].fin
  BY <1>5, <1>6
<1> QED
  BY <1>8, <1>9, <1>10, <1>11, <1>12, <1>13, <1>14 DEF Division

\* The pieces are a chain, and the accounts follow.
LEMMA PiecesOK ==
    ASSUME NEW m \in Nat, m >= 1, NEW a \in Nat, a >= 1, NEW x \in Nat,
           NEW k \in Nat, k >= 1, NEW b, b = (k - 1) * m, b < x, x <= k * m,
           NEW w, w = Pieces(a, m, x, k)
    PROVE  Division(w, m, a, x, k, b)
<1>1. PICK P : P = Multiples(m, k)
  OBVIOUS
<1>2. Begin(P, m, x, k) /\ \A i \in 1..k : P[i - 1] = (i - 1) * m
  BY <1>1, Places
<1>3. P[k] = k * m /\ P[k - 1] = b
  <2>1. k \in 0..k /\ k \in 1..k
    OBVIOUS
  <2> QED
    BY <1>1, <1>2, <2>1, Zenon DEF Multiples
<1>4. w = PiecesFrom(a, m, x, k, P)
  BY <1>2, Zenon DEF Pieces, PiecesFrom
<1>5. Division(w, m, a, x, k, P[k - 1])
  <2>1. x <= P[k]
    BY <1>3
  <2> QED
    BY <1>2, <1>4, <2>1, PiecesAt
<1> QED
  BY <1>3, <1>5, Zenon

\* tcp_pbuf_prealloc allocates at most up to the maximum.
LEMMA Preallocated ==
    ASSUME NEW p, NEW l \in Nat, NEW x \in Nat, l <= x, NEW f
    PROVE  tcp_pbuf_prealloc(p, l, x, f) \in Nat /\ tcp_pbuf_prealloc(p, l, x, f) <= x - l
BY DEF tcp_pbuf_prealloc

\* u bytes for the oversize o and c bytes for a new pbuf, of n, fit behind l in m.
Room(u, c, m, l, o, n, E) ==
    /\ u \in Nat /\ c \in Nat /\ u <= o /\ u + c <= n /\ l + (u + c) <= m
    /\ u + c > 0 => E /\ l > 0

\* What tcp_write puts into the last segment, whose length is l, with the oversize o; at
\* most m bytes.
LEMMA IntoLast ==
    ASSUME NEW m \in Nat, NEW l \in Nat, l <= m, NEW o \in Nat, o <= m - l,
           NEW n \in Nat, NEW E \in BOOLEAN, o > 0 => E /\ l > 0,
           NEW u, u = Smaller(m - l, Smaller(o, n)),
           NEW c, c = IF E /\ u < n /\ m - l - u > 0 /\ l > 0
                      THEN Smaller(m - l - u, n - u) ELSE 0
    PROVE  Room(u, c, m, l, o, n, E)
<1>1. u \in Nat /\ u <= o /\ u <= n /\ u <= m - l
  BY DEF Smaller
<1>2. CASE E /\ u < n /\ m - l - u > 0 /\ l > 0
  <2>1. c = Smaller(m - l - u, n - u)
    BY <1>2
  <2> QED
    BY <1>1, <1>2, <2>1 DEF Smaller, Room
<1>3. CASE ~(E /\ u < n /\ m - l - u > 0 /\ l > 0)
  <2>1. c = 0
    BY <1>3, Zenon
  <2> QED
    BY <1>1, <2>1 DEF Room
<1> QED
  BY <1>2, <1>3

\* How a length is split up.
Splits(p, n, w) ==
    /\ w.used \in Nat /\ w.concat \in Nat /\ w.rest \in Nat /\ w.news \in Nat
    /\ w.oversize \in Nat
    /\ w.used + w.concat + w.rest = n
    /\ LastLen(p) + (w.used + w.concat) <= MssLocal(p)
    /\ w.used + w.concat > 0 => p.unsent # <<>> /\ LastLen(p) > 0
    /\ w.news = (w.rest + MssLocal(p) - 1) \div MssLocal(p)
    /\ w.news > 0 => w.oversize <= MssLocal(p) - (w.rest - (w.news - 1) * MssLocal(p))
    /\ w.news = 0 /\ w.oversize > 0 =>
          /\ p.unsent # <<>> /\ LastLen(p) > 0
          /\ w.oversize <= MssLocal(p) - (LastLen(p) + (w.used + w.concat))

\* Split does it like that.
LEMMA SplitOK ==
    ASSUME NEW p, MssLocal(p) \in Nat, MssLocal(p) >= 1, LastLen(p) \in Nat,
           LastLen(p) <= MssLocal(p), p.unsent_oversize \in Nat, Oversize(p),
           NEW n \in Nat, NEW w, w = Split(p, n)
    PROVE  Splits(p, n, w)
<1> DEFINE m == MssLocal(p)
           l == LastLen(p)
           o == p.unsent_oversize
           E == p.unsent # <<>>
           u == Smaller(m - l, Smaller(o, n))
           a == m - l - u
           c == IF E /\ u < n /\ a > 0 /\ l > 0 THEN Smaller(a, n - u) ELSE 0
           x == n - u - c
           k == (x + m - 1) \div m
           y == x - (k - 1) * m
           z == IF k > 0 THEN tcp_pbuf_prealloc(p, y, m, k = 1)
                ELSE IF c > 0 THEN tcp_pbuf_prealloc(p, c, a, TRUE) ELSE o - u
<1>1. w = [used |-> u, concat |-> c, rest |-> x, news |-> k, oversize |-> z]
  BY Zenon DEF Split
<1>2. m \in Nat /\ m >= 1 /\ l \in Nat /\ l <= m /\ o \in Nat /\ E \in BOOLEAN
  OBVIOUS
<1>3. o <= m - l /\ (o > 0 => E /\ l > 0)
  BY DEF Oversize
<1>4. u = Smaller(m - l, Smaller(o, n))
  OBVIOUS
<1>5. c = IF E /\ u < n /\ m - l - u > 0 /\ l > 0 THEN Smaller(m - l - u, n - u) ELSE 0
  OBVIOUS
<1>6. x = n - u - c /\ a = m - l - u
  OBVIOUS
<1>7. k = (x + m - 1) \div m /\ y = x - (k - 1) * m
  OBVIOUS
<1>8. z = IF k > 0 THEN tcp_pbuf_prealloc(p, y, m, k = 1)
          ELSE IF c > 0 THEN tcp_pbuf_prealloc(p, c, a, TRUE) ELSE o - u
  OBVIOUS
<1> HIDE DEF z, y, k, x, c, a, u
<1>9. w.used = u /\ w.concat = c /\ w.rest = x /\ w.news = k /\ w.oversize = z
  BY <1>1
<1> HIDE DEF m, l, o, E
<1>10. /\ u \in Nat /\ c \in Nat /\ u <= o /\ u + c <= n /\ l + (u + c) <= m
       /\ u + c > 0 => E /\ l > 0
  <2>1. PICK i \in Nat : i = m
    BY <1>2
  <2>2. PICK j \in Nat : j = l
    BY <1>2
  <2>3. PICK h \in Nat : h = o
    BY <1>2
  <2>4. PICK F \in BOOLEAN : F = E
    BY <1>2, Zenon
  <2>5. j <= i /\ h <= i - j
    BY <1>2, <1>3, <2>1, <2>2, <2>3
  <2>6. h > 0 => F /\ j > 0
    BY <1>3, <2>2, <2>3, <2>4, Zenon
  <2>7. /\ u = Smaller(i - j, Smaller(h, n))
        /\ c = IF F /\ u < n /\ i - j - u > 0 /\ j > 0 THEN Smaller(i - j - u, n - u) ELSE 0
    BY <1>4, <1>5, <2>1, <2>2, <2>3, <2>4, Zenon
  <2>8. Room(u, c, i, j, h, n, F)
    BY <2>5, <2>6, <2>7, IntoLast
  <2> QED
    BY <2>1, <2>2, <2>3, <2>4, <2>8, Zenon DEF Room
<1>11. x \in Nat /\ u + c + x = n /\ a \in Nat /\ c <= a /\ a - c = m - (l + (u + c))
  BY <1>2, <1>6, <1>10
<1>12. k \in Nat /\ (k >= 1 => (k - 1) * m \in Nat /\ (k - 1) * m < x /\ x <= k * m)
  <2>1. m \in Nat /\ m >= 1 /\ x \in Nat /\ k = (x + m - 1) \div m
    BY <1>2, <1>7, <1>11
  <2> QED
    BY ONLY <2>1, Parts
<1>13. CASE k > 0
  <2> DEFINE b == (k - 1) * m
  <2>1. b \in Nat /\ b < x /\ x <= b + m
    <3>1. k * m = b + m
      BY <1>2, <1>12
    <3> QED
      BY <1>12, <1>13, <3>1
  <2>2. y = x - b
    BY <1>7
  <2> HIDE DEF b
  <2>3. y \in Nat /\ y <= m
    BY <1>2, <1>11, <2>1, <2>2
  <2>4. z = tcp_pbuf_prealloc(p, y, m, k = 1)
    BY <1>8, <1>13
  <2> DEFINE f == k = 1
  <2>5. z = tcp_pbuf_prealloc(p, y, m, f)
    BY <2>4
  <2> HIDE DEF f
  <2>6. z \in Nat /\ z <= m - y
    BY <1>2, <2>3, <2>5, Preallocated
  <2>7. k # 0
    BY <1>13
  <2> QED
    BY <1>7, <1>9, <1>10, <1>11, <1>12, <2>2, <2>6, <2>7, Zenon DEF Splits, m, l, E, b
<1>14. CASE k = 0
  <2>1. z \in Nat /\ z <= m - (l + (u + c)) /\ (z > 0 => E /\ l > 0)
    <3>1. CASE c > 0
      <4> DEFINE f == TRUE
      <4>1. z = tcp_pbuf_prealloc(p, c, a, f)
        BY <1>8, <1>14, <3>1
      <4> HIDE DEF f
      <4>2. z \in Nat /\ z <= a - c
        BY <1>10, <1>11, <4>1, Preallocated
      <4> QED
        BY <1>10, <1>11, <3>1, <4>2
    <3>2. CASE c = 0
      <4>1. z = o - u
        BY <1>8, <1>14, <3>2
      <4> QED
        BY <1>2, <1>3, <1>10, <1>11, <3>2, <4>1
    <3> QED
      BY <1>10, <3>1, <3>2
  <2>2. ~(k > 0)
    BY <1>14
  <2> QED
    BY <1>7, <1>9, <1>10, <1>11, <1>12, <2>1, <2>2, Zenon DEF Splits, m, l, E
<1> QED
  BY <1>12, <1>13, <1>14

\* No segment of a queue has a FIN.
NoFin(q) == \A i \in 1..Len(q) : ~q[i].fin

\* Another segment in the place of the last one.
LEMMA NoFinLast ==
    ASSUME NEW g \in Seq(Segment), NEW s \in Segment, NEW t \in Segment,
           NoFin(g \o <<s>>), ~t.fin
    PROVE  NoFin(g \o <<t>>)
<1> DEFINE k == Len(g)
           c == g \o <<s>>
           d == g \o <<t>>
<1>1. k \in Nat /\ k = Len(g)
  BY LenProperties
<1> HIDE DEF k
<1>2. Len(c) = k + 1 /\ \A i \in 1..k : c[i] = g[i]
  BY <1>1, OneBehind
<1>3. Len(d) = k + 1 /\ (\A i \in 1..k : d[i] = g[i]) /\ d[k + 1] = t
  BY <1>1, OneBehind
<1>4. \A i \in 1..Len(c) : ~c[i].fin
  BY DEF NoFin
<1> HIDE DEF c, d
<1>5. \A i \in 1..(k + 1) : i \in 1..k \/ i = k + 1
  BY <1>1
<1>6. \A i \in 1..k : i \in 1..(k + 1)
  BY <1>1
<1>7. \A i \in 1..(k + 1) : ~d[i].fin
  BY <1>2, <1>3, <1>4, <1>5, <1>6
<1> QED
  BY <1>3, <1>7 DEF NoFin, d

\* Two queues that are joined.
LEMMA NoFinJoined ==
    ASSUME NEW u \in Seq(Segment), NEW v \in Seq(Segment), NoFin(u), NoFin(v)
    PROVE  NoFin(u \o v)
<1> DEFINE m == Len(u)
           n == Len(v)
           c == u \o v
<1>1. m = Len(u) /\ n = Len(v)
  OBVIOUS
<1>2. /\ Len(c) = m + n
      /\ \A i \in 1..m : c[i] = u[i]
      /\ \A i \in 1..(m + n) : i \in 1..m \/ (i - m \in 1..n /\ c[i] = v[i - m])
  BY Joined
<1> HIDE DEF m, n, c
<1>3. (\A i \in 1..m : ~u[i].fin) /\ (\A i \in 1..n : ~v[i].fin)
  BY <1>1 DEF NoFin
<1>4. \A i \in 1..(m + n) : ~c[i].fin
  BY <1>2, <1>3
<1> QED
  BY <1>2, <1>4 DEF NoFin, c

\* The last segment of unsent with n bytes more, in c more pbufs.
Fill(p, n, c) ==
    IF n = 0 THEN p.unsent
    ELSE [p.unsent EXCEPT ![Len(p.unsent)] = Longer(@, p.snd_lbb, n, c)]

\* The queue is longer by the n bytes.
Fuller(p, v, e, n, c) ==
    LET q == p.unacked \o v
    IN  /\ v \in Seq(Segment) /\ q \in Seq(Segment)
        /\ Chain(q, MssLocal(p)) /\ Covers(q, p.lastack, e + n) /\ NoFin(q)
        /\ Pbufs(q) = p.snd_queuelen + (IF n = 0 THEN 0 ELSE c)
        /\ Volume(q) = (SND_BUF - p.snd_buf) + n
        /\ n = 0 => v = p.unsent
        /\ n # 0 => v # <<>> /\ Len(Last(v).data) = LastLen(p) + n

\* Nothing to fill in.
LEMMA FillNothing ==
    ASSUME NEW p, NEW e \in Nat, NEW off \in Nat, POK(p, e, off), ~p.fin, NEW c, NEW n, n = 0
    PROVE  Fuller(p, Fill(p, n, c), e, n, c)
<1> DEFINE q == p.unacked \o p.unsent
<1>1. /\ p \in Pcb /\ q \in Seq(Segment) /\ p.unsent \in Seq(Segment)
      /\ Chain(q, MssLocal(p)) /\ Covers(q, p.lastack, e)
      /\ Pbufs(q) \in Nat /\ Volume(q) \in Nat
      /\ p.snd_queuelen = Pbufs(q) /\ p.snd_buf = SND_BUF - Volume(q)
  BY ContentFacts
<1>2. Mid(p, q, e, off)
  BY DEF POK
<1> HIDE DEF q
<1>3. NoFin(q)
  BY <1>2 DEF Mid, Content, NoFin
<1>4. Fill(p, n, c) = p.unsent
  BY DEF Fill
<1>5. e + n = e /\ Pbufs(q) = p.snd_queuelen + 0 /\ Volume(q) = (SND_BUF - p.snd_buf) + n
  BY <1>1, Constants
<1> QED
  BY <1>1, <1>3, <1>4, <1>5 DEF Fuller, q

\* Something to fill in.
LEMMA FillSome ==
    ASSUME NEW p, NEW e \in Nat, NEW off \in Nat, POK(p, e, off), ~p.fin, p.snd_lbb = e,
           NEW c \in Nat, NEW n \in Nat, n # 0, p.unsent # <<>>, LastLen(p) > 0,
           LastLen(p) + n <= MssLocal(p)
    PROVE  Fuller(p, Fill(p, n, c), e, n, c)
<1> DEFINE q == p.unacked \o p.unsent
           l == Len(p.unsent)
           s == Last(p.unsent)
           g == p.unacked \o SubSeq(p.unsent, 1, l - 1)
           m == MssLocal(p)
           t == Longer(s, p.snd_lbb, n, c)
           v == [p.unsent EXCEPT ![l] = t]
<1>1. /\ p \in Pcb /\ q \in Seq(Segment) /\ m \in Nat
      /\ Chain(q, m) /\ Covers(q, p.lastack, e) /\ p.lastack \in Nat
      /\ Pbufs(q) \in Nat /\ Volume(q) \in Nat
      /\ p.snd_queuelen = Pbufs(q) /\ p.snd_buf = SND_BUF - Volume(q)
  BY ContentFacts
<1>2. /\ l \in Nat /\ l >= 1 /\ s = p.unsent[l] /\ s \in Segment
      /\ g \in Seq(Segment) /\ q = g \o <<s>>
      /\ SegmentOK(s, m) /\ (~p.fin => ~s.fin)
      /\ \A z \in Segment :
            LET w == [p.unsent EXCEPT ![l] = z]
            IN  w \in Seq(Segment) /\ w # <<>> /\ Last(w) = z /\ p.unacked \o w = g \o <<z>>
  BY EndOfUnsent
<1>3. Mid(p, q, e, off)
  BY DEF POK
<1>4. Fill(p, n, c) = v
  BY <1>2 DEF Fill
<1>5. LastLen(p) = Len(s.data)
  BY DEF LastLen
<1> HIDE DEF q, l, g, m, s, t
<1>6. NoFin(q)
  BY <1>3 DEF Mid, Content, NoFin
<1>7. ~s.syn /\ ~s.fin
  <2>1. s.syn => s.data = <<>>
    BY <1>2 DEF SegmentOK
  <2>2. s.data = <<>> => Len(s.data) = 0
    BY EmptySeq
  <2> QED
    BY <1>2, <1>5, <2>1, <2>2
<1>8. EndOf(s) = e
  <2>1. /\ m \in Nat /\ g \in Seq(Segment) /\ s \in Segment /\ Chain(g \o <<s>>, m)
        /\ SegmentOK(s, m) /\ Covers(g \o <<s>>, p.lastack, e) /\ p.lastack \in Nat
        /\ EndOf(s) <= EndOf(s)
    <3>1. EndOf(s) \in Nat
      BY <1>1, <1>2, SegmentFacts
    <3> QED
      BY <1>1, <1>2, <3>1
  <2> QED
    BY <2>1, ReplaceLast
<1>9. Filled(s, t, m, n, c)
  <2>1. /\ m \in Nat /\ SegmentOK(s, m) /\ Len(s.data) >= 1 /\ Len(s.data) + n <= m
        /\ e = EndOf(s) /\ t = Longer(s, e, n, c)
    <3>1. Len(s.data) \in Nat
      <4>1. m \in Nat /\ SegmentOK(s, m)
        BY <1>1, <1>2
      <4> QED
        BY ONLY <4>1, SegmentFacts
    <3> QED
      BY <1>1, <1>2, <1>5, <1>8, <3>1 DEF m, t
  <2> QED
    BY <1>7, <2>1, LongerOK
<1>10. /\ t \in Segment /\ SegmentOK(t, m) /\ t.seq = s.seq
       /\ Len(t.data) = Len(s.data) + n /\ t.clen = s.clen + c
       /\ EndOf(t) = EndOf(s) + n /\ ~t.fin
  BY <1>9 DEF Filled
<1>11. v \in Seq(Segment) /\ v # <<>> /\ Last(v) = t /\ p.unacked \o v = g \o <<t>>
  BY <1>2, <1>10
<1> HIDE DEF v
<1>12. /\ Chain(g \o <<t>>, m) /\ Covers(g \o <<t>>, p.lastack, EndOf(t))
       /\ Pbufs(g \o <<t>>) = Pbufs(g) + t.clen
       /\ Pbufs(g \o <<s>>) = Pbufs(g) + s.clen
       /\ Volume(g \o <<t>>) = Volume(g) + Len(t.data)
       /\ Volume(g \o <<s>>) = Volume(g) + Len(s.data)
  <2>1. /\ Chain(g \o <<s>>, m) /\ Covers(g \o <<s>>, p.lastack, e) /\ p.lastack \in Nat
        /\ m \in Nat /\ g \in Seq(Segment) /\ s \in Segment /\ t \in Segment
        /\ SegmentOK(t, m) /\ t.seq = s.seq
    BY <1>1, <1>2, <1>10
  <2>2. EndOf(s) <= EndOf(t)
    BY <1>8, <1>10
  <2> QED
    BY <2>1, <2>2, ReplaceLast
<1>13. NoFin(g \o <<t>>)
  BY <1>2, <1>6, <1>10, NoFinLast
<1>14. /\ Pbufs(g \o <<t>>) = p.snd_queuelen + c
       /\ Volume(g \o <<t>>) = (SND_BUF - p.snd_buf) + n
  <2>1. /\ Pbufs(g) \in Nat /\ Volume(g) \in Nat /\ s.clen \in Nat /\ Len(s.data) \in Nat
    <3>1. Pbufs(g) \in Nat /\ Volume(g) \in Nat
      BY <1>2, Counts
    <3>2. s.clen \in Nat /\ s.data \in Seq(Nat)
      BY <1>2 DEF Segment
    <3>3. Len(s.data) \in Nat
      BY <3>2, LenProperties
    <3> QED
      BY <3>1, <3>2, <3>3
  <2>2. Pbufs(q) = Pbufs(g) + s.clen /\ Volume(q) = Volume(g) + Len(s.data)
    BY <1>2, <1>12
  <2>3. /\ Pbufs(g \o <<t>>) = Pbufs(g) + (s.clen + c)
        /\ Volume(g \o <<t>>) = Volume(g) + (Len(s.data) + n)
    BY <1>10, <1>12
  <2> DEFINE a == Pbufs(g)
             b == Volume(g)
             d == s.clen
             f == Len(s.data)
             h == p.snd_buf
             i == p.snd_queuelen
             j == Pbufs(g \o <<t>>)
             k == Volume(g \o <<t>>)
  <2>4. /\ a \in Nat /\ b \in Nat /\ d \in Nat /\ f \in Nat /\ SND_BUF \in Nat
        /\ i = a + d /\ h = SND_BUF - (b + f) /\ j = a + (d + c) /\ k = b + (f + n)
    BY <1>1, <2>1, <2>2, <2>3, Constants
  <2> HIDE DEF a, b, d, f, h, i, j, k
  <2>5. j = i + c /\ k = (SND_BUF - h) + n
    BY <2>4
  <2> QED
    BY <2>5 DEF h, i, j, k
<1>15. Len(Last(v).data) = LastLen(p) + n
  BY <1>5, <1>10, <1>11
<1>16. Covers(g \o <<t>>, p.lastack, e + n) /\ g \o <<t>> \in Seq(Segment)
  BY <1>8, <1>10, <1>12 DEF Chain
<1> QED
  BY <1>4, <1>11, <1>12, <1>13, <1>14, <1>15, <1>16 DEF Fuller, m

\* The new segments of a division x of a length, from the number a.
LEMMA PiecesOf ==
    ASSUME NEW m \in Nat, m >= 1, NEW a \in Nat, a >= 1, NEW x \in Nat,
           NEW k, k = (x + m - 1) \div m, NEW w, w = Pieces(a, m, x, k)
    PROVE  /\ k \in Nat
           /\ k # 0 => Division(w, m, a, x, k, (k - 1) * m)
           /\ k = 0 => w = <<>> /\ x = 0
<1> DEFINE b == (k - 1) * m
<1>1. k \in Nat /\ (k = 0 <=> x = 0) /\ (k >= 1 => b \in Nat /\ b < x /\ x <= k * m)
  <2>1. k = (x + m - 1) \div m
    OBVIOUS
  <2>2. /\ k \in Nat /\ (k = 0 <=> x = 0)
        /\ k >= 1 => (k - 1) * m \in Nat /\ (k - 1) * m < x /\ x <= k * m
    BY <2>1, Parts, Zenon
  <2> QED
    BY <2>2, Zenon
<1>2. k # 0 => k >= 1
  BY <1>1
<1>3. k # 0 => Division(w, m, a, x, k, b)
  <2> SUFFICES ASSUME k # 0
               PROVE  Division(w, m, a, x, k, b)
    OBVIOUS
  <2>1. k \in Nat /\ k >= 1 /\ b = (k - 1) * m /\ b < x /\ x <= k * m
    BY <1>1, <1>2
  <2> HIDE DEF b
  <2> QED
    BY <2>1, PiecesOK
<1>4. k = 0 => w = <<>>
  <2> SUFFICES ASSUME k = 0
               PROVE  w = <<>>
    OBVIOUS
  <2>1. 1..k = {}
    OBVIOUS
  <2>2. \A F : [i \in {} |-> F[i]] = <<>>
    OBVIOUS
  <2>3. w \in Seq(Segment) /\ Len(w) = 0
    BY <2>1 DEF Pieces
  <2> QED
    BY <2>3, EmptySeq
<1> QED
  BY <1>1, <1>3, <1>4

\* Joining is associative.
LEMMA Grouped == \A S : \A u, v, w \in Seq(S) : (u \o v) \o w = u \o (v \o w)
BY ConcatAssociative

\* unsent is h then; d is the end of the queue, n the pbufs and y the bytes that are new.
Queues(p, h, d, n, y) ==
    LET q == p.unacked \o h
    IN  /\ h \in Seq(Segment) /\ q \in Seq(Segment)
        /\ Chain(q, MssLocal(p)) /\ Covers(q, p.lastack, d) /\ NoFin(q)
        /\ Pbufs(q) = p.snd_queuelen + n /\ Volume(q) = (SND_BUF - p.snd_buf) + y

\* What is queued when k new segments w hold the x bytes behind the n bytes of v.
Appended(p, v, w, e, n, x, k, z) ==
    /\ k \in Nat /\ Queues(p, v \o w, e + (n + x), k + z, n + x)
    /\ k # 0 => /\ v \o w # <<>>
                /\ LET l == Len(Last(v \o w).data)
                   IN  l = x - (k - 1) * MssLocal(p) /\ l >= 1
    /\ k = 0 => v \o w = v /\ x = 0

\* The new segments behind the one that is filled up.
LEMMA QueueLonger ==
    ASSUME NEW p, NEW e \in Nat, NEW off \in Nat, POK(p, e, off), e >= 1,
           NEW v, NEW n \in Nat, NEW c \in Nat, Fuller(p, v, e, n, c),
           NEW x \in Nat, NEW k, k = (x + MssLocal(p) - 1) \div MssLocal(p),
           NEW w, w = Pieces(e + n, MssLocal(p), x, k),
           NEW z, z = IF n = 0 THEN 0 ELSE c
    PROVE  Appended(p, v, w, e, n, x, k, z)
<1> DEFINE q == p.unacked \o v
           u == p.unacked
           m == MssLocal(p)
           a == e + n
           s == SND_BUF - p.snd_buf
           f == p.snd_queuelen
<1>1. p \in Pcb /\ m \in Nat /\ m >= 1 /\ u \in Seq(Segment) /\ p.lastack \in Nat
  BY ContentFacts
<1>2. /\ v \in Seq(Segment) /\ q \in Seq(Segment)
      /\ Chain(q, m) /\ Covers(q, p.lastack, a) /\ NoFin(q)
      /\ Pbufs(q) = f + z /\ Volume(q) = s + n
  BY DEF Fuller
<1>3. a \in Nat /\ a >= 1 /\ z \in Nat /\ f \in Int /\ s \in Int
  <2>1. p.snd_queuelen \in Int /\ p.snd_buf \in Int
    BY <1>1, PcbFacts
  <2>2. a \in Nat /\ a >= 1 /\ z \in Nat
    OBVIOUS
  <2> QED
    BY <2>1, <2>2, Constants
<1>4. k = (x + m - 1) \div m /\ w = Pieces(a, m, x, k) /\ a = e + n
  OBVIOUS
<1>15. u \o v = q
  OBVIOUS
<1> HIDE DEF q, u, m, a, s, f
<1>5. /\ k \in Nat
      /\ k # 0 => Division(w, m, a, x, k, (k - 1) * m)
      /\ k = 0 => w = <<>> /\ x = 0
  BY <1>1, <1>3, <1>4, PiecesOf
<1>6. CASE k = 0
  <2>1. v \o w = v /\ x = 0
    BY <1>2, <1>5, <1>6, ConcatEmptySeq
  <2>2. e + (n + x) = a /\ k + z = z /\ n + x = n
    BY <1>3, <1>4, <1>6, <2>1
  <2>3. Queues(p, v \o w, e + (n + x), k + z, n + x)
    BY <1>2, <2>1, <2>2, Zenon DEF Queues, q, m, s, f
  <2> QED
    BY <1>5, <1>6, <2>1, <2>3, Zenon DEF Appended
<1>7. CASE k # 0
  <2>1. Division(w, m, a, x, k, (k - 1) * m)
    BY <1>5, <1>7
  <2> DEFINE b == (k - 1) * m
  <2>2. /\ Chain(w, m) /\ w # <<>> /\ w[1].seq = a /\ EndOf(Last(w)) = a + x
        /\ Len(Last(w).data) = x - b /\ Len(Last(w).data) >= 1
        /\ Pbufs(w) = k /\ Volume(w) = x /\ NoFin(w)
    BY <2>1, Zenon DEF Division, NoFin
  <2> HIDE DEF b
  <2>3. w \in Seq(Segment)
    BY <2>2 DEF Chain
  <2>4. u \o (v \o w) = q \o w
    <3>1. u \in Seq(Segment) /\ v \in Seq(Segment) /\ w \in Seq(Segment)
      BY <1>1, <1>2, <2>3
    <3>2. (u \o v) \o w = u \o (v \o w)
      BY ONLY <3>1, Grouped
    <3> QED
      BY <1>15, <3>2, Zenon
  <2>5. Chain(q \o w, m) /\ Covers(q \o w, p.lastack, EndOf(Last(w)))
    <3>1. /\ m \in Nat /\ Chain(q, m) /\ Chain(w, m) /\ w # <<>> /\ p.lastack \in Nat /\ a \in Nat
          /\ Covers(q, p.lastack, a) /\ w[1].seq = a
      BY <1>1, <1>2, <1>3, <2>2
    <3> QED
      BY <3>1, AppendChain
  <2>6. NoFin(q \o w)
    BY <1>2, <2>2, <2>3, NoFinJoined
  <2>7. Pbufs(q \o w) = Pbufs(q) + Pbufs(w) /\ Volume(q \o w) = Volume(q) + Volume(w)
    BY <1>2, <2>3, CountsConcat
  <2>8. Pbufs(q \o w) = f + (k + z) /\ Volume(q \o w) = s + (n + x) /\ a + x = e + (n + x)
    <3>1. Pbufs(q) = f + z /\ Pbufs(w) = k /\ Volume(q) = s + n /\ Volume(w) = x
      BY <1>2, <2>2
    <3>2. /\ f \in Int /\ s \in Int /\ z \in Nat /\ k \in Nat /\ e \in Nat /\ n \in Nat
          /\ x \in Nat /\ a = e + n
      BY <1>3, <1>4, <1>5
    <3> QED
      BY ONLY <2>7, <3>1, <3>2
  <2>9. v \o w \in Seq(Segment) /\ q \o w \in Seq(Segment)
    BY <1>2, <2>3, ConcatProperties
  <2>10. v \o w # <<>> /\ Last(v \o w) = Last(w)
    BY <1>2, <2>2, <2>3, LastJoined
  <2>11. Queues(p, v \o w, e + (n + x), k + z, n + x)
    <3>1. /\ Chain(q \o w, m) /\ Covers(q \o w, p.lastack, e + (n + x))
      BY <2>2, <2>5, <2>8
    <3> QED
      BY <2>4, <2>6, <2>8, <2>9, <3>1, Zenon DEF Queues, u, m, s, f
  <2> QED
    BY <1>5, <1>7, <2>2, <2>10, <2>11, Zenon DEF b, m, Appended
<1> QED
  BY <1>6, <1>7

\* The length of the last segment is a number.
LEMMA LastLenNat ==
    ASSUME NEW p, p.unsent \in Seq(Segment)
    PROVE  LastLen(p) \in Nat
<1>1. CASE p.unsent = <<>>
  BY <1>1 DEF LastLen
<1>2. CASE p.unsent # <<>>
  <2>1. Last(p.unsent) \in Segment
    BY <1>2, LastSplit
  <2>2. Last(p.unsent).data \in Seq(Nat)
    BY <2>1 DEF Segment
  <2> QED
    BY <1>2, <2>2, LenProperties DEF LastLen
<1> QED
  BY <1>1, <1>2

\* What tcp_write queues.
Longest(p, n, w) ==
    Extended(p, Fill(p, w.used + w.concat, Chained(w))
                    \o Pieces(p.snd_lbb + (w.used + w.concat), MssLocal(p), w.rest, w.news),
             w.oversize, p.snd_lbb + n, p.snd_buf - n,
             p.snd_queuelen + (w.news + Chained(w)), p.fin, p.state)

\* Queued is that.
LEMMA QueuedIs ==
    ASSUME NEW p \in Pcb, NEW n \in Nat, NEW w, w = Split(p, n), w.news \in Nat
    PROVE  Queued(p, n) = Longest(p, n, w)
<1> DEFINE a == w.used + w.concat
           c == Chained(w)
           f == IF a = 0 THEN p.unsent
                ELSE [p.unsent EXCEPT ![Len(p.unsent)] = Longer(@, p.snd_lbb, a, c)]
           g == Pieces(p.snd_lbb + a, MssLocal(p), w.rest, w.news)
           h == f \o g
           l == p.snd_lbb + n
           b == p.snd_buf - n
           i == p.snd_queuelen + (w.news + c)
<1>1. f = Fill(p, a, c)
  BY Zenon DEF Fill
<1>2. NewSegments(p, p.snd_lbb + a, w) = g
  BY Zenon DEF NewSegments, Pieces
<1>3. Queued(p, n) = [p EXCEPT !.unsent = f \o NewSegments(p, p.snd_lbb + a, w),
                               !.unsent_oversize = w.oversize,
                               !.snd_lbb = l, !.snd_buf = b,
                               !.snd_queuelen = i]
  BY DEF Queued, Pcb
<1> HIDE DEF h, f, g, l, b, i, a, c
<1>5. Queued(p, n) = [p EXCEPT !.unsent = h, !.unsent_oversize = w.oversize,
                               !.snd_lbb = l, !.snd_buf = b, !.snd_queuelen = i]
  BY <1>2, <1>3 DEF h
<1>6. Queued(p, n) = Extended(p, h, w.oversize, l, b, i, p.fin, p.state)
  BY <1>5 DEF Extended, Pcb
<1> QED
  BY <1>1, <1>6, Zenon DEF Longest, h, g, l, b, i, a, c

\* The invariant after that.
LEMMA QueuedOK ==
    ASSUME NEW p, NEW e \in Nat, NEW off \in Nat, POK(p, e, off), ~p.fin, p.snd_lbb = e, e >= 1,
           NEW n \in Nat, n <= p.snd_buf, p.snd_queuelen < SND_QUEUELEN,
           NEW w, w = Split(p, n), Splits(p, n, w),
           w.news > 0 => p.snd_queuelen + (w.news + Chained(w))
                             <= SND_QUEUELEN,
           NEW r, r = Queued(p, n)
    PROVE  POK(r, e + n, off) /\ r.fin = p.fin /\ r.state = p.state /\ r.snd_lbb = e + n
<1> DEFINE m == MssLocal(p)
           a == w.used + w.concat
           c == Chained(w)
           z == IF a = 0 THEN 0 ELSE c
           k == w.news
           x == w.rest
           v == Fill(p, a, c)
           g == Pieces(e + a, m, x, k)
           h == v \o g
           l == p.snd_lbb + n
           b == p.snd_buf - n
           i == p.snd_queuelen + (k + c)
           o == w.oversize
           f == p.fin
           s == p.state
           d == e + n
<1>1. /\ p \in Pcb /\ m \in Nat /\ m >= 1 /\ p.unsent \in Seq(Segment)
      /\ p.snd_queuelen \in Int /\ p.snd_buf \in Int /\ p.snd_lbb \in Nat
      /\ f \in BOOLEAN /\ s \in {"SYN_RCVD", "ESTABLISHED", "FIN_WAIT_1"}
  BY ContentFacts, PcbFacts
<1>2. /\ w.used \in Nat /\ w.concat \in Nat /\ x \in Nat /\ k \in Nat /\ o \in Nat
      /\ w.used + w.concat + x = n /\ LastLen(p) + a <= m
      /\ a > 0 => p.unsent # <<>> /\ LastLen(p) > 0
      /\ k = (x + m - 1) \div m
      /\ k > 0 => o <= m - (x - (k - 1) * m)
      /\ k = 0 /\ o > 0 => p.unsent # <<>> /\ LastLen(p) > 0 /\ o <= m - (LastLen(p) + a)
  BY DEF Splits
<1>3. a \in Nat /\ c \in {0, 1} /\ c \in Nat /\ z = c /\ a + x = n
  <2>1. w.concat > 0 => a # 0
    BY <1>2
  <2> QED
    BY <1>2, <2>1 DEF Chained
<1>4. r = Extended(p, h, o, l, b, i, f, s)
  <2>1. r = Longest(p, n, w)
    <3>1. /\ p \in Pcb /\ n \in Nat /\ w = Split(p, n) /\ w.news \in Nat
          /\ r = Queued(p, n)
      BY <1>1, <1>2
    <3> QED
      BY ONLY <3>1, QueuedIs
  <2> QED
    BY <2>1, Zenon DEF Longest
<1>5. z = (IF a = 0 THEN 0 ELSE c) /\ g = Pieces(e + a, m, x, k) /\ v = Fill(p, a, c)
      /\ h = v \o g
  OBVIOUS
<1>6. l = d /\ d \in Nat /\ d = e + (a + x) /\ e <= d /\ b \in Int /\ i \in Int
      /\ b = p.snd_buf - n /\ i = p.snd_queuelen + (k + c)
  <2> DEFINE j == p.snd_lbb
             q == p.snd_buf
             u == p.snd_queuelen
  <2>1. /\ j \in Nat /\ q \in Int /\ u \in Int /\ j = e /\ l = j + n /\ b = q - n
        /\ i = u + (k + c) /\ d = e + n
    BY <1>1
  <2>2. a + x = n /\ a \in Nat /\ x \in Nat /\ k \in Nat /\ c \in Nat
    BY <1>2, <1>3
  <2> HIDE DEF j, q, u, l, d, b, i, a, x, k, c
  <2>3. l = d /\ d \in Nat /\ d = e + (a + x) /\ e <= d /\ b \in Int /\ i \in Int
    BY ONLY <2>1, <2>2, n \in Nat, e \in Nat
  <2> QED
    BY <2>1, <2>3 DEF q, u
<1>7. k > 0 => i <= SND_QUEUELEN
  OBVIOUS
<1> HIDE DEF d, m, a, c, z, k, x, v, g, h, l, b, i, o, f, s
<1>8. Fuller(p, v, e, a, c)
  <2>1. CASE a = 0
    BY <1>5, <2>1, FillNothing
  <2>2. CASE a # 0
    <3>1. p.unsent # <<>> /\ LastLen(p) > 0 /\ LastLen(p) + a <= MssLocal(p)
      BY <1>2, <1>3, <2>2 DEF m
    <3> QED
      BY <1>3, <1>5, <2>2, <3>1, FillSome
  <2> QED
    BY <2>1, <2>2
<1>9. /\ Queues(p, h, e + (a + x), k + z, a + x)
      /\ k # 0 => /\ h # <<>>
                  /\ Len(Last(h).data) = x - (k - 1) * m /\ Len(Last(h).data) >= 1
      /\ k = 0 => h = v /\ x = 0
  <2>1. /\ k = (x + MssLocal(p) - 1) \div MssLocal(p)
        /\ g = Pieces(e + a, MssLocal(p), x, k)
    BY <1>2, <1>5 DEF m
  <2>2. PICK A \in Nat : A = a
    BY <1>3
  <2>3. PICK C \in Nat : C = c
    BY <1>3
  <2>4. PICK X \in Nat : X = x
    BY <1>2
  <2>5. /\ Fuller(p, v, e, A, C) /\ k = (X + MssLocal(p) - 1) \div MssLocal(p)
        /\ g = Pieces(e + A, MssLocal(p), X, k) /\ z = IF A = 0 THEN 0 ELSE C
    BY <1>5, <1>8, <2>1, <2>2, <2>3, <2>4, Zenon
  <2>6. Appended(p, v, g, e, A, X, k, z)
    BY <2>5, QueueLonger
  <2> QED
    BY <1>5, <2>2, <2>4, <2>6, Zenon DEF m, Appended
<1>10. /\ h \in Seq(Segment) /\ p.unacked \o h \in Seq(Segment)
       /\ Chain(p.unacked \o h, m) /\ Covers(p.unacked \o h, p.lastack, d)
       /\ NoFin(p.unacked \o h)
       /\ Pbufs(p.unacked \o h) = i /\ Volume(p.unacked \o h) = SND_BUF - b
  <2>1. (SND_BUF - p.snd_buf) + n = SND_BUF - b
    BY <1>1, <1>6, Constants
  <2>2. Volume(p.unacked \o h) = (SND_BUF - p.snd_buf) + (a + x)
    BY <1>9 DEF Queues
  <2> QED
    BY <1>3, <1>6, <1>9, <2>1, <2>2, Zenon DEF Queues, m
<1>11. r \in Pcb
  <2>1. h \in Seq(Segment) /\ l \in Nat
    BY <1>6, <1>10
  <2>2. /\ p \in Pcb /\ o \in Nat /\ b \in Int /\ i \in Int /\ f \in BOOLEAN
        /\ s \in {"SYN_RCVD", "ESTABLISHED", "FIN_WAIT_1"}
    BY <1>1, <1>2, <1>6
  <2> QED
    BY ONLY <1>4, <2>1, <2>2, ExtendedType
<1>12. Behind(p, r) /\ Ahead(r, h, o, l, b, i, f, s)
  BY <1>1, <1>4, ExtendedFields
<1>13. MssLocal(r) = m /\ r.lastack = p.lastack /\ r.unacked = p.unacked
  BY <1>12 DEF MssLocal, Behind, m
<1>14. /\ r.unsent = h /\ r.unsent_oversize = o /\ r.snd_lbb = l /\ r.snd_buf = b
       /\ r.snd_queuelen = i /\ r.fin = f /\ r.state = s
  BY <1>12 DEF Ahead
<1>15. Content(r, r.unacked \o r.unsent, d)
  <2>1. b >= 0 /\ i <= SND_QUEUELEN /\ FinBit(r) \in Nat
    <3>1. i <= SND_QUEUELEN
      <4>1. CASE k > 0
        BY <1>7, <4>1
      <4>2. CASE k = 0
        <5>1. i <= p.snd_queuelen + 1
          BY ONLY <1>1, <1>3, <1>6, <4>2
        <5> QED
          BY <1>1, <1>6, <5>1, Constants
      <4> QED
        BY <1>2, <4>1, <4>2
    <3> QED
      BY <1>1, <1>6, <3>1 DEF FinBit
  <2> DEFINE q == p.unacked \o h
  <2>2. /\ Chain(q, m) /\ Covers(q, r.lastack, d) /\ NoFin(q)
        /\ i = Pbufs(q) /\ b = SND_BUF - Volume(q) /\ q = r.unacked \o r.unsent
        /\ i <= SND_QUEUELEN + FinBit(r)
    <3>1. Volume(q) \in Nat
      BY <1>10, Counts
    <3>2. b = SND_BUF - Volume(q)
      BY <1>6, <1>10, <3>1, Constants
    <3>3. i <= SND_QUEUELEN + FinBit(r)
      BY <1>6, <2>1, Constants
    <3> QED
      BY <1>10, <1>13, <1>14, <3>2, <3>3
  <2> HIDE DEF q
  <2> QED
    BY <1>13, <1>14, <2>1, <2>2, Zenon DEF Content, NoFin
<1>18. LastLen(p) \in Nat
  BY ContentFacts, LastLenNat
<1>16. Oversize(r)
  <2> SUFFICES ASSUME o > 0
               PROVE  /\ h # <<>> /\ LastLen(r) > 0 /\ o <= m - LastLen(r)
    BY <1>13, <1>14 DEF Oversize
  <2>1. h # <<>> => LastLen(r) = Len(Last(h).data)
    BY <1>14 DEF LastLen
  <2>2. CASE k # 0
    <3>1. k > 0
      BY <1>2, <2>2
    <3> DEFINE y == x - (k - 1) * m
    <3>2. o <= m - y /\ h # <<>> /\ LastLen(r) = y /\ LastLen(r) >= 1
      BY <1>2, <1>9, <2>1, <2>2, <3>1
    <3> HIDE DEF y
    <3>3. LastLen(r) \in Int
      BY <1>14, <1>10, <3>2 DEF LastLen
    <3> QED
      BY <1>1, <3>2, <3>3
  <2>3. CASE k = 0
    <3>1. p.unsent # <<>> /\ LastLen(p) > 0 /\ o <= m - (LastLen(p) + a) /\ h = v
      BY <1>2, <1>9, <2>3
    <3>2. CASE a = 0
      <4>1. v = p.unsent
        BY <1>8, <3>2 DEF Fuller
      <4>2. h # <<>> /\ LastLen(r) = LastLen(p)
        BY <1>14, <3>1, <4>1 DEF LastLen
      <4> QED
        BY <1>18, <3>1, <3>2, <4>2
    <3>3. CASE a # 0
      <4>1. v # <<>> /\ Len(Last(v).data) = LastLen(p) + a
        BY <1>8, <3>3 DEF Fuller
      <4>2. h # <<>> /\ LastLen(r) = LastLen(p) + a
        BY <2>1, <3>1, <4>1
      <4> QED
        BY <1>3, <1>18, <3>1, <4>2
    <3> QED
      BY <3>2, <3>3
  <2> QED
    BY <2>2, <2>3
<1>17. POK(r, d, off)
  BY <1>6, <1>11, <1>12, <1>15, <1>16, Lengthened
<1> QED
  BY <1>6, <1>14, <1>17 DEF d, f, s

-----------------------------------------------------------------------------
(* The steps                                                               *)

\* The segment of the SYN.
SynSegment == [tcp_create_segment(0, <<>>) EXCEPT !.syn = TRUE]

\* It begins the stream.
LEMMA SynAlone ==
    ASSUME NEW m \in Nat, NEW t, t = SynSegment
    PROVE  /\ t \in Segment /\ SegmentOK(t, m) /\ t.seq = 0 /\ Len(t.data) = 0
           /\ t.clen = 1 /\ EndOf(t) = 1 /\ ~t.fin
<1> DEFINE d == <<>>
<1>0. d \in Seq(Nat) /\ Len(d) = 0 /\ d = <<>>
  OBVIOUS
<1>6. t = [tcp_create_segment(0, d) EXCEPT !.syn = TRUE]
  BY DEF SynSegment
<1> HIDE DEF d
<1>1. t = [seq |-> 0, data |-> d, clen |-> 1, syn |-> TRUE, fin |-> FALSE]
  BY <1>6 DEF tcp_create_segment
<1>2. /\ t \in Segment /\ t.seq = 0 /\ t.data = d /\ t.clen = 1 /\ t.syn = TRUE
      /\ t.fin = FALSE
  BY <1>0, <1>1 DEF Segment
<1>3. TCP_TCPLEN(t) = 1
  BY <1>0, <1>2 DEF TCP_TCPLEN
<1>4. EndOf(t) = 1
  BY <1>2, <1>3 DEF EndOf
<1>5. t.data = Bytes(0, Len(t.data))
  <2> DEFINE n == 0
             b == Bytes(n, n)
  <2>1. n \in Nat /\ n = 0
    OBVIOUS
  <2>4. Len(d) = n
    BY <1>0
  <2> HIDE DEF n
  <2>2. b \in Seq(Nat) /\ Len(b) = n
    BY <2>1, BytesSeq
  <2> HIDE DEF b
  <2>3. b = d
    BY <1>0, <2>1, <2>2, SeqEqual
  <2> QED
    BY <1>2, <2>1, <2>3, <2>4 DEF b
<1>7. SegmentOK(t, m)
  BY <1>0, <1>2, <1>3, <1>5 DEF SegmentOK
<1> QED
  BY <1>0, <1>2, <1>4, <1>7

\* The pcb as the SYN leaves it.
Opening(w) ==
    [state |-> "SYN_RCVD", unsent |-> <<>>, unacked |-> <<SynSegment>>,
     snd_lbb |-> 1, snd_nxt |-> 1, lastack |-> 0, snd_wl2 |-> 0,
     snd_wnd |-> w, snd_wnd_max |-> w, snd_buf |-> SND_BUF,
     snd_queuelen |-> 1, unsent_oversize |-> 0,
     cwnd |-> 1, ssthresh |-> SND_BUF, dupacks |-> 0,
     memerr |-> FALSE, fin |-> FALSE, infr |-> FALSE, rtime |-> TRUE, persist |-> FALSE]

\* The fields of the first pcb, when the SYN offers w.
AtFirst(p, w) ==
    /\ p \in Pcb
    /\ p.state = "SYN_RCVD" /\ p.unsent = <<>> /\ p.unacked = <<SynSegment>>
    /\ p.snd_lbb = 1 /\ p.snd_nxt = 1 /\ p.lastack = 0 /\ p.snd_wl2 = 0
    /\ p.snd_wnd = w /\ p.snd_wnd_max = w /\ p.snd_buf = SND_BUF
    /\ p.snd_queuelen = 1 /\ p.unsent_oversize = 0 /\ p.cwnd = 1
    /\ p.fin = FALSE /\ p.infr = FALSE /\ p.rtime = TRUE

\* The first pcb has them.
LEMMA OpeningFields ==
    ASSUME NEW w \in Nat, NEW p, p = Opening(w)
    PROVE  AtFirst(p, w)
<1> DEFINE u == <<SynSegment>>
           v == <<>>
<1>1. u \in Seq(Segment) /\ v \in Seq(Segment)
  BY SynAlone
<1>2. SND_BUF \in Nat /\ SND_BUF \in Int
  BY Constants
<1>3. p = [state |-> "SYN_RCVD", unsent |-> v, unacked |-> u,
           snd_lbb |-> 1, snd_nxt |-> 1, lastack |-> 0, snd_wl2 |-> 0,
           snd_wnd |-> w, snd_wnd_max |-> w, snd_buf |-> SND_BUF,
           snd_queuelen |-> 1, unsent_oversize |-> 0,
           cwnd |-> 1, ssthresh |-> SND_BUF, dupacks |-> 0,
           memerr |-> FALSE, fin |-> FALSE, infr |-> FALSE, rtime |-> TRUE,
           persist |-> FALSE]
  BY DEF Opening
<1> HIDE DEF u, v
<1>4. p \in Pcb
  BY <1>1, <1>2, <1>3 DEF Pcb
<1>5. /\ p.state = "SYN_RCVD" /\ p.unsent = v /\ p.unacked = u
      /\ p.snd_lbb = 1 /\ p.snd_nxt = 1 /\ p.lastack = 0 /\ p.snd_wl2 = 0
      /\ p.snd_wnd = w /\ p.snd_wnd_max = w /\ p.snd_buf = SND_BUF
      /\ p.snd_queuelen = 1 /\ p.unsent_oversize = 0 /\ p.cwnd = 1
      /\ p.fin = FALSE /\ p.infr = FALSE /\ p.rtime = TRUE
  BY <1>3
<1> QED
  BY <1>4, <1>5 DEF u, v, AtFirst

\* The invariant holds then.
LEMMA OpeningOK ==
    ASSUME NEW w \in Nat, w >= 2, NEW p, p = Opening(w)
    PROVE  Sound(p, 0, 1 + w)
<1> DEFINE u == <<SynSegment>>
           t == SynSegment
           m == MssLocal(p)
<1>1. /\ p \in Pcb
      /\ p.state = "SYN_RCVD" /\ p.unsent = <<>> /\ p.unacked = u
      /\ p.snd_lbb = 1 /\ p.snd_nxt = 1 /\ p.lastack = 0 /\ p.snd_wl2 = 0
      /\ p.snd_wnd = w /\ p.snd_wnd_max = w /\ p.snd_buf = SND_BUF
      /\ p.snd_queuelen = 1 /\ p.unsent_oversize = 0 /\ p.cwnd = 1
      /\ p.fin = FALSE /\ p.infr = FALSE /\ p.rtime = TRUE
  <2>1. AtFirst(p, w)
    BY OpeningFields
  <2> QED
    BY ONLY <2>1 DEF AtFirst
<1>2. m \in Nat
  BY <1>1, MssLocalFacts
<1> HIDE DEF m
<1>3. /\ t \in Segment /\ SegmentOK(t, m) /\ t.seq = 0 /\ Len(t.data) = 0
      /\ t.clen = 1 /\ EndOf(t) = 1 /\ ~t.fin
  BY <1>2, SynAlone
<1>0. u = <<t>>
  OBVIOUS
<1> HIDE DEF t
<1>4. Chain(u, m) /\ u # <<>> /\ Len(u) = 1 /\ u[1] = t /\ u \in Seq(Segment)
  BY <1>0, <1>2, <1>3, ChainOne
<1>5. Pbufs(u) = 1 /\ Volume(u) = 0
  BY <1>0, <1>3, CountsOne
<1> HIDE DEF u
<1>6. p.unacked \o p.unsent = u
  BY <1>1, <1>4, ConcatEmptySeq
<1>7. Covers(u, p.lastack, 1)
  BY <1>1, <1>3, <1>4 DEF Covers
<1>8. Content(p, u, 1)
  <2>1. FinBit(p) = 0
    BY <1>1 DEF FinBit
  <2>2. \A i \in 1..Len(u) : ~u[i].fin
    BY <1>3, <1>4
  <2>3. p.snd_queuelen <= SND_QUEUELEN + FinBit(p)
    BY <1>1, <2>1, Constants
  <2>4. p.snd_buf = SND_BUF - Volume(u) /\ p.snd_buf >= 0
    BY <1>1, <1>5, Constants
  <2> QED
    BY <1>1, <1>4, <1>5, <1>7, <2>2, <2>3, <2>4 DEF Content, m
<1>9. Windowed(p, 1, 1 + w)
  BY <1>1 DEF Windowed
<1>10. Oversize(p)
  BY <1>1 DEF Oversize
<1>11. Flight(p)
  BY <1>1, <1>3, <1>4 DEF Flight
<1>12. POK(p, 1, 1 + w)
  BY <1>1, <1>6, <1>8, <1>9, <1>10, <1>11 DEF POK, Mid
<1>13. 1 + 0 + FinBit(p) = 1
  BY <1>1 DEF FinBit
<1> QED
  BY <1>1, <1>12, <1>13, Constants DEF Sound

\* The invariant after a step that leaves alone what was written.
LEMMA SoundStays ==
    ASSUME NEW p, NEW n, NEW off, Sound(p, n, off), NEW r, NEW d \in Nat,
           POK(r, 1 + n + FinBit(p), d), Lasting(p, r)
    PROVE  Sound(r, n, d)
<1>1. /\ p.fin <=> p.state = "FIN_WAIT_1"
      /\ p.state = "SYN_RCVD" => p.lastack = 0
      /\ ~p.fin => p.snd_lbb = 1 + n
      /\ p.snd_lbb <= StreamLen + 2 /\ n \in 0..StreamLen
  BY DEF Sound
<1>2. r.fin = p.fin /\ r.state = p.state /\ r.snd_lbb = p.snd_lbb /\ r.lastack = p.lastack
  BY DEF Lasting
<1>3. FinBit(r) = FinBit(p)
  BY <1>2, Zenon DEF FinBit
<1> QED
  BY <1>1, <1>2, <1>3, Zenon DEF Sound

\* The end of what was written.
LEMMA SoundEnd ==
    ASSUME NEW p, NEW n, NEW off, Sound(p, n, off), NEW e, e = 1 + n + FinBit(p)
    PROVE  /\ n \in Nat /\ n <= StreamLen /\ off \in Nat /\ e \in Nat /\ e >= 1 /\ POK(p, e, off)
           /\ (p.fin <=> p.state = "FIN_WAIT_1")
           /\ (p.state = "SYN_RCVD" => p.lastack = 0)
           /\ (~p.fin => p.snd_lbb = e /\ e = 1 + n)
           /\ p.snd_lbb <= StreamLen + 2
<1>1. n \in Nat /\ n <= StreamLen /\ off \in Nat
  BY Constants DEF Sound
<1>2. FinBit(p) \in {0, 1} /\ (~p.fin => FinBit(p) = 0)
  BY DEF FinBit
<1>3. e \in Nat /\ e >= 1 /\ (~p.fin => e = 1 + n)
  BY <1>1, <1>2
<1> QED
  BY <1>1, <1>3 DEF Sound

\* The steps that only call tcp_output: the poll timer, the probe and the retransmission.
LEMMA TimersOK ==
    ASSUME IInv, tcp_zero_window_probe \/ Retransmit \/ Poll
    PROVE  IInv'
<1> DEFINE e == 1 + asked + FinBit(pcb)
<1>1. Sound(pcb, asked, offered) /\ offered \in Nat /\ e \in Nat /\ POK(pcb, e, offered)
  BY SoundEnd DEF IInv
<1> SUFFICES ASSUME asked' = asked /\ offered' = offered
             PROVE  POK(pcb', e, offered) /\ Lasting(pcb, pcb')
  <2>1. asked' = asked /\ offered' = offered
    BY DEF tcp_zero_window_probe, Retransmit, Poll
  <2>2. POK(pcb', e, offered) /\ Lasting(pcb, pcb') => Sound(pcb', asked, offered)
    BY <1>1, SoundStays
  <2> QED
    BY <2>1, <2>2 DEF IInv
<1> HIDE DEF e
<1> DEFINE f == FALSE
<1>2. f \in BOOLEAN /\ f = FALSE
  OBVIOUS
<1> HIDE DEF f
<1>3. ASSUME NEW p, POK(p, e, offered), tcp_output(p, f)
      PROVE  POK(pcb', e, offered) /\ Lasting(p, pcb')
  <2>1. Output(p, f, pcb')
    BY <1>3, OutputStep
  <2>2. Ready(p, e, offered, f)
    BY <1>1, <1>2, <1>3, ReadyPOK
  <2> QED
    BY <1>1, <1>2, <2>1, <2>2, ReadyOutput
<1>4. CASE tcp_zero_window_probe
  BY <1>1, <1>4, ProbeOK DEF tcp_zero_window_probe
<1>5. CASE Retransmit
  <2>1. PICK p : /\ p = [tcp_rexmit_rto(pcb) EXCEPT !.ssthresh = Larger(Wnd(pcb) \div 2, 2 * MSS),
                                                    !.cwnd = MSS]
                 /\ tcp_output(p, f)
    BY <1>2, <1>5 DEF Retransmit
  <2>2. POK(p, e, offered) /\ Lasting(pcb, p)
    BY <1>1, <2>1, RexmitOK
  <2>3. POK(pcb', e, offered) /\ Lasting(p, pcb')
    BY <1>3, <2>1, <2>2
  <2> QED
    BY <2>2, <2>3 DEF Lasting
<1>6. CASE Poll
  <2>1. tcp_output(pcb, f)
    BY <1>2, <1>6 DEF Poll
  <2> QED
    BY <1>1, <1>3, <2>1
<1> QED
  BY <1>4, <1>5, <1>6

\* The last segment that is not sent is not longer than mss_local.
LEMMA LastLenMss ==
    ASSUME NEW p, NEW e \in Nat, NEW off \in Nat, POK(p, e, off)
    PROVE  LastLen(p) \in Nat /\ LastLen(p) <= MssLocal(p)
<1>1. /\ p.unsent \in Seq(Segment) /\ MssLocal(p) \in Nat
  BY ContentFacts
<1>2. CASE p.unsent = <<>>
  BY <1>1, <1>2 DEF LastLen
<1>3. CASE p.unsent # <<>>
  <2>1. SegmentOK(Last(p.unsent), MssLocal(p))
    BY <1>3, EndOfUnsent
  <2>2. LastLen(p) = Len(Last(p.unsent).data)
    BY <1>3 DEF LastLen
  <2>3. LastLen(p) \in Nat
    BY <1>1, LastLenNat
  <2> QED
    BY <2>1, <2>2, <2>3 DEF SegmentOK
<1> QED
  BY <1>2, <1>3

\* tcp_output ends a step: it keeps the invariant.
LEMMA OutputEnds ==
    ASSUME NEW p, NEW e \in Nat, NEW off \in Nat, POK(p, e, off),
           NEW f \in BOOLEAN, tcp_output(p, f)
    PROVE  POK(pcb', e, off) /\ Lasting(p, pcb')
<1>1. Output(p, f, pcb')
  BY OutputStep
<1>2. Ready(p, e, off, f)
  BY ReadyPOK
<1> QED
  BY <1>1, <1>2, ReadyOutput

\* The invariant, from its parts.
LEMMA SoundParts ==
    ASSUME NEW r, NEW n \in Nat, n <= StreamLen, NEW d \in Nat,
           r.fin <=> r.state = "FIN_WAIT_1", r.state = "SYN_RCVD" => r.lastack = 0,
           ~r.fin => r.snd_lbb = 1 + n, r.snd_lbb <= StreamLen + 2,
           POK(r, 1 + n + FinBit(r), d)
    PROVE  Sound(r, n, d)
BY Constants DEF Sound

\* A write of n bytes, when no length is cut.
LEMMA WriteOK ==
    ASSUME IInv, NEW n \in Nat, n >= 1, NEW memory \in BOOLEAN,
           pcb.snd_lbb + n <= StreamLen + 1, offered' = offered,
           NEW p, p = tcp_write(pcb, n, memory),
           IF WriteFails(pcb, n, memory)
           THEN pcb' = p /\ asked' = asked
           ELSE tcp_output(p, FALSE) /\ asked' = asked + n
    PROVE  IInv'
<1> DEFINE e == 1 + asked + FinBit(pcb)
<1>1. /\ Sound(pcb, asked, offered) /\ asked \in Nat /\ asked <= StreamLen /\ offered \in Nat
      /\ e \in Nat /\ e >= 1 /\ POK(pcb, e, offered)
      /\ (pcb.fin <=> pcb.state = "FIN_WAIT_1")
      /\ (pcb.state = "SYN_RCVD" => pcb.lastack = 0)
      /\ (~pcb.fin => pcb.snd_lbb = e /\ e = 1 + asked)
  <2>1. Sound(pcb, asked, offered)
    BY DEF IInv
  <2> HIDE DEF e
  <2>2. e = 1 + asked + FinBit(pcb)
    BY DEF e
  <2> QED
    BY <2>1, <2>2, SoundEnd
<1>2. CASE WriteFails(pcb, n, memory)
  <2> DEFINE b == pcb.state # "FIN_WAIT_1" \/ pcb.memerr
  <2>1. pcb' = Noted(pcb, b) /\ asked' = asked
    BY <1>2 DEF tcp_write, Noted
  <2>2. b \in BOOLEAN
    <3>1. pcb \in Pcb
      BY <1>1, ContentFacts
    <3>2. pcb.memerr \in BOOLEAN
      BY <3>1, PcbFacts
    <3> QED
      BY <3>2
  <2> HIDE DEF b, e
  <2>3. POK(pcb', e, offered) /\ Lasting(pcb, pcb')
    BY <1>1, <2>1, <2>2, NotedOK
  <2>4. Sound(pcb', asked, offered)
    <3>1. POK(pcb', 1 + asked + FinBit(pcb), offered)
      BY <2>3 DEF e
    <3> QED
      BY <1>1, <2>3, <3>1, SoundStays
  <2> QED
    BY <2>1, <2>4 DEF IInv
<1>3. CASE ~WriteFails(pcb, n, memory)
  <2> DEFINE w == Split(pcb, n)
             d == e + n
             f == FALSE
  <2>1. p = Queued(pcb, n) /\ tcp_output(p, f) /\ asked' = asked + n
    <3>1. n # 0
      OBVIOUS
    <3>2. p = Queued(pcb, n)
      BY <1>3, <3>1, Zenon DEF tcp_write
    <3>3. tcp_output(p, FALSE) /\ asked' = asked + n
      BY <1>3, Zenon
    <3> QED
      BY <3>2, <3>3
  <2>2. /\ pcb.state \in {"SYN_RCVD", "ESTABLISHED"} /\ n <= pcb.snd_buf
        /\ pcb.snd_queuelen < SND_QUEUELEN
        /\ ~(w.news > 0 /\ pcb.snd_queuelen + (w.news + Chained(w)) > SND_QUEUELEN)
    BY <1>3 DEF WriteFails, tcp_write_checks
  <2>3. ~pcb.fin /\ pcb.snd_lbb = e /\ e = 1 + asked
    BY <1>1, <2>2
  <2>4. /\ pcb \in Pcb /\ MssLocal(pcb) \in Nat /\ MssLocal(pcb) >= 1
        /\ pcb.unsent \in Seq(Segment)
    BY <1>1, ContentFacts
  <2>5. LastLen(pcb) \in Nat /\ LastLen(pcb) <= MssLocal(pcb)
    BY <1>1, LastLenMss
  <2>6. pcb.unsent_oversize \in Nat /\ Oversize(pcb) /\ pcb.snd_queuelen \in Int
    BY <1>1, <2>4, PcbFacts DEF POK, Mid
  <2>11. w = Split(pcb, n)
    OBVIOUS
  <2> HIDE DEF w
  <2>7. Splits(pcb, n, w)
    BY ONLY <2>4, <2>5, <2>6, <2>11, n \in Nat, SplitOK
  <2>8. w.news > 0 => pcb.snd_queuelen + (w.news + Chained(w)) <= SND_QUEUELEN
    <3>1. w.news \in Nat /\ Chained(w) \in Nat
      BY <2>7 DEF Splits, Chained
    <3> QED
      BY <2>2, <2>6, <3>1, Constants
  <2>12. d \in Nat /\ d = e + n /\ f \in BOOLEAN
    BY <1>1
  <2> HIDE DEF d, e, f
  <2>9. POK(p, d, offered) /\ p.fin = pcb.fin /\ p.state = pcb.state /\ p.snd_lbb = d
    BY <1>1, <2>1, <2>2, <2>3, <2>7, <2>8, <2>11, <2>12, QueuedOK
  <2>10. POK(pcb', d, offered) /\ Lasting(p, pcb')
    BY <1>1, <2>1, <2>9, <2>12, OutputEnds
  <2>13. /\ pcb'.fin = pcb.fin /\ pcb'.state = pcb.state /\ pcb'.snd_lbb = d
         /\ pcb'.lastack = p.lastack
    BY <2>9, <2>10 DEF Lasting
  <2>14. p.lastack = pcb.lastack
    BY <2>1, <2>4 DEF Queued, Pcb
  <2>15. FinBit(pcb') = 0
    BY <2>3, <2>13 DEF FinBit
  <2>16. /\ asked' \in Nat /\ asked' <= StreamLen /\ d = 1 + asked' /\ d <= StreamLen + 2
         /\ 1 + asked' + FinBit(pcb') = d
    BY <1>1, <2>1, <2>3, <2>12, <2>15, Constants
  <2>17. Sound(pcb', asked', offered)
    <3>1. POK(pcb', 1 + asked' + FinBit(pcb'), offered)
      BY <2>10, <2>16
    <3>2. /\ (pcb'.fin <=> pcb'.state = "FIN_WAIT_1")
          /\ (pcb'.state = "SYN_RCVD" => pcb'.lastack = 0)
          /\ (~pcb'.fin => pcb'.snd_lbb = 1 + asked') /\ pcb'.snd_lbb <= StreamLen + 2
      BY <1>1, <2>13, <2>14, <2>16
    <3> QED
      BY <1>1, <2>16, <3>1, <3>2, SoundParts
  <2> QED
    BY <2>17 DEF IInv
<1> QED
  BY <1>2, <1>3

\* The steps: tcp_close.
LEMMA CloseOK ==
    ASSUME IInv, close
    PROVE  IInv'
<1> DEFINE e == 1 + asked + FinBit(pcb)
           d == e + 1
           f == FALSE
<1>1. /\ Sound(pcb, asked, offered) /\ asked \in Nat /\ asked <= StreamLen /\ offered \in Nat
      /\ e \in Nat /\ e >= 1 /\ POK(pcb, e, offered)
      /\ (pcb.fin <=> pcb.state = "FIN_WAIT_1")
      /\ (~pcb.fin => pcb.snd_lbb = e /\ e = 1 + asked)
  <2>1. Sound(pcb, asked, offered)
    BY DEF IInv
  <2> HIDE DEF e
  <2>2. e = 1 + asked + FinBit(pcb)
    BY DEF e
  <2> HIDE DEF d
  <2> QED
    BY <2>1, <2>2, SoundEnd
<1>2. PICK p : p = [tcp_send_fin(pcb) EXCEPT !.state = "FIN_WAIT_1"] /\ tcp_output(p, FALSE)
  BY DEF close
<1>3. ~pcb.fin /\ pcb.snd_lbb = e /\ e = 1 + asked /\ asked' = asked /\ offered' = offered
  BY <1>1 DEF close
<1>4. d \in Nat /\ d = e + 1 /\ f \in BOOLEAN /\ f = FALSE
  BY <1>1
<1> HIDE DEF e, d, f
<1>5. /\ POK(p, d, offered) /\ p.fin /\ p.state = "FIN_WAIT_1"
      /\ p.snd_lbb = e \/ p.snd_lbb = d
  <2>1. CASE pcb.unsent # <<>> /\ ~Last(pcb.unsent).syn
    <3>1. /\ e \in Nat /\ offered \in Nat /\ POK(pcb, e, offered) /\ ~pcb.fin
          /\ pcb.unsent # <<>> /\ ~Last(pcb.unsent).syn
          /\ p = [tcp_send_fin(pcb) EXCEPT !.state = "FIN_WAIT_1"]
      BY <1>1, <1>2, <1>3, <2>1
    <3>2. POK(p, e + 1, offered) /\ p.fin /\ p.state = "FIN_WAIT_1" /\ p.snd_lbb = pcb.snd_lbb
      BY ONLY <3>1, CloseOnLast
    <3> QED
      BY <1>3, <1>4, <3>2
  <2>2. CASE ~(pcb.unsent # <<>> /\ ~Last(pcb.unsent).syn)
    BY <1>1, <1>2, <1>3, <1>4, <2>2, CloseAlone
  <2> QED
    BY <2>1, <2>2
<1>6. POK(pcb', d, offered) /\ Lasting(p, pcb')
  BY <1>1, <1>2, <1>4, <1>5, OutputEnds
<1>7. pcb'.fin = p.fin /\ pcb'.state = "FIN_WAIT_1" /\ pcb'.snd_lbb = p.snd_lbb
  BY <1>5, <1>6 DEF Lasting
<1>8. pcb'.fin /\ FinBit(pcb') = 1
  BY <1>5, <1>7 DEF FinBit
<1>9. POK(pcb', 1 + asked + FinBit(pcb'), offered) /\ pcb'.snd_lbb <= StreamLen + 2
  <2>1. 1 + asked + FinBit(pcb') = d /\ e <= StreamLen + 2 /\ d <= StreamLen + 2
    BY <1>1, <1>3, <1>4, <1>8, Constants
  <2> QED
    BY <1>5, <1>6, <1>7, <2>1
<1>10. /\ (pcb'.fin <=> pcb'.state = "FIN_WAIT_1")
       /\ (pcb'.state = "SYN_RCVD" => pcb'.lastack = 0)
       /\ (~pcb'.fin => pcb'.snd_lbb = 1 + asked)
  BY <1>7, <1>8
<1>11. Sound(pcb', asked, offered)
  BY <1>1, <1>9, <1>10, SoundParts
<1> QED
  BY <1>3, <1>11 DEF IInv

\* A segment of the peer, that does not take back a part of the window.
LEMMA SegmentsStep ==
    ASSUME Regular, IInv, Segments
    PROVE  IInv'
<1> DEFINE e == 1 + asked + FinBit(pcb)
<1>1. /\ Sound(pcb, asked, offered) /\ asked \in Nat /\ asked <= StreamLen /\ offered \in Nat
      /\ e \in Nat /\ POK(pcb, e, offered)
      /\ (pcb.fin <=> pcb.state = "FIN_WAIT_1")
      /\ (pcb.state = "SYN_RCVD" => pcb.lastack = 0)
      /\ (~pcb.fin => pcb.snd_lbb = e /\ e = 1 + asked) /\ pcb.snd_lbb <= StreamLen + 2
  <2>1. Sound(pcb, asked, offered)
    BY DEF IInv
  <2> HIDE DEF e
  <2>2. e = 1 + asked + FinBit(pcb)
    BY DEF e
  <2> QED
    BY <2>1, <2>2, SoundEnd
<1>2. PICK ackno \in {pcb.lastack - 1} \cup pcb.lastack..pcb.snd_nxt, wnd \in Windows,
           newer \in BOOLEAN, text \in BOOLEAN, ack \in BOOLEAN :
         ackno >= 0 /\ tcp_input(ackno, wnd, newer, text, ack)
  BY Zenon DEF Segments
<1>3. pcb \in Pcb /\ pcb.lastack \in Nat /\ pcb.snd_nxt \in Nat
  BY <1>1, ContentFacts, PcbFacts
<1>4. ackno \in Nat /\ (pcb.lastack < ackno => ackno <= pcb.snd_nxt) /\ wnd \in Nat
  <2>1. ackno \in Int
    BY <1>3
  <2>2. pcb.lastack < ackno => ackno <= pcb.snd_nxt
    BY <1>3
  <2> QED
    BY <1>2, <2>1, <2>2, Constants
<1>5. Segmental(pcb, offered, ackno, wnd, newer, text, ack)
  BY <1>2 DEF tcp_input, Segmental, Regular
<1>6. PICK x : x = WindowUpdate(pcb, ackno, wnd, newer)
               /\ \E r \in {Established(pcb, Acknowledge(pcb, x, ackno, text))} :
                      tcp_output(r, ack)
  BY <1>2 DEF tcp_input
<1>7. PICK r : r = Established(pcb, Acknowledge(pcb, x, ackno, text)) /\ tcp_output(r, ack)
  BY <1>6
<1> DEFINE d == Larger(offered, ackno + wnd)
<1>8. offered' = d /\ asked' = asked
  BY <1>2 DEF tcp_input
<1>9. d \in Nat
  BY <1>1, <1>4 DEF Larger
<1> HIDE DEF e
<1>10. /\ Ready(r, e, d, ack) /\ r.fin = pcb.fin /\ r.snd_lbb = pcb.snd_lbb
       /\ r.state = IF pcb.state = "SYN_RCVD" THEN "ESTABLISHED" ELSE pcb.state
  BY <1>1, <1>4, <1>5, <1>6, <1>7, InputOK
<1> HIDE DEF d
<1>11. Output(r, ack, pcb')
  BY <1>7, OutputStep
<1>12. POK(pcb', e, d) /\ Lasting(r, pcb')
  BY <1>1, <1>9, <1>10, <1>11, ReadyOutput
<1>13. /\ pcb'.fin = pcb.fin /\ pcb'.snd_lbb = pcb.snd_lbb
       /\ pcb'.state = IF pcb.state = "SYN_RCVD" THEN "ESTABLISHED" ELSE pcb.state
  BY <1>10, <1>12, Zenon DEF Lasting
<1>14. POK(pcb', 1 + asked + FinBit(pcb'), d)
  <2>1. FinBit(pcb') = FinBit(pcb)
    BY <1>13, Zenon DEF FinBit
  <2> QED
    BY <1>12, <2>1, Zenon DEF e
<1>15. /\ (pcb'.fin <=> pcb'.state = "FIN_WAIT_1")
       /\ (pcb'.state = "SYN_RCVD" => pcb'.lastack = 0)
       /\ (~pcb'.fin => pcb'.snd_lbb = 1 + asked) /\ pcb'.snd_lbb <= StreamLen + 2
  <2>1. pcb'.state # "SYN_RCVD"
    BY <1>13
  <2>2. pcb'.state = "FIN_WAIT_1" <=> pcb.state = "FIN_WAIT_1"
    BY <1>13
  <2> QED
    BY <1>1, <1>13, <2>1, <2>2
<1>16. Sound(pcb', asked, d)
  BY <1>1, <1>9, <1>14, <1>15, SoundParts
<1> QED
  BY <1>8, <1>16 DEF IInv

\* A write, when no length is cut.
LEMMA WriteStep ==
    ASSUME Regular, IInv, write
    PROVE  IInv'
<1>1. PICK length \in Lengths, memory \in BOOLEAN :
         /\ pcb.snd_lbb + length <= StreamLen + 1
         /\ \E p \in {tcp_write(pcb, length % U16, memory)} :
               IF WriteFails(pcb, length % U16, memory)
               THEN pcb' = p /\ asked' = asked
               ELSE tcp_output(p, FALSE) /\ asked' = asked + length
  BY Zenon DEF write
<1>2. length \in Nat /\ length >= 1 /\ length < U16 /\ U16 \in Nat /\ offered' = offered
  BY Constants DEF Regular, write
<1>3. length % U16 = length
  BY <1>2
<1>4. PICK p : /\ p = tcp_write(pcb, length, memory)
               /\ IF WriteFails(pcb, length, memory)
                  THEN pcb' = p /\ asked' = asked
                  ELSE tcp_output(p, FALSE) /\ asked' = asked + length
  BY <1>1, <1>3, Zenon
<1> QED
  BY <1>1, <1>2, <1>4, WriteOK

\* The steps keep the invariant.
LEMMA NextOK ==
    ASSUME Regular, IInv, [Next]_vars
    PROVE  IInv'
<1>1. CASE write
  BY <1>1, WriteStep
<1>2. CASE close
  BY <1>2, CloseOK
<1>3. CASE Segments
  BY <1>3, SegmentsStep
<1>4. CASE tcp_zero_window_probe \/ Retransmit \/ Poll
  BY <1>4, TimersOK
<1>5. CASE UNCHANGED vars
  BY <1>5 DEF vars, IInv
<1> QED
  BY <1>1, <1>2, <1>3, <1>4, <1>5 DEF Next

\* The first state has it.
LEMMA InitOK ==
    ASSUME Regular, Init
    PROVE  IInv
<1>1. PICK w \in SynWindows : pcb = Opening(w) /\ asked = 0 /\ offered = 1 + w
  BY DEF Init, Opening, SynSegment
<1>2. w \in Nat /\ w >= 2
  BY Constants DEF Regular
<1>3. Sound(pcb, 0, 1 + w)
  BY <1>1, <1>2, OpeningOK
<1> QED
  BY <1>1, <1>3 DEF IInv

\* The invariant of the sender, on which the theorems rest: the queues are a chain of
\* segments that covers what is not acknowledged, the accounts follow, and the windows and
\* the timers are as tcp_output leaves them.
THEOREM InvariantHolds ==
    ASSUME Regular
    PROVE  Spec => []IInv
<1>1. Init => IInv
  BY InitOK
<1>2. IInv /\ [Next]_vars => IInv'
  BY NextOK
<1> QED
  BY <1>1, <1>2, PTL DEF Spec


-----------------------------------------------------------------------------
(* The properties                                                          *)

\* The accounts of the queues follow from the invariant.
LEMMA AccountingFollows ==
    ASSUME IInv
    PROVE  SendAccounting
<1> DEFINE e == 1 + asked + FinBit(pcb)
<1>1. e \in Nat /\ offered \in Nat /\ POK(pcb, e, offered)
  BY SoundEnd DEF IInv
<1> HIDE DEF e
<1> QED
  BY <1>1, ContentFacts DEF SendAccounting

\* So does what was written.
LEMMA StreamFollows ==
    ASSUME IInv
    PROVE  StreamKept
<1> DEFINE e == 1 + asked + FinBit(pcb)
           u == pcb.unacked
           v == pcb.unsent
           x == u \o v
           m == MssLocal(pcb)
<1>1. e \in Nat /\ offered \in Nat /\ POK(pcb, e, offered)
  BY SoundEnd DEF IInv
<1>2. e = 1 + asked + (IF pcb.fin THEN 1 ELSE 0)
  BY DEF FinBit
<1> HIDE DEF e
<1>3. /\ u \in Seq(Segment) /\ v \in Seq(Segment) /\ x \in Seq(Segment) /\ m \in Nat
      /\ Chain(x, m) /\ Covers(x, pcb.lastack, e) /\ pcb.lastack \in Nat
  BY <1>1, ContentFacts
<1> HIDE DEF m
<1>4. Merged(pcb) = x
  <2>1. Sorted(u \o v)
    BY <1>3, ChainOrder
  <2>2. InsertAll(u, v) = u \o v
    BY <1>3, <2>1, InsertAllAppends
  <2> QED
    BY <2>2 DEF Merged
<1> HIDE DEF x
<1>5. \A i \in DOMAIN x : x[i].data = Bytes(x[i].seq, Len(x[i].data))
  <2>1. DOMAIN x = 1..Len(x)
    BY <1>3
  <2> QED
    BY <1>3, <2>1 DEF Chain, SegmentOK
<1>6. \A i \in 2..Len(x) : x[i].seq = x[i - 1].seq + TCP_TCPLEN(x[i - 1])
  BY <1>3 DEF Chain, EndOf
<1>7. Last(x) = x[Len(x)]
  BY DEF Last
<1>8. /\ x = <<>> => pcb.lastack = e
      /\ x # <<>> => /\ x[1].seq <= pcb.lastack
                     /\ pcb.lastack < x[1].seq + TCP_TCPLEN(x[1])
                     /\ Last(x).seq + TCP_TCPLEN(Last(x)) = e
  BY <1>3, <1>7 DEF Covers, EndOf
<1> QED
  BY <1>2, <1>4, <1>5, <1>6, <1>8 DEF StreamKept

\* The numbers are within the stream, and snd_nxt is not past its end.
LEMMA NumbersBelow ==
    ASSUME NEW p, NEW e \in Nat, NEW off \in Nat, POK(p, e, off)
    PROVE  p.lastack <= e /\ p.snd_wl2 = p.lastack /\ p.snd_nxt <= e /\ p.snd_nxt <= off + 1
           /\ p.snd_wnd <= p.snd_wnd_max
<1> DEFINE q == p.unacked \o p.unsent
           m == MssLocal(p)
<1>1. q \in Seq(Segment) /\ m \in Nat /\ Chain(q, m) /\ Covers(q, p.lastack, e) /\ p.lastack \in Nat
  BY ContentFacts
<1>2. Windowed(p, e, off) /\ p.snd_wl2 = p.lastack
  BY DEF POK, Mid
<1> HIDE DEF q, m
<1>3. ASSUME q = <<>> PROVE p.lastack <= e
  BY <1>1, <1>3 DEF Covers
<1>4. ASSUME q # <<>> PROVE p.lastack <= e
  <2>1. 1 \in 1..Len(q)
    BY <1>1, <1>4, EmptySeq, LenProperties
  <2>2. EndOf(q[1]) \in Nat /\ EndOf(q[1]) <= e
    BY <1>1, <2>1, CoversBelow
  <2> QED
    BY <1>1, <1>4, <2>2 DEF Covers
<1>5. p.lastack <= e
  BY <1>1, <1>3, <1>4
<1> QED
  BY <1>2, <1>5 DEF Windowed

\* No pbuf is counted when nothing is queued, and only then.
LEMMA NothingQueued ==
    ASSUME NEW m \in Nat, NEW u \in Seq(Segment), NEW v \in Seq(Segment), Chain(u \o v, m)
    PROVE  Pbufs(u \o v) # 0 <=> v \o u # <<>>
<1> DEFINE q == u \o v
<1>1. q \in Seq(Segment) /\ Len(q) = Len(u) + Len(v) /\ Len(u) \in Nat /\ Len(v) \in Nat
  BY ConcatProperties, LenProperties
<1>2. v \o u \in Seq(Segment) /\ Len(v \o u) = Len(v) + Len(u)
  BY ConcatProperties
<1> HIDE DEF q
<1>3. Chain(q, m)
  BY DEF q
<1>4. Pbufs(q) = 0 <=> q = <<>>
  BY <1>3, CountsChain
<1>5. (Len(q) = 0 <=> q = <<>>) /\ (Len(v \o u) = 0 <=> v \o u = <<>>)
  BY <1>1, <1>2, EmptySeq
<1>6. Pbufs(q) # 0 <=> v \o u # <<>>
  BY ONLY <1>1, <1>2, <1>4, <1>5
<1> QED
  BY <1>6 DEF q

\* The assertions of tcp_write.
LEMMA AssertionsFollow ==
    ASSUME NEW p, NEW e \in Nat, NEW off \in Nat, POK(p, e, off)
    PROVE  /\ LastLen(p) <= MssLocal(p)
           /\ p.unsent_oversize \in Nat /\ p.unsent_oversize <= MssLocal(p) - LastLen(p)
           /\ p.unsent_oversize <= MSS
           /\ p.unsent = <<>> => p.unsent_oversize = 0
           /\ p.snd_queuelen # 0 <=> p.unsent \o p.unacked # <<>>
<1> DEFINE u == p.unacked
           v == p.unsent
<1>1. /\ p \in Pcb /\ MssLocal(p) \in Nat /\ MssLocal(p) <= MSS
      /\ u \in Seq(Segment) /\ v \in Seq(Segment) /\ u \o v \in Seq(Segment)
      /\ Chain(u \o v, MssLocal(p)) /\ p.snd_queuelen = Pbufs(u \o v)
  BY ContentFacts
<1>2. p.unsent_oversize \in Nat
  BY <1>1, PcbFacts
<1>3. LastLen(p) \in Nat /\ LastLen(p) <= MssLocal(p)
  BY LastLenMss
<1>4. Oversize(p)
  BY DEF POK, Mid
<1>5. p.unsent_oversize <= MssLocal(p) - LastLen(p)
  BY <1>1, <1>2, <1>3, <1>4 DEF Oversize
<1>6. p.unsent = <<>> => p.unsent_oversize = 0
  BY <1>2, <1>4 DEF Oversize
<1>7. p.snd_queuelen # 0 <=> v \o u # <<>>
  <2>1. Pbufs(u \o v) # 0 <=> v \o u # <<>>
    BY <1>1, NothingQueued
  <2> QED
    BY <1>1, <2>1
<1>8. p.unsent_oversize <= MSS
  BY <1>1, <1>2, <1>3, <1>5, Constants
<1> QED
  BY <1>2, <1>3, <1>5, <1>6, <1>7, <1>8

\* The types and the assertions follow from the invariant.
LEMMA QueuesFollow ==
    ASSUME IInv
    PROVE  QueuesSound
<1> DEFINE e == 1 + asked + FinBit(pcb)
           q == pcb.unacked \o pcb.unsent
<1>1. /\ e \in Nat /\ offered \in Nat /\ POK(pcb, e, offered) /\ asked \in Nat
      /\ asked <= StreamLen /\ pcb.snd_lbb <= StreamLen + 2
  BY SoundEnd DEF IInv
<1>2. FinBit(pcb) \in {0, 1}
  BY DEF FinBit
<1>3. e <= StreamLen + 2
  BY <1>1, <1>2, Constants
<1> HIDE DEF e
<1>4. /\ pcb \in Pcb /\ Pbufs(q) \in Nat /\ Volume(q) \in Nat
      /\ pcb.snd_queuelen = Pbufs(q) /\ pcb.snd_queuelen <= SND_QUEUELEN + FinBit(pcb)
      /\ pcb.snd_buf = SND_BUF - Volume(q) /\ pcb.snd_buf >= 0
  BY <1>1, ContentFacts
<1> HIDE DEF q
<1>5. pcb.snd_buf \in 0..SND_BUF /\ pcb.snd_queuelen \in 0..(SND_QUEUELEN + 1)
  BY <1>2, <1>4, Constants
<1>6. /\ LastLen(pcb) <= MssLocal(pcb)
      /\ pcb.unsent_oversize \in Nat /\ pcb.unsent_oversize <= MssLocal(pcb) - LastLen(pcb)
      /\ pcb.unsent_oversize <= MSS
      /\ pcb.unsent = <<>> => pcb.unsent_oversize = 0
      /\ pcb.snd_queuelen # 0 <=> pcb.unsent \o pcb.unacked # <<>>
  BY <1>1, AssertionsFollow
<1>7. /\ pcb.lastack <= e /\ pcb.snd_wl2 = pcb.lastack /\ pcb.snd_nxt <= e
      /\ pcb.snd_wnd <= pcb.snd_wnd_max
  BY <1>1, NumbersBelow
<1>8. /\ pcb.snd_lbb \in 0..(StreamLen + 2) /\ pcb.snd_nxt \in 0..(StreamLen + 2)
      /\ pcb.lastack \in 0..(StreamLen + 2) /\ pcb.snd_wl2 \in 0..(StreamLen + 2)
      /\ pcb.unsent_oversize \in 0..MSS
  <2>1. /\ pcb.snd_lbb \in Nat /\ pcb.snd_nxt \in Nat /\ pcb.lastack \in Nat
    BY <1>4, PcbFacts
  <2> QED
    BY <1>1, <1>3, <1>6, <1>7, <2>1, Constants
<1>9. TypeOK
  BY <1>4, <1>5, <1>7, <1>8, PcbFacts DEF TypeOK
<1>10. AssertionsHold
  BY <1>6 DEF AssertionsHold
<1> QED
  BY <1>9, <1>10 DEF QueuesSound

\* The first segment that is not sent fits into cwnd, when nothing is in flight.
LEMMA HeadInCwnd ==
    ASSUME NEW p, NEW e \in Nat, NEW off \in Nat, POK(p, e, off),
           p.unacked = <<>>, p.unsent # <<>>
    PROVE  LET s == p.unsent[1]
           IN  /\ Head(p.unsent) = s
               /\ s.seq - p.lastack + Len(s.data) <= p.cwnd
               /\ p.snd_wnd = 0 /\ ~Fits(p, s) => p.persist
               /\ p.lastack \in Nat /\ s.seq \in Nat /\ s.seq <= p.lastack /\ Len(s.data) \in Nat
<1> DEFINE v == p.unsent
           s == v[1]
           m == MssLocal(p)
<1>1. /\ p \in Pcb /\ m \in Nat /\ m <= MSS /\ v \in Seq(Segment)
      /\ Chain(p.unacked \o v, m) /\ Covers(p.unacked \o v, p.lastack, e) /\ p.lastack \in Nat
  BY ContentFacts
<1>2. p.unacked \o v = v
  BY <1>1, ConcatEmptySeq
<1>3. Chain(v, m) /\ Covers(v, p.lastack, e)
  BY <1>1, <1>2
<1>4. Windowed(p, e, off)
  BY DEF POK, Mid
<1>5. Len(v) \in Nat /\ 1 \in 1..Len(v)
  BY <1>1, EmptySeq, LenProperties
<1> HIDE DEF m
<1>6. Head(v) = s
  BY <1>1, <1>5
<1> HIDE DEF v
<1>7. /\ SegmentOK(s, m) /\ s.seq \in Nat /\ Len(s.data) \in 0..m
      /\ s.seq <= p.lastack
  BY <1>1, <1>3, <1>5, ChainFacts DEF Covers, v
<1> HIDE DEF s
<1>8. p.cwnd \in Nat /\ p.cwnd >= 1 /\ (p.lastack > 0 => p.cwnd >= MSS)
      /\ p.snd_wnd \in Nat /\ (p.lastack > 0 /\ p.snd_wnd = 0 => p.persist)
  BY <1>1, <1>4, PcbFacts DEF Windowed
<1>9. s.seq = 0 => Len(s.data) = 0
  BY <1>7 DEF SegmentOK
<1>10. Len(s.data) \in Nat /\ s.seq - p.lastack + Len(s.data) <= p.cwnd
  <2> DEFINE d == Len(s.data)
             b == s.seq
  <2>1. /\ d \in Nat /\ b \in Nat /\ b <= p.lastack /\ p.lastack \in Nat /\ p.cwnd \in Nat
        /\ d <= MSS /\ MSS \in Nat /\ (b = 0 => d = 0) /\ (p.lastack > 0 => p.cwnd >= MSS)
    BY <1>1, <1>7, <1>8, <1>9, Constants
  <2> HIDE DEF d, b
  <2>2. d \in Nat /\ b - p.lastack + d <= p.cwnd
    BY ONLY <2>1
  <2> QED
    BY <2>2 DEF d, b
<1>11. ASSUME p.snd_wnd = 0, ~Fits(p, s)
       PROVE  p.persist
  <2>1. Wnd(p) \in Nat
    BY <1>1, WndFacts
  <2>2. ~(s.seq - p.lastack + Len(s.data) <= Wnd(p))
    BY <1>11 DEF Fits
  <2>3. p.lastack > 0
    BY ONLY <1>1, <1>7, <1>9, <1>10, <2>1, <2>2
  <2> QED
    BY <1>8, <1>11, <2>3
<1> QED
  BY <1>1, <1>6, <1>7, <1>10, <1>11 DEF s, v

\* The windows and the timers are obeyed.
LEMMA WindowFollows ==
    ASSUME IInv
    PROVE  WindowObeyed
<1> DEFINE e == 1 + asked + FinBit(pcb)
<1>1. e \in Nat /\ offered \in Nat /\ POK(pcb, e, offered)
  BY SoundEnd DEF IInv
<1> HIDE DEF e
<1>2. WithinOffer
  BY <1>1, NumbersBelow DEF WithinOffer
<1>3. pcb \in Pcb /\ pcb.unacked \in Seq(Segment) /\ pcb.unsent \in Seq(Segment)
  BY <1>1, ContentFacts
<1>4. CASE pcb.unacked # <<>>
  <2>1. pcb.rtime
    BY <1>1, <1>4 DEF POK, Mid, Flight
  <2> QED
    BY <1>2, <1>4, <2>1 DEF WindowObeyed, NeverStuck
<1>5. CASE pcb.unacked = <<>>
  <2> SUFFICES ASSUME pcb.unsent # <<>>, ~pcb.persist
               PROVE  Persists(pcb) \/ Sent(pcb) > 0
    <3>1. pcb.unacked \o pcb.unsent = pcb.unsent
      BY <1>3, <1>5, ConcatEmptySeq
    <3> QED
      BY <1>2, <3>1 DEF WindowObeyed, NeverStuck
  <2> DEFINE s == pcb.unsent[1]
  <2>1. /\ Head(pcb.unsent) = s
        /\ s.seq - pcb.lastack + Len(s.data) <= pcb.cwnd
        /\ (pcb.snd_wnd = 0 /\ ~Fits(pcb, s) => pcb.persist)
        /\ pcb.lastack \in Nat /\ s.seq \in Nat /\ s.seq <= pcb.lastack /\ Len(s.data) \in Nat
    BY <1>1, <1>5, HeadInCwnd
  <2>2. CASE Fits(pcb, s)
    <3>1. Sent(pcb) >= 1 /\ Sent(pcb) \in 0..Len(pcb.unsent)
      BY <1>3, <1>5, <2>2, SentFacts
    <3>2. Len(pcb.unsent) \in Nat
      BY <1>3, LenProperties
    <3> QED
      BY ONLY <3>1, <3>2
  <2>3. CASE ~Fits(pcb, s)
    <3>1. /\ Wnd(pcb) \in Nat /\ pcb.snd_wnd \in Nat /\ pcb.cwnd \in Nat
          /\ (Wnd(pcb) = pcb.snd_wnd \/ Wnd(pcb) = pcb.cwnd)
      BY <1>3, WndFacts, PcbFacts
    <3>2. ~(s.seq - pcb.lastack + Len(s.data) <= Wnd(pcb))
      BY <2>3 DEF Fits
    <3>3. Wnd(pcb) = pcb.snd_wnd
      BY ONLY <2>1, <3>1, <3>2
    <3>4. pcb.snd_wnd # 0
      BY <2>1, <2>3
    <3>5. Wnd(pcb) > 0
      BY ONLY <3>1, <3>3, <3>4
    <3> QED
      BY <1>5, <2>1, <2>3, <3>3, <3>5 DEF Persists
  <2> QED
    BY <2>2, <2>3
<1> QED
  BY <1>4, <1>5

\* What is written and not acknowledged is queued once, in order and with the right bytes,
\* however tcp_write, tcp_output, the retransmissions, partial acknowledgements and the FIN
\* divide it into segments.
THEOREM StreamIsKept ==
    ASSUME Regular
    PROVE  Spec => []StreamKept
<1>1. IInv => StreamKept
  BY StreamFollows
<1> QED
  BY <1>1, InvariantHolds, PTL

\* snd_buf and snd_queuelen, by which tcp_write refuses, agree with the queues.
THEOREM SendingIsCounted ==
    ASSUME Regular
    PROVE  Spec => []SendAccounting
<1>1. IInv => SendAccounting
  BY AccountingFollows
<1> QED
  BY <1>1, InvariantHolds, PTL

\* The fields of the pcb stay in their ranges, and the assertions of tcp_write hold.
THEOREM QueuesAreSound ==
    ASSUME Regular
    PROVE  Spec => []QueuesSound
<1>1. IInv => QueuesSound
  BY QueuesFollow
<1> QED
  BY <1>1, InvariantHolds, PTL

\* tcp_output sends nothing behind the window the peer offered, but for the number of a
\* FIN or a probe, and what is queued has a timer or is sent by the next poll.
THEOREM WindowIsObeyed ==
    ASSUME Regular
    PROVE  Spec => []WindowObeyed
<1>1. IInv => WindowObeyed
  BY WindowFollows
<1> QED
  BY <1>1, InvariantHolds, PTL
=============================================================================
