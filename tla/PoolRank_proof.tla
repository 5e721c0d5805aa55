---------------------------- MODULE PoolRank_proof ----------------------------
(***************************************************************************)
(* Theorems about PoolRank: for all sets of resolvers and lists of them,   *)
(* all latencies, any depth of the histories and any number of tests.      *)
(***************************************************************************)
EXTENDS PoolRank, SequenceTheorems, WellFoundedInduction, TLAPS

-----------------------------------------------------------------------------
(* Induction and recursion on numbers.  Both follow from the library's     *)
(* theorem that < is well-founded, with sets in the place of predicates.   *)

LEMMA NotLessIsLeast ==
    ASSUME NEW T, T \subseteq Nat, NEW R, NEW x \in T, \A y \in T : <<y, x>> \notin R,
           \A a, b \in Nat : <<b, a>> \in R <=> b < a
    PROVE  \E n \in T : \A m \in T : n <= m
<1>1. \A m \in T : x <= m
  <2>1. TAKE m \in T
  <2>2. ~ (m < x)
        OBVIOUS
  <2>. QED  BY <2>2
<1>. QED  BY <1>1

LEMMA LeastNumber ==
    ASSUME NEW T, T \subseteq Nat, T # {}
    PROVE  \E n \in T : \A m \in T : n <= m
<1> DEFINE R == OpToRel(<, Nat)
<1>1. IsWellFoundedOn(R, Nat)
      BY NatLessThanWellFounded
<1>2. \A a, b \in Nat : <<b, a>> \in R <=> b < a
      BY DEF OpToRel
<1> HIDE DEF R
<1>3. \E x \in T : \A y \in T : <<y, x>> \notin R
      BY <1>1, WFMin, Zenon
<1>. QED  BY <1>2, <1>3, NotLessIsLeast, Zenon

(* What holds of 0, and of a number when of the one before, holds up to N. *)
LEMMA InductionTo ==
    ASSUME NEW N \in Nat, NEW T, 0 \in T, \A n \in 1 .. N : n - 1 \in T => n \in T
    PROVE  \A n \in 0 .. N : n \in T
<1> DEFINE U == {n \in 0 .. N : n \notin T}
<1>1. SUFFICES ASSUME U # {} PROVE FALSE
      OBVIOUS
<1>2. PICK n \in U : \A m \in U : n <= m
  <2>1. U \subseteq Nat
        OBVIOUS
  <2> HIDE DEF U
  <2>. QED  BY <1>1, <2>1, LeastNumber, Zenon
<1>3. n \in 1 .. N /\ n \notin T
      OBVIOUS
<1>4. n - 1 \in 0 .. N /\ ~ (n <= n - 1)
      BY <1>3
<1>5. n - 1 \in T
      BY <1>2, <1>4
<1>. QED  BY <1>3, <1>5

(* A function on 0 .. n whose value at 0 is a, and at k what step makes of *)
(* its value before.                                                       *)
Recursive(g, n, S, a, step) ==
    /\ g \in [0 .. n -> S] /\ g[0] = a
    /\ \A k \in 1 .. n : g[k] = step[k][g[k - 1]]

LEMMA RecursionExists ==
    ASSUME NEW S, NEW a \in S, NEW N \in Nat, NEW step \in [1 .. N -> [S -> S]]
    PROVE  \E g : Recursive(g, N, S, a, step)
<1> DEFINE T == {n \in 0 .. N : \E g : Recursive(g, n, S, a, step)}
<1>1. 0 \in T
  <2> DEFINE g == [k \in 0 .. 0 |-> a]
  <2>1. Recursive(g, 0, S, a, step)
        BY DEF Recursive
  <2>. QED  BY <2>1
<1>2. ASSUME NEW n \in 1 .. N, n - 1 \in T
      PROVE  n \in T
  <2>1. PICK f : Recursive(f, n - 1, S, a, step)
        BY <1>2
  <2> DEFINE g == [k \in 0 .. n |-> IF k = n THEN step[n][f[n - 1]] ELSE f[k]]
  <2>2. f[n - 1] \in S /\ step[n][f[n - 1]] \in S
        BY <2>1 DEF Recursive
  <2>3. g \in [0 .. n -> S] /\ g[0] = a
        BY <2>1, <2>2 DEF Recursive
  <2>4. ASSUME NEW k \in 1 .. n
        PROVE  g[k] = step[k][g[k - 1]]
    <3>1. CASE k = n
          BY <3>1
    <3>2. CASE k # n
      <4>1. k \in 1 .. n - 1 /\ k - 1 \in 0 .. n - 1 /\ k - 1 # n
            BY <3>2
      <4>2. f[k] = step[k][f[k - 1]]
            BY <2>1, <4>1 DEF Recursive
      <4>. QED  BY <3>2, <4>1, <4>2
    <3>. QED  BY <3>1, <3>2
  <2>5. Recursive(g, n, S, a, step)
        BY <2>3, <2>4 DEF Recursive
  <2>. QED  BY <2>5
<1>3. N \in T
  <2> HIDE DEF T
  <2>1. \A n \in 0 .. N : n \in T
        BY <1>1, <1>2, InductionTo
  <2>. QED  BY <2>1
<1>. QED  BY <1>3

(* A function of integers on an interval has a largest value.              *)
LEMMA Largest ==
    ASSUME NEW m \in Int, NEW n \in Int, m <= n, NEW f, \A i \in m .. n : f[i] \in Int
    PROVE  \E d \in m .. n : \A i \in m .. n : f[d] >= f[i]
<1> DEFINE T == {k \in 0 .. n - m : \E d \in m .. m + k : \A i \in m .. m + k : f[d] >= f[i]}
<1>1. 0 \in T
      OBVIOUS
<1>2. ASSUME NEW k \in 1 .. n - m, k - 1 \in T
      PROVE  k \in T
  <2>1. PICK d \in m .. m + (k - 1) : \A i \in m .. m + (k - 1) : f[d] >= f[i]
        BY <1>2
  <2>2. \A i \in m .. m + k : i = m + k \/ i \in m .. m + (k - 1)
        OBVIOUS
  <2>3. f[d] \in Int /\ f[m + k] \in Int
        OBVIOUS
  <2>4. CASE f[d] >= f[m + k]
    <3>1. \A i \in m .. m + k : f[d] >= f[i]
          BY <2>1, <2>2, <2>4
    <3>. QED  BY <3>1
  <2>5. CASE f[m + k] >= f[d]
    <3>1. \A i \in m .. m + k : f[m + k] >= f[i]
          BY <2>1, <2>2, <2>3, <2>5
    <3>2. m + k \in m .. m + k
          OBVIOUS
    <3>. QED  BY <3>1, <3>2
  <2>. QED  BY <2>3, <2>4, <2>5
<1>3. n - m \in T
  <2> HIDE DEF T
  <2>1. n - m \in Nat
        OBVIOUS
  <2>2. \A k \in 0 .. n - m : k \in T
        BY <1>1, <1>2, <2>1, InductionTo
  <2>. QED  BY <2>1, <2>2
<1>4. m + (n - m) = n
      OBVIOUS
<1>. QED  BY <1>3, <1>4

-----------------------------------------------------------------------------
(* The average of a history is a number. *)

LEMMA LatencyIsNumber ==
    ASSUME NEW q \in Seq(Query), NEW n \in 1 .. Len(q)
    PROVE  q[n].latency \in Nat
<1>1. q[n] \in Query
      BY ElementOfSeq
<1>2. Latencies \cup {0} \subseteq Nat
      BY RankAssumption
<1>. QED  BY <1>1, <1>2, Zenon DEF Query

LEMMA TotalEquation ==
    ASSUME NEW q \in Seq(Query)
    PROVE  totalLatency(q) =
               [n \in 0 .. Len(q) |-> IF n = 0 THEN 0
                                      ELSE totalLatency(q)[n - 1] + q[n].latency]
<1> DEFINE Total(f) == [n \in 0 .. Len(q) |-> IF n = 0 THEN 0 ELSE f[n - 1] + q[n].latency]
           step == [n \in 1 .. Len(q) |-> [x \in Int |-> x + q[n].latency]]
<1>1. step \in [1 .. Len(q) -> [Int -> Int]]
  <2>1. \A n \in 1 .. Len(q) : q[n].latency \in Int
        BY LatencyIsNumber
  <2>. QED  BY <2>1
<1>2. \A n \in 1 .. Len(q), x \in Int : step[n][x] = x + q[n].latency
      OBVIOUS
<1> HIDE DEF step
<1>3. PICK f : Recursive(f, Len(q), Int, 0, step)
  <2>1. Len(q) \in Nat /\ 0 \in Int
        OBVIOUS
  <2>. QED  BY <1>1, <2>1, RecursionExists
<1>4. \A n \in 1 .. Len(q) : f[n] = f[n - 1] + q[n].latency
      BY <1>2, <1>3 DEF Recursive
<1>5. f = Total(f)
      BY <1>3, <1>4 DEF Recursive
<1>6. totalLatency(q) = CHOOSE g : g = Total(g)
      BY DEF totalLatency
<1> HIDE DEF Total
<1>7. totalLatency(q) = Total(totalLatency(q))
      BY <1>5, <1>6
<1>. QED  BY <1>7 DEF Total

LEMMA TotalIsNumber ==
    ASSUME NEW q \in Seq(Query)
    PROVE  \A n \in 0 .. Len(q) : totalLatency(q)[n] \in Nat
<1> DEFINE t == totalLatency(q)
           T == {n \in 0 .. Len(q) : t[n] \in Nat}
<1>1. t[0] = 0 /\ \A n \in 1 .. Len(q) : t[n] = t[n - 1] + q[n].latency
      BY TotalEquation
<1> HIDE DEF t
<1>2. 0 \in T
      BY <1>1
<1>3. ASSUME NEW n \in 1 .. Len(q), n - 1 \in T
      PROVE  n \in T
  <2>1. q[n].latency \in Nat
        BY LatencyIsNumber
  <2>. QED  BY <1>1, <1>3, <2>1
<1> HIDE DEF T
<1>4. \A n \in 0 .. Len(q) : n \in T
  <2>1. Len(q) \in Nat
        OBVIOUS
  <2>. QED  BY <1>2, <1>3, <2>1, InductionTo
<1>. QED  BY <1>4 DEF T, t

LEMMA AverageIsNumber ==
    ASSUME TypeOK, NEW r \in Resolver, history[r] # <<>>
    PROVE  averageLatency(r) \in Nat
<1> DEFINE q == history[r]
           n == Len(q)
           t == totalLatency(q)[n]
<1>1. q \in Seq(Query) /\ n \in Nat \ {0}
      BY DEF TypeOK
<1>2. t \in Nat
      BY <1>1, TotalIsNumber
<1>3. averageLatency(r) = (Unit * t) \div n
      BY <1>1 DEF averageLatency
<1> HIDE DEF t, n, q
<1>4. Unit * t \in Nat
      BY <1>2, RankAssumption
<1>5. \A a \in Nat, c \in Nat \ {0} : a \div c \in Nat
      OBVIOUS
<1>. QED  BY <1>1, <1>3, <1>4, <1>5

-----------------------------------------------------------------------------
(* Swaps permute, and selection sorts. *)

Distinct(s) == \A i, j \in DOMAIN s : s[i] = s[j] => i = j

(* t has the elements of s, and each once if s has. *)
Permutes(s, t, E) ==
    /\ t \in Seq(E) /\ Len(t) = Len(s)
    /\ Elements(t) = Elements(s)
    /\ Distinct(s) => Distinct(t)

LEMMA PermutesTransitive ==
    ASSUME NEW E, NEW s, NEW t, NEW u, Permutes(s, t, E), Permutes(t, u, E)
    PROVE  Permutes(s, u, E)
BY DEF Permutes

LEMMA ElementsAre ==
    ASSUME NEW E, NEW s \in Seq(E)
    PROVE  /\ Elements(s) \subseteq E
           /\ \A i \in 1 .. Len(s) : s[i] \in Elements(s)
           /\ \A e \in Elements(s) : \E i \in 1 .. Len(s) : s[i] = e
BY DEF Elements

LEMMA SwapValues ==
    ASSUME NEW E, NEW s \in Seq(E), NEW a \in 1 .. Len(s), NEW b \in 1 .. Len(s)
    PROVE  /\ swap(s, a, b) \in Seq(E) /\ Len(swap(s, a, b)) = Len(s)
           /\ swap(s, a, b)[a] = s[b] /\ swap(s, a, b)[b] = s[a]
           /\ \A i \in (1 .. Len(s)) \ {a, b} : swap(s, a, b)[i] = s[i]
BY DEF swap

LEMMA SwapPermutes ==
    ASSUME NEW E, NEW s \in Seq(E), NEW a \in 1 .. Len(s), NEW b \in 1 .. Len(s)
    PROVE  Permutes(s, swap(s, a, b), E)
<1> DEFINE t == swap(s, a, b)
<1>1. /\ t \in Seq(E) /\ Len(t) = Len(s) /\ t[a] = s[b] /\ t[b] = s[a]
      /\ \A i \in (1 .. Len(s)) \ {a, b} : t[i] = s[i]
      BY SwapValues
<1> HIDE DEF t
<1> DEFINE n == Len(s)
<1>2. DOMAIN s = 1 .. n /\ DOMAIN t = 1 .. n /\ Len(t) = n
      BY <1>1
<1> HIDE DEF n
<1>3. \A i \in 1 .. n : /\ \E j \in 1 .. n : t[i] = s[j]
                        /\ \E j \in 1 .. n : s[i] = t[j]
  <2>1. TAKE i \in 1 .. n
  <2>2. CASE i \in {a, b}
        BY <1>1, <2>2 DEF n
  <2>3. CASE i \notin {a, b}
        BY <1>1, <2>3 DEF n
  <2>. QED  BY <2>2, <2>3
<1>4. Elements(t) = Elements(s)
  <2>1. Elements(t) = {t[i] : i \in 1 .. n} /\ Elements(s) = {s[i] : i \in 1 .. n}
        BY <1>2 DEF Elements, n
  <2>2. ASSUME NEW e \in {t[i] : i \in 1 .. n} PROVE e \in {s[i] : i \in 1 .. n}
    <3>1. PICK i \in 1 .. n : e = t[i]
          BY <2>2
    <3>2. PICK j \in 1 .. n : t[i] = s[j]
          BY <1>3
    <3>. QED  BY <3>1, <3>2
  <2>3. ASSUME NEW e \in {s[i] : i \in 1 .. n} PROVE e \in {t[i] : i \in 1 .. n}
    <3>1. PICK i \in 1 .. n : e = s[i]
          BY <2>3
    <3>2. PICK j \in 1 .. n : s[i] = t[j]
          BY <1>3
    <3>. QED  BY <3>1, <3>2
  <2>. QED  BY <2>1, <2>2, <2>3
<1>5. ASSUME Distinct(s)
      PROVE  Distinct(t)
  <2>1. SUFFICES ASSUME NEW i \in 1 .. n, NEW j \in 1 .. n, t[i] = t[j]
                 PROVE  i = j
        BY <1>2 DEF Distinct
  <2>2. \A k, l \in 1 .. n : s[k] = s[l] => k = l
        BY <1>2, <1>5 DEF Distinct
  <2>. QED  BY <1>1, <2>1, <2>2 DEF n
<1>. QED  BY <1>1, <1>4, <1>5 DEF Permutes, t

LEMMA BestIsFirst ==
    ASSUME NEW E, NEW s \in Seq(E), NEW scores \in [E -> Int], NEW a \in 1 .. Len(s)
    PROVE  /\ best(s, a, scores) \in a .. Len(s)
           /\ \A b \in a .. Len(s) : scores[s[best(s, a, scores)]] >= scores[s[b]]
<1> DEFINE f == [i \in 1 .. Len(s) |-> scores[s[i]]]
           n == Len(s)
           T == {d \in a .. n : \A b \in a .. n : f[d] >= f[b]}
<1>1. n \in Int /\ a \in Int /\ a <= n /\ T \subseteq Nat /\ a .. n \subseteq 1 .. n
      OBVIOUS
<1>2. \A i \in 1 .. n : f[i] = scores[s[i]] /\ f[i] \in Int
      BY ElementsAre
<1> HIDE DEF f, n
<1>3. T # {}
  <2>1. \A i \in a .. n : f[i] \in Int
        BY <1>1, <1>2
  <2>2. \E d \in a .. n : \A i \in a .. n : f[d] >= f[i]
        BY <1>1, <2>1, Largest, Zenon
  <2>. QED  BY <2>2
<1>4. PICK d \in T : \A e \in T : d <= e
  <2> HIDE DEF T
  <2>. QED  BY <1>1, <1>3, LeastNumber
<1>5. ASSUME NEW b \in a .. d - 1
      PROVE  f[d] > f[b]
  <2>1. b \in a .. n /\ ~ (d <= b) /\ d \in a .. n
        BY <1>1
  <2>2. PICK c \in a .. n : ~ (f[b] >= f[c])
        BY <1>4, <2>1
  <2>3. f[d] >= f[c]
        BY <1>4
  <2>4. b \in 1 .. n /\ c \in 1 .. n /\ d \in 1 .. n
        BY <1>1, <2>1
  <2>. QED  BY <1>2, <2>2, <2>3, <2>4
<1> DEFINE Best(e) == /\ \A b \in a .. n : scores[s[e]] >= scores[s[b]]
                      /\ \A b \in a .. e - 1 : scores[s[e]] > scores[s[b]]
<1>6. d \in a .. n /\ Best(d)
  <2>1. d \in a .. n /\ a .. d - 1 \subseteq a .. n
        BY <1>1
  <2>2. \A b \in a .. n : scores[s[d]] >= scores[s[b]]
        BY <1>1, <1>2, <2>1
  <2>3. \A b \in a .. d - 1 : scores[s[d]] > scores[s[b]]
        BY <1>1, <1>2, <1>5, <2>1
  <2>. QED  BY <2>1, <2>2, <2>3
<1>7. best(s, a, scores) = CHOOSE e \in a .. n : Best(e)
      BY DEF best, n
<1>8. best(s, a, scores) \in a .. n /\ Best(best(s, a, scores))
  <2> HIDE DEF Best
  <2>. QED  BY <1>6, <1>7
<1>. QED  BY <1>8 DEF n

LEMMA PassesEquation ==
    ASSUME NEW E, NEW s \in Seq(E), NEW scores \in [E -> Int]
    PROVE  passes(s, scores) =
               [a \in 0 .. Len(s) |->
                   IF a = 0 THEN s
                   ELSE swap(passes(s, scores)[a - 1], a,
                             best(passes(s, scores)[a - 1], a, scores))]
<1> DEFINE n == Len(s)
           S == {t \in Seq(E) : Len(t) = n}
           Pass(t, a) == swap(t, a, best(t, a, scores))
           F(f) == [a \in 0 .. n |-> IF a = 0 THEN s ELSE Pass(f[a - 1], a)]
           step == [a \in 1 .. n |-> [t \in S |-> Pass(t, a)]]
<1>1. n \in Nat /\ s \in S
      OBVIOUS
<1>2. ASSUME NEW a \in 1 .. n, NEW t \in S
      PROVE  Pass(t, a) \in S
  <2>1. t \in Seq(E) /\ Len(t) = n /\ a \in 1 .. Len(t)
        OBVIOUS
  <2>2. best(t, a, scores) \in 1 .. Len(t)
        BY <2>1, BestIsFirst
  <2>. QED  BY <2>1, <2>2, SwapValues
<1> HIDE DEF n, S, Pass
<1>3. step \in [1 .. n -> [S -> S]] /\ \A a \in 1 .. n, t \in S : step[a][t] = Pass(t, a)
      BY <1>2
<1> HIDE DEF step
<1>4. PICK f : Recursive(f, n, S, s, step)
      BY <1>1, <1>3, RecursionExists
<1>5. \A a \in 1 .. n : f[a] = Pass(f[a - 1], a)
  <2>1. TAKE a \in 1 .. n
  <2>2. a - 1 \in 0 .. n
        BY <1>1
  <2>. QED  BY <1>3, <1>4, <2>2 DEF Recursive
<1>6. f = F(f)
      BY <1>1, <1>4, <1>5 DEF Recursive
<1>7. passes(s, scores) = CHOOSE g : g = F(g)
      BY DEF passes, Pass, n
<1> HIDE DEF F
<1>8. passes(s, scores) = F(passes(s, scores))
      BY <1>6, <1>7
<1>. QED  BY <1>8 DEF F, Pass, n

(* Up to position a the order is that of the scores, and what comes later  *)
(* is not better.                                                          *)
SortedTo(t, a, scores) ==
    \A i \in 1 .. a, j \in 1 .. Len(t) : i < j => scores[t[i]] >= scores[t[j]]

LEMMA PassSorts ==
    ASSUME NEW E, NEW t \in Seq(E), NEW scores \in [E -> Int], NEW a \in 1 .. Len(t),
           SortedTo(t, a - 1, scores)
    PROVE  /\ Permutes(t, swap(t, a, best(t, a, scores)), E)
           /\ SortedTo(swap(t, a, best(t, a, scores)), a, scores)
<1> DEFINE n == Len(t)
           d == best(t, a, scores)
           u == swap(t, a, d)
<1>1. /\ n \in Nat /\ d \in a .. n /\ d \in 1 .. n
      /\ \A b \in a .. n : scores[t[d]] >= scores[t[b]]
      BY BestIsFirst
<1> HIDE DEF d
<1>2. Permutes(t, u, E)
      BY <1>1, SwapPermutes
<1>3. /\ u \in Seq(E) /\ Len(u) = n /\ u[a] = t[d] /\ u[d] = t[a]
      /\ \A i \in (1 .. n) \ {a, d} : u[i] = t[i]
  <2>1. d \in 1 .. Len(t)
        BY <1>1
  <2>. QED  BY <2>1, SwapValues
<1> HIDE DEF u, n
<1>4. ASSUME NEW j \in a .. n
      PROVE  \E k \in a .. n : u[j] = t[k]
  <2>1. a \in a .. n /\ j \in 1 .. n
        BY <1>1 DEF n
  <2>2. CASE j \in {a, d}
        BY <1>1, <1>3, <2>1, <2>2
  <2>3. CASE j \notin {a, d}
        BY <1>1, <1>3, <2>1, <2>3
  <2>. QED  BY <2>2, <2>3
<1>5. ASSUME NEW i \in 1 .. a, NEW j \in 1 .. n, i < j
      PROVE  scores[u[i]] >= scores[u[j]]
  <2>1. CASE i = a
    <3>1. j \in a .. n
          BY <1>1, <1>5, <2>1 DEF n
    <3>2. PICK k \in a .. n : u[j] = t[k]
          BY <1>4, <3>1
    <3>. QED  BY <1>1, <1>3, <2>1, <3>2
  <2>2. CASE i # a
    <3>1. i \in 1 .. a - 1 /\ i \in (1 .. n) \ {a, d}
          BY <1>1, <2>2 DEF n
    <3>2. u[i] = t[i]
          BY <1>3, <3>1
    <3>3. \E k \in 1 .. n : i < k /\ u[j] = t[k]
      <4>1. CASE j \in a .. n
        <5>1. PICK k \in a .. n : u[j] = t[k]
              BY <1>4, <4>1
        <5>2. k \in 1 .. n /\ i < k
              BY <1>1, <3>1 DEF n
        <5>. QED  BY <5>1, <5>2
      <4>2. CASE j \notin a .. n
        <5>1. j \in (1 .. n) \ {a, d}
              BY <1>1, <4>2 DEF n
        <5>. QED  BY <1>3, <1>5, <5>1
      <4>. QED  BY <4>1, <4>2
    <3>4. PICK k \in 1 .. n : i < k /\ u[j] = t[k]
          BY <3>3
    <3>5. scores[t[i]] >= scores[t[k]]
          BY <3>1, <3>4 DEF SortedTo, n
    <3>. QED  BY <3>2, <3>4, <3>5
  <2>. QED  BY <2>1, <2>2
<1>6. SortedTo(u, a, scores)
      BY <1>3, <1>5 DEF SortedTo
<1>. QED  BY <1>2, <1>6 DEF u, d

LEMMA SortSorts ==
    ASSUME NEW E, NEW s \in Seq(E), NEW scores \in [E -> Int]
    PROVE  /\ Permutes(s, sort(s, scores), E)
           /\ \A i, j \in 1 .. Len(s) :
                  i < j => scores[sort(s, scores)[i]] >= scores[sort(s, scores)[j]]
<1> DEFINE n == Len(s)
           p == passes(s, scores)
           T == {a \in 0 .. n : Permutes(s, p[a], E) /\ SortedTo(p[a], a, scores)}
<1>0. n \in Nat
      OBVIOUS
<1>1. /\ p[0] = s
      /\ \A a \in 1 .. n : p[a] = swap(p[a - 1], a, best(p[a - 1], a, scores))
      BY <1>0, PassesEquation
<1> HIDE DEF p
<1>2. 0 \in T
      BY <1>0, <1>1 DEF Permutes, SortedTo
<1>3. ASSUME NEW a \in 1 .. n, a - 1 \in T
      PROVE  a \in T
  <2> DEFINE t == p[a - 1]
  <2>1. t \in Seq(E) /\ Len(t) = n /\ Permutes(s, t, E) /\ SortedTo(t, a - 1, scores)
        BY <1>3 DEF Permutes
  <2>2. p[a] = swap(t, a, best(t, a, scores))
        BY <1>1
  <2> HIDE DEF t
  <2>3. Permutes(t, p[a], E) /\ SortedTo(p[a], a, scores)
        BY <2>1, <2>2, PassSorts
  <2>. QED  BY <1>0, <2>1, <2>3, PermutesTransitive
<1>4. \A a \in 0 .. n : a \in T
  <2> HIDE DEF T, n
  <2>. QED  BY <1>0, <1>2, <1>3, InductionTo
<1>5. CASE n < 2
  <2>1. sort(s, scores) = p[0]
        BY <1>1, <1>5 DEF sort
  <2>2. Permutes(s, p[0], E)
        BY <1>2
  <2>. QED  BY <1>0, <1>5, <2>1, <2>2
<1>6. CASE ~ (n < 2)
  <2>1. sort(s, scores) = p[n - 1] /\ n - 1 \in 0 .. n
        BY <1>0, <1>6 DEF sort, p
  <2>2. Permutes(s, p[n - 1], E) /\ SortedTo(p[n - 1], n - 1, scores)
        BY <1>4, <2>1
  <2>3. ASSUME NEW i \in 1 .. n, NEW j \in 1 .. n, i < j
        PROVE  scores[p[n - 1][i]] >= scores[p[n - 1][j]]
    <3>1. i \in 1 .. n - 1 /\ Len(p[n - 1]) = n
          BY <1>0, <2>2, <2>3 DEF Permutes
    <3>. QED  BY <2>2, <2>3, <3>1 DEF SortedTo
  <2>. QED  BY <2>1, <2>2, <2>3
<1>. QED  BY <1>5, <1>6

-----------------------------------------------------------------------------
(* Loading a list adds what is new, and shuffling permutes. *)

LEMMA LoadsEquation ==
    ASSUME NEW E, NEW pool \in Seq(E), NEW list \in Seq(E)
    PROVE  loads(pool, list) =
               [n \in 0 .. Len(list) |-> IF n = 0 THEN pool
                                         ELSE append(loads(pool, list)[n - 1], list[n])]
<1> DEFINE N == Len(list)
           F(f) == [n \in 0 .. N |-> IF n = 0 THEN pool ELSE append(f[n - 1], list[n])]
           step == [n \in 1 .. N |-> [t \in Seq(E) |-> append(t, list[n])]]
<1>1. N \in Nat
      OBVIOUS
<1>2. ASSUME NEW n \in 1 .. N, NEW t \in Seq(E)
      PROVE  append(t, list[n]) \in Seq(E)
      BY DEF append
<1> HIDE DEF N
<1>3. /\ step \in [1 .. N -> [Seq(E) -> Seq(E)]]
      /\ \A n \in 1 .. N, t \in Seq(E) : step[n][t] = append(t, list[n])
      BY <1>2
<1> HIDE DEF step
<1>4. PICK f : Recursive(f, N, Seq(E), pool, step)
      BY <1>1, <1>3, RecursionExists
<1>5. \A n \in 1 .. N : f[n] = append(f[n - 1], list[n])
  <2>1. TAKE n \in 1 .. N
  <2>2. n - 1 \in 0 .. N
        BY <1>1
  <2>. QED  BY <1>3, <1>4, <2>2 DEF Recursive
<1>6. f = F(f)
      BY <1>1, <1>4, <1>5 DEF Recursive
<1>7. loads(pool, list) = CHOOSE g : g = F(g)
      BY DEF loads, N
<1> HIDE DEF F
<1>8. loads(pool, list) = F(loads(pool, list))
      BY <1>6, <1>7
<1>. QED  BY <1>8 DEF F, N

(* What a pool has when n addresses of a list were added to it.            *)
Grown(p, pool, list, n, E) ==
    /\ p \in Seq(E) /\ Len(p) >= Len(pool)
    /\ Elements(p) = Elements(pool) \cup {list[i] : i \in 1 .. n}
    /\ Distinct(pool) => Distinct(p)

LEMMA AppendGrows ==
    ASSUME NEW E, NEW pool \in Seq(E), NEW list \in Seq(E), NEW n \in 1 .. Len(list),
           NEW p, Grown(p, pool, list, n - 1, E)
    PROVE  Grown(append(p, list[n]), pool, list, n, E)
<1> DEFINE q == append(p, list[n])
<1>1. p \in Seq(E) /\ list[n] \in E /\ Len(p) \in Nat /\ Len(pool) \in Nat
      BY DEF Grown
<1>2. {list[i] : i \in 1 .. n} = {list[i] : i \in 1 .. n - 1} \cup {list[n]}
  <2>1. \A i \in 1 .. n : i \in 1 .. n - 1 \/ i = n
        OBVIOUS
  <2>2. n \in 1 .. n /\ \A i \in 1 .. n - 1 : i \in 1 .. n
        OBVIOUS
  <2>. QED  BY <2>1, <2>2
<1>3. CASE list[n] \in Elements(p)
      BY <1>1, <1>2, <1>3 DEF append, Grown
<1>4. CASE list[n] \notin Elements(p)
  <2>1. q = Append(p, list[n])
        BY <1>4 DEF append
  <2> HIDE DEF q
  <2>2. /\ q \in Seq(E) /\ Len(q) = Len(p) + 1 /\ q[Len(q)] = list[n]
        /\ \A i \in 1 .. Len(p) : q[i] = p[i]
        BY <1>1, <2>1
  <2>3. \A i \in 1 .. Len(q) : i \in 1 .. Len(p) \/ i = Len(q)
        BY <1>1, <2>2
  <2>4. Len(q) \in 1 .. Len(q) /\ \A i \in 1 .. Len(p) : i \in 1 .. Len(q)
        BY <1>1, <2>2
  <2>5. Elements(q) = Elements(p) \cup {list[n]}
        BY <2>2, <2>3, <2>4 DEF Elements
  <2>6. ASSUME Distinct(p)
        PROVE  Distinct(q)
    <3>1. \A i \in 1 .. Len(p) : q[i] \in Elements(p)
          BY <2>2 DEF Elements
    <3>2. \A i, j \in 1 .. Len(p) : q[i] = q[j] => i = j
          BY <1>1, <2>2, <2>6 DEF Distinct
    <3>3. \A i, j \in 1 .. Len(q) : q[i] = q[j] => i = j
          BY <1>4, <2>2, <2>3, <3>1, <3>2
    <3>. QED  BY <2>2, <3>3 DEF Distinct
  <2>7. Elements(q) = Elements(pool) \cup {list[i] : i \in 1 .. n}
        BY <1>2, <2>5 DEF Grown
  <2>. QED  BY <1>1, <2>2, <2>6, <2>7 DEF Grown, q
<1>. QED  BY <1>3, <1>4

LEMMA LoadsGrow ==
    ASSUME NEW E, NEW pool \in Seq(E), NEW list \in Seq(E)
    PROVE  Grown(loads(pool, list)[Len(list)], pool, list, Len(list), E)
<1> DEFINE N == Len(list)
           p == loads(pool, list)
           T == {n \in 0 .. N : Grown(p[n], pool, list, n, E)}
<1>1. N \in Nat
      OBVIOUS
<1>2. p[0] = pool /\ \A n \in 1 .. N : p[n] = append(p[n - 1], list[n])
      BY <1>1, LoadsEquation
<1> HIDE DEF p
<1>3. 0 \in T
      BY <1>1, <1>2 DEF Grown
<1>4. ASSUME NEW n \in 1 .. N, n - 1 \in T
      PROVE  n \in T
  <2>1. Grown(p[n - 1], pool, list, n - 1, E)
        BY <1>4
  <2>2. Grown(append(p[n - 1], list[n]), pool, list, n, E)
        BY <2>1, AppendGrows
  <2>. QED  BY <1>1, <1>2, <2>2
<1>5. N \in T
  <2> HIDE DEF T, N
  <2>1. \A n \in 0 .. N : n \in T
        BY <1>1, <1>3, <1>4, InductionTo
  <2>. QED  BY <1>1, <2>1
<1>. QED  BY <1>5 DEF p

LEMMA SwapsPermute ==
    ASSUME NEW E, NEW s \in Seq(E), NEW t \in Swaps(s)
    PROVE  Permutes(s, t, E)
<1>1. DOMAIN s = 1 .. Len(s)
      OBVIOUS
<1>2. PICK a \in DOMAIN s, b \in DOMAIN s : t = swap(s, a, b)
      BY DEF Swaps
<1>. QED  BY <1>1, <1>2, SwapPermutes

LEMMA ShufflesEquation ==
    ASSUME NEW E, NEW s \in Seq(E)
    PROVE  shuffles(s) =
               [k \in 0 .. Len(s) |->
                   IF k = 0 THEN {s} ELSE UNION {Swaps(t) : t \in shuffles(s)[k - 1]}]
<1> DEFINE N == Len(s)
           S == SUBSET Seq(E)
           All(X) == UNION {Swaps(t) : t \in X}
           F(f) == [k \in 0 .. N |-> IF k = 0 THEN {s} ELSE All(f[k - 1])]
           step == [k \in 1 .. N |-> [X \in S |-> All(X)]]
<1>1. N \in Nat /\ {s} \in S
      OBVIOUS
<1>2. ASSUME NEW X \in S
      PROVE  All(X) \in S
      BY SwapsPermute DEF Permutes
<1> HIDE DEF N, S, All
<1>3. step \in [1 .. N -> [S -> S]] /\ \A k \in 1 .. N, X \in S : step[k][X] = All(X)
      BY <1>2
<1> HIDE DEF step
<1>4. PICK f : Recursive(f, N, S, {s}, step)
      BY <1>1, <1>3, RecursionExists
<1>5. \A k \in 1 .. N : f[k] = All(f[k - 1])
  <2>1. TAKE k \in 1 .. N
  <2>2. k - 1 \in 0 .. N
        BY <1>1
  <2>. QED  BY <1>3, <1>4, <2>2 DEF Recursive
<1>6. f = F(f)
      BY <1>1, <1>4, <1>5 DEF Recursive
<1>7. shuffles(s) = CHOOSE g : g = F(g)
      BY DEF shuffles, All, N
<1> HIDE DEF F
<1>8. shuffles(s) = F(shuffles(s))
      BY <1>6, <1>7
<1>. QED  BY <1>8 DEF F, All, N

LEMMA RandomizePermutes ==
    ASSUME NEW E, NEW s \in Seq(E), NEW t \in Randomizations(s)
    PROVE  Permutes(s, t, E)
<1> DEFINE N == Len(s)
           p == shuffles(s)
           T == {k \in 0 .. N : \A u \in p[k] : Permutes(s, u, E)}
<1>1. N \in Nat /\ Permutes(s, s, E)
      BY DEF Permutes
<1>2. p[0] = {s} /\ \A k \in 1 .. N : p[k] = UNION {Swaps(u) : u \in p[k - 1]}
      BY <1>1, ShufflesEquation
<1> HIDE DEF p
<1>3. 0 \in T
      BY <1>1, <1>2
<1>4. ASSUME NEW k \in 1 .. N, k - 1 \in T
      PROVE  k \in T
  <2>1. ASSUME NEW u \in p[k]
        PROVE  Permutes(s, u, E)
    <3>1. PICK v \in p[k - 1] : u \in Swaps(v)
          BY <1>2
    <3>2. Permutes(s, v, E) /\ v \in Seq(E)
          BY <1>4 DEF Permutes
    <3>3. Permutes(v, u, E)
          BY <3>1, <3>2, SwapsPermute
    <3>. QED  BY <3>2, <3>3, PermutesTransitive
  <2>. QED  BY <2>1
<1>5. N \in T
  <2> HIDE DEF T, N
  <2>1. \A k \in 0 .. N : k \in T
        BY <1>1, <1>3, <1>4, InductionTo
  <2>. QED  BY <1>1, <2>1
<1>. QED  BY <1>1, <1>5 DEF Randomizations, p

-----------------------------------------------------------------------------
(* Types and the order of the scores. *)

LEMMA StatusIsOneOfThree ==
    ASSUME NEW r
    PROVE  status(r) \in {"Red", "Yellow", "Green"}
BY DEF status

LEMMA Factors ==
    ASSUME NEW r
    PROVE  /\ KindFactor(r) \in Nat \ {0}
           /\ NICFactor(r) \in Nat \ {0}
           /\ StatusFactor[status(r)] \in Nat \ {0}
           /\ StatusFactor["Green"] \in Nat \ {0}
<1>1. \A x \in {"Red", "Yellow", "Green"} : StatusFactor[x] \in Nat \ {0}
      BY DEF StatusFactor
<1>. QED  BY <1>1, StatusIsOneOfThree DEF KindFactor, NICFactor

Pool == Elements(mResolvers)

LEMMA PoolAverages ==
    ASSUME TypeOK, NEW r \in Pool
    PROVE  averageLatency(r) \in Nat
<1>1. r \in Resolver /\ history[r] # <<>>
      BY ElementsAre DEF TypeOK, Pool
<1>. QED  BY <1>1, AverageIsNumber

LEMMA MaxIsLargest ==
    ASSUME TypeOK, Pool # {}
    PROVE  /\ maxLatency(Pool) \in Nat
           /\ maxLatency(Pool) \in {averageLatency(r) : r \in Pool}
           /\ \A r \in Pool : averageLatency(r) <= maxLatency(Pool)
<1> DEFINE n == Len(mResolvers)
           f == [i \in 1 .. n |-> averageLatency(mResolvers[i])]
           AtLeast(m) == \A r \in Pool : m >= averageLatency(r)
<1>1. mResolvers \in Seq(Resolver) /\ n \in Nat
      BY DEF TypeOK
<1>2. /\ \A i \in 1 .. n : mResolvers[i] \in Pool
      /\ \A r \in Pool : \E i \in 1 .. n : mResolvers[i] = r
      BY <1>1, ElementsAre DEF Pool
<1>3. 1 <= n
      BY <1>1, <1>2
<1>4. \A i \in 1 .. n : f[i] = averageLatency(mResolvers[i]) /\ f[i] \in Int
      BY <1>2, PoolAverages
<1> HIDE DEF f, n
<1>5. PICK d \in 1 .. n : \A i \in 1 .. n : f[d] >= f[i]
  <2>1. 1 \in Int /\ n \in Int /\ \A i \in 1 .. n : f[i] \in Int
        BY <1>1, <1>4
  <2>. QED  BY <1>3, <2>1, Largest, Zenon
<1>6. f[d] \in {averageLatency(r) : r \in Pool}
      BY <1>2, <1>4
<1>7. AtLeast(f[d])
  <2>1. SUFFICES ASSUME NEW r \in Pool PROVE f[d] >= averageLatency(r)
        OBVIOUS
  <2>2. PICK i \in 1 .. n : mResolvers[i] = r
        BY <1>2
  <2>. QED  BY <1>4, <1>5, <2>2
<1>8. maxLatency(Pool) = CHOOSE m \in {averageLatency(r) : r \in Pool} : AtLeast(m)
      BY DEF maxLatency
<1> HIDE DEF AtLeast
<1>9. /\ maxLatency(Pool) \in {averageLatency(r) : r \in Pool}
      /\ AtLeast(maxLatency(Pool))
      BY <1>6, <1>7, <1>8
<1>10. maxLatency(Pool) \in Nat
       BY <1>9, PoolAverages
<1>. QED  BY <1>9, <1>10, PoolAverages DEF AtLeast

LEMMA ProductType ==
    ASSUME NEW x \in Nat, NEW k \in Nat
    PROVE  x * k \in Nat
OBVIOUS

LEMMA ProductOrder ==
    ASSUME NEW x \in Nat, NEW y \in Nat, x < y,
           NEW k \in Nat \ {0}, NEW l \in Nat \ {0}, k <= l
    PROVE  x * k < y * l /\ x * k \in Nat /\ y * l \in Nat
<1>1. x * k <= x * l
      OBVIOUS
<1>2. x * l < y * l
  <2>1. y = x + (y - x) /\ y - x \in Nat \ {0}
        OBVIOUS
  <2>2. (x + (y - x)) * l = x * l + (y - x) * l
        OBVIOUS
  <2>3. (y - x) * l > 0
        BY <2>1
  <2>. QED  BY <2>1, <2>2, <2>3
<1>. QED  BY <1>1, <1>2

(* The score of the rules in use, and what is left of an average to the    *)
(* largest one of the pool.                                                *)
Score(r) == score[r]
Lead(r) == maxLatency(Pool) - averageLatency(r)

LEMMA ScoreIs ==
    ASSUME TypeOK, NEW r \in Pool
    PROVE  /\ Lead(r) \in Nat
           /\ Score(r) = Lead(r) * KindFactor(r) * NICFactor(r) *
                         (IF mScoreInternal THEN StatusFactor[status(r)]
                                            ELSE StatusFactor["Green"])
           /\ Score(r) \in Nat
<1>1. /\ averageLatency(r) \in Nat /\ Lead(r) \in Nat
      /\ ~ (averageLatency(r) < 0)
  <2>1. /\ averageLatency(r) \in Nat /\ maxLatency(Pool) \in Nat
        /\ averageLatency(r) <= maxLatency(Pool)
        BY PoolAverages, MaxIsLargest
  <2>. QED  BY <2>1 DEF Lead
<1>2. score[r] = IF mScoreInternal THEN scoreResolverInternal(r, maxLatency(Pool))
                                   ELSE scoreResolverScript(r, maxLatency(Pool))
      BY DEF score, Pool
<1>3. Score(r) = Lead(r) * KindFactor(r) * NICFactor(r) *
                 (IF mScoreInternal THEN StatusFactor[status(r)] ELSE StatusFactor["Green"])
      BY <1>1, <1>2 DEF Score, Lead, scoreResolverInternal, scoreResolverScript
<1>4. Lead(r) * KindFactor(r) \in Nat
      BY <1>1, Factors, ProductType
<1>5. Lead(r) * KindFactor(r) * NICFactor(r) \in Nat
      BY <1>4, Factors, ProductType
<1>6. Score(r) \in Nat
  <2>1. (IF mScoreInternal THEN StatusFactor[status(r)] ELSE StatusFactor["Green"]) \in Nat
        BY Factors
  <2>. QED  BY <1>3, <1>5, <2>1, ProductType
<1>. QED  BY <1>1, <1>3, <1>6

LEMMA ScoresAreIntegers ==
    ASSUME TypeOK
    PROVE  score \in [Pool -> Int]
<1>1. DOMAIN score = Pool /\ \A q \in Pool : score[q] \in Int
      BY ScoreIs DEF score, Score, Pool
<1>2. score = [q \in Pool |-> score[q]]
      BY <1>1 DEF score, Pool
<1>. QED  BY <1>1, <1>2

LEMMA BetterScoresMore ==
    ASSUME TypeOK, NEW r \in Pool, NEW s \in Pool, Dominates(s, r)
    PROVE  Score(r) < Score(s)
<1> DEFINE State(q) == IF mScoreInternal THEN StatusFactor[status(q)]
                                         ELSE StatusFactor["Green"]
<1>1. /\ Lead(r) \in Nat /\ Lead(s) \in Nat
      /\ Score(r) = Lead(r) * KindFactor(r) * NICFactor(r) * State(r)
      /\ Score(s) = Lead(s) * KindFactor(s) * NICFactor(s) * State(s)
      BY ScoreIs
<1>2. Lead(r) < Lead(s)
  <2>1. /\ averageLatency(r) \in Nat /\ averageLatency(s) \in Nat
        /\ maxLatency(Pool) \in Nat
        BY PoolAverages, MaxIsLargest
  <2>. QED  BY <2>1 DEF Lead, Dominates
<1>3. KindFactor(r) <= KindFactor(s)
      BY DEF Dominates
<1>4. NICFactor(r) <= NICFactor(s)
      BY DEF Dominates, NICFactor
<1>5. State(r) <= State(s) /\ State(r) \in Nat \ {0} /\ State(s) \in Nat \ {0}
  <2>1. \A x, y \in {"Red", "Yellow", "Green"} :
            Places[x] >= Places[y] => StatusFactor[y] <= StatusFactor[x]
        BY DEF Places, StatusFactor
  <2>2. StatusFactor[status(r)] <= StatusFactor[status(s)]
        BY <2>1, StatusIsOneOfThree DEF Dominates
  <2>. QED  BY <2>2, Factors
<1> HIDE DEF State
<1>6. /\ Lead(r) * KindFactor(r) < Lead(s) * KindFactor(s)
      /\ Lead(r) * KindFactor(r) \in Nat /\ Lead(s) * KindFactor(s) \in Nat
      BY <1>1, <1>2, <1>3, Factors, ProductOrder
<1>7. /\ Lead(r) * KindFactor(r) * NICFactor(r) < Lead(s) * KindFactor(s) * NICFactor(s)
      /\ Lead(r) * KindFactor(r) * NICFactor(r) \in Nat
      /\ Lead(s) * KindFactor(s) * NICFactor(s) \in Nat
      BY <1>4, <1>6, Factors, ProductOrder
<1>. QED  BY <1>1, <1>5, <1>7, ProductOrder

LEMMA SlowestScoresNothing ==
    ASSUME TypeOK, NEW r \in Pool, NEW s \in Pool, Slowest(r),
           averageLatency(s) < averageLatency(r)
    PROVE  Score(r) < Score(s)
<1>1. Lead(r) = 0 /\ Lead(s) \in Nat \ {0}
  <2>1. /\ averageLatency(r) \in Nat /\ averageLatency(s) \in Nat
        /\ maxLatency(Pool) \in Nat /\ averageLatency(r) <= maxLatency(Pool)
        BY PoolAverages, MaxIsLargest
  <2>2. PICK t \in Pool : maxLatency(Pool) = averageLatency(t)
        BY MaxIsLargest
  <2>3. averageLatency(t) <= averageLatency(r)
        BY DEF Slowest, Pool
  <2>. QED  BY <2>1, <2>2, <2>3 DEF Lead
<1> DEFINE State(q) == IF mScoreInternal THEN StatusFactor[status(q)]
                                         ELSE StatusFactor["Green"]
<1>2. /\ Score(r) = Lead(r) * KindFactor(r) * NICFactor(r) * State(r)
      /\ Score(s) = Lead(s) * KindFactor(s) * NICFactor(s) * State(s)
      BY ScoreIs
<1>3. State(r) \in Nat \ {0} /\ State(s) \in Nat \ {0}
      BY Factors
<1> HIDE DEF State
<1>4. Score(r) = 0
  <2>1. 0 * KindFactor(r) = 0 /\ 0 * NICFactor(r) = 0 /\ 0 * State(r) = 0
        BY <1>3, Factors
  <2>. QED  BY <1>1, <1>2, <2>1
<1>5. \A x, k \in Nat \ {0} : x * k \in Nat \ {0}
      OBVIOUS
<1>6. Lead(s) * KindFactor(s) * NICFactor(s) * State(s) \in Nat \ {0}
  <2>1. Lead(s) * KindFactor(s) \in Nat \ {0}
        BY <1>1, <1>5, Factors
  <2>2. Lead(s) * KindFactor(s) * NICFactor(s) \in Nat \ {0}
        BY <1>5, <2>1, Factors
  <2>. QED  BY <1>3, <1>5, <2>2
<1>. QED  BY <1>2, <1>4, <1>6

(* Sorting by the scores puts a better one before.                         *)
LEMMA RankPutsBefore ==
    ASSUME TypeOK, rank, NEW r \in Pool, NEW s \in Pool, Score(r) < Score(s)
    PROVE  Before(s, r, mResolvers')
<1> DEFINE t == sort(mResolvers, score)
           n == Len(mResolvers)
<1>1. mResolvers \in Seq(Pool) /\ n \in Nat
  <2>1. mResolvers \in Seq(Resolver)
        BY DEF TypeOK
  <2>. QED  BY <2>1, ElementsAre DEF Pool
<1>2. score \in [Pool -> Int]
      BY ScoresAreIntegers
<1>3. /\ Permutes(mResolvers, t, Pool)
      /\ \A i, j \in 1 .. n : i < j => score[t[i]] >= score[t[j]]
      BY <1>1, <1>2, SortSorts
<1> HIDE DEF t
<1>4. t \in Seq(Pool) /\ Len(t) = n /\ Elements(t) = Pool
      BY <1>3 DEF Permutes, Pool
<1>5. PICK i \in 1 .. n, j \in 1 .. n : t[i] = s /\ t[j] = r
      BY <1>4, ElementsAre
<1>6. i < j
  <2>1. score[s] \in Int /\ score[r] \in Int /\ ~ (score[r] >= score[s])
        BY ScoreIs DEF Score
  <2>2. CASE i = j
        BY <1>5, <2>1, <2>2
  <2>3. CASE j < i
        BY <1>3, <1>5, <2>1, <2>3
  <2>. QED  BY <1>1, <2>2, <2>3
<1>7. mResolvers' = t /\ DOMAIN t = 1 .. n
      BY <1>1, <1>4 DEF rank, t
<1>. QED  BY <1>5, <1>6, <1>7 DEF Before

-----------------------------------------------------------------------------
(* The invariant, action by action. *)

LEMMA PendingIsQuery ==
    ASSUME NEW nic \in BOOLEAN
    PROVE  Pending(nic) \in Query
BY RankAssumption DEF Pending, Query

LEMMA OutcomeIsQuery ==
    ASSUME NEW nic \in BOOLEAN, NEW outcome \in Outcomes(nic)
    PROVE  outcome \in Query
<1>1. PICK error \in {"DNS_OK", "failed"}, latency \in Latencies :
              outcome = Outcome(error, latency, nic)
      BY DEF Outcomes
<1>2. (nic /\ error = "DNS_OK") \in BOOLEAN
      OBVIOUS
<1>. QED  BY <1>1, <1>2 DEF Outcome, Query

LEMMA AddedHistory ==
    ASSUME NEW queries \in Seq(Query), Len(queries) <= MaxQueryDepth, NEW q \in Query
    PROVE  /\ addToQueries(queries, q) \in Seq(Query)
           /\ Len(addToQueries(queries, q)) \in 1 .. MaxQueryDepth
<1> DEFINE u == <<q>> \o queries
           m == Minimum(MaxQueryDepth, Len(queries) + 1)
<1>1. u \in Seq(Query) /\ Len(u) = Len(queries) + 1 /\ Len(queries) \in Nat
      OBVIOUS
<1>2. m \in 1 .. Len(u) /\ m \in 1 .. MaxQueryDepth
      BY <1>1, RankAssumption DEF Minimum
<1>3. addToQueries(queries, q) = SubSeq(u, 1, m)
      BY DEF addToQueries
<1> HIDE DEF u, m
<1>4. SubSeq(u, 1, m) \in Seq(Query) /\ Len(SubSeq(u, 1, m)) = m
  <2>1. \A i \in 1 .. m : u[i] \in Query
        BY <1>1, <1>2
  <2>2. Len(u) \in Nat /\ 1 \in 1 .. Len(u) + 1 /\ m \in 0 .. Len(u)
        BY <1>1, <1>2
  <2>. QED  BY <1>1, <1>2, <2>1, <2>2, SubSeqProperties
<1>. QED  BY <1>2, <1>3, <1>4

LEMMA FromIPListKeeps ==
    ASSUME TypeOK, NEW list \in Seq(Resolver), fromIPList(list)
    PROVE  /\ TypeOK'
           /\ Elements(mResolvers') = Elements(mResolvers) \cup Elements(list)
           /\ Distinct(mResolvers) => Distinct(mResolvers')
<1> DEFINE pool == loads(mResolvers, list)[Len(list)]
           new == Elements(pool) \ Elements(mResolvers)
<1>1. mResolvers \in Seq(Resolver)
      BY DEF TypeOK
<1>2. Grown(pool, mResolvers, list, Len(list), Resolver)
      BY <1>1, LoadsGrow
<1>3. /\ tests' = tests + Len(pool) - Len(mResolvers) /\ tests' <= MaxTests
      /\ mResolvers' \in Randomizations(pool)
      /\ mScoreInternal' = mScoreInternal
      BY DEF fromIPList
<1>4. PICK nics \in [new -> BOOLEAN] :
              history' = [r \in Resolver |-> IF r \in new THEN <<Pending(nics[r])>>
                                                          ELSE history[r]]
      BY DEF fromIPList
<1> HIDE DEF pool
<1>5. Permutes(pool, mResolvers', Resolver)
      BY <1>2, <1>3, RandomizePermutes DEF Grown
<1>6. Elements(mResolvers') = Elements(mResolvers) \cup Elements(list)
      BY <1>2, <1>5 DEF Grown, Permutes, Elements
<1>7. ASSUME NEW r \in Resolver
      PROVE  /\ history'[r] \in Seq(Query) /\ Len(history'[r]) <= MaxQueryDepth
             /\ r \in Elements(mResolvers') => history'[r] # <<>>
  <2>1. CASE r \in new
    <3>1. history'[r] = <<Pending(nics[r])>> /\ Pending(nics[r]) \in Query
          BY <1>4, <2>1, PendingIsQuery
    <3>2. history'[r] \in Seq(Query) /\ Len(history'[r]) = 1
          BY <3>1
    <3>3. history'[r] # <<>>
          BY <3>1
    <3>4. 1 <= MaxQueryDepth
          BY RankAssumption
    <3>. QED  BY <3>2, <3>3, <3>4
  <2>2. CASE r \notin new
    <3>1. history'[r] = history[r]
          BY <1>4, <2>2
    <3>2. r \in Elements(mResolvers') => r \in Elements(mResolvers)
          BY <1>5, <2>2 DEF Permutes
    <3>3. history[r] \in Seq(Query) /\ Len(history[r]) <= MaxQueryDepth
          BY DEF TypeOK
    <3>4. r \in Elements(mResolvers) => history[r] # <<>>
          BY DEF TypeOK
    <3>. QED  BY <3>1, <3>2, <3>3, <3>4
  <2>. QED  BY <2>1, <2>2
<1>8. history' \in [Resolver -> Seq(Query)]
      BY <1>4, <1>7
<1>9. tests' \in 0 .. MaxTests
  <2>1. Len(pool) \in Nat /\ Len(mResolvers) \in Nat /\ Len(pool) >= Len(mResolvers)
        BY <1>1, <1>2 DEF Grown
  <2>. QED  BY <1>3, <2>1, RankAssumption DEF TypeOK
<1>10. Elements(mResolvers') \subseteq Resolver
       BY <1>5, ElementsAre DEF Permutes
<1>11. TypeOK'
       BY <1>3, <1>5, <1>7, <1>8, <1>9, <1>10 DEF TypeOK, Permutes
<1>12. Distinct(mResolvers) => Distinct(mResolvers')
       BY <1>2, <1>5 DEF Grown, Permutes
<1>. QED  BY <1>6, <1>11, <1>12

LEMMA TestKeeps ==
    ASSUME TypeOK, NEW r \in Resolver, NEW nic \in BOOLEAN, test(r, nic)
    PROVE  TypeOK' /\ mResolvers' = mResolvers
<1>1. history' = [history EXCEPT ![r] = addToQueries(history[r], Pending(nic))]
      BY DEF test
<1>2. /\ addToQueries(history[r], Pending(nic)) \in Seq(Query)
      /\ Len(addToQueries(history[r], Pending(nic))) \in 1 .. MaxQueryDepth
      BY PendingIsQuery, AddedHistory DEF TypeOK
<1>3. ASSUME NEW q \in Resolver
      PROVE  /\ history'[q] \in Seq(Query) /\ Len(history'[q]) <= MaxQueryDepth
             /\ q \in Elements(mResolvers) => history'[q] # <<>>
  <2>1. CASE q = r
        BY <1>1, <1>2, <2>1, RankAssumption DEF TypeOK
  <2>2. CASE q # r
        BY <1>1, <2>2 DEF TypeOK
  <2>. QED  BY <2>1, <2>2
<1>4. history' \in [Resolver -> Seq(Query)]
      BY <1>1, <1>2 DEF TypeOK
<1>5. mResolvers' = mResolvers /\ mScoreInternal' = mScoreInternal /\ tests' \in 0 .. MaxTests
      BY RankAssumption DEF test, TypeOK
<1>6. Elements(mResolvers) \subseteq Resolver
      BY ElementsAre DEF TypeOK
<1>. QED  BY <1>3, <1>4, <1>5, <1>6 DEF TypeOK

LEMMA FinishedKeeps ==
    ASSUME TypeOK, NEW r \in Resolver, NEW i \in DOMAIN history[r], finished(r, i)
    PROVE  TypeOK' /\ mResolvers' = mResolvers
<1>1. history[r] \in Seq(Query) /\ i \in 1 .. Len(history[r])
      BY DEF TypeOK
<1>2. PICK outcome \in Outcomes(history[r][i].nic) :
              history' = [history EXCEPT ![r][i] = outcome]
      BY DEF finished
<1>3. outcome \in Query
  <2>1. history[r][i] \in Query
        BY <1>1
  <2>2. history[r][i].nic \in BOOLEAN
        BY <2>1 DEF Query
  <2>. QED  BY <1>2, <2>2, OutcomeIsQuery
<1>4. history' = [history EXCEPT ![r] = [history[r] EXCEPT ![i] = outcome]]
      BY <1>2
<1>5. /\ [history[r] EXCEPT ![i] = outcome] \in Seq(Query)
      /\ Len([history[r] EXCEPT ![i] = outcome]) = Len(history[r])
      BY <1>1, <1>3
<1>6. ASSUME NEW q \in Resolver
      PROVE  /\ history'[q] \in Seq(Query) /\ Len(history'[q]) <= MaxQueryDepth
             /\ q \in Elements(mResolvers) => history'[q] # <<>>
  <2>1. CASE q = r
    <3>1. history'[q] = [history[r] EXCEPT ![i] = outcome]
          BY <1>4, <2>1 DEF TypeOK
    <3>2. Len(history'[q]) = Len(history[r]) /\ Len(history'[q]) # 0
          BY <1>1, <1>5, <3>1
    <3>. QED  BY <1>5, <3>1, <3>2 DEF TypeOK
  <2>2. CASE q # r
        BY <1>4, <2>2 DEF TypeOK
  <2>. QED  BY <2>1, <2>2
<1>7. history' \in [Resolver -> Seq(Query)]
      BY <1>4, <1>5 DEF TypeOK
<1>8. UNCHANGED <<mResolvers, mScoreInternal, tests>>
      BY DEF finished
<1>9. Elements(mResolvers) \subseteq Resolver
      BY ElementsAre DEF TypeOK
<1>. QED  BY <1>6, <1>7, <1>8, <1>9 DEF TypeOK

LEMMA RankKeeps ==
    ASSUME TypeOK, rank
    PROVE  TypeOK' /\ Permutes(mResolvers, mResolvers', Resolver)
<1>1. mResolvers \in Seq(Pool)
  <2>1. mResolvers \in Seq(Resolver)
        BY DEF TypeOK
  <2>. QED  BY <2>1, ElementsAre DEF Pool
<1>2. score \in [Pool -> Int]
      BY ScoresAreIntegers
<1>3. Permutes(mResolvers, mResolvers', Pool)
      BY <1>1, <1>2, SortSorts DEF rank
<1>4. Pool \subseteq Resolver
      BY ElementsAre DEF TypeOK, Pool
<1>5. Permutes(mResolvers, mResolvers', Resolver)
  <2>1. mResolvers' \in Seq(Resolver)
        BY <1>3, <1>4 DEF Permutes
  <2>. QED  BY <1>3, <2>1 DEF Permutes
<1>6. UNCHANGED <<history, mScoreInternal, tests>>
      BY DEF rank
<1>. QED  BY <1>5, <1>6 DEF TypeOK, Permutes

-----------------------------------------------------------------------------
(* The theorems. *)

LEMMA NextKeeps ==
    ASSUME TypeOK, Next
    PROVE  /\ TypeOK'
           /\ Distinct(mResolvers) => Distinct(mResolvers')
           /\ \/ Elements(mResolvers') = Elements(mResolvers)
              \/ Elements(mResolvers') = Elements(T1)
              \/ Elements(mResolvers') = Elements(T1) \cup Elements(T2)
<1>1. CASE bootstrapT1
  <2>1. fromIPList(T1) /\ Elements(mResolvers) = {} /\ T1 \in Seq(Resolver)
        BY <1>1, RankAssumption DEF bootstrapT1, Elements
  <2>. QED  BY <2>1, FromIPListKeeps
<1>2. CASE bootstrapT2
  <2>1. /\ fromIPList(T2) /\ Elements(mResolvers) = Elements(T1)
        /\ T2 \in Seq(Resolver)
        BY <1>2, RankAssumption DEF bootstrapT2
  <2>. QED  BY <2>1, FromIPListKeeps
<1>3. CASE \E r \in Resolver, nic \in BOOLEAN : test(r, nic)
      BY <1>3, TestKeeps
<1>4. CASE \E r \in Resolver : \E i \in DOMAIN history[r] : finished(r, i)
      BY <1>4, FinishedKeeps
<1>5. CASE rank
      BY <1>5, RankKeeps DEF Permutes
<1>6. CASE setScoreInternal
      BY <1>6 DEF setScoreInternal, TypeOK
<1>. QED  BY <1>1, <1>2, <1>3, <1>4, <1>5, <1>6 DEF Next

LEMMA TypeInit == Init => TypeOK
<1> SUFFICES ASSUME Init PROVE TypeOK
    OBVIOUS
<1>1. mResolvers = <<>> /\ mResolvers \in Seq(Resolver) /\ Elements(mResolvers) = {}
      BY DEF Init, Elements
<1>2. history = [r \in Resolver |-> <<>>] /\ mScoreInternal \in BOOLEAN /\ tests = 0
      BY DEF Init
<1>3. <<>> \in Seq(Query) /\ Len(<<>>) = 0
      OBVIOUS
<1>. QED  BY <1>1, <1>2, <1>3, RankAssumption DEF TypeOK

(* Every history has its depth and every resolver of the pool has one: the *)
(* averages that score() reads are averages of queries.                    *)
THEOREM TypeCorrectness == Spec => []TypeOK
<1>1. Init => TypeOK
      BY TypeInit
<1>2. TypeOK /\ [Next]_vars => TypeOK'
  <2>1. ASSUME TypeOK, UNCHANGED vars
        PROVE  TypeOK'
        BY <2>1 DEF vars, TypeOK
  <2>. QED  BY <2>1, NextKeeps
<1>. QED  BY <1>1, <1>2, PTL DEF Spec

(* Loading lists, sorting and shuffling neither lose nor repeat a resolver, *)
(* for lists of any length that may overlap.                                *)
THEOREM PoolIsWhole == Spec => []NoneLost
<1> DEFINE Whole == Elements(mResolvers) \in
                        {{}, Elements(T1), Elements(T1) \cup Elements(T2)}
           Inv == TypeOK /\ Distinct(mResolvers) /\ Whole
<1>1. Init => Inv
      BY TypeInit DEF Init, Distinct, Elements
<1>2. Inv /\ [Next]_vars => Inv'
  <2>1. ASSUME Inv, UNCHANGED vars
        PROVE  Inv'
        BY <2>1 DEF vars, TypeOK, Distinct
  <2>2. ASSUME Inv, Next
        PROVE  Inv'
        BY <2>2, NextKeeps DEF Distinct
  <2>. QED  BY <2>1, <2>2
<1>3. Inv => NoneLost
      BY DEF NoneLost, Distinct
<1>. QED  BY <1>1, <1>2, <1>3, PTL DEF Spec

(* With either rules, for histories of any depth and pools of any size, a  *)
(* ranking puts no resolver before one that is faster and in nothing       *)
(* behind it.                                                              *)
THEOREM JustRanking == Spec => RankingIsJust
<1>1. TypeOK /\ [Next]_vars
          => [rank => \A r, s \in Elements(mResolvers) :
                          Dominates(s, r) => Before(s, r, mResolvers')]_vars
      BY BetterScoresMore, RankPutsBefore DEF Pool
<1>. QED  BY <1>1, TypeCorrectness, PTL DEF Spec, RankingIsJust

(* The slowest resolver of a pool of any size comes behind every one that  *)
(* is faster, whatever else counts for it and under either rules.          *)
THEOREM SlowestComesLast == Spec => SlowestIsLast
<1>1. TypeOK /\ [Next]_vars
          => [rank => \A r, s \in Elements(mResolvers) :
                          Slowest(r) /\ averageLatency(s) < averageLatency(r)
                              => Before(s, r, mResolvers')]_vars
      BY SlowestScoresNothing, RankPutsBefore DEF Pool
<1>. QED  BY <1>1, TypeCorrectness, PTL DEF Spec, SlowestIsLast
=============================================================================
