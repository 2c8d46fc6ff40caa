--------------------------- MODULE WtopRun_proofs ----------------------------
(***************************************************************************)
(* Proofs about the memory plan and the op list made from it, for graphs   *)
(* of any number of operations, any sizes and any budgets.                 *)
(***************************************************************************)
EXTENDS WtopRun, FiniteSetTheorems, SequenceTheorems, TLAPS

\* Induction over the naturals, for a set: the least number that is not in it
\* would be the successor of one that is.
LEMMA SetInduction ==
  ASSUME NEW S, NEW N \in Nat, 0 \in S, \A n \in 0 .. N - 1 : n \in S => n + 1 \in S
  PROVE  0 .. N \subseteq S
<1> SUFFICES ASSUME ~(0 .. N \subseteq S) PROVE FALSE
  OBVIOUS
<1> DEFINE R == (0 .. N) \ S
<1>1. R \in SUBSET Nat /\ R # {}
  OBVIOUS
<1>2. \E x \in R : \A y \in R : ~ (<<y, x>> \in OpToRel(<, Nat))
  BY <1>1, NatLessThanWellFounded, WFMin, Zenon
<1>3. PICK x \in R : \A y \in R : ~ (<<y, x>> \in OpToRel(<, Nat))
  BY <1>2
<1>4. ASSUME NEW y \in R PROVE x <= y
  <2>1. ~ (<<y, x>> \in {ss \in Nat \X Nat : ss[1] < ss[2]})
    BY <1>3 DEF OpToRel
  <2> QED BY <1>1, <2>1
<1>5. x \in 0 .. N /\ x # 0 /\ x \notin S
  BY <1>3
<1>6. x - 1 \in 0 .. N - 1 /\ (x - 1) + 1 = x /\ x - 1 \in 0 .. N
  BY <1>5
<1>7. x - 1 \notin S
  BY <1>5, <1>6
<1>8. x - 1 \in R
  BY <1>6, <1>7
<1> QED BY <1>4, <1>6, <1>8

\* A set of naturals with an element has a least one, and a bounded one has a
\* greatest one.
LEMMA LeastOf ==
  ASSUME NEW S \in SUBSET Nat, S # {}
  PROVE  \E x \in S : \A y \in S : x <= y
<1>2. \E x \in S : \A y \in S : ~ (<<y, x>> \in OpToRel(<, Nat))
  BY NatLessThanWellFounded, WFMin, Zenon
<1>3. PICK x \in S : \A y \in S : ~ (<<y, x>> \in OpToRel(<, Nat))
  BY <1>2
<1>4. ASSUME NEW y \in S PROVE x <= y
  <2>1. ~ (<<y, x>> \in {ss \in Nat \X Nat : ss[1] < ss[2]})
    BY <1>3 DEF OpToRel
  <2> QED BY <2>1
<1> QED BY <1>4

LEMMA GreatestOf ==
  ASSUME NEW N \in Nat, NEW S \in SUBSET (0 .. N), S # {}
  PROVE  \E x \in S : \A y \in S : y <= x
<1> DEFINE R == {N - y : y \in S}
<1>1. R \in SUBSET Nat /\ R # {}
  <2>1. \A y \in S : N - y \in Nat
    OBVIOUS
  <2> QED BY <2>1
<1>2. PICK r \in R : \A q \in R : r <= q
  <2> HIDE DEF R
  <2> QED BY <1>1, LeastOf
<1>3. PICK x \in S : r = N - x
  OBVIOUS
<1>4. ASSUME NEW y \in S PROVE y <= x
  <2>1. N - x <= N - y
    BY <1>2, <1>3
  <2> QED BY <2>1
<1> QED BY <1>4

-----------------------------------------------------------------------------
\* What Select takes: a strictly increasing enumeration of all of the indices.
IsEnum(at, I) ==
  /\ at \in [1 .. Cardinality(I) -> I]
  /\ \A m, n \in 1 .. Cardinality(I) : m < n => at[m] < at[n]
  /\ \A i \in I : \E n \in 1 .. Cardinality(I) : at[n] = i

LEMMA RankFacts ==
  ASSUME NEW I \in SUBSET Nat, IsFiniteSet(I)
  PROVE  /\ Cardinality(I) \in Nat
         /\ \A i \in I : Rank(I, i) \in 1 .. Cardinality(I)
         /\ \A i, k \in I : i < k => Rank(I, i) < Rank(I, k)
<1>1. Cardinality(I) \in Nat
  BY FS_CardinalityType
<1> DEFINE Upto(i) == {j \in I : j <= i}
<1>2. ASSUME NEW i \in I
      PROVE  IsFiniteSet(Upto(i)) /\ Cardinality(Upto(i)) \in Nat
             /\ Cardinality(Upto(i)) <= Cardinality(I) /\ Cardinality(Upto(i)) # 0
  <2>1. Upto(i) \in SUBSET I /\ i \in Upto(i)
    OBVIOUS
  <2>2. IsFiniteSet(Upto(i)) /\ Cardinality(Upto(i)) <= Cardinality(I)
    BY <2>1, FS_Subset
  <2> HIDE DEF Upto
  <2>3. Cardinality(Upto(i)) \in Nat /\ Cardinality(Upto(i)) # 0
    BY <2>1, <2>2, FS_CardinalityType, FS_EmptySet
  <2> QED BY <2>2, <2>3
<1>3. ASSUME NEW i \in I, NEW k \in I, i < k PROVE Cardinality(Upto(i)) < Cardinality(Upto(k))
  <2>0. i \in Nat /\ k \in Nat /\ ~(k <= i) /\ k <= k /\ \A j \in I : j <= i => j <= k
    BY <1>3
  <2>1. Upto(i) \in SUBSET Upto(k) /\ k \in Upto(k) /\ k \notin Upto(i)
    BY <2>0
  <2> HIDE DEF Upto
  <2>2. Cardinality(Upto(i)) <= Cardinality(Upto(k)) /\ Cardinality(Upto(k)) # Cardinality(Upto(i))
    BY <2>1, <1>2, FS_Subset
  <2> QED BY <1>2, <2>2
<1> QED BY <1>1, <1>2, <1>3 DEF Rank

LEMMA SelectFacts ==
  ASSUME NEW s, NEW I \in SUBSET Nat, IsFiniteSet(I)
  PROVE  \E at : /\ IsEnum(at, I)
                 /\ Select(s, I) = [n \in 1 .. Cardinality(I) |-> s[at[n]]]
<1> DEFINE N == Cardinality(I)
           r == [i \in I |-> Rank(I, i)]
           at == [n \in 1 .. N |-> CHOOSE i \in I : Rank(I, i) = n]
<1>1. N \in Nat /\ (\A i \in I : Rank(I, i) \in 1 .. N)
      /\ (\A i, k \in I : i < k => Rank(I, i) < Rank(I, k))
  BY RankFacts
<1>2. r \in Injection(I, 1 .. N)
  <2>1. r \in [I -> 1 .. N]
    BY <1>1
  <2>2. ASSUME NEW i \in I, NEW k \in I, r[i] = r[k] PROVE i = k
    <3>1. i \in Nat /\ k \in Nat /\ r[i] \in Nat /\ r[k] \in Nat
      BY <1>1
    <3>2. i < k => r[i] < r[k]
      BY <1>1
    <3>3. k < i => r[k] < r[i]
      BY <1>1
    <3> HIDE DEF r
    <3> QED BY <2>2, <3>1, <3>2, <3>3
  <2> QED BY <2>1, <2>2 DEF Injection, IsInjective
<1>3. IsFiniteSet(1 .. N) /\ Cardinality(1 .. N) = N
  <2> HIDE DEF N
  <2> QED BY <1>1, FS_Interval
<1>4. r \in Surjection(I, 1 .. N)
  <2> HIDE DEF r
  <2> QED BY <1>2, <1>3, FS_Injection
<1>5. \A n \in 1 .. N : \E i \in I : Rank(I, i) = n
  <2>1. \A n \in 1 .. N : \E i \in I : r[i] = n
    <3> HIDE DEF r
    <3> QED BY <1>4 DEF Surjection
  <2> QED BY <2>1
<1>6. ASSUME NEW n \in 1 .. N PROVE at[n] \in I /\ Rank(I, at[n]) = n
  BY <1>5
<1>7. at \in [1 .. N -> I]
  BY <1>6
<1>8. ASSUME NEW m \in 1 .. N, NEW n \in 1 .. N, m < n PROVE at[m] < at[n]
  <2>1. at[m] \in I /\ at[n] \in I /\ Rank(I, at[m]) = m /\ Rank(I, at[n]) = n
    BY <1>6
  <2> HIDE DEF at
  <2>2. at[m] \in Nat /\ at[n] \in Nat
    BY <2>1
  <2>3. at[n] < at[m] => n < m
    BY <1>1, <2>1
  <2>4. at[n] = at[m] => n = m
    BY <2>1
  <2> QED BY <1>1, <1>8, <2>2, <2>3, <2>4
<1>9. ASSUME NEW i \in I PROVE \E n \in 1 .. N : at[n] = i
  <2>1. Rank(I, i) \in 1 .. N
    BY <1>1
  <2>2. at[Rank(I, i)] \in I /\ Rank(I, at[Rank(I, i)]) = Rank(I, i)
    BY <2>1, <1>6
  <2> HIDE DEF at
  <2>3. PICK k : k = at[Rank(I, i)]
    OBVIOUS
  <2>4. k \in I /\ Rank(I, k) = Rank(I, i)
    BY <2>2, <2>3
  <2>5. Rank(I, i) \in Nat /\ i \in Nat /\ k \in Nat
    BY <1>1, <2>1, <2>4
  <2>6. (k < i => Rank(I, k) < Rank(I, i)) /\ (i < k => Rank(I, i) < Rank(I, k))
    BY <1>1, <2>4
  <2>7. k = i
    BY <2>4, <2>5, <2>6
  <2> QED BY <2>1, <2>3, <2>7
<1>10. IsEnum(at, I)
  <2> HIDE DEF at
  <2> QED BY <1>7, <1>8, <1>9 DEF IsEnum
<1>11. Select(s, I) = [n \in 1 .. N |-> s[at[n]]]
  BY DEF Select
<1> QED BY <1>10, <1>11

\* Filtering a sequence of elements of S.
LEMMA SelectType ==
  ASSUME NEW S, NEW s \in Seq(S), NEW I \in SUBSET DOMAIN s
  PROVE  \E at : /\ IsEnum(at, I) /\ Cardinality(I) \in Nat
                 /\ Select(s, I) \in Seq(S) /\ Len(Select(s, I)) = Cardinality(I)
                 /\ DOMAIN Select(s, I) = 1 .. Cardinality(I)
                 /\ \A n \in 1 .. Cardinality(I) : Select(s, I)[n] = s[at[n]]
<1>1. DOMAIN s = 1 .. Len(s) /\ Len(s) \in Nat /\ IsFiniteSet(1 .. Len(s))
  BY FS_Interval
<1>2. IsFiniteSet(I) /\ I \in SUBSET Nat
  BY <1>1, FS_Subset
<1>3. PICK at : /\ IsEnum(at, I)
                /\ Select(s, I) = [n \in 1 .. Cardinality(I) |-> s[at[n]]]
  BY <1>2, SelectFacts
<1>4. Cardinality(I) \in Nat
  BY <1>2, FS_CardinalityType
<1>5. \A n \in 1 .. Cardinality(I) : s[at[n]] \in S
  BY <1>1, <1>3 DEF IsEnum
<1>6. Select(s, I) \in [1 .. Cardinality(I) -> S]
  BY <1>3, <1>5
<1>7. Select(s, I) \in Seq(S) /\ Len(Select(s, I)) = Cardinality(I)
  BY <1>4, <1>6
<1> QED BY <1>3, <1>4, <1>7

\* The operations of a set in the order of their ids: each of them once.
LEMMA InOrderFacts ==
  ASSUME NEW S \in SUBSET Ops
  PROVE  /\ InOrder(S) \in Seq(S) /\ Range(InOrder(S)) = S
         /\ \A m, n \in DOMAIN InOrder(S) : InOrder(S)[m] = InOrder(S)[n] => m = n
<1>1. NOps \in Nat /\ IsFiniteSet(Ops) /\ Ops \in SUBSET Nat
  BY PlanAssumption, FS_Interval DEF Ops
<1>2. IsFiniteSet(S) /\ S \in SUBSET Nat
  BY <1>1, FS_Subset
<1> DEFINE ids == [o \in Ops |-> o]
<1>3. PICK at : /\ IsEnum(at, S)
                /\ Select(ids, S) = [n \in 1 .. Cardinality(S) |-> ids[at[n]]]
  <2> HIDE DEF ids
  <2> QED BY <1>2, SelectFacts
<1>4. Cardinality(S) \in Nat
  BY <1>2, FS_CardinalityType
<1>5. \A n \in 1 .. Cardinality(S) : at[n] \in S /\ ids[at[n]] = at[n]
  BY <1>3 DEF IsEnum
<1>6. InOrder(S) = [n \in 1 .. Cardinality(S) |-> at[n]]
  BY <1>3, <1>5 DEF InOrder
<1>7. InOrder(S) \in Seq(S) /\ DOMAIN InOrder(S) = 1 .. Cardinality(S)
  <2>1. InOrder(S) \in [1 .. Cardinality(S) -> S]
    BY <1>5, <1>6
  <2> QED BY <2>1, <1>4
<1>8. ASSUME NEW i \in S PROVE i \in Range(InOrder(S))
  <2>1. PICK n \in 1 .. Cardinality(S) : at[n] = i
    BY <1>3 DEF IsEnum
  <2> QED BY <2>1, <1>6 DEF Range
<1>9. Range(InOrder(S)) \subseteq S
  BY <1>5, <1>6 DEF Range
<1>10. ASSUME NEW m \in 1 .. Cardinality(S), NEW n \in 1 .. Cardinality(S), at[m] = at[n]
       PROVE  m = n
  <2>0. at[m] \in S /\ at[n] \in S
    BY <1>5
  <2>1. m \in Nat /\ n \in Nat /\ at[m] \in Nat /\ at[n] \in Nat
    <3>1. at[m] \in Nat /\ at[n] \in Nat
      BY <1>2, <2>0, Zenon
    <3> QED BY <1>4, <3>1
  <2>2. (m < n => at[m] < at[n]) /\ (n < m => at[n] < at[m])
    BY <1>3 DEF IsEnum
  <2> QED BY <1>10, <2>1, <2>2
<1>11. ASSUME NEW m \in DOMAIN InOrder(S), NEW n \in DOMAIN InOrder(S), InOrder(S)[m] = InOrder(S)[n]
       PROVE  m = n
  <2>1. m \in 1 .. Cardinality(S) /\ n \in 1 .. Cardinality(S)
    BY <1>7, <1>11
  <2>2. at[m] = at[n]
    BY <1>6, <1>11, <2>1
  <2> QED BY <1>10, <2>1, <2>2
<1>12. Range(InOrder(S)) = S
  BY <1>8, <1>9
<1> QED BY <1>7, <1>11, <1>12

-----------------------------------------------------------------------------
\* The sums that finalize_spills and the bound on the pool add up.
IsSum(g, f, n) == /\ g \in [0 .. n -> Nat] /\ g[0] = 0
                  /\ \A i \in 1 .. n : g[i] = g[i - 1] + f[i]

LEMMA SumExists ==
  ASSUME NEW n \in Nat, NEW f, \A i \in 1 .. n : f[i] \in Nat
  PROVE  \E g : IsSum(g, f, n)
<1> DEFINE S == {k \in 0 .. n : \E g : IsSum(g, f, k)}
<1>1. 0 \in S
  <2>1. IsSum([i \in 0 .. 0 |-> 0], f, 0)
    BY DEF IsSum
  <2> QED BY <2>1
<1>2. ASSUME NEW k \in 0 .. n - 1, k \in S PROVE k + 1 \in S
  <2>1. PICK g : IsSum(g, f, k)
    BY <1>2
  <2>2. k + 1 \in 1 .. n /\ k \in 0 .. k /\ k + 1 \in Nat
    OBVIOUS
  <2>3. g[k] \in Nat /\ f[k + 1] \in Nat
    BY <2>1, <2>2 DEF IsSum
  <2> DEFINE h == [i \in 0 .. k + 1 |-> IF i = k + 1 THEN g[k] + f[k + 1] ELSE g[i]]
  <2>4. h \in [0 .. k + 1 -> Nat]
    <3>1. ASSUME NEW i \in 0 .. k + 1, i # k + 1 PROVE i \in 0 .. k
      BY <3>1
    <3>2. \A i \in 0 .. k : g[i] \in Nat
      BY <2>1 DEF IsSum
    <3> QED BY <2>3, <3>1, <3>2
  <2>5. h[0] = 0
    BY <2>1 DEF IsSum
  <2>6. ASSUME NEW i \in 1 .. k + 1 PROVE h[i] = h[i - 1] + f[i]
    <3>1. CASE i = k + 1
      <4>1. i - 1 = k /\ i \in 0 .. k + 1 /\ k \in 0 .. k + 1 /\ k # k + 1
        BY <3>1
      <4> QED BY <3>1, <4>1
    <3>2. CASE i # k + 1
      <4>1. i \in 1 .. k /\ i - 1 \in 0 .. k + 1 /\ i - 1 # k + 1 /\ i \in 0 .. k + 1
        BY <3>2
      <4>2. g[i] = g[i - 1] + f[i]
        BY <2>1, <4>1 DEF IsSum
      <4> QED BY <3>2, <4>1, <4>2
    <3> QED BY <3>1, <3>2
  <2>7. IsSum(h, f, k + 1)
    <3> HIDE DEF h
    <3> QED BY <2>4, <2>5, <2>6 DEF IsSum
  <2> QED BY <2>2, <2>7
<1>3. 0 .. n \subseteq S
  <2> HIDE DEF S
  <2> QED BY <1>1, <1>2, SetInduction
<1> QED BY <1>3

LEMMA SumIs ==
  ASSUME NEW n \in Nat, NEW f, NEW g, IsSum(g, f, n), NEW m \in 0 .. n
  PROVE  SumTo(f, m) = g[m]
<1> DEFINE Rec(h) == h = [i \in 0 .. m |-> IF i = 0 THEN 0 ELSE h[i - 1] + f[i]]
<1>1. \E h : Rec(h)
  <2> DEFINE h == [i \in 0 .. m |-> g[i]]
  <2>1. ASSUME NEW i \in 0 .. m PROVE h[i] = IF i = 0 THEN 0 ELSE h[i - 1] + f[i]
    <3>1. CASE i = 0
      BY <3>1 DEF IsSum
    <3>2. CASE i # 0
      <4>1. i - 1 \in 0 .. m /\ i \in 1 .. n
        BY <3>2
      <4> QED BY <3>2, <4>1 DEF IsSum
    <3> QED BY <3>1, <3>2
  <2>2. Rec(h)
    BY <2>1
  <2> QED BY <2>2
<1>2. PICK h : Rec(h) /\ h = CHOOSE x : Rec(x)
  BY <1>1
<1>3. SumTo(f, m) = h[m]
  BY <1>2 DEF SumTo
<1> DEFINE S == {k \in 0 .. m : h[k] = g[k]}
<1>4. 0 \in S
  BY <1>2 DEF IsSum
<1>5. ASSUME NEW k \in 0 .. m - 1, k \in S PROVE k + 1 \in S
  <2>1. k + 1 \in 0 .. m /\ k + 1 # 0 /\ (k + 1) - 1 = k /\ k + 1 \in 1 .. n
    OBVIOUS
  <2>2. h[k + 1] = h[k] + f[k + 1]
    BY <1>2, <2>1
  <2>3. g[k + 1] = g[k] + f[k + 1]
    BY <2>1 DEF IsSum
  <2> QED BY <1>5, <2>1, <2>2, <2>3
<1>6. 0 .. m \subseteq S
  <2> HIDE DEF S
  <2>1. m \in Nat
    OBVIOUS
  <2> QED BY <1>4, <1>5, <2>1, SetInduction
<1> QED BY <1>3, <1>6

\* Sums are naturals, and each summand separates those before and behind it.
LEMMA SumFacts ==
  ASSUME NEW n \in Nat, NEW f, \A i \in 1 .. n : f[i] \in Nat
  PROVE  /\ \A m \in 0 .. n : SumTo(f, m) \in Nat
         /\ SumTo(f, 0) = 0
         /\ \A m \in 1 .. n : SumTo(f, m) = SumTo(f, m - 1) + f[m]
         /\ \A l, m \in 0 .. n : l < m => SumTo(f, l) + f[l + 1] <= SumTo(f, m)
<1>1. PICK g : IsSum(g, f, n)
  BY SumExists
<1>2. \A m \in 0 .. n : SumTo(f, m) = g[m] /\ g[m] \in Nat
  <2>1. g \in [0 .. n -> Nat]
    BY <1>1 DEF IsSum
  <2>2. \A m \in 0 .. n : SumTo(f, m) = g[m]
    BY <1>1, SumIs
  <2> QED BY <2>1, <2>2
<1>3. ASSUME NEW m \in 1 .. n PROVE SumTo(f, m) = SumTo(f, m - 1) + f[m]
  <2>1. m \in 0 .. n /\ m - 1 \in 0 .. n
    OBVIOUS
  <2> QED BY <1>1, <1>2, <2>1 DEF IsSum
<1>4. ASSUME NEW l \in 0 .. n, NEW m \in 0 .. n, l < m
      PROVE  SumTo(f, l) + f[l + 1] <= SumTo(f, m)
  <2> DEFINE S == {k \in 0 .. n - (l + 1) : g[l] + f[l + 1] <= g[l + 1 + k]}
  <2>0. n - (l + 1) \in Nat /\ l + 1 \in 1 .. n /\ l \in 0 .. n
    BY <1>4
  <2>1. 0 \in S
    <3>1. g[l + 1] = g[(l + 1) - 1] + f[l + 1] /\ (l + 1) - 1 = l /\ l + 1 + 0 = l + 1
      BY <1>1, <2>0 DEF IsSum
    <3>2. g[l] \in Nat /\ f[l + 1] \in Nat
      BY <1>2, <2>0
    <3> QED BY <2>0, <3>1, <3>2
  <2>2. ASSUME NEW k \in 0 .. (n - (l + 1)) - 1, k \in S PROVE k + 1 \in S
    <3>1. l + 1 + (k + 1) \in 1 .. n /\ (l + 1 + (k + 1)) - 1 = l + 1 + k /\ l + 1 + k \in 0 .. n
          /\ k + 1 \in 0 .. n - (l + 1)
      BY <2>0
    <3>2. g[l + 1 + (k + 1)] = g[l + 1 + k] + f[l + 1 + (k + 1)]
      BY <1>1, <3>1 DEF IsSum
    <3>3. g[l + 1 + k] \in Nat /\ f[l + 1 + (k + 1)] \in Nat /\ g[l] \in Nat /\ f[l + 1] \in Nat
      BY <1>2, <2>0, <3>1
    <3>4. g[l] + f[l + 1] <= g[l + 1 + k]
      BY <2>2
    <3>5. g[l] + f[l + 1] <= g[l + 1 + (k + 1)]
      BY <3>2, <3>3, <3>4
    <3> QED BY <3>1, <3>5
  <2>3. 0 .. n - (l + 1) \subseteq S
    <3> HIDE DEF S
    <3> QED BY <2>0, <2>1, <2>2, SetInduction
  <2>4. m - (l + 1) \in 0 .. n - (l + 1) /\ l + 1 + (m - (l + 1)) = m
    BY <1>4, <2>0
  <2>5. g[l] + f[l + 1] <= g[m]
    BY <2>3, <2>4
  <2> QED BY <1>2, <2>5
<1>5. SumTo(f, 0) = 0
  BY <1>1, <1>2 DEF IsSum
<1> QED BY <1>2, <1>3, <1>4, <1>5

\* A sum grows with its summands, and by at least what one of them grows by.
LEMMA SumGrows ==
  ASSUME NEW n \in Nat, NEW f, NEW g, NEW k \in 1 .. n + 1, NEW d \in Nat,
         \A i \in 1 .. n : f[i] \in Nat /\ g[i] \in Nat /\ f[i] + (IF i = k THEN d ELSE 0) <= g[i]
  PROVE  SumTo(f, n) + (IF k <= n THEN d ELSE 0) <= SumTo(g, n)
<1> DEFINE S == {m \in 0 .. n : SumTo(f, m) + (IF k <= m THEN d ELSE 0) <= SumTo(g, m)}
<1>1. /\ \A m \in 0 .. n : SumTo(f, m) \in Nat
      /\ SumTo(f, 0) = 0
      /\ \A m \in 1 .. n : SumTo(f, m) = SumTo(f, m - 1) + f[m]
  BY SumFacts
<1>2. /\ \A m \in 0 .. n : SumTo(g, m) \in Nat
      /\ SumTo(g, 0) = 0
      /\ \A m \in 1 .. n : SumTo(g, m) = SumTo(g, m - 1) + g[m]
  BY SumFacts
<1>3. 0 \in S
  BY <1>1, <1>2
<1>4. ASSUME NEW m \in 0 .. n - 1, m \in S PROVE m + 1 \in S
  <2>1. m + 1 \in 1 .. n /\ (m + 1) - 1 = m /\ m \in 0 .. n /\ m + 1 \in 0 .. n
    OBVIOUS
  <2>2. SumTo(f, m + 1) = SumTo(f, m) + f[m + 1] /\ SumTo(g, m + 1) = SumTo(g, m) + g[m + 1]
    BY <1>1, <1>2, <2>1
  <2>3. /\ SumTo(f, m) \in Nat /\ SumTo(g, m) \in Nat /\ f[m + 1] \in Nat /\ g[m + 1] \in Nat
        /\ f[m + 1] + (IF m + 1 = k THEN d ELSE 0) <= g[m + 1]
    BY <1>1, <1>2, <2>1
  <2>4. SumTo(f, m) + (IF k <= m THEN d ELSE 0) <= SumTo(g, m)
    BY <1>4
  <2>5. SumTo(f, m + 1) + (IF k <= m + 1 THEN d ELSE 0) <= SumTo(g, m + 1)
    BY <2>2, <2>3, <2>4
  <2> QED BY <2>1, <2>5
<1>5. 0 .. n \subseteq S
  <2> HIDE DEF S
  <2> QED BY <1>3, <1>4, SetInduction
<1> QED BY <1>5

-----------------------------------------------------------------------------
\* Orders: every operation once.
IsPerm(seq) == seq \in [Ops -> Ops] /\ \A i, j \in Ops : seq[i] = seq[j] => i = j

LEMMA OpsFacts == NOps \in Nat \ {0} /\ IsFiniteSet(Ops) /\ Cardinality(Ops) = NOps /\ Ops \in SUBSET Nat
<1>1. NOps \in Nat \ {0}
  BY PlanAssumption
<1>2. IsFiniteSet(1 .. NOps) /\ Cardinality(1 .. NOps) = NOps
  BY <1>1, FS_Interval
<1> QED BY <1>1, <1>2 DEF Ops

LEMMA PermFacts ==
  ASSUME NEW seq, IsPerm(seq)
  PROVE  /\ Len(seq) = NOps /\ DOMAIN seq = Ops /\ seq \in Seq(Ops) /\ Range(seq) = Ops
         /\ \A i \in Ops : Pos(seq, seq[i]) = i - 1
         /\ \A o \in Ops : Pos(seq, o) \in 0 .. NOps - 1 /\ seq[Pos(seq, o) + 1] = o
         /\ \A a, b \in Ops : Pos(seq, a) = Pos(seq, b) => a = b
<1>1. NOps \in Nat \ {0} /\ seq \in [1 .. NOps -> Ops] /\ DOMAIN seq = Ops /\ Ops = 1 .. NOps
  BY OpsFacts DEF IsPerm, Ops
<1>2. seq \in Seq(Ops) /\ Len(seq) = NOps
  BY <1>1
<1>3. seq \in Injection(Ops, Ops)
  BY DEF IsPerm, Injection, IsInjective
<1>4. seq \in Surjection(Ops, Ops)
  BY <1>3, OpsFacts, FS_Injection
<1>5. \A o \in Ops : \E i \in Ops : seq[i] = o
  BY <1>4 DEF Surjection
<1>6. ASSUME NEW i \in Ops PROVE Pos(seq, seq[i]) = i - 1
  <2>1. \A k \in DOMAIN seq : seq[k] = seq[i] => k = i
    BY <1>1 DEF IsPerm
  <2>2. (CHOOSE k \in DOMAIN seq : seq[k] = seq[i]) = i
    BY <1>1, <2>1
  <2> QED BY <2>2 DEF Pos
<1>7. ASSUME NEW o \in Ops PROVE Pos(seq, o) \in 0 .. NOps - 1 /\ seq[Pos(seq, o) + 1] = o
  <2>1. PICK i \in Ops : seq[i] = o
    BY <1>5
  <2>2. Pos(seq, o) = i - 1 /\ (i - 1) + 1 = i /\ i - 1 \in 0 .. NOps - 1
    BY <1>1, <1>6, <2>1
  <2> QED BY <2>1, <2>2
<1>8. Range(seq) = Ops
  <2>1. \A i \in Ops : seq[i] \in Ops
    BY <1>1
  <2> QED BY <1>1, <1>5, <2>1 DEF Range
<1>9. ASSUME NEW a \in Ops, NEW b \in Ops, Pos(seq, a) = Pos(seq, b) PROVE a = b
  BY <1>7, <1>9
<1> QED BY <1>1, <1>2, <1>6, <1>7, <1>8, <1>9

-----------------------------------------------------------------------------
\* The graph, and the order of do_prepare2_late.
GraphOK == ins \in [Ops -> SUBSET Ops] /\ size \in [Ops -> Nat \ {0}]

\* A tensor lives from its producer until behind all its consumers.
LEMMA LifeFacts ==
  ASSUME IsPerm(order), NEW o \in Ops
  PROVE  /\ LifeBegin(o) \in Nat /\ LifeEnd(o) \in Nat /\ LifeBegin(o) < LifeEnd(o)
         /\ LifeEnd(o) <= NOps
         /\ \A c \in Consumers(o) : Pos(order, c) < LifeEnd(o)
<1>1. NOps \in Nat \ {0} /\ \A x \in Ops : Pos(order, x) \in 0 .. NOps - 1
  BY OpsFacts, PermFacts
<1>2. LifeBegin(o) \in 0 .. NOps - 1 /\ LifeBegin(o) = Pos(order, o)
  BY <1>1 DEF LifeBegin
<1>3. \A c \in Consumers(o) : c \in Ops
  BY DEF Consumers
<1>4. CASE o = Out
  <2>1. LifeEnd(o) = NOps
    BY <1>4 DEF LifeEnd
  <2>2. \A x \in Ops : Pos(order, x) < NOps
    BY <1>1
  <2> QED BY <1>1, <1>2, <1>3, <2>1, <2>2
<1>5. CASE o # Out
  <2> DEFINE U == Consumers(o) \cup {o}
             E == {Pos(order, c) + 1 : c \in U}
  <2>1. U \subseteq Ops
    BY <1>3
  <2>2. E \in SUBSET (0 .. NOps) /\ E # {}
    <3>1. \A x \in Ops : Pos(order, x) + 1 \in 0 .. NOps
      BY <1>1
    <3> QED BY <2>1, <3>1
  <2>3. PICK e \in E : \A y \in E : y <= e
    <3> HIDE DEF E
    <3> QED BY <1>1, <2>2, GreatestOf
  <2>4. PICK c \in U : e = Pos(order, c) + 1
    BY <2>3
  <2>5. e \in 1 .. NOps
    <3>1. Pos(order, c) \in 0 .. NOps - 1
      BY <1>1, <2>1, <2>4
    <3> QED BY <1>1, <2>4, <3>1
  <2>6. \A x \in U : Pos(order, x) + 1 <= e
    BY <2>3
  <2> DEFINE IsEnd(n) == /\ \E x \in U : n = Pos(order, x) + 1
                         /\ \A x \in U : Pos(order, x) + 1 <= n
  <2>7. \E n \in 1 .. NOps : IsEnd(n)
    BY <2>4, <2>5, <2>6
  <2>8. LifeEnd(o) = CHOOSE n \in 1 .. NOps : IsEnd(n)
    BY <1>5 DEF LifeEnd
  <2>9. LifeEnd(o) \in 1 .. NOps /\ IsEnd(LifeEnd(o))
    <3> HIDE DEF IsEnd
    <3> QED BY <2>7, <2>8
  <2>10. \A x \in U : Pos(order, x) < LifeEnd(o)
    <3>1. ASSUME NEW x \in U PROVE Pos(order, x) < LifeEnd(o)
      <4>1. Pos(order, x) \in 0 .. NOps - 1 /\ Pos(order, x) + 1 <= LifeEnd(o)
        BY <1>1, <2>1, <2>9
      <4> QED BY <1>1, <2>9, <4>1
    <3> QED BY <3>1
  <2> QED BY <1>1, <1>2, <2>9, <2>10
<1> QED BY <1>4, <1>5

-----------------------------------------------------------------------------
\* The state of allocate_with_lifetime: ranges that are in use or on the free
\* list are pairwise disjoint and below the high water mark.
Block == [off : Nat, size : Nat, end : Nat]
Gap == [lo : Nat, hi : Nat]
Disjoint(lo, hi, lo2, hi2) == hi <= lo2 \/ hi2 <= lo

BlocksOK(bs, top) ==
  /\ bs \in Seq(Block)
  /\ \A i \in DOMAIN bs : bs[i].off + bs[i].size <= top
  /\ \A i, j \in DOMAIN bs : i # j =>
       Disjoint(bs[i].off, bs[i].off + bs[i].size, bs[j].off, bs[j].off + bs[j].size)
GapsOK(gs, top) ==
  /\ gs \in Seq(Gap)
  /\ \A i \in DOMAIN gs : gs[i].hi <= top
  /\ \A i, j \in DOMAIN gs : i # j => Disjoint(gs[i].lo, gs[i].hi, gs[j].lo, gs[j].hi)
Separate(gs, bs) ==
  \A i \in DOMAIN gs : \A j \in DOMAIN bs :
    Disjoint(gs[i].lo, gs[i].hi, bs[j].off, bs[j].off + bs[j].size)

PoolOK == /\ high_water \in Nat /\ high_water <= Limit(pool)
          /\ BlocksOK(active, high_water) /\ GapsOK(free_list, high_water)
          /\ Separate(free_list, active)

\* Giving dead ranges back keeps the ranges disjoint, and the allocations that are
\* alive stay, all of them.
LEMMA AliveFacts ==
  ASSUME NEW o, PoolOK
  PROVE  /\ BlocksOK(Alive(o), high_water)
         /\ \A j \in DOMAIN Alive(o) : \E i \in DOMAIN active : Alive(o)[j] = active[i] /\ ~IsDead(active[i], o)
         /\ \A i \in DOMAIN active : ~IsDead(active[i], o) => \E j \in DOMAIN Alive(o) : Alive(o)[j] = active[i]
<1> DEFINE I == {i \in DOMAIN active : ~IsDead(active[i], o)}
           s == Alive(o)
<1>0. active \in Seq(Block) /\ I \in SUBSET DOMAIN active /\ s = Select(active, I)
  BY DEF PoolOK, BlocksOK, Alive
<1>1. PICK at : /\ IsEnum(at, I) /\ Cardinality(I) \in Nat
                /\ s \in Seq(Block) /\ Len(s) = Cardinality(I)
                /\ DOMAIN s = 1 .. Cardinality(I)
                /\ \A n \in 1 .. Cardinality(I) : s[n] = active[at[n]]
  <2> HIDE DEF I, s
  <2> QED BY <1>0, SelectType
<1>2. ASSUME NEW j \in DOMAIN s PROVE at[j] \in I /\ s[j] = active[at[j]] /\ j \in 1 .. Cardinality(I)
  <2> HIDE DEF I, s
  <2> QED BY <1>1 DEF IsEnum
<1>3. ASSUME NEW i \in DOMAIN s, NEW j \in DOMAIN s, i # j PROVE at[i] # at[j]
  <2>1. i \in 1 .. Cardinality(I) /\ j \in 1 .. Cardinality(I) /\ at[i] \in I /\ at[j] \in I
    BY <1>2
  <2>2. at[i] \in Nat /\ at[j] \in Nat
    BY <1>0, <2>1
  <2> HIDE DEF I, s
  <2>3. (i < j => at[i] < at[j]) /\ (j < i => at[j] < at[i])
    BY <1>1, <2>1 DEF IsEnum
  <2> QED BY <1>1, <1>3, <2>1, <2>2, <2>3
<1>4. ASSUME NEW i \in DOMAIN active, ~IsDead(active[i], o) PROVE \E j \in DOMAIN s : s[j] = active[i]
  <2>1. i \in I
    BY <1>4
  <2> HIDE DEF I, s
  <2>2. PICK n \in 1 .. Cardinality(I) : at[n] = i
    BY <1>1, <2>1 DEF IsEnum
  <2> QED BY <1>1, <2>2
<1>5. BlocksOK(s, high_water)
  <2>1. \A j \in DOMAIN s : at[j] \in DOMAIN active /\ s[j] = active[at[j]]
    BY <1>2
  <2>2. BlocksOK(active, high_water)
    BY DEF PoolOK
  <2> HIDE DEF s, I
  <2>3. \A j \in DOMAIN s : s[j].off + s[j].size <= high_water
    BY <2>1, <2>2 DEF BlocksOK
  <2>4. ASSUME NEW i \in DOMAIN s, NEW j \in DOMAIN s, i # j
        PROVE  Disjoint(s[i].off, s[i].off + s[i].size, s[j].off, s[j].off + s[j].size)
    <3>1. at[i] # at[j]
      BY <1>3, <2>4
    <3> QED BY <2>1, <2>2, <3>1 DEF BlocksOK
  <2> QED BY <1>1, <2>3, <2>4 DEF BlocksOK
<1>6. \A j \in DOMAIN s : \E i \in DOMAIN active : s[j] = active[i] /\ ~IsDead(active[i], o)
  BY <1>2
<1> QED BY <1>4, <1>5, <1>6

LEMMA FreedFacts ==
  ASSUME NEW o, PoolOK
  PROVE  GapsOK(Freed(o), high_water) /\ Separate(Freed(o), Alive(o))
<1> DEFINE I == {i \in DOMAIN active : IsDead(active[i], o)}
           s == Select(active, I)
           g == [i \in DOMAIN s |-> [lo |-> s[i].off, hi |-> s[i].off + s[i].size]]
           F == free_list \o g
<1>0. active \in Seq(Block) /\ I \in SUBSET DOMAIN active /\ free_list \in Seq(Gap) /\ high_water \in Nat
      /\ s = Select(active, I)
  BY DEF PoolOK, BlocksOK, GapsOK
<1>1. PICK at : /\ IsEnum(at, I) /\ Cardinality(I) \in Nat
                /\ s \in Seq(Block) /\ Len(s) = Cardinality(I)
                /\ DOMAIN s = 1 .. Cardinality(I)
                /\ \A n \in 1 .. Cardinality(I) : s[n] = active[at[n]]
  <2> HIDE DEF I, s
  <2> QED BY <1>0, SelectType
<1>2. ASSUME NEW j \in DOMAIN s
      PROVE  at[j] \in I /\ at[j] \in DOMAIN active /\ s[j] = active[at[j]] /\ s[j] \in Block
  <2>1. at[j] \in I /\ s[j] = active[at[j]] /\ s[j] \in Block
    <3> HIDE DEF I, s
    <3> QED BY <1>1 DEF IsEnum
  <2> QED BY <2>1
<1>3. ASSUME NEW i \in DOMAIN s, NEW j \in DOMAIN s, i # j PROVE at[i] # at[j]
  <2>1. i \in 1 .. Cardinality(I) /\ j \in 1 .. Cardinality(I) /\ at[i] \in DOMAIN active /\ at[j] \in DOMAIN active
    BY <1>1, <1>2
  <2>2. at[i] \in Nat /\ at[j] \in Nat
    BY <1>0, <2>1
  <2> HIDE DEF I, s
  <2>3. (i < j => at[i] < at[j]) /\ (j < i => at[j] < at[i])
    BY <1>1, <2>1 DEF IsEnum
  <2> QED BY <1>1, <1>3, <2>1, <2>2, <2>3
<1>4. g \in Seq(Gap) /\ Len(g) = Len(s)
  <2>1. \A i \in DOMAIN s : s[i] \in Block
    BY <1>2
  <2>2. g \in [1 .. Len(s) -> Gap]
    <3> HIDE DEF s
    <3>1. \A i \in DOMAIN s : [lo |-> s[i].off, hi |-> s[i].off + s[i].size] \in Gap
      BY <2>1 DEF Block, Gap
    <3> QED BY <1>1, <3>1
  <2> HIDE DEF g
  <2> QED BY <1>1, <2>2
<1>5. ASSUME NEW j \in DOMAIN g
      PROVE  /\ at[j] \in DOMAIN active /\ active[at[j]] \in Block /\ IsDead(active[at[j]], o)
             /\ g[j].lo = active[at[j]].off /\ g[j].hi = active[at[j]].off + active[at[j]].size
  <2>1. j \in DOMAIN s
    OBVIOUS
  <2>2. at[j] \in I /\ at[j] \in DOMAIN active /\ s[j] = active[at[j]] /\ s[j] \in Block
    BY <1>2, <2>1
  <2> HIDE DEF s
  <2> QED BY <2>1, <2>2
<1>6. ASSUME NEW i \in DOMAIN g, NEW j \in DOMAIN g, i # j
      PROVE  Disjoint(g[i].lo, g[i].hi, g[j].lo, g[j].hi)
  <2>1. at[i] # at[j]
    BY <1>3, <1>6
  <2> HIDE DEF g, s, I
  <2> QED BY <1>5, <1>6, <2>1 DEF PoolOK, BlocksOK
<1>7. ASSUME NEW i \in DOMAIN free_list, NEW j \in DOMAIN g
      PROVE  Disjoint(free_list[i].lo, free_list[i].hi, g[j].lo, g[j].hi)
  <2> HIDE DEF g, s, I
  <2> QED BY <1>5 DEF PoolOK, Separate
<1>8. \A j \in DOMAIN g : g[j].hi <= high_water
  <2> HIDE DEF g, s, I
  <2> QED BY <1>5 DEF PoolOK, BlocksOK
<1>9. F = Freed(o)
  BY DEF Freed
<1>10. F \in Seq(Gap) /\ Len(F) = Len(free_list) + Len(g) /\ Len(g) \in Nat /\ Len(free_list) \in Nat
  <2> HIDE DEF g
  <2> QED BY <1>0, <1>4
<1>11. ASSUME NEW k \in DOMAIN F
       PROVE  \/ k \in DOMAIN free_list /\ F[k] = free_list[k]
              \/ k - Len(free_list) \in DOMAIN g /\ F[k] = g[k - Len(free_list)] /\ k \notin DOMAIN free_list
  <2> HIDE DEF g
  <2> QED BY <1>0, <1>4, <1>10
<1>12. ASSUME NEW k \in DOMAIN F, NEW l \in DOMAIN F, k # l
       PROVE  Disjoint(F[k].lo, F[k].hi, F[l].lo, F[l].hi)
  <2>0. F[k] \in Gap /\ F[l] \in Gap /\ k \in Nat /\ l \in Nat /\ Len(free_list) \in Nat
    <3> HIDE DEF F
    <3> QED BY <1>10
  <2> HIDE DEF g, F
  <2>1. CASE k \in DOMAIN free_list /\ F[k] = free_list[k]
    <3>1. CASE l \in DOMAIN free_list /\ F[l] = free_list[l]
      BY <1>12, <2>1, <3>1 DEF PoolOK, GapsOK
    <3>2. CASE l - Len(free_list) \in DOMAIN g /\ F[l] = g[l - Len(free_list)]
      BY <1>7, <2>1, <3>2
    <3> QED BY <1>11, <3>1, <3>2
  <2>2. CASE k - Len(free_list) \in DOMAIN g /\ F[k] = g[k - Len(free_list)]
    <3>1. CASE l \in DOMAIN free_list /\ F[l] = free_list[l]
      <4>1. Disjoint(F[l].lo, F[l].hi, F[k].lo, F[k].hi)
        BY <1>7, <2>2, <3>1
      <4> QED BY <4>1 DEF Disjoint
    <3>2. CASE l - Len(free_list) \in DOMAIN g /\ F[l] = g[l - Len(free_list)]
      <4>1. k - Len(free_list) # l - Len(free_list)
        BY <1>12, <2>0
      <4> QED BY <1>6, <2>2, <3>2, <4>1
    <3> QED BY <1>11, <3>1, <3>2
  <2> QED BY <1>11, <2>1, <2>2
<1>13. \A k \in DOMAIN F : F[k].hi <= high_water
  <2> HIDE DEF g, F
  <2> QED BY <1>8, <1>11 DEF PoolOK, GapsOK
<1>14. ASSUME NEW k \in DOMAIN F, NEW j \in DOMAIN Alive(o)
       PROVE  Disjoint(F[k].lo, F[k].hi, Alive(o)[j].off, Alive(o)[j].off + Alive(o)[j].size)
  <2>1. PICK i \in DOMAIN active : Alive(o)[j] = active[i] /\ ~IsDead(active[i], o)
    BY AliveFacts
  <2>2. CASE k \in DOMAIN free_list /\ F[k] = free_list[k]
    <3> HIDE DEF F
    <3> QED BY <2>1, <2>2 DEF PoolOK, Separate
  <2>3. CASE k - Len(free_list) \in DOMAIN g /\ F[k] = g[k - Len(free_list)]
    <3> DEFINE m == at[k - Len(free_list)]
    <3>1. m \in DOMAIN active /\ IsDead(active[m], o) /\ F[k].lo = active[m].off
          /\ F[k].hi = active[m].off + active[m].size
      <4> HIDE DEF g, F
      <4> QED BY <1>5, <2>3
    <3> HIDE DEF m, F
    <3>2. m # i
      BY <2>1, <3>1
    <3> QED BY <2>1, <3>1, <3>2 DEF PoolOK, BlocksOK
  <2> QED BY <1>11, <2>2, <2>3
<1>15. GapsOK(F, high_water) /\ Separate(F, Alive(o))
  <2> HIDE DEF F
  <2> QED BY <1>10, <1>12, <1>13, <1>14 DEF GapsOK, Separate
<1> QED BY <1>9, <1>15

-----------------------------------------------------------------------------
\* What do_prepare2_late's sort keeps: an operation on the stack or in the result
\* has no producer left that counts, those of the result come before it, and
\* nothing is pushed twice.
Pending(seq, done, o) == {s \in ins[o] : Edge(seq, s, o) /\ s \notin Range(done)}
Distinct(seq) == \A i, j \in DOMAIN seq : seq[i] = seq[j] => i = j

KahnIs(seq, deg, stack, done) ==
  /\ IsPerm(seq)
  /\ done \in Seq(Ops) /\ stack \in Seq(Ops)
  /\ Distinct(done) /\ Distinct(stack) /\ Range(done) \cap Range(stack) = {}
  /\ deg = [o \in Ops |-> Cardinality(Pending(seq, done, o))]
  /\ \A o \in Range(done) \cup Range(stack) : Pending(seq, done, o) = {}
  /\ \A k \in DOMAIN done : \A s \in ins[done[k]] :
       Edge(seq, s, done[k]) => \E j \in DOMAIN done : j < k /\ done[j] = s
KahnOK == KahnIs(sched, indeg, ready, topo)

\* What allocate_with_lifetime keeps: requests come in the order of their
\* beginnings; a tensor that has a place in the pool is among the active ones or
\* has died before everything that is still to come.
Shape(o) == [off |-> plan[o].off, size |-> size[o], end |-> LifeEnd(o)]

Rising(seq) == \A i, j \in DOMAIN seq : i < j => LifeBegin(seq[i]) < LifeBegin(seq[j])

Tracked(o) ==
  \/ \E j \in DOMAIN active : active[j] = Shape(o)
  \/ \A i \in DOMAIN todo : LifeEnd(o) < LifeBegin(todo[i])

PlaceOK ==
  /\ pool \in {"vtcm", "ddr"} /\ PoolOK
  /\ todo \in Seq(Ops) /\ rest \in Seq(Ops) /\ Rising(todo) /\ Rising(rest)
  /\ \A i \in DOMAIN rest : \A j \in DOMAIN todo : LifeBegin(rest[i]) < LifeBegin(todo[j])
  /\ Ops = DOMAIN plan \cup Range(todo) \cup Range(rest)
  /\ DOMAIN plan \cap (Range(todo) \cup Range(rest)) = {}
  /\ \A o \in DOMAIN plan : /\ plan[o].pool # "spill"
                            /\ pool = "vtcm" => plan[o].pool = "vtcm"
                            /\ plan[o].pool = pool => Tracked(o)

PlanInv ==
  /\ GraphOK /\ budget \in Nat \X Nat
  /\ DOMAIN plan \subseteq Ops /\ \A o \in DOMAIN plan : plan[o] \in Places
  /\ phase = "order" => KahnOK /\ DOMAIN plan = {}
  /\ phase # "order" => IsPerm(order)
  /\ phase = "place" => PlaceOK
  /\ phase # "place" => active = <<>> /\ free_list = <<>>
  /\ phase \notin {"order", "place"} /\ Planned => DOMAIN plan = Ops
  /\ phase = "reorder" => KahnOK
  /\ NoLiveOverlap
  /\ \A o \in DOMAIN plan : plan[o].pool # "spill" => plan[o].off + size[o] <= Limit(plan[o].pool)

-----------------------------------------------------------------------------
\* Taking the front of a gap: what is left of the free list lies inside of what it
\* was, and does not meet what was taken.
LEMMA RemoveFacts ==
  ASSUME NEW S, NEW s \in Seq(S), NEW i \in DOMAIN s
  PROVE  /\ RemoveAt(s, i) \in Seq(S) /\ Len(RemoveAt(s, i)) = Len(s) - 1
         /\ \A k \in DOMAIN RemoveAt(s, i) :
              RemoveAt(s, i)[k] = s[IF k < i THEN k ELSE k + 1]
<1>1. Len(s) \in Nat /\ i \in 1 .. Len(s) /\ DOMAIN s = 1 .. Len(s)
  OBVIOUS
<1>2. SubSeq(s, 1, i - 1) \in Seq(S) /\ Len(SubSeq(s, 1, i - 1)) = i - 1
      /\ \A k \in 1 .. i - 1 : SubSeq(s, 1, i - 1)[k] = s[k]
  BY <1>1
<1>3. SubSeq(s, i + 1, Len(s)) \in Seq(S) /\ Len(SubSeq(s, i + 1, Len(s))) = Len(s) - i
      /\ \A k \in 1 .. Len(s) - i : SubSeq(s, i + 1, Len(s))[k] = s[i + k]
  BY <1>1
<1> DEFINE a == SubSeq(s, 1, i - 1)
           b == SubSeq(s, i + 1, Len(s))
<1>4. RemoveAt(s, i) = a \o b
  BY DEF RemoveAt
<1> HIDE DEF a, b
<1>5. a \in Seq(S) /\ b \in Seq(S) /\ Len(a) = i - 1 /\ Len(b) = Len(s) - i
      /\ (\A k \in 1 .. i - 1 : a[k] = s[k]) /\ (\A k \in 1 .. Len(s) - i : b[k] = s[i + k])
  BY <1>2, <1>3 DEF a, b
<1>6. a \o b \in Seq(S) /\ Len(a \o b) = Len(s) - 1 /\ DOMAIN (a \o b) = 1 .. Len(s) - 1
  <2>1. a \o b \in Seq(S) /\ Len(a \o b) = Len(a) + Len(b)
    BY <1>5, ConcatProperties
  <2>2. Len(a) + Len(b) = Len(s) - 1
    BY <1>1, <1>5
  <2>3. DOMAIN (a \o b) = 1 .. Len(a \o b)
    BY <2>1, LenProperties
  <2> QED BY <2>1, <2>2, <2>3
<1>7. ASSUME NEW k \in 1 .. Len(s) - 1 PROVE (a \o b)[k] = s[IF k < i THEN k ELSE k + 1]
  <2>1. CASE k < i
    <3>1. k \in 1 .. i - 1
      BY <1>1, <2>1
    <3>2. (a \o b)[k] = a[k]
      BY <1>1, <1>5, <3>1
    <3> QED BY <1>5, <2>1, <3>1, <3>2
  <2>2. CASE ~(k < i)
    <3>1. k - (i - 1) \in 1 .. Len(s) - i /\ i + (k - (i - 1)) = k + 1
      BY <1>1, <2>2
    <3>2. (a \o b)[k] = b[k - (i - 1)]
      BY <1>1, <1>5, <2>2
    <3> QED BY <1>5, <2>2, <3>1, <3>2
  <2> QED BY <2>1, <2>2
<1> QED BY <1>4, <1>6, <1>7

LEMMA CarveFacts ==
  ASSUME NEW gs, NEW top \in Nat, GapsOK(gs, top), NEW i \in DOMAIN gs,
         NEW need \in Nat, gs[i].hi - gs[i].lo >= need
  PROVE  LET rs == Carve(gs, i, need)
         IN  /\ GapsOK(rs, top)
             /\ \A k \in DOMAIN rs : /\ \E j \in DOMAIN gs : gs[j].lo <= rs[k].lo /\ rs[k].hi <= gs[j].hi
                                     /\ Disjoint(rs[k].lo, rs[k].hi, gs[i].lo, gs[i].lo + need)
<1> DEFINE rs == Carve(gs, i, need)
<1>0. gs \in Seq(Gap) /\ DOMAIN gs = 1 .. Len(gs) /\ Len(gs) \in Nat
      /\ \A j \in DOMAIN gs : gs[j] \in Gap /\ gs[j].lo \in Nat /\ gs[j].hi \in Nat
  <2>1. gs \in Seq(Gap) /\ DOMAIN gs = 1 .. Len(gs) /\ Len(gs) \in Nat
    BY DEF GapsOK
  <2>2. \A j \in DOMAIN gs : gs[j] \in Gap
    BY <2>1
  <2>3. \A g \in Gap : g.lo \in Nat /\ g.hi \in Nat
    BY DEF Gap
  <2> QED BY <2>1, <2>2, <2>3
<1>1. CASE gs[i].lo + need >= gs[i].hi
  <2> DEFINE from(k) == IF k < i THEN k ELSE k + 1
  <2>1. rs \in Seq(Gap) /\ Len(rs) = Len(gs) - 1 /\ DOMAIN rs = 1 .. Len(gs) - 1
        /\ \A k \in DOMAIN rs : rs[k] = gs[from(k)]
    <3>1. rs = RemoveAt(gs, i)
      BY <1>1 DEF Carve
    <3> HIDE DEF rs
    <3>2. rs \in Seq(Gap) /\ Len(rs) = Len(gs) - 1 /\ \A k \in DOMAIN rs : rs[k] = gs[from(k)]
      BY <1>0, <3>1, RemoveFacts
    <3>3. DOMAIN rs = 1 .. Len(rs)
      BY <3>2, LenProperties
    <3> QED BY <3>2, <3>3
  <2> HIDE DEF rs
  <2>2. \A k \in DOMAIN rs : from(k) \in DOMAIN gs /\ from(k) # i
    BY <1>0, <2>1
  <2>3. \A k, l \in DOMAIN rs : k # l => from(k) # from(l)
    BY <1>0, <2>1
  <2> HIDE DEF from
  <2>4. GapsOK(rs, top)
    BY <2>1, <2>2, <2>3 DEF GapsOK
  <2>5. ASSUME NEW k \in DOMAIN rs
        PROVE  /\ \E j \in DOMAIN gs : gs[j].lo <= rs[k].lo /\ rs[k].hi <= gs[j].hi
               /\ Disjoint(rs[k].lo, rs[k].hi, gs[i].lo, gs[i].lo + need)
    <3>1. Disjoint(rs[k].lo, rs[k].hi, gs[i].lo, gs[i].hi)
      BY <2>1, <2>2 DEF GapsOK
    <3>2. rs[k].lo \in Nat /\ rs[k].hi \in Nat /\ gs[i].lo \in Nat /\ gs[i].hi \in Nat
          /\ rs[k] = gs[from(k)] /\ from(k) \in DOMAIN gs
      BY <1>0, <2>1, <2>2
    <3>3. rs[k].lo <= rs[k].lo /\ rs[k].hi <= rs[k].hi /\ gs[i].lo + need = gs[i].hi
      BY <1>1, <3>2
    <3>4. \E j \in DOMAIN gs : gs[j].lo <= rs[k].lo /\ rs[k].hi <= gs[j].hi
      BY <3>2, <3>3
    <3> QED BY <3>1, <3>3, <3>4
  <2> QED BY <2>4, <2>5 DEF rs
<1>2. CASE ~(gs[i].lo + need >= gs[i].hi)
  <2> DEFINE g == [lo |-> gs[i].lo + need, hi |-> gs[i].hi]
  <2>1. rs = [gs EXCEPT ![i] = g] /\ g \in Gap
    <3>1. rs = [gs EXCEPT ![i].lo = gs[i].lo + need]
      BY <1>2 DEF Carve
    <3>2. [gs[i] EXCEPT !.lo = gs[i].lo + need] = g
      BY <1>0 DEF Gap
    <3>3. g \in Gap
      BY <1>0 DEF Gap
    <3> HIDE DEF rs, g
    <3>4. rs = [gs EXCEPT ![i] = [gs[i] EXCEPT !.lo = gs[i].lo + need]]
      BY <3>1
    <3> QED BY <3>2, <3>3, <3>4
  <2> HIDE DEF rs
  <2>2. rs \in Seq(Gap) /\ DOMAIN rs = DOMAIN gs /\ \A k \in DOMAIN gs : rs[k] = IF k = i THEN g ELSE gs[k]
    <3> HIDE DEF g
    <3> QED BY <1>0, <2>1
  <2>3. \A k \in DOMAIN gs : rs[k].lo \in Nat /\ rs[k].hi = gs[k].hi /\ gs[k].lo <= rs[k].lo
    BY <1>0, <2>2
  <2>4. rs[i].lo = gs[i].lo + need
    BY <2>2
  <2> HIDE DEF g
  <2>5. GapsOK(rs, top)
    <3>1. \A k \in DOMAIN rs : rs[k].hi <= top
      BY <2>2, <2>3 DEF GapsOK
    <3>2. ASSUME NEW k \in DOMAIN rs, NEW l \in DOMAIN rs, k # l
          PROVE  Disjoint(rs[k].lo, rs[k].hi, rs[l].lo, rs[l].hi)
      <4>1. Disjoint(gs[k].lo, gs[k].hi, gs[l].lo, gs[l].hi) /\ k \in DOMAIN gs /\ l \in DOMAIN gs
        BY <2>2, <3>2 DEF GapsOK
      <4>2. /\ rs[k].lo \in Nat /\ rs[k].hi = gs[k].hi /\ gs[k].lo <= rs[k].lo
            /\ rs[l].lo \in Nat /\ rs[l].hi = gs[l].hi /\ gs[l].lo <= rs[l].lo
        BY <2>3, <4>1
      <4>3. gs[k].lo \in Nat /\ gs[k].hi \in Nat /\ gs[l].lo \in Nat /\ gs[l].hi \in Nat
        BY <1>0, <4>1 DEF Gap
      <4> QED BY <4>1, <4>2, <4>3 DEF Disjoint
    <3> QED BY <2>2, <3>1, <3>2 DEF GapsOK
  <2>6. ASSUME NEW k \in DOMAIN rs
        PROVE  /\ \E j \in DOMAIN gs : gs[j].lo <= rs[k].lo /\ rs[k].hi <= gs[j].hi
               /\ Disjoint(rs[k].lo, rs[k].hi, gs[i].lo, gs[i].lo + need)
    <3>0. k \in DOMAIN gs
      BY <2>2
    <3>1. gs[k].lo <= rs[k].lo /\ rs[k].hi <= gs[k].hi
      BY <1>0, <2>3, <3>0
    <3>2. ASSUME k = i PROVE Disjoint(rs[k].lo, rs[k].hi, gs[i].lo, gs[i].lo + need)
      <4>1. rs[k].lo = gs[i].lo + need /\ gs[i].lo \in Nat
        BY <1>0, <2>4, <3>2
      <4> QED BY <4>1 DEF Disjoint
    <3>3. ASSUME k # i PROVE Disjoint(rs[k].lo, rs[k].hi, gs[i].lo, gs[i].lo + need)
      <4>1. Disjoint(gs[k].lo, gs[k].hi, gs[i].lo, gs[i].hi)
        BY <3>0, <3>3 DEF GapsOK
      <4> QED BY <1>0, <2>3, <3>0, <3>1, <4>1 DEF Disjoint
    <3>4. \E j \in DOMAIN gs : gs[j].lo <= rs[k].lo /\ rs[k].hi <= gs[j].hi
      BY <3>0, <3>1
    <3> QED BY <3>2, <3>3, <3>4
  <2> QED BY <2>5, <2>6 DEF rs
<1> QED BY <1>1, <1>2

\* The next request.
LEMMA NextRequest ==
  ASSUME PlanInv, phase = "place", todo # <<>>
  PROVE  /\ Head(todo) \in Ops /\ Head(todo) \notin DOMAIN plan /\ Head(todo) \notin Range(Tail(todo))
         /\ 1 \in DOMAIN todo /\ Head(todo) = todo[1]
         /\ Tail(todo) \in Seq(Ops) /\ Range(todo) = {Head(todo)} \cup Range(Tail(todo))
         /\ \A i \in DOMAIN Tail(todo) : i + 1 \in DOMAIN todo /\ Tail(todo)[i] = todo[i + 1]
         /\ Rising(Tail(todo))
         /\ \A i \in DOMAIN Tail(todo) : LifeBegin(Head(todo)) < LifeBegin(Tail(todo)[i])
<1>1. PlaceOK /\ todo \in Seq(Ops) /\ Rising(todo) /\ IsPerm(order)
  BY DEF PlanInv, PlaceOK
<1>2. Len(todo) \in Nat \ {0} /\ DOMAIN todo = 1 .. Len(todo) /\ Head(todo) = todo[1]
      /\ Tail(todo) \in Seq(Ops) /\ Len(Tail(todo)) = Len(todo) - 1
  BY <1>1
<1>3. 1 \in DOMAIN todo /\ Head(todo) \in Ops
  BY <1>1, <1>2
<1>4. DOMAIN Tail(todo) = 1 .. Len(todo) - 1
  BY <1>2, LenProperties
<1>5. \A i \in DOMAIN Tail(todo) : i + 1 \in DOMAIN todo /\ Tail(todo)[i] = todo[i + 1] /\ 1 < i + 1 /\ i \in Nat
  BY <1>1, <1>2, <1>4
<1>6. \A i \in DOMAIN Tail(todo) : LifeBegin(Head(todo)) < LifeBegin(Tail(todo)[i])
  BY <1>1, <1>2, <1>3, <1>5 DEF Rising
<1>7. Rising(Tail(todo))
  <2> SUFFICES ASSUME NEW i \in DOMAIN Tail(todo), NEW j \in DOMAIN Tail(todo), i < j
               PROVE  LifeBegin(Tail(todo)[i]) < LifeBegin(Tail(todo)[j])
    BY DEF Rising
  <2>1. i + 1 < j + 1
    BY <1>5
  <2> QED BY <1>1, <1>5, <2>1 DEF Rising
<1>8. Range(todo) = {Head(todo)} \cup Range(Tail(todo))
  <2>1. ASSUME NEW i \in DOMAIN todo PROVE todo[i] \in {Head(todo)} \cup Range(Tail(todo))
    <3>1. CASE i = 1
      BY <1>2, <3>1
    <3>2. CASE i # 1
      <4>1. i - 1 \in DOMAIN Tail(todo) /\ (i - 1) + 1 = i
        BY <1>2, <1>4, <3>2
      <4>2. Tail(todo)[i - 1] = todo[i]
        BY <1>5, <4>1
      <4> QED BY <4>1, <4>2 DEF Range
    <3> QED BY <3>1, <3>2
  <2>2. \A i \in DOMAIN Tail(todo) : Tail(todo)[i] \in Range(todo)
    BY <1>5 DEF Range
  <2>3. Head(todo) \in Range(todo)
    BY <1>2, <1>3 DEF Range
  <2> QED BY <2>1, <2>2, <2>3 DEF Range
<1>9. Head(todo) \notin DOMAIN plan
  BY <1>1, <1>8 DEF PlaceOK
<1>10. Head(todo) \notin Range(Tail(todo))
  <2> SUFFICES ASSUME NEW i \in DOMAIN Tail(todo), Head(todo) = Tail(todo)[i] PROVE FALSE
    BY DEF Range
  <2>1. LifeBegin(Head(todo)) < LifeBegin(Head(todo)) /\ LifeBegin(Head(todo)) \in Nat
    BY <1>1, <1>3, <1>6, LifeFacts
  <2> QED BY <2>1
<1> QED BY <1>2, <1>3, <1>5, <1>6, <1>7, <1>8, <1>9, <1>10

\* A tensor that is still among the active ones when the next request comes, or
\* has died before it: what Tracked says after the dead ones were given back.
LEMMA TrackedOn ==
  ASSUME PlanInv, phase = "place", todo # <<>>, NEW a \in DOMAIN plan, plan[a].pool = pool
  PROVE  \/ \E j \in DOMAIN Alive(Head(todo)) : Alive(Head(todo))[j] = Shape(a)
         \/ /\ LifeEnd(a) < LifeBegin(Head(todo))
            /\ \A i \in DOMAIN Tail(todo) : LifeEnd(a) < LifeBegin(Tail(todo)[i])
<1>1. PlaceOK /\ PoolOK /\ IsPerm(order) /\ Tracked(a) /\ a \in Ops /\ todo \in Seq(Ops)
  BY DEF PlanInv, PlaceOK
<1> DEFINE o == Head(todo)
<1>2. o \in Ops /\ 1 \in DOMAIN todo /\ o = todo[1]
  BY NextRequest
<1>3. LifeEnd(a) \in Nat /\ LifeBegin(o) \in Nat
  BY <1>1, <1>2, LifeFacts
<1>4. \A i \in DOMAIN Tail(todo) : LifeBegin(o) < LifeBegin(Tail(todo)[i]) /\ LifeBegin(Tail(todo)[i]) \in Nat
  <2>1. \A i \in DOMAIN Tail(todo) : Tail(todo)[i] \in Ops
    BY NextRequest
  <2> QED BY <1>1, <2>1, NextRequest, LifeFacts
<1> HIDE DEF o
<1>5. CASE \E j \in DOMAIN active : active[j] = Shape(a)
  <2>1. PICK j \in DOMAIN active : active[j] = Shape(a)
    BY <1>5
  <2>2. active[j].end = LifeEnd(a)
    BY <2>1 DEF Shape
  <2>3. CASE IsDead(active[j], o)
    <3>1. LifeEnd(a) < LifeBegin(o)
      BY <2>2, <2>3 DEF IsDead
    <3>2. \A i \in DOMAIN Tail(todo) : LifeEnd(a) < LifeBegin(Tail(todo)[i])
      BY <1>3, <1>4, <3>1
    <3> QED BY <3>1, <3>2 DEF o
  <2>4. CASE ~IsDead(active[j], o)
    <3>1. \E k \in DOMAIN Alive(o) : Alive(o)[k] = active[j]
      BY <1>1, <2>4, AliveFacts
    <3> QED BY <2>1, <3>1 DEF o
  <2> QED BY <2>3, <2>4
<1>6. CASE \A i \in DOMAIN todo : LifeEnd(a) < LifeBegin(todo[i])
  <2>1. LifeEnd(a) < LifeBegin(o)
    BY <1>2, <1>6
  <2>2. \A i \in DOMAIN Tail(todo) : LifeEnd(a) < LifeBegin(Tail(todo)[i])
    BY <1>3, <1>4, <2>1
  <2> QED BY <2>1, <2>2 DEF o
<1> QED BY <1>1, <1>5, <1>6 DEF Tracked

\* A tensor that gets the range from off on, which no active tensor and no gap
\* meets, keeps the invariant.
LEMMA SettleStep ==
  ASSUME PlanInv, phase = "place", todo # <<>>, todo' = Tail(todo),
         NEW o, o = Head(todo), NEW off \in Nat, Settle(o, off),
         high_water' \in Nat, high_water <= high_water', high_water' <= Limit(pool),
         off + size[o] <= high_water',
         GapsOK(free_list', high_water'), Separate(free_list', Alive(o)),
         \A i \in DOMAIN free_list' : Disjoint(free_list'[i].lo, free_list'[i].hi, off, off + size[o]),
         \A j \in DOMAIN Alive(o) :
           Disjoint(off, off + size[o], Alive(o)[j].off, Alive(o)[j].off + Alive(o)[j].size),
         UNCHANGED <<graphVars, orderVars, phase, order, budget, pool>>
  PROVE  PlanInv'
<1>0. /\ ins' = ins /\ size' = size /\ phase' = phase /\ order' = order /\ budget' = budget
      /\ pool' = pool /\ rest' = rest
  BY DEF graphVars, Settle
<1>1. /\ PlaceOK /\ PoolOK /\ IsPerm(order) /\ GraphOK /\ budget \in Nat \X Nat
      /\ DOMAIN plan \subseteq Ops /\ high_water \in Nat /\ pool \in {"vtcm", "ddr"}
  BY DEF PlanInv, PlaceOK, PoolOK
<1>2. /\ o \in Ops /\ o \notin DOMAIN plan /\ o \notin Range(todo')
      /\ todo' \in Seq(Ops) /\ Range(todo) = {o} \cup Range(todo')
      /\ Rising(todo')
      /\ \A i \in DOMAIN todo' : LifeBegin(o) < LifeBegin(todo'[i])
      /\ \A i \in DOMAIN todo' : i + 1 \in DOMAIN todo /\ todo'[i] = todo[i + 1]
  BY NextRequest
<1>3. size[o] \in Nat \ {0} /\ LifeEnd(o) \in Nat /\ LifeBegin(o) \in Nat
  BY <1>1, <1>2, LifeFacts DEF GraphOK
<1>4. \A x : LifeBegin(x)' = LifeBegin(x) /\ LifeEnd(x)' = LifeEnd(x)
  BY <1>0 DEF LifeBegin, LifeEnd, Consumers, Pos
<1>5. /\ DOMAIN plan' = DOMAIN plan \cup {o}
      /\ plan'[o] = [pool |-> pool, off |-> off]
      /\ \A x \in DOMAIN plan : plan'[x] = plan[x]
  BY <1>2 DEF Settle
<1>6. plan'[o] \in Places /\ plan'[o].pool = pool /\ plan'[o].off = off
  BY <1>1, <1>5 DEF Places
<1>7. \A x \in DOMAIN plan : plan[x] \in Places /\ plan[x].off \in Nat
  BY DEF PlanInv, Places
<1> DEFINE A == Alive(o)
           new == [off |-> off, size |-> size[o], end |-> LifeEnd(o)]
<1>8. BlocksOK(A, high_water)
  BY <1>1, AliveFacts
<1>9. new \in Block /\ active' = Append(A, new) /\ A \in Seq(Block)
  BY <1>3, <1>8 DEF Settle, Block, BlocksOK
<1>10. /\ active' \in Seq(Block) /\ DOMAIN active' = 1 .. Len(A) + 1 /\ Len(A) \in Nat
       /\ DOMAIN A = 1 .. Len(A) /\ active'[Len(A) + 1] = new
       /\ \A j \in DOMAIN A : active'[j] = A[j] /\ j \in DOMAIN active'
       /\ \A j \in DOMAIN active' : j \in DOMAIN A \/ j = Len(A) + 1
  <2> HIDE DEF A, new
  <2> QED BY <1>9
<1>11. \A j \in DOMAIN A : A[j].off \in Nat /\ A[j].size \in Nat
  <2> HIDE DEF A
  <2>1. \A j \in DOMAIN A : A[j] \in Block
    BY <1>9
  <2> QED BY <2>1 DEF Block
<1>12. BlocksOK(active', high_water')
  <2>1. ASSUME NEW j \in DOMAIN active' PROVE active'[j].off + active'[j].size <= high_water'
    <3>1. CASE j \in DOMAIN A
      <4>1. A[j].off + A[j].size <= high_water
        BY <1>8, <3>1 DEF BlocksOK
      <4> HIDE DEF A
      <4> QED BY <1>1, <1>10, <1>11, <3>1, <4>1
    <3>2. CASE j = Len(A) + 1
      BY <1>10, <3>2
    <3> HIDE DEF A
    <3> QED BY <1>10, <3>1, <3>2
  <2>2. ASSUME NEW i \in DOMAIN active', NEW j \in DOMAIN active', i # j
        PROVE  Disjoint(active'[i].off, active'[i].off + active'[i].size,
                        active'[j].off, active'[j].off + active'[j].size)
    <3>1. CASE i \in DOMAIN A /\ j \in DOMAIN A
      <4> HIDE DEF A
      <4> QED BY <1>8, <1>10, <2>2, <3>1 DEF BlocksOK
    <3>2. CASE i = Len(A) + 1 /\ j \in DOMAIN A
      BY <1>10, <3>2
    <3>3. CASE i \in DOMAIN A /\ j = Len(A) + 1
      <4>1. Disjoint(off, off + size[o], A[i].off, A[i].off + A[i].size)
        BY <3>3
      <4>2. active'[j].off = off /\ active'[j].size = size[o] /\ active'[i] = A[i]
        BY <1>10, <3>3
      <4> HIDE DEF A
      <4> QED BY <4>1, <4>2 DEF Disjoint
    <3> HIDE DEF A
    <3> QED BY <1>10, <2>2, <3>1, <3>2, <3>3
  <2> QED BY <1>10, <2>1, <2>2 DEF BlocksOK
<1>13. Separate(free_list', active')
  <2> SUFFICES ASSUME NEW i \in DOMAIN free_list', NEW j \in DOMAIN active'
               PROVE  Disjoint(free_list'[i].lo, free_list'[i].hi,
                               active'[j].off, active'[j].off + active'[j].size)
    BY DEF Separate
  <2>1. CASE j \in DOMAIN A
    BY <1>10, <2>1 DEF Separate
  <2>2. CASE j = Len(A) + 1
    BY <1>10, <2>2
  <2> HIDE DEF A
  <2> QED BY <1>10, <2>1, <2>2
<1>14. PoolOK'
  <2>1. Limit(pool)' = Limit(pool)
    BY <1>0 DEF Limit
  <2> QED BY <1>12, <1>13, <2>1 DEF PoolOK, BlocksOK, GapsOK, Separate, Disjoint
<1> HIDE DEF new
<1>15. ASSUME NEW x \in DOMAIN plan', plan'[x].pool = pool PROVE Tracked(x)'
  <2>1. Shape(x)' = [off |-> plan'[x].off, size |-> size[x], end |-> LifeEnd(x)]
    BY <1>0, <1>4 DEF Shape
  <2>2. CASE x = o
    <3>1. Shape(x)' = new
      BY <1>6, <2>1, <2>2 DEF new
    <3>2. active'[Len(A) + 1] = Shape(x)' /\ Len(A) + 1 \in DOMAIN active'
      BY <1>10, <3>1
    <3> QED BY <3>2 DEF Tracked
  <2>3. CASE x \in DOMAIN plan
    <3>0. plan'[x] = plan[x] /\ plan[x].pool = pool
      BY <1>5, <1>15, <2>3
    <3>1. Shape(x)' = Shape(x)
      BY <2>1, <3>0 DEF Shape
    <3>2. CASE \E j \in DOMAIN A : A[j] = Shape(x)
      <4>1. \E j \in DOMAIN active' : active'[j] = Shape(x)'
        BY <1>10, <3>1, <3>2
      <4> QED BY <4>1 DEF Tracked
    <3>3. CASE \A i \in DOMAIN todo' : LifeEnd(x) < LifeBegin(todo'[i])
      <4>1. \A i \in DOMAIN todo' : LifeBegin(todo[i])' = LifeBegin(todo'[i])
        BY <1>0 DEF LifeBegin, Pos
      <4>2. \A i \in DOMAIN todo' : LifeEnd(x)' < LifeBegin(todo[i])'
        BY <1>4, <3>3, <4>1
      <4> QED BY <4>2 DEF Tracked
    <3> QED BY <2>3, <3>0, <3>2, <3>3, TrackedOn
  <2> QED BY <1>5, <2>2, <2>3
<1>16. PlaceOK'
  <2>1. Rising(todo)' /\ Rising(rest)'
    <3>1. Rising(rest)
      BY <1>1 DEF PlaceOK
    <3> QED BY <1>0, <1>2, <3>1 DEF Rising, LifeBegin, Pos
  <2>2. rest' \in Seq(Ops) /\ todo' \in Seq(Ops) /\ pool' \in {"vtcm", "ddr"}
    BY <1>0, <1>1, <1>2 DEF PlaceOK
  <2>3. \A i \in DOMAIN rest' : \A j \in DOMAIN todo' : LifeBegin(rest[i])' < LifeBegin(todo[j])'
    <3>1. \A i \in DOMAIN rest : \A j \in DOMAIN todo' : LifeBegin(rest[i]) < LifeBegin(todo'[j])
      BY <1>1, <1>2 DEF PlaceOK
    <3> QED BY <1>0, <3>1 DEF LifeBegin, Pos
  <2>4. /\ Ops = DOMAIN plan' \cup Range(todo') \cup Range(rest')
        /\ DOMAIN plan' \cap (Range(todo') \cup Range(rest')) = {}
    <3>1. /\ Ops = DOMAIN plan \cup Range(todo) \cup Range(rest)
          /\ DOMAIN plan \cap (Range(todo) \cup Range(rest)) = {}
      BY <1>1 DEF PlaceOK
    <3>2. o \notin Range(rest)
      <4> SUFFICES ASSUME NEW i \in DOMAIN rest, rest[i] = o PROVE FALSE
        BY DEF Range
      <4>1. LifeBegin(o) < LifeBegin(todo[1]) /\ todo[1] = o
        BY <1>1, NextRequest DEF PlaceOK
      <4> QED BY <1>3, <4>1
    <3> QED BY <1>0, <1>2, <1>5, <3>1, <3>2
  <2>5. \A x \in DOMAIN plan' : /\ plan'[x].pool # "spill"
                                /\ pool' = "vtcm" => plan'[x].pool = "vtcm"
                                /\ plan'[x].pool = pool' => Tracked(x)'
    <3>1. \A x \in DOMAIN plan : plan[x].pool # "spill" /\ (pool = "vtcm" => plan[x].pool = "vtcm")
      BY <1>1 DEF PlaceOK
    <3> QED BY <1>0, <1>1, <1>5, <1>6, <1>15, <3>1
  <2> QED BY <1>14, <2>1, <2>2, <2>3, <2>4, <2>5 DEF PlaceOK
<1>17. NoLiveOverlap'
  <2> DEFINE P == plan'
  <2>0. ASSUME NEW a \in DOMAIN plan, plan[a].pool = pool, LifeBegin(o) < LifeEnd(a)
        PROVE  off + size[o] <= plan[a].off \/ plan[a].off + size[a] <= off
    <3>0. LifeEnd(a) \in Nat
      BY <1>1, LifeFacts
    <3>1. ~(LifeEnd(a) < LifeBegin(o))
      BY <1>3, <2>0, <3>0
    <3>2. PICK j \in DOMAIN A : A[j] = Shape(a)
      BY <2>0, <3>1, TrackedOn
    <3>3. A[j].off = plan[a].off /\ A[j].size = size[a]
      BY <3>2 DEF Shape
    <3>4. Disjoint(off, off + size[o], A[j].off, A[j].off + A[j].size)
      BY <3>2
    <3> QED BY <3>3, <3>4 DEF Disjoint
  <2>1. ASSUME NEW a \in DOMAIN plan', NEW b \in DOMAIN plan', a # b,
               plan'[a].pool = plan'[b].pool,
               \/ plan'[a].pool = "spill"
               \/ LifeBegin(a) < LifeEnd(b) /\ LifeBegin(b) < LifeEnd(a)
        PROVE  \/ plan'[a].off + size[a] <= plan'[b].off
               \/ plan'[b].off + size[b] <= plan'[a].off
    <3>1. CASE a \in DOMAIN plan /\ b \in DOMAIN plan
      <4>1. plan'[a] = plan[a] /\ plan'[b] = plan[b]
        BY <1>5, <3>1
      <4>2. NoLiveOverlap
        BY DEF PlanInv
      <4> QED BY <2>1, <3>1, <4>1, <4>2 DEF NoLiveOverlap, Together, Apart
    <3>2. CASE a = o
      <4>1. b \in DOMAIN plan
        BY <1>5, <2>1, <3>2
      <4>2. plan'[b] = plan[b] /\ plan[b].pool = pool /\ LifeBegin(o) < LifeEnd(b)
        BY <1>1, <1>5, <1>6, <2>1, <3>2, <4>1
      <4> QED BY <1>6, <2>0, <3>2, <4>1, <4>2
    <3>3. CASE b = o
      <4>1. a \in DOMAIN plan
        BY <1>5, <2>1, <3>3
      <4>2. plan'[a] = plan[a] /\ plan[a].pool = pool /\ LifeBegin(o) < LifeEnd(a)
        BY <1>1, <1>5, <1>6, <2>1, <3>3, <4>1
      <4> QED BY <1>6, <2>0, <3>3, <4>1, <4>2
    <3> QED BY <1>5, <3>1, <3>2, <3>3
  <2>2. \A a, b \in DOMAIN plan' :
          /\ Together(a, b)' <=> (\/ plan'[a].pool = "spill"
                                  \/ LifeBegin(a) < LifeEnd(b) /\ LifeBegin(b) < LifeEnd(a))
          /\ Apart(a, b)' <=> (\/ plan'[a].off + size[a] <= plan'[b].off
                               \/ plan'[b].off + size[b] <= plan'[a].off)
    BY <1>0, <1>4 DEF Together, Apart
  <2> QED BY <2>1, <2>2 DEF NoLiveOverlap
<1>18. \A x \in DOMAIN plan' : plan'[x].pool # "spill" => plan'[x].off + size'[x] <= Limit(plan[x].pool)'
  <2>1. ASSUME NEW x \in DOMAIN plan', plan'[x].pool # "spill"
        PROVE  plan'[x].off + size[x] <= Limit(plan'[x].pool)
    <3>1. CASE x = o
      <4>1. off + size[o] \in Nat /\ Limit(pool) \in Nat
        BY <1>1, <1>3 DEF Limit
      <4>2. off + size[o] <= Limit(pool)
        BY <4>1
      <4> QED BY <1>6, <3>1, <4>2
    <3>2. CASE x \in DOMAIN plan
      BY <1>5, <2>1, <3>2 DEF PlanInv
    <3> QED BY <1>5, <3>1, <3>2
  <2>2. \A x : Limit(plan[x].pool)' = Limit(plan'[x].pool)
    BY <1>0 DEF Limit
  <2> QED BY <1>0, <2>1, <2>2
<1>19. GraphOK' /\ budget' \in Nat \X Nat /\ IsPerm(order)'
  BY <1>0, <1>1 DEF GraphOK, IsPerm
<1>20. DOMAIN plan' \subseteq Ops /\ \A x \in DOMAIN plan' : plan'[x] \in Places
  BY <1>1, <1>2, <1>5, <1>6, <1>7
<1> QED BY <1>0, <1>16, <1>17, <1>18, <1>19, <1>20 DEF PlanInv

\* Nor does a tensor that finds no room disturb anything.
LEMMA NoRoomStep ==
  ASSUME PlanInv, phase = "place", todo # <<>>, todo' = Tail(todo),
         NEW o, o = Head(todo), rest' = Append(rest, o),
         free_list' = Freed(o), active' = Alive(o), UNCHANGED <<plan, high_water>>,
         UNCHANGED <<graphVars, orderVars, phase, order, budget, pool>>
  PROVE  PlanInv'
<1>0. /\ ins' = ins /\ size' = size /\ phase' = phase /\ order' = order /\ budget' = budget
      /\ pool' = pool /\ plan' = plan /\ high_water' = high_water
  BY DEF graphVars
<1>1. /\ PlaceOK /\ PoolOK /\ IsPerm(order) /\ rest \in Seq(Ops) /\ Rising(rest)
      /\ \A i \in DOMAIN rest : \A j \in DOMAIN todo : LifeBegin(rest[i]) < LifeBegin(todo[j])
      /\ Ops = DOMAIN plan \cup Range(todo) \cup Range(rest)
      /\ DOMAIN plan \cap (Range(todo) \cup Range(rest)) = {}
  BY DEF PlanInv, PlaceOK
<1>2. /\ o \in Ops /\ o \notin DOMAIN plan /\ 1 \in DOMAIN todo /\ o = todo[1]
      /\ todo' \in Seq(Ops) /\ Range(todo) = {o} \cup Range(todo')
      /\ Rising(todo')
      /\ \A i \in DOMAIN todo' : LifeBegin(o) < LifeBegin(todo'[i])
      /\ \A i \in DOMAIN todo' : i + 1 \in DOMAIN todo /\ todo'[i] = todo[i + 1]
  BY NextRequest
<1>4. \A x : LifeBegin(x)' = LifeBegin(x) /\ LifeEnd(x)' = LifeEnd(x)
  BY <1>0 DEF LifeBegin, LifeEnd, Consumers, Pos
<1>5. /\ rest' \in Seq(Ops) /\ DOMAIN rest' = 1 .. Len(rest) + 1 /\ Len(rest) \in Nat
      /\ DOMAIN rest = 1 .. Len(rest) /\ rest'[Len(rest) + 1] = o
      /\ \A i \in DOMAIN rest : rest'[i] = rest[i] /\ i \in DOMAIN rest'
      /\ \A i \in DOMAIN rest' : i \in DOMAIN rest \/ i = Len(rest) + 1
  BY <1>1, <1>2
<1>6. Range(rest') = Range(rest) \cup {o}
  <2>1. Len(rest) + 1 \in DOMAIN rest'
    BY <1>5
  <2> QED BY <1>5, <2>1 DEF Range
<1>7. PoolOK'
  <2>1. /\ BlocksOK(active', high_water) /\ GapsOK(free_list', high_water)
        /\ Separate(free_list', active')
    BY <1>1, AliveFacts, FreedFacts
  <2> QED BY <1>0, <1>1, <2>1 DEF PoolOK, BlocksOK, GapsOK, Separate, Disjoint, Limit
<1>8. Rising(todo)' /\ Rising(rest)'
  <2>1. ASSUME NEW i \in DOMAIN rest', NEW j \in DOMAIN rest', i < j
        PROVE  LifeBegin(rest'[i]) < LifeBegin(rest'[j])
    <3>1. i \in DOMAIN rest
      BY <1>5, <2>1
    <3>2. CASE j \in DOMAIN rest
      BY <1>1, <1>5, <2>1, <3>1, <3>2 DEF Rising
    <3>3. CASE j = Len(rest) + 1
      BY <1>1, <1>2, <1>5, <3>1, <3>3
    <3> QED BY <1>5, <3>2, <3>3
  <2> QED BY <1>0, <1>2, <2>1 DEF Rising, LifeBegin, Pos
<1>9. \A i \in DOMAIN rest' : \A j \in DOMAIN todo' : LifeBegin(rest[i])' < LifeBegin(todo[j])'
  <2>1. \A i \in DOMAIN rest' : \A j \in DOMAIN todo' : LifeBegin(rest'[i]) < LifeBegin(todo'[j])
    BY <1>1, <1>2, <1>5
  <2> QED BY <1>0, <2>1 DEF LifeBegin, Pos
<1>10. ASSUME NEW x \in DOMAIN plan, plan[x].pool = pool PROVE Tracked(x)'
  <2>1. Shape(x)' = Shape(x)
    BY <1>0, <1>4 DEF Shape
  <2>2. CASE \E j \in DOMAIN active' : active'[j] = Shape(x)
    BY <2>1, <2>2 DEF Tracked
  <2>3. CASE \A i \in DOMAIN todo' : LifeEnd(x) < LifeBegin(todo'[i])
    <3>1. \A i \in DOMAIN todo' : LifeBegin(todo[i])' = LifeBegin(todo'[i])
      BY <1>0 DEF LifeBegin, Pos
    <3>2. \A i \in DOMAIN todo' : LifeEnd(x)' < LifeBegin(todo[i])'
      BY <1>4, <2>3, <3>1
    <3> QED BY <3>2 DEF Tracked
  <2> QED BY <1>10, <2>2, <2>3, TrackedOn
<1>11. PlaceOK'
  <2>1. \A x \in DOMAIN plan' : /\ plan'[x].pool # "spill"
                                /\ pool' = "vtcm" => plan'[x].pool = "vtcm"
                                /\ plan'[x].pool = pool' => Tracked(x)'
    BY <1>0, <1>1, <1>10 DEF PlaceOK
  <2>2. /\ Ops = DOMAIN plan' \cup Range(todo') \cup Range(rest')
        /\ DOMAIN plan' \cap (Range(todo') \cup Range(rest')) = {}
    BY <1>0, <1>1, <1>2, <1>6
  <2>3. pool' \in {"vtcm", "ddr"}
    BY <1>0, <1>1 DEF PlaceOK
  <2> QED BY <1>2, <1>5, <1>7, <1>8, <1>9, <2>1, <2>2, <2>3 DEF PlaceOK
<1>12. NoLiveOverlap'
  BY <1>0, <1>4 DEF PlanInv, NoLiveOverlap, Together, Apart
<1>13. GraphOK' /\ budget' \in Nat \X Nat /\ IsPerm(order)'
  BY <1>0, <1>1 DEF PlanInv, GraphOK, IsPerm
<1>14. DOMAIN plan' \subseteq Ops /\ \A x \in DOMAIN plan' : plan'[x] \in Places
  BY <1>0 DEF PlanInv
<1>15. \A x \in DOMAIN plan' : plan'[x].pool # "spill" => plan'[x].off + size'[x] <= Limit(plan[x].pool)'
  BY <1>0 DEF PlanInv, Limit
<1> QED BY <1>0, <1>11, <1>12, <1>13, <1>14, <1>15 DEF PlanInv

LEMMA PlaceStep ==
  ASSUME PlanInv, Place
  PROVE  PlanInv'
<1> DEFINE o == Head(todo)
           fl == Freed(o)
<1>0. /\ phase = "place" /\ todo # <<>> /\ todo' = Tail(todo)
      /\ UNCHANGED <<graphVars, orderVars, phase, order, budget, pool>>
  BY DEF Place
<1>1. PoolOK /\ high_water \in Nat /\ high_water <= Limit(pool) /\ budget \in Nat \X Nat /\ o \in Ops
      /\ size[o] \in Nat \ {0}
  <2>1. PoolOK /\ high_water \in Nat /\ high_water <= Limit(pool) /\ budget \in Nat \X Nat
    BY <1>0 DEF PlanInv, PlaceOK, PoolOK
  <2>2. o \in Ops
    BY <1>0, NextRequest
  <2> QED BY <2>1, <2>2 DEF PlanInv, GraphOK
<1>2. Limit(pool) \in Nat
  BY <1>1 DEF Limit
<1>3. GapsOK(fl, high_water) /\ Separate(fl, Alive(o)) /\ BlocksOK(Alive(o), high_water)
  BY <1>1, AliveFacts, FreedFacts
<1>4. /\ \A j \in DOMAIN Alive(o) : /\ Alive(o)[j].off \in Nat /\ Alive(o)[j].size \in Nat
                                    /\ Alive(o)[j].off + Alive(o)[j].size <= high_water
      /\ \A i \in DOMAIN fl : fl[i].lo \in Nat /\ fl[i].hi \in Nat /\ fl[i].hi <= high_water
  <2> HIDE DEF fl
  <2>1. \A j \in DOMAIN Alive(o) : Alive(o)[j] \in Block
    BY <1>3 DEF BlocksOK
  <2>2. \A i \in DOMAIN fl : fl[i] \in Gap
    BY <1>3 DEF GapsOK
  <2> QED BY <1>3, <2>1, <2>2 DEF BlocksOK, GapsOK, Block, Gap
<1> HIDE DEF fl
<1>5. CASE /\ Holes(fl, size[o]) # {}
           /\ free_list' = Carve(fl, FirstFit(fl, size[o]), size[o])
           /\ Settle(o, fl[FirstFit(fl, size[o])].lo)
           /\ UNCHANGED high_water
  <2>1. FirstFit(fl, size[o]) \in Holes(fl, size[o])
    <3> DEFINE H == Holes(fl, size[o])
    <3>1. H \in SUBSET Nat /\ H # {}
      BY <1>3, <1>5 DEF Holes, GapsOK
    <3>2. \E i \in H : \A j \in H : i <= j
      <4> HIDE DEF H
      <4> QED BY <3>1, LeastOf
    <3> HIDE DEF H
    <3>3. (CHOOSE i \in H : \A j \in H : i <= j) \in H
      BY <3>2
    <3> QED BY <3>3 DEF FirstFit, H
  <2>2. PICK i \in DOMAIN fl : i = FirstFit(fl, size[o]) /\ fl[i].hi - fl[i].lo >= size[o]
    BY <2>1 DEF Holes
  <2> DEFINE rs == Carve(fl, i, size[o])
  <2>3. /\ GapsOK(rs, high_water)
        /\ \A k \in DOMAIN rs : /\ \E j \in DOMAIN fl : fl[j].lo <= rs[k].lo /\ rs[k].hi <= fl[j].hi
                                /\ Disjoint(rs[k].lo, rs[k].hi, fl[i].lo, fl[i].lo + size[o])
    BY <1>1, <1>3, <2>2, CarveFacts
  <2>4. free_list' = rs /\ high_water' = high_water /\ Settle(o, fl[i].lo)
    BY <1>5, <2>2
  <2> HIDE DEF rs
  <2>5. Separate(rs, Alive(o))
    <3> SUFFICES ASSUME NEW k \in DOMAIN rs, NEW j \in DOMAIN Alive(o)
                 PROVE  Disjoint(rs[k].lo, rs[k].hi, Alive(o)[j].off, Alive(o)[j].off + Alive(o)[j].size)
      BY DEF Separate
    <3>1. PICK l \in DOMAIN fl : fl[l].lo <= rs[k].lo /\ rs[k].hi <= fl[l].hi
      BY <2>3
    <3>2. rs[k].lo \in Nat /\ rs[k].hi \in Nat
      <4>1. rs[k] \in Gap
        BY <2>3 DEF GapsOK
      <4> QED BY <4>1 DEF Gap
    <3>3. Disjoint(fl[l].lo, fl[l].hi, Alive(o)[j].off, Alive(o)[j].off + Alive(o)[j].size)
      BY <1>3 DEF Separate
    <3>4. /\ fl[l].lo \in Nat /\ fl[l].hi \in Nat /\ Alive(o)[j].off \in Nat /\ Alive(o)[j].size \in Nat
      BY <1>4
    <3> QED BY <3>1, <3>2, <3>3, <3>4 DEF Disjoint
  <2>6. ASSUME NEW j \in DOMAIN Alive(o)
        PROVE  Disjoint(fl[i].lo, fl[i].lo + size[o], Alive(o)[j].off, Alive(o)[j].off + Alive(o)[j].size)
    <3>1. Disjoint(fl[i].lo, fl[i].hi, Alive(o)[j].off, Alive(o)[j].off + Alive(o)[j].size)
      BY <1>3 DEF Separate
    <3>2. fl[i].lo \in Nat /\ fl[i].hi \in Nat /\ Alive(o)[j].off \in Nat /\ Alive(o)[j].size \in Nat
      BY <1>4
    <3> QED BY <1>1, <2>2, <3>1, <3>2 DEF Disjoint
  <2>7. fl[i].lo \in Nat /\ fl[i].lo + size[o] <= high_water
    <3>1. fl[i].lo \in Nat /\ fl[i].hi \in Nat /\ fl[i].hi <= high_water
      BY <1>4
    <3> QED BY <1>1, <2>2, <3>1
  <2>8. high_water <= high_water
    BY <1>1
  <2> QED BY <1>0, <1>1, <2>3, <2>4, <2>5, <2>6, <2>7, <2>8, SettleStep
<1>6. CASE /\ high_water + size[o] <= Limit(pool)
           /\ free_list' = fl /\ high_water' = high_water + size[o]
           /\ Settle(o, high_water)
  <2>1. high_water' \in Nat /\ high_water <= high_water' /\ high_water' <= Limit(pool)
        /\ high_water + size[o] <= high_water'
    BY <1>1, <1>6
  <2>2. GapsOK(free_list', high_water')
    BY <1>1, <1>3, <1>4, <1>6, <2>1 DEF GapsOK
  <2>3. \A i \in DOMAIN free_list' :
          Disjoint(free_list'[i].lo, free_list'[i].hi, high_water, high_water + size[o])
    BY <1>4, <1>6 DEF Disjoint
  <2>4. \A j \in DOMAIN Alive(o) :
          Disjoint(high_water, high_water + size[o], Alive(o)[j].off, Alive(o)[j].off + Alive(o)[j].size)
    BY <1>4 DEF Disjoint
  <2>5. Separate(free_list', Alive(o))
    BY <1>3, <1>6
  <2> QED BY <1>0, <1>1, <1>6, <2>1, <2>2, <2>3, <2>4, <2>5, SettleStep
<1>7. CASE /\ rest' = Append(rest, o)
           /\ free_list' = fl /\ active' = Alive(o)
           /\ UNCHANGED <<plan, high_water>>
  BY <1>0, <1>7, NoRoomStep DEF fl
<1> QED BY <1>5, <1>6, <1>7 DEF Place, fl

-----------------------------------------------------------------------------
\* finalize_spills: two tensors have no byte of the spill area in common.
LEMMA SpillFacts ==
  ASSUME GraphOK
  PROVE  /\ \A o \in Ops : SpillOffset(o) \in Nat
         /\ \A a, b \in Ops : a < b /\ a \in Range(rest) => SpillOffset(a) + size[a] <= SpillOffset(b)
<1> DEFINE f == [x \in Ops |-> IF x \in Range(rest) THEN size[x] ELSE 0]
<1>1. NOps \in Nat /\ Ops = 1 .. NOps /\ \A i \in 1 .. NOps : f[i] \in Nat
  BY OpsFacts DEF GraphOK, Ops
<1>2. \A o : SpillOffset(o) = SumTo(f, o - 1)
  BY DEF SpillOffset
<1>3. \A a \in Range(rest) \cap Ops : f[a] = size[a]
  OBVIOUS
<1> HIDE DEF f
<1>4. /\ \A m \in 0 .. NOps : SumTo(f, m) \in Nat
      /\ \A l, m \in 0 .. NOps : l < m => SumTo(f, l) + f[l + 1] <= SumTo(f, m)
  BY <1>1, SumFacts
<1>5. \A o \in Ops : o - 1 \in 0 .. NOps /\ (o - 1) + 1 = o
  BY <1>1
<1>6. ASSUME NEW a \in Ops, NEW b \in Ops, a < b, a \in Range(rest)
      PROVE  SpillOffset(a) + size[a] <= SpillOffset(b)
  <2>1. a - 1 < b - 1
    BY <1>1, <1>6
  <2>2. SumTo(f, a - 1) + f[(a - 1) + 1] <= SumTo(f, b - 1)
    BY <1>4, <1>5, <2>1
  <2> QED BY <1>2, <1>3, <1>5, <1>6, <2>2
<1> QED BY <1>2, <1>4, <1>5, <1>6

LEMMA EmptyPoolOK ==
  ASSUME EmptyPool, (Limit(pool))' \in Nat
  PROVE  PoolOK'
<1>1. active' = <<>> /\ free_list' = <<>> /\ high_water' = 0
  BY DEF EmptyPool
<1>2. <<>> \in Seq(Block) /\ <<>> \in Seq(Gap) /\ DOMAIN <<>> = {}
  OBVIOUS
<1> QED BY <1>1, <1>2 DEF PoolOK, BlocksOK, GapsOK, Separate

LEMMA PoolDoneStep ==
  ASSUME PlanInv, PoolDone
  PROVE  PlanInv'
<1>0. /\ phase = "place" /\ todo = <<>> /\ rest' = <<>> /\ EmptyPool
      /\ ins' = ins /\ size' = size /\ order' = order /\ budget' = budget
  BY DEF PoolDone, graphVars
<1>1. /\ PlaceOK /\ IsPerm(order) /\ GraphOK /\ rest \in Seq(Ops) /\ Rising(rest) /\ Range(todo) = {}
      /\ budget \in Nat \X Nat /\ DOMAIN plan \subseteq Ops
      /\ \A x \in DOMAIN plan : plan[x] \in Places /\ plan[x].pool # "spill" /\ plan[x].off \in Nat
  <2>1. Range(todo) = {}
    BY <1>0 DEF Range
  <2> QED BY <1>0, <2>1 DEF PlanInv, PlaceOK, Places
<1>2. Ops = DOMAIN plan \cup Range(rest) /\ DOMAIN plan \cap Range(rest) = {}
  BY <1>1 DEF PlaceOK
<1>3. \A x : LifeBegin(x)' = LifeBegin(x) /\ LifeEnd(x)' = LifeEnd(x)
  BY <1>0 DEF LifeBegin, LifeEnd, Consumers, Pos
<1>4. GraphOK' /\ budget' \in Nat \X Nat /\ IsPerm(order)'
  BY <1>0, <1>1 DEF GraphOK, IsPerm
<1>5. CASE pool = "vtcm"
  <2>1. pool' = "ddr" /\ todo' = rest /\ phase' = phase /\ plan' = plan
    BY <1>5 DEF PoolDone
  <2>2. PoolOK'
    <3>1. Limit(pool)' \in Nat
      BY <1>4 DEF Limit
    <3> QED BY <1>0, <3>1, EmptyPoolOK
  <2>3. PlaceOK'
    <3>1. todo' \in Seq(Ops) /\ rest' \in Seq(Ops) /\ DOMAIN rest' = {} /\ Range(rest') = {}
          /\ Range(todo') = Range(rest)
      BY <1>0, <1>1, <2>1 DEF Range
    <3>2. Rising(todo)' /\ Rising(rest)'
      BY <1>0, <1>1, <2>1, <3>1 DEF Rising, LifeBegin, Pos
    <3>3. \A x \in DOMAIN plan' : plan'[x].pool = "vtcm"
      BY <1>1, <1>5, <2>1 DEF PlaceOK
    <3> QED BY <1>2, <2>1, <2>2, <3>1, <3>2, <3>3 DEF PlaceOK
  <2>4. NoLiveOverlap'
    BY <1>0, <1>3, <2>1 DEF PlanInv, NoLiveOverlap, Together, Apart
  <2>5. \A x \in DOMAIN plan' : plan'[x].pool # "spill" => plan'[x].off + size'[x] <= Limit(plan[x].pool)'
    BY <1>0, <2>1 DEF PlanInv, Limit
  <2> QED BY <1>0, <1>1, <1>4, <2>1, <2>3, <2>4, <2>5 DEF PlanInv
<1>6. CASE pool # "vtcm"
  <2>1. /\ phase' = "planned" /\ DOMAIN plan' = Ops
        /\ \A x \in Range(rest) : plan'[x] = [pool |-> "spill", off |-> SpillOffset(x)]
        /\ \A x \in DOMAIN plan : plan'[x] = plan[x]
    BY <1>2, <1>6 DEF PoolDone
  <2>2. \A x \in Range(rest) : /\ x \in Ops /\ plan'[x].pool = "spill" /\ plan'[x].off = SpillOffset(x)
                               /\ SpillOffset(x) \in Nat /\ plan'[x] \in Places
    BY <1>1, <1>2, <2>1, SpillFacts DEF Places
  <2>3. \A x \in DOMAIN plan' : plan'[x] \in Places
    BY <1>1, <1>2, <2>1, <2>2
  <2>4. NoLiveOverlap'
    <3>1. ASSUME NEW a \in Ops, NEW b \in Ops, a # b, plan'[a].pool = plan'[b].pool,
                 \/ plan'[a].pool = "spill"
                 \/ LifeBegin(a) < LifeEnd(b) /\ LifeBegin(b) < LifeEnd(a)
          PROVE  \/ plan'[a].off + size[a] <= plan'[b].off
                 \/ plan'[b].off + size[b] <= plan'[a].off
      <4>1. CASE a \in DOMAIN plan
        <5>1. b \in DOMAIN plan
          BY <1>1, <1>2, <2>1, <2>2, <3>1, <4>1
        <5>2. plan'[a] = plan[a] /\ plan'[b] = plan[b] /\ NoLiveOverlap
          BY <2>1, <4>1, <5>1 DEF PlanInv
        <5> QED BY <3>1, <4>1, <5>1, <5>2 DEF NoLiveOverlap, Together, Apart
      <4>2. CASE a \in Range(rest)
        <5>1. b \in Range(rest)
          BY <1>1, <1>2, <2>1, <2>2, <3>1, <4>2
        <5>2. a < b \/ b < a
          BY <3>1, OpsFacts
        <5> QED BY <1>1, <2>2, <4>2, <5>1, <5>2, SpillFacts
      <4> QED BY <1>2, <4>1, <4>2
    <3>2. \A a, b \in Ops :
          /\ Together(a, b)' <=> (\/ plan'[a].pool = "spill"
                                  \/ LifeBegin(a) < LifeEnd(b) /\ LifeBegin(b) < LifeEnd(a))
          /\ Apart(a, b)' <=> (\/ plan'[a].off + size[a] <= plan'[b].off
                               \/ plan'[b].off + size[b] <= plan'[a].off)
      BY <1>0, <1>3 DEF Together, Apart
    <3> QED BY <2>1, <3>1, <3>2 DEF NoLiveOverlap
  <2>5. \A x \in DOMAIN plan' : plan'[x].pool # "spill" => plan'[x].off + size'[x] <= Limit(plan[x].pool)'
    <3>1. \A x : Limit(plan[x].pool)' = Limit(plan'[x].pool)
      BY <1>0 DEF Limit
    <3>2. \A x \in DOMAIN plan : plan[x].pool # "spill" => plan[x].off + size[x] <= Limit(plan[x].pool)
      BY DEF PlanInv
    <3>3. ASSUME NEW x \in DOMAIN plan', plan'[x].pool # "spill"
          PROVE  plan'[x].off + size[x] <= Limit(plan'[x].pool)
      <4>1. x \in DOMAIN plan /\ plan'[x] = plan[x]
        BY <1>2, <2>1, <2>2, <3>3
      <4> QED BY <3>2, <3>3, <4>1
    <3> QED BY <1>0, <3>1, <3>3
  <2>6. active' = <<>> /\ free_list' = <<>>
    BY <1>0 DEF EmptyPool
  <2> QED BY <1>4, <2>1, <2>3, <2>4, <2>5, <2>6 DEF PlanInv
<1> QED BY <1>5, <1>6

-----------------------------------------------------------------------------
\* The sort of do_prepare2_late, and that of wtop_emit.
LEMMA PendingFacts ==
  ASSUME GraphOK, NEW seq, NEW done, NEW o \in Ops
  PROVE  /\ IsFiniteSet(Pending(seq, done, o)) /\ Pending(seq, done, o) \subseteq Ops
         /\ Cardinality(Pending(seq, done, o)) \in Nat
         /\ Cardinality(Pending(seq, done, o)) = 0 <=> Pending(seq, done, o) = {}
<1>1. Pending(seq, done, o) \in SUBSET Ops
  BY DEF GraphOK, Pending
<1>2. IsFiniteSet(Pending(seq, done, o))
  BY <1>1, OpsFacts, FS_Subset
<1> QED BY <1>1, <1>2, FS_CardinalityType, FS_EmptySet

LEMMA KahnStart ==
  ASSUME GraphOK, NEW seq, IsPerm(seq)
  PROVE  KahnIs(seq, Indegree(seq), Roots(seq), <<>>)
<1>1. <<>> \in Seq(Ops) /\ DOMAIN <<>> = {} /\ Range(<<>>) = {} /\ Distinct(<<>>)
  BY DEF Range, Distinct
<1>2. \A o \in Ops : Pending(seq, <<>>, o) = {s \in ins[o] : Edge(seq, s, o)}
  BY <1>1 DEF Pending
<1>3. Indegree(seq) = [o \in Ops |-> Cardinality(Pending(seq, <<>>, o))]
  BY <1>2 DEF Indegree
<1> DEFINE S == {o \in Ops : Indegree(seq)[o] = 0}
<1>4. Roots(seq) \in Seq(S) /\ Range(Roots(seq)) = S /\ Distinct(Roots(seq)) /\ S \in SUBSET Ops
  BY InOrderFacts DEF Roots, Distinct
<1>5. Roots(seq) \in Seq(Ops)
  <2> HIDE DEF S
  <2> QED BY <1>4
<1>6. \A o \in S : Pending(seq, <<>>, o) = {}
  BY <1>3, PendingFacts
<1> HIDE DEF S
<1> QED BY <1>1, <1>3, <1>4, <1>5, <1>6 DEF KahnIs

LEMMA KahnPopStep ==
  ASSUME GraphOK, ins' = ins, KahnOK, KahnPop
  PROVE  KahnOK'
<1> DEFINE id == Last(ready)
           J == {i \in DOMAIN sched : Edge(sched, id, sched[i]) /\ indeg[sched[i]] = 1}
           N == Select(sched, J)
           F == Front(ready)
<1>0. /\ ready # <<>> /\ topo' = Append(topo, id) /\ sched' = sched
      /\ indeg' = [o \in Ops |-> IF Edge(sched, id, o) THEN indeg[o] - 1 ELSE indeg[o]]
  BY DEF KahnPop
<1>1. ready' = F \o N
  <2> DEFINE succ == {i \in DOMAIN sched : Edge(sched, id, sched[i])}
  <2>1. J = {i \in succ : indeg[sched[i]] = 1}
    OBVIOUS
  <2>2. ready' = F \o Select(sched, {i \in succ : indeg[sched[i]] = 1})
    BY DEF KahnPop
  <2> QED BY <2>1, <2>2
<1>2. /\ IsPerm(sched) /\ topo \in Seq(Ops) /\ ready \in Seq(Ops)
      /\ Distinct(topo) /\ Distinct(ready) /\ Range(topo) \cap Range(ready) = {}
      /\ indeg = [o \in Ops |-> Cardinality(Pending(sched, topo, o))]
      /\ \A o \in Range(topo) \cup Range(ready) : Pending(sched, topo, o) = {}
      /\ \A k \in DOMAIN topo : \A s \in ins[topo[k]] :
           Edge(sched, s, topo[k]) => \E j \in DOMAIN topo : j < k /\ topo[j] = s
  BY DEF KahnOK, KahnIs
<1>3. /\ Len(ready) \in Nat \ {0} /\ DOMAIN ready = 1 .. Len(ready) /\ id = ready[Len(ready)]
      /\ id \in Ops /\ id \in Range(ready) /\ id \notin Range(topo)
  <2>1. Len(ready) \in Nat \ {0} /\ DOMAIN ready = 1 .. Len(ready) /\ id = ready[Len(ready)]
    BY <1>0, <1>2 DEF Last
  <2>2. Len(ready) \in DOMAIN ready
    BY <2>1
  <2>3. id \in Ops /\ id \in Range(ready)
    BY <1>2, <2>1, <2>2 DEF Range
  <2> QED BY <1>2, <2>1, <2>3
<1>4. /\ F \in Seq(Ops) /\ DOMAIN F = 1 .. Len(ready) - 1 /\ Len(F) = Len(ready) - 1
      /\ \A i \in DOMAIN F : F[i] = ready[i] /\ i \in DOMAIN ready /\ i # Len(ready)
  <2>1. F = SubSeq(ready, 1, Len(ready) - 1)
    BY DEF Front
  <2>2. F \in Seq(Ops) /\ Len(F) = Len(ready) - 1 /\ \A i \in 1 .. Len(ready) - 1 : F[i] = ready[i]
    BY <1>2, <1>3, <2>1
  <2>3. DOMAIN F = 1 .. Len(F)
    <3> HIDE DEF F
    <3> QED BY <2>2, LenProperties
  <2> HIDE DEF F
  <2> QED BY <1>3, <2>2, <2>3
<1>5. PICK at : /\ IsEnum(at, J) /\ Cardinality(J) \in Nat /\ N \in Seq(Ops) /\ Len(N) = Cardinality(J)
                /\ DOMAIN N = 1 .. Cardinality(J)
                /\ \A n \in 1 .. Cardinality(J) : N[n] = sched[at[n]]
  <2>1. sched \in Seq(Ops) /\ J \in SUBSET DOMAIN sched /\ N = Select(sched, J)
    BY <1>2, PermFacts
  <2> HIDE DEF J, N
  <2> QED BY <2>1, SelectType
<1> HIDE DEF id, F, N
<1>6. \A n \in DOMAIN N : at[n] \in J /\ N[n] = sched[at[n]] /\ Edge(sched, id, N[n]) /\ indeg[N[n]] = 1 /\ N[n] \in Ops
  <2>1. \A n \in DOMAIN N : at[n] \in J /\ N[n] = sched[at[n]]
    <3> HIDE DEF J
    <3> QED BY <1>5 DEF IsEnum
  <2>2. \A n \in DOMAIN N : N[n] \in Ops
    BY <1>5
  <2> QED BY <2>1, <2>2
<1>7. Distinct(N)
  <2> SUFFICES ASSUME NEW m \in DOMAIN N, NEW n \in DOMAIN N, N[m] = N[n] PROVE m = n
    BY DEF Distinct
  <2>1. at[m] \in DOMAIN sched /\ at[n] \in DOMAIN sched /\ sched[at[m]] = sched[at[n]]
    BY <1>6
  <2>2. at[m] = at[n] /\ at[m] \in Nat /\ at[n] \in Nat
    BY <1>2, <2>1, PermFacts, OpsFacts DEF IsPerm
  <2> HIDE DEF J
  <2>3. m \in 1 .. Cardinality(J) /\ n \in 1 .. Cardinality(J) /\ Cardinality(J) \in Nat
    BY <1>5
  <2>4. (m < n => at[m] < at[n]) /\ (n < m => at[n] < at[m])
    BY <1>5, <2>3 DEF IsEnum
  <2> QED BY <2>2, <2>3, <2>4
<1> HIDE DEF J
\* What the operation that is done means for the others.
<1>8. /\ topo' \in Seq(Ops) /\ DOMAIN topo' = 1 .. Len(topo) + 1 /\ Len(topo) \in Nat
      /\ DOMAIN topo = 1 .. Len(topo) /\ topo'[Len(topo) + 1] = id
      /\ \A k \in DOMAIN topo : topo'[k] = topo[k] /\ k \in DOMAIN topo'
      /\ \A k \in DOMAIN topo' : k \in DOMAIN topo \/ k = Len(topo) + 1
  BY <1>0, <1>2, <1>3
<1>9. Range(topo') = Range(topo) \cup {id}
  <2>1. Len(topo) + 1 \in DOMAIN topo'
    BY <1>8
  <2> QED BY <1>8, <2>1 DEF Range
<1>11. ASSUME NEW o \in Ops
       PROVE  /\ Pending(sched, topo', o) = Pending(sched, topo, o) \ {id}
              /\ Edge(sched, id, o) => id \in Pending(sched, topo, o)
              /\ ~Edge(sched, id, o) => id \notin Pending(sched, topo, o)
  <2>1. Pending(sched, topo', o) = {s \in ins[o] : Edge(sched, s, o) /\ s \notin Range(topo')}
    BY DEF Pending
  <2>2. Edge(sched, id, o) => id \in ins[o]
    BY DEF Edge
  <2> QED BY <1>3, <1>9, <2>1, <2>2 DEF Pending
<1>12. ASSUME NEW o \in Ops
       PROVE  /\ indeg[o] = Cardinality(Pending(sched, topo, o)) /\ indeg[o] \in Nat
              /\ Cardinality(Pending(sched, topo', o)) = IF Edge(sched, id, o) THEN indeg[o] - 1 ELSE indeg[o]
              /\ IsFiniteSet(Pending(sched, topo', o))
  <2>1. indeg[o] = Cardinality(Pending(sched, topo, o)) /\ indeg[o] \in Nat
        /\ IsFiniteSet(Pending(sched, topo, o))
    BY <1>2, PendingFacts
  <2>2. /\ IsFiniteSet(Pending(sched, topo, o) \ {id})
        /\ Cardinality(Pending(sched, topo, o) \ {id}) =
             IF id \in Pending(sched, topo, o) THEN Cardinality(Pending(sched, topo, o)) - 1
             ELSE Cardinality(Pending(sched, topo, o))
    BY <2>1, FS_RemoveElement
  <2> QED BY <1>11, <2>1, <2>2
<1>13. indeg' = [o \in Ops |-> Cardinality(Pending(sched, topo', o))]
  BY <1>0, <1>12
<1>14. \A o \in Range(topo) \cup Range(ready) : o \in Ops /\ Pending(sched, topo', o) = {} /\ indeg[o] = 0
  <2>1. \A o \in Range(topo) \cup Range(ready) : o \in Ops
    BY <1>2 DEF Range
  <2>2. \A o \in Range(topo) \cup Range(ready) : Pending(sched, topo, o) = {}
    BY <1>2
  <2> QED BY <1>11, <1>12, <2>1, <2>2, PendingFacts
<1>15. \A n \in DOMAIN N : Pending(sched, topo', N[n]) = {} /\ N[n] \notin Range(topo) \cup Range(ready)
  <2> SUFFICES ASSUME NEW n \in DOMAIN N
               PROVE  Pending(sched, topo', N[n]) = {} /\ N[n] \notin Range(topo) \cup Range(ready)
    OBVIOUS
  <2>1. N[n] \in Ops /\ Edge(sched, id, N[n]) /\ indeg[N[n]] = 1
    BY <1>6
  <2>2. Cardinality(Pending(sched, topo', N[n])) = 0 /\ IsFiniteSet(Pending(sched, topo', N[n]))
    BY <1>12, <2>1
  <2>3. Pending(sched, topo', N[n]) = {}
    BY <2>2, FS_EmptySet
  <2> QED BY <1>14, <2>1, <2>3
\* The stack.
<1>16. /\ ready' \in Seq(Ops) /\ DOMAIN ready' = 1 .. Len(F) + Len(N) /\ Len(F) \in Nat /\ Len(N) \in Nat
       /\ \A i \in DOMAIN ready' : \/ i \in DOMAIN F /\ ready'[i] = F[i]
                                   \/ i - Len(F) \in DOMAIN N /\ ready'[i] = N[i - Len(F)] /\ i \notin DOMAIN F
  <2>1. F \in Seq(Ops) /\ N \in Seq(Ops) /\ Len(F) \in Nat /\ Len(N) \in Nat /\ DOMAIN F = 1 .. Len(F) /\ DOMAIN N = 1 .. Len(N)
    BY <1>4, <1>5
  <2>2. ready' \in Seq(Ops) /\ Len(ready') = Len(F) + Len(N)
        /\ \A i \in 1 .. Len(F) + Len(N) : ready'[i] = IF i <= Len(F) THEN F[i] ELSE N[i - Len(F)]
    BY <1>1, <2>1, ConcatProperties
  <2>3. DOMAIN ready' = 1 .. Len(F) + Len(N)
    BY <2>2, LenProperties
  <2> QED BY <2>1, <2>2, <2>3
<1>17. \A i \in DOMAIN F : F[i] \in Range(ready) /\ F[i] # id
  BY <1>2, <1>3, <1>4 DEF Range, Distinct
<1>18. Distinct(ready')
  <2> SUFFICES ASSUME NEW i \in DOMAIN ready', NEW j \in DOMAIN ready', ready'[i] = ready'[j] PROVE i = j
    BY DEF Distinct
  <2>1. CASE i \in DOMAIN F /\ ready'[i] = F[i]
    <3>1. CASE j \in DOMAIN F /\ ready'[j] = F[j]
      <4>1. i \in DOMAIN ready /\ j \in DOMAIN ready /\ ready[i] = ready[j]
        BY <1>4, <2>1, <3>1
      <4> QED BY <1>2, <4>1 DEF Distinct
    <3>2. CASE j - Len(F) \in DOMAIN N /\ ready'[j] = N[j - Len(F)]
      BY <1>15, <1>17, <2>1, <3>2
    <3> QED BY <1>16, <3>1, <3>2
  <2>2. CASE i - Len(F) \in DOMAIN N /\ ready'[i] = N[i - Len(F)]
    <3>1. CASE j \in DOMAIN F /\ ready'[j] = F[j]
      BY <1>15, <1>17, <2>2, <3>1
    <3>2. CASE j - Len(F) \in DOMAIN N /\ ready'[j] = N[j - Len(F)]
      <4>1. i - Len(F) = j - Len(F)
        BY <1>7, <2>2, <3>2 DEF Distinct
      <4>2. i \in Nat /\ j \in Nat /\ Len(F) \in Nat
        BY <1>16
      <4> QED BY <4>1, <4>2
    <3> QED BY <1>16, <3>1, <3>2
  <2> QED BY <1>16, <2>1, <2>2
<1>19. \A i \in DOMAIN ready' : /\ ready'[i] \notin Range(topo')
                                /\ Pending(sched, topo', ready'[i]) = {}
  <2> SUFFICES ASSUME NEW i \in DOMAIN ready'
               PROVE  ready'[i] \notin Range(topo') /\ Pending(sched, topo', ready'[i]) = {}
    OBVIOUS
  <2>1. CASE i \in DOMAIN F /\ ready'[i] = F[i]
    <3>1. F[i] \in Range(ready) /\ F[i] # id /\ F[i] \notin Range(topo)
      BY <1>2, <1>17, <2>1
    <3> QED BY <1>9, <1>14, <2>1, <3>1
  <2>2. CASE i - Len(F) \in DOMAIN N /\ ready'[i] = N[i - Len(F)]
    BY <1>3, <1>9, <1>15, <2>2
  <2> QED BY <1>16, <2>1, <2>2
\* The result.
<1>20. Distinct(topo')
  <2>1. \A k \in DOMAIN topo : topo[k] # id
    BY <1>3 DEF Range
  <2> QED BY <1>2, <1>8, <2>1 DEF Distinct
<1>21. ASSUME NEW k \in DOMAIN topo', NEW s \in ins[topo'[k]], Edge(sched, s, topo'[k])
       PROVE  \E j \in DOMAIN topo' : j < k /\ topo'[j] = s
  <2>1. CASE k \in DOMAIN topo
    BY <1>2, <1>8, <1>21, <2>1
  <2>2. CASE k = Len(topo) + 1
    <3>1. topo'[k] = id /\ Pending(sched, topo, id) = {}
      BY <1>2, <1>3, <1>8, <2>2
    <3>2. s \in Range(topo)
      BY <1>21, <3>1 DEF Pending
    <3>3. PICK j \in DOMAIN topo : topo[j] = s
      BY <3>2 DEF Range
    <3>4. j < k
      BY <1>8, <2>2, <3>3
    <3> QED BY <1>8, <3>3, <3>4
  <2> QED BY <1>8, <2>1, <2>2
<1>22. Range(topo') \cap Range(ready') = {}
  BY <1>19 DEF Range
<1>23. \A o \in Range(topo') \cup Range(ready') : Pending(sched, topo', o) = {}
  <2>1. \A o \in Range(topo') : Pending(sched, topo', o) = {}
    BY <1>3, <1>9, <1>14
  <2> QED BY <1>19, <2>1 DEF Range
<1>24. \A k \in DOMAIN topo' : \A s \in ins'[topo'[k]] :
         Edge(sched', s, topo'[k]) => \E j \in DOMAIN topo' : j < k /\ topo'[j] = s
  BY <1>0, <1>21
<1>25. IsPerm(sched')
  BY <1>0, <1>2
<1>26. KahnIs(sched', indeg', ready', topo')
  BY <1>0, <1>8, <1>13, <1>16, <1>18, <1>20, <1>22, <1>23, <1>24, <1>25 DEF KahnIs
<1> QED BY <1>26 DEF KahnOK, KahnIs, Pending, Edge, IsPerm, Distinct

LEMMA KahnEnd ==
  ASSUME GraphOK, KahnOK
  PROVE  IsPerm(KahnResult) /\ (Topological(sched) => Topological(KahnResult))
<1>1. IsPerm(sched) /\ topo \in Seq(Ops) /\ Distinct(topo)
      /\ \A k \in DOMAIN topo : \A s \in ins[topo[k]] :
           Edge(sched, s, topo[k]) => \E j \in DOMAIN topo : j < k /\ topo[j] = s
  BY DEF KahnOK, KahnIs
<1>2. CASE Len(topo) # Len(sched)
  BY <1>1, <1>2 DEF KahnResult
<1>3. CASE Len(topo) = Len(sched)
  <2>1. KahnResult = topo /\ DOMAIN topo = Ops /\ topo \in [Ops -> Ops]
    <3>1. Len(topo) = NOps
      BY <1>1, <1>3, PermFacts
    <3> QED BY <1>1, <1>3, <3>1 DEF KahnResult, Ops
  <2>2. IsPerm(topo)
    BY <1>1, <2>1 DEF IsPerm, Distinct
  <2>3. ASSUME Topological(sched), NEW o \in Ops, NEW s \in ins[o]
        PROVE  Pos(topo, s) < Pos(topo, o)
    <3>1. s \in Ops
      BY <2>3 DEF GraphOK
    <3>2. Edge(sched, s, o)
      BY <2>3 DEF Topological, Edge
    <3>3. PICK k \in Ops : topo[k] = o /\ k = Pos(topo, o) + 1 /\ Pos(topo, o) \in Nat
      <4>1. Pos(topo, o) \in 0 .. NOps - 1 /\ topo[Pos(topo, o) + 1] = o
        BY <2>2, PermFacts
      <4>2. Pos(topo, o) + 1 \in Ops /\ Pos(topo, o) \in Nat
        BY <4>1, OpsFacts DEF Ops
      <4> QED BY <4>1, <4>2
    <3>4. PICK j \in Ops : j < k /\ topo[j] = s
      BY <1>1, <2>1, <2>3, <3>2, <3>3
    <3>5. Pos(topo, s) = j - 1 /\ j \in Nat /\ k \in Nat
      BY <2>2, <3>4, PermFacts, OpsFacts
    <3> QED BY <3>3, <3>4, <3>5
  <2> QED BY <2>1, <2>2, <2>3 DEF Topological
<1> QED BY <1>2, <1>3

-----------------------------------------------------------------------------
LEMMA PlanInvInit ==
  ASSUME PlanInit
  PROVE  PlanInv
<1>1. ins \in Graphs /\ size \in [Ops -> Sizes] /\ phase = "order" /\ budget = <<0, 0>> /\ plan = <<>>
      /\ sched \in SetToSeqs(Ops) /\ indeg = Indegree(sched) /\ ready = Roots(sched) /\ topo = <<>>
      /\ active = <<>> /\ free_list = <<>>
  BY DEF PlanInit
<1>2. GraphOK
  BY <1>1, PlanAssumption DEF GraphOK, Graphs
<1>3. IsPerm(sched)
  <2>1. sched \in [1 .. NOps -> Ops] /\ \A i, j \in 1 .. NOps : i # j => sched[i] # sched[j]
    BY <1>1, OpsFacts DEF SetToSeqs
  <2> QED BY <2>1 DEF IsPerm, Ops
<1>4. KahnOK
  BY <1>1, <1>2, <1>3, KahnStart DEF KahnOK
<1>5. DOMAIN plan = {}
  BY <1>1
<1>6. NoLiveOverlap
  BY <1>5 DEF NoLiveOverlap
<1> QED BY <1>1, <1>2, <1>4, <1>5, <1>6 DEF PlanInv

LEMMA OrderDoneStep ==
  ASSUME PlanInv, OrderDone
  PROVE  PlanInv'
<1>0. /\ phase = "order" /\ order' = KahnResult /\ rest' = <<>> /\ EmptyPool
      /\ ins' = ins /\ size' = size /\ plan' = plan
  BY DEF OrderDone, graphVars
<1>1. GraphOK /\ KahnOK /\ DOMAIN plan = {}
  BY <1>0 DEF PlanInv
<1>2. PICK b \in Budgets :
        /\ budget' = b
        /\ phase' = IF b[1] = 0 THEN "planned" ELSE "place"
        /\ pool' = IF b[2] = 0 THEN "ddr" ELSE "vtcm"
        /\ todo' = IF b[1] = 0 THEN <<>> ELSE order'
  BY DEF OrderDone
<1>3. b \in Nat \X Nat /\ budget' \in Nat \X Nat
  BY <1>2, PlanAssumption
<1>4. IsPerm(order') /\ IsPerm(order)'
  BY <1>0, <1>1, KahnEnd DEF IsPerm
<1>5. GraphOK' /\ DOMAIN plan' = {}
  BY <1>0, <1>1 DEF GraphOK
<1>6. NoLiveOverlap'
  BY <1>5 DEF NoLiveOverlap
<1>7. CASE b[1] = 0
  <2>1. phase' = "planned" /\ active' = <<>> /\ free_list' = <<>> /\ ~Planned'
    BY <1>0, <1>2, <1>7 DEF EmptyPool, Planned
  <2> QED BY <1>3, <1>4, <1>5, <1>6, <2>1 DEF PlanInv
<1>8. CASE b[1] # 0
  <2>1. phase' = "place" /\ todo' = order' /\ pool' \in {"vtcm", "ddr"}
    BY <1>2, <1>8
  <2>2. PoolOK'
    <3>1. Limit(pool)' \in Nat
      BY <1>3 DEF Limit
    <3> QED BY <1>0, <3>1, EmptyPoolOK
  <2>3. /\ todo' \in Seq(Ops) /\ DOMAIN todo' = Ops /\ Range(todo') = Ops
        /\ \A i \in Ops : Pos(order', todo'[i]) = i - 1
    BY <1>4, <2>1, PermFacts
  <2>4. rest' \in Seq(Ops) /\ DOMAIN rest' = {} /\ Range(rest') = {}
    BY <1>0 DEF Range
  <2>5. Rising(todo)' /\ Rising(rest)'
    <3>1. ASSUME NEW i \in Ops, NEW j \in Ops, i < j
          PROVE  Pos(order', todo'[i]) < Pos(order', todo'[j])
      <4>1. i \in Nat /\ j \in Nat
        BY OpsFacts
      <4>2. Pos(order', todo'[i]) = i - 1 /\ Pos(order', todo'[j]) = j - 1
        BY <2>3
      <4> QED BY <3>1, <4>1, <4>2
    <3> QED BY <2>3, <2>4, <3>1 DEF Rising, LifeBegin
  <2>6. PlaceOK'
    BY <1>5, <2>1, <2>2, <2>3, <2>4, <2>5 DEF PlaceOK
  <2> QED BY <1>3, <1>4, <1>5, <1>6, <2>1, <2>6 DEF PlanInv
<1> QED BY <1>7, <1>8

LEMMA OrderStepStep ==
  ASSUME PlanInv, OrderStep
  PROVE  PlanInv'
<1>0. /\ phase = "order" /\ phase' = "order" /\ KahnPop /\ ins' = ins /\ size' = size /\ plan' = plan
      /\ budget' = budget /\ active' = active /\ free_list' = free_list /\ order' = order
  BY DEF OrderStep, graphVars, poolVars
<1>1. GraphOK /\ KahnOK /\ DOMAIN plan = {}
  BY <1>0 DEF PlanInv
<1>2. KahnOK'
  BY <1>0, <1>1, KahnPopStep
<1>3. GraphOK' /\ NoLiveOverlap'
  BY <1>0, <1>1 DEF GraphOK, NoLiveOverlap
<1> QED BY <1>0, <1>1, <1>2, <1>3 DEF PlanInv

\* What the emitter and the executor leave alone.
PlanKept == /\ UNCHANGED <<graphVars, poolVars, order, budget, plan>>
            /\ phase \notin {"order", "place"} /\ phase' \notin {"order", "place"}

LEMMA KeptStep ==
  ASSUME PlanInv, PlanKept, phase' = "reorder" => KahnOK'
  PROVE  PlanInv'
<1>0. /\ ins' = ins /\ size' = size /\ plan' = plan /\ budget' = budget /\ active' = active
      /\ free_list' = free_list /\ order' = order
      /\ phase \notin {"order", "place"} /\ phase' \notin {"order", "place"}
  BY DEF PlanKept, graphVars, poolVars
<1>1. GraphOK' /\ IsPerm(order)' /\ budget' \in Nat \X Nat
  BY <1>0 DEF PlanInv, GraphOK, IsPerm
<1>2. \A x : LifeBegin(x)' = LifeBegin(x) /\ LifeEnd(x)' = LifeEnd(x)
  BY <1>0 DEF LifeBegin, LifeEnd, Consumers, Pos
<1>3. NoLiveOverlap'
  BY <1>0, <1>2 DEF PlanInv, NoLiveOverlap, Together, Apart
<1>4. /\ DOMAIN plan' \subseteq Ops /\ \A o \in DOMAIN plan' : plan'[o] \in Places
      /\ \A o \in DOMAIN plan' : plan'[o].pool # "spill" => plan'[o].off + size'[o] <= Limit(plan[o].pool)'
      /\ (Planned' => DOMAIN plan' = Ops)
      /\ active' = <<>> /\ free_list' = <<>>
  BY <1>0 DEF PlanInv, Limit, Planned
<1> QED BY <1>0, <1>1, <1>3, <1>4 DEF PlanInv

LEMMA PlanInvStep ==
  ASSUME PlanInv, [Next]_vars
  PROVE  PlanInv'
<1>1. CASE PlanNext
  BY <1>1, OrderStepStep, OrderDoneStep, PlaceStep, PoolDoneStep DEF PlanNext
<1>2. CASE StartEmit
  <2>1. PlanKept /\ phase = "planned"
    BY <1>2 DEF StartEmit, PlanKept
  <2>2. ASSUME phase' = "reorder" PROVE KahnOK'
    <3>1. StartKahn(order) /\ ins' = ins
      BY <1>2, <2>2 DEF StartEmit, graphVars
    <3>2. KahnIs(order, Indegree(order), Roots(order), <<>>)
      BY <2>1, KahnStart DEF PlanInv
    <3>3. KahnIs(sched', indeg', ready', topo')
      BY <3>1, <3>2 DEF StartKahn
    <3> QED BY <3>1, <3>3 DEF KahnOK, KahnIs, Pending, Edge, IsPerm, Distinct
  <2> QED BY <2>1, <2>2, KeptStep
<1>3. CASE ReorderStep
  <2>1. PlanKept /\ phase = "reorder" /\ ins' = ins
    BY <1>3 DEF ReorderStep, PlanKept, graphVars
  <2>2. ASSUME phase' = "reorder" PROVE KahnOK'
    <3>1. KahnPop
      BY <1>3, <2>2 DEF ReorderStep
    <3> QED BY <2>1, <3>1, KahnPopStep DEF PlanInv
  <2> QED BY <2>1, <2>2, KeptStep
<1>4. CASE Emit \/ RunOp \/ RunSpill \/ RunFill \/ Shutdown
  <2>1. UNCHANGED planVars
    BY <1>4 DEF Emit, RunOp, RunSpill, RunFill, Shutdown, Advance
  <2>2. phase \in {"emit", "run", "ran", "error"}
    BY <1>4 DEF Emit, RunOp, RunSpill, RunFill, Shutdown, Running
  <2>3. PlanKept /\ phase' = phase
    BY <2>1, <2>2 DEF PlanKept, planVars
  <2> QED BY <2>2, <2>3, KeptStep
<1>5. CASE EmitFails \/ BeginRun \/ RunFails \/ RunDone
  <2>1. PlanKept /\ phase' # "reorder"
    BY <1>5 DEF EmitFails, BeginRun, RunFails, RunDone, PlanKept
  <2> QED BY <2>1, KeptStep
<1>6. CASE UNCHANGED vars
  <2>1. UNCHANGED planVars
    BY <1>6 DEF vars
  <2>2. UNCHANGED <<graphVars, orderVars, poolVars, phase, order, budget, plan>>
    BY <2>1 DEF planVars
  <2>3. /\ ins' = ins /\ size' = size /\ sched' = sched /\ indeg' = indeg /\ ready' = ready /\ topo' = topo
        /\ pool' = pool /\ todo' = todo /\ rest' = rest /\ active' = active /\ free_list' = free_list
        /\ high_water' = high_water /\ phase' = phase /\ order' = order /\ budget' = budget /\ plan' = plan
    BY <2>2 DEF graphVars, orderVars, poolVars
  <2>4. /\ GraphOK' = GraphOK /\ KahnOK' = KahnOK /\ IsPerm(order)' = IsPerm(order)
        /\ PoolOK' = PoolOK
    BY <2>3 DEF GraphOK, KahnOK, KahnIs, Pending, Edge, IsPerm, Distinct, Pos, PoolOK, BlocksOK, GapsOK,
                Separate, Disjoint, Limit
  <2>5. \A x : LifeBegin(x)' = LifeBegin(x) /\ LifeEnd(x)' = LifeEnd(x)
    BY <2>3 DEF LifeBegin, LifeEnd, Consumers, Pos
  <2>6. NoLiveOverlap' = NoLiveOverlap
    BY <2>3, <2>5 DEF NoLiveOverlap, Together, Apart
  <2>7. PlaceOK' = PlaceOK
    BY <2>3, <2>4, <2>5 DEF PlaceOK, Rising, Tracked, Shape
  <2> QED BY <2>3, <2>4, <2>6, <2>7 DEF PlanInv, Limit, Planned
<1> QED BY <1>1, <1>2, <1>3, <1>4, <1>5, <1>6 DEF Next

-----------------------------------------------------------------------------
\* The invariant of the plan holds in every state: while Kahn's algorithm works,
\* while compute_ddr_offsets fills the two pools, and in every later state.
THEOREM PlanSafe == Spec => []PlanInv
<1>1. Init => PlanInv
  BY PlanInvInit DEF Init
<1>2. PlanInv /\ [Next]_vars => PlanInv'
  BY PlanInvStep
<1> QED BY <1>1, <1>2, PTL DEF Spec

\* The plan never gives two tensors that are live together a common byte, nor
\* two spilled ones: validate_no_overlap of graph_prepare.cpp never aborts.
THEOREM PlanNoLiveOverlap == Spec => []NoLiveOverlap
<1>1. PlanInv => NoLiveOverlap
  BY DEF PlanInv
<1> QED BY <1>1, PlanSafe, PTL

\* Every place lies inside the budget of its pool, a finished plan has a place
\* for every tensor, and allocate_with_lifetime keeps no range that is in use
\* on its free list.
THEOREM PlanAlwaysFits == Spec => []PlanFits
<1>1. ASSUME PlanInv PROVE PlanFits
  <2>1. \A o \in DOMAIN plan : plan[o].pool # "spill" => plan[o].off + size[o] <= Limit(plan[o].pool)
    BY <1>1 DEF PlanInv
  <2>2. phase = "planned" /\ Planned => DOMAIN plan = Ops
    BY <1>1 DEF PlanInv
  <2>3. \A i \in DOMAIN free_list : \A j \in DOMAIN active :
          \/ free_list[i].hi <= active[j].off
          \/ active[j].off + active[j].size <= free_list[i].lo
    <3>1. CASE phase = "place"
      <4>1. Separate(free_list, active)
        BY <1>1, <3>1 DEF PlanInv, PlaceOK, PoolOK
      <4> QED BY <4>1 DEF Separate, Disjoint
    <3>2. CASE phase # "place"
      <4>1. DOMAIN free_list = {}
        BY <1>1, <3>2 DEF PlanInv
      <4> QED BY <4>1
    <3> QED BY <3>1, <3>2
  <2> QED BY <2>1, <2>2, <2>3 DEF PlanFits
<1> QED BY <1>1, PlanSafe, PTL

\* do_prepare2_late: a scheduler's order that puts every producer before its
\* consumers is replaced by one that does so too.
THEOREM PlanOrderKept == Spec => OrderKept
<1>1. ASSUME PlanInv, OrderDone, Topological(sched) PROVE Topological(order')
  <2>1. order' = KahnResult /\ GraphOK /\ KahnOK
    BY <1>1 DEF OrderDone, PlanInv
  <2>2. Topological(KahnResult)
    BY <1>1, <2>1, KahnEnd
  <2> QED BY <2>1, <2>2
<1>2. PlanInv => [OrderDone /\ Topological(sched) => Topological(order')]_planVars
  BY <1>1
<1> QED BY <1>2, PlanSafe, PTL DEF OrderKept
-----------------------------------------------------------------------------
\* What wtop_emit keeps.  Temps: no two tensors that are still needed have the
\* same one, none of those is free, and what is needed has one.
Used == 0 .. next_temp - 1
Early == {"order", "place", "planned", "reorder"}
Emitted == {o \in Ops : Pos(eorder, o) < pos}
NeededBy(o, p) == o = Out \/ \E c \in Consumers(o) : p <= Pos(eorder, c)

TempsOK ==
  /\ pos \in 0 .. NOps /\ next_temp \in 0 .. pos
  /\ free_temps \in Seq(Used) /\ Distinct(free_temps)
  /\ DOMAIN op_temp \subseteq Emitted
  /\ \A s \in DOMAIN op_temp : op_temp[s] \in Used /\ op_temp[s] \notin Range(free_temps)
  /\ \A r, s \in DOMAIN op_temp : op_temp[r] = op_temp[s] => r = s
  /\ \A o \in Emitted : NeededBy(o, pos) => o \in DOMAIN op_temp
  /\ DOMAIN tab \subseteq Used
  /\ \A t \in DOMAIN tab : tab[t] \in Places /\ tab[t].pool # "spill"

\* The op list: operations in the order of emission, each one after those it reads;
\* behind an operation that is spilled its spill, and before one that reads a
\* spilled tensor its fill.  A temp is used again only for a tensor that comes
\* behind all consumers of the one before it.
Instrs == [kind : {"op"}, op : Ops, temp : Nat, size : Nat, from : UNION {[S -> Nat] : S \in SUBSET Ops}]
          \cup [kind : {"fill", "spill"}, temp : Nat, off : Nat, size : Nat]
IsOp(i, o) == i \in DOMAIN code /\ code[i].kind = "op" /\ code[i].op = o
Moves(k, o, t) == [kind |-> k, temp |-> t, off |-> SpillAt(o), size |-> size[o]]
OnlyFills(i, j) == \A k \in i .. j - 1 : code[k].kind = "fill"

OpsInOrder ==
  /\ \A o \in Emitted : \E i \in DOMAIN code : IsOp(i, o)
  /\ \A i \in OpsOf : code[i].op \in Emitted /\ code[i].size = size[code[i].op]
  /\ \A i, j \in OpsOf : i < j => Pos(eorder, code[i].op) < Pos(eorder, code[j].op)
  /\ \A i \in OpsOf : code[i].op \in DOMAIN op_temp => op_temp[code[i].op] = code[i].temp
SourcesOK ==
  \A i \in OpsOf : /\ DOMAIN code[i].from = ins[code[i].op]
                   /\ \A s \in ins[code[i].op] : \E h \in DOMAIN code :
                        h < i /\ IsOp(h, s) /\ code[h].temp = code[i].from[s]
SpillsOK ==
  /\ \A i \in OpsOf : code[i].op \in Spills =>
       i + 1 \in DOMAIN code /\ code[i + 1] = Moves("spill", code[i].op, code[i].temp)
  /\ \A i \in DOMAIN code : code[i].kind = "spill" =>
       i - 1 \in OpsOf /\ code[i - 1].op \in Spills /\ code[i] = Moves("spill", code[i - 1].op, code[i - 1].temp)
FillOf(i, q) ==
  /\ q \in Spills /\ code[i] = Moves("fill", q, code[i].temp)
  /\ \E h \in DOMAIN code : h + 1 < i /\ IsOp(h, q) /\ code[h].temp = code[i].temp
  /\ \E j \in OpsOf : i < j /\ q \in ins[code[j].op] /\ OnlyFills(i, j)
FillsOK ==
  /\ \A i \in DOMAIN code : code[i].kind = "fill" => \E q \in Ops : FillOf(i, q)
  /\ \A j \in OpsOf : \A q \in ins[code[j].op] \cap Spills :
       \E i \in DOMAIN code : i < j /\ code[i] = Moves("fill", q, code[j].from[q]) /\ OnlyFills(i, j)
Reuse ==
  \A i, j \in OpsOf : i < j /\ code[i].temp = code[j].temp => ~NeededBy(code[i].op, Pos(eorder, code[j].op))

CodeOK ==
  /\ code \in Seq(Instrs) /\ \A i \in DOMAIN code : code[i].temp \in Used /\ code[i].size \in Nat \ {0}
  /\ OpsInOrder /\ SourcesOK /\ SpillsOK /\ FillsOK /\ Reuse

EmitInv ==
  /\ phase \in Early => /\ pos = 0 /\ next_temp = 0 /\ op_temp = <<>> /\ free_temps = <<>>
                        /\ tab = <<>> /\ code = <<>>
  /\ phase \notin Early => /\ IsPerm(eorder) /\ (Topological(order) => eorder = order)
                           /\ TempsOK /\ CodeOK
  /\ phase \in {"reorder", "failed"} => ~Topological(order)
  /\ phase \in {"run", "ran", "error"} => pos = NOps
  /\ phase \in Early \cup {"emit", "failed", "run", "ran", "error"}
  /\ dma_runlist \in BOOLEAN

-----------------------------------------------------------------------------
\* What the executor keeps.
Base == IF Planned THEN Cap ELSE 0
AreasOK ==
  /\ pool_used \in Nat /\ ((pool_used = 0 /\ temps = <<>>) \/ Base <= pool_used)
  /\ phase = "run" => Base <= pool_used
  /\ DOMAIN temps \subseteq Used /\ DOMAIN temp_bytes = DOMAIN temps
  /\ \A t \in DOMAIN temps : temps[t] \in Addrs /\ temp_bytes[t] \in Nat
  /\ \A t \in DOMAIN temps : Static(t) => temps[t] = <<tab[t].pool, tab[t].off>>
  /\ \A t \in DOMAIN temps : ~Static(t) =>
       temps[t][1] = "ddr" /\ Base <= temps[t][2] /\ temps[t][2] + temp_bytes[t] <= pool_used
  /\ \A t, u \in DOMAIN temps : t # u /\ ~Static(t) /\ ~Static(u) =>
       Disjoint(temps[t][2], temps[t][2] + temp_bytes[t], temps[u][2], temps[u][2] + temp_bytes[u])
Taken(i) == \E t \in DOMAIN temps : i \in Records(t) /\ code[i].size <= temp_bytes[t]
SteadyOK ==
  /\ pool_used <= Base + SumTo([i \in DOMAIN code |-> IF Taken(i) THEN code[i].size ELSE 0], Len(code))
  /\ phase = "run" => \A t \in Temps : \A j \in Asks(t) : j < ip => t \in DOMAIN temps /\ code[j].size <= temp_bytes[t]
ExecInv ==
  /\ run \in 0 .. MaxRuns /\ ip \in 0 .. Len(code) + 1
  /\ phase = "run" => 1 <= ip
  /\ phase \notin {"run", "ran", "error"} => /\ run = 0 /\ ip = 0 /\ temps = <<>> /\ temp_bytes = <<>>
                                             /\ pool_used = 0 /\ mem = <<>>
  /\ AreasOK /\ SteadyOK

\* Where the values are.
Covers(t, n) == t \in DOMAIN temps /\ (~Static(t) => n <= temp_bytes[t])
InTemp(o, t) == Covers(t, size[o]) /\ Holds(o, temps[t])
StillNeeded(o) == o = Out \/ \E j \in OpsOf : ip <= j /\ o \in ins[code[j].op]
HeldOK ==
  \A h \in OpsOf : h < ip /\ StillNeeded(code[h].op) =>
    /\ code[h].op \notin Spills \/ code[h].op = Out => InTemp(code[h].op, code[h].temp)
    /\ code[h].op \in Spills /\ h + 1 < ip => Holds(code[h].op, <<"spill", SpillAt(code[h].op)>>)
JustRun == ip - 1 \in OpsOf => InTemp(code[ip - 1].op, code[ip - 1].temp)
JustFilled ==
  \A i \in DOMAIN code : i < ip /\ OnlyFills(i, ip) =>
    \A q \in Ops : FillOf(i, q) => InTemp(q, code[i].temp)
ValueInv ==
  PlanMeant => /\ \A b \in DOMAIN mem : mem[b] # Garbage
               /\ phase = "run" => HeldOK /\ JustRun /\ JustFilled

-----------------------------------------------------------------------------
\* fresh_temp: a temp that nobody holds.
LEMMA FreshFacts ==
  ASSUME TempsOK
  PROVE  /\ FreshTemp \in Nat /\ TempsLeft \in Seq(Used) /\ Distinct(TempsLeft)
         /\ FreshTemp \notin Range(TempsLeft) /\ Range(TempsLeft) \subseteq Range(free_temps)
         /\ \A s \in DOMAIN op_temp : op_temp[s] # FreshTemp
         /\ free_temps = <<>> => FreshTemp = next_temp
         /\ free_temps # <<>> => FreshTemp \in Used
<1>1. /\ free_temps \in Seq(Used) /\ Distinct(free_temps) /\ next_temp \in Nat
      /\ \A s \in DOMAIN op_temp : op_temp[s] \in Used /\ op_temp[s] \notin Range(free_temps)
  BY OpsFacts DEF TempsOK
<1>2. CASE free_temps = <<>>
  <2>1. FreshTemp = next_temp /\ TempsLeft = <<>> /\ next_temp \notin Used
    BY <1>1, <1>2 DEF FreshTemp, TempsLeft, Used
  <2>2. <<>> \in Seq(Used) /\ DOMAIN <<>> = {}
    OBVIOUS
  <2> QED BY <1>1, <1>2, <2>1, <2>2 DEF Distinct, Range
<1>3. CASE free_temps # <<>>
  <2>1. Len(free_temps) \in Nat \ {0} /\ DOMAIN free_temps = 1 .. Len(free_temps)
    BY <1>1, <1>3
  <2>2. FreshTemp = free_temps[Len(free_temps)] /\ FreshTemp \in Used /\ FreshTemp \in Range(free_temps)
    <3>1. FreshTemp = free_temps[Len(free_temps)] /\ Len(free_temps) \in DOMAIN free_temps
      BY <1>3, <2>1 DEF FreshTemp, Last
    <3> QED BY <1>1, <3>1 DEF Range
  <2>3. /\ TempsLeft \in Seq(Used) /\ DOMAIN TempsLeft = 1 .. Len(free_temps) - 1
        /\ \A i \in DOMAIN TempsLeft : TempsLeft[i] = free_temps[i] /\ i \in DOMAIN free_temps
                                       /\ i # Len(free_temps)
    <3>1. TempsLeft = SubSeq(free_temps, 1, Len(free_temps) - 1)
      BY <1>3 DEF TempsLeft, Front
    <3> QED BY <1>1, <2>1, <3>1
  <2>4. Distinct(TempsLeft) /\ Range(TempsLeft) \subseteq Range(free_temps)
    BY <1>1, <2>3 DEF Distinct, Range
  <2>5. FreshTemp \notin Range(TempsLeft)
    BY <1>1, <2>1, <2>2, <2>3 DEF Distinct, Range
  <2>6. FreshTemp \in Nat
    BY <1>1, <2>2 DEF Used
  <2> QED BY <1>1, <1>3, <2>2, <2>3, <2>4, <2>5, <2>6
<1> QED BY <1>2, <1>3

\* release_at: what is given back is not read at a later position.
LEMMA ReleaseFacts ==
  ASSUME GraphOK, IsPerm(eorder), NEW o \in Ops, pos \in 0 .. NOps - 1
  PROVE  /\ Release(o) \in Seq(ins[o]) /\ Distinct(Release(o)) /\ Range(Release(o)) \subseteq ins[o]
         /\ \A s \in Range(Release(o)) : ~NeededBy(s, pos + 1)
<1> DEFINE R == {s \in ins[o] : LastUse(s) <= pos}
<1>1. R \in SUBSET Ops /\ R \subseteq ins[o] /\ ins[o] \subseteq Ops
  BY DEF GraphOK
<1>2. Release(o) = InOrder(R)
  BY DEF Release
<1>3. ASSUME NEW s \in R PROVE ~NeededBy(s, pos + 1)
  <2>1. s \in Ops /\ LastUse(s) <= pos /\ NOps \in Nat /\ pos \in 0 .. NOps - 1 /\ o \in Consumers(s)
    BY <1>1, OpsFacts DEF Consumers
  <2>2. s # Out
    BY <2>1 DEF LastUse
  <2> DEFINE P == {Pos(eorder, c) : c \in Consumers(s)}
             Good(p) == /\ \E c \in Consumers(s) : p = Pos(eorder, c)
                        /\ \A c \in Consumers(s) : Pos(eorder, c) <= p
  <2>3. \A c \in Consumers(s) : Pos(eorder, c) \in 0 .. NOps - 1
    BY PermFacts DEF Consumers
  <2>4. P \in SUBSET (0 .. NOps) /\ P # {}
    BY <2>1, <2>3
  <2>5. PICK p \in P : \A y \in P : y <= p
    <3> HIDE DEF P
    <3> QED BY <2>1, <2>4, GreatestOf
  <2>6. p \in 0 .. NOps /\ Good(p)
    BY <2>4, <2>5
  <2>7. LastUse(s) = CHOOSE q \in 0 .. NOps : Good(q)
    BY <2>2 DEF LastUse
  <2>8. Good(LastUse(s)) /\ LastUse(s) \in 0 .. NOps
    <3> HIDE DEF Good
    <3> QED BY <2>6, <2>7
  <2>9. \A c \in Consumers(s) : Pos(eorder, c) <= pos
    BY <2>1, <2>3, <2>8
  <2> QED BY <2>1, <2>2, <2>3, <2>9 DEF NeededBy
<1> HIDE DEF R
<1>4. InOrder(R) \in Seq(R) /\ Range(InOrder(R)) = R /\ Distinct(InOrder(R))
  BY <1>1, InOrderFacts DEF Distinct
<1>5. InOrder(R) \in Seq(ins[o])
  <2>1. Seq(R) \subseteq Seq(ins[o])
    BY <1>1
  <2> QED BY <1>4, <2>1
<1> QED BY <1>1, <1>2, <1>3, <1>4, <1>5

\* One position further: what Emit does to the temps.
LEMMA EmitTemps ==
  ASSUME PlanInv, IsPerm(eorder), TempsOK, Emit, NEW o, o = eorder[pos + 1]
  PROVE  /\ TempsOK' /\ o \in Ops /\ pos \in 0 .. NOps - 1 /\ Pos(eorder, o) = pos
         /\ o \notin Emitted /\ Emitted' = Emitted \cup {o} /\ o \notin ins[o]
         /\ FreshTemp \in Used' /\ Used \subseteq Used' /\ op_temp'[o] = FreshTemp /\ o \in DOMAIN op_temp'
         /\ \A s \in DOMAIN op_temp' : s # o => s \in DOMAIN op_temp /\ op_temp'[s] = op_temp[s]
<1>0. /\ pos < NOps /\ pos' = pos + 1 /\ eorder' = eorder /\ ins' = ins /\ plan' = plan
      /\ ins[o] \subseteq DOMAIN op_temp
      /\ tab' = IF Register(o, FreshTemp) THEN Put(tab, FreshTemp, plan[o]) ELSE tab
      /\ next_temp' = IF free_temps = <<>> THEN next_temp + 1 ELSE next_temp
      /\ free_temps' = TempsLeft \o [i \in DOMAIN Release(o) |-> op_temp[Release(o)[i]]]
      /\ op_temp' = [s \in (DOMAIN op_temp \cup {o}) \ Range(Release(o)) |-> Put(op_temp, o, FreshTemp)[s]]
  BY DEF Emit, planVars, graphVars
<1>1. /\ pos \in 0 .. NOps /\ next_temp \in 0 .. pos /\ DOMAIN op_temp \subseteq Emitted
      /\ \A s \in DOMAIN op_temp : op_temp[s] \in Used /\ op_temp[s] \notin Range(free_temps)
      /\ \A r, s \in DOMAIN op_temp : op_temp[r] = op_temp[s] => r = s
      /\ \A x \in Emitted : NeededBy(x, pos) => x \in DOMAIN op_temp
      /\ DOMAIN tab \subseteq Used
      /\ \A t \in DOMAIN tab : tab[t] \in Places /\ tab[t].pool # "spill"
  BY DEF TempsOK
<1>2. NOps \in Nat /\ pos \in Nat /\ next_temp \in Nat /\ pos \in 0 .. NOps - 1 /\ pos + 1 \in Ops
  BY <1>0, <1>1, OpsFacts DEF Ops
<1>3. o \in Ops /\ Pos(eorder, o) = pos
  <2>1. o \in Ops
    BY <1>2 DEF IsPerm
  <2>2. Pos(eorder, eorder[pos + 1]) = (pos + 1) - 1
    BY <1>2, PermFacts
  <2> QED BY <1>2, <2>1, <2>2
<1>4. \A x \in Ops : Pos(eorder, x) \in Nat /\ (Pos(eorder, x) = pos => x = o)
  BY <1>2, <1>3, PermFacts
<1>5. o \notin Emitted /\ Emitted' = Emitted \cup {o} /\ Emitted \subseteq Ops
  <2>1. Emitted' = {x \in Ops : Pos(eorder, x) < pos + 1}
    BY <1>0 DEF Emitted, Pos
  <2>2. \A x \in Ops : Pos(eorder, x) < pos + 1 <=> Pos(eorder, x) < pos \/ x = o
    BY <1>2, <1>3, <1>4
  <2>3. ~(Pos(eorder, o) < pos)
    BY <1>2, <1>3
  <2> QED BY <1>3, <2>1, <2>2, <2>3 DEF Emitted
<1>6. o \notin DOMAIN op_temp /\ o \notin ins[o]
  BY <1>0, <1>1, <1>5
<1> DEFINE t == FreshTemp
           G == Release(o)
           F == [i \in DOMAIN G |-> op_temp[G[i]]]
<1>7. /\ t \in Nat /\ TempsLeft \in Seq(Used) /\ Distinct(TempsLeft)
      /\ t \notin Range(TempsLeft) /\ Range(TempsLeft) \subseteq Range(free_temps)
      /\ \A s \in DOMAIN op_temp : op_temp[s] # t
      /\ free_temps = <<>> => t = next_temp
      /\ free_temps # <<>> => t \in Used
  BY FreshFacts
<1>8. /\ G \in Seq(ins[o]) /\ Distinct(G) /\ Range(G) \subseteq ins[o]
      /\ \A s \in Range(G) : ~NeededBy(s, pos + 1)
  BY <1>2, <1>3, ReleaseFacts DEF PlanInv
<1> HIDE DEF t, G
<1>9. next_temp' \in 0 .. pos' /\ pos' \in 0 .. NOps /\ Used \subseteq Used' /\ t \in Used'
  <2>1. Used' = 0 .. next_temp' - 1
    BY DEF Used
  <2>2. CASE free_temps = <<>>
    BY <1>0, <1>1, <1>2, <1>7, <2>1, <2>2 DEF Used
  <2>3. CASE free_temps # <<>>
    BY <1>0, <1>1, <1>2, <1>7, <2>1, <2>3 DEF Used
  <2> QED BY <2>2, <2>3
\* op_temp
<1>10. /\ DOMAIN op_temp' = (DOMAIN op_temp \cup {o}) \ Range(G)
       /\ op_temp'[o] = t /\ o \in DOMAIN op_temp'
       /\ \A s \in DOMAIN op_temp' : s # o => s \in DOMAIN op_temp /\ op_temp'[s] = op_temp[s]
  <2>1. op_temp' = [s \in (DOMAIN op_temp \cup {o}) \ Range(G) |-> Put(op_temp, o, t)[s]]
    BY <1>0 DEF t, G
  <2>2. \A s \in DOMAIN op_temp \cup {o} : Put(op_temp, o, t)[s] = IF s = o THEN t ELSE op_temp[s]
    BY DEF Put
  <2>3. o \notin Range(G)
    BY <1>6, <1>8
  <2> QED BY <2>1, <2>2, <2>3
<1>11. DOMAIN op_temp' \subseteq Emitted'
  BY <1>1, <1>5, <1>10
<1>12. \A r, s \in DOMAIN op_temp' : op_temp'[r] = op_temp'[s] => r = s
  BY <1>1, <1>7, <1>10
\* free_temps
<1>13. /\ DOMAIN G = 1 .. Len(G) /\ Len(G) \in Nat /\ DOMAIN F = 1 .. Len(G)
       /\ \A i \in DOMAIN G : G[i] \in DOMAIN op_temp /\ G[i] \in Range(G) /\ F[i] = op_temp[G[i]]
  BY <1>0, <1>8 DEF Range
<1>14. F \in Seq(Used) /\ Len(F) = Len(G)
  <2>1. F \in [1 .. Len(G) -> Used]
    BY <1>1, <1>13
  <2> QED BY <1>13, <2>1
<1>15. \A i, j \in DOMAIN F : F[i] = F[j] => i = j
  BY <1>1, <1>8, <1>13 DEF Distinct
<1> HIDE DEF F
<1>16. /\ free_temps' \in Seq(Used) /\ DOMAIN free_temps' = 1 .. Len(TempsLeft) + Len(F)
       /\ \A i \in DOMAIN free_temps' :
            \/ i \in DOMAIN TempsLeft /\ free_temps'[i] = TempsLeft[i]
            \/ i - Len(TempsLeft) \in DOMAIN F /\ free_temps'[i] = F[i - Len(TempsLeft)] /\ i \notin DOMAIN TempsLeft
  <2>1. TempsLeft \in Seq(Used) /\ Len(TempsLeft) \in Nat /\ Len(F) \in Nat /\ DOMAIN TempsLeft = 1 .. Len(TempsLeft)
        /\ DOMAIN F = 1 .. Len(F)
    BY <1>7, <1>14
  <2>2. free_temps' = TempsLeft \o F
    BY <1>0 DEF F, G
  <2>3. free_temps' \in Seq(Used) /\ Len(free_temps') = Len(TempsLeft) + Len(F)
        /\ \A i \in 1 .. Len(TempsLeft) + Len(F) :
             free_temps'[i] = IF i <= Len(TempsLeft) THEN TempsLeft[i] ELSE F[i - Len(TempsLeft)]
    <3>1. PICK U, a : U = Used /\ a = TempsLeft
      OBVIOUS
    <3>2. a \in Seq(U) /\ F \in Seq(U)
      BY <1>14, <2>1, <3>1
    <3>3. /\ a \o F \in Seq(U) /\ Len(a \o F) = Len(a) + Len(F)
          /\ \A i \in 1 .. Len(a) + Len(F) : (a \o F)[i] = IF i <= Len(a) THEN a[i] ELSE F[i - Len(a)]
      BY ONLY <3>2, ConcatProperties
    <3> QED BY <2>2, <3>1, <3>3
  <2>4. DOMAIN free_temps' = 1 .. Len(TempsLeft) + Len(F)
    BY <2>3, LenProperties
  <2> QED BY <2>1, <2>3, <2>4
<1>17. free_temps' \in Seq(Used')
  <2>1. Seq(Used) \subseteq Seq(Used')
    BY <1>9
  <2> QED BY <1>16, <2>1
<1>18. \A i \in DOMAIN TempsLeft : TempsLeft[i] \in Range(free_temps) /\ TempsLeft[i] # t
  BY <1>7 DEF Range
<1>19. \A i \in DOMAIN F : \E s \in Range(G) : s \in DOMAIN op_temp /\ F[i] = op_temp[s]
  BY <1>13, <1>14
<1>20. Distinct(free_temps')
  <2> SUFFICES ASSUME NEW i \in DOMAIN free_temps', NEW j \in DOMAIN free_temps', free_temps'[i] = free_temps'[j]
               PROVE  i = j
    BY DEF Distinct
  <2> DEFINE n == Len(TempsLeft)
  <2>0. n \in Nat /\ i \in Nat /\ j \in Nat
    BY <1>7, <1>16
  <2>1. CASE i \in DOMAIN TempsLeft /\ free_temps'[i] = TempsLeft[i]
    <3>1. CASE j \in DOMAIN TempsLeft /\ free_temps'[j] = TempsLeft[j]
      BY <1>7, <2>1, <3>1 DEF Distinct
    <3>2. CASE j - n \in DOMAIN F /\ free_temps'[j] = F[j - n]
      BY <1>1, <1>18, <1>19, <2>1, <3>2
    <3> QED BY <1>16, <3>1, <3>2
  <2>2. CASE i - n \in DOMAIN F /\ free_temps'[i] = F[i - n]
    <3>1. CASE j \in DOMAIN TempsLeft /\ free_temps'[j] = TempsLeft[j]
      BY <1>1, <1>18, <1>19, <2>2, <3>1
    <3>2. CASE j - n \in DOMAIN F /\ free_temps'[j] = F[j - n]
      <4>1. i - n = j - n
        BY <1>15, <2>2, <3>2
      <4> QED BY <2>0, <4>1
    <3> QED BY <1>16, <3>1, <3>2
  <2> QED BY <1>16, <2>1, <2>2
<1>21. \A s \in DOMAIN op_temp' : op_temp'[s] \in Used' /\ op_temp'[s] \notin Range(free_temps')
  <2> SUFFICES ASSUME NEW s \in DOMAIN op_temp', NEW i \in DOMAIN free_temps'
               PROVE  op_temp'[s] \in Used' /\ op_temp'[s] # free_temps'[i]
    <3>1. \A s \in DOMAIN op_temp' : op_temp'[s] \in Used'
      BY <1>1, <1>9, <1>10
    <3> QED BY <3>1 DEF Range
  <2>1. op_temp'[s] \in Used'
    BY <1>1, <1>9, <1>10
  <2>2. CASE s = o
    <3>1. free_temps'[i] # t
      BY <1>7, <1>16, <1>18, <1>19
    <3> QED BY <1>10, <2>1, <2>2, <3>1
  <2>3. CASE s # o
    <3>1. s \in DOMAIN op_temp /\ op_temp'[s] = op_temp[s] /\ s \notin Range(G)
      BY <1>10, <2>3
    <3>2. CASE i \in DOMAIN TempsLeft /\ free_temps'[i] = TempsLeft[i]
      BY <1>1, <1>18, <2>1, <3>1, <3>2
    <3>3. CASE i - Len(TempsLeft) \in DOMAIN F /\ free_temps'[i] = F[i - Len(TempsLeft)]
      BY <1>1, <1>19, <2>1, <3>1, <3>3
    <3> QED BY <1>16, <3>2, <3>3
  <2> QED BY <2>2, <2>3
\* What is needed has a temp.
<1>23. \A x \in Emitted' : NeededBy(x, pos + 1) => x \in DOMAIN op_temp'
  <2> SUFFICES ASSUME NEW x \in Emitted', NeededBy(x, pos + 1), x # o PROVE x \in DOMAIN op_temp'
    BY <1>10
  <2>1. x \in Emitted /\ x \in Ops
    BY <1>5
  <2>2. NeededBy(x, pos)
    <3>1. \A c \in Consumers(x) : Pos(eorder, c) \in Nat
      BY <1>4 DEF Consumers
    <3> QED BY <1>2, <3>1 DEF NeededBy
  <2>3. x \in DOMAIN op_temp /\ x \notin Range(G)
    BY <1>1, <1>8, <2>1, <2>2
  <2> QED BY <1>10, <2>3
<1>24. \A x \in Emitted' : NeededBy(x, pos)' => x \in DOMAIN op_temp'
  BY <1>0, <1>23 DEF NeededBy, Consumers, Pos
\* The table.
<1>25. /\ DOMAIN tab' \subseteq Used'
       /\ \A u \in DOMAIN tab' : tab'[u] \in Places /\ tab'[u].pool # "spill"
  <2>1. CASE Register(o, t)
    <3>1. tab' = Put(tab, t, plan[o])
      BY <1>0, <2>1 DEF t
    <3>2. DOMAIN tab' = DOMAIN tab \cup {t} /\ \A u \in DOMAIN tab' : tab'[u] = IF u = t THEN plan[o] ELSE tab[u]
      BY <3>1 DEF Put
    <3>3. plan[o] \in Places /\ plan[o].pool # "spill"
      BY <2>1 DEF Register, HasPlace, Spills, PlanInv
    <3> QED BY <1>1, <1>9, <3>2, <3>3
  <2>2. CASE ~Register(o, t)
    <3>1. tab' = tab
      BY <1>0, <2>2 DEF t
    <3> QED BY <1>1, <1>9, <3>1
  <2> QED BY <2>1, <2>2
<1>26. TempsOK'
  BY <1>9, <1>11, <1>12, <1>17, <1>20, <1>21, <1>24, <1>25 DEF TempsOK, Distinct
<1>27. FreshTemp \in Used' /\ op_temp'[o] = FreshTemp
  BY <1>9, <1>10 DEF t
<1> QED BY <1>2, <1>3, <1>5, <1>6, <1>9, <1>10, <1>26, <1>27

\* The block of instructions that Emit appends.
Joins(r, a, b, x, c) ==
  /\ Len(r) = Len(a) + Len(b) + 1 + Len(c)
  /\ \A i \in 1 .. Len(a) : r[i] = a[i]
  /\ \A i \in 1 .. Len(b) : r[Len(a) + i] = b[i]
  /\ r[Len(a) + Len(b) + 1] = x
  /\ \A i \in 1 .. Len(c) : r[Len(a) + Len(b) + 1 + i] = c[i]
LEMMA BlockFacts ==
  ASSUME NEW S, NEW a \in Seq(S), NEW b \in Seq(S), NEW x \in S, NEW c \in Seq(S),
         NEW r, r = ((a \o b) \o <<x>>) \o c
  PROVE  r \in Seq(S) /\ Joins(r, a, b, x, c)
<1>0. Len(a) \in Nat /\ Len(b) \in Nat /\ Len(c) \in Nat
  OBVIOUS
<1>1. PICK p : p = a \o b
  OBVIOUS
<1>2. /\ p \in Seq(S) /\ Len(p) = Len(a) + Len(b)
      /\ \A i \in 1 .. Len(a) + Len(b) : p[i] = IF i <= Len(a) THEN a[i] ELSE b[i - Len(a)]
  BY <1>1, ConcatProperties
<1>3. PICK q : q = p \o <<x>>
  OBVIOUS
<1>4. /\ q \in Seq(S) /\ Len(q) = Len(p) + 1
      /\ \A i \in 1 .. Len(p) : q[i] = p[i]
      /\ q[Len(p) + 1] = x
  <2>1. q = Append(p, x)
    BY <1>2, <1>3
  <2> QED BY <1>2, <2>1, AppendProperties
<1>5. /\ r \in Seq(S) /\ Len(r) = Len(q) + Len(c)
      /\ \A i \in 1 .. Len(q) + Len(c) : r[i] = IF i <= Len(q) THEN q[i] ELSE c[i - Len(q)]
  BY <1>1, <1>3, <1>4, ConcatProperties
<1>6. Len(r) = Len(a) + Len(b) + 1 + Len(c) /\ Len(q) = Len(a) + Len(b) + 1
  BY <1>0, <1>2, <1>4, <1>5
<1>7. ASSUME NEW i \in 1 .. Len(a) PROVE r[i] = a[i]
  <2>1. i <= Len(q) /\ i <= Len(p) /\ i \in 1 .. Len(q) + Len(c) /\ i \in 1 .. Len(p) /\ i \in 1 .. Len(a) + Len(b) /\ i <= Len(a)
    BY <1>0, <1>2, <1>6
  <2> QED BY <1>2, <1>4, <1>5, <2>1
<1>8. ASSUME NEW i \in 1 .. Len(b) PROVE r[Len(a) + i] = b[i]
  <2> DEFINE k == Len(a) + i
  <2>1. k <= Len(q) /\ k \in 1 .. Len(q) + Len(c) /\ k \in 1 .. Len(p) /\ k \in 1 .. Len(a) + Len(b) /\ ~(k <= Len(a)) /\ k - Len(a) = i
    BY <1>0, <1>2, <1>6
  <2> QED BY <1>2, <1>4, <1>5, <2>1
<1>9. r[Len(a) + Len(b) + 1] = x
  <2> DEFINE k == Len(a) + Len(b) + 1
  <2>1. k <= Len(q) /\ k \in 1 .. Len(q) + Len(c) /\ k = Len(p) + 1
    BY <1>0, <1>2, <1>6
  <2> QED BY <1>4, <1>5, <2>1
<1>10. ASSUME NEW i \in 1 .. Len(c) PROVE r[Len(a) + Len(b) + 1 + i] = c[i]
  <2> DEFINE k == Len(a) + Len(b) + 1 + i
  <2>1. ~(k <= Len(q)) /\ k \in 1 .. Len(q) + Len(c) /\ k - Len(q) = i
    BY <1>0, <1>6
  <2> QED BY <1>5, <2>1
<1> QED BY <1>5, <1>6, <1>7, <1>8, <1>9, <1>10 DEF Joins

\* What follows the old op list: the fills of the spilled inputs, the operation,
\* and its spill if it has one.
EmitBlock(o, sp, k) ==
  /\ k \in Nat /\ Len(code) < k /\ k \in DOMAIN code'
  /\ DOMAIN code' = 1 .. (IF o \in Spills THEN k + 1 ELSE k)
  /\ \A i \in DOMAIN code : code'[i] = code[i]
  /\ \A i \in Len(code) + 1 .. k - 1 : \E q \in Range(sp) : code'[i] = Moves("fill", q, op_temp[q])
  /\ \A q \in Range(sp) : \E i \in Len(code) + 1 .. k - 1 : code'[i] = Moves("fill", q, op_temp[q])
  /\ code'[k] = [kind |-> "op", op |-> o, temp |-> FreshTemp, size |-> size[o],
                 from |-> [s \in ins[o] |-> op_temp[s]]]
  /\ o \in Spills => code'[k + 1] = Moves("spill", o, FreshTemp)

LEMMA SpillAtType ==
  ASSUME PlanInv, NEW q \in Spills
  PROVE  SpillAt(q) \in Nat /\ q \in Ops
<1>1. q \in DOMAIN plan /\ q \in Ops /\ plan[q] \in Places
  BY DEF Spills, PlanInv
<1>2. plan[q].off \in Nat
  BY <1>1 DEF Places
<1> QED BY <1>1, <1>2 DEF SpillAt

LEMMA EmitShape ==
  ASSUME PlanInv, TempsOK, code \in Seq(Instrs), Emit, NEW o \in Ops, o = eorder[pos + 1]
  PROVE  code' \in Seq(Instrs) /\ \E k : EmitBlock(o, InOrder(ins[o] \cap Spills), k)
<1>0. /\ ins[o] \subseteq DOMAIN op_temp
      /\ code' = ((code \o Fills(o))
                 \o <<[kind |-> "op", op |-> o, temp |-> FreshTemp, size |-> size[o],
                       from |-> [s \in ins[o] |-> op_temp[s]]]>>)
                 \o SpillOf(o, FreshTemp)
  BY DEF Emit
<1>1. /\ \A s \in DOMAIN op_temp : op_temp[s] \in Nat
      /\ FreshTemp \in Nat /\ ins[o] \subseteq Ops /\ ins \in [Ops -> SUBSET Ops]
      /\ size \in [Ops -> Nat \ {0}]
  <2>1. next_temp \in Nat /\ \A s \in DOMAIN op_temp : op_temp[s] \in Used
    BY OpsFacts DEF TempsOK
  <2> QED BY <2>1, FreshFacts DEF Used, PlanInv, GraphOK
<1> DEFINE sp == InOrder(ins[o] \cap Spills)
           rec == [kind |-> "op", op |-> o, temp |-> FreshTemp, size |-> size[o],
                   from |-> [s \in ins[o] |-> op_temp[s]]]
<1>2. sp \in Seq(ins[o] \cap Spills) /\ Range(sp) = ins[o] \cap Spills
  BY <1>1, InOrderFacts
<1>3. \A q \in Ops : \A t \in Nat : \A kd \in {"fill", "spill"} : q \in Spills => Moves(kd, q, t) \in Instrs
  BY <1>1, SpillAtType DEF Moves, Instrs
<1>4. rec \in Instrs
  <2>1. [s \in ins[o] |-> op_temp[s]] \in [ins[o] -> Nat]
    BY <1>0, <1>1
  <2>2. [s \in ins[o] |-> op_temp[s]] \in UNION {[S -> Nat] : S \in SUBSET Ops}
    BY <1>1, <2>1
  <2>3. size[o] \in Nat
    BY <1>1
  <2> QED BY <1>1, <2>2, <2>3 DEF Instrs
<1>5. /\ Fills(o) \in Seq(Instrs) /\ Len(Fills(o)) = Len(sp)
      /\ \A i \in 1 .. Len(sp) : Fills(o)[i] = Moves("fill", sp[i], op_temp[sp[i]]) /\ sp[i] \in Range(sp)
  <2>1. DOMAIN sp = 1 .. Len(sp) /\ Len(sp) \in Nat
    BY <1>2
  <2>2. Fills(o) = [i \in DOMAIN sp |-> Moves("fill", sp[i], op_temp[sp[i]])]
    BY DEF Fills, Moves
  <2>3. \A i \in DOMAIN sp : sp[i] \in Range(sp) /\ sp[i] \in Spills /\ sp[i] \in Ops /\ op_temp[sp[i]] \in Nat
    BY <1>0, <1>1, <1>2 DEF Range
  <2> HIDE DEF sp
  <2>4. Fills(o) \in [1 .. Len(sp) -> Instrs]
    BY <1>3, <2>1, <2>2, <2>3
  <2> QED BY <2>1, <2>2, <2>3, <2>4
<1>6. /\ SpillOf(o, FreshTemp) \in Seq(Instrs)
      /\ o \in Spills => Len(SpillOf(o, FreshTemp)) = 1 /\ SpillOf(o, FreshTemp)[1] = Moves("spill", o, FreshTemp)
      /\ o \notin Spills => Len(SpillOf(o, FreshTemp)) = 0
  <2>1. CASE o \in Spills
    <3>1. SpillOf(o, FreshTemp) = <<Moves("spill", o, FreshTemp)>> /\ Moves("spill", o, FreshTemp) \in Instrs
      BY <1>1, <1>3, <2>1 DEF SpillOf, Moves
    <3> HIDE DEF sp
    <3> QED BY <2>1, <3>1
  <2>2. CASE o \notin Spills
    BY <2>2 DEF SpillOf
  <2> QED BY <2>1, <2>2
<1> DEFINE n == Len(code)
           k == n + Len(sp) + 1
<1> HIDE DEF rec, sp
<1>7. /\ code' \in Seq(Instrs) /\ Len(code') = n + Len(sp) + 1 + Len(SpillOf(o, FreshTemp))
      /\ \A i \in 1 .. n : code'[i] = code[i]
      /\ \A i \in 1 .. Len(sp) : code'[n + i] = Fills(o)[i]
      /\ code'[n + Len(sp) + 1] = rec
      /\ \A i \in 1 .. Len(SpillOf(o, FreshTemp)) : code'[n + Len(sp) + 1 + i] = SpillOf(o, FreshTemp)[i]
  <2>1. code' = ((code \o Fills(o)) \o <<rec>>) \o SpillOf(o, FreshTemp)
    BY <1>0 DEF rec
  <2>2. PICK S, c0, f, x, c, r : /\ S = Instrs /\ c0 = code /\ f = Fills(o) /\ x = rec
                                /\ c = SpillOf(o, FreshTemp) /\ r = code'
    OBVIOUS
  <2>3. r = ((c0 \o f) \o <<x>>) \o c
    BY <2>1, <2>2
  <2>4. c0 \in Seq(S) /\ f \in Seq(S) /\ x \in S /\ c \in Seq(S) /\ Len(f) = Len(sp)
    BY <1>4, <1>5, <1>6, <2>2
  <2>5. r \in Seq(S) /\ Joins(r, c0, f, x, c)
    BY ONLY <2>3, <2>4, BlockFacts
  <2> QED BY <2>2, <2>4, <2>5 DEF Joins
<1>8. n \in Nat /\ Len(sp) \in Nat /\ DOMAIN code = 1 .. n /\ DOMAIN sp = 1 .. Len(sp) /\ DOMAIN code' = 1 .. Len(code')
      /\ k \in Nat /\ n < k
  BY <1>2, <1>7
<1>9. DOMAIN code' = 1 .. (IF o \in Spills THEN k + 1 ELSE k) /\ k \in DOMAIN code'
  <2>1. Len(code') = k + Len(SpillOf(o, FreshTemp))
    BY <1>7
  <2>2. Len(code') = IF o \in Spills THEN k + 1 ELSE k
    <3> HIDE DEF k
    <3>1. CASE o \in Spills
      BY <1>6, <2>1, <3>1
    <3>2. CASE o \notin Spills
      BY <1>6, <1>8, <2>1, <3>2
    <3> QED BY <3>1, <3>2
  <2> HIDE DEF k
  <2> QED BY <1>8, <2>2
<1>10. o \in Spills => code'[k + 1] = Moves("spill", o, FreshTemp)
  BY <1>6, <1>7
<1>11. ASSUME NEW i \in n + 1 .. k - 1 PROVE \E q \in Range(sp) : code'[i] = Moves("fill", q, op_temp[q])
  <2>1. i - n \in 1 .. Len(sp) /\ n + (i - n) = i
    BY <1>8
  <2> QED BY <1>5, <1>7, <2>1
<1>12. ASSUME NEW q \in Range(sp) PROVE \E i \in n + 1 .. k - 1 : code'[i] = Moves("fill", q, op_temp[q])
  <2>1. PICK l \in 1 .. Len(sp) : sp[l] = q
    BY <1>8 DEF Range
  <2>2. n + l \in n + 1 .. k - 1
    BY <1>8
  <2> QED BY <1>5, <1>7, <2>1, <2>2
<1>13. EmitBlock(o, sp, k)
  <2>1. code'[k] = rec
    BY <1>7
  <2> HIDE DEF k
  <2> QED BY <1>7, <1>8, <1>9, <1>10, <1>11, <1>12, <2>1 DEF EmitBlock, rec
<1> QED BY <1>7, <1>13 DEF sp

\* One position further: what Emit does to the op list.
LEMMA EmitCode ==
  ASSUME PlanInv, IsPerm(eorder), TempsOK, CodeOK, Emit
  PROVE  CodeOK'
<1>1. PICK o : o = eorder[pos + 1]
  OBVIOUS
<1>2. /\ o \in Ops /\ pos \in 0 .. NOps - 1 /\ Pos(eorder, o) = pos
      /\ o \notin Emitted /\ Emitted' = Emitted \cup {o} /\ o \notin ins[o]
      /\ FreshTemp \in Used' /\ Used \subseteq Used' /\ op_temp'[o] = FreshTemp /\ o \in DOMAIN op_temp'
      /\ \A s \in DOMAIN op_temp' : s # o => s \in DOMAIN op_temp /\ op_temp'[s] = op_temp[s]
  BY <1>1, EmitTemps
<1>3. /\ code \in Seq(Instrs) /\ \A i \in DOMAIN code : code[i].temp \in Used /\ code[i].size \in Nat \ {0}
      /\ OpsInOrder /\ SourcesOK /\ SpillsOK /\ FillsOK /\ Reuse
  BY DEF CodeOK
<1>4. PICK sp : sp = InOrder(ins[o] \cap Spills)
  OBVIOUS
<1>5. code' \in Seq(Instrs) /\ \E k : EmitBlock(o, sp, k)
  BY <1>1, <1>2, <1>3, <1>4, EmitShape
<1>6. PICK k : EmitBlock(o, sp, k)
  BY <1>5
<1>7. PICK t \in Nat : t = FreshTemp
  BY FreshFacts
<1>8. PICK n \in Nat : n = Len(code)
  BY <1>3
<1>9. /\ eorder' = eorder /\ ins' = ins /\ size' = size /\ plan' = plan /\ dma_runlist' = dma_runlist
      /\ ins[o] \subseteq DOMAIN op_temp
  BY <1>1 DEF Emit, planVars, graphVars
<1>10. Range(sp) = ins[o] \cap Spills
  BY <1>4, <1>9, InOrderFacts, <1>2 DEF PlanInv, GraphOK
<1>11. Spills' = Spills /\ \A q, kd, u : Moves(kd, q, u)' = Moves(kd, q, u)
  BY <1>9 DEF Spills, Moves, SpillAt
<1>11a. \A q, kd, u : Moves(kd, q, u).kind = kd
  BY DEF Moves
<1>11b. ASSUME NEW i, NEW q, q \in Spills, code'[i] = Moves("fill", q, code'[i].temp),
               NEW h \in DOMAIN code', h + 1 < i, IsOp(h, q)', code'[h].temp = code'[i].temp,
               NEW j \in OpsOf', i < j, q \in ins'[code'[j].op], OnlyFills(i, j)'
        PROVE  FillOf(i, q)'
  <2>1. Moves("fill", q, code[i].temp)' = Moves("fill", q, code'[i].temp)
    BY <1>9 DEF Moves, SpillAt
  <2> QED BY <1>11, <1>11b, <2>1 DEF FillOf
<1>12. /\ k \in Nat /\ n < k /\ k \in DOMAIN code' /\ DOMAIN code = 1 .. n
       /\ DOMAIN code' = 1 .. (IF o \in Spills THEN k + 1 ELSE k)
       /\ \A i \in DOMAIN code : code'[i] = code[i]
       /\ \A i \in n + 1 .. k - 1 : \E q \in Range(sp) : code'[i] = Moves("fill", q, op_temp[q])
       /\ \A q \in Range(sp) : \E i \in n + 1 .. k - 1 : code'[i] = Moves("fill", q, op_temp[q])
       /\ code'[k] = [kind |-> "op", op |-> o, temp |-> t, size |-> size[o],
                      from |-> [s \in ins[o] |-> op_temp[s]]]
       /\ o \in Spills => code'[k + 1] = Moves("spill", o, t)
  BY <1>3, <1>6, <1>7, <1>8 DEF EmitBlock
<1>13. /\ code'[k].kind = "op" /\ code'[k].op = o /\ code'[k].temp = t /\ code'[k].size = size[o]
       /\ code'[k].from = [s \in ins[o] |-> op_temp[s]]
  BY <1>12
\* Where an index lies.
<1>14. ASSUME NEW i \in DOMAIN code'
       PROVE  \/ i \in DOMAIN code /\ code'[i] = code[i]
              \/ i \in n + 1 .. k - 1 /\ i \notin DOMAIN code /\ code'[i].kind = "fill"
              \/ i = k /\ i \notin DOMAIN code
              \/ i = k + 1 /\ o \in Spills /\ code'[i] = Moves("spill", o, t) /\ code'[i].kind = "spill" /\ i \notin DOMAIN code
  <2>1. i \in Nat /\ (i \in 1 .. n \/ i \in n + 1 .. k - 1 \/ i = k \/ (o \in Spills /\ i = k + 1))
    BY <1>8, <1>12
  <2>2. i \in n + 1 .. k - 1 => code'[i].kind = "fill"
    BY <1>12, <1>11a
  <2>3. Moves("spill", o, t).kind = "spill"
    BY DEF Moves
  <2> QED BY <1>8, <1>12, <2>1, <2>2, <2>3
<1>15. /\ DOMAIN code \subseteq DOMAIN code' /\ OpsOf' = OpsOf \cup {k} /\ k \notin DOMAIN code
       /\ OpsOf \subseteq DOMAIN code /\ \A i \in DOMAIN code : i \in Nat /\ i < k /\ i <= n
       /\ \A i \in OpsOf : code'[i] = code[i]
  <2>1. DOMAIN code \subseteq DOMAIN code' /\ k \notin DOMAIN code /\ \A i \in DOMAIN code : i \in Nat /\ i < k /\ i <= n
    BY <1>8, <1>12
  <2>2. OpsOf' = {i \in DOMAIN code' : code'[i].kind = "op"}
    BY DEF OpsOf
  <2>3. \A i \in DOMAIN code' : code'[i].kind = "op" <=> (i \in DOMAIN code /\ code[i].kind = "op") \/ i = k
    BY <1>12, <1>13, <1>14, <2>1
  <2> QED BY <1>12, <2>1, <2>2, <2>3 DEF OpsOf
<1>16. size[o] \in Nat \ {0}
  BY <1>2 DEF PlanInv, GraphOK
<1>17. \A s \in DOMAIN op_temp : op_temp[s] \in Used /\ s \in Emitted /\ op_temp[s] # t
  BY <1>7, FreshFacts DEF TempsOK
\* Types.
<1>18. \A i \in DOMAIN code' : code'[i].temp \in Used' /\ code'[i].size \in Nat \ {0}
  <2> SUFFICES ASSUME NEW i \in DOMAIN code' PROVE code'[i].temp \in Used' /\ code'[i].size \in Nat \ {0}
    OBVIOUS
  <2>1. CASE i \in DOMAIN code
    BY <1>2, <1>3, <1>12, <2>1
  <2>2. CASE i = k
    BY <1>2, <1>7, <1>13, <1>16, <2>2
  <2>3. CASE i \in n + 1 .. k - 1
    <3>1. PICK q \in Range(sp) : code'[i] = Moves("fill", q, op_temp[q])
      BY <1>12, <2>3
    <3>2. code'[i].temp = op_temp[q] /\ code'[i].size = size[q]
      BY <3>1 DEF Moves
    <3>3. q \in DOMAIN op_temp /\ size[q] \in Nat \ {0}
      BY <1>2, <1>9, <1>10 DEF PlanInv, GraphOK
    <3> QED BY <1>2, <1>17, <3>2, <3>3
  <2>4. CASE i = k + 1 /\ code'[i] = Moves("spill", o, t)
    BY <1>2, <1>7, <1>16, <2>4 DEF Moves
  <2> QED BY <1>14, <2>1, <2>2, <2>3, <2>4
\* The operations.
<1>19. \A x, y : Pos(x, y)' = Pos(x, y)
  BY DEF Pos
<1>20. OpsInOrder'
  <2>1. \A x \in Emitted' : \E i \in DOMAIN code' : i \in DOMAIN code' /\ code'[i].kind = "op" /\ code'[i].op = x
    <3>1. \A x \in Emitted : \E i \in DOMAIN code : code[i].kind = "op" /\ code[i].op = x
      BY <1>3 DEF OpsInOrder, IsOp
    <3> QED BY <1>2, <1>12, <1>13, <1>15, <3>1
  <2>2. \A i \in OpsOf' : code'[i].op \in Emitted' /\ code'[i].size = size[code'[i].op]
    <3>1. \A i \in OpsOf : code[i].op \in Emitted /\ code[i].size = size[code[i].op]
      BY <1>3 DEF OpsInOrder
    <3> QED BY <1>2, <1>13, <1>15, <3>1
  <2>3. ASSUME NEW i \in OpsOf', NEW j \in OpsOf', i < j
        PROVE  Pos(eorder, code'[i].op) < Pos(eorder, code'[j].op)
    <3>1. i # k
      BY <1>12, <1>15, <2>3
    <3>2. i \in OpsOf /\ code'[i] = code[i] /\ code[i].op \in Emitted
      BY <1>3, <1>15, <2>3, <3>1 DEF OpsInOrder
    <3>3. CASE j \in OpsOf
      BY <1>3, <1>15, <2>3, <3>2, <3>3 DEF OpsInOrder
    <3>4. CASE j = k
      BY <1>2, <1>13, <3>2, <3>4 DEF Emitted
    <3> QED BY <1>15, <2>3, <3>3, <3>4
  <2>4. ASSUME NEW i \in OpsOf', code'[i].op \in DOMAIN op_temp' PROVE op_temp'[code'[i].op] = code'[i].temp
    <3>1. CASE i = k
      BY <1>2, <1>7, <1>13, <3>1
    <3>2. CASE i \in OpsOf
      <4>1. code'[i] = code[i] /\ code[i].op \in Emitted /\ code[i].op # o
        BY <1>2, <1>3, <1>15, <3>2 DEF OpsInOrder
      <4> QED BY <1>2, <1>3, <2>4, <3>2, <4>1 DEF OpsInOrder
    <3> QED BY <1>15, <2>4, <3>1, <3>2
  <2> QED BY <1>9, <2>1, <2>2, <2>3, <2>4 DEF OpsInOrder, IsOp, Pos
<1>21. \A s \in DOMAIN op_temp : \E h \in OpsOf : code[h].op = s /\ code[h].temp = op_temp[s]
  <2> SUFFICES ASSUME NEW s \in DOMAIN op_temp PROVE \E h \in OpsOf : code[h].op = s /\ code[h].temp = op_temp[s]
    OBVIOUS
  <2>1. PICK h \in DOMAIN code : IsOp(h, s)
    BY <1>3, <1>17 DEF OpsInOrder
  <2>2. h \in OpsOf /\ code[h].op = s
    BY <2>1 DEF IsOp, OpsOf
  <2> QED BY <1>3, <2>2 DEF OpsInOrder
<1>22. SourcesOK'
  <2> SUFFICES ASSUME NEW i \in OpsOf'
               PROVE  /\ DOMAIN code'[i].from = ins[code'[i].op]
                      /\ \A s \in ins[code'[i].op] : \E h \in OpsOf' :
                           h < i /\ code'[h].op = s /\ code'[h].temp = code'[i].from[s]
    BY <1>9 DEF SourcesOK, IsOp, OpsOf
  <2>1. CASE i = k
    <3>1. DOMAIN code'[i].from = ins[o] /\ \A s \in ins[o] : code'[i].from[s] = op_temp[s]
      BY <1>13, <2>1
    <3>2. \A s \in ins[o] : \E h \in OpsOf : code[h].op = s /\ code[h].temp = op_temp[s]
      BY <1>9, <1>21
    <3> QED BY <1>13, <1>15, <2>1, <3>1, <3>2
  <2>2. CASE i \in OpsOf
    <3>1. /\ DOMAIN code[i].from = ins[code[i].op]
          /\ \A s \in ins[code[i].op] : \E h \in OpsOf :
                           h < i /\ code[h].op = s /\ code[h].temp = code[i].from[s]
      BY <1>3, <2>2 DEF SourcesOK, IsOp, OpsOf
    <3> QED BY <1>15, <2>2, <3>1
  <2> QED BY <1>15, <2>1, <2>2
\* Spills.
<1>23. SpillsOK'
  <2>1. ASSUME NEW i \in OpsOf', code'[i].op \in Spills
        PROVE  i + 1 \in DOMAIN code' /\ code'[i + 1] = Moves("spill", code'[i].op, code'[i].temp)
    <3>1. CASE i = k
      <4>1. o \in Spills
        BY <1>13, <2>1, <3>1
      <4>2. k + 1 \in DOMAIN code'
        BY <1>12, <4>1
      <4> QED BY <1>12, <1>13, <3>1, <4>1, <4>2
    <3>2. CASE i \in OpsOf
      BY <1>3, <1>12, <1>15, <2>1, <3>2 DEF SpillsOK
    <3> QED BY <1>15, <2>1, <3>1, <3>2
  <2>2. ASSUME NEW i \in DOMAIN code', code'[i].kind = "spill"
        PROVE  i - 1 \in OpsOf' /\ code'[i - 1].op \in Spills /\ code'[i] = Moves("spill", code'[i - 1].op, code'[i - 1].temp)
    <3>1. CASE i \in DOMAIN code
      BY <1>3, <1>12, <1>15, <2>2, <3>1 DEF SpillsOK
    <3>2. CASE i = k + 1 /\ o \in Spills /\ code'[i] = Moves("spill", o, t)
      <4>1. i - 1 = k
        BY <1>12, <3>2
      <4> QED BY <1>13, <1>15, <3>2, <4>1
    <3>3. i # k /\ code'[i].kind # "fill"
      BY <1>13, <2>2
    <3> QED BY <1>14, <2>2, <3>1, <3>2, <3>3
  <2> QED BY <1>11, <2>1, <2>2 DEF SpillsOK
\* Fills.
<1>24. ASSUME NEW i \in Nat, NEW j \in DOMAIN code, i \in DOMAIN code PROVE OnlyFills(i, j)' = OnlyFills(i, j)
  <2>1. \A l \in i .. j - 1 : l \in DOMAIN code
    BY <1>8, <1>12, <1>24
  <2> QED BY <1>12, <2>1 DEF OnlyFills
<1>25. ASSUME NEW i \in n + 1 .. k - 1 PROVE OnlyFills(i, k)'
  <2>1. \A l \in i .. k - 1 : l \in n + 1 .. k - 1
    BY <1>8, <1>12
  <2>2. \A l \in i .. k - 1 : code'[l].kind = "fill"
    BY <1>12, <1>11a, <2>1
  <2> QED BY <2>2 DEF OnlyFills
<1>26. ASSUME NEW i \in DOMAIN code', code'[i].kind = "fill"
       PROVE  \E q \in Ops : FillOf(i, q)'
  <2>1. CASE i \in DOMAIN code
    <3>1. code'[i] = code[i]
      BY <1>12, <2>1
    <3>2. PICK q \in Ops : FillOf(i, q)
      BY <1>3, <1>26, <2>1, <3>1 DEF FillsOK
    <3>3. PICK h \in DOMAIN code : h + 1 < i /\ IsOp(h, q) /\ code[h].temp = code[i].temp
      BY <3>2 DEF FillOf
    <3>4. PICK j \in OpsOf : i < j /\ q \in ins[code[j].op] /\ OnlyFills(i, j)
      BY <3>2 DEF FillOf
    <3>5. q \in Spills /\ code[i] = Moves("fill", q, code[i].temp)
      BY <3>2 DEF FillOf
    <3>6. h \in DOMAIN code' /\ h + 1 < i /\ IsOp(h, q)' /\ code'[h].temp = code'[i].temp
      BY <1>12, <1>15, <3>1, <3>3 DEF IsOp
    <3>7. j \in OpsOf' /\ i < j /\ q \in ins'[code'[j].op] /\ OnlyFills(i, j)'
      BY <1>9, <1>15, <1>24, <2>1, <3>4
    <3>8. q \in Spills /\ code'[i] = Moves("fill", q, code'[i].temp)
      BY <3>1, <3>5
    <3> QED BY <1>11b, <3>6, <3>7, <3>8
  <2>2. CASE i \in n + 1 .. k - 1
    <3>1. PICK q \in Range(sp) : code'[i] = Moves("fill", q, op_temp[q])
      BY <1>12, <2>2
    <3>2. q \in ins[o] /\ q \in Spills /\ q \in DOMAIN op_temp /\ q \in Ops /\ code'[i].temp = op_temp[q]
      BY <1>2, <1>9, <1>10, <3>1 DEF Moves, PlanInv, GraphOK
    <3>3. PICK h \in OpsOf : code[h].op = q /\ code[h].temp = op_temp[q]
      BY <1>21, <3>2
    <3>4. h + 1 \in DOMAIN code /\ h \in DOMAIN code
      BY <1>3, <3>2, <3>3, <1>15 DEF SpillsOK
    <3>5. h + 1 < i /\ i < k /\ i \in Nat
      <4>1. h \in Nat /\ h + 1 <= n /\ n \in Nat /\ k \in Nat
        BY <1>8, <1>12, <1>15, <3>4
      <4> QED BY <2>2, <4>1
    <3>6. h \in DOMAIN code' /\ IsOp(h, q)' /\ code'[h].temp = code'[i].temp
      BY <1>12, <1>15, <3>2, <3>3, <3>4 DEF IsOp, OpsOf
    <3>7. k \in OpsOf' /\ q \in ins'[code'[k].op] /\ OnlyFills(i, k)'
      BY <1>9, <1>13, <1>15, <1>25, <2>2, <3>2
    <3>8. q \in Spills /\ code'[i] = Moves("fill", q, code'[i].temp)
      BY <3>1, <3>2
    <3> QED BY <1>11b, <3>2, <3>5, <3>6, <3>7, <3>8
  <2>3. i # k /\ code'[i].kind # "spill"
    BY <1>13, <1>26
  <2> QED BY <1>14, <2>1, <2>2, <2>3
<1>27. ASSUME NEW j \in OpsOf', NEW q \in ins[code'[j].op] \cap Spills
       PROVE  \E i \in DOMAIN code' : i < j /\ code'[i] = Moves("fill", q, code'[j].from[q]) /\ OnlyFills(i, j)'
  <2>1. CASE j = k
    <3>1. q \in Range(sp) /\ code'[j].from[q] = op_temp[q]
      BY <1>10, <1>13, <1>27, <2>1
    <3>2. PICK i \in n + 1 .. k - 1 : code'[i] = Moves("fill", q, op_temp[q])
      BY <1>12, <3>1
    <3>3. i \in DOMAIN code' /\ i < k
      BY <1>8, <1>12
    <3> QED BY <1>25, <2>1, <3>1, <3>2, <3>3
  <2>2. CASE j \in OpsOf
    <3>1. code'[j] = code[j] /\ q \in ins[code[j].op] \cap Spills
      BY <1>15, <1>27, <2>2
    <3>2. PICK i \in DOMAIN code : i < j /\ code[i] = Moves("fill", q, code[j].from[q]) /\ OnlyFills(i, j)
      BY <1>3, <2>2, <3>1 DEF FillsOK
    <3>3. OnlyFills(i, j)'
      BY <1>15, <1>24, <2>2, <3>2
    <3> QED BY <1>12, <1>15, <3>1, <3>2, <3>3
  <2> QED BY <1>15, <1>27, <2>1, <2>2
<1>28. FillsOK'
  <2>1. \A j \in OpsOf' : \A q \in ins'[code'[j].op] \cap Spills' :
          \E i \in DOMAIN code' : i < j /\ code'[i] = Moves("fill", q, code[j].from[q])' /\ OnlyFills(i, j)'
    BY <1>9, <1>11, <1>27 DEF Moves, SpillAt
  <2> QED BY <1>26, <2>1 DEF FillsOK
\* Temps that are used again.
<1>29. Reuse'
  <2>1. ASSUME NEW i \in OpsOf', NEW j \in OpsOf', i < j, code'[i].temp = code'[j].temp
        PROVE  ~NeededBy(code'[i].op, Pos(eorder, code'[j].op))
    <3>1. i # k
      BY <1>12, <1>15, <2>1
    <3>2. i \in OpsOf /\ code'[i] = code[i] /\ code[i].op \in Emitted
      BY <1>3, <1>15, <2>1, <3>1 DEF OpsInOrder
    <3>3. CASE j \in OpsOf
      BY <1>3, <1>15, <2>1, <3>2, <3>3 DEF Reuse
    <3>4. CASE j = k
      <4>1. code[i].temp = t
        BY <1>13, <2>1, <3>2, <3>4
      <4>2. code[i].op \notin DOMAIN op_temp
        BY <1>3, <1>17, <3>2, <4>1 DEF OpsInOrder
      <4>3. ~NeededBy(code[i].op, pos)
        BY <3>2, <4>2 DEF TempsOK
      <4> QED BY <1>2, <1>13, <3>2, <3>4, <4>3
    <3> QED BY <1>15, <2>1, <3>3, <3>4
  <2>2. \A x, p : NeededBy(x, p)' = NeededBy(x, p)
    BY <1>9 DEF NeededBy, Consumers, Pos
  <2> QED BY <1>9, <2>1, <2>2 DEF Reuse, NeededBy, Consumers, Pos
<1> QED BY <1>5, <1>18, <1>20, <1>22, <1>23, <1>28, <1>29 DEF CodeOK

\* Nothing has been emitted yet.
LEMMA StartTemps ==
  ASSUME IsPerm(eorder'), pos' = 0, next_temp' = 0, op_temp' = <<>>, free_temps' = <<>>, tab' = <<>>, code' = <<>>
  PROVE  TempsOK' /\ CodeOK'
<1>1. Emitted' = {}
  <2>1. \A o \in Ops : ~(Pos(eorder', o) < 0)
    BY PermFacts
  <2> QED BY <2>1 DEF Emitted, Pos
<1>2. DOMAIN op_temp' = {} /\ DOMAIN tab' = {} /\ DOMAIN free_temps' = {} /\ DOMAIN code' = {} /\ OpsOf' = {}
      /\ Range(free_temps') = {}
  BY DEF OpsOf, Range
<1>3. free_temps' \in Seq(Used') /\ code' \in Seq(Instrs) /\ NOps \in Nat
  BY OpsFacts
<1>4. TempsOK'
  BY <1>1, <1>2, <1>3 DEF TempsOK, Distinct
<1>5. OpsInOrder' /\ SourcesOK' /\ SpillsOK' /\ FillsOK' /\ Reuse'
  BY <1>1, <1>2 DEF OpsInOrder, SourcesOK, SpillsOK, FillsOK, Reuse
<1> QED BY <1>2, <1>3, <1>4, <1>5 DEF CodeOK

LEMMA KeptCode ==
  ASSUME UNCHANGED <<graphVars, order, plan, emitVars>>
  PROVE  TempsOK' = TempsOK /\ CodeOK' = CodeOK /\ Topological(order)' = Topological(order)
<1>1. /\ ins' = ins /\ size' = size /\ plan' = plan /\ order' = order /\ dma_runlist' = dma_runlist
      /\ eorder' = eorder /\ pos' = pos /\ op_temp' = op_temp /\ free_temps' = free_temps
      /\ next_temp' = next_temp /\ tab' = tab /\ code' = code
  BY DEF graphVars, emitVars
<1>2. /\ Used' = Used /\ Emitted' = Emitted /\ Spills' = Spills /\ OpsOf' = OpsOf
      /\ \A o, p : NeededBy(o, p)' = NeededBy(o, p)
      /\ \A i, o : IsOp(i, o)' = IsOp(i, o)
      /\ \A k, o, t : Moves(k, o, t)' = Moves(k, o, t)
      /\ \A i, j : OnlyFills(i, j)' = OnlyFills(i, j)
  BY <1>1 DEF Used, Emitted, Pos, Spills, OpsOf, NeededBy, Consumers, IsOp, Moves, SpillAt, OnlyFills
<1>3. TempsOK' = TempsOK
  BY <1>1, <1>2 DEF TempsOK, Distinct, NeededBy, Consumers, Pos
<1>4. OpsInOrder' = OpsInOrder /\ SourcesOK' = SourcesOK /\ Reuse' = Reuse
  BY <1>1, <1>2 DEF OpsInOrder, SourcesOK, Reuse, IsOp, Pos, NeededBy, Consumers
<1>5. SpillsOK' = SpillsOK
  BY <1>1, <1>2 DEF SpillsOK, Moves, SpillAt
<1>6. FillsOK' = FillsOK
  BY <1>1, <1>2 DEF FillsOK, FillOf, Moves, SpillAt, IsOp
<1>7. CodeOK' = CodeOK
  BY <1>1, <1>2, <1>4, <1>5, <1>6 DEF CodeOK
<1>8. Topological(order)' = Topological(order)
  BY <1>1 DEF Topological, Pos
<1> QED BY <1>3, <1>7, <1>8

\* An order that respects the edges is emitted to the end: what the next operation
\* reads has been emitted, is needed and has kept its temp.
LEMMA NothingMissing ==
  ASSUME PlanInv, IsPerm(eorder), TempsOK, pos < NOps, Topological(eorder)
  PROVE  ins[eorder[pos + 1]] \subseteq DOMAIN op_temp
<1>1. pos \in 0 .. NOps - 1 /\ pos + 1 \in Ops /\ NOps \in Nat /\ pos \in Nat
  BY OpsFacts DEF TempsOK, Ops
<1>2. PICK o \in Ops : o = eorder[pos + 1]
  BY <1>1 DEF IsPerm
<1>3. Pos(eorder, o) = pos
  <2>1. Pos(eorder, eorder[pos + 1]) = (pos + 1) - 1
    BY <1>1, PermFacts
  <2> QED BY <1>1, <1>2, <2>1
<1>4. ASSUME NEW s \in ins[o] PROVE s \in DOMAIN op_temp
  <2>1. s \in Ops /\ o \in Consumers(s)
    BY <1>2 DEF PlanInv, GraphOK, Consumers
  <2>2. s \in Emitted
    BY <1>2, <1>3, <2>1 DEF Topological, Emitted
  <2>3. NeededBy(s, pos)
    BY <1>1, <1>3, <2>1 DEF NeededBy
  <2> QED BY <2>2, <2>3 DEF TempsOK
<1> QED BY <1>2, <1>4

\* The operations of a run change neither plan nor op list.
LEMMA RunsAdvance ==
  ASSUME RunOp \/ RunSpill \/ RunFill
  PROVE  Advance /\ phase = "run"
<1>1. CASE RunOp
  BY <1>1 DEF RunOp, Running
<1>2. CASE RunSpill
  BY <1>2 DEF RunSpill, Running
<1>3. CASE RunFill
  BY <1>3 DEF RunFill, Running
<1> QED BY <1>1, <1>2, <1>3

LEMMA EmitInvInit ==
  ASSUME Init
  PROVE  EmitInv
BY DEF Init, PlanInit, EmitInv, Early

LEMMA EmitInvStep ==
  ASSUME PlanInv, EmitInv, [Next]_vars
  PROVE  EmitInv'
<1>0. phase \in Early \cup {"emit", "failed", "run", "ran", "error"} /\ dma_runlist \in BOOLEAN
  BY DEF EmitInv
<1>1. CASE PlanNext /\ UNCHANGED <<emitVars, execVars>>
  <2>1. phase \in Early \ {"reorder"} /\ phase' \in Early \ {"reorder"}
    BY <1>1 DEF PlanNext, OrderStep, OrderDone, Place, PoolDone, Early
  <2>2. UNCHANGED emitVars
    BY <1>1
  <2>3. pos' = pos /\ next_temp' = next_temp /\ op_temp' = op_temp /\ free_temps' = free_temps
        /\ tab' = tab /\ code' = code /\ dma_runlist' = dma_runlist
    BY <2>2 DEF emitVars
  <2> QED BY <1>0, <2>1, <2>3 DEF EmitInv, Early
<1>2. CASE StartEmit
  <2>1. /\ phase = "planned" /\ dma_runlist' \in BOOLEAN /\ order' = order /\ ins' = ins
        /\ pos' = pos /\ next_temp' = next_temp /\ op_temp' = op_temp /\ free_temps' = free_temps
        /\ tab' = tab /\ code' = code
    BY <1>2 DEF StartEmit, graphVars
  <2>2. pos' = 0 /\ next_temp' = 0 /\ op_temp' = <<>> /\ free_temps' = <<>> /\ tab' = <<>> /\ code' = <<>>
    BY <2>1 DEF EmitInv, Early
  <2>3. CASE Topological(order)
    <3>1. phase' = "emit" /\ eorder' = order
      BY <1>2, <2>3 DEF StartEmit
    <3>2. IsPerm(order)
      BY <2>1 DEF PlanInv
    <3>3. IsPerm(eorder') /\ IsPerm(eorder)'
      BY <3>1, <3>2 DEF IsPerm
    <3>4. TempsOK' /\ CodeOK'
      BY <2>2, <3>3, StartTemps
    <3> QED BY <2>1, <3>1, <3>3, <3>4 DEF EmitInv, Early
  <2>4. CASE ~Topological(order)
    <3>1. phase' = "reorder"
      BY <1>2, <2>4 DEF StartEmit
    <3>2. ~Topological(order)'
      BY <2>1, <2>4 DEF Topological, Pos
    <3> QED BY <2>1, <2>2, <3>1, <3>2 DEF EmitInv, Early
  <2> QED BY <2>3, <2>4
<1>3. CASE ReorderStep
  <2>1. /\ phase = "reorder" /\ dma_runlist' = dma_runlist /\ order' = order /\ ins' = ins
        /\ pos' = pos /\ next_temp' = next_temp /\ op_temp' = op_temp /\ free_temps' = free_temps
        /\ tab' = tab /\ code' = code
    BY <1>3 DEF ReorderStep, graphVars
  <2>2. pos' = 0 /\ next_temp' = 0 /\ op_temp' = <<>> /\ free_temps' = <<>> /\ tab' = <<>> /\ code' = <<>>
    BY <2>1 DEF EmitInv, Early
  <2>3. ~Topological(order)'
    BY <2>1 DEF EmitInv, Topological, Pos
  <2>4. CASE phase' = phase
    BY <1>0, <2>1, <2>2, <2>3, <2>4 DEF EmitInv, Early
  <2>5. CASE phase' = "emit" /\ eorder' = KahnResult
    <3>1. IsPerm(KahnResult)
      BY <2>1, KahnEnd DEF PlanInv
    <3>2. IsPerm(eorder') /\ IsPerm(eorder)'
      BY <2>5, <3>1 DEF IsPerm
    <3>3. TempsOK' /\ CodeOK'
      BY <2>2, <3>2, StartTemps
    <3> QED BY <1>0, <2>1, <2>3, <2>5, <3>2, <3>3 DEF EmitInv, Early
  <2> QED BY <1>3, <2>4, <2>5 DEF ReorderStep
<1>4. CASE Emit
  <2>1. phase = "emit" /\ phase' = "emit" /\ eorder' = eorder /\ order' = order /\ ins' = ins /\ dma_runlist' = dma_runlist
    BY <1>4 DEF Emit, planVars, graphVars
  <2>2. IsPerm(eorder) /\ TempsOK /\ CodeOK /\ (Topological(order) => eorder = order)
    BY <2>1 DEF EmitInv, Early
  <2>3. TempsOK' /\ CodeOK'
    BY <1>4, <2>2, EmitTemps, EmitCode
  <2>4. IsPerm(eorder)' /\ Topological(order)' = Topological(order)
    BY <2>1, <2>2 DEF IsPerm, Topological, Pos
  <2> QED BY <1>0, <2>1, <2>2, <2>3, <2>4 DEF EmitInv, Early
<1>5. CASE EmitFails
  <2>1. phase = "emit" /\ phase' = "failed" /\ UNCHANGED <<graphVars, order, plan, emitVars>>
    BY <1>5 DEF EmitFails
  <2>2. IsPerm(eorder) /\ TempsOK /\ CodeOK /\ (Topological(order) => eorder = order)
    BY <2>1 DEF EmitInv, Early
  <2>3. ~Topological(order)
    <3> SUFFICES ASSUME Topological(order) PROVE FALSE
      OBVIOUS
    <3>1. Topological(eorder)
      BY <2>2
    <3> QED BY <1>5, <2>2, <3>1, NothingMissing DEF EmitFails
  <2>4. TempsOK' /\ CodeOK' /\ ~Topological(order)'
    BY <2>1, <2>2, <2>3, KeptCode
  <2>5. IsPerm(eorder)' /\ dma_runlist' = dma_runlist
    BY <2>1, <2>2 DEF IsPerm, emitVars
  <2> QED BY <1>0, <2>1, <2>4, <2>5 DEF EmitInv, Early
<1>6. CASE BeginRun \/ RunOp \/ RunSpill \/ RunFill \/ RunFails \/ RunDone \/ Shutdown
  <2>1. UNCHANGED <<graphVars, order, plan, emitVars>>
    <3>1. CASE BeginRun \/ RunFails \/ RunDone
      BY <3>1 DEF BeginRun, RunFails, RunDone
    <3>2. CASE RunOp \/ RunSpill \/ RunFill \/ Shutdown
      <4>1. UNCHANGED <<planVars, emitVars>>
        <5>1. CASE Shutdown
          BY <5>1 DEF Shutdown
        <5>2. CASE RunOp \/ RunSpill \/ RunFill
          BY <5>2, RunsAdvance DEF Advance
        <5> QED BY <3>2, <5>1, <5>2
      <4> QED BY <4>1 DEF planVars
    <3> QED BY <1>6, <3>1, <3>2
  <2>2. /\ phase \in {"emit", "run", "ran", "error"} /\ phase' \in {"run", "ran", "error"}
        /\ phase = "emit" => pos = NOps
    <3>1. CASE BeginRun \/ RunFails \/ RunDone
      BY <3>1 DEF BeginRun, RunFails, RunDone
    <3>2. CASE RunOp \/ RunSpill \/ RunFill \/ Shutdown
      <4>1. UNCHANGED planVars /\ phase \in {"run", "ran", "error"}
        <5>1. CASE Shutdown
          BY <5>1 DEF Shutdown
        <5>2. CASE RunOp \/ RunSpill \/ RunFill
          BY <5>2, RunsAdvance DEF Advance
        <5> QED BY <3>2, <5>1, <5>2
      <4> QED BY <4>1 DEF planVars
    <3> QED BY <1>6, <3>1, <3>2
  <2>3. IsPerm(eorder) /\ TempsOK /\ CodeOK /\ (Topological(order) => eorder = order) /\ pos = NOps
    BY <2>2 DEF EmitInv, Early
  <2>4. TempsOK' /\ CodeOK' /\ Topological(order)' = Topological(order)
    BY <2>1, <2>3, KeptCode
  <2>5. IsPerm(eorder)' /\ dma_runlist' = dma_runlist /\ eorder' = eorder /\ order' = order /\ pos' = NOps
    BY <2>1, <2>3 DEF IsPerm, emitVars
  <2> QED BY <1>0, <2>2, <2>3, <2>4, <2>5 DEF EmitInv, Early
<1>7. CASE UNCHANGED vars
  <2>1. UNCHANGED <<planVars, emitVars>>
    BY <1>7 DEF vars
  <2>2. UNCHANGED <<graphVars, order, plan, emitVars>> /\ phase' = phase
    BY <2>1 DEF planVars
  <2>3. TempsOK' = TempsOK /\ CodeOK' = CodeOK /\ Topological(order)' = Topological(order)
    BY <2>2, KeptCode
  <2>4. /\ order' = order /\ dma_runlist' = dma_runlist
        /\ eorder' = eorder /\ pos' = pos /\ op_temp' = op_temp /\ free_temps' = free_temps
        /\ next_temp' = next_temp /\ tab' = tab /\ code' = code
    BY <2>2 DEF emitVars
  <2> QED BY <2>2, <2>3, <2>4 DEF EmitInv, IsPerm
<1> QED BY <1>1, <1>2, <1>3, <1>4, <1>5, <1>6, <1>7 DEF Next

-----------------------------------------------------------------------------
\* The pool: the areas of temps without a static place are disjoint and lie behind
\* the static part, and what has been taken is accounted for by the op list.

\* The executor has nothing yet, or nothing any more.
LEMMA NothingTaken ==
  ASSUME budget' \in Nat \X Nat, temps' = <<>>, temp_bytes' = <<>>, pool_used' = 0, phase' # "run",
         code' \in Seq(Instrs), \A i \in DOMAIN code' : code'[i].size \in Nat
  PROVE  AreasOK' /\ SteadyOK'
<1> DEFINE f == [j \in DOMAIN code' |-> IF Taken(j)' THEN code'[j].size ELSE 0]
<1>1. DOMAIN temps' = {} /\ DOMAIN temp_bytes' = {}
  OBVIOUS
<1>2. AreasOK'
  BY <1>1 DEF AreasOK
<1>3. DOMAIN code' = 1 .. Len(code') /\ Len(code') \in Nat
  OBVIOUS
<1>4. \A i \in 1 .. Len(code') : f[i] \in Nat
  BY <1>3
<1> HIDE DEF f
<1>5. SumTo(f, Len(code')) \in Nat
  <2>1. Len(code') \in 0 .. Len(code')
    BY <1>3
  <2>2. \A m \in 0 .. Len(code') : SumTo(f, m) \in Nat
    BY <1>3, <1>4, SumFacts
  <2> QED BY <2>1, <2>2
<1>6. Base' \in Nat
  BY DEF Base, Planned, Cap
<1>7. 0 <= Base' + SumTo(f, Len(code'))
  BY <1>5, <1>6
<1> QED BY <1>2, <1>7 DEF SteadyOK, f

\* temp_get.
LEMMA GetAreas ==
  ASSUME AreasOK, Used \subseteq Nat, budget \in Nat \X Nat, NEW t \in Used, NEW n \in Nat, TempGet(t, n), phase = "run",
         \A u \in DOMAIN tab : tab[u] \in Places,
         tab' = tab, budget' = budget, next_temp' = next_temp
  PROVE  /\ AreasOK' /\ t \in DOMAIN temps' /\ temps'[t] = AddrOf(t, n) /\ pool_used <= pool_used'
         /\ ~Static(t) => n <= temp_bytes'[t]
         /\ \A u \in DOMAIN temps : /\ u \in DOMAIN temps'
                                    /\ u # t => temps'[u] = temps[u] /\ temp_bytes'[u] = temp_bytes[u]
                                    /\ ~Static(u) => temp_bytes[u] <= temp_bytes'[u]
         /\ \A u \in DOMAIN temps' : u \in DOMAIN temps \/ u = t
         /\ ~Static(t) /\ Grows(t, n) => pool_used' = pool_used + n /\ temp_bytes'[t] = n
         /\ Static(t) \/ ~Grows(t, n) => pool_used' = pool_used
<1>0. /\ temps' = Put(temps, t, AddrOf(t, n))
      /\ temp_bytes' = IF Static(t) \/ Grows(t, n) THEN Put(temp_bytes, t, n) ELSE temp_bytes
      /\ pool_used' = IF ~Static(t) /\ Grows(t, n) THEN pool_used + n ELSE pool_used
  BY DEF TempGet
<1>1. /\ pool_used \in Nat /\ Base <= pool_used
      /\ DOMAIN temps \subseteq Used /\ DOMAIN temp_bytes = DOMAIN temps
      /\ \A u \in DOMAIN temps : temps[u] \in Addrs /\ temp_bytes[u] \in Nat
      /\ \A u \in DOMAIN temps : Static(u) => temps[u] = <<tab[u].pool, tab[u].off>>
      /\ \A u \in DOMAIN temps : ~Static(u) =>
           temps[u][1] = "ddr" /\ Base <= temps[u][2] /\ temps[u][2] + temp_bytes[u] <= pool_used
      /\ \A u, v \in DOMAIN temps : u # v /\ ~Static(u) /\ ~Static(v) =>
           Disjoint(temps[u][2], temps[u][2] + temp_bytes[u], temps[v][2], temps[v][2] + temp_bytes[v])
  BY DEF AreasOK
<1>2. /\ DOMAIN temps' = DOMAIN temps \cup {t}
      /\ \A u \in DOMAIN temps' : temps'[u] = IF u = t THEN AddrOf(t, n) ELSE temps[u]
  BY <1>0 DEF Put
<1>3. /\ DOMAIN temp_bytes' = DOMAIN temps'
      /\ \A u \in DOMAIN temps' : u # t => temp_bytes'[u] = temp_bytes[u]
      /\ Static(t) \/ Grows(t, n) => temp_bytes'[t] = n
      /\ ~Static(t) /\ ~Grows(t, n) => t \in DOMAIN temps /\ temp_bytes'[t] = temp_bytes[t] /\ n <= temp_bytes[t]
  <2>1. CASE Static(t) \/ Grows(t, n)
    <3>1. temp_bytes' = Put(temp_bytes, t, n)
      BY <1>0, <2>1
    <3> QED BY <1>1, <1>2, <2>1, <3>1 DEF Put
  <2>2. CASE ~Static(t) /\ ~Grows(t, n)
    <3>1. temp_bytes' = temp_bytes /\ t \in DOMAIN temps /\ ~(temp_bytes[t] < n)
      BY <1>0, <2>2 DEF Grows
    <3>2. n <= temp_bytes[t]
      BY <1>1, <3>1
    <3> QED BY <1>1, <1>2, <2>2, <3>1, <3>2
  <2> QED BY <2>1, <2>2
<1>4. /\ Static(t) => AddrOf(t, n) = <<tab[t].pool, tab[t].off>> /\ AddrOf(t, n) \in Addrs
      /\ ~Static(t) /\ Grows(t, n) => AddrOf(t, n) = <<"ddr", pool_used>>
      /\ ~Static(t) /\ ~Grows(t, n) => AddrOf(t, n) = temps[t]
  <2>1. Static(t) => tab[t] \in Places
    BY DEF Static
  <2>2. Static(t) => tab[t].pool \in {"vtcm", "ddr", "spill"} /\ tab[t].off \in Nat
    BY <2>1 DEF Places
  <2> QED BY <2>2 DEF AddrOf, Addrs
<1>5. \A u : Static(u)' = Static(u)
  BY DEF Static, Planned
<1>6. Used' = Used /\ Base' = Base /\ Base \in Nat
  BY DEF Used, Base, Planned, Cap
<1>7. pool_used' \in Nat /\ pool_used <= pool_used'
  BY <1>0, <1>1
<1>8. \A u \in DOMAIN temps' : temps'[u] \in Addrs /\ temp_bytes'[u] \in Nat
  <2> SUFFICES ASSUME NEW u \in DOMAIN temps' PROVE temps'[u] \in Addrs /\ temp_bytes'[u] \in Nat
    OBVIOUS
  <2>1. CASE u # t
    BY <1>1, <1>2, <1>3, <2>1
  <2>2. CASE u = t
    <3>1. <<"ddr", pool_used>> \in Addrs
      BY <1>1 DEF Addrs
    <3> QED BY <1>1, <1>2, <1>3, <1>4, <2>2, <3>1
  <2> QED BY <2>1, <2>2
<1>9. \A u \in DOMAIN temps' : Static(u) => temps'[u] = <<tab[u].pool, tab[u].off>>
  BY <1>1, <1>2, <1>4
<1>10. \A u \in DOMAIN temps' : ~Static(u) =>
           temps'[u][1] = "ddr" /\ Base <= temps'[u][2] /\ temps'[u][2] + temp_bytes'[u] <= pool_used'
  <2> SUFFICES ASSUME NEW u \in DOMAIN temps', ~Static(u)
               PROVE  temps'[u][1] = "ddr" /\ Base <= temps'[u][2] /\ temps'[u][2] + temp_bytes'[u] <= pool_used'
    OBVIOUS
  <2>1. CASE u \in DOMAIN temps /\ temps'[u] = temps[u] /\ temp_bytes'[u] = temp_bytes[u]
    <3>1. temps[u][2] \in Nat /\ temp_bytes[u] \in Nat
      BY <1>1, <2>1 DEF Addrs
    <3> QED BY <1>1, <1>7, <2>1, <3>1
  <2>2. CASE u = t /\ Grows(t, n)
    <3>1. temps'[u] = <<"ddr", pool_used>> /\ temp_bytes'[u] = n /\ pool_used' = pool_used + n
      BY <1>0, <1>2, <1>3, <1>4, <2>2
    <3> QED BY <1>1, <3>1
  <2> QED BY <1>2, <1>3, <1>4, <2>1, <2>2
<1>11. ASSUME NEW u \in DOMAIN temps', NEW v \in DOMAIN temps', u # v, ~Static(u), ~Static(v)
       PROVE  Disjoint(temps'[u][2], temps'[u][2] + temp_bytes'[u], temps'[v][2], temps'[v][2] + temp_bytes'[v])
  <2>1. ASSUME NEW x \in DOMAIN temps', NEW y \in DOMAIN temps', x # y, ~Static(x), ~Static(y), y = t, Grows(t, n)
        PROVE  temps'[x][2] + temp_bytes'[x] <= temps'[y][2]
    <3>1. temps'[y] = <<"ddr", pool_used>>
      BY <1>2, <1>4, <2>1
    <3>2. x \in DOMAIN temps /\ temps'[x] = temps[x] /\ temp_bytes'[x] = temp_bytes[x]
      BY <1>2, <1>3, <2>1
    <3> QED BY <1>1, <2>1, <3>1, <3>2
  <2>2. CASE v = t /\ Grows(t, n)
    BY <1>11, <2>1, <2>2 DEF Disjoint
  <2>3. CASE u = t /\ Grows(t, n)
    BY <1>11, <2>1, <2>3 DEF Disjoint
  <2>4. CASE (u # t /\ v # t) \/ ~Grows(t, n)
    <3>1. /\ u \in DOMAIN temps /\ temps'[u] = temps[u] /\ temp_bytes'[u] = temp_bytes[u]
          /\ v \in DOMAIN temps /\ temps'[v] = temps[v] /\ temp_bytes'[v] = temp_bytes[v]
      BY <1>2, <1>3, <1>4, <1>11, <2>4
    <3> QED BY <1>1, <1>11, <3>1
  <2> QED BY <2>2, <2>3, <2>4
<1>12. AreasOK'
  <2>1. Base' <= pool_used' /\ pool_used' \in Nat
    BY <1>1, <1>6, <1>7
  <2>2. DOMAIN temps' \subseteq Used'
    BY <1>1, <1>2, <1>6
  <2> QED BY <1>3, <1>5, <1>6, <1>8, <1>9, <1>10, <1>11, <2>1, <2>2 DEF AreasOK, Disjoint
<1>13. \A u \in DOMAIN temps : ~Static(u) => temp_bytes[u] <= temp_bytes'[u]
  <2> SUFFICES ASSUME NEW u \in DOMAIN temps, ~Static(u) PROVE temp_bytes[u] <= temp_bytes'[u]
    OBVIOUS
  <2>1. CASE u = t /\ Grows(t, n)
    <3>1. temp_bytes[t] < n
      BY <2>1 DEF Grows
    <3> QED BY <1>1, <1>3, <2>1, <3>1
  <2>2. CASE ~(u = t /\ Grows(t, n))
    BY <1>1, <1>2, <1>3, <2>2
  <2> QED BY <2>1, <2>2
<1>14. ~Static(t) => n <= temp_bytes'[t]
  BY <1>3
<1> QED BY <1>0, <1>2, <1>3, <1>7, <1>12, <1>13, <1>14

\* The pool grows only at an instruction that asks its temp for more than all
\* before it in the op list, and that has not been counted.
LEMMA GetSteady ==
  ASSUME AreasOK, SteadyOK, AreasOK', phase = "run", ip \in DOMAIN code, code \in Seq(Instrs),
         budget \in Nat \X Nat, Used \subseteq Temps,
         \A i \in DOMAIN code : code[i].temp \in Used /\ code[i].size \in Nat,
         code[ip].kind # "spill", TempGet(code[ip].temp, code[ip].size),
         \A u \in DOMAIN tab : tab[u] \in Places,
         ip' = ip + 1, tab' = tab, budget' = budget, next_temp' = next_temp, code' = code
  PROVE  SteadyOK'
<1>1. PICK t \in Used : t = code[ip].temp
  OBVIOUS
<1>2. PICK n \in Nat : n = code[ip].size
  OBVIOUS
<1>2a. PICK k \in DOMAIN code : k = ip
  OBVIOUS
<1>3. Used \subseteq Nat /\ TempGet(t, n) /\ Temps \subseteq Nat
  BY <1>1, <1>2 DEF Temps
<1>4. /\ t \in DOMAIN temps' /\ pool_used <= pool_used'
      /\ ~Static(t) => n <= temp_bytes'[t]
      /\ \A u \in DOMAIN temps : u \in DOMAIN temps' /\ (~Static(u) => temp_bytes[u] <= temp_bytes'[u])
      /\ ~Static(t) /\ Grows(t, n) => pool_used' = pool_used + n /\ temp_bytes'[t] = n
      /\ Static(t) \/ ~Grows(t, n) => pool_used' = pool_used
  BY <1>3, GetAreas
<1>5. \A u : Static(u)' = Static(u)
  BY DEF Static, Planned
<1>6. \A u : Asks(u)' = Asks(u) /\ Records(u)' = Records(u)
  BY <1>5 DEF Asks, Records
<1>7. Base' = Base /\ Base \in Nat
  BY DEF Base, Planned, Cap
<1>8. /\ \A u \in DOMAIN temps : temp_bytes[u] \in Nat /\ u \in Used
      /\ \A u \in DOMAIN temps' : temp_bytes'[u] \in Nat
      /\ pool_used \in Nat
  BY DEF AreasOK
<1>9. \A u, i : i \in Asks(u) => i \in DOMAIN code /\ u = code[i].temp /\ ~Static(u)
  BY DEF Asks
<1>10. \A u, i : i \in Records(u) => i \in Asks(u)
  BY DEF Records
<1>11. ASSUME NEW u \in Temps, NEW j \in Asks(u), j < ip'
       PROVE  u \in DOMAIN temps' /\ code[j].size <= temp_bytes'[u]
  <2>1. j \in DOMAIN code /\ u = code[j].temp /\ ~Static(u) /\ j \in Nat /\ ip \in Nat /\ code[j].size \in Nat
    BY <1>9
  <2>2. CASE j = ip
    BY <1>1, <1>2, <1>4, <2>1, <2>2
  <2>3. CASE j # ip
    <3>1. j < ip
      BY <1>11, <2>1, <2>3
    <3>2. u \in DOMAIN temps /\ code[j].size <= temp_bytes[u]
      BY <3>1 DEF SteadyOK
    <3>3. u \in DOMAIN temps' /\ temp_bytes[u] <= temp_bytes'[u] /\ temp_bytes[u] \in Nat /\ temp_bytes'[u] \in Nat
      BY <1>4, <1>8, <2>1, <3>2
    <3> QED BY <2>1, <3>2, <3>3
  <2> QED BY <2>2, <2>3
<1>12. ASSUME NEW i \in DOMAIN code, Taken(i) PROVE Taken(i)'
  <2>1. PICK u \in DOMAIN temps : i \in Records(u) /\ code[i].size <= temp_bytes[u]
    BY <1>12 DEF Taken
  <2>2. ~Static(u) /\ code[i].size \in Nat
    BY <1>9, <1>10, <2>1
  <2>3. u \in DOMAIN temps' /\ temp_bytes[u] <= temp_bytes'[u] /\ temp_bytes[u] \in Nat /\ temp_bytes'[u] \in Nat
    BY <1>4, <1>8, <2>1, <2>2
  <2>4. code[i].size <= temp_bytes'[u]
    BY <2>1, <2>2, <2>3
  <2> QED BY <1>6, <2>1, <2>3, <2>4 DEF Taken
<1>13. ASSUME ~Static(t), Grows(t, n) PROVE Taken(k)' /\ ~Taken(k)
  <2>0. t = code[k].temp /\ n = code[k].size /\ code[k].kind # "spill"
    BY <1>1, <1>2, <1>2a
  <2>1. k \in Asks(t)
    BY <1>13, <2>0 DEF Asks
  <2>2. ASSUME NEW j \in Asks(t), j < k PROVE code[j].size < code[k].size
    <3>1. t \in DOMAIN temps /\ code[j].size <= temp_bytes[t]
      BY <1>1, <1>2a, <2>2 DEF SteadyOK
    <3>2. temp_bytes[t] < n
      BY <1>13, <3>1 DEF Grows
    <3>3. code[j].size \in Nat /\ temp_bytes[t] \in Nat
      BY <1>8, <1>9, <3>1
    <3> QED BY <2>0, <3>1, <3>2, <3>3
  <2>3. k \in Records(t)
    BY <2>1, <2>2 DEF Records
  <2>4. Taken(k)'
    <3>1. t \in DOMAIN temps' /\ code[k].size <= temp_bytes'[t]
      BY <1>4, <1>13, <2>0
    <3> QED BY <1>6, <2>3, <3>1 DEF Taken
  <2>5. ~Taken(k)
    <3> SUFFICES ASSUME NEW u \in DOMAIN temps, k \in Records(u), code[k].size <= temp_bytes[u] PROVE FALSE
      BY DEF Taken
    <3>1. u = t
      BY <1>9, <1>10, <2>0
    <3>2. temp_bytes[t] < n /\ temp_bytes[t] \in Nat
      BY <1>8, <1>13, <3>1 DEF Grows
    <3> QED BY <2>0, <3>1, <3>2
  <2> QED BY <2>4, <2>5
\* The sums.
<1> DEFINE f == [i \in DOMAIN code |-> IF Taken(i) THEN code[i].size ELSE 0]
           g == [i \in DOMAIN code |-> IF Taken(i)' THEN code[i].size ELSE 0]
           L == Len(code)
<1>14. L \in Nat /\ DOMAIN code = 1 .. L /\ k \in 1 .. L /\ code[k].size = n
  BY <1>2, <1>2a
<1>15. \A i \in 1 .. L : f[i] \in Nat /\ g[i] \in Nat /\ f[i] <= g[i]
  BY <1>12, <1>14
<1>16. ~Static(t) /\ Grows(t, n) => f[k] = 0 /\ g[k] = n
  BY <1>13, <1>14
<1>17. pool_used <= Base + SumTo(f, L)
  BY DEF SteadyOK
<1> HIDE DEF f, g, L
<1>18. SumTo(f, L) \in Nat /\ SumTo(g, L) \in Nat
  <2>0. L \in 0 .. L
    BY <1>14
  <2>1. (\A i \in 1 .. L : f[i] \in Nat) /\ (\A i \in 1 .. L : g[i] \in Nat)
    BY <1>15
  <2>2. \A m \in 0 .. L : SumTo(f, m) \in Nat
    BY <1>14, <2>1, SumFacts
  <2>3. \A m \in 0 .. L : SumTo(g, m) \in Nat
    BY <1>14, <2>1, SumFacts
  <2> QED BY <2>0, <2>2, <2>3
<1>19. pool_used' <= Base + SumTo(g, L)
  <2>1. CASE ~Static(t) /\ Grows(t, n)
    <3>1. k \in 1 .. L + 1 /\ k <= L
      BY <1>14
    <3>2. \A i \in 1 .. L : f[i] \in Nat /\ g[i] \in Nat /\ f[i] + (IF i = k THEN n ELSE 0) <= g[i]
      BY <1>15, <1>16, <2>1
    <3>3. SumTo(f, L) + (IF k <= L THEN n ELSE 0) <= SumTo(g, L)
      BY <1>14, <3>1, <3>2, SumGrows
    <3> QED BY <1>4, <1>7, <1>8, <1>17, <1>18, <2>1, <3>1, <3>3
  <2>2. CASE Static(t) \/ ~Grows(t, n)
    <3>1. L + 1 \in 1 .. L + 1 /\ ~(L + 1 <= L) /\ 0 \in Nat
      BY <1>14
    <3>2. \A i \in 1 .. L : f[i] \in Nat /\ g[i] \in Nat /\ f[i] + (IF i = L + 1 THEN 0 ELSE 0) <= g[i]
      BY <1>15
    <3>3. SumTo(f, L) + (IF L + 1 <= L THEN 0 ELSE 0) <= SumTo(g, L)
      BY <1>14, <3>1, <3>2, SumGrows
    <3> QED BY <1>4, <1>7, <1>8, <1>17, <1>18, <2>2, <3>1, <3>3
  <2> QED BY <2>1, <2>2
<1>20. SteadyOK'
  <2>1. pool_used' <= Base' + SumTo([i \in DOMAIN code' |-> IF Taken(i)' THEN code'[i].size ELSE 0], Len(code'))
    BY <1>7, <1>19 DEF f, g, L
  <2>2. \A u \in Temps : \A j \in Asks(u)' : j < ip' => u \in DOMAIN temps' /\ code'[j].size <= temp_bytes'[u]
    BY <1>6, <1>11
  <2> QED BY <2>1, <2>2 DEF SteadyOK
<1> QED BY <1>20

\* Nothing is asked for: the areas and the account stay.
LEMMA KeptAreas ==
  ASSUME AreasOK, SteadyOK, tab' = tab, budget' = budget, next_temp' = next_temp, code' = code,
         temps' = temps, temp_bytes' = temp_bytes, pool_used' = pool_used,
         phase' = "run" => Base <= pool_used,
         phase' = "run" => \A t \in Temps : \A j \in Asks(t) : j < ip' => t \in DOMAIN temps /\ code[j].size <= temp_bytes[t]
  PROVE  AreasOK' /\ SteadyOK'
<1>1. (\A u : Static(u)' = Static(u)) /\ Base' = Base /\ Used' = Used
  BY DEF Static, Planned, Base, Cap, Used
<1>2. \A u : Asks(u)' = Asks(u) /\ Records(u)' = Records(u)
  BY <1>1 DEF Asks, Records
<1>3. \A i : Taken(i)' = Taken(i)
  BY <1>2 DEF Taken
<1>4. AreasOK'
  BY <1>1 DEF AreasOK, Disjoint
<1>5. pool_used' <= Base' + SumTo([i \in DOMAIN code' |-> IF Taken(i)' THEN code'[i].size ELSE 0], Len(code'))
  <2>1. [i \in DOMAIN code' |-> IF Taken(i)' THEN code'[i].size ELSE 0]
        = [i \in DOMAIN code |-> IF Taken(i) THEN code[i].size ELSE 0]
    BY <1>3
  <2> QED BY <1>1, <2>1 DEF SteadyOK
<1>6. phase' = "run" => \A t \in Temps : \A j \in Asks(t)' : j < ip' => t \in DOMAIN temps' /\ code'[j].size <= temp_bytes'[t]
  BY <1>2
<1> QED BY <1>4, <1>5, <1>6 DEF SteadyOK

LEMMA ExecInvInit ==
  ASSUME Init
  PROVE  ExecInv
<1>1. /\ phase = "order" /\ budget = <<0, 0>> /\ code = <<>> /\ run = 0 /\ ip = 0 /\ temps = <<>>
      /\ temp_bytes = <<>> /\ pool_used = 0 /\ mem = <<>>
  BY DEF Init, PlanInit
<1>2. Base = 0 /\ DOMAIN temps = {} /\ DOMAIN temp_bytes = {} /\ Len(code) = 0
  BY <1>1 DEF Base, Planned
<1>3. AreasOK
  BY <1>1, <1>2 DEF AreasOK
<1>4. SumTo([i \in DOMAIN code |-> IF Taken(i) THEN code[i].size ELSE 0], 0) = 0
  BY SumFacts
<1>5. SteadyOK
  BY <1>1, <1>2, <1>4 DEF SteadyOK
<1> QED BY <1>1, <1>2, <1>3, <1>5, RunAssumption DEF ExecInv

LEMMA CodeTyped ==
  ASSUME EmitInv
  PROVE  /\ code \in Seq(Instrs) /\ \A i \in DOMAIN code : code[i].temp \in Used /\ code[i].size \in Nat
         /\ Used \subseteq Temps /\ Temps \subseteq Nat /\ \A u \in DOMAIN tab : tab[u] \in Places
<1>1. CASE phase \in Early
  BY <1>1 DEF EmitInv, Used, Temps
<1>2. CASE phase \notin Early
  <2>1. TempsOK /\ CodeOK
    BY <1>2 DEF EmitInv
  <2>2. next_temp \in Nat /\ next_temp <= NOps /\ NOps \in Nat
    BY <2>1, OpsFacts DEF TempsOK
  <2> QED BY <2>1, <2>2 DEF TempsOK, CodeOK, Used, Temps
<1> QED BY <1>1, <1>2

LEMMA ExecInvStep ==
  ASSUME PlanInv, PlanInv', EmitInv, EmitInv', ExecInv, [Next]_vars
  PROVE  ExecInv'
<1>0. /\ run \in 0 .. MaxRuns /\ ip \in 0 .. Len(code) + 1 /\ AreasOK /\ SteadyOK /\ MaxRuns \in Nat
      /\ budget \in Nat \X Nat /\ budget' \in Nat \X Nat
  BY RunAssumption DEF ExecInv, PlanInv
<1>1. /\ code \in Seq(Instrs) /\ \A i \in DOMAIN code : code[i].temp \in Used /\ code[i].size \in Nat
      /\ Used \subseteq Temps /\ Temps \subseteq Nat /\ \A u \in DOMAIN tab : tab[u] \in Places
  BY CodeTyped
<1>2. code' \in Seq(Instrs) /\ \A i \in DOMAIN code' : code'[i].size \in Nat
  <2>1. CASE phase' \in Early
    <3>1. code' = <<>>
      BY <2>1 DEF EmitInv, Early
    <3>2. <<>> \in Seq(Instrs) /\ DOMAIN <<>> = {}
      OBVIOUS
    <3> HIDE <2>1
    <3> QED BY <3>1, <3>2
  <2>2. CASE phase' \notin Early
    <3>1. CodeOK'
      BY <2>2 DEF EmitInv, Early
    <3> QED BY <3>1 DEF CodeOK
  <2> QED BY <2>1, <2>2
<1>3. Len(code) \in Nat /\ DOMAIN code = 1 .. Len(code) /\ Len(code') \in Nat /\ DOMAIN code' = 1 .. Len(code')
  BY <1>1, <1>2
<1>4. ASSUME UNCHANGED execVars, phase \notin {"run", "ran", "error"}, phase' \notin {"run", "ran", "error"}
      PROVE  ExecInv'
  <2>1. run' = 0 /\ ip' = 0 /\ temps' = <<>> /\ temp_bytes' = <<>> /\ pool_used' = 0 /\ mem' = <<>>
    BY <1>4 DEF execVars, ExecInv
  <2>2. AreasOK' /\ SteadyOK'
    BY <1>0, <1>2, <1>4, <2>1, NothingTaken
  <2> QED BY <1>0, <1>3, <1>4, <2>1, <2>2 DEF ExecInv
<1>5. CASE PlanNext /\ UNCHANGED <<emitVars, execVars>>
  <2>1. phase \in {"order", "place"} /\ phase' \in {"order", "place", "planned"} /\ UNCHANGED execVars
    BY <1>5 DEF PlanNext, OrderStep, OrderDone, Place, PoolDone
  <2> QED BY <1>4, <2>1
<1>6. CASE StartEmit \/ ReorderStep \/ EmitFails
  <2>1. phase \in {"planned", "reorder", "emit"} /\ phase' \in {"reorder", "emit", "failed"} /\ UNCHANGED execVars
    BY <1>6 DEF StartEmit, ReorderStep, EmitFails
  <2> QED BY <1>4, <2>1
<1>7. CASE Emit
  <2>1. phase = "emit" /\ phase' = "emit" /\ UNCHANGED execVars
    BY <1>7 DEF Emit, planVars
  <2> QED BY <1>4, <2>1
<1>8. CASE BeginRun
  <2>1. /\ phase' = "run" /\ run' = run + 1 /\ ip' = 1 /\ run < MaxRuns
        /\ pool_used' = IF Planned /\ pool_used = 0 THEN Cap ELSE pool_used
        /\ temps' = temps /\ temp_bytes' = temp_bytes /\ budget' = budget /\ UNCHANGED emitVars
    BY <1>8 DEF BeginRun
  <2>2. tab' = tab /\ code' = code /\ next_temp' = next_temp
    BY <2>1 DEF emitVars
  <2>3. Base' = Base /\ Base \in Nat /\ Cap \in Nat /\ (Planned => Base = Cap /\ Cap # 0) /\ (~Planned => Base = 0)
    BY <1>0, <2>1 DEF Base, Planned, Cap
  <2>4. \A t : \A j \in Asks(t) : ~(j < 1)
    BY <1>3 DEF Asks
  <2>5. CASE ~(Planned /\ pool_used = 0)
    <3>1. pool_used' = pool_used /\ Base <= pool_used
      BY <1>0, <2>1, <2>3, <2>5 DEF AreasOK
    <3>2. AreasOK' /\ SteadyOK'
      BY <1>0, <2>1, <2>2, <2>4, <3>1, KeptAreas
    <3> QED BY <1>0, <1>3, <2>1, <2>2, <3>2 DEF ExecInv
  <2>6. CASE Planned /\ pool_used = 0
    <3>1. pool_used' = Base /\ temps' = <<>> /\ DOMAIN temps' = {} /\ DOMAIN temp_bytes' = {}
      BY <1>0, <2>1, <2>3, <2>6 DEF AreasOK
    <3>2. AreasOK'
      BY <2>3, <3>1 DEF AreasOK
    <3> DEFINE f == [j \in DOMAIN code' |-> IF Taken(j)' THEN code'[j].size ELSE 0]
    <3>3. \A i \in 1 .. Len(code') : f[i] \in Nat
      BY <1>2, <1>3
    <3>4. SumTo(f, Len(code')) \in Nat
      <4> HIDE DEF f
      <4>1. \A m \in 0 .. Len(code') : SumTo(f, m) \in Nat
        BY <1>3, <3>3, SumFacts
      <4>2. Len(code') \in 0 .. Len(code')
        BY <1>3
      <4> QED BY <4>1, <4>2
    <3>5. pool_used' <= Base' + SumTo(f, Len(code'))
      <4> HIDE DEF f
      <4> QED BY <2>3, <3>1, <3>4
    <3>6. \A t \in Temps : \A j \in Asks(t)' : ~(j < ip')
      BY <1>3, <2>1 DEF Asks
    <3>7. SteadyOK'
      BY <3>5, <3>6 DEF SteadyOK
    <3> QED BY <1>0, <1>3, <2>1, <2>2, <3>2, <3>7 DEF ExecInv
  <2> QED BY <2>5, <2>6
<1>9. CASE RunOp \/ RunFill
  <2>1. phase = "run" /\ Advance /\ phase' = phase /\ ip' = ip + 1
    BY <1>9, RunsAdvance DEF Advance, planVars
  <2>2. /\ ip <= Len(code) /\ code[ip].kind # "spill" /\ TempGet(code[ip].temp, code[ip].size)
    BY <1>9 DEF RunOp, RunFill, Running, Instr
  <2>3. ip \in DOMAIN code /\ ip \in Nat
    BY <1>0, <1>3, <2>1, <2>2 DEF ExecInv
  <2>4. tab' = tab /\ code' = code /\ next_temp' = next_temp /\ budget' = budget /\ run' = run
    BY <2>1 DEF Advance, emitVars, planVars
  <2>5. AreasOK'
    <3>1. code[ip].temp \in Used /\ code[ip].size \in Nat /\ Used \subseteq Nat
      BY <1>1, <2>3
    <3> QED BY <1>0, <1>1, <2>1, <2>2, <2>4, <3>1, GetAreas
  <2>6. SteadyOK'
    BY <1>0, <1>1, <2>1, <2>2, <2>3, <2>4, <2>5, GetSteady
  <2> QED BY <1>0, <1>3, <2>1, <2>2, <2>3, <2>4, <2>5, <2>6 DEF ExecInv
<1>10. CASE RunSpill
  <2>1. phase = "run" /\ Advance /\ phase' = phase /\ ip' = ip + 1
    BY <1>10, RunsAdvance DEF Advance, planVars
  <2>2. /\ ip <= Len(code) /\ code[ip].kind = "spill" /\ temps' = temps /\ temp_bytes' = temp_bytes /\ pool_used' = pool_used
    BY <1>10 DEF RunSpill, Running, Instr
  <2>3. ip \in DOMAIN code /\ ip \in Nat
    BY <1>0, <1>3, <2>1, <2>2 DEF ExecInv
  <2>4. tab' = tab /\ code' = code /\ next_temp' = next_temp /\ budget' = budget /\ run' = run
    BY <2>1 DEF Advance, emitVars, planVars
  <2>5. ASSUME NEW t \in Temps, NEW j \in Asks(t), j < ip' PROVE t \in DOMAIN temps /\ code[j].size <= temp_bytes[t]
    <3>1. j # ip /\ j \in Nat
      BY <1>3, <2>2 DEF Asks
    <3>2. j < ip
      BY <2>1, <2>3, <2>5, <3>1
    <3> QED BY <1>0, <2>1, <3>2 DEF SteadyOK
  <2>6. AreasOK' /\ SteadyOK'
    <3>1. Base <= pool_used
      BY <1>0, <2>1 DEF AreasOK
    <3> QED BY <1>0, <2>1, <2>2, <2>4, <2>5, <3>1, KeptAreas
  <2> QED BY <1>0, <1>3, <2>1, <2>2, <2>3, <2>4, <2>6 DEF ExecInv
<1>11. CASE RunFails \/ RunDone
  <2>1. /\ phase = "run" /\ phase' \in {"ran", "error"} /\ budget' = budget /\ UNCHANGED emitVars /\ UNCHANGED execVars
    BY <1>11 DEF RunFails, RunDone
  <2>2. /\ tab' = tab /\ code' = code /\ next_temp' = next_temp /\ run' = run /\ ip' = ip /\ temps' = temps
        /\ temp_bytes' = temp_bytes /\ pool_used' = pool_used
    BY <2>1 DEF emitVars, execVars
  <2>3. AreasOK' /\ SteadyOK'
    BY <1>0, <2>1, <2>2, KeptAreas
  <2> QED BY <1>0, <2>1, <2>2, <2>3 DEF ExecInv
<1>12. CASE Shutdown
  <2>1. /\ phase \in {"ran", "error"} /\ pool_used' = 0 /\ temps' = <<>> /\ temp_bytes' = <<>>
        /\ UNCHANGED planVars /\ UNCHANGED emitVars /\ run' = run /\ ip' = ip
    BY <1>12 DEF Shutdown
  <2>2. phase' = phase /\ code' = code
    BY <2>1 DEF planVars, emitVars
  <2>3. AreasOK' /\ SteadyOK'
    BY <1>0, <1>2, <2>1, <2>2, NothingTaken
  <2> QED BY <1>0, <2>1, <2>2, <2>3 DEF ExecInv
<1>13. CASE UNCHANGED vars
  <2>1. UNCHANGED planVars /\ UNCHANGED emitVars /\ UNCHANGED execVars
    BY <1>13 DEF vars
  <2>2. /\ tab' = tab /\ code' = code /\ next_temp' = next_temp /\ run' = run /\ ip' = ip /\ temps' = temps
        /\ temp_bytes' = temp_bytes /\ pool_used' = pool_used /\ phase' = phase /\ budget' = budget /\ mem' = mem
    BY <2>1 DEF planVars, emitVars, execVars
  <2>3. AreasOK' /\ SteadyOK'
    <3>1. /\ phase' = "run" => Base <= pool_used
          /\ phase' = "run" => \A t \in Temps : \A j \in Asks(t) : j < ip' => t \in DOMAIN temps /\ code[j].size <= temp_bytes[t]
      BY <1>0, <2>2 DEF AreasOK, SteadyOK
    <3> QED BY <1>0, <2>2, <3>1, KeptAreas
  <2> QED BY <2>2, <2>3 DEF ExecInv
<1> QED BY <1>5, <1>6, <1>7, <1>8, <1>9, <1>10, <1>11, <1>12, <1>13 DEF Next

-----------------------------------------------------------------------------
\* The invariants of the emitter and of the executor hold in every state.
THEOREM EmitAndRun == Spec => [](PlanInv /\ EmitInv /\ ExecInv)
<1>1. Init => PlanInv /\ EmitInv /\ ExecInv
  BY PlanInvInit, EmitInvInit, ExecInvInit DEF Init
<1>2. PlanInv /\ EmitInv /\ ExecInv /\ [Next]_vars => (PlanInv /\ EmitInv /\ ExecInv)'
  BY PlanInvStep, EmitInvStep, ExecInvStep
<1> QED BY <1>1, <1>2, PTL DEF Spec

\* wtop_emit never gives up on an order that puts every producer first: release_at
\* leaves a temp to a tensor as long as a consumer is still to come.
THEOREM EmitsEverything == Spec => []EmitsAll
<1>1. EmitInv => EmitsAll
  BY DEF EmitInv, EmitsAll
<1> QED BY <1>1, EmitAndRun, PTL

\* Every variable keeps its type: fresh_temp never has more temps than tensors and
\* no temp is on the list of free ones twice.
THEOREM WtopTypeCorrect == Spec => []TypeOK
<1>1. ASSUME PlanInv, EmitInv, ExecInv PROVE TypeOK
  <2>1. phase \in {"order", "place", "planned", "reorder", "emit", "failed", "run", "ran", "error"}
    BY <1>1 DEF EmitInv, Early
  <2>2. DOMAIN plan \subseteq Ops /\ \A o \in DOMAIN plan : plan[o] \in Places
    BY <1>1 DEF PlanInv
  <2>3. /\ DOMAIN op_temp \subseteq Ops /\ free_temps \in Seq(Temps) /\ Distinct(free_temps)
        /\ DOMAIN tab \subseteq Temps
    <3>1. CASE phase \in Early
      BY <1>1, <3>1 DEF EmitInv, Distinct
    <3>2. CASE phase \notin Early
      <4>1. TempsOK /\ Used \subseteq Temps
        BY <1>1, <3>2, CodeTyped DEF EmitInv
      <4>2. Seq(Used) \subseteq Seq(Temps)
        BY <4>1
      <4> QED BY <4>1, <4>2 DEF TempsOK, Emitted
    <3> QED BY <3>1, <3>2
  <2>4. DOMAIN temps \subseteq Temps /\ \A t \in DOMAIN temps : temps[t] \in Addrs
    BY <1>1, CodeTyped DEF ExecInv, AreasOK
  <2>5. ip \in 0 .. Len(code) + 1 /\ run \in 0 .. MaxRuns
    BY <1>1 DEF ExecInv
  <2>6. Range(free_temps) \subseteq Temps
    BY <2>3 DEF Range
  <2>7. Cardinality(Range(free_temps)) = Len(free_temps)
    <3> DEFINE n == Len(free_temps)
    <3>0. n \in Nat /\ DOMAIN free_temps = 1 .. n
      BY <2>3
    <3> HIDE DEF n
    <3>1. IsFiniteSet(1 .. n) /\ Cardinality(1 .. n) = n
      <4>1. 1 \in Int /\ n \in Int /\ n \in Nat
        BY <3>0
      <4>2. Cardinality(1 .. n) = IF 1 > n THEN 0 ELSE n - 1 + 1
        BY <4>1, FS_Interval
      <4> QED BY <4>1, <4>2, FS_Interval
    <3>2. free_temps \in [1 .. n -> Range(free_temps)]
      BY <2>3, <3>0 DEF Range
    <3>3. free_temps \in Bijection(1 .. n, Range(free_temps))
      BY <2>3, <3>0, <3>2 DEF Bijection, Injection, Surjection, IsInjective, Distinct, Range
    <3>4. ExistsBijection(1 .. n, Range(free_temps))
      BY <3>3 DEF ExistsBijection
    <3> QED BY <3>1, <3>4, FS_Bijection DEF n
  <2> QED BY <2>1, <2>2, <2>3, <2>4, <2>5, <2>6, <2>7 DEF TypeOK
<1> QED BY <1>1, EmitAndRun, PTL

\* temp_get takes no more from the pool than the first run needs, however many
\* runs follow.
THEOREM PoolIsSteady == Spec => []PoolSteady
<1>1. ASSUME PlanInv, EmitInv, ExecInv PROVE PoolSteady
  <2>1. /\ code \in Seq(Instrs) /\ \A i \in DOMAIN code : code[i].size \in Nat
        /\ DOMAIN temps \subseteq Temps /\ SteadyOK /\ pool_used \in Nat /\ budget \in Nat \X Nat
    BY <1>1, CodeTyped DEF ExecInv, AreasOK, PlanInv
  <2> DEFINE f == [i \in DOMAIN code |-> IF Taken(i) THEN code[i].size ELSE 0]
             g == [i \in DOMAIN code |-> IF Takes(i) THEN code[i].size ELSE 0]
             L == Len(code)
  <2>2. L \in Nat /\ DOMAIN code = 1 .. L
    BY <2>1
  <2>3. \A i \in DOMAIN code : Taken(i) => Takes(i)
    BY <2>1 DEF Taken, Takes
  <2>4. \A i \in 1 .. L : f[i] \in Nat /\ g[i] \in Nat /\ f[i] <= g[i]
    BY <2>1, <2>2, <2>3
  <2>5. pool_used <= Base + SumTo(f, L) /\ Base \in Nat
    BY <2>1 DEF SteadyOK, Base, Cap
  <2> HIDE DEF f, g, L
  <2>6. SumTo(f, L) <= SumTo(g, L)
    <3>1. L + 1 \in 1 .. L + 1 /\ ~(L + 1 <= L)
      BY <2>2
    <3>2. \A i \in 1 .. L : f[i] \in Nat /\ g[i] \in Nat /\ f[i] + (IF i = L + 1 THEN 0 ELSE 0) <= g[i]
      BY <2>4
    <3>3. SumTo(f, L) + (IF L + 1 <= L THEN 0 ELSE 0) <= SumTo(g, L)
      BY <2>2, <3>1, <3>2, SumGrows
    <3>4. SumTo(f, L) \in Nat
      <4>1. L \in 0 .. L /\ \A i \in 1 .. L : f[i] \in Nat
        BY <2>2, <2>4
      <4>2. \A m \in 0 .. L : SumTo(f, m) \in Nat
        BY <2>2, <4>1, SumFacts
      <4> QED BY <4>1, <4>2
    <3> QED BY <3>1, <3>3, <3>4
  <2>7. SumTo(f, L) \in Nat /\ SumTo(g, L) \in Nat
    <3>1. L \in 0 .. L
      BY <2>2
    <3>2. (\A i \in 1 .. L : f[i] \in Nat) /\ (\A i \in 1 .. L : g[i] \in Nat)
      BY <2>4
    <3>3. \A m \in 0 .. L : SumTo(f, m) \in Nat
      BY <2>2, <3>2, SumFacts
    <3>4. \A m \in 0 .. L : SumTo(g, m) \in Nat
      BY <2>2, <3>2, SumFacts
    <3> QED BY <3>1, <3>3, <3>4
  <2>8. pool_used <= Base + SumTo(g, L)
    BY <2>1, <2>5, <2>6, <2>7
  <2> QED BY <2>8 DEF PoolSteady, Base, g, L
<1> QED BY <1>1, EmitAndRun, PTL

-----------------------------------------------------------------------------
\* The values.  Areas that do not meet have no byte in common.
LEMMA BytesApart ==
  ASSUME NEW a \in Addrs, NEW b \in Addrs, NEW m \in Nat, NEW n \in Nat,
         a[1] # b[1] \/ Disjoint(a[2], a[2] + m, b[2], b[2] + n)
  PROVE  Bytes(a, m) \cap Bytes(b, n) = {}
<1>1. a[2] \in Nat /\ b[2] \in Nat
  BY DEF Addrs
<1>2. ASSUME NEW i \in 0 .. m - 1, NEW j \in 0 .. n - 1, <<a[1], a[2] + i>> = <<b[1], b[2] + j>> PROVE FALSE
  <2>1. a[1] = b[1] /\ a[2] + i = b[2] + j
    BY <1>2
  <2> QED BY <1>1, <2>1 DEF Disjoint
<1> QED BY <1>2 DEF Bytes

LEMMA BytesPool ==
  ASSUME NEW a, NEW n, NEW b \in Bytes(a, n)
  PROVE  b[1] = a[1]
<1>1. PICK i \in 0 .. n - 1 : b = <<a[1], a[2] + i>>
  BY DEF Bytes
<1> QED BY <1>1

\* What is known of the op list while it is run.
LEMMA RunFacts ==
  ASSUME PlanInv, EmitInv, ExecInv, phase = "run"
  PROVE  /\ code \in Seq(Instrs) /\ DOMAIN code = 1 .. Len(code) /\ Len(code) \in Nat
         /\ ip \in Nat /\ 1 <= ip /\ ip <= Len(code) + 1
         /\ IsPerm(eorder) /\ IsPerm(order) /\ (Topological(order) => eorder = order)
         /\ TempsOK /\ CodeOK /\ AreasOK /\ pos = NOps
         /\ \A h \in OpsOf : /\ h \in DOMAIN code /\ h \in Nat /\ code[h].op \in Ops /\ code[h].temp \in Used
                             /\ code[h].size = size[code[h].op] /\ size[code[h].op] \in Nat
                             /\ Pos(eorder, code[h].op) \in Nat
         /\ \A h, g \in OpsOf : /\ h < g => Pos(eorder, code[h].op) < Pos(eorder, code[g].op)
                                /\ code[h].op = code[g].op => h = g
         /\ \A u \in DOMAIN temps : temps[u] \in Addrs /\ temps[u][1] # "spill"
         /\ \A u \in DOMAIN tab : tab[u] \in Places /\ tab[u].pool # "spill"
<1>1. /\ IsPerm(eorder) /\ IsPerm(order) /\ (Topological(order) => eorder = order)
      /\ TempsOK /\ CodeOK /\ AreasOK /\ pos = NOps /\ GraphOK
  BY DEF PlanInv, EmitInv, ExecInv, Early
<1>2. code \in Seq(Instrs) /\ DOMAIN code = 1 .. Len(code) /\ Len(code) \in Nat
  BY <1>1 DEF CodeOK
<1>3. ip \in Nat /\ 1 <= ip /\ ip <= Len(code) + 1
  BY <1>2 DEF ExecInv
<1>4. OpsOf \subseteq DOMAIN code /\ OpsOf \subseteq Nat
  BY <1>2 DEF OpsOf
<1>5. ASSUME NEW h \in OpsOf
      PROVE  /\ code[h].op \in Ops /\ code[h].temp \in Used
             /\ code[h].size = size[code[h].op] /\ size[code[h].op] \in Nat
             /\ Pos(eorder, code[h].op) \in 0 .. NOps - 1
  <2>1. code[h].op \in Emitted /\ code[h].size = size[code[h].op] /\ code[h].temp \in Used
    BY <1>1, <1>4 DEF CodeOK, OpsInOrder
  <2>2. code[h].op \in Ops
    BY <2>1 DEF Emitted
  <2> QED BY <1>1, <2>1, <2>2, PermFacts DEF GraphOK
<1>6. NOps \in Nat /\ \A h \in OpsOf : Pos(eorder, code[h].op) \in Nat
  BY <1>5, OpsFacts
<1>7. \A h, g \in OpsOf : h < g => Pos(eorder, code[h].op) < Pos(eorder, code[g].op)
  BY <1>1 DEF CodeOK, OpsInOrder
<1>8. ASSUME NEW h \in OpsOf, NEW g \in OpsOf, code[h].op = code[g].op PROVE h = g
  <2>1. ~(h < g) /\ ~(g < h)
    BY <1>6, <1>7, <1>8
  <2> QED BY <1>4, <2>1
<1>9. \A u \in DOMAIN tab : tab[u] \in Places /\ tab[u].pool # "spill"
  BY <1>1 DEF TempsOK
<1>10. ASSUME NEW u \in DOMAIN temps PROVE temps[u] \in Addrs /\ temps[u][1] # "spill"
  <2>1. CASE Static(u)
    BY <1>1, <1>9, <2>1 DEF AreasOK, Static
  <2>2. CASE ~Static(u)
    BY <1>1, <2>2 DEF AreasOK
  <2> QED BY <2>1, <2>2
<1> QED BY <1>1, <1>2, <1>3, <1>4, <1>5, <1>6, <1>7, <1>8, <1>9, <1>10

\* A spilled tensor's temp has no static place.
LEMMA SpilledIsDynamic ==
  ASSUME TableAgrees, NEW h \in OpsOf, code[h].op \in Spills
  PROVE  ~Static(code[h].temp)
BY DEF TableAgrees, HasPlace, Static

\* Who reads h's tensor at or behind operation g comes, in the order of emission,
\* not before g.
LEMMA NeedIsNeeded ==
  ASSUME PlanInv, EmitInv, ExecInv, phase = "run", NEW h \in OpsOf, NEW g \in OpsOf, NEW k \in Nat, g <= k,
         code[h].op = Out \/ \E j \in OpsOf : k <= j /\ code[h].op \in ins[code[j].op]
  PROVE  NeededBy(code[h].op, Pos(eorder, code[g].op))
<1>1. CASE code[h].op = Out
  BY <1>1 DEF NeededBy
<1>2. ASSUME NEW j \in OpsOf, k <= j, code[h].op \in ins[code[j].op]
      PROVE  NeededBy(code[h].op, Pos(eorder, code[g].op))
  <2>1. g \in Nat /\ j \in Nat /\ Pos(eorder, code[g].op) \in Nat /\ Pos(eorder, code[j].op) \in Nat
        /\ code[j].op \in Ops /\ (g < j => Pos(eorder, code[g].op) < Pos(eorder, code[j].op))
    BY RunFacts
  <2>2. g = j \/ g < j
    BY <1>2, <2>1
  <2>3. Pos(eorder, code[g].op) <= Pos(eorder, code[j].op)
    BY <2>1, <2>2
  <2> QED BY <1>2, <2>1, <2>3 DEF NeededBy, Consumers
<1> QED BY <1>1, <1>2

\* Of the tensors that are still needed no two have the same temp.
LEMMA OneTensor ==
  ASSUME PlanInv, EmitInv, ExecInv, phase = "run", NEW k \in Nat, NEW h \in OpsOf, NEW g \in OpsOf, h <= k, g <= k,
         code[h].temp = code[g].temp,
         h < k => code[h].op = Out \/ \E j \in OpsOf : k <= j /\ code[h].op \in ins[code[j].op],
         g < k => code[g].op = Out \/ \E j \in OpsOf : k <= j /\ code[g].op \in ins[code[j].op]
  PROVE  h = g
<1>1. h \in Nat /\ g \in Nat /\ Reuse
  BY RunFacts DEF CodeOK
<1>2. ~(h < g)
  <2> SUFFICES ASSUME h < g PROVE FALSE
    OBVIOUS
  <2>1. h < k
    BY <1>1
  <2>2. NeededBy(code[h].op, Pos(eorder, code[g].op))
    BY <2>1, NeedIsNeeded
  <2> QED BY <1>1, <2>2 DEF Reuse
<1>3. ~(g < h)
  <2> SUFFICES ASSUME g < h PROVE FALSE
    OBVIOUS
  <2>1. g < k
    BY <1>1
  <2>2. NeededBy(code[g].op, Pos(eorder, code[h].op))
    BY <2>1, NeedIsNeeded
  <2> QED BY <1>1, <2>2 DEF Reuse
<1> QED BY <1>1, <1>2, <1>3

\* With a plan, whose order was emitted, a tensor that is needed at operation g
\* or later, and is older than g, lives together with g's.
LEMMA LiveTogether ==
  ASSUME PlanInv, EmitInv, ExecInv, phase = "run", PlanMeant, Planned, NEW h \in OpsOf, NEW g \in OpsOf, h < g,
         code[h].op = Out \/ \E j \in OpsOf : g <= j /\ code[h].op \in ins[code[j].op]
  PROVE  Together(code[h].op, code[g].op)
<1>1. eorder = order /\ IsPerm(order)
  BY RunFacts DEF PlanMeant
<1>2. g \in Nat /\ code[h].op \in Ops /\ code[g].op \in Ops /\ Pos(order, code[h].op) < Pos(order, code[g].op)
  BY <1>1, RunFacts
<1>3. NeededBy(code[h].op, Pos(order, code[g].op))
  <2>1. g <= g
    BY <1>2
  <2> QED BY <1>1, <1>2, <2>1, NeedIsNeeded
<1> DEFINE x == code[h].op
           y == code[g].op
<1>4. Pos(order, x) \in 0 .. NOps - 1 /\ Pos(order, y) \in 0 .. NOps - 1 /\ NOps \in Nat
      /\ \A c \in Ops : Pos(order, c) \in 0 .. NOps - 1
  BY <1>1, <1>2, PermFacts, OpsFacts
<1>5. /\ LifeBegin(x) = Pos(order, x) /\ LifeBegin(y) = Pos(order, y)
      /\ LifeEnd(x) \in Nat /\ LifeEnd(y) \in Nat /\ LifeBegin(y) < LifeEnd(y)
      /\ \A c \in Consumers(x) : Pos(order, c) < LifeEnd(x)
  BY <1>1, <1>2, LifeFacts DEF LifeBegin
<1>6. LifeBegin(x) < LifeEnd(y)
  BY <1>2, <1>4, <1>5
<1>7. LifeBegin(y) < LifeEnd(x)
  <2>1. CASE x = Out
    BY <1>4, <1>5, <2>1 DEF LifeEnd
  <2>2. ASSUME NEW c \in Consumers(x), Pos(order, y) <= Pos(order, c) PROVE LifeBegin(y) < LifeEnd(x)
    <3>1. Pos(order, c) \in 0 .. NOps - 1 /\ Pos(order, c) < LifeEnd(x)
      BY <1>4, <1>5 DEF Consumers
    <3> QED BY <1>4, <1>5, <2>2, <3>1
  <2> QED BY <1>1, <1>3, <2>1, <2>2 DEF NeededBy
<1> QED BY <1>6, <1>7 DEF Together

\* What temp_get hands out for g's tensor has no byte in common with the area of
\* another tensor, unless both have static places and do not live together.
LEMMA WrittenApart ==
  ASSUME PlanInv, EmitInv, ExecInv, phase = "run", PlanMeant, NEW h \in OpsOf, NEW g \in OpsOf,
         NEW t, NEW u, NEW n, t = code[g].temp, u = code[h].temp, n = size[code[g].op], u # t,
         TempGet(t, n), tab' = tab, budget' = budget, next_temp' = next_temp,
         Covers(u, size[code[h].op]),
         Static(u) /\ Static(t) => Together(code[h].op, code[g].op)
  PROVE  Bytes(temps[u], size[code[h].op]) \cap Bytes(AddrOf(t, n), n) = {}
<1> DEFINE x == code[h].op
           y == code[g].op
           m == size[code[h].op]
<1>1. /\ x \in Ops /\ y \in Ops /\ m \in Nat /\ n \in Nat /\ x # y /\ t \in Used /\ u \in Used
      /\ \A v \in DOMAIN tab : tab[v] \in Places /\ tab[v].pool # "spill"
      /\ u \in DOMAIN temps /\ temps[u] \in Addrs /\ AreasOK
  BY RunFacts DEF Covers
<1>2. Used \subseteq Nat /\ budget \in Nat \X Nat
  <2>1. Used \subseteq Temps /\ Temps \subseteq Nat
    BY CodeTyped
  <2> QED BY <2>1 DEF PlanInv
<1>3. /\ AreasOK' /\ t \in DOMAIN temps' /\ temps'[t] = AddrOf(t, n) /\ (~Static(t) => n <= temp_bytes'[t])
      /\ u \in DOMAIN temps' /\ temps'[u] = temps[u] /\ temp_bytes'[u] = temp_bytes[u]
  BY <1>1, <1>2, GetAreas
<1>4. /\ \A v : Static(v)' = Static(v)
      /\ Base' = Base /\ Base \in Nat
  BY <1>2 DEF Static, Planned, Base, Cap
<1>5. /\ \A v \in DOMAIN temps' : temps'[v] \in Addrs /\ temp_bytes'[v] \in Nat
      /\ \A v \in DOMAIN temps' : Static(v) => temps'[v] = <<tab[v].pool, tab[v].off>>
      /\ \A v \in DOMAIN temps' : ~Static(v) =>
           temps'[v][1] = "ddr" /\ Base <= temps'[v][2] /\ temps'[v][2] + temp_bytes'[v] <= pool_used'
      /\ \A v, w \in DOMAIN temps' : v # w /\ ~Static(v) /\ ~Static(w) =>
           Disjoint(temps'[v][2], temps'[v][2] + temp_bytes'[v], temps'[w][2], temps'[w][2] + temp_bytes'[w])
  BY <1>3, <1>4 DEF AreasOK, Disjoint
<1>6. ASSUME NEW p \in OpsOf, Static(code[p].temp), code[p].temp \in DOMAIN temps'
      PROVE  /\ code[p].op \in DOMAIN plan /\ temps'[code[p].temp] = <<plan[code[p].op].pool, plan[code[p].op].off>>
             /\ plan[code[p].op].off \in Nat /\ size[code[p].op] \in Nat
             /\ plan[code[p].op].pool = "ddr" => plan[code[p].op].off + size[code[p].op] <= Base
  <2>1. code[p].temp \in DOMAIN tab /\ Planned
    BY <1>6 DEF Static
  <2>2. code[p].op \in DOMAIN plan /\ tab[code[p].temp] = plan[code[p].op] /\ plan[code[p].op].pool # "spill"
    BY <1>1, <2>1 DEF PlanMeant, TableAgrees, HasPlace, Spills
  <2>3. plan[code[p].op].off \in Nat /\ size[code[p].op] \in Nat
    BY <2>2, RunFacts DEF PlanInv, Places
  <2>4. plan[code[p].op].off + size[code[p].op] <= Limit(plan[code[p].op].pool)
    BY <2>2 DEF PlanInv
  <2> QED BY <1>5, <1>6, <2>1, <2>2, <2>3, <2>4 DEF Limit, Base, Cap
<1>7. \/ temps'[u][1] # temps'[t][1]
      \/ Disjoint(temps'[u][2], temps'[u][2] + m, temps'[t][2], temps'[t][2] + n)
  <2>1. CASE Static(u) /\ Static(t)
    <3>1. /\ x \in DOMAIN plan /\ temps'[u] = <<plan[x].pool, plan[x].off>>
          /\ y \in DOMAIN plan /\ temps'[t] = <<plan[y].pool, plan[y].off>>
      BY <1>3, <1>6, <2>1
    <3>2. Together(x, y) /\ NoLiveOverlap
      BY <2>1 DEF PlanInv
    <3>3. plan[x].pool = plan[y].pool => Apart(x, y)
      BY <1>1, <3>1, <3>2 DEF NoLiveOverlap
    <3> QED BY <3>1, <3>3 DEF Apart, Disjoint
  <2>2. CASE Static(u) /\ ~Static(t)
    <3>1. temps'[u] = <<plan[x].pool, plan[x].off>> /\ (plan[x].pool = "ddr" => plan[x].off + m <= Base)
          /\ plan[x].off \in Nat
      BY <1>3, <1>6, <2>2
    <3>2. temps'[t][1] = "ddr" /\ Base <= temps'[t][2] /\ temps'[t][2] \in Nat
      BY <1>3, <1>5, <2>2 DEF Addrs
    <3> QED BY <1>1, <1>4, <3>1, <3>2 DEF Disjoint
  <2>3. CASE ~Static(u) /\ Static(t)
    <3>1. temps'[t] = <<plan[y].pool, plan[y].off>> /\ (plan[y].pool = "ddr" => plan[y].off + n <= Base)
          /\ plan[y].off \in Nat
      BY <1>3, <1>6, <2>3
    <3>2. temps'[u][1] = "ddr" /\ Base <= temps'[u][2] /\ temps'[u][2] \in Nat
      BY <1>3, <1>5, <2>3 DEF Addrs
    <3> QED BY <1>1, <1>4, <3>1, <3>2 DEF Disjoint
  <2>4. CASE ~Static(u) /\ ~Static(t)
    <3>1. Disjoint(temps'[u][2], temps'[u][2] + temp_bytes'[u], temps'[t][2], temps'[t][2] + temp_bytes'[t])
      BY <1>3, <1>5, <2>4
    <3>2. m <= temp_bytes'[u] /\ n <= temp_bytes'[t]
      BY <1>3, <2>4 DEF Covers
    <3>3. temps'[u][2] \in Nat /\ temps'[t][2] \in Nat /\ temp_bytes'[u] \in Nat /\ temp_bytes'[t] \in Nat
      BY <1>3, <1>5 DEF Addrs
    <3> QED BY <1>1, <3>1, <3>2, <3>3 DEF Disjoint
  <2> QED BY <2>1, <2>2, <2>3, <2>4
<1>8. temps'[u] \in Addrs /\ temps'[t] \in Addrs
  BY <1>3, <1>5
<1>9. Bytes(temps'[u], m) \cap Bytes(temps'[t], n) = {}
  BY <1>1, <1>7, <1>8, BytesApart
<1> QED BY <1>3, <1>9

\* What a write to the area of g's tensor leaves alone, and what it leaves there.
LEMMA TempWritten ==
  ASSUME PlanInv, EmitInv, ExecInv, phase = "run", PlanMeant, NEW g \in OpsOf, NEW t, NEW n,
         t = code[g].temp, n = size[code[g].op], TempGet(t, n), UNCHANGED <<planVars, emitVars, run>>,
         DOMAIN mem' = DOMAIN mem \cup Bytes(AddrOf(t, n), n),
         \A b \in DOMAIN mem' : mem'[b] = IF b \in Bytes(AddrOf(t, n), n) THEN <<code[g].op, run>> ELSE mem[b],
         \A b \in DOMAIN mem : mem[b] # Garbage
  PROVE  /\ \A b \in DOMAIN mem' : mem'[b] # Garbage
         /\ \A o : o = code[g].op => InTemp(o, t)'
         /\ \A h \in OpsOf : \A o, u :
              /\ o = code[h].op /\ u = code[h].temp /\ u # t /\ InTemp(o, u)
              /\ Static(u) /\ Static(t) => Together(o, code[g].op)
              => InTemp(o, u)'
         /\ \A o, a : Holds(o, <<"spill", a>>) => Holds(o, <<"spill", a>>)'
<1>1. /\ tab' = tab /\ budget' = budget /\ next_temp' = next_temp /\ size' = size /\ run' = run
  BY DEF planVars, emitVars, graphVars
<1>2. /\ n \in Nat /\ t \in Used /\ code[g].op \in Ops
      /\ \A v \in DOMAIN tab : tab[v] \in Places /\ tab[v].pool # "spill"
      /\ AreasOK
  BY RunFacts
<1>3. Used \subseteq Nat /\ budget \in Nat \X Nat
  <2>1. Used \subseteq Temps /\ Temps \subseteq Nat
    BY CodeTyped
  <2> QED BY <2>1 DEF PlanInv
<1>4. /\ AreasOK' /\ t \in DOMAIN temps' /\ temps'[t] = AddrOf(t, n) /\ (~Static(t) => n <= temp_bytes'[t])
      /\ \A u \in DOMAIN temps : u \in DOMAIN temps' /\
           (u # t => temps'[u] = temps[u] /\ temp_bytes'[u] = temp_bytes[u])
  BY <1>1, <1>2, <1>3, GetAreas
<1>5. \A v : Static(v)' = Static(v)
  BY <1>1 DEF Static, Planned
<1>6. \A o, a : Holds(o, a)' <=> \A b \in Bytes(a, size[o]) : b \in DOMAIN mem' /\ mem'[b] = <<o, run>>
  BY <1>1 DEF Holds, Bytes
<1>7. DOMAIN mem' = DOMAIN mem \cup Bytes(AddrOf(t, n), n)
      /\ \A b \in DOMAIN mem' : mem'[b] = IF b \in Bytes(AddrOf(t, n), n) THEN <<code[g].op, run>> ELSE mem[b]
  OBVIOUS
<1>8. \A b \in DOMAIN mem' : mem'[b] # Garbage
  <2>1. <<code[g].op, run>> # Garbage
    BY <1>2, OpsFacts DEF Garbage, Ops
  <2> QED BY <1>7, <2>1
<1>9. ASSUME NEW o, o = code[g].op PROVE InTemp(o, t)'
  <2>1. \A b \in Bytes(temps'[t], size[o]) : b \in DOMAIN mem' /\ mem'[b] = <<o, run>>
    BY <1>4, <1>7, <1>9
  <2>2. Covers(t, size[o])'
    BY <1>1, <1>4, <1>5, <1>9 DEF Covers
  <2> QED BY <1>1, <2>1, <2>2 DEF InTemp, Holds, Bytes
<1>10. ASSUME NEW h \in OpsOf, NEW o, NEW u, o = code[h].op, u = code[h].temp, u # t, InTemp(o, u),
              Static(u) /\ Static(t) => Together(o, code[g].op)
       PROVE  InTemp(o, u)'
  <2>1. Covers(u, size[o]) /\ Holds(o, temps[u])
    BY <1>10 DEF InTemp
  <2>2. Bytes(temps[u], size[o]) \cap Bytes(AddrOf(t, n), n) = {}
    BY <1>1, <1>10, <2>1, WrittenApart
  <2>3. u \in DOMAIN temps' /\ temps'[u] = temps[u] /\ temp_bytes'[u] = temp_bytes[u]
    BY <1>4, <1>10, <2>1 DEF Covers
  <2>4. \A b \in Bytes(temps'[u], size[o]) : b \in DOMAIN mem' /\ mem'[b] = <<o, run>>
    BY <1>7, <2>1, <2>2, <2>3 DEF Holds
  <2>5. Covers(u, size[o])'
    BY <1>1, <1>5, <2>1, <2>3 DEF Covers
  <2> QED BY <1>1, <2>4, <2>5 DEF InTemp, Holds, Bytes
<1>11. ASSUME NEW o, NEW a, Holds(o, <<"spill", a>>) PROVE Holds(o, <<"spill", a>>)'
  <2>1. \A b \in Bytes(AddrOf(t, n), n) : b[1] # "spill"
    <3>1. AddrOf(t, n)[1] # "spill"
      <4>1. CASE Static(t)
        BY <1>2, <4>1 DEF AddrOf, Static
      <4>2. CASE ~Static(t)
        BY <1>4, <1>5, <4>2 DEF AreasOK
      <4> QED BY <4>1, <4>2
    <3> QED BY <3>1, BytesPool
  <2>2. \A b \in Bytes(<<"spill", a>>, size[o]) : b[1] = "spill"
    BY BytesPool
  <2>3. \A b \in Bytes(<<"spill", a>>, size[o]) : b \in DOMAIN mem' /\ mem'[b] = <<o, run>>
    BY <1>7, <1>11, <2>1, <2>2 DEF Holds
  <2> QED BY <1>6, <2>3
<1> QED BY <1>8, <1>9, <1>10, <1>11

\* What the three parts of the invariant come to behind the next instruction.
LEMMA Onwards ==
  ASSUME UNCHANGED <<planVars, emitVars, run>>, NEW k, k = ip, k \in DOMAIN code, ip' = k + 1, code \in Seq(Instrs),
         \A h \in OpsOf : \A o, u, a :
           /\ o = code[h].op /\ u = code[h].temp /\ a = SpillAt(o) /\ h <= k
           /\ o = Out \/ \E j \in OpsOf : k < j /\ o \in ins[code[j].op]
           => /\ o \notin Spills \/ o = Out => InTemp(o, u)'
              /\ o \in Spills /\ h < k => Holds(o, <<"spill", a>>)',
         \A o, u : k \in OpsOf /\ o = code[k].op /\ u = code[k].temp => InTemp(o, u)',
         \A i \in DOMAIN code : \A q \in Ops : \A u :
           i <= k /\ u = code[i].temp /\ OnlyFills(i, k + 1) /\ FillOf(i, q) => InTemp(q, u)'
  PROVE  HeldOK' /\ JustRun' /\ JustFilled'
<1>1. /\ tab' = tab /\ budget' = budget /\ size' = size /\ run' = run /\ code' = code /\ ins' = ins
      /\ plan' = plan /\ dma_runlist' = dma_runlist
  BY DEF planVars, emitVars, graphVars
<1>2. /\ OpsOf' = OpsOf /\ Spills' = Spills /\ \A v : Static(v)' = Static(v)
      /\ \A o : SpillAt(o)' = SpillAt(o)
      /\ \A i, j : OnlyFills(i, j)' = OnlyFills(i, j)
      /\ \A i, q : FillOf(i, q)' = FillOf(i, q)
  BY <1>1 DEF OpsOf, Spills, Static, Planned, SpillAt, OnlyFills, FillOf, IsOp, Moves
<1>3. DOMAIN code = 1 .. Len(code) /\ Len(code) \in Nat /\ k \in Nat /\ OpsOf \subseteq Nat /\ DOMAIN code \subseteq Nat
  <2>1. DOMAIN code = 1 .. Len(code) /\ Len(code) \in Nat
    OBVIOUS
  <2> QED BY <2>1 DEF OpsOf
<1> DEFINE After(o, u) == /\ u \in DOMAIN temps' /\ (~Static(u) => size[o] <= temp_bytes'[u])
                          /\ \A b \in Bytes(temps'[u], size[o]) : b \in DOMAIN mem' /\ mem'[b] = <<o, run>>
           InSpill(o, a) == \A b \in Bytes(<<"spill", a>>, size[o]) : b \in DOMAIN mem' /\ mem'[b] = <<o, run>>
<1>4. \A o, u : InTemp(o, u)' <=> After(o, u)
  BY <1>1, <1>2 DEF InTemp, Covers, Holds, Bytes
<1>5. \A o, a : Holds(o, <<"spill", a>>)' <=> InSpill(o, a)
  BY <1>1 DEF Holds, Bytes
<1>6. \A o : StillNeeded(o)' <=> o = Out \/ \E j \in OpsOf : k < j /\ o \in ins[code[j].op]
  <2>1. \A j \in OpsOf : k + 1 <= j <=> k < j
    BY <1>3
  <2> QED BY <1>1, <1>2, <2>1 DEF StillNeeded
<1>7. HeldOK'
  <2>1. \A h \in OpsOf : h < k + 1 <=> h <= k
    BY <1>3
  <2>2. \A h \in OpsOf : h + 1 < k + 1 <=> h < k
    BY <1>3
  <2>3. HeldOK' <=> \A h \in OpsOf : h <= k /\ StillNeeded(code[h].op)' =>
           /\ code[h].op \notin Spills \/ code[h].op = Out => After(code[h].op, code[h].temp)
           /\ code[h].op \in Spills /\ h < k => InSpill(code[h].op, SpillAt(code[h].op))
    BY <1>1, <1>2, <2>1, <2>2 DEF HeldOK, InTemp, Covers, Holds, Bytes
  <2>4. \A h \in OpsOf : StillNeeded(code[h].op)' =>
          (code[h].op = Out \/ \E j \in OpsOf : k < j /\ code[h].op \in ins[code[j].op])
    BY <1>1, <1>6 DEF StillNeeded
  <2> HIDE DEF After, InSpill
  <2> QED BY <1>4, <1>5, <2>3, <2>4
<1>8. JustRun'
  <2>1. (k + 1) - 1 = k
    BY <1>3
  <2>2. JustRun' <=> (k \in OpsOf => After(code[k].op, code[k].temp))
    BY <1>1, <1>2, <2>1 DEF JustRun, InTemp, Covers, Holds, Bytes
  <2> HIDE DEF After
  <2> QED BY <1>4, <2>2
<1>9. JustFilled'
  <2>1. \A i \in DOMAIN code : i < k + 1 <=> i <= k
    BY <1>3
  <2>2. JustFilled' <=> \A i \in DOMAIN code : i <= k /\ OnlyFills(i, k + 1) =>
          \A q \in Ops : FillOf(i, q) => After(q, code[i].temp)
    BY <1>1, <1>2, <2>1 DEF JustFilled, InTemp, Covers, Holds, Bytes, OnlyFills
  <2> HIDE DEF After
  <2> QED BY <1>4, <2>2
<1> QED BY <1>7, <1>8, <1>9

\* The values that an operation reads are where it looks for them.
LEMMA Sources ==
  ASSUME PlanInv, EmitInv, ExecInv, phase = "run", ip \in OpsOf,
         HeldOK, JustFilled, NEW s \in ins[code[ip].op]
  PROVE  \E h \in OpsOf : /\ h < ip /\ code[h].op = s /\ code[h].temp = code[ip].from[s]
                          /\ InTemp(s, code[h].temp) /\ code[h].temp # code[ip].temp
<1>1. /\ CodeOK /\ OpsOf \subseteq DOMAIN code /\ DOMAIN code \subseteq Nat
      /\ \A g \in OpsOf : code[g].op \in Ops
  <2>1. CodeOK /\ DOMAIN code = 1 .. Len(code) /\ Len(code) \in Nat /\ \A g \in OpsOf : code[g].op \in Ops
    BY RunFacts
  <2> QED BY <2>1 DEF OpsOf
<1>2. PICK h \in DOMAIN code : h < ip /\ IsOp(h, s) /\ code[h].temp = code[ip].from[s]
  BY <1>1 DEF CodeOK, SourcesOK
<1>3. h \in OpsOf /\ code[h].op = s /\ h \in Nat /\ ip \in Nat /\ s \in Ops
  BY <1>1, <1>2 DEF IsOp, OpsOf
<1>4. ip <= ip /\ h <= ip
  BY <1>2, <1>3
<1>5. StillNeeded(s)
  BY <1>3, <1>4 DEF StillNeeded
<1>6. code[h].temp # code[ip].temp
  <2> SUFFICES ASSUME code[h].temp = code[ip].temp PROVE FALSE
    OBVIOUS
  <2>1. ~(ip < ip) /\ h # ip
    BY <1>2, <1>3
  <2>2. \E j \in OpsOf : ip <= j /\ code[h].op \in ins[code[j].op]
    BY <1>3, <1>4
  <2>3. h = ip
    BY <1>3, <1>4, <2>1, <2>2, OneTensor
  <2> QED BY <2>1, <2>3
<1>7. InTemp(s, code[h].temp)
  <2>1. CASE s \notin Spills
    BY <1>2, <1>3, <1>5, <2>1 DEF HeldOK
  <2>2. CASE s \in Spills
    <3>1. PICK i \in DOMAIN code : i < ip /\ code[i] = Moves("fill", s, code[ip].from[s]) /\ OnlyFills(i, ip)
      BY <1>1, <2>2 DEF CodeOK, FillsOK
    <3>2. code[i].temp = code[h].temp /\ code[i].kind = "fill" /\ code[i] = Moves("fill", s, code[i].temp) /\ i \in Nat
      BY <1>1, <1>2, <3>1 DEF Moves
    <3>3. h < i
      <4>1. ~(h \in i .. ip - 1)
        <5> SUFFICES ASSUME h \in i .. ip - 1 PROVE FALSE
          OBVIOUS
        <5>1. code[h].kind = "fill"
          BY <3>1 DEF OnlyFills
        <5> QED BY <1>3, <5>1 DEF OpsOf
      <4> QED BY <1>2, <1>3, <3>2, <4>1
    <3>4. h + 1 < i
      <4>1. code[h + 1] = Moves("spill", s, code[h].temp)
        BY <1>1, <1>3, <2>2 DEF CodeOK, SpillsOK
      <4>2. code[h + 1].kind = "spill"
        BY <4>1 DEF Moves
      <4>3. h + 1 # i
        BY <3>2, <4>2
      <4> QED BY <1>3, <3>2, <3>3, <4>3
    <3>5. FillOf(i, s)
      BY <1>2, <2>2, <3>1, <3>2, <3>4 DEF FillOf
    <3>6. InTemp(s, code[i].temp)
      BY <1>3, <3>1, <3>5 DEF JustFilled
    <3> QED BY <3>2, <3>6
  <2> QED BY <2>1, <2>2
<1> QED BY <1>2, <1>3, <1>6, <1>7

LEMMA RunOpValues ==
  ASSUME PlanInv, EmitInv, ExecInv, phase = "run", PlanMeant, HeldOK, JustRun, JustFilled,
         \A b \in DOMAIN mem : mem[b] # Garbage, RunOp
  PROVE  (\A b \in DOMAIN mem' : mem'[b] # Garbage) /\ HeldOK' /\ JustRun' /\ JustFilled'
<1>1. PICK k : k = ip
  OBVIOUS
<1>2. /\ k \in DOMAIN code /\ code[k].kind = "op" /\ TempGet(code[k].temp, code[k].size)
      /\ UNCHANGED <<planVars, emitVars, run>> /\ ip' = k + 1
  <2>1. ip <= Len(code) /\ ip \in Nat /\ 1 <= ip /\ DOMAIN code = 1 .. Len(code) /\ Len(code) \in Nat
    BY RunFacts DEF RunOp, Running
  <2>2. ip \in DOMAIN code
    BY <2>1
  <2> QED BY <1>1, <2>2 DEF RunOp, Running, Instr, Advance
<1>3. /\ k \in OpsOf /\ k \in Nat /\ CodeOK /\ code \in Seq(Instrs) /\ DOMAIN code \subseteq Nat
      /\ OpsOf \subseteq Nat
  <2>1. k \in OpsOf /\ DOMAIN code = 1 .. Len(code) /\ Len(code) \in Nat /\ CodeOK /\ code \in Seq(Instrs)
    BY <1>2, RunFacts DEF OpsOf
  <2> QED BY <2>1 DEF OpsOf
<1>4. PICK x, t, n : x = code[k].op /\ t = code[k].temp /\ n = code[k].size
  OBVIOUS
<1>5. n = size[x] /\ x \in Ops /\ TempGet(t, n)
  BY <1>2, <1>3, <1>4, RunFacts
<1>6. /\ tab' = tab /\ budget' = budget /\ next_temp' = next_temp
  BY <1>2 DEF planVars, emitVars
<1>7. ReadsRight(AddrOf(t, n))
  <2> SUFFICES ASSUME NEW s \in DOMAIN code[k].from
               PROVE  /\ Holds(s, temps[code[k].from[s]])
                      /\ Bytes(temps[code[k].from[s]], size[s]) \cap Bytes(AddrOf(t, n), n) = {}
    BY <1>1, <1>4 DEF ReadsRight, Instr
  <2>1. s \in ins[code[k].op]
    BY <1>3 DEF CodeOK, SourcesOK
  <2>2. PICK h \in OpsOf : /\ h < k /\ code[h].op = s /\ code[h].temp = code[k].from[s]
                           /\ InTemp(s, code[h].temp) /\ code[h].temp # code[k].temp
    <3>1. ip \in OpsOf /\ s \in ins[code[ip].op]
      BY <1>1, <1>3, <2>1
    <3>2. \E h \in OpsOf : /\ h < ip /\ code[h].op = s /\ code[h].temp = code[ip].from[s]
                           /\ InTemp(s, code[h].temp) /\ code[h].temp # code[ip].temp
      BY <3>1, Sources
    <3> QED BY <1>1, <3>2
  <2>3. k <= k
    BY <1>3
  <2>4. Static(code[h].temp) /\ Static(t) => Together(code[h].op, code[k].op)
    BY <1>3, <2>1, <2>2, <2>3, LiveTogether DEF Static
  <2>5. Covers(code[h].temp, size[code[h].op]) /\ Holds(s, temps[code[h].temp])
    BY <2>2 DEF InTemp
  <2>6. Bytes(temps[code[h].temp], size[code[h].op]) \cap Bytes(AddrOf(t, n), n) = {}
    <3> PICK u : u = code[h].temp
      OBVIOUS
    <3> QED BY <1>3, <1>4, <1>5, <1>6, <2>2, <2>4, <2>5, WrittenApart
  <2> QED BY <2>2, <2>5, <2>6
<1>8. DOMAIN mem' = DOMAIN mem \cup Bytes(AddrOf(t, n), n)
      /\ \A b \in DOMAIN mem' : mem'[b] = IF b \in Bytes(AddrOf(t, n), n) THEN <<code[k].op, run>> ELSE mem[b]
  <2>1. Write([b \in Bytes(AddrOf(t, n), n) |-> IF ReadsRight(AddrOf(t, n)) THEN <<x, run>> ELSE Garbage])
    BY <1>1, <1>4 DEF RunOp, Instr
  <2>2. Write([b \in Bytes(AddrOf(t, n), n) |-> <<x, run>>])
    BY <1>7, <2>1
  <2> QED BY <1>4, <2>2 DEF Write
<1>9. /\ \A b \in DOMAIN mem' : mem'[b] # Garbage
      /\ \A o : o = code[k].op => InTemp(o, t)'
      /\ \A h \in OpsOf : \A o, u :
           /\ o = code[h].op /\ u = code[h].temp /\ u # t /\ InTemp(o, u)
           /\ Static(u) /\ Static(t) => Together(o, code[k].op)
           => InTemp(o, u)'
      /\ \A o, a : Holds(o, <<"spill", a>>) => Holds(o, <<"spill", a>>)'
  BY <1>2, <1>3, <1>4, <1>5, <1>8, TempWritten
<1>10. ASSUME NEW h \in OpsOf, NEW o, NEW u, NEW a, o = code[h].op, u = code[h].temp, a = SpillAt(o), h <= k,
              o = Out \/ \E j \in OpsOf : k < j /\ o \in ins[code[j].op]
       PROVE  /\ o \notin Spills \/ o = Out => InTemp(o, u)'
              /\ o \in Spills /\ h < k => Holds(o, <<"spill", a>>)'
  <2>1. CASE h = k
    BY <1>3, <1>4, <1>9, <1>10, <2>1
  <2>2. CASE h # k
    <3>1. h < k /\ h \in Nat
      BY <1>3, <1>10, <2>2
    <3>2. \A j \in OpsOf : k < j => k <= j
      BY <1>3
    <3>3. o = Out \/ \E j \in OpsOf : k <= j /\ o \in ins[code[j].op]
      BY <1>10, <3>2
    <3>4. StillNeeded(o)
      BY <1>1, <3>3 DEF StillNeeded
    <3>5. u # t
      <4> SUFFICES ASSUME u = t PROVE FALSE
        OBVIOUS
      <4>1. k <= k /\ ~(k < k) /\ h <= k
        BY <1>3, <3>1
      <4>2. h = k
        BY <1>3, <1>4, <1>10, <3>3, <4>1, OneTensor
      <4> QED BY <2>2, <4>2
    <3>6. Static(u) /\ Static(t) => Together(o, code[k].op)
      BY <1>3, <1>10, <3>1, <3>3, LiveTogether DEF Static
    <3>7. ASSUME o \notin Spills \/ o = Out PROVE InTemp(o, u)'
      <4>1. InTemp(o, u)
        BY <1>1, <1>10, <3>1, <3>4, <3>7 DEF HeldOK
      <4> QED BY <1>9, <1>10, <3>5, <3>6, <4>1
    <3>8. ASSUME o \in Spills PROVE Holds(o, <<"spill", a>>)'
      <4>1. code[h + 1] = Moves("spill", o, u)
        BY <1>3, <1>10, <3>8 DEF CodeOK, SpillsOK
      <4>2. code[h + 1].kind = "spill"
        BY <4>1 DEF Moves
      <4>3. h + 1 # k
        BY <1>2, <4>2
      <4>4. h + 1 < k
        BY <1>3, <3>1, <4>3
      <4>5. Holds(o, <<"spill", a>>)
        BY <1>1, <1>10, <3>1, <3>4, <3>8, <4>4 DEF HeldOK
      <4> QED BY <1>9, <4>5
    <3> QED BY <3>7, <3>8
  <2> QED BY <2>1, <2>2
<1>11. ASSUME NEW i \in DOMAIN code, i <= k PROVE ~OnlyFills(i, k + 1)
  <2>1. k \in i .. (k + 1) - 1
    BY <1>3, <1>11
  <2> QED BY <1>2, <2>1 DEF OnlyFills
<1>12. HeldOK' /\ JustRun' /\ JustFilled'
  BY <1>1, <1>2, <1>3, <1>4, <1>9, <1>10, <1>11, Onwards
<1> QED BY <1>9, <1>12

\* A copy of an area that holds a tensor holds it too.
LEMMA Copied ==
  ASSUME NEW o, NEW a \in Addrs, NEW c \in Addrs, NEW n \in Nat, n = size[o], Holds(o, a), Copy(a, c, n)
  PROVE  /\ DOMAIN mem' = DOMAIN mem \cup Bytes(c, n)
         /\ \A b \in DOMAIN mem' : mem'[b] = IF b \in Bytes(c, n) THEN <<o, run>> ELSE mem[b]
<1> DEFINE S(b) == <<a[1], a[2] + (b[2] - c[2])>>
           f == [b \in Bytes(c, n) |-> IF S(b) \in DOMAIN mem THEN mem[S(b)] ELSE Garbage]
<1>0. a[2] \in Nat /\ c[2] \in Nat
  BY DEF Addrs
<1>1. ASSUME NEW b \in Bytes(c, n) PROVE S(b) \in DOMAIN mem /\ mem[S(b)] = <<o, run>>
  <2>1. PICK i \in 0 .. n - 1 : b = <<c[1], c[2] + i>>
    BY DEF Bytes
  <2>2. b[2] = c[2] + i
    BY <2>1
  <2>3. a[2] + (b[2] - c[2]) = a[2] + i
    BY <1>0, <2>2
  <2>4. S(b) = <<a[1], a[2] + i>>
    BY <2>3
  <2>5. S(b) \in Bytes(a, n)
    BY <2>4 DEF Bytes
  <2> QED BY <2>5 DEF Holds
<1>2. Write(f)
  BY DEF Copy
<1>3. DOMAIN f = Bytes(c, n) /\ \A b \in DOMAIN f : f[b] = <<o, run>>
  BY <1>1
<1> HIDE DEF f, S
<1> QED BY <1>2, <1>3 DEF Write

LEMMA RunSpillValues ==
  ASSUME PlanInv, EmitInv, ExecInv, phase = "run", PlanMeant, HeldOK, JustRun, JustFilled,
         \A b \in DOMAIN mem : mem[b] # Garbage, RunSpill
  PROVE  (\A b \in DOMAIN mem' : mem'[b] # Garbage) /\ HeldOK' /\ JustRun' /\ JustFilled'
<1>1. PICK k : k = ip
  OBVIOUS
<1>2. /\ k \in DOMAIN code /\ code[k].kind = "spill" /\ ip' = k + 1
      /\ Copy(temps[code[k].temp], <<"spill", code[k].off>>, code[k].size)
      /\ UNCHANGED <<planVars, emitVars, run>> /\ UNCHANGED <<temps, temp_bytes, pool_used>>
  <2>1. ip <= Len(code) /\ ip \in Nat /\ 1 <= ip /\ DOMAIN code = 1 .. Len(code) /\ Len(code) \in Nat
    BY RunFacts DEF RunSpill, Running
  <2>2. ip \in DOMAIN code
    BY <2>1
  <2> QED BY <1>1, <2>2 DEF RunSpill, Running, Instr, Advance
<1>3. k \in Nat /\ CodeOK /\ code \in Seq(Instrs) /\ DOMAIN code \subseteq Nat /\ OpsOf \subseteq Nat /\ k \notin OpsOf
  <2>1. DOMAIN code = 1 .. Len(code) /\ Len(code) \in Nat /\ CodeOK /\ code \in Seq(Instrs)
    BY RunFacts
  <2> QED BY <1>2, <2>1 DEF OpsOf
<1>4. PICK g : g = k - 1
  OBVIOUS
<1>5. /\ g \in OpsOf /\ code[g].op \in Spills /\ code[k] = Moves("spill", code[g].op, code[g].temp)
      /\ g + 1 = k
  BY <1>2, <1>3, <1>4 DEF CodeOK, SpillsOK
<1>6. PICK p, t, n, e : p = code[g].op /\ t = code[g].temp /\ n = size[p] /\ e = SpillAt(p)
  OBVIOUS
<1>7. p \in Ops /\ n \in Nat /\ e \in Nat /\ p \in Spills /\ p \in DOMAIN plan
  <2>1. p \in Ops /\ n \in Nat /\ p \in Spills /\ p \in DOMAIN plan
    BY <1>5, <1>6, RunFacts DEF Spills
  <2>2. plan[p].off \in Nat
    BY <2>1 DEF PlanInv, Places
  <2> QED BY <1>6, <2>1, <2>2 DEF SpillAt
<1>8. code[k].temp = t /\ code[k].off = e /\ code[k].size = n
  BY <1>5, <1>6 DEF Moves
<1>9. InTemp(p, t)
  BY <1>1, <1>4, <1>5, <1>6 DEF JustRun
<1>10. /\ tab' = tab /\ budget' = budget /\ size' = size /\ run' = run /\ temps' = temps /\ temp_bytes' = temp_bytes
  BY <1>2 DEF planVars, emitVars, graphVars
<1>11. /\ DOMAIN mem' = DOMAIN mem \cup Bytes(<<"spill", e>>, n)
       /\ \A b \in DOMAIN mem' : mem'[b] = IF b \in Bytes(<<"spill", e>>, n) THEN <<p, run>> ELSE mem[b]
  <2>1. Holds(p, temps[t]) /\ t \in DOMAIN temps
    BY <1>9 DEF InTemp, Covers
  <2>2. temps[t] \in Addrs
    BY <2>1, RunFacts
  <2>3. PICK c \in Addrs : c = <<"spill", e>>
    BY <1>7 DEF Addrs
  <2>4. Copy(temps[t], c, n)
    BY <1>2, <1>8, <2>3
  <2>5. /\ DOMAIN mem' = DOMAIN mem \cup Bytes(c, n)
        /\ \A b \in DOMAIN mem' : mem'[b] = IF b \in Bytes(c, n) THEN <<p, run>> ELSE mem[b]
    BY <1>6, <1>7, <2>1, <2>2, <2>4, Copied
  <2> QED BY <2>3, <2>5
<1>12. \A b \in DOMAIN mem' : mem'[b] # Garbage
  <2>1. <<p, run>> # Garbage
    BY <1>7, OpsFacts DEF Garbage, Ops
  <2> QED BY <1>11, <2>1
<1>13. ASSUME NEW o, NEW u, InTemp(o, u) PROVE InTemp(o, u)'
  <2>1. u \in DOMAIN temps /\ temps[u][1] # "spill" /\ Holds(o, temps[u]) /\ Covers(u, size[o])
    BY <1>13, RunFacts DEF InTemp, Covers
  <2>2. \A b \in Bytes(temps[u], size[o]) : b[1] # "spill"
    BY <2>1, BytesPool
  <2>3. \A b \in Bytes(<<"spill", e>>, n) : b[1] = "spill"
    BY BytesPool
  <2>4. \A b \in Bytes(temps[u], size[o]) : b \in DOMAIN mem' /\ mem'[b] = <<o, run>>
    BY <1>11, <2>1, <2>2, <2>3 DEF Holds
  <2>5. Covers(u, size[o])'
    BY <1>10, <2>1 DEF Covers, Static, Planned
  <2> QED BY <1>10, <2>4, <2>5 DEF InTemp, Holds, Bytes
<1>14. ASSUME NEW h \in OpsOf, NEW o, NEW u, NEW a, o = code[h].op, u = code[h].temp, a = SpillAt(o), h <= k,
              o = Out \/ \E j \in OpsOf : k < j /\ o \in ins[code[j].op]
       PROVE  /\ o \notin Spills \/ o = Out => InTemp(o, u)'
              /\ o \in Spills /\ h < k => Holds(o, <<"spill", a>>)'
  <2>1. h < k /\ h \in Nat
    BY <1>3, <1>14
  <2>2. StillNeeded(o)
    <3>1. \A j \in OpsOf : k < j => k <= j
      BY <1>3
    <3> QED BY <1>1, <1>14, <3>1 DEF StillNeeded
  <2>3. ASSUME o \notin Spills \/ o = Out PROVE InTemp(o, u)'
    <3>1. InTemp(o, u)
      BY <1>1, <1>14, <2>1, <2>2, <2>3 DEF HeldOK
    <3> QED BY <1>13, <3>1
  <2>4. ASSUME o \in Spills PROVE Holds(o, <<"spill", a>>)'
    <3>1. \A b \in Bytes(<<"spill", a>>, size[o]) : b \in DOMAIN mem' /\ mem'[b] = <<o, run>>
      <4>1. CASE h = g
        <5>1. o = p /\ a = e
          BY <1>6, <1>14, <4>1
        <5> QED BY <1>6, <1>11, <5>1
      <4>2. CASE h # g
        <5>1. h + 1 < k
          BY <1>3, <1>5, <2>1, <4>2
        <5>2. Holds(o, <<"spill", a>>)
          BY <1>1, <1>14, <2>1, <2>2, <2>4, <5>1 DEF HeldOK
        <5>3. o # p /\ o \in Ops /\ size[o] \in Nat
          BY <1>5, <1>6, <1>14, <4>2, RunFacts
        <5>4. ~dma_runlist
          <6> SUFFICES ASSUME dma_runlist PROVE FALSE
            OBVIOUS
          <6>1. {o, p} \subseteq Spills /\ Cardinality({o, p}) = 2
            <7>1. IsFiniteSet({p}) /\ Cardinality({p}) = 1
              BY FS_Singleton
            <7>2. Cardinality({p} \cup {o}) = 1 + 1
              BY <5>3, <7>1, FS_AddElement
            <7>3. {p} \cup {o} = {o, p}
              OBVIOUS
            <7> QED BY <1>7, <2>4, <7>2, <7>3
          <6>2. IsFiniteSet(Spills)
            <7>1. Spills \subseteq Ops
              BY DEF Spills, PlanInv
            <7> QED BY <7>1, OpsFacts, FS_Subset
          <6>3. Cardinality({o, p}) <= Cardinality(Spills) /\ Cardinality(Spills) \in Nat
            BY <6>1, <6>2, FS_Subset, FS_CardinalityType
          <6> QED BY <6>1, <6>3 DEF PlanMeant
        <5>5. a = plan[o].off /\ e = plan[p].off /\ o \in DOMAIN plan /\ plan[o].pool = "spill" /\ plan[p].pool = "spill"
          BY <1>6, <1>7, <1>14, <2>4, <5>4 DEF SpillAt, Spills
        <5>6. Apart(o, p) /\ a \in Nat
          BY <1>7, <5>3, <5>5 DEF PlanInv, NoLiveOverlap, Together, Places
        <5>7. Disjoint(a, a + size[o], e, e + n)
          BY <1>6, <5>5, <5>6 DEF Apart, Disjoint
        <5>8. <<"spill", a>> \in Addrs /\ <<"spill", e>> \in Addrs /\ <<"spill", a>>[2] = a /\ <<"spill", e>>[2] = e
          BY <1>7, <5>6 DEF Addrs
        <5>9. Bytes(<<"spill", a>>, size[o]) \cap Bytes(<<"spill", e>>, n) = {}
          BY <1>7, <5>3, <5>7, <5>8, BytesApart
        <5> QED BY <1>11, <5>2, <5>9 DEF Holds
      <4> QED BY <4>1, <4>2
    <3> QED BY <1>10, <3>1 DEF Holds, Bytes
  <2> QED BY <2>3, <2>4
<1>15. ASSUME NEW i \in DOMAIN code, i <= k PROVE ~OnlyFills(i, k + 1)
  <2>1. k \in i .. (k + 1) - 1
    BY <1>3, <1>15
  <2> QED BY <1>2, <2>1 DEF OnlyFills
<1>16. HeldOK' /\ JustRun' /\ JustFilled'
  BY <1>1, <1>2, <1>3, <1>14, <1>15, Onwards
<1> QED BY <1>12, <1>16

\* A fill finds in the spill area what it is to bring back.
LEMMA FillSource ==
  ASSUME PlanInv, EmitInv, ExecInv, phase = "run", HeldOK, NEW q \in Ops, FillOf(ip, q), ip \in DOMAIN code
  PROVE  \E g \in OpsOf : /\ g + 1 < ip /\ code[g].op = q /\ code[g].temp = code[ip].temp
                          /\ code[ip].off = SpillAt(q) /\ code[ip].size = size[q]
                          /\ Holds(q, <<"spill", SpillAt(q)>>) /\ q \in Spills
                          /\ \E j \in OpsOf : ip < j /\ q \in ins[code[j].op]
<1>1. ip \in Nat /\ OpsOf \subseteq Nat
  <2>1. DOMAIN code = 1 .. Len(code) /\ Len(code) \in Nat
    BY RunFacts
  <2> QED BY <2>1 DEF OpsOf
<1>2. PICK g \in DOMAIN code : g + 1 < ip /\ IsOp(g, q) /\ code[g].temp = code[ip].temp
  BY DEF FillOf
<1>3. g \in OpsOf /\ code[g].op = q
  BY <1>2 DEF IsOp, OpsOf
<1>4. PICK j \in OpsOf : ip < j /\ q \in ins[code[j].op]
  BY DEF FillOf
<1>5. StillNeeded(q)
  BY <1>1, <1>4 DEF StillNeeded
<1>6. code[ip].off = SpillAt(q) /\ code[ip].size = size[q] /\ q \in Spills
  BY DEF FillOf, Moves
<1>7. g < ip
  <2>1. g \in Nat
    BY <1>1, <1>3
  <2> QED BY <1>1, <1>2, <2>1
<1>8. Holds(q, <<"spill", SpillAt(q)>>)
  BY <1>2, <1>3, <1>5, <1>6, <1>7 DEF HeldOK
<1> QED BY <1>2, <1>3, <1>4, <1>6, <1>8

LEMMA RunFillValues ==
  ASSUME PlanInv, EmitInv, ExecInv, phase = "run", PlanMeant, HeldOK, JustRun, JustFilled,
         \A b \in DOMAIN mem : mem[b] # Garbage, RunFill
  PROVE  (\A b \in DOMAIN mem' : mem'[b] # Garbage) /\ HeldOK' /\ JustRun' /\ JustFilled'
<1>1. PICK k : k = ip
  OBVIOUS
<1>2. /\ k \in DOMAIN code /\ code[k].kind = "fill" /\ TempGet(code[k].temp, code[k].size)
      /\ Copy(<<"spill", code[k].off>>, AddrOf(code[k].temp, code[k].size), code[k].size)
      /\ UNCHANGED <<planVars, emitVars, run>> /\ ip' = k + 1
  <2>1. ip <= Len(code) /\ ip \in Nat /\ 1 <= ip /\ DOMAIN code = 1 .. Len(code) /\ Len(code) \in Nat
    BY RunFacts DEF RunFill, Running
  <2>2. ip \in DOMAIN code
    BY <2>1
  <2> QED BY <1>1, <2>2 DEF RunFill, Running, Instr, Advance
<1>3. k \in Nat /\ CodeOK /\ code \in Seq(Instrs) /\ DOMAIN code \subseteq Nat /\ OpsOf \subseteq Nat /\ k \notin OpsOf
  <2>1. DOMAIN code = 1 .. Len(code) /\ Len(code) \in Nat /\ CodeOK /\ code \in Seq(Instrs)
    BY RunFacts
  <2> QED BY <1>2, <2>1 DEF OpsOf
<1>4. PICK t, n : t = code[k].temp /\ n = code[k].size
  OBVIOUS
<1>5. ASSUME NEW q \in Ops, FillOf(k, q)
      PROVE  /\ \A b \in DOMAIN mem' : mem'[b] # Garbage
             /\ InTemp(q, t)'
             /\ \A h \in OpsOf : \A o, u : o = code[h].op /\ u = code[h].temp /\ u # t /\ InTemp(o, u) => InTemp(o, u)'
             /\ \A o, a : Holds(o, <<"spill", a>>) => Holds(o, <<"spill", a>>)'
             /\ \A h \in OpsOf : h < k /\ code[h].temp = t
                  /\ (code[h].op = Out \/ \E j \in OpsOf : k <= j /\ code[h].op \in ins[code[j].op]) => code[h].op = q
  <2>1. FillOf(ip, q) /\ ip \in DOMAIN code
    BY <1>1, <1>2, <1>5
  <2>2. \E g \in OpsOf : /\ g + 1 < ip /\ code[g].op = q /\ code[g].temp = code[ip].temp
                         /\ code[ip].off = SpillAt(q) /\ code[ip].size = size[q]
                         /\ Holds(q, <<"spill", SpillAt(q)>>) /\ q \in Spills
                         /\ \E j \in OpsOf : ip < j /\ q \in ins[code[j].op]
    BY <2>1, FillSource
  <2>3. PICK g \in OpsOf : /\ g + 1 < k /\ code[g].op = q /\ code[g].temp = t
                           /\ code[k].off = SpillAt(q) /\ n = size[q]
                           /\ Holds(q, <<"spill", SpillAt(q)>>) /\ q \in Spills
                           /\ \E j \in OpsOf : k < j /\ q \in ins[code[j].op]
    BY <1>1, <1>4, <2>2
  <2>4. TempGet(t, n) /\ n \in Nat /\ SpillAt(q) \in Nat /\ t \in Used
    <3>1. plan[q].off \in Nat
      BY <2>3 DEF PlanInv, Places, Spills
    <3> QED BY <1>2, <1>4, <2>3, <3>1, RunFacts DEF SpillAt
  <2>5. AddrOf(t, n) \in Addrs
    <3>1. /\ tab' = tab /\ budget' = budget /\ next_temp' = next_temp
      BY <1>2 DEF planVars, emitVars
    <3>2. Used \subseteq Nat /\ budget \in Nat \X Nat /\ AreasOK /\ \A v \in DOMAIN tab : tab[v] \in Places
      <4>1. Used \subseteq Temps /\ Temps \subseteq Nat
        BY CodeTyped
      <4> QED BY <4>1, RunFacts DEF PlanInv
    <3>3. AreasOK' /\ t \in DOMAIN temps' /\ temps'[t] = AddrOf(t, n)
      BY <2>4, <3>1, <3>2, GetAreas
    <3> QED BY <3>3 DEF AreasOK
  <2>6. PICK a \in Addrs : a = <<"spill", SpillAt(q)>>
    BY <2>4 DEF Addrs
  <2>7. Copy(a, AddrOf(t, n), n) /\ Holds(q, a)
    BY <1>2, <1>4, <2>3, <2>6
  <2>8. /\ DOMAIN mem' = DOMAIN mem \cup Bytes(AddrOf(t, n), n)
        /\ \A b \in DOMAIN mem' : mem'[b] = IF b \in Bytes(AddrOf(t, n), n) THEN <<code[g].op, run>> ELSE mem[b]
    <3>1. PICK c \in Addrs : c = AddrOf(t, n)
      BY <2>5
    <3>2. Copy(a, c, n)
      BY <2>7, <3>1
    <3>3. /\ DOMAIN mem' = DOMAIN mem \cup Bytes(c, n)
          /\ \A b \in DOMAIN mem' : mem'[b] = IF b \in Bytes(c, n) THEN <<q, run>> ELSE mem[b]
      BY <2>3, <2>4, <2>7, <3>2, Copied
    <3> QED BY <2>3, <3>1, <3>3
  <2>9. ~Static(t)
    BY <2>3, SpilledIsDynamic DEF PlanMeant
  <2>10. /\ \A b \in DOMAIN mem' : mem'[b] # Garbage
         /\ \A o : o = code[g].op => InTemp(o, t)'
         /\ \A h \in OpsOf : \A o, u :
              /\ o = code[h].op /\ u = code[h].temp /\ u # t /\ InTemp(o, u)
              /\ Static(u) /\ Static(t) => Together(o, code[g].op)
              => InTemp(o, u)'
         /\ \A o, b : Holds(o, <<"spill", b>>) => Holds(o, <<"spill", b>>)'
    BY <1>2, <2>3, <2>4, <2>8, TempWritten
  <2>11. ASSUME NEW h \in OpsOf, h < k, code[h].temp = t,
                code[h].op = Out \/ \E j \in OpsOf : k <= j /\ code[h].op \in ins[code[j].op]
         PROVE  code[h].op = q
    <3>1. g <= k /\ h <= k
      BY <1>3, <2>3, <2>11
    <3>2. \A j \in OpsOf : k < j => k <= j
      BY <1>3
    <3>3. \E j \in OpsOf : k <= j /\ code[g].op \in ins[code[j].op]
      BY <2>3, <3>2
    <3>4. h = g
      BY <1>3, <2>3, <2>11, <3>1, <3>3, OneTensor
    <3> QED BY <2>3, <3>4
  <2> QED BY <2>3, <2>9, <2>10, <2>11
<1>6. PICK q \in Ops : FillOf(k, q)
  BY <1>2, <1>3 DEF CodeOK, FillsOK
<1>7. ASSUME NEW h \in OpsOf, NEW o, NEW u, NEW a, o = code[h].op, u = code[h].temp, a = SpillAt(o), h <= k,
             o = Out \/ \E j \in OpsOf : k < j /\ o \in ins[code[j].op]
      PROVE  /\ o \notin Spills \/ o = Out => InTemp(o, u)'
             /\ o \in Spills /\ h < k => Holds(o, <<"spill", a>>)'
  <2>1. h < k /\ h \in Nat
    BY <1>3, <1>7
  <2>2. o = Out \/ \E j \in OpsOf : k <= j /\ o \in ins[code[j].op]
    <3>1. \A j \in OpsOf : k < j => k <= j
      BY <1>3
    <3> QED BY <1>7, <3>1
  <2>3. StillNeeded(o)
    BY <1>1, <2>2 DEF StillNeeded
  <2>4. ASSUME o \notin Spills \/ o = Out PROVE InTemp(o, u)'
    <3>1. CASE u = t
      <4>1. o = q
        BY <1>5, <1>6, <1>7, <2>1, <2>2, <3>1
      <4> QED BY <1>5, <1>6, <3>1, <4>1
    <3>2. CASE u # t
      <4>1. InTemp(o, u)
        BY <1>1, <1>7, <2>1, <2>3, <2>4 DEF HeldOK
      <4> QED BY <1>5, <1>6, <1>7, <3>2, <4>1
    <3> QED BY <3>1, <3>2
  <2>5. ASSUME o \in Spills PROVE Holds(o, <<"spill", a>>)'
    <3>1. code[h + 1] = Moves("spill", o, u)
      BY <1>3, <1>7, <2>5 DEF CodeOK, SpillsOK
    <3>2. code[h + 1].kind = "spill"
      BY <3>1 DEF Moves
    <3>3. h + 1 # k
      BY <1>2, <3>2
    <3>4. h + 1 < k
      BY <1>3, <2>1, <3>3
    <3>5. Holds(o, <<"spill", a>>)
      BY <1>1, <1>7, <2>1, <2>3, <2>5, <3>4 DEF HeldOK
    <3> QED BY <1>5, <1>6, <3>5
  <2> QED BY <2>4, <2>5
<1>8. ASSUME NEW i \in DOMAIN code, NEW r \in Ops, NEW u, i <= k, u = code[i].temp, OnlyFills(i, k + 1), FillOf(i, r)
      PROVE  InTemp(r, u)'
  <2>1. CASE i = k
    BY <1>4, <1>5, <1>8, <2>1
  <2>2. CASE i # k
    <3>1. i < k /\ i \in Nat
      BY <1>3, <1>8, <2>2
    <3>2. OnlyFills(i, k)
      <4>1. i .. k - 1 \subseteq i .. (k + 1) - 1
        BY <1>3, <3>1
      <4> QED BY <1>8, <4>1 DEF OnlyFills
    <3>3. InTemp(r, u)
      BY <1>1, <1>8, <3>1, <3>2 DEF JustFilled
    <3>4. PICK h \in DOMAIN code : h + 1 < i /\ IsOp(h, r) /\ code[h].temp = u
      BY <1>8 DEF FillOf
    <3>5. h \in OpsOf /\ code[h].op = r
      BY <3>4 DEF IsOp, OpsOf
    <3>6. PICK j \in OpsOf : i < j /\ r \in ins[code[j].op]
      BY <1>8 DEF FillOf
    <3>7. k <= j
      <4>1. ~(j \in i .. (k + 1) - 1)
        BY <1>8, <3>6 DEF OnlyFills, OpsOf
      <4> QED BY <1>3, <3>1, <3>6, <4>1
    <3>8. h < k
      BY <1>3, <3>1, <3>4
    <3>9. CASE u = t
      <4>1. r = q
        BY <1>5, <1>6, <3>4, <3>5, <3>6, <3>7, <3>8, <3>9
      <4> QED BY <1>5, <1>6, <3>9, <4>1
    <3>10. CASE u # t
      BY <1>5, <1>6, <3>3, <3>4, <3>5, <3>10
    <3> QED BY <3>9, <3>10
  <2> QED BY <2>1, <2>2
<1>9. HeldOK' /\ JustRun' /\ JustFilled'
  BY <1>1, <1>2, <1>3, <1>7, <1>8, Onwards
<1> QED BY <1>5, <1>6, <1>9

\* The emitter and the executor leave what the plan means alone.
LEMMA MeantKept ==
  ASSUME UNCHANGED <<graphVars, order, budget, plan, emitVars>>
  PROVE  PlanMeant' = PlanMeant
<1>1. /\ tab' = tab /\ budget' = budget /\ code' = code /\ ins' = ins /\ order' = order
      /\ plan' = plan /\ dma_runlist' = dma_runlist
  BY DEF emitVars, graphVars
<1> QED BY <1>1 DEF PlanMeant, TableAgrees, OpsOf, HasPlace, Spills, Planned, Topological, Pos

LEMMA ValueInvStep ==
  ASSUME PlanInv, EmitInv, ExecInv, ExecInv', ValueInv, [Next]_vars
  PROVE  ValueInv'
<1>1. CASE (PlanNext /\ UNCHANGED <<emitVars, execVars>>) \/ StartEmit \/ ReorderStep \/ Emit \/ EmitFails
  <2>1. phase' \notin {"run", "ran", "error"}
    <3>1. CASE PlanNext \/ StartEmit \/ ReorderStep \/ EmitFails
      BY <3>1 DEF PlanNext, OrderStep, OrderDone, Place, PoolDone, StartEmit, ReorderStep, EmitFails
    <3>2. CASE Emit
      BY <3>2 DEF Emit, planVars
    <3> QED BY <1>1, <3>1, <3>2
  <2>2. mem' = <<>> /\ phase' # "run"
    BY <2>1 DEF ExecInv
  <2>3. DOMAIN mem' = {}
    BY <2>2
  <2> QED BY <2>2, <2>3 DEF ValueInv
<1>2. CASE BeginRun
  <2>1. /\ UNCHANGED <<graphVars, order, budget, plan, emitVars>> /\ mem' = mem /\ ip' = 1
    BY <1>2 DEF BeginRun
  <2>2. PlanMeant' = PlanMeant
    BY <2>1, MeantKept
  <2>3. phase' = "run" /\ OpsOf' = OpsOf /\ code' = code /\ DOMAIN code \subseteq Nat \ {0}
    <3>1. code \in Seq(Instrs)
      BY CodeTyped
    <3>2. DOMAIN code \subseteq Nat \ {0}
      BY <3>1
    <3>3. code' = code /\ phase' = "run"
      BY <1>2, <2>1 DEF emitVars, BeginRun
    <3> QED BY <3>2, <3>3 DEF OpsOf
  <2>4. \A i \in DOMAIN code : ~(i < 1) /\ i # 1 - 1
    BY <2>3
  <2>5. OpsOf' \subseteq DOMAIN code'
    BY DEF OpsOf
  <2>6. HeldOK' /\ JustRun' /\ JustFilled'
    BY <2>1, <2>3, <2>4, <2>5 DEF HeldOK, JustRun, JustFilled
  <2> QED BY <2>1, <2>2, <2>6 DEF ValueInv, Garbage
<1>3. CASE RunOp \/ RunSpill \/ RunFill
  <2>1. phase = "run" /\ phase' = "run" /\ UNCHANGED <<graphVars, order, budget, plan, emitVars>>
    <3>1. Advance /\ phase = "run"
      BY <1>3, RunsAdvance
    <3>2. UNCHANGED <<planVars, emitVars>>
      BY <3>1 DEF Advance
    <3> QED BY <3>1, <3>2 DEF planVars
  <2>2. PlanMeant' = PlanMeant
    BY <2>1, MeantKept
  <2>3. ASSUME PlanMeant PROVE (\A b \in DOMAIN mem' : mem'[b] # Garbage) /\ HeldOK' /\ JustRun' /\ JustFilled'
    <3>1. (\A b \in DOMAIN mem : mem[b] # Garbage) /\ HeldOK /\ JustRun /\ JustFilled
      BY <2>1, <2>3 DEF ValueInv
    <3>2. CASE RunOp
      BY <2>1, <2>3, <3>1, <3>2, RunOpValues
    <3>3. CASE RunSpill
      BY <2>1, <2>3, <3>1, <3>3, RunSpillValues
    <3>4. CASE RunFill
      BY <2>1, <2>3, <3>1, <3>4, RunFillValues
    <3> QED BY <1>3, <3>2, <3>3, <3>4
  <2> QED BY <2>1, <2>2, <2>3 DEF ValueInv, Garbage
<1>4. CASE RunFails \/ RunDone \/ Shutdown
  <2>1. /\ UNCHANGED <<graphVars, order, budget, plan, emitVars>> /\ phase' # "run"
        /\ \A b \in DOMAIN mem' : b \in DOMAIN mem /\ mem'[b] = mem[b]
    <3>1. CASE RunFails \/ RunDone
      BY <3>1 DEF RunFails, RunDone, execVars
    <3>2. CASE Shutdown
      BY <3>2 DEF Shutdown, planVars
    <3> QED BY <1>4, <3>1, <3>2
  <2>2. PlanMeant' = PlanMeant
    BY <2>1, MeantKept
  <2> QED BY <2>1, <2>2 DEF ValueInv, Garbage
<1>5. CASE UNCHANGED vars
  <2>1. UNCHANGED <<planVars, emitVars, execVars>>
    BY <1>5 DEF vars
  <2>2. UNCHANGED <<graphVars, order, budget, plan, emitVars>> /\ phase' = phase
    BY <2>1 DEF planVars
  <2>3. PlanMeant' = PlanMeant
    BY <2>2, MeantKept
  <2>4. /\ tab' = tab /\ budget' = budget /\ size' = size /\ run' = run /\ code' = code /\ ins' = ins
        /\ plan' = plan /\ dma_runlist' = dma_runlist /\ ip' = ip /\ temps' = temps /\ temp_bytes' = temp_bytes
        /\ mem' = mem
    BY <2>1, <2>2 DEF emitVars, graphVars, execVars
  <2>5. /\ OpsOf' = OpsOf /\ Spills' = Spills /\ \A v : Static(v)' = Static(v)
        /\ \A o : SpillAt(o)' = SpillAt(o)
        /\ \A i, q : FillOf(i, q)' = FillOf(i, q)
    BY <2>4 DEF OpsOf, Spills, Static, Planned, SpillAt, OnlyFills, FillOf, IsOp, Moves
  <2>6. HeldOK' = HeldOK /\ JustRun' = JustRun
    BY <2>4, <2>5 DEF HeldOK, JustRun, InTemp, Covers, Holds, Bytes, StillNeeded, SpillAt
  <2>7. JustFilled' = JustFilled
    BY <2>4, <2>5 DEF JustFilled, InTemp, Covers, Holds, Bytes, OnlyFills
  <2> QED BY <2>2, <2>3, <2>4, <2>6, <2>7 DEF ValueInv, Garbage
<1> QED BY <1>1, <1>2, <1>3, <1>4, <1>5 DEF Next

\* Through recycled temps, static places, areas of the pool, spills and fills,
\* every operation of every run reads what its producers wrote in that run, and
\* the output is intact when wt_exec_run_io copies it out: with the places of
\* the plan, whatever the graph, the sizes and the budgets are.
THEOREM ReadsWhatWasWritten == Spec => []ValuesRight
<1>1. Init => ValueInv
  <2> SUFFICES ASSUME Init PROVE ValueInv
    OBVIOUS
  <2>1. DOMAIN mem = {} /\ phase = "order"
    BY DEF Init, PlanInit
  <2> QED BY <2>1 DEF ValueInv
<1>2. (PlanInv /\ EmitInv /\ ExecInv) /\ (PlanInv /\ EmitInv /\ ExecInv)' /\ ValueInv /\ [Next]_vars => ValueInv'
  BY ValueInvStep
<1>3. Spec => []ValueInv
  BY <1>1, <1>2, EmitAndRun, PTL DEF Spec
<1>4. ASSUME PlanInv, EmitInv, ExecInv, ValueInv PROVE ValuesRight
  <2> SUFFICES ASSUME PlanMeant PROVE ValuesIntact
    BY DEF ValuesRight
  <2>1. \A b \in DOMAIN mem : mem[b] # Garbage
    BY <1>4 DEF ValueInv
  <2>2. ASSUME phase = "run", ip > Len(code), Out \in DOMAIN op_temp PROVE Holds(Out, temps[op_temp[Out]])
    <3>1. /\ HeldOK /\ TempsOK /\ CodeOK /\ DOMAIN code = 1 .. Len(code) /\ Len(code) \in Nat /\ ip \in Nat
      BY <1>4, <2>2, RunFacts DEF ValueInv
    <3>2. Out \in Emitted
      BY <2>2, <3>1 DEF TempsOK
    <3>3. PICK h \in DOMAIN code : IsOp(h, Out)
      BY <3>1, <3>2 DEF CodeOK, OpsInOrder
    <3>4. h \in OpsOf /\ code[h].op = Out /\ h < ip
      BY <2>2, <3>1, <3>3 DEF IsOp, OpsOf
    <3>5. op_temp[Out] = code[h].temp
      BY <2>2, <3>1, <3>4 DEF CodeOK, OpsInOrder
    <3>6. InTemp(Out, code[h].temp)
      BY <3>1, <3>4 DEF HeldOK, StillNeeded
    <3> QED BY <3>5, <3>6 DEF InTemp
  <2> QED BY <2>1, <2>2 DEF ValuesIntact
<1> QED BY <1>3, <1>4, EmitAndRun, PTL
=============================================================================
