--------------------------- MODULE SelectionProofs ---------------------------
(***************************************************************************)
(* What Pick returns, for sequences of any length.  PickIs characterises   *)
(* it: an enumeration of the kept positions in increasing order is the one *)
(* that Pick uses; the other lemmas follow from it.                        *)
(***************************************************************************)
EXTENDS Selection, FiniteSetTheorems, TLAPS

(* g lists the members of K in increasing order, each once. *)
Lists(g, m, K) ==
  /\ g \in [1 .. m -> K]
  /\ \A i, j \in 1 .. m : i < j => g[i] < g[j]
  /\ \A x \in K : \E i \in 1 .. m : g[i] = x

(* Positions in increasing order determine ranks. *)
LEMMA ListsRank ==
  ASSUME NEW m \in Nat, NEW K \in SUBSET Nat, NEW g, Lists(g, m, K)
  PROVE  /\ IsFiniteSet(K) /\ Cardinality(K) = m
         /\ \A k \in 1 .. m : Rank(K, g[k]) = k
<1>1. /\ g \in [1 .. m -> K] /\ K \subseteq Nat
      /\ \A i, j \in 1 .. m : i < j => g[i] < g[j]
      /\ \A x \in K : \E i \in 1 .. m : g[i] = x
  BY DEF Lists
<1>2. \A i, j \in 1 .. m : g[i] = g[j] => i = j
  <2> SUFFICES ASSUME NEW i \in 1 .. m, NEW j \in 1 .. m, g[i] = g[j], i # j PROVE FALSE
    OBVIOUS
  <2>1. g[i] \in Nat /\ g[j] \in Nat
    BY <1>1
  <2>2. i < j \/ j < i
    OBVIOUS
  <2>3. g[i] < g[j] \/ g[j] < g[i]
    BY <1>1, <2>2
  <2> QED BY <2>1, <2>3
<1>3. IsFiniteSet(K) /\ Cardinality(K) = m
  <2>1. g \in Bijection(1 .. m, K)
    BY <1>1, <1>2 DEF Bijection, Injection, Surjection, IsInjective
  <2>2. ExistsBijection(1 .. m, K)
    BY <2>1 DEF ExistsBijection
  <2> QED BY <2>2, FS_NatBijection, FS_CountingElements
<1>4. ASSUME NEW k \in 1 .. m PROVE Rank(K, g[k]) = k
  <2> DEFINE B == {j \in K : j <= g[k]}
             h == [i \in 1 .. k |-> g[i]]
  <2>1. \A i \in 1 .. k : i \in 1 .. m /\ g[i] \in B
    <3> SUFFICES ASSUME NEW i \in 1 .. k PROVE i \in 1 .. m /\ g[i] \in B
      OBVIOUS
    <3>1. i \in 1 .. m
      OBVIOUS
    <3>2. g[i] \in Nat /\ g[k] \in Nat /\ g[i] \in K
      BY <1>1, <3>1
    <3>3. i = k \/ i < k
      OBVIOUS
    <3>4. i < k => g[i] < g[k]
      BY <1>1, <3>1
    <3> QED BY <3>1, <3>2, <3>3, <3>4
  <2>2. \A x \in B : \E i \in 1 .. k : h[i] = x
    <3> SUFFICES ASSUME NEW x \in B PROVE \E i \in 1 .. k : h[i] = x
      OBVIOUS
    <3>1. PICK i \in 1 .. m : g[i] = x
      BY <1>1
    <3>2. g[i] \in Nat /\ g[k] \in Nat /\ g[i] <= g[k]
      BY <1>1, <3>1
    <3>3. k < i => g[k] < g[i]
      BY <1>1
    <3>4. i \in 1 .. k
      BY <3>2, <3>3
    <3> QED BY <3>1, <3>4
  <2>3. h \in [1 .. k -> B] /\ \A i, j \in 1 .. k : h[i] = h[j] => i = j
    BY <1>2, <2>1
  <2> HIDE DEF B, h
  <2>4. h \in Bijection(1 .. k, B)
    BY <2>2, <2>3 DEF Bijection, Injection, Surjection, IsInjective
  <2>5. ExistsBijection(1 .. k, B)
    BY <2>4 DEF ExistsBijection
  <2>6. Cardinality(B) = k
    BY <2>5, FS_CountingElements
  <2> QED BY <2>6 DEF Rank, B
<1> QED BY <1>3, <1>4

(* Ranks tell positions apart. *)
LEMMA RankInjective ==
  ASSUME NEW K \in SUBSET Nat, IsFiniteSet(K), NEW i \in K, NEW j \in K
  PROVE  /\ Rank(K, i) \in 1 .. Cardinality(K)
         /\ i < j => Rank(K, i) < Rank(K, j)
         /\ Rank(K, i) = Rank(K, j) => i = j
<1>1. ASSUME NEW a \in K
      PROVE  Rank(K, a) \in 1 .. Cardinality(K)
  <2> DEFINE A == {x \in K : x <= a}
  <2>1. a \in A /\ A \in SUBSET K
    OBVIOUS
  <2> HIDE DEF A
  <2>2. IsFiniteSet(A) /\ Cardinality(A) <= Cardinality(K) /\ Cardinality(A) \in Nat
        /\ Cardinality(K) \in Nat
    BY <2>1, FS_Subset, FS_CardinalityType
  <2>3. Cardinality(A) # 0
    BY <2>1, <2>2, FS_EmptySet
  <2>4. Cardinality(A) \in 1 .. Cardinality(K)
    BY <2>2, <2>3
  <2> QED BY <2>4 DEF Rank, A
<1>2. ASSUME NEW a \in K, NEW b \in K, a < b
      PROVE  Rank(K, a) < Rank(K, b)
  <2> DEFINE A == {x \in K : x <= a}
             B == {x \in K : x <= b}
  <2>1. A \in SUBSET B /\ b \in B /\ b \notin A /\ B \in SUBSET K
    <3>1. a \in Nat /\ b \in Nat
      OBVIOUS
    <3>2. \A x \in K : x \in Nat /\ (x <= a => x <= b)
      BY <1>2, <3>1
    <3>3. ~(b <= a)
      BY <1>2, <3>1
    <3>4. \A x \in A : x \in B
      BY <3>2
    <3>5. b \in B /\ b \notin A
      BY <3>1, <3>3
    <3> QED BY <3>4, <3>5
  <2> HIDE DEF A, B
  <2>2. IsFiniteSet(B) /\ Cardinality(B) \in Nat
    BY <2>1, FS_Subset, FS_CardinalityType
  <2>3. IsFiniteSet(A) /\ Cardinality(A) \in Nat /\ Cardinality(A) <= Cardinality(B)
        /\ Cardinality(A) # Cardinality(B)
    BY <2>1, <2>2, FS_Subset, FS_CardinalityType
  <2>4. Cardinality(A) < Cardinality(B)
    BY <2>2, <2>3
  <2> QED BY <2>4 DEF Rank, A, B
<1>3. ASSUME Rank(K, i) = Rank(K, j), i # j PROVE FALSE
  <2>1. i \in Nat /\ j \in Nat
    OBVIOUS
  <2>2. i < j \/ j < i
    BY <1>3, <2>1
  <2>3. Rank(K, i) < Rank(K, j) \/ Rank(K, j) < Rank(K, i)
    BY <1>2, <2>2
  <2>4. Rank(K, i) \in Nat /\ Rank(K, j) \in Nat
    <3>1. Cardinality(K) \in Nat
      BY FS_CardinalityType
    <3>2. Rank(K, i) \in 1 .. Cardinality(K) /\ Rank(K, j) \in 1 .. Cardinality(K)
      BY <1>1
    <3> QED BY <3>1, <3>2
  <2> QED BY <1>3, <2>3, <2>4
<1> QED BY <1>1, <1>2, <1>3

(* Every number up to the size of K is the rank of one member. *)
LEMMA NthListed ==
  ASSUME NEW K \in SUBSET Nat, IsFiniteSet(K), NEW k \in 1 .. Cardinality(K)
  PROVE  Nth(K, k) \in K /\ Rank(K, Nth(K, k)) = k
<1> DEFINE n == Cardinality(K)
           f == [i \in K |-> Rank(K, i)]
<1>1. n \in Nat
  BY FS_CardinalityType
<1>2. f \in [K -> 1 .. n] /\ \A i, j \in K : f[i] = f[j] => i = j
  BY RankInjective
<1>3. IsFiniteSet(1 .. n) /\ Cardinality(1 .. n) = n
  <2> HIDE DEF n
  <2>1. Cardinality(1 .. n) = IF 1 > n THEN 0 ELSE n - 1 + 1
    BY <1>1, FS_Interval
  <2> QED BY <1>1, <2>1, FS_Interval
<1> HIDE DEF f
<1>4. f \in Injection(K, 1 .. n)
  BY <1>2 DEF Injection, IsInjective
<1>5. f \in Surjection(K, 1 .. n)
  BY <1>3, <1>4, FS_Injection
<1>6. \E i \in K : f[i] = k
  BY <1>5 DEF Surjection
<1>7. \E i \in K : Rank(K, i) = k
  BY <1>6 DEF f
<1> QED BY <1>7 DEF Nth

(* The elements of s at the positions that g lists. *)
Along(s, g, m) == [k \in 1 .. m |-> s[g[k]]]

(* Pick uses the increasing enumeration, whichever it is given as. *)
LEMMA PickIs ==
  ASSUME NEW m \in Nat, NEW K \in SUBSET Nat, NEW g, Lists(g, m, K), NEW s
  PROVE  IsFiniteSet(K) /\ Cardinality(K) = m /\ Pick(s, K) = Along(s, g, m)
<1>1. /\ IsFiniteSet(K) /\ Cardinality(K) = m
      /\ \A k \in 1 .. m : Rank(K, g[k]) = k /\ g[k] \in K
  BY ListsRank DEF Lists
<1>2. ASSUME NEW k \in 1 .. m PROVE Nth(K, k) = g[k]
  <2>1. Nth(K, k) \in K /\ Rank(K, Nth(K, k)) = k
    BY <1>1, NthListed
  <2>2. Rank(K, g[k]) = k /\ g[k] \in K
    BY <1>1
  <2>3. \A i, j \in K : Rank(K, i) = Rank(K, j) => i = j
    BY <1>1, RankInjective
  <2> QED BY <2>1, <2>2, <2>3
<1> QED BY <1>1, <1>2 DEF Pick, Along

(* A selection of a sequence is a sequence over the same elements. *)
LEMMA PickType ==
  ASSUME NEW S, NEW s \in Seq(S), NEW K \in SUBSET DOMAIN s
  PROVE  /\ Pick(s, K) \in Seq(S) /\ Len(Pick(s, K)) = Cardinality(K)
         /\ Cardinality(K) \in Nat /\ Cardinality(K) <= Len(s)
         /\ \A k \in 1 .. Cardinality(K) : \E i \in K : Pick(s, K)[k] = s[i]
         /\ \A i \in K : \E k \in 1 .. Cardinality(K) : Pick(s, K)[k] = s[i]
<1>1. Len(s) \in Nat /\ DOMAIN s = 1 .. Len(s)
  OBVIOUS
<1>2. IsFiniteSet(1 .. Len(s)) /\ Cardinality(1 .. Len(s)) = Len(s)
  <2>1. Cardinality(1 .. Len(s)) = IF 1 > Len(s) THEN 0 ELSE Len(s) - 1 + 1
    BY <1>1, FS_Interval
  <2> QED BY <1>1, <2>1, FS_Interval
<1>3. IsFiniteSet(K) /\ Cardinality(K) \in Nat /\ Cardinality(K) <= Len(s) /\ K \in SUBSET Nat
  BY <1>1, <1>2, FS_Subset, FS_CardinalityType
<1>4. \A k \in 1 .. Cardinality(K) : Nth(K, k) \in K
  BY <1>3, NthListed
<1>5. Pick(s, K) \in [1 .. Cardinality(K) -> S]
  BY <1>4 DEF Pick
<1>6. \A k \in 1 .. Cardinality(K) : Pick(s, K)[k] = s[Nth(K, k)]
  BY DEF Pick
<1>7. ASSUME NEW i \in K PROVE \E k \in 1 .. Cardinality(K) : Pick(s, K)[k] = s[i]
  <2>1. Rank(K, i) \in 1 .. Cardinality(K)
    BY <1>3, RankInjective
  <2>2. Nth(K, Rank(K, i)) \in K /\ Rank(K, Nth(K, Rank(K, i))) = Rank(K, i)
    BY <1>3, <2>1, NthListed
  <2>3. Nth(K, Rank(K, i)) = i
    BY <1>3, <2>2, RankInjective
  <2> QED BY <1>6, <2>1, <2>3
<1>8. Pick(s, K) \in Seq(S) /\ Len(Pick(s, K)) = Cardinality(K)
  BY <1>3, <1>5
<1> QED BY <1>3, <1>4, <1>6, <1>7, <1>8

(* Nth lists the members of a finite set in increasing order. *)
LEMMA NthLists ==
  ASSUME NEW K \in SUBSET Nat, IsFiniteSet(K)
  PROVE  Lists([k \in 1 .. Cardinality(K) |-> Nth(K, k)], Cardinality(K), K)
<1> DEFINE m == Cardinality(K)
           g == [k \in 1 .. m |-> Nth(K, k)]
<1>1. m \in Nat
  BY FS_CardinalityType
<1>2. \A k \in 1 .. m : g[k] \in K /\ Rank(K, g[k]) = k
  BY NthListed
<1>3. g \in [1 .. m -> K]
  BY NthListed
<1> HIDE DEF m, g
<1>4. ASSUME NEW i \in 1 .. m, NEW j \in 1 .. m, i < j PROVE g[i] < g[j]
  <2>1. g[i] \in K /\ g[j] \in K /\ Rank(K, g[i]) = i /\ Rank(K, g[j]) = j
    BY <1>2
  <2>2. g[j] < g[i] => Rank(K, g[j]) < Rank(K, g[i])
    BY <2>1, RankInjective
  <2>3. g[i] \in Nat /\ g[j] \in Nat /\ i \in Nat /\ j \in Nat
    <3>1. g[i] \in Nat /\ g[j] \in Nat
      BY <2>1
    <3>2. i \in Nat /\ j \in Nat
      OBVIOUS
    <3> QED BY <3>1, <3>2
  <2>4. ~(g[j] < g[i])
    BY <1>4, <2>1, <2>2, <2>3
  <2>5. g[i] # g[j]
    BY <1>4, <2>1, <2>3
  <2> QED BY <2>3, <2>4, <2>5
<1>5. ASSUME NEW x \in K PROVE \E i \in 1 .. m : g[i] = x
  <2>1. Rank(K, x) \in 1 .. m
    BY RankInjective DEF m
  <2>2. g[Rank(K, x)] \in K /\ Rank(K, g[Rank(K, x)]) = Rank(K, x)
    BY <1>2, <2>1
  <2>3. g[Rank(K, x)] = x
    BY <2>2, RankInjective
  <2> QED BY <2>1, <2>3
<1>6. Lists(g, m, K)
  BY <1>3, <1>4, <1>5 DEF Lists
<1> QED BY <1>6 DEF g, m

(* The kept positions of a sequence, in increasing order. *)
LEMMA Listing ==
  ASSUME NEW S, NEW s \in Seq(S), NEW K \in SUBSET DOMAIN s
  PROVE  \E m \in Nat : \E g : Lists(g, m, K) /\ Pick(s, K) = [k \in 1 .. m |-> s[g[k]]]
<1>1. Len(s) \in Nat /\ DOMAIN s = 1 .. Len(s)
  OBVIOUS
<1>2. IsFiniteSet(K) /\ K \in SUBSET Nat
  <2>1. IsFiniteSet(1 .. Len(s))
    BY <1>1, FS_Interval
  <2>2. IsFiniteSet(K)
    BY <1>1, <2>1, FS_Subset
  <2> QED BY <1>1, <2>2
<1>3. Cardinality(K) \in Nat
  BY <1>2, FS_CardinalityType
<1> DEFINE g == [k \in 1 .. Cardinality(K) |-> Nth(K, k)]
<1>4. Lists(g, Cardinality(K), K)
  BY <1>2, NthLists
<1>5. Pick(s, K) = [k \in 1 .. Cardinality(K) |-> s[g[k]]]
  BY DEF Pick
<1> HIDE DEF g
<1> QED BY <1>3, <1>4, <1>5

(* An element more: kept or not. *)
LEMMA PickAppend ==
  ASSUME NEW S, NEW s \in Seq(S), NEW e \in S, NEW K \in SUBSET DOMAIN s
  PROVE  /\ Pick(Append(s, e), K) = Pick(s, K)
         /\ Pick(Append(s, e), K \cup {Len(s) + 1}) = Append(Pick(s, K), e)
<1> DEFINE n == Len(s)
           t == Append(s, e)
<1>1. n \in Nat /\ DOMAIN s = 1 .. n /\ K \in SUBSET (1 .. n)
  OBVIOUS
<1>2. /\ \A i \in 1 .. n : t[i] = s[i]
      /\ t[n + 1] = e /\ t \in Seq(S)
  OBVIOUS
<1>3. PICK m \in Nat : \E g : Lists(g, m, K) /\ Pick(s, K) = [k \in 1 .. m |-> s[g[k]]]
  BY Listing
<1>4. PICK g : Lists(g, m, K) /\ Pick(s, K) = [k \in 1 .. m |-> s[g[k]]]
  BY <1>3
<1> HIDE DEF n, t
<1>5. /\ g \in [1 .. m -> K]
      /\ \A i, j \in 1 .. m : i < j => g[i] < g[j]
      /\ \A x \in K : \E i \in 1 .. m : g[i] = x
  BY <1>4 DEF Lists
<1>6. \A k \in 1 .. m : g[k] \in 1 .. n
  BY <1>1, <1>5
<1>7. Pick(t, K) = Pick(s, K)
  <2>1. K \in SUBSET Nat
    BY <1>1
  <2>2. Pick(t, K) = Along(t, g, m)
    BY <1>4, <2>1, PickIs
  <2> QED BY <1>2, <1>4, <1>6, <2>2 DEF Along
<1>8. Pick(t, K \cup {n + 1}) = Append(Pick(s, K), e)
  <2> DEFINE L == K \cup {n + 1}
             h == [k \in 1 .. m + 1 |-> IF k \in 1 .. m THEN g[k] ELSE n + 1]
  <2>1. L \in SUBSET Nat
    BY <1>1
  <2>2. /\ h \in [1 .. m + 1 -> L]
        /\ h[m + 1] = n + 1 /\ \A k \in 1 .. m : h[k] = g[k]
    BY <1>5
  <2> HIDE DEF h
  <2>3. ASSUME NEW i \in 1 .. m + 1, NEW j \in 1 .. m + 1, i < j PROVE h[i] < h[j]
    <3>1. i \in 1 .. m
      BY <2>3
    <3>2. CASE j \in 1 .. m
      BY <1>5, <2>2, <2>3, <3>1, <3>2
    <3>3. CASE j \notin 1 .. m
      <4>1. j = m + 1
        BY <3>3
      <4>2. h[i] \in 1 .. n /\ h[j] = n + 1
        BY <1>6, <2>2, <3>1, <4>1
      <4> QED BY <1>1, <4>2
    <3> QED BY <3>2, <3>3
  <2>4. ASSUME NEW x \in L PROVE \E i \in 1 .. m + 1 : h[i] = x
    <3>1. CASE x \in K
      BY <1>5, <2>2, <3>1
    <3>2. CASE x = n + 1
      BY <2>2, <3>2
    <3> QED BY <3>1, <3>2
  <2>5. Lists(h, m + 1, L)
    BY <2>2, <2>3, <2>4 DEF Lists
  <2>6. m + 1 \in Nat
    OBVIOUS
  <2> HIDE DEF L
  <2>7. Pick(t, L) = Along(t, h, m + 1)
    BY <2>1, <2>5, <2>6, PickIs
  <2>8. \A k \in 1 .. m : s[g[k]] \in S
    BY <1>1, <1>6 DEF n
  <2>9. Pick(s, K) \in Seq(S) /\ Len(Pick(s, K)) = m
    BY <1>4, <2>8
  <2>10. \A k \in 1 .. m : t[h[k]] = Pick(s, K)[k]
    BY <1>2, <1>4, <1>6, <2>2
  <2>11. t[h[m + 1]] = e
    BY <1>2, <2>2
  <2> DEFINE q == Pick(s, K)
  <2> HIDE DEF q
  <2>12. Append(q, e) = [k \in 1 .. m + 1 |-> IF k \in 1 .. m THEN q[k] ELSE e]
    <3>1. q \in Seq(S) /\ Len(q) = m
      BY <2>9 DEF q
    <3>2. /\ Append(q, e) \in Seq(S) /\ Len(Append(q, e)) = m + 1
          /\ \A k \in 1 .. m : Append(q, e)[k] = q[k]
          /\ Append(q, e)[m + 1] = e
      BY <3>1
    <3>3. \A k \in 1 .. m + 1 : Append(q, e)[k] = IF k \in 1 .. m THEN q[k] ELSE e
      <4> SUFFICES ASSUME NEW k \in 1 .. m + 1
                   PROVE  Append(q, e)[k] = IF k \in 1 .. m THEN q[k] ELSE e
        OBVIOUS
      <4>1. CASE k \in 1 .. m
        BY <3>2, <4>1
      <4>2. CASE k \notin 1 .. m
        <5>1. k = m + 1
          BY <4>2
        <5> QED BY <3>2, <4>2, <5>1
      <4> QED BY <4>1, <4>2
    <3>4. Append(q, e) = [k \in 1 .. m + 1 |-> Append(q, e)[k]]
      <4> DEFINE z == Append(q, e)
      <4>1. z \in Seq(S) /\ Len(z) = m + 1
        BY <3>2
      <4> HIDE DEF z
      <4>2. z = [k \in 1 .. m + 1 |-> z[k]]
        BY <4>1
      <4> QED BY <4>2 DEF z
    <3> QED BY <3>3, <3>4
  <2>13. \A k \in 1 .. m + 1 : t[h[k]] = IF k \in 1 .. m THEN q[k] ELSE e
    BY <2>10, <2>11 DEF q
  <2> QED BY <2>7, <2>12, <2>13 DEF L, q, Along
<1> QED BY <1>7, <1>8 DEF n, t

(* The positions after the n-th. *)
LEMMA PickSuffix ==
  ASSUME NEW S, NEW s \in Seq(S), NEW n \in 0 .. Len(s)
  PROVE  Pick(s, {i \in DOMAIN s : i > n}) = [k \in 1 .. Len(s) - n |-> s[k + n]]
<1> DEFINE m == Len(s) - n
           K == {i \in DOMAIN s : i > n}
           g == [k \in 1 .. m |-> k + n]
<1>1. /\ m \in Nat /\ n \in Nat /\ K = n + 1 .. n + m
      /\ DOMAIN s = 1 .. Len(s) /\ Len(s) = m + n
  OBVIOUS
<1> HIDE DEF m, K
<1>2. \A k \in 1 .. m : g[k] = k + n
  OBVIOUS
<1>3. g \in [1 .. m -> K]
  BY <1>1
<1> HIDE DEF g
<1>4. Lists(g, m, K)
  <2>1. \A i, j \in 1 .. m : i < j => g[i] < g[j]
    BY <1>1, <1>2
  <2>2. ASSUME NEW x \in K PROVE \E i \in 1 .. m : g[i] = x
    <3>1. x - n \in 1 .. m /\ x - n + n = x
      BY <1>1
    <3> QED BY <1>2, <3>1
  <2> QED BY <1>3, <2>1, <2>2 DEF Lists
<1>5. K \in SUBSET Nat
  BY <1>1
<1>6. Pick(s, K) = Along(s, g, m)
  BY <1>1, <1>4, <1>5, PickIs
<1>7. Along(s, g, m) = [k \in 1 .. m |-> s[k + n]]
  BY <1>2 DEF Along
<1> QED BY <1>6, <1>7 DEF K, m

(* An element less. *)
LEMMA PickTail ==
  ASSUME NEW S, NEW s \in Seq(S), s # <<>>, NEW K \in SUBSET DOMAIN s,
         NEW J, J = {i \in 1 .. Len(s) - 1 : i + 1 \in K}
  PROVE  /\ 1 \notin K => Pick(Tail(s), J) = Pick(s, K)
         /\ 1 \in K => /\ Len(Pick(s, K)) > 0 /\ Pick(s, K)[1] = s[1]
                       /\ Len(Pick(Tail(s), J)) = Len(Pick(s, K)) - 1
                       /\ \A k \in 1 .. Len(Pick(s, K)) - 1 :
                            Pick(Tail(s), J)[k] = Pick(s, K)[k + 1]
<1> DEFINE n == Len(s)
           t == Tail(s)
<1>1. n \in Nat \ {0} /\ DOMAIN s = 1 .. n /\ K \in SUBSET (1 .. n)
  OBVIOUS
<1>2. /\ t \in Seq(S) /\ DOMAIN t = 1 .. n - 1
      /\ \A i \in 1 .. n - 1 : t[i] = s[i + 1]
  OBVIOUS
<1>3. PICK m \in Nat : \E g : Lists(g, m, K) /\ Pick(s, K) = [k \in 1 .. m |-> s[g[k]]]
  BY Listing
<1>4. PICK g : Lists(g, m, K) /\ Pick(s, K) = [k \in 1 .. m |-> s[g[k]]]
  BY <1>3
<1>5. /\ g \in [1 .. m -> K]
      /\ \A i, j \in 1 .. m : i < j => g[i] < g[j]
      /\ \A x \in K : \E i \in 1 .. m : g[i] = x
  BY <1>4 DEF Lists
<1>6. \A i \in 1 .. n : s[i] \in S
  OBVIOUS
<1>7. J = {i \in 1 .. n - 1 : i + 1 \in K}
  OBVIOUS
<1> HIDE DEF n, t
<1>8. \A k \in 1 .. m : g[k] \in 1 .. n /\ g[k] \in K
  BY <1>1, <1>5
<1>9. J \in SUBSET Nat /\ J \in SUBSET (1 .. n - 1)
  BY <1>7
<1>10. ASSUME 1 \notin K PROVE Pick(t, J) = Pick(s, K)
  <2> DEFINE h == [k \in 1 .. m |-> g[k] - 1]
  <2>1. \A k \in 1 .. m : h[k] = g[k] - 1
    OBVIOUS
  <2>2. \A k \in 1 .. m : g[k] # 1
    BY <1>8, <1>10
  <2>3. \A k \in 1 .. m : g[k] - 1 \in 1 .. n - 1 /\ (g[k] - 1) + 1 = g[k]
    BY <1>1, <1>8, <2>2
  <2>4. \A k \in 1 .. m : g[k] - 1 \in J
    BY <1>7, <1>8, <2>3
  <2>5. h \in [1 .. m -> J]
    BY <2>4
  <2> HIDE DEF h
  <2>6. ASSUME NEW i \in 1 .. m, NEW j \in 1 .. m, i < j PROVE h[i] < h[j]
    <3>1. g[i] < g[j] /\ g[i] \in 1 .. n /\ g[j] \in 1 .. n
      BY <1>5, <1>8, <2>6
    <3>2. h[i] = g[i] - 1 /\ h[j] = g[j] - 1
      BY <2>1
    <3> QED BY <3>1, <3>2
  <2>7. ASSUME NEW x \in J PROVE \E i \in 1 .. m : h[i] = x
    <3>1. x \in 1 .. n - 1 /\ x + 1 \in K
      BY <1>7
    <3>2. PICK i \in 1 .. m : g[i] = x + 1
      BY <1>5, <3>1
    <3>3. h[i] = x + 1 - 1
      BY <2>1, <3>2
    <3>4. x + 1 - 1 = x
      BY <3>1
    <3> QED BY <3>3, <3>4
  <2>8. Lists(h, m, J)
    BY <2>5, <2>6, <2>7 DEF Lists
  <2>9. Pick(t, J) = Along(t, h, m)
    BY <1>9, <2>8, PickIs
  <2>10. \A k \in 1 .. m : t[h[k]] = s[g[k]]
    BY <1>2, <2>1, <2>3
  <2> QED BY <1>4, <2>9, <2>10 DEF Along
<1>11. ASSUME 1 \in K
       PROVE  /\ Len(Pick(s, K)) > 0 /\ Pick(s, K)[1] = s[1]
              /\ Len(Pick(t, J)) = Len(Pick(s, K)) - 1
              /\ \A k \in 1 .. Len(Pick(s, K)) - 1 : Pick(t, J)[k] = Pick(s, K)[k + 1]
  <2>1. PICK a \in 1 .. m : g[a] = 1
    BY <1>5, <1>11
  <2>2. 1 \in 1 .. m /\ (1 < a \/ a = 1)
    OBVIOUS
  <2>3. g[1] = 1
    <3>1. 1 < a => g[1] < 1
      BY <1>5, <2>1, <2>2
    <3>2. g[1] \in 1 .. n
      BY <1>8, <2>2
    <3> QED BY <2>1, <2>2, <3>1, <3>2
  <2> DEFINE h == [k \in 1 .. m - 1 |-> g[k + 1] - 1]
  <2>4. \A k \in 1 .. m - 1 : h[k] = g[k + 1] - 1 /\ k + 1 \in 1 .. m /\ k + 1 > 1
    OBVIOUS
  <2>5. \A k \in 1 .. m - 1 : g[k + 1] - 1 \in 1 .. n - 1 /\ (g[k + 1] - 1) + 1 = g[k + 1]
                              /\ g[k + 1] \in K
    <3> SUFFICES ASSUME NEW k \in 1 .. m - 1
                 PROVE  g[k + 1] - 1 \in 1 .. n - 1 /\ (g[k + 1] - 1) + 1 = g[k + 1]
                        /\ g[k + 1] \in K
      OBVIOUS
    <3>1. k + 1 \in 1 .. m /\ 1 < k + 1
      BY <2>4
    <3>2. g[k + 1] \in 1 .. n /\ g[k + 1] \in K
      BY <1>8, <3>1
    <3>3. g[1] < g[k + 1]
      BY <1>5, <2>2, <3>1
    <3>4. 1 < g[k + 1]
      BY <2>3, <3>3
    <3> QED BY <1>1, <3>2, <3>4
  <2>6. \A k \in 1 .. m - 1 : g[k + 1] - 1 \in J
    BY <1>7, <2>5
  <2>7. h \in [1 .. m - 1 -> J]
    BY <2>6
  <2> HIDE DEF h
  <2>8. ASSUME NEW i \in 1 .. m - 1, NEW j \in 1 .. m - 1, i < j PROVE h[i] < h[j]
    <3>1. i + 1 \in 1 .. m /\ j + 1 \in 1 .. m /\ i + 1 < j + 1
      BY <2>8
    <3>2. g[i + 1] < g[j + 1] /\ g[i + 1] \in 1 .. n /\ g[j + 1] \in 1 .. n
      BY <1>5, <1>8, <3>1
    <3>3. h[i] = g[i + 1] - 1 /\ h[j] = g[j + 1] - 1
      BY <2>4
    <3> QED BY <3>2, <3>3
  <2>9. ASSUME NEW x \in J PROVE \E i \in 1 .. m - 1 : h[i] = x
    <3>1. x \in 1 .. n - 1 /\ x + 1 \in K
      BY <1>7
    <3>2. PICK i \in 1 .. m : g[i] = x + 1
      BY <1>5, <3>1
    <3>3. i # 1
      BY <2>3, <3>1, <3>2
    <3>4. i - 1 \in 1 .. m - 1 /\ (i - 1) + 1 = i
      BY <3>3
    <3>5. h[i - 1] = x + 1 - 1
      BY <2>4, <3>2, <3>4
    <3>6. x + 1 - 1 = x
      BY <3>1
    <3> QED BY <3>4, <3>5, <3>6
  <2>10. Lists(h, m - 1, J)
    BY <2>7, <2>8, <2>9 DEF Lists
  <2>11. m - 1 \in Nat
    BY <2>2
  <2>12. Pick(t, J) = Along(t, h, m - 1)
    BY <1>9, <2>10, <2>11, PickIs
  <2>13. \A k \in 1 .. m - 1 : t[h[k]] = s[g[k + 1]] /\ t[h[k]] \in S
    <3> SUFFICES ASSUME NEW k \in 1 .. m - 1
                 PROVE  t[h[k]] = s[g[k + 1]] /\ t[h[k]] \in S
      OBVIOUS
    <3>1. h[k] \in 1 .. n - 1 /\ h[k] + 1 = g[k + 1]
      BY <2>4, <2>5
    <3>2. h[k] + 1 \in 1 .. n
      BY <1>1, <3>1
    <3> QED BY <1>2, <1>6, <3>1, <3>2
  <2>14. \A k \in 1 .. m : s[g[k]] \in S
    BY <1>6, <1>8
  <2>15. Pick(s, K) \in [1 .. m -> S]
    BY <1>4, <2>14
  <2>16. Pick(t, J) \in [1 .. m - 1 -> S] /\ \A k \in 1 .. m - 1 : Pick(t, J)[k] = s[g[k + 1]]
    BY <2>12, <2>13 DEF Along
  <2>17. Len(Pick(s, K)) = m /\ Len(Pick(t, J)) = m - 1
    BY <2>11, <2>15, <2>16
  <2>18. \A k \in 1 .. m - 1 : Pick(s, K)[k + 1] = s[g[k + 1]]
    BY <1>4, <2>4
  <2>19. Pick(s, K)[1] = s[1]
    BY <1>4, <2>2, <2>3
  <2>20. m > 0
    BY <2>2
  <2> QED BY <2>16, <2>17, <2>18, <2>19, <2>20
<1> QED BY <1>10, <1>11 DEF n, t
=============================================================================
