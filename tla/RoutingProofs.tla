--------------------------- MODULE RoutingProofs ---------------------------
(***************************************************************************)
(* Proofs about the choice of a backend, for every value of the constants: *)
(* a session tries no backend twice, goes through the partitions of its    *)
(* farm in their order, tries the backends of its own datacenter first,    *)
(* and gives up only when it has tried them all.                           *)
(***************************************************************************)
EXTENDS Routing, Integers, FiniteSetTheorems, TLAPS

-----------------------------------------------------------------------------
(* Induction, over a set of numbers.                                       *)

\* A set of numbers with 0 and every successor has all of them.
LEMMA Induction ==
    ASSUME NEW T \in SUBSET Nat, 0 \in T, \A n \in T : n + 1 \in T
    PROVE  T = Nat
<1>. DEFINE R == {x \in Nat \X Nat : x[1] < x[2]}
<1>. SUFFICES ASSUME Nat \ T # {} PROVE FALSE
  OBVIOUS
<1>1. IsWellFoundedOn(R, Nat)
  BY NatLessThanWellFounded DEF OpToRel
<1>2. \E x \in Nat \ T : \A y \in Nat \ T : ~(<<y, x>> \in R)
  <2>. HIDE DEF R
  <2>. QED  BY <1>1, WFMin, Zenon
<1>3. PICK x \in Nat \ T : \A y \in Nat \ T : ~(<<y, x>> \in R)
  BY <1>2
<1>4. x # 0 /\ x - 1 \in Nat \ T
  OBVIOUS
<1>5. <<x - 1, x>> \in R
  BY <1>4
<1>. QED  BY <1>3, <1>4, <1>5

\* f starts with b and goes on with F.
Goes(f, n, S, b, F) ==
    /\ f \in [0..n -> S]
    /\ f = [i \in 0..n |-> IF i = 0 THEN b ELSE F[<<i, f[i - 1]>>]]

\* The function that starts with b and goes on with F exists: the loops of
\* select and of doRepartitionWhileLocked compute it.
LEMMA Recursion ==
    ASSUME NEW S, NEW b \in S, NEW F \in [Nat \X S -> S], NEW n \in Nat
    PROVE  \E f : Goes(f, n, S, b, F)
<1>. DEFINE Is(g, m) == g = [i \in 0..m |-> IF i = 0 THEN b ELSE F[<<i, g[i - 1]>>]]
            T == {m \in Nat : \E g \in [0..m -> S] : Is(g, m)}
<1>1. 0 \in T
  <2>. DEFINE g == [i \in 0..0 |-> b]
  <2>1. g \in [0..0 -> S] /\ Is(g, 0)
    OBVIOUS
  <2>. QED  BY <2>1
<1>2. ASSUME NEW m \in T PROVE m + 1 \in T
  <2>1. PICK g \in [0..m -> S] : Is(g, m)
    OBVIOUS
  <2>. DEFINE h == [i \in 0..(m + 1) |-> IF i <= m THEN g[i] ELSE F[<<m + 1, g[m]>>]]
  <2>2. m \in Nat /\ F[<<m + 1, g[m]>>] \in S
    OBVIOUS
  <2>3. h \in [0..(m + 1) -> S]
    BY <2>2
  <2>4. ASSUME NEW i \in 0..(m + 1)
        PROVE  h[i] = IF i = 0 THEN b ELSE F[<<i, h[i - 1]>>]
    <3>1. CASE i = 0
      <4>1. h[i] = g[0] /\ g[0] = b
        BY <2>1, <2>2, <3>1
      <4>. QED  BY <3>1, <4>1
    <3>2. CASE i # 0 /\ i <= m
      <4>1. h[i] = g[i] /\ h[i - 1] = g[i - 1]
        BY <2>2, <3>2
      <4>2. i \in 0..m /\ g[i] = F[<<i, g[i - 1]>>]
        <5>1. i \in 0..m
          BY <3>2
        <5>2. g[i] = IF i = 0 THEN b ELSE F[<<i, g[i - 1]>>]
          BY <2>1, <5>1, Zenon
        <5>. QED  BY <3>2, <5>1, <5>2, Zenon
      <4>. QED  BY <3>2, <4>1, <4>2
    <3>3. CASE i = m + 1
      <4>1. h[i] = F[<<m + 1, g[m]>>] /\ h[i - 1] = g[m] /\ i # 0
        BY <2>2, <3>3
      <4>. QED  BY <3>3, <4>1
    <3>. QED  BY <2>2, <3>1, <3>2, <3>3
  <2>5. Is(h, m + 1)
    <3>. HIDE DEF h
    <3>1. h = [i \in 0..(m + 1) |-> h[i]]
      BY <2>3
    <3>. QED  BY <2>4, <3>1
  <2>. HIDE DEF h, Is
  <2>. QED  BY <2>2, <2>3, <2>5
<1>3. T = Nat
  <2>. HIDE DEF T
  <2>1. T \in SUBSET Nat
    BY DEF T
  <2>. QED  BY <1>1, <1>2, <2>1, Induction
<1>4. PICK g \in [0..n -> S] : Is(g, n)
  BY <1>3
<1>. QED  BY <1>4, Zenon DEF Goes

-----------------------------------------------------------------------------
(* The loop of a partition policy.                                         *)

\* e counts upwards.
Rising(e) == \A i, j \in DOMAIN e : i < j => e[i] < e[j]

\* Some of the positions of a sequence can be counted in their order.
LEMMA AscendingExists ==
    ASSUME NEW n \in Nat, NEW K \in SUBSET (1..n)
    PROVE  /\ IsFiniteSet(K) /\ Cardinality(K) \in Nat
           /\ \E e \in [1..Cardinality(K) -> K] : Rising(e)
<1>. DEFINE Q(L) == \E e \in [1..Cardinality(L) -> L] : Rising(e)
            T == {m \in Nat : \A L \in SUBSET (1..m) : Q(L)}
<1>0. ASSUME NEW m \in Nat, NEW L \in SUBSET (1..m)
      PROVE  IsFiniteSet(L) /\ Cardinality(L) \in Nat
  <2>1. L \in SUBSET Nat /\ \A s \in L : s <= m
    OBVIOUS
  <2>2. IsFiniteSet(L)
    BY <2>1, FS_BoundedSetOfNaturals
  <2>. QED  BY <2>2, FS_CardinalityType
<1>1. 0 \in T
  <2>1. ASSUME NEW L \in SUBSET (1..0) PROVE Q(L)
    <3>1. L = {}
      OBVIOUS
    <3>2. Cardinality(L) = 0
      BY <3>1, FS_EmptySet, Zenon
    <3>. DEFINE e == [i \in 1..0 |-> i]
    <3>3. e \in [1..0 -> L] /\ Rising(e)
      BY DEF Rising
    <3>. HIDE DEF e
    <3>. QED  BY <3>2, <3>3, Zenon
  <2>. HIDE DEF Q
  <2>. QED  BY <2>1
<1>2. ASSUME NEW m \in T PROVE m + 1 \in T
  <2>0. m \in Nat /\ \A L \in SUBSET (1..m) : Q(L)
    OBVIOUS
  <2>1. ASSUME NEW L \in SUBSET (1..(m + 1)) PROVE Q(L)
    <3>1. CASE m + 1 \notin L
      <4>1. L \in SUBSET (1..m)
        BY <2>0, <3>1
      <4>. QED  BY <2>0, <4>1, Zenon
    <3>2. CASE m + 1 \in L
      <4>. DEFINE M == L \ {m + 1}
                  c == Cardinality(M)
      <4>1. M \in SUBSET (1..m) /\ m + 1 \in Nat
        BY <2>0
      <4>2. IsFiniteSet(L) /\ IsFiniteSet(M) /\ c \in Nat /\ Cardinality(L) \in Nat
        BY <1>0, <2>0, <4>1, Zenon
      <4>3. Cardinality(L) = c + 1
        <5>1. c = Cardinality(L) - 1
          BY <3>2, <4>2, FS_RemoveElement, Zenon
        <5>. HIDE DEF c
        <5>. QED  BY <4>2, <5>1
      <4>4. PICK d \in [1..c -> M] : Rising(d)
        BY <2>0, <4>1, Zenon
      <4>. HIDE DEF c
      <4>. DEFINE e == [i \in 1..(c + 1) |-> IF i <= c THEN d[i] ELSE m + 1]
      <4>5. e \in [1..(c + 1) -> L]
        BY <3>2, <4>2
      <4>6. Rising(e)
        <5>1. SUFFICES ASSUME NEW i \in 1..(c + 1), NEW j \in 1..(c + 1), i < j
                       PROVE  e[i] < e[j]
          BY DEF Rising
        <5>2. i \in 1..c /\ e[i] = d[i] /\ d[i] \in 1..m
          <6>1. i \in 1..c /\ e[i] = d[i]
            BY <4>2, <5>1
          <6>2. d[i] \in M
            BY <6>1, Zenon
          <6>3. d[i] \in 1..m
            BY <4>1, <6>2, Zenon
          <6>. QED  BY <6>1, <6>3, Zenon
        <5>3. CASE j <= c
          <6>1. j \in 1..c /\ e[j] = d[j] /\ j \in DOMAIN d /\ i \in DOMAIN d
            BY <4>2, <5>2, <5>3
          <6>2. d[i] < d[j]
            BY <4>4, <5>1, <6>1 DEF Rising
          <6>. QED  BY <5>2, <6>1, <6>2
        <5>4. CASE j > c
          <6>1. e[j] = m + 1
            BY <4>2, <5>4
          <6>. QED  BY <2>0, <5>2, <6>1
        <5>. QED  BY <4>2, <5>3, <5>4
      <4>. HIDE DEF e
      <4>. QED  BY <4>3, <4>5, <4>6, Zenon
    <3>. QED  BY <3>1, <3>2, Zenon
  <2>. HIDE DEF Q
  <2>. QED  BY <2>0, <2>1
<1>3. T = Nat
  <2>. HIDE DEF T
  <2>1. T \in SUBSET Nat
    BY DEF T
  <2>. QED  BY <1>1, <1>2, <2>1, Induction
<1>4. Q(K)
  <2>. HIDE DEF Q
  <2>. QED  BY <1>3
<1>. QED  BY <1>0, <1>4

\* k is what s has at the positions in K, in their order: c of them, the i-th at e[i].
IsKept(k, s, K, c, e) ==
    /\ c \in Nat /\ e \in [1..c -> K] /\ k = [i \in 1..c |-> s[e[i]]]
    /\ Rising(e) /\ \A x \in K : \E i \in 1..c : e[i] = x

\* What is kept of a sequence: the elements at the positions in K and no others,
\* each once, in their order.
LEMMA KeptEffect ==
    ASSUME NEW s, NEW n \in Nat, NEW K \in SUBSET (1..n)
    PROVE  \E c, e : IsKept(Kept(s, K), s, K, c, e)
<1>. DEFINE c == Cardinality(K)
            e == Ascending(K)
<1>1. IsFiniteSet(K) /\ c \in Nat
  BY AscendingExists
<1>2. e \in [1..c -> K] /\ Rising(e)
  BY AscendingExists, Zenon DEF Ascending, Rising
<1>3. Kept(s, K) = [i \in 1..c |-> s[e[i]]]
  <2>1. DOMAIN e = 1..c
    BY <1>2
  <2>. QED  BY <2>1, Zenon DEF Kept
<1>. HIDE DEF e, c
<1>4. IsInjective(e)
  <2>1. \A i \in 1..c : e[i] \in Nat
    <3>1. \A i \in 1..c : e[i] \in K
      BY <1>2, Zenon
    <3>2. \A k \in K : k \in Nat
      OBVIOUS
    <3>. QED  BY <3>1, <3>2, Zenon
  <2>. QED  BY <1>1, <1>2, <2>1 DEF IsInjective, Rising
<1>5. e \in Surjection(1..c, K)
  <2>1. e \in Injection(1..c, K)
    BY <1>2, <1>4, Zenon DEF Injection
  <2>2. Cardinality(1..c) = c
    BY <1>1, FS_Interval
  <2>. QED  BY <1>1, <2>1, <2>2, FS_Injection, Zenon DEF c
<1>6. \A k \in K : \E i \in 1..c : e[i] = k
  BY <1>5, Zenon DEF Surjection
<1>7. IsKept(Kept(s, K), s, K, c, e)
  BY <1>1, <1>2, <1>3, <1>6, Zenon DEF IsKept
<1>. QED  BY <1>7, Zenon

-----------------------------------------------------------------------------
(* What partitioning keeps.                                                *)

\* A backend is in one place of one partition.
Apart(parts) ==
    \A i, k \in DOMAIN parts : \A j \in DOMAIN parts[i], l \in DOMAIN parts[k] :
        parts[i][j] = parts[k][l] /\ parts[i][j] # Null => i = k /\ j = l

\* A backend that two places of a partitioned farm show is at one place.
LEMMA ApartAt ==
    ASSUME NEW parts, Apart(parts), NEW i \in DOMAIN parts, NEW k \in DOMAIN parts,
           NEW j \in DOMAIN parts[i], NEW l \in DOMAIN parts[k],
           parts[i][j] # Null, parts[i][j] = parts[k][l]
    PROVE  i = k /\ j = l
BY SMT DEF Apart

\* The backends of the datacenter come first, in partitions of their own.
PrefersLocal(parts, here) ==
    \A i, j \in DOMAIN parts : i <= j =>
        \A b \in Range(parts[i]), c \in Range(parts[j]) : c.dc = here => b.dc = here

\* The partition that is split into the halves 2i - 1 and 2i.
Whole(n) == (n + 1) \div 2

\* The halves of the partitions, in their order, and the one each is a half of.
LEMMA WholeRange ==
    ASSUME NEW n \in Nat, NEW m \in 1..2 * n
    PROVE  /\ Whole(m) \in 1..n
           /\ \A k \in 1..2 * n : m <= k => Whole(m) <= Whole(k)
           /\ \A k \in 1..2 * n : m < k /\ k % 2 = 1 => Whole(m) < Whole(k)
           /\ \A k \in 1..2 * n : m # k /\ Whole(m) = Whole(k) => (m % 2 = 1 <=> ~(k % 2 = 1))
BY DEF Whole

\* A half of a partition has some of its backends, in their order.
IsHalf(h, p, e, here, local) ==
    /\ e \in [DOMAIN h -> DOMAIN p] /\ IsInjective(e)
    /\ \A j \in DOMAIN h : h[j] = p[e[j]] /\ (h[j].dc = here <=> local)

\* The local or the remote half of a partition, as the affinity policy collects it,
\* shows backends of that partition once each, in its order.
LEMMA HalfEffect ==
    ASSUME NEW B, NEW parts \in Seq(Seq(B)), NEW here, NEW n \in 1..2 * Len(parts)
    PROVE  LET h == Half(parts, here, n)
           IN  /\ h \in Seq(B)
               /\ \E e : IsHalf(h, parts[Whole(n)], e, here, n % 2 = 1)
<1>. DEFINE p == parts[Whole(n)]
            K == IF n % 2 = 1 THEN Local(p, here) ELSE DOMAIN p \ Local(p, here)
            h == Half(parts, here, n)
<1>1. p \in Seq(B)
  <2>1. Len(parts) \in Nat /\ DOMAIN parts = 1..Len(parts)
    OBVIOUS
  <2>2. Whole(n) \in 1..Len(parts)
    BY <2>1, WholeRange
  <2>3. \A i \in 1..Len(parts) : parts[i] \in Seq(B)
    OBVIOUS
  <2>. QED  BY <2>2, <2>3, Zenon
<1>2. h = Kept(p, K)
  BY Zenon DEF Half, Whole
<1>. HIDE DEF p
<1>3. Len(p) \in Nat /\ DOMAIN p = 1..Len(p) /\ \A i \in 1..Len(p) : p[i] \in B
  BY <1>1
<1>4. /\ K \in SUBSET (1..Len(p))
      /\ \A k \in K : p[k].dc = here <=> n % 2 = 1
  BY <1>3, Zenon DEF Local
<1>. HIDE DEF K
<1>5. PICK c, e : IsKept(Kept(p, K), p, K, c, e)
  BY <1>3, <1>4, KeptEffect, Zenon
<1>6. /\ c \in Nat /\ e \in [1..c -> K] /\ Kept(p, K) = [i \in 1..c |-> p[e[i]]]
      /\ Rising(e)
  BY <1>5, Zenon DEF IsKept
<1>7. \A i \in 1..c : e[i] \in K /\ e[i] \in 1..Len(p) /\ p[e[i]] \in B
  BY <1>3, <1>4, <1>6, Zenon
<1>8. h = [i \in 1..c |-> p[e[i]]]
  BY <1>2, <1>6, Zenon
<1>. HIDE DEF h
<1>9. DOMAIN h = 1..c /\ \A i \in 1..c : h[i] = p[e[i]]
  BY <1>8, Zenon
<1>10. h \in Seq(B)
  BY <1>6, <1>7, <1>8
<1>11. e \in [DOMAIN h -> DOMAIN p]
  BY <1>3, <1>6, <1>7, <1>9, Zenon
<1>12. IsInjective(e)
  BY <1>6, <1>7 DEF IsInjective, Rising
<1>13. \A j \in DOMAIN h : h[j] = p[e[j]] /\ (h[j].dc = here <=> n % 2 = 1)
  <2>1. ASSUME NEW j \in DOMAIN h
        PROVE  h[j] = p[e[j]] /\ e[j] \in K
    BY <1>7, <1>9, Zenon
  <2>. QED  BY <1>4, <2>1
<1>14. IsHalf(h, p, e, here, n % 2 = 1)
  BY <1>11, <1>12, <1>13, Zenon DEF IsHalf
<1>. QED  BY <1>10, <1>14, Zenon DEF h, p

\* The partitions after the policy are halves of those before it, in their order.
LEMMA AffinityHalves ==
    ASSUME NEW B, NEW parts \in Seq(Seq(B)), NEW here
    PROVE  LET a == Affinity(parts, here)
           IN  /\ a \in Seq(Seq(B))
               /\ \E r \in [DOMAIN a -> 1..2 * Len(parts)] :
                     Rising(r) /\ \A i \in DOMAIN a : a[i] = Half(parts, here, r[i])
<1>. DEFINE m == 2 * Len(parts)
            halves == [n \in 1..m |-> Half(parts, here, n)]
            K == {n \in DOMAIN halves : halves[n] # <<>>}
            a == Affinity(parts, here)
<1>1. m \in Nat
  OBVIOUS
<1>2. a = Kept(halves, K) /\ K \in SUBSET (1..m)
  BY Zenon DEF Affinity
<1>3. \A n \in 1..m : halves[n] = Half(parts, here, n) /\ halves[n] \in Seq(B)
  BY HalfEffect, Zenon
<1>. HIDE DEF halves, K
<1>4. PICK c, e : IsKept(Kept(halves, K), halves, K, c, e)
  BY <1>1, <1>2, KeptEffect, Zenon
<1>5. /\ c \in Nat /\ e \in [1..c -> K]
      /\ Kept(halves, K) = [i \in 1..c |-> halves[e[i]]] /\ Rising(e)
  BY <1>4, Zenon DEF IsKept
<1>6. a = [i \in 1..c |-> halves[e[i]]]
  BY <1>2, <1>5, Zenon
<1>. HIDE DEF a, m
<1>7. \A i \in 1..c : e[i] \in 1..m /\ halves[e[i]] \in Seq(B)
  BY <1>2, <1>3, <1>5, Zenon
<1>8. a \in Seq(Seq(B)) /\ DOMAIN a = 1..c
  BY <1>5, <1>6, <1>7
<1>9. e \in [DOMAIN a -> 1..m]
  BY <1>5, <1>7, <1>8, Zenon
<1>10. \A i \in DOMAIN a : a[i] = Half(parts, here, e[i])
  BY <1>3, <1>6, <1>7, <1>8, Zenon
<1>. QED  BY <1>5, <1>8, <1>9, <1>10, Zenon DEF a, m

\* Splitting the partitions keeps the backends apart; and it puts the local ones
\* first, provided that there was one partition, or they came first already.
LEMMA AffinityEffect ==
    ASSUME NEW B, NEW parts \in Seq(Seq(B)), NEW here
    PROVE  LET a == Affinity(parts, here)
           IN  /\ a \in Seq(Seq(B))
               /\ Apart(parts) => Apart(a)
               /\ Len(parts) = 1 \/ PrefersLocal(parts, here) => PrefersLocal(a, here)
<1>. DEFINE a == Affinity(parts, here)
            m == Len(parts)
<1>1. a \in Seq(Seq(B))
  BY AffinityHalves, Zenon
<1>2. PICK r \in [DOMAIN a -> 1..2 * Len(parts)] :
          Rising(r) /\ \A i \in DOMAIN a : a[i] = Half(parts, here, r[i])
  BY AffinityHalves, Zenon
<1>3. /\ m \in Nat /\ DOMAIN parts = 1..m
      /\ DOMAIN a = 1..Len(a) /\ Len(a) \in Nat
  BY <1>1
<1>. HIDE DEF a
<1>4. \A i \in DOMAIN a : r[i] \in 1..2 * m /\ Whole(r[i]) \in DOMAIN parts
  <2>1. \A i \in DOMAIN a : r[i] \in 1..2 * m
    BY <1>2, Zenon
  <2>. QED  BY <1>3, <2>1, WholeRange, Zenon
<1>5. \A i \in DOMAIN a :
         \E e : IsHalf(a[i], parts[Whole(r[i])], e, here, r[i] % 2 = 1)
  <2>1. ASSUME NEW i \in DOMAIN a
        PROVE  \E e : IsHalf(a[i], parts[Whole(r[i])], e, here, r[i] % 2 = 1)
    <3>1. r[i] \in 1..2 * Len(parts) /\ a[i] = Half(parts, here, r[i])
      BY <1>2, Zenon
    <3>2. \E e : IsHalf(Half(parts, here, r[i]), parts[Whole(r[i])], e, here, r[i] % 2 = 1)
      BY <3>1, HalfEffect, Zenon
    <3>. QED  BY <3>1, <3>2, Zenon
  <2>. QED  BY <2>1, Zenon
<1>6. ASSUME NEW i \in DOMAIN a, NEW k \in DOMAIN a
      PROVE  /\ r[i] = r[k] => i = k
             /\ i <= k => r[i] <= r[k]
  <2>1. r[i] \in Int /\ r[k] \in Int /\ i \in Int /\ k \in Int
    BY <1>3, <1>4
  <2>2. (i < k => r[i] < r[k]) /\ (k < i => r[k] < r[i])
    BY <1>2, Zenon DEF Rising
  <2>. QED  BY <2>1, <2>2
<1>7. ASSUME Apart(parts)
      PROVE  Apart(a)
  <2>1. SUFFICES ASSUME NEW i \in DOMAIN a, NEW k \in DOMAIN a,
                        NEW j \in DOMAIN a[i], NEW l \in DOMAIN a[k],
                        a[i][j] = a[k][l], a[i][j] # Null
                 PROVE  i = k /\ j = l
    BY ZenonT(30) DEF Apart
  <2>2. PICK e : IsHalf(a[i], parts[Whole(r[i])], e, here, r[i] % 2 = 1)
    BY <1>5, Zenon
  <2>3. PICK d : IsHalf(a[k], parts[Whole(r[k])], d, here, r[k] % 2 = 1)
    BY <1>5, Zenon
  <2>4. /\ e[j] \in DOMAIN parts[Whole(r[i])] /\ d[l] \in DOMAIN parts[Whole(r[k])]
        /\ a[i][j] = parts[Whole(r[i])][e[j]] /\ a[k][l] = parts[Whole(r[k])][d[l]]
        /\ a[i][j].dc = here <=> r[i] % 2 = 1
        /\ a[k][l].dc = here <=> r[k] % 2 = 1
    BY <2>2, <2>3, Zenon DEF IsHalf
  <2>5. Whole(r[i]) = Whole(r[k]) /\ e[j] = d[l]
    <3>. DEFINE u == Whole(r[i])
                v == Whole(r[k])
                x == e[j]
                y == d[l]
    <3>1. /\ u \in DOMAIN parts /\ v \in DOMAIN parts
          /\ x \in DOMAIN parts[u] /\ y \in DOMAIN parts[v]
          /\ parts[u][x] = parts[v][y] /\ parts[u][x] # Null
      BY <1>4, <2>1, <2>4, Zenon
    <3>. HIDE DEF u, v, x, y
    <3>2. u = v /\ x = y
      BY <1>7, <3>1, ApartAt
    <3>. QED  BY <3>2, Zenon DEF u, v, x, y
  <2>6. r[i] = r[k]
    <3>1. r[i] % 2 = 1 <=> r[k] % 2 = 1
      BY <2>1, <2>4, Zenon
    <3>. QED  BY <1>3, <1>4, <2>5, <3>1, WholeRange, Zenon
  <2>7. i = k
    BY <1>6, <2>6, Zenon
  <2>8. j = l
    <3>1. IsHalf(a[i], parts[Whole(r[i])], d, here, r[i] % 2 = 1)
      BY <2>3, <2>7, Zenon
    <3>2. a[i][j] = parts[Whole(r[i])][d[j]] /\ d[j] \in DOMAIN parts[Whole(r[i])]
      BY <3>1, Zenon DEF IsHalf
    <3>3. d[j] = d[l]
      <4>. DEFINE u == Whole(r[i])
                  x == d[j]
                  y == d[l]
      <4>1. /\ u \in DOMAIN parts /\ x \in DOMAIN parts[u] /\ y \in DOMAIN parts[u]
            /\ parts[u][x] = parts[u][y] /\ parts[u][x] # Null
        BY <1>4, <2>1, <2>4, <2>5, <3>2, Zenon
      <4>. HIDE DEF u, x, y
      <4>2. x = y
        BY <1>7, <4>1, ApartAt
      <4>. QED  BY <4>2, Zenon DEF x, y
    <3>. QED  BY <2>7, <3>1, <3>3, Zenon DEF IsHalf, IsInjective
  <2>. QED  BY <2>7, <2>8, Zenon
<1>8. ASSUME Len(parts) = 1 \/ PrefersLocal(parts, here)
      PROVE  PrefersLocal(a, here)
  <2>1. SUFFICES ASSUME NEW i \in DOMAIN a, NEW k \in DOMAIN a, i <= k,
                        NEW j \in DOMAIN a[i], NEW l \in DOMAIN a[k],
                        a[k][l].dc = here
                 PROVE  a[i][j].dc = here
    BY Zenon DEF PrefersLocal, Range
  <2>2. PICK e : IsHalf(a[i], parts[Whole(r[i])], e, here, r[i] % 2 = 1)
    BY <1>5, Zenon
  <2>3. PICK d : IsHalf(a[k], parts[Whole(r[k])], d, here, r[k] % 2 = 1)
    BY <1>5, Zenon
  <2>4. /\ e[j] \in DOMAIN parts[Whole(r[i])] /\ d[l] \in DOMAIN parts[Whole(r[k])]
        /\ a[i][j] = parts[Whole(r[i])][e[j]] /\ a[k][l] = parts[Whole(r[k])][d[l]]
        /\ a[i][j].dc = here <=> r[i] % 2 = 1
        /\ a[k][l].dc = here <=> r[k] % 2 = 1
    BY <2>2, <2>3, Zenon DEF IsHalf
  <2>5. r[k] % 2 = 1 /\ r[i] <= r[k]
    BY <1>6, <2>1, <2>4, Zenon
  <2>6. CASE r[i] = r[k]
    BY <2>4, <2>5, <2>6, Zenon
  <2>7. CASE r[i] # r[k]
    <3>1. r[i] < r[k]
      BY <1>4, <2>5, <2>7
    <3>2. Whole(r[i]) < Whole(r[k])
      BY <1>3, <1>4, <2>5, <3>1, WholeRange, Zenon
    <3>3. Whole(r[i]) \in 1..m /\ Whole(r[k]) \in 1..m
      BY <1>3, <1>4, Zenon
    <3>4. Len(parts) # 1 /\ Whole(r[i]) <= Whole(r[k])
      BY <1>3, <3>2, <3>3
    <3>5. PrefersLocal(parts, here)
      BY <1>8, <3>4, Zenon
    <3>6. /\ parts[Whole(r[i])][e[j]] \in Range(parts[Whole(r[i])])
          /\ parts[Whole(r[k])][d[l]] \in Range(parts[Whole(r[k])])
      BY <2>4, Zenon DEF Range
    <3>. QED  BY <1>4, <2>1, <2>4, <3>4, <3>5, <3>6, Zenon DEF PrefersLocal
  <2>. QED  BY <2>6, <2>7, Zenon
<1>. QED  BY <1>1, <1>7, <1>8, Zenon DEF a

\* doRepartitionWhileLocked: however many policies a farm has, its backends are in
\* one place each, and the local ones come first when it has any policy at all.
LEMMA RepartitionEffect ==
    ASSUME NEW B, NEW farm, farm.policies \in Nat, NEW st, NEW here,
           Members(farm, st) \in Seq(B), Apart(<<Members(farm, st)>>)
    PROVE  LET r == Repartition(farm, st, here)
           IN  /\ r \in Seq(Seq(B)) /\ Apart(r)
               /\ farm.policies > 0 => PrefersLocal(r, here)
<1>. DEFINE S == Seq(Seq(B))
            b == <<Members(farm, st)>>
            F == [x \in Nat \X S |-> Affinity(x[2], here)]
            N == farm.policies
            Is(g) == g = [n \in 0..N |-> IF n = 0 THEN b ELSE Affinity(g[n - 1], here)]
            f == CHOOSE g : Is(g)
<1>1. b \in S /\ Len(b) = 1
  OBVIOUS
<1>2. F \in [Nat \X S -> S]
  <2>1. \A x \in Nat \X S : x[2] \in S
    OBVIOUS
  <2>. HIDE DEF S
  <2>2. \A x \in Nat \X S : Affinity(x[2], here) \in S
    BY <2>1, AffinityEffect, Zenon DEF S
  <2>. QED  BY <2>2, Zenon
<1>3. PICK g : Goes(g, N, S, b, F)
  <2>. HIDE DEF S, F, b
  <2>. QED  BY <1>1, <1>2, Recursion, Zenon
<1>4. Is(g)
  <2>1. ASSUME NEW i \in 0..N, i # 0
        PROVE  F[<<i, g[i - 1]>>] = Affinity(g[i - 1], here)
    <3>1. i \in Nat /\ i - 1 \in 0..N
      BY <2>1
    <3>2. g[i - 1] \in S
      BY <1>3, <3>1, Zenon DEF Goes
    <3>. HIDE DEF S
    <3>. QED  BY <3>1, <3>2
  <2>. HIDE DEF F, S, b
  <2>2. [i \in 0..N |-> IF i = 0 THEN b ELSE F[<<i, g[i - 1]>>]]
          = [i \in 0..N |-> IF i = 0 THEN b ELSE Affinity(g[i - 1], here)]
    BY <2>1, Zenon
  <2>. QED  BY <1>3, <2>2, Zenon DEF Goes
<1>5. Is(f)
  <2>. HIDE DEF Is
  <2>. QED  BY <1>4, Zenon
<1>6. Repartition(farm, st, here) = f[N]
  BY DEF Repartition
<1>. HIDE DEF f, b
<1>7. /\ f[0] = b
      /\ \A n \in 0..N : n # 0 => f[n] = Affinity(f[n - 1], here)
  <2>1. 0 \in 0..N
    OBVIOUS
  <2>. QED  BY <1>5, <2>1, Zenon
<1>. HIDE DEF Is
<1>. DEFINE Good(n) == /\ f[n] \in S /\ Apart(f[n])
                       /\ IF n = 0 THEN Len(f[n]) = 1 ELSE PrefersLocal(f[n], here)
            T == {n \in Nat : n <= N => Good(n)}
<1>8. 0 \in T
  <2>. HIDE DEF S
  <2>. QED  BY <1>1, <1>7 DEF b
<1>9. ASSUME NEW n \in T PROVE n + 1 \in T
  <2>1. SUFFICES ASSUME n + 1 <= N PROVE Good(n + 1)
    <3>. HIDE DEF Good
    <3>. QED  OBVIOUS
  <2>2. n \in Nat /\ n + 1 # 0 /\ n + 1 \in 0..N /\ (n + 1) - 1 = n /\ n <= N
    BY <2>1
  <2>3. Good(n)
    <3>. HIDE DEF Good
    <3>. QED  BY <2>2
  <2>4. f[n + 1] = Affinity(f[n], here)
    BY <1>7, <2>2, Zenon
  <2>5. /\ f[n] \in Seq(Seq(B)) /\ Apart(f[n])
        /\ Len(f[n]) = 1 \/ PrefersLocal(f[n], here)
    BY <2>3, Zenon
  <2>6. /\ Affinity(f[n], here) \in S /\ Apart(Affinity(f[n], here))
        /\ PrefersLocal(Affinity(f[n], here), here)
    BY <2>5, AffinityEffect, Zenon
  <2>. QED  BY <2>2, <2>4, <2>6, Zenon
<1>10. T = Nat
  <2>. HIDE DEF T
  <2>1. T \in SUBSET Nat
    BY DEF T
  <2>. QED  BY <1>8, <1>9, <2>1, Induction
<1>11. Good(N)
  <2>. HIDE DEF Good
  <2>. QED  BY <1>10
<1>12. N > 0 => N # 0
  OBVIOUS
<1>. QED  BY <1>6, <1>11, <1>12, Zenon

-----------------------------------------------------------------------------
(* RobinBackendSelector::select.                                           *)

\* The n-th entry of Skipped, and the number of all backends.
LEMMA SkippedEffect ==
    ASSUME NEW B, NEW parts \in Seq(Seq(B))
    PROVE  /\ Skipped(parts) \in [0..Len(parts) -> Nat]
           /\ Skipped(parts)[0] = 0
           /\ \A i \in 1..Len(parts) :
                Skipped(parts)[i] = Skipped(parts)[i - 1] + Len(parts[i])
<1>. DEFINE L == Len(parts)
            F == [x \in Nat \X Nat |-> IF x[1] \in 1..L THEN x[2] + Len(parts[x[1]]) ELSE 0]
            Is(g) == g = [i \in 0..L |-> IF i = 0 THEN 0 ELSE g[i - 1] + Len(parts[i])]
            f == CHOOSE g : Is(g)
<1>1. L \in Nat /\ \A i \in 1..L : Len(parts[i]) \in Nat
  <2>1. L \in Nat /\ \A i \in 1..L : parts[i] \in Seq(B)
    OBVIOUS
  <2>. QED  BY <2>1
<1>2. F \in [Nat \X Nat -> Nat]
  <2>. HIDE DEF L
  <2>1. ASSUME NEW x \in Nat \X Nat
        PROVE  (IF x[1] \in 1..L THEN x[2] + Len(parts[x[1]]) ELSE 0) \in Nat
    <3>1. x[1] \in Nat /\ x[2] \in Nat
      OBVIOUS
    <3>. QED  BY <1>1, <3>1
  <2>. QED  BY <2>1, Zenon
<1>3. PICK g : Goes(g, L, Nat, 0, F)
  <2>. HIDE DEF F, L
  <2>1. 0 \in Nat
    OBVIOUS
  <2>. QED  BY <1>1, <1>2, <2>1, Recursion, Zenon
<1>4. g \in [0..L -> Nat] /\ Is(g)
  <2>1. /\ g \in [0..L -> Nat]
        /\ g = [i \in 0..L |-> IF i = 0 THEN 0 ELSE F[<<i, g[i - 1]>>]]
    BY <1>3, Zenon DEF Goes
  <2>2. ASSUME NEW i \in 0..L, i # 0
        PROVE  F[<<i, g[i - 1]>>] = g[i - 1] + Len(parts[i])
    <3>1. i \in Nat /\ i \in 1..L /\ i - 1 \in 0..L
      BY <2>2
    <3>2. g[i - 1] \in Nat
      BY <2>1, <3>1, Zenon
    <3>. QED  BY <3>1, <3>2
  <2>. HIDE DEF F, L
  <2>3. [i \in 0..L |-> IF i = 0 THEN 0 ELSE F[<<i, g[i - 1]>>]]
          = [i \in 0..L |-> IF i = 0 THEN 0 ELSE g[i - 1] + Len(parts[i])]
    BY <2>2, Zenon
  <2>. QED  BY <2>1, <2>3, Zenon
<1>5. Is(f)
  <2>. HIDE DEF Is
  <2>. QED  BY <1>4, Zenon
<1>6. Skipped(parts) = f
  BY DEF Skipped
<1>. HIDE DEF f, F, L
<1>7. /\ DOMAIN f = 0..L /\ f[0] = 0
      /\ \A i \in 1..L : f[i] = f[i - 1] + Len(parts[i])
  <2>1. 0 \in 0..L /\ \A i \in 1..L : i \in 0..L /\ i # 0
    BY <1>1
  <2>2. DOMAIN f = 0..L
    BY <1>5, Zenon
  <2>3. \A i \in 0..L : f[i] = IF i = 0 THEN 0 ELSE f[i - 1] + Len(parts[i])
    BY <1>5, Zenon
  <2>. QED  BY <2>1, <2>2, <2>3, Zenon
<1>. DEFINE T == {n \in Nat : n <= L => f[n] \in Nat}
<1>8. 0 \in T
  BY <1>7
<1>9. ASSUME NEW n \in T PROVE n + 1 \in T
  <2>1. SUFFICES ASSUME n + 1 <= L PROVE f[n + 1] \in Nat
    OBVIOUS
  <2>2. n \in Nat /\ n + 1 \in 1..L /\ (n + 1) - 1 = n /\ f[n] \in Nat
    BY <1>1, <2>1
  <2>3. f[n + 1] = f[n] + Len(parts[n + 1]) /\ Len(parts[n + 1]) \in Nat
    BY <1>1, <1>7, <2>2
  <2>. QED  BY <2>2, <2>3
<1>10. T = Nat
  <2>. HIDE DEF T
  <2>1. T \in SUBSET Nat
    BY DEF T
  <2>. QED  BY <1>8, <1>9, <2>1, Induction
<1>11. f \in [0..L -> Nat]
  <2>1. \A n \in 0..L : f[n] \in Nat
    BY <1>1, <1>10
  <2>2. f = [n \in 0..L |-> f[n]]
    BY <1>5, <1>7, Zenon
  <2>. QED  BY <2>1, <2>2, Zenon
<1>. QED  BY <1>6, <1>7, <1>11, Zenon DEF L

\* It never falls.
LEMMA SkippedRises ==
    ASSUME NEW B, NEW parts \in Seq(Seq(B)),
           NEW i \in 0..Len(parts), NEW k \in 0..Len(parts), i <= k
    PROVE  Skipped(parts)[i] <= Skipped(parts)[k]
<1>. DEFINE L == Len(parts)
            f == Skipped(parts)
            T == {d \in Nat : \A j \in 0..L : j + d <= L => f[j] <= f[j + d]}
<1>1. /\ L \in Nat /\ f \in [0..L -> Nat]
      /\ \A j \in 1..L : f[j] = f[j - 1] + Len(parts[j]) /\ Len(parts[j]) \in Nat
  <2>1. \A j \in 1..L : parts[j] \in Seq(B)
    OBVIOUS
  <2>2. \A j \in 1..L : Len(parts[j]) \in Nat
    BY <2>1
  <2>3. L \in Nat
    OBVIOUS
  <2>. QED  BY <2>2, <2>3, SkippedEffect, Zenon
<1>. HIDE DEF f, L
<1>2. 0 \in T
  BY <1>1
<1>3. ASSUME NEW d \in T PROVE d + 1 \in T
  <2>0. d \in Nat
    OBVIOUS
  <2>1. ASSUME NEW j \in 0..L, j + (d + 1) <= L
        PROVE  f[j] <= f[j + (d + 1)]
    <3>1. j + d <= L /\ j + d \in 0..L /\ j + d + 1 \in 1..L /\ (j + d + 1) - 1 = j + d
      BY <1>1, <2>0, <2>1
    <3>2. f[j] <= f[j + d]
      BY <1>3, <3>1
    <3>3. f[j + d + 1] = f[j + d] + Len(parts[j + d + 1]) /\ Len(parts[j + d + 1]) \in Nat
      BY <1>1, <3>1
    <3>4. f[j] \in Nat /\ f[j + d] \in Nat
      BY <1>1, <3>1
    <3>5. j + (d + 1) = j + d + 1
      BY <2>0
    <3>. QED  BY <3>2, <3>3, <3>4, <3>5
  <2>. QED  BY <2>0, <2>1
<1>4. T = Nat
  <2>. HIDE DEF T
  <2>1. T \in SUBSET Nat
    BY DEF T
  <2>. QED  BY <1>2, <1>3, <2>1, Induction
<1>. HIDE DEF T
<1>5. k - i \in T /\ i \in 0..L /\ i + (k - i) = k /\ k <= L
  <2>1. i \in 0..L /\ k \in 0..L
    BY DEF L
  <2>2. k - i \in Nat /\ i + (k - i) = k /\ k <= L
    BY <1>1, <2>1
  <2>. QED  BY <1>4, <2>1, <2>2
<1>6. f[i] <= f[i + (k - i)]
  BY <1>5 DEF T
<1>. QED  BY <1>5, <1>6, Zenon DEF f

\* The backends of a partition are selected one after the other, from the marker on.
LEMMA Rotation ==
    ASSUME NEW n \in Nat \ {0}, NEW m \in Nat
    PROVE  /\ \A r \in Nat : (m + r) % n \in 0..(n - 1)
           /\ \A r, s \in 0..(n - 1) : (m + r) % n = (m + s) % n => r = s
           /\ \A p \in 0..(n - 1) : \E r \in 0..(n - 1) : (m + r) % n = p
<1>1. ASSUME NEW x \in Nat
      PROVE  /\ x % n \in 0..(n - 1) /\ x \div n \in Nat
             /\ x = n * (x \div n) + (x % n)
  OBVIOUS
<1>2. ASSUME NEW x \in Nat, NEW q \in Nat, NEW p \in 0..(n - 1), x = n * q + p
      PROVE  x % n = p
  <2>. DEFINE d == x \div n
              e == x % n
  <2>1. e \in 0..(n - 1) /\ d \in Nat /\ n * d + e = n * q + p
    BY <1>1, <1>2
  <2>. HIDE DEF d, e
  <2>2. n * (d - q) = p - e
    BY <2>1
  <2>3. d - q = 0
    <3>1. ~(d - q >= 1)
      <4>1. d - q >= 1 => n * (d - q) >= n
        BY <2>1
      <4>. QED  BY <2>1, <2>2, <4>1
    <3>2. ~(d - q <= -1)
      <4>1. d - q <= -1 => n * (d - q) <= 0 - n
        BY <2>1
      <4>. QED  BY <2>1, <2>2, <4>1
    <3>. QED  BY <2>1, <3>1, <3>2
  <2>4. e = p
    BY <2>1, <2>2, <2>3
  <2>. QED  BY <2>4 DEF e
<1>3. \A r \in Nat : (m + r) % n \in 0..(n - 1)
  BY <1>1
<1>. DEFINE q == m \div n
            o == m % n
<1>4. o \in 0..(n - 1) /\ q \in Nat /\ m = n * q + o
  BY <1>1
<1>. HIDE DEF q, o
<1>5. ASSUME NEW r \in 0..(n - 1)
      PROVE  (m + r) % n = IF o + r < n THEN o + r ELSE o + r - n
  <2>1. CASE o + r < n
    <3>1. o + r \in 0..(n - 1) /\ m + r \in Nat /\ m + r = n * q + (o + r)
      BY <1>4, <2>1
    <3>2. (m + r) % n = o + r
      BY <1>2, <1>4, <3>1
    <3>. QED  BY <2>1, <3>2
  <2>2. CASE ~(o + r < n)
    <3>1. o + r - n \in 0..(n - 1) /\ m + r \in Nat
      BY <1>4, <2>2
    <3>2. m + r = n * (q + 1) + (o + r - n) /\ q + 1 \in Nat
      BY <1>4
    <3>3. (m + r) % n = o + r - n
      BY <1>2, <3>1, <3>2
    <3>. QED  BY <2>2, <3>3
  <2>. QED  BY <2>1, <2>2
<1>6. ASSUME NEW r \in 0..(n - 1), NEW s \in 0..(n - 1), (m + r) % n = (m + s) % n
      PROVE  r = s
  <2>. DEFINE x == (m + r) % n
              y == (m + s) % n
  <2>1. /\ x = (IF o + r < n THEN o + r ELSE o + r - n)
        /\ y = (IF o + s < n THEN o + s ELSE o + s - n) /\ x = y
    BY <1>5, <1>6, Zenon
  <2>. HIDE DEF x, y
  <2>. QED  BY <1>4, <2>1
<1>7. ASSUME NEW p \in 0..(n - 1)
      PROVE  \E r \in 0..(n - 1) : (m + r) % n = p
  <2>. DEFINE r == IF o <= p THEN p - o ELSE p - o + n
  <2>1. r \in 0..(n - 1) /\ p = (IF o + r < n THEN o + r ELSE o + r - n)
    BY <1>4
  <2>. HIDE DEF r
  <2>2. (m + r) % n = p
    BY <1>5, <2>1, Zenon
  <2>. QED  BY <2>1, <2>2, Zenon
<1>. QED  BY <1>3, <1>6, <1>7, Zenon

-----------------------------------------------------------------------------
(* The backend that the selector picks for a retry count.                  *)

\* Partitions, and a marker for each of them.
Marking(parts, markers) ==
    /\ markers \in Seq(Nat) /\ Len(markers) = Len(parts)

\* The retry count falls on the j-th backend of the i-th partition.
FallsOn(parts, markers, retry, i, j) ==
    LET n == Skipped(parts)
    IN  /\ i \in DOMAIN parts /\ j \in DOMAIN parts[i]
        /\ n[i - 1] <= retry /\ retry < n[i]
        /\ j = ((markers[i] + (retry - n[i - 1])) % Len(parts[i])) + 1

\* The j-th backend of the i-th partition is selected.
Picks(parts, markers, retry, i, j) ==
    /\ FallsOn(parts, markers, retry, i, j)
    /\ Select(parts, markers, retry) = parts[i][j]

\* Every retry count below the number of backends falls in a partition, and in one
\* only.
LEMMA PartitionFound ==
    ASSUME NEW B, NEW parts \in Seq(Seq(B)), NEW retry \in Nat
    PROVE  /\ retry < Skipped(parts)[Len(parts)] <=> PartitionOf(parts, retry) # {}
           /\ \A i, k \in PartitionOf(parts, retry) : i = k
<1>. DEFINE L == Len(parts)
            f == Skipped(parts)
            In(i) == f[i - 1] <= retry /\ retry < f[i]
            T == {m \in Nat : m <= L /\ retry < f[m] => \E i \in 1..m : In(i)}
<1>1. /\ L \in Nat /\ f \in [0..L -> Nat] /\ f[0] = 0 /\ DOMAIN parts = 1..L
      /\ \A i, k \in 0..L : i <= k => f[i] <= f[k]
  <2>1. L \in Nat /\ DOMAIN parts = 1..L
    OBVIOUS
  <2>. QED  BY <2>1, SkippedEffect, SkippedRises, Zenon
<1>2. PartitionOf(parts, retry) = {i \in 1..L : In(i)}
  BY <1>1, Zenon DEF PartitionOf
<1>. HIDE DEF L, f
<1>3. 0 \in T
  BY <1>1
<1>4. ASSUME NEW m \in T PROVE m + 1 \in T
  <2>0. m \in Nat
    OBVIOUS
  <2>1. SUFFICES ASSUME m + 1 <= L, retry < f[m + 1]
                 PROVE  \E i \in 1..(m + 1) : In(i)
    BY <2>0
  <2>2. CASE retry < f[m]
    <3>1. PICK i \in 1..m : In(i)
      <4>1. m <= L
        BY <1>1, <2>0, <2>1
      <4>. QED  BY <2>2, <4>1
    <3>2. i \in 1..(m + 1)
      BY <2>0
    <3>. QED  BY <3>1, <3>2, Zenon
  <2>3. CASE ~(retry < f[m])
    <3>1. m \in 0..L /\ f[m] \in Nat /\ (m + 1) - 1 = m /\ m + 1 \in 1..(m + 1)
      BY <1>1, <2>0, <2>1
    <3>2. f[(m + 1) - 1] <= retry
      BY <2>3, <3>1
    <3>. QED  BY <2>1, <3>1, <3>2, Zenon
  <2>. QED  BY <2>2, <2>3, Zenon
<1>5. T = Nat
  <2>. HIDE DEF T
  <2>1. T \in SUBSET Nat
    BY DEF T
  <2>. QED  BY <1>3, <1>4, <2>1, Induction
<1>6. retry < f[L] => PartitionOf(parts, retry) # {}
  <2>1. SUFFICES ASSUME retry < f[L]
                 PROVE  \E i \in 1..L : In(i)
    BY <1>2, Zenon
  <2>2. L \in T
    BY <1>1, <1>5, Zenon
  <2>3. L <= L
    BY <1>1
  <2>. QED  BY <2>1, <2>2, <2>3, Zenon
<1>7. ASSUME NEW i \in 1..L, In(i)
      PROVE  retry < f[L]
  <2>1. i \in 0..L /\ L \in 0..L /\ f[i] \in Nat /\ f[L] \in Nat /\ i <= L
    BY <1>1, <1>7
  <2>2. f[i] <= f[L]
    BY <1>1, <2>1
  <2>. QED  BY <1>7, <2>1, <2>2
<1>8. ASSUME NEW i \in 1..L, NEW k \in 1..L, In(i), In(k), i < k
      PROVE  FALSE
  <2>1. i \in 0..L /\ k - 1 \in 0..L /\ f[i] \in Nat /\ f[k - 1] \in Nat /\ i <= k - 1
    BY <1>1, <1>8
  <2>2. f[i] <= f[k - 1]
    BY <1>1, <2>1
  <2>. QED  BY <1>8, <2>1, <2>2
<1>9. \A i, k \in 1..L : In(i) /\ In(k) => i = k
  <2>1. ASSUME NEW i \in 1..L, NEW k \in 1..L, In(i), In(k)
        PROVE  i = k
    <3>. HIDE DEF In
    <3>1. ~(i < k) /\ ~(k < i)
      BY <1>8, <2>1, Zenon
    <3>. QED  BY <3>1
  <2>. QED  BY <2>1, Zenon
<1>. QED  BY <1>2, <1>6, <1>7, <1>9, Zenon DEF f, L

\* A partition of n backends, and the numbers around it.
LEMMA PartitionNumbers ==
    ASSUME NEW B, NEW parts \in Seq(Seq(B)), NEW markers, Marking(parts, markers),
           NEW i \in DOMAIN parts
    PROVE  /\ i \in 1..Len(parts) /\ Len(parts) \in Nat
           /\ Len(parts[i]) \in Nat /\ DOMAIN parts[i] = 1..Len(parts[i])
           /\ Skipped(parts)[i - 1] \in Nat /\ Skipped(parts)[i] \in Nat
           /\ Skipped(parts)[i] = Skipped(parts)[i - 1] + Len(parts[i])
           /\ markers[i] \in Nat
<1>1. i \in 1..Len(parts) /\ Len(parts) \in Nat /\ parts[i] \in Seq(B)
  OBVIOUS
<1>2. Len(parts[i]) \in Nat /\ DOMAIN parts[i] = 1..Len(parts[i])
  BY <1>1
<1>3. i \in 0..Len(parts) /\ i - 1 \in 0..Len(parts)
  BY <1>1
<1>4. markers[i] \in Nat
  BY <1>1 DEF Marking
<1>5. /\ Skipped(parts) \in [0..Len(parts) -> Nat]
      /\ Skipped(parts)[i] = Skipped(parts)[i - 1] + Len(parts[i])
  BY <1>1, SkippedEffect, Zenon
<1>6. Skipped(parts)[i - 1] \in Nat /\ Skipped(parts)[i] \in Nat
  BY <1>3, <1>5, Zenon
<1>. QED  BY <1>1, <1>2, <1>4, <1>5, <1>6, Zenon

\* The selector returns the backend that the retry count falls on, or none when the
\* count has passed them all.
LEMMA Selected ==
    ASSUME NEW B, NEW parts \in Seq(Seq(B)), NEW markers, Marking(parts, markers),
           NEW retry \in Nat
    PROVE  \/ /\ PartitionOf(parts, retry) = {}
              /\ retry >= Skipped(parts)[Len(parts)]
              /\ Select(parts, markers, retry) = Null
           \/ \E i, j : Picks(parts, markers, retry, i, j)
<1>. DEFINE I == PartitionOf(parts, retry)
            n == Skipped(parts)
<1>0. n[Len(parts)] \in Nat
  <2>1. Len(parts) \in 0..Len(parts)
    OBVIOUS
  <2>. QED  BY <2>1, SkippedEffect, Zenon
<1>1. CASE I = {}
  <2>1. ~(retry < n[Len(parts)])
    BY <1>1, PartitionFound, Zenon
  <2>2. retry >= n[Len(parts)]
    BY <1>0, <2>1
  <2>3. Select(parts, markers, retry) = Null
    BY <1>1, Zenon DEF Select
  <2>. QED  BY <1>1, <2>2, <2>3, Zenon
<1>2. CASE I # {}
  <2>. DEFINE i == CHOOSE k \in I : TRUE
              r == retry - n[i - 1]
              j == ((markers[i] + r) % Len(parts[i])) + 1
  <2>1. i \in I
    BY <1>2, Zenon
  <2>2. Select(parts, markers, retry) = parts[i][j]
    BY <1>2, Zenon DEF Select
  <2>. HIDE DEF i
  <2>3. i \in DOMAIN parts /\ n[i - 1] <= retry /\ retry < n[i]
    BY <2>1, Zenon DEF PartitionOf
  <2>4. /\ Len(parts[i]) \in Nat /\ DOMAIN parts[i] = 1..Len(parts[i])
        /\ n[i - 1] \in Nat /\ n[i] \in Nat /\ n[i] = n[i - 1] + Len(parts[i])
        /\ markers[i] \in Nat
    BY <2>3, PartitionNumbers, Zenon
  <2>. HIDE DEF n
  <2>5. Len(parts[i]) \in Nat \ {0} /\ r \in Nat
    BY <2>3, <2>4
  <2>6. (markers[i] + r) % Len(parts[i]) \in 0..(Len(parts[i]) - 1)
    <3>. HIDE DEF r
    <3>. QED  BY <2>4, <2>5, Rotation, Zenon
  <2>7. j \in 1..Len(parts[i])
    <3>. DEFINE x == (markers[i] + r) % Len(parts[i])
    <3>1. x \in 0..(Len(parts[i]) - 1) /\ j = x + 1
      BY <2>6, Zenon
    <3>. HIDE DEF x, j
    <3>. QED  BY <2>5, <3>1
  <2>8. FallsOn(parts, markers, retry, i, j)
    BY <2>3, <2>4, <2>7, Zenon DEF FallsOn, n
  <2>9. Picks(parts, markers, retry, i, j)
    BY <2>2, <2>8, Zenon DEF Picks
  <2>. QED  BY <2>9, Zenon
<1>. QED  BY <1>1, <1>2, Zenon

\* Two retry counts never fall on the same backend.
LEMMA FallsOnce ==
    ASSUME NEW B, NEW parts \in Seq(Seq(B)), NEW markers, Marking(parts, markers),
           NEW r \in Nat, NEW s \in Nat, NEW i, NEW j,
           FallsOn(parts, markers, r, i, j), FallsOn(parts, markers, s, i, j)
    PROVE  r = s
<1>. DEFINE n == Skipped(parts)
            m == Len(parts[i])
            x == r - n[i - 1]
            y == s - n[i - 1]
<1>1. /\ i \in DOMAIN parts
      /\ n[i - 1] <= r /\ r < n[i] /\ n[i - 1] <= s /\ s < n[i]
      /\ j = ((markers[i] + x) % m) + 1 /\ j = ((markers[i] + y) % m) + 1
  BY Zenon DEF FallsOn
<1>2. /\ m \in Nat /\ n[i - 1] \in Nat /\ n[i] \in Nat /\ n[i] = n[i - 1] + m
      /\ markers[i] \in Nat
  BY <1>1, PartitionNumbers, Zenon
<1>. HIDE DEF n, m
<1>3. m \in Nat \ {0} /\ x \in 0..(m - 1) /\ y \in 0..(m - 1)
  <2>. DEFINE low == n[i - 1]
              high == n[i]
  <2>1. /\ low \in Nat /\ high = low + m /\ x = r - low /\ y = s - low
        /\ low <= r /\ r < high /\ low <= s /\ s < high
    BY <1>1, <1>2, Zenon
  <2>. HIDE DEF low, high, x, y
  <2>. QED  BY <1>2, <2>1
<1>. HIDE DEF x, y
<1>4. /\ (markers[i] + x) % m \in 0..(m - 1) /\ (markers[i] + y) % m \in 0..(m - 1)
  <2>1. x \in Nat /\ y \in Nat
    BY <1>3
  <2>. QED  BY <1>2, <1>3, <2>1, Rotation, Zenon
<1>5. (markers[i] + x) % m = (markers[i] + y) % m
  <2>. DEFINE u == (markers[i] + x) % m
              v == (markers[i] + y) % m
  <2>1. u \in 0..(m - 1) /\ v \in 0..(m - 1) /\ u + 1 = v + 1
    BY <1>1, <1>4, Zenon
  <2>. HIDE DEF u, v
  <2>2. u = v
    BY <1>3, <2>1
  <2>. QED  BY <2>2, Zenon DEF u, v
<1>6. x = y
  BY <1>2, <1>3, <1>5, Rotation, Zenon
<1>. QED  BY <1>2, <1>6 DEF x, y

\* Every backend of a partition has a retry count that falls on it.
LEMMA FallsSometime ==
    ASSUME NEW B, NEW parts \in Seq(Seq(B)), NEW markers, Marking(parts, markers),
           NEW i \in DOMAIN parts, NEW j \in DOMAIN parts[i]
    PROVE  \E r \in Nat : FallsOn(parts, markers, r, i, j)
<1>. DEFINE n == Skipped(parts)
            m == Len(parts[i])
<1>1. /\ m \in Nat /\ n[i - 1] \in Nat /\ n[i] \in Nat /\ n[i] = n[i - 1] + m
      /\ markers[i] \in Nat /\ DOMAIN parts[i] = 1..m
  BY PartitionNumbers, Zenon
<1>. HIDE DEF n, m
<1>2. m \in Nat \ {0} /\ j - 1 \in 0..(m - 1) /\ (j - 1) + 1 = j
  BY <1>1
<1>3. PICK x \in 0..(m - 1) : (markers[i] + x) % m = j - 1
  <2>. DEFINE k == markers[i]
              p == j - 1
  <2>1. k \in Nat /\ p \in 0..(m - 1) /\ m \in Nat \ {0}
    BY <1>1, <1>2, Zenon
  <2>. HIDE DEF k, p
  <2>2. \A q \in 0..(m - 1) : \E x \in 0..(m - 1) : (k + x) % m = q
    BY <2>1, Rotation, Zenon
  <2>3. \E x \in 0..(m - 1) : (k + x) % m = p
    BY <2>1, <2>2, Zenon
  <2>. QED  BY <2>3, Zenon DEF k, p
<1>. DEFINE r == n[i - 1] + x
<1>4. r \in Nat /\ n[i - 1] <= r /\ r < n[i] /\ r - n[i - 1] = x
  <2>. DEFINE low == n[i - 1]
              high == n[i]
  <2>1. low \in Nat /\ high = low + m /\ r = low + x
    BY <1>1, Zenon
  <2>. HIDE DEF low, high, r
  <2>2. r \in Nat /\ low <= r /\ r < high /\ r - low = x
    BY <1>2, <2>1
  <2>. QED  BY <2>2, Zenon DEF low, high
<1>. HIDE DEF r
<1>5. j = ((markers[i] + (r - n[i - 1])) % m) + 1
  BY <1>2, <1>3, <1>4, Zenon
<1>6. FallsOn(parts, markers, r, i, j)
  BY <1>4, <1>5, Zenon DEF FallsOn, n, m
<1>. QED  BY <1>4, <1>6, Zenon

\* What falls on a backend is what selects it.
LEMMA FallsIsSelected ==
    ASSUME NEW B, NEW parts \in Seq(Seq(B)), NEW markers, Marking(parts, markers),
           NEW r \in Nat, NEW i, NEW j, FallsOn(parts, markers, r, i, j)
    PROVE  Picks(parts, markers, r, i, j)
<1>1. i \in DOMAIN parts /\ j \in DOMAIN parts[i] /\ i \in PartitionOf(parts, r)
  BY Zenon DEF FallsOn, PartitionOf
<1>2. PICK k, l : Picks(parts, markers, r, k, l)
  BY <1>1, Selected, Zenon
<1>3. k \in PartitionOf(parts, r)
  BY <1>2, Zenon DEF Picks, FallsOn, PartitionOf
<1>4. k = i
  BY <1>1, <1>3, PartitionFound, Zenon
<1>5. l = j
  BY <1>2, <1>4, Zenon DEF Picks, FallsOn
<1>. QED  BY <1>2, <1>4, <1>5, Zenon

\* The contract of a selector: no backend is selected by two retry counts.
LEMMA SelectOnce ==
    ASSUME NEW B, NEW parts \in Seq(Seq(B)), NEW markers, Marking(parts, markers),
           Apart(parts), NEW r \in Nat, NEW s \in Nat,
           Select(parts, markers, r) # Null,
           Select(parts, markers, r) = Select(parts, markers, s)
    PROVE  r = s
<1>1. PICK i, j : Picks(parts, markers, r, i, j)
  BY Selected, Zenon
<1>2. PICK k, l : Picks(parts, markers, s, k, l)
  BY Selected, Zenon
<1>3. /\ i \in DOMAIN parts /\ j \in DOMAIN parts[i]
      /\ k \in DOMAIN parts /\ l \in DOMAIN parts[k]
      /\ parts[i][j] # Null /\ parts[i][j] = parts[k][l]
  BY <1>1, <1>2, Zenon DEF Picks, FallsOn
<1>4. i = k /\ j = l
  BY <1>3, ApartAt, Zenon
<1>5. FallsOn(parts, markers, r, i, j) /\ FallsOn(parts, markers, s, i, j)
  BY <1>1, <1>2, <1>4, Zenon DEF Picks
<1>. QED  BY <1>5, FallsOnce, Zenon

\* A lower retry count selects b.
Before(parts, markers, retry, b) ==
    \E s \in Nat : s < retry /\ Select(parts, markers, s) = b

\* The backends of earlier partitions are selected by lower retry counts.
LEMMA SelectInOrder ==
    ASSUME NEW B, NEW parts \in Seq(Seq(B)), NEW markers, Marking(parts, markers),
           Apart(parts), NEW r \in Nat, NEW k \in DOMAIN parts, NEW i \in DOMAIN parts,
           i < k, Select(parts, markers, r) # Null,
           Select(parts, markers, r) \in Range(parts[k]), NEW b \in Range(parts[i])
    PROVE  Before(parts, markers, r, b)
<1>. DEFINE n == Skipped(parts)
<1>1. PICK h, l : Picks(parts, markers, r, h, l)
  BY Selected, Zenon
<1>2. PICK m \in DOMAIN parts[k] : Select(parts, markers, r) = parts[k][m]
  BY Zenon DEF Range
<1>3. /\ h \in DOMAIN parts /\ l \in DOMAIN parts[h]
      /\ parts[h][l] # Null /\ parts[h][l] = parts[k][m]
  BY <1>1, <1>2, Zenon DEF Picks, FallsOn
<1>4. h = k
  BY <1>3, ApartAt, Zenon
<1>5. n[k - 1] <= r
  BY <1>1, <1>4, Zenon DEF Picks, FallsOn
<1>6. PICK j \in DOMAIN parts[i] : b = parts[i][j]
  BY Zenon DEF Range
<1>7. PICK s \in Nat : FallsOn(parts, markers, s, i, j)
  BY FallsSometime, Zenon
<1>8. Select(parts, markers, s) = b
  <2>1. Picks(parts, markers, s, i, j)
    BY <1>7, FallsIsSelected, Zenon
  <2>. QED  BY <1>6, <2>1, Zenon DEF Picks
<1>9. s < n[i]
  BY <1>7, Zenon DEF FallsOn
<1>10. n[i] \in Nat /\ n[k - 1] \in Nat
  BY PartitionNumbers, Zenon
<1>11. n[i] <= n[k - 1]
  <2>1. i \in 0..Len(parts) /\ k - 1 \in 0..Len(parts) /\ i <= k - 1
    OBVIOUS
  <2>. QED  BY <2>1, SkippedRises, Zenon
<1>. HIDE DEF n
<1>12. s < r
  BY <1>5, <1>9, <1>10, <1>11
<1>. QED  BY <1>8, <1>12, Zenon DEF Before

\* Once nothing is selected any more, every backend was, provided that the set has
\* no pointer to no backend.
LEMMA SelectAll ==
    ASSUME NEW B, NEW parts \in Seq(Seq(B)), NEW markers, Marking(parts, markers),
           Null \notin B, NEW r \in Nat, Select(parts, markers, r) = Null,
           NEW i \in DOMAIN parts, NEW b \in Range(parts[i])
    PROVE  Before(parts, markers, r, b)
<1>. DEFINE n == Skipped(parts)
<1>1. r >= n[Len(parts)]
  <2>1. ASSUME NEW h, NEW l, Picks(parts, markers, r, h, l)
        PROVE  FALSE
    <3>1. h \in DOMAIN parts /\ l \in DOMAIN parts[h]
      BY <2>1, Zenon DEF Picks, FallsOn
    <3>2. parts[h] \in Seq(B)
      BY <3>1
    <3>3. parts[h][l] \in B
      BY <3>1, <3>2
    <3>. QED  BY <2>1, <3>3, Zenon DEF Picks
  <2>. QED  BY <2>1, Selected, Zenon
<1>2. PICK j \in DOMAIN parts[i] : b = parts[i][j]
  BY Zenon DEF Range
<1>3. PICK s \in Nat : FallsOn(parts, markers, s, i, j)
  BY FallsSometime, Zenon
<1>4. Select(parts, markers, s) = b
  <2>1. Picks(parts, markers, s, i, j)
    BY <1>3, FallsIsSelected, Zenon
  <2>. QED  BY <1>2, <2>1, Zenon DEF Picks
<1>5. s < n[i]
  BY <1>3, Zenon DEF FallsOn
<1>6. n[i] \in Nat /\ n[Len(parts)] \in Nat
  <2>1. n \in [0..Len(parts) -> Nat]
    BY SkippedEffect, Zenon
  <2>2. i \in 0..Len(parts) /\ Len(parts) \in 0..Len(parts)
    OBVIOUS
  <2>. QED  BY <2>1, <2>2, Zenon
<1>7. n[i] <= n[Len(parts)]
  <2>1. i \in 0..Len(parts) /\ Len(parts) \in 0..Len(parts) /\ i <= Len(parts)
    OBVIOUS
  <2>. QED  BY <2>1, SkippedRises, Zenon
<1>. HIDE DEF n
<1>8. s < r
  BY <1>1, <1>5, <1>6, <1>7
<1>. QED  BY <1>4, <1>8, Zenon DEF Before

\* q lists the elements of S, each of them once.
Lists(q, S) ==
    /\ q \in Seq(S) /\ DOMAIN q = 1..Len(q) /\ Len(q) \in Nat
    /\ \A i, j \in DOMAIN q : q[i] = q[j] => i = j
    /\ \A x \in S : \E i \in DOMAIN q : q[i] = x

\* A finite set, iterated over.
LEMMA Listed ==
    ASSUME NEW S, IsFiniteSet(S)
    PROVE  Lists(Listing(S), S)
<1>. DEFINE n == Cardinality(S)
            q == Listing(S)
<1>1. n \in Nat /\ ExistsBijection(1..n, S)
  BY FS_CardinalityType, Zenon
<1>2. PICK f : f \in Bijection(1..n, S)
  BY <1>1, Zenon DEF ExistsBijection
<1>3. f \in [1..n -> S] /\ IsInjective(f)
  BY <1>2, Zenon DEF Bijection, Injection
<1>4. q \in [1..n -> S] /\ IsInjective(q)
  BY <1>3, Zenon DEF Listing
<1>5. q \in Injection(1..n, S)
  BY <1>4, Zenon DEF Injection
<1>. HIDE DEF q, n
<1>6. IsFiniteSet(1..n) /\ Cardinality(1..n) = n
  BY <1>1, FS_Interval
<1>7. q \in Surjection(1..n, S)
  <2>1. Cardinality(1..n) = Cardinality(S)
    BY <1>6, Zenon DEF n
  <2>. QED  BY <1>5, <2>1, FS_Injection, Zenon
<1>8. \A x \in S : \E i \in 1..n : q[i] = x
  BY <1>7, Zenon DEF Surjection
<1>9. q \in Seq(S) /\ DOMAIN q = 1..n /\ Len(q) = n
  BY <1>1, <1>4
<1>10. \A i, j \in DOMAIN q : q[i] = q[j] => i = j
  BY <1>4, Zenon DEF IsInjective
<1>. QED  BY <1>1, <1>8, <1>9, <1>10, Zenon DEF Lists, q

\* A backend is stored under its name.
Named(st) == \A b \in Backends : st[b] # Null => st[b].name = b

\* The first partition of a farm has every backend once.
LEMMA MembersEffect ==
    ASSUME NEW B, NEW farm, farm.members \in SUBSET Backends, NEW st, Named(st),
           \A b \in farm.members : st[b] \in B
    PROVE  Members(farm, st) \in Seq(B) /\ Apart(<<Members(farm, st)>>)
<1>. DEFINE q == Listing(farm.members)
            p == Members(farm, st)
<1>0. IsFiniteSet(farm.members)
  BY FS_Subset, RoutingAssumption, Zenon
<1>1. Lists(q, farm.members)
  BY <1>0, Listed, Zenon
<1>2. p = [i \in DOMAIN q |-> st[q[i]]]
  BY Zenon DEF Members, Lookup
<1>. HIDE DEF q, p
<1>3. /\ q \in Seq(farm.members) /\ DOMAIN q = 1..Len(q) /\ Len(q) \in Nat
      /\ \A i, j \in DOMAIN q : q[i] = q[j] => i = j
  BY <1>1, Zenon DEF Lists
<1>4. \A i \in 1..Len(q) : q[i] \in farm.members
  BY <1>3
<1>5. p \in [1..Len(q) -> B]
  BY <1>2, <1>3, <1>4, Zenon
<1>6. p \in Seq(B) /\ DOMAIN p = 1..Len(q)
  BY <1>3, <1>5
<1>7. ASSUME NEW j \in 1..Len(q), NEW l \in 1..Len(q), p[j] = p[l], p[j] # Null
      PROVE  j = l
  <2>1. p[j] = st[q[j]] /\ p[l] = st[q[l]]
    BY <1>2, <1>3, Zenon
  <2>2. q[j] \in Backends /\ q[l] \in Backends
    BY <1>4
  <2>3. st[q[j]].name = q[j] /\ st[q[l]].name = q[l]
    BY <1>7, <2>1, <2>2, Zenon DEF Named
  <2>4. q[j] = q[l]
    BY <1>7, <2>1, <2>3, Zenon
  <2>. QED  BY <1>3, <2>4, Zenon
<1>8. Apart(<<p>>)
  <2>1. ASSUME NEW i \in DOMAIN <<p>>, NEW k \in DOMAIN <<p>>,
               NEW j \in DOMAIN <<p>>[i], NEW l \in DOMAIN <<p>>[k],
               <<p>>[i][j] = <<p>>[k][l], <<p>>[i][j] # Null
        PROVE  i = k /\ j = l
    <3>1. i = 1 /\ k = 1 /\ <<p>>[i] = p /\ <<p>>[k] = p
      OBVIOUS
    <3>2. j \in 1..Len(q) /\ l \in 1..Len(q) /\ p[j] = p[l] /\ p[j] # Null
      BY <1>6, <2>1, <3>1, Zenon
    <3>. QED  BY <1>7, <3>1, <3>2, Zenon
  <2>. QED  BY <2>1, Zenon DEF Apart
<1>. QED  BY <1>6, <1>8, Zenon DEF p

-----------------------------------------------------------------------------
(* The heap of backend sets.                                               *)

\* Backend sets that a selector can work with.
SetOk(s) == s \in BackendSet /\ Apart(s.parts) /\ Marking(s.parts, s.markers)

\* The sets on the heap can all be worked with.
HeapOk(heap) == heap \in Seq(BackendSet) /\ \A n \in DOMAIN heap : SetOk(heap[n])

\* The sets of h are there in g, with their partitions.
Grows(h, g) == \A n \in DOMAIN h : n \in DOMAIN g /\ g[n].parts = h[n].parts

\* A new set has a marker for each partition.
LEMMA NewSetOk ==
    ASSUME NEW parts \in Seq(Partition), Apart(parts)
    PROVE  SetOk(NewSet(parts)) /\ NewSet(parts).parts = parts
<1>. DEFINE s == NewSet(parts)
<1>1. s.parts = parts /\ s.markers = [i \in DOMAIN parts |-> 0]
  BY Zenon DEF NewSet
<1>2. s.markers \in Seq(Nat) /\ Len(s.markers) = Len(parts)
  BY <1>1
<1>3. s = [parts |-> s.parts, markers |-> s.markers]
  BY Zenon DEF NewSet
<1>. HIDE DEF s
<1>4. s \in BackendSet
  BY <1>1, <1>2, <1>3, Zenon DEF BackendSet
<1>. QED  BY <1>1, <1>2, <1>4, Zenon DEF SetOk, Marking, s

\* The markers after one of them was raised.
LEMMA Raised ==
    ASSUME NEW k \in Seq(Nat), NEW P
    PROVE  LET ms == [i \in DOMAIN k |-> IF i \in P THEN k[i] + 1 ELSE k[i]]
           IN  ms \in Seq(Nat) /\ Len(ms) = Len(k)
<1>. DEFINE ms == [i \in DOMAIN k |-> IF i \in P THEN k[i] + 1 ELSE k[i]]
<1>1. Len(k) \in Nat /\ DOMAIN k = 1..Len(k) /\ \A i \in 1..Len(k) : k[i] \in Nat
  OBVIOUS
<1>2. \A i \in 1..Len(k) : k[i] + 1 \in Nat
  BY <1>1
<1>3. ms \in [1..Len(k) -> Nat]
  BY <1>1, <1>2, Zenon
<1>. HIDE DEF ms
<1>4. ms \in Seq(Nat) /\ Len(ms) = Len(k)
  BY <1>1, <1>3
<1>. QED  BY <1>4, Zenon DEF ms

\* A set with other markers.
LEMMA OtherMarkers ==
    ASSUME NEW s \in BackendSet, NEW ms
    PROVE  LET t == [s EXCEPT !.markers = ms]
           IN  /\ t.parts = s.parts /\ t.markers = ms
               /\ t = [parts |-> s.parts, markers |-> ms]
               /\ s.parts \in Seq(Partition)
<1>1. s.parts \in Seq(Partition) /\ s = [parts |-> s.parts, markers |-> s.markers]
  BY Zenon DEF BackendSet
<1>. DEFINE t == [s EXCEPT !.markers = ms]
            p == s.parts
            k == s.markers
<1>2. t = [[parts |-> p, markers |-> k] EXCEPT !.markers = ms]
  BY <1>1, Zenon
<1>. HIDE DEF p, k, t
<1>3. t = [parts |-> p, markers |-> ms]
  BY <1>2
<1>. QED  BY <1>1, <1>3, Zenon DEF p, t

\* A selector marks a partition and changes nothing else of the sets.
LEMMA MarkOk ==
    ASSUME NEW heap, HeapOk(heap), NEW m, m.set \in DOMAIN heap, NEW retry
    PROVE  LET g == Mark(heap, m, retry)
           IN  HeapOk(g) /\ Grows(heap, g) /\ DOMAIN g = DOMAIN heap
<1>. DEFINE g == Mark(heap, m, retry)
            old == heap[m.set]
            P == PartitionOf(old.parts, retry)
            ms == [i \in DOMAIN old.markers |->
                      IF i \in P THEN old.markers[i] + 1 ELSE old.markers[i]]
            new == [old EXCEPT !.markers = ms]
<1>1. CASE ~m.selector
  BY <1>1, Zenon DEF Mark, Grows
<1>2. CASE m.selector
  <2>1. g = [heap EXCEPT ![m.set] = new]
    BY <1>2, Zenon DEF Mark
  <2>2. SetOk(old) /\ heap \in Seq(BackendSet)
    BY Zenon DEF HeapOk
  <2>3. old \in BackendSet /\ Apart(old.parts) /\ Marking(old.parts, old.markers)
    BY <2>2, Zenon DEF SetOk
  <2>4. /\ old.parts \in Seq(Partition)
        /\ new.parts = old.parts /\ new.markers = ms
        /\ new = [parts |-> old.parts, markers |-> ms]
    <3>. HIDE DEF ms, old
    <3>. QED  BY <2>3, OtherMarkers, Zenon
  <2>. DEFINE k == old.markers
  <2>5. k \in Seq(Nat) /\ Len(k) = Len(old.parts)
    BY <2>3, Zenon DEF Marking
  <2>6. ms = [i \in DOMAIN k |-> IF i \in P THEN k[i] + 1 ELSE k[i]]
    BY Zenon
  <2>. HIDE DEF k, P, ms
  <2>7. ms \in Seq(Nat) /\ Len(ms) = Len(k)
    BY <2>5, <2>6, Raised, Zenon
  <2>8. SetOk(new)
    BY <2>3, <2>4, <2>5, <2>7, Zenon DEF SetOk, BackendSet, Marking
  <2>. HIDE DEF g, new, old
  <2>9. g \in Seq(BackendSet) /\ DOMAIN g = DOMAIN heap
    <3>1. new \in BackendSet
      BY <2>8, Zenon DEF SetOk
    <3>. QED  BY <2>1, <2>2, <3>1
  <2>10. \A n \in DOMAIN heap : g[n] = IF n = m.set THEN new ELSE heap[n]
    BY <2>1, Zenon
  <2>11. \A n \in DOMAIN heap : SetOk(g[n]) /\ g[n].parts = heap[n].parts
    BY <2>4, <2>8, <2>10, Zenon DEF HeapOk, old
  <2>. QED  BY <2>9, <2>11, Zenon DEF HeapOk, Grows, g
<1>. QED  BY <1>1, <1>2, Zenon

\* g has the sets of heap and more after them.
Longer(heap, more, g) ==
    /\ \A i \in DOMAIN more : Len(heap) + i \in DOMAIN g /\ g[Len(heap) + i] = more[i]
    /\ \A n \in DOMAIN g \ DOMAIN heap : \E i \in DOMAIN more : g[n] = more[i]

\* New sets come after the others.
LEMMA MoreSets ==
    ASSUME NEW heap, HeapOk(heap), NEW more, HeapOk(more), NEW g, g = heap \o more
    PROVE  HeapOk(g) /\ Grows(heap, g) /\ Longer(heap, more, g)
<1>1. heap \in Seq(BackendSet) /\ more \in Seq(BackendSet)
  BY Zenon DEF HeapOk
<1>2. /\ g \in Seq(BackendSet)
      /\ DOMAIN heap = 1..Len(heap) /\ DOMAIN more = 1..Len(more)
      /\ DOMAIN g = 1..(Len(heap) + Len(more))
      /\ Len(heap) \in Nat /\ Len(more) \in Nat
  BY <1>1
<1>3. \A n \in DOMAIN heap : n \in DOMAIN g /\ g[n] = heap[n]
  BY <1>1, <1>2
<1>4. \A i \in DOMAIN more : Len(heap) + i \in DOMAIN g /\ g[Len(heap) + i] = more[i]
  BY <1>1, <1>2
<1>5. ASSUME NEW n \in DOMAIN g \ DOMAIN heap
      PROVE  \E i \in DOMAIN more : g[n] = more[i]
  <2>1. n - Len(heap) \in DOMAIN more /\ Len(heap) + (n - Len(heap)) = n
    BY <1>2
  <2>2. g[n] = more[n - Len(heap)]
    BY <1>4, <2>1
  <2>. QED  BY <2>1, <2>2, Zenon
<1>6. \A n \in DOMAIN g : SetOk(g[n])
  BY <1>3, <1>5, Zenon DEF HeapOk
<1>7. HeapOk(g) /\ Grows(heap, g)
  BY <1>2, <1>3, <1>6, Zenon DEF HeapOk, Grows
<1>. QED  BY <1>4, <1>5, <1>7, Zenon DEF Longer

-----------------------------------------------------------------------------
(* The partitions of farms.                                                *)

\* The partitions of a farm whose members, looked up, are all in B.
LEMMA RepartitionOk ==
    ASSUME NEW B, NEW farm \in Farm, NEW st, Named(st), NEW here,
           \A b \in farm.members : st[b] \in B
    PROVE  LET r == Repartition(farm, st, here)
           IN  /\ r \in Seq(Seq(B)) /\ Apart(r)
               /\ farm.policies > 0 => PrefersLocal(r, here)
<1>1. farm.members \in SUBSET Backends /\ farm.policies \in Nat
  BY Zenon DEF Farm
<1>2. Members(farm, st) \in Seq(B) /\ Apart(<<Members(farm, st)>>)
  BY <1>1, MembersEffect, Zenon
<1>. QED  BY <1>1, <1>2, RepartitionEffect, Zenon

\* g is the farm with another set.
HasSet(g, farm, n) ==
    /\ g \in Farm /\ g.set = n
    /\ g.members = farm.members /\ g.policies = farm.policies

\* A farm is given another set and keeps its members and its policies.
LEMMA OtherSet ==
    ASSUME NEW farm \in Farm, NEW n \in Nat, NEW g, g = [farm EXCEPT !.set = n]
    PROVE  HasSet(g, farm, n)
<1>1. /\ farm.members \in SUBSET Backends /\ farm.policies \in Nat
      /\ farm = [members |-> farm.members, policies |-> farm.policies,
                 set |-> farm.set]
  BY Zenon DEF Farm
<1>. DEFINE m == farm.members
            p == farm.policies
            s == farm.set
<1>2. g = [[members |-> m, policies |-> p, set |-> s] EXCEPT !.set = n]
  BY <1>1, Zenon
<1>. HIDE DEF m, p, s
<1>3. g = [members |-> m, policies |-> p, set |-> n]
  BY <1>2
<1>4. g.set = n /\ g.members = m /\ g.policies = p
  BY <1>3
<1>5. g \in Farm
  BY <1>1, <1>3, Zenon DEF Farm, m, p
<1>. QED  BY <1>4, <1>5, Zenon DEF HasSet, m, p

\* What a repartitioning that dereferences no pointer to no backend does: each farm
\* in F gets a set of its own, with its members and the datacenter's first.
Rearranged(fs, F, st, here) ==
    /\ ub' = ub /\ \A f \in F : ~Dereferences(fs[f], st)
    /\ HeapOk(sets') /\ Grows(sets, sets')
    /\ farms' \in [Farms -> Farm \cup {Null}]
    /\ \A f \in Farms \ F : farms'[f] = fs[f]
    /\ \A f \in F : /\ farms'[f] \in Farm /\ farms'[f].set \in DOMAIN sets'
                    /\ farms'[f].members = fs[f].members
                    /\ farms'[f].policies = fs[f].policies
                    /\ fs[f].policies > 0 =>
                          PrefersLocal(sets'[farms'[f].set].parts, here)
    /\ (\A f \in F : \A b \in fs[f].members : st[b] \in Backend) =>
          \A n \in DOMAIN sets' \ DOMAIN sets : sets'[n].parts \in Seq(Seq(Backend))

\* Repartitioning the farms in F either stops at a pointer to no backend or does that.
LEMMA RepartitionedEffect ==
    ASSUME HeapOk(sets), NEW fs \in [Farms -> Farm \cup {Null}], NEW F \in SUBSET Farms,
           \A f \in F : fs[f] \in Farm,
           NEW st \in [Backends -> Backend \cup {Null}], Named(st), NEW here,
           Repartitioned(fs, F, st, here)
    PROVE  \/ ub' = TRUE /\ farms' = farms /\ sets' = sets
           \/ Rearranged(fs, F, st, here)
<1>. DEFINE q == Listing(F)
            At(f) == Len(sets) + (CHOOSE i \in DOMAIN q : q[i] = f)
            R(i) == Repartition(fs[q[i]], st, here)
            more == [i \in DOMAIN q |-> NewSet(R(i))]
<1>1. CASE \E f \in F : Dereferences(fs[f], st)
  BY <1>1, Zenon DEF Repartitioned
<1>2. CASE ~\E f \in F : Dereferences(fs[f], st)
  <2>1. /\ farms' = [f \in Farms |-> IF f \in F THEN [fs[f] EXCEPT !.set = At(f)]
                                                ELSE fs[f]]
        /\ sets' = sets \o more
        /\ ub' = ub
    BY <1>2, Zenon DEF Repartitioned
  <2>2. Lists(q, F)
    <3>1. IsFiniteSet(F)
      BY FS_Subset, RoutingAssumption, Zenon
    <3>. QED  BY <3>1, Listed, Zenon
  <2>. HIDE DEF q
  <2>3. q \in Seq(F) /\ DOMAIN q = 1..Len(q) /\ Len(q) \in Nat
    BY <2>2, Zenon DEF Lists
  <2>4. \A i \in DOMAIN q : q[i] \in F
    BY <2>3
  <2>5. ASSUME NEW i \in DOMAIN q
        PROVE  /\ R(i) \in Seq(Partition) /\ Apart(R(i))
               /\ fs[q[i]].policies > 0 => PrefersLocal(R(i), here)
    <3>1. fs[q[i]] \in Farm /\ \A b \in fs[q[i]].members : b \in Backends
      BY <2>4, Zenon DEF Farm
    <3>2. \A b \in fs[q[i]].members : st[b] \in Backend \cup {Null}
      BY <3>1, Zenon
    <3>. QED  BY <3>1, <3>2, RepartitionOk, Zenon DEF Partition
  <2>6. \A i \in DOMAIN q : SetOk(more[i]) /\ more[i].parts = R(i)
    <3>1. ASSUME NEW i \in DOMAIN q
          PROVE  SetOk(more[i]) /\ more[i].parts = R(i)
      <4>1. more[i] = NewSet(R(i))
        BY Zenon
      <4>. HIDE DEF R, more
      <4>2. R(i) \in Seq(Partition) /\ Apart(R(i))
        BY <2>5, Zenon
      <4>3. SetOk(NewSet(R(i))) /\ NewSet(R(i)).parts = R(i)
        BY <4>2, NewSetOk, Zenon
      <4>. QED  BY <4>1, <4>3, Zenon
    <3>. QED  BY <3>1, Zenon
  <2>7. HeapOk(more) /\ DOMAIN more = DOMAIN q
    <3>1. DOMAIN more = 1..Len(q) /\ more = [i \in 1..Len(q) |-> more[i]]
      BY <2>3, Zenon
    <3>. HIDE DEF more
    <3>2. \A i \in 1..Len(q) : more[i] \in BackendSet
      BY <2>3, <2>6, Zenon DEF SetOk
    <3>3. more \in [1..Len(q) -> BackendSet]
      BY <3>1, <3>2, Zenon
    <3>4. more \in Seq(BackendSet)
      BY <2>3, <3>3
    <3>. QED  BY <2>3, <2>6, <3>1, <3>4, Zenon DEF HeapOk
  <2>. HIDE DEF more, R
  <2>8. /\ HeapOk(sets') /\ Grows(sets, sets')
        /\ \A i \in DOMAIN more : /\ Len(sets) + i \in DOMAIN sets'
                                  /\ sets'[Len(sets) + i] = more[i]
        /\ \A n \in DOMAIN sets' \ DOMAIN sets : \E i \in DOMAIN more : sets'[n] = more[i]
    <3>1. HeapOk(sets') /\ Grows(sets, sets') /\ Longer(sets, more, sets')
      BY <2>1, <2>7, MoreSets, Zenon
    <3>. QED  BY <3>1, Zenon DEF Longer
  <2>9. ASSUME NEW f \in F
        PROVE  /\ farms'[f] \in Farm /\ farms'[f].set \in DOMAIN sets'
               /\ farms'[f].members = fs[f].members
               /\ farms'[f].policies = fs[f].policies
               /\ fs[f].policies > 0 =>
                     PrefersLocal(sets'[farms'[f].set].parts, here)
    <3>. DEFINE i == CHOOSE k \in DOMAIN q : q[k] = f
    <3>1. i \in DOMAIN q /\ q[i] = f
      BY <2>2, Zenon DEF Lists
    <3>2. farms'[f] = [fs[f] EXCEPT !.set = Len(sets) + i]
      BY <2>1, Zenon
    <3>. HIDE DEF i
    <3>3. Len(sets) + i \in Nat
      <4>1. Len(sets) \in Nat
        <5>1. sets \in Seq(BackendSet)
          BY Zenon DEF HeapOk
        <5>. QED  BY <5>1
      <4>. QED  BY <2>3, <3>1, <4>1
    <3>4. /\ farms'[f] \in Farm /\ farms'[f].set = Len(sets) + i
          /\ farms'[f].members = fs[f].members
          /\ farms'[f].policies = fs[f].policies
      <4>. DEFINE farm == fs[f]
                  n == Len(sets) + i
      <4>1. farm \in Farm /\ n \in Nat /\ farms'[f] = [farm EXCEPT !.set = n]
        BY <3>2, <3>3, Zenon
      <4>. HIDE DEF farm, n
      <4>2. HasSet(farms'[f], farm, n)
        BY <4>1, OtherSet, Zenon
      <4>. QED  BY <4>2, Zenon DEF HasSet, farm, n
    <3>5. Len(sets) + i \in DOMAIN sets' /\ sets'[Len(sets) + i].parts = R(i)
      BY <2>6, <2>7, <2>8, <3>1, Zenon
    <3>6. fs[f].policies > 0 => PrefersLocal(R(i), here)
      BY <2>5, <3>1, Zenon
    <3>. QED  BY <3>4, <3>5, <3>6, Zenon
  <2>10. \A f \in Farms \ F : farms'[f] = fs[f]
    BY <2>1, Zenon
  <2>11. farms' \in [Farms -> Farm \cup {Null}]
    <3>. DEFINE G(f) == IF f \in F THEN [fs[f] EXCEPT !.set = At(f)] ELSE fs[f]
    <3>1. farms' = [f \in Farms |-> G(f)]
      BY <2>1, Zenon
    <3>2. \A f \in Farms : farms'[f] \in Farm \cup {Null}
      BY <2>9, <2>10, Zenon
    <3>. HIDE DEF G
    <3>. QED  BY <3>1, <3>2, Zenon
  <2>12. ASSUME \A f \in F : \A b \in fs[f].members : st[b] \in Backend,
                NEW n \in DOMAIN sets' \ DOMAIN sets
         PROVE  sets'[n].parts \in Seq(Seq(Backend))
    <3>1. PICK i \in DOMAIN q : sets'[n] = more[i]
      BY <2>7, <2>8, Zenon
    <3>2. fs[q[i]] \in Farm /\ \A b \in fs[q[i]].members : st[b] \in Backend
      BY <2>4, <2>12, Zenon
    <3>3. R(i) \in Seq(Seq(Backend))
      BY <3>2, RepartitionOk, Zenon DEF R
    <3>. QED  BY <2>6, <3>1, <3>3, Zenon
  <2>13. Rearranged(fs, F, st, here)
    BY <1>2, <2>1, <2>8, <2>9, <2>10, <2>11, <2>12, Zenon DEF Rearranged
  <2>. QED  BY <2>13, Zenon
<1>. QED  BY <1>1, <1>2, Zenon

-----------------------------------------------------------------------------
(* The sessions.                                                           *)

\* A session in these states has a connection manager.
Managing == {"acquired", "resolving", "connecting", "failed"}

\* A connection manager with a marker for each partition of its set, which has one
\* backend when there is no selector.
ManagerOk(m, heap) ==
    /\ m \in ManagerType(heap) /\ Marking(heap[m.set].parts, m.snapshot)
    /\ ~m.selector => \E b \in Backend : heap[m.set].parts = <<<<b>>>>

\* What was tried is what the retry counts select.
Followed(tried, m, heap) ==
    \A k \in DOMAIN tried : tried[k] = GetConnection(heap, m, k - 1)

\* A session that has tried different backends, in the order of its retry counts, and
\* asks for the last of them.
SessionOk(s, heap) ==
    /\ IsInjective(s.tried)
    /\ s.mgr # Null => s.st \in Managing
    /\ s.st \in {"new", "acquired"} => s.tried = <<>>
    /\ s.st \in Managing => ManagerOk(s.mgr, heap) /\ Followed(s.tried, s.mgr, heap)
    /\ s.st \in {"resolving", "connecting"} => Len(s.tried) = s.retry + 1
    /\ s.st = "failed" => /\ Len(s.tried) = s.retry
                          /\ GetConnection(heap, s.mgr, s.retry) = Null
    /\ s.st = "connected" => s.using = s.tried[Len(s.tried)]

\* A set of one backend selects it once.
LEMMA OneBackend ==
    ASSUME NEW b \in Backend, NEW parts, parts = <<<<b>>>>,
           NEW markers, Marking(parts, markers), NEW retry \in Nat
    PROVE  Select(parts, markers, retry) = IF retry > 0 THEN Null ELSE parts[1][1]
<1>1. /\ parts \in Seq(Seq(Backend)) /\ Len(parts) = 1 /\ DOMAIN parts = {1}
      /\ Len(parts[1]) = 1 /\ DOMAIN parts[1] = {1}
  OBVIOUS
<1>. DEFINE n == Skipped(parts)
<1>2. n[0] = 0 /\ n[1] = 1
  <2>1. n[0] = 0 /\ \A i \in 1..Len(parts) : n[i] = n[i - 1] + Len(parts[i])
    BY <1>1, SkippedEffect, Zenon
  <2>. HIDE DEF n
  <2>2. 1 \in 1..Len(parts) /\ 1 - 1 = 0
    BY <1>1
  <2>3. n[1] = n[0] + Len(parts[1])
    BY <2>1, <2>2, Zenon
  <2>4. n[1] = 0 + 1
    BY <1>1, <2>1, <2>3, Zenon
  <2>. QED  BY <2>1, <2>4
<1>. HIDE DEF n
<1>3. CASE retry > 0
  <2>1. ASSUME NEW i, NEW j, Picks(parts, markers, retry, i, j)
        PROVE  FALSE
    <3>1. i \in DOMAIN parts /\ retry < n[i]
      BY <2>1, Zenon DEF Picks, FallsOn, n
    <3>. QED  BY <1>1, <1>2, <1>3, <3>1
  <2>2. Select(parts, markers, retry) = Null
    BY <1>1, <2>1, Selected, Zenon
  <2>. QED  BY <1>3, <2>2, Zenon
<1>4. CASE ~(retry > 0)
  <2>0. retry = 0
    BY <1>4
  <2>1. ~(retry >= n[Len(parts)])
    BY <1>1, <1>2, <2>0
  <2>2. PICK i, j : Picks(parts, markers, retry, i, j)
    BY <1>1, <2>1, Selected, Zenon DEF n
  <2>3. /\ i \in DOMAIN parts /\ j \in DOMAIN parts[i]
        /\ Select(parts, markers, retry) = parts[i][j]
    BY <2>2, Zenon DEF Picks, FallsOn
  <2>4. i = 1
    BY <1>1, <2>3, Zenon
  <2>5. j = 1
    BY <1>1, <2>3, <2>4, Zenon
  <2>. QED  BY <1>4, <2>3, <2>4, <2>5, Zenon
<1>. QED  BY <1>3, <1>4, Zenon

\* A connection manager's set.
LEMMA ManagedSet ==
    ASSUME NEW heap, HeapOk(heap), NEW m, ManagerOk(m, heap)
    PROVE  /\ m.set \in DOMAIN heap /\ heap[m.set].parts \in Seq(Partition)
           /\ Apart(heap[m.set].parts) /\ Marking(heap[m.set].parts, m.snapshot)
<1>1. m.set \in DOMAIN heap /\ Marking(heap[m.set].parts, m.snapshot)
  BY Zenon DEF ManagerOk, ManagerType
<1>2. SetOk(heap[m.set])
  BY <1>1, Zenon DEF HeapOk
<1>. QED  BY <1>1, <1>2, Zenon DEF SetOk, BackendSet

\* getConnection selects with the manager's own markers, with or without a selector.
Selecting(heap, m, retry) ==
    GetConnection(heap, m, retry) = Select(heap[m.set].parts, m.snapshot, retry)

\* getConnection answers what select answers for the snapshot, whether the session
\* has a selector or falls back on its only backend.
LEMMA GetSelects ==
    ASSUME NEW heap, HeapOk(heap), NEW m, ManagerOk(m, heap), NEW retry \in Nat
    PROVE  Selecting(heap, m, retry)
<1>1. CASE m.selector
  BY <1>1, Zenon DEF Selecting, GetConnection
<1>2. CASE ~m.selector
  <2>1. PICK b \in Backend : heap[m.set].parts = <<<<b>>>>
    BY <1>2, Zenon DEF ManagerOk
  <2>. DEFINE parts == heap[m.set].parts
  <2>2. Marking(parts, m.snapshot) /\ parts = <<<<b>>>>
    BY <2>1, Zenon DEF ManagerOk
  <2>. HIDE DEF parts
  <2>3. Select(parts, m.snapshot, retry) = IF retry > 0 THEN Null ELSE parts[1][1]
    BY <2>2, OneBackend, Zenon
  <2>. QED  BY <1>2, <2>3, Zenon DEF Selecting, GetConnection, parts
<1>. QED  BY <1>1, <1>2, Zenon

\* A backend or none.
LEMMA GetType ==
    ASSUME NEW heap, HeapOk(heap), NEW m, ManagerOk(m, heap), NEW retry \in Nat
    PROVE  GetConnection(heap, m, retry) \in Backend \cup {Null}
<1>. DEFINE parts == heap[m.set].parts
            B == Backend \cup {Null}
<1>1. parts \in Seq(Seq(B)) /\ Marking(parts, m.snapshot)
  BY ManagedSet, Zenon DEF Partition
<1>2. GetConnection(heap, m, retry) = Select(parts, m.snapshot, retry)
  BY GetSelects, Zenon DEF Selecting
<1>. HIDE DEF parts, B
<1>3. ASSUME NEW i, NEW j, Picks(parts, m.snapshot, retry, i, j)
      PROVE  Select(parts, m.snapshot, retry) \in B
  <2>1. i \in DOMAIN parts /\ j \in DOMAIN parts[i]
    BY <1>3, Zenon DEF Picks, FallsOn
  <2>2. parts[i] \in Seq(B)
    BY <1>1, <2>1
  <2>3. parts[i][j] \in B
    BY <2>1, <2>2
  <2>. QED  BY <1>3, <2>3, Zenon DEF Picks
<1>4. Null \in B
  BY DEF B
<1>5. Select(parts, m.snapshot, retry) \in B
  BY <1>1, <1>3, <1>4, Selected, Zenon
<1>. QED  BY <1>2, <1>5, Zenon DEF B

\* It is not affected by other sessions' markers, nor by new sets.
LEMMA GetKept ==
    ASSUME NEW h, NEW g, Grows(h, g), NEW m, m.set \in DOMAIN h, NEW retry
    PROVE  GetConnection(g, m, retry) = GetConnection(h, m, retry)
<1>1. g[m.set].parts = h[m.set].parts
  BY Zenon DEF Grows
<1>. QED  BY <1>1, Zenon DEF GetConnection

\* So a session stays as it should be while others move on.
LEMMA SessionKept ==
    ASSUME NEW h, NEW g, Grows(h, g), NEW s \in SessionType(h), SessionOk(s, h)
    PROVE  s \in SessionType(g) /\ SessionOk(s, g)
<1>0. DOMAIN h \subseteq DOMAIN g
  BY Zenon DEF Grows
<1>1. ManagerType(h) \subseteq ManagerType(g)
  BY <1>0, Zenon DEF ManagerType
<1>2. s \in SessionType(g)
  BY <1>1, Zenon DEF SessionType
<1>3. ASSUME s.st \in Managing
      PROVE  /\ ManagerOk(s.mgr, g) /\ Followed(s.tried, s.mgr, g)
             /\ GetConnection(g, s.mgr, s.retry) = GetConnection(h, s.mgr, s.retry)
  <2>. DEFINE m == s.mgr
  <2>1. ManagerOk(m, h) /\ Followed(s.tried, m, h)
    BY <1>3, Zenon DEF SessionOk
  <2>. HIDE DEF m
  <2>2. m \in ManagerType(h) /\ m.set \in DOMAIN h
    BY <2>1, Zenon DEF ManagerOk, ManagerType
  <2>3. g[m.set].parts = h[m.set].parts
    BY <2>2, Zenon DEF Grows
  <2>4. ManagerOk(m, g)
    BY <1>1, <2>1, <2>2, <2>3, Zenon DEF ManagerOk
  <2>5. \A r : GetConnection(g, m, r) = GetConnection(h, m, r)
    BY <2>3, Zenon DEF GetConnection
  <2>6. Followed(s.tried, m, g)
    BY <2>1, <2>5, Zenon DEF Followed
  <2>. QED  BY <2>4, <2>5, <2>6, Zenon DEF m
<1>4. s.st = "failed" => s.st \in Managing
  BY Zenon DEF Managing
<1>5. SessionOk(s, g)
  BY <1>3, <1>4, Zenon DEF SessionOk
<1>. QED  BY <1>2, <1>5, Zenon

-----------------------------------------------------------------------------
(* Steps of a session.                                                     *)

\* The states of a session.
States == {"new", "acquired", "resolving", "connecting", "connected", "failed",
           "stopped", "LIMIT", "NO_FARM", "ERROR_FARM", "NO_BACKEND"}

\* The session's fields.
Fields(t, st, v, m, r, q, l, u) ==
    t = [st |-> st, vhost |-> v, mgr |-> m, retry |-> r, tried |-> q,
         left |-> l, using |-> u]

\* The session has these fields, of their types.
Typed(heap, t, st, v, m, r, q, l, u) ==
    /\ t \in SessionType(heap)
    /\ t.st = st /\ t.vhost = v /\ t.mgr = m /\ t.retry = r /\ t.tried = q
    /\ t.left = l /\ t.using = u

\* A session made of fields of their types.
LEMMA SessionBuilt ==
    ASSUME NEW heap, NEW t, NEW st \in States, NEW v \in Vhosts,
           NEW m \in ManagerType(heap) \cup {Null}, NEW r \in Nat,
           NEW q \in Seq(Backend), NEW l \in 0..(MaxEndpoints - 1),
           NEW u \in Backend \cup {Null}, Fields(t, st, v, m, r, q, l, u)
    PROVE  Typed(heap, t, st, v, m, r, q, l, u)
<1>1. t \in SessionType(heap)
  BY Zenon DEF SessionType, States, Fields
<1>2. /\ t.st = st /\ t.vhost = v /\ t.mgr = m /\ t.retry = r /\ t.tried = q
      /\ t.left = l /\ t.using = u
  BY Zenon DEF Fields
<1>. QED  BY <1>1, <1>2, Zenon DEF Typed

\* A session has fields of their types.
LEMMA SessionFields ==
    ASSUME NEW heap, NEW s \in SessionType(heap)
    PROVE  /\ s.st \in States /\ s.vhost \in Vhosts
           /\ s.mgr \in ManagerType(heap) \cup {Null} /\ s.retry \in Nat
           /\ s.tried \in Seq(Backend) /\ s.left \in 0..(MaxEndpoints - 1)
           /\ s.using \in Backend \cup {Null}
           /\ Fields(s, s.st, s.vhost, s.mgr, s.retry, s.tried, s.left, s.using)
BY Zenon DEF SessionType, States, Fields

\* What the change of one field makes of a session.
LEMMA Change ==
    ASSUME NEW s, NEW st, NEW v, NEW m, NEW r, NEW q, NEW l, NEW u,
           Fields(s, st, v, m, r, q, l, u), NEW a
    PROVE  /\ Fields([s EXCEPT !.st = a], a, v, m, r, q, l, u)
           /\ Fields([s EXCEPT !.mgr = a], st, v, a, r, q, l, u)
           /\ Fields([s EXCEPT !.retry = a], st, v, m, a, q, l, u)
           /\ Fields([s EXCEPT !.tried = a], st, v, m, r, a, l, u)
           /\ Fields([s EXCEPT !.left = a], st, v, m, r, q, a, u)
           /\ Fields([s EXCEPT !.using = a], st, v, m, r, q, l, a)
<1>1. Fields([s EXCEPT !.st = a], a, v, m, r, q, l, u)
  BY SMT DEF Fields
<1>2. Fields([s EXCEPT !.mgr = a], st, v, a, r, q, l, u)
  BY SMT DEF Fields
<1>3. Fields([s EXCEPT !.retry = a], st, v, m, a, q, l, u)
  BY SMT DEF Fields
<1>4. Fields([s EXCEPT !.tried = a], st, v, m, r, a, l, u)
  BY SMT DEF Fields
<1>5. Fields([s EXCEPT !.left = a], st, v, m, r, q, a, u)
  BY SMT DEF Fields
<1>6. Fields([s EXCEPT !.using = a], st, v, m, r, q, l, a)
  BY SMT DEF Fields
<1>. QED  BY <1>1, <1>2, <1>3, <1>4, <1>5, <1>6, Zenon

\* What the change of several fields makes of a session.
LEMMA Changes ==
    ASSUME NEW s, NEW st, NEW v, NEW m, NEW r, NEW q, NEW l, NEW u,
           Fields(s, st, v, m, r, q, l, u),
           NEW a, NEW c, NEW n, NEW p, NEW i, NEW w
    PROVE  /\ Fields([s EXCEPT !.st = a, !.retry = n], a, v, m, n, q, l, u)
           /\ Fields([s EXCEPT !.st = a, !.retry = n, !.tried = p], a, v, m, n, p, l, u)
           /\ Fields([s EXCEPT !.st = a, !.mgr = c], a, v, c, r, q, l, u)
           /\ Fields([s EXCEPT !.st = a, !.left = i], a, v, m, r, q, i, u)
           /\ Fields([s EXCEPT !.st = a, !.mgr = c, !.using = w], a, v, c, r, q, l, w)
<1>. DEFINE s1 == [s EXCEPT !.st = a]
            s2 == [s1 EXCEPT !.retry = n]
            s3 == [s1 EXCEPT !.mgr = c]
<1>1. /\ [s EXCEPT !.st = a, !.retry = n] = s2
      /\ [s EXCEPT !.st = a, !.retry = n, !.tried = p] = [s2 EXCEPT !.tried = p]
      /\ [s EXCEPT !.st = a, !.mgr = c] = s3
      /\ [s EXCEPT !.st = a, !.left = i] = [s1 EXCEPT !.left = i]
      /\ [s EXCEPT !.st = a, !.mgr = c, !.using = w] = [s3 EXCEPT !.using = w]
  BY Zenon
<1>2. Fields(s1, a, v, m, r, q, l, u)
  BY Change, Zenon
<1>. HIDE DEF s1
<1>3. /\ Fields(s2, a, v, m, n, q, l, u) /\ Fields(s3, a, v, c, r, q, l, u)
      /\ Fields([s1 EXCEPT !.left = i], a, v, m, r, q, i, u)
  BY <1>2, Change, Zenon
<1>. HIDE DEF s2, s3
<1>4. /\ Fields([s2 EXCEPT !.tried = p], a, v, m, n, p, l, u)
      /\ Fields([s3 EXCEPT !.using = w], a, v, c, r, q, l, w)
  BY <1>3, Change, Zenon
<1>. QED  BY <1>1, <1>3, <1>4, Zenon

\* The sets of g that h does not have hold no pointer to no backend.
Fresh(h, g) == \A n \in DOMAIN g \ DOMAIN h : g[n].parts \in Seq(Seq(Backend))

\* A session's step that starts with the sets in heap: the sets keep their partitions
\* and the session is as it should be.
SessionStep(x, heap) ==
    /\ HeapOk(sets') /\ Grows(heap, sets') /\ Fresh(heap, sets') /\ ub' \in BOOLEAN
    /\ \E t \in SessionType(sets') :
          sess' = [sess EXCEPT ![x] = t] /\ SessionOk(t, sets')

\* The state names are different.
LEMMA StatesDiffer ==
    /\ "failed" \in Managing /\ "resolving" \in Managing /\ "connecting" \in Managing
    /\ "acquired" \in Managing
    /\ \A s \in {"new", "connected", "stopped", "LIMIT", "NO_FARM", "ERROR_FARM",
                 "NO_BACKEND"} :
          s \notin Managing /\ s # "acquired" /\ s # "resolving" /\ s # "connecting"
          /\ s # "failed"
    /\ \A s \in Managing \cup {"stopped", "LIMIT", "NO_FARM", "ERROR_FARM", "NO_BACKEND"} :
          s # "connected" /\ s # "new"
    /\ "resolving" # "acquired" /\ "resolving" # "failed" /\ "resolving" # "connecting"
    /\ "connecting" # "acquired" /\ "connecting" # "failed" /\ "failed" # "acquired"
BY DEF Managing

\* The states of a session that has nothing to try any more, or nothing yet.
Idle == {"new", "stopped", "LIMIT", "NO_FARM", "ERROR_FARM", "NO_BACKEND"}

\* Such a session has no connection manager.
LEMMA IdleOk ==
    ASSUME NEW heap, NEW t, t.st \in Idle, t.mgr = Null, t.tried = <<>>
    PROVE  SessionOk(t, heap)
<1>1. IsInjective(t.tried)
  <2>1. IsInjective(<<>>)
    BY DEF IsInjective
  <2>. QED  BY <2>1, Zenon
<1>2. /\ t.st \notin Managing /\ t.st # "acquired" /\ t.st # "resolving"
      /\ t.st # "connecting" /\ t.st # "failed" /\ t.st # "connected"
  BY DEF Managing, Idle
<1>. QED  BY <1>1, <1>2, Zenon DEF SessionOk

\* What follows the backends that were tried is none of them.
LEMMA NextIsNew ==
    ASSUME NEW heap, HeapOk(heap), NEW m, ManagerOk(m, heap), NEW q \in Seq(Backend),
           IsInjective(q), Followed(q, m, heap), NEW b \in Backend,
           b = GetConnection(heap, m, Len(q))
    PROVE  LET p == Append(q, b)
           IN  /\ p \in Seq(Backend) /\ Len(p) = Len(q) + 1
               /\ IsInjective(p) /\ Followed(p, m, heap)
<1>. DEFINE p == Append(q, b)
            n == Len(q)
            parts == heap[m.set].parts
            k == m.snapshot
            B == Backend \cup {Null}
<1>1. /\ n \in Nat /\ p \in Seq(Backend) /\ Len(p) = n + 1
      /\ DOMAIN q = 1..n /\ DOMAIN p = 1..(n + 1)
      /\ p[n + 1] = b /\ (n + 1) - 1 = n
      /\ \A i \in 1..n : p[i] = q[i] /\ q[i] \in Backend /\ i - 1 \in Nat /\ i - 1 # n
  OBVIOUS
<1>2. \A i \in 1..(n + 1) : i \in 1..n \/ i = n + 1
  BY <1>1
<1>. HIDE DEF p, n
<1>3. ASSUME NEW i \in 1..(n + 1)
      PROVE  p[i] = GetConnection(heap, m, i - 1)
  <2>1. CASE i \in 1..n
    BY <1>1, <2>1, Zenon DEF Followed
  <2>2. CASE i = n + 1
    BY <1>1, <2>2, Zenon DEF n
  <2>. QED  BY <1>2, <2>1, <2>2, Zenon
<1>4. Followed(p, m, heap)
  BY <1>1, <1>3, Zenon DEF Followed
<1>5. parts \in Seq(Seq(B)) /\ Apart(parts) /\ Marking(parts, k)
  BY ManagedSet, Zenon DEF Partition
<1>6. b # Null
  BY RoutingAssumption
<1>7. ASSUME NEW i \in 1..n, q[i] = b
      PROVE  FALSE
  <2>1. i - 1 \in Nat /\ i - 1 # n /\ n \in Nat
    BY <1>1, Zenon
  <2>2. q[i] = GetConnection(heap, m, i - 1)
    BY <1>1, Zenon DEF Followed
  <2>3. /\ GetConnection(heap, m, i - 1) = Select(parts, k, i - 1)
        /\ GetConnection(heap, m, n) = Select(parts, k, n)
    BY <2>1, GetSelects, Zenon DEF Selecting
  <2>. HIDE DEF parts, k
  <2>4. Select(parts, k, n) # Null /\ Select(parts, k, n) = Select(parts, k, i - 1)
    BY <1>6, <1>7, <2>2, <2>3, Zenon DEF n
  <2>5. n = i - 1
    BY <1>5, <2>1, <2>4, SelectOnce, Zenon
  <2>. QED  BY <2>1, <2>5, Zenon
<1>8. IsInjective(p)
  <2>1. ASSUME NEW i \in 1..(n + 1), NEW j \in 1..(n + 1), p[i] = p[j]
        PROVE  i = j
    <3>1. CASE i \in 1..n /\ j \in 1..n
      <4>1. q[i] = q[j]
        BY <1>1, <2>1, <3>1, Zenon
      <4>. QED  BY <1>1, <3>1, <4>1, Zenon DEF IsInjective
    <3>2. CASE i \in 1..n /\ j = n + 1
      BY <1>1, <1>7, <2>1, <3>2, Zenon
    <3>3. CASE i = n + 1 /\ j \in 1..n
      BY <1>1, <1>7, <2>1, <3>3, Zenon
    <3>. QED  BY <1>2, <3>1, <3>2, <3>3, Zenon
  <2>. QED  BY <1>1, <2>1, Zenon DEF IsInjective
<1>. QED  BY <1>1, <1>4, <1>8, Zenon DEF p, n

-----------------------------------------------------------------------------
(* One attempt.                                                            *)

\* Two changes of a session are one.
LEMMA ChangedAt ==
    ASSUME NEW S, NEW f, f \in [Sessions -> S], NEW x \in Sessions, NEW t, NEW u
    PROVE  [[f EXCEPT ![x] = t] EXCEPT ![x] = u] = [f EXCEPT ![x] = u]
OBVIOUS

\* attemptConnection keeps the session as it should be: the backends tried before it
\* are those of the lower retry counts.
LEMMA AttemptOk ==
    ASSUME NEW x \in Sessions, NEW retry \in Nat, NEW heap, HeapOk(heap),
           sess \in [Sessions -> SessionType(heap)], ub \in BOOLEAN,
           IsInjective(sess[x].tried), ManagerOk(sess[x].mgr, heap),
           Followed(sess[x].tried, sess[x].mgr, heap), Len(sess[x].tried) = retry,
           Attempt(x, retry, heap)
    PROVE  SessionStep(x, heap)
<1>. DEFINE s == sess[x]
            m == s.mgr
            v == s.vhost
            q == s.tried
            l == s.left
            u == s.using
            b == GetConnection(heap, m, retry)
            h == Mark(heap, m, retry)
<1>1. /\ s \in SessionType(heap) /\ s.st \in States /\ v \in Vhosts
      /\ m \in ManagerType(heap) \cup {Null} /\ s.retry \in Nat
      /\ q \in Seq(Backend) /\ l \in 0..(MaxEndpoints - 1)
      /\ u \in Backend \cup {Null}
      /\ Fields(s, s.st, v, m, s.retry, q, l, u)
  BY SessionFields, Zenon
<1>2. ManagerOk(m, heap) /\ Followed(q, m, heap) /\ IsInjective(q) /\ Len(q) = retry
  BY Zenon
<1>3. b \in Backend \cup {Null}
  BY <1>2, GetType, Zenon
<1>4. m.set \in DOMAIN heap /\ m \in ManagerType(heap)
  BY <1>2, Zenon DEF ManagerOk, ManagerType
<1>5. HeapOk(h) /\ Grows(heap, h) /\ DOMAIN h = DOMAIN heap
  BY <1>4, MarkOk, Zenon
<1>6. ManagerOk(m, h) /\ Followed(q, m, h) /\ \A r : GetConnection(h, m, r) = GetConnection(heap, m, r)
  <2>1. h[m.set].parts = heap[m.set].parts
    BY <1>4, <1>5, Zenon DEF Grows
  <2>2. \A r : GetConnection(h, m, r) = GetConnection(heap, m, r)
    BY <2>1, Zenon DEF GetConnection
  <2>3. ManagerOk(m, h)
    BY <1>2, <1>4, <1>5, <2>1, Zenon DEF ManagerOk, ManagerType
  <2>. QED  BY <1>2, <2>2, <2>3, Zenon DEF Followed
<1>7. m \in ManagerType(h)
  BY <1>6, Zenon DEF ManagerOk
<1>8. CASE /\ sess' = [sess EXCEPT ![x] = [NewSession(@.vhost) EXCEPT !.st = "stopped"]]
           /\ sets' = heap /\ UNCHANGED ub
  <2>. DEFINE t == [NewSession(v) EXCEPT !.st = "stopped"]
  <2>1. sess' = [sess EXCEPT ![x] = t]
    BY <1>8, Zenon
  <2>2. Fields(t, "stopped", v, Null, 0, <<>>, 0, Null)
    BY DEF NewSession, Fields
  <2>. HIDE DEF t, v
  <2>3. /\ "stopped" \in States /\ Null \in ManagerType(heap) \cup {Null} /\ 0 \in Nat
        /\ <<>> \in Seq(Backend) /\ 0 \in 0..(MaxEndpoints - 1)
        /\ Null \in Backend \cup {Null}
    BY RoutingAssumption DEF States
  <2>4. Typed(heap, t, "stopped", v, Null, 0, <<>>, 0, Null)
    BY <1>1, <2>2, <2>3, SessionBuilt, Zenon
  <2>5. t \in SessionType(heap) /\ t.st = "stopped" /\ t.mgr = Null /\ t.tried = <<>>
    BY <2>4, Zenon DEF Typed
  <2>6. SessionOk(t, heap)
    <3>1. t.st \in Idle
      BY <2>5, Zenon DEF Idle
    <3>. QED  BY <2>5, <3>1, IdleOk, Zenon
  <2>7. Grows(heap, heap)
    BY Zenon DEF Grows
  <2>8. HeapOk(sets') /\ Grows(heap, sets') /\ Fresh(heap, sets') /\ ub' \in BOOLEAN
    BY <1>8, <2>7, Zenon DEF Fresh
  <2>. QED  BY <1>8, <2>1, <2>5, <2>6, <2>8, Zenon DEF SessionStep
<1>9. CASE /\ b = Null
           /\ sess' = [sess EXCEPT ![x].st = "failed", ![x].retry = retry]
           /\ sets' = h /\ UNCHANGED ub
  <2>. DEFINE t == [s EXCEPT !.st = "failed", !.retry = retry]
  <2>1. sess' = [sess EXCEPT ![x] = t]
    BY <1>9
  <2>. HIDE DEF s, m, v, q, l, u, h, b
  <2>2. Fields(t, "failed", v, m, retry, q, l, u)
    BY <1>1, Changes, Zenon
  <2>. HIDE DEF t
  <2>3. "failed" \in States /\ m \in ManagerType(h) \cup {Null}
    BY <1>7 DEF States
  <2>4. Typed(h, t, "failed", v, m, retry, q, l, u)
    BY <1>1, <2>2, <2>3, SessionBuilt, Zenon
  <2>5. GetConnection(h, m, retry) = Null
    BY <1>6, <1>9, Zenon DEF b
  <2>6. SessionOk(t, h)
    BY <1>2, <1>6, <2>4, <2>5, StatesDiffer, Zenon DEF SessionOk, Typed
  <2>7. t \in SessionType(h)
    BY <2>4, Zenon DEF Typed
  <2>8. HeapOk(sets') /\ Grows(heap, sets') /\ Fresh(heap, sets') /\ ub' \in BOOLEAN
    BY <1>5, <1>9, Zenon DEF Fresh
  <2>. QED  BY <1>9, <2>1, <2>6, <2>7, <2>8, Zenon DEF SessionStep
<1>10. CASE /\ b # Null
            /\ sess' = [[sess EXCEPT ![x].st = "resolving", ![x].retry = retry]
                           EXCEPT ![x].tried = Append(@, b)]
            /\ sets' = h
            /\ ub' = (store[b.name] # b)
  <2>. DEFINE p == Append(q, b)
              t == [s EXCEPT !.st = "resolving", !.retry = retry, !.tried = p]
  <2>. HIDE DEF b, h
  <2>1. sess' = [sess EXCEPT ![x] = t]
    <3>. DEFINE y == [s EXCEPT !.st = "resolving", !.retry = retry]
    <3>1. sess' = [[sess EXCEPT ![x] = y] EXCEPT ![x].tried = Append(@, b)]
      BY <1>10
    <3>2. y.tried = q /\ [y EXCEPT !.tried = p] = t
      <4>. HIDE DEF s, q, p
      <4>. QED  BY <1>1 DEF Fields
    <3>. HIDE DEF y, t
    <3>3. sess' = [[sess EXCEPT ![x] = y] EXCEPT ![x] = [y EXCEPT !.tried = Append(y.tried, b)]]
      BY <3>1
    <3>4. sess' = [[sess EXCEPT ![x] = y] EXCEPT ![x] = t]
      BY <3>2, <3>3, Zenon
    <3>. QED  BY <3>4, ChangedAt, Zenon
  <2>. HIDE DEF s, m, v, q, l, u, p
  <2>2. Fields(t, "resolving", v, m, retry, p, l, u)
    BY <1>1, Changes, Zenon
  <2>3. b \in Backend /\ b = GetConnection(heap, m, Len(q))
    BY <1>2, <1>3, <1>10, Zenon DEF b
  <2>4. p \in Seq(Backend) /\ Len(p) = retry + 1 /\ IsInjective(p) /\ Followed(p, m, heap)
    BY <1>1, <1>2, <2>3, NextIsNew, Zenon DEF p
  <2>5. Followed(p, m, h)
    BY <1>6, <2>4, Zenon DEF Followed
  <2>. HIDE DEF t
  <2>6. "resolving" \in States /\ m \in ManagerType(h) \cup {Null}
    BY <1>7 DEF States
  <2>7. Typed(h, t, "resolving", v, m, retry, p, l, u)
    BY <1>1, <2>2, <2>4, <2>6, SessionBuilt, Zenon
  <2>8. SessionOk(t, h)
    BY <1>6, <2>4, <2>5, <2>7, StatesDiffer, Zenon DEF SessionOk, Typed
  <2>9. t \in SessionType(h)
    BY <2>7, Zenon DEF Typed
  <2>10. ub' \in BOOLEAN
    BY <1>10, Zenon
  <2>11. HeapOk(sets') /\ Grows(heap, sets') /\ Fresh(heap, sets')
    BY <1>5, <1>10, Zenon DEF Fresh
  <2>. QED  BY <1>10, <2>1, <2>8, <2>9, <2>10, <2>11, Zenon DEF SessionStep
<1>. QED  BY <1>8, <1>9, <1>10, Zenon DEF Attempt

-----------------------------------------------------------------------------
(* The inductive invariant, and the connection's callbacks.                *)

\* The inductive invariant: the types, backends stored under their names, sets that a
\* selector can work with, sessions that follow their retry counts, and farms that
\* prefer the datacenter.
RoutingInv ==
    /\ TypeOK /\ Named(store) /\ HeapOk(sets)
    /\ \A x \in Sessions : SessionOk(sess[x], sets)
    /\ LocalFirst

\* Sets that grow twice have grown.
LEMMA GrowsOn ==
    ASSUME NEW f, NEW g, NEW h, Grows(f, g), Grows(g, h)
    PROVE  Grows(f, h)
BY Zenon DEF Grows

\* What the invariant says of one session.
LEMMA OfSession ==
    ASSUME RoutingInv, NEW x \in Sessions
    PROVE  /\ sess \in [Sessions -> SessionType(sets)] /\ HeapOk(sets) /\ ub \in BOOLEAN
           /\ sess[x] \in SessionType(sets) /\ SessionOk(sess[x], sets)
           /\ Fields(sess[x], sess[x].st, sess[x].vhost, sess[x].mgr, sess[x].retry,
                     sess[x].tried, sess[x].left, sess[x].using)
<1>1. /\ sess \in [Sessions -> SessionType(sets)] /\ HeapOk(sets) /\ ub \in BOOLEAN
      /\ SessionOk(sess[x], sets)
  BY Zenon DEF RoutingInv, TypeOK
<1>2. sess[x] \in SessionType(sets)
  BY <1>1, Zenon
<1>. QED  BY <1>1, <1>2, SessionFields, Zenon

\* The session's call of getConnection marks a partition, and the session stays as it
\* should be.
LEMMA AfterMarking ==
    ASSUME RoutingInv, NEW x \in Sessions, sess[x].st \in {"resolving", "connecting"}
    PROVE  /\ HeapOk(Marked(x)) /\ Grows(sets, Marked(x))
           /\ sess \in [Sessions -> SessionType(Marked(x))]
           /\ SessionOk(sess[x], Marked(x))
           /\ sess[x].retry \in Nat /\ Len(sess[x].tried) = sess[x].retry + 1
           /\ sess[x].st \in Managing /\ DOMAIN Marked(x) = DOMAIN sets
<1>. DEFINE h == Marked(x)
            s == sess[x]
<1>1. /\ sess \in [Sessions -> SessionType(sets)] /\ HeapOk(sets)
      /\ s \in SessionType(sets) /\ SessionOk(s, sets)
  BY OfSession, Zenon
<1>2. s.st \in Managing
  BY DEF Managing
<1>3. ManagerOk(s.mgr, sets) /\ Len(s.tried) = s.retry + 1
  BY <1>1, <1>2, Zenon DEF SessionOk
<1>4. s.mgr.set \in DOMAIN sets
  BY <1>3, Zenon DEF ManagerOk, ManagerType
<1>5. HeapOk(h) /\ Grows(sets, h) /\ DOMAIN h = DOMAIN sets
  BY <1>1, <1>4, MarkOk, Zenon DEF Marked
<1>. HIDE DEF h
<1>6. SessionType(h) = SessionType(sets)
  BY <1>5, Zenon DEF SessionType, ManagerType
<1>7. SessionOk(s, h)
  BY <1>1, <1>5, SessionKept, Zenon
<1>8. s.retry \in Nat
  BY <1>1, SessionFields, Zenon
<1>9. sess \in [Sessions -> SessionType(h)]
  BY <1>1, <1>6, Zenon
<1>. QED  BY <1>2, <1>3, <1>5, <1>7, <1>8, <1>9, Zenon DEF h

\* The next backend is attempted.
LEMMA NextBackend ==
    ASSUME RoutingInv, NEW x \in Sessions, sess[x].st \in {"resolving", "connecting"},
           Attempt(x, sess[x].retry + 1, Marked(x))
    PROVE  SessionStep(x, sets)
<1>. DEFINE h == Marked(x)
            s == sess[x]
            n == s.retry + 1
<1>1. /\ HeapOk(h) /\ Grows(sets, h) /\ sess \in [Sessions -> SessionType(h)]
      /\ SessionOk(s, h) /\ s.retry \in Nat /\ Len(s.tried) = n /\ s.st \in Managing
      /\ DOMAIN h = DOMAIN sets
  BY AfterMarking, Zenon
<1>2. n \in Nat
  BY <1>1
<1>3. /\ IsInjective(s.tried) /\ ManagerOk(s.mgr, h) /\ Followed(s.tried, s.mgr, h)
  BY <1>1, Zenon DEF SessionOk
<1>4. ub \in BOOLEAN
  BY OfSession, Zenon
<1>. HIDE DEF h, n
<1>5. Attempt(x, n, h)
  BY Zenon DEF h, n
<1>6. SessionStep(x, h)
  BY <1>1, <1>2, <1>3, <1>4, <1>5, AttemptOk, Zenon
<1>7. HeapOk(sets') /\ Grows(h, sets') /\ Fresh(h, sets') /\ ub' \in BOOLEAN
  BY <1>6, Zenon DEF SessionStep
<1>8. Grows(sets, sets') /\ Fresh(sets, sets')
  BY <1>1, <1>7, GrowsOn, Zenon DEF Fresh
<1>. QED  BY <1>6, <1>7, <1>8, Zenon DEF SessionStep

\* A handler that stops at a dangling pointer leaves the session as it was.
LEMMA Stopped ==
    ASSUME RoutingInv, NEW x \in Sessions, ub' = TRUE, UNCHANGED <<sess, sets>>
    PROVE  SessionStep(x, sets)
<1>1. /\ sess \in [Sessions -> SessionType(sets)] /\ HeapOk(sets)
      /\ sess[x] \in SessionType(sets) /\ SessionOk(sess[x], sets)
  BY OfSession, Zenon
<1>2. sess' = [sess EXCEPT ![x] = sess[x]]
  BY <1>1
<1>3. Grows(sets, sets) /\ Fresh(sets, sets) /\ sets' = sets
  BY Zenon DEF Grows, Fresh
<1>. QED  BY <1>1, <1>2, <1>3, Zenon DEF SessionStep

\* A session that goes on with its connection manager.
LEMMA GoesOn ==
    ASSUME RoutingInv, NEW x \in Sessions, sess[x].st \in {"resolving", "connecting"},
           NEW t, NEW n \in 0..(MaxEndpoints - 1),
           Fields(t, "connecting", sess[x].vhost, sess[x].mgr, sess[x].retry,
                  sess[x].tried, n, sess[x].using),
           sess' = [sess EXCEPT ![x] = t], sets' = Marked(x), UNCHANGED ub
    PROVE  SessionStep(x, sets)
<1>. DEFINE h == Marked(x)
            s == sess[x]
<1>1. /\ HeapOk(h) /\ Grows(sets, h) /\ sess \in [Sessions -> SessionType(h)]
      /\ SessionOk(s, h) /\ Len(s.tried) = s.retry + 1 /\ s.st \in Managing
      /\ DOMAIN h = DOMAIN sets
  BY AfterMarking, Zenon
<1>2. s \in SessionType(h)
  BY <1>1, Zenon
<1>. HIDE DEF h, s
<1>3. /\ s.vhost \in Vhosts /\ s.mgr \in ManagerType(h) \cup {Null} /\ s.retry \in Nat
      /\ s.tried \in Seq(Backend) /\ s.using \in Backend \cup {Null}
  BY <1>2, SessionFields, Zenon
<1>4. "connecting" \in States
  BY DEF States
<1>5. Typed(h, t, "connecting", s.vhost, s.mgr, s.retry, s.tried, n, s.using)
  BY <1>3, <1>4, SessionBuilt, Zenon DEF s
<1>6. SessionOk(t, h)
  BY <1>1, <1>5, StatesDiffer, Zenon DEF SessionOk, Typed
<1>7. t \in SessionType(h)
  BY <1>5, Zenon DEF Typed
<1>8. ub' \in BOOLEAN
  BY OfSession, Zenon
<1>9. Fresh(sets, h)
  BY <1>1, Zenon DEF Fresh
<1>. QED  BY <1>1, <1>6, <1>7, <1>8, <1>9, Zenon DEF SessionStep, h

\* The callback of resolve.
LEMMA ResolvedOk ==
    ASSUME RoutingInv, NEW x \in Sessions, Resolved(x)
    PROVE  SessionStep(x, sets)
<1>. DEFINE s == sess[x]
<1>1. s.st \in {"resolving", "connecting"}
  BY Zenon DEF Resolved
<1>2. PICK n \in Endpoints(Current(x)) :
          IF Dangling(Current(x)) THEN ub' = TRUE /\ UNCHANGED <<sess, sets>>
          ELSE IF n = 0 THEN Attempt(x, sess[x].retry + 1, Marked(x))
          ELSE /\ sess' = [sess EXCEPT ![x].st = "connecting", ![x].left = n - 1]
               /\ sets' = Marked(x) /\ UNCHANGED ub
  BY Zenon DEF Resolved
<1>3. CASE Dangling(Current(x))
  BY <1>2, <1>3, Stopped, Zenon
<1>4. CASE ~Dangling(Current(x)) /\ n = 0
  BY <1>1, <1>2, <1>4, NextBackend, Zenon
<1>5. CASE ~Dangling(Current(x)) /\ n # 0
  <2>. DEFINE t == [s EXCEPT !.st = "connecting", !.left = n - 1]
  <2>1. /\ sess' = [sess EXCEPT ![x].st = "connecting", ![x].left = n - 1]
        /\ sets' = Marked(x) /\ UNCHANGED ub
    BY <1>2, <1>5, Zenon
  <2>2. sess \in [Sessions -> SessionType(sets)]
    BY OfSession, Zenon
  <2>3. sess' = [sess EXCEPT ![x] = t]
    BY <2>1, <2>2
  <2>4. n - 1 \in 0..(MaxEndpoints - 1)
    <3>1. n \in 0..MaxEndpoints \/ n \in 0..1
      BY Zenon DEF Endpoints
    <3>. QED  BY <1>5, <3>1, RoutingAssumption
  <2>5. Fields(t, "connecting", s.vhost, s.mgr, s.retry, s.tried, n - 1, s.using)
    BY OfSession, Changes, Zenon
  <2>. HIDE DEF t
  <2>. QED  BY <1>1, <2>1, <2>3, <2>4, <2>5, GoesOn, Zenon
<1>. QED  BY <1>3, <1>4, <1>5, Zenon

\* The callback of async_connect that reports an error.
LEMMA ConnectFailedOk ==
    ASSUME RoutingInv, NEW x \in Sessions, ConnectFailed(x)
    PROVE  SessionStep(x, sets)
<1>. DEFINE s == sess[x]
<1>1. s.st \in {"resolving", "connecting"} /\ s.st = "connecting"
  BY Zenon DEF ConnectFailed
<1>2. IF Dangling(Current(x)) THEN ub' = TRUE /\ UNCHANGED <<sess, sets>>
      ELSE IF sess[x].left = 0 THEN Attempt(x, sess[x].retry + 1, Marked(x))
      ELSE /\ sess' = [sess EXCEPT ![x].left = @ - 1]
           /\ sets' = Marked(x) /\ UNCHANGED ub
  BY Zenon DEF ConnectFailed
<1>3. CASE Dangling(Current(x))
  BY <1>2, <1>3, Stopped, Zenon
<1>4. CASE ~Dangling(Current(x)) /\ s.left = 0
  BY <1>1, <1>2, <1>4, NextBackend, Zenon
<1>5. CASE ~Dangling(Current(x)) /\ s.left # 0
  <2>. DEFINE n == s.left - 1
              t == [s EXCEPT !.left = n]
  <2>1. /\ sess' = [sess EXCEPT ![x].left = @ - 1]
        /\ sets' = Marked(x) /\ UNCHANGED ub
    BY <1>2, <1>5, Zenon
  <2>2. sess \in [Sessions -> SessionType(sets)] /\ s \in SessionType(sets)
    BY OfSession, Zenon
  <2>3. sess' = [sess EXCEPT ![x] = t]
    BY <2>1, <2>2, Zenon
  <2>4. s.left \in 0..(MaxEndpoints - 1)
    BY <2>2, SessionFields, Zenon
  <2>5. n \in 0..(MaxEndpoints - 1)
    BY <1>5, <2>4, RoutingAssumption
  <2>. HIDE DEF n
  <2>6. Fields(t, "connecting", s.vhost, s.mgr, s.retry, s.tried, n, s.using)
    <3>1. Fields(t, s.st, s.vhost, s.mgr, s.retry, s.tried, n, s.using)
      BY OfSession, Change, Zenon
    <3>. QED  BY <1>1, <3>1, Zenon
  <2>. HIDE DEF t
  <2>. QED  BY <1>1, <2>1, <2>3, <2>5, <2>6, GoesOn, Zenon
<1>. QED  BY <1>3, <1>4, <1>5, Zenon

\* The callback of async_connect that reports success: the backend is the one that
\* was attempted last.
LEMMA ConnectedOk ==
    ASSUME RoutingInv, NEW x \in Sessions, Connected(x)
    PROVE  SessionStep(x, sets)
<1>. DEFINE h == Marked(x)
            s == sess[x]
            b == Current(x)
            t == [s EXCEPT !.st = "connected", !.mgr = Null, !.using = b]
<1>1. s.st \in {"resolving", "connecting"}
  BY Zenon DEF Connected
<1>2. /\ HeapOk(h) /\ Grows(sets, h) /\ sess \in [Sessions -> SessionType(h)]
      /\ SessionOk(s, h) /\ Len(s.tried) = s.retry + 1 /\ s.st \in Managing
      /\ s.retry \in Nat /\ DOMAIN h = DOMAIN sets
  BY <1>1, AfterMarking, Zenon
<1>3. /\ HeapOk(sets) /\ SessionOk(s, sets) /\ s \in SessionType(sets)
      /\ sess \in [Sessions -> SessionType(sets)]
      /\ Fields(s, s.st, s.vhost, s.mgr, s.retry, s.tried, s.left, s.using)
  BY OfSession, Zenon
<1>4. ManagerOk(s.mgr, sets) /\ Followed(s.tried, s.mgr, sets) /\ IsInjective(s.tried)
  BY <1>2, <1>3, Zenon DEF SessionOk
<1>5. b \in Backend \cup {Null}
  BY <1>2, <1>3, <1>4, GetType, Zenon DEF Current
<1>6. b = s.tried[Len(s.tried)]
  <2>1. s.tried \in Seq(Backend)
    BY <1>3, SessionFields, Zenon
  <2>. DEFINE q == s.tried
              n == s.retry
  <2>. HIDE DEF q, n
  <2>2. q \in Seq(Backend) /\ n \in Nat /\ Len(q) = n + 1
    BY <1>2, <2>1, Zenon DEF q, n
  <2>3. Len(q) \in DOMAIN q /\ Len(q) - 1 = n
    BY <2>2
  <2>. QED  BY <1>4, <2>3, Zenon DEF Followed, Current, q, n
<1>7. sess' = [sess EXCEPT ![x] = t] /\ sets' = h
  <2>1. sess' = [sess EXCEPT ![x].st = "connected", ![x].mgr = Null,
                             ![x].using = Current(x)]
    BY Zenon DEF Connected
  <2>2. sets' = h
    BY Zenon DEF Connected
  <2>. HIDE DEF b
  <2>. QED  BY <1>3, <2>1, <2>2 DEF b
<1>. HIDE DEF b
<1>8. Fields(t, "connected", s.vhost, Null, s.retry, s.tried, s.left, b)
  BY <1>3, Changes, Zenon
<1>. HIDE DEF t, h
<1>9. /\ "connected" \in States /\ s.vhost \in Vhosts
      /\ Null \in ManagerType(h) \cup {Null} /\ s.retry \in Nat
      /\ s.tried \in Seq(Backend) /\ s.left \in 0..(MaxEndpoints - 1)
  <2>1. "connected" \in States
    BY DEF States
  <2>. QED  BY <1>3, <2>1, SessionFields, Zenon
<1>10. Typed(h, t, "connected", s.vhost, Null, s.retry, s.tried, s.left, b)
  BY <1>5, <1>8, <1>9, SessionBuilt, Zenon
<1>11. SessionOk(t, h)
  BY <1>4, <1>6, <1>10, StatesDiffer, Zenon DEF SessionOk, Typed
<1>12. t \in SessionType(h)
  BY <1>10, Zenon DEF Typed
<1>13. ub' \in BOOLEAN
  BY Zenon DEF Connected
<1>14. Fresh(sets, h)
  BY <1>2, Zenon DEF Fresh
<1>. QED  BY <1>2, <1>7, <1>11, <1>12, <1>13, <1>14, Zenon DEF SessionStep

-----------------------------------------------------------------------------
(* The start of a session.                                                 *)

\* A session that is refused.
LEMMA Refused ==
    ASSUME RoutingInv, NEW x \in Sessions, sess[x].st = "new", NEW st \in Idle,
           sess' = [sess EXCEPT ![x].st = st], UNCHANGED <<sets, ub>>
    PROVE  SessionStep(x, sets)
<1>. DEFINE s == sess[x]
            t == [s EXCEPT !.st = st]
<1>1. /\ HeapOk(sets) /\ SessionOk(s, sets) /\ s \in SessionType(sets)
      /\ sess \in [Sessions -> SessionType(sets)] /\ ub \in BOOLEAN
      /\ Fields(s, s.st, s.vhost, s.mgr, s.retry, s.tried, s.left, s.using)
  BY OfSession, Zenon
<1>2. sess' = [sess EXCEPT ![x] = t]
  BY <1>1, Zenon
<1>. HIDE DEF s
<1>3. Fields(t, st, s.vhost, s.mgr, s.retry, s.tried, s.left, s.using)
  BY <1>1, Change, Zenon
<1>. HIDE DEF t
<1>4. st \in States
  BY DEF Idle, States
<1>5. Typed(sets, t, st, s.vhost, s.mgr, s.retry, s.tried, s.left, s.using)
  BY <1>1, <1>3, <1>4, SessionFields, SessionBuilt, Zenon
<1>6. s.mgr = Null /\ s.tried = <<>>
  <2>1. s.st = "new"
    BY Zenon DEF s
  <2>. QED  BY <1>1, <2>1, StatesDiffer, Zenon DEF SessionOk
<1>7. /\ t.st \in Idle /\ t.mgr = Null /\ t.tried = <<>> /\ t \in SessionType(sets)
  BY <1>5, <1>6, Zenon DEF Typed
<1>8. SessionOk(t, sets)
  BY <1>7, IdleOk, Zenon
<1>9. Grows(sets, sets) /\ Fresh(sets, sets) /\ sets' = sets /\ ub' = ub
  BY Zenon DEF Grows, Fresh
<1>. QED  BY <1>1, <1>2, <1>7, <1>8, <1>9, Zenon DEF SessionStep

\* A session that gets a connection manager.
LEMMA Managed ==
    ASSUME RoutingInv, NEW x \in Sessions, sess[x].st = "new", NEW m, NEW heap,
           HeapOk(heap), Grows(sets, heap), Fresh(sets, heap), ManagerOk(m, heap),
           sess' = [sess EXCEPT ![x].st = "acquired", ![x].mgr = m],
           sets' = heap, UNCHANGED ub
    PROVE  SessionStep(x, sets)
<1>. DEFINE s == sess[x]
            t == [s EXCEPT !.st = "acquired", !.mgr = m]
<1>1. /\ SessionOk(s, sets) /\ s \in SessionType(sets)
      /\ sess \in [Sessions -> SessionType(sets)] /\ ub \in BOOLEAN
      /\ Fields(s, s.st, s.vhost, s.mgr, s.retry, s.tried, s.left, s.using)
  BY OfSession, Zenon
<1>2. sess' = [sess EXCEPT ![x] = t]
  BY <1>1
<1>. HIDE DEF s
<1>3. Fields(t, "acquired", s.vhost, m, s.retry, s.tried, s.left, s.using)
  BY <1>1, Changes, Zenon
<1>. HIDE DEF t
<1>4. "acquired" \in States /\ m \in ManagerType(heap) \cup {Null}
  BY DEF States, ManagerOk
<1>5. Typed(heap, t, "acquired", s.vhost, m, s.retry, s.tried, s.left, s.using)
  BY <1>1, <1>3, <1>4, SessionFields, SessionBuilt, Zenon
<1>6. s.tried = <<>> /\ IsInjective(s.tried)
  <2>1. s.st = "new"
    BY Zenon DEF s
  <2>. QED  BY <1>1, <2>1, Zenon DEF SessionOk
<1>7. Followed(s.tried, m, heap)
  <2>1. \A k \in DOMAIN <<>> : FALSE
    OBVIOUS
  <2>. QED  BY <1>6, <2>1, Zenon DEF Followed
<1>8. SessionOk(t, heap)
  BY <1>5, <1>6, <1>7, StatesDiffer, Zenon DEF SessionOk, Typed
<1>9. t \in SessionType(heap)
  BY <1>5, Zenon DEF Typed
<1>. QED  BY <1>1, <1>2, <1>8, <1>9, Zenon DEF SessionStep

\* A connection manager that was just made has the markers of its set.
LEMMA ManagerMade ==
    ASSUME NEW heap, HeapOk(heap), NEW set \in DOMAIN heap, NEW selector \in BOOLEAN,
           ~selector => \E b \in Backend : heap[set].parts = <<<<b>>>>
    PROVE  ManagerOk(Manager(set, heap, selector), heap)
<1>. DEFINE k == heap[set].markers
            m == [set |-> set, snapshot |-> k, selector |-> selector]
<1>1. m.set = set /\ m.snapshot = k /\ m.selector = selector
  BY Zenon
<1>2. Marking(heap[set].parts, k)
  BY Zenon DEF HeapOk, SetOk
<1>3. k \in Seq(Nat)
  BY <1>2, Zenon DEF Marking
<1>. HIDE DEF k
<1>4. m \in ManagerType(heap)
  BY <1>3, Zenon DEF ManagerType
<1>5. m = Manager(set, heap, selector)
  BY Zenon DEF Manager, k
<1>. HIDE DEF m
<1>6. ManagerOk(m, heap)
  BY <1>1, <1>2, <1>4, Zenon DEF ManagerOk
<1>. QED  BY <1>5, <1>6, Zenon

\* A set of one backend is added.
LEMMA SetAdded ==
    ASSUME NEW heap, HeapOk(heap), NEW b \in Backend
    PROVE  LET h == Append(heap, NewSet(<<<<b>>>>))
           IN  /\ HeapOk(h) /\ Grows(heap, h) /\ Fresh(heap, h) /\ Len(h) \in DOMAIN h
               /\ h[Len(h)].parts = <<<<b>>>>
<1>. DEFINE new == NewSet(<<<<b>>>>)
            more == <<new>>
            h == Append(heap, new)
<1>1. <<<<b>>>> \in Seq(Partition)
  BY DEF Partition
<1>2. Apart(<<<<b>>>>)
  BY DEF Apart
<1>3. SetOk(new) /\ new.parts = <<<<b>>>>
  BY <1>1, <1>2, NewSetOk, Zenon
<1>. HIDE DEF new
<1>4. new \in BackendSet /\ heap \in Seq(BackendSet)
  BY <1>3, Zenon DEF SetOk, HeapOk
<1>5. /\ more \in Seq(BackendSet) /\ DOMAIN more = {1} /\ more[1] = new
      /\ h = heap \o more /\ Len(h) = Len(heap) + 1
  BY <1>4
<1>6. HeapOk(more)
  BY <1>3, <1>5, Zenon DEF HeapOk
<1>. HIDE DEF more, h
<1>7. HeapOk(h) /\ Grows(heap, h) /\ Longer(heap, more, h)
  BY <1>5, <1>6, MoreSets, Zenon
<1>8. Len(heap) + 1 \in DOMAIN h /\ h[Len(heap) + 1] = new
  BY <1>5, <1>7, Zenon DEF Longer
<1>9. Len(h) \in DOMAIN h /\ h[Len(h)].parts = <<<<b>>>>
  BY <1>3, <1>5, <1>8, Zenon
<1>10. Fresh(heap, h)
  <2>1. \A n \in DOMAIN h \ DOMAIN heap : h[n] = new
    BY <1>5, <1>7, Zenon DEF Longer
  <2>2. <<<<b>>>> \in Seq(Seq(Backend))
    OBVIOUS
  <2>. QED  BY <1>3, <2>1, <2>2, Zenon DEF Fresh
<1>. QED  BY <1>7, <1>9, <1>10, Zenon DEF h, new

\* A connection limit.
LEMMA LimitedOk ==
    ASSUME RoutingInv, NEW x \in Sessions, Limited(x)
    PROVE  SessionStep(x, sets)
<1>1. "LIMIT" \in Idle
  BY DEF Idle
<1>. QED  BY <1>1, Refused, Zenon DEF Limited

\* What a vhost is mapped to: a farm's name or a backend's.
LEMMA ResourceType ==
    ASSUME RoutingInv, NEW v \in Vhosts
    PROVE  LET r == ResourceOf(v)
           IN  \/ r = Null
               \/ r.farm = TRUE /\ r.name \in Farms
               \/ r.farm = FALSE /\ r.name \in Backends
<1>1. map[v] \in Resource \cup {Null} /\ default \in Farms \cup {Null}
  BY Zenon DEF RoutingInv, TypeOK
<1>2. CASE map[v] # Null
  <2>1. ResourceOf(v) = map[v]
    BY <1>2, Zenon DEF ResourceOf
  <2>2. map[v] \in [farm : {TRUE}, name : Farms] \/ map[v] \in [farm : {FALSE}, name : Backends]
    BY <1>1, <1>2, Zenon DEF Resource
  <2>. QED  BY <2>1, <2>2, Zenon
<1>3. CASE map[v] = Null
  <2>1. CASE default = Null
    BY <1>3, <2>1, Zenon DEF ResourceOf
  <2>2. CASE default # Null
    <3>. DEFINE d == default
    <3>1. ResourceOf(v) = [farm |-> TRUE, name |-> d] /\ d \in Farms
      BY <1>1, <1>3, <2>2, Zenon DEF ResourceOf
    <3>. HIDE DEF d
    <3>2. ResourceOf(v).farm = TRUE /\ ResourceOf(v).name = d
      BY <3>1
    <3>. QED  BY <3>1, <3>2, Zenon
  <2>. QED  BY <2>1, <2>2, Zenon
<1>. QED  BY <1>2, <1>3, Zenon

\* acquireConnection: a session is refused, or gets a connection manager for the set of
\* its farm or for a set of its one backend.
LEMMA AcquireOk ==
    ASSUME RoutingInv, NEW x \in Sessions, Acquire(x)
    PROVE  SessionStep(x, sets)
<1>. DEFINE r == ResourceOf(sess[x].vhost)
            End(st) == /\ sess' = [sess EXCEPT ![x].st = st]
                       /\ UNCHANGED <<sets, ub>>
            Go(m, heap) == /\ sess' = [sess EXCEPT ![x].st = "acquired", ![x].mgr = m]
                           /\ sets' = heap /\ UNCHANGED ub
            h == Append(sets, NewSet(<<<<store[r.name]>>>>))
<1>1. sess[x].st = "new"
  BY Zenon DEF Acquire
<1>2. (CASE r = Null -> End("NO_FARM")
        [] r # Null /\ r.farm /\ GetFarmByName(r.name) = Null -> End("ERROR_FARM")
        [] r # Null /\ r.farm /\ GetFarmByName(r.name) # Null ->
              Go(Manager(BackendSetOf(GetFarmByName(r.name)), sets, TRUE), sets)
        [] r # Null /\ ~r.farm /\ Lookup(store, r.name) = Null -> End("NO_BACKEND")
        [] OTHER -> Go(Manager(Len(h), h, FALSE), h))
  BY Zenon DEF Acquire
<1>3. sess[x].vhost \in Vhosts /\ HeapOk(sets)
  BY OfSession, SessionFields, Zenon
<1>4. \/ r = Null
      \/ r.farm = TRUE /\ r.name \in Farms
      \/ r.farm = FALSE /\ r.name \in Backends
  BY <1>3, ResourceType, Zenon
<1>5. ASSUME NEW st \in {"NO_FARM", "ERROR_FARM", "NO_BACKEND"}, End(st)
      PROVE  SessionStep(x, sets)
  <2>1. st \in Idle
    BY DEF Idle
  <2>. QED  BY <1>1, <1>5, <2>1, Refused, Zenon
<1>. HIDE DEF r
<1>6. CASE r = Null
  BY <1>2, <1>5, <1>6, Zenon
<1>7. CASE r # Null /\ r.farm = TRUE /\ r.name \in Farms
  <2>1. CASE GetFarmByName(r.name) = Null
    BY <1>2, <1>5, <1>7, <2>1, Zenon
  <2>2. CASE GetFarmByName(r.name) # Null
    <3>. DEFINE n == BackendSetOf(GetFarmByName(r.name))
                m == Manager(n, sets, TRUE)
    <3>1. Go(m, sets)
      BY <1>2, <1>7, <2>2, Zenon
    <3>2. n \in DOMAIN sets
      BY <1>7, <2>2, Zenon DEF BackendSetOf, GetFarmByName, RoutingInv, TypeOK
    <3>. HIDE DEF n
    <3>3. ManagerOk(m, sets)
      BY <1>3, <3>2, ManagerMade, Zenon
    <3>. HIDE DEF m
    <3>4. Grows(sets, sets) /\ Fresh(sets, sets)
      BY Zenon DEF Grows, Fresh
    <3>. QED  BY <1>1, <1>3, <3>1, <3>3, <3>4, Managed, Zenon
  <2>. QED  BY <2>1, <2>2, Zenon
<1>8. CASE r # Null /\ r.farm = FALSE /\ r.name \in Backends
  <2>1. CASE Lookup(store, r.name) = Null
    BY <1>2, <1>5, <1>8, <2>1, Zenon
  <2>2. CASE Lookup(store, r.name) # Null
    <3>. DEFINE b == store[r.name]
                m == Manager(Len(h), h, FALSE)
    <3>1. Go(m, h)
      BY <1>2, <1>8, <2>2, Zenon
    <3>2. b \in Backend
      BY <1>8, <2>2, Zenon DEF Lookup, RoutingInv, TypeOK
    <3>3. /\ HeapOk(h) /\ Grows(sets, h) /\ Fresh(sets, h) /\ Len(h) \in DOMAIN h
          /\ h[Len(h)].parts = <<<<b>>>>
      BY <1>3, <3>2, SetAdded, Zenon
    <3>. HIDE DEF h, b
    <3>4. ManagerOk(m, h)
      BY <3>2, <3>3, ManagerMade, Zenon
    <3>. HIDE DEF m
    <3>. QED  BY <1>1, <3>1, <3>3, <3>4, Managed, Zenon
  <2>. QED  BY <2>1, <2>2, Zenon
<1>. QED  BY <1>4, <1>6, <1>7, <1>8, Zenon

\* The first attempt.
LEMMA FirstAttemptOk ==
    ASSUME RoutingInv, NEW x \in Sessions, FirstAttempt(x)
    PROVE  SessionStep(x, sets)
<1>. DEFINE s == sess[x]
<1>1. s.st = "acquired" /\ Attempt(x, 0, sets)
  BY Zenon DEF FirstAttempt
<1>2. /\ HeapOk(sets) /\ SessionOk(s, sets) /\ ub \in BOOLEAN
      /\ sess \in [Sessions -> SessionType(sets)]
  BY OfSession, Zenon
<1>3. s.st \in Managing
  BY <1>1, StatesDiffer, Zenon
<1>4. /\ IsInjective(s.tried) /\ ManagerOk(s.mgr, sets) /\ Followed(s.tried, s.mgr, sets)
      /\ s.tried = <<>>
  BY <1>1, <1>2, <1>3, Zenon DEF SessionOk
<1>5. Len(s.tried) = 0 /\ 0 \in Nat
  BY <1>4
<1>. QED  BY <1>1, <1>2, <1>4, <1>5, AttemptOk, Zenon

-----------------------------------------------------------------------------
(* The commands that partition no farm.                                    *)

\* Farm f, when it is partitioned, prefers the datacenter.
Preferring(f) ==
    farms[f] # Null /\ farms[f].policies > 0 => PrefersLocal(sets[farms[f].set].parts, dc)

\* LocalFirst, one farm at a time.
LEMMA LocalFirstIs ==
    /\ LocalFirst <=> \A f \in Farms : ~ub => Preferring(f)
    /\ LocalFirst' <=> \A f \in Farms : ~ub' => Preferring(f)'
<1>1. LocalFirst <=> \A f \in Farms : ~ub => Preferring(f)
  BY Zenon DEF LocalFirst, Preferring, PrefersLocal
<1>2. LocalFirst' <=> \A f \in Farms : ~ub' => Preferring(f)'
  BY Zenon DEF LocalFirst, Preferring, PrefersLocal
<1>. QED  BY <1>1, <1>2, Zenon

\* A farm that is left alone prefers what it preferred: its set keeps its partitions.
LEMMA StillPreferring ==
    ASSUME RoutingInv, ~ub, NEW f \in Farms, farms'[f] = farms[f], dc' = dc,
           Grows(sets, sets')
    PROVE  Preferring(f)' /\ (farms'[f] # Null => farms'[f].set \in DOMAIN sets')
<1>1. Preferring(f) /\ (farms[f] # Null => farms[f].set \in DOMAIN sets)
  BY LocalFirstIs, Zenon DEF RoutingInv, TypeOK
<1>2. CASE farms[f] = Null
  BY <1>2, Zenon DEF Preferring
<1>3. CASE farms[f] # Null
  <2>1. farms[f].set \in DOMAIN sets
    BY <1>1, <1>3, Zenon
  <2>2. /\ farms[f].set \in DOMAIN sets'
        /\ sets'[farms[f].set].parts = sets[farms[f].set].parts
    BY <2>1, Zenon DEF Grows
  <2>. QED  BY <1>1, <2>2, Zenon DEF Preferring
<1>. QED  BY <1>2, <1>3, Zenon

\* A session's step keeps the invariant: the other sessions are not affected.
LEMMA SessionStepInv ==
    ASSUME RoutingInv, ~ub, NEW x \in Sessions, SessionStep(x, sets),
           UNCHANGED <<config, cmds>>
    PROVE  RoutingInv'
<1>0. UNCHANGED <<store, farms, map, default, dc>> /\ cmds' = cmds
  BY Zenon DEF config
<1>1. /\ sess \in [Sessions -> SessionType(sets)] /\ TypeOK /\ Named(store)
      /\ \A y \in Sessions : SessionOk(sess[y], sets)
  BY Zenon DEF RoutingInv, TypeOK
<1>2. HeapOk(sets') /\ Grows(sets, sets') /\ ub' \in BOOLEAN
  BY Zenon DEF SessionStep
<1>3. PICK t \in SessionType(sets') : sess' = [sess EXCEPT ![x] = t] /\ SessionOk(t, sets')
  BY Zenon DEF SessionStep
<1>4. ASSUME NEW y \in Sessions
      PROVE  sess'[y] \in SessionType(sets') /\ SessionOk(sess'[y], sets')
  <2>1. CASE y = x
    <3>1. sess'[y] = t
      BY <1>1, <1>3, <2>1, Zenon
    <3>. QED  BY <1>3, <3>1, Zenon
  <2>2. CASE y # x
    <3>1. sess'[y] = sess[y] /\ sess[y] \in SessionType(sets) /\ SessionOk(sess[y], sets)
      BY <1>1, <1>3, <2>2, Zenon
    <3>. QED  BY <1>2, <3>1, SessionKept, Zenon
  <2>. QED  BY <2>1, <2>2, Zenon
<1>5. sess' \in [Sessions -> SessionType(sets')]
  <2>1. \A y \in Sessions : sess'[y] \in SessionType(sets')
    BY <1>4, Zenon
  <2>2. sess' = [y \in Sessions |-> IF y = x THEN t ELSE sess[y]]
    BY <1>1, <1>3
  <2>. DEFINE G(y) == IF y = x THEN t ELSE sess[y]
  <2>3. sess' = [y \in Sessions |-> G(y)]
    BY <2>2, Zenon
  <2>. HIDE DEF G
  <2>. QED  BY <2>1, <2>3, Zenon
<1>6. \A f \in Farms : /\ Preferring(f)'
                       /\ farms'[f] # Null => farms'[f].set \in DOMAIN sets'
  <2>1. ASSUME NEW f \in Farms
        PROVE  Preferring(f)' /\ (farms'[f] # Null => farms'[f].set \in DOMAIN sets')
    <3>1. farms'[f] = farms[f] /\ dc' = dc
      BY <1>0, Zenon
    <3>. QED  BY <1>2, <3>1, StillPreferring, Zenon
  <2>. QED  BY <2>1, Zenon
<1>7. sets' \in Seq(BackendSet)
  BY <1>2, Zenon DEF HeapOk
<1>8. TypeOK'
  BY <1>0, <1>1, <1>2, <1>5, <1>6, <1>7, Zenon DEF TypeOK
<1>9. LocalFirst'
  BY <1>6, LocalFirstIs, Zenon
<1>10. Named(store')
  BY <1>0, <1>1, Zenon
<1>. QED  BY <1>2, <1>4, <1>8, <1>9, <1>10, Zenon DEF RoutingInv

\* A command keeps the invariant when it leaves stores of their types, sets with their
\* partitions and farms that prefer the datacenter: the sessions are not affected.
LEMMA CommandInv ==
    ASSUME RoutingInv, NEW c, Issue(c),
           store' \in [Backends -> Backend \cup {Null}], Named(store'),
           farms' \in [Farms -> Farm \cup {Null}],
           \A f \in Farms : farms'[f] # Null => farms'[f].set \in DOMAIN sets',
           HeapOk(sets'), Grows(sets, sets'),
           map' \in [Vhosts -> Resource \cup {Null}], default' \in Farms \cup {Null},
           dc' \in Datacenters, ub' \in BOOLEAN,
           \A f \in Farms : ~ub' => Preferring(f)'
    PROVE  RoutingInv'
<1>1. sess' = sess /\ cmds' = cmds + 1
  BY Zenon DEF Issue
<1>2. cmds \in Nat
  BY Zenon DEF RoutingInv, TypeOK
<1>3. cmds' \in Nat
  BY <1>1, <1>2
<1>4. ASSUME NEW y \in Sessions
      PROVE  sess'[y] \in SessionType(sets') /\ SessionOk(sess'[y], sets')
  <2>1. sess'[y] = sess[y] /\ sess[y] \in SessionType(sets) /\ SessionOk(sess[y], sets)
    BY <1>1, Zenon DEF RoutingInv, TypeOK
  <2>. QED  BY <2>1, SessionKept, Zenon
<1>5. sess' \in [Sessions -> SessionType(sets')]
  <2>1. \A y \in Sessions : sess'[y] \in SessionType(sets')
    BY <1>4, Zenon
  <2>2. sess \in [Sessions -> SessionType(sets)]
    BY Zenon DEF RoutingInv, TypeOK
  <2>. QED  BY <1>1, <2>1, <2>2
<1>6. sets' \in Seq(BackendSet)
  BY Zenon DEF HeapOk
<1>7. TypeOK'
  BY <1>3, <1>5, <1>6, Zenon DEF TypeOK
<1>8. LocalFirst'
  BY LocalFirstIs, Zenon
<1>. QED  BY <1>4, <1>7, <1>8, Zenon DEF RoutingInv

\* The types that a command starts with.
LEMMA Typing ==
    ASSUME RoutingInv
    PROVE  /\ store \in [Backends -> Backend \cup {Null}] /\ Named(store)
           /\ farms \in [Farms -> Farm \cup {Null}]
           /\ \A f \in Farms : farms[f] # Null => farms[f].set \in DOMAIN sets
           /\ HeapOk(sets) /\ Grows(sets, sets)
           /\ map \in [Vhosts -> Resource \cup {Null}] /\ default \in Farms \cup {Null}
           /\ dc \in Datacenters /\ ub \in BOOLEAN /\ cmds \in Nat
           /\ \A f \in Farms : ~ub => Preferring(f)
<1>1. /\ store \in [Backends -> Backend \cup {Null}] /\ Named(store)
      /\ farms \in [Farms -> Farm \cup {Null}]
      /\ \A f \in Farms : farms[f] # Null => farms[f].set \in DOMAIN sets
      /\ HeapOk(sets)
      /\ map \in [Vhosts -> Resource \cup {Null}] /\ default \in Farms \cup {Null}
      /\ dc \in Datacenters /\ ub \in BOOLEAN /\ cmds \in Nat /\ LocalFirst
  BY Zenon DEF RoutingInv, TypeOK
<1>2. Grows(sets, sets)
  BY Zenon DEF Grows
<1>. QED  BY <1>1, <1>2, LocalFirstIs, Zenon

\* A command that leaves the farms, their sets and the datacenter alone.
LEMMA StoresInv ==
    ASSUME RoutingInv, NEW c, Issue(c), UNCHANGED <<farms, sets, dc, ub>>,
           store' \in [Backends -> Backend \cup {Null}], Named(store'),
           map' \in [Vhosts -> Resource \cup {Null}], default' \in Farms \cup {Null}
    PROVE  RoutingInv'
<1>0. farms' = farms /\ sets' = sets /\ dc' = dc /\ ub' = ub
  BY Zenon
<1>1. /\ farms' \in [Farms -> Farm \cup {Null}]
      /\ \A f \in Farms : farms'[f] # Null => farms'[f].set \in DOMAIN sets'
      /\ HeapOk(sets') /\ Grows(sets, sets') /\ dc' \in Datacenters /\ ub' \in BOOLEAN
  BY <1>0, Typing, Zenon
<1>2. \A f \in Farms : ~ub' => Preferring(f)'
  <2>1. ~ub
    BY Zenon DEF Issue
  <2>2. ASSUME NEW f \in Farms
        PROVE  Preferring(f)'
    <3>1. farms'[f] = farms[f] /\ dc' = dc
      BY <1>0, Zenon
    <3>. QED  BY <1>1, <2>1, <3>1, StillPreferring, Zenon
  <2>. QED  BY <2>2, Zenon
<1>. QED  BY <1>1, <1>2, CommandInv, Zenon

\* BACKEND ADD: the backend is stored under its name.
LEMMA BackendAddInv ==
    ASSUME RoutingInv, BackendAdd
    PROVE  RoutingInv'
<1>1. Issue("backend_add") /\ UNCHANGED <<farms, sets, map, default, dc, ub>>
  BY Zenon DEF BackendAdd
<1>2. PICK b \in Backends, d \in Datacenters : InsertBackend(NewBackend(b, d, cmds'))
  BY Zenon DEF BackendAdd
<1>. DEFINE e == NewBackend(b, d, cmds')
<1>3. cmds' \in Nat
  BY <1>1, Typing DEF Issue
<1>4. e \in Backend /\ e.name = b
  BY <1>3 DEF NewBackend, Backend
<1>5. store' = [store EXCEPT ![e.name] = e]
  BY <1>2, Zenon DEF InsertBackend
<1>. HIDE DEF e
<1>6. store' = [store EXCEPT ![b] = e]
  BY <1>4, <1>5, Zenon
<1>7. store' \in [Backends -> Backend \cup {Null}]
  BY <1>4, <1>6, Typing
<1>8. Named(store')
  <2>1. store \in [Backends -> Backend \cup {Null}] /\ Named(store)
    BY Typing, Zenon
  <2>2. ASSUME NEW a \in Backends, store'[a] # Null
        PROVE  store'[a].name = a
    <3>1. CASE a = b
      BY <1>4, <1>6, <2>1, <3>1, Zenon
    <3>2. CASE a # b
      <4>1. store'[a] = store[a]
        BY <1>6, <2>1, <3>2, Zenon
      <4>. QED  BY <2>1, <2>2, <4>1, Zenon DEF Named
    <3>. QED  BY <3>1, <3>2, Zenon
  <2>. QED  BY <2>2, Zenon DEF Named
<1>9. map' \in [Vhosts -> Resource \cup {Null}] /\ default' \in Farms \cup {Null}
  BY <1>1, Typing, Zenon
<1>10. UNCHANGED <<farms, sets, dc, ub>>
  BY <1>1, Zenon
<1>. QED  BY <1>1, <1>7, <1>8, <1>9, <1>10, StoresInv, Zenon

\* BACKEND DELETE: the sets keep the backend.
LEMMA BackendDeleteInv ==
    ASSUME RoutingInv, BackendDelete
    PROVE  RoutingInv'
<1>1. Issue("backend_delete") /\ UNCHANGED <<farms, sets, map, default, dc, ub>>
  BY Zenon DEF BackendDelete
<1>2. PICK b \in Backends : store' = [store EXCEPT ![b] = Null]
  BY Zenon DEF BackendDelete, RemoveBackend
<1>3. store \in [Backends -> Backend \cup {Null}] /\ Named(store)
  BY Typing, Zenon
<1>4. store' \in [Backends -> Backend \cup {Null}]
  BY <1>2, <1>3
<1>5. \A a \in Backends : store'[a] # Null => store'[a] = store[a]
  BY <1>2, <1>3
<1>6. Named(store')
  BY <1>3, <1>5, Zenon DEF Named
<1>7. map' \in [Vhosts -> Resource \cup {Null}] /\ default' \in Farms \cup {Null}
  BY <1>1, Typing, Zenon
<1>8. UNCHANGED <<farms, sets, dc, ub>>
  BY <1>1, Zenon
<1>. QED  BY <1>1, <1>4, <1>6, <1>7, <1>8, StoresInv, Zenon

\* MAP, UNMAP and MAP DEFAULT.
LEMMA MapInv ==
    ASSUME RoutingInv, Map \/ Unmap \/ MapDefault
    PROVE  RoutingInv'
<1>1. PICK c : Issue(c)
  BY Zenon DEF Map, Unmap, MapDefault
<1>2. UNCHANGED <<store, farms, sets, dc, ub>>
  BY Zenon DEF Map, Unmap, MapDefault
<1>3. map' \in [Vhosts -> Resource \cup {Null}]
  <2>0. map \in [Vhosts -> Resource \cup {Null}]
    BY Typing, Zenon
  <2>1. CASE Map
    <3>1. PICK v \in Vhosts, n \in Farms \cup Backends, k \in BOOLEAN :
             /\ map' = [map EXCEPT ![v] = [farm |-> k, name |-> n]]
             /\ k => n \in Farms
             /\ ~k => n \in Backends
      BY <2>1, Zenon DEF Map
    <3>. DEFINE r == [farm |-> k, name |-> n]
    <3>2. r \in Resource
      BY <3>1 DEF Resource
    <3>. HIDE DEF r
    <3>3. map' = [map EXCEPT ![v] = r]
      BY <3>1, Zenon DEF r
    <3>. QED  BY <2>0, <3>2, <3>3
  <2>2. CASE Unmap
    <3>1. PICK v \in Vhosts : map' = [map EXCEPT ![v] = Null]
      BY <2>2, Zenon DEF Unmap
    <3>. QED  BY <2>0, <3>1
  <2>3. CASE MapDefault
    BY <2>0, <2>3, Zenon DEF MapDefault
  <2>. QED  BY <2>1, <2>2, <2>3, Zenon
<1>4. default' \in Farms \cup {Null}
  BY Typing, Zenon DEF Map, Unmap, MapDefault
<1>5. store' \in [Backends -> Backend \cup {Null}] /\ Named(store')
  BY <1>2, Typing, Zenon
<1>6. UNCHANGED <<farms, sets, dc, ub>>
  BY <1>2, Zenon
<1>. QED  BY <1>1, <1>3, <1>4, <1>5, <1>6, StoresInv, Zenon

\* FARM DELETE: the sessions keep the set.
LEMMA FarmDeleteInv ==
    ASSUME RoutingInv, FarmDelete
    PROVE  RoutingInv'
<1>1. Issue("farm_delete") /\ UNCHANGED <<store, sets, map, default, dc, ub>>
  BY Zenon DEF FarmDelete
<1>2. PICK g \in Farms : farms' = [farms EXCEPT ![g] = Null]
  BY Zenon DEF FarmDelete, RemoveFarmByName
<1>3. ~ub
  BY <1>1, Zenon DEF Issue
<1>4. farms \in [Farms -> Farm \cup {Null}]
  BY Typing, Zenon
<1>5. farms' \in [Farms -> Farm \cup {Null}]
  BY <1>2, <1>4
<1>6. \A f \in Farms : farms'[f] = Null \/ farms'[f] = farms[f]
  BY <1>2, <1>4
<1>7. Grows(sets, sets') /\ HeapOk(sets') /\ dc' = dc
  BY <1>1, Typing, Zenon
<1>8. ASSUME NEW f \in Farms
      PROVE  Preferring(f)' /\ (farms'[f] # Null => farms'[f].set \in DOMAIN sets')
  <2>1. CASE farms'[f] = Null
    BY <2>1, Zenon DEF Preferring
  <2>2. CASE farms'[f] = farms[f]
    BY <1>3, <1>7, <2>2, StillPreferring, Zenon
  <2>. QED  BY <1>6, <2>1, <2>2, Zenon
<1>9. /\ store' \in [Backends -> Backend \cup {Null}] /\ Named(store')
      /\ map' \in [Vhosts -> Resource \cup {Null}] /\ default' \in Farms \cup {Null}
      /\ dc' \in Datacenters /\ ub' \in BOOLEAN
  BY <1>1, Typing, Zenon
<1>. QED  BY <1>1, <1>5, <1>7, <1>8, <1>9, CommandInv, Zenon

-----------------------------------------------------------------------------
(* The commands that partition farms.                                      *)

\* A command that repartitions the farms in F for the datacenter here, where farms out
\* of F are as they were and prefer it already.
LEMMA RepartitionInv ==
    ASSUME RoutingInv, NEW c, Issue(c), NEW F \in SUBSET Farms,
           NEW fs \in [Farms -> Farm \cup {Null}], \A f \in F : fs[f] \in Farm,
           \A f \in Farms \ F : fs[f] = farms[f],
           Repartitioned(fs, F, store, dc'), dc' \in Datacenters,
           dc' = dc \/ \A f \in Farms \ F : farms[f] = Null,
           UNCHANGED <<store, map, default>>
    PROVE  RoutingInv'
<1>1. /\ store' \in [Backends -> Backend \cup {Null}] /\ Named(store')
      /\ map' \in [Vhosts -> Resource \cup {Null}] /\ default' \in Farms \cup {Null}
      /\ store \in [Backends -> Backend \cup {Null}] /\ Named(store) /\ HeapOk(sets)
  BY Typing, Zenon
<1>2. ~ub
  BY Zenon DEF Issue
<1>. DEFINE here == dc'
<1>3. \/ ub' = TRUE /\ farms' = farms /\ sets' = sets
      \/ Rearranged(fs, F, store, here)
  <2>1. Repartitioned(fs, F, store, here)
    BY Zenon
  <2>. HIDE DEF here
  <2>. QED  BY <1>1, <2>1, RepartitionedEffect, Zenon
<1>4. CASE ub' = TRUE /\ farms' = farms /\ sets' = sets
  <2>1. /\ farms' \in [Farms -> Farm \cup {Null}]
        /\ \A f \in Farms : farms'[f] # Null => farms'[f].set \in DOMAIN sets'
        /\ HeapOk(sets') /\ Grows(sets, sets') /\ ub' \in BOOLEAN
    BY <1>4, Typing, Zenon
  <2>2. \A f \in Farms : ~ub' => Preferring(f)'
    BY <1>4, Zenon
  <2>. QED  BY <1>1, <2>1, <2>2, CommandInv, Zenon
<1>5. CASE Rearranged(fs, F, store, here)
  <2>1. /\ farms' \in [Farms -> Farm \cup {Null}]
        /\ HeapOk(sets') /\ Grows(sets, sets') /\ ub' = ub
    BY <1>5, Zenon DEF Rearranged
  <2>2. ub' \in BOOLEAN
    BY <2>1, Typing, Zenon
  <2>3. ASSUME NEW f \in Farms
        PROVE  Preferring(f)' /\ (farms'[f] # Null => farms'[f].set \in DOMAIN sets')
    <3>1. CASE f \in F
      <4>1. /\ farms'[f].set \in DOMAIN sets' /\ farms'[f].policies = fs[f].policies
            /\ fs[f].policies > 0 => PrefersLocal(sets'[farms'[f].set].parts, dc')
        BY <1>5, <3>1, Zenon DEF Rearranged
      <4>. QED  BY <4>1, Zenon DEF Preferring
    <3>2. CASE f \notin F
      <4>1. farms'[f] = farms[f]
        BY <1>5, <3>2, Zenon DEF Rearranged
      <4>2. CASE dc' = dc
        BY <1>2, <2>1, <4>1, <4>2, StillPreferring, Zenon
      <4>3. CASE farms[f] = Null
        BY <4>1, <4>3, Zenon DEF Preferring
      <4>. QED  BY <3>2, <4>2, <4>3, Zenon
    <3>. QED  BY <3>1, <3>2, Zenon
  <2>. QED  BY <1>1, <2>1, <2>2, <2>3, CommandInv, Zenon
<1>. QED  BY <1>3, <1>4, <1>5, Zenon

\* The farms that FARM ADD and FARM PARTITION repartition one of.
LEMMA FarmChanged ==
    ASSUME RoutingInv, NEW f \in Farms, NEW farm \in Farm
    PROVE  LET fs == [farms EXCEPT ![f] = farm]
           IN  /\ fs \in [Farms -> Farm \cup {Null}] /\ \A g \in {f} : fs[g] \in Farm
               /\ \A g \in Farms \ {f} : fs[g] = farms[g]
               /\ fs[f] = farm
<1>1. farms \in [Farms -> Farm \cup {Null}]
  BY Typing, Zenon
<1>. QED  BY <1>1

\* FARM ADD.
LEMMA FarmAddInv ==
    ASSUME RoutingInv, FarmAdd
    PROVE  RoutingInv'
<1>1. Issue("farm_add") /\ UNCHANGED <<store, map, default, dc>>
  BY Zenon DEF FarmAdd
<1>2. PICK f \in Farms, M \in SUBSET Backends \ {{}} :
          Repartitioned(AddFarm(f, [members |-> M, policies |-> 0, set |-> 0]),
                        {f}, store, dc)
  BY Zenon DEF FarmAdd
<1>. DEFINE farm == [members |-> M, policies |-> 0, set |-> 0]
            fs == [farms EXCEPT ![f] = farm]
<1>3. farm \in Farm
  BY DEF Farm
<1>. HIDE DEF farm
<1>4. /\ fs \in [Farms -> Farm \cup {Null}] /\ \A g \in {f} : fs[g] \in Farm
      /\ \A g \in Farms \ {f} : fs[g] = farms[g]
  BY <1>3, FarmChanged, Zenon
<1>5. dc' = dc /\ dc' \in Datacenters
  BY <1>1, Typing, Zenon
<1>6. Repartitioned(fs, {f}, store, dc')
  BY <1>2, <1>5, Zenon DEF AddFarm, farm
<1>. HIDE DEF fs
<1>7. {f} \in SUBSET Farms /\ UNCHANGED <<store, map, default>>
  BY <1>1, Zenon
<1>. QED  BY <1>1, <1>4, <1>5, <1>6, <1>7, RepartitionInv, Zenon

\* FARM PARTITION.
LEMMA FarmPartitionInv ==
    ASSUME RoutingInv, FarmPartition
    PROVE  RoutingInv'
<1>1. Issue("farm_partition") /\ UNCHANGED <<store, map, default, dc>>
  BY Zenon DEF FarmPartition
<1>2. PICK f \in Farms :
          /\ farms[f] # Null
          /\ Repartitioned([farms EXCEPT ![f].policies = @ + 1], {f}, store, dc)
  BY Zenon DEF FarmPartition
<1>. DEFINE old == farms[f]
            farm == [old EXCEPT !.policies = @ + 1]
            fs == [farms EXCEPT ![f] = farm]
<1>3. old \in Farm
  BY <1>2, Typing, Zenon
<1>4. farm \in Farm
  <2>. HIDE DEF old
  <2>. QED  BY <1>3 DEF Farm
<1>5. fs = [farms EXCEPT ![f].policies = @ + 1]
  BY Zenon
<1>. HIDE DEF farm, old
<1>6. /\ fs \in [Farms -> Farm \cup {Null}] /\ \A g \in {f} : fs[g] \in Farm
      /\ \A g \in Farms \ {f} : fs[g] = farms[g]
  BY <1>4, FarmChanged, Zenon
<1>. HIDE DEF fs
<1>7. dc' = dc /\ dc' \in Datacenters
  BY <1>1, Typing, Zenon
<1>8. Repartitioned(fs, {f}, store, dc')
  BY <1>2, <1>5, <1>7, Zenon
<1>9. {f} \in SUBSET Farms /\ UNCHANGED <<store, map, default>>
  BY <1>1, Zenon
<1>. QED  BY <1>1, <1>6, <1>7, <1>8, <1>9, RepartitionInv, Zenon

\* DATACENTER SET repartitions every farm.
LEMMA DatacenterSetInv ==
    ASSUME RoutingInv, DatacenterSet
    PROVE  RoutingInv'
<1>. DEFINE F == {f \in Farms : farms[f] # Null}
<1>1. /\ Issue("datacenter_set") /\ UNCHANGED <<store, map, default>>
      /\ dc' \in Datacenters /\ Repartitioned(farms, F, store, dc')
  BY Zenon DEF DatacenterSet, RepartitionAll
<1>2. farms \in [Farms -> Farm \cup {Null}]
  BY Typing, Zenon
<1>3. /\ F \in SUBSET Farms /\ \A f \in F : farms[f] \in Farm
      /\ \A f \in Farms \ F : farms[f] = farms[f]
      /\ \A f \in Farms \ F : farms[f] = Null
  BY <1>2, Zenon
<1>. HIDE DEF F
<1>. QED  BY <1>1, <1>2, <1>3, RepartitionInv, Zenon

\* The proxy as it was configured has the invariant.
LEMMA InitInv ==
    ASSUME Init
    PROVE  /\ RoutingInv
           /\ \A n \in DOMAIN sets : sets[n].parts \in Seq(Seq(Backend))
           /\ \A f \in Farms : farms[f] # Null =>
                 \A b \in farms[f].members : store[b] # Null
<1>1. /\ dc \in Datacenters /\ default = Null /\ cmds = 0 /\ ub = FALSE
      /\ sess \in [Sessions -> {NewSession(v) : v \in Vhosts}]
  BY Zenon DEF Init
<1>2. PICK known \in Configured, f \in Farms, n \in 0..1 :
          LET farm == [members |-> known, policies |-> n, set |-> 1]
          IN  /\ \E d \in [known -> Datacenters] :
                    store = [b \in Backends |->
                                IF b \in known THEN NewBackend(b, d[b], 0) ELSE Null]
              /\ farms = [g \in Farms |-> IF g = f THEN farm ELSE Null]
              /\ sets = <<NewSet(Repartition(farm, store, dc))>>
              /\ map = [v \in Vhosts |-> [farm |-> TRUE, name |-> f]]
  BY Zenon DEF Init
<1>. DEFINE farm == [members |-> known, policies |-> n, set |-> 1]
            r == Repartition(farm, store, dc)
<1>3. /\ farms = [g \in Farms |-> IF g = f THEN farm ELSE Null]
      /\ sets = <<NewSet(r)>>
      /\ map = [v \in Vhosts |-> [farm |-> TRUE, name |-> f]]
  BY <1>2, Zenon
<1>4. PICK d \in [known -> Datacenters] :
          store = [b \in Backends |->
                      IF b \in known THEN NewBackend(b, d[b], 0) ELSE Null]
  BY <1>2, Zenon
<1>5. known \in SUBSET Backends /\ n \in Nat
  BY RoutingAssumption
<1>6. farm \in Farm /\ farm.members = known /\ farm.set = 1 /\ farm.policies = n
  BY <1>5 DEF Farm
<1>7. ASSUME NEW b \in known
      PROVE  store[b] \in Backend /\ store[b].name = b
  <2>. DEFINE e == d[b]
  <2>1. b \in Backends /\ e \in Datacenters /\ store[b] = NewBackend(b, e, 0)
    BY <1>4, <1>5, Zenon
  <2>. HIDE DEF e
  <2>2. NewBackend(b, e, 0) \in Backend /\ NewBackend(b, e, 0).name = b
    BY <2>1 DEF NewBackend, Backend
  <2>. QED  BY <2>1, <2>2, Zenon
<1>8. \A b \in Backends \ known : store[b] = Null
  BY <1>4, Zenon
<1>9. store \in [Backends -> Backend \cup {Null}] /\ Named(store)
  <2>. DEFINE G(b) == IF b \in known THEN NewBackend(b, d[b], 0) ELSE Null
  <2>1. store = [b \in Backends |-> G(b)]
    BY <1>4, Zenon
  <2>. HIDE DEF G
  <2>2. \A b \in Backends : store[b] \in Backend \cup {Null}
    BY <1>7, <1>8, Zenon
  <2>3. store \in [Backends -> Backend \cup {Null}]
    BY <2>1, <2>2, Zenon
  <2>. QED  BY <1>7, <1>8, <2>3, Zenon DEF Named
<1>. HIDE DEF farm
<1>10. r \in Seq(Seq(Backend)) /\ Apart(r) /\ (n > 0 => PrefersLocal(r, dc))
  <2>1. \A b \in farm.members : store[b] \in Backend
    BY <1>6, <1>7, Zenon
  <2>. QED  BY <1>6, <1>9, <2>1, RepartitionOk, Zenon
<1>11. r \in Seq(Partition)
  <2>1. \A b \in farm.members : store[b] \in Backend \cup {Null}
    BY <1>6, <1>7, Zenon
  <2>. QED  BY <1>6, <1>9, <2>1, RepartitionOk, Zenon DEF Partition
<1>. HIDE DEF r
<1>12. SetOk(NewSet(r)) /\ NewSet(r).parts = r
  BY <1>10, <1>11, NewSetOk, Zenon
<1>13. DOMAIN sets = {1} /\ sets[1] = NewSet(r) /\ sets \in Seq(BackendSet)
  BY <1>3, <1>12 DEF SetOk
<1>14. HeapOk(sets)
  BY <1>12, <1>13, Zenon DEF HeapOk
<1>15. \A k \in DOMAIN sets : sets[k].parts = r
  BY <1>12, <1>13, Zenon
<1>16. /\ farms \in [Farms -> Farm \cup {Null}]
       /\ \A g \in Farms : farms[g] # Null => farms[g] = farm
  BY <1>3, <1>6, Zenon
<1>17. \A g \in Farms : farms[g] # Null => farms[g].set \in DOMAIN sets
  BY <1>6, <1>13, <1>16, Zenon
<1>18. map \in [Vhosts -> Resource \cup {Null}]
  <2>1. [farm |-> TRUE, name |-> f] \in Resource
    BY DEF Resource
  <2>. QED  BY <1>3, <2>1, Zenon
<1>19. ASSUME NEW x \in Sessions
       PROVE  sess[x] \in SessionType(sets) /\ SessionOk(sess[x], sets)
  <2>1. PICK v \in Vhosts : sess[x] = NewSession(v)
    BY <1>1, Zenon
  <2>. DEFINE s == NewSession(v)
  <2>2. Fields(s, "new", v, Null, 0, <<>>, 0, Null)
    BY Zenon DEF NewSession, Fields
  <2>. HIDE DEF s
  <2>3. /\ "new" \in States /\ Null \in ManagerType(sets) \cup {Null} /\ 0 \in Nat
        /\ <<>> \in Seq(Backend) /\ 0 \in 0..(MaxEndpoints - 1)
        /\ Null \in Backend \cup {Null} /\ "new" \in Idle
    BY RoutingAssumption DEF States, Idle
  <2>4. Typed(sets, s, "new", v, Null, 0, <<>>, 0, Null)
    BY <2>2, <2>3, SessionBuilt, Zenon
  <2>5. s \in SessionType(sets) /\ s.st \in Idle /\ s.mgr = Null /\ s.tried = <<>>
    BY <2>3, <2>4, Zenon DEF Typed
  <2>6. SessionOk(s, sets)
    BY <2>5, IdleOk, Zenon
  <2>. QED  BY <2>1, <2>5, <2>6, Zenon DEF s
<1>20. sess \in [Sessions -> SessionType(sets)]
  BY <1>1, <1>19, Zenon
<1>21. TypeOK
  <2>1. cmds \in Nat /\ ub \in BOOLEAN /\ default \in Farms \cup {Null}
    BY <1>1
  <2>. QED  BY <1>1, <1>9, <1>13, <1>16, <1>17, <1>18, <1>20, <2>1, Zenon DEF TypeOK
<1>22. LocalFirst
  <2>1. ASSUME NEW g \in Farms
        PROVE  Preferring(g)
    <3>1. farms[g] # Null => farms[g].policies = n /\ sets[farms[g].set].parts = r
      BY <1>6, <1>15, <1>16, <1>17, Zenon
    <3>. QED  BY <1>10, <3>1, Zenon DEF Preferring
  <2>. QED  BY <2>1, LocalFirstIs, Zenon
<1>23. RoutingInv
  BY <1>9, <1>14, <1>19, <1>21, <1>22, Zenon DEF RoutingInv
<1>24. \A b \in known : store[b] # Null
  BY <1>7, RoutingAssumption
<1>. QED  BY <1>6, <1>10, <1>15, <1>16, <1>23, <1>24, Zenon

\* Every session's handler is a session's step.
LEMMA ConnectStep ==
    ASSUME RoutingInv, NEW x \in Sessions,
           \/ Limited(x) \/ Acquire(x) \/ FirstAttempt(x) \/ Resolved(x)
           \/ Connected(x) \/ ConnectFailed(x)
    PROVE  SessionStep(x, sets) /\ ~ub /\ UNCHANGED <<config, cmds>>
<1>1. SessionStep(x, sets)
  BY LimitedOk, AcquireOk, FirstAttemptOk, ResolvedOk, ConnectedOk, ConnectFailedOk,
     Zenon
<1>2. ~ub /\ UNCHANGED <<config, cmds>>
  BY Zenon DEF Limited, Acquire, FirstAttempt, Resolved, Connected, ConnectFailed
<1>. QED  BY <1>1, <1>2, Zenon

\* Every step keeps the invariant.
LEMMA NextInv ==
    ASSUME RoutingInv, [Next]_vars
    PROVE  RoutingInv'
<1>1. CASE Configure
  BY <1>1, BackendAddInv, BackendDeleteInv, FarmAddInv, FarmPartitionInv, FarmDeleteInv,
     DatacenterSetInv, MapInv, Zenon DEF Configure
<1>2. CASE Connect
  <2>1. PICK x \in Sessions :
            \/ Limited(x) \/ Acquire(x) \/ FirstAttempt(x) \/ Resolved(x)
            \/ Connected(x) \/ ConnectFailed(x)
    BY <1>2, Zenon DEF Connect
  <2>2. SessionStep(x, sets) /\ ~ub /\ UNCHANGED <<config, cmds>>
    BY <2>1, ConnectStep, Zenon
  <2>. QED  BY <2>2, SessionStepInv, Zenon
<1>3. CASE UNCHANGED vars
  <2>1. /\ store' = store /\ farms' = farms /\ sets' = sets /\ map' = map
        /\ default' = default /\ dc' = dc /\ sess' = sess /\ cmds' = cmds /\ ub' = ub
    BY <1>3, Zenon DEF vars
  <2>2. TypeOK'
    BY <2>1, Zenon DEF RoutingInv, TypeOK
  <2>3. LocalFirst'
    <3>1. \A f \in Farms : ~ub => Preferring(f)
      BY LocalFirstIs, Zenon DEF RoutingInv
    <3>2. \A f \in Farms : Preferring(f)' <=> Preferring(f)
      BY <2>1, Zenon DEF Preferring
    <3>. QED  BY <2>1, <3>1, <3>2, LocalFirstIs, Zenon
  <2>. QED  BY <2>1, <2>2, <2>3, Zenon DEF RoutingInv
<1>. QED  BY <1>1, <1>2, <1>3, Zenon DEF Next

\* The invariant holds of every configuration and of every run of its commands: the
\* stores and the sessions keep their types, and every session follows its retry counts.
THEOREM RoutingInvariant == Spec => [](TypeOK /\ RoutingInv)
<1>1. Init => RoutingInv
  BY InitInv, Zenon
<1>2. RoutingInv /\ [Next]_vars => RoutingInv'
  BY NextInv, Zenon
<1>3. RoutingInv => TypeOK /\ RoutingInv
  BY Zenon DEF RoutingInv
<1>. QED  BY <1>1, <1>2, <1>3, PTL DEF Spec

-----------------------------------------------------------------------------
(* What follows from it.                                                   *)

\* No session attempts a backend twice, however the markers move and whatever happens
\* to its farm.
THEOREM TriedOnce == Spec => []NeverTwice
<1>1. RoutingInv => NeverTwice
  BY Zenon DEF RoutingInv, NeverTwice, SessionOk
<1>. QED  BY <1>1, RoutingInvariant, PTL

\* A farm with a policy prefers the backends of the datacenter that the proxy is in.
THEOREM LocalAlwaysFirst == Spec => []LocalFirst
<1>1. RoutingInv => LocalFirst
  BY Zenon DEF RoutingInv
<1>. QED  BY <1>1, RoutingInvariant, PTL

\* The last backend that was tried.
LEMMA LastSelected ==
    ASSUME RoutingInv, NEW x \in Sessions
    PROVE  /\ sess[x].st \in {"resolving", "connecting"} =>
                 Current(x) = LastTried(x)
           /\ sess[x].st = "connected" => sess[x].using = LastTried(x)
<1>. DEFINE s == sess[x]
            q == s.tried
            n == s.retry
<1>1. SessionOk(s, sets) /\ s \in SessionType(sets)
  BY OfSession, Zenon
<1>2. q \in Seq(Backend) /\ n \in Nat
  BY <1>1, SessionFields, Zenon
<1>3. LastTried(x) = q[Len(q)]
  BY Zenon DEF LastTried
<1>4. ASSUME s.st \in {"resolving", "connecting"}
      PROVE  Current(x) = LastTried(x)
  <2>1. s.st \in Managing
    BY <1>4 DEF Managing
  <2>2. Followed(q, s.mgr, sets) /\ Len(q) = n + 1
    BY <1>1, <1>4, <2>1, Zenon DEF SessionOk
  <2>. HIDE DEF q, n
  <2>3. Len(q) \in DOMAIN q /\ Len(q) - 1 = n
    BY <1>2, <2>2
  <2>4. q[Len(q)] = GetConnection(sets, s.mgr, n)
    BY <2>2, <2>3, Zenon DEF Followed
  <2>. QED  BY <1>3, <2>4, Zenon DEF Current, n
<1>5. s.st = "connected" => s.using = LastTried(x)
  BY <1>1, <1>3, Zenon DEF SessionOk
<1>. QED  BY <1>4, <1>5, Zenon

\* The handlers that ask for the current backend again get the one that was attempted,
\* and a connected session uses the settings of the broker it is connected to.
THEOREM BackendAgrees == Spec => []SameBackend
<1>1. RoutingInv => SameBackend
  BY LastSelected, Zenon DEF SameBackend
<1>. QED  BY <1>1, RoutingInvariant, PTL

\* A backend that a lower retry count selects was tried.
LEMMA LowerTried ==
    ASSUME RoutingInv, NEW x \in Sessions, sess[x].st \in Managing, NEW s \in Nat,
           s < Len(sess[x].tried)
    PROVE  Select(PartitionsOf(x), sess[x].mgr.snapshot, s) \in Tried(x)
<1>. DEFINE q == sess[x].tried
            m == sess[x].mgr
<1>1. SessionOk(sess[x], sets) /\ sess[x] \in SessionType(sets) /\ HeapOk(sets)
  BY OfSession, Zenon
<1>2. q \in Seq(Backend)
  BY <1>1, SessionFields, Zenon
<1>3. ManagerOk(m, sets) /\ Followed(q, m, sets)
  BY <1>1, Zenon DEF SessionOk
<1>4. Selecting(sets, m, s)
  BY <1>1, <1>3, GetSelects, Zenon
<1>. HIDE DEF q
<1>5. s + 1 \in DOMAIN q /\ (s + 1) - 1 = s
  <2>1. s < Len(q)
    BY Zenon DEF q
  <2>. QED  BY <1>2, <2>1
<1>6. q[s + 1] = GetConnection(sets, m, s)
  BY <1>3, <1>5, Zenon DEF Followed
<1>7. q[s + 1] \in Range(q)
  BY <1>5, Zenon DEF Range
<1>. QED  BY <1>4, <1>6, <1>7, Zenon DEF Selecting, PartitionsOf, Tried, q

\* What was tried is what a retry count below that of the session selects.
LEMMA TriedSelected ==
    ASSUME RoutingInv, NEW x \in Sessions, sess[x].st \in Managing, NEW c \in Tried(x)
    PROVE  \E r \in Nat : /\ r < Len(sess[x].tried) /\ c # Null
                          /\ c = Select(PartitionsOf(x), sess[x].mgr.snapshot, r)
<1>. DEFINE q == sess[x].tried
            m == sess[x].mgr
<1>1. SessionOk(sess[x], sets) /\ sess[x] \in SessionType(sets) /\ HeapOk(sets)
  BY OfSession, Zenon
<1>2. q \in Seq(Backend)
  BY <1>1, SessionFields, Zenon
<1>3. ManagerOk(m, sets) /\ Followed(q, m, sets)
  BY <1>1, Zenon DEF SessionOk
<1>4. PICK k \in DOMAIN q : c = q[k]
  BY Zenon DEF Tried, Range
<1>5. c = GetConnection(sets, m, k - 1)
  BY <1>3, <1>4, Zenon DEF Followed
<1>. HIDE DEF q
<1>6. k - 1 \in Nat /\ k - 1 < Len(q) /\ q[k] \in Backend
  BY <1>2
<1>7. c # Null
  BY <1>4, <1>6, RoutingAssumption
<1>8. Selecting(sets, m, k - 1)
  BY <1>1, <1>3, <1>6, GetSelects, Zenon
<1>9. c = Select(PartitionsOf(x), m.snapshot, k - 1)
  BY <1>5, <1>8, Zenon DEF Selecting, PartitionsOf
<1>. QED  BY <1>6, <1>7, <1>9, Zenon DEF q

\* What a session's partitions are.
LEMMA PartitionsOk ==
    ASSUME RoutingInv, NEW x \in Sessions, sess[x].st \in Managing
    PROVE  /\ PartitionsOf(x) \in Seq(Partition) /\ Apart(PartitionsOf(x))
           /\ Marking(PartitionsOf(x), sess[x].mgr.snapshot)
<1>1. SessionOk(sess[x], sets) /\ HeapOk(sets)
  BY OfSession, Zenon
<1>2. ManagerOk(sess[x].mgr, sets)
  BY <1>1, Zenon DEF SessionOk
<1>. QED  BY <1>1, <1>2, ManagedSet, Zenon DEF PartitionsOf

\* All backends of a partition are attempted before any of a later one.
THEOREM InOrder == Spec => []PartitionsInOrder
<1>1. ASSUME RoutingInv, NEW x \in Sessions, Manages(x),
             NEW i \in DOMAIN PartitionsOf(x), NEW j \in DOMAIN PartitionsOf(x),
             i < j, NEW c \in Range(PartitionsOf(x)[j]) \cap Tried(x),
             NEW b \in Range(PartitionsOf(x)[i])
      PROVE  b \in Tried(x)
  <2>1. sess[x].st \in Managing
    BY <1>1, OfSession, Zenon DEF Manages, SessionOk
  <2>. DEFINE parts == PartitionsOf(x)
              k == sess[x].mgr.snapshot
              n == Len(sess[x].tried)
              B == Backend \cup {Null}
  <2>2. parts \in Seq(Seq(B)) /\ Apart(parts) /\ Marking(parts, k)
    BY <1>1, <2>1, PartitionsOk, Zenon DEF Partition
  <2>3. PICK r \in Nat : r < n /\ c # Null /\ c = Select(parts, k, r)
    BY <1>1, <2>1, TriedSelected, Zenon
  <2>4. /\ i \in DOMAIN parts /\ j \in DOMAIN parts /\ b \in Range(parts[i])
        /\ Select(parts, k, r) # Null /\ Select(parts, k, r) \in Range(parts[j])
    BY <2>3, Zenon
  <2>5. n \in Nat
    <3>1. sess[x].tried \in Seq(Backend)
      BY <1>1, OfSession, SessionFields, Zenon
    <3>. QED  BY <3>1
  <2>. HIDE DEF parts, k, B, n
  <2>6. PICK s \in Nat : s < r /\ Select(parts, k, s) = b
    <3>1. Before(parts, k, r, b)
      BY <1>1, <2>2, <2>4, SelectInOrder, Zenon
    <3>. QED  BY <3>1, Zenon DEF Before
  <2>7. s < n
    BY <2>3, <2>5, <2>6
  <2>. QED  BY <1>1, <2>1, <2>6, <2>7, LowerTried, Zenon DEF parts, k, n
<1>2. RoutingInv => PartitionsInOrder
  <2>. HIDE DEF RoutingInv
  <2>. QED  BY <1>1, Zenon DEF PartitionsInOrder
<1>. QED  BY <1>2, RoutingInvariant, PTL

-----------------------------------------------------------------------------
(* Giving up.                                                              *)

\* No set holds a pointer to no backend and, where backends are not deleted, every
\* member of a farm is in the store.
Complete ==
    /\ \A n \in DOMAIN sets : sets[n].parts \in Seq(Seq(Backend))
    /\ "backend_delete" \notin Commands =>
          \A f \in Farms : farms[f] # Null => \A b \in farms[f].members : store[b] # Null

\* Sets that grow by complete ones stay complete.
LEMMA FreshSets ==
    ASSUME Complete, Grows(sets, sets'), Fresh(sets, sets')
    PROVE  \A n \in DOMAIN sets' : sets'[n].parts \in Seq(Seq(Backend))
BY Zenon DEF Complete, Grows, Fresh

\* A repartitioning of farms whose members are known.
LEMMA RepartitionComplete ==
    ASSUME RoutingInv, Complete, NEW here, NEW F \in SUBSET Farms,
           NEW fs \in [Farms -> Farm \cup {Null}], \A f \in F : fs[f] \in Farm,
           \A f \in Farms \ F : fs[f] = farms[f],
           Repartitioned(fs, F, store, here), store' = store,
           \A f \in F : ~Dereferences(fs[f], store) =>
               \A b \in fs[f].members : store[b] # Null
    PROVE  Complete'
<1>1. store \in [Backends -> Backend \cup {Null}] /\ Named(store) /\ HeapOk(sets)
  BY Typing, Zenon
<1>2. \/ farms' = farms /\ sets' = sets
      \/ Rearranged(fs, F, store, here)
  BY <1>1, RepartitionedEffect, Zenon
<1>3. CASE farms' = farms /\ sets' = sets
  BY <1>3, Zenon DEF Complete
<1>4. CASE Rearranged(fs, F, store, here)
  <2>1. \A f \in F : \A b \in fs[f].members : store[b] # Null
    BY <1>4, Zenon DEF Rearranged
  <2>2. \A f \in F : \A b \in fs[f].members : store[b] \in Backend
    <3>1. \A f \in F : \A b \in fs[f].members : b \in Backends
      BY Zenon DEF Farm
    <3>. QED  BY <1>1, <2>1, <3>1, Zenon
  <2>3. Grows(sets, sets') /\ Fresh(sets, sets')
    BY <1>4, <2>2, Zenon DEF Rearranged, Fresh
  <2>4. ASSUME "backend_delete" \notin Commands, NEW f \in Farms, farms'[f] # Null,
               NEW b \in farms'[f].members
        PROVE  store'[b] # Null
    <3>1. CASE f \in F
      BY <1>4, <2>1, <3>1, Zenon DEF Rearranged
    <3>2. CASE f \notin F
      <4>1. farms'[f] = farms[f]
        BY <1>4, <3>2, Zenon DEF Rearranged
      <4>. QED  BY <2>4, <4>1, Zenon DEF Complete
    <3>. QED  BY <3>1, <3>2, Zenon
  <2>. QED  BY <2>3, <2>4, FreshSets, Zenon DEF Complete
<1>. QED  BY <1>2, <1>3, <1>4, Zenon

\* FARM ADD looks its members up; FARM PARTITION dereferences them; DATACENTER SET does
\* neither, and finds them all where backends are not deleted.
LEMMA RepartitionsComplete ==
    ASSUME RoutingInv, Complete, FarmAdd \/ FarmPartition \/ DatacenterSet,
           ~({"backend_delete", "datacenter_set"} \subseteq Commands)
    PROVE  Complete'
<1>0. farms \in [Farms -> Farm \cup {Null}]
  BY Typing, Zenon
<1>1. CASE FarmAdd
  <2>1. PICK f \in Farms, M \in SUBSET Backends \ {{}} :
            /\ \A b \in M : Lookup(store, b) # Null
            /\ Repartitioned(AddFarm(f, [members |-> M, policies |-> 0, set |-> 0]),
                             {f}, store, dc)
    BY <1>1, Zenon DEF FarmAdd
  <2>. DEFINE farm == [members |-> M, policies |-> 0, set |-> 0]
              fs == [farms EXCEPT ![f] = farm]
  <2>2. farm \in Farm /\ farm.members = M
    BY DEF Farm
  <2>3. Repartitioned(fs, {f}, store, dc)
    BY <2>1, Zenon DEF AddFarm
  <2>. HIDE DEF farm
  <2>4. /\ fs \in [Farms -> Farm \cup {Null}] /\ \A g \in {f} : fs[g] \in Farm
        /\ \A g \in Farms \ {f} : fs[g] = farms[g]
        /\ fs[f] = farm
    BY <2>2, FarmChanged, Zenon
  <2>. HIDE DEF fs
  <2>5. \A g \in {f} : \A b \in fs[g].members : store[b] # Null
    BY <2>1, <2>2, <2>4, Zenon DEF Lookup
  <2>6. store' = store /\ {f} \in SUBSET Farms
    BY <1>1, Zenon DEF FarmAdd
  <2>. QED  BY <2>3, <2>4, <2>5, <2>6, RepartitionComplete, ZenonT(30)
<1>2. CASE FarmPartition
  <2>1. PICK f \in Farms :
            /\ farms[f] # Null
            /\ Repartitioned([farms EXCEPT ![f].policies = @ + 1], {f}, store, dc)
    BY <1>2, Zenon DEF FarmPartition
  <2>. DEFINE old == farms[f]
              farm == [old EXCEPT !.policies = @ + 1]
              fs == [farms EXCEPT ![f] = farm]
  <2>2. old \in Farm
    BY <1>0, <2>1, Zenon
  <2>3. farm \in Farm /\ farm.policies > 0
    <3>. HIDE DEF old
    <3>. QED  BY <2>2 DEF Farm
  <2>4. Repartitioned(fs, {f}, store, dc)
    BY <2>1, Zenon
  <2>. HIDE DEF farm, old
  <2>5. /\ fs \in [Farms -> Farm \cup {Null}] /\ \A g \in {f} : fs[g] \in Farm
        /\ \A g \in Farms \ {f} : fs[g] = farms[g]
        /\ fs[f] = farm
    BY <2>3, FarmChanged, Zenon
  <2>. HIDE DEF fs
  <2>6. \A g \in {f} : ~Dereferences(fs[g], store) =>
            \A b \in fs[g].members : store[b] # Null
    BY <2>3, <2>5, Zenon DEF Dereferences
  <2>7. store' = store /\ {f} \in SUBSET Farms
    BY <1>2, Zenon DEF FarmPartition
  <2>. QED  BY <2>4, <2>5, <2>6, <2>7, RepartitionComplete, Zenon
<1>3. CASE DatacenterSet
  <2>. DEFINE F == {f \in Farms : farms[f] # Null}
  <2>1. /\ Issue("datacenter_set") /\ store' = store
        /\ Repartitioned(farms, F, store, dc')
    BY <1>3, Zenon DEF DatacenterSet, RepartitionAll
  <2>2. "backend_delete" \notin Commands
    BY <2>1 DEF Issue
  <2>3. /\ F \in SUBSET Farms /\ \A f \in F : farms[f] \in Farm
        /\ \A f \in Farms \ F : farms[f] = farms[f]
        /\ \A f \in F : \A b \in farms[f].members : store[b] # Null
    BY <1>0, <2>2, Zenon DEF Complete
  <2>. HIDE DEF F
  <2>. QED  BY <1>0, <2>1, <2>3, RepartitionComplete, Zenon
<1>. QED  BY <1>1, <1>2, <1>3, Zenon

\* Every step keeps the sets complete.
LEMMA NextComplete ==
    ASSUME RoutingInv, Complete, [Next]_vars,
           ~({"backend_delete", "datacenter_set"} \subseteq Commands)
    PROVE  Complete'
<1>1. CASE BackendAdd
  <2>1. PICK b \in Backends, d \in Datacenters : InsertBackend(NewBackend(b, d, cmds'))
    BY <1>1, Zenon DEF BackendAdd
  <2>. DEFINE e == NewBackend(b, d, cmds')
  <2>2. cmds' \in Nat
    BY <1>1, Typing DEF BackendAdd, Issue
  <2>3. e \in Backend /\ e.name = b
    BY <2>2 DEF NewBackend, Backend
  <2>4. store' = [store EXCEPT ![e.name] = e]
    BY <2>1, Zenon DEF InsertBackend
  <2>. HIDE DEF e
  <2>5. e # Null
    BY <2>3, RoutingAssumption
  <2>6. store \in [Backends -> Backend \cup {Null}] /\ farms \in [Farms -> Farm \cup {Null}]
    BY Typing, Zenon
  <2>7. \A a \in Backends : store[a] # Null => store'[a] # Null
    BY <2>3, <2>4, <2>5, <2>6, Zenon
  <2>8. farms' = farms /\ sets' = sets
    BY <1>1, Zenon DEF BackendAdd
  <2>9. \A f \in Farms : farms[f] # Null => \A a \in farms[f].members : a \in Backends
    BY <2>6, Zenon DEF Farm
  <2>. QED  BY <2>7, <2>8, <2>9, Zenon DEF Complete
<1>2. CASE BackendDelete
  <2>1. "backend_delete" \in Commands /\ sets' = sets
    BY <1>2, Zenon DEF BackendDelete, Issue
  <2>. QED  BY <2>1, Zenon DEF Complete
<1>3. CASE FarmAdd \/ FarmPartition \/ DatacenterSet
  BY <1>3, RepartitionsComplete, Zenon
<1>4. CASE FarmDelete
  <2>1. PICK g \in Farms : farms' = [farms EXCEPT ![g] = Null]
    BY <1>4, Zenon DEF FarmDelete, RemoveFarmByName
  <2>2. store' = store /\ sets' = sets
    BY <1>4, Zenon DEF FarmDelete
  <2>3. farms \in [Farms -> Farm \cup {Null}]
    BY Typing, Zenon
  <2>4. \A f \in Farms : farms'[f] # Null => farms'[f] = farms[f]
    BY <2>1, <2>3
  <2>. QED  BY <2>2, <2>4, Zenon DEF Complete
<1>5. CASE Map \/ Unmap \/ MapDefault
  <2>1. store' = store /\ sets' = sets /\ farms' = farms
    BY <1>5, Zenon DEF Map, Unmap, MapDefault
  <2>. QED  BY <2>1, Zenon DEF Complete
<1>6. CASE Connect
  <2>1. PICK x \in Sessions :
            \/ Limited(x) \/ Acquire(x) \/ FirstAttempt(x) \/ Resolved(x)
            \/ Connected(x) \/ ConnectFailed(x)
    BY <1>6, Zenon DEF Connect
  <2>2. SessionStep(x, sets) /\ UNCHANGED <<config, cmds>>
    BY <2>1, ConnectStep, Zenon
  <2>3. Grows(sets, sets') /\ Fresh(sets, sets') /\ store' = store /\ farms' = farms
    BY <2>2, Zenon DEF SessionStep, config
  <2>. QED  BY <2>3, FreshSets, Zenon DEF Complete
<1>7. CASE UNCHANGED vars
  <2>1. store' = store /\ sets' = sets /\ farms' = farms
    BY <1>7, Zenon DEF vars
  <2>. QED  BY <2>1, Zenon DEF Complete
<1>. QED  BY <1>1, <1>2, <1>3, <1>4, <1>5, <1>6, <1>7, Zenon DEF Next, Configure

\* A session that gave up has tried every backend of a complete set.
LEMMA FailedTriedAll ==
    ASSUME RoutingInv, Complete, NEW x \in Sessions, sess[x].st = "failed",
           NEW i \in DOMAIN PartitionsOf(x), NEW b \in Range(PartitionsOf(x)[i])
    PROVE  b \in Tried(x)
<1>. DEFINE parts == PartitionsOf(x)
            m == sess[x].mgr
            k == m.snapshot
            r == sess[x].retry
<1>1. sess[x].st \in Managing
  BY StatesDiffer, Zenon
<1>2. SessionOk(sess[x], sets) /\ HeapOk(sets) /\ sess[x] \in SessionType(sets)
  BY OfSession, Zenon
<1>3. ManagerOk(m, sets) /\ Len(sess[x].tried) = r /\ GetConnection(sets, m, r) = Null
  BY <1>1, <1>2, Zenon DEF SessionOk
<1>4. m.set \in DOMAIN sets
  BY <1>3, Zenon DEF ManagerOk, ManagerType
<1>5. parts \in Seq(Seq(Backend)) /\ Marking(parts, k)
  BY <1>1, <1>4, PartitionsOk, Zenon DEF Complete, PartitionsOf
<1>6. r \in Nat
  BY <1>2, SessionFields, Zenon
<1>7. Select(parts, k, r) = Null
  <2>1. Selecting(sets, m, r)
    BY <1>2, <1>3, <1>6, GetSelects, Zenon
  <2>. QED  BY <1>3, <2>1, Zenon DEF Selecting, PartitionsOf
<1>8. Null \notin Backend
  BY RoutingAssumption
<1>9. i \in DOMAIN parts /\ b \in Range(parts[i])
  BY Zenon
<1>. HIDE DEF parts, k
<1>10. Before(parts, k, r, b)
  BY <1>5, <1>6, <1>7, <1>8, <1>9, SelectAll, Zenon
<1>11. PICK s \in Nat : s < r /\ Select(parts, k, s) = b
  BY <1>10, Zenon DEF Before
<1>12. s < Len(sess[x].tried)
  BY <1>3, <1>11, Zenon
<1>. QED  BY <1>1, <1>11, <1>12, LowerTried, Zenon DEF parts, k

\* A session gives up only when every backend of its set was attempted, unless backends
\* are deleted and the datacenter is changed: DATACENTER SET puts a pointer to no backend
\* into the set of an unpartitioned farm that has lost a member, and the selector stops
\* there.
THEOREM NoneLeftOut ==
    ASSUME ~({"backend_delete", "datacenter_set"} \subseteq Commands)
    PROVE  Spec => []AllTriedBeforeGivingUp
<1>1. Init => RoutingInv /\ Complete
  BY InitInv, Zenon DEF Complete
<1>2. RoutingInv /\ Complete /\ [Next]_vars => (RoutingInv /\ Complete)'
  BY NextInv, NextComplete, Zenon
<1>3. RoutingInv /\ Complete => AllTriedBeforeGivingUp
  BY FailedTriedAll, Zenon DEF AllTriedBeforeGivingUp
<1>. QED  BY <1>1, <1>2, <1>3, PTL DEF Spec

=============================================================================
