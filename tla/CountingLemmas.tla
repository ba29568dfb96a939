---------------------------- MODULE CountingLemmas ----------------------------
(***************************************************************************)
(* Facts about numbers, orders and lists that several proofs rest on:      *)
(* induction for sets of numbers, the places of the members of a finite    *)
(* set when they are sorted by weight, and sequences joined end to end.    *)
(***************************************************************************)
EXTENDS Integers, Sequences, SequencesExt, FiniteSetTheorems, SequenceTheorems,
        WellFoundedInduction, TLAPS

-----------------------------------------------------------------------------
(* Induction, for sets of numbers.                                         *)

\* Every set of natural numbers that is not empty has a least one.
LEMMA LeastNumber ==
    ASSUME NEW S \in SUBSET Nat, S # {}
    PROVE  \E n \in S : \A m \in S : n <= m
<1> DEFINE R == OpToRel(<, Nat)
<1>1. IsWellFoundedOn(R, Nat)
    BY NatLessThanWellFounded
<1>2. \E n \in S : \A m \in S : <<m, n>> \notin R
  <2> HIDE DEF R
  <2> QED
      BY <1>1, WFMin
<1>3. \A m, n \in Nat : <<m, n>> \notin R => n <= m
    BY DEF OpToRel
<1> QED
    BY <1>2, <1>3

\* A set with 0 and with the successor of each of its members has every number.
LEMMA EveryNumber ==
    ASSUME NEW S \in SUBSET Nat, 0 \in S, \A n \in S : n + 1 \in S
    PROVE  S = Nat
<1> SUFFICES ASSUME Nat \ S # {}
             PROVE  FALSE
    OBVIOUS
<1>1. PICK n \in Nat \ S : \A m \in Nat \ S : n <= m
    BY LeastNumber
<1>2. n - 1 \in S
    BY <1>1
<1> QED
    BY <1>1, <1>2

-----------------------------------------------------------------------------
(* Sums.                                                                   *)

\* The i-th of g is the sum of the first i of the n numbers of f.
IsSumOf(n, f, g) == g = [i \in 0 .. n |-> IF i = 0 THEN 0 ELSE g[i - 1] + f[i]]

\* Sums of n numbers extend to sums of n + 1.
LEMMA SumsExist ==
    ASSUME NEW N \in Nat, NEW f \in [1 .. N -> Nat]
    PROVE  \E g \in [0 .. N -> Nat] : IsSumOf(N, f, g)
<1> DEFINE Adds(n, g) == g[0] = 0 /\ \A i \in 1 .. n : g[i] = g[i - 1] + f[i]
           S == {n \in Nat : n <= N => \E g \in [0 .. n -> Nat] : Adds(n, g)}
<1>1. 0 \in S
  <2>1. Adds(0, [i \in 0 .. 0 |-> 0])
      OBVIOUS
  <2> QED
      BY <2>1
<1>2. ASSUME NEW n \in S
      PROVE  n + 1 \in S
  <2> SUFFICES ASSUME n + 1 <= N
               PROVE  \E g \in [0 .. n + 1 -> Nat] : Adds(n + 1, g)
    <3>1. n + 1 \in Nat
        OBVIOUS
    <3> HIDE DEF Adds
    <3> QED
        BY <3>1
  <2>1. PICK g \in [0 .. n -> Nat] : Adds(n, g)
      OBVIOUS
  <2>2. f[n + 1] \in Nat
      OBVIOUS
  <2> DEFINE h == [i \in 0 .. n + 1 |-> IF i = n + 1 THEN g[n] + f[n + 1] ELSE g[i]]
  <2>3. h \in [0 .. n + 1 -> Nat]
      BY <2>2
  <2>4. ASSUME NEW i \in 1 .. n + 1
        PROVE  h[i] = h[i - 1] + f[i]
    <3>1. CASE i = n + 1
      <4>1. i - 1 = n /\ h[n] = g[n]
          BY <3>1
      <4> QED
          BY <3>1, <4>1
    <3>2. CASE i \in 1 .. n
        BY <3>2, <2>1
    <3> QED
        BY <3>1, <3>2
  <2>5. h[0] = 0
      BY <2>1
  <2> HIDE DEF h
  <2>6. Adds(n + 1, h)
      BY <2>4, <2>5
  <2> QED
      BY <2>3, <2>6
<1>3. S = Nat
  <2> HIDE DEF S
  <2>1. S \subseteq Nat
      BY DEF S
  <2> QED
      BY <1>1, <1>2, <2>1, EveryNumber
<1>4. N \in S
    BY <1>3
<1>5. PICK g \in [0 .. N -> Nat] : Adds(N, g)
  <2> HIDE DEF Adds
  <2> QED
      BY <1>4
<1>6. g = [n \in 0 .. N |-> IF n = 0 THEN 0 ELSE g[n - 1] + f[n]]
    BY <1>5
<1> QED
    BY <1>6 DEF IsSumOf

\* What they add up to.
LEMMA SumsAddUp ==
    ASSUME NEW N \in Nat, NEW f \in [1 .. N -> Nat], NEW g, IsSumOf(N, f, g)
    PROVE  /\ \A n \in 0 .. N : g[n] \in Nat
           /\ g[0] = 0
           /\ \A n \in 1 .. N : g[n] = g[n - 1] + f[n]
<1>1. g[0] = 0 /\ \A n \in 1 .. N : g[n] = g[n - 1] + f[n]
    BY DEF IsSumOf
<1> DEFINE S == {n \in Nat : n <= N => g[n] \in Nat}
<1>2. 0 \in S
    BY <1>1
<1>3. ASSUME NEW n \in S
      PROVE  n + 1 \in S
  <2> SUFFICES ASSUME n + 1 <= N
               PROVE  g[n + 1] \in Nat
      OBVIOUS
  <2>1. g[n + 1] = g[n] + f[n + 1]
      BY <1>1
  <2> QED
      BY <2>1
<1>4. S = Nat
  <2> HIDE DEF S
  <2>1. S \subseteq Nat
      BY DEF S
  <2> QED
      BY <1>2, <1>3, <2>1, EveryNumber
<1>5. \A n \in 0 .. N : g[n] \in Nat
    BY <1>4
<1> QED
    BY <1>1, <1>5

\* A sum is at least the first of its numbers.
LEMMA SumsHaveTheFirst ==
    ASSUME NEW N \in Nat, NEW f \in [1 .. N -> Nat], NEW g, IsSumOf(N, f, g),
           NEW n \in 1 .. N
    PROVE  g[n] >= f[1]
<1> DEFINE S == {m \in Nat : m + 1 <= N => g[m + 1] >= f[1]}
<1>1. /\ \A m \in 0 .. N : g[m] \in Nat
      /\ g[0] = 0 /\ \A m \in 1 .. N : g[m] = g[m - 1] + f[m]
    BY SumsAddUp
<1>2. 0 \in S
    BY <1>1
<1>3. ASSUME NEW m \in S
      PROVE  m + 1 \in S
  <2> SUFFICES ASSUME m + 1 + 1 <= N
               PROVE  g[m + 1 + 1] >= f[1]
      OBVIOUS
  <2>1. g[m + 1 + 1] = g[m + 1] + f[m + 1 + 1] /\ g[m + 1] \in Nat
      BY <1>1
  <2>2. f[m + 1 + 1] \in Nat /\ f[1] \in Nat /\ g[m + 1] >= f[1]
      OBVIOUS
  <2> QED
      BY <2>1, <2>2
<1>4. S = Nat
  <2> HIDE DEF S
  <2>1. S \subseteq Nat
      BY DEF S
  <2> QED
      BY <1>2, <1>3, <2>1, EveryNumber
<1>5. n - 1 \in Nat /\ n - 1 + 1 = n /\ n <= N
    OBVIOUS
<1>6. n - 1 \in S
  <2> HIDE DEF S
  <2> QED
      BY <1>4, <1>5
<1> QED
    BY <1>5, <1>6

-----------------------------------------------------------------------------
(* Places.                                                                 *)

\* i is before j in descending order of weight, the smaller of equal ones first.
Before(w, i, j) == w[i] > w[j] \/ (w[i] = w[j] /\ i < j)

\* How many of S are before i.
Place(S, w, i) == Cardinality({j \in S : Before(w, j, i)})

\* It is a total order.
LEMMA BeforeIsTotal ==
    ASSUME NEW S \in SUBSET Nat, NEW w \in [S -> Int]
    PROVE  /\ \A i \in S : ~Before(w, i, i)
           /\ \A i, j \in S : i # j => Before(w, i, j) \/ Before(w, j, i)
           /\ \A i, j, k \in S : Before(w, i, j) /\ Before(w, j, k) => Before(w, i, k)
<1>1. \A i \in S : i \in Nat /\ w[i] \in Int
    OBVIOUS
<1> QED
    BY <1>1 DEF Before

\* A member comes later than those before it, and there are as many places as members.
LEMMA PlacesAreOrdered ==
    ASSUME NEW S \in SUBSET Nat, IsFiniteSet(S), NEW w \in [S -> Int]
    PROVE  /\ \A i \in S : Place(S, w, i) \in 0 .. Cardinality(S) - 1
           /\ \A i, j \in S : Before(w, i, j) => Place(S, w, i) < Place(S, w, j)
<1> DEFINE B(i) == {j \in S : Before(w, j, i)}
<1>1. ASSUME NEW i \in S
      PROVE  IsFiniteSet(B(i)) /\ Cardinality(B(i)) \in Nat
    BY FS_Subset, FS_CardinalityType
<1>2. ASSUME NEW i \in S
      PROVE  Cardinality(B(i)) < Cardinality(S)
  <2>1. B(i) \in SUBSET S /\ i \notin B(i)
      BY BeforeIsTotal
  <2>2. B(i) # S
      BY <2>1
  <2> HIDE DEF B
  <2>3. Cardinality(B(i)) <= Cardinality(S) /\ Cardinality(S) # Cardinality(B(i))
      BY <2>1, <2>2, FS_Subset
  <2> QED
      BY <1>1, <2>3, FS_CardinalityType
<1>3. ASSUME NEW i \in S, NEW j \in S, Before(w, i, j)
      PROVE  Cardinality(B(i)) < Cardinality(B(j))
  <2>1. B(i) \in SUBSET B(j)
      BY <1>3, BeforeIsTotal
  <2>2. i \in B(j) /\ i \notin B(i)
      BY <1>3, BeforeIsTotal
  <2>3. B(i) # B(j)
      BY <2>2
  <2> HIDE DEF B
  <2>4. Cardinality(B(i)) <= Cardinality(B(j)) /\ Cardinality(B(j)) # Cardinality(B(i))
      BY <1>1, <2>1, <2>3, FS_Subset
  <2> QED
      BY <1>1, <2>4
<1>4. \A i \in S : Place(S, w, i) = Cardinality(B(i))
    BY DEF Place
<1>5. Cardinality(S) \in Nat
    BY FS_CardinalityType
<1> HIDE DEF B
<1> QED
    BY <1>1, <1>2, <1>3, <1>4, <1>5

LEMMA NumbersBelow ==
    ASSUME NEW k \in Nat
    PROVE  IsFiniteSet(0 .. k - 1) /\ Cardinality(0 .. k - 1) = k
<1>1. /\ IsFiniteSet(0 .. k - 1)
      /\ Cardinality(0 .. k - 1) = IF 0 > k - 1 THEN 0 ELSE k - 1 - 0 + 1
    BY FS_Interval
<1> QED
    BY <1>1

\* Each place is taken by exactly one member.
LEMMA PlacesAreTaken ==
    ASSUME NEW S \in SUBSET Nat, IsFiniteSet(S), NEW w \in [S -> Int]
    PROVE  /\ \A i, j \in S : Place(S, w, i) = Place(S, w, j) => i = j
           /\ \A n \in 0 .. Cardinality(S) - 1 : \E i \in S : Place(S, w, i) = n
<1> DEFINE N == 0 .. Cardinality(S) - 1
           f == [i \in S |-> Place(S, w, i)]
<1>1. \A i, j \in S : Place(S, w, i) = Place(S, w, j) => i = j
  <2>1. \A i \in S : Place(S, w, i) \in Nat
      BY PlacesAreOrdered, FS_CardinalityType
  <2>2. \A i, j \in S : Before(w, i, j) => Place(S, w, i) # Place(S, w, j)
      BY <2>1, PlacesAreOrdered
  <2> QED
      BY <2>2, BeforeIsTotal
<1>2. Cardinality(S) \in Nat
    BY FS_CardinalityType
<1>3. IsFiniteSet(N) /\ Cardinality(N) = Cardinality(S)
    BY <1>2, NumbersBelow
<1>4. f \in Injection(S, N)
    BY <1>1, PlacesAreOrdered DEF Injection, IsInjective
<1>5. f \in Surjection(S, N)
    BY <1>3, <1>4, FS_Injection
<1>6. \A n \in N : \E i \in S : f[i] = n
    BY <1>5 DEF Surjection
<1> QED
    BY <1>1, <1>6

\* So a set that is not empty has a first member.
LEMMA FirstExists ==
    ASSUME NEW S \in SUBSET Nat, IsFiniteSet(S), S # {}, NEW w \in [S -> Int]
    PROVE  \E i \in S : \A j \in S \ {i} : Before(w, i, j)
<1>1. Cardinality(S) \in Nat /\ Cardinality(S) # 0
    BY FS_EmptySet, FS_CardinalityType
<1>2. PICK i \in S : Place(S, w, i) = 0
    BY <1>1, PlacesAreTaken
<1>3. ASSUME NEW j \in S \ {i}
      PROVE  Before(w, i, j)
  <2>1. Place(S, w, j) \in Nat
      BY <1>1, PlacesAreOrdered
  <2>2. ~Before(w, j, i)
      BY <1>2, <2>1, PlacesAreOrdered
  <2> QED
      BY <2>2, BeforeIsTotal
<1> QED
    BY <1>3

\* As many members as are asked for, if there are, are at one of the first k places.
LEMMA FirstPlaces ==
    ASSUME NEW S \in SUBSET Nat, IsFiniteSet(S), NEW w \in [S -> Int], NEW k \in Nat
    PROVE  LET T == {i \in S : Place(S, w, i) < k} IN
           /\ IsFiniteSet(T)
           /\ k <= Cardinality(S) => Cardinality(T) = k
           /\ k > Cardinality(S) => T = S
<1> DEFINE T == {i \in S : Place(S, w, i) < k}
<1>1. IsFiniteSet(T)
    BY FS_Subset
<1>2. Cardinality(S) \in Nat
    BY FS_CardinalityType
<1>3. ASSUME k > Cardinality(S)
      PROVE  T = S
  <2>1. \A i \in S : Place(S, w, i) \in 0 .. Cardinality(S) - 1
      BY PlacesAreOrdered
  <2>2. \A i \in S : Place(S, w, i) < k
      BY <1>2, <1>3, <2>1
  <2> QED
      BY <2>2
<1>4. ASSUME k <= Cardinality(S)
      PROVE  Cardinality(T) = k
  <2> DEFINE N == 0 .. k - 1
             f == [i \in T |-> Place(S, w, i)]
  <2>1. IsFiniteSet(N) /\ Cardinality(N) = k
      BY NumbersBelow
  <2>a. \A i \in S : Place(S, w, i) \in 0 .. Cardinality(S) - 1
      BY PlacesAreOrdered
  <2>b. \A i, j \in S : Place(S, w, i) = Place(S, w, j) => i = j
      BY PlacesAreTaken
  <2>2. \A i \in T : Place(S, w, i) \in N
      BY <1>2, <2>a
  <2>3. f \in Injection(T, N)
    <3>1. f \in [T -> N]
        BY <2>2
    <3>2. \A i, j \in T : f[i] = f[j] => i = j
        BY <2>b
    <3> QED
        BY <3>1, <3>2 DEF Injection, IsInjective
  <2>4. \A n \in N : \E i \in T : f[i] = n
    <3> SUFFICES ASSUME NEW n \in N PROVE \E i \in T : f[i] = n
        OBVIOUS
    <3>1. n \in 0 .. Cardinality(S) - 1 /\ n < k
        BY <1>2, <1>4
    <3>2. PICK i \in S : Place(S, w, i) = n
        BY <3>1, PlacesAreTaken
    <3> QED
        BY <3>1, <3>2
  <2>5. f \in Surjection(T, N)
      BY <2>2, <2>4 DEF Surjection
  <2> HIDE DEF N, f, T
  <2> QED
      BY <2>1, <2>3, <2>5, FS_Injection
<1> QED
    BY <1>1, <1>3, <1>4

-----------------------------------------------------------------------------
(* Sequences joined end to end.                                            *)

\* One sequence and then another.
Then(s, t) == s \o t

\* The i-th of g joins the first i of the n sequences of ss.
IsJoin(n, ss, g) == g = [i \in 1 .. n |-> IF i = 1 THEN ss[i] ELSE Then(g[i - 1], ss[i])]

\* What the first i of n sequences make, for each i.
Joins(n, ss) == CHOOSE g : IsJoin(n, ss, g)

LEMMA FlattenIsLastJoin ==
    \A ss : FlattenSeq(ss) = IF Len(ss) = 0 THEN ss ELSE Joins(Len(ss), ss)[Len(ss)]
    BY DEF FlattenSeq, Joins, IsJoin, Then

\* A join of n sequences extends to one of n + 1.
LEMMA JoinExists ==
    ASSUME NEW P, NEW N \in Nat, NEW ss \in [1 .. N -> P], \A s, t \in P : Then(s, t) \in P
    PROVE  \E g \in [1 .. N -> P] : IsJoin(N, ss, g)
<1> DEFINE Adds(n, g) == \A i \in 1 .. n : g[i] = IF i = 1 THEN ss[i] ELSE Then(g[i - 1], ss[i])
           T == {n \in Nat : n <= N => \E g \in [1 .. n -> P] : Adds(n, g)}
<1>1. 0 \in T
  <2>1. [i \in 1 .. 0 |-> <<>>] \in [1 .. 0 -> P] /\ Adds(0, [i \in 1 .. 0 |-> <<>>])
      OBVIOUS
  <2> HIDE DEF Adds
  <2> QED
      BY <2>1
<1>2. ASSUME NEW n \in T
      PROVE  n + 1 \in T
  <2> SUFFICES ASSUME n + 1 <= N
               PROVE  \E g \in [1 .. n + 1 -> P] : Adds(n + 1, g)
    <3> HIDE DEF Adds
    <3> QED
        OBVIOUS
  <2>1. PICK g \in [1 .. n -> P] : Adds(n, g)
    <3> HIDE DEF Adds
    <3> QED
        OBVIOUS
  <2>2. ss[n + 1] \in P
      OBVIOUS
  <2> DEFINE next == IF n = 0 THEN ss[n + 1] ELSE Then(g[n], ss[n + 1])
             h == [i \in 1 .. n + 1 |-> IF i = n + 1 THEN next ELSE g[i]]
  <2>3. next \in P
      BY <2>2
  <2>4. h \in [1 .. n + 1 -> P]
    <3> HIDE DEF next, Adds
    <3> QED
        BY <2>3
  <2>5. h[n + 1] = IF n + 1 = 1 THEN ss[n + 1] ELSE Then(h[n + 1 - 1], ss[n + 1])
    <3>1. CASE n = 0
        BY <3>1
    <3>2. CASE n # 0
      <4>1. h[n + 1] = next /\ h[n] = g[n] /\ n + 1 - 1 = n
        <5> HIDE DEF next, Adds
        <5> QED
            BY <3>2
      <4> HIDE DEF h
      <4> QED
          BY <3>2, <4>1
    <3> QED
        BY <3>1, <3>2
  <2>6. ASSUME NEW i \in 1 .. n
        PROVE  h[i] = IF i = 1 THEN ss[i] ELSE Then(h[i - 1], ss[i])
    <3>1. h[i] = g[i] /\ (i # 1 => h[i - 1] = g[i - 1])
      <4> HIDE DEF next, Adds
      <4> QED
          OBVIOUS
    <3> HIDE DEF h
    <3> QED
        BY <2>1, <3>1
  <2>7. Adds(n + 1, h)
    <3> HIDE DEF h
    <3> QED
        BY <2>5, <2>6
  <2> HIDE DEF h, Adds
  <2> QED
      BY <2>4, <2>7
<1>3. T = Nat
  <2> HIDE DEF T
  <2>1. T \subseteq Nat
      BY DEF T
  <2> QED
      BY <1>1, <1>2, <2>1, EveryNumber
<1>4. N \in T
    BY <1>3
<1>5. PICK g \in [1 .. N -> P] : Adds(N, g)
  <2> HIDE DEF Adds
  <2> QED
      BY <1>4
<1>6. g = [i \in 1 .. N |-> IF i = 1 THEN ss[i] ELSE Then(g[i - 1], ss[i])]
    BY <1>5
<1> QED
    BY <1>6 DEF IsJoin

\* Members of a set that is closed under joining join to a member of it.
LEMMA JoinType ==
    ASSUME NEW P, NEW N \in Nat \ {0}, NEW ss \in [1 .. N -> P], \A s, t \in P : Then(s, t) \in P
    PROVE  Joins(N, ss)[N] \in P
<1> DEFINE g == Joins(N, ss)
<1>1. IsJoin(N, ss, g)
    BY JoinExists DEF Joins
<1>2. g[1] = ss[1] /\ \A n \in 1 .. N - 1 : g[n + 1] = Then(g[n], ss[n + 1])
  <2>1. g = [i \in 1 .. N |-> IF i = 1 THEN ss[i] ELSE Then(g[i - 1], ss[i])]
      BY <1>1 DEF IsJoin
  <2> HIDE DEF g
  <2>2. ASSUME NEW i \in 1 .. N PROVE g[i] = IF i = 1 THEN ss[i] ELSE Then(g[i - 1], ss[i])
      BY <2>1
  <2>3. ASSUME NEW n \in 1 .. N - 1 PROVE g[n + 1] = Then(g[n], ss[n + 1])
    <3>1. n + 1 \in 1 .. N /\ n + 1 # 1 /\ n + 1 - 1 = n
        OBVIOUS
    <3> QED
        BY <2>2, <3>1
  <2>4. g[1] = ss[1]
      BY <2>2
  <2> QED
      BY <2>3, <2>4
<1> HIDE DEF g
<1> DEFINE T == {n \in Nat : n + 1 <= N => g[n + 1] \in P}
<1>3. 0 \in T
    BY <1>2
<1>4. ASSUME NEW n \in T
      PROVE  n + 1 \in T
  <2> SUFFICES ASSUME n + 1 + 1 <= N
               PROVE  g[n + 1 + 1] \in P
      OBVIOUS
  <2>1. g[n + 1 + 1] = Then(g[n + 1], ss[n + 1 + 1])
      BY <1>2
  <2>2. g[n + 1] \in P /\ ss[n + 1 + 1] \in P
      OBVIOUS
  <2> QED
      BY <2>1, <2>2
<1>5. T = Nat
  <2> HIDE DEF T
  <2>1. T \subseteq Nat
      BY DEF T
  <2> QED
      BY <1>3, <1>4, <2>1, EveryNumber
<1>6. N - 1 \in Nat /\ N - 1 + 1 = N
    OBVIOUS
<1>7. N - 1 \in T
  <2> HIDE DEF T
  <2> QED
      BY <1>5, <1>6
<1>8. g[N] \in P
    BY <1>6, <1>7
<1> QED
    BY <1>8 DEF g

\* Sequences over a set join to a sequence over it.
LEMMA FlattenType ==
    ASSUME NEW S, NEW ss \in Seq(Seq(S))
    PROVE  FlattenSeq(ss) \in Seq(S)
<1> DEFINE P == Seq(S)
           N == Len(ss)
<1>1. \A s, t \in P : Then(s, t) \in P
    BY DEF Then
<1>2. <<>> \in P /\ ss \in Seq(P)
    OBVIOUS
<1> HIDE DEF P
<1>3. N \in Nat /\ ss \in [1 .. N -> P]
    BY <1>2, LenProperties
<1>4. FlattenSeq(ss) = IF N = 0 THEN ss ELSE Joins(N, ss)[N]
    BY FlattenIsLastJoin
<1>5. N = 0 => ss = <<>>
    BY <1>2
<1> HIDE DEF N
<1>6. CASE N = 0
    BY <1>2, <1>4, <1>5, <1>6 DEF P
<1>7. CASE N # 0
  <2>1. Joins(N, ss)[N] \in P
      BY <1>1, <1>3, <1>7, JoinType
  <2> QED
      BY <1>4, <1>7, <2>1 DEF P
<1> QED
    BY <1>6, <1>7
=============================================================================
