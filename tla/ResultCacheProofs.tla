--------------------------- MODULE ResultCacheProofs ---------------------------
(***************************************************************************)
(* The result cache: the sums its byte count stands for, the order its     *)
(* eviction keeps, and that with its files it is the map of CacheContract. *)
(***************************************************************************)
EXTENDS ResultCache, CountingLemmas

-----------------------------------------------------------------------------
(* Sums of sizes.                                                          *)

Size(s, i) == SizeOf[s[i].value]

IsSum(s, g) ==
    g = [n \in 0 .. Len(s) |-> IF n = 0 THEN 0 ELSE g[n - 1] + SizeOf[s[n].value]]

\* The sums of all prefixes of a sequence.
Sums(s) == CHOOSE g : IsSum(s, g)

LEMMA TotalIsLastSum == \A s : Total(s) = Sums(s)[Len(s)]
    BY DEF Total, Sums, IsSum

LEMMA SizeType ==
    ASSUME NEW s \in Seq(Items), NEW i \in 1 .. Len(s)
    PROVE  Size(s, i) \in Nat \ {0}
<1>1. s[i] \in Items
    OBVIOUS
<1>2. s[i].value \in Values
    BY <1>1 DEF Items
<1> QED
    BY <1>2, CacheAssumption DEF Size

\* They are sums of numbers.
LEMMA SumsOfSizes ==
    ASSUME NEW s \in Seq(Items)
    PROVE  LET f == [i \in 1 .. Len(s) |-> Size(s, i)] IN
           /\ Len(s) \in Nat /\ f \in [1 .. Len(s) -> Nat]
           /\ IsSumOf(Len(s), f, Sums(s))
<1> DEFINE f == [i \in 1 .. Len(s) |-> Size(s, i)]
<1>1. Len(s) \in Nat /\ f \in [1 .. Len(s) -> Nat]
    BY SizeType
<1>2. ASSUME NEW g
      PROVE  IsSum(s, g) <=> IsSumOf(Len(s), f, g)
  <2>1. ASSUME NEW n \in 0 .. Len(s)
        PROVE  (IF n = 0 THEN 0 ELSE g[n - 1] + SizeOf[s[n].value])
                   = (IF n = 0 THEN 0 ELSE g[n - 1] + f[n])
    <3>1. n # 0 => f[n] = SizeOf[s[n].value]
        BY DEF Size
    <3> HIDE DEF f
    <3> QED
        BY <3>1
  <2> HIDE DEF f
  <2>2. [n \in 0 .. Len(s) |-> IF n = 0 THEN 0 ELSE g[n - 1] + SizeOf[s[n].value]]
            = [n \in 0 .. Len(s) |-> IF n = 0 THEN 0 ELSE g[n - 1] + f[n]]
      BY <2>1
  <2> QED
      BY <2>2, Zenon DEF IsSum, IsSumOf
<1>3. \E g : IsSum(s, g)
  <2> HIDE DEF f
  <2> QED
      BY <1>1, <1>2, SumsExist
<1>4. IsSum(s, Sums(s))
    BY <1>3 DEF Sums
<1> QED
    BY <1>1, <1>2, <1>4

LEMMA SumsAdd ==
    ASSUME NEW s \in Seq(Items)
    PROVE  /\ \A n \in 0 .. Len(s) : Sums(s)[n] \in Nat
           /\ Sums(s)[0] = 0
           /\ \A n \in 1 .. Len(s) : Sums(s)[n] = Sums(s)[n - 1] + Size(s, n)
<1> DEFINE f == [i \in 1 .. Len(s) |-> Size(s, i)]
<1>1. \A n \in 1 .. Len(s) : f[n] = Size(s, n)
    OBVIOUS
<1> HIDE DEF f
<1>2. /\ \A n \in 0 .. Len(s) : Sums(s)[n] \in Nat
      /\ Sums(s)[0] = 0
      /\ \A n \in 1 .. Len(s) : Sums(s)[n] = Sums(s)[n - 1] + f[n]
    BY SumsOfSizes, SumsAddUp DEF f
<1> QED
    BY <1>1, <1>2

\* After its first p items s goes on for m items as t does after its first q.
Alike(s, p, t, q, m) ==
    /\ p + m <= Len(s)
    /\ q + m <= Len(t)
    /\ \A i \in 1 .. m : s[p + i] = t[q + i]

\* What those m items add.
Added(s, p, m) == Sums(s)[p + m] - Sums(s)[p]

\* Where two sequences have the same items, their sums grow alike.
LEMMA SumsAgree ==
    ASSUME NEW s \in Seq(Items), NEW t \in Seq(Items),
           NEW p \in Nat, NEW q \in Nat, NEW m \in Nat,
           Alike(s, p, t, q, m)
    PROVE  Added(s, p, m) = Added(t, q, m)
<1> USE DEF Alike, Added
<1> DEFINE S == {n \in Nat : n <= m => Sums(s)[p + n] - Sums(s)[p] = Sums(t)[q + n] - Sums(t)[q]}
<1>1. \A n \in 0 .. m : Sums(s)[p + n] \in Nat /\ Sums(t)[q + n] \in Nat
  <2>1. \A n \in 0 .. m : p + n \in 0 .. Len(s) /\ q + n \in 0 .. Len(t)
      OBVIOUS
  <2> QED
      BY <2>1, SumsAdd
<1>2. Sums(s)[p] \in Nat /\ Sums(t)[q] \in Nat
    BY <1>1
<1>3. 0 \in S
    BY <1>2
<1>4. ASSUME NEW n \in S
      PROVE  n + 1 \in S
  <2> SUFFICES ASSUME n + 1 <= m
               PROVE  Sums(s)[p + (n + 1)] - Sums(s)[p] = Sums(t)[q + (n + 1)] - Sums(t)[q]
      OBVIOUS
  <2>1. p + (n + 1) \in 1 .. Len(s) /\ q + (n + 1) \in 1 .. Len(t)
      OBVIOUS
  <2>2. Sums(s)[p + (n + 1)] = Sums(s)[p + n] + Size(s, p + (n + 1))
    <3>1. p + (n + 1) - 1 = p + n
        OBVIOUS
    <3> QED
        BY <2>1, <3>1, SumsAdd
  <2>3. Sums(t)[q + (n + 1)] = Sums(t)[q + n] + Size(t, q + (n + 1))
    <3>1. q + (n + 1) - 1 = q + n
        OBVIOUS
    <3> QED
        BY <2>1, <3>1, SumsAdd
  <2>4. Size(s, p + (n + 1)) = Size(t, q + (n + 1)) /\ Size(s, p + (n + 1)) \in Nat
    <3>1. n + 1 \in 1 .. m
        OBVIOUS
    <3>2. s[p + (n + 1)] = t[q + (n + 1)]
        BY <3>1
    <3> QED
        BY <2>1, <3>2, SizeType DEF Size
  <2>5. Sums(s)[p + n] - Sums(s)[p] = Sums(t)[q + n] - Sums(t)[q]
      OBVIOUS
  <2>6. Sums(s)[p + n] \in Nat /\ Sums(t)[q + n] \in Nat
      BY <1>1
  <2> HIDE DEF S, Alike, Added
  <2>7. Sums(s)[p + (n + 1)] - Sums(s)[p] = (Sums(s)[p + n] - Sums(s)[p]) + Size(s, p + (n + 1))
      BY <1>2, <2>2, <2>4, <2>6
  <2>8. Sums(t)[q + (n + 1)] - Sums(t)[q] = (Sums(t)[q + n] - Sums(t)[q]) + Size(t, q + (n + 1))
      BY <1>2, <2>3, <2>4, <2>6
  <2> QED
      BY <2>4, <2>5, <2>7, <2>8
<1>5. S = Nat
  <2> HIDE DEF S
  <2>1. S \subseteq Nat
      BY DEF S
  <2> QED
      BY <1>3, <1>4, <2>1, EveryNumber
<1>6. m \in S
    BY <1>5
<1> QED
    BY <1>6

-----------------------------------------------------------------------------
(* What removing, appending and cutting do to a sequence and to its total. *)

LEMMA Removal ==
    ASSUME NEW S, NEW s \in Seq(S), NEW p \in 1 .. Len(s)
    PROVE  /\ RemoveAt(s, p) \in Seq(S)
           /\ Len(RemoveAt(s, p)) = Len(s) - 1
           /\ \A j \in 1 .. Len(s) - 1 :
                  RemoveAt(s, p)[j] = IF j < p THEN s[j] ELSE s[j + 1]
<1> DEFINE a == SubSeq(s, 1, p - 1)
           b == SubSeq(s, p + 1, Len(s))
<1>1. /\ a \in Seq(S) /\ Len(a) = p - 1
      /\ \A j \in 1 .. p - 1 : a[j] = s[j]
    OBVIOUS
<1>2. /\ b \in Seq(S) /\ Len(b) = Len(s) - p
      /\ \A j \in 1 .. Len(s) - p : b[j] = s[p + j]
    OBVIOUS
<1>3. RemoveAt(s, p) = a \o b
    BY DEF RemoveAt
<1> HIDE DEF a, b
<1>4. Len(a \o b) = Len(s) - 1 /\ a \o b \in Seq(S)
  <2>1. Len(a \o b) = Len(a) + Len(b)
      BY <1>1, <1>2, ConcatProperties
  <2>2. Len(a \o b) = Len(s) - 1
      BY <1>1, <1>2, <2>1
  <2>3. a \o b \in Seq(S)
      BY <1>1, <1>2
  <2> QED
      BY <2>2, <2>3
<1>5. ASSUME NEW j \in 1 .. Len(s) - 1
      PROVE  (a \o b)[j] = IF j < p THEN s[j] ELSE s[j + 1]
  <2>1. CASE j < p
      BY <1>1, <1>2, <2>1
  <2>2. CASE j >= p
    <3>1. (a \o b)[j] = b[j - (p - 1)]
        BY <1>1, <1>2, <2>2
    <3>2. j - (p - 1) \in 1 .. Len(s) - p /\ p + (j - (p - 1)) = j + 1
        BY <2>2
    <3> QED
        BY <1>2, <2>2, <3>1, <3>2
  <2>3. j < p \/ j >= p
      OBVIOUS
  <2> QED
      BY <2>1, <2>2, <2>3
<1> QED
    BY <1>3, <1>4, <1>5

LEMMA TotalType ==
    ASSUME NEW s \in Seq(Items)
    PROVE  Total(s) \in Nat
<1>1. Len(s) \in 0 .. Len(s)
    OBVIOUS
<1> QED
    BY <1>1, TotalIsLastSum, SumsAdd

LEMMA TotalOfNothing == Total(<<>>) = 0
<1>1. <<>> \in Seq(Items) /\ Len(<<>>) = 0
    OBVIOUS
<1> QED
    BY <1>1, TotalIsLastSum, SumsAdd

LEMMA TotalOfAppend ==
    ASSUME NEW s \in Seq(Items), NEW x \in Items
    PROVE  Total(Append(s, x)) = Total(s) + SizeOf[x.value]
<1> DEFINE t == Append(s, x)
           n == Len(s)
<1>1. /\ t \in Seq(Items) /\ Len(t) = n + 1 /\ t[n + 1] = x
      /\ \A i \in 1 .. n : t[0 + i] = s[0 + i]
      /\ n \in Nat
    OBVIOUS
<1> HIDE DEF t, n
<1>2. Added(t, 0, n) = Added(s, 0, n)
  <2>1. Alike(t, 0, s, 0, n)
      BY <1>1 DEF n, Alike
  <2> QED
      BY <1>1, <2>1, SumsAgree
<1>3. Sums(t)[0] = 0 /\ Sums(s)[0] = 0
    BY <1>1, SumsAdd
<1>4. Sums(t)[n] \in Nat /\ Sums(s)[n] \in Nat
  <2>1. n \in 0 .. Len(t) /\ n \in 0 .. Len(s)
      BY <1>1 DEF n
  <2> QED
      BY <1>1, <2>1, SumsAdd
<1>5. Sums(t)[n + 1] = Sums(t)[n] + SizeOf[x.value]
  <2>1. n + 1 \in 1 .. Len(t) /\ n + 1 - 1 = n
      BY <1>1
  <2> QED
      BY <1>1, <2>1, SumsAdd DEF Size
<1>6. Sums(t)[n] = Sums(s)[n]
  <2>1. 0 + n = n
      BY <1>1
  <2> QED
      BY <1>2, <1>3, <1>4, <2>1 DEF Added
<1> QED
    BY <1>1, <1>5, <1>6, TotalIsLastSum DEF t, n

LEMMA TotalOfRemoval ==
    ASSUME NEW s \in Seq(Items), NEW p \in 1 .. Len(s)
    PROVE  Total(RemoveAt(s, p)) = Total(s) - Size(s, p)
<1> DEFINE t == RemoveAt(s, p)
           n == Len(s)
<1>1. /\ t \in Seq(Items) /\ Len(t) = n - 1 /\ n \in Nat
      /\ \A j \in 1 .. n - 1 : t[j] = IF j < p THEN s[j] ELSE s[j + 1]
    BY Removal
<1>2. n = Len(s)
    OBVIOUS
<1> HIDE DEF t, n
<1>3. Added(t, 0, p - 1) = Added(s, 0, p - 1)
  <2>1. p - 1 \in Nat /\ Alike(t, 0, s, 0, p - 1)
      BY <1>1, <1>2 DEF Alike
  <2> QED
      BY <1>1, <2>1, SumsAgree
<1>4. Added(t, p - 1, n - p) = Added(s, p, n - p)
  <2>1. p - 1 \in Nat /\ n - p \in Nat /\ p - 1 + (n - p) <= Len(t) /\ p + (n - p) <= Len(s)
      BY <1>1, <1>2
  <2>2. ASSUME NEW i \in 1 .. n - p
        PROVE  t[p - 1 + i] = s[p + i]
    <3>1. p - 1 + i \in 1 .. n - 1 /\ ~(p - 1 + i < p) /\ p - 1 + i + 1 = p + i
        BY <1>1, <1>2
    <3> QED
        BY <1>1, <3>1
  <2>3. Alike(t, p - 1, s, p, n - p)
      BY <2>1, <2>2 DEF Alike
  <2> QED
      BY <1>1, <2>1, <2>3, SumsAgree
<1>5. Sums(s)[p] = Sums(s)[p - 1] + Size(s, p)
    BY SumsAdd
<1>6. Sums(t)[0] = 0 /\ Sums(s)[0] = 0
    BY <1>1, SumsAdd
<1>7. 0 + (p - 1) = p - 1 /\ p - 1 + (n - p) = n - 1 /\ p + (n - p) = n
    BY <1>1
<1>8. /\ Sums(t)[p - 1] \in Nat /\ Sums(t)[n - 1] \in Nat
      /\ Sums(s)[p - 1] \in Nat /\ Sums(s)[p] \in Nat /\ Sums(s)[n] \in Nat
  <2>1. p - 1 \in 0 .. Len(t) /\ n - 1 \in 0 .. Len(t)
      BY <1>1, <1>2
  <2>2. p - 1 \in 0 .. Len(s) /\ p \in 0 .. Len(s) /\ n \in 0 .. Len(s)
      BY <1>1, <1>2
  <2> QED
      BY <1>1, <2>1, <2>2, SumsAdd
<1>9. Size(s, p) \in Nat
    BY SizeType
<1>10. Sums(t)[p - 1] = Sums(s)[p - 1]
    BY <1>3, <1>6, <1>7, <1>8 DEF Added
<1>11. Sums(t)[n - 1] - Sums(t)[p - 1] = Sums(s)[n] - Sums(s)[p]
    BY <1>4, <1>7 DEF Added
<1>12. Sums(t)[n - 1] = Sums(s)[n] - Size(s, p)
  <2>1. Sums(t)[n - 1] = Sums(s)[p - 1] + (Sums(s)[n] - Sums(s)[p])
      BY <1>8, <1>10, <1>11
  <2> QED
      BY <1>5, <1>8, <1>9, <2>1
<1> QED
    BY <1>1, <1>2, <1>12, TotalIsLastSum DEF t

LEMMA TotalOfParts ==
    ASSUME NEW s \in Seq(Items), NEW n \in 0 .. Len(s)
    PROVE  Total(SubSeq(s, n + 1, Len(s))) = Total(s) - Total(SubSeq(s, 1, n))
<1> DEFINE a == SubSeq(s, 1, n)
           b == SubSeq(s, n + 1, Len(s))
           l == Len(s) - n
<1>1. /\ a \in Seq(Items) /\ Len(a) = n
      /\ \A i \in 1 .. n : a[0 + i] = s[0 + i]
    OBVIOUS
<1>2. /\ b \in Seq(Items) /\ Len(b) = l /\ l \in Nat
      /\ \A i \in 1 .. l : b[0 + i] = s[n + i]
    OBVIOUS
<1>3. l = Len(s) - n
    OBVIOUS
<1> HIDE DEF a, b, l
<1>4. Added(a, 0, n) = Added(s, 0, n)
  <2>1. n \in Nat /\ Alike(a, 0, s, 0, n)
      BY <1>1 DEF Alike
  <2> QED
      BY <1>1, <2>1, SumsAgree
<1>5. Added(b, 0, l) = Added(s, n, l)
  <2>1. n \in Nat /\ Alike(b, 0, s, n, l)
      BY <1>2, <1>3 DEF Alike
  <2> QED
      BY <1>2, <2>1, SumsAgree
<1>6. Sums(a)[0] = 0 /\ Sums(s)[0] = 0 /\ Sums(b)[0] = 0
    BY <1>1, <1>2, SumsAdd
<1>7. 0 + n = n /\ 0 + l = l /\ n + l = Len(s)
    BY <1>2, <1>3
<1>8. Sums(a)[n] \in Nat /\ Sums(b)[l] \in Nat /\ Sums(s)[n] \in Nat /\ Sums(s)[Len(s)] \in Nat
  <2>1. n \in 0 .. Len(a) /\ l \in 0 .. Len(b) /\ Len(s) \in 0 .. Len(s)
      BY <1>1, <1>2
  <2> QED
      BY <1>1, <1>2, <2>1, SumsAdd
<1>9. Sums(a)[n] = Sums(s)[n]
    BY <1>4, <1>6, <1>7, <1>8 DEF Added
<1>10. Sums(b)[l] = Sums(s)[Len(s)] - Sums(s)[n]
    BY <1>5, <1>6, <1>7, <1>8 DEF Added
<1> QED
    BY <1>1, <1>2, <1>9, <1>10, TotalIsLastSum DEF a, b

-----------------------------------------------------------------------------
(* The invariant.                                                          *)

\* The order of last uses runs one way.
OrderIsStrict == \A x, y \in Keys : <<x, y>> \in older => <<y, x>> \notin older

\* A file was small enough to be kept when it was written, and still is.
FilesFit == \A k \in Keys : disk[k] # None => Fits(disk[k])

\* Unless its file could not be written, a key's file and item are the latest.
CopiesAreLatest ==
    \A k \in Keys \ failed :
        /\ disk[k] = latest[k]
        /\ \A i \in DOMAIN items : items[i].key = k => items[i].value = latest[k]

CInv ==
    /\ TypeOK
    /\ BytesAreCounted
    /\ KeepsTheMostRecent
    /\ OrderIsStrict
    /\ FilesFit
    /\ CopiesAreLatest

\* A key has one item at most, and At finds it.
LEMMA OneItem ==
    ASSUME CInv, NEW i \in DOMAIN items
    PROVE  At(items[i].key) = i
<1>1. \A j \in DOMAIN items : items[j].key \in Keys
  <2>1. \A j \in DOMAIN items : items[j] \in Items
      BY DEF CInv, TypeOK
  <2> QED
      BY <2>1 DEF Items
<1>2. \A j \in DOMAIN items : items[j].key = items[i].key => j = i
  <2> SUFFICES ASSUME NEW j \in DOMAIN items, items[j].key = items[i].key, j # i
               PROVE  FALSE
      OBVIOUS
  <2>1. i \in Int /\ j \in Int
      BY DEF CInv, TypeOK
  <2>2. <<items[i].key, items[i].key>> \in older
      BY <2>1 DEF CInv, KeepsTheMostRecent
  <2> QED
      BY <1>1, <2>2 DEF CInv, OrderIsStrict
<1> QED
    BY <1>2 DEF At

\* Where the item of a key is.
LEMMA ItemOfKey ==
    ASSUME CInv, NEW k \in Keys, InMemory(k)
    PROVE  /\ At(k) \in 1 .. Len(items)
           /\ items[At(k)] = Item(k, items[At(k)].value)
           /\ items[At(k)].value \in Values
<1>1. PICK i \in DOMAIN items : items[i].key = k
    BY DEF InMemory
<1>2. At(k) = i
    BY <1>1, OneItem
<1>3. items[i] \in Items /\ i \in 1 .. Len(items)
    BY DEF CInv, TypeOK
<1> QED
    BY <1>1, <1>2, <1>3 DEF Items, Item

\* The items of the other keys, in their order, and what they amount to.
LEMMA OthersStay ==
    ASSUME CInv, NEW k \in Keys
    PROVE  /\ Others(k) \in Seq(Items)
           /\ \A j \in DOMAIN Others(k) : Others(k)[j].key # k
           /\ \A j \in DOMAIN Others(k) : \E i \in DOMAIN items : Others(k)[j] = items[i]
           /\ \A i \in DOMAIN items :
                  items[i].key # k => \E j \in DOMAIN Others(k) : Others(k)[j] = items[i]
           /\ \A i, j \in DOMAIN Others(k) :
                  i < j => <<Others(k)[i].key, Others(k)[j].key>> \in older
           /\ Replaced(k) \in Nat
           /\ Total(Others(k)) = bytes - Replaced(k)
<1>1. items \in Seq(Items) /\ bytes = Total(items) /\ bytes \in Nat
    BY DEF CInv, TypeOK, BytesAreCounted
<1>2. CASE ~InMemory(k)
  <2>1. Others(k) = items /\ Replaced(k) = 0
      BY <1>2 DEF Others, Replaced
  <2>2. \A j \in DOMAIN items : items[j].key # k
      BY <1>2 DEF InMemory
  <2> QED
      BY <1>1, <2>1, <2>2 DEF CInv, KeepsTheMostRecent
<1>3. CASE InMemory(k)
  <2> DEFINE p == At(k)
             t == RemoveAt(items, p)
  <2>1. Others(k) = t /\ Replaced(k) = Size(items, p)
      BY <1>3 DEF Others, Replaced, Size
  <2>2. p \in 1 .. Len(items) /\ items[p].key = k
    <3>1. p \in 1 .. Len(items) /\ items[p] = Item(k, items[p].value)
        BY <1>3, ItemOfKey
    <3>2. Item(k, items[p].value).key = k
        BY DEF Item
    <3> QED
        BY <3>1, <3>2
  <2>3. \A i \in DOMAIN items : items[i].key = k => i = p
      BY OneItem
  <2>4. /\ t \in Seq(Items) /\ Len(t) = Len(items) - 1
        /\ \A j \in 1 .. Len(items) - 1 : t[j] = IF j < p THEN items[j] ELSE items[j + 1]
      BY <1>1, <2>2, Removal
  <2>5. Size(items, p) \in Nat /\ Total(t) = bytes - Size(items, p)
      BY <1>1, <2>2, SizeType, TotalOfRemoval
  <2> HIDE DEF p, t
  <2>6. DOMAIN t = 1 .. Len(items) - 1 /\ DOMAIN items = 1 .. Len(items)
      BY <1>1, <2>4
  <2> DEFINE From(j) == IF j < p THEN j ELSE j + 1
  <2>7. \A j \in DOMAIN t : From(j) \in DOMAIN items /\ From(j) # p /\ t[j] = items[From(j)]
      BY <2>2, <2>4, <2>6
  <2>8. \A i, j \in DOMAIN t : i < j => From(i) < From(j)
      BY <2>2, <2>6
  <2>9. ASSUME NEW i \in DOMAIN items, i # p
        PROVE  \E j \in DOMAIN t : t[j] = items[i]
    <3>1. CASE i < p
        BY <2>2, <2>4, <2>6, <2>9, <3>1
    <3>2. CASE i > p
      <4>1. i - 1 \in DOMAIN t /\ ~(i - 1 < p) /\ i - 1 + 1 = i
          BY <2>2, <2>6, <3>2
      <4>2. t[i - 1] = items[i]
          BY <2>4, <2>6, <4>1
      <4> QED
          BY <4>1, <4>2
    <3> QED
        BY <2>2, <2>6, <2>9, <3>1, <3>2
  <2> HIDE DEF From
  <2>10. \A j \in DOMAIN t : t[j].key # k /\ \E i \in DOMAIN items : t[j] = items[i]
      BY <2>3, <2>7
  <2>11. \A i, j \in DOMAIN t : i < j => <<t[i].key, t[j].key>> \in older
    <3>1. \A i, j \in DOMAIN items : i < j => <<items[i].key, items[j].key>> \in older
        BY DEF CInv, KeepsTheMostRecent
    <3> QED
        BY <2>7, <2>8, <3>1
  <2>12. \A i \in DOMAIN items : items[i].key # k => \E j \in DOMAIN t : t[j] = items[i]
      BY <2>2, <2>9
  <2> QED
      BY <2>1, <2>4, <2>5, <2>10, <2>11, <2>12
<1> QED
    BY <1>2, <1>3

\* Eviction stops before the item added last, as soon as the rest fits.
LEMMA EvictionStops ==
    ASSUME NEW s \in Seq(Items), NEW x \in Items, Fits(x.value)
    PROVE  LET added == Append(s, x)
               n     == Evicted(added, Total(added))
               rest  == Total(added) - Total(SubSeq(added, 1, n))
           IN  /\ n \in 0 .. Len(s)
               /\ rest \in 0 .. MaxBytes
               /\ rest = Total(SubSeq(added, n + 1, Len(added)))
<1> DEFINE added == Append(s, x)
           Rest(n) == Total(added) - Total(SubSeq(added, 1, n))
           Stops(n) == Rest(n) <= MaxBytes /\ \A m \in 0 .. n - 1 : Rest(m) > MaxBytes
           S == {n \in 0 .. Len(added) : Rest(n) <= MaxBytes}
<1>1. added \in Seq(Items) /\ Len(added) = Len(s) + 1 /\ SubSeq(added, 1, Len(s)) = s
    OBVIOUS
<1>2. Rest(Len(s)) <= MaxBytes
  <2>1. Total(added) = Total(s) + SizeOf[x.value]
      BY TotalOfAppend
  <2>2. x.value \in Values
      BY DEF Items
  <2>3. SizeOf[x.value] \in Nat /\ SizeOf[x.value] <= MaxBytes /\ MaxBytes \in Nat
      BY <2>2, CacheAssumption DEF Fits
  <2>4. Total(s) \in Nat /\ Total(added) - Total(s) = SizeOf[x.value]
      BY <2>1, <2>3, TotalType
  <2>5. Rest(Len(s)) = Total(added) - Total(s)
      BY <1>1
  <2> HIDE DEF Rest, added
  <2> QED
      BY <2>3, <2>4, <2>5
<1>3. ASSUME NEW n \in 0 .. Len(added)
      PROVE  Rest(n) \in Nat /\ Rest(n) = Total(SubSeq(added, n + 1, Len(added)))
  <2>1. Rest(n) = Total(SubSeq(added, n + 1, Len(added)))
      BY <1>1, TotalOfParts
  <2>2. SubSeq(added, n + 1, Len(added)) \in Seq(Items)
      BY <1>1
  <2> QED
      BY <2>1, <2>2, TotalType
<1> HIDE DEF added, Rest
<1>4. PICK n \in S : \A m \in S : n <= m
  <2>1. S \in SUBSET Nat /\ S # {}
    <3>1. Len(s) \in S
        BY <1>1, <1>2
    <3> QED
        BY <1>1, <3>1
  <2> HIDE DEF S
  <2> QED
      BY <2>1, LeastNumber
<1>5. Stops(n)
    BY <1>3, <1>4, CacheAssumption, SMTT(20)
<1>6. Evicted(added, Total(added)) = CHOOSE m \in 0 .. Len(added) : Stops(m)
    BY DEF Evicted, Rest
<1> DEFINE e == Evicted(added, Total(added))
<1>7. e \in 0 .. Len(added) /\ Stops(e)
    BY <1>4, <1>5, <1>6
<1> HIDE DEF e
<1>8. e \in 0 .. Len(s)
    BY <1>1, <1>2, <1>3, <1>7, CacheAssumption
<1>9. Rest(e) \in 0 .. MaxBytes
    BY <1>3, <1>7, CacheAssumption
<1> QED
    BY <1>3, <1>7, <1>8, <1>9 DEF e, Rest, added

\* What a use of k does: v becomes its item, the last one, after those of the
\* other keys; the first n of all these leave.
Renews(k, v, n) ==
    LET added == Append(Others(k), Item(k, v)) IN
    /\ n \in 0 .. Len(Others(k))
    /\ items' = SubSeq(added, n + 1, Len(added))

\* The items after a use: the used one, and some of the others, as they were.
LEMMA RenewedItems ==
    ASSUME CInv, NEW k \in Keys, NEW v \in Values, NEW n, Renews(k, v, n)
    PROVE  LET o == Others(k) IN
           /\ items' \in Seq(Items)
           /\ DOMAIN items' = 1 .. Len(o) - n + 1
           /\ items'[Len(o) - n + 1] = Item(k, v)
           /\ \A i \in 1 .. Len(o) - n : n + i \in DOMAIN o /\ items'[i] = o[n + i]
<1> DEFINE o == Others(k)
           added == Append(o, Item(k, v))
<1>1. o \in Seq(Items)
    BY OthersStay
<1>2. Item(k, v) \in Items
    BY DEF Item, Items
<1>3. /\ added \in Seq(Items) /\ Len(added) = Len(o) + 1 /\ added[Len(o) + 1] = Item(k, v)
      /\ \A i \in 1 .. Len(o) : added[i] = o[i]
    BY <1>1, <1>2
<1>4. n \in 0 .. Len(o) /\ items' = SubSeq(added, n + 1, Len(added)) /\ Len(o) \in Nat
    BY <1>1 DEF Renews
<1>5. DOMAIN o = 1 .. Len(o)
    BY <1>1
<1> HIDE DEF o, added
<1>6. /\ items' \in Seq(Items) /\ Len(items') = Len(o) + 1 - n
      /\ \A i \in 1 .. Len(o) + 1 - n : items'[i] = added[n + i]
    BY <1>3, <1>4
<1>7. DOMAIN items' = 1 .. Len(o) - n + 1
    BY <1>4, <1>6
<1>8. items'[Len(o) - n + 1] = Item(k, v)
  <2>1. Len(o) - n + 1 \in 1 .. Len(o) + 1 - n /\ n + (Len(o) - n + 1) = Len(o) + 1
      BY <1>4
  <2> QED
      BY <1>3, <1>6, <2>1
<1>9. ASSUME NEW i \in 1 .. Len(o) - n
      PROVE  n + i \in 1 .. Len(o) /\ items'[i] = o[n + i]
  <2>1. n + i \in 1 .. Len(o) /\ i \in 1 .. Len(o) + 1 - n
      BY <1>4
  <2> QED
      BY <1>3, <1>6, <2>1
<1> QED
    BY <1>5, <1>6, <1>7, <1>8, <1>9 DEF o

\* The order of last uses stays one, with the used key at its end.
LEMMA UsedIsStrict ==
    ASSUME CInv, NEW k \in Keys, Used(k)
    PROVE  /\ OrderIsStrict'
           /\ older' \subseteq Keys \X Keys
           /\ \A x, y \in Keys : x # k /\ y # k =>
                  (<<x, y>> \in older' <=> <<x, y>> \in older)
           /\ \A x \in Keys : x # k => <<x, k>> \in older'
           /\ \A x \in Keys : <<k, x>> \notin older'
    BY DEF CInv, TypeOK, OrderIsStrict, Used

\* A use keeps the items in the order of their keys' last uses, and what leaves
\* is what was used before all that stays.
LEMMA RenewedOrder ==
    ASSUME CInv, NEW k \in Keys, NEW v \in Values, NEW n, Renews(k, v, n), Used(k)
    PROVE  KeepsTheMostRecent'
<1> DEFINE o == Others(k)
           l == Len(o) - n
<1>1. /\ DOMAIN items' = 1 .. l + 1 /\ l \in Nat
      /\ items'[l + 1].key = k
      /\ \A i \in 1 .. l : n + i \in DOMAIN o /\ items'[i] = o[n + i]
  <2>1. Item(k, v).key = k /\ n \in 0 .. Len(o) /\ Len(o) \in Nat
      BY OthersStay DEF Item, Renews
  <2>2. /\ DOMAIN items' = 1 .. l + 1 /\ items'[l + 1] = Item(k, v)
        /\ \A i \in 1 .. l : n + i \in DOMAIN o /\ items'[i] = o[n + i]
      BY RenewedItems
  <2>3. l \in Nat
      BY <2>1
  <2> QED
      BY <2>1, <2>2, <2>3
<1>2. /\ \A j \in DOMAIN o : o[j].key \in Keys /\ o[j].key # k
      /\ \A i, j \in DOMAIN o : i < j => <<o[i].key, o[j].key>> \in older
  <2>1. \A j \in DOMAIN o : o[j] \in Items
      BY OthersStay
  <2> QED
      BY <2>1, OthersStay DEF Items
<1>3. DOMAIN o = 1 .. Len(o) /\ Len(o) \in Nat /\ n \in 0 .. Len(o) /\ l = Len(o) - n
    BY OthersStay DEF Renews
<1>4. \A y \in Keys : y # k /\ InMemory(y) => \E j \in DOMAIN o : o[j].key = y
    BY OthersStay DEF InMemory
<1>5. \A j \in DOMAIN o : InMemory(o[j].key)
    BY OthersStay DEF InMemory
<1> HIDE DEF o, l
<1>6. ASSUME NEW i \in DOMAIN items', NEW j \in DOMAIN items', i < j
      PROVE  <<items'[i].key, items'[j].key>> \in older'
  <2>1. i \in 1 .. l /\ n + i \in DOMAIN o /\ items'[i] = o[n + i]
      BY <1>1, <1>6
  <2>2. CASE j = l + 1
      BY <1>1, <1>2, <2>1, <2>2, UsedIsStrict
  <2>3. CASE j \in 1 .. l
    <3>1. n + j \in DOMAIN o /\ items'[j] = o[n + j] /\ n + i < n + j
        BY <1>1, <1>3, <1>6, <2>1, <2>3
    <3> QED
        BY <1>2, <2>1, <3>1, UsedIsStrict
  <2> QED
      BY <1>1, <2>2, <2>3
<1>7. ASSUME NEW x \in Keys, NEW y \in Keys, <<x, y>> \in older', InMemory(x)'
      PROVE  InMemory(y)'
  <2>1. CASE y = k
      BY <1>1, <2>1 DEF InMemory
  <2>2. CASE y # k
    <3>1. x # k
        BY <1>7, UsedIsStrict
    <3>2. PICK i \in 1 .. l : items'[i].key = x
        BY <1>1, <1>7, <3>1 DEF InMemory
    <3>3. n + i \in DOMAIN o /\ o[n + i].key = x
        BY <1>1, <3>2
    <3>4. <<x, y>> \in older
        BY <1>7, <2>2, <3>1, UsedIsStrict
    <3>5. InMemory(y)
        BY <1>5, <3>3, <3>4 DEF CInv, KeepsTheMostRecent
    <3>6. PICK j \in DOMAIN o : o[j].key = y
        BY <1>4, <2>2, <3>5
    <3>7. ~(j < n + i)
      <4>1. <<y, x>> \notin older
          BY <3>4 DEF CInv, OrderIsStrict
      <4> QED
          BY <1>2, <3>3, <3>6, <4>1
    <3>8. j - n \in 1 .. l /\ n + (j - n) = j
        BY <1>1, <1>3, <3>3, <3>7
    <3>9. items'[j - n].key = y
        BY <1>1, <3>6, <3>8
    <3> QED
        BY <1>1, <3>8, <3>9 DEF InMemory
  <2> QED
      BY <2>1, <2>2
<1> QED
    BY <1>6, <1>7 DEF KeepsTheMostRecent

\* Moving an item to the end renews it, and evicts nothing.
LEMMA TouchRenews ==
    ASSUME CInv, NEW k \in Keys, InMemory(k), Touch(k)
    PROVE  LET v == items[At(k)].value IN
           /\ v \in Values
           /\ Renews(k, v, 0)
           /\ Total(items') = bytes
<1> DEFINE v == items[At(k)].value
           added == Append(Others(k), Item(k, v))
<1>1. v \in Values /\ items[At(k)] = Item(k, v)
    BY ItemOfKey
<1>2. items' = added
    BY <1>1 DEF Touch
<1>3. Others(k) \in Seq(Items) /\ Item(k, v) \in Items
    BY <1>1, OthersStay DEF Item, Items
<1> HIDE DEF v
<1>4. added \in Seq(Items) /\ SubSeq(added, 0 + 1, Len(added)) = added
    BY <1>3
<1>5. Renews(k, v, 0)
    BY <1>2, <1>3, <1>4 DEF Renews
<1>6. Total(added) = bytes - SizeOf[v] + SizeOf[v]
  <2>1. Item(k, v).value = v
      BY DEF Item
  <2>2. Replaced(k) = SizeOf[v]
      BY DEF Replaced, v
  <2>3. Total(added) = Total(Others(k)) + SizeOf[v]
      BY <1>3, <2>1, TotalOfAppend
  <2> QED
      BY <2>2, <2>3, OthersStay
<1>7. SizeOf[v] \in Nat /\ bytes \in Nat
    BY <1>1, CacheAssumption DEF CInv, TypeOK
<1> QED
    BY <1>1, <1>2, <1>5, <1>6, <1>7 DEF v

\* Remembering a value that fits renews the item of its key, and counts it.
LEMMA RememberRenews ==
    ASSUME CInv, NEW k \in Keys, NEW v \in Values, Fits(v), Remember(k, v)
    PROVE  /\ \E n \in Nat : Renews(k, v, n)
           /\ bytes' \in 0 .. MaxBytes
           /\ bytes' = Total(items')
<1> DEFINE o == Others(k)
           added == Append(o, Item(k, v))
           size == bytes - Replaced(k) + SizeOf[v]
           n == Evicted(added, size)
<1>1. o \in Seq(Items) /\ Item(k, v) \in Items /\ Item(k, v).value = v
    BY OthersStay DEF Item, Items
<1>2. Total(added) = size
    BY <1>1, TotalOfAppend, OthersStay
<1>3. items' = SubSeq(added, n + 1, Len(added)) /\ bytes' = size - Total(SubSeq(added, 1, n))
    BY DEF Remember
<1>4. /\ n \in 0 .. Len(o)
      /\ size - Total(SubSeq(added, 1, n)) \in 0 .. MaxBytes
      /\ size - Total(SubSeq(added, 1, n)) = Total(SubSeq(added, n + 1, Len(added)))
    BY <1>1, <1>2, EvictionStops
<1>5. Renews(k, v, n)
    BY <1>3, <1>4 DEF Renews
<1>6. n \in Nat
    BY <1>1, <1>4
<1> QED
    BY <1>3, <1>4, <1>5, <1>6

\* After a use, the items are that of the used key and some of the others.
LEMMA RenewedContents ==
    ASSUME CInv, NEW k \in Keys, NEW v \in Values, NEW n, Renews(k, v, n)
    PROVE  /\ \E i \in DOMAIN items' : items'[i] = Item(k, v)
           /\ \A i \in DOMAIN items' :
                  \/ items'[i] = Item(k, v)
                  \/ items'[i].key # k /\ \E j \in DOMAIN items : items'[i] = items[j]
<1> DEFINE l == Len(Others(k)) - n
<1>1. l \in Nat
    BY OthersStay DEF Renews
<1>2. /\ DOMAIN items' = 1 .. l + 1 /\ items'[l + 1] = Item(k, v)
      /\ \A i \in 1 .. l : n + i \in DOMAIN Others(k) /\ items'[i] = Others(k)[n + i]
    BY RenewedItems
<1> HIDE DEF l
<1>3. ASSUME NEW i \in 1 .. l
      PROVE  items'[i].key # k /\ \E j \in DOMAIN items : items'[i] = items[j]
    BY <1>2, <1>3, OthersStay
<1> QED
    BY <1>1, <1>2, <1>3

-----------------------------------------------------------------------------
(* Every step keeps the invariant.                                         *)

\* A use that counts its bytes keeps what is said of the memory.
LEMMA MemoryKept ==
    ASSUME CInv, NEW k \in Keys, NEW v \in Values, NEW n, Renews(k, v, n), Used(k),
           bytes' \in 0 .. MaxBytes, bytes' = Total(items'),
           disk' \in [Keys -> Values \cup {None}],
           latest' \in [Keys -> Values \cup {None}],
           failed' \subseteq Keys,
           FilesFit', CopiesAreLatest'
    PROVE  CInv'
<1>1. TypeOK'
    BY RenewedItems, UsedIsStrict DEF TypeOK
<1>2. KeepsTheMostRecent' /\ OrderIsStrict'
    BY RenewedOrder, UsedIsStrict
<1> QED
    BY <1>1, <1>2 DEF CInv, BytesAreCounted

LEMMA GetFromMemoryCInv ==
    ASSUME CInv, NEW k \in Keys, GetFromMemory(k)
    PROVE  CInv'
<1> DEFINE v == items[At(k)].value
<1>1. v \in Values /\ Renews(k, v, 0) /\ Total(items') = bytes
    BY TouchRenews DEF GetFromMemory
<1>2. UNCHANGED <<bytes, disk, latest, failed>> /\ Used(k)
    BY DEF GetFromMemory
<1>3. CopiesAreLatest'
  <2>1. ASSUME NEW x \in Keys \ failed
        PROVE  /\ disk[x] = latest[x]
               /\ \A i \in DOMAIN items' : items'[i].key = x => items'[i].value = latest[x]
    <3>1. \A j \in DOMAIN items : items[j].key = x => items[j].value = latest[x]
        BY DEF CInv, CopiesAreLatest
    <3>2. \A i \in DOMAIN items' : \E j \in DOMAIN items : items'[i] = items[j]
      <4>1. At(k) \in DOMAIN items /\ items[At(k)] = Item(k, v)
          BY ItemOfKey DEF GetFromMemory
      <4> HIDE DEF v
      <4> QED
          BY <1>1, <4>1, RenewedContents
    <3> QED
        BY <3>1, <3>2 DEF CInv, CopiesAreLatest
  <2> QED
      BY <1>2, <2>1 DEF CopiesAreLatest
<1>4. FilesFit'
    BY <1>2 DEF CInv, FilesFit, Fits
<1> HIDE DEF v
<1> QED
    BY <1>1, <1>2, <1>3, <1>4, MemoryKept DEF CInv, TypeOK, BytesAreCounted

LEMMA GetFromDiskCInv ==
    ASSUME CInv, NEW k \in Keys, GetFromDisk(k)
    PROVE  CInv'
<1> DEFINE v == disk[k]
<1>1. v \in Values /\ Fits(v)
    BY DEF GetFromDisk, CInv, TypeOK, FilesFit
<1>2. UNCHANGED <<disk, latest, failed>> /\ Used(k) /\ Remember(k, v)
    BY DEF GetFromDisk
<1>3. PICK n \in Nat : Renews(k, v, n)
    BY <1>1, <1>2, RememberRenews
<1>4. bytes' \in 0 .. MaxBytes /\ bytes' = Total(items')
    BY <1>1, <1>2, RememberRenews
<1>5. CopiesAreLatest'
  <2>1. ASSUME NEW x \in Keys \ failed
        PROVE  /\ disk[x] = latest[x]
               /\ \A i \in DOMAIN items' : items'[i].key = x => items'[i].value = latest[x]
    <3>1. disk[x] = latest[x] /\ \A j \in DOMAIN items : items[j].key = x => items[j].value = latest[x]
        BY DEF CInv, CopiesAreLatest
    <3>2. \A i \in DOMAIN items' : items'[i] = Item(k, v) \/ \E j \in DOMAIN items : items'[i] = items[j]
        BY <1>1, <1>3, RenewedContents
    <3>3. Item(k, v).key = k /\ Item(k, v).value = disk[k]
        BY DEF Item
    <3> HIDE DEF v
    <3> QED
        BY <3>1, <3>2, <3>3
  <2> QED
      BY <1>2, <2>1 DEF CopiesAreLatest
<1>6. FilesFit'
    BY <1>2 DEF CInv, FilesFit, Fits
<1> HIDE DEF v
<1> QED
    BY <1>1, <1>2, <1>3, <1>4, <1>5, <1>6, MemoryKept DEF CInv, TypeOK

LEMMA PutCInv ==
    ASSUME CInv, NEW k \in Keys, NEW v \in Values, Put(k, v)
    PROVE  CInv'
<1>1. Fits(v) /\ Used(k) /\ Remember(k, v)
    BY DEF Put
<1>2. PICK n \in Nat : Renews(k, v, n)
    BY <1>1, RememberRenews
<1>3. bytes' \in 0 .. MaxBytes /\ bytes' = Total(items')
    BY <1>1, RememberRenews
<1>4. /\ latest' \in [Keys -> Values \cup {None}]
      /\ latest'[k] = v /\ \A x \in Keys \ {k} : latest'[x] = latest[x]
    BY DEF Put, CInv, TypeOK
<1>5. /\ disk' \in [Keys -> Values \cup {None}] /\ failed' \subseteq Keys
      /\ \A x \in Keys \ {k} : disk'[x] = disk[x] /\ (x \in failed' <=> x \in failed)
      /\ \/ k \in failed' /\ disk'[k] = disk[k]
         \/ k \notin failed' /\ disk'[k] = v
    BY DEF Put, Writes, CInv, TypeOK
<1>6. CopiesAreLatest'
  <2>1. ASSUME NEW x \in Keys \ failed'
        PROVE  /\ disk'[x] = latest'[x]
               /\ \A i \in DOMAIN items' : items'[i].key = x => items'[i].value = latest'[x]
    <3>1. \A i \in DOMAIN items' :
              \/ items'[i] = Item(k, v)
              \/ items'[i].key # k /\ \E j \in DOMAIN items : items'[i] = items[j]
        BY <1>2, RenewedContents
    <3>2. Item(k, v).key = k /\ Item(k, v).value = v
        BY DEF Item
    <3>3. CASE x = k
        BY <1>4, <1>5, <2>1, <3>1, <3>2, <3>3
    <3>4. CASE x # k
      <4>1. disk[x] = latest[x] /\ \A j \in DOMAIN items : items[j].key = x => items[j].value = latest[x]
          BY <1>5, <2>1, <3>4 DEF CInv, CopiesAreLatest
      <4> QED
          BY <1>4, <1>5, <3>1, <3>2, <3>4, <4>1
    <3> QED
        BY <3>3, <3>4
  <2> QED
      BY <2>1 DEF CopiesAreLatest
<1>7. FilesFit'
    BY <1>1, <1>5 DEF CInv, FilesFit, Fits
<1> QED
    BY <1>1, <1>2, <1>3, <1>4, <1>5, <1>6, <1>7, MemoryKept

LEMMA RestartCInv ==
    ASSUME CInv, Restart
    PROVE  CInv'
<1>1. items' = <<>> /\ bytes' = 0 /\ older' = {} /\ UNCHANGED <<disk, latest, failed>>
    BY DEF Restart
<1>2. TypeOK'
    BY <1>1, CacheAssumption DEF CInv, TypeOK
<1>3. BytesAreCounted'
    BY <1>1, TotalOfNothing DEF BytesAreCounted
<1>4. KeepsTheMostRecent' /\ OrderIsStrict' /\ FilesFit' /\ CopiesAreLatest'
    BY <1>1 DEF CInv, KeepsTheMostRecent, OrderIsStrict, FilesFit, CopiesAreLatest, Fits
<1> QED
    BY <1>2, <1>3, <1>4 DEF CInv

LEMMA InitCInv == Init => CInv
<1> SUFFICES ASSUME Init
             PROVE  CInv
    OBVIOUS
<1> USE DEF Init
<1>1. TypeOK
    BY CacheAssumption DEF TypeOK
<1>2. BytesAreCounted
    BY TotalOfNothing DEF BytesAreCounted
<1>3. KeepsTheMostRecent /\ OrderIsStrict /\ FilesFit /\ CopiesAreLatest
    BY DEF KeepsTheMostRecent, OrderIsStrict, FilesFit, CopiesAreLatest
<1> QED
    BY <1>1, <1>2, <1>3 DEF CInv

LEMMA NextCInv == CInv /\ [Next]_vars => CInv'
<1> SUFFICES ASSUME CInv, [Next]_vars
             PROVE  CInv'
    OBVIOUS
<1>1. ASSUME NEW k \in Keys, GetFromMemory(k) PROVE CInv'
    BY <1>1, GetFromMemoryCInv
<1>2. ASSUME NEW k \in Keys, GetFromDisk(k) PROVE CInv'
    BY <1>2, GetFromDiskCInv
<1>3. ASSUME NEW k \in Keys, NEW v \in Values, Put(k, v) PROVE CInv'
    BY <1>3, PutCInv
<1>4. CASE Restart
    BY <1>4, RestartCInv
<1>5. CASE UNCHANGED vars
  <2>1. UNCHANGED <<items, bytes, disk, older, latest, failed>>
      BY <1>5 DEF vars
  <2> QED
      BY <2>1 DEF CInv, TypeOK, BytesAreCounted, KeepsTheMostRecent, InMemory, OrderIsStrict,
                  FilesFit, CopiesAreLatest, Fits
<1> QED
    BY <1>1, <1>2, <1>3, <1>4, <1>5 DEF Next

-----------------------------------------------------------------------------
(* What a get answers.                                                     *)

\* What is in memory answers before the file.
MemoryAnswers ==
    \A k \in Keys :
        /\ \A i \in DOMAIN items : items[i].key = k => Lookup(k) = items[i].value
        /\ ~InMemory(k) => Lookup(k) = disk[k]

LEMMA AnswersFromMemory == CInv => MemoryAnswers
    BY OneItem DEF MemoryAnswers, Lookup, InMemory

LEMMA AnswersNext == CInv' => MemoryAnswers'
    BY AnswersFromMemory, PTL

\* After a use, the key answers with the value used, and any other key as it
\* did or with its file.
LEMMA AnswersAfterUse ==
    ASSUME CInv, CInv', NEW k \in Keys, NEW v \in Values, NEW n, Renews(k, v, n)
    PROVE  /\ Lookup(k)' = v
           /\ \A x \in Keys \ {k} : Lookup(x)' = Lookup(x) \/ Lookup(x)' = disk'[x]
<1>1. /\ \A x \in Keys, i \in DOMAIN items' : items'[i].key = x => Lookup(x)' = items'[i].value
      /\ \A x \in Keys : ~InMemory(x)' => Lookup(x)' = disk'[x]
    BY AnswersNext DEF MemoryAnswers
<1>2. Item(k, v).key = k /\ Item(k, v).value = v
    BY DEF Item
<1>3. Lookup(k)' = v
    BY <1>1, <1>2, RenewedContents
<1>4. ASSUME NEW x \in Keys \ {k}
      PROVE  Lookup(x)' = Lookup(x) \/ Lookup(x)' = disk'[x]
  <2>1. CASE ~InMemory(x)'
      BY <1>1, <2>1
  <2>2. CASE InMemory(x)'
    <3>1. PICK i \in DOMAIN items' : items'[i].key = x
        BY <2>2 DEF InMemory
    <3>2. PICK j \in DOMAIN items : items'[i] = items[j]
        BY <1>2, <3>1, RenewedContents
    <3>3. Lookup(x)' = items[j].value /\ items[j].key = x
        BY <1>1, <3>1, <3>2
    <3>4. Lookup(x) = items[j].value
        BY <3>2, <3>3, AnswersFromMemory DEF MemoryAnswers
    <3> QED
        BY <3>3, <3>4
  <2> QED
      BY <2>1, <2>2
<1> QED
    BY <1>3, <1>4

-----------------------------------------------------------------------------
(* The refinement.                                                         *)

\* What the keys answer, as the contract sees it.
Answers == [k \in Keys |-> Lookup(k)]

\* Keys that keep their answer, or answer with their file, show as a Forget.
LEMMA FallingBackIsForget ==
    ASSUME UNCHANGED disk,
           \A x \in Keys : Lookup(x)' = Lookup(x) \/ Lookup(x)' = disk[x]
    PROVE  Contract!Next
<1> DEFINE F == {x \in Keys : Lookup(x)' = disk[x]}
<1>1. Answers' = Contract!After(F)
    BY DEF Answers, Contract!After
<1> QED
    BY <1>1 DEF Contract!Next, Contract!Forget, Answers

LEMMA GetFromMemoryIsForget ==
    ASSUME CInv, CInv', NEW k \in Keys, GetFromMemory(k)
    PROVE  Contract!Next
<1> DEFINE v == items[At(k)].value
<1>1. v \in Values /\ Renews(k, v, 0)
    BY TouchRenews DEF GetFromMemory
<1>2. UNCHANGED disk /\ InMemory(k) /\ Lookup(k) = v
    BY DEF GetFromMemory, Lookup
<1> HIDE DEF v
<1> QED
    BY <1>1, <1>2, AnswersAfterUse, FallingBackIsForget

LEMMA GetFromDiskIsForget ==
    ASSUME CInv, CInv', NEW k \in Keys, GetFromDisk(k)
    PROVE  Contract!Next
<1>1. disk[k] \in Values /\ Fits(disk[k])
    BY DEF GetFromDisk, CInv, TypeOK, FilesFit
<1>2. UNCHANGED disk /\ Remember(k, disk[k])
    BY DEF GetFromDisk
<1>3. PICK n \in Nat : Renews(k, disk[k], n)
    BY <1>1, <1>2, RememberRenews
<1> QED
    BY <1>1, <1>2, <1>3, AnswersAfterUse, FallingBackIsForget

LEMMA PutIsPut ==
    ASSUME CInv, CInv', NEW k \in Keys, NEW v \in Values, Put(k, v)
    PROVE  Contract!Next
<1>1. PICK n \in Nat : Renews(k, v, n)
    BY RememberRenews DEF Put
<1>2. Lookup(k)' = v /\ \A x \in Keys \ {k} : Lookup(x)' = Lookup(x) \/ Lookup(x)' = disk'[x]
    BY <1>1, AnswersAfterUse
<1>3. disk' \in {disk, [disk EXCEPT ![k] = v]}
    BY DEF Put, Writes
<1>4. \A x \in Keys \ {k} : disk'[x] = disk[x]
    BY <1>3 DEF CInv, TypeOK
<1> DEFINE F == {x \in Keys : Lookup(x)' = disk[x]}
<1>5. Answers' = [Contract!After(F) EXCEPT ![k] = v]
    BY <1>2, <1>4 DEF Answers, Contract!After
<1>6. \E forgotten \in SUBSET Keys : Answers' = [Contract!After(forgotten) EXCEPT ![k] = v]
    BY <1>5
<1>7. Contract!Put(k, v)
    BY <1>3, <1>6 DEF Contract!Put, Answers
<1> QED
    BY <1>7 DEF Contract!Next

LEMMA RestartIsForget ==
    ASSUME Restart
    PROVE  Contract!Next
<1>1. UNCHANGED disk /\ \A x \in Keys : Lookup(x)' = disk[x]
    BY DEF Restart, Lookup, InMemory
<1> QED
    BY <1>1, FallingBackIsForget

LEMMA StepsOfContract ==
    CInv /\ CInv' /\ [Next]_vars => [Contract!Next]_(Contract!vars)
<1> SUFFICES ASSUME CInv, CInv', [Next]_vars
             PROVE  Contract!Next \/ UNCHANGED Contract!vars
    OBVIOUS
<1>1. ASSUME NEW k \in Keys, GetFromMemory(k) PROVE Contract!Next
    BY <1>1, GetFromMemoryIsForget
<1>2. ASSUME NEW k \in Keys, GetFromDisk(k) PROVE Contract!Next
    BY <1>2, GetFromDiskIsForget
<1>3. ASSUME NEW k \in Keys, NEW v \in Values, Put(k, v) PROVE Contract!Next
    BY <1>3, PutIsPut
<1>4. CASE Restart
    BY <1>4, RestartIsForget
<1>5. CASE UNCHANGED vars
    BY <1>5 DEF vars, Contract!vars, Lookup, InMemory, At
<1> QED
    BY <1>1, <1>2, <1>3, <1>4, <1>5 DEF Next

-----------------------------------------------------------------------------
(* Theorems.                                                               *)

\* In every reachable state the bytes are counted, the items are those used
\* last in the order of their use, and files and items are the latest values
\* unless writing failed.
THEOREM CacheInvariant == Spec => []CInv
<1> QED
    BY InitCInv, NextCInv, PTL DEF Spec

\* The cache never exceeds its budget.  (_remember_l1)
THEOREM CacheTypes == Spec => []TypeOK
<1>1. CInv => TypeOK
    BY DEF CInv
<1> QED
    BY <1>1, CacheInvariant, PTL

\* The running count is the sum of the sizes of what is kept.
THEOREM CacheCountsBytes == Spec => []BytesAreCounted
<1>1. CInv => BytesAreCounted
    BY DEF CInv
<1> QED
    BY <1>1, CacheInvariant, PTL

\* Eviction takes the items that were used before all the others.
THEOREM CacheKeepsTheMostRecent == Spec => []KeepsTheMostRecent
<1>1. CInv => KeepsTheMostRecent
    BY DEF CInv
<1> QED
    BY <1>1, CacheInvariant, PTL

\* A get answers with the value put last, from memory or from the file, unless
\* the file of that key could not be written.
THEOREM CacheForgetsNothing == Spec => []NothingIsForgotten
<1>1. CInv => NothingIsForgotten
  <2> SUFFICES ASSUME CInv, NEW k \in Keys \ failed
               PROVE  Lookup(k) = latest[k]
      BY DEF NothingIsForgotten
  <2>1. CASE InMemory(k)
      BY <2>1, AnswersFromMemory DEF MemoryAnswers, InMemory, CInv, CopiesAreLatest
  <2>2. CASE ~InMemory(k)
      BY <2>2 DEF Lookup, CInv, CopiesAreLatest
  <2> QED
      BY <2>1, <2>2
<1> QED
    BY <1>1, CacheInvariant, PTL

\* Behind sizes, order, eviction and restarts the cache is the map of
\* CacheContract.
THEOREM CacheImplementsContract == Spec => ImplementsContract
<1>1. Init => Contract!Init
    BY DEF Init, Contract!Init, Lookup, InMemory
<1> QED
    BY <1>1, StepsOfContract, CacheInvariant, PTL
       DEF Spec, ImplementsContract, Contract!Spec
=============================================================================
