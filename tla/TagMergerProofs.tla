---------------------------- MODULE TagMergerProofs ----------------------------
(***************************************************************************)
(* What the rules of TagMerger and ImageKinds give, whatever the models    *)
(* proposed: the measures of an image have a kind and shares, a list of    *)
(* candidates never loses its shape, merging keeps only what is supported, *)
(* and the list that is filled up has enough tags and none twice.          *)
(***************************************************************************)
EXTENDS TagMerger, CountingLemmas

-----------------------------------------------------------------------------
(* What an image is believed to be.                                        *)

\* A share is a number, one at most.
LEMMA ShareType ==
    ASSUME NEW n \in Nat, NEW d \in Nat \ {0}
    PROVE  Share(n, d) \in Nat /\ Share(n, d) <= 10000
<1>1. (Whole * n) \div d \in Nat
    BY DEF Whole
<1> QED
    BY <1>1 DEF Share, AtMost, Whole

\* How the texture and the likelihood of text are related: both grow with the
\* contrast, of which what looks like a meme has some.
LEMMA LooksAre ==
    ASSUME NEW im \in Measures
    PROVE  LET t == Texture(im)
               l == TextLikelihood(im)
           IN  /\ t \in Nat /\ l \in Nat /\ t <= 10000 /\ l <= 10000 /\ t <= 4 * l + 4
               /\ MemeLike(im) => l >= 2600 /\ t >= 600
<1> DEFINE d == Share(im.stddev, 95)
           e == Share(im.edges, 28)
           b == AtMost(Whole, ((im.bright + im.dark) * 18) \div 10)
           m == Share(Distance(im.mean, 128), 128)
           k == Whole - AtMost(im.bright, 8200)
           t == Texture(im)
           l == TextLikelihood(im)
<1>1. /\ im.edges \in Nat /\ im.stddev \in Nat /\ im.bright \in Nat
      /\ im.dark \in Nat /\ im.mean \in Nat
    BY DEF Measures
<1>2. d \in Nat /\ e \in Nat /\ d <= 10000 /\ e <= 10000
    BY <1>1, ShareType
<1>3. m \in Nat /\ m <= 10000
  <2>1. Distance(im.mean, 128) \in Nat
      BY <1>1 DEF Distance
  <2> QED
      BY <2>1, ShareType
<1>4. b \in Nat /\ b <= 10000
  <2>1. ((im.bright + im.dark) * 18) \div 10 \in Nat
      BY <1>1
  <2> QED
      BY <2>1 DEF AtMost, Whole
<1>5. k \in Nat /\ k <= 10000 /\ k >= 1800
    BY <1>1 DEF AtMost, Whole
<1>6. l = (35 * e + 25 * d + 20 * b + 20 * m) \div 100
    BY DEF TextLikelihood
<1>7. t = (d * k) \div 10000
    BY DEF Texture, Whole
<1>8. MemeLike(im) => e >= 5000 /\ d >= 3600
  <2> SUFFICES ASSUME im.edges > 13, im.stddev > 34 PROVE e >= 5000 /\ d >= 3600
      BY DEF MemeLike
  <2>1. (10000 * im.edges) \div 28 >= 5000 /\ (10000 * im.stddev) \div 95 >= 3600
      BY <1>1
  <2> QED
      BY <2>1 DEF Share, AtMost, Whole
<1> HIDE DEF d, e, b, m, k, t, l
<1>9. l \in Nat /\ l <= 10000 /\ 100 * l + 100 >= 35 * e + 25 * d
    BY <1>2, <1>3, <1>4, <1>6
<1>10. d * k <= d * 10000 /\ d * k >= d * 1800 /\ d * k \in Nat
  <2>1. \A x, y, z \in Nat : y <= z => x * y <= x * z
      OBVIOUS
  <2>2. \A x, y \in Nat : x * y \in Nat
      OBVIOUS
  <2> QED
      BY <1>2, <1>5, <2>1, <2>2
<1>11. t \in Nat /\ t <= d /\ 10000 * t + 10000 >= d * 1800
  <2> DEFINE p == d * k
  <2>1. p \in Nat /\ p <= d * 10000 /\ p >= d * 1800 /\ t = p \div 10000
      BY <1>7, <1>10
  <2> HIDE DEF p
  <2> QED
      BY <2>1, <1>2
<1>12. t <= 10000 /\ t <= 4 * l + 4
    BY <1>2, <1>9, <1>11
<1>13. MemeLike(im) => l >= 2600 /\ t >= 600
    BY <1>2, <1>8, <1>9, <1>11
<1> QED
    BY <1>9, <1>11, <1>12, <1>13 DEF t, l

\* Every subtype has a score, and that of a photo is not zero.
LEMMA ScoreType ==
    ASSUME NEW im \in Measures, NEW subtype
    PROVE  Score(im, subtype) \in Nat /\ Score(im, "natural_photo") >= 2000
<1> DEFINE l == TextLikelihood(im)
           t == Texture(im)
<1>1. l \in Nat /\ t \in Nat
    BY LooksAre
<1>2. \A condition, n \in Nat : If(condition, n) \in Nat
    BY DEF If
<1> HIDE DEF l, t
<1>3. /\ (9 * t) \div 10 \in Nat
      /\ (45 * t + 55 * l) \div 100 \in Nat
      /\ l \div 4 \in Nat
    BY <1>1
<1>4. \A condition : /\ If(condition, 1800) \in Nat /\ If(condition, 8500) \in Nat
                     /\ If(condition, 3200) \in Nat /\ If(condition, 7200) \in Nat
                     /\ If(condition, 2500) \in Nat /\ If(condition, 4200) \in Nat
                     /\ If(condition, 7800) \in Nat /\ If(condition, 3400) \in Nat
                     /\ If(condition, 8600) \in Nat /\ If(condition, 3800) \in Nat
                     /\ If(condition, 2200) \in Nat /\ If(condition, 8000) \in Nat
                     /\ If(condition, 2800) \in Nat
    BY DEF If
<1>5. Score(im, "natural_photo") >= 2000 /\ Score(im, "natural_photo") \in Nat
    BY <1>3, <1>4 DEF Score, t
<1> QED
    BY <1>3, <1>4, <1>5 DEF Score, t, l

\* What each score is at least and at most.
LEMMA ScoreBounds ==
    ASSUME NEW im \in Measures
    PROVE  LET t == Texture(im)
               l == TextLikelihood(im)
               s(name) == Score(im, name)
           IN  /\ 10 * s("natural_photo") >= 20000 + 9 * t - 9
               /\ 10 * s("natural_photo") <= 38000 + 9 * t
               /\ 100 * s("photo_with_text") >= 100000 + 45 * t + 55 * l - 99
               /\ 100 * s("photo_with_text") <= 100000 + 45 * t + 55 * l
               /\ s("meme") >= 1200 /\ s("meme") <= 11500
               /\ s("meme") > 3000 => MemeLike(im)
               /\ s("meme") > 9700 => l > 4500
               /\ 4 * s("poster") >= 4000 + l - 3 /\ 4 * s("poster") <= 16800 + l
               /\ s("document") >= 800 /\ s("document") <= 10500
               /\ s("document") > 8000 => l > 4500
               /\ s("form") >= 400 /\ s("form") <= 4600
               /\ s("receipt") >= 400 /\ s("receipt") <= 8200
               /\ s("invoice") >= 300 /\ s("invoice") <= 3700
               /\ s("chat_screenshot") >= 400 /\ s("chat_screenshot") <= 9000
               /\ s("web_screenshot") >= 400 /\ s("web_screenshot") <= 4200
               /\ s("ai_assistant_screenshot") >= 300 /\ s("ai_assistant_screenshot") <= 2500
               /\ s("code_screenshot") >= 400 /\ s("code_screenshot") <= 8400
               /\ s("game_screenshot") >= 300 /\ s("game_screenshot") <= 3100
               /\ s("unknown") = 800
<1> DEFINE t == Texture(im)
           l == TextLikelihood(im)
           s(name) == Score(im, name)
<1>1. t \in Nat /\ l \in Nat
    BY LooksAre
<1>2. \E x \in {0, 1800} : s("natural_photo") = 2000 + (9 * t) \div 10 + x
    BY DEF Score, If
<1>3. s("photo_with_text") = 1000 + (45 * t + 55 * l) \div 100
    BY DEF Score
<1>4. \E x \in {0, 3200} : s("poster") = 1000 + x + l \div 4
    BY DEF Score, If
<1>5. /\ s("meme") >= 1200 /\ s("meme") <= 11500
      /\ s("meme") > 3000 => MemeLike(im)
      /\ s("meme") > 9700 => l > 4500
    BY DEF Score, If
<1>6. /\ s("document") >= 800 /\ s("document") <= 10500
      /\ s("document") > 8000 => l > 4500
    BY DEF Score, If
<1>7. /\ s("form") >= 400 /\ s("form") <= 4600
      /\ s("receipt") >= 400 /\ s("receipt") <= 8200
      /\ s("invoice") >= 300 /\ s("invoice") <= 3700
      /\ s("chat_screenshot") >= 400 /\ s("chat_screenshot") <= 9000
    BY DEF Score, If
<1>8. /\ s("web_screenshot") >= 400 /\ s("web_screenshot") <= 4200
      /\ s("ai_assistant_screenshot") >= 300 /\ s("ai_assistant_screenshot") <= 2500
      /\ s("code_screenshot") >= 400 /\ s("code_screenshot") <= 8400
      /\ s("game_screenshot") >= 300 /\ s("game_screenshot") <= 3100
      /\ s("unknown") = 800
    BY DEF Score, If
<1> HIDE DEF t, l, s
<1>9. /\ 10 * s("natural_photo") >= 20000 + 9 * t - 9
      /\ 10 * s("natural_photo") <= 38000 + 9 * t
    BY <1>1, <1>2
<1>10. /\ 100 * s("photo_with_text") >= 100000 + 45 * t + 55 * l - 99
       /\ 100 * s("photo_with_text") <= 100000 + 45 * t + 55 * l
    BY <1>1, <1>3
<1>11. 4 * s("poster") >= 4000 + l - 3 /\ 4 * s("poster") <= 16800 + l
    BY <1>1, <1>4
<1> QED
    BY <1>5, <1>6, <1>7, <1>8, <1>9, <1>10, <1>11 DEF t, l, s

Names == {Subtypes[i] : i \in DOMAIN Subtypes}
Subtype == [name: Names, share: Int]

\* The subtypes, of which the first is the photo.
LEMMA SubtypesType ==
    /\ Subtypes[1] = "natural_photo"
    /\ Len(Subtypes) \in Nat \ {0} /\ DOMAIN Subtypes = 1 .. Len(Subtypes)
    /\ \A i \in DOMAIN Subtypes : Subtypes[i] \in Names
    /\ \A name \in Names : name \in
          {"natural_photo", "photo_with_text", "meme", "poster", "document", "form", "receipt",
           "invoice", "chat_screenshot", "web_screenshot", "ai_assistant_screenshot",
           "code_screenshot", "game_screenshot", "unknown"}
<1>1. Subtypes[1] = "natural_photo"
    BY DEF Subtypes
<1>2. Len(Subtypes) = 14 /\ DOMAIN Subtypes = 1 .. 14
    BY DEF Subtypes
<1>3. \A i \in 1 .. 14 : Subtypes[i] \in
          {"natural_photo", "photo_with_text", "meme", "poster", "document", "form", "receipt",
           "invoice", "chat_screenshot", "web_screenshot", "ai_assistant_screenshot",
           "code_screenshot", "game_screenshot", "unknown"}
    BY DEF Subtypes
<1> QED
    BY <1>1, <1>2, <1>3 DEF Names

\* The parts of a distribution: the scores, their sums, the shares, and which
\* of them is the n-th.
Scores(im) == [i \in DOMAIN Subtypes |-> Score(im, Subtypes[i])]
ScoreSums(im) == CHOOSE g : IsSumOf(Len(Subtypes), Scores(im), g)
Shares(im) ==
    [i \in DOMAIN Scores(im) |-> (Whole * Scores(im)[i]) \div ScoreSums(im)[Len(Subtypes)]]
Nth(w, n) == CHOOSE i \in DOMAIN w : Place(DOMAIN w, w, i) = n - 1

\* The distribution lists the shares by rank.
LEMMA DistributionIsSorted ==
    ASSUME NEW im
    PROVE  Distribution(im) = [n \in DOMAIN Subtypes |->
               [name |-> Subtypes[Nth(Shares(im), n)], share |-> Shares(im)[Nth(Shares(im), n)]]]
BY DEF Distribution, Scores, ScoreSums, IsSumOf, Shares, Nth, Place, Before

\* A distribution has a share for each subtype: it divides by no zero.
LEMMA SharesType ==
    ASSUME NEW im \in Measures
    PROVE  Shares(im) \in [1 .. Len(Subtypes) -> Int]
<1> DEFINE N == Len(Subtypes)
           f == Scores(im)
           g == ScoreSums(im)
<1>1. N \in Nat \ {0} /\ DOMAIN Subtypes = 1 .. N
    BY SubtypesType
<1>2. f \in [1 .. N -> Nat] /\ f[1] >= 2000
  <2>1. Subtypes[1] = "natural_photo"
      BY SubtypesType
  <2>2. \A s : Score(im, s) \in Nat
      BY ScoreType
  <2>3. Score(im, "natural_photo") >= 2000
      BY ScoreType
  <2>4. 1 \in 1 .. N
      BY <1>1
  <2> HIDE DEF N
  <2> QED
      BY <1>1, <2>1, <2>2, <2>3, <2>4 DEF Scores
<1>3. g = CHOOSE h : IsSumOf(N, f, h)
    BY DEF ScoreSums
<1>4. Shares(im) = [i \in DOMAIN f |-> (Whole * f[i]) \div g[N]]
    BY DEF Shares
<1> HIDE DEF N, f, g
<1>5. \E h \in [0 .. N -> Nat] : IsSumOf(N, f, h)
  <2>1. N \in Nat /\ f \in [1 .. N -> Nat]
      BY <1>1, <1>2
  <2> QED
      BY <2>1, SumsExist, Zenon
<1>6. IsSumOf(N, f, g)
    BY <1>3, <1>5
<1>7. N \in 0 .. N /\ N \in 1 .. N
    BY <1>1
<1>8. g[N] \in Nat
    BY <1>1, <1>2, <1>6, <1>7, SumsAddUp
<1>9. g[N] >= f[1]
    BY <1>1, <1>2, <1>6, <1>7, SumsHaveTheFirst
<1>10. f[1] \in Nat /\ DOMAIN f = 1 .. N /\ \A i \in 1 .. N : f[i] \in Nat
    BY <1>1, <1>2
<1>11. g[N] \in Nat \ {0}
    BY <1>2, <1>8, <1>9, <1>10
<1>12. \A n \in Nat, d \in Nat \ {0} : (Whole * n) \div d \in Int
    BY DEF Whole
<1>13. \A i \in 1 .. N : (Whole * f[i]) \div g[N] \in Int
    BY <1>10, <1>11, <1>12
<1>14. Shares(im) \in [1 .. N -> Int]
    BY <1>4, <1>10, <1>13
<1> QED
    BY <1>14 DEF N

\* Every place of the distribution is that of a subtype.
LEMMA NthType ==
    ASSUME NEW im \in Measures, NEW n \in 1 .. Len(Subtypes)
    PROVE  Nth(Shares(im), n) \in 1 .. Len(Subtypes)
<1> DEFINE N == Len(Subtypes)
           S == 1 .. N
           w == Shares(im)
<1>1. N \in Nat \ {0}
    BY SubtypesType
<1> HIDE DEF N
<1>2. S \in SUBSET Nat /\ IsFiniteSet(S) /\ Cardinality(S) = N
    BY <1>1, FS_Interval
<1>3. DOMAIN w = S /\ w \in [S -> Int]
    BY SharesType DEF N
<1>4. n - 1 \in 0 .. N - 1
    BY <1>1 DEF N
<1> HIDE DEF S, w
<1>5. \E i \in S : Place(S, w, i) = n - 1
    BY <1>2, <1>3, <1>4, PlacesAreTaken
<1>6. Nth(w, n) \in S
    BY <1>3, <1>5 DEF Nth
<1> QED
    BY <1>6 DEF S, w, N

\* A distribution names subtypes only, the first of which there is.
LEMMA DistributionType ==
    ASSUME NEW im \in Measures
    PROVE  Distribution(im) \in Seq(Subtype) /\ Distribution(im)[1].name \in Names
<1> DEFINE N == Len(Subtypes)
           w == Shares(im)
<1>1. N \in Nat \ {0} /\ DOMAIN Subtypes = 1 .. N /\ \A i \in 1 .. N : Subtypes[i] \in Names
    BY SubtypesType
<1>2. w \in [1 .. N -> Int]
    BY SharesType
<1>3. Distribution(im) = [n \in 1 .. N |-> [name |-> Subtypes[Nth(w, n)], share |-> w[Nth(w, n)]]]
    BY <1>1, DistributionIsSorted
<1> HIDE DEF N, w
<1>4. \A n \in 1 .. N : Nth(w, n) \in 1 .. N
    BY NthType DEF N, w
<1>5. \A n \in 1 .. N : [name |-> Subtypes[Nth(w, n)], share |-> w[Nth(w, n)]] \in Subtype
    BY <1>1, <1>2, <1>4 DEF Subtype
<1>6. Distribution(im) \in [1 .. N -> Subtype]
    BY <1>3, <1>5
<1>7. 1 \in 1 .. N
    BY <1>1
<1> QED
    BY <1>1, <1>4, <1>3, <1>6, <1>7

Kinds == {"natural_photo", "meme", "document", "receipt", "chat_screenshot", "screenshot",
          "code_screenshot", "unknown"}

\* What one look at an image finds.
LEMMA ViewType ==
    ASSUME NEW im \in Measures
    PROVE  View(im).kind \in Kinds /\ View(im).subtypes \in Seq(Subtype)
<1>1. Distribution(im)[1].name \in
          {"natural_photo", "photo_with_text", "meme", "poster", "document", "form", "receipt",
           "invoice", "chat_screenshot", "web_screenshot", "ai_assistant_screenshot",
           "code_screenshot", "game_screenshot", "unknown"}
    BY DistributionType, SubtypesType
<1>2. Kind(Distribution(im)) \in Kinds
    BY <1>1 DEF Kind, Kinds
<1>3. /\ View(im).kind = Kind(Distribution(im))
      /\ View(im).subtypes = Distribution(im)
    BY DEF View
<1> QED
    BY <1>2, <1>3, DistributionType

-----------------------------------------------------------------------------
(* Where an image is sent.                                                 *)

\* The sums of fourteen numbers, and what the first five and all add up to.
LEMMA FourteenAddUp ==
    ASSUME NEW f \in [1 .. 14 -> Nat], NEW g, IsSumOf(14, f, g)
    PROVE  /\ g[5] \in Nat /\ g[14] \in Nat
           /\ g[5] = f[1] + f[2] + f[3] + f[4] + f[5]
           /\ g[14] = g[5] + f[6] + f[7] + f[8] + f[9] + f[10] + f[11] + f[12] + f[13] + f[14]
<1> DEFINE N == 14
<1>1. N \in Nat /\ f \in [1 .. N -> Nat] /\ IsSumOf(N, f, g)
    OBVIOUS
<1> HIDE DEF N
<1>2. /\ \A n \in 0 .. N : g[n] \in Nat
      /\ g[0] = 0 /\ \A n \in 1 .. N : g[n] = g[n - 1] + f[n]
    BY <1>1, SumsAddUp
<1>3. \A n \in 1 .. N : f[n] \in Nat
    BY <1>1
<1>4. /\ g[1] = g[0] + f[1] /\ g[2] = g[1] + f[2] /\ g[3] = g[2] + f[3]
      /\ g[4] = g[3] + f[4] /\ g[5] = g[4] + f[5] /\ g[6] = g[5] + f[6]
      /\ g[7] = g[6] + f[7] /\ g[8] = g[7] + f[8] /\ g[9] = g[8] + f[9]
      /\ g[10] = g[9] + f[10] /\ g[11] = g[10] + f[11] /\ g[12] = g[11] + f[12]
      /\ g[13] = g[12] + f[13] /\ g[14] = g[13] + f[14]
    BY <1>2 DEF N
<1>5. /\ f[1] \in Nat /\ f[2] \in Nat /\ f[3] \in Nat /\ f[4] \in Nat /\ f[5] \in Nat
      /\ f[6] \in Nat /\ f[7] \in Nat /\ f[8] \in Nat /\ f[9] \in Nat /\ f[10] \in Nat
      /\ f[11] \in Nat /\ f[12] \in Nat /\ f[13] \in Nat /\ f[14] \in Nat
    BY <1>3 DEF N
<1>6. g[5] \in Nat /\ g[14] \in Nat
    BY <1>2 DEF N
<1>7. g[5] = f[1] + f[2] + f[3] + f[4] + f[5]
    BY <1>2, <1>4, <1>5
<1>8. g[14] = g[5] + f[6] + f[7] + f[8] + f[9] + f[10] + f[11] + f[12] + f[13] + f[14]
    BY <1>4, <1>5, <1>6
<1> QED
    BY <1>6, <1>7, <1>8

\* No subtype has half of the scores.
LEMMA NoHalf ==
    ASSUME NEW im \in Measures
    PROVE  /\ ScoreSums(im)[14] \in Nat
           /\ \A i \in 1 .. 14 : 2 * Scores(im)[i] < ScoreSums(im)[14]
<1> DEFINE t == Texture(im)
           l == TextLikelihood(im)
           f == Scores(im)
           g == ScoreSums(im)
<1>1. f \in [1 .. 14 -> Nat]
  <2>1. DOMAIN Subtypes = 1 .. 14
      BY DEF Subtypes
  <2>2. \A s : Score(im, s) \in Nat
      BY ScoreType
  <2> QED
      BY <2>1, <2>2 DEF Scores
<1>2. IsSumOf(14, f, g)
  <2>1. g = CHOOSE h : IsSumOf(14, f, h)
      BY DEF ScoreSums, Subtypes
  <2>2. \E h \in [0 .. 14 -> Nat] : IsSumOf(14, f, h)
      BY <1>1, SumsExist, Zenon
  <2> HIDE DEF f, g
  <2> QED
      BY <2>1, <2>2
<1>3. /\ f[1] = Score(im, "natural_photo") /\ f[2] = Score(im, "photo_with_text")
      /\ f[3] = Score(im, "meme") /\ f[4] = Score(im, "poster")
      /\ f[5] = Score(im, "document") /\ f[6] = Score(im, "form")
      /\ f[7] = Score(im, "receipt") /\ f[8] = Score(im, "invoice")
      /\ f[9] = Score(im, "chat_screenshot") /\ f[10] = Score(im, "web_screenshot")
      /\ f[11] = Score(im, "ai_assistant_screenshot") /\ f[12] = Score(im, "code_screenshot")
      /\ f[13] = Score(im, "game_screenshot") /\ f[14] = Score(im, "unknown")
    BY DEF Scores, Subtypes
<1>4. /\ t \in Nat /\ l \in Nat /\ t <= 10000 /\ l <= 10000 /\ t <= 4 * l + 4
      /\ MemeLike(im) => l >= 2600 /\ t >= 600
    BY LooksAre
<1>5. /\ 10 * f[1] >= 20000 + 9 * t - 9
      /\ 100 * f[2] >= 100000 + 45 * t + 55 * l - 99
      /\ f[3] >= 1200 /\ 4 * f[4] >= 4000 + l - 3 /\ f[5] >= 800 /\ f[6] >= 400
      /\ f[7] >= 400 /\ f[8] >= 300 /\ f[9] >= 400 /\ f[10] >= 400 /\ f[11] >= 300
      /\ f[12] >= 400 /\ f[13] >= 300 /\ f[14] = 800
    BY <1>3, ScoreBounds
<1>6. /\ 10 * f[1] <= 38000 + 9 * t
      /\ 100 * f[2] <= 100000 + 45 * t + 55 * l
      /\ f[3] <= 11500 /\ (f[3] > 3000 => MemeLike(im)) /\ (f[3] > 9700 => l > 4500)
      /\ 4 * f[4] <= 16800 + l
      /\ f[5] <= 10500 /\ (f[5] > 8000 => l > 4500)
      /\ f[6] <= 4600 /\ f[7] <= 8200 /\ f[8] <= 3700 /\ f[9] <= 9000 /\ f[10] <= 4200
      /\ f[11] <= 2500 /\ f[12] <= 8400 /\ f[13] <= 3100
    BY <1>3, ScoreBounds
<1> HIDE DEF t, l, f, g
<1>7. /\ g[5] \in Nat /\ g[14] \in Nat
      /\ g[5] = f[1] + f[2] + f[3] + f[4] + f[5]
      /\ g[14] = g[5] + f[6] + f[7] + f[8] + f[9] + f[10] + f[11] + f[12] + f[13] + f[14]
    BY <1>1, <1>2, FourteenAddUp
<1>8. /\ f[1] \in Nat /\ f[2] \in Nat /\ f[3] \in Nat /\ f[4] \in Nat /\ f[5] \in Nat
      /\ f[6] \in Nat /\ f[7] \in Nat /\ f[8] \in Nat /\ f[9] \in Nat /\ f[10] \in Nat
      /\ f[11] \in Nat /\ f[12] \in Nat /\ f[13] \in Nat /\ f[14] \in Nat
    BY <1>1
<1> DEFINE r == g[14]
<1>9. r \in Nat /\ r >= g[5] + 3700
    BY <1>5, <1>7, <1>8
<1>10. f[1] >= 1999 /\ f[2] >= 999 /\ f[3] >= 1200 /\ f[4] >= 999 /\ f[5] >= 800
    BY <1>4, <1>5, <1>8
<1>11. r >= f[1] + f[2] + f[3] + f[4] + f[5] + 3700
    BY <1>7, <1>8, <1>9
<1>12. \A i \in 6 .. 13 : r >= f[i] + 9100
  <2> DEFINE q == g[5]
  <2>0. q >= 5997 /\ q \in Nat
      BY <1>5, <1>7, <1>8, <1>10
  <2>1. r = q + f[6] + f[7] + f[8] + f[9] + f[10] + f[11] + f[12] + f[13] + f[14]
      BY <1>7
  <2> HIDE DEF q, r
  <2>2. r >= f[6] + 9100 /\ r >= f[7] + 9100
      BY <1>5, <1>8, <2>0, <2>1
  <2>3. r >= f[8] + 9100 /\ r >= f[9] + 9100
      BY <1>5, <1>8, <2>0, <2>1
  <2>4. r >= f[10] + 9100 /\ r >= f[11] + 9100
      BY <1>5, <1>8, <2>0, <2>1
  <2>5. r >= f[12] + 9100 /\ r >= f[13] + 9100
      BY <1>5, <1>8, <2>0, <2>1
  <2>6. \A i \in 6 .. 13 : \/ i = 6 \/ i = 7 \/ i = 8 \/ i = 9 \/ i = 10 \/ i = 11
                           \/ i = 12 \/ i = 13
      OBVIOUS
  <2> QED
      BY <2>2, <2>3, <2>4, <2>5, <2>6
<1> HIDE DEF r
<1>13. 2 * f[1] < r /\ 2 * f[2] < r
    BY <1>4, <1>5, <1>6, <1>8, <1>9, <1>11
<1>14. 2 * f[3] < r
  <2>1. CASE f[3] <= 3000
      BY <1>8, <1>9, <1>10, <1>11, <2>1
  <2>2. CASE f[3] > 3000 /\ l <= 4500
    <3>1. l >= 2600 /\ t >= 600
      <4>1. f[3] > 3000 => MemeLike(im)
          BY <1>6
      <4>2. MemeLike(im)
          BY <2>2, <4>1
      <4> QED
          BY <1>4, <4>2
    <3>2. f[3] <= 9700
        BY <1>4, <1>6, <1>8, <2>2
    <3> QED
        BY <1>4, <1>5, <1>8, <1>9, <1>11, <3>1, <3>2
  <2>3. CASE f[3] > 3000 /\ l > 4500
    <3>1. t >= 600 /\ f[3] <= 11500
        BY <1>4, <1>6, <2>3
    <3> QED
        BY <1>4, <1>5, <1>8, <1>9, <1>11, <2>3, <3>1
  <2> QED
      BY <1>4, <1>8, <2>1, <2>2, <2>3
<1>15. 2 * f[4] < r
  <2>1. f[4] <= 6700
      BY <1>4, <1>6, <1>8
  <2> QED
      BY <1>8, <1>9, <1>10, <1>11, <2>1
<1>16. 2 * f[5] < r
  <2>1. CASE f[5] <= 8000
      BY <1>8, <1>9, <1>10, <1>11, <2>1
  <2>2. CASE f[5] > 8000
    <3>1. l > 4500 /\ f[5] <= 10500
        BY <1>6, <2>2
    <3> QED
        BY <1>4, <1>5, <1>8, <1>9, <1>11, <3>1
  <2> QED
      BY <1>8, <2>1, <2>2
<1>17. \A i \in 6 .. 13 : f[i] <= 9000
  <2>1. \A i \in 6 .. 13 : \/ i = 6 \/ i = 7 \/ i = 8 \/ i = 9 \/ i = 10 \/ i = 11
                           \/ i = 12 \/ i = 13
      OBVIOUS
  <2> QED
      BY <1>6, <1>8, <2>1
<1>18. 2 * f[14] < r
    BY <1>5, <1>8, <1>9, <1>11
<1>19. \A i \in 1 .. 14 : 2 * f[i] < r
  <2>1. \A i \in 1 .. 14 : i = 1 \/ i = 2 \/ i = 3 \/ i = 4 \/ i = 5 \/ i = 14 \/ i \in 6 .. 13
      OBVIOUS
  <2>2. \A i \in 6 .. 13 : 2 * f[i] < r
    <3>1. \A i \in 6 .. 13 : f[i] \in Nat
        BY <1>1
    <3> QED
        BY <1>9, <1>12, <1>17, <3>1
  <2> QED
      BY <1>13, <1>14, <1>15, <1>16, <1>18, <2>1, <2>2
<1> QED
    BY <1>9, <1>19 DEF f, g, r

\* So no share is a half, and every image goes the generic route.
LEMMA RouteIsGeneric ==
    ASSUME NEW im \in Measures
    PROVE  LET subtypes == View(im).subtypes IN
           /\ View(im).route = "generic"
           /\ \A i \in DOMAIN subtypes : subtypes[i].share < 5000
<1> DEFINE f == Scores(im)
           g == ScoreSums(im)
           w == Shares(im)
<1>1. f \in [1 .. 14 -> Nat] /\ DOMAIN Subtypes = 1 .. 14 /\ Len(Subtypes) = 14
  <2>1. DOMAIN Subtypes = 1 .. 14 /\ Len(Subtypes) = 14
      BY DEF Subtypes
  <2>2. \A s : Score(im, s) \in Nat
      BY ScoreType
  <2> QED
      BY <2>1, <2>2 DEF Scores
<1>2. w = [i \in 1 .. 14 |-> (10000 * f[i]) \div g[14]]
    BY <1>1 DEF Shares, Whole
<1>3. \A i \in 1 .. 14 : 2 * f[i] < g[14] /\ f[i] \in Nat
    BY <1>1, NoHalf
<1>4. g[14] \in Nat
    BY NoHalf
<1> HIDE DEF f, g
<1>5. \A i \in 1 .. 14 : w[i] < 5000 /\ w[i] \in Int
  <2>1. \A m, n \in Nat : 2 * m < n => (10000 * m) \div n < 5000 /\ (10000 * m) \div n \in Int
    <3> TAKE m, n \in Nat
    <3> HAVE 2 * m < n
    <3> DEFINE q == (10000 * m) \div n
    <3>1. n \in Nat \ {0}
        OBVIOUS
    <3>2. q \in Int /\ n * q <= 10000 * m
        BY <3>1
    <3> HIDE DEF q
    <3>3. q >= 5000 => n * q >= n * 5000
      <4>1. \A x, y, z \in Nat : y <= z => x * y <= x * z
          OBVIOUS
      <4> QED
          BY <3>1, <3>2, <4>1
    <3>4. q < 5000
        BY <3>1, <3>2, <3>3
    <3> QED
        BY <3>2, <3>4 DEF q
  <2>2. \A i \in 1 .. 14 : w[i] = (10000 * f[i]) \div g[14]
      BY <1>2
  <2> HIDE DEF w
  <2> TAKE i \in 1 .. 14
  <2> DEFINE m == f[i]
             n == g[14]
  <2>3. m \in Nat /\ n \in Nat /\ 2 * m < n /\ w[i] = (10000 * m) \div n
      BY <1>3, <1>4, <2>2
  <2> HIDE DEF m, n
  <2> QED
      BY <2>1, <2>3
<1>6. \A n \in 1 .. 14 : Nth(w, n) \in 1 .. 14
    BY <1>1, NthType
<1>7. Distribution(im) = [n \in 1 .. 14 |-> [name |-> Subtypes[Nth(w, n)], share |-> w[Nth(w, n)]]]
    BY <1>1, DistributionIsSorted
<1> HIDE DEF w
<1>8. /\ DOMAIN Distribution(im) = 1 .. 14
      /\ \A n \in 1 .. 14 : Distribution(im)[n].share < 5000 /\ Distribution(im)[n].share \in Int
  <2> DEFINE S == 1 .. 14
             at(n) == Nth(w, n)
  <2>1. DOMAIN Distribution(im) = S
      BY <1>7
  <2>2. \A n \in S : Distribution(im)[n] = [name |-> Subtypes[at(n)], share |-> w[at(n)]]
      BY <1>7
  <2>3. \A n \in S : w[at(n)] < 5000 /\ w[at(n)] \in Int
      BY <1>5, <1>6
  <2> HIDE DEF S, at
  <2>4. ASSUME NEW n \in S PROVE Distribution(im)[n].share = w[at(n)]
    <3> DEFINE r == Distribution(im)[n]
               name == Subtypes[at(n)]
               share == w[at(n)]
    <3>1. r = [name |-> name, share |-> share]
        BY <2>2
    <3> HIDE DEF r, name, share
    <3>2. r.share = share
        BY <3>1
    <3> QED
        BY <3>2 DEF r, share
  <2> QED
      BY <2>1, <2>3, <2>4 DEF S
<1>9. View(im).subtypes = Distribution(im) /\ View(im).route = Route(Distribution(im))
    BY DEF View
<1> QED
  <2>1. Distribution(im)[1].share < 5000 /\ Distribution(im)[1].share \in Int
      BY <1>8
  <2>2. Route(Distribution(im)) = "generic"
      BY <2>1 DEF Route
  <2> QED
      BY <1>8, <1>9, <2>2

-----------------------------------------------------------------------------
(* Lists of candidates.                                                    *)

Named(value) == \E p \in Phrases : p[1] = value
Meaning(value) == (CHOOSE p \in Phrases : p[1] = value)[2]

\* A value is an alias, a longer name or already normal.
LEMMA NormalizeIs ==
    ASSUME NEW value
    PROVE  /\ value \in DOMAIN Aliases => Normalize(value) = Aliases[value]
           /\ value \notin DOMAIN Aliases /\ Named(value) => Normalize(value) = Meaning(value)
           /\ value \notin DOMAIN Aliases /\ ~Named(value) => Normalize(value) = value
BY DEF Normalize, Named, Meaning

Meanings ==
    {"people", "screen", "sofa", "phone", "table", "bus stop", "electronic display", "document",
     "text", "natural photo", "photo with text", "web screenshot", "chat screenshot",
     "code screenshot", "game screenshot", "ai assistant screenshot"}

LongNames ==
    {"cell phone", "mobile phone", "dining table", "bus-stop", "electronic-display",
     "printed object", "printed text", "natural_photo", "photo_with_text", "web_screenshot",
     "chat_screenshot", "code_screenshot", "game_screenshot", "ai_assistant_screenshot"}

\* The longer names and what they become.
LEMMA PhrasesAre ==
    ASSUME NEW p \in Phrases
    PROVE  /\ p[1] \in LongNames /\ p[2] \in Meanings
           /\ p[2] \in TransportTags => p[1] = "bus-stop"
<1>1. PICK a, b : p = <<a, b>>
    BY Zenon DEF Phrases
<1>2. <<a, b>> \in Phrases /\ p[1] = a /\ p[2] = b
    BY <1>1
<1>3. a \in LongNames /\ b \in Meanings
    BY <1>2 DEF Phrases, LongNames, Meanings
<1>4. b \in TransportTags => a = "bus-stop"
    BY <1>2 DEF Phrases, TransportTags
<1> QED
    BY <1>2, <1>3, <1>4

\* What an alias or a longer name becomes is neither.
LEMMA MeaningsAre ==
    /\ \A value \in DOMAIN Aliases : Aliases[value] \in {"people", "screen", "sofa"}
    /\ \A value : Named(value) => Meaning(value) \in Meanings
    /\ \A value \in Meanings : value \notin DOMAIN Aliases /\ ~Named(value)
<1>1. DOMAIN Aliases = {"person", "human", "tv", "couch"}
    BY DEF Aliases
<1>2. \A value \in {"person", "human", "tv", "couch"} :
          Aliases[value] \in {"people", "screen", "sofa"}
    BY DEF Aliases
<1>3. ASSUME NEW value, Named(value) PROVE Meaning(value) \in Meanings
  <2>1. (CHOOSE p \in Phrases : p[1] = value) \in Phrases
      BY <1>3 DEF Named
  <2> QED
      BY <2>1, PhrasesAre DEF Meaning
<1>4. \A value \in LongNames : value \notin Meanings
    BY DEF LongNames, Meanings
<1>5. \A value \in Meanings : value \notin {"person", "human", "tv", "couch"}
    BY DEF Meanings
<1>6. \A value \in Meanings : ~Named(value)
    BY <1>4, PhrasesAre DEF Named
<1> QED
    BY <1>1, <1>2, <1>3, <1>5, <1>6

\* A normalised value is normal.
LEMMA NormalizeTwice ==
    ASSUME NEW value
    PROVE  Normalize(Normalize(value)) = Normalize(value)
<1>a. \A v \in {"people", "screen", "sofa"} : v \in Meanings
    BY DEF Meanings
<1>1. Normalize(value) \in Meanings \/ (Normalize(value) = value /\ value \notin DOMAIN Aliases /\ ~Named(value))
    BY <1>a, NormalizeIs, MeaningsAre
<1>2. \A v \in Meanings : Normalize(v) = v
    BY NormalizeIs, MeaningsAre
<1> QED
    BY <1>1, <1>2

\* No kind of image is called image, and nothing else is normalised to image.
LEMMA KindIsNotImage ==
    /\ Normalize("image") = "image"
    /\ \A kind \in Kinds : Normalize(kind) # "image"
<1>1. "image" \notin DOMAIN Aliases
    BY DEF Aliases
<1>2. \A p \in Phrases : p[1] # "image"
    BY PhrasesAre DEF LongNames
<1>3. Normalize("image") = "image"
    BY <1>1, <1>2, NormalizeIs DEF Named
<1>4. "image" \notin Meanings \cup {"people", "screen", "sofa"}
    BY DEF Meanings
<1>5. \A value : Normalize(value) = "image" => value = "image"
    BY <1>4, NormalizeIs, MeaningsAre
<1> QED
    BY <1>3, <1>5 DEF Kinds

\* The tags of vehicles and what is normalised to one.
LEMMA TransportIsNamed ==
    ASSUME NEW value, Normalize(value) \in TransportTags
    PROVE  value \in {"transport", "vehicle", "bus stop", "bus-stop"}
<1>1. CASE value \in DOMAIN Aliases
  <2>1. Normalize(value) \in {"people", "screen", "sofa"}
      BY <1>1, NormalizeIs, MeaningsAre
  <2> QED
      BY <2>1 DEF TransportTags
<1>2. CASE value \notin DOMAIN Aliases /\ Named(value)
  <2>1. PICK p \in Phrases : p[1] = value /\ Normalize(value) = p[2]
      BY <1>2, NormalizeIs DEF Named, Meaning
  <2> QED
      BY <2>1, PhrasesAre
<1>3. CASE value \notin DOMAIN Aliases /\ ~Named(value)
    BY <1>3, NormalizeIs DEF TransportTags
<1> QED
    BY <1>1, <1>2, <1>3

Fields == {"value", "confidence", "source", "priority", "validated"}

Entry(c) == DOMAIN c = Fields /\ c.confidence \in Int /\ c.priority \in Int

IsList(cs) ==
    /\ IsFiniteSet(DOMAIN cs) /\ DOMAIN cs \in SUBSET Nat
    /\ \A i \in DOMAIN cs : Entry(cs[i])

\* Candidates can be compared.
LEMMA RankType ==
    ASSUME NEW c, Entry(c)
    PROVE  Rank(c) \in Int
<1>1. SourcePriority(c.source) \in Int
    BY DEF SourcePriority
<1>2. (IF Normalize(c.value) \in GenericTags THEN 1800 ELSE 0) \in Int
    OBVIOUS
<1> QED
    BY <1>1, <1>2 DEF Rank, Entry

\* The best of some candidates is one of them, and so is the first.
LEMMA BestIsMember ==
    ASSUME NEW cs, IsList(cs), NEW G \in SUBSET DOMAIN cs, G # {}
    PROVE  Best(cs, G) \in G
<1> DEFINE w == [i \in G |-> Rank(cs[i])]
<1>1. G \in SUBSET Nat /\ IsFiniteSet(G)
    BY FS_Subset DEF IsList
<1>2. w \in [G -> Int]
    BY RankType DEF IsList
<1>3. \A i, j \in G : Before(w, i, j) <=> Ahead(cs, i, j)
    BY DEF Before, Ahead
<1> HIDE DEF w
<1>4. \E i \in G : \A j \in G \ {i} : Before(w, i, j)
    BY <1>1, <1>2, FirstExists
<1>5. \E i \in G : \A j \in G \ {i} : Ahead(cs, i, j)
    BY <1>3, <1>4
<1> QED
    BY <1>5 DEF Best

\* The first position of a group is one of its positions.
LEMMA LeastIsMember ==
    ASSUME NEW G \in SUBSET Nat, G # {}
    PROVE  Least(G) \in G
BY LeastNumber DEF Least

\* The groups of a list: none is empty, and every candidate is in its own.
LEMMA GroupIs ==
    ASSUME NEW cs, IsList(cs)
    PROVE  /\ \A value : Group(cs, value) \in SUBSET DOMAIN cs
           /\ \A value \in Values(cs) : /\ Group(cs, value) # {}
                                        /\ Best(cs, Group(cs, value)) \in Group(cs, value)
                                        /\ Least(Group(cs, value)) \in Group(cs, value)
           /\ \A value, i : i \in Group(cs, value) => Normalize(cs[i].value) = value
           /\ \A i \in DOMAIN cs : /\ Normalize(cs[i].value) \in Values(cs)
                                   /\ i \in Group(cs, Normalize(cs[i].value))
<1>1. \A value : Group(cs, value) \in SUBSET DOMAIN cs
    BY DEF Group
<1>2. \A value \in Values(cs) : Group(cs, value) # {}
    BY DEF Group, Values
<1>3. DOMAIN cs \in SUBSET Nat
    BY DEF IsList
<1>4. \A value \in Values(cs) : Least(Group(cs, value)) \in Group(cs, value)
    BY <1>1, <1>2, <1>3, LeastIsMember
<1>5. \A value \in Values(cs) : Best(cs, Group(cs, value)) \in Group(cs, value)
    BY <1>1, <1>2, BestIsMember
<1>6. /\ \A value, i : i \in Group(cs, value) => Normalize(cs[i].value) = value
      /\ \A i \in DOMAIN cs : /\ Normalize(cs[i].value) \in Values(cs)
                              /\ i \in Group(cs, Normalize(cs[i].value))
    BY DEF Group, Values
<1> QED
    BY <1>1, <1>2, <1>4, <1>5, <1>6

-----------------------------------------------------------------------------
(* Deduplicating.                                                          *)

Heads(cs) == {Least(Group(cs, value)) : value \in Values(cs)}

\* Different values have different heads, and every value has one.
LEMMA HeadsAre ==
    ASSUME NEW cs, IsList(cs)
    PROVE  /\ Heads(cs) \in SUBSET DOMAIN cs /\ Heads(cs) \in SUBSET Nat
           /\ IsFiniteSet(Heads(cs))
           /\ \A h \in Heads(cs) : h = Least(Group(cs, Normalize(cs[h].value)))
           /\ \A value \in Values(cs) : \E h \in Heads(cs) : Normalize(cs[h].value) = value
<1>1. Heads(cs) \in SUBSET DOMAIN cs
    BY GroupIs DEF Heads
<1>2. IsFiniteSet(Heads(cs)) /\ Heads(cs) \in SUBSET Nat
    BY <1>1, FS_Subset DEF IsList
<1>3. \A value \in Values(cs) : Normalize(cs[Least(Group(cs, value))].value) = value
    BY GroupIs
<1>4. \A h \in Heads(cs) : \E value \in Values(cs) : h = Least(Group(cs, value))
    BY DEF Heads
<1>5. \A h \in Heads(cs) : h = Least(Group(cs, Normalize(cs[h].value)))
    BY <1>3, <1>4
<1>6. \A value \in Values(cs) : Least(Group(cs, value)) \in Heads(cs)
    BY DEF Heads
<1>7. \A value \in Values(cs) : \E h \in Heads(cs) : Normalize(cs[h].value) = value
    BY <1>3, <1>6
<1> QED
    BY <1>1, <1>2, <1>5, <1>7

\* What stands for all candidates of a value, in the place of the first.
Unique(cs, h) ==
    LET value == Normalize(cs[h].value) IN
    [cs[Best(cs, Group(cs, value))] EXCEPT !.value = value]
Uniques(cs) == [h \in Heads(cs) |-> Unique(cs, h)]

\* The one that stands for its value in a deduplicated list.
LEMMA UniqueIs ==
    ASSUME NEW cs, IsList(cs), NEW h \in DOMAIN cs
    PROVE  /\ Entry(Unique(cs, h)) /\ Unique(cs, h).value = Normalize(cs[h].value)
           /\ \E k \in DOMAIN cs :
                  /\ Unique(cs, h).value = Normalize(cs[k].value)
                  /\ Unique(cs, h).source = cs[k].source
                  /\ Unique(cs, h).validated = cs[k].validated
<1> DEFINE value == Normalize(cs[h].value)
           k == Best(cs, Group(cs, value))
<1>1. k \in DOMAIN cs /\ Normalize(cs[k].value) = value
    BY GroupIs
<1>2. Unique(cs, h) = [cs[k] EXCEPT !.value = value]
    BY DEF Unique
<1>3. Entry(cs[k])
    BY <1>1 DEF IsList
<1> HIDE DEF k, value
<1>4. /\ DOMAIN Unique(cs, h) = Fields /\ Unique(cs, h).value = value
      /\ Unique(cs, h).source = cs[k].source /\ Unique(cs, h).validated = cs[k].validated
      /\ Unique(cs, h).confidence = cs[k].confidence
      /\ Unique(cs, h).priority = cs[k].priority
    BY <1>2, <1>3 DEF Entry, Fields
<1>5. Entry(Unique(cs, h))
    BY <1>3, <1>4 DEF Entry
<1>6. value = Normalize(cs[h].value)
    BY DEF value
<1> QED
    BY <1>1, <1>4, <1>5, <1>6

\* Deduplicating takes the first of them by rank.
LEMMA DeduplicateIs ==
    ASSUME NEW cs, NEW n
    PROVE  LET u == Uniques(cs) IN
           Deduplicate(cs, n) =
               [i \in {j \in DOMAIN u : Cardinality({k \in DOMAIN u : Ahead(u, k, j)}) < n} |-> u[i]]
BY DEF Deduplicate, Uniques, Unique, Heads

\* What becomes of a list: at most n of its values, each once, all if they are
\* fewer than n, each with what was said by one of those who said it.
LEMMA DeduplicateGives ==
    ASSUME NEW cs, IsList(cs), NEW n \in Nat
    PROVE  LET d == Deduplicate(cs, n) IN
           /\ IsList(d)
           /\ \A i \in DOMAIN d : \E k \in DOMAIN cs :
                  /\ d[i].value = Normalize(cs[k].value) /\ d[i].source = cs[k].source
                  /\ d[i].validated = cs[k].validated
           /\ \A i, j \in DOMAIN d : d[i].value = d[j].value => i = j
           /\ Cardinality(DOMAIN d) <= n
           /\ \/ Cardinality(DOMAIN d) = n
              \/ \A value \in Values(cs) : \E i \in DOMAIN d : d[i].value = value
<1> DEFINE u == Uniques(cs)
           H == Heads(cs)
           w == [i \in H |-> Rank(u[i])]
           T == {i \in H : Place(H, w, i) < n}
           d == Deduplicate(cs, n)
<1>1. H \in SUBSET DOMAIN cs /\ H \in SUBSET Nat /\ IsFiniteSet(H) /\ DOMAIN u = H
    BY HeadsAre DEF Uniques
<1>2. \A i \in H : u[i] = Unique(cs, i)
    BY DEF Uniques
<1>3. d = [i \in {j \in H : Cardinality({k \in H : Ahead(u, k, j)}) < n} |-> u[i]]
    BY <1>1, DeduplicateIs
<1> HIDE DEF u, d
<1>4. \A i \in H : Entry(u[i]) /\ u[i].value = Normalize(cs[i].value)
    BY <1>1, <1>2, UniqueIs
<1>5. w \in [H -> Int]
    BY <1>4, RankType
<1>6. \A j, k \in H : Before(w, k, j) <=> Ahead(u, k, j)
    BY DEF Before, Ahead
<1> HIDE DEF w
<1>7. \A j \in H : {k \in H : Ahead(u, k, j)} = {k \in H : Before(w, k, j)}
    BY <1>6
<1>8. {j \in H : Cardinality({k \in H : Ahead(u, k, j)}) < n} = T
    BY <1>7 DEF Place
<1>9. d = [i \in T |-> u[i]]
    BY <1>3, <1>8
<1>10. IsFiniteSet(T) /\ (n <= Cardinality(H) => Cardinality(T) = n)
                      /\ (n > Cardinality(H) => T = H)
    BY <1>1, <1>5, FirstPlaces
<1>11. T \in SUBSET H
    OBVIOUS
<1> HIDE DEF T, H
<1>12. DOMAIN d = T /\ \A i \in T : d[i] = u[i]
    BY <1>9
<1>13. IsList(d)
  <2>1. T \in SUBSET Nat
      BY <1>1, <1>11
  <2>2. \A i \in T : Entry(d[i])
      BY <1>4, <1>11, <1>12
  <2> QED
      BY <1>10, <1>12, <2>1, <2>2 DEF IsList
<1>14. \A i \in DOMAIN d : \E k \in DOMAIN cs :
                  /\ d[i].value = Normalize(cs[k].value) /\ d[i].source = cs[k].source
                  /\ d[i].validated = cs[k].validated
    BY <1>1, <1>2, <1>11, <1>12, UniqueIs
<1>15. \A i, j \in DOMAIN d : d[i].value = d[j].value => i = j
  <2>1. \A h \in H : h = Least(Group(cs, Normalize(cs[h].value)))
      BY HeadsAre DEF H
  <2>2. \A i \in DOMAIN d : i \in H /\ d[i].value = Normalize(cs[i].value)
      BY <1>4, <1>11, <1>12
  <2> QED
      BY <2>1, <2>2
<1>16. Cardinality(H) \in Nat
    BY <1>1, FS_CardinalityType
<1>17. Cardinality(DOMAIN d) <= n
    BY <1>10, <1>12, <1>16
<1>18. ASSUME n > Cardinality(H), NEW value \in Values(cs)
       PROVE  \E i \in DOMAIN d : d[i].value = value
  <2>1. PICK h \in H : Normalize(cs[h].value) = value
      BY HeadsAre DEF H
  <2> QED
      BY <1>4, <1>10, <1>12, <1>18, <2>1
<1>19. n <= Cardinality(H) \/ n > Cardinality(H)
    BY <1>16
<1>20. \/ Cardinality(DOMAIN d) = n
       \/ \A value \in Values(cs) : \E i \in DOMAIN d : d[i].value = value
    BY <1>10, <1>12, <1>18, <1>19
<1> QED
    BY <1>13, <1>14, <1>15, <1>17, <1>20 DEF d

-----------------------------------------------------------------------------
(* Filling up.                                                             *)

\* The members of two sequences joined are the members of both.
LEMMA MembersJoined ==
    ASSUME NEW S, NEW s \in Seq(S), NEW t \in Seq(S)
    PROVE  s \o t \in Seq(S) /\ ToSet(s \o t) = ToSet(s) \cup ToSet(t)
<1>1. s \o t \in Seq(S)
    OBVIOUS
<1>2. /\ Len(s) \in Nat /\ Len(t) \in Nat /\ Len(s \o t) = Len(s) + Len(t)
      /\ DOMAIN s = 1 .. Len(s) /\ DOMAIN t = 1 .. Len(t) /\ DOMAIN (s \o t) = 1 .. Len(s) + Len(t)
    OBVIOUS
<1>3. \A i \in 1 .. Len(s) + Len(t) : (s \o t)[i] = IF i <= Len(s) THEN s[i] ELSE t[i - Len(s)]
    OBVIOUS
<1>4. \A i \in DOMAIN s : i \in DOMAIN (s \o t) /\ (s \o t)[i] = s[i]
    BY <1>2, <1>3
<1>5. \A i \in DOMAIN t : Len(s) + i \in DOMAIN (s \o t) /\ (s \o t)[Len(s) + i] = t[i]
    BY <1>2, <1>3
<1>6. \A i \in DOMAIN (s \o t) : \/ i \in DOMAIN s /\ (s \o t)[i] = s[i]
                                 \/ i - Len(s) \in DOMAIN t /\ (s \o t)[i] = t[i - Len(s)]
    BY <1>2, <1>3
<1> DEFINE r == s \o t
<1>7. r = s \o t
    OBVIOUS
<1> HIDE DEF r
<1>8. ToSet(r) \subseteq ToSet(s) \cup ToSet(t)
    BY <1>6, <1>7 DEF ToSet
<1>9. ToSet(s) \subseteq ToSet(r)
    BY <1>4, <1>7 DEF ToSet
<1>10. ToSet(t) \subseteq ToSet(r)
    BY <1>5, <1>7 DEF ToSet
<1> QED
    BY <1>1, <1>7, <1>8, <1>9, <1>10

\* A list that is extended holds what it held and what was added.
LEMMA ExtendIs ==
    ASSUME NEW cs, IsList(cs), NEW S, NEW more \in Seq(S), \A c \in S : Entry(c)
    PROVE  LET ext == Extend(cs, more) IN
           /\ IsList(ext)
           /\ \A i \in DOMAIN ext : \/ i \in DOMAIN cs /\ ext[i] = cs[i]
                                    \/ ext[i] \in ToSet(more)
           /\ \A i \in DOMAIN cs : i \in DOMAIN ext /\ ext[i] = cs[i]
           /\ \A c \in ToSet(more) : \E i \in DOMAIN ext : ext[i] = c
<1> DEFINE D == DOMAIN cs
           E == D \cup {0}
           last == CHOOSE n \in E : \A m \in E : m <= n
           ext == Extend(cs, more)
<1>1. IsFiniteSet(D) /\ D \in SUBSET Nat /\ \A i \in D : Entry(cs[i])
    BY DEF IsList
<1>2. last \in E /\ \A m \in E : m <= last
  <2> DEFINE w == [i \in E |-> i]
  <2>0. IsFiniteSet(D \cup {0})
    <3> HIDE DEF D
    <3> QED
        BY <1>1, FS_AddElement, Zenon
  <2>1. E \in SUBSET Nat /\ IsFiniteSet(E) /\ E # {}
      BY <1>1, <2>0
  <2>2. w \in [E -> Int]
      BY <2>1
  <2>3. PICK n \in E : \A m \in E \ {n} : Before(w, n, m)
      BY <2>1, <2>2, FirstExists
  <2>4. ASSUME NEW m \in E PROVE m <= n
    <3>1. n \in Nat /\ m \in Nat /\ w[n] = n /\ w[m] = m
        BY <2>1
    <3>2. m # n => w[n] > w[m] \/ (w[n] = w[m] /\ n < m)
        BY <2>3 DEF Before
    <3> QED
        BY <3>1, <3>2
  <2> QED
      BY <2>4
<1>3. ext = [i \in D \cup {last + n : n \in DOMAIN more} |->
                IF i \in D THEN cs[i] ELSE more[i - last]]
    BY DEF Extend
<1>4. Len(more) \in Nat /\ DOMAIN more = 1 .. Len(more) /\ \A n \in DOMAIN more : more[n] \in S
    OBVIOUS
<1>5. last \in Nat
    BY <1>1, <1>2
<1>6. \A m \in D : m <= last
    BY <1>2
<1> HIDE DEF D, E, last, ext
<1> DEFINE M == {last + n : n \in DOMAIN more}
<1>7. M \in SUBSET (0 .. last + Len(more))
    BY <1>4, <1>5
<1>8. IsFiniteSet(M) /\ M \in SUBSET Nat
  <2>1. last + Len(more) \in Int /\ 0 .. last + Len(more) \in SUBSET Nat
      BY <1>4, <1>5
  <2>2. IsFiniteSet(0 .. last + Len(more))
      BY <2>1, FS_Interval
  <2> HIDE DEF M
  <2> QED
      BY <1>7, <2>1, <2>2, FS_Subset
<1>9. \A i \in D : i \in DOMAIN ext /\ ext[i] = cs[i]
    BY <1>3
<1>10. \A n \in DOMAIN more : last + n \notin D /\ (last + n) - last = n
    BY <1>1, <1>4, <1>5, <1>6
<1>11. \A n \in DOMAIN more : last + n \in DOMAIN ext /\ ext[last + n] = more[n]
    BY <1>3, <1>10
<1>12. DOMAIN ext = D \cup M
    BY <1>3
<1>13. \A i \in DOMAIN ext : \/ i \in D /\ ext[i] = cs[i]
                             \/ \E n \in DOMAIN more : ext[i] = more[n]
    BY <1>9, <1>11, <1>12
<1>14. IsList(ext)
  <2>1. \A i \in DOMAIN ext : Entry(ext[i])
      BY <1>1, <1>4, <1>13
  <2>2. IsFiniteSet(DOMAIN ext)
    <3> HIDE DEF M
    <3>1. IsFiniteSet(D \cup M)
        BY <1>1, <1>8, FS_Union, Zenon
    <3> QED
        BY <1>12, <3>1
  <2>3. DOMAIN ext \in SUBSET Nat
      BY <1>1, <1>8, <1>12
  <2> QED
      BY <2>1, <2>2, <2>3 DEF IsList
<1> QED
    BY <1>9, <1>11, <1>13, <1>14 DEF D, ext, ToSet

Fallbacks(kind) ==
    {Candidate("text", 7800, "FALLBACK", 0), Candidate(kind, 7000, "FALLBACK", 0),
     Candidate("image", 6200, "FALLBACK", 0)}

\* A candidate is what it is made of.
LEMMA CandidateIs ==
    ASSUME NEW value, NEW confidence \in Int, NEW source, NEW priority \in Int
    PROVE  LET c == Candidate(value, confidence, source, priority) IN
           Entry(c) /\ c.value = value /\ c.source = source
BY DEF Candidate, Entry, Fields

\* An optional candidate is there if its condition holds.
LEMMA WhenIs ==
    ASSUME NEW S, NEW condition, NEW c \in S
    PROVE  /\ When(condition, <<c>>) \in Seq(S)
           /\ condition => ToSet(When(condition, <<c>>)) = {c}
<1>1. <<c>> \in Seq(S) /\ <<>> \in Seq(S)
    OBVIOUS
<1>2. ToSet(<<c>>) = {c}
    BY DEF ToSet
<1> QED
    BY <1>1, <1>2 DEF When

\* What is added to a short list: its kind and the word image, if they are missing.
LEMMA SupplementsAre ==
    ASSUME NEW d, NEW read, NEW kind
    PROVE  LET s == Supplements(d, read, kind) IN
           /\ s \in Seq(Fallbacks(kind))
           /\ kind \notin ValuesIn(d) => Candidate(kind, 7000, "FALLBACK", 0) \in ToSet(s)
           /\ "image" \notin ValuesIn(d) => Candidate("image", 6200, "FALLBACK", 0) \in ToSet(s)
<1> DEFINE S == Fallbacks(kind)
           ct == Candidate("text", 7800, "FALLBACK", 0)
           ck == Candidate(kind, 7000, "FALLBACK", 0)
           ci == Candidate("image", 6200, "FALLBACK", 0)
           t == When(HasText(read) /\ "text" \notin ValuesIn(d), <<ct>>)
           k == When(kind \notin ValuesIn(d), <<ck>>)
           i == When("image" \notin ValuesIn(d), <<ci>>)
<1>1. ct \in S /\ ck \in S /\ ci \in S
    BY DEF Fallbacks
<1>2. Supplements(d, read, kind) = t \o k \o i
    BY DEF Supplements
<1> HIDE DEF S, ct, ck, ci
<1>3. t \in Seq(S) /\ k \in Seq(S) /\ i \in Seq(S)
    BY <1>1, WhenIs
<1>4. /\ kind \notin ValuesIn(d) => ToSet(k) = {ck}
      /\ "image" \notin ValuesIn(d) => ToSet(i) = {ci}
    BY <1>1, WhenIs
<1> HIDE DEF t, k, i
<1>5. t \o k \in Seq(S) /\ ToSet(t \o k) = ToSet(t) \cup ToSet(k)
    BY <1>3, MembersJoined
<1>6. (t \o k) \o i \in Seq(S) /\ ToSet((t \o k) \o i) = ToSet(t \o k) \cup ToSet(i)
  <2> DEFINE tk == t \o k
  <2>1. tk \in Seq(S)
      BY <1>5
  <2> HIDE DEF tk
  <2>2. tk \o i \in Seq(S) /\ ToSet(tk \o i) = ToSet(tk) \cup ToSet(i)
      BY <1>3, <2>1, MembersJoined
  <2> QED
      BY <2>2 DEF tk
<1>7. /\ Supplements(d, read, kind) \in Seq(S)
      /\ ToSet(Supplements(d, read, kind)) = ToSet(t) \cup ToSet(k) \cup ToSet(i)
    BY <1>2, <1>5, <1>6
<1>8. /\ kind \notin ValuesIn(d) => ck \in ToSet(Supplements(d, read, kind))
      /\ "image" \notin ValuesIn(d) => ci \in ToSet(Supplements(d, read, kind))
    BY <1>4, <1>7
<1> QED
    BY <1>7, <1>8 DEF S, ck, ci

\* Two different members.
LEMMA TwoMembers ==
    ASSUME NEW S, IsFiniteSet(S), NEW a \in S, NEW b \in S, a # b
    PROVE  Cardinality(S) >= 2
<1>1. Cardinality(S) \in Nat /\ Cardinality(S) # 0
    BY FS_CardinalityType, FS_EmptySet
<1>2. Cardinality(S) # 1
    BY FS_Singleton
<1> QED
    BY <1>1, <1>2

\* What is wanted of the tags of an image, as a list.
EnoughIn(d, n) ==
    /\ IsList(d)
    /\ \A i, j \in DOMAIN d : d[i].value = d[j].value => i = j
    /\ Cardinality(DOMAIN d) <= n
    /\ Cardinality(DOMAIN d) >= AtMost(2, n)

\* i of d says what one of cs said.
StemsFrom(d, i, cs) ==
    \E k \in DOMAIN cs :
        /\ d[i].value = Normalize(cs[k].value) /\ d[i].source = cs[k].source
        /\ d[i].validated = cs[k].validated

\* A list that is filled up has at least two values, or as many as are asked for,
\* never more; what it did not get as a fallback it had before.
LEMMA EnsureMinimumGives ==
    ASSUME NEW cs, IsList(cs), NEW n \in Nat \ {0}, NEW read, NEW kind \in Kinds
    PROVE  LET e == EnsureMinimum(cs, n, read, kind) IN
           /\ EnoughIn(e, n)
           /\ \A i \in DOMAIN e : e[i].source = "FALLBACK" \/ StemsFrom(e, i, cs)
<1> DEFINE d == Deduplicate(cs, n)
           more == Supplements(d, read, kind)
           ext == Extend(cs, more)
           f == Deduplicate(ext, n)
<1>1. /\ IsList(d)
      /\ \A i \in DOMAIN d : StemsFrom(d, i, cs)
      /\ \A i, j \in DOMAIN d : d[i].value = d[j].value => i = j
      /\ Cardinality(DOMAIN d) <= n
    BY DeduplicateGives DEF StemsFrom
<1>2. EnsureMinimum(cs, n, read, kind)
          = IF Cardinality(DOMAIN d) >= AtMost(3, n) THEN d ELSE f
    BY DEF EnsureMinimum
<1>3. more \in Seq(Fallbacks(kind))
    BY SupplementsAre
<1>4. /\ kind \notin ValuesIn(d) => Candidate(kind, 7000, "FALLBACK", 0) \in ToSet(more)
      /\ "image" \notin ValuesIn(d) => Candidate("image", 6200, "FALLBACK", 0) \in ToSet(more)
    BY SupplementsAre
<1>5. \A c \in Fallbacks(kind) : Entry(c) /\ c.source = "FALLBACK"
    BY CandidateIs DEF Fallbacks
<1> HIDE DEF d
<1> HIDE DEF more
<1>6. /\ IsList(ext)
      /\ \A i \in DOMAIN ext : \/ i \in DOMAIN cs /\ ext[i] = cs[i]
                               \/ ext[i] \in ToSet(more)
      /\ \A i \in DOMAIN cs : i \in DOMAIN ext /\ ext[i] = cs[i]
      /\ \A c \in ToSet(more) : \E i \in DOMAIN ext : ext[i] = c
    BY <1>1, <1>3, <1>5, ExtendIs
<1> HIDE DEF ext
<1>7. /\ IsList(f)
      /\ \A i \in DOMAIN f : StemsFrom(f, i, ext)
      /\ \A i, j \in DOMAIN f : f[i].value = f[j].value => i = j
      /\ Cardinality(DOMAIN f) <= n
      /\ \/ Cardinality(DOMAIN f) = n
         \/ \A value \in Values(ext) : \E i \in DOMAIN f : f[i].value = value
    BY <1>6, DeduplicateGives DEF StemsFrom
<1> HIDE DEF f
<1>8. \A c \in ToSet(more) : c \in Fallbacks(kind)
    BY <1>3 DEF ToSet
<1>9. ASSUME NEW value,
             value \notin ValuesIn(d) => \E c \in ToSet(more) : c.value = value
      PROVE  Normalize(value) \in Values(ext)
  <2>1. CASE value \in ValuesIn(d)
    <3>1. PICK i \in DOMAIN d : d[i].value = value
        BY <2>1 DEF ValuesIn
    <3>2. PICK k \in DOMAIN cs : value = Normalize(cs[k].value)
        BY <1>1, <3>1 DEF StemsFrom
    <3>3. Normalize(value) = Normalize(ext[k].value) /\ k \in DOMAIN ext
        BY <1>6, <3>2, NormalizeTwice
    <3> QED
        BY <3>3 DEF Values
  <2>2. CASE value \notin ValuesIn(d)
    <3>1. PICK i \in DOMAIN ext : ext[i].value = value
        BY <1>6, <1>9, <2>2
    <3> QED
        BY <3>1 DEF Values
  <2> QED
      BY <2>1, <2>2
<1>10. Normalize(kind) \in Values(ext) /\ Normalize("image") \in Values(ext)
    BY <1>4, <1>9, CandidateIs
<1>11. Normalize(kind) # Normalize("image")
    BY KindIsNotImage
<1>12. Cardinality(DOMAIN f) >= AtMost(2, n)
  <2>1. CASE Cardinality(DOMAIN f) = n
      BY <2>1 DEF AtMost
  <2>2. CASE \A value \in Values(ext) : \E i \in DOMAIN f : f[i].value = value
    <3>1. PICK i \in DOMAIN f : f[i].value = Normalize(kind)
        BY <1>10, <2>2
    <3>2. PICK j \in DOMAIN f : f[j].value = Normalize("image")
        BY <1>10, <2>2
    <3>3. i # j /\ IsFiniteSet(DOMAIN f)
        BY <1>7, <1>11, <3>1, <3>2 DEF IsList
    <3>4. Cardinality(DOMAIN f) >= 2
        BY <3>3, TwoMembers
    <3>5. Cardinality(DOMAIN f) \in Nat
        BY <3>3, FS_CardinalityType
    <3> QED
        BY <3>4, <3>5 DEF AtMost
  <2> QED
      BY <1>7, <2>1, <2>2
<1>13. ASSUME NEW i \in DOMAIN f
       PROVE  f[i].source = "FALLBACK" \/ StemsFrom(f, i, cs)
  <2>1. PICK k \in DOMAIN ext :
            /\ f[i].value = Normalize(ext[k].value) /\ f[i].source = ext[k].source
            /\ f[i].validated = ext[k].validated
      BY <1>7 DEF StemsFrom
  <2>2. CASE ext[k] \in ToSet(more)
      BY <1>5, <1>8, <2>1, <2>2
  <2>3. CASE k \in DOMAIN cs /\ ext[k] = cs[k]
      BY <2>1, <2>3 DEF StemsFrom
  <2> QED
      BY <1>6, <2>2, <2>3
<1>14. CASE Cardinality(DOMAIN d) >= AtMost(3, n)
  <2>1. Cardinality(DOMAIN d) \in Nat
      BY <1>1, FS_CardinalityType DEF IsList
  <2>2. Cardinality(DOMAIN d) >= AtMost(2, n)
      BY <1>14, <2>1 DEF AtMost
  <2> QED
      BY <1>1, <1>2, <1>14, <2>2 DEF EnoughIn
<1>15. CASE ~(Cardinality(DOMAIN d) >= AtMost(3, n))
    BY <1>2, <1>7, <1>12, <1>13, <1>15 DEF EnoughIn
<1> QED
    BY <1>14, <1>15

-----------------------------------------------------------------------------
(* Merging.                                                                *)

\* How many say the same is a number.
LEMMA SourcesAreCounted ==
    ASSUME NEW cs, NEW G, IsFiniteSet(G)
    PROVE  Cardinality(SourcesOf(cs, G)) \in Nat
<1> DEFINE f == [i \in G |-> cs[i].source]
<1>1. f \in Surjection(G, SourcesOf(cs, G))
    BY DEF Surjection, SourcesOf
<1> HIDE DEF f
<1>2. IsFiniteSet(SourcesOf(cs, G))
    BY <1>1, FS_Surjection
<1> QED
    BY <1>2, FS_CardinalityType

\* What a merged group is.
LEMMA MergedIs ==
    ASSUME NEW cs, IsList(cs), NEW value \in Values(cs), NEW ev
    PROVE  LET m == Merged(cs, value, ev)
               G == Group(cs, value)
               b == Best(cs, G)
               count == Cardinality(SourcesOf(cs, G))
           IN  /\ Entry(m) /\ m.value = value
               /\ b \in G /\ m.source = cs[b].source
               /\ m.validated = Validated(value, cs[b].source, count, ev)
<1> DEFINE m == Merged(cs, value, ev)
           G == Group(cs, value)
           b == Best(cs, G)
           count == Cardinality(SourcesOf(cs, G))
           isHighest(n) == \A i \in G : cs[i].confidence <= n
           highest == CHOOSE n \in {cs[i].confidence : i \in G} : isHighest(n)
           confidence == IF count >= 2 THEN AtMost(9800, highest + Bonus(count))
                                       ELSE cs[b].confidence
           w == [i \in G |-> cs[i].confidence]
<1>1. G \in SUBSET DOMAIN cs /\ G # {} /\ b \in G
    BY GroupIs
<1>2. G \in SUBSET Nat /\ IsFiniteSet(G)
    BY <1>1, FS_Subset DEF IsList
<1>3. \A i \in G : cs[i].confidence \in Int /\ cs[i].priority \in Int
    BY <1>1 DEF IsList, Entry
<1>4. m = [value |-> value, confidence |-> confidence, source |-> cs[b].source,
           priority |-> cs[b].priority + Bonus(count),
           validated |-> Validated(value, cs[b].source, count, ev)]
    BY DEF Merged
<1>5. count \in Nat
    BY <1>2, SourcesAreCounted
<1> HIDE DEF m, G, b, count
<1>6. highest \in Int
  <2>1. w \in [G -> Int]
      BY <1>3
  <2>2. \A i \in G : w[i] = cs[i].confidence
      OBVIOUS
  <2> HIDE DEF w
  <2>3. PICK i \in G : \A j \in G \ {i} : Before(w, i, j)
      BY <1>1, <1>2, <2>1, FirstExists
  <2>4. ASSUME NEW j \in G PROVE cs[j].confidence <= cs[i].confidence
    <3>1. cs[j].confidence \in Int /\ cs[i].confidence \in Int
        BY <1>3
    <3>2. j # i => w[i] > w[j] \/ w[i] = w[j]
        BY <2>3 DEF Before
    <3> QED
        BY <2>2, <3>1, <3>2
  <2>5. isHighest(cs[i].confidence)
      BY <2>4
  <2> HIDE DEF isHighest
  <2>6. highest \in {cs[j].confidence : j \in G}
      BY <2>5
  <2> HIDE DEF highest
  <2> QED
      BY <1>3, <2>6
<1> HIDE DEF highest
<1>7. Bonus(count) \in Int
    BY <1>5 DEF Bonus, AtMost
<1>8. confidence \in Int /\ cs[b].priority + Bonus(count) \in Int
    BY <1>1, <1>3, <1>6, <1>7 DEF AtMost
<1> HIDE DEF confidence
<1>9. Entry(m)
    BY <1>4, <1>8 DEF Entry, Fields
<1>10. /\ m.value = value /\ m.source = cs[b].source
       /\ m.validated = Validated(value, cs[b].source, count, ev)
    BY <1>4
<1> QED
    BY <1>1, <1>9, <1>10 DEF m, G, b, count

\* v is backed by what the evidence holds and by how many say so.
IsBacked(e, cs, ev) ==
    LET G == Group(cs, e.value)
        count == Cardinality(SourcesOf(cs, G))
    IN  /\ \E k \in G : e.source = cs[k].source
        /\ Supported(e.value, e.source, count, ev)
        /\ e.validated = Validated(e.value, e.source, count, ev)
        /\ Normalize(e.value) = e.value

\* Merging keeps only what its sources, or the evidence, support.
LEMMA MergeGives ==
    ASSUME NEW cs, IsList(cs), NEW ev
    PROVE  /\ IsList(Merge(cs, ev))
           /\ \A i \in DOMAIN Merge(cs, ev) : IsBacked(Merge(cs, ev)[i], cs, ev)
<1> DEFINE kept == {value \in Values(cs) : IsSupported(cs, value, ev)}
           D == {Least(Group(cs, value)) : value \in kept}
           m == Merge(cs, ev)
<1>1. m = [i \in D |-> Merged(cs, Normalize(cs[i].value), ev)]
    BY DEF Merge
<1>2. \A i \in D : Normalize(cs[i].value) \in kept /\ i \in DOMAIN cs
    BY GroupIs
<1>3. DOMAIN m = D /\ \A i \in D : m[i] = Merged(cs, Normalize(cs[i].value), ev)
    BY <1>1
<1> HIDE DEF D, m
<1>4. \A i \in D : Entry(m[i])
    BY <1>2, <1>3, MergedIs
<1>5. IsList(m)
  <2>1. D \in SUBSET DOMAIN cs
      BY <1>2
  <2>2. IsFiniteSet(D) /\ D \in SUBSET Nat
      BY <2>1, FS_Subset DEF IsList
  <2> QED
      BY <1>3, <1>4, <2>2 DEF IsList
<1>6. ASSUME NEW i \in DOMAIN m
      PROVE  IsBacked(m[i], cs, ev)
  <2> DEFINE value == Normalize(cs[i].value)
             G == Group(cs, value)
             b == Best(cs, G)
             count == Cardinality(SourcesOf(cs, G))
  <2>1. value \in Values(cs) /\ IsSupported(cs, value, ev) /\ m[i] = Merged(cs, value, ev)
      BY <1>2, <1>3
  <2>2. Normalize(value) = value
      BY NormalizeTwice
  <2>3. Supported(value, cs[b].source, count, ev)
      BY <2>1 DEF IsSupported
  <2> HIDE DEF value
  <2>4. /\ m[i].value = value /\ b \in G /\ m[i].source = cs[b].source
        /\ m[i].validated = Validated(value, cs[b].source, count, ev)
      BY <2>1, MergedIs
  <2> QED
      BY <2>2, <2>3, <2>4 DEF IsBacked
<1> QED
    BY <1>5, <1>6 DEF m

\* A candidate as they are proposed, of one of the sources L: a caption names
\* no vehicle of its own.
Good(c, L) ==
    /\ Entry(c) /\ c.source \in L
    /\ c.source = "VLM" => Normalize(c.value) \notin TransportTags

Proper(s, L) == \E S : s \in Seq(S) /\ \A c \in S : Good(c, L)

\* What is not said by the caption is good.
LEMMA GoodCandidate ==
    ASSUME NEW value, NEW confidence \in Int, NEW source, NEW priority \in Int,
           source # "VLM", NEW L, source \in L
    PROVE  Good(Candidate(value, confidence, source, priority), L)
BY CandidateIs DEF Good

\* Short lists, and lists under a condition.
LEMMA ProperLists ==
    ASSUME NEW L
    PROVE
    /\ Proper(<<>>, L)
    /\ \A a : Good(a, L) => Proper(<<a>>, L)
    /\ \A a, b : Good(a, L) /\ Good(b, L) => Proper(<<a, b>>, L)
    /\ \A s, condition : Proper(s, L) => Proper(When(condition, s), L)
<1>1. Proper(<<>>, L)
  <2> DEFINE s == <<>>
             S == {}
  <2>1. s \in Seq(S) /\ \A c \in S : Good(c, L)
      OBVIOUS
  <2> HIDE DEF s, S
  <2>2. Proper(s, L)
      BY <2>1 DEF Proper
  <2> QED
      BY <2>2 DEF s
<1>2. ASSUME NEW a, Good(a, L) PROVE Proper(<<a>>, L)
  <2> DEFINE s == <<a>>
             S == {a}
  <2>1. s \in Seq(S) /\ \A c \in S : Good(c, L)
      BY <1>2
  <2> HIDE DEF s, S
  <2>2. Proper(s, L)
      BY <2>1 DEF Proper
  <2> QED
      BY <2>2 DEF s
<1>3. ASSUME NEW a, NEW b, Good(a, L), Good(b, L) PROVE Proper(<<a, b>>, L)
  <2> DEFINE s == <<a, b>>
             S == {a, b}
  <2>1. s \in Seq(S) /\ \A c \in S : Good(c, L)
      BY <1>3
  <2> HIDE DEF s, S
  <2>2. Proper(s, L)
      BY <2>1 DEF Proper
  <2> QED
      BY <2>2 DEF s
<1>4. \A s, condition : When(condition, s) = s \/ When(condition, s) = <<>>
    BY DEF When
<1>5. \A s, condition : Proper(s, L) => Proper(When(condition, s), L)
    BY <1>1, <1>4, Zenon
<1> QED
    BY <1>1, <1>2, <1>3, <1>5

\* One candidate, under a condition.
LEMMA ProperOne ==
    \A L, a, condition : Good(a, L) => Proper(<<a>>, L) /\ Proper(When(condition, <<a>>), L)
<1> SUFFICES ASSUME NEW L, NEW a, NEW condition, Good(a, L)
             PROVE  Proper(<<a>>, L) /\ Proper(When(condition, <<a>>), L)
    OBVIOUS
<1> DEFINE s == <<a>>
<1>1. Proper(s, L)
    BY ProperLists
<1> HIDE DEF s
<1>2. Proper(When(condition, s), L)
    BY <1>1, ProperLists
<1> QED
    BY <1>1, <1>2 DEF s

\* Two proper lists make one.
LEMMA ProperThen ==
    ASSUME NEW L, NEW s, NEW t, Proper(s, L), Proper(t, L)
    PROVE  Proper(s \o t, L)
<1>1. PICK S : s \in Seq(S) /\ \A c \in S : Good(c, L)
    BY DEF Proper
<1>2. PICK T : t \in Seq(T) /\ \A c \in T : Good(c, L)
    BY DEF Proper
<1> DEFINE U == S \cup T
<1>3. s \in Seq(U) /\ t \in Seq(U)
    BY <1>1, <1>2
<1>4. \A c \in U : Good(c, L)
    BY <1>1, <1>2
<1> HIDE DEF U
<1>5. s \o t \in Seq(U)
    BY <1>3
<1> QED
    BY <1>4, <1>5 DEF Proper

\* A list of good candidates is proper.
LEMMA ProperMap ==
    ASSUME NEW L, NEW n \in Nat, NEW f, f = [i \in 1 .. n |-> f[i]], \A i \in 1 .. n : Good(f[i], L)
    PROVE  Proper(f, L)
<1> DEFINE S == {f[i] : i \in 1 .. n}
<1>1. f \in [1 .. n -> S]
    OBVIOUS
<1>2. \A c \in S : Good(c, L)
    OBVIOUS
<1> HIDE DEF S
<1>3. f \in Seq(S)
    BY <1>1
<1> QED
    BY <1>2, <1>3 DEF Proper

\* Lists joined end to end.
LEMMA ProperFlatten ==
    ASSUME NEW L, NEW n \in Nat, NEW f, f = [i \in 1 .. n |-> f[i]], \A i \in 1 .. n : Proper(f[i], L)
    PROVE  Proper(FlattenSeq(f), L)
<1> DEFINE members(i) == {f[i][j] : j \in DOMAIN f[i]}
           S == UNION {members(i) : i \in 1 .. n}
<1>1. ASSUME NEW i \in 1 .. n
      PROVE  f[i] \in Seq(members(i)) /\ \A c \in members(i) : Good(c, L)
  <2>1. PICK T : f[i] \in Seq(T) /\ \A c \in T : Good(c, L)
      BY DEF Proper
  <2>2. f[i] \in [1 .. Len(f[i]) -> T] /\ Len(f[i]) \in Nat
      BY <2>1
  <2>3. \A c \in members(i) : Good(c, L)
      BY <2>1, <2>2
  <2>4. f[i] \in [1 .. Len(f[i]) -> members(i)]
      BY <2>2
  <2> HIDE DEF members
  <2>5. f[i] \in Seq(members(i))
      BY <2>2, <2>4
  <2> QED
      BY <2>3, <2>5
<1>2. \A c \in S : Good(c, L)
    BY <1>1
<1>3. \A i \in 1 .. n : members(i) \subseteq S
    OBVIOUS
<1> HIDE DEF members, S
<1>4. \A i \in 1 .. n : f[i] \in Seq(S)
    BY <1>1, <1>3
<1>5. f \in [1 .. n -> Seq(S)]
    BY <1>4
<1>6. f \in Seq(Seq(S))
    BY <1>5
<1>7. FlattenSeq(f) \in Seq(S)
    BY <1>6, FlattenType
<1> QED
    BY <1>2, <1>7 DEF Proper

\* A proper sequence is a list.
LEMMA ProperIsList ==
    ASSUME NEW L, NEW s, Proper(s, L)
    PROVE  IsList(s) /\ \A i \in DOMAIN s : Good(s[i], L)
<1>1. PICK S : s \in Seq(S) /\ \A c \in S : Good(c, L)
    BY DEF Proper
<1>2. Len(s) \in Nat /\ DOMAIN s = 1 .. Len(s) /\ \A i \in DOMAIN s : s[i] \in S
    BY <1>1
<1>3. \A i \in DOMAIN s : Good(s[i], L)
    BY <1>1, <1>2
<1>4. IsFiniteSet(1 .. Len(s)) /\ 1 .. Len(s) \in SUBSET Nat
    BY <1>2, FS_Interval
<1> QED
    BY <1>2, <1>3, <1>4 DEF IsList, Good

\* A list of some sources is one of more.
LEMMA ProperMore ==
    ASSUME NEW L, NEW M, L \subseteq M, NEW s, Proper(s, L)
    PROVE  Proper(s, M)
BY DEF Proper, Good

\* The sources of what the service itself says.
Own == {"FIXTURE", "SYSTEM", "OCR", "CONTEXT"}

\* One lemma for each source of candidates.
LEMMA SubtypeTagsProper ==
    ASSUME NEW kind, NEW subtypes \in Seq(Subtype)
    PROVE  Proper(SubtypeTags(kind, subtypes), Own)
<1> DEFINE n == AtMost(3, Len(subtypes))
           item(i) == LET s == subtypes[i] IN
               When(s.name # kind /\ s.share >= 1800, <<Candidate(s.name, s.share, "SYSTEM", 0)>>)
           f == [i \in 1 .. n |-> item(i)]
<1>1. n \in Nat /\ \A i \in 1 .. n : i \in 1 .. Len(subtypes)
  <2>1. Len(subtypes) \in Nat
      OBVIOUS
  <2> QED
      BY <2>1 DEF AtMost
<1>2. SubtypeTags(kind, subtypes) = FlattenSeq(f)
    BY DEF SubtypeTags
<1>3. ASSUME NEW i \in 1 .. n PROVE Proper(item(i), Own)
  <2>1. subtypes[i] \in Subtype
      BY <1>1
  <2>2. Good(Candidate(subtypes[i].name, subtypes[i].share, "SYSTEM", 0), Own)
      BY <2>1, GoodCandidate DEF Subtype, Own
  <2> QED
      BY <2>2, ProperOne
<1> HIDE DEF n, item
<1>4. f = [i \in 1 .. n |-> f[i]] /\ \A i \in 1 .. n : Proper(f[i], Own)
    BY <1>3
<1> HIDE DEF f
<1> QED
    BY <1>1, <1>2, <1>4, ProperFlatten

LEMMA KindTagsProper ==
    ASSUME NEW kind
    PROVE  Proper(KindTags(kind), Own)
<1> DEFINE code == "code screenshot"
           chat == "chat screenshot"
           t1 == When(kind = "natural_photo", <<Candidate("photo", 7000, "SYSTEM", 0)>>)
           t2 == When(kind = "receipt", <<Candidate("document", 7400, "SYSTEM", 0)>>)
           t3 == When(kind \in {"code_screenshot", "chat_screenshot"},
                      <<Candidate("screenshot", 7600, "SYSTEM", 0)>>)
           t4 == When(kind = "code_screenshot", <<Candidate(code, 8200, "SYSTEM", 0)>>)
           t5 == When(kind = "chat_screenshot", <<Candidate(chat, 8200, "SYSTEM", 0)>>)
<1>1. KindTags(kind) = t1 \o t2 \o t3 \o t4 \o t5
    BY DEF KindTags
<1> HIDE DEF code, chat
<1>2. /\ Good(Candidate("photo", 7000, "SYSTEM", 0), Own)
      /\ Good(Candidate("document", 7400, "SYSTEM", 0), Own)
      /\ Good(Candidate("screenshot", 7600, "SYSTEM", 0), Own)
    BY GoodCandidate DEF Own
<1>3. /\ Good(Candidate(code, 8200, "SYSTEM", 0), Own)
      /\ Good(Candidate(chat, 8200, "SYSTEM", 0), Own)
    BY GoodCandidate DEF Own
<1>4. Proper(t1, Own) /\ Proper(t2, Own) /\ Proper(t3, Own)
    BY <1>2, ProperOne
<1>5. Proper(t4, Own) /\ Proper(t5, Own)
    BY <1>3, ProperOne
<1> HIDE DEF t1, t2, t3, t4, t5
<1> QED
    BY <1>1, <1>4, <1>5, ProperThen

LEMMA TextTagsProper ==
    ASSUME NEW read
    PROVE  Proper(TextTags(read), Own)
<1> DEFINE cyrillic == "cyrillic text"
           latin == "latin text"
           code == "code screenshot"
           web == "web page"
           t1 == When(HasText(read), <<Candidate("text", 8400, "OCR", 500)>>)
           t2 == When(read.chars >= 30, <<Candidate("document", 7000, "OCR", 0)>>)
           t3 == When(read.cyrillic, <<Candidate(cyrillic, 8200, "OCR", 0)>>)
           t4 == When(read.latin, <<Candidate(latin, 7400, "OCR", 0)>>)
           t5 == When(read.code, <<Candidate(code, 8200, "OCR", 0)>>)
           t6 == When(read.url, <<Candidate(web, 7400, "OCR", 0)>>)
<1>1. TextTags(read) = t1 \o t2 \o t3 \o t4 \o t5 \o t6
    BY DEF TextTags
<1> HIDE DEF cyrillic, latin, code, web
<1>2. /\ Good(Candidate("text", 8400, "OCR", 500), Own)
      /\ Good(Candidate("document", 7000, "OCR", 0), Own)
    BY GoodCandidate DEF Own
<1>3. /\ Good(Candidate(cyrillic, 8200, "OCR", 0), Own)
      /\ Good(Candidate(latin, 7400, "OCR", 0), Own)
    BY GoodCandidate DEF Own
<1>4. /\ Good(Candidate(code, 8200, "OCR", 0), Own)
      /\ Good(Candidate(web, 7400, "OCR", 0), Own)
    BY GoodCandidate DEF Own
<1>5. Proper(t1, Own) /\ Proper(t2, Own)
    BY <1>2, ProperOne
<1>6. Proper(t3, Own) /\ Proper(t4, Own)
    BY <1>3, ProperOne
<1>7. Proper(t5, Own) /\ Proper(t6, Own)
    BY <1>4, ProperOne
<1> HIDE DEF t1, t2, t3, t4, t5, t6
<1> QED
    BY <1>1, <1>5, <1>6, <1>7, ProperThen

LEMMA SystemTagsProper ==
    ASSUME NEW kind, NEW read, NEW subtypes \in Seq(Subtype)
    PROVE  Proper(SystemTags(kind, read, subtypes), Own)
<1> DEFINE a == <<Candidate(kind, KindConfidence(subtypes), "SYSTEM", 200)>>
           b == SubtypeTags(kind, subtypes)
           c == KindTags(kind)
           d == TextTags(read)
<1>1. KindConfidence(subtypes) \in Int
  <2>1. subtypes # <<>> => subtypes[1] \in Subtype
      OBVIOUS
  <2> QED
      BY <2>1 DEF KindConfidence, Subtype
<1>2. Proper(a, Own)
  <2>1. Good(Candidate(kind, KindConfidence(subtypes), "SYSTEM", 200), Own)
      BY <1>1, GoodCandidate DEF Own
  <2> QED
      BY <2>1, ProperOne
<1>3. Proper(b, Own) /\ Proper(c, Own) /\ Proper(d, Own)
    BY SubtypeTagsProper, KindTagsProper, TextTagsProper
<1>4. SystemTags(kind, read, subtypes) = a \o b \o c \o d
    BY DEF SystemTags
<1> HIDE DEF a, b, c, d
<1> QED
    BY <1>2, <1>3, <1>4, ProperThen

LEMMA FixtureTagsProper ==
    ASSUME NEW known \in Seq(STRING \X Int)
    PROVE  Proper(FixtureTags(known), Own)
<1> DEFINE f == FixtureTags(known)
           n == Len(known)
<1>1. n \in Nat /\ DOMAIN known = 1 .. n /\ \A i \in 1 .. n : known[i][2] \in Int
    OBVIOUS
<1>2. f = [i \in 1 .. n |-> Candidate(known[i][1], known[i][2], "FIXTURE", 5000)]
    BY <1>1 DEF FixtureTags
<1> HIDE DEF f, n
<1>3. f = [i \in 1 .. n |-> f[i]] /\ \A i \in 1 .. n : Good(f[i], Own)
    BY <1>1, <1>2, GoodCandidate DEF Own
<1>4. Proper(f, Own)
    BY <1>1, <1>3, ProperMap
<1> QED
    BY <1>4 DEF f

Objects == [label: STRING, score: Int, count: Nat]

LEMMA DetectedTagsProper ==
    ASSUME NEW objects \in Seq(Objects)
    PROVE  Proper(DetectedTags(objects), {"YOLO"})
<1> DEFINE f == DetectedTags(objects)
           n == Len(objects)
<1>1. n \in Nat /\ DOMAIN objects = 1 .. n /\ \A i \in 1 .. n : objects[i].score \in Int
  <2>1. n \in Nat /\ DOMAIN objects = 1 .. n /\ \A i \in 1 .. n : objects[i] \in Objects
      OBVIOUS
  <2> QED
      BY <2>1 DEF Objects
<1>2. f = [i \in 1 .. n |-> Candidate(objects[i].label, objects[i].score, "YOLO", 400)]
    BY <1>1 DEF DetectedTags
<1> HIDE DEF f, n
<1>3. f = [i \in 1 .. n |-> f[i]] /\ \A i \in 1 .. n : Good(f[i], {"YOLO"})
    BY <1>1, <1>2, GoodCandidate DEF Own
<1>4. Proper(f, {"YOLO"})
    BY <1>1, <1>3, ProperMap
<1> QED
    BY <1>4 DEF f

TagMatch == [tag: STRING, positive: Int, margin: Int, confidence: Int]

LEMMA HintTagsProper ==
    ASSUME NEW d \in Objects
    PROVE  Proper(HintTags(d), Own)
<1> DEFINE hints == TagHints(d.label)
           f == HintTags(d)
<1>1. \E n \in Nat : DOMAIN hints = 1 .. n
  <2>1. \E n \in {0, 2, 3} : DOMAIN hints = 1 .. n
      BY DEF TagHints
  <2> QED
      BY <2>1
<1>2. \A i \in DOMAIN hints : hints[i][2] \in Int
    BY SMTT(30) DEF TagHints
<1>3. d.score \in Int
    BY DEF Objects
<1>4. f = [i \in DOMAIN hints |->
              Candidate(hints[i][1], AtMost(d.score, hints[i][2]), "CONTEXT", 0)]
    BY DEF HintTags
<1> HIDE DEF hints, f
<1>5. PICK n \in Nat : DOMAIN hints = 1 .. n
    BY <1>1
<1>6. \A i \in 1 .. n : AtMost(d.score, hints[i][2]) \in Int
    BY <1>2, <1>3, <1>5 DEF AtMost
<1>7. f = [i \in 1 .. n |-> f[i]] /\ \A i \in 1 .. n : Good(f[i], Own)
    BY <1>4, <1>5, <1>6, GoodCandidate DEF Own
<1>8. Proper(f, Own)
    BY <1>7, ProperMap
<1> QED
    BY <1>8 DEF f

LEMMA ContextTagsProper ==
    ASSUME NEW objects \in Seq(Objects), NEW read
    PROVE  Proper(ContextTags(objects, read), Own)
<1> DEFINE n == Len(objects)
           f == [i \in 1 .. n |-> HintTags(objects[i])]
           shows(labels) == Labels(objects) \cap labels # {}
           printed == "printed object"
           group == "group photo"
           t0 == FlattenSeq(f)
           t1 == When(shows(TransportLabels), <<Candidate("transport", 8100, "CONTEXT", 0)>>)
           t2 == When(shows(AnimalLabels), <<Candidate("animal", 8000, "CONTEXT", 0)>>)
           t3 == When(shows(FurnitureLabels), <<Candidate("interior", 7600, "CONTEXT", 0)>>)
           t4 == When(shows(ElectronicsLabels), <<Candidate("electronics", 7800, "CONTEXT", 0)>>)
           t5 == When(shows(DocumentLabels), <<Candidate(printed, 7300, "CONTEXT", 0)>>)
           t6 == When(PeopleIn(objects) >= 2, <<Candidate(group, 8000, "CONTEXT", 800)>>)
           t7 == When(PeopleIn(objects) = 1, <<Candidate("portrait", 7200, "CONTEXT", 0)>>)
           t8 == When(HasText(read), SystemTags("document", read, <<>>))
<1>1. n \in Nat /\ DOMAIN objects = 1 .. n /\ \A i \in 1 .. n : objects[i] \in Objects
    OBVIOUS
<1>2. ContextTags(objects, read) = t0 \o t1 \o t2 \o t3 \o t4 \o t5 \o t6 \o t7 \o t8
    BY <1>1 DEF ContextTags
<1> HIDE DEF printed, group
<1>3. Proper(t0, Own)
  <2> HIDE DEF n
  <2>1. f = [i \in 1 .. n |-> f[i]] /\ \A i \in 1 .. n : Proper(f[i], Own)
      BY <1>1, HintTagsProper
  <2> HIDE DEF f
  <2> QED
      BY <1>1, <2>1, ProperFlatten
<1>4. /\ Good(Candidate("transport", 8100, "CONTEXT", 0), Own)
      /\ Good(Candidate("animal", 8000, "CONTEXT", 0), Own)
      /\ Good(Candidate("interior", 7600, "CONTEXT", 0), Own)
      /\ Good(Candidate("electronics", 7800, "CONTEXT", 0), Own)
    BY GoodCandidate DEF Own
<1>5. /\ Good(Candidate(printed, 7300, "CONTEXT", 0), Own)
      /\ Good(Candidate(group, 8000, "CONTEXT", 800), Own)
      /\ Good(Candidate("portrait", 7200, "CONTEXT", 0), Own)
    BY GoodCandidate DEF Own
<1> HIDE DEF shows
<1>6. Proper(t1, Own) /\ Proper(t2, Own) /\ Proper(t3, Own) /\ Proper(t4, Own)
    BY <1>4, ProperOne
<1>7. Proper(t5, Own) /\ Proper(t6, Own) /\ Proper(t7, Own)
    BY <1>5, ProperOne
<1>8. Proper(t8, Own)
  <2>1. <<>> \in Seq(Subtype)
      OBVIOUS
  <2>2. Proper(SystemTags("document", read, <<>>), Own)
      BY <2>1, SystemTagsProper
  <2> QED
      BY <2>2, ProperLists
<1> HIDE DEF t0, t1, t2, t3, t4, t5, t6, t7, t8
<1>9. Proper(t0 \o t1 \o t2 \o t3, Own)
    BY <1>3, <1>6, ProperThen
<1>10. Proper(t0 \o t1 \o t2 \o t3 \o t4 \o t5 \o t6, Own)
    BY <1>6, <1>7, <1>9, ProperThen
<1> QED
    BY <1>2, <1>7, <1>8, <1>10, ProperThen

\* No caption names a vehicle as such, and every keyword has its confidence.
Vehicles == {"transport", "vehicle", "bus stop", "bus-stop"}
Keywords ==
    {"captioned", "cat", "dog", "animal", "people", "selfie", "portrait", "car", "bus",
     "train", "street", "books", "computer", "phone", "food", "drink", "document",
     "screenshot", "meme", "anime", "illustration"}

\* The keywords of a caption name no vehicle that asks for evidence.
LEMMA KeywordsAre ==
    /\ \E n \in Nat : DOMAIN CaptionKeywordTags = 1 .. n
    /\ \A i \in DOMAIN CaptionKeywordTags :
           CaptionKeywordTags[i][3] \in Int /\ CaptionKeywordTags[i][2] \in Keywords
    /\ \A value \in Keywords : Normalize(value) \notin TransportTags
<1>1. DOMAIN CaptionKeywordTags = 1 .. 20
    BY DEF CaptionKeywordTags
<1>2. \A i \in 1 .. 20 : CaptionKeywordTags[i][3] \in Int
    BY DEF CaptionKeywordTags
<1>3. \A i \in 1 .. 20 : CaptionKeywordTags[i][2] \in Keywords
    BY DEF CaptionKeywordTags, Keywords
<1>4. \A value \in Keywords : value \notin Vehicles
    BY Zenon DEF Keywords, Vehicles
<1>5. \A value : Normalize(value) \in TransportTags => value \in Vehicles
    BY TransportIsNamed, Zenon DEF Vehicles
<1>6. \A value \in Keywords : Normalize(value) \notin TransportTags
    BY <1>4, <1>5
<1>7. 20 \in Nat
    OBVIOUS
<1> QED
    BY <1>1, <1>2, <1>3, <1>6, <1>7

LEMMA CaptionTagsProper ==
    ASSUME NEW words
    PROVE  Proper(CaptionTags(words), {"VLM"})
<1> DEFINE k(i) == CaptionKeywordTags[i]
           item(i) == When(k(i)[1] \cap words # {}, <<Candidate(k(i)[2], k(i)[3], "VLM", 500)>>)
           f == [i \in DOMAIN CaptionKeywordTags |-> item(i)]
           t == <<Candidate("captioned", 6400, "VLM", 0)>>
           u == FlattenSeq(f)
<1>1. CaptionTags(words) = When(words # NoCaption, t \o u)
    BY DEF CaptionTags
<1>2. PICK n \in Nat : DOMAIN CaptionKeywordTags = 1 .. n
    BY KeywordsAre
<1>3. ASSUME NEW i \in 1 .. n PROVE Proper(item(i), {"VLM"})
  <2>1. k(i)[3] \in Int /\ Normalize(k(i)[2]) \notin TransportTags
      BY <1>2, KeywordsAre
  <2> HIDE DEF k
  <2>2. Good(Candidate(k(i)[2], k(i)[3], "VLM", 500), {"VLM"})
      BY <2>1, CandidateIs DEF Good
  <2> QED
      BY <2>2, ProperOne
<1>4. Proper(u, {"VLM"})
  <2> HIDE DEF item
  <2>1. f = [i \in 1 .. n |-> f[i]] /\ \A i \in 1 .. n : Proper(f[i], {"VLM"})
      BY <1>2, <1>3
  <2> HIDE DEF f
  <2> QED
      BY <2>1, ProperFlatten
<1>5. Proper(t, {"VLM"})
  <2>1. "captioned" \in Keywords
      BY DEF Keywords
  <2>2. Good(Candidate("captioned", 6400, "VLM", 0), {"VLM"})
      BY <2>1, KeywordsAre, CandidateIs DEF Good
  <2> QED
      BY <2>2, ProperOne
<1> HIDE DEF t, u
<1>6. Proper(t \o u, {"VLM"})
    BY <1>4, <1>5, ProperThen
<1> QED
    BY <1>1, <1>6, ProperLists
=============================================================================
