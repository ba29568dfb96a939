------------------------------ MODULE ImageKinds ------------------------------
(***************************************************************************)
(* What the analysis service believes an image to be, from six measures of *)
(* its gray version, and what it decides from that: whether to read text   *)
(* in it, and whether text is all there is to see.                         *)
(*                                                                         *)
(* An image is [width, height, mean, stddev, edges, bright, dark]: pixels, *)
(* gray levels, and the shares of bright and dark pixels.  Shares, scores  *)
(* and likelihoods are in ten-thousandths, rounded down.                   *)
(***************************************************************************)
EXTENDS Integers, Sequences, FiniteSets

Whole == 10000

Measures == [width: Nat, height: Nat, mean: Nat, stddev: Nat, edges: Nat,
             bright: Nat, dark: Nat]

AtMost(n, m) == IF n <= m THEN n ELSE m
If(condition, n) == IF condition THEN n ELSE 0
Distance(n, m) == IF n >= m THEN n - m ELSE m - n

\* n / d as a share, one at most.
Share(n, d) == AtMost(Whole, (Whole * n) \div d)

\* Wide over high is at least (at most) p hundredths.
AspectAtLeast(im, p) == 100 * im.width >= p * im.height
AspectAtMost(im, p) == 100 * im.width <= p * im.height
PortraitOver(im, p) == 100 * im.height > p * im.width

\* estimate_text_likelihood.
TextLikelihood(im) ==
    (35 * Share(im.edges, 28) + 25 * Share(im.stddev, 95)
     + 20 * AtMost(Whole, ((im.bright + im.dark) * 18) \div 10)
     + 20 * Share(Distance(im.mean, 128), 128)) \div 100

-----------------------------------------------------------------------------
(* Subtypes.                                                               *)

ScreenshotLike(im) == im.width >= 720 /\ im.height >= 420 /\ im.stddev < 88
DocumentLike(im) == im.bright > 4200 /\ im.stddev > 22 /\ im.edges > 8
PortraitDocument(im) == PortraitOver(im, 105) /\ DocumentLike(im)
ReceiptLike(im) == PortraitOver(im, 135) /\ im.bright > 5800 /\ im.edges > 10
ChatLike(im) ==
    ScreenshotLike(im) /\ PortraitOver(im, 135) /\ im.stddev < 74 /\ im.edges > 9
CodeLike(im) ==
    ScreenshotLike(im) /\ (im.dark > 3800 \/ im.bright > 6200) /\ im.edges > 14
MemeLike(im) ==
    /\ ScreenshotLike(im) /\ im.edges > 13 /\ im.stddev > 34 /\ im.mean > 90
    /\ AspectAtLeast(im, 80) /\ AspectAtMost(im, 170)

Texture(im) == (Share(im.stddev, 95) * (Whole - AtMost(im.bright, 8200))) \div Whole

\* In the order in which the code lists them.
Subtypes == <<"natural_photo", "photo_with_text", "meme", "poster", "document",
              "form", "receipt", "invoice", "chat_screenshot", "web_screenshot",
              "ai_assistant_screenshot", "code_screenshot", "game_screenshot",
              "unknown">>

Score(im, subtype) ==
    LET likelihood == TextLikelihood(im) IN
    CASE subtype = "natural_photo" ->
            2000 + (9 * Texture(im)) \div 10
                 + If(~ScreenshotLike(im) /\ ~PortraitDocument(im), 1800)
      [] subtype = "photo_with_text" ->
            1000 + (45 * Texture(im) + 55 * likelihood) \div 100
      [] subtype = "meme" ->
            1200 + If(MemeLike(im), 8500)
                 + If(likelihood > 4500 /\ AspectAtLeast(im, 75) /\ AspectAtMost(im, 180), 1800)
      [] subtype = "poster" ->
            1000 + If(DocumentLike(im) /\ AspectAtLeast(im, 55) /\ AspectAtMost(im, 145), 3200)
                 + likelihood \div 4
      [] subtype = "document" ->
            800 + If(PortraitDocument(im), 7200)
                + If(im.bright > 5500 /\ likelihood > 4500, 2500)
      [] subtype = "form" -> 400 + If(PortraitDocument(im) /\ im.edges > 14, 4200)
      [] subtype = "receipt" -> 400 + If(ReceiptLike(im), 7800)
      [] subtype = "invoice" ->
            300 + If(ReceiptLike(im) /\ im.edges > 15 /\ im.bright > 6800, 3400)
      [] subtype = "chat_screenshot" -> 400 + If(ChatLike(im), 8600)
      [] subtype = "web_screenshot" ->
            400 + If(ScreenshotLike(im) /\ AspectAtLeast(im, 115) /\ im.bright > 2800, 3800)
      [] subtype = "ai_assistant_screenshot" ->
            300 + If(ChatLike(im) /\ im.bright > 4200, 2200)
      [] subtype = "code_screenshot" -> 400 + If(CodeLike(im), 8000)
      [] subtype = "game_screenshot" ->
            300 + If(ScreenshotLike(im) /\ im.stddev > 52 /\ im.dark > 1800, 2800)
      [] OTHER -> 800

\* image_subtype_distribution: the largest share first, the order of Subtypes
\* among equal ones.
Distribution(im) ==
    LET score == [i \in DOMAIN Subtypes |-> Score(im, Subtypes[i])]
        sum[n \in 0..Len(Subtypes)] == IF n = 0 THEN 0 ELSE sum[n - 1] + score[n]
        share == [i \in DOMAIN score |-> (Whole * score[i]) \div sum[Len(Subtypes)]]
        before(i) == {j \in DOMAIN share :
                        share[j] > share[i] \/ (share[j] = share[i] /\ j < i)}
        at(n) == CHOOSE i \in DOMAIN share : Cardinality(before(i)) = n - 1
    IN  [n \in DOMAIN Subtypes |-> [name |-> Subtypes[at(n)], share |-> share[at(n)]]]

\* One of the named subtypes has at least this share.
HasShare(subtypes, names, least) ==
    \E i \in DOMAIN subtypes : subtypes[i].name \in names /\ subtypes[i].share >= least

-----------------------------------------------------------------------------
(* The kind of the image, and the kind that decides about its text.        *)

DocumentTypes == {"document", "form", "receipt", "invoice"}
ScreenshotTypes == {"chat_screenshot", "web_screenshot", "code_screenshot",
                    "ai_assistant_screenshot", "game_screenshot"}

\* classify_image_kind.
Kind(subtypes) ==
    LET best == subtypes[1].name IN
    CASE best \in {"web_screenshot", "ai_assistant_screenshot", "game_screenshot"} ->
            "screenshot"
      [] best = "photo_with_text" -> "natural_photo"
      [] best = "poster" -> "meme"
      [] best = "form" -> "document"
      [] best = "invoice" -> "receipt"
      [] OTHER -> best

\* Mutant: a third is enough for the hybrid route.
RouteFromThird(subtypes) ==
    IF subtypes[1].share >= 8000 THEN "specialized"
    ELSE IF subtypes[1].share >= 3333 THEN "hybrid" ELSE "generic"

\* classify_image_route.
Route(subtypes) ==
    IF subtypes[1].share >= 8000 THEN "specialized"
    ELSE IF subtypes[1].share >= 5000 THEN "hybrid" ELSE "generic"

TextualKinds == {"screenshot", "document", "meme", "receipt", "code_screenshot",
                 "chat_screenshot"}

\* What one look at the image tells (debug in the code).
View(im) == LET subtypes == Distribution(im) IN
    [subtypes |-> subtypes, kind |-> Kind(subtypes), route |-> Route(subtypes),
     likelihood |-> TextLikelihood(im)]

\* derive_ocr_image_kind.
OcrKind(view) ==
    IF view.kind \in TextualKinds THEN view.kind
    ELSE IF HasShare(view.subtypes, ScreenshotTypes, 1500) /\ view.likelihood >= 4800
         THEN "screenshot"
    ELSE IF HasShare(view.subtypes, DocumentTypes, 1400) /\ view.likelihood >= 5500
         THEN "document"
    ELSE IF HasShare(view.subtypes, {"photo_with_text"}, 2200) /\ view.likelihood >= 2400
         THEN "photo_with_text"
    ELSE view.kind

\* should_run_ocr.
ShouldRunOcr(view, policy) ==
    CASE policy = "skip" -> FALSE
      [] policy = "always" -> TRUE
      [] OTHER -> \/ OcrKind(view) \in TextualKinds \cup {"photo_with_text"}
                  \/ OcrKind(view) = "natural_photo" /\ view.likelihood >= 3400

\* is_ocr_text_dominant: nothing but the text is worth looking at.
TextDominant(view, text) ==
    /\ text.chars >= 18
    /\ \/ view.kind \in {"document", "receipt", "screenshot", "meme"}
       \/ HasShare(view.subtypes,
                   {"photo_with_text"} \cup DocumentTypes
                     \cup (ScreenshotTypes \ {"game_screenshot"}), 1800)
=============================================================================
