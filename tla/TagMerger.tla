------------------------------- MODULE TagMerger -------------------------------
(***************************************************************************)
(* How the analysis service makes the tags of an image out of what its     *)
(* models propose: candidates are grouped by value, a group is dropped     *)
(* when nothing but a guess supports it, and the best groups are the tags. *)
(*                                                                         *)
(* A list of candidates is a function on a finite set of positions, read   *)
(* in ascending order; dropping a candidate leaves a hole.  Confidences,   *)
(* priorities and shares are in ten-thousandths.  A recognised text is     *)
(* what the rules ask of it.                                               *)
(***************************************************************************)
EXTENDS ImageKinds, SequencesExt

NoText == [chars |-> 0, cyrillic |-> FALSE, latin |-> FALSE,
           code |-> FALSE, url |-> FALSE, payment |-> FALSE]

HasText(text) == text.chars > 0

Least(S) == CHOOSE n \in S : \A m \in S : n <= m

-----------------------------------------------------------------------------
(* Values.                                                                 *)

Aliases == [person |-> "people", human |-> "people", tv |-> "screen",
            couch |-> "sofa"]

\* The longer names: separators become spaces, then the aliases apply.
Phrases ==
    { <<"cell phone", "phone">>, <<"mobile phone", "phone">>,
      <<"dining table", "table">>, <<"bus-stop", "bus stop">>,
      <<"electronic-display", "electronic display">>,
      <<"printed object", "document">>, <<"printed text", "text">>,
      <<"natural_photo", "natural photo">>, <<"photo_with_text", "photo with text">>,
      <<"web_screenshot", "web screenshot">>, <<"chat_screenshot", "chat screenshot">>,
      <<"code_screenshot", "code screenshot">>, <<"game_screenshot", "game screenshot">>,
      <<"ai_assistant_screenshot", "ai assistant screenshot">> }

Normalize(value) ==
    IF value \in DOMAIN Aliases THEN Aliases[value]
    ELSE IF \E p \in Phrases : p[1] = value
         THEN (CHOOSE p \in Phrases : p[1] = value)[2]
         ELSE value

GenericTags == {"image", "photo", "picture", "indoor", "outdoor", "text", "human"}
TransportLabels == {"bicycle", "car", "motorbike", "motorcycle", "bus", "train",
                    "truck", "boat", "airplane"}

ReceiptTags == {"receipt", "invoice"}
ScreenshotTags == {"chat screenshot", "code screenshot", "game screenshot", "screenshot"}
DocumentTags == {"document", "paper", "printed text", "handwritten text", "whiteboard"}
TransportTags == {"transport", "vehicle", "bus stop"}

NaturalTypes == {"natural_photo", "photo_with_text"}

-----------------------------------------------------------------------------
(* Candidates.                                                             *)

Candidate(value, confidence, source, priority) ==
    [value |-> value, confidence |-> confidence, source |-> source,
     priority |-> priority, validated |-> FALSE]

SourcePriority(source) ==
    CASE source = "FIXTURE"  -> 3000
      [] source = "VLM"      -> 1600
      [] source = "YOLO"     -> 1200
      [] source = "OCR"      -> 1000
      [] source = "SYSTEM"   -> 800
      [] source = "CONTEXT"  -> 600
      [] source = "CLIP"     -> 200
      [] source = "FALLBACK" -> -800
      [] OTHER               -> 0

Rank(c) == c.confidence + c.priority + SourcePriority(c.source)
           - IF Normalize(c.value) \in GenericTags THEN 1800 ELSE 0

Values(cs) == {Normalize(cs[i].value) : i \in DOMAIN cs}

Group(cs, value) == {i \in DOMAIN cs : Normalize(cs[i].value) = value}

\* i is before j in a list sorted by rank.
Ahead(cs, i, j) ==
    Rank(cs[i]) > Rank(cs[j]) \/ (Rank(cs[i]) = Rank(cs[j]) /\ i < j)

Best(cs, G) == CHOOSE i \in G : \A j \in G \ {i} : Ahead(cs, i, j)

-----------------------------------------------------------------------------
(* Evidence: the objects detected, the text, the kind of image.            *)

Certain == {"FIXTURE", "SYSTEM", "YOLO", "OCR"}

LooksLikeReceipt(ev) ==
    HasShare(ev.subtypes, DocumentTypes, 1800) \/ ev.text.payment

LooksLikeScreenshot(ev) ==
    \/ HasShare(ev.subtypes, ScreenshotTypes, 1800)
    \/ ev.kind \in {"screenshot", "chat_screenshot", "code_screenshot"}

LooksLikeDocument(ev) ==
    HasShare(ev.subtypes, DocumentTypes, 1400) \/ HasText(ev.text)

LooksLikePhoto(ev) == HasShare(ev.subtypes, NaturalTypes, 4500)

\* Mutant: any object will do.
ShowsAnything(ev) == ev.labels # {}

ShowsTransport(ev) == ev.labels \cap TransportLabels # {}

\* evidence_supported.
Supported(value, source, count, ev) ==
    \/ source \in Certain
    \/ count >= 2
    \/ /\ value \in ReceiptTags /\ source \in {"CLIP", "VLM", "CONTEXT"} =>
              LooksLikeReceipt(ev)
       /\ value = "group photo" => ev.people >= 2
       /\ value \in ScreenshotTags /\ source \in {"CLIP", "VLM"} =>
              LooksLikeScreenshot(ev)
       /\ value \in DocumentTags /\ source \in {"CLIP", "VLM"} =>
              LooksLikeDocument(ev) \/ ~LooksLikePhoto(ev)
       /\ value \in TransportTags /\ source = "CLIP" => ShowsTransport(ev)

\* candidate_is_validated.
Validated(value, source, count, ev) ==
    \/ count >= 2
    \/ source \in Certain \cup {"CONTEXT"}
    \/ value \in ReceiptTags /\ LooksLikeReceipt(ev)
    \/ value = "group photo" /\ ev.people >= 2
    \/ value \in ScreenshotTags /\ LooksLikeScreenshot(ev)
    \/ value \in DocumentTags /\ LooksLikeDocument(ev)
    \/ value \in TransportTags /\ ShowsTransport(ev)

-----------------------------------------------------------------------------
(* Merging.                                                                *)

SourcesOf(cs, G) == {cs[i].source : i \in G}

\* What a further source that says the same adds.
Bonus(count) == AtMost(800, 250 * (count - 1))

Merged(cs, value, ev) ==
    LET G == Group(cs, value)
        best == cs[Best(cs, G)]
        count == Cardinality(SourcesOf(cs, G))
        highest == CHOOSE n \in {cs[i].confidence : i \in G} :
                       \A i \in G : cs[i].confidence <= n
    IN  [value |-> value,
         confidence |-> IF count >= 2 THEN AtMost(9800, highest + Bonus(count))
                                      ELSE best.confidence,
         source |-> best.source,
         priority |-> best.priority + Bonus(count),
         validated |-> Validated(value, best.source, count, ev)]

IsSupported(cs, value, ev) ==
    LET G == Group(cs, value) IN
    Supported(value, cs[Best(cs, G)].source, Cardinality(SourcesOf(cs, G)), ev)

\* merge_evidence_candidates: a group stands where its first member stood.
Merge(cs, ev) ==
    LET kept == {value \in Values(cs) : IsSupported(cs, value, ev)}
    IN  [i \in {Least(Group(cs, value)) : value \in kept} |->
            Merged(cs, Normalize(cs[i].value), ev)]

\* deduplicate_tag_candidates: the best of each value, in the place of its
\* first, and of these the first topTags by rank.
Deduplicate(cs, topTags) ==
    LET unique == [i \in {Least(Group(cs, value)) : value \in Values(cs)} |->
                      LET value == Normalize(cs[i].value) IN
                      [cs[Best(cs, Group(cs, value))] EXCEPT !.value = value]]
        ahead(i) == {j \in DOMAIN unique : Ahead(unique, j, i)}
    IN  [i \in {j \in DOMAIN unique : Cardinality(ahead(j)) < topTags} |-> unique[i]]

ValuesIn(cs) == {cs[i].value : i \in DOMAIN cs}

\* cs followed by the sequence more.
Extend(cs, more) ==
    LET last == CHOOSE n \in DOMAIN cs \cup {0} : \A m \in DOMAIN cs \cup {0} : m <= n
    IN  [i \in DOMAIN cs \cup {last + n : n \in DOMAIN more} |->
            IF i \in DOMAIN cs THEN cs[i] ELSE more[i - last]]

When(condition, list) == IF condition THEN list ELSE <<>>

Supplements(detected, text, kind) ==
    LET missing(value) == value \notin ValuesIn(detected) IN
    When(HasText(text) /\ missing("text"), <<Candidate("text", 7800, "FALLBACK", 0)>>)
    \o When(missing(kind), <<Candidate(kind, 7000, "FALLBACK", 0)>>)
    \o When(missing("image"), <<Candidate("image", 6200, "FALLBACK", 0)>>)

\* Mutant: nothing is added to a short list.
EnsureNothing(cs, topTags, text, kind) == Deduplicate(cs, topTags)

\* ensure_minimum_tags.
EnsureMinimum(cs, topTags, text, kind) ==
    LET detected == Deduplicate(cs, topTags) IN
    IF Cardinality(DOMAIN detected) >= AtMost(3, topTags)
    THEN detected
    ELSE Deduplicate(Extend(cs, Supplements(detected, text, kind)), topTags)

-----------------------------------------------------------------------------
(* What the service itself proposes.                                       *)

\* The largest share of an image, and the confidence without any.
KindConfidence(subtypes) == IF subtypes = <<>> THEN 7200 ELSE subtypes[1].share

\* The other subtypes among the three largest.
SubtypeTags(kind, subtypes) ==
    FlattenSeq([i \in 1 .. AtMost(3, Len(subtypes)) |-> LET s == subtypes[i] IN
        When(s.name # kind /\ s.share >= 1800, <<Candidate(s.name, s.share, "SYSTEM", 0)>>)])

KindTags(kind) ==
    When(kind = "natural_photo", <<Candidate("photo", 7000, "SYSTEM", 0)>>)
    \o When(kind = "receipt", <<Candidate("document", 7400, "SYSTEM", 0)>>)
    \o When(kind \in {"code_screenshot", "chat_screenshot"},
            <<Candidate("screenshot", 7600, "SYSTEM", 0)>>)
    \o When(kind = "code_screenshot", <<Candidate("code screenshot", 8200, "SYSTEM", 0)>>)
    \o When(kind = "chat_screenshot", <<Candidate("chat screenshot", 8200, "SYSTEM", 0)>>)

TextTags(text) ==
    When(HasText(text), <<Candidate("text", 8400, "OCR", 500)>>)
    \o When(text.chars >= 30, <<Candidate("document", 7000, "OCR", 0)>>)
    \o When(text.cyrillic, <<Candidate("cyrillic text", 8200, "OCR", 0)>>)
    \o When(text.latin, <<Candidate("latin text", 7400, "OCR", 0)>>)
    \o When(text.code, <<Candidate("code screenshot", 8200, "OCR", 0)>>)
    \o When(text.url, <<Candidate("web page", 7400, "OCR", 0)>>)

\* system_tag_candidates.
SystemTags(kind, text, subtypes) ==
    <<Candidate(kind, KindConfidence(subtypes), "SYSTEM", 200)>>
    \o SubtypeTags(kind, subtypes) \o KindTags(kind) \o TextTags(text)

\* fixture_tags: what is known of a few images by their checksum.
FixtureTags(known) ==
    [i \in DOMAIN known |-> Candidate(known[i][1], known[i][2], "FIXTURE", 5000)]

-----------------------------------------------------------------------------
(* What follows from the objects detected, a sequence of [label, score,    *)
(* count] in descending order of score, and from a caption, the set of     *)
(* keywords found in it.                                                   *)

Labels(detected) == {detected[i].label : i \in DOMAIN detected}

PeopleIn(detected) ==
    IF "person" \in Labels(detected)
    THEN (CHOOSE d \in {detected[i] : i \in DOMAIN detected} : d.label = "person").count
    ELSE 0

DetectedTags(detected) ==
    [i \in DOMAIN detected |->
        Candidate(detected[i].label, detected[i].score, "YOLO", 400)]

AnimalLabels == {"bird", "cat", "dog", "horse", "sheep", "cow", "elephant", "bear",
                 "zebra", "giraffe"}
FurnitureLabels == {"chair", "couch", "bed", "dining table", "bench", "sofa"}
ElectronicsLabels == {"tv", "laptop", "cell phone", "keyboard", "mouse", "remote",
                      "microwave", "monitor", "phone"}
DocumentLabels == {"book", "clock", "stop sign", "traffic light", "parking meter"}

BusStop == "bus stop"
CellPhone == "cell phone"

TagHints(label) ==
    CASE label = "person" -> <<<<"people", 8800>>, <<"portrait", 7800>>>>
      [] label = "bus" -> <<<<"transport", 8600>>, <<"street", 7200>>, <<BusStop, 6400>>>>
      [] label = "car" -> <<<<"vehicle", 8400>>, <<"street", 7000>>>>
      [] label = "truck" -> <<<<"vehicle", 8400>>, <<"transport", 8100>>>>
      [] label = "train" -> <<<<"transport", 8600>>, <<"railway", 7600>>>>
      [] label = "bicycle" -> <<<<"vehicle", 7700>>, <<"outdoor", 7000>>>>
      [] label \in {"motorbike", "motorcycle"} -> <<<<"vehicle", 7900>>, <<"outdoor", 7000>>>>
      [] label = "book" -> <<<<"reading", 8000>>, <<"document", 7000>>, <<"books", 7800>>>>
      [] label = "chair" -> <<<<"furniture", 7900>>, <<"interior", 7000>>>>
      [] label = "couch" -> <<<<"furniture", 8100>>, <<"interior", 7400>>, <<"sofa", 8000>>>>
      [] label = "bed" -> <<<<"furniture", 8100>>, <<"bedroom", 7200>>>>
      [] label = "tv" -> <<<<"electronics", 8000>>, <<"screen", 7700>>>>
      [] label = "laptop" -> <<<<"electronics", 8300>>, <<"computer", 8100>>, <<"screen", 7800>>>>
      [] label = CellPhone -> <<<<"electronics", 8000>>, <<"phone", 7900>>, <<"screen", 7600>>>>
      [] label \in {"cat", "dog"} -> <<<<"animal", 8400>>, <<"pet", 8000>>>>
      [] OTHER -> <<>>

HintTags(d) == LET hints == TagHints(d.label) IN
    [i \in DOMAIN hints |->
        Candidate(hints[i][1], AtMost(d.score, hints[i][2]), "CONTEXT", 0)]

\* contextual_tag_candidates.
ContextTags(detected, text) ==
    LET shows(labels) == Labels(detected) \cap labels # {}
        implied(labels, value, confidence) ==
            When(shows(labels), <<Candidate(value, confidence, "CONTEXT", 0)>>)
    IN  FlattenSeq([i \in DOMAIN detected |-> HintTags(detected[i])])
        \o implied(TransportLabels, "transport", 8100)
        \o implied(AnimalLabels, "animal", 8000)
        \o implied(FurnitureLabels, "interior", 7600)
        \o implied(ElectronicsLabels, "electronics", 7800)
        \o implied(DocumentLabels, "printed object", 7300)
        \o When(PeopleIn(detected) >= 2, <<Candidate("group photo", 8000, "CONTEXT", 800)>>)
        \o When(PeopleIn(detected) = 1, <<Candidate("portrait", 7200, "CONTEXT", 0)>>)
        \o When(HasText(text), SystemTags("document", text, <<>>))

CaptionKeywordTags ==
    << <<{"cat", "kitten"}, "cat", 7600>>, <<{"dog", "puppy"}, "dog", 7600>>,
       <<{"animal", "pet"}, "animal", 7000>>,
       <<{"person", "man", "woman", "people", "child"}, "people", 7200>>,
       <<{"selfie"}, "selfie", 7600>>, <<{"portrait", "face"}, "portrait", 7200>>,
       <<{"car", "vehicle"}, "car", 7200>>, <<{"bus"}, "bus", 7600>>,
       <<{"train"}, "train", 7600>>, <<{"street", "road"}, "street", 7000>>,
       <<{"book", "bookshelf", "library"}, "books", 7200>>,
       <<{"computer", "laptop", "keyboard", "monitor"}, "computer", 7200>>,
       <<{"phone", "smartphone"}, "phone", 7200>>,
       <<{"food", "meal", "dish"}, "food", 7200>>,
       <<{"drink", "coffee", "cup"}, "drink", 7000>>,
       <<{"document", "paper", "receipt", "invoice"}, "document", 7400>>,
       <<{"screenshot"}, "screenshot", 7600>>, <<{"meme"}, "meme", 7800>>,
       <<{"anime"}, "anime", 7800>>, <<{"illustration", "drawing"}, "illustration", 7400>> >>

NoCaption == {}

\* caption_to_tag_candidates.
CaptionTags(words) ==
    When(words # NoCaption,
         <<Candidate("captioned", 6400, "VLM", 0)>>
         \o FlattenSeq([i \in DOMAIN CaptionKeywordTags |-> LET k == CaptionKeywordTags[i] IN
                When(k[1] \cap words # {}, <<Candidate(k[2], k[3], "VLM", 500)>>)]))
=============================================================================
