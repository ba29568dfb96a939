--------------------------- MODULE AnalysisPipeline ---------------------------
(***************************************************************************)
(* One worker of the analysis service: it analyses one image after another *)
(* while models come onto its disk, are warmed up and asked about.  An     *)
(* analysis reads the text with one engine and variant after another, asks *)
(* for a caption, detects objects, matches tags, merges all of it into the *)
(* tags of the image and says of every component how it went.              *)
(*                                                                         *)
(* What a model answers, and whether it answers, is a choice out of the    *)
(* constants Readings, Detections, Matches and Captions.                   *)
(***************************************************************************)
EXTENDS TagMerger

CONSTANTS
    Configs,      \* settings the service may be started with
    Images,       \* [gray, known, text]: measures, and what is known by checksum
    Requests,     \* [mode, policy, enhance, top]: the fields of a request
    Disks,        \* sets of models that may be on disk at the start
    Readings,     \* what an OCR engine may find in one variant of an image
    Detections,   \* what the object detector may find
    Matches,      \* how the CLIP tags may match
    Captions      \* sets of keywords a caption may have

ASSUME PipelineAssumption ==
    /\ \A c \in Configs : c.mode \in {"fast", "quality", "best"}
    /\ \A q \in Requests : q.top \in Int
    /\ \A im \in Images : /\ im.gray \in Measures
                          /\ im.known \in Seq(STRING \X Int)
    /\ Disks \subseteq SUBSET {"yolo", "clip", "easyocr", "paddleocr"}
    /\ Detections \subseteq Seq([label: STRING, score: Int, count: Nat])
    /\ Matches \subseteq Seq([tag: STRING, positive: Int, margin: Int, confidence: Int])

VARIABLES
    settings,     \* the settings of the process
    disk,         \* the models whose directory holds a file
    promised,     \* the models a ready answer or a warm-up has vouched for
    phase,        \* where the analysis is
    job,          \* the request as resolved, with the image
    view,         \* what the image looks like, and the route it is sent
    left,         \* the <<engine, variant>>s of OCR still to be tried
    best,         \* the best reading accepted
    outcome,      \* component -> not run, ok, or the cause of its last error
    detected,     \* objects
    matched,      \* CLIP tags
    caption,      \* keywords of the caption
    tags,         \* the final tags
    status        \* component and pipeline -> status

environment == <<settings, disk, promised>>
request == <<job, view>>
text == <<left, best>>
result == <<tags, status>>
findings == <<detected, matched, caption>>
vars == <<settings, disk, promised, phase, job, view, left, best, outcome,
          detected, matched, caption, tags, status>>

Models == {"yolo", "clip", "easyocr", "paddleocr"}
Modes == {"fast", "quality", "best"}
Policies == {"auto", "always", "skip"}
Components == {"ocr", "yolo", "clip", "vlm"}
\* "not available" is the complaint that a model is not on disk; of a caption,
\* that its service is not there.
Causes == {"not available", "timed out", "error"}
Phases == {"idle", "begun", "ocr", "caption", "look", "clip", "merge", "finalize", "done"}

Mock == settings.provider = "mock"

Recognized == best.text

-----------------------------------------------------------------------------
(* The models on disk.                                                     *)

\* ModelRegistry.specs: the models whose directories are looked at.
Specs ==
    {m \in Models :
        \/ m = "yolo" /\ settings.yolo
        \/ m = "clip" /\ settings.clip
        \/ m = "easyocr" /\ settings.engine \in {"auto", "easyocr", "both"}
        \/ m = "paddleocr" /\ settings.engine \in {"auto", "paddle", "both"}}

FastModels == Specs \cap {"yolo", "easyocr"}

\* collect_statuses without checksums: some file is there.
Available(m) == m \in disk

\* Mutant: one of the models is enough.
AnyFastReady == FastModels # {} => \E m \in FastModels : Available(m)

\* fast_models_ready.
FastReady == \A m \in FastModels : Available(m)

\* _ensure_model_available: no complaint about a model nobody specified.
Loadable(m) == m \in Specs => Available(m) \/ settings.download

\* selected_ocr_engines.
SelectedEngines(mode) ==
    LET engine == settings.engine IN
    CASE engine \in {"easyocr", "paddle"} -> <<engine>>
      [] engine = "none" -> <<>>
      [] engine = "both" -> <<"easyocr", "paddle">>
      [] OTHER -> IF mode = "best" THEN <<"easyocr", "paddle">> ELSE <<"easyocr">>

EngineModel(engine) == IF engine = "easyocr" THEN "easyocr" ELSE "paddleocr"

\* The models that the visual components and these engines want; the loading
\* of engines ends with the first that fails.
Wanted(engines) ==
    {m \in {"yolo", "clip"} : settings[m]}
        \cup {EngineModel(engines[i]) : i \in DOMAIN engines}

InOrder(loaded, engines) ==
    \A i, j \in DOMAIN engines :
        i < j /\ EngineModel(engines[j]) \in loaded => EngineModel(engines[i]) \in loaded

\* The engines of a warm-up: the first, or all in the best mode.
WarmEngines ==
    LET engines == SelectedEngines(settings.mode) IN
    IF settings.mode = "best" THEN engines ELSE SubSeq(engines, 1, AtMost(1, Len(engines)))

\* models/download.py, run beside the service.
Download ==
    \E got \in SUBSET Wanted(SelectedEngines(settings.mode)) :
        /\ InOrder(got, SelectedEngines(settings.mode))
        /\ ~(got \subseteq disk)
        /\ disk' = disk \cup got
        /\ UNCHANGED <<settings, promised, phase, job, view, left, best, outcome,
                       findings, tags, status>>

\* worker_warmup.
WarmUp ==
    /\ ~Mock
    /\ \E loaded \in SUBSET {m \in Wanted(WarmEngines) : Loadable(m)} :
        /\ InOrder(loaded, WarmEngines)
        /\ ~(loaded \subseteq promised)
        /\ disk' = disk \cup loaded
        /\ promised' = promised \cup loaded
    /\ UNCHANGED <<settings, phase, request, text, outcome, findings, result>>

\* GET /health/ready answers that the models are there.
AnswerReady ==
    /\ FastReady
    /\ ~(FastModels \subseteq promised)
    /\ promised' = promised \cup FastModels
    /\ UNCHANGED <<settings, disk, phase, job, view, left, best, outcome,
                   findings, tags, status>>

-----------------------------------------------------------------------------
(* The request.                                                            *)

ResolveMode(mode) == IF mode \in Modes THEN mode ELSE settings.mode
ResolveOcrPolicy(policy) == IF policy \in Policies THEN policy ELSE settings.policy

\* Mutant: as many tags as were asked for, none included.
AsAsked(top) == top

TopTags(top) == IF top < 1 THEN 1 ELSE AtMost(top, 30)

NoReading == [score |-> 0, variant |-> "none", text |-> NoText]
NoStatus == [c \in Components \cup {"pipeline"} |-> "none"]
NoJob == [mode |-> "none", policy |-> "none", enhance |-> FALSE, top |-> 1,
          known |-> <<>>, text |-> NoText]
NoView == [subtypes |-> <<>>, kind |-> "unknown", route |-> "none", likelihood |-> 0]
NotRun == [c \in Components |-> "not run"]

Init ==
    /\ settings \in Configs
    /\ disk \in Disks
    /\ promised = {}
    /\ phase = "idle" /\ job = NoJob /\ view = NoView
    /\ left = <<>> /\ best = NoReading /\ outcome = NotRun
    /\ detected = <<>> /\ matched = <<>> /\ caption = NoCaption
    /\ tags = {} /\ status = NoStatus

\* analyze_content, up to the first component.
Begin(image, asked) ==
    /\ phase = "idle"
    /\ phase' = "begun"
    /\ job' = [mode |-> ResolveMode(asked.mode),
               policy |-> ResolveOcrPolicy(asked.policy),
               enhance |-> asked.enhance, top |-> TopTags(asked.top),
               known |-> image.known, text |-> image.text]
    /\ view' = View(image.gray)
    /\ UNCHANGED <<environment, text, outcome, findings, result>>

-----------------------------------------------------------------------------
(* The text.                                                               *)

MockText == [NoText EXCEPT !.chars = 9, !.latin = TRUE]

\* The mock provider and a known image have their text; no engine is asked.
GivenText ==
    /\ phase = "begun"
    /\ Mock \/ HasText(job.text)
    /\ best' = [score |-> 0, variant |-> "given",
                text |-> IF Mock THEN MockText ELSE job.text]
    /\ phase' = "caption"
    /\ UNCHANGED <<environment, request, left, outcome, findings, result>>

MayReadText == phase = "begun" /\ ~Mock /\ ~HasText(job.text)

SkipOcr ==
    /\ MayReadText
    /\ ~ShouldRunOcr(view, job.policy)
    /\ phase' = "caption"
    /\ UNCHANGED <<environment, request, text, outcome, findings, result>>

\* build_ocr_candidates.
Variants(kind) ==
    CASE kind \in {"code_screenshot", "chat_screenshot"} ->
            <<"base", "gray_autocontrast", "contrast_sharpen">>
      [] kind \in {"screenshot", "document", "meme", "receipt"} ->
            <<"base", "gray_autocontrast">>
      [] kind = "photo_with_text" ->
            <<"base", "upper_crop", "center_crop", "gray_autocontrast">>
      [] kind = "natural_photo" -> <<"base">>
      [] OTHER -> <<"base", "contrast_sharpen", "gray_autocontrast">>

\* Every variant with the first engine, then every variant with the second.
Attempts(engines, variants) ==
    [n \in 1..(Len(engines) * Len(variants)) |->
        <<engines[((n - 1) \div Len(variants)) + 1],
          variants[((n - 1) % Len(variants)) + 1]>>]

StartOcr ==
    /\ MayReadText
    /\ ShouldRunOcr(view, job.policy)
    /\ left' = Attempts(SelectedEngines(job.mode), Variants(OcrKind(view)))
    /\ outcome' = IF left' = <<>> THEN outcome ELSE [outcome EXCEPT !.ocr = "ok"]
    /\ phase' = "ocr"
    /\ UNCHANGED <<environment, request, best, findings, result>>

\* score_ocr_blocks: shares in hundredths, the score in hundredths of a point.
Rejected(r) ==
    \/ r.blocks = 0 \/ r.text.chars < 2
    \/ r.valid < 70 \/ r.mixed > 36 \/ r.repetition > 18 \/ r.plausible < 38

ReadingScore(r) ==
    42 * AtMost(r.text.chars, 240) + 220 * AtMost(r.blocks, 18)
    + 100 * r.confidence + 28 * r.valid + 26 * r.plausible + 18 * r.geometry
    + 16 * r.consistency - 48 * r.mixed - 54 * r.repetition

\* should_stop_after_ocr_candidate.
StopAfter(reading) ==
    LET kind == OcrKind(view) IN
    /\ HasText(reading.text)
    /\ IF kind \in TextualKinds \ {"meme"} THEN reading.score >= 15000
       ELSE /\ reading.variant = "base"
            /\ reading.score >= IF kind = "photo_with_text" THEN 17000 ELSE 13500

\* What is left to try after the first attempt: a reading good enough ends its
\* engine, and with an engine ends OCR when the best reading is good enough.
After(stop, winner) ==
    LET engine == Head(left)[1]
        rest == IF stop THEN SelectSeq(Tail(left), LAMBDA a : a[1] # engine) ELSE Tail(left)
    IN  IF (\A i \in DOMAIN rest : rest[i][1] # engine) /\ StopAfter(winner)
        THEN <<>> ELSE rest

Attempting == phase = "ocr" /\ left # <<>>
AttemptModel == EngineModel(Head(left)[1])

OcrMissing ==
    /\ Attempting
    /\ ~Loadable(AttemptModel)
    /\ outcome' = [outcome EXCEPT !.ocr = "not available"]
    /\ left' = After(FALSE, best)
    /\ UNCHANGED <<environment, phase, request, best, findings, result>>

OcrFails(cause) ==
    /\ Attempting
    /\ Loadable(AttemptModel)
    /\ outcome' = [outcome EXCEPT !.ocr = cause]
    /\ left' = After(FALSE, best)
    /\ UNCHANGED <<environment, phase, request, best, findings, result>>

\* The images for an engine cannot be made: with them goes all that was read.
OcrBreaksOff(cause) ==
    /\ Attempting
    /\ Head(left)[2] = "base"
    /\ outcome' = [outcome EXCEPT !.ocr = cause]
    /\ left' = <<>> /\ best' = NoReading
    /\ phase' = "caption"
    /\ UNCHANGED <<environment, request, findings, result>>

OcrReads(r) ==
    /\ Attempting
    /\ Loadable(AttemptModel)
    /\ disk' = disk \cup {AttemptModel}
    /\ LET current == [score |-> ReadingScore(r), variant |-> Head(left)[2], text |-> r.text]
           better == ~Rejected(r) /\ (~HasText(best.text) \/ current.score > best.score)
       IN  /\ best' = IF better THEN current ELSE best
           /\ left' = After(~Rejected(r) /\ StopAfter(current), best')
    /\ UNCHANGED <<settings, promised, phase, job, view, outcome, findings,
                   tags, status>>

EndOcr ==
    /\ phase = "ocr"
    /\ left = <<>>
    /\ phase' = "caption"
    /\ UNCHANGED <<environment, request, text, outcome, findings, result>>

-----------------------------------------------------------------------------
(* The caption.                                                            *)

RequestedVlm == job.enhance /\ settings.vlm /\ ~Mock

CaptionRuns == settings.vlm /\ ~Mock

CaptionSkipped ==
    /\ phase = "caption"
    /\ ~(job.enhance /\ CaptionRuns)
    /\ phase' = "look"
    /\ UNCHANGED <<environment, request, text, outcome, findings, result>>

AsksForCaption == phase = "caption" /\ job.enhance /\ CaptionRuns

CaptionFails(cause) ==
    /\ AsksForCaption
    /\ outcome' = [outcome EXCEPT !.vlm = cause]
    /\ phase' = "look"
    /\ UNCHANGED <<environment, request, text, findings, result>>

CaptionGiven(words) ==
    /\ AsksForCaption
    /\ caption' = words
    /\ outcome' = [outcome EXCEPT !.vlm = "ok"]
    /\ phase' = "look"
    /\ UNCHANGED <<environment, request, text, detected, matched, result>>

-----------------------------------------------------------------------------
(* Objects and CLIP tags.                                                  *)

TextKinds == {"screenshot", "document", "meme"}

\* vision.py, which decides whether a model is run.
YoloRuns == settings.yolo /\ (view.kind \in TextKinds => settings.yoloOnText)
ClipRuns == settings.clip /\ (view.kind \in TextKinds => settings.clipOnText)

TextOnly == view.route = "ocr_text_dominant"

\* Mutant: an image of nothing but text is forgotten.
RequestedForAnyRoute ==
    settings.yolo /\ ~Mock /\ ~(view.kind \in TextKinds /\ ~settings.yoloOnText)

\* analyzer.py, which decides again whether it was requested.
RequestedYolo ==
    /\ settings.yolo /\ ~Mock /\ ~TextOnly
    /\ ~(view.kind \in TextKinds /\ ~settings.yoloOnText)
RequestedClip ==
    /\ settings.clip /\ ~Mock /\ ~TextOnly
    /\ ~(view.kind \in TextKinds /\ ~settings.clipOnText)

MockSeesNothing ==
    /\ phase = "look" /\ Mock
    /\ phase' = "merge"
    /\ UNCHANGED <<environment, request, text, outcome, findings, result>>

OnlyText ==
    /\ phase = "look" /\ ~Mock
    /\ TextDominant(view, Recognized)
    /\ view' = [view EXCEPT !.route = "ocr_text_dominant"]
    /\ phase' = "merge"
    /\ UNCHANGED <<environment, job, text, outcome, findings, result>>

Looks == phase = "look" /\ ~Mock /\ ~TextDominant(view, Recognized)

YoloSkipped ==
    /\ Looks /\ ~YoloRuns
    /\ phase' = "clip"
    /\ UNCHANGED <<environment, request, text, outcome, findings, result>>

\* What was counted before the failure counts as evidence, but is no candidate.
YoloFails(cause, objects) ==
    /\ Looks /\ YoloRuns
    /\ IF Loadable("yolo") THEN cause # "not available"
                           ELSE cause = "not available" /\ objects = <<>>
    /\ detected' = objects
    /\ outcome' = [outcome EXCEPT !.yolo = cause]
    /\ phase' = "clip"
    /\ UNCHANGED <<environment, request, text, matched, caption, result>>

YoloDetects(objects) ==
    /\ Looks /\ YoloRuns
    /\ Loadable("yolo")
    /\ disk' = disk \cup {"yolo"}
    /\ detected' = objects
    /\ outcome' = [outcome EXCEPT !.yolo = "ok"]
    /\ phase' = "clip"
    /\ UNCHANGED <<settings, promised, job, view, left, best, matched,
                   caption, tags, status>>

StrictTags == ReceiptTags \cup ScreenshotTags \cup {"document"}
WrittenTags == {"text", "printed text", "handwritten text", "paper", "whiteboard", "poster"}

\* clip_thresholds: similarities in thousandths.
Threshold(tag) ==
    CASE tag \in StrictTags  -> [positive |-> 225, margin |-> 25, confidence |-> 5800]
      [] tag \in WrittenTags -> [positive |-> 205, margin |-> 20, confidence |-> 5600]
      [] OTHER               -> [positive |-> 190, margin |-> 15, confidence |-> 5400]

\* clip_subtype_compatibility, in hundredths.
Compatibility(tag) ==
    LET has(names, least) == HasShare(view.subtypes, names, least)
        natural(least) == has(NaturalTypes \cup {"meme", "poster"}, least) IN
    IF tag \in ReceiptTags THEN IF has(DocumentTypes, 2200) THEN 100 ELSE 35
    ELSE IF tag \in ScreenshotTags
         THEN IF ~has(ScreenshotTypes, 1800) /\ natural(3801) THEN 45 ELSE 100
    ELSE IF tag \in DocumentTags \cup {"text"}
         THEN IF /\ ~has((DocumentTypes \cup ScreenshotTypes) \ {"game_screenshot"}, 1200)
                 /\ natural(5501)
              THEN 70 ELSE 100
    ELSE 100

Calibrated(m) == (m.confidence * Compatibility(m.tag)) \div 100

Accepted(m) ==
    LET least == Threshold(m.tag) IN
    /\ m.positive >= least.positive /\ m.margin >= least.margin
    /\ Compatibility(m.tag) = 100
    /\ Calibrated(m) >= settings.clipLeast /\ Calibrated(m) >= least.confidence

\* Of the settings.clipTop matches with the highest confidence the accepted ones.
ClipAccepts(ms) ==
    LET ahead(i) == {j \in DOMAIN ms :
                        \/ Calibrated(ms[j]) > Calibrated(ms[i])
                        \/ Calibrated(ms[j]) = Calibrated(ms[i]) /\ j < i}
        taken(i) == Cardinality(ahead(i)) < settings.clipTop
    IN  FlattenSeq([i \in DOMAIN ms |-> When(taken(i) /\ Accepted(ms[i]), <<ms[i]>>)])

ClipSkipped ==
    /\ phase = "clip" /\ ~ClipRuns
    /\ phase' = "merge"
    /\ UNCHANGED <<environment, request, text, outcome, findings, result>>

ClipFails(cause) ==
    /\ phase = "clip" /\ ClipRuns
    /\ ~Loadable("clip") <=> cause = "not available"
    /\ outcome' = [outcome EXCEPT !.clip = cause]
    /\ phase' = "merge"
    /\ UNCHANGED <<environment, request, text, findings, result>>

ClipMatches(ms) ==
    /\ phase = "clip" /\ ClipRuns
    /\ Loadable("clip")
    /\ disk' = disk \cup {"clip"}
    /\ matched' = ClipAccepts(ms)
    /\ outcome' = [outcome EXCEPT !.clip = "ok"]
    /\ phase' = "merge"
    /\ UNCHANGED <<settings, promised, job, view, left, best, detected,
                   caption, tags, status>>

-----------------------------------------------------------------------------
(* The tags.                                                               *)

MatchedTags == [i \in DOMAIN matched |-> Candidate(matched[i].tag, matched[i].confidence,
                                                   "CLIP", 0)]

\* What detect_tags collects.
Proposed ==
    FixtureTags(job.known)
    \o SystemTags(view.kind, Recognized, view.subtypes)
    \o When(outcome.yolo = "ok", DetectedTags(detected))
    \o When(~TextOnly, ContextTags(detected, Recognized))
    \o MatchedTags
    \o CaptionTags(caption)

MockTags == <<Candidate("image", 9900, "MOCK", 0), Candidate("photo", 9500, "MOCK", 0),
              Candidate("digital media", 8200, "MOCK", 0)>>

EvidenceFound ==
    [people |-> PeopleIn(detected), labels |-> Labels(detected), text |-> Recognized,
     kind |-> view.kind, subtypes |-> view.subtypes]

TagsIn(cs) ==
    {[value |-> cs[i].value, source |-> cs[i].source, validated |-> cs[i].validated] :
        i \in DOMAIN cs}

MakeTags ==
    /\ phase = "merge"
    /\ LET candidates == IF Mock THEN MockTags ELSE Merge(Proposed, EvidenceFound)
       IN  tags' = TagsIn(EnsureMinimum(candidates, job.top, Recognized, view.kind))
    /\ phase' = "finalize"
    /\ UNCHANGED <<environment, request, text, outcome, findings, status>>

-----------------------------------------------------------------------------
(* The status.                                                             *)

\* classify_component_error.
Classify(cause) ==
    CASE cause = "timed out"     -> "TIMED_OUT"
      [] cause = "not available" -> "UNAVAILABLE"
      [] OTHER                   -> "FAILED"

Failures == {"TIMED_OUT", "UNAVAILABLE", "FAILED"}

ComponentStatus(requested, c) ==
    IF ~requested THEN "NOT_REQUESTED"
    ELSE IF outcome[c] \in Causes THEN Classify(outcome[c])
    ELSE IF c = "ocr" /\ ~HasText(Recognized) THEN "PARTIAL"
    ELSE "SUCCEEDED"

\* The policy of the settings is asked, not the policy of the request.
RequestedOcr == ~Mock /\ settings.engine # "none" /\ ShouldRunOcr(view, settings.policy)

\* Mutant: text that was not found is no reason to say less than COMPLETED.
StatusWithoutPartial(statuses) ==
    LET requested == statuses \ {"NOT_REQUESTED"} IN
    IF requested # {} /\ requested \subseteq Failures THEN "FAILED"
    ELSE IF requested \cap Failures # {} THEN "PARTIALLY_COMPLETED" ELSE "COMPLETED"

\* Mutant: one failed component fails the analysis.
StatusOfTheWorst(statuses) ==
    LET requested == statuses \ {"NOT_REQUESTED"} IN
    IF requested \cap Failures # {} THEN "FAILED"
    ELSE IF "PARTIAL" \in requested THEN "PARTIALLY_COMPLETED" ELSE "COMPLETED"

PipelineStatus(statuses) ==
    LET requested == statuses \ {"NOT_REQUESTED"} IN
    IF tags = {} \/ (requested # {} /\ requested \subseteq Failures) THEN "FAILED"
    ELSE IF requested \cap (Failures \cup {"PARTIAL"}) # {} THEN "PARTIALLY_COMPLETED"
    ELSE "COMPLETED"

Requested == [ocr |-> RequestedOcr, yolo |-> RequestedYolo,
              clip |-> RequestedClip, vlm |-> RequestedVlm]

\* finalize_pipeline_status.
Verdict ==
    [c \in Components \cup {"pipeline"} |->
        IF c = "pipeline"
        THEN PipelineStatus({ComponentStatus(Requested[d], d) : d \in Components})
        ELSE ComponentStatus(Requested[c], c)]

Finalize ==
    /\ phase = "finalize"
    /\ status' = Verdict
    /\ phase' = "done"
    /\ UNCHANGED <<environment, request, text, outcome, findings, tags>>

\* The response is sent; the next job starts with a debug payload of its own.
Respond ==
    /\ phase = "done"
    /\ phase' = "idle" /\ job' = NoJob /\ view' = NoView
    /\ best' = NoReading /\ outcome' = NotRun
    /\ detected' = <<>> /\ matched' = <<>> /\ caption' = NoCaption
    /\ tags' = {} /\ status' = NoStatus
    /\ UNCHANGED <<environment, left>>

-----------------------------------------------------------------------------
Text ==
    \/ GivenText \/ SkipOcr \/ StartOcr \/ OcrMissing \/ EndOcr
    \/ \E cause \in Causes \ {"not available"} : OcrFails(cause) \/ OcrBreaksOff(cause)
    \/ \E r \in Readings : OcrReads(r)

Vision ==
    \/ CaptionSkipped \/ MockSeesNothing \/ OnlyText \/ YoloSkipped \/ ClipSkipped
    \/ \E cause \in Causes : CaptionFails(cause) \/ ClipFails(cause)
    \/ \E cause \in Causes, objects \in Detections \cup {<<>>} : YoloFails(cause, objects)
    \/ \E words \in Captions : CaptionGiven(words)
    \/ \E objects \in Detections : YoloDetects(objects)
    \/ \E ms \in Matches : ClipMatches(ms)

Next ==
    \/ Download \/ WarmUp \/ AnswerReady
    \/ \E image \in Images, asked \in Requests : Begin(image, asked)
    \/ Text \/ Vision \/ MakeTags \/ Finalize \/ Respond

Spec == Init /\ [][Next]_vars

-----------------------------------------------------------------------------
(* Properties.                                                             *)

\* The variables have their types; the number of tags wanted is in range.
TypeOK ==
    /\ disk \subseteq Models /\ promised \subseteq Models
    /\ phase \in Phases
    /\ job.top \in 1..30 /\ job.mode \in Modes \cup {"none"}
    /\ outcome \in [Components -> Causes \cup {"not run", "ok"}]
    /\ status["pipeline"] \in {"none", "COMPLETED", "PARTIALLY_COMPLETED", "FAILED"}

\* What is said of the components is what was done with them, although one
\* file decides what runs and another what was requested.  For OCR only
\* when the request did not override the policy and the text was not known
\* beforehand.
PolicyAgrees == job.policy = settings.policy

StatusMatchesWhatRan ==
    phase = "done" =>
        \A c \in Components :
            (c = "ocr" => PolicyAgrees /\ ~HasText(job.text))
            => (status[c] = "NOT_REQUESTED" <=> outcome[c] = "not run")

\* An analysis is COMPLETED only if nothing failed in it and OCR, where it ran,
\* found text.  For OCR only when the request did not override the policy: what
\* OCR then did is not counted if the settings would not have run it.
CompletedMeansNothingFailed ==
    phase = "done" /\ status["pipeline"] = "COMPLETED" =>
        /\ \A c \in Components : (c = "ocr" => PolicyAgrees) => outcome[c] \notin Causes
        /\ PolicyAgrees /\ outcome["ocr"] = "ok" => HasText(Recognized)

\* An analysis that is FAILED failed somewhere, and no model that sees has put a
\* tag into its response: not CLIP, not the caption, and not YOLO, though what
\* YOLO counted before it failed may be evidence for others.  Text may have been
\* read all the same, by an attempt after one that failed.
FailedSawNothing ==
    phase = "done" /\ status["pipeline"] = "FAILED" =>
        /\ \E c \in Components : outcome[c] \in Causes
        /\ \A t \in tags : t.source \notin {"YOLO", "CLIP", "VLM"}

\* The evidence of a tag, family by family, and that it was said by one source.
PhotoOfGroup(t) == t.value = "group photo" => PeopleIn(detected) >= 2
VehicleSeen(t) ==
    t.value \in {"transport", "vehicle", "bus stop"} =>
        \E i \in DOMAIN detected : detected[i].label \in TransportLabels
ScreenshotSeen(t) ==
    t.value \in ScreenshotTags =>
        \/ view.kind \in {"screenshot", "chat_screenshot", "code_screenshot"}
        \/ HasShare(view.subtypes, ScreenshotTypes, 1800)
ReceiptSeen(t) ==
    t.value \in ReceiptTags =>
        HasShare(view.subtypes, DocumentTypes, 1800) \/ Recognized.payment
\* A document asks for no evidence unless the image looks like a photo.
DocumentSeen(t) ==
    t.value \in DocumentTags =>
        \/ HasShare(view.subtypes, DocumentTypes, 1400)
        \/ HasText(Recognized)
        \/ ~HasShare(view.subtypes, NaturalTypes, 4500)
OfValidatedFamily(t) ==
    t.validated => t.value \in {"group photo"} \cup ReceiptTags \cup ScreenshotTags
                                   \cup DocumentTags \cup TransportTags
SaidAlone(t) ==
    Cardinality({Proposed[i].source : i \in {j \in DOMAIN Proposed :
                    Normalize(Proposed[j].value) = t.value}}) = 1

\* A tag that only CLIP or only the caption proposed is in the response only
\* with the evidence its family asks for: people, vehicles, the look of a
\* screenshot, a receipt or a document, or words of payment or any text.  It is
\* called validated only if it is of such a family: through matching, merging
\* and filling up.
TagsRestOnEvidence ==
    phase = "done" =>
        \A t \in tags : t.source \in {"CLIP", "VLM"} /\ SaidAlone(t) =>
            /\ PhotoOfGroup(t) /\ VehicleSeen(t) /\ ScreenshotSeen(t)
            /\ ReceiptSeen(t) /\ DocumentSeen(t) /\ OfValidatedFamily(t)

\* A response has at least two tags, or as many as were asked for, never more,
\* and none twice, whatever the models said and whatever was dropped.
EnoughTags ==
    phase = "done" =>
        /\ Cardinality(tags) >= AtMost(2, job.top)
        /\ Cardinality(tags) <= job.top
        /\ \A t, u \in tags : t.value = u.value => t = u

\* The scores of the fourteen subtypes are so close that none has half of their
\* sum: no image is specialized or hybrid, and no rule that asks for more than
\* half a share ever applies.
NoShareDecides ==
    /\ view.route \in {"none", "generic", "ocr_text_dominant"}
    /\ \A i \in DOMAIN view.subtypes : view.subtypes[i].share < 5000

\* Once the service has answered that it is ready, or a warm-up has loaded a
\* model, no analysis fails because that model is not on disk: what is asked of
\* the disk in four places is asked alike.  Nobody takes models off the disk
\* while the service runs.
FailsForWant(c) == outcome[c] # "not available" /\ outcome'[c] = "not available"

NeverMissingOncePromised ==
    [][ /\ \A m \in {"yolo", "clip"} : FailsForWant(m) => m \notin promised
        /\ FailsForWant("ocr") => AttemptModel \notin promised ]_vars
=============================================================================
