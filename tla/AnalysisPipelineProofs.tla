------------------------ MODULE AnalysisPipelineProofs ------------------------
(***************************************************************************)
(* What a worker of the analysis service says of its analyses and of its   *)
(* models is true, for any settings, images, requests and answers of the   *)
(* models, and so are the tags: enough of them, and none without evidence. *)
(***************************************************************************)
EXTENDS AnalysisPipeline, TagMergerProofs

-----------------------------------------------------------------------------
(* The environment: settings never change, models never disappear.         *)

PromisesHold == \A m \in promised : Loadable(m)

Environment ==
    /\ settings \in Configs
    /\ disk \subseteq Models /\ promised \subseteq Models
    /\ PromisesHold

LEMMA InitEnvironment == Init => Environment
BY PipelineAssumption DEF Init, Environment, PromisesHold, Models

\* Nothing but a warm-up and a ready answer makes a promise; what is loadable
\* stays so while the disk grows.
LEMMA EnvironmentKept ==
    ASSUME Environment, settings' = settings, disk \subseteq disk',
           disk' \subseteq Models, promised' = promised
    PROVE  Environment'
BY DEF Environment, PromisesHold, Loadable, Specs, Available, Models

LEMMA NextEnvironment == Environment /\ [Next]_vars => Environment'
<1> SUFFICES ASSUME Environment, [Next]_vars PROVE Environment'
    OBVIOUS
<1>w. \A engines : Wanted(engines) \subseteq Models
    BY DEF Wanted, EngineModel, Models
<1>a. AttemptModel \in Models
    BY DEF AttemptModel, EngineModel, Models
<1>d. disk \subseteq Models
    BY DEF Environment
<1>1. CASE Download
    BY <1>1, <1>w, <1>d, EnvironmentKept DEF Download, vars, findings
<1>2. CASE WarmUp
  <2>1. PICK loaded \in SUBSET {m \in Wanted(WarmEngines) : Loadable(m)} :
            disk' = disk \cup loaded /\ promised' = promised \cup loaded
      BY <1>2 DEF WarmUp
  <2>2. settings' = settings
      BY <1>2 DEF WarmUp
  <2>3. \A m : Loadable(m) => Loadable(m)'
      BY <2>1, <2>2 DEF Loadable, Specs, Available
  <2> QED
      BY <2>1, <2>2, <2>3, <1>w DEF Environment, PromisesHold
<1>3. CASE AnswerReady
  <2>1. /\ settings' = settings /\ disk' = disk
        /\ promised' = promised \cup FastModels
        /\ \A m \in FastModels : Available(m)
      BY <1>3 DEF AnswerReady, FastReady
  <2>2. FastModels \subseteq Models
      BY DEF FastModels, Specs
  <2>3. \A m : Loadable(m) => Loadable(m)'
      BY <2>1 DEF Loadable, Specs, Available
  <2>4. \A m \in FastModels : Loadable(m)
      BY <2>1 DEF Loadable
  <2> QED
      BY <2>1, <2>2, <2>3, <2>4 DEF Environment, PromisesHold
<1>4. CASE Text
  <2>1. /\ settings' = settings /\ promised' = promised
        /\ disk' = disk \/ disk' = disk \cup {AttemptModel}
      BY <1>4 DEF Text, GivenText, SkipOcr, StartOcr, OcrMissing, EndOcr, OcrFails, OcrBreaksOff,
                  OcrReads, environment
  <2> QED
      BY <2>1, <1>a, <1>d, EnvironmentKept
<1>5. CASE Vision
  <2>1. /\ settings' = settings /\ promised' = promised
        /\ disk' = disk \/ disk' = disk \cup {"yolo"} \/ disk' = disk \cup {"clip"}
      BY <1>5 DEF Vision, CaptionSkipped, MockSeesNothing, OnlyText, YoloSkipped,
                  ClipSkipped, CaptionFails, YoloFails, ClipFails, CaptionGiven,
                  YoloDetects, ClipMatches, environment
  <2> QED
      BY <2>1, <1>d, EnvironmentKept DEF Models
<1>6. CASE (\E image \in Images, asked \in Requests : Begin(image, asked))
               \/ MakeTags \/ Finalize \/ Respond \/ UNCHANGED vars
    BY <1>6, <1>d, EnvironmentKept
       DEF Begin, MakeTags, Finalize, Respond, environment, vars
<1> QED
    BY <1>1, <1>2, <1>3, <1>4, <1>5, <1>6 DEF Next

\* What has been promised is there in every reachable state.
THEOREM PromisesAreKept == Spec => []PromisesHold
<1>1. Environment => PromisesHold
    BY DEF Environment
<1> QED
    BY <1>1, InitEnvironment, NextEnvironment, PTL DEF Spec
-----------------------------------------------------------------------------
(* How far the analysis is, and what has been tried until then.            *)

BeforeText == {"idle", "begun"}
BeforeCaption == BeforeText \cup {"ocr", "caption"}
BeforeObjects == BeforeCaption \cup {"look"}
BeforeMatching == BeforeObjects \cup {"clip"}

Shape ==
    /\ phase \in Phases
    /\ outcome \in [Components -> Causes \cup {"not run", "ok"}]
    /\ DOMAIN view = {"subtypes", "kind", "route", "likelihood"}
    /\ DOMAIN job = {"mode", "policy", "enhance", "top", "known", "text"}
    /\ job.top \in 1..30 /\ job.mode \in Modes \cup {"none"}

\* OCR is run as it was requested, unless the request had a policy of its own
\* or the text was known.
OcrFollows ==
    IF phase \in BeforeText THEN outcome.ocr = "not run"
    ELSE /\ phase = "ocr" /\ left # <<>> => outcome.ocr # "not run"
         /\ PolicyAgrees /\ outcome.ocr # "not run" => RequestedOcr
         /\ PolicyAgrees /\ RequestedOcr /\ ~HasText(job.text) => outcome.ocr # "not run"

CaptionFollows ==
    IF phase \in BeforeCaption THEN outcome.vlm = "not run"
    ELSE RequestedVlm <=> outcome.vlm # "not run"

ObjectsFollow ==
    IF phase \in BeforeObjects THEN outcome.yolo = "not run" /\ ~TextOnly
    ELSE RequestedYolo <=> outcome.yolo # "not run"

\* The matching is reached only by an image that has more than text.
MatchingFollows ==
    /\ phase = "clip" => ~Mock /\ ~TextOnly
    /\ IF phase \in BeforeMatching THEN outcome.clip = "not run"
       ELSE RequestedClip <=> outcome.clip # "not run"

VerdictStands ==
    IF phase = "done" THEN status = Verdict
    ELSE status = NoStatus

IInv ==
    /\ Environment
    /\ Shape
    /\ OcrFollows /\ CaptionFollows /\ ObjectsFollow /\ MatchingFollows
    /\ VerdictStands

LEMMA InitIInv == Init => IInv
<1> SUFFICES ASSUME Init PROVE IInv
    OBVIOUS
<1>1. Environment
    BY InitEnvironment
<1>2. Shape
  <2>1. phase \in Phases /\ outcome \in [Components -> Causes \cup {"not run", "ok"}]
      BY DEF Init, Phases, NotRun
  <2>2. DOMAIN view = {"subtypes", "kind", "route", "likelihood"}
      BY DEF Init, NoView
  <2>3. /\ DOMAIN job = {"mode", "policy", "enhance", "top", "known", "text"}
        /\ job.top \in 1..30 /\ job.mode \in Modes \cup {"none"}
      BY DEF Init, NoJob
  <2> QED
      BY <2>1, <2>2, <2>3 DEF Shape
<1>3. OcrFollows /\ CaptionFollows /\ ObjectsFollow /\ MatchingFollows /\ VerdictStands
    BY DEF Init, OcrFollows, CaptionFollows, ObjectsFollow, MatchingFollows,
           VerdictStands, TextOnly, BeforeText, BeforeCaption, BeforeObjects,
           BeforeMatching, NotRun, Components, NoView
<1> QED
    BY <1>1, <1>2, <1>3 DEF IInv

\* The first look never finds an image to be nothing but text: that takes the
\* text.
LEMMA FirstRoute ==
    ASSUME NEW im
    PROVE  /\ View(im).route # "ocr_text_dominant"
           /\ DOMAIN View(im) = {"subtypes", "kind", "route", "likelihood"}
BY DEF View, Route

\* There is something to try exactly if the settings name an engine.
LEMMA SomethingToTry ==
    ASSUME NEW mode, NEW kind
    PROVE  Attempts(SelectedEngines(mode), Variants(kind)) = <<>>
               <=> settings.engine = "none"
<1> DEFINE E == SelectedEngines(mode)
           V == Variants(kind)
<1>1. Len(V) \in Nat \ {0}
    BY DEF Variants
<1>2. /\ settings.engine = "none" => Len(E) = 0
      /\ settings.engine # "none" => Len(E) \in Nat \ {0}
    BY DEF SelectedEngines
<1>3. settings.engine = "none" => Len(E) * Len(V) = 0
    BY <1>1, <1>2
<1>4. settings.engine # "none" => Len(E) * Len(V) \in Nat \ {0}
    BY <1>1, <1>2
<1>5. DOMAIN Attempts(E, V) = 1 .. (Len(E) * Len(V))
    BY DEF Attempts
<1>6. CASE settings.engine = "none"
    BY <1>3, <1>5, <1>6 DEF Attempts
<1>7. CASE settings.engine # "none"
  <2>1. 1 \in DOMAIN Attempts(E, V)
      BY <1>4, <1>5, <1>7
  <2> QED
      BY <2>1, <1>7
<1> QED
    BY <1>6, <1>7

\* What the verdict rests on.
LEMMA SameVerdict ==
    ASSUME UNCHANGED <<settings, job, view, best, outcome, tags>>
    PROVE  Verdict' = Verdict
BY DEF Verdict, PipelineStatus, ComponentStatus, Requested, RequestedOcr, RequestedYolo,
       RequestedClip, RequestedVlm, Mock, TextOnly, Recognized
-----------------------------------------------------------------------------
(* One lemma for each part of the invariant.                               *)

\* Nothing that a request asks for depends on the route but what it is sent.
LEMMA RouteDoesNotRead ==
    ASSUME Shape, settings' = settings, UNCHANGED job,
           \/ UNCHANGED view
           \/ view' = [view EXCEPT !.route = "ocr_text_dominant"]
    PROVE  /\ RequestedOcr' <=> RequestedOcr
           /\ PolicyAgrees' <=> PolicyAgrees
           /\ RequestedVlm' <=> RequestedVlm
           /\ HasText(job.text)' <=> HasText(job.text)
<1>1. CASE UNCHANGED view
    BY <1>1 DEF RequestedOcr, PolicyAgrees, RequestedVlm, HasText, Mock
<1>2. CASE view' = [view EXCEPT !.route = "ocr_text_dominant"]
  <2>1. /\ view'.kind = view.kind /\ view'.subtypes = view.subtypes
        /\ view'.likelihood = view.likelihood
      BY <1>2 DEF Shape
  <2>2. ShouldRunOcr(view', settings.policy) = ShouldRunOcr(view, settings.policy)
      BY <2>1 DEF ShouldRunOcr, OcrKind
  <2> QED
      BY <2>2 DEF RequestedOcr, PolicyAgrees, RequestedVlm, HasText, Mock
<1> QED
    BY <1>1, <1>2

LEMMA NextShape == IInv /\ [Next]_vars => Shape'
<1> SUFFICES ASSUME IInv, [Next]_vars PROVE Shape'
    OBVIOUS
<1> USE DEF IInv
<1>1. CASE Download \/ WarmUp \/ AnswerReady \/ UNCHANGED vars
    BY <1>1 DEF Shape, Download, WarmUp, AnswerReady, vars, request
<1>2. ASSUME NEW image \in Images, NEW asked \in Requests, Begin(image, asked)
      PROVE  Shape'
  <2>1. phase' \in Phases /\ outcome' = outcome
      BY <1>2 DEF Begin, Phases
  <2>2. DOMAIN view' = {"subtypes", "kind", "route", "likelihood"}
      BY <1>2, FirstRoute DEF Begin
  <2>3. /\ DOMAIN job' = {"mode", "policy", "enhance", "top", "known", "text"}
        /\ job'.top = TopTags(asked.top) /\ job'.mode = ResolveMode(asked.mode)
      BY <1>2 DEF Begin
  <2>4. TopTags(asked.top) \in 1..30
    <3>1. asked.top \in Int
        BY PipelineAssumption
    <3> QED
        BY <3>1 DEF TopTags, AtMost
  <2>5. ResolveMode(asked.mode) \in Modes
    <3>1. settings.mode \in {"fast", "quality", "best"}
        BY PipelineAssumption DEF Environment
    <3> QED
        BY <3>1 DEF ResolveMode, Modes
  <2> QED
      BY <2>1, <2>2, <2>3, <2>4, <2>5 DEF Shape
<1>3. CASE Text
  <2>1. CASE GivenText \/ SkipOcr \/ EndOcr
      BY <2>1 DEF GivenText, SkipOcr, EndOcr, request, Phases, Shape
  <2>2. CASE StartOcr
    <3>1. /\ UNCHANGED <<job, view>> /\ phase' = "ocr"
          /\ outcome' = outcome \/ outcome' = [outcome EXCEPT !.ocr = "ok"]
        BY <2>2 DEF StartOcr, request
    <3> QED
        BY <3>1 DEF Shape, Phases
  <2>3. ASSUME NEW cause \in Causes, OcrFails(cause) \/ OcrMissing
        PROVE  Shape'
    <3>1. /\ UNCHANGED <<phase, job, view>>
          /\ \/ outcome' = [outcome EXCEPT !.ocr = cause]
             \/ outcome' = [outcome EXCEPT !.ocr = "not available"]
        BY <2>3 DEF OcrFails, OcrBreaksOff, OcrMissing, request
    <3> QED
        BY <3>1 DEF Shape, Causes
  <2>6. ASSUME NEW cause \in Causes, OcrBreaksOff(cause) PROVE Shape'
    <3>1. /\ UNCHANGED <<job, view>> /\ phase' = "caption"
          /\ outcome' = [outcome EXCEPT !.ocr = cause]
        BY <2>6 DEF OcrBreaksOff, request
    <3> QED
        BY <3>1 DEF Shape, Phases
  <2>4. ASSUME NEW r \in Readings, OcrReads(r) PROVE Shape'
      BY <2>4 DEF OcrReads, Shape
  <2>5. "error" \in Causes
      BY DEF Causes
  <2> QED
      BY <1>3, <2>1, <2>2, <2>3, <2>4, <2>5, <2>6 DEF Text
<1>4. CASE Vision
  <2>1. /\ UNCHANGED job /\ phase' \in Phases
        /\ view' = view \/ view' = [view EXCEPT !.route = "ocr_text_dominant"]
        /\ \/ outcome' = outcome
           \/ \E c \in Components, cause \in Causes \cup {"ok"} :
                  outcome' = [outcome EXCEPT ![c] = cause]
    <3>1. CASE CaptionSkipped \/ MockSeesNothing \/ OnlyText \/ YoloSkipped \/ ClipSkipped
        BY <3>1 DEF CaptionSkipped, MockSeesNothing, OnlyText, YoloSkipped, ClipSkipped,
                    request, Phases
    <3>2. ASSUME NEW cause \in Causes, NEW objects,
                 CaptionFails(cause) \/ YoloFails(cause, objects) \/ ClipFails(cause)
          PROVE  <2>1
      <4>1. /\ UNCHANGED <<job, view>> /\ phase' \in Phases
            /\ \/ outcome' = [outcome EXCEPT !["vlm"] = cause]
               \/ outcome' = [outcome EXCEPT !["yolo"] = cause]
               \/ outcome' = [outcome EXCEPT !["clip"] = cause]
          BY <3>2 DEF CaptionFails, YoloFails, ClipFails, request, Phases
      <4> QED
          BY <4>1 DEF Components
    <3>3. CASE \/ \E words \in Captions : CaptionGiven(words)
               \/ \E objects \in Detections : YoloDetects(objects)
               \/ \E ms \in Matches : ClipMatches(ms)
      <4>1. /\ UNCHANGED <<job, view>> /\ phase' \in Phases
            /\ \/ outcome' = [outcome EXCEPT !["vlm"] = "ok"]
               \/ outcome' = [outcome EXCEPT !["yolo"] = "ok"]
               \/ outcome' = [outcome EXCEPT !["clip"] = "ok"]
          BY <3>3 DEF CaptionGiven, YoloDetects, ClipMatches, request, Phases
      <4> QED
          BY <4>1 DEF Components
    <3> QED
        BY <1>4, <3>1, <3>2, <3>3 DEF Vision
  <2>2. outcome' \in [Components -> Causes \cup {"not run", "ok"}]
    <3>1. CASE outcome' = outcome
        BY <3>1 DEF Shape
    <3>2. ASSUME NEW c \in Components, NEW cause \in Causes \cup {"ok"},
                 outcome' = [outcome EXCEPT ![c] = cause]
          PROVE  outcome' \in [Components -> Causes \cup {"not run", "ok"}]
        BY <3>2 DEF Shape
    <3> QED
        BY <2>1, <3>1, <3>2
  <2>3. DOMAIN view' = DOMAIN view
      BY <2>1
  <2> QED
      BY <2>1, <2>2, <2>3 DEF Shape
<1>5. CASE MakeTags \/ Finalize
    BY <1>5 DEF MakeTags, Finalize, Shape, Phases, request
<1>6. CASE Respond
  <2>1. phase' \in Phases /\ outcome' \in [Components -> Causes \cup {"not run", "ok"}]
      BY <1>6 DEF Respond, Phases, NotRun
  <2>2. DOMAIN view' = {"subtypes", "kind", "route", "likelihood"}
      BY <1>6 DEF Respond, NoView
  <2>3. /\ DOMAIN job' = {"mode", "policy", "enhance", "top", "known", "text"}
        /\ job'.top \in 1..30 /\ job'.mode \in Modes \cup {"none"}
      BY <1>6 DEF Respond, NoJob
  <2> QED
      BY <2>1, <2>2, <2>3 DEF Shape
<1> QED
    BY <1>1, <1>2, <1>3, <1>4, <1>5, <1>6 DEF Next

\* An analysis that has its text does not touch OCR again.
LEMMA OcrStands ==
    ASSUME Shape, OcrFollows, phase \notin BeforeText, phase' \notin BeforeText \cup {"ocr"},
           settings' = settings, UNCHANGED job,
           view' = view \/ view' = [view EXCEPT !.route = "ocr_text_dominant"],
           outcome'.ocr = outcome.ocr
    PROVE  OcrFollows'
<1>1. /\ RequestedOcr' <=> RequestedOcr
      /\ PolicyAgrees' <=> PolicyAgrees
      /\ HasText(job.text)' <=> HasText(job.text)
    BY RouteDoesNotRead
<1> QED
    BY <1>1 DEF OcrFollows, BeforeText

LEMMA NextOcr == IInv /\ [Next]_vars => OcrFollows'
<1> SUFFICES ASSUME IInv, [Next]_vars PROVE OcrFollows'
    OBVIOUS
<1> USE DEF IInv
<1>1. CASE Download \/ WarmUp \/ AnswerReady \/ UNCHANGED vars
  <2>1. UNCHANGED <<settings, phase, job, view, left, best, outcome>>
      BY <1>1 DEF Download, WarmUp, AnswerReady, vars, request, text
  <2> QED
      BY <2>1, RouteDoesNotRead DEF OcrFollows
<1>2. ASSUME NEW image \in Images, NEW asked \in Requests, Begin(image, asked)
      PROVE  OcrFollows'
    BY <1>2 DEF Begin, OcrFollows, BeforeText
<1>3. CASE Text
  <2>1. CASE GivenText
    <3>1. /\ phase = "begun" /\ phase' = "caption" /\ UNCHANGED <<settings, job, view, outcome>>
          /\ Mock \/ HasText(job.text)
        BY <2>1 DEF GivenText, environment, request
    <3> QED
        BY <3>1, RouteDoesNotRead DEF OcrFollows, BeforeText, RequestedOcr
  <2>2. CASE SkipOcr
    <3>1. /\ phase = "begun" /\ phase' = "caption" /\ UNCHANGED <<settings, job, view, outcome>>
          /\ PolicyAgrees => ~RequestedOcr
        BY <2>2 DEF SkipOcr, MayReadText, environment, request, PolicyAgrees, RequestedOcr
    <3> QED
        BY <3>1, RouteDoesNotRead DEF OcrFollows, BeforeText
  <2>3. CASE StartOcr
    <3>1. /\ phase = "begun" /\ phase' = "ocr" /\ UNCHANGED <<settings, job, view>>
          /\ left' = Attempts(SelectedEngines(job.mode), Variants(OcrKind(view)))
          /\ outcome' = IF left' = <<>> THEN outcome ELSE [outcome EXCEPT !.ocr = "ok"]
          /\ ~Mock /\ ShouldRunOcr(view, job.policy)
        BY <2>3 DEF StartOcr, MayReadText, environment, request
    <3>2. left' = <<>> <=> settings.engine = "none"
        BY <3>1, SomethingToTry
    <3>3. PolicyAgrees => (RequestedOcr <=> left' # <<>>)
        BY <3>1, <3>2 DEF PolicyAgrees, RequestedOcr
    <3>4. IF left' = <<>> THEN outcome'.ocr = "not run" ELSE outcome'.ocr = "ok"
        BY <3>1 DEF OcrFollows, BeforeText, Shape, Components
    <3> QED
        BY <3>1, <3>3, <3>4, RouteDoesNotRead DEF OcrFollows, BeforeText
  <2>4. ASSUME OcrMissing \/ (\E cause \in Causes \ {"not available"} : OcrFails(cause))
                   \/ (\E r \in Readings : OcrReads(r))
        PROVE  OcrFollows'
    <3>1. /\ phase = "ocr" /\ left # <<>> /\ UNCHANGED <<settings, phase, job, view>>
          /\ \/ outcome' = outcome
             \/ \E cause \in Causes : outcome' = [outcome EXCEPT !.ocr = cause]
        BY <2>4 DEF OcrMissing, OcrFails, OcrBreaksOff, OcrReads, Attempting, environment, request, Causes
    <3>2. outcome.ocr # "not run"
        BY <3>1 DEF OcrFollows, BeforeText
    <3>3. outcome'.ocr # "not run"
      <4>1. ASSUME NEW cause \in Causes, outcome' = [outcome EXCEPT !.ocr = cause]
            PROVE  outcome'.ocr # "not run"
          BY <4>1 DEF Shape, Components, Causes
      <4> QED
          BY <3>1, <3>2, <4>1
    <3> QED
        BY <3>1, <3>2, <3>3, RouteDoesNotRead DEF OcrFollows, BeforeText
  <2>6. ASSUME NEW cause \in Causes, OcrBreaksOff(cause) PROVE OcrFollows'
    <3>1. /\ phase = "ocr" /\ left # <<>> /\ phase' = "caption"
          /\ UNCHANGED <<settings, job, view>>
          /\ outcome' = [outcome EXCEPT !.ocr = cause]
        BY <2>6 DEF OcrBreaksOff, Attempting, environment, request
    <3>2. outcome.ocr # "not run"
        BY <3>1 DEF OcrFollows, BeforeText
    <3>3. outcome'.ocr # "not run"
        BY <3>1 DEF Shape, Components, Causes
    <3> QED
        BY <3>1, <3>2, <3>3, RouteDoesNotRead DEF OcrFollows, BeforeText
  <2>5. CASE EndOcr
    <3>1. /\ phase = "ocr" /\ phase' = "caption" /\ UNCHANGED <<settings, job, view, outcome>>
        BY <2>5 DEF EndOcr, environment, request
    <3> QED
        BY <3>1, OcrStands DEF BeforeText
  <2> QED
      BY <1>3, <2>1, <2>2, <2>3, <2>4, <2>5, <2>6 DEF Text
<1>4. CASE Vision
  <2>1. /\ phase \in {"caption", "look", "clip"} /\ phase' \in {"look", "clip", "merge"}
        /\ UNCHANGED <<settings, job>>
        /\ view' = view \/ view' = [view EXCEPT !.route = "ocr_text_dominant"]
      BY <1>4 DEF Vision, CaptionSkipped, MockSeesNothing, OnlyText, YoloSkipped,
                  ClipSkipped, CaptionFails, YoloFails, ClipFails, CaptionGiven,
                  YoloDetects, ClipMatches, AsksForCaption, Looks, environment, request
  <2>2. outcome'.ocr = outcome.ocr
      BY <1>4 DEF Vision, CaptionSkipped, MockSeesNothing, OnlyText, YoloSkipped,
                  ClipSkipped, CaptionFails, YoloFails, ClipFails, CaptionGiven,
                  YoloDetects, ClipMatches, Shape, Components
  <2> QED
      BY <2>1, <2>2, OcrStands DEF BeforeText
<1>5. CASE MakeTags \/ Finalize
  <2>1. /\ phase \in {"merge", "finalize"} /\ phase' \in {"finalize", "done"}
        /\ UNCHANGED <<settings, job, view, outcome>>
      BY <1>5 DEF MakeTags, Finalize, environment, request
  <2> QED
      BY <2>1, OcrStands DEF BeforeText
<1>6. CASE Respond
    BY <1>6 DEF Respond, OcrFollows, BeforeText, NotRun, Components
<1> QED
    BY <1>1, <1>2, <1>3, <1>4, <1>5, <1>6 DEF Next

\* Steps before the image is looked at concern neither caption nor models.
LEMMA Early ==
    ASSUME Shape,
           \/ Download \/ WarmUp \/ AnswerReady \/ UNCHANGED vars \/ Text
           \/ \E image \in Images, asked \in Requests : Begin(image, asked)
    PROVE  /\ settings' = settings
           /\ \A c \in {"yolo", "clip", "vlm"} : outcome'[c] = outcome[c]
           /\ \/ UNCHANGED <<phase, job, view>>
              \/ /\ phase \in BeforeCaption \ {"caption"} /\ phase' \in BeforeCaption
                 /\ view' = view \/ view'.route # "ocr_text_dominant"
<1>1. CASE Download \/ WarmUp \/ AnswerReady \/ UNCHANGED vars
    BY <1>1 DEF Download, WarmUp, AnswerReady, vars, request
<1>2. ASSUME NEW image \in Images, NEW asked \in Requests, Begin(image, asked)
      PROVE  /\ UNCHANGED <<settings, outcome>> /\ phase = "idle" /\ phase' = "begun"
             /\ view'.route # "ocr_text_dominant"
    BY <1>2, FirstRoute DEF Begin, environment
<1>3. CASE Text
  <2>1. /\ settings' = settings /\ UNCHANGED <<job, view>>
        /\ \/ phase' = phase
           \/ phase \in {"begun", "ocr"} /\ phase' \in {"ocr", "caption"}
      BY <1>3 DEF Text, GivenText, SkipOcr, StartOcr, OcrMissing, OcrFails, OcrBreaksOff, OcrReads,
                  EndOcr, MayReadText, Attempting, environment, request
  <2>2. \A c \in {"yolo", "clip", "vlm"} : outcome'[c] = outcome[c]
    <3>1. CASE outcome' = outcome
        BY <3>1
    <3>2. ASSUME NEW cause, outcome' = [outcome EXCEPT !.ocr = cause]
          PROVE  \A c \in {"yolo", "clip", "vlm"} : outcome'[c] = outcome[c]
        BY <3>2 DEF Shape, Components
    <3>3. outcome' = outcome \/ \E cause : outcome' = [outcome EXCEPT !.ocr = cause]
        BY <1>3 DEF Text, GivenText, SkipOcr, StartOcr, OcrMissing, OcrFails, OcrBreaksOff, OcrReads,
                    EndOcr
    <3> QED
        BY <3>1, <3>2, <3>3
  <2> QED
      BY <2>1, <2>2 DEF BeforeCaption, BeforeText
<1> QED
    BY <1>1, <1>2, <1>3 DEF BeforeCaption, BeforeText

\* What is requested is the same while settings, request and view are.
LEMMA SameRequests ==
    ASSUME UNCHANGED <<settings, job, view>>
    PROVE  /\ RequestedVlm' <=> RequestedVlm
           /\ RequestedYolo' <=> RequestedYolo
           /\ RequestedClip' <=> RequestedClip
           /\ TextOnly' <=> TextOnly
           /\ Mock' <=> Mock
BY DEF RequestedVlm, RequestedYolo, RequestedClip, TextOnly, Mock

LEMMA NextCaption == IInv /\ [Next]_vars => CaptionFollows'
<1> SUFFICES ASSUME IInv, [Next]_vars PROVE CaptionFollows'
    OBVIOUS
<1> USE DEF IInv
<1>1. CASE \/ Download \/ WarmUp \/ AnswerReady \/ UNCHANGED vars \/ Text
           \/ \E image \in Images, asked \in Requests : Begin(image, asked)
    BY <1>1, Early, SameRequests DEF CaptionFollows, BeforeCaption, BeforeText
<1>2. CASE CaptionSkipped
  <2>1. /\ phase = "caption" /\ phase' = "look" /\ UNCHANGED <<settings, job, view, outcome>>
        /\ ~RequestedVlm
      BY <1>2 DEF CaptionSkipped, CaptionRuns, RequestedVlm, environment, request
  <2> QED
      BY <2>1, SameRequests DEF CaptionFollows, BeforeCaption, BeforeText
<1>3. ASSUME NEW words, NEW cause \in Causes, CaptionGiven(words) \/ CaptionFails(cause)
      PROVE  CaptionFollows'
  <2>1. /\ phase' = "look" /\ UNCHANGED <<settings, job, view>>
        /\ RequestedVlm
        /\ \/ outcome' = [outcome EXCEPT !.vlm = "ok"]
           \/ outcome' = [outcome EXCEPT !.vlm = cause]
      BY <1>3 DEF CaptionGiven, CaptionFails, AsksForCaption, CaptionRuns, RequestedVlm,
                  environment, request
  <2>2. outcome'.vlm # "not run"
      BY <2>1 DEF Shape, Components, Causes
  <2> QED
      BY <2>1, <2>2, SameRequests DEF CaptionFollows, BeforeCaption, BeforeText
<1>4. ASSUME \/ MockSeesNothing \/ OnlyText \/ YoloSkipped \/ ClipSkipped
             \/ \E cause \in Causes, objects \in Detections \cup {<<>>} : YoloFails(cause, objects)
             \/ \E cause \in Causes : ClipFails(cause)
             \/ \E objects \in Detections : YoloDetects(objects)
             \/ \E ms \in Matches : ClipMatches(ms)
             \/ MakeTags \/ Finalize
      PROVE  CaptionFollows'
  <2>1. /\ phase \notin BeforeCaption /\ phase' \notin BeforeCaption
        /\ UNCHANGED <<settings, job>>
        /\ view' = view \/ view' = [view EXCEPT !.route = "ocr_text_dominant"]
      BY <1>4 DEF MockSeesNothing, OnlyText, YoloSkipped, ClipSkipped, YoloFails, ClipFails,
                  YoloDetects, ClipMatches, MakeTags, Finalize, Looks, environment, request,
                  BeforeCaption, BeforeText
  <2>2. outcome'.vlm = outcome.vlm
      BY <1>4 DEF MockSeesNothing, OnlyText, YoloSkipped, ClipSkipped, YoloFails, ClipFails,
                  YoloDetects, ClipMatches, MakeTags, Finalize, Shape, Components
  <2>3. RequestedVlm' <=> RequestedVlm
      BY <2>1, RouteDoesNotRead
  <2> QED
      BY <2>1, <2>2, <2>3 DEF CaptionFollows, BeforeCaption, BeforeText
<1>5. CASE Respond
    BY <1>5 DEF Respond, CaptionFollows, BeforeCaption, BeforeText, NotRun, Components
<1>6. "error" \in Causes
    BY DEF Causes
<1> QED
    BY <1>1, <1>2, <1>3, <1>4, <1>5, <1>6 DEF Next, Vision

LEMMA NextModels == IInv /\ [Next]_vars => ObjectsFollow' /\ MatchingFollows'
<1> DEFINE Goal == ObjectsFollow' /\ MatchingFollows'
<1> SUFFICES ASSUME IInv, [Next]_vars PROVE Goal
    OBVIOUS
<1> USE DEF IInv
<1>1. CASE \/ Download \/ WarmUp \/ AnswerReady \/ UNCHANGED vars \/ Text
           \/ \E image \in Images, asked \in Requests : Begin(image, asked)
  <2>1. CASE UNCHANGED <<phase, job, view>>
      BY <1>1, <2>1, Early, SameRequests
         DEF ObjectsFollow, MatchingFollows, BeforeObjects, BeforeMatching
  <2>2. CASE /\ phase \in BeforeCaption \ {"caption"} /\ phase' \in BeforeCaption
             /\ view' = view \/ view'.route # "ocr_text_dominant"
      BY <1>1, <2>2, Early DEF ObjectsFollow, MatchingFollows, TextOnly, BeforeObjects,
                               BeforeMatching, BeforeCaption, BeforeText
  <2> QED
      BY <1>1, <2>1, <2>2, Early
<1>2. ASSUME \/ CaptionSkipped
             \/ \E words \in Captions : CaptionGiven(words)
             \/ \E cause \in Causes : CaptionFails(cause)
      PROVE  Goal
  <2>1. /\ phase = "caption" /\ phase' = "look" /\ UNCHANGED <<settings, job, view>>
        /\ outcome'.yolo = outcome.yolo /\ outcome'.clip = outcome.clip
      BY <1>2 DEF CaptionSkipped, CaptionGiven, CaptionFails, AsksForCaption,
                  environment, request, Shape, Components
  <2> QED
      BY <2>1, SameRequests DEF ObjectsFollow, MatchingFollows, BeforeObjects,
                                BeforeMatching, BeforeCaption, BeforeText
<1>3. CASE MockSeesNothing
  <2>1. /\ phase = "look" /\ phase' = "merge" /\ UNCHANGED <<settings, job, view, outcome>>
        /\ ~RequestedYolo /\ ~RequestedClip
      BY <1>3 DEF MockSeesNothing, RequestedYolo, RequestedClip, environment, request
  <2> QED
      BY <2>1, SameRequests DEF ObjectsFollow, MatchingFollows, BeforeObjects,
                                BeforeMatching, BeforeCaption, BeforeText
<1>4. CASE OnlyText
  <2>1. /\ phase = "look" /\ phase' = "merge" /\ outcome' = outcome
        /\ view'.route = "ocr_text_dominant"
      BY <1>4 DEF OnlyText, Shape
  <2>2. ~RequestedYolo' /\ ~RequestedClip'
      BY <2>1 DEF RequestedYolo, RequestedClip, TextOnly
  <2> QED
      BY <2>1, <2>2 DEF ObjectsFollow, MatchingFollows, BeforeObjects, BeforeMatching,
                        BeforeCaption, BeforeText
<1>5. ASSUME \/ YoloSkipped
             \/ \E cause \in Causes, objects \in Detections \cup {<<>>} : YoloFails(cause, objects)
             \/ \E objects \in Detections : YoloDetects(objects)
      PROVE  Goal
  <2>1. /\ phase = "look" /\ phase' = "clip" /\ UNCHANGED <<settings, job, view>>
        /\ ~Mock /\ ~TextOnly
      BY <1>5 DEF YoloSkipped, YoloFails, YoloDetects, Looks, environment, request,
                  ObjectsFollow, BeforeObjects
  <2>2. outcome'.clip = outcome.clip
      BY <1>5 DEF YoloSkipped, YoloFails, YoloDetects, Shape, Components
  <2>3. RequestedYolo <=> YoloRuns
      BY <2>1 DEF RequestedYolo, YoloRuns
  <2>4. YoloRuns <=> outcome'.yolo # "not run"
    <3>1. CASE YoloSkipped
        BY <2>1, <3>1 DEF YoloSkipped, ObjectsFollow, BeforeObjects
    <3>2. ASSUME NEW cause \in Causes, NEW objects, YoloFails(cause, objects)
          PROVE  YoloRuns /\ outcome'.yolo # "not run"
        BY <3>2 DEF YoloFails, Shape, Components, Causes
    <3>3. ASSUME NEW objects \in Detections, YoloDetects(objects)
          PROVE  YoloRuns /\ outcome'.yolo # "not run"
        BY <3>3 DEF YoloDetects, Shape, Components
    <3> QED
        BY <1>5, <3>1, <3>2, <3>3
  <2> QED
      BY <2>1, <2>2, <2>3, <2>4, SameRequests
         DEF ObjectsFollow, MatchingFollows, BeforeObjects, BeforeMatching,
             BeforeCaption, BeforeText
<1>6. ASSUME \/ ClipSkipped
             \/ \E cause \in Causes : ClipFails(cause)
             \/ \E ms \in Matches : ClipMatches(ms)
      PROVE  Goal
  <2>1. /\ phase = "clip" /\ phase' = "merge" /\ UNCHANGED <<settings, job, view>>
        /\ ~Mock /\ ~TextOnly
      BY <1>6 DEF ClipSkipped, ClipFails, ClipMatches, environment, request, MatchingFollows
  <2>2. outcome'.yolo = outcome.yolo
      BY <1>6 DEF ClipSkipped, ClipFails, ClipMatches, Shape, Components
  <2>3. RequestedClip <=> ClipRuns
      BY <2>1 DEF RequestedClip, ClipRuns
  <2>4. ClipRuns <=> outcome'.clip # "not run"
    <3>1. CASE ClipSkipped
        BY <2>1, <3>1 DEF ClipSkipped, MatchingFollows, BeforeMatching
    <3>2. ASSUME NEW cause \in Causes, ClipFails(cause)
          PROVE  ClipRuns /\ outcome'.clip # "not run"
        BY <3>2 DEF ClipFails, Shape, Components, Causes
    <3>3. ASSUME NEW ms \in Matches, ClipMatches(ms)
          PROVE  ClipRuns /\ outcome'.clip # "not run"
        BY <3>3 DEF ClipMatches, Shape, Components
    <3> QED
        BY <1>6, <3>1, <3>2, <3>3
  <2> QED
      BY <2>1, <2>2, <2>3, <2>4, SameRequests
         DEF ObjectsFollow, MatchingFollows, BeforeObjects, BeforeMatching,
             BeforeCaption, BeforeText
<1>7. CASE MakeTags \/ Finalize
  <2>1. /\ phase \in {"merge", "finalize"} /\ phase' \in {"finalize", "done"}
        /\ UNCHANGED <<settings, job, view, outcome>>
      BY <1>7 DEF MakeTags, Finalize, environment, request
  <2> QED
      BY <2>1, SameRequests DEF ObjectsFollow, MatchingFollows, BeforeObjects,
                                BeforeMatching, BeforeCaption, BeforeText
<1>8. CASE Respond
    BY <1>8 DEF Respond, ObjectsFollow, MatchingFollows, TextOnly, BeforeObjects,
                BeforeMatching, BeforeCaption, BeforeText, NotRun, NoView, Components
<1> QED
    BY <1>1, <1>2, <1>3, <1>4, <1>5, <1>6, <1>7, <1>8 DEF Next, Vision

LEMMA NextVerdict == IInv /\ [Next]_vars => VerdictStands'
<1> SUFFICES ASSUME IInv, [Next]_vars PROVE VerdictStands'
    OBVIOUS
<1> USE DEF IInv
<1>1. CASE Download \/ WarmUp \/ AnswerReady \/ UNCHANGED vars
  <2>1. UNCHANGED <<settings, phase, job, view, best, outcome, tags, status>>
      BY <1>1 DEF Download, WarmUp, AnswerReady, vars, request, text, result
  <2> QED
      BY <2>1, SameVerdict DEF VerdictStands
<1>2. CASE Text \/ Vision \/ MakeTags
           \/ \E image \in Images, asked \in Requests : Begin(image, asked)
  <2>1. /\ phase # "done" /\ phase' # "done" /\ status' = status
      BY <1>2 DEF Text, Vision, MakeTags, Begin, GivenText, SkipOcr, StartOcr, OcrMissing,
                  OcrFails, OcrBreaksOff, OcrReads, EndOcr, MayReadText, Attempting, CaptionSkipped,
                  MockSeesNothing, OnlyText, YoloSkipped, ClipSkipped, CaptionFails,
                  YoloFails, ClipFails, CaptionGiven, YoloDetects, ClipMatches,
                  AsksForCaption, Looks, result
  <2> QED
      BY <2>1 DEF VerdictStands
<1>3. CASE Finalize
  <2>1. /\ phase' = "done" /\ status' = Verdict
        /\ UNCHANGED <<settings, job, view, best, outcome, tags>>
      BY <1>3 DEF Finalize, environment, request, text
  <2> QED
      BY <2>1, SameVerdict DEF VerdictStands
<1>4. CASE Respond
    BY <1>4 DEF Respond, VerdictStands
<1> QED
    BY <1>1, <1>2, <1>3, <1>4 DEF Next

-----------------------------------------------------------------------------
(* What is proposed for an image.                                          *)

\* What CLIP matched, as candidates.
LEMMA MatchedTagsProper ==
    ASSUME matched \in Seq(TagMatch)
    PROVE  Proper(MatchedTags, {"CLIP"})
<1> DEFINE f == MatchedTags
           n == Len(matched)
<1>1. n \in Nat /\ DOMAIN matched = 1 .. n /\ \A i \in 1 .. n : matched[i].confidence \in Int
  <2>1. n \in Nat /\ DOMAIN matched = 1 .. n /\ \A i \in 1 .. n : matched[i] \in TagMatch
      OBVIOUS
  <2> QED
      BY <2>1 DEF TagMatch
<1>2. f = [i \in 1 .. n |-> Candidate(matched[i].tag, matched[i].confidence, "CLIP", 0)]
    BY <1>1 DEF MatchedTags
<1> HIDE DEF f, n
<1>3. f = [i \in 1 .. n |-> f[i]] /\ \A i \in 1 .. n : Good(f[i], {"CLIP"})
    BY <1>1, <1>2, GoodCandidate
<1>4. Proper(f, {"CLIP"})
    BY <1>1, <1>3, ProperMap
<1> QED
    BY <1>4 DEF f

\* Whatever the models say, what is proposed for an image is a list of
\* candidates, of the service's own sources and of the models that answered.
LEMMA ProposedProper ==
    ASSUME job.known \in Seq(STRING \X Int), view.subtypes \in Seq(Subtype),
           detected \in Seq(Objects), matched \in Seq(TagMatch),
           NEW L, Own \subseteq L,
           outcome.yolo = "ok" => "YOLO" \in L,
           matched # <<>> => "CLIP" \in L,
           caption # NoCaption => "VLM" \in L
    PROVE  Proper(Proposed, L)
<1> DEFINE t1 == FixtureTags(job.known)
           t2 == SystemTags(view.kind, Recognized, view.subtypes)
           d == DetectedTags(detected)
           t3 == When(outcome.yolo = "ok", d)
           c == ContextTags(detected, Recognized)
           t4 == When(~TextOnly, c)
           t5 == MatchedTags
           t6 == CaptionTags(caption)
<1>1. Proper(t1, L) /\ Proper(t2, L) /\ Proper(c, L)
    BY FixtureTagsProper, SystemTagsProper, ContextTagsProper, ProperMore
<1>e. Proper(<<>>, L)
    BY ProperLists
<1>2. Proper(t3, L)
  <2>1. CASE outcome.yolo = "ok"
    <3>1. Proper(d, {"YOLO"}) /\ {"YOLO"} \subseteq L
        BY <2>1, DetectedTagsProper
    <3>2. t3 = d
        BY <2>1 DEF When
    <3> QED
        BY <3>1, <3>2, ProperMore
  <2>2. CASE outcome.yolo # "ok"
      BY <1>e, <2>2 DEF When
  <2> QED
      BY <2>1, <2>2
<1>3. Proper(t5, L)
  <2>1. CASE matched # <<>>
    <3>1. Proper(t5, {"CLIP"}) /\ {"CLIP"} \subseteq L
        BY <2>1, MatchedTagsProper
    <3> QED
        BY <3>1, ProperMore
  <2>2. CASE matched = <<>>
    <3>1. t5 = <<>>
        BY <2>2 DEF MatchedTags
    <3> QED
        BY <1>e, <3>1
  <2> QED
      BY <2>1, <2>2
<1>4. Proper(t6, L)
  <2>1. CASE caption # NoCaption
    <3>1. Proper(t6, {"VLM"}) /\ {"VLM"} \subseteq L
        BY <2>1, CaptionTagsProper
    <3> QED
        BY <3>1, ProperMore
  <2>2. CASE caption = NoCaption
    <3>1. t6 = <<>>
        BY <2>2 DEF CaptionTags, When
    <3> QED
        BY <1>e, <3>1
  <2> QED
      BY <2>1, <2>2
<1>5. Proposed = t1 \o t2 \o t3 \o t4 \o t5 \o t6
    BY DEF Proposed
<1> HIDE DEF c, d
<1>6. Proper(t4, L)
    BY <1>1, ProperLists
<1> HIDE DEF t1, t2, t3, t4, t5, t6
<1>7. Proper(t1 \o t2 \o t3, L)
    BY <1>1, <1>2, ProperThen
<1>8. Proper(t1 \o t2 \o t3 \o t4, L)
    BY <1>6, <1>7, ProperThen
<1>9. Proper(t1 \o t2 \o t3 \o t4 \o t5, L)
    BY <1>3, <1>8, ProperThen
<1> QED
    BY <1>4, <1>5, <1>9, ProperThen

\* All sources of what is proposed.
Sources == Own \cup {"YOLO", "CLIP", "VLM"}

\* The tags of the mock provider.
LEMMA MockTagsAreListed ==
    IsList(MockTags) /\ \A i \in DOMAIN MockTags : MockTags[i].source = "MOCK"
<1> DEFINE digital == "digital media"
           a == Candidate("image", 9900, "MOCK", 0)
           b == Candidate("photo", 9500, "MOCK", 0)
           c == Candidate(digital, 8200, "MOCK", 0)
<1>1. MockTags = <<a, b, c>>
    BY DEF MockTags
<1> HIDE DEF digital
<1>2. /\ Entry(a) /\ a.source = "MOCK" /\ Entry(b) /\ b.source = "MOCK"
      /\ Entry(c) /\ c.source = "MOCK"
    BY CandidateIs
<1> HIDE DEF a, b, c
<1>3. MockTags \in Seq({a, b, c}) /\ Len(MockTags) \in Nat
    BY <1>1
<1>4. DOMAIN MockTags = 1 .. Len(MockTags)
    BY <1>3
<1>5. \A i \in DOMAIN MockTags : MockTags[i] \in {a, b, c}
    BY <1>3
<1>6. IsFiniteSet(1 .. Len(MockTags)) /\ 1 .. Len(MockTags) \in SUBSET Nat
    BY <1>3, FS_Interval
<1> QED
    BY <1>2, <1>4, <1>5, <1>6 DEF IsList

\* Of such a list there are enough tags.
LEMMA TagsAreEnough ==
    ASSUME NEW d, NEW n \in Nat, EnoughIn(d, n)
    PROVE  /\ Cardinality(TagsIn(d)) = Cardinality(DOMAIN d)
           /\ \A t, u \in TagsIn(d) : t.value = u.value => t = u
<1> DEFINE tag(i) == [value |-> d[i].value, source |-> d[i].source, validated |-> d[i].validated]
           f == [i \in DOMAIN d |-> tag(i)]
           D == DOMAIN d
           T == TagsIn(d)
<1>1. T = {tag(i) : i \in D}
    BY DEF TagsIn
<1>2. \A i, j \in D : tag(i).value = tag(j).value => i = j
    BY DEF EnoughIn
<1>3. IsFiniteSet(D)
    BY DEF EnoughIn, IsList
<1>4. \A t, u \in T : t.value = u.value => t = u
    BY <1>1, <1>2
<1>5. f \in Injection(D, T)
  <2>1. f \in [D -> T]
      BY <1>1
  <2>2. \A i, j \in D : f[i] = f[j] => i = j
      BY <1>2
  <2> QED
      BY <2>1, <2>2 DEF Injection, IsInjective
<1>6. f \in Surjection(D, T)
  <2>1. f \in [D -> T] /\ \A t \in T : \E i \in D : f[i] = t
      BY <1>1
  <2> QED
      BY <2>1 DEF Surjection
<1> HIDE DEF D, T, f
<1>7. Cardinality(T) = Cardinality(D)
    BY <1>3, <1>5, <1>6, FS_Surjection
<1> QED
    BY <1>4, <1>7 DEF T, D

-----------------------------------------------------------------------------
(* What the models have answered, and the tags made of it.                 *)

DataTyped ==
    /\ view.kind \in Kinds /\ view.subtypes \in Seq(Subtype)
    /\ job.known \in Seq(STRING \X Int)
    /\ detected \in Seq(Objects) /\ matched \in Seq(TagMatch)

Merging == IF Mock THEN MockTags ELSE Merge(Proposed, EvidenceFound)

Listed == EnsureMinimum(Merging, job.top, Recognized, view.kind)

\* From the merging on the tags are those of what was found.
TagsStand == phase \in {"finalize", "done"} => tags = TagsIn(Listed)

\* At the start there is nothing to say.
LEMMA InitTags == Init => DataTyped /\ TagsStand
<1> SUFFICES ASSUME Init PROVE DataTyped /\ TagsStand
    OBVIOUS
<1>1. view.kind \in Kinds /\ view.subtypes \in Seq(Subtype)
    BY DEF Init, NoView, Kinds
<1>2. job.known \in Seq(STRING \X Int)
    BY DEF Init, NoJob
<1>3. detected \in Seq(Objects) /\ matched \in Seq(TagMatch)
    BY DEF Init
<1>4. TagsStand
    BY DEF Init, TagsStand
<1> QED
    BY <1>1, <1>2, <1>3, <1>4 DEF DataTyped

\* What CLIP is believed is some of what it matched.
LEMMA ClipAcceptsType ==
    ASSUME NEW ms \in Seq(TagMatch)
    PROVE  ClipAccepts(ms) \in Seq(TagMatch)
<1> DEFINE ahead(i) == {j \in DOMAIN ms :
                           \/ Calibrated(ms[j]) > Calibrated(ms[i])
                           \/ Calibrated(ms[j]) = Calibrated(ms[i]) /\ j < i}
           taken(i) == Cardinality(ahead(i)) < settings.clipTop
           item(i) == When(taken(i) /\ Accepted(ms[i]), <<ms[i]>>)
           f == [i \in DOMAIN ms |-> item(i)]
<1>1. ClipAccepts(ms) = FlattenSeq(f)
    BY DEF ClipAccepts
<1>2. \A i \in DOMAIN ms : ms[i] \in TagMatch
    OBVIOUS
<1>3. \A i \in DOMAIN ms : item(i) \in Seq(TagMatch)
  <2> TAKE i \in DOMAIN ms
  <2> DEFINE c == ms[i]
             b == taken(i) /\ Accepted(ms[i])
  <2>1. c \in TagMatch
      BY <1>2
  <2> HIDE DEF b, c
  <2>2. When(b, <<c>>) \in Seq(TagMatch)
      BY <2>1 DEF When
  <2> QED
      BY <2>2 DEF b, c
<1> HIDE DEF item
<1>4. f \in Seq(Seq(TagMatch))
  <2>1. DOMAIN ms = 1 .. Len(ms) /\ Len(ms) \in Nat
      OBVIOUS
  <2> DEFINE n == Len(ms)
             S == Seq(TagMatch)
  <2>2. n \in Nat /\ f \in [1 .. n -> S]
      BY <1>3, <2>1
  <2> HIDE DEF n, S, f
  <2>3. f \in Seq(S)
      BY <2>2
  <2> QED
      BY <2>3 DEF S
<1> HIDE DEF f
<1> QED
    BY <1>1, <1>4, FlattenType

\* One lemma for each of the two.
LEMMA NextDataTyped == IInv /\ DataTyped /\ [Next]_vars => DataTyped'
<1> SUFFICES ASSUME IInv, DataTyped, [Next]_vars PROVE DataTyped'
    OBVIOUS
<1>1. CASE \/ Download \/ WarmUp \/ AnswerReady \/ UNCHANGED vars \/ Text
           \/ MakeTags \/ Finalize
  <2>1. UNCHANGED <<job, view, detected, matched>>
    <3>1. CASE Download \/ WarmUp \/ AnswerReady \/ UNCHANGED vars \/ MakeTags \/ Finalize
        BY <3>1 DEF Download, WarmUp, AnswerReady, MakeTags, Finalize, vars, request, findings
    <3>2. CASE Text
        BY <3>2 DEF Text, GivenText, SkipOcr, StartOcr, OcrMissing, OcrFails, OcrBreaksOff, OcrReads,
                    EndOcr, request, findings
    <3> QED
        BY <1>1, <3>1, <3>2
  <2> QED
      BY <2>1 DEF DataTyped
<1>2. ASSUME NEW image \in Images, NEW asked \in Requests, Begin(image, asked)
      PROVE  DataTyped'
  <2>1. image.gray \in Measures /\ image.known \in Seq(STRING \X Int)
      BY PipelineAssumption
  <2>2. /\ view' = View(image.gray) /\ job'.known = image.known
        /\ UNCHANGED <<detected, matched>>
      BY <1>2 DEF Begin, findings
  <2>3. View(image.gray).kind \in Kinds /\ View(image.gray).subtypes \in Seq(Subtype)
      BY <2>1, ViewType
  <2> QED
      BY <2>1, <2>2, <2>3 DEF DataTyped
<1>3. CASE Vision
  <2>1. CASE CaptionSkipped \/ MockSeesNothing \/ YoloSkipped \/ ClipSkipped
      BY <2>1 DEF CaptionSkipped, MockSeesNothing, YoloSkipped, ClipSkipped, request,
                  findings, DataTyped
  <2>2. CASE OnlyText
    <3>1. /\ view' = [view EXCEPT !.route = "ocr_text_dominant"]
          /\ UNCHANGED <<job, detected, matched>>
        BY <2>2 DEF OnlyText, findings
    <3>2. view'.kind = view.kind /\ view'.subtypes = view.subtypes
        BY <3>1 DEF IInv, Shape
    <3> QED
        BY <3>1, <3>2 DEF DataTyped
  <2>3. ASSUME NEW cause \in Causes, CaptionFails(cause) \/ ClipFails(cause)
        PROVE  DataTyped'
      BY <2>3 DEF CaptionFails, ClipFails, request, findings, DataTyped
  <2>4. ASSUME NEW words \in Captions, CaptionGiven(words) PROVE DataTyped'
      BY <2>4 DEF CaptionGiven, request, DataTyped
  <2>5. ASSUME NEW objects \in Detections \cup {<<>>}, NEW cause,
               YoloDetects(objects) \/ YoloFails(cause, objects)
        PROVE  DataTyped'
    <3>1. detected' = objects /\ UNCHANGED <<job, view, matched>>
        BY <2>5 DEF YoloDetects, YoloFails, request
    <3>2. objects \in Seq(Objects)
      <4>1. CASE objects \in Detections
          BY <4>1, PipelineAssumption DEF Objects
      <4>2. CASE objects = <<>>
          BY <4>2
      <4> QED
          BY <4>1, <4>2
    <3> QED
        BY <3>1, <3>2 DEF DataTyped
  <2>6. ASSUME NEW ms \in Matches, ClipMatches(ms) PROVE DataTyped'
    <3>1. matched' = ClipAccepts(ms) /\ UNCHANGED <<job, view, detected>>
        BY <2>6 DEF ClipMatches
    <3>2. ms \in Seq(TagMatch)
        BY PipelineAssumption DEF TagMatch
    <3>3. ClipAccepts(ms) \in Seq(TagMatch)
        BY <3>2, ClipAcceptsType
    <3> QED
        BY <3>1, <3>3 DEF DataTyped
  <2> QED
      BY <1>3, <2>1, <2>2, <2>3, <2>4, <2>5, <2>6 DEF Vision
<1>4. CASE Respond
  <2>1. view' = NoView /\ job' = NoJob /\ detected' = <<>> /\ matched' = <<>>
      BY <1>4 DEF Respond
  <2>2. NoView.kind \in Kinds /\ NoView.subtypes = <<>> /\ NoJob.known = <<>>
      BY DEF NoView, NoJob, Kinds
  <2> QED
      BY <2>1, <2>2 DEF DataTyped
<1> QED
    BY <1>1, <1>2, <1>3, <1>4 DEF Next

\* What the tags rest on.
LEMMA SameListed ==
    ASSUME UNCHANGED <<settings, job, view, best, outcome, detected, matched, caption>>
    PROVE  Listed' = Listed
<1>1. Mock' <=> Mock
    BY DEF Mock
<1>2. Proposed' = Proposed /\ EvidenceFound' = EvidenceFound /\ Recognized' = Recognized
    BY DEF Proposed, MatchedTags, EvidenceFound, Recognized, TextOnly
<1>3. Merging' = Merging
    BY <1>1, <1>2 DEF Merging
<1> QED
    BY <1>2, <1>3 DEF Listed

LEMMA NextTagsStand == TagsStand /\ [Next]_vars => TagsStand'
<1> SUFFICES ASSUME TagsStand, [Next]_vars PROVE TagsStand'
    OBVIOUS
<1>1. CASE Download \/ WarmUp \/ AnswerReady \/ UNCHANGED vars
  <2>1. UNCHANGED <<settings, phase, job, view, best, outcome, detected, matched, caption, tags>>
      BY <1>1 DEF Download, WarmUp, AnswerReady, vars, request, text, result, findings
  <2> QED
      BY <2>1, SameListed DEF TagsStand
<1>2. CASE Text \/ Vision \/ Respond
           \/ \E image \in Images, asked \in Requests : Begin(image, asked)
  <2>1. phase' \notin {"finalize", "done"}
      BY <1>2 DEF Text, Vision, Begin, Respond, GivenText, SkipOcr, StartOcr, OcrMissing,
                  OcrFails, OcrBreaksOff, OcrReads, EndOcr, MayReadText, Attempting, CaptionSkipped,
                  MockSeesNothing, OnlyText, YoloSkipped, ClipSkipped, CaptionFails,
                  YoloFails, ClipFails, CaptionGiven, YoloDetects, ClipMatches
  <2> QED
      BY <2>1 DEF TagsStand
<1>3. CASE MakeTags
  <2>1. UNCHANGED <<settings, job, view, best, outcome, detected, matched, caption>>
      BY <1>3 DEF MakeTags, environment, request, text, findings
  <2>2. tags' = TagsIn(Listed)
      BY <1>3 DEF MakeTags, Listed, Merging
  <2> QED
      BY <2>1, <2>2, SameListed DEF TagsStand
<1>4. CASE Finalize
  <2>1. /\ phase = "finalize"
        /\ UNCHANGED <<settings, job, view, best, outcome, detected, matched, caption, tags>>
      BY <1>4 DEF Finalize, environment, request, text, findings
  <2> QED
      BY <2>1, SameListed DEF TagsStand
<1> QED
    BY <1>1, <1>2, <1>3, <1>4 DEF Next

-----------------------------------------------------------------------------
(* Results.                                                                *)

\* The invariant holds in every reachable state.
THEOREM Invariance == Spec => []IInv
<1>1. IInv /\ [Next]_vars => IInv'
    BY NextEnvironment, NextShape, NextOcr, NextCaption, NextModels, NextVerdict DEF IInv
<1> QED
    BY <1>1, InitIInv, PTL DEF Spec

\* The tags of every analysis are those of what was found in it.
THEOREM TagsInvariance == Spec => [](DataTyped /\ TagsStand)
<1>1. IInv /\ DataTyped /\ TagsStand /\ [Next]_vars => (DataTyped /\ TagsStand)'
    BY NextDataTyped, NextTagsStand
<1> QED
    BY <1>1, InitTags, Invariance, PTL DEF Spec

\* What the verdict says of each component.
LEMMA VerdictSays ==
    ASSUME VerdictStands, phase = "done"
    PROVE  /\ status.ocr = ComponentStatus(RequestedOcr, "ocr")
           /\ status.yolo = ComponentStatus(RequestedYolo, "yolo")
           /\ status.clip = ComponentStatus(RequestedClip, "clip")
           /\ status.vlm = ComponentStatus(RequestedVlm, "vlm")
           /\ status.pipeline =
                  PipelineStatus({ComponentStatus(Requested[d], d) : d \in Components})
BY DEF VerdictStands, Verdict, Requested, Components

\* Types are kept: no request asks for fewer than one or more than thirty tags.
THEOREM TypeCorrect == Spec => []TypeOK
<1> SUFFICES ASSUME IInv PROVE TypeOK
    BY Invariance, PTL
<1>1. status["pipeline"] \in {"none", "COMPLETED", "PARTIALLY_COMPLETED", "FAILED"}
  <2>1. CASE phase = "done"
      BY <2>1, VerdictSays DEF IInv, PipelineStatus
  <2>2. CASE phase # "done"
      BY <2>2 DEF IInv, VerdictStands, NoStatus
  <2> QED
      BY <2>1, <2>2
<1> QED
    BY <1>1 DEF IInv, Environment, Shape, TypeOK

\* At the end of an analysis a component is said to have been requested
\* exactly if it was run.
LEMMA RequestedIsRun ==
    ASSUME IInv, phase = "done"
    PROVE  /\ RequestedYolo <=> outcome.yolo # "not run"
           /\ RequestedClip <=> outcome.clip # "not run"
           /\ RequestedVlm <=> outcome.vlm # "not run"
           /\ PolicyAgrees /\ ~HasText(job.text) => (RequestedOcr <=> outcome.ocr # "not run")
           /\ PolicyAgrees /\ outcome.ocr # "not run" => RequestedOcr
BY DEF IInv, OcrFollows, CaptionFollows, ObjectsFollow, MatchingFollows, BeforeText,
       BeforeCaption, BeforeObjects, BeforeMatching

\* The component statuses of a response say what was run.
THEOREM StatusesTellWhatRan == Spec => []StatusMatchesWhatRan
<1> SUFFICES ASSUME IInv, phase = "done" PROVE StatusMatchesWhatRan
    BY Invariance, PTL DEF StatusMatchesWhatRan
<1>1. ASSUME NEW c, NEW requested \in BOOLEAN
      PROVE  ComponentStatus(requested, c) = "NOT_REQUESTED" <=> ~requested
    BY DEF ComponentStatus, Classify
<1>2. /\ RequestedYolo \in BOOLEAN /\ RequestedClip \in BOOLEAN
      /\ RequestedVlm \in BOOLEAN /\ RequestedOcr \in BOOLEAN
    BY DEF RequestedYolo, RequestedClip, RequestedVlm, RequestedOcr
<1>3. /\ status["yolo"] = "NOT_REQUESTED" <=> outcome["yolo"] = "not run"
      /\ status["clip"] = "NOT_REQUESTED" <=> outcome["clip"] = "not run"
      /\ status["vlm"] = "NOT_REQUESTED" <=> outcome["vlm"] = "not run"
    BY <1>1, <1>2, VerdictSays, RequestedIsRun DEF IInv
<1>4. PolicyAgrees /\ ~HasText(job.text) =>
          (status["ocr"] = "NOT_REQUESTED" <=> outcome["ocr"] = "not run")
    BY <1>1, <1>2, VerdictSays, RequestedIsRun DEF IInv
<1> QED
    BY <1>3, <1>4 DEF StatusMatchesWhatRan, Components

\* The same for the models that see, by name.
LEMMA VisionRequests ==
    ASSUME IInv, phase = "done"
    PROVE  \A c \in Components \ {"ocr"} : outcome[c] # "not run" <=> Requested[c]
<1>1. /\ outcome.yolo # "not run" <=> RequestedYolo
      /\ outcome.clip # "not run" <=> RequestedClip
      /\ outcome.vlm # "not run" <=> RequestedVlm
    BY RequestedIsRun
<1>2. /\ Requested.yolo = RequestedYolo /\ Requested.clip = RequestedClip
      /\ Requested.vlm = RequestedVlm
    BY DEF Requested
<1> QED
    BY <1>1, <1>2 DEF Components

\* An analysis that is COMPLETED had no error in a component it counts.
THEOREM CompletedIsComplete == Spec => []CompletedMeansNothingFailed
<1> SUFFICES ASSUME IInv, phase = "done", status["pipeline"] = "COMPLETED"
             PROVE  /\ \A c \in Components :
                           (c = "ocr" => PolicyAgrees) => outcome[c] \notin Causes
                    /\ PolicyAgrees /\ outcome["ocr"] = "ok" => HasText(Recognized)
    BY Invariance, PTL DEF CompletedMeansNothingFailed
<1> DEFINE S == {ComponentStatus(Requested[d], d) : d \in Components}
<1>1. (S \ {"NOT_REQUESTED"}) \cap (Failures \cup {"PARTIAL"}) = {}
    BY VerdictSays DEF IInv, PipelineStatus
<1>2. \A c \in Components : ComponentStatus(Requested[c], c) \notin Failures \cup {"PARTIAL"}
    BY <1>1 DEF Failures
<1>3. \A c \in Components : Requested[c] => outcome[c] \notin Causes
    BY <1>2 DEF ComponentStatus, Classify, Failures
<1>4. \A c \in Components : (c = "ocr" => PolicyAgrees) /\ outcome[c] # "not run" => Requested[c]
  <2>1. \A c \in Components \ {"ocr"} : outcome[c] # "not run" => Requested[c]
      BY VisionRequests
  <2>2. PolicyAgrees /\ outcome["ocr"] # "not run" => Requested["ocr"]
      BY RequestedIsRun DEF Requested
  <2> QED
      BY <2>1, <2>2
<1>5. \A c \in Components : (c = "ocr" => PolicyAgrees) => outcome[c] \notin Causes
    BY <1>3, <1>4 DEF Causes
<1>6. ASSUME PolicyAgrees, outcome["ocr"] = "ok" PROVE HasText(Recognized)
    BY <1>2, <1>4, <1>6 DEF ComponentStatus, Components, Causes
<1> QED
    BY <1>5, <1>6

\* What is proposed is a list of candidates.
LEMMA ProposedIsGood ==
    ASSUME DataTyped
    PROVE  IsList(Proposed) /\ \A i \in DOMAIN Proposed : Good(Proposed[i], Sources)
<1>1. Own \subseteq Sources /\ {"YOLO", "CLIP", "VLM"} \subseteq Sources
    BY DEF Sources
<1>2. Proper(Proposed, Sources)
    BY <1>1, ProposedProper DEF DataTyped
<1> QED
    BY <1>2, ProperIsList

\* What is merged is a list, and so what is made of it has enough tags.
LEMMA MergingIsList ==
    ASSUME DataTyped
    PROVE  IsList(Merging)
<1>1. IsList(Proposed)
    BY ProposedIsGood
<1>2. IsList(Merge(Proposed, EvidenceFound))
    BY <1>1, MergeGives
<1> QED
    BY <1>2, MockTagsAreListed DEF Merging

LEMMA ListedIs ==
    ASSUME IInv, DataTyped
    PROVE  /\ job.top \in Nat \ {0} /\ EnoughIn(Listed, job.top)
           /\ \A i \in DOMAIN Listed :
                  Listed[i].source = "FALLBACK" \/ StemsFrom(Listed, i, Merging)
<1>1. job.top \in 1..30
    BY DEF IInv, Shape
<1>2. job.top \in Nat \ {0}
    BY <1>1
<1>3. view.kind \in Kinds
    BY DEF DataTyped
<1> QED
    BY <1>2, <1>3, MergingIsList, EnsureMinimumGives DEF Listed

LEMMA TagsOfListed ==
    ASSUME IInv, DataTyped, TagsStand, phase = "done"
    PROVE  /\ Cardinality(tags) >= AtMost(2, job.top)
           /\ Cardinality(tags) <= job.top
           /\ \A t, u \in tags : t.value = u.value => t = u
<1>1. tags = TagsIn(Listed)
    BY DEF TagsStand
<1>2. job.top \in Nat /\ EnoughIn(Listed, job.top)
    BY ListedIs
<1>3. /\ Cardinality(DOMAIN Listed) >= AtMost(2, job.top)
      /\ Cardinality(DOMAIN Listed) <= job.top
    BY <1>2 DEF EnoughIn
<1> QED
    BY <1>1, <1>2, <1>3, TagsAreEnough

\* A response has two tags or as many as were asked for, never more, and none
\* twice, whatever the models answered.
THEOREM TagsSuffice == Spec => []EnoughTags
<1>1. IInv /\ DataTyped /\ TagsStand => EnoughTags
    BY TagsOfListed DEF EnoughTags
<1> QED
    BY <1>1, Invariance, TagsInvariance, PTL

\* What a model said and the response repeats was backed when it was merged.
LEMMA TagIsBacked ==
    ASSUME IInv, DataTyped, TagsStand, phase = "done",
           NEW t \in tags, t.source \in {"YOLO", "CLIP", "VLM"}
    PROVE  IsBacked(t, Proposed, EvidenceFound)
<1>1. PICK i \in DOMAIN Listed : /\ t.value = Listed[i].value /\ t.source = Listed[i].source
                                 /\ t.validated = Listed[i].validated
    BY DEF TagsStand, TagsIn
<1>2. StemsFrom(Listed, i, Merging)
    BY <1>1, ListedIs
<1>3. PICK k \in DOMAIN Merging :
          /\ t.value = Normalize(Merging[k].value) /\ t.source = Merging[k].source
          /\ t.validated = Merging[k].validated
    BY <1>1, <1>2 DEF StemsFrom
<1>4. ~Mock
    BY <1>3, MockTagsAreListed DEF Merging
<1>5. IsList(Proposed)
    BY ProposedIsGood
<1>6. IsBacked(Merging[k], Proposed, EvidenceFound)
    BY <1>3, <1>4, <1>5, MergeGives DEF Merging
<1>7. t.value = Merging[k].value
    BY <1>3, <1>6 DEF IsBacked
<1> QED
    BY <1>3, <1>6, <1>7 DEF IsBacked

\* What is said by one model alone is supported by the evidence of its family.
LEMMA SupportedAlone ==
    ASSUME NEW value, NEW source, NEW count, NEW ev, ~(count >= 2), source \notin Certain,
           Supported(value, source, count, ev)
    PROVE  /\ value = "group photo" => ev.people >= 2
           /\ value \in ScreenshotTags /\ source \in {"CLIP", "VLM"} => LooksLikeScreenshot(ev)
           /\ value \in TransportTags /\ source = "CLIP" => ShowsTransport(ev)
           /\ value \in ReceiptTags /\ source \in {"CLIP", "VLM"} => LooksLikeReceipt(ev)
           /\ value \in DocumentTags /\ source \in {"CLIP", "VLM"} =>
                  LooksLikeDocument(ev) \/ ~LooksLikePhoto(ev)
<1>1. ~(source \in Certain) /\ ~(count >= 2)
    OBVIOUS
<1>2. ASSUME value = "group photo" PROVE ev.people >= 2
    BY <1>1, <1>2, Zenon DEF Supported
<1>3. ASSUME value \in ScreenshotTags, source \in {"CLIP", "VLM"} PROVE LooksLikeScreenshot(ev)
    BY <1>1, <1>3, Zenon DEF Supported
<1>4. value \in TransportTags /\ source = "CLIP" => ShowsTransport(ev)
    BY <1>1, Zenon DEF Supported
<1>5. ASSUME value \in ReceiptTags, source \in {"CLIP", "VLM"} PROVE LooksLikeReceipt(ev)
  <2>1. source \in {"CLIP", "VLM", "CONTEXT"}
      BY <1>5
  <2> QED
      BY <1>1, <1>5, <2>1, Zenon DEF Supported
<1>6. ASSUME value \in DocumentTags, source \in {"CLIP", "VLM"}
      PROVE  LooksLikeDocument(ev) \/ ~LooksLikePhoto(ev)
    BY <1>1, <1>6, Zenon DEF Supported
<1> QED
    BY <1>2, <1>3, <1>4, <1>5, <1>6, Zenon

LEMMA ValidatedAlone ==
    ASSUME NEW value, NEW source, NEW count, NEW ev, ~(count >= 2),
           source \notin Certain \cup {"CONTEXT"},
           Validated(value, source, count, ev)
    PROVE  value \in {"group photo"} \cup ReceiptTags \cup ScreenshotTags
                         \cup DocumentTags \cup TransportTags
BY Zenon DEF Validated

\* The evidence of a tag that CLIP or the caption proposed alone.
LEMMA EvidenceOf ==
    ASSUME IInv, DataTyped, TagsStand, phase = "done",
           NEW t \in tags, t.source \in {"CLIP", "VLM"}, SaidAlone(t)
    PROVE  /\ PhotoOfGroup(t) /\ VehicleSeen(t) /\ ScreenshotSeen(t)
           /\ ReceiptSeen(t) /\ DocumentSeen(t) /\ OfValidatedFamily(t)
<1> DEFINE G == Group(Proposed, t.value)
           count == Cardinality(SourcesOf(Proposed, G))
           ev == EvidenceFound
<1>1. IsBacked(t, Proposed, ev)
    BY TagIsBacked
<1>2. count = 1
    BY DEF SaidAlone, SourcesOf, Group
<1>3. ~(count >= 2) /\ t.source \notin Certain \cup {"CONTEXT"}
    BY <1>2 DEF Certain
<1>4. Supported(t.value, t.source, count, ev) /\ t.validated = Validated(t.value, t.source, count, ev)
    BY <1>1 DEF IsBacked
<1>5. /\ ev.people = PeopleIn(detected) /\ ev.labels = Labels(detected)
      /\ ev.kind = view.kind /\ ev.subtypes = view.subtypes /\ ev.text = Recognized
    BY DEF EvidenceFound
<1>6. ASSUME t.value \in TransportTags PROVE t.source = "CLIP"
  <2>1. PICK k \in G : t.source = Proposed[k].source
      BY <1>1 DEF IsBacked
  <2>2. k \in DOMAIN Proposed /\ Normalize(Proposed[k].value) = t.value
      BY <2>1 DEF Group
  <2>3. Good(Proposed[k], Sources)
      BY <2>2, ProposedIsGood
  <2> QED
      BY <1>6, <2>1, <2>2, <2>3 DEF Good
<1> HIDE DEF G, count, ev
<1>7. /\ t.value = "group photo" => ev.people >= 2
      /\ t.value \in ScreenshotTags => LooksLikeScreenshot(ev)
      /\ t.value \in TransportTags => ShowsTransport(ev)
      /\ t.value \in ReceiptTags => LooksLikeReceipt(ev)
      /\ t.value \in DocumentTags =>
             LooksLikeDocument(ev) \/ ~LooksLikePhoto(ev)
    BY <1>3, <1>4, <1>6, SupportedAlone, Zenon
<1>8. OfValidatedFamily(t)
    BY <1>3, <1>4, ValidatedAlone, Zenon DEF OfValidatedFamily
<1>9. PhotoOfGroup(t)
    BY <1>5, <1>7, Zenon DEF PhotoOfGroup
<1>10. ScreenshotSeen(t)
  <2> DEFINE Shot == \/ view.kind \in {"screenshot", "chat_screenshot", "code_screenshot"}
                     \/ HasShare(view.subtypes, ScreenshotTypes, 1800)
  <2>1. LooksLikeScreenshot(ev) => Shot
      BY <1>5 DEF LooksLikeScreenshot
  <2> HIDE DEF Shot
  <2>2. t.value \in ScreenshotTags => Shot
      BY <1>7, <2>1, Zenon
  <2> QED
      BY <2>2, Zenon DEF ScreenshotSeen, Shot
<1>11. VehicleSeen(t)
  <2> DEFINE Vehicle == \E i \in DOMAIN detected : detected[i].label \in TransportLabels
  <2>1. ShowsTransport(ev) => Vehicle
      BY <1>5 DEF ShowsTransport, Labels
  <2>2. TransportTags = {"transport", "vehicle", "bus stop"}
      BY Zenon DEF TransportTags
  <2> HIDE DEF Vehicle
  <2>3. t.value \in {"transport", "vehicle", "bus stop"} => Vehicle
      BY <1>7, <2>1, <2>2, Zenon
  <2> QED
      BY <2>3, Zenon DEF VehicleSeen, Vehicle
<1>12. ReceiptSeen(t)
  <2> DEFINE Receipt == HasShare(view.subtypes, DocumentTypes, 1800) \/ Recognized.payment
  <2>1. LooksLikeReceipt(ev) => Receipt
      BY <1>5 DEF LooksLikeReceipt
  <2> HIDE DEF Receipt
  <2>2. t.value \in ReceiptTags => Receipt
      BY <1>7, <2>1, Zenon
  <2> QED
      BY <2>2, Zenon DEF ReceiptSeen, Receipt
<1>13. DocumentSeen(t)
  <2> DEFINE Page == HasShare(view.subtypes, DocumentTypes, 1400)
             Words == HasText(Recognized)
             Photo == HasShare(view.subtypes, NaturalTypes, 4500)
  <2>1. /\ LooksLikeDocument(ev) => Page \/ Words
        /\ LooksLikePhoto(ev) <=> Photo
      BY <1>5 DEF LooksLikeDocument, LooksLikePhoto
  <2>2. DocumentSeen(t) <=> (t.value \in DocumentTags => Page \/ Words \/ ~Photo)
      BY DEF DocumentSeen
  <2> HIDE DEF Page, Words, Photo
  <2>3. t.value \in DocumentTags => Page \/ Words \/ ~Photo
      BY <1>7, <2>1, Zenon
  <2> QED
      BY <2>2, <2>3
<1> QED
    BY <1>8, <1>9, <1>10, <1>11, <1>12, <1>13

\* No tag that CLIP or the caption proposed alone is without its evidence.
THEOREM TagsHaveEvidence == Spec => []TagsRestOnEvidence
<1>1. IInv /\ DataTyped /\ TagsStand => TagsRestOnEvidence
    BY EvidenceOf DEF TagsRestOnEvidence
<1> QED
    BY <1>1, Invariance, TagsInvariance, PTL

\* What CLIP or the caption gave, it gave in a run that is counted as answered.
AnswersCounted ==
    /\ matched # <<>> => outcome.clip = "ok"
    /\ caption # NoCaption => outcome.vlm = "ok"

LEMMA NextAnswersCounted == IInv /\ AnswersCounted /\ [Next]_vars => AnswersCounted'
<1> SUFFICES ASSUME IInv, AnswersCounted, [Next]_vars PROVE AnswersCounted'
    OBVIOUS
<1> USE DEF IInv
<1>1. ASSUME UNCHANGED <<matched, caption>>, outcome'.clip = outcome.clip,
             outcome'.vlm = outcome.vlm
      PROVE  AnswersCounted'
    BY <1>1 DEF AnswersCounted
<1>2. CASE \/ Download \/ WarmUp \/ AnswerReady \/ UNCHANGED vars \/ Text
           \/ \E image \in Images, asked \in Requests : Begin(image, asked)
  <2>1. UNCHANGED <<matched, caption>>
      BY <1>2 DEF Download, WarmUp, AnswerReady, vars, Text, GivenText, SkipOcr, StartOcr,
                  OcrMissing, OcrFails, OcrBreaksOff, OcrReads, EndOcr, Begin, findings
  <2> QED
      BY <1>1, <1>2, <2>1, Early
<1>3. CASE CaptionSkipped \/ MockSeesNothing \/ OnlyText \/ YoloSkipped \/ ClipSkipped
           \/ MakeTags \/ Finalize
    BY <1>1, <1>3 DEF CaptionSkipped, MockSeesNothing, OnlyText, YoloSkipped, ClipSkipped,
                      MakeTags, Finalize, findings
<1>4. ASSUME NEW cause \in Causes, NEW objects,
             YoloFails(cause, objects) \/ YoloDetects(objects)
      PROVE  AnswersCounted'
  <2>1. /\ UNCHANGED <<matched, caption>>
        /\ \/ outcome' = [outcome EXCEPT !.yolo = cause]
           \/ outcome' = [outcome EXCEPT !.yolo = "ok"]
      BY <1>4 DEF YoloFails, YoloDetects
  <2>2. outcome'.clip = outcome.clip /\ outcome'.vlm = outcome.vlm
      BY <2>1 DEF Shape, Components
  <2> QED
      BY <1>1, <2>1, <2>2
<1>5. ASSUME NEW cause \in Causes, CaptionFails(cause) PROVE AnswersCounted'
  <2>1. /\ outcome' = [outcome EXCEPT !.vlm = cause] /\ UNCHANGED <<matched, caption>>
        /\ phase = "caption"
      BY <1>5 DEF CaptionFails, AsksForCaption, findings
  <2>2. caption = NoCaption
      BY <2>1 DEF AnswersCounted, CaptionFollows, BeforeCaption
  <2>3. outcome'.clip = outcome.clip
      BY <2>1 DEF Shape, Components
  <2> QED
      BY <2>1, <2>2, <2>3 DEF AnswersCounted
<1>6. ASSUME NEW words, CaptionGiven(words) PROVE AnswersCounted'
  <2>1. outcome' = [outcome EXCEPT !.vlm = "ok"] /\ UNCHANGED matched
      BY <1>6 DEF CaptionGiven
  <2>2. outcome'.clip = outcome.clip /\ outcome'.vlm = "ok"
      BY <2>1 DEF Shape, Components
  <2> QED
      BY <2>1, <2>2 DEF AnswersCounted
<1>7. ASSUME NEW cause \in Causes, ClipFails(cause) PROVE AnswersCounted'
  <2>1. /\ outcome' = [outcome EXCEPT !.clip = cause] /\ UNCHANGED <<matched, caption>>
        /\ phase = "clip"
      BY <1>7 DEF ClipFails, findings
  <2>2. matched = <<>>
      BY <2>1 DEF AnswersCounted, MatchingFollows, BeforeMatching
  <2>3. outcome'.vlm = outcome.vlm
      BY <2>1 DEF Shape, Components
  <2> QED
      BY <2>1, <2>2, <2>3 DEF AnswersCounted
<1>8. ASSUME NEW ms, ClipMatches(ms) PROVE AnswersCounted'
  <2>1. outcome' = [outcome EXCEPT !.clip = "ok"] /\ UNCHANGED caption
      BY <1>8 DEF ClipMatches
  <2>2. outcome'.vlm = outcome.vlm /\ outcome'.clip = "ok"
      BY <2>1 DEF Shape, Components
  <2> QED
      BY <2>1, <2>2 DEF AnswersCounted
<1>9. CASE Respond
    BY <1>9 DEF Respond, AnswersCounted
<1>10. "error" \in Causes
    BY DEF Causes
<1> QED
    BY <1>2, <1>3, <1>4, <1>5, <1>6, <1>7, <1>8, <1>9, <1>10 DEF Next, Vision

\* A tag whose source is a model that sees comes of a run of one that answered.
LEMMA SeenByOne ==
    ASSUME IInv, DataTyped, TagsStand, AnswersCounted, phase = "done",
           NEW t \in tags, t.source \in {"YOLO", "CLIP", "VLM"}
    PROVE  \E c \in Components \ {"ocr"} : outcome[c] = "ok"
<1> SUFFICES ASSUME \A c \in Components \ {"ocr"} : outcome[c] # "ok" PROVE FALSE
    OBVIOUS
<1>1. outcome.yolo # "ok" /\ outcome.clip # "ok" /\ outcome.vlm # "ok"
    BY DEF Components
<1>2. Proper(Proposed, Own)
    BY <1>1, ProposedProper DEF DataTyped, AnswersCounted
<1>3. PICK k \in Group(Proposed, t.value) : t.source = Proposed[k].source
    BY TagIsBacked DEF IsBacked
<1>4. k \in DOMAIN Proposed
    BY <1>3 DEF Group
<1>5. Proposed[k].source \in Own
    BY <1>2, <1>4, ProperIsList DEF Good
<1> QED
    BY <1>3, <1>5 DEF Own

LEMMA FailedFailed ==
    ASSUME IInv, DataTyped, TagsStand, AnswersCounted, phase = "done",
           status["pipeline"] = "FAILED"
    PROVE  /\ \E c \in Components : outcome[c] \in Causes
           /\ \A t \in tags : t.source \notin {"YOLO", "CLIP", "VLM"}
<1>t. tags # {}
  <2>1. Cardinality(tags) >= AtMost(2, job.top) /\ job.top \in Nat \ {0}
      BY TagsOfListed, ListedIs
  <2>2. Cardinality({}) = 0
      BY FS_EmptySet
  <2> QED
      BY <2>1, <2>2 DEF AtMost
<1> DEFINE S == {ComponentStatus(Requested[d], d) : d \in Components}
<1>1. S \ {"NOT_REQUESTED"} # {} /\ S \ {"NOT_REQUESTED"} \subseteq Failures
    BY <1>t, VerdictSays DEF IInv, PipelineStatus
<1>2. \A c \in Components :
          Requested[c] <=> ComponentStatus(Requested[c], c) # "NOT_REQUESTED"
    BY DEF ComponentStatus, Classify
<1>3. \A c \in Components : Requested[c] => outcome[c] \in Causes
    BY <1>1, <1>2 DEF ComponentStatus, Failures
<1>4. \E c \in Components : Requested[c]
    BY <1>1, <1>2
<1>5. \A c \in Components \ {"ocr"} : outcome[c] # "ok"
    BY <1>3, VisionRequests DEF Causes
<1>6. \A t \in tags : t.source \notin {"YOLO", "CLIP", "VLM"}
    BY <1>5, SeenByOne
<1> QED
    BY <1>3, <1>4, <1>6

\* An analysis that is FAILED failed somewhere, and no model that sees is the
\* source of a tag of it, whatever was read.
THEOREM FailedIsBlind == Spec => []FailedSawNothing
<1>1. Init => AnswersCounted
    BY DEF Init, AnswersCounted
<1>2. IInv /\ DataTyped /\ TagsStand /\ AnswersCounted => FailedSawNothing
    BY FailedFailed DEF FailedSawNothing
<1> QED
    BY <1>1, <1>2, NextAnswersCounted, Invariance, TagsInvariance, PTL DEF Spec

\* One look at an image finds no share that decides, whatever its measures.
LEMMA NextNoShareDecides == IInv /\ NoShareDecides /\ [Next]_vars => NoShareDecides'
<1> SUFFICES ASSUME IInv, NoShareDecides, [Next]_vars PROVE NoShareDecides'
    OBVIOUS
<1>1. ASSUME UNCHANGED view PROVE NoShareDecides'
    BY <1>1 DEF NoShareDecides
<1>2. CASE \/ Download \/ WarmUp \/ AnswerReady \/ UNCHANGED vars \/ Text
           \/ MakeTags \/ Finalize
  <2>1. CASE Download \/ WarmUp \/ AnswerReady \/ UNCHANGED vars \/ MakeTags \/ Finalize
      BY <1>1, <2>1 DEF Download, WarmUp, AnswerReady, MakeTags, Finalize, vars, request
  <2>2. CASE Text
      BY <1>1, <2>2 DEF Text, GivenText, SkipOcr, StartOcr, OcrMissing, OcrFails, OcrBreaksOff, OcrReads,
                        EndOcr, request
  <2> QED
      BY <1>2, <2>1, <2>2
<1>3. ASSUME NEW image \in Images, NEW asked \in Requests, Begin(image, asked)
      PROVE  NoShareDecides'
  <2>1. image.gray \in Measures
      BY PipelineAssumption
  <2>2. view' = View(image.gray)
      BY <1>3 DEF Begin
  <2> QED
      BY <2>1, <2>2, RouteIsGeneric DEF NoShareDecides
<1>4. CASE Vision
  <2>1. CASE OnlyText
    <3>1. view' = [view EXCEPT !.route = "ocr_text_dominant"]
        BY <2>1 DEF OnlyText
    <3>2. view'.route = "ocr_text_dominant" /\ view'.subtypes = view.subtypes
        BY <3>1 DEF IInv, Shape
    <3> QED
        BY <3>2 DEF NoShareDecides
  <2>2. CASE CaptionSkipped \/ MockSeesNothing \/ YoloSkipped \/ ClipSkipped
      BY <1>1, <2>2 DEF CaptionSkipped, MockSeesNothing, YoloSkipped, ClipSkipped, request
  <2>3. ASSUME NEW cause \in Causes, NEW objects,
               CaptionFails(cause) \/ YoloFails(cause, objects) \/ ClipFails(cause)
        PROVE  NoShareDecides'
      BY <1>1, <2>3 DEF CaptionFails, YoloFails, ClipFails, request
  <2>4. CASE \/ \E words \in Captions : CaptionGiven(words)
             \/ \E objects \in Detections : YoloDetects(objects)
             \/ \E ms \in Matches : ClipMatches(ms)
      BY <1>1, <2>4 DEF CaptionGiven, YoloDetects, ClipMatches, request
  <2> QED
      BY <1>4, <2>1, <2>2, <2>3, <2>4 DEF Vision
<1>5. CASE Respond
    BY <1>5 DEF Respond, NoView, NoShareDecides
<1> QED
    BY <1>2, <1>3, <1>4, <1>5 DEF Next

\* No image has a subtype with half of the shares, or is sent a route for it.
THEOREM EveryRouteIsGeneric == Spec => []NoShareDecides
<1>1. Init => NoShareDecides
    BY DEF Init, NoView, NoShareDecides
<1> QED
    BY <1>1, NextNoShareDecides, Invariance, PTL DEF Spec

\* No analysis fails for want of a model that was promised.
THEOREM PromisedModelsAreFound == Spec => NeverMissingOncePromised
<1>1. ASSUME IInv, [Next]_vars
      PROVE  /\ \A m \in {"yolo", "clip"} : FailsForWant(m) => m \notin promised
             /\ FailsForWant("ocr") => AttemptModel \notin promised
  <2>1. ASSUME NEW c \in Components, NEW cause,
               outcome' = [outcome EXCEPT ![c] = cause]
        PROVE  \A d \in Components : FailsForWant(d) => d = c /\ cause = "not available"
      BY <1>1, <2>1 DEF IInv, Shape, FailsForWant
  <2>2. ASSUME NEW c \in Components, outcome' = outcome \/ outcome' = NotRun
        PROVE  ~FailsForWant(c)
      BY <2>2 DEF FailsForWant, NotRun
  <2>3. \A m : ~Loadable(m) => m \notin promised
      BY <1>1 DEF IInv, Environment, PromisesHold
  <2>4. {"ocr", "yolo", "clip", "vlm"} = Components
      BY DEF Components
  <2>5. \/ outcome' = outcome \/ outcome' = NotRun
        \/ \E cause : outcome' = [outcome EXCEPT !["vlm"] = cause]
        \/ \E cause : /\ outcome' = [outcome EXCEPT !["ocr"] = cause]
                      /\ cause = "not available" => ~Loadable(AttemptModel)
        \/ \E cause : /\ outcome' = [outcome EXCEPT !["yolo"] = cause]
                      /\ cause = "not available" => ~Loadable("yolo")
        \/ \E cause : /\ outcome' = [outcome EXCEPT !["clip"] = cause]
                      /\ cause = "not available" => ~Loadable("clip")
    <3>1. CASE \/ Download \/ WarmUp \/ AnswerReady \/ UNCHANGED vars \/ MakeTags
               \/ Finalize \/ Respond
               \/ \E image \in Images, asked \in Requests : Begin(image, asked)
        BY <3>1 DEF Download, WarmUp, AnswerReady, MakeTags, Finalize, Respond, Begin, vars
    <3>2. CASE GivenText \/ SkipOcr \/ StartOcr \/ OcrMissing \/ EndOcr
        BY <3>2 DEF GivenText, SkipOcr, StartOcr, OcrMissing, EndOcr
    <3>3. ASSUME NEW cause \in Causes \ {"not available"}, OcrFails(cause) \/ OcrBreaksOff(cause)
          PROVE  <2>5
        BY <3>3 DEF OcrFails, OcrBreaksOff
    <3>4. CASE CaptionSkipped \/ MockSeesNothing \/ OnlyText \/ YoloSkipped \/ ClipSkipped
        BY <3>4 DEF CaptionSkipped, MockSeesNothing, OnlyText, YoloSkipped, ClipSkipped
    <3>5. ASSUME NEW cause \in Causes, NEW objects,
                 CaptionFails(cause) \/ YoloFails(cause, objects) \/ ClipFails(cause)
          PROVE  <2>5
        BY <3>5 DEF CaptionFails, YoloFails, ClipFails
    <3>6. ASSUME NEW a, CaptionGiven(a) \/ YoloDetects(a) \/ ClipMatches(a)
          PROVE  <2>5
        BY <3>6 DEF CaptionGiven, YoloDetects, ClipMatches
    <3>7. ASSUME NEW r, OcrReads(r) PROVE <2>5
        BY <3>7 DEF OcrReads
    <3> QED
        BY <1>1, <3>1, <3>2, <3>3, <3>4, <3>5, <3>6, <3>7 DEF Next, Text, Vision
  <2> QED
      BY <2>1, <2>2, <2>3, <2>4, <2>5
<1>2. IInv /\ [Next]_vars => [ /\ \A m \in {"yolo", "clip"} : FailsForWant(m) => m \notin promised
                               /\ FailsForWant("ocr") => AttemptModel \notin promised ]_vars
    BY <1>1
<1> QED
    BY <1>2, Invariance, PTL DEF Spec, NeverMissingOncePromised
=============================================================================
