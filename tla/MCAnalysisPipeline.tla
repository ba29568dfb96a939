-------------------------- MODULE MCAnalysisPipeline --------------------------
EXTENDS AnalysisPipeline

Setting(provider, engine, mode, policy, yolo, clip, vlm, download) ==
    [provider |-> provider, engine |-> engine, mode |-> mode, policy |-> policy,
     yolo |-> yolo, clip |-> clip, vlm |-> vlm, download |-> download,
     yoloOnText |-> FALSE, clipOnText |-> mode = "best", clipTop |-> 2, clipLeast |-> 5800]

MCConfigs ==
    { Setting("local_ml", "auto", "quality", "auto", TRUE, FALSE, FALSE, FALSE),
      Setting("local_ml", "both", "best", "auto", FALSE, TRUE, FALSE, FALSE),
      Setting("local_ml", "none", "fast", "auto", TRUE, TRUE, TRUE, FALSE),
      Setting("local_ml", "tesseract", "quality", "always", FALSE, TRUE, FALSE, TRUE),
      Setting("mock", "auto", "fast", "auto", TRUE, TRUE, TRUE, FALSE) }

Gray(width, height, mean, stddev, edges, bright, dark) ==
    [width |-> width, height |-> height, mean |-> mean, stddev |-> stddev,
     edges |-> edges, bright |-> bright, dark |-> dark]

Picture(gray) == [gray |-> gray, known |-> <<>>, text |-> NoText]

Words(chars) == [NoText EXCEPT !.chars = chars, !.latin = TRUE]

MCImages ==
    { Picture(Gray(4000, 3000, 130, 20, 3, 200, 200)),     \* a beach in the fog
      Picture(Gray(1200, 900, 90, 90, 20, 2000, 2500)),    \* a photo of a sign
      Picture(Gray(600, 400, 135, 79, 2, 100, 100)),       \* a small photo in two tones
      Picture(Gray(900, 2400, 215, 50, 14, 7000, 500)),    \* a receipt
      Picture(Gray(1080, 2200, 200, 45, 12, 5500, 500)),   \* a chat
      Picture(Gray(1000, 1000, 120, 52, 14, 6000, 200)),   \* a meme
      [gray |-> Gray(1200, 900, 90, 90, 20, 2000, 2500),
       known |-> <<<<"bus-stop", 9900>>, <<"meme", 9000>>>>, text |-> Words(150)] }

Request(mode, policy, enhance, top) ==
    [mode |-> mode, policy |-> policy, enhance |-> enhance, top |-> top]

MCRequests ==
    { Request("none", "none", TRUE, 10), Request("best", "always", FALSE, 2),
      Request("slow", "skip", FALSE, 0) }

MCDisks == {{}, {"yolo", "easyocr"}}

Reading(blocks, words, confidence, plausible) ==
    [blocks |-> blocks, text |-> words, confidence |-> confidence, valid |-> 95,
     mixed |-> 0, repetition |-> 0, plausible |-> plausible, geometry |-> 60,
     consistency |-> 80]

MCReadings ==
    { Reading(0, NoText, 50, 0), Reading(3, Words(40), 60, 20),
      Reading(1, Words(12), 50, 60), Reading(3, Words(25), 70, 70),
      Reading(6, [Words(60) EXCEPT !.payment = TRUE], 90, 90) }

Object(label, score, count) == [label |-> label, score |-> score, count |-> count]

MCDetections ==
    { <<>>, <<Object("person", 8000, 2)>>, <<Object("car", 7000, 1)>> }

Match(tag, positive, margin, confidence) ==
    [tag |-> tag, positive |-> positive, margin |-> margin, confidence |-> confidence]

MCMatches ==
    { <<>>,
      <<Match("transport", 260, 50, 8000), Match("group photo", 250, 40, 7500),
        Match("beach", 240, 40, 7000)>>,
      <<Match("receipt", 280, 60, 9000), Match("screenshot", 270, 50, 8500),
        Match("paper", 180, 10, 4000)>>,
      <<Match("document", 270, 60, 8200), Match("invoice", 260, 50, 7900)>> }

MCCaptions == { NoCaption, {"car", "street"} }
=============================================================================
