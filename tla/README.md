# Verification of the smart gallery server

TLA+ models of the photo server (Spring Boot, `src/src/main/java/com/photocloud`)
and of its analysis service (FastAPI, `src/analysis-service/analysis_service`),
checked with TLC on small instances and proved, where noted, with TLAPS for every
value of the constants.

Below, *server* is the Java program, *analysis service* the Python one. Source
paths are short: `MediaService` means `service/MediaService.java`, and so on.
`PROJECT.json` maps each definition to the lines it stands for.

## 1. Inventory

| Component | State it keeps | Operations | Correct when |
|---|---|---|---|
| Upload (`MediaService.upload`) | rows of `media_assets`, `media_variants`, `media_processing_jobs`; the original's object | `POST /api/media` | a row never points at a missing object; a photo has a job, another medium is READY |
| Processing queue (`MediaProcessingQueueService`) | job status, attempts, `availableAt`; asset statuses; metadata, tags, thumbnail | `@Scheduled pollQueue`; `processAssetNow` from `POST /api/test/media/photo-preview` | one instance per job; job and asset agree at every commit; READY has its original, thumbnail and metadata; a job ends |
| Deletion (`MediaService.delete`) | the same rows and objects | `DELETE /api/media/{id}` | rows and files both go; nothing is deleted under a transaction that works on it |
| Object storage (`storage/`) | objects by key | put, get, delete | not transactional: what is written or removed stays so |
| Delivery requests (`MediaService.createDelivery` ff.) | `media_delivery_requests` | create, download content, acknowledge | columns belong together; attempts and acknowledgements are kept |
| Sessions (`AuthService`, `JwtAuthFilter`, `WebSocketAuthChannelInterceptor`) | `app_users`, `user_sessions`, open STOMP connections | register, login, token check, CONNECT | logins are unique; a token reaches its own user; one session per user (documented) |
| User tags, search | `media_tags`; none | add, remove, list, filter | no duplicates; the filter means what it says |
| Events (`MediaEventPublisher`) | none | publish to the owner's connections | the owner learns of every change |
| Analysis executor (`main.py`, `worker_pool.py`) | pool, in-flight map, limiter | `POST /analyze`, `/analyze-batch` | bounded queue, one analysis per key, every request answered, a crash is survived |
| Result cache (`cache.py`) | LRU map and a directory | get, put | within its budget, LRU order, never an older result |
| Pipeline (`analyzer.py`, `ocr_runtime.py`, `vision.py`, `tags.py`, `image_utils.py`) | the debug payload of the analysis under way | analyse one image | the statuses say what was run and how it ended; a tag rests on evidence; there are enough tags and not too many |
| Models (`models/registry.py`, `models/download.py`, `worker_warmup`) | model directories, manifest file | readiness, warm-up, download | a model said to be there is there when an analysis needs it |
| Settings, metrics, evaluation | environment; counters | parsing, reports | - |

How they interact. An upload is one database transaction that stores an object
and creates a job. A scheduler thread per server instance takes the oldest due
job under a row lock and, in the same transaction, reads the original, saves
metadata and tags, stores a thumbnail, calls the analysis service over HTTP,
saves its tags, publishes an event and commits. The preview endpoint runs the
same code without the row lock. Deletion removes files and then the asset row,
whose cascade takes the job, the child rows and the delivery requests along.
Inside the analysis service all requests run on one event loop; analyses run in
an executor; the done callbacks of their futures release the permit, fill the
cache and wake the waiters. An analysis runs OCR, the caption, the object detector
and CLIP one after the other on the models of its disk, merges what they propose
into tags, and sums up how each of them ended in one status. The answer is cached
under that status; the server does not read it (`RemoteAnalysisResponse` has no such
field): it takes tags and text and stores COMPLETED (`HttpImageAnalysisService:57`).

What is hard. The database is transactional and the storage is not; three kinds
of transactions lock the same rows in different orders; an exception of a
repository rolls back even what the catch block of the poll records; delivery
rows are read, changed and written back without a version; timeouts of waiters
race the analyses they wait for; a worker process may die; the service restarts
with only its cache directory; whether a component was requested, and whether a
model is there, is decided in one file and decided again in another. `PROJECT.json` lists each such hazard at its line.

## 2. Modules

| Module | Models | Checked by | Proved in |
|---|---|---|---|
| `MediaLifecycle` | upload, poll, preview, deletion, locks, deadlocks, crashes | `lifecycle`, `lifecycle_live`, `lifecycle_orphan`, `lifecycle_poison` | `MediaLifecycleProofs` |
| `ProcessingJob` | what all of that promises for the job of a photo | `lifecycle`, as `ImplementsJobs` | `MediaLifecycleProofs` |
| `Delivery` | delivery requests of one asset, overlapping calls, deletion | `delivery`, `delivery_thumbnail` | `DeliveryProofs` |
| `AuthSessions` | register, login, token checks, STOMP connections | `auth`, `auth_sessions` | `AuthSessionsProofs` |
| `AnalysisSidecar` | `/analyze`, executor, limiter, in-flight map, crash, restart | `sidecar`, `sidecar_restart` | `AnalysisSidecarProofs` |
| `ResultCache` | the LRU map over its directory | `cache` | `ResultCacheProofs` |
| `CacheContract` | what the cache promises to its callers | `cache`, as `ImplementsContract` | `ResultCacheProofs` |
| `ImageKinds` | text likelihood, subtypes, kind and route of an image; whether to read it | `pipeline` | `TagMergerProofs` |
| `TagMerger` | how proposals of tags are grouped, judged, ranked and filled up | `pipeline` | `TagMergerProofs` |
| `AnalysisPipeline` | one worker: models on disk, the components of an analysis, its tags and statuses | `pipeline` | `AnalysisPipelineProofs` |

Each `MC...` module only gives constants and symmetries to the module it names.
`AnalysisPipeline` extends `TagMerger`, which extends `ImageKinds`. `CountingLemmas` holds
what the proofs of the cache and of the tags share: sums, ranks and joined lists.

### MediaLifecycle

The variables `asset`, `job` and `rows` are the *committed* database, `objects`
the storage. `work` holds one record per processing transaction: how far it has
come (`pc`), the asset, the attempts it read, the committed child rows it saw at
its last lookup (`seen`) and the child rows it has inserted (`fresh`). `del` does
the same for deletions, with the files still to remove. A transaction of upload
is a program counter. In-memory changes of an entity (RUNNING, PROCESSING while
processing) are not variables: nobody sees them before the commit.

Row locks follow from these records: `HoldsJob` (the poll since its
`SELECT ... FOR UPDATE`, the preview since its flush), `SharesAsset` (a new child
row locks its parent's key), `LocksAsset` (the DELETE before its cascade has
reached the job). `DeletionBlocks` and `PreviewBlocks` are the two deadlocks
these locks allow; PostgreSQL aborts one of the two (`WorkIsVictim`,
`DeleteAborts`).

One action per step that another transaction can tell apart: `PollBegin`,
`ReadOriginal`, `SkipRow` / `KeepRow` / `InsertRow` / `InsertRefused` (nothing to
save, a lookup that found the row, an insert, a refused insert), `PutThumbnail`,
`Analyze`, `ProcessingFails`, `WorkSucceeds`, `PollCountsFailure`. Empty metadata is
skipped, and any analysis may propose no tags; the stub never proposes one. The metadata row and the metadata tags are
saved one after the other with nothing in between and count as one row kind. A
refused insert ends in `RollBack`, without the attempt: the repositories are
transactional proxies, and their exception marks the whole transaction
rollback-only although the poll catches it. Failures of the storage, the
thumbnail or the analysis do not, and are counted.

Constants: `Poison` are photos with a value longer than its column (nothing
truncates EXIF strings). `Unreadable` are photos by the content type the client sent
that no image reader understands: their metadata is empty, since even the width
is unknown, and for the same reason `ThumbnailService` refuses them, so such a job
ends in FAILED. `AnalysisResult` is COMPLETED with the HTTP client and
SKIPPED with the stub; `MaxFaults` bounds crashes and lost connections and
nothing else. The backoff of `attempts * 10` seconds is the flag `due`: time
passes at any moment (`BackoffElapses`).

The branch of `processNextPendingJob` for an asset that no longer exists is left
out because it cannot be taken: the job row goes with the asset row in one
commit, and the poll holds the job row. `WorkedAssetStays` states this and is
proved.

`ProcessingJob` knows neither instances nor transactions: a photo is accepted,
fails a bounded number of times, is completed, given up or deleted. The mapping
`JobStates` reads the status and the attempts off the committed job row; a row that
is gone after its upload committed is DELETED. Two of its permissions are what
an unlocked preview can do: it may complete what had already been given up, or
completed, and it writes back the attempts it has read, which a poll may have
raised since.

### Delivery

A call is a transaction that reads the row (`read`), computes the row it will
write (`write`), and commits. The update names every column and no version is
compared, so of two overlapping calls the last one wins with its whole row;
`Commits` writes only when the entity is dirty. `Legacy` is an asset from before
checksums were stored, `HasThumbnail` distinguishes photos that have been
processed. `served`, `confirmed` and `overlapped` are history.

### AuthSessions

`register` asks and inserts in two steps, with the unique key between them.
`Accepts` is the check of `JwtAuthFilter` and of CONNECT. A connection keeps the
token it was opened with and is not checked again.

### AnalysisSidecar

One action per stretch of code between two suspensions of the event loop: from
the cache lookup to the wait a request does not give way, because the lock around
`submit` is never held across a suspension (`submit` awaits nothing). An analysis
ends in the executor (`WorkerEnds`) before the loop hears of it (`Callbacks`).
`permits` is the limiter; `leaked` counts permits of calls a broken pool refused.
A future is named after the request that submitted it. `computed` is history: the
payloads that analyses of each key have returned.

### ResultCache

`items` is the `OrderedDict`, `disk` the directory; `Remember` is `_remember_l1`
with its eviction loop as the least number of old items that have to go. Calls
run to completion on the event loop. `older` is a history: it relates x to y when y
was used after the last use of x, and `KeepsTheMostRecent` compares the order of
`items` with it. A disabled cache, unreadable files and the
statistics are left out.

`CacheContract` is a map that may fall back, for any keys and at any time, to what
was saved last. Under the mapping `content` is what a lookup would answer now
(memory, else file) and `saved` the directory. An eviction after a failed write
is where the two differ.

### AnalysisPipeline

One worker analyses one image after another. `phase` is the line of
`analyze_content` it has reached; `job` the request as resolved (`ResolveMode`,
`ResolveOcrPolicy`, `TopTags`); `view` what `image_utils` makes of the image;
`left` the engines and variants of OCR still to try and `best` the best reading;
`outcome` what `debug.errors` holds of each component, reduced to its last error,
since `finalize_pipeline_status` looks at no other; `detected`, `matched`,
`caption` what the models said; `tags` and `status` the response.

What a model answers, or which error it raises, is a choice out of the constants
`Readings`, `Detections`, `Matches`, `Captions`; everything the code does with the
answer is modelled: `Rejected` and `ReadingScore` of a reading, the two breaks of
the OCR loop (`After`), the thresholds and the compatibility of a CLIP tag
(`Accepted`), the top of the list before it is filtered (`ClipAccepts`), the tags
that follow from objects, text, kind and caption, and the status.
The conditions under which a model is *run* (`YoloRuns`, `ClipRuns`,
`CaptionRuns`, `ShouldRunOcr`, of `vision.py` and `ocr_runtime.py`) and under
which it counts as *requested* (`RequestedYolo` ff., of `analyzer.py`) are
separate operators, as they are separate code.

`disk` holds the models whose directory has a file, `promised` those that a ready
answer or a warm-up has vouched for. `Download` and `WarmUp` load engines in their
order and stop at the first that fails, with what was loaded before it; a model
that is used is on disk afterwards. "not available" is the error of a model that
is specified, absent and not to be downloaded, and of a caption service that
does not answer. Two errors leave more behind than their name: the detector keeps
what it had counted before it failed, as evidence for the tags of others, though it
proposes none (`YoloFails`); and when the variants of an engine cannot be built, OCR
ends at once and throws away the reading another engine has given
(`OcrBreaksOff`). Nobody takes a model off the disk. `AnswerReady` leaves out two further conditions of the endpoint
(the executor has started, the queue has room): it may promise whenever the code
does, and more often.

`ImageKinds` starts from six measures of the gray image in units of a
ten-thousandth. In `TagMerger` a list of candidates is a function on positions:
dropping a candidate leaves a hole, so that the positions of the others, which
break ties, stay.

## 3. Runs and what they show

| Run | Instance | Shows |
|---|---|---|
| `lifecycle` | 1 photo (preview), 1 video, 2 instances, 2 deletions, 2 attempts, 1 fault | all safety properties; `ProcessingJob` is implemented; 477,700 states |
| `lifecycle_live` | 2 photos, one unreadable, 1 instance, 1 deletion, 2 attempts, 1 fault | jobs and deletions end |
| `lifecycle_orphan` | 2 photos, 1 instance, 1 deletion | *violated*: a deletion can leave a thumbnail's file |
| `lifecycle_poison` | 2 photos, one of them poison | *violated*: the healthy photo is never processed |
| `delivery` | 2 requests, 3 calls, deletion | rows stay whole; without overlap nothing is lost |
| `delivery_thumbnail` | the same | *violated*: an honest acknowledgement of a thumbnail is refused |
| `auth` | 2 logins, 3 requests, 1 connection | unique logins, tokens reach their user |
| `auth_sessions` | the same | *violated*: two sessions of one user are accepted |
| `sidecar` | 3 requests, 2 keys, capacity 2, every executor, 1 restart | permits and in-flight entries agree; every answer was computed for its key; every request ends |
| `sidecar_restart` | process executor, no restart | *violated*: a broken pool is not recreated |
| `cache` | 3 keys, values of 1, 2 and 4 units, budget 3 | accounting, LRU order, nothing forgotten; `CacheContract` is implemented |
| `pipeline` | 5 settings, 7 images, 3 requests, 2 disks; 5 readings, 3 detections, 4 lists of matches, 2 captions | statuses, tags, routes and promised models; 309,658 states |

The five violated properties state what a document or a message of the code says;
`PROJECT.json` quotes each line under "findings".

Why the bounds are enough. Two server instances, one preview and two deletions of
one photo give every pair of actors that share a lock, and a third to interfere;
photos interact only through the order of the queue, for which two suffice (the
liveness runs). Two attempts are the least with both a retry and a give-up. One
fault at any step covers every crash point; a second one meets only states a
first one can leave. Three overlapping calls allow a lost update to be lost
again. Three requests on two keys give a join, a full queue and a request after a
crash with a limiter of two. The cache holds three small values, so that one
eviction, several evictions and a value that never fits all occur.
The five settings of `pipeline` cover every provider and engine choice with models
on and off, downloads allowed and not; the seven images reach every kind that the
code treats differently (natural, with text, receipt, chat, meme, and one known
by its checksum) and one that looks like a photo and is small enough to be taken for
a document by CLIP, without text and with little of a document in its shares: there only
the evidence rule keeps the tag out; the readings hold a rejected one, a weak one and one good
enough to stop; the matches and detections hold, for every family of tags that
needs evidence, a case with it and one without; the requests ask for 0, 2
and 10 tags, with and without a policy of their own. Analyses of one worker share
nothing but the disk, which the run lets change between any two steps.

Fairness. `MediaLifecycle`: the scheduler polls for ever (`@Scheduled`), time
passes, a transaction in flight goes on (weak fairness); a waiting UPDATE or
cascade gets its lock in the end (strong fairness), since PostgreSQL queues
waiters for a row. No client has to send anything and nothing has to fail.
`AnalysisPipeline` states no fairness: a model may take for ever.
`AnalysisSidecar`: the event loop runs callbacks and timers; an executor owes
nothing, a worker may hang for ever. `JobsEnd` is checked with no poison photo:
`HealthyJobsEnd` shows what happens with one.

`CHECK_DEADLOCK` stays on everywhere: `Quiet` is the step of a system whose
requests have all been answered, so every other state without a step would be
reported. A worker of `AnalysisPipeline` always has a next step: after `Respond` it
begins again.

What modelling the pipeline showed, beyond the properties:

- `finalize_pipeline_status` asks the policy of the settings whether OCR was
  requested (`analyzer.py:195`), not that of the request. When a request overrides
  it, OCR that was skipped may read PARTIAL, and OCR that ran NOT_REQUESTED. `StatusMatchesWhatRan`
  and the OCR part of `CompletedMeansNothingFailed` are stated under `PolicyAgrees`, so
  they do not cover such a request; the server sends none.
- One failed OCR attempt stays the last error although a later one reads the
  text; with text so dominant that nothing else is requested the pipeline is
  FAILED with its text in hand (`analyzer.py:199-227`). `FailedSawNothing` allows this: it
  says of a FAILED analysis that no model which sees has given it a tag.
- A FAILED payload is cached like any other, for ever on disk (`main.py:58-64`): a
  model that was missing once goes on failing for the images of that time.
- CLIP's receipts are checked twice: without the rule of `tags.py:207-210` the least
  compatibility of `vision.py` alone still refuses them, and no caption names one.
- The fourteen shares of `image_subtype_distribution` never reach 0.5 (`NoShareDecides`,
  proved for all measures): every image is routed "generic", the other routes of
  `image_utils.py:110-113` are never taken and the condition on a share above 0.55 in
  `vision.py:221` never holds.
- The best `clip_top_k` tags are chosen before rejected ones are dropped
  (`vision.py:287`): rejected tags displace accepted ones.
- The cache key leaves out settings that change a result (the least CLIP
  confidence, whether models run on text images, the OCR size; `main.py:40-55`).
- A warm-up answers "ok" whatever its workers report (`worker_pool.py:242-256`).

## 4. Proofs

All theorems are `Spec => []P` (or an action property) for arbitrary constants
under the named assumptions of each module: photos and videos are disjoint,
scheduler threads are not assets, at least one attempt, a finite set of calls, a
capacity that is a number, settings and requests of their types.

`MediaLifecycleProofs`. `IInv` strengthens the safety properties with the facts
they rest on: the job lock has one holder (`JobLockIsExclusive`); what a poll has
read stays true while it holds it (`PollsAreCurrent`), which is why writing whole
rows back is harmless; a preview works on its own photo
(`WorkersKeepToTheirCode`); a pending job has an attempt left
(`AttemptsRemain`); an upload that has not committed has no rows
(`UploadsAreAtomic`); and new child rows exclude a deletion that has its lock
(`AssetLockExcludesShares`). Without the last one `WorkedAssetStays` is not
inductive: a preview between its insert and its flush holds no job lock.
Lemmas group the actions by what they disturb: a transaction that begins, moves
on, rolls back or commits.
Results: `TypeCorrect`, `StatusesAlwaysAgree`, `MutualExclusion`,
`AssetsOutliveTheirWork`.

Its second part is the refinement. Only four kinds of step show in a job: an upload that commits, a
counted failure, a success, a deletion. For the attempts to map to
`ProcessingJob` it takes that what a preview has read is in the past of its job
(`PreviewsReadThePast`), since it writes them back. Results:
`JobsAreImplemented` (the refinement), `JobsGiveUpLate`, `FilesStay`.

Its third part is the child rows. `RowsAreReached`: at each point of a transaction the rows it should
have made so far are committed or among its own. It needs that a transaction
works on a committed upload and that its locks keep the rows it has seen. Results:
`ReadyMeansComplete`, `RowsNeverCollide`.

In the fourth part files precede rows: the original is stored before the upload
commits, the thumbnail before its row is inserted; and a deletion that is under way
has its original still to remove or has removed it (`DeletionsReachFiles`).
Results: `FilesBackRows`, `OriginalsGoWithTheirRows`. With these all safety
properties of `MediaLifecycle` are proved.

`DeliveryProofs`. The rows in flight matter as much as the committed ones:
`WritesAreSound` says that what a call will write is whole and counts at most the
download it is about to answer. A second invariant, `AInv`, follows the deliveries on
which no two calls overlap: the only call in flight has read the row that is there
(`AloneIsCurrent`), and what it will write is that row and what it adds
(`WritesFollowReads`). Results: `TypeCorrect`, `WholeRows`, `CountedAttempts`,
`NothingIsLostAlone`.

`AuthSessionsProofs`. A user row appears together with the answer of its
registration, and a token only in an answer. Results: `TypeCorrect`, `UniqueLogins`,
`TokensAgree`.

`AnalysisSidecarProofs`. The permits equal the number of analyses in flight, so the
set of these has to be finite although the requests need not be; a future belongs
to a request with a key (`FuturesHaveKeys`). Results: `TypeCorrect`,
`PermitsAreCounted`, `NoKeyTwice`, `NobodyWaitsForNothing`, `NothingIsMadeUp`: an
answer was computed for its own key, because what a future brings back was
(`FuturesWereComputed`) and a waiter and the entry it waits for have the same key.

`AnalysisPipelineProofs`. Three parts. What has been promised stays
loadable, since settings never change and a disk only grows (`PromisesHold`); and
for each component, once the analysis is past it, requested and run agree
(`OcrFollows`, `CaptionFollows`, `ObjectsFollow`, `MatchingFollows`). The last two
need that the route becomes "text dominant" only by the text (`FirstRoute`) and that
OCR tries nothing exactly if there is no engine (`SomethingToTry`). Results:
`TypeCorrect`, `StatusesTellWhatRan`, `CompletedIsComplete`, `PromisedModelsAreFound`,
`PromisesAreKept`, for any measures, answers of models and settings.

The third part is the tags. `DataTyped` says that what was measured and answered keeps
its types, `TagsStand` that from the merging on the tags are those made of it; the rest
is about the rules themselves. Results: `TagsSuffice`, `TagsHaveEvidence` (for a tag of one source, the only way past
the rules is its evidence) and, since an analysis therefore always has tags,
`FailedIsBlind`: one model that answered would make it partial (`AnswersCounted`), and a
model that did not answer has proposed nothing (`Own`). `EveryRouteIsGeneric` is an
invariant of the view alone, from `RouteIsGeneric` below. `PipelineAssumption` is that
settings, requests, measures and the answers of models are of their types; nothing is
assumed of their values.

`TagMergerProofs`. The rules, without the state. `ViewType`: the sum of the scores is
never zero and every rank is taken by one subtype, so an image has a kind and a list of
shares. `RouteIsGeneric`: no share is a half. `LooksAre` bounds the texture of an image by
its likelihood of text (both grow with the contrast), `ScoreBounds` each score by the two,
and `NoHalf` compares every score with the sum of the others: what raises the score of a
photo, a meme or a document towards the half also raises that of a photo with text.
`BestIsMember`: a finite group has one best candidate, because candidates are
ordered by rank and then by position. `DeduplicateGives`: at most n values, each once,
all of them if they are fewer. `EnsureMinimumGives`: filling up reaches the minimum
since the kind and the word "image" are two different values
(`KindIsNotImage`), and a value that was there keeps its place or gives it
to one of the n best. `MergeGives`: what is kept is supported, by evidence or by two
sources. `NormalizeTwice`: a normalised value is normal, so later rounds of grouping do
not join groups again. `CaptionTagsProper`: no keyword of a caption names a vehicle,
which is why the evidence for vehicles may be asked of CLIP alone.

`CountingLemmas`. Induction over positions is done with sets of numbers:
`LeastNumber` (every set of numbers that has a member has a least one) comes from the
well-foundedness of the numbers in the library, and `EveryNumber` from it. With them:
`SumsExist` and `SumsAddUp` for sums over sequences of any length, `PlacesAreTaken` and
`FirstPlaces` for the ranks of a finite set, `FlattenType` for lists joined end to end.

`ResultCacheProofs`. `CInv` adds to the checked properties that `older` is a strict
order (`OrderIsStrict`), so that a key has one item and the position `At` finds is
its own; that every file fits the budget (`FilesFit`), without which the eviction
after a promotion could fail to stop; and that each item, and the file of each key
that has not failed, is the latest value (`CopiesAreLatest`). The count of bytes is
about sums over sequences of any length: `SumExists` shows that the recursive sum
has a value at every position, `SumsAgree` that two sequences which go on alike
grow alike, from which follow what an append, a removal and a cut do to a total, and
`EvictionStops`: the loop stops before the item it has just added, and what it took
off the count is the total of what it evicted. Results: `CacheTypes` (the budget is never exceeded),
`CacheCountsBytes`, `CacheKeepsTheMostRecent`, `CacheForgetsNothing`, and
`CacheImplementsContract`, the refinement: a lookup, a promotion and a restart are
`Forget`s of the keys they stop answering from memory, a put is a `Put`. With these
all of `ResultCache` that is checked is proved.

Only model-checked: `JobsEnd`, `DeletionsEnd` and `RequestsEnd`, since liveness under
fairness is out of the prover's reach, and the counterexamples of the runs that expect one. Every invariant
and every action property of the passing runs is proved.

## 5. Plan

Done, in this order: the five modules of the server and the service with their
first proofs; `ProcessingJob` and `CacheContract` with the refinements; the pipeline
(`ImageKinds`, `TagMerger`, `AnalysisPipeline`); the proofs of the remaining safety
properties of `MediaLifecycle`, of `AnalysisSidecar` and of the pipeline; the
proofs of `ResultCache`, of its refinement and of the tags.

Left, ordered by how much each would add:

1. `AnalysisCall`: the three attempts and the 60 s timeout of the server composed
   with the timeout, the in-flight map and the cache of the analysis service.
2. `MediaTags`: the races of check-then-insert on user tags, and their
   normalisation.
3. `MediaSearch`: the filter as an operator against a reference definition.

## 6. Not modelled

- Of the analysis: the measuring of pixels; parsing, filtering and normalising OCR
  blocks; the second reading of regions of a photo; the calibration of a CLIP
  confidence; category, quality and reason of a tag; debug files; an image that
  cannot be opened (the request fails before any state changes). These are numeric or
  textual code without state between requests; a choice stands for their result.
- Checksums and the manifest of the model registry: no decision of the service reads
  them.
- Metadata extraction and thumbnails: image decoding, which the queue sees as
  steps that fail or yield rows. Signed links: a function of token and clock.
- Settings are constants of the models; reading the environment is not modelled.
  Metrics and logging are read by no decision. Controllers, DTOs and error mapping
  are labels of answers. The evaluation tools and the container scripts run beside the
  system.
- User tags, search, the events of `MediaService` and a client that refreshes after
  one: see the plan; the client is not in the repository.
- In `AnalysisSidecar`: the health, metrics and warm-up endpoints (readiness and
  warm-up are in `AnalysisPipeline`) and the cancellation of futures at shutdown.
