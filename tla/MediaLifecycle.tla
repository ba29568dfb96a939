--------------------------- MODULE MediaLifecycle ---------------------------
(***************************************************************************)
(* The life of a media asset: upload, background processing of its job,    *)
(* the photo-preview request that processes it in place, and deletion.     *)
(*                                                                         *)
(* Every one of these is one database transaction that also touches the    *)
(* object storage.  The database is transactional (PostgreSQL, READ        *)
(* COMMITTED); the storage is not: an object written or removed stays so   *)
(* when the transaction rolls back.  The variables asset, job and rows are *)
(* the committed database, objects is the storage, and upload, work and    *)
(* del are the transactions in flight with what they have read and not     *)
(* yet committed.  Row locks are not stored: they follow from how far a    *)
(* transaction has come (HoldsJob, SharesAsset, LocksAsset).               *)
(***************************************************************************)
EXTENDS Naturals, Sequences, FiniteSets

CONSTANTS
    Photos,         \* images: uploaded with a processing job
    Videos,         \* other media: stored only
    Poison,         \* photos with a metadata or tag row the database refuses
    Unreadable,     \* photos by their content type that no reader understands
    Previews,       \* photos uploaded through POST /api/test/media/photo-preview
    Pollers,        \* server instances, each with one @Scheduled thread
    Deleters,       \* DELETE /api/media/{id} requests
    MaxAttempts,    \* app.analysis.processing.max-attempts
    AnalysisResult, \* what the configured ImageAnalysisService answers
    MaxFaults,      \* bound: crashes and lost database connections per behaviour
    None            \* no asset

Assets == Photos \cup Videos

\* The transaction that processes asset a in place is named a itself.
Workers == Pollers \cup Previews

ASSUME AssetsAssumption ==
    /\ Photos \cap Videos = {}
    /\ Poison \subseteq Photos
    /\ Unreadable \subseteq Photos
    /\ Previews \subseteq Photos

ASSUME ProcessesAssumption ==
    /\ Pollers \cap Assets = {}
    /\ None \notin Assets

ASSUME ConfigurationAssumption ==
    /\ MaxAttempts \in Nat \ {0}
    /\ MaxFaults \in Nat
    /\ AnalysisResult \in {"COMPLETED", "SKIPPED"}

VARIABLES
    upload,     \* progress of the POST /api/media request of each asset
    asset,      \* media_assets: processing and analysis status ("NONE": no row)
    job,        \* media_processing_jobs: status, attempts, availableAt reached
    rows,       \* rows of the asset in media_variants, media_metadata, media_tags
    objects,    \* objects in storage
    queue,      \* photos in the order their jobs were created (createdAt)
    work,       \* processing transactions
    del,        \* deletion transactions
    faults,     \* crashes and lost connections so far
    requested   \* history: assets some deletion has been requested for

vars == <<upload, asset, job, rows, objects, queue, work, del, faults, requested>>

-----------------------------------------------------------------------------
Variants == {"ORIGINAL", "THUMBNAIL"}

\* META stands for the metadata row and its tags, ANALYSIS for the analysis tags.
RowKinds == Variants \cup {"META", "ANALYSIS"}

NoAsset == [processing |-> "NONE", analysis |-> "NONE"]
NoJob == [status |-> "NONE", attempts |-> 0, due |-> FALSE]

\* "begun" has read job and asset; "read" the original; "meta", "saved" and
\* "published" have saved rows after "read", "put" (the thumbnail is stored) and
\* "analyzed"; "failing" is inside the catch block; "closing" flushes.
WorkSteps == {"idle", "begun", "read", "meta", "put", "saved", "analyzed",
              "published", "failing", "closing", "done"}

Resting == {"idle", "done"}

UploadSteps == {"new", "stored", "queued", "committed", "aborted"}

DeleteSteps == {"idle", "purging", "locked", "done"}

\* Types: among them, that a job counts at most MaxAttempts failures and that a
\* transaction in flight has an asset.  (processNextPendingJob)
TypeOK ==
    /\ upload \in [Assets -> UploadSteps]
    /\ asset \in [Assets ->
           [processing: {"NONE", "UPLOADED", "PROCESSING", "READY", "FAILED"},
            analysis: {"NONE", "PENDING", "COMPLETED", "SKIPPED", "FAILED"}]]
    /\ job \in [Assets ->
           [status: {"NONE", "PENDING", "COMPLETED", "FAILED"},
            attempts: 0 .. MaxAttempts,
            due: BOOLEAN]]
    /\ rows \in [Assets -> SUBSET RowKinds]
    /\ objects \in [Assets -> SUBSET Variants]
    /\ queue \in Seq(Photos)
    /\ work \in [Workers ->
           [pc: WorkSteps,
            asset: Photos \cup {None},
            attempts: 0 .. MaxAttempts,
            seen: SUBSET RowKinds,
            fresh: SUBSET RowKinds]]
    /\ \A w \in Workers : work[w].pc \notin Resting => work[w].asset \in Photos
    /\ del \in [Deleters ->
           [pc: DeleteSteps, asset: Assets \cup {None}, left: SUBSET Variants]]
    /\ \A d \in Deleters : del[d].pc \in {"purging", "locked"} => del[d].asset \in Assets
    /\ faults \in 0 .. MaxFaults
    /\ requested \subseteq Assets

AtRest(pc) == [pc |-> pc, asset |-> None, attempts |-> 0, seen |-> {}, fresh |-> {}]

Init ==
    /\ upload = [a \in Assets |-> "new"]
    /\ asset = [a \in Assets |-> NoAsset]
    /\ job = [a \in Assets |-> NoJob]
    /\ rows = [a \in Assets |-> {}]
    /\ objects = [a \in Assets |-> {}]
    /\ queue = <<>>
    /\ work = [w \in Workers |-> AtRest("idle")]
    /\ del = [d \in Deleters |-> [pc |-> "idle", asset |-> None, left |-> {}]]
    /\ faults = 0
    /\ requested = {}

-----------------------------------------------------------------------------
(* Row locks.                                                              *)

Stored(a) == asset[a].processing # "NONE"

\* SELECT ... FOR UPDATE of the poll holds the job row until the transaction
\* ends; processAssetNow reads it unlocked and locks it when its UPDATE flushes.
HoldsJob(w, a) ==
    /\ work[w].asset = a
    /\ \/ w \in Pollers /\ work[w].pc \notin Resting
       \/ work[w].pc = "closing"

\* A new child row takes FOR KEY SHARE on the asset row it refers to.
SharesAsset(w, a) == work[w].asset = a /\ work[w].fresh # {}

\* DELETE of the asset row, before its cascade has reached the job row.
LocksAsset(d, a) == del[d].asset = a /\ del[d].pc = "locked"

JobFree(a) == \A w \in Workers : ~HoldsJob(w, a)
AssetFree(a) == \A d \in Deleters : ~LocksAsset(d, a)

-----------------------------------------------------------------------------
(* POST /api/media.                                                        *)

\* The original goes to storage before anything is committed.
UploadPut(a) ==
    /\ upload[a] = "new"
    /\ upload' = [upload EXCEPT ![a] = "stored"]
    /\ objects' = [objects EXCEPT ![a] = @ \cup {"ORIGINAL"}]
    /\ UNCHANGED <<asset, job, rows, queue, work, del, faults, requested>>

\* enqueueImageProcessing creates the job of a photo; other media is READY.
UploadEnqueue(a) ==
    /\ upload[a] = "stored"
    /\ upload' = [upload EXCEPT ![a] = "queued"]
    /\ queue' = IF a \in Photos THEN Append(queue, a) ELSE queue
    /\ UNCHANGED <<asset, job, rows, objects, work, del, faults, requested>>

UploadCommit(a) ==
    /\ upload[a] = "queued"
    /\ upload' = [upload EXCEPT ![a] = "committed"]
    /\ asset' = [asset EXCEPT ![a] =
                    IF a \in Photos
                    THEN [processing |-> "UPLOADED", analysis |-> "PENDING"]
                    ELSE [processing |-> "READY", analysis |-> "SKIPPED"]]
    /\ job' = [job EXCEPT ![a] =
                    IF a \in Photos
                    THEN [status |-> "PENDING", attempts |-> 0, due |-> TRUE]
                    ELSE NoJob]
    /\ rows' = [rows EXCEPT ![a] = {"ORIGINAL"}]
    /\ UNCHANGED <<objects, queue, work, del, faults, requested>>

\* A refused request, an exception or a failed commit: no rows, but an object
\* that was stored stays.
UploadAbort(a) ==
    /\ upload[a] \in {"new", "stored", "queued"}
    /\ upload' = [upload EXCEPT ![a] = "aborted"]
    /\ UNCHANGED <<asset, job, rows, objects, queue, work, del, faults, requested>>

-----------------------------------------------------------------------------
(* Processing: the poll and the in-place preview run the same processAsset.*)

Pending(a) == job[a].status = "PENDING" /\ job[a].due

\* The oldest PENDING job whose availableAt has passed.
Oldest(a) ==
    \E i \in DOMAIN queue :
        /\ queue[i] = a
        /\ Pending(a)
        /\ \A j \in 1 .. i - 1 : ~Pending(queue[j])

BackoffElapses(a) ==
    /\ job[a].status = "PENDING"
    /\ ~job[a].due
    /\ job' = [job EXCEPT ![a].due = TRUE]
    /\ UNCHANGED <<upload, asset, rows, objects, queue, work, del, faults, requested>>

Begin(w, a) ==
    work' = [work EXCEPT ![w] = [pc |-> "begun", asset |-> a,
                                 attempts |-> job[a].attempts,
                                 seen |-> {}, fresh |-> {}]]

\* Mutant: the query of the poll takes no lock.
PollBeginUnlocked(w, a) ==
    /\ w \in Pollers
    /\ work[w].pc = "idle"
    /\ Oldest(a)
    /\ Begin(w, a)
    /\ UNCHANGED <<upload, asset, job, rows, objects, queue, del, faults, requested>>

PollBegin(w, a) ==
    /\ w \in Pollers
    /\ work[w].pc = "idle"
    /\ Oldest(a)
    /\ JobFree(a)
    /\ Begin(w, a)
    /\ UNCHANGED <<upload, asset, job, rows, objects, queue, del, faults, requested>>

\* The preview request processes the photo it has just uploaded, job or no job
\* lock; it ends with an error when the asset is gone again.
PreviewBegin(a) ==
    /\ a \in Previews
    /\ work[a].pc = "idle"
    /\ upload[a] = "committed"
    /\ IF Stored(a) THEN Begin(a, a)
                    ELSE work' = [work EXCEPT ![a] = AtRest("done")]
    /\ UNCHANGED <<upload, asset, job, rows, objects, queue, del, faults, requested>>

\* Moves w to step pc, having seen the committed child rows of its asset.
Sees(w, pc) ==
    work' = [work EXCEPT ![w].pc = pc, ![w].seen = rows[work[w].asset]]

ReadOriginal(w) ==
    LET a == work[w].asset IN
    /\ work[w].pc = "begun"
    /\ "ORIGINAL" \in rows[a] \cap objects[a]
    /\ Sees(w, "read")
    /\ UNCHANGED <<upload, asset, job, rows, objects, queue, del, faults, requested>>

\* Mutant: the row is saved before the object is stored.
PutThumbnailLate(w) ==
    /\ work[w].pc = "meta"
    /\ work[w].asset \notin Unreadable
    /\ Sees(w, "put")
    /\ UNCHANGED <<upload, asset, job, rows, objects, queue, del, faults, requested>>

\* Mutant: the object is stored, the row is forgotten.
PutThumbnailOnly(w) ==
    /\ work[w].pc = "meta"
    /\ work[w].asset \notin Unreadable
    /\ objects' = [objects EXCEPT ![work[w].asset] = @ \cup {"THUMBNAIL"}]
    /\ Sees(w, "saved")
    /\ UNCHANGED <<upload, asset, job, rows, queue, del, faults, requested>>

\* saveThumbnail makes the thumbnail out of the image it decodes and stores the
\* object first, then looks for the row to update.
PutThumbnail(w) ==
    /\ work[w].pc = "meta"
    /\ work[w].asset \notin Unreadable
    /\ objects' = [objects EXCEPT ![work[w].asset] = @ \cup {"THUMBNAIL"}]
    /\ Sees(w, "put")
    /\ UNCHANGED <<upload, asset, job, rows, queue, del, faults, requested>>

Analyze(w) ==
    /\ work[w].pc = "saved"
    /\ Sees(w, "analyzed")
    /\ UNCHANGED <<upload, asset, job, rows, objects, queue, del, faults, requested>>

\* The child row a transaction saves next, and where that takes it.
RowSaves == [read     |-> [row |-> "META", next |-> "meta"],
             put      |-> [row |-> "THUMBNAIL", next |-> "saved"],
             analyzed |-> [row |-> "ANALYSIS", next |-> "published"]]

\* What nobody can read has no metadata, and the stub finds no tags.
Saving(w) ==
    /\ work[w].pc \in DOMAIN RowSaves
    /\ work[w].pc = "read" => work[w].asset \notin Unreadable
    /\ work[w].pc = "analyzed" => AnalysisResult = "COMPLETED"

RowOf(w) == RowSaves[work[w].pc].row
NextOf(w) == RowSaves[work[w].pc].next

\* Empty metadata and an empty list of tags, which any analysis may answer, save
\* no row.
SkipRow(w) ==
    /\ \/ work[w].pc = "read" /\ work[w].asset \in Unreadable
       \/ work[w].pc = "analyzed"
    /\ work' = [work EXCEPT ![w].pc = NextOf(w)]
    /\ UNCHANGED <<upload, asset, job, rows, objects, queue, del, faults, requested>>

\* The row was found: it is updated in place, in memory until the flush.
KeepRow(w) ==
    /\ Saving(w)
    /\ RowOf(w) \in work[w].seen
    /\ work' = [work EXCEPT ![w].pc = NextOf(w)]
    /\ UNCHANGED <<upload, asset, job, rows, objects, queue, del, faults, requested>>

\* An INSERT waits for the asset row, and for whoever has inserted the same row.
InsertWaits(w) ==
    LET a == work[w].asset IN
    /\ Saving(w)
    /\ RowOf(w) \notin work[w].seen
    /\ \/ ~AssetFree(a)
       \/ \E x \in Workers \ {w} : work[x].asset = a /\ RowOf(w) \in work[x].fresh

\* Mutant: the tables have no unique keys.
InsertUnchecked(w) == Stored(work[w].asset) /\ work[w].asset \notin Poison

InsertAllowed(w) ==
    LET a == work[w].asset IN
    /\ Stored(a)
    /\ RowOf(w) \notin rows[a]
    /\ a \notin Poison

InsertRow(w) ==
    /\ Saving(w)
    /\ RowOf(w) \notin work[w].seen
    /\ ~InsertWaits(w)
    /\ InsertAllowed(w)
    /\ work' = [work EXCEPT ![w].pc = NextOf(w), ![w].fresh = @ \cup {RowOf(w)}]
    /\ UNCHANGED <<upload, asset, job, rows, objects, queue, del, faults, requested>>

\* Mutant: a rollback also removes the thumbnail the transaction may have stored.
RollBackCleansUp(w) ==
    /\ work' = [work EXCEPT ![w] = AtRest(IF w \in Pollers THEN "idle" ELSE "done")]
    /\ objects' = [objects EXCEPT ![work[w].asset] = @ \ {"THUMBNAIL"}]
    /\ UNCHANGED <<upload, asset, job, rows, queue, requested>>

\* An exception of a repository marks the transaction rollback-only: nothing
\* is committed, not even the attempt the catch block counts.
RollBack(w) ==
    /\ work' = [work EXCEPT ![w] = AtRest(IF w \in Pollers THEN "idle" ELSE "done")]
    /\ UNCHANGED <<upload, asset, job, rows, objects, queue, requested>>

\* Refused by a constraint: a foreign key, a unique key or a column's width.
InsertRefused(w) ==
    /\ Saving(w)
    /\ RowOf(w) \notin work[w].seen
    /\ ~InsertWaits(w)
    /\ ~InsertAllowed(w)
    /\ RollBack(w)
    /\ UNCHANGED <<del, faults>>

\* The storage, the thumbnail or the analysis fails.  The poll catches it; the
\* preview rethrows it (a checked exception after marking the job FAILED), so
\* its transaction rolls back.
ProcessingFails(w) ==
    /\ work[w].pc \in {"begun", "meta", "saved"}
    /\ IF w \in Pollers
       THEN /\ work' = [work EXCEPT ![w].pc = "failing"]
            /\ UNCHANGED <<upload, asset, job, rows, objects, queue, requested>>
       ELSE RollBack(w)
    /\ UNCHANGED <<del, faults>>

-----------------------------------------------------------------------------
(* How a processing transaction ends.                                      *)

Finish(w, assetRow, jobRow) ==
    LET a == work[w].asset IN
    /\ AssetFree(a)
    /\ asset' = [asset EXCEPT ![a] = assetRow]
    /\ job' = [job EXCEPT ![a] = jobRow]
    /\ rows' = [rows EXCEPT ![a] = @ \cup work[w].fresh]
    /\ work' = [work EXCEPT ![w] = AtRest(IF w \in Pollers THEN "idle" ELSE "done")]
    /\ UNCHANGED <<upload, objects, queue, del, faults, requested>>

\* The flush of the preview locks the job row, or finds it deleted.
PreviewCloses(a) ==
    /\ a \in Previews
    /\ work[a].pc = "published"
    /\ JobFree(a)
    /\ AssetFree(a)
    /\ \/ /\ Stored(a)
          /\ work' = [work EXCEPT ![a].pc = "closing"]
          /\ UNCHANGED <<upload, asset, job, rows, objects, queue, requested>>
       \/ /\ ~Stored(a)
          /\ RollBack(a)
    /\ UNCHANGED <<del, faults>>

\* The whole job row is written, with the attempts read when w began.
WorkSucceeds(w) ==
    /\ work[w].pc = IF w \in Pollers THEN "published" ELSE "closing"
    /\ Finish(w, [processing |-> "READY", analysis |-> AnalysisResult],
                 [status |-> "COMPLETED", attempts |-> work[w].attempts, due |-> TRUE])

\* Mutants: one attempt too many, one too few, a failure that is not counted,
\* an analysis status that is forgotten.
GivesUpLater(n) == n > MaxAttempts
GivesUpEarly(n) == n + 1 >= MaxAttempts
SameAttempt(w) == work[w].attempts
HalfFailedAsset == [processing |-> "FAILED", analysis |-> "PENDING"]

GivesUp(n) == n >= MaxAttempts
NextAttempt(w) == work[w].attempts + 1
FailedAsset == [processing |-> "FAILED", analysis |-> "FAILED"]

\* The catch block of the poll.  A retry leaves the asset PROCESSING.
PollCountsFailure(w) ==
    LET n == NextAttempt(w) IN
    /\ work[w].pc = "failing"
    /\ IF GivesUp(n)
       THEN Finish(w, FailedAsset,
                      [status |-> "FAILED", attempts |-> n, due |-> TRUE])
       ELSE Finish(w, [asset[work[w].asset] EXCEPT !.processing = "PROCESSING"],
                      [status |-> "PENDING", attempts |-> n, due |-> FALSE])

\* The connection is lost or the commit fails.
WorkAborts(w) ==
    /\ faults < MaxFaults
    /\ faults' = faults + 1
    /\ work[w].pc \notin Resting
    /\ RollBack(w)
    /\ UNCHANGED del

-----------------------------------------------------------------------------
(* DELETE /api/media/{id}.                                                 *)

DeleteBegin(d, a) ==
    /\ del[d].pc = "idle"
    /\ Stored(a)
    /\ del' = [del EXCEPT ![d] = [pc |-> "purging", asset |-> a,
                                  left |-> rows[a] \cap Variants]]
    /\ requested' = requested \cup {a}
    /\ UNCHANGED <<upload, asset, job, rows, objects, queue, work, faults>>

\* Mutant: the variants are looked up again after each file.
DeleteObjectAgain(d, v) ==
    /\ del[d].pc = "purging"
    /\ v \in del[d].left
    /\ objects' = [objects EXCEPT ![del[d].asset] = @ \ {v}]
    /\ del' = [del EXCEPT ![d].left = rows[del[d].asset] \cap Variants]
    /\ UNCHANGED <<upload, asset, job, rows, queue, work, faults, requested>>

DeleteObject(d, v) ==
    /\ del[d].pc = "purging"
    /\ v \in del[d].left
    /\ objects' = [objects EXCEPT ![del[d].asset] = @ \ {v}]
    /\ del' = [del EXCEPT ![d].left = @ \ {v}]
    /\ UNCHANGED <<upload, asset, job, rows, queue, work, faults, requested>>

DeleteEnds(d) ==
    del' = [del EXCEPT ![d] = [pc |-> "done", asset |-> None, left |-> {}]]

\* The storage fails, or the connection does: the rows stay, the objects that
\* are gone stay gone.
DeleteAborts(d) ==
    /\ del[d].pc \in {"purging", "locked"}
    /\ DeleteEnds(d)
    /\ UNCHANGED <<upload, asset, job, rows, objects, queue, work, faults, requested>>

\* Mutant: the row goes before the files do.
DeleteLockEarly(d) ==
    LET a == del[d].asset IN
    /\ del[d].pc = "purging"
    /\ AssetFree(a)
    /\ \A w \in Workers : ~SharesAsset(w, a)
    /\ IF Stored(a) THEN del' = [del EXCEPT ![d].pc = "locked"]
                    ELSE DeleteEnds(d)
    /\ UNCHANGED <<upload, asset, job, rows, objects, queue, work, faults, requested>>

\* The flush waits for other deletions and for new child rows; a row another
\* request has deleted meanwhile is an error.
DeleteLock(d) ==
    LET a == del[d].asset IN
    /\ del[d].pc = "purging"
    /\ del[d].left = {}
    /\ AssetFree(a)
    /\ \A w \in Workers : ~SharesAsset(w, a)
    /\ IF Stored(a) THEN del' = [del EXCEPT ![d].pc = "locked"]
                    ELSE DeleteEnds(d)
    /\ UNCHANGED <<upload, asset, job, rows, objects, queue, work, faults, requested>>

\* Mutant: nothing makes the cascade wait for the job row.
DeleteCommitAtOnce(d) ==
    LET a == del[d].asset IN
    /\ del[d].pc = "locked"
    /\ asset' = [asset EXCEPT ![a] = NoAsset]
    /\ job' = [job EXCEPT ![a] = NoJob]
    /\ rows' = [rows EXCEPT ![a] = {}]
    /\ DeleteEnds(d)
    /\ UNCHANGED <<upload, objects, queue, work, faults, requested>>

\* The cascade waits for the job row, then everything the asset owns goes.
DeleteCommit(d) ==
    LET a == del[d].asset IN
    /\ del[d].pc = "locked"
    /\ JobFree(a)
    /\ asset' = [asset EXCEPT ![a] = NoAsset]
    /\ job' = [job EXCEPT ![a] = NoJob]
    /\ rows' = [rows EXCEPT ![a] = {}]
    /\ DeleteEnds(d)
    /\ UNCHANGED <<upload, objects, queue, work, faults, requested>>

-----------------------------------------------------------------------------
(* Deadlocks PostgreSQL breaks by aborting a victim, and crashes.          *)

\* w, holding the job row d waits for, needs the asset row d has locked.
DeletionBlocks(w, d) ==
    /\ LocksAsset(d, work[w].asset)
    /\ HoldsJob(w, work[w].asset)
    /\ \/ Saving(w) /\ RowOf(w) \notin work[w].seen
       \/ work[w].pc \in {"failing", "closing"}
       \/ w \in Pollers /\ work[w].pc = "published"

\* Poll w waits for a row preview x has inserted, x for the job row w holds.
PreviewBlocks(w, x) ==
    /\ w \in Pollers
    /\ x \in Previews
    /\ work[w].asset = x
    /\ InsertWaits(w)
    /\ work[x].pc = "published"
    /\ RowOf(w) \in work[x].fresh

\* The victim is the deletion in DeleteAborts, which needs no deadlock.
WorkIsVictim(w) ==
    /\ \/ \E d \in Deleters : DeletionBlocks(w, d)
       \/ \E x \in Previews : PreviewBlocks(w, x)
       \/ \E y \in Pollers : PreviewBlocks(y, w)
    /\ RollBack(w)
    /\ UNCHANGED <<del, faults>>

\* The server stops: every transaction in flight rolls back.
Crash ==
    /\ faults < MaxFaults
    /\ faults' = faults + 1
    /\ upload' = [a \in Assets |->
                     IF upload[a] \in {"stored", "queued"} THEN "aborted" ELSE upload[a]]
    /\ work' = [w \in Workers |->
                   IF work[w].pc \in Resting THEN work[w]
                   ELSE AtRest(IF w \in Pollers THEN "idle" ELSE "done")]
    /\ del' = [d \in Deleters |->
                  IF del[d].pc = "idle" THEN del[d]
                  ELSE [pc |-> "done", asset |-> None, left |-> {}]]
    /\ UNCHANGED <<asset, job, rows, objects, queue, requested>>

-----------------------------------------------------------------------------
UploadStep(a) == UploadPut(a) \/ UploadEnqueue(a) \/ UploadCommit(a) \/ UploadAbort(a)

WorkStep(w) ==
    \/ ReadOriginal(w) \/ PutThumbnail(w) \/ Analyze(w)
    \/ SkipRow(w) \/ KeepRow(w) \/ InsertRow(w) \/ InsertRefused(w)
    \/ ProcessingFails(w) \/ WorkSucceeds(w) \/ PollCountsFailure(w)
    \/ WorkIsVictim(w)

DeleteStep(d) ==
    \/ \E v \in Variants : DeleteObject(d, v)
    \/ DeleteLock(d) \/ DeleteCommit(d) \/ DeleteAborts(d)

\* Every request answered and no job left: nothing more happens.
Quiet ==
    /\ \A a \in Assets : /\ upload[a] \in {"committed", "aborted"}
                         /\ job[a].status # "PENDING"
    /\ \A w \in Workers : work[w].pc \in Resting
    /\ UNCHANGED vars

Next ==
    \/ \E a \in Assets : UploadStep(a) \/ BackoffElapses(a)
    \/ \E w \in Pollers, a \in Photos : PollBegin(w, a)
    \/ \E a \in Previews : PreviewBegin(a) \/ PreviewCloses(a)
    \/ \E w \in Workers : WorkStep(w) \/ WorkAborts(w)
    \/ \E d \in Deleters, a \in Assets : DeleteBegin(d, a)
    \/ \E d \in Deleters : DeleteStep(d)
    \/ Crash
    \/ Quiet

Spec == Init /\ [][Next]_vars

\* The scheduler polls for ever, time passes, and a transaction in flight runs
\* on.  A row lock is granted in the order of its queue, so the waiting UPDATE
\* of a preview and the waiting cascade of a deletion get it in the end, however
\* often it is taken before.  Clients need not send anything, and nothing has to
\* fail.
Fairness ==
    /\ \A a \in Assets : WF_vars(BackoffElapses(a))
    /\ \A w \in Pollers : WF_vars(\E a \in Photos : PollBegin(w, a))
    /\ \A w \in Workers : WF_vars(WorkStep(w))
    /\ \A a \in Previews : SF_vars(PreviewCloses(a))
    /\ \A d \in Deleters :
          /\ WF_vars((\E v \in Variants : DeleteObject(d, v)) \/ DeleteLock(d))
          /\ SF_vars(DeleteCommit(d))

FairSpec == Spec /\ Fairness

-----------------------------------------------------------------------------
(* Safety.                                                                 *)

\* The two rows a processing transaction writes agree, at every commit, for the
\* poll and for the unlocked preview: a photo waits for its first attempt as
\* UPLOADED, for a later one as PROCESSING, and ends as its job does.
\* (processNextPendingJob, processAssetNow)
StatusesAgree ==
    \A a \in Photos :
        /\ job[a].status = "NONE" => asset[a] = NoAsset
        /\ job[a].status = "COMPLETED" =>
               asset[a] = [processing |-> "READY", analysis |-> AnalysisResult]
        /\ job[a].status = "FAILED" =>
               asset[a] = [processing |-> "FAILED", analysis |-> "FAILED"]
        /\ job[a].status = "PENDING" =>
               /\ asset[a].processing = IF job[a].attempts = 0 THEN "UPLOADED"
                                                               ELSE "PROCESSING"
               /\ asset[a].analysis = "PENDING"

\* A photo that reads READY has its original, its thumbnail and its metadata,
\* whatever mix of failed attempts, previews, skipped saves and crashes led there:
\* what an attempt did not insert it has seen, and that stays; and a photo without
\* metadata has no thumbnail either.  Its analysis may have found no tags.
\* (processAsset, saveOrUpdateMetadata, saveThumbnail)
ReadyIsComplete ==
    \A a \in Photos : asset[a].processing = "READY" => Variants \cup {"META"} \subseteq rows[a]

\* A variant row points at a stored object unless somebody has asked for the
\* asset to be deleted: no rollback or crash of upload or processing leaves a
\* row without its object.  (upload, saveThumbnail: the object goes first)
RowsAreBacked ==
    \A a \in Assets \ requested : rows[a] \cap Variants \subseteq objects[a]

\* Two server instances never process the same job at once.  (PESSIMISTIC_WRITE
\* on the poll's query)
OnePollPerJob ==
    \A w, x \in Pollers :
        work[w].pc \notin Resting /\ work[w].asset = work[x].asset => w = x

\* No commit ever meets a duplicate: child rows in flight are not yet in the
\* table, and no other transaction holds the same one.  (unique keys of
\* media_variants, media_metadata and media_tags)
NoDuplicateRows ==
    \A w \in Workers : work[w].pc \notin Resting =>
        /\ work[w].fresh \cap rows[work[w].asset] = {}
        /\ \A x \in Workers \ {w} :
               work[x].asset = work[w].asset => work[x].fresh \cap work[w].fresh = {}

\* A transaction that can still write never finds its rows deleted under it:
\* the asset of a poll exists throughout, and so does the asset of a preview
\* that has a child row or the job lock.  (the branch of processNextPendingJob
\* for an asset that no longer exists cannot be taken)
WorkedAssetStays ==
    \A w \in Workers :
        (HoldsJob(w, work[w].asset) \/ work[w].fresh # {}) => Stored(work[w].asset)

\* The original of a row that is gone is gone too: no order of two deletions,
\* uploads and crashes removes the row and keeps the file.  (delete)
DeletedOriginalIsGone ==
    \A a \in Assets :
        upload[a] = "committed" /\ ~Stored(a) => "ORIGINAL" \notin objects[a]

-----------------------------------------------------------------------------
(* What a step may never do.                                               *)

\* A job gives up only after MaxAttempts counted failures, and one that has
\* ended is never queued again.  (processNextPendingJob)
GivesUpLate ==
    [][\A a \in Photos :
          /\ job'[a].status = "FAILED" /\ job[a].status # "FAILED" =>
                 job'[a].attempts = MaxAttempts
          /\ job'[a].status = "PENDING" =>
                 job[a].status \in {"NONE", "PENDING"}]_vars

\* Nobody but a deletion removes a file, and no file of an asset nobody asked
\* to delete is ever removed.  (deleteObject has one caller)
FilesAreKept ==
    [][\A a \in Assets : objects[a] \subseteq objects'[a] \/ a \in requested]_vars

\* What all of this amounts to for the job of a photo: locks, transactions,
\* crashes and deletions in flight show as nothing but the steps of
\* ProcessingJob.  (processNextPendingJob, processAssetNow, delete)
JobStates ==
    [a \in Photos |->
        [status |-> IF job[a].status = "NONE" /\ upload[a] = "committed"
                    THEN "DELETED" ELSE job[a].status,
         attempts |-> job[a].attempts]]

Jobs == INSTANCE ProcessingJob WITH jobs <- JobStates

ImplementsJobs == Jobs!Spec

-----------------------------------------------------------------------------
(* Liveness.                                                               *)

\* Background processing ends, whatever fails on the way: a pending job is
\* completed, given up or deleted.  (processNextPendingJob; it takes a database
\* that accepts the rows of every photo queued before: see HealthyJobsEnd)
JobsEnd ==
    \A a \in Photos : job[a].status = "PENDING" ~> job[a].status # "PENDING"

\* A deletion that began is answered: waiting for locks comes to an end.
\* (delete, against processing that holds the locks it needs)
DeletionsEnd ==
    \A d \in Deleters : del[d].pc = "purging" ~> del[d].pc = "done"

-----------------------------------------------------------------------------
(* Why the safety properties hold: the parts of an inductive invariant.    *)

\* A row lock has one holder.
JobLockIsExclusive ==
    \A a \in Photos : \A w, x \in Workers :
        HoldsJob(w, a) /\ HoldsJob(x, a) => w = x

\* What a poll has read stays true while it holds the lock.
PollsAreCurrent ==
    \A w \in Pollers : work[w].pc \notin Resting =>
        /\ job[work[w].asset].status = "PENDING"
        /\ job[work[w].asset].attempts = work[w].attempts

\* A preview works on its own photo, and only the poll has a catch block.
WorkersKeepToTheirCode ==
    /\ \A x \in Previews : work[x].pc \notin Resting => work[x].asset = x
    /\ \A w \in Workers :
          /\ work[w].pc \in Resting => work[w].asset = None /\ work[w].fresh = {}
          /\ work[w].pc = "closing" => w \in Previews
          /\ work[w].pc = "failing" => w \in Pollers

\* A pending job has an attempt left.
AttemptsRemain ==
    \A a \in Photos : job[a].status = "PENDING" => job[a].attempts < MaxAttempts

\* Nothing is in the database before the upload commits.
UploadsAreAtomic ==
    \A a \in Assets : upload[a] # "committed" => asset[a] = NoAsset /\ job[a] = NoJob

\* New child rows and the deletion of their asset exclude each other.
AssetLockExcludesShares ==
    \A d \in Deleters, w \in Workers :
        del[d].pc = "locked" => ~SharesAsset(w, del[d].asset)

IInv ==
    /\ TypeOK
    /\ StatusesAgree
    /\ WorkedAssetStays
    /\ JobLockIsExclusive
    /\ PollsAreCurrent
    /\ WorkersKeepToTheirCode
    /\ AttemptsRemain
    /\ UploadsAreAtomic
    /\ AssetLockExcludesShares

-----------------------------------------------------------------------------
(* What the documents say and the code does not do.                        *)

\* docs/client-contracts.md:316: DELETE "Deletes the asset record, processing
\* job, and stored object variants."  Once the rows are gone and nobody works
\* on the asset, its files are gone.
DeletionRemovesFiles ==
    \A a \in Assets :
        /\ upload[a] = "committed" /\ ~Stored(a)
        /\ \A w \in Workers : work[w].asset # a
        => objects[a] = {}

\* docs/architecture.md:57-58: background processing runs and "Asset status
\* becomes `READY`".  A photo the database accepts is processed, or given up,
\* whatever other photos are queued.
HealthyJobsEnd ==
    \A a \in Photos \ Poison :
        job[a].status = "PENDING" ~> job[a].status # "PENDING"
=============================================================================
