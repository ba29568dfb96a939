------------------------ MODULE MediaLifecycleProofs ------------------------
(***************************************************************************)
(* The safety of MediaLifecycle for any sets of photos, pollers, previews  *)
(* and deletions and any number of attempts and faults: of the assets and  *)
(* their jobs, of the jobs as ProcessingJob sees them, of the child rows,  *)
(* and of the files.                                                       *)
(***************************************************************************)
EXTENDS MediaLifecycle, TLAPS

\* A scheduler thread is not an asset, so it is not a preview either.
LEMMA PollersAreNotPreviews == Pollers \cap Previews = {}
BY AssetsAssumption, ProcessesAssumption DEF Assets

\* The inductive invariant holds before the first upload.
LEMMA InitIInv == Init => IInv
<1> SUFFICES ASSUME Init PROVE IInv
    OBVIOUS
<1> USE AssetsAssumption, ProcessesAssumption, ConfigurationAssumption
<1>1. TypeOK
    BY DEF Init, TypeOK, AtRest, NoAsset, NoJob, UploadSteps, WorkSteps, DeleteSteps, Resting
<1>2. StatusesAgree
    BY DEF Init, StatusesAgree, NoAsset, NoJob, Assets
<1>3. WorkedAssetStays
    BY DEF Init, WorkedAssetStays, HoldsJob, AtRest, Resting, Workers
<1>4. JobLockIsExclusive
    BY DEF Init, JobLockIsExclusive, HoldsJob, AtRest, Resting
<1>5. PollsAreCurrent
    BY DEF Init, PollsAreCurrent, AtRest, Resting, Workers
<1>6. WorkersKeepToTheirCode
    BY DEF Init, WorkersKeepToTheirCode, AtRest, Resting, Workers
<1>7. AttemptsRemain
    BY DEF Init, AttemptsRemain, NoJob, Assets
<1>8. UploadsAreAtomic
    BY DEF Init, UploadsAreAtomic
<1>9. AssetLockExcludesShares
    BY DEF Init, AssetLockExcludesShares
<1> QED
    BY <1>1, <1>2, <1>3, <1>4, <1>5, <1>6, <1>7, <1>8, <1>9 DEF IInv

-----------------------------------------------------------------------------
(* Steps of a processing transaction that commit nothing.                  *)

\* Transaction w goes on: it keeps its asset and the attempts it has read, has
\* the job row to itself when it closes, and has child rows only of an asset
\* that is stored and not locked by a deletion.
Advances(w) ==
    /\ work[w].pc \notin Resting
    /\ work'[w].pc \notin Resting
    /\ work'[w].asset = work[w].asset
    /\ work'[w].attempts = work[w].attempts
    /\ \A x \in Workers \ {w} : work'[x] = work[x]
    /\ work'[w].pc = "failing" => w \in Pollers
    /\ work'[w].pc = "closing" =>
          w \in Previews /\ JobFree(work[w].asset) /\ Stored(work[w].asset)
    /\ work'[w].fresh # {} =>
          \/ work[w].fresh # {}
          \/ Stored(work[w].asset) /\ AssetFree(work[w].asset)

\* A transaction that moves on without committing keeps the invariant.
LEMMA AdvancesIInv ==
    ASSUME IInv, TypeOK', NEW w \in Workers, Advances(w),
           UNCHANGED <<upload, asset, job, del>>
    PROVE  IInv'
<1> USE DEF IInv, Advances
<1>1. StatusesAgree'
    BY DEF StatusesAgree
<1>2. WorkedAssetStays'
  <2> SUFFICES ASSUME NEW x \in Workers,
                      (HoldsJob(x, work[x].asset) \/ work[x].fresh # {})'
               PROVE  Stored(work[x].asset)'
      BY DEF WorkedAssetStays
  <2>1. CASE x # w
      BY <2>1 DEF WorkedAssetStays, HoldsJob, Stored
  <2>2. CASE x = w
      BY <2>2, PollersAreNotPreviews DEF WorkedAssetStays, HoldsJob, Stored
  <2> QED
      BY <2>1, <2>2
<1>3. JobLockIsExclusive'
    BY PollersAreNotPreviews DEF JobLockIsExclusive, JobFree, HoldsJob
<1>4. PollsAreCurrent'
    BY DEF PollsAreCurrent, Workers
<1>5. WorkersKeepToTheirCode'
    BY DEF WorkersKeepToTheirCode, Workers
<1>6. AttemptsRemain'
    BY DEF AttemptsRemain
<1>7. UploadsAreAtomic'
    BY DEF UploadsAreAtomic
<1>8. AssetLockExcludesShares'
    BY DEF AssetLockExcludesShares, AssetFree, LocksAsset, SharesAsset
<1> QED
    BY <1>1, <1>2, <1>3, <1>4, <1>5, <1>6, <1>7, <1>8

\* A transaction that ends without a commit leaves nothing behind.
LEMMA RollBackIInv ==
    ASSUME IInv, NEW w \in Workers, RollBack(w), UNCHANGED del,
           faults' \in 0 .. MaxFaults
    PROVE  IInv'
<1> USE DEF IInv, RollBack, AtRest
<1>1. TypeOK'
    BY ConfigurationAssumption DEF TypeOK, WorkSteps, Resting
<1>2. StatusesAgree'
    BY DEF StatusesAgree
<1>3. WorkedAssetStays'
  <2> SUFFICES ASSUME NEW x \in Workers,
                      (HoldsJob(x, work[x].asset) \/ work[x].fresh # {})'
               PROVE  Stored(work[x].asset)'
      BY DEF WorkedAssetStays
  <2>1. x # w
      BY DEF HoldsJob, Resting, TypeOK
  <2> QED
      BY <2>1 DEF WorkedAssetStays, HoldsJob, Stored, TypeOK
<1>4. JobLockIsExclusive'
    BY DEF JobLockIsExclusive, HoldsJob, Resting, TypeOK
<1>5. PollsAreCurrent'
    BY DEF PollsAreCurrent, Resting, TypeOK, Workers
<1>6. WorkersKeepToTheirCode'
    BY DEF WorkersKeepToTheirCode, Resting, TypeOK, Workers
<1>7. AttemptsRemain'
    BY DEF AttemptsRemain
<1>8. UploadsAreAtomic'
    BY DEF UploadsAreAtomic
<1>9. AssetLockExcludesShares'
    BY DEF AssetLockExcludesShares, SharesAsset, TypeOK
<1> QED
    BY <1>1, <1>2, <1>3, <1>4, <1>5, <1>6, <1>7, <1>8, <1>9

\* A transaction that begins: the poll with the job row to itself, the preview
\* with its own photo.
LEMMA BeginIInv ==
    ASSUME IInv, NEW w \in Workers, NEW a \in Photos, Begin(w, a),
           work[w].pc \in Resting, Stored(a),
           w \in Pollers => job[a].status = "PENDING" /\ JobFree(a),
           w \in Previews => w = a,
           UNCHANGED <<upload, asset, job, rows, objects, queue, del, faults, requested>>
    PROVE  IInv'
<1> USE DEF IInv, Begin
<1> USE AssetsAssumption, ProcessesAssumption, ConfigurationAssumption
<1>1. TypeOK'
    BY DEF TypeOK, WorkSteps, Resting, RowKinds, Assets
<1>2. StatusesAgree'
    BY DEF StatusesAgree
<1>3. WorkedAssetStays'
  <2> SUFFICES ASSUME NEW x \in Workers,
                      (HoldsJob(x, work[x].asset) \/ work[x].fresh # {})'
               PROVE  Stored(work[x].asset)'
      BY DEF WorkedAssetStays
  <2>1. CASE x # w
      BY <2>1 DEF WorkedAssetStays, HoldsJob, Stored, TypeOK
  <2>2. CASE x = w
      BY <2>2 DEF Stored, TypeOK
  <2> QED
      BY <2>1, <2>2
<1>4. JobLockIsExclusive'
    BY DEF JobLockIsExclusive, JobFree, HoldsJob, Resting, Workers, TypeOK
<1>5. PollsAreCurrent'
    BY DEF PollsAreCurrent, Resting, Workers, TypeOK
<1>6. WorkersKeepToTheirCode'
    BY PollersAreNotPreviews DEF WorkersKeepToTheirCode, Resting, Workers, TypeOK
<1>7. AttemptsRemain'
    BY DEF AttemptsRemain
<1>8. UploadsAreAtomic'
    BY DEF UploadsAreAtomic
<1>9. AssetLockExcludesShares'
    BY DEF AssetLockExcludesShares, SharesAsset, TypeOK
<1> QED
    BY <1>1, <1>2, <1>3, <1>4, <1>5, <1>6, <1>7, <1>8, <1>9

-----------------------------------------------------------------------------
(* The steps that change the database.                                     *)

\* A commit writes job and asset together, while no other transaction holds
\* the job and no deletion the asset.
LEMMA FinishIInv ==
    ASSUME IInv, NEW w \in Workers, NEW assetRow, NEW jobRow,
           Finish(w, assetRow, jobRow),
           work[w].pc \notin Resting,
           HoldsJob(w, work[w].asset),
           assetRow \in [processing: {"PROCESSING", "READY", "FAILED"},
                         analysis: {"PENDING", "COMPLETED", "SKIPPED", "FAILED"}],
           jobRow \in [status: {"PENDING", "COMPLETED", "FAILED"},
                       attempts: 0 .. MaxAttempts, due: BOOLEAN],
           jobRow.status = "COMPLETED" =>
               assetRow = [processing |-> "READY", analysis |-> AnalysisResult],
           jobRow.status = "FAILED" =>
               assetRow = [processing |-> "FAILED", analysis |-> "FAILED"],
           jobRow.status = "PENDING" =>
               /\ assetRow = [processing |-> "PROCESSING", analysis |-> "PENDING"]
               /\ 0 < jobRow.attempts /\ jobRow.attempts < MaxAttempts
    PROVE  IInv'
<1> USE DEF IInv, Finish
<1>a. work[w].asset \in Photos /\ work[w].asset \in Assets
    BY DEF TypeOK, Assets
<1>1. TypeOK'
    BY <1>a, ConfigurationAssumption DEF TypeOK, WorkSteps, Resting, AtRest
<1>2. StatusesAgree'
    BY <1>a DEF StatusesAgree, TypeOK, Assets
<1>b. \A x \in Workers \ {w} : work'[x] = work[x]
    BY DEF TypeOK
<1>c. work'[w].pc \in Resting /\ work'[w].asset = None /\ work'[w].fresh = {}
    BY DEF TypeOK, AtRest, Resting
<1>3. WorkedAssetStays'
  <2> SUFFICES ASSUME NEW x \in Workers,
                      (HoldsJob(x, work[x].asset) \/ work[x].fresh # {})'
               PROVE  Stored(work[x].asset)'
      BY DEF WorkedAssetStays
  <2>1. x # w
      BY <1>c DEF HoldsJob, Resting
  <2>2. Stored(work[x].asset)
      BY <1>b, <2>1 DEF WorkedAssetStays, HoldsJob
  <2> QED
      BY <1>a, <1>b, <2>1, <2>2 DEF Stored, TypeOK
<1>4. JobLockIsExclusive'
    BY <1>b, <1>c DEF JobLockIsExclusive, HoldsJob, Resting
<1>5. PollsAreCurrent'
  <2> SUFFICES ASSUME NEW x \in Pollers, work'[x].pc \notin Resting
               PROVE  /\ job'[work'[x].asset].status = "PENDING"
                      /\ job'[work'[x].asset].attempts = work'[x].attempts
      BY DEF PollsAreCurrent
  <2>1. x \in Workers \ {w}
      BY <1>c DEF Workers
  <2>2. work[x].asset # work[w].asset
      BY <1>a, <1>b, <2>1 DEF JobLockIsExclusive, HoldsJob
  <2> QED
      BY <1>a, <1>b, <2>1, <2>2 DEF PollsAreCurrent, TypeOK
<1>6. WorkersKeepToTheirCode'
    BY <1>b, <1>c DEF WorkersKeepToTheirCode, Resting, Workers
<1>7. AttemptsRemain'
    BY <1>a DEF AttemptsRemain, TypeOK, Assets
<1>8. UploadsAreAtomic'
  <2>1. upload[work[w].asset] = "committed"
      BY <1>a DEF UploadsAreAtomic, WorkedAssetStays, Stored, NoAsset
  <2> QED
      BY <1>a, <2>1 DEF UploadsAreAtomic, TypeOK
<1>9. AssetLockExcludesShares'
    BY <1>b, <1>c DEF AssetLockExcludesShares, SharesAsset
<1> QED
    BY <1>1, <1>2, <1>3, <1>4, <1>5, <1>6, <1>7, <1>8, <1>9

\* So does every step of an upload: it touches rows nobody else works on.
LEMMA UploadStepIInv ==
    ASSUME IInv, NEW a \in Assets, UploadStep(a)
    PROVE  IInv'
<1> USE DEF IInv
<1>1. CASE UploadPut(a) \/ UploadEnqueue(a) \/ UploadAbort(a)
  <2> USE <1>1 DEF UploadPut, UploadEnqueue, UploadAbort
  <2>1. TypeOK'
    <3>a. upload \in [Assets -> UploadSteps] /\ objects \in [Assets -> SUBSET Variants]
        BY DEF TypeOK
    <3>b. \E s \in UploadSteps : upload' = [upload EXCEPT ![a] = s]
        BY DEF UploadSteps
    <3>c. \E f \in SUBSET Variants : objects' = [objects EXCEPT ![a] = f]
        BY <3>a DEF Variants
    <3>1. upload' \in [Assets -> UploadSteps]
        BY <3>a, <3>b
    <3>2. objects' \in [Assets -> SUBSET Variants]
        BY <3>a, <3>c
    <3>3. queue' \in Seq(Photos)
      <4>1. queue \in Seq(Photos)
          BY DEF TypeOK
      <4>2. CASE a \in Photos /\ UploadEnqueue(a)
        <5>1. queue' = Append(queue, a)
            BY <4>2 DEF UploadEnqueue
        <5> QED
            BY <4>1, <4>2, <5>1
      <4>3. CASE ~(a \in Photos /\ UploadEnqueue(a))
          BY <4>1, <4>3
      <4> QED
          BY <4>2, <4>3
    <3> QED
        BY <3>1, <3>2, <3>3 DEF TypeOK
  <2>2. StatusesAgree' /\ AttemptsRemain'
      BY DEF StatusesAgree, AttemptsRemain
  <2>3. WorkedAssetStays' /\ JobLockIsExclusive' /\ PollsAreCurrent' /\ WorkersKeepToTheirCode'
      BY DEF WorkedAssetStays, JobLockIsExclusive, PollsAreCurrent, WorkersKeepToTheirCode,
             HoldsJob, Stored
  <2>4. UploadsAreAtomic'
      BY DEF UploadsAreAtomic, TypeOK
  <2>5. AssetLockExcludesShares'
      BY DEF AssetLockExcludesShares, SharesAsset
  <2> QED
      BY <2>1, <2>2, <2>3, <2>4, <2>5
<1>2. CASE UploadCommit(a)
  <2> USE <1>2 DEF UploadCommit
  <2>1. TypeOK'
      BY ConfigurationAssumption DEF TypeOK, UploadSteps, RowKinds, Variants, NoJob
  <2>2. StatusesAgree'
      BY AssetsAssumption DEF StatusesAgree, TypeOK, Assets
  <2>3. AttemptsRemain'
      BY AssetsAssumption, ConfigurationAssumption DEF AttemptsRemain, TypeOK, Assets
  <2>4. WorkedAssetStays'
      BY DEF WorkedAssetStays, HoldsJob, Stored, TypeOK
  <2>5. JobLockIsExclusive' /\ WorkersKeepToTheirCode'
      BY DEF JobLockIsExclusive, WorkersKeepToTheirCode, HoldsJob
  <2>6. PollsAreCurrent'
      BY DEF PollsAreCurrent, UploadsAreAtomic, NoJob, TypeOK
  <2>7. UploadsAreAtomic'
      BY DEF UploadsAreAtomic, TypeOK
  <2>8. AssetLockExcludesShares'
      BY DEF AssetLockExcludesShares, SharesAsset
  <2> QED
      BY <2>1, <2>2, <2>3, <2>4, <2>5, <2>6, <2>7, <2>8
<1> QED
    BY <1>1, <1>2 DEF UploadStep

\* A job becoming due again changes nothing the invariant speaks of but its type.
LEMMA BackoffElapsesIInv ==
    ASSUME IInv, NEW a \in Assets, BackoffElapses(a)
    PROVE  IInv'
<1>1. TypeOK'
  <2>1. TypeOK
      BY DEF IInv
  <2>2. job' \in [Assets -> [status: {"NONE", "PENDING", "COMPLETED", "FAILED"},
                             attempts: 0 .. MaxAttempts, due: BOOLEAN]]
    <3>1. job \in [Assets -> [status: {"NONE", "PENDING", "COMPLETED", "FAILED"},
                              attempts: 0 .. MaxAttempts, due: BOOLEAN]]
        BY <2>1 DEF TypeOK
    <3>2. job' = [job EXCEPT ![a] = [@ EXCEPT !.due = TRUE]]
        BY DEF BackoffElapses
    <3> QED
        BY <3>1, <3>2
  <2>3. UNCHANGED <<upload, asset, rows, objects, queue, work, del, faults, requested>>
      BY DEF BackoffElapses
  <2> QED
      BY <2>1, <2>2, <2>3 DEF TypeOK
<1> USE DEF IInv, BackoffElapses
<1>2. StatusesAgree' /\ AttemptsRemain'
    BY DEF StatusesAgree, AttemptsRemain, TypeOK, Assets
<1>3. WorkedAssetStays' /\ JobLockIsExclusive' /\ WorkersKeepToTheirCode'
    BY DEF WorkedAssetStays, JobLockIsExclusive, WorkersKeepToTheirCode, HoldsJob, Stored
<1>4. PollsAreCurrent'
    BY DEF PollsAreCurrent, TypeOK
<1>5. UploadsAreAtomic'
  <2>1. \A x \in Assets : x # a => job'[x] = job[x]
      BY DEF TypeOK
  <2>2. upload[a] = "committed"
      BY DEF UploadsAreAtomic, NoJob
  <2> QED
      BY <2>1, <2>2 DEF UploadsAreAtomic
<1>6. AssetLockExcludesShares'
    BY DEF AssetLockExcludesShares, SharesAsset
<1> QED
    BY <1>1, <1>2, <1>3, <1>4, <1>5, <1>6

-----------------------------------------------------------------------------
(* Deletions and crashes.                                                  *)

\* A deletion that begins holds no lock yet.
LEMMA DeleteBeginIInv ==
    ASSUME IInv, NEW d \in Deleters, NEW a \in Assets, DeleteBegin(d, a)
    PROVE  IInv'
<1> USE DEF IInv, DeleteBegin
<1>1. TypeOK'
    BY DEF TypeOK, DeleteSteps
<1>2. StatusesAgree' /\ AttemptsRemain' /\ UploadsAreAtomic'
    BY DEF StatusesAgree, AttemptsRemain, UploadsAreAtomic
<1>3. WorkedAssetStays' /\ JobLockIsExclusive' /\ PollsAreCurrent' /\ WorkersKeepToTheirCode'
    BY DEF WorkedAssetStays, JobLockIsExclusive, PollsAreCurrent, WorkersKeepToTheirCode,
           HoldsJob, Stored
<1>4. AssetLockExcludesShares'
    BY DEF AssetLockExcludesShares, SharesAsset, TypeOK
<1> QED
    BY <1>1, <1>2, <1>3, <1>4

\* The rows go in one step, when no transaction holds the job and none has new
\* child rows; every other step of a deletion leaves the database alone.
LEMMA DeleteCommitIInv ==
    ASSUME IInv, NEW d \in Deleters, DeleteCommit(d)
    PROVE  IInv'
<1> USE DEF IInv, DeleteCommit
<1> DEFINE a == del[d].asset
<1>a. a \in Assets
    BY DEF TypeOK
<1>1. TypeOK'
  <2>1. del' \in [Deleters ->
           [pc: DeleteSteps, asset: Assets \cup {None}, left: SUBSET Variants]]
      BY DEF TypeOK, DeleteEnds, DeleteSteps
  <2>2. \A e \in Deleters : del'[e].pc \in {"purging", "locked"} => del'[e].asset \in Assets
      BY DEF TypeOK, DeleteEnds
  <2>3. job' \in [Assets -> [status: {"NONE", "PENDING", "COMPLETED", "FAILED"},
                             attempts: 0 .. MaxAttempts, due: BOOLEAN]]
      BY <1>a, ConfigurationAssumption DEF TypeOK, NoJob
  <2>4. asset' \in [Assets ->
           [processing: {"NONE", "UPLOADED", "PROCESSING", "READY", "FAILED"},
            analysis: {"NONE", "PENDING", "COMPLETED", "SKIPPED", "FAILED"}]]
      BY <1>a DEF TypeOK, NoAsset
  <2>5. rows' \in [Assets -> SUBSET RowKinds]
      BY <1>a DEF TypeOK
  <2> QED
      BY <2>1, <2>2, <2>3, <2>4, <2>5 DEF TypeOK
<1>2. StatusesAgree' /\ AttemptsRemain'
    BY <1>a DEF StatusesAgree, AttemptsRemain, NoJob, TypeOK, Assets
<1>3. UploadsAreAtomic'
    BY <1>a DEF UploadsAreAtomic, TypeOK
<1>b. \A w \in Workers : ~HoldsJob(w, a) /\ ~SharesAsset(w, a)
    BY DEF JobFree, AssetLockExcludesShares
<1>4. WorkedAssetStays'
    BY <1>a, <1>b DEF WorkedAssetStays, HoldsJob, SharesAsset, Stored, TypeOK
<1>5. JobLockIsExclusive' /\ WorkersKeepToTheirCode'
    BY DEF JobLockIsExclusive, WorkersKeepToTheirCode, HoldsJob
<1>6. PollsAreCurrent'
    BY <1>a, <1>b DEF PollsAreCurrent, HoldsJob, Workers, TypeOK
<1>7. AssetLockExcludesShares'
    BY DEF AssetLockExcludesShares, SharesAsset, DeleteEnds, TypeOK
<1> QED
    BY <1>1, <1>2, <1>3, <1>4, <1>5, <1>6, <1>7

DeletionRecords == [pc: DeleteSteps, asset: Assets \cup {None}, left: SUBSET Variants]

\* Deletion d goes on with the same asset, or ends; it has locked the asset only
\* when no transaction has new child rows of it.
GoesOn(d) ==
    /\ del' \in [Deleters -> DeletionRecords]
    /\ \A e \in Deleters \ {d} : del'[e] = del[e]
    /\ del'[d].pc \in {"purging", "locked"} => del'[d].asset \in Assets
    /\ del'[d].pc = "locked" => \A w \in Workers : ~SharesAsset(w, del'[d].asset)

\* Its later steps: files, the lock of the asset row, the commit, an abort.
LEMMA DeleteStepIInv ==
    ASSUME IInv, NEW d \in Deleters, DeleteStep(d)
    PROVE  IInv'
<1> USE DEF IInv
<1>1. CASE DeleteCommit(d)
    BY <1>1, DeleteCommitIInv
<1>2. CASE (\E v \in Variants : DeleteObject(d, v)) \/ DeleteLock(d) \/ DeleteAborts(d)
  <2>a. UNCHANGED <<upload, asset, job, rows, queue, work, faults, requested>>
      BY <1>2 DEF DeleteObject, DeleteLock, DeleteAborts
  <2>b. GoesOn(d)
    <3>a. del \in [Deleters -> DeletionRecords]
        BY DEF TypeOK, DeletionRecords
    <3>b. del[d].pc = "purging" => del[d].asset \in Assets
        BY DEF TypeOK
    <3>1. ASSUME NEW v \in Variants, DeleteObject(d, v) PROVE GoesOn(d)
        BY <3>1, <3>a, <3>b DEF DeleteObject, GoesOn, DeletionRecords
    <3>2. CASE DeleteLock(d)
      <4>1. CASE Stored(del[d].asset)
          BY <3>2, <3>a, <3>b, <4>1 DEF DeleteLock, GoesOn, DeletionRecords, DeleteSteps
      <4>2. CASE ~Stored(del[d].asset)
          BY <3>2, <3>a, <4>2 DEF DeleteLock, DeleteEnds, GoesOn, DeletionRecords, DeleteSteps
      <4> QED
          BY <4>1, <4>2
    <3>3. CASE DeleteAborts(d)
        BY <3>3, <3>a DEF DeleteAborts, DeleteEnds, GoesOn, DeletionRecords, DeleteSteps
    <3> QED
        BY <1>2, <3>1, <3>2, <3>3
  <2>1. TypeOK'
    <3>1. objects' \in [Assets -> SUBSET Variants]
      <4>1. objects \in [Assets -> SUBSET Variants]
          BY DEF TypeOK
      <4>2. CASE \E v \in Variants : DeleteObject(d, v)
        <5>1. PICK v \in Variants : DeleteObject(d, v)
            BY <4>2
        <5> QED
            BY <4>1, <5>1 DEF DeleteObject
      <4>3. CASE DeleteLock(d) \/ DeleteAborts(d)
          BY <4>1, <4>3 DEF DeleteLock, DeleteAborts
      <4> QED
          BY <1>2, <4>2, <4>3
    <3>2. /\ del' \in [Deleters -> [pc: DeleteSteps, asset: Assets \cup {None},
                                   left: SUBSET Variants]]
          /\ \A e \in Deleters : del'[e].pc \in {"purging", "locked"} => del'[e].asset \in Assets
        BY <2>b DEF TypeOK, DeletionRecords, GoesOn
    <3>3. TypeOK
        OBVIOUS
    <3> QED
        BY <2>a, <3>1, <3>2, <3>3 DEF TypeOK
  <2>2. StatusesAgree' /\ AttemptsRemain' /\ UploadsAreAtomic'
      BY <2>a DEF StatusesAgree, AttemptsRemain, UploadsAreAtomic
  <2>3. WorkedAssetStays' /\ JobLockIsExclusive' /\ PollsAreCurrent' /\ WorkersKeepToTheirCode'
      BY <2>a DEF WorkedAssetStays, JobLockIsExclusive, PollsAreCurrent,
                  WorkersKeepToTheirCode, HoldsJob, Stored
  <2>4. AssetLockExcludesShares'
    <3>1. \A w \in Workers, e \in Deleters \ {d} :
              del'[e] = del[e] /\ work'[w] = work[w]
        BY <2>a, <2>b DEF GoesOn
    <3>2. del'[d].pc = "locked" =>
              \A w \in Workers : ~SharesAsset(w, del'[d].asset)
        BY <2>b DEF GoesOn
    <3>3. \A w \in Workers : \A b : SharesAsset(w, b)' <=> SharesAsset(w, b)
        BY <2>a DEF SharesAsset
    <3> QED
        BY <3>1, <3>2, <3>3 DEF AssetLockExcludesShares
  <2> QED
      BY <2>1, <2>2, <2>3, <2>4
<1> QED
    BY <1>1, <1>2 DEF DeleteStep

\* A crash rolls every transaction back: no lock is held after it.
LEMMA CrashIInv ==
    ASSUME IInv, Crash
    PROVE  IInv'
<1> USE DEF IInv, Crash
<1>a. \A w \in Workers : work'[w].pc \in Resting /\ work'[w].asset = None /\ work'[w].fresh = {}
    BY DEF AtRest, Resting, WorkersKeepToTheirCode
<1>1. TypeOK'
  <2>1. work' \in [Workers -> [pc: WorkSteps, asset: Photos \cup {None},
                               attempts: 0 .. MaxAttempts,
                               seen: SUBSET RowKinds, fresh: SUBSET RowKinds]]
      BY ConfigurationAssumption DEF TypeOK, AtRest, WorkSteps
  <2>2. upload' \in [Assets -> UploadSteps]
      BY DEF TypeOK, UploadSteps
  <2>3. del' \in [Deleters ->
           [pc: DeleteSteps, asset: Assets \cup {None}, left: SUBSET Variants]]
      BY DEF TypeOK, DeleteSteps
  <2>4. \A e \in Deleters : del'[e].pc \in {"purging", "locked"} => del'[e].asset \in Assets
      BY DEF TypeOK
  <2>5. faults' \in 0 .. MaxFaults
      BY ConfigurationAssumption DEF TypeOK
  <2> QED
      BY <1>a, <2>1, <2>2, <2>3, <2>4, <2>5 DEF TypeOK
<1>2. StatusesAgree' /\ AttemptsRemain' /\ UploadsAreAtomic'
    BY DEF StatusesAgree, AttemptsRemain, UploadsAreAtomic
<1>3. WorkedAssetStays' /\ JobLockIsExclusive' /\ PollsAreCurrent' /\ WorkersKeepToTheirCode'
    BY <1>a DEF WorkedAssetStays, JobLockIsExclusive, PollsAreCurrent,
                WorkersKeepToTheirCode, HoldsJob, Resting, Workers
<1>4. AssetLockExcludesShares'
    BY <1>a DEF AssetLockExcludesShares, SharesAsset
<1> QED
    BY <1>1, <1>2, <1>3, <1>4

-----------------------------------------------------------------------------
(* The actions of a processing transaction, one by one.                    *)

WorkRecords ==
    [pc: WorkSteps, asset: Photos \cup {None}, attempts: 0 .. MaxAttempts,
     seen: SUBSET RowKinds, fresh: SUBSET RowKinds]

\* Transaction w is at pc, with child rows fresh, and otherwise as it was.
Moves(w, pc, fresh) ==
    /\ work' \in [Workers -> WorkRecords]
    /\ \A x \in Workers \ {w} : work'[x] = work[x]
    /\ work'[w].pc = pc
    /\ work'[w].asset = work[w].asset
    /\ work'[w].attempts = work[w].attempts
    /\ work'[w].fresh = fresh

\* Three ways to move on: the step alone,
LEMMA PcMoves ==
    ASSUME work \in [Workers -> WorkRecords], NEW w \in Workers, NEW pc \in WorkSteps,
           work' = [work EXCEPT ![w].pc = pc]
    PROVE  Moves(w, pc, work[w].fresh)
BY DEF Moves, WorkRecords

\* the step and what has been seen,
LEMMA SeesMoves ==
    ASSUME work \in [Workers -> WorkRecords], NEW w \in Workers, NEW pc \in WorkSteps,
           rows[work[w].asset] \in SUBSET RowKinds, Sees(w, pc)
    PROVE  Moves(w, pc, work[w].fresh)
BY DEF Moves, WorkRecords, Sees

\* the step and a new child row.
LEMMA InsertMoves ==
    ASSUME work \in [Workers -> WorkRecords], NEW w \in Workers, NEW pc \in WorkSteps,
           NEW r \in RowKinds,
           work' = [work EXCEPT ![w].pc = pc, ![w].fresh = @ \cup {r}]
    PROVE  Moves(w, pc, work[w].fresh \cup {r})
BY DEF Moves, WorkRecords

\* A transaction that is not resting moves to another step that is not.
LEMMA MovesIInv ==
    ASSUME IInv, NEW w \in Workers, NEW pc \in WorkSteps \ Resting, NEW fresh,
           work[w].pc \notin Resting, Moves(w, pc, fresh),
           pc = "failing" => w \in Pollers,
           pc = "closing" =>
               w \in Previews /\ JobFree(work[w].asset) /\ Stored(work[w].asset),
           fresh = work[w].fresh \/ (Stored(work[w].asset) /\ AssetFree(work[w].asset)),
           objects' \in [Assets -> SUBSET Variants],
           UNCHANGED <<upload, asset, job, rows, queue, del, faults, requested>>
    PROVE  IInv'
<1>1. TypeOK'
  <2>1. \A x \in Workers : work'[x].pc \notin Resting => work'[x].asset \in Photos
      BY DEF Moves, IInv, TypeOK
  <2> QED
      BY <2>1 DEF Moves, IInv, TypeOK, WorkRecords
<1>2. Advances(w)
    BY DEF Advances, Moves
<1> QED
    BY <1>1, <1>2, AdvancesIInv

\* A move to a step other than "closing", with no new child row.
LEMMA StepsIInv ==
    ASSUME IInv, NEW w \in Workers, NEW pc \in WorkSteps \ Resting,
           work[w].pc \notin Resting, Moves(w, pc, work[w].fresh),
           pc = "failing" => w \in Pollers, pc # "closing",
           objects' \in [Assets -> SUBSET Variants],
           UNCHANGED <<upload, asset, job, rows, queue, del, faults, requested>>
    PROVE  IInv'
<1>1. TypeOK'
  <2>1. \A x \in Workers : work'[x].pc \notin Resting => work'[x].asset \in Photos
      BY DEF Moves, IInv, TypeOK
  <2> QED
      BY <2>1 DEF Moves, IInv, TypeOK, WorkRecords
<1>2. Advances(w)
    BY DEF Advances, Moves
<1> QED
    BY <1>1, <1>2, AdvancesIInv

\* Where saving a child row leads: never to "closing" or to rest.
LEMMA RowSavesMove ==
    ASSUME NEW w \in Workers, Saving(w) \/ SkipRow(w)
    PROVE  /\ RowOf(w) \in RowKinds
           /\ NextOf(w) \in {"meta", "saved", "published"}
           /\ work[w].pc \in {"read", "put", "analyzed"}
BY DEF Saving, SkipRow, RowOf, NextOf, RowSaves, RowKinds, Variants

\* The types a transaction in flight brings along.
LEMMA WorkIsTyped ==
    ASSUME IInv, NEW w \in Workers, work[w].pc \notin Resting
    PROVE  /\ work \in [Workers -> WorkRecords]
           /\ work[w].asset \in Photos
           /\ work[w].asset \in Assets
           /\ rows[work[w].asset] \in SUBSET RowKinds
           /\ objects \in [Assets -> SUBSET Variants]
BY DEF IInv, TypeOK, WorkRecords, Assets

\* Seeing, saving and keeping rows: the transaction goes on.
LEMMA WorkAdvancesIInv ==
    ASSUME IInv, NEW w \in Workers,
           \/ ReadOriginal(w) \/ PutThumbnail(w) \/ Analyze(w)
           \/ SkipRow(w) \/ KeepRow(w) \/ InsertRow(w)
    PROVE  IInv'
<1>a. work[w].pc \notin Resting
    BY RowSavesMove DEF ReadOriginal, PutThumbnail, Analyze, KeepRow, InsertRow, Resting
<1>b. /\ work \in [Workers -> WorkRecords]
      /\ work[w].asset \in Assets
      /\ rows[work[w].asset] \in SUBSET RowKinds
      /\ objects \in [Assets -> SUBSET Variants]
    BY <1>a, WorkIsTyped
<1>1. CASE ReadOriginal(w)
  <2>1. Moves(w, "read", work[w].fresh)
      BY <1>1, <1>b, SeesMoves DEF ReadOriginal, WorkSteps
  <2> QED
      BY <1>1, <1>a, <1>b, <2>1, StepsIInv DEF ReadOriginal, WorkSteps, Resting
<1>2. CASE PutThumbnail(w)
  <2>1. Moves(w, "put", work[w].fresh)
      BY <1>2, <1>b, SeesMoves DEF PutThumbnail, WorkSteps
  <2>2. objects' \in [Assets -> SUBSET Variants]
      BY <1>2, <1>b DEF PutThumbnail, Variants
  <2> QED
      BY <1>2, <1>a, <2>1, <2>2, StepsIInv DEF PutThumbnail, WorkSteps, Resting
<1>3. CASE Analyze(w)
  <2>1. Moves(w, "analyzed", work[w].fresh)
      BY <1>3, <1>b, SeesMoves DEF Analyze, WorkSteps
  <2> QED
      BY <1>3, <1>a, <1>b, <2>1, StepsIInv DEF Analyze, WorkSteps, Resting
<1>4. CASE SkipRow(w) \/ KeepRow(w)
  <2>1. NextOf(w) \in WorkSteps \ Resting /\ NextOf(w) \notin {"failing", "closing"}
      BY <1>4, RowSavesMove DEF KeepRow, WorkSteps, Resting
  <2>2. Moves(w, NextOf(w), work[w].fresh)
      BY <1>4, <1>b, <2>1, PcMoves DEF SkipRow, KeepRow
  <2> QED
      BY <1>4, <1>a, <1>b, <2>1, <2>2, StepsIInv DEF SkipRow, KeepRow
<1>5. CASE InsertRow(w)
  <2>1. /\ NextOf(w) \in WorkSteps \ Resting /\ NextOf(w) \notin {"failing", "closing"}
        /\ RowOf(w) \in RowKinds
      BY <1>5, RowSavesMove DEF InsertRow, WorkSteps, Resting
  <2>2. Moves(w, NextOf(w), work[w].fresh \cup {RowOf(w)})
      BY <1>5, <1>b, <2>1, InsertMoves DEF InsertRow
  <2>3. Stored(work[w].asset) /\ AssetFree(work[w].asset)
      BY <1>5 DEF InsertRow, InsertAllowed, InsertWaits
  <2> QED
      BY <1>5, <1>a, <1>b, <2>1, <2>2, <2>3, MovesIInv DEF InsertRow
<1> QED
    BY <1>1, <1>2, <1>3, <1>4, <1>5

\* The poll enters its catch block, the preview rolls back.
LEMMA ProcessingFailsIInv ==
    ASSUME IInv, NEW w \in Workers, ProcessingFails(w)
    PROVE  IInv'
<1>1. CASE w \in Pollers
  <2>1. work[w].pc \notin Resting
      BY DEF ProcessingFails, Resting
  <2>2. Moves(w, "failing", work[w].fresh)
      BY <1>1, <2>1, WorkIsTyped, PcMoves DEF ProcessingFails, WorkSteps
  <2> QED
      BY <1>1, <2>1, <2>2, WorkIsTyped, StepsIInv DEF ProcessingFails, WorkSteps, Resting
<1>2. CASE w \notin Pollers
    BY <1>2, RollBackIInv DEF ProcessingFails, IInv, TypeOK
<1> QED
    BY <1>1, <1>2

\* The preview locks the job row only when nobody holds it.
LEMMA PreviewClosesIInv ==
    ASSUME IInv, NEW a \in Previews, PreviewCloses(a)
    PROVE  IInv'
<1>a. a \in Workers
    BY DEF Workers
<1>b. work[a].pc \notin Resting /\ work[a].asset = a
    BY DEF PreviewCloses, IInv, WorkersKeepToTheirCode, Resting
<1>1. CASE Stored(a)
  <2>1. Moves(a, "closing", work[a].fresh)
      BY <1>1, <1>a, <1>b, WorkIsTyped, PcMoves DEF PreviewCloses, WorkSteps
  <2> QED
      BY <1>1, <1>a, <1>b, <2>1, WorkIsTyped, MovesIInv DEF PreviewCloses, WorkSteps, Resting
<1>2. CASE ~Stored(a)
    BY <1>2, <1>a, RollBackIInv DEF PreviewCloses, IInv, TypeOK
<1> QED
    BY <1>1, <1>2

\* A transaction that commits holds the job row: the poll since it began, the
\* preview since it closes.
LEMMA WorkSucceedsIInv ==
    ASSUME IInv, NEW w \in Workers, WorkSucceeds(w)
    PROVE  IInv'
<1> USE DEF IInv
<1>1. work[w].pc \notin Resting /\ HoldsJob(w, work[w].asset)
    BY DEF WorkSucceeds, HoldsJob, Resting
<1>2. work[w].attempts \in 0 .. MaxAttempts
    BY DEF TypeOK
<1> QED
    BY <1>1, <1>2, FinishIInv, ConfigurationAssumption DEF WorkSucceeds

\* The catch block commits PENDING with an attempt left, or FAILED.
LEMMA PollCountsFailureIInv ==
    ASSUME IInv, NEW w \in Workers, PollCountsFailure(w)
    PROVE  IInv'
<1> USE DEF IInv
<1> DEFINE a == work[w].asset
           n == NextAttempt(w)
<1>1. w \in Pollers /\ work[w].pc \notin Resting /\ a \in Photos
    BY DEF PollCountsFailure, WorkersKeepToTheirCode, Resting, TypeOK
<1>2. HoldsJob(w, a)
    BY <1>1 DEF HoldsJob
<1>3. job[a].status = "PENDING" /\ job[a].attempts = work[w].attempts
    BY <1>1 DEF PollsAreCurrent
<1>4. n \in 1 .. MaxAttempts
    BY <1>1, <1>3, ConfigurationAssumption DEF AttemptsRemain, NextAttempt, TypeOK
<1>5. CASE GivesUp(n)
  <2> DEFINE jobRow == [status |-> "FAILED", attempts |-> n, due |-> TRUE]
  <2>1. Finish(w, FailedAsset, jobRow)
      BY <1>5 DEF PollCountsFailure
  <2>2. n \in 0 .. MaxAttempts
      BY <1>4, ConfigurationAssumption
  <2>3. jobRow \in [status: {"PENDING", "COMPLETED", "FAILED"},
                    attempts: 0 .. MaxAttempts, due: BOOLEAN]
      BY <2>2
  <2>4. jobRow.status = "FAILED"
      OBVIOUS
  <2> HIDE DEF jobRow
  <2> QED
      BY <1>1, <1>2, <2>1, <2>3, <2>4, FinishIInv DEF FailedAsset
<1>6. CASE ~GivesUp(n)
  <2> DEFINE assetRow == [asset[a] EXCEPT !.processing = "PROCESSING"]
             jobRow == [status |-> "PENDING", attempts |-> n, due |-> FALSE]
  <2>1. assetRow = [processing |-> "PROCESSING", analysis |-> "PENDING"]
      BY <1>1, <1>3 DEF StatusesAgree, TypeOK, Assets
  <2>2. Finish(w, assetRow, jobRow)
      BY <1>6 DEF PollCountsFailure
  <2>3. n \in 0 .. MaxAttempts /\ 0 < n /\ n < MaxAttempts
      BY <1>4, <1>6, ConfigurationAssumption DEF GivesUp
  <2>4. jobRow \in [status: {"PENDING", "COMPLETED", "FAILED"},
                    attempts: 0 .. MaxAttempts, due: BOOLEAN]
      BY <2>3
  <2>5. jobRow.status = "PENDING" /\ jobRow.attempts = n
      OBVIOUS
  <2> HIDE DEF jobRow, assetRow
  <2> QED
      BY <1>1, <1>2, <2>1, <2>2, <2>3, <2>4, <2>5, FinishIInv
<1> QED
    BY <1>5, <1>6

\* Every step of a processing transaction.
LEMMA WorkStepIInv ==
    ASSUME IInv, NEW w \in Workers, WorkStep(w) \/ WorkAborts(w)
    PROVE  IInv'
<1>1. CASE \/ ReadOriginal(w) \/ PutThumbnail(w) \/ Analyze(w)
           \/ SkipRow(w) \/ KeepRow(w) \/ InsertRow(w)
    BY <1>1, WorkAdvancesIInv
<1>2. CASE InsertRefused(w) \/ WorkIsVictim(w)
    BY <1>2, RollBackIInv DEF InsertRefused, WorkIsVictim, IInv, TypeOK
<1>3. CASE WorkAborts(w)
    BY <1>3, RollBackIInv, ConfigurationAssumption DEF WorkAborts, IInv, TypeOK
<1>4. CASE ProcessingFails(w)
    BY <1>4, ProcessingFailsIInv
<1>5. CASE WorkSucceeds(w)
    BY <1>5, WorkSucceedsIInv
<1>6. CASE PollCountsFailure(w)
    BY <1>6, PollCountsFailureIInv
<1> QED
    BY <1>1, <1>2, <1>3, <1>4, <1>5, <1>6 DEF WorkStep

\* The poll takes a free, pending job, whose asset is stored.
LEMMA PollBeginIInv ==
    ASSUME IInv, NEW w \in Pollers, NEW a \in Photos, PollBegin(w, a)
    PROVE  IInv'
<1> USE DEF IInv
<1>1. job[a].status = "PENDING"
    BY DEF PollBegin, Oldest, Pending
<1>2. Stored(a)
    BY <1>1 DEF StatusesAgree, Stored
<1> QED
    BY <1>1, <1>2, BeginIInv, PollersAreNotPreviews DEF PollBegin, Workers, Resting

\* The preview takes its own photo, and no lock.
LEMMA PreviewBeginIInv ==
    ASSUME IInv, NEW a \in Previews, PreviewBegin(a)
    PROVE  IInv'
<1> USE DEF IInv
<1>a. a \in Workers /\ a \in Photos /\ a \notin Pollers
    BY AssetsAssumption, PollersAreNotPreviews DEF Workers
<1>1. CASE Stored(a)
    BY <1>1, <1>a, BeginIInv DEF PreviewBegin, Resting
<1>2. CASE ~Stored(a)
    BY <1>2, <1>a, RollBackIInv DEF PreviewBegin, RollBack, TypeOK
<1> QED
    BY <1>1, <1>2

\* Every action keeps the invariant.
LEMMA NextIInv == IInv /\ [Next]_vars => IInv'
<1> SUFFICES ASSUME IInv, [Next]_vars PROVE IInv'
    OBVIOUS
<1>1. ASSUME NEW a \in Assets, UploadStep(a) \/ BackoffElapses(a) PROVE IInv'
    BY <1>1, UploadStepIInv, BackoffElapsesIInv
<1>2. ASSUME NEW w \in Pollers, NEW a \in Photos, PollBegin(w, a) PROVE IInv'
    BY <1>2, PollBeginIInv
<1>3. ASSUME NEW a \in Previews, PreviewBegin(a) \/ PreviewCloses(a) PROVE IInv'
    BY <1>3, PreviewBeginIInv, PreviewClosesIInv
<1>4. ASSUME NEW w \in Workers, WorkStep(w) \/ WorkAborts(w) PROVE IInv'
    BY <1>4, WorkStepIInv
<1>5. ASSUME NEW d \in Deleters, NEW a \in Assets, DeleteBegin(d, a) PROVE IInv'
    BY <1>5, DeleteBeginIInv
<1>6. ASSUME NEW d \in Deleters, DeleteStep(d) PROVE IInv'
    BY <1>6, DeleteStepIInv
<1>7. CASE Crash
    BY <1>7, CrashIInv
<1>8. CASE Quiet \/ UNCHANGED vars
  <2> USE <1>8 DEF Quiet, vars, IInv
  <2>1. TypeOK'
      BY DEF TypeOK
  <2>2. StatusesAgree' /\ AttemptsRemain' /\ UploadsAreAtomic'
      BY DEF StatusesAgree, AttemptsRemain, UploadsAreAtomic
  <2>3. WorkedAssetStays' /\ JobLockIsExclusive'
      BY DEF WorkedAssetStays, JobLockIsExclusive, HoldsJob, Stored
  <2>4. PollsAreCurrent' /\ WorkersKeepToTheirCode' /\ AssetLockExcludesShares'
      BY DEF PollsAreCurrent, WorkersKeepToTheirCode, AssetLockExcludesShares, SharesAsset
  <2> QED
      BY <2>1, <2>2, <2>3, <2>4
<1> QED
    BY <1>1, <1>2, <1>3, <1>4, <1>5, <1>6, <1>7, <1>8 DEF Next

-----------------------------------------------------------------------------
(* The theorems.                                                           *)

\* The inductive invariant holds in every reachable state.
THEOREM Invariance == Spec => []IInv
<1> QED
    BY InitIInv, NextIInv, PTL DEF Spec

\* Types are kept; in particular no job counts more than MaxAttempts failures.
THEOREM TypeCorrect == Spec => []TypeOK
<1>1. IInv => TypeOK
    BY DEF IInv
<1> QED
    BY <1>1, Invariance, PTL

\* At every commit the job and the asset row agree, for any number of server
\* instances, previews, deletions and faults.
THEOREM StatusesAlwaysAgree == Spec => []StatusesAgree
<1>1. IInv => StatusesAgree
    BY DEF IInv
<1> QED
    BY <1>1, Invariance, PTL

\* No two server instances ever process the same job at once.
THEOREM MutualExclusion == Spec => []OnePollPerJob
<1>1. IInv => OnePollPerJob
  <2> SUFFICES ASSUME IInv, NEW w \in Pollers, NEW x \in Pollers,
                      work[w].pc \notin Resting, work[w].asset = work[x].asset
               PROVE  w = x
      BY DEF OnePollPerJob
  <2>1. work[w].asset \in Photos /\ w \in Workers /\ x \in Workers
      BY DEF IInv, TypeOK, Workers
  <2>2. work[x].pc \notin Resting
      BY <2>1, ProcessesAssumption DEF IInv, WorkersKeepToTheirCode, Assets
  <2> QED
      BY <2>1, <2>2 DEF IInv, JobLockIsExclusive, HoldsJob
<1> QED
    BY <1>1, Invariance, PTL

\* The asset of a transaction that can still commit is never deleted under it.
THEOREM AssetsOutliveTheirWork == Spec => []WorkedAssetStays
<1>1. IInv => WorkedAssetStays
    BY DEF IInv
<1> QED
    BY <1>1, Invariance, PTL

-----------------------------------------------------------------------------
(* What the steps do to the jobs of photos: they are the steps of          *)
(* ProcessingJob, and a job gives up only after its last attempt.          *)

\* A preview has read the attempts of its job at some time since the upload.
PreviewsReadThePast ==
    \A x \in Previews : work[x].pc \notin Resting =>
        /\ upload[x] = "committed"
        /\ Stored(x) => work[x].attempts <= job[x].attempts

JInv == IInv /\ PreviewsReadThePast

\* No photo is accepted, tried or deleted by this step.
KeepsJobs ==
    \A p \in Photos :
        /\ job'[p].status = job[p].status /\ job'[p].attempts = job[p].attempts
        /\ upload'[p] = "committed" <=> upload[p] = "committed"

\* Only four kinds of step show in the jobs of photos.
LEMMA JobSteps ==
    ASSUME IInv, [Next]_vars
    PROVE  \/ KeepsJobs
           \/ \E a \in Photos : UploadCommit(a)
           \/ \E w \in Workers : WorkSucceeds(w) \/ PollCountsFailure(w)
           \/ \E d \in Deleters : DeleteCommit(d)
<1> USE DEF KeepsJobs
<1>1. ASSUME NEW a \in Assets, UploadPut(a) \/ UploadEnqueue(a) \/ UploadAbort(a)
      PROVE  KeepsJobs
    BY <1>1 DEF UploadPut, UploadEnqueue, UploadAbort, IInv, TypeOK, Assets
<1>2. ASSUME NEW a \in Assets, UploadCommit(a)
      PROVE  a \in Photos \/ KeepsJobs
    BY <1>2, AssetsAssumption DEF UploadCommit, IInv, TypeOK, Assets
<1>3. ASSUME NEW a \in Assets, BackoffElapses(a)
      PROVE  KeepsJobs
    BY <1>3 DEF BackoffElapses, IInv, TypeOK, Assets
<1>4. ASSUME UNCHANGED <<upload, job>>
      PROVE  KeepsJobs
    BY <1>4
<1>5. ASSUME NEW w \in Pollers, NEW a \in Photos, PollBegin(w, a)
      PROVE  KeepsJobs
    BY <1>4, <1>5 DEF PollBegin
<1>6. ASSUME NEW a \in Previews, PreviewBegin(a) \/ PreviewCloses(a)
      PROVE  KeepsJobs
    BY <1>4, <1>6 DEF PreviewBegin, PreviewCloses, RollBack
<1>7. ASSUME NEW w \in Workers, WorkStep(w) \/ WorkAborts(w)
      PROVE  KeepsJobs \/ WorkSucceeds(w) \/ PollCountsFailure(w)
    BY <1>4, <1>7 DEF WorkStep, WorkAborts, ReadOriginal, PutThumbnail, Analyze, SkipRow,
                      KeepRow, InsertRow, InsertRefused, ProcessingFails, WorkIsVictim, RollBack
<1>8. ASSUME NEW d \in Deleters, NEW a \in Assets, DeleteBegin(d, a)
      PROVE  KeepsJobs
    BY <1>4, <1>8 DEF DeleteBegin
<1>9. ASSUME NEW d \in Deleters, DeleteStep(d)
      PROVE  KeepsJobs \/ DeleteCommit(d)
    BY <1>4, <1>9 DEF DeleteStep, DeleteObject, DeleteLock, DeleteAborts
<1>10. CASE Crash
    BY <1>10 DEF Crash, Assets
<1>11. CASE Quiet \/ UNCHANGED vars
    BY <1>4, <1>11 DEF Quiet, vars
<1> QED
    BY <1>1, <1>2, <1>3, <1>5, <1>6, <1>7, <1>8, <1>9, <1>10, <1>11 DEF Next, UploadStep

\* What a commit of a processing transaction may find.
LEMMA CommitsFindTheJob ==
    ASSUME JInv, NEW w \in Workers, WorkSucceeds(w) \/ PollCountsFailure(w)
    PROVE  LET a == work[w].asset IN
           /\ a \in Photos
           /\ upload[a] = "committed"
           /\ job[a].status \in {"PENDING", "COMPLETED", "FAILED"}
           /\ work[w].attempts \in 0 .. MaxAttempts
           /\ work[w].attempts <= job[a].attempts
           /\ w \in Pollers => job[a].status = "PENDING" /\ job[a].attempts = work[w].attempts
           /\ PollCountsFailure(w) => w \in Pollers
<1> DEFINE a == work[w].asset
<1>1. work[w].pc \notin Resting /\ HoldsJob(w, a)
    BY DEF WorkSucceeds, PollCountsFailure, HoldsJob, Resting, JInv, IInv, WorkersKeepToTheirCode
<1>2. a \in Photos /\ a \in Assets /\ work[w].attempts \in 0 .. MaxAttempts
    BY <1>1 DEF JInv, IInv, TypeOK, Assets
<1>3. Stored(a)
    BY <1>1 DEF JInv, IInv, WorkedAssetStays
<1>4. upload[a] = "committed"
    BY <1>2, <1>3 DEF JInv, IInv, UploadsAreAtomic, Stored, NoAsset
<1>5. job[a].status \in {"PENDING", "COMPLETED", "FAILED"} /\ job[a].attempts \in 0 .. MaxAttempts
    BY <1>2, <1>3 DEF JInv, IInv, TypeOK, StatusesAgree, Stored, NoAsset
<1>6. w \in Pollers => job[a].status = "PENDING" /\ job[a].attempts = work[w].attempts
    BY <1>1 DEF JInv, IInv, PollsAreCurrent
<1>7. w \notin Pollers => w \in Previews /\ a = w
    BY <1>1 DEF Workers, JInv, IInv, WorkersKeepToTheirCode
<1>8. work[w].attempts <= job[a].attempts
    BY <1>1, <1>2, <1>3, <1>5, <1>6, <1>7, ConfigurationAssumption DEF JInv, PreviewsReadThePast
<1>9. PollCountsFailure(w) => w \in Pollers
    BY DEF PollCountsFailure, JInv, IInv, WorkersKeepToTheirCode
<1> QED
    BY <1>2, <1>4, <1>5, <1>6, <1>8, <1>9

\* A preview in flight has just begun, or goes on with what it has read.
LEMMA PreviewsGoOn ==
    ASSUME IInv, [Next]_vars, NEW x \in Previews, work'[x].pc \notin Resting
    PROVE  \/ work[x].pc \notin Resting /\ work'[x].attempts = work[x].attempts
           \/ PreviewBegin(x) /\ Stored(x) /\ work'[x].attempts = job[x].attempts
<1> DEFINE Goal == \/ work[x].pc \notin Resting /\ work'[x].attempts = work[x].attempts
                   \/ PreviewBegin(x) /\ Stored(x) /\ work'[x].attempts = job[x].attempts
<1>a. x \in Workers /\ x \notin Pollers
    BY PollersAreNotPreviews DEF Workers
<1>b. work \in [Workers -> WorkRecords]
    BY DEF IInv, TypeOK, WorkRecords
<1>1. CASE work' = work
    BY <1>1
<1>2. ASSUME NEW w \in Pollers, NEW a \in Photos, PollBegin(w, a) PROVE Goal
    BY <1>2, <1>a, <1>b DEF PollBegin, Begin, Workers
<1>3. ASSUME NEW a \in Previews, PreviewBegin(a) PROVE Goal
    BY <1>3, <1>a, <1>b DEF PreviewBegin, Begin, AtRest, Resting, Workers
<1>4. ASSUME NEW a \in Previews, PreviewCloses(a) PROVE Goal
    BY <1>4, <1>a, <1>b DEF PreviewCloses, RollBack, AtRest, Resting, WorkRecords
<1>5. ASSUME NEW w \in Workers, RollBack(w) PROVE Goal
    BY <1>5, <1>a, <1>b DEF RollBack, AtRest, Resting
<1>6. ASSUME NEW w \in Workers, NEW assetRow, NEW jobRow, Finish(w, assetRow, jobRow) PROVE Goal
    BY <1>6, <1>a, <1>b DEF Finish, AtRest, Resting
<1>7. ASSUME NEW w \in Workers, ReadOriginal(w) \/ PutThumbnail(w) \/ Analyze(w) PROVE Goal
    BY <1>7, <1>a, <1>b DEF ReadOriginal, PutThumbnail, Analyze, Sees, Resting, WorkRecords
<1>8. ASSUME NEW w \in Workers, SkipRow(w) \/ KeepRow(w) \/ InsertRow(w) PROVE Goal
    BY <1>8, <1>a, <1>b, RowSavesMove DEF SkipRow, KeepRow, InsertRow, Resting, WorkRecords
<1>9. ASSUME NEW w \in Workers, ProcessingFails(w) PROVE Goal
    BY <1>9, <1>5, <1>a, <1>b DEF ProcessingFails, Resting, WorkRecords
<1>10. ASSUME NEW w \in Workers, WorkStep(w) \/ WorkAborts(w) PROVE Goal
    BY <1>5, <1>6, <1>7, <1>8, <1>9, <1>10
       DEF WorkStep, WorkAborts, InsertRefused, WorkIsVictim, WorkSucceeds, PollCountsFailure
<1>11. CASE Crash
    BY <1>11, <1>a, <1>b DEF Crash, AtRest, Resting
<1>12. ASSUME NEW a \in Assets, UploadStep(a) \/ BackoffElapses(a) PROVE work' = work
    BY <1>12 DEF UploadStep, UploadPut, UploadEnqueue, UploadCommit, UploadAbort, BackoffElapses
<1>13. ASSUME NEW d \in Deleters,
              DeleteStep(d) \/ \E a \in Assets : DeleteBegin(d, a)
       PROVE  work' = work
    BY <1>13 DEF DeleteBegin, DeleteStep, DeleteObject, DeleteLock, DeleteCommit, DeleteAborts
<1>14. CASE Quiet \/ UNCHANGED vars
    BY <1>1, <1>14 DEF Quiet, vars
<1> QED
    BY <1>1, <1>2, <1>3, <1>4, <1>10, <1>11, <1>12, <1>13, <1>14 DEF Next

\* Attempts only grow while the asset is there, so what a preview has read is
\* never more than what is true.
LEMMA NextJInv == JInv /\ [Next]_vars => JInv'
<1> SUFFICES ASSUME JInv, [Next]_vars PROVE JInv'
    OBVIOUS
<1>1. IInv /\ IInv'
    BY NextIInv DEF JInv
<1>2. ASSUME NEW x \in Previews, work'[x].pc \notin Resting
      PROVE  /\ upload'[x] = "committed"
             /\ Stored(x)' => work'[x].attempts <= job'[x].attempts
  <2>a. x \in Photos /\ x \in Assets /\ x \in Workers /\ x \notin Pollers
      BY AssetsAssumption, PollersAreNotPreviews DEF Assets, Workers
  <2>b. /\ upload[x] = "committed"
        /\ Stored(x) => work'[x].attempts <= job[x].attempts
        /\ job[x].attempts \in 0 .. MaxAttempts
    <3>1. job[x].attempts \in 0 .. MaxAttempts
        BY <1>1, <2>a DEF IInv, TypeOK
    <3>2. CASE work[x].pc \notin Resting /\ work'[x].attempts = work[x].attempts
        BY <3>1, <3>2 DEF JInv, PreviewsReadThePast
    <3>3. CASE PreviewBegin(x) /\ Stored(x) /\ work'[x].attempts = job[x].attempts
        BY <3>1, <3>3, ConfigurationAssumption DEF PreviewBegin
    <3> QED
        BY <1>1, <1>2, <3>2, <3>3, <3>1, PreviewsGoOn
  <2>c. /\ job \in [Assets -> [status: {"NONE", "PENDING", "COMPLETED", "FAILED"},
                              attempts: 0 .. MaxAttempts, due: BOOLEAN]]
        /\ asset \in [Assets ->
               [processing: {"NONE", "UPLOADED", "PROCESSING", "READY", "FAILED"},
                analysis: {"NONE", "PENDING", "COMPLETED", "SKIPPED", "FAILED"}]]
      BY <1>1 DEF IInv, TypeOK
  <2>1. CASE KeepsJobs
    <3>1. Stored(x)' => Stored(x)
      <4>1. Stored(x)' => job'[x].status # "NONE"
          BY <1>1, <2>a DEF IInv, StatusesAgree, Stored, NoAsset
      <4>2. job[x].status # "NONE" => Stored(x)
          BY <1>1, <2>a, <2>c DEF IInv, StatusesAgree, Stored
      <4> QED
          BY <2>1, <2>a, <4>1, <4>2 DEF KeepsJobs
    <3> QED
        BY <2>1, <2>a, <2>b, <3>1 DEF KeepsJobs
  <2>2. ASSUME NEW a \in Photos, UploadCommit(a) PROVE a # x /\ UNCHANGED <<job[x], asset[x], upload[x]>>
    <3>1. a # x
        BY <2>2, <2>b DEF UploadCommit
    <3> QED
        BY <2>2, <2>a, <3>1, <2>c, <1>1 DEF UploadCommit, IInv, TypeOK
  <2>3. ASSUME NEW w \in Workers, WorkSucceeds(w) \/ PollCountsFailure(w)
        PROVE  /\ upload' = upload
               /\ Stored(x)' => Stored(x) /\ job'[x].attempts >= job[x].attempts
    <3> DEFINE a == work[w].asset
    <3>1. PICK assetRow, jobRow :
              /\ Finish(w, assetRow, jobRow)
              /\ jobRow.attempts = IF WorkSucceeds(w) THEN work[w].attempts
                                   ELSE work[w].attempts + 1
        BY <2>3 DEF WorkSucceeds, PollCountsFailure, NextAttempt
    <3>2. CASE a # x
        BY <2>a, <2>b, <2>c, <3>1, <3>2, ConfigurationAssumption DEF Finish, Stored
    <3>3. CASE a = x
      <4>1. w \in Pollers
        <5>1. w # x
            BY <1>1, <1>2, <2>a, <3>1 DEF Finish, AtRest, Resting, IInv, TypeOK
        <5>2. work[w].pc \notin Resting
            BY <2>3 DEF WorkSucceeds, PollCountsFailure, Resting
        <5> QED
            BY <1>1, <3>3, <5>1, <5>2 DEF Workers, IInv, WorkersKeepToTheirCode
      <4>2. job[x].attempts = work[w].attempts /\ job[x].status = "PENDING"
          BY <2>3, <3>3, <4>1, CommitsFindTheJob
      <4>3. Stored(x)
          BY <1>1, <2>a, <4>2 DEF IInv, StatusesAgree, Stored
      <4>4. job'[x].attempts = jobRow.attempts
          BY <2>a, <2>c, <3>1, <3>3 DEF Finish
      <4>5. upload' = upload
          BY <3>1 DEF Finish
      <4> QED
          BY <2>b, <3>1, <4>2, <4>3, <4>4, <4>5, ConfigurationAssumption
    <3> QED
        BY <3>2, <3>3
  <2>4. ASSUME NEW d \in Deleters, DeleteCommit(d)
        PROVE  upload' = upload /\ (Stored(x)' => Stored(x) /\ job'[x] = job[x])
      BY <2>4, <2>a, <2>c DEF DeleteCommit, Stored, NoAsset
  <2> QED
    <3>1. CASE KeepsJobs
        BY <2>1, <3>1
    <3>2. CASE \E a \in Photos : UploadCommit(a)
        BY <2>2, <2>b, <3>2 DEF Stored
    <3>3. CASE \E w \in Workers : WorkSucceeds(w) \/ PollCountsFailure(w)
      <4>1. /\ upload' = upload
            /\ Stored(x)' => Stored(x) /\ job'[x].attempts >= job[x].attempts
          BY <2>3, <3>3
      <4>2. job'[x].attempts \in Nat /\ work'[x].attempts \in Nat
          BY <1>1, <2>a, ConfigurationAssumption DEF IInv, TypeOK
      <4> QED
          BY <2>b, <4>1, <4>2, ConfigurationAssumption
    <3>4. CASE \E d \in Deleters : DeleteCommit(d)
        BY <2>4, <2>b, <3>4
    <3> QED
        BY <1>1, <3>1, <3>2, <3>3, <3>4, JobSteps
<1> QED
    BY <1>1, <1>2 DEF JInv, PreviewsReadThePast

\* No preview has begun before the first upload.
LEMMA InitJInv == Init => JInv
BY InitIInv DEF JInv, PreviewsReadThePast, Init, AtRest, Resting, Workers

\* What previews have read stays behind.
THEOREM AttemptsGrow == Spec => []JInv
<1> QED
    BY InitJInv, NextJInv, PTL DEF Spec

-----------------------------------------------------------------------------
(* The refinement.                                                         *)

\* A step that keeps the jobs of photos is a stutter of ProcessingJob.
LEMMA KeepingIsStuttering ==
    ASSUME KeepsJobs
    PROVE  UNCHANGED JobStates
BY DEF KeepsJobs, JobStates

\* A step that gives one photo a new abstract job leaves the others theirs.
LEMMA OneJobBecomes ==
    ASSUME NEW a \in Photos, NEW new,
           \A p \in Photos \ {a} : UNCHANGED <<job[p], upload[p]>>,
           (JobStates[a])' = new
    PROVE  Jobs!Becomes(a, new)
BY DEF Jobs!Becomes, JobStates

\* An upload that commits is the photo being accepted.
LEMMA UploadAccepts ==
    ASSUME JInv, NEW a \in Photos, UploadCommit(a)
    PROVE  Jobs!Accept(a)
<1>a. a \in Assets
    BY DEF Assets
<1>1. JobStates[a].status = "NONE"
    BY <1>a DEF JInv, IInv, UploadsAreAtomic, UploadCommit, JobStates, NoJob
<1>2. (JobStates[a])' = Jobs!Job("PENDING", 0)
    BY <1>a DEF UploadCommit, JInv, IInv, TypeOK, JobStates, Jobs!Job
<1>3. \A p \in Photos \ {a} : UNCHANGED <<job[p], upload[p]>>
    BY <1>a DEF UploadCommit, JInv, IInv, TypeOK, Assets
<1> QED
    BY <1>1, <1>2, <1>3, OneJobBecomes DEF Jobs!Accept

\* The job a commit of processing leaves behind, and nothing else.
LEMMA FinishBecomes ==
    ASSUME JInv, NEW w \in Workers, NEW a \in Photos, a = work[w].asset,
           NEW assetRow, NEW jobRow, Finish(w, assetRow, jobRow),
           jobRow.status # "NONE"
    PROVE  Jobs!Becomes(a, Jobs!Job(jobRow.status, jobRow.attempts))
<1>a. a \in Assets
    BY DEF Assets
<1>1. job'[a] = jobRow
    BY <1>a DEF Finish, JInv, IInv, TypeOK
<1>2. (JobStates[a])' = Jobs!Job(jobRow.status, jobRow.attempts)
    BY <1>1 DEF JobStates, Jobs!Job
<1>3. \A p \in Photos \ {a} : UNCHANGED <<job[p], upload[p]>>
    BY <1>a DEF Finish, JInv, IInv, TypeOK, Assets
<1> QED
    BY <1>2, <1>3, OneJobBecomes

\* A success completes the job with attempts that were once true.
LEMMA SuccessCompletes ==
    ASSUME JInv, NEW w \in Workers, WorkSucceeds(w)
    PROVE  Jobs!Complete(work[w].asset)
<1> DEFINE a == work[w].asset
           jobRow == [status |-> "COMPLETED", attempts |-> work[w].attempts, due |-> TRUE]
<1>1. /\ a \in Photos /\ job[a].status \in {"PENDING", "COMPLETED", "FAILED"}
      /\ work[w].attempts \in 0 .. MaxAttempts /\ work[w].attempts <= job[a].attempts
    BY CommitsFindTheJob
<1>2. Jobs!Becomes(a, Jobs!Job("COMPLETED", work[w].attempts))
    BY <1>1, FinishBecomes DEF WorkSucceeds
<1>3. JobStates[a].status \in {"PENDING", "FAILED", "COMPLETED"}
    BY <1>1 DEF JobStates
<1>4. work[w].attempts \in 0 .. JobStates[a].attempts
  <2>1. job[a].attempts \in 0 .. MaxAttempts
      BY <1>1 DEF JInv, IInv, TypeOK, Assets
  <2> QED
      BY <1>1, <2>1, ConfigurationAssumption DEF JobStates
<1> QED
    BY <1>2, <1>3, <1>4 DEF Jobs!Complete

\* A counted failure is the failure of a pending job.
LEMMA FailureFails ==
    ASSUME JInv, NEW w \in Workers, PollCountsFailure(w)
    PROVE  Jobs!Fail(work[w].asset)
<1> DEFINE a == work[w].asset
           n == work[w].attempts + 1
<1>1. /\ a \in Photos /\ job[a].status = "PENDING"
      /\ job[a].attempts = work[w].attempts
    BY CommitsFindTheJob
<1>2. JobStates[a].status = "PENDING" /\ JobStates[a].attempts + 1 = n
    BY <1>1 DEF JobStates
<1>3. Jobs!Becomes(a, Jobs!Job(IF n >= MaxAttempts THEN "FAILED" ELSE "PENDING", n))
  <2>1. CASE n >= MaxAttempts
      BY <1>1, <2>1, FinishBecomes DEF PollCountsFailure, GivesUp, NextAttempt
  <2>2. CASE ~(n >= MaxAttempts)
      BY <1>1, <2>2, FinishBecomes DEF PollCountsFailure, GivesUp, NextAttempt
  <2> QED
      BY <2>1, <2>2
<1> QED
    BY <1>2, <1>3 DEF Jobs!Fail

\* A deletion deletes the job of a photo that was accepted.
LEMMA DeletionDeletes ==
    ASSUME JInv, NEW d \in Deleters, DeleteCommit(d)
    PROVE  KeepsJobs \/ \E a \in Photos : Jobs!Delete(a)
<1>a. PICK a \in Assets : a = del[d].asset
    BY DEF DeleteCommit, JInv, IInv, TypeOK
<1>b. \A p \in Photos \ {a} : UNCHANGED <<job[p], upload[p]>>
    BY <1>a DEF DeleteCommit, JInv, IInv, TypeOK, Assets
<1>c. upload' = upload /\ job'[a] = NoJob
    BY <1>a DEF DeleteCommit, JInv, IInv, TypeOK
<1>1. CASE a \notin Photos \/ upload[a] # "committed"
    BY <1>1, <1>a, <1>b, <1>c DEF KeepsJobs, JInv, IInv, UploadsAreAtomic
<1>2. CASE a \in Photos /\ upload[a] = "committed"
  <2>1. JobStates[a].status # "NONE"
      BY <1>2 DEF JobStates
  <2>2. (JobStates[a])' = Jobs!Job("DELETED", 0)
      BY <1>2, <1>c DEF JobStates, Jobs!Job, NoJob
  <2>3. Jobs!Becomes(a, Jobs!Job("DELETED", 0))
      BY <1>2, <1>b, <2>2, OneJobBecomes
  <2> QED
      BY <1>2, <2>1, <2>3 DEF Jobs!Delete
<1> QED
    BY <1>1, <1>2

\* Every step is a step of ProcessingJob or a stutter of it.
LEMMA StepsOfJobs == JInv /\ [Next]_vars => [Jobs!Next]_JobStates
<1> SUFFICES ASSUME JInv, [Next]_vars PROVE [Jobs!Next]_JobStates
    OBVIOUS
<1>1. CASE KeepsJobs
    BY <1>1, KeepingIsStuttering
<1>2. ASSUME NEW a \in Photos, UploadCommit(a) PROVE Jobs!Next
    BY <1>2, UploadAccepts DEF Jobs!Next
<1>3. ASSUME NEW w \in Workers, WorkSucceeds(w) \/ PollCountsFailure(w) PROVE Jobs!Next
  <2>1. work[w].asset \in Photos
      BY <1>3, CommitsFindTheJob
  <2> QED
      BY <1>3, <2>1, SuccessCompletes, FailureFails DEF Jobs!Next
<1>4. ASSUME NEW d \in Deleters, DeleteCommit(d) PROVE KeepsJobs \/ Jobs!Next
    BY <1>4, DeletionDeletes DEF Jobs!Next
<1> QED
    BY <1>1, <1>2, <1>3, <1>4, JobSteps DEF JInv

\* MediaLifecycle implements ProcessingJob: behind locks, transactions, crashes
\* and deletions a photo is accepted, fails at most MaxAttempts times, and is
\* completed, failed or deleted.
THEOREM JobsAreImplemented == Spec => ImplementsJobs
<1>1. Init => Jobs!Init
    BY DEF Init, Jobs!Init, JobStates, NoJob, Jobs!Job, Assets
<1> QED
    BY <1>1, AttemptsGrow, StepsOfJobs, PTL DEF Spec, ImplementsJobs, Jobs!Spec

\* A job is given up only with its last attempt, and never queued again.
THEOREM JobsGiveUpLate == Spec => GivesUpLate
<1> DEFINE Late ==
       \A a \in Photos :
          /\ job'[a].status = "FAILED" /\ job[a].status # "FAILED" =>
                 job'[a].attempts = MaxAttempts
          /\ job'[a].status = "PENDING" => job[a].status \in {"NONE", "PENDING"}
<1>1. ASSUME JInv, [Next]_vars, NEW a \in Photos
      PROVE  /\ job'[a].status = "FAILED" /\ job[a].status # "FAILED" =>
                    job'[a].attempts = MaxAttempts
             /\ job'[a].status = "PENDING" => job[a].status \in {"NONE", "PENDING"}
  <2>a. /\ a \in Assets
        /\ job \in [Assets -> [status: {"NONE", "PENDING", "COMPLETED", "FAILED"},
                              attempts: 0 .. MaxAttempts, due: BOOLEAN]]
      BY <1>1 DEF JInv, IInv, TypeOK, Assets
  <2>1. CASE KeepsJobs
      BY <2>1 DEF KeepsJobs
  <2>2. ASSUME NEW b \in Photos, UploadCommit(b)
        PROVE  job'[a] = job[a] \/ (job[a].status = "NONE" /\ job'[a].status # "FAILED")
    <3>1. b \in Assets /\ upload[b] # "committed"
        BY <2>2 DEF UploadCommit, Assets
    <3>2. job[b].status = "NONE"
        BY <1>1, <3>1 DEF JInv, IInv, UploadsAreAtomic, NoJob
    <3>3. CASE a = b
      <4>1. job'[b] = [status |-> "PENDING", attempts |-> 0, due |-> TRUE]
          BY <2>2, <2>a, <3>1 DEF UploadCommit
      <4> QED
          BY <3>2, <3>3, <4>1
    <3>4. CASE a # b
        BY <2>2, <2>a, <3>1, <3>4 DEF UploadCommit
    <3> QED
        BY <3>3, <3>4
  <2>3. ASSUME NEW w \in Workers, WorkSucceeds(w)
        PROVE  job'[a] = job[a] \/ job'[a].status = "COMPLETED"
      BY <2>3, <2>a DEF WorkSucceeds, Finish
  <2>4. ASSUME NEW w \in Workers, PollCountsFailure(w)
        PROVE  \/ job'[a] = job[a]
               \/ /\ job[a].status = "PENDING"
                  /\ job'[a].status = "FAILED" => job'[a].attempts = MaxAttempts
    <3> DEFINE n == work[w].attempts + 1
    <3>1. /\ job[work[w].asset].status = "PENDING" /\ work[w].asset \in Assets
          /\ work[w].attempts \in 0 .. MaxAttempts - 1
        BY <1>1, <2>4, <2>a, CommitsFindTheJob, ConfigurationAssumption
           DEF JInv, IInv, AttemptsRemain, Assets
    <3>2. CASE n >= MaxAttempts
      <4>1. n = MaxAttempts
          BY <3>1, <3>2, ConfigurationAssumption
      <4> QED
          BY <2>4, <2>a, <3>1, <3>2, <4>1 DEF PollCountsFailure, GivesUp, NextAttempt, Finish
    <3>3. CASE ~(n >= MaxAttempts)
        BY <2>4, <2>a, <3>1, <3>3 DEF PollCountsFailure, GivesUp, NextAttempt, Finish
    <3> QED
        BY <3>2, <3>3
  <2>5. ASSUME NEW d \in Deleters, DeleteCommit(d)
        PROVE  job'[a] = job[a] \/ job'[a].status = "NONE"
      BY <2>5, <2>a DEF DeleteCommit, NoJob
  <2> QED
      BY <1>1, <2>1, <2>2, <2>3, <2>4, <2>5, JobSteps DEF JInv
<1>2. JInv /\ [Next]_vars => [Late]_vars
    BY <1>1
<1> QED
    BY <1>2, AttemptsGrow, PTL DEF Spec, GivesUpLate

\* Only deletions remove files.
LEMMA OnlyDeletionsRemove ==
    ASSUME IInv, [Next]_vars, NEW a \in Assets
    PROVE  \/ objects[a] \subseteq objects'[a]
           \/ \E d \in Deleters : del[d].pc = "purging" /\ del[d].asset = a
<1> DEFINE Goal == \/ objects[a] \subseteq objects'[a]
                   \/ \E d \in Deleters : del[d].pc = "purging" /\ del[d].asset = a
<1>a. objects \in [Assets -> SUBSET Variants]
    BY DEF IInv, TypeOK
<1>1. CASE UNCHANGED objects
    BY <1>1
<1>2. ASSUME NEW b \in Assets, UploadPut(b) PROVE Goal
    BY <1>2, <1>a DEF UploadPut
<1>3. ASSUME NEW w \in Workers, PutThumbnail(w) PROVE Goal
    BY <1>3, <1>a DEF PutThumbnail
<1>4. ASSUME NEW d \in Deleters, NEW v \in Variants, DeleteObject(d, v) PROVE Goal
    BY <1>4, <1>a DEF DeleteObject
<1>5. ASSUME NEW b \in Assets, UploadStep(b) \/ BackoffElapses(b)
      PROVE  UploadPut(b) \/ UNCHANGED objects
    BY <1>5 DEF UploadStep, UploadEnqueue, UploadCommit, UploadAbort, BackoffElapses
<1>6. ASSUME NEW w \in Workers,
             \/ WorkStep(w) \/ WorkAborts(w)
             \/ \E b \in Photos : PollBegin(w, b)
             \/ PreviewBegin(w) \/ PreviewCloses(w)
      PROVE  PutThumbnail(w) \/ UNCHANGED objects
    BY <1>6 DEF PollBegin, PreviewBegin, PreviewCloses, WorkStep, WorkAborts, ReadOriginal,
                Analyze, SkipRow, KeepRow, InsertRow, InsertRefused, ProcessingFails, WorkSucceeds,
                PollCountsFailure, Finish, WorkIsVictim, RollBack
<1>7. ASSUME NEW d \in Deleters, DeleteStep(d) \/ \E b \in Assets : DeleteBegin(d, b)
      PROVE  (\E v \in Variants : DeleteObject(d, v)) \/ UNCHANGED objects
    BY <1>7 DEF DeleteStep, DeleteBegin, DeleteLock, DeleteCommit, DeleteAborts
<1>8. CASE Crash \/ Quiet \/ UNCHANGED vars
    BY <1>8 DEF Crash, Quiet, vars
<1> QED
    BY <1>1, <1>2, <1>3, <1>4, <1>5, <1>6, <1>7, <1>8 DEF Next, Workers

\* What a deletion removes, somebody has asked to be deleted.
DeletionsAreRequested ==
    \A d \in Deleters : del[d].pc \in {"purging", "locked"} => del[d].asset \in requested

\* A deletion works on the asset it began with, and requests are not forgotten.
LEMMA RequestsAreKept == IInv /\ DeletionsAreRequested /\ [Next]_vars => DeletionsAreRequested'
<1> SUFFICES ASSUME IInv, DeletionsAreRequested, [Next]_vars PROVE DeletionsAreRequested'
    OBVIOUS
<1> USE DEF DeletionsAreRequested
<1>a. del \in [Deleters -> DeletionRecords]
    BY DEF IInv, TypeOK, DeletionRecords
<1>1. CASE UNCHANGED <<del, requested>>
    BY <1>1
<1>2. ASSUME NEW d \in Deleters, NEW a \in Assets, DeleteBegin(d, a)
      PROVE  DeletionsAreRequested'
    BY <1>2, <1>a DEF DeleteBegin
<1>3. ASSUME NEW d \in Deleters, DeleteStep(d)
      PROVE  DeletionsAreRequested'
    BY <1>3, <1>a DEF DeleteStep, DeleteObject, DeleteLock, DeleteCommit, DeleteAborts,
                      DeleteEnds, DeletionRecords
<1>4. CASE Crash
    BY <1>4, <1>a DEF Crash
<1>5. ASSUME NEW a \in Assets, UploadStep(a) \/ BackoffElapses(a)
      PROVE  UNCHANGED <<del, requested>>
    BY <1>5 DEF UploadStep, UploadPut, UploadEnqueue, UploadCommit, UploadAbort, BackoffElapses
<1>6. ASSUME NEW w \in Workers,
             \/ WorkStep(w) \/ WorkAborts(w)
             \/ \E b \in Photos : PollBegin(w, b)
             \/ PreviewBegin(w) \/ PreviewCloses(w)
      PROVE  UNCHANGED <<del, requested>>
    BY <1>6 DEF PollBegin, PreviewBegin, PreviewCloses, WorkStep, WorkAborts, ReadOriginal,
                PutThumbnail, Analyze, SkipRow, KeepRow, InsertRow, InsertRefused, ProcessingFails,
                WorkSucceeds, PollCountsFailure, Finish, WorkIsVictim, RollBack
<1>7. CASE Quiet \/ UNCHANGED vars
    BY <1>1, <1>7 DEF Quiet, vars
<1> QED
    BY <1>1, <1>2, <1>3, <1>4, <1>5, <1>6, <1>7 DEF Next, Workers

\* No file of an asset nobody has asked to delete is ever removed.
THEOREM FilesStay == Spec => FilesAreKept
<1> DEFINE Kept == \A a \in Assets : objects[a] \subseteq objects'[a] \/ a \in requested
<1>1. IInv /\ DeletionsAreRequested /\ [Next]_vars => [Kept]_vars
    BY OnlyDeletionsRemove DEF DeletionsAreRequested
<1>2. Init => DeletionsAreRequested
    BY DEF Init, DeletionsAreRequested
<1> QED
    BY <1>1, <1>2, Invariance, RequestsAreKept, PTL DEF Spec, FilesAreKept

-----------------------------------------------------------------------------
(* The child rows of an asset: those a transaction has written and not yet *)
(* committed never collide with others, a READY photo has those it needs,  *)
(* and each row of a file has its file.                                    *)

\* A transaction works on an asset whose upload has committed.
WorkIsOnCommitted ==
    \A w \in Workers : work[w].pc \notin Resting => upload[work[w].asset] = "committed"

\* An asset has the row of its original.
OriginalsAreKnown == \A a \in Assets : Stored(a) => "ORIGINAL" \in rows[a]

\* The rows a transaction on asset a must have dealt with when it is at pc: only a
\* photo nobody can read comes as far as "meta" without metadata, and no further.
Reached(pc, a) ==
    (IF \/ pc = "meta" /\ a \notin Unreadable
        \/ pc \in {"put", "saved", "analyzed", "published", "closing"}
     THEN {"META"} ELSE {})
    \cup (IF pc \in {"saved", "analyzed", "published", "closing"} THEN {"THUMBNAIL"} ELSE {})

\* They are there, found or inserted, as long as the asset is.
RowsAreReached ==
    \A w \in Workers : LET a == work[w].asset IN
        work[w].pc \notin Resting /\ Stored(a) =>
            /\ work[w].seen \subseteq rows[a]
            /\ Reached(work[w].pc, a) \subseteq rows[a] \cup work[w].fresh

RInv ==
    /\ JInv
    /\ WorkIsOnCommitted
    /\ OriginalsAreKnown
    /\ RowsAreReached
    /\ ReadyIsComplete
    /\ NoDuplicateRows

Rows == /\ OriginalsAreKnown
        /\ RowsAreReached
        /\ ReadyIsComplete
        /\ NoDuplicateRows

\* Transaction w alone changes, and not what is committed.
Alone(w) ==
    /\ UNCHANGED <<upload, asset, rows>>
    /\ work' \in [Workers -> WorkRecords]
    /\ \A x \in Workers \ {w} : work'[x] = work[x]

\* What it has dealt with is there, and what it has inserted nobody else has.
LEMMA AloneKeepsRows ==
    ASSUME RInv, NEW w \in Workers, Alone(w),
           work'[w].pc \in Resting => work'[w].fresh = {},
           LET a == work'[w].asset IN
           work'[w].pc \notin Resting =>
               /\ upload[a] = "committed"
               /\ Stored(a) => /\ work'[w].seen \subseteq rows[a]
                               /\ Reached(work'[w].pc, a) \subseteq rows[a] \cup work'[w].fresh
               /\ work'[w].fresh \cap rows[a] = {}
               /\ \A x \in Workers \ {w} :
                     work[x].asset = a => work[x].fresh \cap work'[w].fresh = {}
    PROVE  WorkIsOnCommitted' /\ Rows'
<1> USE DEF RInv, Alone
<1>1. WorkIsOnCommitted'
    BY DEF WorkIsOnCommitted
<1>2. OriginalsAreKnown' /\ ReadyIsComplete'
    BY DEF OriginalsAreKnown, ReadyIsComplete, Stored
<1>3. RowsAreReached'
    BY DEF RowsAreReached, Stored
<1>4. NoDuplicateRows'
  <2> SUFFICES ASSUME NEW y \in Workers, work'[y].pc \notin Resting
               PROVE  /\ work'[y].fresh \cap rows[work'[y].asset] = {}
                      /\ \A x \in Workers \ {y} :
                            work'[x].asset = work'[y].asset =>
                                work'[x].fresh \cap work'[y].fresh = {}
      BY DEF NoDuplicateRows
  <2>1. CASE y = w
      BY <2>1
  <2>2. CASE y # w
    <3>1. /\ work[y].fresh \cap rows[work[y].asset] = {}
          /\ \A x \in Workers \ {y} :
                work[x].asset = work[y].asset => work[x].fresh \cap work[y].fresh = {}
        BY <2>2 DEF NoDuplicateRows
    <3> QED
        BY <2>2, <3>1
  <2> QED
      BY <2>1, <2>2
<1> QED
    BY <1>1, <1>2, <1>3, <1>4 DEF Rows

\* A transaction that is not resting has an asset and rows with types.
LEMMA RowTypes ==
    ASSUME RInv
    PROVE  /\ work \in [Workers -> WorkRecords]
           /\ asset \in [Assets ->
                  [processing: {"NONE", "UPLOADED", "PROCESSING", "READY", "FAILED"},
                   analysis: {"NONE", "PENDING", "COMPLETED", "SKIPPED", "FAILED"}]]
           /\ rows \in [Assets -> SUBSET RowKinds]
           /\ \A w \in Workers : work[w].pc \notin Resting =>
                 work[w].asset \in Photos /\ work[w].asset \in Assets
BY DEF RInv, JInv, IInv, TypeOK, WorkRecords, Assets

\* A transaction that ends without a commit.
LEMMA RollBackRows ==
    ASSUME RInv, NEW w \in Workers, RollBack(w)
    PROVE  WorkIsOnCommitted' /\ Rows'
<1>1. Alone(w)
    BY RowTypes, ConfigurationAssumption DEF RollBack, Alone, AtRest, WorkRecords, WorkSteps
<1>2. work'[w].pc \in Resting /\ work'[w].fresh = {}
    BY RowTypes DEF RollBack, AtRest, Resting
<1> QED
    BY <1>1, <1>2, AloneKeepsRows

\* A transaction that begins has neither seen nor inserted anything.
LEMMA BeginRows ==
    ASSUME RInv, NEW w \in Workers, NEW a \in Photos, Begin(w, a), Stored(a),
           UNCHANGED <<upload, asset, rows>>
    PROVE  WorkIsOnCommitted' /\ Rows'
<1>a. a \in Assets /\ job[a].attempts \in 0 .. MaxAttempts
    BY DEF RInv, JInv, IInv, TypeOK, Assets
<1>1. upload[a] = "committed"
    BY <1>a DEF RInv, JInv, IInv, UploadsAreAtomic, Stored, NoAsset
<1>2. Alone(w)
    BY <1>a, RowTypes DEF Begin, Alone, WorkRecords, WorkSteps
<1>3. work'[w] = [pc |-> "begun", asset |-> a, attempts |-> job[a].attempts,
                  seen |-> {}, fresh |-> {}]
    BY RowTypes DEF Begin
<1>4. Reached("begun", a) = {} /\ "begun" \notin Resting
    BY DEF Reached, Resting
<1> QED
    BY <1>1, <1>2, <1>3, <1>4, AloneKeepsRows

\* Seeing, saving and keeping rows, and the steps in between.
LEMMA WorkAdvancesRows ==
    ASSUME RInv, NEW w \in Workers,
           \/ ReadOriginal(w) \/ PutThumbnail(w) \/ Analyze(w)
           \/ SkipRow(w) \/ KeepRow(w) \/ InsertRow(w)
    PROVE  WorkIsOnCommitted' /\ Rows'
<1> DEFINE a == work[w].asset
<1>a. work[w].pc \notin Resting
    BY RowSavesMove DEF ReadOriginal, PutThumbnail, Analyze, KeepRow, InsertRow, Resting
<1>b. /\ a \in Photos /\ a \in Assets /\ upload[a] = "committed"
      /\ work \in [Workers -> WorkRecords] /\ rows \in [Assets -> SUBSET RowKinds]
    BY <1>a, RowTypes DEF RInv, WorkIsOnCommitted
<1>c. Stored(a) => /\ work[w].seen \subseteq rows[a]
                   /\ Reached(work[w].pc, a) \subseteq rows[a] \cup work[w].fresh
    BY <1>a DEF RInv, RowsAreReached
<1>d. /\ work[w].fresh \cap rows[a] = {}
      /\ \A x \in Workers \ {w} : work[x].asset = a => work[x].fresh \cap work[w].fresh = {}
    BY <1>a DEF RInv, NoDuplicateRows
<1>1. CASE ReadOriginal(w) \/ PutThumbnail(w) \/ Analyze(w)
  <2>1. PICK pc \in {"read", "put", "analyzed"} :
            Sees(w, pc) /\ Reached(pc, a) = Reached(work[w].pc, a) /\ pc \notin Resting
      BY <1>1 DEF ReadOriginal, PutThumbnail, Analyze, Reached, Resting
  <2>2. Alone(w)
    <3>1. UNCHANGED <<upload, asset, rows>>
        BY <1>1 DEF ReadOriginal, PutThumbnail, Analyze
    <3>2. [work[w] EXCEPT !.pc = pc, !.seen = rows[a]] \in WorkRecords
        BY <1>b DEF WorkRecords, WorkSteps
    <3>3. work' = [work EXCEPT ![w] = [work[w] EXCEPT !.pc = pc, !.seen = rows[a]]]
        BY <2>1 DEF Sees
    <3> QED
        BY <1>b, <3>1, <3>2, <3>3 DEF Alone
  <2>3. /\ work'[w].pc = pc /\ work'[w].asset = a /\ work'[w].seen = rows[a]
        /\ work'[w].fresh = work[w].fresh
      BY <1>b, <2>1 DEF Sees, WorkRecords
  <2> QED
      BY <1>b, <1>c, <1>d, <2>1, <2>2, <2>3, AloneKeepsRows
<1>e. ASSUME Saving(w)
      PROVE  /\ Reached(NextOf(w), a) \subseteq Reached(work[w].pc, a) \cup {RowOf(w)}
             /\ NextOf(w) \in WorkSteps \ Resting /\ RowOf(w) \in RowKinds
    BY <1>e DEF Saving, NextOf, RowOf, RowSaves, Reached, WorkSteps, Resting, RowKinds, Variants
<1>2. CASE KeepRow(w)
  <2>1. Alone(w)
      BY <1>2, <1>b, <1>e DEF KeepRow, Alone, WorkRecords
  <2>2. /\ work'[w].pc = NextOf(w) /\ work'[w].asset = a /\ work'[w].seen = work[w].seen
        /\ work'[w].fresh = work[w].fresh
      BY <1>2, <1>b DEF KeepRow, WorkRecords
  <2> QED
      BY <1>2, <1>b, <1>c, <1>d, <1>e, <2>1, <2>2, AloneKeepsRows DEF KeepRow
<1>3. CASE InsertRow(w)
  <2>1. Alone(w)
    <3>1. Moves(w, NextOf(w), work[w].fresh \cup {RowOf(w)})
        BY <1>3, <1>b, <1>e, InsertMoves DEF InsertRow
    <3> QED
        BY <1>3, <3>1 DEF InsertRow, Alone, Moves
  <2>2. /\ work'[w].pc = NextOf(w) /\ work'[w].asset = a /\ work'[w].seen = work[w].seen
        /\ work'[w].fresh = work[w].fresh \cup {RowOf(w)}
      BY <1>3, <1>b DEF InsertRow, WorkRecords
  <2>3. /\ RowOf(w) \notin rows[a]
        /\ \A x \in Workers \ {w} : work[x].asset = a => RowOf(w) \notin work[x].fresh
      BY <1>3 DEF InsertRow, InsertAllowed, InsertWaits
  <2> QED
      BY <1>3, <1>b, <1>c, <1>d, <1>e, <2>1, <2>2, <2>3, AloneKeepsRows DEF InsertRow
<1>4. CASE SkipRow(w)
  <2>1. /\ Reached(NextOf(w), a) \subseteq Reached(work[w].pc, a)
        /\ NextOf(w) \in WorkSteps \ Resting
      BY <1>4 DEF SkipRow, NextOf, RowSaves, Reached, WorkSteps, Resting
  <2>2. Alone(w)
      BY <1>4, <1>b, <2>1 DEF SkipRow, Alone, WorkRecords
  <2>3. /\ work'[w].pc = NextOf(w) /\ work'[w].asset = a /\ work'[w].seen = work[w].seen
        /\ work'[w].fresh = work[w].fresh
      BY <1>4, <1>b DEF SkipRow, WorkRecords
  <2> QED
      BY <1>4, <1>b, <1>c, <1>d, <2>1, <2>2, <2>3, AloneKeepsRows DEF SkipRow
<1> QED
    BY <1>1, <1>2, <1>3, <1>4

\* The poll enters its catch block; the preview rolls back, or closes.
LEMMA WorkFailsRows ==
    ASSUME RInv, NEW w \in Workers, ProcessingFails(w) \/ PreviewCloses(w)
    PROVE  WorkIsOnCommitted' /\ Rows'
<1>1. CASE RollBack(w)
    BY <1>1, RollBackRows
<1>2. ASSUME NEW pc \in {"failing", "closing"}, work[w].pc \notin Resting,
             work' = [work EXCEPT ![w].pc = pc], UNCHANGED <<upload, asset, rows>>,
             pc = "closing" => work[w].pc = "published"
      PROVE  WorkIsOnCommitted' /\ Rows'
  <2>a. work \in [Workers -> WorkRecords]
      BY RowTypes
  <2>1. Alone(w)
      BY <1>2, <2>a DEF Alone, WorkRecords, WorkSteps
  <2>2. /\ work'[w].pc = pc /\ work'[w].asset = work[w].asset
        /\ work'[w].seen = work[w].seen /\ work'[w].fresh = work[w].fresh
      BY <1>2, <2>a DEF WorkRecords
  <2>3. Reached(pc, work[w].asset) \subseteq Reached(work[w].pc, work[w].asset) /\ pc \notin Resting
      BY <1>2 DEF Reached, Resting
  <2> QED
      BY <1>2, <2>1, <2>2, <2>3, AloneKeepsRows
         DEF RInv, WorkIsOnCommitted, RowsAreReached, NoDuplicateRows
<1>3. CASE ProcessingFails(w)
    BY <1>1, <1>2, <1>3 DEF ProcessingFails, Resting
<1>4. CASE PreviewCloses(w)
    BY <1>1, <1>2, <1>4 DEF PreviewCloses, Resting
<1> QED
    BY <1>3, <1>4

\* A commit: the new rows join the others, and a photo becomes READY only with
\* its metadata and its thumbnail.
LEMMA FinishRows ==
    ASSUME RInv, NEW w \in Workers, NEW assetRow, NEW jobRow,
           Finish(w, assetRow, jobRow), work[w].pc \notin Resting,
           HoldsJob(w, work[w].asset),
           assetRow.processing = "READY" => work[w].pc \in {"published", "closing"}
    PROVE  WorkIsOnCommitted' /\ Rows'
<1>a. PICK a \in Photos : a = work[w].asset /\ a \in Assets
    BY RowTypes
<1>b. /\ work \in [Workers -> WorkRecords] /\ rows \in [Assets -> SUBSET RowKinds]
      /\ work[w].fresh \in SUBSET RowKinds
      /\ asset \in [Assets ->
             [processing: {"NONE", "UPLOADED", "PROCESSING", "READY", "FAILED"},
              analysis: {"NONE", "PENDING", "COMPLETED", "SKIPPED", "FAILED"}]]
    BY RowTypes DEF WorkRecords
<1>c. work'[w].pc \in Resting /\ work'[w].asset = None /\ work'[w].fresh = {}
    BY <1>b DEF Finish, AtRest, Resting
<1>d. \A x \in Workers \ {w} : work'[x] = work[x]
    BY <1>b DEF Finish
<1>e. /\ rows'[a] = rows[a] \cup work[w].fresh
      /\ \A b \in Assets \ {a} : rows'[b] = rows[b]
      /\ asset'[a] = assetRow
      /\ \A b \in Assets \ {a} : asset'[b] = asset[b]
      /\ upload' = upload
    BY <1>a, <1>b DEF Finish
<1>f. Stored(a) /\ \A b \in Assets : Stored(b)' => Stored(b)
  <2>1. Stored(a)
      BY <1>a DEF RInv, JInv, IInv, WorkedAssetStays
  <2> QED
      BY <1>e, <2>1 DEF Stored
<1>1. WorkIsOnCommitted'
    BY <1>c, <1>d, <1>e DEF RInv, WorkIsOnCommitted
<1>2. OriginalsAreKnown'
    BY <1>e, <1>f DEF RInv, OriginalsAreKnown
<1>3. RowsAreReached'
  <2> SUFFICES ASSUME NEW x \in Workers, work'[x].pc \notin Resting, Stored(work[x].asset)'
               PROVE  /\ work'[x].seen \subseteq rows'[work'[x].asset]
                      /\ Reached(work'[x].pc, work'[x].asset)
                            \subseteq rows'[work'[x].asset] \cup work'[x].fresh
      BY DEF RowsAreReached
  <2>1. x # w /\ work'[x] = work[x]
      BY <1>c, <1>d
  <2>2. work[x].asset \in Assets
      BY <2>1, RowTypes
  <2>3. Stored(work[x].asset)
      BY <1>f, <2>1, <2>2 DEF Stored
  <2>4. /\ work[x].seen \subseteq rows[work[x].asset]
        /\ Reached(work[x].pc, work[x].asset) \subseteq rows[work[x].asset] \cup work[x].fresh
      BY <2>1, <2>3 DEF RInv, RowsAreReached
  <2> QED
      BY <1>a, <1>e, <2>1, <2>2, <2>4
<1>4. ReadyIsComplete'
  <2>1. ASSUME assetRow.processing = "READY"
        PROVE  Variants \cup {"META"} \subseteq rows'[a]
    <3>1. Reached(work[w].pc, a) \subseteq rows[a] \cup work[w].fresh
        BY <1>a, <1>f DEF RInv, RowsAreReached
    <3>2. Reached(work[w].pc, a) = {"META", "THUMBNAIL"}
        BY <2>1 DEF Reached
    <3>3. "ORIGINAL" \in rows[a]
        BY <1>a, <1>f DEF RInv, OriginalsAreKnown
    <3> QED
        BY <1>a, <1>b, <1>e, <3>1, <3>2, <3>3 DEF Variants
  <2> QED
      BY <1>e, <2>1 DEF RInv, ReadyIsComplete, Assets
<1>5. NoDuplicateRows'
  <2> SUFFICES ASSUME NEW y \in Workers, work'[y].pc \notin Resting
               PROVE  /\ work'[y].fresh \cap rows'[work'[y].asset] = {}
                      /\ \A x \in Workers \ {y} :
                            work'[x].asset = work'[y].asset =>
                                work'[x].fresh \cap work'[y].fresh = {}
      BY DEF NoDuplicateRows
  <2>1. y # w /\ work'[y] = work[y]
      BY <1>c, <1>d
  <2>2. work[y].asset \in Assets
      BY <2>1, RowTypes
  <2>3. /\ work[y].fresh \cap rows[work[y].asset] = {}
        /\ \A x \in Workers \ {y} :
              work[x].asset = work[y].asset => work[x].fresh \cap work[y].fresh = {}
      BY <2>1 DEF RInv, NoDuplicateRows
  <2>4. work[y].fresh \cap rows'[work[y].asset] = {}
      BY <1>a, <1>e, <2>1, <2>2, <2>3
  <2> QED
      BY <1>c, <1>d, <2>1, <2>3, <2>4
<1> QED
    BY <1>1, <1>2, <1>3, <1>4, <1>5 DEF Rows

\* A success has its child rows, a failure makes nothing READY.
LEMMA WorkEndsRows ==
    ASSUME RInv, NEW w \in Workers, WorkSucceeds(w) \/ PollCountsFailure(w)
    PROVE  WorkIsOnCommitted' /\ Rows'
<1>1. work[w].pc \notin Resting /\ HoldsJob(w, work[w].asset)
    BY DEF WorkSucceeds, PollCountsFailure, HoldsJob, Resting, RInv, JInv, IInv,
           WorkersKeepToTheirCode
<1>2. CASE WorkSucceeds(w)
  <2>1. work[w].pc \in {"published", "closing"}
      BY <1>2 DEF WorkSucceeds
  <2> QED
      BY <1>1, <1>2, <2>1, FinishRows DEF WorkSucceeds
<1>3. CASE PollCountsFailure(w)
  <2>1. PICK assetRow, jobRow :
            Finish(w, assetRow, jobRow) /\ assetRow.processing \in {"FAILED", "PROCESSING"}
    <3>1. asset[work[w].asset] \in
             [processing: {"NONE", "UPLOADED", "PROCESSING", "READY", "FAILED"},
              analysis: {"NONE", "PENDING", "COMPLETED", "SKIPPED", "FAILED"}]
        BY <1>1, RowTypes
    <3> DEFINE retried == [asset[work[w].asset] EXCEPT !.processing = "PROCESSING"]
    <3>2. retried.processing = "PROCESSING" /\ FailedAsset.processing = "FAILED"
        BY <3>1 DEF FailedAsset
    <3> QED
        BY <1>3, <3>2 DEF PollCountsFailure
  <2> QED
      BY <1>1, <2>1, FinishRows
<1> QED
    BY <1>2, <1>3

\* The rows of an upload are those of an asset nobody works on yet.
LEMMA UploadCommitRows ==
    ASSUME RInv, NEW a \in Assets, UploadCommit(a)
    PROVE  WorkIsOnCommitted' /\ Rows'
<1>a. /\ upload[a] # "committed"
      /\ \A w \in Workers : work[w].pc \notin Resting => work[w].asset # a
    BY DEF UploadCommit, RInv, WorkIsOnCommitted
<1>b. /\ upload' = [upload EXCEPT ![a] = "committed"] /\ upload \in [Assets -> UploadSteps]
      /\ rows' = [rows EXCEPT ![a] = {"ORIGINAL"}]
      /\ rows \in [Assets -> SUBSET RowKinds]
      /\ work' = work
      /\ \A b \in Assets \ {a} : asset'[b] = asset[b]
      /\ a \in Photos => asset'[a].processing = "UPLOADED"
      /\ \A w \in Workers : work[w].pc \notin Resting => work[w].asset \in Assets
    BY RowTypes DEF UploadCommit, RInv, JInv, IInv, TypeOK
<1>1. WorkIsOnCommitted'
    BY <1>b DEF RInv, WorkIsOnCommitted
<1>2. OriginalsAreKnown'
    BY <1>b DEF RInv, OriginalsAreKnown, Stored
<1>3. RowsAreReached'
    BY <1>a, <1>b DEF RInv, RowsAreReached, Stored
<1>4. ReadyIsComplete'
    BY <1>b DEF RInv, ReadyIsComplete, Assets
<1>5. NoDuplicateRows'
    BY <1>a, <1>b DEF RInv, NoDuplicateRows
<1> QED
    BY <1>1, <1>2, <1>3, <1>4, <1>5 DEF Rows

\* After a deletion there is nothing to be complete or to collide with.
LEMMA DeleteCommitRows ==
    ASSUME RInv, NEW d \in Deleters, DeleteCommit(d)
    PROVE  WorkIsOnCommitted' /\ Rows'
<1>a. PICK a \in Assets : a = del[d].asset
    BY DEF DeleteCommit, RInv, JInv, IInv, TypeOK
<1>b. /\ upload' = upload /\ work' = work
      /\ rows' = [rows EXCEPT ![a] = {}] /\ rows \in [Assets -> SUBSET RowKinds]
      /\ asset'[a] = NoAsset
      /\ \A b \in Assets \ {a} : asset'[b] = asset[b]
      /\ \A w \in Workers : work[w].pc \notin Resting => work[w].asset \in Assets
    BY <1>a, RowTypes DEF DeleteCommit
<1>1. WorkIsOnCommitted'
    BY <1>b DEF RInv, WorkIsOnCommitted
<1>2. OriginalsAreKnown'
    BY <1>b DEF RInv, OriginalsAreKnown, Stored, NoAsset
<1>3. RowsAreReached'
    BY <1>b DEF RInv, RowsAreReached, Stored, NoAsset
<1>4. ReadyIsComplete'
    BY <1>b DEF RInv, ReadyIsComplete, Assets, NoAsset
<1>5. NoDuplicateRows'
    BY <1>b DEF RInv, NoDuplicateRows
<1> QED
    BY <1>1, <1>2, <1>3, <1>4, <1>5 DEF Rows

\* A crash leaves only transactions at rest.
LEMMA CrashRows ==
    ASSUME RInv, Crash
    PROVE  WorkIsOnCommitted' /\ Rows'
<1>1. \A w \in Workers : work'[w].pc \in Resting
    BY DEF Crash, AtRest, Resting
<1>2. OriginalsAreKnown' /\ ReadyIsComplete'
    BY DEF Crash, RInv, OriginalsAreKnown, ReadyIsComplete, Stored
<1> QED
    BY <1>1, <1>2 DEF Rows, WorkIsOnCommitted, RowsAreReached, NoDuplicateRows

\* Every action keeps the rows as they should be.
LEMMA NextRInv == RInv /\ [Next]_vars => RInv'
<1> SUFFICES ASSUME RInv, [Next]_vars PROVE RInv'
    OBVIOUS
<1> DEFINE Goal == WorkIsOnCommitted' /\ Rows'
<1>1. ASSUME UNCHANGED <<asset, rows, work>>,
             \A a \in Assets : upload[a] = "committed" => upload'[a] = "committed"
      PROVE  Goal
  <2>1. \A w \in Workers : work[w].pc \notin Resting => work[w].asset \in Assets
      BY RowTypes
  <2>2. WorkIsOnCommitted'
      BY <1>1, <2>1 DEF RInv, WorkIsOnCommitted
  <2>3. Rows'
      BY <1>1 DEF RInv, Rows, OriginalsAreKnown, RowsAreReached, ReadyIsComplete,
                  NoDuplicateRows, Stored
  <2> QED
      BY <2>2, <2>3
<1>2. ASSUME NEW a \in Assets, UploadStep(a) \/ BackoffElapses(a)
      PROVE  Goal
  <2>1. UploadCommit(a) \/ (/\ UNCHANGED <<asset, rows, work>>
                            /\ \A b \in Assets : upload[b] = "committed" => upload'[b] = "committed")
      BY <1>2 DEF UploadStep, UploadPut, UploadEnqueue, UploadAbort, BackoffElapses,
                  RInv, JInv, IInv, TypeOK
  <2> QED
      BY <1>1, <2>1, UploadCommitRows
<1>3. ASSUME NEW w \in Pollers, NEW a \in Photos, PollBegin(w, a)
      PROVE  Goal
  <2>1. job[a].status = "PENDING"
      BY <1>3 DEF PollBegin, Oldest, Pending
  <2>2. Stored(a)
      BY <2>1 DEF RInv, JInv, IInv, StatusesAgree, Stored
  <2> QED
      BY <1>3, <2>2, BeginRows DEF PollBegin, Workers
<1>4. ASSUME NEW a \in Previews, PreviewBegin(a)
      PROVE  Goal
  <2>a. a \in Workers /\ a \in Photos /\ a \notin Pollers
      BY AssetsAssumption, PollersAreNotPreviews DEF Workers
  <2>1. CASE Stored(a)
      BY <1>4, <2>a, <2>1, BeginRows DEF PreviewBegin
  <2>2. CASE ~Stored(a)
      BY <1>4, <2>a, <2>2, RollBackRows DEF PreviewBegin, RollBack
  <2> QED
      BY <2>1, <2>2
<1>5. ASSUME NEW w \in Workers, WorkStep(w) \/ WorkAborts(w) \/ PreviewCloses(w)
      PROVE  Goal
    BY <1>5, WorkAdvancesRows, WorkFailsRows, WorkEndsRows, RollBackRows
       DEF WorkStep, WorkAborts, InsertRefused, WorkIsVictim
<1>6. ASSUME NEW d \in Deleters, DeleteStep(d) \/ \E a \in Assets : DeleteBegin(d, a)
      PROVE  Goal
  <2>1. DeleteCommit(d) \/ UNCHANGED <<upload, asset, rows, work>>
      BY <1>6 DEF DeleteStep, DeleteBegin, DeleteObject, DeleteLock, DeleteAborts
  <2> QED
      BY <1>1, <2>1, DeleteCommitRows
<1>7. ASSUME Crash PROVE Goal
    BY <1>7, CrashRows
<1>8. ASSUME Quiet \/ UNCHANGED vars PROVE Goal
    BY <1>1, <1>8 DEF Quiet, vars
<1>9. Goal
    BY <1>2, <1>3, <1>4, <1>5, <1>6, <1>7, <1>8 DEF Next, Workers
<1>10. JInv'
    BY NextJInv DEF RInv
<1> QED
    BY <1>9, <1>10 DEF RInv, Rows

\* There are no rows and no transactions before the first upload.
LEMMA InitRInv == Init => RInv
<1> SUFFICES ASSUME Init PROVE RInv
    OBVIOUS
<1>1. \A w \in Workers : work[w].pc \in Resting
    BY DEF Init, AtRest, Resting
<1>2. OriginalsAreKnown /\ ReadyIsComplete
    BY DEF Init, OriginalsAreKnown, ReadyIsComplete, Stored, NoAsset, Assets
<1> QED
    BY <1>1, <1>2, InitJInv DEF RInv, WorkIsOnCommitted, RowsAreReached, NoDuplicateRows

\* A photo that reads READY has its original, its metadata and its thumbnail,
\* whatever was skipped, retried, rolled back or done twice on the way.
THEOREM ReadyMeansComplete == Spec => []ReadyIsComplete
<1>1. RInv => ReadyIsComplete
    BY DEF RInv
<1> QED
    BY <1>1, InitRInv, NextRInv, PTL DEF Spec

\* No commit of the poll or of a preview meets a row another has committed.
THEOREM RowsNeverCollide == Spec => []NoDuplicateRows
<1>1. RInv => NoDuplicateRows
    BY DEF RInv
<1> QED
    BY <1>1, InitRInv, NextRInv, PTL DEF Spec

-----------------------------------------------------------------------------
(* Rows and files: a row has its file unless the asset is being deleted,   *)
(* and the original of a deleted asset is gone.                            *)

\* The original is stored before anything is committed.
OriginalsAreStored ==
    \A a \in Assets \ requested :
        upload[a] \in {"stored", "queued", "committed"} => "ORIGINAL" \in objects[a]

\* A thumbnail is stored before its row is inserted.
ThumbnailsAreStored ==
    \A w \in Workers :
        /\ work[w].pc \notin Resting
        /\ work[w].pc = "put" \/ "THUMBNAIL" \in work[w].fresh
        => work[w].asset \in requested \/ "THUMBNAIL" \in objects[work[w].asset]

\* A deletion has yet to remove the original, or it is gone; it asks for the
\* lock with nothing left to remove.
DeletionsReachFiles ==
    \A d \in Deleters : del[d].pc \in {"purging", "locked"} =>
        /\ upload[del[d].asset] = "committed"
        /\ "ORIGINAL" \in del[d].left \/ "ORIGINAL" \notin objects[del[d].asset]
        /\ del[d].pc = "locked" => del[d].left = {}

FInv ==
    /\ RInv
    /\ DeletionsAreRequested
    /\ OriginalsAreStored
    /\ ThumbnailsAreStored
    /\ RowsAreBacked
    /\ DeletionsReachFiles
    /\ DeletedOriginalIsGone

\* How uploads and assets, files and rows, and transactions may change.
UploadsMoveOn ==
    \A a \in Assets :
        /\ upload[a] = "committed" => upload'[a] = "committed"
        /\ upload'[a] \in {"stored", "queued", "committed"} =>
              \/ upload[a] \in {"stored", "queued"} \/ UploadPut(a)
              \/ upload[a] = "committed"
        /\ upload'[a] = "committed" => upload[a] = "committed" \/ UploadCommit(a)

FilesChange ==
    \A a \in Assets :
        /\ objects[a] \subseteq objects'[a] \/ a \in requested
        /\ "ORIGINAL" \in objects'[a] => "ORIGINAL" \in objects[a] \/ UploadPut(a)

RowsChange ==
    \A a \in Assets :
        \/ rows'[a] \subseteq rows[a]
        \/ UploadCommit(a) /\ rows'[a] = {"ORIGINAL"}
        \/ \E w \in Workers : /\ work[w].pc \notin Resting /\ work[w].asset = a
                              /\ rows'[a] = rows[a] \cup work[w].fresh

AssetsChange ==
    \A a \in Assets : ~Stored(a)' => ~Stored(a) \/ \E d \in Deleters : DeleteCommit(d) /\ del[d].asset = a

WorkGoesOn ==
    \A w \in Workers : work'[w].pc \notin Resting =>
        \/ work'[w].pc = "begun" /\ work'[w].fresh = {}
        \/ /\ work[w].pc \notin Resting /\ work'[w].asset = work[w].asset
           /\ work'[w].pc = "put" => work[w].pc = "put" \/ PutThumbnail(w)
           /\ "THUMBNAIL" \in work'[w].fresh =>
                 "THUMBNAIL" \in work[w].fresh \/ work[w].pc = "put"

\* The types the following lemmas rest on.
LEMMA FileTypes ==
    ASSUME RInv
    PROVE  /\ upload \in [Assets -> UploadSteps]
           /\ objects \in [Assets -> SUBSET Variants]
           /\ del \in [Deleters -> DeletionRecords]
           /\ \A d \in Deleters : del[d].pc \in {"purging", "locked"} => del[d].asset \in Assets
BY DEF RInv, JInv, IInv, TypeOK, DeletionRecords

\* Steps of uploads, jobs and deletions that leave transactions alone.
LEMMA UploadsChangeFiles ==
    ASSUME RInv, NEW b \in Assets, UploadStep(b) \/ BackoffElapses(b)
    PROVE  /\ UploadsMoveOn /\ FilesChange /\ RowsChange /\ AssetsChange /\ WorkGoesOn
           /\ UNCHANGED <<requested, del>>
<1> USE FileTypes, RowTypes
<1>1. UploadsMoveOn
    BY DEF UploadsMoveOn, UploadStep, UploadPut, UploadEnqueue, UploadCommit, UploadAbort,
           BackoffElapses
<1>2. FilesChange
    BY DEF FilesChange, UploadStep, UploadPut, UploadEnqueue, UploadCommit, UploadAbort,
           BackoffElapses
<1>3. RowsChange
    BY DEF RowsChange, UploadStep, UploadPut, UploadEnqueue, UploadCommit, UploadAbort,
           BackoffElapses
<1>4. AssetsChange
  <2>1. CASE UploadCommit(b)
      BY <2>1 DEF AssetsChange, UploadCommit, Stored
  <2>2. CASE ~UploadCommit(b)
      BY <2>2 DEF AssetsChange, Stored, UploadStep, UploadPut, UploadEnqueue, UploadAbort,
                  BackoffElapses
  <2> QED
      BY <2>1, <2>2
<1>5. WorkGoesOn /\ UNCHANGED <<requested, del>>
    BY DEF WorkGoesOn, UploadStep, UploadPut, UploadEnqueue, UploadCommit, UploadAbort,
           BackoffElapses
<1> QED
    BY <1>1, <1>2, <1>3, <1>4, <1>5

\* Steps of processing: no uploads, no deletions.
LEMMA WorkChangesFiles ==
    ASSUME RInv, NEW w \in Workers,
           \/ WorkStep(w) \/ WorkAborts(w)
           \/ \E b \in Photos : w \in Pollers /\ PollBegin(w, b)
           \/ w \in Previews /\ (PreviewBegin(w) \/ PreviewCloses(w))
    PROVE  /\ UploadsMoveOn /\ FilesChange /\ RowsChange /\ AssetsChange /\ WorkGoesOn
           /\ UNCHANGED <<requested, del>>
<1> DEFINE Goal == /\ UploadsMoveOn /\ FilesChange /\ RowsChange /\ AssetsChange /\ WorkGoesOn
                   /\ UNCHANGED <<requested, del>>
<1>a. /\ work \in [Workers -> WorkRecords] /\ rows \in [Assets -> SUBSET RowKinds]
      /\ \A x \in Workers : work[x].pc \notin Resting => work[x].asset \in Photos /\ work[x].asset \in Assets
      /\ asset \in [Assets ->
             [processing: {"NONE", "UPLOADED", "PROCESSING", "READY", "FAILED"},
              analysis: {"NONE", "PENDING", "COMPLETED", "SKIPPED", "FAILED"}]]
      /\ objects \in [Assets -> SUBSET Variants]
    BY RowTypes, FileTypes
<1>1. ASSUME UNCHANGED <<upload, requested, del, rows, asset>>, FilesChange, WorkGoesOn
      PROVE  Goal
    BY <1>1 DEF UploadsMoveOn, RowsChange, AssetsChange, Stored
<1>b. UNCHANGED objects => FilesChange
    BY DEF FilesChange
<1>2. ASSUME NEW pc \in {"begun", "idle", "done", "read", "analyzed", "failing", "closing"},
             UNCHANGED <<upload, requested, del, rows, asset, objects>>,
             \A x \in Workers \ {w} : work'[x] = work[x],
             work'[w].pc = pc,
             pc = "begun" => work'[w].fresh = {},
             pc \notin {"begun", "idle", "done"} =>
                 /\ work[w].pc \notin Resting /\ work'[w].asset = work[w].asset
                 /\ work'[w].fresh = work[w].fresh
      PROVE  Goal
  <2>1. WorkGoesOn
      BY <1>2 DEF WorkGoesOn, Resting
  <2> QED
      BY <1>1, <1>2, <1>b, <2>1
<1>3. ASSUME RollBack(w), UNCHANGED del PROVE Goal
  <2>1. /\ \A x \in Workers \ {w} : work'[x] = work[x]
        /\ work'[w].pc \in {"idle", "done"}
      BY <1>3, <1>a DEF RollBack, AtRest
  <2> QED
      BY <1>2, <1>3, <2>1 DEF RollBack
<1>4. ASSUME NEW a \in Photos, Begin(w, a),
             UNCHANGED <<upload, requested, del, rows, asset, objects>>
      PROVE  Goal
  <2>1. /\ \A x \in Workers \ {w} : work'[x] = work[x]
        /\ work'[w].pc = "begun" /\ work'[w].fresh = {}
      BY <1>4, <1>a DEF Begin
  <2> QED
      BY <1>2, <1>4, <2>1
<1>5. ASSUME ReadOriginal(w) \/ Analyze(w) PROVE Goal
  <2>1. PICK pc \in {"read", "analyzed"} : Sees(w, pc)
      BY <1>5 DEF ReadOriginal, Analyze
  <2>2. work[w].pc \notin Resting
      BY <1>5 DEF ReadOriginal, Analyze, Resting
  <2>3. /\ \A x \in Workers \ {w} : work'[x] = work[x]
        /\ work'[w].pc = pc /\ work'[w].asset = work[w].asset /\ work'[w].fresh = work[w].fresh
      BY <1>a, <2>1 DEF Sees, WorkRecords
  <2> QED
      BY <1>2, <1>5, <2>2, <2>3 DEF ReadOriginal, Analyze
<1>6. ASSUME ProcessingFails(w) \/ (w \in Previews /\ PreviewCloses(w)) PROVE Goal
  <2>1. ASSUME NEW pc \in {"failing", "closing"}, work[w].pc \notin Resting,
               work' = [work EXCEPT ![w].pc = pc],
               UNCHANGED <<upload, requested, del, rows, asset, objects>>
        PROVE  Goal
    <3>1. /\ \A x \in Workers \ {w} : work'[x] = work[x]
          /\ work'[w].pc = pc /\ work'[w].asset = work[w].asset /\ work'[w].fresh = work[w].fresh
        BY <1>a, <2>1 DEF WorkRecords
    <3> QED
        BY <1>2, <2>1, <3>1
  <2>2. CASE ProcessingFails(w)
      BY <1>3, <2>1, <2>2 DEF ProcessingFails, Resting
  <2>3. CASE PreviewCloses(w)
      BY <1>3, <2>1, <2>3 DEF PreviewCloses, Resting
  <2> QED
      BY <1>6, <2>2, <2>3
<1>7. ASSUME PutThumbnail(w) PROVE Goal
  <2>1. work[w].asset \in Assets
      BY <1>7, <1>a DEF PutThumbnail, Resting
  <2>2. FilesChange
      BY <1>7, <1>a, <2>1 DEF PutThumbnail, FilesChange
  <2>3. /\ \A x \in Workers \ {w} : work'[x] = work[x]
        /\ work'[w].asset = work[w].asset /\ work'[w].fresh = work[w].fresh
      BY <1>7, <1>a DEF PutThumbnail, Sees, WorkRecords
  <2>4. work[w].pc \notin Resting
      BY <1>7 DEF PutThumbnail, Resting
  <2>5. WorkGoesOn
      BY <1>7, <2>3, <2>4 DEF WorkGoesOn
  <2> QED
      BY <1>1, <1>7, <2>2, <2>5 DEF PutThumbnail
<1>8. ASSUME SkipRow(w) \/ KeepRow(w) \/ InsertRow(w) PROVE Goal
  <2>1. NextOf(w) \notin {"begun", "put"} /\ work[w].pc \notin Resting
        /\ (RowOf(w) = "THUMBNAIL" => work[w].pc = "put")
        /\ NextOf(w) \in WorkSteps /\ RowOf(w) \in RowKinds
      BY <1>8 DEF SkipRow, KeepRow, InsertRow, Saving, NextOf, RowOf, RowSaves, Resting, WorkSteps,
                  RowKinds, Variants
  <2>2. PICK fresh \in {work[w].fresh, work[w].fresh \cup {RowOf(w)}} :
            Moves(w, NextOf(w), fresh)
      BY <1>8, <1>a, <2>1, PcMoves, InsertMoves DEF SkipRow, KeepRow, InsertRow
  <2>3. WorkGoesOn
      BY <2>1, <2>2 DEF WorkGoesOn, Moves
  <2> QED
      BY <1>1, <1>8, <1>b, <2>3 DEF SkipRow, KeepRow, InsertRow
<1>9. ASSUME WorkSucceeds(w) \/ PollCountsFailure(w) PROVE Goal
  <2>1. PICK assetRow, jobRow : Finish(w, assetRow, jobRow)
      BY <1>9 DEF WorkSucceeds, PollCountsFailure
  <2>2. PICK a \in Assets : a = work[w].asset /\ work[w].pc \notin Resting
      BY <1>9, <1>a DEF WorkSucceeds, PollCountsFailure, Resting
  <2>3. UploadsMoveOn /\ FilesChange /\ UNCHANGED <<requested, del>>
      BY <2>1 DEF Finish, UploadsMoveOn, FilesChange
  <2>4. RowsChange
      BY <1>a, <2>1, <2>2 DEF Finish, RowsChange
  <2>5. WorkGoesOn
      BY <1>a, <2>1 DEF Finish, WorkGoesOn, AtRest, Resting
  <2>6. AssetsChange
    <3>1. asset'[a].processing # "NONE"
        BY <1>9, <1>a, <2>2 DEF WorkSucceeds, PollCountsFailure, Finish, FailedAsset
    <3>2. \A b \in Assets \ {a} : asset'[b] = asset[b]
        BY <1>a, <2>1, <2>2 DEF Finish
    <3> QED
        BY <3>1, <3>2 DEF AssetsChange, Stored
  <2> QED
      BY <2>3, <2>4, <2>5, <2>6
<1>10. ASSUME WorkStep(w) \/ WorkAborts(w) PROVE Goal
    BY <1>3, <1>5, <1>6, <1>7, <1>8, <1>9, <1>10
       DEF WorkStep, WorkAborts, InsertRefused, WorkIsVictim
<1>11. ASSUME NEW b \in Photos, w \in Pollers, PollBegin(w, b) PROVE Goal
    BY <1>4, <1>11 DEF PollBegin
<1>12. ASSUME w \in Previews, PreviewBegin(w) PROVE Goal
    BY <1>3, <1>4, <1>12, AssetsAssumption, PollersAreNotPreviews DEF PreviewBegin, RollBack
<1> QED
    BY <1>6, <1>10, <1>11, <1>12

\* Steps that are not of a deletion or a crash keep rows and files together.
LEMMA ChangesKeepFiles ==
    ASSUME FInv, UploadsMoveOn, FilesChange, RowsChange, AssetsChange, WorkGoesOn,
           objects' \in [Assets -> SUBSET Variants],
           \A w \in Workers : PutThumbnail(w) => "THUMBNAIL" \in objects'[work[w].asset],
           \A a \in Assets : UploadPut(a) =>
               upload[a] = "new" /\ "ORIGINAL" \in objects'[a],
           requested \subseteq requested'
    PROVE  OriginalsAreStored' /\ ThumbnailsAreStored' /\ RowsAreBacked'
<1> USE FileTypes, RowTypes DEF FInv
<1>a. \A w \in Workers : work[w].pc \notin Resting => work[w].asset \in Assets
    BY DEF RInv
<1>1. OriginalsAreStored'
    BY DEF OriginalsAreStored, UploadsMoveOn, FilesChange
<1>2. ThumbnailsAreStored'
  <2> SUFFICES ASSUME NEW w \in Workers, work'[w].pc \notin Resting,
                      work'[w].pc = "put" \/ "THUMBNAIL" \in work'[w].fresh
               PROVE  \/ work'[w].asset \in requested'
                      \/ "THUMBNAIL" \in objects'[work'[w].asset]
      BY DEF ThumbnailsAreStored
  <2>1. /\ work[w].pc \notin Resting /\ work'[w].asset = work[w].asset
        /\ work'[w].pc = "put" => work[w].pc = "put" \/ PutThumbnail(w)
        /\ "THUMBNAIL" \in work'[w].fresh =>
              "THUMBNAIL" \in work[w].fresh \/ work[w].pc = "put"
      BY DEF WorkGoesOn
  <2>2. CASE PutThumbnail(w)
      BY <2>1, <2>2
  <2>3. CASE ~PutThumbnail(w)
    <3>1. work[w].asset \in requested \/ "THUMBNAIL" \in objects[work[w].asset]
        BY <2>1, <2>3 DEF ThumbnailsAreStored
    <3> QED
        BY <1>a, <2>1, <3>1 DEF FilesChange
  <2> QED
      BY <2>2, <2>3
<1>3. RowsAreBacked'
  <2> SUFFICES ASSUME NEW a \in Assets \ requested', NEW v \in rows'[a] \cap Variants
               PROVE  v \in objects'[a]
      BY DEF RowsAreBacked
  <2>a. a \notin requested /\ objects[a] \subseteq objects'[a]
      BY DEF FilesChange
  <2>1. CASE rows'[a] \subseteq rows[a]
      BY <2>a, <2>1 DEF RowsAreBacked
  <2>2. CASE UploadCommit(a) /\ rows'[a] = {"ORIGINAL"}
      BY <2>a, <2>2 DEF UploadCommit, OriginalsAreStored
  <2>3. ASSUME NEW w \in Workers, work[w].pc \notin Resting, work[w].asset = a,
               rows'[a] = rows[a] \cup work[w].fresh
        PROVE  v \in objects'[a]
    <3>1. CASE v \in rows[a]
        BY <2>a, <3>1 DEF RowsAreBacked
    <3>2. CASE v = "ORIGINAL"
      <4>1. upload[a] = "committed"
          BY <2>3 DEF RInv, WorkIsOnCommitted
      <4> QED
          BY <2>a, <3>2, <4>1 DEF OriginalsAreStored
    <3>3. CASE v = "THUMBNAIL" /\ v \in work[w].fresh
        BY <2>a, <2>3, <3>3 DEF ThumbnailsAreStored
    <3> QED
        BY <2>3, <3>1, <3>2, <3>3 DEF Variants
  <2> QED
      BY <2>1, <2>2, <2>3 DEF RowsChange
<1> QED
    BY <1>1, <1>2, <1>3

\* They leave a deletion where it is.
LEMMA ChangesKeepDeletions ==
    ASSUME FInv, UploadsMoveOn, FilesChange, AssetsChange, UNCHANGED del,
           \A a \in Assets : UploadPut(a) => upload[a] = "new",
           \A d \in Deleters : ~DeleteCommit(d),
           \A a \in Assets : UploadCommit(a) => Stored(a)'
    PROVE  DeletionsReachFiles' /\ DeletedOriginalIsGone'
<1> USE FileTypes DEF FInv
<1>1. DeletionsReachFiles'
    BY DEF DeletionsReachFiles, UploadsMoveOn, FilesChange
<1>2. DeletedOriginalIsGone'
  <2> SUFFICES ASSUME NEW a \in Assets, upload'[a] = "committed", ~Stored(a)'
               PROVE  "ORIGINAL" \notin objects'[a]
      BY DEF DeletedOriginalIsGone
  <2>1. upload[a] = "committed" /\ ~Stored(a)
      BY DEF UploadsMoveOn, AssetsChange
  <2> QED
      BY <2>1 DEF DeletedOriginalIsGone, FilesChange
<1> QED
    BY <1>1, <1>2

\* A deletion that begins has the original before it.
LEMMA DeleteBeginFiles ==
    ASSUME FInv, NEW d \in Deleters, NEW a \in Assets, DeleteBegin(d, a)
    PROVE  /\ OriginalsAreStored' /\ ThumbnailsAreStored' /\ RowsAreBacked'
           /\ DeletionsReachFiles' /\ DeletedOriginalIsGone'
<1> USE FileTypes DEF FInv, DeleteBegin
<1>1. OriginalsAreStored' /\ ThumbnailsAreStored' /\ RowsAreBacked'
    BY DEF OriginalsAreStored, ThumbnailsAreStored, RowsAreBacked
<1>2. DeletedOriginalIsGone'
    BY DEF DeletedOriginalIsGone, Stored
<1>3. DeletionsReachFiles'
  <2>1. upload[a] = "committed" /\ "ORIGINAL" \in rows[a]
      BY DEF RInv, JInv, IInv, UploadsAreAtomic, OriginalsAreKnown, Stored, NoAsset
  <2> QED
      BY <2>1 DEF DeletionsReachFiles, Variants
<1> QED
    BY <1>1, <1>2, <1>3

\* It removes what it has been asked to, and nothing else.
LEMMA DeleteStepFiles ==
    ASSUME FInv, NEW d \in Deleters, DeleteStep(d)
    PROVE  /\ OriginalsAreStored' /\ ThumbnailsAreStored' /\ RowsAreBacked'
           /\ DeletionsReachFiles' /\ DeletedOriginalIsGone'
<1> USE FileTypes, RowTypes DEF FInv
<1>a. \A w \in Workers : work[w].pc \notin Resting => work[w].asset \in Assets
    BY DEF RInv
<1>1. ASSUME NEW v \in Variants, DeleteObject(d, v)
      PROVE  /\ OriginalsAreStored' /\ ThumbnailsAreStored' /\ RowsAreBacked'
             /\ DeletionsReachFiles' /\ DeletedOriginalIsGone'
  <2>a. PICK a \in Assets : a = del[d].asset /\ a \in requested
      BY <1>1 DEF DeleteObject, DeletionsAreRequested
  <2>b. /\ objects' = [objects EXCEPT ![a] = @ \ {v}]
        /\ \A b \in Assets \ {a} : objects'[b] = objects[b]
        /\ objects'[a] = objects[a] \ {v}
        /\ UNCHANGED <<upload, asset, rows, work, requested>>
      BY <1>1, <2>a DEF DeleteObject
  <2>1. OriginalsAreStored' /\ RowsAreBacked'
      BY <2>a, <2>b DEF OriginalsAreStored, RowsAreBacked
  <2>2. ThumbnailsAreStored'
      BY <1>a, <2>a, <2>b DEF ThumbnailsAreStored
  <2>3. DeletedOriginalIsGone'
      BY <2>a, <2>b DEF DeletedOriginalIsGone, Stored
  <2>4. DeletionsReachFiles'
    <3>1. \A e \in Deleters \ {d} : del'[e] = del[e]
        BY <1>1 DEF DeleteObject
    <3>2. /\ del'[d].pc = "purging" /\ del'[d].asset = a
          /\ del'[d].left = del[d].left \ {v} /\ del[d].pc = "purging"
        BY <1>1, <2>a DEF DeleteObject, DeletionRecords
    <3>3. \A e \in Deleters : del[e].pc \in {"purging", "locked"} => del[e].asset \in Assets
        OBVIOUS
    <3> QED
        BY <2>a, <2>b, <3>1, <3>2, <3>3 DEF DeletionsReachFiles
  <2> QED
      BY <2>1, <2>2, <2>3, <2>4
<1>2. ASSUME DeleteLock(d) \/ DeleteAborts(d)
      PROVE  /\ OriginalsAreStored' /\ ThumbnailsAreStored' /\ RowsAreBacked'
             /\ DeletionsReachFiles' /\ DeletedOriginalIsGone'
  <2>a. UNCHANGED <<upload, asset, rows, objects, work, requested>>
      BY <1>2 DEF DeleteLock, DeleteAborts
  <2>1. OriginalsAreStored' /\ ThumbnailsAreStored' /\ RowsAreBacked' /\ DeletedOriginalIsGone'
      BY <2>a DEF OriginalsAreStored, ThumbnailsAreStored, RowsAreBacked,
                  DeletedOriginalIsGone, Stored
  <2>2. DeletionsReachFiles'
    <3>1. \A e \in Deleters \ {d} : del'[e] = del[e]
        BY <1>2 DEF DeleteLock, DeleteAborts, DeleteEnds
    <3>2. \/ del'[d].pc = "done"
          \/ /\ del'[d].asset = del[d].asset /\ del'[d].left = del[d].left
             /\ del[d].left = {} /\ del[d].pc = "purging"
        BY <1>2 DEF DeleteLock, DeleteAborts, DeleteEnds, DeletionRecords
    <3> QED
        BY <2>a, <3>1, <3>2 DEF DeletionsReachFiles
  <2> QED
      BY <2>1, <2>2
<1>3. ASSUME DeleteCommit(d)
      PROVE  /\ OriginalsAreStored' /\ ThumbnailsAreStored' /\ RowsAreBacked'
             /\ DeletionsReachFiles' /\ DeletedOriginalIsGone'
  <2>a. PICK a \in Assets : a = del[d].asset
      BY <1>3 DEF DeleteCommit
  <2>b. /\ UNCHANGED <<upload, objects, work, requested>>
        /\ rows' = [rows EXCEPT ![a] = {}]
        /\ \A b \in Assets \ {a} : asset'[b] = asset[b]
        /\ "ORIGINAL" \notin objects[a]
      BY <1>3, <2>a DEF DeleteCommit, DeletionsReachFiles
  <2>1. OriginalsAreStored' /\ ThumbnailsAreStored' /\ RowsAreBacked'
      BY <2>b DEF OriginalsAreStored, ThumbnailsAreStored, RowsAreBacked
  <2>2. DeletedOriginalIsGone'
      BY <2>b DEF DeletedOriginalIsGone, Stored
  <2>3. DeletionsReachFiles'
    <3>1. del'[d].pc = "done" /\ \A e \in Deleters \ {d} : del'[e] = del[e]
        BY <1>3 DEF DeleteCommit, DeleteEnds
    <3> QED
        BY <2>b, <3>1 DEF DeletionsReachFiles
  <2> QED
      BY <2>1, <2>2, <2>3
<1> QED
    BY <1>1, <1>2, <1>3 DEF DeleteStep

\* A crash takes the transactions and leaves rows and files.
LEMMA CrashFiles ==
    ASSUME FInv, Crash
    PROVE  /\ OriginalsAreStored' /\ ThumbnailsAreStored' /\ RowsAreBacked'
           /\ DeletionsReachFiles' /\ DeletedOriginalIsGone'
<1> USE FileTypes DEF FInv, Crash
<1>a. \A a \in Assets :
          /\ upload'[a] \in {"stored", "queued", "committed"} => upload[a] = "committed"
          /\ upload[a] = "committed" => upload'[a] = "committed"
    BY DEF UploadSteps
<1>1. OriginalsAreStored' /\ RowsAreBacked'
    BY <1>a DEF OriginalsAreStored, RowsAreBacked
<1>2. ThumbnailsAreStored'
    BY DEF ThumbnailsAreStored, AtRest, Resting
<1>3. DeletionsReachFiles'
    BY DEF DeletionsReachFiles
<1>4. DeletedOriginalIsGone'
    BY <1>a DEF DeletedOriginalIsGone, Stored
<1> QED
    BY <1>1, <1>2, <1>3, <1>4

\* Every action keeps rows and files together.
LEMMA NextFInv == FInv /\ [Next]_vars => FInv'
<1> SUFFICES ASSUME FInv, [Next]_vars PROVE FInv'
    OBVIOUS
<1> DEFINE Goal == /\ OriginalsAreStored' /\ ThumbnailsAreStored' /\ RowsAreBacked'
                   /\ DeletionsReachFiles' /\ DeletedOriginalIsGone'
<1>a. RInv' /\ DeletionsAreRequested'
    BY NextRInv, RequestsAreKept DEF FInv, RInv, JInv
<1>b. objects' \in [Assets -> SUBSET Variants] /\ objects \in [Assets -> SUBSET Variants]
    BY <1>a, FileTypes DEF FInv, RInv, JInv, IInv, TypeOK
<1>1. ASSUME NEW b \in Assets, UploadStep(b) \/ BackoffElapses(b)
      PROVE  Goal
  <2>1. /\ UploadsMoveOn /\ FilesChange /\ RowsChange /\ AssetsChange /\ WorkGoesOn
        /\ UNCHANGED <<requested, del>>
      BY <1>1, UploadsChangeFiles DEF FInv
  <2>2. \A a \in Assets : UploadPut(a) => upload[a] = "new" /\ "ORIGINAL" \in objects'[a]
      BY <1>b DEF UploadPut
  <2>3. \A w \in Workers : ~PutThumbnail(w)
    <3>1. \A w \in Workers : work'[w] = work[w]
        BY <1>1 DEF UploadStep, UploadPut, UploadEnqueue, UploadCommit, UploadAbort,
                    BackoffElapses
    <3> QED
        BY <3>1, RowTypes DEF PutThumbnail, Sees, FInv, WorkRecords
  <2>4. \A d \in Deleters : ~DeleteCommit(d)
      BY <2>1, FileTypes DEF DeleteCommit, DeleteEnds, FInv
  <2>5. \A a \in Assets : UploadCommit(a) => Stored(a)'
      BY RowTypes DEF UploadCommit, Stored, FInv
  <2> QED
      BY <1>b, <2>1, <2>2, <2>3, <2>4, <2>5, ChangesKeepFiles, ChangesKeepDeletions
<1>2. ASSUME NEW w \in Workers,
             \/ WorkStep(w) \/ WorkAborts(w)
             \/ \E b \in Photos : w \in Pollers /\ PollBegin(w, b)
             \/ w \in Previews /\ (PreviewBegin(w) \/ PreviewCloses(w))
      PROVE  Goal
  <2>1. /\ UploadsMoveOn /\ FilesChange /\ RowsChange /\ AssetsChange /\ WorkGoesOn
        /\ UNCHANGED <<requested, del>>
      BY <1>2, WorkChangesFiles DEF FInv
  <2>2. \A a \in Assets : UploadPut(a) => upload[a] = "new" /\ "ORIGINAL" \in objects'[a]
      BY <1>b DEF UploadPut
  <2>3. \A x \in Workers : PutThumbnail(x) => "THUMBNAIL" \in objects'[work[x].asset]
    <3>1. \A x \in Workers : work[x].pc = "meta" => work[x].asset \in Assets
        BY RowTypes DEF FInv, Resting
    <3> QED
        BY <1>b, <3>1 DEF PutThumbnail
  <2>4. \A d \in Deleters : ~DeleteCommit(d)
      BY <2>1, FileTypes DEF DeleteCommit, DeleteEnds, FInv
  <2>5. \A a \in Assets : UploadCommit(a) => Stored(a)'
      BY RowTypes DEF UploadCommit, Stored, FInv
  <2> QED
      BY <1>b, <2>1, <2>2, <2>3, <2>4, <2>5, ChangesKeepFiles, ChangesKeepDeletions
<1>3. ASSUME NEW d \in Deleters, DeleteStep(d) \/ \E b \in Assets : DeleteBegin(d, b)
      PROVE  Goal
    BY <1>3, DeleteStepFiles, DeleteBeginFiles
<1>4. ASSUME Crash PROVE Goal
    BY <1>4, CrashFiles
<1>5. ASSUME Quiet \/ UNCHANGED vars PROVE Goal
    BY <1>5 DEF Quiet, vars, FInv, OriginalsAreStored, ThumbnailsAreStored, RowsAreBacked,
                DeletionsReachFiles, DeletedOriginalIsGone, Stored
<1>6. Goal
    BY <1>1, <1>2, <1>3, <1>4, <1>5 DEF Next, Workers
<1> QED
    BY <1>a, <1>6 DEF FInv

\* There are no files and no requests before the first upload.
LEMMA InitFInv == Init => FInv
BY InitRInv, AssetsAssumption
   DEF Init, FInv, DeletionsAreRequested, OriginalsAreStored, ThumbnailsAreStored,
       RowsAreBacked, DeletionsReachFiles, DeletedOriginalIsGone, AtRest, Resting

\* A row of a file that nobody has asked to delete has its file, whatever
\* rollback or crash the transaction that stored it met.
THEOREM FilesBackRows == Spec => []RowsAreBacked
<1>1. FInv => RowsAreBacked
    BY DEF FInv
<1> QED
    BY <1>1, InitFInv, NextFInv, PTL DEF Spec

\* No order of deletions, uploads and crashes keeps the original of a row
\* that is gone.
THEOREM OriginalsGoWithTheirRows == Spec => []DeletedOriginalIsGone
<1>1. FInv => DeletedOriginalIsGone
    BY DEF FInv
<1> QED
    BY <1>1, InitFInv, NextFInv, PTL DEF Spec
=============================================================================
