---------------------------- MODULE AnalysisSidecar ----------------------------
(***************************************************************************)
(* The analysis service: POST /analyze requests, the executor that runs    *)
(* the models, the limiter that bounds its queue, and the result cache.    *)
(*                                                                         *)
(* One event loop runs all requests.  A request does not give way between  *)
(* its cache lookup and its wait, so these are one action; the loop hears  *)
(* of an analysis that has ended some time after it has (WorkerEnds), and  *)
(* runs the callbacks of its future in one go (Callbacks).  A future is    *)
(* named after the request that submitted it.                              *)
(***************************************************************************)
EXTENDS Naturals, FiniteSets

CONSTANTS
    Requests,       \* requests, each sent once
    Keys,           \* cache keys: an image with the options that matter
    Executors,      \* values of ANALYSIS_EXECUTOR to consider
    Capacity,       \* ANALYSIS_MAX_PENDING_FAST_REQUESTS
    MaxRestarts,    \* bound: restarts of the container
    None            \* no request, no key, no answer

\* Payloads carry the status of the pipeline, COMPLETED standing for
\* PARTIALLY_COMPLETED too; every kind answers 200.
Payloads == {"COMPLETED", "FAILED"}

\* An analysis raises, or its worker process dies.
Exceptions == {"error", "crash"}

Answers == Payloads \cup Exceptions \cup {"429", "503", "504", "lost"}

ASSUME SidecarAssumption ==
    /\ Executors \subseteq {"inline", "thread", "process"}
    /\ Capacity \in Nat \ {0}
    /\ MaxRestarts \in Nat
    /\ None \notin Requests \cup Keys \cup Answers

VARIABLES
    executor,   \* the configured executor
    pool,       \* "broken": a worker process has died
    request,    \* what each request asks for and how it was answered
    future,     \* analyses submitted to the executor
    inflight,   \* the future that requests for a key join
    permits,    \* current of the fast limiter
    cached,     \* the result cache
    restarts,   \* restarts so far
    leaked,     \* history: permits no future will release
    computed    \* history: payloads the analyses of each key have returned

vars == <<executor, pool, request, future, inflight, permits, cached, restarts, leaked,
          computed>>

-----------------------------------------------------------------------------
\* Types: among them, that the limiter never exceeds its capacity.  (try_acquire)
TypeOK ==
    /\ executor \in Executors
    /\ pool \in {"up", "broken"}
    /\ request \in [Requests -> [pc: {"new", "waiting", "answered"},
                                 key: Keys \cup {None},
                                 answer: Answers \cup {None}]]
    /\ future \in [Requests -> [pc: {"none", "running", "done"},
                                result: Payloads \cup Exceptions \cup {None}]]
    /\ inflight \in [Keys -> Requests \cup {None}]
    /\ permits \in 0 .. Capacity
    /\ cached \in [Keys -> Payloads \cup {None}]
    /\ restarts \in 0 .. MaxRestarts
    /\ leaked \in 0 .. Capacity
    /\ computed \in [Keys -> SUBSET Payloads]

NoFuture == [pc |-> "none", result |-> None]

Init ==
    /\ executor \in Executors
    /\ pool = "up"
    /\ request = [r \in Requests |-> [pc |-> "new", key |-> None, answer |-> None]]
    /\ future = [r \in Requests |-> NoFuture]
    /\ inflight = [k \in Keys |-> None]
    /\ permits = 0
    /\ cached = [k \in Keys |-> None]
    /\ restarts = 0
    /\ leaked = 0
    /\ computed = [k \in Keys |-> {}]

-----------------------------------------------------------------------------
Answered(r, k, answer) ==
    request' = [request EXCEPT ![r] = [pc |-> "answered", key |-> k, answer |-> answer]]

Waits(r, k) ==
    request' = [request EXCEPT ![r] = [pc |-> "waiting", key |-> k, answer |-> None]]

\* An analysis of k has ended so: a payload it returns, an exception it does not.
Computes(k, result) ==
    computed' = [computed EXCEPT ![k] = @ \cup ({result} \cap Payloads)]

\* analyze_bytes, up to its first suspension.
CacheHit(r, k) ==
    /\ request[r].pc = "new"
    /\ cached[k] # None
    /\ Answered(r, k, cached[k])
    /\ UNCHANGED <<executor, pool, future, inflight, permits, cached,
                   restarts, leaked, computed>>

Misses(r, k) == request[r].pc = "new" /\ cached[k] = None

Join(r, k) ==
    /\ Misses(r, k)
    /\ inflight[k] # None
    /\ Waits(r, k)
    /\ UNCHANGED <<executor, pool, future, inflight, permits, cached,
                   restarts, leaked, computed>>

\* Mutant: the cache is asked, the analyses in flight are not.
SubmitsAlways(r, k) == Misses(r, k)

\* Nobody has submitted this key.
Submits(r, k) == Misses(r, k) /\ inflight[k] = None

\* Mutant: room for one more than the capacity.
HasRoomForOneMore == permits <= Capacity

\* try_acquire.
HasRoom == permits < Capacity

QueueFull(r, k) ==
    /\ Submits(r, k)
    /\ ~HasRoom
    /\ Answered(r, k, "429")
    /\ UNCHANGED <<executor, pool, future, inflight, permits, cached,
                   restarts, leaked, computed>>

Submit(r, k) ==
    /\ Submits(r, k)
    /\ HasRoom
    /\ executor # "inline"
    /\ pool = "up"
    /\ permits' = permits + 1
    /\ future' = [future EXCEPT ![r] = [pc |-> "running", result |-> None]]
    /\ inflight' = [inflight EXCEPT ![k] = r]
    /\ Waits(r, k)
    /\ UNCHANGED <<executor, pool, cached, restarts, leaked, computed>>

\* The event loop runs the analysis itself and gives the permit back at once.
SubmitInline(r, k) ==
    /\ Submits(r, k)
    /\ HasRoom
    /\ executor = "inline"
    /\ \E result \in Payloads \cup {"error"} :
          /\ future' = [future EXCEPT ![r] = [pc |-> "done", result |-> result]]
          /\ Computes(k, result)
    /\ inflight' = [inflight EXCEPT ![k] = r]
    /\ Waits(r, k)
    /\ UNCHANGED <<executor, pool, permits, cached, restarts, leaked>>

\* A broken pool refuses the call.  The permit was taken before and there is no
\* future to release it.
SubmitRefused(r, k) ==
    /\ Submits(r, k)
    /\ HasRoom
    /\ pool = "broken"
    /\ permits' = permits + 1
    /\ leaked' = leaked + 1
    /\ Answered(r, k, "503")
    /\ UNCHANGED <<executor, pool, future, inflight, cached, restarts,
                   computed>>

-----------------------------------------------------------------------------
\* An analysis ends in the executor.
WorkerEnds(r) ==
    /\ future[r].pc = "running"
    /\ \E result \in IF pool = "up" THEN Payloads \cup {"error"} ELSE {"crash"} :
          /\ future' = [future EXCEPT ![r] = [pc |-> "done", result |-> result]]
          /\ Computes(request[r].key, result)
    /\ UNCHANGED <<executor, pool, request, inflight, permits, cached,
                   restarts, leaked>>

\* The operating system kills a worker process, for memory say.
PoolBreaks ==
    /\ executor = "process"
    /\ pool = "up"
    /\ pool' = "broken"
    /\ UNCHANGED <<executor, request, future, inflight, permits, cached,
                   restarts, leaked, computed>>

WaitsFor(r, k) == request[r].pc = "waiting" /\ request[r].key = k

\* Mutant: only a successful analysis gives its permit back.
ReleaseOnSuccess(r) ==
    permits' = IF executor = "inline" \/ future[r].result \notin Payloads
               THEN permits ELSE permits - 1

\* Mutant: cleanup forgets the key of an analysis that raised.
ForgetOnSuccess(r, k) ==
    inflight' = IF future[r].result \in Payloads
                THEN [inflight EXCEPT ![k] = None] ELSE inflight

\* Mutant: an exception is cached as a failed result.
RememberAll(r, k) ==
    cached' = [cached EXCEPT ![k] =
                  IF future[r].result \in Payloads THEN future[r].result ELSE "FAILED"]

Release(r) == permits' = IF executor = "inline" THEN permits ELSE permits - 1

Forget(r, k) == inflight' = [inflight EXCEPT ![k] = None]

\* cache_completed_result; a disabled cache and a result too large for it keep
\* nothing.
Remember(r, k) ==
    \/ /\ future[r].result \in Payloads
       /\ cached' = [cached EXCEPT ![k] = future[r].result]
    \/ UNCHANGED cached

\* The done callbacks of a future: the permit, the cache, the in-flight entry,
\* and everybody who still waits.
Callbacks(r) ==
    LET k == request[r].key IN
    /\ future[r].pc = "done"
    /\ Release(r)
    /\ Remember(r, k)
    /\ Forget(r, k)
    /\ request' = [x \in Requests |->
                      IF WaitsFor(x, k)
                      THEN [pc |-> "answered", key |-> k, answer |-> future[r].result]
                      ELSE request[x]]
    /\ future' = [future EXCEPT ![r] = NoFuture]
    /\ UNCHANGED <<executor, pool, restarts, leaked, computed>>

\* Mutant: a request waits as long as the analysis takes.
NeverTimesOut(r) == FALSE

\* wait_for gives up on the shielded future, which goes on.
TimesOut(r) ==
    /\ request[r].pc = "waiting"
    /\ Answered(r, request[r].key, "504")
    /\ UNCHANGED <<executor, pool, future, inflight, permits, cached,
                   restarts, leaked, computed>>

\* The cache has made room, and its directory could not be written (ResultCache).
Evict(k) ==
    /\ cached[k] # None
    /\ cached' = [cached EXCEPT ![k] = None]
    /\ UNCHANGED <<executor, pool, request, future, inflight, permits,
                   restarts, leaked, computed>>

\* The container stops and comes up again with what its cache directory holds.
Restart ==
    /\ restarts < MaxRestarts
    /\ restarts' = restarts + 1
    /\ pool' = "up"
    /\ request' = [r \in Requests |->
                      IF request[r].pc = "waiting"
                      THEN [request[r] EXCEPT !.pc = "answered", !.answer = "lost"]
                      ELSE request[r]]
    /\ future' = [r \in Requests |-> NoFuture]
    /\ inflight' = [k \in Keys |-> None]
    /\ permits' = 0
    /\ leaked' = 0
    /\ \E onDisk \in SUBSET Keys :
          cached' = [k \in Keys |-> IF k \in onDisk THEN cached[k] ELSE None]
    /\ UNCHANGED <<executor, computed>>

Quiet ==
    /\ \A r \in Requests : request[r].pc = "answered" /\ future[r].pc = "none"
    /\ UNCHANGED vars

Arrive(r, k) ==
    \/ CacheHit(r, k) \/ Join(r, k) \/ QueueFull(r, k)
    \/ Submit(r, k) \/ SubmitInline(r, k) \/ SubmitRefused(r, k)

Next ==
    \/ \E r \in Requests, k \in Keys : Arrive(r, k)
    \/ \E r \in Requests : WorkerEnds(r) \/ Callbacks(r) \/ TimesOut(r)
    \/ \E k \in Keys : Evict(k)
    \/ PoolBreaks
    \/ Restart
    \/ Quiet

Spec == Init /\ [][Next]_vars

\* The loop runs its callbacks and timers.  A worker may hang for ever.
Fairness ==
    /\ \A r \in Requests : WF_vars(Callbacks(r))
    /\ \A r \in Requests : WF_vars(TimesOut(r))

FairSpec == Spec /\ Fairness

-----------------------------------------------------------------------------
(* Safety.                                                                 *)

Live == {r \in Requests : future[r].pc # "none"}

\* The limiter counts exactly the analyses the executor still owes an answer,
\* through timeouts, exceptions, joins and crashes of a worker, and one permit
\* for every call a broken pool has refused, which never comes back.
\* (PendingRequestLimiter, submit)
PermitsAreAccounted ==
    permits = leaked + IF executor = "inline" THEN 0 ELSE Cardinality(Live)

\* No image is analysed twice at once, and none whose result is cached: the
\* in-flight entry of a key is its only analysis.  (analyze_bytes)
OneAnalysisPerKey ==
    \A r \in Live : LET k == request[r].key IN
        /\ inflight[k] = r
        /\ cached[k] = None

\* Whoever waits has a future to wait for, so that only a timeout can answer
\* without it: no entry, permit or waiter is left behind by a future that ended.
\* (analyze_bytes, cleanup)
WaitersHaveAFuture ==
    /\ \A r \in Requests : request[r].pc = "waiting" => inflight[request[r].key] # None
    /\ \A k \in Keys : inflight[k] # None => /\ inflight[k] \in Live
                                             /\ request[inflight[k]].key = k

\* No payload is made up or mixed up: whichever way an answer takes - its own
\* analysis, one joined in flight, one that outlived its timeout, the cache, its
\* directory after a restart - it is a payload that an analysis of the very key
\* asked for has returned, and an exception never comes back as one.  (A FAILED
\* payload is a payload: the cache keeps and repeats it.)
\* (analyze_bytes, cache_completed_result)
AnswersWereComputed ==
    /\ \A k \in Keys : cached[k] # None => cached[k] \in computed[k]
    /\ \A r \in Requests :
          request[r].answer \in Payloads =>
              request[r].answer \in computed[request[r].key]

\* Every request is answered, even when a worker hangs or its pool breaks.
\* (analyze_bytes: wait_for)
RequestsEnd ==
    \A r \in Requests : request[r].pc = "waiting" ~> request[r].pc = "answered"

-----------------------------------------------------------------------------
(* What the code says of itself and does not do.                           *)

\* worker_pool.py:214: "Fast worker process crashed and was restarted."  A pool
\* that answered a request with a crash accepts the next one.
CrashedPoolIsRestarted ==
    (\E r \in Requests : request[r].answer = "crash") => pool = "up"
=============================================================================
