------------------------ MODULE AnalysisSidecarProofs ------------------------
(***************************************************************************)
(* The bookkeeping of AnalysisSidecar for any sets of requests and keys,   *)
(* any capacity and every executor.                                        *)
(***************************************************************************)
EXTENDS AnalysisSidecar, FiniteSetTheorems, TLAPS

\* A future belongs to a request that has been read, and so has a key.
FuturesHaveKeys ==
    /\ \A r \in Live : request[r].pc # "new"
    /\ \A r \in Requests : request[r].pc # "new" => request[r].key \in Keys

IInv ==
    /\ TypeOK
    /\ FuturesHaveKeys
    /\ IsFiniteSet(Live)
    /\ PermitsAreAccounted
    /\ OneAnalysisPerKey
    /\ WaitersHaveAFuture

\* Nothing is in flight when the service starts.
LEMMA InitIInv == Init => IInv
<1> SUFFICES ASSUME Init PROVE IInv
    OBVIOUS
<1> USE SidecarAssumption DEF Init
<1>1. Live = {}
    BY DEF Live, NoFuture
<1>2. TypeOK
    BY DEF TypeOK, NoFuture
<1>3. FuturesHaveKeys /\ OneAnalysisPerKey
    BY <1>1 DEF FuturesHaveKeys, OneAnalysisPerKey
<1>4. IsFiniteSet(Live) /\ PermitsAreAccounted
    BY <1>1, FS_EmptySet DEF PermitsAreAccounted
<1>5. WaitersHaveAFuture
    BY DEF WaitersHaveAFuture
<1> QED
    BY <1>2, <1>3, <1>4, <1>5 DEF IInv

\* The types a step starts from.
LEMMA Types ==
    ASSUME IInv
    PROVE  /\ request \in [Requests -> [pc: {"new", "waiting", "answered"},
                                        key: Keys \cup {None},
                                        answer: Answers \cup {None}]]
           /\ future \in [Requests -> [pc: {"none", "running", "done"},
                                       result: Payloads \cup Exceptions \cup {None}]]
           /\ inflight \in [Keys -> Requests \cup {None}]
           /\ permits \in 0 .. Capacity /\ leaked \in 0 .. Capacity
           /\ permits \in Nat /\ leaked \in Nat /\ Capacity \in Nat
           /\ cached \in [Keys -> Payloads \cup {None}]
           /\ computed \in [Keys -> SUBSET Payloads]
           /\ Cardinality(Live) \in Nat
BY SidecarAssumption, FS_CardinalityType DEF IInv, TypeOK

\* A request that is answered at once, or joins an analysis in flight, leaves
\* the analyses as they are.
LEMMA AnsweredIInv ==
    ASSUME IInv, NEW r \in Requests, NEW k \in Keys,
           request[r].pc = "new" \/ request[r].key = k,
           \/ \E answer \in Answers : Answered(r, k, answer)
           \/ Waits(r, k) /\ inflight[k] # None,
           UNCHANGED <<executor, pool, future, inflight, cached, restarts, computed>>,
           \/ UNCHANGED <<permits, leaked>>
           \/ permits' = permits + 1 /\ leaked' = leaked + 1 /\ permits < Capacity
    PROVE  IInv'
<1> USE Types DEF IInv
<1>a. Live' = Live
    BY DEF Live
<1>b. /\ request'[r].pc \in {"waiting", "answered"} /\ request'[r].key = k
      /\ request'[r].pc = "waiting" => inflight[k] # None
      /\ \A x \in Requests \ {r} : request'[x] = request[x]
    BY DEF Answered, Waits
<1>c. permits = leaked + IF executor = "inline" THEN 0 ELSE Cardinality(Live)
    BY DEF PermitsAreAccounted
<1>d. \A x \in Live : request[x].pc # "new" /\ request'[x].key = request[x].key
    BY <1>b DEF FuturesHaveKeys, Live
<1>1. TypeOK'
  <2>1. request' \in [Requests -> [pc: {"new", "waiting", "answered"},
                                   key: Keys \cup {None},
                                   answer: Answers \cup {None}]]
    <3>1. request' = [request EXCEPT ![r] = request'[r]] /\ request'[r].key = k
        BY DEF Answered, Waits
    <3>2. request'[r] \in [pc: {"new", "waiting", "answered"},
                           key: Keys \cup {None}, answer: Answers \cup {None}]
        BY DEF Answered, Waits
    <3> QED
        BY <3>1, <3>2
  <2>2. permits' \in 0 .. Capacity /\ leaked' \in 0 .. Capacity
      BY <1>c
  <2> QED
      BY <2>1, <2>2 DEF TypeOK
<1>2. FuturesHaveKeys'
    BY <1>a, <1>b DEF FuturesHaveKeys, Live
<1>3. IsFiniteSet(Live)'
    BY <1>a
<1>4. PermitsAreAccounted'
    BY <1>a, <1>c DEF PermitsAreAccounted
<1>5. OneAnalysisPerKey'
    BY <1>a, <1>d DEF OneAnalysisPerKey, Live
<1>6. WaitersHaveAFuture'
  <2>1. \A x \in Requests : request'[x].pc = "waiting" => inflight[request'[x].key] # None
      BY <1>b DEF WaitersHaveAFuture
  <2>2. \A j \in Keys : inflight[j] # None => /\ inflight[j] \in Live
                                              /\ request'[inflight[j]].key = j
      BY <1>d DEF WaitersHaveAFuture
  <2> QED
      BY <1>a, <2>1, <2>2 DEF WaitersHaveAFuture
<1> QED
    BY <1>1, <1>2, <1>3, <1>4, <1>5, <1>6

\* A request that submits is the only one with its key, and has the one permit
\* more that its future will give back.
LEMMA SubmitIInv ==
    ASSUME IInv, NEW r \in Requests, NEW k \in Keys, Submits(r, k), HasRoom,
           Waits(r, k), NEW f,
           future' = [future EXCEPT ![r] = f],
           f \in [pc: {"running", "done"}, result: Payloads \cup Exceptions \cup {None}],
           inflight' = [inflight EXCEPT ![k] = r],
           permits' = IF executor = "inline" THEN permits ELSE permits + 1,
           computed' \in [Keys -> SUBSET Payloads],
           UNCHANGED <<executor, pool, cached, restarts, leaked>>
    PROVE  IInv'
<1> USE Types DEF IInv, Submits, Misses, HasRoom, Waits
<1>a. r \notin Live
    BY DEF FuturesHaveKeys
<1>b. Live' = Live \cup {r}
    BY DEF Live
<1>c. permits = leaked + IF executor = "inline" THEN 0 ELSE Cardinality(Live)
    BY DEF PermitsAreAccounted
<1>d. /\ request'[r].pc = "waiting" /\ request'[r].key = k
      /\ \A x \in Requests \ {r} : request'[x] = request[x]
      /\ inflight'[k] = r /\ \A l \in Keys \ {k} : inflight'[l] = inflight[l]
    OBVIOUS
<1>1. TypeOK'
  <2>1. request' \in [Requests -> [pc: {"new", "waiting", "answered"},
                                   key: Keys \cup {None},
                                   answer: Answers \cup {None}]]
      OBVIOUS
  <2>2. future' \in [Requests -> [pc: {"none", "running", "done"},
                                  result: Payloads \cup Exceptions \cup {None}]]
      OBVIOUS
  <2>3. inflight' \in [Keys -> Requests \cup {None}]
      OBVIOUS
  <2>4. permits' \in 0 .. Capacity
      OBVIOUS
  <2> QED
      BY <2>1, <2>2, <2>3, <2>4 DEF TypeOK
<1>2. FuturesHaveKeys'
    BY <1>b, <1>d DEF FuturesHaveKeys, Live
<1>3. IsFiniteSet(Live)' /\ Cardinality(Live') = Cardinality(Live) + 1
    BY <1>a, <1>b, FS_AddElement
<1>4. PermitsAreAccounted'
    BY <1>c, <1>3 DEF PermitsAreAccounted
<1>5. OneAnalysisPerKey'
    BY <1>b, <1>d, SidecarAssumption DEF OneAnalysisPerKey, Live
<1>6. WaitersHaveAFuture'
    BY <1>a, <1>b, <1>d, SidecarAssumption DEF WaitersHaveAFuture
<1> QED
    BY <1>1, <1>2, <1>3, <1>4, <1>5, <1>6

\* The callbacks of a future take its permit, its entry and its waiters along.
LEMMA CallbacksIInv ==
    ASSUME IInv, NEW r \in Requests, Callbacks(r)
    PROVE  IInv'
<1> USE Types DEF IInv, Callbacks, Forget
<1>a. r \in Live /\ Live' = Live \ {r}
    BY DEF Live, NoFuture
<1>b. PICK k \in Keys : k = request[r].key
    BY <1>a DEF FuturesHaveKeys
<1>c. permits = leaked + IF executor = "inline" THEN 0 ELSE Cardinality(Live)
    BY DEF PermitsAreAccounted
<1>d. IsFiniteSet(Live)' /\ Cardinality(Live') = Cardinality(Live) - 1
    BY <1>a, FS_RemoveElement
<1>e. /\ inflight'[k] = None /\ \A l \in Keys \ {k} : inflight'[l] = inflight[l]
      /\ inflight[k] = r
      /\ \A l \in Keys \ {k} : cached'[l] = cached[l]
    BY <1>a, <1>b DEF Remember, OneAnalysisPerKey
<1>f. \A x \in Requests : /\ request'[x].key = request[x].key
                          /\ request'[x].pc = "new" <=> request[x].pc = "new"
                          /\ request'[x].pc = "waiting" =>
                                request[x].pc = "waiting" /\ request[x].key # k
    BY <1>b DEF WaitsFor
<1>1. TypeOK'
  <2>1. request' \in [Requests -> [pc: {"new", "waiting", "answered"},
                                   key: Keys \cup {None},
                                   answer: Answers \cup {None}]]
    <3>1. future[r].result \in Answers \cup {None}
        BY DEF Answers
    <3> QED
        BY <1>b, <3>1
  <2>2. future' \in [Requests -> [pc: {"none", "running", "done"},
                                  result: Payloads \cup Exceptions \cup {None}]]
      BY DEF NoFuture
  <2>3. inflight' \in [Keys -> Requests \cup {None}]
      OBVIOUS
  <2>4. permits' \in 0 .. Capacity
      BY <1>c, <1>d, FS_CardinalityType DEF Release
  <2>5. cached' \in [Keys -> Payloads \cup {None}]
      BY DEF Remember
  <2> QED
      BY <2>1, <2>2, <2>3, <2>4, <2>5 DEF TypeOK
<1>2. FuturesHaveKeys'
    BY <1>a, <1>f DEF FuturesHaveKeys, Live
<1>3. PermitsAreAccounted'
    BY <1>c, <1>d, FS_CardinalityType DEF PermitsAreAccounted, Release
<1>4. OneAnalysisPerKey'
  <2> SUFFICES ASSUME NEW x \in Live \ {r}
               PROVE  inflight'[request[x].key] = x /\ cached'[request[x].key] = None
      BY <1>a, <1>f DEF OneAnalysisPerKey, Live
  <2>1. inflight[request[x].key] = x /\ cached[request[x].key] = None /\ request[x].key \in Keys
      BY DEF OneAnalysisPerKey, FuturesHaveKeys, Live
  <2> QED
      BY <1>e, <2>1
<1>5. WaitersHaveAFuture'
  <2>1. ASSUME NEW x \in Requests, request'[x].pc = "waiting"
        PROVE  inflight'[request'[x].key] # None
    <3>1. request[x].pc = "waiting" /\ request[x].key # k /\ request[x].key \in Keys
        BY <1>f, <2>1 DEF FuturesHaveKeys
    <3> QED
        BY <1>e, <1>f, <3>1 DEF WaitersHaveAFuture
  <2>2. ASSUME NEW l \in Keys, inflight'[l] # None
        PROVE  inflight'[l] \in Live' /\ request'[inflight'[l]].key = l
    <3>1. l # k /\ inflight[l] \in Live /\ request[inflight[l]].key = l
        BY <1>e, <2>2 DEF WaitersHaveAFuture
    <3> QED
        BY <1>a, <1>b, <1>e, <1>f, <3>1 DEF Live
  <2> QED
      BY <2>1, <2>2 DEF WaitersHaveAFuture
<1> QED
    BY <1>1, <1>2, <1>d, <1>3, <1>4, <1>5

\* An analysis that ends in the executor is still the one its key waits for.
LEMMA WorkerEndsIInv ==
    ASSUME IInv, NEW r \in Requests, WorkerEnds(r)
    PROVE  IInv'
<1> USE Types DEF IInv, WorkerEnds
<1>a. Live' = Live
    BY DEF Live
<1>1. TypeOK'
  <2>1. future' \in [Requests -> [pc: {"none", "running", "done"},
                                  result: Payloads \cup Exceptions \cup {None}]]
      BY DEF Exceptions
  <2>2. PICK result \in Payloads \cup Exceptions : Computes(request[r].key, result)
      BY DEF Exceptions
  <2>3. computed' \in [Keys -> SUBSET Payloads]
      BY <2>2 DEF Computes
  <2> QED
      BY <2>1, <2>3 DEF TypeOK
<1>2. FuturesHaveKeys' /\ IsFiniteSet(Live)' /\ PermitsAreAccounted'
    BY <1>a DEF FuturesHaveKeys, PermitsAreAccounted
<1>3. OneAnalysisPerKey' /\ WaitersHaveAFuture'
    BY <1>a DEF OneAnalysisPerKey, WaitersHaveAFuture
<1> QED
    BY <1>1, <1>2, <1>3

\* The cache making room and a pool that breaks touch nothing that is in flight.
LEMMA EnvironmentIInv ==
    ASSUME IInv, PoolBreaks \/ \E k \in Keys : Evict(k)
    PROVE  IInv'
<1> USE Types DEF IInv, PoolBreaks, Evict
<1>a. UNCHANGED <<executor, request, future, inflight, permits, restarts, leaked, computed>>
    OBVIOUS
<1>b. Live' = Live
    BY <1>a DEF Live
<1>c. \A k \in Keys : cached'[k] \in {cached[k], None}
    OBVIOUS
<1>1. TypeOK'
  <2>1. cached' \in [Keys -> Payloads \cup {None}]
      OBVIOUS
  <2>2. pool' \in {"up", "broken"}
      BY DEF TypeOK
  <2> QED
      BY <1>a, <2>1, <2>2 DEF TypeOK
<1>2. FuturesHaveKeys' /\ IsFiniteSet(Live)' /\ PermitsAreAccounted' /\ WaitersHaveAFuture'
    BY <1>a, <1>b DEF FuturesHaveKeys, PermitsAreAccounted, WaitersHaveAFuture
<1>3. OneAnalysisPerKey'
  <2>1. \A r \in Live : request[r].key \in Keys
      BY DEF FuturesHaveKeys, Live
  <2> QED
      BY <1>a, <1>b, <1>c, <2>1 DEF OneAnalysisPerKey
<1> QED
    BY <1>1, <1>2, <1>3

\* After a restart nothing is in flight.
LEMMA RestartIInv ==
    ASSUME IInv, Restart
    PROVE  IInv'
<1>a. /\ Live' = {}
      /\ permits' = 0 /\ leaked' = 0
      /\ \A k \in Keys : inflight'[k] = None
    BY DEF Restart, Live, NoFuture
<1>b. request' = [r \in Requests |->
                     IF request[r].pc = "waiting"
                     THEN [request[r] EXCEPT !.pc = "answered", !.answer = "lost"]
                     ELSE request[r]]
    BY DEF Restart
<1>c. ASSUME NEW r \in Requests
      PROVE  /\ request'[r] \in [pc: {"new", "waiting", "answered"},
                                 key: Keys \cup {None}, answer: Answers \cup {None}]
             /\ request'[r].pc # "waiting"
             /\ request'[r].pc = "new" <=> request[r].pc = "new"
             /\ request'[r].key = request[r].key
  <2>1. request[r] \in [pc: {"new", "waiting", "answered"},
                        key: Keys \cup {None}, answer: Answers \cup {None}]
      BY DEF IInv, TypeOK
  <2>2. CASE request[r].pc = "waiting"
    <3>1. request'[r] = [pc |-> "answered", key |-> request[r].key, answer |-> "lost"]
        BY <1>b, <2>1, <2>2
    <3> QED
        BY <2>1, <2>2, <3>1 DEF Answers
  <2>3. CASE request[r].pc # "waiting"
      BY <1>b, <2>1, <2>3
  <2> QED
      BY <2>2, <2>3
<1>1. TypeOK'
  <2>1. request' \in [Requests -> [pc: {"new", "waiting", "answered"},
                                   key: Keys \cup {None},
                                   answer: Answers \cup {None}]]
      BY <1>b, <1>c
  <2>2. cached' \in [Keys -> Payloads \cup {None}]
      BY DEF Restart, IInv, TypeOK
  <2>3. /\ future' \in [Requests -> [pc: {"none", "running", "done"},
                                     result: Payloads \cup Exceptions \cup {None}]]
        /\ inflight' \in [Keys -> Requests \cup {None}]
      BY DEF Restart, NoFuture
  <2>4. restarts' \in 0 .. MaxRestarts
    <3>1. restarts \in 0 .. MaxRestarts /\ restarts < MaxRestarts /\ restarts' = restarts + 1
        BY DEF Restart, IInv, TypeOK
    <3> QED
        BY <3>1, SidecarAssumption
  <2>5. executor' \in Executors /\ pool' \in {"up", "broken"}
      BY DEF Restart, IInv, TypeOK
  <2>6. permits' \in 0 .. Capacity /\ leaked' \in 0 .. Capacity
      BY <1>a, SidecarAssumption
  <2>7. computed' \in [Keys -> SUBSET Payloads]
      BY DEF Restart, IInv, TypeOK
  <2> QED
      BY <2>1, <2>2, <2>3, <2>4, <2>5, <2>6, <2>7 DEF TypeOK
<1>2. FuturesHaveKeys' /\ OneAnalysisPerKey'
    BY <1>a, <1>c DEF FuturesHaveKeys, OneAnalysisPerKey, IInv
<1>3. IsFiniteSet(Live)' /\ PermitsAreAccounted'
    BY <1>a, FS_EmptySet DEF PermitsAreAccounted
<1>4. WaitersHaveAFuture'
    BY <1>a, <1>c DEF WaitersHaveAFuture
<1> QED
    BY <1>1, <1>2, <1>3, <1>4 DEF IInv

\* Every action keeps the books.
LEMMA NextIInv == IInv /\ [Next]_vars => IInv'
<1> SUFFICES ASSUME IInv, [Next]_vars PROVE IInv'
    OBVIOUS
<1>1. ASSUME NEW r \in Requests, NEW k \in Keys, Arrive(r, k) PROVE IInv'
  <2>1. CASE CacheHit(r, k)
    <3>1. cached[k] \in Answers
        BY <2>1, Types DEF CacheHit, Answers
    <3> QED
        BY <2>1, <3>1, AnsweredIInv DEF CacheHit
  <2>2. CASE Join(r, k)
      BY <2>2, AnsweredIInv DEF Join, Misses
  <2>3. CASE QueueFull(r, k)
      BY <2>3, AnsweredIInv DEF QueueFull, Submits, Misses, Answers
  <2>4. CASE SubmitRefused(r, k)
      BY <2>4, AnsweredIInv DEF SubmitRefused, Submits, Misses, HasRoom, Answers
  <2>5. CASE Submit(r, k)
    <3> DEFINE f == [pc |-> "running", result |-> None]
    <3>1. f \in [pc: {"running", "done"}, result: Payloads \cup Exceptions \cup {None}]
        OBVIOUS
    <3>2. future' = [future EXCEPT ![r] = f]
        BY <2>5 DEF Submit
    <3> HIDE DEF f
    <3> QED
        BY <2>5, <3>1, <3>2, Types, SubmitIInv DEF Submit
  <2>6. CASE SubmitInline(r, k)
    <3>1. PICK f \in [pc: {"running", "done"}, result: Payloads \cup Exceptions \cup {None}] :
              future' = [future EXCEPT ![r] = f]
        BY <2>6 DEF SubmitInline, Exceptions
    <3>2. computed' \in [Keys -> SUBSET Payloads]
        BY <2>6, Types DEF SubmitInline, Computes
    <3> QED
        BY <2>6, <3>1, <3>2, SubmitIInv DEF SubmitInline
  <2> QED
      BY <1>1, <2>1, <2>2, <2>3, <2>4, <2>5, <2>6 DEF Arrive
<1>2. ASSUME NEW r \in Requests, WorkerEnds(r) \/ Callbacks(r) PROVE IInv'
    BY <1>2, WorkerEndsIInv, CallbacksIInv
<1>3. ASSUME NEW r \in Requests, TimesOut(r) PROVE IInv'
  <2>1. request[r].key \in Keys
      BY <1>3 DEF TimesOut, IInv, FuturesHaveKeys
  <2> QED
      BY <1>3, <2>1, AnsweredIInv DEF TimesOut, Answers
<1>4. CASE PoolBreaks \/ \E k \in Keys : Evict(k)
    BY <1>4, EnvironmentIInv
<1>5. CASE Restart
    BY <1>5, RestartIInv
<1>6. CASE Quiet \/ UNCHANGED vars
  <2>1. Live' = Live
      BY <1>6 DEF Quiet, vars, Live
  <2> QED
      BY <1>6, <2>1 DEF Quiet, vars, IInv, TypeOK, FuturesHaveKeys, PermitsAreAccounted,
                        OneAnalysisPerKey, WaitersHaveAFuture
<1> QED
    BY <1>1, <1>2, <1>3, <1>4, <1>5, <1>6 DEF Next

-----------------------------------------------------------------------------
\* The books are kept in every reachable state.
THEOREM Invariance == Spec => []IInv
<1> QED
    BY InitIInv, NextIInv, PTL DEF Spec

\* Types are kept; in particular the limiter stays between zero and its capacity.
THEOREM TypeCorrect == Spec => []TypeOK
<1>1. IInv => TypeOK
    BY DEF IInv
<1> QED
    BY <1>1, Invariance, PTL

\* The limiter counts the analyses in flight and the calls a broken pool
\* refused, whoever timed out, joined or crashed.
THEOREM PermitsAreCounted == Spec => []PermitsAreAccounted
<1>1. IInv => PermitsAreAccounted
    BY DEF IInv
<1> QED
    BY <1>1, Invariance, PTL

\* No key is analysed twice at once, and none that the cache knows.
THEOREM NoKeyTwice == Spec => []OneAnalysisPerKey
<1>1. IInv => OneAnalysisPerKey
    BY DEF IInv
<1> QED
    BY <1>1, Invariance, PTL

\* Whoever waits, waits for an analysis that is in flight.
THEOREM NobodyWaitsForNothing == Spec => []WaitersHaveAFuture
<1>1. IInv => WaitersHaveAFuture
    BY DEF IInv
<1> QED
    BY <1>1, Invariance, PTL

-----------------------------------------------------------------------------
\* What a future brings back, its key has been analysed for.
FuturesWereComputed ==
    \A r \in Live : future[r].result \in Payloads => future[r].result \in computed[request[r].key]

\* No answer without a key.
AnswersHaveKeys ==
    \A r \in Requests : request[r].answer \in Payloads => request[r].key \in Keys

CInv == FuturesWereComputed /\ AnswersWereComputed /\ AnswersHaveKeys

\* Nothing is computed when the service starts, and nothing is known.
LEMMA InitCInv == Init => CInv
BY SidecarAssumption DEF Init, CInv, FuturesWereComputed, AnswersWereComputed,
   AnswersHaveKeys, Live, NoFuture, Answers

\* What was computed stays so: a step keeps the answers apart when every payload
\* it brings, to the cache, a future or a request, was computed for its key.
LEMMA ComputedStays ==
    ASSUME IInv, CInv,
           \A k \in Keys : /\ computed[k] \subseteq computed'[k]
                           /\ cached'[k] # None => cached'[k] \in computed'[k],
           \A r \in Requests :
               \/ request'[r] = request[r]
               \/ /\ request'[r].key \in Keys
                  /\ request'[r].answer \in Payloads =>
                        request'[r].answer \in computed'[request'[r].key],
           \A r \in Requests :
               \/ future'[r] = future[r] /\ (r \in Live => request'[r].key = request[r].key)
               \/ future'[r].result \in Payloads =>
                     future'[r].result \in computed'[request'[r].key]
    PROVE  CInv'
<1>a. \A k \in Keys : computed[k] \subseteq computed'[k]
    OBVIOUS
<1>1. ASSUME NEW r \in Requests, request'[r].answer \in Payloads
      PROVE  /\ request'[r].key \in Keys
             /\ request'[r].answer \in computed'[request'[r].key]
  <2>1. CASE request'[r] = request[r]
    <3>1. request[r].key \in Keys /\ request[r].answer \in computed[request[r].key]
        BY <1>1, <2>1 DEF CInv, AnswersWereComputed, AnswersHaveKeys
    <3> QED
        BY <1>a, <2>1, <3>1
  <2> QED
      BY <1>1, <2>1
<1>2. FuturesWereComputed'
  <2> SUFFICES ASSUME NEW r \in Requests, future'[r].pc # "none",
                      future'[r].result \in Payloads
               PROVE  future'[r].result \in computed'[request'[r].key]
      BY DEF FuturesWereComputed, Live
  <2>1. CASE future'[r] = future[r] /\ (r \in Live => request'[r].key = request[r].key)
    <3>1. r \in Live
        BY <2>1 DEF Live
    <3>2. request[r].key \in Keys
        BY <3>1 DEF IInv, FuturesHaveKeys, Live
    <3>3. future[r].result \in computed[request[r].key]
        BY <2>1, <3>1 DEF CInv, FuturesWereComputed
    <3> QED
        BY <1>a, <2>1, <3>1, <3>2, <3>3
  <2> QED
      BY <2>1
<1> QED
    BY <1>1, <1>2 DEF CInv, AnswersWereComputed, AnswersHaveKeys

\* A request is answered, or waits, and nothing else: only the cache gives it a
\* payload, and that was computed.
LEMMA ArriveCInv ==
    ASSUME IInv, CInv, NEW r \in Requests, NEW k \in Keys,
           Arrive(r, k) \/ (TimesOut(r) /\ k = request[r].key)
    PROVE  CInv'
<1> USE Types, SidecarAssumption
<1>a. \A l \in Keys : cached[l] # None => cached[l] \in computed[l]
    BY DEF CInv, AnswersWereComputed
<1>b. request[r].pc = "new" => r \notin Live
    BY DEF IInv, FuturesHaveKeys
<1>1. CASE SubmitInline(r, k)
  <2>1. PICK result \in Payloads \cup {"error"} :
            /\ future' = [future EXCEPT ![r] = [pc |-> "done", result |-> result]]
            /\ Computes(k, result)
      BY <1>1 DEF SubmitInline
  <2>2. /\ request' = [request EXCEPT ![r] = [pc |-> "waiting", key |-> k, answer |-> None]]
        /\ cached' = cached
      BY <1>1 DEF SubmitInline, Waits
  <2>3. \A l \in Keys : computed[l] \subseteq computed'[l]
      BY <2>1 DEF Computes
  <2>4. result \in Payloads => result \in computed'[k]
      BY <2>1 DEF Computes
  <2> QED
      BY <1>a, <2>1, <2>2, <2>3, <2>4, ComputedStays DEF Answers
<1>2. CASE ~SubmitInline(r, k)
  <2>1. PICK q : request' = [request EXCEPT ![r] = q] /\ q.key = k
                 /\ (q.answer \in Payloads => q.answer = cached[k] /\ cached[k] # None)
      BY <1>2 DEF Arrive, CacheHit, Join, QueueFull, Submit, SubmitRefused, TimesOut,
                  Answered, Waits, Answers, Payloads
  <2>2. UNCHANGED <<cached, computed>>
      BY <1>2 DEF Arrive, CacheHit, Join, QueueFull, Submit, SubmitRefused, TimesOut
  <2>3. /\ \A x \in Requests \ {r} : future'[x] = future[x]
        /\ \/ future'[r] = future[r]
           \/ future'[r].result = None
      BY <1>2 DEF Arrive, CacheHit, Join, QueueFull, Submit, SubmitRefused, TimesOut
  <2>4. r \in Live => k = request[r].key
      BY <1>b DEF Arrive, CacheHit, Join, QueueFull, Submit, SubmitInline, SubmitRefused,
                  Misses, Submits
  <2> QED
      BY <1>a, <2>1, <2>2, <2>3, <2>4, ComputedStays DEF Answers
<1> QED
    BY <1>1, <1>2

\* An analysis that returns is what makes a payload computed.
LEMMA WorkerEndsCInv ==
    ASSUME IInv, CInv, NEW r \in Requests, WorkerEnds(r)
    PROVE  CInv'
<1> USE Types
<1>1. PICK result \in Payloads \cup Exceptions :
          /\ future' = [future EXCEPT ![r] = [pc |-> "done", result |-> result]]
          /\ Computes(request[r].key, result)
    BY DEF WorkerEnds, Exceptions
<1>2. request[r].key \in Keys
    BY DEF WorkerEnds, IInv, FuturesHaveKeys, Live
<1>3. UNCHANGED <<request, cached>>
    BY DEF WorkerEnds
<1>4. /\ \A l \in Keys : computed[l] \subseteq computed'[l]
      /\ result \in Payloads => result \in computed'[request[r].key]
    BY <1>1, <1>2 DEF Computes
<1>5. \A l \in Keys : cached[l] # None => cached[l] \in computed[l]
    BY DEF CInv, AnswersWereComputed
<1> QED
    BY <1>1, <1>3, <1>4, <1>5, ComputedStays

\* The callbacks hand the result of a future to those who wait for its key, and
\* to no other key of the cache.
LEMMA CallbacksCInv ==
    ASSUME IInv, CInv, NEW r \in Requests, Callbacks(r)
    PROVE  CInv'
<1> USE Types, SidecarAssumption
<1>a. r \in Live
    BY DEF Callbacks, Live
<1>b. PICK k \in Keys : k = request[r].key
    BY <1>a DEF IInv, FuturesHaveKeys, Live
<1>c. future[r].result \in Payloads => future[r].result \in computed[k]
    BY <1>a, <1>b DEF CInv, FuturesWereComputed
<1>1. computed' = computed
    BY DEF Callbacks
<1>2. \A l \in Keys : cached'[l] # None => cached'[l] \in computed[l]
    BY <1>b, <1>c DEF Callbacks, Remember, CInv, AnswersWereComputed
<1>3. \A x \in Requests :
         \/ request'[x] = request[x]
         \/ /\ request'[x].key = k /\ request[x].key = k
            /\ request'[x].answer = future[r].result
    BY <1>b DEF Callbacks, WaitsFor
<1>4. \A x \in Requests : future'[x] = future[x] \/ future'[x].result = None
    BY DEF Callbacks, NoFuture
<1> QED
    BY <1>b, <1>c, <1>1, <1>2, <1>3, <1>4, ComputedStays DEF Answers

\* A restart keeps answers and, of the cache, what is on disk.
LEMMA RestartCInv ==
    ASSUME IInv, CInv, Restart
    PROVE  CInv'
<1> USE Types, SidecarAssumption
<1>1. UNCHANGED computed /\ \A k \in Keys : cached'[k] \in {cached[k], None}
    BY DEF Restart
<1>2. \A k \in Keys : cached'[k] # None => cached'[k] \in computed[k]
    BY <1>1 DEF CInv, AnswersWereComputed
<1>3. ASSUME NEW r \in Requests
      PROVE  \/ request'[r] = request[r]
             \/ request'[r].key \in Keys /\ request'[r].answer \notin Payloads
  <2>1. CASE request[r].pc = "waiting"
    <3>1. request'[r] = [request[r] EXCEPT !.pc = "answered", !.answer = "lost"]
        BY <2>1 DEF Restart
    <3>2. request'[r].key = request[r].key /\ request'[r].answer = "lost"
        BY <3>1
    <3>3. request[r].key \in Keys
        BY <2>1 DEF IInv, FuturesHaveKeys
    <3> QED
        BY <3>2, <3>3 DEF Payloads
  <2>2. CASE request[r].pc # "waiting"
      BY <2>2 DEF Restart
  <2> QED
      BY <2>1, <2>2
<1>4. \A r \in Requests : future'[r].result = None
    BY DEF Restart, NoFuture
<1> QED
    BY <1>1, <1>2, <1>3, <1>4, ComputedStays DEF Answers

\* Every action keeps the answers apart.
LEMMA NextCInv == IInv /\ CInv /\ [Next]_vars => CInv'
<1> SUFFICES ASSUME IInv, CInv, [Next]_vars PROVE CInv'
    OBVIOUS
<1>1. ASSUME NEW r \in Requests, NEW k \in Keys, Arrive(r, k) PROVE CInv'
    BY <1>1, ArriveCInv
<1>2. ASSUME NEW r \in Requests, WorkerEnds(r) \/ Callbacks(r) PROVE CInv'
    BY <1>2, WorkerEndsCInv, CallbacksCInv
<1>3. ASSUME NEW r \in Requests, TimesOut(r) PROVE CInv'
  <2>1. request[r].key \in Keys
      BY <1>3 DEF TimesOut, IInv, FuturesHaveKeys
  <2> QED
      BY <1>3, <2>1, ArriveCInv
<1>4. ASSUME NEW k \in Keys, Evict(k) PROVE CInv'
  <2>1. UNCHANGED <<request, future, computed>> /\ \A l \in Keys : cached'[l] \in {cached[l], None}
      BY <1>4, Types DEF Evict
  <2> QED
      BY <2>1 DEF CInv, FuturesWereComputed, AnswersWereComputed, AnswersHaveKeys, Live
<1>5. CASE Restart
    BY <1>5, RestartCInv
<1>6. CASE PoolBreaks \/ Quiet \/ UNCHANGED vars
  <2>1. UNCHANGED <<request, future, cached, computed>>
      BY <1>6 DEF PoolBreaks, Quiet, vars
  <2> QED
      BY <2>1 DEF CInv, FuturesWereComputed, AnswersWereComputed, AnswersHaveKeys, Live
<1> QED
    BY <1>1, <1>2, <1>3, <1>4, <1>5, <1>6 DEF Next

\* Whatever was joined, timed out, cached or read back after a restart, a payload
\* answers only a request for the key it was computed for, and no exception is
\* ever remembered as a payload.
THEOREM NothingIsMadeUp == Spec => []AnswersWereComputed
<1>1. CInv => AnswersWereComputed
    BY DEF CInv
<1> QED
    BY <1>1, InitCInv, NextCInv, Invariance, PTL DEF Spec
=============================================================================
