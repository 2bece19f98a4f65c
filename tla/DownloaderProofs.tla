-------------------------- MODULE DownloaderProofs --------------------------
(***************************************************************************)
(* batch_download, for any batch, number of attempts and size of pools:    *)
(* what becomes of a package that an attempt has left behind.              *)
(***************************************************************************)
EXTENDS Downloader, TLAPS

Failures == {"http_failed", "store_failed"}
Reuses   == {"reuse", "announced", "reuse_failed"}
Done     == {"ok", "dumped", "closed", "busy"}

-----------------------------------------------------------------------------
(* The inductive invariant.                                                *)

\* An attempt has only what failed in those before it.
Retried == \A k \in Packages : \A q, r \in Attempts :
    q < r /\ stage[r][k] # "none" => stage[q][k] \in Failures

\* The attempts to come have not begun; the first one has the whole batch.
Begun == \A k \in Packages :
    /\ \A r \in Attempts : attempt < r => stage[r][k] = "none"
    /\ stage[0][k] # "none"

\* What is reused is what the TOC had from the beginning.
Reused == \A k \in Packages :
    /\ k \in Known => stage[0][k] \in Reuses
    /\ \A r \in Attempts : stage[r][k] \in Reuses => k \in Known

FailedInv ==
    /\ pc # "err" => failed = {}
    /\ \A k \in failed : k \notin Known /\ \A r \in Attempts : stage[r][k] \in {"none"} \cup Failures

\* What the handlers already awaited have left of the current attempt.
Awaited == \A k \in Packages :
    /\ pc \notin {"http", "err"} => stage[attempt][k] \notin HttpStages \cup {"http_failed"}
    /\ pc \in {"toc", "reuse"} \cup Done =>
         stage[attempt][k] \notin MapStages \cup StoreStages \cup {"store_failed"}
    /\ pc \in {"reuse"} \cup Done => stage[attempt][k] # "result"
    /\ pc \in Done => stage[attempt][k] \notin {"reuse", "reuse_failed"}

\* Without a failed download nothing drops out between two attempts.
Tracked == (\A r \in Attempts, k \in Packages : stage[r][k] # "http_failed") =>
    \A k \in Packages :
        \/ InBucket(k)
        \/ pc # "err" /\ stage[attempt][k] # "none"
        \/ pc = "err" /\ k \in failed

Dumped == attempt = 0 => pc # "busy" /\ (pc \in {"dumped", "closed"} => dump = Packages)

DownInv == TypeOK /\ Retried /\ Begun /\ Reused /\ FailedInv /\ Awaited /\ Tracked /\ Dumped

LEMMA AttemptsNat == Attempts \subseteq Nat /\ 0 \in Attempts
BY DownloaderAssumption DEF Attempts

LEMMA DownInit == Init => DownInv
<1> SUFFICES ASSUME Init PROVE DownInv
  OBVIOUS
<1> USE DEF Init, HttpStages, MapStages, StoreStages, EndStages, Failures, Reuses, Done
<1>1. attempt = 0 /\ pc = "http" /\ failed = {} /\ dump = {}
  OBVIOUS
<1>2. \A r \in Attempts, k \in Packages :
        stage[r][k] = IF r # 0 THEN "none" ELSE IF k \in Known THEN "reuse" ELSE "queued"
  OBVIOUS
<1>3. TypeOK
  BY AttemptsNat DEF TypeOK
<1>4. Retried /\ Begun /\ Reused
  BY <1>1, <1>2, AttemptsNat DEF Retried, Begun, Reused
<1>5. FailedInv /\ Awaited /\ Tracked /\ Dumped
  BY <1>1, <1>2, AttemptsNat DEF FailedInv, Awaited, Tracked, Dumped
<1> QED BY <1>3, <1>4, <1>5 DEF DownInv

-----------------------------------------------------------------------------
(* A step of a handler moves one package of one attempt one stage on.      *)

Arcs == {<<"queued", "fetching">>, <<"fetching", "fetched">>, <<"fetching", "http_failed">>,
         <<"fetched", "response">>, <<"response", "mapping">>, <<"mapping", "request">>,
         <<"request", "dispatch">>, <<"dispatch", "storing">>, <<"storing", "stored">>,
         <<"storing", "store_failed">>, <<"stored", "result">>, <<"result", "recorded">>,
         <<"reuse", "announced">>, <<"reuse", "reuse_failed">>}

LEMMA HandlersMove ==
    ASSUME NEW r \in Attempts,
           HttpHandler(r) \/ MapHandler(r) \/ StoreHandler(r) \/ TocHandler(r) \/ ReuseHandler(r)
    PROVE  \E k \in Packages : \E a \in Arcs : Move(r, k, a[1], a[2])
<1>1. ASSUME NEW k \in Packages, NEW f, NEW t, <<f, t>> \in Arcs, Move(r, k, f, t)
      PROVE  \E a \in Arcs : Move(r, k, a[1], a[2])
  <2>1. <<f, t>>[1] = f /\ <<f, t>>[2] = t
    OBVIOUS
  <2> QED BY <1>1, <2>1, Zenon
<1>2. CASE HttpHandler(r)
  <2>1. PICK k \in Packages : Fetch(r, k) \/ FetchDone(r, k) \/ FetchFail(r, k) \/ Respond(r, k)
    BY <1>2 DEF HttpHandler
  <2> QED BY <2>1, <1>1 DEF Fetch, FetchDone, FetchFail, Respond, Arcs
<1>3. CASE MapHandler(r)
  <2>1. PICK k \in Packages : TakeResponse(r, k) \/ SendRequest(r, k)
    BY <1>3 DEF MapHandler
  <2> QED BY <2>1, <1>1 DEF TakeResponse, SendRequest, Arcs
<1>4. CASE StoreHandler(r)
  <2>1. PICK k \in Packages : TakeRequest(r, k) \/ Store(r, k) \/ StoreDone(r, k) \/ StoreFail(r, k) \/ SendResult(r, k)
    BY <1>4 DEF StoreHandler
  <2> QED BY <2>1, <1>1 DEF TakeRequest, Store, StoreDone, StoreFail, SendResult, Arcs
<1>5. CASE TocHandler(r) \/ ReuseHandler(r)
  <2>1. PICK k \in Packages : Record(r, k) \/ Announce(r, k) \/ ReuseFail(r, k)
    BY <1>5 DEF TocHandler, ReuseHandler
  <2> QED BY <2>1, <1>1 DEF Record, Announce, ReuseFail, Arcs
<1> QED BY <1>2, <1>3, <1>4, <1>5

\* Who has found no executor, and who sleeps, are handlers of attempts.
Sleepers == late \subseteq Pools \X Attempts /\ asleep \subseteq Pools \X Attempts

LEMMA HandlersSleep ==
    ASSUME Sleepers, NEW r \in Attempts,
           HttpHandler(r) \/ MapHandler(r) \/ StoreHandler(r) \/ TocHandler(r) \/ ReuseHandler(r)
    PROVE  Sleepers'
<1>1. Awake \/ (\E p \in Pools : GiveBack(p))
  BY DEF HttpHandler, Fetch, FetchDone, FetchFail, Respond, MapHandler, TakeResponse, SendRequest,
         StoreHandler, TakeRequest, Store, StoreDone, StoreFail, SendResult, TocHandler, Record,
         ReuseHandler, Announce, ReuseFail, Pools
<1> QED BY <1>1 DEF Awake, GiveBack, Sleepers

LEMMA NextMove ==
    ASSUME DownInv, Sleepers', NEW r \in Attempts, NEW k \in Packages, NEW a \in Arcs, Move(r, k, a[1], a[2])
    PROVE  DownInv'
<1> DEFINE f == a[1]
           t == a[2]
<1>i. TypeOK /\ Retried /\ Begun /\ Reused /\ FailedInv /\ Awaited /\ Tracked /\ Dumped
  BY DEF DownInv
<1>n. Attempts \subseteq Nat /\ 0 \in Attempts
  BY AttemptsNat
<1>0. /\ stage[r][k] = f /\ stage' = [stage EXCEPT ![r][k] = t]
      /\ UNCHANGED <<attempt, pc, failed, dump>> /\ <<f, t>> \in Arcs
  BY DEF Move, Arcs
<1> HIDE DEF f, t
<1>1. /\ stage'[r][k] = t
      /\ \A q \in Attempts, j \in Packages : ~(q = r /\ j = k) => stage'[q][j] = stage[q][j]
  BY <1>0, <1>i DEF TypeOK
<1>2. /\ f # "none" /\ t # "none" /\ f \notin Failures
      /\ f \in Reuses <=> t \in Reuses
  BY <1>0 DEF Arcs, Failures, Reuses
<1>3. TypeOK'
  <2>1. t \in {"none", "reuse", "result"} \cup HttpStages \cup MapStages \cup StoreStages \cup EndStages
    BY <1>0 DEF Arcs, HttpStages, MapStages, StoreStages, EndStages
  <2> QED BY <2>1, <1>0, <1>i DEF TypeOK, Sleepers
<1>4. Retried'
  BY <1>0, <1>1, <1>2, <1>i DEF Retried
<1>5. Begun'
  BY <1>0, <1>1, <1>2, <1>i, <1>n DEF Begun
<1>6. Reused'
  BY <1>0, <1>1, <1>2, <1>i, <1>n DEF Reused
<1>7. FailedInv'
  BY <1>0, <1>1, <1>2, <1>i DEF FailedInv
<1>8. Awaited'
  <2>1. attempt \in Attempts
    BY <1>i DEF TypeOK
  <2>2. /\ t \in HttpStages \cup {"http_failed"} => f \in HttpStages
        /\ t \in MapStages \cup StoreStages \cup {"store_failed"} => f \in HttpStages \cup MapStages \cup StoreStages
        /\ t = "result" => f \in StoreStages
        /\ t \in {"reuse", "reuse_failed"} => f = "reuse"
    BY <1>0 DEF Arcs, HttpStages, MapStages, StoreStages
  <2>3. \A j \in Packages : stage'[attempt][j] = stage[attempt][j]
                             \/ (stage[attempt][j] = f /\ stage'[attempt][j] = t)
    BY <2>1, <1>0, <1>1
  <2> QED BY <2>2, <2>3, <1>0, <1>i DEF Awaited, Done
<1>9. Tracked'
  <2>1. attempt \in Attempts
    BY <1>i DEF TypeOK
  <2>2. /\ t # "http_failed" => f # "http_failed"
        /\ f \in {"stored", "result", "recorded"} => t \in {"stored", "result", "recorded"}
    BY <1>0 DEF Arcs
  <2>3. \A j \in Packages : InBucket(j) => InBucket(j)'
    BY <1>0, <1>1, <2>2 DEF InBucket
  <2>4. (\A q \in Attempts, j \in Packages : stage'[q][j] # "http_failed")
          => \A q \in Attempts, j \in Packages : stage[q][j] # "http_failed"
    BY <1>0, <1>1, <2>2
  <2>5. \A j \in Packages : stage[attempt][j] # "none" => stage'[attempt][j] # "none"
    BY <1>1, <1>2, <2>1
  <2> QED BY <2>3, <2>4, <2>5, <1>0, <1>i DEF Tracked
<1>10. Dumped'
  BY <1>0, <1>i DEF Dumped
<1> QED BY <1>3, <1>4, <1>5, <1>6, <1>7, <1>8, <1>9, <1>10 DEF DownInv

-----------------------------------------------------------------------------
(* The caller.                                                             *)

\* What has failed in the current attempt is nowhere else.
LEMMA FailedNowhere ==
    ASSUME DownInv, NEW k \in Packages, stage[attempt][k] \in Failures
    PROVE  /\ k \notin Known /\ k \notin Recorded
           /\ \A r \in Attempts : stage[r][k] \in {"none"} \cup Failures
<1>1. attempt \in Attempts /\ Attempts \subseteq Nat /\ 0 \in Attempts
  BY AttemptsNat DEF DownInv, TypeOK
<1>2. ASSUME NEW r \in Attempts PROVE stage[r][k] \in {"none"} \cup Failures
  <2>1. r < attempt => stage[r][k] \in Failures
    BY <1>1 DEF DownInv, Retried, Failures
  <2>2. attempt < r => stage[r][k] = "none"
    BY <1>1 DEF DownInv, Begun
  <2> QED BY <1>1, <2>1, <2>2
<1>3. k \notin Known
  BY <1>1, <1>2 DEF DownInv, Begun, Reused, Failures, Reuses
<1> QED BY <1>2, <1>3 DEF Recorded, Failures

LEMMA RetryInv ==
    ASSUME DownInv, NEW S \in SUBSET Packages, RetryOrFail(S),
           pc \in {"http", "store"},
           \A k \in S : stage[attempt][k] \in Failures,
           (\A r \in Attempts, k \in Packages : stage[r][k] # "http_failed")
             => \A k \in Packages \ S : InBucket(k)
    PROVE  DownInv'
<1>i. TypeOK /\ Retried /\ Begun /\ Reused /\ FailedInv /\ Awaited /\ Tracked /\ Dumped
  BY DEF DownInv
<1>n. Attempts \subseteq Nat /\ 0 \in Attempts /\ attempt \in Attempts
  BY AttemptsNat, <1>i DEF TypeOK
<1>s. \A k \in S : /\ k \notin Known /\ k \notin Recorded
                   /\ \A r \in Attempts : stage[r][k] \in {"none"} \cup Failures
  BY FailedNowhere
<1>1. CASE attempt < MaxRetry
  <2> DEFINE n == attempt + 1
  <2>0. /\ n \in Attempts /\ n # 0 /\ attempt < n /\ \A q \in Attempts : q < n => q <= attempt
        /\ \A q \in Attempts : n < q => attempt < q
    BY <1>1, <1>n, DownloaderAssumption DEF Attempts
  <2>1. /\ attempt' = n /\ stage' = [stage EXCEPT ![n] = Partition(S)] /\ pc' = "http"
        /\ UNCHANGED <<failed, dump, late, asleep>>
    BY <1>1, <1>n DEF RetryOrFail
  <2>2. Partition(S) = [k \in Packages |-> IF k \in S THEN "queued" ELSE "none"]
    BY <1>s DEF Partition
  <2> HIDE DEF n
  <2>3. /\ \A k \in Packages : stage'[n][k] = IF k \in S THEN "queued" ELSE "none"
        /\ \A q \in Attempts : q # n => stage'[q] = stage[q]
    BY <2>0, <2>1, <2>2, <1>i DEF TypeOK
  <2>4. TypeOK'
    BY <2>0, <2>1, <2>2, <1>i DEF TypeOK, HttpStages
  <2>5. Retried'
    <3> SUFFICES ASSUME NEW k \in Packages, NEW q \in Attempts, NEW r \in Attempts,
                        q < r, stage'[r][k] # "none"
                 PROVE  stage'[q][k] \in Failures
      BY DEF Retried
    <3>1. CASE r = n
      <4>1. k \in S /\ q # n /\ q <= attempt
        BY <3>1, <2>0, <2>3, <1>n
      <4>2. stage[q][k] \in Failures
        BY <4>1, <1>i, <1>n DEF Retried, Failures
      <4> QED BY <4>1, <4>2, <2>3
    <3>2. CASE r # n
      <4>1. stage[r][k] # "none" /\ stage[q][k] \in Failures
        BY <3>2, <2>3, <1>i DEF Retried
      <4>2. r <= attempt /\ q # n
        BY <4>1, <1>i, <1>n, <2>0 DEF Begun
      <4> QED BY <4>1, <4>2, <2>3
    <3> QED BY <3>1, <3>2
  <2>6. Begun'
    BY <2>0, <2>1, <2>3, <1>i, <1>n DEF Begun
  <2>7. Reused'
    <3>1. \A k \in Packages : stage'[n][k] \notin Reuses
      BY <2>3 DEF Reuses
    <3> QED BY <3>1, <2>0, <2>3, <1>i, <1>n DEF Reused
  <2>8. failed = {} /\ FailedInv'
    BY <2>1, <1>i DEF FailedInv
  <2>9. Awaited' /\ Dumped'
    BY <2>0, <2>1 DEF Awaited, Dumped, Done
  <2>10. Tracked'
    <3>1. \A k \in Packages : InBucket(k) => InBucket(k)'
      <4> SUFFICES ASSUME NEW k \in Packages, NEW r \in Attempts,
                          stage[r][k] \in {"stored", "result", "recorded"}
                   PROVE  \E q \in Attempts : stage'[q][k] \in {"stored", "result", "recorded"}
        BY DEF InBucket
      <4>1. r # n
        BY <1>i, <2>0 DEF Begun
      <4> QED BY <4>1, <2>3
    <3>2. (\A r \in Attempts, k \in Packages : stage'[r][k] # "http_failed")
            => \A r \in Attempts, k \in Packages : stage[r][k] # "http_failed"
      <4>1. \A k \in Packages : stage[n][k] # "http_failed"
        BY <1>i, <2>0 DEF Begun
      <4> QED BY <4>1, <2>3
    <3>3. \A k \in S : stage'[attempt'][k] # "none"
      BY <2>1, <2>3
    <3> QED BY <3>1, <3>2, <3>3, <2>1 DEF Tracked
  <2> QED BY <2>4, <2>5, <2>6, <2>7, <2>8, <2>9, <2>10 DEF DownInv
<1>2. CASE attempt >= MaxRetry
  <2>1. pc' = "err" /\ failed' = S /\ UNCHANGED <<stage, attempt, dump, late, asleep>>
    BY <1>2, <1>n, DownloaderAssumption DEF RetryOrFail
  <2>2. TypeOK' /\ Retried' /\ Begun' /\ Reused' /\ Awaited' /\ Dumped'
    BY <2>1, <1>i DEF TypeOK, Retried, Begun, Reused, Awaited, Dumped, Done
  <2>3. FailedInv'
    BY <2>1, <1>s DEF FailedInv
  <2>4. Tracked'
    BY <2>1, <1>i DEF Tracked, InBucket
  <2> QED BY <2>2, <2>3, <2>4 DEF DownInv
<1> QED BY <1>1, <1>2, <1>n, DownloaderAssumption

LEMMA MainInv == DownInv /\ Main => DownInv'
<1> SUFFICES ASSUME DownInv, Main PROVE DownInv'
  OBVIOUS
<1>i. TypeOK /\ Retried /\ Begun /\ Reused /\ FailedInv /\ Awaited /\ Tracked /\ Dumped
  BY DEF DownInv
<1>n. Attempts \subseteq Nat /\ 0 \in Attempts /\ attempt \in Attempts
  BY AttemptsNat, <1>i DEF TypeOK
<1>t. \A k \in Packages : stage[attempt][k] \in {"none", "reuse", "result"} \cup HttpStages
                            \cup MapStages \cup StoreStages \cup EndStages
  BY <1>i, <1>n DEF TypeOK
\* Proceed keeps what does not speak of pc.
<1>p. ASSUME NEW l \in {"http", "map", "store", "toc", "reuse", "ok", "err", "closed", "busy"}, Proceed(l),
             Awaited', Dumped', failed = {},
             l = "err" /\ (\A r \in Attempts, k \in Packages : stage[r][k] # "http_failed")
               => \A k \in Packages : InBucket(k)
      PROVE  DownInv'
  <2>1. pc' = l /\ UNCHANGED <<stage, attempt, failed, dump, late, asleep>>
    BY <1>p DEF Proceed
  <2>2. TypeOK' /\ Retried' /\ Begun' /\ Reused' /\ FailedInv'
    BY <2>1, <1>p, <1>i DEF TypeOK, Retried, Begun, Reused, FailedInv
  <2>3. Tracked'
    BY <2>1, <1>p, <1>i DEF Tracked, InBucket
  <2> QED BY <2>2, <2>3, <1>p DEF DownInv
<1>o. /\ HttpOver(attempt) => \A k \in Packages : stage[attempt][k] \notin HttpStages
      /\ StoreOver(attempt) => \A k \in Packages : stage[attempt][k] \notin HttpStages \cup MapStages \cup StoreStages
      /\ TocOver(attempt) => \A k \in Packages : stage[attempt][k] # "result"
      /\ \A x : At(attempt, {x}) = {} <=> \A k \in Packages : stage[attempt][k] # x
  BY DEF HttpOver, MapOver, StoreOver, TocOver, At
<1>1. CASE AwaitHttp
  <2>1. CASE At(attempt, {"http_failed"}) = {} /\ Proceed("map")
    <3>1. Awaited' /\ Dumped' /\ failed = {}
      BY <1>1, <2>1, <1>o, <1>i DEF AwaitHttp, Proceed, Awaited, Dumped, FailedInv, Done
    <3> QED BY <2>1, <3>1, <1>p
  <2>2. CASE At(attempt, {"http_failed"}) # {} /\ RetryOrFail(At(attempt, {"http_failed"}))
    <3>1. PICK k \in Packages : stage[attempt][k] = "http_failed"
      BY <2>2 DEF At
    <3>2. At(attempt, {"http_failed"}) \in SUBSET Packages
          /\ \A j \in At(attempt, {"http_failed"}) : stage[attempt][j] \in Failures
      BY DEF At, Failures
    <3> QED BY <1>1, <2>2, <3>1, <3>2, <1>n, RetryInv DEF AwaitHttp
  <2> QED BY <1>1, <2>1, <2>2 DEF AwaitHttp
<1>2. CASE AwaitMap
  <2>1. Awaited' /\ Dumped' /\ failed = {} /\ Proceed("store")
    BY <1>2, <1>i DEF AwaitMap, Proceed, Awaited, Dumped, FailedInv, Done
  <2> QED BY <2>1, <1>p
\* A package that has left the pipeline is in its bucket, unless it failed.
<1>b. ASSUME NEW k \in Packages, stage[attempt][k] # "none",
             stage[attempt][k] \notin HttpStages \cup MapStages \cup StoreStages \cup {"http_failed", "store_failed"}
      PROVE  InBucket(k)
  <2>1. CASE stage[attempt][k] \in Reuses
    BY <2>1, <1>i, <1>n DEF Reused, InBucket
  <2>2. CASE stage[attempt][k] \notin Reuses
    BY <2>2, <1>b, <1>t, <1>n DEF InBucket, Reuses, EndStages
  <2> QED BY <2>1, <2>2
<1>3. CASE AwaitStore
  <2>1. CASE At(attempt, {"store_failed"}) = {} /\ Proceed("toc")
    <3>1. Awaited' /\ Dumped' /\ failed = {}
      BY <1>3, <2>1, <1>o, <1>i DEF AwaitStore, Proceed, Awaited, Dumped, FailedInv, Done
    <3> QED BY <2>1, <3>1, <1>p
  <2>2. CASE At(attempt, {"store_failed"}) # {} /\ RetryOrFail(At(attempt, {"store_failed"}))
    <3> DEFINE S == At(attempt, {"store_failed"})
    <3>1. S \in SUBSET Packages /\ \A j \in S : stage[attempt][j] \in Failures
      BY DEF At, Failures
    <3>2. ASSUME \A r \in Attempts, k \in Packages : stage[r][k] # "http_failed", NEW k \in Packages \ S
          PROVE  InBucket(k)
      <4>1. stage[attempt][k] \notin HttpStages \cup MapStages \cup StoreStages \cup {"http_failed", "store_failed"}
        BY <1>3, <3>2, <1>o, <1>n DEF AwaitStore, At
      <4>2. InBucket(k) \/ stage[attempt][k] # "none"
        BY <1>3, <3>2, <1>i DEF Tracked, AwaitStore
      <4> QED BY <4>1, <4>2, <1>b
    <3> QED BY <1>3, <2>2, <3>1, <3>2, RetryInv DEF AwaitStore
  <2> QED BY <1>3, <2>1, <2>2 DEF AwaitStore
<1>4. CASE AwaitToc
  <2>1. Awaited' /\ Dumped' /\ failed = {} /\ Proceed("reuse")
    BY <1>4, <1>o, <1>i DEF AwaitToc, Proceed, Awaited, Dumped, FailedInv, Done
  <2> QED BY <2>1, <1>p
<1>5. CASE AwaitReuse
  <2>0. pc = "reuse" /\ failed = {} /\ ReuseOver(attempt)
    BY <1>5, <1>i DEF AwaitReuse, FailedInv
  <2>1. CASE At(attempt, {"reuse_failed"}) = {}
    <3>1. Proceed("ok") /\ At(attempt, {"reuse"}) = {}
      BY <1>5, <2>1 DEF AwaitReuse, ReuseOver
    <3>2. Awaited' /\ Dumped'
      BY <2>0, <2>1, <3>1, <1>o, <1>i DEF Proceed, Awaited, Dumped, Done
    <3> QED BY <2>0, <3>1, <3>2, <1>p
  <2>2. CASE At(attempt, {"reuse_failed"}) # {}
    <3>1. Proceed("err")
      BY <1>5, <2>2 DEF AwaitReuse
    <3>2. Awaited' /\ Dumped'
      BY <3>1 DEF Proceed, Awaited, Dumped, Done
    <3>3. ASSUME \A r \in Attempts, k \in Packages : stage[r][k] # "http_failed", NEW k \in Packages
          PROVE  InBucket(k)
      <4>1. InBucket(k) \/ stage[attempt][k] # "none"
        BY <2>0, <3>3, <1>i DEF Tracked
      <4>2. stage[attempt][k] \notin HttpStages \cup MapStages \cup StoreStages \cup {"http_failed", "store_failed"}
        BY <2>0, <1>i DEF Awaited
      <4> QED BY <4>1, <4>2, <1>b
    <3> QED BY <2>0, <3>1, <3>2, <3>3, <1>p
  <2> QED BY <2>1, <2>2
\* After a success in the first attempt.
<1>f. ASSUME attempt = 0, pc \in Done, NEW k \in Packages
      PROVE  /\ stage[0][k] \in {"recorded", "announced"} /\ k \in Recorded
             /\ \A r \in Attempts : r # 0 => stage[r][k] = "none"
  <2>1. stage[0][k] \in {"recorded", "announced"}
    BY <1>f, <1>i, <1>t DEF Awaited, Begun, Done, EndStages
  <2>2. k \in Recorded
    BY <2>1, <1>i, <1>n DEF Recorded, Reused, Reuses
  <2>3. ASSUME NEW r \in Attempts, r # 0 PROVE stage[r][k] = "none"
    BY <1>f, <1>i, <1>n, <2>3 DEF Begun
  <2> QED BY <2>1, <2>2, <2>3
<1>6. CASE Dump
  <2>1. pc = "ok" /\ dump' = Recorded /\ pc' = "dumped" /\ UNCHANGED <<stage, attempt, failed, late, asleep>>
    BY <1>6 DEF Dump
  <2>2. Recorded \subseteq Packages
    BY DownloaderAssumption DEF Recorded
  <2>3. TypeOK' /\ Retried' /\ Begun' /\ Reused' /\ FailedInv' /\ Awaited'
    BY <2>1, <2>2, <1>i DEF TypeOK, Retried, Begun, Reused, FailedInv, Awaited, Done
  <2>4. Tracked'
    BY <2>1, <1>i DEF Tracked, InBucket
  <2>5. Dumped'
    BY <2>1, <2>2, <1>f DEF Dumped, Done
  <2> QED BY <2>3, <2>4, <2>5 DEF DownInv
<1>7. CASE Shutdown
  <2>1. pc = "dumped" /\ failed = {} /\ Proceed(IF StoreShared THEN "busy" ELSE "closed")
    BY <1>7, <1>i DEF Shutdown, FailedInv
  <2>2. attempt = 0 => ~StoreShared
    <3> SUFFICES ASSUME attempt = 0, NEW r \in Attempts PROVE StoreOver(r) /\ ReuseOver(r)
      BY DEF StoreShared
    <3>1. \A k \in Packages : stage[r][k] \in {"none", "recorded", "announced"}
      BY <2>1, <1>f DEF Done
    <3> QED BY <3>1 DEF StoreOver, ReuseOver, MapOver, HttpOver, At, HttpStages, MapStages, StoreStages
  <2>3. Awaited'
    BY <2>1, <1>i DEF Proceed, Awaited, Done
  <2>4. Dumped'
    BY <2>1, <2>2, <1>i DEF Proceed, Dumped
  <2> QED BY <2>1, <2>3, <2>4, <1>p
<1> QED BY <1>1, <1>2, <1>3, <1>4, <1>5, <1>6, <1>7 DEF Main

LEMMA DownNext == DownInv /\ [Next]_vars => DownInv'
<1> SUFFICES ASSUME DownInv, [Next]_vars PROVE DownInv'
  OBVIOUS
<1>1. CASE Main
  BY <1>1, MainInv
<1>2. ASSUME NEW r \in Attempts,
             HttpHandler(r) \/ MapHandler(r) \/ StoreHandler(r) \/ TocHandler(r) \/ ReuseHandler(r)
      PROVE  DownInv'
  <2>1. Sleepers'
    BY <1>2, HandlersSleep DEF DownInv, TypeOK, Sleepers
  <2> QED BY <1>2, <2>1, HandlersMove, NextMove
<1>4. ASSUME NEW r \in Attempts, NEW p \in Pools, FindNone(p, r) \/ WaitFree(p, r) PROVE DownInv'
  <2>1. UNCHANGED <<stage, attempt, pc, failed, dump>>
    BY <1>4 DEF FindNone, WaitFree
  <2>2. late' \subseteq Pools \X Attempts /\ asleep' \subseteq Pools \X Attempts
    BY <1>4 DEF FindNone, WaitFree, DownInv, TypeOK
  <2>3. TypeOK'
    BY <2>1, <2>2 DEF DownInv, TypeOK
  <2> QED BY <2>1, <2>3 DEF DownInv, Retried, Begun, Reused, FailedInv, Awaited, Tracked, Dumped, InBucket
<1>3. CASE UNCHANGED vars
  BY <1>3 DEF vars, DownInv, TypeOK, Retried, Begun, Reused, FailedInv, Awaited, Tracked, Dumped, InBucket
<1> QED BY <1>1, <1>2, <1>3, <1>4 DEF Next

-----------------------------------------------------------------------------
LEMMA SpecInv == Spec => []DownInv
BY DownInit, DownNext, PTL DEF Spec

(* Whatever the retries leave running behind them, a package is on its way *)
(* in one attempt only, those the error names stay out of the TOC, and     *)
(* none gets lost unless a download failed (download.rs batch_download).   *)
THEOREM PackagesStoredOnce == Spec => []StoredOnce
<1>1. ASSUME DownInv PROVE StoredOnce
  <2>i. TypeOK /\ Retried /\ Begun /\ FailedInv /\ Awaited /\ Tracked
    BY <1>1 DEF DownInv
  <2>n. Attempts \subseteq Nat
    BY AttemptsNat
  <2>1. OneCopy
    BY <2>i, <2>n DEF OneCopy, Retried, Failures
  <2>2. FailedStayOut
    BY <2>i DEF FailedStayOut, FailedInv, Failures, Recorded, TypeOK
  <2>3. NothingLost
    <3> SUFFICES ASSUME \A r \in Attempts : At(r, {"http_failed"}) = {}
                 PROVE  /\ Succeeded => \A k \in Packages : InBucket(k)
                        /\ pc = "err" => \A k \in Packages \ failed : InBucket(k)
      BY DEF NothingLost
    <3>1. \A r \in Attempts, k \in Packages : stage[r][k] # "http_failed"
      BY DEF At
    <3>2. pc = "err" => \A k \in Packages \ failed : InBucket(k)
      BY <3>1, <2>i DEF Tracked
    <3>3. ASSUME Succeeded, NEW k \in Packages PROVE InBucket(k)
      <4>1. attempt \in Attempts /\ pc # "err"
        BY <2>i, <3>3 DEF TypeOK, Succeeded
      <4>2. InBucket(k) \/ stage[attempt][k] # "none"
        BY <3>1, <2>i, <4>1 DEF Tracked
      <4>3. stage[attempt][k] \notin HttpStages \cup MapStages \cup StoreStages \cup {"http_failed", "store_failed"}
        BY <3>3, <2>i DEF Awaited, Succeeded, Done
      <4>4. stage[attempt][k] \in Reuses => k \in Known
        BY <1>1, <4>1 DEF DownInv, Reused
      <4>5. stage[attempt][k] \in {"none", "reuse", "result"} \cup HttpStages
              \cup MapStages \cup StoreStages \cup EndStages
        BY <2>i, <4>1 DEF TypeOK
      <4>6. stage[attempt][k] \in {"none", "result", "recorded"} \cup Reuses
        BY <4>3, <4>5 DEF EndStages, Reuses
      <4> QED BY <4>1, <4>2, <4>4, <4>6 DEF InBucket
    <3> QED BY <3>2, <3>3
  <2> QED BY <2>i, <2>1, <2>2, <2>3 DEF StoredOnce
<1> QED BY SpecInv, <1>1, PTL

(* A batch that needed no retry keeps its promise: Ok means that the TOC   *)
(* and the dump have every package, and that nobody holds the store when   *)
(* it is shut down (download.rs batch_download, shutdown).                 *)
THEOREM FirstAttemptIsWhole == Spec => []FirstTry
<1>1. ASSUME DownInv PROVE FirstTry
  <2> SUFFICES ASSUME attempt = 0
               PROVE  /\ OkMeansRecorded
                      /\ pc \in {"dumped", "closed", "busy"} => dump = Packages
                      /\ pc # "busy"
    BY DEF FirstTry
  <2>1. pc # "busy" /\ (pc \in {"dumped", "closed"} => dump = Packages)
    BY <1>1 DEF DownInv, Dumped
  <2>2. ASSUME Succeeded, NEW k \in Packages PROVE k \in Recorded
    <3>1. stage[0][k] \in {"none", "reuse", "result"} \cup HttpStages
              \cup MapStages \cup StoreStages \cup EndStages
      BY <1>1, AttemptsNat DEF DownInv, TypeOK
    <3>2. stage[0][k] \in {"recorded", "announced"}
      BY <1>1, <2>2, <3>1 DEF DownInv, Awaited, Begun, Succeeded, Done, EndStages
    <3> QED BY <1>1, <3>2, AttemptsNat DEF DownInv, Reused, Reuses, Recorded
  <2>3. Recorded \subseteq Packages
    BY DownloaderAssumption DEF Recorded
  <2> QED BY <2>1, <2>2, <2>3 DEF OkMeansRecorded
<1> QED BY SpecInv, <1>1, PTL
=============================================================================
