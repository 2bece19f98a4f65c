----------------------------- MODULE Downloader -----------------------------
(***************************************************************************)
(* Downloader::batch_download (downloader/src/download.rs): attempts to    *)
(* download and store a batch of packages, each attempt a pipeline of five *)
(* spawned tasks joined by three bounded channels:                         *)
(*                                                                         *)
(*   request_handler -> map_handler -> store_handler -> toc_store_handler  *)
(*   (HTTP pool)                       (bucket pool)     and reuse_handler *)
(*                                                                         *)
(* The caller awaits the five handlers in that order and leaves at the     *)
(* first error, without stopping the handlers it has not awaited: a failed *)
(* attempt's pipeline goes on beside the next attempt's.                   *)
(*                                                                         *)
(* Of the two pools only what create_request does to the handlers that call *)
(* it is modelled: one that found no executor may queue its oneshot after  *)
(* the executor has been given back, and then sleeps on beside an idle one *)
(* (see Pool). What a bucket does with a package is Bucket's subject.      *)
(***************************************************************************)
EXTENDS Naturals, FiniteSets

CONSTANTS
    Packages,     \* the packages of the batch
    Known,        \* those the TOC has when the batch begins
    MaxRetry,     \* Downloader.retry_time
    HttpCount,    \* executors of the HTTP pool
    BucketCount,  \* buckets, NpmStore.bucket_size
    Faults        \* what fails: among "http", "store" and "reuse"

ASSUME DownloaderAssumption ==
    /\ IsFiniteSet(Packages)
    /\ Known \subseteq Packages
    /\ MaxRetry \in Nat
    /\ HttpCount \in Nat \ {0}
    /\ BucketCount \in Nat \ {0}
    /\ Faults \subseteq {"http", "store", "reuse"}

Attempts == 0..MaxRetry

VARIABLES
    stage,    \* stage[r][k]: where package k is in the pipeline of attempt r
    attempt,  \* the attempt batch_download is in
    pc,       \* the handler it awaits, or the result it returned
    failed,   \* the failed list of the error it returned
    dump,     \* the packages of the dump the caller takes after a success
    late,     \* <<pool, r>>: attempt r's handler of that pool has found no executor
    asleep    \* <<pool, r>>: it has queued its oneshot and awaits it

vars == <<stage, attempt, pc, failed, dump, late, asleep>>

Pools == {"http", "bucket"}

HttpStages  == {"queued", "fetching", "fetched"}
MapStages   == {"response", "mapping"}
StoreStages == {"request", "dispatch", "storing", "stored"}
EndStages   == {"recorded", "announced", "http_failed", "store_failed", "reuse_failed"}

At(r, S) == {k \in Packages : stage[r][k] \in S}
InFlight(s) == {rk \in Attempts \X Packages : stage[rk[1]][rk[2]] = s}
Recorded == Known \cup {k \in Packages : \E r \in Attempts : stage[r][k] = "recorded"}

\* A handler ends when the channel it reads is closed and empty.
HttpOver(r)  == At(r, HttpStages) = {}
MapOver(r)   == HttpOver(r) /\ At(r, MapStages) = {}
StoreOver(r) == MapOver(r) /\ At(r, StoreStages) = {}
TocOver(r)   == StoreOver(r) /\ At(r, {"result"}) = {}
ReuseOver(r) == At(r, {"reuse"}) = {} \/ At(r, {"reuse_failed"}) # {}

\* do_batch_download partitions its requests with has_package.
Partition(S) == [k \in Packages |->
    IF k \notin S THEN "none" ELSE IF k \in Recorded THEN "reuse" ELSE "queued"]

Init ==
    /\ stage = [r \in Attempts |-> [k \in Packages |->
         IF r # 0 THEN "none" ELSE IF k \in Known THEN "reuse" ELSE "queued"]]
    /\ attempt = 0
    /\ pc = "http"
    /\ failed = {}
    /\ dump = {}
    /\ late = {} /\ asleep = {}

-----------------------------------------------------------------------------
(* The handlers of attempt r.                                              *)

Move(r, k, from, to) ==
    /\ stage[r][k] = from
    /\ stage' = [stage EXCEPT ![r][k] = to]
    /\ UNCHANGED <<attempt, pc, failed, dump>>

Awake == UNCHANGED <<late, asleep>>

\* create_request of attempt r's handler: of two pools, with so many executors,
\* lent to the packages at a stage, for the packages at another.
Count(p)   == IF p = "http" THEN HttpCount ELSE BucketCount
Lent(p)    == IF p = "http" THEN InFlight("fetching") ELSE InFlight("storing")
Wanted(p, r) == IF p = "http" THEN At(r, {"queued"}) ELSE At(r, {"dispatch"})
Free(p)    == Cardinality(Lent(p)) < Count(p)
Asking(p, r) == <<p, r>> \notin late \cup asleep

\* get_executor finds none; wait_free queues the oneshot under another mutex.
FindNone(p, r) ==
    /\ Wanted(p, r) # {} /\ Asking(p, r) /\ ~Free(p)
    /\ late' = late \cup {<<p, r>>}
    /\ UNCHANGED <<stage, attempt, pc, failed, dump, asleep>>
WaitFree(p, r) ==
    /\ <<p, r>> \in late
    /\ late' = late \ {<<p, r>>} /\ asleep' = asleep \cup {<<p, r>>}
    /\ UNCHANGED <<stage, attempt, pc, failed, dump>>

\* back_executor, then notify_free wakes one of those that sleep.
GiveBack(p) ==
    /\ \/ asleep \cap ({p} \X Attempts) = {} /\ asleep' = asleep
       \/ \E w \in asleep \cap ({p} \X Attempts) : asleep' = asleep \ {w}
    /\ late' = late

\* request_handler: the HTTP pool lends a client; response.send waits for room.
Fetch(r, k)     == Asking("http", r) /\ Free("http") /\ Move(r, k, "queued", "fetching") /\ Awake
FetchDone(r, k) == Move(r, k, "fetching", "fetched") /\ GiveBack("http")
FetchFail(r, k) == "http" \in Faults /\ Move(r, k, "fetching", "http_failed") /\ GiveBack("http")
Respond(r, k)   == Cardinality(At(r, {"response"})) < 2 * BucketCount /\ Move(r, k, "fetched", "response") /\ Awake

\* map_handler holds one response at a time.
TakeResponse(r, k) == At(r, {"mapping"}) = {} /\ Move(r, k, "response", "mapping") /\ Awake
SendRequest(r, k)  == Cardinality(At(r, {"request"})) < 2 * BucketCount /\ Move(r, k, "mapping", "request") /\ Awake

\* store_handler: batch_execute_with_receiver takes one command at a time and
\* waits for a bucket; a failed or timed out add_package ends the command.
TakeRequest(r, k) == At(r, {"dispatch"}) = {} /\ Move(r, k, "request", "dispatch") /\ Awake
Store(r, k)       == Asking("bucket", r) /\ Free("bucket") /\ Move(r, k, "dispatch", "storing") /\ Awake
StoreDone(r, k)   == Move(r, k, "storing", "stored") /\ GiveBack("bucket")
StoreFail(r, k)   == "store" \in Faults /\ Move(r, k, "storing", "store_failed") /\ GiveBack("bucket")
SendResult(r, k)  == Cardinality(At(r, {"result"})) < BucketCount /\ Move(r, k, "stored", "result") /\ Awake

\* Mutant: the toc task of an attempt is aborted when the next one begins.
Record_Aborted(r, k) == r = attempt /\ Move(r, k, "result", "recorded") /\ Awake

\* toc_store_handler
Record(r, k) == Move(r, k, "result", "recorded") /\ Awake

\* reuse_handler announces the packages one by one and stops at an error.
Announce(r, k)  == At(r, {"reuse_failed"}) = {} /\ Move(r, k, "reuse", "announced") /\ Awake
ReuseFail(r, k) == "reuse" \in Faults /\ At(r, {"reuse_failed"}) = {} /\ Move(r, k, "reuse", "reuse_failed") /\ Awake

HttpHandler(r)  == \E k \in Packages : Fetch(r, k) \/ FetchDone(r, k) \/ FetchFail(r, k) \/ Respond(r, k)
MapHandler(r)   == \E k \in Packages : TakeResponse(r, k) \/ SendRequest(r, k)
StoreHandler(r) == \E k \in Packages : TakeRequest(r, k) \/ Store(r, k) \/ StoreDone(r, k)
                                         \/ StoreFail(r, k) \/ SendResult(r, k)
TocHandler(r)   == \E k \in Packages : Record(r, k)
ReuseHandler(r) == \E k \in Packages : Announce(r, k) \/ ReuseFail(r, k)

-----------------------------------------------------------------------------
(* batch_download awaits the handlers of the current attempt.              *)

\* Mutant: the whole batch is downloaded again.
RetryOrFail_Whole(S) ==
    \/ /\ attempt < MaxRetry
       /\ attempt' = attempt + 1
       /\ stage' = [stage EXCEPT ![attempt + 1] = Partition(Packages)]
       /\ pc' = "http"
       /\ UNCHANGED <<failed, dump, late, asleep>>
    \/ /\ attempt = MaxRetry
       /\ pc' = "err"
       /\ failed' = S
       /\ UNCHANGED <<stage, attempt, dump, late, asleep>>

\* An error with a failed list: retry those packages, or give up.
RetryOrFail(S) ==
    \/ /\ attempt < MaxRetry
       /\ attempt' = attempt + 1
       /\ stage' = [stage EXCEPT ![attempt + 1] = Partition(S)]
       /\ pc' = "http"
       /\ UNCHANGED <<failed, dump, late, asleep>>
    \/ /\ attempt = MaxRetry
       /\ pc' = "err"
       /\ failed' = S
       /\ UNCHANGED <<stage, attempt, dump, late, asleep>>

Proceed(l) == pc' = l /\ UNCHANGED <<stage, attempt, failed, dump, late, asleep>>

AwaitHttp ==
    /\ pc = "http" /\ HttpOver(attempt)
    /\ \/ At(attempt, {"http_failed"}) = {} /\ Proceed("map")
       \/ At(attempt, {"http_failed"}) # {} /\ RetryOrFail(At(attempt, {"http_failed"}))

AwaitMap == pc = "map" /\ MapOver(attempt) /\ Proceed("store")

AwaitStore ==
    /\ pc = "store" /\ StoreOver(attempt)
    /\ \/ At(attempt, {"store_failed"}) = {} /\ Proceed("toc")
       \/ At(attempt, {"store_failed"}) # {} /\ RetryOrFail(At(attempt, {"store_failed"}))

AwaitToc == pc = "toc" /\ TocOver(attempt) /\ Proceed("reuse")

\* Mutant: the reuse task is not awaited.
AwaitReuse_Skip == pc = "reuse" /\ Proceed("ok")

\* An error of the reuse task has no failed list and is not retried.
AwaitReuse ==
    /\ pc = "reuse" /\ ReuseOver(attempt)
    /\ Proceed(IF At(attempt, {"reuse_failed"}) = {} THEN "ok" ELSE "err")

\* The caller takes the dump, then shuts the downloader down, which fails
\* with ArcBusy while a spawned task still has its clone of the store.
Dump == pc = "ok" /\ dump' = Recorded /\ pc' = "dumped" /\ UNCHANGED <<stage, attempt, failed, late, asleep>>

StoreShared == \E r \in Attempts : ~StoreOver(r) \/ ~ReuseOver(r)
Shutdown == pc = "dumped" /\ Proceed(IF StoreShared THEN "busy" ELSE "closed")

Main == AwaitHttp \/ AwaitMap \/ AwaitStore \/ AwaitToc \/ AwaitReuse \/ Dump \/ Shutdown

Next ==
    \/ \E r \in Attempts : HttpHandler(r) \/ MapHandler(r) \/ StoreHandler(r)
                             \/ TocHandler(r) \/ ReuseHandler(r)
                             \/ \E p \in Pools : FindNone(p, r) \/ WaitFree(p, r)
    \/ Main

Spec == Init /\ [][Next]_vars

(* Every spawned task is polled while it can go on; a fetch ends because   *)
(* the server answers or the connection breaks, a store because add_package*)
(* has a timeout.                                                          *)
FairSpec ==
    /\ Spec
    /\ WF_vars(Main)
    /\ \A r \in Attempts :
         /\ WF_vars(HttpHandler(r)) /\ WF_vars(MapHandler(r)) /\ WF_vars(StoreHandler(r))
         /\ WF_vars(TocHandler(r)) /\ WF_vars(ReuseHandler(r))
         /\ \A p \in Pools : WF_vars(WaitFree(p, r))

-----------------------------------------------------------------------------
(* Properties.                                                             *)

TypeOK ==
    /\ stage \in [Attempts -> [Packages -> {"none", "reuse", "result"} \cup HttpStages
                                 \cup MapStages \cup StoreStages \cup EndStages]]
    /\ attempt \in Attempts
    /\ pc \in {"http", "map", "store", "toc", "reuse", "ok", "err", "dumped", "closed", "busy"}
    /\ failed \subseteq Packages
    /\ dump \subseteq Packages
    /\ late \subseteq Pools \X Attempts /\ asleep \subseteq Pools \X Attempts

Succeeded == pc \in {"ok", "dumped", "closed", "busy"}

(* A package is never on its way in two attempts: a bucket does not get    *)
(* the same tarball twice, nor the TOC two ranges for it, although the     *)
(* pipelines of several attempts run side by side.                         *)
OneCopy ==
    \A k \in Packages : \A q, r \in Attempts :
        /\ stage[q][k] \notin {"none", "http_failed", "store_failed"}
        /\ stage[r][k] \notin {"none", "http_failed", "store_failed"}
        => q = r

(* The packages the error names are not in the TOC, and no task left       *)
(* behind will add them.                                                   *)
FailedStayOut == \A k \in failed : k \notin Recorded /\ \A r \in Attempts :
    stage[r][k] \in {"none", "http_failed", "store_failed"}

(* As long as no download fails, no package gets lost: after Ok each is in *)
(* its bucket, and after an error each is or is named, even those that an  *)
(* attempt the batch has left behind was still storing.                    *)
InBucket(k) == k \in Known \/ \E r \in Attempts : stage[r][k] \in {"stored", "result", "recorded"}
NothingLost ==
    (\A r \in Attempts : At(r, {"http_failed"}) = {}) =>
        /\ Succeeded => \A k \in Packages : InBucket(k)
        /\ pc = "err" => \A k \in Packages \ failed : InBucket(k)

(* Together: whatever the retry leaves running behind it, a package is     *)
(* stored once, or named by the error and stored by nobody.                *)
StoredOnce == TypeOK /\ OneCopy /\ FailedStayOut /\ NothingLost

(* What batch_download promises: Ok when all the packages are in the TOC,  *)
(* else an error naming those that are not ("err some", download.rs 108).  *)
OkMeansRecorded == Succeeded => Recorded = Packages

(* It keeps the promise when it needed no retry, whatever order the five   *)
(* tasks end in: what is dumped has every package, and the store can be    *)
(* shut down, hence flushed and unlocked ("shutdown failed" is what the    *)
(* tests would say).                                                       *)
FirstTry == attempt = 0 =>
    /\ OkMeansRecorded
    /\ pc \in {"dumped", "closed", "busy"} => dump = Packages
    /\ pc # "busy"

\* A handler of attempt r sleeps beside a pool none of whose executors is lent,
\* so that none will be given back: the pool's lost wake-up.
Parked(r) == \E p \in Pools : <<p, r>> \in asleep /\ Lent(p) = {}

(* The bounded channels and the shared pools never block each other: the   *)
(* batch returns, and so does what it left behind, unless a handler is     *)
(* parked for ever beside a pool that is all idle; one of an attempt left  *)
(* behind does not keep the batch from returning.                          *)
BatchReturns == <>(pc \in {"closed", "busy", "err"}) \/ <>[]Parked(attempt)
LeftoversEnd == <>[](\A r \in Attempts : TocOver(r) /\ ReuseOver(r))
                  \/ <>[](\E r \in Attempts : Parked(r))
AllEnds == BatchReturns /\ LeftoversEnd

=============================================================================
