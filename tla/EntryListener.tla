--------------------------- MODULE EntryListener ---------------------------
(***************************************************************************)
(* The way of package.json and binding.gyp from the tarballs to the JS     *)
(* side of an install. Buckets send an entry's pipe (a duplex of 4096      *)
(* bytes) into a channel of capacity 1 and copy the entry into it; the     *)
(* reuse task sends entries read back from the bucket files; one task,     *)
(* handle_new_entry of the binding, reads each pipe to its end and queues  *)
(* a call of the JS entry listener, which fills the NpmBlobManager. The    *)
(* install goes on when shutdown is over, and then looks the packages up.  *)
(*                                                                         *)
(* A failed add_package drops its pipe, so the listener gets what was      *)
(* copied so far. A retry starts as soon as its package has failed (in the *)
(* code, when the attempt is over: see Downloader), which allows more      *)
(* orders than the code has.                                               *)
(***************************************************************************)
EXTENDS Naturals, FiniteSets, Sequences, SequencesExt

CONSTANTS
    Packages,     \* the packages of the batch
    Reused,       \* those the TOC has
    Files,        \* Files[k]: the listed entries of k: "json", "gyp" or "nested"
    Large,        \* the packages whose package.json is larger than a pipe
    BucketCount,  \* packages stored at a time
    MaxTries,     \* Downloader.retry_time
    MaxFails      \* bound: failures of packages, all together

ASSUME EntryListenerAssumption ==
    /\ Reused \subseteq Packages /\ Large \subseteq Packages
    /\ Files \in [Packages -> Seq({"json", "gyp", "nested"})]
    /\ BucketCount \in Nat \ {0} /\ MaxTries \in Nat /\ MaxFails \in Nat

VARIABLES
    task,      \* task[k]: what the bucket or the reuse task does with k
    at,        \* at[k]: the entry of k it is at
    tries,     \* tries[k]: how often k has failed and been retried
    channel,   \* the listener's channel
    reading,   \* the entry handle_new_entry reads, Nobody, or Over
    whole,     \* unread entries whose pipe was closed behind their whole content
    cut,       \* unread entries whose pipe was closed too early
    calls,     \* what the binding has queued for the JS thread
    packages,  \* NpmBlobManager.packages
    gyp,       \* NpmBlobManager.gyp, names as they are written
    main       \* where the install is

vars == <<task, at, tries, channel, reading, whole, cut, calls, packages, gyp, main>>
taskVars == <<task, at, tries, whole, cut>>
jsVars   == <<packages, gyp>>

Mark(m) == [pkg |-> m, file |-> 0, try |-> 0]
Nobody  == Mark("nobody")
Over    == Mark("over")     \* handle_new_entry has returned
None    == Mark("none")     \* the None that shuts the listener down
Call(k, i, ok) == [pkg |-> k, file |-> i, ok |-> ok]
Closed  == Call("closed", 0, TRUE)   \* the resolution of shutdown's promise

Entry(k)  == [pkg |-> k, file |-> at[k], try |-> tries[k]]
Entries   == [pkg : Packages, file : Nat \ {0}, try : 0..MaxTries]
FileOf(e) == Files[e.pkg][e.file]
Left(k)   == at[k] <= Len(Files[k])

\* A tarball's entries come with tar_prefix ("name@version"), a reused package's
\* with the bare name of the request.
NameOf(k) == <<k, IF k \in Reused THEN "name" ELSE "name@version">>

Init ==
    /\ task = [k \in Packages |-> "idle"]
    /\ at = [k \in Packages |-> 1]
    /\ tries = [k \in Packages |-> 0]
    /\ channel = <<>> /\ reading = Nobody
    /\ whole = {} /\ cut = {}
    /\ calls = <<>> /\ packages = {} /\ gyp = {}
    /\ main = "batch"

-----------------------------------------------------------------------------
(* The senders.                                                            *)

Busy(S) == {k \in S : task[k] \in {"busy", "copying"}}
Room(k) ==
    IF k \in Reused
    THEN Busy(Reused) = {} /\ \A j \in Reused : task[j] # "failed"
    ELSE Cardinality(Busy(Packages \ Reused)) < BucketCount

Begin(k) ==
    /\ task[k] = "idle" /\ main = "batch" /\ Room(k)
    /\ task' = [task EXCEPT ![k] = "busy"]
    /\ UNCHANGED <<at, tries, whole, cut, channel, reading, calls, jsVars, main>>

\* Mutant: an entry is skipped when the channel is full (try_send).
Send_Try(k) ==
    /\ task[k] = "busy" /\ Left(k)
    /\ \/ /\ channel = <<>> /\ channel' = <<Entry(k)>>
          /\ \/ /\ k \in Reused
                /\ whole' = whole \cup {Entry(k)} /\ at' = [at EXCEPT ![k] = @ + 1]
                /\ UNCHANGED task
             \/ /\ k \notin Reused
                /\ task' = [task EXCEPT ![k] = "copying"]
                /\ UNCHANGED <<whole, at>>
       \/ /\ channel # <<>> /\ at' = [at EXCEPT ![k] = @ + 1]
          /\ UNCHANGED <<task, whole, channel>>
    /\ UNCHANGED <<tries, cut, reading, calls, jsVars, main>>

\* A reused entry carries its content, the others the end of a pipe.
Send(k) ==
    /\ task[k] = "busy" /\ Left(k) /\ channel = <<>>
    /\ channel' = <<Entry(k)>>
    /\ \/ /\ k \in Reused
          /\ whole' = whole \cup {Entry(k)} /\ at' = [at EXCEPT ![k] = @ + 1]
          /\ UNCHANGED task
       \/ /\ k \notin Reused
          /\ task' = [task EXCEPT ![k] = "copying"]
          /\ UNCHANGED <<whole, at>>
    /\ UNCHANGED <<tries, cut, reading, calls, jsVars, main>>

NeedsReader(k) == k \in Large /\ FileOf(Entry(k)) = "json"

\* Mutant: the pipe is closed although it has not taken all the bytes.
Copy_Early(k) ==
    /\ task[k] = "copying"
    /\ IF NeedsReader(k) /\ reading # Entry(k)
       THEN cut' = cut \cup {Entry(k)} /\ UNCHANGED whole
       ELSE whole' = whole \cup {Entry(k)} /\ UNCHANGED cut
    /\ at' = [at EXCEPT ![k] = @ + 1] /\ task' = [task EXCEPT ![k] = "busy"]
    /\ UNCHANGED <<tries, channel, reading, calls, jsVars, main>>

\* Mutant: pipes stay open until their package is over.
Copy_KeepOpen(k) ==
    /\ task[k] = "copying" /\ (NeedsReader(k) => reading = Entry(k))
    /\ whole' = IF at[k] < Len(Files[k]) THEN whole
                ELSE whole \cup {[Entry(k) EXCEPT !.file = i] : i \in 1..at[k]}
    /\ at' = [at EXCEPT ![k] = @ + 1] /\ task' = [task EXCEPT ![k] = "busy"]
    /\ UNCHANGED <<tries, cut, channel, reading, calls, jsVars, main>>

\* io::copy, flush, and the pipe is closed. What does not fit in the pipe waits
\* for handle_new_entry to come to this entry.
Copy(k) ==
    /\ task[k] = "copying" /\ (NeedsReader(k) => reading = Entry(k))
    /\ whole' = whole \cup {Entry(k)}
    /\ at' = [at EXCEPT ![k] = @ + 1] /\ task' = [task EXCEPT ![k] = "busy"]
    /\ UNCHANGED <<tries, cut, channel, reading, calls, jsVars, main>>

Done(k) ==
    /\ task[k] = "busy" /\ ~Left(k)
    /\ task' = [task EXCEPT ![k] = "done"]
    /\ UNCHANGED <<at, tries, whole, cut, channel, reading, calls, jsVars, main>>

Fails == {f \in Packages \X (0..MaxTries) :
            f[2] < tries[f[1]] \/ (f[2] = tries[f[1]] /\ task[f[1]] = "failed")}

\* The download breaks, the tarball does not decode, the timeout fires or the
\* bucket file cannot be read: an open pipe is closed where the copy was.
Fail(k) ==
    /\ task[k] \in {"busy", "copying"} /\ Cardinality(Fails) < MaxFails
    /\ \/ task[k] = "busy" /\ UNCHANGED <<whole, cut>>
       \/ task[k] = "copying" /\ cut' = cut \cup {Entry(k)} /\ UNCHANGED whole
       \/ task[k] = "copying" /\ ~NeedsReader(k) /\ whole' = whole \cup {Entry(k)} /\ UNCHANGED cut
    /\ \/ /\ k \notin Reused /\ tries[k] < MaxTries
          /\ tries' = [tries EXCEPT ![k] = @ + 1]
          /\ at' = [at EXCEPT ![k] = 1] /\ task' = [task EXCEPT ![k] = "idle"]
       \/ /\ k \in Reused \/ tries[k] = MaxTries
          /\ task' = [task EXCEPT ![k] = "failed"]
          /\ UNCHANGED <<tries, at>>
    /\ UNCHANGED <<channel, reading, calls, jsVars, main>>

-----------------------------------------------------------------------------
(* handle_new_entry.                                                       *)

Take ==
    /\ reading = Nobody /\ channel # <<>>
    /\ reading' = (IF Head(channel) = None THEN Over ELSE Head(channel))
    /\ channel' = Tail(channel)
    /\ UNCHANGED <<taskVars, calls, jsVars, main>>

\* A content that is not UTF-8 (one cut within a character) is dropped.
Deliver ==
    /\ reading \in whole \cup cut
    /\ \/ calls' = Append(calls, Call(reading.pkg, reading.file, reading \in whole))
       \/ reading \in cut /\ UNCHANGED calls
    /\ reading' = Nobody
    /\ whole' = whole \ {reading} /\ cut' = cut \ {reading}
    /\ UNCHANGED <<task, at, tries, channel, jsVars, main>>

Handler == Take \/ Deliver

-----------------------------------------------------------------------------
(* The JS thread: the entry listener, and the install.                     *)

JsEntry(c) ==
    \/ FileOf(c) = "nested" /\ UNCHANGED <<packages, gyp, main>>
    \/ FileOf(c) = "gyp" /\ gyp' = gyp \cup {NameOf(c.pkg)} /\ UNCHANGED <<packages, main>>
    \/ /\ FileOf(c) = "json" /\ c.ok
       /\ packages' = packages \cup {c.pkg} /\ UNCHANGED <<gyp, main>>
    \/ \* JSON.parse throws, and a callback's exception ends the process.
       /\ FileOf(c) = "json" /\ ~c.ok
       /\ main' = "dead" /\ UNCHANGED <<packages, gyp>>

JsTurn ==
    /\ calls # <<>> /\ calls' = Tail(calls)
    /\ \/ Head(calls) = Closed /\ main' = "resumed" /\ UNCHANGED jsVars
       \/ Head(calls) # Closed /\ JsEntry(Head(calls))
    /\ UNCHANGED <<taskVars, channel, reading>>

\* batchDownloads: an error rejects, but one that batch_download has lost.
ReturnBatch ==
    /\ main = "batch" /\ \A k \in Packages : task[k] \in {"done", "failed"}
    /\ \/ main' = "closing"
       \/ (\E k \in Packages : task[k] = "failed") /\ main' = "rejected"
    /\ UNCHANGED <<taskVars, channel, reading, calls, jsVars>>

\* EntryListener::shutdown: send None, then wait until the receiver is dropped.
SendNone ==
    /\ main = "closing" /\ channel = <<>>
    /\ channel' = <<None>> /\ main' = "closed"
    /\ UNCHANGED <<taskVars, reading, calls, jsVars>>

\* Mutant: shutdown does not wait for the receiver.
Resolve_NoWait ==
    /\ main = "closed"
    /\ calls' = Append(calls, Closed) /\ main' = "resolved"
    /\ UNCHANGED <<taskVars, channel, reading, jsVars>>

Resolve ==
    /\ main = "closed" /\ reading = Over
    /\ calls' = Append(calls, Closed) /\ main' = "resolved"
    /\ UNCHANGED <<taskVars, channel, reading, jsVars>>

Caller == ReturnBatch \/ SendNone \/ Resolve

Alive == main # "dead"
Next ==
    /\ Alive
    /\ \/ \E k \in Packages : Begin(k) \/ Send(k) \/ Copy(k) \/ Done(k) \/ Fail(k)
       \/ Handler \/ JsTurn \/ Caller

Spec == Init /\ [][Next]_vars

(* Every task that can go on is polled in the end; the event loop runs     *)
(* what is queued. No step of Fail is required, not even the timeout.      *)
FairSpec ==
    /\ Spec
    /\ \A k \in Packages : WF_vars(Alive /\ (Begin(k) \/ Send(k) \/ Copy(k) \/ Done(k)))
    /\ WF_vars(Alive /\ Handler) /\ WF_vars(Alive /\ JsTurn) /\ WF_vars(Alive /\ Caller)

-----------------------------------------------------------------------------
(* Properties.                                                             *)

TypeOK ==
    /\ task \in [Packages -> {"idle", "busy", "copying", "done", "failed"}]
    /\ \A k \in Packages : at[k] \in 1..(Len(Files[k]) + 1)
    /\ tries \in [Packages -> 0..MaxTries]
    /\ Len(channel) <= 1 /\ ToSet(channel) \subseteq Entries \cup {None}
    /\ reading \in Entries \cup {Nobody, Over}
    /\ whole \subseteq Entries /\ cut \subseteq Entries
    /\ ToSet(calls) \subseteq [pkg : Packages, file : Nat \ {0}, ok : BOOLEAN] \cup {Closed}
    /\ packages \subseteq Packages
    /\ gyp \subseteq Packages \X {"name", "name@version"}
    /\ main \in {"batch", "closing", "closed", "resolved", "resumed", "rejected", "dead"}

NoneFailed == \A k \in Packages : task[k] # "failed"

(* When the install goes on after downloader.shutdown(), the package.json  *)
(* of every package has been given to the blob manager (else "not found    *)
(* package json" would be thrown), and hasGyp("name@version") is true of   *)
(* the downloaded packages that have a binding.gyp.                        *)
AllAnnounced ==
    TypeOK /\ (main = "resumed" /\ NoneFailed => \A k \in Packages :
        /\ "json" \in ToSet(Files[k]) => k \in packages
        /\ "gyp" \in ToSet(Files[k]) /\ k \notin Reused => <<k, "name@version">> \in gyp)

(* JSON.parse, which would end the process, is never given a truncated     *)
(* package.json unless a package has failed or been retried.               *)
WholeUnlessFailed ==
    main = "dead" => \E k \in Packages : tries[k] > 0 \/ task[k] = "failed"

(* No entry arrives once the install has gone on: the blob manager it      *)
(* reads no longer changes.                                                *)
NoLateEntry == [][main = "resumed" => UNCHANGED jsVars]_vars

(* The channel of one, the pipes and the one reader they share never stop  *)
(* the install, even if no timeout fires.                                  *)
InstallGoesOn == <>(main \in {"resumed", "rejected", "dead"})
=============================================================================
