------------------------------- MODULE Bucket -------------------------------
(***************************************************************************)
(* One bucket file of the store (downloader/src/store/bucket.rs, tar.rs,   *)
(* store.rs) over several runs of the downloader, by one or more           *)
(* processes that use the same cache directory.                            *)
(*                                                                         *)
(* A package's tarball is appended entry by entry (header, payload,        *)
(* padding) through a BufWriter to a file opened with O_APPEND, and the    *)
(* offset of every payload is computed from `position`, never from the     *)
(* file.  The table of contents (TOC) of the packages is restored when the *)
(* downloader is constructed and written back after shutdown.              *)
(*                                                                         *)
(* A cell stands for the bytes of one part of one entry.  Pool's           *)
(* ExecutorExclusive is why a process adds one package at a time.          *)
(*                                                                         *)
(* The TOC is kept in two files, the map and the index, each truncated and *)
(* then written, one after the other.  Here each holds the entries that    *)
(* its packages have; the ranges that tie one to the other are TocFiles'   *)
(* subject.                                                                *)
(***************************************************************************)
EXTENDS Naturals, Sequences, FiniteSets

CONSTANTS
    Procs,        \* processes sharing the cache directory
    Packages,     \* the packages they download
    EntryCount,   \* EntryCount[k]: entries in the tarball of k
    Listened,     \* <<k, n>>: entry n of k matches the entry listener's whitelist
    BufCap,       \* capacity of the BufWriter, in cells
    MaxRuns,      \* bound: runs of the downloader, all processes together
    MaxAdds,      \* bound: calls of add_package, all runs together
    NoProc, NoPackage, Zero

ASSUME BucketAssumption ==
    /\ EntryCount \in [Packages -> Nat \ {0}]
    /\ Listened \subseteq Packages \X Nat
    /\ BufCap \in Nat \ {0}
    /\ MaxRuns \in Nat /\ MaxAdds \in Nat
    /\ NoProc \notin Procs
    /\ NoPackage \notin Packages

VARIABLES
    overlap,   \* history: two runs have overlapped
    fault,     \* history: an add_package or a flush has failed
    cut,       \* history: a run has ended between the truncation of the first
               \* TOC file and the writing of the second
    saved,     \* history: the entries written to the map file so far
    disk,      \* the bucket file
    owner,     \* the process that holds the flock
    mapFile,   \* the entries in the map file
    indexFile, \* the entries the index file's ranges stand for
    torn,      \* the TOC files that are missing or do not parse
    runs,      \* runs started so far
    pc,        \* where each process is
    toc,       \* the process' TocIndexStore, for this bucket
    position,  \* NpmBucketStore.position
    buf,       \* the BufWriter's buffer
    add,       \* the call of do_add_package in progress
    adds       \* calls of add_package made so far

history == <<overlap, fault, cut, saved>>
files == <<mapFile, indexFile, torn>>
vars == <<overlap, fault, cut, saved, disk, owner, mapFile, indexFile, torn, runs, pc, toc,
          position, buf, add, adds>>

Cell(k, n, part) == [pkg |-> k, entry |-> n, part |-> part]
Parts == {"head", "data", "pad"}
Cells == [pkg : Packages, entry : Nat, part : Parts] \cup {Zero}
TocEntries == [pkg : Packages, entry : Nat, offset : Nat]
Calls == [pkg : Packages \cup {NoPackage}, entry : Nat, at : {"none", "head", "data", "copied"},
          written : Nat, got : SUBSET TocEntries]

\* File::set_len: cuts the file, or extends it with zeros.
SetLen(s, n) == [i \in 1..n |-> IF i <= Len(s) THEN s[i] ELSE Zero]

Has(t, k) == \E r \in t : r.pkg = k

NoAdd == [pkg |-> NoPackage, entry |-> 0, at |-> "none", written |-> 0, got |-> {}]

Init ==
    /\ overlap = FALSE
    /\ fault = FALSE
    /\ cut = FALSE
    /\ saved = {}
    /\ disk = <<>>
    /\ owner = NoProc
    /\ mapFile = {}
    /\ indexFile = {}
    /\ torn = {"map", "index"}
    /\ runs = 0
    /\ pc = [p \in Procs |-> "idle"]
    /\ toc = [p \in Procs |-> {}]
    /\ position = [p \in Procs |-> 0]
    /\ buf = [p \in Procs |-> <<>>]
    /\ add = [p \in Procs |-> NoAdd]
    /\ adds = 0

-----------------------------------------------------------------------------
(* Opening: JsDownloader::new, then static_build_bucket and prepare_file.  *)

\* What restore_from_file can give, and the empty store JsDownloader::new
\* falls back to when a file does not parse.  An index whose ranges were not
\* made for this map stands for any entries of the map.
Restorable ==
    IF torn # {} THEN {{}}
    ELSE IF indexFile \subseteq mapFile THEN {indexFile}
    ELSE SUBSET mapFile

\* Mutant: the constructor always starts with an empty TOC.
RestoreToc_Empty(p) ==
    /\ pc[p] = "idle"
    /\ runs < MaxRuns
    /\ runs' = runs + 1
    /\ overlap' = (overlap \/ \E q \in Procs : pc[q] # "idle")
    /\ toc' = [toc EXCEPT ![p] = {}]
    /\ pc' = [pc EXCEPT ![p] = "restored"]
    /\ UNCHANGED <<fault, cut, saved, disk, owner, files, position, buf, add, adds>>

\* The constructor restores the TOC before any file is locked.
RestoreToc(p) ==
    /\ pc[p] = "idle"
    /\ runs < MaxRuns
    /\ runs' = runs + 1
    /\ overlap' = (overlap \/ \E q \in Procs : pc[q] # "idle")
    /\ \E t \in Restorable : toc' = [toc EXCEPT ![p] = t]
    /\ pc' = [pc EXCEPT ![p] = "restored"]
    /\ UNCHANGED <<fault, cut, saved, disk, owner, files, position, buf, add, adds>>

\* Mutant: the length of the file that is opened is not read.
OpenFile_Zero(p) ==
    /\ pc[p] = "restored"
    /\ position' = [position EXCEPT ![p] = 0]
    /\ pc' = [pc EXCEPT ![p] = "opened"]
    /\ UNCHANGED <<history, disk, owner, files, runs, toc, buf, add, adds>>

\* static_build_bucket opens for append and reads the length.
OpenFile(p) ==
    /\ pc[p] = "restored"
    /\ position' = [position EXCEPT ![p] = Len(disk)]
    /\ pc' = [pc EXCEPT ![p] = "opened"]
    /\ UNCHANGED <<history, disk, owner, files, runs, toc, buf, add, adds>>

\* prepare_file calls fix_length first.
FixLength(p) ==
    /\ pc[p] = "opened"
    /\ disk' = SetLen(disk, position[p])
    /\ pc' = [pc EXCEPT ![p] = "sized"]
    /\ UNCHANGED <<history, owner, files, runs, toc, position, buf, add, adds>>

\* Mutant: the result of flock is not looked at.
LockFile_Unchecked(p) ==
    /\ pc[p] = "sized"
    /\ owner' = IF owner = NoProc THEN p ELSE owner
    /\ pc' = [pc EXCEPT ![p] = "ready"]
    /\ UNCHANGED <<history, disk, files, runs, toc, position, buf, add, adds>>

\* lock_file does not block: the run fails when another process has the lock.
LockFile(p) ==
    /\ pc[p] = "sized"
    /\ \/ /\ owner = NoProc
          /\ owner' = p
          /\ pc' = [pc EXCEPT ![p] = "ready"]
       \/ /\ owner # NoProc
          /\ pc' = [pc EXCEPT ![p] = "idle"]
          /\ UNCHANGED owner
    /\ UNCHANGED <<history, disk, files, runs, toc, position, buf, add, adds>>

-----------------------------------------------------------------------------
(* do_add_package and TarConcater::append.                                 *)

\* BufWriter::poll_write: the buffer is written out when the cell does not fit.
Write(p, cell) ==
    IF Len(buf[p]) < BufCap
    THEN /\ buf' = [buf EXCEPT ![p] = Append(@, cell)]
         /\ UNCHANGED disk
    ELSE /\ disk' = disk \o buf[p]
         /\ buf' = [buf EXCEPT ![p] = <<cell>>]

StartAdd(p) ==
    /\ pc[p] = "ready"
    /\ adds < MaxAdds
    /\ adds' = adds + 1
    /\ \E k \in Packages :
         /\ ~Has(toc[p], k)
         /\ add' = [add EXCEPT ![p] =
                [pkg |-> k, entry |-> 1, at |-> "head", written |-> 0, got |-> {}]]
    /\ pc' = [pc EXCEPT ![p] = "adding"]
    /\ UNCHANGED <<history, disk, owner, files, runs, toc, position, buf>>

\* writer.write_all(header): the payload's offset is now known.
WriteHeader(p) ==
    LET call == add[p] IN
    /\ pc[p] = "adding" /\ call.at = "head"
    /\ call.entry <= EntryCount[call.pkg]
    /\ Write(p, Cell(call.pkg, call.entry, "head"))
    /\ add' = [add EXCEPT ![p].at = "data", ![p].written = @ + 1,
                 ![p].got = @ \cup {[pkg |-> call.pkg, entry |-> call.entry,
                                     offset |-> position[p] + call.written + 2]}]
    /\ UNCHANGED <<history, owner, files, runs, pc, toc, position, adds>>

\* io::copy has moved the payload read so far.
WritePayload(p) ==
    LET call == add[p] IN
    /\ pc[p] = "adding" /\ call.at = "data"
    /\ Write(p, Cell(call.pkg, call.entry, "data"))
    /\ add' = [add EXCEPT ![p].at = "copied", ![p].written = @ + 1]
    /\ UNCHANGED <<history, owner, files, runs, pc, toc, position, adds>>

\* io::copy flushes its writer while the tarball's bytes are not there yet.
\* The AllWriter of a listened entry does not pass the flush on.
FlushPending(p) ==
    LET call == add[p] IN
    /\ pc[p] = "adding" /\ call.at = "copied"
    /\ <<call.pkg, call.entry>> \notin Listened
    /\ disk' = disk \o buf[p]
    /\ buf' = [buf EXCEPT ![p] = <<>>]
    /\ UNCHANGED <<history, owner, files, runs, pc, toc, position, add, adds>>

\* Mutant: the payload is written without io::copy's final flush.
EndEntry_NoFlush(p) ==
    LET call == add[p] IN
    /\ pc[p] = "adding" /\ call.at = "copied"
    /\ Write(p, Cell(call.pkg, call.entry, "pad"))
    /\ add' = [add EXCEPT ![p].at = "head", ![p].entry = @ + 1, ![p].written = @ + 1]
    /\ UNCHANGED <<history, owner, files, runs, pc, toc, position, adds>>

\* io::copy flushes at the end of the payload, then the padding is written.
EndEntry(p) ==
    LET call == add[p]
        pad == Cell(call.pkg, call.entry, "pad") IN
    /\ pc[p] = "adding" /\ call.at = "copied"
    /\ IF <<call.pkg, call.entry>> \in Listened
       THEN Write(p, pad)
       ELSE /\ disk' = disk \o buf[p]
            /\ buf' = [buf EXCEPT ![p] = <<pad>>]
    /\ add' = [add EXCEPT ![p].at = "head", ![p].entry = @ + 1, ![p].written = @ + 1]
    /\ UNCHANGED <<history, owner, files, runs, pc, toc, position, adds>>

\* The archive has no more entries: the index is recorded for the package.
EndAdd(p) ==
    LET call == add[p] IN
    /\ pc[p] = "adding" /\ call.at = "head"
    /\ call.entry > EntryCount[call.pkg]
    /\ position' = [position EXCEPT ![p] = @ + call.written]
    /\ toc' = [toc EXCEPT ![p] = @ \cup call.got]
    /\ add' = [add EXCEPT ![p] = NoAdd]
    /\ pc' = [pc EXCEPT ![p] = "ready"]
    /\ UNCHANGED <<history, disk, owner, files, runs, buf, adds>>

\* Reading the tarball fails: fix_length, but the buffer keeps what it holds.
FailAdd(p) ==
    /\ pc[p] = "adding"
    /\ fault' = TRUE
    /\ disk' = SetLen(disk, position[p])
    /\ add' = [add EXCEPT ![p] = NoAdd]
    /\ pc' = [pc EXCEPT ![p] = "ready"]
    /\ UNCHANGED <<overlap, cut, saved, owner, files, runs, toc, position, buf, adds>>

\* timeout() drops the future of do_add_package where it is.
TimeoutAdd(p) ==
    /\ pc[p] = "adding"
    /\ fault' = TRUE
    /\ add' = [add EXCEPT ![p] = NoAdd]
    /\ pc' = [pc EXCEPT ![p] = "ready"]
    /\ UNCHANGED <<overlap, cut, saved, disk, owner, files, runs, toc, position, buf, adds>>

-----------------------------------------------------------------------------
(* The end of a run.                                                       *)

\* NpmBucketStore::shutdown; NpmStore::shutdown ignores that a flush failed.
Shutdown(p) ==
    /\ pc[p] = "ready"
    /\ \/ disk' = disk \o buf[p] /\ UNCHANGED fault
       \/ fault' = TRUE /\ UNCHANGED disk
    /\ buf' = [buf EXCEPT ![p] = <<>>]
    /\ owner' = NoProc
    /\ pc' = [pc EXCEPT ![p] = "closed"]
    /\ UNCHANGED <<overlap, cut, saved, files, runs, toc, position, add, adds>>

\* download_dependency.js writes the TOC dumped before shutdown: fs.writeFile
\* of the map, then fs.writeFile of the index.
TruncMap(p) ==
    /\ pc[p] = "closed"
    /\ mapFile' = {}
    /\ torn' = torn \cup {"map"}
    /\ pc' = [pc EXCEPT ![p] = "mapCut"]
    /\ UNCHANGED <<history, disk, owner, indexFile, runs, toc, position, buf, add, adds>>

WriteMap(p) ==
    /\ pc[p] = "mapCut"
    /\ mapFile' = toc[p]
    /\ torn' = torn \ {"map"}
    /\ saved' = saved \cup toc[p]
    /\ pc' = [pc EXCEPT ![p] = "mapSaved"]
    /\ UNCHANGED <<overlap, fault, cut, disk, owner, indexFile, runs, toc, position, buf, add, adds>>

TruncIndex(p) ==
    /\ pc[p] = "mapSaved"
    /\ indexFile' = {}
    /\ torn' = torn \cup {"index"}
    /\ pc' = [pc EXCEPT ![p] = "indexCut"]
    /\ UNCHANGED <<history, disk, owner, mapFile, runs, toc, position, buf, add, adds>>

WriteIndex(p) ==
    /\ pc[p] = "indexCut"
    /\ indexFile' = toc[p]
    /\ torn' = torn \ {"index"}
    /\ pc' = [pc EXCEPT ![p] = "idle"]
    /\ UNCHANGED <<history, disk, owner, mapFile, runs, toc, position, buf, add, adds>>

Saving == {"mapCut", "mapSaved", "indexCut"}

\* The process dies, or exits because a batch or a write failed: nothing is
\* flushed and the kernel releases the lock.
Crash(p) ==
    /\ pc[p] # "idle"
    /\ cut' = (cut \/ pc[p] \in Saving)
    /\ pc' = [pc EXCEPT ![p] = "idle"]
    /\ owner' = IF owner = p THEN NoProc ELSE owner
    /\ buf' = [buf EXCEPT ![p] = <<>>]
    /\ add' = [add EXCEPT ![p] = NoAdd]
    /\ UNCHANGED <<overlap, fault, saved, disk, files, runs, toc, position, adds>>

Next == \E p \in Procs :
    \/ RestoreToc(p) \/ OpenFile(p) \/ FixLength(p) \/ LockFile(p)
    \/ StartAdd(p) \/ WriteHeader(p) \/ WritePayload(p) \/ FlushPending(p)
    \/ EndEntry(p) \/ EndAdd(p) \/ FailAdd(p) \/ TimeoutAdd(p)
    \/ Shutdown(p) \/ TruncMap(p) \/ WriteMap(p) \/ TruncIndex(p) \/ WriteIndex(p) \/ Crash(p)

Spec == Init /\ [][Next]_vars

-----------------------------------------------------------------------------
(* Properties.                                                             *)

TypeOK ==
    /\ {overlap, fault, cut} \subseteq BOOLEAN
    /\ disk \in Seq(Cells)
    /\ owner \in Procs \cup {NoProc}
    /\ saved \subseteq TocEntries
    /\ mapFile \subseteq TocEntries /\ indexFile \subseteq TocEntries
    /\ torn \subseteq {"map", "index"}
    /\ runs \in Nat
    /\ pc \in [Procs -> {"idle", "restored", "opened", "sized", "ready", "adding", "closed"} \cup Saving]
    /\ toc \in [Procs -> SUBSET TocEntries]
    /\ position \in [Procs -> Nat]
    /\ buf \in [Procs -> Seq(Cells)]
    /\ add \in [Procs -> Calls]
    /\ adds \in Nat

IsDataAt(s, r) ==
    /\ r.offset \in 1..Len(s)
    /\ s[r.offset] = Cell(r.pkg, r.entry, "data")

Holding(p) == pc[p] \in {"ready", "adding"}

(* Two processes never append to the bucket at once: whoever has bytes in  *)
(* its buffer or a package half written holds the flock.                   *)
OneWriter ==
    /\ TypeOK
    /\ \A p \in Procs : Holding(p) <=> owner = p
    /\ \A p \in Procs : (buf[p] # <<>> \/ add[p] # NoAdd) => owner = p

(* No two runs have overlapped and no call has failed so far.  Processes   *)
(* may have crashed anywhere.                                              *)
Calm == ~overlap /\ ~fault

(* Every recorded offset is where that entry's payload is, or will be once *)
(* the buffer is written (stargz.rs 67-69: Offset is "the offset in the    *)
(* stargz file to the file's data bytes").                                 *)
OffsetsAreData ==
    \A p \in Procs : Holding(p) => \A r \in toc[p] : IsDataAt(disk \o buf[p], r)

(* It is so while calm: of the TOC a running downloader will save, and of  *)
(* all that any run has saved, after any number of runs and of crashes,    *)
(* those inside the writing of the TOC files included, without a buffer.   *)
OffsetsHold == Calm => OffsetsAreData /\ \A r \in saved : IsDataAt(disk, r)

(* A package the TOC knows can be announced again by notify_package, which *)
(* reads the listened entries from the file and not from the buffer: those *)
(* of earlier runs, and those behind which io::copy has flushed an entry   *)
(* that is not listened.                                                   *)
FlushedBehind(r) ==
    r \in saved \/ \E n \in (r.entry + 1)..EntryCount[r.pkg] : <<r.pkg, n>> \notin Listened
ListenedReadable ==
    Calm => \A p \in Procs : Holding(p) => \A r \in toc[p] :
        <<r.pkg, r.entry>> \in Listened /\ FlushedBehind(r) => IsDataAt(disk, r)

(* A run that has the cache for itself starts with everything that earlier *)
(* runs have saved, whatever calls have failed and whoever has crashed, so *)
(* long as no run has ended inside the writing of the two TOC files: after *)
(* that a file may not parse, the next run starts with nothing, and what   *)
(* it saves replaces them.                                                 *)
SavedIsRestored ==
    [][\A p \in Procs : pc[p] = "idle" /\ pc'[p] = "restored" /\ ~overlap' /\ ~cut
         => saved \subseteq toc'[p]]_vars

=============================================================================
