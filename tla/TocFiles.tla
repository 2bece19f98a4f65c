------------------------------ MODULE TocFiles ------------------------------
(***************************************************************************)
(* The two files that keep the table of contents between runs: the map     *)
(* (npm.config.json) and the index (npm.index.json), restored by           *)
(* JsDownloader::new and written by download_dependency.js at the end of a *)
(* run, one after the other, with fs.writeFile (truncate, then write).     *)
(*                                                                         *)
(* A run keeps its bucket files locked from NpmStore::new to shutdown; it  *)
(* restores the files before it locks and writes them after it unlocks.    *)
(***************************************************************************)
EXTENDS TocData, FiniteSets

CONSTANTS
    Procs,       \* processes that share the cache directory
    Nobody,      \* no process holds the buckets
    MaxRuns,     \* bound: runs, all processes together
    MaxCrashes   \* bound: processes that die during a run

ASSUME FilesAssumption ==
    /\ Nobody \notin Procs
    /\ MaxRuns \in Nat /\ MaxCrashes \in Nat

VARIABLES
    mapFile,     \* content of the map file
    indexFile,   \* content of the index file
    locked,      \* the process whose NpmStore holds the bucket files
    line,        \* where each process is
    procMap,     \* toc_map of the process, and then the JSON to write
    procIndices, \* indices of the process
    runs,        \* runs begun
    crashes,     \* crashes so far
    overlap      \* history: two runs have overlapped

filesVars == <<overlap, mapFile, indexFile, locked, line, procMap, procIndices, runs, crashes>>

\* The contents of a file: what a write that was cut short leaves (or none),
\* which does not parse, or the JSON of a map or of an index.
Torn      == <<>>
Json(c)   == <<c>>
Parsed(f) == f[1]

FilesInit ==
    /\ mapFile = Torn
    /\ indexFile = Torn
    /\ locked = Nobody
    /\ line = [p \in Procs |-> "idle"]
    /\ procMap = [p \in Procs |-> NoMap]
    /\ procIndices = [p \in Procs |-> {}]
    /\ runs = 0
    /\ crashes = 0
    /\ overlap = FALSE

Goto(p, l) == line' = [line EXCEPT ![p] = l]

\* restore_from_file reads the map file, then the index file.
ReadMap(p) ==
    /\ line[p] = "idle"
    /\ runs < MaxRuns
    /\ runs' = runs + 1
    /\ overlap' = (overlap \/ \E q \in Procs : line[q] # "idle")
    /\ IF mapFile = Torn
       THEN /\ procMap' = [procMap EXCEPT ![p] = NoMap]
            /\ procIndices' = [procIndices EXCEPT ![p] = {}]
            /\ Goto(p, "open")
       ELSE /\ procMap' = [procMap EXCEPT ![p] = Parsed(mapFile)]
            /\ Goto(p, "readIndex")
            /\ UNCHANGED procIndices
    /\ UNCHANGED <<mapFile, indexFile, locked, crashes>>

\* When a file does not parse, JsDownloader::new falls back to an empty store.
ReadIndex(p) ==
    /\ line[p] = "readIndex"
    /\ IF indexFile = Torn
       THEN /\ procMap' = [procMap EXCEPT ![p] = NoMap]
            /\ procIndices' = [procIndices EXCEPT ![p] = {}]
       ELSE /\ procIndices' = [procIndices EXCEPT ![p] = Parsed(indexFile)]
            /\ UNCHANGED procMap
    /\ Goto(p, "open")
    /\ UNCHANGED <<overlap, mapFile, indexFile, locked, runs, crashes>>

\* NpmStore::new locks every bucket file, or the run fails.
Open(p) ==
    /\ line[p] = "open"
    /\ \/ locked = Nobody /\ locked' = p /\ Goto(p, "download")
       \/ locked # Nobody /\ Goto(p, "idle") /\ UNCHANGED locked
    /\ UNCHANGED <<overlap, mapFile, indexFile, procMap, procIndices, runs, crashes>>

\* A package the store does not have is downloaded to some bucket.
Download(p) ==
    /\ line[p] = "download"
    /\ \E k \in Packages, b \in Buckets :
         /\ ~HasPackage(procIndices[p], k)
         /\ procMap' = [procMap EXCEPT ![p] = AddToc(@, b, k)]
         /\ procIndices' = [procIndices EXCEPT ![p] = AddIndex(@, k, b, Len(procMap[p][b]))]
    /\ UNCHANGED <<overlap, mapFile, indexFile, locked, line, runs, crashes>>

\* dump, then shutdown, which unlocks the buckets.
Shutdown(p) ==
    /\ line[p] = "download"
    /\ locked' = Nobody
    /\ Goto(p, "truncMap")
    /\ UNCHANGED <<overlap, mapFile, indexFile, procMap, procIndices, runs, crashes>>

\* Mutant: the files are written in the other order.
TruncMap_IndexFirst(p) ==
    /\ line[p] = "truncMap"
    /\ indexFile' = Json(procIndices[p])
    /\ mapFile' = IF mapFile = Torn THEN Json(NoMap) ELSE mapFile
    /\ Goto(p, "writeMap")
    /\ UNCHANGED <<overlap, locked, procMap, procIndices, runs, crashes>>

TruncMap(p) ==
    /\ line[p] = "truncMap"
    /\ mapFile' = Torn
    /\ Goto(p, "writeMap")
    /\ UNCHANGED <<overlap, indexFile, locked, procMap, procIndices, runs, crashes>>

WriteMap(p) ==
    /\ line[p] = "writeMap"
    /\ mapFile' = Json(procMap[p])
    /\ Goto(p, "truncIndex")
    /\ UNCHANGED <<overlap, indexFile, locked, procMap, procIndices, runs, crashes>>

TruncIndex(p) ==
    /\ line[p] = "truncIndex"
    /\ indexFile' = Torn
    /\ Goto(p, "writeIndex")
    /\ UNCHANGED <<overlap, mapFile, locked, procMap, procIndices, runs, crashes>>

WriteIndex(p) ==
    /\ line[p] = "writeIndex"
    /\ indexFile' = Json(procIndices[p])
    /\ Goto(p, "idle")
    /\ UNCHANGED <<overlap, mapFile, locked, procMap, procIndices, runs, crashes>>

Crash(p) ==
    /\ line[p] # "idle"
    /\ crashes < MaxCrashes
    /\ crashes' = crashes + 1
    /\ locked' = IF locked = p THEN Nobody ELSE locked
    /\ Goto(p, "idle")
    /\ UNCHANGED <<overlap, mapFile, indexFile, procMap, procIndices, runs>>

FilesNext == \E p \in Procs :
    \/ ReadMap(p) \/ ReadIndex(p) \/ Open(p) \/ Download(p) \/ Shutdown(p)
    \/ TruncMap(p) \/ WriteMap(p) \/ TruncIndex(p) \/ WriteIndex(p) \/ Crash(p)

FilesSpec == FilesInit /\ [][FilesNext]_filesVars

-----------------------------------------------------------------------------
(* Properties.                                                             *)

FilesTypeOK ==
    /\ mapFile # Torn => Parsed(mapFile) \in [Buckets -> Seq(EntryType)]
    /\ indexFile # Torn => Parsed(indexFile) \in SUBSET RangeType
    /\ locked \in Procs \cup {Nobody}
    /\ line \in [Procs -> {"idle", "readIndex", "open", "download",
                         "truncMap", "writeMap", "truncIndex", "writeIndex"}]
    /\ \A p \in Procs : StoreType(procMap[p], procIndices[p])
    /\ runs \in 0..MaxRuns
    /\ crashes \in 0..MaxCrashes
    /\ overlap \in BOOLEAN

(* A store built from files that parse never hands out a range outside its *)
(* bucket's list, nor another package's entries: otherwise the next reuse  *)
(* of a package panics in partition_clone, and aborts the process.         *)
(* "FIXME atomic write" (download_dependency.js 120): it takes the two     *)
(* files for one.                                                          *)
AlwaysConsistent ==
    \A p \in Procs : line[p] \in {"open", "download"} => Consistent(procMap[p], procIndices[p])

(* It is so as long as no two runs overlap and at most one has crashed:    *)
(* with the first crash at least one of the files does not parse, or both  *)
(* are of one run.                                                         *)
RestoredConsistent == FilesTypeOK /\ (~overlap /\ crashes <= 1 => AlwaysConsistent)

=============================================================================
