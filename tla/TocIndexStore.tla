--------------------------- MODULE TocIndexStore ----------------------------
(***************************************************************************)
(* The in-memory table of contents of a running downloader                 *)
(* (downloader/src/toc_index_store.rs), shared by its tasks.               *)
(*                                                                         *)
(* add_package takes the mutex twice: once to append the entries of the    *)
(* package to the bucket's list, once to record their range.  Other tasks  *)
(* may add, look up or dump in between.                                    *)
(***************************************************************************)
EXTENDS TocData

CONSTANTS
    Tasks,      \* tasks that call add_package
    Package,    \* Package[t], Bucket[t]: what task t adds, and where the
    Bucket,     \* store put it
    Readers,    \* tasks that reuse a package (do_batch_download's reuse_handler)
    Wanted,     \* Wanted[d]: the package reader d asks for
    Missing     \* the answer None of get_package

ASSUME StoreAssumption ==
    /\ Package \in [Tasks -> Packages]
    /\ Bucket \in [Tasks -> Buckets]
    /\ Wanted \in [Readers -> Packages]
    /\ Missing \notin Seq(EntryType)

VARIABLES
    map,       \* toc_map
    indices,   \* indices
    pc,        \* where each task is in add_package
    start,     \* the task's index_start
    rpc,       \* where each reader is: has_package, then get_package
    answer,    \* what get_package returned to the reader
    dumped     \* what the last dump returned

vars == <<map, indices, pc, start, rpc, answer, dumped>>

\* The store is new, or restored from the files of a run that ended well.
Init ==
    /\ map = NoMap
    /\ indices = {}
    /\ pc = [t \in Tasks |-> "toc"]
    /\ start = [t \in Tasks |-> 0]
    /\ rpc = [d \in Readers |-> "has"]
    /\ answer = [d \in Readers |-> Missing]
    /\ dumped = [map |-> NoMap, indices |-> {}]

\* Mutant: the range is recorded before the entries are there.
AddPackageToc_IndexFirst(t) ==
    /\ pc[t] = "toc"
    /\ start' = [start EXCEPT ![t] = Len(map[Bucket[t]])]
    /\ indices' = AddIndex(indices, Package[t], Bucket[t], Len(map[Bucket[t]]))
    /\ pc' = [pc EXCEPT ![t] = "index"]
    /\ UNCHANGED <<map, rpc, answer, dumped>>

AddPackageToc(t) ==
    /\ pc[t] = "toc"
    /\ start' = [start EXCEPT ![t] = Len(map[Bucket[t]])]
    /\ map' = AddToc(map, Bucket[t], Package[t])
    /\ pc' = [pc EXCEPT ![t] = "index"]
    /\ UNCHANGED <<indices, rpc, answer, dumped>>

AddPackageIndex(t) ==
    /\ pc[t] = "index"
    /\ indices' = AddIndex(indices, Package[t], Bucket[t], start[t])
    /\ pc' = [pc EXCEPT ![t] = "done"]
    /\ UNCHANGED <<map, start, rpc, answer, dumped>>

\* do_batch_download partitions on has_package before it spawns the reuse task.
AskHas(d) ==
    /\ rpc[d] = "has"
    /\ rpc' = [rpc EXCEPT ![d] =
         IF HasPackage(indices, Wanted[d]) THEN "get" ELSE "download"]
    /\ UNCHANGED <<map, indices, pc, start, answer, dumped>>

GetPackage(d) ==
    /\ rpc[d] = "get"
    /\ \/ \E r \in indices :
            /\ r.pkg = Wanted[d]
            /\ answer' = [answer EXCEPT ![d] = Found(map, r)]
       \/ /\ ~HasPackage(indices, Wanted[d])
          /\ answer' = [answer EXCEPT ![d] = Missing]
    /\ rpc' = [rpc EXCEPT ![d] = "answered"]
    /\ UNCHANGED <<map, indices, pc, start, dumped>>

Dump ==
    /\ dumped' = [map |-> map, indices |-> indices]
    /\ UNCHANGED <<map, indices, pc, start, rpc, answer>>

Next ==
    \/ \E t \in Tasks : AddPackageToc(t) \/ AddPackageIndex(t)
    \/ \E d \in Readers : AskHas(d) \/ GetPackage(d)
    \/ Dump

Spec == Init /\ [][Next]_vars

-----------------------------------------------------------------------------
(* Properties.                                                             *)

TypeOK ==
    /\ StoreType(map, indices)
    /\ pc \in [Tasks -> {"toc", "index", "done"}]
    /\ start \in [Tasks -> Nat]
    /\ rpc \in [Readers -> {"has", "get", "download", "answered"}]
    /\ answer \in [Readers -> Seq(EntryType) \cup {Missing}]
    /\ StoreType(dumped.map, dumped.indices)

(* The range recorded for a package delimits that package's entries and    *)
(* nothing else, although other tasks append to the same bucket between    *)
(* add_package_toc and add_package_index; so partition_clone never panics  *)
(* with the mutex held.                                                    *)
RangesExact == Consistent(map, indices)

(* So does every range of a dump, whenever it is taken.                    *)
DumpConsistent == Consistent(dumped.map, dumped.indices)

(* Both: add_package is as good as atomic to whoever reads or dumps.       *)
TocConsistent == RangesExact /\ DumpConsistent

(* A reader that was told the package is there gets all of its entries:    *)
(* the answer of has_package is still good when get_package is called, and *)
(* the error "not found package ... cache" of the reuse task cannot occur. *)
ReuseSucceeds ==
    \A d \in Readers : rpc[d] = "answered" => answer[d] = Entries(Wanted[d])

(* A range handed out stays good: lists only grow at their end, and a      *)
(* package once present stays present.                                     *)
OnlyGrows ==
    [][/\ \A b \in Buckets : /\ Len(map[b]) <= Len(map'[b])
                             /\ \A i \in 1..Len(map[b]) : map'[b][i] = map[b][i]
       /\ \A k \in Packages : HasPackage(indices, k) => HasPackage(indices', k)
      ]_<<map, indices>>

=============================================================================
