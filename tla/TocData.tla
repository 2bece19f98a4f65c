------------------------------ MODULE TocData -------------------------------
(***************************************************************************)
(* The data of a TocIndexStore (downloader/src/toc_index_store.rs) and the *)
(* functions that read and extend it.                                      *)
(*                                                                         *)
(* toc_map gives each bucket the list of the entries in its file; indices  *)
(* gives each package, per bucket, the range of that list its entries take.*)
(* An entry is <<k, n>>: the n-th entry of package k.  A missing bucket is *)
(* an empty list, and a range from..to is exclusive of `to` as in Rust,    *)
(* counted from zero.                                                      *)
(***************************************************************************)
EXTENDS Naturals, Sequences

CONSTANTS
    Packages,    \* packages, by name and version
    Buckets,     \* bucket file names
    EntryCount   \* EntryCount[k]: entries of package k's tarball

ASSUME TocAssumption == EntryCount \in [Packages -> Nat]

Entries(k) == [n \in 1..EntryCount[k] |-> <<k, n>>]

EntryType == Packages \X Nat
RangeType == [pkg : Packages, bucket : Buckets, from : Nat, to : Nat]

StoreType(m, i) ==
    /\ m \in [Buckets -> Seq(EntryType)]
    /\ i \in SUBSET RangeType

NoMap == [b \in Buckets |-> <<>>]

\* Mutant: HashMap::insert where the bucket's entries should be appended to.
AddToc_Replace(map, b, k) == [map EXCEPT ![b] = Entries(k)]

\* add_package_toc: the new map, whose range starts at the old length.
AddToc(map, b, k) == [map EXCEPT ![b] = @ \o Entries(k)]

\* Mutant: the end of the range is that of the last entry.
AddIndex_Short(indices, k, b, start) ==
    {r \in indices : r.pkg # k \/ r.bucket # b}
      \cup {[pkg |-> k, bucket |-> b, from |-> start,
             to |-> IF EntryCount[k] = 0 THEN start ELSE start + EntryCount[k] - 1]}

\* add_package_index: HashMap::insert replaces the range of the same bucket.
AddIndex(indices, k, b, start) ==
    {r \in indices : r.pkg # k \/ r.bucket # b}
      \cup {[pkg |-> k, bucket |-> b, from |-> start, to |-> start + EntryCount[k]]}

\* has_package
HasPackage(indices, k) == \E r \in indices : r.pkg = k

\* The slice partition_clone takes does not panic.
InBounds(map, r) == r.from <= r.to /\ r.to <= Len(map[r.bucket])

\* get_package picks some bucket of the package and clones its range.
Found(map, r) == SubSeq(map[r.bucket], r.from + 1, r.to)

\* Every range is inside its bucket's list and delimits that package's entries.
Consistent(map, indices) ==
    \A r \in indices :
        /\ InBounds(map, r)
        /\ r.to = r.from + EntryCount[r.pkg]
        /\ \A n \in 1..EntryCount[r.pkg] : map[r.bucket][r.from + n] = <<r.pkg, n>>
=============================================================================
