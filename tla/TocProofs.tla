------------------------------ MODULE TocProofs -------------------------------
(***************************************************************************)
(* The table of contents.  In memory (TocIndexStore) it is right for every *)
(* number of tasks, packages, buckets and entries, in whatever order the   *)
(* halves of add_package, the lookups and the dumps come.  On disk         *)
(* (TocFiles) what a run restores from the two files is consistent as long *)
(* as no two runs overlap and at most one has died, for any number of      *)
(* processes and of runs.                                                  *)
(***************************************************************************)
EXTENDS TocIndexStore, TocFiles, TLAPS

-----------------------------------------------------------------------------
(* What the functions of TocData do, for any numbers of entries.          *)

\* The entries of package k are in the list of bucket b, from index i on.
Placed(m, k, b, i) ==
    /\ i + EntryCount[k] <= Len(m[b])
    /\ \A n \in 1..EntryCount[k] : m[b][i + n] = <<k, n>>

LEMMA EntriesType ==
    ASSUME NEW k \in Packages
    PROVE  /\ Entries(k) \in Seq(EntryType)
           /\ Len(Entries(k)) = EntryCount[k]
           /\ EntryCount[k] \in Nat
<1>1. EntryCount[k] \in Nat
  BY TocAssumption
<1>2. \A n \in 1..EntryCount[k] : <<k, n>> \in EntryType
  BY <1>1 DEF EntryType
<1> QED
  BY <1>1, <1>2 DEF Entries

LEMMA ConcatFacts ==
    ASSUME NEW S, NEW s \in Seq(S), NEW u \in Seq(S)
    PROVE  /\ Len(s \o u) = Len(s) + Len(u)
           /\ \A p \in 1..Len(s) : (s \o u)[p] = s[p]
           /\ \A n \in 1..Len(u) : (s \o u)[Len(s) + n] = u[n]
<1>1. Len(s \o u) = Len(s) + Len(u)
  OBVIOUS
<1>2. \A p \in 1..Len(s) : (s \o u)[p] = s[p]
  OBVIOUS
<1>3. \A n \in 1..Len(u) : (s \o u)[Len(s) + n] = u[n]
  OBVIOUS
<1> QED
  BY <1>1, <1>2, <1>3

(* add_package_toc appends to one list: what is placed stays placed, and   *)
(* the new entries are placed at the old length.                           *)
LEMMA AddTocPlaces ==
    ASSUME NEW m \in [Buckets -> Seq(EntryType)], NEW k \in Packages, NEW b \in Buckets
    PROVE  /\ AddToc(m, b, k) \in [Buckets -> Seq(EntryType)]
           /\ Placed(AddToc(m, b, k), k, b, Len(m[b]))
           /\ \A j \in Packages, c \in Buckets, i \in Nat :
                Placed(m, j, c, i) => Placed(AddToc(m, b, k), j, c, i)
<1> DEFINE m1 == AddToc(m, b, k)
<1>1. /\ m1[b] = m[b] \o Entries(k)
      /\ \A c \in Buckets \ {b} : m1[c] = m[c]
      /\ m1 \in [Buckets -> Seq(EntryType)]
  BY EntriesType DEF AddToc
<1> HIDE DEF m1
<1>2. /\ Len(m[b]) \in Nat /\ EntryCount[k] \in Nat
      /\ Len(m1[b]) = Len(m[b]) + EntryCount[k]
      /\ \A p \in 1..Len(m[b]) : m1[b][p] = m[b][p]
      /\ \A n \in 1..EntryCount[k] : m1[b][Len(m[b]) + n] = <<k, n>>
  <2>1. m[b] \in Seq(EntryType) /\ Entries(k) \in Seq(EntryType)
    BY EntriesType
  <2>2. Len(Entries(k)) = EntryCount[k] /\ EntryCount[k] \in Nat
    BY EntriesType
  <2>3. \A n \in 1..EntryCount[k] : Entries(k)[n] = <<k, n>>
    BY DEF Entries
  <2>4. /\ Len(m1[b]) = Len(m[b]) + Len(Entries(k))
        /\ \A p \in 1..Len(m[b]) : m1[b][p] = m[b][p]
        /\ \A n \in 1..Len(Entries(k)) : m1[b][Len(m[b]) + n] = Entries(k)[n]
    BY <1>1, <2>1, ConcatFacts
  <2>5. Len(m[b]) \in Nat
    BY <2>1
  <2> QED
    BY <2>2, <2>3, <2>4, <2>5
<1>3. Placed(m1, k, b, Len(m[b]))
  BY <1>2 DEF Placed
<1>4. ASSUME NEW j \in Packages, NEW c \in Buckets, NEW i \in Nat, Placed(m, j, c, i)
      PROVE  Placed(m1, j, c, i)
  <2>1. CASE c # b
    BY <1>1, <1>4, <2>1 DEF Placed
  <2>2. CASE c = b
    <3>1. EntryCount[j] \in Nat
      BY EntriesType
    <3>2. \A n \in 1..EntryCount[j] : i + n \in 1..Len(m[b])
      BY <1>2, <1>4, <2>2, <3>1 DEF Placed
    <3>3. ASSUME NEW n \in 1..EntryCount[j] PROVE m1[b][i + n] = <<j, n>>
      <4>1. m1[b][i + n] = m[b][i + n]
        BY <1>2, <3>2
      <4>2. m[c][i + n] = <<j, n>>
        BY <1>4 DEF Placed
      <4> QED
        BY <4>1, <4>2, <2>2
    <3>4. i + EntryCount[j] <= Len(m1[b])
      BY <1>2, <1>4, <2>2, <3>1 DEF Placed
    <3> QED
      BY <2>2, <3>3, <3>4 DEF Placed
  <2> QED
    BY <2>1, <2>2
<1> QED
  BY <1>1, <1>3, <1>4 DEF m1

(* What Consistent says of a range is that its package is placed there.    *)
LEMMA ConsistentIsPlaced ==
    ASSUME NEW m \in [Buckets -> Seq(EntryType)], NEW i \in SUBSET RangeType
    PROVE  Consistent(m, i) <=>
             \A r \in i : /\ r.to = r.from + EntryCount[r.pkg]
                          /\ Placed(m, r.pkg, r.bucket, r.from)
<1>1. \A r \in i : /\ r.pkg \in Packages /\ r.bucket \in Buckets
                   /\ r.from \in Nat /\ r.to \in Nat /\ EntryCount[r.pkg] \in Nat
                   /\ Len(m[r.bucket]) \in Nat
  BY TocAssumption DEF RangeType
<1> QED
  BY <1>1 DEF Consistent, InBounds, Placed

LEMMA AddIndexConsistent ==
    ASSUME NEW m \in [Buckets -> Seq(EntryType)], NEW i \in SUBSET RangeType,
           NEW k \in Packages, NEW b \in Buckets, NEW s \in Nat,
           Consistent(m, i), Placed(m, k, b, s)
    PROVE  /\ AddIndex(i, k, b, s) \in SUBSET RangeType
           /\ Consistent(m, AddIndex(i, k, b, s))
<1> DEFINE r0 == [pkg |-> k, bucket |-> b, from |-> s, to |-> s + EntryCount[k]]
<1>1. r0 \in RangeType
  BY TocAssumption DEF RangeType
<1>2. AddIndex(i, k, b, s) \in SUBSET RangeType
  BY <1>1 DEF AddIndex
<1>3. \A r \in AddIndex(i, k, b, s) : r \in i \/ r = r0
  BY DEF AddIndex
<1>4. r0.to = r0.from + EntryCount[r0.pkg] /\ Placed(m, r0.pkg, r0.bucket, r0.from)
  OBVIOUS
<1>5. \A r \in i : r.to = r.from + EntryCount[r.pkg] /\ Placed(m, r.pkg, r.bucket, r.from)
  BY ConsistentIsPlaced
<1>6. \A r \in AddIndex(i, k, b, s) :
        r.to = r.from + EntryCount[r.pkg] /\ Placed(m, r.pkg, r.bucket, r.from)
  BY <1>3, <1>4, <1>5
<1> QED
  BY <1>2, <1>6, ConsistentIsPlaced

LEMMA FoundIsEntries ==
    ASSUME NEW m \in [Buckets -> Seq(EntryType)], NEW r \in RangeType,
           r.to = r.from + EntryCount[r.pkg], Placed(m, r.pkg, r.bucket, r.from)
    PROVE  Found(m, r) = Entries(r.pkg)
<1> DEFINE s == m[r.bucket]
           c == EntryCount[r.pkg]
           i == r.from
<1>1. s \in Seq(EntryType) /\ c \in Nat /\ i \in Nat /\ Len(s) \in Nat
  BY TocAssumption DEF RangeType
<1>2. i + c <= Len(s) /\ \A n \in 1..c : s[i + n] = <<r.pkg, n>>
  BY DEF Placed
<1>3. Found(m, r) = SubSeq(s, i + 1, i + c)
  BY DEF Found
<1> HIDE DEF s, c, i
<1>4. SubSeq(s, i + 1, i + c) = [n \in 1..c |-> s[i + n]]
  <2>1. SubSeq(s, i + 1, i + c) \in Seq(EntryType)
    BY <1>1, <1>2
  <2>2. Len(SubSeq(s, i + 1, i + c)) = c
    BY <1>1, <1>2
  <2>3. \A n \in 1..c : SubSeq(s, i + 1, i + c)[n] = s[i + n]
    BY <1>1, <1>2
  <2> QED
    BY <2>1, <2>2, <2>3, <1>1
<1>5. [n \in 1..c |-> s[i + n]] = [n \in 1..c |-> <<r.pkg, n>>]
  BY <1>2
<1> QED
  BY <1>3, <1>4, <1>5 DEF Entries, c

(* add_package_index keeps every package it does not replace the range of. *)
LEMMA AddIndexKeeps ==
    ASSUME NEW i, NEW k \in Packages, NEW b, NEW s, NEW j, HasPackage(i, j) \/ j = k
    PROVE  HasPackage(AddIndex(i, k, b, s), j)
<1> DEFINE r0 == [pkg |-> k, bucket |-> b, from |-> s, to |-> s + EntryCount[k]]
<1>1. r0 \in AddIndex(i, k, b, s) /\ r0.pkg = k
  BY DEF AddIndex
<1>2. CASE j = k
  BY <1>1, <1>2 DEF HasPackage
<1>3. CASE j # k
  <2>1. PICK r \in i : r.pkg = j
    BY <1>3 DEF HasPackage
  <2>2. r \in AddIndex(i, k, b, s)
    BY <1>3, <2>1 DEF AddIndex
  <2> QED
    BY <2>1, <2>2 DEF HasPackage
<1> QED
  BY <1>2, <1>3

-----------------------------------------------------------------------------
(* What holds in between.                                                  *)

(* A task between the two halves of add_package knows where its entries    *)
(* are: nobody moves them while it does not hold the mutex.                *)
Pending == \A t \in Tasks : pc[t] = "index" => Placed(map, Package[t], Bucket[t], start[t])

(* A reader that was told "has" still finds a range.                       *)
StillThere == \A d \in Readers : rpc[d] = "get" => HasPackage(indices, Wanted[d])

IInv == TypeOK /\ Pending /\ RangesExact /\ DumpConsistent

-----------------------------------------------------------------------------
(* The invariant.                                                          *)

LEMMA InitInvariant == Init => IInv
<1> SUFFICES ASSUME Init PROVE IInv
  OBVIOUS
<1>1. TypeOK
  BY StoreAssumption DEF Init, TypeOK, StoreType, NoMap
<1>2. Pending
  BY DEF Init, Pending
<1>3. RangesExact /\ DumpConsistent
  BY DEF Init, RangesExact, DumpConsistent, Consistent
<1> QED
  BY <1>1, <1>2, <1>3 DEF IInv

LEMMA NextInvariant == IInv /\ [Next]_vars => IInv'
<1> SUFFICES ASSUME IInv, [Next]_vars PROVE IInv'
  OBVIOUS
<1> USE DEF IInv
<1>0. /\ map \in [Buckets -> Seq(EntryType)]
      /\ indices \in SUBSET RangeType
      /\ \A b \in Buckets : Len(map[b]) \in Nat
      /\ \A k \in Packages : EntryCount[k] \in Nat
  BY TocAssumption DEF TypeOK, StoreType
<1>1. ASSUME NEW t \in Tasks, AddPackageToc(t) PROVE IInv'
  <2> DEFINE b == Bucket[t]
             k == Package[t]
  <2>1. b \in Buckets /\ k \in Packages
    BY StoreAssumption
  <2>2. /\ map' = AddToc(map, b, k)
        /\ map' \in [Buckets -> Seq(EntryType)]
        /\ Placed(map', k, b, Len(map[b]))
        /\ \A j \in Packages, c \in Buckets, i \in Nat :
             Placed(map, j, c, i) => Placed(map', j, c, i)
    BY <1>0, <1>1, <2>1, AddTocPlaces DEF AddPackageToc
  <2>3. TypeOK'
    BY <1>0, <1>1, <2>1, <2>2 DEF AddPackageToc, TypeOK, StoreType
  <2>4. Pending'
    <3> SUFFICES ASSUME NEW u \in Tasks, pc'[u] = "index"
                 PROVE  Placed(map', Package[u], Bucket[u], start'[u])
      BY DEF Pending, Placed
    <3>1. CASE u = t
      BY <1>1, <2>2, <3>1 DEF AddPackageToc, TypeOK
    <3>2. CASE u # t
      <4>1. pc[u] = "index" /\ start'[u] = start[u]
        BY <1>1, <3>2 DEF AddPackageToc, TypeOK
      <4>2. Placed(map, Package[u], Bucket[u], start[u])
        BY <4>1 DEF Pending
      <4>3. Package[u] \in Packages /\ Bucket[u] \in Buckets /\ start[u] \in Nat
        BY StoreAssumption DEF TypeOK
      <4> QED
        BY <2>2, <4>1, <4>2, <4>3
    <3> QED
      BY <3>1, <3>2
  <2>5. RangesExact'
    <3>1. \A r \in indices : r.pkg \in Packages /\ r.bucket \in Buckets /\ r.from \in Nat
      BY <1>0 DEF RangeType
    <3>2. \A r \in indices : /\ r.to = r.from + EntryCount[r.pkg]
                              /\ Placed(map, r.pkg, r.bucket, r.from)
      BY <1>0, ConsistentIsPlaced DEF RangesExact
    <3>3. \A r \in indices : /\ r.to = r.from + EntryCount[r.pkg]
                              /\ Placed(map', r.pkg, r.bucket, r.from)
      BY <2>2, <3>1, <3>2
    <3>4. Consistent(map', indices)
      BY <1>0, <2>2, <3>3, ConsistentIsPlaced
    <3> QED
      BY <1>1, <3>4 DEF AddPackageToc, RangesExact, Consistent, InBounds
  <2>6. DumpConsistent'
    BY <1>1 DEF AddPackageToc, DumpConsistent, Consistent, InBounds
  <2> QED
    BY <2>3, <2>4, <2>5, <2>6
<1>2. ASSUME NEW t \in Tasks, AddPackageIndex(t) PROVE IInv'
  <2>1. Package[t] \in Packages /\ Bucket[t] \in Buckets /\ start[t] \in Nat
    BY StoreAssumption DEF TypeOK
  <2>2. Placed(map, Package[t], Bucket[t], start[t])
    BY <1>2 DEF AddPackageIndex, Pending
  <2>3. indices' \in SUBSET RangeType /\ Consistent(map, indices')
    BY <1>0, <1>2, <2>1, <2>2, AddIndexConsistent DEF AddPackageIndex, RangesExact
  <2>4. TypeOK'
    BY <1>2, <2>3 DEF AddPackageIndex, TypeOK, StoreType
  <2>5. Pending'
    BY <1>2 DEF AddPackageIndex, Pending, Placed, TypeOK
  <2>6. RangesExact' /\ DumpConsistent'
    BY <1>2, <2>3 DEF AddPackageIndex, RangesExact, DumpConsistent, Consistent, InBounds
  <2> QED
    BY <2>4, <2>5, <2>6
<1>3. ASSUME NEW d \in Readers, AskHas(d) PROVE IInv'
  BY <1>3 DEF AskHas, TypeOK, StoreType, Pending, Placed, RangesExact, DumpConsistent,
              Consistent, InBounds
<1>4. ASSUME NEW d \in Readers, GetPackage(d) PROVE IInv'
  <2>1. answer'[d] \in Seq(EntryType) \cup {Missing}
    <3>1. CASE answer' = [answer EXCEPT ![d] = Missing]
      BY <3>1 DEF TypeOK
    <3>2. ASSUME NEW r \in indices, answer' = [answer EXCEPT ![d] = Found(map, r)]
          PROVE  answer'[d] \in Seq(EntryType) \cup {Missing}
      <4>1. r \in RangeType /\ map[r.bucket] \in Seq(EntryType)
        BY <1>0 DEF RangeType
      <4>2. InBounds(map, r)
        BY DEF RangesExact, Consistent
      <4>3. Found(map, r) \in Seq(EntryType)
        BY <4>1, <4>2 DEF Found, InBounds, RangeType
      <4> QED
        BY <3>2, <4>3 DEF TypeOK
    <3> QED
      BY <1>4, <3>1, <3>2 DEF GetPackage
  <2>2. answer' \in [Readers -> Seq(EntryType) \cup {Missing}]
    BY <1>4, <2>1 DEF GetPackage, TypeOK
  <2>3. TypeOK'
    BY <1>4, <2>2 DEF GetPackage, TypeOK, StoreType
  <2> QED
    BY <1>4, <2>3 DEF GetPackage, Pending, Placed, RangesExact, DumpConsistent,
                      Consistent, InBounds
<1>5. CASE Dump
  BY <1>5 DEF Dump, TypeOK, StoreType, Pending, Placed, RangesExact, DumpConsistent,
              Consistent, InBounds
<1>6. CASE UNCHANGED vars
  BY <1>6 DEF vars, TypeOK, StoreType, Pending, Placed, RangesExact, DumpConsistent,
              Consistent, InBounds
<1> QED
  BY <1>1, <1>2, <1>3, <1>4, <1>5, <1>6 DEF Next

(* Every range recorded delimits its package's entries, in the store and   *)
(* in every dump, whatever is added, looked up or dumped between the two   *)
(* halves of add_package: partition_clone never panics.                    *)
THEOREM TocIsConsistent == Spec => [](TypeOK /\ TocConsistent)
<1>1. IInv => TypeOK /\ TocConsistent
  BY DEF IInv, TocConsistent
<1> QED
  BY InitInvariant, NextInvariant, <1>1, PTL DEF Spec
-----------------------------------------------------------------------------
(* What a reader is told stays true until it comes back for the entries.   *)

ReaderInv ==
    /\ StillThere
    /\ ReuseSucceeds

\* A package once present stays present.
LEMMA PackagesStay ==
    ASSUME [Next]_vars
    PROVE  \A k \in Packages : HasPackage(indices, k) => HasPackage(indices', k)
<1>1. ASSUME NEW t \in Tasks, AddPackageIndex(t), NEW k \in Packages, HasPackage(indices, k)
      PROVE  HasPackage(indices', k)
  BY <1>1, StoreAssumption, AddIndexKeeps DEF AddPackageIndex
<1>2. (\A t \in Tasks : ~AddPackageIndex(t)) => indices' = indices
  BY DEF Next, AddPackageToc, AskHas, GetPackage, Dump, vars
<1> QED
  BY <1>1, <1>2

LEMMA ReaderStep == IInv /\ IInv' /\ ReaderInv /\ [Next]_vars => ReaderInv'
<1> SUFFICES ASSUME IInv, ReaderInv, [Next]_vars PROVE ReaderInv'
  OBVIOUS
<1>0. \A k \in Packages : HasPackage(indices, k) => HasPackage(indices', k)
  BY PackagesStay
<1>1. ASSUME NEW d \in Readers, rpc' = rpc, answer' = answer
      PROVE  /\ rpc'[d] = "get" => HasPackage(indices', Wanted[d])
             /\ rpc'[d] = "answered" => answer'[d] = Entries(Wanted[d])
  BY <1>0, <1>1, StoreAssumption DEF ReaderInv, StillThere, ReuseSucceeds
<1>2. ASSUME NEW e \in Readers, AskHas(e) PROVE ReaderInv'
  <2>1. indices' = indices /\ answer' = answer
    BY <1>2 DEF AskHas
  <2>2. ASSUME NEW d \in Readers
        PROVE  /\ rpc'[d] = "get" => HasPackage(indices', Wanted[d])
               /\ rpc'[d] = "answered" => answer'[d] = Entries(Wanted[d])
    BY <1>2, <2>1 DEF AskHas, ReaderInv, StillThere, ReuseSucceeds, IInv, TypeOK
  <2> QED
    BY <2>2 DEF ReaderInv, StillThere, ReuseSucceeds
<1>3. ASSUME NEW e \in Readers, GetPackage(e) PROVE ReaderInv'
  <2>1. HasPackage(indices, Wanted[e]) /\ indices' = indices
    BY <1>3 DEF GetPackage, ReaderInv, StillThere
  <2>2. PICK r \in indices : r.pkg = Wanted[e] /\ answer' = [answer EXCEPT ![e] = Found(map, r)]
    BY <1>3, <2>1 DEF GetPackage
  <2>3. Found(map, r) = Entries(Wanted[e])
    <3>1. map \in [Buckets -> Seq(EntryType)] /\ indices \in SUBSET RangeType
      BY DEF IInv, TypeOK, StoreType
    <3>2. r.to = r.from + EntryCount[r.pkg] /\ Placed(map, r.pkg, r.bucket, r.from)
      BY <3>1, ConsistentIsPlaced DEF IInv, RangesExact
    <3> QED
      BY <2>2, <3>1, <3>2, FoundIsEntries
  <2>4. ASSUME NEW d \in Readers
        PROVE  /\ rpc'[d] = "get" => HasPackage(indices', Wanted[d])
               /\ rpc'[d] = "answered" => answer'[d] = Entries(Wanted[d])
    BY <1>3, <2>1, <2>2, <2>3 DEF GetPackage, ReaderInv, StillThere, ReuseSucceeds, IInv, TypeOK
  <2> QED
    BY <2>4 DEF ReaderInv, StillThere, ReuseSucceeds
<1>4. CASE (\A e \in Readers : ~AskHas(e) /\ ~GetPackage(e))
  <2>1. rpc' = rpc /\ answer' = answer
    BY <1>4 DEF Next, AddPackageToc, AddPackageIndex, Dump, vars
  <2> QED
    BY <1>1, <2>1 DEF ReaderInv, StillThere, ReuseSucceeds
<1> QED
  BY <1>2, <1>3, <1>4

(* A package that has_package reported is found, with exactly its entries, *)
(* by the get_package of the reuse task, whatever happens in between: the  *)
(* error "not found package ... cache" cannot occur.                       *)
THEOREM ReuseAlwaysSucceeds == Spec => []ReuseSucceeds
<1>1. Init => ReaderInv
  BY DEF Init, ReaderInv, StillThere, ReuseSucceeds
<1>2. ReaderInv => ReuseSucceeds
  BY DEF ReaderInv
<1> QED
  BY InitInvariant, NextInvariant, ReaderStep, <1>1, <1>2, PTL DEF Spec

-----------------------------------------------------------------------------
(* A range handed out stays good: a bucket's list grows at its end only,   *)
(* and no package leaves the index (add_package, add_package_index).       *)
THEOREM TocOnlyGrows == Spec => OnlyGrows
<1> DEFINE Grows ==
      /\ \A b \in Buckets : /\ Len(map[b]) <= Len(map'[b])
                            /\ \A i \in 1..Len(map[b]) : map'[b][i] = map[b][i]
      /\ \A k \in Packages : HasPackage(indices, k) => HasPackage(indices', k)
<1>1. ASSUME IInv, [Next]_vars PROVE Grows
  <2>0. map \in [Buckets -> Seq(EntryType)] /\ \A b \in Buckets : Len(map[b]) \in Nat
    BY <1>1 DEF IInv, TypeOK, StoreType
  <2>1. CASE \E t \in Tasks : AddPackageToc(t)
    <3>1. PICK t \in Tasks : map' = AddToc(map, Bucket[t], Package[t])
      BY <2>1 DEF AddPackageToc
    <3>2. Bucket[t] \in Buckets /\ Package[t] \in Packages
      BY StoreAssumption
    <3>3. /\ map'[Bucket[t]] = map[Bucket[t]] \o Entries(Package[t])
          /\ \A b \in Buckets : b # Bucket[t] => map'[b] = map[b]
      BY <2>0, <3>1, <3>2 DEF AddToc
    <3>4. ASSUME NEW b \in Buckets
          PROVE  Len(map[b]) <= Len(map'[b]) /\ \A i \in 1..Len(map[b]) : map'[b][i] = map[b][i]
      <4>1. CASE b = Bucket[t]
        <5> DEFINE u == Entries(Package[t])
        <5>1. u \in Seq(EntryType) /\ Len(u) \in Nat /\ map[b] \in Seq(EntryType) /\ Len(map[b]) \in Nat
          BY <2>0, <3>2, EntriesType
        <5>2. map'[b] = map[b] \o u
          BY <3>3, <4>1
        <5> HIDE DEF u
        <5>3. /\ Len(map[b] \o u) = Len(map[b]) + Len(u)
              /\ \A i \in 1..Len(map[b]) : (map[b] \o u)[i] = map[b][i]
          BY <5>1, ConcatFacts
        <5> QED
          BY <5>1, <5>2, <5>3
      <4>2. CASE b # Bucket[t]
        BY <2>0, <3>3, <4>2
      <4> QED
        BY <4>1, <4>2
    <3> QED
      BY <1>1, <3>4, PackagesStay
  <2>2. CASE ~\E t \in Tasks : AddPackageToc(t)
    <3>1. map' = map
      BY <1>1, <2>2 DEF Next, AddPackageIndex, AskHas, GetPackage, Dump, vars
    <3> QED
      BY <1>1, <2>0, <3>1, PackagesStay
  <2> QED
    BY <2>1, <2>2
<1>2. IInv /\ [Next]_vars => [Grows]_<<map, indices>>
  BY <1>1
<1> QED
  BY InitInvariant, NextInvariant, <1>2, PTL DEF Spec, OnlyGrows

-----------------------------------------------------------------------------
(***************************************************************************)
(* The two files.  The invariant: only one process is at work, and         *)
(* (Written) the files are what the line it has reached left of them.      *)
(* Between the two writes the map is new and the index old; as long as     *)
(* nobody has died the old index is consistent with the new map too (Old), *)
(* because the new map extends the one the old index was written with.     *)
(* After a death it need not be, but then nobody dies any more and the     *)
(* index is written.                                                       *)
(***************************************************************************)

Maps == [Buckets -> Seq(EntryType)]

\* The files, if both parse, are of one store.
Pair == mapFile # Torn /\ indexFile # Torn => Consistent(Parsed(mapFile), Parsed(indexFile))

\* As TypeOK, without the bounds.
FileTypes ==
    /\ mapFile = Torn \/ mapFile \in {Json(m) : m \in Maps}
    /\ indexFile = Torn \/ indexFile \in {Json(i) : i \in SUBSET RangeType}
    /\ locked \in Procs \cup {Nobody}
    /\ line \in [Procs -> {"idle", "readIndex", "open", "download",
                         "truncMap", "writeMap", "truncIndex", "writeIndex"}]
    /\ procMap \in [Procs -> Maps]
    /\ procIndices \in [Procs -> SUBSET RangeType]
    /\ runs \in 0..MaxRuns
    /\ crashes \in 0..MaxCrashes
    /\ overlap \in BOOLEAN

\* The buckets are locked by a process that downloads.
Held == locked # Nobody => line[locked] = "download"

Alone == \A p, q \in Procs : line[p] # "idle" /\ line[q] # "idle" => p = q

\* Every process works on a store that is consistent.
Sound == \A p \in Procs : line[p] \notin {"idle", "readIndex"} => Consistent(procMap[p], procIndices[p])

\* What the files hold while p is where it is.
Written(p) ==
    /\ line[p] = "readIndex" => mapFile = Json(procMap[p])
    /\ line[p] = "writeMap" => mapFile = Torn
    /\ line[p] \in {"truncIndex", "writeIndex"} => mapFile = Json(procMap[p])
    /\ line[p] = "writeIndex" => indexFile = Torn

\* The index of the run before, while nobody has died.
Old(p) ==
    /\ line[p] = "readIndex" => indexFile # Torn
    /\ line[p] \notin {"idle", "readIndex"} => indexFile = Torn \/ Consistent(procMap[p], Parsed(indexFile))

Settled ==
    /\ \A p \in Procs : Written(p)
    /\ (\A p \in Procs : line[p] # "truncIndex") => Pair
    /\ crashes = 0 => \A p \in Procs : Old(p)
    /\ crashes = 0 /\ (\A p \in Procs : line[p] = "idle") => (mapFile = Torn <=> indexFile = Torn)

FilesInv == FileTypes /\ Held /\ (~overlap /\ crashes <= 1 => Alone /\ Sound /\ Settled)

LEMMA FilesInitInv == FilesInit => FilesInv
<1> SUFFICES ASSUME FilesInit PROVE FilesInv
  OBVIOUS
<1>1. NoMap \in Maps
  BY DEF NoMap, Maps
<1>2. FileTypes
  <2>1. procMap \in [Procs -> Maps] /\ procIndices \in [Procs -> SUBSET RangeType]
    BY <1>1 DEF FilesInit
  <2>2. 0 \in 0..MaxRuns /\ 0 \in 0..MaxCrashes
    BY FilesAssumption
  <2> QED
    BY <2>1, <2>2 DEF FilesInit, FileTypes
<1>3. Held /\ Alone /\ Sound /\ Settled
  BY DEF FilesInit, Held, Alone, Sound, Settled, Written, Old, Pair
<1> QED
  BY <1>2, <1>3 DEF FilesInv

(* What a process has downloaded is consistent with what it had, and an    *)
(* index that was consistent with the map stays so.                        *)
LEMMA DownloadKeeps ==
    ASSUME NEW m \in Maps, NEW i \in SUBSET RangeType, NEW j \in SUBSET RangeType,
           NEW k \in Packages, NEW b \in Buckets
    PROVE  /\ AddToc(m, b, k) \in Maps
           /\ AddIndex(i, k, b, Len(m[b])) \in SUBSET RangeType
           /\ Consistent(m, i) => Consistent(AddToc(m, b, k), AddIndex(i, k, b, Len(m[b])))
           /\ Consistent(m, j) => Consistent(AddToc(m, b, k), j)
<1> DEFINE m1 == AddToc(m, b, k)
           s == Len(m[b])
<1>1. m \in [Buckets -> Seq(EntryType)] /\ s \in Nat
  BY DEF Maps
<1>2. /\ m1 \in [Buckets -> Seq(EntryType)]
      /\ Placed(m1, k, b, s)
      /\ \A q \in Packages, c \in Buckets, n \in Nat : Placed(m, q, c, n) => Placed(m1, q, c, n)
  BY <1>1, AddTocPlaces
<1> HIDE DEF m1, s
<1>3. ASSUME NEW h \in SUBSET RangeType, Consistent(m, h) PROVE Consistent(m1, h)
  <2>1. \A r \in h : /\ r.to = r.from + EntryCount[r.pkg]
                     /\ Placed(m, r.pkg, r.bucket, r.from)
    BY <1>1, <1>3, ConsistentIsPlaced
  <2>2. \A r \in h : r.pkg \in Packages /\ r.bucket \in Buckets /\ r.from \in Nat
    BY DEF RangeType
  <2>3. \A r \in h : /\ r.to = r.from + EntryCount[r.pkg]
                     /\ Placed(m1, r.pkg, r.bucket, r.from)
    BY <1>2, <2>1, <2>2
  <2> QED
    BY <1>2, <2>3, ConsistentIsPlaced
<1>4. Consistent(m1, i) => Consistent(m1, AddIndex(i, k, b, s))
  BY <1>1, <1>2, AddIndexConsistent
<1>5. AddIndex(i, k, b, s) \in SUBSET RangeType
  BY <1>1, TocAssumption DEF AddIndex, RangeType
<1> QED
  BY <1>1, <1>2, <1>3, <1>4, <1>5 DEF Maps, m1, s

LEMMA NextTypes == FilesInv /\ [FilesNext]_filesVars => FileTypes'
<1> SUFFICES ASSUME FileTypes, [FilesNext]_filesVars PROVE FileTypes'
  BY DEF FilesInv
<1> USE DEF FileTypes, Goto
<1>n. NoMap \in Maps
  BY DEF NoMap, Maps
<1>f. /\ mapFile # Torn => Parsed(mapFile) \in Maps
      /\ indexFile # Torn => Parsed(indexFile) \in SUBSET RangeType
  BY DEF Json, Parsed
<1>1. ASSUME NEW p \in Procs, ReadMap(p) PROVE FileTypes'
  BY <1>1, <1>n, <1>f, FilesAssumption DEF ReadMap
<1>2. ASSUME NEW p \in Procs, ReadIndex(p) PROVE FileTypes'
  BY <1>2, <1>n, <1>f DEF ReadIndex
<1>3. ASSUME NEW p \in Procs, Open(p) PROVE FileTypes'
  BY <1>3 DEF Open
<1>4. ASSUME NEW p \in Procs, Download(p) PROVE FileTypes'
  <2>1. PICK k \in Packages, b \in Buckets :
          /\ procMap' = [procMap EXCEPT ![p] = AddToc(procMap[p], b, k)]
          /\ procIndices' = [procIndices EXCEPT ![p] = AddIndex(procIndices[p], k, b, Len(procMap[p][b]))]
    BY <1>4 DEF Download
  <2>2. /\ AddToc(procMap[p], b, k) \in Maps
        /\ AddIndex(procIndices[p], k, b, Len(procMap[p][b])) \in SUBSET RangeType
    BY DownloadKeeps
  <2> QED
    BY <1>4, <2>1, <2>2 DEF Download
<1>5. ASSUME NEW p \in Procs, Shutdown(p) \/ TruncMap(p) \/ TruncIndex(p) PROVE FileTypes'
  BY <1>5 DEF Shutdown, TruncMap, TruncIndex
<1>6. ASSUME NEW p \in Procs, WriteMap(p) \/ WriteIndex(p) PROVE FileTypes'
  <2>1. procMap[p] \in Maps /\ procIndices[p] \in SUBSET RangeType
    OBVIOUS
  <2> QED
    BY <1>6, <2>1 DEF WriteMap, WriteIndex
<1>7. ASSUME NEW p \in Procs, Crash(p) PROVE FileTypes'
  BY <1>7, FilesAssumption DEF Crash
<1>8. CASE UNCHANGED filesVars
  BY <1>8 DEF filesVars
<1> QED
  BY <1>1, <1>2, <1>3, <1>4, <1>5, <1>6, <1>7, <1>8 DEF FilesNext

(* A run that begins while another is under way is remembered, so that     *)
(* there is one process at work as long as overlap is FALSE.               *)
LEMMA NextAlone == FilesInv /\ [FilesNext]_filesVars => (~overlap' /\ crashes' <= 1 => Alone' /\ ~overlap /\ crashes <= 1)
<1> SUFFICES ASSUME FileTypes, (~overlap /\ crashes <= 1 => Alone), [FilesNext]_filesVars, ~overlap', crashes' <= 1
             PROVE  Alone' /\ ~overlap /\ crashes <= 1
  BY DEF FilesInv
<1> USE DEF FileTypes, Goto
<1>1. ASSUME NEW p \in Procs, ReadMap(p) PROVE Alone' /\ ~overlap /\ crashes <= 1
  <2>1. \A q \in Procs : line[q] = "idle"
    BY <1>1 DEF ReadMap
  <2>2. \A q \in Procs : q # p => line'[q] = "idle"
    BY <1>1, <2>1 DEF ReadMap
  <2> QED
    BY <1>1, <2>2 DEF ReadMap, Alone
<1>2. ASSUME NEW p \in Procs, line[p] # "idle", overlap' = overlap,
             crashes' = crashes \/ crashes' = crashes + 1,
             \A q \in Procs : q # p => line'[q] = line[q]
      PROVE  Alone' /\ ~overlap /\ crashes <= 1
  <2>1. crashes <= 1 /\ ~overlap
    BY <1>2, FilesAssumption
  <2> QED
    BY <1>2, <2>1 DEF Alone
<1>3. ASSUME NEW p \in Procs,
             ReadIndex(p) \/ Open(p) \/ Download(p) \/ Shutdown(p) \/ TruncMap(p) \/ WriteMap(p)
             \/ TruncIndex(p) \/ WriteIndex(p) \/ Crash(p)
      PROVE  Alone' /\ ~overlap /\ crashes <= 1
  <2>1. line[p] # "idle" /\ overlap' = overlap
    BY <1>3 DEF ReadIndex, Open, Download, Shutdown, TruncMap, WriteMap, TruncIndex, WriteIndex, Crash
  <2>2. crashes' = crashes \/ crashes' = crashes + 1
    BY <1>3 DEF ReadIndex, Open, Download, Shutdown, TruncMap, WriteMap, TruncIndex, WriteIndex, Crash
  <2>3. \A q \in Procs : q # p => line'[q] = line[q]
    BY <1>3 DEF ReadIndex, Open, Download, Shutdown, TruncMap, WriteMap, TruncIndex, WriteIndex, Crash
  <2> QED
    BY <1>2, <2>1, <2>2, <2>3, FilesAssumption
<1>4. CASE UNCHANGED filesVars
  BY <1>4 DEF filesVars, Alone
<1> QED
  BY <1>1, <1>3, <1>4 DEF FilesNext

(* With one process at work, what it does settles the files.               *)
LEMMA NextSettled ==
    ASSUME FileTypes, Held, Alone, Sound, Settled, [FilesNext]_filesVars, FileTypes', Alone', crashes' <= 1
    PROVE  Sound' /\ Settled'
<1> USE DEF FileTypes, Goto
<1>f. /\ mapFile # Torn => Parsed(mapFile) \in Maps /\ mapFile = Json(Parsed(mapFile))
      /\ indexFile # Torn => Parsed(indexFile) \in SUBSET RangeType
      /\ \A c : Json(c) # Torn /\ Parsed(Json(c)) = c
  BY DEF Json, Parsed, Torn
<1>e. Consistent(NoMap, {})
  BY DEF Consistent
\* A process at work is the only one, before and after.
<1>a. ASSUME NEW p \in Procs, line[p] # "idle" PROVE \A q \in Procs \ {p} : line[q] = "idle"
  BY <1>a DEF Alone
<1>i. \A q \in Procs : line[q] = "idle" => Written(q) /\ Old(q)
  BY DEF Written, Old
\* What is left to show of a step of p: the others are idle after it.
<1>s. ASSUME NEW p \in Procs, \A q \in Procs \ {p} : line'[q] = "idle",
             line'[p] \notin {"idle", "readIndex"} => Consistent(procMap[p], procIndices[p])',
             Written(p)', line'[p] # "truncIndex" => Pair', crashes' = 0 => Old(p)',
             crashes' = 0 /\ line'[p] = "idle" => (mapFile' = Torn <=> indexFile' = Torn)
      PROVE  Sound' /\ Settled'
  <2>1. Sound'
    BY <1>s DEF Sound
  <2>2. \A q \in Procs : Written(q)'
    BY <1>s DEF Written
  <2>3. (\A q \in Procs : line'[q] # "truncIndex") => Pair'
    BY <1>s
  <2>4. crashes' = 0 => \A q \in Procs : Old(q)'
    BY <1>s DEF Old
  <2>5. crashes' = 0 /\ (\A q \in Procs : line'[q] = "idle") => (mapFile' = Torn <=> indexFile' = Torn)
    BY <1>s
  <2> QED
    BY <2>1, <2>2, <2>3, <2>4, <2>5 DEF Settled
<1>1. ASSUME NEW p \in Procs, ReadMap(p) PROVE Sound' /\ Settled'
  <2>1. /\ line[p] = "idle" /\ line'[p] # "idle" /\ crashes' = crashes
        /\ mapFile' = mapFile /\ indexFile' = indexFile
    BY <1>1 DEF ReadMap
  <2>2. \A q \in Procs \ {p} : line'[q] = "idle" /\ line[q] = "idle"
    BY <1>1, <2>1 DEF ReadMap, Alone
  <2>3. Pair /\ Pair' /\ (crashes = 0 => (mapFile = Torn <=> indexFile = Torn))
    <3>1. \A q \in Procs : line[q] = "idle"
      BY <2>1, <2>2
    <3> QED
      BY <2>1, <3>1 DEF Settled, Pair
  <2>4. CASE mapFile = Torn
    <3>1. line'[p] = "open" /\ procMap'[p] = NoMap /\ procIndices'[p] = {}
      BY <1>1, <2>4 DEF ReadMap
    <3>2. crashes = 0 => indexFile' = Torn
      BY <2>1, <2>3, <2>4
    <3> QED
      BY <1>s, <1>e, <2>1, <2>2, <2>3, <3>1, <3>2 DEF Written, Old
  <2>5. CASE mapFile # Torn
    <3>1. line'[p] = "readIndex" /\ procMap'[p] = Parsed(mapFile)
      BY <1>1, <2>5 DEF ReadMap
    <3>2. mapFile' = Json(procMap'[p])
      BY <1>f, <2>1, <2>5, <3>1
    <3> QED
      BY <1>s, <2>1, <2>2, <2>3, <2>5, <3>1, <3>2 DEF Written, Old
  <2> QED
    BY <2>4, <2>5
<1>2. ASSUME NEW p \in Procs, ReadIndex(p) PROVE Sound' /\ Settled'
  <2>1. /\ line[p] = "readIndex" /\ line' = [line EXCEPT ![p] = "open"] /\ crashes' = crashes
        /\ mapFile' = mapFile /\ indexFile' = indexFile
    BY <1>2 DEF ReadIndex
  <2>2. \A q \in Procs \ {p} : line'[q] = "idle" /\ line[q] = "idle"
    BY <2>1, <1>a
  <2>3. Pair /\ Pair' /\ mapFile = Json(procMap[p]) /\ (crashes = 0 => indexFile # Torn)
    <3>1. \A q \in Procs : line[q] # "truncIndex"
      BY <2>1, <2>2
    <3> QED
      BY <2>1, <3>1 DEF Settled, Pair, Written, Old
  <2>4. CASE indexFile = Torn
    <3>1. procMap'[p] = NoMap /\ procIndices'[p] = {}
      BY <1>2, <2>4 DEF ReadIndex
    <3> QED
      BY <1>s, <1>e, <2>1, <2>2, <2>3, <2>4, <3>1 DEF Written, Old
  <2>5. CASE indexFile # Torn
    <3>1. procMap' = procMap /\ procIndices'[p] = Parsed(indexFile)
      BY <1>2, <2>5 DEF ReadIndex
    <3>2. Consistent(procMap[p], Parsed(indexFile))
      BY <2>3, <2>5, <1>f DEF Pair
    <3> QED
      BY <1>s, <2>1, <2>2, <2>3, <3>1, <3>2 DEF Written, Old
  <2> QED
    BY <2>4, <2>5
<1>3. ASSUME NEW p \in Procs, Open(p) \/ Shutdown(p) PROVE Sound' /\ Settled'
  <2>1. /\ line[p] \in {"open", "download"} /\ line'[p] \in {"idle", "download", "truncMap"}
        /\ (line'[p] = "idle" => line[p] = "open")
        /\ UNCHANGED <<mapFile, indexFile, procMap, procIndices, crashes>>
        /\ \A q \in Procs \ {p} : line'[q] = line[q]
    BY <1>3 DEF Open, Shutdown
  <2>2. \A q \in Procs \ {p} : line'[q] = "idle" /\ line[q] = "idle"
    BY <2>1, <1>a
  <2>3. Pair /\ Consistent(procMap[p], procIndices[p])
        /\ (crashes = 0 => indexFile = Torn \/ Consistent(procMap[p], Parsed(indexFile)))
    <3>1. \A q \in Procs : line[q] # "truncIndex"
      BY <2>1, <2>2
    <3> QED
      BY <2>1, <3>1 DEF Settled, Old, Sound
  <2>4. crashes = 0 /\ line'[p] = "idle" => (mapFile = Torn <=> indexFile = Torn)
    <3>1. line'[p] = "idle" => Open(p) /\ locked # Nobody
      BY <1>3, <2>1 DEF Open, Shutdown
    <3> QED
      BY <2>1, <2>2, <3>1, FilesAssumption DEF Held
  <2> QED
    BY <1>s, <2>1, <2>2, <2>3, <2>4 DEF Written, Old, Pair
<1>4. ASSUME NEW p \in Procs, Download(p) PROVE Sound' /\ Settled'
  <2>1. PICK k \in Packages, b \in Buckets :
          /\ procMap'[p] = AddToc(procMap[p], b, k)
          /\ procIndices'[p] = AddIndex(procIndices[p], k, b, Len(procMap[p][b]))
    BY <1>4 DEF Download
  <2>2. line[p] = "download" /\ UNCHANGED <<line, mapFile, indexFile, crashes>>
    BY <1>4 DEF Download
  <2>3. \A q \in Procs \ {p} : line'[q] = "idle" /\ line[q] = "idle"
    BY <2>2, <1>a
  <2>4. Pair /\ Consistent(procMap[p], procIndices[p])
        /\ (crashes = 0 => indexFile = Torn \/ Consistent(procMap[p], Parsed(indexFile)))
    <3>1. \A q \in Procs : line[q] # "truncIndex"
      BY <2>2, <2>3
    <3> QED
      BY <2>2, <3>1 DEF Settled, Old, Sound
  <2>5. Consistent(procMap'[p], procIndices'[p])
    BY <2>1, <2>4, DownloadKeeps
  <2>6. crashes' = 0 => indexFile' = Torn \/ Consistent(procMap'[p], Parsed(indexFile'))
    BY <1>f, <2>1, <2>2, <2>4, DownloadKeeps
  <2> QED
    BY <1>s, <2>2, <2>3, <2>4, <2>5, <2>6 DEF Written, Old, Pair
<1>5. ASSUME NEW p \in Procs, TruncMap(p) \/ WriteMap(p) \/ TruncIndex(p) PROVE Sound' /\ Settled'
  <2>1. /\ line[p] \in {"truncMap", "writeMap", "truncIndex"}
        /\ line'[p] \in {"writeMap", "truncIndex", "writeIndex"}
        /\ UNCHANGED <<procMap, procIndices, crashes>>
        /\ \A q \in Procs \ {p} : line'[q] = line[q]
    BY <1>5 DEF TruncMap, WriteMap, TruncIndex
  <2>2. \A q \in Procs \ {p} : line'[q] = "idle"
    BY <2>1, <1>a
  <2>3. Consistent(procMap[p], procIndices[p])
        /\ (crashes = 0 => indexFile = Torn \/ Consistent(procMap[p], Parsed(indexFile)))
    BY <2>1 DEF Settled, Old, Sound
  <2>4. indexFile' \in {indexFile, Torn}
    BY <1>5 DEF TruncMap, WriteMap, TruncIndex
  <2>5. Written(p)' /\ (line'[p] # "truncIndex" => mapFile' = Torn \/ indexFile' = Torn)
    <3>1. CASE TruncMap(p)
      BY <3>1 DEF TruncMap, Written
    <3>2. CASE WriteMap(p)
      BY <3>2 DEF WriteMap, Written
    <3>3. CASE TruncIndex(p)
      BY <3>3 DEF TruncIndex, Written, Settled
    <3> QED
      BY <1>5, <3>1, <3>2, <3>3
  <2>6. crashes' = 0 => Old(p)'
    BY <2>1, <2>3, <2>4 DEF Old
  <2>7. line'[p] # "truncIndex" => Pair'
    BY <2>5 DEF Pair
  <2> QED
    BY <1>s, <2>1, <2>2, <2>3, <2>5, <2>6, <2>7
<1>6. ASSUME NEW p \in Procs, WriteIndex(p) PROVE Sound' /\ Settled'
  <2>1. /\ line[p] = "writeIndex" /\ line' = [line EXCEPT ![p] = "idle"]
        /\ indexFile' = Json(procIndices[p]) /\ UNCHANGED <<mapFile, procMap, procIndices, crashes>>
    BY <1>6 DEF WriteIndex
  <2>2. \A q \in Procs \ {p} : line'[q] = "idle"
    BY <2>1, <1>a
  <2>3. Consistent(procMap[p], procIndices[p]) /\ mapFile = Json(procMap[p])
    BY <2>1 DEF Settled, Written, Sound
  <2>4. Pair' /\ mapFile' # Torn /\ indexFile' # Torn
    BY <1>f, <2>1, <2>3 DEF Pair
  <2> QED
    BY <1>s, <2>1, <2>2, <2>4 DEF Written, Old
\* After a death no more follows, so that only the pair of files counts.
<1>7. ASSUME NEW p \in Procs, Crash(p) PROVE Sound' /\ Settled'
  <2>1. /\ line[p] # "idle" /\ line' = [line EXCEPT ![p] = "idle"] /\ crashes' = crashes + 1
        /\ UNCHANGED <<mapFile, indexFile, procMap, procIndices>>
    BY <1>7 DEF Crash
  <2>2. \A q \in Procs \ {p} : line'[q] = "idle" /\ line[q] = "idle"
    BY <2>1, <1>a
  <2>3. crashes = 0 /\ Old(p)
    BY <2>1, FilesAssumption DEF Settled
  <2>4. Pair
    <3>1. CASE line[p] = "truncIndex"
      <4>1. mapFile = Json(procMap[p]) /\ (indexFile = Torn \/ Consistent(procMap[p], Parsed(indexFile)))
        BY <2>3, <3>1 DEF Settled, Written, Old
      <4> QED
        BY <1>f, <4>1 DEF Pair
    <3>2. CASE line[p] # "truncIndex"
      BY <2>2, <3>2 DEF Settled
    <3> QED
      BY <3>1, <3>2
  <2> QED
    BY <1>s, <2>1, <2>2, <2>3, <2>4 DEF Written, Pair
<1>8. CASE UNCHANGED filesVars
  BY <1>8 DEF filesVars, Sound, Settled, Written, Old, Pair
<1> QED
  BY <1>1, <1>2, <1>3, <1>4, <1>5, <1>6, <1>7, <1>8 DEF FilesNext

LEMMA NextHeld == FilesInv /\ [FilesNext]_filesVars => Held'
<1> SUFFICES ASSUME FileTypes, Held, [FilesNext]_filesVars PROVE Held'
  BY DEF FilesInv
<1> USE DEF FileTypes, Goto, Held
<1>1. ASSUME NEW p \in Procs, Open(p) \/ Shutdown(p) \/ Crash(p) PROVE Held'
  BY <1>1, FilesAssumption DEF Open, Shutdown, Crash
<1>2. ASSUME NEW p \in Procs,
             ReadMap(p) \/ ReadIndex(p) \/ TruncMap(p) \/ WriteMap(p) \/ TruncIndex(p) \/ WriteIndex(p)
      PROVE  Held'
  <2>1. /\ line[p] # "download" /\ locked' = locked
        /\ \A q \in Procs : q # p => line'[q] = line[q]
    BY <1>2 DEF ReadMap, ReadIndex, TruncMap, WriteMap, TruncIndex, WriteIndex
  <2> QED
    BY <2>1
<1>3. CASE (\E p \in Procs : Download(p)) \/ UNCHANGED filesVars
  BY <1>3 DEF Download, filesVars
<1> QED
  BY <1>1, <1>2, <1>3 DEF FilesNext

LEMMA FilesAlways == FilesSpec => []FilesInv
<1>1. FilesInv /\ [FilesNext]_filesVars => FilesInv'
  <2> SUFFICES ASSUME FilesInv, [FilesNext]_filesVars PROVE FilesInv'
    OBVIOUS
  <2>1. FileTypes' /\ Held'
    BY NextTypes, NextHeld
  <2>2. ASSUME ~overlap', crashes' <= 1 PROVE Alone' /\ Sound' /\ Settled'
    <3>1. Alone' /\ ~overlap /\ crashes <= 1
      BY <2>2, NextAlone
    <3>2. FileTypes /\ Held /\ Alone /\ Sound /\ Settled
      BY <3>1 DEF FilesInv
    <3> QED
      BY <2>1, <2>2, <3>1, <3>2, NextSettled
  <2> QED
    BY <2>1, <2>2 DEF FilesInv
<1> QED
  BY FilesInitInv, <1>1, PTL DEF FilesSpec

(* As long as no two runs have overlapped and at most one has died, every  *)
(* store JsDownloader::new restores, and all that downloads make of it, is *)
(* consistent: no range leads out of its bucket's list or to another       *)
(* package's entries.                                                      *)
THEOREM RestoredIsConsistent == FilesSpec => []RestoredConsistent
<1>1. FilesInv => RestoredConsistent
  <2> SUFFICES ASSUME FilesInv PROVE RestoredConsistent
    OBVIOUS
  <2>1. FilesTypeOK
    BY DEF FilesInv, FileTypes, FilesTypeOK, StoreType, Maps, Json, Parsed
  <2>2. ~overlap /\ crashes <= 1 => AlwaysConsistent
    BY DEF FilesInv, Sound, AlwaysConsistent
  <2> QED
    BY <2>1, <2>2 DEF RestoredConsistent
<1> QED
  BY FilesAlways, <1>1, PTL

=============================================================================
