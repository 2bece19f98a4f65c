----------------------------- MODULE RafsLayout -----------------------------
(***************************************************************************)
(* The bytes of a rafs bootstrap (rafs/src/metadata/layout.rs): a super    *)
(* block, the table of inode offsets, the blob table, and the inodes, each *)
(* followed by its name, symlink target, extended attributes and chunks.   *)
(*                                                                         *)
(* A file is a map from offsets to what was written there.  Reading a      *)
(* structure where none starts yields Garbage.  Names are numbered in      *)
(* their byte order; a path is a sequence of names, <<>> being `/`.        *)
(***************************************************************************)
EXTENDS Integers, Sequences, SequencesExt, FiniteSetsExt, TLC

CONSTANTS
    BlockSize,   \* DEFAULT_BLOCK_SIZE, 4 MB
    NameSize     \* the bytes of each name

RootName == 0    \* ROOT_PATH_NAME
Garbage == [garbage |-> TRUE]
None == [none |-> TRUE]
NoDigest == [zeros |-> TRUE]   \* the default
SuperBlockSize == 8192
InodeSize == 128
ChunkSize == 80
SizeOfName(n) == IF n = RootName THEN 1 ELSE NameSize[n]

AlignToRafs(n) == ((n + 7) \div 8) * 8

\* Rust's sort_by, by the key of each element: stable.
SortedBy(s, keys) ==
    LET Before(j, k) == keys[j] < keys[k] \/ (keys[j] = keys[k] /\ j < k)
        rank == [k \in 1..Len(s) |-> 1 + Cardinality({j \in 1..Len(s) : Before(j, k)})]
    IN  [r \in 1..Len(s) |-> s[CHOOSE k \in 1..Len(s) : rank[k] = r]]

\* Super block: the fields that locate the tables.
Validate(sb) == sb.count # 0 /\ sb.tableAt >= SuperBlockSize /\ sb.tableAt % 8 = 0

\* The inode table: u32 offsets, in units of eight bytes, indexed from 1.
NewTable(n) == [k \in 1..(AlignToRafs(4 * n) \div 4) |-> 0]
TableSize(t) == AlignToRafs(4 * Len(t))
\* `set` for every inode.
Filled(t, offsets) == [k \in 1..Len(t) |-> IF k \in DOMAIN offsets THEN offsets[k] \div 8 ELSE 0]
\* Zero when `get` refuses the number or the entry.
OffsetOf(t, k) ==
    IF k \notin 1..Len(t) \/ t[k] <= SuperBlockSize \div 8 \/ t[k] >= 2^29 THEN 0 ELSE 8 * t[k]

\* The blob table: for each blob eight bytes of readahead, all zero, and the
\* id; a NUL between two entries, zeros up to the alignment.
Nul == "NUL"
Zeros(n) == [k \in 1..n |-> Nul]
BlobTableSize(ids) ==
    IF ids = <<>> THEN 0
    ELSE AlignToRafs(FoldLeft(LAMBDA n, id : n + 8 + Len(id) + 1, 0, ids) - 1)
StoreBlobs(ids) ==
    LET bytes == FoldLeft(LAMBDA b, id : (IF b = <<>> THEN b ELSE Append(b, Nul)) \o Zeros(8) \o id, <<>>, ids)
    IN  bytes \o Zeros(AlignToRafs(Len(bytes)) - Len(bytes))
\* load_from_slice: an id ends at a NUL or with the table, and what is left
\* is padding when it has no room for another entry.
LoadBlobs(bytes) ==
    LET n == Len(bytes)
        Stop(i) == CHOOSE j \in i..(n + 1) :
                     /\ j = n + 1 \/ bytes[j] = Nul
                     /\ \A k \in i..(j - 1) : bytes[k] # Nul
        load[i \in 1..(n + 1)] ==
          IF n - i + 1 < 9 THEN <<>>
          ELSE LET j == Stop(i + 8) IN
               <<SubSeq(bytes, i + 8, j - 1)>> \o (IF n - j + 1 <= 9 THEN <<>> ELSE load[j + 1])
    IN  load[1]

\* The prefetch table: inode numbers, u32, in ascending order.
PrefetchSize(t) == AlignToRafs(4 * Len(t))
StorePrefetch(inos) == SortedBy(inos, inos)

\* An inode with its name and link; extended attributes (a sequence of pair
\* sizes) take a length word and, for each pair, its size and the pair.
BytesOf(inode) == InodeSize + AlignToRafs(inode.nameSize) + AlignToRafs(inode.symSize)
XattrSize(pairs) == IF pairs = <<>> THEN 0 ELSE AlignToRafs(8 + FoldLeft(LAMBDA n, x : n + 4 + x, 0, pairs))

\* Writing structures at the end of the file, and reading one at an offset.
EmptyFile == [cells |-> <<>>, end |-> 0]
Cell(what, val, bytes) == [what |-> what, val |-> val, bytes |-> bytes]
WriteAll(f, cells) ==
    LET Start(k) == f.end + FoldLeft(LAMBDA n, c : n + c.bytes, 0, SubSeq(cells, 1, k - 1))
        written  == {k \in DOMAIN cells : cells[k].bytes > 0}
    IN  [cells |-> f.cells @@ [at \in {Start(k) : k \in written} |-> cells[CHOOSE k \in written : Start(k) = at]],
         end   |-> Start(Len(cells) + 1)]
ReadAt(f, what, offset) ==
    IF offset \in DOMAIN f.cells /\ f.cells[offset].what = what THEN f.cells[offset].val ELSE Garbage

=============================================================================
