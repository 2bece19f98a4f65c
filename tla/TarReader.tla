----------------------------- MODULE TarReader -----------------------------
(***************************************************************************)
(* Reading an archive (tokio-tar/src/archive.rs, entry.rs, pax.rs) from a  *)
(* source that hands out any number of bytes at a time and may suspend at  *)
(* any read, as the gzip decoder over a HTTP body does.                    *)
(*                                                                         *)
(* What a poll has read into its own locals is lost when the source        *)
(* suspends; only `archive.buf` (held), the position and the members of    *)
(* Entries survive until the next poll.                                    *)
(***************************************************************************)
EXTENDS TarBuilder

CONSTANTS
    None

ASSUME NoneAssumption == None \notin {"name", "link", "pax"}

VARIABLES
    pos,    \* bytes taken from the source
    next,   \* Entries.next: where the next header starts
    held,   \* archive.buf: the cells of a header read so far
    start,  \* header_slice_start of the poll in progress
    meta,   \* Entries.gnu_longname, gnu_longlink, pax_extensions
    pc,     \* "header", "meta", "sparse", "entry", "ended", "failed", "hung"
    acc,    \* read_all's local buffer
    cur,    \* the entry that is parsed or read
    out,    \* entries that were yielded and read to their end
    torn    \* history: a poll was suspended with part of a header or extension read

readerVars == <<pos, next, held, start, meta, pc, acc, cur, out, torn>>

NoMeta == [name |-> None, link |-> None, pax |-> None]
NoEntry == [h |-> None, kind |-> None, left |-> 0, at |-> 0, data |-> <<>>, got |-> <<>>,
            meta |-> NoMeta, blocks |-> 0, size |-> 0]
Data(n) == [pad |-> FALSE, n |-> n]
Pad(n) == [pad |-> TRUE, n |-> n]

ReaderInit ==
    /\ pos = 0 /\ next = 0
    /\ held = <<>> /\ start = 0
    /\ meta = NoMeta
    /\ pc = "header"
    /\ acc = <<>>
    /\ cur = NoEntry
    /\ out = <<>>
    /\ torn = FALSE

AtEof == pos = Len(bytes)
Chunk(n) == SubSeq(bytes, pos + 1, pos + n)
Available(n) == n \in 1..(Len(bytes) - pos)
\* A new poll of Entries: it continues with what archive.buf holds.
Repoll == /\ pc' = "header"
          /\ start' = Len(held')
          /\ acc' = <<>>
          /\ cur' = NoEntry
Fail == /\ pc' = "failed"
        /\ UNCHANGED <<pos, next, held, start, meta, acc, cur, out, torn>>

-----------------------------------------------------------------------------
(* poll_next_raw.                                                          *)

\* poll_skip: the rest of the previous member is thrown away.
Skip(n) ==
    /\ pc = "header" /\ pos < next
    /\ Available(n) /\ n <= next - pos
    /\ pos' = pos + n
    /\ UNCHANGED <<next, held, start, meta, pc, acc, cur, out, torn>>

SkipEof == pc = "header" /\ pos < next /\ AtEof /\ Fail

\* poll_try_read_all into the part of the header that is still missing.
ReadHeader(n) ==
    /\ pc = "header" /\ pos >= next /\ Len(held) < Block
    /\ Available(n) /\ n <= Block - Len(held)
    /\ held' = held \o Chunk(n)
    /\ pos' = pos + n
    /\ UNCHANGED <<next, start, meta, pc, acc, cur, out, torn>>

\* End of the source: the end of the archive before a header, an error inside
\* one; but nothing will wake this poll when the part was read by an earlier one.
HeaderEof ==
    /\ pc = "header" /\ pos >= next /\ Len(held) < Block /\ AtEof
    /\ pc' = IF held = <<>> THEN "ended" ELSE IF Len(held) > start THEN "failed" ELSE "hung"
    /\ UNCHANGED <<pos, next, held, start, meta, acc, cur, out, torn>>

CellIsZero(c) == c = Zero \/ (c.k = "tail" /\ TailIsZero(c.h))
\* Only what this poll has read is looked at.
ReadZeros == \A i \in start + 1..Block : CellIsZero(held[i])
\* The archives here are opened without ignore_zeros: a block of zeros ends one.
ZerosEnd ==
    /\ pc = "header" /\ Len(held) = Block /\ ReadZeros
    /\ pc' = "ended"
    /\ UNCHANGED <<pos, next, held, start, meta, acc, cur, out, torn>>

ChecksumOk == /\ held[1].k = "head" /\ held[2].k = "tail"
              /\ held[1].h = held[2].h
              /\ held[1].h.sum

MetaKind(h) ==
    IF h.format = "old" THEN None
    ELSE CASE EntryTypeOf(h) = "GNULongName" -> "name"
           [] EntryTypeOf(h) = "GNULongLink" -> "link"
           [] EntryTypeOf(h) = "XHeader" -> "pax"
           [] OTHER -> None

\* The header is parsed and Entries::poll_next goes on in the same poll: a
\* name or extension is read at once, any other member is yielded with what
\* was collected for it.
ParseHeader ==
    LET h == held[1].h IN
    /\ pc = "header" /\ Len(held) = Block /\ ~ReadZeros
    /\ ChecksumOk
    /\ held' = <<>>
    /\ next' = next + Block + RoundUp(EntrySize(h))
    /\ IF MetaKind(h) # None
       THEN /\ pc' = IF meta[MetaKind(h)] = None THEN "meta" ELSE "failed"
            /\ cur' = [NoEntry EXCEPT !.kind = MetaKind(h), !.left = EntrySize(h)]
            /\ UNCHANGED meta
       ELSE /\ pc' = IF EntryTypeOf(h) = "GNUSparse"
                     THEN IF h.format = "gnu" THEN "sparse" ELSE "failed"
                     ELSE "entry"
            /\ cur' = [NoEntry EXCEPT
                        !.h = h, !.at = next + Block, !.meta = meta, !.left = EntrySize(h),
                        !.data = IF EntryTypeOf(h) = "GNUSparse" THEN <<>>
                                 ELSE <<Data(EntrySize(h))>>]
            /\ meta' = NoMeta
    /\ UNCHANGED <<pos, start, acc, out, torn>>

BadChecksum == pc = "header" /\ Len(held) = Block /\ ~ReadZeros /\ ~ChecksumOk /\ Fail

-----------------------------------------------------------------------------
(* poll_read_all of a long name, long link or pax extension.               *)

ReadMeta(n) ==
    /\ pc = "meta" /\ cur.left >= n
    /\ Available(n)
    /\ acc' = acc \o Chunk(n)
    /\ cur' = [cur EXCEPT !.left = @ - n]
    /\ pos' = pos + n
    /\ UNCHANGED <<next, held, start, meta, pc, out, torn>>

\* Mutant: the collected name is not kept.
EndMeta_Forget ==
    /\ pc = "meta" /\ (cur.left = 0 \/ AtEof)
    /\ UNCHANGED <<pos, next, held, meta, out, torn>>
    /\ Repoll

EndMeta ==
    /\ pc = "meta" /\ (cur.left = 0 \/ AtEof)
    /\ meta' = [meta EXCEPT ![cur.kind] = acc]
    /\ UNCHANGED <<pos, next, held, out, torn>>
    /\ Repoll

-----------------------------------------------------------------------------
(* poll_parse_sparse_header.                                               *)

\* Mutant: the holes between the blocks are left out.
AddBlock_NoHoles(s, b, size) ==
    [ok |-> TRUE, end |-> b.off + b.len, left |-> s.left - b.len, data |-> s.data \o <<Data(b.len)>>]

\* add_block, over the blocks of one header: the state is [ok, end, left, data].
AddBlock(s, b, size) ==
    IF b.len = 0 THEN s
    ELSE [ok   |-> s.ok /\ (size - s.left) % Block = 0 /\ b.off >= s.end /\ b.len <= s.left,
          end  |-> b.off + b.len,
          left |-> IF b.len <= s.left THEN s.left - b.len ELSE 0,
          data |-> s.data \o (IF s.end < b.off THEN <<Pad(b.off - s.end)>> ELSE <<>>)
                          \o <<Data(b.len)>>]

Blocks(e) == FoldLeft(LAMBDA s, b : AddBlock(s, b, EntrySize(e.h)),
                      [ok |-> TRUE, end |-> e.size, left |-> e.left, data |-> e.data],
                      e.h.sparse[e.blocks + 1])

\* The blocks of one header; the last one must leave nothing over.
ParseBlocks ==
    LET r == Blocks(cur)
        last == cur.blocks + 1 = Len(cur.h.sparse)
    IN
    /\ pc = "sparse"
    /\ cur.blocks > 0 => Len(acc) = Block
    /\ pc' = IF ~r.ok \/ (last /\ (r.end # RealSize(cur.h) \/ r.left > 0)) THEN "failed"
             ELSE IF last THEN "entry" ELSE "sparse"
    /\ cur' = [cur EXCEPT !.blocks = @ + 1, !.size = r.end, !.left = r.left, !.data = r.data]
    /\ next' = IF cur.blocks > 0 THEN next + Block ELSE next
    /\ acc' = <<>>
    /\ UNCHANGED <<pos, held, start, meta, out, torn>>

ReadExtension(n) ==
    /\ pc = "sparse" /\ cur.blocks > 0 /\ Len(acc) + n <= Block
    /\ Available(n)
    /\ acc' = acc \o Chunk(n)
    /\ pos' = pos + n
    /\ UNCHANGED <<next, held, start, meta, pc, cur, out, torn>>

\* A part of an extension is an error, whether the source has ended or not.
ExtensionFails ==
    /\ pc = "sparse" /\ cur.blocks > 0 /\ Len(acc) < Block
    /\ AtEof \/ acc # <<>>
    /\ pc' = "failed"
    /\ torn' = (torn \/ ~AtEof)
    /\ UNCHANGED <<pos, next, held, start, meta, acc, cur, out>>

-----------------------------------------------------------------------------
(* The source suspends: the poll returns and its locals are dropped.       *)

Suspend ==
    /\ \/ pc = "header" /\ Len(held) < Block
       \/ pc = "meta" /\ cur.left > 0
       \/ pc = "sparse" /\ cur.blocks > 0 /\ acc = <<>>
    /\ ~AtEof
    /\ torn' = (torn \/ held # <<>> \/ pc # "header")
    /\ UNCHANGED <<pos, next, held, meta, out>>
    /\ Repoll

-----------------------------------------------------------------------------
(* The consumer reads the entry (EntryFields::poll_read).                  *)

NextPart == cur' = [cur EXCEPT !.data = Tail(@)]

ReadData(n) ==
    /\ pc = "entry" /\ cur.data # <<>> /\ cur.data[1].n >= n /\ n > 0
    /\ IF cur.data[1].pad
       THEN /\ cur' = [cur EXCEPT !.got = @ \o Zeros(n), !.data[1].n = @ - n]
            /\ UNCHANGED pos
       ELSE /\ Available(n)
            /\ cur' = [cur EXCEPT !.got = @ \o Chunk(n), !.data[1].n = @ - n]
            /\ pos' = pos + n
    /\ UNCHANGED <<next, held, start, meta, pc, acc, out, torn>>

\* A part is over when it is read up or the source has ended.
EndPart ==
    /\ pc = "entry" /\ cur.data # <<>>
    /\ cur.data[1].n = 0 \/ (~cur.data[1].pad /\ AtEof)
    /\ NextPart
    /\ UNCHANGED <<pos, next, held, start, meta, pc, acc, out, torn>>

EntryRead == pc = "entry" /\ cur.data = <<>>

-----------------------------------------------------------------------------
(* What Entry's getters say.                                               *)

\* The bytes of a name that was collected, without the final NUL.
Collected(cells) ==
    IF cells = <<>> THEN NoPath
    ELSE IF Len(cells) >= cells[1].of - 1 THEN cells[1].body
    ELSE CutPath(cells[1].body, Len(cells))

\* One cell per record of the extension; a malformed record is passed over.
PaxValue(cells, key) ==
    LET hits == {i \in DOMAIN cells : cells[i].body[i].key = key /\ cells[i].body[i].ok} IN
    IF hits = {} THEN None
    ELSE cells[1].body[CHOOSE i \in hits : \A j \in hits : i <= j].val

EntryPath(e) ==
    IF e.meta.name # None THEN Collected(e.meta.name)
    ELSE IF e.meta.pax # None /\ PaxValue(e.meta.pax, "path") # None
    THEN PaxValue(e.meta.pax, "path") ELSE PathOf(e.h)
EntryLink(e) ==
    IF e.meta.link # None THEN Collected(e.meta.link) ELSE LinkNameOf(e.h)

Yielded(e) == [at |-> e.at, path |-> EntryPath(e), short |-> PathOf(e.h),
               link |-> EntryLink(e), got |-> e.got, size |-> RealSize(e.h)]

\* The stream drops the entry and is polled for the next one.
TakeNext ==
    /\ EntryRead
    /\ out' = Append(out, Yielded(cur))
    /\ UNCHANGED <<pos, next, held, meta, torn>>
    /\ Repoll

ReaderSteps ==
    \/ \E n \in 1..Block : Skip(n) \/ ReadHeader(n) \/ ReadMeta(n) \/ ReadExtension(n)
    \/ SkipEof \/ HeaderEof \/ ZerosEnd \/ ParseHeader \/ BadChecksum
    \/ EndMeta \/ ParseBlocks \/ ExtensionFails
=============================================================================
