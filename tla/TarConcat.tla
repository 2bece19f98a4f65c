----------------------------- MODULE TarConcat -----------------------------
(***************************************************************************)
(* TarConcater::append (downloader/src/store/tar.rs): a package's archive  *)
(* is read entry by entry, and every entry is renamed, written to the      *)
(* bucket and recorded in the TOC.  The payload of an entry the listener   *)
(* asked for goes through a MultiWriter to the bucket and to a bounded     *)
(* pipe (downloader/src/util.rs).                                          *)
(*                                                                         *)
(* Bucket models what happens to the file; here the bucket accepts any     *)
(* part of what it is given, as a writer may.                              *)
(***************************************************************************)
EXTENDS TarReader

CONSTANTS
    TarPrefix,   \* name@version of the package, a path
    Listened,    \* paths on the entry listener's whitelist
    PipeCap,     \* capacity of tokio::io::duplex
    Base         \* where the package starts in the bucket

ASSUME TarConcatAssumption == PipeCap \in Nat \ {0} /\ Base \in Nat

VARIABLES
    at,       \* "next", "copy", "flush", "pad", "done", "failed"
    hdr,      \* the renamed header
    offset,   \* where the payload starts
    file,     \* the bytes written by this call (CountWriter, the bucket)
    hashed,   \* what HashWriter has hashed of this entry
    one, two, \* AllWriter.bytes of the two sides
    copied,   \* cells of the entry io::copy has written
    pipe,     \* the duplex: cells in flight, and whether its ends are open
    heard,    \* what the listener has read, per entry that was sent
    index     \* the TocIndex

concatVars == <<at, hdr, offset, file, hashed, one, two, copied, pipe, heard, index>>
vars == <<builderVars, readerVars, concatVars>>

NoPipe == [cells |-> <<>>, entry |-> 0, reading |-> FALSE, open |-> FALSE]

Init ==
    /\ BuilderInit
    /\ ReaderInit
    /\ at = "next"
    /\ hdr = None
    /\ offset = 0
    /\ file = <<>> /\ hashed = <<>>
    /\ one = <<>> /\ two = <<>>
    /\ copied = 0
    /\ pipe = NoPipe
    /\ heard = <<>>
    /\ index = <<>>

Sent == pipe.open
Take(s, n) == SubSeq(s, 1, n)
Drop(s, n) == SubSeq(s, n + 1, Len(s))

\* new_tar_header: the first component of the header's path gives way to the
\* prefix.  Long names and extensions of the entry are not looked at.
Renamed(p) ==
    [abs |-> FALSE, slash |-> FALSE,
     comps |-> TarPrefix.comps \o SelectSeq(Tail(p.comps), LAMBDA c : c # CurDir)]
NewTarHeader(h) == SetCksum(SetPath(h, Renamed(PathOf(h))))
NewTarHeaderOk(h) == SetPathOk(h, Renamed(PathOf(h)))

TocTypes == {"Regular", "Link", "Symlink", "Char", "Block", "Directory", "Fifo"}
TocEntry(h) == [name |-> PathOf(h), type |-> EntryTypeOf(h), link |-> LinkNameOf(h),
                size |-> RealSize(h), offset |-> offset, digest |-> hashed]

-----------------------------------------------------------------------------

\* An entry was yielded: its header is written, and the listener is told.
BeginEntry ==
    /\ pc = "entry" /\ at = "next" /\ NewTarHeaderOk(cur.h)
    /\ at' = "copy"
    /\ hdr' = NewTarHeader(cur.h)
    /\ file' = file \o HeaderCells(hdr')
    /\ offset' = Base + Len(file')
    /\ hashed' = <<>> /\ one' = <<>> /\ two' = <<>>
    /\ IF PathOf(cur.h) \in Listened
       THEN /\ pipe' = [cells |-> <<>>, entry |-> Len(heard) + 1, reading |-> TRUE, open |-> TRUE]
            /\ heard' = Append(heard, <<>>)
       ELSE UNCHANGED <<pipe, heard>>
    /\ UNCHANGED <<readerVars, copied, index>>

\* The renamed path does not fit the header: the package fails.
RenameFails ==
    /\ pc = "entry" /\ at = "next" /\ ~NewTarHeaderOk(cur.h)
    /\ at' = "failed"
    /\ UNCHANGED <<readerVars, hdr, offset, file, hashed, one, two, copied, pipe, heard, index>>

\* io::copy reads more of the entry when all it has read is written.
CopyRead == /\ at = "copy" /\ copied = Len(cur.got)
            /\ (\E n \in 1..Block : ReadData(n)) \/ EndPart
            /\ UNCHANGED concatVars

\* HashWriter over CountWriter: what the bucket accepts is hashed and counted.
ToBucket(cells) == file' = file \o cells /\ hashed' = hashed \o cells

\* Mutant: HashWriter hashes the whole buffer although a part was accepted.
AcceptOne_HashAll(cells, k) == file' = file \o Take(cells, k) /\ hashed' = hashed \o cells
\* What one poll_write of the bucket's side does with k of the cells accepted.
AcceptOne(cells, k) == ToBucket(Take(cells, k))

\* One poll_write without a listener; a suspended one is a step that is not taken.
CopyDirect(k) ==
    LET cells == Drop(cur.got, copied) IN
    /\ at = "copy" /\ ~Sent /\ k \in 1..Len(cells)
    /\ AcceptOne(cells, k)
    /\ copied' = copied + k
    /\ UNCHANGED <<readerVars, at, hdr, offset, one, two, pipe, heard, index>>

\* Mutant: cells a suspended writer did not take are forgotten.
Keep_Forget(cells, k) == IF k = 0 THEN <<>> ELSE Drop(cells, k)
\* AllWriter keeps what its writer did not take, and reports all as written.
Keep(cells, k) == Drop(cells, k)

Room == PipeCap - Len(pipe.cells)

\* MultiWriter::poll_write: k1 cells reach the bucket and k2 the pipe; none of
\* either when that writer is suspended.
CopyBoth(k1, k2) ==
    LET b1 == one \o Drop(cur.got, copied)
        b2 == two \o Drop(cur.got, copied)
    IN
    /\ at = "copy" /\ Sent /\ copied < Len(cur.got)
    /\ pipe.reading
    /\ k1 \in 0..Len(b1) /\ k2 \in 0..Len(b2) /\ k2 <= Room
    /\ AcceptOne(b1, k1)
    /\ one' = Keep(b1, k1)
    /\ two' = Keep(b2, k2)
    /\ pipe' = [pipe EXCEPT !.cells = @ \o Take(b2, k2)]
    /\ copied' = Len(cur.got)
    /\ UNCHANGED <<readerVars, at, hdr, offset, heard, index>>

\* The duplex refuses a write: the package fails.  A write of the copy has
\* reached the bucket's side by then.
Broken(copying) ==
    LET b == one \o Drop(cur.got, copied) IN
    /\ Sent /\ ~pipe.reading
    /\ IF copying THEN \E k \in 0..Len(b) : AcceptOne(b, k) ELSE UNCHANGED <<file, hashed>>
    /\ at' = "failed"
    /\ pipe' = [pipe EXCEPT !.open = FALSE]
    /\ UNCHANGED <<readerVars, hdr, offset, one, two, copied, heard, index>>

\* Mutant: a flush waits for a listener that has gone.
PipeBroken_CopyOnly == at = "copy" /\ copied < Len(cur.got) /\ Broken(TRUE)

\* The listener has dropped its end.
PipeBroken ==
    \/ at = "copy" /\ copied < Len(cur.got) /\ Broken(TRUE)
    \/ at = "flush" /\ one = <<>> /\ two # <<>> /\ Broken(FALSE)

EndCopy ==
    /\ at = "copy" /\ EntryRead /\ copied = Len(cur.got)
    /\ at' = IF Sent THEN "flush" ELSE "pad"
    /\ UNCHANGED <<readerVars, hdr, offset, file, hashed, one, two, copied, pipe, heard, index>>

\* MultiWriter::poll_flush: the first writer is drained, then the second.
FlushOne(k) ==
    /\ at = "flush" /\ k \in 1..Len(one)
    /\ AcceptOne(one, k)
    /\ one' = Keep(one, k)
    /\ UNCHANGED <<readerVars, at, hdr, offset, two, copied, pipe, heard, index>>

FlushTwo(k) ==
    /\ at = "flush" /\ one = <<>> /\ pipe.reading /\ k \in 1..Len(two) /\ k <= Room
    /\ pipe' = [pipe EXCEPT !.cells = @ \o Take(two, k)]
    /\ two' = Keep(two, k)
    /\ UNCHANGED <<readerVars, at, hdr, offset, file, hashed, one, copied, heard, index>>

\* Mutant: the entry is finished without waiting for the flush.
EndFlush_Early ==
    /\ at = "flush"
    /\ at' = "pad"
    /\ pipe' = [pipe EXCEPT !.open = FALSE]
    /\ UNCHANGED <<readerVars, hdr, offset, file, hashed, one, two, copied, heard, index>>

EndFlush ==
    /\ at = "flush" /\ one = <<>> /\ two = <<>>
    /\ at' = "pad"
    /\ pipe' = [pipe EXCEPT !.open = FALSE]
    /\ UNCHANGED <<readerVars, hdr, offset, file, hashed, one, two, copied, heard, index>>

\* The digest is taken, the entry padded and, if its type is known, recorded;
\* the stream is polled for the next one.
EndEntry ==
    /\ at = "pad"
    /\ file' = file \o Zeros(RoundUp(Len(cur.got)) - Len(cur.got))
    /\ index' = IF EntryTypeOf(hdr) \in TocTypes THEN Append(index, TocEntry(hdr)) ELSE index
    /\ at' = "next"
    /\ copied' = 0
    /\ TakeNext
    /\ UNCHANGED <<hdr, offset, hashed, one, two, pipe, heard>>

Finished ==
    /\ at = "next" /\ pc \in {"ended", "failed"}
    /\ at' = IF pc = "ended" THEN "done" ELSE "failed"
    /\ UNCHANGED <<readerVars, hdr, offset, file, hashed, one, two, copied, pipe, heard, index>>

-----------------------------------------------------------------------------
(* The task that reads what the listener was sent.                         *)

Hear(k) ==
    /\ pipe.reading /\ k \in 1..Len(pipe.cells)
    /\ heard' = [heard EXCEPT ![pipe.entry] = @ \o Take(pipe.cells, k)]
    /\ pipe' = [pipe EXCEPT !.cells = Drop(@, k)]
    /\ UNCHANGED <<readerVars, at, hdr, offset, file, hashed, one, two, copied, index>>

DropReader ==
    /\ pipe.reading
    /\ pipe' = [pipe EXCEPT !.reading = FALSE, !.cells = <<>>]
    /\ UNCHANGED <<readerVars, at, hdr, offset, file, hashed, one, two, copied, heard, index>>

Poll == step = "closed" /\ at = "next" /\ ReaderSteps /\ UNCHANGED concatVars
PollSuspends == step = "closed" /\ at = "next" /\ Suspend /\ UNCHANGED concatVars
Work ==
    \/ Poll
    \/ BeginEntry \/ RenameFails \/ CopyRead \/ PipeBroken
    \/ \E k \in 1..Block : CopyDirect(k)
    \/ \E k1, k2 \in 0..2 * Block : CopyBoth(k1, k2)
    \/ EndCopy
    \/ \E k \in 1..2 * Block : FlushOne(k) \/ FlushTwo(k)
    \/ EndFlush \/ EndEntry \/ Finished
Listener == (\E k \in 1..PipeCap : Hear(k)) \/ DropReader

Build == BuilderNext /\ UNCHANGED <<readerVars, concatVars>>
Next == \/ Build
        \/ (Work \/ PollSuspends \/ Listener) /\ UNCHANGED builderVars

\* The runtime polls a task that was woken, and the listener goes on reading.
Spec == Init /\ [][Next]_vars /\ WF_vars(Build)
    /\ WF_vars(Work /\ UNCHANGED builderVars)
    /\ WF_vars((\E k \in 1..PipeCap : Hear(k)) /\ UNCHANGED builderVars)

-----------------------------------------------------------------------------
(* Archives without sparse files, in which headers say what follows them:  *)
(* the size of the data, the kind of member, and no name but the member's  *)
(* own, in the header or in the extension before it.                       *)

MetaFields == {"name", "link", "pax"}
IsMeta(m) == m = [f \in MetaFields |-> m[f]]

\* A raw append of an extension; `Pending` is what a reader has collected
\* after a request, before the next one.
IsPax(r) == r.how = "raw" /\ MetaKind(r.header) # None
Pending(r) == IF IsPax(r) THEN [NoMeta EXCEPT !.pax = DataCells(r.body, r.n)] ELSE NoMeta

\* Request r may follow when t is collected.
Ready(t, r) ==
    /\ IsMeta(t) /\ t.name = None /\ t.link = None
    /\ t.pax # None => ~IsPax(r) /\ PaxValue(t.pax, "path") \in {None, r.p}
    /\ r.how = "raw" /\ ~IsPax(r) =>
         \/ PathOf(r.header) = r.p
         \/ t.pax # None /\ PaxValue(t.pax, "path") # None

PlainRequest(r) ==
    /\ r.data = DataCells(r.body, r.n)
    /\ r.how \in {"Directory", "Symlink"} => r.n = 0
    /\ r.how \in {"Regular", "Directory"} => r.link = NoPath
    /\ r.how \in {"data", "raw"} =>
         /\ EntrySize(r.header) = r.n /\ EntryTypeOf(r.header) # "GNUSparse"
         /\ MetaKind(r.header) = None => LinkNameOf(r.header) = r.link
    /\ r.how = "data" => MetaKind(r.header) = None /\ r.header.prefix = NoPath
    /\ r.how = "raw" => r.header.sum /\ MetaKind(r.header) \in {None, "pax"}
    /\ r.how # "raw" => \A i \in 1..Len(r.p.comps) : r.p.comps[i] # CurDir
    /\ None \notin {DataCells(r.p, PathLen(r.p) + 1), DataCells(r.link, PathLen(r.link) + 1),
                    DataCells(r.body, r.n)}

PlainRest(s) ==
    \A i \in 1..Len(s) : PlainRequest(s[i]) /\ (i > 1 => Ready(Pending(s[i - 1]), s[i]))
PlainJob(s) == PlainRest(s) /\ (s # <<>> => Ready(NoMeta, s[1]))

-----------------------------------------------------------------------------
(* Properties.                                                             *)

TypeOK ==
    /\ pos \in 0..Len(bytes) /\ next \in Nat
    /\ Len(held) <= Block /\ start \in 0..Block
    /\ pc \in {"header", "meta", "sparse", "entry", "ended", "failed", "hung"}
    /\ at \in {"next", "copy", "flush", "pad", "done", "failed"}
    /\ copied \in 0..Len(cur.got)
    /\ Len(pipe.cells) <= PipeCap

Whole(y, m) == y.at = m.at /\ y.got = m.data /\ y.path = m.path /\ y.link = m.link

\* Entries come in the archive's order, each from its own place in the file:
\* what is read of an entry is that member's contents, unless the file was cut
\* and the stream ends with an error, and its name is the member's own or the
\* one in its header, never another member's (poll_next_raw's bookkeeping of
\* `next` and `pos` over skips, long names and sparse maps).
ReadInOrder ==
    /\ TypeOK
    /\ \A i \in 1..Len(out) - 1 : out[i].at < out[i + 1].at
    /\ \A i \in DOMAIN out : \E j \in DOMAIN members :
        LET m == members[j] IN
        /\ out[i].at = m.at
        /\ out[i].path \in {m.path, out[i].short}
        /\ whole \/ pc = "ended" => out[i].got = m.data /\ out[i].size = Len(m.data)

\* The stream of a whole archive ends without an error and has every member,
\* under its own name, if no poll was suspended inside a header or a long
\* name (Entries::poll_next).
WholeUnlessTorn ==
    whole /\ ~torn =>
        /\ pc # "failed"
        /\ pc = "ended" => /\ Len(out) = Len(members)
                           /\ \A i \in DOMAIN out : Whole(out[i], members[i])

\* The same without the condition: what the stream of a whole archive yields
\* does not depend on where the source suspends.
EntriesComplete ==
    whole /\ pc = "ended" => Len(out) = Len(members)

\* A TOC entry names the place of its payload in the bucket, the digest is
\* that of the payload, and both are what was read from the archive, whatever
\* parts the writers took (TarConcater::append, HashWriter, AllWriter); the
\* listener is given the same bytes, in order.
TocDescribesBucket ==
    /\ \A i \in DOMAIN index : LET e == index[i] IN
        \E j \in DOMAIN out :
            /\ e.offset - Base + Len(out[j].got) <= Len(file)
            /\ SubSeq(file, e.offset - Base + 1, e.offset - Base + Len(out[j].got)) = out[j].got
            /\ e.digest = out[j].got
            /\ e.size = out[j].size
    /\ Sent /\ pipe.reading => IsPrefix(heard[pipe.entry] \o pipe.cells \o two,
                                        SubSeq(cur.got, 1, copied))
    /\ at = "pad" /\ pipe.reading /\ PathOf(cur.h) \in Listened =>
        heard[pipe.entry] \o pipe.cells = cur.got

\* A whole archive is appended or refused, however the source and the
\* listener behave (tar.rs:91-143).
AppendEnds == []<>(~whole \/ at \in {"done", "failed"})
=============================================================================
