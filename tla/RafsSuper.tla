----------------------------- MODULE RafsSuper -----------------------------
(***************************************************************************)
(* A bootstrap that was built is mounted and used (rafs/src/metadata).     *)
(* In direct mode inodes are read from the mapped file through the table   *)
(* of offsets, and another file may be mapped in its place at any time; in *)
(* cached mode all inodes are loaded, one after the other, into objects.   *)
(*                                                                         *)
(* One user at a time asks for a path, an inode, its data, its path or a   *)
(* prefetch; a lookup by number in direct mode reads the mapping twice.    *)
(***************************************************************************)
EXTENDS Bootstrap

CONSTANTS
    Asked,     \* the paths that are looked up
    Lengths    \* the sizes of reads, from every offset of a file

VARIABLES
    mode,    \* "direct" or "cached"
    pc,
    meta,    \* the super block
    mapped,  \* DirectMappingState: the image, its inode and blob tables
    pos,     \* where the cached loader is in the file
    objs,    \* CachedInode objects
    byIno,   \* s_inodes
    dirSet,  \* dir_ino_set, and later what prefetch has to visit
    req,     \* the request
    pinned,  \* the mapping get_inode found the offset in
    handle,  \* the inode in use
    rest,    \* components left to find, or found on the way up; files prefetched
    bios     \* what a read or a prefetch fetches

loadVars == <<mode, meta, pos, objs, byIno>>
useVars == <<mapped, dirSet, req, pinned, handle, rest, bios>>
superVars == <<pc, loadVars, useVars>>
vars == <<builderVars, superVars>>

SuperInit ==
    /\ mode = "direct"      \* as for a parent; the user chooses another
    /\ pc = "load"
    /\ meta = None /\ mapped = None
    /\ pos = 0 /\ objs = <<>> /\ byIno = <<>> /\ dirSet = <<>>
    /\ req = None /\ pinned = None /\ handle = None
    /\ rest = <<>> /\ bios = <<>>

Direct == mode = "direct"
Cached == mode = "cached"

-----------------------------------------------------------------------------
\* Loading.

\* update_state: the new mapping is read with the fields of the old one.
CanMap(f, m) ==
    /\ f.end >= SuperBlockSize /\ f.end % 8 = 0
    /\ m.tableAt < f.end /\ m.tableAt + 4 * m.entries <= f.end
    /\ m.blobsAt < f.end /\ m.blobsAt + m.blobsSize <= f.end
Mapping(i, m) ==
    LET f == images[i].file IN
    [img |-> i,
     table |-> SubSeq(ReadAt(f, "table", m.tableAt), 1, m.entries),
     blobs |-> LoadBlobs(SubSeq(ReadAt(f, "blobs", m.blobsAt), 1, m.blobsSize))]

\* The image that is mounted: that of a layered build with all its layers,
\* or else the first; others may be mapped in its place.
Mounted == IF jobs[Len(jobs)].tool = "apply" THEN Len(jobs) ELSE 1

\* RafsSuper::load.
Load ==
    LET f == images[Mounted].file
        sb == ReadAt(f, "super", 0)
    IN
    /\ stage = "built" /\ pc = "load"
    /\ mode' \in {"direct", "cached"}
    /\ meta' = sb
    /\ IF ~Validate(sb) \/ (mode' = "direct" /\ ~CanMap(f, sb))
       THEN pc' = "failed" /\ UNCHANGED <<mapped, pos>>
       ELSE IF mode' = "direct"
       THEN pc' = "ready" /\ mapped' = Mapping(Mounted, sb) /\ UNCHANGED pos
       ELSE /\ pc' = "inodes"
            /\ mapped' = [img |-> Mounted, table |-> <<>>, blobs |-> LoadBlobs(ReadAt(f, "blobs", sb.blobsAt))]
            /\ pos' = sb.blobsAt + sb.blobsSize
    /\ UNCHANGED <<builderVars, objs, byIno, dirSet, req, pinned, handle, rest, bios>>

\* DirectMapping::update, at any time; RafsSuper::update reads the super
\* block of the new file and leaves it at that.
Update ==
    /\ Direct /\ pc \notin {"load", "failed", "done"}
    /\ mapped.img < Len(images)
    /\ CanMap(images[mapped.img + 1].file, meta)
    /\ mapped' = Mapping(mapped.img + 1, meta)
    /\ UNCHANGED <<builderVars, pc, loadVars, dirSet, req, pinned, handle, rest, bios>>

\* CachedInode::load: what follows the inode is read by the sizes in it.
Image == images[Mounted].file
CachedAt(at) ==
    LET n == ReadAt(Image, "inode", at)
        afterLink == at + BytesOf(n)
        xattrs == IF n.xattr THEN ReadAt(Image, "xattr", afterLink) ELSE <<>>
        chunksAt == afterLink + XattrSize(xattrs)
        count == IF n.type = "reg" THEN n.childCount ELSE 0
    IN [inode |-> n, name |-> ReadAt(Image, "name", at + InodeSize), kids |-> <<>>,
        data |-> [i \in 1..count |-> ReadAt(Image, "chunk", chunksAt + (i - 1) * ChunkSize)],
        next |-> chunksAt + count * ChunkSize]

\* Arc::get_mut(parent).unwrap(): nobody else may hold the parent.
Held(id) == \E o \in 1..Len(objs) : id \in Range(objs[o].kids)

\* add_child sorts when the last child has come.
AddChildOf(os, parent, id) ==
    LET kids  == Append(os[parent].kids, id)
        names == [k \in DOMAIN kids |-> os[kids[k]].name]
    IN  [os EXCEPT ![parent].kids =
            IF Len(kids) = os[parent].inode.childCount THEN SortedBy(kids, names) ELSE kids]

\* add_into_parent; an inode whose parent is not there is left out.
AttachTo(os, ino, id) ==
    /\ IF ino \notin DOMAIN byIno' THEN pc' = pc /\ objs' = os
       ELSE IF Held(byIno'[ino]) THEN pc' = "panic" /\ objs' = os
       ELSE pc' = pc /\ objs' = AddChildOf(os, byIno'[ino], id)

\* hash_inode keeps the first object of a file with several links.
KeepsFirst(o) ==
    /\ o.inode.type # "dir" /\ o.inode.nlink > 1
    /\ o.inode.ino \in DOMAIN byIno /\ objs[byIno[o.inode.ino]].data # <<>>

\* load_all_inodes, one inode per step.
LoadInode ==
    LET o == CachedAt(pos)
        id == Len(objs) + 1
    IN
    /\ pc = "inodes" /\ pos < Image.end
    /\ pos' = o.next
    /\ byIno' = IF KeepsFirst(o) THEN byIno ELSE (o.inode.ino :> id) @@ byIno
    /\ IF o.inode.type = "dir"
       THEN /\ dirSet' = Append(dirSet, o.inode.ino)
            /\ objs' = Append(objs, o) /\ pc' = pc
       ELSE /\ UNCHANGED dirSet
            /\ AttachTo(Append(objs, o), o.inode.parent, id)
    /\ UNCHANGED <<builderVars, mode, meta, mapped, req, pinned, handle, rest, bios>>

\* The directories, the last one first.
AttachDir ==
    /\ pc = "inodes" /\ pos = Image.end /\ dirSet # <<>>
    /\ UNCHANGED byIno
    /\ LET id == byIno[Last(dirSet)] IN AttachTo(objs, objs[id].inode.parent, id)
    /\ dirSet' = Front(dirSet)
    /\ UNCHANGED <<builderVars, mode, meta, pos, mapped, req, pinned, handle, rest, bios>>

Loaded ==
    /\ pc = "inodes" /\ pos = Image.end /\ dirSet = <<>>
    /\ pc' = "ready"
    /\ UNCHANGED <<builderVars, loadVars, useVars>>

-----------------------------------------------------------------------------
\* Inodes.

FileOf(h) == images[h.map.img].file
Ondisk(h) == IF Direct THEN ReadAt(FileOf(h), "inode", h.at) ELSE objs[h.obj].inode
IsDir(h) == Ondisk(h).type = "dir"
NameIn(h) == IF Direct THEN ReadAt(FileOf(h), "name", h.at + InodeSize) ELSE objs[h.obj].name

\* get_xattr_size
XattrArea(h) == IF Ondisk(h).xattr THEN XattrSize(ReadAt(FileOf(h), "xattr", h.at + BytesOf(Ondisk(h)))) ELSE 0

\* OndiskInodeWrapper::validate.
SizeWithChunks(n) == BytesOf(n) + (IF n.type = "reg" THEN n.childCount * ChunkSize ELSE 0)
Valid(h) ==
    LET n == Ondisk(h) IN
    /\ n.parent # n.ino /\ n.nlink # 0
    /\ n.parent > n.ino => n.nlink > 1
    /\ n.type \in {"reg", "dir"} => h.at + SizeWithChunks(n) + XattrArea(h) <= FileOf(h).end
    /\ n.type = "dir" => /\ n.childIndex > n.ino
                         /\ n.childIndex - 1 <= Len(h.map.table)
                         /\ n.childCount <= Len(h.map.table)

\* Mutant: the table is indexed from zero.
Wrapper_FromZero(k, state, clone) ==
    LET h == [map |-> clone, at |-> OffsetOf(state.table, k + 1)] IN
    IF h.at = 0 THEN None ELSE IF Ondisk(h) = Garbage THEN Garbage ELSE IF Valid(h) THEN h ELSE None

\* get_inode_wrapper: the offset comes from one state, the wrapper clones
\* another.  None when it is refused; Garbage when no inode is there.
Wrapper(k, state, clone) ==
    LET h == [map |-> clone, at |-> OffsetOf(state.table, k)] IN
    IF h.at = 0 THEN None
    ELSE IF Ondisk(h) = Garbage THEN Garbage
    ELSE IF Valid(h) THEN h ELSE None

\* get_child_by_name.  Direct mode searches the table, cached mode the
\* vector; a vector that is not sorted may hide what it holds.
KidAt(h, k) == Wrapper(Ondisk(h).childIndex + k, h.map, h.map)
DirectChild(h, name) ==
    LET n == Ondisk(h)
        search[first \in 0..n.childCount, last \in -1..(n.childCount - 1)] ==
          IF first > last THEN None
          ELSE LET pivot == first + ((last - first) \div 2)
                   kid == KidAt(h, pivot)
               IN  IF kid \in {None, Garbage} THEN kid
                   ELSE IF NameIn(kid) = name THEN kid
                   ELSE IF NameIn(kid) > name THEN search[first, pivot - 1]
                   ELSE search[pivot + 1, last]
    IN  IF n.type # "dir" THEN None ELSE search[0, n.childCount - 1]

CachedChildren(h, name) ==
    LET kids == objs[h.obj].kids
        named == {[obj |-> kids[k]] : k \in {j \in 1..Len(kids) : objs[kids[j]].name = name}}
        ordered == \A j \in 1..(Len(kids) - 1) : objs[kids[j]].name <= objs[kids[j + 1]].name
    IN  IF named = {} \/ ~ordered THEN named \cup {None} ELSE named

Children(h, name) == IF Direct THEN {DirectChild(h, name)} ELSE CachedChildren(h, name)

\* get_chunk_info and get_chunk_blob_id.
ChunkAt(h, i) ==
    IF Cached THEN objs[h.obj].data[i]
    ELSE ReadAt(FileOf(h), "chunk", h.at + BytesOf(Ondisk(h)) + XattrArea(h) + (i - 1) * ChunkSize)
BlobOf(h, i) == IF Cached THEN mapped.blobs[i] ELSE h.map.blobs[i]

\* Mutant: a read inside a block starts with the next one.
ChunkRange_RoundUp(n, off, end) ==
    ((off + meta.blockSize - 1) \div meta.blockSize + 1)..Min({(end - 1) \div meta.blockSize + 1, n.childCount})
\* The number of chunks is an upper bound of the index.
ChunkRange(n, off, end) ==
    (off \div meta.blockSize + 1)..Min({(end - 1) \div meta.blockSize + 1, n.childCount})

\* alloc_bio_desc and add_chunk_to_bio_desc: the parts of the chunks between
\* off and off + size, up to the first chunk behind the end.
BioDesc(h, off, size) ==
    LET n == Ondisk(h)
        end == off + size
        chunks == IF size = 0 \/ n.type # "reg" THEN {} ELSE ChunkRange(n, off, end)
        part[i \in chunks \cup {n.childCount + 1}] ==
          IF i \notin chunks THEN <<>>
          ELSE LET c == ChunkAt(h, i)
                   from == IF off > c.off THEN off - c.off ELSE 0
                   to == IF end < c.off + c.len THEN end - c.off ELSE c.len
                   more == IF i + 1 \in chunks THEN part[i + 1] ELSE <<>>
               IN  IF off >= c.off + c.len THEN more
                   ELSE IF end <= c.off THEN <<>>
                   ELSE <<[blob |-> BlobOf(h, c.blob), at |-> c.at + from, len |-> to - from]>> \o more
    IN  IF chunks = {} THEN <<>> ELSE part[Min(chunks)]

-----------------------------------------------------------------------------
\* Requests.

\* ino_from_path; `/` is known without a look.
AskPath(p) ==
    /\ pc = "ready" /\ p \in Asked
    /\ req' = [op |-> "find", path |-> p, want |-> 1]
    /\ rest' = p
    /\ pc' = IF p = <<>> THEN "found" ELSE "get"
    /\ UNCHANGED <<builderVars, loadVars, mapped, dirSet, pinned, handle, bios>>

\* With the number that was found: get_inode, path_from_ino, prefetch.
AskInode(op) ==
    /\ pc = "found"
    /\ req' = [req EXCEPT !.op = op, !.want = IF req.path = <<>> THEN 1 ELSE Ondisk(handle).ino]
    /\ pc' = "get" /\ rest' = <<>> /\ bios' = <<>>
    /\ UNCHANGED <<builderVars, loadVars, mapped, dirSet, pinned, handle>>

\* DirectMapping::get_inode loads the state for the offset.
PinTable ==
    /\ pc = "get" /\ Direct
    /\ pinned' = mapped
    /\ pc' = "wrap"
    /\ UNCHANGED <<builderVars, loadVars, mapped, dirSet, req, handle, rest, bios>>

After(op) == CASE op = "find" -> "walk" [] op = "read" -> "open" [] op = "path" -> "up" [] op = "prefetch" -> "collect"
                 [] op = "check" -> "digest"

Got(h) ==
    IF h \in {None, Garbage}
    THEN pc' = (IF h = None THEN "refused" ELSE "garbage") /\ UNCHANGED <<handle, dirSet>>
    ELSE /\ pc' = After(req.op)
         /\ handle' = h
         /\ dirSet' = IF req.op = "prefetch" THEN <<h>> ELSE dirSet

\* It then clones the mapping for the wrapper, and loads the state again.
Wrap ==
    /\ pc = "wrap"
    /\ Got(Wrapper(req.want, pinned, mapped))
    /\ UNCHANGED <<builderVars, loadVars, mapped, req, pinned, rest, bios>>

GetCached ==
    /\ pc = "get" /\ Cached
    /\ Got(IF req.want \in DOMAIN byIno THEN [obj |-> byIno[req.want]] ELSE None)
    /\ UNCHANGED <<builderVars, loadVars, mapped, req, pinned, rest, bios>>

\* One component of the path.
Walk ==
    /\ pc = "walk" /\ rest # <<>>
    /\ \E kid \in Children(handle, Head(rest)) :
         IF kid \in {None, Garbage}
         THEN pc' = (IF kid = None THEN "absent" ELSE "garbage") /\ UNCHANGED <<handle, rest>>
         ELSE pc' = pc /\ handle' = kid /\ rest' = Tail(rest)
    /\ UNCHANGED <<builderVars, loadVars, mapped, dirSet, req, pinned, bios>>

WalkDone ==
    /\ pc = "walk" /\ rest = <<>>
    /\ pc' = "found"
    /\ UNCHANGED <<builderVars, loadVars, useVars>>

ReadRange(off, size) ==
    /\ pc = "open" /\ off \in 0..Ondisk(handle).size /\ size \in Lengths
    /\ req' = [op |-> "read", path |-> req.path, want |-> req.want, off |-> off, size |-> size]
    /\ bios' = BioDesc(handle, off, size)
    /\ pc' = "read"
    /\ UNCHANGED <<builderVars, loadVars, mapped, dirSet, pinned, handle, rest>>

\* path_from_ino: the names on the way up to inode 1.
Up ==
    /\ pc = "up"
    /\ rest' = <<NameIn(handle)>> \o rest
    /\ IF Ondisk(handle).ino = 1
       THEN pc' = "path" /\ UNCHANGED req
       ELSE pc' = "get" /\ req' = [req EXCEPT !.want = Ondisk(handle).parent]
    /\ UNCHANGED <<builderVars, loadVars, mapped, dirSet, pinned, handle, bios>>

\* digest_validate, of an inode and the files in it. A digest stands for what
\* was hashed: build_bootstrap leaves it at its default.
DigestOf(h) == Ondisk(h).digest
SymlinkOf(h) == ReadAt(FileOf(h), "symlink", h.at + InodeSize + AlignToRafs(Ondisk(h).nameSize))
Hashed(h) == [hash |->
    IF Ondisk(h).type = "symlink" THEN <<[target |-> SymlinkOf(h)]>>
    ELSE [k \in 1..Ondisk(h).childCount |-> IF IsDir(h) THEN DigestOf(KidAt(h, k - 1)) ELSE ChunkAt(h, k).id]]
InodeValid(h) ==
    /\ IsDir(h) => \A kid \in {KidAt(h, k - 1) : k \in 1..Ondisk(h).childCount} :
                      kid \notin {None, Garbage} /\ (~IsDir(kid) => DigestOf(kid) = Hashed(kid))
    /\ DigestOf(h) = Hashed(h)

\* The validator: from_bootstrap gets every inode, with its digest.
DigestsValid(h) ==
    LET valid[k \in 1..Len(h.map.table)] ==
          \E i \in {Wrapper(k, h.map, h.map)} \ {None, Garbage} :
            /\ InodeValid(i)
            /\ IsDir(i) => \A c \in Ondisk(i).childIndex..(Ondisk(i).childIndex + Ondisk(i).childCount - 1) :
                              c > k => valid[c]
    IN  valid[1]
AskCheck ==
    /\ pc = "ready" /\ Direct
    /\ req' = [op |-> "check", path |-> <<>>, want |-> 1]
    /\ pc' = "get"
    /\ UNCHANGED <<builderVars, loadVars, mapped, dirSet, pinned, handle, rest, bios>>
Check ==
    /\ pc = "digest"
    /\ pc' = IF DigestsValid(handle) THEN "accepted" ELSE "rejected"
    /\ UNCHANGED <<builderVars, loadVars, useVars>>

\* build_prefetch_desc: the files of a directory, then its directories.
CachedKids(h) == [k \in 1..Len(objs[h.obj].kids) |-> [obj |-> objs[h.obj].kids[k]]]
DirectKids(h) == [k \in 1..Ondisk(h).childCount |-> KidAt(h, k - 1)]
Kids(h) == IF Cached THEN CachedKids(h) ELSE DirectKids(h)
\* Of the links to a file the first one is fetched.
FirstLink(files, i) ==
    LET n == Ondisk(files[i]) IN
    n.nlink = 1 \/ n.ino \notin (Range(rest) \cup {Ondisk(files[j]).ino : j \in 1..(i - 1)})
Collect ==
    /\ pc = "collect" /\ dirSet # <<>>
    /\ LET h == Head(dirSet)
           kids == IF IsDir(h) THEN Kids(h) ELSE <<h>>
       IN
       \E files \in {SelectSeq(kids, LAMBDA k : k \in {None, Garbage} \/ ~IsDir(k))} :
         IF Range(files) \cap {None, Garbage} # {}
         THEN pc' = "panic" /\ UNCHANGED <<dirSet, rest, bios>>
         ELSE /\ dirSet' = SelectSeq(kids, IsDir) \o Tail(dirSet)
              /\ rest' = rest \o [i \in DOMAIN files |-> Ondisk(files[i]).ino]
              /\ bios' = bios \o FlattenSeq([i \in DOMAIN files |->
                            IF FirstLink(files, i) THEN BioDesc(files[i], 0, Ondisk(files[i]).size) ELSE <<>>])
              /\ pc' = pc
    /\ UNCHANGED <<builderVars, loadVars, mapped, req, pinned, handle>>

\* prefetch_hint_files: the inodes of the prefetch table, the links to one
\* file once. A table that is empty, when no files are named, is an error.
HintFiles ==
    /\ pc = "ready"
    /\ req' = [op |-> "hints", path |-> <<>>, want |-> 0]
    /\ LET table == IF meta.prefetch = 0 THEN <<>> ELSE ReadAt(images[Mounted].file, "prefetch", meta.prefetchAt)
           inos  == StorePrefetch(SetToSeq(Range(table)))
           got   == [i \in DOMAIN inos |->
                       IF Direct THEN Wrapper(inos[i], mapped, mapped)
                       ELSE IF inos[i] \in DOMAIN byIno THEN [obj |-> byIno[inos[i]]] ELSE None]
       IN  IF table = <<>> \/ Range(got) \cap {None, Garbage} # {}
           THEN pc' = "unhinted" /\ UNCHANGED bios
           ELSE /\ bios' = FoldLeft(LAMBDA b, h : b \o BioDesc(h, 0, Ondisk(h).size), <<>>, got)
                /\ pc' = "hinted"
    /\ UNCHANGED <<builderVars, loadVars, mapped, dirSet, pinned, handle, rest>>

CollectDone ==
    /\ pc = "collect" /\ dirSet = <<>>
    /\ pc' = "fetched"
    /\ UNCHANGED <<builderVars, loadVars, useVars>>

SuperNext ==
    \/ Load \/ LoadInode \/ AttachDir \/ Loaded
    \/ \E p \in Asked : AskPath(p)
    \/ \E op \in {"read", "path", "prefetch"} : AskInode(op)
    \/ PinTable \/ Wrap \/ GetCached \/ Walk \/ WalkDone
    \/ pc = "open" /\ \E off \in 0..Ondisk(handle).size, size \in Lengths : ReadRange(off, size)
    \/ AskCheck \/ Check \/ HintFiles
    \/ Up \/ Collect \/ CollectDone

-----------------------------------------------------------------------------
\* Properties.

ImageOf(h) == IF Cached THEN Mounted ELSE h.map.img
Plain(e) == Supported(e) /\ e.type # "chunk"

\* What an image holds: the TOC it was made of, or the parent's and, on top
\* of it, that of the image the builder made before.
Toc(i) ==
    LET of[k \in 1..i] == IF jobs[k].tool = "apply" THEN of[jobs[k].parent] \o of[k - 1] ELSE jobs[k].toc
    IN  of[i]
JobOf(h) == [toc |-> Toc(ImageOf(h))]

\* A directory is listed before what is in it, the root excepted; the rest
\* is what build_tree gets wrong (see the README).
InOrder(toc) ==
    \A j, k \in 1..Len(toc) :
      (j < k /\ toc[k].type = "dir" /\ toc[k].path # <<>>) =>
        ~IsPrefix(toc[k].path, toc[j].path)
\* The layered builder cuts no file into blocks, and puts a layer beside
\* what is below: both must not have a directory or file of one name.
InBlocks(toc) == \A e \in Range(toc) : e.type = "reg" /\ e.chunkSize = 0 => e.size <= BlockSize
Paths(toc) == UNION {{SubSeq(e.path, 1, n) : n \in 1..Len(e.path)} : e \in {x \in Range(toc) : Supported(x)}}
Orderly(i) ==
    LET orderly[k \in 1..i] ==
          CASE jobs[k].tool = "bootstrap" -> InOrder(jobs[k].toc)
            [] jobs[k].tool = "create" -> InOrder(jobs[k].toc) /\ InBlocks(jobs[k].toc)
            [] jobs[k].tool = "apply" -> /\ orderly[jobs[k].parent] /\ orderly[k - 1]
                                         /\ Paths(Toc(jobs[k].parent)) \cap Paths(Toc(k - 1)) = {}
    IN  orderly[i]
\* dump leaves extended attributes out of the table direct mode reads.
NoAttrs(i) == jobs[i].tool # "bootstrap" \/ (host = <<>> /\ \A e \in Range(jobs[i].toc) : e.xattrs = <<>>)
Exact(h) == Orderly(ImageOf(h)) /\ (Cached \/ NoAttrs(ImageOf(h)))

FileEntries(job, p) == {e \in Range(job.toc) : Plain(e) /\ e.path = p}
Target(job, e) == IF e.type = "hardlink" THEN {t \in FileEntries(job, e.link) : t.type = "reg"} ELSE {e}
\* What the TOC says of a path: nothing, or a type and a size.
Expected(job, p) ==
    IF FileEntries(job, p) # {}
    THEN LET e == CHOOSE x \in FileEntries(job, p) : TRUE IN
         [type |-> EntryType(e),
          size |-> IF e.type = "symlink" THEN e.linkSize
                   ELSE IF Target(job, e) = {} THEN e.size ELSE (CHOOSE t \in Target(job, e) : TRUE).size]
    ELSE IF \E e \in Range(job.toc) : Plain(e) /\ IsStrictPrefix(p, e.path)
    THEN [type |-> "dir", size |-> 0]
    ELSE None

LinksOf(ns, p) == {ns[k].path : k \in {k \in DOMAIN ns : \E j \in DOMAIN ns : ns[j].path = p /\ ns[j].ino = ns[k].ino}}

\* ino_from_path finds what the TOC lists, with its type and size, and no
\* other path; the inode opened by the number found is that one, unless
\* another bootstrap was mapped inside get_inode; and path_from_ino undoes it,
\* or gives another link to the file where links share an inode.
PathsResolve ==
    handle # None =>
      LET expected == Expected(JobOf(handle), req.path) IN
      Exact(handle) =>
        /\ (pc = "absent" => expected = None)
        /\ (pc = "found" /\ req.path # <<>> =>
             /\ expected # None
             /\ Ondisk(handle).type = expected.type /\ Ondisk(handle).size = expected.size)
        /\ (pc = "open" /\ (Cached \/ pinned.img = handle.map.img) => Ondisk(handle).ino = req.want)
        /\ (pc = "path" /\ (Cached \/ handle.map.img = Mounted) =>
             \E p \in LinksOf(images[Mounted].nodes, req.path) : rest = <<RootName>> \o p)

PathOfNode(h) == images[ImageOf(h)].nodes[Ondisk(h).ino].path
Pieces(bs) == FoldLeft(LAMBDA bytes, b : bytes \o [i \in 1..b.len |-> <<b.blob, b.at + i - 1>>], <<>>, bs)
Content(job, p) ==
    LET es == UNION {Target(job, e) : e \in FileEntries(job, p)} IN
    IF es = {} THEN <<>>
    ELSE LET e == CHOOSE x \in es : TRUE IN
         IF e.type # "reg" THEN <<>> ELSE [i \in 1..e.size |-> <<e.blob, e.offset + i - 1>>]
FetchesAll(toc, p) == Range(Content([toc |-> toc], p)) \subseteq Range(Pieces(bios))
\* The hints of an image are those its builder was given.
HintsOf(i) == IF jobs[i].tool = "apply" THEN jobs[i - 1].hints ELSE jobs[i].hints

\* A read of a file fetches, in order, each byte of the range from the place
\* in the blob where the package's archive has it; a prefetch of a directory
\* fetches every byte of every file below it, and one by the prefetch table
\* every byte of each file hinted, unless a directory above is hinted too.
ReadsExact ==
    /\ pc \in {"read", "fetched"} /\ Exact(handle) =>
         LET job == JobOf(handle)
             all == Content(job, PathOfNode(handle)) IN
         /\ pc = "read" => Pieces(bios) = SubSeq(all, req.off + 1, Min({req.off + req.size, Len(all)}))
         /\ pc = "fetched" => \A e \in Range(job.toc) :
              (Plain(e) /\ IsPrefix(PathOfNode(handle), e.path)) => FetchesAll(job.toc, e.path)
    /\ pc = "hinted" /\ Orderly(Mounted) /\ (Direct => mapped.img = Mounted) =>
         \A p \in HintsOf(Mounted) :
           (\A q \in HintsOf(Mounted) : ~IsStrictPrefix(q, p)) => FetchesAll(Toc(Mounted), p)

\* A parent whose digests are not right: build_bootstrap sets none, the layered
\* builder none for a symlink, and what is not Orderly is left aside.
NoParent(i) ==
    \/ jobs[i].tool = "bootstrap" \/ ~Orderly(i)
    \/ \E e \in Range(Toc(i)) : e.type = "symlink"

\* Bytes that are no inode are taken for one, a lookup panics or an image is
\* refused by the check, only when the file was swapped within get_inode, or
\* for one of the images the host's `/` had attributes or the TOC was not
\* Orderly (a directory after what is in it, files larger than a block for the
\* layered builder, layers that overlap); and an image is refused as a parent
\* only for digests.
NeverGarbage ==
    /\ pc \in {"garbage", "panic", "refused"} =>
         \/ (Direct /\ pinned.img # mapped.img)
         \/ \E j \in 1..Len(jobs) : ~NoAttrs(j) \/ ~Orderly(j)
    /\ stage = "failed" => NoParent(Job.parent)

\* The inode table and the tree of a finished image: an entry per inode that
\* leads to it, children in one range behind their parent, all but the root
\* in exactly one range.
RangeOf(n) == IF n.type = "dir" THEN n.childIndex..(n.childIndex + n.childCount - 1) ELSE {}
LayoutSound ==
    \A i \in 1..Len(images) :
      LET f == images[i].file
          ns == images[i].nodes
          table == ReadAt(f, "table", SuperBlockSize)
      IN
      Orderly(i) =>
        /\ \A k \in 1..Len(ns) :
             /\ NoAttrs(i) => ReadAt(f, "inode", OffsetOf(table, k)) = Inode(ns[k])
             /\ \A c \in RangeOf(ns[k]) : c > k /\ ns[c].parent = ns[k].ino
             /\ k > 1 => Cardinality({d \in 1..Len(ns) : k \in RangeOf(ns[d])}) = 1
        /\ ReadAt(f, "super", 0).count = Cardinality({ns[k].ino : k \in 1..Len(ns)})

\* Whether a request that is "garbage" or the like may be, NeverGarbage says.
Ended == {"absent", "read", "path", "fetched", "garbage", "refused", "panic", "rejected", "accepted", "hinted",
          "unhinted"}
\* Whatever entries a TOC has, its image is built, by either tool, loads in
\* either mode, and the request comes to an end. A build panics only for a
\* TOC without a root, and fails only for a parent whose digests are wrong.
RequestsAnswered ==
    <>(\/ pc \in Ended
       \/ stage = "panic" /\ ~HasRoot(Job.toc)
       \/ stage = "failed" /\ NoParent(Job.parent))

=============================================================================
