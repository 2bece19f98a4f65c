----------------------------- MODULE Bootstrap -----------------------------
(***************************************************************************)
(* From a TOC to a bootstrap file (packages/bootstrap: tree.rs, stargz.rs, *)
(* node.rs, bootstrap.rs).  The entries become nodes, with the directories *)
(* nobody listed; the nodes are put in a tree; build_rafs flattens it      *)
(* directory by directory and numbers the inodes; dump writes the tables   *)
(* and the nodes.  The other tool of the package, which parses a TOC with  *)
(* the same code, is in LayerBuilder.                                      *)
(***************************************************************************)
EXTENDS RafsLayout

CONSTANTS
    Builds,  \* what may be built: sequences of jobs, one image after the other: the
             \* tool, the toc and its blobs, for "create" hints, for "apply" the parent
    Hosts    \* the extended attributes `/` may have on the building host

\* The npm fs names the blob of every entry.
ASSUME BootstrapAssumption ==
    /\ BlockSize \in Nat \ {0}
    /\ \A b \in Builds : \A j \in 1..Len(b) : \A k \in 1..Len(b[j].toc) :
         b[j].toc[k].blob \in Range(b[j].blobs)

VARIABLES
    jobs,     \* the images to build
    host,     \* the extended attributes of `/`
    stage,    \* "index", "tree", "rafs", "dump", "nodes", "built", "panic"
    todo,     \* entries, nodes or inodes of the stage left to handle
    known,    \* path_inode_map
    lastReg,  \* last_reg_entry
    chunksOf, \* file_chunk_map
    linkOf,   \* hardlink_map
    entries,  \* the nodes parsed
    tree,     \* the tree: node and children of each; the first is `/`
    trace,    \* TreeTrace: where each path is in the tree
    dir,      \* the directory build_rafs is at
    stack,    \* the directories after it
    inoMap,   \* inode_map
    nodes,    \* the inodes in the order of their index
    file,     \* the bootstrap
    images    \* the bootstraps finished, with the nodes they hold

envVars == <<jobs, host>>
parseVars == <<known, lastReg, chunksOf, linkOf, entries>>
treeVars == <<tree, trace>>
walkVars == <<dir, stack, inoMap>>
outVars == <<nodes, file, images>>
builderVars == <<envVars, stage, todo, parseVars, treeVars, walkVars, outVars>>

Job == jobs[Len(images) + 1]

\* The number a file has where it comes from, and the layer: only the other
\* tool looks at them.
Node(path, type, size, symSize, xattrs) ==
    [path |-> path, type |-> type, size |-> size, chunks |-> <<>>, xattrs |-> xattrs,
     real |-> 0, overlay |-> "upper", digest |-> NoDigest,
     ino |-> 0, parent |-> 0, nlink |-> 1, childIndex |-> 0, childCount |-> 0,
     nameSize |-> SizeOfName(IF path = <<>> THEN RootName ELSE Last(path)), symSize |-> symSize]

\* Bootstrap::build_tree starts from the root directory of the host.
Root == Node(<<>>, "dir", 0, 0, host)

Start == <<[node |-> Root, kids |-> <<>>]>>

BuilderInit ==
    /\ jobs \in Builds /\ host \in Hosts
    /\ stage = "index"
    /\ todo = jobs[1].toc
    /\ known = <<>> /\ lastReg = None
    /\ chunksOf = <<>> /\ linkOf = <<>>
    /\ entries = <<>>
    /\ tree = Start
    /\ trace = <<>>
    /\ dir = None /\ stack = <<>>
    /\ inoMap = <<>>
    /\ nodes = <<>>
    /\ file = EmptyFile
    /\ images = <<>>

-----------------------------------------------------------------------------
\* StargzIndexTreeBuilder::build, first loop: one entry of the TOC.

TocEntry(type, path, blob, offset, size) ==
    [type |-> type, path |-> path, blob |-> blob, offset |-> offset, size |-> size,
     chunkOffset |-> 0, chunkSize |-> 0, link |-> <<>>, linkSize |-> 0, xattrs |-> <<>>]
NewDir(path) == TocEntry("dir", path, <<>>, 0, 0)

Supported(e) == e.type \in {"dir", "reg", "symlink", "hardlink", "chunk"}

DecompressSize(e) ==
    IF e.chunkSize = 0 /\ e.size # 0 THEN e.size
    ELSE IF e.type = "chunk" /\ e.chunkSize = 0 /\ lastReg # None THEN lastReg.size - e.chunkOffset
    ELSE e.chunkSize

\* blob_index is set later, decompress_offset stays 0; block_id hashes the
\* whole entry and its blob.
Chunk(e) == [blob |-> 1, at |-> e.offset, off |-> e.chunkOffset, len |-> DecompressSize(e), id |-> e]

AddChunk(e) ==
    IF e.type \in {"reg", "chunk"} /\ DecompressSize(e) # 0
    THEN LET old == IF e.path \in DOMAIN chunksOf THEN chunksOf[e.path] ELSE [size |-> 0, chunks |-> <<>>]
         IN  (e.path :> [size |-> IF e.type = "reg" THEN e.size ELSE old.size,
                         chunks |-> Append(old.chunks, Chunk(e))]) @@ chunksOf
    ELSE chunksOf

\* make_lost_dirs: the ancestors above the first one that is known.
LostDirs(path) ==
    LET up == {k \in 0..(Len(path) - 1) : \A j \in k..(Len(path) - 1) : SubSeq(path, 1, j) \notin DOMAIN known}
    IN  [k \in 1..Cardinality(up) |-> NewDir(SubSeq(path, 1, Len(path) - Cardinality(up) + k - 1))]

\* parse_node; a hardlink is a regular file with the number of what it links
\* to, if that is known. A path listed twice gets a number that is not new.
EntryType(e) == IF e.type = "hardlink" THEN "reg" ELSE e.type
LinksKnown(inodes, e) == e.type = "hardlink" /\ e.link \in DOMAIN inodes
NewIno(inodes) == Cardinality(DOMAIN inodes) + 1
ParseNode(inodes, e) ==
    LET n == IF e.type = "symlink" THEN Node(e.path, "symlink", e.linkSize, e.linkSize, e.xattrs)
             ELSE Node(e.path, EntryType(e), e.size, 0, e.xattrs)
    IN  [n EXCEPT !.real = IF LinksKnown(inodes, e) THEN inodes[e.link] ELSE NewIno(inodes)]
Numbered(inodes, e) == IF LinksKnown(inodes, e) THEN inodes ELSE (e.path :> NewIno(inodes)) @@ inodes
\* path_inode_map once the first k of the lost directories are in it.
KnownWith(lost, k) ==
    known @@ [p \in {lost[j].path : j \in 1..k} |->
                NewIno(known) - 1 + CHOOSE j \in 1..k : lost[j].path = p]

\* Devices and pipes are left out of the image.
SkipEntry(e) ==
    /\ ~Supported(e)
    /\ UNCHANGED parseVars

\* A chunk only extends its file.
ChunkEntry(e) ==
    /\ e.type = "chunk"
    /\ chunksOf' = AddChunk(e)
    /\ UNCHANGED <<known, lastReg, linkOf, entries>>

NodeEntry(e) ==
    /\ Supported(e) /\ e.type # "chunk"
    /\ chunksOf' = AddChunk(e)
    /\ lastReg' = IF e.type = "reg" THEN e ELSE lastReg
    /\ LET lost == LostDirs(e.path)
           before == KnownWith(lost, Len(lost))
       IN
       /\ entries' = entries \o Append([k \in DOMAIN lost |-> ParseNode(KnownWith(lost, k - 1), lost[k])],
                                        ParseNode(before, e))
       /\ known' = Numbered(before, e)
    /\ linkOf' = IF e.type = "hardlink" THEN (e.path :> e.link) @@ linkOf ELSE linkOf

\* Mutant: an entry of another type is an error, which the caller unwraps.
IndexEntry_Bail ==
    /\ stage = "index" /\ todo # <<>>
    /\ LET e == Head(todo) IN
       \/ Supported(e) /\ (ChunkEntry(e) \/ NodeEntry(e)) /\ todo' = Tail(todo) /\ UNCHANGED stage
       \/ SkipEntry(e) /\ stage' = "panic" /\ todo' = <<>>
    /\ UNCHANGED <<envVars, treeVars, walkVars, outVars>>
IndexEntry ==
    /\ stage = "index" /\ todo # <<>>
    /\ LET e == Head(todo) IN SkipEntry(e) \/ ChunkEntry(e) \/ NodeEntry(e)
    /\ todo' = Tail(todo)
    /\ UNCHANGED <<envVars, stage, treeVars, walkVars, outVars>>

HasRoot(toc) == \E e \in Range(toc) : Supported(e) /\ e.type # "chunk" /\ e.path = <<>>

\* `the stargz index has no root toc entry`: from_stargz_index's caller unwraps.
IndexDone ==
    /\ stage = "index" /\ todo = <<>>
    /\ IF HasRoot(Job.toc)
       THEN stage' = "tree" /\ todo' = entries
       ELSE stage' = "panic" /\ todo' = <<>>
    /\ UNCHANGED <<envVars, parseVars, treeVars, walkVars, outVars>>

-----------------------------------------------------------------------------
\* Second loop: chunks and sizes, and Tree::apply2.

WithChunks(n) ==
    LET p == IF n.path \in DOMAIN linkOf THEN linkOf[n.path] ELSE n.path IN
    IF p \in DOMAIN chunksOf
    THEN [n EXCEPT !.chunks = chunksOf[p].chunks, !.childCount = Len(chunksOf[p].chunks), !.size = chunksOf[p].size]
    ELSE n

\* TreeTrace::find walks down the path.
Traced(path) == \A k \in 1..Len(path) : SubSeq(path, 1, k) \in DOMAIN trace
At(path) == IF path = <<>> THEN 1 ELSE trace[path]

\* TreeTrace::add: what was below an older node of that path is forgotten.
AddTrace(path, id) ==
    (path :> id) @@ [p \in {q \in DOMAIN trace : ~IsStrictPrefix(path, q)} |-> trace[p]]

\* A node for `/` takes the place of the root. update_from_stargz_index
\* hangs the children of the parsed root below the host's `/` all the same.
ApplyRoot(n) ==
    /\ n.path = <<>>
    /\ tree' = IF Job.tool = "bootstrap" THEN tree ELSE [tree EXCEPT ![1].node = n]
    /\ UNCHANGED trace

ApplyNode(n) ==
    /\ n.path # <<>>
    /\ IF Traced(Front(n.path))
       THEN /\ tree' = Append([tree EXCEPT ![At(Front(n.path))].kids = Append(@, Len(tree) + 1)],
                              [node |-> n, kids |-> <<>>])
            /\ trace' = AddTrace(n.path, Len(tree) + 1)
       ELSE UNCHANGED treeVars

Apply2 ==
    /\ stage = "tree" /\ todo # <<>>
    /\ LET n == WithChunks(Head(todo)) IN ApplyRoot(n) \/ ApplyNode(n)
    /\ todo' = Tail(todo)
    /\ UNCHANGED <<envVars, stage, parseVars, walkVars, outVars>>

\* build_rafs_wrap: the root is the first inode.
TreeDone ==
    /\ stage = "tree" /\ todo = <<>> /\ Job.tool = "bootstrap"
    /\ stage' = "rafs"
    /\ nodes' = <<[tree[1].node EXCEPT !.ino = 1]>>
    /\ stack' = <<[id |-> 1, index |-> 1]>>
    /\ UNCHANGED <<envVars, todo, parseVars, treeVars, dir, inoMap, file, images>>

-----------------------------------------------------------------------------
\* Bootstrap::build_rafs, one directory after the other.

NameOf(id) == Last(tree[id].node.path)
\* Mutant: the children stay in the order of the TOC.
Sorted_Not(ids) == ids
Sorted(ids) == SortedBy(ids, [k \in DOMAIN ids |-> NameOf(ids[k])])

OpenDir ==
    /\ stage = "rafs" /\ dir = None /\ stack # <<>>
    /\ LET d == Head(stack)
           kids == Sorted(tree[d.id].kids)
           n == nodes[d.index]
       IN
       /\ inoMap' = (n.path :> <<d.index>>) @@ inoMap
       /\ nodes' = [nodes EXCEPT ![d.index].childIndex = Len(nodes) + 1, ![d.index].childCount = Len(kids)]
       /\ dir' = [index |-> d.index, left |-> kids, dirs |-> <<>>]
    /\ stack' = Tail(stack)
    /\ UNCHANGED <<envVars, stage, todo, parseVars, treeVars, file, images>>

\* A file of one chunk is cut into blocks.
Split(n) ==
    IF n.type # "dir" /\ n.size > BlockSize /\ Len(n.chunks) = 1
    THEN LET count == (n.size + BlockSize - 1) \div BlockSize IN
         [n EXCEPT !.childCount = count,
                   !.chunks = [i \in 1..count |->
                      LET off == (i - 1) * BlockSize IN
                      [n.chunks[1] EXCEPT !.at = @ + off, !.off = off,
                                          !.len = IF i = count THEN n.size - off ELSE BlockSize]]]
    ELSE n

\* Nodes of one path are taken for links to one inode: real_ino is the
\* number of the path, and dev is the same for all.
Links(path) == IF path \in DOMAIN inoMap THEN inoMap[path] ELSE <<>>

AddChild ==
    /\ stage = "rafs" /\ dir # None /\ dir.left # <<>>
    /\ LET t == tree[Head(dir.left)].node
           index == Len(nodes) + 1
           links == Append(Links(t.path), index)
           node == [Split(t) EXCEPT !.ino = links[1], !.nlink = Len(links), !.parent = nodes[dir.index].ino]
       IN
       /\ inoMap' = (t.path :> links) @@ inoMap
       /\ nodes' = Append([k \in 1..Len(nodes) |->
                             IF k \in Range(links) THEN [nodes[k] EXCEPT !.nlink = Len(links)] ELSE nodes[k]],
                          node)
       /\ dir' = [dir EXCEPT !.left = Tail(@),
                             !.dirs = IF t.type = "dir" THEN Append(@, [id |-> Head(dir.left), index |-> index]) ELSE @]
    /\ UNCHANGED <<envVars, stage, todo, parseVars, treeVars, stack, file, images>>

CloseDir ==
    /\ stage = "rafs" /\ dir # None /\ dir.left = <<>>
    /\ nodes' = [nodes EXCEPT ![dir.index].nlink = 2 + Len(dir.dirs)]
    /\ stack' = dir.dirs \o stack
    /\ dir' = None
    /\ UNCHANGED <<envVars, stage, todo, parseVars, treeVars, inoMap, file, images>>

\* build_node_blob_index: chunks get the blob of the last entry of that name;
\* the first blob when there is none.
BlobIndex(path) ==
    LET of == {k \in 1..Len(Job.toc) : Job.toc[k].path = path} IN
    IF of = {} THEN 1
    ELSE Max({j \in 1..Len(Job.blobs) : Job.blobs[j] = Job.toc[Max(of)].blob})

BuildBlobIndex ==
    /\ stage = "rafs" /\ dir = None /\ stack = <<>>
    /\ nodes' = [k \in 1..Len(nodes) |->
                   [nodes[k] EXCEPT !.chunks = [i \in 1..Len(@) |-> [@[i] EXCEPT !.blob = BlobIndex(nodes[k].path)]]]]
    /\ stage' = "dump"
    /\ UNCHANGED <<envVars, todo, parseVars, treeVars, walkVars, file, images>>

-----------------------------------------------------------------------------
\* build_super_block and dump.

SuperBlock ==
    LET table == NewTable(Len(nodes)) IN
    [count |-> Cardinality(DOMAIN inoMap), entries |-> Len(nodes), tableAt |-> SuperBlockSize,
     blobsAt |-> SuperBlockSize + TableSize(table), blobsSize |-> BlobTableSize(Job.blobs),
     prefetch |-> 0, prefetchAt |-> SuperBlockSize + TableSize(table), blockSize |-> BlockSize]

\* Node::is_reg tests one bit of the mode, which symlinks have too.
IsReg(n) == n.type \in {"reg", "symlink"}

\* What dump adds to inode_offset for a node: not its extended attributes.
Advance(n) == BytesOf(n) + (IF IsReg(n) THEN n.childCount * ChunkSize ELSE 0)

InodeTable ==
    LET first == SuperBlockSize + TableSize(NewTable(Len(nodes))) + BlobTableSize(Job.blobs)
        at[k \in 1..Len(nodes)] == IF k = 1 THEN first ELSE at[k - 1] + Advance(nodes[k - 1])
    IN  Filled(NewTable(Len(nodes)), at)

DumpTables ==
    /\ stage = "dump"
    /\ file' = WriteAll(EmptyFile,
                 <<Cell("super", SuperBlock, SuperBlockSize),
                   Cell("table", InodeTable, TableSize(InodeTable)),
                   Cell("blobs", StoreBlobs(Job.blobs), BlobTableSize(Job.blobs))>>)
    /\ stage' = "nodes" /\ todo' = nodes
    /\ UNCHANGED <<envVars, parseVars, treeVars, walkVars, nodes, images>>

\* OndiskInodeWrapper::store, the attributes, the chunks.  A count of chunks
\* that is wrong stops the dump of the node, and nobody looks at the error.
Inode(n) == [ino |-> n.ino, parent |-> n.parent, nlink |-> n.nlink, type |-> n.type, size |-> n.size,
             childIndex |-> n.childIndex, childCount |-> n.childCount,
             nameSize |-> n.nameSize, symSize |-> n.symSize, xattr |-> n.xattrs # <<>>, digest |-> n.digest]
NodeCells(n) ==
    <<Cell("inode", Inode(n), InodeSize),
      Cell("name", IF n.path = <<>> THEN RootName ELSE Last(n.path), AlignToRafs(n.nameSize)),
      Cell("symlink", n.path, AlignToRafs(n.symSize)),
      Cell("xattr", n.xattrs, XattrSize(n.xattrs))>>
    \o (IF IsReg(n) /\ n.childCount # Len(n.chunks) THEN <<>>
        ELSE [i \in 1..Len(n.chunks) |-> Cell("chunk", n.chunks[i], ChunkSize)])

DumpNode ==
    /\ stage = "nodes" /\ todo # <<>>
    /\ file' = WriteAll(file, NodeCells(Head(todo)))
    /\ todo' = Tail(todo)
    /\ UNCHANGED <<envVars, stage, parseVars, treeVars, walkVars, nodes, images>>

\* An image is finished; a builder that applies keeps its nodes.
Built ==
    /\ stage = "nodes" /\ todo = <<>>
    /\ images' = Append(images, [file |-> file, nodes |-> nodes])
    /\ IF Len(images') = Len(jobs)
       THEN stage' = "built" /\ UNCHANGED <<todo, parseVars, treeVars, inoMap, nodes>>
       ELSE IF jobs[Len(images') + 1].tool = "apply"
       THEN stage' = "parent" /\ UNCHANGED <<todo, parseVars, treeVars, inoMap, nodes>>
       ELSE /\ stage' = "index" /\ todo' = jobs[Len(images') + 1].toc
            /\ known' = <<>> /\ lastReg' = None /\ chunksOf' = <<>> /\ linkOf' = <<>>
            /\ entries' = <<>> /\ tree' = Start /\ trace' = <<>>
            /\ inoMap' = <<>> /\ nodes' = <<>>
    /\ file' = EmptyFile
    /\ UNCHANGED <<envVars, dir, stack>>

BuilderNext ==
    \/ IndexEntry \/ IndexDone \/ Apply2 \/ TreeDone
    \/ OpenDir \/ AddChild \/ CloseDir \/ BuildBlobIndex
    \/ DumpTables \/ DumpNode \/ Built

=============================================================================
