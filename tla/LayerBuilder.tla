---------------------------- MODULE LayerBuilder ----------------------------
(***************************************************************************)
(* The layered builder of the package (bootstrap/src/builder.rs, lib.rs).  *)
(* create builds an image of one TOC, with a digest for every inode and a  *)
(* table of what is to be prefetched. apply_to_bootstrap reads another     *)
(* image back as a tree (tree.rs), checking all digests, puts the nodes of *)
(* the new one on top and lays everything out again.                       *)
(*                                                                         *)
(* The TOC is parsed as in Bootstrap; where build_bootstrap would go to    *)
(* its own build_rafs this builder goes to stage "layout".                 *)
(***************************************************************************)
EXTENDS RafsSuper

VARIABLES
    hints,    \* hint_readahead_files: the number of each path, 0 while it has none
    blobIds,  \* blob_table
    parent    \* the image apply_to_bootstrap reads

layerVars == <<hints, blobIds, parent>>

LayerInit == hints = <<>> /\ blobIds = <<>> /\ parent = None

-----------------------------------------------------------------------------
\* Builder::build_rafs.

\* need_prefetch: the first hint, in order, that is the path or above it. A
\* file below a hint needs none of its own. Directories of a TOC have size 0.
NeedPrefetch(n, ino) ==
    LET above == {f \in DOMAIN hints : IsPrefix(f, n.path)} IN
    IF n.size = 0 \/ above = {} THEN hints
    ELSE IF above = {n.path} THEN [hints EXCEPT ![n.path] = ino]
    ELSE [f \in DOMAIN hints \ {n.path} |-> hints[f]]

\* build_rafs_wrap, with the maps and hints the builder has then.
Wrapped(known_hints) ==
    /\ nodes' = <<[tree[1].node EXCEPT !.ino = 1]>>
    /\ stack' = <<[id |-> 1, index |-> 1]>>
    /\ inoMap' = <<>>
    /\ hints' = known_hints
    /\ stage' = "layout"

\* gather_readahead_files: no path has a number yet.
Gathered == [f \in Job.hints |-> 0]

\* Builder::new; the root has size 0, so no hint is its own.
BuildCreate ==
    /\ stage = "tree" /\ todo = <<>> /\ Job.tool = "create"
    /\ Wrapped(Gathered)
    /\ blobIds' = <<>>
    /\ UNCHANGED <<envVars, todo, parseVars, treeVars, dir, file, images, parent>>

\* lower_inode_map and upper_inode_map
Key(n) == <<n.overlay, n.real>>

EnterDir ==
    /\ stage = "layout" /\ dir = None /\ stack # <<>>
    /\ LET d == Head(stack)
           kids == Sorted(tree[d.id].kids)
       IN
       /\ inoMap' = (Key(tree[d.id].node) :> <<d.index>>) @@ inoMap
       /\ nodes' = [nodes EXCEPT ![d.index].childIndex = Len(nodes) + 1, ![d.index].childCount = Len(kids)]
       /\ dir' = [index |-> d.index, left |-> kids, dirs |-> <<>>]
    /\ stack' = Tail(stack)
    /\ UNCHANGED <<envVars, stage, todo, parseVars, treeVars, file, images, layerVars>>

\* Files that are links to one have one number in their layer.
PushChild ==
    /\ stage = "layout" /\ dir # None /\ dir.left # <<>>
    /\ LET t == tree[Head(dir.left)].node
           index == Len(nodes) + 1
           links == Append(IF Key(t) \in DOMAIN inoMap THEN inoMap[Key(t)] ELSE <<>>, index)
           node == [t EXCEPT !.ino = links[1], !.nlink = Len(links), !.parent = nodes[dir.index].ino]
       IN
       /\ inoMap' = (Key(t) :> links) @@ inoMap
       /\ nodes' = Append([k \in 1..Len(nodes) |->
                             IF k \in Range(links) THEN [nodes[k] EXCEPT !.nlink = Len(links)] ELSE nodes[k]],
                          node)
       /\ hints' = NeedPrefetch(node, node.ino)
       /\ dir' = [dir EXCEPT !.left = Tail(@),
                             !.dirs = IF t.type = "dir" THEN Append(@, [id |-> Head(dir.left), index |-> index]) ELSE @]
    /\ UNCHANGED <<envVars, stage, todo, parseVars, treeVars, stack, file, images, blobIds, parent>>

LeaveDir ==
    /\ stage = "layout" /\ dir # None /\ dir.left = <<>>
    /\ nodes' = [nodes EXCEPT ![dir.index].nlink = 2 + Len(dir.dirs)]
    /\ stack' = dir.dirs \o stack
    /\ dir' = None
    /\ UNCHANGED <<envVars, stage, todo, parseVars, treeVars, inoMap, file, images, layerVars>>

-----------------------------------------------------------------------------
\* dump_to_file.

\* dump_blob: the files of the upper layer get the new blob and a digest,
\* that of their chunks. A symlink has none.
OfNewBlob(n) ==
    IF n.overlay = "lower" THEN n
    ELSE [n EXCEPT !.chunks = [i \in DOMAIN @ |-> [@[i] EXCEPT !.blob = Len(blobIds) + 1]],
                   !.digest = [hash |-> [i \in DOMAIN n.chunks |-> n.chunks[i].id]]]

\* digest_node, the last node first: the digests of the children.
WithDigests(ns) ==
    LET of[k \in DOMAIN ns] ==
          IF ns[k].type # "dir" THEN ns[k].digest
          ELSE [hash |-> [i \in 1..ns[k].childCount |-> of[ns[k].childIndex + i - 1]]]
    IN  [k \in DOMAIN ns |-> [ns[k] EXCEPT !.digest = of[k]]]

\* The blob is named after its digests, or as the caller says.
DumpBlob ==
    /\ stage = "layout" /\ dir = None /\ stack = <<>>
    /\ nodes' = WithDigests([k \in DOMAIN nodes |-> OfNewBlob(nodes[k])])
    /\ blobIds' = Append(blobIds, Job.blobs[1])
    /\ stage' = "tables"
    /\ UNCHANGED <<envVars, todo, parseVars, treeVars, walkVars, file, images, hints, parent>>

PrefetchTable ==
    LET found == SetToSeq({f \in DOMAIN hints : hints[f] # 0})
    IN  StorePrefetch([i \in DOMAIN found |-> hints[found[i]]])

\* Mutant: the prefetch table is forgotten in what comes behind it.
TableEnd_NoPrefetch == SuperBlockSize + TableSize(NewTable(Len(nodes)))
TableEnd == SuperBlockSize + TableSize(NewTable(Len(nodes))) + PrefetchSize(PrefetchTable)

\* The number of inodes is that of both maps.
LayerSuperBlock ==
    [count |-> Cardinality(DOMAIN inoMap), entries |-> Len(nodes), tableAt |-> SuperBlockSize,
     blobsAt |-> TableEnd, blobsSize |-> BlobTableSize(blobIds),
     prefetch |-> Len(PrefetchTable), prefetchAt |-> SuperBlockSize + TableSize(NewTable(Len(nodes))),
     blockSize |-> BlockSize]

\* Unlike Bootstrap::dump this one counts the extended attributes.
LayerInodeTable ==
    LET Bytes(n) == Advance(n) + XattrSize(n.xattrs)
        at[k \in 1..Len(nodes)] ==
          IF k = 1 THEN TableEnd + BlobTableSize(blobIds) ELSE at[k - 1] + Bytes(nodes[k - 1])
    IN  Filled(NewTable(Len(nodes)), at)

DumpToFile ==
    /\ stage = "tables"
    /\ file' = WriteAll(EmptyFile,
                 <<Cell("super", LayerSuperBlock, SuperBlockSize),
                   Cell("table", LayerInodeTable, TableSize(LayerInodeTable)),
                   Cell("prefetch", PrefetchTable, PrefetchSize(PrefetchTable)),
                   Cell("blobs", StoreBlobs(blobIds), BlobTableSize(blobIds))>>)
    /\ stage' = "nodes" /\ todo' = nodes
    /\ UNCHANGED <<envVars, parseVars, treeVars, walkVars, nodes, images, layerVars>>

-----------------------------------------------------------------------------
\* apply_to_bootstrap.

\* get_inode with digest_validate, in the image the builder has opened.
GetValid(k) == {h \in {Wrapper(k, parent, parent)} \ {None, Garbage} : InodeValid(h)}

\* MetadataTreeBuilder::parse_node.
ParseInode(h, path) ==
    LET n == Ondisk(h) IN
    [Node(path, n.type, n.size, n.symSize, IF n.xattr THEN ReadAt(FileOf(h), "xattr", h.at + BytesOf(n)) ELSE <<>>)
        EXCEPT !.chunks = IF n.type = "reg" THEN [i \in 1..n.childCount |-> ChunkAt(h, i)] ELSE <<>>,
               !.real = n.ino, !.overlay = "lower", !.digest = n.digest,
               !.ino = n.ino, !.parent = n.parent, !.nlink = n.nlink,
               !.childIndex = n.childIndex, !.childCount = n.childCount]

OpenParent ==
    LET f == images[Job.parent].file
        sb == ReadAt(f, "super", 0)
    IN
    /\ stage = "parent" /\ parent = None
    /\ IF Validate(sb) /\ CanMap(f, sb)
       THEN /\ stage' = stage /\ parent' = Mapping(Job.parent, sb)
            /\ blobIds' = Mapping(Job.parent, sb).blobs
       ELSE stage' = "failed" /\ UNCHANGED <<parent, blobIds>>
    /\ todo' = <<>> /\ tree' = <<>>
    /\ UNCHANGED <<envVars, parseVars, trace, walkVars, outVars, hints>>

\* One inode of from_bootstrap and load_children, which go down first: the
\* root, when the tree is empty, and then what is left of the children.
LoadInodeOf(h, path, left) ==
    LET id == Len(tree) + 1 IN
    /\ tree' = Append(IF tree = <<>> THEN tree ELSE [tree EXCEPT ![Head(todo).of].kids = Append(@, id)],
                      [node |-> ParseInode(h, path), kids |-> <<>>])
    /\ todo' = [i \in 1..(IF IsDir(h) THEN Ondisk(h).childCount ELSE 0) |->
                  [of |-> id, index |-> Ondisk(h).childIndex + i - 1]] \o left
    /\ UNCHANGED stage

LoadParent ==
    /\ stage = "parent" /\ parent # None
    /\ \/ /\ tree = <<>>
          /\ \E h \in GetValid(1) : LoadInodeOf(h, <<>>, <<>>)
       \/ /\ todo # <<>>
          /\ \E h \in GetValid(Head(todo).index) :
               LoadInodeOf(h, Append(tree[Head(todo).of].node.path, NameIn(h)), Tail(todo))
       \/ /\ tree = <<>> \/ todo # <<>>
          /\ GetValid(IF tree = <<>> THEN 1 ELSE Head(todo).index) = {}
          /\ stage' = "failed" /\ UNCHANGED <<tree, todo>>
    /\ UNCHANGED <<envVars, parseVars, trace, walkVars, outVars, layerVars>>

\* A TreeTrace that knows nothing of the tree it is used with.
ParentLoaded ==
    /\ stage = "parent" /\ parent # None /\ tree # <<>> /\ todo = <<>>
    /\ stage' = "apply" /\ trace' = <<>> /\ todo' = nodes
    /\ UNCHANGED <<envVars, parseVars, tree, walkVars, outVars, layerVars>>

\* apply2 of a node of the new image.
ApplyUpper ==
    /\ stage = "apply" /\ todo # <<>>
    /\ LET n == [Head(todo) EXCEPT !.overlay = "upper"] IN ApplyRoot(n) \/ ApplyNode(n)
    /\ todo' = Tail(todo)
    /\ UNCHANGED <<envVars, stage, parseVars, walkVars, outVars, layerVars>>

BuildApplied ==
    /\ stage = "apply" /\ todo = <<>>
    /\ Wrapped(hints)
    /\ parent' = None
    /\ UNCHANGED <<envVars, todo, parseVars, treeVars, dir, file, images, blobIds>>

LayerNext ==
    \/ BuildCreate \/ EnterDir \/ PushChild \/ LeaveDir \/ DumpBlob \/ DumpToFile
    \/ OpenParent \/ LoadParent \/ ParentLoaded \/ ApplyUpper \/ BuildApplied

-----------------------------------------------------------------------------
Build == ((BuilderNext /\ UNCHANGED layerVars) \/ LayerNext) /\ UNCHANGED superVars
Use   == SuperNext /\ UNCHANGED layerVars

Init == BuilderInit /\ LayerInit /\ SuperInit
Next == Build \/ Use \/ (Update /\ UNCHANGED layerVars)

\* The builder and the reader run to completion; nobody has to update.
Spec == Init /\ [][Next]_<<vars, layerVars>> /\ WF_<<vars, layerVars>>(Build) /\ WF_<<vars, layerVars>>(Use)

=============================================================================
