----------------------------- MODULE TarBuilder -----------------------------
(***************************************************************************)
(* Writing an archive (tokio-tar/src/builder.rs).  An operation fits the   *)
(* path into the header, then the link name, and then writes the member;   *)
(* a name that does not fit is written first, as a member of its own.      *)
(*                                                                         *)
(* A block is two cells.  A header is its fields ("head") and the bytes    *)
(* behind them ("tail", often all zero); a cell of data is one unit of the *)
(* contents `body`.                                                        *)
(***************************************************************************)
EXTENDS TarHeader

CONSTANTS
    Jobs,   \* what a caller may append: a set of sequences of requests
    Cuts    \* lengths at which the file may be cut on its way to the reader

Block == 2
Zero == [k |-> "zero"]
Zeros(n) == [i \in 1..n |-> Zero]
RoundUp(n) == ((n + Block - 1) \div Block) * Block
HeaderCells(h) == <<[k |-> "head", h |-> h], [k |-> "tail", h |-> h]>>
DataCells(body, n) == [i \in 1..n |-> [k |-> "data", body |-> body, i |-> i, of |-> n]]

VARIABLES
    todo,     \* requests still to be made
    step,     \* "idle", "path", "cut", "link", "write", "closed"
    hd,       \* the header of the request in progress
    bytes,    \* Builder.obj: the archive
    members,  \* history: the members asked for, with their place in the file
    whole     \* history: no request failed and nothing was cut

builderVars == <<todo, step, hd, bytes, members, whole>>

\* A request: the operation (append_path's file type, "data" or "raw"), the
\* caller's header for the last two, path, link, contents and their length, and
\* what a reader should be given of them.
Request(how, header, p, link, body, n, data) ==
    [how |-> how, header |-> header, p |-> p, link |-> link, body |-> body, n |-> n, data |-> data]

IsSeq(s) == s \in Seq(Range(s))

\* Requests a caller can make.
RequestOk(r) ==
    /\ r.how \in {"Regular", "Directory", "Symlink", "data", "raw"}
    /\ r.how \in {"data", "raw"} => IsHeader(r.header)
    /\ r.p \in PathType /\ r.link \in PathType
    /\ r.n \in Nat

ASSUME JobsAssumption ==
    \A s \in Jobs : IsSeq(s) /\ \A i \in 1..Len(s) : RequestOk(s[i])
ASSUME CutsAssumption == Cuts \subseteq Nat

BuilderInit ==
    /\ todo \in Jobs
    /\ step = "idle"
    /\ hd = NewHeader("gnu")
    /\ bytes = <<>>
    /\ members = <<>>
    /\ whole = TRUE

req == todo[1]
FromFs == req.how \in {"Regular", "Directory", "Symlink"}

\* Whatever the size field says, the data is what the reader yields.
MemberCells(header, body, n) ==
    HeaderCells(header) \o DataCells(body, n) \o Zeros(RoundUp(n) - n)

\* The member that carries a long name; its size counts the final NUL.
PrepareHeader(size, type) ==
    SetCksum(SetEntryType(SetSize(
        [NewHeader("gnu") EXCEPT !.name = Path(<<Comp("@LongLink", 1)>>)], size + 1), type))
LongCells(p, type) == MemberCells(PrepareHeader(PathLen(p), type), p, PathLen(p) + 1)

\* append_path, append_file and append_dir start from a GNU header, append_data
\* from the caller's; append takes the header as it is.
Start ==
    /\ step = "idle" /\ todo # <<>>
    /\ hd' = IF FromFs THEN NewHeader("gnu") ELSE req.header
    /\ step' = IF req.how = "raw" THEN "write" ELSE "path"
    /\ UNCHANGED <<todo, bytes, members, whole>>

\* prepare_header_path.
PathFits ==
    /\ step = "path" /\ SetPathOk(hd, req.p)
    /\ hd' = SetPath(hd, req.p)
    /\ step' = "link"
    /\ UNCHANGED <<todo, bytes, members, whole>>

PathLong ==
    /\ step = "path" /\ ~SetPathOk(hd, req.p)
    /\ PathLen(req.p) >= NameLen
    /\ bytes' = bytes \o LongCells(req.p, "GNULongName")
    /\ hd' = SetPathLeaves(hd, req.p)
    /\ step' = "cut"
    /\ UNCHANGED <<todo, members, whole>>

\* The header still gets what fits of the name.
PathCut ==
    /\ step = "cut" /\ SetPathOk(hd, CutPath(req.p, NameLen))
    /\ hd' = SetPath(hd, CutPath(req.p, NameLen))
    /\ step' = "link"
    /\ UNCHANGED <<todo, bytes, members, whole>>

\* The operation answers an error and the caller gives up.  After "cut" the
\* long name stays in the archive without its member.
PathFails ==
    /\ \/ step = "path" /\ ~SetPathOk(hd, req.p) /\ PathLen(req.p) < NameLen
       \/ step = "cut" /\ ~SetPathOk(hd, CutPath(req.p, NameLen))
    /\ todo' = <<>>
    /\ step' = "idle"
    /\ whole' = FALSE
    /\ UNCHANGED <<hd, bytes, members>>

\* fill_from: directories and symbolic links have no data.
FillFrom(header) ==
    SetSize(SetEntryType(header, req.how), IF req.how = "Regular" THEN req.n ELSE 0)

\* append_fs: the metadata, and prepare_header_link for a symbolic link.
FillHeader ==
    /\ step = "link"
    /\ LET g == IF FromFs THEN FillFrom(hd) ELSE hd
           fits == req.how # "Symlink" \/ SetLinkOk(g, req.link)
       IN  /\ hd' = SetCksum(IF req.how # "Symlink" THEN g
                            ELSE IF fits THEN SetLink(g, req.link) ELSE SetLinkLeaves(g, req.link))
           /\ bytes' = IF fits THEN bytes ELSE bytes \o LongCells(req.link, "GNULongLink")
    /\ step' = "write"
    /\ UNCHANGED <<todo, members, whole>>

\* append: the header, the data and the padding.
IsMember == \/ hd.format = "old"
            \/ EntryTypeOf(hd) \notin {"XHeader", "GNULongName", "GNULongLink"}
WriteMember ==
    /\ step = "write"
    /\ bytes' = bytes \o MemberCells(hd, req.body, req.n)
    /\ members' = IF ~IsMember THEN members
                  ELSE Append(members, [at |-> Len(bytes) + Block, path |-> req.p, link |-> req.link,
                                        data |-> req.data])
    /\ todo' = Tail(todo)
    /\ step' = "idle"
    /\ UNCHANGED <<hd, whole>>

\* finish, or the task that Drop leaves behind.
Close ==
    /\ step = "idle" /\ todo = <<>>
    /\ bytes' = bytes \o Zeros(2 * Block)
    /\ step' = "closed"
    /\ UNCHANGED <<todo, hd, members, whole>>

\* The file is cut on its way.
Truncate(n) ==
    /\ step = "idle" /\ todo = <<>>
    /\ n < Len(bytes)
    /\ bytes' = SubSeq(bytes, 1, n)
    /\ whole' = FALSE
    /\ step' = "closed"
    /\ UNCHANGED <<todo, hd, members>>

BuilderNext ==
    \/ Start \/ PathFits \/ PathLong \/ PathCut \/ PathFails \/ FillHeader \/ WriteMember
    \/ Close
    \/ \E n \in Cuts : Truncate(n)
=============================================================================
