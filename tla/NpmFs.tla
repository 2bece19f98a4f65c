------------------------------ MODULE NpmFs ------------------------------
(***************************************************************************)
(* From the lock file to the files of node_modules: the tarballs that are  *)
(* downloaded (downloader.js), the packages that are known afterwards      *)
(* (npm_blob_manager.js, download_dependency.js) and the map from paths to *)
(* TOC entries and links that is written to tar.index.json for each        *)
(* package of the project (npm_fs/), in both layouts.                      *)
(*                                                                         *)
(* A project s is a record: the lock file as a sequence of entries, the    *)
(* names the root package depends on (deps), its workspaces, and the       *)
(* options mode, production and single. An entry lies at the path          *)
(* <ws>/node_modules/<at[1]>/node_modules/<at[2]>...; ws is a sequence of  *)
(* fragments of a directory name, so that a name may begin with another.   *)
(* A name stands for itself whether it has a scope or not. Paths in        *)
(* node_modules are sequences of components; a link's target is the path   *)
(* its relative form resolves to. Links and the root directory carry the id of *)
(* any bucket, which is left out.                                          *)
(***************************************************************************)
EXTENDS Naturals, Sequences, FiniteSets, SequencesExt

CONSTANTS
    PackageJson,    \* <<name, version>> of a tarball -> its package.json
    Gyps,           \* the tarballs with a binding.gyp that is announced
    Toc,            \* the entries of the buckets, in their order
    Parse,          \* semver.parse(_, loose).version
    Platform,       \* [os, cpu] of the machine
    None

Root == <<>>

-----------------------------------------------------------------------------
(* util.js                                                                 *)

Verify(constraints, value) ==
    LET positive == {c.is : c \in {d \in constraints : ~d.not}}
        negative == {c.is : c \in {d \in constraints : d.not}}
    IN  IF positive # {} THEN value \in positive ELSE value \notin negative

ValidDep(s, e) ==
    /\ ~(s.production /\ e.dev)
    /\ e.optional => Verify(e.os, Platform.os) /\ Verify(e.cpu, Platform.cpu)

PackageName(e) == IF e.at = <<>> THEN Last(e.ws) ELSE Last(e.at)
OriginName(e)  == IF e.at # <<>> /\ e.name # None THEN e.name ELSE PackageName(e)
DisplayName(name, version) == "_" \o name \o "@" \o ToString(version) \o "@" \o name

\* The bins whose file is rel, in the order of package.json.
BinsAt(pkg, rel) == SelectSeq(pkg.bins, LAMBDA b : b.file = rel)
FileMode(pkg, t) == IF BinsAt(pkg, t.rel) # <<>> \/ t.kind # "reg" THEN "755" ELSE "own"

File(pkg, t)    == [blob |-> t.blob, kind |-> t.kind, mode |-> FileMode(pkg, t), from |-> <<t.id, t.rel>>, to |-> <<>>]
Link(to)        == [blob |-> None, kind |-> "symlink", mode |-> "777", from |-> <<>>, to |-> to]
RootDir         == [blob |-> None, kind |-> "dir", mode |-> "755", from |-> <<>>, to |-> <<>>]
BinLink(pkgPath, bin) == Front(pkgPath) \o <<".bin", bin>>

\* FsMeta: the last entry that was added under a name is the one that counts.
Write(path, entry) == [path |-> path, entry |-> entry]
Entries(writes) ==
    [p \in {w.path : w \in ToSet(writes)} |-> writes[Max({i \in DOMAIN writes : writes[i].path = p})].entry]

AllPkgs(s) == IF s.single THEN <<Root>> ELSE Append(s.spaces, Root)

-----------------------------------------------------------------------------
(* downloader.js: one task per tarball; an entry that is not a dev         *)
(* dependency takes precedence over those that are.                        *)

TaskId(e) == <<e.tarball, e.version>>

Downloaded(e) == e.at # <<>> /\ ~e.link /\ e.tarball # None

\* Mutant: the first entry of a tarball decides.
Task_First(same) == same[1]

\* The entry that decides for a tarball, of all that name it.
Task(same) ==
    LET firm == SelectSeq(same, LAMBDA e : ~e.dev)
    IN  IF firm # <<>> THEN firm[1] ELSE Last(same)

CreateDownloadTask(s) ==
    LET wanted == SelectSeq(s.lock, Downloaded)
        Same(i) == SelectSeq(wanted, LAMBDA e : TaskId(e) = i)
    IN  {i \in {TaskId(e) : e \in ToSet(wanted)} : ValidDep(s, Task(Same(i)))}

-----------------------------------------------------------------------------
(* npm_blob_manager.js: a package is known under the name and the          *)
(* normalised version its package.json gives; the TOC under its directory. *)

Key(i) == <<PackageJson[i].name, Parse[PackageJson[i].version]>>

Packages(ids) ==
    [k \in {Key(i) : i \in ids} |-> PackageJson[CHOOSE i \in ids : Key(i) = k]]

Known(pkgs, name, version) == <<name, version>> \in DOMAIN pkgs
TocIndexes(name, version)  == SelectSeq(Toc, LAMBDA t : t.id = <<name, version>>)

-----------------------------------------------------------------------------
(* download_dependency.js, after the download: every dependency of the     *)
(* root's node_modules must be known; its install scripts are stored.      *)

Skipped(e) ==
    e.ws # Root \/ e.at = <<>> \/ e.link \/ e.bundled \/ (e.optional /\ e.tarball = None)

NotFound(s, pkgs, e) ==
    /\ ~Skipped(e)
    /\ e.tarball = None \/ (ValidDep(s, e) /\ ~Known(pkgs, e.tarball, e.version))

DepScripts == {"preinstall", "install", "postinstall"}

ScriptsOf(e, pkg) ==
    (pkg.scripts \cap DepScripts) \cup (IF "install" \notin pkg.scripts /\ TaskId(e) \in Gyps THEN {"install"} ELSE {})

\* storeLifecycleScripts
StoreScripts(s, pkgs) ==
    LET Stores(e) == [at |-> e.at, id |-> TaskId(e), optional |-> e.optional,
                    scripts |-> ScriptsOf(e, pkgs[TaskId(e)])]
        Stored(e) == /\ ~Skipped(e) /\ ValidDep(s, e) /\ Known(pkgs, e.tarball, e.version)
                     /\ ScriptsOf(e, pkgs[TaskId(e)]) # {}
        kept == SelectSeq(s.lock, Stored)
    IN  [i \in DOMAIN kept |-> Stores(kept[i])]

-----------------------------------------------------------------------------
(* npm_fs_builder.js: the layout of npm, one map per package of the        *)
(* project.                                                                *)

\* at, with node_modules between its names
Nested(at) == Tail(FlattenSeq([i \in DOMAIN at |-> <<"node_modules", at[i]>>]))

\* path.relative, then the length of 'node_modules/' is cut off
PackagePath(s, e, cur) ==
    CASE s.single    -> e.ws \o <<"node_modules">> \o Nested(e.at)
      [] e.ws = cur  -> Nested(e.at)
      [] OTHER       -> <<"(cut)">> \o Nested(e.at)

\* createPackageMeta: the files of one entry of the lock file.
PackageFiles(s, pkgs, e, cur) ==
    LET name == OriginName(e)
        toc  == TocIndexes(name, e.version)
    IN  IF e.at = <<>> \/ ~Known(pkgs, name, e.version) THEN <<>>
        ELSE [i \in DOMAIN toc |-> [dir |-> PackagePath(s, e, cur), t |-> toc[i], pkg |-> pkgs[<<name, e.version>>]]]

\* The project depends on the package in dir.
Direct(s, dir) == Len(dir) = 1 /\ dir[1] \in s.deps

\* pkgBinSet: a bin of a dependency of the project is pinned.
Links(s, files, i, b) ==
    Direct(s, files[i].dir) \/ ~\E j \in 1..i : Direct(s, files[j].dir) /\ \E c \in ToSet(BinsAt(files[j].pkg, files[j].t.rel)) : c.bin = b.bin

\* The entries that belong to the map of cur; the path of a workspace's
\* entry begins with the workspace's.
InScope(s, e, cur) ==
    CASE s.single   -> TRUE
      [] cur = Root -> e.ws = Root /\ e.at # <<>>
      [] OTHER      -> IsPrefix(cur, e.ws)

WorkspaceLinks(s) ==
    LET links == SelectSeq(s.lock, LAMBDA e : e.link /\ e.to \in ToSet(s.spaces))
    IN  [i \in DOMAIN links |-> Write(<<OriginName(links[i])>>, Link(<<"..">> \o links[i].to))]

NpmFsMeta(s, pkgs, cur) ==
    LET deps  == SelectSeq(s.lock, LAMBDA e : ValidDep(s, e) /\ InScope(s, e, cur))
        files == FlattenSeq([i \in DOMAIN deps |-> PackageFiles(s, pkgs, deps[i], cur)])
        Bins(i) == SelectSeq(BinsAt(files[i].pkg, files[i].t.rel), LAMBDA b : Links(s, files, i, b))
        Writes(i) == LET f == files[i] bins == Bins(i) path == f.dir \o f.t.rel IN
            <<Write(path, File(f.pkg, f.t))>> \o [k \in DOMAIN bins |-> Write(BinLink(f.dir, bins[k].bin), Link(path))]
    IN  Entries(FlattenSeq([i \in DOMAIN files |-> Writes(i)]) \o <<Write(<<>>, RootDir)>>
                \o (IF cur = Root THEN WorkspaceLinks(s) ELSE <<>>))
=============================================================================
