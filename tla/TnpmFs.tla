------------------------------ MODULE TnpmFs -----------------------------
(***************************************************************************)
(* The layout of npminstall (tnpm_fs_builder.js): every package is stored  *)
(* once, in _<name>@<version>@<name>, and linked from wherever npm would   *)
(* look for it. The map is the outcome of three lists of writes.           *)
(***************************************************************************)
EXTENDS NpmFs

\* The root package's dependencies and their versions, as a set of pairs.
ProjectVersions(s) ==
    {<<e.at[1], e.version>> : e \in {d \in ToSet(s.lock) : d.ws = Root /\ Len(d.at) = 1 /\ d.at[1] \in s.deps}}

Generated(s) == SelectSeq(s.lock, LAMBDA e : (e.ws # Root \/ e.at # <<>>) /\ ValidDep(s, e))

\* Read only for a name the project does not depend on: the largest version.
LatestVersion(s, name) == Max({e.version : e \in {d \in ToSet(Generated(s)) : PackageName(d) = name}})

\* createRealPkgs: the package's files under its display name, and its bins
\* if the project depends on it.
RealPackage(s, pkgs, e) ==
    LET name == OriginName(e)
        toc  == TocIndexes(name, e.version)
        own  == <<name, e.version>> \in ProjectVersions(s) /\ Len(e.at) = 1
        Path(t) == <<DisplayName(name, e.version)>> \o t.rel
        Writes(pkg, t) ==
            LET bins == IF own THEN BinsAt(pkg, t.rel) ELSE <<>> IN
            <<Write(Path(t), File(pkg, t))>> \o [k \in DOMAIN bins |-> Write(BinLink(Nested(e.at), bins[k].bin), Link(Path(t)))]
    IN  IF ~Known(pkgs, name, e.version) THEN <<>>
        ELSE FlattenSeq([i \in DOMAIN toc |-> Writes(pkgs[<<name, e.version>>], toc[i])])

\* The entry of dependency in the node_modules of a package.
Inside(s, ws, at, dependency) ==
    {e \in ToSet(s.lock) : e.ws = ws /\ e.at = Append(at, dependency)}

\* Mutant: the package's own node_modules and the root's.
FindDependency_Root(s, e, dependency) ==
    IF Inside(s, e.ws, e.at, dependency) # {} THEN Inside(s, e.ws, e.at, dependency)
    ELSE Inside(s, e.ws, <<>>, dependency)

\* findDependencyPath: the node_modules of the package, then those of the
\* packages around it, from the innermost; an empty set is undefined.
FindDependency(s, e, dependency) ==
    LET depths == {n \in 0..Len(e.at) : Inside(s, e.ws, SubSeq(e.at, 1, n), dependency) # {}}
    IN  IF depths = {} THEN {} ELSE Inside(s, e.ws, SubSeq(e.at, 1, Max(depths)), dependency)

LinkBin(pkgs, name, version, parent) ==
    IF ~Known(pkgs, name, version) THEN <<>>
    ELSE LET bins == pkgs[<<name, version>>].bins IN
         [k \in DOMAIN bins |-> Write(BinLink(parent, bins[k].bin), Link(<<DisplayName(name, version)>> \o bins[k].file))]

\* createPkgDepLinks: the links to the package's dependencies.
DepLinks(s, pkgs, e) ==
    LET name == PackageName(e)
        Writes(pkg, dependency) ==
            LET found == {d \in FindDependency(s, e, dependency) : ValidDep(s, d) /\ dependency \notin pkg.bundled}
                path  == <<DisplayName(name, e.version), "node_modules", dependency>>
                To(d) == <<Write(path, Link(<<DisplayName(dependency, d.version)>>))>>
                         \o LinkBin(pkgs, dependency, d.version, path)
            IN  IF found = {} THEN <<>> ELSE To(CHOOSE d \in found : TRUE)
    IN  IF ~Known(pkgs, name, e.version) THEN <<>>
        ELSE LET pkg == pkgs[<<name, e.version>>] IN
             FlattenSeq([i \in DOMAIN pkg.deps |-> Writes(pkg, pkg.deps[i])])

\* createFlattenDepLinks: the version the project depends on, or the latest.
FlattenLink(s, e) ==
    LET name == PackageName(e)
        own  == {v \in ProjectVersions(s) : v[1] = name}
    IN  IF IF own # {} THEN <<name, e.version>> \in own ELSE LatestVersion(s, name) = e.version
        THEN <<Write(<<name>>, Link(<<DisplayName(OriginName(e), e.version)>>))>>
        ELSE <<>>

TnpmFsMeta(s, pkgs) ==
    LET all == Generated(s)
    IN  Entries(FlattenSeq([i \in DOMAIN all |-> RealPackage(s, pkgs, all[i])])
                \o FlattenSeq([i \in DOMAIN all |-> DepLinks(s, pkgs, all[i]) \o FlattenLink(s, all[i])])
                \o <<Write(<<>>, RootDir)>>)

\* NpmFs.getFsMeta
FsMeta(s, pkgs, cur) ==
    IF s.mode = "npm" THEN NpmFsMeta(s, pkgs, cur) ELSE TnpmFsMeta(s, pkgs)
=============================================================================
