------------------------------ MODULE Install ----------------------------
(***************************************************************************)
(* rapid install and rapid clean of one project (cli/lib/index.js), with   *)
(* the files, mounts and processes they leave on the machine               *)
(* (nydusd/fuse_mode.js, nydusd/nydusd_api.js, deamon.js) and the          *)
(* lifecycle scripts (scripts.js). One command runs at a time. The         *)
(* packages of the project are mounted and unmounted in parallel, each by  *)
(* a sequence of commands; one that fails rejects the whole, while the     *)
(* others go on until the process ends. Faults are bounded by MaxFaults:   *)
(* a command that fails, a script that fails, a node_modules somebody      *)
(* works in, a request nydusd refuses, nydusd's death. The machine is in   *)
(* force mode, as the command line always is.                              *)
(*                                                                         *)
(* A package is named by its directory; Stray stands for the directories   *)
(* clean computes from a workspace's path as if it were a project: nothing *)
(* is ever mounted there. nydusd refuses a mountpoint that it has already. *)
(***************************************************************************)
EXTENDS TnpmFs

CONSTANTS
    Projects,       \* a sequence of projects (see NpmFs), each with os, daemon,
                    \* ignore and scripts, the scripts of each of its packages
    MaxCommands,    \* installs and cleans
    MaxFaults

VARIABLES
    project,        \* which of Projects
    tmp, nm,        \* mounts of a package's overlay directory and node_modules
    busy,           \* packages whose node_modules is in use
    base,           \* packages whose baseDir is there
    index, image,   \* the tar.index.json and the bootstrap in it
    served,         \* the image nydusd serves for a package, 0 for none
    nydusd,         \* is it up?
    deamon,         \* rapid_deamon: [version, up], and has an install killed it (with nydusd)?
    registered,     \* is the project's metadata file there?
    cmd,            \* the command that runs
    outcome,        \* how the last one ended and with which scripts run, and has
                    \* one failed since the last complete clean?
    harm,           \* packages nydusd has refused to serve or has lost
    kept,           \* packages whose image it refused to give up when last asked
    used            \* bounds: [commands, faults, images]

s == Projects[project]
Pkgs == ToSet(Append(s.spaces, Root))
Everyone == Append(s.spaces, Root)      \* getAllPkgPaths without singleMount
Linux == s.os = "Linux"

mounts   == <<tmp, nm, busy>>
files    == <<base, index, image>>
services == <<served, nydusd, deamon, registered, harm, kept>>
vars == <<project, mounts, files, services, cmd, outcome, used>>

Idle == [goal |-> "none", pc |-> "none", rest |-> <<>>, seen |-> {}, cwd |-> Root, at |-> <<>>, ran |-> <<>>]

Init ==
    /\ project \in DOMAIN Projects
    /\ tmp = [p \in Pkgs |-> 0] /\ nm = [p \in Pkgs |-> 0] /\ busy = {}
    /\ base = {} /\ index = <<>> /\ image = [p \in Pkgs |-> 0]
    /\ served = [p \in Pkgs |-> 0] /\ nydusd = FALSE
    /\ deamon \in [version : {"old", "new"}, up : BOOLEAN, killed : {FALSE}]
    /\ registered = FALSE /\ harm = {} /\ kept = {}
    /\ cmd = Idle /\ outcome = [how |-> "none", ran |-> <<>>, failed |-> FALSE]
    /\ used = [commands |-> 0, faults |-> 0, images |-> 0]

NoFault == UNCHANGED used
Fault   == used.faults < MaxFaults /\ used' = [used EXCEPT !.faults = @ + 1]

Goto(pc)  == cmd' = [cmd EXCEPT !.pc = pc] /\ UNCHANGED outcome
Ended(how) == [how |-> how, ran |-> cmd.ran,
               failed |-> how = "failed" \/ (how # "cleaned" /\ outcome.failed)]
End(how)  == cmd' = Idle /\ outcome' = Ended(how)
Fails     == End("failed")

-----------------------------------------------------------------------------
(* index.js                                                                *)

Start(goal) ==
    /\ cmd = Idle /\ used.commands < MaxCommands
    /\ used' = [used EXCEPT !.commands = @ + 1]
    /\ cmd' = [Idle EXCEPT !.goal = goal, !.pc = IF goal = "install" THEN "loop" ELSE "clean",
                           !.rest = AllPkgs(s), !.seen = {p \in Pkgs : nm[p] > 0}]
    /\ UNCHANGED <<project, mounts, files, services, outcome>>

Install == Start("install")
Clean   == Start("clean")

MakeBase(p) ==
    /\ base' = base \cup {p}
    /\ cmd' = [cmd EXCEPT !.pc = "loop", !.rest = Tail(@), !.cwd = Root, !.at = <<>>]

\* Mutant: what is mounted already is left alone.
PrepareBase_NoClean ==
    /\ cmd.pc = "loop" /\ cmd.rest # <<>>
    /\ MakeBase(Head(cmd.rest))
    /\ UNCHANGED <<project, mounts, index, image, services, outcome, used>>

\* The packages' directories; one that was mounted when the install began
\* is cleaned, with its node_modules as cwd.
PrepareBase ==
    /\ cmd.pc = "loop" /\ cmd.rest # <<>>
    /\ IF Head(cmd.rest) \in cmd.seen
       THEN cmd' = [cmd EXCEPT !.pc = "clean", !.cwd = Head(cmd.rest)] /\ UNCHANGED base
       ELSE MakeBase(Head(cmd.rest))
    /\ UNCHANGED <<project, mounts, index, image, services, outcome, used>>

\* clean ends: it was called by the command line, or by the install.
CleanEnds(how) ==
    IF cmd.goal = "clean" THEN End(how) /\ UNCHANGED base
    ELSE MakeBase(Head(cmd.rest)) /\ UNCHANGED outcome

\* Mutant: clean goes on when nothing is mounted.
BeginClean_Always ==
    /\ cmd.pc = "clean"
    /\ cmd' = [cmd EXCEPT !.pc = "ending", !.at = [p \in (IF cmd.cwd = Root THEN Pkgs ELSE {cmd.cwd}) |-> "nm"]]
    /\ registered' = (registered /\ ~(s.daemon /\ cmd.cwd = Root))
    /\ UNCHANGED <<project, mounts, files, served, nydusd, deamon, harm, kept, outcome, used>>

\* clean, up to the parallel part of endNydusFs. The packages are those of
\* the project at cwd, which is the workspace itself for one of its own.
BeginClean ==
    /\ cmd.pc = "clean"
    /\ IF \A p \in Pkgs : nm[p] = 0
       THEN CleanEnds("nothing") /\ UNCHANGED registered
       ELSE /\ cmd' = [cmd EXCEPT !.pc = "ending",
                 !.at = [p \in (IF cmd.cwd = Root THEN Pkgs ELSE {cmd.cwd}) |-> "nm"]]
            /\ registered' = (registered /\ ~(s.daemon /\ cmd.cwd = Root))
            /\ UNCHANGED <<base, outcome>>
    /\ UNCHANGED <<project, mounts, index, image, served, nydusd, deamon, harm, kept, used>>

-----------------------------------------------------------------------------
(* fuse_mode.js: endNydusFs, for each package. wrapRetry gives up after    *)
(* three seconds: a command that cannot succeed fails in the end, and one  *)
(* that could is repeated until it does.                                   *)

Stray == cmd.cwd # Root
Step(p, from, to) == cmd.at[p] = from /\ cmd' = [cmd EXCEPT !.at[p] = to]
Overlay(p) == IF Stray THEN 0 ELSE tmp[p]

\* Mutant: wrapRetry without its time limit.
UmountNm_ForEver(p) ==
    /\ cmd.pc = "ending" /\ cmd.at[p] = "nm"
    /\ \/ nm[p] > 0 /\ (p \notin busy \/ ~Linux)
          /\ Step(p, "nm", "tmp") /\ nm' = [nm EXCEPT ![p] = @ - 1]
       \/ nm[p] = 0 /\ ~Linux /\ Step(p, "nm", "tmp") /\ UNCHANGED nm
    /\ UNCHANGED <<project, tmp, busy, files, services, outcome, used>>

\* On Darwin what is not mounted is skipped, and umount -f is the fallback.
UmountNm(p) ==
    /\ cmd.pc = "ending" /\ cmd.at[p] = "nm"
    /\ \/ nm[p] > 0 /\ (p \notin busy \/ ~Linux)
          /\ Step(p, "nm", "tmp") /\ nm' = [nm EXCEPT ![p] = @ - 1]
       \/ nm[p] = 0 /\ ~Linux /\ Step(p, "nm", "tmp") /\ UNCHANGED nm
       \/ Linux /\ (nm[p] = 0 \/ p \in busy) /\ Step(p, "nm", "failed") /\ UNCHANGED nm
    /\ UNCHANGED <<project, tmp, busy, files, services, outcome, used>>

UmountTmp(p) ==
    /\ cmd.pc = "ending" /\ cmd.at[p] = "tmp"
    /\ \/ Overlay(p) > 0 /\ Step(p, "tmp", "nydusd") /\ tmp' = [tmp EXCEPT ![p] = @ - 1]
       \/ Overlay(p) = 0 /\ Step(p, "tmp", IF Linux THEN "failed" ELSE "nydusd") /\ UNCHANGED tmp
    /\ UNCHANGED <<project, nm, busy, files, services, outcome, used>>

\* Mutant: the file system is left to nydusd.
UmountNydusd_Skip(p) ==
    /\ cmd.pc = "ending" /\ Step(p, "nydusd", "rm")
    /\ UNCHANGED <<project, mounts, files, services, outcome, used>>

\* nydusdApi.umount ignores what the answer says, but not its absence.
UmountNydusd(p) ==
    /\ cmd.pc = "ending" /\ Step(p, "nydusd", IF nydusd THEN "rm" ELSE "failed")
    /\ \/ nydusd /\ ~Stray /\ NoFault
          /\ served' = [served EXCEPT ![p] = 0] /\ kept' = kept \ {p}
       \/ nydusd /\ ~Stray /\ served[p] # 0 /\ Fault
          /\ kept' = kept \cup {p} /\ UNCHANGED served
       \/ (~nydusd \/ Stray) /\ NoFault /\ UNCHANGED <<served, kept>>
    /\ UNCHANGED <<project, mounts, files, nydusd, deamon, registered, harm, outcome>>

Without(f, p) == [q \in DOMAIN f \ {p} |-> f[q]]

NoIndex(p) == index' = Without(index, p)
NoImage(p) == image' = [image EXCEPT ![p] = 0]

\* rm -rf of baseDir; a mount point in it cannot be removed, but what is
\* beside it may be gone before rm meets it.
RemoveBase(p) ==
    /\ cmd.pc = "ending" /\ Step(p, "rm", IF Overlay(p) > 0 THEN "failed" ELSE "done")
    /\ \/ Stray /\ UNCHANGED files
       \/ ~Stray /\ tmp[p] = 0 /\ base' = base \ {p} /\ NoIndex(p) /\ NoImage(p)
       \/ ~Stray /\ tmp[p] > 0 /\ UNCHANGED base
          /\ (NoIndex(p) \/ UNCHANGED index) /\ (NoImage(p) \/ UNCHANGED image)
    /\ UNCHANGED <<project, mounts, services, outcome, used>>

Settled   == \A p \in DOMAIN cmd.at : cmd.at[p] \in {"done", "failed"}
AnyFailed == \E p \in DOMAIN cmd.at : cmd.at[p] = "failed"

EndClean ==
    /\ cmd.pc = "ending" /\ Settled
    /\ IF AnyFailed THEN Fails /\ UNCHANGED base ELSE CleanEnds("cleaned")
    /\ UNCHANGED <<project, mounts, index, image, services, used>>
-----------------------------------------------------------------------------
(* download_dependency.js: the tarballs (see Downloader), the packages and *)
(* the scripts; then the maps of all packages, or of the root alone.       *)

\* The lock file and the options of a project do not change: what follows
\* from them is computed once for each.
PackagesOf == [i \in DOMAIN Projects |-> Packages(CreateDownloadTask(Projects[i]))]
MapsOf == [i \in DOMAIN Projects |->
    [p \in ToSet(AllPkgs(Projects[i])) |-> FsMeta(Projects[i], PackagesOf[i], p)]]

Downloading == cmd.pc = "loop" /\ cmd.rest = <<>>

Download ==
    /\ Downloading
    /\ IF \E e \in ToSet(s.lock) : NotFound(s, PackagesOf[project], e)
       THEN Fails /\ UNCHANGED <<base, index>>
       ELSE /\ base' = base \cup ToSet(AllPkgs(s))
            /\ LET new == MapsOf[project] IN
                 index' = [p \in DOMAIN new \cup DOMAIN index |-> IF p \in DOMAIN new THEN new[p] ELSE index[p]]
            /\ Goto("nydusd")
    /\ UNCHANGED <<project, mounts, image, services, used>>

DownloadFails ==
    /\ Downloading /\ Fault /\ Fails
    /\ UNCHANGED <<project, mounts, files, services>>

-----------------------------------------------------------------------------
(* fuse_mode.js: startNydusFs                                              *)

\* nydusd is down: what it served is lost.
Down == nydusd' = FALSE /\ served' = [p \in Pkgs |-> 0]
Lost == harm \cup {p \in Pkgs : served[p] # 0}

\* initDaemon, checkDaemon: only an exit with code 1 and three seconds of
\* silence are failures. After another exit the install goes on.
InitDaemon ==
    /\ cmd.pc = "nydusd"
    /\ \/ NoFault /\ nydusd' = TRUE /\ Goto("deamon")
       \/ ~nydusd /\ Fault /\ UNCHANGED nydusd /\ (Fails \/ Goto("deamon"))
    /\ UNCHANGED <<project, mounts, files, served, deamon, registered, harm, kept>>

StartsNydusd == cmd.pc = "nydusd" /\ ~nydusd

\* initDeamon: with an older version, or none, registerDeamon removes the
\* deamon's directory with the metadata. If rapid_deamon could be killed and
\* its mount be removed, nydusd is killed too.
InitDeamon ==
    /\ cmd.pc = "deamon" /\ Goto("bootstrap")
    /\ IF s.daemon /\ deamon.version # "new"
       THEN /\ registered' = FALSE
            /\ \/ deamon.up /\ Down /\ harm' = Lost
                  /\ deamon' = [version |-> "new", up |-> TRUE, killed |-> TRUE]
               \/ deamon' = [deamon EXCEPT !.version = "new", !.up = TRUE]
                  /\ UNCHANGED <<nydusd, served, harm>>
       ELSE /\ deamon' = [deamon EXCEPT !.up = @ \/ s.daemon]
            /\ UNCHANGED <<registered, nydusd, served, harm>>
    /\ UNCHANGED <<project, mounts, files, kept, used>>

Images(n)     == [p \in Pkgs |-> n]

\* generateBootstrapFile, of every package whatever singleMount says.
GenerateBootstrap ==
    /\ cmd.pc = "bootstrap"
    /\ IF \A p \in Pkgs : p \in DOMAIN index
       THEN /\ used' = [used EXCEPT !.images = @ + 1] /\ image' = Images(used'.images)
            /\ cmd' = [cmd EXCEPT !.pc = "mount", !.rest = Everyone] /\ UNCHANGED outcome
       ELSE Fails /\ UNCHANGED <<image, used>>
    /\ UNCHANGED <<project, mounts, base, index, services>>

\* nydusdApi.mount: a mountpoint that is there, or anything else, may be
\* refused; the status of the answer is not looked at.
Mount(p) ==
    \/ served[p] = 0 /\ NoFault
       /\ served' = [served EXCEPT ![p] = image[p]] /\ harm' = harm \ {p}
    \/ (IF served[p] = 0 THEN Fault ELSE NoFault)
       /\ harm' = harm \cup {p} /\ UNCHANGED served

\* mountNydus, one after the other
MountNydus ==
    /\ cmd.pc = "mount" /\ cmd.rest # <<>>
    /\ \/ ~nydusd /\ Fails /\ NoFault /\ UNCHANGED <<served, harm>>
       \/ nydusd /\ Mount(Head(cmd.rest)) /\ cmd' = [cmd EXCEPT !.rest = Tail(@)] /\ UNCHANGED outcome
    /\ UNCHANGED <<project, mounts, files, nydusd, deamon, registered, kept>>

BeginOverlay ==
    /\ cmd.pc = "mount" /\ cmd.rest = <<>>
    /\ cmd' = [cmd EXCEPT !.pc = "mounting", !.at = [p \in Pkgs |-> "tmpfs"]]
    /\ UNCHANGED <<project, mounts, files, services, outcome, used>>

\* mountOverlay, for each package: tmpfs or the disk image, then overlay
MountTmpfs(p) ==
    /\ cmd.pc = "mounting" /\ cmd.at[p] = "tmpfs"
    /\ \/ NoFault /\ Step(p, "tmpfs", "overlay") /\ tmp' = [tmp EXCEPT ![p] = @ + 1]
       \/ Fault /\ Step(p, "tmpfs", "failed") /\ UNCHANGED tmp
    /\ UNCHANGED <<project, nm, busy, files, services, outcome>>

MountOverlay(p) ==
    /\ cmd.pc = "mounting" /\ cmd.at[p] = "overlay"
    /\ \/ NoFault /\ Step(p, "overlay", "done") /\ nm' = [nm EXCEPT ![p] = @ + 1]
       \/ Fault /\ Step(p, "overlay", "failed") /\ UNCHANGED nm
    /\ UNCHANGED <<project, tmp, busy, files, services, outcome>>

-----------------------------------------------------------------------------
(* scripts.js: the dependencies' scripts in the order of the lock file,    *)
(* then those of the workspaces, then the root's.                          *)

Lifecycle == <<"preinstall", "install", "postinstall", "prepublish", "preprepare", "prepare", "postprepare">>

\* node-gyp's install script is skipped if there is no binding.gyp.
Rebuilds(task, script) ==
    script = "install" /\ ("install" \notin PackageJson[task.id].scripts \/ PackageJson[task.id].rebuild)

Runs(task, script) ==
    Rebuilds(task, script) => \E i \in DOMAIN Toc : Toc[i].id = task.id /\ Toc[i].rel = <<"binding.gyp">>

\* The scripts of what lies at a path in the node_modules of pkg.
InOrder(pkg, at, optional, scripts, rebuilds) ==
    LET mine == SelectSeq(Lifecycle, LAMBDA l : l \in scripts)
    IN  [i \in DOMAIN mine |-> [pkg |-> pkg, at |-> at, script |-> mine[i], optional |-> optional, gyp |-> mine[i] \in rebuilds]]

ScriptsOfAll == [i \in DOMAIN Projects |->
    LET q     == Projects[i]
        all   == Append(q.spaces, Root)
        tasks == StoreScripts(q, PackagesOf[i])
        deps  == FlattenSeq([k \in DOMAIN tasks |-> InOrder(Root, tasks[k].at, tasks[k].optional,
                                {l \in tasks[k].scripts : Runs(tasks[k], l)}, {l \in DepScripts : Rebuilds(tasks[k], l)})])
        own   == FlattenSeq([k \in DOMAIN all |-> InOrder(all[k], <<>>, FALSE, q.scripts[all[k]], {})])
    IN  IF q.ignore /\ tasks # <<>> THEN <<>> ELSE deps \o own]

AllScripts == ScriptsOfAll[project]

\* A project's workspaces are a list, and what is concatenated is one.
ASSUME ListsAssumption == \A i \in DOMAIN Projects :
    /\ Projects[i].spaces \in Seq(ToSet(Projects[i].spaces))
    /\ ScriptsOfAll[i] \in Seq(ToSet(ScriptsOfAll[i]))

\* The end of startNydusFs; ensureAccess only warns.
EndMount ==
    /\ cmd.pc = "mounting" /\ Settled
    /\ IF AnyFailed THEN Fails
       ELSE cmd' = [cmd EXCEPT !.pc = "scripts", !.rest = AllScripts] /\ UNCHANGED outcome
    /\ UNCHANGED <<project, mounts, files, services, used>>

\* With singleMount npm's layout lies one node_modules too deep.
Misplaced == s.single /\ s.mode = "npm"

\* Do the scripts of a package find the files they are about?
Finds(p) == served[p] # 0 /\ ~Misplaced

\* It is the root's node_modules that binding.gyp is looked for in.
Unseen(script) == script.gyp /\ ~Finds(Root)

Skip == cmd' = [cmd EXCEPT !.rest = Tail(@)] /\ UNCHANGED outcome

\* An optional dependency's script may fail. Without the files no
\* binding.gyp is found, and any other script may fail by itself.
RunScript ==
    /\ cmd.pc = "scripts" /\ cmd.rest # <<>>
    /\ \/ Unseen(Head(cmd.rest)) /\ NoFault /\ Skip
       \/ /\ ~Unseen(Head(cmd.rest)) /\ NoFault
          /\ cmd' = [cmd EXCEPT !.rest = Tail(@), !.ran = Append(@, Head(cmd.rest))] /\ UNCHANGED outcome
       \/ /\ ~Unseen(Head(cmd.rest)) /\ IF Finds(Head(cmd.rest).pkg) THEN Fault ELSE NoFault
          /\ IF Head(cmd.rest).optional THEN Skip ELSE Fails
    /\ UNCHANGED <<project, mounts, files, services>>

\* addProject
AddProject ==
    /\ cmd.pc = "scripts" /\ cmd.rest = <<>> /\ End("installed")
    /\ registered' = (registered \/ s.daemon)
    /\ UNCHANGED <<project, mounts, files, served, nydusd, deamon, harm, kept, used>>

-----------------------------------------------------------------------------
(* The machine.                                                            *)

Work(p) ==
    /\ nm[p] > 0 /\ p \notin busy /\ Fault /\ busy' = busy \cup {p}
    /\ UNCHANGED <<project, tmp, nm, files, services, cmd, outcome>>

Leave(p) ==
    /\ p \in busy /\ busy' = busy \ {p}
    /\ UNCHANGED <<project, tmp, nm, files, services, cmd, outcome, used>>

NydusdDies ==
    /\ nydusd /\ Fault /\ Down /\ harm' = Lost
    /\ UNCHANGED <<project, mounts, files, deamon, registered, kept, cmd, outcome>>

\* rapid_deamon's loop starts nydusd again.
NydusdRestarts ==
    /\ deamon.up /\ ~nydusd /\ nydusd' = TRUE
    /\ UNCHANGED <<project, mounts, files, served, deamon, registered, harm, kept, cmd, outcome, used>>

Command ==
    \/ PrepareBase \/ BeginClean \/ EndClean \/ Download \/ DownloadFails
    \/ InitDaemon \/ InitDeamon \/ GenerateBootstrap \/ MountNydus \/ BeginOverlay
    \/ EndMount \/ RunScript \/ AddProject

Package(p) ==
    \/ UmountNm(p) \/ UmountTmp(p) \/ UmountNydusd(p) \/ RemoveBase(p)
    \/ MountTmpfs(p) \/ MountOverlay(p)

Next ==
    \/ Install \/ Clean \/ Command \/ NydusdDies \/ NydusdRestarts
    \/ \E p \in Pkgs : (p \in DOMAIN cmd.at /\ Package(p)) \/ Work(p) \/ Leave(p)

Spec == Init /\ [][Next]_vars

\* A batch of downloads may wait for ever beside an idle executor (see Pool),
\* and checkDaemon polls a socket that answers, but not with 200, for ever.
Waits == Downloading \/ StartsNydusd

(* The event loop runs what can run, and what it starts ends.              *)
FairSpec == Spec /\ WF_vars(~Waits /\ (Command \/ \E p \in Pkgs : p \in DOMAIN cmd.at /\ Package(p)))

-----------------------------------------------------------------------------
(* Properties.                                                             *)

TypeOK ==
    /\ project \in DOMAIN Projects
    /\ tmp \in [Pkgs -> Nat] /\ nm \in [Pkgs -> Nat] /\ busy \subseteq Pkgs
    /\ base \subseteq Pkgs /\ DOMAIN index \subseteq base
    /\ image \in [Pkgs -> 0..MaxCommands] /\ served \in [Pkgs -> 0..MaxCommands]
    /\ nydusd \in BOOLEAN /\ registered \in BOOLEAN /\ harm \subseteq Pkgs /\ kept \subseteq Pkgs

(* What the lock file promises, stated without the builder and, like the   *)
(* maps, once for each project.                                            *)
Depends(q) == {e \in ToSet(q.lock) : e.at # <<>> /\ ~e.link /\ e.tarball # None /\ ValidDep(q, e)}
Under(e)   == Nested(e.at)
FilesOf(e) == {t \in ToSet(Toc) : t.id = TaskId(e)}
OfEach(Promise(_)) == [i \in DOMAIN Projects |-> Promise(Projects[i])]

\* The files of every dependency, but for those in the directory of another.
PromisedFiles(q) == UNION {
    {[ws |-> e.ws, path |-> Under(e) \o t.rel, from |-> <<t.id, t.rel>>] : t \in {f \in FilesOf(e) :
        ~\E d \in Depends(q) : d.ws = e.ws /\ IsStrictPrefix(Under(e), Under(d)) /\ IsPrefix(Under(d), Under(e) \o f.rel)}}
    : e \in Depends(q)}

Directories(q) == {[ws |-> e.ws, path |-> Under(e)] : e \in {d \in ToSet(q.lock) : d.at # <<>>}}

OwnBins(q) == UNION {
    {b.bin : b \in {c \in ToSet(PackageJson[TaskId(d)].bins) : \E t \in FilesOf(d) : t.rel = c.file}}
    : d \in {e \in Depends(q) : e.ws = Root /\ Len(e.at) = 1 /\ e.at[1] \in q.deps}}

FilesPromised == OfEach(PromisedFiles)
DirsKnown     == OfEach(Directories)
BinsPromised  == OfEach(OwnBins)

Placed == \A f \in FilesPromised[project] : f.ws \in DOMAIN index =>
    f.path \in DOMAIN index[f.ws] /\ index[f.ws][f.path].from = f.from

NoForeign == \A p \in DOMAIN index : \A path \in DOMAIN index[p] :
    index[p][path].from # <<>> => \E d \in DirsKnown[project] : d.ws = p /\ IsPrefix(d.path, path)

ProjectBins == Root \in DOMAIN index => \A bin \in BinsPromised[project] :
    <<".bin", bin>> \in DOMAIN index[Root] /\ index[Root][<<".bin", bin>>].to[1] \in s.deps

\* No workspace's directory begins with another one's; no tarball that is
\* needed is named by an entry of another platform too, except that a dev
\* entry does no harm to one that is not.
NoClash  == \A i, j \in DOMAIN s.spaces : i # j => ~IsPrefix(s.spaces[i], s.spaces[j])
Separate(q) == \A e \in Depends(q), d \in ToSet(q.lock) :
    d.tarball = e.tarball /\ d.version = e.version => ValidDep(q, d) \/ (d.dev /\ ~e.dev)
AllSeparate == OfEach(Separate)
NotMixed    == AllSeparate[project]

(* Each dependency's files are in node_modules where npm would put them,   *)
(* whatever entries share its tarball, with nothing of another workspace   *)
(* beside them, and a bin of the project's own dependencies is theirs      *)
(* (npm_fs_builder.js). With singleMount it is not so.                     *)
FilesPlaced ==
    TypeOK /\ (s.mode = "npm" /\ ~s.single /\ NoClash /\ NotMixed
                => Placed /\ NoForeign /\ ProjectBins)

(* npminstall's links (tnpm_fs_builder.js): every link and bin leads to a  *)
(* file or directory of the map; a package finds each of its dependencies  *)
(* in the version node would find in npm's layout, and the top level holds *)
(* the project's versions and otherwise the latest.                        *)
Nearest(q, e, n) ==
    LET above == {d \in Depends(q) : d.ws = e.ws /\ Last(d.at) = n /\ IsPrefix(Front(d.at), e.at)}
    IN  {d \in above : \A c \in above : Len(c.at) <= Len(d.at)}

Real(e) == DisplayName(PackageName(e), e.version)

\* A link and the targets it may have.
FoundDeps(q) == UNION {
    {[path |-> <<Real(e), "node_modules", n>>, to |-> {<<Real(d)>> : d \in Nearest(q, e, n)}] :
        n \in {m \in ToSet(PackageJson[TaskId(e)].deps) \ PackageJson[TaskId(e)].bundled : Nearest(q, e, m) # {}}}
    : e \in Depends(q)}

TopLevel(q) ==
    LET Same(e) == {d \in Depends(q) : PackageName(d) = PackageName(e)}
        Own(e)  == {d \in Same(e) : Len(d.at) = 1 /\ PackageName(d) \in q.deps}
        Best(e) == IF Own(e) # {} THEN Own(e) ELSE {c \in Same(e) : \A x \in Same(e) : x.version <= c.version}
    IN  {[path |-> <<PackageName(e)>>, to |-> {<<Real(d)>> : d \in Best(e)}] : e \in Depends(q)}

AllLinks(q)   == FoundDeps(q) \cup TopLevel(q)
LinksPromised == OfEach(AllLinks)

Resolves(m) == \A path \in DOMAIN m :
    m[path].kind = "symlink" /\ m[path].to[1] # ".."
        => \E q \in DOMAIN m : m[q].kind # "symlink" /\ IsPrefix(m[path].to, q)

Linked(m) == \A link \in LinksPromised[project] : link.path \in DOMAIN m /\ m[link.path].to \in link.to

NoAlias == \A e \in ToSet(s.lock) : e.name = None

LinksResolve == \A p \in DOMAIN index :
    /\ s.mode = "npm" /\ NoClash => Resolves(index[p])
    /\ s.mode = "npminstall" /\ NoAlias => Resolves(index[p]) /\ Linked(index[p])

(* What the command line reports is so. After an install every package's   *)
(* node_modules is mounted once, over the image of this install unless     *)
(* nydusd has refused or lost it; the scripts have run in their order,     *)
(* all but those of optional dependencies and, if nydusd does not serve    *)
(* the root's packages where they are looked for, node-gyp's own. After a  *)
(* clean nothing is left but what nydusd refused to give up; one that      *)
(* finds no node_modules mounted reports success too, and then nothing is  *)
(* left unless a command has failed before it.                             *)
MayMiss(script) == script.optional \/ (script.gyp /\ (Root \in harm \/ Misplaced))

Gone(p) == nm[p] = 0 /\ tmp[p] = 0 /\ (served[p] = 0 \/ p \in kept) /\ p \notin base

ScriptsRan == \E ran \in SUBSET DOMAIN AllScripts :
    /\ Cardinality(ran) = Len(outcome.ran)
    /\ \A k \in ran : outcome.ran[Cardinality({j \in ran : j <= k})] = AllScripts[k]
    /\ \A k \in DOMAIN AllScripts \ ran : MayMiss(AllScripts[k])

ReportsAreTrue == cmd = Idle =>
    /\ outcome.how = "installed" =>
         /\ \A p \in Pkgs : nm[p] = 1 /\ tmp[p] >= 1 /\ image[p] = used.images /\ (p \in harm \/ served[p] = image[p])
         /\ s.daemon => registered
         /\ ScriptsRan
    /\ outcome.how = "cleaned" \/ (outcome.how = "nothing" /\ ~outcome.failed) => \A p \in Pkgs : Gone(p)

(* A directory is removed only when node_modules and the overlay of the    *)
(* package are unmounted: rm -rf would empty the upper layer of one in     *)
(* use. nydusd has been asked to give up the image and does not serve it   *)
(* any more, unless it refused, which the code does not see.               *)
RemovedUnmounted == [][\A p \in Pkgs :
    p \in base /\ p \notin base' => nm[p] = 0 /\ tmp[p] = 0 /\ (served[p] = 0 \/ p \in kept)]_vars

(* Without a fault of the machine an install and a clean succeed, in every *)
(* order. The cases in which the code fails by itself are named: workspaces *)
(* on Linux, singleMount with workspaces or in npm's layout, an older      *)
(* deamon's nydusd that was killed, and NotMixed.                          *)
Plain ==
    /\ s.spaces = <<>> \/ (~Linux /\ ~s.single)
    /\ ~Misplaced /\ ~deamon.killed /\ NotMixed
OnlyFaultsFail == outcome.how = "failed" /\ Plain => used.faults > 0

(* Every command ends, whatever fails, unless it waits for ever for the    *)
(* download or for the nydusd it has started.                              *)
CommandsSettle == (cmd # Idle) ~> (cmd = Idle \/ []Waits)
=============================================================================
