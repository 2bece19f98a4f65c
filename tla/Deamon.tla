------------------------------- MODULE Deamon -------------------------------
(***************************************************************************)
(* The rapid deamon and the rapid install / rapid clean commands that use  *)
(* it (deamon/src, cli/lib/deamon.js, cli/lib/nydusd/fuse_mode.js). The    *)
(* deamon keeps a map of projects, restored from the metadata files the    *)
(* commands write, and mounts a project again when the process behind its  *)
(* node_modules (unionfs, on macOS) has died.                              *)
(*                                                                         *)
(* Its main loop holds the map's mutex during a whole check; its HTTP      *)
(* handlers take the RouteState mutex, then the map's. A command's request *)
(* that fails, or times out, changes nothing but its (ignored) result.     *)
(* A deamon started while another has not bound the socket yet replaces it *)
(* at the socket, but does not stop it.                                    *)
(***************************************************************************)
EXTENDS Naturals

CONSTANTS
    Projects,   \* project directories
    Names,      \* what getProjectName makes of them
    NameOf,     \* NameOf[p]: the hash of p's last path component
    Deamons,    \* deamon processes
    None,       \* no project, no deamon
    Torn,       \* a metadata file being written
    Killer,     \* the client of a kill request
    MaxRuns,    \* commands, in all
    MaxDeaths,  \* deaths of mount processes, kills by a check among them
    MaxStops    \* kills and crashes of deamons

ASSUME DeamonAssumption ==
    /\ NameOf \in [Projects -> Names]
    /\ None \notin Projects \cup Deamons /\ Torn \notin Projects \cup {None}
    /\ Killer \notin Projects \cup {None}
    /\ MaxRuns \in Nat /\ MaxDeaths \in Nat /\ MaxStops \in Nat

VARIABLES
    loop,     \* loop[d]: where d's main is
    tree,     \* tree[d]: the projects of d's map
    pid,      \* pid[d][p]: what d knows of p's process: "none", "live" or "gone"
    todo,     \* todo[d]: the projects the check has still to look at
    work,     \* work[d]: the project being restarted
    routes,   \* routes[d]: who holds the RouteState mutex
    snap,     \* snap[d]: the pids found by the add_project under way
    killed,   \* killed[d]: a kill is in the channel
    server,   \* the deamon behind the socket's path
    meta,     \* meta[n]: the content of n's metadata file, None without one
    mounted,  \* projects whose node_modules is mounted
    base,     \* projects whose baseDir exists
    cli,      \* cli[p]: the command that runs on p: [pc, goal, target]
    cleaned,  \* cleaned[p]: how the last command on p ended
    missed,   \* history: a request was given up or refused by a deamon about to serve
    twice,    \* history: two deamons have run at a time
    unlisted, \* history: unlisted[d]: projects whose processes d could not list
              \* when it was last to add them
    bounds    \* bounds on the model's events: [runs, deaths, stops]

deamonVars == <<loop, tree, pid, todo, work, routes, snap, killed, server>>
diskVars   == <<meta, base>>
history    == <<missed, twice, unlisted, bounds>>
vars == <<deamonVars, diskVars, mounted, cli, cleaned, history>>

Idle == [pc |-> "idle", goal |-> "none", target |-> None]

Init ==
    /\ loop = [d \in Deamons |-> "down"] /\ tree = [d \in Deamons |-> {}]
    /\ pid = [d \in Deamons |-> [p \in Projects |-> "none"]]
    /\ todo = [d \in Deamons |-> {}] /\ work = [d \in Deamons |-> None]
    /\ routes = [d \in Deamons |-> None] /\ snap = [d \in Deamons |-> "none"]
    /\ killed = [d \in Deamons |-> FALSE] /\ server = None
    /\ meta = [n \in Names |-> None] /\ mounted = {} /\ base = {}
    /\ cli = [p \in Projects |-> Idle] /\ cleaned = [p \in Projects |-> "no"]
    /\ missed = FALSE /\ twice = FALSE /\ unlisted = [d \in Deamons |-> {}]
    /\ bounds = [runs |-> 0, deaths |-> 0, stops |-> 0]

\* Every deamon that knew the processes of a mount that ends knows dead ones.
Gone(S) == [d \in Deamons |-> [p \in Projects |->
              IF p \in S /\ pid[d][p] = "live" THEN "gone" ELSE pid[d][p]]]
SnapGone(p) == [d \in Deamons |->
              IF routes[d] = p /\ snap[d] = "live" THEN "gone" ELSE snap[d]]
Registered == {p \in Projects : meta[NameOf[p]] = p}
PidsNow(p) == IF p \in mounted THEN "live" ELSE "none"
\* Mutant: the check works on a copy of the map, with the mutex released.
MapFree_Snapshot(d) == loop[d] \notin {"down", "loading"}
MapFree(d) == loop[d] \notin {"down", "loading", "checking"}
Up(d)      == loop[d] \in {"sleeping", "checking"}

-----------------------------------------------------------------------------
(* The deamon's life. It is started at login, or by initDeamon of an       *)
(* install that finds nobody at the socket. One unreadable metadata file   *)
(* and main panics.                                                        *)

Restored == {meta[n] : n \in Names} \ {None}

\* init_projects only logs that add_project could not list a project's processes
\* (ps fails, or the path is no regular expression) and leaves the project out.
Launch(d) ==
    /\ loop[d] = "down" /\ server = None
    /\ \A n \in Names : meta[n] # Torn
    /\ loop' = [loop EXCEPT ![d] = "loading"]
    /\ \E S \in SUBSET Restored :
         /\ tree' = [tree EXCEPT ![d] = Restored \ S]
         /\ unlisted' = [unlisted EXCEPT ![d] = S]
    /\ pid' = [pid EXCEPT ![d] = [p \in Projects |-> PidsNow(p)]]
    /\ twice' = (twice \/ \E c \in Deamons : loop[c] # "down")
    /\ UNCHANGED <<todo, work, routes, snap, killed, server, diskVars, mounted, cli, cleaned, missed, bounds>>

\* start_server removes the socket's path and binds it; the loop begins.
Serve(d) ==
    /\ loop[d] = "loading"
    /\ loop' = [loop EXCEPT ![d] = "sleeping"] /\ server' = d
    /\ UNCHANGED <<tree, pid, todo, work, routes, snap, killed, diskVars, mounted, cli, cleaned, history>>

\* The process is gone: the requests it holds fail, the others find nobody.
Stop(d) ==
    /\ loop' = [loop EXCEPT ![d] = "down"] /\ tree' = [tree EXCEPT ![d] = {}]
    /\ pid' = [pid EXCEPT ![d] = [p \in Projects |-> "none"]]
    /\ todo' = [todo EXCEPT ![d] = {}] /\ work' = [work EXCEPT ![d] = None]
    /\ routes' = [routes EXCEPT ![d] = None] /\ snap' = [snap EXCEPT ![d] = "none"]
    /\ killed' = [killed EXCEPT ![d] = FALSE]
    /\ server' = IF server = d THEN None ELSE server
    /\ cli' = [p \in Projects |-> IF routes[d] = p THEN Idle ELSE cli[p]]
    /\ UNCHANGED <<diskVars, mounted, cleaned, missed, twice, unlisted>>

Crash(d) ==
    /\ loop[d] # "down" /\ bounds.stops < MaxStops
    /\ bounds' = [bounds EXCEPT !.stops = @ + 1]
    /\ Stop(d)

\* main: the select! of the kill channel and the timer, in any order.
Exit(d) == loop[d] = "sleeping" /\ killed[d] /\ Stop(d) /\ UNCHANGED bounds

\* check_projects takes the map's mutex ...
Tick(d) ==
    /\ loop[d] = "sleeping"
    /\ loop' = [loop EXCEPT ![d] = "checking"]
    /\ todo' = [todo EXCEPT ![d] = tree[d]]
    /\ UNCHANGED <<tree, pid, work, routes, snap, killed, server, diskVars, mounted, cli, cleaned, history>>

\* Mutant: an error of kill_pids ends the check of the project.
Check_KillFirst(d, p) ==
    /\ loop[d] = "checking" /\ work[d] = None /\ p \in todo[d]
    /\ todo' = [todo EXCEPT ![d] = @ \ {p}]
    /\ work' = [work EXCEPT ![d] = IF pid[d][p] # "none" THEN None ELSE p]
    /\ UNCHANGED <<loop, tree, pid, routes, snap, killed, server, diskVars, mounted, cli, cleaned, history>>

\* ... and looks at one project after the other; an error of kill_pids (its
\* processes have died) is only logged.
Check(d, p) ==
    /\ loop[d] = "checking" /\ work[d] = None /\ p \in todo[d]
    /\ todo' = [todo EXCEPT ![d] = @ \ {p}]
    /\ work' = [work EXCEPT ![d] = IF pid[d][p] = "live" THEN None ELSE p]
    /\ UNCHANGED <<loop, tree, pid, routes, snap, killed, server, diskVars, mounted, cli, cleaned, history>>

\* is_alive: the processes answer, but the project's directory cannot be read,
\* or not within a second. They are killed, so what was mounted is gone.
KillPids(d, p) ==
    /\ loop[d] = "checking" /\ work[d] = None /\ p \in todo[d]
    /\ pid[d][p] = "live" /\ bounds.deaths < MaxDeaths
    /\ bounds' = [bounds EXCEPT !.deaths = @ + 1]
    /\ todo' = [todo EXCEPT ![d] = @ \ {p}] /\ work' = [work EXCEPT ![d] = p]
    /\ mounted' = mounted \ {p} /\ snap' = SnapGone(p)
    /\ pid' = [Gone({p}) EXCEPT ![d][p] = "none"]
    /\ UNCHANGED <<loop, tree, routes, killed, server, diskVars, cli, cleaned, missed, twice, unlisted>>

\* ProjectConfig::restart: bootstrap, nydusd, overlay; all need files of baseDir.
\* A mount that is there is unmounted first, which ends its processes.
Restart(d) ==
    /\ work[d] \in base
    /\ mounted' = mounted \cup {work[d]} /\ snap' = SnapGone(work[d])
    /\ work' = [work EXCEPT ![d] = None]
    /\ UNCHANGED <<loop, tree, todo, routes, killed, server, diskVars, cli, cleaned, history>>

RestartOk(d) == Restart(d) /\ pid' = [Gone({work[d]}) EXCEPT ![d][work[d]] = "live"]

\* The last step of restart, listing the new processes, fails.
RestartUnlisted(d) == Restart(d) /\ pid' = Gone({work[d]})

\* Mutant: the pids are recorded although the overlay's restart has failed.
RestartFails_Live(d) ==
    /\ work[d] # None /\ work' = [work EXCEPT ![d] = None]
    /\ pid' = [pid EXCEPT ![d][work[d]] = "live"]
    /\ UNCHANGED <<loop, tree, todo, routes, snap, killed, server, diskVars, mounted, cli, cleaned, history>>

RestartFails(d) ==
    /\ work[d] # None /\ work' = [work EXCEPT ![d] = None]
    /\ \/ UNCHANGED <<mounted, pid, snap>>
       \/ mounted' = mounted \ {work[d]} /\ pid' = Gone({work[d]}) /\ snap' = SnapGone(work[d])
    /\ UNCHANGED <<loop, tree, todo, routes, killed, server, diskVars, cli, cleaned, history>>

EndCheck(d) ==
    /\ loop[d] = "checking" /\ todo[d] = {} /\ work[d] = None
    /\ loop' = [loop EXCEPT ![d] = "sleeping"]
    /\ UNCHANGED <<tree, pid, todo, work, routes, snap, killed, server, diskVars, mounted, cli, cleaned, history>>

\* A mount's process dies.
MountDies(p) ==
    /\ p \in mounted /\ bounds.deaths < MaxDeaths
    /\ bounds' = [bounds EXCEPT !.deaths = @ + 1]
    /\ mounted' = mounted \ {p} /\ pid' = Gone({p}) /\ snap' = SnapGone(p)
    /\ UNCHANGED <<loop, tree, todo, work, routes, killed, server, diskVars, cli, cleaned, missed, twice, unlisted>>

-----------------------------------------------------------------------------
(* The commands. cli[p].pc says which await the command on p is at.        *)

Goto(p, l) == cli' = [cli EXCEPT ![p].pc = l]
Start(p, goal, l) ==
    /\ cli[p] = Idle /\ bounds.runs < MaxRuns
    /\ bounds' = [bounds EXCEPT !.runs = @ + 1]
    /\ cli' = [cli EXCEPT ![p] = [pc |-> l, goal |-> goal, target |-> None]]

\* install cleans a project that is mounted.
StartInstall(p) ==
    /\ Start(p, "install", IF p \in mounted THEN "delete" ELSE "mount")
    /\ cleaned' = [cleaned EXCEPT ![p] = "no"]
    /\ UNCHANGED <<deamonVars, diskVars, mounted, missed, twice, unlisted>>

\* clean does nothing when listMountInfo finds no mount of any project.
StartClean(p) ==
    \/ mounted # {} /\ Start(p, "clean", "delete")
       /\ UNCHANGED <<deamonVars, diskVars, mounted, cleaned, missed, twice, unlisted>>
    \/ mounted = {} /\ cli[p] = Idle /\ bounds.runs < MaxRuns
       /\ bounds' = [bounds EXCEPT !.runs = @ + 1]
       /\ cleaned' = [cleaned EXCEPT ![p] = "skipped"]
       /\ UNCHANGED <<deamonVars, diskVars, mounted, cli, missed, twice, unlisted>>

\* Mutant: the file stays.
RmMeta_Keep(p) == LET f == meta[NameOf[p]] IN
    /\ cli[p].pc = "delete"
    /\ cli' = [cli EXCEPT ![p].pc = IF f \in Projects THEN "deleting" ELSE "unmount",
                          ![p].target = IF f \in Projects THEN f ELSE None]
    /\ UNCHANGED <<deamonVars, meta, base, mounted, cleaned, history>>

\* delProject reads and removes the metadata file; without a file, or with one
\* that does not parse, no request is sent.
RmMeta(p) == LET f == meta[NameOf[p]] IN
    /\ cli[p].pc = "delete"
    /\ meta' = [meta EXCEPT ![NameOf[p]] = None]
    /\ cli' = [cli EXCEPT ![p].pc = IF f \in Projects THEN "deleting" ELSE "unmount",
                          ![p].target = IF f \in Projects THEN f ELSE None]
    /\ UNCHANGED <<deamonVars, base, mounted, cleaned, history>>

EndRequest(p) == cli' = [cli EXCEPT ![p] =
    IF cli[p].pc = "deleting" THEN [cli[p] EXCEPT !.pc = "unmount"] ELSE Idle]

\* handle_del
HandleDel(d, p) ==
    /\ cli[p].pc = "deleting" /\ server = d /\ routes[d] = None /\ MapFree(d)
    /\ tree' = [tree EXCEPT ![d] = @ \ {cli[p].target}]
    /\ EndRequest(p)
    /\ UNCHANGED <<loop, pid, todo, work, routes, snap, killed, server, diskVars, mounted, cleaned, history>>

\* handle_add takes the RouteState mutex and looks for the project's processes ...
HandleAdd(d, p) ==
    /\ cli[p].pc = "adding" /\ server = d /\ routes[d] = None
    /\ routes' = [routes EXCEPT ![d] = p] /\ snap' = [snap EXCEPT ![d] = PidsNow(p)]
    /\ Goto(p, "inserting")
    /\ UNCHANGED <<loop, tree, pid, todo, work, killed, server, diskVars, mounted, cleaned, history>>

\* ... which may fail: the answer is code -1, and nothing is inserted.
AddFails(d, p) ==
    /\ cli[p].pc = "adding" /\ server = d /\ routes[d] = None
    /\ unlisted' = [unlisted EXCEPT ![d] = @ \cup {p}]
    /\ EndRequest(p)
    /\ UNCHANGED <<deamonVars, diskVars, mounted, cleaned, missed, twice, bounds>>

\* Mutant: the RouteState mutex is not released.
Insert_Hold(d, p) ==
    /\ routes[d] = p /\ MapFree(d)
    /\ tree' = [tree EXCEPT ![d] = @ \cup {p}]
    /\ pid' = [pid EXCEPT ![d][p] = snap[d]]
    /\ routes' = [routes EXCEPT ![d] = Killer]
    /\ unlisted' = [unlisted EXCEPT ![d] = @ \ {p}]
    /\ EndRequest(p)
    /\ UNCHANGED <<loop, todo, work, snap, killed, server, diskVars, mounted, cleaned, missed, twice, bounds>>

\* ... then the map's mutex, and inserts what it has found.
Insert(d, p) ==
    /\ routes[d] = p /\ MapFree(d)
    /\ tree' = [tree EXCEPT ![d] = @ \cup {p}]
    /\ pid' = [pid EXCEPT ![d][p] = snap[d]]
    /\ routes' = [routes EXCEPT ![d] = None] /\ snap' = [snap EXCEPT ![d] = "none"]
    /\ unlisted' = [unlisted EXCEPT ![d] = @ \ {p}]
    /\ EndRequest(p)
    /\ UNCHANGED <<loop, todo, work, killed, server, diskVars, mounted, cleaned, missed, twice, bounds>>

\* Nobody is at the socket.
Refused(p) ==
    /\ cli[p].pc \in {"deleting", "adding"} /\ server = None
    /\ EndRequest(p)
    /\ missed' = (missed \/ \E d \in Deamons : loop[d] = "loading")
    /\ UNCHANGED <<deamonVars, diskVars, mounted, cleaned, twice, unlisted, bounds>>

\* The request times out while it waits for a mutex; its handler is dropped.
GiveUp(p) ==
    /\ \/ cli[p].pc \in {"deleting", "adding"} /\ server # None /\ (~MapFree(server) \/ routes[server] # None)
       \/ \E d \in Deamons : routes[d] = p /\ ~MapFree(d)
    /\ routes' = [d \in Deamons |-> IF routes[d] = p THEN None ELSE routes[d]]
    /\ snap' = [d \in Deamons |-> IF routes[d] = p THEN "none" ELSE snap[d]]
    /\ EndRequest(p) /\ missed' = TRUE
    /\ UNCHANGED <<loop, tree, pid, todo, work, killed, server, diskVars, mounted, cleaned, twice, unlisted, bounds>>

\* endNydusFs: umount, then rm -rf of baseDir.
Unmount(p) ==
    /\ cli[p].pc = "unmount" /\ Goto(p, "rm")
    /\ mounted' = mounted \ {p} /\ pid' = Gone({p})
    /\ UNCHANGED <<loop, tree, todo, work, routes, snap, killed, server, diskVars, cleaned, history>>

RmBase(p) ==
    /\ cli[p].pc = "rm" /\ base' = base \ {p}
    /\ \/ cli[p].goal = "install" /\ Goto(p, "mount") /\ UNCHANGED cleaned
       \/ /\ cli[p].goal = "clean" /\ cli' = [cli EXCEPT ![p] = Idle]
          /\ cleaned' = [cleaned EXCEPT ![p] = "full"]
    /\ UNCHANGED <<deamonVars, meta, mounted, history>>

\* startNydusFs
Mount(p) ==
    /\ cli[p].pc = "mount" /\ Goto(p, "write")
    /\ base' = base \cup {p} /\ mounted' = mounted \cup {p}
    /\ UNCHANGED <<deamonVars, meta, cleaned, history>>

\* addProject writes the metadata file (not atomically), then sends a request.
TruncMeta(p) ==
    /\ cli[p].pc = "write" /\ Goto(p, "writing")
    /\ meta' = [meta EXCEPT ![NameOf[p]] = Torn]
    /\ UNCHANGED <<deamonVars, base, mounted, cleaned, history>>

WriteMeta(p) ==
    /\ cli[p].pc = "writing" /\ Goto(p, "adding")
    /\ meta' = [meta EXCEPT ![NameOf[p]] = p]
    /\ UNCHANGED <<deamonVars, base, mounted, cleaned, history>>

\* handle_kill: the channel has room for one; a second kill waits for room with
\* the RouteState mutex in its hands.
Kill(d) ==
    /\ server = d /\ routes[d] = None /\ bounds.stops < MaxStops
    /\ bounds' = [bounds EXCEPT !.stops = @ + 1]
    /\ killed' = [killed EXCEPT ![d] = TRUE]
    /\ routes' = [routes EXCEPT ![d] = IF killed[d] THEN Killer ELSE None]
    /\ UNCHANGED <<loop, tree, pid, todo, work, snap, server, diskVars, mounted, cli, cleaned, missed, twice, unlisted>>

-----------------------------------------------------------------------------
Main(d)   == Serve(d) \/ Tick(d) \/ EndCheck(d) \/ RestartFails(d) \/ \E p \in Projects : Check(d, p)
Handle(d, p) == HandleDel(d, p) \/ HandleAdd(d, p) \/ AddFails(d, p) \/ Insert(d, p)
Command(p) == Refused(p) \/ RmMeta(p) \/ Unmount(p) \/ RmBase(p) \/ Mount(p) \/ TruncMeta(p) \/ WriteMeta(p)

Next ==
    \/ \E d \in Deamons : Main(d) \/ RestartOk(d) \/ RestartUnlisted(d) \/ (\E p \in Projects : Handle(d, p))
                            \/ Launch(d) \/ Exit(d) \/ Crash(d) \/ Kill(d)
                            \/ \E p \in Projects : KillPids(d, p)
    \/ \E p \in Projects : Command(p) \/ StartInstall(p) \/ StartClean(p) \/ GiveUp(p) \/ MountDies(p)

Spec == Init /\ [][Next]_vars

(* The loop and the handlers run; tokio's mutexes are fair, and select!    *)
(* polls its branches in random order; a restart that can succeed does in  *)
(* the end. No launch, kill, crash, death or timeout is required.          *)
FairSpec ==
    /\ Spec
    /\ \A d \in Deamons :
         /\ WF_vars(Main(d)) /\ SF_vars(Exit(d)) /\ SF_vars(RestartOk(d))
         /\ \A p \in Projects : SF_vars(Handle(d, p))
    /\ \A p \in Projects : WF_vars(Command(p))

-----------------------------------------------------------------------------
(* Properties.                                                             *)

TypeOK ==
    /\ loop \in [Deamons -> {"down", "loading", "sleeping", "checking"}]
    /\ tree \in [Deamons -> SUBSET Projects] /\ todo \in [Deamons -> SUBSET Projects]
    /\ pid \in [Deamons -> [Projects -> {"none", "live", "gone"}]]
    /\ work \in [Deamons -> Projects \cup {None}]
    /\ routes \in [Deamons -> Projects \cup {None, Killer}]
    /\ snap \in [Deamons -> {"none", "live", "gone"}]
    /\ killed \in [Deamons -> BOOLEAN] /\ server \in Deamons \cup {None}
    /\ meta \in [Names -> Projects \cup {None, Torn}]
    /\ mounted \subseteq Projects /\ base \subseteq Projects
    /\ cli \in [Projects -> [pc : {"idle", "delete", "deleting", "unmount", "rm", "mount", "write", "writing", "adding", "inserting"},
                             goal : {"none", "install", "clean"}, target : Projects \cup {None}]]
    /\ \A p \in Projects : cli[p].pc = "deleting" => cli[p].target \in Projects
    /\ cleaned \in [Projects -> {"no", "skipped", "full"}]
    /\ missed \in BOOLEAN /\ twice \in BOOLEAN /\ unlisted \in [Deamons -> SUBSET Projects]
    /\ bounds \in [runs : 0..MaxRuns, deaths : 0..MaxDeaths, stops : 0..MaxStops]

Alone(p) == \A q \in Projects \ {p} : NameOf[q] # NameOf[p]
Calm     == ~missed /\ ~twice

(* Pids taken for live are those of a mount: what the deamon trusts when   *)
(* it decides that a project needs no restart.                             *)
LiveIsMounted ==
    TypeOK /\ \A d \in Deamons, p \in Projects : pid[d][p] = "live" => p \in mounted

(* What rapid clean has unmounted and removed stays unmounted: a check     *)
(* that is restarting the project, or about to, cannot finish after the    *)
(* deamon has answered the delete. (As long as every request got its       *)
(* answer, no two deamons ran, and no other project has p's name.)         *)
FullCleanStaysClean == \A p \in Projects :
    Calm /\ Alone(p) /\ cleaned[p] = "full" => p \notin mounted

(* Between commands, the map of the deamon that serves has no project      *)
(* without a metadata file, and lacks only those whose processes it could  *)
(* not list when it was last to add them, whatever the deamon's crashes    *)
(* and launches: after the next launch the same projects are looked after. *)
MapIsMetadata ==
    Calm /\ server # None /\ (\A p \in Projects : cli[p] = Idle /\ Alone(p))
        => /\ tree[server] \subseteq Registered
           /\ Registered \subseteq tree[server] \cup unlisted[server]

(* A registered project whose mount has died is mounted again, as long as  *)
(* its deamon, its entry and its files last.                               *)
Remounted == \A d \in Deamons, p \in Projects :
    (Up(d) /\ p \in tree[d] /\ p \notin mounted)
        ~> (p \in mounted \/ p \notin tree[d] \/ p \notin base)

(* A kill that was answered ends the deamon. *)
KillEnds == \A d \in Deamons : killed[d] ~> (loop[d] = "down")

(* No command waits for ever, neither for a check nor behind a kill.       *)
CommandsEnd == \A p \in Projects : (cli[p] # Idle) ~> (cli[p] = Idle)

(* Whatever was asked of a deamon is over at some time.                    *)
RequestsEnd == KillEnds /\ CommandsEnd
=============================================================================
