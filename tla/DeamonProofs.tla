---------------------------- MODULE DeamonProofs ----------------------------
(***************************************************************************)
(* The deamon and its clients, for any number of projects, deamons, runs,  *)
(* deaths and crashes: what the deamon takes for mounted, what a clean     *)
(* leaves behind, and that the map and the metadata files agree.           *)
(***************************************************************************)
EXTENDS Deamon, TLAPS

-----------------------------------------------------------------------------
(* Types.                                                                  *)

Pcs == {"idle", "delete", "deleting", "unmount", "rm", "mount", "write", "writing", "adding", "inserting"}
Commands == [pc : Pcs, goal : {"none", "install", "clean"}, target : Projects \cup {None}]

\* A request names a project (delProject sends what it has read).
Targeted == \A p \in Projects : cli[p].pc = "deleting" => cli[p].target \in Projects

Bounds == [runs : 0..MaxRuns, deaths : 0..MaxDeaths, stops : 0..MaxStops]

LEMMA BoundsType ==
    ASSUME bounds \in Bounds
    PROVE  /\ bounds.runs < MaxRuns => [bounds EXCEPT !.runs = @ + 1] \in Bounds
           /\ bounds.deaths < MaxDeaths => [bounds EXCEPT !.deaths = @ + 1] \in Bounds
           /\ bounds.stops < MaxStops => [bounds EXCEPT !.stops = @ + 1] \in Bounds
<1>1. \A i, m \in Nat : i \in 0..m /\ i < m => i + 1 \in 0..m
  OBVIOUS
<1>2. bounds.runs \in 0..MaxRuns /\ bounds.deaths \in 0..MaxDeaths /\ bounds.stops \in 0..MaxStops
  BY DEF Bounds
<1>3. bounds.runs \in Nat /\ bounds.deaths \in Nat /\ bounds.stops \in Nat
  BY <1>2
<1>4. /\ bounds.runs < MaxRuns => bounds.runs + 1 \in 0..MaxRuns
      /\ bounds.deaths < MaxDeaths => bounds.deaths + 1 \in 0..MaxDeaths
      /\ bounds.stops < MaxStops => bounds.stops + 1 \in 0..MaxStops
  BY <1>1, <1>2, <1>3, DeamonAssumption
<1> QED BY <1>4, Zenon DEF Bounds

LEMMA IdleType == Idle \in Commands
BY DEF Idle, Commands, Pcs

LEMMA GotoType ==
    ASSUME TypeOK, NEW p \in Projects, NEW l \in Pcs, Goto(p, l), l # "deleting"
    PROVE  /\ cli' \in [Projects -> Commands] /\ Targeted'
           /\ cli'[p].pc = l /\ cli'[p].goal = cli[p].goal
           /\ \A q \in Projects : q # p => cli'[q] = cli[q]
<1>1. cli[p] \in Commands
  BY DEF TypeOK, Commands, Pcs
<1>2. [cli[p] EXCEPT !.pc = l] \in Commands /\ [cli[p] EXCEPT !.pc = l].pc = l
      /\ [cli[p] EXCEPT !.pc = l].goal = cli[p].goal
  BY <1>1 DEF Commands
<1> DEFINE c == [cli[p] EXCEPT !.pc = l]
<1>3. cli' = [cli EXCEPT ![p] = c]
  BY DEF Goto, TypeOK
<1> HIDE DEF c
<1>4. c \in Commands /\ c.pc = l /\ c.goal = cli[p].goal
  BY <1>2 DEF c
<1>5. cli \in [Projects -> Commands]
  BY DEF TypeOK, Commands, Pcs
<1> QED BY <1>3, <1>4, <1>5 DEF Targeted, TypeOK

LEMMA EndRequestType ==
    ASSUME TypeOK, NEW p \in Projects, EndRequest(p)
    PROVE  /\ cli' \in [Projects -> Commands] /\ Targeted'
           /\ cli[p].pc = "deleting" => cli'[p].pc = "unmount" /\ cli'[p].goal = cli[p].goal
           /\ cli[p].pc # "deleting" => cli'[p] = Idle
           /\ \A q \in Projects : q # p => cli'[q] = cli[q]
<1>1. cli[p] \in Commands /\ cli \in [Projects -> Commands]
  BY DEF TypeOK, Commands, Pcs
<1> DEFINE c == [cli[p] EXCEPT !.pc = "unmount"]
<1>2. c \in Commands /\ c.pc = "unmount" /\ c.goal = cli[p].goal
  BY <1>1 DEF Commands, Pcs
<1>3. cli' = [cli EXCEPT ![p] = IF cli[p].pc = "deleting" THEN c ELSE Idle]
  BY DEF EndRequest
<1> HIDE DEF c
<1>4. Idle \in Commands /\ Idle.pc = "idle"
  BY IdleType DEF Idle
<1> QED BY <1>1, <1>2, <1>3, <1>4 DEF Targeted, TypeOK

LEMMA InitType == Init => TypeOK
<1> SUFFICES ASSUME Init PROVE TypeOK
  OBVIOUS
<1>1. [runs |-> 0, deaths |-> 0, stops |-> 0] \in [runs : 0..MaxRuns, deaths : 0..MaxDeaths, stops : 0..MaxStops]
  BY DeamonAssumption
<1>2. cli \in [Projects -> Commands] /\ \A p \in Projects : cli[p].pc = "idle"
  BY IdleType DEF Init, Idle
<1> QED BY <1>1, <1>2 DEF Init, TypeOK, Commands, Pcs

LEMMA StopType == ASSUME TypeOK, NEW d \in Deamons, Stop(d), bounds' \in Bounds
                  PROVE  TypeOK'
<1>1. cli \in [Projects -> Commands] /\ Idle \in Commands /\ Idle.pc = "idle"
  BY IdleType DEF TypeOK, Commands, Pcs, Idle
<1>2. cli' \in [Projects -> Commands] /\ Targeted'
  BY <1>1 DEF Stop, TypeOK, Targeted
<1> QED BY <1>2 DEF Stop, TypeOK, Bounds, Commands, Pcs, Targeted, diskVars

LEMMA NextType == TypeOK /\ [Next]_vars => TypeOK'
<1> SUFFICES ASSUME TypeOK, [Next]_vars PROVE TypeOK'
  OBVIOUS
<1> USE DEF deamonVars, diskVars, history
<1>0. bounds \in Bounds
  BY DEF TypeOK, Bounds
<1>1. ASSUME NEW d \in Deamons, Launch(d) PROVE TypeOK'
  <2>1. \A p \in Projects : PidsNow(p) \in {"none", "live", "gone"}
    BY DEF PidsNow
  <2>2. Restored \in SUBSET Projects
    BY <1>1 DEF TypeOK, Launch, Restored
  <2>3. twice' \in BOOLEAN
    BY <1>1 DEF Launch, TypeOK
  <2>4. tree' \in [Deamons -> SUBSET Projects] /\ unlisted' \in [Deamons -> SUBSET Projects]
    BY <1>1, <2>2 DEF Launch, TypeOK
  <2> QED BY <1>1, <2>1, <2>3, <2>4 DEF Launch, TypeOK
\* A mount goes: the pids known of it are those of the dead.
<1>g. ASSUME NEW p \in Projects \cup {None}
      PROVE  /\ Gone({p}) \in [Deamons -> [Projects -> {"none", "live", "gone"}]]
             /\ SnapGone(p) \in [Deamons -> {"none", "live", "gone"}]
  BY DEF TypeOK, Gone, SnapGone
<1>2. ASSUME NEW d \in Deamons, Serve(d) \/ Tick(d) \/ EndCheck(d) \/ RestartFails(d) PROVE TypeOK'
  <2>1. CASE Serve(d)
    BY <2>1 DEF Serve, TypeOK
  <2>2. CASE Tick(d)
    BY <2>2 DEF Tick, TypeOK
  <2>3. CASE EndCheck(d)
    BY <2>3 DEF EndCheck, TypeOK
  <2>4. CASE RestartFails(d)
    <3>1. work[d] \in Projects \cup {None}
      BY DEF TypeOK
    <3>2. /\ mounted' \subseteq Projects
          /\ pid' \in [Deamons -> [Projects -> {"none", "live", "gone"}]]
          /\ snap' \in [Deamons -> {"none", "live", "gone"}]
      BY <2>4, <3>1, <1>g DEF RestartFails, TypeOK
    <3> QED BY <2>4, <3>2 DEF RestartFails, TypeOK
  <2> QED BY <1>2, <2>1, <2>2, <2>3, <2>4
<1>3. ASSUME NEW d \in Deamons, NEW p \in Projects, Check(d, p) PROVE TypeOK'
  BY <1>3 DEF Check, TypeOK
<1>4. ASSUME NEW d \in Deamons, RestartOk(d) \/ RestartUnlisted(d) PROVE TypeOK'
  <2>1. /\ work[d] \in Projects /\ snap' = SnapGone(work[d])
        /\ pid' = Gone({work[d]}) \/ pid' = [Gone({work[d]}) EXCEPT ![d][work[d]] = "live"]
    BY <1>4 DEF RestartOk, RestartUnlisted, Restart, TypeOK
  <2>2. /\ pid' \in [Deamons -> [Projects -> {"none", "live", "gone"}]]
        /\ snap' \in [Deamons -> {"none", "live", "gone"}]
    <3> DEFINE g == Gone({work[d]})
    <3>1. g \in [Deamons -> [Projects -> {"none", "live", "gone"}]] /\ SnapGone(work[d]) \in [Deamons -> {"none", "live", "gone"}]
      BY <2>1, <1>g
    <3>2. pid' = g \/ pid' = [g EXCEPT ![d][work[d]] = "live"]
      BY <2>1
    <3> HIDE DEF g
    <3> QED BY <2>1, <3>1, <3>2
  <2> QED BY <1>4, <2>1, <2>2 DEF RestartOk, RestartUnlisted, Restart, TypeOK
<1>5. ASSUME NEW d \in Deamons, Crash(d) \/ Exit(d) PROVE TypeOK'
  <2>1. bounds' \in Bounds
    BY <1>5, <1>0, BoundsType DEF Crash, Exit
  <2> QED BY <1>5, <2>1, StopType DEF Crash, Exit
<1>6. ASSUME NEW d \in Deamons, Kill(d) PROVE TypeOK'
  <2>1. bounds' \in Bounds
    BY <1>6, <1>0, BoundsType DEF Kill
  <2> QED BY <1>6, <2>1 DEF Kill, TypeOK, Bounds
<1>7. ASSUME NEW p \in Projects, MountDies(p) PROVE TypeOK'
  <2>1. /\ bounds' = [bounds EXCEPT !.deaths = @ + 1] /\ bounds.deaths < MaxDeaths
        /\ mounted' = mounted \ {p} /\ pid' = Gone({p}) /\ snap' = SnapGone(p)
        /\ UNCHANGED <<loop, tree, todo, work, routes, killed, server, diskVars, cli, cleaned, missed, twice, unlisted>>
    BY <1>7 DEF MountDies
  <2>2. bounds' \in Bounds
    BY <2>1, <1>0, BoundsType
  <2>3. /\ pid' \in [Deamons -> [Projects -> {"none", "live", "gone"}]]
        /\ snap' \in [Deamons -> {"none", "live", "gone"}]
    BY <2>1 DEF TypeOK, Gone, SnapGone
  <2> QED BY <2>1, <2>2, <2>3 DEF TypeOK, Bounds
<1>8. ASSUME NEW p \in Projects, StartInstall(p) \/ StartClean(p) PROVE TypeOK'
  <2>1. bounds' = [bounds EXCEPT !.runs = @ + 1] /\ bounds.runs < MaxRuns
    BY <1>8 DEF StartInstall, StartClean, Start
  <2>2. bounds' \in Bounds
    BY <2>1, <1>0, BoundsType
  <2>3. \/ cli' = cli
        \/ \E l \in {"delete", "mount"}, g \in {"install", "clean"} :
             cli' = [cli EXCEPT ![p] = [pc |-> l, goal |-> g, target |-> None]]
    BY <1>8 DEF StartInstall, StartClean, Start
  <2>4. \A l \in {"delete", "mount"}, g \in {"install", "clean"} :
          [pc |-> l, goal |-> g, target |-> None] \in Commands
    BY DEF Commands, Pcs
  <2>5. cli \in [Projects -> Commands]
    BY DEF TypeOK, Commands, Pcs
  <2>6. cli' \in [Projects -> Commands] /\ Targeted'
    <3>1. CASE cli' = cli
      BY <2>5, <3>1 DEF TypeOK, Targeted
    <3>2. ASSUME NEW c \in Commands, c.pc # "deleting", cli' = [cli EXCEPT ![p] = c]
          PROVE  cli' \in [Projects -> Commands] /\ Targeted'
      BY <2>5, <3>2 DEF TypeOK, Targeted
    <3>3. ASSUME NEW l \in {"delete", "mount"}, NEW g \in {"install", "clean"}
          PROVE  [pc |-> l, goal |-> g, target |-> None].pc # "deleting"
      OBVIOUS
    <3> QED BY <2>3, <2>4, <3>1, <3>2, <3>3
  <2>7. /\ cleaned' \in [Projects -> {"no", "skipped", "full"}]
        /\ UNCHANGED <<deamonVars, diskVars, mounted, missed, twice, unlisted>>
    BY <1>8, SMTT(30) DEF StartInstall, StartClean, TypeOK
  <2> QED BY <2>2, <2>6, <2>7 DEF TypeOK, Bounds, Commands, Pcs, Targeted
<1>9. ASSUME NEW p \in Projects, RmMeta(p) PROVE TypeOK'
  <2> DEFINE f == meta[NameOf[p]]
             c == [cli[p] EXCEPT !.pc = IF f \in Projects THEN "deleting" ELSE "unmount",
                                 !.target = IF f \in Projects THEN f ELSE None]
  <2>1. /\ meta' = [meta EXCEPT ![NameOf[p]] = None] /\ cli' = [cli EXCEPT ![p] = c]
        /\ UNCHANGED <<deamonVars, base, mounted, cleaned, history>>
    BY <1>9 DEF RmMeta, TypeOK
  <2>2. cli \in [Projects -> Commands] /\ cli[p] \in Commands
    BY DEF TypeOK, Commands, Pcs
  <2>3. c \in Commands /\ (c.pc = "deleting" => c.target \in Projects)
    BY <2>2 DEF Commands, Pcs
  <2> HIDE DEF c
  <2>4. cli' \in [Projects -> Commands] /\ Targeted'
    BY <2>1, <2>2, <2>3 DEF TypeOK, Targeted
  <2> QED BY <2>1, <2>4 DEF TypeOK, Commands, Pcs, Targeted
\* Requests: what the client does is EndRequest or Goto.
<1>10. ASSUME NEW p \in Projects, EndRequest(p), UNCHANGED <<loop, todo, work, killed, server, diskVars, mounted, cleaned, twice, bounds>>,
              tree' \in [Deamons -> SUBSET Projects], pid' \in [Deamons -> [Projects -> {"none", "live", "gone"}]],
              routes' \in [Deamons -> Projects \cup {None, Killer}], snap' \in [Deamons -> {"none", "live", "gone"}],
              missed' \in BOOLEAN, unlisted' \in [Deamons -> SUBSET Projects]
       PROVE  TypeOK'
  <2>1. cli' \in [Projects -> Commands] /\ Targeted'
    BY <1>10, EndRequestType
  <2> QED BY <1>10, <2>1 DEF TypeOK, Commands, Pcs, Targeted
<1>11. ASSUME NEW d \in Deamons, NEW p \in Projects, HandleDel(d, p) PROVE TypeOK'
  BY <1>11, <1>10 DEF HandleDel, TypeOK
<1>12. ASSUME NEW d \in Deamons, NEW p \in Projects, Insert(d, p) PROVE TypeOK'
  BY <1>12, <1>10 DEF Insert, TypeOK
<1>20. ASSUME NEW d \in Deamons, NEW p \in Projects, AddFails(d, p) PROVE TypeOK'
  BY <1>20, <1>10 DEF AddFails, TypeOK
<1>13. ASSUME NEW p \in Projects, Refused(p) PROVE TypeOK'
  <2>1. missed' \in BOOLEAN
    BY <1>13 DEF Refused, TypeOK
  <2> QED BY <1>13, <2>1, <1>10 DEF Refused, TypeOK
<1>14. ASSUME NEW p \in Projects, GiveUp(p) PROVE TypeOK'
  BY <1>14, <1>10 DEF GiveUp, TypeOK
<1>15. ASSUME NEW d \in Deamons, NEW p \in Projects, HandleAdd(d, p) PROVE TypeOK'
  <2>1. cli' \in [Projects -> Commands] /\ Targeted'
    BY <1>15, GotoType DEF HandleAdd, Pcs
  <2> QED BY <1>15, <2>1 DEF HandleAdd, TypeOK, Commands, Pcs, Targeted, PidsNow
<1>16. ASSUME NEW p \in Projects, Unmount(p) \/ Mount(p) \/ TruncMeta(p) \/ WriteMeta(p) PROVE TypeOK'
  <2>1. PICK l \in Pcs \ {"deleting"} : Goto(p, l)
    BY <1>16 DEF Unmount, Mount, TruncMeta, WriteMeta, Pcs
  <2>2. cli' \in [Projects -> Commands] /\ Targeted'
    BY <2>1, GotoType
  <2>3. pid' \in [Deamons -> [Projects -> {"none", "live", "gone"}]]
    BY <1>16 DEF Unmount, Mount, TruncMeta, WriteMeta, TypeOK, Gone
  <2> QED BY <1>16, <2>2, <2>3, DeamonAssumption, SMTT(60)
          DEF Unmount, Mount, TruncMeta, WriteMeta, TypeOK, Commands, Pcs, Targeted
<1>17. ASSUME NEW p \in Projects, RmBase(p) PROVE TypeOK'
  <2>1. cli' \in [Projects -> Commands] /\ Targeted'
    <3>1. CASE Goto(p, "mount")
      BY <3>1, GotoType DEF Pcs
    <3>2. CASE cli' = [cli EXCEPT ![p] = Idle]
      BY <3>2, IdleType DEF TypeOK, Commands, Pcs, Targeted, Idle
    <3> QED BY <1>17, <3>1, <3>2 DEF RmBase
  <2> QED BY <1>17, <2>1 DEF RmBase, TypeOK, Commands, Pcs, Targeted
<1>18. ASSUME NEW d \in Deamons, NEW p \in Projects, KillPids(d, p) PROVE TypeOK'
  <2>1. bounds' \in Bounds
    BY <1>18, <1>0, BoundsType DEF KillPids
  <2>2. Gone({p}) \in [Deamons -> [Projects -> {"none", "live", "gone"}]]
    BY DEF TypeOK, Gone
  <2>3. /\ pid' \in [Deamons -> [Projects -> {"none", "live", "gone"}]]
        /\ snap' \in [Deamons -> {"none", "live", "gone"}]
    BY <1>18, <2>2 DEF KillPids, TypeOK, SnapGone
  <2> QED BY <1>18, <2>1, <2>3 DEF KillPids, TypeOK, Bounds
<1>19. CASE UNCHANGED vars
  BY <1>19 DEF vars, TypeOK
<1> QED BY <1>1, <1>2, <1>3, <1>4, <1>5, <1>6, <1>7, <1>8, <1>9, <1>11, <1>12, <1>13, <1>14,
           <1>15, <1>16, <1>17, <1>18, <1>19, <1>20 DEF Next, Main, Handle, Command

-----------------------------------------------------------------------------
(* What the deamon takes for mounted.                                      *)

\* The RouteState mutex is in the hands of a request that is being answered,
\* by one deamon only.
RoutesExact == \A d \in Deamons, p \in Projects : routes[d] = p =>
    cli[p].pc = "inserting" /\ \A e \in Deamons : routes[e] = p => e = d

\* handle_add has looked for the processes of the project it is about to insert.
SnapMounted == \A d \in Deamons : snap[d] = "live" => routes[d] \in mounted

LiveInv == LiveIsMounted /\ RoutesExact /\ SnapMounted

LEMMA InitLive == Init => LiveInv
<1> SUFFICES ASSUME Init PROVE LiveInv
  OBVIOUS
<1>1. \A d \in Deamons : routes[d] \notin Projects
  BY DeamonAssumption DEF Init
<1> QED BY InitType, <1>1 DEF Init, LiveInv, LiveIsMounted, RoutesExact, SnapMounted

LEMMA NextLive == LiveInv /\ [Next]_vars => LiveInv'
<1> SUFFICES ASSUME LiveInv, [Next]_vars PROVE LiveInv'
  OBVIOUS
<1>0. TypeOK /\ TypeOK'
  BY NextType DEF LiveInv, LiveIsMounted
<1> DEFINE Live == \A d \in Deamons, p \in Projects : pid[d][p] = "live" => p \in mounted
<1>q. None \notin Projects /\ Killer \notin Projects
  BY DeamonAssumption
<1> USE DEF deamonVars, diskVars, history, RoutesExact, SnapMounted
<1>u. Live /\ RoutesExact /\ SnapMounted
  BY DEF LiveInv, LiveIsMounted
<1>v. ASSUME Live', RoutesExact', SnapMounted' PROVE LiveInv'
  BY <1>0, <1>v DEF LiveInv, LiveIsMounted
\* The routes and what they lead to stay.
<1>w. ASSUME UNCHANGED <<routes, snap>>, mounted \subseteq mounted',
             \A p \in Projects : cli[p].pc = "inserting" => cli'[p].pc = "inserting"
      PROVE  RoutesExact' /\ SnapMounted'
  BY <1>w, <1>u
<1>1. ASSUME NEW d \in Deamons, Launch(d) PROVE LiveInv'
  <2>1. \A p \in Projects : PidsNow(p) = "live" => p \in mounted
    BY DEF PidsNow
  <2>2. Live'
    BY <1>1, <2>1, <1>u, <1>0 DEF Launch, TypeOK
  <2> QED BY <1>1, <2>2, <1>v, <1>w DEF Launch
<1>2. ASSUME NEW d \in Deamons, Serve(d) \/ Tick(d) \/ EndCheck(d) \/ \E p \in Projects : Check(d, p)
      PROVE  LiveInv'
  <2>1. UNCHANGED <<routes, snap, pid, mounted, cli>>
    BY <1>2 DEF Serve, Tick, EndCheck, Check
  <2> QED BY <2>1, <1>u, <1>v, <1>w
<1>3. ASSUME NEW d \in Deamons, RestartOk(d) \/ RestartUnlisted(d) PROVE LiveInv'
  <2>1. /\ mounted' = mounted \cup {work[d]} /\ snap' = SnapGone(work[d]) /\ UNCHANGED <<routes, cli>>
        /\ pid' = Gone({work[d]}) \/ pid' = [Gone({work[d]}) EXCEPT ![d][work[d]] = "live"]
    BY <1>3 DEF RestartOk, RestartUnlisted, Restart
  <2>2. \A e \in Deamons, q \in Projects : pid'[e][q] = "live" => q = work[d] \/ pid[e][q] = "live"
    <3> DEFINE g == Gone({work[d]})
    <3>1. /\ \A e \in Deamons, q \in Projects : g[e][q] = "live" => pid[e][q] = "live"
          /\ \A e \in Deamons : g[e] = [q \in Projects |-> g[e][q]]
          /\ g = [e \in Deamons |-> g[e]]
      BY DEF Gone
    <3>2. pid' = g \/ pid' = [g EXCEPT ![d][work[d]] = "live"]
      BY <2>1
    <3> HIDE DEF g
    <3> QED BY <3>1, <3>2
  <2>3. Live'
    BY <2>1, <2>2, <1>u
  <2>4. SnapMounted'
    BY <2>1, <1>u DEF SnapGone
  <2> QED BY <2>1, <2>3, <2>4, <1>u, <1>v
<1>4. ASSUME NEW d \in Deamons, Stop(d) PROVE LiveInv'
  <2>1. Live'
    BY <1>4, <1>0, <1>u DEF Stop, TypeOK
  <2>2. /\ routes' = [routes EXCEPT ![d] = None] /\ snap' = [snap EXCEPT ![d] = "none"]
        /\ cli' = [p \in Projects |-> IF routes[d] = p THEN Idle ELSE cli[p]] /\ mounted' = mounted
    BY <1>4 DEF Stop
  <2>3. SnapMounted'
    BY <2>2, <1>0, <1>u DEF TypeOK
  <2>4. RoutesExact'
    BY <2>2, <1>0, <1>u, <1>q DEF TypeOK
  <2> QED BY <2>1, <2>3, <2>4, <1>v
<1>5. ASSUME NEW d \in Deamons, Kill(d) PROVE LiveInv'
  <2>1. /\ routes' = [routes EXCEPT ![d] = IF killed[d] THEN Killer ELSE None]
        /\ UNCHANGED <<pid, mounted, cli, snap>> /\ routes[d] = None
    BY <1>5 DEF Kill
  <2>2. RoutesExact' /\ SnapMounted'
    BY <2>1, <1>0, <1>u, <1>q DEF TypeOK
  <2> QED BY <2>1, <2>2, <1>u, <1>v
\* A mount ends, and with it the pids known of it.
<1>m. ASSUME NEW p, mounted' = mounted \ {p}, pid' = Gone({p}), snap' = SnapGone(p), UNCHANGED <<routes, cli>>
      PROVE  LiveInv'
  <2>1. Live'
    BY <1>m, <1>u DEF Gone
  <2>2. SnapMounted'
    BY <1>m, <1>u DEF SnapGone
  <2> QED BY <1>m, <2>1, <2>2, <1>u, <1>v
<1>6. ASSUME NEW p \in Projects, MountDies(p) PROVE LiveInv'
  BY <1>6, <1>m DEF MountDies
<1>18. ASSUME NEW d \in Deamons, RestartFails(d) PROVE LiveInv'
  <2>1. CASE UNCHANGED <<mounted, pid, snap>>
    BY <2>1, <1>18, <1>u, <1>v, <1>w DEF RestartFails
  <2> QED BY <1>18, <2>1, <1>m DEF RestartFails
<1>7. ASSUME NEW p \in Projects, StartInstall(p) \/ StartClean(p) PROVE LiveInv'
  <2>1. UNCHANGED <<pid, routes, snap, mounted>>
    BY <1>7 DEF StartInstall, StartClean
  <2>2. \A q \in Projects : cli[q].pc = "inserting" => cli'[q] = cli[q]
    BY <1>7, <1>0 DEF StartInstall, StartClean, Start, TypeOK, Idle
  <2> QED BY <2>1, <2>2, <1>u, <1>v, <1>w
<1>8. ASSUME NEW p \in Projects, RmMeta(p) PROVE LiveInv'
  <2>1. UNCHANGED <<pid, routes, snap, mounted>> /\ cli[p].pc = "delete"
    BY <1>8 DEF RmMeta
  <2>2. \A q \in Projects : q # p => cli'[q] = cli[q]
    BY <1>8, <1>0 DEF RmMeta, TypeOK
  <2> QED BY <2>1, <2>2, <1>u, <1>v, <1>w
<1>9. ASSUME NEW d \in Deamons, NEW p \in Projects, HandleDel(d, p) PROVE LiveInv'
  <2>1. UNCHANGED <<pid, routes, snap, mounted>> /\ cli[p].pc = "deleting" /\ EndRequest(p)
    BY <1>9 DEF HandleDel
  <2> QED BY <2>1, <1>0, EndRequestType, <1>u, <1>v, <1>w
<1>19. ASSUME NEW d \in Deamons, NEW p \in Projects, AddFails(d, p) PROVE LiveInv'
  <2>1. UNCHANGED <<pid, routes, snap, mounted>> /\ cli[p].pc = "adding" /\ EndRequest(p)
    BY <1>19 DEF AddFails
  <2> QED BY <2>1, <1>0, EndRequestType, <1>u, <1>v, <1>w
<1>10. ASSUME NEW d \in Deamons, NEW p \in Projects, HandleAdd(d, p) PROVE LiveInv'
  <2>1. /\ cli[p].pc = "adding" /\ routes[d] = None
        /\ routes' = [routes EXCEPT ![d] = p] /\ snap' = [snap EXCEPT ![d] = PidsNow(p)]
        /\ Goto(p, "inserting") /\ UNCHANGED <<pid, mounted>>
    BY <1>10 DEF HandleAdd
  <2>2. cli'[p].pc = "inserting" /\ \A q \in Projects : q # p => cli'[q] = cli[q]
    BY <2>1, <1>0, GotoType DEF Pcs
  <2>3. \A e \in Deamons : routes[e] # p
    BY <2>1, <1>u
  <2>4. RoutesExact'
    BY <2>1, <2>2, <2>3, <1>u, <1>0 DEF TypeOK
  <2>5. SnapMounted'
    BY <2>1, <1>u, <1>0 DEF TypeOK, PidsNow
  <2> QED BY <2>1, <2>4, <2>5, <1>u, <1>v
<1>11. ASSUME NEW d \in Deamons, NEW p \in Projects, Insert(d, p) PROVE LiveInv'
  <2>1. /\ routes[d] = p /\ EndRequest(p) /\ mounted' = mounted
        /\ pid' = [pid EXCEPT ![d][p] = snap[d]]
        /\ routes' = [routes EXCEPT ![d] = None] /\ snap' = [snap EXCEPT ![d] = "none"]
    BY <1>11 DEF Insert
  <2>2. \A q \in Projects : q # p => cli'[q] = cli[q]
    BY <2>1, <1>0, EndRequestType
  <2>3. Live'
    BY <2>1, <1>u, <1>0 DEF TypeOK
  <2>4. RoutesExact'
    BY <2>1, <2>2, <1>u, <1>0, <1>q DEF TypeOK
  <2>5. SnapMounted'
    BY <2>1, <1>u, <1>0 DEF TypeOK
  <2> QED BY <2>3, <2>4, <2>5, <1>v
<1>12. ASSUME NEW p \in Projects, Refused(p) PROVE LiveInv'
  <2>1. UNCHANGED <<pid, routes, snap, mounted>> /\ cli[p].pc # "inserting" /\ EndRequest(p)
    BY <1>12 DEF Refused
  <2> QED BY <2>1, <1>0, EndRequestType, <1>u, <1>v, <1>w
<1>13. ASSUME NEW p \in Projects, GiveUp(p) PROVE LiveInv'
  <2>1. /\ routes' = [d \in Deamons |-> IF routes[d] = p THEN None ELSE routes[d]]
        /\ snap' = [d \in Deamons |-> IF routes[d] = p THEN "none" ELSE snap[d]]
        /\ EndRequest(p) /\ UNCHANGED <<pid, mounted>>
    BY <1>13 DEF GiveUp
  <2>2. \A q \in Projects : q # p => cli'[q] = cli[q]
    BY <2>1, <1>0, EndRequestType
  <2>3. RoutesExact' /\ SnapMounted'
    BY <2>1, <2>2, <1>u, <1>q
  <2> QED BY <2>1, <2>3, <1>u, <1>v
<1>14. ASSUME NEW p \in Projects, Unmount(p) PROVE LiveInv'
  <2>1. /\ cli[p].pc = "unmount" /\ Goto(p, "rm") /\ mounted' = mounted \ {p} /\ pid' = Gone({p})
        /\ UNCHANGED <<routes, snap>>
    BY <1>14 DEF Unmount
  <2>2. \A q \in Projects : q # p => cli'[q] = cli[q]
    BY <2>1, <1>0, GotoType DEF Pcs
  <2>3. Live'
    BY <2>1, <1>u DEF Gone
  <2>4. \A d \in Deamons : routes[d] # p
    BY <2>1, <1>u
  <2>5. RoutesExact' /\ SnapMounted'
    BY <2>1, <2>2, <2>4, <1>u
  <2> QED BY <2>3, <2>5, <1>v
<1>15. ASSUME NEW p \in Projects, RmBase(p) \/ Mount(p) \/ TruncMeta(p) \/ WriteMeta(p) PROVE LiveInv'
  <2>1. UNCHANGED <<pid, routes, snap>> /\ mounted \subseteq mounted' /\ cli[p].pc # "inserting"
    BY <1>15 DEF RmBase, Mount, TruncMeta, WriteMeta
  <2>2. \A q \in Projects : q # p => cli'[q] = cli[q]
    <3>1. ASSUME NEW l \in Pcs \ {"deleting"}, Goto(p, l) PROVE \A q \in Projects : q # p => cli'[q] = cli[q]
      BY <3>1, <1>0, GotoType
    <3>2. CASE cli' = [cli EXCEPT ![p] = Idle]
      BY <3>2, <1>0 DEF TypeOK
    <3> QED BY <1>15, <3>1, <3>2 DEF RmBase, Mount, TruncMeta, WriteMeta, Pcs
  <2> QED BY <2>1, <2>2, <1>u, <1>v, <1>w
<1>16. ASSUME NEW d \in Deamons, NEW p \in Projects, KillPids(d, p) PROVE LiveInv'
  <2>1. /\ mounted' = mounted \ {p} /\ snap' = SnapGone(p) /\ UNCHANGED <<routes, cli>>
        /\ pid' = [Gone({p}) EXCEPT ![d][p] = "none"]
    BY <1>16 DEF KillPids
  <2>2. \A e \in Deamons, q \in Projects : pid'[e][q] = "live" => q # p /\ pid[e][q] = "live"
    BY <2>1 DEF Gone
  <2>3. Live'
    BY <2>1, <2>2, <1>u
  <2>4. SnapMounted'
    BY <2>1, <1>u DEF SnapGone
  <2> QED BY <2>1, <2>3, <2>4, <1>u, <1>v
<1>17. CASE UNCHANGED vars
  BY <1>17, <1>u, <1>v, <1>w DEF vars
<1> QED BY <1>1, <1>2, <1>3, <1>4, <1>5, <1>6, <1>7, <1>8, <1>9, <1>10, <1>11, <1>12, <1>13, <1>14,
           <1>15, <1>16, <1>17, <1>18, <1>19 DEF Next, Main, Handle, Command, Crash, Exit

(* The pids a deamon takes for live are those of a mount, whoever dies,    *)
(* unmounts, or stops meanwhile (config.rs check, server.rs handle_add).   *)
THEOREM LivePidsAreMounts == Spec => []LiveIsMounted
<1>1. LiveInv => LiveIsMounted
  BY DEF LiveInv
<1> QED BY InitLive, NextLive, <1>1, PTL DEF Spec

-----------------------------------------------------------------------------
(* What the map and the metadata files say of each other.                  *)

\* The main loop holds the map's mutex while it checks and restarts.
LoopInv == \A d \in Deamons :
    /\ loop[d] = "down" => tree[d] = {}
    /\ loop[d] # "checking" => work[d] = None
    /\ loop[d] = "checking" => todo[d] \subseteq tree[d] /\ work[d] \in tree[d] \cup {None}
    /\ server = d => Up(d)

\* Without a second deamon, the one that is up is at the socket.
OneDeamon == ~twice => \A d, e \in Deamons :
    /\ loop[d] # "down" /\ loop[e] # "down" => d = e
    /\ Up(d) => server = d

CommandInv == \A p \in Projects :
    /\ cli[p].pc = "mount" => cli[p].goal = "install"
    /\ cli[p].goal = "install" => cleaned[p] = "no"
    /\ cli[p].pc = "deleting" => NameOf[cli[p].target] = NameOf[p]
    /\ cleaned[p] = "full" => p \notin base

NamesInv == \A n \in Names : meta[n] \in Projects => NameOf[meta[n]] = n

\* What a command has made of the metadata file of its project.
FileInv == \A p \in Projects : Alone(p) =>
    /\ cli[p].pc \in {"deleting", "unmount", "rm"} => meta[NameOf[p]] = None
    /\ cli[p].pc \in {"adding", "inserting"} => meta[NameOf[p]] = p

\* A project is in the map if it has a metadata file, unless a command is
\* about to say so, or its processes could not be listed.
MapInv == Calm => \A p \in Projects, d \in Deamons : Alone(p) =>
    /\ p \in tree[d] => meta[NameOf[p]] = p \/ cli[p].pc \in {"deleting", "writing"}
    /\ loop[d] # "down" /\ meta[NameOf[p]] = p
         => p \in tree[d] \/ cli[p].pc \in {"adding", "inserting"} \/ p \in unlisted[d]

\* What clean has unmounted.
CleanInv == Calm => \A p \in Projects :
    Alone(p) /\ (cli[p].pc = "rm" \/ cleaned[p] = "full") => p \notin mounted

MetaInv == LoopInv /\ OneDeamon /\ CommandInv /\ NamesInv /\ FileInv /\ MapInv /\ CleanInv

LEMMA InitMeta == Init => MetaInv
<1> SUFFICES ASSUME Init PROVE MetaInv
  OBVIOUS
<1>1. \A p \in Projects : cli[p].pc = "idle" /\ cli[p].goal = "none" /\ cleaned[p] = "no" /\ NameOf[p] \in Names
  BY DeamonAssumption DEF Init, Idle
<1>2. \A d \in Deamons : loop[d] = "down" /\ server # d /\ tree[d] = {} /\ work[d] = None
  BY DeamonAssumption DEF Init
<1>3. \A n \in Names : meta[n] = None
  BY DEF Init
<1>4. LoopInv /\ OneDeamon
  BY <1>2 DEF LoopInv, OneDeamon, Up
<1>5. CommandInv /\ NamesInv /\ FileInv
  BY <1>1, <1>3, DeamonAssumption DEF CommandInv, NamesInv, FileInv
<1>6. MapInv /\ CleanInv
  BY <1>1, <1>2 DEF MapInv, CleanInv
<1> QED BY <1>4, <1>5, <1>6 DEF MetaInv

\* How the command on p goes on.
Others(p) == \A q \in Projects : q # p => cli'[q] = cli[q]
Moves(p, l) == cli'[p].pc = l /\ cli'[p].goal = cli[p].goal /\ Others(p)
Ends(p) == cli'[p] = Idle /\ Others(p)
Answered(p) ==
    \/ cli[p].pc = "deleting" /\ Moves(p, "unmount")
    \/ cli[p].pc \in {"adding", "inserting"} /\ Ends(p)

LEMMA CommandMoves ==
    ASSUME LiveInv, NEW p \in Projects
    PROVE  /\ StartInstall(p) => /\ cli[p] = Idle /\ cli'[p].goal = "install" /\ Others(p)
                                 /\ cli'[p].pc \in {"delete", "mount"}
           /\ StartClean(p) => /\ cli[p] = Idle /\ Others(p)
                               /\ (cli' = cli \/ (cli'[p].pc = "delete" /\ cli'[p].goal = "clean"))
           /\ RmMeta(p) => /\ cli[p].pc = "delete"
                           /\ \/ meta[NameOf[p]] \in Projects /\ Moves(p, "deleting")
                                 /\ cli'[p].target = meta[NameOf[p]]
                              \/ meta[NameOf[p]] \notin Projects /\ Moves(p, "unmount")
           /\ Unmount(p) => cli[p].pc = "unmount" /\ Moves(p, "rm")
           /\ RmBase(p) => /\ cli[p].pc = "rm"
                           /\ \/ cli[p].goal = "install" /\ Moves(p, "mount")
                              \/ cli[p].goal = "clean" /\ Ends(p)
           /\ Mount(p) => cli[p].pc = "mount" /\ Moves(p, "write")
           /\ TruncMeta(p) => cli[p].pc = "write" /\ Moves(p, "writing")
           /\ WriteMeta(p) => cli[p].pc = "writing" /\ Moves(p, "adding")
           /\ Refused(p) \/ GiveUp(p) => Answered(p)
           /\ \A d \in Deamons :
                /\ HandleDel(d, p) => cli[p].pc = "deleting" /\ Moves(p, "unmount")
                /\ HandleAdd(d, p) => cli[p].pc = "adding" /\ Moves(p, "inserting")
                /\ Insert(d, p) => cli[p].pc = "inserting" /\ Ends(p)
                /\ AddFails(d, p) => cli[p].pc = "adding" /\ Ends(p)
<1>0. TypeOK /\ RoutesExact /\ cli \in [Projects -> Commands] /\ cli[p] \in Commands
  BY DEF LiveInv, LiveIsMounted, TypeOK, Commands, Pcs
<1>1. ASSUME NEW l \in Pcs \ {"deleting"}, Goto(p, l) PROVE Moves(p, l)
  BY <1>0, <1>1, GotoType DEF Moves, Others
<1>2. ASSUME EndRequest(p), cli[p].pc \in {"deleting", "adding", "inserting"} PROVE Answered(p)
  BY <1>0, <1>2, EndRequestType DEF Answered, Moves, Ends, Others
<1>3. ASSUME NEW c, cli' = [cli EXCEPT ![p] = c] PROVE cli'[p] = c /\ Others(p)
  BY <1>0, <1>3 DEF Others
<1>4. ASSUME NEW g, NEW l, Start(p, g, l) PROVE cli[p] = Idle /\ cli'[p].goal = g /\ cli'[p].pc = l /\ Others(p)
  BY <1>3, <1>4 DEF Start
<1>5. StartInstall(p) => /\ cli[p] = Idle /\ cli'[p].goal = "install" /\ Others(p)
                         /\ cli'[p].pc \in {"delete", "mount"}
  BY <1>4 DEF StartInstall
<1>6. StartClean(p) => /\ cli[p] = Idle /\ Others(p)
                       /\ (cli' = cli \/ (cli'[p].pc = "delete" /\ cli'[p].goal = "clean"))
  <2>1. CASE Start(p, "clean", "delete")
    BY <1>4, <2>1
  <2>2. CASE cli[p] = Idle /\ cli' = cli
    BY <2>2 DEF Others
  <2> QED BY <2>1, <2>2 DEF StartClean
<1>7. ASSUME RmMeta(p)
      PROVE  /\ cli[p].pc = "delete"
             /\ \/ meta[NameOf[p]] \in Projects /\ Moves(p, "deleting") /\ cli'[p].target = meta[NameOf[p]]
                \/ meta[NameOf[p]] \notin Projects /\ Moves(p, "unmount")
  <2> DEFINE f == meta[NameOf[p]]
             c == [cli[p] EXCEPT !.pc = IF f \in Projects THEN "deleting" ELSE "unmount",
                                 !.target = IF f \in Projects THEN f ELSE None]
  <2>1. cli' = [cli EXCEPT ![p] = c] /\ cli[p].pc = "delete"
    BY <1>7, <1>0 DEF RmMeta
  <2>2. /\ c.goal = cli[p].goal
        /\ c.pc = IF f \in Projects THEN "deleting" ELSE "unmount"
        /\ c.target = IF f \in Projects THEN f ELSE None
    BY <1>0 DEF Commands
  <2> HIDE DEF c
  <2> QED BY <2>1, <2>2, <1>3 DEF Moves
<1>8. /\ Unmount(p) => cli[p].pc = "unmount" /\ Moves(p, "rm")
      /\ Mount(p) => cli[p].pc = "mount" /\ Moves(p, "write")
      /\ TruncMeta(p) => cli[p].pc = "write" /\ Moves(p, "writing")
      /\ WriteMeta(p) => cli[p].pc = "writing" /\ Moves(p, "adding")
  BY <1>1 DEF Unmount, Mount, TruncMeta, WriteMeta, Pcs
<1>9. RmBase(p) => /\ cli[p].pc = "rm"
                   /\ \/ cli[p].goal = "install" /\ Moves(p, "mount")
                      \/ cli[p].goal = "clean" /\ Ends(p)
  BY <1>1, <1>3 DEF RmBase, Pcs, Ends
<1>10. Refused(p) \/ GiveUp(p) => Answered(p)
  <2>1. ASSUME NEW d \in Deamons, routes[d] = p PROVE cli[p].pc = "inserting"
    BY <1>0, <2>1 DEF RoutesExact
  <2> QED BY <1>2, <2>1 DEF Refused, GiveUp
<1>11. ASSUME NEW d \in Deamons
       PROVE  /\ HandleDel(d, p) => cli[p].pc = "deleting" /\ Moves(p, "unmount")
              /\ HandleAdd(d, p) => cli[p].pc = "adding" /\ Moves(p, "inserting")
              /\ Insert(d, p) => cli[p].pc = "inserting" /\ Ends(p)
              /\ AddFails(d, p) => cli[p].pc = "adding" /\ Ends(p)
  <2>1. HandleDel(d, p) => cli[p].pc = "deleting" /\ Moves(p, "unmount")
    BY <1>2 DEF HandleDel, Answered
  <2>2. HandleAdd(d, p) => cli[p].pc = "adding" /\ Moves(p, "inserting")
    BY <1>1 DEF HandleAdd, Pcs
  <2>3. Insert(d, p) => cli[p].pc = "inserting"
    BY <1>0 DEF Insert, RoutesExact
  <2>4. Insert(d, p) => Ends(p)
    BY <1>2, <2>3 DEF Insert, Answered
  <2>5. AddFails(d, p) => cli[p].pc = "adding" /\ Ends(p)
    BY <1>2 DEF AddFails, Answered
  <2> QED BY <2>1, <2>2, <2>3, <2>4, <2>5
<1> QED BY <1>5, <1>6, <1>7, <1>8, <1>9, <1>10, <1>11

LEMMA NextLoop == TypeOK /\ LoopInv /\ OneDeamon /\ [Next]_vars => LoopInv' /\ OneDeamon'
<1> SUFFICES ASSUME TypeOK, LoopInv, OneDeamon, [Next]_vars PROVE LoopInv' /\ OneDeamon'
  OBVIOUS
<1> USE DEF deamonVars, LoopInv, OneDeamon, Up
<1>q. None \notin Deamons
  BY DeamonAssumption
<1>1. ASSUME NEW d \in Deamons, Launch(d) PROVE LoopInv' /\ OneDeamon'
  <2>1. LoopInv'
    BY <1>1 DEF Launch, TypeOK
  <2>2. ~twice' => \A c \in Deamons : c # d => loop'[c] = "down"
    BY <1>1 DEF Launch, TypeOK
  <2>3. loop'[d] = "loading"
    BY <1>1 DEF Launch, TypeOK
  <2> QED BY <2>1, <2>2, <2>3
<1>2. ASSUME NEW d \in Deamons, Serve(d) PROVE LoopInv' /\ OneDeamon'
  <2>1. /\ loop[d] = "loading" /\ loop' = [loop EXCEPT ![d] = "sleeping"] /\ server' = d
        /\ UNCHANGED <<tree, todo, work, twice>>
    BY <1>2 DEF Serve, history
  <2>2. LoopInv'
    BY <2>1 DEF TypeOK
  <2> QED BY <2>1, <2>2 DEF TypeOK
<1>3. ASSUME NEW d \in Deamons, Tick(d) \/ EndCheck(d) PROVE LoopInv' /\ OneDeamon'
  BY <1>3 DEF Tick, EndCheck, TypeOK, history
<1>4. ASSUME NEW d \in Deamons,
             RestartFails(d) \/ RestartOk(d) \/ RestartUnlisted(d) \/ \E p \in Projects : Check(d, p) \/ KillPids(d, p)
      PROVE  LoopInv' /\ OneDeamon'
  <2>1. UNCHANGED <<loop, tree, server, twice>>
    BY <1>4 DEF RestartFails, RestartOk, RestartUnlisted, Restart, Check, KillPids, history
  <2>2. CASE RestartFails(d) \/ RestartOk(d) \/ RestartUnlisted(d)
    BY <2>1, <2>2 DEF RestartFails, RestartOk, RestartUnlisted, Restart, TypeOK
  <2>3. CASE \E p \in Projects : Check(d, p) \/ KillPids(d, p)
    BY <2>1, <2>3 DEF Check, KillPids, TypeOK
  <2> QED BY <1>4, <2>2, <2>3
<1>5. ASSUME NEW d \in Deamons, Stop(d) PROVE LoopInv' /\ OneDeamon'
  BY <1>5, <1>q DEF Stop, TypeOK
<1>6. ASSUME NEW d \in Deamons, NEW p \in Projects, HandleDel(d, p) \/ Insert(d, p)
      PROVE  LoopInv' /\ OneDeamon'
  <2>1. UNCHANGED <<loop, todo, work, server, twice>> /\ loop[d] \in {"sleeping"}
    BY <1>6 DEF HandleDel, Insert, MapFree, TypeOK, history
  <2>2. \A e \in Deamons : e # d => tree'[e] = tree[e]
    BY <1>6 DEF HandleDel, Insert, TypeOK
  <2> QED BY <2>1, <2>2
<1>7. ASSUME UNCHANGED <<loop, tree, todo, work, server, twice>> PROVE LoopInv' /\ OneDeamon'
  BY <1>7
<1>8. ASSUME NEW p \in Projects, Command(p) \/ StartInstall(p) \/ StartClean(p) \/ GiveUp(p) \/ MountDies(p)
                                  \/ \E d \in Deamons : HandleAdd(d, p) \/ AddFails(d, p)
      PROVE  LoopInv' /\ OneDeamon'
  <2>1. CASE Command(p)
    BY <2>1, <1>7 DEF Command, Refused, RmMeta, Unmount, RmBase, Mount, TruncMeta, WriteMeta, history
  <2>2. CASE StartInstall(p) \/ StartClean(p) \/ GiveUp(p) \/ MountDies(p)
    BY <2>2, <1>7 DEF StartInstall, StartClean, GiveUp, MountDies, history
  <2>3. CASE \E d \in Deamons : HandleAdd(d, p) \/ AddFails(d, p)
    BY <2>3, <1>7 DEF HandleAdd, AddFails, history
  <2> QED BY <1>8, <2>1, <2>2, <2>3
<1>9. ASSUME NEW d \in Deamons, Kill(d) PROVE LoopInv' /\ OneDeamon'
  BY <1>9, <1>7 DEF Kill
<1>10. CASE UNCHANGED vars
  BY <1>10, <1>7 DEF vars, history
<1> QED BY <1>1, <1>2, <1>3, <1>4, <1>5, <1>6, <1>8, <1>9, <1>10 DEF Next, Main, Handle, Crash, Exit

\* Only a request, a command or the end of a deamon changes what commands are at.
LEMMA OthersKeepCommands ==
    ASSUME [Next]_vars,
           ~\E d \in Deamons : Stop(d),
           ~\E p \in Projects : Command(p) \/ StartInstall(p) \/ StartClean(p) \/ GiveUp(p)
                                  \/ \E d \in Deamons : Handle(d, p)
    PROVE  cli' = cli /\ meta' = meta /\ base' = base /\ cleaned' = cleaned
<1> USE DEF diskVars
<1>1. ASSUME NEW d \in Deamons,
             Main(d) \/ RestartOk(d) \/ RestartUnlisted(d) \/ Launch(d) \/ Kill(d) \/ \E p \in Projects : KillPids(d, p)
      PROVE  cli' = cli /\ meta' = meta /\ base' = base /\ cleaned' = cleaned
  BY <1>1 DEF Main, Serve, Tick, EndCheck, RestartFails, Check, RestartOk, RestartUnlisted, Restart, Launch, Kill, KillPids
<1>2. ASSUME NEW p \in Projects, MountDies(p)
      PROVE  cli' = cli /\ meta' = meta /\ base' = base /\ cleaned' = cleaned
  BY <1>2 DEF MountDies
<1> QED BY <1>1, <1>2 DEF Next, Crash, Exit, vars

LEMMA NextCommand == LiveInv /\ CommandInv /\ NamesInv /\ FileInv /\ [Next]_vars => CommandInv' /\ NamesInv' /\ FileInv'
<1> SUFFICES ASSUME LiveInv, CommandInv, NamesInv, FileInv, [Next]_vars
             PROVE  CommandInv' /\ NamesInv' /\ FileInv'
  OBVIOUS
<1>0. TypeOK
  BY DEF LiveInv, LiveIsMounted
<1> USE DEF Alone, diskVars
<1>n. \A p \in Projects : NameOf[p] \in Names /\ None # p /\ Torn # p
  BY DeamonAssumption
<1>1. ASSUME NEW p \in Projects, StartInstall(p) \/ StartClean(p)
      PROVE  CommandInv' /\ NamesInv' /\ FileInv'
  <2>1. meta' = meta /\ base' = base /\ cli[p] = Idle /\ Others(p)
    BY <1>1, CommandMoves DEF StartInstall, StartClean
  <2>2. CASE StartInstall(p)
    <3>1. cleaned' = [cleaned EXCEPT ![p] = "no"] /\ cli'[p].pc \in {"delete", "mount"} /\ cli'[p].goal = "install"
      BY <2>2, CommandMoves DEF StartInstall
    <3> QED BY <2>1, <3>1, <1>0, SMTT(60) DEF CommandInv, NamesInv, FileInv, Others, TypeOK
  <2>3. CASE StartClean(p)
    <3>1. /\ cli' = cli \/ (cli'[p].pc = "delete" /\ cli'[p].goal = "clean")
          /\ cleaned' = cleaned \/ (cleaned' = [cleaned EXCEPT ![p] = "skipped"] /\ cli' = cli)
      BY <2>3, CommandMoves DEF StartClean
    <3>2. cli[p].goal # "install" /\ cli[p].pc = "idle"
      BY <2>1 DEF Idle
    <3>3. \A q \in Projects : cleaned'[q] = cleaned[q] \/ (q = p /\ cleaned'[q] = "skipped" /\ cli'[q] = cli[q])
      BY <3>1, <1>0 DEF TypeOK
    <3>4. CommandInv'
      BY <2>1, <3>1, <3>2, <3>3 DEF CommandInv, Others
    <3>5. NamesInv' /\ FileInv'
      BY <2>1, <3>1, <3>2 DEF NamesInv, FileInv, Others
    <3> QED BY <3>4, <3>5
  <2> QED BY <1>1, <2>2, <2>3
<1>2. ASSUME NEW p \in Projects, RmMeta(p) PROVE CommandInv' /\ NamesInv' /\ FileInv'
  <2>1. meta' = [meta EXCEPT ![NameOf[p]] = None] /\ base' = base /\ cleaned' = cleaned
    BY <1>2 DEF RmMeta
  <2>2. /\ cli[p].pc = "delete" /\ Others(p) /\ cli'[p].goal = cli[p].goal
        /\ \/ cli'[p].pc = "unmount"
           \/ cli'[p].pc = "deleting" /\ cli'[p].target = meta[NameOf[p]] /\ meta[NameOf[p]] \in Projects
    BY <1>2, CommandMoves DEF Moves
  <2>3. CommandInv'
    BY <2>1, <2>2, <1>n DEF CommandInv, NamesInv, Others
  <2>4. NamesInv' /\ FileInv'
    BY <2>1, <2>2, <1>n, <1>0 DEF NamesInv, FileInv, Others, TypeOK
  <2> QED BY <2>3, <2>4
<1>3. ASSUME NEW p \in Projects, TruncMeta(p) \/ WriteMeta(p) PROVE CommandInv' /\ NamesInv' /\ FileInv'
  <2>1. /\ base' = base /\ cleaned' = cleaned
        /\ \/ cli'[p].pc = "writing" /\ meta' = [meta EXCEPT ![NameOf[p]] = Torn]
           \/ cli'[p].pc = "adding" /\ meta' = [meta EXCEPT ![NameOf[p]] = p]
        /\ cli'[p].goal = cli[p].goal /\ Others(p)
    BY <1>3, CommandMoves DEF Moves, TruncMeta, WriteMeta
  <2>2. CommandInv'
    BY <2>1 DEF CommandInv, Others
  <2>3. NamesInv'
    BY <2>1, <1>n, <1>0, DeamonAssumption, SMTT(30) DEF NamesInv, TypeOK
  <2>4. FileInv'
    <3>1. \A q \in Projects : q # p /\ Alone(q) => cli'[q] = cli[q] /\ meta'[NameOf[q]] = meta[NameOf[q]]
      BY <2>1, <1>n, <1>0 DEF Others, TypeOK
    <3>2. cli'[p].pc = "writing" \/ (cli'[p].pc = "adding" /\ meta'[NameOf[p]] = p)
      BY <2>1, <1>n, <1>0 DEF TypeOK
    <3> QED BY <3>1, <3>2 DEF FileInv
  <2> QED BY <2>2, <2>3, <2>4
\* The other moves leave the files as they are.
<1>4. ASSUME NEW p \in Projects, Moves(p, "unmount"), cli[p].pc = "deleting", UNCHANGED <<meta, base, cleaned>>
      PROVE  CommandInv' /\ NamesInv' /\ FileInv'
  BY <1>4 DEF CommandInv, NamesInv, FileInv, Moves, Others
<1>5. ASSUME NEW p \in Projects, Moves(p, "inserting"), cli[p].pc = "adding", UNCHANGED <<meta, base, cleaned>>
      PROVE  CommandInv' /\ NamesInv' /\ FileInv'
  BY <1>5 DEF CommandInv, NamesInv, FileInv, Moves, Others
<1>6. ASSUME NEW p \in Projects, Ends(p), UNCHANGED <<meta, base, cleaned>>
      PROVE  CommandInv' /\ NamesInv' /\ FileInv'
  BY <1>6 DEF CommandInv, NamesInv, FileInv, Ends, Others, Idle
<1>7. ASSUME NEW p \in Projects, Refused(p) \/ GiveUp(p) PROVE CommandInv' /\ NamesInv' /\ FileInv'
  <2>1. UNCHANGED <<meta, base, cleaned>> /\ Answered(p)
    BY <1>7, CommandMoves DEF Refused, GiveUp
  <2> QED BY <2>1, <1>4, <1>6 DEF Answered
<1>8. ASSUME NEW p \in Projects, NEW d \in Deamons, Handle(d, p) PROVE CommandInv' /\ NamesInv' /\ FileInv'
  <2>1. UNCHANGED <<meta, base, cleaned>>
    BY <1>8 DEF Handle, HandleDel, HandleAdd, AddFails, Insert
  <2> QED BY <1>8, <2>1, <1>4, <1>5, <1>6, CommandMoves DEF Handle
<1>9. ASSUME NEW p \in Projects, Unmount(p) \/ Mount(p) \/ RmBase(p) PROVE CommandInv' /\ NamesInv' /\ FileInv'
  <2>1. CASE Unmount(p)
    <3>1. cli[p].pc = "unmount" /\ Moves(p, "rm") /\ UNCHANGED <<meta, base, cleaned>>
      BY <2>1, CommandMoves DEF Unmount
    <3> QED BY <3>1 DEF CommandInv, NamesInv, FileInv, Moves, Others
  <2>2. CASE Mount(p)
    <3>1. cli[p].pc = "mount" /\ Moves(p, "write") /\ UNCHANGED <<meta, cleaned>> /\ base' = base \cup {p}
      BY <2>2, CommandMoves DEF Mount
    <3>2. cleaned[p] = "no"
      BY <3>1 DEF CommandInv
    <3> QED BY <3>1, <3>2 DEF CommandInv, NamesInv, FileInv, Moves, Others
  <2>3. CASE RmBase(p)
    <3>1. cli[p].pc = "rm" /\ meta' = meta /\ base' = base \ {p}
      BY <2>3 DEF RmBase
    <3>2. CASE cli[p].goal = "install" /\ Moves(p, "mount")
      <4>1. cleaned' = cleaned
        BY <2>3, <3>2 DEF RmBase
      <4> QED BY <3>1, <3>2, <4>1 DEF CommandInv, NamesInv, FileInv, Moves, Others
    <3>3. CASE cli[p].goal = "clean" /\ Ends(p)
      <4>1. cleaned' = [cleaned EXCEPT ![p] = "full"]
        BY <2>3, <3>3 DEF RmBase
      <4>2. cli'[p].pc = "idle" /\ cli'[p].goal = "none" /\ \A q \in Projects : q # p => cli'[q] = cli[q]
        BY <3>3 DEF Ends, Others, Idle
      <4>3. \A q \in Projects : q # p => cleaned'[q] = cleaned[q]
        BY <4>1, <1>0 DEF TypeOK
      <4> QED BY <3>1, <4>2, <4>3 DEF CommandInv, NamesInv, FileInv
    <3> QED BY <2>3, <3>2, <3>3, CommandMoves
  <2> QED BY <1>9, <2>1, <2>2, <2>3
<1>10. ASSUME NEW d \in Deamons, Stop(d) PROVE CommandInv' /\ NamesInv' /\ FileInv'
  <2>1. UNCHANGED <<meta, base, cleaned>> /\ \A q \in Projects : cli'[q] = cli[q] \/ cli'[q] = Idle
    BY <1>10 DEF Stop
  <2> QED BY <2>1 DEF CommandInv, NamesInv, FileInv, Idle
<1>11. ASSUME UNCHANGED <<cli, meta, base, cleaned>> PROVE CommandInv' /\ NamesInv' /\ FileInv'
  BY <1>11 DEF CommandInv, NamesInv, FileInv
<1> QED BY <1>1, <1>2, <1>3, <1>7, <1>8, <1>9, <1>10, <1>11, OthersKeepCommands DEF Command

LEMMA CalmBefore == TypeOK /\ [Next]_vars /\ Calm' => Calm
<1> SUFFICES ASSUME TypeOK, [Next]_vars, Calm' PROVE Calm
  OBVIOUS
<1> USE DEF Calm, history
<1>1. ASSUME NEW d \in Deamons, Main(d) \/ RestartOk(d) \/ RestartUnlisted(d) \/ Launch(d) \/ Kill(d) \/ Stop(d) PROVE Calm
  BY <1>1 DEF Main, Serve, Tick, EndCheck, RestartFails, Check, RestartOk, RestartUnlisted, Restart, Launch, Kill, Stop, TypeOK
<1>2. ASSUME NEW p \in Projects, NEW d \in Deamons, Handle(d, p) PROVE Calm
  BY <1>2 DEF Handle, HandleDel, HandleAdd, AddFails, Insert
<1>3. ASSUME NEW p \in Projects, Command(p) \/ GiveUp(p) PROVE Calm
  BY <1>3 DEF Command, Refused, GiveUp, RmMeta, Unmount, RmBase, Mount, TruncMeta, WriteMeta, TypeOK
<1>4. ASSUME NEW p \in Projects, StartInstall(p) \/ StartClean(p) \/ MountDies(p)
                                  \/ \E d \in Deamons : KillPids(d, p)
      PROVE  Calm
  BY <1>4 DEF StartInstall, StartClean, MountDies, KillPids
<1> QED BY <1>1, <1>2, <1>3, <1>4 DEF Next, Crash, Exit, vars

LEMMA NextMap == LiveInv /\ MetaInv /\ [Next]_vars => MapInv'
<1> SUFFICES ASSUME LiveInv, MetaInv, [Next]_vars, Calm' PROVE MapInv'
  BY DEF MapInv
<1>0. TypeOK
  BY DEF LiveInv, LiveIsMounted
<1>c. Calm
  BY <1>0, CalmBefore
<1>i. /\ LoopInv /\ OneDeamon /\ CommandInv /\ NamesInv /\ FileInv
      /\ \A p \in Projects, d \in Deamons : Alone(p) =>
           /\ p \in tree[d] => meta[NameOf[p]] = p \/ cli[p].pc \in {"deleting", "writing"}
           /\ loop[d] # "down" /\ meta[NameOf[p]] = p
                => p \in tree[d] \/ cli[p].pc \in {"adding", "inserting"} \/ p \in unlisted[d]
  BY <1>c DEF MetaInv, MapInv
<1>n. \A p \in Projects : NameOf[p] \in Names /\ None # p /\ Torn # p
  BY DeamonAssumption
<1> USE DEF deamonVars, diskVars, history
<1>1. ASSUME NEW d \in Deamons, Launch(d) PROVE MapInv'
  <2>1. /\ meta' = meta /\ cli' = cli /\ loop' = [loop EXCEPT ![d] = "loading"]
        /\ \E S \in SUBSET Restored : tree'[d] = Restored \ S /\ unlisted'[d] = S
        /\ \A e \in Deamons : e # d => tree'[e] = tree[e] /\ unlisted'[e] = unlisted[e]
    BY <1>1, <1>0 DEF Launch, TypeOK
  <2>2. \A e \in Deamons : e # d => loop'[e] = loop[e]
    BY <2>1, <1>0 DEF TypeOK
  <2>3. ASSUME NEW p \in Projects, Alone(p) 
        PROVE  /\ p \in tree'[d] => meta[NameOf[p]] = p
               /\ meta[NameOf[p]] = p => p \in tree'[d] \cup unlisted'[d]
    <3>1. ASSUME NEW n \in Names, meta[n] = p PROVE n = NameOf[p]
      BY <3>1, <1>i DEF NamesInv
    <3>2. p \in Restored <=> meta[NameOf[p]] = p
      BY <3>1, <1>n DEF Restored
    <3> QED BY <2>1, <3>2
  <2> QED BY <2>1, <2>2, <2>3, <1>i DEF MapInv, Alone
\* The map, the files, who is up and what commands are at: nothing changes.
<1>2. ASSUME UNCHANGED <<tree, meta, cli, unlisted>>, \A d \in Deamons : loop[d] = "down" => loop'[d] = "down"
      PROVE  MapInv'
  BY <1>2, <1>i DEF MapInv, Alone
<1>3. ASSUME NEW d \in Deamons, Main(d) \/ RestartOk(d) \/ RestartUnlisted(d) \/ Kill(d) PROVE MapInv'
  <2>1. UNCHANGED <<tree, meta, cli, unlisted>>
    BY <1>3 DEF Main, Serve, Tick, EndCheck, RestartFails, Check, RestartOk, RestartUnlisted, Restart, Kill
  <2>2. \/ loop' = loop
        \/ loop[d] # "down" /\ \E l : loop' = [loop EXCEPT ![d] = l]
    BY <1>3 DEF Main, Serve, Tick, EndCheck, RestartFails, Check, RestartOk, RestartUnlisted, Restart, Kill
  <2> QED BY <2>1, <2>2, <1>2, <1>0 DEF TypeOK
<1>4. ASSUME NEW d \in Deamons, Crash(d) \/ Exit(d) PROVE MapInv'
  <2>1. \A e \in Deamons : e # d => loop[e] = "down" /\ tree[e] = {}
    BY <1>4, <1>i, <1>c DEF Crash, Exit, OneDeamon, LoopInv, Calm
  <2>2. Stop(d)
    BY <1>4 DEF Crash, Exit
  <2>3. tree' = [tree EXCEPT ![d] = {}] /\ loop' = [loop EXCEPT ![d] = "down"]
    BY <2>2 DEF Stop
  <2>4. \A e \in Deamons : tree'[e] = {} /\ loop'[e] = "down"
    BY <2>1, <2>3, <1>0 DEF TypeOK
  <2> QED BY <2>4 DEF MapInv
\* A deamon that serves is the only one.
<1>a. ASSUME NEW d \in Deamons, Up(d), NEW e \in Deamons, e # d PROVE loop[e] = "down" /\ tree[e] = {}
  BY <1>a, <1>i, <1>c DEF OneDeamon, LoopInv, Calm, Up
<1>5. ASSUME NEW d \in Deamons, NEW p \in Projects, HandleDel(d, p) PROVE MapInv'
  <2>1. /\ cli[p].pc = "deleting" /\ Moves(p, "unmount") /\ Up(d)
        /\ UNCHANGED <<meta, loop, unlisted>> /\ tree' = [tree EXCEPT ![d] = @ \ {cli[p].target}]
    BY <1>5, <1>i, CommandMoves DEF HandleDel, LoopInv
  <2>2. cli[p].target \in Projects /\ NameOf[cli[p].target] = NameOf[p]
    BY <2>1, <1>0, <1>i DEF TypeOK, CommandInv
  <2>3. ASSUME NEW q \in Projects, Alone(q), q # p, NEW e \in Deamons
        PROVE  (q \in tree'[e] <=> q \in tree[e]) /\ cli'[q] = cli[q]
    BY <2>1, <2>2, <2>3, <1>0 DEF Alone, Moves, Others, TypeOK
  <2>4. ASSUME Alone(p), NEW e \in Deamons PROVE p \notin tree'[e] /\ meta[NameOf[p]] # p
    <3>1. cli[p].target = p
      BY <2>2, <2>4 DEF Alone
    <3>2. e # d => p \notin tree'[e]
      BY <2>1, <1>a, <1>0 DEF TypeOK
    <3> QED BY <2>1, <2>4, <3>1, <3>2, <1>i, <1>n, <1>0 DEF FileInv, TypeOK
  <2> QED BY <2>1, <2>3, <2>4, <1>i DEF MapInv, Alone
<1>6. ASSUME NEW d \in Deamons, NEW p \in Projects, HandleAdd(d, p) PROVE MapInv'
  <2>1. cli[p].pc = "adding" /\ Moves(p, "inserting") /\ UNCHANGED <<tree, meta, loop, unlisted>>
    BY <1>6, CommandMoves DEF HandleAdd
  <2> QED BY <2>1, <1>i DEF MapInv, Alone, Moves, Others
<1>7. ASSUME NEW d \in Deamons, NEW p \in Projects, Insert(d, p) PROVE MapInv'
  <2>1. /\ cli[p].pc = "inserting" /\ Ends(p) /\ loop[d] = "sleeping"
        /\ UNCHANGED <<meta, loop>> /\ tree' = [tree EXCEPT ![d] = @ \cup {p}]
        /\ unlisted' = [unlisted EXCEPT ![d] = @ \ {p}]
    <3>1. cli[p].pc = "inserting" /\ Ends(p)
      BY <1>7, CommandMoves
    <3> QED BY <3>1, <1>7, <1>0 DEF Insert, MapFree, TypeOK
  <2>2. ASSUME NEW q \in Projects, Alone(q), q # p, NEW e \in Deamons
        PROVE  /\ (q \in tree'[e] <=> q \in tree[e]) /\ cli'[q] = cli[q]
               /\ q \in unlisted'[e] <=> q \in unlisted[e]
    BY <2>1, <2>2, <1>0 DEF Ends, Others, TypeOK
  <2>3. ASSUME Alone(p), NEW e \in Deamons
        PROVE  meta[NameOf[p]] = p /\ (loop[e] # "down" => p \in tree'[e])
    <3>1. loop[e] # "down" => e = d
      BY <2>1, <1>a DEF Up
    <3> QED BY <2>1, <2>3, <3>1, <1>i, <1>0 DEF FileInv, TypeOK
  <2> QED BY <2>1, <2>2, <2>3, <1>i DEF MapInv, Alone
<1>17. ASSUME NEW d \in Deamons, NEW p \in Projects, AddFails(d, p) PROVE MapInv'
  <2>1. /\ cli[p].pc = "adding" /\ Ends(p) /\ Up(d) /\ UNCHANGED <<tree, meta, loop>>
        /\ unlisted' = [unlisted EXCEPT ![d] = @ \cup {p}]
    BY <1>17, <1>i, CommandMoves DEF AddFails, LoopInv
  <2>2. p \in unlisted'[d] /\ \A e \in Deamons : unlisted[e] \subseteq unlisted'[e]
    BY <2>1, <1>0 DEF TypeOK
  <2>3. \A q \in Projects : q # p => cli'[q] = cli[q]
    BY <2>1 DEF Ends, Others
  <2>4. \A e \in Deamons : loop[e] # "down" => e = d
    BY <2>1, <1>a
  <2> QED BY <2>1, <2>2, <2>3, <2>4, <1>i DEF MapInv, Alone
<1>8. ASSUME NEW p \in Projects, Refused(p) PROVE MapInv'
  <2>1. server = None /\ UNCHANGED <<tree, loop>> /\ \A d \in Deamons : loop[d] # "loading"
    BY <1>8, <1>0 DEF Refused, Calm, TypeOK
  <2>2. \A d \in Deamons : loop[d] = "down" /\ tree[d] = {}
    BY <2>1, <1>i, <1>c, <1>0, DeamonAssumption DEF OneDeamon, LoopInv, Calm, Up, TypeOK
  <2> QED BY <2>1, <2>2 DEF MapInv
<1>9. ASSUME NEW p \in Projects, GiveUp(p) PROVE MapInv'
  BY <1>9 DEF GiveUp, Calm
<1>10. ASSUME NEW p \in Projects, RmMeta(p) PROVE MapInv'
  <2>1. /\ cli[p].pc = "delete" /\ Others(p) /\ UNCHANGED <<tree, loop, unlisted>>
        /\ meta' = [meta EXCEPT ![NameOf[p]] = None]
        /\ meta[NameOf[p]] \in Projects => cli'[p].pc = "deleting"
    BY <1>10, CommandMoves DEF RmMeta, Moves
  <2>2. meta'[NameOf[p]] = None /\ \A n \in Names : n # NameOf[p] => meta'[n] = meta[n]
    BY <2>1, <1>n, <1>0 DEF TypeOK
  <2>3. \A q \in Projects : q # p /\ Alone(q) => cli'[q] = cli[q] /\ meta'[NameOf[q]] = meta[NameOf[q]]
    BY <2>1, <2>2, <1>n DEF Others, Alone
  <2> QED BY <2>1, <2>2, <2>3, <1>i, <1>n DEF MapInv, Alone
<1>11. ASSUME NEW p \in Projects, TruncMeta(p) \/ WriteMeta(p) PROVE MapInv'
  <2>1. /\ Others(p) /\ UNCHANGED <<tree, loop, unlisted>>
        /\ \/ cli'[p].pc = "writing" /\ meta' = [meta EXCEPT ![NameOf[p]] = Torn]
           \/ cli'[p].pc = "adding" /\ meta' = [meta EXCEPT ![NameOf[p]] = p]
    BY <1>11, CommandMoves DEF TruncMeta, WriteMeta, Moves
  <2>2. /\ \/ cli'[p].pc = "writing" /\ meta'[NameOf[p]] = Torn
           \/ cli'[p].pc = "adding" /\ meta'[NameOf[p]] = p
        /\ \A n \in Names : n # NameOf[p] => meta'[n] = meta[n]
    BY <2>1, <1>n, <1>0 DEF TypeOK
  <2>3. \A q \in Projects : q # p /\ Alone(q) => cli'[q] = cli[q] /\ meta'[NameOf[q]] = meta[NameOf[q]]
    BY <2>1, <2>2, <1>n DEF Others, Alone
  <2> QED BY <2>1, <2>2, <2>3, <1>i, <1>n DEF MapInv, Alone
\* Steps of a command that has nothing to do with the map.
<1>12. ASSUME NEW p \in Projects, Others(p), UNCHANGED <<tree, meta, loop, unlisted>>,
              cli[p].pc \notin {"deleting", "writing", "adding", "inserting"}
       PROVE  MapInv'
  BY <1>12, <1>i DEF MapInv, Alone, Others
<1>13. ASSUME NEW p \in Projects, Unmount(p) \/ RmBase(p) \/ Mount(p) PROVE MapInv'
  <2>1. UNCHANGED <<tree, meta, loop, unlisted>> /\ cli[p].pc \in {"unmount", "rm", "mount"} /\ Others(p)
    BY <1>13, CommandMoves DEF Unmount, RmBase, Mount, Moves, Ends
  <2> QED BY <2>1, <1>12
<1>14. ASSUME NEW p \in Projects, StartInstall(p) \/ StartClean(p) PROVE MapInv'
  <2>1. UNCHANGED <<tree, meta, loop, unlisted>> /\ cli[p].pc = "idle" /\ Others(p)
    BY <1>14, CommandMoves DEF StartInstall, StartClean, Idle
  <2> QED BY <2>1, <1>12
<1>15. ASSUME NEW p \in Projects, MountDies(p) \/ \E d \in Deamons : KillPids(d, p) PROVE MapInv'
  BY <1>15, <1>2 DEF MountDies, KillPids
<1>16. CASE UNCHANGED vars
  BY <1>16, <1>2 DEF vars
<1> QED BY <1>1, <1>3, <1>4, <1>5, <1>6, <1>7, <1>8, <1>9, <1>10, <1>11, <1>13, <1>14, <1>15, <1>16,
           <1>17 DEF Next, Handle, Command

LEMMA NextClean == LiveInv /\ MetaInv /\ [Next]_vars => CleanInv'
<1> SUFFICES ASSUME LiveInv, MetaInv, [Next]_vars, Calm' PROVE CleanInv'
  BY DEF CleanInv
<1>0. TypeOK
  BY DEF LiveInv, LiveIsMounted
<1>i. /\ LoopInv /\ CommandInv /\ FileInv
      /\ \A p \in Projects : Alone(p) /\ (cli[p].pc = "rm" \/ cleaned[p] = "full") => p \notin mounted
      /\ \A p \in Projects, d \in Deamons :
           Alone(p) /\ p \in tree[d] => meta[NameOf[p]] = p \/ cli[p].pc \in {"deleting", "writing"}
  <2>1. Calm
    BY <1>0, CalmBefore
  <2> QED BY <2>1 DEF MetaInv, MapInv, CleanInv
<1> USE DEF deamonVars, diskVars, history
\* Nothing is mounted, and no command comes to its rm.
<1>1. ASSUME mounted' \subseteq mounted, cleaned' = cleaned,
             \A p \in Projects : cli'[p].pc = "rm" => cli[p].pc = "rm"
      PROVE  CleanInv'
  BY <1>1, <1>i DEF CleanInv, Alone
<1>2. ASSUME NEW d \in Deamons, RestartOk(d) \/ RestartUnlisted(d) PROVE CleanInv'
  <2>1. /\ mounted' = mounted \cup {work[d]} /\ UNCHANGED <<cli, cleaned>>
        /\ work[d] \in base
    BY <1>2 DEF RestartOk, RestartUnlisted, Restart
  <2>2. work[d] \in Projects /\ work[d] # None
    BY <2>1, <1>0, DeamonAssumption DEF TypeOK
  <2>3. work[d] \in tree[d]
    BY <2>2, <1>i DEF LoopInv
  <2>4. Alone(work[d]) => cli[work[d]].pc # "rm" /\ cleaned[work[d]] # "full"
    BY <2>1, <2>2, <2>3, <1>i, DeamonAssumption DEF CommandInv, FileInv
  <2> QED BY <2>1, <2>4, <1>i DEF CleanInv, Alone
<1>3. ASSUME NEW p \in Projects, Unmount(p) PROVE CleanInv'
  <2>1. mounted' = mounted \ {p} /\ cleaned' = cleaned /\ Others(p)
    BY <1>3, CommandMoves DEF Unmount, Moves
  <2> QED BY <2>1, <1>i DEF CleanInv, Alone, Others
<1>4. ASSUME NEW p \in Projects, RmBase(p) PROVE CleanInv'
  <2>1. mounted' = mounted /\ Others(p) /\ cli[p].pc = "rm"
    BY <1>4, CommandMoves DEF RmBase, Moves, Ends
  <2>2. \A q \in Projects : q # p => cleaned'[q] = cleaned[q]
    BY <1>4, <1>0 DEF RmBase, TypeOK
  <2> QED BY <2>1, <2>2, <1>i DEF CleanInv, Alone, Others
<1>5. ASSUME NEW p \in Projects, Mount(p) PROVE CleanInv'
  <2>1. /\ mounted' = mounted \cup {p} /\ cleaned' = cleaned
        /\ cli[p].pc = "mount" /\ Moves(p, "write")
    BY <1>5, CommandMoves DEF Mount
  <2>2. cleaned[p] = "no"
    BY <2>1, <1>i DEF CommandInv
  <2> QED BY <2>1, <2>2, <1>i DEF CleanInv, Alone, Moves, Others
<1>6. ASSUME NEW p \in Projects, StartInstall(p) \/ StartClean(p) PROVE CleanInv'
  <2>1. mounted' = mounted /\ Others(p) /\ (cli'[p] = cli[p] \/ cli'[p].pc # "rm")
    BY <1>6, CommandMoves DEF StartInstall, StartClean
  <2>2. \A q \in Projects : cleaned'[q] = cleaned[q] \/ (q = p /\ cleaned'[q] # "full")
    BY <1>6, <1>0 DEF StartInstall, StartClean, TypeOK
  <2>3. \A q \in Projects : cli'[q].pc = "rm" => cli[q].pc = "rm"
    BY <2>1 DEF Others
  <2> QED BY <2>1, <2>2, <2>3, <1>i DEF CleanInv, Alone
<1>7. ASSUME NEW p \in Projects, RmMeta(p) \/ TruncMeta(p) \/ WriteMeta(p) \/ Refused(p) \/ GiveUp(p)
                                  \/ \E d \in Deamons : Handle(d, p)
      PROVE  CleanInv'
  <2>1. UNCHANGED <<mounted, cleaned>>
    BY <1>7 DEF RmMeta, TruncMeta, WriteMeta, Refused, GiveUp, Handle, HandleDel, HandleAdd, AddFails, Insert
  <2>2. Others(p) /\ cli'[p].pc # "rm"
    BY <1>7, CommandMoves DEF Handle, Moves, Ends, Answered, Idle
  <2> QED BY <2>1, <2>2, <1>1 DEF Others
<1>8. ASSUME NEW d \in Deamons, Main(d) \/ Launch(d) \/ Kill(d) PROVE CleanInv'
  BY <1>8, <1>1 DEF Main, Serve, Tick, EndCheck, RestartFails, Check, Launch, Kill
<1>9. ASSUME NEW d \in Deamons, Stop(d) PROVE CleanInv'
  BY <1>9, <1>1 DEF Stop, Idle
<1>10. ASSUME NEW p \in Projects, MountDies(p) \/ \E d \in Deamons : KillPids(d, p) PROVE CleanInv'
  BY <1>10, <1>1 DEF MountDies, KillPids
<1>11. CASE UNCHANGED vars
  BY <1>11, <1>1 DEF vars
<1> QED BY <1>2, <1>3, <1>4, <1>5, <1>6, <1>7, <1>8, <1>9, <1>10, <1>11 DEF Next, Command, Crash, Exit

LEMMA NextMeta == LiveInv /\ MetaInv /\ [Next]_vars => LiveInv' /\ MetaInv'
<1> SUFFICES ASSUME LiveInv, MetaInv, [Next]_vars PROVE LiveInv' /\ MetaInv'
  OBVIOUS
<1>1. LiveInv' /\ MapInv' /\ CleanInv'
  BY NextLive, NextMap, NextClean
<1>2. LoopInv' /\ OneDeamon'
  BY NextLoop DEF LiveInv, LiveIsMounted, MetaInv
<1>3. CommandInv' /\ NamesInv' /\ FileInv'
  BY NextCommand DEF MetaInv
<1> QED BY <1>1, <1>2, <1>3 DEF MetaInv

(* A check that is restarting a project cannot finish after the deamon has *)
(* answered the delete of a clean: handle_del waits for the map's mutex    *)
(* (server.rs handle_del, config.rs restart, fuse_mode.js endNydusFs).     *)
THEOREM CleanedStaysUnmounted == Spec => []FullCleanStaysClean
<1>1. LiveInv /\ MetaInv => FullCleanStaysClean
  BY DEF MetaInv, CleanInv, FullCleanStaysClean
<1> QED BY InitLive, NextLive, InitMeta, NextMeta, <1>1, PTL DEF Spec

(* If every request was answered, only one deamon has run at a time and   *)
(* names differ, the deamon's map has only projects with a metadata file,  *)
(* and lacks only those whose processes it could not list when it was last *)
(* to add them (server.rs, pid.rs, config.rs, cli/lib/deamon.js).          *)
THEOREM MapMatchesFiles == Spec => []MapIsMetadata
<1>1. LiveInv /\ MetaInv => MapIsMetadata
  <2> SUFFICES ASSUME LiveInv, MetaInv, Calm, server # None,
                      \A p \in Projects : cli[p] = Idle /\ Alone(p)
               PROVE  /\ tree[server] \subseteq Registered
                      /\ Registered \subseteq tree[server] \cup unlisted[server]
    BY DEF MapIsMetadata
  <2>1. TypeOK /\ LoopInv /\ MapInv
    BY DEF LiveInv, LiveIsMounted, MetaInv
  <2>2. server \in Deamons /\ loop[server] # "down" /\ tree[server] \subseteq Projects
    BY <2>1 DEF TypeOK, LoopInv, Up
  <2>3. ASSUME NEW p \in Projects PROVE cli[p].pc = "idle" /\ Alone(p)
    BY DEF Idle
  <2>4. ASSUME NEW p \in Projects
        PROVE  /\ p \in tree[server] => meta[NameOf[p]] = p
               /\ meta[NameOf[p]] = p => p \in tree[server] \cup unlisted[server]
    BY <2>1, <2>2, <2>3 DEF MapInv
  <2> QED BY <2>2, <2>4 DEF Registered
<1> QED BY InitLive, NextLive, InitMeta, NextMeta, <1>1, PTL DEF Spec

=============================================================================
