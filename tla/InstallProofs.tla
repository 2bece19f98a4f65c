--------------------------- MODULE InstallProofs ---------------------------
(***************************************************************************)
(* What rapid install and rapid clean report is so, and clean removes      *)
(* nothing that is in use, for any projects, any number of commands and of *)
(* faults, and whatever the packages' parallel commands do meanwhile.      *)
(***************************************************************************)
EXTENDS Install, FiniteSetTheorems, SequenceTheorems, TLAPS

All     == ToSet(AllPkgs(s))
Scripts == ToSet(AllScripts)
Labels  == {"nm", "tmp", "nydusd", "rm", "done", "failed", "tmpfs", "overlay"}

Preparing == {"loop", "clean", "ending"}
Starting  == {"nydusd", "deamon", "bootstrap"}

CmdType ==
    [goal : {"none", "install", "clean"},
     pc   : {"none", "mount", "mounting", "scripts"} \cup Preparing \cup Starting,
     rest : Seq(Pkgs) \cup Seq(Scripts), seen : SUBSET Pkgs, cwd : Pkgs,
     at   : UNION {[D -> Labels] : D \in SUBSET Pkgs}, ran : Seq(Scripts)]

\* As TypeOK, without the bounds, and the command.
Types ==
    /\ project \in DOMAIN Projects
    /\ tmp \in [Pkgs -> Nat] /\ nm \in [Pkgs -> Nat]
    /\ image \in [Pkgs -> Nat] /\ served \in [Pkgs -> Nat]
    /\ used \in [commands : Nat, faults : Nat, images : Nat]
    /\ cmd \in CmdType
    /\ DOMAIN index \subseteq All

\* No node_modules is mounted twice.
Once == \A p \in Pkgs : nm[p] <= 1

\* The install that prepares knows of every mount it finds, and has yet to
\* come to it; clean is called for the project or for the package at hand.
Prepares ==
    /\ cmd.pc \notin {"none", "clean", "ending"} => cmd.goal = "install"
    /\ cmd.pc # "scripts" => cmd.ran = <<>>
    /\ cmd.pc \in Preparing => cmd.rest \in Seq(Pkgs)
    /\ cmd.pc \in Preparing /\ cmd.goal = "install" =>
         \A p \in All : nm[p] > 0 => p \in cmd.seen /\ p \in ToSet(cmd.rest)
    /\ cmd.pc \in {"clean", "ending"} =>
         \/ cmd.goal = "clean" /\ cmd.cwd = Root
         \/ cmd.goal = "install" /\ cmd.rest # <<>> /\ cmd.cwd = Head(cmd.rest)

\* How far clean is with each package.
Unmounts == cmd.pc = "ending" =>
    /\ DOMAIN cmd.at = IF cmd.cwd = Root THEN Pkgs ELSE {cmd.cwd}
    /\ \A p \in DOMAIN cmd.at :
         /\ cmd.at[p] \in {"nm", "tmp", "nydusd", "rm", "done", "failed"}
         /\ cmd.at[p] \in {"tmp", "nydusd", "rm", "done"} => nm[p] = 0
         /\ cmd.cwd = Root =>
              /\ cmd.at[p] \in {"rm", "done"} => served[p] = 0 \/ p \in kept
              /\ cmd.at[p] = "done" => tmp[p] = 0 /\ p \notin base

\* When the mounts begin nothing is mounted.
Fresh ==
    /\ cmd.pc \in Starting => \A p \in All : nm[p] = 0
    /\ cmd.pc = "mount" => cmd.rest \in Seq(Pkgs) /\ \A p \in Pkgs : nm[p] = 0

Serves(p) == p \in harm \/ served[p] = image[p]

\* Every image is this install's; what nydusd was asked for it serves.
Imaged ==
    /\ cmd.pc \in {"mount", "mounting", "scripts"} =>
         used.images > 0 /\ \A p \in Pkgs : image[p] = used.images
    /\ cmd.pc = "mount" => \A p \in Pkgs : p \in ToSet(cmd.rest) \/ Serves(p)
    /\ cmd.pc \in {"mounting", "scripts"} => \A p \in Pkgs : Serves(p)

\* How far the install is with each package's overlay.
Mounts ==
    /\ cmd.pc = "mounting" =>
         /\ DOMAIN cmd.at = Pkgs
         /\ \A p \in Pkgs :
              /\ cmd.at[p] \in {"tmpfs", "overlay", "done", "failed"}
              /\ nm[p] = IF cmd.at[p] = "done" THEN 1 ELSE 0
              /\ cmd.at[p] \in {"overlay", "done"} => tmp[p] >= 1
    /\ cmd.pc = "scripts" => \A p \in Pkgs : nm[p] = 1 /\ tmp[p] >= 1

\* Of the first n scripts those in ran have run, in this order; the others
\* may be missed.
RanOf(n, ran) == \E done \in SUBSET (1..n) :
    /\ Cardinality(done) = Len(ran)
    /\ \A k \in done : ran[Cardinality({j \in done : j <= k})] = AllScripts[k]
    /\ \A k \in (1..n) \ done : MayMiss(AllScripts[k])

Ran == cmd.pc = "scripts" => \E n \in 0..Len(AllScripts) :
    cmd.rest = SubSeq(AllScripts, n + 1, Len(AllScripts)) /\ RanOf(n, cmd.ran)

Report == cmd.pc = "none" /\ outcome.how = "installed" =>
    /\ used.images > 0
    /\ \A p \in Pkgs : nm[p] = 1 /\ tmp[p] >= 1 /\ image[p] = used.images /\ Serves(p)
    /\ s.daemon => registered
    /\ ScriptsRan

\* Before a command and until clean has looked at the mounts: if no command
\* has failed, the project is either installed or gone.
Tidy == cmd.pc = "none" \/ (cmd.pc = "clean" /\ cmd.goal = "clean") =>
    /\ outcome.how = "cleaned" => ~outcome.failed
    /\ IF outcome.how = "installed" THEN \A p \in Pkgs : nm[p] = 1
       ELSE outcome.failed \/ \A p \in Pkgs : Gone(p)

IInv == Types /\ Once /\ Prepares /\ Unmounts /\ Fresh /\ Imaged /\ Mounts /\ Ran /\ Report /\ Tidy

-----------------------------------------------------------------------------
(* Lists.                                                                  *)

LEMMA HeadTail ==
    ASSUME NEW S, NEW q \in Seq(S)
    PROVE  /\ ToSet(q) \subseteq S
           /\ q # <<>> => /\ Head(q) \in S /\ Head(q) \in ToSet(q) /\ Tail(q) \in Seq(S)
                          /\ ToSet(q) = {Head(q)} \cup ToSet(Tail(q))
           /\ q = <<>> => ToSet(q) = {}
<1>1. DOMAIN q = 1..Len(q) /\ Len(q) \in Nat
  OBVIOUS
<1>2. ToSet(q) \subseteq S
  BY <1>1 DEF ToSet
<1>3. ASSUME q # <<>>
      PROVE  /\ Head(q) \in S /\ Head(q) \in ToSet(q) /\ Tail(q) \in Seq(S)
             /\ ToSet(q) = {Head(q)} \cup ToSet(Tail(q))
  <2>1. Len(q) > 0 /\ Head(q) = q[1] /\ Tail(q) \in Seq(S) /\ Len(Tail(q)) = Len(q) - 1
    BY <1>1, <1>3
  <2>2. \A i \in 1..Len(q) - 1 : Tail(q)[i] = q[i + 1]
    BY <1>1, <1>3
  <2>3. DOMAIN Tail(q) = 1..Len(q) - 1
    BY <2>1
  <2>4. \A i \in 1..Len(q) : i = 1 \/ (i - 1 \in 1..Len(q) - 1 /\ Tail(q)[i - 1] = q[i])
    BY <1>1, <2>2
  <2>5. ToSet(q) \subseteq {Head(q)} \cup ToSet(Tail(q))
    BY <1>1, <2>1, <2>3, <2>4, ZenonT(60) DEF ToSet
  <2>6. ToSet(Tail(q)) \subseteq ToSet(q)
    BY <1>1, <2>2, <2>3 DEF ToSet
  <2>7. Head(q) \in ToSet(q) /\ Head(q) \in S
    BY <1>1, <1>2, <2>1 DEF ToSet
  <2> QED
    BY <2>1, <2>5, <2>6, <2>7
<1>4. q = <<>> => ToSet(q) = {}
  BY <1>1 DEF ToSet
<1> QED
  BY <1>2, <1>3, <1>4

(* The packages an install prepares are among all packages; what is        *)
(* listed is a sequence.                                                   *)
LEMMA Listed ==
    ASSUME project \in DOMAIN Projects
    PROVE  /\ Root \in Pkgs /\ All \subseteq Pkgs
           /\ AllPkgs(s) \in Seq(Pkgs) /\ Everyone \in Seq(Pkgs) /\ ToSet(Everyone) = Pkgs
           /\ AllScripts \in Seq(Scripts)
<1>1. s.spaces \in Seq(ToSet(s.spaces))
  BY ListsAssumption DEF s
<1>2. AllScripts \in Seq(Scripts)
  BY ListsAssumption DEF AllScripts, Scripts
<1> DEFINE q == Append(s.spaces, Root)
           S == ToSet(s.spaces)
<1>3. Len(q) = Len(s.spaces) + 1 /\ q[Len(q)] = Root /\ \A i \in 1..Len(s.spaces) : q[i] = s.spaces[i]
  BY <1>1
<1>4. q \in Seq(S \cup {Root}) /\ Len(s.spaces) \in Nat /\ DOMAIN q = 1..Len(q)
  BY <1>1
<1>5. Pkgs = {q[i] : i \in 1..Len(q)}
  BY <1>4 DEF Pkgs, ToSet
<1>6. Root \in Pkgs
  BY <1>3, <1>4, <1>5
<1>7. \A i \in 1..Len(q) : q[i] \in Pkgs
  BY <1>5
<1>8. q \in Seq(Pkgs)
  BY <1>4, <1>7, SMTT(30)
<1>9. <<Root>> \in Seq(Pkgs)
  BY <1>6
<1>10. AllPkgs(s) \in Seq(Pkgs)
  BY <1>8, <1>9 DEF AllPkgs
<1>11. All \subseteq Pkgs
  BY <1>10, HeadTail DEF All
<1> QED
  BY <1>2, <1>6, <1>8, <1>10, <1>11 DEF Everyone, Pkgs

(* One package's command has moved on: the others' have not.               *)
LEMMA StepFacts ==
    ASSUME Types, NEW p \in DOMAIN cmd.at, NEW from, NEW to \in Labels, Step(p, from, to)
    PROVE  /\ cmd.at[p] = from /\ p \in Pkgs /\ DOMAIN cmd.at \subseteq Pkgs
           /\ cmd' \in CmdType
           /\ cmd'.goal = cmd.goal /\ cmd'.pc = cmd.pc /\ cmd'.rest = cmd.rest
           /\ cmd'.seen = cmd.seen /\ cmd'.cwd = cmd.cwd /\ cmd'.ran = cmd.ran
           /\ cmd'.at \in [DOMAIN cmd.at -> Labels] /\ DOMAIN cmd'.at = DOMAIN cmd.at
           /\ cmd'.at[p] = to /\ \A q \in DOMAIN cmd.at : q # p => cmd'.at[q] = cmd.at[q]
<1> DEFINE at1 == [cmd.at EXCEPT ![p] = to]
<1>1. cmd' = [cmd EXCEPT !.at = at1] /\ cmd.at[p] = from
  BY DEF Step
<1>2. PICK D \in SUBSET Pkgs : cmd.at \in [D -> Labels]
  BY DEF Types, CmdType
<1>3. at1 \in [D -> Labels] /\ DOMAIN at1 = D /\ DOMAIN cmd.at = D
  BY <1>2
<1>4. at1[p] = to /\ \A q \in D : q # p => at1[q] = cmd.at[q]
  BY <1>2, <1>3
<1>5. at1 \in UNION {[C -> Labels] : C \in SUBSET Pkgs}
  BY <1>3
<1> HIDE DEF at1
<1>6. cmd'.at = at1 /\ cmd' = [cmd EXCEPT !.at = at1]
  BY <1>1 DEF Types, CmdType
<1> QED
  BY <1>1, <1>2, <1>3, <1>4, <1>5, <1>6 DEF Types, CmdType

(* The directories and the scripts of a project do not change.             *)
LEMMA Fixed ==
    ASSUME project' = project
    PROVE  s' = s /\ Pkgs' = Pkgs /\ All' = All /\ AllScripts' = AllScripts /\ Scripts' = Scripts
           /\ Linux' = Linux
BY DEF s, Pkgs, All, AllScripts, Scripts, Linux

LEMMA IdleType == ASSUME project \in DOMAIN Projects PROVE Idle \in CmdType
<1>1. <<>> \in UNION {[D -> Labels] : D \in SUBSET Pkgs}
  <2>1. <<>> \in [{} -> Labels] /\ {} \in SUBSET Pkgs
    OBVIOUS
  <2> QED
    BY <2>1
<1>2. <<>> \in Seq(Pkgs) /\ <<>> \in Seq(Scripts) /\ Root \in Pkgs
  BY Listed
<1> HIDE DEF CmdType
<1> QED
  BY <1>1, <1>2 DEF Idle, CmdType

(* nydusd serves no more than before: what may be missed may still be.     *)
LEMMA MissesMore ==
    ASSUME project' = project, harm \subseteq harm'
    PROVE  \A k : MayMiss(AllScripts[k]) => MayMiss(AllScripts[k])'
BY Fixed DEF MayMiss, Misplaced

LEMMA InitInvariant == Init => IInv
<1> SUFFICES ASSUME Init PROVE IInv
  OBVIOUS
<1>1. project \in DOMAIN Projects /\ cmd = Idle /\ cmd.pc = "none" /\ cmd.ran = <<>>
  BY DEF Init, Idle
<1>2. Types
  BY <1>1, IdleType DEF Init, Types
<1>3. Report /\ Tidy
  BY DEF Init, Report, Tidy, Gone
<1> QED
  BY <1>1, <1>2, <1>3 DEF Init, IInv, Once, Prepares, Unmounts, Fresh, Imaged, Mounts, Ran, Preparing, Starting

-----------------------------------------------------------------------------
(* Commands begin.                                                         *)

LEMMA StartKeeps ==
    ASSUME IInv, NEW goal \in {"install", "clean"}, Start(goal) PROVE IInv'
<1>1. /\ project' = project /\ tmp' = tmp /\ nm' = nm /\ base' = base /\ index' = index /\ image' = image
      /\ served' = served /\ harm' = harm /\ registered' = registered /\ outcome' = outcome
      /\ kept' = kept /\ cmd = Idle /\ cmd.pc = "none"
  BY DEF Start, Idle, mounts, files, services
<1>2. s' = s /\ Pkgs' = Pkgs /\ All' = All /\ AllScripts' = AllScripts /\ Scripts' = Scripts
  BY <1>1, Fixed
<1>3. AllPkgs(s) \in Seq(Pkgs) /\ All \subseteq Pkgs /\ project \in DOMAIN Projects
  BY Listed DEF IInv, Types
<1>4. /\ cmd'.goal = goal /\ cmd'.pc = IF goal = "install" THEN "loop" ELSE "clean"
      /\ cmd'.rest = AllPkgs(s) /\ cmd'.seen = {p \in Pkgs : nm[p] > 0} /\ cmd'.ran = <<>>
      /\ cmd'.cwd = Root
  BY DEF Start, Idle
<1>5. Types'
  <2>1. cmd' \in CmdType
    BY <1>3, IdleType DEF Start, Idle, CmdType, Preparing
  <2>2. used' \in [commands : Nat, faults : Nat, images : Nat]
    BY DEF Start, IInv, Types
  <2> QED
    BY <1>1, <1>2, <2>1, <2>2 DEF IInv, Types, CmdType
<1>6. Prepares'
  BY <1>1, <1>2, <1>3, <1>4 DEF Prepares, Preparing, All
<1>7. Once' /\ Unmounts' /\ Fresh' /\ Imaged' /\ Mounts' /\ Ran' /\ Report'
  BY <1>1, <1>2, <1>4 DEF IInv, Once, Unmounts, Fresh, Imaged, Mounts, Ran, Report, Starting
<1>8. Tidy'
  BY <1>1, <1>2 DEF IInv, Tidy, Gone
<1> QED
  BY <1>5, <1>6, <1>7, <1>8 DEF IInv

(* The next package, when this one is not mounted.                         *)
LEMMA MakeBaseKeeps ==
    ASSUME IInv, cmd.pc \in Preparing, cmd.goal = "install", cmd.rest # <<>>,
           Head(cmd.rest) \in All => nm[Head(cmd.rest)] = 0,
           MakeBase(Head(cmd.rest)), UNCHANGED <<project, tmp, nm, index, image, served, used>>
    PROVE  IInv'
<1>1. s' = s /\ Pkgs' = Pkgs /\ All' = All /\ AllScripts' = AllScripts /\ Scripts' = Scripts
  BY Fixed
<1>2. All \subseteq Pkgs /\ Root \in Pkgs /\ project \in DOMAIN Projects
  BY Listed DEF IInv, Types
<1>3. /\ cmd.rest \in Seq(Pkgs) /\ cmd.ran = <<>>
      /\ \A p \in All : nm[p] > 0 => p \in cmd.seen /\ p \in ToSet(cmd.rest)
  BY DEF IInv, Prepares, Preparing
<1>4. Tail(cmd.rest) \in Seq(Pkgs) /\ ToSet(cmd.rest) = {Head(cmd.rest)} \cup ToSet(Tail(cmd.rest))
  BY <1>3, HeadTail
<1>5. cmd' \in CmdType
  <2>1. <<>> \in UNION {[D -> Labels] : D \in SUBSET Pkgs}
    BY <1>2, IdleType DEF Idle, CmdType
  <2> QED
    BY <1>2, <1>4, <2>1 DEF MakeBase, IInv, Types, CmdType, Preparing
<1>6. /\ cmd'.goal = "install" /\ cmd'.pc = "loop" /\ cmd'.rest = Tail(cmd.rest)
      /\ cmd'.seen = cmd.seen /\ cmd'.ran = <<>>
  BY <1>3 DEF MakeBase, IInv, Types, CmdType
<1>7. Types'
  BY <1>1, <1>5 DEF IInv, Types, CmdType
<1>8. \A p \in All : nm[p] > 0 => p # Head(cmd.rest)
  BY <1>2 DEF IInv, Types
<1>9. Prepares'
  BY <1>1, <1>3, <1>4, <1>6, <1>8 DEF Prepares, Preparing
<1>10. Once' /\ Unmounts' /\ Fresh' /\ Imaged' /\ Mounts' /\ Ran' /\ Report' /\ Tidy'
  BY <1>1, <1>6 DEF IInv, Once, Unmounts, Fresh, Imaged, Mounts, Ran, Report, Tidy, Starting
<1> QED
  BY <1>7, <1>9, <1>10 DEF IInv

LEMMA PrepareBaseKeeps == ASSUME IInv, PrepareBase PROVE IInv'
<1> USE DEF PrepareBase, mounts, services
<1>1. cmd.pc = "loop" /\ cmd.pc \in Preparing /\ cmd.rest # <<>> /\ cmd.goal = "install"
  BY DEF IInv, Prepares, Preparing
<1>2. cmd.rest \in Seq(Pkgs) /\ \A p \in All : nm[p] > 0 => p \in cmd.seen
  BY <1>1 DEF IInv, Prepares
<1>3. CASE Head(cmd.rest) \notin cmd.seen
  <2>1. All \subseteq Pkgs
    BY Listed DEF IInv, Types
  <2>2. Head(cmd.rest) \in All => nm[Head(cmd.rest)] = 0
    BY <1>2, <1>3, <2>1 DEF IInv, Types
  <2> QED
    BY <1>1, <1>3, <2>2, MakeBaseKeeps
<1>4. CASE Head(cmd.rest) \in cmd.seen
  <2>1. s' = s /\ Pkgs' = Pkgs /\ All' = All /\ AllScripts' = AllScripts /\ Scripts' = Scripts
    BY Fixed
  <2>2. Head(cmd.rest) \in Pkgs
    BY <1>1, <1>2, HeadTail
  <2>3. cmd' = [cmd EXCEPT !.pc = "clean", !.cwd = Head(cmd.rest)]
    BY <1>4
  <2>4. Types'
    BY <2>1, <2>2, <2>3 DEF IInv, Types, CmdType, Preparing, files
  <2>5. /\ cmd'.goal = cmd.goal /\ cmd'.pc = "clean" /\ cmd'.rest = cmd.rest
        /\ cmd'.seen = cmd.seen /\ cmd'.ran = cmd.ran /\ cmd'.cwd = Head(cmd.rest)
    BY <2>3 DEF IInv, Types, CmdType
  <2>6. Prepares'
    BY <1>1, <2>1, <2>5 DEF IInv, Prepares, Preparing
  <2>7. Once' /\ Unmounts' /\ Fresh' /\ Imaged' /\ Mounts' /\ Ran' /\ Report' /\ Tidy'
    BY <1>1, <2>1, <2>5 DEF IInv, Once, Unmounts, Fresh, Imaged, Mounts, Ran, Report, Tidy, Starting
  <2> QED
    BY <2>4, <2>6, <2>7 DEF IInv
<1> QED
  BY <1>3, <1>4

-----------------------------------------------------------------------------
(* Clean.                                                                  *)

(* A command that has failed, or that found nothing, reports nothing.      *)
LEMMA EndKeeps ==
    ASSUME IInv, NEW how, End(how), how \notin {"installed", "cleaned"},
           UNCHANGED <<project, tmp, nm, image>>, served' \in [Pkgs -> Nat],
           DOMAIN index' \subseteq All, used' \in [commands : Nat, faults : Nat, images : Nat],
           how = "failed" \/ outcome.failed \/ (\A p \in Pkgs : Gone(p))'
    PROVE  IInv'
<1>1. s' = s /\ Pkgs' = Pkgs /\ All' = All /\ AllScripts' = AllScripts /\ Scripts' = Scripts
  BY Fixed
<1>2. /\ cmd' = Idle /\ cmd'.pc = "none" /\ cmd'.ran = <<>> /\ outcome'.how = how
      /\ outcome'.failed = (how = "failed" \/ outcome.failed)
  BY DEF End, Ended, Idle
<1>3. Types'
  BY <1>1, <1>2, IdleType DEF IInv, Types, CmdType
<1>4. Once' /\ Prepares' /\ Unmounts' /\ Fresh' /\ Imaged' /\ Mounts' /\ Ran' /\ Report'
  BY <1>1, <1>2 DEF IInv, Once, Prepares, Unmounts, Fresh, Imaged, Mounts, Ran, Report, Preparing, Starting
<1>5. Tidy'
  BY <1>2 DEF Tidy
<1> QED
  BY <1>3, <1>4, <1>5 DEF IInv

LEMMA BeginCleanKeeps == ASSUME IInv, BeginClean PROVE IInv'
<1> USE DEF BeginClean, mounts
<1>1. cmd.pc = "clean" /\ cmd.pc \in Preparing /\ cmd.rest \in Seq(Pkgs)
      /\ \/ cmd.goal = "clean" /\ cmd.cwd = Root
         \/ cmd.goal = "install" /\ cmd.rest # <<>> /\ cmd.cwd = Head(cmd.rest)
  BY DEF IInv, Prepares, Preparing
<1>2. /\ Root \in Pkgs /\ All \subseteq Pkgs
      /\ s' = s /\ Pkgs' = Pkgs /\ All' = All /\ AllScripts' = AllScripts /\ Scripts' = Scripts
  BY Listed, Fixed DEF IInv, Types
<1>3. CASE \A p \in Pkgs : nm[p] = 0
  <2>1. CASE cmd.goal = "clean"
    <3>1. /\ served' \in [Pkgs -> Nat] /\ DOMAIN index' \subseteq All
          /\ used' \in [commands : Nat, faults : Nat, images : Nat]
      BY <1>3 DEF IInv, Types
    <3>2. outcome.failed \/ \A p \in Pkgs : Gone(p)
      BY <1>1, <1>2, <1>3, <2>1 DEF IInv, Tidy
    <3>3. outcome.failed \/ (\A p \in Pkgs : Gone(p))'
      <4>1. CASE \A p \in Pkgs : Gone(p)
        BY <1>2, <1>3, <2>1, <4>1 DEF CleanEnds, Gone
      <4> QED
        BY <3>2, <4>1
    <3> QED
      BY <1>3, <2>1, <3>1, <3>3, EndKeeps DEF CleanEnds
  <2>2. CASE cmd.goal = "install"
    BY <1>1, <1>2, <1>3, <2>2, MakeBaseKeeps DEF CleanEnds
  <2> QED
    BY <1>1, <2>1, <2>2
<1>4. CASE ~ \A p \in Pkgs : nm[p] = 0
  <2> DEFINE D == IF cmd.cwd = Root THEN Pkgs ELSE {cmd.cwd}
             at1 == [p \in D |-> "nm"]
  <2>1. D \in SUBSET Pkgs /\ at1 \in [D -> Labels] /\ DOMAIN at1 = D /\ \A p \in D : at1[p] = "nm"
    BY <1>2 DEF IInv, Types, CmdType, Labels
  <2>2. cmd' = [cmd EXCEPT !.pc = "ending", !.at = at1]
    BY <1>4
  <2> HIDE DEF at1, D
  <2>3. /\ cmd'.goal = cmd.goal /\ cmd'.pc = "ending" /\ cmd'.rest = cmd.rest /\ cmd'.seen = cmd.seen
        /\ cmd'.ran = cmd.ran /\ cmd'.cwd = cmd.cwd /\ cmd'.at = at1
    BY <2>2 DEF IInv, Types, CmdType
  <2>4. at1 \in UNION {[C -> Labels] : C \in SUBSET Pkgs}
    BY <2>1
  <2>5. cmd' \in CmdType
    BY <2>2, <2>4 DEF IInv, Types, CmdType, Preparing
  <2>6. Types'
    BY <1>2, <1>4, <2>5 DEF IInv, Types, CmdType
  <2>7. Prepares'
    BY <1>1, <1>2, <1>4, <2>3 DEF IInv, Prepares, Preparing
  <2>8. Unmounts'
    BY <1>2, <1>4, <2>1, <2>3 DEF Unmounts, D
  <2>9. Once' /\ Fresh' /\ Imaged' /\ Mounts' /\ Ran' /\ Report' /\ Tidy'
    BY <1>2, <1>4, <2>3 DEF IInv, Once, Fresh, Imaged, Mounts, Ran, Report, Tidy, Starting
  <2> QED
    BY <2>6, <2>7, <2>8, <2>9 DEF IInv
<1> QED
  BY <1>3, <1>4

LEMMA FaultType ==
    ASSUME IInv, NoFault \/ Fault
    PROVE  used' \in [commands : Nat, faults : Nat, images : Nat] /\ used'.images = used.images
BY DEF NoFault, Fault, IInv, Types

(* One package's command while clean is on: what it may change.            *)
LEMMA EndingKeeps ==
    ASSUME IInv, cmd.pc = "ending", NEW p \in DOMAIN cmd.at, NEW from, NEW to \in Labels, Step(p, from, to),
           project' = project, DOMAIN index' \subseteq DOMAIN index,
           used' \in [commands : Nat, faults : Nat, images : Nat],
           tmp' \in [Pkgs -> Nat], nm' \in [Pkgs -> Nat], image' \in [Pkgs -> Nat], served' \in [Pkgs -> Nat],
           \A q \in Pkgs : nm'[q] <= nm[q],
           Unmounts'
    PROVE  IInv'
<1>1. s' = s /\ Pkgs' = Pkgs /\ All' = All /\ AllScripts' = AllScripts /\ Scripts' = Scripts /\ All \subseteq Pkgs
  BY Listed, Fixed DEF IInv, Types
<1>2. /\ cmd' \in CmdType /\ cmd'.goal = cmd.goal /\ cmd'.pc = "ending" /\ cmd'.rest = cmd.rest
      /\ cmd'.seen = cmd.seen /\ cmd'.cwd = cmd.cwd /\ cmd'.ran = cmd.ran
  BY StepFacts DEF IInv
<1>3. Types'
  BY <1>1, <1>2 DEF IInv, Types, CmdType
<1>4. \A q \in Pkgs : nm[q] \in Nat /\ nm'[q] \in Nat
  BY DEF IInv, Types
<1>5. Once'
  BY <1>1, <1>4 DEF IInv, Once
<1>6. Prepares'
  <2>1. Prepares /\ \A q \in Pkgs : nm'[q] > 0 => nm[q] > 0
    BY <1>4 DEF IInv
  <2> QED
    BY <1>1, <1>2, <2>1 DEF Prepares, Preparing
<1>7. Fresh' /\ Imaged' /\ Mounts' /\ Ran' /\ Report' /\ Tidy'
  BY <1>2 DEF Fresh, Imaged, Mounts, Ran, Report, Tidy, Starting
<1> QED
  BY <1>3, <1>5, <1>6, <1>7 DEF IInv

LEMMA UmountNmKeeps == ASSUME IInv, NEW p \in DOMAIN cmd.at, UmountNm(p) PROVE IInv'
<1>1. /\ project' = project /\ tmp' = tmp /\ base' = base /\ index' = index /\ image' = image
      /\ served' = served /\ kept' = kept /\ used' = used /\ cmd.pc = "ending" /\ cmd.at[p] = "nm"
  BY DEF UmountNm, files, services
<1>2. Pkgs' = Pkgs /\ p \in Pkgs
  BY <1>1, Fixed DEF IInv, Types, CmdType
<1>3. \A q \in Pkgs : nm[q] \in Nat /\ nm[q] <= 1
  BY DEF IInv, Types, Once
<1>4. PICK to \in {"tmp", "failed"} :
        /\ Step(p, "nm", to)
        /\ nm' = nm \/ (nm[p] > 0 /\ nm' = [nm EXCEPT ![p] = @ - 1])
        /\ to = "tmp" => nm' # nm \/ nm[p] = 0
  BY <1>2, <1>3 DEF UmountNm, IInv, Types
<1>5. /\ nm' \in [Pkgs -> Nat]
      /\ \A q \in Pkgs : nm'[q] <= nm[q]
      /\ to = "tmp" => nm'[p] = 0
      /\ \A q \in Pkgs : q # p => nm'[q] = nm[q]
  BY <1>2, <1>3, <1>4 DEF IInv, Types
<1>6. /\ cmd'.pc = "ending" /\ cmd'.cwd = cmd.cwd /\ DOMAIN cmd'.at = DOMAIN cmd.at /\ DOMAIN cmd.at \subseteq Pkgs
      /\ cmd'.at[p] = to /\ \A q \in DOMAIN cmd.at : q # p => cmd'.at[q] = cmd.at[q]
  BY <1>1, <1>4, StepFacts DEF IInv, Labels
<1>7. Unmounts'
  BY <1>1, <1>2, <1>4, <1>5, <1>6 DEF IInv, Unmounts
<1>8. /\ used' \in [commands : Nat, faults : Nat, images : Nat]
      /\ tmp' \in [Pkgs -> Nat] /\ image' \in [Pkgs -> Nat] /\ served' \in [Pkgs -> Nat]
      /\ DOMAIN index' \subseteq DOMAIN index /\ to \in Labels
  BY <1>1 DEF IInv, Types, Labels
<1> QED
  BY <1>1, <1>4, <1>5, <1>7, <1>8, EndingKeeps

LEMMA UmountTmpKeeps == ASSUME IInv, NEW p \in DOMAIN cmd.at, UmountTmp(p) PROVE IInv'
<1>1. /\ project' = project /\ nm' = nm /\ base' = base /\ index' = index /\ image' = image
      /\ served' = served /\ kept' = kept /\ used' = used /\ cmd.pc = "ending" /\ cmd.at[p] = "tmp"
  BY DEF UmountTmp, files, services
<1>2. Pkgs' = Pkgs /\ p \in Pkgs
  BY <1>1, Fixed DEF IInv, Types, CmdType
<1>3. \A q \in Pkgs : tmp[q] \in Nat /\ nm[q] \in Nat
  BY DEF IInv, Types
<1>4. PICK to \in {"nydusd", "failed"} :
        /\ Step(p, "tmp", to)
        /\ tmp' = tmp \/ (tmp[p] > 0 /\ tmp' = [tmp EXCEPT ![p] = @ - 1])
  BY <1>2, <1>3 DEF UmountTmp, Overlay, IInv, Types
<1>5. /\ tmp' \in [Pkgs -> Nat]
      /\ \A q \in Pkgs : q # p => tmp'[q] = tmp[q]
  BY <1>2, <1>3, <1>4 DEF IInv, Types
<1>6. /\ cmd'.pc = "ending" /\ cmd'.cwd = cmd.cwd /\ DOMAIN cmd'.at = DOMAIN cmd.at /\ DOMAIN cmd.at \subseteq Pkgs
      /\ cmd'.at[p] = to /\ \A q \in DOMAIN cmd.at : q # p => cmd'.at[q] = cmd.at[q]
  BY <1>1, <1>4, StepFacts DEF IInv, Labels
<1>7. Unmounts'
  BY <1>1, <1>2, <1>4, <1>5, <1>6 DEF IInv, Unmounts
<1>8. /\ used' \in [commands : Nat, faults : Nat, images : Nat]
      /\ nm' \in [Pkgs -> Nat] /\ image' \in [Pkgs -> Nat] /\ served' \in [Pkgs -> Nat]
      /\ DOMAIN index' \subseteq DOMAIN index /\ to \in Labels /\ \A q \in Pkgs : nm'[q] <= nm[q]
  BY <1>1, <1>3 DEF IInv, Types, Labels
<1> QED
  BY <1>1, <1>4, <1>5, <1>7, <1>8, EndingKeeps

LEMMA UmountNydusdKeeps == ASSUME IInv, NEW p \in DOMAIN cmd.at, UmountNydusd(p) PROVE IInv'
<1>1. /\ project' = project /\ nm' = nm /\ tmp' = tmp /\ base' = base /\ index' = index /\ image' = image
      /\ used' \in [commands : Nat, faults : Nat, images : Nat] /\ cmd.pc = "ending"
  BY FaultType DEF UmountNydusd, mounts, files
<1>2. Pkgs' = Pkgs /\ p \in Pkgs /\ \A q \in Pkgs : nm[q] \in Nat
  BY <1>1, Fixed DEF IInv, Types, CmdType
<1>3. PICK to \in {"rm", "failed"} :
        /\ Step(p, "nydusd", to)
        /\ served' = served \/ served' = [served EXCEPT ![p] = 0]
        /\ \A q : q # p => (q \in kept' <=> q \in kept)
        /\ to = "rm" /\ cmd.cwd = Root => served' = [served EXCEPT ![p] = 0] \/ p \in kept'
  BY DEF UmountNydusd, Stray
<1>4. /\ served' \in [Pkgs -> Nat]
      /\ \A q \in Pkgs : q # p => served'[q] = served[q] /\ (q \in kept' <=> q \in kept)
      /\ to = "rm" /\ cmd.cwd = Root => served'[p] = 0 \/ p \in kept'
  BY <1>2, <1>3 DEF IInv, Types
<1>5. /\ cmd'.pc = "ending" /\ cmd'.cwd = cmd.cwd /\ DOMAIN cmd'.at = DOMAIN cmd.at /\ DOMAIN cmd.at \subseteq Pkgs
      /\ cmd.at[p] = "nydusd"
      /\ cmd'.at[p] = to /\ \A q \in DOMAIN cmd.at : q # p => cmd'.at[q] = cmd.at[q]
  BY <1>1, <1>3, StepFacts DEF IInv, Labels
<1>6. Unmounts'
  BY <1>1, <1>2, <1>3, <1>4, <1>5 DEF IInv, Unmounts
<1>7. /\ nm' \in [Pkgs -> Nat] /\ tmp' \in [Pkgs -> Nat] /\ image' \in [Pkgs -> Nat]
      /\ DOMAIN index' \subseteq DOMAIN index /\ to \in Labels /\ \A q \in Pkgs : nm'[q] <= nm[q]
  BY <1>1, <1>2 DEF IInv, Types, Labels
<1> QED
  BY <1>1, <1>3, <1>4, <1>6, <1>7, EndingKeeps

LEMMA RemoveBaseKeeps == ASSUME IInv, NEW p \in DOMAIN cmd.at, RemoveBase(p) PROVE IInv'
<1>1. /\ project' = project /\ nm' = nm /\ tmp' = tmp /\ served' = served /\ kept' = kept
      /\ used' = used /\ cmd.pc = "ending"
  BY DEF RemoveBase, mounts, services
<1>2. Pkgs' = Pkgs /\ p \in Pkgs /\ \A q \in Pkgs : nm[q] \in Nat /\ tmp[q] \in Nat
  BY <1>1, Fixed DEF IInv, Types, CmdType
<1>3. PICK to \in {"done", "failed"} :
        /\ Step(p, "rm", to)
        /\ to = "done" /\ cmd.cwd = Root => tmp[p] = 0 /\ base' = base \ {p}
  BY <1>2 DEF RemoveBase, Overlay, Stray
<1>4. /\ base' \subseteq base
      /\ DOMAIN index' \subseteq DOMAIN index
      /\ image' \in [Pkgs -> Nat]
  BY <1>2 DEF RemoveBase, files, NoIndex, NoImage, Without, IInv, Types
<1>5. /\ cmd'.pc = "ending" /\ cmd'.cwd = cmd.cwd /\ DOMAIN cmd'.at = DOMAIN cmd.at /\ DOMAIN cmd.at \subseteq Pkgs
      /\ cmd.at[p] = "rm"
      /\ cmd'.at[p] = to /\ \A q \in DOMAIN cmd.at : q # p => cmd'.at[q] = cmd.at[q]
  BY <1>1, <1>3, StepFacts DEF IInv, Labels
<1>6. Unmounts'
  BY <1>1, <1>2, <1>3, <1>4, <1>5 DEF IInv, Unmounts
<1>7. /\ nm' \in [Pkgs -> Nat] /\ tmp' \in [Pkgs -> Nat] /\ served' \in [Pkgs -> Nat]
      /\ used' \in [commands : Nat, faults : Nat, images : Nat]
      /\ to \in Labels /\ \A q \in Pkgs : nm'[q] <= nm[q]
  BY <1>1, <1>2 DEF IInv, Types, Labels
<1> QED
  BY <1>1, <1>3, <1>4, <1>6, <1>7, EndingKeeps

LEMMA EndCleanKeeps == ASSUME IInv, EndClean PROVE IInv'
<1> USE DEF EndClean, mounts, services
<1>1. cmd.pc = "ending" /\ cmd.pc \in Preparing /\ cmd.rest \in Seq(Pkgs)
      /\ \/ cmd.goal = "clean" /\ cmd.cwd = Root
         \/ cmd.goal = "install" /\ cmd.rest # <<>> /\ cmd.cwd = Head(cmd.rest)
  BY DEF IInv, Prepares, Preparing
<1>2. /\ s' = s /\ Pkgs' = Pkgs /\ All' = All /\ AllScripts' = AllScripts /\ Scripts' = Scripts
      /\ cmd.cwd \in Pkgs /\ All \subseteq Pkgs
  BY Listed, Fixed DEF IInv, Types, CmdType
<1>3. CASE AnyFailed
  <2>1. /\ served' \in [Pkgs -> Nat] /\ DOMAIN index' \subseteq All
        /\ used' \in [commands : Nat, faults : Nat, images : Nat]
    BY DEF IInv, Types
  <2> QED
    BY <1>3, <2>1, EndKeeps DEF Fails
<1>4. CASE ~AnyFailed
  <2>1. DOMAIN cmd.at = (IF cmd.cwd = Root THEN Pkgs ELSE {cmd.cwd}) /\ \A p \in DOMAIN cmd.at : cmd.at[p] = "done"
    BY <1>1, <1>4 DEF IInv, Unmounts, Settled, AnyFailed
  <2>2. \A p \in DOMAIN cmd.at : nm[p] = 0
    BY <1>1, <2>1 DEF IInv, Unmounts
  <2>3. CASE cmd.goal = "install"
    <3>1. nm[Head(cmd.rest)] = 0
      BY <1>1, <1>2, <2>1, <2>2, <2>3
    <3> QED
      BY <1>1, <1>4, <2>3, <3>1, MakeBaseKeeps DEF CleanEnds
  <2>4. CASE cmd.goal = "clean"
    <3>1. cmd' = Idle /\ cmd'.pc = "none" /\ cmd'.ran = <<>> /\ outcome'.how = "cleaned" /\ base' = base
         /\ ~outcome'.failed
      <4>1. End("cleaned") /\ base' = base
        BY <1>4, <2>4 DEF CleanEnds
      <4>2. "cleaned" # "failed" /\ ~("cleaned" # "cleaned")
        OBVIOUS
      <4>3. outcome'.failed = ("cleaned" = "failed" \/ ("cleaned" # "cleaned" /\ outcome.failed))
        BY <4>1 DEF End, Ended
      <4>4. ~outcome'.failed
        BY <4>2, <4>3, Zenon
      <4> QED
        BY <4>1, <4>4 DEF End, Ended, Idle
    <3>2. \A p \in Pkgs : Gone(p)
      BY <1>1, <2>1, <2>4 DEF IInv, Unmounts, Gone
    <3>3. Types'
      BY <1>2, <3>1, IdleType DEF IInv, Types, CmdType
    <3>4. Report' /\ Tidy'
      BY <1>2, <3>1, <3>2 DEF Report, Tidy, Gone
    <3>5. Once' /\ Prepares' /\ Unmounts' /\ Fresh' /\ Imaged' /\ Mounts' /\ Ran'
      BY <1>2, <3>1 DEF IInv, Once, Prepares, Unmounts, Fresh, Imaged, Mounts, Ran, Preparing, Starting
    <3> QED
      BY <3>3, <3>4, <3>5 DEF IInv
  <2> QED
    BY <1>1, <2>3, <2>4
<1> QED
  BY <1>3, <1>4

-----------------------------------------------------------------------------
(* The install, up to the mounts.                                          *)

LEMMA GotoFacts ==
    ASSUME Types, NEW pc \in {"mount", "mounting", "scripts"} \cup Starting, Goto(pc)
    PROVE  /\ cmd' \in CmdType /\ cmd'.goal = cmd.goal /\ cmd'.pc = pc /\ cmd'.rest = cmd.rest
           /\ cmd'.ran = cmd.ran
BY DEF Goto, Types, CmdType

(* A step on the way to the mounts; nothing of the project is mounted.     *)
LEMMA StartingKeeps ==
    ASSUME IInv, cmd.goal = "install", cmd.pc # "scripts", NEW pc \in Starting, Goto(pc), \A p \in All : nm[p] = 0,
           UNCHANGED <<project, tmp, nm, image>>, served' \in [Pkgs -> Nat],
           DOMAIN index' \subseteq All, used' \in [commands : Nat, faults : Nat, images : Nat]
    PROVE  IInv'
<1>1. s' = s /\ Pkgs' = Pkgs /\ All' = All /\ AllScripts' = AllScripts /\ Scripts' = Scripts
  BY Fixed
<1>2. cmd' \in CmdType /\ cmd'.goal = cmd.goal /\ cmd'.pc = pc /\ cmd'.ran = <<>>
  BY GotoFacts DEF IInv, Prepares
<1>3. Types'
  BY <1>1, <1>2 DEF IInv, Types, CmdType
<1>4. Once' /\ Prepares' /\ Unmounts' /\ Fresh' /\ Imaged' /\ Mounts' /\ Ran' /\ Report' /\ Tidy'
  BY <1>1, <1>2 DEF IInv, Once, Prepares, Unmounts, Fresh, Imaged, Mounts, Ran, Report, Tidy, Preparing, Starting
<1> QED
  BY <1>3, <1>4 DEF IInv

LEMMA DownloadKeeps == ASSUME IInv, Download \/ DownloadFails PROVE IInv'
<1>1. /\ cmd.pc = "loop" /\ cmd.rest = <<>> /\ cmd.goal = "install" /\ project' = project
      /\ tmp' = tmp /\ nm' = nm /\ image' = image /\ served' = served
  BY DEF Download, DownloadFails, Downloading, mounts, files, services, IInv, Prepares
<1>2. used' \in [commands : Nat, faults : Nat, images : Nat]
  BY FaultType DEF Download, DownloadFails, NoFault
<1>3. /\ served' \in [Pkgs -> Nat] /\ DOMAIN index \subseteq All /\ cmd.rest \in Seq(Pkgs)
      /\ \A p \in All : nm[p] > 0 => p \in ToSet(cmd.rest)
  BY <1>1 DEF IInv, Types, Prepares, Preparing
<1>4. \A p \in All : nm[p] = 0
  <2>1. All \subseteq Pkgs
    BY Listed DEF IInv, Types
  <2>2. ToSet(cmd.rest) = {}
    BY <1>1, <1>3, HeadTail
  <2> QED
    BY <1>3, <2>1, <2>2 DEF IInv, Types
<1>5. CASE DownloadFails
  BY <1>1, <1>2, <1>3, <1>5, EndKeeps DEF DownloadFails, files, Fails
<1>6. CASE Download
  <2>1. CASE Fails /\ index' = index
    BY <1>1, <1>2, <1>3, <2>1, EndKeeps DEF Fails
  <2>2. CASE DOMAIN index' = DOMAIN MapsOf[project] \cup DOMAIN index /\ Goto("nydusd")
    <3>1. project \in DOMAIN Projects
      BY DEF IInv, Types
    <3>2. DOMAIN MapsOf[project] = All
      BY <3>1 DEF MapsOf, All, s
    <3>3. DOMAIN index' \subseteq All
      BY <1>3, <2>2, <3>2
    <3> QED
      BY <1>1, <1>2, <1>3, <1>4, <2>2, <3>3, StartingKeeps DEF Starting
  <2> QED
    BY <1>6, <2>1, <2>2 DEF Download
<1> QED
  BY <1>5, <1>6

(* What nydusd's end leaves: everything it served is lost.                 *)
LEMMA DownFacts ==
    ASSUME Types, Down, harm' = Lost, image' = image, Pkgs' = Pkgs
    PROVE  /\ served' \in [Pkgs -> Nat] /\ \A p \in Pkgs : served'[p] = 0
           /\ \A p \in Pkgs : image[p] > 0 /\ Serves(p) => Serves(p)'
BY DEF Types, Down, Lost, Serves

LEMMA InitDaemonKeeps == ASSUME IInv, InitDaemon PROVE IInv'
<1>1. /\ project' = project /\ tmp' = tmp /\ nm' = nm /\ image' = image /\ index' = index
      /\ served' = served /\ cmd.pc = "nydusd" /\ cmd.goal = "install" /\ \A p \in All : nm[p] = 0
  BY DEF InitDaemon, mounts, files, IInv, Prepares, Fresh, Starting
<1>2. /\ served' \in [Pkgs -> Nat] /\ DOMAIN index' \subseteq All
      /\ used' \in [commands : Nat, faults : Nat, images : Nat]
  BY <1>1, FaultType DEF InitDaemon, IInv, Types
<1>3. Goto("deamon") \/ End("failed")
  BY DEF InitDaemon, Fails
<1> QED
  BY <1>1, <1>2, <1>3, StartingKeeps, EndKeeps DEF Starting

LEMMA InitDeamonKeeps == ASSUME IInv, InitDeamon PROVE IInv'
<1>1. /\ project' = project /\ tmp' = tmp /\ nm' = nm /\ image' = image /\ index' = index /\ used' = used
      /\ cmd.pc = "deamon" /\ cmd.goal = "install" /\ \A p \in All : nm[p] = 0
  BY DEF InitDeamon, mounts, files, IInv, Prepares, Fresh, Starting
<1>2. served' \in [Pkgs -> Nat]
  BY DEF InitDeamon, Down, IInv, Types
<1>3. DOMAIN index' \subseteq All /\ used' \in [commands : Nat, faults : Nat, images : Nat]
  BY <1>1 DEF IInv, Types
<1>4. Goto("bootstrap")
  BY DEF InitDeamon
<1> QED
  BY <1>1, <1>2, <1>3, <1>4, StartingKeeps DEF Starting

LEMMA GenerateBootstrapKeeps == ASSUME IInv, GenerateBootstrap PROVE IInv'
<1>1. /\ project' = project /\ tmp' = tmp /\ nm' = nm /\ index' = index /\ served' = served
      /\ cmd.pc = "bootstrap" /\ cmd.goal = "install" /\ cmd.ran = <<>> /\ \A p \in All : nm[p] = 0
  BY DEF GenerateBootstrap, mounts, services, IInv, Prepares, Fresh, Starting
<1>2. /\ s' = s /\ Pkgs' = Pkgs /\ All' = All /\ AllScripts' = AllScripts /\ Scripts' = Scripts
      /\ Everyone \in Seq(Pkgs) /\ ToSet(Everyone) = Pkgs
  BY <1>1, Listed, Fixed DEF IInv, Types
<1>3. CASE Fails /\ image' = image /\ used' = used
  <2>1. served' \in [Pkgs -> Nat] /\ DOMAIN index' \subseteq All /\ used' \in [commands : Nat, faults : Nat, images : Nat]
    BY <1>1, <1>3 DEF IInv, Types
  <2> QED
    BY <1>1, <1>3, <2>1, EndKeeps DEF Fails
<1>4. CASE /\ \A p \in Pkgs : p \in DOMAIN index
           /\ used' = [used EXCEPT !.images = @ + 1] /\ image' = Images(used'.images)
           /\ cmd' = [cmd EXCEPT !.pc = "mount", !.rest = Everyone]
  <2>1. \A p \in Pkgs : p \in All
    BY <1>4 DEF IInv, Types
  <2>2. /\ used' \in [commands : Nat, faults : Nat, images : Nat] /\ used'.images > 0
        /\ image' \in [Pkgs -> Nat] /\ \A p \in Pkgs : image'[p] = used'.images
    BY <1>4 DEF Images, IInv, Types
  <2>3. /\ cmd' \in CmdType /\ cmd'.goal = "install" /\ cmd'.pc = "mount" /\ cmd'.rest = Everyone /\ cmd'.ran = <<>>
    BY <1>1, <1>2, <1>4 DEF IInv, Types, CmdType
  <2>4. Types'
    BY <1>1, <1>2, <2>2, <2>3 DEF IInv, Types, CmdType
  <2>5. Fresh'
    BY <1>1, <1>2, <2>1, <2>3 DEF Fresh, Starting
  <2>6. Imaged'
    BY <1>2, <2>2, <2>3 DEF Imaged
  <2>7. Once' /\ Prepares' /\ Unmounts' /\ Mounts' /\ Ran' /\ Report' /\ Tidy'
    BY <1>1, <1>2, <2>3 DEF IInv, Once, Prepares, Unmounts, Mounts, Ran, Report, Tidy, Preparing
  <2> QED
    BY <2>4, <2>5, <2>6, <2>7 DEF IInv
<1> QED
  BY <1>3, <1>4 DEF GenerateBootstrap

-----------------------------------------------------------------------------
(* The mounts.                                                             *)

LEMMA MountNydusKeeps == ASSUME IInv, MountNydus PROVE IInv'
<1>1. /\ project' = project /\ tmp' = tmp /\ nm' = nm /\ index' = index /\ image' = image
      /\ cmd.pc = "mount" /\ cmd.goal = "install" /\ cmd.ran = <<>> /\ cmd.rest \in Seq(Pkgs) /\ cmd.rest # <<>>
      /\ \A p \in Pkgs : nm[p] = 0
  BY DEF MountNydus, mounts, files, IInv, Prepares, Fresh
<1>2. /\ s' = s /\ Pkgs' = Pkgs /\ All' = All /\ AllScripts' = AllScripts /\ Scripts' = Scripts /\ All \subseteq Pkgs
  BY <1>1, Listed, Fixed DEF IInv, Types
<1>h. PICK h \in Pkgs : h = Head(cmd.rest)
  BY <1>1, HeadTail
<1>3. /\ h \in Pkgs /\ Tail(cmd.rest) \in Seq(Pkgs)
      /\ ToSet(cmd.rest) = {h} \cup ToSet(Tail(cmd.rest))
  BY <1>1, <1>h, HeadTail
<1>4. CASE Fails /\ NoFault /\ served' = served
  <2>1. served' \in [Pkgs -> Nat] /\ DOMAIN index' \subseteq All /\ used' \in [commands : Nat, faults : Nat, images : Nat]
    BY <1>1, <1>4 DEF NoFault, IInv, Types
  <2> QED
    BY <1>1, <1>4, <2>1, EndKeeps DEF Fails
<1>5. CASE Mount(h) /\ cmd' = [cmd EXCEPT !.rest = Tail(@)]
  <2>1. used' \in [commands : Nat, faults : Nat, images : Nat] /\ used'.images = used.images
    BY <1>5, FaultType DEF Mount
  <2>2. /\ served' \in [Pkgs -> Nat] /\ Serves(h)'
        /\ \A p \in Pkgs : p # h => served'[p] = served[p] /\ (p \in harm' <=> p \in harm)
    BY <1>1, <1>3, <1>5 DEF Mount, Serves, IInv, Types
  <2>3. /\ cmd' \in CmdType /\ cmd'.goal = "install" /\ cmd'.pc = "mount" /\ cmd'.rest = Tail(cmd.rest)
        /\ cmd'.ran = <<>>
    BY <1>1, <1>3, <1>5 DEF IInv, Types, CmdType
  <2>4. Types'
    BY <1>1, <1>2, <2>1, <2>2, <2>3 DEF IInv, Types, CmdType
  <2>5. Imaged'
    <3>1. used.images > 0 /\ \A p \in Pkgs : image[p] = used.images
      BY <1>1 DEF IInv, Imaged
    <3>2. \A p \in Pkgs : p \in ToSet(Tail(cmd.rest)) \/ p = h \/ Serves(p)
      BY <1>1, <1>3 DEF IInv, Imaged
    <3>3. \A p \in Pkgs : p \in ToSet(Tail(cmd.rest)) \/ Serves(p)'
      BY <1>1, <2>2, <3>2 DEF Serves
    <3> QED
      BY <1>1, <1>2, <2>1, <2>3, <3>1, <3>3 DEF Imaged
  <2>6. Once' /\ Prepares' /\ Unmounts' /\ Fresh' /\ Mounts' /\ Ran' /\ Report' /\ Tidy'
    BY <1>1, <1>2, <1>3, <2>3 DEF IInv, Once, Prepares, Unmounts, Fresh, Mounts, Ran, Report, Tidy, Preparing, Starting
  <2> QED
    BY <2>4, <2>5, <2>6 DEF IInv
<1> QED
  BY <1>h, <1>4, <1>5 DEF MountNydus

LEMMA BeginOverlayKeeps == ASSUME IInv, BeginOverlay PROVE IInv'
<1>1. /\ project' = project /\ tmp' = tmp /\ nm' = nm /\ index' = index /\ image' = image /\ served' = served
      /\ harm' = harm /\ used' = used
      /\ cmd.pc = "mount" /\ cmd.goal = "install" /\ cmd.ran = <<>> /\ cmd.rest = <<>> /\ cmd.rest \in Seq(Pkgs)
      /\ \A p \in Pkgs : nm[p] = 0
  BY DEF BeginOverlay, mounts, files, services, IInv, Prepares, Fresh
<1>2. s' = s /\ Pkgs' = Pkgs /\ All' = All /\ AllScripts' = AllScripts /\ Scripts' = Scripts
  BY <1>1, Fixed
<1> DEFINE at1 == [p \in Pkgs |-> "tmpfs"]
<1>3. at1 \in [Pkgs -> Labels] /\ DOMAIN at1 = Pkgs /\ \A p \in Pkgs : at1[p] = "tmpfs"
  BY DEF Labels
<1>4. at1 \in UNION {[D -> Labels] : D \in SUBSET Pkgs}
  BY <1>3
<1> HIDE DEF at1
<1>5. cmd' = [cmd EXCEPT !.pc = "mounting", !.at = at1]
  BY DEF BeginOverlay, at1
<1>6. /\ cmd' \in CmdType /\ cmd'.goal = "install" /\ cmd'.pc = "mounting" /\ cmd'.at = at1 /\ cmd'.ran = <<>>
  BY <1>1, <1>4, <1>5 DEF IInv, Types, CmdType
<1>7. Types'
  BY <1>1, <1>2, <1>6 DEF IInv, Types, CmdType
<1>8. ToSet(cmd.rest) = {}
  BY <1>1, HeadTail
<1>9. Imaged'
  BY <1>1, <1>2, <1>6, <1>8 DEF IInv, Imaged, Serves
<1>10. Mounts'
  BY <1>1, <1>2, <1>3, <1>6 DEF Mounts
<1>11. Once' /\ Prepares' /\ Unmounts' /\ Fresh' /\ Ran' /\ Report' /\ Tidy'
  BY <1>1, <1>2, <1>6 DEF IInv, Once, Prepares, Unmounts, Fresh, Ran, Report, Tidy, Preparing, Starting
<1> QED
  BY <1>7, <1>9, <1>10, <1>11 DEF IInv

(* One package's command while the overlays are mounted.                   *)
LEMMA MountingKeeps ==
    ASSUME IInv, cmd.pc = "mounting", NEW p \in DOMAIN cmd.at, NEW from, NEW to \in Labels, Step(p, from, to),
           UNCHANGED <<project, index, image, served, harm>>,
           used' \in [commands : Nat, faults : Nat, images : Nat] /\ used'.images = used.images,
           tmp' \in [Pkgs -> Nat], nm' \in [Pkgs -> Nat],
           \A q \in Pkgs : nm'[q] <= 1,
           Mounts'
    PROVE  IInv'
<1>1. s' = s /\ Pkgs' = Pkgs /\ All' = All /\ AllScripts' = AllScripts /\ Scripts' = Scripts
  BY Fixed
<1>2. /\ cmd' \in CmdType /\ cmd'.goal = cmd.goal /\ cmd'.pc = "mounting" /\ cmd'.ran = cmd.ran
  BY StepFacts DEF IInv
<1>3. Types'
  BY <1>1, <1>2 DEF IInv, Types, CmdType
<1>4. Once' /\ Prepares' /\ Unmounts' /\ Fresh' /\ Imaged' /\ Ran' /\ Report' /\ Tidy'
  BY <1>1, <1>2 DEF IInv, Once, Prepares, Unmounts, Fresh, Imaged, Serves, Ran, Report, Tidy, Preparing, Starting
<1> QED
  BY <1>3, <1>4 DEF IInv

LEMMA MountTmpfsKeeps == ASSUME IInv, NEW p \in DOMAIN cmd.at, MountTmpfs(p) PROVE IInv'
<1>1. /\ project' = project /\ nm' = nm /\ index' = index /\ image' = image
      /\ served' = served /\ harm' = harm /\ cmd.pc = "mounting" /\ cmd.at[p] = "tmpfs"
  BY DEF MountTmpfs, files, services
<1>2. Pkgs' = Pkgs /\ p \in Pkgs /\ \A q \in Pkgs : tmp[q] \in Nat
  BY <1>1, Fixed DEF IInv, Types, CmdType
<1>3. PICK to \in {"overlay", "failed"} :
        /\ Step(p, "tmpfs", to)
        /\ tmp' \in [Pkgs -> Nat] /\ \A q \in Pkgs : q # p => tmp'[q] = tmp[q]
        /\ to = "overlay" => tmp'[p] >= 1
  BY <1>2 DEF MountTmpfs, IInv, Types
<1>4. used' \in [commands : Nat, faults : Nat, images : Nat] /\ used'.images = used.images
  BY FaultType DEF MountTmpfs
<1>5. /\ cmd'.pc = "mounting" /\ DOMAIN cmd'.at = DOMAIN cmd.at /\ DOMAIN cmd.at \subseteq Pkgs
      /\ cmd'.at[p] = to /\ \A q \in DOMAIN cmd.at : q # p => cmd'.at[q] = cmd.at[q]
  BY <1>1, <1>3, StepFacts DEF IInv, Labels
<1>6. Mounts'
  BY <1>1, <1>2, <1>3, <1>5 DEF IInv, Mounts
<1>7. nm' \in [Pkgs -> Nat] /\ to \in Labels /\ \A q \in Pkgs : nm'[q] <= 1
  BY <1>1 DEF IInv, Types, Once, Labels
<1> QED
  BY <1>1, <1>3, <1>4, <1>6, <1>7, MountingKeeps

LEMMA MountOverlayKeeps == ASSUME IInv, NEW p \in DOMAIN cmd.at, MountOverlay(p) PROVE IInv'
<1>1. /\ project' = project /\ tmp' = tmp /\ index' = index /\ image' = image
      /\ served' = served /\ harm' = harm /\ cmd.pc = "mounting" /\ cmd.at[p] = "overlay"
  BY DEF MountOverlay, files, services
<1>2. Pkgs' = Pkgs /\ p \in Pkgs /\ nm[p] = 0
  BY <1>1, Fixed DEF IInv, Types, CmdType, Mounts
<1>3. PICK to \in {"done", "failed"} :
        /\ Step(p, "overlay", to)
        /\ nm' \in [Pkgs -> Nat] /\ \A q \in Pkgs : q # p => nm'[q] = nm[q]
        /\ nm'[p] = IF to = "done" THEN 1 ELSE 0
  BY <1>2 DEF MountOverlay, IInv, Types
<1>4. used' \in [commands : Nat, faults : Nat, images : Nat] /\ used'.images = used.images
  BY FaultType DEF MountOverlay
<1>5. /\ cmd'.pc = "mounting" /\ DOMAIN cmd'.at = DOMAIN cmd.at /\ DOMAIN cmd.at \subseteq Pkgs
      /\ cmd'.at[p] = to /\ \A q \in DOMAIN cmd.at : q # p => cmd'.at[q] = cmd.at[q]
  BY <1>1, <1>3, StepFacts DEF IInv, Labels
<1>6. Mounts'
  BY <1>1, <1>2, <1>3, <1>5 DEF IInv, Mounts
<1>7. tmp' \in [Pkgs -> Nat] /\ to \in Labels
  BY <1>1 DEF IInv, Types, Labels
<1>8. \A q \in Pkgs : nm'[q] <= 1
  BY <1>3 DEF IInv, Once
<1> QED
  BY <1>1, <1>3, <1>4, <1>6, <1>7, <1>8, MountingKeeps

-----------------------------------------------------------------------------
(* The scripts.                                                            *)

LEMMA NoneRan == RanOf(0, <<>>)
<1>1. {} \in SUBSET (1..0) /\ Cardinality({}) = 0 /\ Len(<<>>) = 0
  BY FS_EmptySet
<1> QED
  BY <1>1 DEF RanOf

(* One script more has been passed over, or has run.                       *)
LEMMA RanSkips ==
    ASSUME NEW n \in Nat, NEW ran, RanOf(n, ran), MayMiss(AllScripts[n + 1])
    PROVE  RanOf(n + 1, ran)
<1>1. PICK done \in SUBSET (1..n) :
        /\ Cardinality(done) = Len(ran)
        /\ \A k \in done : ran[Cardinality({j \in done : j <= k})] = AllScripts[k]
        /\ \A k \in (1..n) \ done : MayMiss(AllScripts[k])
  BY DEF RanOf
<1>2. 1..n + 1 = (1..n) \cup {n + 1}
  OBVIOUS
<1>3. done \in SUBSET (1..n + 1) /\ \A k \in (1..n + 1) \ done : MayMiss(AllScripts[k])
  BY <1>1, <1>2
<1> QED
  BY <1>1, <1>3 DEF RanOf

LEMMA RanGrows ==
    ASSUME NEW S, NEW n \in Nat, NEW ran \in Seq(S), RanOf(n, ran), AllScripts[n + 1] \in S
    PROVE  RanOf(n + 1, Append(ran, AllScripts[n + 1]))
<1>1. PICK done \in SUBSET (1..n) :
        /\ Cardinality(done) = Len(ran)
        /\ \A k \in done : ran[Cardinality({j \in done : j <= k})] = AllScripts[k]
        /\ \A k \in (1..n) \ done : MayMiss(AllScripts[k])
  BY DEF RanOf
<1> DEFINE more == done \cup {n + 1}
           UpTo(K, k) == {j \in K : j <= k}
<1>2. IsFiniteSet(1..n) /\ IsFiniteSet(done) /\ n + 1 \notin done
  <2>1. IsFiniteSet(1..n)
    BY FS_Interval
  <2>2. IsFiniteSet(done)
    BY <2>1, FS_Subset
  <2>3. n + 1 \notin 1..n
    OBVIOUS
  <2> QED
    BY <2>1, <2>2, <2>3
<1>0. \A k \in done : k \in Nat /\ k <= n /\ ~(n + 1 <= k) /\ k <= n + 1
  OBVIOUS
<1>3. Cardinality(more) = Len(ran) + 1
  BY <1>1, <1>2, FS_AddElement
<1>4. \A k \in done : UpTo(more, k) = UpTo(done, k)
  BY <1>0
<1>5. UpTo(more, n + 1) = more
  <2>1. n + 1 <= n + 1 /\ \A k \in more : k <= n + 1
    BY <1>0
  <2> QED
    BY <2>1
<1>6. ASSUME NEW k \in done PROVE Cardinality(UpTo(done, k)) \in 1..Len(ran)
  <2>1. UpTo(done, k) \subseteq done /\ k \in UpTo(done, k)
    OBVIOUS
  <2>2. Cardinality(UpTo(done, k)) \in Nat /\ Cardinality(UpTo(done, k)) <= Cardinality(done)
    BY <1>2, <2>1, FS_Subset, FS_CardinalityType
  <2>3. Cardinality(UpTo(done, k)) # 0
    BY <1>2, <2>1, FS_Subset, FS_EmptySet
  <2> QED
    BY <1>1, <2>2, <2>3
<1>7. /\ Len(Append(ran, AllScripts[n + 1])) = Len(ran) + 1
      /\ Append(ran, AllScripts[n + 1])[Len(ran) + 1] = AllScripts[n + 1]
      /\ \A i \in 1..Len(ran) : Append(ran, AllScripts[n + 1])[i] = ran[i]
  OBVIOUS
<1>8. ASSUME NEW k \in more
      PROVE  Append(ran, AllScripts[n + 1])[Cardinality({j \in more : j <= k})] = AllScripts[k]
  <2>1. CASE k = n + 1
    BY <1>3, <1>5, <1>7, <2>1
  <2>2. CASE k \in done
    BY <1>1, <1>4, <1>6, <1>7, <2>2
  <2> QED
    BY <2>1, <2>2
<1>9. more \in SUBSET (1..n + 1) /\ \A k \in (1..n + 1) \ more : MayMiss(AllScripts[k])
  <2>1. 1..n + 1 = (1..n) \cup {n + 1}
    OBVIOUS
  <2> QED
    BY <1>1, <2>1
<1> HIDE DEF more
<1> QED
  BY <1>3, <1>7, <1>8, <1>9 DEF RanOf

LEMMA EndMountKeeps == ASSUME IInv, EndMount PROVE IInv'
<1>1. /\ project' = project /\ tmp' = tmp /\ nm' = nm /\ index' = index /\ image' = image /\ served' = served
      /\ harm' = harm /\ used' = used /\ cmd.pc = "mounting" /\ cmd.goal = "install" /\ cmd.ran = <<>>
  BY DEF EndMount, mounts, files, services, IInv, Prepares
<1>2. /\ s' = s /\ Pkgs' = Pkgs /\ All' = All /\ AllScripts' = AllScripts /\ Scripts' = Scripts
      /\ AllScripts \in Seq(Scripts)
  BY <1>1, Fixed, Listed DEF IInv, Types
<1>3. CASE Fails
  <2>1. served' \in [Pkgs -> Nat] /\ DOMAIN index' \subseteq All /\ used' \in [commands : Nat, faults : Nat, images : Nat]
    BY <1>1 DEF IInv, Types
  <2> QED
    BY <1>1, <1>3, <2>1, EndKeeps DEF Fails
<1>4. CASE ~AnyFailed /\ cmd' = [cmd EXCEPT !.pc = "scripts", !.rest = AllScripts]
  <2>1. /\ cmd' \in CmdType /\ cmd'.goal = "install" /\ cmd'.pc = "scripts" /\ cmd'.rest = AllScripts
        /\ cmd'.ran = <<>>
    BY <1>1, <1>2, <1>4 DEF IInv, Types, CmdType
  <2>2. Types'
    BY <1>1, <1>2, <2>1 DEF IInv, Types, CmdType
  <2>3. DOMAIN cmd.at = Pkgs /\ \A p \in Pkgs : cmd.at[p] = "done"
    BY <1>1, <1>4 DEF EndMount, Settled, AnyFailed, IInv, Mounts
  <2>4. Mounts'
    BY <1>1, <1>2, <2>1, <2>3 DEF IInv, Mounts
  <2>5. Ran'
    <3>1. AllScripts = SubSeq(AllScripts, 0 + 1, Len(AllScripts)) /\ 0 \in 0..Len(AllScripts)
      BY <1>2
    <3>2. RanOf(0, <<>>)'
      BY <1>2, NoneRan DEF RanOf
    <3> QED
      BY <1>2, <2>1, <3>1, <3>2 DEF Ran
  <2>6. Imaged'
    BY <1>1, <1>2, <2>1 DEF IInv, Imaged, Serves
  <2>7. Once' /\ Prepares' /\ Unmounts' /\ Fresh' /\ Report' /\ Tidy'
    BY <1>1, <1>2, <2>1 DEF IInv, Once, Prepares, Unmounts, Fresh, Report, Tidy, Preparing, Starting
  <2> QED
    BY <2>2, <2>4, <2>5, <2>6, <2>7 DEF IInv
<1> QED
  BY <1>3, <1>4 DEF EndMount

\* Where the list of the scripts that are left stands.
LEMMA Remaining ==
    ASSUME NEW S, NEW q \in Seq(S), NEW n \in 0..Len(q), SubSeq(q, n + 1, Len(q)) # <<>>
    PROVE  /\ n + 1 \in 0..Len(q) /\ n + 1 \in DOMAIN q
           /\ Head(SubSeq(q, n + 1, Len(q))) = q[n + 1]
           /\ Tail(SubSeq(q, n + 1, Len(q))) = SubSeq(q, n + 2, Len(q))
<1>1. Len(q) \in Nat /\ n \in Nat /\ n < Len(q)
  OBVIOUS
<1> DEFINE r == SubSeq(q, n + 1, Len(q))
           u == SubSeq(q, n + 2, Len(q))
<1>2. r \in Seq(S) /\ Len(r) = Len(q) - n /\ \A i \in 1..Len(q) - n : r[i] = q[n + i]
  BY <1>1
<1>3. u \in Seq(S) /\ Len(u) = Len(q) - n - 1 /\ \A i \in 1..Len(q) - n - 1 : u[i] = q[n + 1 + i]
  BY <1>1
<1> HIDE DEF r, u
<1>4. Head(r) = q[n + 1] /\ Tail(r) \in Seq(S) /\ Len(Tail(r)) = Len(q) - n - 1
      /\ \A i \in 1..Len(q) - n - 1 : Tail(r)[i] = q[n + 1 + i]
  BY <1>1, <1>2
<1>5. Tail(r) = u
  <2>1. \A i \in 1..Len(u) : Tail(r)[i] = u[i]
    BY <1>3, <1>4
  <2> QED
    BY <1>3, <1>4, <2>1, SeqEqual
<1> QED
  BY <1>1, <1>4, <1>5 DEF r, u

LEMMA RunScriptKeeps == ASSUME IInv, RunScript PROVE IInv'
<1>1. /\ project' = project /\ tmp' = tmp /\ nm' = nm /\ index' = index /\ image' = image /\ served' = served
      /\ harm' = harm /\ cmd.pc = "scripts" /\ cmd.rest # <<>> /\ cmd.goal = "install"
      /\ used' \in [commands : Nat, faults : Nat, images : Nat] /\ used'.images = used.images
  BY FaultType DEF RunScript, mounts, files, services, IInv, Prepares
<1>2. /\ s' = s /\ Pkgs' = Pkgs /\ All' = All /\ AllScripts' = AllScripts /\ Scripts' = Scripts
      /\ AllScripts \in Seq(Scripts)
  BY <1>1, Fixed, Listed DEF IInv, Types
<1>3. PICK n \in 0..Len(AllScripts) :
        cmd.rest = SubSeq(AllScripts, n + 1, Len(AllScripts)) /\ RanOf(n, cmd.ran)
  BY <1>1 DEF IInv, Ran
<1>4. /\ n + 1 \in 0..Len(AllScripts) /\ Head(cmd.rest) = AllScripts[n + 1]
      /\ Tail(cmd.rest) = SubSeq(AllScripts, n + 2, Len(AllScripts))
      /\ AllScripts[n + 1] \in Scripts /\ Tail(cmd.rest) \in Seq(Scripts) /\ n \in Nat
  BY <1>1, <1>2, <1>3, Remaining
<1>5. cmd.ran \in Seq(Scripts)
  BY DEF IInv, Types, CmdType
<1>6. CASE Fails
  <2>1. served' \in [Pkgs -> Nat] /\ DOMAIN index' \subseteq All
    BY <1>1 DEF IInv, Types
  <2> QED
    BY <1>1, <1>6, <2>1, EndKeeps DEF Fails
<1>7. CASE \E ran \in Seq(Scripts) :
             cmd' = [cmd EXCEPT !.rest = Tail(@), !.ran = ran] /\ RanOf(n + 1, ran)
  <2>1. PICK ran \in Seq(Scripts) : cmd' = [cmd EXCEPT !.rest = Tail(@), !.ran = ran] /\ RanOf(n + 1, ran)
    BY <1>7
  <2>2. /\ cmd' \in CmdType /\ cmd'.goal = "install" /\ cmd'.pc = "scripts" /\ cmd'.rest = Tail(cmd.rest)
        /\ cmd'.ran = ran
    BY <1>1, <1>4, <2>1 DEF IInv, Types, CmdType
  <2>3. Types'
    BY <1>1, <1>2, <2>2 DEF IInv, Types, CmdType
  <2>4. Ran'
    <3>1. RanOf(n + 1, ran)'
      BY <1>1, <1>2, <2>1, MissesMore DEF RanOf
    <3>2. (n + 1) + 1 = n + 2
      BY <1>4
    <3> QED
      BY <1>2, <1>4, <2>2, <3>1, <3>2 DEF Ran
  <2>5. Imaged' /\ Mounts'
    BY <1>1, <1>2, <2>2 DEF IInv, Imaged, Serves, Mounts
  <2>6. Once' /\ Prepares' /\ Unmounts' /\ Fresh' /\ Report' /\ Tidy'
    BY <1>1, <1>2, <2>2 DEF IInv, Once, Prepares, Unmounts, Fresh, Report, Tidy, Preparing, Starting
  <2> QED
    BY <2>3, <2>4, <2>5, <2>6 DEF IInv
<1>8. CASE cmd' = [cmd EXCEPT !.rest = Tail(@), !.ran = Append(@, Head(cmd.rest))]
  <2>1. RanOf(n + 1, Append(cmd.ran, AllScripts[n + 1])) /\ Append(cmd.ran, AllScripts[n + 1]) \in Seq(Scripts)
    BY <1>3, <1>4, <1>5, RanGrows
  <2> QED
    BY <1>4, <1>7, <1>8, <2>1
<1>9. CASE (Head(cmd.rest).optional \/ Unseen(Head(cmd.rest))) /\ Skip
  <2>0. MayMiss(AllScripts[n + 1])
    <3>1. Root \in Pkgs /\ used.images > 0 /\ image[Root] = used.images /\ Serves(Root)
      BY <1>1, Listed DEF IInv, Types, Imaged
    <3>2. Unseen(Head(cmd.rest)) => Head(cmd.rest).gyp /\ (Root \in harm \/ Misplaced)
      BY <3>1 DEF Unseen, Finds, Serves, IInv, Types
    <3> QED
      BY <1>4, <1>9, <3>2 DEF MayMiss
  <2>1. RanOf(n + 1, cmd.ran)
    BY <1>3, <1>4, <2>0, RanSkips
  <2>2. cmd' = [cmd EXCEPT !.rest = Tail(@), !.ran = cmd.ran]
    BY <1>9 DEF Skip, IInv, Types, CmdType
  <2> QED
    BY <1>5, <1>7, <2>1, <2>2
<1> QED
  BY <1>6, <1>8, <1>9 DEF RunScript

LEMMA AddProjectKeeps == ASSUME IInv, AddProject PROVE IInv'
<1>1. /\ project' = project /\ tmp' = tmp /\ nm' = nm /\ index' = index /\ image' = image /\ served' = served
      /\ harm' = harm /\ used' = used /\ cmd.pc = "scripts" /\ cmd.rest = <<>> /\ registered' = (registered \/ s.daemon)
  BY DEF AddProject, mounts, files
<1>2. /\ s' = s /\ Pkgs' = Pkgs /\ All' = All /\ AllScripts' = AllScripts /\ Scripts' = Scripts
      /\ AllScripts \in Seq(Scripts)
  BY <1>1, Fixed, Listed DEF IInv, Types
<1>3. cmd' = Idle /\ cmd'.pc = "none" /\ cmd'.ran = <<>> /\ outcome'.how = "installed" /\ outcome'.ran = cmd.ran
  BY DEF AddProject, End, Ended, Idle
<1>4. Types'
  BY <1>1, <1>2, <1>3, IdleType DEF IInv, Types, CmdType
<1>5. PICK n \in 0..Len(AllScripts) :
        cmd.rest = SubSeq(AllScripts, n + 1, Len(AllScripts)) /\ RanOf(n, cmd.ran)
  BY <1>1 DEF IInv, Ran
<1>6. n = Len(AllScripts) /\ DOMAIN AllScripts = 1..n
  BY <1>1, <1>2, <1>5
<1>7. ScriptsRan'
  <2>1. PICK done \in SUBSET (1..n) :
          /\ Cardinality(done) = Len(cmd.ran)
          /\ \A k \in done : cmd.ran[Cardinality({j \in done : j <= k})] = AllScripts[k]
          /\ \A k \in (1..n) \ done : MayMiss(AllScripts[k])
    BY <1>5 DEF RanOf
  <2>2. done \in SUBSET DOMAIN AllScripts /\ \A k \in DOMAIN AllScripts \ done : MayMiss(AllScripts[k])
    BY <1>6, <2>1
  <2>h. \A k : MayMiss(AllScripts[k]) => MayMiss(AllScripts[k])'
    BY <1>1, MissesMore
  <2>3. /\ done \in SUBSET DOMAIN AllScripts' /\ Cardinality(done) = Len(outcome'.ran)
        /\ \A k \in done : outcome'.ran[Cardinality({j \in done : j <= k})] = AllScripts'[k]
        /\ \A k \in DOMAIN AllScripts' \ done : MayMiss(AllScripts[k])'
    BY <1>2, <1>3, <2>1, <2>2, <2>h
  <2> QED
    BY <2>3 DEF ScriptsRan
<1>8. Report' /\ Tidy'
  BY <1>1, <1>2, <1>3, <1>7 DEF Report, Tidy, IInv, Imaged, Serves, Mounts
<1>9. Once' /\ Prepares' /\ Unmounts' /\ Fresh' /\ Imaged' /\ Mounts' /\ Ran'
  BY <1>1, <1>2, <1>3 DEF IInv, Once, Prepares, Unmounts, Fresh, Imaged, Mounts, Ran, Preparing, Starting
<1> QED
  BY <1>4, <1>8, <1>9 DEF IInv

-----------------------------------------------------------------------------
(* The machine.                                                            *)

\* What the invariant is about, but for nydusd and what it serves.
Rest == <<project, tmp, nm, base, index, image, registered, kept, cmd, outcome>>

LEMMA MachineKeeps ==
    ASSUME IInv, UNCHANGED Rest,
           used' \in [commands : Nat, faults : Nat, images : Nat] /\ used'.images = used.images,
           \/ served' = served /\ harm' = harm
           \/ Down /\ harm' = Lost
    PROVE  IInv'
<1>1. /\ project' = project /\ tmp' = tmp /\ nm' = nm /\ base' = base /\ index' = index /\ image' = image
      /\ registered' = registered /\ kept' = kept /\ cmd' = cmd /\ outcome' = outcome
  BY DEF Rest
<1>2. s' = s /\ Pkgs' = Pkgs /\ All' = All /\ AllScripts' = AllScripts /\ Scripts' = Scripts
  BY <1>1, Fixed
<1>3. /\ served' \in [Pkgs -> Nat]
      /\ \A p \in Pkgs : served'[p] = served[p] \/ served'[p] = 0
      /\ \A p \in Pkgs : image[p] > 0 /\ Serves(p) => Serves(p)'
  BY <1>1, <1>2, DownFacts DEF IInv, Types, Down, Serves
<1>h. \A k : MayMiss(AllScripts[k]) => MayMiss(AllScripts[k])'
  BY <1>1, MissesMore DEF Lost
<1>4. Types'
  BY <1>1, <1>2, <1>3 DEF IInv, Types, CmdType
<1>5. Unmounts'
  BY <1>1, <1>2, <1>3 DEF IInv, Types, CmdType, Unmounts
<1>6. Imaged'
  BY <1>1, <1>2, <1>3 DEF IInv, Imaged
<1>7. Report'
  <2>1. ScriptsRan => ScriptsRan'
    BY <1>1, <1>2, <1>h DEF ScriptsRan
  <2> QED
    BY <1>1, <1>2, <1>3, <2>1 DEF IInv, Types, Report
<1>8. Once' /\ Prepares' /\ Fresh' /\ Mounts'
  BY <1>1, <1>2 DEF IInv, Once, Prepares, Fresh, Mounts
<1>9. Ran'
  BY <1>1, <1>2, <1>h DEF IInv, Ran, RanOf
<1>10. Tidy'
  BY <1>1, <1>2, <1>3 DEF IInv, Tidy, Gone
<1> QED
  BY <1>4, <1>5, <1>6, <1>7, <1>8, <1>9, <1>10 DEF IInv

LEMMA OthersKeep ==
    ASSUME IInv, NydusdDies \/ NydusdRestarts \/ \E p \in Pkgs : Work(p) \/ Leave(p)
    PROVE  IInv'
<1>1. UNCHANGED Rest
  BY DEF NydusdDies, NydusdRestarts, Work, Leave, mounts, files, services, Rest
<1>2. used' \in [commands : Nat, faults : Nat, images : Nat] /\ used'.images = used.images
  BY FaultType DEF NydusdDies, NydusdRestarts, Work, Leave, NoFault
<1>3. \/ served' = served /\ harm' = harm
      \/ Down /\ harm' = Lost
  BY DEF NydusdDies, NydusdRestarts, Work, Leave, services
<1> QED
  BY <1>1, <1>2, <1>3, MachineKeeps

LEMMA StutterKeeps == ASSUME IInv, UNCHANGED vars PROVE IInv'
<1>1. UNCHANGED Rest /\ served' = served /\ harm' = harm /\ used' = used
  BY DEF vars, mounts, files, services, Rest
<1>2. used' \in [commands : Nat, faults : Nat, images : Nat]
  BY <1>1 DEF IInv, Types
<1> QED
  BY <1>1, <1>2, MachineKeeps

-----------------------------------------------------------------------------
(* The theorems.                                                           *)

LEMMA Invariance == Spec => []IInv
<1>1. IInv /\ [Next]_vars => IInv'
  <2> SUFFICES ASSUME IInv, [Next]_vars PROVE IInv'
    OBVIOUS
  <2>1. CASE Install \/ Clean
    BY <2>1, StartKeeps DEF Install, Clean
  <2>2. CASE PrepareBase \/ BeginClean \/ EndClean \/ Download \/ DownloadFails
    BY <2>2, PrepareBaseKeeps, BeginCleanKeeps, EndCleanKeeps, DownloadKeeps
  <2>3. CASE InitDaemon \/ InitDeamon \/ GenerateBootstrap
    BY <2>3, InitDaemonKeeps, InitDeamonKeeps, GenerateBootstrapKeeps
  <2>4. CASE MountNydus \/ BeginOverlay \/ EndMount \/ RunScript \/ AddProject
    BY <2>4, MountNydusKeeps, BeginOverlayKeeps, EndMountKeeps, RunScriptKeeps, AddProjectKeeps
  <2>5. CASE \E p \in DOMAIN cmd.at : UmountNm(p) \/ UmountTmp(p) \/ UmountNydusd(p) \/ RemoveBase(p)
    BY <2>5, UmountNmKeeps, UmountTmpKeeps, UmountNydusdKeeps, RemoveBaseKeeps
  <2>6. CASE \E p \in DOMAIN cmd.at : MountTmpfs(p) \/ MountOverlay(p)
    BY <2>6, MountTmpfsKeeps, MountOverlayKeeps
  <2>7. CASE NydusdDies \/ NydusdRestarts \/ \E p \in Pkgs : Work(p) \/ Leave(p)
    BY <2>7, OthersKeep
  <2>8. CASE UNCHANGED vars
    BY <2>8, StutterKeeps
  <2> QED
    BY <2>1, <2>2, <2>3, <2>4, <2>5, <2>6, <2>7, <2>8 DEF Next, Command, Package
<1> QED
  BY InitInvariant, <1>1, PTL DEF Spec

(* After an install that reports success every node_modules of the project *)
(* is mounted once, over this install's image or one nydusd has refused or *)
(* lost, and the scripts have run in their order, but for those that may   *)
(* be missed. After a clean nothing is left but an image nydusd refused to *)
(* give up, and so after one that found no node_modules mounted if no      *)
(* command has failed before it (index.js, fuse_mode.js, scripts.js).      *)
THEOREM ReportsHold == Spec => []ReportsAreTrue
<1>1. IInv => ReportsAreTrue
  BY DEF IInv, Report, Tidy, ReportsAreTrue, Idle, Serves
<1> QED
  BY Invariance, <1>1, PTL

(* rm -rf of a package's directory comes after node_modules and overlay of *)
(* the package have been unmounted and nydusd has been asked to give up    *)
(* its image, which it then does not serve unless it refused (endNydusFs), *)
(* whatever fails beside it.                                               *)
THEOREM NothingInUseIsRemoved == Spec => RemovedUnmounted
<1> DEFINE Safe == \A p \in Pkgs :
             p \in base /\ p \notin base' => nm[p] = 0 /\ tmp[p] = 0 /\ (served[p] = 0 \/ p \in kept)
<1>1. ASSUME IInv, Next PROVE Safe
  <2>1. CASE base \subseteq base'
    BY <2>1
  <2>2. ASSUME NEW q \in DOMAIN cmd.at, RemoveBase(q) PROVE Safe
    <3>1. cmd.pc = "ending" /\ cmd.at[q] = "rm"
      BY <2>2 DEF RemoveBase, Step
    <3>2. base' = base \/ (base' = base \ {q} /\ ~Stray /\ ~(tmp[q] > 0))
      BY <2>2 DEF RemoveBase, files
    <3>3. q \in Pkgs /\ tmp[q] \in Nat
      <4>1. DOMAIN cmd.at \subseteq Pkgs
        BY <1>1 DEF IInv, Types, CmdType
      <4> QED
        BY <1>1, <2>2, <4>1 DEF IInv, Types
    <3>4. nm[q] = 0 /\ (~Stray => served[q] = 0 \/ q \in kept)
      BY <1>1, <2>2, <3>1 DEF IInv, Unmounts, Stray
    <3> QED
      BY <3>2, <3>3, <3>4
  <2>3. CASE Install \/ Clean \/ DownloadFails \/ InitDaemon \/ InitDeamon \/ GenerateBootstrap
    BY <2>1, <2>3 DEF Install, Clean, Start, DownloadFails, InitDaemon, InitDeamon, GenerateBootstrap, files
  <2>4. CASE PrepareBase \/ BeginClean \/ EndClean \/ Download
    <3>1. base' = base \/ MakeBase(Head(cmd.rest)) \/ base' = base \cup ToSet(AllPkgs(s))
      BY <2>4 DEF PrepareBase, BeginClean, EndClean, Download, CleanEnds
    <3> QED
      BY <2>1, <3>1 DEF MakeBase
  <2>5. CASE MountNydus \/ BeginOverlay \/ EndMount \/ RunScript \/ AddProject \/ NydusdDies \/ NydusdRestarts
    BY <2>1, <2>5 DEF MountNydus, BeginOverlay, EndMount, RunScript, AddProject, NydusdDies, NydusdRestarts, files
  <2>6. CASE \E p \in DOMAIN cmd.at : UmountNm(p) \/ UmountTmp(p) \/ UmountNydusd(p) \/ MountTmpfs(p) \/ MountOverlay(p)
    BY <2>1, <2>6 DEF UmountNm, UmountTmp, UmountNydusd, MountTmpfs, MountOverlay, files
  <2>7. CASE \E p \in Pkgs : Work(p) \/ Leave(p)
    BY <2>1, <2>7 DEF Work, Leave, files
  <2> QED
    BY <1>1, <2>2, <2>3, <2>4, <2>5, <2>6, <2>7 DEF Next, Command, Package
<1>2. IInv /\ [Next]_vars => [Safe]_vars
  BY <1>1
<1> QED
  BY Invariance, <1>2, PTL DEF Spec, RemovedUnmounted

=============================================================================
