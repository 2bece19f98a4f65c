---------------------------- MODULE BucketProofs ----------------------------
(***************************************************************************)
(* One bucket file for any number of processes, runs, packages and         *)
(* entries: who writes it, what is forgotten, and where payloads are.      *)
(***************************************************************************)
EXTENDS Bucket, SequenceTheorems, TLAPS

(* A call is in progress exactly while the process adds, and names a       *)
(* package (do_add_package's argument).                                    *)
AddingNamed == \A p \in Procs : IF pc[p] = "adding" THEN add[p].pkg \in Packages ELSE add[p] = NoAdd

WriterInv == OneWriter /\ AddingNamed

-----------------------------------------------------------------------------
(* Cells and files.                                                        *)

LEMMA CellType ==
    ASSUME NEW k \in Packages, NEW n \in Nat, NEW part \in Parts
    PROVE  Cell(k, n, part) \in Cells
BY DEF Cell, Cells

LEMMA SetLenType ==
    ASSUME NEW s \in Seq(Cells), NEW n \in Nat
    PROVE  SetLen(s, n) \in Seq(Cells)
<1>1. \A i \in 1..n : (IF i <= Len(s) THEN s[i] ELSE Zero) \in Cells
  BY DEF Cells
<1> QED BY <1>1 DEF SetLen

LEMMA WriteType ==
    ASSUME TypeOK, NEW p \in Procs, NEW cell \in Cells, Write(p, cell)
    PROVE  /\ disk' \in Seq(Cells)
           /\ buf' \in [Procs -> Seq(Cells)]
           /\ \A q \in Procs : q # p => buf'[q] = buf[q]
<1>1. disk \in Seq(Cells) /\ buf \in [Procs -> Seq(Cells)] /\ buf[p] \in Seq(Cells)
  BY DEF TypeOK
<1>2. CASE Len(buf[p]) < BufCap
  <2>1. Append(buf[p], cell) \in Seq(Cells)
    BY <1>1
  <2> QED BY <1>1, <1>2, <2>1 DEF Write
<1>3. CASE ~(Len(buf[p]) < BufCap)
  <2>1. disk \o buf[p] \in Seq(Cells) /\ <<cell>> \in Seq(Cells)
    BY <1>1
  <2> QED BY <1>1, <1>3, <2>1 DEF Write
<1> QED BY <1>2, <1>3

LEMMA NoAddType == NoAdd \in Calls
BY DEF NoAdd, Calls

\* The updates of a call by WriteHeader, WritePayload and EndEntry.
LEMMA HeaderCall ==
    ASSUME NEW c \in Calls, NEW r \in TocEntries
    PROVE  LET d == [c EXCEPT !.at = "data", !.written = @ + 1, !.got = @ \cup {r}] IN
           d \in Calls /\ d.pkg = c.pkg
<1>1. c.written + 1 \in Nat /\ c.got \cup {r} \in SUBSET TocEntries
  BY DEF Calls
<1>2. [c EXCEPT !.at = "data", !.written = @ + 1, !.got = @ \cup {r}] \in Calls
  BY <1>1, Zenon DEF Calls
<1>3. [c EXCEPT !.at = "data", !.written = @ + 1, !.got = @ \cup {r}].pkg = c.pkg
  BY Zenon DEF Calls
<1> QED BY <1>2, <1>3, Zenon

LEMMA PayloadCall ==
    ASSUME NEW c \in Calls
    PROVE  LET d == [c EXCEPT !.at = "copied", !.written = @ + 1] IN d \in Calls /\ d.pkg = c.pkg
<1>1. c.written + 1 \in Nat
  BY DEF Calls
<1>2. [c EXCEPT !.at = "copied", !.written = @ + 1] \in Calls
  BY <1>1, Zenon DEF Calls
<1>3. [c EXCEPT !.at = "copied", !.written = @ + 1].pkg = c.pkg
  BY Zenon DEF Calls
<1> QED BY <1>2, <1>3, Zenon

LEMMA EntryCall ==
    ASSUME NEW c \in Calls
    PROVE  LET d == [c EXCEPT !.at = "head", !.entry = @ + 1, !.written = @ + 1] IN
           d \in Calls /\ d.pkg = c.pkg
<1>1. c.written + 1 \in Nat /\ c.entry + 1 \in Nat
  BY DEF Calls
<1>2. [c EXCEPT !.at = "head", !.entry = @ + 1, !.written = @ + 1] \in Calls
  BY <1>1, Zenon DEF Calls
<1>3. [c EXCEPT !.at = "head", !.entry = @ + 1, !.written = @ + 1].pkg = c.pkg
  BY Zenon DEF Calls
<1> QED BY <1>2, <1>3, Zenon

LEMMA RestorableType ==
    ASSUME TypeOK, NEW t \in Restorable
    PROVE  t \in SUBSET TocEntries
BY DEF Restorable, TypeOK

LEMMA InitWriter == Init => WriterInv
<1> SUFFICES ASSUME Init PROVE WriterInv
  OBVIOUS
<1>1. TypeOK
  <2>1. <<>> \in Seq(Cells)
    OBVIOUS
  <2> QED BY <2>1, NoAddType DEF Init, TypeOK
<1>2. \A p \in Procs : pc[p] = "idle" /\ buf[p] = <<>> /\ add[p] = NoAdd /\ owner # p
  BY BucketAssumption DEF Init
<1> QED BY <1>1, <1>2 DEF WriterInv, OneWriter, AddingNamed, Holding

LEMMA NextWriter == WriterInv /\ [Next]_vars => WriterInv'
<1> SUFFICES ASSUME WriterInv, [Next]_vars PROVE WriterInv'
  OBVIOUS
<1> USE BucketAssumption DEF WriterInv, OneWriter, AddingNamed, Holding, history, files
<1>0. ASSUME NEW p \in Procs,
             Holding(p) <=> Holding(p)',
             pc' = [pc EXCEPT ![p] = pc'[p]],
             pc[p] # "adding", pc'[p] # "adding",
             UNCHANGED <<owner, buf, add>>
      PROVE  /\ \A q \in Procs : Holding(q)' <=> owner' = q
             /\ \A q \in Procs : (buf'[q] # <<>> \/ add'[q] # NoAdd) => owner' = q
             /\ AddingNamed'
  BY <1>0 DEF TypeOK
<1>1. ASSUME NEW p \in Procs, RestoreToc(p) PROVE WriterInv'
  <2>1. TypeOK'
    <3>1. overlap' \in BOOLEAN
      BY <1>1 DEF RestoreToc, TypeOK
    <3>2. PICK t \in Restorable : toc' = [toc EXCEPT ![p] = t]
      BY <1>1 DEF RestoreToc
    <3>3. t \in SUBSET TocEntries
      BY RestorableType
    <3>4. toc' \in [Procs -> SUBSET TocEntries]
      BY <3>2, <3>3 DEF TypeOK
    <3> QED BY <1>1, <3>1, <3>4 DEF RestoreToc, TypeOK
  <2>2. pc[p] = "idle" /\ pc' = [pc EXCEPT ![p] = "restored"] /\ UNCHANGED <<owner, buf, add>>
    BY <1>1 DEF RestoreToc
  <2> QED BY <2>1, <2>2, <1>0 DEF TypeOK
<1>2. ASSUME NEW p \in Procs, OpenFile(p) PROVE WriterInv'
  BY <1>2 DEF OpenFile, TypeOK
<1>3. ASSUME NEW p \in Procs, FixLength(p) PROVE WriterInv'
  BY <1>3, SetLenType DEF FixLength, TypeOK
<1>4. ASSUME NEW p \in Procs, LockFile(p) PROVE WriterInv'
  <2>1. /\ pc[p] = "sized" /\ UNCHANGED <<history, disk, files, runs, toc, position, buf, add, adds>>
        /\ \/ owner = NoProc /\ owner' = p /\ pc' = [pc EXCEPT ![p] = "ready"]
           \/ owner' = owner /\ pc' = [pc EXCEPT ![p] = "idle"]
    BY <1>4 DEF LockFile
  <2>2. TypeOK'
    BY <2>1 DEF TypeOK
  <2>3. CASE owner = NoProc /\ owner' = p /\ pc' = [pc EXCEPT ![p] = "ready"]
    <3>1. \A q \in Procs : q # p => pc'[q] = pc[q]
      BY <2>3 DEF TypeOK
    <3>2. pc'[p] = "ready"
      BY <2>3 DEF TypeOK
    <3> QED BY <2>1, <2>2, <2>3, <3>1, <3>2
  <2>4. CASE owner' = owner /\ pc' = [pc EXCEPT ![p] = "idle"]
    BY <2>1, <2>2, <2>4, <1>0 DEF TypeOK
  <2> QED BY <2>1, <2>3, <2>4
<1>5. ASSUME NEW p \in Procs, StartAdd(p) PROVE WriterInv'
  <2>1. PICK k \in Packages : add' = [add EXCEPT ![p] =
                [pkg |-> k, entry |-> 1, at |-> "head", written |-> 0, got |-> {}]]
    BY <1>5 DEF StartAdd
  <2>2. [pkg |-> k, entry |-> 1, at |-> "head", written |-> 0, got |-> {}] \in Calls
    BY DEF Calls
  <2>3. add' \in [Procs -> Calls] /\ add'[p].pkg = k /\ \A q \in Procs : q # p => add'[q] = add[q]
    BY <2>1, <2>2 DEF TypeOK
  <2>4. /\ pc[p] = "ready" /\ pc' = [pc EXCEPT ![p] = "adding"] /\ adds' = adds + 1
        /\ UNCHANGED <<history, disk, owner, files, runs, toc, position, buf>>
    BY <1>5 DEF StartAdd
  <2>5. \A q \in Procs : q # p => pc'[q] = pc[q]
    BY <2>4 DEF TypeOK
  <2> QED BY <2>3, <2>4, <2>5 DEF TypeOK
<1>6. ASSUME NEW p \in Procs, WriteHeader(p) \/ WritePayload(p) \/ EndEntry(p) PROVE WriterInv'
  <2>1. pc[p] = "adding" /\ owner = p /\ add[p].pkg \in Packages
    BY <1>6 DEF WriteHeader, WritePayload, EndEntry
  <2>2. /\ disk' \in Seq(Cells) /\ buf' \in [Procs -> Seq(Cells)]
        /\ \A q \in Procs : q # p => buf'[q] = buf[q]
    <3>1. \A part \in Parts : Cell(add[p].pkg, add[p].entry, part) \in Cells
      BY <2>1, CellType DEF TypeOK, Calls
    <3>2. CASE WriteHeader(p)
      BY <3>1, <3>2, WriteType DEF WriteHeader, Parts
    <3>3. CASE WritePayload(p)
      BY <3>1, <3>3, WriteType DEF WritePayload, Parts
    <3>4. CASE EndEntry(p) /\ <<add[p].pkg, add[p].entry>> \in Listened
      BY <3>1, <3>4, WriteType DEF EndEntry, Parts
    <3>5. CASE EndEntry(p) /\ <<add[p].pkg, add[p].entry>> \notin Listened
      <4> DEFINE pad == Cell(add[p].pkg, add[p].entry, "pad")
      <4>1. pad \in Cells
        BY <3>1 DEF Parts
      <4>2. disk' = disk \o buf[p] /\ buf' = [buf EXCEPT ![p] = <<pad>>]
        BY <3>5 DEF EndEntry
      <4>3. disk \o buf[p] \in Seq(Cells) /\ <<pad>> \in Seq(Cells)
        BY <4>1 DEF TypeOK
      <4> HIDE DEF pad
      <4> QED BY <4>2, <4>3 DEF TypeOK
    <3> QED BY <1>6, <3>2, <3>3, <3>4, <3>5
  <2>3. /\ add' \in [Procs -> Calls]
        /\ add'[p].pkg = add[p].pkg
        /\ \A q \in Procs : q # p => add'[q] = add[q]
    <3>0. add[p] \in Calls
      BY DEF TypeOK
    <3>1. CASE WriteHeader(p)
      <4> DEFINE r == [pkg |-> add[p].pkg, entry |-> add[p].entry,
                       offset |-> position[p] + add[p].written + 2]
      <4>1. r \in TocEntries
        BY <2>1, <3>0 DEF TypeOK, TocEntries, Calls
      <4> DEFINE call == [add[p] EXCEPT !.at = "data", !.written = @ + 1, !.got = @ \cup {r}]
      <4>2. add' = [add EXCEPT ![p] = call]
        BY <3>1 DEF WriteHeader, TypeOK
      <4>3. call \in Calls /\ call.pkg = add[p].pkg
        BY <4>1, <3>0, HeaderCall, Zenon
      <4> HIDE DEF call
      <4> QED BY <4>2, <4>3 DEF TypeOK
    <3>2. CASE WritePayload(p)
      <4> DEFINE call == [add[p] EXCEPT !.at = "copied", !.written = @ + 1]
      <4>1. add' = [add EXCEPT ![p] = call]
        BY <3>2 DEF WritePayload, TypeOK
      <4>2. call \in Calls /\ call.pkg = add[p].pkg
        BY <3>0, PayloadCall, Zenon
      <4> HIDE DEF call
      <4> QED BY <4>1, <4>2 DEF TypeOK
    <3>3. CASE EndEntry(p)
      <4> DEFINE call == [add[p] EXCEPT !.at = "head", !.entry = @ + 1, !.written = @ + 1]
      <4>1. add' = [add EXCEPT ![p] = call]
        BY <3>3 DEF EndEntry, TypeOK
      <4>2. call \in Calls /\ call.pkg = add[p].pkg
        BY <3>0, EntryCall, Zenon
      <4> HIDE DEF call
      <4> QED BY <4>1, <4>2 DEF TypeOK
    <3> QED BY <1>6, <3>1, <3>2, <3>3
  <2>4. UNCHANGED <<history, owner, files, runs, pc, toc, position, adds>>
    BY <1>6 DEF WriteHeader, WritePayload, EndEntry
  <2> QED BY <2>1, <2>2, <2>3, <2>4 DEF TypeOK
<1>7. ASSUME NEW p \in Procs, FlushPending(p) PROVE WriterInv'
  <2>1. disk \o buf[p] \in Seq(Cells)
    BY DEF TypeOK
  <2> QED BY <1>7, <2>1 DEF FlushPending, TypeOK
\* The call ends, well or badly; the lock is kept.
<1>80. ASSUME NEW p \in Procs, TypeOK',
              pc[p] = "adding", pc' = [pc EXCEPT ![p] = "ready"],
              add' = [add EXCEPT ![p] = NoAdd], UNCHANGED <<owner, buf>>
       PROVE  WriterInv'
  <2>1. \A q \in Procs : q # p => pc'[q] = pc[q] /\ add'[q] = add[q]
    BY <1>80 DEF TypeOK
  <2>2. pc'[p] = "ready" /\ add'[p] = NoAdd
    BY <1>80 DEF TypeOK
  <2> QED BY <1>80, <2>1, <2>2
<1>8. ASSUME NEW p \in Procs, EndAdd(p) PROVE WriterInv'
  <2>1. /\ pc[p] = "adding" /\ pc' = [pc EXCEPT ![p] = "ready"] /\ add' = [add EXCEPT ![p] = NoAdd]
        /\ position' = [position EXCEPT ![p] = @ + add[p].written]
        /\ toc' = [toc EXCEPT ![p] = @ \cup add[p].got]
        /\ UNCHANGED <<history, disk, owner, files, runs, buf, adds>>
    BY <1>8 DEF EndAdd
  <2>2. add[p].written \in Nat /\ add[p].got \in SUBSET TocEntries
    BY DEF TypeOK, Calls
  <2>3. TypeOK'
    BY <2>1, <2>2, NoAddType DEF TypeOK
  <2> QED BY <2>1, <2>3, <1>80
<1>9. ASSUME NEW p \in Procs, FailAdd(p) PROVE WriterInv'
  <2>1. TypeOK'
    BY <1>9, SetLenType, NoAddType DEF FailAdd, TypeOK
  <2> QED BY <1>9, <2>1, <1>80 DEF FailAdd
<1>10. ASSUME NEW p \in Procs, TimeoutAdd(p) PROVE WriterInv'
  <2>1. TypeOK'
    BY <1>10, NoAddType DEF TimeoutAdd, TypeOK
  <2> QED BY <1>10, <2>1, <1>80 DEF TimeoutAdd
\* The run of p is over, with its call and its buffer.
<1>90. ASSUME NEW p \in Procs, TypeOK', pc'[p] \notin {"ready", "adding"},
              \A q \in Procs : q # p => pc'[q] = pc[q] /\ buf'[q] = buf[q] /\ add'[q] = add[q],
              buf'[p] = <<>>, add'[p] = NoAdd,
              owner' = IF owner = p THEN NoProc ELSE owner
       PROVE  WriterInv'
  BY <1>90
<1>11. ASSUME NEW p \in Procs, Shutdown(p) PROVE WriterInv'
  <2>1. disk \o buf[p] \in Seq(Cells) /\ <<>> \in Seq(Cells)
    BY DEF TypeOK
  <2>2. TypeOK'
    BY <1>11, <2>1 DEF Shutdown, TypeOK
  <2>3. pc[p] = "ready" /\ owner = p /\ add[p] = NoAdd
    BY <1>11 DEF Shutdown
  <2>4. /\ pc'[p] = "closed" /\ buf'[p] = <<>> /\ add' = add /\ owner' = NoProc
        /\ \A q \in Procs : q # p => pc'[q] = pc[q] /\ buf'[q] = buf[q]
    BY <1>11 DEF Shutdown, TypeOK
  <2> QED BY <2>2, <2>3, <2>4, <1>90
<1>12. ASSUME NEW p \in Procs, TruncMap(p) \/ WriteMap(p) \/ TruncIndex(p) \/ WriteIndex(p)
       PROVE  WriterInv'
  <2>1. /\ UNCHANGED <<overlap, fault, cut, disk, owner, runs, toc, position, buf, add, adds>>
        /\ pc[p] \in {"closed"} \cup Saving
        /\ \E s \in {"idle"} \cup Saving : pc' = [pc EXCEPT ![p] = s]
        /\ torn' \subseteq torn \cup {"map", "index"}
        /\ mapFile' \in {mapFile, toc[p], {}} /\ indexFile' \in {indexFile, toc[p], {}}
        /\ saved' \in {saved, saved \cup toc[p]}
    BY <1>12 DEF TruncMap, WriteMap, TruncIndex, WriteIndex, Saving
  <2>2. toc[p] \subseteq TocEntries
    BY DEF TypeOK
  <2>3. PICK s \in {"idle"} \cup Saving : pc' = [pc EXCEPT ![p] = s]
    BY <2>1
  <2>4. pc' \in [Procs -> {"idle", "restored", "opened", "sized", "ready", "adding", "closed"} \cup Saving]
    BY <2>3 DEF TypeOK
  <2>5. TypeOK'
    BY <2>1, <2>2, <2>4 DEF TypeOK
  <2>6. pc'[p] = s /\ \A q \in Procs : q # p => pc'[q] = pc[q]
    BY <2>3 DEF TypeOK
  <2> QED BY <2>1, <2>5, <2>6 DEF Saving
<1>13. ASSUME NEW p \in Procs, Crash(p) PROVE WriterInv'
  <2>1. TypeOK'
    <3>1. <<>> \in Seq(Cells) /\ cut' \in BOOLEAN
      BY <1>13 DEF Crash, TypeOK
    <3> QED BY <1>13, <3>1, NoAddType DEF Crash, TypeOK
  <2>2. /\ pc'[p] = "idle" /\ buf'[p] = <<>> /\ add'[p] = NoAdd
        /\ owner' = IF owner = p THEN NoProc ELSE owner
        /\ \A q \in Procs : q # p => pc'[q] = pc[q] /\ buf'[q] = buf[q] /\ add'[q] = add[q]
    BY <1>13 DEF Crash, TypeOK
  <2> QED BY <2>1, <2>2, <1>90
<1>14. CASE UNCHANGED vars
  BY <1>14 DEF vars, TypeOK
<1> QED BY <1>1, <1>2, <1>3, <1>4, <1>5, <1>6, <1>7, <1>8, <1>9, <1>10, <1>11, <1>12,
           <1>13, <1>14 DEF Next

(* Whoever has bytes in its buffer or a package half written holds the     *)
(* flock, whoever crashes, fails to lock or times out (bucket.rs 30-140).  *)
THEOREM OneWriterAlways == Spec => []OneWriter
<1>1. WriterInv => OneWriter
  BY DEF WriterInv
<1> QED BY InitWriter, NextWriter, <1>1, PTL DEF Spec
-----------------------------------------------------------------------------
(* What a run would restore contains all that has been saved. *)
Whole == saved # {} => torn = {} /\ indexFile \subseteq mapFile /\ saved \subseteq indexFile

(* As long as no runs have overlapped, one process at most is at work; the *)
(* files hold nothing but what has been saved, and, once the map is        *)
(* written, the map of the process at work.                                *)
AloneInv ==
    /\ \A p, q \in Procs : pc[p] # "idle" /\ pc[q] # "idle" => p = q
    /\ mapFile \subseteq saved /\ indexFile \subseteq saved
    /\ \A p \in Procs : pc[p] \in {"mapSaved", "indexCut"} => mapFile = toc[p] /\ "map" \notin torn

(* If no run has ended while saving either, the files are whole whenever   *)
(* nobody saves, and what the process at work will save contains what was  *)
(* saved.                                                                  *)
UncutInv ==
    /\ \A p \in Procs : pc[p] # "idle" => saved \subseteq toc[p]
    /\ (\A p \in Procs : pc[p] \notin Saving) => Whole

KeepInv == ~overlap => AloneInv /\ (~cut => UncutInv)

LEMMA InitKeep == Init => KeepInv
BY DEF Init, KeepInv, AloneInv, UncutInv, Whole, Saving

LEMMA NextKeep == TypeOK /\ KeepInv /\ [Next]_vars => KeepInv'
<1> SUFFICES ASSUME TypeOK, KeepInv, [Next]_vars, ~overlap' PROVE AloneInv' /\ (~cut' => UncutInv')
  BY DEF KeepInv
<1> USE DEF history, files
<1>1. ASSUME NEW p \in Procs, RestoreToc(p) PROVE AloneInv' /\ (~cut' => UncutInv')
  <2>1. PICK t \in Restorable : toc' = [toc EXCEPT ![p] = t]
    BY <1>1 DEF RestoreToc
  <2>2. /\ pc' = [pc EXCEPT ![p] = "restored"]
        /\ UNCHANGED <<cut, saved, mapFile, indexFile, torn>>
        /\ overlap' = (overlap \/ \E q \in Procs : pc[q] # "idle")
    BY <1>1 DEF RestoreToc
  <2>3. ~overlap /\ (\A q \in Procs : pc[q] = "idle") /\ AloneInv
    BY <2>2 DEF KeepInv
  <2>4. toc'[p] = t /\ pc'[p] = "restored" /\ \A q \in Procs : q # p => pc'[q] = "idle"
    BY <2>1, <2>2, <2>3 DEF TypeOK
  <2>5. AloneInv'
    BY <2>2, <2>3, <2>4 DEF AloneInv
  <2>6. ASSUME ~cut PROVE UncutInv'
    <3>1. Whole
      BY <2>3, <2>6 DEF KeepInv, UncutInv, Saving
    <3>2. saved \subseteq t
      BY <2>1, <3>1 DEF Whole, Restorable
    <3> QED BY <2>2, <2>4, <3>1, <3>2 DEF UncutInv, Whole
  <2> QED BY <2>2, <2>5, <2>6
\* The steps of a process at work.
<1>2. ASSUME NEW p \in Procs, pc[p] # "idle", ~overlap, \A q \in Procs : q # p => pc'[q] = pc[q]
      PROVE  \A q \in Procs : q # p => pc[q] = "idle" /\ pc'[q] = "idle"
  BY <1>2 DEF KeepInv, AloneInv
<1>3. ASSUME NEW p \in Procs, pc[p] \notin {"idle"} \cup Saving, pc'[p] \notin Saving, ~overlap,
             UNCHANGED <<cut, saved, mapFile, indexFile, torn>>, toc[p] \subseteq toc'[p],
             \A q \in Procs : q # p => pc'[q] = pc[q]
      PROVE  AloneInv' /\ (~cut' => UncutInv')
  <2>1. \A q \in Procs : q # p => pc[q] = "idle" /\ pc'[q] = "idle"
    BY <1>2, <1>3 DEF Saving
  <2>2. AloneInv'
    BY <1>3, <2>1 DEF KeepInv, AloneInv, Saving
  <2>3. ASSUME ~cut PROVE UncutInv'
    <3>1. UncutInv /\ Whole
      BY <1>3, <2>1, <2>3 DEF KeepInv, UncutInv, Saving
    <3>2. Whole'
      BY <1>3, <3>1 DEF Whole
    <3>3. \A q \in Procs : pc'[q] # "idle" => saved' \subseteq toc'[q]
      BY <1>3, <2>1, <3>1 DEF UncutInv
    <3> QED BY <3>2, <3>3 DEF UncutInv
  <2> QED BY <1>3, <2>2, <2>3
<1>4. ASSUME NEW p \in Procs,
             OpenFile(p) \/ FixLength(p) \/ LockFile(p) \/ StartAdd(p) \/ FailAdd(p) \/ TimeoutAdd(p)
               \/ Shutdown(p) \/ EndAdd(p)
      PROVE  AloneInv' /\ (~cut' => UncutInv')
  <2>1. /\ pc[p] \notin {"idle"} \cup Saving /\ pc'[p] \notin Saving /\ overlap' = overlap
        /\ UNCHANGED <<cut, saved, mapFile, indexFile, torn>> /\ toc[p] \subseteq toc'[p]
        /\ \A q \in Procs : q # p => pc'[q] = pc[q]
    BY <1>4 DEF OpenFile, FixLength, LockFile, StartAdd, FailAdd, TimeoutAdd, Shutdown, EndAdd,
                Saving, TypeOK
  <2> QED BY <2>1, <1>3
<1>5. ASSUME NEW p \in Procs, WriteHeader(p) \/ WritePayload(p) \/ FlushPending(p) \/ EndEntry(p)
      PROVE  AloneInv' /\ (~cut' => UncutInv')
  <2>1. /\ UNCHANGED <<overlap, cut, saved, mapFile, indexFile, torn, pc, toc>>
    BY <1>5 DEF WriteHeader, WritePayload, FlushPending, EndEntry
  <2> QED BY <2>1 DEF KeepInv, AloneInv, UncutInv, Whole
<1>6. ASSUME NEW p \in Procs, TruncMap(p) PROVE AloneInv' /\ (~cut' => UncutInv')
  <2>1. /\ pc[p] = "closed" /\ pc'[p] = "mapCut" /\ mapFile' = {}
        /\ UNCHANGED <<overlap, cut, saved, indexFile, toc>>
        /\ \A q \in Procs : q # p => pc'[q] = pc[q]
    BY <1>6 DEF TruncMap, TypeOK
  <2>2. \A q \in Procs : q # p => pc[q] = "idle" /\ pc'[q] = "idle"
    BY <2>1, <1>2
  <2> QED BY <2>1, <2>2 DEF KeepInv, AloneInv, UncutInv, Saving
<1>7. ASSUME NEW p \in Procs, WriteMap(p) PROVE AloneInv' /\ (~cut' => UncutInv')
  <2>1. /\ pc[p] = "mapCut" /\ pc'[p] = "mapSaved" /\ mapFile' = toc[p]
        /\ torn' = torn \ {"map"} /\ saved' = saved \cup toc[p]
        /\ UNCHANGED <<overlap, cut, indexFile, toc>>
        /\ \A q \in Procs : q # p => pc'[q] = pc[q]
    BY <1>7 DEF WriteMap, TypeOK
  <2>2. \A q \in Procs : q # p => pc[q] = "idle" /\ pc'[q] = "idle"
    BY <2>1, <1>2
  <2> QED BY <2>1, <2>2 DEF KeepInv, AloneInv, UncutInv, Saving
<1>8. ASSUME NEW p \in Procs, TruncIndex(p) PROVE AloneInv' /\ (~cut' => UncutInv')
  <2>1. /\ pc[p] = "mapSaved" /\ pc'[p] = "indexCut" /\ indexFile' = {}
        /\ torn' = torn \cup {"index"}
        /\ UNCHANGED <<overlap, cut, saved, mapFile, toc>>
        /\ \A q \in Procs : q # p => pc'[q] = pc[q]
    BY <1>8 DEF TruncIndex, TypeOK
  <2>2. \A q \in Procs : q # p => pc[q] = "idle" /\ pc'[q] = "idle"
    BY <2>1, <1>2
  <2> QED BY <2>1, <2>2 DEF KeepInv, AloneInv, UncutInv, Saving
<1>9. ASSUME NEW p \in Procs, WriteIndex(p) PROVE AloneInv' /\ (~cut' => UncutInv')
  <2>1. /\ pc[p] = "indexCut" /\ pc'[p] = "idle" /\ indexFile' = toc[p]
        /\ torn' = torn \ {"index"}
        /\ UNCHANGED <<overlap, cut, saved, mapFile, toc>>
        /\ \A q \in Procs : q # p => pc'[q] = pc[q]
    BY <1>9 DEF WriteIndex, TypeOK
  <2>2. \A q \in Procs : q # p => pc[q] = "idle" /\ pc'[q] = "idle"
    BY <2>1, <1>2
  <2>3. AloneInv /\ mapFile = toc[p] /\ "map" \notin torn
    BY <2>1 DEF KeepInv, AloneInv
  <2>4. AloneInv'
    BY <2>1, <2>2, <2>3 DEF AloneInv
  <2>5. ASSUME ~cut PROVE UncutInv'
    <3>1. saved \subseteq toc[p]
      BY <2>1, <2>5 DEF KeepInv, UncutInv
    <3>2. torn' = {}
      BY <2>1, <2>3 DEF TypeOK
    <3> QED BY <2>1, <2>2, <2>3, <3>1, <3>2 DEF UncutInv, Whole
  <2> QED BY <2>1, <2>4, <2>5
<1>10. ASSUME NEW p \in Procs, Crash(p) PROVE AloneInv' /\ (~cut' => UncutInv')
  <2>1. /\ pc[p] # "idle" /\ pc'[p] = "idle" /\ cut' = (cut \/ pc[p] \in Saving)
        /\ UNCHANGED <<overlap, saved, mapFile, indexFile, torn, toc>>
        /\ \A q \in Procs : q # p => pc'[q] = pc[q]
    BY <1>10 DEF Crash, TypeOK
  <2>2. \A q \in Procs : q # p => pc[q] = "idle" /\ pc'[q] = "idle"
    BY <2>1, <1>2
  <2>3. AloneInv'
    BY <2>1, <2>2 DEF KeepInv, AloneInv
  <2>4. ASSUME ~cut' PROVE UncutInv'
    <3>1. Whole
      BY <2>1, <2>2, <2>4 DEF KeepInv, UncutInv, Saving
    <3> QED BY <2>1, <2>2, <3>1 DEF UncutInv, Whole
  <2> QED BY <2>3, <2>4
<1>11. CASE UNCHANGED vars
  BY <1>11 DEF vars, KeepInv, AloneInv, UncutInv, Whole
<1> QED BY <1>1, <1>4, <1>5, <1>6, <1>7, <1>8, <1>9, <1>10, <1>11 DEF Next

\* Only RestoreToc starts a run.
LEMMA NextRestores ==
    ASSUME TypeOK, KeepInv, KeepInv', [Next]_vars, NEW p \in Procs,
           pc[p] = "idle", pc'[p] = "restored", ~overlap', ~cut
    PROVE  saved \subseteq toc'[p]
<1> USE DEF history, files
<1>1. ASSUME NEW q \in Procs, RestoreToc(q) PROVE saved' = saved /\ cut' = cut
  BY <1>1 DEF RestoreToc
<1>2. ASSUME NEW q \in Procs, pc[q] # "idle", \A x \in Procs : x # q => pc'[x] = pc[x] PROVE FALSE
  <2>1. q # p
    BY <1>2
  <2> QED BY <1>2, <2>1
<1>3. ASSUME NEW q \in Procs,
             OpenFile(q) \/ FixLength(q) \/ LockFile(q) \/ StartAdd(q) \/ FailAdd(q) \/ TimeoutAdd(q)
               \/ Shutdown(q) \/ EndAdd(q)
      PROVE  FALSE
  <2>1. pc[q] # "idle" /\ \A x \in Procs : x # q => pc'[x] = pc[x]
    BY <1>3 DEF OpenFile, FixLength, LockFile, StartAdd, FailAdd, TimeoutAdd, Shutdown, EndAdd, TypeOK
  <2> QED BY <2>1, <1>2
<1>4. ASSUME NEW q \in Procs,
             TruncMap(q) \/ WriteMap(q) \/ TruncIndex(q) \/ WriteIndex(q) \/ Crash(q)
      PROVE  FALSE
  <2>1. pc[q] # "idle" /\ \A x \in Procs : x # q => pc'[x] = pc[x]
    BY <1>4 DEF TruncMap, WriteMap, TruncIndex, WriteIndex, Crash, TypeOK
  <2> QED BY <2>1, <1>2
<1>5. ASSUME NEW q \in Procs, WriteHeader(q) \/ WritePayload(q) \/ FlushPending(q) \/ EndEntry(q)
      PROVE  pc' = pc
  BY <1>5 DEF WriteHeader, WritePayload, FlushPending, EndEntry
<1>6. \E q \in Procs : RestoreToc(q)
  BY <1>3, <1>4, <1>5 DEF Next, vars
<1>7. saved' = saved /\ cut' = cut
  BY <1>1, <1>6
<1> QED BY <1>7 DEF KeepInv, UncutInv

(* A run alone in the cache starts with everything that earlier runs have  *)
(* saved, whatever calls have failed and whoever has crashed, unless a run *)
(* has ended between the truncation of the first TOC file and the writing  *)
(* of the second (download_dependency.js 121-122, lib.rs 255-259).         *)
THEOREM SavedAlwaysRestored == Spec => SavedIsRestored
<1>1. WriterInv => TypeOK
  BY DEF WriterInv, OneWriter
<1>2. TypeOK /\ KeepInv /\ KeepInv' /\ [Next]_vars
        => [\A p \in Procs : pc[p] = "idle" /\ pc'[p] = "restored" /\ ~overlap' /\ ~cut
              => saved \subseteq toc'[p]]_vars
  BY NextRestores
<1> QED BY InitWriter, NextWriter, InitKeep, NextKeep, <1>1, <1>2, PTL DEF Spec, SavedIsRestored
-----------------------------------------------------------------------------
(* Files that grow keep what was in its place.                             *)

LEMMA StaysInPlace ==
    ASSUME NEW s \in Seq(Cells), NEW u \in Seq(Cells), NEW r, IsDataAt(s, r)
    PROVE  IsDataAt(s \o u, r)
<1>1. r.offset \in 1..Len(s) /\ s[r.offset] = Cell(r.pkg, r.entry, "data")
  BY DEF IsDataAt
<1>2. Len(s \o u) = Len(s) + Len(u) /\ Len(s) \in Nat /\ Len(u) \in Nat
  OBVIOUS
<1>3. (s \o u)[r.offset] = s[r.offset]
  BY <1>1
<1> QED BY <1>1, <1>2, <1>3 DEF IsDataAt

LEMMA ConcatAssoc ==
    ASSUME NEW s \in Seq(Cells), NEW t \in Seq(Cells), NEW u \in Seq(Cells)
    PROVE  s \o (t \o u) = (s \o t) \o u
<1> DEFINE l == s \o (t \o u)
           r == (s \o t) \o u
<1>1. s \o t \in Seq(Cells) /\ t \o u \in Seq(Cells)
  OBVIOUS
<1>2. l \in Seq(Cells) /\ r \in Seq(Cells) /\ Len(l) = Len(r)
  BY <1>1
<1>3. \A i \in 1..Len(l) : l[i] = r[i]
  BY <1>1
<1> HIDE DEF l, r
<1>4. l = r
  BY <1>2, <1>3, SeqEqual
<1> QED BY <1>4 DEF l, r

\* The contents of the file once the buffer of p is written.
Content(p) == disk \o buf[p]

\* One cell has been appended, to the buffer or past it.
Appended(p, cell) ==
    /\ Content(p)' = Content(p) \o <<cell>>
    /\ \E u \in Seq(Cells) : disk' = disk \o u

LEMMA WriteAppends ==
    ASSUME TypeOK, NEW p \in Procs, NEW cell \in Cells, Write(p, cell)
    PROVE  Appended(p, cell)
<1>1. disk \in Seq(Cells) /\ buf[p] \in Seq(Cells) /\ <<cell>> \in Seq(Cells) /\ <<>> \in Seq(Cells)
  BY DEF TypeOK
<1>2. CASE Len(buf[p]) < BufCap
  <2>1. disk' = disk /\ buf'[p] = buf[p] \o <<cell>>
    <3>1. disk' = disk /\ buf'[p] = Append(buf[p], cell)
      BY <1>2 DEF Write, TypeOK
    <3>2. Append(buf[p], cell) = buf[p] \o <<cell>>
      BY <1>1
    <3> QED BY <3>1, <3>2
  <2>2. disk \o (buf[p] \o <<cell>>) = (disk \o buf[p]) \o <<cell>>
    BY <1>1, ConcatAssoc
  <2>3. disk = disk \o <<>>
    BY <1>1
  <2> QED BY <1>1, <2>1, <2>2, <2>3 DEF Appended, Content
<1>3. CASE ~(Len(buf[p]) < BufCap)
  <2>1. disk' = disk \o buf[p] /\ buf'[p] = <<cell>>
    BY <1>3 DEF Write, TypeOK
  <2> QED BY <1>1, <2>1 DEF Appended, Content
<1> QED BY <1>2, <1>3

-----------------------------------------------------------------------------
(* The entry whose header is written: its payload comes next.              *)
Ahead(p, r) ==
    /\ add[p].at = "data" /\ r.pkg = add[p].pkg /\ r.entry = add[p].entry
    /\ r.offset = Len(Content(p)) + 1

(* A process at work alone knows where it is in the file, and all it has   *)
(* in its table is there, but for the entry being written.                 *)
Sound(p) ==
    /\ \A r \in toc[p] : IsDataAt(Content(p), r)
    /\ pc[p] \in {"opened", "sized", "ready"} => position[p] = Len(Content(p))
    /\ pc[p] = "adding" =>
         /\ Len(Content(p)) = position[p] + add[p].written
         /\ \A r \in add[p].got : IsDataAt(Content(p), r) \/ Ahead(p, r)

OffsetInv ==
    Calm =>
        /\ \A r \in saved : IsDataAt(disk, r)
        /\ \A p \in Procs : pc[p] # "idle" => Sound(p)

LEMMA InitOffset == Init => OffsetInv
BY DEF Init, OffsetInv

LEMMA ContentType ==
    ASSUME TypeOK, NEW p \in Procs
    PROVE  Content(p) \in Seq(Cells) /\ Len(Content(p)) \in Nat /\ disk \in Seq(Cells) /\ buf[p] \in Seq(Cells)
BY DEF TypeOK, Content

LEMMA NoBuffer ==
    ASSUME TypeOK, NEW p \in Procs, buf[p] = <<>>
    PROVE  Content(p) = disk
BY DEF TypeOK, Content

\* A step of p, the only process at work, that does not cut the file.
LEMMA OneAtWork ==
    ASSUME WriterInv, KeepInv, OffsetInv, Calm', NEW p \in Procs, pc[p] # "idle", ~overlap, ~fault,
           UNCHANGED saved,
           \E u \in Seq(Cells) : disk' = disk \o u,
           \A q \in Procs : q # p => pc'[q] = pc[q],
           pc'[p] # "idle" => Sound(p)'
    PROVE  OffsetInv'
<1>1. PICK u \in Seq(Cells) : disk' = disk \o u
  OBVIOUS
<1>2. \A r \in saved' : IsDataAt(disk', r)
  BY <1>1, StaysInPlace DEF OffsetInv, Calm, WriterInv, OneWriter, TypeOK
<1>3. \A q \in Procs : pc'[q] # "idle" => q = p
  BY DEF KeepInv, AloneInv
<1> QED BY <1>2, <1>3 DEF OffsetInv

LEMMA RestoredWasSaved ==
    ASSUME KeepInv, ~overlap, NEW t \in Restorable
    PROVE  t \subseteq saved
BY DEF KeepInv, AloneInv, Restorable

LEMMA NextOffset == WriterInv /\ KeepInv /\ OffsetInv /\ [Next]_vars => OffsetInv'
<1> SUFFICES ASSUME WriterInv, KeepInv, OffsetInv, [Next]_vars, Calm' PROVE OffsetInv'
  BY DEF OffsetInv
<1>0. TypeOK /\ \A p \in Procs : (buf[p] # <<>> \/ add[p] # NoAdd) => pc[p] \in {"ready", "adding"}
  BY DEF WriterInv, OneWriter, Holding
<1> USE DEF history, files
\* Nothing but what is shown has changed for p.
<1> DEFINE Same == disk' = disk /\ saved' = saved /\ overlap' = overlap /\ fault' = fault
<1>e. \E u \in Seq(Cells) : disk = disk \o u
  <2>1. <<>> \in Seq(Cells) /\ disk = disk \o <<>>
    BY <1>0 DEF TypeOK
  <2> QED BY <2>1
<1>1. ASSUME NEW p \in Procs, RestoreToc(p) PROVE OffsetInv'
  <2>0. PICK t \in Restorable : toc' = [toc EXCEPT ![p] = t]
    BY <1>1 DEF RestoreToc
  <2>1. /\ pc[p] = "idle" /\ pc' = [pc EXCEPT ![p] = "restored"]
        /\ UNCHANGED <<fault, disk, saved, buf>>
        /\ overlap' = (overlap \/ \E q \in Procs : pc[q] # "idle")
    BY <1>1 DEF RestoreToc
  <2>2. Calm /\ \A q \in Procs : pc[q] = "idle"
    BY <2>1, <1>0 DEF Calm, TypeOK
  <2>3. buf[p] = <<>>
    BY <2>1, <1>0
  <2>4. Content(p)' = disk
    BY <2>1, <2>3, <1>0 DEF Content, TypeOK
  <2>5. \A r \in saved : IsDataAt(disk, r)
    BY <2>2 DEF OffsetInv
  <2>6. \A q \in Procs : pc'[q] # "idle" => q = p
    BY <2>1, <2>2, <1>0 DEF TypeOK
  <2>7. pc'[p] = "restored" /\ toc'[p] \subseteq saved
    BY <2>0, <2>1, <2>2, <1>0, RestoredWasSaved DEF TypeOK, Calm
  <2>8. Sound(p)'
    BY <2>4, <2>5, <2>7 DEF Sound
  <2> QED BY <2>1, <2>5, <2>6, <2>8 DEF OffsetInv
<1>2. ASSUME NEW p \in Procs, OpenFile(p) PROVE OffsetInv'
  <2>1. /\ pc[p] = "restored" /\ pc' = [pc EXCEPT ![p] = "opened"]
        /\ position' = [position EXCEPT ![p] = Len(disk)]
        /\ UNCHANGED <<overlap, fault, disk, saved, toc, buf>>
    BY <1>2 DEF OpenFile
  <2>2. buf[p] = <<>> /\ Content(p) = disk /\ Content(p)' = Content(p)
    BY <2>1, <1>0, NoBuffer DEF Content
  <2>3. pc'[p] = "opened" /\ position'[p] = Len(disk) /\ \A q \in Procs : q # p => pc'[q] = pc[q]
    BY <2>1, <1>0 DEF TypeOK
  <2>4. Calm
    BY <2>1 DEF Calm
  <2>5. Sound(p)'
    BY <2>1, <2>2, <2>3, <2>4 DEF Sound, OffsetInv
  <2> QED BY <2>1, <2>3, <2>4, <2>5, <1>e, OneAtWork DEF Calm
<1>3. ASSUME NEW p \in Procs, FixLength(p) PROVE OffsetInv'
  <2>1. /\ pc[p] = "opened" /\ pc' = [pc EXCEPT ![p] = "sized"]
        /\ disk' = SetLen(disk, position[p])
        /\ UNCHANGED <<overlap, fault, saved, toc, position, buf>>
    BY <1>3 DEF FixLength
  <2>2. Calm
    BY <2>1 DEF Calm
  <2>3. Content(p) = disk
    BY <2>1, <1>0, NoBuffer
  <2>4. position[p] = Len(disk)
    BY <2>1, <2>2, <2>3 DEF OffsetInv, Sound
  <2>5. disk' = disk
    BY <2>1, <2>4, <1>0 DEF SetLen, TypeOK
  <2>6. pc'[p] = "sized" /\ \A q \in Procs : q # p => pc'[q] = pc[q]
    BY <2>1, <1>0 DEF TypeOK
  <2>7. Sound(p)'
    BY <2>1, <2>2, <2>5, <2>6 DEF Sound, OffsetInv, Content
  <2> QED BY <2>1, <2>2, <2>5, <2>6, <2>7, <1>e, OneAtWork DEF Calm
<1>4. ASSUME NEW p \in Procs, LockFile(p) PROVE OffsetInv'
  <2>1. /\ pc[p] = "sized" /\ pc'[p] \in {"ready", "idle"} /\ \A q \in Procs : q # p => pc'[q] = pc[q]
        /\ UNCHANGED <<overlap, fault, disk, saved, toc, position, buf>>
    BY <1>4, <1>0 DEF LockFile, TypeOK
  <2>2. Calm
    BY <2>1 DEF Calm
  <2>3. pc'[p] # "idle" => Sound(p)'
    BY <2>1, <2>2 DEF Sound, OffsetInv, Content
  <2> QED BY <2>1, <2>2, <2>3, <1>e, OneAtWork DEF Calm
<1>5. ASSUME NEW p \in Procs, StartAdd(p) PROVE OffsetInv'
  <2>1. /\ pc[p] = "ready" /\ pc'[p] = "adding" /\ \A q \in Procs : q # p => pc'[q] = pc[q]
        /\ add'[p].written = 0 /\ add'[p].got = {}
        /\ UNCHANGED <<overlap, fault, disk, saved, toc, position, buf>>
    BY <1>5, <1>0 DEF StartAdd, TypeOK
  <2>2. Calm
    BY <2>1 DEF Calm
  <2>3. Sound(p)'
    BY <2>1, <2>2, <1>0, ContentType DEF Sound, OffsetInv, Content
  <2> QED BY <2>1, <2>2, <2>3, <1>e, OneAtWork DEF Calm
<1>6. ASSUME NEW p \in Procs, NEW cell \in Cells, Appended(p, cell), Calm,
             pc[p] = "adding", UNCHANGED <<overlap, fault, saved, toc, pc, position>>,
             add'[p].written = add[p].written + 1, add[p].written \in Nat, position[p] \in Nat,
             \A r \in add'[p].got :
                IsDataAt(Content(p), r) \/ IsDataAt(Content(p)', r) \/ Ahead(p, r)'
      PROVE  OffsetInv'
  <2>1. Content(p)' = Content(p) \o <<cell>> /\ <<cell>> \in Seq(Cells) /\ Content(p) \in Seq(Cells)
    BY <1>0, <1>6, ContentType DEF Appended
  <2>2. Len(Content(p)') = Len(Content(p)) + 1
    BY <2>1
  <2>3. \A r : IsDataAt(Content(p), r) => IsDataAt(Content(p)', r)
    BY <2>1, StaysInPlace
  <2>4. Sound(p)
    BY <1>6 DEF OffsetInv
  <2>5. \A r \in toc'[p] : IsDataAt(Content(p)', r)
    BY <1>6, <2>3, <2>4 DEF Sound
  <2>6. Len(Content(p)') = position'[p] + add'[p].written
    <3>1. Len(Content(p)) = position[p] + add[p].written
      BY <1>6, <2>4 DEF Sound
    <3>2. position'[p] = position[p]
      BY <1>6
    <3> QED BY <3>1, <3>2, <2>2, <1>6
  <2>7. \A r \in add'[p].got : IsDataAt(Content(p)', r) \/ Ahead(p, r)'
    BY <1>6, <2>3
  <2>8. pc'[p] = "adding"
    BY <1>6
  <2>9. Sound(p)'
    BY <2>5, <2>6, <2>7, <2>8 DEF Sound
  <2> QED BY <1>6, <2>9, OneAtWork DEF Appended, Calm
<1>7. ASSUME NEW p \in Procs, WriteHeader(p) PROVE OffsetInv'
  <2> DEFINE cell == Cell(add[p].pkg, add[p].entry, "head")
             r == [pkg |-> add[p].pkg, entry |-> add[p].entry,
                   offset |-> position[p] + add[p].written + 2]
  <2>1. /\ pc[p] = "adding" /\ add[p].at = "head"
        /\ UNCHANGED <<overlap, fault, saved, toc, pc, position>>
    BY <1>7 DEF WriteHeader
  <2>2. cell \in Cells /\ add[p] \in Calls /\ add[p].written \in Nat /\ position[p] \in Nat
    BY <2>1, <1>0, CellType DEF WriterInv, AddingNamed, TypeOK, Calls, Parts
  <2>3. Appended(p, cell)
    BY <1>7, <1>0, <2>2, WriteAppends DEF WriteHeader
  <2>4. /\ add'[p].at = "data" /\ add'[p].written = add[p].written + 1
        /\ add'[p].pkg = add[p].pkg /\ add'[p].entry = add[p].entry
        /\ add'[p].got = add[p].got \cup {r}
    BY <1>7, <1>0, <2>2 DEF WriteHeader, TypeOK, Calls
  <2>5. Calm
    BY <2>1 DEF Calm
  <2>6. \A x \in add[p].got : IsDataAt(Content(p), x)
    BY <2>1, <2>5 DEF OffsetInv, Sound, Ahead
  <2>7. Len(Content(p)') = Len(Content(p)) + 1
    BY <2>3, <1>0, <2>2, ContentType DEF Appended
  <2>8. Len(Content(p)) = position[p] + add[p].written
    BY <2>1, <2>5 DEF OffsetInv, Sound
  <2>9. ASSUME NEW x, x = r PROVE Ahead(p, x)'
    <3>1. x.pkg = add[p].pkg /\ x.entry = add[p].entry /\ x.offset = position[p] + add[p].written + 2
      BY <2>9
    <3>2. x.offset = Len(Content(p)') + 1
      BY <3>1, <2>2, <2>7, <2>8
    <3> QED BY <2>4, <3>1, <3>2 DEF Ahead
  <2>10. \A x \in add'[p].got : IsDataAt(Content(p), x) \/ Ahead(p, x)'
    <3> HIDE DEF r
    <3> QED BY <2>4, <2>6, <2>9
  <2> HIDE DEF cell, r
  <2> QED BY <2>1, <2>2, <2>3, <2>4, <2>5, <2>10, <1>6
<1>8. ASSUME NEW p \in Procs, WritePayload(p) PROVE OffsetInv'
  <2> DEFINE cell == Cell(add[p].pkg, add[p].entry, "data")
  <2>1. /\ pc[p] = "adding" /\ add[p].at = "data"
        /\ UNCHANGED <<overlap, fault, saved, toc, pc, position>>
    BY <1>8 DEF WritePayload
  <2>2. cell \in Cells /\ add[p] \in Calls /\ add[p].written \in Nat /\ position[p] \in Nat
    BY <2>1, <1>0, CellType DEF WriterInv, AddingNamed, TypeOK, Calls, Parts
  <2>3. Appended(p, cell)
    BY <1>8, <1>0, <2>2, WriteAppends DEF WritePayload
  <2>4. add'[p].written = add[p].written + 1 /\ add'[p].got = add[p].got
    BY <1>8, <1>0, <2>2 DEF WritePayload, TypeOK, Calls
  <2>5. Calm
    BY <2>1 DEF Calm
  <2>6. ASSUME NEW x, Ahead(p, x) PROVE IsDataAt(Content(p)', x)
    <3>1. x.pkg = add[p].pkg /\ x.entry = add[p].entry /\ x.offset = Len(Content(p)) + 1
      BY <2>6 DEF Ahead
    <3>2. /\ Content(p) \in Seq(Cells) /\ <<cell>> \in Seq(Cells)
          /\ Content(p)' = Content(p) \o <<cell>>
      BY <2>2, <2>3, <1>0, ContentType DEF Appended
    <3>3. Len(Content(p)') = Len(Content(p)) + 1 /\ Content(p)'[Len(Content(p)) + 1] = cell
      BY <3>2
    <3>4. Len(Content(p)) + 1 \in 1..Len(Content(p)')
      BY <3>3, <1>0, ContentType
    <3> QED BY <3>1, <3>3, <3>4 DEF IsDataAt
  <2>7. \A x \in add[p].got : IsDataAt(Content(p), x) \/ IsDataAt(Content(p)', x)
    BY <2>1, <2>5, <2>6 DEF OffsetInv, Sound
  <2> HIDE DEF cell
  <2> QED BY <2>1, <2>2, <2>3, <2>4, <2>5, <2>7, <1>6
<1>9. ASSUME NEW p \in Procs, EndEntry(p) PROVE OffsetInv'
  <2> DEFINE cell == Cell(add[p].pkg, add[p].entry, "pad")
  <2>1. /\ pc[p] = "adding" /\ add[p].at = "copied"
        /\ UNCHANGED <<overlap, fault, saved, toc, pc, position>>
    BY <1>9 DEF EndEntry
  <2>2. cell \in Cells /\ add[p] \in Calls /\ add[p].written \in Nat /\ position[p] \in Nat
    BY <2>1, <1>0, CellType DEF WriterInv, AddingNamed, TypeOK, Calls, Parts
  <2>3. Appended(p, cell)
    <3>1. CASE <<add[p].pkg, add[p].entry>> \in Listened
      BY <3>1, <1>9, <1>0, <2>2, WriteAppends DEF EndEntry
    <3>2. CASE <<add[p].pkg, add[p].entry>> \notin Listened
      <4>1. disk' = disk \o buf[p] /\ buf'[p] = <<cell>>
        BY <3>2, <1>9, <1>0 DEF EndEntry, TypeOK
      <4> QED BY <4>1, <1>0, ContentType DEF Appended, Content
    <3> QED BY <3>1, <3>2
  <2>4. add'[p].written = add[p].written + 1 /\ add'[p].got = add[p].got
    BY <1>9, <1>0, <2>2 DEF EndEntry, TypeOK, Calls
  <2>5. Calm
    BY <2>1 DEF Calm
  <2>6. \A x \in add[p].got : IsDataAt(Content(p), x)
    BY <2>1, <2>5 DEF OffsetInv, Sound, Ahead
  <2> HIDE DEF cell
  <2> QED BY <2>1, <2>2, <2>3, <2>4, <2>5, <2>6, <1>6
<1>10. ASSUME NEW p \in Procs, FlushPending(p) PROVE OffsetInv'
  <2>1. /\ pc[p] = "adding" /\ disk' = disk \o buf[p] /\ buf'[p] = <<>>
        /\ UNCHANGED <<overlap, fault, saved, pc, toc, position, add>>
    BY <1>10, <1>0 DEF FlushPending, TypeOK
  <2>2. Content(p)' = Content(p)
    BY <2>1, <1>0, ContentType DEF Content
  <2>3. Calm
    BY <2>1 DEF Calm
  <2>4. Sound(p)'
    BY <2>1, <2>2, <2>3 DEF Sound, OffsetInv, Ahead
  <2> QED BY <2>1, <2>3, <2>4, <1>0, ContentType, OneAtWork DEF Calm
<1>11. ASSUME NEW p \in Procs, EndAdd(p) PROVE OffsetInv'
  <2>1. /\ pc[p] = "adding" /\ add[p].at = "head"
        /\ pc'[p] = "ready" /\ \A q \in Procs : q # p => pc'[q] = pc[q]
        /\ position'[p] = position[p] + add[p].written
        /\ toc'[p] = toc[p] \cup add[p].got
        /\ UNCHANGED <<overlap, fault, disk, saved, buf>>
    BY <1>11, <1>0 DEF EndAdd, TypeOK
  <2>2. Calm
    BY <2>1 DEF Calm
  <2>3. Sound(p)
    BY <2>1, <2>2 DEF OffsetInv
  <2>4. Content(p)' = Content(p)
    BY <2>1 DEF Content
  <2>5. \A r \in add[p].got : IsDataAt(Content(p), r)
    BY <2>1, <2>3 DEF Sound, Ahead
  <2>6. Sound(p)'
    BY <2>1, <2>3, <2>4, <2>5 DEF Sound
  <2> QED BY <2>1, <2>2, <2>6, <1>e, OneAtWork DEF Calm
\* A failed call ends the calm.
<1>12. ASSUME NEW p \in Procs, FailAdd(p) \/ TimeoutAdd(p) PROVE OffsetInv'
  BY <1>12 DEF FailAdd, TimeoutAdd, Calm
<1>13. ASSUME NEW p \in Procs, Shutdown(p) PROVE OffsetInv'
  <2>1. /\ pc[p] = "ready" /\ pc'[p] = "closed" /\ \A q \in Procs : q # p => pc'[q] = pc[q]
        /\ disk' = disk \o buf[p] /\ buf'[p] = <<>>
        /\ UNCHANGED <<overlap, fault, saved, toc>>
    BY <1>13, <1>0 DEF Shutdown, TypeOK, Calm
  <2>2. Content(p)' = Content(p)
    BY <2>1, <1>0, ContentType DEF Content
  <2>3. Calm
    BY <2>1 DEF Calm
  <2>4. Sound(p)'
    BY <2>1, <2>2, <2>3 DEF Sound, OffsetInv
  <2> QED BY <2>1, <2>3, <2>4, <1>0, ContentType, OneAtWork DEF Calm
<1>14. ASSUME NEW p \in Procs, TruncMap(p) \/ TruncIndex(p) \/ WriteIndex(p) PROVE OffsetInv'
  <2>1. /\ pc[p] \in {"closed", "mapSaved", "indexCut"} /\ pc'[p] \in {"mapCut", "indexCut", "idle"}
        /\ \A q \in Procs : q # p => pc'[q] = pc[q]
        /\ UNCHANGED <<overlap, fault, disk, saved, toc, buf>>
    BY <1>14, <1>0 DEF TruncMap, TruncIndex, WriteIndex, TypeOK
  <2>2. Calm
    BY <2>1 DEF Calm
  <2>3. Sound(p)'
    BY <2>1, <2>2 DEF Sound, OffsetInv, Content
  <2> QED BY <2>1, <2>2, <2>3, <1>e, OneAtWork DEF Calm
<1>140. ASSUME NEW p \in Procs, WriteMap(p) PROVE OffsetInv'
  <2>1. /\ pc[p] = "mapCut" /\ pc'[p] = "mapSaved" /\ \A q \in Procs : q # p => pc'[q] = pc[q]
        /\ saved' = saved \cup toc[p] /\ UNCHANGED <<overlap, fault, disk, toc, buf>>
    BY <1>140, <1>0 DEF WriteMap, TypeOK
  <2>2. Calm
    BY <2>1 DEF Calm
  <2>3. Content(p) = disk
    BY <2>1, <1>0, NoBuffer
  <2>4. \A r \in saved' : IsDataAt(disk', r)
    BY <2>1, <2>2, <2>3 DEF OffsetInv, Sound
  <2>5. Sound(p)'
    BY <2>1, <2>2 DEF Sound, OffsetInv, Content
  <2>6. \A q \in Procs : pc'[q] # "idle" => q = p
    BY <2>1, <2>2 DEF KeepInv, AloneInv, Calm
  <2> QED BY <2>4, <2>5, <2>6 DEF OffsetInv
<1>15. ASSUME NEW p \in Procs, Crash(p) PROVE OffsetInv'
  <2>1. /\ pc[p] # "idle" /\ pc'[p] = "idle" /\ \A q \in Procs : q # p => pc'[q] = pc[q]
        /\ UNCHANGED <<overlap, fault, disk, saved>>
    BY <1>15, <1>0 DEF Crash, TypeOK
  <2> QED BY <2>1, <1>e, OneAtWork DEF Calm
<1>16. CASE UNCHANGED vars
  BY <1>16 DEF vars, OffsetInv, Calm, Sound, Ahead, Content
<1> QED BY <1>1, <1>2, <1>3, <1>4, <1>5, <1>7, <1>8, <1>9, <1>10, <1>11, <1>12, <1>13,
           <1>14, <1>140, <1>15, <1>16 DEF Next

(* Whatever crashes, as long as no two runs have overlapped and no call    *)
(* has failed, every recorded offset is where that entry's payload is      *)
(* (stargz.rs 67-69, written by tar.rs from NpmBucketStore.position).      *)
THEOREM OffsetsAlwaysHold == Spec => []OffsetsHold
<1>1. OffsetInv => OffsetsHold
  BY DEF OffsetInv, OffsetsHold, OffsetsAreData, Holding, Sound, Content
<1>2. WriterInv => TypeOK
  BY DEF WriterInv, OneWriter
<1> QED BY InitWriter, NextWriter, InitKeep, NextKeep, InitOffset, NextOffset, <1>1, <1>2,
           PTL DEF Spec

-----------------------------------------------------------------------------
(* What the file holds already.  Once io::copy has flushed an entry that   *)
(* is not listened, the payloads before it have left the buffer; while a   *)
(* package is added this is known of the entries it has passed.            *)
Behind(p) ==
    /\ \A r \in toc[p] : FlushedBehind(r) => IsDataAt(disk, r)
    /\ pc[p] = "adding" => \A r \in add[p].got :
         /\ r.pkg = add[p].pkg
         /\ \A n \in (r.entry + 1)..(add[p].entry - 1) :
              <<r.pkg, n>> \notin Listened => IsDataAt(disk, r)

ReadInv == Calm => \A p \in Procs : pc[p] # "idle" => Behind(p)

LEMMA InitRead == Init => ReadInv
BY DEF Init, ReadInv

LEMMA NextRead == WriterInv /\ KeepInv /\ OffsetInv /\ ReadInv /\ [Next]_vars => ReadInv'
<1> SUFFICES ASSUME WriterInv, KeepInv, OffsetInv, ReadInv, [Next]_vars, Calm' PROVE ReadInv'
  BY DEF ReadInv
<1>0. TypeOK
  BY DEF WriterInv, OneWriter
<1> USE DEF history, files
<1>t. \A p \in Procs : /\ add[p].entry \in Nat /\ add[p].got \subseteq TocEntries
                       /\ \A r \in add[p].got : r.entry \in Nat
  BY <1>0 DEF TypeOK, Calls, TocEntries
\* A step of p, alone at work, that adds to the file and not to the table.
<1>1. ASSUME NEW p \in Procs, pc[p] # "idle", Calm, UNCHANGED <<saved, toc>>,
             NEW u \in Seq(Cells), disk' = disk \o u,
             \A q \in Procs : q # p => pc'[q] = pc[q],
             pc'[p] = "adding" => \A r \in add'[p].got :
               /\ r.pkg = add'[p].pkg
               /\ \A n \in (r.entry + 1)..(add'[p].entry - 1) :
                    <<r.pkg, n>> \notin Listened => IsDataAt(disk', r)
      PROVE  ReadInv'
  <2>1. \A q \in Procs : pc'[q] # "idle" => q = p
    BY <1>1 DEF KeepInv, AloneInv, Calm
  <2>2. \A r : IsDataAt(disk, r) => IsDataAt(disk', r)
    BY <1>0, <1>1, StaysInPlace DEF TypeOK
  <2>3. \A r \in toc'[p] : FlushedBehind(r)' => IsDataAt(disk', r)
    BY <1>1, <2>2 DEF ReadInv, Behind, FlushedBehind
  <2>4. Behind(p)'
    BY <1>1, <2>3 DEF Behind
  <2> QED BY <2>1, <2>4 DEF ReadInv
<1>e. <<>> \in Seq(Cells) /\ disk = disk \o <<>>
  BY <1>0 DEF TypeOK
\* A step of p that is not about a package being added.
<1>2. ASSUME NEW p \in Procs, pc[p] # "idle", pc'[p] # "adding", Calm, UNCHANGED <<saved, toc>>,
             NEW u \in Seq(Cells), disk' = disk \o u,
             \A q \in Procs : q # p => pc'[q] = pc[q]
      PROVE  ReadInv'
  BY <1>1, <1>2
<1>3. ASSUME NEW p \in Procs, RestoreToc(p) PROVE ReadInv'
  <2>0. PICK t \in Restorable : toc' = [toc EXCEPT ![p] = t]
    BY <1>3 DEF RestoreToc
  <2>1. /\ pc[p] = "idle" /\ pc' = [pc EXCEPT ![p] = "restored"]
        /\ UNCHANGED <<fault, disk, saved>>
        /\ overlap' = (overlap \/ \E q \in Procs : pc[q] # "idle")
    BY <1>3 DEF RestoreToc
  <2>2. Calm /\ \A q \in Procs : pc[q] = "idle"
    BY <2>1, <1>0 DEF Calm, TypeOK
  <2>3. \A r \in saved : IsDataAt(disk, r)
    BY <2>2 DEF OffsetInv
  <2>4. \A q \in Procs : pc'[q] # "idle" => q = p
    BY <2>1, <2>2, <1>0 DEF TypeOK
  <2>5. pc'[p] = "restored" /\ toc'[p] \subseteq saved
    BY <2>0, <2>1, <2>2, <1>0, RestoredWasSaved DEF TypeOK, Calm
  <2>6. Behind(p)'
    BY <2>1, <2>3, <2>5 DEF Behind
  <2> QED BY <2>4, <2>6 DEF ReadInv
<1>4. ASSUME NEW p \in Procs, OpenFile(p) \/ LockFile(p) \/ Crash(p) PROVE ReadInv'
  <2>1. /\ pc[p] # "idle" /\ pc'[p] # "adding" /\ \A q \in Procs : q # p => pc'[q] = pc[q]
        /\ UNCHANGED <<overlap, fault, disk, saved, toc>>
    BY <1>4, <1>0 DEF OpenFile, LockFile, Crash, TypeOK
  <2> QED BY <2>1, <1>e, <1>2 DEF Calm
<1>5. ASSUME NEW p \in Procs, FixLength(p) PROVE ReadInv'
  <2>1. /\ pc[p] = "opened" /\ pc'[p] = "sized" /\ disk' = SetLen(disk, position[p])
        /\ \A q \in Procs : q # p => pc'[q] = pc[q]
        /\ UNCHANGED <<overlap, fault, saved, toc, buf>>
    BY <1>5, <1>0 DEF FixLength, TypeOK
  <2>2. buf[p] = <<>>
    BY <2>1 DEF WriterInv, OneWriter, Holding
  <2>3. position[p] = Len(disk)
    BY <2>1, <2>2, <1>0, NoBuffer DEF Calm, OffsetInv, Sound
  <2>4. disk' = disk
    BY <2>1, <2>3, <1>0 DEF SetLen, TypeOK
  <2> QED BY <2>1, <2>4, <1>e, <1>2 DEF Calm
<1>6. ASSUME NEW p \in Procs, StartAdd(p) PROVE ReadInv'
  <2>1. /\ pc[p] = "ready" /\ \A q \in Procs : q # p => pc'[q] = pc[q]
        /\ add'[p].got = {} /\ UNCHANGED <<overlap, fault, disk, saved, toc>>
    BY <1>6, <1>0 DEF StartAdd, TypeOK
  <2> QED BY <2>1, <1>e, <1>1 DEF Calm
<1>7. ASSUME NEW p \in Procs, WriteHeader(p) PROVE ReadInv'
  <2> DEFINE c == add[p]
             x == [pkg |-> c.pkg, entry |-> c.entry, offset |-> position[p] + c.written + 2]
  <2>1. /\ pc[p] = "adding" /\ UNCHANGED <<overlap, fault, saved, toc, pc>>
        /\ add'[p].pkg = c.pkg /\ add'[p].entry = c.entry /\ add'[p].got = c.got \cup {x}
    BY <1>7, <1>0 DEF WriteHeader, TypeOK, Calls
  <2>2. PICK u \in Seq(Cells) : disk' = disk \o u
    <3>1. Cell(c.pkg, c.entry, "head") \in Cells
      BY <2>1, <1>t, CellType DEF WriterInv, AddingNamed, Parts
    <3> QED BY <1>7, <1>0, <3>1, WriteAppends DEF WriteHeader, Appended
  <2>3. \A r \in c.got :
          /\ r.pkg = c.pkg
          /\ \A n \in (r.entry + 1)..(c.entry - 1) : <<r.pkg, n>> \notin Listened => IsDataAt(disk, r)
    BY <2>1 DEF ReadInv, Behind, Calm
  <2>4. \A r : IsDataAt(disk, r) => IsDataAt(disk', r)
    BY <1>0, <2>2, StaysInPlace DEF TypeOK
  <2>5. x.pkg = c.pkg /\ \A n \in (x.entry + 1)..(c.entry - 1) : FALSE
    BY <1>t
  <2> HIDE DEF x, c
  <2>6. \A r \in add'[p].got :
          /\ r.pkg = add'[p].pkg
          /\ \A n \in (r.entry + 1)..(add'[p].entry - 1) :
               <<r.pkg, n>> \notin Listened => IsDataAt(disk', r)
    BY <2>1, <2>3, <2>4, <2>5
  <2>7. Calm /\ \A q \in Procs : q # p => pc'[q] = pc[q]
    BY <2>1 DEF Calm
  <2> QED BY <2>1, <2>2, <2>6, <2>7, <1>1
<1>8. ASSUME NEW p \in Procs, WritePayload(p) \/ FlushPending(p) PROVE ReadInv'
  <2>1. /\ pc[p] = "adding" /\ UNCHANGED <<overlap, fault, saved, toc, pc>>
        /\ add'[p].pkg = add[p].pkg /\ add'[p].entry = add[p].entry /\ add'[p].got = add[p].got
    BY <1>8, <1>0 DEF WritePayload, FlushPending, TypeOK, Calls
  <2>2. PICK u \in Seq(Cells) : disk' = disk \o u
    <3>1. Cell(add[p].pkg, add[p].entry, "data") \in Cells
      BY <2>1, <1>t, CellType DEF WriterInv, AddingNamed, Parts
    <3>2. CASE WritePayload(p)
      BY <3>2, <1>0, <3>1, WriteAppends DEF WritePayload, Appended
    <3>3. CASE FlushPending(p)
      BY <3>3, <1>0, ContentType DEF FlushPending
    <3> QED BY <1>8, <3>2, <3>3
  <2>3. \A r : IsDataAt(disk, r) => IsDataAt(disk', r)
    BY <1>0, <2>2, StaysInPlace DEF TypeOK
  <2>4. \A r \in add[p].got :
          /\ r.pkg = add[p].pkg
          /\ \A n \in (r.entry + 1)..(add[p].entry - 1) :
               <<r.pkg, n>> \notin Listened => IsDataAt(disk', r)
    BY <2>1, <2>3 DEF ReadInv, Behind, Calm
  <2>5. Calm /\ \A q \in Procs : q # p => pc'[q] = pc[q]
    BY <2>1 DEF Calm
  <2> QED BY <2>1, <2>2, <2>4, <2>5, <1>1
<1>9. ASSUME NEW p \in Procs, EndEntry(p) PROVE ReadInv'
  <2> DEFINE c == add[p]
             pad == Cell(c.pkg, c.entry, "pad")
  <2>1. /\ pc[p] = "adding" /\ c.at = "copied" /\ UNCHANGED <<overlap, fault, saved, toc, pc>>
        /\ add'[p].pkg = c.pkg /\ add'[p].entry = c.entry + 1 /\ add'[p].got = c.got
    BY <1>9, <1>0 DEF EndEntry, TypeOK, Calls
  <2>2. \A r \in c.got : r.pkg = c.pkg /\ IsDataAt(Content(p), r)
    BY <2>1 DEF ReadInv, Behind, OffsetInv, Sound, Ahead, Calm
  <2>3. /\ \E u \in Seq(Cells) : disk' = disk \o u
        /\ <<c.pkg, c.entry>> \notin Listened => disk' = Content(p)
    <3>1. pad \in Cells
      BY <2>1, <1>t, CellType DEF WriterInv, AddingNamed, Parts
    <3>2. CASE <<c.pkg, c.entry>> \in Listened
      BY <3>1, <3>2, <1>9, <1>0, WriteAppends DEF EndEntry, Appended
    <3>3. CASE <<c.pkg, c.entry>> \notin Listened
      BY <3>3, <1>9, <1>0, ContentType DEF EndEntry, Content
    <3> QED BY <3>2, <3>3
  <2>4. PICK u \in Seq(Cells) : disk' = disk \o u
    BY <2>3
  <2>5. \A r : IsDataAt(disk, r) => IsDataAt(disk', r)
    BY <1>0, <2>4, StaysInPlace DEF TypeOK
  <2>6. ASSUME NEW r \in c.got, NEW n \in (r.entry + 1)..c.entry, <<r.pkg, n>> \notin Listened
        PROVE  IsDataAt(disk', r)
    <3>1. CASE n = c.entry
      BY <2>2, <2>3, <2>6, <3>1
    <3>2. CASE n # c.entry
      <4>1. n \in (r.entry + 1)..(c.entry - 1)
        BY <3>2, <1>t
      <4> QED BY <2>1, <2>5, <2>6, <4>1 DEF ReadInv, Behind, Calm
    <3> QED BY <3>1, <3>2
  <2>7. (c.entry + 1) - 1 = c.entry
    BY <1>t
  <2> HIDE DEF c
  <2>8. \A r \in add'[p].got :
          /\ r.pkg = add'[p].pkg
          /\ \A n \in (r.entry + 1)..(add'[p].entry - 1) :
               <<r.pkg, n>> \notin Listened => IsDataAt(disk', r)
    BY <2>1, <2>2, <2>6, <2>7
  <2>9. Calm /\ \A q \in Procs : q # p => pc'[q] = pc[q]
    BY <2>1 DEF Calm
  <2> QED BY <2>1, <2>4, <2>8, <2>9, <1>1
<1>10. ASSUME NEW p \in Procs, EndAdd(p) PROVE ReadInv'
  <2>1. /\ pc[p] = "adding" /\ add[p].entry > EntryCount[add[p].pkg]
        /\ pc'[p] = "ready" /\ \A q \in Procs : q # p => pc'[q] = pc[q]
        /\ toc'[p] = toc[p] \cup add[p].got /\ UNCHANGED <<overlap, fault, disk, saved>>
    BY <1>10, <1>0 DEF EndAdd, TypeOK
  <2>2. Calm /\ Behind(p) /\ add[p].pkg \in Packages
    BY <2>1 DEF ReadInv, Calm, WriterInv, AddingNamed
  <2>3. ASSUME NEW r \in add[p].got, FlushedBehind(r) PROVE IsDataAt(disk, r)
    <3>1. CASE r \in saved
      BY <2>2, <3>1 DEF OffsetInv
    <3>2. ASSUME NEW n \in (r.entry + 1)..EntryCount[r.pkg], <<r.pkg, n>> \notin Listened
          PROVE  IsDataAt(disk, r)
      <4>1. r.pkg = add[p].pkg
        BY <2>1, <2>2 DEF Behind
      <4>2. EntryCount[add[p].pkg] \in Nat
        BY <2>2, BucketAssumption
      <4>3. n \in (r.entry + 1)..(add[p].entry - 1)
        BY <1>t, <2>1, <4>1, <4>2
      <4> QED BY <2>1, <2>2, <3>2, <4>3 DEF Behind
    <3> QED BY <2>3, <3>1, <3>2 DEF FlushedBehind
  <2>4. \A r \in toc'[p] : FlushedBehind(r)' => IsDataAt(disk', r)
    BY <2>1, <2>2, <2>3 DEF Behind, FlushedBehind
  <2>5. Behind(p)'
    BY <2>1, <2>4 DEF Behind
  <2>6. \A q \in Procs : pc'[q] # "idle" => q = p
    BY <2>1, <2>2 DEF KeepInv, AloneInv, Calm
  <2> QED BY <2>5, <2>6 DEF ReadInv
<1>11. ASSUME NEW p \in Procs, FailAdd(p) \/ TimeoutAdd(p) PROVE ReadInv'
  BY <1>11 DEF FailAdd, TimeoutAdd, Calm
<1>12. ASSUME NEW p \in Procs, Shutdown(p) PROVE ReadInv'
  <2>1. /\ pc[p] = "ready" /\ pc'[p] = "closed" /\ \A q \in Procs : q # p => pc'[q] = pc[q]
        /\ disk' = disk \o buf[p] /\ UNCHANGED <<overlap, fault, saved, toc>>
    BY <1>12, <1>0 DEF Shutdown, TypeOK, Calm
  <2> QED BY <2>1, <1>0, ContentType, <1>2 DEF Calm
<1>13. ASSUME NEW p \in Procs, TruncMap(p) \/ TruncIndex(p) \/ WriteIndex(p) PROVE ReadInv'
  <2>1. /\ pc[p] # "idle" /\ pc'[p] # "adding" /\ \A q \in Procs : q # p => pc'[q] = pc[q]
        /\ UNCHANGED <<overlap, fault, disk, saved, toc>>
    BY <1>13, <1>0 DEF TruncMap, TruncIndex, WriteIndex, TypeOK
  <2> QED BY <2>1, <1>e, <1>2 DEF Calm
\* What is saved is in the file: there is no buffer any more.
<1>130. ASSUME NEW p \in Procs, WriteMap(p) PROVE ReadInv'
  <2>1. /\ pc[p] = "mapCut" /\ pc'[p] = "mapSaved" /\ \A q \in Procs : q # p => pc'[q] = pc[q]
        /\ UNCHANGED <<overlap, fault, disk, toc>>
    BY <1>130, <1>0 DEF WriteMap, TypeOK
  <2>2. Calm
    BY <2>1 DEF Calm
  <2>3. buf[p] = <<>>
    BY <2>1 DEF WriterInv, OneWriter, Holding
  <2>4. \A r \in toc'[p] : IsDataAt(disk', r)
    BY <2>1, <2>2, <2>3, <1>0, NoBuffer DEF OffsetInv, Sound
  <2>5. Behind(p)'
    BY <2>1, <2>4 DEF Behind
  <2>6. \A q \in Procs : pc'[q] # "idle" => q = p
    BY <2>1, <2>2 DEF KeepInv, AloneInv, Calm
  <2> QED BY <2>5, <2>6 DEF ReadInv
<1>14. CASE UNCHANGED vars
  BY <1>14 DEF vars, ReadInv, Calm, Behind, FlushedBehind
<1> QED BY <1>3, <1>4, <1>5, <1>6, <1>7, <1>8, <1>9, <1>10, <1>11, <1>12, <1>13, <1>130,
           <1>14 DEF Next

(* As long as no two runs have overlapped and no call has failed, what     *)
(* notify_package reads from the file of a package that is announced again *)
(* is there: of earlier runs everything, of this one all that an entry     *)
(* that is not listened follows in the same package.                       *)
THEOREM ListenedAlwaysReadable == Spec => []ListenedReadable
<1>1. ReadInv => ListenedReadable
  BY DEF ReadInv, Behind, ListenedReadable, Holding
<1>2. WriterInv => TypeOK
  BY DEF WriterInv, OneWriter
<1> QED BY InitWriter, NextWriter, InitKeep, NextKeep, InitOffset, NextOffset, InitRead, NextRead,
           <1>1, <1>2, PTL DEF Spec

=============================================================================
