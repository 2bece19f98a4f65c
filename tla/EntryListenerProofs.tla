------------------------ MODULE EntryListenerProofs -------------------------
(***************************************************************************)
(* The entries of an install, for any packages, listed entries, buckets,   *)
(* retries and failures: what the blob manager has when the install goes   *)
(* on.                                                                     *)
(***************************************************************************)
EXTENDS EntryListener, TLAPS

Calls == [pkg : Packages, file : Nat \ {0}, ok : BOOLEAN]

-----------------------------------------------------------------------------
(* The inductive invariant.                                                *)

\* The channel holds one entry, or the None of shutdown.
Shape ==
    /\ task \in [Packages -> {"idle", "busy", "copying", "done", "failed"}]
    /\ at \in [Packages -> Nat \ {0}]
    /\ \A k \in Packages : at[k] <= Len(Files[k]) + 1
    /\ tries \in [Packages -> 0..MaxTries]
    /\ channel = <<>> \/ \E x \in Entries \cup {None} : channel = <<x>>
    /\ reading \in Entries \cup {Nobody, Over}
    /\ whole \subseteq Entries /\ cut \subseteq Entries
    /\ calls \in Seq(Calls \cup {Closed})
    /\ packages \subseteq Packages
    /\ gyp \subseteq Packages \X {"name", "name@version"}
    /\ main \in {"batch", "closing", "closed", "resolved", "resumed", "rejected", "dead"}

InChannel(e) == channel = <<e>>
InCalls(c)   == \E i \in 1..Len(calls) : calls[i] = c

\* The pipe of e has been closed.
Past(e) ==
    \/ e.try < tries[e.pkg]
    \/ e.try = tries[e.pkg] /\ (e.file < at[e.pkg] \/ task[e.pkg] = "failed")

\* A pipe that was cut belongs to a failure.
Lost(e) == e.try < tries[e.pkg] \/ task[e.pkg] = "failed"

PipeInv ==
    /\ \A e \in whole \cup cut : Past(e)
    /\ \A e \in cut : Lost(e)
    /\ \A k \in Packages : task[k] = "copying" =>
         k \notin Reused /\ Left(k) /\ (Entry(k) = reading \/ InChannel(Entry(k)))

\* What the listener has made of the i-th entry of k.
Given(k, i) ==
    /\ Files[k][i] = "json" => k \in packages
    /\ Files[k][i] = "gyp" => NameOf(k) \in gyp

\* Between the bucket and the blob manager.
Underway(k, i) == LET e == [pkg |-> k, file |-> i, try |-> tries[k]] IN
    \/ e \in whole /\ (e = reading \/ InChannel(e))
    \/ InCalls(Call(k, i, TRUE))

SentInv == \A k \in Packages : \A i \in 1..(at[k] - 1) :
    task[k] # "failed" => Underway(k, i) \/ Given(k, i)

\* What the caller has waited for.
CallerInv ==
    /\ main \in {"closing", "closed", "resolved", "resumed"} =>
         \A k \in Packages : task[k] \in {"done", "failed"}
    /\ \A k \in Packages : task[k] = "done" => at[k] = Len(Files[k]) + 1
    /\ main \in {"batch", "closing"} => ~InChannel(None) /\ reading # Over
    /\ main = "closed" => \/ InChannel(None) /\ reading # Over
                          \/ channel = <<>> /\ reading = Over
    /\ main \in {"resolved", "resumed"} => channel = <<>> /\ reading = Over
    /\ main \in {"batch", "closing", "closed", "rejected"} => ~InCalls(Closed)
    /\ \A i \in 1..Len(calls) : calls[i] = Closed => i = Len(calls)
    /\ main = "resumed" => calls = <<>>

\* A truncated package.json is the work of a failure.
BrokenInv ==
    (main = "dead" \/ \E i \in 1..Len(calls) : ~calls[i].ok)
        => \E k \in Packages : tries[k] > 0 \/ task[k] = "failed"

ListenerInv == Shape /\ PipeInv /\ SentInv /\ CallerInv /\ BrokenInv

LEMMA ShapeIsType == Shape => TypeOK
<1> SUFFICES ASSUME Shape PROVE TypeOK
  OBVIOUS
<1>1. Len(channel) <= 1 /\ ToSet(channel) \subseteq Entries \cup {None}
  <2>1. CASE channel = <<>>
    BY <2>1 DEF ToSet
  <2>2. ASSUME NEW x \in Entries \cup {None}, channel = <<x>> PROVE Len(channel) <= 1 /\ ToSet(channel) = {x}
    BY <2>2 DEF ToSet
  <2> QED BY <2>1, <2>2 DEF Shape
<1>2. ToSet(calls) \subseteq Calls \cup {Closed}
  BY DEF Shape, ToSet
<1>3. \A k \in Packages : at[k] \in 1..(Len(Files[k]) + 1)
  BY EntryListenerAssumption DEF Shape
<1> QED BY <1>1, <1>2, <1>3 DEF Shape, TypeOK, Calls

\* What the markers are not.
LEMMA Markers ==
    /\ Nobody \notin Entries /\ Over \notin Entries /\ None \notin Entries
    /\ Nobody # Over /\ Nobody # None /\ Over # None
    /\ Closed \notin Calls
<1>1. Nobody.file = 0 /\ Over.file = 0 /\ None.file = 0 /\ Closed.file = 0
  BY DEF Nobody, Over, None, Closed, Mark, Call
<1>2. Nobody.pkg # Over.pkg /\ Nobody.pkg # None.pkg /\ Over.pkg # None.pkg
  BY DEF Nobody, Over, None, Mark
<1>3. \A e \in Entries \cup Calls : e.file # 0
  BY DEF Entries, Calls
<1> QED BY <1>1, <1>2, <1>3

LEMMA InitListener == Init => ListenerInv
<1> SUFFICES ASSUME Init PROVE ListenerInv
  OBVIOUS
<1>0. \A k \in Packages : Len(Files[k]) \in Nat
  BY EntryListenerAssumption
<1>1. /\ channel = <<>> /\ calls = <<>> /\ reading = Nobody /\ main = "batch" /\ whole = {} /\ cut = {}
      /\ \A k \in Packages : task[k] = "idle" /\ at[k] = 1 /\ tries[k] = 0
  BY DEF Init
<1>2. Shape
  BY <1>0, <1>1, EntryListenerAssumption DEF Init, Shape
<1>3. PipeInv /\ SentInv
  BY <1>1 DEF PipeInv, SentInv
<1>4. CallerInv /\ BrokenInv
  BY <1>1, Markers DEF CallerInv, BrokenInv, InCalls, InChannel
<1> QED BY <1>2, <1>3, <1>4 DEF ListenerInv

LEMMA EntryType ==
    ASSUME Shape, NEW k \in Packages
    PROVE  Entry(k) \in Entries /\ Entry(k).pkg = k /\ Entry(k).file = at[k] /\ Entry(k).try = tries[k]
BY DEF Shape, Entry, Entries

LEMMA NextShape == ListenerInv /\ [Next]_vars => Shape'
<1> SUFFICES ASSUME ListenerInv, [Next]_vars PROVE Shape'
  OBVIOUS
<1> USE DEF vars, taskVars, jsVars
<1>i. Shape /\ PipeInv
  BY DEF ListenerInv
<1>f. \A k \in Packages : Len(Files[k]) \in Nat /\ at[k] \in Nat \ {0} /\ tries[k] \in 0..MaxTries
  BY <1>i, EntryListenerAssumption DEF Shape
<1>1. ASSUME NEW k \in Packages, Begin(k) \/ Done(k) PROVE Shape'
  <2>1. CASE Begin(k)
    BY <2>1, <1>i DEF Begin, Shape
  <2>2. CASE Done(k)
    BY <2>2, <1>i DEF Done, Shape
  <2> QED BY <1>1, <2>1, <2>2
<1>2. ASSUME NEW k \in Packages, Send(k) \/ Copy(k) PROVE Shape'
  <2>1. at[k] <= Len(Files[k])
    BY <1>2, <1>i DEF Send, Copy, Left, PipeInv
  <2>2. at[k] + 1 \in Nat \ {0} /\ at[k] + 1 <= Len(Files[k]) + 1
    BY <2>1, <1>f
  <2>3. at' = at \/ at' = [at EXCEPT ![k] = at[k] + 1]
    BY <1>2 DEF Send, Copy
  <2>4. at' \in [Packages -> Nat \ {0}] /\ \A j \in Packages : at'[j] <= Len(Files[j]) + 1
    BY <2>2, <2>3, <1>i DEF Shape
  <2>5. whole' \subseteq Entries
    BY <1>2, <1>i, EntryType DEF Send, Copy, Shape
  <2>6. channel' = <<>> \/ \E x \in Entries \cup {None} : channel' = <<x>>
    BY <1>2, <1>i, EntryType DEF Send, Copy, Shape
  <2>7. task' \in [Packages -> {"idle", "busy", "copying", "done", "failed"}]
    BY <1>2, <1>i DEF Send, Copy, Shape
  <2>8. UNCHANGED <<tries, cut, reading, calls, packages, gyp, main>>
    BY <1>2 DEF Send, Copy
  <2> QED BY <2>4, <2>5, <2>6, <2>7, <2>8, <1>i DEF Shape
<1>3. ASSUME NEW k \in Packages, Fail(k) PROVE Shape'
  <2>1. whole' \subseteq Entries /\ cut' \subseteq Entries
    BY <1>3, <1>i, EntryType DEF Fail, Shape
  <2>2. /\ task' \in [Packages -> {"idle", "busy", "copying", "done", "failed"}]
        /\ at' \in [Packages -> Nat \ {0}] /\ \A j \in Packages : at'[j] <= Len(Files[j]) + 1
    <3>1. at' = at \/ at' = [at EXCEPT ![k] = 1]
      BY <1>3 DEF Fail
    <3>2. task' = [task EXCEPT ![k] = "idle"] \/ task' = [task EXCEPT ![k] = "failed"]
      BY <1>3 DEF Fail
    <3>3. 1 <= Len(Files[k]) + 1
      BY <1>f
    <3>4. at' \in [Packages -> Nat \ {0}] /\ \A j \in Packages : at'[j] = at[j] \/ (j = k /\ at'[j] = 1)
      <4>1. at \in [Packages -> Nat \ {0}]
        BY <1>i DEF Shape
      <4>2. CASE at' = at
        BY <4>1, <4>2
      <4>3. CASE at' = [at EXCEPT ![k] = 1]
        BY <4>1, <4>3
      <4> QED BY <3>1, <4>2, <4>3
    <3>5. \A j \in Packages : at'[j] <= Len(Files[j]) + 1
      BY <3>3, <3>4, <1>i DEF Shape
    <3> QED BY <3>2, <3>4, <3>5, <1>i DEF Shape
  <2>3. tries' \in [Packages -> 0..MaxTries]
    <3>1. tries[k] \in 0..MaxTries /\ (tries[k] < MaxTries => tries[k] + 1 \in 0..MaxTries)
      BY <1>f, EntryListenerAssumption
    <3>2. tries' = tries \/ (tries[k] < MaxTries /\ tries' = [tries EXCEPT ![k] = tries[k] + 1])
      BY <1>3 DEF Fail
    <3> QED BY <3>1, <3>2, <1>i DEF Shape
  <2>4. UNCHANGED <<channel, reading, calls, packages, gyp, main>>
    BY <1>3 DEF Fail
  <2> QED BY <2>1, <2>2, <2>3, <2>4, <1>i DEF Shape
<1>4. CASE Take
  <2>1. PICK x \in Entries \cup {None} : channel = <<x>>
    BY <1>4, <1>i DEF Take, Shape
  <2>2. Head(channel) = x /\ Tail(channel) = <<>>
    BY <2>1
  <2>3. channel' = <<>> /\ reading' \in Entries \cup {Nobody, Over}
    BY <1>4, <2>1, <2>2 DEF Take
  <2> QED BY <1>4, <2>3, <1>i DEF Take, Shape
<1>5. CASE Deliver
  <2>1. reading \in Entries
    BY <1>5, <1>i DEF Deliver, Shape
  <2>2. Call(reading.pkg, reading.file, reading \in whole) \in Calls
    BY <2>1 DEF Call, Calls, Entries
  <2>3. calls' \in Seq(Calls \cup {Closed})
    <3> DEFINE c == Call(reading.pkg, reading.file, reading \in whole)
    <3>1. calls \in Seq(Calls \cup {Closed}) /\ c \in Calls
      BY <2>2, <1>i DEF Shape
    <3>2. calls' = Append(calls, c) \/ calls' = calls
      BY <1>5 DEF Deliver
    <3> HIDE DEF c
    <3> QED BY <3>1, <3>2
  <2>4. whole' \subseteq Entries /\ cut' \subseteq Entries /\ reading' = Nobody
    BY <1>5, <1>i DEF Deliver, Shape
  <2> QED BY <1>5, <2>3, <2>4, <1>i DEF Deliver, Shape
<1>6. CASE JsTurn
  <2> DEFINE c == Head(calls)
  <2>1. calls # <<>> /\ calls' = Tail(calls) /\ c \in Calls \cup {Closed} /\ calls' \in Seq(Calls \cup {Closed})
    BY <1>6, <1>i DEF JsTurn, Shape
  <2>2. UNCHANGED <<task, at, tries, whole, cut, channel, reading>>
    BY <1>6 DEF JsTurn
  <2>3. packages' \subseteq Packages /\ gyp' \subseteq Packages \X {"name", "name@version"}
        /\ main' \in {"batch", "closing", "closed", "resolved", "resumed", "rejected", "dead"}
    <3>1. CASE c = Closed /\ main' = "resumed" /\ UNCHANGED jsVars
      BY <3>1, <1>i DEF Shape
    <3>2. CASE c # Closed /\ JsEntry(c)
      <4>1. c.pkg \in Packages /\ NameOf(c.pkg) \in Packages \X {"name", "name@version"}
        BY <2>1, <3>2 DEF Calls, NameOf
      <4> HIDE DEF c
      <4> QED BY <3>2, <4>1, <1>i DEF JsEntry, Shape
    <3> QED BY <1>6, <3>1, <3>2 DEF JsTurn
  <2> QED BY <2>1, <2>2, <2>3, <1>i DEF Shape
<1>7. CASE ReturnBatch
  BY <1>7, <1>i DEF ReturnBatch, Shape
<1>8. CASE SendNone
  BY <1>8, <1>i DEF SendNone, Shape
<1>9. CASE Resolve
  BY <1>9, <1>i DEF Resolve, Shape
<1>10. CASE UNCHANGED vars
  BY <1>10, <1>i DEF Shape
<1> QED BY <1>1, <1>2, <1>3, <1>4, <1>5, <1>6, <1>7, <1>8, <1>9, <1>10 DEF Next, Handler, Caller

-----------------------------------------------------------------------------
(* Pipes: what has been closed lies behind the package's sender.           *)

LEMMA NextPipe == ListenerInv /\ [Next]_vars => PipeInv'
<1> SUFFICES ASSUME ListenerInv, [Next]_vars PROVE PipeInv'
  OBVIOUS
<1> USE DEF taskVars, jsVars
<1>i. Shape /\ PipeInv
  BY DEF ListenerInv
<1>t. \A e \in Entries : e.pkg \in Packages /\ e.file \in Nat /\ e.try \in Nat
  BY EntryListenerAssumption DEF Entries
<1>f. \A k \in Packages : at[k] \in Nat /\ tries[k] \in Nat
  BY <1>i, EntryListenerAssumption DEF Shape
<1>w. ASSUME UNCHANGED <<task, at, tries>>, whole' \subseteq whole, cut' \subseteq cut,
             \A k \in Packages : task[k] = "copying" /\ (Entry(k) = reading \/ InChannel(Entry(k))) =>
               Entry(k) = reading' \/ channel' = <<Entry(k)>>
      PROVE  PipeInv'
  BY <1>w, <1>i DEF PipeInv, Past, Lost, Left, Entry, InChannel
<1>1. ASSUME NEW k \in Packages, Begin(k) \/ Done(k) PROVE PipeInv'
  <2>1. /\ UNCHANGED <<at, tries, whole, cut, channel, reading>> /\ task[k] \in {"idle", "busy"}
        /\ task' = [task EXCEPT ![k] = "busy"] \/ task' = [task EXCEPT ![k] = "done"]
    BY <1>1 DEF Begin, Done
  <2>2. \A j \in Packages : task'[j] = task[j] \/ (j = k /\ task'[j] \in {"busy", "done"} /\ task[j] # "failed")
    BY <2>1, <1>i DEF Shape
  <2>3. \A e \in Entries : (Past(e) => Past(e)') /\ (Lost(e) => Lost(e)')
    BY <2>1, <2>2, <1>t DEF Past, Lost
  <2>4. \A j \in Packages : task'[j] = "copying" =>
          j \notin Reused /\ Left(j)' /\ (Entry(j)' = reading' \/ InChannel(Entry(j))')
    BY <2>1, <2>2, <1>i DEF PipeInv, Left, Entry, InChannel
  <2> QED BY <2>1, <2>3, <2>4, <1>i DEF PipeInv, Shape
\* An entry that has been sent, or copied to its end.
<1>2. ASSUME NEW k \in Packages, Send(k) \/ Copy(k) PROVE PipeInv'
  <2>1. /\ UNCHANGED <<tries, cut, reading>> /\ task[k] \in {"busy", "copying"}
        /\ task' = task \/ task' = [task EXCEPT ![k] = "copying"] \/ task' = [task EXCEPT ![k] = "busy"]
        /\ \/ at' = at /\ whole' = whole
           \/ at' = [at EXCEPT ![k] = at[k] + 1] /\ whole' = whole \cup {Entry(k)}
    BY <1>2 DEF Send, Copy
  <2>2. \A j \in Packages : /\ task'[j] = "failed" <=> task[j] = "failed"
                            /\ at'[j] = at[j] \/ at'[j] = at[j] + 1
                            /\ tries'[j] = tries[j]
    BY <2>1, <1>i DEF Shape
  <2>3. \A e \in Entries : (Past(e) => Past(e)') /\ (Lost(e) => Lost(e)')
    BY <2>2, <1>t, <1>f DEF Past, Lost
  <2>4. \A e \in whole' : Past(e)'
    <3>1. \A e \in whole : Past(e)'
      BY <2>3, <1>i DEF PipeInv, Shape
    <3>2. CASE at' = [at EXCEPT ![k] = at[k] + 1] /\ whole' = whole \cup {Entry(k)}
      <4>1. PICK x \in Entries : x = Entry(k)
        BY <1>i, EntryType
      <4>2. x.pkg = k /\ x.file = at[k] /\ x.try = tries[k]
        BY <4>1, <1>i, EntryType
      <4>3. at'[k] = at[k] + 1 /\ tries'[k] = tries[k]
        BY <3>2, <2>1, <1>i DEF Shape
      <4>4. Past(x)'
        BY <4>2, <4>3, <1>f DEF Past
      <4> QED BY <3>1, <3>2, <4>1, <4>4
    <3> QED BY <2>1, <3>1, <3>2
  <2>5. \A e \in cut' : Past(e)' /\ Lost(e)'
    BY <2>1, <2>3, <1>i DEF PipeInv, Shape
  <2>6. ASSUME NEW j \in Packages, task'[j] = "copying"
        PROVE  j \notin Reused /\ Left(j)' /\ (Entry(j)' = reading' \/ InChannel(Entry(j))')
    <3>1. CASE j # k
      <4>1. task[j] = "copying" /\ at'[j] = at[j] /\ Entry(j)' = Entry(j)
        BY <2>1, <2>6, <3>1, <1>i DEF Shape, Entry
      <4>2. channel' = channel \/ channel = <<>>
        BY <1>2 DEF Send, Copy
      <4>3. channel = <<>> => ~InChannel(Entry(j))
        BY DEF InChannel
      <4> QED BY <4>1, <4>2, <4>3, <2>1, <1>i DEF PipeInv, Left, InChannel
    <3>2. CASE j = k
      <4>1. Send(k) /\ k \notin Reused /\ Left(k) /\ channel' = <<Entry(k)>> /\ at' = at
        BY <1>2, <2>6, <3>2, <1>i DEF Send, Copy, Shape, PipeInv
      <4> QED BY <4>1, <3>2, <2>1 DEF Left, Entry, InChannel
    <3> QED BY <3>1, <3>2
  <2> QED BY <2>4, <2>5, <2>6 DEF PipeInv
<1>3. ASSUME NEW k \in Packages, Fail(k) PROVE PipeInv'
  <2>1. /\ UNCHANGED <<channel, reading>> /\ task[k] \in {"busy", "copying"}
        /\ whole' \subseteq whole \cup {Entry(k)} /\ cut' \subseteq cut \cup {Entry(k)}
        /\ \/ /\ tries' = [tries EXCEPT ![k] = tries[k] + 1] /\ at' = [at EXCEPT ![k] = 1]
              /\ task' = [task EXCEPT ![k] = "idle"]
           \/ UNCHANGED <<tries, at>> /\ task' = [task EXCEPT ![k] = "failed"]
    BY <1>3 DEF Fail
  <2>2. \A j \in Packages : j # k => at'[j] = at[j] /\ tries'[j] = tries[j] /\ task'[j] = task[j]
    BY <2>1, <1>i DEF Shape
  <2>3. \/ tries'[k] = tries[k] + 1 /\ task'[k] = "idle"
        \/ tries'[k] = tries[k] /\ at'[k] = at[k] /\ task'[k] = "failed"
    BY <2>1, <1>i DEF Shape
  <2>4. ASSUME NEW e \in Entries, Past(e) PROVE Past(e)'
    <3>1. CASE e.pkg = k
      BY <2>3, <2>4, <3>1, <1>t, <1>f DEF Past
    <3>2. CASE e.pkg # k
      BY <2>2, <2>4, <3>2, <1>t DEF Past
    <3> QED BY <3>1, <3>2
  <2>5. ASSUME NEW e \in Entries, Past(e), Lost(e) \/ e.pkg = k PROVE Lost(e)'
    <3>1. CASE e.pkg = k
      BY <2>3, <2>5, <3>1, <1>t, <1>f DEF Past, Lost
    <3>2. CASE e.pkg # k
      BY <2>2, <2>5, <3>2, <1>t DEF Lost
    <3> QED BY <3>1, <3>2
  <2>6. PICK x \in Entries : x = Entry(k)
    BY <1>i, EntryType
  <2>7. Past(x)' /\ Lost(x)'
    <3>1. x.pkg = k /\ x.file = at[k] /\ x.try = tries[k]
      BY <2>6, <1>i, EntryType
    <3> QED BY <2>3, <3>1, <1>f DEF Past, Lost
  <2>8. (\A e \in whole' \cup cut' : Past(e)') /\ \A e \in cut' : Lost(e)'
    <3>1. whole' \cup cut' \subseteq whole \cup cut \cup {x} /\ cut' \subseteq cut \cup {x}
      BY <2>1, <2>6
    <3>2. \A e \in whole \cup cut : e \in Entries /\ Past(e) /\ Past(e)'
      BY <2>4, <1>i DEF PipeInv, Shape
    <3>3. \A e \in cut : Lost(e)'
      BY <2>5, <3>2, <1>i DEF PipeInv
    <3> QED BY <2>7, <3>1, <3>2, <3>3
  <2>9. \A j \in Packages : task'[j] = "copying" =>
          j \notin Reused /\ Left(j)' /\ (Entry(j)' = reading' \/ InChannel(Entry(j))')
    BY <2>1, <2>2, <2>3, <1>i DEF PipeInv, Left, Entry, InChannel
  <2> QED BY <2>8, <2>9 DEF PipeInv
<1>4. CASE Take
  <2>1. UNCHANGED <<task, at, tries, whole, cut>> /\ reading = Nobody
        /\ reading' = (IF Head(channel) = None THEN Over ELSE Head(channel))
    BY <1>4 DEF Take
  <2>2. ASSUME NEW k \in Packages, Entry(k) = reading \/ InChannel(Entry(k)) PROVE Entry(k) = reading'
    <3>1. Entry(k) \in Entries
      BY <1>i, EntryType
    <3>2. channel = <<Entry(k)>> /\ Entry(k) # None
      BY <2>1, <2>2, <3>1, Markers DEF InChannel
    <3> QED BY <2>1, <3>2
  <2> QED BY <2>1, <2>2, <1>w
<1>5. CASE Deliver
  <2>1. UNCHANGED <<task, at, tries, channel>> /\ reading \in whole \cup cut
        /\ whole' \subseteq whole /\ cut' \subseteq cut
    BY <1>5 DEF Deliver
  <2>2. ASSUME NEW k \in Packages, task[k] = "copying" PROVE Entry(k) # reading
    <3>1. ~Past(Entry(k))
      BY <1>i, <2>2, <1>f, EntryType DEF Past
    <3> QED BY <2>1, <3>1, <1>i DEF PipeInv
  <2> QED BY <2>1, <2>2, <1>w DEF InChannel
<1>6. CASE JsTurn \/ ReturnBatch \/ Resolve \/ UNCHANGED vars
  BY <1>6, <1>w DEF JsTurn, ReturnBatch, Resolve, vars, InChannel
<1>7. CASE SendNone
  <2>1. UNCHANGED <<task, at, tries, whole, cut, reading>> /\ channel = <<>>
    BY <1>7 DEF SendNone
  <2> QED BY <2>1, <1>w DEF InChannel
<1> QED BY <1>1, <1>2, <1>3, <1>4, <1>5, <1>6, <1>7 DEF Next, Handler, Caller

-----------------------------------------------------------------------------
(* What JS has queued.                                                     *)

LEMMA AppendHas ==
    ASSUME NEW S, NEW s \in Seq(S), NEW x \in S
    PROVE  /\ Len(Append(s, x)) = Len(s) + 1
           /\ Append(s, x)[Len(s) + 1] = x
           /\ \A i \in 1..Len(s) : Append(s, x)[i] = s[i]
OBVIOUS

LEMMA TailHas ==
    ASSUME NEW S, NEW s \in Seq(S), s # <<>>
    PROVE  /\ Len(Tail(s)) = Len(s) - 1 /\ Len(s) \in Nat \ {0} /\ Head(s) = s[1]
           /\ \A i \in 1..Len(Tail(s)) : Tail(s)[i] = s[i + 1]
           /\ \A c : (\E i \in 1..Len(s) : s[i] = c) =>
                c = Head(s) \/ \E i \in 1..Len(Tail(s)) : Tail(s)[i] = c
<1>1. Len(Tail(s)) = Len(s) - 1 /\ Len(s) \in Nat \ {0} /\ Head(s) = s[1]
  OBVIOUS
<1>2. \A i \in 1..Len(Tail(s)) : Tail(s)[i] = s[i + 1]
  OBVIOUS
<1>3. ASSUME NEW i \in 1..Len(s), i # 1
      PROVE  i - 1 \in 1..Len(Tail(s)) /\ Tail(s)[i - 1] = s[i]
  <2>1. i - 1 \in 1..Len(Tail(s)) /\ (i - 1) + 1 = i
    BY <1>1, <1>3
  <2> QED BY <1>2, <2>1
<1> QED BY <1>1, <1>2, <1>3

-----------------------------------------------------------------------------
(* No entry gets lost between its bucket and the blob manager.             *)

LEMMA NextSent == ListenerInv /\ [Next]_vars => SentInv'
<1> SUFFICES ASSUME ListenerInv, [Next]_vars PROVE SentInv'
  OBVIOUS
<1> USE DEF taskVars, jsVars
<1>i. Shape /\ PipeInv /\ SentInv
  BY DEF ListenerInv
<1>f. \A k \in Packages : at[k] \in Nat \ {0} /\ tries[k] \in 0..MaxTries
  BY <1>i DEF Shape
<1>c. calls \in Seq(Calls \cup {Closed})
  BY <1>i DEF Shape
\* A package that stays where it is: its entries do if the listener keeps them.
<1>w. ASSUME NEW k \in Packages, at'[k] = at[k], tries'[k] = tries[k], task'[k] = "failed" <=> task[k] = "failed",
             \A i \in 1..(at[k] - 1) : task[k] # "failed" /\ (Underway(k, i) \/ Given(k, i)) =>
               Underway(k, i)' \/ Given(k, i)'
      PROVE  \A i \in 1..(at'[k] - 1) : task'[k] # "failed" => Underway(k, i)' \/ Given(k, i)'
  BY <1>w, <1>i DEF SentInv
\* The listener and the JS thread stand still, the channel may get an entry.
<1>x. ASSUME UNCHANGED <<reading, calls, packages, gyp>>, whole \subseteq whole',
             channel' = channel \/ channel = <<>>,
             NEW k \in Packages, tries'[k] = tries[k], NEW i, Underway(k, i) \/ Given(k, i)
      PROVE  Underway(k, i)' \/ Given(k, i)'
  <2>1. CASE Given(k, i)
    BY <1>x, <2>1 DEF Given, NameOf
  <2>2. CASE InCalls(Call(k, i, TRUE))
    BY <1>x, <2>2 DEF Underway, InCalls, Call
  <2>3. ASSUME NEW e, e \in whole, e = reading \/ InChannel(e)
        PROVE  e \in whole' /\ (e = reading' \/ channel' = <<e>>)
    BY <1>x, <2>3, SMTT(30) DEF InChannel
  <2> QED BY <1>x, <2>1, <2>2, <2>3 DEF Underway, InChannel
<1>1. ASSUME NEW k \in Packages, Begin(k) \/ Done(k) PROVE SentInv'
  <2>1. /\ UNCHANGED <<at, tries, whole, channel, reading, calls, packages, gyp>>
        /\ \A j \in Packages : task'[j] = "failed" <=> task[j] = "failed"
    BY <1>1, <1>i DEF Begin, Done, Shape
  <2> QED BY <2>1, <1>w, <1>x DEF SentInv
<1>2. ASSUME NEW k \in Packages, Send(k) \/ Copy(k) PROVE SentInv'
  <2>1. /\ UNCHANGED <<tries, reading, calls, packages, gyp>> /\ whole \subseteq whole'
        /\ \A j \in Packages : task'[j] = "failed" <=> task[j] = "failed"
        /\ channel' = channel \/ channel = <<>>
        /\ \A j \in Packages : j # k => at'[j] = at[j]
    BY <1>2, <1>i DEF Send, Copy, Shape
  <2>2. \/ at'[k] = at[k]
        \/ at'[k] = at[k] + 1 /\ Entry(k) \in whole' /\ (Entry(k) = reading' \/ channel' = <<Entry(k)>>)
    BY <1>2, <1>i DEF Send, Copy, Shape, PipeInv, InChannel
  <2>3. ASSUME NEW j \in Packages, at'[j] = at[j]
        PROVE  \A i \in 1..(at'[j] - 1) : task'[j] # "failed" => Underway(j, i)' \/ Given(j, i)'
    BY <2>1, <2>3, <1>w, <1>x
  <2>4. ASSUME at'[k] = at[k] + 1, Entry(k) \in whole', Entry(k) = reading' \/ channel' = <<Entry(k)>>,
               NEW i \in 1..(at'[k] - 1), task'[k] # "failed"
        PROVE  Underway(k, i)' \/ Given(k, i)'
    <3>1. CASE i = at[k]
      <4>1. Entry(k) = [pkg |-> k, file |-> i, try |-> tries'[k]]
        BY <2>1, <3>1 DEF Entry
      <4> QED BY <2>4, <4>1 DEF Underway, InChannel
    <3>2. CASE i # at[k]
      <4>1. i \in 1..(at[k] - 1) /\ task[k] # "failed"
        BY <2>1, <2>4, <3>2, <1>f
      <4>2. Underway(k, i) \/ Given(k, i)
        BY <4>1, <1>i DEF SentInv
      <4> QED BY <2>1, <4>2, <1>x
    <3> QED BY <3>1, <3>2
  <2>5. ASSUME NEW j \in Packages
        PROVE  \A i \in 1..(at'[j] - 1) : task'[j] # "failed" => Underway(j, i)' \/ Given(j, i)'
    BY <2>1, <2>2, <2>3, <2>4
  <2> QED BY <2>5 DEF SentInv
<1>3. ASSUME NEW k \in Packages, Fail(k) PROVE SentInv'
  <2>1. /\ UNCHANGED <<channel, reading, calls, packages, gyp>> /\ whole \subseteq whole'
        /\ at'[k] = 1 \/ task'[k] = "failed"
        /\ \A j \in Packages : j # k => at'[j] = at[j] /\ tries'[j] = tries[j] /\ task'[j] = task[j]
    BY <1>3, <1>i DEF Fail, Shape
  <2>2. ASSUME NEW j \in Packages, j # k
        PROVE  \A i \in 1..(at'[j] - 1) : task'[j] # "failed" => Underway(j, i)' \/ Given(j, i)'
    BY <2>1, <2>2, <1>w, <1>x
  <2>3. \A i \in 1..(at'[k] - 1) : task'[k] # "failed" => Underway(k, i)' \/ Given(k, i)'
    BY <2>1
  <2> QED BY <2>2, <2>3 DEF SentInv
\* The listener and the JS thread.
<1>y. ASSUME UNCHANGED <<task, at, tries>>,
             \A k \in Packages : \A i \in 1..(at[k] - 1) : task[k] # "failed" /\ (Underway(k, i) \/ Given(k, i)) =>
               Underway(k, i)' \/ Given(k, i)'
      PROVE  SentInv'
  BY <1>y, <1>w DEF SentInv
<1>4. CASE Take
  <2>1. /\ UNCHANGED <<task, at, tries, whole, calls, packages, gyp>> /\ reading = Nobody
        /\ reading' = (IF Head(channel) = None THEN Over ELSE Head(channel))
    BY <1>4 DEF Take
  <2>2. ASSUME NEW k \in Packages, NEW i \in 1..(at[k] - 1), Underway(k, i) \/ Given(k, i)
        PROVE  Underway(k, i)' \/ Given(k, i)'
    <3> DEFINE e == [pkg |-> k, file |-> i, try |-> tries[k]]
    <3>1. CASE e \in whole /\ (e = reading \/ InChannel(e))
      <4>1. e \in Entries
        BY <3>1, <1>i DEF Shape
      <4>2. e = reading'
        <5> HIDE DEF e
        <5> QED BY <2>1, <3>1, <4>1, Markers DEF InChannel
      <4> QED BY <2>1, <3>1, <4>2 DEF Underway
    <3>2. CASE InCalls(Call(k, i, TRUE)) \/ Given(k, i)
      BY <2>1, <3>2 DEF Underway, Given, InCalls
    <3> QED BY <2>2, <3>1, <3>2 DEF Underway
  <2> QED BY <2>1, <2>2, <1>y
<1>5. CASE Deliver
  <2>1. /\ UNCHANGED <<task, at, tries, channel, packages, gyp>> /\ reading \in Entries
        /\ whole' = whole \ {reading}
        /\ \/ calls' = Append(calls, Call(reading.pkg, reading.file, reading \in whole))
           \/ reading \in cut /\ calls' = calls
    BY <1>5, <1>i DEF Deliver, Shape
  <2>2. Call(reading.pkg, reading.file, reading \in whole) \in Calls
    BY <2>1 DEF Call, Calls, Entries
  <2>3. ASSUME NEW c, InCalls(c) PROVE InCalls(c)'
    <3> DEFINE x == Call(reading.pkg, reading.file, reading \in whole)
    <3> HIDE DEF x
    <3>1. CASE calls' = Append(calls, x)
      <4>1. x \in Calls \cup {Closed}
        BY <2>2 DEF x
      <4> QED BY <2>3, <3>1, <4>1, <1>c, AppendHas DEF InCalls
    <3>2. CASE calls' = calls
      BY <2>3, <3>2 DEF InCalls
    <3> QED BY <2>1, <3>1, <3>2 DEF x
  <2>4. ASSUME NEW k \in Packages, NEW i \in 1..(at[k] - 1), task[k] # "failed", Underway(k, i) \/ Given(k, i)
        PROVE  Underway(k, i)' \/ Given(k, i)'
    <3> DEFINE e == [pkg |-> k, file |-> i, try |-> tries[k]]
    <3>1. CASE e \in whole /\ e = reading
      <4>1. ~Lost(e)
        <5>1. tries[k] \in Nat /\ e.pkg = k /\ e.try = tries[k]
          BY <1>f, EntryListenerAssumption
        <5> QED BY <2>4, <5>1 DEF Lost
      <4>2. reading \notin cut
        BY <3>1, <4>1, <1>i DEF PipeInv
      <4>3. calls' = Append(calls, Call(k, i, TRUE)) /\ Call(k, i, TRUE) \in Calls \cup {Closed}
        <5>1. reading.pkg = k /\ reading.file = i /\ (reading \in whole) = TRUE
          BY <3>1
        <5> QED BY <2>1, <2>2, <4>2, <5>1
      <4>4. InCalls(Call(k, i, TRUE))'
        <5> DEFINE x == Call(k, i, TRUE)
        <5> HIDE DEF x
        <5>0. Len(calls) \in Nat
          BY <1>c
        <5>1. calls' = Append(calls, x) /\ x \in Calls \cup {Closed} /\ Len(calls) \in Nat
          BY <4>3, <5>0 DEF x
        <5>2. Len(calls') = Len(calls) + 1 /\ calls'[Len(calls) + 1] = x
          BY <5>1, <1>c, AppendHas
        <5>3. Len(calls) + 1 \in 1..Len(calls')
          BY <5>1, <5>2
        <5>4. \E n \in 1..Len(calls') : calls'[n] = x
          BY <5>2, <5>3
        <5> QED BY <5>4 DEF InCalls, x, Call
      <4> QED BY <4>4 DEF Underway, Call
    <3>2. CASE e \in whole /\ e # reading /\ InChannel(e)
      BY <2>1, <3>2 DEF Underway, InChannel
    <3>3. CASE InCalls(Call(k, i, TRUE))
      BY <2>3, <3>3 DEF Underway, Call
    <3>4. CASE Given(k, i)
      BY <2>1, <3>4 DEF Given, NameOf
    <3> QED BY <2>4, <3>1, <3>2, <3>3, <3>4 DEF Underway
  <2> QED BY <2>1, <2>4, <1>y
<1>6. CASE JsTurn
  <2> DEFINE h == Head(calls)
  <2>1. /\ UNCHANGED <<task, at, tries, whole, channel, reading>> /\ calls # <<>> /\ calls' = Tail(calls)
        /\ (h = Closed /\ packages' = packages /\ gyp' = gyp) \/ (h # Closed /\ JsEntry(h))
    BY <1>6, Zenon DEF JsTurn
  <2>2. packages \subseteq packages' /\ gyp \subseteq gyp'
    BY <2>1 DEF JsEntry
  <2>3. ASSUME NEW k \in Packages, NEW i \in 1..(at[k] - 1), Underway(k, i) \/ Given(k, i)
        PROVE  Underway(k, i)' \/ Given(k, i)'
    <3> DEFINE e == [pkg |-> k, file |-> i, try |-> tries[k]]
               c == Call(k, i, TRUE)
    <3>1. CASE e \in whole /\ (e = reading \/ InChannel(e))
      BY <2>1, <3>1 DEF Underway, InChannel
    <3>2. CASE InCalls(c) /\ c # h
      <4> HIDE DEF c, h
      <4>1. c = Head(calls) \/ \E n \in 1..Len(Tail(calls)) : Tail(calls)[n] = c
        BY <2>1, <3>2, <1>c, TailHas DEF InCalls
      <4>2. \E n \in 1..Len(calls') : calls'[n] = c
        BY <2>1, <3>2, <4>1 DEF h
      <4>3. InCalls(c)'
        BY <4>2 DEF InCalls, c, Call
      <4> QED BY <4>3 DEF Underway, c, Call
    <3>3. CASE c = h
      <4>1. c.pkg = k /\ c.file = i /\ c.ok = TRUE /\ c # Closed
        <5>1. c.pkg = k /\ c.file = i /\ c.ok = TRUE
          BY DEF Call
        <5>2. i # 0 /\ Closed.file = 0
          BY DEF Closed, Call
        <5> QED BY <5>1, <5>2
      <4>2. JsEntry(c)
        BY <2>1, <3>3, <4>1
      <4> HIDE DEF c, h
      <4>3. Given(k, i)'
        BY <4>1, <4>2 DEF JsEntry, FileOf, Given, NameOf
      <4> QED BY <4>3
    <3>4. CASE Given(k, i)
      BY <2>2, <3>4 DEF Given, NameOf
    <3> QED BY <2>3, <3>1, <3>2, <3>3, <3>4 DEF Underway
  <2> HIDE DEF h
  <2> QED BY <2>1, <2>3, <1>y
<1>7. CASE ReturnBatch \/ SendNone \/ UNCHANGED vars
  <2>1. UNCHANGED <<task, at, tries, whole, reading, calls, packages, gyp>> /\ (channel' = channel \/ channel = <<>>)
    BY <1>7 DEF ReturnBatch, SendNone, vars
  <2> QED BY <2>1, <1>x, <1>y
<1>8. CASE Resolve
  <2>1. UNCHANGED <<task, at, tries, whole, channel, reading, packages, gyp>> /\ calls' = Append(calls, Closed)
    BY <1>8 DEF Resolve
  <2>2. ASSUME NEW c, InCalls(c) PROVE InCalls(c)'
    BY <2>1, <2>2, <1>c, AppendHas DEF InCalls
  <2>3. ASSUME NEW k \in Packages, NEW i \in 1..(at[k] - 1), Underway(k, i) \/ Given(k, i)
        PROVE  Underway(k, i)' \/ Given(k, i)'
    <3>1. InCalls(Call(k, i, TRUE)) => InCalls(Call(k, i, TRUE))'
      BY <2>2 DEF Call
    <3> QED BY <2>1, <2>3, <3>1 DEF Underway, Given, InChannel, NameOf
  <2> QED BY <2>1, <2>3, <1>y
<1> QED BY <1>1, <1>2, <1>3, <1>4, <1>5, <1>6, <1>7, <1>8 DEF Next, Handler, Caller

-----------------------------------------------------------------------------
(* What shutdown has waited for.                                           *)

LEMMA NextCaller == ListenerInv /\ [Next]_vars => CallerInv'
<1> SUFFICES ASSUME ListenerInv, [Next]_vars PROVE CallerInv'
  OBVIOUS
<1> USE DEF taskVars, jsVars
<1>i. Shape /\ PipeInv /\ CallerInv
  BY DEF ListenerInv
<1>c. calls \in Seq(Calls \cup {Closed})
  BY <1>i DEF Shape
<1>d. \A k \in Packages : Len(Files[k]) \in Nat /\ at[k] \in Nat \ {0}
  BY <1>i, EntryListenerAssumption DEF Shape
\* A sender is at work: the caller has not been told that the batch is over.
<1>1. ASSUME NEW k \in Packages, task[k] \in {"idle", "busy", "copying"},
             \A j \in Packages : j # k => task'[j] = task[j] /\ at'[j] = at[j],
             task'[k] = "done" => at'[k] = Len(Files[k]) + 1,
             channel' = channel \/ \E e \in Entries : channel' = <<e>>,
             UNCHANGED <<reading, calls, main>>
      PROVE  CallerInv'
  <2>1. main \in {"batch", "rejected", "dead"}
    BY <1>1, <1>i DEF CallerInv, Shape
  <2>2. InChannel(None)' => InChannel(None)
    <3>1. ASSUME NEW e \in Entries, channel' = <<e>> PROVE channel' # <<None>>
      BY <3>1, Markers
    <3> QED BY <1>1, <3>1 DEF InChannel, None, Mark
  <2>3. \A j \in Packages : task'[j] = "done" => at'[j] = Len(Files[j]) + 1
    BY <1>1, <1>i DEF CallerInv
  <2>4. InCalls(Closed)' <=> InCalls(Closed)
    BY <1>1 DEF InCalls, Closed, Call
  <2> QED BY <1>1, <2>1, <2>2, <2>3, <2>4, <1>i DEF CallerInv
<1>2. ASSUME NEW k \in Packages, Begin(k) \/ Done(k) PROVE CallerInv'
  <2>1. UNCHANGED <<at, channel, reading, calls, main>> /\ task[k] \in {"idle", "busy"}
        /\ \A j \in Packages : j # k => task'[j] = task[j]
    BY <1>2, <1>i DEF Begin, Done, Shape
  <2>2. task'[k] = "done" => at[k] = Len(Files[k]) + 1
    <3>1. task'[k] = "done" => ~(at[k] <= Len(Files[k]))
      BY <1>2, <1>i DEF Begin, Done, Shape, Left
    <3>2. at[k] <= Len(Files[k]) + 1
      BY <1>i DEF Shape
    <3> QED BY <3>1, <3>2, <1>d
  <2> QED BY <2>1, <2>2, <1>1
<1>3. ASSUME NEW k \in Packages, Send(k) \/ Copy(k) \/ Fail(k) PROVE CallerInv'
  <2>1. UNCHANGED <<reading, calls, main>> /\ task[k] \in {"busy", "copying"}
    BY <1>3 DEF Send, Copy, Fail
  <2>2. /\ task'[k] # "done"
        /\ \A j \in Packages : j # k => task'[j] = task[j] /\ at'[j] = at[j]
    BY <1>3, <1>i DEF Send, Copy, Fail, Shape
  <2>3. channel' = channel \/ \E e \in Entries : channel' = <<e>>
    BY <1>3, <1>i, EntryType DEF Send, Copy, Fail
  <2> QED BY <2>1, <2>2, <2>3, <1>1
<1>4. CASE Take
  <2>1. /\ UNCHANGED <<task, at, calls, main>> /\ reading = Nobody /\ channel # <<>> /\ channel' = Tail(channel)
        /\ reading' = (IF Head(channel) = None THEN Over ELSE Head(channel))
    BY <1>4 DEF Take
  <2>2. PICK x \in Entries \cup {None} : channel = <<x>>
    BY <2>1, <1>i DEF Shape
  <2>3. channel' = <<>> /\ reading' = (IF x = None THEN Over ELSE x) /\ (InChannel(None) <=> x = None)
    BY <2>1, <2>2 DEF InChannel
  <2>4. ~InChannel(None)' /\ (reading' = Over <=> InChannel(None))
    BY <2>2, <2>3, Markers DEF InChannel
  <2>5. InCalls(Closed)' <=> InCalls(Closed)
    BY <2>1 DEF InCalls, Closed, Call
  <2>6. main \notin {"resolved", "resumed"} /\ (main = "closed" => x = None)
    BY <2>1, <2>2, <2>3, <1>i DEF CallerInv
  <2>7. main \in {"batch", "closing"} => ~InChannel(None)
    BY <1>i DEF CallerInv
  <2>8. main = "closed" => channel' = <<>> /\ reading' = Over
    BY <2>3, <2>6
  <2> QED BY <2>1, <2>4, <2>5, <2>6, <2>7, <2>8, <1>i DEF CallerInv
<1>5. CASE Deliver
  <2> DEFINE x == Call(reading.pkg, reading.file, reading \in whole)
  <2>1. /\ UNCHANGED <<task, at, channel, main>> /\ reading \in Entries /\ reading' = Nobody
        /\ calls' = Append(calls, x) \/ calls' = calls
    BY <1>5, <1>i DEF Deliver, Shape
  <2>2. x \in Calls /\ x # Closed
    <3>1. x \in Calls
      BY <2>1 DEF Call, Calls, Entries
    <3>2. \A c \in Calls : c # Closed
      BY Markers
    <3> QED BY <3>1, <3>2
  <2>3. reading # Over /\ reading' # Over
    BY <2>1, Markers
  <2> HIDE DEF x
  <2>4. main \notin {"resolved", "resumed"} /\ main # "dead"
    BY <2>3, <1>5, <1>i, Markers DEF CallerInv, Next, Alive, vars, Deliver
  <2>5. ~InCalls(Closed)
    BY <2>4, <1>i DEF CallerInv, Shape
  <2>6. ~InCalls(Closed)'
    <3>1. CASE calls' = calls
      BY <2>5, <3>1 DEF InCalls, Closed, Call
    <3>2. CASE calls' = Append(calls, x)
      <4>1. ASSUME NEW i \in 1..Len(calls') PROVE calls'[i] # Closed
        <5>1. Len(calls) \in Nat
          BY <1>c
        <5>2. i \in 1..Len(calls) \/ i = Len(calls) + 1
          BY <3>2, <1>c, <2>2, <5>1, AppendHas
        <5> QED BY <3>2, <1>c, <2>2, <2>5, <5>2, AppendHas DEF InCalls
      <4> QED BY <4>1 DEF InCalls, Closed, Call
    <3> QED BY <2>1, <3>1, <3>2
  <2>7. \A i \in 1..Len(calls') : calls'[i] # Closed
    BY <2>6 DEF InCalls, Closed, Call
  <2>8. InChannel(None)' <=> InChannel(None)
    BY <2>1 DEF InChannel, None, Mark
  <2> QED BY <2>1, <2>3, <2>4, <2>6, <2>7, <2>8, <1>i DEF CallerInv
<1>6. CASE JsTurn
  <2> DEFINE h == Head(calls)
  <2>1. /\ UNCHANGED <<task, at, channel, reading>> /\ calls # <<>> /\ calls' = Tail(calls)
        /\ (h = Closed /\ main' = "resumed") \/ (h # Closed /\ JsEntry(h))
    BY <1>6, Zenon DEF JsTurn
  <2>2. /\ Len(calls') = Len(calls) - 1 /\ Len(calls) \in Nat \ {0} /\ h = calls[1]
        /\ \A i \in 1..Len(calls') : calls'[i] = calls[i + 1]
    BY <2>1, <1>c, TailHas
  <2> HIDE DEF h
  <2>3. \A i \in 1..Len(calls') : i + 1 \in 1..Len(calls)
    BY <2>2
  <2>4. \A i \in 1..Len(calls') : calls'[i] = Closed => i = Len(calls')
    BY <2>2, <2>3, <1>i DEF CallerInv
  <2>5. ~InCalls(Closed) => ~InCalls(Closed)'
    BY <2>2, <2>3 DEF InCalls, Closed, Call
  <2>6. InChannel(None)' <=> InChannel(None)
    BY <2>1 DEF InChannel, None, Mark
  <2>7. main # "resumed" /\ main # "dead"
    BY <2>1, <1>6, <1>i DEF CallerInv, Next, Alive, JsTurn, vars
  <2>8. CASE h = Closed /\ main' = "resumed"
    <3>0. 1 \in 1..Len(calls) /\ calls[1] = Closed
      BY <2>2, <2>8
    <3>1. InCalls(Closed) /\ main = "resolved"
      <4>1. InCalls(Closed)
        BY <3>0 DEF InCalls
      <4> QED BY <4>1, <2>7, <1>i DEF CallerInv, Shape
    <3>2. Len(calls) = 1
      BY <3>0, <1>i DEF CallerInv
    <3>3. calls' = <<>>
      BY <2>1, <2>2, <3>2, <1>c
    <3> QED BY <2>1, <2>4, <2>8, <3>1, <3>3, <1>i DEF CallerInv
  <2>9. CASE h # Closed /\ JsEntry(h)
    <3>1. main' = main \/ main' = "dead"
      BY <2>9 DEF JsEntry
    <3> QED BY <2>1, <2>4, <2>5, <2>6, <2>7, <3>1, <1>i DEF CallerInv
  <2> QED BY <2>1, <2>8, <2>9
<1>7. CASE ReturnBatch
  <2>1. /\ UNCHANGED <<task, at, channel, reading, calls>> /\ main = "batch" /\ main' \in {"closing", "rejected"}
        /\ \A k \in Packages : task[k] \in {"done", "failed"}
    BY <1>7 DEF ReturnBatch
  <2>2. (InChannel(None)' <=> InChannel(None)) /\ (InCalls(Closed)' <=> InCalls(Closed))
    BY <2>1 DEF InChannel, None, Mark, InCalls, Closed, Call
  <2> QED BY <2>1, <2>2, <1>i DEF CallerInv
<1>8. CASE SendNone
  <2>1. /\ UNCHANGED <<task, at, reading, calls>> /\ main = "closing" /\ main' = "closed" /\ channel' = <<None>>
    BY <1>8 DEF SendNone
  <2>2. InChannel(None)' /\ (InCalls(Closed)' <=> InCalls(Closed))
    BY <2>1 DEF InChannel, None, Mark, InCalls, Closed, Call
  <2> QED BY <2>1, <2>2, <1>i DEF CallerInv
<1>9. CASE Resolve
  <2>1. /\ UNCHANGED <<task, at, channel, reading>> /\ main = "closed" /\ main' = "resolved" /\ reading = Over
        /\ calls' = Append(calls, Closed)
    BY <1>9 DEF Resolve
  <2>2. channel = <<>> /\ ~InCalls(Closed) /\ Len(calls) \in Nat
    BY <2>1, <1>i, <1>c DEF CallerInv
  <2>3. ASSUME NEW i \in 1..Len(calls'), calls'[i] = Closed PROVE i = Len(calls')
    <3>1. i \in 1..Len(calls) \/ i = Len(calls) + 1
      BY <2>1, <2>2, <1>c, AppendHas
    <3>2. i \in 1..Len(calls) => calls[i] = Closed
      BY <2>1, <2>3, <1>c, AppendHas
    <3> QED BY <2>1, <2>2, <3>1, <3>2, <1>c, AppendHas DEF InCalls
  <2> QED BY <2>1, <2>2, <2>3, <1>i DEF CallerInv
<1>10. CASE UNCHANGED vars
  <2>1. UNCHANGED <<task, at, channel, reading, calls, main>>
    BY <1>10 DEF vars
  <2>2. (InChannel(None)' <=> InChannel(None)) /\ (InCalls(Closed)' <=> InCalls(Closed))
    BY <2>1 DEF InChannel, None, Mark, InCalls, Closed, Call
  <2> QED BY <2>1, <2>2, <1>i DEF CallerInv
<1> QED BY <1>2, <1>3, <1>4, <1>5, <1>6, <1>7, <1>8, <1>9, <1>10 DEF Next, Handler, Caller

LEMMA NextBroken == ListenerInv /\ [Next]_vars => BrokenInv'
<1> SUFFICES ASSUME ListenerInv, [Next]_vars PROVE BrokenInv'
  OBVIOUS
<1> USE DEF taskVars, jsVars
<1>i. Shape /\ PipeInv /\ BrokenInv
  BY DEF ListenerInv
<1>c. calls \in Seq(Calls \cup {Closed})
  BY <1>i DEF Shape
<1> DEFINE Failure == \E k \in Packages : tries[k] > 0 \/ task[k] = "failed"
\* A failure remains one.
<1>m. Failure => Failure'
  <2>t. \A k \in Packages : tries[k] \in Nat
    BY <1>i, EntryListenerAssumption DEF Shape
  <2>1. ASSUME NEW k \in Packages, Begin(k) \/ Send(k) \/ Copy(k) \/ Done(k)
        PROVE  tries' = tries /\ \A j \in Packages : task[j] = "failed" => task'[j] = "failed"
    BY <2>1, <1>i DEF Begin, Send, Copy, Done, Shape
  <2>2. ASSUME NEW k \in Packages, Fail(k)
        PROVE  \A j \in Packages : (tries[j] > 0 => tries'[j] > 0) /\ (task[j] = "failed" => task'[j] = "failed")
    BY <2>2, <2>t, <1>i DEF Fail, Shape
  <2>3. CASE Handler \/ JsTurn \/ Caller \/ UNCHANGED vars
    BY <2>3 DEF Handler, Take, Deliver, JsTurn, Caller, ReturnBatch, SendNone, Resolve, vars
  <2> QED BY <2>1, <2>2, <2>3 DEF Next
\* Nothing new for JS.
<1>w. ASSUME calls' = calls, main' = main \/ main' # "dead" PROVE BrokenInv'
  BY <1>w, <1>m, <1>i DEF BrokenInv
<1>1. ASSUME NEW k \in Packages, Begin(k) \/ Send(k) \/ Copy(k) \/ Done(k) \/ Fail(k) PROVE BrokenInv'
  BY <1>1, <1>w DEF Begin, Send, Copy, Done, Fail
<1>2. CASE Take \/ ReturnBatch \/ SendNone \/ UNCHANGED vars
  BY <1>2, <1>w DEF Take, ReturnBatch, SendNone, vars
<1>3. CASE Deliver
  <2> DEFINE x == Call(reading.pkg, reading.file, reading \in whole)
  <2>1. /\ main' = main /\ reading \in Entries /\ reading \in whole \cup cut
        /\ calls' = Append(calls, x) \/ calls' = calls
    BY <1>3, <1>i DEF Deliver, Shape
  <2>2. x \in Calls /\ (x.ok <=> reading \in whole)
    <3>1. x \in Calls
      BY <2>1 DEF Call, Calls, Entries
    <3>2. x.ok = (reading \in whole)
      BY DEF Call
    <3> QED BY <3>1, <3>2
  <2>3. ~x.ok => Failure
    <3>1. reading.pkg \in Packages /\ reading.try \in Nat /\ tries[reading.pkg] \in Nat
      BY <2>1, <1>i, EntryListenerAssumption DEF Entries, Shape
    <3>2. ~x.ok => Lost(reading)
      BY <2>1, <2>2, <1>i DEF PipeInv
    <3> QED BY <3>1, <3>2 DEF Lost
  <2> HIDE DEF x
  <2>4. CASE calls' = Append(calls, x)
    <3>1. ASSUME NEW i \in 1..Len(calls'), ~calls'[i].ok PROVE Failure
      <4>1. Len(calls) \in Nat
        BY <1>c
      <4>2. i \in 1..Len(calls) \/ i = Len(calls) + 1
        BY <2>2, <2>4, <4>1, <1>c, AppendHas
      <4>3. CASE i \in 1..Len(calls)
        <5>1. ~calls[i].ok
          BY <2>2, <2>4, <3>1, <4>3, <1>c, AppendHas
        <5> QED BY <4>3, <5>1, <1>i DEF BrokenInv
      <4>4. CASE i = Len(calls) + 1
        BY <2>2, <2>3, <2>4, <3>1, <4>4, <1>c, AppendHas
      <4> QED BY <4>2, <4>3, <4>4
    <3>2. main' = "dead" => Failure
      BY <2>1, <1>i DEF BrokenInv
    <3> HIDE DEF Failure
    <3>3. (main' = "dead" \/ \E i \in 1..Len(calls') : ~calls'[i].ok) => Failure'
      BY <3>1, <3>2, <1>m
    <3> QED BY <3>3 DEF BrokenInv, Failure
  <2> QED BY <2>1, <2>4, <1>w
<1>4. CASE JsTurn
  <2> DEFINE h == Head(calls)
  <2>1. /\ calls # <<>> /\ calls' = Tail(calls)
        /\ (h = Closed /\ main' = "resumed") \/ (h # Closed /\ JsEntry(h))
    BY <1>4, Zenon DEF JsTurn
  <2>2. /\ Len(calls') = Len(calls) - 1 /\ Len(calls) \in Nat \ {0} /\ h = calls[1]
        /\ \A i \in 1..Len(calls') : calls'[i] = calls[i + 1]
    BY <2>1, <1>c, TailHas
  <2> HIDE DEF h
  <2>3. \A i \in 1..Len(calls') : i + 1 \in 1..Len(calls)
    BY <2>2
  <2>4. main' = "dead" => main = "dead" \/ ~calls[1].ok
    BY <2>1, <2>2 DEF JsEntry
  <2>5. (main' = "dead" \/ \E i \in 1..Len(calls') : ~calls'[i].ok) => Failure
    <3>1. 1 \in 1..Len(calls)
      BY <2>2
    <3> QED BY <2>2, <2>3, <2>4, <3>1, <1>i DEF BrokenInv
  <2> HIDE DEF Failure
  <2>6. (main' = "dead" \/ \E i \in 1..Len(calls') : ~calls'[i].ok) => Failure'
    BY <2>5, <1>m
  <2> QED BY <2>6 DEF BrokenInv, Failure
<1>5. CASE Resolve
  <2>1. main' = "resolved" /\ calls' = Append(calls, Closed) /\ Closed.ok = TRUE /\ Len(calls) \in Nat
    BY <1>5, <1>c DEF Resolve, Closed, Call
  <2>2. ASSUME NEW i \in 1..Len(calls'), ~calls'[i].ok PROVE Failure
    <3>1. i \in 1..Len(calls) \/ i = Len(calls) + 1
      BY <2>1, <1>c, AppendHas
    <3>2. i \in 1..Len(calls) /\ ~calls[i].ok
      BY <2>1, <2>2, <3>1, <1>c, AppendHas
    <3> QED BY <3>2, <1>i DEF BrokenInv
  <2> HIDE DEF Failure
  <2>3. (main' = "dead" \/ \E i \in 1..Len(calls') : ~calls'[i].ok) => Failure'
    BY <2>1, <2>2, <1>m
  <2> QED BY <2>3 DEF BrokenInv, Failure
<1> QED BY <1>1, <1>2, <1>3, <1>4, <1>5 DEF Next, Handler, Caller

-----------------------------------------------------------------------------
LEMMA ListenerAlways == Spec => []ListenerInv
<1>1. ListenerInv /\ [Next]_vars => ListenerInv'
  BY NextShape, NextPipe, NextSent, NextCaller, NextBroken DEF ListenerInv
<1> QED BY InitListener, <1>1, PTL DEF Spec

(* When the install goes on after shutdown, and no package has failed, the *)
(* blob manager has every package.json and every binding.gyp (entry        *)
(* listener, download.rs shutdown, binding lib.rs handle_new_entry).       *)
THEOREM EverythingAnnounced == Spec => []AllAnnounced
<1>1. ASSUME ListenerInv PROVE AllAnnounced
  <2>0. Shape /\ SentInv /\ CallerInv /\ TypeOK
    BY <1>1, ShapeIsType DEF ListenerInv
  <2>1. ASSUME main = "resumed", NoneFailed, NEW k \in Packages, NEW i \in 1..Len(Files[k])
        PROVE  Given(k, i)
    <3>1. /\ channel = <<>> /\ reading = Over /\ calls = <<>>
          /\ task[k] # "failed" /\ at[k] = Len(Files[k]) + 1
      BY <2>0, <2>1 DEF CallerInv, NoneFailed
    <3>2. i \in 1..(at[k] - 1)
      BY <3>1, EntryListenerAssumption
    <3>3. Underway(k, i) \/ Given(k, i)
      BY <2>0, <3>1, <3>2 DEF SentInv
    <3>4. ASSUME NEW e \in whole PROVE e # reading /\ ~InChannel(e)
      BY <2>0, <3>1, <3>4, Markers DEF Shape, InChannel
    <3>5. ~InCalls(Call(k, i, TRUE))
      BY <3>1 DEF InCalls
    <3> QED BY <3>3, <3>4, <3>5 DEF Underway
  <2>2. ASSUME main = "resumed", NoneFailed, NEW k \in Packages
        PROVE  /\ "json" \in ToSet(Files[k]) => k \in packages
               /\ "gyp" \in ToSet(Files[k]) /\ k \notin Reused => <<k, "name@version">> \in gyp
    <3>1. \A x : x \in ToSet(Files[k]) => \E i \in 1..Len(Files[k]) : Files[k][i] = x
      BY EntryListenerAssumption DEF ToSet
    <3>2. "json" \in ToSet(Files[k]) => k \in packages
      BY <2>1, <2>2, <3>1 DEF Given
    <3>3. "gyp" \in ToSet(Files[k]) /\ k \notin Reused => <<k, "name@version">> \in gyp
      BY <2>1, <2>2, <3>1 DEF Given, NameOf
    <3> QED BY <3>2, <3>3
  <2> QED BY <2>0, <2>2 DEF AllAnnounced
<1> QED BY ListenerAlways, <1>1, PTL

(* JSON.parse never meets a truncated package.json unless a package has    *)
(* failed (bucket.rs add_package, binding lib.rs handle_new_entry).        *)
THEOREM OnlyFailuresTruncate == Spec => []WholeUnlessFailed
<1>1. ListenerInv => WholeUnlessFailed
  BY DEF ListenerInv, BrokenInv, WholeUnlessFailed
<1> QED BY ListenerAlways, <1>1, PTL

(* The blob manager does not change once the install has gone on.          *)
THEOREM NothingComesLate == Spec => NoLateEntry
<1>1. ASSUME ListenerInv, [Next]_vars, main = "resumed" PROVE UNCHANGED jsVars
  <2>1. calls = <<>>
    BY <1>1 DEF ListenerInv, CallerInv
  <2>2. ~JsTurn
    BY <2>1 DEF JsTurn
  <2>3. ASSUME NEW k \in Packages, Begin(k) \/ Send(k) \/ Copy(k) \/ Done(k) \/ Fail(k) PROVE UNCHANGED jsVars
    BY <2>3 DEF Begin, Send, Copy, Done, Fail
  <2>4. CASE Handler \/ Caller \/ UNCHANGED vars
    BY <2>4 DEF Handler, Take, Deliver, Caller, ReturnBatch, SendNone, Resolve, vars, jsVars
  <2> QED BY <1>1, <2>2, <2>3, <2>4 DEF Next
<1>2. ListenerInv /\ [Next]_vars => [main = "resumed" => UNCHANGED jsVars]_vars
  BY <1>1
<1> QED BY ListenerAlways, <1>2, PTL DEF Spec, NoLateEntry
=============================================================================
