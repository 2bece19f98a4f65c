----------------------------- MODULE PoolProofs -----------------------------
(***************************************************************************)
(* Safety of the executor pool for every number of executors, callers and  *)
(* commands, and that Pool implements Lending.                             *)
(***************************************************************************)
EXTENDS Pool, FiniteSetTheorems, TLAPS

(* A caller between TakeCommand and GetExecutor works on a command of its  *)
(* own batch whose task has not been spawned, and a command has an         *)
(* executor exactly from GetExecutor to BackExecutor.                      *)
RequestOpen ==
    /\ \A d \in Callers : phase[d] \in {"get", "enqueue", "parked"} =>
         /\ cur[d] \in Commands
         /\ Owner[cur[d]] = d
         /\ job[cur[d]] = "none"
    /\ \A c \in Commands : held[c] # NoExecutor <=> job[c] \in {"execute", "back"}

Typing == TypeOK /\ RequestOpen

LEMMA InitTyping == Init => Typing
<1> SUFFICES ASSUME Init PROVE Typing
  OBVIOUS
<1>1. Cardinality(Executors) \in Nat
  BY PoolAssumption, FS_CardinalityType
<1>2. executors \in Seq(Executors)
  BY <1>1 DEF Init
<1>3. TypeOK
  BY <1>2, PoolAssumption DEF Init, TypeOK
<1>4. RequestOpen
  <2>1. \A d \in Callers : phase[d] \notin {"get", "enqueue", "parked"}
    BY DEF Init
  <2>2. \A c \in Commands : held[c] = NoExecutor /\ job[c] \notin {"execute", "back"}
    BY DEF Init
  <2> QED BY <2>1, <2>2 DEF RequestOpen
<1> QED BY <1>3, <1>4 DEF Typing

LEMMA NextTyping == Typing /\ [Next]_vars => Typing'
<1> SUFFICES ASSUME Typing, [Next]_vars PROVE Typing'
  OBVIOUS
<1> USE PoolAssumption DEF Typing, TypeOK, RequestOpen
<1> USE DEF poolVars, callerVars, jobVars, chanVars
<1>1. ASSUME NEW d \in Callers, CallerStep(d) PROVE Typing'
  <2>1. CASE TakeCommand(d)
    BY <2>1 DEF TakeCommand, Pending, Batch
  <2>2. CASE GetExecutor(d)
    <3>1. Head(executors) \in Executors /\ Tail(executors) \in Seq(Executors)
      BY <2>2 DEF GetExecutor
    <3> QED BY <2>2, <3>1 DEF GetExecutor
  <2>3. CASE GetNothing(d)
    BY <2>3 DEF GetNothing
  <2>4. CASE WaitFree(d)
    BY <2>4 DEF WaitFree
  <2>5. CASE Resume(d)
    BY <2>5 DEF Resume
  <2>6. CASE EndLoop(d)
    BY <2>6 DEF EndLoop
  <2>7. CASE ReturnBatch(d)
    BY <2>7 DEF ReturnBatch, Failed, Batch
  <2> QED BY <1>1, <2>1, <2>2, <2>3, <2>4, <2>5, <2>6, <2>7 DEF CallerStep
<1>2. ASSUME NEW c \in Commands, JobStep(c) PROVE Typing'
  <2>1. CASE Execute(c)
    BY <2>1 DEF Execute
  <2>2. CASE BackExecutor(c)
    BY <2>2 DEF BackExecutor
  <2>3. CASE NotifyFree(c)
    <3>1. CASE waiters # <<>>
      <4>1. Head(waiters) \in Callers /\ Tail(waiters) \in Seq(Callers)
        BY <3>1
      <4>2. waiters' = Tail(waiters) /\ signalled' = signalled \cup {Head(waiters)}
        BY <2>3, <3>1, Zenon DEF NotifyFree
      <4>3. waiters' \in Seq(Callers)
        BY <4>1, <4>2
      <4>4. waiters' \in Seq(Callers) /\ signalled' \subseteq Callers
        BY <4>1, <4>2, <4>3
      <4> QED BY <2>3, <4>4 DEF NotifyFree
    <3>2. CASE waiters = <<>>
      BY <2>3, <3>2 DEF NotifyFree
    <3> QED BY <3>1, <3>2
  <2>4. CASE Send(c)
    BY <2>4 DEF Send
  <2>5. CASE SendFails(c)
    BY <2>5 DEF SendFails
  <2> QED BY <1>2, <2>1, <2>2, <2>3, <2>4, <2>5 DEF JobStep
<1>3. CASE Environment
  BY <1>3 DEF Environment, Offer, CloseInput, Receive, DropReceiver
<1>4. CASE UNCHANGED vars
  BY <1>4 DEF vars
<1> QED BY <1>1, <1>2, <1>3, <1>4 DEF Next

(* Every variable keeps its type; in particular the deques hold only the   *)
(* executors the pool was created with and tasks that asked for one, and a *)
(* request being created belongs to its caller's batch (pool.rs 178-229).  *)
THEOREM TypeCorrect == Spec => []Typing
<1>1. Init => Typing
  BY InitTyping
<1>2. Typing /\ [Next]_vars => Typing'
  BY NextTyping
<1> QED BY <1>1, <1>2, PTL DEF Spec

-----------------------------------------------------------------------------
LEMMA InitExclusive == Init => ExecutorsExact
<1> SUFFICES ASSUME Init PROVE ExecutorsExact
  OBVIOUS
<1>1. Leases = {}
  BY DEF Init, Leases
<1>2. ExecutorExclusive
  BY <1>1 DEF Init, ExecutorExclusive
<1>3. ExecutorConserved
  BY <1>1 DEF Init, ExecutorConserved
<1> QED BY <1>2, <1>3 DEF ExecutorsExact

LEMMA NextExclusive == Typing /\ ExecutorsExact /\ [Next]_vars => ExecutorsExact'
<1> SUFFICES ASSUME Typing, ExecutorsExact, [Next]_vars PROVE ExecutorsExact'
  OBVIOUS
<1> USE PoolAssumption DEF Typing, TypeOK
<1>1. ASSUME NEW d \in Callers, GetExecutor(d) PROVE ExecutorsExact'
  <2> DEFINE c == cur[d]
  <2> DEFINE e == Head(executors)
  <2>1. c \in Commands /\ held[c] = NoExecutor /\ e \in Executors /\ e = executors[1]
    BY <1>1 DEF GetExecutor, RequestOpen
  <2>2. /\ executors' = Tail(executors)
        /\ Len(executors) \in Nat \ {0}
        /\ DOMAIN executors = 1..Len(executors)
        /\ DOMAIN executors' = 1..(Len(executors) - 1)
        /\ \A i \in DOMAIN executors' : i + 1 \in DOMAIN executors
                                        /\ executors'[i] = executors[i + 1]
    BY <1>1 DEF GetExecutor
  <2>3. held' = [held EXCEPT ![c] = e] /\ job' = [job EXCEPT ![c] = "execute"]
    BY <1>1 DEF GetExecutor
  <2>4. ExecutorExclusive'
    <3>1. \A i, j \in DOMAIN executors' : executors'[i] = executors'[j] => i = j
      BY <2>2 DEF ExecutorsExact, ExecutorExclusive
    <3>2. \A i \in DOMAIN executors' : executors'[i] # e
      BY <2>1, <2>2 DEF ExecutorsExact, ExecutorExclusive
    <3>3. Leases' = Leases \cup {c}
      <4>1. e # NoExecutor
        BY <2>1
      <4>2. \A b \in Commands : held'[b] = IF b = c THEN e ELSE held[b]
        BY <2>1, <2>3
      <4> QED BY <2>1, <4>1, <4>2 DEF Leases
    <3>4. \A b \in Leases : held'[b] = held[b] /\ held[b] # e
      BY <2>1, <2>2, <2>3 DEF Leases, ExecutorsExact, ExecutorExclusive
    <3>5. held'[c] = e
      BY <2>1, <2>3
    <3>6. \A b \in Leases' : \A i \in DOMAIN executors' : executors'[i] # held'[b]
      BY <2>2, <3>2, <3>3, <3>4, <3>5, SMTT(30) DEF ExecutorsExact, ExecutorExclusive
    <3>7. \A a, b \in Leases' : held'[a] = held'[b] => a = b
      BY <3>3, <3>4, <3>5 DEF ExecutorsExact, ExecutorExclusive
    <3> QED BY <3>1, <3>6, <3>7 DEF ExecutorExclusive
  <2>5. ExecutorConserved'
    <3>1. ASSUME NEW x \in Executors
          PROVE  (\E i \in DOMAIN executors' : executors'[i] = x)
                   \/ (\E b \in Commands : held'[b] = x)
      <4>1. CASE \E b \in Commands : held[b] = x
        BY <4>1, <2>1, <2>3
      <4>2. CASE x = e
        BY <4>2, <2>1, <2>3
      <4>3. CASE x # e /\ \E i \in DOMAIN executors : executors[i] = x
        <5>1. PICK i \in DOMAIN executors : executors[i] = x
          BY <4>3
        <5>2. i \in Nat /\ i # 1 /\ i - 1 \in DOMAIN executors' /\ (i - 1) + 1 = i
          BY <4>3, <5>1, <2>1, <2>2
        <5> QED BY <5>1, <5>2, <2>2
      <4> QED BY <4>1, <4>2, <4>3 DEF ExecutorsExact, ExecutorConserved
    <3>2. \A b \in Commands : b \in Leases' <=> job'[b] \in {"execute", "back"}
      BY <2>1, <2>3 DEF Leases, ExecutorsExact, ExecutorConserved
    <3> QED BY <3>1, <3>2 DEF ExecutorConserved
  <2> QED BY <2>4, <2>5 DEF ExecutorsExact
<1>2. ASSUME NEW c \in Commands, BackExecutor(c) PROVE ExecutorsExact'
  <2> DEFINE e == held[c]
  <2> DEFINE n == Len(executors) + 1
  <2>1. c \in Leases /\ e \in Executors
    BY <1>2 DEF BackExecutor, RequestOpen, Leases
  <2>2. /\ executors' = Append(executors, e)
        /\ Len(executors) \in Nat
        /\ DOMAIN executors = 1..Len(executors)
        /\ DOMAIN executors' = 1..n
        /\ executors'[n] = e
        /\ \A i \in DOMAIN executors : executors'[i] = executors[i]
    BY <1>2, <2>1 DEF BackExecutor
  <2>3. held' = [held EXCEPT ![c] = NoExecutor] /\ job' = [job EXCEPT ![c] = "notify"]
    BY <1>2 DEF BackExecutor
  <2>4. Leases' = Leases \ {c} /\ \A b \in Leases' : held'[b] = held[b] /\ held[b] # e
    BY <2>1, <2>3 DEF Leases, ExecutorsExact, ExecutorExclusive
  <2>5. ExecutorExclusive'
    <3>1. \A i \in DOMAIN executors : executors[i] # e
      BY <2>1 DEF ExecutorsExact, ExecutorExclusive
    <3>2. \A i, j \in DOMAIN executors' : executors'[i] = executors'[j] => i = j
      BY <2>2, <3>1 DEF ExecutorsExact, ExecutorExclusive
    <3>3. ASSUME NEW b \in Leases', NEW i \in DOMAIN executors'
          PROVE  executors'[i] # held'[b]
      <4>1. b \in Leases /\ held'[b] = held[b] /\ held[b] # e
        BY <2>4
      <4>2. CASE i = n
        BY <4>1, <4>2, <2>2
      <4>3. CASE i \in DOMAIN executors
        BY <4>1, <4>3, <2>2 DEF ExecutorsExact, ExecutorExclusive
      <4> QED BY <4>2, <4>3, <2>2
    <3>4. \A a, b \in Leases' : held'[a] = held'[b] => a = b
      BY <2>4 DEF ExecutorsExact, ExecutorExclusive
    <3> QED BY <3>2, <3>3, <3>4 DEF ExecutorExclusive
  <2>6. ExecutorConserved'
    <3>1. ASSUME NEW x \in Executors
          PROVE  (\E i \in DOMAIN executors' : executors'[i] = x)
                   \/ (\E b \in Commands : held'[b] = x)
      <4>1. CASE x = e
        BY <4>1, <2>2
      <4>2. CASE x # e /\ \E b \in Commands : held[b] = x
        BY <4>2, <2>3
      <4>3. CASE \E i \in DOMAIN executors : executors[i] = x
        BY <4>3, <2>2
      <4> QED BY <4>1, <4>2, <4>3 DEF ExecutorsExact, ExecutorConserved
    <3>2. \A b \in Commands : b \in Leases' <=> job'[b] \in {"execute", "back"}
      BY <2>3, <2>4 DEF Leases, ExecutorsExact, ExecutorConserved
    <3> QED BY <3>1, <3>2 DEF ExecutorConserved
  <2> QED BY <2>5, <2>6 DEF ExecutorsExact
<1>3. ASSUME UNCHANGED <<executors, held>>,
             \A c \in Commands : job'[c] \in {"execute", "back"}
                                   <=> job[c] \in {"execute", "back"}
      PROVE  ExecutorsExact'
  BY <1>3 DEF ExecutorsExact, ExecutorExclusive, ExecutorConserved, Leases
<1> USE DEF poolVars, callerVars, jobVars, chanVars
<1>4. ASSUME NEW d \in Callers, CallerStep(d), ~GetExecutor(d) PROVE ExecutorsExact'
  BY <1>3, <1>4 DEF CallerStep, TakeCommand, GetNothing, WaitFree, Resume, EndLoop, ReturnBatch
<1>5. ASSUME NEW c \in Commands, JobStep(c), ~BackExecutor(c) PROVE ExecutorsExact'
  <2>1. CASE Execute(c)
    BY <1>3, <2>1 DEF Execute
  <2>2. CASE NotifyFree(c)
    BY <1>3, <2>2 DEF NotifyFree
  <2>3. CASE Send(c) \/ SendFails(c)
    BY <1>3, <2>3 DEF Send, SendFails
  <2> QED BY <1>5, <2>1, <2>2, <2>3 DEF JobStep
<1>6. CASE Environment
  BY <1>3, <1>6 DEF Environment, Offer, CloseInput, Receive, DropReceiver
<1>7. CASE UNCHANGED vars
  BY <1>3, <1>7 DEF vars
<1> QED BY <1>1, <1>2, <1>4, <1>5, <1>6, <1>7 DEF Next

(* No executor is lent twice, lent while idle, or lost: whatever the       *)
(* interleaving of create_request, back_executor and notify_free, one      *)
(* bucket file or HTTP client serves one command at a time (pool.rs 59-70, *)
(* 178-210).                                                               *)
THEOREM ExecutorsAreExclusive == Spec => []ExecutorsExact
<1>1. Init => Typing /\ ExecutorsExact
  BY InitTyping, InitExclusive
<1>2. Typing /\ ExecutorsExact /\ [Next]_vars => (Typing /\ ExecutorsExact)'
  BY NextTyping, NextExclusive
<1> QED BY <1>1, <1>2, PTL DEF Spec

-----------------------------------------------------------------------------
(* A oneshot that has fired belongs to a caller that still waits for it.   *)
SignalledParked == \A d \in signalled : phase[d] = "parked"

QueueInv == WaiterQueueExact /\ SignalledParked

LEMMA InitQueue == Init => QueueInv
BY DEF Init, QueueInv, WaiterQueueExact, SignalledParked

LEMMA NextQueue == Typing /\ QueueInv /\ [Next]_vars => QueueInv'
<1> SUFFICES ASSUME Typing, QueueInv, [Next]_vars PROVE QueueInv'
  OBVIOUS
<1> USE DEF Typing, TypeOK, QueueInv, WaiterQueueExact, SignalledParked
<1>1. ASSUME NEW d \in Callers, WaitFree(d) PROVE QueueInv'
  <2> DEFINE n == Len(waiters) + 1
  <2>1. /\ Len(waiters) \in Nat
        /\ DOMAIN waiters = 1..Len(waiters)
        /\ DOMAIN waiters' = 1..n
        /\ waiters'[n] = d
        /\ \A i \in DOMAIN waiters : waiters'[i] = waiters[i]
    BY <1>1 DEF WaitFree
  <2>2. phase[d] = "enqueue" /\ phase' = [phase EXCEPT ![d] = "parked"] /\ signalled' = signalled
    BY <1>1 DEF WaitFree
  <2>3. d \notin signalled /\ \A i \in DOMAIN waiters : waiters[i] # d
    BY <2>2
  <2>4. \A i, j \in DOMAIN waiters' : waiters'[i] = waiters'[j] => i = j
    BY <2>1, <2>3
  <2>5. ASSUME NEW x \in Callers
        PROVE  (\E i \in DOMAIN waiters' : waiters'[i] = x)
                 <=> (phase'[x] = "parked" /\ x \notin signalled')
    <3>1. CASE x = d
      <4>1. n \in DOMAIN waiters'
        BY <2>1
      <4>2. phase'[d] = "parked"
        BY <2>2
      <4> QED BY <3>1, <4>1, <4>2, <2>1, <2>2, <2>3
    <3>2. CASE x # d
      <4>0. \A i \in DOMAIN waiters' : i = n \/ i \in DOMAIN waiters
        BY <2>1
      <4>1. (\E i \in DOMAIN waiters' : waiters'[i] = x) <=> (\E i \in DOMAIN waiters : waiters[i] = x)
        BY <3>2, <4>0, <2>1
      <4> QED BY <3>2, <4>1, <2>2
    <3> QED BY <3>1, <3>2
  <2>6. SignalledParked'
    BY <2>2
  <2> QED BY <2>4, <2>5, <2>6
<1>2. ASSUME NEW c \in Commands, NotifyFree(c) PROVE QueueInv'
  <2>0. phase' = phase
    BY <1>2 DEF NotifyFree, callerVars
  <2>1. CASE waiters = <<>>
    BY <1>2, <2>0, <2>1 DEF NotifyFree
  <2>2. CASE waiters # <<>>
    <3> DEFINE h == Head(waiters)
    <3>1. waiters' = Tail(waiters) /\ signalled' = signalled \cup {h}
      BY <1>2, <2>2, Zenon DEF NotifyFree
    <3>2. /\ Len(waiters) \in Nat \ {0}
          /\ DOMAIN waiters = 1..Len(waiters)
          /\ DOMAIN waiters' = 1..(Len(waiters) - 1)
          /\ h = waiters[1] /\ h \in Callers
          /\ \A i \in DOMAIN waiters' : i + 1 \in DOMAIN waiters /\ waiters'[i] = waiters[i + 1]
      BY <2>2, <3>1
    <3>3. phase[h] = "parked" /\ h \notin signalled
      BY <3>2
    <3>4. ASSUME NEW i \in DOMAIN waiters' PROVE waiters'[i] # h
      <4>1. i + 1 \in DOMAIN waiters /\ 1 \in DOMAIN waiters /\ i + 1 # 1
        BY <3>2
      <4> QED BY <4>1, <3>2
    <3>5. \A i, j \in DOMAIN waiters' : waiters'[i] = waiters'[j] => i = j
      BY <3>2
    <3>6. ASSUME NEW x \in Callers
          PROVE  (\E i \in DOMAIN waiters' : waiters'[i] = x)
                   <=> (phase'[x] = "parked" /\ x \notin signalled')
      <4>1. CASE x = h
        BY <4>1, <3>1, <3>4
      <4>2. CASE x # h
        <5>1. ASSUME NEW i \in DOMAIN waiters, waiters[i] = x
              PROVE  \E j \in DOMAIN waiters' : waiters'[j] = x
          <6>1. i # 1
            BY <4>2, <5>1, <3>2
          <6>2. i - 1 \in DOMAIN waiters' /\ (i - 1) + 1 = i
            BY <6>1, <3>2
          <6> QED BY <6>2, <5>1, <3>2
        <5>2. (\E i \in DOMAIN waiters' : waiters'[i] = x) <=> (\E i \in DOMAIN waiters : waiters[i] = x)
          BY <5>1, <3>2
        <5> QED BY <4>2, <5>2, <3>1, <2>0
      <4> QED BY <4>1, <4>2
    <3>7. SignalledParked'
      BY <3>1, <3>3, <2>0
    <3> QED BY <3>5, <3>6, <3>7
  <2> QED BY <2>1, <2>2
<1>3. ASSUME NEW d \in Callers, Resume(d) PROVE QueueInv'
  <2>1. /\ waiters' = waiters /\ signalled' = signalled \ {d}
        /\ phase[d] = "parked" /\ d \in signalled /\ phase' = [phase EXCEPT ![d] = "get"]
    BY <1>3 DEF Resume
  <2> QED BY <2>1
<1>4. ASSUME UNCHANGED <<waiters, signalled>>,
             \A d \in Callers : phase'[d] = "parked" <=> phase[d] = "parked"
      PROVE  QueueInv'
  BY <1>4
<1> USE DEF poolVars, callerVars, jobVars, chanVars
<1>5. ASSUME NEW d \in Callers, CallerStep(d), ~WaitFree(d), ~Resume(d) PROVE QueueInv'
  BY <1>4, <1>5 DEF CallerStep, TakeCommand, GetExecutor, GetNothing, EndLoop, ReturnBatch
<1>6. ASSUME NEW c \in Commands, JobStep(c), ~NotifyFree(c) PROVE QueueInv'
  BY <1>4, <1>6 DEF JobStep, Execute, BackExecutor, Send, SendFails
<1>7. CASE Environment
  BY <1>4, <1>7 DEF Environment, Offer, CloseInput, Receive, DropReceiver
<1>8. CASE UNCHANGED vars
  BY <1>4, <1>8 DEF vars
<1> QED BY <1>1, <1>2, <1>3, <1>5, <1>6, <1>7, <1>8 DEF Next

(* A caller is in the waiters' queue, once, exactly while its oneshot is   *)
(* still to fire: notify_free never wakes a caller twice, nor one that has *)
(* gone on (pool.rs 212-229).                                              *)
THEOREM WaitersAreExact == Spec => []WaiterQueueExact
<1>1. Init => Typing /\ QueueInv
  BY InitTyping, InitQueue
<1>2. Typing /\ QueueInv /\ [Next]_vars => (Typing /\ QueueInv)'
  BY NextTyping, NextQueue
<1>3. QueueInv => WaiterQueueExact
  BY DEF QueueInv
<1> QED BY <1>1, <1>2, <1>3, PTL DEF Spec
-----------------------------------------------------------------------------
(* A batch that joins has an input that has ended and nothing left to      *)
(* spawn; one that has returned has no task left, and reported the failed. *)
JoinInv ==
    \A d \in Callers :
        /\ phase[d] \in {"join", "returned"} => d \in closed /\ Pending(d) = {}
        /\ phase[d] = "returned" =>
             /\ report[d] = Failed(d)
             /\ \A c \in Batch(d) : job[c] \in {"none", "done"}

LEMMA InitJoin == Init => JoinInv
BY DEF Init, JoinInv

LEMMA NextJoin == Typing /\ JoinInv /\ [Next]_vars => JoinInv'
<1> SUFFICES ASSUME Typing, JoinInv, [Next]_vars PROVE JoinInv'
  OBVIOUS
<1> USE PoolAssumption DEF Typing, TypeOK
<1>1. ASSUME NEW d \in Callers, CallerStep(d) PROVE JoinInv'
  <2>1. CASE TakeCommand(d)
    BY <2>1 DEF TakeCommand, JoinInv, Pending, Batch, Failed, poolVars, jobVars, chanVars
  <2>2. CASE GetExecutor(d)
    <3>1. /\ phase[d] = "get" /\ phase' = [phase EXCEPT ![d] = "loop"]
          /\ job' = [job EXCEPT ![cur[d]] = "execute"]
          /\ UNCHANGED <<offered, closed, report, result>>
      BY <2>2 DEF GetExecutor
    <3>2. cur[d] \in Commands /\ Owner[cur[d]] = d
      BY <3>1 DEF RequestOpen
    <3>3. \A c \in Commands : c # cur[d] => job'[c] = job[c]
      BY <3>1
    <3>4. \A x \in Callers : x # d => phase'[x] = phase[x] /\ cur[d] \notin Batch(x)
      BY <3>1, <3>2 DEF Batch
    <3>5. phase'[d] = "loop"
      BY <3>1
    <3> QED BY <3>1, <3>3, <3>4, <3>5 DEF JoinInv, Pending, Batch, Failed
  <2>3. CASE GetNothing(d) \/ WaitFree(d) \/ Resume(d)
    BY <2>3 DEF GetNothing, WaitFree, Resume, JoinInv, Pending, Batch, Failed,
                poolVars, jobVars, chanVars
  <2>4. CASE EndLoop(d)
    BY <2>4 DEF EndLoop, JoinInv, Pending, Batch, Failed, poolVars, jobVars, chanVars
  <2>5. CASE ReturnBatch(d)
    BY <2>5 DEF ReturnBatch, JoinInv, Pending, Batch, Failed, poolVars, jobVars, chanVars
  <2> QED BY <1>1, <2>1, <2>2, <2>3, <2>4, <2>5 DEF CallerStep
\* A task that takes a step has a caller that has not returned.
<1>2. ASSUME NEW c \in Commands, JobStep(c) PROVE JoinInv'
  <2>1. /\ job[c] \notin {"none", "done"}
        /\ UNCHANGED callerVars
        /\ \A b \in Commands : b # c => job'[b] = job[b] /\ result'[b] = result[b]
        /\ job'[c] # "none"
    BY <1>2 DEF JobStep, Execute, BackExecutor, NotifyFree, Send, SendFails, poolVars
  <2>2. phase[Owner[c]] # "returned" /\ \A x \in Callers : x # Owner[c] => c \notin Batch(x)
    BY <2>1 DEF JoinInv, Batch
  <2> QED BY <2>1, <2>2 DEF JoinInv, Pending, Batch, Failed, callerVars
<1>3. CASE Environment
  <2>1. ASSUME NEW c \in Commands, Offer(c) PROVE JoinInv'
    BY <2>1 DEF Offer, JoinInv, Pending, Batch, Failed, jobVars
  <2>2. ASSUME NEW d \in Callers, CloseInput(d) \/ Receive(d) \/ DropReceiver(d) PROVE JoinInv'
    BY <2>2 DEF CloseInput, Receive, DropReceiver, JoinInv, Pending, Batch, Failed, callerVars, jobVars
  <2> QED BY <1>3, <2>1, <2>2 DEF Environment
<1>4. CASE UNCHANGED vars
  BY <1>4 DEF vars, JoinInv, Pending, Batch, Failed
<1> QED BY <1>1, <1>2, <1>3, <1>4 DEF Next

(* When a batch returns, none of its commands runs any more, and its       *)
(* report names exactly those that failed (join_executor_handlers, pool.rs *)
(* 99-115, 145-176).                                                       *)
THEOREM ReturnedBatchesAreOver == Spec => []ReturnedMeansOver
<1>1. Init => Typing /\ JoinInv
  BY InitTyping, InitJoin
<1>2. Typing /\ JoinInv /\ [Next]_vars => (Typing /\ JoinInv)'
  BY NextTyping, NextJoin
<1>3. Typing /\ JoinInv => ReturnedMeansOver
  BY PoolAssumption DEF Typing, TypeOK, JoinInv, ReturnedMeansOver, Pending, Failed, Batch
<1> QED BY <1>1, <1>2, <1>3, PTL DEF Spec

-----------------------------------------------------------------------------
LEMMA InitLending == Init => Abstract!LendingInit
BY DEF Init, Abstract!LendingInit

LEMMA NextLending ==
    Typing /\ ExecutorsExact /\ [Next]_vars => [Abstract!LendingNext]_(Abstract!lendingVars)
<1> DEFINE Ended == {c \in Commands : job[c] \in {"notify", "send", "done"}}
<1> DEFINE Answered == {d \in Callers : phase[d] = "returned"}
<1> SUFFICES ASSUME Typing, ExecutorsExact, [Next]_vars
             PROVE  \/ \E c \in Commands : Abstract!Begin(c) \/ Abstract!End(c)
                    \/ \E d \in Callers : Abstract!Answer(d)
                    \/ held' = held /\ Ended' = Ended /\ Answered' = Answered
  BY DEF Abstract!LendingNext, Abstract!lendingVars
<1> USE PoolAssumption DEF Typing, TypeOK
<1>1. ASSUME NEW d \in Callers, GetExecutor(d) PROVE Abstract!Begin(cur[d])
  <2> DEFINE c == cur[d]
  <2> DEFINE e == Head(executors)
  <2>1. /\ phase[d] = "get" /\ executors # <<>>
        /\ held' = [held EXCEPT ![c] = e]
        /\ job' = [job EXCEPT ![c] = "execute"]
        /\ phase' = [phase EXCEPT ![d] = "loop"]
    BY <1>1 DEF GetExecutor
  <2>2. c \in Commands /\ Owner[c] = d /\ job[c] = "none" /\ held[c] = NoExecutor
    BY <2>1 DEF RequestOpen
  <2>3. e \in Executors /\ e = executors[1] /\ 1 \in DOMAIN executors
    BY <2>1
  <2>4. \A b \in Commands : held[b] # e
    BY <2>3 DEF ExecutorsExact, ExecutorExclusive, Leases
  <2>5. Ended' = Ended
    BY <2>1, <2>2
  <2>6. Answered' = Answered
    BY <2>1
  <2>7. c \notin Ended /\ Owner[c] \notin Answered
    BY <2>1, <2>2
  <2> QED BY <2>1, <2>2, <2>3, <2>4, <2>5, <2>6, <2>7 DEF Abstract!Begin
<1>2. ASSUME NEW c \in Commands, BackExecutor(c) PROVE Abstract!End(c)
  <2>1. /\ job[c] = "back" /\ phase' = phase
        /\ held' = [held EXCEPT ![c] = NoExecutor]
        /\ job' = [job EXCEPT ![c] = "notify"]
    BY <1>2 DEF BackExecutor, callerVars
  <2>2. held[c] # NoExecutor
    BY <2>1 DEF RequestOpen
  <2>3. Ended' = Ended \cup {c}
    BY <2>1
  <2>4. Answered' = Answered
    BY <2>1
  <2> QED BY <2>1, <2>2, <2>3, <2>4 DEF Abstract!End
<1>3. ASSUME NEW d \in Callers, ReturnBatch(d) PROVE Abstract!Answer(d)
  <2>1. /\ phase[d] = "join" /\ phase' = [phase EXCEPT ![d] = "returned"]
        /\ job' = job /\ held' = held
        /\ \A c \in Batch(d) : job[c] \in {"none", "done"}
    BY <1>3 DEF ReturnBatch, jobVars
  <2>2. \A c \in Commands : Owner[c] = d => held[c] = NoExecutor
    BY <2>1 DEF RequestOpen, Batch
  <2>3. Answered' = Answered \cup {d} /\ d \notin Answered
    BY <2>1
  <2> QED BY <2>1, <2>2, <2>3 DEF Abstract!Answer
\* All other steps are invisible in the abstract specification.
<1> USE DEF poolVars, callerVars, jobVars, chanVars
<1>4. ASSUME NEW d \in Callers, CallerStep(d), ~GetExecutor(d), ~ReturnBatch(d)
      PROVE  held' = held /\ Ended' = Ended /\ Answered' = Answered
  BY <1>4 DEF CallerStep, TakeCommand, GetNothing, WaitFree, Resume, EndLoop
<1>5. ASSUME NEW c \in Commands, JobStep(c), ~BackExecutor(c)
      PROVE  held' = held /\ Ended' = Ended /\ Answered' = Answered
  BY <1>5 DEF JobStep, Execute, NotifyFree, Send, SendFails
<1>6. CASE Environment
  BY <1>6 DEF Environment, Offer, CloseInput, Receive, DropReceiver
<1>7. CASE UNCHANGED vars
  BY <1>7 DEF vars
<1>8. \A d \in Callers : GetExecutor(d) => cur[d] \in Commands
  BY DEF GetExecutor, RequestOpen
<1> QED BY <1>1, <1>2, <1>3, <1>4, <1>5, <1>6, <1>7, <1>8 DEF Next, CallerStep, JobStep

(* Pool implements Lending: seen by its callers, a pool of any size runs   *)
(* every command at most once, on an executor of its own, and answers a    *)
(* batch only when nothing of it runs (pool.rs 37-229).                    *)
THEOREM PoolLends == Spec => ImplementsLending
<1>1. Init => Typing /\ ExecutorsExact
  BY InitTyping, InitExclusive
<1>2. Typing /\ ExecutorsExact /\ [Next]_vars => (Typing /\ ExecutorsExact)'
  BY NextTyping, NextExclusive
<1> QED BY <1>1, <1>2, InitLending, NextLending, PTL
        DEF Spec, ImplementsLending, Abstract!LendingSpec
=============================================================================
