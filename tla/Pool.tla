-------------------------------- MODULE Pool --------------------------------
(***************************************************************************)
(* The executor pool of the downloader (downloader/src/pool.rs).           *)
(*                                                                         *)
(* A Pool owns a fixed number of executors (HTTP clients, or bucket files) *)
(* in a VecDeque behind one async mutex, and a VecDeque of oneshot senders *)
(* (the tasks waiting for an executor) behind ANOTHER async mutex.  A      *)
(* caller of batch_execute_with_sender or batch_execute_with_receiver runs *)
(* a loop that borrows an executor for each of its commands and spawns a   *)
(* task that executes the command, gives the executor back, notifies one   *)
(* waiter and sends the result to the caller's bounded channel.            *)
(*                                                                         *)
(* Every acquisition of a mutex is a step of its own, because the code     *)
(* releases the executors' mutex before it takes the waiters' one.         *)
(***************************************************************************)
EXTENDS Naturals, Sequences, FiniteSets

CONSTANTS
    Executors,   \* the executors the pool is created with
    Callers,     \* the tasks that call one of the batch_execute functions
    Commands,    \* the commands of all the batches
    Owner,       \* Owner[c] is the caller whose batch holds command c
    Streaming,   \* callers of batch_execute_with_receiver
    ChanCap,     \* capacity of a caller's result channel
    NoExecutor,  \* held[c] of a command that holds no executor
    NoCommand    \* cur[d] of a caller that has taken no command yet

ASSUME PoolAssumption ==
    /\ IsFiniteSet(Executors)
    /\ NoExecutor \notin Executors
    /\ NoCommand \notin Commands
    /\ Owner \in [Commands -> Callers]
    /\ Streaming \subseteq Callers
    /\ ChanCap \in Nat \ {0}

VARIABLES
    executors,   \* Pool.executors: the idle executors, oldest first
    waiters,     \* Pool.waiters: the callers whose oneshot sender is queued
    signalled,   \* callers whose oneshot has fired and not been awaited yet
    phase,       \* where each caller is in its loop and in create_request
    cur,         \* the command the caller is creating a request for
    offered,     \* commands the caller's input has produced so far
    closed,      \* callers whose input has ended
    job,         \* where the task spawned for a command is
    held,        \* the executor inside the command's PoolRequest
    result,      \* what the command's task has computed
    inbox,       \* results in the caller's channel
    open,        \* callers whose result receiver still exists
    report       \* the failed list of the batch, once it has returned

vars == <<executors, waiters, signalled, phase, cur, offered, closed,
          job, held, result, inbox, open, report>>
poolVars   == <<executors, waiters, signalled>>
callerVars == <<phase, cur, offered, closed, report>>
jobVars    == <<job, held, result>>
chanVars   == <<inbox, open>>

Batch(d)  == {c \in Commands : Owner[c] = d}
Pending(d) == {c \in Batch(d) \cap offered : job[c] = "none"}
Failed(d) == {c \in Batch(d) : result[c] \in {"exec_err", "send_err"}}

Init ==
    /\ \E q \in [1..Cardinality(Executors) -> Executors] :
         /\ \A e \in Executors : \E i \in DOMAIN q : q[i] = e
         /\ \A i, j \in DOMAIN q : q[i] = q[j] => i = j
         /\ executors = q
    /\ waiters = <<>>
    /\ signalled = {}
    /\ phase = [d \in Callers |-> "loop"]
    /\ cur = [d \in Callers |-> NoCommand]
    /\ offered = {c \in Commands : Owner[c] \notin Streaming}
    /\ closed = Callers \ Streaming
    /\ job = [c \in Commands |-> "none"]
    /\ held = [c \in Commands |-> NoExecutor]
    /\ result = [c \in Commands |-> "none"]
    /\ inbox = [d \in Callers |-> {}]
    /\ open = Callers
    /\ report = [d \in Callers |-> {}]

-----------------------------------------------------------------------------
(* The input of batch_execute_with_receiver: a channel another task fills. *)

Offer(c) ==
    /\ c \notin offered
    /\ Owner[c] \notin closed
    /\ offered' = offered \cup {c}
    /\ UNCHANGED <<poolVars, phase, cur, closed, report, jobVars, chanVars>>

CloseInput(d) ==
    /\ d \notin closed
    /\ closed' = closed \cup {d}
    /\ UNCHANGED <<poolVars, phase, cur, offered, report, jobVars, chanVars>>

-----------------------------------------------------------------------------
(* The caller's loop and create_request.                                   *)

\* for command in commands / while let Some(command) = receiver.recv().await
TakeCommand(d) ==
    /\ phase[d] = "loop"
    /\ \E c \in Pending(d) : cur' = [cur EXCEPT ![d] = c]
    /\ phase' = [phase EXCEPT ![d] = "get"]
    /\ UNCHANGED <<poolVars, offered, closed, report, jobVars, chanVars>>

\* Mutant: get_executor reads the front of the deque without popping it.
GetExecutor_Peek(d) ==
    /\ phase[d] = "get"
    /\ executors # <<>>
    /\ held' = [held EXCEPT ![cur[d]] = Head(executors)]
    /\ job' = [job EXCEPT ![cur[d]] = "execute"]
    /\ phase' = [phase EXCEPT ![d] = "loop"]
    /\ cur' = [cur EXCEPT ![d] = NoCommand]
    /\ UNCHANGED <<poolVars, offered, closed, report, result, chanVars>>

\* get_executor returns Some: the PoolRequest is built and its task spawned.
GetExecutor(d) ==
    /\ phase[d] = "get"
    /\ executors # <<>>
    /\ executors' = Tail(executors)
    /\ held' = [held EXCEPT ![cur[d]] = Head(executors)]
    /\ job' = [job EXCEPT ![cur[d]] = "execute"]
    /\ phase' = [phase EXCEPT ![d] = "loop"]
    /\ cur' = [cur EXCEPT ![d] = NoCommand]
    /\ UNCHANGED <<waiters, signalled, offered, closed, report, result, chanVars>>

\* get_executor returns None, and its mutex is released.
GetNothing(d) ==
    /\ phase[d] = "get"
    /\ executors = <<>>
    /\ phase' = [phase EXCEPT ![d] = "enqueue"]
    /\ UNCHANGED <<poolVars, cur, offered, closed, report, jobVars, chanVars>>

\* wait_free queues the oneshot sender, without looking at executors again.
WaitFree(d) ==
    /\ phase[d] = "enqueue"
    /\ waiters' = Append(waiters, d)
    /\ phase' = [phase EXCEPT ![d] = "parked"]
    /\ UNCHANGED <<executors, signalled, cur, offered, closed, report, jobVars, chanVars>>

\* rx.await completes, and create_request calls itself.
Resume(d) ==
    /\ phase[d] = "parked"
    /\ d \in signalled
    /\ signalled' = signalled \ {d}
    /\ phase' = [phase EXCEPT ![d] = "get"]
    /\ UNCHANGED <<executors, waiters, cur, offered, closed, report, jobVars, chanVars>>

\* The input has ended and the handlers are joined (join_executor_handlers).
EndLoop(d) ==
    /\ phase[d] = "loop"
    /\ d \in closed
    /\ Pending(d) = {}
    /\ phase' = [phase EXCEPT ![d] = "join"]
    /\ UNCHANGED <<poolVars, cur, offered, closed, report, jobVars, chanVars>>

\* Mutant: the first failed handler ends the join.
ReturnBatch_FailFast(d) ==
    /\ phase[d] = "join"
    /\ \/ Failed(d) # {}
       \/ \A c \in Batch(d) : job[c] \in {"none", "done"}
    /\ phase' = [phase EXCEPT ![d] = "returned"]
    /\ report' = [report EXCEPT ![d] = Failed(d)]
    /\ UNCHANGED <<poolVars, cur, offered, closed, jobVars, chanVars>>

ReturnBatch(d) ==
    /\ phase[d] = "join"
    /\ \A c \in Batch(d) : job[c] \in {"none", "done"}
    /\ phase' = [phase EXCEPT ![d] = "returned"]
    /\ report' = [report EXCEPT ![d] = Failed(d)]
    /\ UNCHANGED <<poolVars, cur, offered, closed, jobVars, chanVars>>

-----------------------------------------------------------------------------
(* The spawned task: PoolRequest::execute, then the send of its result.    *)

\* Mutant: executor.execute(command).await? returns before back_executor.
Execute_EarlyReturn(c) ==
    /\ job[c] = "execute"
    /\ \/ /\ result' = [result EXCEPT ![c] = "ok"]
          /\ job' = [job EXCEPT ![c] = "back"]
          /\ UNCHANGED held
       \/ /\ result' = [result EXCEPT ![c] = "exec_err"]
          /\ job' = [job EXCEPT ![c] = "done"]
          /\ held' = [held EXCEPT ![c] = NoExecutor]
    /\ UNCHANGED <<poolVars, callerVars, chanVars>>

Execute(c) ==
    /\ job[c] = "execute"
    /\ \E r \in {"ok", "exec_err"} : result' = [result EXCEPT ![c] = r]
    /\ job' = [job EXCEPT ![c] = "back"]
    /\ UNCHANGED <<poolVars, callerVars, held, chanVars>>

\* Mutant: the executor is given back only when the result can be sent.
BackExecutor_AfterSend(c) ==
    /\ job[c] = "back"
    /\ result[c] = "ok" /\ Owner[c] \in open
         => Cardinality(inbox[Owner[c]]) < ChanCap
    /\ executors' = Append(executors, held[c])
    /\ held' = [held EXCEPT ![c] = NoExecutor]
    /\ job' = [job EXCEPT ![c] = "notify"]
    /\ UNCHANGED <<waiters, signalled, callerVars, result, chanVars>>

BackExecutor(c) ==
    /\ job[c] = "back"
    /\ executors' = Append(executors, held[c])
    /\ held' = [held EXCEPT ![c] = NoExecutor]
    /\ job' = [job EXCEPT ![c] = "notify"]
    /\ UNCHANGED <<waiters, signalled, callerVars, result, chanVars>>

\* Mutant: the oneshot fires but stays in the queue.
NotifyFree_Peek(c) ==
    /\ job[c] = "notify"
    /\ signalled' = IF waiters = <<>> THEN signalled ELSE signalled \cup {Head(waiters)}
    /\ job' = [job EXCEPT ![c] = IF result[c] = "ok" THEN "send" ELSE "done"]
    /\ UNCHANGED <<executors, waiters, callerVars, held, result, chanVars>>

\* notify_free fires the oldest oneshot, or does nothing when there is none.
NotifyFree(c) ==
    /\ job[c] = "notify"
    /\ \/ /\ waiters # <<>>
          /\ waiters' = Tail(waiters)
          /\ signalled' = signalled \cup {Head(waiters)}
       \/ /\ waiters = <<>>
          /\ UNCHANGED <<waiters, signalled>>
    /\ job' = [job EXCEPT ![c] = IF result[c] = "ok" THEN "send" ELSE "done"]
    /\ UNCHANGED <<executors, callerVars, held, result, chanVars>>

\* sender.send(result).await waits for room in the channel.
Send(c) ==
    /\ job[c] = "send"
    /\ Owner[c] \in open
    /\ Cardinality(inbox[Owner[c]]) < ChanCap
    /\ inbox' = [inbox EXCEPT ![Owner[c]] = @ \cup {c}]
    /\ job' = [job EXCEPT ![c] = "done"]
    /\ UNCHANGED <<poolVars, callerVars, held, result, open>>

\* The receiver is gone: PoolExecutorError::SendError.
SendFails(c) ==
    /\ job[c] = "send"
    /\ Owner[c] \notin open
    /\ result' = [result EXCEPT ![c] = "send_err"]
    /\ job' = [job EXCEPT ![c] = "done"]
    /\ UNCHANGED <<poolVars, callerVars, held, chanVars>>

-----------------------------------------------------------------------------
(* The task that reads the results: it may be slow, stop reading, or drop  *)
(* the receiver with what the channel still holds.                         *)

Receive(d) ==
    /\ \E c \in inbox[d] : inbox' = [inbox EXCEPT ![d] = @ \ {c}]
    /\ UNCHANGED <<poolVars, callerVars, jobVars, open>>

DropReceiver(d) ==
    /\ d \in open
    /\ open' = open \ {d}
    /\ inbox' = [inbox EXCEPT ![d] = {}]
    /\ UNCHANGED <<poolVars, callerVars, jobVars>>

-----------------------------------------------------------------------------
CallerStep(d) ==
    \/ TakeCommand(d) \/ GetExecutor(d) \/ GetNothing(d) \/ WaitFree(d)
    \/ Resume(d) \/ EndLoop(d) \/ ReturnBatch(d)

JobStep(c) ==
    Execute(c) \/ BackExecutor(c) \/ NotifyFree(c) \/ Send(c) \/ SendFails(c)

Environment ==
    \/ \E c \in Commands : Offer(c)
    \/ \E d \in Callers : CloseInput(d) \/ Receive(d) \/ DropReceiver(d)

Next ==
    \/ \E d \in Callers : CallerStep(d)
    \/ \E c \in Commands : JobStep(c)
    \/ Environment

Spec == Init /\ [][Next]_vars

(* The tokio runtime polls every task that is ready, so each caller and    *)
(* each spawned task is weakly fair.  Nothing is assumed of the task that  *)
(* reads the results.                                                      *)
FairSpec ==
    /\ Spec
    /\ \A d \in Callers : WF_vars(CallerStep(d))
    /\ \A c \in Commands : WF_vars(JobStep(c))

\* In addition the inputs end and the results are read, as in http/pool.rs' test.
DrainedSpec ==
    /\ FairSpec
    /\ \A d \in Callers : WF_vars(CloseInput(d)) /\ WF_vars(Receive(d))

-----------------------------------------------------------------------------
(* Properties.                                                             *)

TypeOK ==
    /\ executors \in Seq(Executors)
    /\ waiters \in Seq(Callers)
    /\ signalled \subseteq Callers
    /\ phase \in [Callers -> {"loop", "get", "enqueue", "parked", "join", "returned"}]
    /\ cur \in [Callers -> Commands \cup {NoCommand}]
    /\ offered \subseteq Commands
    /\ closed \subseteq Callers
    /\ job \in [Commands -> {"none", "execute", "back", "notify", "send", "done"}]
    /\ held \in [Commands -> Executors \cup {NoExecutor}]
    /\ result \in [Commands -> {"none", "ok", "exec_err", "send_err"}]
    /\ inbox \in [Callers -> SUBSET Commands]
    /\ open \subseteq Callers
    /\ report \in [Callers -> SUBSET Commands]

Leases == {c \in Commands : held[c] # NoExecutor}

(* An executor is never lent twice, nor lent while it is idle: two tasks   *)
(* never write the same bucket file at once, which do_add_package relies   *)
(* on although NpmBucketStore has no lock of its own inside the process.   *)
ExecutorExclusive ==
    /\ \A i, j \in DOMAIN executors : executors[i] = executors[j] => i = j
    /\ \A c \in Leases : \A i \in DOMAIN executors : executors[i] # held[c]
    /\ \A a, b \in Leases : held[a] = held[b] => a = b

(* No executor is lost: each is idle or inside exactly the requests whose  *)
(* task has yet to give it back, failed executions included.  Without it   *)
(* into_inner would return fewer buckets than NpmStore::new opened, and    *)
(* shutdown would leave a file unflushed and locked.                       *)
ExecutorConserved ==
    /\ \A e \in Executors :
         \/ \E i \in DOMAIN executors : executors[i] = e
         \/ \E c \in Commands : held[c] = e
    /\ \A c \in Commands : c \in Leases <=> job[c] \in {"execute", "back"}

(* Every executor is in one place: idle, or lent to one running command.   *)
ExecutorsExact == ExecutorExclusive /\ ExecutorConserved

(* A caller is in the waiters' queue, once, exactly while it is parked and *)
(* its oneshot has not fired, so a notification is never spent on a task   *)
(* that no longer waits nor twice on the same one.                         *)
WaiterQueueExact ==
    /\ \A i, j \in DOMAIN waiters : waiters[i] = waiters[j] => i = j
    /\ \A d \in Callers :
         (\E i \in DOMAIN waiters : waiters[i] = d)
           <=> (phase[d] = "parked" /\ d \notin signalled)

(* When a batch returns, its failed list names exactly the commands that   *)
(* ended badly and none of its commands still holds an executor, runs or   *)
(* waits for room in the channel (join_executor_handlers joins all).       *)
ReturnedMeansOver ==
    \A d \in Callers : phase[d] = "returned" =>
        /\ report[d] = {c \in Batch(d) : result[c] \notin {"none", "ok"}}
        /\ \A c \in Batch(d) \cap offered : job[c] = "done"

(* A borrowed executor comes back although nobody reads the results and    *)
(* the channel is full: execute gives it back before the send.             *)
ExecutorComesBack ==
    \A c \in Commands : (held[c] # NoExecutor) ~> (held[c] = NoExecutor)

(* The chain of wake-ups: while some executor is out, or a task holds a    *)
(* wake-up it has not used, every parked caller is eventually woken.  The  *)
(* only way to be parked for ever is to park after the last notification.  *)
WakeUpInFlight ==
    \/ \E c \in Commands : job[c] \in {"execute", "back", "notify"}
    \/ signalled # {}
WakeUpChain ==
    \A d \in Callers :
        (phase[d] = "parked" /\ WakeUpInFlight) ~> (phase[d] # "parked")

(* Nothing stalls: neither a lent executor nor a caller still to be woken. *)
NothingStalls == ExecutorComesBack /\ WakeUpChain

(* What http/pool.rs' test_pool expects of a pool with more commands than  *)
(* executors: batch_execute returns.                                       *)
BatchReturns == \A d \in Callers : <>(phase[d] = "returned")

(* Pool implements Lending: the executor a command runs on is the one in   *)
(* its PoolRequest, and its execution ends when it gives the executor back.*)
Abstract == INSTANCE Lending WITH
    on <- held,
    ended <- {c \in Commands : job[c] \in {"notify", "send", "done"}},
    answered <- {d \in Callers : phase[d] = "returned"}
ImplementsLending == Abstract!LendingSpec
=============================================================================
