------------------------------ MODULE Lending -------------------------------
(***************************************************************************)
(* What a caller may expect of a pool (downloader/src/pool.rs), without    *)
(* its queues: every command is executed at most once, on an executor that *)
(* no other command uses meanwhile, and a batch answers only once all the  *)
(* commands it took have ended.  Pool implements this specification.       *)
(***************************************************************************)
CONSTANTS Executors, Commands, Callers, Owner, NoExecutor

VARIABLES
    on,        \* on[c]: the executor the command runs on, or NoExecutor
    ended,     \* commands whose execution is over
    answered   \* callers whose batch has returned

lendingVars == <<on, ended, answered>>

LendingInit ==
    /\ on = [c \in Commands |-> NoExecutor]
    /\ ended = {}
    /\ answered = {}

Begin(c) ==
    /\ c \notin ended
    /\ on[c] = NoExecutor
    /\ Owner[c] \notin answered
    /\ \E e \in Executors :
         /\ \A b \in Commands : on[b] # e
         /\ on' = [on EXCEPT ![c] = e]
    /\ UNCHANGED <<ended, answered>>

End(c) ==
    /\ on[c] # NoExecutor
    /\ on' = [on EXCEPT ![c] = NoExecutor]
    /\ ended' = ended \cup {c}
    /\ UNCHANGED answered

Answer(d) ==
    /\ d \notin answered
    /\ \A c \in Commands : Owner[c] = d => on[c] = NoExecutor
    /\ answered' = answered \cup {d}
    /\ UNCHANGED <<on, ended>>

LendingNext ==
    \/ \E c \in Commands : Begin(c) \/ End(c)
    \/ \E d \in Callers : Answer(d)

LendingSpec == LendingInit /\ [][LendingNext]_lendingVars
=============================================================================
