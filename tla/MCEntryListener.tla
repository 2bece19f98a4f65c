-------------------------- MODULE MCEntryListener --------------------------
(* Three packages through two buckets and the reuse task: pa's package.json *)
(* is larger than a pipe, pb has a binding.gyp and a nested package.json,   *)
(* pr is reused. Retries and truncated entries come in every order.         *)
EXTENDS EntryListener

CONSTANTS pa, pb, pr

MCFiles == pa :> <<"json">> @@ pb :> <<"nested", "gyp">> @@ pr :> <<"json">>

=============================================================================
