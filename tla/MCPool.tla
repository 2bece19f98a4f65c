------------------------------- MODULE MCPool -------------------------------
(***************************************************************************)
(* Instances of Pool for TLC: two callers share the pool.  The batch of d1 *)
(* is a Vec (batch_execute_with_sender), the one of d2 comes from a        *)
(* channel (batch_execute_with_receiver).                                  *)
(***************************************************************************)
EXTENDS Pool, TLC

CONSTANTS d1, d2, c1, c2, c3, c4, e1, e2

MCCallers == {d1, d2}
MCOneCaller == {d1}
MCOwner3 == c1 :> d1 @@ c2 :> d1 @@ c3 :> d2
MCOwner4 == [c \in {c1, c2, c3, c4} |-> d1]
MCStreaming == {d2}
MCNoStreaming == {}
=============================================================================
