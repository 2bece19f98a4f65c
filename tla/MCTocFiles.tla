----------------------------- MODULE MCTocFiles -----------------------------
(***************************************************************************)
(* Instances of TocFiles for TLC: packages of two sizes.                   *)
(***************************************************************************)
EXTENDS TocFiles, TLC

CONSTANTS a, b, c, s0, s1, p1, p2

MCEntryCount == a :> 2 @@ b :> 1
MCEntryCountA == a :> 2
MCEntryCount3 == a :> 2 @@ b :> 1 @@ c :> 1
=============================================================================
