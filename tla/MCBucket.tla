------------------------------ MODULE MCBucket ------------------------------
(***************************************************************************)
(* Instances of Bucket for TLC.  Package a has a package.json (listened)   *)
(* followed by another file, package b has nothing but a package.json.     *)
(***************************************************************************)
EXTENDS Bucket, TLC

CONSTANTS a, b, p1, p2

MCEntryCount == a :> 2 @@ b :> 1
MCOnlyB == b :> 1
MCListened == {<<a, 1>>, <<b, 1>>}
=============================================================================
