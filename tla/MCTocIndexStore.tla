-------------------------- MODULE MCTocIndexStore ---------------------------
(***************************************************************************)
(* An instance of TocIndexStore for TLC: package a is added twice, to the  *)
(* bucket that b also goes to and to another one (two concurrent           *)
(* downloads of one package), and one reader asks for it.                  *)
(***************************************************************************)
EXTENDS TocIndexStore, TLC

CONSTANTS a, b, c, s0, s1, t1, t2, t3, t4, d1, d2

MCEntryCount == a :> 2 @@ b :> 1 @@ c :> 0
MCPackage == t1 :> a @@ t2 :> b @@ t3 :> a @@ t4 :> c
MCBucketOf == t1 :> s0 @@ t2 :> s0 @@ t3 :> s1 @@ t4 :> s0
MCWanted == d1 :> a @@ d2 :> b
=============================================================================
