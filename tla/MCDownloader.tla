---------------------------- MODULE MCDownloader ----------------------------
(***************************************************************************)
(* Instances of Downloader for TLC.                                        *)
(***************************************************************************)
EXTENDS Downloader
=============================================================================
