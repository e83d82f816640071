----------------------------- MODULE MCDownload -----------------------------
(***************************************************************************)
(* Instances of Download for TLC: files of as many blocks.                 *)
(***************************************************************************)
EXTENDS Download

MCOneFile == <<1>>
MCTwoFiles == <<3, 2>>
=============================================================================
